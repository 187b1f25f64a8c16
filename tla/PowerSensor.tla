---------------------------- MODULE PowerSensor -----------------------------
(***************************************************************************)
(* The sensing side of the RTU: app_main programs an INA209 power monitor  *)
(* over I2C and starts readINA, which samples three of its registers every *)
(* 10 ms and publishes them as Modbus input registers.  Reading takes two  *)
(* bus transactions (set the device's register pointer, read the word it   *)
(* points to) whose return codes the driver ignores, and setup_reg_data    *)
(* zeroes the input registers while readINA is already storing in them.    *)
(***************************************************************************)
EXTENDS Integers

CONSTANT MaxAge  \* ages are counted up to here; larger ones are all alike

ASSUME AgeAssumption == MaxAge \in Nat /\ MaxAge >= 2

VARIABLES
  main,         \* where app_main is
  sensor,       \* where readINA is
  index,        \* which of the three quantities a task is busy with
  pointer,      \* INA209: register the next read returns
  programmed,   \* INA209: registers written since it was powered
  raw,          \* samples readINA holds in its local variables
  inputs,       \* input_data0 .. input_data2
  pointed,      \* history: the pointReg of the current sample succeeded
  fault,        \* history: the last I2C transaction failed
  setupFailed,  \* history: a register write of initINA failed
  passes        \* history: passes of readINA begun since the server started

tasks == <<main, sensor, index>>
device == <<pointer, programmed>>
vars == <<tasks, device, raw, inputs, pointed, fault, setupFailed, passes>>

Quantity == 1..3
RegOf == <<"bus_voltage", "current", "power">>
DeviceReg == {"configuration", "calibration", "bus_voltage", "current", "power"}

\* One published number: the device register it came from ("junk" for the
\* uninitialised bytes of a failed read, "zero" for setup_reg_data's value),
\* its age in passes, and how it was obtained.
Sample == [reg : DeviceReg \cup {"junk", "zero"}, age : 0..MaxAge,
           sound : BOOLEAN, ready : BOOLEAN]
Zero == [reg |-> "zero", age |-> MaxAge, sound |-> FALSE, ready |-> FALSE]

Older(s) == [s EXCEPT !.age = IF @ < MaxAge THEN @ + 1 ELSE MaxAge]

Init ==
  /\ main = "write_cfg" /\ sensor = "none"
  /\ index = [t \in {"main", "sensor"} |-> 1]
  /\ raw = [q \in Quantity |-> Zero]
  /\ inputs = [q \in Quantity |-> Zero]
  /\ pointed = FALSE /\ fault = FALSE /\ setupFailed = FALSE /\ passes = 0
  /\ pointer = "configuration" /\ programmed = {}

-----------------------------------------------------------------------------
(* I2C transactions.  A failed one may still have reached the device.       *)

\* pointReg(r)
PointReg(r, ok) ==
  /\ pointer' \in IF ok THEN {r} ELSE {pointer, r}
  /\ fault' = ~ok
  /\ UNCHANGED programmed

\* writeWord(r, data): the register address also moves the pointer.
WriteWord(r, ok) ==
  /\ \E reached \in IF ok THEN {TRUE} ELSE BOOLEAN :
       /\ pointer' = IF reached THEN r ELSE pointer
       /\ programmed' = IF reached THEN programmed \cup {r} ELSE programmed
  /\ fault' = ~ok

\* readWord(): the register pointed to, or whatever the stack held.
WordRead(ok) ==
  [reg |-> IF ok THEN pointer ELSE "junk", age |-> 0, sound |-> pointed /\ ok,
   ready |-> programmed = {"configuration", "calibration"}]

-----------------------------------------------------------------------------
(* app_main: initINA, then the rest of the start-up *)

MainAt(from, to) == main = from /\ main' = to

InitWrite(from, r, to, ok) ==
  /\ MainAt(from, to)
  /\ WriteWord(r, ok)
  /\ setupFailed' = (setupFailed \/ ~ok)
  /\ UNCHANGED <<sensor, index, raw, inputs, pointed, passes>>

InitPoint(from, r, to, ok) ==
  /\ MainAt(from, to)
  /\ PointReg(r, ok)
  /\ UNCHANGED <<sensor, index, raw, inputs, pointed, setupFailed, passes>>

\* Mutant: readINA is created before the calibration is written.
InitReadStartsTask(from, to, ok) ==
  /\ MainAt(from, to)
  /\ fault' = ~ok
  /\ sensor' = IF from = "read_cfg" THEN "point" ELSE sensor
  /\ UNCHANGED <<index, device, raw, inputs, pointed, setupFailed, passes>>

\* The word read back is only logged.
InitRead(from, to, ok) ==
  /\ MainAt(from, to)
  /\ fault' = ~ok
  /\ UNCHANGED <<sensor, index, device, raw, inputs, pointed, setupFailed,
                 passes>>

CreateTask ==
  /\ MainAt("create_task", "init_services")
  /\ sensor' = "point"
  /\ UNCHANGED <<index, device, raw, inputs, pointed, fault, setupFailed, passes>>

InitINA(ok) ==
  \/ InitWrite("write_cfg", "configuration", "point_cfg", ok)
  \/ InitPoint("point_cfg", "configuration", "read_cfg", ok)
  \/ InitRead("read_cfg", "write_cal", ok)
  \/ InitWrite("write_cal", "calibration", "point_cal", ok)
  \/ InitPoint("point_cal", "calibration", "read_cal", ok)
  \/ InitRead("read_cal", "create_task", ok)

InitServices ==
  /\ MainAt("init_services", "setup_inputs")
  /\ UNCHANGED <<sensor, index, device, raw, inputs, pointed, fault,
                 setupFailed, passes>>

\* setup_reg_data, one store at a time; after the last the stack starts.
SetupInput ==
  LET q == index["main"] IN
  /\ MainAt("setup_inputs", IF q = 3 THEN "serve" ELSE "setup_inputs")
  /\ inputs' = [inputs EXCEPT ![q] = Zero]
  /\ index' = [index EXCEPT !["main"] = IF q = 3 THEN 1 ELSE q + 1]
  /\ UNCHANGED <<sensor, device, raw, pointed, fault, setupFailed, passes>>

AppMain == (\E ok \in BOOLEAN : InitINA(ok)) \/ CreateTask \/ InitServices
             \/ SetupInput

-----------------------------------------------------------------------------
(* readINA *)

\* Mutant: the task gives up when a transaction fails.
PointOrDie(ok) ==
  /\ sensor = "point" /\ sensor' = IF ok THEN "read" ELSE "none"
  /\ PointReg(RegOf[index["sensor"]], ok)
  /\ pointed' = ok
  /\ UNCHANGED <<main, index, raw, inputs, setupFailed, passes>>

\* The pointReg call of busVol, current and power, in that order.
PointQuantity(ok) ==
  /\ sensor = "point" /\ sensor' = "read"
  /\ PointReg(RegOf[index["sensor"]], ok)
  /\ pointed' = ok
  /\ UNCHANGED <<main, index, raw, inputs, setupFailed, passes>>

\* Mutant: a fourth quantity is read.
ReadOneMore(ok) ==
  LET q == index["sensor"] IN
  /\ sensor = "read" /\ sensor' = IF q = 4 THEN "store" ELSE "point"
  /\ raw' = [raw EXCEPT ![q] = WordRead(ok)]
  /\ index' = [index EXCEPT !["sensor"] = IF q = 4 THEN 1 ELSE q + 1]
  /\ fault' = ~ok
  /\ UNCHANGED <<main, device, inputs, pointed, setupFailed, passes>>

ReadQuantity(ok) ==
  LET q == index["sensor"] IN
  /\ sensor = "read" /\ sensor' = IF q = 3 THEN "store" ELSE "point"
  /\ raw' = [raw EXCEPT ![q] = WordRead(ok)]
  /\ index' = [index EXCEPT !["sensor"] = IF q = 3 THEN 1 ELSE q + 1]
  /\ fault' = ~ok
  /\ UNCHANGED <<main, device, inputs, pointed, setupFailed, passes>>

\* Mutant: a reading whose transactions failed is not published.
StoreSound ==
  LET q == index["sensor"] IN
  /\ sensor = "store" /\ sensor' = IF q = 3 THEN "delay" ELSE "store"
  /\ inputs' = [inputs EXCEPT ![q] = IF raw[q].sound THEN raw[q] ELSE @]
  /\ index' = [index EXCEPT !["sensor"] = IF q = 3 THEN 1 ELSE q + 1]
  /\ UNCHANGED <<main, device, raw, pointed, fault, setupFailed, passes>>

Store ==
  LET q == index["sensor"] IN
  /\ sensor = "store" /\ sensor' = IF q = 3 THEN "delay" ELSE "store"
  /\ inputs' = [inputs EXCEPT ![q] = raw[q]]
  /\ index' = [index EXCEPT !["sensor"] = IF q = 3 THEN 1 ELSE q + 1]
  /\ UNCHANGED <<main, device, raw, pointed, fault, setupFailed, passes>>

\* vTaskDelay; the next pass begins, and what was published is a pass older.
\* The locals are written before they are read again, so they are forgotten.
Delay ==
  /\ sensor = "delay" /\ sensor' = "point"
  /\ inputs' = [q \in Quantity |-> Older(inputs[q])]
  /\ raw' = [q \in Quantity |-> Zero]
  /\ passes' = IF main = "serve" /\ passes < 2 THEN passes + 1 ELSE passes
  /\ UNCHANGED <<main, index, device, pointed, fault, setupFailed>>

ReadINA == (\E ok \in BOOLEAN : PointQuantity(ok) \/ ReadQuantity(ok))
             \/ Store \/ Delay

-----------------------------------------------------------------------------
\* The chip restarts (ESP_ERROR_CHECK, watchdog); the INA209 keeps its power,
\* and with it its pointer and what was programmed.
Restart ==
  /\ main' = "write_cfg" /\ sensor' = "none"
  /\ index' = [t \in {"main", "sensor"} |-> 1]
  /\ raw' = [q \in Quantity |-> Zero]
  /\ inputs' = [q \in Quantity |-> Zero]
  /\ pointed' = FALSE /\ fault' = FALSE /\ setupFailed' = FALSE /\ passes' = 0
  /\ UNCHANGED device

Next == AppMain \/ ReadINA \/ Restart

Spec == Init /\ [][Next]_vars

\* readINA has priority 1 and a processor free of higher-priority work.
FairSpec == Spec /\ WF_vars(ReadINA)

-----------------------------------------------------------------------------
TypeOK ==
  /\ main \in {"write_cfg", "point_cfg", "read_cfg", "write_cal", "point_cal",
               "read_cal", "create_task", "init_services", "setup_inputs",
               "serve"}
  /\ sensor \in {"none", "point", "read", "store", "delay"}
  /\ index \in [{"main", "sensor"} -> Quantity]
  /\ pointer \in DeviceReg
  /\ programmed \subseteq {"configuration", "calibration"}
  /\ raw \in [Quantity -> Sample] /\ inputs \in [Quantity -> Sample]
  /\ pointed \in BOOLEAN /\ fault \in BOOLEAN /\ setupFailed \in BOOLEAN
  /\ passes \in 0..2

\* An input register whose two bus transactions succeeded holds the quantity
\* it is documented to hold: the pointer is not moved between them, although
\* app_main and readINA share it.
OwnQuantity ==
  \A q \in Quantity : inputs[q].sound => inputs[q].reg = RegOf[q]

\* Readings are taken from a configured and calibrated device, unless writing
\* the configuration or the calibration failed.
CalibratedFirst ==
  ~setupFailed => \A q \in Quantity : inputs[q].sound => inputs[q].ready

\* Once a whole pass has been made after the server started, a client sees
\* the three registers of one pass, or a new prefix beside the rest of the
\* pass before: the zeroes of setup_reg_data are gone, nothing is older.
CoherentInputs ==
  passes = 2 =>
    /\ \A q \in Quantity : inputs[q].age <= 1
    /\ inputs[1].age <= inputs[2].age /\ inputs[2].age <= inputs[3].age

\* When transactions stop failing, the registers come to hold sound readings of their
\* own quantity and keep doing so: no failure outlives the sample it spoiled.
ReadingsRecover ==
  <>[](main = "serve") /\ <>[][~fault']_tasks
    => <>[](\A q \in Quantity : inputs[q].sound /\ inputs[q].age <= 1)
=============================================================================
