------------------------- MODULE PowerSensorProofs -------------------------
(***************************************************************************)
(* Invariance proofs about PowerSensor, for every bound on the ages, every *)
(* pattern of failing transactions and every restart.                      *)
(***************************************************************************)
EXTENDS PowerSensor, TLAPS

\* app_main's labels while it programs the device, before readINA exists.
Programming == {"write_cfg", "point_cfg", "read_cfg", "write_cal", "point_cal",
                "read_cal", "create_task"}

\* The device has one user at a time: app_main programs it before it creates
\* the task, which begins with the first quantity.
OneUser ==
  /\ main \in Programming <=> sensor = "none"
  /\ sensor \in {"none", "delay"} => index["sensor"] = 1

\* What a pass has read is of its own quantity, and so is what it is about to
\* read once the pointer was set.
OwnReading ==
  /\ \A q \in Quantity : raw[q].sound => raw[q].reg = RegOf[q]
  /\ sensor = "read" /\ pointed => pointer = RegOf[index["sensor"]]

\* The registers initINA has written are in the device, and readings know it.
Programmed ==
  ~setupFailed =>
    /\ main # "write_cfg" => "configuration" \in programmed
    /\ main \notin {"write_cfg", "point_cfg", "read_cfg", "write_cal"}
         => programmed = {"configuration", "calibration"}
    /\ \A q \in Quantity : raw[q].sound => raw[q].ready

\* How far the present pass has come, and what it leaves in the registers once
\* setup_reg_data is over.
PassAges ==
  /\ passes > 0 => main = "serve"
  /\ sensor \in {"point", "read"} =>
       \A q \in Quantity : q < index["sensor"] => raw[q].age = 0
  /\ sensor = "store" => \A q \in Quantity : raw[q].age = 0
  /\ passes > 0 /\ sensor = "store" =>
       \A q \in Quantity : q < index["sensor"] => inputs[q].age = 0
  /\ passes > 0 /\ sensor = "delay" => \A q \in Quantity : inputs[q].age = 0
  /\ passes = 2 /\ sensor \in {"point", "read"} =>
       \A q \in Quantity : inputs[q].age = 1
  /\ passes = 2 /\ sensor = "store" =>
       \A q \in Quantity : q >= index["sensor"] => inputs[q].age = 1

SensorInv ==
  /\ TypeOK
  /\ OneUser
  /\ OwnReading /\ OwnQuantity
  /\ Programmed /\ CalibratedFirst
  /\ PassAges

-----------------------------------------------------------------------------
(* Facts about the operators *)

LEMMA Quantities == Quantity = {1, 2, 3} /\ RegOf \in [Quantity -> DeviceReg]
  BY DEF Quantity, RegOf, DeviceReg

LEMMA ZeroIsSample ==
  Zero \in Sample /\ Zero.sound = FALSE /\ Zero.ready = FALSE /\ Zero.age = MaxAge
<1>1. Zero.sound = FALSE /\ Zero.ready = FALSE /\ FALSE \in BOOLEAN
  BY Zenon DEF Zero
<1>2. MaxAge \in 0..MaxAge
  BY AgeAssumption
<1> QED BY <1>1, <1>2 DEF Zero, Sample

\* A sample grows older by one and keeps everything else.
LEMMA OlderSample ==
  ASSUME NEW s \in Sample
  PROVE  /\ Older(s) \in Sample
         /\ Older(s).reg = s.reg /\ Older(s).sound = s.sound
         /\ Older(s).ready = s.ready
         /\ s.age = 0 => Older(s).age = 1
  BY AgeAssumption DEF Older, Sample

\* A word just read is a sample of age zero.
LEMMA WordReadSample ==
  ASSUME TypeOK, NEW ok \in BOOLEAN
  PROVE  /\ WordRead(ok) \in Sample
         /\ WordRead(ok).age = 0
         /\ WordRead(ok).sound = (pointed /\ ok)
         /\ ok => WordRead(ok).reg = pointer
         /\ WordRead(ok).ready = (programmed = {"configuration", "calibration"})
<1>1. (pointed /\ ok) \in BOOLEAN
  BY Zenon DEF TypeOK
<1>2. (programmed = {"configuration", "calibration"}) \in BOOLEAN
  BY Zenon
<1>3. 0 \in 0..MaxAge
  BY AgeAssumption
<1>4. (IF ok THEN pointer ELSE "junk") \in DeviceReg \cup {"junk", "zero"}
  BY DEF TypeOK
<1> QED BY <1>1, <1>2, <1>3, <1>4 DEF WordRead, Sample

-----------------------------------------------------------------------------
(* Types *)

\* A write or a pointer access leaves the device in its type.
LEMMA TransactionTypes ==
  ASSUME NEW r \in DeviceReg, NEW ok \in BOOLEAN, TypeOK
  PROVE  /\ PointReg(r, ok) => /\ pointer' \in DeviceReg /\ fault' \in BOOLEAN
                               /\ programmed' = programmed
         /\ WriteWord(r, ok) /\ r \in {"configuration", "calibration"} =>
              /\ pointer' \in DeviceReg /\ fault' \in BOOLEAN
              /\ programmed' \subseteq {"configuration", "calibration"}
<1>1. ASSUME PointReg(r, ok)
      PROVE  pointer' \in DeviceReg /\ programmed' = programmed
  BY <1>1 DEF PointReg, TypeOK
<1>2. ASSUME WriteWord(r, ok), r \in {"configuration", "calibration"}
      PROVE  /\ pointer' \in DeviceReg
             /\ programmed' \subseteq {"configuration", "calibration"}
  BY <1>2 DEF WriteWord, TypeOK
<1>3. (PointReg(r, ok) \/ WriteWord(r, ok)) => fault' \in BOOLEAN
  BY Zenon DEF PointReg, WriteWord
<1> QED BY <1>1, <1>2, <1>3

LEMMA SensorTypeInit == Init => TypeOK
<1> SUFFICES ASSUME Init PROVE TypeOK
  OBVIOUS
<1>1. pointed \in BOOLEAN /\ fault \in BOOLEAN /\ setupFailed \in BOOLEAN
  BY Zenon DEF Init
<1>2. inputs \in [Quantity -> Sample] /\ raw \in [Quantity -> Sample]
  BY ZeroIsSample DEF Init
<1> QED BY <1>1, <1>2, Quantities DEF Init, TypeOK, DeviceReg

LEMMA SensorTypeStep ==
  ASSUME TypeOK, [Next]_vars
  PROVE  TypeOK'
<1> USE Quantities
<1>1. ASSUME NEW ok \in BOOLEAN, InitINA(ok) PROVE TypeOK'
  <2>1. CASE InitWrite("write_cfg", "configuration", "point_cfg", ok)
    <3>1. setupFailed' \in BOOLEAN
      BY <2>1, Zenon DEF InitWrite, TypeOK
    <3>2. "configuration" \in DeviceReg
      BY DEF DeviceReg
    <3> QED
      BY <2>1, <3>1, <3>2, TransactionTypes DEF InitWrite, MainAt, TypeOK
  <2>2. CASE InitPoint("point_cfg", "configuration", "read_cfg", ok)
    <3>1. "configuration" \in DeviceReg
      BY DEF DeviceReg
    <3> QED BY <2>2, <3>1, TransactionTypes DEF InitPoint, MainAt, TypeOK
  <2>3. ASSUME NEW from, NEW to \in {"write_cal", "create_task"},
               InitRead(from, to, ok)
        PROVE  TypeOK'
    <3>1. fault' \in BOOLEAN
      BY <2>3, Zenon DEF InitRead
    <3> QED BY <2>3, <3>1 DEF InitRead, MainAt, TypeOK, device
  <2>4. CASE InitWrite("write_cal", "calibration", "point_cal", ok)
    <3>1. setupFailed' \in BOOLEAN
      BY <2>4, Zenon DEF InitWrite, TypeOK
    <3>2. "calibration" \in DeviceReg
      BY DEF DeviceReg
    <3> QED
      BY <2>4, <3>1, <3>2, TransactionTypes DEF InitWrite, MainAt, TypeOK
  <2>5. CASE InitPoint("point_cal", "calibration", "read_cal", ok)
    <3>1. "calibration" \in DeviceReg
      BY DEF DeviceReg
    <3> QED BY <2>5, <3>1, TransactionTypes DEF InitPoint, MainAt, TypeOK
  <2> QED BY <1>1, <2>1, <2>2, <2>3, <2>4, <2>5 DEF InitINA
<1>2. CASE CreateTask
  BY <1>2 DEF CreateTask, MainAt, TypeOK, device
<1>3. CASE InitServices
  BY <1>3 DEF InitServices, MainAt, TypeOK, device
<1>4. CASE SetupInput
  <2>1. inputs' \in [Quantity -> Sample]
    BY <1>4, ZeroIsSample DEF SetupInput, TypeOK
  <2>2. index' \in [{"main", "sensor"} -> Quantity]
    BY <1>4 DEF SetupInput, TypeOK
  <2> QED BY <1>4, <2>1, <2>2 DEF SetupInput, MainAt, TypeOK, device
<1>5. ASSUME NEW ok \in BOOLEAN, PointQuantity(ok) PROVE TypeOK'
  <2>1. RegOf[index["sensor"]] \in DeviceReg
    BY DEF TypeOK
  <2> QED BY <1>5, <2>1, TransactionTypes DEF PointQuantity, TypeOK
<1>6. ASSUME NEW ok \in BOOLEAN, ReadQuantity(ok) PROVE TypeOK'
  <2>1. raw' \in [Quantity -> Sample]
    BY <1>6, WordReadSample DEF ReadQuantity, TypeOK
  <2>2. index' \in [{"main", "sensor"} -> Quantity]
    BY <1>6 DEF ReadQuantity, TypeOK
  <2>3. fault' \in BOOLEAN
    BY <1>6, Zenon DEF ReadQuantity
  <2> QED BY <1>6, <2>1, <2>2, <2>3 DEF ReadQuantity, TypeOK, device
<1>7. CASE Store
  <2>1. inputs' \in [Quantity -> Sample]
    BY <1>7 DEF Store, TypeOK
  <2>2. index' \in [{"main", "sensor"} -> Quantity]
    BY <1>7 DEF Store, TypeOK
  <2> QED BY <1>7, <2>1, <2>2 DEF Store, TypeOK, device
<1>8. CASE Delay
  <2>1. inputs' \in [Quantity -> Sample] /\ raw' \in [Quantity -> Sample]
    BY <1>8, OlderSample, ZeroIsSample DEF Delay, TypeOK
  <2>2. passes' \in 0..2
    BY <1>8 DEF Delay, TypeOK
  <2> QED BY <1>8, <2>1, <2>2 DEF Delay, TypeOK, device
<1>9. CASE Restart
  <2>1. (pointed \in BOOLEAN /\ fault \in BOOLEAN /\ setupFailed \in BOOLEAN)'
    BY <1>9, Zenon DEF Restart
  <2>2. (inputs \in [Quantity -> Sample] /\ raw \in [Quantity -> Sample])'
    BY <1>9, ZeroIsSample DEF Restart
  <2> QED BY <1>9, <2>1, <2>2 DEF Restart, TypeOK, device
<1>10. CASE UNCHANGED vars
  BY <1>10 DEF vars, tasks, device, TypeOK
<1> QED
  BY <1>1, <1>2, <1>3, <1>4, <1>5, <1>6, <1>7, <1>8, <1>9, <1>10
     DEF Next, AppMain, ReadINA

-----------------------------------------------------------------------------
(* One user of the device at a time *)

LEMMA OneUserStep ==
  ASSUME TypeOK, OneUser, [Next]_vars
  PROVE  OneUser'
<1> USE Quantities DEF OneUser, Programming, MainAt
<1>1. ASSUME NEW ok \in BOOLEAN, InitINA(ok) PROVE OneUser'
  BY <1>1 DEF InitINA, InitWrite, InitPoint, InitRead
<1>2. CASE CreateTask
  BY <1>2 DEF CreateTask
<1>3. CASE InitServices
  BY <1>3 DEF InitServices
<1>4. CASE SetupInput
  <2>1. index'["sensor"] = index["sensor"]
    BY <1>4 DEF SetupInput, TypeOK
  <2> QED BY <1>4, <2>1 DEF SetupInput
<1>5. ASSUME NEW ok \in BOOLEAN, PointQuantity(ok) PROVE OneUser'
  BY <1>5 DEF PointQuantity
<1>6. ASSUME NEW ok \in BOOLEAN, ReadQuantity(ok) PROVE OneUser'
  BY <1>6 DEF ReadQuantity
<1>7. CASE Store
  <2>1. index["sensor"] = 3 => index'["sensor"] = 1
    BY <1>7 DEF Store, TypeOK
  <2> QED BY <1>7, <2>1 DEF Store
<1>8. CASE Delay
  BY <1>8 DEF Delay
<1>9. CASE Restart
  BY <1>9 DEF Restart
<1>10. CASE UNCHANGED vars
  BY <1>10 DEF vars, tasks
<1> QED
  BY <1>1, <1>2, <1>3, <1>4, <1>5, <1>6, <1>7, <1>8, <1>9, <1>10
     DEF Next, AppMain, ReadINA

-----------------------------------------------------------------------------
(* Every reading is of its own quantity *)

\* While app_main moves the pointer there is no reading under way; after that
\* only readINA moves it, between its own two transactions never.
LEMMA OwnReadingStep ==
  ASSUME TypeOK, OneUser, OwnReading, [Next]_vars
  PROVE  OwnReading'
<1> USE Quantities DEF OwnReading
<1>1. ASSUME NEW ok \in BOOLEAN, InitINA(ok) PROVE OwnReading'
  BY <1>1 DEF InitINA, InitWrite, InitPoint, InitRead, MainAt, OneUser,
              Programming
<1>2. CASE CreateTask
  BY <1>2 DEF CreateTask
<1>3. CASE InitServices
  BY <1>3 DEF InitServices, device
<1>4. CASE SetupInput
  <2>1. index'["sensor"] = index["sensor"]
    BY <1>4 DEF SetupInput, TypeOK
  <2> QED BY <1>4, <2>1 DEF SetupInput, device
<1>5. ASSUME NEW ok \in BOOLEAN, PointQuantity(ok) PROVE OwnReading'
  BY <1>5 DEF PointQuantity, PointReg
<1>6. ASSUME NEW ok \in BOOLEAN, ReadQuantity(ok) PROVE OwnReading'
  <2>1. ASSUME NEW q \in Quantity, raw'[q].sound PROVE raw'[q].reg = RegOf[q]
    <3>1. CASE q = index["sensor"]
      <4>1. raw'[q] = WordRead(ok)
        BY <1>6, <3>1 DEF ReadQuantity, TypeOK
      <4> QED BY <1>6, <2>1, <3>1, <4>1, WordReadSample DEF ReadQuantity
    <3>2. CASE q # index["sensor"]
      <4>1. raw'[q] = raw[q]
        BY <1>6, <3>2 DEF ReadQuantity, TypeOK
      <4> QED BY <2>1, <4>1
    <3> QED BY <3>1, <3>2
  <2> QED BY <1>6, <2>1 DEF ReadQuantity
<1>7. CASE Store
  BY <1>7 DEF Store
<1>8. CASE Delay
  BY <1>8, ZeroIsSample DEF Delay
<1>9. CASE Restart
  BY <1>9, ZeroIsSample DEF Restart
<1>10. CASE UNCHANGED vars
  BY <1>10 DEF vars, tasks, device
<1> QED
  BY <1>1, <1>2, <1>3, <1>4, <1>5, <1>6, <1>7, <1>8, <1>9, <1>10
     DEF Next, AppMain, ReadINA

\* What a step leaves in the input registers: zero, an older copy of what was
\* there, a sample of readINA's, or what was there.
LEMMA InputsStep ==
  ASSUME TypeOK, [Next]_vars, NEW q \in Quantity
  PROVE  \/ inputs'[q] = Zero
         \/ inputs'[q] = Older(inputs[q])
         \/ inputs'[q] = raw[q]
         \/ inputs'[q] = inputs[q]
<1>1. CASE SetupInput
  BY <1>1 DEF SetupInput, TypeOK
<1>2. CASE Store
  BY <1>2 DEF Store, TypeOK
<1>3. CASE Delay
  BY <1>3 DEF Delay
<1>4. CASE Restart
  BY <1>4 DEF Restart
<1>5. ASSUME NEW ok \in BOOLEAN,
             InitINA(ok) \/ PointQuantity(ok) \/ ReadQuantity(ok)
      PROVE  inputs' = inputs
  BY <1>5 DEF InitINA, InitWrite, InitPoint, InitRead, PointQuantity,
              ReadQuantity
<1>6. CASE CreateTask \/ InitServices \/ UNCHANGED vars
  BY <1>6 DEF CreateTask, InitServices, vars
<1> QED
  BY <1>1, <1>2, <1>3, <1>4, <1>5, <1>6 DEF Next, AppMain, ReadINA

LEMMA OwnQuantityStep ==
  ASSUME TypeOK, OwnReading, OwnQuantity, [Next]_vars
  PROVE  OwnQuantity'
<1> SUFFICES ASSUME NEW q \in Quantity, inputs'[q].sound
             PROVE  inputs'[q].reg = RegOf[q]
  BY DEF OwnQuantity
<1>1. inputs[q] \in Sample
  BY DEF TypeOK
<1> QED
  BY <1>1, InputsStep, OlderSample, ZeroIsSample DEF OwnReading, OwnQuantity

-----------------------------------------------------------------------------
(* Readings come from a programmed device *)

\* A failed register write is remembered until the chip restarts.
LEMMA FailureIsKept ==
  ASSUME TypeOK, [Next]_vars, ~setupFailed'
  PROVE  ~setupFailed \/ Restart
<1>1. ASSUME NEW ok \in BOOLEAN, InitINA(ok) PROVE ~setupFailed
  BY <1>1 DEF InitINA, InitWrite, InitPoint, InitRead
<1>2. ASSUME NEW ok \in BOOLEAN, PointQuantity(ok) \/ ReadQuantity(ok)
      PROVE  ~setupFailed
  BY <1>2 DEF PointQuantity, ReadQuantity
<1>3. CASE CreateTask \/ InitServices \/ SetupInput \/ Store \/ Delay
             \/ UNCHANGED vars
  BY <1>3 DEF CreateTask, InitServices, SetupInput, Store, Delay, vars
<1> QED BY <1>1, <1>2, <1>3 DEF Next, AppMain, ReadINA

\* A write that succeeds reaches the device.
LEMMA WriteReaches ==
  ASSUME NEW r, NEW ok \in BOOLEAN, WriteWord(r, ok), ok
  PROVE  programmed' = programmed \cup {r}
  BY DEF WriteWord

LEMMA ProgrammedStep ==
  ASSUME TypeOK, OneUser, Programmed, [Next]_vars
  PROVE  Programmed'
<1> SUFFICES ASSUME ~setupFailed'
             PROVE  Programmed'
  BY DEF Programmed
<1>1. CASE Restart
  BY <1>1, ZeroIsSample DEF Restart, Programmed
<1> SUFFICES ASSUME ~Restart
             PROVE  Programmed'
  BY <1>1
<1>2. ~setupFailed
  BY FailureIsKept
<1> USE <1>2 DEF Programmed
<1>3. ASSUME NEW ok \in BOOLEAN, InitINA(ok) PROVE Programmed'
  <2>1. CASE InitWrite("write_cfg", "configuration", "point_cfg", ok)
    <3>1. ok
      BY <2>1 DEF InitWrite
    <3> QED BY <2>1, <3>1, WriteReaches DEF InitWrite, MainAt
  <2>2. CASE InitWrite("write_cal", "calibration", "point_cal", ok)
    <3>1. ok
      BY <2>2 DEF InitWrite
    <3>2. programmed' = {"configuration", "calibration"}
      BY <2>2, <3>1, WriteReaches DEF InitWrite, MainAt, TypeOK
    <3> QED BY <2>2, <3>2 DEF InitWrite, MainAt
  <2>3. CASE \/ InitPoint("point_cfg", "configuration", "read_cfg", ok)
             \/ InitPoint("point_cal", "calibration", "read_cal", ok)
    BY <2>3 DEF InitPoint, PointReg, MainAt
  <2>4. CASE InitRead("read_cfg", "write_cal", ok)
    BY <2>4 DEF InitRead, MainAt, device
  <2>5. CASE InitRead("read_cal", "create_task", ok)
    BY <2>5 DEF InitRead, MainAt, device
  <2> QED BY <1>3, <2>1, <2>2, <2>3, <2>4, <2>5 DEF InitINA
<1>4. CASE CreateTask
  BY <1>4 DEF CreateTask, MainAt, device
<1>5. CASE InitServices
  BY <1>5 DEF InitServices, MainAt, device
<1>6. CASE SetupInput
  BY <1>6 DEF SetupInput, MainAt, device
<1>7. ASSUME NEW ok \in BOOLEAN, PointQuantity(ok) PROVE Programmed'
  BY <1>7 DEF PointQuantity, PointReg
<1>8. ASSUME NEW ok \in BOOLEAN, ReadQuantity(ok) PROVE Programmed'
  <2>1. programmed = {"configuration", "calibration"}
    BY <1>8 DEF ReadQuantity, OneUser, Programming
  <2>2. ASSUME NEW q \in Quantity, raw'[q].sound PROVE raw'[q].ready
    <3>1. raw'[q] = WordRead(ok) \/ raw'[q] = raw[q]
      BY <1>8 DEF ReadQuantity, TypeOK
    <3> QED BY <2>1, <2>2, <3>1, WordReadSample
  <2> QED BY <1>8, <2>2 DEF ReadQuantity, device
<1>9. CASE Store
  BY <1>9 DEF Store, device
<1>10. CASE Delay
  BY <1>10, ZeroIsSample DEF Delay, device
<1>11. CASE UNCHANGED vars
  BY <1>11 DEF vars, tasks, device
<1> QED
  BY <1>3, <1>4, <1>5, <1>6, <1>7, <1>8, <1>9, <1>10, <1>11
     DEF Next, AppMain, ReadINA

LEMMA CalibratedFirstStep ==
  ASSUME TypeOK, Programmed, CalibratedFirst, [Next]_vars
  PROVE  CalibratedFirst'
<1> SUFFICES ASSUME ~setupFailed', NEW q \in Quantity, inputs'[q].sound
             PROVE  inputs'[q].ready
  BY DEF CalibratedFirst
<1>1. CASE Restart
  BY <1>1, ZeroIsSample DEF Restart
<1>2. CASE ~Restart
  <2>1. ~setupFailed /\ inputs[q] \in Sample
    BY <1>2, FailureIsKept DEF TypeOK
  <2> QED
    BY <2>1, InputsStep, OlderSample, ZeroIsSample
       DEF Programmed, CalibratedFirst
<1> QED BY <1>1, <1>2

-----------------------------------------------------------------------------
(* Ages *)

LEMMA PassAgesStep ==
  ASSUME TypeOK, OneUser, PassAges, [Next]_vars
  PROVE  PassAges'
<1> USE Quantities DEF PassAges
<1>1. ASSUME NEW ok \in BOOLEAN, InitINA(ok) PROVE PassAges'
  BY <1>1 DEF InitINA, InitWrite, InitPoint, InitRead, MainAt, TypeOK, OneUser,
              Programming
<1>2. CASE CreateTask
  BY <1>2 DEF CreateTask, MainAt, TypeOK, OneUser
<1>3. CASE InitServices
  BY <1>3 DEF InitServices, MainAt, TypeOK
<1>4. CASE SetupInput
  <2>1. index'["sensor"] = index["sensor"] /\ passes = 0
    BY <1>4 DEF SetupInput, MainAt, TypeOK
  <2> QED BY <1>4, <2>1 DEF SetupInput, MainAt
<1>5. ASSUME NEW ok \in BOOLEAN, PointQuantity(ok) PROVE PassAges'
  BY <1>5 DEF PointQuantity
<1>6. ASSUME NEW ok \in BOOLEAN, ReadQuantity(ok) PROVE PassAges'
  <2> DEFINE k == index["sensor"]
  <2>1. /\ k \in Quantity /\ index'["sensor"] = (IF k = 3 THEN 1 ELSE k + 1)
        /\ raw'[k].age = 0
        /\ \A q \in Quantity \ {k} : raw'[q] = raw[q]
    BY <1>6, WordReadSample DEF ReadQuantity, TypeOK
  <2>2. /\ sensor' \in {"point", "read"} =>
             \A q \in Quantity : q < index'["sensor"] => raw'[q].age = 0
        /\ sensor' = "store" => \A q \in Quantity : raw'[q].age = 0
    BY <1>6, <2>1 DEF ReadQuantity
  <2> QED BY <1>6, <2>1, <2>2 DEF ReadQuantity
<1>7. CASE Store
  <2> DEFINE k == index["sensor"]
  <2>1. /\ k \in Quantity /\ index'["sensor"] = (IF k = 3 THEN 1 ELSE k + 1)
        /\ inputs'[k] = raw[k]
        /\ \A q \in Quantity \ {k} : inputs'[q] = inputs[q]
    BY <1>7 DEF Store, TypeOK
  <2>2. sensor = "store" /\ sensor' = (IF k = 3 THEN "delay" ELSE "store")
    BY <1>7 DEF Store
  <2>3. UNCHANGED <<main, raw, passes>>
    BY <1>7 DEF Store
  <2> QED BY <2>1, <2>2, <2>3
<1>8. CASE Delay
  <2>1. passes > 0 => \A q \in Quantity : inputs'[q].age = 1
    BY <1>8, OlderSample DEF Delay, TypeOK
  <2>2. index'["sensor"] = 1
    BY <1>8 DEF Delay, OneUser
  <2>3. passes' = 2 => passes > 0
    BY <1>8 DEF Delay, TypeOK
  <2> QED BY <1>8, <2>1, <2>2, <2>3 DEF Delay
<1>9. CASE Restart
  BY <1>9 DEF Restart
<1>10. CASE UNCHANGED vars
  BY <1>10 DEF vars, tasks
<1> QED
  BY <1>1, <1>2, <1>3, <1>4, <1>5, <1>6, <1>7, <1>8, <1>9, <1>10
     DEF Next, AppMain, ReadINA

-----------------------------------------------------------------------------
(* The invariant and what follows from it *)

LEMMA SensorInit == Init => SensorInv
<1> SUFFICES ASSUME Init PROVE SensorInv
  OBVIOUS
<1>1. TypeOK
  BY SensorTypeInit
<1>2. OneUser
  BY DEF Init, OneUser, Programming
<1>3. OwnReading /\ OwnQuantity /\ CalibratedFirst /\ Programmed
  BY ZeroIsSample DEF Init, OwnReading, OwnQuantity, CalibratedFirst, Programmed
<1>4. PassAges
  BY DEF Init, PassAges
<1> QED BY <1>1, <1>2, <1>3, <1>4 DEF SensorInv

LEMMA SensorStep == SensorInv /\ [Next]_vars => SensorInv'
  BY SensorTypeStep, OneUserStep, OwnReadingStep, OwnQuantityStep,
     ProgrammedStep, CalibratedFirstStep, PassAgesStep DEF SensorInv

\* In the last passes' registers nothing is older than a pass, and the new
\* samples stand in front.
LEMMA AgesAreCoherent ==
  ASSUME TypeOK, OneUser, PassAges
  PROVE  CoherentInputs
<1> SUFFICES ASSUME passes = 2
             PROVE  /\ \A q \in Quantity : inputs[q].age <= 1
                    /\ inputs[1].age <= inputs[2].age
                    /\ inputs[2].age <= inputs[3].age
  BY DEF CoherentInputs
<1>1. sensor # "none"
  BY DEF PassAges, OneUser, Programming
<1>2. CASE sensor \in {"point", "read"}
  BY <1>2, Quantities DEF PassAges
<1>3. CASE sensor = "store"
  <2>1. index["sensor"] \in Quantity
    BY DEF TypeOK
  <2>2. \A q \in Quantity : inputs[q].age = (IF q < index["sensor"] THEN 0 ELSE 1)
    BY <1>3, <2>1, Quantities DEF PassAges
  <2> QED BY <2>1, <2>2, Quantities
<1>4. CASE sensor = "delay"
  BY <1>4, Quantities DEF PassAges
<1> QED BY <1>1, <1>2, <1>3, <1>4 DEF TypeOK

\* The invariant holds whichever transactions fail and whenever the chip
\* restarts: app_main and readINA never use the INA209 at the same time.
THEOREM SensorInductive == Spec => []SensorInv
  BY SensorInit, SensorStep, PTL DEF Spec

\* Types of the driver's locals, the input registers and the device.
THEOREM SensorTypeCorrect == Spec => []TypeOK
<1>1. SensorInv => TypeOK
  BY DEF SensorInv
<1> QED BY <1>1, SensorInductive, PTL

\* readINA: a register whose transactions succeeded holds its own quantity,
\* although the pointer is moved by two tasks.
THEOREM ReadingsAreOwn == Spec => []OwnQuantity
<1>1. SensorInv => OwnQuantity
  BY DEF SensorInv
<1> QED BY <1>1, SensorInductive, PTL

\* initINA: sound readings come from a configured and calibrated device unless
\* one of its register writes failed.
THEOREM ReadingsAreCalibrated == Spec => []CalibratedFirst
<1>1. SensorInv => CalibratedFirst
  BY DEF SensorInv
<1> QED BY <1>1, SensorInductive, PTL

\* setup_reg_data against readINA: after a whole pass of the serving RTU a
\* client sees registers of one pass, or a new prefix before the last pass.
THEOREM InputsAreCoherent == Spec => []CoherentInputs
<1>1. SensorInv => CoherentInputs
  BY AgesAreCoherent DEF SensorInv
<1> QED BY <1>1, SensorInductive, PTL

-----------------------------------------------------------------------------
(* Recovery *)

\* No transaction of the present pass of readINA failed so far, and the server
\* runs: what has been read or stored in it is sound.
CleanPass ==
  /\ main = "serve" /\ sensor # "none"
  /\ sensor = "read" => pointed
  /\ sensor \in {"point", "read"} =>
       \A q \in Quantity : q < index["sensor"] => raw[q].sound
  /\ sensor = "store" =>
       \A q \in Quantity :
         IF q < index["sensor"] THEN inputs[q].sound ELSE raw[q].sound
  /\ sensor = "delay" => \A q \in Quantity : inputs[q].sound

\* The same of the pass, and all input registers are sound.
Healthy == CleanPass /\ \A q \in Quantity : inputs[q].sound

\* Steps of readINA to the end of the pass.
StepsLeft ==
  CASE sensor = "point" -> 12 - 2 * index["sensor"]
    [] sensor = "read" -> 11 - 2 * index["sensor"]
    [] sensor = "store" -> 5 - index["sensor"]
    [] OTHER -> 1

\* While the server runs only readINA moves.
LEMMA ServingSteps ==
  ASSUME [Next]_vars, main = "serve", main' = "serve"
  PROVE  ReadINA \/ UNCHANGED vars
  BY DEF Next, AppMain, InitINA, InitWrite, InitPoint, InitRead, CreateTask,
         InitServices, SetupInput, MainAt, Restart

\* What is sound up to a quantity, and that quantity.
LEMMA SoundUpTo ==
  ASSUME NEW f \in [Quantity -> Sample], NEW i \in Quantity, NEW s, s.sound,
         \A q \in Quantity : q < i => f[q].sound
  PROVE  \A q \in Quantity : q <= i => [f EXCEPT ![i] = s][q].sound
<1> TAKE q \in Quantity
<1> HAVE q <= i
<1>1. CASE q = i
  BY <1>1
<1>2. CASE q # i
  <2>1. q < i
    BY <1>2, Quantities
  <2> QED BY <1>2, <2>1
<1> QED BY <1>1, <1>2

LEMMA CleanStep ==
  ASSUME TypeOK, OneUser, CleanPass, [Next]_vars, ~fault', main' = "serve"
  PROVE  CleanPass'
<1> USE Quantities DEF CleanPass
<1>1. ASSUME NEW ok \in BOOLEAN, PointQuantity(ok) PROVE CleanPass'
  <2>1. pointed' /\ sensor = "point" /\ sensor' = "read"
        /\ UNCHANGED <<index, raw>>
    BY <1>1 DEF PointQuantity, PointReg
  <2> QED BY <2>1
<1>2. ASSUME NEW ok \in BOOLEAN, ReadQuantity(ok) PROVE CleanPass'
  <2> DEFINE i == index["sensor"]
  <2>1. /\ ok /\ pointed /\ sensor = "read" /\ i \in {1, 2, 3}
        /\ sensor' = IF i = 3 THEN "store" ELSE "point"
        /\ index'["sensor"] = IF i = 3 THEN 1 ELSE i + 1
        /\ raw' = [raw EXCEPT ![i] = WordRead(ok)]
    BY <1>2 DEF ReadQuantity, TypeOK
  <2>2. WordRead(ok).sound
    BY <2>1, WordReadSample
  <2>3. raw \in [Quantity -> Sample] /\ i \in Quantity
        /\ \A q \in Quantity : q < i => raw[q].sound
    BY <2>1 DEF TypeOK
  <2>4. \A q \in Quantity : q <= i => raw'[q].sound
    <3> HIDE DEF i
    <3> QED BY <2>1, <2>2, <2>3, SoundUpTo
  <2>5. \A q \in Quantity : q < i + 1 => q <= i
    BY <2>1
  <2>6. \A q \in Quantity : q <= 3 /\ ~(q < 1)
    OBVIOUS
  <2>7. CASE i = 3
    <3>1. sensor' = "store" /\ index'["sensor"] = 1
      BY <2>1, <2>7
    <3>2. \A q \in Quantity : ~(q < 1) /\ raw'[q].sound
      BY <2>4, <2>6, <2>7
    <3> QED BY <3>1, <3>2
  <2>8. CASE i # 3
    BY <2>1, <2>4, <2>5, <2>8
  <2> QED BY <2>7, <2>8
<1>3. CASE Store
  <2> DEFINE i == index["sensor"]
  <2>1. /\ sensor = "store" /\ i \in {1, 2, 3}
        /\ sensor' = IF i = 3 THEN "delay" ELSE "store"
        /\ index'["sensor"] = IF i = 3 THEN 1 ELSE i + 1
        /\ inputs' = [inputs EXCEPT ![i] = raw[i]] /\ raw' = raw
    BY <1>3 DEF Store, TypeOK
  <2>2. raw[i].sound
    BY <2>1
  <2>3. \A q \in Quantity : q <= i => inputs'[q].sound
    BY <2>1, <2>2 DEF TypeOK
  <2>4. \A q \in Quantity : q > i => raw'[q].sound
    BY <2>1
  <2> QED BY <2>1, <2>3, <2>4
<1>4. CASE Delay
  <2>1. sensor' = "point" /\ index'["sensor"] = 1
    BY <1>4 DEF Delay, OneUser
  <2> QED BY <2>1
<1>5. CASE UNCHANGED vars
  BY <1>5 DEF vars, tasks
<1> QED BY <1>1, <1>2, <1>3, <1>4, <1>5, ServingSteps DEF ReadINA

LEMMA HealthyStep ==
  ASSUME TypeOK, OneUser, Healthy, [Next]_vars, ~fault', main' = "serve"
  PROVE  Healthy'
<1>1. CleanPass' /\ \A q \in Quantity : inputs[q].sound /\ inputs[q] \in Sample
  BY CleanStep DEF Healthy, TypeOK
<1>2. CASE Store
  <2>1. index["sensor"] \in Quantity /\ raw[index["sensor"]].sound
    BY <1>2, Quantities DEF Store, Healthy, CleanPass, TypeOK
  <2>2. \A q \in Quantity : inputs'[q].sound
    BY <1>1, <1>2, <2>1 DEF Store, TypeOK
  <2> QED BY <1>1, <2>2 DEF Healthy
<1>3. CASE Delay
  BY <1>1, <1>3, OlderSample DEF Delay, Healthy
<1>4. CASE UNCHANGED inputs
  BY <1>1, <1>4 DEF Healthy
<1>5. Store \/ Delay \/ UNCHANGED inputs
  BY ServingSteps DEF Healthy, CleanPass, ReadINA, PointQuantity, ReadQuantity, vars
<1> QED BY <1>2, <1>3, <1>4, <1>5

LEMMA PassRunsDown ==
  ASSUME TypeOK, ReadINA, ~Delay
  PROVE  StepsLeft' \in Nat /\ StepsLeft' < StepsLeft
<1>1. index["sensor"] \in {1, 2, 3}
  BY Quantities DEF TypeOK
<1>2. ASSUME NEW ok \in BOOLEAN, PointQuantity(ok)
      PROVE  StepsLeft' \in Nat /\ StepsLeft' < StepsLeft
  BY <1>1, <1>2 DEF PointQuantity, StepsLeft
<1>3. ASSUME NEW ok \in BOOLEAN, ReadQuantity(ok)
      PROVE  StepsLeft' \in Nat /\ StepsLeft' < StepsLeft
  BY <1>1, <1>3 DEF ReadQuantity, StepsLeft, TypeOK
<1>4. CASE Store
  BY <1>1, <1>4 DEF Store, StepsLeft, TypeOK
<1> QED BY <1>2, <1>3, <1>4 DEF ReadINA

\* The safety half of ReadingsRecover.  Every pass of the serving RTU begins
\* clean, whatever failed before it; it stays clean for as long as no
\* transaction fails, ends after ten steps more at most, and then all registers
\* are sound; and they stay so until a transaction fails or the RTU restarts.
THEOREM SensorRecovers ==
  Spec => /\ [][main = "serve" /\ Delay => CleanPass']_vars
          /\ [][CleanPass /\ ~fault' /\ main' = "serve" => CleanPass']_vars
          /\ [][ReadINA /\ ~Delay => StepsLeft' \in Nat /\ StepsLeft' < StepsLeft]_vars
          /\ [](CleanPass /\ sensor = "delay" => Healthy)
          /\ [][Healthy /\ ~fault' /\ main' = "serve" => Healthy']_vars
<1>1. SensorInv /\ [Next]_vars => [main = "serve" /\ Delay => CleanPass']_vars
  <2> SUFFICES ASSUME SensorInv, Delay, main = "serve" PROVE CleanPass'
    OBVIOUS
  <2>1. sensor' = "point" /\ index'["sensor"] = 1 /\ main' = "serve"
    BY DEF Delay, SensorInv, OneUser
  <2> QED BY <2>1, Quantities DEF CleanPass
<1>2. SensorInv /\ [Next]_vars
        => [CleanPass /\ ~fault' /\ main' = "serve" => CleanPass']_vars
  BY CleanStep DEF SensorInv
<1>3. SensorInv /\ [Next]_vars
        => [ReadINA /\ ~Delay => StepsLeft' \in Nat /\ StepsLeft' < StepsLeft]_vars
  BY PassRunsDown DEF SensorInv
<1>4. CleanPass /\ sensor = "delay" => Healthy
  BY DEF Healthy, CleanPass
<1>5. SensorInv /\ [Next]_vars
        => [Healthy /\ ~fault' /\ main' = "serve" => Healthy']_vars
  BY HealthyStep DEF SensorInv
<1> QED BY <1>1, <1>2, <1>3, <1>4, <1>5, SensorInductive, PTL DEF Spec

-----------------------------------------------------------------------------
(* Readings recover *)

\* readINA is never kept from its next step, once its task exists: a
\* transaction always returns.  TLAPS cannot look into ENABLED.
SensorReady == [](sensor # "none" => ENABLED <<ReadINA>>_vars)

\* A step while the server runs in which no transaction fails.
Serving == main = "serve"
Calm == Serving /\ Serving' /\ [~fault']_tasks /\ [Next]_vars

Left(n) == StepsLeft = n

\* How much of the recovery lies behind: a clean pass has begun, a clean pass
\* has been published after the server was up for a whole one.
Clean == CleanPass /\ passes >= 1
Recovered == Healthy /\ passes = 2

\* In the calm P lasts until a step of readINA, which makes it Q.
Moves(P, Q) == Calm /\ P => (ReadINA /\ Q') \/ (~ReadINA /\ P')

LEMMA CalmSteps ==
  ASSUME SensorInv, Calm
  PROVE  /\ ReadINA => ~fault'
         /\ ReadINA \/ UNCHANGED vars
         /\ sensor # "none"
<1>1. ReadINA => ~ UNCHANGED tasks
  <2>1. index \in [{"main", "sensor"} -> Quantity]
    BY DEF SensorInv, TypeOK
  <2>2. \A ok \in BOOLEAN : PointQuantity(ok) => sensor' # sensor
    BY DEF PointQuantity
  <2>3. \A ok \in BOOLEAN : ReadQuantity(ok) => sensor' # sensor
    BY DEF ReadQuantity
  <2>4. Store => sensor' # sensor \/ index'["sensor"] # index["sensor"]
    BY <2>1, Quantities DEF Store
  <2>5. Delay => sensor' # sensor
    BY DEF Delay
  <2> QED BY <2>2, <2>3, <2>4, <2>5 DEF ReadINA, tasks
<1>2. sensor # "none"
  BY DEF Calm, Serving, SensorInv, OneUser, Programming
<1> QED BY <1>1, <1>2, ServingSteps DEF Calm, Serving

\* A pass is eleven steps, of which each brings the next, and two passes make
\* the registers sound.
LEMMA PassMoves ==
  ASSUME SensorInv
  PROVE  /\ Moves(Left(10), Left(9)) /\ Moves(Left(9), Left(8))
         /\ Moves(Left(8), Left(7)) /\ Moves(Left(7), Left(6))
         /\ Moves(Left(6), Left(5)) /\ Moves(Left(5), Left(4))
         /\ Moves(Left(4), Left(3)) /\ Moves(Left(3), Left(2))
         /\ Moves(Left(2), Left(1))
         /\ Moves(Left(1), Left(10) /\ Clean)
         /\ Moves(Left(1) /\ Clean, Recovered)
<1>1. index["sensor"] \in {1, 2, 3} /\ passes \in 0..2
      /\ (sensor = "delay" => index["sensor"] = 1)
  BY Quantities DEF SensorInv, TypeOK, OneUser
<1>2. ASSUME Calm, ~ReadINA
      PROVE  /\ \A n \in 1..10 : Left(n) => Left(n)'
             /\ Clean => Clean'
  <2>1. UNCHANGED vars
    BY <1>2, CalmSteps
  <2>2. StepsLeft' = StepsLeft
    BY <2>1 DEF StepsLeft, vars, tasks
  <2>3. CleanPass => CleanPass'
    BY <1>2, CalmSteps, <2>1 DEF CleanPass, vars, tasks
  <2>4. passes' = passes
    BY <2>1 DEF vars
  <2> QED BY <2>2, <2>3, <2>4 DEF Left, Clean
<1>3. ASSUME Calm, ReadINA, ~Delay
      PROVE  StepsLeft' = StepsLeft - 1
  <2>1. ASSUME NEW ok \in BOOLEAN, PointQuantity(ok)
        PROVE  StepsLeft' = StepsLeft - 1
    BY <1>1, <2>1 DEF PointQuantity, StepsLeft
  <2>2. ASSUME NEW ok \in BOOLEAN, ReadQuantity(ok)
        PROVE  StepsLeft' = StepsLeft - 1
    BY <1>1, <2>2 DEF ReadQuantity, StepsLeft, SensorInv, TypeOK
  <2>3. CASE Store
    BY <1>1, <2>3 DEF Store, StepsLeft, SensorInv, TypeOK
  <2> QED BY <1>3, <2>1, <2>2, <2>3 DEF ReadINA
<1>4. Calm => (Left(1) <=> sensor = "delay")
  <2>1. Calm => sensor \in {"point", "read", "store", "delay"}
    BY CalmSteps DEF SensorInv, TypeOK
  <2> QED BY <1>1, <2>1 DEF Left, StepsLeft
<1>5. Delay => sensor = "delay"
  BY DEF Delay
<1>6. ReadINA /\ sensor = "delay" => Delay
  BY DEF ReadINA, PointQuantity, ReadQuantity, Store
<1>7. ASSUME Calm, ReadINA, Left(1)
      PROVE  Left(10)' /\ Clean' /\ (Clean => Recovered')
  <2>1. Delay /\ sensor = "delay" /\ main = "serve" /\ ~fault'
    BY <1>4, <1>6, <1>7, CalmSteps DEF Calm, Serving
  <2>2. sensor' = "point" /\ index'["sensor"] = 1 /\ main' = "serve"
    BY <1>1, <2>1 DEF Delay
  <2>3. Left(10)' /\ CleanPass'
    BY <2>2, Quantities DEF Left, StepsLeft, CleanPass
  <2>4. passes' >= 1 /\ (passes >= 1 => passes' = 2)
    BY <1>1, <2>1 DEF Delay
  <2>5. CleanPass => Healthy
    BY <2>1 DEF Healthy, CleanPass
  <2>6. Healthy => Healthy'
    BY <1>7, <2>1, <2>2, HealthyStep DEF Calm, Serving, SensorInv
  <2> QED BY <2>3, <2>4, <2>5, <2>6 DEF Clean, Recovered
<1>8. ASSUME Calm, ReadINA, NEW n \in 2..10, Left(n)
      PROVE  Left(n - 1)'
  <2>1. ~Delay
    BY <1>4, <1>5, <1>8 DEF Left
  <2> QED BY <1>3, <1>8, <2>1 DEF Left
<1>9. ASSUME Calm, ReadINA
      PROVE  /\ Left(10) => Left(9)'
             /\ Left(9) => Left(8)'
             /\ Left(8) => Left(7)'
             /\ Left(7) => Left(6)'
             /\ Left(6) => Left(5)'
             /\ Left(5) => Left(4)'
             /\ Left(4) => Left(3)'
             /\ Left(3) => Left(2)'
             /\ Left(2) => Left(1)'
  BY <1>8, <1>9 DEF Left
<1> QED BY <1>2, <1>7, <1>9 DEF Moves

\* What has recovered stays so in the calm.
LEMMA RecoveryLasts ==
  ASSUME SensorInv, Calm
  PROVE  (Clean => Clean') /\ (Recovered => Recovered')
<1>1. ReadINA \/ UNCHANGED vars
  BY CalmSteps
<1>2. CASE UNCHANGED vars
  BY <1>2 DEF vars, tasks, Clean, Recovered, CleanPass, Healthy
<1>3. CASE ReadINA
  <2>1. ~fault' /\ [Next]_vars /\ main' = "serve"
    BY <1>3, CalmSteps DEF Calm, Serving
  <2>2. /\ passes \in 0..2
        /\ passes' = passes \/ (passes' = passes + 1 /\ passes < 2)
    BY <1>3 DEF ReadINA, PointQuantity, ReadQuantity, Store, Delay, SensorInv,
                TypeOK
  <2> QED
    BY <2>1, <2>2, CleanStep, HealthyStep DEF Clean, Recovered, SensorInv
<1> QED BY <1>1, <1>2, <1>3

\* Once the server stays up and transactions stop failing, the registers come
\* to hold sound and fresh readings for good, whatever failed before: two
\* passes of readINA after that are enough.
THEOREM ReadingsDoRecover == FairSpec /\ SensorReady => ReadingsRecover
<1> DEFINE Live == FairSpec /\ SensorReady
           Quiet == <>[](main = "serve") /\ <>[][~fault']_tasks
<1>1. Live => []SensorInv /\ [][Next]_vars /\ WF_vars(ReadINA)
  BY SensorInductive, PTL DEF FairSpec, Spec
<1>2. Live => [](sensor # "none" => ENABLED <<ReadINA>>_vars)
  BY PTL DEF SensorReady
<1>3. SensorInv => 
        /\ Moves(Left(10), Left(9)) /\ Moves(Left(9), Left(8))
        /\ Moves(Left(8), Left(7)) /\ Moves(Left(7), Left(6))
        /\ Moves(Left(6), Left(5)) /\ Moves(Left(5), Left(4))
        /\ Moves(Left(4), Left(3)) /\ Moves(Left(3), Left(2))
        /\ Moves(Left(2), Left(1))
        /\ Moves(Left(1), Left(10) /\ Clean)
        /\ Moves(Left(1) /\ Clean, Recovered)
  BY PassMoves
<1>4. SensorInv /\ Calm => (Clean => Clean') /\ (Recovered => Recovered')
  BY RecoveryLasts
<1>5. SensorInv /\ main = "serve"
        => /\ sensor # "none"
           /\ \/ Left(1) \/ Left(2) \/ Left(3) \/ Left(4) \/ Left(5)
              \/ Left(6) \/ Left(7) \/ Left(8) \/ Left(9) \/ Left(10)
  <2> SUFFICES ASSUME SensorInv, main = "serve"
               PROVE  /\ sensor # "none"
                      /\ \E n \in 1..10 : Left(n)
    OBVIOUS
  <2>1. sensor # "none" /\ index["sensor"] \in {1, 2, 3}
    BY Quantities DEF SensorInv, TypeOK, OneUser, Programming
  <2>2. sensor \in {"point", "read", "store", "delay"}
    BY <2>1 DEF SensorInv, TypeOK
  <2> QED BY <2>1, <2>2 DEF Left, StepsLeft
<1>6. SensorInv /\ Recovered
        => \A q \in Quantity : inputs[q].sound /\ inputs[q].age <= 1
  <2>1. SensorInv => CoherentInputs
    BY AgesAreCoherent DEF SensorInv
  <2> QED BY <2>1 DEF Recovered, Healthy, CoherentInputs
<1>7. main = "serve" <=> Serving
  BY DEF Serving
<1>8. Live /\ Quiet => <>[]Recovered
  BY <1>1, <1>2, <1>3, <1>4, <1>5, <1>7, PTL DEF Moves, Calm
<1> QED BY <1>1, <1>6, <1>8, PTL DEF ReadingsRecover
=============================================================================
