---------------------------- MODULE MotorControl ----------------------------
(***************************************************************************)
(* The motor side of the RTU (rtu/main/MD08A.c, with the calls app_main    *)
(* and setup_reg_data make).  Two FreeRTOS tasks drive the H bridge        *)
(* without a lock: app_main applies a boot drive once, runMotor turns the  *)
(* coil and the holding register into bridge outputs every 10 ms.  A third *)
(* task, the Modbus stack, stores what clients write in those registers;   *)
(* a float is copied in several parts, one at a time: nothing in the       *)
(* repository says whether those are its two Modbus words or its four      *)
(* bytes, so their number is a parameter.                                  *)
(***************************************************************************)
EXTENDS Integers

CONSTANTS
  Parts,     \* parts the stack copies one float register in, called words below
  Word,      \* contents of one word
  ZeroWord,  \* the word of all zero bits
  Decode,    \* the number a register's words stand for, or NaN
  Writes,    \* registers the clients write to holding_data1
  FullDuty,  \* upper clamp, 100.0f
  BootDuty,  \* duty app_main applies before the network is up, 20
  NaN        \* the float that fails every comparison

Register == [1..Parts -> Word]
ZeroReg == [p \in 1..Parts |-> ZeroWord]

ASSUME PartsAssumption == Parts \in Nat \ {0}
ASSUME WordAssumption == ZeroWord \in Word /\ Writes \subseteq Register
ASSUME DecodeAssumption ==
  /\ NaN \notin Int
  /\ Decode \in [Register -> Int \cup {NaN}]
  /\ Decode[ZeroReg] = 0
ASSUME DutyAssumption == FullDuty \in Nat /\ BootDuty \in 0..FullDuty

VARIABLES
  pc,         \* where each task is
  duty,       \* the local variable of runMotor
  holding,    \* holding_reg_params.holding_data1
  coil,       \* is coil_reg_params.coils_port0 non-zero?
  pwm,        \* duty last given to mcpwm_set_duty
  in1, in2,   \* levels of the two direction pins
  request,    \* register the stack is storing
  copied,     \* words of it stored so far; Parts when the stack is idle
  commanded,  \* history: registers clients asked for since the reset
  fresh,      \* history: nobody else touched registers or bridge this pass
  pwmBy       \* history: task that last set the duty

regs == <<holding, coil>>
bridge == <<pwm, in1, in2>>
stack == <<request, copied, commanded>>
vars == <<pc, duty, regs, bridge, stack, fresh, pwmBy>>

Task == {"main", "motor"}
Drive == {"set_duty", "set_in1", "set_in2"}
BootLabel == {"init_motor"} \cup Drive
MainLabel == BootLabel \cup {"init_services", "setup_holding", "setup_coils",
                             "slave_start", "serve"}
MotorLabel == {"none", "check", "load", "stop_in1", "stop_in2", "stop_duty",
               "delay"} \cup Drive
Duty == 0..FullDuty \cup {NaN}

\* Mutant: the stack is started before setup_reg_data.
ServingEarly ==
  pc["main"] \in {"setup_holding", "setup_coils", "slave_start", "serve"}

Serving == pc["main"] = "serve"

\* Both comparisons of the clamp are false for NaN, which goes through.
Clamp(d) == CASE d = NaN -> NaN
              [] d # NaN /\ d > FullDuty -> FullDuty
              [] d # NaN /\ d < 0 -> 0
              [] OTHER -> d

\* What runMotor should put on the bridge for the present registers.
Demand == IF coil THEN <<Clamp(Decode[holding]), 1, 0>> ELSE <<0, 0, 0>>

Init ==
  /\ pc = [t \in Task |-> IF t = "main" THEN "init_motor" ELSE "none"]
  /\ duty = 0
  /\ holding = ZeroReg /\ coil = FALSE
  /\ pwm = 0 /\ in1 = 0 /\ in2 = 0
  /\ request = ZeroReg /\ copied = Parts /\ commanded = {}
  /\ fresh = FALSE /\ pwmBy = "none"

Goto(t, from, to) == pc[t] = from /\ pc' = [pc EXCEPT ![t] = to]

-----------------------------------------------------------------------------
(* setSpeedDir(duty, CW), the three driver calls either task makes *)

\* A step of app_main on the bridge is seen by the motor task's current pass.
TouchedBy(t) == fresh' = (fresh /\ t = "motor")

DutyOf(t) == IF t = "main" THEN BootDuty ELSE duty

SetDuty(t) ==
  /\ Goto(t, "set_duty", "set_in1")
  /\ pwm' = DutyOf(t) /\ pwmBy' = t
  /\ TouchedBy(t)
  /\ UNCHANGED <<duty, regs, in1, in2, stack>>

SetIn1(t) ==
  /\ Goto(t, "set_in1", "set_in2")
  /\ in1' = 1
  /\ TouchedBy(t)
  /\ UNCHANGED <<duty, regs, pwm, in2, stack, pwmBy>>

SetIn2(t) ==
  /\ Goto(t, "set_in2", IF t = "main" THEN "init_services" ELSE "delay")
  /\ in2' = 0
  /\ TouchedBy(t)
  /\ UNCHANGED <<duty, regs, pwm, in1, stack, pwmBy>>

SetSpeedDir(t) == SetDuty(t) \/ SetIn1(t) \/ SetIn2(t)

-----------------------------------------------------------------------------
(* runMotor and stopMotor *)

\* Mutant: the registers are acted on only when the motor is not yet running.
CheckOnEdge ==
  /\ Goto("motor", "check", CASE coil /\ in1 = 0 -> "load"
                              [] coil /\ in1 = 1 -> "delay"
                              [] OTHER -> "stop_in1")
  /\ fresh' = TRUE
  /\ UNCHANGED <<duty, regs, bridge, stack, pwmBy>>

Check ==
  /\ Goto("motor", "check", IF coil THEN "load" ELSE "stop_in1")
  /\ fresh' = TRUE
  /\ UNCHANGED <<duty, regs, bridge, stack, pwmBy>>

\* Mutants: a clamp is missing, or the duty is not set again when unchanged.
LoadUnclamped ==
  /\ Goto("motor", "load", "set_duty")
  /\ duty' = Decode[holding]
  /\ UNCHANGED <<regs, bridge, stack, fresh, pwmBy>>

LoadOnlyChanges ==
  /\ duty' = Clamp(Decode[holding])
  /\ Goto("motor", "load", IF duty' = duty THEN "set_in1" ELSE "set_duty")
  /\ UNCHANGED <<regs, bridge, stack, fresh, pwmBy>>

Load ==
  /\ Goto("motor", "load", "set_duty")
  /\ duty' = Clamp(Decode[holding])
  /\ UNCHANGED <<regs, bridge, stack, fresh, pwmBy>>

StopIn1 ==
  /\ Goto("motor", "stop_in1", "stop_in2")
  /\ in1' = 0
  /\ UNCHANGED <<duty, regs, pwm, in2, stack, fresh, pwmBy>>

StopIn2 ==
  /\ Goto("motor", "stop_in2", "stop_duty")
  /\ in2' = 0
  /\ UNCHANGED <<duty, regs, pwm, in1, stack, fresh, pwmBy>>

\* Mutant: stopMotor only lowers the pins.
StopKeepsDuty ==
  /\ Goto("motor", "stop_duty", "delay")
  /\ UNCHANGED <<duty, regs, bridge, stack, fresh, pwmBy>>

StopDuty ==
  /\ Goto("motor", "stop_duty", "delay")
  /\ pwm' = 0 /\ pwmBy' = "motor"
  /\ UNCHANGED <<duty, regs, in1, in2, stack, fresh>>

Delay ==
  /\ Goto("motor", "delay", "check")
  /\ UNCHANGED <<duty, regs, bridge, stack, fresh, pwmBy>>

RunMotor == Check \/ Load \/ StopIn1 \/ StopIn2 \/ StopDuty \/ Delay
              \/ SetSpeedDir("motor")

-----------------------------------------------------------------------------
(* app_main up to the Modbus server loop *)

InitMotor ==
  /\ pc["main"] = "init_motor"
  /\ pc' = [t \in Task |-> IF t = "main" THEN "set_duty" ELSE "check"]
  /\ pwm' = 0 /\ in1' = 0 /\ in2' = 0
  /\ UNCHANGED <<duty, regs, stack, fresh, pwmBy>>

InitServices ==
  /\ Goto("main", "init_services", "setup_holding")
  /\ UNCHANGED <<duty, regs, bridge, stack, fresh, pwmBy>>

SetupHolding ==
  /\ Goto("main", "setup_holding", "setup_coils")
  /\ holding' = ZeroReg /\ fresh' = FALSE
  /\ UNCHANGED <<duty, coil, bridge, stack, pwmBy>>

SetupCoils ==
  /\ Goto("main", "setup_coils", "slave_start")
  /\ coil' = TRUE /\ fresh' = FALSE
  /\ UNCHANGED <<duty, holding, bridge, stack, pwmBy>>

SlaveStart ==
  /\ Goto("main", "slave_start", "serve")
  /\ UNCHANGED <<duty, regs, bridge, stack, fresh, pwmBy>>

AppMain == InitMotor \/ SetSpeedDir("main") \/ InitServices \/ SetupHolding
             \/ SetupCoils \/ SlaveStart

-----------------------------------------------------------------------------
(* The Modbus stack task, which takes no lock runMotor knows of *)

AcceptWrite(r) ==
  /\ Serving /\ copied = Parts
  /\ request' = r /\ copied' = 0
  /\ commanded' = commanded \cup {r}
  /\ UNCHANGED <<pc, duty, regs, bridge, fresh, pwmBy>>

CopyWord ==
  /\ copied < Parts
  /\ copied' = copied + 1
  /\ holding' = [holding EXCEPT ![copied + 1] = request[copied + 1]]
  /\ fresh' = FALSE
  /\ UNCHANGED <<pc, duty, coil, bridge, request, commanded, pwmBy>>

WriteCoil(b) ==
  /\ Serving /\ copied = Parts
  /\ coil' = b /\ fresh' = FALSE
  /\ UNCHANGED <<pc, duty, holding, bridge, stack, pwmBy>>

ModbusStack == (\E r \in Writes : AcceptWrite(r)) \/ CopyWord
                 \/ (\E b \in BOOLEAN : WriteCoil(b))

-----------------------------------------------------------------------------
\* A power cycle, or ESP_ERROR_CHECK aborting on a failed init_services or
\* slave_init: the chip starts over from reset values.
Restart ==
  /\ pc' = [t \in Task |-> IF t = "main" THEN "init_motor" ELSE "none"]
  /\ duty' = 0
  /\ holding' = ZeroReg /\ coil' = FALSE
  /\ pwm' = 0 /\ in1' = 0 /\ in2' = 0
  /\ request' = ZeroReg /\ copied' = Parts /\ commanded' = {}
  /\ fresh' = FALSE /\ pwmBy' = "none"

Next == AppMain \/ RunMotor \/ ModbusStack \/ Restart

Spec == Init /\ [][Next]_vars

\* The scheduler runs a ready task of priority 1 sooner or later, and the
\* delays of the tasks above it leave it the processor.
FairSpec == Spec /\ WF_vars(RunMotor)

-----------------------------------------------------------------------------
TypeOK ==
  /\ pc["main"] \in MainLabel /\ pc["motor"] \in MotorLabel
  /\ pc \in [Task -> MainLabel \cup MotorLabel]
  /\ duty \in Duty
  /\ holding \in Register /\ coil \in BOOLEAN
  /\ pwm \in Duty /\ in1 \in 0..1 /\ in2 \in 0..1
  /\ request \in Register /\ copied \in 0..Parts
  /\ commanded \subseteq Writes
  /\ fresh \in BOOLEAN /\ pwmBy \in Task \cup {"none"}

\* Registers whose every word comes from some member of S: what a reader may
\* see while the stack is between two words of a store.
Mixes(S) == {m \in Register : \A p \in 1..Parts : \E r \in S : m[p] = r[p]}

\* The duties that commands allow, as DutyFromCommands and the abstract drive
\* see them.
Allowed(S) == {0} \cup {Clamp(Decode[m]) : m \in Mixes(S \cup {ZeroReg})}

\* Once runMotor has set the duty, it is off or the clamped value of words
\* that clients sent since the reset (or of the zeroed register): neither
\* app_main's boot duty nor an unclamped or invented value is left behind.
DutyFromCommands ==
  pwmBy = "motor" => pwm \in Allowed(commanded)

\* A pass of runMotor that nobody interfered with ends with the bridge doing
\* what the coil and the holding register ask for.
PassObeysRegisters ==
  pc["motor"] = "delay" /\ fresh => bridge = Demand

\* Initialising the registers never erases what a client wrote: the words the
\* stack has stored are the words that are there.
CommandNotErased ==
  commanded # {} => \A p \in 1..copied : holding[p] = request[p]

\* When the bridge goes from off to drive after boot, it does so with the duty
\* of the pass that drives it, never with an older one.
EnergisedAtNewDuty ==
  [][in1 = 0 /\ in1' = 1 /\ pwmBy = "motor" /\ pc["main"] \notin BootLabel
       => pwm' = duty]_vars

\* If the server stays up and clients leave the registers alone, the bridge
\* ends up doing what they ask for and stays there: a stop is not undone by
\* a pass that had already read the coil, nor by the boot drive.
BridgeFollowsRegisters ==
  <>[]Serving /\ <>[][UNCHANGED regs]_vars => <>[](bridge = Demand)

\* The drive the motor feels: the bridge is off while IN1 is low.
Output == IF in1 = 1 THEN pwm ELSE 0

Abstract == INSTANCE MotorDrive WITH
  Commands <- Writes,
  Values <- [S \in SUBSET Writes |-> Allowed(S)],
  output <- Output,
  booted <- pc["main"] \notin BootLabel

\* The two tasks and the stack, call by call and word by word, are an
\* implementation of the drive a client may think of: the boot duty never
\* comes back, and no interleaving drives the motor with anything else.
ImplementsMotorDrive == Abstract!Spec
=============================================================================
