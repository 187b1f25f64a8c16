------------------------- MODULE MotorControlProofs -------------------------
(***************************************************************************)
(* Invariance proofs about MotorControl, for every register width, word    *)
(* set, decoding and set of client writes.                                 *)
(***************************************************************************)
EXTENDS MotorControl, TLAPS

\* Before the stack is started no client has been heard.
QuietBeforeServing == ~Serving => commanded = {} /\ copied = Parts

\* Registers hold words of commands, and so do the values made from them.
WordsFromCommands ==
  /\ request \in commanded \cup {ZeroReg}
  /\ holding \in Mixes(commanded \cup {ZeroReg})
  /\ duty \in Allowed(commanded)

\* How far an undisturbed pass has brought the bridge to its demand.
PassProgress ==
  fresh =>
    /\ pc["motor"] = "load" => coil
    /\ pc["motor"] \in Drive => coil /\ duty = Clamp(Decode[holding])
    /\ pc["motor"] \in {"set_in1", "set_in2"} => pwm = duty
    /\ pc["motor"] = "set_in2" => in1 = 1
    /\ pc["motor"] \in {"stop_in1", "stop_in2", "stop_duty"} => ~coil
    /\ pc["motor"] \in {"stop_in2", "stop_duty"} => in1 = 0
    /\ pc["motor"] = "stop_duty" => in2 = 0

\* The pins are switched at the duty of the pass, unless app_main's boot
\* drive has come in between.
PinsAfterDuty ==
  pc["motor"] \in {"set_in1", "set_in2"} /\ pwmBy = "motor" => pwm = duty

IInv ==
  /\ TypeOK
  /\ QuietBeforeServing
  /\ WordsFromCommands
  /\ DutyFromCommands
  /\ PassProgress
  /\ PassObeysRegisters
  /\ CommandNotErased
  /\ PinsAfterDuty

-----------------------------------------------------------------------------
(* Facts about the operators *)

\* The clamp keeps any float in 0..100, or leaves it a NaN.
LEMMA ClampType == \A d \in Int \cup {NaN} : Clamp(d) \in Duty
  BY DutyAssumption, DecodeAssumption DEF Clamp, Duty

\* The zeroed register is a register, and stands for zero.
LEMMA ZeroRegType == ZeroReg \in Register /\ Clamp(Decode[ZeroReg]) = 0
<1>1. ZeroReg \in Register
  BY WordAssumption DEF ZeroReg, Register
<1>2. Clamp(0) = 0
  BY DutyAssumption, DecodeAssumption DEF Clamp
<1> QED BY <1>1, <1>2, DecodeAssumption

\* More commands only add registers a reader may see.
LEMMA MixesGrow ==
  ASSUME NEW S, NEW T, S \subseteq T
  PROVE  Mixes(S) \subseteq Mixes(T)
  BY DEF Mixes

\* Storing one word of a command in a mix of commands gives another mix.
LEMMA StoreKeepsMix ==
  ASSUME NEW S, NEW m \in Mixes(S), NEW r \in S, r \in Register,
         NEW p \in 1..Parts
  PROVE  [m EXCEPT ![p] = r[p]] \in Mixes(S)
<1>1. [m EXCEPT ![p] = r[p]] \in Register
  BY DEF Mixes, Register
<1>2. \A q \in 1..Parts : \E s \in S : [m EXCEPT ![p] = r[p]][q] = s[q]
  <2> TAKE q \in 1..Parts
  <2>1. CASE q = p
    BY <2>1 DEF Mixes, Register
  <2>2. CASE q # p
    BY <2>2 DEF Mixes, Register
  <2> QED BY <2>1, <2>2
<1> QED BY <1>1, <1>2 DEF Mixes

\* A register is a mix of any set it belongs to.
LEMMA MemberIsMix ==
  ASSUME NEW S, NEW r \in S, r \in Register
  PROVE  r \in Mixes(S)
  BY DEF Mixes

-----------------------------------------------------------------------------
\* The reset state satisfies the inductive invariant.
LEMMA InitInv == Init => IInv
<1> SUFFICES ASSUME Init PROVE IInv
  OBVIOUS
<1>1. TypeOK
  <2>1. /\ pc["main"] = "init_motor" /\ pc["motor"] = "none"
        /\ pc \in [Task -> MainLabel \cup MotorLabel]
    BY DEF Init, Task, MainLabel, BootLabel, MotorLabel
  <2>2. 0 \in Duty /\ Parts \in 0..Parts
    BY PartsAssumption, DutyAssumption DEF Duty
  <2>3. (duty \in Duty /\ pwm \in Duty /\ in1 \in 0..1 /\ in2 \in 0..1)
    BY <2>2 DEF Init
  <2>4. (coil \in BOOLEAN /\ fresh \in BOOLEAN)
    BY Zenon DEF Init
  <2>5. /\ (holding \in Register /\ request \in Register)
        /\ (copied \in 0..Parts /\ commanded \subseteq Writes)
        /\ (pwmBy \in Task \cup {"none"})
    BY <2>2, ZeroRegType DEF Init
  <2>6. pc["main"] \in MainLabel /\ pc["motor"] \in MotorLabel
    BY <2>1 DEF MainLabel, BootLabel, MotorLabel
  <2> QED
    BY <2>1, <2>3, <2>4, <2>5, <2>6 DEF TypeOK
<1>2. WordsFromCommands
  BY ZeroRegType, MemberIsMix DEF Init, WordsFromCommands, Allowed
<1>3. QuietBeforeServing /\ DutyFromCommands /\ PassProgress
        /\ PassObeysRegisters /\ CommandNotErased /\ PinsAfterDuty
  BY DEF Init, QuietBeforeServing, Serving, DutyFromCommands, PassProgress,
     PassObeysRegisters, CommandNotErased, PinsAfterDuty, Task
<1> QED BY <1>1, <1>2, <1>3 DEF IInv

\* A restart reaches the reset state again.
LEMMA RestartInv == Restart => IInv'
<1> SUFFICES ASSUME Restart PROVE IInv'
  OBVIOUS
<1>1. TypeOK'
  <2>1. /\ pc'["main"] = "init_motor" /\ pc'["motor"] = "none"
        /\ pc' \in [Task -> MainLabel \cup MotorLabel]
    BY DEF Restart, Task, MainLabel, BootLabel, MotorLabel
  <2>2. 0 \in Duty /\ Parts \in 0..Parts
    BY PartsAssumption, DutyAssumption DEF Duty
  <2>3. (duty \in Duty /\ pwm \in Duty /\ in1 \in 0..1 /\ in2 \in 0..1)'
    BY <2>2 DEF Restart
  <2>4. (coil \in BOOLEAN /\ fresh \in BOOLEAN)'
    BY Zenon DEF Restart
  <2>5. /\ (holding \in Register /\ request \in Register)'
        /\ (copied \in 0..Parts /\ commanded \subseteq Writes)'
        /\ (pwmBy \in Task \cup {"none"})'
    BY <2>2, ZeroRegType DEF Restart
  <2>6. (pc["main"] \in MainLabel /\ pc["motor"] \in MotorLabel)'
    BY <2>1 DEF MainLabel, BootLabel, MotorLabel
  <2> QED
    BY <2>1, <2>3, <2>4, <2>5, <2>6 DEF TypeOK
<1>2. WordsFromCommands'
  BY ZeroRegType, MemberIsMix
     DEF Restart, WordsFromCommands, Allowed, Mixes
<1>3. (QuietBeforeServing /\ DutyFromCommands /\ PassProgress
        /\ PassObeysRegisters /\ CommandNotErased /\ PinsAfterDuty)'
  BY DEF Restart, QuietBeforeServing, Serving, DutyFromCommands, PassProgress,
     PassObeysRegisters, CommandNotErased, PinsAfterDuty, Task
<1> QED BY <1>1, <1>2, <1>3 DEF IInv

-----------------------------------------------------------------------------
\* Every step keeps every variable in its type.
LEMMA TypeStep == TypeOK /\ [Next]_vars => TypeOK'
<1> SUFFICES ASSUME TypeOK, [Next]_vars PROVE TypeOK'
  OBVIOUS
<1> USE DEF Goto, Task, MainLabel, MotorLabel, BootLabel, Drive, regs, bridge, stack
<1>1. ASSUME NEW t \in Task, SetDuty(t) PROVE TypeOK'
  <2>1. DutyOf(t) \in Duty
    BY DutyAssumption DEF DutyOf, TypeOK, Duty
  <2> QED BY <1>1, <2>1 DEF SetDuty, TouchedBy, TypeOK
<1>2. ASSUME NEW t \in Task, SetIn1(t) PROVE TypeOK'
  BY <1>2 DEF SetIn1, TouchedBy, TypeOK
<1>3. ASSUME NEW t \in Task, SetIn2(t) PROVE TypeOK'
  BY <1>3 DEF SetIn2, TouchedBy, TypeOK
<1>4. CASE Check
  BY <1>4 DEF Check, TypeOK
<1>5. CASE Load
  <2>1. Clamp(Decode[holding]) \in Duty
    BY ClampType, DecodeAssumption DEF TypeOK
  <2> QED BY <1>5, <2>1 DEF Load, TypeOK
<1>6. CASE StopIn1 \/ StopIn2 \/ Delay
  BY <1>6 DEF StopIn1, StopIn2, Delay, TypeOK
<1>7. CASE StopDuty
  BY <1>7, DutyAssumption DEF StopDuty, TypeOK, Duty
<1>8. CASE InitMotor
  BY <1>8, DutyAssumption DEF InitMotor, TypeOK, Duty
<1>9. CASE InitServices \/ SlaveStart
  BY <1>9 DEF InitServices, SlaveStart, TypeOK
<1>10. CASE SetupHolding \/ SetupCoils
  BY <1>10, ZeroRegType DEF SetupHolding, SetupCoils, TypeOK
<1>11. ASSUME NEW r \in Writes, AcceptWrite(r) PROVE TypeOK'
  BY <1>11, PartsAssumption, WordAssumption DEF AcceptWrite, TypeOK
<1>12. CASE CopyWord
  <2>1. copied + 1 \in 1..Parts
    BY <1>12, PartsAssumption DEF CopyWord, TypeOK
  <2>2. holding' \in Register /\ copied' \in 0..Parts
    BY <1>12, <2>1, PartsAssumption DEF CopyWord, TypeOK, Register
  <2> QED BY <1>12, <2>2 DEF CopyWord, TypeOK
<1>13. ASSUME NEW b \in BOOLEAN, WriteCoil(b) PROVE TypeOK'
  BY <1>13 DEF WriteCoil, TypeOK
<1>14. CASE Restart
  BY <1>14, RestartInv DEF IInv
<1>15. CASE UNCHANGED vars
  BY <1>15 DEF vars, TypeOK
<1> QED
  BY <1>1, <1>2, <1>3, <1>4, <1>5, <1>6, <1>7, <1>8, <1>9, <1>10, <1>11,
     <1>12, <1>13, <1>14, <1>15
     DEF Next, AppMain, RunMotor, ModbusStack, SetSpeedDir

-----------------------------------------------------------------------------
\* A client is heard only once the server runs, and the server never goes
\* back: no step but a restart leaves "serve".
LEMMA QuietStep ==
  TypeOK /\ QuietBeforeServing /\ [Next]_vars => QuietBeforeServing'
<1> SUFFICES ASSUME TypeOK, QuietBeforeServing, [Next]_vars
             PROVE  QuietBeforeServing'
  OBVIOUS
<1> USE DEF QuietBeforeServing, Serving, Goto, Task, stack
<1>1. ASSUME NEW t \in Task, SetSpeedDir(t) PROVE QuietBeforeServing'
  BY <1>1 DEF SetSpeedDir, SetDuty, SetIn1, SetIn2, TypeOK
<1>2. CASE Check \/ Load \/ StopIn1 \/ StopIn2 \/ StopDuty \/ Delay
  BY <1>2 DEF Check, Load, StopIn1, StopIn2, StopDuty, Delay, TypeOK
<1>3. CASE InitMotor \/ InitServices \/ SetupHolding \/ SetupCoils \/ SlaveStart
  BY <1>3 DEF InitMotor, InitServices, SetupHolding, SetupCoils, SlaveStart,
     TypeOK
<1>4. CASE ModbusStack
  BY <1>4, PartsAssumption DEF ModbusStack, AcceptWrite, CopyWord, WriteCoil, TypeOK
<1>5. CASE Restart
  BY <1>5, RestartInv DEF IInv
<1>6. CASE UNCHANGED vars
  BY <1>6 DEF vars
<1> QED BY <1>1, <1>2, <1>3, <1>4, <1>5, <1>6 DEF Next, AppMain, RunMotor

\* Whatever a task copies from a register is made of words of commands.
LEMMA WordsStep ==
  TypeOK /\ WordsFromCommands /\ [Next]_vars => WordsFromCommands'
<1> SUFFICES ASSUME TypeOK, WordsFromCommands, [Next]_vars
             PROVE  WordsFromCommands'
  OBVIOUS
<1> DEFINE Heard == commanded \cup {ZeroReg}
<1>1. CASE UNCHANGED <<request, holding, duty, commanded>>
  BY <1>1 DEF WordsFromCommands, Allowed
<1>2. CASE Load
  BY <1>2 DEF Load, Goto, WordsFromCommands, Allowed, regs, stack
<1>3. CASE SetupHolding
  <2>1. ZeroReg \in Mixes(Heard)
    BY ZeroRegType, MemberIsMix
  <2> QED BY <1>3, <2>1 DEF SetupHolding, WordsFromCommands, Allowed, stack
<1>4. ASSUME NEW r \in Writes, AcceptWrite(r) PROVE WordsFromCommands'
  <2>1. Mixes(Heard) \subseteq Mixes(Heard')
    BY <1>4, MixesGrow DEF AcceptWrite
  <2> QED BY <1>4, <2>1 DEF AcceptWrite, WordsFromCommands, Allowed, regs
<1>5. CASE CopyWord
  <2>1. copied + 1 \in 1..Parts
    BY <1>5, PartsAssumption DEF CopyWord, TypeOK
  <2>2. holding' \in Mixes(Heard)
    BY <1>5, <2>1, StoreKeepsMix DEF CopyWord, WordsFromCommands, TypeOK
  <2> QED BY <1>5, <2>2 DEF CopyWord, WordsFromCommands, Allowed
<1>6. CASE Restart
  BY <1>6, RestartInv DEF IInv
<1>7. ASSUME NEW t \in Task, SetSpeedDir(t)
      PROVE  UNCHANGED <<request, holding, duty, commanded>>
  BY <1>7 DEF SetSpeedDir, SetDuty, SetIn1, SetIn2, regs, stack
<1>8. ASSUME NEW b \in BOOLEAN, WriteCoil(b)
      PROVE  UNCHANGED <<request, holding, duty, commanded>>
  BY <1>8 DEF WriteCoil, stack
<1>9. Check \/ StopIn1 \/ StopIn2 \/ StopDuty \/ Delay \/ InitMotor
        \/ InitServices \/ SetupCoils \/ SlaveStart \/ UNCHANGED vars
        => UNCHANGED <<request, holding, duty, commanded>>
  BY DEF Check, StopIn1, StopIn2, StopDuty, Delay, InitMotor, InitServices,
     SetupCoils, SlaveStart, regs, stack, vars
<1> QED
  BY <1>1, <1>2, <1>3, <1>4, <1>5, <1>6, <1>7, <1>8, <1>9
     DEF Next, AppMain, RunMotor, ModbusStack, Task

\* The duty runMotor sets was computed from commands.
LEMMA DutyStep ==
  TypeOK /\ WordsFromCommands /\ DutyFromCommands /\ [Next]_vars
    => DutyFromCommands'
<1> SUFFICES ASSUME TypeOK, WordsFromCommands, DutyFromCommands, [Next]_vars
             PROVE  DutyFromCommands'
  OBVIOUS
<1>1. DutyFromCommands <=> (pwmBy = "motor" => pwm \in Allowed(commanded))
  BY DEF DutyFromCommands, Allowed
<1>2. DutyFromCommands' <=> (pwmBy' = "motor" => pwm' \in Allowed(commanded)')
  BY DEF DutyFromCommands, Allowed
<1>3. CASE UNCHANGED <<pwm, pwmBy, commanded>>
  BY <1>1, <1>2, <1>3 DEF Allowed
<1>4. CASE SetDuty("motor")
  BY <1>2, <1>4
     DEF SetDuty, DutyOf, WordsFromCommands, Allowed, stack
<1>5. CASE SetDuty("main")
  BY <1>2, <1>5 DEF SetDuty
<1>6. CASE StopDuty
  BY <1>2, <1>6 DEF StopDuty, Allowed
<1>7. CASE InitMotor
  BY <1>2, <1>7 DEF InitMotor, Allowed
<1>8. ASSUME NEW r \in Writes, AcceptWrite(r) PROVE DutyFromCommands'
  <2>1. Mixes(commanded \cup {ZeroReg}) \subseteq Mixes(commanded' \cup {ZeroReg})
    BY <1>8, MixesGrow DEF AcceptWrite
  <2> QED BY <1>1, <1>2, <1>8, <2>1 DEF AcceptWrite, Allowed, bridge
<1>9. CASE Restart
  BY <1>9, RestartInv DEF IInv
<1>10. ASSUME NEW t \in Task, SetIn1(t) \/ SetIn2(t)
       PROVE  UNCHANGED <<pwm, pwmBy, commanded>>
  BY <1>10 DEF SetIn1, SetIn2, stack
<1>11. ASSUME NEW b \in BOOLEAN, WriteCoil(b)
       PROVE  UNCHANGED <<pwm, pwmBy, commanded>>
  BY <1>11 DEF WriteCoil, bridge, stack
<1>12. Check \/ Load \/ StopIn1 \/ StopIn2 \/ Delay \/ InitServices
         \/ SetupHolding \/ SetupCoils \/ SlaveStart \/ CopyWord
         \/ UNCHANGED vars
         => UNCHANGED <<pwm, pwmBy, commanded>>
  BY DEF Check, Load, StopIn1, StopIn2, Delay, InitServices, SetupHolding,
     SetupCoils, SlaveStart, CopyWord, bridge, stack, vars
<1> QED
  BY <1>3, <1>4, <1>5, <1>6, <1>7, <1>8, <1>9, <1>10, <1>11, <1>12
     DEF Next, AppMain, RunMotor, ModbusStack, SetSpeedDir, Task

-----------------------------------------------------------------------------
\* An undisturbed pass brings the bridge to the demand, one output at a time.
LEMMA PassStep ==
  TypeOK /\ PassProgress /\ PassObeysRegisters /\ [Next]_vars
    => (PassProgress /\ PassObeysRegisters)'
<1> SUFFICES ASSUME TypeOK, PassProgress, PassObeysRegisters, [Next]_vars
             PROVE  (PassProgress /\ PassObeysRegisters)'
  OBVIOUS
<1> USE DEF PassProgress, PassObeysRegisters, Goto, Drive, Task, regs, bridge,
        stack
<1>1. CASE Check
  BY <1>1 DEF Check, TypeOK
<1>2. CASE Load
  BY <1>2 DEF Load, TypeOK
<1>3. CASE SetDuty("motor")
  BY <1>3 DEF SetDuty, DutyOf, TouchedBy, TypeOK
<1>4. CASE SetIn1("motor")
  BY <1>4 DEF SetIn1, TouchedBy, TypeOK
<1>5. CASE SetIn2("motor")
  BY <1>5 DEF SetIn2, TouchedBy, TypeOK, Demand
<1>6. CASE StopIn1 \/ StopIn2
  BY <1>6 DEF StopIn1, StopIn2, TypeOK
<1>7. CASE StopDuty
  BY <1>7 DEF StopDuty, TypeOK, Demand
<1>8. CASE Delay
  BY <1>8 DEF Delay, TypeOK
<1>9. CASE InitMotor
  BY <1>9 DEF InitMotor, TypeOK
<1>10. CASE SetSpeedDir("main") \/ SetupHolding \/ SetupCoils \/ CopyWord
              \/ (\E b \in BOOLEAN : WriteCoil(b)) \/ Restart
  <2>1. fresh' = FALSE
    BY <1>10 DEF SetSpeedDir, SetDuty, SetIn1, SetIn2, TouchedBy, SetupHolding,
       SetupCoils, CopyWord, WriteCoil, Restart
  <2> QED BY <2>1
<1>11. CASE InitServices \/ SlaveStart
  BY <1>11 DEF InitServices, SlaveStart, TypeOK, Demand
<1>12. CASE (\E r \in Writes : AcceptWrite(r)) \/ UNCHANGED vars
  BY <1>12 DEF AcceptWrite, vars, Demand
<1> QED
  BY <1>1, <1>2, <1>3, <1>4, <1>5, <1>6, <1>7, <1>8, <1>9, <1>10, <1>11, <1>12
     DEF Next, AppMain, RunMotor, ModbusStack, SetSpeedDir

\* Between the duty and the pins only app_main can change the duty.
LEMMA PinsStep ==
  TypeOK /\ PinsAfterDuty /\ [Next]_vars => PinsAfterDuty'
<1> SUFFICES ASSUME TypeOK, PinsAfterDuty, [Next]_vars PROVE PinsAfterDuty'
  OBVIOUS
<1> USE DEF PinsAfterDuty, Goto, Task, regs, bridge, stack
<1>1. ASSUME NEW t \in Task, SetSpeedDir(t) PROVE PinsAfterDuty'
  BY <1>1 DEF SetSpeedDir, SetDuty, DutyOf, SetIn1, SetIn2, TypeOK
<1>2. CASE Check \/ Load \/ StopIn1 \/ StopIn2 \/ StopDuty \/ Delay
  BY <1>2 DEF Check, Load, StopIn1, StopIn2, StopDuty, Delay, TypeOK
<1>3. CASE InitMotor \/ InitServices \/ SetupHolding \/ SetupCoils \/ SlaveStart
  BY <1>3 DEF InitMotor, InitServices, SetupHolding, SetupCoils, SlaveStart,
     TypeOK
<1>4. CASE ModbusStack \/ UNCHANGED vars
  BY <1>4 DEF ModbusStack, AcceptWrite, CopyWord, WriteCoil, vars
<1>5. CASE Restart
  BY <1>5, RestartInv DEF IInv
<1> QED BY <1>1, <1>2, <1>3, <1>4, <1>5 DEF Next, AppMain, RunMotor

\* A stored word stays: the registers are zeroed before clients are heard.
LEMMA EraseStep ==
  TypeOK /\ QuietBeforeServing /\ CommandNotErased /\ [Next]_vars
    => CommandNotErased'
<1> SUFFICES ASSUME TypeOK, QuietBeforeServing, CommandNotErased, [Next]_vars
             PROVE  CommandNotErased'
  OBVIOUS
<1>1. CASE UNCHANGED <<holding, stack>>
  BY <1>1 DEF CommandNotErased, stack
<1>2. CASE SetupHolding
  BY <1>2 DEF SetupHolding, Goto, CommandNotErased, QuietBeforeServing, Serving, stack
<1>3. ASSUME NEW r \in Writes, AcceptWrite(r) PROVE CommandNotErased'
  BY <1>3 DEF AcceptWrite, CommandNotErased
<1>4. CASE CopyWord
  <2> SUFFICES ASSUME commanded # {}, NEW p \in 1..(copied + 1)
               PROVE  holding'[p] = request[p]
    BY <1>4 DEF CopyWord, CommandNotErased
  <2>1. copied + 1 \in 1..Parts /\ p \in 1..Parts /\ copied \in Nat
    BY <1>4, PartsAssumption DEF CopyWord, TypeOK
  <2>2. CASE p = copied + 1
    BY <1>4, <2>1, <2>2 DEF CopyWord, TypeOK, Register
  <2>3. CASE p # copied + 1
    <3>1. p \in 1..copied
      BY <2>1, <2>3
    <3> QED BY <1>4, <2>1, <2>3, <3>1 DEF CopyWord, CommandNotErased, TypeOK, Register
  <2> QED BY <2>2, <2>3
<1>5. CASE Restart
  BY <1>5, RestartInv DEF IInv
<1>6. ASSUME NEW t \in Task, SetSpeedDir(t) PROVE UNCHANGED <<holding, stack>>
  BY <1>6 DEF SetSpeedDir, SetDuty, SetIn1, SetIn2, regs
<1>7. ASSUME NEW b \in BOOLEAN, WriteCoil(b) PROVE UNCHANGED <<holding, stack>>
  BY <1>7 DEF WriteCoil
<1>8. Check \/ Load \/ StopIn1 \/ StopIn2 \/ StopDuty \/ Delay \/ InitMotor
        \/ InitServices \/ SetupCoils \/ SlaveStart \/ UNCHANGED vars
        => UNCHANGED <<holding, stack>>
  BY DEF Check, Load, StopIn1, StopIn2, StopDuty, Delay, InitMotor,
     InitServices, SetupCoils, SlaveStart, regs, vars
<1> QED
  BY <1>1, <1>2, <1>3, <1>4, <1>5, <1>6, <1>7, <1>8
     DEF Next, AppMain, RunMotor, ModbusStack, Task

-----------------------------------------------------------------------------
\* The strengthened invariant is inductive.
THEOREM Inductive == Spec => []IInv
<1>1. IInv /\ [Next]_vars => IInv'
  BY TypeStep, QuietStep, WordsStep, DutyStep, PassStep, PinsStep, EraseStep
     DEF IInv
<1> QED BY InitInv, <1>1, PTL DEF Spec

\* Every variable keeps its type, a NaN duty included.
THEOREM TypeCorrect == Spec => []TypeOK
<1>1. IInv => TypeOK
  BY DEF IInv
<1> QED BY Inductive, <1>1, PTL

\* The duty runMotor gives the bridge is off, or a clamped mix of words that
\* clients sent since the reset.
THEOREM DutyIsCommanded == Spec => []DutyFromCommands
<1>1. IInv => DutyFromCommands
  BY DEF IInv
<1> QED BY Inductive, <1>1, PTL

\* An undisturbed pass of runMotor leaves the bridge as the registers demand.
THEOREM PassIsObedient == Spec => []PassObeysRegisters
<1>1. IInv => PassObeysRegisters
  BY DEF IInv
<1> QED BY Inductive, <1>1, PTL

\* setup_reg_data never overwrites a word the stack has stored.
THEOREM CommandsSurvive == Spec => []CommandNotErased
<1>1. IInv => CommandNotErased
  BY DEF IInv
<1> QED BY Inductive, <1>1, PTL

\* After boot the direction pin is raised only at the duty of its own pass.
THEOREM PinsFollowDuty == Spec => EnergisedAtNewDuty
<1> DEFINE Energised ==
      in1 = 0 /\ in1' = 1 /\ pwmBy = "motor" /\ pc["main"] \notin BootLabel
        => pwm' = duty
<1>1. IInv /\ [Next]_vars => [Energised]_vars
  <2> SUFFICES ASSUME IInv, Next, in1 = 0, in1' = 1, pwmBy = "motor",
                      pc["main"] \notin BootLabel
               PROVE  pwm' = duty
    OBVIOUS
  <2> USE DEF regs, bridge, stack
  <2>1. CASE SetIn1("motor")
    BY <2>1 DEF SetIn1, Goto, IInv, PinsAfterDuty
  <2>2. ~SetSpeedDir("main")
    BY DEF SetSpeedDir, SetDuty, SetIn1, SetIn2, Goto, BootLabel, Drive
  <2>3. ~(SetDuty("motor") \/ SetIn2("motor"))
    BY DEF SetDuty, SetIn2
  <2>4. ~(Check \/ Load \/ StopIn1 \/ StopIn2 \/ StopDuty \/ Delay)
    BY DEF Check, Load, StopIn1, StopIn2, StopDuty, Delay
  <2>5. ~(InitMotor \/ InitServices \/ SetupHolding \/ SetupCoils \/ SlaveStart)
    BY DEF InitMotor, InitServices, SetupHolding, SetupCoils, SlaveStart
  <2>6. ~(ModbusStack \/ Restart)
    BY DEF ModbusStack, AcceptWrite, CopyWord, WriteCoil, Restart
  <2> QED
    BY <2>1, <2>2, <2>3, <2>4, <2>5, <2>6
       DEF Next, AppMain, RunMotor, SetSpeedDir
<1> QED BY Inductive, <1>1, PTL DEF Spec, EnergisedAtNewDuty

-----------------------------------------------------------------------------
(* Torn registers *)

\* A register is its words.
LEMMA SameWords ==
  ASSUME NEW m \in Register, NEW r \in Register,
         \A q \in 1..Parts : m[q] = r[q]
  PROVE  m = r
<1>1. m = [q \in 1..Parts |-> m[q]] /\ r = [q \in 1..Parts |-> r[q]]
  BY DEF Register
<1>2. [q \in 1..Parts |-> m[q]] = [q \in 1..Parts |-> r[q]]
  OBVIOUS
<1> QED BY <1>1, <1>2, Zenon

\* The register runMotor should find when no store is under way.
LastCommand == IF commanded = {} THEN ZeroReg ELSE request

\* Only a store that is under way is ever seen torn: a duty loaded between two
\* stores is that of the whole last command, or of the zeroed register, however
\* many parts a float is copied in and whatever was torn before.  (param_lock
\* of main.c is never taken, so that more than this does not hold.)
THEOREM OnlyOpenStoresTear ==
  Spec => [][Load /\ copied = Parts
               => duty' = Clamp(Decode[LastCommand])]_vars
<1>1. ASSUME IInv, copied = Parts PROVE holding = LastCommand
  <2>1. holding \in Register /\ request \in Register
    BY <1>1 DEF IInv, TypeOK
  <2>2. CASE commanded = {}
    <3>1. holding \in Mixes({} \cup {ZeroReg})
      BY <1>1, <2>2 DEF IInv, WordsFromCommands
    <3>2. \A p \in 1..Parts : holding[p] = ZeroReg[p]
      BY <3>1 DEF Mixes
    <3> QED BY <2>1, <2>2, <3>2, ZeroRegType, SameWords DEF LastCommand
  <2>3. CASE commanded # {}
    <3>1. \A p \in 1..Parts : holding[p] = request[p]
      BY <1>1, <2>3 DEF IInv, CommandNotErased
    <3> QED BY <2>1, <2>3, <3>1, SameWords DEF LastCommand
  <2> QED BY <2>2, <2>3
<1>2. IInv => [Load /\ copied = Parts
                 => duty' = Clamp(Decode[LastCommand])]_vars
  BY <1>1 DEF Load
<1> QED BY <1>2, Inductive, PTL DEF Spec

-----------------------------------------------------------------------------
(* Settling *)

\* The motor task is where the present registers take it.
InStep ==
  /\ pc["motor"] \in {"load"} \cup Drive => coil
  /\ pc["motor"] \in Drive => duty = Clamp(Decode[holding])
  /\ pc["motor"] \in {"stop_in1", "stop_in2", "stop_duty"} => ~coil

\* The bridge does what the registers ask for, and no pass under way would
\* have it otherwise.
Steady == Serving /\ bridge = Demand /\ InStep

LEMMA SteadyStep ==
  ASSUME TypeOK, Steady, [Next]_vars, Serving', UNCHANGED regs
  PROVE  Steady'
<1> USE DEF Goto, Drive, Task
<1>1. /\ pc["main"] = "serve" /\ pwm = Demand[1] /\ in1 = Demand[2]
      /\ in2 = Demand[3] /\ Demand' = Demand
      /\ holding' = holding /\ coil' = coil /\ coil \in BOOLEAN
      /\ pc \in [Task -> MainLabel \cup MotorLabel]
      /\ InStep
  BY DEF Steady, Serving, bridge, regs, Demand, TypeOK
<1>2. coil => Demand = <<Clamp(Decode[holding]), 1, 0>>
  BY DEF Demand
<1>3. ~coil => Demand = <<0, 0, 0>>
  BY DEF Demand
<1> USE DEF InStep
<1>4. CASE Check \/ Load \/ Delay
  <2>1. InStep'
    BY <1>1, <1>4 DEF Check, Load, Delay
  <2>2. UNCHANGED bridge
    BY <1>4 DEF Check, Load, Delay
  <2> QED BY <1>1, <2>1, <2>2 DEF Steady
<1>5. CASE StopIn1 \/ StopIn2 \/ StopDuty
  <2>1. InStep' /\ ~coil
    BY <1>1, <1>5 DEF StopIn1, StopIn2, StopDuty
  <2>2. pwm' = 0 /\ in1' = 0 /\ in2' = 0
    BY <1>1, <1>3, <1>5, <2>1 DEF StopIn1, StopIn2, StopDuty
  <2> QED BY <1>1, <1>3, <2>1, <2>2 DEF Steady, bridge
<1>6. CASE SetSpeedDir("motor")
  <2>1. InStep' /\ coil /\ duty = Clamp(Decode[holding])
    BY <1>1, <1>6 DEF SetSpeedDir, SetDuty, SetIn1, SetIn2
  <2>2. pwm' = duty /\ in1' = 1 /\ in2' = 0
    BY <1>1, <1>2, <1>6, <2>1 DEF SetSpeedDir, SetDuty, SetIn1, SetIn2, DutyOf
  <2> QED BY <1>1, <1>2, <2>1, <2>2 DEF Steady, bridge
<1>7. CASE ModbusStack
  BY <1>1, <1>7
     DEF ModbusStack, AcceptWrite, CopyWord, WriteCoil, Steady, bridge, stack
<1>8. CASE AppMain
  BY <1>1, <1>8
     DEF AppMain, InitMotor, SetSpeedDir, SetDuty, SetIn1, SetIn2, InitServices,
         SetupHolding, SetupCoils, SlaveStart
<1>9. CASE Restart
  BY <1>9 DEF Restart, Serving
<1>10. CASE UNCHANGED vars
  BY <1>10 DEF vars, Steady, Serving, bridge, regs, Demand
<1> QED
  BY <1>4, <1>5, <1>6, <1>7, <1>8, <1>9, <1>10 DEF Next, RunMotor

\* The safety half of BridgeFollowsRegisters: while the server runs, the end of
\* an undisturbed pass is a steady state, and only a change of the registers or
\* a restart ends that: no later pass, and no half of one, moves the bridge.
THEOREM BridgeStaysObedient ==
  Spec => /\ [](Serving /\ fresh /\ pc["motor"] = "delay" => Steady)
          /\ [][Steady /\ ~Steady' => ~Serving' \/ regs' # regs]_vars
<1>1. IInv => (Serving /\ fresh /\ pc["motor"] = "delay" => Steady)
  BY DEF IInv, PassObeysRegisters, Steady, InStep, Drive
<1>2. IInv /\ [Next]_vars
        => [Steady /\ ~Steady' => ~Serving' \/ regs' # regs]_vars
  BY SteadyStep DEF IInv
<1> QED BY <1>1, <1>2, Inductive, PTL DEF Spec

-----------------------------------------------------------------------------
(* The bridge follows the registers *)

\* runMotor is never kept from its next call, once its task exists.  TLAPS
\* cannot look into ENABLED.
MotorReady == [](pc["motor"] # "none" => ENABLED <<RunMotor>>_vars)

\* A step while the server runs and the registers stay as they are.
Calm == Serving /\ Serving' /\ [UNCHANGED regs]_vars /\ [Next]_vars

\* Calls of runMotor before it checks the coil again.
Behind(n) ==
  pc["motor"] \in CASE n = 0 -> {"check"}
                    [] n = 1 -> {"delay"}
                    [] n = 2 -> {"set_in2", "stop_duty"}
                    [] n = 3 -> {"set_in1", "stop_in2"}
                    [] n = 4 -> {"set_duty", "stop_in1"}
                    [] n = 5 -> {"load"}

\* Calls before the end of a pass that has seen the registers as they are.
Ahead(n) ==
  \/ n = 4 /\ pc["motor"] = "load" /\ coil
  \/ /\ coil /\ duty = Clamp(Decode[holding])
     /\ \/ n = 3 /\ pc["motor"] = "set_duty"
        \/ n = 2 /\ pc["motor"] = "set_in1" /\ pwm = duty
        \/ n = 1 /\ pc["motor"] = "set_in2" /\ pwm = duty /\ in1 = 1
  \/ /\ ~coil
     /\ \/ n = 3 /\ pc["motor"] = "stop_in1"
        \/ n = 2 /\ pc["motor"] = "stop_in2" /\ in1 = 0
        \/ n = 1 /\ pc["motor"] = "stop_duty" /\ in1 = 0 /\ in2 = 0

\* In the calm P lasts until a call of runMotor, which makes it Q.
Moves(P, Q) == Calm /\ P => (RunMotor /\ Q') \/ (~RunMotor /\ P')

\* The task of runMotor exists before the server runs.
MotorStarted == pc["main"] # "init_motor" => pc["motor"] # "none"

LEMMA MotorStartedInductive == Spec => []MotorStarted
<1> USE DEF MotorStarted
<1>1. Init => MotorStarted
  BY DEF Init, Task
<1>2. TypeOK /\ MotorStarted /\ [Next]_vars => MotorStarted'
  <2> SUFFICES ASSUME TypeOK, MotorStarted, [Next]_vars PROVE MotorStarted'
    OBVIOUS
  <2>1. pc \in [Task -> MainLabel \cup MotorLabel]
    BY DEF TypeOK
  <2> USE DEF Goto, Task
  <2>2. CASE InitMotor
    BY <2>2 DEF InitMotor
  <2>3. CASE SetSpeedDir("main") \/ InitServices \/ SetupHolding \/ SetupCoils
               \/ SlaveStart
    BY <2>1, <2>3 DEF SetSpeedDir, SetDuty, SetIn1, SetIn2, InitServices,
                      SetupHolding, SetupCoils, SlaveStart
  <2>4. CASE RunMotor
    BY <2>1, <2>4 DEF RunMotor, Check, Load, StopIn1, StopIn2, StopDuty, Delay,
                      SetSpeedDir, SetDuty, SetIn1, SetIn2
  <2>5. CASE ModbusStack
    BY <2>5 DEF ModbusStack, AcceptWrite, CopyWord, WriteCoil
  <2>6. CASE Restart
    BY <2>6 DEF Restart
  <2>7. CASE UNCHANGED vars
    BY <2>7 DEF vars
  <2> QED BY <2>2, <2>3, <2>4, <2>5, <2>6, <2>7 DEF Next, AppMain
<1> QED BY <1>1, <1>2, TypeCorrect, PTL DEF Spec

\* Only runMotor moves its task and the bridge in the calm.
LEMMA CalmSteps ==
  ASSUME TypeOK, Calm, ~RunMotor
  PROVE  UNCHANGED <<pc, duty, regs, bridge>>
<1>1. Serving /\ Serving' /\ UNCHANGED regs /\ [Next]_vars
  BY DEF Calm, vars
<1>2. CASE ModbusStack
  BY <1>1, <1>2
     DEF ModbusStack, AcceptWrite, CopyWord, WriteCoil, stack
<1>3. ~AppMain
  BY <1>1 DEF AppMain, InitMotor, SetSpeedDir, SetDuty, SetIn1, SetIn2,
              InitServices, SetupHolding, SetupCoils, SlaveStart, Goto, Serving
<1>4. ~Restart
  BY <1>1 DEF Restart, Serving, Task
<1>5. CASE UNCHANGED vars
  BY <1>5 DEF vars
<1> QED BY <1>1, <1>2, <1>3, <1>4, <1>5 DEF Next

LEMMA PassMoves ==
  ASSUME TypeOK
  PROVE  /\ Moves(Behind(5), Behind(4)) /\ Moves(Behind(4), Behind(3))
         /\ Moves(Behind(3), Behind(2)) /\ Moves(Behind(2), Behind(1))
         /\ Moves(Behind(1), Behind(0))
         /\ Moves(Behind(0), Ahead(4) \/ Ahead(3))
         /\ Moves(Ahead(4), Ahead(3)) /\ Moves(Ahead(3), Ahead(2))
         /\ Moves(Ahead(2), Ahead(1)) /\ Moves(Ahead(1), Steady)
<1>1. pc \in [Task -> MainLabel \cup MotorLabel] /\ coil \in BOOLEAN
  BY DEF TypeOK
<1>2. Calm => Serving' /\ holding' = holding /\ coil' = coil
  BY DEF Calm, vars, regs
<1>3. ASSUME Calm, ~RunMotor, NEW n
      PROVE  (Behind(n) => Behind(n)') /\ (Ahead(n) => Ahead(n)')
  <2>1. UNCHANGED <<pc, duty, coil, holding, pwm, in1, in2>>
    BY <1>3, CalmSteps DEF regs, bridge
  <2>2. Behind(n)' = Behind(n)
    BY <2>1 DEF Behind
  <2>3. Ahead(n)' = Ahead(n)
    BY <2>1 DEF Ahead
  <2> QED BY <2>2, <2>3
<1> DEFINE Goes(from, to) == pc["motor"] = from /\ pc'["motor"] = to
           Same == UNCHANGED <<duty, pwm, in1, in2>>
<1>4. RunMotor =>
        \/ Goes("check", IF coil THEN "load" ELSE "stop_in1") /\ Same
        \/ Goes("load", "set_duty") /\ duty' = Clamp(Decode[holding])
             /\ UNCHANGED <<pwm, in1, in2>>
        \/ Goes("set_duty", "set_in1") /\ pwm' = duty
             /\ UNCHANGED <<duty, in1, in2>>
        \/ Goes("set_in1", "set_in2") /\ in1' = 1 /\ UNCHANGED <<duty, pwm, in2>>
        \/ Goes("set_in2", "delay") /\ in2' = 0 /\ UNCHANGED <<duty, pwm, in1>>
        \/ Goes("stop_in1", "stop_in2") /\ in1' = 0
             /\ UNCHANGED <<duty, pwm, in2>>
        \/ Goes("stop_in2", "stop_duty") /\ in2' = 0
             /\ UNCHANGED <<duty, pwm, in1>>
        \/ Goes("stop_duty", "delay") /\ pwm' = 0 /\ UNCHANGED <<duty, in1, in2>>
        \/ Goes("delay", "check") /\ Same
  <2> USE <1>1 DEF Goto, Task, bridge
  <2>1. CASE Check \/ Load \/ Delay
    BY <2>1 DEF Check, Load, Delay
  <2>2. CASE StopIn1 \/ StopIn2 \/ StopDuty
    BY <2>2 DEF StopIn1, StopIn2, StopDuty
  <2>3. CASE SetSpeedDir("motor")
    BY <2>3 DEF SetSpeedDir, SetDuty, SetIn1, SetIn2, DutyOf
  <2> QED BY <2>1, <2>2, <2>3 DEF RunMotor
<1>5. ASSUME Calm, RunMotor
      PROVE  /\ Behind(5) => Behind(4)' 
             /\ Behind(4) => Behind(3)'
             /\ Behind(3) => Behind(2)' 
             /\ Behind(2) => Behind(1)'
             /\ Behind(1) => Behind(0)'
  BY <1>4, <1>5 DEF Behind
<1>6. ASSUME Calm, RunMotor
      PROVE  /\ Behind(0) => Ahead(4)' \/ Ahead(3)'
             /\ Ahead(4) => Ahead(3)'
             /\ Ahead(3) => Ahead(2)'
             /\ Ahead(2) => Ahead(1)'
  BY <1>1, <1>2, <1>4, <1>6 DEF Behind, Ahead
<1>7. ASSUME Calm, RunMotor, Ahead(1)
      PROVE  Steady'
  <2>1. pc'["motor"] = "delay" /\ Serving' /\ coil' = coil /\ holding' = holding
    BY <1>2, <1>4, <1>7 DEF Ahead
  <2>2. InStep'
    BY <2>1 DEF InStep, Drive
  <2>3. CASE coil
    <3>1. pwm' = Clamp(Decode[holding]) /\ in1' = 1 /\ in2' = 0
      BY <1>4, <1>7, <2>3 DEF Ahead
    <3> QED BY <2>1, <2>2, <2>3, <3>1 DEF Steady, bridge, Demand
  <2>4. CASE ~coil
    <3>1. pwm' = 0 /\ in1' = 0 /\ in2' = 0
      BY <1>4, <1>7, <2>4 DEF Ahead
    <3> QED BY <2>1, <2>2, <2>4, <3>1 DEF Steady, bridge, Demand
  <2> QED BY <2>3, <2>4
<1> HIDE DEF Goes, Same
<1> QED BY <1>3, <1>5, <1>6, <1>7 DEF Moves

\* If the server stays up and the registers are left alone, the bridge ends up
\* doing what they ask for, for every register width and decoding: the pass
\* under way, whatever it has read, ends, and the next one gets it right.
THEOREM BridgeFollows == FairSpec /\ MotorReady => BridgeFollowsRegisters
<1> DEFINE Live == FairSpec /\ MotorReady
           Quiet == <>[]Serving /\ <>[][UNCHANGED regs]_vars
           Moved == 
             /\ Moves(Behind(5), Behind(4)) /\ Moves(Behind(4), Behind(3))
             /\ Moves(Behind(3), Behind(2)) /\ Moves(Behind(2), Behind(1))
             /\ Moves(Behind(1), Behind(0))
             /\ Moves(Behind(0), Ahead(4) \/ Ahead(3))
             /\ Moves(Ahead(4), Ahead(3)) /\ Moves(Ahead(3), Ahead(2))
             /\ Moves(Ahead(2), Ahead(1)) /\ Moves(Ahead(1), Steady)
<1>1. Live => [](TypeOK /\ MotorStarted) /\ [][Next]_vars /\ WF_vars(RunMotor)
  BY TypeCorrect, MotorStartedInductive, PTL DEF FairSpec, Spec
<1>2. Live => [](pc["motor"] # "none" => ENABLED <<RunMotor>>_vars)
  BY PTL DEF MotorReady
<1>3. TypeOK => Moved
  BY PassMoves
<1>4. TypeOK /\ Steady /\ Calm => Steady'
  <2>1. Calm => UNCHANGED regs /\ Serving' /\ [Next]_vars
    BY DEF Calm, vars
  <2> QED BY <2>1, SteadyStep
<1>5. TypeOK /\ MotorStarted /\ Serving
        => /\ pc["motor"] # "none"
           /\ \/ Behind(0) \/ Behind(1) \/ Behind(2) \/ Behind(3) \/ Behind(4)
              \/ Behind(5)
  BY DEF TypeOK, MotorStarted, Serving, Behind, MotorLabel, Drive
<1>6. Steady => bridge = Demand
  BY DEF Steady
<1>7. Live /\ Quiet => <>[]Steady
  BY <1>1, <1>2, <1>3, <1>4, <1>5, PTL DEF Moves, Calm
<1> QED BY <1>6, <1>7, PTL DEF BridgeFollowsRegisters
=============================================================================
