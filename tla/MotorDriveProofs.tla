-------------------------- MODULE MotorDriveProofs --------------------------
(***************************************************************************)
(* MotorControl implements MotorDrive, for every value of its constants.   *)
(***************************************************************************)
EXTENDS MotorControlProofs

BeforeCoils == BootLabel \cup {"init_services", "setup_holding", "setup_coils"}

\* Until setup_reg_data sets the coil, runMotor can only stop the motor.
NoDriveBeforeCoils ==
  pc["main"] \in BeforeCoils => ~coil /\ pc["motor"] \notin {"load"} \cup Drive

\* Nobody changes the duty between runMotor's driver calls.
DutyIsOwn == pc["motor"] \in {"set_in1", "set_in2"} => pwmBy = "motor"

\* During the boot drive the duty is the boot duty, or a stop has cleared it.
BootDutyOrOff == pc["main"] \in BootLabel => pwm \in {0, BootDuty}

BInv == NoDriveBeforeCoils /\ DutyIsOwn /\ BootDutyOrOff

-----------------------------------------------------------------------------
\* The reset state satisfies it, and a restart reaches that state again.
LEMMA BootInit == (Init => BInv) /\ (Restart => BInv')
  BY DEF Init, Restart, BInv, NoDriveBeforeCoils, DutyIsOwn, BootDutyOrOff,
     Task, Drive

\* The steps that move neither task nor anything the invariant speaks of.
LEMMA BootFrame ==
  ASSUME BInv, UNCHANGED <<pc, coil, pwm, pwmBy>>
  PROVE  BInv'
  BY DEF BInv, NoDriveBeforeCoils, DutyIsOwn, BootDutyOrOff

\* app_main's steps.
LEMMA BootMain ==
  ASSUME TypeOK, BInv, AppMain
  PROVE  BInv'
<1> USE DEF BInv, NoDriveBeforeCoils, DutyIsOwn, BootDutyOrOff, BeforeCoils,
        BootLabel, Drive, Task, Goto, TypeOK, regs, bridge, stack
<1>1. CASE InitMotor
  BY <1>1 DEF InitMotor
<1>2. CASE SetDuty("main")
  BY <1>2 DEF SetDuty, DutyOf
<1>3. CASE SetIn1("main")
  BY <1>3 DEF SetIn1
<1>4. CASE SetIn2("main")
  BY <1>4 DEF SetIn2
<1>5. CASE InitServices
  BY <1>5 DEF InitServices
<1>6. CASE SetupHolding
  BY <1>6 DEF SetupHolding
<1>7. CASE SetupCoils
  BY <1>7 DEF SetupCoils
<1>8. CASE SlaveStart
  BY <1>8 DEF SlaveStart
<1> QED
  BY <1>1, <1>2, <1>3, <1>4, <1>5, <1>6, <1>7, <1>8 DEF AppMain, SetSpeedDir

\* runMotor's steps.
LEMMA BootMotor ==
  ASSUME TypeOK, BInv, RunMotor
  PROVE  BInv'
<1> USE DEF BInv, NoDriveBeforeCoils, DutyIsOwn, BootDutyOrOff, BeforeCoils,
        BootLabel, Drive, Task, Goto, TypeOK, regs, bridge, stack
<1>1. CASE Check
  BY <1>1 DEF Check
<1>2. CASE Load
  BY <1>2 DEF Load
<1>3. CASE StopIn1
  BY <1>3 DEF StopIn1
<1>4. CASE StopIn2
  BY <1>4 DEF StopIn2
<1>5. CASE StopDuty
  BY <1>5 DEF StopDuty
<1>6. CASE Delay
  BY <1>6 DEF Delay
<1>7. CASE SetDuty("motor")
  BY <1>7 DEF SetDuty, DutyOf
<1>8. CASE SetIn1("motor")
  BY <1>8 DEF SetIn1
<1>9. CASE SetIn2("motor")
  BY <1>9 DEF SetIn2
<1> QED
  BY <1>1, <1>2, <1>3, <1>4, <1>5, <1>6, <1>7, <1>8, <1>9
     DEF RunMotor, SetSpeedDir

\* All steps.
LEMMA BootStep ==
  ASSUME TypeOK, BInv, [Next]_vars
  PROVE  BInv'
<1>1. ASSUME NEW b \in BOOLEAN, WriteCoil(b) PROVE BInv'
  BY <1>1 DEF WriteCoil, Serving, BInv, NoDriveBeforeCoils, DutyIsOwn,
     BootDutyOrOff, BeforeCoils, BootLabel, Drive, bridge
<1>2. ASSUME NEW r \in Writes, AcceptWrite(r) PROVE BInv'
  BY <1>2, BootFrame DEF AcceptWrite, regs, bridge
<1>3. CASE CopyWord
  BY <1>3, BootFrame DEF CopyWord, bridge
<1>4. CASE UNCHANGED vars
  BY <1>4, BootFrame DEF vars, regs, bridge
<1> QED
  BY <1>1, <1>2, <1>3, <1>4, BootMain, BootMotor, BootInit
     DEF Next, ModbusStack

-----------------------------------------------------------------------------
(* The refinement *)

\* The reset state maps to the abstract one.
LEMMA DriveInit == Init => Abstract!Init
  BY DEF Init, Abstract!Init, Output, BootLabel, Task

\* Steps that leave the mapped variables alone are stutters.
LEMMA DriveFrame ==
  ASSUME UNCHANGED <<in1, pwm, commanded>>,
         pc'["main"] \in BootLabel <=> pc["main"] \in BootLabel
  PROVE  UNCHANGED Abstract!vars
  BY DEF Abstract!vars, Output

\* app_main's driver calls are the boot drive; the rest of it is not seen.
LEMMA DriveMain ==
  ASSUME TypeOK, BInv, AppMain
  PROVE  [Abstract!Next]_(Abstract!vars)
<1> USE DEF Goto, regs, bridge, stack
<1>1. ASSUME InitMotor \/ SetSpeedDir("main") PROVE Abstract!Boot
  <2>1. pc["main"] \in BootLabel
    BY <1>1 DEF InitMotor, SetSpeedDir, SetDuty, SetIn1, SetIn2, BootLabel,
       Drive
  <2>2. pwm \in {0, BootDuty} /\ in1 \in 0..1
    BY <2>1 DEF BInv, BootDutyOrOff, TypeOK
  <2>3. Output' \in {Output, 0, BootDuty} /\ UNCHANGED commanded
    <3>1. CASE InitMotor
      BY <3>1 DEF InitMotor, Output
    <3>2. CASE SetDuty("main")
      BY <3>2 DEF SetDuty, DutyOf, Output
    <3>3. CASE SetIn1("main")
      BY <2>2, <3>3 DEF SetIn1, Output
    <3>4. CASE SetIn2("main")
      BY <3>4 DEF SetIn2, Output
    <3> QED BY <1>1, <3>1, <3>2, <3>3, <3>4 DEF SetSpeedDir
  <2> QED BY <2>1, <2>3 DEF Abstract!Boot
<1>2. ASSUME InitServices \/ SetupHolding \/ SetupCoils \/ SlaveStart
      PROVE  UNCHANGED Abstract!vars
  <2>1. pc'["main"] \notin BootLabel /\ pc["main"] \notin BootLabel
    BY <1>2 DEF InitServices, SetupHolding, SetupCoils, SlaveStart, TypeOK,
       BootLabel, Drive, Task
  <2>2. UNCHANGED <<in1, pwm, commanded>>
    BY <1>2 DEF InitServices, SetupHolding, SetupCoils, SlaveStart
  <2> QED BY <2>1, <2>2, DriveFrame
<1> QED BY <1>1, <1>2 DEF AppMain, Abstract!Next

\* runMotor's driver calls turn the drive off, or on at an allowed duty.
LEMMA DriveMotor ==
  ASSUME IInv, BInv, RunMotor
  PROVE  [Abstract!Next]_(Abstract!vars)
<1> USE DEF Goto, regs, bridge, stack
<1>1. pc'["main"] = pc["main"] /\ UNCHANGED commanded
  BY DEF RunMotor, Check, Load, StopIn1, StopIn2, StopDuty, Delay,
     SetSpeedDir, SetDuty, SetIn1, SetIn2, IInv, TypeOK, Task
<1>2. ASSUME Output' = 0 PROVE Abstract!Boot \/ Abstract!Drive
  BY <1>1, <1>2, Zenon DEF Abstract!Boot, Abstract!Drive
<1>3. duty \in Allowed(commanded) /\ commanded \in SUBSET Writes
  BY DEF IInv, WordsFromCommands, TypeOK
<1>4. ASSUME Output' \in {0, duty}, pc["main"] \notin BootLabel
      PROVE  Abstract!Drive
  BY <1>1, <1>3, <1>4 DEF Abstract!Drive
<1>5. CASE StopIn1 \/ StopDuty
  BY <1>2, <1>5 DEF StopIn1, StopDuty, Output, Abstract!Next
<1>6. CASE SetDuty("motor")
  <2>1. pc["main"] \notin BootLabel
    BY <1>6 DEF SetDuty, BInv, NoDriveBeforeCoils, BeforeCoils, Drive
  <2> QED BY <1>4, <1>6, <2>1 DEF SetDuty, DutyOf, Output, Abstract!Next
<1>7. CASE SetIn1("motor")
  <2>1. pc["main"] \notin BootLabel
    BY <1>7 DEF SetIn1, BInv, NoDriveBeforeCoils, BeforeCoils, Drive
  <2>2. pwm = duty
    BY <1>7 DEF SetIn1, IInv, PinsAfterDuty, BInv, DutyIsOwn
  <2> QED BY <1>4, <1>7, <2>1, <2>2 DEF SetIn1, Output, Abstract!Next
<1>8. CASE Check \/ Load \/ StopIn2 \/ Delay \/ SetIn2("motor")
  <2>1. UNCHANGED <<in1, pwm>>
    BY <1>8 DEF Check, Load, StopIn2, Delay, SetIn2
  <2> QED BY <1>1, <2>1, DriveFrame
<1> QED BY <1>5, <1>6, <1>7, <1>8 DEF RunMotor, SetSpeedDir

\* A request is a command; copying its words and writing coils are not seen.
LEMMA DriveStack ==
  ASSUME ModbusStack
  PROVE  [Abstract!Next]_(Abstract!vars)
<1> USE DEF regs, bridge, stack
<1>1. ASSUME NEW r \in Writes, AcceptWrite(r) PROVE Abstract!Command
  BY <1>1 DEF AcceptWrite, Serving, BootLabel, Drive, Output, Abstract!Command
<1>2. CASE CopyWord
  BY <1>2, DriveFrame DEF CopyWord
<1>3. ASSUME NEW b \in BOOLEAN, WriteCoil(b) PROVE UNCHANGED Abstract!vars
  BY <1>3, DriveFrame DEF WriteCoil
<1> QED BY <1>1, <1>2, <1>3 DEF ModbusStack, Abstract!Next

\* The tasks, the stack and resets implement the abstract drive.
THEOREM DriveIsImplemented == Spec => ImplementsMotorDrive
<1>1. Spec => []BInv
  <2>1. Init => BInv
    BY BootInit
  <2>2. TypeOK /\ BInv /\ [Next]_vars => BInv'
    BY BootStep
  <2> QED BY <2>1, <2>2, TypeCorrect, PTL DEF Spec
<1>2. IInv /\ BInv /\ [Next]_vars => [Abstract!Next]_(Abstract!vars)
  <2> SUFFICES ASSUME IInv, BInv, [Next]_vars
               PROVE  [Abstract!Next]_(Abstract!vars)
    OBVIOUS
  <2>1. CASE Restart
    BY <2>1 DEF Restart, Abstract!Next, Abstract!Reset, Output, BootLabel, Task
  <2>2. CASE UNCHANGED vars
    BY <2>2, DriveFrame DEF vars, bridge, stack
  <2>3. TypeOK
    BY DEF IInv
  <2> QED BY <2>1, <2>2, <2>3, DriveMain, DriveMotor, DriveStack DEF Next
<1> QED
  BY <1>1, <1>2, Inductive, DriveInit, PTL
     DEF Spec, ImplementsMotorDrive, Abstract!Spec
=============================================================================
