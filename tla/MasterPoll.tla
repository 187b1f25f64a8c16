----------------------------- MODULE MasterPoll -----------------------------
(***************************************************************************)
(* The master's polling task (master/main/modbus_tasks.c) with the part of *)
(* the parameter table it depends on (master/main/modbus.c).  It sweeps    *)
(* the parameters by CID: inputs and coils are read through one shared     *)
(* buffer, the power threshold and a ramping duty cycle are written, and   *)
(* each is mirrored in a local register structure.  A request is answered, *)
(* fails, or times out; a write that timed out may still reach the RTU,    *)
(* before anything sent after it.                                          *)
(***************************************************************************)
EXTENDS Integers, Sequences

CONSTANTS
  MaxCids,    \* MASTER_MAX_CIDS, 7
  NumParams,  \* rows of device_parameters, 7
  Threshold,  \* 750
  DutyFrom, DutyTo, DutyStep,  \* the ramp: 20, 40 and 2
  MaxLate     \* bound: timed-out writes that may be on their way at once

ASSUME CidAssumption == NumParams = 7 /\ MaxCids \in 1..NumParams
ASSUME RampAssumption ==
  /\ DutyFrom \in Nat /\ DutyTo \in Nat /\ DutyStep \in Nat \ {0}
  /\ DutyFrom < DutyTo /\ (DutyTo - DutyFrom) % DutyStep = 0
  /\ Threshold \in Nat \ {0} /\ MaxLate \in Nat

Param == 0..(NumParams - 1)
Inputs == 0..2       \* voltage, current, power
PowerThreshold == 3
DutyCycle == 4
MotorState == 5
MotorAlarm == 6
Written == {PowerThreshold, DutyCycle}
Coils == {MotorState, MotorAlarm}

VARIABLES
  step,       \* where master_read is
  cid,        \* its loop variable
  err,        \* its status variable, which also guards the loop
  value,      \* the shared 4-byte buffer: the CIDs its two halves came from
  duty,       \* its ramp
  inputs,     \* input_reg_params: the CIDs the halves of each were read from
  holding,    \* holding_reg_params of the master
  overrun,    \* bytes this poll overwrote beyond the 2 of coil_reg_params
  slave,      \* the RTU's holding registers
  late,       \* timed-out writes on their way to the RTU
  acked,      \* history: writes confirmed by the present run of the RTU
  alive       \* history: the RTU has answered since it last restarted

mirror == <<inputs, holding>>
master == <<step, cid, err, value, duty, mirror, overrun>>
history == <<acked, alive>>
vars == <<master, slave, late, history>>

None == -1   \* "no CID's data yet"

Ramp == {d \in DutyFrom..DutyTo :
           \E k \in 0..(DutyTo - DutyFrom) : d = DutyFrom + k * DutyStep}

\* Mutants: the wrap is tested before the step, or one value early.
NextDutyLate(d) == IF d > DutyTo THEN DutyFrom ELSE d + DutyStep
NextDutyEarly(d) == IF d + DutyStep >= DutyTo THEN DutyFrom ELSE d + DutyStep

\* duty += 2; if (duty > 40) duty = 20;
NextDuty(d) == IF d + DutyStep > DutyTo THEN DutyFrom ELSE d + DutyStep

\* Mutant: MASTER_MAX_CIDS is one more than the table has rows.
LoopGuardOneMore == err # "NOT_FOUND" /\ cid <= MaxCids

LoopGuard == err # "NOT_FOUND" /\ cid < MaxCids

Init ==
  /\ step = "info" /\ cid = 0 /\ err = "OK"
  /\ value = <<None, None>> /\ duty = DutyFrom
  /\ inputs = [c \in Inputs |-> <<None, None>>]
  /\ holding = [c \in Written |-> 0]
  /\ overrun = 0
  /\ slave = [c \in Written |-> 0] /\ late = <<>>
  /\ acked = {} /\ alive = TRUE

-----------------------------------------------------------------------------
(* master_read *)

\* mbc_master_get_cid_info; a CID outside the table only sets err.
GetCidInfo ==
  /\ step = "info" /\ LoopGuard
  /\ IF cid \in Param
       THEN step' = "call" /\ err' = "OK" /\ UNCHANGED cid
       ELSE cid' = cid + 1 /\ err' = "NOT_FOUND" /\ UNCHANGED step
  /\ UNCHANGED <<value, duty, mirror, overrun, slave, late, history>>

\* Mutant: the ramp advances after the mirror was stored.
CallWriteOldDuty ==
  /\ step = "call" /\ cid \in Written
  /\ duty' = IF cid = DutyCycle THEN NextDuty(duty) ELSE duty
  /\ holding' = [holding EXCEPT ![cid] = IF cid = DutyCycle THEN duty ELSE Threshold]
  /\ acked' = acked \ {cid}
  /\ step' = "await"
  /\ UNCHANGED <<cid, err, value, inputs, overrun, slave, late, alive>>

\* A write is mirrored before it is sent; a read just waits.
CallWrite ==
  /\ step = "call" /\ cid \in Written
  /\ duty' = IF cid = DutyCycle THEN NextDuty(duty) ELSE duty
  /\ holding' = [holding EXCEPT ![cid] =
                   IF cid = DutyCycle THEN duty' ELSE Threshold]
  /\ acked' = acked \ {cid}
  /\ step' = "await"
  /\ UNCHANGED <<cid, err, value, inputs, overrun, slave, late, alive>>

CallRead ==
  /\ step = "call" /\ cid \notin Written
  /\ step' = "await"
  /\ UNCHANGED <<cid, err, value, duty, mirror, overrun, slave, late, history>>

\* Mutant: the two writes send each other's variable.
SentSwapped == IF cid = DutyCycle THEN Threshold ELSE duty

Sent == IF cid = DutyCycle THEN duty ELSE Threshold

\* Answers: the RTU has served everything sent before.
Answered == step = "await" /\ late = <<>> /\ step' = "delay" /\ err' = "OK"

WriteOk ==
  /\ Answered /\ cid \in Written
  /\ slave' = [slave EXCEPT ![cid] = Sent]
  /\ acked' = acked \cup {cid} /\ alive' = TRUE
  /\ UNCHANGED <<cid, value, duty, mirror, overrun, late>>

\* A float fills the buffer; *(float *)temp_data_ptr = value.
InputOk ==
  /\ Answered /\ cid \in Inputs
  /\ value' = <<cid, cid>>
  /\ inputs' = [inputs EXCEPT ![cid] = value']
  /\ alive' = TRUE
  /\ UNCHANGED <<cid, duty, holding, overrun, slave, late, acked>>

\* A U16 fills half of it, yet four bytes are stored at the coil port's byte.
CoilOk ==
  /\ Answered /\ cid \in Coils
  /\ value' = <<cid, value[2]>>
  /\ overrun' = (cid - MotorState) + 4 - 2
  /\ alive' = TRUE
  /\ UNCHANGED <<cid, duty, mirror, slave, late, acked>>

\* Mutant: the buffer is stored whether or not the read succeeded.
FailStores ==
  /\ step = "await" /\ step' = "delay" /\ err' = "FAIL"
  /\ inputs' = IF cid \in Inputs THEN [inputs EXCEPT ![cid] = value] ELSE inputs
  /\ UNCHANGED <<cid, value, duty, holding, overrun, slave, late, history>>

\* Exception, broken connection or timeout: logged, and on to the next CID.
Fail ==
  /\ step = "await" /\ step' = "delay" /\ err' = "FAIL"
  /\ \/ UNCHANGED late
     \/ /\ cid \in Written /\ Len(late) < MaxLate
        /\ late' = Append(late, <<cid, Sent>>)
  /\ UNCHANGED <<cid, value, duty, mirror, overrun, slave, history>>

Answer == WriteOk \/ InputOk \/ CoilOk \/ Fail

PollDelay ==
  /\ step = "delay" /\ step' = "info" /\ cid' = cid + 1
  /\ overrun' = 0
  /\ UNCHANGED <<err, value, duty, mirror, slave, late, history>>

EndSweep ==
  /\ step = "info" /\ ~LoopGuard
  /\ cid' = 0
  /\ UNCHANGED <<step, err, value, duty, mirror, overrun, slave, late, history>>

MasterRead == GetCidInfo \/ CallWrite \/ CallRead \/ Answer \/ PollDelay
                \/ EndSweep

-----------------------------------------------------------------------------
(* The RTU and the connection to it *)

LateWrite ==
  /\ late # <<>>
  /\ slave' = [slave EXCEPT ![Head(late)[1]] = Head(late)[2]]
  /\ late' = Tail(late)
  /\ UNCHANGED <<master, history>>

LateLoss == late # <<>> /\ late' = <<>> /\ UNCHANGED <<master, slave, history>>

\* setup_reg_data zeroes the registers; the connection and what it carried
\* are gone.
SlaveRestart ==
  /\ slave' = [c \in Written |-> 0] /\ late' = <<>>
  /\ acked' = {} /\ alive' = FALSE
  /\ UNCHANGED master

Rtu == LateWrite \/ LateLoss \/ SlaveRestart

Next == MasterRead \/ Rtu

Spec == Init /\ [][Next]_vars

\* The task is scheduled, its delays end, every request is answered or times
\* out, and the connection delivers or loses what it carries.
FairSpec == Spec /\ WF_vars(MasterRead) /\ WF_vars(LateWrite)

-----------------------------------------------------------------------------
TypeOK ==
  /\ step \in {"info", "call", "await", "delay"}
  /\ cid \in 0..MaxCids /\ err \in {"OK", "NOT_FOUND", "FAIL"}
  /\ value \in (Param \cup {None}) \X (Param \cup {None})
  /\ duty \in Ramp
  /\ inputs \in [Inputs -> (Param \cup {None}) \X (Param \cup {None})]
  /\ holding \in [Written -> Ramp \cup {0, Threshold}]
  /\ overrun \in 0..3
  /\ slave \in [Written -> Ramp \cup {0, Threshold}]
  /\ late \in Seq(Written \X (Ramp \cup {Threshold})) /\ Len(late) <= MaxLate
  /\ acked \subseteq Written /\ alive \in BOOLEAN

\* A confirmed write is in force: until the next write of that register the
\* RTU holds what the master's mirror says, late writes notwithstanding.
AckedWriteInForce == \A c \in acked : slave[c] = holding[c]

\* The buffer is shared by all reads and coils fill only half of it, yet the
\* mirror of an input only ever holds a whole reading of that input.
MirrorHoldsOwnReading ==
  \A c \in Inputs : inputs[c] \in {<<None, None>>, <<c, c>>}

\* The threshold is one value and the duty one of the ramp.
Values == [c \in Written |-> IF c = DutyCycle THEN Ramp ELSE {Threshold}]

Registers == INSTANCE RemoteRegisters
  WITH Register <- Written, wanted <- holding, remote <- slave,
       confirmed <- acked

\* Sweeping, retrying in the next sweep and writes that arrive late amount to
\* what RemoteRegisters promises: a register holds only values meant for it,
\* and a confirmed one is left alone until the next write or restart.
ImplementsRegisters == Registers!Spec

\* Polling never dies: whatever fails, every parameter is asked for again and
\* again.  (An err of NOT_FOUND would end every later sweep at once.)
EveryCidPolled == \A c \in 0..(MaxCids - 1) : []<>(step = "await" /\ cid = c)

\* While the RTU stays up and answers, it is driven through the whole ramp,
\* both ends included.
RampReachesSlave ==
  <>[](err # "FAIL" /\ alive) => \A d \in Ramp : []<>(slave[DutyCycle] = d)

\* What master/main/modbus.c says of the table: a parameter's value is saved
\* in its instance in the parameter structure, hence not beyond the end of it.
SaveStaysInStructure == overrun = 0
=============================================================================
