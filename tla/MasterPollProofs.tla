-------------------------- MODULE MasterPollProofs --------------------------
(***************************************************************************)
(* Invariance proofs about MasterPoll, for every ramp, threshold and       *)
(* number of late writes, and every number of CIDs the loop may visit.     *)
(***************************************************************************)
EXTENDS MasterPoll, SequenceTheorems, TLAPS

\* A request is only made for a parameter the loop visits.
PollingParam == step # "info" => cid \in Param /\ cid < MaxCids

\* While a write is out, the mirror already holds it and nothing vouches for
\* the register.
MirroredFirst ==
  step = "await" /\ cid \in Written => holding[cid] = Sent /\ cid \notin acked

\* No late write can overtake a confirmed one.
LateNotAcked == \A i \in 1..Len(late) : late[i][1] \notin acked

\* A late write carries a value of the register it is addressed to.
LateOwnValue == \A i \in 1..Len(late) : late[i][2] \in Values[late[i][1]]

PollInv ==
  /\ TypeOK
  /\ PollingParam
  /\ LateOwnValue
  /\ MirroredFirst
  /\ LateNotAcked
  /\ AckedWriteInForce
  /\ MirrorHoldsOwnReading

Payload == Ramp \cup {Threshold}

-----------------------------------------------------------------------------
(* Facts about the operators *)

LEMMA Params ==
  /\ Param = 0..6 /\ Written = {3, 4} /\ Coils = {5, 6} /\ Inputs = {0, 1, 2}
  /\ MaxCids \in 1..7 /\ Written \subseteq Param
  BY CidAssumption
     DEF Param, Written, Coils, Inputs, PowerThreshold, DutyCycle, MotorState,
         MotorAlarm

\* The ramp starts in range and a step either stays in range or wraps.
LEMMA RampStep == DutyFrom \in Ramp /\ \A d \in Ramp : NextDuty(d) \in Ramp
<1>1. DutyFrom \in Ramp
  <2>1. 0 \in 0..(DutyTo - DutyFrom) /\ DutyFrom = DutyFrom + 0 * DutyStep
    BY RampAssumption
  <2>2. DutyFrom \in DutyFrom..DutyTo
    BY RampAssumption
  <2> QED BY <2>1, <2>2 DEF Ramp
<1>2. ASSUME NEW d \in Ramp PROVE NextDuty(d) \in Ramp
  <2>1. PICK k \in 0..(DutyTo - DutyFrom) : d = DutyFrom + k * DutyStep
    BY DEF Ramp
  <2>2. d \in DutyFrom..DutyTo /\ d \in Int
    BY RampAssumption DEF Ramp
  <2>3. CASE d + DutyStep > DutyTo
    BY <1>1, <2>3 DEF NextDuty
  <2>4. CASE ~(d + DutyStep > DutyTo)
    <3>1. d + DutyStep = DutyFrom + (k + 1) * DutyStep
      <4>1. k \in Int /\ DutyStep \in Int /\ DutyFrom \in Int
        BY RampAssumption
      <4>2. (k + 1) * DutyStep = k * DutyStep + DutyStep
        BY <4>1
      <4> QED BY <2>1, <4>1, <4>2
    <3>2. k + 1 \in 0..(DutyTo - DutyFrom)
      <4>1. k <= k * DutyStep
        BY RampAssumption
      <4>2. k * DutyStep \in Int
        BY RampAssumption
      <4> QED BY <2>1, <2>4, <4>1, <4>2, RampAssumption
    <3>3. d + DutyStep \in DutyFrom..DutyTo
      BY <2>2, <2>4, RampAssumption
    <3>4. d + DutyStep \in Ramp
      BY <3>1, <3>2, <3>3 DEF Ramp
    <3> QED BY <2>4, <3>4 DEF NextDuty
  <2> QED BY <2>3, <2>4
<1> QED BY <1>1, <1>2

LEMMA SentIsPayload ==
  ASSUME TypeOK
  PROVE  Sent \in Payload
  BY DEF Sent, Payload, TypeOK

LEMMA SentIsOwnValue ==
  ASSUME TypeOK, cid \in Written
  PROVE  Sent \in Values[cid]
  BY DEF Sent, Values, TypeOK

-----------------------------------------------------------------------------
\* The initial state satisfies the invariant.
LEMMA PollInit == Init => PollInv
<1> SUFFICES ASSUME Init PROVE PollInv
  OBVIOUS
<1>1. alive \in BOOLEAN
  BY Zenon DEF Init
<1>2. late \in Seq(Written \X Payload) /\ Len(late) = 0
  BY DEF Init
<1>3. TypeOK
  BY <1>1, <1>2, Params, RampStep, RampAssumption DEF Init, TypeOK, None, Payload
<1>4. PollingParam /\ MirroredFirst /\ LateNotAcked /\ AckedWriteInForce
  BY <1>2 DEF Init, PollingParam, MirroredFirst, LateNotAcked, AckedWriteInForce
<1> LateOwnValue
  BY <1>2 DEF LateOwnValue
<1>5. MirrorHoldsOwnReading
  BY DEF Init, MirrorHoldsOwnReading
<1> QED BY <1>3, <1>4, <1>5 DEF PollInv

\* Types and the parameter being polled.
LEMMA PollTypeStep ==
  ASSUME TypeOK, PollingParam, [Next]_vars
  PROVE  TypeOK' /\ PollingParam'
<1> USE Params DEF TypeOK, PollingParam, mirror, history
<1>1. CASE GetCidInfo
  BY <1>1 DEF GetCidInfo, LoopGuard
<1>2. CASE CallWrite
  <2>1. duty' \in Ramp /\ Threshold \in Nat
    BY <1>2, RampStep, RampAssumption DEF CallWrite
  <2>2. holding' \in [Written -> Ramp \cup {0, Threshold}]
    BY <1>2, <2>1 DEF CallWrite
  <2>3. acked' \subseteq Written /\ step' = "await"
    BY <1>2 DEF CallWrite
  <2> QED BY <1>2, <2>1, <2>2, <2>3 DEF CallWrite
<1>3. CASE CallRead
  BY <1>3 DEF CallRead
<1>4. CASE WriteOk
  <2>1. slave' \in [Written -> Ramp \cup {0, Threshold}]
    BY <1>4, SentIsPayload DEF WriteOk, Payload
  <2> QED BY <1>4, <2>1 DEF WriteOk, Answered
<1>5. CASE InputOk
  BY <1>5 DEF InputOk, Answered
<1>6. CASE CoilOk
  <2>1. alive' \in BOOLEAN
    BY <1>6, Zenon DEF CoilOk
  <2>2. overrun' \in 0..3
    BY <1>6 DEF CoilOk, MotorState
  <2>3. value' \in (Param \cup {None}) \X (Param \cup {None})
    BY <1>6 DEF CoilOk
  <2> QED BY <1>6, <2>1, <2>2, <2>3 DEF CoilOk, Answered
<1>7. CASE Fail
  <2>1. CASE UNCHANGED late
    BY <1>7, <2>1 DEF Fail
  <2>2. CASE cid \in Written /\ Len(late) < MaxLate
               /\ late' = Append(late, <<cid, Sent>>)
    <3>1. <<cid, Sent>> \in Written \X Payload /\ late \in Seq(Written \X Payload)
      BY <2>2, SentIsPayload DEF Payload
    <3>2. late' \in Seq(Written \X Payload) /\ Len(late') = Len(late) + 1
      BY <2>2, <3>1, AppendProperties
    <3>3. Len(late') <= MaxLate
      BY <2>2, <3>1, <3>2, RampAssumption, LenProperties
    <3> QED BY <1>7, <3>2, <3>3 DEF Fail, Payload
  <2> QED BY <1>7, <2>1, <2>2 DEF Fail
<1>8. CASE PollDelay
  BY <1>8 DEF PollDelay
<1>9. CASE EndSweep
  BY <1>9 DEF EndSweep
<1>10. CASE LateWrite
  <2>1. Head(late) \in Written \X Payload
    BY <1>10, HeadTailProperties DEF LateWrite, Payload
  <2>2. late' \in Seq(Written \X Payload) /\ Len(late') <= MaxLate
    BY <1>10, HeadTailProperties, RampAssumption DEF LateWrite, Payload
  <2>3. slave' \in [Written -> Ramp \cup {0, Threshold}]
    BY <1>10, <2>1 DEF LateWrite, Payload
  <2> QED BY <1>10, <2>2, <2>3 DEF LateWrite, master, Payload
<1>11. CASE LateLoss
  BY <1>11, RampAssumption DEF LateLoss, master
<1>12. CASE SlaveRestart
  <2>1. alive' \in BOOLEAN
    BY <1>12, Zenon DEF SlaveRestart
  <2>2. late' \in Seq(Written \X Payload) /\ Len(late') <= MaxLate
    BY <1>12, RampAssumption DEF SlaveRestart
  <2> QED BY <1>12, <2>1, <2>2 DEF SlaveRestart, master, Payload
<1>13. CASE UNCHANGED vars
  BY <1>13 DEF vars, master
<1> QED
  BY <1>1, <1>2, <1>3, <1>4, <1>5, <1>6, <1>7, <1>8, <1>9, <1>10, <1>11,
     <1>12, <1>13 DEF Next, MasterRead, Answer, Rtu

-----------------------------------------------------------------------------
(* Confirmed writes *)

\* What master_read does, and what becomes of the writes it gave up on,
\* leaves every confirmed write in force.
LEMMA PollWriteStep ==
  ASSUME TypeOK, PollingParam, MirroredFirst, LateNotAcked, AckedWriteInForce,
         [Next]_vars
  PROVE  MirroredFirst' /\ LateNotAcked' /\ AckedWriteInForce'
<1> USE Params
    DEF MirroredFirst, LateNotAcked, AckedWriteInForce, mirror, history
<1>1. CASE GetCidInfo
  BY <1>1 DEF GetCidInfo
<1>2. CASE CallWrite
  <2>1. holding' = [holding EXCEPT ![cid] = Sent'] /\ cid' = cid
    BY <1>2 DEF CallWrite, Sent
  <2>2. holding'[cid] = Sent' /\ cid \notin acked'
    BY <1>2, <2>1 DEF CallWrite, TypeOK
  <2>3. \A c \in acked' : c \in acked /\ holding'[c] = holding[c] /\ slave' = slave
    BY <1>2, <2>1 DEF CallWrite, TypeOK
  <2> QED BY <1>2, <2>1, <2>2, <2>3 DEF CallWrite
<1>3. CASE CallRead
  BY <1>3 DEF CallRead
<1>4. CASE WriteOk
  <2>1. slave'[cid] = holding'[cid]
    BY <1>4 DEF WriteOk, Answered, TypeOK
  <2>2. \A c \in acked : c # cid => slave'[c] = holding'[c]
    BY <1>4 DEF WriteOk, TypeOK
  <2> QED BY <1>4, <2>1, <2>2 DEF WriteOk, Answered
<1>5. CASE InputOk
  BY <1>5 DEF InputOk, Answered
<1>6. CASE CoilOk
  BY <1>6 DEF CoilOk, Answered
<1>7. CASE Fail
  <2>1. CASE UNCHANGED late
    BY <1>7, <2>1 DEF Fail
  <2>2. CASE cid \in Written /\ late' = Append(late, <<cid, Sent>>)
    <3>1. late \in Seq(Written \X Payload)
      BY DEF TypeOK, Payload
    <3>2. <<cid, Sent>> \in Written \X Payload
      BY <2>2, SentIsPayload
    <3>3. /\ Len(late') = Len(late) + 1
          /\ \A i \in 1..Len(late) : late'[i] = late[i]
          /\ late'[Len(late) + 1] = <<cid, Sent>>
      BY <2>2, <3>1, <3>2, AppendProperties
    <3>4. \A i \in 1..Len(late') : i \in 1..Len(late) \/ i = Len(late) + 1
      BY <3>1, <3>3, LenProperties
    <3>5. cid \notin acked
      BY <1>7, <2>2 DEF Fail
    <3> QED BY <1>7, <3>3, <3>4, <3>5 DEF Fail
  <2> QED BY <1>7, <2>1, <2>2 DEF Fail
<1>8. CASE PollDelay
  BY <1>8 DEF PollDelay
<1>9. CASE EndSweep
  BY <1>9 DEF EndSweep
<1>10. CASE LateWrite
  <2>1. late \in Seq(Written \X Payload) /\ late # <<>>
    BY <1>10 DEF TypeOK, Payload, LateWrite
  <2>2. /\ Len(late') = Len(late) - 1 /\ Len(late) \in Nat \ {0}
        /\ \A i \in 1..Len(late') : late'[i] = late[i + 1]
    BY <1>10, <2>1, HeadTailProperties, EmptySeq DEF LateWrite
  <2>3. Head(late) = late[1] /\ Head(late)[1] \notin acked
    BY <2>1, <2>2
  <2>4. \A c \in acked : slave'[c] = slave[c]
    BY <1>10, <2>3 DEF LateWrite, TypeOK
  <2>5. \A i \in 1..Len(late') : i + 1 \in 1..Len(late)
    BY <2>2
  <2> QED BY <1>10, <2>2, <2>4, <2>5 DEF LateWrite, master, Sent
<1>11. CASE LateLoss
  BY <1>11 DEF LateLoss, master, Sent
<1>12. CASE SlaveRestart
  BY <1>12 DEF SlaveRestart, master, Sent
<1>13. CASE UNCHANGED vars
  BY <1>13 DEF vars, master, Sent
<1> QED
  BY <1>1, <1>2, <1>3, <1>4, <1>5, <1>6, <1>7, <1>8, <1>9, <1>10, <1>11,
     <1>12, <1>13 DEF Next, MasterRead, Answer, Rtu

\* A write that times out was sent with a value of its own register.
LEMMA PollLateStep ==
  ASSUME TypeOK, LateOwnValue, [Next]_vars
  PROVE  LateOwnValue'
<1> USE DEF LateOwnValue
<1>1. Values' = Values
  BY DEF Values
<1>2. CASE Fail
  <2>1. CASE UNCHANGED late
    BY <1>1, <2>1
  <2>2. CASE cid \in Written /\ late' = Append(late, <<cid, Sent>>)
    <3>1. late \in Seq(Written \X Payload)
      BY DEF TypeOK, Payload
    <3>2. <<cid, Sent>> \in Written \X Payload
      BY <2>2, SentIsPayload
    <3>3. /\ Len(late') = Len(late) + 1
          /\ \A i \in 1..Len(late) : late'[i] = late[i]
          /\ late'[Len(late) + 1] = <<cid, Sent>>
      BY <2>2, <3>1, <3>2, AppendProperties
    <3>4. \A i \in 1..Len(late') : i \in 1..Len(late) \/ i = Len(late) + 1
      BY <3>1, <3>3, LenProperties
    <3>5. Sent \in Values[cid]
      BY <2>2, SentIsOwnValue
    <3> QED BY <1>1, <3>3, <3>4, <3>5
  <2> QED BY <1>2, <2>1, <2>2 DEF Fail
<1>3. CASE LateWrite
  <2>1. late \in Seq(Written \X Payload) /\ late # <<>>
    BY <1>3 DEF TypeOK, Payload, LateWrite
  <2>2. /\ Len(late') = Len(late) - 1 /\ Len(late) \in Nat \ {0}
        /\ \A i \in 1..Len(late') : late'[i] = late[i + 1]
    BY <1>3, <2>1, HeadTailProperties, EmptySeq DEF LateWrite
  <2>3. \A i \in 1..Len(late') : i + 1 \in 1..Len(late)
    BY <2>2
  <2> QED BY <1>1, <2>2, <2>3
<1>4. CASE late' = <<>>
  BY <1>4
<1>5. CASE UNCHANGED late
  BY <1>1, <1>5
<1>6. Fail \/ LateWrite \/ late' = <<>> \/ UNCHANGED late
  BY DEF Next, vars, MasterRead, Answer, Rtu, GetCidInfo, CallWrite, CallRead,
     WriteOk, InputOk, CoilOk, PollDelay, EndSweep, LateLoss, SlaveRestart
<1> QED BY <1>2, <1>3, <1>4, <1>5, <1>6

\* Only a whole float read for an input is stored in its mirror.
LEMMA PollMirrorStep ==
  ASSUME TypeOK, MirrorHoldsOwnReading, [Next]_vars
  PROVE  MirrorHoldsOwnReading'
<1>1. CASE InputOk
  BY <1>1 DEF InputOk, TypeOK, MirrorHoldsOwnReading
<1>2. CASE UNCHANGED inputs
  BY <1>2 DEF MirrorHoldsOwnReading
<1>3. InputOk \/ UNCHANGED inputs
  BY DEF Next, vars, MasterRead, Answer, Rtu, GetCidInfo, CallWrite, CallRead,
     WriteOk, CoilOk, Fail, PollDelay, EndSweep, LateWrite, LateLoss,
     SlaveRestart, master, mirror
<1> QED BY <1>1, <1>2, <1>3

-----------------------------------------------------------------------------
\* The strengthened invariant is inductive.
THEOREM PollInductive == Spec => []PollInv
<1>1. PollInv /\ [Next]_vars => PollInv'
  BY PollTypeStep, PollWriteStep, PollLateStep, PollMirrorStep DEF PollInv
<1> QED BY PollInit, <1>1, PTL DEF Spec

\* Every variable of the polling keeps its type; the duty stays on the ramp.
THEOREM PollTypeCorrect == Spec => []TypeOK
<1>1. PollInv => TypeOK
  BY DEF PollInv
<1> QED BY PollInductive, <1>1, PTL

\* What the RTU has acknowledged is what the master's structure says, however
\* many timed-out writes are still on their way.
THEOREM AckedWritesHold == Spec => []AckedWriteInForce
<1>1. PollInv => AckedWriteInForce
  BY DEF PollInv
<1> QED BY PollInductive, <1>1, PTL

\* master_read never stores part of one reading, or another parameter's, in
\* the mirror of an input register.
THEOREM MirrorsAreWhole == Spec => []MirrorHoldsOwnReading
<1>1. PollInv => MirrorHoldsOwnReading
  BY DEF PollInv
<1> QED BY PollInductive, <1>1, PTL

-----------------------------------------------------------------------------
(* The abstract registers *)

LEMMA RegistersInit == Init => Registers!Init
  BY DEF Init, Registers!Init, Registers!Zeroes

\* Calling a write is wanting a value, its answer settles it, a late write
\* makes an unconfirmed register waver, and everything else stutters.
LEMMA RegistersStep ==
  ASSUME PollInv, [Next]_vars
  PROVE  [Registers!Next]_(Registers!vars)
<1> USE DEF PollInv, Registers!vars, Registers!Next
<1>1. CASE CallWrite
  <2>1. holding' = [holding EXCEPT ![cid] = Sent'] /\ cid' = cid
    BY <1>1 DEF CallWrite, Sent
  <2>2. TypeOK' /\ Values' = Values
    BY PollTypeStep DEF Values
  <2>3. Sent' \in Values[cid]
    <3>1. duty' \in Ramp
      BY <2>2 DEF TypeOK
    <3> QED BY <1>1, <2>1, <3>1 DEF CallWrite, Sent, Values
  <2>4. cid \in Written /\ acked' = acked \ {cid} /\ slave' = slave
    BY <1>1 DEF CallWrite
  <2>5. Registers!Want(cid)
    BY <2>1, <2>3, <2>4 DEF Registers!Want
  <2> QED BY <2>4, <2>5
<1>2. CASE WriteOk
  <2>1. cid \in Written /\ Sent = holding[cid]
    BY <1>2 DEF WriteOk, Answered, MirroredFirst
  <2>2. Registers!Settle(cid)
    BY <1>2, <2>1 DEF WriteOk, mirror, Registers!Settle
  <2> QED BY <2>1, <2>2
<1>3. CASE LateWrite
  <2> DEFINE c == Head(late)[1]
  <2>1. late \in Seq(Written \X Payload) /\ late # <<>>
    BY <1>3 DEF TypeOK, Payload, LateWrite
  <2>2. Head(late) = late[1] /\ Len(late) \in Nat \ {0}
    BY <2>1, HeadTailProperties, EmptySeq
  <2>3. Head(late) \in Written \X Payload
    BY <2>1, HeadTailProperties
  <2>4. c \in Written /\ c \notin acked /\ Head(late)[2] \in Values[c]
    BY <2>2, <2>3 DEF LateNotAcked, LateOwnValue
  <2>5. /\ slave' = [slave EXCEPT ![c] = Head(late)[2]]
        /\ UNCHANGED <<holding, acked>>
    BY <1>3 DEF LateWrite, master, mirror, history
  <2>6. Registers!Waver(c)
    BY <2>4, <2>5 DEF Registers!Waver
  <2> QED BY <2>4, <2>6
<1>4. CASE SlaveRestart
  BY <1>4 DEF SlaveRestart, master, mirror, Registers!Reset, Registers!Zeroes
<1>5. CASE UNCHANGED <<holding, slave, acked>>
  BY <1>5
<1>6. \/ CallWrite \/ WriteOk \/ LateWrite \/ SlaveRestart
      \/ UNCHANGED <<holding, slave, acked>>
  BY DEF Next, vars, MasterRead, Answer, Rtu, GetCidInfo, CallRead, InputOk,
     CoilOk, Fail, PollDelay, EndSweep, LateLoss, master, mirror, history
<1> QED BY <1>1, <1>2, <1>3, <1>4, <1>5, <1>6

\* master_read, with every failure, timeout and restart, keeps what
\* RemoteRegisters promises, for every ramp and any number of late writes.
THEOREM PollImplementsRegisters == Spec => ImplementsRegisters
<1>1. PollInv /\ [Next]_vars => [Registers!Next]_(Registers!vars)
  BY RegistersStep
<1> QED
  BY PollInductive, RegistersInit, <1>1, PTL
     DEF Spec, ImplementsRegisters, Registers!Spec

\* Whatever is retried, late, lost or reset, neither the RTU nor the master's
\* structure ever holds anything but zero or a value meant for the register:
\* no threshold is taken for a duty, and no duty lies off the ramp.
RegistersInRange ==
  \A c \in Written : {slave[c], holding[c]} \subseteq {0} \cup Values[c]

\* This follows from what the abstract registers promise.
THEOREM RegistersKeepTheirRanges == Spec => []RegistersInRange
<1>1. Registers!Init => RegistersInRange
  BY DEF Registers!Init, Registers!Zeroes, RegistersInRange
<1>2. ASSUME RegistersInRange, [Registers!Next]_(Registers!vars)
      PROVE  RegistersInRange'
  <2> USE DEF RegistersInRange
  <2>1. Values' = Values
    BY DEF Values
  <2>2. ASSUME NEW c \in Written, Registers!Want(c) PROVE RegistersInRange'
    BY <1>2, <2>1, <2>2 DEF Registers!Want
  <2>3. ASSUME NEW c \in Written, Registers!Settle(c) PROVE RegistersInRange'
    BY <1>2, <2>1, <2>3 DEF Registers!Settle
  <2>4. ASSUME NEW c \in Written, Registers!Waver(c) PROVE RegistersInRange'
    BY <1>2, <2>1, <2>4 DEF Registers!Waver
  <2>5. CASE Registers!Reset
    BY <1>2, <2>1, <2>5 DEF Registers!Reset, Registers!Zeroes
  <2>6. CASE UNCHANGED Registers!vars
    BY <1>2, <2>1, <2>6 DEF Registers!vars
  <2> QED BY <1>2, <2>2, <2>3, <2>4, <2>5, <2>6 DEF Registers!Next
<1> QED
  BY <1>1, <1>2, PollImplementsRegisters, PTL
     DEF ImplementsRegisters, Registers!Spec

-----------------------------------------------------------------------------
(* The sweep *)

\* The status of the last call never says that a parameter is missing, which
\* would end every sweep before it began; and the loop stops at its bound.
SweepInv == err # "NOT_FOUND" /\ (step = "info" => cid <= MaxCids)

LEMMA SweepStep ==
  ASSUME TypeOK, PollingParam, SweepInv, [Next]_vars
  PROVE  SweepInv'
<1> USE Params DEF TypeOK, PollingParam, SweepInv
<1>1. CASE GetCidInfo
  BY <1>1 DEF GetCidInfo, LoopGuard
<1>2. CASE CallWrite \/ CallRead
  BY <1>2 DEF CallWrite, CallRead
<1>3. CASE Answer
  BY <1>3 DEF Answer, WriteOk, InputOk, CoilOk, Fail, Answered
<1>4. CASE PollDelay
  BY <1>4 DEF PollDelay
<1>5. CASE EndSweep
  BY <1>5 DEF EndSweep
<1>6. CASE UNCHANGED <<step, cid, err>>
  BY <1>6
<1>7. \/ GetCidInfo \/ CallWrite \/ CallRead \/ Answer \/ PollDelay \/ EndSweep
      \/ UNCHANGED <<step, cid, err>>
  BY DEF Next, vars, MasterRead, Rtu, LateWrite, LateLoss, SlaveRestart, master
<1> QED BY <1>1, <1>2, <1>3, <1>4, <1>5, <1>6, <1>7

LEMMA SweepInductive == Spec => [](PollInv /\ SweepInv)
<1>1. Init => SweepInv
  BY Params DEF Init, SweepInv
<1>2. PollInv /\ SweepInv /\ [Next]_vars => SweepInv'
  BY SweepStep DEF PollInv
<1> QED BY <1>1, <1>2, PollInductive, PTL DEF Spec

\* Whatever fails on the way, a sweep asks for every parameter in its order,
\* each once, and the next one begins when the last is done.
SweepsAreComplete ==
  [][cid' # cid =>
       \/ step = "delay" /\ cid' = cid + 1
       \/ step = "info" /\ cid = MaxCids /\ cid' = 0]_vars

\* Steps of master_read before the sweep is over.
Left ==
  4 * (MaxCids - cid)
    + CASE step = "info" -> 1 [] step = "call" -> 0
        [] step = "await" -> -1 [] step = "delay" -> -2

\* The safety half of EveryCidPolled: master_read never stays at a parameter,
\* skips one or ends a sweep early, and a sweep takes 4 * MaxCids + 1 steps.
THEOREM SweepsRunDown ==
  Spec => /\ SweepsAreComplete
          /\ [][MasterRead => \/ Left' \in Nat /\ Left' < Left
                              \/ Left = 1 /\ cid' = 0 /\ step' = "info"]_vars
<1>1. ASSUME PollInv, SweepInv, Next, cid' # cid
      PROVE  \/ step = "delay" /\ cid' = cid + 1
             \/ step = "info" /\ cid = MaxCids /\ cid' = 0
  <2> USE Params DEF PollInv, TypeOK, PollingParam, SweepInv
  <2>1. CASE PollDelay
    BY <2>1 DEF PollDelay
  <2>2. CASE EndSweep
    <3>1. cid \in 0..MaxCids /\ MaxCids \in Nat /\ err # "NOT_FOUND"
      BY <1>1
    <3>2. step = "info" /\ cid' = 0 /\ ~(cid < MaxCids)
      BY <2>2, <3>1 DEF EndSweep, LoopGuard
    <3>3. cid = MaxCids
      BY ONLY <3>1, <3>2
    <3> QED BY <3>2, <3>3
  <2>3. CASE GetCidInfo
    BY <1>1, <2>3 DEF GetCidInfo, LoopGuard
  <2>4. PollDelay \/ EndSweep \/ GetCidInfo
    BY <1>1 DEF Next, MasterRead, Answer, Rtu, CallWrite, CallRead, WriteOk,
                InputOk, CoilOk, Fail, LateWrite, LateLoss, SlaveRestart, master
  <2> QED BY <2>1, <2>2, <2>3, <2>4
<1>2. ASSUME PollInv, SweepInv, MasterRead
      PROVE  \/ Left' \in Nat /\ Left' < Left
             \/ Left = 1 /\ cid' = 0 /\ step' = "info"
  <2>1. /\ cid \in 0..MaxCids /\ MaxCids \in 1..7 /\ Param = 0..6
        /\ step # "info" => cid < MaxCids
        /\ err # "NOT_FOUND"
    BY <1>2, Params DEF PollInv, TypeOK, PollingParam, SweepInv
  <2>2. CASE GetCidInfo
    BY <2>1, <2>2 DEF GetCidInfo, LoopGuard, Left
  <2>3. CASE CallWrite \/ CallRead
    BY <2>1, <2>3 DEF CallWrite, CallRead, Left
  <2>4. CASE Answer
    <3>1. step = "await" /\ step' = "delay" /\ cid' = cid
      BY <2>4 DEF Answer, WriteOk, InputOk, CoilOk, Fail, Answered
    <3> QED BY <2>1, <3>1 DEF Left
  <2>5. CASE PollDelay
    BY <2>1, <2>5 DEF PollDelay, Left
  <2>6. CASE EndSweep
    <3>1. step = "info" /\ step' = "info" /\ cid = MaxCids /\ cid' = 0
      BY <2>1, <2>6 DEF EndSweep, LoopGuard
    <3> QED BY <2>1, <3>1 DEF Left
  <2> QED BY <1>2, <2>2, <2>3, <2>4, <2>5, <2>6 DEF MasterRead
<1>3. PollInv /\ SweepInv /\ [Next]_vars
        => /\ [cid' # cid =>
                 \/ step = "delay" /\ cid' = cid + 1
                 \/ step = "info" /\ cid = MaxCids /\ cid' = 0]_vars
           /\ [MasterRead => \/ Left' \in Nat /\ Left' < Left
                             \/ Left = 1 /\ cid' = 0 /\ step' = "info"]_vars
  BY <1>1, <1>2
<1> QED BY <1>3, SweepInductive, PTL DEF Spec, SweepsAreComplete

-----------------------------------------------------------------------------
(* The ramp *)

\* Where the ramp stands, told from the mirror: at its start before the first
\* write, and then at the value written last.
Stand == IF holding[DutyCycle] = 0 THEN DutyFrom ELSE holding[DutyCycle]

\* The duty moves only when it is written, by one step of the ramp, and the
\* mirror with it: a failed, late or repeated request never makes the ramp
\* skip or repeat a value.
RampInOrder ==
  [][duty' # duty \/ holding'[DutyCycle] # holding[DutyCycle]
       => /\ step = "call" /\ cid = DutyCycle
          /\ holding'[DutyCycle] = NextDuty(Stand)]_vars

\* The safety half of RampReachesSlave.  Only a ramp that starts at zero could
\* not be told from a register that was never written.
THEOREM RampKeepsOrder == DutyFrom # 0 /\ Spec => [](duty = Stand) /\ RampInOrder
<1> SUFFICES ASSUME DutyFrom # 0
             PROVE  Spec => [](duty = Stand) /\ RampInOrder
  OBVIOUS
<1>1. DutyCycle \in Written /\ PowerThreshold # DutyCycle
  BY DEF Written, DutyCycle, PowerThreshold
<1>2. Init => duty = Stand
  BY <1>1 DEF Init, Stand
<1>3. ASSUME PollInv, duty = Stand, Next,
             ~ UNCHANGED <<duty, holding[DutyCycle]>>
      PROVE  /\ step = "call" /\ cid = DutyCycle
             /\ holding'[DutyCycle] = NextDuty(Stand) /\ duty' = Stand'
  <2>1. CallWrite
    BY <1>3 DEF Next, MasterRead, Answer, Rtu, GetCidInfo, CallRead, WriteOk,
                InputOk, CoilOk, Fail, PollDelay, EndSweep, LateWrite, LateLoss,
                SlaveRestart, master, mirror
  <2>2. holding \in [Written -> Ramp \cup {0, Threshold}] /\ duty \in Ramp
    BY <1>3 DEF PollInv, TypeOK
  <2>3. cid = DutyCycle
    BY <1>1, <1>3, <2>1, <2>2 DEF CallWrite
  <2>4. duty' = NextDuty(duty) /\ holding'[DutyCycle] = duty'
    BY <1>1, <2>1, <2>2, <2>3 DEF CallWrite
  <2>5. duty' # 0
    <3>1. duty' \in Ramp
      BY <2>2, <2>4, RampStep
    <3> QED BY <3>1, RampAssumption DEF Ramp
  <2> QED BY <1>3, <2>1, <2>3, <2>4, <2>5 DEF CallWrite, Stand
<1>4. PollInv /\ duty = Stand /\ [Next]_vars => (duty = Stand)'
  <2> SUFFICES ASSUME PollInv, duty = Stand, [Next]_vars PROVE duty' = Stand'
    OBVIOUS
  <2>1. CASE UNCHANGED <<duty, holding[DutyCycle]>>
    BY <2>1 DEF Stand
  <2>2. UNCHANGED vars => UNCHANGED <<duty, holding[DutyCycle]>>
    BY DEF vars, master, mirror
  <2> QED BY <1>3, <2>1, <2>2
<1>5. PollInv /\ duty = Stand /\ [Next]_vars
        => [duty' # duty \/ holding'[DutyCycle] # holding[DutyCycle]
              => /\ step = "call" /\ cid = DutyCycle
                 /\ holding'[DutyCycle] = NextDuty(Stand)]_vars
  BY <1>3
<1> QED BY <1>2, <1>4, <1>5, PollInductive, PTL DEF Spec, RampInOrder

-----------------------------------------------------------------------------
(* Every parameter is polled *)

\* Whatever its step, master_read can take it: a request that is out can always
\* fail.  TLAPS cannot look into ENABLED.
NeverStuck == [](ENABLED <<MasterRead>>_vars)

\* The parameter master_read turns to next, and how many it is before c's turn.
Upcoming == IF step = "delay" THEN cid + 1 ELSE cid
Turns(c) ==
  IF Upcoming <= c THEN c - Upcoming ELSE c + MaxCids + 1 - Upcoming

LEMMA TurnsBounded ==
  ASSUME TypeOK, PollingParam, NEW c \in 0..(MaxCids - 1)
  PROVE  Turns(c) \in 0..7
  BY Params DEF TypeOK, PollingParam, Upcoming, Turns

At(c, d, st) == Turns(c) = d /\ step = st
Under(c, d) == Turns(c) < d

\* A step of a turn: master_read goes on to its request, or the turn is over,
\* and the RTU's steps leave the turn as it is.
Turn(c, d) ==
  /\ Turns(c) = d => \/ At(c, d, "delay") \/ At(c, d, "info")
                     \/ At(c, d, "call") \/ At(c, d, "await")
  /\ [Next]_vars =>
       /\ At(c, d, "delay") => At(c, d, "delay")' \/ At(c, d, "info")'
       /\ At(c, d, "info") =>
            At(c, d, "info")' \/ At(c, d, "call")' \/ Under(c, d)'
       /\ At(c, d, "call") => At(c, d, "call")' \/ At(c, d, "await")'
  /\ MasterRead =>
       /\ At(c, d, "delay") => At(c, d, "info")'
       /\ At(c, d, "info") => At(c, d, "call")' \/ Under(c, d)'
       /\ At(c, d, "call") => At(c, d, "await")'

\* The request of an earlier turn ends it.
TurnOver(c, d) ==
  /\ [Next]_vars /\ At(c, d, "await") => At(c, d, "await")' \/ Under(c, d)'
  /\ MasterRead /\ At(c, d, "await") => Under(c, d)'

LEMMA TurnStep ==
  ASSUME PollInv, SweepInv, NEW c \in 0..(MaxCids - 1), NEW d \in 0..7
  PROVE  Turn(c, d) /\ (d > 0 => TurnOver(c, d))
<1>1. /\ cid \in 0..MaxCids /\ MaxCids \in 1..7 /\ Param = 0..6
      /\ step # "info" => cid < MaxCids
      /\ err # "NOT_FOUND"
      /\ step \in {"info", "call", "await", "delay"}
  BY Params DEF PollInv, TypeOK, PollingParam, SweepInv
<1>2. MasterRead =>
        \/ step = "info" /\ cid < MaxCids /\ step' = "call" /\ cid' = cid
        \/ step = "info" /\ cid = MaxCids /\ step' = "info" /\ cid' = 0
        \/ step = "call" /\ step' = "await" /\ cid' = cid
        \/ step = "await" /\ step' = "delay" /\ cid' = cid
        \/ step = "delay" /\ step' = "info" /\ cid' = cid + 1
  <2>1. GetCidInfo =>
          step = "info" /\ cid < MaxCids /\ step' = "call" /\ cid' = cid
    BY <1>1 DEF GetCidInfo, LoopGuard
  <2>2. CallWrite \/ CallRead => step = "call" /\ step' = "await" /\ cid' = cid
    BY DEF CallWrite, CallRead
  <2>3. Answer => step = "await" /\ step' = "delay" /\ cid' = cid
    BY DEF Answer, WriteOk, InputOk, CoilOk, Fail, Answered
  <2>4. PollDelay => step = "delay" /\ step' = "info" /\ cid' = cid + 1
    BY DEF PollDelay
  <2>5. EndSweep => step = "info" /\ cid = MaxCids /\ step' = "info" /\ cid' = 0
    BY <1>1 DEF EndSweep, LoopGuard
  <2> QED BY <2>1, <2>2, <2>3, <2>4, <2>5 DEF MasterRead
<1>3. [Next]_vars => MasterRead \/ UNCHANGED <<step, cid>>
  BY DEF Next, Rtu, LateWrite, LateLoss, SlaveRestart, vars, master
<1>4. UNCHANGED <<step, cid>> => Turns(c)' = Turns(c)
  BY DEF Turns, Upcoming
<1> QED
  BY <1>1, <1>2, <1>3, <1>4 DEF Turn, TurnOver, At, Under, Turns, Upcoming

\* master_read asks for every parameter again and again, for every length of
\* the sweep: under the fairness of FairSpec a sweep cannot end early, stop at
\* a parameter, or be put off by what the RTU does meanwhile.
THEOREM EveryParameterIsPolled == FairSpec /\ NeverStuck => EveryCidPolled
<1> SUFFICES ASSUME NEW c \in 0..(MaxCids - 1)
             PROVE  FairSpec /\ NeverStuck => []<>(step = "await" /\ cid = c)
  BY DEF EveryCidPolled
<1> DEFINE Live == FairSpec /\ NeverStuck
           Inv == PollInv /\ SweepInv
<1>1. Live => []Inv /\ [][Next]_vars /\ WF_vars(MasterRead)
  BY SweepInductive, PTL DEF FairSpec, Spec
<1>2. Live => [](ENABLED <<MasterRead>>_vars)
  BY PTL DEF NeverStuck
<1>3. Inv => /\ Turn(c, 7) /\ TurnOver(c, 7)
             /\ Turn(c, 6) /\ TurnOver(c, 6)
             /\ Turn(c, 5) /\ TurnOver(c, 5)
             /\ Turn(c, 4) /\ TurnOver(c, 4)
             /\ Turn(c, 3) /\ TurnOver(c, 3)
             /\ Turn(c, 2) /\ TurnOver(c, 2)
             /\ Turn(c, 1) /\ TurnOver(c, 1)
             /\ Turn(c, 0)
  BY TurnStep
<1>4. Live => (Turns(c) = 7 ~> Under(c, 7))
  BY <1>1, <1>2, <1>3, PTL DEF Turn, TurnOver
<1>5. Live => (Turns(c) = 6 ~> Under(c, 6))
  BY <1>1, <1>2, <1>3, PTL DEF Turn, TurnOver
<1>6. Live => (Turns(c) = 5 ~> Under(c, 5))
  BY <1>1, <1>2, <1>3, PTL DEF Turn, TurnOver
<1>7. Live => (Turns(c) = 4 ~> Under(c, 4))
  BY <1>1, <1>2, <1>3, PTL DEF Turn, TurnOver
<1>8. Live => (Turns(c) = 3 ~> Under(c, 3))
  BY <1>1, <1>2, <1>3, PTL DEF Turn, TurnOver
<1>9. Live => (Turns(c) = 2 ~> Under(c, 2))
  BY <1>1, <1>2, <1>3, PTL DEF Turn, TurnOver
<1>10. Live => (Turns(c) = 1 ~> Under(c, 1))
  BY <1>1, <1>2, <1>3, PTL DEF Turn, TurnOver
<1>11. Live => (Turns(c) = 0 ~> At(c, 0, "await") \/ Under(c, 0))
  BY <1>1, <1>2, <1>3, PTL DEF Turn
<1>12. Inv =>
         /\ Turns(c) = 7 \/ Under(c, 7)
         /\ Under(c, 7) => Turns(c) = 6 \/ Under(c, 6)
         /\ Under(c, 6) => Turns(c) = 5 \/ Under(c, 5)
         /\ Under(c, 5) => Turns(c) = 4 \/ Under(c, 4)
         /\ Under(c, 4) => Turns(c) = 3 \/ Under(c, 3)
         /\ Under(c, 3) => Turns(c) = 2 \/ Under(c, 2)
         /\ Under(c, 2) => Turns(c) = 1 \/ Under(c, 1)
         /\ Under(c, 1) => Turns(c) = 0
         /\ ~Under(c, 0)
         /\ At(c, 0, "await") => step = "await" /\ cid = c
  <2>1. Inv => Turns(c) \in 0..7 /\ cid \in Int
    BY TurnsBounded, Params DEF PollInv, TypeOK
  <2>2. Inv /\ At(c, 0, "await") => step = "await" /\ cid = c
    BY <2>1, Params DEF At, Turns, Upcoming, PollInv, TypeOK
  <2> QED BY <2>1, <2>2 DEF Under
<1> QED
  BY <1>1, <1>4, <1>5, <1>6, <1>7, <1>8, <1>9, <1>10, <1>11, <1>12, PTL
=============================================================================
