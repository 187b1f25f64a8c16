------------------------- MODULE AccessEventsProofs -------------------------
(***************************************************************************)
(* Invariance proofs about AccessEvents, for every set of accesses and     *)
(* every set of lengths of the record queue.  *)
(***************************************************************************)
EXTENDS AccessEvents, SequenceTheorems, TLAPS

Flag(b) == IF b THEN 1 ELSE 0

\* Every claim on a record, a bit to be served or a call waiting, is covered
\* by a record in the queue or on its way there.
RecordsCoverClaims ==
  Flag(bits # {}) + Flag(server = "get") <= Len(queue) + Flag(pending # {})

\* An access of kind k on its way to the server, and nothing else.
Carrying(k) ==
  \/ pending = {k} /\ queue = <<>>
  \/ pending = {} /\ queue = <<k>>

Nothing == bits = {} /\ pending = {} /\ queue = <<>>

\* With a patient client that writes no holding registers, at most one access
\* is anywhere between the client and the log.
OneAtATime ==
  paced =>
    \/ server = "check" /\ Nothing
    \/ \E k \in Kind \ {"HOLDING WRITE"} :
         \/ server = "check" /\ bits = {k} /\ Carrying(k)
         \/ server = "get" /\ event = {k} /\ bits = {} /\ Carrying(k)
         \/ server = "log" /\ event = {k} /\ reg_info = k /\ Nothing
         \/ server = "delay" /\ line = <<k, k>> /\ Nothing

\* Only the round that logs has a line.
LineOnlyInDelay == line # <<>> => server = "delay"

Unaborted == server # "aborted"

CountInv == TypeOK /\ RecordsCoverClaims
PacedInv == TypeOK /\ LineOnlyInDelay /\ OneAtATime

-----------------------------------------------------------------------------
(* Facts about the operators *)

LEMMA KindMembers ==
  Kind = {"HOLDING READ", "HOLDING WRITE", "INPUT READ", "DISCRETE READ",
          "COILS READ", "COILS WRITE"}
<1>1. DOMAIN Branch = 1..6
  BY DEF Branch
<1>2. \A i \in 1..6 : i = 1 \/ i = 2 \/ i = 3 \/ i = 4 \/ i = 5 \/ i = 6
  OBVIOUS
<1>3. Kind = {Branch[1], Branch[2], Branch[3], Branch[4], Branch[5], Branch[6]}
  BY <1>1, <1>2 DEF Kind
<1> QED BY <1>3 DEF Branch

\* A set with some bit selects the branch of one of its bits.
LEMMA ChosenIsKind ==
  ASSUME NEW e \in SUBSET Kind, e # {}
  PROVE  Chosen(e) \in e
<1> DEFINE P(i) == Branch[i] \in e /\ \A j \in 1..(i - 1) : Branch[j] \notin e
<1>1. DOMAIN Branch = 1..6
  BY DEF Branch
<1>2. \E i \in 1..6 : Branch[i] \in e
  BY <1>1 DEF Kind
<1>3. \E i \in 1..6 : P(i)
  <2>1. CASE P(1) BY <2>1
  <2>2. CASE P(2) BY <2>2
  <2>3. CASE P(3) BY <2>3
  <2>4. CASE P(4) BY <2>4
  <2>5. CASE P(5) BY <2>5
  <2>6. CASE P(6) BY <2>6
  <2> QED BY <1>2, <2>1, <2>2, <2>3, <2>4, <2>5, <2>6
<1>4. P(CHOOSE i \in DOMAIN Branch : P(i))
  BY <1>1, <1>3
<1> QED BY <1>4 DEF Chosen

\* A single bit selects its own branch.
LEMMA ChosenOfOne ==
  ASSUME NEW k \in Kind
  PROVE  Chosen({k}) = k
  BY ChosenIsKind

-----------------------------------------------------------------------------
\* A record queued on an empty queue is the next one out, and the last.
LEMMA SoleRecord ==
  ASSUME NEW k \in Kind
  PROVE  Append(<<>>, k) = <<k>> /\ Head(<<k>>) = k /\ Tail(<<k>>) = <<>>
<1>1. Append(<<>>, k) = <<k>>
  OBVIOUS
<1>2. <<k>> \in Seq(Kind) /\ <<k>> # <<>> /\ Len(<<k>>) = 1 /\ Head(<<k>>) = k
  OBVIOUS
<1>3. Tail(<<k>>) \in Seq(Kind) /\ Len(Tail(<<k>>)) = 0
  BY <1>2, HeadTailProperties
<1>4. Tail(<<k>>) = <<>>
  BY <1>3, EmptySeq
<1> QED BY <1>1, <1>2, <1>4

-----------------------------------------------------------------------------
\* What the stack and the server do keeps every variable in its type.
LEMMA TypeInv == TypeOK /\ [Next]_vars => TypeOK'
<1> SUFFICES ASSUME TypeOK, [Next]_vars PROVE TypeOK'
  OBVIOUS
<1> USE DEF TypeOK
<1>1. ASSUME NEW k \in Accesses, Access(k) PROVE TypeOK'
  BY <1>1, AccessesAssumption, Zenon DEF Access
<1>2. ASSUME NEW k \in Accesses, Queue(k) PROVE TypeOK'
  BY <1>2, AccessesAssumption, QueueSizeAssumption DEF Queue
<1>3. ASSUME NEW k \in Accesses, Drop(k) PROVE TypeOK'
  BY <1>3 DEF Drop
<1>4. CASE CheckEvent
  BY <1>4 DEF CheckEvent
<1>5. CASE GetParamInfo
  BY <1>5, QueueSizeAssumption DEF GetParamInfo
<1>6. CASE GetTimeout
  BY <1>6 DEF GetTimeout
<1>7. CASE Log
  <2>1. Chosen(event) \in Kind
    BY <1>7, ChosenIsKind DEF Log
  <2> QED BY <1>7, <2>1 DEF Log
<1>8. CASE Delay
  BY <1>8 DEF Delay
<1>9. CASE Restart
  <2>1. (paced \in BOOLEAN /\ dropped \in BOOLEAN)'
    BY <1>9, Zenon DEF Restart
  <2>2. (size \in QueueSizes /\ queue \in Seq(Kind) /\ Len(queue) <= size)'
    BY <1>9, QueueSizeAssumption DEF Restart
  <2> QED BY <1>9, <2>1, <2>2 DEF Restart
<1>10. CASE UNCHANGED vars
  BY <1>10 DEF vars
<1> QED
  BY <1>1, <1>2, <1>3, <1>4, <1>5, <1>6, <1>7, <1>8, <1>9, <1>10
     DEF Next, Stack, ModbusServer

\* The reset state has the right types.
LEMMA TypeInit == Init => TypeOK
<1> SUFFICES ASSUME Init PROVE TypeOK
  OBVIOUS
<1>1. paced \in BOOLEAN /\ dropped \in BOOLEAN
  BY Zenon DEF Init
<1>2. size \in QueueSizes /\ queue \in Seq(Kind) /\ Len(queue) <= size
  BY QueueSizeAssumption DEF Init
<1> QED BY <1>1, <1>2 DEF Init, TypeOK

\* Every variable keeps its type (TypeOK of run access_events).
THEOREM AccessTypeCorrect == Spec => []TypeOK
  BY TypeInit, TypeInv, PTL DEF Spec

-----------------------------------------------------------------------------
(* A record for every claim *)

\* The count survives every step: a full queue of two or more, which alone
\* loses a record, holds one for each of the two claims there can be.
LEMMA CountStep ==
  ASSUME size >= 2 \/ ~dropped', CountInv, [Next]_vars
  PROVE  RecordsCoverClaims'
<1> USE DEF CountInv, RecordsCoverClaims, Flag
<1>1. Len(queue) \in Nat /\ queue \in Seq(Kind)
  BY DEF TypeOK
<1>2. ASSUME NEW k \in Accesses, Access(k) PROVE RecordsCoverClaims'
  <2>1. pending = {} /\ pending' # {}
    BY <1>2 DEF Access
  <2>2. Flag(server = "get") <= Len(queue)
    BY <1>1, <2>1
  <2>3. Flag(server' = "get") <= Len(queue') /\ Len(queue') \in Nat
    BY <1>1, <1>2, <2>2 DEF Access
  <2> QED BY <2>1, <2>3
<1>3. ASSUME NEW k \in Accesses, Queue(k) PROVE RecordsCoverClaims'
  <2>1. Len(queue') = Len(queue) + 1
    BY <1>1, <1>3, AccessesAssumption DEF Queue
  <2> QED BY <1>1, <1>3, <2>1 DEF Queue
<1>4. ASSUME NEW k \in Accesses, Drop(k) PROVE RecordsCoverClaims'
  BY <1>1, <1>4, QueueSizeAssumption DEF Drop
<1>5. CASE CheckEvent
  BY <1>1, <1>5 DEF CheckEvent
<1>6. CASE GetParamInfo
  <2>1. Len(queue') = Len(queue) - 1
    BY <1>1, <1>6 DEF GetParamInfo
  <2> QED BY <1>1, <1>6, <2>1 DEF GetParamInfo
<1>7. CASE GetTimeout
  BY <1>1, <1>7 DEF GetTimeout
<1>8. CASE Log
  BY <1>1, <1>8 DEF Log
<1>9. CASE Delay
  BY <1>1, <1>9 DEF Delay
<1>10. CASE Restart
  BY <1>10 DEF Restart
<1>11. CASE UNCHANGED vars
  BY <1>11 DEF vars
<1> QED
  BY <1>2, <1>3, <1>4, <1>5, <1>6, <1>7, <1>8, <1>9, <1>10, <1>11
     DEF Next, Stack, ModbusServer

\* The queue is as long as it was built.
LEMMA SizeIsFixed == [Next]_vars => size' = size
  BY DEF Next, vars, Stack, Access, Queue, Drop, ModbusServer, CheckEvent,
     GetParamInfo, GetTimeout, Log, Delay, Restart

\* A covered claim is never timed out.
LEMMA NoAbortStep ==
  ASSUME CountInv, Unaborted, [Next]_vars
  PROVE  Unaborted'
<1>1. ~GetTimeout
  BY DEF CountInv, TypeOK, RecordsCoverClaims, Flag, GetTimeout
<1> QED
  BY <1>1 DEF Unaborted, Next, vars, Stack, Access, Queue, Drop, ModbusServer,
     CheckEvent, GetParamInfo, Log, Delay, Restart

\* modbus_server's ESP_ERROR_CHECK on mbc_slave_get_param_info never fires,
\* whatever the clients do, if the queue holds at least two records.
THEOREM ServerNeverAborts == Spec => []NoAbort
<1> DEFINE I == TypeOK /\ (size >= 2 => RecordsCoverClaims) /\ NoAbort
<1>1. Init => I
  BY TypeInit DEF Init, RecordsCoverClaims, Flag, NoAbort
<1>2. I /\ [Next]_vars => I'
  <2> SUFFICES ASSUME I, [Next]_vars, size' >= 2
               PROVE  RecordsCoverClaims' /\ Unaborted'
    BY TypeInv DEF NoAbort, Unaborted
  <2>1. size >= 2
    BY SizeIsFixed
  <2> QED BY <2>1, CountStep, NoAbortStep DEF CountInv, NoAbort, Unaborted
<1>3. I => NoAbort
  OBVIOUS
<1> QED BY <1>1, <1>2, <1>3, PTL DEF Spec

\* A queue of any length: modbus_server only aborts after the queue was full
\* for some record.
THEOREM AbortsNeedDrops == Spec => []AbortNeedsDrop
<1> DEFINE I == TypeOK /\ (~dropped => RecordsCoverClaims) /\ AbortNeedsDrop
<1>1. Init => I
  BY TypeInit DEF Init, RecordsCoverClaims, Flag, AbortNeedsDrop
<1>2. I /\ [Next]_vars => I'
  <2> SUFFICES ASSUME I, [Next]_vars, ~dropped'
               PROVE  RecordsCoverClaims' /\ Unaborted'
    BY TypeInv DEF AbortNeedsDrop, Unaborted
  <2>1. CASE Restart
    BY <2>1 DEF Restart, RecordsCoverClaims, Flag, Unaborted
  <2>2. CASE ~Restart
    <3>1. ~dropped
      BY <2>2 DEF Next, vars, Stack, Access, Queue, Drop, ModbusServer,
         CheckEvent, GetParamInfo, GetTimeout, Log, Delay
    <3> QED
      BY <3>1, CountStep, NoAbortStep DEF CountInv, AbortNeedsDrop, Unaborted
  <2> QED BY <2>1, <2>2
<1>3. I => AbortNeedsDrop
  OBVIOUS
<1> QED BY <1>1, <1>2, <1>3, PTL DEF Spec

-----------------------------------------------------------------------------
(* Lines of a paced client *)

\* Lines appear in the step into the delay and disappear in the one out of it.
LEMMA LineStep ==
  ASSUME LineOnlyInDelay, [Next]_vars
  PROVE  LineOnlyInDelay'
<1>1. CASE Stack
  BY <1>1 DEF LineOnlyInDelay, Stack, Access, Queue, Drop
<1>2. CASE ModbusServer
  BY <1>2 DEF LineOnlyInDelay, ModbusServer, CheckEvent, GetParamInfo,
     GetTimeout, Log, Delay
<1>3. CASE Restart
  BY <1>3 DEF LineOnlyInDelay, Restart
<1>4. CASE UNCHANGED vars
  BY <1>4 DEF LineOnlyInDelay, vars
<1> QED BY <1>1, <1>2, <1>3, <1>4 DEF Next

\* A paced access moves from bit and record to the log without company.
LEMMA OneAtATimeStep ==
  ASSUME PacedInv, [Next]_vars
  PROVE  OneAtATime'
<1> SUFFICES ASSUME paced' PROVE OneAtATime'
  BY DEF OneAtATime
<1> USE DEF PacedInv, OneAtATime
<1>1. ASSUME NEW k \in Accesses, Access(k) PROVE OneAtATime'
  <2>1. server = "check" /\ Nothing /\ k \in Kind \ {"HOLDING WRITE"}
    BY <1>1, AccessesAssumption DEF Access, Nothing, Carrying
  <2> QED BY <1>1, <2>1 DEF Access, Nothing, Carrying
<1>2. ASSUME NEW k \in Accesses, Queue(k) PROVE OneAtATime'
  <2>1. pending = {k} /\ ~Nothing /\ paced /\ UNCHANGED <<bits, server, event>>
    BY <1>2 DEF Queue, Nothing
  <2>2. PICK l \in Kind \ {"HOLDING WRITE"} :
          /\ Carrying(l)
          /\ \/ server = "check" /\ bits = {l}
             \/ server = "get" /\ event = {l} /\ bits = {}
    BY <2>1
  <2>3. l = k /\ queue = <<>>
    BY <2>1, <2>2 DEF Carrying
  <2>4. pending' = {} /\ queue' = <<l>>
    BY <1>2, <2>3, SoleRecord DEF Queue
  <2> QED BY <2>1, <2>2, <2>4 DEF Carrying
<1>3. ASSUME NEW k \in Accesses, Drop(k) PROVE OneAtATime'
  <2>1. Len(queue) # 0
    BY <1>3, QueueSizeAssumption DEF Drop, TypeOK
  <2>2. paced /\ pending = {k}
    BY <1>3 DEF Drop
  <2>3. queue = <<>>
    BY <2>2 DEF Nothing, Carrying
  <2> QED BY <2>1, <2>3
<1>4. CASE CheckEvent
  <2>1. PICK k \in Kind \ {"HOLDING WRITE"} : bits = {k} /\ Carrying(k)
    BY <1>4 DEF CheckEvent, Nothing
  <2>2. Chosen(bits) = k
    BY <2>1, ChosenOfOne
  <2> QED BY <1>4, <2>1, <2>2 DEF CheckEvent, Dequeues, Carrying
<1>5. CASE GetParamInfo
  <2>1. PICK k \in Kind \ {"HOLDING WRITE"} :
          event = {k} /\ bits = {} /\ Carrying(k)
    BY <1>5 DEF GetParamInfo, Nothing
  <2>2. queue = <<k>> /\ pending = {}
    BY <1>5, <2>1 DEF GetParamInfo, Carrying
  <2>3. reg_info' = k /\ queue' = <<>>
    BY <1>5, <2>2, SoleRecord DEF GetParamInfo
  <2> QED BY <1>5, <2>1, <2>2, <2>3 DEF GetParamInfo, Nothing
<1>6. CASE GetTimeout
  BY <1>6 DEF GetTimeout, Nothing, Carrying
<1>7. CASE Log
  <2>1. PICK k \in Kind \ {"HOLDING WRITE"} :
          event = {k} /\ reg_info = k /\ Nothing
    BY <1>7 DEF Log
  <2>2. Chosen(event) = k
    BY <2>1, ChosenOfOne
  <2> QED BY <1>7, <2>1, <2>2 DEF Log, Nothing
<1>8. CASE Delay
  BY <1>8 DEF Delay, Nothing
<1>9. CASE Restart
  BY <1>9 DEF Restart, Nothing
<1>10. CASE UNCHANGED vars
  BY <1>10 DEF vars, Nothing, Carrying
<1> QED
  BY <1>1, <1>2, <1>3, <1>4, <1>5, <1>6, <1>7, <1>8, <1>9, <1>10
     DEF Next, Stack, ModbusServer

\* Every line of modbus_server shows the record of the access its label names,
\* for a client that paces itself and writes no holding register.
THEOREM PacedLinesCorrect == Spec => []PacedLinesMatch
<1>1. Init => PacedInv
  BY TypeInit DEF Init, PacedInv, LineOnlyInDelay, OneAtATime, Nothing
<1>2. PacedInv /\ [Next]_vars => PacedInv'
  BY TypeInv, LineStep, OneAtATimeStep DEF PacedInv
<1>3. PacedInv => PacedLinesMatch
  <2> SUFFICES ASSUME PacedInv, paced, line # <<>> PROVE line[1] = line[2]
    BY DEF PacedLinesMatch
  <2>1. PICK k \in Kind : line = <<k, k>>
    BY DEF PacedInv, LineOnlyInDelay, OneAtATime
  <2> QED BY <2>1
<1> QED BY <1>1, <1>2, <1>3, PTL DEF Spec

-----------------------------------------------------------------------------
(* No access is forgotten *)

\* An access that is still to be logged: its bit is set, or was just taken by a
\* branch that waits for the record.
Claimed == bits # {} \/ server = "get"

\* Steps of modbus_server until a line is logged for it, at most.
Due == [get |-> 1, check |-> 2, delay |-> 3, log |-> 4]

\* The safety half of AccessIsLogged: the bit of an access stays, through the
\* rest of the round the server was in and whatever clients do meanwhile, until
\* the server is about to log something; every step of the server brings that
\* nearer, and no step of the stack puts it off.  With a queue of two or more
\* the server never aborts (NoAbort).
THEOREM AccessNotForgotten ==
  Spec => [][Claimed /\ server # "aborted" =>
               \/ server' \in {"log", "aborted"}
               \/ Claimed' /\ ModbusServer /\ Due[server'] < Due[server]
               \/ Claimed' /\ Stack /\ server' = server]_vars
<1>1. ASSUME TypeOK, Next, Claimed, server # "aborted"
      PROVE  \/ server' \in {"log", "aborted"}
             \/ Claimed' /\ ModbusServer /\ Due[server'] < Due[server]
             \/ Claimed' /\ Stack /\ server' = server
  <2> USE DEF Claimed, Due
  <2>1. CASE Stack
    <3>1. server' = server /\ bits \subseteq bits'
      BY <2>1 DEF Stack, Access, Queue, Drop
    <3> QED BY <1>1, <2>1, <3>1
  <2>2. CASE CheckEvent
    BY <2>2 DEF CheckEvent, ModbusServer
  <2>3. CASE GetParamInfo \/ GetTimeout
    BY <2>3 DEF GetParamInfo, GetTimeout
  <2>4. CASE Log
    BY <1>1, <2>4 DEF Log, ModbusServer
  <2>5. CASE Delay
    BY <1>1, <2>5 DEF Delay, ModbusServer
  <2>6. ~Restart
    BY <1>1 DEF Restart
  <2> QED BY <1>1, <2>1, <2>2, <2>3, <2>4, <2>5, <2>6 DEF Next, ModbusServer
<1>2. TypeOK /\ [Next]_vars =>
        [Claimed /\ server # "aborted" =>
           \/ server' \in {"log", "aborted"}
           \/ Claimed' /\ ModbusServer /\ Due[server'] < Due[server]
           \/ Claimed' /\ Stack /\ server' = server]_vars
  BY <1>1
<1> QED BY <1>2, AccessTypeCorrect, PTL DEF Spec

-----------------------------------------------------------------------------
(* Every access is logged *)

\* When modbus_server and the stack can take a step, by their guards.
CanServe ==
  \/ server = "check" /\ bits # {}
  \/ server = "get" /\ (queue # <<>> \/ pending = {})
  \/ server \in {"log", "delay"}
QueueOrDrop == \E k \in Accesses : Queue(k) \/ Drop(k)

\* The guards are the whole of what the two actions wait for.  TLAPS cannot
\* look into ENABLED.
GuardsSuffice ==
  /\ [](CanServe => ENABLED <<ModbusServer>>_vars)
  /\ [](pending # {} => ENABLED <<QueueOrDrop>>_vars)

\* Where an access may be on its way to the log.
Noted == server = "delay" /\ bits # {}
Seen == server = "check" /\ bits # {}
Starved == server = "get" /\ queue = <<>> /\ pending = {}
Awaited == server = "get" /\ queue = <<>> /\ pending # {}
Supplied == server = "get" /\ queue # <<>>
Done == server \in {"log", "aborted"}

LEMMA WaysToTheLog ==
  ASSUME TypeOK, [Next]_vars
  PROVE  /\ Noted => Noted' \/ Seen'
         /\ Seen => Seen' \/ Starved' \/ Awaited' \/ Supplied' \/ Done'
         /\ Starved => Starved' \/ Awaited' \/ Done'
         /\ Awaited => Awaited' \/ Supplied'
         /\ Supplied => Supplied' \/ Done'
         /\ <<ModbusServer>>_vars =>
              /\ Noted => Seen'
              /\ Seen => Starved' \/ Awaited' \/ Supplied' \/ Done'
              /\ Starved \/ Supplied => Done'
         /\ Awaited /\ <<QueueOrDrop>>_vars => Supplied'
<1> USE DEF Noted, Seen, Starved, Awaited, Supplied, Done
<1>1. queue \in Seq(Kind) /\ size \in Nat \ {0}
  BY QueueSizeAssumption DEF TypeOK
<1>2. ASSUME NEW k \in Accesses, Queue(k)
      PROVE  queue' # <<>> /\ UNCHANGED <<server, bits>> /\ pending # {}
  <2>1. queue' = Append(queue, k) /\ k \in Kind
    BY <1>2, AccessesAssumption DEF Queue
  <2>2. queue' # <<>>
    BY <1>1, <2>1, AppendProperties
  <2> QED BY <1>2, <2>2 DEF Queue
<1>3. ASSUME NEW k \in Accesses, Drop(k)
      PROVE  queue # <<>> /\ UNCHANGED <<server, bits, queue>>
  <2>1. Len(queue) # 0
    BY <1>1, <1>3 DEF Drop
  <2> QED BY <1>3, <2>1, EmptySeq DEF Drop
<1>4. ASSUME NEW k \in Accesses, Access(k)
      PROVE  UNCHANGED <<server, queue>> /\ bits' # {} /\ pending' # {}
  BY <1>4 DEF Access
<1>5. Stack => ~ModbusServer \/ UNCHANGED vars
  BY <1>2, <1>3, <1>4 DEF Stack, ModbusServer, CheckEvent, GetParamInfo,
     GetTimeout, Log, Delay
<1>6. CASE Stack
  BY <1>2, <1>3, <1>4, <1>5, <1>6 DEF Stack, QueueOrDrop
<1>7. ModbusServer => ~QueueOrDrop
  BY DEF ModbusServer, CheckEvent, GetParamInfo, GetTimeout, Log, Delay,
         QueueOrDrop, Queue, Drop
<1>8. CASE CheckEvent
  BY <1>7, <1>8 DEF CheckEvent, ModbusServer
<1>9. CASE GetParamInfo \/ GetTimeout
  BY <1>7, <1>9 DEF GetParamInfo, GetTimeout, ModbusServer
<1>10. CASE Log \/ Delay
  BY <1>7, <1>10 DEF Log, Delay, ModbusServer
<1>11. CASE Restart
  BY <1>11 DEF Restart, QueueOrDrop, Queue, Drop
<1>12. CASE UNCHANGED vars
  BY <1>12 DEF vars
<1> QED
  BY <1>6, <1>8, <1>9, <1>10, <1>11, <1>12 DEF Next, ModbusServer

\* modbus_server logs something after every access, or aborts, for every set of
\* accesses and queue lengths: the fairness of FairSpec takes the access through
\* the rest of the present round, and through a wait for its record.
THEOREM AccessesAreLogged == FairSpec /\ GuardsSuffice => AccessIsLogged
<1> DEFINE Live == FairSpec /\ GuardsSuffice
<1>1. TypeOK /\ [Next]_vars =>
         /\ Noted => Noted' \/ Seen'
         /\ Seen => Seen' \/ Starved' \/ Awaited' \/ Supplied' \/ Done'
         /\ Starved => Starved' \/ Awaited' \/ Done'
         /\ Awaited => Awaited' \/ Supplied'
         /\ Supplied => Supplied' \/ Done'
         /\ <<ModbusServer>>_vars =>
              /\ Noted => Seen'
              /\ Seen => Starved' \/ Awaited' \/ Supplied' \/ Done'
              /\ Starved \/ Supplied => Done'
         /\ Awaited /\ <<QueueOrDrop>>_vars => Supplied'
  BY WaysToTheLog
<1>2. /\ Noted \/ Seen \/ Starved \/ Supplied => CanServe
      /\ Awaited => pending # {}
  BY DEF Noted, Seen, Starved, Supplied, Awaited, CanServe
<1>3. Live => []TypeOK /\ [][Next]_vars
  BY AccessTypeCorrect, PTL DEF FairSpec, Spec
<1>4. Live => WF_vars(ModbusServer) /\ WF_vars(QueueOrDrop)
  BY PTL DEF FairSpec, QueueOrDrop
<1>5. Live => (Supplied ~> Done)
  BY <1>1, <1>2, <1>3, <1>4, PTL DEF GuardsSuffice
<1>6. Live => (Awaited ~> Supplied)
  BY <1>1, <1>2, <1>3, <1>4, PTL DEF GuardsSuffice
<1>7. Live => (Starved ~> Awaited \/ Done)
  BY <1>1, <1>2, <1>3, <1>4, PTL DEF GuardsSuffice
<1>8. Live => (Seen ~> Starved \/ Awaited \/ Supplied \/ Done)
  BY <1>1, <1>2, <1>3, <1>4, PTL DEF GuardsSuffice
<1>9. Live => (Noted ~> Seen)
  BY <1>1, <1>2, <1>3, <1>4, PTL DEF GuardsSuffice
<1>10. TypeOK /\ bits # {}
         => Noted \/ Seen \/ Starved \/ Awaited \/ Supplied \/ Done
  BY DEF TypeOK, Noted, Seen, Starved, Awaited, Supplied, Done
<1> QED
  BY <1>3, <1>5, <1>6, <1>7, <1>8, <1>9, <1>10, PTL DEF AccessIsLogged, Done
=============================================================================
