---------------------------- MODULE AccessEvents ----------------------------
(***************************************************************************)
(* How the RTU reports what Modbus clients do (modbus_server in            *)
(* rtu/main/main.c).  For every access the Modbus stack sets an event bit  *)
(* and then queues a record of the access; the server wakes on any bit,    *)
(* takes all of them, serves the first branch of an else-if chain that     *)
(* matches, dequeues one record (in every branch but HOLDING WRITE), logs  *)
(* it and sleeps a second.  A record that does not come within 10 ms makes *)
(* ESP_ERROR_CHECK abort the chip.                                         *)
(***************************************************************************)
EXTENDS Naturals, Sequences

CONSTANTS
  QueueSizes,  \* the lengths CONFIG_FMB_CONTROLLER_NOTIFY_QUEUE_SIZE may have,
               \* 20 as shipped
  Accesses     \* the kinds of access the clients make

VARIABLES
  size,      \* length of the record queue, fixed when the program is built
  bits,      \* event bits set and not yet taken
  queue,     \* kinds of the accesses whose records wait
  pending,   \* the access whose bit is set and whose record is not yet queued
  server,    \* where modbus_server is
  event,     \* the bits it took
  reg_info,  \* its local record: that of an access, or "garbage" at first
  line,      \* what it logged this round: the branch's label and the record
  paced,     \* history: every access met an idle server and was no HOLDING WRITE
  dropped    \* history: the queue was full for some record

vars == <<size, bits, queue, pending, server, event, reg_info, line, paced,
          dropped>>

\* The branches of the chain, in order.
Branch == <<"HOLDING READ", "HOLDING WRITE", "INPUT READ", "DISCRETE READ",
            "COILS READ", "COILS WRITE">>
Kind == {Branch[i] : i \in DOMAIN Branch}

ASSUME QueueSizeAssumption == QueueSizes \subseteq Nat \ {0}
ASSUME AccessesAssumption == Accesses \subseteq Kind

\* The branch the chain takes for a set of event bits.
Chosen(e) == Branch[CHOOSE i \in DOMAIN Branch :
                      Branch[i] \in e /\ \A j \in 1..(i - 1) : Branch[j] \notin e]

\* Mutant: another branch forgets the call.
DequeuesFewer(k) == k \notin {"HOLDING WRITE", "INPUT READ"}

\* The branches that call mbc_slave_get_param_info.
Dequeues(k) == k # "HOLDING WRITE"

Init ==
  /\ size \in QueueSizes
  /\ bits = {} /\ queue = <<>> /\ pending = {}
  /\ server = "check" /\ event = {}
  /\ reg_info = "garbage" /\ line = <<>>
  /\ paced = TRUE /\ dropped = FALSE

-----------------------------------------------------------------------------
(* The Modbus stack's register callbacks *)

Access(k) ==
  /\ pending = {}
  /\ pending' = {k} /\ bits' = bits \cup {k}
  /\ paced' = (paced /\ server = "check" /\ bits = {} /\ k # "HOLDING WRITE")
  /\ UNCHANGED <<size, queue, server, event, reg_info, line, dropped>>

Queue(k) ==
  /\ pending = {k} /\ Len(queue) < size
  /\ queue' = Append(queue, k) /\ pending' = {}
  /\ UNCHANGED <<size, bits, server, event, reg_info, line, paced, dropped>>

\* The queue stays full for the whole timeout of the send.
Drop(k) ==
  /\ pending = {k} /\ Len(queue) = size
  /\ pending' = {} /\ dropped' = TRUE
  /\ UNCHANGED <<size, bits, queue, server, event, reg_info, line, paced>>

Stack == \E k \in Accesses : Access(k) \/ Queue(k) \/ Drop(k)

-----------------------------------------------------------------------------
(* modbus_server *)

\* Mutants: only the bit served is cleared, or input reads are not logged.
CheckClearsOne ==
  /\ server = "check" /\ bits # {}
  /\ event' = bits /\ bits' = bits \ {Chosen(bits)}
  /\ server' = IF Dequeues(Chosen(bits)) THEN "get" ELSE "log"
  /\ UNCHANGED <<size, queue, pending, reg_info, line, paced, dropped>>

CheckSkipsInputs ==
  /\ server = "check" /\ bits # {}
  /\ event' = bits /\ bits' = {}
  /\ server' = IF Chosen(bits) = "INPUT READ" THEN "delay" ELSE "get"
  /\ UNCHANGED <<size, queue, pending, reg_info, line, paced, dropped>>

\* Mutant: the bits are cleared before they are taken.
CheckAfterClearing ==
  /\ server = "check" /\ bits # {}
  /\ bits' = {} /\ event' = bits'
  /\ server' = IF Dequeues(Chosen(bits)) THEN "get" ELSE "log"
  /\ UNCHANGED <<size, queue, pending, reg_info, line, paced, dropped>>

\* mbc_slave_check_event waits for any bit and clears them all.
CheckEvent ==
  /\ server = "check" /\ bits # {}
  /\ event' = bits /\ bits' = {}
  /\ server' = IF Dequeues(Chosen(bits)) THEN "get" ELSE "log"
  /\ UNCHANGED <<size, queue, pending, reg_info, line, paced, dropped>>

GetParamInfo ==
  /\ server = "get" /\ queue # <<>>
  /\ reg_info' = Head(queue) /\ queue' = Tail(queue)
  /\ server' = "log"
  /\ UNCHANGED <<size, bits, pending, event, line, paced, dropped>>

\* Mutant: a record that is not there yet is not waited for (a timeout of 0
\* for MB_PAR_INFO_GET_TOUT).
GetWithoutWaiting ==
  /\ server = "get" /\ queue = <<>>
  /\ server' = "aborted"
  /\ UNCHANGED <<size, bits, queue, pending, event, reg_info, line, paced,
                 dropped>>

\* The stack's task outranks this one, so the 10 ms pass only if it has no
\* record on its way.
GetTimeout ==
  /\ server = "get" /\ queue = <<>> /\ pending = {}
  /\ server' = "aborted"
  /\ UNCHANGED <<size, bits, queue, pending, event, reg_info, line, paced,
                 dropped>>

Log ==
  /\ server = "log"
  /\ line' = <<Chosen(event), reg_info>>
  /\ server' = "delay"
  /\ UNCHANGED <<size, bits, queue, pending, event, reg_info, paced, dropped>>

\* The round ends with vTaskDelay; event is local to it.
Delay ==
  /\ server = "delay" /\ server' = "check"
  /\ event' = {} /\ line' = <<>>
  /\ UNCHANGED <<size, bits, queue, pending, reg_info, paced, dropped>>

ModbusServer == CheckEvent \/ GetParamInfo \/ GetTimeout \/ Log \/ Delay

\* The aborted chip starts over.
Restart ==
  /\ server = "aborted" /\ server' = "check"
  /\ bits' = {} /\ queue' = <<>> /\ pending' = {} /\ event' = {}
  /\ reg_info' = "garbage" /\ line' = <<>>
  /\ paced' = TRUE /\ dropped' = FALSE
  /\ UNCHANGED size

Next == Stack \/ ModbusServer \/ Restart

Spec == Init /\ [][Next]_vars

\* Both tasks get the processor, and a queue send ends in success or timeout.
FairSpec == /\ Spec
            /\ WF_vars(ModbusServer)
            /\ WF_vars(\E k \in Accesses : Queue(k) \/ Drop(k))

-----------------------------------------------------------------------------
TypeOK ==
  /\ size \in QueueSizes
  /\ bits \subseteq Kind /\ event \subseteq Kind
  /\ queue \in Seq(Kind) /\ Len(queue) <= size
  /\ pending \in {{}} \cup {{k} : k \in Kind}
  /\ server \in {"check", "get", "log", "delay", "aborted"}
  /\ server \in {"get", "log"} => event # {}
  /\ reg_info \in Kind \cup {"garbage"}
  /\ line \in {<<>>} \cup (Kind \X (Kind \cup {"garbage"}))
  /\ paced \in BOOLEAN /\ dropped \in BOOLEAN

\* modbus_server never waits in vain for a record: though one wake clears
\* several bits, one branch leaves its record behind and full queues lose
\* some, a record is there or on its way whenever one is asked for, provided
\* the queue has room for two.
NoAbort == size >= 2 => server # "aborted"

\* With a queue of one the server can wait in vain, but only after a record
\* was lost to the full queue.
AbortNeedsDrop == server = "aborted" => dropped

\* A client that waits for the server to be idle before each access, and
\* writes no holding register, reads lines that describe its accesses: the
\* record logged is of the kind the line's label names.
PacedLinesMatch == paced /\ line # <<>> => line[1] = line[2]

\* Every access, even one that arrives while the server is busy, leads to the
\* server logging something after it, unless the chip aborts.
AccessIsLogged == bits # {} ~> server \in {"log", "aborted"}

\* What rtu/README.md says of the log: each line describes the access it
\* reports, so its label and its record are of one kind.
LineDescribesAccess == line # <<>> => line[1] = line[2]
=============================================================================
