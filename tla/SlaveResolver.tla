--------------------------- MODULE SlaveResolver ----------------------------
(***************************************************************************)
(* How the master finds its slaves (master/main/modbus.c and the retry     *)
(* loop of init_services in master/main/services.c).  An mDNS query        *)
(* returns records; master_create_slave_list walks the parameter table,    *)
(* registers each new slave address in a list that outlives the query and  *)
(* writes IP addresses into a NULL-terminated table that the Modbus stack  *)
(* later connects to, slot s serving slave address s + 1.                  *)
(***************************************************************************)
EXTENDS Integers, Sequences

CONSTANTS
  SlaveAddr,  \* the slave address of each row of device_parameters
  Answers,    \* the sequences of mDNS records a query may return
  TableSize,  \* ip_table_sz, 4
  Tries       \* queries init_services makes at most, 10

NumParams == Len(SlaveAddr)
Addresses == {SlaveAddr[p] : p \in 1..NumParams}

\* An mDNS record: whose instance name it has, whether protocol and port are
\* the ones the master looks for, and whether it carries an address of the
\* right type.
Record == [slave : Nat \ {0}, protocol : BOOLEAN, port : BOOLEAN,
           address : BOOLEAN]

ASSUME ParamAssumption == SlaveAddr \in Seq(1..255) /\ SlaveAddr # <<>>
ASSUME AnswerAssumption == Answers \subseteq Seq(Record)
ASSUME SizeAssumption == TableSize \in Nat \ {0} /\ Tries \in Nat \ {0}

NULL == [slave |-> 0]
NoMem == 257  \* ESP_ERR_NO_MEM, which the callers take for a count

VARIABLES
  step,     \* where init_services is
  retry,    \* its loop variable
  res,      \* what the last query returned
  results,  \* the records of the query being walked
  row,      \* row of the parameter table, from 1
  count,    \* cid_resolve_cnt
  index,    \* ip_index, from 0
  list,     \* slave_addr_list: the record each known slave was resolved by
  table,    \* slave_ip_address_table, and the word of memory after it
  peers     \* the addresses the started Modbus stack connects to

loop == <<retry, res>>
walk == <<results, row, count, index>>
vars == <<step, loop, walk, list, table, peers>>

Known == {list[i].slave : i \in DOMAIN list}
Entry(a) == list[CHOOSE i \in DOMAIN list : list[i].slave = a]

\* Mutant: the port of a record is not compared.
MatchesAnyPort(r, a) == r.protocol /\ r.slave = a /\ r.address

\* What master_resolve_slave and master_get_slave_ip_str ask of a record.
Matches(r, a) == r.protocol /\ r.slave = a /\ r.port /\ r.address

Resolvable(a) == \E i \in DOMAIN results : Matches(results[i], a)

\* The record they settle for: the first that matches.
ResolvesTo(a, e) ==
  \E i \in DOMAIN results :
    /\ e = results[i] /\ Matches(e, a)
    /\ \A j \in 1..(i - 1) : ~Matches(results[j], a)

Init ==
  /\ step = "query" /\ retry = 0 /\ res = 0
  /\ results = <<>> /\ row = 1 /\ count = 0 /\ index = 0
  /\ list = <<>> /\ table = [s \in 0..TableSize |-> NULL] /\ peers = <<>>

-----------------------------------------------------------------------------
(* init_services and master_query_slave_service *)

Again == step = "query" /\ res < NumParams /\ retry < Tries

\* Mutant: a failed query returns -1.
QueryFailsMinusOne ==
  /\ Again
  /\ res' = -1 /\ retry' = retry + 1
  /\ UNCHANGED <<step, walk, list, table, peers>>

\* The query fails or returns nothing: a count of zero.
QueryFails ==
  /\ Again
  /\ res' = 0 /\ retry' = retry + 1
  /\ UNCHANGED <<step, walk, list, table, peers>>

QueryAnswers(answer) ==
  /\ Again
  /\ step' = "walk" /\ results' = answer
  /\ row' = 1 /\ count' = 0 /\ index' = 0
  /\ UNCHANGED <<loop, list, table, peers>>

\* Mutant: only queries that fail altogether count as tries.
ReturnForFree(n) ==
  /\ step' = "query" /\ res' = n /\ UNCHANGED retry
  /\ results' = <<>> /\ row' = 1 /\ count' = 0 /\ index' = 0

\* Back in the retry loop; the walk's locals are gone.
Return(n) ==
  /\ step' = "query" /\ res' = n /\ retry' = retry + 1
  /\ results' = <<>> /\ row' = 1 /\ count' = 0 /\ index' = 0

Resolved ==
  /\ step = "query" /\ ~Again
  /\ step' = IF res < NumParams THEN "failed" ELSE "done"
  /\ UNCHANGED <<loop, walk, list, table, peers>>

-----------------------------------------------------------------------------
(* master_create_slave_list, one row of the parameter table at a time *)

Walking == step = "walk" /\ row <= NumParams

\* Mutant: the slot is advanced for slaves already registered too.
AlreadyKnownAdvances ==
  /\ Walking /\ SlaveAddr[row] \in Known
  /\ table' = [table EXCEPT ![index] = Entry(SlaveAddr[row])]
  /\ count' = count + 1 /\ row' = row + 1
  /\ index' = IF index < TableSize THEN index + 1 ELSE index
  /\ UNCHANGED <<step, loop, results, list, peers>>

AlreadyKnown ==
  /\ Walking /\ SlaveAddr[row] \in Known
  /\ table' = [table EXCEPT ![index] = Entry(SlaveAddr[row])]
  /\ count' = count + 1 /\ row' = row + 1
  /\ UNCHANGED <<step, loop, results, index, list, peers>>

\* Mutant: unresolved rows are counted as resolved.
UnresolvedCounts ==
  /\ Walking /\ SlaveAddr[row] \notin Known
  /\ ~Resolvable(SlaveAddr[row])
  /\ table' = [table EXCEPT ![index] = NULL]
  /\ count' = count + 1 /\ row' = row + 1
  /\ UNCHANGED <<step, loop, results, index, list, peers>>

Unresolved ==
  /\ Walking /\ SlaveAddr[row] \notin Known
  /\ ~Resolvable(SlaveAddr[row])
  /\ table' = [table EXCEPT ![index] = NULL]
  /\ row' = row + 1
  /\ UNCHANGED <<step, loop, results, count, index, list, peers>>

Register ==
  /\ Walking /\ SlaveAddr[row] \notin Known
  /\ \E e \in {results[i] : i \in DOMAIN results} :
       /\ ResolvesTo(SlaveAddr[row], e)
       /\ list' = <<e>> \o list /\ table' = [table EXCEPT ![index] = e]
  /\ count' = count + 1 /\ row' = row + 1
  /\ index' = IF index < TableSize THEN index + 1 ELSE index
  /\ UNCHANGED <<step, loop, results, peers>>

\* No memory for the list entry: the error code is returned as the count.
OutOfMemory ==
  /\ Walking /\ SlaveAddr[row] \notin Known
  /\ Resolvable(SlaveAddr[row])
  /\ Return(NoMem)
  /\ UNCHANGED <<list, table, peers>>

EndOfWalk ==
  /\ step = "walk" /\ row > NumParams
  /\ Return(count)
  /\ UNCHANGED <<list, table, peers>>

-----------------------------------------------------------------------------
\* The Modbus stack connects to the table's addresses up to the first NULL.
MasterStart ==
  /\ step = "done" /\ step' = "polling"
  /\ \E end \in 0..TableSize :
       /\ table[end] = NULL /\ \A s \in 0..(end - 1) : table[s] # NULL
       /\ peers' = [i \in 1..end |-> table[i - 1]]
  /\ UNCHANGED <<loop, walk, list, table>>

\* ESP_ERROR_CHECK aborts app_main, after init_services or master_init, or the
\* chip is reset while it polls.
Restart ==
  /\ step \in {"failed", "done", "polling"} /\ step' = "query"
  /\ retry' = 0 /\ res' = 0
  /\ results' = <<>> /\ row' = 1 /\ count' = 0 /\ index' = 0
  /\ list' = <<>> /\ table' = [s \in 0..TableSize |-> NULL] /\ peers' = <<>>

Walk == AlreadyKnown \/ Unresolved \/ Register \/ OutOfMemory \/ EndOfWalk
InitServices == QueryFails \/ (\E a \in Answers : QueryAnswers(a)) \/ Walk
                  \/ Resolved

Next == InitServices \/ MasterStart \/ Restart

Spec == Init /\ [][Next]_vars

\* app_main runs, and mdns_query_ptr returns within its 3 s timeout.
FairSpec == Spec /\ WF_vars(InitServices)

-----------------------------------------------------------------------------
TypeOK ==
  /\ step \in {"query", "walk", "failed", "done", "polling"}
  /\ retry \in 0..Tries /\ res \in 0..NumParams \cup {NoMem}
  /\ results \in Answers \cup {<<>>}
  /\ row \in 1..(NumParams + 1) /\ count \in 0..NumParams
  /\ index \in 0..TableSize
  /\ list \in Seq(Record)
  /\ table \in [0..TableSize -> Record \cup {NULL}]
  /\ peers \in Seq(Record) /\ Len(peers) <= TableSize

\* The walk, run again after a partial result, never writes the word after
\* the table, so the stack always finds the NULL that ends it.
TableStaysInBounds == table[TableSize] = NULL

\* The stack only connects to addresses advertised for the right service.
PeersAreEligible ==
  \A i \in DOMAIN peers :
    peers[i].protocol /\ peers[i].port /\ peers[i].address

\* Whatever sequence of failed and partial queries came before, a start that
\* succeeds has every slave in the slot the stack looks for it, unless the
\* entry could not be allocated.
SlavesInTheirSlots ==
  step = "polling" /\ res # NoMem =>
    \A a \in Addresses : a <= Len(peers) /\ peers[a].slave = a

\* The start-up comes to an end: init_services succeeds or gives up.
ServicesSettle == step = "query" ~> step \in {"done", "failed"}

\* What init_services says when it gives up ("Could not resolve one or more
\* slave IP addresses"), turned round: a start that succeeds resolved them.
StartMeansResolved == step = "done" => Addresses \subseteq Known
=============================================================================
