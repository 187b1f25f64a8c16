------------------------ MODULE SlaveResolverProofs -------------------------
(***************************************************************************)
(* Invariance proofs about SlaveResolver, for every parameter table, every *)
(* set of answers and every number of tries.                               *)
(***************************************************************************)
EXTENDS SlaveResolver, SequenceTheorems, FiniteSetTheorems,
        WellFoundedInduction, TLAPS

\* The walk is inside the retry loop, and counts at most one per row.
WalkInLoop ==
  /\ step = "walk" => retry < Tries /\ res < NumParams
  /\ count <= row - 1

\* Only slaves of the parameter table are registered, by eligible records.
Eligible(e) == e.protocol /\ e.port /\ e.address
ListFromTable ==
  \A i \in DOMAIN list : list[i].slave \in Addresses /\ Eligible(list[i])

\* Slots too hold eligible records.
TableEligible == \A s \in 0..TableSize : table[s] = NULL \/ Eligible(table[s])

\* A slot is only left behind for a slave registered in this very walk.
IndexCounted == index <= Cardinality(Known)

ResolveInv ==
  /\ TypeOK /\ WalkInLoop /\ ListFromTable /\ TableEligible /\ PeersAreEligible
BoundInv == IndexCounted /\ TableStaysInBounds

-----------------------------------------------------------------------------
(* Facts about the operators *)

LEMMA Table ==
  /\ NumParams \in Nat \ {0}
  /\ \A p \in 1..NumParams : SlaveAddr[p] \in 1..255 /\ SlaveAddr[p] \in Addresses
  /\ Addresses \subseteq 1..255
<1>1. /\ Len(SlaveAddr) \in Nat /\ DOMAIN SlaveAddr = 1..Len(SlaveAddr)
      /\ Len(SlaveAddr) # 0
  BY ParamAssumption, LenProperties, EmptySeq
<1>2. \A p \in 1..Len(SlaveAddr) : SlaveAddr[p] \in 1..255
  BY ParamAssumption, ElementOfSeq
<1>3. NumParams \in Nat \ {0} /\ NumParams = Len(SlaveAddr)
  BY <1>1 DEF NumParams
<1>4. /\ \A p \in 1..NumParams : SlaveAddr[p] \in Addresses
      /\ \A a \in Addresses : \E p \in 1..NumParams : a = SlaveAddr[p]
  BY DEF Addresses
<1>5. \A p \in 1..NumParams : SlaveAddr[p] \in 1..255
  BY <1>2, <1>3
<1>6. Addresses \subseteq 1..255
  BY <1>4, <1>5
<1> QED BY <1>3, <1>4, <1>5, <1>6

\* A function on 1..n is a sequence of length n.
LEMMA FunctionIsSequence ==
  ASSUME NEW S, NEW n \in Nat, NEW f \in [1..n -> S]
  PROVE  f \in Seq(S) /\ Len(f) = n
<1>1. f \in Seq(S)
  BY SeqDef
<1> QED BY <1>1, LenProperties

LEMMA AddressesFinite ==
  IsFiniteSet(Addresses) /\ Cardinality(Addresses) \in Nat
<1>1. IsFiniteSet(1..255)
  <2>1. 1 \in Int /\ 255 \in Int
    OBVIOUS
  <2> QED BY ONLY <2>1, FS_Interval, Zenon
<1>2. IsFiniteSet(Addresses)
  BY <1>1, Table, FS_Subset
<1> QED BY <1>2, FS_CardinalityType

\* A record put in front of the list adds its slave to the known ones.
LEMMA InsertHead ==
  ASSUME NEW l \in Seq(Record), NEW e \in Record
  PROVE  /\ <<e>> \o l \in Seq(Record)
         /\ DOMAIN (<<e>> \o l) = 1..(Len(l) + 1)
         /\ \A i \in DOMAIN (<<e>> \o l) :
              (<<e>> \o l)[i] = IF i = 1 THEN e ELSE l[i - 1]
         /\ \A i \in DOMAIN l : i + 1 \in DOMAIN (<<e>> \o l)
<1>1. <<e>> \in Seq(Record) /\ Len(<<e>>) = 1 /\ <<e>>[1] = e
  OBVIOUS
<1>2. /\ <<e>> \o l \in Seq(Record)
      /\ Len(<<e>> \o l) = 1 + Len(l)
      /\ \A i \in 1..(1 + Len(l)) :
           (<<e>> \o l)[i] = IF i <= 1 THEN <<e>>[i] ELSE l[i - 1]
  BY <1>1, ConcatProperties
<1>3. Len(l) \in Nat /\ DOMAIN l = 1..Len(l)
  BY LenProperties
<1>4. DOMAIN (<<e>> \o l) = 1..(Len(l) + 1)
  BY <1>2, <1>3, LenProperties
<1> QED BY <1>1, <1>2, <1>3, <1>4

\* The list's record of a known slave.
LEMMA EntryIsListed ==
  ASSUME list \in Seq(Record), NEW a \in Known
  PROVE  \E i \in DOMAIN list : Entry(a) = list[i] /\ list[i].slave = a
  BY DEF Entry, Known

\* What an answer can resolve a slave to.
LEMMA ResolvedRecord ==
  ASSUME results \in Answers \cup {<<>>}, NEW a,
         NEW e \in {results[i] : i \in DOMAIN results}, ResolvesTo(a, e)
  PROVE  e \in Record /\ e.slave = a /\ Eligible(e)
<1>1. results \in Seq(Record)
  BY AnswerAssumption, EmptySeq
<1> QED BY <1>1, LenProperties, ElementOfSeq DEF ResolvesTo, Matches, Eligible

-----------------------------------------------------------------------------
\* The initial state; a restart reaches it again.
LEMMA ResolveInit == (Init => ResolveInv) /\ (Restart => ResolveInv')
<1>1. <<>> \in Seq(Record) /\ Len(<<>>) = 0 /\ DOMAIN <<>> = {}
  BY EmptySeq, LenProperties
<1>2. ASSUME Init PROVE ResolveInv
  BY <1>1, <1>2, Table, SizeAssumption
     DEF Init, ResolveInv, TypeOK, WalkInLoop, ListFromTable, TableEligible,
         PeersAreEligible
<1>3. ASSUME Restart PROVE ResolveInv'
  BY <1>1, <1>3, Table, SizeAssumption
     DEF Restart, ResolveInv, TypeOK, WalkInLoop, ListFromTable, TableEligible,
         PeersAreEligible
<1> QED BY <1>2, <1>3

\* Back in the loop, whatever the walk returned.
LEMMA ResolveReturn ==
  ASSUME ResolveInv, step = "walk", NEW n \in 0..NumParams \cup {NoMem},
         Return(n), UNCHANGED <<list, table, peers>>
  PROVE  ResolveInv'
  BY Table, SizeAssumption
     DEF Return, ResolveInv, TypeOK, WalkInLoop, ListFromTable, TableEligible,
         PeersAreEligible

\* Every step.
LEMMA ResolveStep ==
  ASSUME ResolveInv, [Next]_vars
  PROVE  ResolveInv'
<1> USE Table, SizeAssumption
    DEF ResolveInv, TypeOK, WalkInLoop, ListFromTable, TableEligible,
        PeersAreEligible, loop, walk
<1>1. CASE QueryFails
  BY <1>1 DEF QueryFails, Again
<1>2. ASSUME NEW a \in Answers, QueryAnswers(a) PROVE ResolveInv'
  BY <1>2 DEF QueryAnswers, Again
<1>3. CASE Resolved
  BY <1>3 DEF Resolved
<1>4. CASE AlreadyKnown
  <2>1. PICK i \in DOMAIN list : Entry(SlaveAddr[row]) = list[i]
    BY <1>4, EntryIsListed DEF AlreadyKnown
  <2>2. Entry(SlaveAddr[row]) \in Record /\ Eligible(Entry(SlaveAddr[row]))
    BY <2>1, LenProperties, ElementOfSeq
  <2>3. /\ table' \in [0..TableSize -> Record \cup {NULL}]
        /\ \A s \in 0..TableSize : table'[s] = NULL \/ Eligible(table'[s])
    BY <1>4, <2>2 DEF AlreadyKnown
  <2> QED BY <1>4, <2>3 DEF AlreadyKnown, Walking
<1>5. CASE Unresolved
  <2>1. /\ table' \in [0..TableSize -> Record \cup {NULL}]
        /\ \A s \in 0..TableSize : table'[s] = NULL \/ Eligible(table'[s])
    BY <1>5 DEF Unresolved
  <2> QED BY <1>5, <2>1 DEF Unresolved, Walking
<1>6. CASE Register
  <2>1. PICK e \in {results[i] : i \in DOMAIN results} :
          /\ ResolvesTo(SlaveAddr[row], e)
          /\ list' = <<e>> \o list /\ table' = [table EXCEPT ![index] = e]
    BY <1>6 DEF Register
  <2>2. e \in Record /\ e.slave \in Addresses /\ Eligible(e)
    BY <1>6, <2>1, ResolvedRecord DEF Register, Walking
  <2>3. /\ list' \in Seq(Record)
        /\ \A i \in DOMAIN list' :
             list'[i].slave \in Addresses /\ Eligible(list'[i])
    <3>1. DOMAIN list = 1..Len(list) /\ Len(list) \in Nat
      BY LenProperties
    <3> QED BY <2>1, <2>2, <3>1, InsertHead
  <2>4. /\ table' \in [0..TableSize -> Record \cup {NULL}]
        /\ \A s \in 0..TableSize : table'[s] = NULL \/ Eligible(table'[s])
    BY <2>1, <2>2
  <2> QED BY <1>6, <2>3, <2>4 DEF Register, Walking
<1>7. CASE OutOfMemory
  BY <1>7, ResolveReturn DEF OutOfMemory, Walking
<1>8. CASE EndOfWalk
  BY <1>8, ResolveReturn DEF EndOfWalk
<1>9. CASE MasterStart
  <2>1. PICK end \in 0..TableSize :
          /\ \A s \in 0..(end - 1) : table[s] # NULL
          /\ peers' = [i \in 1..end |-> table[i - 1]]
    BY <1>9 DEF MasterStart
  <2>2. \A i \in 1..end : i - 1 \in 0..TableSize /\ i - 1 \in 0..(end - 1)
    OBVIOUS
  <2>3. \A i \in 1..end : table[i - 1] \in Record /\ Eligible(table[i - 1])
    BY <2>1, <2>2
  <2>4. peers' \in [1..end -> Record]
    BY <2>1, <2>3
  <2>5. peers' \in Seq(Record) /\ Len(peers') = end /\ DOMAIN peers' = 1..end
    <3>1. end \in Nat
      BY <2>1
    <3> QED BY ONLY <2>4, <3>1, FunctionIsSequence
  <2>6. \A i \in DOMAIN peers' : Eligible(peers'[i])
    BY <2>1, <2>3, <2>5
  <2> QED BY <1>9, <2>5, <2>6 DEF MasterStart, Eligible
<1>10. CASE Restart
  BY <1>10, ResolveInit
<1>11. CASE UNCHANGED vars
  BY <1>11 DEF vars
<1> QED
  BY <1>1, <1>2, <1>3, <1>4, <1>5, <1>6, <1>7, <1>8, <1>9, <1>10, <1>11
     DEF Next, InitServices, Walk

\* Types, eligibility and the bookkeeping of the walk.
THEOREM ResolveInductive == Spec => []ResolveInv
  BY ResolveInit, ResolveStep, PTL DEF Spec

\* All variables keep their types: the loops stay in their bounds, and nothing
\* but records of answers gets into the list and the table.
THEOREM ResolveTypeCorrect == Spec => []TypeOK
<1>1. ResolveInv => TypeOK
  BY DEF ResolveInv
<1> QED BY ResolveInductive, <1>1, PTL

\* The Modbus stack is only ever given addresses that were advertised for the
\* right protocol and port by the slave the table names.
THEOREM PeersCorrect == Spec => []PeersAreEligible
<1>1. ResolveInv => PeersAreEligible
  BY DEF ResolveInv
<1> QED BY ResolveInductive, <1>1, PTL

-----------------------------------------------------------------------------
(* The bounds of the table *)

LEMMA KnownFinite ==
  ASSUME ListFromTable
  PROVE  /\ IsFiniteSet(Known) /\ Known \subseteq Addresses
         /\ Cardinality(Known) \in Nat
         /\ Cardinality(Known) <= Cardinality(Addresses)
<1>1. Known \subseteq Addresses
  BY DEF ListFromTable, Known
<1> QED BY <1>1, AddressesFinite, FS_Subset, FS_CardinalityType

\* A new record makes one more slave known.
LEMMA KnownGrows ==
  ASSUME ResolveInv, NEW e \in Record, e.slave \notin Known,
         list' = <<e>> \o list
  PROVE  Known' = Known \cup {e.slave}
<1>1. list \in Seq(Record) /\ Len(list) \in Nat /\ DOMAIN list = 1..Len(list)
  BY LenProperties DEF ResolveInv, TypeOK
<1>2. /\ DOMAIN list' = 1..(Len(list) + 1)
      /\ \A i \in DOMAIN list' : list'[i] = IF i = 1 THEN e ELSE list[i - 1]
  BY <1>1, InsertHead
<1>3. ASSUME NEW i \in DOMAIN list' PROVE list'[i].slave \in Known \cup {e.slave}
  BY <1>1, <1>2, <1>3 DEF Known
<1>4. e.slave \in Known'
  <2>1. 1 \in DOMAIN list' /\ list'[1] = e
    BY <1>1, <1>2
  <2> QED BY <2>1 DEF Known
<1>5. ASSUME NEW i \in DOMAIN list PROVE list[i].slave \in Known'
  <2>1. i + 1 \in DOMAIN list' /\ list'[i + 1] = list[i]
    BY <1>1, <1>2
  <2> QED BY <2>1 DEF Known
<1> QED BY <1>3, <1>4, <1>5 DEF Known

\* While fewer slaves are known than the table has slots, the slot written
\* is inside the table.
LEMMA BoundStep ==
  ASSUME Cardinality(Addresses) < TableSize, ResolveInv, BoundInv,
         [Next]_vars
  PROVE  BoundInv'
<1> USE SizeAssumption DEF BoundInv, IndexCounted, TableStaysInBounds
<1>1. /\ IsFiniteSet(Known) /\ Cardinality(Known) \in Nat
      /\ Cardinality(Addresses) \in Nat
      /\ Cardinality(Known) <= Cardinality(Addresses)
  BY KnownFinite, AddressesFinite DEF ResolveInv
<1>2. /\ index \in 0..TableSize /\ index < TableSize
      /\ table \in [0..TableSize -> Record \cup {NULL}]
  BY <1>1 DEF ResolveInv, TypeOK
<1>3. ASSUME UNCHANGED list PROVE Known' = Known
  BY <1>3 DEF Known
<1>4. ASSUME UNCHANGED <<list, table>>, index' = index \/ index' = 0
      PROVE  BoundInv'
  BY <1>1, <1>3, <1>4
<1>5. CASE AlreadyKnown \/ Unresolved
  <2>1. UNCHANGED <<list, index>> /\ table'[TableSize] = table[TableSize]
    BY <1>2, <1>5 DEF AlreadyKnown, Unresolved
  <2> QED BY <1>1, <1>3, <2>1
<1>6. CASE Register
  <2>1. PICK e \in {results[i] : i \in DOMAIN results} :
          /\ ResolvesTo(SlaveAddr[row], e)
          /\ list' = <<e>> \o list /\ table' = [table EXCEPT ![index] = e]
    BY <1>6 DEF Register
  <2>2. e \in Record /\ e.slave \notin Known
    BY <1>6, <2>1, ResolvedRecord DEF Register, ResolveInv, TypeOK
  <2>3. Cardinality(Known') = Cardinality(Known) + 1
    <3>1. Known' = Known \cup {e.slave}
      BY <2>1, <2>2, KnownGrows
    <3>2. Cardinality(Known \cup {e.slave}) = Cardinality(Known) + 1
      BY <1>1, <2>2, FS_AddElement
    <3> QED BY <3>1, <3>2
  <2>4. table'[TableSize] = table[TableSize]
    BY <1>2, <2>1
  <2>5. index' = index + 1
    BY <1>2, <1>6 DEF Register
  <2> QED BY <1>1, <1>2, <2>3, <2>4, <2>5
<1>7. CASE Restart
  <2>1. list' = <<>> /\ index' = 0 /\ table'[TableSize] = NULL
    BY <1>7 DEF Restart
  <2>2. Known' = {}
    BY <2>1 DEF Known
  <2> QED BY <2>1, <2>2, FS_EmptySet
<1>8. CASE QueryFails
  BY <1>4, <1>8 DEF QueryFails, walk
<1>9. ASSUME NEW a \in Answers, QueryAnswers(a) PROVE BoundInv'
  BY <1>4, <1>9 DEF QueryAnswers
<1>10. CASE OutOfMemory \/ EndOfWalk
  BY <1>4, <1>10 DEF OutOfMemory, EndOfWalk, Return
<1>11. CASE Resolved \/ MasterStart
  BY <1>4, <1>11 DEF Resolved, MasterStart, walk
<1>12. CASE UNCHANGED vars
  BY <1>4, <1>12 DEF vars, walk
<1> QED
  BY <1>5, <1>6, <1>7, <1>8, <1>9, <1>10, <1>11, <1>12
     DEF Next, InitServices, Walk

\* With fewer slaves in the parameter table than slots, no sequence of
\* retries writes past the table, and its last word stays the NULL that the
\* stack looks for.
THEOREM TableIsBounded ==
  Cardinality(Addresses) < TableSize /\ Spec => []TableStaysInBounds
<1>1. SUFFICES ASSUME Cardinality(Addresses) < TableSize
      PROVE  Spec => []TableStaysInBounds
  OBVIOUS
<1>2. Init => BoundInv
  <2>1. Init => Known = {} /\ index = 0 /\ table[TableSize] = NULL
    BY SizeAssumption DEF Init, Known
  <2> QED BY <2>1, FS_EmptySet
        DEF BoundInv, IndexCounted, TableStaysInBounds
<1>3. ResolveInv /\ BoundInv /\ [Next]_vars => BoundInv'
  BY <1>1, BoundStep
<1>4. BoundInv => TableStaysInBounds
  BY DEF BoundInv
<1> QED BY ResolveInductive, <1>2, <1>3, <1>4, PTL DEF Spec

-----------------------------------------------------------------------------
(* The slot of the only slave *)

Full == res >= NumParams /\ res # NoMem

SlotInv ==
  /\ (Known = {} \/ row = 1) => index = 0
  /\ step = "walk" /\ row > 1 /\ count = row - 1 => table[0].slave = 1
  /\ step # "walk" /\ Full => table[0].slave = 1
  /\ step \in {"done", "polling"} => res >= NumParams
  /\ step = "polling" /\ Full => Len(peers) >= 1 /\ peers[1].slave = 1

LEMMA SlotInit == (Init => SlotInv) /\ (Restart => SlotInv')
  BY Table DEF Init, Restart, SlotInv, Full

LEMMA SlotStep ==
  ASSUME Addresses = {1}, ResolveInv, SlotInv, [Next]_vars
  PROVE  SlotInv'
<1> USE Table, SizeAssumption DEF SlotInv, Full
<1>1. /\ row \in 1..(NumParams + 1) /\ count \in 0..NumParams
      /\ count <= row - 1 /\ index \in 0..TableSize
      /\ res \in 0..NumParams \cup {NoMem} /\ NoMem \in Nat
      /\ table \in [0..TableSize -> Record \cup {NULL}] /\ 0 \in 0..TableSize
  BY DEF ResolveInv, TypeOK, WalkInLoop, NoMem
<1>2. Known \subseteq {1}
  BY KnownFinite DEF ResolveInv
<1>3. Walking => SlaveAddr[row] = 1
  BY <1>1 DEF Walking
<1>4. ASSUME UNCHANGED list PROVE Known' = Known
  BY <1>4 DEF Known
<1>5. CASE QueryFails
  BY <1>1, <1>4, <1>5 DEF QueryFails, Again, walk
<1>6. ASSUME NEW a \in Answers, QueryAnswers(a) PROVE SlotInv'
  BY <1>1, <1>4, <1>6 DEF QueryAnswers, Again, loop
<1>7. CASE AlreadyKnown
  <2>1. Entry(1).slave = 1
    BY <1>3, <1>7, EntryIsListed DEF AlreadyKnown, ResolveInv, TypeOK
  <2>2. table' = [table EXCEPT ![index] = Entry(1)]
    BY <1>3, <1>7 DEF AlreadyKnown
  <2>3. (row > 1 /\ count = row - 1) \/ row = 1 => table'[0].slave = 1
    BY <1>1, <1>7, <2>1, <2>2 DEF AlreadyKnown, Walking
  <2> QED BY <1>1, <1>4, <1>7, <2>3 DEF AlreadyKnown, Walking
<1>8. CASE Unresolved
  BY <1>1, <1>2, <1>3, <1>4, <1>8 DEF Unresolved, Walking
<1>9. CASE Register
  <2>1. PICK e \in {results[i] : i \in DOMAIN results} :
          /\ ResolvesTo(SlaveAddr[row], e)
          /\ list' = <<e>> \o list /\ table' = [table EXCEPT ![index] = e]
    BY <1>9 DEF Register
  <2>2. e \in Record /\ e.slave = 1 /\ 1 \notin Known
    BY <1>3, <1>9, <2>1, ResolvedRecord DEF Register, ResolveInv, TypeOK
  <2>3. index = 0 /\ table'[0].slave = 1
    BY <1>1, <1>2, <2>1, <2>2
  <2>4. Known' = Known \cup {1}
    BY <2>1, <2>2, KnownGrows
  <2> QED BY <1>1, <1>9, <2>3, <2>4 DEF Register, Walking
<1>10. CASE OutOfMemory
  BY <1>1, <1>4, <1>10 DEF OutOfMemory, Return, Walking
<1>11. CASE EndOfWalk
  BY <1>1, <1>4, <1>11 DEF EndOfWalk, Return
<1>12. CASE Resolved
  BY <1>1, <1>4, <1>12 DEF Resolved, Again, loop, walk
<1>13. CASE MasterStart
  <2>1. PICK end \in 0..TableSize :
          /\ table[end] = NULL
          /\ peers' = [i \in 1..end |-> table[i - 1]]
    BY <1>13 DEF MasterStart
  <2>2. ASSUME Full PROVE Len(peers') >= 1 /\ peers'[1].slave = 1
    <3>1. table[0].slave = 1 /\ end \in Nat /\ end >= 1
      BY <1>13, <2>1, <2>2 DEF MasterStart, NULL
    <3>2. Len(peers') = end /\ peers'[1] = table[0]
      BY <2>1, <3>1
    <3> QED BY <3>1, <3>2
  <2> QED BY <1>4, <1>13, <2>2 DEF MasterStart, loop, walk
<1>14. CASE Restart
  BY <1>14, SlotInit
<1>15. CASE UNCHANGED vars
  BY <1>4, <1>15 DEF vars, loop, walk
<1> QED
  BY <1>5, <1>6, <1>7, <1>8, <1>9, <1>10, <1>11, <1>12, <1>13, <1>14, <1>15
     DEF Next, InitServices, Walk

\* With a parameter table that names only slave 1, as the shipped one does, a
\* start that succeeds without running out of memory has it in slot 0,
\* whatever the number of rows, of tries and of partial answers.
THEOREM OnlySlaveInItsSlot ==
  Addresses = {1} /\ Spec => []SlavesInTheirSlots
<1>1. SUFFICES ASSUME Addresses = {1} PROVE Spec => []SlavesInTheirSlots
  OBVIOUS
<1>2. ResolveInv /\ SlotInv /\ [Next]_vars => SlotInv'
  BY <1>1, SlotStep
<1>3. SlotInv => SlavesInTheirSlots
  BY <1>1 DEF SlotInv, Full, SlavesInTheirSlots
<1> QED BY ResolveInductive, SlotInit, <1>2, <1>3, PTL DEF Spec

-----------------------------------------------------------------------------
(* The slots of several slaves *)

\* What an answer has for the parameter table.
ResolvesAll(answer) ==
  \A a \in Addresses : \E i \in DOMAIN answer : Matches(answer[i], a)
ResolvesNone(answer) ==
  \A a \in Addresses : \A i \in DOMAIN answer : ~Matches(answer[i], a)

\* The table's slaves are 1 to n and first come up in that order, ...
InOrder(n) ==
  /\ Addresses = 1..n
  /\ \A p \in 1..NumParams : \A a \in 1..(SlaveAddr[p] - 1) :
       \E q \in 1..(p - 1) : SlaveAddr[q] = a

\* ... and they all answer a query or none of them does.
AllOrNone == \A answer \in Answers : ResolvesAll(answer) \/ ResolvesNone(answer)

\* Slaves 1 to n are in their slots.
Placed(n) == \A s \in 0..(n - 1) : table[s].slave = s + 1

\* A walk over an answer that has them all registers each slave at its first
\* row, in the next slot; a walk over another answer leaves no trace.
AllInv ==
  /\ step = "query" /\ res < NumParams => Known = {}
  /\ step = "walk" => results \in Answers
  /\ step = "walk" /\ ResolvesNone(results) => Known = {} /\ count = 0
  /\ step = "walk" /\ ~ResolvesNone(results) =>
       /\ Known = 1..index /\ Known = {SlaveAddr[p] : p \in 1..(row - 1)}
       /\ Placed(index) /\ count = row - 1
  /\ step \in {"query", "done"} /\ Full =>
       \A a \in Addresses : table[a - 1].slave = a
  /\ step \in {"done", "polling"} => res >= NumParams
  /\ SlavesInTheirSlots

LEMMA AllInit == (Init => AllInv) /\ (Restart => AllInv')
<1>1. Init => AllInv
  BY Table DEF Init, AllInv, Full, Known, SlavesInTheirSlots
<1>2. Restart => AllInv'
  BY Table DEF Restart, AllInv, Full, Known, SlavesInTheirSlots
<1> QED BY <1>1, <1>2

\* The walk of an answer that has them all, at the first row of a slave.
LEMMA AllRegister ==
  ASSUME NEW n \in 1..(TableSize - 1), InOrder(n), AllOrNone, ResolveInv, AllInv,
         Register
  PROVE  AllInv'
<1> USE Table, SizeAssumption
<1>1. /\ row \in 1..NumParams /\ SlaveAddr[row] \in Addresses \ Known
      /\ step = "walk" /\ step' = "walk" /\ results' = results
      /\ row' = row + 1 /\ count' = count + 1
      /\ index' = IF index < TableSize THEN index + 1 ELSE index
      /\ res' = res /\ NumParams \in Nat
  BY DEF Register, Walking, ResolveInv, TypeOK, loop
<1>2. PICK e \in {results[i] : i \in DOMAIN results} :
        /\ ResolvesTo(SlaveAddr[row], e)
        /\ list' = <<e>> \o list /\ table' = [table EXCEPT ![index] = e]
  BY DEF Register
<1>3. e \in Record /\ e.slave = SlaveAddr[row] /\ e.slave \notin Known
  BY <1>1, <1>2, ResolvedRecord DEF ResolveInv, TypeOK
<1>4. ~ResolvesNone(results) /\ results \in Answers
  <2>1. PICK i \in DOMAIN results : Matches(results[i], SlaveAddr[row])
    BY <1>2 DEF ResolvesTo
  <2>2. ~ResolvesNone(results)
    BY <1>1, <2>1 DEF ResolvesNone
  <2> QED BY <1>1, <2>2 DEF AllInv
<1>5. /\ Known = 1..index /\ Known = {SlaveAddr[p] : p \in 1..(row - 1)}
      /\ Placed(index) /\ count = row - 1
  BY <1>1, <1>4 DEF AllInv
<1>6. index \in 0..TableSize /\ table \in [0..TableSize -> Record \cup {NULL}]
  BY DEF ResolveInv, TypeOK
<1>7. SlaveAddr[row] = index + 1 /\ index + 1 \in 1..n
  <2>1. SlaveAddr[row] \in 1..n /\ n \in Nat
    BY <1>1 DEF InOrder
  <2>2. \A a \in 1..(SlaveAddr[row] - 1) : a \in 1..index
    BY <1>1, <1>5 DEF InOrder
  <2>3. SlaveAddr[row] \notin 1..index
    BY <1>1, <1>5
  <2>4. SlaveAddr[row] - 1 <= index
    <3>1. CASE SlaveAddr[row] = 1
      BY <1>6, <3>1
    <3>2. CASE SlaveAddr[row] # 1
      <4>1. SlaveAddr[row] - 1 \in 1..(SlaveAddr[row] - 1)
        BY <2>1, <3>2
      <4>2. SlaveAddr[row] - 1 \in 1..index
        BY <2>2, <4>1
      <4> QED BY <4>2
    <3> QED BY <3>1, <3>2
  <2> QED BY <1>6, <2>1, <2>3, <2>4
<1>8. index' = index + 1 /\ index < TableSize
  BY <1>1, <1>6, <1>7
<1>9. Known' = 1..index'
  <2>1. Known' = Known \cup {index + 1}
    BY <1>2, <1>3, <1>7, KnownGrows
  <2>2. 1..(index + 1) = (1..index) \cup {index + 1}
    BY <1>6
  <2> QED BY <1>5, <1>8, <2>1, <2>2
<1>10. Known' = {SlaveAddr[p] : p \in 1..(row' - 1)}
  <2>1. Known' = Known \cup {SlaveAddr[row]}
    BY <1>2, <1>3, KnownGrows
  <2>2. row' - 1 = row
    BY <1>1
  <2>3. {SlaveAddr[p] : p \in 1..row}
          = {SlaveAddr[p] : p \in 1..(row - 1)} \cup {SlaveAddr[row]}
    <3>1. 1..row = (1..(row - 1)) \cup {row}
      BY <1>1
    <3> QED BY <3>1
  <2> QED BY <1>5, <2>1, <2>2, <2>3
<1>11. Placed(index)' /\ count' = row' - 1
  <2>1. table'[index].slave = index + 1
    BY <1>2, <1>3, <1>6, <1>7
  <2>2. \A s \in 0..(index - 1) : table'[s] = table[s]
    BY <1>2, <1>6
  <2>3. \A s \in 0..(index' - 1) : s = index \/ s \in 0..(index - 1)
    BY <1>6, <1>8
  <2>4. \A s \in 0..(index' - 1) : table'[s].slave = s + 1
    BY <1>5, <2>1, <2>2, <2>3 DEF Placed
  <2>5. Placed(index)'
    BY <2>4 DEF Placed
  <2> QED BY <1>1, <1>5, <2>5
<1>12. ~ResolvesNone(results)' /\ (results \in Answers)'
  BY <1>1, <1>4 DEF ResolvesNone
<1> QED
  BY <1>1, <1>9, <1>10, <1>11, <1>12 DEF AllInv, Full, SlavesInTheirSlots

\* The walk at a row whose slave is registered already.
LEMMA AllKnown ==
  ASSUME NEW n \in 1..(TableSize - 1), InOrder(n), AllOrNone, ResolveInv, AllInv,
         AlreadyKnown
  PROVE  AllInv'
<1> USE Table, SizeAssumption
<1>1. /\ row \in 1..NumParams /\ SlaveAddr[row] \in Known
      /\ step = "walk" /\ step' = "walk" /\ results' = results
      /\ row' = row + 1 /\ count' = count + 1 /\ index' = index
      /\ list' = list /\ NumParams \in Nat
      /\ table' = [table EXCEPT ![index] = Entry(SlaveAddr[row])]
  BY DEF AlreadyKnown, Walking, ResolveInv, TypeOK
<1>2. ~ResolvesNone(results) /\ results \in Answers
  BY <1>1 DEF AllInv
<1>3. /\ Known = 1..index /\ Known = {SlaveAddr[p] : p \in 1..(row - 1)}
      /\ Placed(index) /\ count = row - 1
  BY <1>1, <1>2 DEF AllInv
<1>4. index \in 0..TableSize /\ table \in [0..TableSize -> Record \cup {NULL}]
  BY DEF ResolveInv, TypeOK
<1>5. Known' = Known
  BY <1>1 DEF Known
<1>6. {SlaveAddr[p] : p \in 1..(row' - 1)} = Known
  <2>1. 1..(row' - 1) = (1..(row - 1)) \cup {row}
    BY <1>1
  <2> QED BY <1>1, <1>3, <2>1
<1>7. Placed(index)'
  <2>1. \A s \in 0..(index - 1) : table'[s] = table[s]
    BY <1>1, <1>4
  <2> QED BY <1>1, <1>3, <2>1 DEF Placed
<1>8. ~ResolvesNone(results)' /\ (results \in Answers)' /\ count' = row' - 1
  BY <1>1, <1>2, <1>3 DEF ResolvesNone
<1> QED
  BY <1>1, <1>3, <1>5, <1>6, <1>7, <1>8 DEF AllInv, Full, SlavesInTheirSlots


\* Every step.
LEMMA AllStep ==
  ASSUME NEW n \in 1..(TableSize - 1), InOrder(n), AllOrNone, NumParams <= NoMem,
         ResolveInv, AllInv, [Next]_vars
  PROVE  AllInv'
<1> USE Table, SizeAssumption
<1>1. /\ row \in 1..(NumParams + 1) /\ res \in 0..NumParams \cup {NoMem}
      /\ NoMem \in Nat /\ NumParams \in Nat \ {0} /\ count \in 0..NumParams
      /\ table \in [0..TableSize -> Record \cup {NULL}]
  BY DEF ResolveInv, TypeOK, NoMem
<1>2. ASSUME UNCHANGED list PROVE Known' = Known
  BY <1>2 DEF Known
<1>3. CASE QueryFails
  BY <1>1, <1>2, <1>3
     DEF QueryFails, Again, AllInv, Full, SlavesInTheirSlots, walk
<1>4. ASSUME NEW a \in Answers, QueryAnswers(a) PROVE AllInv'
  <2>1. /\ Known = {} /\ Known' = {} /\ step' = "walk" /\ results' = a
        /\ row' = 1 /\ count' = 0 /\ index' = 0
    BY <1>2, <1>4 DEF QueryAnswers, Again, AllInv
  <2>2. 1..index' = {} /\ {SlaveAddr[p] : p \in 1..(row' - 1)} = {}
    BY <2>1
  <2>3. Placed(index)'
    BY <2>1 DEF Placed
  <2> QED BY <2>1, <2>2, <2>3 DEF AllInv, SlavesInTheirSlots
<1>5. CASE AlreadyKnown
  BY <1>5, AllKnown
<1>6. CASE Register
  BY <1>6, AllRegister
<1>7. CASE Unresolved
  <2>1. /\ step = "walk" /\ step' = "walk" /\ SlaveAddr[row] \in Addresses
        /\ results' = results /\ UNCHANGED <<res, count, index, list>>
    BY <1>1, <1>7 DEF Unresolved, Walking, loop
  <2>2. ~ResolvesAll(results)
    BY <1>7, <2>1 DEF Unresolved, Resolvable, ResolvesAll
  <2>3. results \in Answers /\ ResolvesNone(results)
    BY <2>1, <2>2 DEF AllInv, AllOrNone
  <2>4. ResolvesNone(results)' /\ (results \in Answers)'
    BY <2>1, <2>3 DEF ResolvesNone
  <2>5. Known' = {} /\ count' = 0
    BY <1>2, <2>1, <2>3 DEF AllInv
  <2> QED BY <2>1, <2>4, <2>5 DEF AllInv, SlavesInTheirSlots
<1>8. CASE OutOfMemory
  <2>1. step' = "query" /\ res' = NoMem
    BY <1>8 DEF OutOfMemory, Return
  <2> QED BY <1>1, <2>1 DEF AllInv, Full, SlavesInTheirSlots
<1>9. CASE EndOfWalk
  <2>1. /\ step = "walk" /\ step' = "query" /\ res' = count /\ row = NumParams + 1
        /\ UNCHANGED <<list, table>> /\ results \in Answers
    BY <1>1, <1>9 DEF EndOfWalk, Return, AllInv
  <2>2. CASE ResolvesNone(results)
    <3>1. Known' = {} /\ res' = 0
      BY <1>2, <2>1, <2>2 DEF AllInv
    <3> QED BY <1>1, <2>1, <3>1 DEF AllInv, Full, SlavesInTheirSlots
  <2>3. CASE ~ResolvesNone(results)
    <3>1. /\ Known = 1..index /\ Known = {SlaveAddr[p] : p \in 1..NumParams}
          /\ Placed(index) /\ res' = NumParams
      BY <1>1, <2>1, <2>3 DEF AllInv
    <3>2. \A a \in Addresses : a - 1 \in 0..(index - 1) /\ a = (a - 1) + 1
      <4>1. index \in Int
        BY DEF ResolveInv, TypeOK
      <4>2. Addresses = 1..index
        BY <3>1 DEF Addresses
      <4> QED BY <4>1, <4>2
    <3>3. \A a \in Addresses : table'[a - 1].slave = a
      BY <2>1, <3>1, <3>2 DEF Placed
    <3> QED BY <1>1, <2>1, <3>1, <3>3 DEF AllInv, SlavesInTheirSlots
  <2> QED BY <2>2, <2>3
<1>10. CASE Resolved
  BY <1>1, <1>2, <1>10
     DEF Resolved, Again, AllInv, Full, SlavesInTheirSlots, loop, walk
<1>11. CASE MasterStart
  <2>1. PICK end \in 0..TableSize :
          /\ table[end] = NULL
          /\ peers' = [i \in 1..end |-> table[i - 1]]
    BY <1>11 DEF MasterStart
  <2>2. step = "done" /\ step' = "polling" /\ res' = res /\ res >= NumParams
    BY <1>11 DEF MasterStart, loop, AllInv
  <2>3. ASSUME res # NoMem, NEW a \in Addresses
        PROVE  a <= Len(peers') /\ peers'[a].slave = a
    <3>1. \A b \in Addresses : table[b - 1].slave = b
      BY <2>2, <2>3 DEF AllInv, Full
    <3>2. Addresses = 1..n /\ a \in 1..n /\ n \in Nat
      BY <2>3 DEF InOrder
    <3>3. end + 1 \notin Addresses
      <4>1. table[(end + 1) - 1].slave = 0
        <5>1. (end + 1) - 1 = end
          OBVIOUS
        <5> QED BY <2>1, <5>1 DEF NULL
      <4> QED BY <3>1, <4>1
    <3>4. end >= n
      <4>1. end \in Int /\ end >= 0
        OBVIOUS
      <4> QED BY <3>2, <3>3, <4>1
    <3>5. Len(peers') = end /\ a \in 1..end /\ peers'[a] = table[a - 1]
      BY <2>1, <3>2, <3>4
    <3> QED BY <3>1, <3>5
  <2> QED BY <2>2, <2>3 DEF AllInv, SlavesInTheirSlots
<1>12. CASE Restart
  BY <1>12, AllInit
<1>13. CASE UNCHANGED vars
  BY <1>2, <1>13
     DEF vars, loop, walk, AllInv, Full, SlavesInTheirSlots, ResolvesNone, Placed
<1> QED
  BY <1>3, <1>4, <1>5, <1>6, <1>7, <1>8, <1>9, <1>10, <1>11, <1>12, <1>13
     DEF Next, InitServices, Walk

\* master_create_slave_list puts several slaves in their slots as well, for
\* any table that names them in order and leaves a slot free, as long as they
\* answer a query together or not at all.
THEOREM SlavesFindTheirSlots ==
  ASSUME NEW n \in 1..(TableSize - 1), InOrder(n), AllOrNone, NumParams <= NoMem
  PROVE  Spec => []SlavesInTheirSlots
<1>1. ResolveInv /\ AllInv /\ [Next]_vars => AllInv'
  BY AllStep
<1>2. AllInv => SlavesInTheirSlots
  BY DEF AllInv
<1> QED BY ResolveInductive, AllInit, <1>1, <1>2, PTL DEF Spec


-----------------------------------------------------------------------------
(* Nothing to wait for: what the start-up needs is there, and it runs down *)

\* A set of natural numbers has a least one.
LEMMA LeastNat ==
  ASSUME NEW T, T \subseteq Nat, T # {}
  PROVE  \E x \in T : \A y \in T : x <= y
<1> DEFINE R == {ss \in Nat \X Nat : ss[1] < ss[2]}
<1>1. IsWellFoundedOn(R, Nat)
  BY NatLessThanWellFounded DEF OpToRel
<1>2. \A x, y \in Nat : <<y, x>> \in R <=> y < x
  OBVIOUS
<1> HIDE DEF R
<1>3. PICK x \in T : \A y \in T : ~(<<y, x>> \in R)
  BY ONLY <1>1, T \subseteq Nat, T # {}, WFMin
<1>4. \A y \in T : ~(y < x)
  BY <1>2, <1>3
<1> QED BY <1>4

\* Where the Modbus stack stops reading the table.
EndIsFound ==
  \E end \in 0..TableSize :
    table[end] = NULL /\ \A s \in 0..(end - 1) : table[s] # NULL

\* Whatever the retries left in the table, the stack that reads it up to the
\* first NULL finds one inside it: master_init always has a list to connect to.
THEOREM StackFindsTheEnd ==
  Cardinality(Addresses) < TableSize /\ Spec => []EndIsFound
<1>1. TableStaysInBounds => EndIsFound
  <2> SUFFICES ASSUME TableStaysInBounds PROVE EndIsFound
    OBVIOUS
  <2> DEFINE T == {s \in 0..TableSize : table[s] = NULL}
  <2>1. T \subseteq Nat /\ TableSize \in T
    BY SizeAssumption DEF TableStaysInBounds
  <2>2. PICK end \in T : \A s \in T : end <= s
    <3> HIDE DEF T
    <3> QED BY <2>1, LeastNat
  <2>3. end \in 0..TableSize /\ table[end] = NULL
    OBVIOUS
  <2>4. \A s \in 0..(end - 1) : s \in 0..TableSize /\ ~(end <= s)
    BY <2>3, SizeAssumption
  <2>5. \A s \in 0..(end - 1) : table[s] # NULL
    BY <2>2, <2>4
  <2> QED BY <2>3, <2>5 DEF EndIsFound
<1> QED BY <1>1, TableIsBounded, PTL

\* If some record matches, one is the first that does.
LEMMA FirstMatch ==
  ASSUME results \in Seq(Record), NEW a, Resolvable(a)
  PROVE  \E e \in {results[i] : i \in DOMAIN results} : ResolvesTo(a, e)
<1> DEFINE T == {i \in DOMAIN results : Matches(results[i], a)}
<1>1. DOMAIN results = 1..Len(results) /\ Len(results) \in Nat
  BY LenProperties
<1>2. T \subseteq Nat /\ T # {}
  BY <1>1 DEF Resolvable
<1>3. PICK i \in T : \A j \in T : i <= j
  <2> HIDE DEF T
  <2> QED BY <1>2, LeastNat
<1>4. i \in DOMAIN results /\ Matches(results[i], a)
  OBVIOUS
<1>5. \A j \in 1..(i - 1) : j \in DOMAIN results /\ ~(i <= j)
  BY <1>1, <1>4
<1>6. \A j \in 1..(i - 1) : ~Matches(results[j], a)
  BY <1>3, <1>5
<1>7. ResolvesTo(a, results[i])
  BY <1>4, <1>6 DEF ResolvesTo
<1> QED BY <1>4, <1>7

\* One of the branches of the walk applies to the present row.
RowIsDecided ==
  Walking =>
    \/ SlaveAddr[row] \in Known
    \/ ~Resolvable(SlaveAddr[row])
    \/ \E e \in {results[i] : i \in DOMAIN results} :
         ResolvesTo(SlaveAddr[row], e)

\* Steps that init_services has left at most: a query, its walk and what ends
\* it, for each try.
Round == NumParams + 3
Remaining ==
  CASE step = "query" -> (Tries - retry) * Round + 1
    [] step = "walk" -> (Tries - retry) * Round + 1 - row
    [] OTHER -> 0

LEMMA Rounds ==
  /\ Round \in Nat
  /\ \A k \in Nat : k * Round \in Nat
  /\ \A k \in Nat \ {0} : (k - 1) * Round = k * Round - Round
  /\ \A k \in Nat \ {0} : k * Round >= Round
<1>1. Round \in Nat
  BY Table DEF Round
<1> HIDE DEF Round
<1>2. \A k \in Nat : k * Round \in Nat
  BY <1>1
<1>3. \A k \in Nat \ {0} : (k - 1) * Round = k * Round - Round
  BY <1>1
<1>4. \A k \in Nat \ {0} : k * Round >= Round
  <2>1. \A k \in Nat \ {0} : k - 1 \in Nat /\ (k - 1) * Round >= 0
    BY <1>1, <1>2
  <2> QED BY <1>1, <1>2, <1>3, <2>1
<1> QED BY <1>1, <1>2, <1>3, <1>4

LEMMA RunDownStep ==
  ASSUME ResolveInv, InitServices
  PROVE  Remaining' \in Nat /\ Remaining' < Remaining
<1> DEFINE k == Tries - retry
<1>1. /\ retry \in 0..Tries /\ row \in 1..(NumParams + 1) /\ Tries \in Nat
      /\ NumParams \in Nat /\ Round = NumParams + 3 /\ k \in Nat
      /\ step = "walk" => k \in Nat \ {0}
  BY Table, SizeAssumption DEF ResolveInv, TypeOK, WalkInLoop, Round
<1>2. k * Round \in Nat
  BY <1>1, Rounds
<1>3. ASSUME k \in Nat \ {0}
      PROVE  (k - 1) * Round = k * Round - Round /\ k * Round >= Round
  BY <1>3, Rounds
<1>4. ASSUME Again, step' = "query", retry' = retry + 1
      PROVE  Remaining' \in Nat /\ Remaining' < Remaining
  <2>1. k \in Nat \ {0} /\ Tries - retry' = k - 1 /\ step = "query"
    BY <1>1, <1>4 DEF Again
  <2>2. Remaining' = (k - 1) * Round + 1 /\ Remaining = k * Round + 1
    BY <1>4, <2>1 DEF Remaining, Round
  <2> QED BY <1>1, <1>2, <1>3, <2>1, <2>2
<1>5. ASSUME step = "walk", step' = "query", retry' = retry + 1
      PROVE  Remaining' \in Nat /\ Remaining' < Remaining
  <2>1. k \in Nat \ {0} /\ Tries - retry' = k - 1
    BY <1>1, <1>5
  <2>2. Remaining' = (k - 1) * Round + 1 /\ Remaining = k * Round + 1 - row
    BY <1>5, <2>1 DEF Remaining, Round
  <2> QED BY <1>1, <1>2, <1>3, <2>1, <2>2
<1>6. ASSUME step = "walk", step' = "walk", retry' = retry, row' = row + 1,
             row <= NumParams
      PROVE  Remaining' \in Nat /\ Remaining' < Remaining
  <2>1. Remaining' = k * Round + 1 - (row + 1) /\ Remaining = k * Round + 1 - row
    BY <1>6 DEF Remaining, Round
  <2> QED BY <1>1, <1>2, <1>3, <1>6, <2>1
<1>7. ASSUME NEW a \in Answers, QueryAnswers(a)
      PROVE  Remaining' \in Nat /\ Remaining' < Remaining
  <2>1. Again /\ step' = "walk" /\ retry' = retry /\ row' = 1
    BY <1>7 DEF QueryAnswers, loop
  <2>2. Remaining' = k * Round + 1 - 1 /\ Remaining = k * Round + 1
    BY <2>1 DEF Remaining, Round, Again
  <2> QED BY <1>2, <2>2
<1>8. CASE Resolved
  <2>1. step = "query" /\ step' \in {"failed", "done"}
    BY <1>8 DEF Resolved
  <2>2. Remaining' = 0 /\ Remaining = k * Round + 1
    BY <2>1 DEF Remaining, Round
  <2> QED BY <1>2, <2>2
<1>9. CASE QueryFails
  BY <1>4, <1>9 DEF QueryFails, Again
<1>10. CASE AlreadyKnown \/ Unresolved \/ Register
  BY <1>6, <1>10 DEF AlreadyKnown, Unresolved, Register, Walking, loop
<1>11. CASE OutOfMemory \/ EndOfWalk
  BY <1>5, <1>11 DEF OutOfMemory, EndOfWalk, Walking, Return
<1> QED BY <1>7, <1>8, <1>9, <1>10, <1>11 DEF InitServices, Walk

\* The safety half of ServicesSettle: no row of a walk is left undecided, and
\* every step of init_services brings it nearer to its end, so that it makes
\* at most (NumParams + 3) * Tries + 1 of them, whatever queries return.
THEOREM ServicesRunDown ==
  Spec => /\ []RowIsDecided
          /\ [][InitServices => Remaining' \in Nat /\ Remaining' < Remaining]_vars
<1>1. ResolveInv => RowIsDecided
  <2> SUFFICES ASSUME ResolveInv, Walking, Resolvable(SlaveAddr[row])
               PROVE  \E e \in {results[i] : i \in DOMAIN results} :
                        ResolvesTo(SlaveAddr[row], e)
    BY DEF RowIsDecided
  <2>1. results \in Seq(Record)
    BY AnswerAssumption, EmptySeq DEF ResolveInv, TypeOK
  <2> QED BY <2>1, FirstMatch
<1>2. ResolveInv /\ [Next]_vars
        => [InitServices => Remaining' \in Nat /\ Remaining' < Remaining]_vars
  BY RunDownStep
<1> QED BY ResolveInductive, <1>1, <1>2, PTL DEF Spec

=============================================================================
