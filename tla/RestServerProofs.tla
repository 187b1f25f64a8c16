-------------------------- MODULE RestServerProofs --------------------------
(***************************************************************************)
(* Invariance proofs about RestServer, for every buffer size and every set *)
(* of file and body lengths.                                               *)
(***************************************************************************)
EXTENDS RestServer, SequenceTheorems, TLAPS

\* How far the file handler is: all it read is sent, or in the buffer.
FileProgress ==
  /\ handler \in {"read", "send", "complete"} => pos <= length
  /\ handler \in {"read", "complete"} => Len(sent) = pos
  /\ handler = "complete" /\ ~unread => pos = length
  /\ handler = "send" =>
       /\ chunk \in 1..Scratch /\ Len(sent) + chunk = pos
       /\ \A i \in 1..chunk : scratch[i] = Len(sent) + i

\* How far the body's handler is.
BodyProgress ==
  /\ handler \in {"recv", "parse"} => length < Scratch /\ Len(sent) = 0
  /\ handler = "recv" => \A i \in 1..pos : scratch[i] = i

\* The byte before the buffer is only written for lengths no int holds.
StraysAreLong == stray => \E n \in Bodies : ToInt(n) < 0

RestInv ==
  /\ TypeOK /\ FilesAreClosed /\ FileProgress /\ BodyProgress
  /\ SentIsPrefix /\ ParsedIsPosted /\ ScratchKeepsBounds /\ StraysAreLong

-----------------------------------------------------------------------------
\* The bytes of a chunk, after those sent before.
LEMMA SentGrows ==
  ASSUME NEW s \in Seq(Int), NEW b \in [1..(Scratch + 1) -> Int],
         NEW c \in 1..Scratch
  PROVE  /\ s \o SubSeq(b, 1, c) \in Seq(Int)
         /\ Len(s \o SubSeq(b, 1, c)) = Len(s) + c
         /\ \A i \in 1..(Len(s) + c) :
              (s \o SubSeq(b, 1, c))[i] =
                IF i <= Len(s) THEN s[i] ELSE b[i - Len(s)]
<1>1. Scratch \in Nat /\ c \in Nat
  BY ScratchAssumption
<1>2. b \in Seq(Int) /\ Len(b) = Scratch + 1
  <2>1. b \in Seq(Int)
    BY <1>1, SeqDef
  <2> QED BY <1>1, <2>1, LenProperties
<1>3. /\ SubSeq(b, 1, c) \in Seq(Int) /\ Len(SubSeq(b, 1, c)) = c
      /\ \A i \in 1..c : SubSeq(b, 1, c)[i] = b[i]
  <2>1. \A i \in 1..c : b[i] \in Int
    BY <1>1
  <2>2. 1 \in Int /\ c \in Int
    BY <1>1
  <2>3. SubSeq(b, 1, c) \in Seq(Int)
    BY <2>1, <2>2, SubSeqProperties
  <2>4. /\ Len(SubSeq(b, 1, c)) = IF 1 <= c THEN c - 1 + 1 ELSE 0
        /\ \A i \in 1..(c - 1 + 1) : SubSeq(b, 1, c)[i] = b[1 + i - 1]
    BY <2>1, <2>2, SubSeqProperties
  <2> QED BY <1>1, <2>3, <2>4
<1>4. Len(s) \in Nat
  BY LenProperties
<1> QED BY <1>1, <1>3, <1>4, ConcatProperties

\* What a read leaves in the buffer.
LEMMA ReadStored ==
  ASSUME scratch \in [1..(Scratch + 1) -> Int], NEW from \in Nat,
         NEW n \in 1..Scratch
  PROVE  /\ Stored(0, from, n) \in [1..(Scratch + 1) -> Int]
         /\ \A i \in 1..n : Stored(0, from, n)[i] = from + i
         /\ Stored(0, from, n)[Scratch + 1] = scratch[Scratch + 1]
<1>1. Stored(0, from, n) \in [1..(Scratch + 1) -> Int]
  BY ScratchAssumption DEF Stored
<1>2. \A i \in 1..n : Stored(0, from, n)[i] = from + i
  BY ScratchAssumption DEF Stored
<1>3. Stored(0, from, n)[Scratch + 1] = scratch[Scratch + 1]
  BY ScratchAssumption DEF Stored
<1> QED BY <1>1, <1>2, <1>3

\* What a receive leaves in the buffer, after the bytes already there.
LEMMA RecvStored ==
  ASSUME scratch \in [1..(Scratch + 1) -> Int],
         NEW done \in Nat, NEW n \in 1..(length - done),
         length \in Nat, length < Scratch,
         \A i \in 1..done : scratch[i] = i
  PROVE  /\ Stored(done, done, n) \in [1..(Scratch + 1) -> Int]
         /\ \A i \in 1..(done + n) : Stored(done, done, n)[i] = i
         /\ Stored(done, done, n)[Scratch + 1] = scratch[Scratch + 1]
         /\ done + n \in 0..length
<1>1. done + n \in 0..length /\ n \in Nat
  OBVIOUS
<1>2. Stored(done, done, n) \in [1..(Scratch + 1) -> Int]
  BY <1>1, ScratchAssumption DEF Stored
<1>3. \A i \in 1..(done + n) : Stored(done, done, n)[i] = i
  BY <1>1, ScratchAssumption DEF Stored
<1>4. Stored(done, done, n)[Scratch + 1] = scratch[Scratch + 1]
  BY <1>1, ScratchAssumption DEF Stored
<1> QED BY <1>1, <1>2, <1>3, <1>4

\* Lengths are integers; those of files are natural.
LEMMA LengthTypes ==
  Files \subseteq Nat /\ {ToInt(n) : n \in Bodies} \subseteq Int
<1>1. ASSUME NEW n \in Bodies PROVE ToInt(n) \in Int
  <2>1. n \in Int /\ IntSize \in Int
    BY IntAssumption, LengthsAssumption
  <2> QED BY <2>1 DEF ToInt
<1> QED BY <1>1, LengthsAssumption

LEMMA RestInit == Init => RestInv
<1>1. <<>> \in Seq(Int) /\ Len(<<>>) = 0 /\ DOMAIN <<>> = {}
  BY EmptySeq, LenProperties
<1>2. Init => TypeOK
  <2>1. Init => unread \in BOOLEAN /\ stray \in BOOLEAN
    BY Zenon DEF Init
  <2> QED BY <1>1, <2>1, ScratchAssumption DEF Init, TypeOK, Other
<1>3. Init => FilesAreClosed
  BY <1>1, ScratchAssumption DEF Init, FilesAreClosed
<1>4. Init => FileProgress /\ BodyProgress /\ SentIsPrefix /\ ParsedIsPosted
  BY <1>1, ScratchAssumption
     DEF Init, FileProgress, BodyProgress, SentIsPrefix, ParsedIsPosted
<1>5. Init => ScratchKeepsBounds /\ StraysAreLong
  BY <1>1, ScratchAssumption DEF Init, ScratchKeepsBounds, StraysAreLong, Other
<1> QED BY <1>2, <1>3, <1>4, <1>5 DEF RestInv

\* A new request of any kind starts from a buffer of none of its bytes.
LEMMA RestAccept ==
  ASSUME RestInv, NEW n \in Files \cup {ToInt(m) : m \in Bodies},
         NEW first \in {"idle", "read", "recv"}, Accept(n, first),
         openFiles' = IF first = "read" THEN openFiles + 1 ELSE openFiles,
         first = "recv" => n < Scratch, first = "read" => n \in Files
  PROVE  RestInv'
<1>1. <<>> \in Seq(Int) /\ Len(<<>>) = 0 /\ DOMAIN <<>> = {}
  BY EmptySeq, LenProperties
<1>2. n \in Int /\ (first = "read" => n \in Nat)
  BY LengthTypes
<1>3. unread' \in BOOLEAN /\ stray' \in BOOLEAN
  BY Zenon DEF Accept, RestInv, TypeOK
<1>4. TypeOK'
  BY <1>1, <1>2, <1>3, ScratchAssumption DEF Accept, RestInv, TypeOK, Other,
     FilesAreClosed
<1>5. FilesAreClosed'
  BY DEF Accept, RestInv, FilesAreClosed
<1>6. FileProgress' /\ BodyProgress' /\ SentIsPrefix' /\ ParsedIsPosted'
  BY <1>1, <1>2, ScratchAssumption
     DEF Accept, FileProgress, BodyProgress, SentIsPrefix, ParsedIsPosted
<1>7. ScratchKeepsBounds' /\ StraysAreLong'
  BY ScratchAssumption
     DEF Accept, RestInv, TypeOK, ScratchKeepsBounds, StraysAreLong
<1> QED BY <1>4, <1>5, <1>6, <1>7 DEF RestInv

\* Facts about the state that most steps need.
LEMMA RestFacts ==
  ASSUME RestInv
  PROVE  /\ length \in Int /\ pos \in Nat /\ Scratch \in Nat
         /\ pos <= length \/ pos = 0
         /\ scratch \in [1..(Scratch + 1) -> Int]
         /\ sent \in Seq(Int) /\ Len(sent) \in Nat /\ DOMAIN sent = 1..Len(sent)
  BY ScratchAssumption, LengthTypes, LenProperties DEF RestInv, TypeOK

LEMMA RestStep ==
  ASSUME RestInv, [Next]_vars
  PROVE  RestInv'
<1> USE ScratchAssumption
    DEF RestInv, TypeOK, FilesAreClosed, FileProgress, BodyProgress,
        SentIsPrefix, ParsedIsPosted, ScratchKeepsBounds, StraysAreLong
<1>0. /\ length \in Int /\ pos \in Nat /\ Scratch \in Nat
      /\ pos <= length \/ pos = 0
      /\ scratch \in [1..(Scratch + 1) -> Int]
      /\ sent \in Seq(Int) /\ Len(sent) \in Nat /\ DOMAIN sent = 1..Len(sent)
  BY RestFacts
<1>1. ASSUME NEW n \in Files, Get(n) PROVE RestInv'
  BY <1>1, RestAccept DEF Get
<1>2. ASSUME NEW n \in Files, OpenFails(n) PROVE RestInv'
  BY <1>2, RestAccept DEF OpenFails
<1>3. ASSUME NEW n \in Bodies, Post(n) PROVE RestInv'
  <2>1. ToInt(n) \in Int /\ UNCHANGED openFiles
    BY <1>3, LengthTypes DEF Post
  <2>2. \/ Accept(ToInt(n), "idle")
        \/ ToInt(n) < Scratch /\ Accept(ToInt(n), "recv")
    BY <1>3, <2>1 DEF Post
  <2> QED BY <2>1, <2>2, RestAccept
<1>4. CASE Read
  <2>1. PICK n \in 1..Scratch :
          /\ pos + n <= length /\ scratch' = Stored(0, pos, n)
          /\ chunk' = n /\ pos' = pos + n
    BY <1>4 DEF Read
  <2>2. /\ scratch' \in [1..(Scratch + 1) -> Int]
        /\ \A i \in 1..n : scratch'[i] = pos + i
        /\ scratch'[Scratch + 1] = scratch[Scratch + 1]
    BY ONLY <1>0, <2>1, ScratchAssumption, ReadStored
  <2>3. /\ chunk' \in 1..Scratch /\ chunk' \in -1..Scratch
        /\ pos' \in 0..length /\ pos' = pos + chunk'
        /\ \A i \in 1..chunk' : scratch'[i] = pos + i
    BY ONLY <1>0, <2>1, <2>2, ScratchAssumption
  <2>4. Len(sent) = pos
    BY <1>4 DEF Read
  <2> QED BY <1>0, <1>4, <2>2, <2>3, <2>4 DEF Read
<1>5. CASE ReadEnds
  <2>1. unread' \in BOOLEAN
    BY <1>5, Zenon DEF ReadEnds
  <2>2. (chunk' = -1 /\ unread') \/ (chunk' = 0 /\ pos = length)
    BY <1>5 DEF ReadEnds
  <2> QED BY <1>0, <1>5, <2>1, <2>2 DEF ReadEnds
<1>6. CASE Send
  BY <1>0, <1>6, SentGrows, LenProperties DEF Send
<1>7. CASE SendFails
  BY <1>7 DEF SendFails
<1>8. CASE Complete
  BY <1>8 DEF Complete
<1>9. CASE Recv
  <2>1. PICK n \in 1..(length - pos) :
          scratch' = Stored(pos, pos, n) /\ pos' = pos + n
    BY <1>9 DEF Recv
  <2>2. /\ length \in Nat /\ length < Scratch
        /\ \A i \in 1..pos : scratch[i] = i
    BY <1>0, <1>9 DEF Recv
  <2>3. /\ scratch' \in [1..(Scratch + 1) -> Int] /\ pos' \in 0..length
        /\ \A i \in 1..pos' : scratch'[i] = i
        /\ scratch'[Scratch + 1] = scratch[Scratch + 1]
    BY ONLY <1>0, <2>1, <2>2, ScratchAssumption, RecvStored
  <2> QED BY <1>0, <1>9, <2>2, <2>3 DEF Recv
<1>10. CASE RecvFails
  BY <1>10 DEF RecvFails
<1>11. CASE Terminate
  <2>1. stray' \in BOOLEAN /\ (stray' => stray \/ length < 0)
    BY <1>11, Zenon DEF Terminate
  <2>2. StraysAreLong'
    BY <2>1, <1>0, LengthTypes
  <2> QED BY <1>0, <1>11, <2>1, <2>2 DEF Terminate, NUL
<1>12. CASE Light
  BY <1>12 DEF Light
<1>13. CASE Crash
  <2>1. <<>> \in Seq(Int) /\ Len(<<>>) = 0 /\ DOMAIN <<>> = {}
    BY EmptySeq, LenProperties
  <2>2. stray' \in BOOLEAN /\ ~stray' /\ unread' \in BOOLEAN
    BY <1>13, Zenon DEF Crash
  <2>3. /\ scratch' = [i \in DOMAIN scratch |-> Other]
        /\ DOMAIN scratch = 1..(Scratch + 1)
        /\ handler' = "idle" /\ length' = 0 /\ openFiles' = 0 /\ pos' = 0
        /\ sent' = <<>> /\ chunk' = chunk /\ client' = client
    BY ONLY <1>0, <1>13 DEF Crash
  <2>4. TypeOK' /\ FilesAreClosed'
    <3>1. scratch' \in [1..(Scratch + 1) -> Int]
      BY ONLY <2>3 DEF Other
    <3>2. /\ handler' \in {"idle", "read", "send", "complete", "recv", "parse"}
          /\ client' \in {"here", "gone"} /\ chunk' \in -1..Scratch
          /\ length' \in Files \cup {ToInt(n) : n \in Bodies} \cup {0}
          /\ openFiles' \in 0..1 /\ pos' \in {0} \cup 0..length'
      BY <2>3
    <3>3. sent' \in Seq(Int) /\ Len(sent') <= pos'
      BY <2>1, <2>3
    <3>4. FilesAreClosed'
      BY <2>3
    <3> QED BY ONLY <2>2, <3>1, <3>2, <3>3, <3>4 DEF TypeOK
  <2>5. FileProgress' /\ BodyProgress' /\ SentIsPrefix' /\ ParsedIsPosted'
    BY <1>13, <2>1 DEF Crash
  <2>6. ScratchKeepsBounds' /\ StraysAreLong'
    BY <1>0, <1>13, <2>2 DEF Crash
  <2> QED BY <2>4, <2>5, <2>6
<1>14. CASE Leave
  BY <1>14 DEF Leave
<1>15. CASE UNCHANGED vars
  BY <1>15 DEF vars
<1> QED
  BY <1>1, <1>2, <1>3, <1>4, <1>5, <1>6, <1>7, <1>8, <1>9, <1>10, <1>11,
     <1>12, <1>13, <1>14, <1>15
     DEF Next, Clients, Handler, GetHandler, PostHandler

\* Types, descriptors, progress and the contents of buffer and response.
THEOREM RestInductive == Spec => []RestInv
  BY RestInit, RestStep, PTL DEF Spec

\* Types, for every buffer size and all lengths.
THEOREM RestTypeCorrect == Spec => []TypeOK
<1>1. RestInv => TypeOK
  BY DEF RestInv
<1> QED BY RestInductive, <1>1, PTL

\* Every way out of the file handler closes its file, once.
THEOREM DescriptorsDoNotLeak == Spec => []FilesAreClosed
<1>1. RestInv => FilesAreClosed
  BY DEF RestInv
<1> QED BY RestInductive, <1>1, PTL

\* What is sent is the file's bytes in order, and nothing of what the shared
\* buffer held before.
THEOREM SentBytesCorrect == Spec => []SentIsPrefix
<1>1. RestInv => SentIsPrefix
  BY DEF RestInv
<1> QED BY RestInductive, <1>1, PTL

\* A response is completed with the whole file unless a read failed.
THEOREM CompletionCorrect == Spec => []CompleteUnlessReadFailed
<1>1. RestInv => CompleteUnlessReadFailed
  BY DEF RestInv, FileProgress, CompleteUnlessReadFailed
<1> QED BY RestInductive, <1>1, PTL

\* The parser sees the posted body and the NUL, whatever came before, if the
\* body's length is not a negative int.
THEOREM ParsedBodyCorrect == Spec => []ParsedIsPosted
<1>1. RestInv => ParsedIsPosted
  BY DEF RestInv
<1> QED BY RestInductive, <1>1, PTL

\* No request writes past the end of the buffer; and a byte before it is only
\* written where some body's length is no int.  With bodies of less than
\* 2^31 bytes nothing outside the buffer is written.
THEOREM BufferIsBounded == Spec => [](ScratchKeepsBounds /\ StraysAreLong)
<1>1. RestInv => ScratchKeepsBounds /\ StraysAreLong
  BY DEF RestInv
<1> QED BY RestInductive, <1>1, PTL

-----------------------------------------------------------------------------
(* Requests run down *)

\* Steps the running handler has left at most: two for each byte of the file,
\* one for each byte of the body, and those that end it.
Remaining ==
  CASE handler = "idle" -> 0
    [] handler \in {"complete", "parse"} -> 1
    [] handler = "recv" /\ pos < length -> length - pos + 2
    [] handler = "recv" /\ pos >= length -> 2
    [] handler = "read" -> 2 * (length - pos) + 2
    [] handler = "send" -> 2 * (length - pos) + 3

\* The safety half of RequestsEnd: however short the reads and receives are,
\* and whatever fails, every step of a handler brings the request nearer to its
\* end, and a new one is only accepted when that is reached.
THEOREM RequestsRunDown ==
  Spec => /\ [][Handler => Remaining' \in Nat /\ Remaining' < Remaining]_vars
          /\ [][Remaining' > Remaining => handler = "idle" /\ openFiles = 0]_vars
<1>1. ASSUME RestInv
      PROVE  /\ length \in Int /\ pos \in Nat
             /\ handler \in {"read", "send", "complete"} => pos <= length
             /\ handler = "send" => chunk \in 1..Scratch
             /\ handler = "idle" => openFiles = 0
             /\ handler \in {"idle", "read", "send", "complete", "recv", "parse"}
  BY <1>1, RestFacts DEF RestInv, TypeOK, FileProgress, FilesAreClosed
<1>2. ASSUME RestInv, Handler PROVE Remaining' \in Nat /\ Remaining' < Remaining
  <2>1. CASE Read
    <3>1. PICK n \in 1..Scratch : pos + n <= length /\ pos' = pos + n
      BY <2>1 DEF Read
    <3>2. n \in Nat /\ n >= 1
      BY <3>1, ScratchAssumption
    <3>3. Remaining = 2 * (length - pos) + 2 /\ Remaining' = 2 * (length' - pos') + 3
      BY <2>1 DEF Read, Remaining
    <3>4. length \in Int /\ pos \in Nat
      BY <1>1, <1>2
    <3>5. pos + n <= length /\ pos' = pos + n /\ length' = length
      BY <2>1, <3>1 DEF Read
    <3> QED BY <3>2, <3>3, <3>4, <3>5
  <2>2. CASE Recv
    <3>1. PICK n \in 1..(length - pos) : pos' = pos + n
      BY <2>2 DEF Recv
    <3>2. /\ length \in Int /\ pos \in Nat /\ length' = length
          /\ handler = "recv" /\ handler' = "recv" /\ pos < length
      BY <1>1, <1>2, <2>2 DEF Recv
    <3>3. n \in Nat /\ n >= 1 /\ pos + n <= length
      BY <3>2
    <3>4. Remaining = length - pos + 2
      BY <3>2 DEF Remaining
    <3>5. Remaining' = IF pos' < length THEN length - pos' + 2 ELSE 2
      BY <3>1, <3>2, <3>3 DEF Remaining
    <3> QED BY <3>1, <3>2, <3>3, <3>4, <3>5
  <2>3. CASE ReadEnds
    BY <1>1, <1>2, <2>3 DEF ReadEnds, Remaining
  <2>4. CASE Send
    BY <1>1, <1>2, <2>4 DEF Send, Remaining
  <2>5. CASE SendFails \/ Complete
    BY <1>1, <1>2, <2>5 DEF SendFails, Complete, Remaining
  <2>6. CASE RecvFails \/ Terminate
    BY <1>1, <1>2, <2>6 DEF RecvFails, Terminate, Remaining
  <2>7. CASE Light
    BY <1>1, <1>2, <2>7 DEF Light, Remaining
  <2>8. CASE Crash
    <3>1. Remaining \in Nat /\ (handler # "idle" => Remaining > 0)
      BY <1>1, <1>2 DEF Remaining
    <3> QED BY <2>8, <3>1 DEF Crash, Remaining
  <2> QED
    BY <1>2, <2>1, <2>2, <2>3, <2>4, <2>5, <2>6, <2>7, <2>8
       DEF Handler, GetHandler, PostHandler
<1>3. ASSUME RestInv, Next, Remaining' > Remaining
      PROVE  handler = "idle" /\ openFiles = 0
  <2>1. Remaining \in Nat
    BY <1>1, <1>3 DEF Remaining
  <2>2. ~Handler
    BY <1>2, <1>3, <2>1
  <2>3. ~Leave
    <3>1. Leave => Remaining' = Remaining
      BY DEF Leave, Remaining
    <3> QED BY <1>3, <2>1, <3>1
  <2>4. handler = "idle"
    BY <1>3, <2>2, <2>3 DEF Next, Clients, Get, OpenFails, Post, Accept
  <2> QED BY <1>1, <1>3, <2>4
<1>4. RestInv /\ [Next]_vars
        => /\ [Handler => Remaining' \in Nat /\ Remaining' < Remaining]_vars
           /\ [Remaining' > Remaining => handler = "idle" /\ openFiles = 0]_vars
  BY <1>2, <1>3
<1> QED BY <1>4, RestInductive, PTL DEF Spec
=============================================================================
