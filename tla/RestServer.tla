----------------------------- MODULE RestServer -----------------------------
(***************************************************************************)
(* The REST server of the master and of the rest example (the two          *)
(* rest_server.c are the same): rest_common_get_handler sends a file in    *)
(* chunks, light_brightness_post_handler collects a body in pieces.  One   *)
(* httpd task runs the handlers one at a time over one scratch buffer,     *)
(* which is never cleared between requests.  The handlers that only format *)
(* a value (system_info, temperature_data) keep no state and are left out. *)
(***************************************************************************)
EXTENDS Integers, Sequences

CONSTANTS
  Scratch,  \* SCRATCH_BUFSIZE, 10240
  IntSize,  \* how many values a size_t and an int have, 2^32
  Files,    \* lengths of the files served
  Bodies    \* content lengths of the bodies posted

ASSUME ScratchAssumption == Scratch \in Nat \ {0}
ASSUME IntAssumption == IntSize \in Nat /\ 2 * Scratch < IntSize
ASSUME LengthsAssumption ==
  Files \subseteq Nat /\ Bodies \subseteq 0..(IntSize - 1)

VARIABLES
  handler,   \* "idle", or where the running handler is
  client,    \* whether the client still holds the connection
  length,    \* of the requested file, or total_len
  openFiles, \* descriptors open
  pos,       \* bytes read from the file, or cur_len of the body
  chunk,     \* read_bytes
  unread,    \* history: a read of the file failed
  scratch,   \* which of the request's bytes each byte of the buffer, and the one
             \* after the buffer, is
  stray,     \* has a byte before the buffer been written since the chip started?
  sent       \* what the response's chunks carried

vars == <<handler, client, length, openFiles, pos, chunk, unread, scratch, stray,
          sent>>

NUL == 0
Other == -1  \* not of this request

\* The int total_len that the size_t content_len is converted to.
ToInt(n) == IF 2 * n < IntSize THEN n ELSE n - IntSize

\* The buffer after n bytes of data, from the given one on, are stored at an
\* offset.
Stored(offset, from, n) ==
  [i \in DOMAIN scratch |->
     IF i - offset \in 1..n THEN from + i - offset ELSE scratch[i]]

Init ==
  /\ handler = "idle" /\ client = "here" /\ length = 0
  /\ openFiles = 0 /\ pos = 0 /\ chunk = 0 /\ unread = FALSE
  /\ scratch = [i \in 1..(Scratch + 1) |-> Other]
  /\ stray = FALSE /\ sent = <<>>

\* A request reaches the httpd task, which starts its handler.  The buffer
\* keeps its bytes, which are now an earlier request's.
Accept(n, first) ==
  /\ handler = "idle" /\ handler' = first
  /\ client' = "here" /\ length' = n
  /\ pos' = 0 /\ chunk' = 0 /\ unread' = FALSE /\ sent' = <<>>
  /\ scratch' = [i \in DOMAIN scratch |-> Other] /\ UNCHANGED stray

-----------------------------------------------------------------------------
(* rest_common_get_handler *)

Get(n) == Accept(n, "read") /\ openFiles' = openFiles + 1

OpenFails(n) == Accept(n, "idle") /\ UNCHANGED openFiles

\* Mutant: a read that does not fill the buffer is taken for the last.
ReadStopsWhenShort ==
  /\ handler = "read"
  /\ \E n \in 1..Scratch :
       /\ pos + n <= length /\ scratch' = Stored(0, pos, n)
       /\ chunk' = n /\ pos' = pos + n
       /\ handler' = IF n < Scratch THEN "complete" ELSE "send"
  /\ UNCHANGED <<client, length, openFiles, unread, stray, sent>>

Read ==
  /\ handler = "read"
  /\ \E n \in 1..Scratch :
       /\ pos + n <= length /\ scratch' = Stored(0, pos, n)
       /\ chunk' = n /\ pos' = pos + n
  /\ handler' = "send"
  /\ UNCHANGED <<client, length, openFiles, unread, stray, sent>>

\* read returns 0 at the end of the file, -1 on an error; the loop ends alike.
ReadEnds ==
  /\ handler = "read" /\ handler' = "complete"
  /\ chunk' \in {-1} \cup {n \in {0} : pos = length}
  /\ unread' = (chunk' = -1)
  /\ UNCHANGED <<client, length, openFiles, pos, scratch, stray, sent>>

\* Mutant: the whole buffer is sent.
SendBuffer ==
  /\ handler = "send" /\ handler' = "read"
  /\ sent' = sent \o SubSeq(scratch, 1, Scratch)
  /\ UNCHANGED <<client, length, openFiles, pos, chunk, unread, scratch, stray>>

Send ==
  /\ handler = "send" /\ handler' = "read"
  /\ sent' = sent \o SubSeq(scratch, 1, chunk)
  /\ UNCHANGED <<client, length, openFiles, pos, chunk, unread, scratch, stray>>

\* Mutants: the error path closes the file twice, or not at all.
SendFailsClosesTwice ==
  /\ handler = "send" /\ handler' = "idle"
  /\ openFiles' = openFiles - 2
  /\ UNCHANGED <<client, length, pos, chunk, unread, scratch, stray, sent>>

SendFailsStaysOpen ==
  /\ handler = "send" /\ handler' = "idle"
  /\ UNCHANGED <<client, length, openFiles, pos, chunk, unread, scratch, stray, sent>>

\* A chunk that cannot be sent: close, then the end of the chunks and a 500 after it.
SendFails ==
  /\ handler = "send" /\ handler' = "idle"
  /\ openFiles' = openFiles - 1
  /\ UNCHANGED <<client, length, pos, chunk, unread, scratch, stray, sent>>

\* Close, log "File sending complete", send the empty chunk.
Complete ==
  /\ handler = "complete" /\ handler' = "idle"
  /\ openFiles' = openFiles - 1
  /\ UNCHANGED <<client, length, pos, chunk, unread, scratch, stray, sent>>

-----------------------------------------------------------------------------
(* light_brightness_post_handler *)

\* Mutant: no room is kept for the terminating NUL.
PostFillsBuffer(n) ==
  /\ Accept(ToInt(n), IF ToInt(n) > Scratch THEN "idle" ELSE "recv")
  /\ UNCHANGED openFiles

\* A body that leaves no room for the NUL is refused, but not one so long that
\* its length is a negative int.
Post(n) ==
  /\ Accept(ToInt(n), IF ToInt(n) >= Scratch THEN "idle" ELSE "recv")
  /\ UNCHANGED openFiles

\* Mutant: each piece is received at the start of the buffer.
RecvAtStart ==
  /\ handler = "recv" /\ pos < length /\ client = "here"
  /\ \E n \in 1..(length - pos) :
       scratch' = Stored(0, pos, n) /\ pos' = pos + n
  /\ UNCHANGED <<handler, client, length, openFiles, chunk, unread, stray, sent>>

\* Some of the body; httpd_req_recv never returns more than is left of it.
Recv ==
  /\ handler = "recv" /\ pos < length /\ client = "here"
  /\ \E n \in 1..(length - pos) :
       scratch' = Stored(pos, pos, n) /\ pos' = pos + n
  /\ UNCHANGED <<handler, client, length, openFiles, chunk, unread, stray, sent>>

\* Mutant: a failed receive is tried again.
RecvRetries ==
  /\ handler = "recv" /\ pos < length
  /\ UNCHANGED vars

\* The client is gone, or silent for longer than the timeout: a 500.
RecvFails ==
  /\ handler = "recv" /\ pos < length /\ handler' = "idle"
  /\ UNCHANGED <<client, length, openFiles, pos, chunk, unread, scratch, stray, sent>>

\* buf[total_len] = 0.  With a negative length the loop has received nothing, and
\* the byte is one before the buffer: of base_path, so that files are no longer
\* found (OpenFails), or of memory that is not the handlers' (Crash).
Terminate ==
  /\ handler = "recv" /\ pos >= length /\ handler' = "parse"
  /\ scratch' = [i \in DOMAIN scratch |->
                   IF i = length + 1 THEN NUL ELSE scratch[i]]
  /\ stray' = (stray \/ length < 0)
  /\ UNCHANGED <<client, length, openFiles, pos, chunk, unread, sent>>

\* The colours are read from the parsed body.
Light ==
  /\ handler = "parse" /\ handler' = "idle"
  /\ UNCHANGED <<client, length, openFiles, pos, chunk, unread, scratch, stray, sent>>

\* The chip restarts: a NULL pointer is followed for a colour the body lacks, a
\* byte before the buffer cannot be written, or one that was is missed later.
Crash ==
  /\ \/ handler = "parse"
     \/ handler = "recv" /\ length < 0
     \/ handler # "idle" /\ stray
  /\ handler' = "idle" /\ length' = 0 /\ openFiles' = 0
  /\ pos' = 0 /\ scratch' = [i \in DOMAIN scratch |-> Other]
  /\ stray' = FALSE /\ sent' = <<>>
  /\ UNCHANGED <<client, chunk, unread>>

-----------------------------------------------------------------------------
\* Nothing more comes from the client.
Leave ==
  /\ handler # "idle" /\ client = "here" /\ client' = "gone"
  /\ UNCHANGED <<handler, length, openFiles, pos, chunk, unread, scratch, stray, sent>>

GetHandler == Read \/ ReadEnds \/ Send \/ SendFails \/ Complete
PostHandler == Recv \/ RecvFails \/ Terminate \/ Light
Handler == GetHandler \/ PostHandler \/ Crash

Clients == \/ \E n \in Files : Get(n) \/ OpenFails(n)
           \/ \E n \in Bodies : Post(n)
           \/ Leave

Next == Clients \/ Handler

Spec == Init /\ [][Next]_vars

\* The httpd task runs, and its sends and receives time out.
FairSpec == Spec /\ WF_vars(Handler)

-----------------------------------------------------------------------------
TypeOK ==
  /\ handler \in {"idle", "read", "send", "complete", "recv", "parse"}
  /\ client \in {"here", "gone"}
  /\ length \in Files \cup {ToInt(n) : n \in Bodies} \cup {0}
  /\ openFiles \in 0..1 /\ pos \in {0} \cup 0..length
  /\ chunk \in -1..Scratch /\ unread \in BOOLEAN /\ stray \in BOOLEAN
  /\ scratch \in [1..(Scratch + 1) -> Int]
  /\ sent \in Seq(Int) /\ Len(sent) <= pos

\* Every way out of the file handler closes the file it opened, once.
FilesAreClosed ==
  openFiles = IF handler \in {"read", "send", "complete"} THEN 1 ELSE 0

\* However the file is cut up and whatever the buffer held before, what goes
\* out is the file's bytes in order, none of an earlier request.
SentIsPrefix == \A i \in DOMAIN sent : sent[i] = i

\* Unless a read failed, a response is only completed with the whole file.
CompleteUnlessReadFailed ==
  handler = "complete" /\ ~unread => Len(sent) = length

\* The parser sees the posted body, whatever pieces it came in and whatever
\* the buffer held, and after it the NUL; but a body whose length is a negative
\* int is never received, and the parser sees what the buffer held.
ParsedIsPosted ==
  handler = "parse" /\ length >= 0 =>
    /\ \A i \in 1..length : scratch[i] = i
    /\ scratch[length + 1] = NUL

\* No request writes past the end of the buffer (of the byte before it, see
\* Terminate).
ScratchKeepsBounds == scratch[Scratch + 1] = Other

\* Clients that vanish in mid-request do not hold the only server task.
RequestsEnd == handler # "idle" ~> handler = "idle"

\* What the handler logs and its comments say at the end of the loop ("File
\* sending complete"): the whole file has been sent.
CompleteMeansWhole == handler = "complete" => Len(sent) = length
=============================================================================
