----------------------------- MODULE DppsClient -----------------------------
(***************************************************************************)
(* Utils::sendDPPSCommand of src/livedisplay: a request over a local       *)
(* stream socket, and an answer read into the caller's buffer piece by     *)
(* piece, as long as the next piece comes within 20 ms.  The peer (the pps *)
(* daemon) is external: it may answer early, late, in any pieces, without  *)
(* end, or not at all, and it may close or die.  The bytes of its answer   *)
(* are numbered 1, 2, ... in the order they were sent; 0 is a NUL.         *)
(***************************************************************************)
EXTENDS Integers

CONSTANTS
  Sizes,      \* the sizes of the callers' buffers
  MaxStream,  \* bound: the bytes a peer sends
  Faults      \* what may fail in the client: "connect", "write", "read", "poll"

AllFaults == {"connect", "write", "read", "poll"}

ASSUME DppsAssumption ==
  Sizes \subseteq Nat \ {0} /\ MaxStream \in Nat /\ Faults \subseteq AllFaults

VARIABLES
  pc,             \* where the client is
  size,           \* the buffer, as the caller gave it
  buf,            \* what it holds, -1 for the request
  len, off,       \* what is left of it, and where that begins
  sock,           \* the socket is open
  rc,             \* what is returned: 0, or an error (-1)
  sent, taken,    \* the bytes of the answer that were sent, and that were read
  closed          \* the peer has closed

client == <<pc, size, buf, len, off, sock, rc, taken>>
peer == <<sent, closed>>
vars == <<client, peer>>

TypeOK ==
  /\ pc \in {"connect", "write", "read", "poll", "close", "done"}
  /\ size \in Sizes /\ buf \in [0..(size - 1) -> -1..MaxStream]
  /\ len \in 0..size /\ off \in 0..size /\ sock \in BOOLEAN /\ rc \in {0, -1}
  /\ sent \in 0..MaxStream /\ taken \in 0..sent /\ closed \in BOOLEAN

Init ==
  /\ pc = "connect" /\ size \in Sizes /\ buf = [n \in 0..(size - 1) |-> -1]
  /\ len = size /\ off = 0 /\ sock = FALSE /\ rc = 0
  /\ sent = 0 /\ taken = 0 /\ closed = FALSE

-----------------------------------------------------------------------------
Goto(here, there) == pc = here /\ pc' = there

Connect ==
  /\ Goto("connect", "write") /\ sock' = TRUE
  /\ UNCHANGED <<size, buf, len, off, rc, taken, peer>>

\* Mutated: the buffer is not cleared.
WriteOnly ==
  /\ \/ Goto("write", "read") /\ ~closed /\ UNCHANGED <<buf, rc>>
     \/ Goto("write", "close") /\ closed /\ rc' = -1 /\ UNCHANGED buf
  /\ UNCHANGED <<size, len, off, sock, taken, peer>>

\* The request, and the memset; a peer that has closed takes no request.
Write ==
  /\ \/ /\ Goto("write", "read") /\ ~closed
        /\ buf' = [n \in 0..(size - 1) |-> 0] /\ UNCHANGED rc
     \/ Goto("write", "close") /\ closed /\ rc' = -1 /\ UNCHANGED buf
  /\ UNCHANGED <<size, len, off, sock, taken, peer>>

\* The next n bytes of the stream go where off points.
Receive(n) ==
  /\ taken' = taken + n
  /\ buf' = [m \in 0..(size - 1) |-> IF m \in off..(off + n - 1) THEN taken + m - off + 1
                                     ELSE buf[m]]

\* Mutated: the pointer is not adjusted.
ReadToTheFront ==
  /\ \/ \E n \in 1..(sent - taken) :
          /\ n <= len /\ Receive(n) /\ UNCHANGED off
          /\ IF n = len THEN Goto("read", "close") /\ UNCHANGED len
             ELSE Goto("read", "poll") /\ len' = len - n
     \/ /\ Goto("read", "close") /\ sent = taken /\ closed
        /\ UNCHANGED <<buf, len, off, taken>>
  /\ UNCHANGED <<size, sock, rc, peer>>

\* read() waits for some bytes, and takes up to len of them; none is the end of the
\* answer.
Read ==
  /\ \/ \E n \in 1..(sent - taken) :
          /\ n <= len /\ Receive(n)
          /\ IF n = len THEN Goto("read", "close") /\ UNCHANGED <<len, off>>
             ELSE Goto("read", "poll") /\ len' = len - n /\ off' = off + n
     \/ /\ Goto("read", "close") /\ sent = taken /\ closed
        /\ UNCHANGED <<buf, len, off, taken>>
  /\ UNCHANGED <<size, sock, rc, peer>>

\* Mutated: poll waits without a limit.
PollWithoutEnd ==
  /\ Goto("poll", "read") /\ (taken < sent \/ closed)
  /\ UNCHANGED <<size, buf, len, off, sock, rc, taken, peer>>

\* poll(20): more bytes, or the peer's end; or the time is over before either.
Poll ==
  /\ \/ Goto("poll", "read") /\ (taken < sent \/ closed)
     \/ Goto("poll", "close") /\ taken = sent /\ ~closed
  /\ UNCHANGED <<size, buf, len, off, sock, rc, taken, peer>>

Close ==
  /\ Goto("close", "done") /\ sock' = FALSE
  /\ UNCHANGED <<size, buf, len, off, rc, taken, peer>>

\* A call of the client fails; an answer that breaks off is not reported.
Fail ==
  /\ \/ Goto("connect", "done") /\ "connect" \in Faults /\ rc' = -1
     \/ Goto("write", "close") /\ "write" \in Faults /\ rc' = -1
     \/ \E here \in {"read", "poll"} \cap Faults : Goto(here, "close") /\ UNCHANGED rc
  /\ UNCHANGED <<size, buf, len, off, sock, taken, peer>>

\* The peer may say something, and may close, at any time.
Send ==
  /\ sock /\ ~closed /\ sent < MaxStream
  /\ sent' = sent + 1 /\ UNCHANGED <<client, closed>>

PeerClose == sock /\ ~closed /\ closed' = TRUE /\ UNCHANGED <<client, sent>>

Client == Connect \/ Write \/ Read \/ Poll \/ Close

Next == Client \/ Fail \/ Send \/ PeerClose

Spec == Init /\ [][Next]_vars /\ WF_vars(Client)

-----------------------------------------------------------------------------
\* A read never reaches behind the caller's buffer, and never asks for no bytes at
\* all, which would look like the end of the answer: what is left and where it
\* begins are adjusted together (Utils.cpp:50-56).
ReadStaysInside == pc \in {"read", "poll"} => len > 0 /\ off + len = size

\* Once the request is out, the buffer holds the beginning of the answer, in order
\* and without a gap, however it was cut into pieces, and NULs behind it: it is
\* terminated, unless the answer has filled it to the last byte (Utils.cpp:48-56).
AnswerIsAPrefix ==
  (pc \in {"read", "poll", "close", "done"} /\ rc = 0)
    => \A n \in DOMAIN buf : buf[n] = IF n < taken THEN n + 1 ELSE 0

\* The socket is closed on every path that has opened it (Utils.cpp:44-66).
NothingStaysOpen == pc = "done" => ~sock

\* A peer that says anything, or closes, sets the caller free: after the first
\* piece no silence holds it longer than a poll, and no endless answer longer than
\* its buffer.  Whatever has failed on the way, its socket is closed then.  Only a
\* peer that stays silent from the start holds it (Utils.cpp:44-66).
AnyAnswerEndsTheCall == (sent > 0 \/ closed) ~> (pc = "done" /\ ~sock)

=============================================================================
