-------------------------- MODULE DppsClientProofs --------------------------
(***************************************************************************)
(* The read loop of the DPPS client stays in the caller's buffer and puts  *)
(* the answer together, for buffers of every size and answers of every     *)
(* length.                                                                 *)
(***************************************************************************)
EXTENDS DppsClient, TLAPS

USE DppsAssumption

\* The inductive invariant: what has been taken is what the pointer has moved over,
\* until the last piece fills the buffer.
Asked == pc \in {"read", "poll"} => off = taken
Unasked == pc \in {"connect", "write"} => off = 0 /\ len = size /\ taken = 0
Opened == sock <=> pc \in {"write", "read", "poll", "close"}
NoError == pc \in {"connect", "write", "read", "poll"} => rc = 0

IInv ==
  TypeOK /\ Asked /\ Unasked /\ Opened /\ NoError /\ ReadStaysInside /\ AnswerIsAPrefix

LEMMA InitInv == Init => IInv
<1> SUFFICES ASSUME Init PROVE IInv
  OBVIOUS
<1>1. size \in Nat \ {0} /\ size \in Sizes
  BY DEF Init
<1>2. buf \in [0..(size - 1) -> -1..MaxStream]
  BY <1>1 DEF Init
<1>3. /\ pc = "connect" /\ len = size /\ off = 0 /\ sock = FALSE /\ rc = 0
      /\ sent = 0 /\ taken = 0 /\ closed = FALSE
  BY DEF Init
<1>4. len \in 0..size /\ off \in 0..size /\ sent \in 0..MaxStream /\ taken \in 0..sent
  BY <1>1, <1>3
<1>5. TypeOK
  BY <1>1, <1>2, <1>3, <1>4 DEF TypeOK
<1> QED
  BY <1>3, <1>5 DEF IInv, Asked, Unasked, Opened, NoError, ReadStaysInside, AnswerIsAPrefix

\* One piece of the answer: where it goes, and what it leaves of the buffer.
LEMMA ReceiveKeeps ==
  ASSUME IInv, pc = "read", NEW n \in 1..(sent - taken), n <= len, Receive(n),
         UNCHANGED <<size, sent>>
  PROVE  /\ taken' = taken + n /\ taken' \in 0..sent /\ off + n \in 0..size
         /\ buf' \in [0..(size - 1) -> -1..MaxStream]
         /\ \A m \in DOMAIN buf' : buf'[m] = IF m < taken' THEN m + 1 ELSE 0
<1>1. size \in Nat /\ len \in Nat /\ off \in Nat /\ taken \in Nat /\ sent \in Nat
  BY DEF IInv, TypeOK
<1>2. sent <= MaxStream /\ off = taken /\ off + len = size /\ rc = 0
  BY DEF IInv, TypeOK, Asked, NoError, ReadStaysInside
<1>3. n \in Nat /\ n >= 1 /\ taken + n <= sent /\ off + n <= size
  BY <1>1, <1>2
<1>4. DOMAIN buf = 0..(size - 1) /\ \A m \in 0..(size - 1) : buf[m] = IF m < taken THEN m + 1 ELSE 0
  BY <1>2 DEF IInv, TypeOK, AnswerIsAPrefix
<1>5. buf' = [m \in 0..(size - 1) |-> IF m \in off..(off + n - 1) THEN taken + m - off + 1
                                      ELSE buf[m]]
  BY DEF Receive
<1>6. taken' = taken + n
  BY DEF Receive
<1>7. ASSUME NEW m \in 0..(size - 1)
      PROVE  buf'[m] = (IF m < taken' THEN m + 1 ELSE 0) /\ buf'[m] \in -1..MaxStream
  <2>1. CASE m \in off..(off + n - 1)
    <3>1. buf'[m] = m + 1 /\ m < taken' /\ m + 1 <= sent
      BY <1>1, <1>2, <1>3, <1>5, <1>6, <2>1
    <3> QED
      BY <1>1, <1>2, <3>1
  <2>2. CASE m \notin off..(off + n - 1)
    <3>1. buf'[m] = buf[m]
      BY <1>5, <2>2
    <3>2. m < taken <=> m < taken'
      BY <1>1, <1>2, <1>3, <1>6, <2>2
    <3> QED
      BY <1>1, <1>2, <1>4, <3>1, <3>2
  <2> QED
    BY <2>1, <2>2
<1>8. buf' \in [0..(size - 1) -> -1..MaxStream]
  BY <1>5, <1>7
<1> QED
  BY <1>1, <1>3, <1>5, <1>6, <1>7, <1>8

LEMMA NextInv == IInv /\ [Next]_vars => IInv'
<1> SUFFICES ASSUME IInv, [Next]_vars PROVE IInv'
  OBVIOUS
<1> USE DEF Asked, Unasked, Opened, NoError, ReadStaysInside
<1>1. CASE Connect
  <2>1. TypeOK'
    BY <1>1 DEF IInv, TypeOK, Connect, Goto, peer
  <2> QED
    BY <1>1, <2>1 DEF IInv, AnswerIsAPrefix, Connect, Goto, peer
<1>2. CASE Write
  <2>1. CASE pc' = "close"
    <3>1. TypeOK'
      BY <1>2, <2>1 DEF IInv, TypeOK, Write, Goto, peer
    <3> QED
      BY <1>2, <2>1, <3>1 DEF IInv, AnswerIsAPrefix, Write, Goto, peer
  <2>2. CASE pc' = "read"
    <3>1. /\ pc = "write" /\ buf' = [n \in 0..(size - 1) |-> 0]
          /\ UNCHANGED <<rc, size, len, off, sock, taken, peer>>
      BY <1>2, <2>2 DEF Write, Goto
    <3>2. buf' \in [0..(size - 1) -> -1..MaxStream]
      BY <3>1
    <3>3. TypeOK'
      BY <2>2, <3>1, <3>2 DEF IInv, TypeOK, peer
    <3>4. taken = 0 /\ size \in Nat \ {0} /\ len = size /\ off = 0 /\ rc = 0 /\ sock
      BY <3>1 DEF IInv, TypeOK
    <3>5. \A n \in DOMAIN buf' : buf'[n] = IF n < taken' THEN n + 1 ELSE 0
      BY <3>1, <3>4
    <3> QED
      BY <2>2, <3>1, <3>3, <3>4, <3>5 DEF IInv, AnswerIsAPrefix
  <2> QED
    BY <1>2, <2>1, <2>2 DEF Write, Goto
<1>3. CASE Read
  <2>1. CASE sent = taken /\ Goto("read", "close") /\ UNCHANGED <<buf, len, off, taken>>
    <3>1. TypeOK'
      BY <1>3, <2>1 DEF IInv, TypeOK, Read, Goto, peer
    <3> QED
      BY <1>3, <2>1, <3>1 DEF IInv, AnswerIsAPrefix, Read, Goto, peer
  <2>2. ASSUME NEW n \in 1..(sent - taken), n <= len, Receive(n),
               IF n = len THEN Goto("read", "close") /\ UNCHANGED <<len, off>>
               ELSE Goto("read", "poll") /\ len' = len - n /\ off' = off + n
        PROVE  IInv'
    <3>1. UNCHANGED <<size, sock, rc, sent, closed>> /\ pc = "read"
      BY <1>3, <2>2 DEF Read, Goto, peer
    <3>2. /\ taken' = taken + n /\ taken' \in 0..sent /\ off + n \in 0..size
          /\ buf' \in [0..(size - 1) -> -1..MaxStream]
          /\ \A m \in DOMAIN buf' : buf'[m] = IF m < taken' THEN m + 1 ELSE 0
      BY <2>2, <3>1, ReceiveKeeps
    <3>3. AnswerIsAPrefix'
      BY <3>2 DEF AnswerIsAPrefix
    <3>4. len \in Nat /\ off \in Nat /\ n \in Nat \ {0} /\ size \in Nat /\ off + len = size
          /\ off = taken /\ rc = 0 /\ sock
      BY <2>2, <3>1 DEF IInv, TypeOK
    <3>5. CASE n = len
      <4>1. pc' = "close" /\ UNCHANGED <<len, off>>
        BY <2>2, <3>5 DEF Goto
      <4>2. TypeOK'
        BY <3>1, <3>2, <4>1 DEF IInv, TypeOK
      <4> QED
        BY <3>1, <3>3, <3>4, <4>1, <4>2 DEF IInv
    <3>6. CASE n # len
      <4>1. pc' = "poll" /\ len' = len - n /\ off' = off + n
        BY <2>2, <3>6 DEF Goto
      <4>2. len' \in 0..size /\ len' > 0 /\ off' + len' = size
        BY <2>2, <3>4, <3>6, <4>1
      <4>3. TypeOK'
        BY <3>1, <3>2, <4>1, <4>2 DEF IInv, TypeOK
      <4> QED
        BY <3>1, <3>2, <3>3, <3>4, <4>1, <4>2, <4>3 DEF IInv
    <3> QED
      BY <3>5, <3>6
  <2> QED
    BY <1>3, <2>1, <2>2 DEF Read
<1>4. CASE Poll
  <2>1. TypeOK'
    BY <1>4 DEF IInv, TypeOK, Poll, Goto, peer
  <2> QED
    BY <1>4, <2>1 DEF IInv, AnswerIsAPrefix, Poll, Goto, peer
<1>5. CASE Close
  <2>1. TypeOK'
    BY <1>5 DEF IInv, TypeOK, Close, Goto, peer
  <2> QED
    BY <1>5, <2>1 DEF IInv, AnswerIsAPrefix, Close, Goto, peer
<1>6. CASE Fail
  <2>1. TypeOK'
    BY <1>6 DEF IInv, TypeOK, Fail, Goto, peer
  <2> QED
    BY <1>6, <2>1 DEF IInv, AnswerIsAPrefix, Fail, Goto, peer
<1>7. CASE Send
  <2>1. sent' \in 0..MaxStream /\ taken \in 0..sent'
    BY <1>7 DEF IInv, TypeOK, Send
  <2>2. TypeOK'
    BY <1>7, <2>1 DEF IInv, TypeOK, Send, client
  <2> QED
    BY <1>7, <2>2 DEF IInv, AnswerIsAPrefix, Send, client
<1>8. CASE PeerClose
  <2>1. TypeOK'
    BY <1>8 DEF IInv, TypeOK, PeerClose, client
  <2> QED
    BY <1>8, <2>1 DEF IInv, AnswerIsAPrefix, PeerClose, client
<1>9. CASE UNCHANGED vars
  <2>1. TypeOK'
    BY <1>9 DEF IInv, TypeOK, vars, client, peer
  <2> QED
    BY <1>9, <2>1 DEF IInv, AnswerIsAPrefix, vars, client, peer
<1> QED
  BY <1>1, <1>2, <1>3, <1>4, <1>5, <1>6, <1>7, <1>8, <1>9 DEF Next, Client

THEOREM DppsInvariant == Spec => []IInv
<1>1. Init => IInv
  BY InitInv
<1>2. IInv /\ [Next]_vars => IInv'
  BY NextInv
<1> QED
  BY <1>1, <1>2, PTL DEF Spec

\* The client is type correct for every size of the buffer and every answer.
THEOREM DppsTypeCorrect == Spec => []TypeOK
<1>1. IInv => TypeOK
  BY DEF IInv
<1> QED
  BY <1>1, DppsInvariant, PTL

\* No read reaches behind the buffer, or asks for no bytes.
THEOREM DppsReadsInside == Spec => []ReadStaysInside
<1>1. IInv => ReadStaysInside
  BY DEF IInv
<1> QED
  BY <1>1, DppsInvariant, PTL

\* The buffer holds the beginning of the answer and NULs behind it, however the
\* answer was cut into pieces.
THEOREM DppsAnswerIsAPrefix == Spec => []AnswerIsAPrefix
<1>1. IInv => AnswerIsAPrefix
  BY DEF IInv
<1> QED
  BY <1>1, DppsInvariant, PTL

\* The socket is closed whichever way the call ends.
THEOREM DppsClosesItsSocket == Spec => []NothingStaysOpen
<1>1. IInv => NothingStaysOpen
  BY DEF IInv, Opened, NothingStaysOpen
<1> QED
  BY <1>1, DppsInvariant, PTL

-----------------------------------------------------------------------------
\* The steps the client still takes, at most: a read and a poll for each byte that is
\* left of the buffer, and the way out.
Left ==
  CASE pc = "connect" -> 2 * len + 4
    [] pc = "write"   -> 2 * len + 3
    [] pc = "poll"    -> 2 * len + 3
    [] pc = "read"    -> 2 * len + 2
    [] pc = "close"   -> 1
    [] pc = "done"    -> 0

CountsDown ==
  /\ Left' =< Left
  /\ Client \/ Fail => Left' < Left

LEMMA LeftValues ==
  /\ pc = "connect" => Left = 2 * len + 4
  /\ pc = "write"   => Left = 2 * len + 3
  /\ pc = "poll"    => Left = 2 * len + 3
  /\ pc = "read"    => Left = 2 * len + 2
  /\ pc = "close"   => Left = 1
  /\ pc = "done"    => Left = 0
BY DEF Left

LEMMA LeftIsBounded == IInv => Left \in 0..(2 * size + 4)
<1> SUFFICES ASSUME IInv PROVE Left \in 0..(2 * size + 4)
  OBVIOUS
<1>1. size \in Nat /\ len \in 0..size
  BY DEF IInv, TypeOK
<1>2. pc \in {"connect", "write", "read", "poll", "close", "done"}
  BY DEF IInv, TypeOK
<1> QED
  BY <1>1, <1>2, LeftValues

\* A step of the client takes it on its way; what the peer does takes it nowhere.
LEMMA StepCountsDown == IInv /\ IInv' /\ [Next]_vars => CountsDown
<1> SUFFICES ASSUME IInv, IInv', [Next]_vars PROVE CountsDown
  OBVIOUS
<1>1. len \in Nat /\ len' \in Nat /\ Left \in Nat /\ Left' \in Nat
  <2>1. size \in Nat /\ len \in 0..size /\ size' \in Nat /\ len' \in 0..size'
    BY DEF IInv, TypeOK
  <2>2. (IInv => Left \in 0..(2 * size + 4))'
    BY LeftIsBounded, PTL
  <2> QED
    BY <2>1, <2>2, LeftIsBounded
<1>2. (/\ pc = "connect" => Left = 2 * len + 4
       /\ pc = "write"   => Left = 2 * len + 3
       /\ pc = "poll"    => Left = 2 * len + 3
       /\ pc = "read"    => Left = 2 * len + 2
       /\ pc = "close"   => Left = 1
       /\ pc = "done"    => Left = 0)'
  BY LeftValues, PTL
<1>3. ASSUME Client \/ Fail PROVE Left' < Left
  <2>1. CASE Connect
    BY <1>1, <1>2, <2>1, LeftValues DEF Connect, Goto
  <2>2. CASE Write
    BY <1>1, <1>2, <2>2, LeftValues DEF Write, Goto
  <2>3. CASE Read
    <3>1. pc = "read" /\ pc' \in {"poll", "close"}
      BY <2>3 DEF Read, Goto
    <3>2. ASSUME pc' = "poll" PROVE len' < len
      <4>1. PICK n \in 1..(sent - taken) : len' = len - n
        BY <2>3, <3>2 DEF Read, Goto
      <4>2. n \in Nat /\ n >= 1
        BY <4>1 DEF IInv, TypeOK
      <4> QED
        BY <1>1, <4>1, <4>2
    <3>3. CASE pc' = "poll"
      <4>1. Left = 2 * len + 2 /\ Left' = 2 * len' + 3 /\ len' < len
        BY <1>2, <3>1, <3>2, <3>3, LeftValues
      <4>2. \A a, b \in Nat : b < a => 2 * b + 3 < 2 * a + 2
        OBVIOUS
      <4> QED
        BY <1>1, <4>1, <4>2
    <3>4. CASE pc' = "close"
      <4>1. Left = 2 * len + 2 /\ Left' = 1
        BY <1>2, <3>1, <3>4, LeftValues
      <4> QED
        BY <1>1, <4>1
    <3> QED
      BY <3>1, <3>3, <3>4
  <2>4. CASE Poll
    BY <1>1, <1>2, <2>4, LeftValues DEF Poll, Goto
  <2>5. CASE Close
    BY <1>1, <1>2, <2>5, LeftValues DEF Close, Goto
  <2>6. CASE Fail
    BY <1>1, <1>2, <2>6, LeftValues DEF Fail, Goto
  <2> QED
    BY <1>3, <2>1, <2>2, <2>3, <2>4, <2>5, <2>6 DEF Client
<1>4. ASSUME UNCHANGED client PROVE Left' = Left
  BY <1>4 DEF client, Left
<1>5. Client \/ Fail \/ UNCHANGED client
  BY DEF Next, Send, PeerClose, vars
<1> QED
  BY <1>1, <1>3, <1>4, <1>5 DEF CountsDown

\* The second half of AnyAnswerEndsTheCall, for every size of the buffer, every answer
\* and every error: a call that connects takes at most 2 * size + 4 steps of its own,
\* and no peer can give it more to do, neither by an endless answer nor by one that
\* comes byte by byte (Utils.cpp:44-66).
THEOREM DppsCallIsBounded ==
  Spec => [](Left \in 0..(2 * size + 4)) /\ [][CountsDown]_vars
<1>1. IInv => Left \in 0..(2 * size + 4)
  BY LeftIsBounded
<1>2. IInv /\ IInv' /\ [Next]_vars => [CountsDown]_vars
  BY StepCountsDown
<1> QED
  BY <1>1, <1>2, InitInv, NextInv, PTL DEF Spec

=============================================================================
