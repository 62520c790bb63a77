--------------------------- MODULE VibratorProofs ---------------------------
(***************************************************************************)
(* Type correctness of the vibrator HAL, and that the motor does what the  *)
(* clients were told, for every set of effects, strengths and outcomes.    *)
(***************************************************************************)
EXTENDS Vibrator, TLAPS

USE VibratorAssumption

\* Every strength fits a byte, those that no case of the switch sets included.
LEMMA StrnIsByte ==
  ASSUME NEW strength
  PROVE  /\ Strn(strength) \subseteq 0..255
         /\ strength \in DOMAIN Amplitude =>
              Strn(strength) = {Amplitude[strength]} /\ Amplitude[strength] \in 0..255
<1>1. DOMAIN Amplitude = {"LIGHT", "MEDIUM", "STRONG"}
  BY DEF Amplitude
<1>2. /\ Amplitude["LIGHT"] = 50 /\ Amplitude["MEDIUM"] = 120 /\ Amplitude["STRONG"] = 255
  BY DEF Amplitude
<1>3. CASE strength \in DOMAIN Amplitude
  <2>1. Amplitude[strength] \in 0..255
    BY <1>1, <1>2, <1>3
  <2> QED
    BY <2>1, <1>3 DEF Strn
<1>4. CASE strength \notin DOMAIN Amplitude
  BY <1>4 DEF Strn
<1> QED
  BY <1>3, <1>4

\* What a known effect makes of the motor is a vibration.
LEMMA EffectIsVibration ==
  ASSUME NEW n \in DOMAIN Ids, NEW s \in 0..255
  PROVE  [id |-> Ids[n], strn |-> s] \in Vibrations
  BY DEF Vibrations

LEMMA PlainVibrations == Idle \in Vibrations /\ Timed \in Vibrations
  BY DEF Vibrations

LEMMA AnswersAreAnswers ==
  /\ Pending \in Answers
  /\ \A ms \in {0, 200} : Answer("OK", ms) \in Answers
  /\ \A status \in {"OK", "UNKNOWN_ERROR", "UNSUPPORTED_OPERATION"} :
       Answer(status, 0) \in Answers
  BY DEF Answers, Answer, Pending

\* What a call asks for is a vibration, and so is what clients reckon with.
LEMMA AskedType ==
  ASSUME TypeOK
  PROVE  Asked \subseteq Vibrations
<1>1. CASE call.op = "perform" /\ call.effect + 1 \in DOMAIN Ids
  <2>1. ASSUME NEW v \in Asked PROVE v \in Vibrations
    <3>1. v = [id |-> Ids[call.effect + 1], strn |-> v.strn] /\ v.strn \in 0..255
      BY <1>1, <2>1, StrnIsByte DEF Asked
    <3> QED
      BY <1>1, <3>1, EffectIsVibration
  <2> QED
    BY <2>1
<1>2. CASE ~(call.op = "perform" /\ call.effect + 1 \in DOMAIN Ids)
  BY <1>2, PlainVibrations DEF Asked
<1> QED
  BY <1>1, <1>2

\* Whatever was answered, clients reckon with no more than they did and what they asked
\* for; and with all of it, unless they were told that the device has done its work.
LEMMA ReckonedIs ==
  /\ Reckoned \subseteq expected \cup Asked
  /\ Acknowledged /\ ~breach =>
       Asked \subseteq Reckoned
         /\ (call.op = "perform" /\ Timed \in expected => Timed \in Reckoned)
  /\ ~Acknowledged \/ breach => expected \subseteq Reckoned
  /\ answer.status # "UNSUPPORTED_OPERATION" => Asked \subseteq Reckoned
BY DEF Reckoned, Acknowledged

-----------------------------------------------------------------------------
\* The inductive invariant: no answer without a call, and no breach without an answer;
\* an effect that is acknowledged is one of the switch's; and the motor, and whatever a
\* running timeout may bring back, is something clients will reckon with.
Answering ==
  /\ call = NoCall => answer = Pending
  /\ answer = Pending => ~breach
  /\ answer.ms > 0 => call.op = "perform" /\ call.effect + 1 \in DOMAIN Ids

After == IF answer = Pending THEN expected ELSE Reckoned

Reckons(known) == motor \in known \cup {Idle} /\ (timer => Timed \in known)

IInv == TypeOK /\ Answering /\ Reckons(After)

LEMMA InitInv == Init => IInv
<1> SUFFICES ASSUME Init PROVE IInv
  OBVIOUS
<1>1. TypeOK
  BY PlainVibrations, AnswersAreAnswers DEF Init, TypeOK
<1>2. Answering /\ Reckons(After)
  BY DEF Init, Answering, Reckons, After, Pending, Answer
<1> QED
  BY <1>1, <1>2 DEF IInv

\* An answer: what the motor does then is enough to keep the invariant.
LEMMA AnswerKeeps ==
  ASSUME IInv, answer = Pending, call # NoCall, UNCHANGED <<up, call, expected>>,
         answer' \in Answers, answer' # Pending, breach' \in BOOLEAN,
         motor' \in Vibrations, timer' \in BOOLEAN,
         answer'.ms > 0 => call.op = "perform" /\ call.effect + 1 \in DOMAIN Ids,
         motor' \in Reckoned' \cup {Idle}, timer' => Timed \in Reckoned'
  PROVE  IInv'
<1>1. TypeOK'
  BY DEF IInv, TypeOK
<1>2. Answering'
  BY DEF Answering
<1>3. Reckons(After)'
  BY DEF Reckons, After
<1> QED
  BY <1>1, <1>2, <1>3 DEF IInv

\* What the invariant says of a call that is to be answered.
LEMMA Unanswered ==
  ASSUME IInv, answer = Pending
  PROVE  motor \in expected \cup {Idle} /\ (timer => Timed \in expected) /\ ~breach
BY DEF IInv, Reckons, After, Answering

\* The calls of the device, from the answer they give.
LEMMA DeviceKeeps ==
  ASSUME IInv, NEW v, v \in Vibrations, NEW t, NEW ms,
         answer = Pending, call # NoCall, Device(v, t, ms),
         UNCHANGED <<up, call, expected>>, breach' = FALSE,
         \/ ms = 0 /\ call.op \in {"on", "off"}
         \/ ms = 200 /\ call.op = "perform" /\ call.effect + 1 \in DOMAIN Ids,
         v \in Asked \cup {Idle},
         t = FALSE \/ (t = TRUE /\ Timed \in Asked) \/ (t = timer /\ call.op = "perform")
  PROVE  IInv'
<1>1. PICK ok \in DeviceOutcomes :
        /\ Leaves(ok, v, t)
        /\ answer' = IF ok THEN Answer("OK", ms) ELSE Answer("UNKNOWN_ERROR", 0)
  BY DEF Device
<1>2. Asked' = Asked
  BY DEF Asked
<1>3. ok \in BOOLEAN /\ motor \in Vibrations /\ timer \in BOOLEAN
  BY DEF IInv, TypeOK
<1> t \in BOOLEAN
  BY <1>3
<1>4. CASE ok
  <2>1. answer' = Answer("OK", ms) /\ motor' = v /\ timer' = t
    BY <1>1, <1>4 DEF Leaves
  <2>2. answer' \in Answers /\ answer' # Pending /\ answer'.ms = ms /\ answer'.status = "OK"
    BY <2>1, AnswersAreAnswers DEF Answer, Pending
  <2>3. Acknowledged' /\ ~breach'
    BY <2>2 DEF Acknowledged
  <2>4. /\ Asked \subseteq Reckoned'
        /\ call.op = "perform" /\ Timed \in expected => Timed \in Reckoned'
    <3>1. /\ Asked' \subseteq Reckoned'
          /\ call'.op = "perform" /\ Timed \in expected' => Timed \in Reckoned'
      BY <2>3 DEF Reckoned, Acknowledged
    <3> QED
      BY <1>2, <3>1
  <2>5. motor' \in Reckoned' \cup {Idle} /\ (timer' => Timed \in Reckoned')
    BY <2>1, <2>4, Unanswered
  <2>6. motor' \in Vibrations /\ timer' \in BOOLEAN /\ breach' \in BOOLEAN
    BY <2>1
  <2> QED
    BY <2>2, <2>5, <2>6, AnswerKeeps
<1>5. CASE ~ok
  <2>1. answer' = Answer("UNKNOWN_ERROR", 0) /\ motor' \in {motor, v} /\ timer' \in {timer, t}
    BY <1>1, <1>5 DEF Leaves
  <2>2. /\ answer' \in Answers /\ answer' # Pending /\ answer'.ms = 0
        /\ answer'.status = "UNKNOWN_ERROR"
    BY <2>1, AnswersAreAnswers DEF Answer, Pending
  <2>3. Reckoned' = expected \cup Asked
    BY <1>2, <2>2 DEF Reckoned, Acknowledged
  <2>4. motor' \in Reckoned' \cup {Idle} /\ (timer' => Timed \in Reckoned')
    BY <2>1, <2>3, Unanswered
  <2>5. motor' \in Vibrations /\ timer' \in BOOLEAN /\ breach' \in BOOLEAN
    BY <1>3, <2>1
  <2> QED
    BY <2>2, <2>4, <2>5, AnswerKeeps
<1> QED
  BY <1>3, <1>4, <1>5

LEMMA WithoutDeviceKeeps ==
  ASSUME IInv, NEW status \in {"OK", "UNSUPPORTED_OPERATION"}, answer = Pending,
         WithoutDevice(status), UNCHANGED <<up, call, expected, breach>>, call # NoCall,
         call.op \in {"perform", "setAmplitude"}
  PROVE  IInv'
<1>1. /\ answer' \in Answers /\ answer' # Pending /\ answer'.ms = 0
      /\ answer'.status = status
  BY AnswersAreAnswers DEF WithoutDevice, Answer, Pending
<1>2. ~Acknowledged'
  BY <1>1 DEF Acknowledged
<1>3. expected \subseteq Reckoned'
  BY <1>2 DEF Reckoned, Acknowledged
<1>4. motor' \in Vibrations /\ timer' \in BOOLEAN /\ breach' \in BOOLEAN
  BY DEF IInv, TypeOK, WithoutDevice
<1>5. motor' \in Reckoned' \cup {Idle} /\ (timer' => Timed \in Reckoned')
  BY <1>3, Unanswered DEF WithoutDevice
<1> QED
  BY <1>1, <1>4, <1>5, AnswerKeeps

\* on(), while an earlier timeout runs too.
LEMMA OnKeeps == IInv /\ On => IInv'
<1> SUFFICES ASSUME IInv, On PROVE IInv'
  OBVIOUS
<1>1. answer = Pending /\ call.op = "on" /\ call # NoCall /\ UNCHANGED <<up, call, expected>>
  BY DEF On, Serving, NoCall
<1>2. Asked = {Timed} /\ Asked' = {Timed}
  BY <1>1 DEF Asked
<1>3. CASE timer
  <2>1. Forbidden /\ breach' = timer /\ timer = TRUE
    BY <1>3 DEF On, IInv, TypeOK
  <2>2. \E status \in {"OK", "UNKNOWN_ERROR"} : answer' = Answer(status, 0)
    BY <2>1 DEF Forbidden
  <2>3. /\ answer' \in Answers /\ answer' # Pending /\ answer'.ms = 0
        /\ answer'.status # "UNSUPPORTED_OPERATION"
    BY <2>2, AnswersAreAnswers DEF Answer, Pending
  <2>4. Reckoned' = expected \cup {Timed}
    BY <1>1, <1>2, <2>1, <2>3 DEF Reckoned
  <2>5. /\ motor' \in {motor, Timed, Idle} /\ timer' \in BOOLEAN
        /\ motor \in Vibrations
    BY <2>1 DEF Forbidden, IInv, TypeOK
  <2>6. motor' \in Reckoned' \cup {Idle} /\ (timer' => Timed \in Reckoned')
    BY <1>1, <2>4, <2>5, Unanswered
  <2> QED
    BY <1>1, <2>1, <2>3, <2>5, <2>6, PlainVibrations, AnswerKeeps
<1>4. CASE ~timer
  <2>1. breach' = FALSE
    <3>1. timer = FALSE
      BY <1>4 DEF IInv, TypeOK
    <3> QED
      BY <3>1 DEF On
  <2>2. Device(Timed, TRUE, 0)
    BY <1>4 DEF On
  <2> QED
    BY <1>1, <1>2, <2>1, <2>2, PlainVibrations, DeviceKeeps, Zenon
<1> QED
  BY <1>3, <1>4

LEMMA PerformKeeps == IInv /\ Perform => IInv'
<1> SUFFICES ASSUME IInv, Perform PROVE IInv'
  OBVIOUS
<1>1. /\ answer = Pending /\ call.op = "perform" /\ call # NoCall
      /\ UNCHANGED <<up, call, expected, breach>>
  BY DEF Perform, Serving, NoCall
<1>2. breach = FALSE /\ timer \in BOOLEAN
  BY <1>1, Unanswered DEF IInv, TypeOK
<1>3. CASE WithoutDevice("UNSUPPORTED_OPERATION") \/ WithoutDevice("OK")
  BY <1>1, <1>3, WithoutDeviceKeeps
<1>4. CASE /\ call.effect <= Last[call.version] /\ call.effect + 1 \in DOMAIN Ids
           /\ \E s \in Strn(call.strength) :
                Device([id |-> Ids[call.effect + 1], strn |-> s], timer, 200)
  <2> PICK s \in Strn(call.strength) :
         Device([id |-> Ids[call.effect + 1], strn |-> s], timer, 200)
    BY <1>4
  <2> DEFINE v == [id |-> Ids[call.effect + 1], strn |-> s]
  <2> s \in 0..255 /\ (call.strength \in DOMAIN Amplitude => s = Amplitude[call.strength])
    BY StrnIsByte
  <2>1. v \in Vibrations /\ v \in Asked \cup {Idle} /\ Device(v, timer, 200)
    BY <1>1, <1>4, EffectIsVibration DEF Asked
  <2>2. breach' = FALSE /\ UNCHANGED <<up, call, expected>>
    BY <1>1, <1>2
  <2> HIDE DEF v
  <2> QED
    BY <1>1, <1>4, <2>1, <2>2, DeviceKeeps
<1> QED
  BY <1>3, <1>4 DEF Perform

\* Every step keeps the invariant.
LEMMA NextInv == IInv /\ [Next]_vars => IInv'
<1> SUFFICES ASSUME IInv, [Next]_vars PROVE IInv'
  OBVIOUS
<1>1. CASE Start
  <2>1. Reckoned' = Reckoned
    BY <1>1 DEF Start, Reckoned, Acknowledged, Asked
  <2> QED
    BY <1>1, <2>1 DEF Start, IInv, TypeOK, Answering, Reckons, After
<1>2. ASSUME NEW c \in Calls, Call(c) PROVE IInv'
  <2>1. answer = Pending
    BY <1>2 DEF IInv, Answering, Call
  <2>2. TypeOK'
    BY <1>2 DEF IInv, TypeOK, Call
  <2>3. Answering'
    BY <1>2, <2>1 DEF IInv, Answering, Call, Pending, Answer
  <2> QED
    BY <1>2, <2>1, <2>2, <2>3 DEF IInv, Reckons, After, Call
<1>3. CASE On
  BY <1>3, OnKeeps
<1>4. CASE Off
  <2>1. call # NoCall /\ call.op = "off" /\ answer = Pending
    BY <1>4 DEF Off, Serving, NoCall
  <2>2. breach = FALSE
    BY <2>1, Unanswered DEF IInv, TypeOK
  <2> QED
    BY <1>4, <2>1, <2>2, PlainVibrations, DeviceKeeps, Zenon DEF Off
<1>5. CASE SetAmplitude
  <2>1. call # NoCall /\ call.op = "setAmplitude" /\ answer = Pending
    BY <1>5 DEF SetAmplitude, Serving, NoCall
  <2> QED
    BY <1>5, <2>1, WithoutDeviceKeeps DEF SetAmplitude
<1>6. CASE Perform
  BY <1>6, PerformKeeps
<1>7. CASE Return
  <2>1. expected' = After /\ answer' = Pending /\ call' = NoCall /\ breach' = FALSE
        /\ UNCHANGED <<up, motor, timer>>
    BY <1>7 DEF Return, After
  <2>2. expected' \subseteq Vibrations
    BY <2>1, AskedType, ReckonedIs DEF After, IInv, TypeOK
  <2>3. TypeOK'
    BY <2>1, <2>2, AnswersAreAnswers DEF IInv, TypeOK
  <2>4. Answering'
    BY <2>1 DEF Answering, Pending, Answer
  <2>5. Reckons(After)'
    BY <2>1 DEF IInv, Reckons, After
  <2> QED
    BY <2>3, <2>4, <2>5 DEF IInv
<1>8. CASE Die
  <2>1. TypeOK'
    BY <1>8, AnswersAreAnswers, AskedType DEF IInv, TypeOK, Die
  <2>2. Answering'
    BY <1>8 DEF Answering, Die, Pending, Answer
  <2>3. After \subseteq expected \cup Asked
    BY ReckonedIs DEF After
  <2>4. Reckons(After)'
    BY <1>8, <2>3 DEF IInv, Reckons, After, Die
  <2> QED
    BY <2>1, <2>2, <2>4 DEF IInv
<1>9. CASE EffectEnds \/ TimeoutExpires
  <2>1. /\ UNCHANGED <<up, call, answer, expected, breach>>
        /\ motor' = motor \/ motor' = Idle \/ (motor' = Timed /\ timer)
        /\ timer' = timer \/ timer' = FALSE
    BY <1>9 DEF EffectEnds, TimeoutExpires
  <2>2. After' = After
    BY <2>1 DEF After, Reckoned, Acknowledged, Asked
  <2>3. TypeOK'
    BY <2>1, PlainVibrations DEF IInv, TypeOK
  <2>4. Answering'
    BY <2>1 DEF IInv, Answering
  <2>5. Reckons(After)'
    BY <2>1, <2>2 DEF IInv, Reckons
  <2> QED
    BY <2>3, <2>4, <2>5 DEF IInv
<1>10. CASE UNCHANGED vars
  <2>1. After' = After
    BY <1>10 DEF vars, After, Reckoned, Acknowledged, Asked
  <2> QED
    BY <1>10, <2>1 DEF vars, IInv, TypeOK, Answering, Reckons
<1> QED
  BY <1>1, <1>2, <1>3, <1>4, <1>5, <1>6, <1>7, <1>8, <1>9, <1>10 DEF Next, Serve

THEOREM VibratorInvariant == Spec => []IInv
<1>1. Init => IInv
  BY InitInv
<1>2. IInv /\ [Next]_vars => IInv'
  BY NextInv
<1> QED
  BY <1>1, <1>2, PTL DEF Spec

\* The HAL is type correct: whatever is asked, the device gets a number of its own
\* and a strength that fits a byte.
THEOREM VibratorTypeCorrect == Spec => []TypeOK
<1>1. IInv => TypeOK
  BY DEF IInv
<1> QED
  BY <1>1, VibratorInvariant, PTL

\* RunsAsAnnounced: for every set of effects and strengths, whichever calls of the
\* device fail, and although on() breaks the device's contract (Vibrator.cpp:37-53,
\* 113-136).
THEOREM MotorRunsAsAnnounced == Spec => []RunsAsAnnounced
<1>1. IInv => RunsAsAnnounced
  BY DEF IInv, Answering, Reckons, After, RunsAsAnnounced
<1> QED
  BY <1>1, VibratorInvariant, PTL

-----------------------------------------------------------------------------
\* The steps of the HAL that a call still takes: one to its answer, one to return it.
ToReturn == IF call = NoCall THEN 0 ELSE IF answer = Pending THEN 2 ELSE 1

CallGoesOn ==
  call # NoCall =>
    /\ ToReturn' =< ToReturn
    /\ Serve => ToReturn' < ToReturn

LEMMA OnlyPendingIsPending == \A ms, status : Answer(status, ms) = Pending => status = "pending"
BY DEF Answer, Pending

\* The safety half of EveryCallReturns: a call is out of the HAL after two of its steps,
\* whatever the device answers, and nothing else holds it up (Vibrator.cpp:37-149).
THEOREM VibratorCallIsBounded == Spec => [][CallGoesOn]_vars
<1>1. IInv /\ [Next]_vars => [CallGoesOn]_vars
  <2> SUFFICES ASSUME IInv, [Next]_vars, call # NoCall
               PROVE  ToReturn' =< ToReturn /\ (Serve => ToReturn' < ToReturn)
    BY DEF CallGoesOn
  <2>1. CASE On \/ Off \/ SetAmplitude \/ Perform
    <3>1. answer = Pending /\ call' = call
      BY <2>1 DEF On, Off, SetAmplitude, Perform, Serving
    <3>2. \E ms : \E status \in {"OK", "UNKNOWN_ERROR", "UNSUPPORTED_OPERATION"} :
            answer' = Answer(status, ms)
      BY <2>1 DEF On, Off, SetAmplitude, Perform, Device, WithoutDevice, Forbidden
    <3>3. answer' # Pending
      BY <3>2, OnlyPendingIsPending
    <3>4. ToReturn = 2 /\ ToReturn' = 1
      BY <3>1, <3>3 DEF ToReturn
    <3> QED
      BY <3>4
  <2>2. CASE Return
    <3>1. ToReturn = 1 /\ ToReturn' = 0
      BY <2>2 DEF Return, ToReturn
    <3> QED
      BY <3>1
  <2>3. CASE ~Serve
    <3>1. (call' = call /\ answer' = answer) \/ call' = NoCall
      BY <2>3 DEF Next, Start, Call, Die, EffectEnds, TimeoutExpires, vars
    <3>2. ToReturn \in 0..2 /\ (call' = call /\ answer' = answer => ToReturn' = ToReturn)
          /\ (call' = NoCall => ToReturn' = 0)
      BY DEF ToReturn
    <3> QED
      BY <2>3, <3>1, <3>2
  <2> QED
    BY <2>1, <2>2, <2>3 DEF Serve
<1> QED
  BY <1>1, VibratorInvariant, PTL DEF Spec

\* An effect the switch does not know is logged as not supported, and answered with
\* "OK" by a path that never touches the motor, which at most goes back to the vibration
\* an effect interrupted, and with a length of 0, which is how a caller can tell
\* (Vibrator.cpp:83-149).
UnknownEffect == call.op = "perform" /\ call.effect + 1 \notin DOMAIN Ids

THEOREM UnknownEffectsAreStill ==
  Spec => /\ [](UnknownEffect => answer.ms = 0)
          /\ [][UnknownEffect => motor' \in {motor, Idle, Timed} /\ (timer' => timer)]_vars
<1>1. IInv => (UnknownEffect => answer.ms = 0)
  <2> SUFFICES ASSUME IInv, UnknownEffect PROVE answer.ms = 0
    OBVIOUS
  <2>1. ~(answer.ms > 0)
    BY DEF IInv, Answering, UnknownEffect
  <2>2. answer.ms \in {0, 200}
    BY DEF IInv, TypeOK, Answers, Pending, Answer
  <2> QED
    BY <2>1, <2>2
<1>2. [Next]_vars => [UnknownEffect => motor' \in {motor, Idle, Timed} /\ (timer' => timer)]_vars
  <2> SUFFICES ASSUME [Next]_vars, UnknownEffect
               PROVE  motor' \in {motor, Idle, Timed} /\ (timer' => timer)
    OBVIOUS
  <2>1. ~On /\ ~Off
    BY DEF On, Off, Serving, UnknownEffect
  <2>2. CASE EffectEnds \/ TimeoutExpires
    BY <2>2 DEF EffectEnds, TimeoutExpires
  <2>3. CASE ~(EffectEnds \/ TimeoutExpires)
    <3>1. UNCHANGED <<motor, timer>>
      BY <2>1, <2>3 DEF Next, Serve, Start, Call, SetAmplitude, Perform, WithoutDevice, Return,
         Die, UnknownEffect, vars
    <3> QED
      BY <3>1
  <2> QED
    BY <2>2, <2>3
<1> QED
  BY <1>1, <1>2, VibratorInvariant, PTL DEF Spec

=============================================================================
