------------------------------ MODULE Vibrator ------------------------------
(***************************************************************************)
(* The vibrator HAL of src/vibrator.  It keeps nothing: a call is one call *)
(* of the vendor's device, and an answer.  Between the two, and between    *)
(* any two calls, a timeout may expire or an effect end, and the HAL may   *)
(* be killed while the motor goes on.  One binder thread serves, so that   *)
(* one call is in the HAL at a time.  The device does what its header says *)
(* and no more: a call that fails may have had its effect or not, and one  *)
(* that the header forbids may do anything.  The numbering of the HIDL     *)
(* effects is external.                                                    *)
(***************************************************************************)
EXTENDS Integers

CONSTANTS
  Effects,          \* the effects asked for, by their HIDL number
  Strengths,        \* the strengths asked for, which HIDL does not check
  Memory,           \* what an uninitialised byte may hold
  DeviceOutcomes    \* the results of a device call: TRUE 0, FALSE an error

ASSUME VibratorAssumption ==
  /\ Effects \subseteq Nat /\ Memory \in (SUBSET (0..255)) \ {{}}
  /\ DeviceOutcomes \in (SUBSET BOOLEAN) \ {{}}

\* The last effect of each version of the interface; effect 6 is RINGTONE_1.
Last == [V1_0 |-> 1, V1_1 |-> 2, V1_2 |-> 20]

\* The device's numbers of CLICK, DOUBLE_CLICK, TICK, THUD, POP and HEAVY_CLICK.
Ids == <<31008, 31003, 21000, 30900, 22520, 30900>>

Amplitude == [LIGHT |-> 50, MEDIUM |-> 120, STRONG |-> 255]

\* What the motor does: nothing, a plain vibration, or an effect.
Idle == [id |-> 0, strn |-> 0]
Timed == [id |-> 1, strn |-> 0]
Vibrations ==
  {Idle, Timed} \cup [id : {Ids[n] : n \in DOMAIN Ids}, strn : 0..255]

Performs ==
  [op : {"perform"}, version : DOMAIN Last, effect : Effects, strength : Strengths]
Calls == [op : {"on", "off", "setAmplitude"}] \cup Performs
NoCall == [op |-> "none"]

Answer(status, ms) == [status |-> status, ms |-> ms]
Pending == Answer("pending", 0)
Answers ==
  {Pending} \cup [status : {"OK", "UNKNOWN_ERROR", "UNSUPPORTED_OPERATION"}, ms : {0, 200}]

VARIABLES
  up,         \* the HAL is registered and serves
  call,       \* the call that is served, or NoCall
  answer,     \* its answer, Pending until the device has returned
  motor,      \* what the motor does
  timer,      \* the timeout of a vibrator_on has neither expired nor been cancelled
  expected,   \* history: the vibrations that clients, from their answers, reckon with
  breach      \* history: the call that is served has broken the device's contract

vars == <<up, call, answer, motor, timer, expected, breach>>

TypeOK ==
  /\ up \in BOOLEAN /\ call \in Calls \cup {NoCall} /\ answer \in Answers
  /\ motor \in Vibrations /\ timer \in BOOLEAN
  /\ expected \subseteq Vibrations /\ breach \in BOOLEAN

Init ==
  /\ up = FALSE /\ call = NoCall /\ answer = Pending /\ motor = Idle /\ timer = FALSE
  /\ expected = {} /\ breach = FALSE

-----------------------------------------------------------------------------
\* main(): without a module, or a device, it returns and is started again.
Start == ~up /\ up' = TRUE /\ UNCHANGED <<call, answer, motor, timer, expected, breach>>

Call(c) ==
  /\ up /\ call = NoCall /\ call' = c
  /\ UNCHANGED <<up, answer, motor, timer, expected, breach>>

Serving(op) == call.op = op /\ answer = Pending

\* What a call leaves on the device: the vibration and the timeout, if it succeeds.
Leaves(ok, vibration, timeout) ==
  /\ motor' \in IF ok THEN {vibration} ELSE {motor, vibration}
  /\ timer' \in IF ok THEN {timeout} ELSE {timer, timeout}
  /\ motor' = Timed => timer'

\* vibrator_on while the earlier timeout runs, which its header forbids.
Forbidden ==
  /\ motor' \in {motor, Timed, Idle} /\ timer' \in BOOLEAN /\ (motor' = Timed => timer')
  /\ answer' \in {Answer("OK", 0), Answer("UNKNOWN_ERROR", 0)}

\* The call of the device, whose error becomes UNKNOWN_ERROR, and the answer to it.
Device(vibration, timeout, ms) ==
  \E ok \in DeviceOutcomes :
    /\ Leaves(ok, vibration, timeout)
    /\ answer' = IF ok THEN Answer("OK", ms) ELSE Answer("UNKNOWN_ERROR", 0)

WithoutDevice(status) == answer' = Answer(status, 0) /\ UNCHANGED <<motor, timer>>

\* on() does not ask whether an earlier timeout still runs.
On ==
  /\ Serving("on") /\ breach' = timer
  /\ IF timer THEN Forbidden ELSE Device(Timed, TRUE, 0)
  /\ UNCHANGED <<up, call, expected>>

\* Mutated: the device's result is not looked at.
OffUnchecked ==
  /\ Serving("off") /\ answer' = Answer("OK", 0)
  /\ \E ok \in DeviceOutcomes : Leaves(ok, Idle, FALSE)
  /\ UNCHANGED <<up, call, expected, breach>>

Off == Serving("off") /\ Device(Idle, FALSE, 0) /\ UNCHANGED <<up, call, expected, breach>>

SetAmplitude ==
  /\ Serving("setAmplitude") /\ WithoutDevice("UNSUPPORTED_OPERATION")
  /\ UNCHANGED <<up, call, expected, breach>>

\* A strength that no case of the switch sets leaves strn as the stack held it.
Strn(strength) == IF strength \in DOMAIN Amplitude THEN {Amplitude[strength]} ELSE Memory

\* Mutated: an unknown effect is logged, and falls out of the switch unanswered.
PerformKnownOnly ==
  /\ Serving("perform") /\ UNCHANGED <<up, call, expected, breach>>
  /\ \/ /\ call.effect > Last[call.version]
        /\ WithoutDevice("UNSUPPORTED_OPERATION")
     \/ /\ call.effect <= Last[call.version] /\ call.effect + 1 \in DOMAIN Ids
        /\ \E s \in Strn(call.strength) : Device([id |-> Ids[call.effect + 1], strn |-> s], timer, 200)

\* perform, perform_1_1 and perform_1_2: the range of the version first; then an
\* effect the switch does not know is answered with the status as it stands.
Perform ==
  /\ Serving("perform") /\ UNCHANGED <<up, call, expected, breach>>
  /\ \/ /\ call.effect > Last[call.version]
        /\ WithoutDevice("UNSUPPORTED_OPERATION")
     \/ /\ call.effect <= Last[call.version] /\ call.effect + 1 \notin DOMAIN Ids
        /\ WithoutDevice("OK")
     \/ /\ call.effect <= Last[call.version] /\ call.effect + 1 \in DOMAIN Ids
        /\ \E s \in Strn(call.strength) : Device([id |-> Ids[call.effect + 1], strn |-> s], timer, 200)

\* A call that starts or ends a vibration, and succeeds; an effect is known to run
\* when the answer comes with the time it takes.
Acknowledged == answer.status = "OK" /\ (call.op \in {"on", "off"} \/ answer.ms > 0)

\* The vibrations that the call asks for: at the strength it names, or at any if that
\* is none of the interface's.
Asked ==
  CASE call.op = "on" -> {Timed}
    [] call.op = "perform" /\ call.effect + 1 \in DOMAIN Ids ->
         [id : {Ids[call.effect + 1]},
          strn : IF call.strength \in DOMAIN Amplitude THEN {Amplitude[call.strength]} ELSE 0..255]
    [] OTHER -> {}

\* What clients reckon with when the call has been answered: an effect leaves a
\* timeout running, and a call that failed, or was forbidden, may have done its work.
Reckoned ==
  CASE answer.status = "UNSUPPORTED_OPERATION" -> expected
    [] Acknowledged /\ ~breach -> Asked \cup {v \in expected : v = Timed /\ call.op = "perform"}
    [] OTHER -> expected \cup Asked

Return ==
  /\ answer # Pending /\ answer' = Pending /\ call' = NoCall
  /\ expected' = Reckoned /\ breach' = FALSE
  /\ UNCHANGED <<up, motor, timer>>

\* The process is killed: its client gets an error, and the motor goes on.
Die ==
  /\ up /\ up' = FALSE /\ call' = NoCall /\ answer' = Pending
  /\ expected' = expected \cup Asked /\ breach' = FALSE
  /\ UNCHANGED <<motor, timer>>

\* An effect is over: the motor stops, or goes back to the vibration it interrupted.
EffectEnds ==
  /\ motor \notin {Idle, Timed} /\ motor' \in {Idle} \cup {v \in {Timed} : timer}
  /\ UNCHANGED <<up, call, answer, timer, expected, breach>>

\* The timeout expires: whether it ends an effect too, the header does not say.
TimeoutExpires ==
  /\ timer /\ timer' = FALSE /\ motor' \in {Idle} \cup ({motor} \ {Timed})
  /\ UNCHANGED <<up, call, answer, expected, breach>>

Serve == On \/ Off \/ SetAmplitude \/ Perform \/ Return

Next ==
  Start \/ (\E c \in Calls : Call(c)) \/ Serve \/ Die \/ EffectEnds \/ TimeoutExpires

Spec == Init /\ [][Next]_vars /\ WF_vars(Serve)

-----------------------------------------------------------------------------
\* Between two calls the motor is idle, or does what clients can tell from their
\* answers, at the strength they asked for: after an acknowledged off() it is idle
\* until the next call, whatever has failed, however often the HAL was restarted in
\* the middle of a call, and even after a call of the device that its header forbids
\* (Vibrator.cpp:37-53, 113-136).
RunsAsAnnounced == call = NoCall => motor \in expected \cup {Idle}

\* vibrator_on is only called after the timeout before it has expired or was cancelled
\* through vibrator_off (hardware/vibrator.h:49-50).
OnKeepsTheContract == ~breach

\* Every call that is served is answered, or fails with the process: no path
\* through perform leaves without its callback (Vibrator.cpp:83-149).
EveryCallReturns == call # NoCall ~> call = NoCall

=============================================================================
