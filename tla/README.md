# Verification of the sm8150-common device tree

The repository holds the device-specific user-space of the Meizu sm8150 phones:
four small HAL processes that sit between Android's framework and a kernel
driver, a vendor daemon or a vendor library, and one extension of the recovery's
update script. Each is short; what is hard about them is what happens *between*
them, *while* they are being started or killed, and at the edges of a few
integer computations. This directory models those parts in TLA+, checks them
with TLC on small instances, and proves the safety properties with TLAPS for
every instance.

## 1. The system

| Part | State | Operations | Interacts with |
| --- | --- | --- | --- |
| FOD HAL, `src/fod` | the proxy of the Goodix daemon; nothing else | `onPress`, `onRelease`, `onShowFODView`, `onHideFODView`, constants, empty handlers, `getDimAmount` | writes the nodes `hbm` and `qos_set`, reads the brightness node, sends commands to the daemon |
| Sunlight enhancement, `src/livedisplay/SunlightEnhancement.cpp` | none: the `hbm` node *is* its state | `isSupported`, `isEnabled`, `setEnabled` | the same `hbm` node as the FOD HAL |
| Picture adjustment, `src/livedisplay/PictureAdjustment.cpp` | the library's entry points and cookie, the remembered answer of `isSupported`, the default adjustment | ranges, get, get default, set | the vendor's display library |
| LiveDisplay service, `src/livedisplay/service.cpp` | the library handle, the session, how far start-up is | `main()` | loads the library, opens and closes its session, registers both services; init restarts it |
| DPPS client, `src/livedisplay/Utils.cpp` | none | `sendDPPSCommand` | a local socket; nothing calls it |
| Light HAL, `src/light` | the panel's range, the last state of two lights | `setLight` for three types, `getSupportedTypes` | the LED's and the backlight's nodes |
| Vibrator HAL, `src/vibrator` | the device handle | `on`, `off`, `perform*` | the vendor's vibrator module |
| Recovery updater, `src/recovery/recovery_updater.cpp` | none | `verify_modem` -> `get_modem_version` -> `bm_search` | the image of the modem partition; called by the script `src/releasetools.py` emits |
| Interfaces, overlays, build files, extraction scripts | - | - | declarations and configuration |

Hard behaviour, and where it is:

* *Two processes, one node.* The FOD HAL (`HBM_ENABLE_PATH`) and sunlight
  enhancement (`FILE_HBM`) switch `/sys/class/meizu/lcm/display/hbm` with no lock
  and no knowledge of each other.
* *Two steps, one call.* `onPress` writes the node and then sends a command. The
  other process, the daemon's death or the HAL's own death may fall in between.
* *A proxy obtained once.* The FOD HAL never looks for the daemon again.
* *One thread, and a call that waits.* `sendCommand` is synchronous and the FOD HAL has
  one thread: a daemon that lives and does not answer holds up every client.
* *Failures nobody sees.* `set()` of the FOD and light HALs ignores a refused
  write; `notifyHal` only logs a failed command.
* *Memory that was never written.* `Light` does not initialise the two states its
  LED is computed from.
* *Restart as a retry.* The LiveDisplay service waits for its backend by exiting;
  clients may already be calling when a later step of the start-up fails.
* *Integer edges.* The scaling of the backlight, the shift tables and the two-way index of
  the Boyer-Moore search, the size of a partition in an int, a hue that goes through a
  float which may not hold it, the dim amount's curve outside the range it was fitted to.
* *Two computations, two processes, one number.* The FOD HAL dims by the backlight
  the light HAL has scaled, and neither knows the range the other works with.
* *A device with a life of its own.* The vibrator's timeout expires when it does, an effect
  may interrupt it, and the motor goes on when the HAL dies in a call. The device's
  header forbids to start it again before that timeout is over.
* *An answer in pieces.* The DPPS client reads from a peer that may be late, endless
  or gone.
* *Libraries that differ.* The display library's entry points are optional, and its
  calls may fail between any two others.

What makes each part correct:

* FOD HAL: commands follow the calls, in order, each at most once; the light is
  right when the daemon hears of a finger, and agrees with what it heard
  afterwards; the boost is on before the view is announced; every call returns, unless
  a live daemon never answers.
* Sunlight enhancement: the setting is lost, or reported wrongly, only because of
  the FOD HAL or of a call that failed with its process, and never in a way that neither
  of them explains.
* LiveDisplay service: the library is used within its session only, the exit
  leaves nothing open, no call is left without an answer, and a backend that
  becomes ready is served.
* Light HAL: a lit request shows; two dark requests are dark once both have been
  made; the backlight uses its whole range and keeps the order of the levels.
* Dim amount: an alpha where the panel fits the curve, never higher for a brighter
  display, and no lower for a range that could not be read.
* Picture adjustment: the display shows the last set that succeeded, writing back what
  clients have set and read changes nothing, and whoever is served gets ranges it can use.
* Vibrator HAL: between two calls the motor is idle or does what the clients can tell
  from their answers; every call is answered.
* DPPS client: it reads inside the buffer, what it leaves there is a terminated
  beginning of the answer, and a peer that says anything sets it free, its socket closed.
* Update gate: only the required stamp installs, no update is refused without a
  reason, every one is decided, and every exit cleans up.
* Boyer-Moore search: it stays inside the text, always advances, and returns the
  first occurrence.

## 2. The modules

### FodRelay: what the FOD HAL promises

The abstract specification: a queue of calls, whether the oldest has been relayed
(`told`), the link to the daemon, and what the daemon heard last. `Relay` tells a live
daemon what the oldest call stands for; `Answer` answers that call once it was relayed,
has nothing to relay, or the link is dead. So a command is lost only over a dead link,
and over a live one no call is answered unrelayed. `Connect` finds the daemon, once for
each life of the HAL; `Crash` drops all calls (the HAL died), `Forget` what the daemon heard
and the link (the daemon died). `Owing` says that a live daemon has an answer to give.

### FingerprintInscreen: the FOD HAL

One binder thread (`configureRpcThreadpool(1, true)`) serves `queue` in order.
`OnPress`, `OnRelease`, `OnShowFODView` and `OnHideFODView` are the handlers up to
their command: the node is written (`SetHbm`, with `IoOutcomes` saying whether a
write may be refused) and `cmd` is set. `Query` stands for the handlers without an effect.
`notifyHal()` is a synchronous call and therefore two steps: with a live proxy
(`bound`), `NotifyHal` is the daemon's receipt of the command (`sent`), and the thread waits
until `DaemonAnswers`, which the daemon may do at any time or never; with a dead
proxy, `NotifyFails` lets the handler return, whether the daemon died before the command
was sent or with it in its hands. `Construct` is the constructor, which waits for the daemon,
`Start` the rest of `main()`, which may fail to register and return; `phase` tells
them apart. `Die`, `DaemonStart`, `DaemonDie` are the lives of the two
processes: a death of the HAL leaves the nodes as they are, a death of the daemon
kills the proxy for good. `writer` and `settled` are history variables: who wrote
the node last, and whether the last press or release went through.

`Relays == INSTANCE FodRelay WITH calls <- queue, told <- sent, link <- Link` is the
refinement: the call whose command is in flight still counts as waiting, and the link is that
of a process which has been built.

### SunlightEnhancement, HbmPanel: the shared node

`SunlightEnhancement` is written on the variables `hbm` and `writer` it shares with
the FOD HAL. Its process has one binder thread as well (`livedisplay/service.cpp:118`).
`SetEnabled` is the write of the node and `Reply` its acknowledgement; in between
(`pending`) the other process may write, and the LiveDisplay process may die (`SunDie`), so
that the node has a setting nobody was told of. `request` (the last setting that
was acknowledged), `failed` (the settings written since by calls that were cut short) and
`reported` (the last answer of `isEnabled`) are history. `HbmPanel` extends the FOD
HAL with it: every step is a step of one of the two processes.

### Light: the light HAL

A call is one step: one thread serves, the mutex is held throughout, and the only
thing that survives the process are the nodes. `Construct` picks any value for
the two light states, which the constructor leaves uninitialised: the generated
HIDL structure `LightState` has no default values. It also picks the default
range when `max_brightness` cannot be read. Of an uninitialised state only its
being lit matters, so `mAttentionState` and `mNotificationState` are Booleans.
`asked` and `fresh` are history: what was asked for in this process, and which
nodes took their last write. `WidestRange` is the widest range for which the unsigned
32-bit product in `setPanelBacklight` wraps for no colour; that it is exactly this one is
a theorem (`WidestRangeIsExact`).

### PanelDim: the dim amount over the backlight

Extends `Light` by the one thing the FOD HAL reads of it. `Curve` is `getDimAmount`'s
formula, `FirstAt` the values of the node at which its integer falls: `pow` is
external, and all that is known of it is that it falls from 255 to 0 over the fitted
range 0..1023. `getDimAmount` reads the node, or takes 0 for one that cannot be read.
`dim` is the last answer and `seen` the colour it belongs to: nothing when the node
was not read, its last write was refused, or the light HAL has been restarted since.
`Worth` is what a colour should make of the driver's own range; `UnreadRangeOnlyDims`
compares with it what the light HAL writes and what the FOD HAL concludes from it when the
first has fallen back to the default range and the second knows of none.

### FindFirst: what a search promises

The abstract specification: where the pattern occurs, whether it is `plain` (it has no
border), and one answer: an occurrence or `None`, and for a plain pattern the first
occurrence exactly if there is one.

### BoyerMoore: the search of the recovery updater

`Delta1` and `Delta2` are what the loops of `bm_make_delta1` and `bm_make_delta2`
leave in their tables, the last write to an entry winning: `LastPrefix` is the
first loop, with the code's `p + 1`, and `Overrides` the second. The outer and the
inner loop of `bm_search` are actions on `i` and `j`. `Find == INSTANCE FindFirst` is
the refinement: the loops stutter, `GiveUp` and `Return` are the `Answer`, and
`SearchSpec` is the abstract specification with its fairness.

### UpdateGate: what the modem assertion promises

The abstract specification: whether the package asks for modems, the seconds it asks
for, and those that reading may give. An install needs a second that is asked for; an
abort needs a reason, which is that reading broke or that what was read is not asked
for; and one of the two happens.

### ModemVerification: the update gate

The script of a package either asserts nothing or asserts that `verify_modem` finds
its time stamp (`AddModemAssertion`, from `releasetools.py`); scripts written by hand may
name several. `Open` to `Close` are `get_modem_version`, one action per call into the
kernel, with the jumps to `err_fd_close` and `err_ret`; `ReadArguments` and `Compare` are
`VerifyModemFn`. `ToInt` keeps the size's width. A text is the sequence of the fields
`strptime` gets to parse from it, and `Mktime` is the calendar: a field that is
missing is 0, a day past its month is one of the next. `Search` relies on what
`SearchOfAMapping` proves of `bm_search`: in the part of the partition that is mapped it
finds the partition's first stamp, or nothing if that stamp ends behind the mapping. An
image also says where the first NUL behind its stamp is (`nul`), because `snprintf`
reads up to there: behind the mapping it takes whatever it meets for text, or crashes
(`SearchCrashes`), and the interpreter's death aborts the update.

`Gate == INSTANCE UpdateGate` is the refinement. A text stands for its second; the
stamp is read when `Search` copies it, or stays `Unread`; `Readable` is what an image
may give, one second for a stamp in reach, none without a stamp, any where `snprintf`
runs out of the mapping. Every failure of a call is the gate's `Fail`, or its `Abort`.

### LiveDisplayService: start-up and clean-up

`stage` is how far `main()` is. Each stage is an action with the outcomes the code
distinguishes; `BadEnd` is `goto shutdown`. `Faults` says which outcomes may happen, each
time anew. `Shutdown` cleans up by what was *resolved*, as the code does. `Exit` and
`Kill` lose everything but the backend's state, and init starts the process again
(`Launch`). `library` is what the device's library exports and reports: `isSupported` says
yes only where it is `Adjustable`, which means that the two entry points it needs are
there and no bound of four ranges is 0 (the threshold's range is not looked at). A
sunlight node that reads as no number makes `std::stoi` throw, and the process dies in the
call (`SunlightThrows`). A client may call from the first registration on; only
`ThreadServes`, main's own thread after `joinRpcThreadpool()`, answers. `stray` is
history: the library was called without a session.

### PictureAdjustment: the values in the service

Extends `LiveDisplayService`: its handlers are refinements of `ServeCall`, each on the
oldest call. Hue is an `int32_t` in the library and a float in the interface, and
neither holds all of the other. It is counted in halves: `Floats` are the hues a float
can hold, `Int32` the integers. `Truncate` is the cast to an integer, of which the
language says nothing if the result does not fit (`Config` is then any hue); `Nearest` is the
cast to a float, which takes one of the nearest. The other four values are floats on
both sides and are one value, the tone. `shown` is what the display has, at first what
its maker has set; `acked` is the last set that succeeded, `unsure` that none has, or that
one has failed or died with the process (`SetCutShort`) since; `settled`, that clients have
set the picture with a hue that fits; `read` and `range` are the last answers and whether
they are those of a failed call.

### Vibrator: the vibrator HAL

`Call` hands a call to the one thread; `On`, `Off`, `SetAmplitude` and `Perform` are
the handlers up to the device's return, `Return` is the answer. The device does what its
header promises: a call that succeeds `Leaves` the vibration and the timeout it names,
one that fails may have had its effect or not. `vibrator_on` is `Forbidden` while an earlier
timeout runs (`timer`): the motor may then go on, start or stop, and the answer may be
either. Between any two steps the timeout may expire (`TimeoutExpires`), an effect may end and
hand the motor back to the vibration it interrupted (`EffectEnds`), and the HAL may die
(`Die`) while the motor goes on. `Perform` has its three ends: an effect out of the version's
range, one the switch does not know, and one that is performed with the amplitude of
the strength; a strength that is none of the three leaves `strn` as the stack held it
(`Memory`). `expected` and `breach` are history: the vibrations that clients reckon with
from their answers (`Reckoned`), and that the present call has broken the device's contract.

### DppsClient: the DPPS socket client

`sendDPPSCommand` call by call: `Connect`, `Write` with the `memset`, `Read`, `Poll`,
`Close`, and `Fail` for each of them. The peer's answer is the numbers 1, 2, ...; it
sends and closes at any time, and `Read` takes any number of bytes there are, up to
what is left of the buffer.

## 3. The runs

| Run | Configuration | Instance | States | Question |
| --- | --- | --- | --- | --- |
| `fod_service` | `fod_service.cfg` | 2 clients, no refused write | 7,559 | does the FOD HAL keep its promises across deaths, restarts and a daemon that takes its time? |
| `hbm_panel` | `hbm_panel.cfg` | 2 clients, refused reads and writes | 776,668 | what remains of them with a second process on the node? |
| `light` | `light.cfg` | `PanelDim` with 5 colours, ranges 100, 255, 1023, 2047 | 700,986 | what does the LED owe to the requests, the backlight to the levels, and the dim amount to both? |
| `bm_search` | `bm_search.cfg` | 2 letters, patterns 1..5, texts 0..8 | 252,044 | is the search right, does it answer, and does it implement `FindFirst`? |
| `modem` | `modem.cfg` | a 4-bit int, months of 2, 1 and 2 days, every fault | 171,340 | does the gate let the right update through, clean up, and implement `UpdateGate`? |
| `livedisplay_faults` | `livedisplay_faults.cfg` | 3 clients, 8 libraries, every fault | 776 | is the library used in session, is the exit clean, does every call end, does the restart loop? |
| `picture` | `picture.cfg` | 2 clients, 7 libraries, floats -4, -2, -1, -0.5, 0, ..., 4, a 3-bit int | 770,560 | does the display show what was acknowledged, and do reading and writing agree? |
| `vibrator` | `vibrator.cfg` | 5 effects, 2 strengths, 3 versions | 8,580 | does the motor do what clients can tell, and is every call answered? |
| `dpps` | `dpps.cfg` | buffers of 1..4, answers of up to 6 bytes | 750 | is the read loop right, and does it end? |
| `bm_bordered` | `bm_bordered.cfg` | 3 letters, patterns 1..3, texts 0..5 | - | is the search right for every pattern? (No.) |
| `livedisplay_cleanup` | `livedisplay_cleanup.cfg` | 3 clients, every fault | - | does the clean-up undo only what was done? (No.) |
| `vibrator_contract` | `vibrator_contract.cfg` | as `vibrator`, no failures | - | does `on()` keep the device's contract? (No.) |

Why the bounds are enough. A client blocks in its call, so the queue is never longer than
the number of clients, and two clients already give every order of two calls around a node
write, a command and a death; the state is otherwise finite. The colours of `light` are
both ends of the scale, two neighbours in its middle and a lit colour whose brightness
rounds to 0; the ranges are one below, at, and above the default, which are also below, of
and behind the range the dim curve was fitted to; the curve itself is tabulated up to the
widest of them. Patterns of five characters over two letters have every combination of
border and inner repetition that distinguishes the two loops of `bm_make_delta2`, and a
text of eight leaves room for a shift that is too long. The partitions of `modem` fit the
int or wrap to a negative number, to 0 or to a smaller size; its calendar has a month
shorter than the next, so that days overflow, its texts break off after every field, and
its stamps end in the mapping or behind it. The libraries of `livedisplay_faults` and
`picture` lack one entry point, one bound or nothing; the floats of `picture` have one bit
of mantissa and its integers three, so that the integers 3 and -3 are no floats, the
floats 0.5 and -0.5 no integers, and the float 4 fits no integer while -4 just does: every
case of both casts, on both sides of zero. The effects of `vibrator` are on both sides of
every version's limit and of the switch's, its strengths one that has an amplitude and one
that has none, and its stack holds two values that no case sets. Six bytes overrun every
buffer of `dpps`, in every way they can be cut into pieces. Type invariants of the modules
that are not in a configuration are proved (section 5). What the instances leave open, the
proofs close.

`bm_search`, `bm_bordered`, `modem` and `dpps` switch off the deadlock check: the search
returns, the update ends, and so does the call.

What the three violation runs show:

* `bm_bordered`: `bm_make_delta2` compares `pat + p` and records `p + 1`, one more than
  the shift needs, so with a pattern that ends as it begins an occurrence can be
  skipped: `aba` is not found in `aaaba`. The updater's own pattern,
  `Time_Stamp": "`, begins with a character that does not occur again and has no
  border; `UniqueFirstIsBorderless` and `SearchIsCorrect` together say that its
  first occurrence is found in every image.
* `livedisplay_cleanup`: after a failed `disp_api_init` the clean-up calls
  `disp_api_deinit` all the same, under the comment "Cleanup what we started".
* `vibrator_contract`: `vibrator.h` says that `vibrator_on` must only be called after the
  earlier timeout has expired or was cancelled through `vibrator_off`; `Vibrator::on` passes
  every call on, so that two calls of `on()` in a row are enough. The run `vibrator`
  goes on after it, with a device that may do anything.

An operator whose comment begins with "Mutated" is no part of a specification: it
is an action or a helper with a plausible bug (a dropped guard, a swapped order, an
off-by-one), kept beside the original. Put in its place, it makes TLC find one of
the properties violated; every property has at least one such mutant.

## 4. Fairness

* `FingerprintInscreen`: weak fairness of `Serve`, the binder thread's own steps; a call on a
  dead proxy fails instead of blocking and is one of them. `DaemonAnswers` is not: nothing
  is assumed of the daemon, of clients, or of restarts. A live daemon that never answers
  holds the only thread for ever, so `EveryCallReturns` has the premise
  `[]<>~DaemonOwes`: no daemon stays alive with a command it never answers. A
  daemon that dies with a command in its hands, or before it has it, needs no premise.
  `FodRelay` asks for `Relay \/ Answer` while the daemon is not `Owing`. `HbmPanel` asks for
  the same `Serve` and has no liveness property of its own.
* `LiveDisplayService`: weak fairness of `Main`, the process's own progress together with
  init's restart (the service is not `oneshot`), and of `ServeCall`: calls of the vendor's
  library return. The backend need not ever become ready, nothing is assumed of the
  faults, and `Kill` may happen for ever. `ReadyBackendIsServed` therefore has a premise
  of its own: that from some point on nothing fails (`Trouble`), whatever happened before.
* `BoyerMoore`: weak fairness of the loop; the thread that runs it does nothing else.
  `FindFirst` asks for its `Answer`.
* `ModemVerification`: weak fairness of `Next`: it is one thread in a straight line
  with one bounded loop, and every call it makes returns. `UpdateGate` asks for
  `Install \/ Abort`.
* `Vibrator`: weak fairness of `Serve`, the one binder thread; the vendor's calls
  return. Nothing is assumed of clients, of the timeout, or of a restart.
* `DppsClient`: weak fairness of `Client`, the calls that return. Nothing is assumed of
  the peer or of the failures: a read waits for as long as the peer says nothing.
* `Light`, `PanelDim` and `PictureAdjustment` have no liveness property: a call is one
  step, and that calls end is asked of `LiveDisplayService`.

## 5. What is proved

Every theorem about a system is of the form `Spec => []P`, `Spec => [][A]_vars` or
`Spec => Abstract!SafeSpec`, for every value of the constants under the assumptions
named in the modules: `FodAssumption` and
`LightAssumption` (the outcomes of a node access are a non-empty set of Booleans;
ranges are at most `WidestRange`, see `WidestRangeIsExact`), `InputsAssumption` (patterns are not
empty), `ServiceAssumption`, `VibratorAssumption` and `DppsAssumption`
(the types of the constants), `PictureAssumption` (0 is a float, and so is the whole part
of a float, which is what IEEE 754 has for every size of number), `DimAssumption` (the dim
curve covers every range and has come down to 0 where it was fitted to, as the power of
1 is 1), `ModemAssumption` (months do not start before earlier ones;
no partition's size wraps to -1, as block devices have even sizes). A theorem that
assumes more says so in its statement: `WaitIsBounded`, that there are finitely many
clients; `IndexFitsInt`, that a text and its pattern fit an int together.

Liveness is out of the prover's reach, but the safety argument that carries it is not.
For each liveness property a theorem gives a measure in the naturals, its bound, the
steps that lower it, and that no step of anyone else raises it: the distance of a waiting
call from its answer, of a ready backend from being served, of the search, the update
and the socket call from their ends. What is left to TLC is that a step which lowers
the measure can be taken until it is 0, and that fairness then makes it be taken.

* `FingerprintInscreenProofs`: `FodTypeCorrect`, `BoostPrecedesUiReady`,
  `FodImplementsRelay`, `NoCallIsOvertaken`, `WaitIsBounded`. `BoostBeforeUiReady` is not
  inductive: a step that sends the command needs to know that the node was written before.
  `IInv` adds what a command in flight stands for: it is that of the oldest call
  (`ServedCall`), and the node is as its handler left it, unless another process or a
  refused write has come between (`LightBeforeCommand`, `BoostBeforeCommand`). `Bindings`
  says that a running HAL with a dead proxy has a daemon that heard nothing. The
  refinement follows: handlers stutter, `NotifyHal` is `Relay`, and what returns is
  `Answer`. `OneCallEach`, that a client waits in one place only, makes `Ahead(c)` a
  measure of its waiting: no step puts the client back, each step of the thread brings it
  forward or sets it free; and, as places map one to one to clients, the wait is at most
  three steps for each client, the daemon's answer among them.
* `HbmPanelProofs`: `PanelTypeCorrect`, `LightAgreesWithFinger`,
  `NodeIsWrittenBeforeCommand`, `SettingIsLostOnlyToFod`, `PhantomSunlightIsAPress`,
  `BoostPrecedesUiReadyInPanel`, `PanelImplementsRelay`, `NoCallIsOvertakenInPanel`. The
  FOD invariant is preserved by the sunlight process too, because it signs what
  it writes (`SunKeepsIInv`). `SettingInv` relates the setting to the node: until the FOD
  HAL writes it, it holds the setting that waits for its answer, or else the one acknowledged
  last or one whose call was cut short since. The FOD HAL's own promises,
  the relay and the order of calls, carry over: the other process touches neither
  queue, command nor daemon.
* `LightProofs`: `LightTypeCorrect`, `LitRequestsShow`, `LedAgrees`, `ScaleIsFull`,
  `BrighterIsBrighter`, `WidestRangeIsExact`; and of `PanelDim`: `DimTypeCorrect`,
  `DimAmountIsAnAlpha`, `UnreadRangeNeverBrightens`, `BrighterIsNeverDimmedMore`,
  `DimLeavesTheLights`. The invariant relates each stored state to the request once
  there is one. The rest is arithmetic: bounds and monotonicity of
  `rgbToBrightness` and of the scaling, as lemmas. For the dim amount, `DimInv` adds that
  the node is on the driver's scale or on the default one, whoever wrote it, and that
  an answer is the curve at its colour; that the curve falls is a fact about the
  cardinality of nested sets (`FallsBounds`). For the range that was not read,
  `ScaledWithinWorth` compares the two scalings, and the curve turns the comparison round.
* `BoyerMooreProofs`: `SearchTypeCorrect`, `SearchReadsInside`, `SearchFindsOccurrence`,
  `SearchIsCorrect`, `SearchAdvances`, `UniqueFirstIsBorderless`,
  `SearchImplementsFindFirst`, `SearchOfAMapping`, `IndexFitsInt`, `SearchUsesUpItsSteps`,
  `SearchIsBounded`. The invariant: no occurrence starts before the present alignment, and
  the characters behind `j` match. Its core are `Delta1Safe` and `Delta2Safe`: a shift
  that would pass an occurrence contradicts the entry the code has recorded. `Delta2Safe`
  needs the pattern to have no border, which is where the code's `p + 1` matters.
  `IndexIsNear` adds that the index leaves the text by less than a pattern, because a
  shift is at most twice the pattern (`ShiftsAreShort`); so it fits an int, and
  `Remaining` is a natural number that every step lowers, with a border or without.
* `ModemVerificationProofs`: `ModemTypeCorrect`, `ModemLeaksNothing`, `StampIsRead`,
  `GateHolds`, `RefusalHasAReason`, `ModemImplementsGate`, `UpdateIsDecidedInTime`. The
  invariant says at which stages the descriptor and the mapping are held, that an "ok"
  comes with the stamp and an "error" with a reason, and which arguments have been
  compared. `StampsDiffer` is the arithmetic: two well-formed stamps of one second are the
  same. The refinement takes each action to one of the gate's or to a stutter; only the
  copy of the stamp reads, only the calls' failures break. The measure `StepsLeft` counts
  stages and stamps that are not yet compared.
* `LiveDisplayServiceProofs`: `ServiceTypeCorrect`, `LibraryIsCalledInSession`,
  `ExitIsClean`, `SunlightIsNeverAlone`, `NeedlessCloseHarmsNoCall`, `NoCallIsOvertaken`,
  `WaitIsBounded`, `ReadyBackendNears`. The invariant says what `main()` holds at each
  stage, and that an open session can always be closed. `Found` adds what a client can
  know of the process: no registration, no call, no remembered answer before the library
  is initialised. From it follows that the session which the clean-up closes without its
  having been opened (`livedisplay_cleanup`) is one that nobody has seen, and that whoever
  waits has a `main()` in motion. Of `PictureAdjustment`, whose steps are steps of the
  service: `PictureTypeCorrect`, `AcknowledgedPictureShows`, `WritingBackKeepsThePicture`,
  `ServedRangesAreUsable`, `PictureKeepsTheService` and `PictureCallsAreInSession`, which
  take the service's promises over to it. Their core is the arithmetic of the casts: what
  a client has set came from a float, so its whole part is one, the cast back to a float
  is exact and the next set changes nothing (`ConfigOfHsic`). The other part is that a
  process that has registered the service has been told that its library is adjustable.
* `VibratorProofs`: `VibratorTypeCorrect`, `MotorRunsAsAnnounced`, `VibratorCallIsBounded`,
  `UnknownEffectsAreStill`. The invariant has to
  speak of the middle of a call: before the device has returned, the motor is within what
  clients reckoned with; afterwards, within what they will reckon with once they have
  the answer (`After`). `Reckons` adds the vibration that is not running but may come back, that
  of a timeout which an effect has interrupted. An effect the switch does not know is
  answered with `Status::OK`; what remains of a refusal is that it starts nothing and is
  answered with 0 ms.
* `DppsClientProofs`: `DppsTypeCorrect`, `DppsReadsInside`, `DppsAnswerIsAPrefix`,
  `DppsClosesItsSocket`, `DppsCallIsBounded`. The invariant: `off` is the number of bytes
  taken, `off + len` the size, and the buffer is the beginning of the answer, while
  reading goes on.

Only model-checked, because it is liveness: `EveryCallReturns` of the FOD and of the
vibrator HAL, `EveryCallEnds`, `ReadyBackendIsServed`, `AnyAnswerEndsTheCall`, and the
fairness halves of `RelaySpec`, `GateSpec` and `SearchSpec`, whose safety halves are the
three refinement theorems. Every other property of the passing runs is proved.

## 6. Abstractions, and what is not modelled

* The binder driver, the service manager, init, the Goodix daemon, the display
  library and the kernel's nodes appear as the code uses them. A node access is
  atomic and either done or refused.
* `getService()` of the Goodix daemon waits for it and returns a proxy: a vendor manifest
  outside of this repository declares the daemon. The null pointer that an undeclared one
  gives is not modelled.
* `pow` is given by where the integer it leads to falls; the float is not computed. That
  this never rises with the brightness, and is 0 at the end of the fitted range, is the C
  library's promise, and the properties of `PanelDim` rest on it.
* Hues are whole or half. Which of them are floats and which fit an integer is a constant; a
  cast to a float may take either of two nearest ones, and a cast to an integer that does
  not fit gives any. The other four values are passed on as they are and count as one.
* A picture that cannot be read is answered as zeros, without an error; that is in the
  model, and outside the properties.
* `updateDefaultPictureAdjustment` has no caller, so it is no action: the default stays
  what the constructor cleared.
* A set that fails in the library may have reached the display or not.
* `strncmp` would stop at a NUL in the pattern; patterns here have none. Lengths are
  natural numbers; `IndexFitsInt` says which of them the code's `int` index can serve.
* `LiveDisplayService` takes a call of picture adjustment as a use of the library;
  what it reads and writes is `PictureAdjustment`'s.
* The text that `snprintf` meets behind a mapping may be any; the time zone and the leap
  seconds of `mktime` are not modelled.
* The DPPS client: a peer that stays silent from the start holds its caller for ever,
  and an answer that fills the buffer is not terminated; both are in the model, and
  the properties say so. `SIGPIPE` is not modelled: a write to a closed peer is an
  error. Nothing in the repository calls the function.
* The vibrator's numbers of milliseconds are left out: a timeout expires at any time. Of
  the device, the model has what its header promises: not whether a timeout that
  expires ends an effect, nor what a forbidden call does.
* An effect the switch does not know is logged as "Effect not supported" and answered with
  `Status::OK` and 0 ms, where one out of the version's range gets
  `UNSUPPORTED_OPERATION`. Both are in the model; clients of the first reckon with nothing new.
* `GateIsTight` speaks of well-formed stamps. Texts that cannot be parsed all give
  the same cleared `tm`, so they pass for equal; that is in the model, and outside
  the property.
* The Goodix HIDL interfaces are declarations; they appear as the commands and calls of
  `FingerprintInscreen`.
* Not modelled at all: build files, overlays, media profiles, VNDK lists and
  extraction scripts. They have no behaviour at run time.

## 7. Plan

Done, in this order: `FodRelay`, `FingerprintInscreen`, `SunlightEnhancement`,
`HbmPanel`, their proofs; `Light` and its proofs; `BoyerMoore` and its proofs;
`LiveDisplayService` and its proofs; `ModemVerification` and its proofs; `Vibrator`,
`DppsClient`, `PanelDim`, `PictureAdjustment` and their proofs; `UpdateGate` and the
refinement; `FindFirst`, its refinement, and `SearchOfAMapping`, which joins the search
to the gate that uses it; the measures under the liveness properties.

Left:

1. An abstract vibrator, what clients reckon with and nothing of the device, and the
   refinement.
2. `PictureAdjustment` in one run with sunlight enhancement and the FOD HAL: three
   services on one thread and two processes.
