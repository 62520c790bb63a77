------------------------- MODULE ModemVerification -------------------------
(***************************************************************************)
(* The gate of an update package: the script that releasetools.py emits    *)
(* asserts that verify_modem, of src/recovery/recovery_updater.cpp, finds  *)
(* the required time stamp in the modem's partition.                       *)
(*                                                                         *)
(* A text is the sequence of the fields that strptime gets to parse from   *)
(* it: the month (counted through the years), the day and the second of    *)
(* the day.  A text that breaks off leaves the other fields 0, as the code *)
(* has cleared them.  The recovery, its edify interpreter and the block    *)
(* device are external.                                                    *)
(***************************************************************************)
EXTENDS Integers, Sequences

CONSTANTS
  IntHalf,      \* 2^31: an int counts from -IntHalf to IntHalf - 1
  PatLen,       \* MODEM_VER_STR_LEN
  MonthStart,   \* the days before each month
  DayLength,    \* the seconds of a day
  Texts,        \* the time stamps of partitions and of packages
  Images,       \* the partitions: their size, the offsets of the first stamp, or -1, and of
                \* the first NUL behind it, and the stamp's text
  Infos,        \* the packages' requirements, as in android-info.txt
  OtherCalls,   \* the arguments of verify_modem in scripts written by hand
  Faults        \* what may fail

\* Mutated: an int that keeps the unsigned value.
Unsigned(n) == n % (2 * IntHalf)

\* lseek64's answer, kept in an int.
ToInt(n) ==
  LET m == n % (2 * IntHalf)
  IN IF m >= IntHalf THEN m - 2 * IntHalf ELSE m

AllFaults == {"open", "seek", "map", "args"}
IsText(t) == t \in Seq(Nat) /\ Len(t) <= 3 /\ (Len(t) > 0 => t[1] \in DOMAIN MonthStart)

ASSUME ModemAssumption ==
  /\ IntHalf \in Nat \ {0} /\ PatLen \in Nat \ {0} /\ DayLength \in Nat \ {0}
  /\ 0 \in DOMAIN MonthStart /\ DOMAIN MonthStart \subseteq Nat
  /\ \A m \in DOMAIN MonthStart : MonthStart[m] \in Nat
  /\ \A m, n \in DOMAIN MonthStart : m <= n => MonthStart[m] <= MonthStart[n]
  /\ \A t \in Texts : IsText(t)
  /\ \A x \in Images :  \* a block device has an even size, which never wraps to -1
       x.size \in Nat /\ ToInt(x.size) # -1 /\ x.at \in Int /\ x.at >= -1 /\ x.nul \in Nat
       /\ x.text \in Texts
  /\ \A info \in Infos : info.text \in Texts
  /\ OtherCalls \subseteq Seq(Texts)
  /\ Faults \subseteq AllFaults

-----------------------------------------------------------------------------
\* The script: no assertion without a requirement, for an empty one, and for a
\* wildcard.
AddModemAssertion(info) == IF info.require = "version" THEN <<<<info.text>>>> ELSE <<>>

Scripts == {AddModemAssertion(info) : info \in Infos} \cup {<<c>> : c \in OtherCalls}

Field(t, f) == IF f <= Len(t) THEN t[f] ELSE 0

\* Mutated: the time of the day does not count.
MktimeOfDay(t) == (MonthStart[Field(t, 1)] + Field(t, 2)) * DayLength

\* memset, strptime and mktime: a day past the end of its month is one of the next,
\* and day 0 the last of the month before.
Mktime(t) == (MonthStart[Field(t, 1)] + Field(t, 2)) * DayLength + Field(t, 3)

VARIABLES
  image, script,
  pc,                     \* where the script, and verify_modem in it, are
  fd,                     \* the partition is open
  modem_size,
  mapped,                 \* the bytes that are mapped
  ret,                    \* what get_modem_version returns: "ok" (0) or "error"
  current_modem_version,
  k,                      \* the argument that is compared
  verdict,                \* what verify_modem returns, or "none"
  outcome,                \* the update is "running", "aborted" or "installing"
  failed                  \* history: a call has failed, or the interpreter has crashed

inputs == <<image, script>>
reading == <<fd, modem_size, mapped, ret, current_modem_version>>
judging == <<k, verdict, outcome>>
vars == <<inputs, pc, reading, judging, failed>>

\* What current_modem_version holds until snprintf writes it; no text is like it.
Garbage == <<-1>>

Stages ==
  {"script", "open", "seek", "map", "search", "unmap", "close", "args", "compare", "assert",
   "done"}

TypeOK ==
  /\ image \in Images /\ script \in Scripts /\ pc \in Stages
  /\ fd \in BOOLEAN /\ modem_size \in -IntHalf..(IntHalf - 1) /\ mapped \in 0..(IntHalf - 1)
  /\ ret \in {"ok", "error"} /\ current_modem_version \in Texts \cup {Garbage}
  /\ k \in Nat \ {0} /\ verdict \in {"none", "0", "1"}
  /\ outcome \in {"running", "aborted", "installing"} /\ failed \in BOOLEAN

Init ==
  /\ image \in Images /\ script \in Scripts /\ pc = "script"
  /\ fd = FALSE /\ modem_size = 0 /\ mapped = 0 /\ ret = "ok" /\ current_modem_version = Garbage
  /\ k = 1 /\ verdict = "none" /\ outcome = "running" /\ failed = FALSE

-----------------------------------------------------------------------------
Goto(here, there) == pc = here /\ pc' = there

Ends(how) == pc' = "done" /\ outcome' = how

\* A call that fails, at a place that handles it.
Fails(call) == call \in Faults /\ failed' = TRUE

RunScript ==
  /\ pc = "script"
  /\ IF script = <<>> THEN Ends("installing") ELSE pc' = "open" /\ UNCHANGED outcome
  /\ UNCHANGED <<inputs, reading, k, verdict, failed>>

(* get_modem_version                                                       *)

Open ==
  /\ \/ Goto("open", "seek") /\ fd' = TRUE /\ UNCHANGED <<ret, failed>>
     \/ Goto("open", "args") /\ Fails("open") /\ ret' = "error" /\ UNCHANGED fd
  /\ UNCHANGED <<inputs, modem_size, mapped, current_modem_version, judging>>

\* A size that wraps to -1 takes the path of a failed lseek64, with an errno that
\* may be 0.
Seek ==
  /\ \/ /\ pc = "seek" /\ modem_size' = ToInt(image.size)
        /\ IF modem_size' = -1 THEN pc' = "close" /\ ret' \in {"ok", "error"}
           ELSE pc' = "map" /\ UNCHANGED ret
        /\ UNCHANGED failed
     \/ Goto("seek", "close") /\ Fails("seek") /\ modem_size' = -1 /\ ret' = "error"
  /\ UNCHANGED <<inputs, fd, mapped, current_modem_version, judging>>

\* Mutated: a failed mmap leaves through err_ret.
MapLeavesOpen ==
  /\ \/ /\ Goto("map", "search") /\ modem_size > 0
        /\ mapped' = modem_size /\ UNCHANGED <<ret, failed>>
     \/ /\ Goto("map", "args") /\ UNCHANGED mapped /\ ret' = "error"
        /\ (modem_size <= 0 /\ UNCHANGED failed) \/ Fails("map")
  /\ UNCHANGED <<inputs, fd, modem_size, current_modem_version, judging>>

\* mmap refuses no bytes, and the huge length a negative size turns into.
Map ==
  /\ \/ /\ Goto("map", "search") /\ modem_size > 0
        /\ mapped' = modem_size /\ UNCHANGED <<ret, failed>>
     \/ /\ Goto("map", "close") /\ UNCHANGED mapped /\ ret' = "error"
        /\ (modem_size <= 0 /\ UNCHANGED failed) \/ Fails("map")
  /\ UNCHANGED <<inputs, fd, modem_size, current_modem_version, judging>>

\* The first stamp lies within the first n bytes of the partition.
StampIn(n) == image.at # -1 /\ image.at + PatLen <= n

\* Mutated: a stamp that is not found is no error.
SearchShrugs ==
  /\ Goto("search", "unmap")
  /\ current_modem_version' = IF StampIn(mapped) THEN image.text ELSE current_modem_version
  /\ UNCHANGED <<inputs, fd, modem_size, mapped, ret, judging, failed>>

\* bm_search finds the first stamp there is in the mapping; its text is copied.
\* snprintf looks for its end, and takes what it meets behind the mapping for text.
Search ==
  /\ Goto("search", "unmap")
  /\ IF StampIn(mapped)
     THEN /\ current_modem_version' \in IF image.nul < mapped THEN {image.text} ELSE Texts
          /\ UNCHANGED ret
     ELSE ret' = "error" /\ UNCHANGED current_modem_version
  /\ UNCHANGED <<inputs, fd, modem_size, mapped, judging, failed>>

\* Nothing is mapped there, and the interpreter dies with all it holds.
SearchCrashes ==
  /\ pc = "search" /\ StampIn(mapped) /\ image.nul >= mapped
  /\ Ends("aborted") /\ failed' = TRUE /\ fd' = FALSE /\ mapped' = 0
  /\ UNCHANGED <<inputs, modem_size, ret, current_modem_version, k, verdict>>

Unmap ==
  /\ Goto("unmap", "close") /\ mapped' = 0
  /\ UNCHANGED <<inputs, fd, modem_size, ret, current_modem_version, judging, failed>>

Close ==
  /\ Goto("close", "args") /\ fd' = FALSE
  /\ UNCHANGED <<inputs, modem_size, mapped, ret, current_modem_version, judging, failed>>

(* VerifyModemFn, once get_modem_version has returned                      *)

\* ErrorAbort for either failure; the arguments are read second.
ReadArguments ==
  /\ pc = "args"
  /\ \/ ret = "error" /\ Ends("aborted") /\ UNCHANGED failed
     \/ ret = "ok" /\ Fails("args") /\ Ends("aborted")
     \/ ret = "ok" /\ pc' = "compare" /\ UNCHANGED <<outcome, failed>>
  /\ UNCHANGED <<inputs, reading, k, verdict>>

\* Mutated: the last argument is not compared.
CompareStopsEarly ==
  /\ pc = "compare"
  /\ IF k >= Len(script[1]) THEN verdict' = "0" /\ pc' = "assert" /\ UNCHANGED k
     ELSE IF Mktime(current_modem_version) = Mktime(script[1][k])
     THEN verdict' = "1" /\ pc' = "assert" /\ UNCHANGED k
     ELSE k' = k + 1 /\ UNCHANGED <<pc, verdict>>
  /\ UNCHANGED <<inputs, reading, outcome, failed>>

Compare ==
  /\ pc = "compare"
  /\ IF k > Len(script[1]) THEN verdict' = "0" /\ pc' = "assert" /\ UNCHANGED k
     ELSE IF Mktime(current_modem_version) = Mktime(script[1][k])
     THEN verdict' = "1" /\ pc' = "assert" /\ UNCHANGED k
     ELSE k' = k + 1 /\ UNCHANGED <<pc, verdict>>
  /\ UNCHANGED <<inputs, reading, outcome, failed>>

\* assert(... == "1");
Conclude ==
  /\ pc = "assert"
  /\ Ends(IF verdict = "1" THEN "installing" ELSE "aborted")
  /\ UNCHANGED <<inputs, reading, k, verdict, failed>>

Next ==
  \/ RunScript \/ Open \/ Seek \/ Map \/ Search \/ SearchCrashes \/ Unmap \/ Close
  \/ ReadArguments \/ Compare \/ Conclude

Spec == Init /\ [][Next]_vars /\ WF_vars(Next)

-----------------------------------------------------------------------------
\* A stamp as the vendor writes it: all its fields are there, and in range.
Valid(t) ==
  /\ Len(t) = 3
  /\ t[1] + 1 \in DOMAIN MonthStart
  /\ t[2] \in 1..(MonthStart[t[1] + 1] - MonthStart[t[1]]) /\ t[3] \in 0..(DayLength - 1)

Required == {script[1][n] : n \in DOMAIN script[1]}

\* The first stamp and its end are within what an int can map.
InReach == StampIn(ToInt(image.size)) /\ image.nul < ToInt(image.size)

\* Whichever call fails, the mapping and the descriptor are gone when
\* get_modem_version returns (recovery_updater.cpp:137-159).
NothingLeaks == pc \in {"args", "compare", "assert", "done"} => ~fd /\ mapped = 0

\* What is compared is the partition's stamp, never the buffer as the stack left
\* it: no path on which it is not written returns 0, not even that of a size that
\* does not fit an int, and only a stamp that runs out of the mapping is misread
\* (recovery_updater.cpp:135-152, 169-173).
ComparesTheStamp ==
  pc \in {"compare", "assert"} =>
    StampIn(ToInt(image.size)) /\ (InReach => current_modem_version = image.text)

\* Of well-formed stamps, only the one required lets the update through: two
\* different ones never denote the same second (recovery_updater.cpp:180-192).
GateIsTight ==
  (outcome = "installing" /\ script # <<>> /\ InReach
     /\ Valid(image.text) /\ \A t \in Required : Valid(t))
    => image.text \in Required

\* An update is turned away for a reason: a call has failed, the partition's stamp
\* is not among those required, or it is out of reach: missing, or not all within
\* what an int can map (recovery_updater.cpp:122-195, releasetools.py:26-34).
RefusedForAReason ==
  outcome = "aborted" =>
    failed \/ image.text \notin Required \/ ~InReach

\* What reading the partition may give, and the abstract gate over it.
Readable ==
  IF ~StampIn(ToInt(image.size)) THEN {}
  ELSE {Mktime(t) : t \in IF InReach THEN {image.text} ELSE Texts}

RequiredSeconds == IF script # <<>> THEN {Mktime(t) : t \in Required} ELSE {}

ReadSecond == IF current_modem_version = Garbage THEN -1 ELSE Mktime(current_modem_version)

Gate == INSTANCE UpdateGate WITH
  asks <- script # <<>>, required <- RequiredSeconds, readable <- Readable, stamp <- ReadSecond,
  broken <- failed

\* The partition, the search, the clean-up and the texts implement the abstract
\* gate, its promise to decide included: whatever fails, whatever the partition's
\* size does to an int, and whatever lies behind the mapping
\* (recovery_updater.cpp:122-195).
GateSpec == Gate!Spec

=============================================================================
