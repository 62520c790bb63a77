---------------------- MODULE ModemVerificationProofs ----------------------
(***************************************************************************)
(* Theorems about the update gate, for every partition, package, width of  *)
(* an int and calendar.                                                    *)
(***************************************************************************)
EXTENDS ModemVerification, SequenceTheorems, TLAPS

NoStamp == ~StampIn(ToInt(image.size))
OutOfReach == ~InReach

\* The descriptor and the mapping, along the way down and up again.
Resources ==
  /\ fd => pc \in {"seek", "map", "search", "unmap", "close"}
  /\ mapped # 0 => pc \in {"search", "unmap"}

Sizes ==
  /\ pc = "map" => modem_size = ToInt(image.size)
  /\ pc = "search" => mapped = ToInt(image.size)

\* The buffer has been written, with the stamp if all of that was in reach.
Read ==
  /\ ~NoStamp /\ current_modem_version \in Texts
  /\ OutOfReach \/ current_modem_version = image.text

\* get_modem_version returns "ok" only with the stamp, and "error" for a reason.
Answers ==
  /\ (pc \in {"unmap", "close", "args"} /\ ret = "ok") => Read
  /\ pc \in {"compare", "assert"} => Read
  /\ pc \in {"script", "open", "seek", "map", "search"} => current_modem_version = Garbage
  /\ ret = "error" => failed \/ NoStamp

\* The comparisons made so far, and what they lead to.
Compared ==
  /\ pc \notin {"script", "done"} => script # <<>>
  /\ pc \notin {"compare", "assert", "done"} => k = 1
  /\ pc = "compare" =>
       \A n \in 1..(k - 1) : Mktime(script[1][n]) # Mktime(current_modem_version)
  /\ pc \notin {"assert", "done"} => verdict = "none"
  /\ verdict # "none" => Read
  /\ verdict = "0" =>
       \A n \in DOMAIN script[1] : Mktime(script[1][n]) # Mktime(current_modem_version)
  /\ verdict = "1" =>
       \E n \in DOMAIN script[1] : Mktime(script[1][n]) = Mktime(current_modem_version)
  /\ pc = "assert" => verdict \in {"0", "1"}

Outcomes ==
  /\ pc # "done" => outcome = "running"
  /\ outcome = "installing" /\ script # <<>> => verdict = "1"
  /\ outcome = "aborted" =>
       failed \/ NoStamp \/ verdict = "0"

ModemInv == TypeOK /\ Resources /\ Sizes /\ Answers /\ Compared /\ Outcomes

-----------------------------------------------------------------------------
\* An int holds whatever lseek64 answers.
LEMMA IntRange == ASSUME NEW n \in Nat PROVE ToInt(n) \in -IntHalf..(IntHalf - 1)
<1>1. IntHalf \in Nat /\ IntHalf > 0
  BY ModemAssumption
<1> DEFINE w == 2 * IntHalf
           m == n % w
<1>2. w \in Nat /\ w > 0 /\ w = 2 * IntHalf
  BY <1>1
<1> HIDE DEF w
<1>3. m \in 0..(w - 1)
  BY <1>2
<1>4. ToInt(n) = IF m >= IntHalf THEN m - w ELSE m
  BY <1>2 DEF ToInt, w
<1> QED
  BY <1>1, <1>2, <1>3, <1>4

\* A size of -1 or less, or of no byte, holds no stamp.
LEMMA NothingInNothing == ASSUME TypeOK, NEW n \in Int, n <= 0 PROVE ~StampIn(n)
BY ModemAssumption DEF TypeOK, StampIn

\* What the initial choice gives, once for all.
LEMMA InputTypes ==
  ASSUME TypeOK
  PROVE  /\ image.size \in Nat /\ ToInt(image.size) # -1 /\ image.text \in Texts
         /\ script # <<>> => script[1] \in Seq(Texts)
<1>1. image.size \in Nat /\ ToInt(image.size) # -1 /\ image.text \in Texts
  BY ModemAssumption DEF TypeOK
<1>2. ASSUME script # <<>> PROVE script[1] \in Seq(Texts)
  <2>1. CASE \E info \in Infos : script = AddModemAssertion(info)
    <3>1. PICK info \in Infos : script = <<<<info.text>>>>
      BY <1>2, <2>1 DEF AddModemAssertion
    <3>2. info.text \in Texts /\ script[1] = <<info.text>>
      BY <3>1, ModemAssumption
    <3> QED
      BY <3>2
  <2>2. CASE \E c \in OtherCalls : script = <<c>>
    BY <2>2, ModemAssumption
  <2> QED
    BY <2>1, <2>2 DEF TypeOK, Scripts
<1> QED
  BY <1>1, <1>2

\* The invariant holds when the recovery starts on the package.
LEMMA InitModemInv == Init => ModemInv
<1> SUFFICES ASSUME Init PROVE ModemInv
  OBVIOUS
<1>0. IntHalf \in Nat /\ 0 \in -IntHalf..(IntHalf - 1) /\ 0 \in 0..(IntHalf - 1)
  <2>1. IntHalf \in Nat \ {0}
    BY ModemAssumption
  <2> QED
    BY <2>1
<1>1. TypeOK
  <2>1. modem_size \in -IntHalf..(IntHalf - 1) /\ mapped \in 0..(IntHalf - 1)
    BY <1>0 DEF Init
  <2>2. fd \in BOOLEAN /\ failed \in BOOLEAN
    BY DEF Init
  <2>3. /\ image \in Images /\ script \in Scripts /\ pc \in Stages /\ ret \in {"ok", "error"}
        /\ current_modem_version \in Texts \cup {Garbage} /\ k \in Nat \ {0}
        /\ verdict \in {"none", "0", "1"} /\ outcome \in {"running", "aborted", "installing"}
    BY DEF Init, Stages
  <2> QED
    BY <2>1, <2>2, <2>3 DEF TypeOK
<1>2. Resources /\ Sizes /\ Answers /\ Compared /\ Outcomes
  BY DEF Init, Resources, Sizes, Answers, Compared, Outcomes, Read
<1> QED
  BY <1>1, <1>2 DEF ModemInv

\* The steps of get_modem_version.
LEMMA ReadingKeepsInv ==
  ASSUME ModemInv, Open \/ Seek \/ Map \/ Search \/ Unmap \/ Close
  PROVE  ModemInv'
<1> USE DEF ModemInv
<1>0. /\ image.size \in Nat /\ image.text \in Texts /\ ToInt(image.size) # -1
      /\ ToInt(image.size) \in -IntHalf..(IntHalf - 1)
      /\ IntHalf \in Nat /\ IntHalf > 0
  BY InputTypes, IntRange, ModemAssumption
<1>1. image' = image /\ script' = script /\ k' = k /\ verdict' = verdict /\ outcome' = outcome
  BY DEF Open, Seek, Map, Search, Unmap, Close, inputs, judging
<1>2. OutOfReach' = OutOfReach /\ NoStamp' = NoStamp
  BY <1>1 DEF OutOfReach, NoStamp, InReach, StampIn
<1>3. CASE Open
  <2>1. /\ pc = "open" /\ modem_size' = modem_size /\ mapped' = mapped
        /\ current_modem_version' = current_modem_version
        /\ \/ pc' = "seek" /\ fd' = TRUE /\ ret' = ret /\ failed' = failed
           \/ pc' = "args" /\ fd' = fd /\ ret' = "error" /\ failed'
    BY <1>3 DEF Open, Goto, Fails
  <2>2. fd' \in BOOLEAN /\ failed' \in BOOLEAN
    BY <1>3 DEF Open, Fails, TypeOK
  <2>3. TypeOK' /\ Resources' /\ Sizes'
    BY <1>1, <2>1, <2>2 DEF TypeOK, Stages, Resources, Sizes
  <2>4. Answers' /\ Compared' /\ Outcomes'
    BY <1>1, <1>2, <2>1 DEF Answers, Compared, Outcomes, Read
  <2> QED
    BY <2>3, <2>4
<1>4. CASE Seek
  <2>1. /\ pc = "seek" /\ fd' = fd /\ mapped' = mapped
        /\ current_modem_version' = current_modem_version
        /\ \/ pc' = "map" /\ modem_size' = ToInt(image.size) /\ ret' = ret /\ failed' = failed
           \/ pc' = "close" /\ modem_size' = -1 /\ ret' = "error" /\ failed'
    BY <1>0, <1>4 DEF Seek, Goto, Fails
  <2>2. modem_size' \in -IntHalf..(IntHalf - 1)
    BY <1>0, <2>1
  <2> QED
    BY <1>1, <1>2, <2>1, <2>2 DEF TypeOK, Stages, Resources, Sizes, Answers, Compared,
       Outcomes, Read
<1>5. CASE Map
  <2>1. /\ pc = "map" /\ modem_size = ToInt(image.size) /\ fd' = fd /\ modem_size' = modem_size
        /\ current_modem_version' = current_modem_version
        /\ \/ /\ pc' = "search" /\ modem_size > 0 /\ mapped' = modem_size
              /\ ret' = ret /\ failed' = failed
           \/ /\ pc' = "close" /\ mapped' = mapped /\ ret' = "error"
              /\ (modem_size <= 0 /\ failed' = failed) \/ failed'
    BY <1>5 DEF Map, Goto, Fails, Sizes
  <2>2. mapped' \in 0..(IntHalf - 1)
    BY <1>0, <2>1 DEF TypeOK
  <2>3. modem_size <= 0 => NoStamp
    BY <1>0, <2>1, NothingInNothing DEF NoStamp
  <2>4. failed' \in BOOLEAN
    BY <1>5 DEF Map, Fails, TypeOK
  <2> QED
    BY <1>1, <1>2, <2>1, <2>2, <2>3, <2>4 DEF TypeOK, Stages, Resources, Sizes, Answers, Compared,
       Outcomes, Read
<1>6. CASE Search
  <2>1. /\ pc = "search" /\ pc' = "unmap" /\ mapped = ToInt(image.size)
        /\ fd' = fd /\ modem_size' = modem_size /\ mapped' = mapped /\ failed' = failed
    BY <1>6 DEF Search, Goto, Sizes
  <2>2. \/ Read' /\ ret' = ret /\ current_modem_version' \in Texts
        \/ NoStamp /\ ret' = "error" /\ current_modem_version' = current_modem_version
    <3>1. CASE StampIn(mapped)
      <4>1. /\ ret' = ret /\ ~NoStamp
            /\ current_modem_version' \in IF image.nul < mapped THEN {image.text} ELSE Texts
        BY <1>6, <2>1, <3>1 DEF Search, NoStamp
      <4>2. current_modem_version' \in Texts
        BY <1>0, <4>1
      <4>3. OutOfReach \/ current_modem_version' = image.text
        BY <2>1, <3>1, <4>1 DEF OutOfReach, InReach
      <4> QED
        BY <1>1, <1>2, <4>1, <4>2, <4>3 DEF Read
    <3>2. CASE ~StampIn(mapped)
      BY <1>6, <2>1, <3>2 DEF Search, NoStamp
    <3> QED
      BY <3>1, <3>2
  <2>3. TypeOK' /\ Resources' /\ Sizes'
    BY <1>1, <2>1, <2>2 DEF TypeOK, Stages, Resources, Sizes
  <2>4. Answers'
    BY <1>1, <1>2, <2>1, <2>2 DEF Answers, Read
  <2>5. Compared'
    <3>1. verdict' = "none"
      BY <1>1, <2>1 DEF Compared
    <3> QED
      BY <1>1, <2>1, <3>1 DEF Compared
  <2>6. Outcomes'
    BY <1>1, <2>1 DEF Outcomes
  <2> QED
    BY <2>3, <2>4, <2>5, <2>6
<1>7. CASE Unmap \/ Close
  <2>1. /\ current_modem_version' = current_modem_version /\ ret' = ret /\ failed' = failed
        /\ modem_size' = modem_size
        /\ \/ pc = "unmap" /\ pc' = "close" /\ mapped' = 0 /\ fd' = fd
           \/ pc = "close" /\ pc' = "args" /\ mapped' = mapped /\ fd' = FALSE
    BY <1>7 DEF Unmap, Close, Goto
  <2>2. fd' \in BOOLEAN /\ mapped' \in 0..(IntHalf - 1)
    <3>1. fd' \in BOOLEAN
      BY <1>7 DEF Unmap, Close, TypeOK
    <3>2. mapped' = 0 \/ mapped' = mapped
      BY <2>1
    <3> QED
      BY <1>0, <3>1, <3>2 DEF TypeOK
  <2>3. TypeOK' /\ Resources' /\ Sizes'
    BY <1>1, <2>1, <2>2 DEF TypeOK, Stages, Resources, Sizes
  <2>4. Answers' /\ Compared' /\ Outcomes'
    BY <1>1, <1>2, <2>1 DEF Answers, Compared, Outcomes, Read
  <2> QED
    BY <2>3, <2>4
<1> QED
  BY <1>3, <1>4, <1>5, <1>6, <1>7

\* The steps of the script and of VerifyModemFn.
LEMMA JudgingKeepsInv ==
  ASSUME ModemInv, RunScript \/ ReadArguments \/ Compare \/ Conclude
  PROVE  ModemInv'
<1> USE DEF ModemInv
<1>1. /\ image' = image /\ script' = script /\ fd' = fd /\ modem_size' = modem_size
      /\ mapped' = mapped /\ ret' = ret /\ current_modem_version' = current_modem_version
  BY DEF RunScript, ReadArguments, Compare, Conclude, inputs, reading
<1>2. OutOfReach' = OutOfReach /\ NoStamp' = NoStamp
  BY <1>1 DEF OutOfReach, NoStamp, InReach, StampIn
<1>3. CASE RunScript
  BY <1>1, <1>2, <1>3 DEF RunScript, Ends, TypeOK, Stages, Resources, Sizes, Answers, Compared,
     Outcomes, Read
<1>4. CASE ReadArguments
  <2>1. k' = k /\ verdict' = verdict /\ pc = "args" /\ pc' \in {"done", "compare"}
    BY <1>4 DEF ReadArguments, Ends
  <2>2. /\ failed' \in BOOLEAN /\ outcome' \in {"running", "aborted", "installing"}
        /\ failed => failed'
    BY <1>4 DEF ReadArguments, Ends, Fails, TypeOK
  <2>3. TypeOK' /\ Resources' /\ Sizes'
    BY <1>1, <2>1, <2>2 DEF TypeOK, Stages, Resources, Sizes
  <2>4. \/ ret = "error" /\ pc' = "done" /\ outcome' = "aborted" /\ failed' = failed
        \/ ret = "ok" /\ pc' = "done" /\ outcome' = "aborted" /\ failed'
        \/ ret = "ok" /\ pc' = "compare" /\ outcome' = outcome /\ failed' = failed
    BY <1>4 DEF ReadArguments, Ends, Fails
  <2>5. Answers'
    BY <1>1, <1>2, <2>1, <2>4 DEF Answers, Read
  <2>6. Compared'
    <3>1. pc' = "compare" => k' = 1
      BY <2>1 DEF Compared
    <3> QED
      BY <1>1, <1>2, <2>1, <2>4, <3>1 DEF Compared
  <2>7. Outcomes'
    BY <1>1, <1>2, <2>1, <2>2, <2>4 DEF Answers, Outcomes, Read
  <2> QED
    BY <2>3, <2>5, <2>6, <2>7
<1>5. CASE Compare
  <2> DEFINE second == Mktime(current_modem_version)
  <2>0. /\ pc = "compare" /\ outcome' = outcome /\ failed' = failed /\ script # <<>>
        /\ Read /\ Read' /\ second' = second
    BY <1>1, <1>2, <1>5 DEF Compare, Compared, Answers, Read, Mktime, Field
  <2>1. script[1] \in Seq(Texts) /\ DOMAIN script[1] = 1..Len(script[1]) /\ Len(script[1]) \in Nat
    BY <2>0, InputTypes
  <2>2. \/ k > Len(script[1]) /\ verdict' = "0" /\ pc' = "assert" /\ k' = k
        \/ /\ k <= Len(script[1]) /\ second = Mktime(script[1][k])
           /\ verdict' = "1" /\ pc' = "assert" /\ k' = k
        \/ /\ k <= Len(script[1]) /\ second # Mktime(script[1][k])
           /\ k' = k + 1 /\ pc' = pc /\ verdict' = verdict
    BY <1>5, <2>0, <2>1 DEF Compare, TypeOK
  <2>3. TypeOK' /\ Resources' /\ Sizes'
    BY <1>1, <2>0, <2>2 DEF TypeOK, Stages, Resources, Sizes
  <2>4. Answers'
    BY <1>1, <1>2, <2>0, <2>2 DEF Answers
  <2>5. Outcomes'
    BY <1>1, <1>2, <2>0, <2>2 DEF Outcomes
  <2>6. Compared'
    <3>1. /\ pc' = "compare" => \A n \in 1..(k' - 1) : Mktime(script[1][n]) # second
          /\ verdict' = "0" => \A n \in DOMAIN script[1] : Mktime(script[1][n]) # second
          /\ verdict' = "1" => \E n \in DOMAIN script[1] : Mktime(script[1][n]) = second
      BY <2>0, <2>1, <2>2 DEF Compared, TypeOK
    <3>2. /\ pc' = "compare" => \A n \in 1..(k' - 1) : Mktime(script'[1][n]) # second'
          /\ verdict' = "0" => \A n \in DOMAIN script'[1] : Mktime(script'[1][n]) # second'
          /\ verdict' = "1" => \E n \in DOMAIN script'[1] : Mktime(script'[1][n]) = second'
      BY <1>1, <2>0, <3>1
    <3>3. /\ script' # <<>> /\ Read' /\ pc' \in {"compare", "assert"}
          /\ pc' = "assert" => verdict' \in {"0", "1"}
          /\ pc' = "compare" => verdict' = "none"
      BY <1>1, <2>0, <2>2 DEF Compared
    <3> QED
      BY <3>2, <3>3 DEF Compared
  <2> QED
    BY <2>3, <2>4, <2>5, <2>6
<1>6. CASE Conclude
  BY <1>1, <1>2, <1>6 DEF Conclude, Ends, TypeOK, Stages, Resources, Sizes, Answers, Compared,
     Outcomes, Read
<1> QED
  BY <1>3, <1>4, <1>5, <1>6

\* The death of the interpreter.
LEMMA CrashKeepsInv == ASSUME ModemInv, SearchCrashes PROVE ModemInv'
<1> USE DEF ModemInv
<1>1. /\ image' = image /\ script' = script /\ modem_size' = modem_size /\ ret' = ret
      /\ current_modem_version' = current_modem_version /\ k' = k /\ verdict' = verdict
      /\ pc = "search" /\ pc' = "done" /\ outcome' = "aborted" /\ failed' = TRUE
      /\ fd' = FALSE /\ mapped' = 0
  BY DEF SearchCrashes, Ends, inputs
<1>2. OutOfReach' = OutOfReach /\ NoStamp' = NoStamp
  BY <1>1 DEF OutOfReach, NoStamp, InReach, StampIn
<1>3. 0 \in 0..(IntHalf - 1)
  BY ModemAssumption
<1>4. TypeOK' /\ Resources' /\ Sizes'
  BY <1>1, <1>3 DEF TypeOK, Stages, Resources, Sizes
<1>5. Answers' /\ Outcomes'
  BY <1>1, <1>2 DEF Answers, Outcomes, Read
<1>6. Compared'
  BY <1>1 DEF Compared
<1> QED
  BY <1>4, <1>5, <1>6

\* Every step keeps the invariant.
LEMMA StepModemInv == ModemInv /\ [Next]_vars => ModemInv'
<1> SUFFICES ASSUME ModemInv, [Next]_vars PROVE ModemInv'
  OBVIOUS
<1>1. CASE UNCHANGED vars
  BY <1>1 DEF vars, inputs, reading, judging, ModemInv, TypeOK, Resources, Sizes, Answers, Compared,
     Outcomes, Read, OutOfReach, NoStamp, InReach, StampIn, Mktime, Field
<1> QED
  BY <1>1, ReadingKeepsInv, JudgingKeepsInv, CrashKeepsInv DEF Next

-----------------------------------------------------------------------------
\* Seconds: a number of days and a second of the day are found in their sum.
LEMMA DayAndSecond ==
  ASSUME NEW D \in Nat, NEW a \in Nat, NEW b \in Nat, NEW s \in 0..(D - 1), NEW t \in 0..(D - 1),
         a * D + s = b * D + t
  PROVE  a = b /\ s = t
<1>1. ASSUME NEW x \in Nat, NEW y \in Nat, x < y PROVE x * D + D <= y * D
  <2>1. y - (x + 1) \in Nat /\ (y - (x + 1)) * D \in Nat
    BY <1>1
  <2>2. (y - (x + 1)) * D = y * D - (x + 1) * D /\ (x + 1) * D = x * D + D
    OBVIOUS
  <2>3. x * D \in Nat /\ y * D \in Nat
    OBVIOUS
  <2> QED
    BY <2>1, <2>2, <2>3
<1>2. a * D \in Nat /\ b * D \in Nat
  OBVIOUS
<1>3. ~(a < b)
  BY <1>1, <1>2
<1>4. ~(b < a)
  BY <1>1, <1>2
<1> QED
  BY <1>2, <1>3, <1>4

\* A text with all its fields is determined by them.
LEMMA ThreeFields ==
  ASSUME NEW t \in Seq(Nat), Len(t) = 3
  PROVE  /\ t[1] \in Nat /\ t[2] \in Nat /\ t[3] \in Nat
         /\ \A u \in Seq(Nat) :
              (Len(u) = 3 /\ u[1] = t[1] /\ u[2] = t[2] /\ u[3] = t[3]) => u = t
<1>1. t[1] \in Nat /\ t[2] \in Nat /\ t[3] \in Nat
  BY 1 \in 1..Len(t), 2 \in 1..Len(t), 3 \in 1..Len(t), ElementOfSeq
<1>2. ASSUME NEW u \in Seq(Nat), Len(u) = 3, u[1] = t[1], u[2] = t[2], u[3] = t[3]
      PROVE  u = t
  <2>1. \A n \in 1..Len(t) : u[n] = t[n]
    <3> SUFFICES ASSUME NEW n \in 1..Len(t) PROVE u[n] = t[n]
      OBVIOUS
    <3>1. n = 1 \/ n = 2 \/ n = 3
      OBVIOUS
    <3> QED
      BY <1>2, <3>1
  <2> QED
    BY <1>2, <2>1, SeqEqual
<1> QED
  BY <1>1, <1>2

\* A later month starts after the days of an earlier one.
LEMMA Calendar ==
  ASSUME NEW a \in DOMAIN MonthStart, NEW b \in DOMAIN MonthStart, a + 1 \in DOMAIN MonthStart
  PROVE  a < b => MonthStart[a + 1] <= MonthStart[b]
<1>1. /\ a \in Nat /\ b \in Nat
      /\ \A m, n \in DOMAIN MonthStart : m <= n => MonthStart[m] <= MonthStart[n]
  BY ModemAssumption
<1>2. a < b => a + 1 <= b
  BY <1>1
<1> QED
  BY <1>1, <1>2

\* Two well-formed stamps of the same second are the same.
LEMMA StampsDiffer ==
  ASSUME NEW t \in Texts, NEW u \in Texts, Valid(t), Valid(u), Mktime(t) = Mktime(u)
  PROVE  t = u
<1> DEFINE S(m) == MonthStart[m]
<1>1. /\ t \in Seq(Nat) /\ u \in Seq(Nat) /\ Len(t) = 3 /\ Len(u) = 3
      /\ t[1] \in DOMAIN MonthStart /\ u[1] \in DOMAIN MonthStart
  <2>1. IsText(t) /\ IsText(u)
    BY ModemAssumption
  <2> QED
    BY <2>1 DEF IsText, Valid
<1>2. /\ t[1] \in Nat /\ t[2] \in Nat /\ t[3] \in Nat
      /\ u[1] \in Nat /\ u[2] \in Nat /\ u[3] \in Nat
  BY <1>1, ThreeFields
<1>3. /\ S(t[1]) \in Nat /\ S(u[1]) \in Nat /\ S(t[1] + 1) \in Nat /\ S(u[1] + 1) \in Nat
  BY <1>1, ModemAssumption DEF Valid
<1>4. /\ t[2] \in 1..(S(t[1] + 1) - S(t[1])) /\ u[2] \in 1..(S(u[1] + 1) - S(u[1]))
      /\ t[3] \in 0..(DayLength - 1) /\ u[3] \in 0..(DayLength - 1)
  BY DEF Valid
<1>5. /\ t[1] < u[1] => S(t[1] + 1) <= S(u[1])
      /\ u[1] < t[1] => S(u[1] + 1) <= S(t[1])
  <2>1. t[1] + 1 \in DOMAIN MonthStart /\ u[1] + 1 \in DOMAIN MonthStart
    BY DEF Valid
  <2> QED
    BY <1>1, <2>1, Calendar
<1>6. /\ Mktime(t) = (S(t[1]) + t[2]) * DayLength + t[3]
      /\ Mktime(u) = (S(u[1]) + u[2]) * DayLength + u[3]
  BY <1>1 DEF Mktime, Field
<1>7. DayLength \in Nat
  BY ModemAssumption
<1> HIDE DEF S
<1>8. S(t[1]) + t[2] \in Nat /\ S(u[1]) + u[2] \in Nat
  BY <1>2, <1>3
<1>9. S(t[1]) + t[2] = S(u[1]) + u[2] /\ t[3] = u[3]
  <2> DEFINE a == S(t[1]) + t[2]
             b == S(u[1]) + u[2]
  <2>1. a \in Nat /\ b \in Nat /\ a * DayLength + t[3] = b * DayLength + u[3]
    BY <1>6, <1>8
  <2> HIDE DEF a, b, S
  <2>2. a = b /\ t[3] = u[3]
    <3>1. t[3] \in 0..(DayLength - 1) /\ u[3] \in 0..(DayLength - 1)
      BY <1>4
    <3> QED
      BY <1>7, <2>1, <3>1, DayAndSecond
  <2> QED
    BY <2>2 DEF a, b
<1>10. t[1] = u[1]
  BY <1>2, <1>3, <1>4, <1>5, <1>9
<1>11. t[2] = u[2]
  BY <1>2, <1>3, <1>9, <1>10
<1> QED
  BY <1>1, <1>9, <1>10, <1>11, ThreeFields

-----------------------------------------------------------------------------
\* TypeOK: every size, whatever the width of an int, and every way through the two
\* functions (recovery_updater.cpp:122-195).
THEOREM ModemTypeCorrect == Spec => []TypeOK
<1>1. ModemInv => TypeOK
  BY DEF ModemInv
<1> QED
  BY <1>1, InitModemInv, StepModemInv, PTL DEF Spec

\* NothingLeaks: each early exit of get_modem_version undoes what was done
\* (recovery_updater.cpp:137-159).
THEOREM ModemLeaksNothing == Spec => []NothingLeaks
<1>1. ModemInv => NothingLeaks
  BY DEF ModemInv, Resources, NothingLeaks
<1> QED
  BY <1>1, InitModemInv, StepModemInv, PTL DEF Spec

\* ComparesTheStamp: the buffer is compared only after it was written
\* (recovery_updater.cpp:165-173).
THEOREM StampIsRead == Spec => []ComparesTheStamp
<1>1. ModemInv => ComparesTheStamp
  BY DEF ModemInv, Answers, Read, NoStamp, OutOfReach, ComparesTheStamp
<1> QED
  BY <1>1, InitModemInv, StepModemInv, PTL DEF Spec

\* GateIsTight: among well-formed stamps only the required one installs the update
\* (recovery_updater.cpp:180-192).
THEOREM GateHolds == Spec => []GateIsTight
<1>1. ModemInv => GateIsTight
  <2> SUFFICES ASSUME ModemInv, outcome = "installing", script # <<>>, InReach, Valid(image.text),
                      \A t \in Required : Valid(t)
               PROVE  image.text \in Required
    BY DEF GateIsTight
  <2>1. PICK n \in DOMAIN script[1] : Mktime(image.text) = Mktime(script[1][n])
    BY DEF ModemInv, Outcomes, Compared, Read, OutOfReach
  <2>2. image.text \in Texts /\ script[1] \in Seq(Texts)
    BY InputTypes DEF ModemInv
  <2>3. script[1][n] \in Texts /\ script[1][n] \in Required
    BY <2>2 DEF Required
  <2> QED
    BY <2>1, <2>2, <2>3, StampsDiffer
<1> QED
  BY <1>1, InitModemInv, StepModemInv, PTL DEF Spec

\* RefusedForAReason: an update is turned away for a failed call, another stamp, or
\* one out of an int's reach (recovery_updater.cpp:122-195).
THEOREM RefusalHasAReason == Spec => []RefusedForAReason
<1>1. ModemInv => RefusedForAReason
  <2> SUFFICES ASSUME ModemInv, verdict = "0", InReach PROVE image.text \notin Required
    BY DEF ModemInv, Outcomes, RefusedForAReason, NoStamp, InReach
  <2> QED
    BY DEF ModemInv, Compared, Read, OutOfReach, Required
<1> QED
  BY <1>1, InitModemInv, StepModemInv, PTL DEF Spec

-----------------------------------------------------------------------------
\* A text denotes a second, and the buffer before it is written none.
LEMMA Seconds == ASSUME NEW t \in Texts PROVE Mktime(t) \in Nat /\ t # Garbage
<1>1. t \in Seq(Nat) /\ Len(t) \in Nat /\ (Len(t) > 0 => t[1] \in DOMAIN MonthStart)
  BY ModemAssumption DEF IsText
<1>2. \A f \in 1..3 : Field(t, f) \in Nat
  BY <1>1, ElementOfSeq DEF Field
<1>3. Field(t, 1) \in DOMAIN MonthStart
  BY <1>1, ModemAssumption DEF Field
<1>4. MonthStart[Field(t, 1)] \in Nat /\ DayLength \in Nat
  BY <1>3, ModemAssumption
<1>5. Mktime(t) \in Nat
  <2> DEFINE d == MonthStart[Field(t, 1)] + Field(t, 2)
  <2>1. d \in Nat /\ Field(t, 3) \in Nat
    BY <1>2, <1>4
  <2> HIDE DEF d
  <2>2. d * DayLength \in Nat
    BY <1>4, <2>1
  <2>3. Mktime(t) = d * DayLength + Field(t, 3)
    BY DEF Mktime, d
  <2> QED
    BY <2>1, <2>2, <2>3
<1>6. t # Garbage
  <2>1. Garbage = <<-1>> /\ Len(Garbage) = 1 /\ Garbage[1] = -1
    BY DEF Garbage
  <2>2. Len(t) = 1 => t[1] \in Nat
    BY <1>1, ElementOfSeq
  <2> QED
    BY <2>1, <2>2
<1> QED
  BY <1>5, <1>6

\* What the abstract gate sees of the inputs never changes.
LEMMA GateInputs ==
  ASSUME [Next]_vars
  PROVE  /\ image' = image /\ script' = script
         /\ RequiredSeconds' = RequiredSeconds /\ Readable' = Readable
<1>1. image' = image /\ script' = script
  BY DEF Next, RunScript, Open, Seek, Map, Search, SearchCrashes, Unmap, Close, ReadArguments,
     Compare, Conclude, inputs, vars
<1> QED
  BY <1>1 DEF RequiredSeconds, Readable, Required, InReach, StampIn, Mktime, Field

\* Once the buffer is written, it holds a second that reading may give.
LEMMA ReadSeconds ==
  ASSUME TypeOK, Read
  PROVE  /\ ReadSecond = Mktime(current_modem_version) /\ ReadSecond \in Nat
         /\ ReadSecond \in Readable
<1>1. current_modem_version \in Texts /\ current_modem_version # Garbage
  BY Seconds DEF Read
<1>2. ReadSecond = Mktime(current_modem_version) /\ ReadSecond \in Nat
  BY <1>1, Seconds DEF ReadSecond
<1>3. current_modem_version \in IF InReach THEN {image.text} ELSE Texts
  BY <1>1 DEF Read, OutOfReach
<1> QED
  BY <1>2, <1>3 DEF Readable, Read, NoStamp

\* Every step is one of the abstract gate, or none.
LEMMA StepGate ==
  ModemInv /\ ModemInv' /\ [Next]_vars => [Gate!Next]_(Gate!vars)
<1> SUFFICES ASSUME ModemInv, ModemInv', [Next]_vars PROVE [Gate!Next]_(Gate!vars)
  OBVIOUS
<1> USE DEF ModemInv
<1>1. /\ image' = image /\ script' = script
      /\ RequiredSeconds' = RequiredSeconds /\ Readable' = Readable
  BY GateInputs
<1>2. ASSUME current_modem_version' = current_modem_version PROVE ReadSecond' = ReadSecond
  BY <1>2 DEF ReadSecond, Mktime, Field
<1>3. ASSUME outcome' = outcome, failed' = failed, current_modem_version' = current_modem_version
      PROVE  UNCHANGED Gate!vars
  BY <1>1, <1>2, <1>3 DEF Gate!vars
<1>4. ASSUME outcome = "running", outcome' = outcome, failed',
             current_modem_version' = current_modem_version
      PROVE  Gate!Next
  BY <1>1, <1>2, <1>4 DEF Gate!Next, Gate!Fail, TypeOK
<1>5. CASE RunScript
  <2>1. CASE script = <<>>
    BY <1>1, <1>2, <1>5, <2>1
       DEF RunScript, Ends, reading, Outcomes, Gate!Next, Gate!Install
  <2>2. CASE script # <<>>
    BY <1>3, <1>5, <2>2 DEF RunScript, reading
  <2> QED
    BY <2>1, <2>2
<1>6. CASE Open \/ Seek \/ Map
  <2>1. /\ pc # "done" /\ outcome' = outcome
        /\ failed' = failed \/ failed'
        /\ current_modem_version' = current_modem_version
    BY <1>6 DEF Open, Seek, Map, Goto, Fails, judging
  <2> QED
    BY <1>3, <1>4, <2>1 DEF Outcomes
<1>7. CASE Search
  <2>1. pc = "search" /\ pc' = "unmap" /\ outcome' = outcome /\ failed' = failed
    BY <1>7 DEF Search, Goto, judging
  <2>2. ReadSecond = -1
    BY <2>1 DEF Answers, ReadSecond
  <2>3. CASE StampIn(mapped)
    <3>1. ret' = ret /\ ~NoStamp
      BY <1>7, <2>1, <2>3 DEF Search, Sizes, NoStamp
    <3>2. Read'
      <4>1. ToInt(image.size)' = ToInt(image.size) /\ mapped = ToInt(image.size)
        BY <1>1, <2>1 DEF Sizes
      <4>2. current_modem_version' \in IF image.nul < mapped THEN {image.text} ELSE Texts
        BY <1>7, <2>3 DEF Search
      <4>3. current_modem_version' \in Texts
        BY <4>2, InputTypes
      <4>4. NoStamp' = NoStamp /\ OutOfReach' = OutOfReach
        BY <1>1 DEF OutOfReach, NoStamp, InReach, StampIn
      <4>5. OutOfReach \/ current_modem_version' = image.text
        BY <2>3, <4>1, <4>2 DEF OutOfReach, InReach
      <4> QED
        BY <1>1, <3>1, <4>3, <4>4, <4>5 DEF Read
    <3>3. ReadSecond' \in Readable
      <4>1. (TypeOK /\ Read)' => (ReadSecond \in Readable)'
        BY ReadSeconds, PTL
      <4> QED
        BY <1>1, <3>2, <4>1
    <3> QED
      BY <1>1, <2>1, <2>2, <3>3 DEF Gate!Next, Gate!Read, Gate!Unread
  <2>4. CASE ~StampIn(mapped)
    BY <1>3, <1>7, <2>1, <2>4 DEF Search
  <2> QED
    BY <2>3, <2>4
<1>8. CASE SearchCrashes
  <2>1. /\ pc = "search" /\ outcome' = "aborted" /\ failed' = TRUE
        /\ current_modem_version' = current_modem_version
    BY <1>8 DEF SearchCrashes, Ends
  <2>2. script # <<>> /\ outcome = "running"
    BY <2>1 DEF Compared, Outcomes
  <2> QED
    BY <1>1, <1>2, <2>1, <2>2 DEF Gate!Next, Gate!Abort
<1>9. CASE Unmap \/ Close \/ Compare
  BY <1>3, <1>9 DEF Unmap, Close, Compare, judging, reading
<1>10. CASE ReadArguments
  <2>1. /\ pc = "args" /\ script # <<>> /\ outcome = "running"
        /\ current_modem_version' = current_modem_version
    BY <1>10 DEF ReadArguments, Compared, Outcomes, reading
  <2>2. CASE ret = "ok" /\ pc' = "compare"
    BY <1>3, <1>10, <2>1, <2>2 DEF ReadArguments, Ends
  <2>3. CASE outcome' = "aborted" /\ failed'
    <3>1. failed' = TRUE
      BY <2>3 DEF TypeOK
    <3> QED
      BY <1>1, <1>2, <2>1, <2>3, <3>1 DEF Gate!Next, Gate!Abort
  <2>4. CASE outcome' = "aborted" /\ failed' = failed /\ NoStamp
    BY <1>1, <1>2, <2>1, <2>4 DEF Gate!Next, Gate!Abort, Readable, NoStamp
  <2>5. CASE ret = "error" /\ outcome' = "aborted" /\ failed' = failed
    <3>1. failed \/ NoStamp
      BY <2>5 DEF Answers
    <3> QED
      BY <2>3, <2>4, <2>5, <3>1
  <2> QED
    BY <1>10, <2>2, <2>3, <2>5 DEF ReadArguments, Ends, Fails
<1>11. CASE Conclude
  <2>1. /\ pc = "assert" /\ script # <<>> /\ outcome = "running" /\ failed' = failed
        /\ current_modem_version' = current_modem_version /\ Read /\ verdict \in {"0", "1"}
        /\ outcome' = IF verdict = "1" THEN "installing" ELSE "aborted"
    BY <1>11 DEF Conclude, Ends, Compared, Outcomes, Answers, reading
  <2>2. ReadSecond = Mktime(current_modem_version) /\ ReadSecond # -1
    BY <2>1, ReadSeconds
  <2>3. RequiredSeconds = {Mktime(script[1][n]) : n \in DOMAIN script[1]}
    BY <2>1 DEF RequiredSeconds, Required
  <2>4. CASE verdict = "1"
    <3>1. ReadSecond \in RequiredSeconds
      BY <2>2, <2>3, <2>4 DEF Compared
    <3> QED
      BY <1>1, <1>2, <2>1, <2>4, <3>1 DEF Gate!Next, Gate!Install
  <2>5. CASE verdict = "0"
    <3>1. ReadSecond \notin RequiredSeconds
      BY <2>2, <2>3, <2>5 DEF Compared
    <3> QED
      BY <1>1, <1>2, <2>1, <2>2, <2>5, <3>1 DEF Gate!Next, Gate!Abort, Gate!Unread
  <2> QED
    BY <2>1, <2>4, <2>5
<1>12. CASE UNCHANGED vars
  BY <1>3, <1>12 DEF vars, reading, judging
<1> QED
  BY <1>5, <1>6, <1>7, <1>8, <1>9, <1>10, <1>11, <1>12 DEF Next

\* The partition, the search, the clean-up and the texts implement the safe part of
\* the abstract gate (recovery_updater.cpp:122-195; that a decision is reached is
\* left to model checking).
THEOREM ModemImplementsGate == Spec => Gate!SafeSpec
<1>1. Init => Gate!Init
  BY DEF Init, ReadSecond, Gate!Init, Gate!Unread
<1> QED
  BY <1>1, InitModemInv, StepModemInv, StepGate, PTL DEF Spec, Gate!SafeSpec

-----------------------------------------------------------------------------
\* The way that is left: the stages, and the arguments that are not compared yet.
Arguments == IF script = <<>> THEN 0 ELSE Len(script[1])

StageRank ==
  [script |-> 10, open |-> 9, seek |-> 8, map |-> 7, search |-> 6, unmap |-> 5, close |-> 4,
   args |-> 3, compare |-> 2, assert |-> 1, done |-> 0]

StepsLeft == StageRank[pc] + (Arguments + 1 - k)

CountsArguments == k =< Arguments + 1

LEMMA StageRanks ==
  /\ StageRank["script"] = 10 /\ StageRank["open"] = 9 /\ StageRank["seek"] = 8
  /\ StageRank["map"] = 7 /\ StageRank["search"] = 6 /\ StageRank["unmap"] = 5
  /\ StageRank["close"] = 4 /\ StageRank["args"] = 3 /\ StageRank["compare"] = 2
  /\ StageRank["assert"] = 1 /\ StageRank["done"] = 0
BY DEF StageRank

LEMMA ArgumentCount == ASSUME ModemInv PROVE Arguments \in Nat
<1>1. CASE script = <<>>
  BY <1>1 DEF Arguments
<1>2. CASE script # <<>>
  <2>1. script[1] \in Seq(Texts)
    BY <1>2, InputTypes DEF ModemInv
  <2> QED
    BY <1>2, <2>1 DEF Arguments
<1> QED
  BY <1>1, <1>2

\* Each step but a comparison goes to a later stage; a comparison goes to a later stage,
\* or on to the next argument.
LEMMA StepGoesOn ==
  ASSUME Next
  PROVE  \/ UNCHANGED <<script, k>> /\ StageRank[pc'] < StageRank[pc]
         \/ UNCHANGED <<script, pc>> /\ pc = "compare" /\ ~(k > Len(script[1])) /\ k' = k + 1
<1>1. CASE RunScript \/ ReadArguments \/ Conclude \/ SearchCrashes
  BY <1>1, StageRanks DEF RunScript, ReadArguments, Conclude, SearchCrashes, Ends, inputs, judging
<1>2. CASE Open \/ Seek \/ Map
  BY <1>2, StageRanks DEF Open, Seek, Map, Goto, inputs, judging
<1>3. CASE Search \/ Unmap \/ Close
  BY <1>3, StageRanks DEF Search, Unmap, Close, Goto, inputs, judging
<1>4. CASE Compare
  BY <1>4, StageRanks DEF Compare, inputs
<1> QED
  BY <1>1, <1>2, <1>3, <1>4, StageRanks DEF Next

LEMMA StepIsCounted ==
  ModemInv /\ CountsArguments /\ [Next]_vars => CountsArguments' /\ [StepsLeft' < StepsLeft]_vars
<1> SUFFICES ASSUME ModemInv, CountsArguments, Next
             PROVE  CountsArguments' /\ StepsLeft' < StepsLeft
  BY DEF vars, inputs, judging, CountsArguments, Arguments
<1>1. Arguments \in Nat /\ k \in Nat
  BY ArgumentCount DEF ModemInv, TypeOK
<1>2. Arguments' = Arguments
  BY StepGoesOn DEF Arguments
<1>3. \A p \in Stages : StageRank[p] \in Nat
  BY StageRanks DEF Stages
<1>4. StageRank[pc] \in Nat /\ StageRank[pc'] \in Nat
  BY <1>3, StepModemInv DEF ModemInv, TypeOK
<1> HIDE DEF Arguments
<1>5. CASE UNCHANGED k /\ StageRank[pc'] < StageRank[pc]
  BY <1>1, <1>2, <1>4, <1>5 DEF StepsLeft, CountsArguments
<1>6. CASE UNCHANGED <<script, pc>> /\ pc = "compare" /\ ~(k > Len(script[1])) /\ k' = k + 1
  <2>1. script # <<>>
    BY <1>6 DEF ModemInv, Compared
  <2>2. Arguments = Len(script[1])
    BY <2>1 DEF Arguments
  <2>3. k =< Arguments /\ k' = k + 1 /\ StageRank[pc'] = StageRank[pc]
    BY <1>1, <1>6, <2>2
  <2> QED
    BY <1>1, <1>2, <1>4, <2>3 DEF StepsLeft, CountsArguments
<1> QED
  BY <1>5, <1>6, StepGoesOn

\* The other half of GateSpec's promise to decide: for every partition, package and list
\* of required stamps, and whatever fails, the update is decided after no more steps than
\* ten stages and one for each stamp (recovery_updater.cpp:122-195).
THEOREM UpdateIsDecidedInTime ==
  Spec => [](StepsLeft \in 0..(10 + Arguments)) /\ [][StepsLeft' < StepsLeft]_vars
<1>1. Init => CountsArguments
  <2> SUFFICES ASSUME Init PROVE CountsArguments
    OBVIOUS
  <2>1. Arguments \in Nat /\ k = 1
    BY InitModemInv, ArgumentCount DEF Init
  <2> QED
    BY <2>1 DEF CountsArguments
<1>2. ModemInv /\ CountsArguments => StepsLeft \in 0..(10 + Arguments)
  <2> SUFFICES ASSUME ModemInv, CountsArguments PROVE StepsLeft \in 0..(10 + Arguments)
    OBVIOUS
  <2>1. \A p \in Stages : StageRank[p] \in 0..10
    BY StageRanks DEF Stages
  <2>2. StageRank[pc] \in 0..10 /\ Arguments \in Nat /\ k \in Nat /\ k >= 1 /\ k =< Arguments + 1
    BY <2>1, ArgumentCount DEF ModemInv, TypeOK, CountsArguments
  <2> QED
    BY <2>2 DEF StepsLeft
<1> QED
  BY <1>1, <1>2, InitModemInv, StepModemInv, StepIsCounted, PTL DEF Spec

=============================================================================
