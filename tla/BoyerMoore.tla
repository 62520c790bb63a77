----------------------------- MODULE BoyerMoore -----------------------------
(***************************************************************************)
(* bm_search of src/recovery/recovery_updater.cpp: the search for the      *)
(* modem's time stamp in the image of its partition.  Strings are          *)
(* functions on 0..len-1, as in the code; the two tables are what the      *)
(* loops of bm_make_delta1 and bm_make_delta2 leave in them.  An input is  *)
(* a text and a pattern of at least one character.                         *)
(***************************************************************************)
EXTENDS Integers, FiniteSetsExt

CONSTANTS
  Char,     \* the characters
  Inputs    \* the searches made: records with a text str and a pattern pat

IsInput(x) ==
  /\ x.str_len \in Nat /\ x.str \in [0..(x.str_len - 1) -> Char]
  /\ x.pat_len \in Nat \ {0} /\ x.pat \in [0..(x.pat_len - 1) -> Char]

ASSUME InputsAssumption == \A x \in Inputs : IsInput(x)

NULL == -1

-----------------------------------------------------------------------------
\* The longest suffix of pat that ends at pat[p]; it stops one short of a whole
\* prefix, at i = p.
MaxSuffixLen(x, p) ==
  Min({i \in 0..p : i = p \/ x.pat[p - i] # x.pat[x.pat_len - 1 - i]})

\* Mutated: the first loop runs down, and leaves the leftmost occurrence.
LeftmostDelta1(x, c) ==
  LET At == {q \in 0..(x.pat_len - 2) : x.pat[q] = c}
  IN IF At = {} THEN x.pat_len ELSE x.pat_len - 1 - Min(At)

\* The distance from the last character of pat to the rightmost earlier
\* occurrence of c, or the whole length.
Delta1(x, c) ==
  LET At == {q \in 0..(x.pat_len - 2) : x.pat[q] = c}
  IN IF At = {} THEN x.pat_len ELSE x.pat_len - 1 - Max(At)

\* strncmp(pat + q, pat, pat_len - q) == 0
PrefixAt(x, q) == \A k \in q..(x.pat_len - 1) : x.pat[k] = x.pat[k - q]

\* last_prefix, when the first loop of bm_make_delta2 has come down to p.
LastPrefix(x, p) ==
  LET At == {q \in p..(x.pat_len - 1) : PrefixAt(x, q)}
  IN IF At = {} THEN x.pat_len - 1 ELSE Min(At) + 1

\* The second loop of bm_make_delta2 writes the entry k when it is at p.
Overrides(x, p, k) ==
  /\ x.pat_len - 1 - MaxSuffixLen(x, p) = k
  /\ x.pat[p - MaxSuffixLen(x, p)] # x.pat[k]

Delta2(x, k) ==
  LET At == {p \in 0..(x.pat_len - 2) : Overrides(x, p, k)}
  IN IF At = {} THEN LastPrefix(x, k) + (x.pat_len - 1 - k)
     ELSE x.pat_len - 1 - Max(At) + MaxSuffixLen(x, Max(At))

-----------------------------------------------------------------------------
VARIABLES
  input,     \* the text and the pattern
  i, j,      \* the indices into the text and into the pattern
  pc,        \* "outer", "inner": the head of a loop; "done": returned
  result     \* the offset returned, or NULL

vars == <<input, i, j, pc, result>>

Init ==
  /\ input \in Inputs
  /\ i = input.pat_len - 1 /\ j = input.pat_len - 1
  /\ pc = "outer" /\ result = NULL

\* Mutated: while (i <= (int) str_len)
AlignAtEnd ==
  /\ pc = "outer" /\ i <= input.str_len
  /\ j' = input.pat_len - 1 /\ pc' = "inner"
  /\ UNCHANGED <<input, i, result>>

\* while (i < (int) str_len): a new alignment, compared from its end.
Align ==
  /\ pc = "outer" /\ i < input.str_len
  /\ j' = input.pat_len - 1 /\ pc' = "inner"
  /\ UNCHANGED <<input, i, result>>

GiveUp ==
  /\ pc = "outer" /\ i >= input.str_len
  /\ pc' = "done"
  /\ UNCHANGED <<input, i, j, result>>

\* while (j >= 0 && (str[i] == pat[j]))
Compare ==
  /\ pc = "inner" /\ j >= 0 /\ input.str[i] = input.pat[j]
  /\ i' = i - 1 /\ j' = j - 1
  /\ UNCHANGED <<input, pc, result>>

\* Mutated: the offset is where the comparison stopped.
ReturnStop ==
  /\ pc = "inner" /\ j < 0
  /\ result' = i /\ pc' = "done"
  /\ UNCHANGED <<input, i, j>>

\* return str + i + 1
Return ==
  /\ pc = "inner" /\ j < 0
  /\ result' = i + 1 /\ pc' = "done"
  /\ UNCHANGED <<input, i, j>>

\* Mutated: the shift is by delta1 alone.
ShiftByChar ==
  /\ pc = "inner" /\ j >= 0 /\ input.str[i] # input.pat[j]
  /\ i' = i + Delta1(input, input.str[i])
  /\ pc' = "outer"
  /\ UNCHANGED <<input, j, result>>

\* Mutated: the shift makes up for the characters compared, and no more.
ShiftToSameEnd ==
  /\ pc = "inner" /\ j >= 0 /\ input.str[i] # input.pat[j]
  /\ i' = i + (input.pat_len - 1 - j)
  /\ pc' = "outer"
  /\ UNCHANGED <<input, j, result>>

\* i += max(delta1[str[i]], delta2[j])
Shift ==
  /\ pc = "inner" /\ j >= 0 /\ input.str[i] # input.pat[j]
  /\ i' = i + Max({Delta1(input, input.str[i]), Delta2(input, j)})
  /\ pc' = "outer"
  /\ UNCHANGED <<input, j, result>>

Next == Align \/ GiveUp \/ Compare \/ Return \/ Shift

Spec == Init /\ [][Next]_vars /\ WF_vars(Next)

-----------------------------------------------------------------------------
\* pat occurs in str at b.
Occurs(x, b) ==
  /\ b >= 0 /\ b + x.pat_len <= x.str_len
  /\ \A k \in 0..(x.pat_len - 1) : x.str[b + k] = x.pat[k]

\* No proper suffix of pat is a prefix of it.
Borderless(x) == \A q \in 1..(x.pat_len - 1) : ~PrefixAt(x, q)

TypeOK ==
  /\ i \in Int /\ j \in -1..(input.pat_len - 1)
  /\ pc \in {"outer", "inner", "done"}
  /\ result = NULL \/ result \in 0..(input.str_len - input.pat_len)

\* Every character read is inside the text and the pattern, although i moves both
\* ways (recovery_updater.cpp:107-116: the text is a mapping, with no byte to spare).
ReadsInside == (pc = "inner" /\ j >= 0) => i \in 0..(input.str_len - 1)

\* What is returned is an occurrence, for every pattern.
FoundIsOccurrence == result # NULL => Occurs(input, result)

\* For a pattern without a border, as the one the code searches for, the search
\* returns the first occurrence, and NULL only when there is none.
FirstOccurrenceFound ==
  (pc = "done" /\ Borderless(input)) =>
    /\ result = NULL => \A b \in 0..input.str_len : ~Occurs(input, b)
    /\ result # NULL => \A b \in 0..(result - 1) : ~Occurs(input, b)

\* The same for every pattern, which is what the tables are documented to give
\* (recovery_updater.cpp:44, 71).
FirstOccurrenceAlwaysFound ==
  pc = "done" =>
    /\ result = NULL => \A b \in 0..input.str_len : ~Occurs(input, b)
    /\ result # NULL => \A b \in 0..(result - 1) : ~Occurs(input, b)

\* A shift always leaves the alignment it came from: max(delta1, delta2) makes up
\* for the characters already compared.
ShiftAdvances == (pc' = "outer" /\ pc = "inner") => i' - (input.pat_len - 1) > i - j
ShiftsAdvance == [][ShiftAdvances]_vars

Occurrences == {b \in 0..input.str_len : Occurs(input, b)}

Find == INSTANCE FindFirst WITH
  occurrences <- Occurrences, plain <- Borderless(input), answered <- pc = "done"

\* The tables, the alignments and the comparisons implement the abstract search,
\* its promise to answer included (recovery_updater.cpp:93-120).
SearchSpec == Find!Spec

=============================================================================
