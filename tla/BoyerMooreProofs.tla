-------------------------- MODULE BoyerMooreProofs --------------------------
(***************************************************************************)
(* The search of BoyerMoore is correct for every borderless pattern and    *)
(* every text, of any length.                                              *)
(***************************************************************************)
EXTENDS BoyerMoore, WellFoundedInduction, TLAPS

\* A set of naturals has a least element.
LEMMA NatHasMin ==
  ASSUME NEW T, T \subseteq Nat, T # {}
  PROVE  \E x \in T : \A y \in T : x =< y
<1> DEFINE Less == {ss \in Nat \X Nat : ss[1] < ss[2]}
<1>1. IsWellFoundedOn(Less, Nat)
  BY NatLessThanWellFounded DEF OpToRel
<1> HIDE DEF Less
<1>2. PICK x \in T : \A y \in T : <<y, x>> \notin Less
  BY <1>1, WFMin
<1>3. ASSUME NEW y \in T, ~(x =< y) PROVE FALSE
  <2>1. x \in Nat /\ y \in Nat /\ y < x
    BY <1>3
  <2>2. <<y, x>> \in {ss \in Nat \X Nat : ss[1] < ss[2]}
    BY <2>1
  <2> QED
    BY <1>2, <2>2 DEF Less
<1> QED
  BY <1>3

\* So has a set of integers between two bounds, and a greatest one.
LEMMA MinOfRange ==
  ASSUME NEW lo \in Int, NEW hi \in Int, NEW T, T \subseteq lo..hi, T # {}
  PROVE  Min(T) \in T /\ \A y \in T : Min(T) =< y
<1> DEFINE U == {y - lo : y \in T}
<1>1. U \subseteq Nat /\ U # {}
  <2>1. \A y \in T : y - lo \in Nat
    OBVIOUS
  <2>2. PICK y \in T : TRUE
    OBVIOUS
  <2>3. y - lo \in U
    OBVIOUS
  <2> QED
    BY <2>1, <2>3
<1>2. PICK u \in U : \A y \in U : u =< y
  <2> HIDE DEF U
  <2> QED  BY <1>1, NatHasMin
<1>3. PICK x \in T : u = x - lo
  OBVIOUS
<1>4. ASSUME NEW y \in T PROVE x =< y
  <2>1. y - lo \in U
    OBVIOUS
  <2>2. u =< y - lo
    BY <1>2, <2>1
  <2> QED
    BY <1>3, <2>2
<1> QED
  BY <1>4 DEF Min

LEMMA MaxOfRange ==
  ASSUME NEW lo \in Int, NEW hi \in Int, NEW T, T \subseteq lo..hi, T # {}
  PROVE  Max(T) \in T /\ \A y \in T : y =< Max(T)
<1> DEFINE U == {hi - y : y \in T}
<1>1. U \subseteq Nat /\ U # {}
  <2>1. \A y \in T : hi - y \in Nat
    OBVIOUS
  <2>2. PICK y \in T : TRUE
    OBVIOUS
  <2>3. hi - y \in U
    OBVIOUS
  <2> QED
    BY <2>1, <2>3
<1>2. PICK u \in U : \A y \in U : u =< y
  <2> HIDE DEF U
  <2> QED  BY <1>1, NatHasMin
<1>3. PICK x \in T : u = hi - x
  OBVIOUS
<1>4. ASSUME NEW y \in T PROVE x >= y
  <2>1. hi - y \in U
    OBVIOUS
  <2> QED
    BY <1>2, <1>3, <2>1
<1> QED
  BY <1>4 DEF Max

-----------------------------------------------------------------------------
\* max_suffix_len: a suffix of pat that ends at p, the longest unless it is cut
\* at p.
LEMMA SuffixLen ==
  ASSUME NEW x, IsInput(x), NEW p \in 0..(x.pat_len - 2)
  PROVE  LET suf == MaxSuffixLen(x, p)
             m == x.pat_len
         IN /\ suf \in 0..p
            /\ \A k \in 0..(suf - 1) : x.pat[p - k] = x.pat[m - 1 - k]
            /\ suf = p \/ x.pat[p - suf] # x.pat[m - 1 - suf]
<1> DEFINE T == {k \in 0..p : k = p \/ x.pat[p - k] # x.pat[x.pat_len - 1 - k]}
<1>1. 0 \in Int /\ p \in Int /\ T \subseteq 0..p /\ T # {} /\ p \in T
  BY DEF IsInput
<1>2. Min(T) \in T /\ \A y \in T : Min(T) =< y
  <2> HIDE DEF T
  <2> QED  BY <1>1, MinOfRange
<1>3. \A k \in 0..(Min(T) - 1) : k \in 0..p /\ k \notin T
  BY <1>1, <1>2
<1> QED
  BY <1>1, <1>2, <1>3 DEF MaxSuffixLen

\* bm_make_delta1: a positive shift, that brings no later q under the mismatch
\* than the last place of the character.
LEMMA Delta1Bounds ==
  ASSUME NEW x, IsInput(x), NEW c
  PROVE  /\ Delta1(x, c) \in 1..x.pat_len
         /\ \A q \in 0..(x.pat_len - 2) : x.pat[q] = c => Delta1(x, c) =< x.pat_len - 1 - q
<1> DEFINE At == {q \in 0..(x.pat_len - 2) : x.pat[q] = c}
<1>1. CASE At = {}
  <2>1. Delta1(x, c) = x.pat_len
    BY <1>1 DEF Delta1
  <2> QED
    BY <1>1, <2>1 DEF IsInput
<1>2. CASE At # {}
  <2>1. 0 \in Int /\ x.pat_len - 2 \in Int /\ At \subseteq 0..(x.pat_len - 2)
    BY DEF IsInput
  <2>2. Max(At) \in At /\ \A y \in At : y =< Max(At)
    <3> HIDE DEF At
    <3> QED  BY <1>2, <2>1, MaxOfRange
  <2>3. Delta1(x, c) = x.pat_len - 1 - Max(At)
    BY <1>2 DEF Delta1
  <2>4. x.pat_len \in Nat \ {0} /\ Max(At) \in 0..(x.pat_len - 2)
    BY <2>2 DEF IsInput
  <2>5. \A q \in 0..(x.pat_len - 2) : x.pat[q] = c => q =< Max(At)
    BY <2>2
  <2> HIDE DEF At
  <2> QED
    BY <2>3, <2>4, <2>5
<1> QED
  BY <1>1, <1>2

\* The first loop of bm_make_delta2 leaves no more than the length, and no less
\* than 1.
LEMMA LastPrefixBounds ==
  ASSUME NEW x, IsInput(x), NEW k \in 0..(x.pat_len - 1)
  PROVE  LastPrefix(x, k) \in 1..x.pat_len
<1> DEFINE At == {q \in k..(x.pat_len - 1) : PrefixAt(x, q)}
<1>1. CASE At = {}
  <2>1. PrefixAt(x, 0)
    BY DEF PrefixAt, IsInput
  <2>2. k # 0
    BY <1>1, <2>1 DEF IsInput
  <2>3. LastPrefix(x, k) = x.pat_len - 1
    BY <1>1 DEF LastPrefix
  <2> QED
    BY <2>2, <2>3 DEF IsInput
<1>2. CASE At # {}
  <2>1. k \in Int /\ x.pat_len - 1 \in Int /\ At \subseteq k..(x.pat_len - 1)
    BY DEF IsInput
  <2>2. Min(At) \in At
    <3> HIDE DEF At
    <3> QED  BY <1>2, <2>1, MinOfRange
  <2>3. LastPrefix(x, k) = Min(At) + 1
    BY <1>2 DEF LastPrefix
  <2> QED
    BY <2>1, <2>2, <2>3 DEF IsInput
<1> QED
  BY <1>1, <1>2

\* bm_make_delta2: past the characters compared, at least 1, at most the length,
\* and no more than any alignment that the second loop recorded.
LEMMA Delta2Bounds ==
  ASSUME NEW x, IsInput(x), NEW k \in 0..(x.pat_len - 1)
  PROVE  LET by == Delta2(x, k) - (x.pat_len - 1 - k)
         IN /\ Delta2(x, k) \in Int
            /\ by \in 1..x.pat_len
            /\ \A p \in 0..(x.pat_len - 2) : Overrides(x, p, k) => by =< x.pat_len - 1 - p
<1> DEFINE At == {p \in 0..(x.pat_len - 2) : Overrides(x, p, k)}
<1>1. CASE At = {}
  <2>1. Delta2(x, k) = LastPrefix(x, k) + (x.pat_len - 1 - k)
    BY <1>1 DEF Delta2
  <2> QED
    BY <1>1, <2>1, LastPrefixBounds DEF IsInput
<1>2. CASE At # {}
  <2>1. 0 \in Int /\ x.pat_len - 2 \in Int /\ At \subseteq 0..(x.pat_len - 2)
    BY DEF IsInput
  <2>2. Max(At) \in At /\ \A y \in At : y =< Max(At)
    <3> HIDE DEF At
    <3> QED  BY <1>2, <2>1, MaxOfRange
  <2>3. Delta2(x, k) = x.pat_len - 1 - Max(At) + MaxSuffixLen(x, Max(At))
    BY <1>2 DEF Delta2
  <2>4. MaxSuffixLen(x, Max(At)) \in 0..Max(At)
    BY <2>2, SuffixLen
  <2>5. x.pat_len - 1 - MaxSuffixLen(x, Max(At)) = k
    BY <2>2 DEF Overrides
  <2>6. x.pat_len \in Nat \ {0} /\ k \in Nat /\ Max(At) \in 0..(x.pat_len - 2)
    BY <2>2 DEF IsInput
  <2>7. \A p \in 0..(x.pat_len - 2) : Overrides(x, p, k) => p =< Max(At)
    BY <2>2
  <2> HIDE DEF At
  <2>8. Delta2(x, k) - (x.pat_len - 1 - k) = x.pat_len - 1 - Max(At) /\ Delta2(x, k) \in Int
    BY <2>3, <2>4, <2>5, <2>6
  <2> QED
    BY <2>6, <2>7, <2>8
<1> QED
  BY <1>1, <1>2

-----------------------------------------------------------------------------
\* An alignment of x at a whose characters after jj match and whose character at
\* jj does not.
Mismatch(x, a, jj) ==
  /\ jj \in 0..(x.pat_len - 1)
  /\ a \in Nat /\ a + x.pat_len =< x.str_len
  /\ \A k \in (jj + 1)..(x.pat_len - 1) : x.str[a + k] = x.pat[k]
  /\ x.str[a + jj] # x.pat[jj]

\* delta1 passes no occurrence: one that covers the mismatch has its character.
LEMMA Delta1Safe ==
  ASSUME NEW x, IsInput(x), NEW a, NEW jj, Mismatch(x, a, jj),
         NEW b \in Nat, b > a, Occurs(x, b)
  PROVE  b >= a + Delta1(x, x.str[a + jj]) - (x.pat_len - 1 - jj)
<1> DEFINE d == Delta1(x, x.str[a + jj])
<1>0. d \in 1..x.pat_len
  BY Delta1Bounds
<1>1. CASE b > a + jj
  BY <1>0, <1>1 DEF Mismatch, IsInput
<1>2. CASE b =< a + jj
  <2> DEFINE q == a + jj - b
  <2>1. q \in 0..(x.pat_len - 2) /\ q \in 0..(x.pat_len - 1) /\ b + q = a + jj
    <3>1. x.pat_len \in Nat /\ a \in Nat /\ jj \in 0..(x.pat_len - 1)
      BY DEF Mismatch, IsInput
    <3> QED
      BY <1>2, <3>1
  <2>2. x.pat[q] = x.str[a + jj]
    BY <2>1 DEF Occurs
  <2>3. d =< x.pat_len - 1 - q
    BY <2>1, <2>2, Delta1Bounds
  <2> QED
    BY <1>0, <2>1, <2>3 DEF Mismatch, IsInput
<1> QED
  BY <1>1, <1>2 DEF Mismatch, IsInput

\* An occurrence that covers the mismatch is an alignment the second loop of
\* bm_make_delta2 records.
LEMMA CoveringIsRecorded ==
  ASSUME NEW x, IsInput(x), NEW a, NEW jj, Mismatch(x, a, jj),
         NEW b \in Nat, b > a, b =< a + jj, Occurs(x, b)
  PROVE  LET p == x.pat_len - 1 - (b - a)
         IN p \in 0..(x.pat_len - 2) /\ Overrides(x, p, jj)
<1> DEFINE m == x.pat_len
           s == b - a
           p == m - 1 - s
           suf == MaxSuffixLen(x, p)
<1>1. /\ m \in Nat \ {0} /\ a \in Nat /\ jj \in 0..(m - 1) /\ s \in 1..jj
      /\ p \in 0..(m - 2) /\ p - (m - 1 - jj) = jj - s
  <2>1. m \in Nat \ {0} /\ a \in Nat /\ jj \in 0..(m - 1)
    BY DEF Mismatch, IsInput
  <2> QED
    BY <2>1
<1>2. /\ suf \in 0..p
      /\ \A k \in 0..(suf - 1) : x.pat[p - k] = x.pat[m - 1 - k]
      /\ suf = p \/ x.pat[p - suf] # x.pat[m - 1 - suf]
  BY <1>1, SuffixLen
<1>3. \A k \in (jj + 1)..(m - 1) : x.pat[k - s] = x.pat[k]
  <2> SUFFICES ASSUME NEW k \in (jj + 1)..(m - 1) PROVE x.pat[k - s] = x.pat[k]
    OBVIOUS
  <2>1. k - s \in 0..(m - 1) /\ b + (k - s) = a + k
    BY <1>1
  <2>2. x.str[b + (k - s)] = x.pat[k - s]
    BY <2>1 DEF Occurs
  <2> QED
    BY <2>1, <2>2 DEF Mismatch
<1>4. x.pat[jj - s] # x.pat[jj]
  <2>1. jj - s \in 0..(m - 1) /\ b + (jj - s) = a + jj
    BY <1>1
  <2>2. x.str[b + (jj - s)] = x.pat[jj - s]
    BY <2>1 DEF Occurs
  <2> QED
    BY <2>1, <2>2 DEF Mismatch
<1>5. ~(suf > m - 1 - jj)
  <2> SUFFICES ASSUME suf > m - 1 - jj PROVE FALSE
    OBVIOUS
  <2>1. m - 1 - jj \in 0..(suf - 1) /\ m - 1 - (m - 1 - jj) = jj
    BY <1>1, <1>2
  <2>2. x.pat[p - (m - 1 - jj)] = x.pat[m - 1 - (m - 1 - jj)]
    BY <1>2, <2>1
  <2> QED
    BY <1>1, <1>4, <2>1, <2>2
<1>6. ~(suf < m - 1 - jj)
  <2> SUFFICES ASSUME suf < m - 1 - jj PROVE FALSE
    OBVIOUS
  <2>1. m - 1 - suf \in (jj + 1)..(m - 1) /\ (m - 1 - suf) - s = p - suf
    BY <1>1, <1>2
  <2>2. x.pat[p - suf] = x.pat[m - 1 - suf]
    BY <1>3, <2>1
  <2>3. suf # p
    BY <1>1
  <2> QED
    BY <1>2, <2>2, <2>3
<1>7. suf = m - 1 - jj /\ m - 1 - suf = jj /\ p - suf = jj - s
  BY <1>1, <1>2, <1>5, <1>6
<1> QED
  BY <1>1, <1>4, <1>7 DEF Overrides

\* delta2 passes no occurrence, if pat has no border: one that starts between the
\* mismatch and the end of the alignment would make one.
LEMMA Delta2Safe ==
  ASSUME NEW x, IsInput(x), Borderless(x), NEW a, NEW jj, Mismatch(x, a, jj),
         NEW b \in Nat, b > a, Occurs(x, b)
  PROVE  b >= a + Delta2(x, jj) - (x.pat_len - 1 - jj)
<1> DEFINE m == x.pat_len
           s == b - a
           by == Delta2(x, jj) - (m - 1 - jj)
<1>1. m \in Nat \ {0} /\ a \in Nat /\ jj \in 0..(m - 1) /\ s \in Nat \ {0} /\ Delta2(x, jj) \in Int
  BY Delta2Bounds DEF Mismatch, IsInput
<1>2. by \in 1..m
  BY <1>1, Delta2Bounds
<1>3. CASE s =< jj
  <2>1. m - 1 - s \in 0..(m - 2) /\ Overrides(x, m - 1 - s, jj)
    BY <1>1, <1>3, CoveringIsRecorded
  <2>2. by =< m - 1 - (m - 1 - s)
    BY <1>1, <2>1, Delta2Bounds
  <2> QED
    BY <1>1, <1>2, <2>2
<1>4. CASE s > jj /\ s < m
  <2>1. PrefixAt(x, s)
    <3> SUFFICES ASSUME NEW k \in s..(m - 1) PROVE x.pat[k] = x.pat[k - s]
      BY DEF PrefixAt
    <3>1. k \in (jj + 1)..(m - 1) /\ k - s \in 0..(m - 1) /\ b + (k - s) = a + k
      BY <1>1, <1>4
    <3>2. x.str[b + (k - s)] = x.pat[k - s]
      BY <3>1 DEF Occurs
    <3> QED
      BY <3>1, <3>2 DEF Mismatch
  <2> QED
    BY <1>1, <1>4, <2>1 DEF Borderless
<1>5. CASE s >= m
  BY <1>1, <1>2, <1>5
<1> QED
  BY <1>1, <1>3, <1>4, <1>5

-----------------------------------------------------------------------------
\* MAX of the code.
LEMMA MaxOfTwo ==
  ASSUME NEW d \in Int, NEW e \in Int
  PROVE  Max({d, e}) \in {d, e} /\ Max({d, e}) >= d /\ Max({d, e}) >= e
<1>1. \E y \in {d, e} : \A z \in {d, e} : y >= z
  <2>1. CASE d >= e
    BY <2>1
  <2>2. CASE e >= d
    BY <2>2
  <2> QED
    BY <2>1, <2>2
<1> QED
  BY <1>1 DEF Max

\* No occurrence starts before a, if pat has no border.
NonePassed(a) == Borderless(input) => \A b \in Nat : b < a => ~Occurs(input, b)

\* Between two alignments, while one is compared, and at the end.
OuterInv ==
  pc = "outer" => result = NULL /\ i >= input.pat_len - 1 /\ NonePassed(i - (input.pat_len - 1))

InnerInv ==
  pc = "inner" =>
    /\ result = NULL
    /\ i - j \in Nat /\ (i - j) + input.pat_len =< input.str_len
    /\ \A k \in (j + 1)..(input.pat_len - 1) : input.str[(i - j) + k] = input.pat[k]
    /\ NonePassed(i - j)

DoneInv ==
  pc = "done" =>
    /\ result = NULL => NonePassed(input.str_len + 1)
    /\ result # NULL => result \in Nat /\ Occurs(input, result) /\ NonePassed(result)

SearchInv == input \in Inputs /\ TypeOK /\ OuterInv /\ InnerInv /\ DoneInv

\* An input of the search.
LEMMA InputTypes ==
  SearchInv => /\ IsInput(input) /\ input.pat_len \in Nat \ {0} /\ input.str_len \in Nat
               /\ i \in Int /\ j \in -1..(input.pat_len - 1)
BY InputsAssumption DEF SearchInv, TypeOK, IsInput

\* The next alignment is further on, and passes no occurrence.
LEMMA ShiftIsSafe ==
  SearchInv /\ Shift => /\ i' \in Int /\ i' - (input.pat_len - 1) > i - j
                        /\ NonePassed(i' - (input.pat_len - 1))
<1> SUFFICES ASSUME SearchInv, Shift
             PROVE  /\ i' \in Int /\ i' - (input.pat_len - 1) > i - j
                    /\ NonePassed(i' - (input.pat_len - 1))
  OBVIOUS
<1> DEFINE m == input.pat_len
           a == i - j
           d1 == Delta1(input, input.str[i])
           d2 == Delta2(input, j)
<1>1. /\ IsInput(input) /\ m \in Nat \ {0} /\ i \in Int /\ j \in 0..(m - 1)
      /\ a \in Nat /\ a + j = i
  BY InputTypes DEF Shift, SearchInv, InnerInv
<1>2. Mismatch(input, a, j)
  BY <1>1 DEF Mismatch, Shift, SearchInv, InnerInv
<1>3. d1 \in Int /\ d2 \in Int /\ d2 - (m - 1 - j) >= 1
  BY <1>1, Delta1Bounds, Delta2Bounds
<1>4. i' = i + Max({d1, d2}) /\ Max({d1, d2}) \in {d1, d2} /\ Max({d1, d2}) >= d2
  BY <1>3, MaxOfTwo DEF Shift
<1>5. i' \in Int /\ i' - (m - 1) > a
  BY <1>1, <1>3, <1>4
<1>6. ASSUME Borderless(input), NEW b \in Nat, b < i' - (m - 1), Occurs(input, b) PROVE FALSE
  <2>1. b >= a
    BY <1>6 DEF SearchInv, InnerInv, NonePassed, Shift
  <2>2. b # a
    BY <1>1, <1>2, <1>6 DEF Mismatch, Occurs
  <2>3. b > a
    BY <1>1, <2>1, <2>2
  <2>4. b >= a + d1 - (m - 1 - j)
    BY <1>1, <1>2, <1>6, <2>3, Delta1Safe
  <2>5. b >= a + d2 - (m - 1 - j)
    BY <1>1, <1>2, <1>6, <2>3, Delta2Safe
  <2> QED
    BY <1>1, <1>3, <1>4, <1>6, <2>4, <2>5
<1> QED
  BY <1>5, <1>6 DEF NonePassed

\* The invariant holds at the call.
LEMMA InitSearchInv == Init => SearchInv
<1> SUFFICES ASSUME Init PROVE SearchInv
  OBVIOUS
<1>1. IsInput(input) /\ input.pat_len \in Nat \ {0}
  BY InputsAssumption DEF Init, IsInput
<1> QED
  BY <1>1 DEF Init, SearchInv, TypeOK, OuterInv, InnerInv, DoneInv, NonePassed, NULL

\* Every step of the search preserves it.
LEMMA StepSearchInv == SearchInv /\ [Next]_vars => SearchInv'
<1> SUFFICES ASSUME SearchInv, [Next]_vars PROVE SearchInv'
  OBVIOUS
<1> USE InputTypes
<1>1. CASE Align
  BY <1>1 DEF Align, SearchInv, TypeOK, OuterInv, InnerInv, DoneInv, NonePassed, NULL
<1>2. CASE GiveUp
  <2>1. ASSUME Borderless(input), NEW b \in Nat, Occurs(input, b) PROVE FALSE
    BY <1>2, <2>1 DEF GiveUp, SearchInv, OuterInv, NonePassed, Occurs
  <2> QED
    BY <1>2, <2>1 DEF GiveUp, SearchInv, TypeOK, OuterInv, InnerInv, DoneInv, NonePassed, NULL
<1>3. CASE Compare
  <2>1. /\ i' \in Int /\ j' \in -1..(input.pat_len - 1) /\ i' - j' = i - j
        /\ input' = input /\ pc' = "inner" /\ result' = result
    BY <1>3 DEF Compare
  <2>2. ASSUME NEW k \in (j' + 1)..(input.pat_len - 1)
        PROVE  input.str[(i - j) + k] = input.pat[k]
    BY <1>3, <2>1 DEF Compare, SearchInv, InnerInv
  <2> QED
    BY <1>3, <2>1, <2>2
       DEF Compare, SearchInv, TypeOK, OuterInv, InnerInv, DoneInv, NonePassed
<1>4. CASE Return
  <2>1. result' = i - j /\ j + 1 = 0
    BY <1>4 DEF Return
  <2>2. Occurs(input, i - j)
    BY <1>4, <2>1 DEF Return, SearchInv, InnerInv, Occurs
  <2>3. result' \in Nat /\ result' # NULL /\ result' \in 0..(input.str_len - input.pat_len)
    BY <1>4, <2>1 DEF Return, SearchInv, InnerInv, NULL
  <2>4. input' = input /\ i' = i /\ j' = j /\ pc' = "done" /\ NonePassed(i - j)
    BY <1>4 DEF Return, SearchInv, InnerInv
  <2> QED
    BY <2>1, <2>2, <2>3, <2>4
       DEF SearchInv, TypeOK, OuterInv, InnerInv, DoneInv, NonePassed
<1>5. CASE Shift
  <2>1. /\ i' \in Int /\ i' - (input.pat_len - 1) > i - j
        /\ NonePassed(i' - (input.pat_len - 1))
    BY <1>5, ShiftIsSafe
  <2>2. input' = input /\ j' = j /\ pc' = "outer" /\ result' = result /\ result = NULL /\ i - j >= 0
    BY <1>5 DEF Shift, SearchInv, InnerInv
  <2> QED
    BY <2>1, <2>2 DEF SearchInv, TypeOK, OuterInv, InnerInv, DoneInv, NonePassed
<1>6. CASE UNCHANGED vars
  BY <1>6 DEF vars, SearchInv, TypeOK, OuterInv, InnerInv, DoneInv, NonePassed
<1> QED
  BY <1>1, <1>2, <1>3, <1>4, <1>5, <1>6 DEF Next

-----------------------------------------------------------------------------
\* Type correctness: i may go below the pattern's length, j never beyond the pattern,
\* and an offset that is returned leaves room for the pattern.
THEOREM SearchTypeCorrect == Spec => []TypeOK
<1>1. SearchInv => TypeOK
  BY DEF SearchInv
<1> QED
  BY InitSearchInv, StepSearchInv, <1>1, PTL DEF Spec

\* Every access to the text is inside it, for every pattern and every text.
THEOREM SearchReadsInside == Spec => []ReadsInside
<1>1. SearchInv => ReadsInside
  BY InputTypes DEF SearchInv, InnerInv, ReadsInside
<1> QED
  BY InitSearchInv, StepSearchInv, <1>1, PTL DEF Spec

\* What the search returns is an occurrence, for every pattern and every text.
THEOREM SearchFindsOccurrence == Spec => []FoundIsOccurrence
<1>1. SearchInv => FoundIsOccurrence
  BY DEF SearchInv, TypeOK, OuterInv, InnerInv, DoneInv, FoundIsOccurrence
<1> QED
  BY InitSearchInv, StepSearchInv, <1>1, PTL DEF Spec

\* For a borderless pattern the first occurrence is returned, and NULL only when
\* there is none.
THEOREM SearchIsCorrect == Spec => []FirstOccurrenceFound
<1>1. SearchInv => FirstOccurrenceFound
  <2> SUFFICES ASSUME SearchInv, pc = "done", Borderless(input)
               PROVE  /\ result = NULL => \A b \in 0..input.str_len : ~Occurs(input, b)
                      /\ result # NULL => \A b \in 0..(result - 1) : ~Occurs(input, b)
    BY DEF FirstOccurrenceFound
  <2> QED
    BY InputTypes DEF SearchInv, DoneInv, NonePassed
<1> QED
  BY InitSearchInv, StepSearchInv, <1>1, PTL DEF Spec

\* Every mismatch moves the alignment forward, for every pattern and every text.
THEOREM SearchAdvances == Spec => ShiftsAdvance
<1>1. SearchInv /\ [Next]_vars => [ShiftAdvances]_vars
  <2> SUFFICES ASSUME SearchInv, [Next]_vars, pc' = "outer", pc = "inner"
               PROVE  i' - (input.pat_len - 1) > i - j
    BY DEF ShiftAdvances
  <2>1. Shift
    BY DEF Next, Align, GiveUp, Compare, Return, vars
  <2> QED
    BY <2>1, ShiftIsSafe
<1> QED
  BY InitSearchInv, StepSearchInv, <1>1, PTL DEF Spec, ShiftsAdvance

\* A pattern whose first character does not come back has no border: the case of
\* MODEM_VER_STR (recovery_updater.cpp:40).
THEOREM UniqueFirstIsBorderless ==
  ASSUME NEW x, IsInput(x), \A q \in 1..(x.pat_len - 1) : x.pat[q] # x.pat[0]
  PROVE  Borderless(x)
BY DEF Borderless, PrefixAt, IsInput

-----------------------------------------------------------------------------
\* Both tables shift by no more than what is left of the pattern and its length.
LEMMA ShiftsAreShort ==
  ASSUME NEW x, IsInput(x), NEW c, NEW k \in 0..(x.pat_len - 1)
  PROVE  /\ Max({Delta1(x, c), Delta2(x, k)}) \in Int
         /\ Max({Delta1(x, c), Delta2(x, k)}) =< 2 * x.pat_len - 1 - k
<1> DEFINE d1 == Delta1(x, c)
           d2 == Delta2(x, k)
<1>1. x.pat_len \in Nat \ {0}
  BY DEF IsInput
<1>2. d1 \in Int /\ d1 =< x.pat_len
  BY <1>1, Delta1Bounds
<1>3. d2 \in Int /\ d2 =< 2 * x.pat_len - 1 - k
  <2>1. d2 \in Int /\ d2 - (x.pat_len - 1 - k) \in 1..x.pat_len
    BY Delta2Bounds
  <2> HIDE DEF d2
  <2> QED
    BY <1>1, <2>1
<1> HIDE DEF d1, d2
<1>4. Max({d1, d2}) \in {d1, d2}
  BY <1>2, <1>3, MaxOfTwo
<1>5. Max({d1, d2}) \in Int /\ Max({d1, d2}) =< 2 * x.pat_len - 1 - k
  BY <1>1, <1>2, <1>3, <1>4
<1> QED
  BY <1>5 DEF d1, d2

\* The index into the text leaves it by one place at the front and by less than a
\* pattern at the end.
IndexIsNear == i \in -1..(input.str_len + input.pat_len - 1)

LEMMA StepIndexIsNear ==
  SearchInv /\ IndexIsNear /\ [Next]_vars => IndexIsNear'
<1> SUFFICES ASSUME SearchInv, IndexIsNear, [Next]_vars PROVE IndexIsNear'
  OBVIOUS
<1>1. /\ input.pat_len \in Nat \ {0} /\ input.str_len \in Nat
      /\ i \in Int /\ j \in -1..(input.pat_len - 1) /\ IsInput(input)
  BY InputTypes
<1>2. CASE Compare
  BY <1>1, <1>2 DEF Compare, SearchInv, InnerInv, IndexIsNear
<1>3. CASE Shift
  <2>1. j \in 0..(input.pat_len - 1) /\ input' = input
    BY <1>1, <1>3 DEF Shift
  <2>2. PICK by \in Int : i' = i + by /\ by =< 2 * input.pat_len - 1 - j
    BY <1>1, <1>3, <2>1, ShiftsAreShort DEF Shift
  <2>3. (i - j) + input.pat_len =< input.str_len /\ i - j >= 0
    BY <1>3 DEF Shift, SearchInv, InnerInv
  <2>4. i' \in Int /\ i' - (input.pat_len - 1) > i - j
    BY <1>3, ShiftIsSafe
  <2> QED
    BY <1>1, <2>1, <2>2, <2>3, <2>4 DEF IndexIsNear
<1>4. CASE Align \/ GiveUp \/ Return \/ UNCHANGED vars
  BY <1>4 DEF Align, GiveUp, Return, vars, IndexIsNear
<1> QED
  BY <1>2, <1>3, <1>4 DEF Next

LEMMA InitIndexIsNear == Init => IndexIsNear
<1> SUFFICES ASSUME Init PROVE IndexIsNear
  OBVIOUS
<1>1. input.pat_len \in Nat \ {0} /\ input.str_len \in Nat
  BY InputsAssumption DEF Init, IsInput
<1> QED
  BY <1>1 DEF Init, IndexIsNear

\* The index is an int of the code, and never overflows: not where every text and
\* its pattern together are no longer than the greatest int, although the last
\* shift goes beyond the end of the text (recovery_updater.cpp:98, 116).
THEOREM IndexFitsInt ==
  ASSUME NEW IntMax \in Nat, \A x \in Inputs : x.str_len + x.pat_len - 1 =< IntMax
  PROVE  Spec => [](i \in -IntMax - 1..IntMax)
<1>1. SearchInv /\ IndexIsNear => i \in -IntMax - 1..IntMax
  <2> SUFFICES ASSUME SearchInv, IndexIsNear PROVE i \in -IntMax - 1..IntMax
    OBVIOUS
  <2>1. input \in Inputs /\ input.pat_len \in Nat \ {0} /\ input.str_len \in Nat
    BY InputTypes DEF SearchInv
  <2>2. input.str_len + input.pat_len - 1 =< IntMax
    BY <2>1
  <2> QED
    BY <2>1, <2>2 DEF IndexIsNear
<1> QED
  BY InitSearchInv, StepSearchInv, InitIndexIsNear, StepIndexIsNear, <1>1, PTL DEF Spec

-----------------------------------------------------------------------------
\* The place of the pattern in the text, while the search goes on.
Alignment == IF pc = "outer" THEN i - (input.pat_len - 1) ELSE i - j

\* The steps that are left at most: a whole pattern for each later alignment, and
\* what is left of this one.
Remaining ==
  IF pc = "done" THEN 0
  ELSE (input.str_len - Alignment) * (input.pat_len + 2)
         + (IF pc = "outer" THEN input.pat_len + 2 ELSE j + 2)

LEMMA OneFewer ==
  ASSUME NEW d \in Nat, NEW e \in Nat, NEW w \in Nat, e < d
  PROVE  e * w + w =< d * w /\ e * w \in Nat /\ d * w \in Nat
<1> DEFINE f == d - e - 1
<1>1. f \in Nat /\ d = e + 1 + f
  OBVIOUS
<1> HIDE DEF f
<1>2. f * w \in Nat /\ e * w \in Nat
  BY <1>1
<1>3. (e + 1 + f) * w = e * w + w + f * w
  BY <1>1
<1> QED
  BY <1>1, <1>2, <1>3

LEMMA RemainingIsNat ==
  SearchInv /\ IndexIsNear =>
    Remaining \in Nat /\ (pc # "done" => input.str_len - Alignment \in Nat /\ Remaining > 0)
<1> SUFFICES ASSUME SearchInv, IndexIsNear, pc # "done"
             PROVE  Remaining \in Nat /\ Remaining > 0 /\ input.str_len - Alignment \in Nat
  BY DEF Remaining
<1>1. /\ input.pat_len \in Nat \ {0} /\ input.str_len \in Nat
      /\ i \in Int /\ j \in -1..(input.pat_len - 1)
  BY InputTypes
<1>2. input.str_len - Alignment \in Nat
  <2>1. CASE pc = "outer"
    BY <1>1, <2>1 DEF Alignment, IndexIsNear
  <2>2. CASE pc = "inner"
    BY <1>1, <2>2 DEF Alignment, SearchInv, InnerInv
  <2> QED
    BY <2>1, <2>2 DEF SearchInv, TypeOK
<1> DEFINE d == input.str_len - Alignment
           w == input.pat_len + 2
           r == IF pc = "outer" THEN input.pat_len + 2 ELSE j + 2
<1>3. d \in Nat /\ w \in Nat /\ r \in Nat /\ r > 0 /\ Remaining = d * w + r
  BY <1>1, <1>2 DEF Remaining
<1> HIDE DEF d, w, r
<1>4. d * w \in Nat
  BY <1>3
<1> QED
  BY <1>2, <1>3, <1>4

\* A shift gives up an alignment, which pays for all the comparisons of the next.
LEMMA ShiftLowersRemaining ==
  SearchInv /\ IndexIsNear /\ (SearchInv /\ IndexIsNear)' /\ Shift => Remaining' < Remaining
<1> SUFFICES ASSUME SearchInv, IndexIsNear, (SearchInv /\ IndexIsNear)', Shift
             PROVE  Remaining' < Remaining
  OBVIOUS
<1> DEFINE d == input.str_len - Alignment
           e == input.str_len - Alignment'
           w == input.pat_len + 2
<1>1. /\ input.pat_len \in Nat \ {0} /\ input.str_len \in Nat
      /\ i \in Int /\ j \in 0..(input.pat_len - 1) /\ input' = input
      /\ pc = "inner" /\ pc' = "outer"
  BY InputTypes DEF Shift
<1>2. d \in Nat
  BY <1>1, RemainingIsNat
<1>3. e \in Nat
  <2>1. (pc # "done" => input.str_len - Alignment \in Nat)'
    BY RemainingIsNat, PTL
  <2> QED
    BY <1>1, <2>1
<1>4. e < d
  <2>1. i' \in Int /\ i' - (input.pat_len - 1) > i - j
    BY ShiftIsSafe
  <2> QED
    BY <1>1, <2>1 DEF Alignment
<1>5. Remaining = d * w + (j + 2) /\ Remaining' = e * w + w /\ w \in Nat
  BY <1>1 DEF Remaining
<1> HIDE DEF d, e, w
<1>6. e * w + w =< d * w /\ e * w \in Nat /\ d * w \in Nat
  BY <1>2, <1>3, <1>4, <1>5, OneFewer
<1> QED
  BY <1>1, <1>5, <1>6

LEMMA StepLowersRemaining ==
  SearchInv /\ IndexIsNear /\ (SearchInv /\ IndexIsNear)' /\ Next
    => Remaining' < Remaining
<1> SUFFICES ASSUME SearchInv, IndexIsNear, (SearchInv /\ IndexIsNear)', Next
             PROVE  Remaining' < Remaining
  OBVIOUS
<1> DEFINE d == input.str_len - Alignment
           w == input.pat_len + 2
           p == d * w
<1>1. /\ input.pat_len \in Nat \ {0} /\ input.str_len \in Nat /\ w \in Nat
      /\ i \in Int /\ j \in -1..(input.pat_len - 1)
  BY InputTypes
<1>2. pc # "done" => Remaining > 0 /\ d \in Nat /\ p \in Nat
  <2>1. pc # "done" => Remaining > 0 /\ d \in Nat
    BY RemainingIsNat
  <2> HIDE DEF d, w
  <2> QED
    BY <1>1, <2>1
<1>3. CASE Align
  <2>1. Remaining = p + (input.pat_len + 2)
    BY <1>3 DEF Align, Remaining
  <2>2. Remaining' = p + (input.pat_len + 1)
    BY <1>1, <1>3 DEF Align, Remaining, Alignment
  <2> HIDE DEF p
  <2> QED
    BY <1>1, <1>2, <1>3, <2>1, <2>2 DEF Align
<1>4. CASE Compare
  <2>1. Alignment' = Alignment
    BY <1>1, <1>4 DEF Compare, Alignment
  <2>2. Remaining = p + (j + 2) /\ Remaining' = p + (j' + 2) /\ j' = j - 1
    BY <1>4, <2>1 DEF Compare, Remaining
  <2> HIDE DEF p
  <2> QED
    BY <1>1, <1>2, <1>4, <2>2 DEF Compare
<1>5. CASE GiveUp \/ Return
  <2>1. Remaining' = 0 /\ pc # "done"
    BY <1>5 DEF GiveUp, Return, Remaining
  <2> QED
    BY <1>2, <2>1
<1>6. CASE Shift
  BY <1>6, ShiftLowersRemaining
<1> QED
  BY <1>3, <1>4, <1>5, <1>6 DEF Next

UsesUpAStep == Remaining \in Nat /\ Remaining' \in Nat /\ Remaining' < Remaining

\* Every step of the search uses up one of the finitely many that are left, so that
\* it ends, for every pattern and every text; that it goes on while it can is the
\* fairness of SearchSpec (recovery_updater.cpp:106-119).
THEOREM SearchUsesUpItsSteps ==
  Spec => [][UsesUpAStep]_vars
<1>1. /\ SearchInv /\ IndexIsNear /\ (SearchInv /\ IndexIsNear)' /\ [Next]_vars
      => [UsesUpAStep]_vars
  <2>1. SearchInv /\ IndexIsNear => Remaining \in Nat
    BY RemainingIsNat
  <2>2. (SearchInv /\ IndexIsNear => Remaining \in Nat)'
    BY <2>1, PTL
  <2> QED
    BY <2>1, <2>2, StepLowersRemaining DEF UsesUpAStep
<1> QED
  BY InitSearchInv, StepSearchInv, InitIndexIsNear, StepIndexIsNear, <1>1, PTL DEF Spec

\* At the call no more steps are left than one pattern and a little for each place
\* of the text.
THEOREM SearchIsBounded ==
  Init => Remaining = (input.str_len + 1) * (input.pat_len + 2)
<1> SUFFICES ASSUME Init PROVE Remaining = (input.str_len + 1) * (input.pat_len + 2)
  OBVIOUS
<1>1. input.pat_len \in Nat \ {0} /\ input.str_len \in Nat
  BY InputsAssumption DEF Init, IsInput
<1>2. Alignment = 0
  BY <1>1 DEF Init, Alignment
<1> DEFINE n == input.str_len
           w == input.pat_len + 2
<1>3. Remaining = (n - 0) * w + w
  BY <1>2 DEF Init, Remaining
<1>4. n \in Nat /\ w \in Nat
  BY <1>1
<1> HIDE DEF n, w
<1>5. (n - 0) * w + w = (n + 1) * w
  BY <1>4
<1> QED
  BY <1>3, <1>5 DEF n, w

-----------------------------------------------------------------------------
\* What is returned is one of the answers of the abstract search.
LEMMA DoneAnswers == SearchInv /\ pc = "done" => result \in Find!Answers
<1> SUFFICES ASSUME SearchInv, pc = "done" PROVE result \in Find!Answers
  OBVIOUS
<1>1. /\ IsInput(input) /\ input.pat_len \in Nat \ {0} /\ input.str_len \in Nat
  BY InputTypes
<1>2. Find!None = NULL
  BY DEF Find!None, NULL
<1>3. \A b \in Occurrences : b \in Nat /\ b =< input.str_len /\ Occurs(input, b)
  BY <1>1 DEF Occurrences
<1>4. CASE result = NULL
  <2>1. Borderless(input) => Occurrences = {}
    BY <1>1, <1>3, <1>4 DEF SearchInv, DoneInv, NonePassed
  <2> QED
    BY <1>2, <1>4, <2>1 DEF Find!Answers
<1>5. CASE result # NULL
  <2>1. result \in Nat /\ Occurs(input, result) /\ NonePassed(result)
    BY <1>5 DEF SearchInv, DoneInv
  <2>2. result \in Occurrences
    BY <1>1, <2>1 DEF Occurrences, Occurs
  <2>3. Borderless(input) => \A c \in Occurrences : result <= c
    BY <1>3, <2>1 DEF NonePassed
  <2> QED
    BY <2>2, <2>3 DEF Find!Answers
<1> QED
  BY <1>4, <1>5

\* Every step is the answer of the abstract search, or none of its business.
LEMMA StepFinds ==
  SearchInv /\ SearchInv' /\ [Next]_vars => [Find!Answer]_(Find!vars)
<1> SUFFICES ASSUME SearchInv, SearchInv', [Next]_vars PROVE [Find!Answer]_(Find!vars)
  OBVIOUS
<1>1. input' = input
  BY DEF Next, Align, GiveUp, Compare, Return, Shift, vars
<1>2. Occurrences' = Occurrences /\ Borderless(input)' = Borderless(input)
  BY <1>1 DEF Occurrences, Occurs, Borderless, PrefixAt
<1>3. CASE GiveUp \/ Return
  <2>1. pc # "done" /\ pc' = "done"
    BY <1>3 DEF GiveUp, Return
  <2>2. (SearchInv /\ pc = "done" => result \in Find!Answers)'
    BY DoneAnswers, PTL
  <2>3. result' \in Find!Answers' /\ Find!Answers' = Find!Answers
    BY <1>2, <2>1, <2>2 DEF Find!Answers
  <2> QED
    BY <1>2, <2>1, <2>3 DEF Find!Answer
<1>4. CASE Align \/ Compare \/ Shift \/ UNCHANGED vars
  <2>1. result' = result /\ (pc' = "done" <=> pc = "done")
    BY <1>4 DEF Align, Compare, Shift, vars
  <2> QED
    BY <1>2, <2>1 DEF Find!vars
<1> QED
  BY <1>3, <1>4 DEF Next

\* The search implements the safe part of the abstract one, for every pattern and
\* every text: it answers once, with an occurrence or with none, and with the first
\* one where the pattern has no border (recovery_updater.cpp:93-120).
THEOREM SearchImplementsFindFirst == Spec => Find!SafeSpec
<1>1. Init => Find!Init
  BY DEF Init, Find!Init, Find!None, NULL
<1> QED
  BY <1>1, InitSearchInv, StepSearchInv, StepFinds, PTL DEF Spec, Find!SafeSpec

-----------------------------------------------------------------------------
\* x is a search for the same pattern in the beginning of the text of y.
Begins(x, y) ==
  /\ x.pat_len = y.pat_len /\ x.pat = y.pat /\ x.str_len =< y.str_len
  /\ \A k \in 0..(x.str_len - 1) : x.str[k] = y.str[k]

\* The first occurrence in the text of y is at, or there is none and at is NULL.
FirstIsAt(y, at) ==
  \/ at = NULL /\ \A b \in Nat : ~Occurs(y, b)
  \/ at \in Nat /\ Occurs(y, at) /\ \A b \in Nat : b < at => ~Occurs(y, b)

\* An occurrence lies in the beginning of a text if it ends there.
LEMMA OccursInBeginning ==
  ASSUME NEW x, IsInput(x), NEW y, IsInput(y), Begins(x, y), NEW b \in Nat
  PROVE  Occurs(x, b) <=> Occurs(y, b) /\ b + y.pat_len =< x.str_len
<1>1. x.pat_len \in Nat \ {0} /\ x.str_len \in Nat /\ y.str_len \in Nat
  BY DEF IsInput
<1>2. ASSUME b + x.pat_len =< x.str_len, NEW k \in 0..(x.pat_len - 1)
      PROVE  x.str[b + k] = y.str[b + k]
  <2>1. b + k \in 0..(x.str_len - 1)
    BY <1>1, <1>2
  <2> QED
    BY <2>1 DEF Begins
<1> QED
  BY <1>1, <1>2 DEF Occurs, Begins

\* What the modem's verification takes of the search: in whatever beginning of a
\* partition is mapped, a borderless stamp is found exactly if the first one in the
\* partition ends within the mapping, and then it is that one (StampIn of
\* ModemVerification; recovery_updater.cpp:147-153).
THEOREM SearchOfAMapping ==
  ASSUME NEW whole, IsInput(whole), Borderless(whole), NEW at, FirstIsAt(whole, at)
  PROVE  Spec => [](pc = "done" /\ Begins(input, whole)
                      => result = IF at # NULL /\ at + whole.pat_len =< input.str_len
                                  THEN at ELSE NULL)
<1>1. ASSUME SearchInv, pc = "done", Begins(input, whole)
      PROVE  result = IF at # NULL /\ at + whole.pat_len =< input.str_len THEN at ELSE NULL
  <2>1. IsInput(input) /\ input.pat_len \in Nat \ {0} /\ input.str_len \in Nat
    BY <1>1, InputTypes
  <2>2. Borderless(input)
    BY <1>1 DEF Borderless, PrefixAt, Begins
  <2>3. \A b \in Nat : Occurs(input, b) <=> Occurs(whole, b) /\ b + whole.pat_len =< input.str_len
    BY <1>1, <2>1, OccursInBeginning
  <2>4. whole.pat_len \in Nat \ {0}
    BY DEF IsInput
  <2>5. CASE result = NULL
    <3>1. \A b \in Nat : b < input.str_len + 1 => ~Occurs(input, b)
      BY <1>1, <2>2, <2>5 DEF SearchInv, DoneInv, NonePassed
    <3>2. \A b \in Nat : ~Occurs(input, b)
      BY <2>1, <3>1 DEF Occurs
    <3> QED
      BY <2>3, <2>5, <3>2 DEF FirstIsAt
  <2>6. CASE result # NULL
    <3>1. result \in Nat /\ Occurs(input, result) /\ \A b \in Nat : b < result => ~Occurs(input, b)
      BY <1>1, <2>2, <2>6 DEF SearchInv, DoneInv, NonePassed
    <3>2. Occurs(whole, result) /\ result + whole.pat_len =< input.str_len
      BY <2>3, <3>1
    <3>3. at \in Nat /\ Occurs(whole, at) /\ \A b \in Nat : b < at => ~Occurs(whole, b)
      BY <3>1, <3>2 DEF FirstIsAt
    <3>4. at =< result
      BY <3>1, <3>2, <3>3
    <3>5. at + whole.pat_len =< input.str_len /\ Occurs(input, at)
      BY <2>1, <2>3, <2>4, <3>1, <3>2, <3>3, <3>4
    <3>6. at = result
      BY <3>1, <3>3, <3>4, <3>5
    <3> QED
      BY <3>3, <3>5, <3>6 DEF NULL
  <2> QED
    BY <2>5, <2>6
<1>2. SearchInv => (pc = "done" /\ Begins(input, whole)
                      => result = IF at # NULL /\ at + whole.pat_len =< input.str_len
                                  THEN at ELSE NULL)
  BY <1>1
<1> QED
  BY InitSearchInv, StepSearchInv, <1>2, PTL DEF Spec

=============================================================================
