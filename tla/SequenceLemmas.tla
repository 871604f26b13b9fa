--------------------------- MODULE SequenceLemmas ----------------------------
(***************************************************************************)
(* Induction over numbers and sequences, and what FlattenSeq and the       *)
(* recursive functions of the models do.  A set stands for the predicate:  *)
(* what has 0, and m + 1 with each m, has all numbers up to n (UpTo); what *)
(* has <<>>, and with a sequence each longer by one element, has every     *)
(* sequence (ByAppending).                                                 *)
(***************************************************************************)
EXTENDS Integers, Sequences, SequencesExt, FiniteSetTheorems,
        WellFoundedInduction, TLAPS

-----------------------------------------------------------------------------
(* Numbers.                                                                *)

Up(n) == 0 .. n
Starts(S) == {Up(n) : n \in S}

\* A set of numbers that has one has a least, by the finite sets 0 .. n.
LEMMA HasLeast ==
  ASSUME NEW S \in SUBSET Nat, S # {}
  PROVE  \E m \in S : \A k \in S : m <= k
<1>1. IsWellFoundedOn(StrictSubsetOrdering(Nat), FiniteSubsetsOf(Nat))
  BY FS_StrictSubsetOrderingWellFounded
<1>2. Starts(S) \subseteq FiniteSubsetsOf(Nat) /\ Starts(S) # {}
  <2>1. ASSUME NEW n \in S PROVE Up(n) \in FiniteSubsetsOf(Nat)
    <3>1. IsFiniteSet(0 .. n) /\ (0 .. n) \in SUBSET Nat
      BY FS_Interval
    <3>2. QED BY <3>1 DEF FiniteSubsetsOf, Up
  <2>2. QED BY <2>1 DEF Starts
<1>3. PICK X \in Starts(S) :
        \A Y \in Starts(S) : <<Y, X>> \notin StrictSubsetOrdering(Nat)
  BY <1>1, <1>2, WFMin
<1>4. PICK m \in S : X = Up(m)
  BY DEF Starts
<1>5. ASSUME NEW k \in S, k < m PROVE FALSE
  <2>1. Up(k) \in Starts(S)
    BY DEF Starts
  <2>2. (0 .. k) \subseteq (0 .. m) /\ m \in 0 .. m /\ m \notin 0 .. k
    BY <1>5
  <2>3. <<Up(k), Up(m)>> \in StrictSubsetOrdering(Nat)
    BY <2>2 DEF StrictSubsetOrdering, Up
  <2>4. QED BY <1>3, <1>4, <2>1, <2>3
<1>6. QED BY <1>5

\* A bounded set of numbers that has one has a greatest.
LEMMA HasGreatest ==
  ASSUME NEW n \in Nat, NEW S \in SUBSET (1..n), S # {}
  PROVE  \E m \in S : \A k \in S : m >= k
<1> DEFINE T == {n - k : k \in S}
<1>1. T \in SUBSET Nat /\ T # {}
  <2>1. \A k \in S : n - k \in Nat
    OBVIOUS
  <2>2. PICK k \in S : TRUE
    OBVIOUS
  <2>3. n - k \in T
    OBVIOUS
  <2>4. QED BY <2>1, <2>3
<1>2. PICK m \in T : \A k \in T : m <= k
  <2> HIDE DEF T
  <2> QED BY <1>1, HasLeast
<1>3. PICK j \in S : m = n - j
  OBVIOUS
<1>4. ASSUME NEW k \in S PROVE j >= k
  <2>1. n - k \in T
    OBVIOUS
  <2>2. m <= n - k
    BY <1>2, <2>1
  <2>3. QED BY <1>3, <2>2
<1>5. QED BY <1>4

\* Induction up to n.
LEMMA UpTo ==
  ASSUME NEW n \in Nat, NEW Q, 0 \in Q, \A m \in 0..(n - 1) : m \in Q => m + 1 \in Q
  PROVE  \A m \in 0..n : m \in Q
<1> DEFINE Bad == {m \in 0..n : m \notin Q}
<1>1. ASSUME Bad # {} PROVE FALSE
  <2>1. Bad \in SUBSET Nat
    OBVIOUS
  <2>2. PICK m \in Bad : \A k \in Bad : m <= k
    <3> HIDE DEF Bad
    <3> QED BY <1>1, <2>1, HasLeast
  <2>3. m \in 0..n /\ m \notin Q /\ m # 0
    OBVIOUS
  <2>4. m - 1 \in 0..(n - 1) /\ m - 1 \notin Bad
    BY <2>2, <2>3
  <2>5. m - 1 \in Q /\ (m - 1) + 1 = m
    BY <2>3, <2>4
  <2>6. QED BY <2>3, <2>4, <2>5
<1>2. QED BY <1>1

-----------------------------------------------------------------------------
(* Sequences.                                                              *)

\* What holds of the empty sequence and is kept by Append holds of each sequence.
LEMMA ByAppending ==
  ASSUME NEW S, NEW Q, <<>> \in Q,
         \A s \in Seq(S) : s \in Q => \A e \in S : Append(s, e) \in Q
  PROVE  \A s \in Seq(S) : s \in Q
<1> TAKE s \in Seq(S)
<1> DEFINE P == {n \in Nat : SubSeq(s, 1, n) \in Q}
<1>0. Len(s) \in Nat
  OBVIOUS
<1>1. 0 \in P
  <2>1. SubSeq(s, 1, 0) = <<>>
    OBVIOUS
  <2>2. QED BY <2>1, Zenon
<1>2. ASSUME NEW m \in 0..(Len(s) - 1), m \in P PROVE m + 1 \in P
  <2>1. SubSeq(s, 1, m) \in Seq(S) /\ s[m + 1] \in S
    BY <1>0
  <2>2. SubSeq(s, 1, m + 1) = Append(SubSeq(s, 1, m), s[m + 1])
    BY <1>0
  <2>3. SubSeq(s, 1, m) \in Q /\ m + 1 \in Nat
    BY <1>2
  <2>4. SubSeq(s, 1, m + 1) \in Q
    BY <2>1, <2>2, <2>3, Zenon
  <2>5. QED BY <2>3, <2>4
<1>3. Len(s) \in P
  <2> HIDE DEF P
  <2>1. \A m \in 0..Len(s) : m \in P
    BY <1>0, <1>1, <1>2, UpTo
  <2>2. QED BY <1>0, <2>1
<1>4. SubSeq(s, 1, Len(s)) = s
  OBVIOUS
<1>5. QED BY <1>3, <1>4

-----------------------------------------------------------------------------
(* Recursive functions: they exist, and there is one of each.              *)

\* The results of n steps from base.
FoldOf(n, R, base, step) ==
  {g \in [0..n -> R] : g[0] = base /\ \A i \in 1..n : g[i] = step[i][g[i - 1]]}

\* Any n steps have results.
LEMMA FoldExists ==
  ASSUME NEW n \in Nat, NEW R, NEW base \in R, NEW step \in [1..n -> [R -> R]]
  PROVE  \E g : g \in FoldOf(n, R, base, step)
<1> DEFINE Is(g, m) == g[0] = base /\ \A i \in 1..m : g[i] = step[i][g[i - 1]]
           Q == {m \in 0..n : \E g \in [0..m -> R] : Is(g, m)}
<1>1. 0 \in Q
  <2>1. Is([i \in 0..0 |-> base], 0) /\ [i \in 0..0 |-> base] \in [0..0 -> R]
    OBVIOUS
  <2> HIDE DEF Is
  <2>2. QED BY <2>1
<1>2. ASSUME NEW m \in 0..(n - 1), m \in Q PROVE m + 1 \in Q
  <2>1. PICK g \in [0..m -> R] : Is(g, m)
    BY <1>2
  <2> DEFINE h == [i \in 0..(m + 1) |-> IF i = m + 1 THEN step[m + 1][g[m]] ELSE g[i]]
  <2>2. g[m] \in R /\ m + 1 \in 1..n /\ step[m + 1][g[m]] \in R
    OBVIOUS
  <2>3. h \in [0..(m + 1) -> R]
    BY <2>2
  <2>4. h[0] = base
    BY <2>1
  <2>5. ASSUME NEW i \in 1..(m + 1) PROVE h[i] = step[i][h[i - 1]]
    <3>1. CASE i = m + 1
      <4>1. h[m + 1] = step[m + 1][g[m]] /\ h[m] = g[m] /\ (m + 1) - 1 = m
        OBVIOUS
      <4> HIDE DEF h
      <4>2. QED BY <3>1, <4>1
    <3>2. CASE i # m + 1
      <4>1. i \in 1..m /\ h[i] = g[i] /\ h[i - 1] = g[i - 1]
        BY <3>2
      <4>2. QED BY <2>1, <4>1
    <3>3. QED BY <3>1, <3>2
  <2>6. QED
    <3> HIDE DEF h
    <3> QED BY <2>3, <2>4, <2>5
<1>3. n \in Q
  <2> HIDE DEF Q
  <2>1. \A m \in 0..n : m \in Q
    BY <1>1, <1>2, UpTo
  <2>2. QED BY <2>1
<1>4. QED BY <1>3 DEF FoldOf

\* Two functions that start alike and step alike are alike.
StepAlike(n, g, h) ==
  g[0] = h[0] /\ \A i \in 1..n : g[i - 1] = h[i - 1] => g[i] = h[i]

\* Two results that start and step alike end alike.
LEMMA FoldsAgree ==
  ASSUME NEW n \in Nat, NEW g, NEW h, StepAlike(n, g, h)
  PROVE  g[n] = h[n]
<1> DEFINE Q == {i \in 0..n : g[i] = h[i]}
<1>1. 0 \in Q
  BY DEF StepAlike
<1>2. ASSUME NEW m \in 0..(n - 1), m \in Q PROVE m + 1 \in Q
  <2>1. m + 1 \in 1..n /\ (m + 1) - 1 = m
    OBVIOUS
  <2>2. QED BY <1>2, <2>1 DEF StepAlike
<1>3. \A m \in 0..n : m \in Q
  <2> HIDE DEF Q
  <2> QED BY <1>1, <1>2, UpTo
<1>4. QED BY <1>3

-----------------------------------------------------------------------------
(* FlattenSeq, whose definition is recursive.                              *)

\* FlattenSeq appends the sequences one after the other.
LEMMA FlatIs ==
  ASSUME NEW S, NEW ss \in Seq(Seq(S))
  PROVE  \E g \in [0..Len(ss) -> Seq(S)] :
            /\ g[0] = <<>> /\ \A i \in 1..Len(ss) : g[i] = g[i - 1] \o ss[i]
            /\ FlattenSeq(ss) = g[Len(ss)]
<1> DEFINE n == Len(ss)
           step == [i \in 1..n |-> [r \in Seq(S) |-> r \o ss[i]]]
<1>1. n \in Nat /\ DOMAIN ss = 1..n /\ \A i \in 1..n : ss[i] \in Seq(S)
  OBVIOUS
<1>2. step \in [1..n -> [Seq(S) -> Seq(S)]]
  BY <1>1
<1>3. \A r \in Seq(S), i \in 1..n : step[i][r] = r \o ss[i]
  OBVIOUS
<1>4. PICK g \in [0..n -> Seq(S)] : g[0] = <<>> /\ \A i \in 1..n : g[i] = step[i][g[i - 1]]
  <2> HIDE DEF step, n
  <2>1. <<>> \in Seq(S) /\ n \in Nat
    BY <1>1
  <2>2. \E g : g \in FoldOf(n, Seq(S), <<>>, step)
    BY <1>2, <2>1, FoldExists
  <2>3. QED BY <2>2 DEF FoldOf
<1>5. ASSUME NEW i \in 1..n PROVE g[i] = g[i - 1] \o ss[i] /\ g[i - 1] \in Seq(S)
  <2> HIDE DEF step
  <2>1. i - 1 \in 0..n
    BY <1>1
  <2>2. g[i - 1] \in Seq(S)
    BY <2>1
  <2>3. QED BY <1>3, <1>4, <2>2
<1>6. FlattenSeq(ss) = g[n]
  <2>1. CASE n = 0
    <3>1. FlattenSeq(ss) = ss /\ ss = <<>>
      BY <1>1, <2>1 DEF FlattenSeq
    <3>2. QED BY <1>4, <2>1, <3>1
  <2>2. CASE n # 0
    <3> DEFINE Is(f) == f = [i \in 1..n |-> IF i = 1 THEN ss[i] ELSE f[i - 1] \o ss[i]]
               h == [i \in 1..n |-> g[i]]
               c == CHOOSE f : Is(f)
    <3>1. Is(h)
      <4>1. ASSUME NEW i \in 1..n PROVE h[i] = IF i = 1 THEN ss[i] ELSE h[i - 1] \o ss[i]
        <5>1. CASE i = 1
          <6>1. g[1] = g[0] \o ss[1] /\ ss[1] \in Seq(S)
            BY <1>1, <1>5, <5>1
          <6>2. g[1] = ss[1]
            BY <1>4, <6>1
          <6>3. QED BY <5>1, <6>2
        <5>2. CASE i # 1
          <6>1. i - 1 \in 1..n
            BY <5>2
          <6>2. QED BY <1>5, <5>2, <6>1
        <5>3. QED BY <5>1, <5>2
      <4>2. QED BY <4>1
    <3>2. Is(c)
      <4> HIDE DEF Is, h
      <4> QED BY <3>1
    <3>3. FlattenSeq(ss) = c[n]
      <4>1. FlattenSeq(ss) = IF Len(ss) = 0 THEN ss ELSE c[Len(ss)]
        BY Zenon DEF FlattenSeq
      <4> HIDE DEF c
      <4>2. QED BY <2>2, <4>1
    <3>4. \A i \in 1..n : c[i] = IF i = 1 THEN ss[i] ELSE c[i - 1] \o ss[i]
      <4> HIDE DEF c
      <4> QED BY <3>2
    <3> HIDE DEF c
    <3> DEFINE Q == {i \in 0..n : i = 0 \/ c[i] = g[i]}
    <3>5. ASSUME NEW m \in 0..(n - 1), m \in Q PROVE m + 1 \in Q
      <4>1. m + 1 \in 1..n /\ (m + 1) - 1 = m
        BY <1>1
      <4>2. CASE m = 0
        <5>1. 1 \in 1..n
          BY <4>1, <4>2
        <5>2. ss[1] \in Seq(S) /\ 1 - 1 = 0
          BY <1>1, <5>1
        <5>6. g[1] = g[0] \o ss[1]
          BY <1>5, <5>1, <5>2
        <5>3. c[1] = ss[1]
          BY <3>4, <5>1
        <5>4. g[1] = c[1]
          BY <1>4, <5>2, <5>3, <5>6
        <5>5. QED BY <4>1, <4>2, <5>4
      <4>3. CASE m # 0
        <5>1. c[m] = g[m] /\ m + 1 # 1
          BY <3>5, <4>3
        <5>2. c[m + 1] = c[m] \o ss[m + 1] /\ g[m + 1] = g[m] \o ss[m + 1]
          BY <1>5, <3>4, <4>1, <5>1
        <5>3. m + 1 \in 0..n
          BY <4>1
        <5>4. QED BY <5>1, <5>2, <5>3
      <4>4. QED BY <4>2, <4>3
    <3>6. n \in Q
      <4>1. 0 \in Q
        BY <1>1
      <4> HIDE DEF Q, n
      <4>2. \A m \in 0..n : m \in Q
        BY <1>1, <3>5, <4>1, UpTo
      <4>3. QED BY <1>1, <4>2
    <3>7. QED BY <2>2, <3>3, <3>6
  <2>3. QED BY <2>1, <2>2
<1>7. QED BY <1>4, <1>5, <1>6

\* Of no sequences it makes the empty one.
LEMMA FlatEmpty == FlattenSeq(<<>>) = <<>>
BY DEF FlattenSeq

\* It has the elements of the sequences.
LEMMA FlatType ==
  ASSUME NEW S, NEW ss \in Seq(Seq(S))
  PROVE  FlattenSeq(ss) \in Seq(S)
<1>1. PICK g \in [0..Len(ss) -> Seq(S)] :
            /\ g[0] = <<>> /\ \A i \in 1..Len(ss) : g[i] = g[i - 1] \o ss[i]
            /\ FlattenSeq(ss) = g[Len(ss)]
  BY FlatIs
<1>2. Len(ss) \in 0..Len(ss)
  OBVIOUS
<1>3. g[Len(ss)] \in Seq(S)
  BY <1>2
<1>4. QED BY <1>1, <1>3

\* A further sequence comes last.
LEMMA FlatAppend ==
  ASSUME NEW S, NEW ss \in Seq(Seq(S)), NEW s \in Seq(S)
  PROVE  FlattenSeq(Append(ss, s)) = FlattenSeq(ss) \o s
<1> DEFINE n == Len(ss)
           tt == Append(ss, s)
<1>1. n \in Nat /\ tt \in Seq(Seq(S)) /\ Len(tt) = n + 1 /\ tt[n + 1] = s
      /\ \A i \in 1..n : tt[i] = ss[i]
  OBVIOUS
<1>2. PICK g \in [0..Len(ss) -> Seq(S)] :
            /\ g[0] = <<>> /\ \A i \in 1..Len(ss) : g[i] = g[i - 1] \o ss[i]
            /\ FlattenSeq(ss) = g[Len(ss)]
  BY FlatIs
<1> HIDE DEF tt
<1>3. PICK h \in [0..Len(tt) -> Seq(S)] :
            /\ h[0] = <<>> /\ \A i \in 1..Len(tt) : h[i] = h[i - 1] \o tt[i]
            /\ FlattenSeq(tt) = h[Len(tt)]
  BY <1>1, FlatIs
<1>4. \A i \in 1..n : g[i - 1] = h[i - 1] => g[i] = h[i]
  <2>1. \A i \in 1..n : i \in 1..Len(tt)
    BY <1>1
  <2>2. QED BY <1>1, <1>2, <1>3, <2>1
<1>5. g[n] = h[n]
  <2>1. StepAlike(n, g, h)
    BY <1>2, <1>3, <1>4 DEF StepAlike
  <2>2. QED BY <1>1, <2>1, FoldsAgree
<1>6. n + 1 \in 1..Len(tt) /\ (n + 1) - 1 = n
  BY <1>1
<1>7. FlattenSeq(tt) = h[n] \o s
  BY <1>1, <1>3, <1>6
<1>8. QED BY <1>2, <1>5, <1>7 DEF tt

\* One sequence stays as it is.
LEMMA FlatSingle ==
  ASSUME NEW S, NEW s \in Seq(S)
  PROVE  FlattenSeq(<<s>>) = s
<1>1. <<>> \in Seq(Seq(S)) /\ Append(<<>>, s) = <<s>> /\ <<>> \o s = s
  OBVIOUS
<1>2. QED BY <1>1, FlatEmpty, FlatAppend

\* The sequences of two lists are those of the one, then those of the other.
LEMMA FlatConcat ==
  ASSUME NEW S, NEW ss \in Seq(Seq(S)), NEW tt \in Seq(Seq(S))
  PROVE  FlattenSeq(ss \o tt) = FlattenSeq(ss) \o FlattenSeq(tt)
<1> DEFINE Q == {t \in Seq(Seq(S)) : FlattenSeq(ss \o t) = FlattenSeq(ss) \o FlattenSeq(t)}
<1>1. <<>> \in Q
  <2>1. FlattenSeq(ss) \in Seq(S)
    BY FlatType
  <2>2. ss \o <<>> = ss /\ FlattenSeq(ss) \o <<>> = FlattenSeq(ss) /\ <<>> \in Seq(Seq(S))
    BY <2>1
  <2>3. QED BY <2>2, FlatEmpty
<1>2. ASSUME NEW t \in Seq(Seq(S)), t \in Q, NEW e \in Seq(S) PROVE Append(t, e) \in Q
  <2>1. ss \o t \in Seq(Seq(S)) /\ Append(t, e) \in Seq(Seq(S))
        /\ ss \o Append(t, e) = Append(ss \o t, e)
    OBVIOUS
  <2>2. FlattenSeq(ss) \in Seq(S) /\ FlattenSeq(t) \in Seq(S)
    BY FlatType
  <2>3. FlattenSeq(ss \o Append(t, e)) = (FlattenSeq(ss) \o FlattenSeq(t)) \o e
    BY <1>2, <2>1, FlatAppend
  <2>4. FlattenSeq(Append(t, e)) = FlattenSeq(t) \o e
    BY FlatAppend
  <2>5. (FlattenSeq(ss) \o FlattenSeq(t)) \o e = FlattenSeq(ss) \o (FlattenSeq(t) \o e)
    BY <2>2, SMTT(30)
  <2>6. QED BY <2>1, <2>3, <2>4, <2>5
<1>3. \A t \in Seq(Seq(S)) : t \in Q
  <2> HIDE DEF Q
  <2> QED BY <1>1, <1>2, ByAppending
<1>4. QED BY <1>3

-----------------------------------------------------------------------------
(* Concatenation and Append.                                               *)

\* Concatenation is associative.
LEMMA ConcatAssoc ==
  ASSUME NEW S, NEW a \in Seq(S), NEW b \in Seq(S), NEW c \in Seq(S)
  PROVE  (a \o b) \o c = a \o (b \o c)
OBVIOUS

\* What a concatenation is, element by element.
IsConcat(u, s, t) ==
  /\ Len(u) = Len(s) + Len(t) /\ Len(s) \in Nat /\ Len(t) \in Nat
  /\ \A i \in 1..Len(s) : u[i] = s[i]
  /\ \A i \in 1..Len(t) : u[i + Len(s)] = t[i]

\* A concatenation is one element by element.
LEMMA ConcatIs ==
  ASSUME NEW S, NEW s \in Seq(S), NEW t \in Seq(S), NEW u, u = s \o t
  PROVE  u \in Seq(S) /\ IsConcat(u, s, t)
<1>1. Len(s \o t) = Len(s) + Len(t) /\ s \o t \in Seq(S) /\ Len(s) \in Nat /\ Len(t) \in Nat
  OBVIOUS
<1>2. \A i \in 1..Len(s) : (s \o t)[i] = s[i]
  OBVIOUS
<1>3. ASSUME NEW i \in 1..Len(t) PROVE (s \o t)[i + Len(s)] = t[i]
  OBVIOUS
<1>4. QED BY <1>1, <1>2, <1>3 DEF IsConcat

\* A sequence is what comes up to a place and what comes after it.
LEMMA CutInTwo ==
  ASSUME NEW S, NEW s \in Seq(S), NEW k \in 0..Len(s)
  PROVE  /\ SubSeq(s, 1, k) \in Seq(S) /\ SubSeq(s, k + 1, Len(s)) \in Seq(S)
         /\ s = SubSeq(s, 1, k) \o SubSeq(s, k + 1, Len(s))
<1>1. SubSeq(s, 1, k) \in Seq(S) /\ SubSeq(s, k + 1, Len(s)) \in Seq(S)
  OBVIOUS
<1>2. s = SubSeq(s, 1, k) \o SubSeq(s, k + 1, Len(s))
  <2> DEFINE a == SubSeq(s, 1, k)
             b == SubSeq(s, k + 1, Len(s))
             n == Len(s)
             u == a \o b
  <2>1. n \in Nat /\ k \in 0..n /\ s = [i \in 1..n |-> s[i]]
    OBVIOUS
  <2>2. Len(a) = k /\ Len(b) = n - k
    OBVIOUS
  <2>3. \A i \in 1..k : a[i] = s[i]
    OBVIOUS
  <2>4. \A i \in 1..(n - k) : b[i] = s[i + k]
    OBVIOUS
  <2>5. u = a \o b
    OBVIOUS
  <2> HIDE DEF a, b, n, u
  <2>6. u \in Seq(S) /\ IsConcat(u, a, b)
    BY <1>1, <2>5, ConcatIs DEF a, b
  <2>7. Len(u) = n
    BY <2>1, <2>2, <2>6 DEF IsConcat
  <2>8. ASSUME NEW i \in 1..n PROVE u[i] = s[i]
    <3>1. CASE i <= k
      <4>1. i \in 1..k /\ Len(a) = k
        BY <2>1, <2>2, <3>1
      <4>2. u[i] = a[i]
        BY <2>6, <4>1 DEF IsConcat
      <4>3. QED BY <2>3, <4>1, <4>2
    <3>2. CASE i > k
      <4>1. i - k \in 1..(n - k) /\ (i - k) + k = i
        BY <2>1, <3>2
      <4>2. u[(i - k) + k] = b[i - k] /\ b[i - k] = s[(i - k) + k]
        BY <2>2, <2>4, <2>6, <4>1 DEF IsConcat
      <4>3. QED BY <4>1, <4>2
    <3>3. QED BY <2>1, <3>1, <3>2
  <2>9. u = [i \in 1..n |-> u[i]]
    BY <2>6, <2>7
  <2>10. u = s
    BY <2>1, <2>8, <2>9
  <2>11. QED BY <2>10 DEF u, a, b, n
<1>3. QED BY <1>1, <1>2

\* Append keeps the type.
LEMMA AppendType ==
  ASSUME NEW S, NEW s \in Seq(S), NEW e \in S
  PROVE  Append(s, e) \in Seq(S)
OBVIOUS

\* Append after a concatenation.
LEMMA AppendLater ==
  ASSUME NEW S, NEW s \in Seq(S), NEW t \in Seq(S), NEW e \in S
  PROVE  s \o t \in Seq(S) /\ s \o Append(t, e) = Append(s \o t, e)
OBVIOUS

\* Appending to short tuples.
LEMMA ShortAppends ==
  ASSUME NEW S, NEW a \in S, NEW b \in S, NEW l \in S
  PROVE  /\ Append(<<>>, a) = <<a>> /\ Append(<<a>>, b) = <<a, b>>
         /\ Append(<<a, b>>, l) = <<a, b, l>>
<1>1. /\ <<>> \in Seq(S) /\ <<>> \o <<a>> = <<a>> /\ <<>> \o <<a, b>> = <<a, b>>
      /\ <<>> \o <<a, b, l>> = <<a, b, l>>
  OBVIOUS
<1>2. \A s \in Seq(S) : s \o <<a>> = Append(s, a)
  OBVIOUS
<1>3. \A s \in Seq(S) : s \o <<a, b>> = Append(Append(s, a), b)
  OBVIOUS
<1>4. \A s \in Seq(S) : s \o <<a, b, l>> = Append(Append(Append(s, a), b), l)
  OBVIOUS
<1>5. QED BY <1>1, <1>2, <1>3, <1>4

-----------------------------------------------------------------------------
(* A sequence with each element replaced by a sequence.                    *)

Maps(S, T) == [S -> Seq(T)]

\* A sequence with each element replaced by a sequence.
Each(F, s) == FlattenSeq([i \in DOMAIN s |-> F[s[i]]])

\* The type of the result.
LEMMA EachType ==
  ASSUME NEW S, NEW T, NEW F \in Maps(S, T), NEW s \in Seq(S)
  PROVE  /\ [i \in DOMAIN s |-> F[s[i]]] \in Seq(Seq(T))
         /\ Each(F, s) \in Seq(T)
<1>1. [i \in DOMAIN s |-> F[s[i]]] \in Seq(Seq(T))
  <2>1. Len(s) \in Nat /\ DOMAIN s = 1..Len(s) /\ \A i \in 1..Len(s) : F[s[i]] \in Seq(T)
    BY DEF Maps
  <2>2. [i \in DOMAIN s |-> F[s[i]]] \in [1..Len(s) -> Seq(T)]
    BY <2>1
  <2>3. QED BY <2>1, <2>2
<1>2. QED BY <1>1, FlatType DEF Each

\* Nothing comes of nothing.
LEMMA EachEmpty == ASSUME NEW F PROVE Each(F, <<>>) = <<>>
<1>1. [i \in DOMAIN <<>> |-> F[<<>>[i]]] = <<>>
  OBVIOUS
<1>2. QED BY <1>1, FlatEmpty DEF Each

\* What comes of a further element comes last.
LEMMA EachAppend ==
  ASSUME NEW S, NEW T, NEW F \in Maps(S, T), NEW s \in Seq(S), NEW e \in S
  PROVE  /\ Append(s, e) \in Seq(S)
         /\ Each(F, Append(s, e)) = Each(F, s) \o F[e]
<1> DEFINE map(t) == [i \in DOMAIN t |-> F[t[i]]]
<1>1. Append(s, e) \in Seq(S) /\ F[e] \in Seq(T)
  BY DEF Maps
<1>2. map(Append(s, e)) = Append(map(s), F[e])
  OBVIOUS
<1>3. map(s) \in Seq(Seq(T))
  BY EachType
<1>4. FlattenSeq(map(Append(s, e))) = FlattenSeq(map(s)) \o F[e]
  <2> HIDE DEF map
  <2> QED BY <1>1, <1>2, <1>3, FlatAppend
<1>5. QED BY <1>1, <1>4 DEF Each

\* What comes of a concatenation.
LEMMA EachConcat ==
  ASSUME NEW S, NEW T, NEW F \in Maps(S, T), NEW s \in Seq(S), NEW t \in Seq(S)
  PROVE  Each(F, s \o t) = Each(F, s) \o Each(F, t)
<1> DEFINE Q == {u \in Seq(S) : Each(F, s \o u) = Each(F, s) \o Each(F, u)}
<1>0. Each(F, s) \in Seq(T)
  BY EachType
<1>1. <<>> \in Q
  <2>1. s \o <<>> = s /\ Each(F, s) \o <<>> = Each(F, s) /\ <<>> \in Seq(S)
    BY <1>0
  <2>2. QED BY <2>1, EachEmpty
<1>2. ASSUME NEW u \in Seq(S), u \in Q, NEW e \in S PROVE Append(u, e) \in Q
  <2>1. s \o u \in Seq(S) /\ Append(u, e) \in Seq(S) /\ s \o Append(u, e) = Append(s \o u, e)
    OBVIOUS
  <2>2. Each(F, u) \in Seq(T) /\ F[e] \in Seq(T)
    BY EachType DEF Maps
  <2>3. Each(F, s \o Append(u, e)) = (Each(F, s) \o Each(F, u)) \o F[e]
    <3>1. Each(F, s \o u) = Each(F, s) \o Each(F, u)
      BY <1>2
    <3>2. Each(F, Append(s \o u, e)) = Each(F, s \o u) \o F[e]
      <4> DEFINE v == s \o u
      <4>1. v \in Seq(S)
        BY <2>1
      <4> HIDE DEF v
      <4>2. Each(F, Append(v, e)) = Each(F, v) \o F[e]
        BY <4>1, EachAppend
      <4>3. QED BY <4>2 DEF v
    <3>3. QED BY <2>1, <3>1, <3>2, Zenon
  <2>4. Each(F, Append(u, e)) = Each(F, u) \o F[e]
    BY EachAppend
  <2>5. (Each(F, s) \o Each(F, u)) \o F[e] = Each(F, s) \o (Each(F, u) \o F[e])
    <3> DEFINE a == Each(F, s)
               b == Each(F, u)
               c == F[e]
    <3>1. a \in Seq(T) /\ b \in Seq(T) /\ c \in Seq(T)
      BY <1>0, <2>2
    <3> HIDE DEF a, b, c
    <3>2. (a \o b) \o c = a \o (b \o c)
      BY <3>1, ConcatAssoc, SMTT(30)
    <3>3. QED BY <3>2 DEF a, b, c
  <2>6. QED BY <2>1, <2>3, <2>4, <2>5
<1>3. \A u \in Seq(S) : u \in Q
  <2> HIDE DEF Q
  <2> QED BY <1>1, <1>2, ByAppending
<1>4. QED BY <1>3

\* Where no element stands for more than one, the result is no longer.
LEMMA EachShort ==
  ASSUME NEW S, NEW T, NEW F \in Maps(S, T), NEW s \in Seq(S), \A e \in S : Len(F[e]) <= 1
  PROVE  Len(Each(F, s)) <= Len(s)
<1> DEFINE Q == {u \in Seq(S) : Len(Each(F, u)) <= Len(u)}
<1>1. <<>> \in Q
  <2>1. <<>> \in Seq(S) /\ Len(<<>>) = 0
    OBVIOUS
  <2>2. QED BY <2>1, EachEmpty
<1>2. ASSUME NEW u \in Seq(S), u \in Q, NEW e \in S PROVE Append(u, e) \in Q
  <2>1. Each(F, u) \in Seq(T) /\ F[e] \in Seq(T) /\ Len(F[e]) <= 1
    BY EachType DEF Maps
  <2>2. Len(Each(F, u) \o F[e]) = Len(Each(F, u)) + Len(F[e])
    BY <2>1
  <2>3. Len(Append(u, e)) = Len(u) + 1 /\ Len(u) \in Nat
    OBVIOUS
  <2>4. Append(u, e) \in Seq(S) /\ Each(F, Append(u, e)) = Each(F, u) \o F[e]
    BY EachAppend
  <2>5. Len(Each(F, u)) \in Nat /\ Len(F[e]) \in Nat
    BY <2>1
  <2>6. QED BY <1>2, <2>1, <2>2, <2>3, <2>4, <2>5
<1>3. \A u \in Seq(S) : u \in Q
  <2> HIDE DEF Q
  <2> QED BY <1>1, <1>2, ByAppending
<1>4. QED BY <1>3

\* Where each element of a sequence stands for one element, so does its place.
LEMMA EachOne ==
  ASSUME NEW S, NEW T, NEW F \in Maps(S, T), NEW s \in Seq(S),
         NEW G, \A i \in DOMAIN s : F[s[i]] = <<G[s[i]]>>
  PROVE  Each(F, s) = [i \in DOMAIN s |-> G[s[i]]]
<1> DEFINE On(u) == \A i \in DOMAIN u : F[u[i]] = <<G[u[i]]>>
           map(u) == [i \in DOMAIN u |-> G[u[i]]]
           Q == {u \in Seq(S) : On(u) => Each(F, u) = map(u)}
<1>1. <<>> \in Q
  <2>1. <<>> \in Seq(S) /\ map(<<>>) = <<>>
    OBVIOUS
  <2>2. QED BY <2>1, EachEmpty
<1>2. ASSUME NEW u \in Seq(S), u \in Q, NEW e \in S PROVE Append(u, e) \in Q
  <2>1. ASSUME On(Append(u, e)) PROVE Each(F, Append(u, e)) = map(Append(u, e))
    <3>1. /\ Append(u, e)[Len(u) + 1] = e /\ Len(u) + 1 \in DOMAIN Append(u, e)
          /\ \A i \in DOMAIN u : i \in DOMAIN Append(u, e) /\ Append(u, e)[i] = u[i]
      OBVIOUS
    <3>2. On(u) /\ F[e] = <<G[e]>>
      BY <2>1, <3>1
    <3>3. Each(F, u) = map(u)
      BY <1>2, <3>2
    <3>4. Each(F, Append(u, e)) = Each(F, u) \o <<G[e]>>
      <4>1. Each(F, Append(u, e)) = Each(F, u) \o F[e]
        BY EachAppend
      <4>2. QED BY <3>2, <4>1
    <3>5. map(Append(u, e)) = map(u) \o <<G[e]>>
      <4>1. DOMAIN u = 1..Len(u) /\ Len(u) \in Nat
        OBVIOUS
      <4>2. Len(map(u)) = Len(u)
        BY <4>1
      <4>3. QED BY <4>1, <4>2
    <3> HIDE DEF map
    <3>6. QED BY <3>3, <3>4, <3>5
  <2>2. Append(u, e) \in Seq(S)
    OBVIOUS
  <2>3. QED BY <2>1, <2>2
<1>3. \A u \in Seq(S) : u \in Q
  <2> HIDE DEF Q
  <2> QED BY <1>1, <1>2, ByAppending
<1>4. QED BY <1>3
=============================================================================
