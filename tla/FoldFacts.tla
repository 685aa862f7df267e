------------------------------ MODULE FoldFacts ------------------------------
(***************************************************************************)
(* What FoldLeft of SequencesExt computes, for any operator: the value on  *)
(* an empty sequence, on a longer one, and on two in a row; and what every *)
(* step keeps, all steps together keep.  The recursive function by which   *)
(* it is defined is shown to exist; a least counterexample takes the place *)
(* of an induction.                                                        *)
(***************************************************************************)
EXTENDS Integers, Sequences, SequencesExt, SequenceTheorems, WellFoundedInduction, TLAPS

CONSTANTS Op(_, _), Kept(_)

\* A set of numbers with a member has a least one.
LEMMA LeastNumber ==
    ASSUME NEW T, T \subseteq Nat, T # {}
    PROVE  \E n \in T : \A m \in T : n <= m
<1>1. PICK x \in T : \A y \in T : <<y, x>> \notin OpToRel(<, Nat)
  BY NatLessThanWellFounded, WFMin
<1>2. ASSUME NEW y \in T PROVE x <= y
  <2>1. x \in Nat /\ y \in Nat
    OBVIOUS
  <2>2. CASE y < x
    BY <1>1, <2>1, <2>2 DEF OpToRel
  <2> QED
    BY <2>1, <2>2
<1> QED
  BY <1>2

\* The recursion of FoldLeft, on the sets of positions up to n.
Step(base, seq, g, s) == IF s = {} THEN base ELSE Op(g[s \ {Max(s)}], seq[Max(s)])
IsFold(base, seq, n, g) == g = [s \in SUBSET (1..n) |-> Step(base, seq, g, s)]

\* The highest of the positions up to a given one.
LEMMA HighestPosition ==
    ASSUME NEW n \in Nat, NEW s \in SUBSET (1..(n + 1)), n + 1 \in s
    PROVE  Max(s) = n + 1
<1>1. \A y \in s : y \in Nat /\ n + 1 >= y
  OBVIOUS
<1>2. Max(s) \in s /\ \A y \in s : Max(s) >= y
  BY <1>1, Zenon DEF Max
<1>3. Max(s) >= n + 1 /\ n + 1 >= Max(s) /\ Max(s) \in Nat
  BY <1>1, <1>2
<1> QED
  BY <1>3

\* There is a function that satisfies the recursion.
LEMMA FoldExists ==
    ASSUME NEW base, NEW seq, NEW n \in Nat
    PROVE  \E g : IsFold(base, seq, n, g)
<1> DEFINE T == {k \in Nat : ~ \E g : IsFold(base, seq, k, g)}
<1> SUFFICES ASSUME T # {} PROVE FALSE
  OBVIOUS
<1>1. PICK m \in T : \A k \in T : m <= k
  BY LeastNumber
<1>2. m # 0
  <2> DEFINE g == [s \in SUBSET (1..0) |-> base]
  <2>1. g = [s \in SUBSET (1..0) |-> Step(base, seq, g, s)]
    BY DEF Step
  <2> QED
    BY <2>1 DEF IsFold
<1>3. PICK k \in Nat : m = k + 1
  <2>1. m - 1 \in Nat /\ m = (m - 1) + 1
    BY <1>2
  <2> QED
    BY <2>1
<1>4. PICK g : IsFold(base, seq, k, g)
  BY <1>1, <1>3
<1> DEFINE h == [s \in SUBSET (1..m) |-> IF m \in s THEN Op(g[s \ {m}], seq[m]) ELSE g[s]]
<1>5. ASSUME NEW s \in SUBSET (1..m) PROVE h[s] = Step(base, seq, h, s)
  <2>1. CASE m \in s
    <3>1. Max(s) = m
      BY <1>3, <2>1, HighestPosition
    <3>2. s \ {m} \in SUBSET (1..m) /\ m \notin s \ {m} /\ s # {}
      BY <2>1
    <3>3. h[s \ {m}] = g[s \ {m}]
      BY <3>2
    <3>4. h[s] = Op(g[s \ {m}], seq[m])
      BY <2>1
    <3> HIDE DEF h
    <3> QED
      BY <3>1, <3>2, <3>3, <3>4 DEF Step
  <2>2. CASE m \notin s
    <3>1. s \in SUBSET (1..k)
      BY <1>3, <2>2
    <3>2. g[s] = Step(base, seq, g, s)
      BY <1>4, <3>1 DEF IsFold
    <3>3. s \ {Max(s)} \in SUBSET (1..m) /\ m \notin s \ {Max(s)}
      BY <2>2
    <3>4. h[s \ {Max(s)}] = g[s \ {Max(s)}]
      BY <3>3
    <3>5. h[s] = g[s]
      BY <2>2
    <3> HIDE DEF h
    <3> QED
      BY <3>2, <3>4, <3>5 DEF Step
  <2> QED
    BY <2>1, <2>2
<1>6. h = [s \in SUBSET (1..m) |-> h[s]]
  OBVIOUS
<1> HIDE DEF h
<1>7. IsFold(base, seq, m, h)
  BY <1>5, <1>6 DEF IsFold
<1> QED
  BY <1>1, <1>7

\* On the first positions, it does not depend on how many more there are.
LEMMA FoldUnique ==
    ASSUME NEW base, NEW seq, NEW n \in Nat, NEW g, IsFold(base, seq, n, g),
           NEW more, NEW m \in Nat, NEW h, IsFold(base, more, m, h),
           NEW k \in Nat, k <= n, k <= m, \A i \in 1..k : seq[i] = more[i]
    PROVE  g[1..k] = h[1..k]
<1> DEFINE T == {i \in Nat : i <= k /\ g[1..i] # h[1..i]}
<1> SUFFICES ASSUME T # {} PROVE FALSE
  OBVIOUS
<1>1. PICK i \in T : \A j \in T : i <= j
  BY LeastNumber
<1>2. i # 0
  <2>1. 1..0 = {}
    OBVIOUS
  <2>2. g[{}] = base /\ h[{}] = base
    BY DEF IsFold, Step
  <2> QED
    BY <1>1, <2>1, <2>2
<1>3. /\ i - 1 \in Nat /\ i - 1 <= k /\ i = (i - 1) + 1 /\ i \in 1..k
      /\ 1..i \in SUBSET (1..n) /\ 1..i \in SUBSET (1..m) /\ 1..i # {}
  BY <1>1, <1>2
<1>4. g[1..(i - 1)] = h[1..(i - 1)]
  BY <1>1, <1>3
<1>5. Max(1..i) = i
  <2> DEFINE j == i - 1
  <2>1. j \in Nat /\ i = j + 1 /\ 1..i \in SUBSET (1..(j + 1)) /\ j + 1 \in 1..i
    BY <1>3
  <2> HIDE DEF j
  <2>2. Max(1..i) = j + 1
    BY <2>1, HighestPosition
  <2> QED
    BY <2>1, <2>2
<1>6. (1..i) \ {i} = 1..(i - 1)
  BY <1>3
<1>7. g[1..i] = Op(g[1..(i - 1)], seq[i]) /\ h[1..i] = Op(h[1..(i - 1)], more[i])
  <2>1. g[1..i] = Step(base, seq, g, 1..i) /\ h[1..i] = Step(base, more, h, 1..i)
    BY <1>3 DEF IsFold
  <2> QED
    BY <1>3, <1>5, <1>6, <2>1 DEF Step
<1>8. seq[i] = more[i]
  BY <1>3
<1> QED
  BY <1>1, <1>4, <1>7, <1>8

\* FoldLeft is such a function, on all positions.
LEMMA FoldIs ==
    ASSUME NEW base, NEW seq, NEW n \in Nat, DOMAIN seq = 1..n
    PROVE  \E g : IsFold(base, seq, n, g) /\ FoldLeft(Op, base, seq) = g[1..n]
<1> DEFINE g == CHOOSE g : g = [s \in SUBSET (1..n) |->
                                  IF s = {} THEN base ELSE Op(g[s \ {Max(s)}], seq[Max(s)])]
<1>1. FoldLeft(Op, base, seq) = g[1..n]
  BY DEF FoldLeft, MapThenFoldSet
<1>2. \E x : x = [s \in SUBSET (1..n) |-> IF s = {} THEN base ELSE Op(x[s \ {Max(s)}], seq[Max(s)])]
  <2>1. PICK x : IsFold(base, seq, n, x)
    BY FoldExists
  <2> QED
    BY <2>1 DEF IsFold, Step
<1>3. g = [s \in SUBSET (1..n) |-> IF s = {} THEN base ELSE Op(g[s \ {Max(s)}], seq[Max(s)])]
  BY <1>2, Zenon
<1> QED
  BY <1>1, <1>3 DEF IsFold, Step

\* The operator, without its argument.
Fold(base, seq) == FoldLeft(Op, base, seq)

\* Nothing is left to do.
THEOREM FoldEmpty ==
    ASSUME NEW base
    PROVE  Fold(base, <<>>) = base
<1> DEFINE none == <<>>
<1>1. DOMAIN none = 1..0 /\ 0 \in Nat /\ none = <<>>
  OBVIOUS
<1> HIDE DEF none
<1>2. PICK g : IsFold(base, none, 0, g) /\ Fold(base, none) = g[1..0]
  BY <1>1, FoldIs DEF Fold
<1>3. 1..0 = {} /\ {} \in SUBSET (1..0)
  OBVIOUS
<1>4. g[{}] = Step(base, none, g, {})
  BY <1>2, <1>3 DEF IsFold
<1> QED
  BY <1>1, <1>2, <1>3, <1>4 DEF Step

\* One more element is one more step.
THEOREM FoldAppend ==
    ASSUME NEW base, NEW S, NEW seq \in Seq(S), NEW e \in S
    PROVE  Fold(base, Append(seq, e)) = Op(Fold(base, seq), e)
<1> DEFINE n == Len(seq)
           k == n + 1
           more == Append(seq, e)
<1>1. /\ n \in Nat /\ DOMAIN seq = 1..n /\ DOMAIN more = 1..k
      /\ \A i \in 1..n : seq[i] = more[i]
      /\ more[k] = e
  BY AppendProperties, LenProperties
<1>2. k = n + 1 /\ k \in Nat /\ n <= k /\ n <= n
  BY <1>1
<1> HIDE DEF n, k, more
<1>3. PICK g : IsFold(base, seq, n, g) /\ Fold(base, seq) = g[1..n]
  BY <1>1, FoldIs DEF Fold
<1>4. PICK h : IsFold(base, more, k, h) /\ Fold(base, more) = h[1..k]
  BY <1>1, <1>2, FoldIs DEF Fold
<1>5. g[1..n] = h[1..n]
  BY <1>1, <1>2, <1>3, <1>4, FoldUnique
<1>6. /\ 1..k \in SUBSET (1..k) /\ k \in 1..k /\ 1..k # {}
      /\ (1..k) \ {k} = 1..n
  BY <1>1, <1>2
<1>7. Max(1..k) = k
  BY <1>1, <1>2, <1>6, HighestPosition
<1>8. h[1..k] = Step(base, more, h, 1..k)
  BY <1>4, <1>6 DEF IsFold
<1>9. h[1..k] = Op(h[1..n], e)
  BY <1>1, <1>6, <1>7, <1>8 DEF Step
<1> QED
  BY <1>3, <1>4, <1>5, <1>9 DEF more

\* One sequence after another.
THEOREM FoldConcat ==
    ASSUME NEW base, NEW S, NEW s \in Seq(S), NEW t \in Seq(S)
    PROVE  Fold(base, s \o t) = Fold(Fold(base, s), t)
<1> DEFINE Same(u) == Fold(base, s \o u) = Fold(Fold(base, s), u)
           T == {k \in Nat : \E u \in Seq(S) : Len(u) = k /\ ~ Same(u)}
<1> SUFFICES ASSUME ~ Same(t) PROVE FALSE
  OBVIOUS
<1>1. Len(t) \in T
  BY LenProperties
<1>2. PICK m \in T : \A k \in T : m <= k
  BY <1>1, LeastNumber
<1>3. PICK u \in Seq(S) : Len(u) = m /\ ~ Same(u)
  BY <1>2
<1>4. u # <<>>
  <2> DEFINE none == <<>>
  <2>1. s \o none = s /\ Fold(Fold(base, s), none) = Fold(base, s)
    BY ConcatEmptySeq, FoldEmpty
  <2> HIDE DEF none
  <2>2. Same(none)
    BY <2>1
  <2> QED
    BY <1>3, <2>2 DEF none
<1>5. PICK front \in Seq(S), e \in S : u = Append(front, e)
  BY <1>4, SequenceEmptyOrAppend
<1>6. Len(front) \in Nat /\ Len(front) < m
  BY <1>3, <1>5, LenProperties, AppendProperties
<1>7. Same(front)
  BY <1>2, <1>6
<1>8. s \o front \in Seq(S) /\ s \o u = Append(s \o front, e)
  <2>1. <<e>> \in Seq(S)
    OBVIOUS
  <2>2. s \o front \in Seq(S)
    BY ConcatProperties
  <2>3. u = front \o <<e>> /\ Append(s \o front, e) = (s \o front) \o <<e>>
    BY <1>5, <2>2, AppendIsConcat
  <2> DEFINE last == <<e>>
  <2> HIDE DEF last
  <2>4. last \in Seq(S) => (s \o front) \o last = s \o (front \o last)
    BY <1>5, ConcatAssociative
  <2> QED
    BY <2>1, <2>2, <2>3, <2>4 DEF last
<1>9. Fold(base, s \o u) = Op(Fold(base, s \o front), e)
  <2> DEFINE all == s \o front
  <2>1. all \in Seq(S) /\ e \in S /\ s \o u = Append(all, e)
    BY <1>5, <1>8
  <2> HIDE DEF all
  <2>2. Fold(base, Append(all, e)) = Op(Fold(base, all), e)
    BY <2>1, FoldAppend
  <2> QED
    BY <2>1, <2>2 DEF all
<1>10. Fold(Fold(base, s), u) = Op(Fold(Fold(base, s), front), e)
  <2> DEFINE first == Fold(base, s)
  <2> HIDE DEF first
  <2>1. Fold(first, Append(front, e)) = Op(Fold(first, front), e)
    BY <1>5, FoldAppend
  <2> QED
    BY <1>5, <2>1 DEF first
<1> QED
  BY <1>3, <1>7, <1>9, <1>10

\* What every step keeps.
THEOREM FoldKeeps ==
    ASSUME \A st, c : Kept(st) => Kept(Op(st, c)), NEW base, Kept(base), NEW S, NEW t \in Seq(S)
    PROVE  Kept(Fold(base, t))
<1> DEFINE Holds(u) == Kept(Fold(base, u))
           T == {k \in Nat : \E u \in Seq(S) : Len(u) = k /\ ~ Holds(u)}
<1> SUFFICES ASSUME ~ Holds(t) PROVE FALSE
  OBVIOUS
<1>1. Len(t) \in T
  BY LenProperties
<1>2. PICK m \in T : \A k \in T : m <= k
  BY <1>1, LeastNumber
<1>3. PICK u \in Seq(S) : Len(u) = m /\ ~ Holds(u)
  BY <1>2
<1>4. u # <<>>
  BY <1>3, FoldEmpty
<1>5. PICK front \in Seq(S), e \in S : u = Append(front, e)
  BY <1>4, SequenceEmptyOrAppend
<1>6. Len(front) \in Nat /\ Len(front) < m
  BY <1>3, <1>5, LenProperties, AppendProperties
<1>7. Holds(front)
  BY <1>2, <1>6
<1>8. Fold(base, u) = Op(Fold(base, front), e)
  BY <1>5, FoldAppend
<1> QED
  BY <1>3, <1>7, <1>8
=============================================================================
