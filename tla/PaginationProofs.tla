-------------------------- MODULE PaginationProofs --------------------------
(***************************************************************************)
(* Proofs about Pagination, for any plans, budget, images, number of       *)
(* attempts and pages that draws add.                                      *)
(***************************************************************************)
EXTENDS Pagination, FiniteSetTheorems, SequenceTheorems, WellFoundedInduction, TLAPS

-----------------------------------------------------------------------------
(* Induction over the natural numbers, for a set: the library's theorem    *)
(* about a minimal element, of the intervals below the numbers not in S.   *)
LEMMA SetInduction ==
    ASSUME NEW S, 0 \in S, \A n \in Nat : n \in S => n + 1 \in S
    PROVE  \A n \in Nat : n \in S
<1> SUFFICES ASSUME NEW n0 \in Nat, n0 \notin S PROVE FALSE
  OBVIOUS
<1> DEFINE T == {0..n : n \in {k \in 0..n0 : k \notin S}}
<1>1. IsWellFoundedOn(StrictSubsetOrdering(0..n0), SUBSET (0..n0))
  <2>1. IsFiniteSet(0..n0)
    BY FS_Interval
  <2>2. PICK D : D = 0..n0
    OBVIOUS
  <2>3. FiniteSubsetsOf(D) = SUBSET D
    BY <2>1, <2>2, FS_FiniteSubsetsOfFinite, Zenon
  <2>4. IsWellFoundedOn(StrictSubsetOrdering(D), FiniteSubsetsOf(D))
    BY FS_StrictSubsetOrderingWellFounded, Zenon
  <2> QED
    BY <2>2, <2>3, <2>4, Zenon
<1>2. 0..n0 \in T
  OBVIOUS
<1>3. T \subseteq SUBSET (0..n0)
  OBVIOUS
<1>4. PICK U \in T : \A V \in T : <<V, U>> \notin StrictSubsetOrdering(0..n0)
  <2> HIDE DEF T
  <2> QED
    BY <1>1, <1>2, <1>3, WFMin
<1>5. PICK n \in 0..n0 : n \notin S /\ U = 0..n
  OBVIOUS
<1>6. n # 0 /\ n - 1 \in 0..n0
  BY <1>5
<1>7. 0..(n - 1) \in T
  BY <1>5, <1>6
<1>8. <<0..(n - 1), U>> \in StrictSubsetOrdering(0..n0)
  <2>1. 0..(n - 1) \subseteq 0..n /\ 0..(n - 1) # 0..n /\ 0..n \subseteq 0..n0
    BY <1>5, <1>6
  <2> QED
    BY <1>5, <2>1 DEF StrictSubsetOrdering
<1> QED
  BY <1>4, <1>7, <1>8

(* A sequence of anything.                                                 *)
IsSeq(s) == \E S : s \in Seq(S)

LEMMA SeqFacts ==
    ASSUME NEW s, IsSeq(s)
    PROVE  /\ Len(s) \in Nat /\ DOMAIN s = 1..Len(s)
           /\ s = [i \in 1..Len(s) |-> s[i]]
           /\ s \in Seq(ToSet(s))
  BY DEF IsSeq, ToSet

LEMMA SeqRange ==
    ASSUME NEW S, NEW s \in Seq(S)
    PROVE  /\ IsSeq(s) /\ Len(s) \in Nat /\ DOMAIN s = 1..Len(s)
           /\ \A i \in 1..Len(s) : s[i] \in S
  BY DEF IsSeq

LEMMA SeqMade ==
    ASSUME NEW n \in Nat, NEW s, DOMAIN s = 1..n, s = [i \in 1..n |-> s[i]]
    PROVE  IsSeq(s) /\ Len(s) = n
<1>1. PICK S : S = {s[i] : i \in 1..n}
  OBVIOUS
<1>2. s \in [1..n -> S]
  BY <1>1
<1>3. s \in Seq(S)
  BY <1>2
<1> QED
  BY <1>2, <1>3 DEF IsSeq

LEMMA Concat ==
    ASSUME NEW s, NEW t, IsSeq(s), IsSeq(t)
    PROVE  /\ IsSeq(s \o t)
           /\ Len(s \o t) = Len(s) + Len(t)
           /\ \A i \in 1..Len(s) : (s \o t)[i] = s[i]
           /\ \A i \in 1..Len(t) : (s \o t)[Len(s) + i] = t[i]
<1>1. PICK S : S = ToSet(s) \cup ToSet(t)
  OBVIOUS
<1>2. s \in Seq(S) /\ t \in Seq(S)
  BY <1>1, SeqFacts, SeqMonotonic
<1> QED
  BY <1>2, ConcatProperties DEF IsSeq

LEMMA Appended ==
    ASSUME NEW s, NEW e, IsSeq(s)
    PROVE  /\ IsSeq(Append(s, e))
           /\ Len(Append(s, e)) = Len(s) + 1
           /\ \A i \in 1..Len(s) : Append(s, e)[i] = s[i]
           /\ Append(s, e)[Len(s) + 1] = e
<1>1. PICK S : S = ToSet(s) \cup {e}
  OBVIOUS
<1>2. s \in Seq(S) /\ e \in S
  BY <1>1, SeqFacts, SeqMonotonic
<1> QED
  BY <1>2 DEF IsSeq

(* Flattening a list of sequences, one more at a time.                     *)
LEMMA SameSeq ==
    ASSUME NEW s, NEW t, IsSeq(s), IsSeq(t), Len(s) = Len(t),
           \A i \in 1..Len(s) : s[i] = t[i]
    PROVE  s = t
<1>1. PICK S : S = ToSet(s) \cup ToSet(t)
  OBVIOUS
<1>2. s \in Seq(S) /\ t \in Seq(S)
  BY <1>1, SeqFacts, SeqMonotonic
<1> QED
  BY <1>2, SeqEqual

(* The sequences up to each place, put together.                           *)
IsFlat(f, seqs, n) ==
    f = [i \in 1..n |-> IF i = 1 THEN seqs[i] ELSE f[i - 1] \o seqs[i]]

LEMMA FlatExists == ASSUME NEW seqs PROVE \A n \in Nat : \E f : IsFlat(f, seqs, n)
<1>1. PICK S : S = {n \in Nat : \E f : IsFlat(f, seqs, n)}
  OBVIOUS
<1>2. 0 \in S
  <2>1. PICK f : f = [i \in 1..0 |-> seqs]
    OBVIOUS
  <2>2. IsFlat(f, seqs, 0)
    BY <2>1 DEF IsFlat
  <2> QED
    BY <1>1, <2>2
<1>3. ASSUME NEW n \in Nat, n \in S PROVE n + 1 \in S
  <2>1. PICK f : IsFlat(f, seqs, n)
    BY <1>1, <1>3
  <2>2. PICK last : last = IF n = 0 THEN seqs[1] ELSE f[n] \o seqs[n + 1]
    OBVIOUS
  <2>3. PICK g : g = [i \in 1..(n + 1) |-> IF i = n + 1 THEN last ELSE f[i]]
    OBVIOUS
  <2>4. ASSUME NEW i \in 1..(n + 1)
        PROVE  g[i] = IF i = 1 THEN seqs[i] ELSE g[i - 1] \o seqs[i]
    <3>1. CASE i = n + 1 /\ n = 0
      BY <2>2, <2>3, <3>1
    <3>2. CASE i = n + 1 /\ n # 0
      <4>1. g[i] = f[n] \o seqs[n + 1] /\ i # 1
        <5>1. PICK c : c = f[n] \o seqs[n + 1]
          OBVIOUS
        <5>2. last = c
          BY <2>2, <3>2, <5>1, Zenon
        <5>3. g[i] = last /\ i # 1
          BY <2>3, <3>2
        <5> QED
          BY <5>1, <5>2, <5>3
      <4>2. i - 1 = n /\ n \in 1..(n + 1) /\ n # n + 1
        BY <3>2
      <4>3. g[n] = f[n]
        BY <2>3, <4>2
      <4> QED
        BY <3>2, <4>1, <4>2, <4>3
    <3>3. CASE i # n + 1
      <4>1. i \in 1..n
        BY <3>3
      <4>2. f[i] = IF i = 1 THEN seqs[i] ELSE f[i - 1] \o seqs[i]
        BY <2>1, <4>1 DEF IsFlat
      <4>3. g[i] = f[i]
        BY <2>3, <3>3
      <4>4. i # 1 => g[i - 1] = f[i - 1]
        BY <2>3, <4>1
      <4> QED
        BY <4>2, <4>3, <4>4
    <3> QED
      BY <3>1, <3>2, <3>3
  <2>5. g = [i \in 1..(n + 1) |-> g[i]]
    BY <2>3
  <2>6. IsFlat(g, seqs, n + 1)
    BY <2>4, <2>5 DEF IsFlat
  <2> QED
    BY <1>1, <2>6
<1>4. \A n \in Nat : n \in S
  BY <1>2, <1>3, SetInduction
<1> QED
  BY <1>1, <1>4

LEMMA FlatSame ==
    ASSUME NEW n \in Nat, NEW m \in Nat, m >= n, NEW seqs, NEW more,
           \A i \in 1..n : more[i] = seqs[i],
           NEW f, IsFlat(f, seqs, n), NEW g, IsFlat(g, more, m)
    PROVE  \A i \in 1..n : g[i] = f[i]
<1>1. PICK S : S = {k \in Nat : k \in 1..n => g[k] = f[k]}
  OBVIOUS
<1>2. 0 \in S
  BY <1>1
<1>3. ASSUME NEW k \in Nat, k \in S PROVE k + 1 \in S
  <2> SUFFICES ASSUME k + 1 \in 1..n PROVE g[k + 1] = f[k + 1]
    BY <1>1
  <2>1. PICK i : i = k + 1
    OBVIOUS
  <2>2. i \in 1..n /\ i \in 1..m
    BY <2>1
  <2>3. f[i] = IF i = 1 THEN seqs[i] ELSE f[i - 1] \o seqs[i]
    BY <2>2 DEF IsFlat
  <2>4. g[i] = IF i = 1 THEN more[i] ELSE g[i - 1] \o more[i]
    BY <2>2 DEF IsFlat
  <2>5. i # 1 => g[i - 1] = f[i - 1]
    <3>1. i - 1 = k /\ (i # 1 => k \in 1..n)
      BY <2>1, <2>2
    <3> QED
      BY <1>1, <1>3, <3>1
  <2>6. more[i] = seqs[i]
    BY <2>2
  <2> QED
    BY <2>1, <2>3, <2>4, <2>5, <2>6
<1>4. \A k \in Nat : k \in S
  BY <1>2, <1>3, SetInduction
<1> QED
  BY <1>1, <1>4

LEMMA FlattenIs ==
    ASSUME NEW seqs, Len(seqs) \in Nat, Len(seqs) # 0
    PROVE  \E f : IsFlat(f, seqs, Len(seqs)) /\ FlattenSeq(seqs) = f[Len(seqs)]
<1>1. \E f : IsFlat(f, seqs, Len(seqs))
  BY FlatExists
<1>2. PICK f : f = CHOOSE g : IsFlat(g, seqs, Len(seqs))
  OBVIOUS
<1>3. IsFlat(f, seqs, Len(seqs))
  BY <1>1, <1>2
<1>4. FlattenSeq(seqs) = (CHOOSE g : IsFlat(g, seqs, Len(seqs)))[Len(seqs)]
  BY Zenon DEF FlattenSeq, IsFlat
<1> QED
  BY <1>2, <1>3, <1>4

(* One sequence more.                                                      *)
LEMMA FlattenStep ==
    ASSUME NEW seqs, IsSeq(seqs), NEW last, IsSeq(last), NEW more,
           Len(more) = Len(seqs) + 1, more[Len(more)] = last,
           \A i \in 1..Len(seqs) : more[i] = seqs[i]
    PROVE  FlattenSeq(more) = FlattenSeq(seqs) \o last
<1> PICK n : n = Len(seqs) /\ n \in Nat
  BY SeqFacts
<1> /\ Len(more) = n + 1 /\ more[n + 1] = last
    /\ \A i \in 1..n : more[i] = seqs[i]
  OBVIOUS
<1>1. PICK m : m = n + 1
  OBVIOUS
<1>2. m \in Nat /\ m # 0 /\ m \in 1..m
  BY <1>1
<1>3. PICK g : IsFlat(g, more, m) /\ FlattenSeq(more) = g[m]
  <2>1. Len(more) = m
    BY <1>1
  <2>2. Len(more) \in Nat /\ Len(more) # 0
    BY <1>2, <2>1
  <2>3. \E f : IsFlat(f, more, Len(more)) /\ FlattenSeq(more) = f[Len(more)]
    BY <2>2, FlattenIs
  <2> QED
    BY <2>1, <2>3
<1>4. g[m] = IF m = 1 THEN more[m] ELSE g[m - 1] \o more[m]
  BY <1>2, <1>3 DEF IsFlat
<1>5. CASE n = 0
  <2>1. FlattenSeq(seqs) = seqs /\ seqs = <<>>
    <3>1. Len(seqs) = 0
      BY <1>5
    <3>2. seqs = <<>>
      BY <3>1, SeqFacts
    <3> QED
      BY <3>1, <3>2 DEF FlattenSeq
  <2>2. <<>> \o last = last
    BY ConcatEmptySeq DEF IsSeq
  <2>3. g[m] = last
    BY <1>1, <1>4, <1>5
  <2> QED
    BY <1>3, <2>1, <2>2, <2>3
<1>6. CASE n # 0
  <2>1. PICK f : IsFlat(f, seqs, n) /\ FlattenSeq(seqs) = f[n]
    <3>1. Len(seqs) \in Nat /\ Len(seqs) # 0
      BY <1>6
    <3>2. \E f : IsFlat(f, seqs, Len(seqs)) /\ FlattenSeq(seqs) = f[Len(seqs)]
      BY <3>1, FlattenIs
    <3> QED
      BY <3>2
  <2>2. m >= n
    BY <1>1
  <2>3. \A i \in 1..n : g[i] = f[i]
    BY <1>2, <1>3, <2>1, <2>2, FlatSame
  <2>4. g[n] = f[n]
    BY <1>6, <2>3
  <2>5. m # 1 /\ m - 1 = n /\ more[m] = last
    BY <1>1, <1>6
  <2>6. g[m] = g[n] \o last
    BY <1>4, <2>5
  <2> QED
    BY <1>3, <2>1, <2>4, <2>6
<1> QED
  BY <1>5, <1>6

LEMMA FlattenAppend ==
    ASSUME NEW seqs, IsSeq(seqs), NEW last, IsSeq(last), NEW more, more = Append(seqs, last)
    PROVE  FlattenSeq(more) = FlattenSeq(seqs) \o last
<1>1. /\ Len(more) = Len(seqs) + 1 /\ \A i \in 1..Len(seqs) : more[i] = seqs[i]
      /\ more[Len(more)] = last
  BY Appended
<1> QED
  BY <1>1, FlattenStep

-----------------------------------------------------------------------------
(* Folding a sequence from the left.                                       *)

LEMMA MaxUpTo == \A n \in Nat : n # 0 => Max(1..n) = n /\ (1..n) \ {n} = 1..(n - 1)
<1> SUFFICES ASSUME NEW n \in Nat, n # 0 PROVE Max(1..n) = n /\ (1..n) \ {n} = 1..(n - 1)
  OBVIOUS
<1>1. PICK S : S = 1..n
  OBVIOUS
<1>2. n \in S /\ \A y \in S : n >= y
  BY <1>1
<1>3. \A x \in S : (\A y \in S : x >= y) => x = n
  BY <1>1, <1>2
<1>4. Max(S) = n
  BY <1>2, <1>3 DEF Max
<1> QED
  BY <1>1, <1>4

IsSum(f, numbers, S) ==
    f = [s \in SUBSET S |-> IF s = {} THEN 0 ELSE f[s \ {Max(s)}] + numbers[Max(s)]]

LEMMA SumIs ==
    ASSUME NEW numbers
    PROVE  SumOf(numbers) = (CHOOSE f : IsSum(f, numbers, DOMAIN numbers))[DOMAIN numbers]
  BY Zenon DEF SumOf, FoldLeft, MapThenFoldSet, IsSum

LEMMA MaxTop ==
    ASSUME NEW m \in Nat, NEW s, s \subseteq 1..m, m \in s
    PROVE  Max(s) = m
<1>1. \A y \in s : m >= y
  OBVIOUS
<1>2. \A x \in s : (\A y \in s : x >= y) => x = m
  <2> SUFFICES ASSUME NEW x \in s, \A y \in s : x >= y PROVE x = m
    OBVIOUS
  <2>1. x \in 1..m /\ x >= m
    OBVIOUS
  <2> QED
    BY <2>1
<1> QED
  BY <1>1, <1>2 DEF Max

LEMMA MaxIn == \A n \in Nat : \A s \in SUBSET (1..n) : s # {} => Max(s) \in s
<1>1. PICK S : S = {n \in Nat : \A s \in SUBSET (1..n) : s # {} => Max(s) \in s}
  OBVIOUS
<1>2. 0 \in S
  <2>1. \A s \in SUBSET (1..0) : s = {}
    OBVIOUS
  <2> QED
    BY <1>1, <2>1
<1>3. ASSUME NEW n \in Nat, n \in S PROVE n + 1 \in S
  <2> SUFFICES ASSUME NEW s \in SUBSET (1..(n + 1)), s # {} PROVE Max(s) \in s
    BY <1>1
  <2>1. CASE n + 1 \in s
    <3>1. n + 1 \in Nat
      OBVIOUS
    <3> QED
      BY <2>1, <3>1, MaxTop
  <2>2. CASE n + 1 \notin s
    <3>1. s \in SUBSET (1..n)
      BY <2>2
    <3> QED
      BY <1>1, <1>3, <3>1
  <2> QED
    BY <2>1, <2>2
<1>4. \A n \in Nat : n \in S
  BY <1>2, <1>3, SetInduction
<1> QED
  BY <1>1, <1>4

(* The folds of the model, with the steps as functions on a set A.         *)
IsFold(f, h, base, S) ==
    f = [s \in SUBSET S |-> IF s = {} THEN base ELSE h[Max(s)][f[s \ {Max(s)}]]]

LEMMA FoldExists ==
    ASSUME NEW A, NEW base \in A, NEW n \in Nat, NEW h, \A i \in 1..n : h[i] \in [A -> A]
    PROVE  \E f : IsFold(f, h, base, 1..n) /\ \A s \in SUBSET (1..n) : f[s] \in A
<1>1. PICK S : S = {k \in Nat : k \in 0..n =>
                       \E f : IsFold(f, h, base, 1..k) /\ \A s \in SUBSET (1..k) : f[s] \in A}
  OBVIOUS
<1>2. 0 \in S
  <2>1. PICK f : f = [s \in SUBSET (1..0) |-> base]
    OBVIOUS
  <2>2. \A s \in SUBSET (1..0) : s = {}
    OBVIOUS
  <2>3. IsFold(f, h, base, 1..0) /\ \A s \in SUBSET (1..0) : f[s] \in A
    BY <2>1, <2>2 DEF IsFold
  <2> QED
    BY <1>1, <2>3
<1>3. ASSUME NEW k \in Nat, k \in S PROVE k + 1 \in S
  <2> SUFFICES ASSUME k + 1 \in 0..n
               PROVE  \E f : /\ IsFold(f, h, base, 1..(k + 1))
                             /\ \A s \in SUBSET (1..(k + 1)) : f[s] \in A
    BY <1>1
  <2>1. k \in 0..n
    OBVIOUS
  <2>2. PICK f : IsFold(f, h, base, 1..k) /\ \A s \in SUBSET (1..k) : f[s] \in A
    BY <1>1, <1>3, <2>1
  <2>3. PICK m, D : m = k + 1 /\ D = 1..m /\ m \in Nat /\ m \in 1..n
    OBVIOUS
  <2>4. PICK g : g = [s \in SUBSET D |-> IF m \in s THEN h[m][f[s \ {m}]] ELSE f[s]]
    OBVIOUS
  <2>5. \A s \in SUBSET D : /\ s \ {m} \in SUBSET (1..k)
                            /\ m \notin s => s \in SUBSET (1..k)
    BY <2>3
  <2>6. ASSUME NEW s \in SUBSET D
        PROVE  /\ g[s] = IF s = {} THEN base ELSE h[Max(s)][g[s \ {Max(s)}]]
               /\ g[s] \in A
    <3>1. CASE m \in s
      <4>1. Max(s) = m
        BY <2>3, <3>1, MaxTop
      <4>2. s \ {m} \in SUBSET D /\ m \notin s \ {m}
        OBVIOUS
      <4>3. g[s \ {m}] = f[s \ {m}]
        BY <2>4, <4>2
      <4>4. g[s] = h[m][f[s \ {m}]]
        BY <2>4, <3>1
      <4>5. f[s \ {m}] \in A /\ h[m] \in [A -> A]
        BY <2>2, <2>3, <2>5
      <4>6. h[m][f[s \ {m}]] \in A
        BY <4>5
      <4> QED
        BY <3>1, <4>1, <4>3, <4>4, <4>6
    <3>2. CASE m \notin s
      <4>1. g[s] = f[s] /\ s \in SUBSET (1..k)
        BY <2>4, <2>5, <3>2
      <4>2. f[s] = IF s = {} THEN base ELSE h[Max(s)][f[s \ {Max(s)}]]
        BY <2>2, <4>1 DEF IsFold
      <4>3. PICK r : r = s \ {Max(s)}
        OBVIOUS
      <4>4. r \in SUBSET D /\ m \notin r
        BY <3>2, <4>3
      <4>5. g[r] = f[r]
        BY <2>4, <4>4
      <4> QED
        BY <2>2, <4>1, <4>2, <4>3, <4>5
    <3> QED
      BY <3>1, <3>2
  <2>7. g = [s \in SUBSET D |-> g[s]]
    BY <2>4
  <2>8. IsFold(g, h, base, D)
    BY <2>6, <2>7 DEF IsFold
  <2> QED
    BY <2>3, <2>6, <2>8
<1>4. \A k \in Nat : k \in S
  BY <1>2, <1>3, SetInduction
<1> QED
  BY <1>1, <1>4

-----------------------------------------------------------------------------
(* Sums of sequences.                                                      *)

Numbers(s) == DOMAIN s = 1..Len(s) /\ Len(s) \in Nat /\ \A i \in 1..Len(s) : s[i] \in Int

LEMMA SumUnfolds ==
    ASSUME NEW numbers, Numbers(numbers)
    PROVE  \E f : /\ IsSum(f, numbers, 1..Len(numbers))
                  /\ SumOf(numbers) = f[1..Len(numbers)]
<1>1. PICK n : n = Len(numbers) /\ n \in Nat /\ DOMAIN numbers = 1..n
  BY DEF Numbers
<1>2. PICK h : h = [i \in 1..n |-> [a \in Int |-> a + numbers[i]]]
  OBVIOUS
<1>3. \A i \in 1..n : h[i] \in [Int -> Int]
  BY <1>1, <1>2 DEF Numbers
<1>4. PICK f : IsFold(f, h, 0, 1..n) /\ \A s \in SUBSET (1..n) : f[s] \in Int
  <2>1. 0 \in Int /\ n \in Nat
    BY <1>1
  <2> QED
    BY <1>3, <2>1, FoldExists
<1>5. ASSUME NEW s \in SUBSET (1..n)
      PROVE  f[s] = IF s = {} THEN 0 ELSE f[s \ {Max(s)}] + numbers[Max(s)]
  <2>1. f[s] = IF s = {} THEN 0 ELSE h[Max(s)][f[s \ {Max(s)}]]
    BY <1>4 DEF IsFold
  <2>2. PICK m, r : m = Max(s) /\ r = s \ {m}
    OBVIOUS
  <2>3. f[r] \in Int
    BY <1>4, <2>2
  <2>4. s # {} => m \in 1..n
    BY <1>1, <2>2, MaxIn
  <2>5. s # {} => h[m][f[r]] = f[r] + numbers[m]
    BY <1>2, <2>3, <2>4
  <2> QED
    BY <2>1, <2>2, <2>5
<1>6. f = [s \in SUBSET (1..n) |-> f[s]]
  BY <1>4 DEF IsFold
<1>7. IsSum(f, numbers, 1..n)
  BY <1>5, <1>6 DEF IsSum
<1>8. PICK g : g = CHOOSE c : IsSum(c, numbers, 1..n)
  OBVIOUS
<1>9. IsSum(g, numbers, 1..n)
  BY <1>7, <1>8
<1>10. SumOf(numbers) = g[1..n]
  BY <1>1, <1>8, SumIs
<1> QED
  BY <1>1, <1>9, <1>10

LEMMA SumStarts ==
    ASSUME NEW n \in Nat, NEW f, NEW numbers, IsSum(f, numbers, 1..n)
    PROVE  /\ f[1..0] = 0
           /\ \A k \in 1..n : f[1..k] = f[1..(k - 1)] + numbers[k]
<1>1. 1..0 \in SUBSET (1..n) /\ 1..0 = {}
  OBVIOUS
<1>2. PICK e : e = 1..0
  OBVIOUS
<1>3. f[e] = 0
  BY <1>1, <1>2 DEF IsSum
<1>4. ASSUME NEW k \in 1..n PROVE f[1..k] = f[1..(k - 1)] + numbers[k]
  <2>1. PICK s, r : s = 1..k /\ r = 1..(k - 1)
    OBVIOUS
  <2>2. s \in SUBSET (1..n) /\ s # {} /\ Max(s) = k /\ s \ {k} = r
    <3>1. k \in Nat /\ k # 0
      OBVIOUS
    <3>2. Max(1..k) = k /\ (1..k) \ {k} = 1..(k - 1)
      BY <3>1, MaxUpTo
    <3> QED
      BY <2>1, <3>1, <3>2
  <2>3. f[s] = f[r] + numbers[k]
    BY <2>2 DEF IsSum
  <2> QED
    BY <2>1, <2>3
<1> QED
  BY <1>2, <1>3, <1>4

(* A longer list has the sum of its first part and what follows.           *)
LEMMA SumStep ==
    ASSUME NEW s, Numbers(s), NEW t, Numbers(t), Len(t) = Len(s) + 1,
           \A i \in 1..Len(s) : t[i] = s[i]
    PROVE  SumOf(t) = SumOf(s) + t[Len(t)] /\ SumOf(s) \in Int
<1>1. PICK n : n = Len(s) /\ n \in Nat /\ n + 1 \in Nat /\ Len(t) = n + 1
  BY DEF Numbers
<1>2. PICK f : IsSum(f, s, 1..n) /\ SumOf(s) = f[1..n]
  BY <1>1, SumUnfolds
<1>3. PICK g : IsSum(g, t, 1..(n + 1)) /\ SumOf(t) = g[1..(n + 1)]
  BY <1>1, SumUnfolds
<1>4. f[1..0] = 0 /\ \A k \in 1..n : f[1..k] = f[1..(k - 1)] + s[k]
  <2>1. n \in Nat /\ IsSum(f, s, 1..n)
    BY <1>1, <1>2
  <2> QED
    BY <2>1, SumStarts
<1>5. g[1..0] = 0 /\ \A k \in 1..(n + 1) : g[1..k] = g[1..(k - 1)] + t[k]
  <2>1. PICK m : m = n + 1
    OBVIOUS
  <2>2. m \in Nat /\ IsSum(g, t, 1..m)
    BY <1>1, <1>3, <2>1
  <2>3. g[1..0] = 0 /\ \A k \in 1..m : g[1..k] = g[1..(k - 1)] + t[k]
    BY SMTT(30), <2>2, SumStarts
  <2> QED
    BY <2>1, <2>3
<1>6. PICK S : S = {k \in Nat : k \in 0..n => g[1..k] = f[1..k] /\ f[1..k] \in Int}
  OBVIOUS
<1>7. 0 \in S
  BY <1>4, <1>5, <1>6
<1>8. ASSUME NEW k \in Nat, k \in S PROVE k + 1 \in S
  <2> SUFFICES ASSUME k + 1 \in 0..n
               PROVE  g[1..(k + 1)] = f[1..(k + 1)] /\ f[1..(k + 1)] \in Int
    BY <1>6
  <2>1. PICK m : m = k + 1 /\ m \in 1..n /\ m \in 1..(n + 1) /\ m - 1 = k
    BY <1>1
  <2>2. g[1..k] = f[1..k] /\ f[1..k] \in Int
    BY <1>1, <1>6, <1>8
  <2>3. s[m] \in Int /\ t[m] = s[m]
    BY <1>1, <2>1 DEF Numbers
  <2>4. f[1..m] = f[1..k] + s[m] /\ g[1..m] = g[1..k] + t[m]
    BY <1>4, <1>5, <2>1
  <2> QED
    BY <2>1, <2>2, <2>3, <2>4
<1>9. n \in S /\ n \in 0..n
  BY <1>1, <1>7, <1>8, SetInduction
<1>10. g[1..n] = f[1..n] /\ f[1..n] \in Int
  BY <1>6, <1>9
<1>11. PICK m : m = n + 1 /\ m \in 1..(n + 1) /\ m - 1 = n
  BY <1>1
<1>12. g[1..m] = g[1..n] + t[m]
  BY <1>5, <1>11
<1> QED
  BY <1>1, <1>2, <1>3, <1>10, <1>11, <1>12

LEMMA SumNothing == ASSUME NEW s, Numbers(s), Len(s) = 0 PROVE SumOf(s) = 0
<1>1. PICK f : IsSum(f, s, 1..0) /\ SumOf(s) = f[1..0]
  BY SumUnfolds
<1>2. f[1..0] = 0
  BY <1>1, SumStarts
<1> QED
  BY <1>1, <1>2

-----------------------------------------------------------------------------
(* The partition.                                                          *)

EstimatedOf(sections) == SumOf([t \in DOMAIN sections |-> Estimate(sections[t])])

LEMMA PlanFacts ==
    ASSUME plan \in Plans
    PROVE  /\ IsSeq(plan) /\ Len(plan) \in Nat /\ DOMAIN plan = 1..Len(plan)
           /\ \A s \in DOMAIN plan : IsSection(plan[s])
<1>1. plan \in Seq(ToSet(plan)) /\ \A s \in ToSet(plan) : IsSection(s)
  BY PlansKnown DEF IsList
<1>2. IsSeq(plan) /\ Len(plan) \in Nat /\ DOMAIN plan = 1..Len(plan)
  BY <1>1, SeqRange, Zenon
<1>3. \A s \in DOMAIN plan : plan[s] \in ToSet(plan)
  BY DEF ToSet
<1> QED
  BY <1>1, <1>2, <1>3

LEMMA EstimateInt == ASSUME plan \in Plans, NEW s \in DOMAIN plan PROVE Estimate(s) \in Int
<1>1. "estimate" \in DOMAIN plan[s] => plan[s].estimate \in Int
  BY PlanFacts DEF IsSection
<1>2. ASSUME NEW e \in Int PROVE Max({1, e}) \in Int
  <2>1. PICK S : S = {1, e}
    OBVIOUS
  <2>2. \E x \in S : \A y \in S : x >= y
    <3>1. CASE e >= 1
      BY <2>1, <3>1
    <3>2. CASE ~(e >= 1)
      BY <2>1, <3>2
    <3> QED
      BY <3>1, <3>2
  <2>3. Max(S) \in S
    BY <2>2 DEF Max
  <2> QED
    BY <2>1, <2>3
<1> QED
  BY <1>1, <1>2 DEF Estimate

LEMMA EstimatedStep ==
    ASSUME plan \in Plans, NEW c \in Seq(DOMAIN plan), NEW s \in DOMAIN plan
    PROVE  /\ EstimatedOf(Append(c, s)) = EstimatedOf(c) + Estimate(s)
           /\ EstimatedOf(c) \in Int
<1>1. PICK D, n : D = DOMAIN plan /\ n = Len(c) /\ n \in Nat /\ DOMAIN c = 1..n
  BY SeqRange, Zenon
<1>2. IsSeq(c) /\ \A t \in 1..n : c[t] \in D
  BY <1>1, SeqRange, Zenon
<1>3. PICK d : d = Append(c, s)
  OBVIOUS
<1>4. IsSeq(d) /\ Len(d) = n + 1 /\ d[n + 1] = s /\ \A t \in 1..n : d[t] = c[t]
  BY <1>1, <1>2, <1>3, Appended
<1>5. DOMAIN d = 1..(n + 1)
  BY <1>4, SeqFacts
<1>6. PICK a, b : /\ a = [t \in DOMAIN c |-> Estimate(c[t])]
                  /\ b = [t \in DOMAIN d |-> Estimate(d[t])]
  OBVIOUS
<1>7. Len(a) = n /\ Len(b) = n + 1
  <2>1. DOMAIN a = 1..n /\ a = [t \in 1..n |-> a[t]]
    BY <1>1, <1>6
  <2>2. DOMAIN b = 1..(n + 1) /\ b = [t \in 1..(n + 1) |-> b[t]]
    BY <1>5, <1>6
  <2>3. n + 1 \in Nat
    BY <1>1
  <2> QED
    BY <1>1, <2>1, <2>2, <2>3, SeqMade
<1>8. \A t \in 1..n : a[t] = Estimate(c[t]) /\ b[t] = a[t] /\ a[t] \in Int
  BY <1>1, <1>2, <1>4, <1>5, <1>6, EstimateInt
<1>9. b[n + 1] = Estimate(s) /\ b[n + 1] \in Int
  BY <1>1, <1>4, <1>5, <1>6, EstimateInt
<1>10. Numbers(a) /\ Numbers(b)
  <2>1. \A t \in 1..(n + 1) : t \in 1..n \/ t = n + 1
    BY <1>1
  <2>2. n + 1 \in Nat /\ DOMAIN a = 1..n /\ DOMAIN b = 1..(n + 1)
    BY <1>1, <1>5, <1>6
  <2> QED
    BY <1>1, <1>7, <1>8, <1>9, <2>1, <2>2 DEF Numbers
<1>11. SumOf(b) = SumOf(a) + b[n + 1] /\ SumOf(a) \in Int
  BY <1>7, <1>8, <1>10, SumStep
<1> QED
  BY <1>3, <1>6, <1>9, <1>11 DEF EstimatedOf

(* The state of the loop of partition().                                   *)
Accs(D) == [shards : Seq(Seq(D)), current : Seq(D), size : Int]
Start == [shards |-> <<>>, current |-> <<>>, size |-> 0]

(* What a turn makes of it.                                                *)
LEMMA PackParts ==
    ASSUME plan \in Plans, NEW acc \in Accs(DOMAIN plan), NEW s \in DOMAIN plan,
           NEW to, to = Pack(acc, s)
    PROVE  /\ to \in Accs(DOMAIN plan)
           /\ Overfull(acc, s) => /\ acc.current # <<>>
                                  /\ to.shards = Append(acc.shards, acc.current)
                                  /\ to.current = <<s>>
                                  /\ to.size = Estimate(s)
           /\ ~Overfull(acc, s) => /\ to.shards = acc.shards
                                   /\ to.current = Append(acc.current, s)
                                   /\ to.size = acc.size + Estimate(s)
<1>1. PICK D : D = DOMAIN plan
  OBVIOUS
<1>2. PICK e : e = Estimate(s) /\ e \in Int
  BY EstimateInt
<1>3. /\ acc.shards \in Seq(Seq(D)) /\ acc.current \in Seq(D) /\ acc.size \in Int
  BY <1>1 DEF Accs
<1>4. PICK room : room = IF Overfull(acc, s) THEN Flush(acc) ELSE acc
  OBVIOUS
<1>5. to = [room EXCEPT !.current = Append(@, s), !.size = @ + e]
  BY <1>2, <1>4, Zenon DEF Pack
<1>6. room \in Accs(D)
  BY <1>1, <1>3, <1>4 DEF Flush, Accs
<1>7. /\ to.shards = room.shards /\ to.current = Append(room.current, s)
      /\ to.size = room.size + e
  BY <1>5, <1>6 DEF Accs
<1>8. to \in Accs(D)
  <2>1. /\ room.shards \in Seq(Seq(D)) /\ room.current \in Seq(D) /\ room.size \in Int
    BY <1>6 DEF Accs
  <2>2. Append(room.current, s) \in Seq(D) /\ room.size + e \in Int
    BY <1>1, <1>2, <2>1
  <2>3. to = [shards |-> room.shards, current |-> Append(room.current, s),
              size |-> room.size + e]
    BY <1>5, <1>6 DEF Accs
  <2> QED
    BY <2>1, <2>2, <2>3 DEF Accs
<1>9. CASE Overfull(acc, s)
  <2>1. acc.current # <<>>
    BY <1>9 DEF Overfull
  <2>2. room = [shards |-> Append(acc.shards, acc.current), current |-> <<>>, size |-> 0]
    BY <1>4, <1>9, <2>1 DEF Flush
  <2>3. Append(<<>>, s) = <<s>> /\ 0 + e = e
    BY <1>2
  <2> QED
    BY <1>1, <1>2, <1>7, <1>8, <1>9, <2>1, <2>2, <2>3
<1>10. CASE ~Overfull(acc, s)
  BY <1>1, <1>2, <1>4, <1>7, <1>8, <1>10
<1> QED
  BY <1>9, <1>10

IsPacked(f, seq, base, S) ==
    f = [s \in SUBSET S |-> IF s = {} THEN base ELSE Pack(f[s \ {Max(s)}], seq[Max(s)])]

LEMMA PackIs ==
    ASSUME NEW base, NEW seq, seq = [i \in DOMAIN plan |-> i]
    PROVE  FoldLeftDomain(Pack, base, plan)
             = (CHOOSE f : IsPacked(f, seq, base, DOMAIN seq))[DOMAIN seq]
  BY Zenon DEF FoldLeftDomain, FoldLeft, MapThenFoldSet, IsPacked

(* The turns of the loop.                                                  *)
LEMMA PackTurns ==
    ASSUME plan \in Plans, NEW n, n = Len(plan)
    PROVE  \E f : /\ f[0] = Start
                  /\ \A k \in 1..n : f[k] = Pack(f[k - 1], k)
                  /\ FoldLeftDomain(Pack, Start, plan) = f[n]
<1>1. n \in Nat /\ DOMAIN plan = 1..n
  BY PlanFacts
<1>2. PICK A : A = Accs(DOMAIN plan)
  OBVIOUS
<1>3. Start \in A
  BY <1>2 DEF Start, Accs
<1>4. PICK h : h = [i \in 1..n |-> [acc \in A |-> Pack(acc, i)]]
  OBVIOUS
<1>5. \A i \in 1..n : h[i] \in [A -> A]
  <2> TAKE i \in 1..n
  <2>1. \A acc \in A : Pack(acc, i) \in A
    BY <1>1, <1>2, PackParts
  <2> QED
    BY <1>4, <2>1
<1>6. PICK f : IsFold(f, h, Start, 1..n) /\ \A s \in SUBSET (1..n) : f[s] \in A
  BY <1>1, <1>3, <1>5, FoldExists
<1>7. PICK seq : seq = [i \in DOMAIN plan |-> i]
  OBVIOUS
<1>8. ASSUME NEW s \in SUBSET (1..n)
      PROVE  f[s] = IF s = {} THEN Start ELSE Pack(f[s \ {Max(s)}], seq[Max(s)])
  <2>1. f[s] = IF s = {} THEN Start ELSE h[Max(s)][f[s \ {Max(s)}]]
    BY <1>6 DEF IsFold
  <2>2. PICK m, r : m = Max(s) /\ r = s \ {m}
    OBVIOUS
  <2>3. f[r] \in A
    BY <1>6, <2>2
  <2>4. s # {} => m \in 1..n
    BY <1>1, <2>2, MaxIn
  <2>5. s # {} => seq[m] = m
    BY <1>1, <1>7, <2>4
  <2>6. s # {} => h[m][f[r]] = Pack(f[r], m)
    BY <1>4, <2>3, <2>4
  <2> QED
    BY <2>1, <2>2, <2>5, <2>6
<1>9. f = [s \in SUBSET (1..n) |-> f[s]]
  BY <1>6 DEF IsFold
<1>10. IsPacked(f, seq, Start, 1..n)
  BY <1>8, <1>9 DEF IsPacked
<1>11. PICK g : g = CHOOSE c : IsPacked(c, seq, Start, 1..n)
  OBVIOUS
<1>12. IsPacked(g, seq, Start, 1..n)
  BY <1>10, <1>11
<1>13. FoldLeftDomain(Pack, Start, plan) = g[1..n]
  <2>1. DOMAIN seq = 1..n
    BY <1>1, <1>7
  <2> QED
    BY <1>7, <1>11, <2>1, PackIs
<1>14. PICK p : p = [k \in 0..n |-> g[1..k]]
  OBVIOUS
<1>15. p[0] = Start
  <2>1. PICK e : e = 1..0 /\ e = {} /\ e \in SUBSET (1..n)
    OBVIOUS
  <2>2. g[e] = Start
    BY <1>12, <2>1 DEF IsPacked
  <2>3. 0 \in 0..n
    BY <1>1
  <2> QED
    BY <1>14, <2>1, <2>2, <2>3
<1>16. ASSUME NEW k \in 1..n PROVE p[k] = Pack(p[k - 1], k)
  <2>1. PICK s, r : s = 1..k /\ r = 1..(k - 1)
    OBVIOUS
  <2>2. s \in SUBSET (1..n) /\ s # {} /\ Max(s) = k /\ s \ {k} = r
    <3>1. k \in Nat /\ k # 0
      OBVIOUS
    <3>2. Max(1..k) = k /\ (1..k) \ {k} = 1..(k - 1)
      BY <3>1, MaxUpTo
    <3>3. s \in SUBSET (1..n) /\ k \in s
      BY <1>1, <2>1, <3>1
    <3> QED
      BY <2>1, <3>2, <3>3
  <2>3. g[s] = Pack(g[r], seq[k])
    BY <1>12, <2>2 DEF IsPacked
  <2>4. seq[k] = k
    BY <1>1, <1>7
  <2>5. p[k] = g[s] /\ p[k - 1] = g[r]
    <3>1. k \in 0..n /\ k - 1 \in 0..n
      BY <1>1
    <3> QED
      BY <1>14, <2>1, <3>1
  <2> QED
    BY <2>3, <2>4, <2>5
<1>17. p[n] = g[1..n]
  BY <1>1, <1>14
<1> QED
  BY <1>13, <1>15, <1>16, <1>17

(* What the sections of a list of shards are, each of them in one.         *)
Packing(list) ==
    \A j \in 1..Len(list) :
        /\ list[j] # <<>>
        /\ Len(list[j]) > 1 => EstimatedOf(list[j]) <= MaxPagesPerShard
        /\ j < Len(list) =>
              EstimatedOf(Append(list[j], Head(list[j + 1]))) > MaxPagesPerShard

Covered(list, s) == \E j \in 1..Len(list) : s \in ToSet(list[j])

(* The loop after n sections.                                              *)
Looped(list, c, size, n) ==
    /\ IsSeq(FlattenSeq(list))
    /\ FlattenSeq(list) \o c = [s \in 1..n |-> s]
    /\ size = EstimatedOf(c)
    /\ n > 0 => c # <<>>
    /\ n = 0 => list = <<>> /\ c = <<>>
    /\ Packing(list)
    /\ Len(c) > 1 => size <= MaxPagesPerShard
    /\ Len(list) > 0 => EstimatedOf(Append(list[Len(list)], Head(c))) > MaxPagesPerShard
    /\ \A s \in 1..n : Covered(list, s) \/ s \in ToSet(c)

PackLoop(acc, n) ==
    /\ acc \in Accs(DOMAIN plan)
    /\ Looped(acc.shards, acc.current, acc.size, n)

LEMMA ConcatAppend ==
    ASSUME NEW s, NEW c, NEW e, IsSeq(s), IsSeq(c)
    PROVE  s \o Append(c, e) = Append(s \o c, e)
<1>1. PICK S : S = ToSet(s) \cup ToSet(c) \cup {e}
  OBVIOUS
<1>2. s \in Seq(S) /\ c \in Seq(S) /\ e \in S
  BY <1>1, SeqFacts, SeqMonotonic
<1>3. Append(c, e) = c \o <<e>> /\ Append(s \o c, e) = (s \o c) \o <<e>>
  BY <1>2, AppendIsConcat, ConcatProperties
<1> QED
  BY <1>2, <1>3, ConcatAssociative

LEMMA ConcatOne == ASSUME NEW s, NEW e, IsSeq(s) PROVE s \o <<e>> = Append(s, e)
<1>1. PICK S : S = ToSet(s) \cup {e}
  OBVIOUS
<1>2. s \in Seq(S) /\ e \in S
  BY <1>1, SeqFacts, SeqMonotonic
<1> QED
  BY <1>2, AppendIsConcat

LEMMA UpToMore ==
    ASSUME NEW n \in Nat
    PROVE  /\ Append([i \in 1..n |-> i], n + 1) = [i \in 1..(n + 1) |-> i]
           /\ IsSeq([i \in 1..n |-> i])
<1>1. PICK s, m, t : s = [i \in 1..n |-> i] /\ m = n + 1 /\ t = [i \in 1..m |-> i]
  OBVIOUS
<1>2. IsSeq(s) /\ Len(s) = n
  <2>1. DOMAIN s = 1..n /\ s = [i \in 1..n |-> s[i]]
    BY <1>1
  <2> QED
    BY <2>1, SeqMade
<1>3. IsSeq(t) /\ Len(t) = m
  <2>1. DOMAIN t = 1..m /\ t = [i \in 1..m |-> t[i]] /\ m \in Nat
    BY <1>1
  <2> QED
    BY <2>1, SeqMade
<1>4. PICK a : a = Append(s, m)
  OBVIOUS
<1>5. IsSeq(a) /\ Len(a) = n + 1 /\ a[n + 1] = m /\ \A i \in 1..n : a[i] = s[i]
  BY <1>2, <1>4, Appended
<1>6. \A i \in 1..m : a[i] = t[i]
  BY <1>1, <1>5
<1>7. a = t
  <2>1. Len(a) = Len(t)
    BY <1>1, <1>3, <1>5
  <2>2. \A i \in 1..Len(a) : a[i] = t[i]
    BY <1>1, <1>5, <1>6
  <2> QED
    BY <1>3, <1>5, <2>1, <2>2, SameSeq
<1> QED
  BY <1>1, <1>2, <1>4, <1>7

(* A shard more, which the last one had no room for.                       *)
LEMMA PackingStep ==
    ASSUME NEW D, NEW list \in Seq(Seq(D)), NEW c \in Seq(D), c # <<>>,
           Packing(list),
           Len(c) > 1 => EstimatedOf(c) <= MaxPagesPerShard,
           Len(list) > 0 =>
               EstimatedOf(Append(list[Len(list)], Head(c))) > MaxPagesPerShard
    PROVE  Packing(Append(list, c))
<1>1. PICK n, more : /\ n = Len(list) /\ n \in Nat /\ more = Append(list, c)
                     /\ IsSeq(list)
  BY SeqRange, Zenon
<1>2. /\ Len(more) = n + 1 /\ more[n + 1] = c /\ \A j \in 1..n : more[j] = list[j]
  BY <1>1, Appended
<1> SUFFICES ASSUME NEW j \in 1..(n + 1)
             PROVE  /\ more[j] # <<>>
                    /\ Len(more[j]) > 1 => EstimatedOf(more[j]) <= MaxPagesPerShard
                    /\ j < n + 1 =>
                          EstimatedOf(Append(more[j], Head(more[j + 1]))) > MaxPagesPerShard
  BY <1>1, <1>2, Zenon DEF Packing
<1>3. CASE j = n + 1
  <2>1. ~(j < n + 1)
    BY <1>1, <1>3
  <2> QED
    BY <1>2, <1>3, <2>1
<1>4. CASE j = n /\ j # n + 1
  <2>1. j \in 1..n /\ n > 0 /\ ~(j < n)
    BY <1>1, <1>4
  <2>2. more[j] = list[n] /\ more[j + 1] = c
    BY <1>2, <1>4, <2>1
  <2>3. list[n] # <<>> /\ (Len(list[n]) > 1 => EstimatedOf(list[n]) <= MaxPagesPerShard)
    BY <1>1, <1>4, <2>1 DEF Packing
  <2> QED
    BY <1>1, <2>1, <2>2, <2>3
<1>5. CASE j # n /\ j # n + 1
  <2>1. j \in 1..n /\ j + 1 \in 1..n /\ j < n
    BY <1>1, <1>5
  <2>2. PICK a, b : a = list[j] /\ b = list[j + 1]
    OBVIOUS
  <2>3. more[j] = a /\ more[j + 1] = b
    BY <1>2, <2>1, <2>2
  <2>4. /\ a # <<>> /\ (Len(a) > 1 => EstimatedOf(a) <= MaxPagesPerShard)
        /\ EstimatedOf(Append(a, Head(b))) > MaxPagesPerShard
    BY <1>1, <2>1, <2>2, Zenon DEF Packing
  <2> QED
    BY <2>3, <2>4
<1> QED
  BY <1>3, <1>4, <1>5

LEMMA EstimatedOne ==
    ASSUME plan \in Plans, NEW s \in DOMAIN plan
    PROVE  EstimatedOf(<<s>>) = Estimate(s) /\ EstimatedOf(<<>>) = 0
<1>1. PICK none : none = [t \in DOMAIN <<>> |-> Estimate(<<>>[t])]
  OBVIOUS
<1>2. Numbers(none) /\ Len(none) = 0
  <2>1. DOMAIN none = 1..0 /\ none = [t \in 1..0 |-> none[t]]
    BY <1>1
  <2>2. Len(none) = 0
    BY <2>1, SeqMade
  <2> QED
    BY <2>1, <2>2 DEF Numbers
<1>3. EstimatedOf(<<>>) = 0
  BY <1>1, <1>2, SumNothing DEF EstimatedOf
<1>4. <<>> \in Seq(DOMAIN plan) /\ Append(<<>>, s) = <<s>>
  OBVIOUS
<1>5. EstimatedOf(<<s>>) = EstimatedOf(<<>>) + Estimate(s)
  BY <1>4, EstimatedStep
<1> QED
  BY <1>3, <1>5, EstimateInt

LEMMA PackLoopStep ==
    ASSUME plan \in Plans, NEW n \in Nat, n + 1 \in DOMAIN plan,
           NEW acc, PackLoop(acc, n), NEW to, to = Pack(acc, n + 1)
    PROVE  PackLoop(to, n + 1)
<1>1. PICK D, s, e, list, c : /\ D = DOMAIN plan /\ s = n + 1 /\ e = Estimate(s)
                              /\ list = acc.shards /\ c = acc.current
  OBVIOUS
<1>2. /\ list \in Seq(Seq(D)) /\ c \in Seq(D) /\ acc.size = EstimatedOf(c)
      /\ s \in D /\ e \in Int /\ acc.size \in Int
  BY <1>1, EstimateInt DEF PackLoop, Looped, Accs
<1>3. IsSeq(list) /\ IsSeq(c) /\ Len(list) \in Nat /\ Len(c) \in Nat
  BY <1>2, SeqRange, Zenon
<1>4. PICK d : d = Append(c, s)
  OBVIOUS
<1>5. /\ d \in Seq(D) /\ IsSeq(d) /\ Len(d) = Len(c) + 1 /\ d[Len(c) + 1] = s
      /\ \A i \in 1..Len(c) : d[i] = c[i]
      /\ EstimatedOf(d) = EstimatedOf(c) + e
  <2>1. EstimatedOf(d) = EstimatedOf(c) + e
    BY <1>1, <1>2, <1>4, EstimatedStep
  <2>2. d \in Seq(D)
    BY <1>2, <1>4
  <2> QED
    BY <1>3, <1>4, <2>1, <2>2, Appended
<1>6. IsSeq(FlattenSeq(list)) /\ FlattenSeq(list) \o c = [i \in 1..n |-> i]
  BY <1>1 DEF PackLoop, Looped
<1>7. /\ to \in Accs(D)
      /\ Overfull(acc, s) => /\ c # <<>> /\ to.shards = Append(list, c)
                             /\ to.current = <<s>> /\ to.size = e
      /\ ~Overfull(acc, s) => /\ to.shards = list /\ to.current = d
                              /\ to.size = acc.size + e
  <2>1. acc \in Accs(DOMAIN plan) /\ s \in DOMAIN plan /\ to = Pack(acc, s)
    BY <1>1 DEF PackLoop, Looped
  <2> QED
    BY <1>1, <1>4, <2>1, PackParts
<1>8. PICK whole : whole = [i \in 1..s |-> i]
  OBVIOUS
<1>9. IsSeq(whole) /\ Len(whole) = s /\ s = n + 1 /\ s \in Nat
  <2>1. s \in Nat /\ DOMAIN whole = 1..s /\ whole = [i \in 1..s |-> whole[i]]
    BY <1>1, <1>8
  <2> QED
    BY <1>1, <2>1, SeqMade
<1>10. CASE ~Overfull(acc, s)
  <2>1. to.shards = list /\ to.current = d /\ to.size = EstimatedOf(d)
    BY <1>2, <1>5, <1>7, <1>10
  <2>2. FlattenSeq(list) \o d = whole
    <3>1. FlattenSeq(list) \o d = Append(FlattenSeq(list) \o c, s)
      <4>1. IsSeq(FlattenSeq(list)) /\ IsSeq(c)
        BY <1>3, <1>6
      <4> QED
        BY <1>4, <4>1, ConcatAppend
    <3> QED
      BY <1>1, <1>6, <1>8, <3>1, UpToMore
  <2>3. d # <<>>
    BY <1>3, <1>5
  <2>4. Len(d) > 1 => EstimatedOf(d) <= MaxPagesPerShard
    <3> SUFFICES ASSUME Len(d) > 1 PROVE EstimatedOf(d) <= MaxPagesPerShard
      OBVIOUS
    <3>1. c # <<>>
      BY <1>3, <1>5
    <3>2. ~(acc.size + e > MaxPagesPerShard)
      BY <1>1, <1>10, <3>1 DEF Overfull
    <3> QED
      BY <1>2, <1>5, <3>2, BudgetPositive
  <2>5. Len(list) > 0 => EstimatedOf(Append(list[Len(list)], Head(d))) > MaxPagesPerShard
    <3> SUFFICES ASSUME Len(list) > 0
                 PROVE  EstimatedOf(Append(list[Len(list)], Head(d))) > MaxPagesPerShard
      OBVIOUS
    <3>1. n # 0
      BY <1>1 DEF PackLoop, Looped
    <3>2. c # <<>>
      BY <1>1, <3>1 DEF PackLoop, Looped
    <3>3. Head(d) = Head(c)
      BY <1>2, <1>3, <1>5, <3>2
    <3> QED
      BY <1>1, <3>3 DEF PackLoop, Looped
  <2>6. ASSUME NEW i \in 1..(n + 1) PROVE Covered(list, i) \/ i \in ToSet(d)
    <3>1. CASE i = s
      <4>1. Len(c) + 1 \in DOMAIN d
        BY <1>3, <1>5
      <4> QED
        BY <1>5, <3>1, <4>1 DEF ToSet
    <3>2. CASE i # s
      <4>1. i \in 1..n
        BY <1>1, <3>2
      <4>2. Covered(list, i) \/ i \in ToSet(c)
        BY <1>1, <4>1 DEF PackLoop, Looped
      <4>3. DOMAIN c = 1..Len(c) /\ DOMAIN d = 1..Len(d)
        BY <1>3, <1>5, SeqFacts
      <4>4. \A k \in DOMAIN c : k \in DOMAIN d /\ d[k] = c[k]
        BY <1>3, <1>5, <4>3
      <4> QED
        BY <4>2, <4>4 DEF ToSet
    <3> QED
      BY <3>1, <3>2
  <2>7. Packing(list)
    BY <1>1 DEF PackLoop, Looped
  <2>8. Looped(list, d, EstimatedOf(d), n + 1)
    BY <1>1, <1>6, <1>8, <1>9, <2>2, <2>3, <2>4, <2>5, <2>6, <2>7 DEF Looped
  <2> QED
    BY <1>1, <1>7, <2>1, <2>8 DEF PackLoop
<1>11. CASE Overfull(acc, s)
  <2>1. c # <<>> /\ to.shards = Append(list, c) /\ to.current = <<s>> /\ to.size = e
    BY <1>7, <1>11
  <2>2. PICK more : more = Append(list, c)
    OBVIOUS
  <2>3. /\ IsSeq(more) /\ Len(more) = Len(list) + 1 /\ more[Len(list) + 1] = c
        /\ \A j \in 1..Len(list) : more[j] = list[j]
    BY <1>3, <2>2, Appended
  <2>4. FlattenSeq(more) \o <<s>> = whole /\ IsSeq(FlattenSeq(more))
    <3>1. FlattenSeq(more) = FlattenSeq(list) \o c
      BY <1>3, <2>2, FlattenAppend
    <3>2. FlattenSeq(more) = [i \in 1..n |-> i]
      BY <1>6, <3>1
    <3>3. IsSeq(FlattenSeq(more))
      BY <3>2, UpToMore
    <3>4. FlattenSeq(more) \o <<s>> = Append(FlattenSeq(more), s)
      BY <3>3, ConcatOne
    <3> QED
      BY <1>1, <1>8, <3>2, <3>3, <3>4, UpToMore
  <2>5. Packing(more)
    <3>1. Packing(list) /\ (Len(c) > 1 => EstimatedOf(c) <= MaxPagesPerShard)
      BY <1>1, <1>2 DEF PackLoop, Looped
    <3>2. Len(list) > 0 => EstimatedOf(Append(list[Len(list)], Head(c))) > MaxPagesPerShard
      BY <1>1 DEF PackLoop, Looped
    <3> QED
      BY <1>2, <2>1, <2>2, <3>1, <3>2, PackingStep
  <2>6. EstimatedOf(<<s>>) = e
    BY <1>1, <1>2, EstimatedOne
  <2>7. EstimatedOf(Append(more[Len(more)], s)) > MaxPagesPerShard
    <3>1. acc.size + e > MaxPagesPerShard
      BY <1>1, <1>11 DEF Overfull
    <3>2. more[Len(more)] = c
      BY <2>3
    <3> QED
      BY <1>2, <1>4, <1>5, <3>1, <3>2
  <2>8. ASSUME NEW i \in 1..(n + 1) PROVE Covered(more, i) \/ i \in ToSet(<<s>>)
    <3>1. s \in ToSet(<<s>>)
      BY DEF ToSet
    <3>2. CASE i # s
      <4>1. i \in 1..n
        BY <1>1, <3>2
      <4>2. Covered(list, i) \/ i \in ToSet(c)
        BY <1>1, <4>1 DEF PackLoop, Looped
      <4>3. \A j \in 1..Len(list) : j \in 1..Len(more) /\ more[j] = list[j]
        BY <1>3, <2>3
      <4>4. Len(list) + 1 \in 1..Len(more)
        BY <1>3, <2>3
      <4> QED
        BY <2>3, <4>2, <4>3, <4>4 DEF Covered
    <3> QED
      BY <3>1, <3>2
  <2>9. /\ <<s>> # <<>> /\ Head(<<s>>) = s /\ ~(Len(<<s>>) > 1)
    OBVIOUS
  <2>10. Len(more) > 0 => EstimatedOf(Append(more[Len(more)], Head(<<s>>))) > MaxPagesPerShard
    BY <2>7, <2>9
  <2>11. Looped(more, <<s>>, e, n + 1)
    <3>1. n + 1 > 0 /\ n + 1 # 0
      OBVIOUS
    <3>2. FlattenSeq(more) \o <<s>> = [i \in 1..(n + 1) |-> i]
      BY <1>1, <1>8, <2>4
    <3> QED
      BY <2>4, <2>5, <2>6, <2>8, <2>9, <2>10, <3>1, <3>2, Zenon DEF Looped
  <2> QED
    BY <1>1, <1>7, <2>1, <2>2, <2>11 DEF PackLoop
<1> QED
  BY <1>10, <1>11

LEMMA PackLoopEnds ==
    ASSUME plan \in Plans
    PROVE  PackLoop(FoldLeftDomain(Pack, Start, plan), Len(plan))
<1>1. PICK n : n = Len(plan) /\ n \in Nat /\ DOMAIN plan = 1..n
  BY PlanFacts
<1>2. PICK f : /\ f[0] = Start
               /\ \A k \in 1..n : f[k] = Pack(f[k - 1], k)
               /\ FoldLeftDomain(Pack, Start, plan) = f[n]
  BY <1>1, PackTurns
<1>3. PICK S : S = {k \in Nat : k \in 0..n => PackLoop(f[k], k)}
  OBVIOUS
<1>4. 0 \in S
  <2>1. PICK acc : acc = f[0] /\ acc = [shards |-> <<>>, current |-> <<>>, size |-> 0]
    BY <1>2 DEF Start
  <2>2. acc \in Accs(DOMAIN plan) /\ acc.shards = <<>> /\ acc.current = <<>> /\ acc.size = 0
    BY <2>1 DEF Accs
  <2>3. EstimatedOf(<<>>) = 0
    <3>1. PICK none : none = [t \in DOMAIN <<>> |-> Estimate(<<>>[t])]
      OBVIOUS
    <3>2. DOMAIN none = 1..0 /\ none = [t \in 1..0 |-> none[t]]
      BY <3>1
    <3>3. Len(none) = 0
      BY <3>2, SeqMade
    <3>4. Numbers(none)
      BY <3>2, <3>3 DEF Numbers
    <3> QED
      BY <3>1, <3>3, <3>4, SumNothing DEF EstimatedOf
  <2>4. FlattenSeq(<<>>) = <<>> /\ <<>> \o <<>> = [s \in 1..0 |-> s]
    <3>1. FlattenSeq(<<>>) = <<>>
      BY DEF FlattenSeq
    <3>2. PICK none : none = [s \in 1..0 |-> s]
      OBVIOUS
    <3>3. DOMAIN none = 1..0 /\ none = [s \in 1..0 |-> none[s]]
      BY <3>2
    <3>4. IsSeq(none) /\ Len(none) = 0
      BY <3>3, SeqMade
    <3>5. none = <<>>
      BY <3>4, SeqFacts
    <3> QED
      BY <3>1, <3>2, <3>5
  <2>5. IsSeq(<<>>) /\ Len(<<>>) = 0
    BY DEF IsSeq
  <2>6. Packing(<<>>) /\ ~(0 > 0) /\ ~(0 > 1) /\ 1..0 = {}
    BY DEF Packing
  <2>7. Looped(<<>>, <<>>, 0, 0)
    BY <2>3, <2>4, <2>5, <2>6, Zenon DEF Looped
  <2>8. PackLoop(f[0], 0)
    BY <2>1, <2>2, <2>7 DEF PackLoop
  <2> QED
    BY <1>3, <2>8
<1>5. ASSUME NEW k \in Nat, k \in S PROVE k + 1 \in S
  <2> SUFFICES ASSUME k + 1 \in 0..n PROVE PackLoop(f[k + 1], k + 1)
    BY <1>3
  <2>1. k \in 0..n /\ k + 1 \in 1..n /\ k + 1 \in DOMAIN plan
    BY <1>1
  <2>2. PackLoop(f[k], k)
    BY <1>3, <1>5, <2>1
  <2>3. PICK m : m = k + 1 /\ m \in 1..n /\ m - 1 = k
    BY <2>1
  <2>4. f[m] = Pack(f[k], k + 1)
    BY <1>2, <2>3
  <2>5. PackLoop(f[m], k + 1)
    BY <2>1, <2>2, <2>4, PackLoopStep
  <2> QED
    BY <2>3, <2>5
<1>6. n \in S /\ n \in 0..n
  BY <1>1, <1>4, <1>5, SetInduction
<1> QED
  BY <1>1, <1>2, <1>3, <1>6

(* The shards that partition() returns.                                    *)
Partitioned(list) ==
    /\ list \in Seq(Seq(DOMAIN plan))
    /\ FlattenSeq(list) = [s \in DOMAIN plan |-> s]
    /\ Packing(list)
    /\ \A s \in DOMAIN plan : Covered(list, s)

LEMMA FlushEnds ==
    ASSUME plan \in Plans, NEW acc, PackLoop(acc, Len(plan))
    PROVE  Partitioned(Flush(acc).shards)
<1>1. PICK n, D : n = Len(plan) /\ n \in Nat /\ D = DOMAIN plan /\ D = 1..n
  BY PlanFacts
<1>2. PICK some, c, list : some = acc.shards /\ c = acc.current /\ list = Flush(acc).shards
  OBVIOUS
<1>3. some \in Seq(Seq(D)) /\ c \in Seq(D) /\ acc.size = EstimatedOf(c)
  BY <1>1, <1>2 DEF PackLoop, Looped, Accs
<1>4. Looped(some, c, acc.size, n)
  BY <1>1, <1>2 DEF PackLoop
<1>5. IsSeq(some) /\ Len(some) \in Nat /\ IsSeq(c)
  BY <1>3, SeqRange, Zenon
<1>6. CASE c = <<>>
  <2>1. list = some
    BY <1>2, <1>6 DEF Flush
  <2>2. IsSeq(FlattenSeq(some)) /\ FlattenSeq(some) \o <<>> = [s \in D |-> s]
    BY <1>1, <1>4, <1>6, Zenon DEF Looped
  <2>3. FlattenSeq(some) = [s \in D |-> s]
    <3>1. PICK x : x = FlattenSeq(some)
      OBVIOUS
    <3>2. x \o <<>> = x
      BY <2>2, <3>1, ConcatEmptySeq DEF IsSeq
    <3> QED
      BY <2>2, <3>1, <3>2
  <2>4. n = 0
    BY <1>1, <1>4, <1>6 DEF Looped
  <2> QED
    BY <1>1, <1>2, <1>3, <1>4, <2>1, <2>3, <2>4 DEF Partitioned, Looped
<1>7. CASE c # <<>>
  <2>1. list = Append(some, c)
    BY <1>2, <1>7 DEF Flush
  <2>2. /\ Len(list) = Len(some) + 1 /\ list[Len(some) + 1] = c
        /\ \A j \in 1..Len(some) : list[j] = some[j]
    BY <1>5, <2>1, Appended
  <2>3. list \in Seq(Seq(D))
    BY <1>3, <2>1
  <2>4. FlattenSeq(list) = FlattenSeq(some) \o c
    BY <1>5, <2>1, FlattenAppend
  <2>5. FlattenSeq(list) = [s \in D |-> s]
    <3>1. FlattenSeq(some) \o c = [s \in D |-> s]
      BY <1>1, <1>4, Zenon DEF Looped
    <3> QED
      BY <2>4, <3>1
  <2>6. Packing(list)
    <3>1. /\ Packing(some)
          /\ Len(c) > 1 => EstimatedOf(c) <= MaxPagesPerShard
          /\ Len(some) > 0 => EstimatedOf(Append(some[Len(some)], Head(c))) > MaxPagesPerShard
      BY <1>3, <1>4 DEF Looped
    <3> QED
      BY <1>3, <1>7, <2>1, <3>1, PackingStep
  <2>7. ASSUME NEW s \in D PROVE Covered(list, s)
    <3>1. Covered(some, s) \/ s \in ToSet(c)
      BY <1>1, <1>4 DEF Looped
    <3>2. \A j \in 1..Len(some) : j \in 1..Len(list) /\ list[j] = some[j]
      BY <1>5, <2>2
    <3>3. Len(some) + 1 \in 1..Len(list)
      BY <1>5, <2>2
    <3> QED
      BY <2>2, <3>1, <3>2, <3>3 DEF Covered
  <2> QED
    BY <1>1, <1>2, <2>3, <2>5, <2>6, <2>7 DEF Partitioned
<1> QED
  BY <1>6, <1>7

(* What a sequence has after another was put behind it.                    *)
LEMMA ConcatSet ==
    ASSUME NEW s, IsSeq(s), NEW t, IsSeq(t)
    PROVE  ToSet(s \o t) = ToSet(s) \cup ToSet(t)
<1>1. PICK both, m, n : both = s \o t /\ m = Len(s) /\ n = Len(t)
  OBVIOUS
<1>2. m \in Nat /\ n \in Nat /\ DOMAIN s = 1..m /\ DOMAIN t = 1..n
  BY <1>1, SeqFacts
<1>3. /\ IsSeq(both) /\ Len(both) = m + n
      /\ \A i \in 1..m : both[i] = s[i]
      /\ \A i \in 1..n : both[m + i] = t[i]
  BY <1>1, Concat
<1>4. DOMAIN both = 1..(m + n)
  BY <1>3, SeqFacts
<1>5. \A i \in 1..(m + n) : i \in 1..m \/ (i - m \in 1..n /\ i = m + (i - m))
  BY <1>2
<1>6. ASSUME NEW i \in 1..(m + n) PROVE both[i] \in ToSet(s) \cup ToSet(t)
  <2>1. CASE i \in 1..m
    BY <1>2, <1>3, <2>1 DEF ToSet
  <2>2. CASE i \notin 1..m
    <3>1. i - m \in 1..n /\ i = m + (i - m)
      BY <1>5, <2>2
    <3>2. both[i] = t[i - m]
      BY <1>3, <3>1
    <3> QED
      BY <1>2, <3>1, <3>2 DEF ToSet
  <2> QED
    BY <2>1, <2>2
<1>7. ASSUME NEW i \in 1..m PROVE s[i] \in ToSet(both)
  <2>1. i \in 1..(m + n) /\ both[i] = s[i]
    BY <1>2, <1>3
  <2> QED
    BY <1>4, <2>1 DEF ToSet
<1>8. ASSUME NEW i \in 1..n PROVE t[i] \in ToSet(both)
  <2>1. m + i \in 1..(m + n) /\ both[m + i] = t[i]
    BY <1>2, <1>3
  <2> QED
    BY <1>4, <2>1 DEF ToSet
<1>9. ToSet(both) = {both[i] : i \in 1..(m + n)}
  BY <1>4 DEF ToSet
<1>10. ToSet(s) = {s[i] : i \in 1..m} /\ ToSet(t) = {t[i] : i \in 1..n}
  BY <1>2 DEF ToSet
<1>11. ToSet(both) \subseteq ToSet(s) \cup ToSet(t)
  BY <1>6, <1>9
<1>12. ToSet(s) \subseteq ToSet(both) /\ ToSet(t) \subseteq ToSet(both)
  BY <1>7, <1>8, <1>10
<1> QED
  BY <1>1, <1>11, <1>12

-----------------------------------------------------------------------------
(* What pass 1 reports of a shard.                                         *)

(* Where each section of a shard starts, and where the last one ends.      *)
IsStarts(p, sections, b) ==
    /\ b[1] = 0
    /\ \A t \in 1..Len(sections) :
          /\ b[t] \in Nat /\ b[t + 1] \in Nat
          /\ p[sections[t]].pages \in Nat \ {0}
          /\ b[t + 1] = b[t] + p[sections[t]].pages

(* The anchors of section t are on its pages, and reported there.          *)
AnchorsMeasured(p, m, sections, b, t) ==
    \A i \in DOMAIN p[sections[t]].anchors :
        LET anchor == p[sections[t]].anchors[i]
        IN  /\ OffsetOf(anchor) \in 0..(p[sections[t]].pages - 1)
            /\ \E a \in ToSet(m.anchors) : /\ a.name = anchor.name
                                           /\ a.page = b[t] + OffsetOf(anchor)

MeasuredAs(p, m, sections, b) ==
    /\ IsMeasure(m)
    /\ IsStarts(p, sections, b)
    /\ m.pageCount = b[Len(sections) + 1]
    /\ \A t \in 1..Len(sections) : AnchorsMeasured(p, m, sections, b, t)

Measured(p, m, sections) == \E b : MeasuredAs(p, m, sections, b)

MeasureAccs(N) == [pageCount : Int, anchors : Seq([name : N, page : Int])]
MeasureStart == [pageCount |-> 0, anchors |-> <<>>]

AnchorNamesIn(D) == UNION {{plan[s].anchors[i].name : i \in DOMAIN plan[s].anchors} : s \in D}

LEMMA SectionFacts ==
    ASSUME plan \in Plans, NEW s \in DOMAIN plan
    PROVE  /\ plan[s].pages \in Int
           /\ IsSeq(plan[s].anchors) /\ DOMAIN plan[s].anchors = 1..Len(plan[s].anchors)
           /\ Len(plan[s].anchors) \in Nat
           /\ \A i \in DOMAIN plan[s].anchors : OffsetOf(plan[s].anchors[i]) \in Int
<1>1. IsSection(plan[s])
  BY PlanFacts
<1>2. PICK l : l = plan[s].anchors
  OBVIOUS
<1>3. plan[s].pages \in Int /\ l \in Seq(ToSet(l)) /\ \A a \in ToSet(l) : IsAnchor(a)
  BY <1>1, <1>2, Zenon DEF IsSection, IsTemplate, IsList
<1>4. IsSeq(l) /\ Len(l) \in Nat /\ DOMAIN l = 1..Len(l)
  BY <1>3, SeqRange, Zenon
<1>5. ASSUME NEW i \in DOMAIN l PROVE OffsetOf(l[i]) \in Int
  <2>1. PICK a : a = l[i]
    OBVIOUS
  <2>2. IsAnchor(a)
    BY <1>3, <2>1 DEF ToSet
  <2> QED
    BY <2>1, <2>2 DEF IsAnchor, OffsetOf
<1> QED
  BY <1>2, <1>3, <1>4, <1>5

(* One turn of measure().                                                  *)
LEMMA MeasureParts ==
    ASSUME plan \in Plans, NEW s \in DOMAIN plan,
           NEW acc \in MeasureAccs(AnchorNamesIn(DOMAIN plan))
    PROVE  /\ MeasureSection(acc, s) \in MeasureAccs(AnchorNamesIn(DOMAIN plan))
           /\ MeasureSection(acc, s).pageCount = acc.pageCount + plan[s].pages
           /\ ToSet(MeasureSection(acc, s).anchors)
                = ToSet(acc.anchors) \cup
                     {[name |-> plan[s].anchors[i].name,
                       page |-> acc.pageCount + OffsetOf(plan[s].anchors[i])] :
                           i \in DOMAIN plan[s].anchors}
<1>1. PICK l, n, N, X, c : /\ l = plan[s].anchors /\ n = Len(l) /\ c = acc.pageCount
                           /\ N = AnchorNamesIn(DOMAIN plan)
                           /\ X = [name : N, page : Int]
  OBVIOUS
<1>2. acc.pageCount \in Int /\ acc.anchors \in Seq(X)
  BY <1>1 DEF MeasureAccs
<1>3. n \in Nat /\ DOMAIN l = 1..n /\ plan[s].pages \in Int /\ \A i \in 1..n : OffsetOf(l[i]) \in Int
  BY <1>1, SectionFacts
<1>4. PICK a : a = [i \in DOMAIN l |-> [name |-> l[i].name, page |-> c + OffsetOf(l[i])]]
  OBVIOUS
<1>5. \A i \in 1..n : l[i].name \in N
  BY <1>1, <1>3 DEF AnchorNamesIn
<1>6. \A i \in 1..n : a[i] = [name |-> l[i].name, page |-> c + OffsetOf(l[i])]
  BY <1>3, <1>4
<1>7. ASSUME NEW i \in 1..n PROVE a[i] \in X
  <2>1. PICK name, page : name = l[i].name /\ page = c + OffsetOf(l[i])
    OBVIOUS
  <2>2. name \in N /\ page \in Int
    BY <1>1, <1>2, <1>3, <1>5, <2>1
  <2>3. a[i] = [name |-> name, page |-> page]
    BY <1>6, <2>1
  <2> QED
    BY <1>1, <2>2, <2>3
<1>8. a \in Seq(X)
  BY <1>3, <1>4, <1>7
<1>9. acc.anchors \o a \in Seq(X)
  BY <1>2, <1>8
<1>10. MeasureSection(acc, s) = [pageCount |-> c + plan[s].pages, anchors |-> acc.anchors \o a]
  BY <1>1, <1>4 DEF MeasureSection
<1>11. ToSet(acc.anchors \o a) = ToSet(acc.anchors) \cup ToSet(a)
  <2>1. IsSeq(acc.anchors) /\ IsSeq(a)
    BY <1>2, <1>8, SeqRange, Zenon
  <2> QED
    BY <2>1, ConcatSet
<1>12. ToSet(a) = {[name |-> l[i].name, page |-> c + OffsetOf(l[i])] : i \in DOMAIN l}
  BY <1>4 DEF ToSet
<1>13. MeasureSection(acc, s) \in MeasureAccs(N)
  BY <1>1, <1>2, <1>3, <1>9, <1>10 DEF MeasureAccs
<1> QED
  BY <1>1, <1>10, <1>11, <1>12, <1>13

IsMeasured(f, seq, base, S) ==
    f = [s \in SUBSET S |->
            IF s = {} THEN base ELSE MeasureSection(f[s \ {Max(s)}], seq[Max(s)])]

LEMMA MeasureIs ==
    ASSUME NEW seq, NEW base, base = [pageCount |-> 0, anchors |-> <<>>]
    PROVE  Measure(seq) = (CHOOSE f : IsMeasured(f, seq, base, DOMAIN seq))[DOMAIN seq]
  BY Zenon DEF Measure, FoldLeft, MapThenFoldSet, IsMeasured

LEMMA NoneBelow == 1..0 = {}
  OBVIOUS

LEMMA MeasureTurns ==
    ASSUME plan \in Plans, NEW sections \in Seq(DOMAIN plan), NEW n, n = Len(sections)
    PROVE  \E f : /\ f[0] = MeasureStart
                  /\ \A k \in 1..n : f[k] = MeasureSection(f[k - 1], sections[k])
                  /\ Measure(sections) = f[n]
<1>1. n \in Nat /\ DOMAIN sections = 1..n /\ \A k \in 1..n : sections[k] \in DOMAIN plan
  BY SeqRange, Zenon
<1>2. PICK A : A = MeasureAccs(AnchorNamesIn(DOMAIN plan))
  OBVIOUS
<1>3. MeasureStart \in A
  BY <1>2 DEF MeasureStart, MeasureAccs
<1>4. PICK h : h = [i \in 1..n |-> [acc \in A |-> MeasureSection(acc, sections[i])]]
  OBVIOUS
<1>5. \A i \in 1..n : h[i] \in [A -> A]
  <2> TAKE i \in 1..n
  <2>1. \A acc \in A : MeasureSection(acc, sections[i]) \in A
    BY <1>1, <1>2, MeasureParts
  <2> QED
    BY <1>4, <2>1
<1>6. PICK f : IsFold(f, h, MeasureStart, 1..n) /\ \A s \in SUBSET (1..n) : f[s] \in A
  BY <1>1, <1>3, <1>5, FoldExists
<1>8. ASSUME NEW s \in SUBSET (1..n)
      PROVE  f[s] = IF s = {} THEN MeasureStart
                    ELSE MeasureSection(f[s \ {Max(s)}], sections[Max(s)])
  <2>1. f[s] = IF s = {} THEN MeasureStart ELSE h[Max(s)][f[s \ {Max(s)}]]
    BY <1>6 DEF IsFold
  <2>2. PICK m, r : m = Max(s) /\ r = s \ {m}
    OBVIOUS
  <2>3. f[r] \in A
    BY <1>6, <2>2
  <2>4. s # {} => m \in 1..n
    BY <1>1, <2>2, MaxIn
  <2>6. s # {} => h[m][f[r]] = MeasureSection(f[r], sections[m])
    BY <1>4, <2>3, <2>4
  <2> QED
    BY <2>1, <2>2, <2>6
<1>9. f = [s \in SUBSET (1..n) |-> f[s]]
  BY <1>6 DEF IsFold
<1>10. IsMeasured(f, sections, MeasureStart, 1..n)
  BY <1>8, <1>9 DEF IsMeasured
<1>11. PICK g : g = CHOOSE c : IsMeasured(c, sections, MeasureStart, 1..n)
  OBVIOUS
<1>12. IsMeasured(g, sections, MeasureStart, 1..n)
  BY <1>10, <1>11
<1>13. Measure(sections) = g[1..n]
  BY <1>1, <1>11, MeasureIs DEF MeasureStart
<1>14. PICK p : p = [k \in 0..n |-> g[1..k]]
  OBVIOUS
<1>15. p[0] = MeasureStart
  <2>1. PICK e : e = 1..0 /\ e = {}
    BY NoneBelow
  <2>2. g[e] = MeasureStart
    BY <1>12, <2>1 DEF IsMeasured
  <2>3. 0 \in 0..n
    BY <1>1
  <2> QED
    BY <1>14, <2>1, <2>2, <2>3
<1>16. ASSUME NEW k \in 1..n PROVE p[k] = MeasureSection(p[k - 1], sections[k])
  <2>1. PICK s, r : s = 1..k /\ r = 1..(k - 1)
    OBVIOUS
  <2>2. s \in SUBSET (1..n) /\ s # {} /\ Max(s) = k /\ s \ {k} = r
    <3>1. k \in Nat /\ k # 0
      OBVIOUS
    <3>2. Max(1..k) = k /\ (1..k) \ {k} = 1..(k - 1)
      BY <3>1, MaxUpTo
    <3>3. s \in SUBSET (1..n) /\ k \in s
      BY <1>1, <2>1, <3>1
    <3> QED
      BY <2>1, <3>2, <3>3
  <2>3. g[s] = MeasureSection(g[r], sections[k])
    BY <1>12, <2>2 DEF IsMeasured
  <2>5. p[k] = g[s] /\ p[k - 1] = g[r]
    <3>1. k \in 0..n /\ k - 1 \in 0..n
      BY <1>1
    <3> QED
      BY <1>14, <2>1, <3>1
  <2> QED
    BY <2>3, <2>5
<1>17. p[n] = g[1..n]
  BY <1>1, <1>14
<1> QED
  BY <1>13, <1>15, <1>16, <1>17

(* The sections of a shard that measure() lets through.                    *)
LEMMA Unthrown ==
    ASSUME plan \in Plans, NEW sections, ~MeasureThrows(sections),
           NEW s \in ToSet(sections), s \in DOMAIN plan
    PROVE  /\ plan[s].pages \in Nat \ {0}
           /\ \A i \in DOMAIN plan[s].anchors :
                 OffsetOf(plan[s].anchors[i]) \in 0..(plan[s].pages - 1)
<1>1. ~CountInvalid(plan[s].pages) /\ ~AnchorOutside(s)
  BY DEF MeasureThrows
<1>2. plan[s].pages \in Int
  BY SectionFacts
<1> QED
  BY <1>1, <1>2 DEF CountInvalid, AnchorOutside

(* What an anchor of section s becomes when its shard has `before` pages.  *)
Reported(anchors, before, s) ==
    \A i \in DOMAIN plan[s].anchors :
        \E a \in anchors : /\ a.name = plan[s].anchors[i].name
                           /\ a.page = before + OffsetOf(plan[s].anchors[i])

MeasureLoop(m, k) ==
    /\ m \in MeasureAccs(AnchorNamesIn(DOMAIN plan))
    /\ m.pageCount \in Nat
    /\ k > 0 => m.pageCount # 0
    /\ \A a \in ToSet(m.anchors) : a.page \in 0..(m.pageCount - 1)

LEMMA MeasureLoopStep ==
    ASSUME plan \in Plans, NEW sections, ~MeasureThrows(sections),
           NEW s \in ToSet(sections), s \in DOMAIN plan,
           NEW k \in Nat, NEW m, MeasureLoop(m, k)
    PROVE  /\ MeasureLoop(MeasureSection(m, s), k + 1)
           /\ MeasureSection(m, s).pageCount = m.pageCount + plan[s].pages
           /\ ToSet(m.anchors) \subseteq ToSet(MeasureSection(m, s).anchors)
           /\ Reported(ToSet(MeasureSection(m, s).anchors), m.pageCount, s)
<1>1. PICK to, c, l, pages : /\ to = MeasureSection(m, s) /\ c = m.pageCount
                             /\ l = plan[s].anchors /\ pages = plan[s].pages
  OBVIOUS
<1>2. /\ m \in MeasureAccs(AnchorNamesIn(DOMAIN plan)) /\ c \in Nat
      /\ \A a \in ToSet(m.anchors) : a.page \in 0..(c - 1)
  BY <1>1 DEF MeasureLoop
<1>3. PICK new : new = {[name |-> l[i].name, page |-> c + OffsetOf(l[i])] : i \in DOMAIN l}
  OBVIOUS
<1>4. /\ to \in MeasureAccs(AnchorNamesIn(DOMAIN plan))
      /\ to.pageCount = c + pages
      /\ ToSet(to.anchors) = ToSet(m.anchors) \cup new
  BY <1>1, <1>2, <1>3, MeasureParts
<1>5. pages \in Nat \ {0} /\ \A i \in DOMAIN l : OffsetOf(l[i]) \in 0..(pages - 1)
  BY <1>1, Unthrown
<1>6. to.pageCount \in Nat /\ to.pageCount # 0
  BY <1>2, <1>4, <1>5
<1>7. ASSUME NEW a \in ToSet(to.anchors) PROVE a.page \in 0..(to.pageCount - 1)
  <2>1. CASE a \in ToSet(m.anchors)
    BY <1>2, <1>4, <1>5, <2>1
  <2>2. CASE a \in new
    <3>1. PICK i \in DOMAIN l : a = [name |-> l[i].name, page |-> c + OffsetOf(l[i])]
      BY <1>3, <2>2
    <3>2. PICK o : o = OffsetOf(l[i]) /\ o \in 0..(pages - 1) /\ a.page = c + o
      BY <1>5, <3>1
    <3> QED
      BY <1>2, <1>4, <1>5, <3>2
  <2> QED
    BY <1>4, <2>1, <2>2
<1>8. MeasureLoop(to, k + 1)
  BY <1>4, <1>6, <1>7 DEF MeasureLoop
<1>9. Reported(ToSet(to.anchors), c, s)
  <2>1. ASSUME NEW i \in DOMAIN l
        PROVE  \E a \in ToSet(to.anchors) : a.name = l[i].name /\ a.page = c + OffsetOf(l[i])
    <3>1. PICK a : a = [name |-> l[i].name, page |-> c + OffsetOf(l[i])]
      OBVIOUS
    <3>2. a \in new /\ a.name = l[i].name /\ a.page = c + OffsetOf(l[i])
      BY <1>3, <3>1
    <3> QED
      BY <1>4, <3>2
  <2> QED
    BY <1>1, <2>1 DEF Reported
<1> QED
  BY <1>1, <1>4, <1>8, <1>9

LEMMA MeasureRight ==
    ASSUME plan \in Plans, NEW sections \in Seq(DOMAIN plan), sections # <<>>,
           ~MeasureThrows(sections)
    PROVE  Measured(plan, Measure(sections), sections)
<1>1. PICK n : n = Len(sections) /\ n \in Nat /\ n > 0 /\ DOMAIN sections = 1..n
  BY SeqRange
<1>2. \A t \in 1..n : sections[t] \in ToSet(sections) /\ sections[t] \in DOMAIN plan
  BY <1>1 DEF ToSet
<1>3. PICK f : /\ f[0] = MeasureStart
               /\ \A k \in 1..n : f[k] = MeasureSection(f[k - 1], sections[k])
               /\ Measure(sections) = f[n]
  BY <1>1, MeasureTurns
<1>4. PICK S : S = {k \in Nat : k \in 0..n =>
                       /\ MeasureLoop(f[k], k)
                       /\ \A t \in 1..k : Reported(ToSet(f[k].anchors), f[t - 1].pageCount,
                                                   sections[t])}
  OBVIOUS
<1>5. 0 \in S
  <2>1. /\ MeasureStart \in MeasureAccs(AnchorNamesIn(DOMAIN plan))
        /\ MeasureStart.pageCount = 0 /\ MeasureStart.anchors = <<>>
    BY DEF MeasureStart, MeasureAccs
  <2>2. ToSet(<<>>) = {} /\ 1..0 = {}
    BY DEF ToSet
  <2>3. MeasureLoop(f[0], 0)
    BY <1>3, <2>1, <2>2 DEF MeasureLoop
  <2> QED
    BY <1>4, <2>2, <2>3
<1>6. ASSUME NEW k \in Nat, k \in 0..n, k + 1 \in 0..n, MeasureLoop(f[k], k)
      PROVE  /\ MeasureLoop(f[k + 1], k + 1)
             /\ f[k + 1].pageCount = f[k].pageCount + plan[sections[k + 1]].pages
             /\ ToSet(f[k].anchors) \subseteq ToSet(f[k + 1].anchors)
             /\ Reported(ToSet(f[k + 1].anchors), f[k].pageCount, sections[k + 1])
  <2>1. PICK m, s : m = k + 1 /\ m \in 1..n /\ m - 1 = k /\ s = sections[m]
    BY <1>1, <1>6
  <2>2. f[m] = MeasureSection(f[k], s)
    BY <1>3, <2>1
  <2>3. s \in ToSet(sections) /\ s \in DOMAIN plan
    BY <1>2, <2>1
  <2>4. PICK acc : acc = f[k] /\ MeasureLoop(acc, k)
    BY <1>6
  <2>5. /\ MeasureLoop(MeasureSection(acc, s), k + 1)
        /\ MeasureSection(acc, s).pageCount = acc.pageCount + plan[s].pages
        /\ ToSet(acc.anchors) \subseteq ToSet(MeasureSection(acc, s).anchors)
        /\ Reported(ToSet(MeasureSection(acc, s).anchors), acc.pageCount, s)
    BY <2>3, <2>4, MeasureLoopStep
  <2> QED
    BY <2>1, <2>2, <2>4, <2>5
<1>7. ASSUME NEW k \in Nat, k \in S PROVE k + 1 \in S
  <2> SUFFICES ASSUME k + 1 \in 0..n
               PROVE  /\ MeasureLoop(f[k + 1], k + 1)
                      /\ \A t \in 1..(k + 1) :
                            Reported(ToSet(f[k + 1].anchors), f[t - 1].pageCount, sections[t])
    BY <1>4
  <2>1. k \in 0..n
    BY <1>1
  <2>2. /\ MeasureLoop(f[k], k)
        /\ \A t \in 1..k : Reported(ToSet(f[k].anchors), f[t - 1].pageCount, sections[t])
    BY <1>4, <1>7, <2>1
  <2>3. /\ MeasureLoop(f[k + 1], k + 1)
        /\ ToSet(f[k].anchors) \subseteq ToSet(f[k + 1].anchors)
        /\ Reported(ToSet(f[k + 1].anchors), f[k].pageCount, sections[k + 1])
    BY <1>6, <2>1, <2>2
  <2>4. ASSUME NEW t \in 1..(k + 1)
        PROVE  Reported(ToSet(f[k + 1].anchors), f[t - 1].pageCount, sections[t])
    <3>1. CASE t = k + 1
      <4>1. t - 1 = k
        BY <3>1
      <4> QED
        BY <2>3, <3>1, <4>1
    <3>2. CASE t # k + 1
      <4>1. Reported(ToSet(f[k].anchors), f[t - 1].pageCount, sections[t])
        BY <2>2, <3>2
      <4> QED
        BY <2>3, <4>1 DEF Reported
    <3> QED
      BY <3>1, <3>2
  <2> QED
    BY <2>3, <2>4
<1>8. \A k \in 0..n :
         /\ MeasureLoop(f[k], k)
         /\ \A t \in 1..k : Reported(ToSet(f[k].anchors), f[t - 1].pageCount, sections[t])
  <2>1. \A k \in Nat : k \in S
    BY <1>5, <1>7, SetInduction
  <2>2. \A k \in 0..n : k \in Nat
    BY <1>1
  <2> QED
    BY <1>4, <2>1, <2>2
<1>9. PICK b : b = [t \in 1..(n + 1) |-> f[t - 1].pageCount]
  OBVIOUS
<1>10. PICK m : m = Measure(sections) /\ m = f[n]
  BY <1>3
<1>11. IsStarts(plan, sections, b) /\ m.pageCount = b[n + 1]
  <2>1. b[1] = 0 /\ b[n + 1] = f[n].pageCount
    <3>1. 1 \in 1..(n + 1) /\ 1 - 1 = 0 /\ n + 1 \in 1..(n + 1) /\ (n + 1) - 1 = n
      BY <1>1
    <3>2. f[0].pageCount = 0
      BY <1>3 DEF MeasureStart
    <3> QED
      BY <1>9, <3>1, <3>2
  <2>2. ASSUME NEW t \in 1..n
        PROVE  /\ b[t] \in Nat /\ b[t + 1] \in Nat
               /\ plan[sections[t]].pages \in Nat \ {0}
               /\ b[t + 1] = b[t] + plan[sections[t]].pages
    <3>1. PICK k : k = t - 1 /\ k \in Nat /\ k \in 0..n /\ k + 1 \in 0..n /\ k + 1 = t
      BY <1>1
    <3>2. b[t] = f[k].pageCount /\ b[t + 1] = f[t].pageCount
      <4>1. t \in 1..(n + 1) /\ t + 1 \in 1..(n + 1) /\ (t + 1) - 1 = t
        BY <1>1
      <4> QED
        BY <1>9, <3>1, <4>1
    <3>3. MeasureLoop(f[k], k) /\ MeasureLoop(f[t], t)
      BY <1>1, <1>8, <3>1
    <3>4. f[t].pageCount = f[k].pageCount + plan[sections[t]].pages
      BY <1>6, <3>1, <3>3
    <3>5. plan[sections[t]].pages \in Nat \ {0}
      BY <1>2, Unthrown
    <3> QED
      BY <3>2, <3>3, <3>4, <3>5 DEF MeasureLoop
  <2> QED
    BY <1>1, <1>10, <2>1, <2>2 DEF IsStarts
<1>12. ASSUME NEW t \in 1..n PROVE AnchorsMeasured(plan, m, sections, b, t)
  <2>1. Reported(ToSet(m.anchors), f[t - 1].pageCount, sections[t])
    BY <1>1, <1>8, <1>10
  <2>2. b[t] = f[t - 1].pageCount
    BY <1>1, <1>9
  <2>3. \A i \in DOMAIN plan[sections[t]].anchors :
           OffsetOf(plan[sections[t]].anchors[i]) \in 0..(plan[sections[t]].pages - 1)
    BY <1>2, Unthrown
  <2> QED
    BY <2>1, <2>2, <2>3 DEF AnchorsMeasured, Reported
<1>13. IsMeasure(m)
  <2>1. MeasureLoop(m, n)
    BY <1>1, <1>8, <1>10
  <2> QED
    BY <1>1, <2>1 DEF MeasureLoop, IsMeasure
<1> QED
  BY <1>1, <1>10, <1>11, <1>12, <1>13 DEF Measured, MeasuredAs

(* The pages in front of a shard: the sum of what pass 1 counted.          *)
Counts(m, k) == [j \in 1..k |-> m[j].pageCount]
Before(m, j) == PagesOf(SubSeq(m, 1, j - 1))
Counted(m) == IsSeq(m) /\ \A j \in 1..Len(m) : m[j].pageCount \in Nat

LEMMA CountsAre ==
    ASSUME NEW m, Counted(m), NEW k \in 0..Len(m)
    PROVE  /\ Numbers(Counts(m, k)) /\ Len(Counts(m, k)) = k
           /\ PagesOf(SubSeq(m, 1, k)) = SumOf(Counts(m, k))
<1>1. Len(m) \in Nat /\ DOMAIN m = 1..Len(m) /\ k \in Nat /\ m \in Seq(ToSet(m))
  BY SeqFacts DEF Counted
<1>2. PICK c : c = Counts(m, k)
  OBVIOUS
<1>3. DOMAIN c = 1..k /\ c = [j \in 1..k |-> c[j]] /\ \A j \in 1..k : c[j] = m[j].pageCount
  BY <1>2 DEF Counts
<1>4. Len(c) = k
  BY <1>1, <1>3, SeqMade
<1>5. \A j \in 1..k : c[j] \in Int
  BY <1>1, <1>3 DEF Counted
<1>6. PICK s : s = SubSeq(m, 1, k)
  OBVIOUS
<1>7. DOMAIN s = 1..k /\ \A j \in 1..k : s[j] = m[j]
  BY <1>1, <1>6, SubSeqProperties
<1>8. [j \in DOMAIN s |-> s[j].pageCount] = c
  BY <1>2, <1>7 DEF Counts
<1> QED
  BY <1>1, <1>2, <1>3, <1>4, <1>5, <1>6, <1>8 DEF Numbers, PagesOf

LEMMA OffsetFacts ==
    ASSUME NEW m, Counted(m)
    PROVE  /\ Before(m, 1) = 0
           /\ \A j \in 1..Len(m) : /\ Before(m, j) \in Nat /\ Before(m, j + 1) \in Nat
                                   /\ Before(m, j + 1) = Before(m, j) + m[j].pageCount
           /\ PagesOf(m) = Before(m, Len(m) + 1)
           /\ PagesOf(m) \in Nat
<1>1. PICK n : n = Len(m) /\ n \in Nat /\ DOMAIN m = 1..n
  BY SeqFacts DEF Counted
<1>2. \A k \in 0..n : Before(m, k + 1) = SumOf(Counts(m, k))
  <2> SUFFICES ASSUME NEW k \in 0..n PROVE Before(m, k + 1) = SumOf(Counts(m, k))
    OBVIOUS
  <2>1. (k + 1) - 1 = k
    OBVIOUS
  <2> QED
    BY <1>1, <2>1, CountsAre DEF Before
<1>3. Before(m, 1) = 0
  <2>1. 0 \in 0..n /\ 0 + 1 = 1
    BY <1>1
  <2>2. Numbers(Counts(m, 0)) /\ Len(Counts(m, 0)) = 0
    BY <1>1, <2>1, CountsAre
  <2>3. SumOf(Counts(m, 0)) = 0
    BY <2>2, SumNothing
  <2> QED
    BY <1>2, <2>1, <2>3
<1>4. ASSUME NEW k \in Nat, k + 1 \in 1..n
      PROVE  Before(m, (k + 1) + 1) = Before(m, k + 1) + m[k + 1].pageCount
  <2>1. PICK l : l = k + 1 /\ l \in 0..n /\ k \in 0..n /\ l \in 1..n
    BY <1>1, <1>4
  <2>2. PICK c, d : c = Counts(m, k) /\ d = Counts(m, l)
    OBVIOUS
  <2>3. Numbers(c) /\ Len(c) = k /\ Numbers(d) /\ Len(d) = l
    BY <1>1, <2>1, <2>2, CountsAre
  <2>4. d[l] = m[l].pageCount /\ \A i \in 1..k : d[i] = c[i]
    BY <2>1, <2>2 DEF Counts
  <2>5. SumOf(d) = SumOf(c) + d[l]
    BY <2>1, <2>3, <2>4, SumStep
  <2> QED
    BY <1>2, <2>1, <2>2, <2>4, <2>5
<1>5. PICK S : S = {k \in Nat : k \in 0..n => Before(m, k + 1) \in Nat}
  OBVIOUS
<1>6. 0 \in S
  BY <1>3, <1>5
<1>7. ASSUME NEW k \in Nat, k \in S PROVE k + 1 \in S
  <2> SUFFICES ASSUME k + 1 \in 0..n PROVE Before(m, (k + 1) + 1) \in Nat
    BY <1>5
  <2>1. k \in 0..n /\ k + 1 \in 1..n
    BY <1>1
  <2>2. Before(m, k + 1) \in Nat
    BY <1>5, <1>7, <2>1
  <2>3. m[k + 1].pageCount \in Nat
    BY <1>1, <2>1 DEF Counted
  <2> QED
    BY <1>4, <2>1, <2>2, <2>3
<1>8. \A k \in 0..n : Before(m, k + 1) \in Nat
  <2>1. \A k \in Nat : k \in S
    BY <1>6, <1>7, SetInduction
  <2> QED
    BY <1>1, <1>5, <2>1
<1>9. ASSUME NEW j \in 1..n
      PROVE  /\ Before(m, j) \in Nat /\ Before(m, j + 1) \in Nat
             /\ Before(m, j + 1) = Before(m, j) + m[j].pageCount
  <2>1. PICK k : k = j - 1 /\ k \in Nat /\ k \in 0..n /\ k + 1 = j /\ j \in 0..n
    BY <1>1
  <2> QED
    BY <1>4, <1>8, <2>1
<1>10. PagesOf(m) = Before(m, n + 1)
  <2>1. [j \in DOMAIN m |-> m[j].pageCount] = Counts(m, n)
    BY <1>1 DEF Counts
  <2>2. n \in 0..n
    BY <1>1
  <2> QED
    BY <1>2, <2>1, <2>2 DEF PagesOf
<1>11. Before(m, n + 1) \in Nat
  BY <1>1, <1>8
<1> QED
  BY <1>1, <1>3, <1>9, <1>10, <1>11

-----------------------------------------------------------------------------
(* The inductive invariant: what a state is made of, and how far its parts *)
(* are when generate() is where it is.                                     *)

HandlesIn(sh) == [key : Images, owner : (DOMAIN sh) \X (1..Attempts)]

Recorded(p, sh) ==
    [section : 0..Len(p), index : Nat, number : Nat, total : Nat,
     images : SUBSET HandlesIn(sh)]

Renders(p, sh) ==
    [state : {"none", "between", "drawing", "closing"}, turn : Nat, pages : Nat,
     index : Nat, inShard : Nat, doc : Seq(Recorded(p, sh)),
     entries : SUBSET HandlesIn(sh), opened : Seq(HandlesIn(sh)), extra : 0..MaxExtra]

FilesIn(p, sh) ==
    [state : {"absent", "torn", "whole"}, doc : Seq(Recorded(p, sh)),
     opened : Seq(HandlesIn(sh))]

Early == {"planning", "measuring"}
Late == {"rendering", "rendered", "assembling", "shipped"}

PlanInv ==
    /\ plan \in Plans
    /\ pc \in Early \cup Late \cup {"failed"}
    /\ shards \in Seq(Seq(DOMAIN plan))
    /\ pc = "planning" => shards = <<>>
    /\ pc # "planning" => Partitioned(shards)
    /\ pc \notin {"planning", "failed"} => shards # <<>>

MeasuresOf(p, sh, m) ==
    /\ IsSeq(m) /\ Len(m) = Len(sh)
    /\ \A j \in 1..Len(sh) : Measured(p, m[j], sh[j])

MeasureInv ==
    /\ measures = <<>> \/ MeasuresOf(plan, shards, measures)
    /\ pc \in Early => measures = <<>>
    /\ pc \in Late => MeasuresOf(plan, shards, measures)

ShardInv ==
    /\ shard \in 1..(Len(shards) + 1)
    /\ attempt \in 0..Attempts
    /\ pc \in {"rendering", "assembling"} => shard <= Len(shards)
    /\ pc \in Early => shard = 1 /\ attempt = 0 /\ files = <<>> /\ document = <<>>
    /\ pc \in Late => Len(files) = Len(shards)
    /\ files \in Seq(FilesIn(plan, shards))
    /\ document \in Seq(Recorded(plan, shards))

RenderFits(r) ==
    /\ r \in Renders(plan, shards)
    /\ r.index <= r.pages
    /\ r.state = "drawing" => r.index < r.pages /\ r.doc # <<>>
    /\ r.turn = 0 => r.pages = 0
    /\ r.state = "none" => r.doc = <<>> /\ r.opened = <<>>
    /\ r.state # "none" => /\ pc = "rendering"
                           /\ attempt \in 1..Attempts
                           /\ r.turn \in 0..Len(shards[shard])

RenderInv == RenderFits(render) /\ (pc \in Early => render = NoRender)

StateInv == PlanInv /\ MeasureInv /\ ShardInv /\ RenderInv

(* No render, whatever entries the cache of the last one is left with.     *)
LEMMA Unrendered ==
    ASSUME NEW entries \in SUBSET HandlesIn(shards)
    PROVE  RenderFits([NoRender EXCEPT !.entries = entries])
<1>1. PICK R, H : R = Recorded(plan, shards) /\ H = HandlesIn(shards)
  OBVIOUS
<1>2. PICK r : r = [NoRender EXCEPT !.entries = entries]
  OBVIOUS
<1>3. /\ r.state = "none" /\ r.turn = 0 /\ r.pages = 0 /\ r.index = 0 /\ r.inShard = 0
      /\ r.doc = <<>> /\ r.entries = entries /\ r.opened = <<>> /\ r.extra = 0
  BY <1>2 DEF NoRender
<1>4. r = [state |-> "none", turn |-> 0, pages |-> 0, index |-> 0, inShard |-> 0,
           doc |-> <<>>, entries |-> entries, opened |-> <<>>, extra |-> 0]
  BY <1>2 DEF NoRender
<1>5. <<>> \in Seq(R) /\ <<>> \in Seq(H) /\ 0 \in 0..MaxExtra /\ entries \in SUBSET H
  BY <1>1, ExtraNatural
<1>6. r \in [state : {"none", "between", "drawing", "closing"}, turn : Nat, pages : Nat,
             index : Nat, inShard : Nat, doc : Seq(R), entries : SUBSET H,
             opened : Seq(H), extra : 0..MaxExtra]
  BY <1>4, <1>5
<1> QED
  BY <1>1, <1>2, <1>3, <1>6 DEF RenderFits, Renders

LEMMA StateInit == Init => StateInv
<1> SUFFICES ASSUME Init PROVE StateInv
  OBVIOUS
<1> USE DEF Init
<1>1. <<>> \in Seq(Seq(DOMAIN plan)) /\ <<>> \in Seq(FilesIn(plan, shards))
      /\ <<>> \in Seq(Recorded(plan, shards)) /\ Len(<<>>) = 0
  OBVIOUS
<1>2. PlanInv
  BY <1>1 DEF PlanInv, Early
<1>3. MeasureInv
  BY DEF MeasureInv, Late
<1>4. ShardInv
  BY <1>1, AttemptsPositive DEF ShardInv, Early, Late
<1>5. RenderInv
  <2>1. [NoRender EXCEPT !.entries = {}] = NoRender
    BY SMTT(30) DEF NoRender
  <2>2. RenderFits([NoRender EXCEPT !.entries = {}])
    BY Unrendered
  <2> QED
    BY <2>1, <2>2 DEF RenderInv
<1> QED
  BY <1>2, <1>3, <1>4, <1>5 DEF StateInv

LEMMA PartitionedSame ==
    ASSUME NEW list, plan' = plan, shards' = list, Partitioned(list) PROVE Partitioned(shards)'
<1>1. plan' = plan /\ shards' = list
  OBVIOUS
<1>2. ASSUME NEW s PROVE Estimate(s)' = Estimate(s)
  BY <1>1 DEF Estimate
<1>3. ASSUME NEW c PROVE EstimatedOf(c)' = EstimatedOf(c)
  <2>1. PICK a, b : /\ a = [t \in DOMAIN c |-> Estimate(c[t])]
                    /\ b = [t \in DOMAIN c |-> Estimate(c[t])']
    OBVIOUS
  <2>2. a = b
    BY <1>2, <2>1
  <2>3. EstimatedOf(c) = SumOf(a) /\ EstimatedOf(c)' = SumOf(b)
    BY <2>1 DEF EstimatedOf
  <2> QED
    BY <2>2, <2>3
<1>4. Packing(list) => Packing(shards)'
  BY <1>1, <1>3 DEF Packing
<1> QED
  BY <1>1, <1>4 DEF Partitioned, Covered

(* A draw that works on the document of the render that runs.              *)
LEMMA RunningStep ==
    ASSUME StateInv, UNCHANGED Running, RenderFits(render'), pc \notin Early
    PROVE  StateInv'
<1>1. /\ plan' = plan /\ shards' = shards /\ pc' = pc /\ measures' = measures
      /\ shard' = shard /\ attempt' = attempt /\ files' = files /\ document' = document
  BY DEF Running
<1>2. PlanInv'
  <2>1. PICK list : list = shards
    OBVIOUS
  <2>2. Partitioned(list) => Partitioned(shards)'
    BY <1>1, <2>1, PartitionedSame
  <2> QED
    BY <1>1, <2>1, <2>2 DEF StateInv, PlanInv
<1>3. MeasureInv'
  BY <1>1 DEF StateInv, MeasureInv
<1>4. ShardInv'
  BY <1>1 DEF StateInv, ShardInv
<1>5. RenderInv'
  BY <1>1 DEF RenderInv, RenderFits
<1> QED
  BY <1>2, <1>3, <1>4, <1>5 DEF StateInv

(* What stays when neither the plan nor its partition is touched.          *)
LEMMA PlanStep ==
    ASSUME StateInv, pc # "planning", UNCHANGED <<plan, shards>>,
           pc' \in Late \cup {"failed"}, shards # <<>> \/ pc' = "failed"
    PROVE  PlanInv'
<1>1. plan' = plan /\ shards' = shards
  OBVIOUS
<1>2. PICK list : list = shards /\ Partitioned(list)
  BY DEF StateInv, PlanInv
<1>3. Partitioned(shards)'
  BY <1>1, <1>2, PartitionedSame
<1> QED
  BY <1>1, <1>3 DEF StateInv, PlanInv, Late

LEMMA PartitionStep == ASSUME StateInv, Partition PROVE StateInv'
<1>1. /\ plan' = plan /\ measures' = measures /\ shard' = shard /\ attempt' = attempt
      /\ render' = render /\ files' = files /\ document' = document
  BY DEF Partition
<1>2. plan \in Plans /\ pc = "planning" /\ shards = <<>>
  BY DEF StateInv, PlanInv, Partition
<1>3. PICK list : list = shards' /\ Partitioned(list)
  <2>1. PICK acc : acc = FoldLeftDomain(Pack, Start, plan)
    OBVIOUS
  <2>2. shards' = Flush(acc).shards
    BY <2>1 DEF Partition, Start
  <2>3. PackLoop(acc, Len(plan))
    BY <1>2, <2>1, PackLoopEnds
  <2> QED
    BY <1>2, <2>2, <2>3, FlushEnds
<1>4. Partitioned(shards)'
  BY <1>1, <1>3, PartitionedSame
<1>5. pc' = "failed" \/ (pc' = "measuring" /\ list # <<>>)
  BY <1>3 DEF Partition, Fail
<1>6. list \in Seq(Seq(DOMAIN plan)) /\ Len(list) \in Nat
  BY <1>3 DEF Partitioned
<1>7. PlanInv'
  BY <1>1, <1>2, <1>3, <1>4, <1>5, <1>6 DEF PlanInv, Early
<1>8. measures = <<>>
  BY <1>2 DEF StateInv, MeasureInv, Early
<1>9. MeasureInv'
  BY <1>1, <1>5, <1>8 DEF MeasureInv, Late
<1>10. shard = 1 /\ attempt = 0 /\ files = <<>> /\ document = <<>> /\ render = NoRender
  BY <1>2 DEF StateInv, ShardInv, RenderInv, Early
<1>11. ShardInv'
  <2>1. <<>> \in Seq(FilesIn(plan, list)) /\ <<>> \in Seq(Recorded(plan, list))
    OBVIOUS
  <2> QED
    BY <1>1, <1>3, <1>5, <1>6, <1>10, <2>1, AttemptsPositive DEF ShardInv, Early, Late
<1>12. RenderInv'
  <2>1. NoRender \in Renders(plan, list)
    <3>1. PICK R, H : R = Recorded(plan, list) /\ H = HandlesIn(list)
      OBVIOUS
    <3>2. <<>> \in Seq(R) /\ <<>> \in Seq(H) /\ 0 \in 0..MaxExtra
      BY ExtraNatural
    <3> QED
      BY <3>1, <3>2 DEF NoRender, Renders
  <2>2. /\ NoRender.state = "none" /\ NoRender.turn = 0 /\ NoRender.pages = 0
        /\ NoRender.index = 0 /\ NoRender.doc = <<>> /\ NoRender.opened = <<>>
    BY DEF NoRender
  <2> QED
    BY <1>1, <1>3, <1>10, <2>1, <2>2 DEF RenderInv, RenderFits
<1> QED
  BY <1>7, <1>9, <1>11, <1>12 DEF StateInv

LEMMA MeasurePassStep == ASSUME StateInv, MeasurePass PROVE StateInv'
<1>1. /\ plan' = plan /\ shards' = shards /\ shard' = shard /\ attempt' = attempt
      /\ render' = render /\ document' = document
  BY DEF MeasurePass
<1>2. plan \in Plans /\ pc = "measuring" /\ shards # <<>> /\ Partitioned(shards)
  BY DEF StateInv, PlanInv, MeasurePass
<1>3. PICK n : /\ n = Len(shards) /\ n \in Nat /\ n > 0 /\ DOMAIN shards = 1..n
               /\ \A j \in 1..n : shards[j] \in Seq(DOMAIN plan) /\ shards[j] # <<>>
  <2>1. shards \in Seq(Seq(DOMAIN plan)) /\ \A j \in 1..Len(shards) : shards[j] # <<>>
    BY <1>2 DEF Partitioned, Packing
  <2>2. PICK D : D = Seq(DOMAIN plan)
    OBVIOUS
  <2>3. /\ Len(shards) \in Nat /\ DOMAIN shards = 1..Len(shards)
        /\ \A j \in 1..Len(shards) : shards[j] \in D
    BY <2>1, <2>2, SeqRange
  <2>4. Len(shards) # 0
    BY <1>2, <2>1
  <2> QED
    BY <2>1, <2>2, <2>3, <2>4
<1>4. /\ shard = 1 /\ attempt = 0 /\ files = <<>> /\ document = <<>>
      /\ render = NoRender /\ measures = <<>>
  BY <1>2 DEF StateInv, ShardInv, RenderInv, MeasureInv, Early
<1>5. \/ pc' = "failed" /\ measures' = measures /\ files' = files
      \/ /\ pc' \in {"failed", "rendering"}
         /\ \A j \in DOMAIN shards : ~MeasureThrows(shards[j])
         /\ measures' = [j \in DOMAIN shards |-> Measure(shards[j])]
         /\ files' = [j \in DOMAIN shards |-> NoFile]
  BY DEF MeasurePass, Fail
<1>6. PlanInv'
  BY <1>1, <1>2, <1>5, PlanStep DEF Late
<1>7. /\ \/ measures' = <<>> /\ pc' = "failed"
         \/ MeasuresOf(plan, shards, measures')
      /\ \/ files' = <<>> /\ pc' = "failed"
         \/ files' \in Seq(FilesIn(plan, shards)) /\ Len(files') = Len(shards)
  <2>1. CASE pc' = "failed" /\ measures' = measures /\ files' = files
    BY <1>4, <2>1
  <2>2. CASE /\ \A j \in DOMAIN shards : ~MeasureThrows(shards[j])
             /\ measures' = [j \in DOMAIN shards |-> Measure(shards[j])]
             /\ files' = [j \in DOMAIN shards |-> NoFile]
    <3>1. PICK m : m = measures'
      OBVIOUS
    <3>2. DOMAIN m = 1..n /\ m = [j \in 1..n |-> m[j]]
      BY <1>3, <2>2, <3>1
    <3>3. IsSeq(m) /\ Len(m) = n
      BY <1>3, <3>2, SeqMade
    <3>4. ASSUME NEW j \in 1..n PROVE Measured(plan, m[j], shards[j])
      <4>1. m[j] = Measure(shards[j]) /\ ~MeasureThrows(shards[j])
        BY <1>3, <2>2, <3>1
      <4>2. shards[j] \in Seq(DOMAIN plan) /\ shards[j] # <<>>
        BY <1>3
      <4> QED
        BY <1>2, <4>1, <4>2, MeasureRight
    <3>5. NoFile \in FilesIn(plan, shards)
      <4>1. PICK R, H : R = Recorded(plan, shards) /\ H = HandlesIn(shards)
        OBVIOUS
      <4>2. <<>> \in Seq(R) /\ <<>> \in Seq(H)
        OBVIOUS
      <4> QED
        BY <4>1, <4>2 DEF NoFile, FilesIn
    <3>6. files' \in [1..n -> FilesIn(plan, shards)]
      BY <1>3, <2>2, <3>5
    <3>7. files' \in Seq(FilesIn(plan, shards)) /\ Len(files') = n
      BY <1>3, <3>6
    <3> QED
      BY <1>3, <3>1, <3>3, <3>4, <3>7 DEF MeasuresOf
  <2> QED
    BY <1>5, <2>1, <2>2
<1>8. MeasureInv'
  BY <1>1, <1>5, <1>7 DEF MeasureInv, Early, Late
<1>9. ShardInv'
  <2>1. files' \in Seq(FilesIn(plan, shards)) /\ document' \in Seq(Recorded(plan, shards))
    <3>1. PICK F, R : F = FilesIn(plan, shards) /\ R = Recorded(plan, shards)
      OBVIOUS
    <3>2. files' = <<>> \/ files' \in Seq(F)
      BY <1>7, <3>1
    <3>3. document' = <<>>
      BY <1>1, <1>4
    <3>4. <<>> \in Seq(F) /\ <<>> \in Seq(R)
      OBVIOUS
    <3>5. files' \in Seq(F) /\ document' \in Seq(R)
      BY <3>2, <3>3, <3>4
    <3> QED
      BY <3>1, <3>5
  <2>2. pc' \notin Early /\ (pc' \in Late => Len(files') = Len(shards))
    BY <1>5, <1>7 DEF Early, Late
  <2>3. shard' \in 1..(Len(shards) + 1) /\ shard' <= Len(shards) /\ attempt' \in 0..Attempts
    BY <1>1, <1>3, <1>4, AttemptsPositive
  <2> QED
    BY <1>1, <2>1, <2>2, <2>3 DEF ShardInv
<1>10. RenderInv'
  <2>1. NoRender.state = "none"
    BY DEF NoRender
  <2> QED
    BY <1>1, <1>4, <1>5, <2>1 DEF StateInv, RenderInv, RenderFits, Early
<1> QED
  BY <1>6, <1>8, <1>9, <1>10 DEF StateInv

(* The fields of a render.                                                 *)
LEMMA RenderFields ==
    ASSUME NEW p, NEW sh, NEW r \in Renders(p, sh)
    PROVE  /\ r.state \in {"none", "between", "drawing", "closing"}
           /\ r.turn \in Nat /\ r.pages \in Nat /\ r.index \in Nat /\ r.inShard \in Nat
           /\ r.doc \in Seq(Recorded(p, sh)) /\ r.entries \in SUBSET HandlesIn(sh)
           /\ r.opened \in Seq(HandlesIn(sh)) /\ r.extra \in 0..MaxExtra
<1>1. PICK R, H : R = Seq(Recorded(p, sh)) /\ H = HandlesIn(sh)
  OBVIOUS
<1> QED
  BY <1>1 DEF Renders

(* A record of these fields is a render when each of them is right.        *)
IsRender(r) ==
    /\ DOMAIN r = {"state", "turn", "pages", "index", "inShard", "doc", "entries",
                   "opened", "extra"}
    /\ r = [x \in DOMAIN r |-> r[x]]

LEMMA RenderMade ==
    ASSUME NEW p, NEW sh, NEW r, IsRender(r),
           r.state \in {"none", "between", "drawing", "closing"},
           r.turn \in Nat, r.pages \in Nat, r.index \in Nat, r.inShard \in Nat,
           r.doc \in Seq(Recorded(p, sh)), r.entries \in SUBSET HandlesIn(sh),
           r.opened \in Seq(HandlesIn(sh)), r.extra \in 0..MaxExtra
    PROVE  r \in Renders(p, sh)
<1>1. PICK R, H, O : R = Seq(Recorded(p, sh)) /\ H = SUBSET HandlesIn(sh) /\ O = Seq(HandlesIn(sh))
  OBVIOUS
<1>2. r = [state |-> r.state, turn |-> r.turn, pages |-> r.pages, index |-> r.index,
           inShard |-> r.inShard, doc |-> r.doc, entries |-> r.entries,
           opened |-> r.opened, extra |-> r.extra]
  BY DEF IsRender
<1> QED
  BY <1>1, <1>2 DEF Renders

LEMMA RenderIs == ASSUME NEW p, NEW sh, NEW r \in Renders(p, sh) PROVE IsRender(r)
<1>1. PICK R, H, O : R = Seq(Recorded(p, sh)) /\ H = SUBSET HandlesIn(sh) /\ O = Seq(HandlesIn(sh))
  OBVIOUS
<1> QED
  BY <1>1 DEF Renders, IsRender

LEMMA RenderingFacts ==
    ASSUME StateInv, pc = "rendering"
    PROVE  /\ plan \in Plans /\ shards # <<>> /\ MeasuresOf(plan, shards, measures)
           /\ Len(shards) \in Nat /\ DOMAIN shards = 1..Len(shards)
           /\ shard \in 1..Len(shards) /\ shards[shard] \in Seq(DOMAIN plan)
           /\ Len(files) = Len(shards) /\ DOMAIN files = 1..Len(shards)
           /\ RenderFits(render) /\ render \in Renders(plan, shards)
<1>1. /\ plan \in Plans /\ shards # <<>> /\ shards \in Seq(Seq(DOMAIN plan))
      /\ MeasuresOf(plan, shards, measures) /\ Len(files) = Len(shards)
      /\ files \in Seq(FilesIn(plan, shards)) /\ shard <= Len(shards)
      /\ shard \in 1..(Len(shards) + 1) /\ RenderFits(render)
  BY DEF StateInv, PlanInv, MeasureInv, ShardInv, RenderInv, Late
<1>2. PICK D, F : D = Seq(DOMAIN plan) /\ F = FilesIn(plan, shards)
  OBVIOUS
<1>3. Len(shards) \in Nat /\ DOMAIN shards = 1..Len(shards) /\ \A j \in 1..Len(shards) : shards[j] \in D
  BY <1>1, <1>2, SeqRange
<1>4. DOMAIN files = 1..Len(files)
  BY <1>1, <1>2, SeqRange
<1> QED
  BY <1>1, <1>2, <1>3, <1>4 DEF RenderFits

(* render() rejects: what it leaves fits wherever generate() goes on.      *)
LEMMA LeaveStep ==
    ASSUME StateInv, Leave, UNCHANGED <<plan, shards>>, pc' \notin Early
    PROVE  RenderInv' /\ render'.state = "none"
<1>1. PICK entries : entries = render.entries /\ entries \in SUBSET HandlesIn(shards)
  BY RenderFields DEF StateInv, RenderInv, RenderFits
<1>2. PICK r : r = [NoRender EXCEPT !.entries = entries] /\ RenderFits(r)
  BY <1>1, Unrendered
<1>3. render' = r /\ r.state = "none"
  BY <1>1, <1>2 DEF Leave, NoRender
<1> QED
  BY <1>2, <1>3 DEF RenderInv, RenderFits

LEMMA ThrowStep == ASSUME StateInv, pc = "rendering", Throw PROVE StateInv'
<1>1. /\ plan' = plan /\ shards' = shards /\ measures' = measures /\ shard' = shard
      /\ attempt' = attempt /\ files' = files /\ document' = document
      /\ pc' \in {"rendering", "failed"} /\ Leave
  BY DEF Throw, Fail
<1>2. shards # <<>>
  BY DEF StateInv, PlanInv
<1>3. PlanInv'
  BY <1>1, <1>2, PlanStep DEF Late
<1>4. MeasureInv'
  BY <1>1 DEF StateInv, MeasureInv, Early, Late
<1>5. ShardInv'
  BY <1>1 DEF StateInv, ShardInv, Early, Late
<1>6. RenderInv'
  BY <1>1, LeaveStep DEF Early
<1> QED
  BY <1>3, <1>4, <1>5, <1>6 DEF StateInv

LEMMA StartRenderStep == ASSUME StateInv, StartRender PROVE StateInv'
<1>1. /\ plan' = plan /\ shards' = shards /\ measures' = measures /\ shard' = shard
      /\ pc' = pc /\ pc = "rendering" /\ attempt' = attempt + 1 /\ attempt < Attempts
      /\ render' = NewRender /\ document' = document
      /\ files' = [files EXCEPT ![shard] = [NoFile EXCEPT !.state = "torn"]]
  BY DEF StartRender
<1>2. /\ shards # <<>> /\ shard \in 1..Len(shards) /\ Len(shards) \in Nat
      /\ shards[shard] \in Seq(DOMAIN plan)
  BY <1>1, RenderingFacts
<1>3. PlanInv'
  BY <1>1, <1>2, PlanStep DEF Late
<1>4. MeasureInv'
  BY <1>1 DEF StateInv, MeasureInv
<1>5. attempt' \in 1..Attempts
  BY <1>1, AttemptsPositive DEF StateInv, ShardInv
<1>6. files' \in Seq(FilesIn(plan, shards)) /\ Len(files') = Len(files)
  <2>1. PICK F, j, file : F = FilesIn(plan, shards) /\ j = shard /\ file = [NoFile EXCEPT !.state = "torn"]
    OBVIOUS
  <2>2. files \in Seq(F) /\ j \in DOMAIN files
    BY <1>1, <1>2, <2>1, RenderingFacts DEF StateInv, ShardInv
  <2>3. file \in F
    <3>1. PICK R, H : R = Seq(Recorded(plan, shards)) /\ H = Seq(HandlesIn(shards))
      OBVIOUS
    <3>2. <<>> \in R /\ <<>> \in H
      BY <3>1
    <3> QED
      BY <2>1, <3>1, <3>2 DEF NoFile, FilesIn
  <2>4. files' = [files EXCEPT ![j] = file]
    BY <1>1, <2>1
  <2> QED
    BY <2>1, <2>2, <2>3, <2>4
<1>7. ShardInv'
  BY <1>1, <1>2, <1>5, <1>6 DEF StateInv, ShardInv, Early
<1>8. RenderInv'
  <2>1. Blank \in Recorded(plan, shards)
    <3>1. Len(plan) \in Nat
      BY <1>1, RenderingFacts, PlanFacts
    <3>2. PICK H : H = HandlesIn(shards)
      OBVIOUS
    <3> QED
      BY <3>1, <3>2 DEF Blank, Recorded
  <2>2. PICK R, H : R = Recorded(plan, shards) /\ H = HandlesIn(shards)
    OBVIOUS
  <2>3. <<Blank>> \in Seq(R) /\ <<>> \in Seq(H) /\ 0 \in 0..MaxExtra /\ {} \in SUBSET H
    BY <2>1, <2>2, ExtraNatural
  <2>4. PICK n : n = NoRender
    OBVIOUS
  <2>5. /\ IsRender(n) /\ n.turn = 0 /\ n.pages = 0 /\ n.index = 0 /\ n.inShard = 0
        /\ n.entries = {} /\ n.opened = <<>> /\ n.extra = 0
    BY <2>4 DEF NoRender, IsRender
  <2>6. PICK doc, r : doc = <<Blank>> /\ r = [n EXCEPT !.state = "between", !.doc = doc]
    OBVIOUS
  <2>7. 0 \in 0..Len(shards[shard])
    BY <1>2
  <2>8. /\ IsRender(r) /\ r.state = "between" /\ r.turn = 0 /\ r.pages = 0 /\ r.index = 0
        /\ r.inShard = 0 /\ r.doc = doc /\ r.entries = {} /\ r.opened = <<>> /\ r.extra = 0
    BY <2>5, <2>6 DEF IsRender
  <2>9. r \in Renders(plan, shards)
    <3>1. /\ r.doc \in Seq(Recorded(plan, shards)) /\ r.entries \in SUBSET HandlesIn(shards)
          /\ r.opened \in Seq(HandlesIn(shards)) /\ r.extra \in 0..MaxExtra
      BY <2>2, <2>3, <2>6, <2>8
    <3>2. /\ IsRender(r) /\ r.state \in {"none", "between", "drawing", "closing"}
          /\ r.turn \in Nat /\ r.pages \in Nat /\ r.index \in Nat /\ r.inShard \in Nat
      BY <2>8
    <3> QED
      BY <3>1, <3>2, RenderMade
  <2>10. render' = r
    BY <1>1, <2>4, <2>6 DEF NewRender
  <2> QED
    BY <1>1, <1>5, <2>7, <2>8, <2>9, <2>10 DEF RenderInv, RenderFits, Early
<1> QED
  BY <1>3, <1>4, <1>7, <1>8 DEF StateInv

(* What a page keeps when an image is put on it.                           *)
LEMMA OnPageFacts ==
    ASSUME NEW p, NEW sh, NEW doc \in Seq(Recorded(p, sh)), doc # <<>>,
           NEW handle \in HandlesIn(sh), NEW to, to = OnPage(doc, handle)
    PROVE  /\ to \in Seq(Recorded(p, sh)) /\ to # <<>> /\ Len(to) = Len(doc)
           /\ \A q \in 1..Len(doc) : /\ to[q].section = doc[q].section
                                     /\ to[q].index = doc[q].index
                                     /\ to[q].number = doc[q].number
                                     /\ to[q].total = doc[q].total
                                     /\ to[q].images \subseteq doc[q].images \cup {handle}
<1>1. PICK n, R, H : /\ n = Len(doc) /\ R = Recorded(p, sh) /\ H = HandlesIn(sh)
                     /\ n \in Nat /\ n # 0 /\ DOMAIN doc = 1..n
  BY SeqRange
<1>2. \A q \in 1..n : doc[q] \in R
  BY <1>1, SeqRange
<1>3. PICK page : page = [doc[n] EXCEPT !.images = @ \cup {handle}]
  OBVIOUS
<1>4. to = [doc EXCEPT ![n] = page]
  BY <1>1, <1>3 DEF OnPage
<1>5. PICK old : old = doc[n] /\ old \in R
  BY <1>1, <1>2
<1>6. /\ page \in R /\ page.section = old.section /\ page.index = old.index
      /\ page.number = old.number /\ page.total = old.total
      /\ page.images = old.images \cup {handle}
  BY <1>1, <1>3, <1>5 DEF Recorded
<1>7. /\ to \in Seq(R) /\ Len(to) = n /\ to[n] = page
      /\ \A q \in 1..n : q # n => to[q] = doc[q]
  BY <1>1, <1>4, <1>6
<1>8. to # <<>>
  BY <1>1, <1>7
<1> QED
  BY <1>1, <1>5, <1>6, <1>7, <1>8

LEMMA NextSectionStep == ASSUME StateInv, NextSection PROVE StateInv'
<1>1. PICK pages \in plan[shards[shard][render.turn + 1]].answers :
         \/ CountInvalid(pages) /\ Throw
         \/ /\ ~CountInvalid(pages)
            /\ render' = [render EXCEPT !.turn = @ + 1, !.pages = pages, !.index = 0]
            /\ UNCHANGED Running
  BY DEF NextSection
<1>2. render.state = "between" /\ render.turn < Len(shards[shard]) /\ pc = "rendering"
  BY DEF NextSection, StateInv, RenderInv, RenderFits
<1>3. CASE CountInvalid(pages) /\ Throw
  BY <1>2, <1>3, ThrowStep
<1>4. CASE /\ ~CountInvalid(pages)
           /\ render' = [render EXCEPT !.turn = @ + 1, !.pages = pages, !.index = 0]
           /\ UNCHANGED Running
  <2>1. PICK r, to : r = render /\ to = [r EXCEPT !.turn = @ + 1, !.pages = pages, !.index = 0]
    OBVIOUS
  <2>2. r \in Renders(plan, shards) /\ IsRender(r) /\ RenderFits(r)
    BY <1>2, <2>1, RenderingFacts, RenderIs
  <2>3. r.turn + 1 \in 1..Len(shards[shard])
    <3>1. PICK D : D = DOMAIN plan
      OBVIOUS
    <3>2. Len(shards[shard]) \in Nat /\ r.turn \in Nat /\ r.turn < Len(shards[shard])
      BY <1>2, <2>1, <2>2, <3>1, RenderingFacts, RenderFields, SeqRange
    <3> QED
      BY <3>2
  <2>4. pages \in Nat /\ pages > 0
    <3>1. PICK D, s : D = DOMAIN plan /\ s = shards[shard] /\ s \in Seq(D)
      BY <1>2, RenderingFacts
    <3>2. s[r.turn + 1] \in D
      BY <2>3, <3>1, SeqRange
    <3>3. IsSection(plan[s[r.turn + 1]])
      BY <1>2, <3>1, <3>2, RenderingFacts, PlanFacts
    <3>4. pages \in Int
      BY <1>1, <2>1, <3>1, <3>3 DEF IsSection, IsTemplate
    <3> QED
      BY <1>4, <3>4 DEF CountInvalid
  <2>5. /\ IsRender(to) /\ to.state = r.state /\ to.turn = r.turn + 1 /\ to.pages = pages
        /\ to.index = 0 /\ to.inShard = r.inShard /\ to.doc = r.doc /\ to.entries = r.entries
        /\ to.opened = r.opened /\ to.extra = r.extra
    BY <2>1, <2>2 DEF IsRender
  <2>6. to \in Renders(plan, shards)
    <3>1. /\ to.doc \in Seq(Recorded(plan, shards)) /\ to.entries \in SUBSET HandlesIn(shards)
          /\ to.opened \in Seq(HandlesIn(shards)) /\ to.extra \in 0..MaxExtra
      BY <2>2, <2>5, RenderFields
    <3>2. /\ to.state \in {"none", "between", "drawing", "closing"}
          /\ to.turn \in Nat /\ to.pages \in Nat /\ to.index \in Nat /\ to.inShard \in Nat
      BY <2>2, <2>4, <2>5, RenderFields
    <3> QED
      BY <2>5, <3>1, <3>2, RenderMade
  <2>7. to.turn \in 0..Len(shards[shard]) /\ to.turn # 0
    BY <2>2, <2>3, <2>5, RenderFields
  <2>8. RenderFits(to)
    BY <1>2, <2>1, <2>2, <2>4, <2>5, <2>6, <2>7 DEF RenderFits
  <2>9. render' = to
    BY <1>4, <2>1
  <2> QED
    BY <1>2, <1>4, <2>8, <2>9, RunningStep DEF Early
<1> QED
  BY <1>1, <1>3, <1>4

(* The numbers that a page prints are numbers.                             *)
LEMMA PageNumbers ==
    ASSUME StateInv, pc = "rendering"
    PROVE  /\ Counted(measures)
           /\ PageOffset(shard) = Before(measures, shard)
           /\ PageOffset(shard) \in Nat /\ TotalPages \in Nat
<1>1. MeasuresOf(plan, shards, measures) /\ shard \in 1..Len(shards)
  BY RenderingFacts
<1>2. Counted(measures)
  BY <1>1 DEF MeasuresOf, Measured, MeasuredAs, IsMeasure, Counted
<1>3. Before(measures, shard) \in Nat /\ PagesOf(measures) \in Nat
  BY <1>1, <1>2, OffsetFacts DEF MeasuresOf
<1> QED
  BY <1>2, <1>3 DEF PageOffset, TotalPages, Before

(* A render that draws is at a page of a section.                          *)
LEMMA DrawingFacts ==
    ASSUME StateInv, render.state # "none", render.index < render.pages
    PROVE  /\ pc = "rendering" /\ attempt \in 1..Attempts
           /\ render.turn \in 1..Len(shards[shard])
           /\ shards[shard][render.turn] \in DOMAIN plan
<1>1. RenderFits(render)
  BY DEF StateInv, RenderInv
<1>2. /\ pc = "rendering" /\ attempt \in 1..Attempts
      /\ render.turn \in 0..Len(shards[shard]) /\ render.turn # 0
  BY <1>1, RenderFields DEF RenderFits
<1>3. PICK D, s : D = DOMAIN plan /\ s = shards[shard] /\ s \in Seq(D)
  BY <1>2, RenderingFacts
<1>4. render.turn \in 1..Len(s)
  BY <1>2, <1>3, SeqRange
<1> QED
  BY <1>2, <1>3, <1>4, SeqRange

LEMMA StartPageStep == ASSUME StateInv, StartPage PROVE StateInv'
<1>1. /\ render.state = "between" /\ render.index < render.pages /\ UNCHANGED Running
  BY DEF StartPage
<1>2. /\ pc = "rendering" /\ attempt \in 1..Attempts
      /\ render.turn \in 1..Len(shards[shard])
      /\ shards[shard][render.turn] \in DOMAIN plan
  BY <1>1, DrawingFacts
<1>3. PICK r, R : /\ r = render /\ r \in Renders(plan, shards) /\ IsRender(r) /\ RenderFits(r)
                  /\ R = Recorded(plan, shards)
  BY <1>2, RenderingFacts, RenderIs
<1>4. PICK page : page = [section |-> shards[shard][render.turn], index |-> render.index,
                          number |-> PageOffset(shard) + render.inShard + 1,
                          total |-> TotalPages, images |-> {}]
  OBVIOUS
<1>5. page \in R
  <2>1. r.index \in Nat /\ r.inShard \in Nat
    BY <1>3, RenderFields
  <2>2. PageOffset(shard) \in Nat /\ TotalPages \in Nat
    BY <1>2, PageNumbers
  <2>3. PICK offset, total : offset = PageOffset(shard) /\ total = TotalPages
    OBVIOUS
  <2>4. shards[shard][render.turn] \in 0..Len(plan)
    BY <1>2, RenderingFacts, PlanFacts
  <2>5. offset + r.inShard + 1 \in Nat
    BY <2>1, <2>2, <2>3
  <2>6. PICK number, s, H : /\ number = offset + r.inShard + 1 /\ s = shards[shard][render.turn]
                            /\ H = HandlesIn(shards)
    OBVIOUS
  <2> QED
    BY <1>3, <1>4, <2>1, <2>2, <2>3, <2>4, <2>5, <2>6 DEF Recorded
<1>6. PICK doc, to : /\ doc = Append(IF PageStarted THEN r.doc ELSE <<>>, page)
                     /\ to = [r EXCEPT !.state = "drawing", !.doc = doc]
  OBVIOUS
<1>7. doc \in Seq(R) /\ doc # <<>>
  <2>1. PICK base : base = IF PageStarted THEN r.doc ELSE <<>>
    OBVIOUS
  <2>2. base \in Seq(R)
    BY <1>3, <2>1, RenderFields
  <2> QED
    BY <1>5, <1>6, <2>1, <2>2
<1>8. render' = to
  <2>1. r.doc = render.doc
    BY <1>3
  <2> QED
    BY <1>3, <1>4, <1>6 DEF StartPage
<1>9. /\ IsRender(to) /\ to.state = "drawing" /\ to.turn = r.turn /\ to.pages = r.pages
      /\ to.index = r.index /\ to.inShard = r.inShard /\ to.doc = doc /\ to.entries = r.entries
      /\ to.opened = r.opened /\ to.extra = r.extra
  BY <1>3, <1>6 DEF IsRender
<1>10. to \in Renders(plan, shards)
  <2>1. /\ to.doc \in Seq(Recorded(plan, shards)) /\ to.entries \in SUBSET HandlesIn(shards)
        /\ to.opened \in Seq(HandlesIn(shards)) /\ to.extra \in 0..MaxExtra
    BY <1>3, <1>7, <1>9, RenderFields
  <2>2. /\ to.state \in {"none", "between", "drawing", "closing"}
        /\ to.turn \in Nat /\ to.pages \in Nat /\ to.index \in Nat /\ to.inShard \in Nat
    BY <1>3, <1>9, RenderFields
  <2> QED
    BY <1>9, <2>1, <2>2, RenderMade
<1>11. RenderFits(to)
  BY <1>1, <1>2, <1>3, <1>7, <1>9, <1>10 DEF RenderFits
<1> QED
  BY <1>1, <1>2, <1>8, <1>11, RunningStep DEF Early

(* The draw puts an image on its page, from the cache or new.              *)
LEMMA ShowStep ==
    ASSUME StateInv, render.state = "drawing", NEW handle \in HandlesIn(shards),
           NEW entries \in SUBSET HandlesIn(shards), NEW opened \in Seq(HandlesIn(shards)),
           UNCHANGED Running, IsRender(render'),
           render'.state = render.state, render'.turn = render.turn,
           render'.pages = render.pages, render'.index = render.index,
           render'.inShard = render.inShard, render'.extra = render.extra,
           render'.doc = OnPage(render.doc, handle), render'.entries = entries,
           render'.opened = opened
    PROVE  StateInv'
<1>1. PICK r, to : r = render /\ to = render'
  OBVIOUS
<1>2. r \in Renders(plan, shards) /\ RenderFits(r) /\ r.doc # <<>>
  BY <1>1 DEF StateInv, RenderInv, RenderFits
<1>3. PICK doc : doc = OnPage(r.doc, handle) /\ to.doc = doc
  BY <1>1
<1>4. doc \in Seq(Recorded(plan, shards)) /\ doc # <<>>
  <2>1. r.doc \in Seq(Recorded(plan, shards))
    BY <1>2, RenderFields
  <2>2. PICK old : old = r.doc
    OBVIOUS
  <2> QED
    BY <1>2, <1>3, <2>1, <2>2, OnPageFacts
<1>5. /\ IsRender(to) /\ to.state = r.state /\ to.turn = r.turn /\ to.pages = r.pages
      /\ to.index = r.index /\ to.inShard = r.inShard /\ to.extra = r.extra
      /\ to.entries = entries /\ to.opened = opened
  BY <1>1
<1>6. to \in Renders(plan, shards)
  <2>1. /\ to.doc \in Seq(Recorded(plan, shards)) /\ to.entries \in SUBSET HandlesIn(shards)
        /\ to.opened \in Seq(HandlesIn(shards)) /\ to.extra \in 0..MaxExtra
    BY <1>2, <1>3, <1>4, <1>5, RenderFields
  <2>2. /\ to.state \in {"none", "between", "drawing", "closing"}
        /\ to.turn \in Nat /\ to.pages \in Nat /\ to.index \in Nat /\ to.inShard \in Nat
    BY <1>2, <1>5, RenderFields
  <2> QED
    BY <1>5, <2>1, <2>2, RenderMade
<1>7. RenderFits(to)
  BY <1>1, <1>2, <1>3, <1>4, <1>5, <1>6 DEF RenderFits
<1>8. pc \notin Early
  BY <1>1, <1>2 DEF RenderFits, Early
<1> QED
  BY <1>1, <1>7, <1>8, RunningStep

LEMMA GetHitStep == ASSUME StateInv, NEW key \in Images, GetHit(key) PROVE StateInv'
<1>1. render.state = "drawing" /\ UNCHANGED Running
  BY DEF GetHit, MayShow
<1>2. PICK handle \in render.entries :
         render' = [render EXCEPT !.doc = OnPage(render.doc, handle)]
  BY DEF GetHit
<1>3. PICK r : r = render /\ r \in Renders(plan, shards) /\ IsRender(r)
  BY RenderIs DEF StateInv, RenderInv, RenderFits
<1>4. PICK entries, opened, doc :
         /\ entries = r.entries /\ opened = r.opened /\ doc = OnPage(r.doc, handle)
         /\ entries \in SUBSET HandlesIn(shards) /\ opened \in Seq(HandlesIn(shards))
  BY <1>3, RenderFields
<1>5. PICK to : to = [r EXCEPT !.doc = doc] /\ render' = to
  BY <1>2, <1>3, <1>4
<1>6. /\ IsRender(to) /\ to.state = r.state /\ to.turn = r.turn /\ to.pages = r.pages
      /\ to.index = r.index /\ to.inShard = r.inShard /\ to.extra = r.extra
      /\ to.entries = entries /\ to.opened = opened /\ to.doc = doc
  BY <1>3, <1>4, <1>5 DEF IsRender
<1>7. handle \in HandlesIn(shards)
  BY <1>2, <1>3, <1>4
<1>8. /\ IsRender(render') /\ render'.state = render.state /\ render'.turn = render.turn
      /\ render'.pages = render.pages /\ render'.index = render.index
      /\ render'.inShard = render.inShard /\ render'.extra = render.extra
      /\ render'.doc = OnPage(render.doc, handle) /\ render'.entries = entries
      /\ render'.opened = opened
  BY <1>3, <1>4, <1>5, <1>6
<1> QED
  BY <1>1, <1>4, <1>7, <1>8, ShowStep

LEMMA GetMissStep == ASSUME StateInv, NEW key \in Images, GetMiss(key) PROVE StateInv'
<1>1. render.state = "drawing" /\ UNCHANGED Running
  BY DEF GetMiss, MayShow
<1>2. PICK r : r = render /\ r \in Renders(plan, shards) /\ IsRender(r) /\ RenderFits(r)
  BY RenderIs DEF StateInv, RenderInv, RenderFits
<1>3. PICK handle : handle = [key |-> key, owner |-> <<shard, attempt>>]
  OBVIOUS
<1>4. handle \in HandlesIn(shards)
  <2>1. pc = "rendering" /\ attempt \in 1..Attempts
    BY <1>1, <1>2 DEF RenderFits
  <2>2. shard \in DOMAIN shards
    BY <2>1, RenderingFacts
  <2> QED
    BY <1>3, <2>1, <2>2 DEF HandlesIn
<1>5. PICK H, old : H = HandlesIn(shards) /\ old = r.opened /\ old \in Seq(H) /\ r.entries \in SUBSET H
  BY <1>2, RenderFields
<1>6. PICK entries, opened, doc :
         /\ entries = r.entries \cup {handle} /\ opened = Append(old, handle)
         /\ doc = OnPage(r.doc, handle)
  OBVIOUS
<1>7. entries \in SUBSET HandlesIn(shards) /\ opened \in Seq(HandlesIn(shards))
  BY <1>4, <1>5, <1>6
<1>8. PICK to : /\ to = [r EXCEPT !.entries = entries, !.opened = opened, !.doc = doc]
                /\ render' = to
  BY <1>2, <1>3, <1>5, <1>6 DEF GetMiss
<1>9. /\ IsRender(to) /\ to.state = r.state /\ to.turn = r.turn /\ to.pages = r.pages
      /\ to.index = r.index /\ to.inShard = r.inShard /\ to.extra = r.extra
      /\ to.entries = entries /\ to.opened = opened /\ to.doc = doc
  BY <1>2, <1>8 DEF IsRender
<1>10. /\ IsRender(render') /\ render'.state = render.state /\ render'.turn = render.turn
       /\ render'.pages = render.pages /\ render'.index = render.index
       /\ render'.inShard = render.inShard /\ render'.extra = render.extra
       /\ render'.doc = OnPage(render.doc, handle) /\ render'.entries = entries
       /\ render'.opened = opened
  BY <1>2, <1>6, <1>8, <1>9
<1> QED
  BY <1>1, <1>4, <1>7, <1>10, ShowStep

LEMMA DrawThrowsStep == ASSUME StateInv, DrawThrows PROVE StateInv'
<1>1. render.state = "drawing" /\ Throw
  BY DEF DrawThrows
<1>2. pc = "rendering"
  BY <1>1 DEF StateInv, RenderInv, RenderFits
<1> QED
  BY <1>1, <1>2, ThrowStep

LEMMA DrawAddsPageStep == ASSUME StateInv, DrawAddsPage PROVE StateInv'
<1>1. /\ render.state = "drawing" /\ render.extra < MaxExtra /\ UNCHANGED Running
      /\ render' = [render EXCEPT !.doc = Append(@, Blank), !.extra = @ + 1]
  BY DEF DrawAddsPage
<1>2. PICK r, R : /\ r = render /\ r \in Renders(plan, shards) /\ IsRender(r) /\ RenderFits(r)
                  /\ R = Recorded(plan, shards)
  BY RenderIs DEF StateInv, RenderInv, RenderFits
<1>3. pc = "rendering"
  BY <1>1, <1>2 DEF RenderFits
<1>4. Blank \in R
  <2>1. Len(plan) \in Nat
    BY <1>3, RenderingFacts, PlanFacts
  <2>2. PICK H : H = HandlesIn(shards)
    OBVIOUS
  <2> QED
    BY <1>2, <2>1, <2>2 DEF Blank, Recorded
<1>5. PICK old, doc, extra : old = r.doc /\ doc = Append(old, Blank) /\ extra = r.extra + 1
  OBVIOUS
<1>6. doc \in Seq(R) /\ doc # <<>> /\ extra \in 0..MaxExtra
  <2>1. old \in Seq(R) /\ r.extra \in 0..MaxExtra
    BY <1>2, <1>5, RenderFields
  <2> QED
    BY <1>1, <1>2, <1>4, <1>5, <2>1, ExtraNatural
<1>7. PICK to : to = [r EXCEPT !.doc = doc, !.extra = extra] /\ render' = to
  BY <1>1, <1>2, <1>5
<1>8. /\ IsRender(to) /\ to.state = r.state /\ to.turn = r.turn /\ to.pages = r.pages
      /\ to.index = r.index /\ to.inShard = r.inShard /\ to.doc = doc /\ to.entries = r.entries
      /\ to.opened = r.opened /\ to.extra = extra
  BY <1>2, <1>7 DEF IsRender
<1>9. to \in Renders(plan, shards)
  <2>1. /\ to.doc \in Seq(Recorded(plan, shards)) /\ to.entries \in SUBSET HandlesIn(shards)
        /\ to.opened \in Seq(HandlesIn(shards)) /\ to.extra \in 0..MaxExtra
    BY <1>2, <1>6, <1>8, RenderFields
  <2>2. /\ to.state \in {"none", "between", "drawing", "closing"}
        /\ to.turn \in Nat /\ to.pages \in Nat /\ to.index \in Nat /\ to.inShard \in Nat
    BY <1>2, <1>8, RenderFields
  <2> QED
    BY <1>8, <2>1, <2>2, RenderMade
<1>10. RenderFits(to)
  <2>1. r.state = "drawing"
    BY <1>1, <1>2
  <2> QED
    BY <1>2, <1>6, <1>8, <1>9, <2>1 DEF RenderFits
<1> QED
  BY <1>1, <1>3, <1>7, <1>10, RunningStep DEF Early

LEMMA EndPageStep == ASSUME StateInv, EndPage PROVE StateInv'
<1>1. /\ render.state = "drawing" /\ UNCHANGED Running
      /\ render' = [render EXCEPT !.state = "between", !.index = @ + 1, !.inShard = @ + 1]
  BY DEF EndPage
<1>2. PICK r, to : /\ r = render /\ r \in Renders(plan, shards) /\ IsRender(r) /\ RenderFits(r)
                   /\ to = [r EXCEPT !.state = "between", !.index = @ + 1, !.inShard = @ + 1]
  BY RenderIs DEF StateInv, RenderInv, RenderFits
<1>3. pc = "rendering" /\ r.index < r.pages
  BY <1>1, <1>2 DEF RenderFits
<1>4. /\ IsRender(to) /\ to.state = "between" /\ to.turn = r.turn /\ to.pages = r.pages
      /\ to.index = r.index + 1 /\ to.inShard = r.inShard + 1 /\ to.doc = r.doc
      /\ to.entries = r.entries /\ to.opened = r.opened /\ to.extra = r.extra
  BY <1>2 DEF IsRender
<1>5. r.index \in Nat /\ r.pages \in Nat /\ r.inShard \in Nat
  BY <1>2, RenderFields
<1>6. to \in Renders(plan, shards)
  <2>1. /\ to.doc \in Seq(Recorded(plan, shards)) /\ to.entries \in SUBSET HandlesIn(shards)
        /\ to.opened \in Seq(HandlesIn(shards)) /\ to.extra \in 0..MaxExtra
    BY <1>2, <1>4, RenderFields
  <2>2. /\ to.state \in {"none", "between", "drawing", "closing"}
        /\ to.turn \in Nat /\ to.pages \in Nat /\ to.index \in Nat /\ to.inShard \in Nat
    BY <1>2, <1>4, <1>5, RenderFields
  <2> QED
    BY <1>4, <2>1, <2>2, RenderMade
<1>7. RenderFits(to)
  BY <1>1, <1>2, <1>3, <1>4, <1>5, <1>6 DEF RenderFits
<1>8. render' = to
  BY <1>1, <1>2
<1> QED
  BY <1>1, <1>3, <1>7, <1>8, RunningStep DEF Early

LEMMA EndDocumentStep == ASSUME StateInv, EndDocument PROVE StateInv'
<1>1. /\ render.state = "between" /\ UNCHANGED Running
      /\ render' = [render EXCEPT !.state = "closing"]
  BY DEF EndDocument
<1>2. PICK r, to : /\ r = render /\ r \in Renders(plan, shards) /\ IsRender(r) /\ RenderFits(r)
                   /\ to = [r EXCEPT !.state = "closing"]
  BY RenderIs DEF StateInv, RenderInv, RenderFits
<1>3. pc = "rendering"
  BY <1>1, <1>2 DEF RenderFits
<1>4. /\ IsRender(to) /\ to.state = "closing" /\ to.turn = r.turn /\ to.pages = r.pages
      /\ to.index = r.index /\ to.inShard = r.inShard /\ to.doc = r.doc
      /\ to.entries = r.entries /\ to.opened = r.opened /\ to.extra = r.extra
  BY <1>2 DEF IsRender
<1>5. to \in Renders(plan, shards)
  <2>1. /\ to.doc \in Seq(Recorded(plan, shards)) /\ to.entries \in SUBSET HandlesIn(shards)
        /\ to.opened \in Seq(HandlesIn(shards)) /\ to.extra \in 0..MaxExtra
    BY <1>2, <1>4, RenderFields
  <2>2. /\ to.state \in {"none", "between", "drawing", "closing"}
        /\ to.turn \in Nat /\ to.pages \in Nat /\ to.index \in Nat /\ to.inShard \in Nat
    BY <1>2, <1>4, RenderFields
  <2> QED
    BY <1>4, <2>1, <2>2, RenderMade
<1>6. RenderFits(to)
  BY <1>1, <1>2, <1>4, <1>5 DEF RenderFits
<1>7. render' = to
  BY <1>1, <1>2
<1> QED
  BY <1>1, <1>3, <1>6, <1>7, RunningStep DEF Early

(* The file that is written is what the render has made.                   *)
LEMMA WrittenFacts ==
    ASSUME StateInv, pc = "rendering"
    PROVE  /\ [files EXCEPT ![shard] = Written("whole")] \in Seq(FilesIn(plan, shards))
           /\ Len([files EXCEPT ![shard] = Written("whole")]) = Len(files)
<1>1. PICK F, j, file : F = FilesIn(plan, shards) /\ j = shard /\ file = Written("whole")
  OBVIOUS
<1>2. files \in Seq(F) /\ j \in DOMAIN files
  BY <1>1, RenderingFacts DEF StateInv, ShardInv
<1>3. file \in F
  <2>1. PICK R, H, doc, opened : /\ R = Seq(Recorded(plan, shards)) /\ H = Seq(HandlesIn(shards))
                                 /\ doc = render.doc /\ opened = render.opened
    OBVIOUS
  <2>2. doc \in R /\ opened \in H
    BY <2>1, RenderingFacts, RenderFields
  <2> QED
    BY <1>1, <2>1, <2>2 DEF Written, FilesIn
<1>4. [files EXCEPT ![j] = file] \in Seq(F) /\ Len([files EXCEPT ![j] = file]) = Len(files)
  BY <1>2, <1>3
<1> QED
  BY <1>1, <1>4

LEMMA StreamClosedStep == ASSUME StateInv, StreamClosed PROVE StateInv'
<1>1. render.state = "closing" /\ pc = "rendering"
  BY DEF StreamClosed, StateInv, RenderInv, RenderFits
<1>2. CASE Throw
  BY <1>1, <1>2, ThrowStep
<1>3. CASE files' = [files EXCEPT ![shard] = Written("whole")] /\ Resolve
  <2>1. /\ plan' = plan /\ shards' = shards /\ measures' = measures /\ document' = document
        /\ Leave /\ shard' = shard + 1 /\ attempt' = 0
        /\ shard = Len(shards) => pc' = "rendered"
        /\ shard # Len(shards) => pc' = pc
    BY <1>3 DEF Resolve
  <2>2. shards # <<>> /\ shard \in 1..Len(shards) /\ Len(shards) \in Nat
    BY <1>1, RenderingFacts
  <2>3. pc' \in {"rendering", "rendered"}
    BY <1>1, <2>1
  <2>4. PlanInv'
    BY <1>1, <2>1, <2>2, <2>3, PlanStep DEF Late
  <2>5. MeasureInv'
    BY <1>1, <2>1, <2>3 DEF StateInv, MeasureInv, Early, Late
  <2>6. files' \in Seq(FilesIn(plan, shards)) /\ Len(files') = Len(files)
    BY <1>1, <1>3, WrittenFacts
  <2>7. ShardInv'
    <3>1. shard' \in 1..(Len(shards) + 1) /\ (pc' = "rendering" => shard' <= Len(shards))
      BY <1>1, <2>1, <2>2
    <3>2. attempt' \in 0..Attempts
      BY <2>1, AttemptsPositive
    <3>3. pc' \notin Early /\ pc' # "assembling"
      BY <2>3 DEF Early
    <3> QED
      BY <1>1, <2>1, <2>6, <3>1, <3>2, <3>3 DEF StateInv, ShardInv, Late
  <2>8. RenderInv'
    BY <2>1, <2>3, LeaveStep DEF Early
  <2> QED
    BY <2>4, <2>5, <2>7, <2>8 DEF StateInv
<1> QED
  BY <1>2, <1>3 DEF StreamClosed

(* The assembly, when no render runs any more.                             *)
LEMMA RestingStep ==
    ASSUME StateInv, UNCHANGED <<plan, shards, measures, attempt, render, files>>,
           pc \in {"rendered", "assembling"}, pc' \in {"assembling", "shipped", "failed"},
           shard' \in 1..(Len(shards) + 1), pc' = "assembling" => shard' <= Len(shards),
           document' \in Seq(Recorded(plan, shards))
    PROVE  StateInv'
<1>1. /\ plan' = plan /\ shards' = shards /\ measures' = measures /\ attempt' = attempt
      /\ render' = render /\ files' = files
  OBVIOUS
<1>2. PlanInv'
  <2>1. shards # <<>>
    BY DEF StateInv, PlanInv
  <2> QED
    BY <1>1, <2>1, PlanStep DEF Late
<1>3. MeasureInv'
  BY <1>1 DEF StateInv, MeasureInv, Early, Late
<1>4. ShardInv'
  BY <1>1 DEF StateInv, ShardInv, Early, Late
<1>5. RenderInv'
  <2>1. RenderFits(render) /\ render.state = "none"
    BY DEF StateInv, RenderInv, RenderFits
  <2> QED
    BY <1>1, <2>1 DEF RenderInv, RenderFits, Early
<1> QED
  BY <1>2, <1>3, <1>4, <1>5 DEF StateInv

(* A list of as many files as there are shards, and what they hold.        *)
LEMMA LateFacts ==
    ASSUME StateInv, pc \in Late
    PROVE  /\ shards # <<>> /\ Len(shards) \in Nat /\ Len(shards) > 0
           /\ DOMAIN shards = 1..Len(shards)
           /\ DOMAIN files = 1..Len(shards)
           /\ \A j \in 1..Len(shards) : /\ shards[j] \in Seq(DOMAIN plan)
                                        /\ files[j] \in FilesIn(plan, shards)
                                        /\ files[j].doc \in Seq(Recorded(plan, shards))
<1>1. /\ shards # <<>> /\ shards \in Seq(Seq(DOMAIN plan)) /\ Len(files) = Len(shards)
      /\ files \in Seq(FilesIn(plan, shards))
  BY DEF StateInv, PlanInv, ShardInv, Late
<1>2. PICK D, F, R, H : /\ D = Seq(DOMAIN plan) /\ F = FilesIn(plan, shards)
                        /\ R = Seq(Recorded(plan, shards)) /\ H = Seq(HandlesIn(shards))
  OBVIOUS
<1>3. Len(shards) \in Nat /\ DOMAIN shards = 1..Len(shards) /\ \A j \in 1..Len(shards) : shards[j] \in D
  BY <1>1, <1>2, SeqRange
<1>4. DOMAIN files = 1..Len(files) /\ \A j \in 1..Len(files) : files[j] \in F
  BY <1>1, <1>2, SeqRange
<1>5. Len(shards) # 0
  BY <1>1, <1>2
<1>6. \A file \in F : file.doc \in R
  BY <1>2 DEF FilesIn
<1> QED
  BY <1>1, <1>2, <1>3, <1>4, <1>5, <1>6

LEMMA AssembleStep == ASSUME StateInv, Assemble PROVE StateInv'
<1>1. /\ pc = "rendered" /\ pc' = "assembling" /\ shard' = 1 /\ document' = document
      /\ UNCHANGED <<plan, shards, measures, attempt, render, files>>
  BY DEF Assemble
<1>2. Len(shards) \in Nat /\ Len(shards) > 0
  BY <1>1, LateFacts DEF Late
<1>3. document' \in Seq(Recorded(plan, shards))
  BY <1>1 DEF StateInv, ShardInv
<1>4. shard' \in 1..(Len(shards) + 1) /\ shard' <= Len(shards)
  BY <1>1, <1>2
<1> QED
  BY <1>1, <1>3, <1>4, RestingStep

LEMMA AssembleShardStep == ASSUME StateInv, AssembleShard PROVE StateInv'
<1>1. /\ pc = "assembling" /\ UNCHANGED <<plan, shards, measures, attempt, render, files>>
      /\ \/ /\ document' = document \o files[shard].doc /\ shard' = shard + 1
            /\ shard = Len(shards) => pc' = "shipped"
            /\ shard # Len(shards) => pc' = pc
         \/ pc' = "failed" /\ document' = document /\ shard' = shard
  BY DEF AssembleShard, Fail
<1>2. /\ Len(shards) \in Nat /\ shard \in 1..Len(shards)
      /\ files[shard].doc \in Seq(Recorded(plan, shards))
      /\ document \in Seq(Recorded(plan, shards))
  BY <1>1, LateFacts DEF StateInv, ShardInv, Late
<1>3. document' \in Seq(Recorded(plan, shards))
  <2>1. PICK R, more : R = Recorded(plan, shards) /\ more = files[shard].doc
    OBVIOUS
  <2>2. document \in Seq(R) /\ more \in Seq(R)
    BY <1>2, <2>1
  <2>3. document' = document \/ document' = document \o more
    BY <1>1, <2>1
  <2>4. document \o more \in Seq(R)
    BY <2>2
  <2> QED
    BY <2>1, <2>2, <2>3, <2>4
<1>4. /\ shard' \in 1..(Len(shards) + 1) /\ pc' \in {"assembling", "shipped", "failed"}
      /\ pc' = "assembling" => shard' <= Len(shards)
  BY <1>1, <1>2
<1> QED
  BY <1>1, <1>3, <1>4, RestingStep

LEMMA StateStutter == ASSUME StateInv, UNCHANGED vars PROVE StateInv'
<1>1. /\ plan' = plan /\ shards' = shards /\ pc' = pc /\ measures' = measures
      /\ shard' = shard /\ attempt' = attempt /\ render' = render /\ files' = files
      /\ document' = document
  BY DEF vars
<1>2. PlanInv'
  <2>1. PICK list : list = shards
    OBVIOUS
  <2>2. Partitioned(list) => Partitioned(shards)'
    BY <1>1, <2>1, PartitionedSame
  <2> QED
    BY <1>1, <2>1, <2>2 DEF StateInv, PlanInv
<1>3. MeasureInv'
  BY <1>1 DEF StateInv, MeasureInv
<1>4. ShardInv'
  BY <1>1 DEF StateInv, ShardInv
<1>5. RenderInv'
  BY <1>1 DEF StateInv, RenderInv, RenderFits
<1> QED
  BY <1>2, <1>3, <1>4, <1>5 DEF StateInv

(* The state is what it should be, wherever generate() is: its shards a    *)
(* partition of the plan, its measurements those of the shards, a render   *)
(* only when and where one may run.                                        *)
THEOREM StateInvariant == Spec => []StateInv
<1>1. StateInv /\ [Next]_vars => StateInv'
  <2> SUFFICES ASSUME StateInv, [Next]_vars PROVE StateInv'
    OBVIOUS
  <2>1. CASE Partition BY <2>1, PartitionStep
  <2>2. CASE MeasurePass BY <2>2, MeasurePassStep
  <2>3. CASE StartRender BY <2>3, StartRenderStep
  <2>4. CASE NextSection BY <2>4, NextSectionStep
  <2>5. CASE StartPage BY <2>5, StartPageStep
  <2>6. ASSUME NEW key \in Images, GetHit(key) PROVE StateInv'
    BY <2>6, GetHitStep
  <2>7. ASSUME NEW key \in Images, GetMiss(key) PROVE StateInv'
    BY <2>7, GetMissStep
  <2>8. CASE DrawThrows BY <2>8, DrawThrowsStep
  <2>9. CASE DrawAddsPage BY <2>9, DrawAddsPageStep
  <2>10. CASE EndPage BY <2>10, EndPageStep
  <2>11. CASE EndDocument BY <2>11, EndDocumentStep
  <2>12. CASE StreamClosed BY <2>12, StreamClosedStep
  <2>13. CASE Assemble BY <2>13, AssembleStep
  <2>14. CASE AssembleShard BY <2>14, AssembleShardStep
  <2>15. CASE Ended \/ UNCHANGED vars BY <2>15, StateStutter DEF Ended
  <2> QED
    BY <2>1, <2>2, <2>3, <2>4, <2>5, <2>6, <2>7, <2>8, <2>9, <2>10, <2>11, <2>12, <2>13,
       <2>14, <2>15 DEF Next
<1> QED
  BY StateInit, <1>1, PTL DEF Spec

-----------------------------------------------------------------------------
(* Every variable has its type: in particular a measured anchor is on a    *)
(* page of its shard, a render is never past the last page of its section, *)
(* and a page shows images of this run's renders only.                     *)
LEMMA StateTypes == StateInv => TypeOK
<1> SUFFICES ASSUME StateInv PROVE TypeOK
  OBVIOUS
<1>1. /\ plan \in Plans
      /\ pc \in {"planning", "measuring", "rendering", "rendered", "assembling",
                 "shipped", "failed"}
      /\ shard \in 1..(Len(shards) + 1) /\ attempt \in 0..Attempts
  BY DEF StateInv, PlanInv, ShardInv, Early, Late
<1>2. \A m \in ToSet(measures) : IsMeasure(m)
  <2>1. CASE measures = <<>>
    BY <2>1 DEF ToSet
  <2>2. CASE MeasuresOf(plan, shards, measures)
    <3>1. DOMAIN measures = 1..Len(shards)
      BY <2>2, SeqFacts DEF MeasuresOf
    <3> QED
      BY <2>2, <3>1 DEF MeasuresOf, Measured, MeasuredAs, ToSet
  <2> QED
    BY <2>1, <2>2 DEF StateInv, MeasureInv
<1>3. PICK r : r = render /\ r \in Renders(plan, shards) /\ r.index <= r.pages
  BY DEF StateInv, RenderInv, RenderFits
<1>4. /\ r.state \in {"none", "between", "drawing", "closing"} /\ r.index \in 0..r.pages
      /\ r.turn \in Nat /\ r.extra \in 0..MaxExtra
  BY <1>3, RenderFields
<1>5. ASSUME NEW doc \in Seq(Recorded(plan, shards)), NEW page \in ToSet(doc)
      PROVE  IsPage(page)
  <2>1. PICK R : R = Recorded(plan, shards)
    OBVIOUS
  <2>2. page \in R
    BY <1>5, <2>1, SeqRange DEF ToSet
  <2>3. PICK H : H = HandlesIn(shards)
    OBVIOUS
  <2>4. /\ page.section \in 0..Len(plan) /\ page.index \in Nat /\ page.number \in Nat
        /\ page.total \in Nat /\ page.images \subseteq H
    BY <2>1, <2>2, <2>3 DEF Recorded
  <2> QED
    BY <2>3, <2>4 DEF IsPage, Handles, HandlesIn
<1>6. r.doc \in Seq(Recorded(plan, shards)) /\ document \in Seq(Recorded(plan, shards))
  BY <1>3, RenderFields DEF StateInv, ShardInv
<1>7. \A page \in ToSet(r.doc) \cup ToSet(document) : IsPage(page)
  BY <1>5, <1>6
<1>8. \A j \in DOMAIN files : files[j].state \in {"absent", "torn", "whole"}
  <2>1. PICK F, R, H : /\ F = FilesIn(plan, shards)
                       /\ R = Seq(Recorded(plan, shards)) /\ H = Seq(HandlesIn(shards))
    OBVIOUS
  <2>2. files \in Seq(F)
    BY <2>1 DEF StateInv, ShardInv
  <2>3. \A j \in DOMAIN files : files[j] \in F
    BY <2>2, SeqRange
  <2> QED
    BY <2>1, <2>3 DEF FilesIn
<1> QED
  BY <1>1, <1>2, <1>3, <1>4, <1>7, <1>8 DEF TypeOK

THEOREM TypeCorrect == Spec => []TypeOK
  BY StateInvariant, StateTypes, PTL

(* Whatever the plan and the estimates, those of no pages or fewer         *)
(* included, partition() loses no section, doubles none and keeps their    *)
(* order; no shard is empty, none with two sections is over the budget,    *)
(* and none could have taken the first section of the next.                *)
THEOREM PartitionIsRight == Spec => []PartitionRight
<1>1. StateInv => PartitionRight
  <2> SUFFICES ASSUME StateInv, pc # "planning" PROVE PartitionRight
    BY DEF PartitionRight
  <2>1. Partitioned(shards)
    BY DEF StateInv, PlanInv
  <2>2. PICK D : D = Seq(DOMAIN plan) /\ shards \in Seq(D)
    BY <2>1 DEF Partitioned
  <2>3. DOMAIN shards = 1..Len(shards)
    BY <2>2, SeqRange
  <2>4. \A j \in DOMAIN shards :
           /\ shards[j] # <<>>
           /\ Len(shards[j]) > 1 => EstimatedOf(shards[j]) <= MaxPagesPerShard
           /\ j < Len(shards) =>
                 EstimatedOf(Append(shards[j], Head(shards[j + 1]))) > MaxPagesPerShard
    BY <2>1, <2>3 DEF Partitioned, Packing
  <2>5. FlattenSeq(shards) = [s \in DOMAIN plan |-> s]
    BY <2>1 DEF Partitioned
  <2> QED
    BY <2>4, <2>5, Zenon DEF PartitionRight, EstimatedOf
<1> QED
  BY <1>1, StateInvariant, PTL

(* generate() never assembles a file that its stream has not finished:     *)
(* every shard behind the one that is rendered, and every shard once all   *)
(* of them are, is whole on disk, however often their renders have failed. *)
THEOREM FilesAreWhole == Spec => []WholeWhenResolved
<1>1. Init => WholeWhenResolved
  BY DEF Init, WholeWhenResolved
<1>2. StateInv /\ WholeWhenResolved /\ [Next]_vars => WholeWhenResolved'
  <2> SUFFICES ASSUME StateInv, WholeWhenResolved, [Next]_vars PROVE WholeWhenResolved'
    OBVIOUS
  <2>1. CASE UNCHANGED <<pc, shard, files>>
    BY <2>1 DEF WholeWhenResolved
  <2>2. CASE files' = files /\ shard' = shard /\ pc' = "failed"
    BY <2>2 DEF WholeWhenResolved
  <2>3. CASE Partition
    <3>1. files' = files /\ files = <<>>
      BY <2>3 DEF Partition, StateInv, PlanInv, ShardInv, Early
    <3> QED
      BY <3>1 DEF WholeWhenResolved
  <2>4. CASE MeasurePass
    <3>1. /\ shard' = 1 /\ pc' \in {"failed", "rendering"} /\ files = <<>>
          /\ files' = files \/ files' = [j \in DOMAIN shards |-> NoFile]
      BY <2>4 DEF MeasurePass, Fail, StateInv, ShardInv, Early
    <3>2. shards \in Seq(Seq(DOMAIN plan))
      BY DEF StateInv, PlanInv
    <3>3. PICK D : D = Seq(DOMAIN plan) /\ shards \in Seq(D)
      BY <3>2
    <3>4. DOMAIN shards = 1..Len(shards) /\ Len(shards) \in Nat
      BY <3>3, SeqRange
    <3>5. \A j \in DOMAIN files' : ~(j < 1)
      BY <3>1, <3>4
    <3> QED
      BY <3>1, <3>5 DEF WholeWhenResolved
  <2>5. CASE StartRender
    <3>1. /\ pc = "rendering" /\ pc' = pc /\ shard' = shard
          /\ files' = [files EXCEPT ![shard] = [NoFile EXCEPT !.state = "torn"]]
      BY <2>5 DEF StartRender
    <3>2. \A j \in DOMAIN files' : j < shard => files'[j] = files[j] /\ j \in DOMAIN files
      BY <3>1, RenderingFacts
    <3> QED
      BY <3>1, <3>2 DEF WholeWhenResolved
  <2>6. CASE StreamClosed /\ ~Throw
    <3>1. /\ files' = [files EXCEPT ![shard] = Written("whole")] /\ shard' = shard + 1
          /\ pc' = pc \/ (pc' = "rendered" /\ shard = Len(shards))
          /\ pc = "rendering"
      BY <2>6 DEF StreamClosed, Resolve, StateInv, RenderInv, RenderFits
    <3>2. Written("whole").state = "whole"
      BY DEF Written
    <3>3. shard \in 1..Len(shards) /\ DOMAIN files = 1..Len(shards) /\ Len(shards) \in Nat
      BY <3>1, RenderingFacts
    <3>4. DOMAIN files' = DOMAIN files /\ files'[shard].state = "whole"
      BY <3>1, <3>2, <3>3
    <3>5. \A j \in DOMAIN files : j # shard => files'[j] = files[j]
      BY <3>1
    <3>6. \A j \in DOMAIN files' : j < shard' \/ pc' = "rendered" => j < shard \/ j = shard
      BY <3>1, <3>3, <3>4
    <3>7. \A j \in DOMAIN files' :
             j < shard' \/ pc' \in {"rendered", "assembling", "shipped"} => files'[j].state = "whole"
      BY <3>1, <3>4, <3>5, <3>6 DEF WholeWhenResolved
    <3> QED
      BY <3>7 DEF WholeWhenResolved
  <2>7. CASE Assemble \/ AssembleShard
    <3>1. pc \in {"rendered", "assembling"} /\ files' = files
      BY <2>7 DEF Assemble, AssembleShard
    <3> QED
      BY <3>1 DEF WholeWhenResolved
  <2>8. ASSUME Throw PROVE UNCHANGED <<pc, shard, files>> \/ (files' = files /\ shard' = shard /\ pc' = "failed")
    BY <2>8 DEF Throw, Fail
  <2> QED
    BY <2>1, <2>2, <2>3, <2>4, <2>5, <2>6, <2>7, <2>8 DEF Next, vars, Running, NextSection,
       StartPage, GetHit, GetMiss, DrawThrows, DrawAddsPage, EndPage, EndDocument,
       StreamClosed, Ended
<1> QED
  BY <1>1, <1>2, StateInvariant, PTL DEF Spec

-----------------------------------------------------------------------------
(* Images: while a render runs, the entries of its cache are the images    *)
(* that its document has opened, as many as there are.                     *)
Owned(doc, opened) == HandlesOf(doc) \subseteq ToSet(opened) /\ KeysOnce(opened)

ImagesInv ==
    /\ Owned(render.doc, render.opened)
    /\ render.state # "none" => /\ render.entries = ToSet(render.opened)
                                /\ IsFiniteSet(render.entries)
                                /\ Cardinality(render.entries) = Len(render.opened)
    /\ \A j \in DOMAIN files : Owned(files[j].doc, files[j].opened)

LEMMA NothingOwned == Owned(<<>>, <<>>) /\ Owned(<<Blank>>, <<>>)
<1>1. DOMAIN <<>> = {} /\ HandlesOf(<<>>) = {}
  BY DEF HandlesOf
<1>2. PICK page, doc : page = Blank /\ doc = <<page>>
  OBVIOUS
<1>3. DOMAIN doc = {1} /\ doc[1] = Blank
  BY <1>2
<1>4. HandlesOf(doc) = {}
  BY <1>3 DEF HandlesOf, Blank
<1> QED
  BY <1>1, <1>2, <1>4 DEF Owned, KeysOnce

LEMMA AppendHandles ==
    ASSUME NEW doc, IsSeq(doc), NEW page
    PROVE  HandlesOf(Append(doc, page)) \subseteq HandlesOf(doc) \cup page.images
<1>1. PICK n, to : n = Len(doc) /\ n \in Nat /\ DOMAIN doc = 1..n /\ to = Append(doc, page)
  BY SeqFacts
<1>2. IsSeq(to) /\ Len(to) = n + 1 /\ to[n + 1] = page /\ \A q \in 1..n : to[q] = doc[q]
  BY <1>1, Appended
<1>3. DOMAIN to = 1..(n + 1)
  BY <1>2, SeqFacts
<1>4. \A q \in 1..(n + 1) : q \in 1..n \/ q = n + 1
  BY <1>1
<1>5. ASSUME NEW q \in DOMAIN to PROVE to[q].images \subseteq HandlesOf(doc) \cup page.images
  <2>1. CASE q = n + 1
    BY <1>2, <2>1
  <2>2. CASE q \in 1..n
    BY <1>1, <1>2, <2>2 DEF HandlesOf
  <2> QED
    BY <1>3, <1>4, <2>1, <2>2
<1> QED
  BY <1>1, <1>5 DEF HandlesOf

LEMMA OnPageHandles ==
    ASSUME NEW p, NEW sh, NEW doc \in Seq(Recorded(p, sh)), doc # <<>>,
           NEW handle \in HandlesIn(sh)
    PROVE  HandlesOf(OnPage(doc, handle)) \subseteq HandlesOf(doc) \cup {handle}
<1>1. PICK to : to = OnPage(doc, handle)
  OBVIOUS
<1>2. /\ to \in Seq(Recorded(p, sh)) /\ Len(to) = Len(doc)
      /\ \A q \in 1..Len(doc) : to[q].images \subseteq doc[q].images \cup {handle}
  BY <1>1, OnPageFacts
<1>3. DOMAIN to = 1..Len(doc) /\ DOMAIN doc = 1..Len(doc)
  BY <1>2, SeqRange
<1> QED
  BY <1>1, <1>2, <1>3 DEF HandlesOf

(* One more image, of a key that has none yet.                             *)
LEMMA OpenedOne ==
    ASSUME NEW opened, IsSeq(opened), NEW handle, KeysOnce(opened),
           \A e \in ToSet(opened) : e.key # handle.key,
           IsFiniteSet(ToSet(opened)), Cardinality(ToSet(opened)) = Len(opened)
    PROVE  /\ KeysOnce(Append(opened, handle))
           /\ ToSet(Append(opened, handle)) = ToSet(opened) \cup {handle}
           /\ IsFiniteSet(ToSet(Append(opened, handle)))
           /\ Cardinality(ToSet(Append(opened, handle))) = Len(Append(opened, handle))
<1>1. PICK n, to : n = Len(opened) /\ n \in Nat /\ DOMAIN opened = 1..n /\ to = Append(opened, handle)
  BY SeqFacts
<1>2. IsSeq(to) /\ Len(to) = n + 1 /\ to[n + 1] = handle /\ \A i \in 1..n : to[i] = opened[i]
  BY <1>1, Appended
<1>3. DOMAIN to = 1..(n + 1)
  BY <1>2, SeqFacts
<1>4. \A i \in 1..(n + 1) : i \in 1..n \/ i = n + 1
  BY <1>1
<1>5. \A i \in 1..n : opened[i] \in ToSet(opened)
  BY <1>1 DEF ToSet
<1>6. KeysOnce(to)
  <2> SUFFICES ASSUME NEW i \in 1..(n + 1), NEW k \in 1..(n + 1), to[i].key = to[k].key
               PROVE  i = k
    BY <1>3 DEF KeysOnce
  <2>1. CASE i \in 1..n /\ k \in 1..n
    BY <1>1, <1>2, <2>1 DEF KeysOnce
  <2>2. CASE i \in 1..n /\ k = n + 1
    BY <1>2, <1>5, <2>2
  <2>3. CASE i = n + 1 /\ k \in 1..n
    BY <1>2, <1>5, <2>3
  <2> QED
    BY <1>4, <2>1, <2>2, <2>3
<1>7. ToSet(to) = ToSet(opened) \cup {handle}
  <2>1. \A i \in 1..(n + 1) : to[i] \in ToSet(opened) \cup {handle}
    BY <1>2, <1>4, <1>5
  <2>2. \A i \in 1..n : opened[i] \in ToSet(to)
    <3>1. \A i \in 1..n : i \in 1..(n + 1)
      BY <1>1
    <3> QED
      BY <1>2, <1>3, <3>1 DEF ToSet
  <2>3. handle \in ToSet(to)
    <3>1. n + 1 \in 1..(n + 1)
      BY <1>1
    <3> QED
      BY <1>2, <1>3, <3>1 DEF ToSet
  <2>4. ToSet(to) = {to[i] : i \in 1..(n + 1)} /\ ToSet(opened) = {opened[i] : i \in 1..n}
    BY <1>1, <1>3 DEF ToSet
  <2> QED
    BY <2>1, <2>2, <2>3, <2>4
<1>8. handle \notin ToSet(opened)
  OBVIOUS
<1>9. PICK S : S = ToSet(opened)
  OBVIOUS
<1>10. IsFiniteSet(S \cup {handle}) /\ Cardinality(S \cup {handle}) = Cardinality(S) + 1
  BY <1>8, <1>9, FS_AddElement
<1> QED
  BY <1>1, <1>2, <1>6, <1>7, <1>9, <1>10

(* A step of a render that opens no image, and puts none on a page.        *)
LEMMA ImagesRunning ==
    ASSUME ImagesInv, files' = files, render'.opened = render.opened,
           render'.entries = render.entries, render.state # "none",
           HandlesOf(render'.doc) \subseteq HandlesOf(render.doc)
    PROVE  ImagesInv'
  BY DEF ImagesInv, Owned

LEMMA ImagesLeave ==
    ASSUME ImagesInv, Leave, \A j \in DOMAIN files' : Owned(files'[j].doc, files'[j].opened)
    PROVE  ImagesInv'
<1>1. PICK e, r : e = render.entries /\ r = [NoRender EXCEPT !.entries = e] /\ render' = r
  BY DEF Leave
<1>2. r.state = "none" /\ r.doc = <<>> /\ r.opened = <<>>
  BY <1>1 DEF NoRender
<1> QED
  BY <1>1, <1>2, NothingOwned DEF ImagesInv

(* A render that runs, and the fields that a step of it changes.           *)
LEMMA RunningRender ==
    ASSUME StateInv, render.state # "none"
    PROVE  /\ IsRender(render) /\ pc = "rendering" /\ render \in Renders(plan, shards)
           /\ render.doc \in Seq(Recorded(plan, shards)) /\ IsSeq(render.doc)
           /\ render.opened \in Seq(HandlesIn(shards)) /\ IsSeq(render.opened)
           /\ render.state = "drawing" => render.doc # <<>>
<1>1. render \in Renders(plan, shards) /\ pc = "rendering" /\ (render.state = "drawing" => render.doc # <<>>)
  BY DEF StateInv, RenderInv, RenderFits
<1>2. render.doc \in Seq(Recorded(plan, shards)) /\ render.opened \in Seq(HandlesIn(shards))
  BY <1>1, RenderFields
<1>3. IsSeq(render.doc) /\ IsSeq(render.opened)
  BY <1>2, SeqRange
<1> QED
  BY <1>1, <1>2, <1>3, RenderIs

LEMMA ImagesStartPage == ASSUME StateInv, ImagesInv, StartPage PROVE ImagesInv'
<1>1. /\ render.state = "between" /\ files' = files
  BY DEF StartPage, Running
<1>2. PICK page : page = [section |-> shards[shard][render.turn], index |-> render.index,
                          number |-> PageOffset(shard) + render.inShard + 1,
                          total |-> TotalPages, images |-> {}]
  OBVIOUS
<1>3. PICK r, base, doc : /\ r = render /\ base = (IF PageStarted THEN r.doc ELSE <<>>)
                          /\ doc = Append(base, page)
  OBVIOUS
<1>4. render' = [r EXCEPT !.state = "drawing", !.doc = doc]
  BY <1>2, <1>3 DEF StartPage
<1>5. IsRender(r)
  BY <1>1, <1>3, RunningRender
<1>6. render'.opened = r.opened /\ render'.entries = r.entries /\ render'.doc = doc
  BY <1>4, <1>5 DEF IsRender
<1>7. HandlesOf(doc) \subseteq HandlesOf(r.doc)
  <2>1. IsSeq(base) /\ HandlesOf(base) \subseteq HandlesOf(r.doc)
    <3>1. IsSeq(r.doc) /\ IsSeq(<<>>) /\ HandlesOf(<<>>) = {}
      BY <1>1, <1>3, RunningRender DEF HandlesOf, IsSeq
    <3> QED
      BY <1>3, <3>1
  <2>2. HandlesOf(doc) \subseteq HandlesOf(base) \cup page.images
    BY <1>3, <2>1, AppendHandles
  <2>3. page.images = {}
    BY <1>2
  <2> QED
    BY <2>1, <2>2, <2>3
<1> QED
  BY <1>1, <1>3, <1>6, <1>7, ImagesRunning

LEMMA ImagesGetHit ==
    ASSUME StateInv, ImagesInv, NEW key \in Images, GetHit(key) PROVE ImagesInv'
<1>1. render.state = "drawing" /\ files' = files
  BY DEF GetHit, MayShow, Running
<1>2. PICK r : /\ r = render /\ IsRender(r) /\ r.doc # <<>>
               /\ r.doc \in Seq(Recorded(plan, shards)) /\ r \in Renders(plan, shards)
  BY <1>1, RunningRender
<1>3. PICK handle \in r.entries : render' = [r EXCEPT !.doc = OnPage(r.doc, handle)]
  BY <1>2 DEF GetHit
<1>4. PICK doc : doc = OnPage(r.doc, handle) /\ render' = [r EXCEPT !.doc = doc]
  BY <1>3
<1>5. /\ render'.opened = r.opened /\ render'.entries = r.entries /\ render'.doc = doc
      /\ render'.state = r.state
  BY <1>2, <1>4 DEF IsRender
<1>6. HandlesOf(doc) \subseteq HandlesOf(r.doc) \cup {handle}
  <2>1. PICK H : H = HandlesIn(shards) /\ r.entries \in SUBSET H
    BY <1>2, RenderFields
  <2>2. handle \in HandlesIn(shards)
    BY <1>3, <2>1
  <2> QED
    BY <1>2, <1>4, <2>2, OnPageHandles
<1>7. HandlesOf(r.doc) \subseteq ToSet(r.opened) /\ r.entries = ToSet(r.opened)
  BY <1>1, <1>2 DEF ImagesInv, Owned
<1>8. Owned(doc, r.opened)
  BY <1>2, <1>6, <1>7, <1>4 DEF ImagesInv, Owned
<1> QED
  BY <1>1, <1>2, <1>5, <1>8 DEF ImagesInv

LEMMA ImagesGetMiss ==
    ASSUME StateInv, ImagesInv, NEW key \in Images, GetMiss(key) PROVE ImagesInv'
<1>1. render.state = "drawing" /\ files' = files /\ \A e \in render.entries : e.key # key
  BY DEF GetMiss, MayShow, Running
<1>2. PICK r : /\ r = render /\ IsRender(r) /\ r.doc # <<>> /\ IsSeq(r.opened)
               /\ r.doc \in Seq(Recorded(plan, shards)) /\ r \in Renders(plan, shards)
  BY <1>1, RunningRender
<1>3. PICK handle : handle = [key |-> key, owner |-> <<shard, attempt>>]
  OBVIOUS
<1>4. PICK old, entries, opened, doc :
         /\ old = r.opened /\ entries = r.entries \cup {handle} /\ opened = Append(old, handle)
         /\ doc = OnPage(r.doc, handle)
  OBVIOUS
<1>5. render' = [r EXCEPT !.entries = entries, !.opened = opened, !.doc = doc]
  BY <1>2, <1>3, <1>4 DEF GetMiss
<1>6. /\ render'.opened = opened /\ render'.entries = entries /\ render'.doc = doc
      /\ render'.state = r.state
  BY <1>2, <1>5 DEF IsRender
<1>7. handle \in HandlesIn(shards)
  <2>1. pc = "rendering" /\ attempt \in 1..Attempts
    BY <1>1 DEF StateInv, RenderInv, RenderFits
  <2>2. shard \in DOMAIN shards
    BY <2>1, RenderingFacts
  <2> QED
    BY <1>3, <2>1, <2>2 DEF HandlesIn
<1>8. HandlesOf(doc) \subseteq HandlesOf(r.doc) \cup {handle}
  BY <1>2, <1>4, <1>7, OnPageHandles
<1>9. /\ HandlesOf(r.doc) \subseteq ToSet(old) /\ KeysOnce(old)
      /\ r.entries = ToSet(old) /\ IsFiniteSet(ToSet(old))
      /\ Cardinality(ToSet(old)) = Len(old)
  BY <1>1, <1>2, <1>4 DEF ImagesInv, Owned
<1>10. \A e \in ToSet(old) : e.key # handle.key
  <2>1. handle.key = key
    BY <1>3
  <2> QED
    BY <1>1, <1>2, <1>9, <2>1
<1>11. /\ KeysOnce(opened) /\ ToSet(opened) = ToSet(old) \cup {handle}
       /\ IsFiniteSet(ToSet(opened)) /\ Cardinality(ToSet(opened)) = Len(opened)
  <2>1. IsSeq(old)
    BY <1>2, <1>4
  <2> QED
    BY <1>4, <1>9, <1>10, <2>1, OpenedOne
<1>12. Owned(doc, opened) /\ entries = ToSet(opened)
  BY <1>4, <1>8, <1>9, <1>11 DEF Owned
<1> QED
  BY <1>1, <1>6, <1>11, <1>12 DEF ImagesInv

LEMMA ImagesAddPage == ASSUME StateInv, ImagesInv, DrawAddsPage PROVE ImagesInv'
<1>1. render.state = "drawing" /\ files' = files
  BY DEF DrawAddsPage, Running
<1>2. PICK r, old, doc, extra : /\ r = render /\ IsRender(r) /\ old = r.doc /\ IsSeq(old)
                                /\ doc = Append(old, Blank) /\ extra = r.extra + 1
  BY <1>1, RunningRender
<1>3. render' = [r EXCEPT !.doc = doc, !.extra = extra]
  BY <1>2 DEF DrawAddsPage
<1>4. render'.opened = r.opened /\ render'.entries = r.entries /\ render'.doc = doc
  BY <1>2, <1>3 DEF IsRender
<1>5. HandlesOf(doc) \subseteq HandlesOf(old)
  <2>1. HandlesOf(doc) \subseteq HandlesOf(old) \cup Blank.images
    BY <1>2, AppendHandles
  <2>2. Blank.images = {}
    BY DEF Blank
  <2> QED
    BY <2>1, <2>2
<1> QED
  BY <1>1, <1>2, <1>4, <1>5, ImagesRunning

LEMMA ImagesStreamClosed == ASSUME StateInv, ImagesInv, StreamClosed PROVE ImagesInv'
<1>1. render.state = "closing" /\ pc = "rendering"
  BY DEF StreamClosed, StateInv, RenderInv, RenderFits
<1>2. CASE Throw
  BY <1>2, ImagesLeave DEF Throw, ImagesInv
<1>3. CASE files' = [files EXCEPT ![shard] = Written("whole")] /\ Resolve
  <2>1. PICK file : file = Written("whole")
    OBVIOUS
  <2>2. files' = [files EXCEPT ![shard] = file] /\ Leave
    BY <1>3, <2>1 DEF Resolve
  <2>3. file.doc = render.doc /\ file.opened = render.opened
    BY <2>1 DEF Written
  <2>4. ASSUME NEW j \in DOMAIN files' PROVE Owned(files'[j].doc, files'[j].opened)
    BY <2>2, <2>3 DEF ImagesInv
  <2> QED
    BY <2>2, <2>4, ImagesLeave
<1> QED
  BY <1>2, <1>3 DEF StreamClosed

LEMMA ImagesStart == ASSUME StateInv, ImagesInv, StartRender PROVE ImagesInv'
<1>1. PICK page, n : page = Blank /\ n = NoRender
  OBVIOUS
<1>2. IsRender(n) /\ n.entries = {} /\ n.opened = <<>>
  BY <1>1 DEF NoRender, IsRender
<1>3. PICK doc, r : doc = <<page>> /\ r = [n EXCEPT !.state = "between", !.doc = doc]
  OBVIOUS
<1>4. render' = r
  BY <1>1, <1>3 DEF StartRender, NewRender
<1>5. r.doc = doc /\ r.entries = {} /\ r.opened = <<>>
  BY <1>3, <1>2 DEF IsRender
<1>6. ToSet(<<>>) = {} /\ IsFiniteSet({}) /\ Cardinality({}) = 0 /\ Len(<<>>) = 0
  BY FS_EmptySet DEF ToSet
<1>7. PICK file, f : file = [f EXCEPT !.state = "torn"] /\ f = NoFile
  OBVIOUS
<1>8. file.doc = <<>> /\ file.opened = <<>>
  BY <1>7 DEF NoFile
<1>9. files' = [files EXCEPT ![shard] = file]
  BY <1>7 DEF StartRender
<1>10. \A j \in DOMAIN files' : Owned(files'[j].doc, files'[j].opened)
  BY <1>8, <1>9, NothingOwned DEF ImagesInv
<1> QED
  BY <1>1, <1>3, <1>4, <1>5, <1>6, <1>10, NothingOwned DEF ImagesInv

(* An image that a page shows was opened by the document of that page,     *)
(* never by that of another shard or of an earlier attempt: the key of an  *)
(* image has one object in it, and stats() reports as many misses as there *)
(* are distinct images, whichever draws throw and are tried again.         *)
THEOREM ImagesAreOwned == Spec => []ImagesOwned
<1>1. Init => ImagesInv
  <2> SUFFICES ASSUME Init PROVE ImagesInv
    OBVIOUS
  <2>1. render.state = "none" /\ render.doc = <<>> /\ render.opened = <<>> /\ files = <<>>
    BY DEF Init, NoRender
  <2> QED
    BY <2>1, NothingOwned DEF ImagesInv
<1>2. StateInv /\ ImagesInv /\ [Next]_vars => ImagesInv'
  <2> SUFFICES ASSUME StateInv, ImagesInv, [Next]_vars PROVE ImagesInv'
    OBVIOUS
  <2>1. CASE render' = render /\ files' = files
    BY <2>1 DEF ImagesInv
  <2>2. CASE Throw
    BY <2>2, ImagesLeave DEF Throw, ImagesInv
  <2>3. CASE MeasurePass
    <3>1. render' = render /\ (files' = files \/ files' = [j \in DOMAIN shards |-> NoFile])
      BY <2>3 DEF MeasurePass
    <3>2. NoFile.doc = <<>> /\ NoFile.opened = <<>>
      BY DEF NoFile
    <3> QED
      BY <2>1, <3>1, <3>2, NothingOwned DEF ImagesInv
  <2>4. CASE StartRender BY <2>4, ImagesStart
  <2>5. CASE NextSection /\ ~Throw
    <3>1. PICK pages : render' = [render EXCEPT !.turn = @ + 1, !.pages = pages, !.index = 0]
      BY <2>5 DEF NextSection
    <3>2. render.state = "between" /\ files' = files
      BY <2>5 DEF NextSection, Running
    <3>3. IsRender(render)
      BY <3>2, RunningRender
    <3>4. /\ render'.doc = render.doc /\ render'.opened = render.opened
          /\ render'.entries = render.entries
      BY <3>1, <3>3 DEF IsRender
    <3> QED
      BY <3>2, <3>4, ImagesRunning
  <2>6. CASE StartPage BY <2>6, ImagesStartPage
  <2>7. ASSUME NEW key \in Images, GetHit(key) PROVE ImagesInv'
    BY <2>7, ImagesGetHit
  <2>8. ASSUME NEW key \in Images, GetMiss(key) PROVE ImagesInv'
    BY <2>8, ImagesGetMiss
  <2>9. CASE DrawAddsPage BY <2>9, ImagesAddPage
  <2>10. CASE EndPage
    <3>1. render' = [render EXCEPT !.state = "between", !.index = @ + 1, !.inShard = @ + 1]
      BY <2>10 DEF EndPage
    <3>2. render.state = "drawing" /\ files' = files
      BY <2>10 DEF EndPage, Running
    <3>3. IsRender(render)
      BY <3>2, RunningRender
    <3>4. /\ render'.doc = render.doc /\ render'.opened = render.opened
          /\ render'.entries = render.entries
      BY <3>1, <3>3 DEF IsRender
    <3> QED
      BY <3>2, <3>4, ImagesRunning
  <2>11. CASE EndDocument
    <3>1. render' = [render EXCEPT !.state = "closing"]
      BY <2>11 DEF EndDocument
    <3>2. render.state = "between" /\ files' = files
      BY <2>11 DEF EndDocument, Running
    <3>3. IsRender(render)
      BY <3>2, RunningRender
    <3>4. /\ render'.doc = render.doc /\ render'.opened = render.opened
          /\ render'.entries = render.entries
      BY <3>1, <3>3 DEF IsRender
    <3> QED
      BY <3>2, <3>4, ImagesRunning
  <2>12. CASE StreamClosed BY <2>12, ImagesStreamClosed
  <2>13. CASE Partition \/ Assemble \/ AssembleShard \/ Ended \/ UNCHANGED vars
    BY <2>1, <2>13 DEF Partition, Assemble, AssembleShard, Ended, vars
  <2> QED
    BY <2>2, <2>3, <2>4, <2>5, <2>6, <2>7, <2>8, <2>9, <2>10, <2>11, <2>12, <2>13
       DEF Next, DrawThrows
<1>3. ImagesInv => ImagesOwned
  <2> SUFFICES ASSUME ImagesInv PROVE ImagesOwned
    OBVIOUS
  <2>1. render.state # "none" => Stats.distinct = Stats.misses
    BY DEF ImagesInv, Stats
  <2> QED
    BY <2>1 DEF ImagesInv, Owned, ImagesOwned
<1> QED
  BY <1>1, <1>2, <1>3, StateInvariant, PTL DEF Spec

-----------------------------------------------------------------------------
(* What a step makes of the render that runs, field by field.              *)

Kept(r, to) == to.turn = r.turn /\ to.pages = r.pages
Still(r, to) == Kept(r, to) /\ to.index = r.index /\ to.inShard = r.inShard

Fresh(to) ==
    /\ to.state = "between" /\ to.turn = 0 /\ to.pages = 0 /\ to.index = 0
    /\ to.inShard = 0 /\ to.extra = 0

Turned(r, to) ==
    /\ r.state = "between" /\ to.state = "between" /\ r.index = r.pages
    /\ r.turn < Len(shards[shard])
    /\ to.turn = r.turn + 1 /\ to.index = 0 /\ to.inShard = r.inShard
    /\ to.doc = r.doc /\ to.extra = r.extra
    /\ to.pages \in plan[shards[shard][to.turn]].answers /\ ~CountInvalid(to.pages)

IsDrawn(page, r) ==
    /\ page.section = shards[shard][r.turn] /\ page.index = r.index
    /\ page.number = PageOffset(shard) + r.inShard + 1 /\ page.total = TotalPages

Begun(r, to) ==
    /\ r.state = "between" /\ to.state = "drawing" /\ r.index < r.pages
    /\ Still(r, to) /\ to.extra = r.extra
    /\ \E page : /\ IsDrawn(page, r)
                 /\ to.doc = Append(IF r.inShard > 0 THEN r.doc ELSE <<>>, page)

Shown(r, to) ==
    /\ r.state = "drawing" /\ to.state = "drawing" /\ Still(r, to) /\ to.extra = r.extra
    /\ Len(to.doc) = Len(r.doc)
    /\ \A q \in 1..Len(r.doc) : /\ to.doc[q].section = r.doc[q].section
                                /\ to.doc[q].index = r.doc[q].index
                                /\ to.doc[q].number = r.doc[q].number
                                /\ to.doc[q].total = r.doc[q].total

Grown(r, to) ==
    /\ r.state = "drawing" /\ to.state = "drawing" /\ Still(r, to)
    /\ r.extra < MaxExtra /\ to.extra = r.extra + 1 /\ Len(to.doc) = Len(r.doc) + 1

Done(r, to) ==
    /\ r.state = "drawing" /\ to.state = "between" /\ Kept(r, to)
    /\ to.index = r.index + 1 /\ to.inShard = r.inShard + 1
    /\ to.doc = r.doc /\ to.extra = r.extra

Closed(r, to) ==
    /\ r.state = "between" /\ to.state = "closing" /\ Still(r, to)
    /\ r.turn = Len(shards[shard]) /\ r.index = r.pages
    /\ to.doc = r.doc /\ to.extra = r.extra

Moved(r, to) ==
    \/ Turned(r, to) \/ Begun(r, to) \/ Shown(r, to) \/ Grown(r, to)
    \/ Done(r, to) \/ Closed(r, to)

LEMMA MoveTurned ==
    ASSUME StateInv, NextSection, ~Throw PROVE Turned(render, render')
<1>1. PICK pages \in plan[shards[shard][render.turn + 1]].answers :
         /\ ~CountInvalid(pages)
         /\ render' = [render EXCEPT !.turn = @ + 1, !.pages = pages, !.index = 0]
  BY DEF NextSection
<1>2. PICK r, to : r = render /\ to = [r EXCEPT !.turn = @ + 1, !.pages = pages, !.index = 0]
  OBVIOUS
<1>3. /\ r.state = "between" /\ r.index = r.pages /\ r.turn < Len(shards[shard])
  BY <1>2 DEF NextSection
<1>4. IsRender(r)
  BY <1>2, <1>3, RunningRender
<1>5. /\ to.state = r.state /\ to.turn = r.turn + 1 /\ to.pages = pages /\ to.index = 0
      /\ to.inShard = r.inShard /\ to.doc = r.doc /\ to.extra = r.extra
  BY <1>2, <1>4 DEF IsRender
<1> QED
  BY <1>1, <1>2, <1>3, <1>5 DEF Turned

LEMMA MoveBegun == ASSUME StateInv, StartPage PROVE Begun(render, render')
<1>1. render.state = "between" /\ render.index < render.pages
  BY DEF StartPage
<1>2. PICK page : page = [section |-> shards[shard][render.turn], index |-> render.index,
                          number |-> PageOffset(shard) + render.inShard + 1,
                          total |-> TotalPages, images |-> {}]
  OBVIOUS
<1>3. PICK r, doc : /\ r = render
                    /\ doc = Append(IF r.inShard > 0 THEN r.doc ELSE <<>>, page)
  OBVIOUS
<1>4. render' = [r EXCEPT !.state = "drawing", !.doc = doc]
  BY <1>2, <1>3 DEF StartPage, PageStarted
<1>5. IsRender(r)
  BY <1>1, <1>3, RunningRender
<1>6. PICK to : to = [r EXCEPT !.state = "drawing", !.doc = doc] /\ render' = to
  BY <1>4
<1>7. /\ to.state = "drawing" /\ to.turn = r.turn /\ to.pages = r.pages /\ to.index = r.index
      /\ to.inShard = r.inShard /\ to.doc = doc /\ to.extra = r.extra
  BY <1>5, <1>6 DEF IsRender
<1>8. IsDrawn(page, r)
  BY <1>2, <1>3 DEF IsDrawn
<1> QED
  BY <1>1, <1>3, <1>6, <1>7, <1>8 DEF Begun, Still, Kept

LEMMA ShownSame ==
    ASSUME StateInv, render.state = "drawing", NEW handle \in HandlesIn(shards),
           NEW to, to.doc = OnPage(render.doc, handle), to.state = "drawing",
           Still(render, to), to.extra = render.extra
    PROVE  Shown(render, to)
<1>1. PICK old, doc : old = render.doc /\ doc = OnPage(old, handle) /\ to.doc = doc
  OBVIOUS
<1>2. old \in Seq(Recorded(plan, shards)) /\ old # <<>>
  BY <1>1, RunningRender
<1> QED
  BY <1>1, <1>2, OnPageFacts DEF Shown

LEMMA MoveHit == ASSUME StateInv, NEW key \in Images, GetHit(key) PROVE Shown(render, render')
<1>1. render.state = "drawing"
  BY DEF GetHit, MayShow
<1>2. PICK r : r = render /\ IsRender(r) /\ r \in Renders(plan, shards)
  BY <1>1, RunningRender
<1>3. PICK handle \in r.entries : render' = [r EXCEPT !.doc = OnPage(r.doc, handle)]
  BY <1>2 DEF GetHit
<1>4. PICK doc, to : /\ doc = OnPage(r.doc, handle) /\ to = [r EXCEPT !.doc = doc]
                     /\ render' = to
  BY <1>3
<1>5. /\ to.state = r.state /\ to.turn = r.turn /\ to.pages = r.pages /\ to.index = r.index
      /\ to.inShard = r.inShard /\ to.doc = doc /\ to.extra = r.extra
  BY <1>2, <1>4 DEF IsRender
<1>6. handle \in HandlesIn(shards)
  <2>1. PICK H : H = HandlesIn(shards) /\ r.entries \in SUBSET H
    BY <1>2, RenderFields
  <2> QED
    BY <1>3, <2>1
<1>7. Still(render, to) /\ to.doc = OnPage(render.doc, handle) /\ to.extra = render.extra
      /\ to.state = "drawing"
  BY <1>1, <1>2, <1>4, <1>5 DEF Still, Kept
<1> QED
  BY <1>1, <1>4, <1>6, <1>7, ShownSame

LEMMA MoveMiss == ASSUME StateInv, NEW key \in Images, GetMiss(key) PROVE Shown(render, render')
<1>1. render.state = "drawing"
  BY DEF GetMiss, MayShow
<1>2. PICK r : r = render /\ IsRender(r)
  BY <1>1, RunningRender
<1>3. PICK handle : handle = [key |-> key, owner |-> <<shard, attempt>>]
  OBVIOUS
<1>4. PICK entries, opened, doc :
         /\ entries = r.entries \cup {handle} /\ opened = Append(r.opened, handle)
         /\ doc = OnPage(r.doc, handle)
  OBVIOUS
<1>5. PICK to : /\ to = [r EXCEPT !.entries = entries, !.opened = opened, !.doc = doc]
                /\ render' = to
  BY <1>2, <1>3, <1>4 DEF GetMiss
<1>6. /\ to.state = r.state /\ to.turn = r.turn /\ to.pages = r.pages /\ to.index = r.index
      /\ to.inShard = r.inShard /\ to.doc = doc /\ to.extra = r.extra
  BY <1>2, <1>5 DEF IsRender
<1>7. handle \in HandlesIn(shards)
  <2>1. pc = "rendering" /\ attempt \in 1..Attempts
    BY <1>1 DEF StateInv, RenderInv, RenderFits
  <2>2. shard \in DOMAIN shards
    BY <2>1, RenderingFacts
  <2> QED
    BY <1>3, <2>1, <2>2 DEF HandlesIn
<1>8. Still(render, to) /\ to.doc = OnPage(render.doc, handle) /\ to.extra = render.extra
      /\ to.state = "drawing"
  BY <1>1, <1>2, <1>4, <1>6 DEF Still, Kept
<1> QED
  BY <1>1, <1>5, <1>7, <1>8, ShownSame

LEMMA MoveGrown == ASSUME StateInv, DrawAddsPage PROVE Grown(render, render')
<1>1. render.state = "drawing" /\ render.extra < MaxExtra
  BY DEF DrawAddsPage
<1>2. PICK r, old, doc, extra : /\ r = render /\ IsRender(r) /\ old = r.doc /\ IsSeq(old)
                                /\ doc = Append(old, Blank) /\ extra = r.extra + 1
  BY <1>1, RunningRender
<1>3. PICK to : to = [r EXCEPT !.doc = doc, !.extra = extra] /\ render' = to
  BY <1>2 DEF DrawAddsPage
<1>4. /\ to.state = r.state /\ to.turn = r.turn /\ to.pages = r.pages /\ to.index = r.index
      /\ to.inShard = r.inShard /\ to.doc = doc /\ to.extra = extra
  BY <1>2, <1>3 DEF IsRender
<1>5. Len(doc) = Len(old) + 1
  BY <1>2, Appended
<1> QED
  BY <1>1, <1>2, <1>3, <1>4, <1>5 DEF Grown, Still, Kept

LEMMA MoveDone == ASSUME StateInv, EndPage PROVE Done(render, render')
<1>1. render.state = "drawing"
  BY DEF EndPage
<1>2. PICK r, to : /\ r = render /\ IsRender(r) /\ render' = to
                   /\ to = [r EXCEPT !.state = "between", !.index = @ + 1, !.inShard = @ + 1]
  BY <1>1, RunningRender DEF EndPage
<1>3. /\ to.state = "between" /\ to.turn = r.turn /\ to.pages = r.pages
      /\ to.index = r.index + 1 /\ to.inShard = r.inShard + 1
      /\ to.doc = r.doc /\ to.extra = r.extra
  BY <1>2 DEF IsRender
<1> QED
  BY <1>1, <1>2, <1>3 DEF Done, Kept

LEMMA MoveClosed == ASSUME StateInv, EndDocument PROVE Closed(render, render')
<1>1. /\ render.state = "between" /\ render.index = render.pages
      /\ render.turn = Len(shards[shard])
  BY DEF EndDocument
<1>2. PICK r, to : /\ r = render /\ IsRender(r) /\ render' = to
                   /\ to = [r EXCEPT !.state = "closing"]
  BY <1>1, RunningRender DEF EndDocument
<1>3. /\ to.state = "closing" /\ to.turn = r.turn /\ to.pages = r.pages
      /\ to.index = r.index /\ to.inShard = r.inShard /\ to.doc = r.doc /\ to.extra = r.extra
  BY <1>2 DEF IsRender
<1> QED
  BY <1>1, <1>2, <1>3 DEF Closed, Still, Kept

LEMMA FreshStart == ASSUME StartRender PROVE Fresh(render')
<1>1. PICK page, n : page = Blank /\ n = NoRender
  OBVIOUS
<1>2. IsRender(n) /\ n.turn = 0 /\ n.pages = 0 /\ n.index = 0 /\ n.inShard = 0 /\ n.extra = 0
  BY <1>1 DEF NoRender, IsRender
<1>3. PICK doc, r : doc = <<page>> /\ r = [n EXCEPT !.state = "between", !.doc = doc]
  OBVIOUS
<1>4. render' = r
  BY <1>1, <1>3 DEF StartRender, NewRender
<1> QED
  BY <1>2, <1>3, <1>4 DEF Fresh, IsRender

LEMMA LeftRender == ASSUME Leave PROVE render'.state = "none"
<1>1. PICK e, r : e = render.entries /\ r = [NoRender EXCEPT !.entries = e] /\ render' = r
  BY DEF Leave
<1> QED
  BY <1>1 DEF NoRender

LEMMA RenderMoves ==
    ASSUME StateInv, [Next]_vars, render'.state # "none"
    PROVE  /\ UNCHANGED <<plan, shards, measures, shard>>
           /\ \/ Fresh(render') \/ render' = render
              \/ render.state # "none" /\ Moved(render, render')
<1>1. CASE UNCHANGED vars
  BY <1>1 DEF vars
<1>2. CASE Partition \/ MeasurePass
  <2>1. render = NoRender /\ render' = render
    BY <1>2 DEF Partition, MeasurePass, StateInv, RenderInv, Early
  <2> QED
    BY <2>1 DEF NoRender
<1>3. CASE Assemble \/ AssembleShard \/ Ended
  <2>1. render.state = "none" \/ UNCHANGED vars
    BY <1>3 DEF Assemble, AssembleShard, Ended, StateInv, RenderInv, RenderFits
  <2>2. render' = render
    BY <1>3 DEF Assemble, AssembleShard, Ended, vars
  <2> QED
    BY <1>1, <2>1, <2>2
<1>4. CASE Leave
  BY <1>4, LeftRender
<1>5. CASE StartRender
  BY <1>5, FreshStart DEF StartRender
<1>6. CASE NextSection /\ ~Throw
  <2>1. Turned(render, render')
    BY <1>6, MoveTurned
  <2> QED
    BY <1>6, <2>1 DEF NextSection, Running, Moved
<1>7. CASE StartPage
  BY <1>7, MoveBegun DEF StartPage, Running, Moved
<1>8. ASSUME NEW key \in Images, GetHit(key) PROVE Shown(render, render') /\ UNCHANGED Running
  BY <1>8, MoveHit DEF GetHit
<1>9. ASSUME NEW key \in Images, GetMiss(key) PROVE Shown(render, render') /\ UNCHANGED Running
  BY <1>9, MoveMiss DEF GetMiss
<1>10. CASE UNCHANGED Running /\ Shown(render, render')
  BY <1>10 DEF Running, Shown, Moved
<1>11. CASE DrawAddsPage
  BY <1>11, MoveGrown DEF DrawAddsPage, Running, Moved
<1>12. CASE EndPage
  BY <1>12, MoveDone DEF EndPage, Running, Moved
<1>13. CASE EndDocument
  BY <1>13, MoveClosed DEF EndDocument, Running, Moved
<1>14. StreamClosed => Leave
  BY DEF StreamClosed, Resolve, Throw
<1>15. (NextSection /\ Throw) \/ DrawThrows => Leave
  BY DEF DrawThrows, Throw
<1> QED
  BY <1>1, <1>2, <1>3, <1>4, <1>5, <1>6, <1>7, <1>8, <1>9, <1>10, <1>11, <1>12, <1>13,
     <1>14, <1>15 DEF Next

-----------------------------------------------------------------------------
(* Numbers: as long as a draw has added no page of its own, the document   *)
(* holds one page for every draw, numbered from the offset of its shard.   *)

Drawn(r) == r.inShard + (IF r.state = "drawing" THEN 1 ELSE 0)

PageRight(page, number) ==
    page.section # 0 /\ page.number = number /\ page.total = TotalPages

DrawnFits(r) ==
    /\ Drawn(r) = 0 => r.extra = 0
    /\ Drawn(r) > 0 => Len(r.doc) = Drawn(r) + r.extra
    /\ r.inShard >= r.index
    /\ r.turn = 0 => r.inShard = 0
    /\ r.turn > 0 => r.pages >= 1
    /\ r.state = "closing" => r.turn = Len(shards[shard]) /\ r.index = r.pages
    /\ r.extra = 0 => \A q \in 1..Drawn(r) : PageRight(r.doc[q], PageOffset(shard) + q)

DrawnInv == render.state # "none" => DrawnFits(render)

(* The types of a render, in what they say of numbers.                     *)
Sized(r) ==
    /\ r.turn \in Nat /\ r.pages \in Nat /\ r.index \in Nat /\ r.inShard \in Nat
    /\ r.extra \in Nat /\ IsSeq(r.doc) /\ Len(r.doc) \in Nat
    /\ r.index <= r.pages /\ (r.turn = 0 => r.pages = 0)
    /\ r.state = "drawing" => r.index < r.pages

LEMMA IsSized == ASSUME StateInv PROVE Sized(render)
<1>1. /\ render \in Renders(plan, shards) /\ render.index <= render.pages
      /\ render.turn = 0 => render.pages = 0
      /\ render.state = "drawing" => render.index < render.pages
  BY DEF StateInv, RenderInv, RenderFits
<1>2. /\ render.turn \in Nat /\ render.pages \in Nat /\ render.index \in Nat
      /\ render.inShard \in Nat /\ render.extra \in 0..MaxExtra
      /\ render.doc \in Seq(Recorded(plan, shards))
  BY <1>1, RenderFields
<1>3. IsSeq(render.doc) /\ Len(render.doc) \in Nat
  BY <1>2, SeqRange
<1> QED
  BY <1>1, <1>2, <1>3, ExtraNatural DEF Sized

(* The document after a page has begun: the pages of the draws before, and *)
(* that one.                                                               *)
LEMMA BegunDoc ==
    ASSUME NEW r, NEW to, Sized(r), DrawnFits(r), Begun(r, to)
    PROVE  /\ Drawn(r) = r.inShard /\ Drawn(to) = r.inShard + 1
           /\ Len(to.doc) = Drawn(to) + to.extra /\ to.extra = r.extra
           /\ r.extra = 0 => /\ IsDrawn(to.doc[Drawn(to)], r)
                             /\ \A q \in 1..r.inShard : to.doc[q] = r.doc[q]
<1>1. PICK page, base : /\ IsDrawn(page, r) /\ base = (IF r.inShard > 0 THEN r.doc ELSE <<>>)
                        /\ to.doc = Append(base, page)
  BY DEF Begun
<1>2. /\ Drawn(r) = r.inShard /\ Drawn(to) = r.inShard + 1 /\ to.extra = r.extra
      /\ r.inShard \in Nat /\ r.extra \in Nat
  BY DEF Begun, Still, Drawn, Sized
<1>3. IsSeq(base) /\ Len(base) = r.inShard + r.extra
  <2>1. IsSeq(<<>>) /\ Len(<<>>) = 0
    BY DEF IsSeq
  <2>2. CASE r.inShard > 0
    BY <1>1, <1>2, <2>2 DEF DrawnFits, Sized
  <2>3. CASE ~(r.inShard > 0)
    BY <1>1, <1>2, <2>1, <2>3 DEF DrawnFits
  <2> QED
    BY <2>2, <2>3
<1>4. PICK doc : doc = Append(base, page) /\ to.doc = doc
  BY <1>1
<1>5. /\ Len(doc) = Len(base) + 1 /\ doc[Len(base) + 1] = page
      /\ \A q \in 1..Len(base) : doc[q] = base[q]
  BY <1>3, <1>4, Appended
<1>6. Len(doc) = Drawn(to) + to.extra /\ Len(doc) = r.inShard + r.extra + 1
  BY <1>2, <1>3, <1>5
<1>7. ASSUME r.extra = 0 PROVE doc[Drawn(to)] = page
  BY <1>2, <1>3, <1>5, <1>7
<1>8. ASSUME r.extra = 0, NEW q \in 1..r.inShard PROVE doc[q] = r.doc[q]
  <2>1. r.inShard > 0 /\ q \in 1..Len(base)
    BY <1>2, <1>3, <1>8
  <2>2. base[q] = r.doc[q]
    BY <1>1, <2>1
  <2> QED
    BY <1>5, <2>1, <2>2
<1> QED
  BY <1>1, <1>2, <1>4, <1>6, <1>7, <1>8

LEMMA DrawnMoves ==
    ASSUME StateInv, render.state # "none", NEW r, NEW to, r = render,
           DrawnFits(r), Moved(r, to)
    PROVE  DrawnFits(to)
<1>1. Sized(r) /\ pc = "rendering"
  BY IsSized, RunningRender
<1>2. PageOffset(shard) \in Nat
  BY <1>1, PageNumbers
<1>3. PICK offset : offset = PageOffset(shard) /\ offset \in Nat
  BY <1>2
<1>4. CASE Turned(r, to)
  <2>1. to.pages >= 1
    <3>1. PICK D, s : D = DOMAIN plan /\ s = shards[shard] /\ s \in Seq(D)
      BY <1>1, RenderingFacts
    <3>2. to.turn \in 1..Len(s)
      <4>1. Len(s) \in Nat
        BY <3>1, SeqRange
      <4> QED
        BY <1>1, <1>4, <3>1, <4>1 DEF Turned, Sized
    <3>3. s[to.turn] \in D
      BY <3>1, <3>2, SeqRange
    <3>4. IsSection(plan[s[to.turn]])
      BY <1>1, <3>1, <3>3, RenderingFacts, PlanFacts
    <3>5. to.pages \in Int
      BY <1>4, <3>1, <3>4 DEF IsSection, IsTemplate, Turned
    <3> QED
      BY <1>4, <3>5 DEF Turned, CountInvalid
  <2>2. /\ Drawn(to) = Drawn(r) /\ to.doc = r.doc /\ to.extra = r.extra /\ to.inShard = r.inShard
        /\ to.index = 0 /\ to.state = "between" /\ to.turn = r.turn + 1
    BY <1>4 DEF Turned, Drawn
  <2> QED
    BY <1>1, <2>1, <2>2 DEF DrawnFits, Sized
<1>5. CASE Begun(r, to)
  <2>1. /\ Drawn(r) = r.inShard /\ Drawn(to) = r.inShard + 1
        /\ Len(to.doc) = Drawn(to) + to.extra /\ to.extra = r.extra
        /\ r.extra = 0 => /\ IsDrawn(to.doc[Drawn(to)], r)
                          /\ \A q \in 1..r.inShard : to.doc[q] = r.doc[q]
    BY <1>1, <1>5, BegunDoc
  <2>2. /\ to.state = "drawing" /\ to.inShard = r.inShard /\ to.index = r.index
        /\ to.turn = r.turn /\ to.pages = r.pages /\ r.state # "none" /\ r.index < r.pages
    BY <1>5 DEF Begun, Still, Kept
  <2>3. shards[shard][r.turn] # 0
    <3>1. shards[shard][r.turn] \in DOMAIN plan /\ plan \in Plans
      BY <1>1, <2>2, DrawingFacts, RenderingFacts
    <3> QED
      BY <3>1, PlanFacts
  <2>4. r.extra = 0 => \A q \in 1..Drawn(to) : PageRight(to.doc[q], offset + q)
    <3> SUFFICES ASSUME r.extra = 0, NEW q \in 1..Drawn(to)
                 PROVE  PageRight(to.doc[q], offset + q)
      OBVIOUS
    <3>1. CASE q = Drawn(to)
      <4>1. offset + r.inShard + 1 = offset + q
        BY <1>1, <1>3, <2>1, <3>1 DEF Sized
      <4> QED
        BY <1>3, <2>1, <2>3, <3>1, <4>1 DEF PageRight, IsDrawn
    <3>2. CASE q # Drawn(to)
      <4>1. q \in 1..r.inShard
        BY <1>1, <2>1, <3>2 DEF Sized
      <4> QED
        BY <1>3, <2>1, <4>1 DEF DrawnFits
    <3> QED
      BY <3>1, <3>2
  <2> QED
    BY <1>1, <1>3, <2>1, <2>2, <2>4 DEF DrawnFits, Sized
<1>6. CASE Shown(r, to)
  <2>1. Drawn(to) = Drawn(r) /\ Drawn(r) = r.inShard + 1
    BY <1>6 DEF Shown, Still, Drawn
  <2>2. Len(r.doc) = Drawn(r) + r.extra
    BY <1>1, <2>1 DEF DrawnFits, Sized
  <2>3. /\ to.state = "drawing" /\ to.turn = r.turn /\ to.pages = r.pages
        /\ to.index = r.index /\ to.inShard = r.inShard /\ to.extra = r.extra
        /\ Len(to.doc) = Len(r.doc)
    BY <1>6 DEF Shown, Still, Kept
  <2>4. to.extra = 0 => \A q \in 1..Drawn(to) : PageRight(to.doc[q], offset + q)
    <3> SUFFICES ASSUME r.extra = 0, NEW q \in 1..Drawn(r)
                 PROVE  PageRight(to.doc[q], offset + q)
      BY <2>1, <2>3
    <3>1. q \in 1..Len(r.doc)
      BY <1>1, <2>1, <2>2 DEF Sized
    <3>2. PageRight(r.doc[q], offset + q)
      BY <1>3 DEF DrawnFits
    <3> QED
      BY <1>6, <3>1, <3>2 DEF PageRight, Shown
  <2>5. Drawn(to) > 0 /\ Len(to.doc) = Drawn(to) + to.extra
    BY <1>1, <2>1, <2>2, <2>3 DEF Sized
  <2>6. to.inShard >= to.index /\ (to.turn = 0 => to.inShard = 0) /\ (to.turn > 0 => to.pages >= 1)
    BY <2>3 DEF DrawnFits
  <2> QED
    BY <1>3, <2>3, <2>4, <2>5, <2>6 DEF DrawnFits
<1>7. CASE Grown(r, to)
  <2>1. Drawn(to) = Drawn(r) /\ Drawn(r) = r.inShard + 1
    BY <1>7 DEF Grown, Still, Drawn
  <2>2. /\ to.extra = r.extra + 1 /\ Len(to.doc) = Len(r.doc) + 1 /\ to.state = "drawing"
        /\ to.turn = r.turn /\ to.pages = r.pages /\ to.index = r.index
        /\ to.inShard = r.inShard
    BY <1>7 DEF Grown, Still, Kept
  <2>3. to.extra # 0 /\ Len(to.doc) = Drawn(to) + to.extra /\ Drawn(to) > 0
    <3>1. /\ r.inShard \in Nat /\ r.extra \in Nat /\ Len(r.doc) \in Nat /\ Drawn(r) > 0
          /\ Drawn(r) \in Nat
      BY <1>1, <2>1 DEF Sized
    <3>2. Len(r.doc) = Drawn(r) + r.extra
      BY <3>1 DEF DrawnFits
    <3> QED
      BY <2>1, <2>2, <3>1, <3>2
  <2> QED
    BY <2>2, <2>3 DEF DrawnFits
<1>8. CASE Done(r, to)
  <2>1. Drawn(to) = Drawn(r) /\ Drawn(r) = r.inShard + 1
    BY <1>1, <1>8 DEF Done, Drawn, Sized
  <2>2. /\ to.extra = r.extra /\ to.doc = r.doc /\ to.state = "between"
        /\ to.turn = r.turn /\ to.pages = r.pages /\ to.index = r.index + 1
        /\ to.inShard = r.inShard + 1 /\ r.turn # 0
    BY <1>1, <1>8 DEF Sized, Done, Kept
  <2> QED
    BY <1>1, <2>1, <2>2 DEF DrawnFits, Sized
<1>9. CASE Closed(r, to)
  <2>1. Drawn(to) = Drawn(r)
    BY <1>9 DEF Closed, Still, Drawn
  <2> QED
    BY <1>1, <1>9, <2>1 DEF DrawnFits, Sized, Closed, Still, Kept
<1> QED
  BY <1>4, <1>5, <1>6, <1>7, <1>8, <1>9 DEF Moved

LEMMA DrawnFresh == ASSUME NEW to, Fresh(to) PROVE DrawnFits(to)
<1>1. Drawn(to) = 0 /\ to.extra = 0 /\ to.inShard = 0 /\ to.index = 0 /\ to.turn = 0
      /\ to.state = "between"
  BY DEF Fresh, Drawn
<1> QED
  BY <1>1, NoneBelow DEF DrawnFits

LEMMA DrawnInvariant == Spec => []DrawnInv
<1>1. Init => DrawnInv
  BY DEF Init, NoRender, DrawnInv
<1>2. StateInv /\ DrawnInv /\ [Next]_vars => DrawnInv'
  <2> SUFFICES ASSUME StateInv, DrawnInv, [Next]_vars, render'.state # "none"
               PROVE  DrawnFits(render)'
    BY DEF DrawnInv
  <2>1. /\ plan' = plan /\ shards' = shards /\ measures' = measures /\ shard' = shard
        /\ \/ Fresh(render') \/ render' = render
           \/ render.state # "none" /\ Moved(render, render')
    BY RenderMoves
  <2>2. PICK r, to : r = render /\ to = render'
    OBVIOUS
  <2>3. DrawnFits(to)
    <3>1. CASE Fresh(to)
      BY <3>1, DrawnFresh
    <3>2. CASE to = r
      BY <2>2, <3>2 DEF DrawnInv
    <3>3. CASE render.state # "none" /\ Moved(r, to)
      BY <2>2, <3>3, DrawnMoves DEF DrawnInv
    <3> QED
      BY <2>1, <2>2, <3>1, <3>2, <3>3
  <2> QED
    BY <2>1, <2>2, <2>3 DEF DrawnFits, PageRight, PageOffset, TotalPages
<1> QED
  BY <1>1, <1>2, StateInvariant, PTL DEF Spec

-----------------------------------------------------------------------------
(* Templates that answer in the second pass as many pages as in the first, *)
(* or more, or what is refused: without it the property AnchorsLand is     *)
(* false.                                                                  *)
NeverFewer ==
    \A p \in Plans : \A s \in ToSet(p) : \A n \in s.answers : CountInvalid(n) \/ n >= s.pages

Pages(t) == plan[shards[shard][t]].pages

(* No section is drawn before the place that pass 1 has computed.          *)
SteadyAt(r, b) ==
    r.turn > 0 => r.pages >= Pages(r.turn) /\ r.inShard - r.index >= b[r.turn]

SteadyFits(r) ==
    \A b : MeasuredAs(plan, measures[shard], shards[shard], b) => SteadyAt(r, b)

SteadyInv == render.state # "none" => SteadyFits(render)

LEMMA TurnFacts ==
    ASSUME StateInv, pc = "rendering", NEW t \in 1..Len(shards[shard])
    PROVE  /\ shards[shard][t] \in DOMAIN plan
           /\ IsSection(plan[shards[shard][t]])
           /\ plan[shards[shard][t]] \in ToSet(plan) /\ plan \in Plans
<1>1. PICK D, s : D = DOMAIN plan /\ s = shards[shard] /\ s \in Seq(D)
  BY RenderingFacts
<1>2. s[t] \in D
  BY <1>1, SeqRange
<1> QED
  BY <1>1, <1>2, RenderingFacts, PlanFacts DEF ToSet

LEMMA SteadyMoves ==
    ASSUME NeverFewer, StateInv, render.state # "none", NEW r, NEW to, r = render,
           DrawnFits(r), SteadyFits(r), Moved(r, to)
    PROVE  SteadyFits(to)
<1>1. Sized(r) /\ pc = "rendering"
  BY IsSized, RunningRender
<1> SUFFICES ASSUME NEW b, MeasuredAs(plan, measures[shard], shards[shard], b)
             PROVE  SteadyAt(to, b)
  BY DEF SteadyFits
<1>2. IsStarts(plan, shards[shard], b) /\ SteadyAt(r, b)
  BY DEF MeasuredAs, SteadyFits
<1>3. PICK n : n = Len(shards[shard]) /\ n \in Nat
  <2>1. PICK D, s : D = DOMAIN plan /\ s = shards[shard] /\ s \in Seq(D)
    BY <1>1, RenderingFacts
  <2> QED
    BY <2>1, SeqRange
<1>4. /\ b[1] = 0
      /\ \A t \in 1..n : /\ b[t] \in Nat /\ b[t + 1] \in Nat /\ Pages(t) \in Nat \ {0}
                         /\ b[t + 1] = b[t] + Pages(t)
  BY <1>2, <1>3 DEF IsStarts, Pages
<1>5. CASE Turned(r, to)
  <2>1. PICK u : u = r.turn + 1 /\ u \in 1..n /\ to.turn = u
    <3>1. r.turn \in Nat /\ r.turn < n /\ to.turn = r.turn + 1
      BY <1>1, <1>3, <1>5 DEF Turned, Sized
    <3>2. r.turn + 1 \in 1..n
      BY <1>3, <3>1
    <3> QED
      BY <3>1, <3>2
  <2>2. to.pages >= Pages(u)
    <3>1. PICK x : x = plan[shards[shard][u]] /\ x \in ToSet(plan) /\ plan \in Plans
      BY <1>1, <1>3, <2>1, TurnFacts
    <3>2. to.pages \in x.answers /\ ~CountInvalid(to.pages)
      BY <1>5, <2>1, <3>1 DEF Turned
    <3> QED
      BY <3>1, <3>2 DEF NeverFewer, Pages
  <2>3. to.inShard - to.index >= b[u]
    <3>1. to.index = 0 /\ to.inShard = r.inShard /\ r.index = r.pages
      BY <1>5 DEF Turned
    <3>2. CASE r.turn = 0
      BY <1>1, <1>4, <2>1, <3>1, <3>2 DEF Sized, DrawnFits
    <3>3. CASE r.turn # 0
      <4>1. PICK t : t = r.turn /\ t \in 1..n /\ t > 0 /\ u = t + 1
        <5>1. r.turn \in Nat /\ r.turn > 0 /\ r.turn + 1 \in 1..n
          BY <1>1, <2>1, <3>3 DEF Sized
        <5>2. r.turn \in 1..n
          BY <1>3, <5>1
        <5> QED
          BY <2>1, <5>1, <5>2
      <4>2. r.pages >= Pages(t) /\ r.inShard - r.index >= b[t]
        BY <1>2, <4>1 DEF SteadyAt
      <4>3. b[u] = b[t] + Pages(t) /\ b[t] \in Nat /\ Pages(t) \in Nat
        BY <1>4, <4>1
      <4>4. r.pages \in Nat /\ r.inShard \in Nat
        BY <1>1 DEF Sized
      <4>5. r.inShard >= b[u]
        BY <3>1, <4>2, <4>3, <4>4
      <4>6. r.inShard - 0 = r.inShard
        BY <4>4
      <4> QED
        BY <3>1, <4>5, <4>6
    <3> QED
      BY <3>2, <3>3
  <2> QED
    BY <2>1, <2>2, <2>3 DEF SteadyAt
<1>6. CASE Begun(r, to) \/ Shown(r, to) \/ Grown(r, to) \/ Closed(r, to)
  BY <1>2, <1>6 DEF Begun, Shown, Grown, Closed, Still, Kept, SteadyAt
<1>7. CASE Done(r, to)
  <2>1. /\ to.turn = r.turn /\ to.pages = r.pages /\ to.index = r.index + 1
        /\ to.inShard = r.inShard + 1
    BY <1>7 DEF Done, Kept
  <2>2. to.inShard - to.index = r.inShard - r.index
    <3>1. PICK p, i : p = r.inShard /\ i = r.index /\ p \in Nat /\ i \in Nat
      BY <1>1 DEF Sized
    <3>2. to.inShard = p + 1 /\ to.index = i + 1
      BY <2>1, <3>1
    <3>3. (p + 1) - (i + 1) = p - i
      BY <3>1
    <3> QED
      BY <3>1, <3>2, <3>3
  <2> QED
    BY <1>2, <2>1, <2>2 DEF SteadyAt
<1> QED
  BY <1>5, <1>6, <1>7 DEF Moved

LEMMA SteadyInvariant == ASSUME NeverFewer PROVE Spec => []SteadyInv
<1>1. Init => SteadyInv
  BY DEF Init, NoRender, SteadyInv
<1>2. StateInv /\ DrawnInv /\ SteadyInv /\ [Next]_vars => SteadyInv'
  <2> SUFFICES ASSUME StateInv, DrawnInv, SteadyInv, [Next]_vars, render'.state # "none"
               PROVE  SteadyFits(render)'
    BY DEF SteadyInv
  <2>1. /\ plan' = plan /\ shards' = shards /\ measures' = measures /\ shard' = shard
        /\ \/ Fresh(render') \/ render' = render
           \/ render.state # "none" /\ Moved(render, render')
    BY RenderMoves
  <2>2. PICK r, to : r = render /\ to = render'
    OBVIOUS
  <2>3. SteadyFits(to)
    <3>1. CASE Fresh(to)
      <4>1. ~(to.turn > 0)
        BY <3>1 DEF Fresh
      <4> QED
        BY <4>1 DEF SteadyFits, SteadyAt
    <3>2. CASE to = r
      BY <2>2, <3>2 DEF SteadyInv
    <3>3. CASE render.state # "none" /\ Moved(r, to)
      BY <2>2, <3>3, SteadyMoves DEF DrawnInv, SteadyInv
    <3> QED
      BY <2>1, <2>2, <3>1, <3>2, <3>3
  <2>4. ASSUME NEW b, MeasuredAs(plan, measures[shard], shards[shard], b)'
        PROVE  SteadyAt(render, b)'
    <3>1. MeasuredAs(plan, measures[shard], shards[shard], b)
      BY <2>1, <2>4
    <3>2. SteadyAt(to, b)
      BY <2>3, <3>1 DEF SteadyFits
    <3> QED
      BY <2>1, <2>2, <3>2 DEF SteadyAt, Pages
  <2> QED
    BY <2>4 DEF SteadyFits
<1> QED
  BY <1>1, <1>2, StateInvariant, DrawnInvariant, PTL DEF Spec

-----------------------------------------------------------------------------
(* A render that ends with as many pages as pass 1 has counted has none    *)
(* that a draw has added: when no draw may add one, or no section draws    *)
(* fewer pages than it was counted with.                                   *)
Numbering == NeverFewer \/ MaxExtra = 0

LEMMA ClosingFacts ==
    ASSUME StateInv, DrawnInv, Numbering, NeverFewer => SteadyInv,
           render.state = "closing", Len(render.doc) = measures[shard].pageCount
    PROVE  /\ render.extra = 0 /\ Drawn(render) = Len(render.doc)
           /\ NeverFewer => \A b : MeasuredAs(plan, measures[shard], shards[shard], b) =>
                 /\ Drawn(render) = b[Len(shards[shard]) + 1]
                 /\ render.inShard - render.index = b[Len(shards[shard])]
<1>1. PICK r : r = render /\ Sized(r) /\ DrawnFits(r) /\ pc = "rendering"
  BY IsSized, RunningRender DEF DrawnInv
<1>2. PICK n : n = Len(shards[shard]) /\ n \in Nat /\ n > 0
  <2>1. PICK D, s : D = DOMAIN plan /\ s = shards[shard] /\ s \in Seq(D)
    BY <1>1, RenderingFacts
  <2>2. s # <<>>
    BY <1>1, <2>1, RenderingFacts DEF StateInv, PlanInv, Partitioned, Packing
  <2> QED
    BY <2>1, <2>2, SeqRange
<1>3. r.turn = n /\ r.index = r.pages /\ r.pages >= 1 /\ r.inShard >= r.index
  BY <1>1, <1>2 DEF DrawnFits, Sized
<1>4. Drawn(r) = r.inShard /\ r.inShard > 0 /\ r.inShard \in Nat /\ r.extra \in Nat
  BY <1>1, <1>3 DEF Drawn, Sized
<1>5. Len(r.doc) = r.inShard + r.extra
  BY <1>1, <1>4 DEF DrawnFits
<1>6. ASSUME NeverFewer, NEW b, MeasuredAs(plan, measures[shard], shards[shard], b)
      PROVE  /\ r.extra = 0 /\ r.inShard = b[n + 1] /\ r.inShard - r.index = b[n]
  <2>1. SteadyAt(r, b)
    BY <1>1, <1>6 DEF SteadyInv, SteadyFits
  <2>2. r.pages >= Pages(n) /\ r.inShard - r.index >= b[n]
    BY <1>2, <1>3, <2>1 DEF SteadyAt
  <2>3. /\ b[n] \in Nat /\ b[n + 1] \in Nat /\ Pages(n) \in Nat /\ b[n + 1] = b[n] + Pages(n)
        /\ measures[shard].pageCount = b[n + 1]
    BY <1>2, <1>6 DEF MeasuredAs, IsStarts, Pages
  <2>4. r.inShard + r.extra = b[n + 1]
    BY <1>1, <1>5, <2>3
  <2>5. r.pages \in Nat /\ r.index = r.pages
    BY <1>1, <1>3 DEF Sized
  <2> QED
    BY <1>4, <2>2, <2>3, <2>4, <2>5
<1>7. r.extra = 0
  <2>1. CASE NeverFewer
    <3>1. Measured(plan, measures[shard], shards[shard])
      BY <1>1, RenderingFacts DEF MeasuresOf
    <3> QED
      BY <1>6, <2>1, <3>1 DEF Measured
  <2>2. CASE MaxExtra = 0
    <3>1. r.extra \in 0..MaxExtra
      BY <1>1, RenderingFacts, RenderFields
    <3> QED
      BY <2>2, <3>1
  <2> QED
    BY <2>1, <2>2 DEF Numbering
<1> QED
  BY <1>1, <1>2, <1>4, <1>5, <1>6, <1>7

(* A shard that is whole and agrees with pass 1 is numbered as its place   *)
(* in the document demands.                                                *)
Agreed(j) == files[j].state = "whole" /\ Agree(j)

FileNumbered(j) ==
    Agreed(j) => \A q \in 1..Len(files[j].doc) :
                     PageRight(files[j].doc[q], PageOffset(j) + q)

NumberInv == pc \in Late => \A j \in 1..Len(shards) : FileNumbered(j)

(* How the files change while generate() renders and assembles.            *)
LEMMA FilesMove ==
    ASSUME StateInv, [Next]_vars, pc' \in Late
    PROVE  /\ shards' = shards /\ plan' = plan
           /\ \/ \A j \in 1..Len(shards') : files'[j].state = "absent"
              \/ /\ pc \in Late /\ measures' = measures
                 /\ \/ files' = files
                    \/ /\ \A j \in 1..Len(shards) : j # shard => files'[j] = files[j]
                       /\ \/ files'[shard].state = "torn"
                          \/ /\ render.state = "closing" /\ pc = "rendering"
                             /\ files'[shard] = Written("whole")
<1>1. CASE UNCHANGED vars
  BY <1>1 DEF vars
<1>2. CASE Partition
  BY <1>2 DEF Partition, Fail, Late
<1>3. CASE MeasurePass
  <2>1. pc = "measuring" /\ plan' = plan /\ shards' = shards
    BY <1>3 DEF MeasurePass
  <2>2. files' = [j \in DOMAIN shards |-> NoFile]
    BY <1>3 DEF MeasurePass, Fail, Late
  <2>3. shards \in Seq(Seq(DOMAIN plan))
    BY DEF StateInv, PlanInv
  <2>4. PICK D : D = Seq(DOMAIN plan) /\ shards \in Seq(D)
    BY <2>3
  <2>5. DOMAIN shards = 1..Len(shards)
    BY <2>4, SeqRange
  <2>6. NoFile.state = "absent"
    BY DEF NoFile
  <2> QED
    BY <2>1, <2>2, <2>5, <2>6
<1>4. CASE StartRender
  <2>1. PICK file, f : f = NoFile /\ file = [f EXCEPT !.state = "torn"]
    OBVIOUS
  <2>2. file.state = "torn"
    BY <2>1 DEF NoFile
  <2>3. /\ pc = "rendering" /\ plan' = plan /\ shards' = shards /\ measures' = measures
        /\ files' = [files EXCEPT ![shard] = file]
    BY <1>4, <2>1 DEF StartRender
  <2>4. shard \in DOMAIN files /\ DOMAIN files = 1..Len(shards)
    BY <2>3, RenderingFacts
  <2> QED
    BY <2>2, <2>3, <2>4 DEF Late
<1>5. CASE StreamClosed /\ ~Throw
  <2>1. /\ plan' = plan /\ shards' = shards /\ measures' = measures
        /\ files' = [files EXCEPT ![shard] = Written("whole")]
        /\ render.state = "closing" /\ pc = "rendering"
    BY <1>5 DEF StreamClosed, Resolve, StateInv, RenderInv, RenderFits
  <2>2. shard \in DOMAIN files /\ DOMAIN files = 1..Len(shards)
    BY <2>1, RenderingFacts
  <2> QED
    BY <2>1, <2>2 DEF Late
<1>6. CASE Throw
  <2>1. pc = "rendering" \/ pc' = pc
    BY <1>6 DEF Throw, Fail, Late
  <2> QED
    BY <1>6, <2>1 DEF Throw, Late
<1>7. CASE UNCHANGED Running
  BY <1>7 DEF Running
<1>8. CASE Assemble \/ AssembleShard
  BY <1>8 DEF Assemble, AssembleShard, Late
<1> QED
  BY <1>1, <1>2, <1>3, <1>4, <1>5, <1>6, <1>7, <1>8
     DEF Next, NextSection, StartPage, GetHit, GetMiss, DrawThrows, DrawAddsPage, EndPage,
         EndDocument, StreamClosed, Ended

LEMMA AgreedSame ==
    ASSUME NEW j, files'[j] = files[j], measures' = measures
    PROVE  Agreed(j)' <=> Agreed(j)
  BY DEF Agreed, Agree

LEMMA NumberStep ==
    ASSUME StateInv, DrawnInv, Numbering, NeverFewer => SteadyInv, NumberInv, [Next]_vars
    PROVE  NumberInv'
<1> SUFFICES ASSUME pc' \in Late, NEW j \in 1..Len(shards') PROVE FileNumbered(j)'
  BY DEF NumberInv
<1>1. /\ shards' = shards /\ plan' = plan
      /\ \/ \A k \in 1..Len(shards') : files'[k].state = "absent"
         \/ /\ pc \in Late /\ measures' = measures
            /\ \/ files' = files
               \/ /\ \A k \in 1..Len(shards) : k # shard => files'[k] = files[k]
                  /\ \/ files'[shard].state = "torn"
                     \/ /\ render.state = "closing" /\ pc = "rendering"
                        /\ files'[shard] = Written("whole")
  BY FilesMove
<1>2. CASE files'[j].state \in {"absent", "torn"}
  BY <1>2 DEF FileNumbered, Agreed
<1>3. CASE pc \in Late /\ measures' = measures /\ files'[j] = files[j]
  BY <1>1, <1>3 DEF NumberInv, FileNumbered, Agreed, Agree, PageRight, PageOffset, TotalPages
<1>4. CASE /\ j = shard /\ measures' = measures /\ render.state = "closing"
           /\ pc = "rendering" /\ files'[j] = Written("whole")
  <2>1. PICK doc, file : doc = render.doc /\ file = Written("whole")
    OBVIOUS
  <2>2. file.doc = doc
    BY <2>1 DEF Written
  <2>3. ASSUME Len(doc) = measures[shard].pageCount, NEW q \in 1..Len(doc)
        PROVE  PageRight(doc[q], PageOffset(shard) + q)
    <3>1. render.extra = 0 /\ Drawn(render) = Len(render.doc)
      BY <1>4, <2>1, <2>3, ClosingFacts
    <3> QED
      BY <1>4, <2>1, <2>3, <3>1 DEF DrawnInv, DrawnFits
  <2>4. PICK offset : offset = PageOffset(shard)
    OBVIOUS
  <2>5. PageOffset(j)' = offset /\ TotalPages' = TotalPages
    BY <1>4, <2>4 DEF PageOffset, TotalPages
  <2>6. files'[j].doc = doc
    BY <1>4, <2>1, <2>2
  <2>7. Agreed(j)' => Len(doc) = measures[shard].pageCount
    BY <1>4, <2>6 DEF Agreed, Agree
  <2>8. ASSUME NEW q \in 1..Len(doc), Len(doc) = measures[shard].pageCount
        PROVE  PageRight(files[j].doc[q], PageOffset(j) + q)'
    BY <2>3, <2>4, <2>5, <2>6, <2>8 DEF PageRight
  <2> QED
    BY <2>6, <2>7, <2>8 DEF FileNumbered
<1> QED
  BY <1>1, <1>2, <1>3, <1>4

(* The document so far: as long as the offset of the next shard, and       *)
(* numbered from one.                                                      *)
DocumentInv ==
    /\ pc \in {"rendering", "rendered"} => document = <<>>
    /\ pc = "shipped" => shard = Len(shards) + 1
    /\ pc \in {"assembling", "shipped"} =>
          /\ Len(document) = PageOffset(shard)
          /\ \A q \in 1..Len(document) : PageRight(document[q], q)

(* The file that the assembly takes next.                                  *)
LEMMA AssembleFacts ==
    ASSUME StateInv, WholeWhenResolved, AssembleShard, pc' # "failed"
    PROVE  /\ pc = "assembling" /\ shard \in 1..Len(shards) /\ Len(shards) \in Nat
           /\ Agreed(shard) /\ shard' = shard + 1
           /\ UNCHANGED <<plan, shards, measures, files>>
           /\ document' = document \o files[shard].doc
           /\ IsSeq(document) /\ Len(document) \in Nat
           /\ IsSeq(files[shard].doc) /\ Len(files[shard].doc) \in Nat
           /\ Len(files[shard].doc) = measures[shard].pageCount
           /\ Before(measures, shard) \in Nat
           /\ PageOffset(shard) = Before(measures, shard)
           /\ Before(measures, shard + 1) = Before(measures, shard) + measures[shard].pageCount
<1>1. /\ pc = "assembling" /\ Agree(shard) /\ shard' = shard + 1
      /\ document' = document \o files[shard].doc
      /\ UNCHANGED <<plan, shards, measures, files>>
  BY DEF AssembleShard, Fail
<1>2. /\ shard \in 1..Len(shards) /\ Len(shards) \in Nat /\ DOMAIN files = 1..Len(shards)
      /\ files[shard].doc \in Seq(Recorded(plan, shards))
      /\ document \in Seq(Recorded(plan, shards))
  BY <1>1, LateFacts DEF StateInv, ShardInv, Late
<1>3. Agreed(shard)
  BY <1>1, <1>2 DEF WholeWhenResolved, Agreed
<1>4. /\ IsSeq(document) /\ Len(document) \in Nat
      /\ IsSeq(files[shard].doc) /\ Len(files[shard].doc) \in Nat
  BY <1>2, SeqRange
<1>5. MeasuresOf(plan, shards, measures)
  BY <1>1 DEF StateInv, MeasureInv, Late
<1>6. Counted(measures) /\ shard \in 1..Len(measures)
  BY <1>2, <1>5 DEF MeasuresOf, Measured, MeasuredAs, IsMeasure, Counted
<1>7. /\ Before(measures, shard) \in Nat
      /\ Before(measures, shard + 1) = Before(measures, shard) + measures[shard].pageCount
  BY <1>6, OffsetFacts
<1> QED
  BY <1>1, <1>2, <1>3, <1>4, <1>7 DEF Agree, PageOffset, Before

LEMMA DocumentStep ==
    ASSUME StateInv, WholeWhenResolved, NumberInv, DocumentInv, [Next]_vars
    PROVE  DocumentInv'
<1>1. CASE UNCHANGED <<pc, shards, shard, measures, document>>
  BY <1>1 DEF DocumentInv, PageRight, PageOffset, TotalPages
<1>2. CASE pc' \in Early \cup {"failed"}
  BY <1>2 DEF DocumentInv, Early
<1>3. CASE document' = <<>> /\ pc' \in {"rendering", "rendered"}
  BY <1>3 DEF DocumentInv
<1>4. CASE Assemble
  <2>1. /\ pc = "rendered" /\ pc' = "assembling" /\ shard' = 1 /\ document' = document
        /\ measures' = measures
    BY <1>4 DEF Assemble
  <2>2. document' = <<>>
    BY <2>1 DEF DocumentInv
  <2>3. MeasuresOf(plan, shards, measures)
    BY <2>1 DEF StateInv, MeasureInv, Late
  <2>4. Counted(measures)
    BY <2>3 DEF MeasuresOf, Measured, MeasuredAs, IsMeasure, Counted
  <2>5. Before(measures, 1) = 0
    BY <2>4, OffsetFacts
  <2>6. PageOffset(shard)' = 0
    BY <2>1, <2>5 DEF PageOffset, Before
  <2>7. Len(document') = 0 /\ 1..0 = {}
    BY <2>2
  <2> QED
    BY <2>1, <2>6, <2>7 DEF DocumentInv
<1>5. CASE AssembleShard /\ pc' # "failed"
  <2>1. /\ pc = "assembling" /\ shard \in 1..Len(shards) /\ Len(shards) \in Nat
        /\ Agreed(shard) /\ shard' = shard + 1
        /\ plan' = plan /\ shards' = shards /\ measures' = measures
        /\ document' = document \o files[shard].doc
        /\ IsSeq(document) /\ Len(document) \in Nat
        /\ IsSeq(files[shard].doc) /\ Len(files[shard].doc) \in Nat
        /\ Len(files[shard].doc) = measures[shard].pageCount
        /\ Before(measures, shard) \in Nat
        /\ PageOffset(shard) = Before(measures, shard)
        /\ Before(measures, shard + 1) = Before(measures, shard) + measures[shard].pageCount
    BY <1>5, AssembleFacts
  <2>2. PICK more, to, l, m, old, new : /\ more = files[shard].doc /\ to = document \o more
                              /\ l = Len(document) /\ m = Len(more) /\ old = document
                              /\ new = document'
    OBVIOUS
  <2>3. l \in Nat /\ m \in Nat /\ l = Before(measures, shard) /\ m = measures[shard].pageCount
    BY <2>1, <2>2 DEF DocumentInv
  <2>4. /\ Len(to) = l + m
        /\ \A q \in 1..l : to[q] = old[q]
        /\ \A q \in 1..m : to[l + q] = more[q]
    <3>1. IsSeq(old) /\ IsSeq(more)
      BY <2>1, <2>2
    <3>2. /\ Len(old \o more) = Len(old) + Len(more)
          /\ \A q \in 1..Len(old) : (old \o more)[q] = old[q]
          /\ \A q \in 1..Len(more) : (old \o more)[Len(old) + q] = more[q]
      BY <3>1, Concat
    <3>3. to = old \o more /\ l = Len(old) /\ m = Len(more)
      BY <2>2
    <3> QED
      BY <3>2, <3>3
  <2>5. \A q \in 1..l : PageRight(old[q], q)
    BY <2>1, <2>2 DEF DocumentInv
  <2>6. \A q \in 1..m : PageRight(more[q], l + q)
    <3>1. FileNumbered(shard)
      BY <2>1 DEF NumberInv, Late
    <3> QED
      BY <2>1, <2>2, <2>3, <3>1 DEF FileNumbered
  <2>7. ASSUME NEW q \in 1..(l + m) PROVE PageRight(to[q], q)
    <3>1. CASE q \in 1..l
      BY <2>4, <2>5, <3>1
    <3>2. CASE q \notin 1..l
      <4>1. PICK k : k = q - l /\ k \in 1..m /\ q = l + k
        <5>1. q - l \in 1..m /\ q = l + (q - l)
          BY <2>3, <3>2
        <5> QED
          BY <5>1
      <4> QED
        BY <2>4, <2>6, <4>1
    <3> QED
      BY <3>1, <3>2
  <2>8. PageOffset(shard)' = l + m /\ TotalPages' = TotalPages
    <3>1. PICK next : next = shard + 1 /\ shard' = next
      BY <2>1
    <3>2. PageOffset(shard)' = Before(measures, next)
      BY <2>1, <3>1 DEF PageOffset, Before
    <3>3. TotalPages' = TotalPages
      BY <2>1 DEF TotalPages
    <3> QED
      BY <2>1, <2>3, <3>1, <3>2, <3>3
  <2>9. new = to /\ Len(new) = l + m
    BY <2>1, <2>2, <2>4
  <2>10. \A q \in 1..(l + m) : PageRight(document[q], q)'
    BY <2>2, <2>7, <2>8, <2>9 DEF PageRight
  <2>11. pc' \in {"assembling", "shipped"} /\ (pc' = "shipped" => shard' = Len(shards') + 1)
    BY <1>5, <2>1 DEF AssembleShard
  <2> QED
    BY <2>2, <2>8, <2>9, <2>10, <2>11 DEF DocumentInv
<1>6. CASE StreamClosed /\ ~Throw
  BY <1>3, <1>6 DEF StreamClosed, Resolve, DocumentInv, StateInv, RenderInv, RenderFits
<1>7. CASE MeasurePass
  BY <1>2, <1>3, <1>7 DEF MeasurePass, Fail, StateInv, ShardInv, Early
<1>8. CASE Partition
  BY <1>2, <1>8 DEF Partition, Fail, Early
<1>9. Throw => UNCHANGED <<pc, shards, shard, measures, document>> \/ pc' = "failed"
  BY DEF Throw, Fail
<1>10. CASE AssembleShard /\ pc' = "failed"
  BY <1>2, <1>10
<1>11. CASE StartRender
  BY <1>1, <1>11 DEF StartRender
<1> QED
  BY <1>1, <1>2, <1>4, <1>5, <1>6, <1>7, <1>8, <1>9, <1>10, <1>11
     DEF Next, vars, Running, NextSection, StartPage, GetHit, GetMiss, DrawThrows,
         DrawAddsPage, EndPage, EndDocument, StreamClosed, Ended

LEMMA SteadyOrNot == Spec => [](NeverFewer => SteadyInv)
<1>1. CASE NeverFewer
  <2>1. Spec => []SteadyInv
    BY <1>1, SteadyInvariant
  <2>2. SteadyInv => (NeverFewer => SteadyInv)
    OBVIOUS
  <2> QED
    BY <2>1, <2>2, PTL
<1>2. CASE ~NeverFewer
  <2>1. NeverFewer => SteadyInv
    BY <1>2
  <2> QED
    BY <2>1, PTL
<1> QED
  BY <1>1, <1>2

LEMMA NumberInvariant == ASSUME Numbering PROVE Spec => [](NumberInv /\ DocumentInv)
<1>1. Init => NumberInv /\ DocumentInv
  BY DEF Init, NumberInv, DocumentInv, Late
<1>2. /\ StateInv /\ DrawnInv /\ (NeverFewer => SteadyInv) /\ WholeWhenResolved
      /\ NumberInv /\ DocumentInv /\ [Next]_vars
      => NumberInv' /\ DocumentInv'
  BY NumberStep, DocumentStep
<1> QED
  BY <1>1, <1>2, StateInvariant, DrawnInvariant, SteadyOrNot, FilesAreWhole, PTL DEF Spec

(* In a document that ships page p is drawn by a section, prints p, and as *)
(* its total the number of pages there are: provided no section answers    *)
(* fewer pages in the second pass than in the first, or no draw adds pages *)
(* (a page too many would make up for one too few in the only check that   *)
(* generate() makes, of their number).                                     *)
THEOREM PagesAreNumbered ==
    ASSUME NeverFewer \/ MaxExtra = 0 PROVE Spec => []PagesNumbered
<1>1. StateInv /\ DocumentInv => PagesNumbered
  <2> SUFFICES ASSUME StateInv, DocumentInv, pc = "shipped", NEW p \in DOMAIN document
               PROVE  /\ document[p].section # 0 /\ document[p].number = p
                      /\ document[p].total = Len(document)
    BY DEF PagesNumbered
  <2>1. document \in Seq(Recorded(plan, shards)) /\ MeasuresOf(plan, shards, measures)
    BY DEF StateInv, ShardInv, MeasureInv, Late
  <2>2. DOMAIN document = 1..Len(document)
    BY <2>1, SeqRange
  <2>3. Counted(measures) /\ Len(measures) = Len(shards)
    BY <2>1 DEF MeasuresOf, Measured, MeasuredAs, IsMeasure, Counted
  <2>4. PagesOf(measures) = Before(measures, Len(measures) + 1)
    BY <2>3, OffsetFacts
  <2>5. Len(document) = PageOffset(shard) /\ shard = Len(shards) + 1
    BY DEF DocumentInv
  <2>6. Len(document) = TotalPages
    BY <2>3, <2>4, <2>5 DEF PageOffset, TotalPages, Before
  <2> QED
    BY <2>2, <2>6 DEF DocumentInv, PageRight
<1> QED
  BY <1>1, StateInvariant, NumberInvariant, PTL DEF Numbering

-----------------------------------------------------------------------------
(* Places: as long as no section has drawn more than pass 1 has counted,   *)
(* every page of it is where pass 1 has put it.                            *)

PageAt(page, s, i) == page.section = s /\ page.index = i

PlacedAt(r, b) ==
    r.extra = 0 /\ r.turn > 0 /\ r.inShard - r.index = b[r.turn] =>
        \A t \in 1..r.turn : \A i \in 0..(Pages(t) - 1) :
            b[t] + i + 1 <= Drawn(r) => PageAt(r.doc[b[t] + i + 1], shards[shard][t], i)

PlacedFits(r) ==
    \A b : MeasuredAs(plan, measures[shard], shards[shard], b) => PlacedAt(r, b)

PlacedInv == render.state # "none" => PlacedFits(render)

(* A section ends before any later one starts.                             *)
LEMMA StartsGrow ==
    ASSUME NEW p, NEW sections, NEW b, IsStarts(p, sections, b), Len(sections) \in Nat,
           NEW t \in 1..Len(sections), NEW u \in 1..(Len(sections) + 1), t < u
    PROVE  b[t] + p[sections[t]].pages <= b[u]
<1>1. PICK n : n = Len(sections) /\ n \in Nat
  OBVIOUS
<1>2. PICK S : S = {k \in Nat : k + t < n + 1 => b[t + 1] <= b[t + 1 + k]}
  OBVIOUS
<1>3. \A v \in 1..n : /\ b[v] \in Nat /\ b[v + 1] \in Nat /\ p[sections[v]].pages \in Nat
                      /\ b[v + 1] = b[v] + p[sections[v]].pages
  BY <1>1 DEF IsStarts
<1>4. 0 \in S
  <2>1. t + 1 + 0 = t + 1 /\ b[t + 1] \in Nat
    BY <1>1, <1>3
  <2> QED
    BY <1>2, <2>1
<1>5. ASSUME NEW k \in Nat, k \in S PROVE k + 1 \in S
  <2> SUFFICES ASSUME k + 1 + t < n + 1 PROVE b[t + 1] <= b[t + 1 + (k + 1)]
    BY <1>2
  <2>1. b[t + 1] <= b[t + 1 + k]
    BY <1>1, <1>2, <1>5
  <2>2. PICK v : v = t + 1 + k /\ v \in 1..n /\ v + 1 = t + 1 + (k + 1)
    <3>1. t + 1 + k \in 1..n /\ (t + 1 + k) + 1 = t + 1 + (k + 1)
      BY <1>1
    <3> QED
      BY <3>1
  <2>3. b[v] <= b[v + 1] /\ b[v] \in Nat /\ b[v + 1] \in Nat
    BY SMTT(30), <1>3, <2>2
  <2>4. b[t + 1] \in Nat
    BY <1>1, <1>3
  <2> QED
    BY <2>1, <2>2, <2>3, <2>4
<1>6. PICK k : k = u - t - 1 /\ k \in Nat /\ k + t < n + 1 /\ t + 1 + k = u
  <2>1. u - t - 1 \in Nat /\ (u - t - 1) + t < n + 1 /\ t + 1 + (u - t - 1) = u
    BY <1>1
  <2> QED
    BY <2>1
<1>7. k \in S
  BY <1>4, <1>5, <1>6, SetInduction
<1> QED
  BY <1>1, <1>2, <1>3, <1>6, <1>7

LEMMA PlacedMoves ==
    ASSUME StateInv, render.state # "none", NEW r, NEW to, r = render,
           DrawnFits(r), SteadyFits(r), PlacedFits(r), Moved(r, to)
    PROVE  PlacedFits(to)
<1>1. Sized(r) /\ pc = "rendering"
  BY IsSized, RunningRender
<1> SUFFICES ASSUME NEW b, MeasuredAs(plan, measures[shard], shards[shard], b)
             PROVE  PlacedAt(to, b)
  BY DEF PlacedFits
<1>2. IsStarts(plan, shards[shard], b) /\ SteadyAt(r, b) /\ PlacedAt(r, b)
  BY DEF MeasuredAs, SteadyFits, PlacedFits
<1>3. PICK n : n = Len(shards[shard]) /\ n \in Nat
  <2>1. PICK D, s : D = DOMAIN plan /\ s = shards[shard] /\ s \in Seq(D)
    BY <1>1, RenderingFacts
  <2> QED
    BY <2>1, SeqRange
<1>4. \A t \in 1..n : /\ b[t] \in Nat /\ b[t + 1] \in Nat /\ Pages(t) \in Nat \ {0}
                      /\ b[t + 1] = b[t] + Pages(t)
  BY <1>2, <1>3 DEF IsStarts, Pages
<1>5. \A t \in 1..n, u \in 1..n : t < u => b[t] + Pages(t) <= b[u]
  <2> SUFFICES ASSUME NEW t \in 1..n, NEW u \in 1..n, t < u PROVE b[t] + Pages(t) <= b[u]
    OBVIOUS
  <2>1. u \in 1..(Len(shards[shard]) + 1) /\ t \in 1..Len(shards[shard])
    BY <1>3
  <2> QED
    BY <1>2, <1>3, <2>1, StartsGrow DEF Pages
<1>6. r.turn \in 0..n /\ r.inShard \in Nat /\ r.index \in Nat /\ r.pages \in Nat
  <2>1. RenderFits(render)
    BY DEF StateInv, RenderInv
  <2> QED
    BY <1>1, <1>3, <2>1 DEF Sized, RenderFits
<1>7. CASE Turned(r, to)
  <2>1. PICK u : u = r.turn + 1 /\ u \in 1..n /\ to.turn = u
    <3>1. r.turn < n /\ to.turn = r.turn + 1
      BY <1>3, <1>7 DEF Turned
    <3>2. r.turn + 1 \in 1..n
      BY <1>3, <1>6, <3>1
    <3> QED
      BY <3>1, <3>2
  <2>2. /\ Drawn(to) = r.inShard /\ Drawn(r) = r.inShard /\ to.doc = r.doc
        /\ to.extra = r.extra /\ to.inShard = r.inShard /\ to.index = 0 /\ r.index = r.pages
    BY <1>6, <1>7 DEF Turned, Drawn
  <2> SUFFICES ASSUME r.extra = 0, r.inShard - 0 = b[u], NEW t \in 1..u,
                      NEW i \in 0..(Pages(t) - 1), b[t] + i + 1 <= r.inShard
               PROVE  PageAt(r.doc[b[t] + i + 1], shards[shard][t], i)
    BY <2>1, <2>2 DEF PlacedAt
  <2>3. r.inShard = b[u] /\ t \in 1..n /\ b[t] \in Nat /\ Pages(t) \in Nat /\ i \in Nat
    <3>1. t \in 1..n
      BY <1>3, <2>1
    <3>2. b[t] \in Nat /\ Pages(t) \in Nat /\ b[u] \in Nat
      BY <1>4, <2>1, <3>1
    <3>3. r.inShard = b[u]
      BY <1>6
    <3>4. i \in Nat
      BY <3>2
    <3> QED
      BY <3>1, <3>2, <3>3, <3>4
  <2>4. t # u
    BY <2>3
  <2>5. r.turn \in 1..n /\ t \in 1..r.turn
    BY <1>3, <1>6, <2>1, <2>4
  <2>6. r.pages >= Pages(r.turn) /\ r.inShard - r.index >= b[r.turn]
    BY <1>2, <2>5 DEF SteadyAt
  <2>7. b[u] = b[r.turn] + Pages(r.turn) /\ b[r.turn] \in Nat /\ Pages(r.turn) \in Nat
    BY <1>4, <2>1, <2>5
  <2>8. r.inShard - r.index = b[r.turn]
    BY <1>6, <2>2, <2>3, <2>6, <2>7
  <2> QED
    BY <1>2, <2>2, <2>5, <2>8 DEF PlacedAt
<1>8. CASE Begun(r, to)
  <2>1. /\ Drawn(r) = r.inShard /\ Drawn(to) = r.inShard + 1 /\ to.extra = r.extra
        /\ r.extra = 0 => /\ IsDrawn(to.doc[Drawn(to)], r)
                          /\ \A q \in 1..r.inShard : to.doc[q] = r.doc[q]
    BY <1>1, <1>8, BegunDoc
  <2>2. /\ to.turn = r.turn /\ to.inShard = r.inShard /\ to.index = r.index
        /\ r.index < r.pages
    BY <1>8 DEF Begun, Still, Kept
  <2>3. PICK u : u = r.turn /\ u \in 1..n
    <3>1. r.turn # 0
      BY <1>1, <1>6, <2>2 DEF Sized
    <3>2. r.turn \in 1..n
      BY <1>3, <1>6, <3>1
    <3> QED
      BY <3>2
  <2> SUFFICES ASSUME r.extra = 0, r.inShard - r.index = b[u], NEW t \in 1..u,
                      NEW i \in 0..(Pages(t) - 1), b[t] + i + 1 <= r.inShard + 1
               PROVE  PageAt(to.doc[b[t] + i + 1], shards[shard][t], i)
    BY <2>1, <2>2, <2>3 DEF PlacedAt
  <2>4. /\ t \in 1..n /\ b[t] \in Nat /\ Pages(t) \in Nat /\ i \in Nat /\ i < Pages(t)
        /\ b[u] \in Nat
    BY <1>3, <1>4, <2>3
  <2>5. CASE b[t] + i + 1 <= r.inShard
    <3>1. PageAt(r.doc[b[t] + i + 1], shards[shard][t], i)
      BY <1>2, <2>1, <2>3, <2>5 DEF PlacedAt
    <3>2. b[t] + i + 1 \in 1..r.inShard
      BY <1>6, <2>4, <2>5
    <3> QED
      BY <2>1, <3>1, <3>2
  <2>6. CASE ~(b[t] + i + 1 <= r.inShard)
    <3>1. b[t] + i = b[u] + r.index /\ b[t] + i + 1 = r.inShard + 1
      BY <1>6, <2>4, <2>6
    <3>2. ~(t < u)
      BY <1>5, <1>6, <2>3, <2>4, <3>1
    <3>3. t = u /\ i = r.index
      BY <1>6, <2>3, <2>4, <3>1, <3>2
    <3> QED
      BY <2>1, <2>3, <3>1, <3>3 DEF PageAt, IsDrawn
  <2> QED
    BY <2>5, <2>6
<1>9. CASE Shown(r, to)
  <2>1. /\ Drawn(to) = Drawn(r) /\ Drawn(r) = r.inShard + 1 /\ to.extra = r.extra
        /\ to.turn = r.turn /\ to.inShard = r.inShard /\ to.index = r.index
    BY <1>9 DEF Shown, Still, Kept, Drawn
  <2>2. Len(r.doc) = Drawn(r) + r.extra
    BY <1>6, <2>1 DEF DrawnFits
  <2> SUFFICES ASSUME r.extra = 0, r.turn > 0, r.inShard - r.index = b[r.turn],
                      NEW t \in 1..r.turn, NEW i \in 0..(Pages(t) - 1),
                      b[t] + i + 1 <= Drawn(r)
               PROVE  PageAt(to.doc[b[t] + i + 1], shards[shard][t], i)
    BY <2>1 DEF PlacedAt
  <2>3. PageAt(r.doc[b[t] + i + 1], shards[shard][t], i)
    BY <1>2 DEF PlacedAt
  <2>4. t \in 1..n /\ b[t] \in Nat /\ Pages(t) \in Nat
    BY <1>3, <1>4, <1>6
  <2>5. b[t] + i + 1 \in 1..Len(r.doc)
    <3>1. PICK p, d : p = b[t] /\ d = Drawn(r) /\ p \in Nat /\ d \in Nat
      BY <1>6, <2>1, <2>4
    <3>2. i \in Nat /\ p + i + 1 <= d /\ Len(r.doc) = d
      BY <2>2, <2>4, <3>1
    <3>3. p + i + 1 \in 1..d
      BY <3>1, <3>2
    <3> QED
      BY <3>1, <3>2, <3>3
  <2> QED
    BY <1>9, <2>3, <2>5 DEF Shown, PageAt
<1>10. CASE Grown(r, to)
  <2>1. to.extra # 0
    BY <1>1, <1>10 DEF Grown, Sized
  <2> QED
    BY <2>1 DEF PlacedAt
<1>11. CASE Done(r, to)
  <2>1. /\ to.turn = r.turn /\ to.index = r.index + 1 /\ to.inShard = r.inShard + 1
        /\ to.doc = r.doc /\ to.extra = r.extra
    BY <1>11 DEF Done, Kept
  <2>2. Drawn(to) = Drawn(r)
    BY <1>6, <1>11, <2>1 DEF Done, Drawn
  <2>3. to.inShard - to.index = r.inShard - r.index
    BY <1>6, <2>1
  <2> QED
    BY <1>2, <2>1, <2>2, <2>3 DEF PlacedAt
<1>12. CASE Closed(r, to)
  <2>1. /\ to.turn = r.turn /\ to.index = r.index /\ to.inShard = r.inShard
        /\ to.doc = r.doc /\ to.extra = r.extra /\ Drawn(to) = Drawn(r)
    BY <1>12 DEF Closed, Still, Kept, Drawn
  <2> QED
    BY <1>2, <2>1 DEF PlacedAt
<1> QED
  BY <1>7, <1>8, <1>9, <1>10, <1>11, <1>12 DEF Moved

LEMMA PlacedInvariant == ASSUME NeverFewer PROVE Spec => []PlacedInv
<1>1. Init => PlacedInv
  BY DEF Init, NoRender, PlacedInv
<1>2. StateInv /\ DrawnInv /\ SteadyInv /\ PlacedInv /\ [Next]_vars => PlacedInv'
  <2> SUFFICES ASSUME StateInv, DrawnInv, SteadyInv, PlacedInv, [Next]_vars,
                      render'.state # "none"
               PROVE  PlacedFits(render)'
    BY DEF PlacedInv
  <2>1. /\ plan' = plan /\ shards' = shards /\ measures' = measures /\ shard' = shard
        /\ \/ Fresh(render') \/ render' = render
           \/ render.state # "none" /\ Moved(render, render')
    BY RenderMoves
  <2>2. PICK r, to : r = render /\ to = render'
    OBVIOUS
  <2>3. PlacedFits(to)
    <3>1. CASE Fresh(to)
      <4>1. ~(to.turn > 0)
        BY <3>1 DEF Fresh
      <4> QED
        BY <4>1 DEF PlacedFits, PlacedAt
    <3>2. CASE to = r
      BY <2>2, <3>2 DEF PlacedInv
    <3>3. CASE render.state # "none" /\ Moved(r, to)
      BY <2>2, <3>3, PlacedMoves DEF DrawnInv, SteadyInv, PlacedInv
    <3> QED
      BY <2>1, <2>2, <3>1, <3>2, <3>3
  <2>4. ASSUME NEW b, MeasuredAs(plan, measures[shard], shards[shard], b)'
        PROVE  PlacedAt(render, b)'
    <3>1. MeasuredAs(plan, measures[shard], shards[shard], b)
      BY <2>1, <2>4
    <3>2. PlacedAt(to, b)
      BY <2>3, <3>1 DEF PlacedFits
    <3> QED
      BY <2>1, <2>2, <3>2 DEF PlacedAt, Pages
  <2> QED
    BY <2>4 DEF PlacedFits
<1> QED
  BY <1>1, <1>2, StateInvariant, DrawnInvariant, SteadyInvariant, PTL DEF Spec

(* The pages of a shard in a list of pages, from some offset.              *)
PlacedIn(doc, offset, j) ==
    \A b : MeasuredAs(plan, measures[j], shards[j], b) =>
        \A t \in 1..Len(shards[j]) : \A i \in 0..(plan[shards[j][t]].pages - 1) :
            /\ offset + b[t] + i + 1 \in 1..Len(doc)
            /\ PageAt(doc[offset + b[t] + i + 1], shards[j][t], i)

FilesPlaced == pc \in Late => \A j \in 1..Len(shards) : Agreed(j) => PlacedIn(files[j].doc, 0, j)

LEMMA ClosingPlaced ==
    ASSUME NeverFewer, StateInv, DrawnInv, SteadyInv, PlacedInv,
           render.state = "closing", Len(render.doc) = measures[shard].pageCount
    PROVE  PlacedIn(render.doc, 0, shard)
<1> SUFFICES ASSUME NEW b, MeasuredAs(plan, measures[shard], shards[shard], b),
                    NEW t \in 1..Len(shards[shard]),
                    NEW i \in 0..(plan[shards[shard][t]].pages - 1)
             PROVE  /\ 0 + b[t] + i + 1 \in 1..Len(render.doc)
                    /\ PageAt(render.doc[0 + b[t] + i + 1], shards[shard][t], i)
  BY DEF PlacedIn
<1>1. /\ render.extra = 0 /\ Drawn(render) = Len(render.doc)
      /\ Drawn(render) = b[Len(shards[shard]) + 1]
      /\ render.inShard - render.index = b[Len(shards[shard])]
  BY ClosingFacts DEF Numbering
<1>2. PICK n : n = Len(shards[shard]) /\ n \in Nat /\ n > 0
  <2>1. PICK D, s : D = DOMAIN plan /\ s = shards[shard] /\ s \in Seq(D)
    BY RunningRender, RenderingFacts
  <2>2. Len(s) \in Nat /\ t \in 1..Len(s)
    BY <2>1, SeqRange
  <2>3. Len(s) > 0
    BY <2>2
  <2> QED
    BY <2>1, <2>2, <2>3
<1>3. IsStarts(plan, shards[shard], b) /\ PlacedAt(render, b)
  BY DEF MeasuredAs, PlacedInv, PlacedFits
<1>4. render.turn = n
  BY <1>2 DEF DrawnInv, DrawnFits
<1>5. /\ b[t] \in Nat /\ Pages(t) \in Nat
      /\ b[t] + Pages(t) <= b[n + 1] /\ b[n + 1] \in Nat
  <2>1. t < n + 1 /\ n + 1 \in 1..(Len(shards[shard]) + 1) /\ t \in 1..n /\ n \in 1..n
    BY <1>2
  <2>2. b[t] + Pages(t) <= b[n + 1]
    BY <1>2, <1>3, <2>1, StartsGrow DEF Pages
  <2> QED
    BY <1>2, <1>3, <2>1, <2>2 DEF IsStarts, Pages
<1>6. i \in 0..(Pages(t) - 1) /\ t \in 1..n
  BY <1>2 DEF Pages
<1>7. /\ b[t] + i + 1 \in 1..Drawn(render) /\ 0 + b[t] + i + 1 = b[t] + i + 1
      /\ b[t] + i + 1 <= Drawn(render)
  <2>1. PICK p, c, d : p = b[t] /\ c = Pages(t) /\ d = Drawn(render)
    OBVIOUS
  <2>2. p \in Nat /\ c \in Nat /\ d \in Nat /\ p + c <= d
    BY <1>1, <1>2, <1>5, <2>1
  <2>3. i \in Nat /\ i < c
    BY <1>6, <2>1, <2>2
  <2>4. p + i + 1 \in 1..d /\ 0 + p + i + 1 = p + i + 1 /\ p + i + 1 <= d
    BY <2>2, <2>3
  <2> QED
    BY <2>1, <2>4
<1>9. PageAt(render.doc[b[t] + i + 1], shards[shard][t], i)
  BY <1>1, <1>2, <1>3, <1>4, <1>6, <1>7 DEF PlacedAt
<1> QED
  BY <1>1, <1>7, <1>9

LEMMA FilesPlacedStep ==
    ASSUME NeverFewer, StateInv, DrawnInv, SteadyInv, PlacedInv, FilesPlaced, [Next]_vars
    PROVE  FilesPlaced'
<1> SUFFICES ASSUME pc' \in Late, NEW j \in 1..Len(shards'), Agreed(j)'
             PROVE  PlacedIn(files[j].doc, 0, j)'
  BY DEF FilesPlaced
<1>1. /\ shards' = shards /\ plan' = plan
      /\ \/ \A k \in 1..Len(shards') : files'[k].state = "absent"
         \/ /\ pc \in Late /\ measures' = measures
            /\ \/ files' = files
               \/ /\ \A k \in 1..Len(shards) : k # shard => files'[k] = files[k]
                  /\ \/ files'[shard].state = "torn"
                     \/ /\ render.state = "closing" /\ pc = "rendering"
                        /\ files'[shard] = Written("whole")
  BY FilesMove
<1>2. files'[j].state = "whole" /\ Len(files'[j].doc) = measures'[j].pageCount
  BY DEF Agreed, Agree
<1>3. CASE pc \in Late /\ measures' = measures /\ files'[j] = files[j]
  <2>1. Agreed(j)
    BY <1>2, <1>3 DEF Agreed, Agree
  <2>2. PlacedIn(files[j].doc, 0, j)
    BY <1>1, <1>3, <2>1 DEF FilesPlaced
  <2> QED
    BY <1>1, <1>3, <2>2 DEF PlacedIn
<1>4. CASE /\ j = shard /\ measures' = measures /\ render.state = "closing"
           /\ files'[j] = Written("whole")
  <2>1. PICK doc, file : doc = render.doc /\ file = Written("whole")
    OBVIOUS
  <2>2. file.doc = doc
    BY <2>1 DEF Written
  <2>3. files'[j].doc = doc /\ Len(doc) = measures[shard].pageCount
    BY <1>2, <1>4, <2>1, <2>2
  <2>4. PlacedIn(doc, 0, shard)
    BY <1>4, <2>1, <2>3, ClosingPlaced
  <2> QED
    BY <1>1, <1>4, <2>3, <2>4 DEF PlacedIn
<1> QED
  BY <1>1, <1>2, <1>3, <1>4

(* The shards that are in the document, each of them from its offset.      *)
DocumentPlaced ==
    pc \in {"assembling", "shipped"} =>
        \A j \in 1..(shard - 1) : PlacedIn(document, PageOffset(j), j)

LEMMA DocumentPlacedStep ==
    ASSUME StateInv, WholeWhenResolved, DocumentInv, FilesPlaced, DocumentPlaced, [Next]_vars
    PROVE  DocumentPlaced'
<1>1. CASE UNCHANGED <<pc, plan, shards, shard, measures, document>>
  BY <1>1 DEF DocumentPlaced, PlacedIn, PageOffset
<1>2. CASE pc' \notin {"assembling", "shipped"}
  BY <1>2 DEF DocumentPlaced
<1>3. CASE Assemble
  <2>1. shard' = 1 /\ 1..(1 - 1) = {}
    BY <1>3 DEF Assemble
  <2> QED
    BY <2>1 DEF DocumentPlaced
<1>4. CASE AssembleShard /\ pc' # "failed"
  <2>1. /\ pc = "assembling" /\ shard \in 1..Len(shards) /\ Len(shards) \in Nat
        /\ Agreed(shard) /\ shard' = shard + 1
        /\ plan' = plan /\ shards' = shards /\ measures' = measures
        /\ document' = document \o files[shard].doc
        /\ IsSeq(document) /\ Len(document) \in Nat
        /\ IsSeq(files[shard].doc) /\ Len(files[shard].doc) \in Nat
    BY <1>4, AssembleFacts
  <2>2. PICK more, old, to : more = files[shard].doc /\ old = document /\ to = old \o more
    OBVIOUS
  <2>3. /\ Len(to) = Len(old) + Len(more)
        /\ \A q \in 1..Len(old) : to[q] = old[q]
        /\ \A q \in 1..Len(more) : to[Len(old) + q] = more[q]
    <3>1. IsSeq(old) /\ IsSeq(more)
      BY <2>1, <2>2
    <3>2. /\ Len(old \o more) = Len(old) + Len(more)
          /\ \A q \in 1..Len(old) : (old \o more)[q] = old[q]
          /\ \A q \in 1..Len(more) : (old \o more)[Len(old) + q] = more[q]
      BY <3>1, Concat
    <3> QED
      BY <2>2, <3>2
  <2>4. Len(old) \in Nat /\ Len(more) \in Nat /\ Len(old) = PageOffset(shard)
    BY <2>1, <2>2 DEF DocumentInv
  <2>5. ASSUME NEW j \in 1..(shard - 1) PROVE PlacedIn(to, PageOffset(j), j)
    <3>1. PlacedIn(old, PageOffset(j), j)
      BY <2>1, <2>2 DEF DocumentPlaced
    <3>2. \A q \in 1..Len(old) : q \in 1..Len(to)
      BY <2>3, <2>4
    <3> QED
      BY <2>3, <3>1, <3>2 DEF PlacedIn
  <2>6. PlacedIn(to, PageOffset(shard), shard)
    <3>1. PlacedIn(more, 0, shard)
      BY <2>1, <2>2 DEF FilesPlaced, Late
    <3> SUFFICES ASSUME NEW b, MeasuredAs(plan, measures[shard], shards[shard], b),
                        NEW t \in 1..Len(shards[shard]),
                        NEW i \in 0..(plan[shards[shard][t]].pages - 1)
                 PROVE  /\ PageOffset(shard) + b[t] + i + 1 \in 1..Len(to)
                        /\ PageAt(to[PageOffset(shard) + b[t] + i + 1], shards[shard][t], i)
      BY DEF PlacedIn
    <3>2. /\ 0 + b[t] + i + 1 \in 1..Len(more)
          /\ PageAt(more[0 + b[t] + i + 1], shards[shard][t], i)
      BY <3>1 DEF PlacedIn
    <3>3. b[t] \in Nat /\ i \in Int
      BY DEF MeasuredAs, IsStarts
    <3>4. PICK q : q = 0 + b[t] + i + 1 /\ q \in 1..Len(more) /\ PageAt(more[q], shards[shard][t], i)
      BY <3>2
    <3>5. PageOffset(shard) + b[t] + i + 1 = Len(old) + q
      BY <2>4, <3>3, <3>4
    <3>6. Len(old) + q \in 1..Len(to) /\ to[Len(old) + q] = more[q]
      BY <2>3, <2>4, <3>4
    <3> QED
      BY <3>4, <3>5, <3>6
  <2>7. document' = to
    BY <2>1, <2>2
  <2>8. ASSUME NEW j \in 1..(shard' - 1) PROVE PlacedIn(document, PageOffset(j), j)'
    <3>1. j \in 1..(shard - 1) \/ j = shard
      BY <2>1
    <3>2. PlacedIn(to, PageOffset(j), j)
      BY <2>5, <2>6, <3>1
    <3>3. PICK offset : offset = PageOffset(j)
      OBVIOUS
    <3>4. PageOffset(j)' = offset
      BY <2>1, <3>3 DEF PageOffset
    <3> QED
      BY <2>1, <2>7, <3>2, <3>3, <3>4 DEF PlacedIn
  <2> QED
    BY <2>8 DEF DocumentPlaced
<1>5. CASE AssembleShard /\ pc' = "failed"
  BY <1>2, <1>5
<1>6. CASE StreamClosed /\ ~Throw
  BY <1>2, <1>6 DEF StreamClosed, Resolve, StateInv, RenderInv, RenderFits
<1>7. CASE MeasurePass \/ Partition
  BY <1>2, <1>7 DEF MeasurePass, Partition, Fail
<1>8. Throw => UNCHANGED <<pc, plan, shards, shard, measures, document>> \/ pc' = "failed"
  BY DEF Throw, Fail
<1>9. CASE StartRender
  BY <1>1, <1>9 DEF StartRender
<1> QED
  BY <1>1, <1>2, <1>3, <1>4, <1>5, <1>6, <1>7, <1>8, <1>9
     DEF Next, vars, Running, NextSection, StartPage, GetHit, GetMiss, DrawThrows,
         DrawAddsPage, EndPage, EndDocument, StreamClosed, Ended

LEMMA PlacedInvariants ==
    ASSUME NeverFewer PROVE Spec => [](FilesPlaced /\ DocumentPlaced)
<1>1. Init => FilesPlaced /\ DocumentPlaced
  BY DEF Init, FilesPlaced, DocumentPlaced, Late
<1>2. /\ StateInv /\ DrawnInv /\ SteadyInv /\ PlacedInv /\ WholeWhenResolved /\ DocumentInv
      /\ FilesPlaced /\ DocumentPlaced /\ [Next]_vars
      => FilesPlaced' /\ DocumentPlaced'
  BY FilesPlacedStep, DocumentPlacedStep
<1>3. Spec => []DocumentInv
  BY NumberInvariant, PTL DEF Numbering
<1> QED
  BY <1>1, <1>2, <1>3, StateInvariant, DrawnInvariant, SteadyInvariant, PlacedInvariant,
     FilesAreWhole, PTL DEF Spec

(* The page number that a table of contents prints for an anchor is that   *)
(* of the page which its section has drawn for it, in every document that  *)
(* ships, whatever the partition and whatever the draws add: provided no   *)
(* template answers fewer pages in the second pass than in the first.      *)
THEOREM AnchorsDoLand == ASSUME NeverFewer PROVE Spec => []AnchorsLand
<1>1. StateInv /\ DocumentInv /\ DocumentPlaced => AnchorsLand
  <2> SUFFICES ASSUME StateInv, DocumentInv, DocumentPlaced, pc = "shipped",
                      NEW s \in DOMAIN plan, NEW i \in DOMAIN plan[s].anchors
               PROVE  \E p \in DOMAIN document :
                         /\ <<plan[s].anchors[i].name, p>> \in AnchorPages
                         /\ document[p].section = s
                         /\ document[p].index = OffsetOf(plan[s].anchors[i])
    BY Zenon DEF AnchorsLand
  <2>1. /\ Partitioned(shards) /\ shards \in Seq(Seq(DOMAIN plan))
        /\ document \in Seq(Recorded(plan, shards)) /\ MeasuresOf(plan, shards, measures)
        /\ shard = Len(shards) + 1
    BY DEF StateInv, PlanInv, ShardInv, MeasureInv, DocumentInv, Late
  <2>2. PICK j \in 1..Len(shards) : s \in ToSet(shards[j])
    BY <2>1 DEF Partitioned, Covered
  <2>3. PICK t : t \in 1..Len(shards[j]) /\ shards[j][t] = s
    <3>1. PICK D, E : D = DOMAIN plan /\ E = Seq(D)
      OBVIOUS
    <3>2. shards[j] \in E
      BY <2>1, <2>2, <3>1, SeqRange
    <3>3. DOMAIN shards[j] = 1..Len(shards[j])
      BY <3>1, <3>2, SeqRange
    <3> QED
      BY <2>2, <3>3 DEF ToSet
  <2>4. PICK b : MeasuredAs(plan, measures[j], shards[j], b)
    BY <2>1, <2>2 DEF MeasuresOf, Measured
  <2>5. PICK anchor : anchor = plan[s].anchors[i]
    OBVIOUS
  <2>6. AnchorsMeasured(plan, measures[j], shards[j], b, t)
    BY <2>3, <2>4 DEF MeasuredAs
  <2>7. /\ OffsetOf(anchor) \in 0..(plan[s].pages - 1)
        /\ \E a \in ToSet(measures[j].anchors) : /\ a.name = anchor.name
                                                 /\ a.page = b[t] + OffsetOf(anchor)
    BY <2>3, <2>5, <2>6 DEF AnchorsMeasured
  <2>8. PICK a \in ToSet(measures[j].anchors) : /\ a.name = anchor.name
                                                /\ a.page = b[t] + OffsetOf(anchor)
    BY <2>7
  <2>9. PICK offset, o : offset = PageOffset(j) /\ o = OffsetOf(anchor)
    OBVIOUS
  <2>10. PlacedIn(document, offset, j)
    <3>1. j \in 1..(shard - 1)
      <4>1. PICK D : D = Seq(DOMAIN plan) /\ shards \in Seq(D)
        BY <2>1
      <4>2. Len(shards) \in Nat
        BY <4>1, SeqRange
      <4> QED
        BY <2>1, <4>2
    <3> QED
      BY <2>9, <3>1 DEF DocumentPlaced
  <2>11. /\ offset + b[t] + o + 1 \in 1..Len(document)
         /\ PageAt(document[offset + b[t] + o + 1], s, o)
    BY <2>3, <2>4, <2>7, <2>9, <2>10 DEF PlacedIn
  <2>12. offset \in Nat /\ b[t] \in Nat /\ o \in Int
    <3>1. Counted(measures) /\ j \in 1..Len(measures)
      BY <2>1, <2>2 DEF MeasuresOf, Measured, MeasuredAs, IsMeasure, Counted
    <3>2. Before(measures, j) \in Nat
      BY <3>1, OffsetFacts
    <3> QED
      BY <2>3, <2>4, <2>7, <2>9, <3>2 DEF PageOffset, Before, MeasuredAs, IsStarts
  <2>13. PICK p : /\ p = offset + b[t] + o + 1 /\ p \in 1..Len(document)
                  /\ PageAt(document[p], s, o) /\ p = offset + a.page + 1
    <3>1. offset + a.page + 1 = offset + b[t] + o + 1
      BY <2>8, <2>9, <2>12
    <3> QED
      BY <2>11, <3>1
  <2>14. <<anchor.name, p>> \in AnchorPages
    <3>1. j \in DOMAIN measures
      BY <2>1, <2>2, SeqFacts DEF MeasuresOf
    <3>2. <<anchor.name, p>> = <<a.name, PageOffset(j) + a.page + 1>>
      BY <2>8, <2>9, <2>13
    <3> QED
      BY <2>8, <3>1, <3>2 DEF AnchorPages
  <2>15. DOMAIN document = 1..Len(document)
    BY <2>1, SeqRange
  <2> QED
    BY <2>5, <2>9, <2>13, <2>14, <2>15 DEF PageAt
<1>2. Spec => []DocumentInv
  BY NumberInvariant, PTL DEF Numbering
<1> QED
  BY <1>1, <1>2, StateInvariant, PlacedInvariants, PTL
=============================================================================
