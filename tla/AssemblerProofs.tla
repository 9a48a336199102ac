--------------------------- MODULE AssemblerProofs --------------------------
(***************************************************************************)
(* Proofs about Assembler and about Merge, which drives it, for any        *)
(* documents, bookmarks, calls and failures.                               *)
(***************************************************************************)
EXTENDS Merge, FunctionTheorems, FiniteSetTheorems, SequenceTheorems, TLAPS

-----------------------------------------------------------------------------
(* Facts about sequences, counting and orders.                             *)

(* Induction over the natural numbers, for a set: the library's theorem    *)
(* about a minimal element, of the intervals below the numbers not in S.   *)
LEMMA SetInduction ==
    ASSUME NEW S, 0 \in S, \A n \in Nat : n \in S => n + 1 \in S
    PROVE  \A n \in Nat : n \in S
<1> SUFFICES ASSUME NEW n0 \in Nat, n0 \notin S PROVE FALSE
  OBVIOUS
<1> DEFINE T == {0..n : n \in {k \in 0..n0 : k \notin S}}
<1>1. IsWellFoundedOn(StrictSubsetOrdering(0..n0), SUBSET (0..n0))
  <2>1. IsFiniteSet(0..n0)
    BY FS_Interval
  <2>2. PICK D : D = 0..n0
    OBVIOUS
  <2>3. FiniteSubsetsOf(D) = SUBSET D
    BY <2>1, <2>2, FS_FiniteSubsetsOfFinite, Zenon
  <2>4. IsWellFoundedOn(StrictSubsetOrdering(D), FiniteSubsetsOf(D))
    BY FS_StrictSubsetOrderingWellFounded, Zenon
  <2> QED
    BY <2>2, <2>3, <2>4, Zenon
<1>2. 0..n0 \in T
  OBVIOUS
<1>3. T \subseteq SUBSET (0..n0)
  OBVIOUS
<1>4. PICK U \in T : \A V \in T : <<V, U>> \notin StrictSubsetOrdering(0..n0)
  <2> HIDE DEF T
  <2> QED
    BY <1>1, <1>2, <1>3, WFMin
<1>5. PICK n \in 0..n0 : n \notin S /\ U = 0..n
  OBVIOUS
<1>6. n # 0 /\ n - 1 \in 0..n0
  BY <1>5
<1>7. 0..(n - 1) \in T
  BY <1>5, <1>6
<1>8. <<0..(n - 1), U>> \in StrictSubsetOrdering(0..n0)
  <2>1. 0..(n - 1) \subseteq 0..n /\ 0..(n - 1) # 0..n /\ 0..n \subseteq 0..n0
    BY <1>5, <1>6
  <2> QED
    BY <1>5, <2>1 DEF StrictSubsetOrdering
<1> QED
  BY <1>4, <1>7, <1>8

(* A sequence of anything.                                                 *)
IsSeq(s) == \E S : s \in Seq(S)

LEMMA SeqFacts ==
    ASSUME NEW s, IsSeq(s)
    PROVE  /\ Len(s) \in Nat /\ DOMAIN s = 1..Len(s)
           /\ s = [i \in 1..Len(s) |-> s[i]]
           /\ s \in Seq(ToSet(s))
  BY DEF IsSeq, ToSet

LEMMA SeqRange ==
    ASSUME NEW S, NEW s \in Seq(S)
    PROVE  /\ IsSeq(s) /\ Len(s) \in Nat /\ DOMAIN s = 1..Len(s)
           /\ \A i \in 1..Len(s) : s[i] \in S
  BY DEF IsSeq

LEMMA SeqMade ==
    ASSUME NEW n \in Nat, NEW s, DOMAIN s = 1..n, s = [i \in 1..n |-> s[i]]
    PROVE  IsSeq(s) /\ Len(s) = n
<1>1. PICK S : S = {s[i] : i \in 1..n}
  OBVIOUS
<1>2. s \in [1..n -> S]
  BY <1>1
<1>3. s \in Seq(S)
  BY <1>2
<1> QED
  BY <1>2, <1>3 DEF IsSeq

LEMMA Concat ==
    ASSUME NEW s, NEW t, IsSeq(s), IsSeq(t)
    PROVE  /\ IsSeq(s \o t)
           /\ Len(s \o t) = Len(s) + Len(t)
           /\ \A i \in 1..Len(s) : (s \o t)[i] = s[i]
           /\ \A i \in 1..Len(t) : (s \o t)[Len(s) + i] = t[i]
<1>1. PICK S : S = ToSet(s) \cup ToSet(t)
  OBVIOUS
<1>2. s \in Seq(S) /\ t \in Seq(S)
  BY <1>1, SeqFacts, SeqMonotonic
<1> QED
  BY <1>2, ConcatProperties DEF IsSeq

LEMMA Longer ==
    ASSUME NEW s, NEW e, IsSeq(s)
    PROVE  /\ IsSeq(Append(s, e))
           /\ Len(Append(s, e)) = Len(s) + 1
           /\ \A i \in 1..Len(s) : Append(s, e)[i] = s[i]
           /\ Append(s, e)[Len(s) + 1] = e
<1>1. PICK S : S = ToSet(s) \cup {e}
  OBVIOUS
<1>2. s \in Seq(S) /\ e \in S
  BY <1>1, SeqFacts, SeqMonotonic
<1> QED
  BY <1>2 DEF IsSeq

(* In any order of a finite set, each of its elements has its place.       *)
LEMMA OrderComplete ==
    ASSUME NEW S, IsFiniteSet(S), NEW order \in SetToSeqs(S)
    PROVE  /\ Cardinality(S) \in Nat
           /\ order \in [1..Cardinality(S) -> S]
           /\ \A i, j \in 1..Cardinality(S) : order[i] = order[j] => i = j
           /\ \A o \in S : \E i \in 1..Cardinality(S) : order[i] = o
<1>1. PICK n \in Nat : n = Cardinality(S)
  BY FS_CardinalityType
<1>2. order \in [1..n -> S] /\ \A i, j \in 1..n : order[i] = order[j] => i = j
  BY <1>1 DEF SetToSeqs
<1>3. order \in Injection(1..n, S)
  BY <1>2, Fun_IsInj
<1>4. IsFiniteSet(1..n) /\ Cardinality(1..n) = n
  BY FS_Interval
<1>5. order \in Surjection(1..n, S)
  BY <1>1, <1>3, <1>4, FS_Injection
<1>6. \A o \in S : \E i \in 1..n : order[i] = o
  BY <1>5, Fun_SurjectionProperties
<1> QED
  BY <1>1, <1>2, <1>6

-----------------------------------------------------------------------------
(* The writer.                                                             *)

NumbersOf(objects) == {objects[i].number : i \in DOMAIN objects}

Distinct(objects) ==
    \A i, j \in DOMAIN objects : objects[i].number = objects[j].number => i = j

(* The object number n leads to.                                           *)
At(w, n) == w.file[w.offsets[n] + 1]

Resolves(w, n) ==
    n \in DOMAIN w.offsets /\ w.offsets[n] \in 0..(Len(w.file) - 1) /\ At(w, n).number = n

IsWriter(w) ==
    /\ IsSeq(w.file)
    /\ IsFiniteSet(DOMAIN w.offsets)
    /\ DOMAIN w.offsets \subseteq Nat \ {0}
    /\ \A n \in DOMAIN w.offsets : w.offsets[n] \in 0..Len(w.file)

LEMMA NotedFacts ==
    ASSUME NEW w, NEW objects, Distinct(objects)
    PROVE  /\ DOMAIN Noted(w, objects) = DOMAIN w.offsets \cup NumbersOf(objects)
           /\ \A i \in DOMAIN objects :
                 Noted(w, objects)[objects[i].number] = Position(w, i)
           /\ \A n \in DOMAIN w.offsets \ NumbersOf(objects) :
                 Noted(w, objects)[n] = w.offsets[n]
  BY DEF Noted, NumbersOf, Distinct

LEMMA NumbersFinite ==
    ASSUME NEW objects, IsSeq(objects)
    PROVE  IsFiniteSet(NumbersOf(objects))
<1>1. Len(objects) \in Nat /\ DOMAIN objects = 1..Len(objects)
  BY SeqFacts
<1>2. IsFiniteSet(1..Len(objects))
  BY <1>1, FS_Interval
<1>3. PICK f : f = [i \in 1..Len(objects) |-> objects[i].number]
  OBVIOUS
<1>4. f \in Surjection(1..Len(objects), NumbersOf(objects))
  BY <1>1, <1>3, Fun_IsSurj DEF NumbersOf
<1> QED
  BY <1>2, <1>4, FS_Surjection

(* What is written can be looked up, and what was there still can.         *)
LEMMA WrittenFacts ==
    ASSUME NEW w, IsWriter(w), NEW objects, IsSeq(objects), Distinct(objects),
           NumbersOf(objects) \subseteq Nat \ {0}
    PROVE  /\ IsWriter(Written(w, objects))
           /\ DOMAIN Written(w, objects).offsets = DOMAIN w.offsets \cup NumbersOf(objects)
           /\ \A i \in DOMAIN objects :
                 /\ At(Written(w, objects), objects[i].number) = objects[i]
                 /\ Resolves(Written(w, objects), objects[i].number)
           /\ \A n \in Nat \ NumbersOf(objects) : Resolves(w, n) =>
                 /\ At(Written(w, objects), n) = At(w, n)
                 /\ Resolves(Written(w, objects), n)
<1>1. PICK u : u = Written(w, objects)
  OBVIOUS
<1>2. u.file = w.file \o objects /\ u.offsets = Noted(w, objects)
  BY <1>1 DEF Written
<1>3. /\ Len(w.file) \in Nat /\ Len(objects) \in Nat /\ DOMAIN objects = 1..Len(objects)
      /\ IsSeq(u.file) /\ Len(u.file) = Len(w.file) + Len(objects)
      /\ \A i \in 1..Len(w.file) : u.file[i] = w.file[i]
      /\ \A i \in 1..Len(objects) : u.file[Len(w.file) + i] = objects[i]
  <2>1. PICK file : file = w.file
    OBVIOUS
  <2>2. IsSeq(file) /\ Len(file) \in Nat /\ Len(objects) \in Nat /\ DOMAIN objects = 1..Len(objects)
    BY <2>1, SeqFacts DEF IsWriter
  <2>3. /\ IsSeq(file \o objects) /\ Len(file \o objects) = Len(file) + Len(objects)
        /\ \A i \in 1..Len(file) : (file \o objects)[i] = file[i]
        /\ \A i \in 1..Len(objects) : (file \o objects)[Len(file) + i] = objects[i]
    BY <2>2, Concat
  <2> QED
    BY <1>2, <2>1, <2>2, <2>3
<1>4. /\ DOMAIN u.offsets = DOMAIN w.offsets \cup NumbersOf(objects)
      /\ \A i \in 1..Len(objects) : u.offsets[objects[i].number] = Len(w.file) + i - 1
      /\ \A n \in DOMAIN w.offsets \ NumbersOf(objects) : u.offsets[n] = w.offsets[n]
  <2>1. /\ DOMAIN Noted(w, objects) = DOMAIN w.offsets \cup NumbersOf(objects)
        /\ \A i \in DOMAIN objects : Noted(w, objects)[objects[i].number] = Position(w, i)
        /\ \A n \in DOMAIN w.offsets \ NumbersOf(objects) : Noted(w, objects)[n] = w.offsets[n]
    BY NotedFacts, Zenon
  <2> QED
    BY <1>2, <1>3, <2>1 DEF Position
<1>5. ASSUME NEW i \in 1..Len(objects)
      PROVE  At(u, objects[i].number) = objects[i] /\ Resolves(u, objects[i].number)
  <2>1. objects[i].number \in DOMAIN u.offsets
    BY <1>3, <1>4 DEF NumbersOf
  <2>2. u.offsets[objects[i].number] + 1 = Len(w.file) + i
    <3>1. PICK a, b : a = u.offsets[objects[i].number] /\ b = Len(w.file)
      OBVIOUS
    <3>2. b \in Nat /\ a = b + i - 1
      BY <1>3, <1>4, <3>1
    <3>3. a + 1 = b + i
      BY <3>2
    <3> QED
      BY <3>1, <3>3
  <2>3. u.offsets[objects[i].number] \in 0..(Len(u.file) - 1)
    BY <1>3, <1>4
  <2> QED
    BY <1>3, <2>1, <2>2, <2>3 DEF At, Resolves
<1>6. ASSUME NEW n \in Nat \ NumbersOf(objects), Resolves(w, n)
      PROVE  At(u, n) = At(w, n) /\ Resolves(u, n)
  <2>1. u.offsets[n] = w.offsets[n] /\ n \in DOMAIN u.offsets
    BY <1>4, <1>6 DEF Resolves
  <2>2. w.offsets[n] \in 0..(Len(u.file) - 1) /\ w.offsets[n] + 1 \in 1..Len(w.file)
    BY <1>3, <1>6 DEF Resolves
  <2> QED
    BY <1>3, <1>6, <2>1, <2>2 DEF At, Resolves
<1>7. IsWriter(u)
  <2>1. IsFiniteSet(DOMAIN u.offsets)
    <3>1. IsFiniteSet(DOMAIN w.offsets) /\ IsFiniteSet(NumbersOf(objects))
      BY NumbersFinite DEF IsWriter
    <3>2. DOMAIN u.offsets = DOMAIN w.offsets \cup NumbersOf(objects)
      BY <1>4
    <3> QED
      BY <3>1, <3>2, FS_Union
  <2>2. ASSUME NEW n \in DOMAIN u.offsets PROVE u.offsets[n] \in 0..Len(u.file)
    <3>1. CASE n \in NumbersOf(objects)
      BY <1>3, <1>4, <3>1 DEF NumbersOf
    <3>2. CASE n \notin NumbersOf(objects)
      BY <1>3, <1>4, <3>2 DEF IsWriter
    <3> QED
      BY <3>1, <3>2
  <2> QED
    BY <1>3, <1>4, <2>1, <2>2 DEF IsWriter
<1> QED
  BY <1>1, <1>3, <1>4, <1>5, <1>6, <1>7

(* A write that fails loses nothing that could be looked up, either.       *)
LEMMA WriteFailsFacts ==
    ASSUME NEW w, IsWriter(w), NEW objects, IsSeq(objects), Distinct(objects),
           NumbersOf(objects) \subseteq Nat \ {0},
           NEW k \in DOMAIN objects, NEW u \in WriteFails(w, objects, k)
    PROVE  /\ IsWriter(u)
           /\ DOMAIN w.offsets \subseteq DOMAIN u.offsets
           /\ \A n \in Nat \ NumbersOf(objects) : Resolves(w, n) =>
                 At(u, n) = At(w, n) /\ Resolves(u, n)
<1>1. PICK part : part = SubSeq(objects, 1, k)
  OBVIOUS
<1>2. PICK before : before = SubSeq(objects, 1, k - 1)
  OBVIOUS
<1>3. PICK S : objects \in Seq(S)
  BY DEF IsSeq
<1>4. /\ Len(w.file) \in Nat /\ Len(objects) \in Nat /\ DOMAIN objects = 1..Len(objects)
      /\ k \in 1..Len(objects)
  BY SeqFacts DEF IsWriter
<1>5. /\ IsSeq(part) /\ Len(part) = k /\ \A i \in 1..k : part[i] = objects[i]
      /\ IsSeq(before) /\ Len(before) = k - 1
  <2>1. \A i \in 1..k : objects[i] \in S
    BY <1>3, <1>4
  <2>2. part \in Seq(S) /\ Len(part) = k /\ \A i \in 1..k : part[i] = objects[i]
    BY <1>1, <1>4, <2>1, SubSeqProperties
  <2>3. before \in Seq(S) /\ Len(before) = k - 1
    BY <1>2, <1>4, <2>1, SubSeqProperties
  <2> QED
    BY <2>2, <2>3 DEF IsSeq
<1>6. DOMAIN part = 1..k
  BY <1>5, SeqFacts
<1>7. Distinct(part) /\ NumbersOf(part) \subseteq NumbersOf(objects)
  BY <1>4, <1>5, <1>6 DEF Distinct, NumbersOf
<1>8. /\ u.offsets = Noted(w, part)
      /\ \/ u.file = w.file \o before
         \/ \E fragment : u.file = Append(w.file \o before, fragment)
  <2>1. PICK fragment : fragment = [number |-> 0, kind |-> "fragment"]
    OBVIOUS
  <2>2. u \in {[file |-> f, offsets |-> Noted(w, part)] :
                  f \in {w.file \o before, Append(w.file \o before, fragment)}}
    <3>1. u \in WriteFails(w, objects, k)
      OBVIOUS
    <3> QED
      BY <1>1, <1>2, <2>1, <3>1, Zenon DEF WriteFails
  <2>3. PICK f \in {w.file \o before, Append(w.file \o before, fragment)} :
           u = [file |-> f, offsets |-> Noted(w, part)]
    BY <2>2
  <2>4. u.file = f /\ u.offsets = Noted(w, part)
    BY <2>3
  <2> QED
    BY <2>4
<1>9. /\ IsSeq(u.file) /\ Len(u.file) \in Nat /\ Len(u.file) >= Len(w.file) + k - 1
      /\ \A i \in 1..Len(w.file) : u.file[i] = w.file[i]
  <2>1. /\ IsSeq(w.file \o before) /\ Len(w.file \o before) = Len(w.file) + k - 1
        /\ \A i \in 1..Len(w.file) : (w.file \o before)[i] = w.file[i]
    BY <1>5, Concat DEF IsWriter
  <2>2. CASE u.file = w.file \o before
    BY <1>4, <2>1, <2>2
  <2>3. CASE \E fragment : u.file = Append(w.file \o before, fragment)
    <3>1. PICK fragment : u.file = Append(w.file \o before, fragment)
      BY <2>3
    <3>2. PICK b : b = w.file \o before /\ IsSeq(b)
      BY <2>1
    <3>3. /\ IsSeq(Append(b, fragment)) /\ Len(Append(b, fragment)) = Len(b) + 1
          /\ \A i \in 1..Len(b) : Append(b, fragment)[i] = b[i]
      BY <3>2, Longer
    <3> QED
      BY <1>4, <2>1, <3>1, <3>2, <3>3
  <2> QED
    BY <1>8, <2>2, <2>3
<1>10. /\ DOMAIN u.offsets = DOMAIN w.offsets \cup NumbersOf(part)
       /\ \A i \in 1..k : u.offsets[part[i].number] = Len(w.file) + i - 1
       /\ \A n \in DOMAIN w.offsets \ NumbersOf(part) : u.offsets[n] = w.offsets[n]
  <2>1. /\ DOMAIN Noted(w, part) = DOMAIN w.offsets \cup NumbersOf(part)
        /\ \A i \in DOMAIN part : Noted(w, part)[part[i].number] = Position(w, i)
        /\ \A n \in DOMAIN w.offsets \ NumbersOf(part) : Noted(w, part)[n] = w.offsets[n]
    BY <1>7, NotedFacts, Zenon
  <2> QED
    BY <1>6, <1>8, <2>1 DEF Position
<1>11. ASSUME NEW n \in Nat \ NumbersOf(objects), Resolves(w, n)
       PROVE  At(u, n) = At(w, n) /\ Resolves(u, n)
  <2>1. u.offsets[n] = w.offsets[n] /\ n \in DOMAIN u.offsets
    BY <1>7, <1>10, <1>11 DEF Resolves
  <2>2. w.offsets[n] \in 0..(Len(u.file) - 1) /\ w.offsets[n] + 1 \in 1..Len(w.file)
    BY SMTT(30), <1>4, <1>9, <1>11 DEF Resolves
  <2> QED
    BY <1>9, <1>11, <2>1, <2>2 DEF At, Resolves
<1>12. IsWriter(u)
  <2>1. IsFiniteSet(DOMAIN u.offsets)
    <3>1. IsFiniteSet(DOMAIN w.offsets) /\ IsFiniteSet(NumbersOf(part))
      BY <1>5, NumbersFinite DEF IsWriter
    <3>2. DOMAIN u.offsets = DOMAIN w.offsets \cup NumbersOf(part)
      BY <1>10
    <3> QED
      BY <3>1, <3>2, FS_Union
  <2>2. ASSUME NEW n \in DOMAIN u.offsets PROVE u.offsets[n] \in 0..Len(u.file)
    <3>1. CASE n \in NumbersOf(part)
      <4>1. PICK i \in 1..k : n = part[i].number
        BY <1>6, <3>1 DEF NumbersOf
      <4>2. PICK a \in Nat, b \in Nat : a = Len(w.file) /\ b = Len(u.file)
        BY <1>4, <1>9
      <4>3. b >= a + k - 1 /\ k \in Nat
        BY <1>4, <1>9, <4>2
      <4>4. u.offsets[n] = a + i - 1
        BY <1>10, <4>1, <4>2
      <4>5. a + i - 1 \in 0..b
        BY <4>3
      <4> QED
        BY <4>2, <4>4, <4>5
    <3>2. CASE n \notin NumbersOf(part)
      BY <1>4, <1>9, <1>10, <3>2 DEF IsWriter
    <3> QED
      BY <3>1, <3>2
  <2> QED
    BY <1>7, <1>9, <1>10, <2>1, <2>2 DEF IsWriter
<1> QED
  BY <1>10, <1>11, <1>12

-----------------------------------------------------------------------------
(* The invariant: whatever was appended so far can be looked up.           *)

(* A list of bookmarks as finalize() reads it.                             *)
IsOutline(entries) ==
    /\ IsSeq(entries)
    /\ \A i \in 1..Len(entries) : entries[i].level \in Nat /\ entries[i].page \in Nat

(* A call of the assembly, by whatever host, or none.                      *)
Step ==
    \/ \E shard \in Shards : AppendShardDoc(shard)
    \/ \E entries : IsOutline(entries) /\ Finalize(entries)
    \/ UNCHANGED vars

LEMMA NextIsStep == [Next]_vars => Step
<1>1. ASSUME NEW entries \in Outlines PROVE IsOutline(entries)
  <2>1. entries \in Seq([level : Nat, page : Nat])
    BY OutlinesAreLists
  <2>2. IsSeq(entries) /\ \A i \in 1..Len(entries) : entries[i] \in [level : Nat, page : Nat]
    BY <2>1, SeqRange
  <2> QED
    BY <2>2 DEF IsOutline
<1> QED
  BY <1>1 DEF Next, Ended, Step

OpenInv ==
    /\ \A n \in FirstShardObject..(nextObject - 1) : Resolves(writer, n)
    /\ ~torn => DOMAIN writer.offsets = FirstShardObject..(nextObject - 1)

AssemblerInv ==
    /\ TypeOK
    /\ IsWriter(writer)
    /\ phase = "open" => OpenInv
    /\ appended \in Seq([call : Nat, shard : Shards])
    /\ IsSeq(namedDests) /\ \A i \in DOMAIN namedDests : namedDests[i].name \in Nat
    /\ XrefResolves

LEMMA InitAssembler == Init => AssemblerInv
<1> SUFFICES ASSUME Init PROVE AssemblerInv
  OBVIOUS
<1> USE DEF Init
<1>1. DOMAIN writer.offsets = {} /\ writer.file = <<>>
  OBVIOUS
<1>2. \A S : <<>> \in Seq(S)
  OBVIOUS
<1>3. IsWriter(writer)
  BY <1>1, <1>2, FS_EmptySet DEF IsWriter, IsSeq
<1>4. FirstShardObject \in Nat /\ FirstShardObject..(nextObject - 1) = {}
  BY DEF FirstShardObject
<1>5. OpenInv
  BY <1>1, <1>4 DEF OpenInv
<1>6. TypeOK
  <2>1. pageIds \in Seq(FirstShardObject..(nextObject - 1))
    BY <1>2
  <2>2. DOMAIN namedDests = {} /\ nextObject = FirstShardObject
    OBVIOUS
  <2>3. appends \in 0..MaxAppends
    BY AppendsNatural
  <2>4. phase = "open" /\ torn \in BOOLEAN
    OBVIOUS
  <2> HIDE DEF Init
  <2> QED
    BY <1>1, <1>4, <2>1, <2>2, <2>3, <2>4 DEF TypeOK
<1>7. XrefResolves
  BY DEF XrefResolves
<1>8. appended = <<>> /\ namedDests = <<>>
  OBVIOUS
<1> HIDE DEF Init
<1>9. appended \in Seq([call : Nat, shard : Shards]) /\ IsSeq(namedDests) /\ DOMAIN namedDests = {}
  BY <1>2, <1>8 DEF IsSeq
<1> QED
  BY <1>3, <1>5, <1>6, <1>7, <1>9 DEF AssemblerInv

-----------------------------------------------------------------------------
(* append_shard_doc().                                                     *)

LEMMA KeptFinite ==
    ASSUME NEW shard \in Shards
    PROVE  /\ IsFiniteSet(Kept(shard)) /\ Cardinality(Kept(shard)) \in Nat
           /\ shard.pages \in Seq(Kept(shard))
           /\ shard.dests \in Seq([name : Nat, page : Kept(shard)])
<1>1. IsFiniteSet(shard.objects) /\ Kept(shard) \in SUBSET shard.objects
  BY DocumentsWellFormed DEF Kept
<1>2. IsFiniteSet(Kept(shard))
  BY <1>1, FS_Subset
<1> QED
  BY <1>2, FS_CardinalityType, DocumentsWellFormed DEF Kept

(* The objects of a shard take up the numbers from the next one on.        *)
LEMMA ObjectsFacts ==
    ASSUME NEW shard \in Shards, NEW order \in Orders(shard),
           nextObject \in Nat \ {0},
           NEW n, n = Cardinality(Kept(shard)),
           NEW objects, objects = ObjectsOf(shard, order)
    PROVE  /\ n \in Nat /\ LastNumber(shard, nextObject) = nextObject + n - 1
           /\ IsSeq(objects) /\ DOMAIN objects = 1..n /\ DOMAIN order = 1..n
           /\ \A i \in 1..n : /\ objects[i] = ObjectOf(shard, order, i)
                              /\ objects[i].number = nextObject + i - 1
           /\ Distinct(objects)
           /\ NumbersOf(objects) = nextObject..(nextObject + n - 1)
           /\ \A o \in Kept(shard) : \E i \in 1..n :
                 order[i] = o /\ Numbered(order, nextObject, o) = nextObject + i - 1
<1>1. /\ n \in Nat /\ order \in [1..n -> Kept(shard)]
      /\ \A i, j \in 1..n : order[i] = order[j] => i = j
      /\ \A o \in Kept(shard) : \E i \in 1..n : order[i] = o
  <2>1. IsFiniteSet(Kept(shard)) /\ order \in SetToSeqs(Kept(shard))
    BY KeptFinite DEF Orders
  <2> QED
    BY <2>1, OrderComplete
<1>2. DOMAIN order = 1..n
  BY <1>1
<1>3. objects = [i \in 1..n |-> ObjectOf(shard, order, i)]
  BY <1>2 DEF ObjectsOf
<1>4. IsSeq(objects) /\ DOMAIN objects = 1..n
  BY <1>1, <1>3, SeqMade
<1>5. ASSUME NEW i \in 1..n
      PROVE  objects[i] = ObjectOf(shard, order, i) /\ objects[i].number = nextObject + i - 1
  <2>1. CASE order[i] \in ToSet(shard.pages)
    BY <1>3, <2>1 DEF ObjectOf
  <2>2. CASE order[i] \notin ToSet(shard.pages)
    BY <1>3, <2>2 DEF ObjectOf
  <2> QED
    BY <2>1, <2>2
<1>6. Distinct(objects)
  BY <1>1, <1>4, <1>5 DEF Distinct
<1>7. NumbersOf(objects) = nextObject..(nextObject + n - 1)
  <2>1. \A m \in nextObject..(nextObject + n - 1) :
           m - nextObject + 1 \in 1..n /\ m = objects[m - nextObject + 1].number
    BY <1>1, <1>5
  <2>2. \A i \in 1..n : objects[i].number \in nextObject..(nextObject + n - 1)
    BY <1>1, <1>5
  <2> QED
    BY <1>4, <2>1, <2>2 DEF NumbersOf
<1>8. ASSUME NEW o \in Kept(shard)
      PROVE  \E i \in 1..n :
                order[i] = o /\ Numbered(order, nextObject, o) = nextObject + i - 1
  <2>1. PICK i \in 1..n : order[i] = o
    BY <1>1
  <2>2. (CHOOSE j \in DOMAIN order : order[j] = o) = i
    BY <1>1, <1>2, <2>1
  <2>3. Numbered(order, nextObject, o) = nextObject - 1 + i
    BY <2>2 DEF Numbered
  <2> QED
    BY <2>1, <2>3
<1> QED
  BY <1>1, <1>2, <1>4, <1>5, <1>6, <1>7, <1>8 DEF LastNumber

(* Appending takes the numbers after those in use, and nothing else.       *)
LEMMA AppendMalformedKeeps ==
    ASSUME AssemblerInv, NEW shard \in Shards, phase = "open", appends < MaxAppends,
           appends' = appends + 1, UNCHANGED <<phase, outline>>,
           AppendMalformed(shard)
    PROVE  AssemblerInv'
<1>1. UNCHANGED <<writer, pageIds, namedDests, nextObject, appended, torn, phase>>
  BY DEF AppendMalformed
<1>2. TypeOK'
  BY <1>1, AppendsNatural DEF AssemblerInv, TypeOK
<1>3. IsWriter(writer)' /\ OpenInv'
  BY <1>1 DEF AssemblerInv, IsWriter, OpenInv, Resolves, At
<1>4. XrefResolves'
  BY <1>1 DEF XrefResolves
<1> QED
  BY <1>1, <1>2, <1>3, <1>4 DEF AssemblerInv

LEMMA AppendTearsKeeps ==
    ASSUME AssemblerInv, NEW shard \in Shards, phase = "open", appends < MaxAppends,
           appends' = appends + 1, UNCHANGED <<phase, outline>>,
           AppendTears(shard)
    PROVE  AssemblerInv'
<1>1. /\ UNCHANGED <<pageIds, namedDests, nextObject, appended, phase>> /\ torn' = TRUE
      /\ TypeOK /\ IsWriter(writer) /\ OpenInv
      /\ nextObject \in Nat \ {0}
  BY DEF AppendTears, AssemblerInv, TypeOK, FirstShardObject
<1>2. PICK order \in Orders(shard) : \E k \in DOMAIN order :
         writer' \in WriteFails(writer, ObjectsOf(shard, order), k)
  BY DEF AppendTears
<1>3. PICK objects, n : objects = ObjectsOf(shard, order) /\ n = Cardinality(Kept(shard))
  OBVIOUS
<1>4. /\ n \in Nat /\ IsSeq(objects) /\ Distinct(objects)
      /\ DOMAIN objects = DOMAIN order
      /\ NumbersOf(objects) = nextObject..(nextObject + n - 1)
  BY <1>1, <1>3, ObjectsFacts
<1>5. PICK k \in DOMAIN objects : writer' \in WriteFails(writer, objects, k)
  BY <1>2, <1>3, <1>4
<1>6. NumbersOf(objects) \subseteq Nat \ {0}
  BY <1>1, <1>4
<1>7. /\ IsWriter(writer')
      /\ \A m \in Nat \ NumbersOf(objects) : Resolves(writer, m) => Resolves(writer', m)
  BY <1>1, <1>4, <1>5, <1>6, WriteFailsFacts
<1>8. OpenInv'
  <2>1. ASSUME NEW m \in FirstShardObject..(nextObject - 1) PROVE Resolves(writer', m)
    BY <1>1, <1>4, <1>7 DEF OpenInv, FirstShardObject
  <2> QED
    BY <1>1, <2>1 DEF OpenInv, Resolves, At
<1>9. IsWriter(writer)'
  BY <1>7 DEF IsWriter
<1>10. TypeOK'
  BY <1>1, <1>9, AppendsNatural DEF TypeOK, IsWriter
<1>11. XrefResolves'
  BY <1>1 DEF XrefResolves
<1> QED
  BY <1>1, <1>8, <1>9, <1>10, <1>11 DEF AssemblerInv

LEMMA AppendSucceedsKeeps ==
    ASSUME AssemblerInv, NEW shard \in Shards, phase = "open", appends < MaxAppends,
           appends' = appends + 1, UNCHANGED <<phase, outline>>,
           AppendSucceeds(shard)
    PROVE  AssemblerInv'
<1>1. /\ TypeOK /\ IsWriter(writer) /\ OpenInv
      /\ nextObject \in Nat \ {0} /\ nextObject >= FirstShardObject
      /\ IsSeq(namedDests)
  BY DEF AssemblerInv, TypeOK, FirstShardObject
<1>2. PICK order \in Orders(shard) :
         /\ writer' = Written(writer, ObjectsOf(shard, order))
         /\ pageIds' = pageIds \o
               [i \in DOMAIN shard.pages |-> Numbered(order, nextObject, shard.pages[i])]
         /\ namedDests' = namedDests \o
               [i \in DOMAIN shard.dests |->
                   [name |-> shard.dests[i].name,
                    page |-> Numbered(order, nextObject, shard.dests[i].page)]]
  BY DEF AppendSucceeds
<1>3. PICK objects, n : objects = ObjectsOf(shard, order) /\ n = Cardinality(Kept(shard))
  OBVIOUS
<1>4. /\ n \in Nat /\ IsSeq(objects) /\ Distinct(objects)
      /\ NumbersOf(objects) = nextObject..(nextObject + n - 1)
      /\ DOMAIN objects = 1..n
      /\ \A i \in 1..n : objects[i].number = nextObject + i - 1
      /\ LastNumber(shard, nextObject) = nextObject + n - 1
      /\ \A o \in Kept(shard) : \E i \in 1..n :
            order[i] = o /\ Numbered(order, nextObject, o) = nextObject + i - 1
  BY <1>1, <1>3, ObjectsFacts
<1>5. /\ nextObject' = nextObject + n
      /\ appended' = Append(appended, [call |-> appends + 1, shard |-> shard])
      /\ UNCHANGED <<torn, phase>>
  BY <1>1, <1>4 DEF AppendSucceeds
<1>6. NumbersOf(objects) \subseteq Nat \ {0}
  BY <1>1, <1>4
<1>7. /\ IsWriter(writer')
      /\ DOMAIN writer'.offsets = DOMAIN writer.offsets \cup NumbersOf(objects)
      /\ \A i \in 1..n : Resolves(writer', objects[i].number)
      /\ \A m \in Nat \ NumbersOf(objects) : Resolves(writer, m) => Resolves(writer', m)
  BY <1>1, <1>2, <1>3, <1>4, <1>6, WrittenFacts
<1>8. OpenInv'
  <2>1. ASSUME NEW m \in FirstShardObject..(nextObject' - 1) PROVE Resolves(writer', m)
    <3>1. CASE m < nextObject
      BY <1>1, <1>4, <1>7, <3>1 DEF OpenInv, FirstShardObject
    <3>2. CASE m >= nextObject
      <4>1. m - nextObject + 1 \in 1..n
        BY <1>1, <1>4, <1>5, <3>2 DEF FirstShardObject
      <4>2. m = objects[m - nextObject + 1].number
        BY <1>1, <1>4, <4>1 DEF FirstShardObject
      <4> QED
        BY <1>7, <4>1, <4>2
    <3> QED
      BY <1>1, <3>1, <3>2 DEF FirstShardObject
  <2>2. ~torn => DOMAIN writer'.offsets = FirstShardObject..(nextObject' - 1)
    BY <1>1, <1>4, <1>5, <1>7 DEF OpenInv, FirstShardObject
  <2> QED
    BY <1>5, <2>1, <2>2 DEF OpenInv, Resolves, At
<1>9. IsWriter(writer)'
  BY <1>7 DEF IsWriter
<1>10. /\ shard.pages \in Seq(Kept(shard))
       /\ shard.dests \in Seq([name : Nat, page : Kept(shard)])
  BY KeptFinite
<1>11. \A o \in Kept(shard) :
          Numbered(order, nextObject, o) \in FirstShardObject..(nextObject' - 1)
  BY <1>1, <1>4, <1>5 DEF FirstShardObject
<1>12. pageIds' \in Seq(FirstShardObject..(nextObject' - 1))
  <2>1. PICK numbers : numbers = FirstShardObject..(nextObject' - 1)
    OBVIOUS
  <2>2. PICK added : added =
           [i \in DOMAIN shard.pages |-> Numbered(order, nextObject, shard.pages[i])]
    OBVIOUS
  <2>3. added \in Seq(numbers)
    <3>1. /\ Len(shard.pages) \in Nat /\ DOMAIN shard.pages = 1..Len(shard.pages)
          /\ \A i \in 1..Len(shard.pages) : shard.pages[i] \in Kept(shard)
      BY <1>10
    <3>2. added \in [1..Len(shard.pages) -> numbers]
      BY <1>11, <2>1, <2>2, <3>1
    <3> QED
      BY <3>1, <3>2
  <2>4. pageIds \in Seq(numbers)
    <3>1. FirstShardObject..(nextObject - 1) \subseteq numbers
      BY <1>1, <1>4, <1>5, <2>1 DEF FirstShardObject
    <3> QED
      BY <1>1, <3>1, SeqMonotonic DEF TypeOK
  <2> QED
    BY <1>2, <2>1, <2>2, <2>3, <2>4
<1>13. /\ IsSeq(namedDests')
       /\ \A i \in DOMAIN namedDests' : /\ namedDests'[i].name \in Nat
                                        /\ namedDests'[i].page \in FirstShardObject..(nextObject' - 1)
  <2>1. PICK numbers : numbers = FirstShardObject..(nextObject' - 1)
    OBVIOUS
  <2>2. PICK added : added =
           [i \in DOMAIN shard.dests |->
               [name |-> shard.dests[i].name,
                page |-> Numbered(order, nextObject, shard.dests[i].page)]]
    OBVIOUS
  <2>3. /\ Len(shard.dests) \in Nat /\ DOMAIN shard.dests = 1..Len(shard.dests)
        /\ \A i \in 1..Len(shard.dests) :
              shard.dests[i].name \in Nat /\ shard.dests[i].page \in Kept(shard)
    <3>1. PICK d, K : d = shard.dests /\ K = Kept(shard)
      OBVIOUS
    <3>2. d \in Seq([name : Nat, page : K])
      BY <1>10, <3>1
    <3>3. /\ Len(d) \in Nat /\ DOMAIN d = 1..Len(d)
          /\ \A i \in 1..Len(d) : d[i] \in [name : Nat, page : K]
      BY <3>2, SeqRange, Zenon
    <3>4. \A i \in 1..Len(d) : d[i].name \in Nat /\ d[i].page \in K
      BY <3>3
    <3> QED
      BY <3>1, <3>3, <3>4
  <2>4. /\ IsSeq(added) /\ Len(added) \in Nat /\ DOMAIN added = 1..Len(added)
        /\ \A i \in 1..Len(added) : added[i].name \in Nat /\ added[i].page \in numbers
    <3>0. DOMAIN added = DOMAIN shard.dests /\ added = [i \in DOMAIN shard.dests |-> added[i]]
      BY <2>2, Zenon
    <3>1. DOMAIN added = 1..Len(shard.dests) /\ added = [i \in 1..Len(shard.dests) |-> added[i]]
      BY <2>3, <3>0
    <3>2. IsSeq(added) /\ Len(added) = Len(shard.dests)
      BY <2>3, <3>1, SeqMade
    <3> QED
      BY <1>11, <2>1, <2>2, <2>3, <3>1, <3>2
  <2>5. /\ Len(namedDests) \in Nat /\ DOMAIN namedDests = 1..Len(namedDests)
        /\ \A i \in 1..Len(namedDests) :
              namedDests[i].name \in Nat /\ namedDests[i].page \in numbers
    BY SMTT(30), <1>1, <1>4, <1>5, <2>1, SeqFacts DEF AssemblerInv, TypeOK, FirstShardObject
  <2>6. /\ IsSeq(namedDests') /\ Len(namedDests') = Len(namedDests) + Len(added)
        /\ DOMAIN namedDests' = 1..Len(namedDests')
        /\ \A i \in 1..Len(namedDests) : namedDests'[i] = namedDests[i]
        /\ \A i \in 1..Len(added) : namedDests'[Len(namedDests) + i] = added[i]
    BY SMTT(30), <1>1, <1>2, <2>2, <2>4, Concat, SeqFacts
  <2>7. ASSUME NEW i \in DOMAIN namedDests'
        PROVE  namedDests'[i].name \in Nat /\ namedDests'[i].page \in numbers
    <3>1. CASE i \in 1..Len(namedDests)
      BY <2>5, <2>6, <3>1
    <3>2. CASE i \notin 1..Len(namedDests)
      <4>1. i - Len(namedDests) \in 1..Len(added)
            /\ i = Len(namedDests) + (i - Len(namedDests))
        BY <2>4, <2>5, <2>6, <3>2
      <4> QED
        BY <2>4, <2>6, <4>1
    <3> QED
      BY <3>1, <3>2
  <2> QED
    BY <2>1, <2>6, <2>7
<1>14. TypeOK'
  <2>1. nextObject' \in Nat /\ nextObject' >= FirstShardObject
    BY <1>1, <1>4, <1>5 DEF FirstShardObject
  <2> QED
    BY <1>1, <1>5, <1>9, <1>12, <1>13, <2>1, AppendsNatural DEF TypeOK, IsWriter
<1>15. appended' \in Seq([call : Nat, shard : Shards])
  <2>1. [call |-> appends + 1, shard |-> shard] \in [call : Nat, shard : Shards]
    BY <1>1, AppendsNatural DEF TypeOK
  <2> QED
    BY <1>5, <2>1 DEF AssemblerInv
<1>16. XrefResolves'
  BY <1>5 DEF XrefResolves
<1> QED
  BY <1>5, <1>8, <1>9, <1>13, <1>14, <1>15, <1>16 DEF AssemblerInv

-----------------------------------------------------------------------------
(* finalize().                                                             *)

(* The rows of the table are the offsets of the numbers, when no number    *)
(* below the size is missing.                                              *)
LEMMA TableFacts ==
    ASSUME NEW w, IsWriter(w), NEW size \in Nat \ {0},
           1..(size - 1) \subseteq DOMAIN w.offsets
    PROVE  /\ Table(w, size).size = size /\ Table(w, size).root = CatalogId
           /\ \A n \in 1..(size - 1) : Table(w, size).rows[n] = w.offsets[n]
           /\ DOMAIN w.offsets = 1..(size - 1) => Len(Table(w, size).rows) = size - 1
<1>1. PICK keys : keys = DOMAIN w.offsets
  OBVIOUS
<1>2. IsFiniteSet(keys) /\ keys \subseteq Nat \ {0} /\ 1..(size - 1) \subseteq keys
  BY <1>1 DEF IsWriter
<1>3. PICK count \in Nat : count = Cardinality(keys)
  BY <1>2, FS_CardinalityType
<1>4. \A n \in Nat : IsFiniteSet(1..n) /\ Cardinality(1..n) = n
  BY FS_Interval
<1>5. count >= size - 1
  <2>1. Cardinality(1..(size - 1)) <= Cardinality(keys)
    BY <1>2, FS_Subset
  <2> QED
    BY <1>3, <1>4, <2>1
<1>6. PICK below : below = [n \in keys |-> {m \in keys : m < n}]
  OBVIOUS
<1>7. ASSUME NEW i \in 1..(size - 1)
      PROVE  (CHOOSE n \in keys : Cardinality({m \in keys : m < n}) = i - 1) = i
  <2>1. ASSUME NEW n \in 1..(size - 1) PROVE below[n] = 1..(n - 1)
    <3>1. below[n] = {m \in keys : m < n}
      BY <1>2, <1>6
    <3>2. \A m \in keys : m < n => m \in 1..(n - 1)
      BY <1>2
    <3>3. \A m \in 1..(n - 1) : m \in keys /\ m < n
      BY <1>2
    <3> QED
      BY <3>1, <3>2, <3>3
  <2>2. \A n \in 1..(size - 1) : Cardinality(below[n]) = n - 1
    BY <1>4, <2>1
  <2>3. ASSUME NEW n \in keys, n > i PROVE Cardinality(below[n]) >= i
    <3>1. 1..i \subseteq below[n] /\ below[n] \in SUBSET keys
      BY <1>2, <1>6, <2>3
    <3>2. IsFiniteSet(below[n]) /\ Cardinality(below[n]) \in Nat
      BY <1>2, <3>1, FS_Subset, FS_CardinalityType
    <3>3. Cardinality(1..i) <= Cardinality(below[n])
      BY <3>1, <3>2, FS_Subset
    <3> QED
      BY <1>4, <3>3
  <2>4. \A n \in keys : Cardinality(below[n]) = i - 1 => n = i
    <3> SUFFICES ASSUME NEW n \in keys, Cardinality(below[n]) = i - 1 PROVE n = i
      OBVIOUS
    <3>1. CASE n > i
      BY <2>3, <3>1
    <3>2. CASE n <= i
      BY <1>2, <2>2, <3>2
    <3> QED
      BY <1>2, <3>1, <3>2
  <2>5. i \in keys /\ Cardinality(below[i]) = i - 1
    BY <1>2, <2>2
  <2>6. PICK j : j = CHOOSE n \in keys : Cardinality({m \in keys : m < n}) = i - 1
    OBVIOUS
  <2>7. \A n \in keys : below[n] = {m \in keys : m < n}
    BY <1>6
  <2>8. Cardinality({m \in keys : m < i}) = i - 1
    BY <2>5, <2>7
  <2>9. j \in keys /\ Cardinality({m \in keys : m < j}) = i - 1
    BY <2>5, <2>6, <2>8, Zenon
  <2>10. Cardinality(below[j]) = i - 1
    BY <2>7, <2>9
  <2> QED
    BY <2>4, <2>6, <2>9, <2>10
<1>8. PICK rows : rows = Table(w, size).rows
  OBVIOUS
<1>9. rows = [i \in 1..count |->
                 w.offsets[CHOOSE n \in keys : Cardinality({m \in keys : m < n}) = i - 1]]
  BY <1>1, <1>3, <1>8 DEF Table
<1>10. ASSUME NEW n \in 1..(size - 1) PROVE rows[n] = w.offsets[n]
  <2>1. n \in 1..count
    BY <1>5
  <2>2. rows[n] = w.offsets[CHOOSE m \in keys : Cardinality({l \in keys : l < m}) = n - 1]
    BY <1>9, <2>1
  <2> QED
    BY <1>7, <2>2
<1>11. DOMAIN rows = 1..count /\ rows = [i \in 1..count |-> rows[i]]
  BY <1>9
<1>12. Len(rows) = count
  BY <1>11, SeqMade
<1>13. keys = 1..(size - 1) => count = size - 1
  BY <1>3, <1>4
<1>14. Table(w, size).size = size /\ Table(w, size).root = CatalogId
  BY DEF Table
<1> QED
  BY <1>1, <1>8, <1>10, <1>12, <1>13, <1>14

(* The bookmarks take the numbers after those in use.                      *)
LEMMA BookmarksFacts ==
    ASSUME NEW entries, IsOutline(entries), nextObject \in Nat \ {0},
           NEW objects, objects = OutlineObjects(entries)
    PROVE  /\ IsSeq(objects) /\ Len(objects) \in Nat
           /\ Size(entries) = nextObject + Len(objects)
           /\ \A i \in 1..Len(objects) : objects[i].number = nextObject + i - 1
<1>1. PICK m : m = Len(entries)
  OBVIOUS
<1>2. /\ m \in Nat /\ DOMAIN entries = 1..m
  BY <1>1, SeqFacts DEF IsOutline
<1>3. Size(entries) = nextObject + Len(objects)
  BY DEF Size
<1>4. CASE entries = <<>>
  <2>1. objects = <<>>
    BY <1>4 DEF OutlineObjects
  <2>2. IsSeq(objects) /\ Len(objects) = 0
    BY <2>1 DEF IsSeq
  <2> QED
    BY <1>3, <2>2
<1>5. CASE entries # <<>>
  <2>1. PICK items : items = [i \in 1..m |-> OutlineItem(entries, i)]
    OBVIOUS
  <2>2. objects = Append(items, OutlineRoot(entries))
    BY <1>2, <1>5, <2>1 DEF OutlineObjects
  <2>3. DOMAIN items = 1..m /\ items = [i \in 1..m |-> items[i]]
    BY <2>1
  <2>4. IsSeq(items) /\ Len(items) = m
    BY <1>2, <2>3, SeqMade
  <2>5. PICK last : last = OutlineRoot(entries)
    OBVIOUS
  <2>6. /\ IsSeq(objects) /\ Len(objects) = m + 1
        /\ \A i \in 1..m : objects[i] = items[i]
        /\ objects[m + 1] = last
    BY <2>2, <2>4, <2>5, Longer
  <2>7. ASSUME NEW i \in 1..m PROVE items[i].number = nextObject + i - 1
    <3>1. items[i] = OutlineItem(entries, i)
      BY <2>1
    <3>2. OutlineItem(entries, i).number = EntryNumber(i)
      BY DEF OutlineItem
    <3> QED
      BY <1>2, <3>1, <3>2 DEF EntryNumber, None
  <2>8. last.number = nextObject + m
    BY <1>1, <2>5 DEF OutlineRoot, RootNumber
  <2>9. ASSUME NEW i \in 1..(m + 1) PROVE objects[i].number = nextObject + i - 1
    <3>1. CASE i \in 1..m
      BY <2>6, <2>7, <3>1
    <3>2. CASE i = m + 1
      BY <1>2, <2>5, <2>6, <2>8, <3>2
    <3> QED
      BY <1>2, <3>1, <3>2
  <2>10. Len(objects) = m + 1
    BY <2>6
  <2> QED
    BY <1>2, <1>3, <2>6, <2>9, <2>10
<1> QED
  BY <1>4, <1>5

(* A sequence numbered 1 at its first place, 2 at its last and one after    *)
(* the other from `start` in between.                                      *)
IsTail(objects, m, start) ==
    /\ IsSeq(objects) /\ Len(objects) = m + 2
    /\ objects[1].number = 1 /\ objects[m + 2].number = 2
    /\ \A i \in 2..(m + 1) : objects[i].number = start + i - 2

LEMMA TailNumbers ==
    ASSUME NEW m \in Nat, NEW start \in Nat, start >= 3,
           NEW objects, IsTail(objects, m, start)
    PROVE  /\ DOMAIN objects = 1..(m + 2)
           /\ Distinct(objects)
           /\ NumbersOf(objects) = {1, 2} \cup start..(start + m - 1)
<1> USE DEF IsTail
<1>1. DOMAIN objects = 1..(m + 2)
  BY SeqFacts
<1>2. \A i \in DOMAIN objects : i = 1 \/ i = m + 2 \/ i \in 2..(m + 1)
  BY <1>1
<1>3. Distinct(objects)
  <2> SUFFICES ASSUME NEW i \in DOMAIN objects, NEW j \in DOMAIN objects,
                      objects[i].number = objects[j].number
               PROVE  i = j
    BY DEF Distinct
  <2>1. \A k \in 2..(m + 1) : objects[k].number >= 3
    OBVIOUS
  <2> QED
    BY <1>2, <2>1
<1>4. NumbersOf(objects) = {1, 2} \cup start..(start + m - 1)
  <2>1. ASSUME NEW i \in DOMAIN objects
        PROVE  objects[i].number \in {1, 2} \cup start..(start + m - 1)
    BY <1>2
  <2>2. ASSUME NEW n \in {1, 2} \cup start..(start + m - 1)
        PROVE  \E i \in DOMAIN objects : objects[i].number = n
    <3>1. CASE n = 1
      BY <1>1, <3>1
    <3>2. CASE n = 2
      BY <1>1, <3>2
    <3>3. CASE n \in start..(start + m - 1)
      <4>1. n - start + 2 \in 2..(m + 1)
        BY <3>3
      <4>2. objects[n - start + 2].number = n
        BY <3>3, <4>1
      <4> QED
        BY <1>1, <4>1, <4>2
    <3> QED
      BY <3>1, <3>2, <3>3
  <2> QED
    BY <2>1, <2>2 DEF NumbersOf
<1> QED
  BY <1>1, <1>3, <1>4

(* Two elements put around a sequence.                                     *)
Frame(first, s, last) == <<first>> \o s \o <<last>>

LEMMA Framed ==
    ASSUME NEW first, NEW s, IsSeq(s), NEW m \in Nat, m = Len(s), NEW last,
           NEW t, t = Frame(first, s, last)
    PROVE  /\ IsSeq(t) /\ Len(t) = m + 2 /\ t[1] = first /\ t[m + 2] = last
           /\ \A i \in 1..m : t[i + 1] = s[i]
<1>1. PICK a, z : a = <<first>> /\ z = <<last>>
  OBVIOUS
<1>2. IsSeq(a) /\ Len(a) = 1 /\ a[1] = first /\ IsSeq(z) /\ Len(z) = 1 /\ z[1] = last
  <2>1. a \in Seq({first}) /\ z \in Seq({last})
    BY <1>1
  <2> QED
    BY <1>1, <2>1 DEF IsSeq
<1>3. PICK head : head = a \o s
  OBVIOUS
<1>4. /\ IsSeq(head) /\ Len(head) = 1 + m /\ head[1] = first
      /\ \A i \in 1..m : head[1 + i] = s[i]
  <2>1. /\ IsSeq(a \o s) /\ Len(a \o s) = Len(a) + Len(s)
        /\ \A i \in 1..Len(a) : (a \o s)[i] = a[i]
        /\ \A i \in 1..Len(s) : (a \o s)[Len(a) + i] = s[i]
    <3>1. IsSeq(a) /\ IsSeq(s)
      BY <1>2
    <3> QED
      BY <3>1, Concat
  <2> QED
    BY <1>2, <1>3, <2>1
<1>5. /\ IsSeq(t) /\ Len(t) = Len(head) + 1
      /\ \A i \in 1..Len(head) : t[i] = head[i]
      /\ t[Len(head) + 1] = last
  <2>1. t = head \o z
    BY <1>1, <1>3 DEF Frame
  <2>2. /\ IsSeq(head \o z) /\ Len(head \o z) = Len(head) + Len(z)
        /\ \A i \in 1..Len(head) : (head \o z)[i] = head[i]
        /\ \A i \in 1..Len(z) : (head \o z)[Len(head) + i] = z[i]
    <3>1. IsSeq(head) /\ IsSeq(z)
      BY <1>2, <1>4
    <3> QED
      BY <3>1, Concat
  <2>3. 1 \in 1..Len(z)
    BY <1>2
  <2> QED
    BY <1>2, <2>1, <2>2, <2>3
<1>6. Len(t) = m + 2 /\ t[m + 2] = last /\ t[1] = first
  <2>1. 1 + m + 1 = m + 2 /\ 1 \in 1..(1 + m)
    OBVIOUS
  <2> QED
    BY <1>4, <1>5, <2>1
<1>7. ASSUME NEW i \in 1..m PROVE t[i + 1] = s[i]
  <2>1. i + 1 = 1 + i /\ i + 1 \in 1..(1 + m)
    OBVIOUS
  <2> QED
    BY <1>4, <1>5, <2>1
<1> QED
  BY <1>5, <1>6, <1>7

(* What finalize() writes before the table: the page tree, the bookmarks   *)
(* and the catalog.                                                        *)
LastObjects(entries) == Frame(PagesObject, OutlineObjects(entries), CatalogObject(entries))

LEMMA TailFacts ==
    ASSUME NEW entries, IsOutline(entries), nextObject \in Nat, nextObject >= FirstShardObject,
           NEW objects, objects = LastObjects(entries)
    PROVE  /\ IsSeq(objects) /\ Len(objects) \in Nat \ {0, 1} /\ DOMAIN objects = 1..Len(objects)
           /\ Size(entries) = nextObject + Len(objects) - 2
           /\ objects[1] = PagesObject /\ objects[1].number = PagesId
           /\ objects[Len(objects)] = CatalogObject(entries)
           /\ objects[Len(objects)].number = CatalogId
           /\ \A i \in 2..(Len(objects) - 1) : objects[i].number = nextObject + i - 2
           /\ Distinct(objects)
           /\ NumbersOf(objects) = {PagesId, CatalogId} \cup nextObject..(Size(entries) - 1)
<1>1. PICK start \in Nat : start = nextObject /\ start >= 3
  BY DEF FirstShardObject
<1>2. PagesId = 1 /\ CatalogId = 2
  BY DEF PagesId, CatalogId
<1>3. PICK bookmarks : bookmarks = OutlineObjects(entries)
  OBVIOUS
<1>4. /\ IsSeq(bookmarks) /\ Len(bookmarks) \in Nat
      /\ Size(entries) = start + Len(bookmarks)
      /\ \A i \in 1..Len(bookmarks) : bookmarks[i].number = start + i - 1
  <2>1. nextObject \in Nat \ {0}
    BY <1>1
  <2>2. /\ IsSeq(bookmarks) /\ Len(bookmarks) \in Nat
        /\ Size(entries) = nextObject + Len(bookmarks)
        /\ \A i \in 1..Len(bookmarks) : bookmarks[i].number = nextObject + i - 1
    BY <1>3, <2>1, BookmarksFacts
  <2> QED
    BY <1>1, <2>2
<1>5. PICK m \in Nat : m = Len(bookmarks)
  BY <1>4
<1>6. PagesObject.number = 1 /\ CatalogObject(entries).number = 2
  BY <1>2 DEF PagesObject, CatalogObject
<1>7. /\ IsSeq(objects) /\ Len(objects) = m + 2
      /\ objects[1] = PagesObject /\ objects[m + 2] = CatalogObject(entries)
      /\ \A i \in 1..m : objects[i + 1] = bookmarks[i]
  <2>1. objects = Frame(PagesObject, bookmarks, CatalogObject(entries))
    BY <1>3 DEF LastObjects
  <2>2. IsSeq(bookmarks) /\ m = Len(bookmarks)
    BY <1>4, <1>5
  <2>3. PICK first, last : first = PagesObject /\ last = CatalogObject(entries)
    OBVIOUS
  <2>4. objects = Frame(first, bookmarks, last)
    BY <2>1, <2>3
  <2>5. /\ IsSeq(objects) /\ Len(objects) = m + 2
        /\ objects[1] = first /\ objects[m + 2] = last
        /\ \A i \in 1..m : objects[i + 1] = bookmarks[i]
    BY SMTT(30), <2>2, <2>4, Framed
  <2> QED
    BY <2>3, <2>5
<1>8. ASSUME NEW i \in 2..(m + 1) PROVE objects[i].number = start + i - 2
  <2>1. PICK j \in 1..m : i = j + 1
    <3>1. i - 1 \in 1..m /\ i = (i - 1) + 1
      OBVIOUS
    <3> QED
      BY <3>1
  <2>2. objects[j + 1].number = start + j - 1
    BY <1>4, <1>5, <1>7
  <2>3. start + j - 1 = start + (j + 1) - 2
    OBVIOUS
  <2> QED
    BY <2>1, <2>2, <2>3
<1>9. /\ DOMAIN objects = 1..(m + 2)
      /\ Distinct(objects)
      /\ NumbersOf(objects) = {1, 2} \cup start..(start + m - 1)
  <2>1. start >= 3 /\ IsTail(objects, m, start)
    BY <1>1, <1>6, <1>7, <1>8 DEF IsTail
  <2> QED
    BY <2>1, TailNumbers
<1>10. /\ Len(objects) \in Nat \ {0, 1} /\ Len(objects) - 1 = m + 1
       /\ Size(entries) = start + Len(objects) - 2
       /\ Size(entries) - 1 = start + m - 1
  BY <1>1, <1>4, <1>5, <1>7
<1> QED
  BY <1>1, <1>2, <1>6, <1>7, <1>8, <1>9, <1>10

LEMMA BodyFacts ==
    ASSUME AssemblerInv, phase = "open", NEW entries, IsOutline(entries),
           NEW objects, objects = LastObjects(entries)
    PROVE  /\ Size(entries) \in Nat /\ Size(entries) >= nextObject
           /\ IsWriter(Body(entries))
           /\ \A n \in 1..(Size(entries) - 1) : Resolves(Body(entries), n)
           /\ ~torn => DOMAIN Body(entries).offsets = 1..(Size(entries) - 1)
           /\ At(Body(entries), PagesId) = PagesObject
           /\ At(Body(entries), CatalogId) = CatalogObject(entries)
           /\ \A n \in FirstShardObject..(nextObject - 1) : At(Body(entries), n) = At(writer, n)
           /\ \A i \in 2..(Len(objects) - 1) : At(Body(entries), nextObject + i - 2) = objects[i]
<1>1. /\ IsWriter(writer) /\ OpenInv
      /\ nextObject \in Nat /\ nextObject >= FirstShardObject
  BY DEF AssemblerInv, TypeOK
<1>2. FirstShardObject = 3 /\ PagesId = 1 /\ CatalogId = 2
  BY DEF FirstShardObject, PagesId, CatalogId
<1>3. PICK len \in Nat \ {0, 1} : len = Len(objects)
  BY <1>1, TailFacts
<1>4. /\ IsSeq(objects) /\ DOMAIN objects = 1..len
      /\ Size(entries) = nextObject + len - 2
      /\ objects[1] = PagesObject /\ objects[1].number = PagesId
      /\ objects[len] = CatalogObject(entries)
      /\ objects[len].number = CatalogId
      /\ \A i \in 2..(len - 1) : objects[i].number = nextObject + i - 2
      /\ Distinct(objects)
      /\ NumbersOf(objects) = {PagesId, CatalogId} \cup nextObject..(Size(entries) - 1)
  BY <1>1, <1>3, TailFacts
<1>5. PICK body : body = Body(entries)
  OBVIOUS
<1>6. body = Written(writer, objects)
  BY <1>5 DEF Body, LastObjects, Frame
<1>7. NumbersOf(objects) \subseteq Nat \ {0}
  BY <1>1, <1>2, <1>3, <1>4
<1>8. /\ IsWriter(body)
      /\ DOMAIN body.offsets = DOMAIN writer.offsets \cup NumbersOf(objects)
      /\ \A i \in DOMAIN objects : /\ At(body, objects[i].number) = objects[i]
                                   /\ Resolves(body, objects[i].number)
      /\ \A n \in Nat \ NumbersOf(objects) : Resolves(writer, n) =>
            At(body, n) = At(writer, n) /\ Resolves(body, n)
  <2>1. IsWriter(writer) /\ IsSeq(objects) /\ Distinct(objects)
    BY <1>1, <1>4
  <2> QED
    BY <1>6, <1>7, <2>1, WrittenFacts
<1>9. \A n \in FirstShardObject..(nextObject - 1) : n \in Nat \ NumbersOf(objects)
  BY <1>1, <1>2, <1>4
<1>10. \A n \in FirstShardObject..(nextObject - 1) :
          At(body, n) = At(writer, n) /\ Resolves(body, n)
  BY <1>1, <1>8, <1>9 DEF OpenInv
<1>11. Size(entries) \in Nat /\ Size(entries) >= nextObject
  BY <1>1, <1>3, <1>4
<1>12. \A n \in 1..(Size(entries) - 1) :
          n \in FirstShardObject..(nextObject - 1) \/ n \in NumbersOf(objects)
  BY <1>1, <1>2, <1>4, <1>11
<1>13. \A n \in NumbersOf(objects) : Resolves(body, n)
  BY <1>8 DEF NumbersOf
<1>14. ~torn => DOMAIN body.offsets = 1..(Size(entries) - 1)
  <2> SUFFICES ASSUME ~torn PROVE DOMAIN body.offsets = 1..(Size(entries) - 1)
    OBVIOUS
  <2>1. DOMAIN body.offsets = FirstShardObject..(nextObject - 1) \cup NumbersOf(objects)
    BY <1>1, <1>8 DEF OpenInv
  <2>2. \A n \in DOMAIN body.offsets : n \in 1..(Size(entries) - 1)
    BY <1>1, <1>2, <1>4, <1>11, <2>1
  <2> QED
    BY <1>12, <2>1, <2>2
<1>15. At(body, PagesId) = PagesObject /\ At(body, CatalogId) = CatalogObject(entries)
  <2>1. 1 \in DOMAIN objects /\ len \in DOMAIN objects
    BY <1>4
  <2> QED
    BY <1>4, <1>8, <2>1
<1>16. ASSUME NEW i \in 2..(len - 1) PROVE At(body, nextObject + i - 2) = objects[i]
  <2>1. i \in DOMAIN objects /\ objects[i].number = nextObject + i - 2
    BY <1>4
  <2> QED
    BY <1>8, <2>1
<1> QED
  BY <1>3, <1>5, <1>8, <1>10, <1>11, <1>12, <1>13, <1>14, <1>15, <1>16

(* The file that finalize() completes: what a viewer looks up in its table *)
(* is what the offsets noted.                                              *)
LEMMA PublishedFacts ==
    ASSUME AssemblerInv, phase = "open", NEW entries, IsOutline(entries),
           writer' = [Body(entries) EXCEPT
                         !.file = Append(@, Table(Body(entries), Size(entries)))]
    PROVE  /\ Xref' = Table(Body(entries), Size(entries))
           /\ IsWriter(writer')
           /\ Xref'.size = Size(entries) /\ Xref'.root = CatalogId
           /\ \A n \in 1..(Size(entries) - 1) : /\ Lookup(n)' = At(Body(entries), n)
                                                /\ Lookup(n)'.number = n
           /\ ~torn => Len(Xref'.rows) = Size(entries) - 1
<1>1. PICK body, size : body = Body(entries) /\ size = Size(entries)
  OBVIOUS
<1>2. PICK objects : objects = LastObjects(entries)
  OBVIOUS
<1>3. /\ size \in Nat \ {0}
      /\ IsWriter(body)
      /\ \A n \in 1..(size - 1) : Resolves(body, n)
      /\ ~torn => DOMAIN body.offsets = 1..(size - 1)
  <2>1. nextObject \in Nat /\ nextObject >= 3
    BY DEF AssemblerInv, TypeOK, FirstShardObject
  <2>2. /\ Size(entries) \in Nat /\ Size(entries) >= nextObject
        /\ IsWriter(Body(entries))
        /\ \A n \in 1..(Size(entries) - 1) : Resolves(Body(entries), n)
        /\ ~torn => DOMAIN Body(entries).offsets = 1..(Size(entries) - 1)
    BY <1>2, BodyFacts
  <2> QED
    BY <1>1, <2>1, <2>2
<1>4. 1..(size - 1) \subseteq DOMAIN body.offsets
  BY <1>3 DEF Resolves
<1>5. PICK table : table = Table(body, size)
  OBVIOUS
<1>6. /\ table.size = size /\ table.root = CatalogId
      /\ \A n \in 1..(size - 1) : table.rows[n] = body.offsets[n]
      /\ ~torn => Len(table.rows) = size - 1
  <2>1. /\ Table(body, size).size = size /\ Table(body, size).root = CatalogId
        /\ \A n \in 1..(size - 1) : Table(body, size).rows[n] = body.offsets[n]
        /\ DOMAIN body.offsets = 1..(size - 1) => Len(Table(body, size).rows) = size - 1
    <3>1. size \in Nat \ {0} /\ IsWriter(body)
      BY <1>3
    <3> QED
      BY <1>4, <3>1, TableFacts
  <2> QED
    BY <1>3, <1>5, <2>1
<1>7. PICK wr : wr = writer'
  OBVIOUS
<1>8. wr.file = Append(body.file, table) /\ wr.offsets = body.offsets
  <2>1. wr = [body EXCEPT !.file = Append(body.file, table)]
    BY <1>1, <1>5, <1>7
  <2>2. PICK f, o : body = [file |-> f, offsets |-> o]
    BY <1>1 DEF Body, Written
  <2> QED
    BY <2>1, <2>2
<1>9. PICK len \in Nat : len = Len(body.file) /\ IsSeq(body.file)
  BY <1>3, SeqFacts DEF IsWriter
<1>10. /\ IsSeq(wr.file) /\ Len(wr.file) = len + 1
       /\ \A i \in 1..len : wr.file[i] = body.file[i]
       /\ wr.file[len + 1] = table
  <2>1. PICK f : f = body.file
    OBVIOUS
  <2>2. IsSeq(f) /\ Len(f) = len
    BY <1>9, <2>1
  <2>3. /\ IsSeq(Append(f, table)) /\ Len(Append(f, table)) = Len(f) + 1
        /\ \A i \in 1..Len(f) : Append(f, table)[i] = f[i]
        /\ Append(f, table)[Len(f) + 1] = table
    BY <2>2, Longer
  <2> QED
    BY <1>8, <2>1, <2>2, <2>3
<1>11. Xref' = table
  BY <1>7, <1>10 DEF Xref, Last
<1>12. IsWriter(wr)
  <2>1. \A n \in DOMAIN wr.offsets : wr.offsets[n] \in 0..Len(wr.file)
    BY <1>3, <1>8, <1>9, <1>10 DEF IsWriter
  <2> QED
    BY <1>3, <1>8, <1>10, <2>1 DEF IsWriter
<1>13. ASSUME NEW n \in 1..(size - 1)
       PROVE  Lookup(n)' = At(body, n) /\ Lookup(n)'.number = n
  <2>1. Lookup(n)' = wr.file[body.offsets[n] + 1]
    BY <1>6, <1>7, <1>11 DEF Lookup
  <2>2. Resolves(body, n)
    BY <1>3
  <2>3. body.offsets[n] + 1 \in 1..len /\ At(body, n).number = n
    BY <1>9, <2>2 DEF Resolves
  <2>4. Lookup(n)' = At(body, n)
    BY <1>10, <2>1, <2>3 DEF At
  <2> QED
    BY <2>3, <2>4
<1> QED
  BY <1>1, <1>5, <1>6, <1>7, <1>11, <1>12, <1>13

LEMMA FinalizeKeeps ==
    ASSUME AssemblerInv, NEW entries, IsOutline(entries), Finalize(entries)
    PROVE  AssemblerInv'
<1>1. /\ phase = "open" /\ TypeOK /\ IsWriter(writer)
      /\ UNCHANGED <<pageIds, namedDests, appends, appended, torn>>
      /\ nextObject \in Nat /\ nextObject >= FirstShardObject
  BY DEF Finalize, AssemblerInv, TypeOK
<1>2. /\ Size(entries) \in Nat /\ Size(entries) >= nextObject
      /\ \A n \in 1..(Size(entries) - 1) : Resolves(Body(entries), n)
  <2>1. PICK objects : objects = LastObjects(entries)
    OBVIOUS
  <2> QED
    BY <1>1, <2>1, BodyFacts
<1>3. ~XrefGap(Body(entries), Size(entries))
  BY <1>2 DEF XrefGap, Resolves
<1>4. CASE \E why \in Failures \ {"xref gap"} : Fails(why)
  <2>1. PICK why \in Failures \ {"xref gap"} : Fails(why)
    BY <1>4
  <2>2. /\ UNCHANGED <<writer, nextObject>> /\ phase' = why
        /\ phase' \notin {"open", "published", "xref gap"} /\ phase' \in Failures
    BY <2>1 DEF Fails, Failures
  <2>3. TypeOK'
    BY <1>1, <2>2 DEF TypeOK
  <2>4. IsWriter(writer)' /\ XrefResolves'
    BY <1>1, <2>2 DEF IsWriter, XrefResolves
  <2> QED
    BY <1>1, <2>2, <2>3, <2>4 DEF AssemblerInv
<1>5. CASE /\ writer' = [Body(entries) EXCEPT
                            !.file = Append(@, Table(Body(entries), Size(entries)))]
           /\ nextObject' = Size(entries)
           /\ phase' = "published"
  <2>1. /\ IsWriter(writer')
        /\ Xref'.size = Size(entries)
        /\ \A n \in 1..(Size(entries) - 1) : Lookup(n)'.number = n
        /\ ~torn => Len(Xref'.rows) = Size(entries) - 1
    BY <1>1, <1>5, PublishedFacts
  <2>2. IsWriter(writer)'
    BY <2>1 DEF IsWriter
  <2>3. XrefResolves'
    BY <1>1, <1>5, <2>1 DEF XrefResolves, Numbers
  <2>4. TypeOK'
    <3>1. nextObject' \in Nat /\ nextObject' >= nextObject /\ nextObject' >= FirstShardObject
      BY <1>1, <1>2, <1>5 DEF FirstShardObject
    <3>2. FirstShardObject..(nextObject - 1) \subseteq FirstShardObject..(nextObject' - 1)
      <4>1. PICK a, b : a = nextObject /\ b = nextObject'
        OBVIOUS
      <4>2. a \in Nat /\ b \in Nat /\ b >= a
        BY <1>1, <3>1, <4>1
      <4>3. 3..(a - 1) \subseteq 3..(b - 1)
        BY <4>2
      <4> QED
        BY <4>1, <4>3 DEF FirstShardObject
    <3>3. pageIds' \in Seq(FirstShardObject..(nextObject' - 1))
      <4>1. PICK low, high : /\ low = FirstShardObject..(nextObject - 1)
                             /\ high = FirstShardObject..(nextObject' - 1)
        OBVIOUS
      <4>2. pageIds \in Seq(low) /\ low \subseteq high
        BY <1>1, <3>2, <4>1 DEF TypeOK
      <4>3. pageIds \in Seq(high)
        BY <4>2, SeqMonotonic
      <4> QED
        BY <1>1, <4>1, <4>3
    <3>4. \A i \in DOMAIN namedDests' :
             namedDests'[i].page \in FirstShardObject..(nextObject' - 1)
      BY <1>1, <3>2 DEF TypeOK
    <3>5. /\ DOMAIN writer'.offsets \subseteq Nat \ {0}
          /\ \A n \in DOMAIN writer'.offsets : writer'.offsets[n] \in 0..Len(writer'.file)
      BY <2>1 DEF IsWriter
    <3>6. /\ phase' \in {"open", "published"} \cup Failures
          /\ appends' \in 0..MaxAppends /\ torn' \in BOOLEAN
      BY <1>1, <1>5 DEF TypeOK
    <3> QED
      BY <3>1, <3>3, <3>4, <3>5, <3>6 DEF TypeOK
  <2> QED
    BY <1>1, <1>5, <2>2, <2>3, <2>4 DEF AssemblerInv
<1> QED
  BY <1>3, <1>4, <1>5 DEF Finalize, Failures

LEMMA NextAssembler == AssemblerInv /\ Step => AssemblerInv'
<1> SUFFICES ASSUME AssemblerInv, Step PROVE AssemblerInv'
  OBVIOUS
<1>1. ASSUME NEW shard \in Shards, AppendShardDoc(shard) PROVE AssemblerInv'
  <2>1. /\ phase = "open" /\ appends < MaxAppends /\ appends' = appends + 1
        /\ UNCHANGED <<phase, outline>>
    BY <1>1 DEF AppendShardDoc
  <2>2. AppendMalformed(shard) \/ AppendTears(shard) \/ AppendSucceeds(shard)
    BY <1>1 DEF AppendShardDoc
  <2> QED
    BY <2>1, <2>2, AppendMalformedKeeps, AppendTearsKeeps, AppendSucceedsKeeps
<1>2. ASSUME NEW entries, IsOutline(entries), Finalize(entries) PROVE AssemblerInv'
  BY <1>2, FinalizeKeeps
<1>3. ASSUME UNCHANGED vars PROVE AssemblerInv'
  <2>1. UNCHANGED <<writer, pageIds, namedDests, nextObject, phase,
                    appends, appended, torn>>
    BY <1>3 DEF vars
  <2>2. TypeOK' /\ IsWriter(writer)' /\ OpenInv' = OpenInv
    BY <2>1 DEF AssemblerInv, TypeOK, IsWriter, OpenInv, Resolves, At
  <2>3. XrefResolves'
    BY <2>1 DEF AssemblerInv, XrefResolves, Numbers, Lookup, Xref, Last
  <2> QED
    BY <2>1, <2>2, <2>3 DEF AssemblerInv
<1> QED
  BY <1>1, <1>2, <1>3 DEF Step

-----------------------------------------------------------------------------
(* The results.                                                            *)

(* At any time while the assembly is open, every number handed out leads   *)
(* through the noted offsets to the object of that number                  *)
(* (append_shard_doc(), assembler.rs).                                     *)
THEOREM AssemblerInvariant == Spec => []AssemblerInv
  BY InitAssembler, NextAssembler, NextIsStep, PTL DEF Spec

(* The state keeps its types: the numbers in use lie below the next one,   *)
(* and the offsets inside the file.                                        *)
THEOREM TypeCorrect == Spec => []TypeOK
<1>1. AssemblerInv => TypeOK
  BY DEF AssemblerInv
<1> QED
  BY <1>1, AssemblerInvariant, PTL

(* A viewer finds, in the published file, every object under its number,   *)
(* the table has a row for each number and no other unless an append       *)
(* failed half way, and finalize() never meets a missing number            *)
(* (finalize(), assembler.rs).                                             *)
THEOREM XrefIsRight == Spec => []XrefResolves
<1>1. AssemblerInv => XrefResolves
  BY DEF AssemblerInv
<1> QED
  BY <1>1, AssemblerInvariant, PTL

-----------------------------------------------------------------------------
(* Flattening a list of sequences, one more at a time.                     *)

LEMMA SameSeq ==
    ASSUME NEW s, NEW t, IsSeq(s), IsSeq(t), Len(s) = Len(t),
           \A i \in 1..Len(s) : s[i] = t[i]
    PROVE  s = t
<1>1. PICK S : S = ToSet(s) \cup ToSet(t)
  OBVIOUS
<1>2. s \in Seq(S) /\ t \in Seq(S)
  BY <1>1, SeqFacts, SeqMonotonic
<1> QED
  BY <1>2, SeqEqual

(* The sequences up to each place, put together.                           *)
IsFlat(f, seqs, n) ==
    f = [i \in 1..n |-> IF i = 1 THEN seqs[i] ELSE f[i - 1] \o seqs[i]]

LEMMA FlatExists == ASSUME NEW seqs PROVE \A n \in Nat : \E f : IsFlat(f, seqs, n)
<1>1. PICK S : S = {n \in Nat : \E f : IsFlat(f, seqs, n)}
  OBVIOUS
<1>2. 0 \in S
  <2>1. PICK f : f = [i \in 1..0 |-> seqs]
    OBVIOUS
  <2>2. IsFlat(f, seqs, 0)
    BY <2>1 DEF IsFlat
  <2> QED
    BY <1>1, <2>2
<1>3. ASSUME NEW n \in Nat, n \in S PROVE n + 1 \in S
  <2>1. PICK f : IsFlat(f, seqs, n)
    BY <1>1, <1>3
  <2>2. PICK last : last = IF n = 0 THEN seqs[1] ELSE f[n] \o seqs[n + 1]
    OBVIOUS
  <2>3. PICK g : g = [i \in 1..(n + 1) |-> IF i = n + 1 THEN last ELSE f[i]]
    OBVIOUS
  <2>4. ASSUME NEW i \in 1..(n + 1)
        PROVE  g[i] = IF i = 1 THEN seqs[i] ELSE g[i - 1] \o seqs[i]
    <3>1. CASE i = n + 1 /\ n = 0
      BY <2>2, <2>3, <3>1
    <3>2. CASE i = n + 1 /\ n # 0
      <4>1. g[i] = f[n] \o seqs[n + 1] /\ i # 1
        <5>1. PICK c : c = f[n] \o seqs[n + 1]
          OBVIOUS
        <5>2. last = c
          BY <2>2, <3>2, <5>1, Zenon
        <5>3. g[i] = last /\ i # 1
          BY <2>3, <3>2
        <5> QED
          BY <5>1, <5>2, <5>3
      <4>2. i - 1 = n /\ n \in 1..(n + 1) /\ n # n + 1
        BY <3>2
      <4>3. g[n] = f[n]
        BY <2>3, <4>2
      <4> QED
        BY <3>2, <4>1, <4>2, <4>3
    <3>3. CASE i # n + 1
      <4>1. i \in 1..n
        BY <3>3
      <4>2. f[i] = IF i = 1 THEN seqs[i] ELSE f[i - 1] \o seqs[i]
        BY <2>1, <4>1 DEF IsFlat
      <4>3. g[i] = f[i]
        BY <2>3, <3>3
      <4>4. i # 1 => g[i - 1] = f[i - 1]
        BY <2>3, <4>1
      <4> QED
        BY <4>2, <4>3, <4>4
    <3> QED
      BY <3>1, <3>2, <3>3
  <2>5. g = [i \in 1..(n + 1) |-> g[i]]
    BY <2>3
  <2>6. IsFlat(g, seqs, n + 1)
    BY <2>4, <2>5 DEF IsFlat
  <2> QED
    BY <1>1, <2>6
<1>4. \A n \in Nat : n \in S
  BY <1>2, <1>3, SetInduction
<1> QED
  BY <1>1, <1>4

LEMMA FlatSame ==
    ASSUME NEW n \in Nat, NEW m \in Nat, m >= n, NEW seqs, NEW more,
           \A i \in 1..n : more[i] = seqs[i],
           NEW f, IsFlat(f, seqs, n), NEW g, IsFlat(g, more, m)
    PROVE  \A i \in 1..n : g[i] = f[i]
<1>1. PICK S : S = {k \in Nat : k \in 1..n => g[k] = f[k]}
  OBVIOUS
<1>2. 0 \in S
  BY <1>1
<1>3. ASSUME NEW k \in Nat, k \in S PROVE k + 1 \in S
  <2> SUFFICES ASSUME k + 1 \in 1..n PROVE g[k + 1] = f[k + 1]
    BY <1>1
  <2>1. PICK i : i = k + 1
    OBVIOUS
  <2>2. i \in 1..n /\ i \in 1..m
    BY <2>1
  <2>3. f[i] = IF i = 1 THEN seqs[i] ELSE f[i - 1] \o seqs[i]
    BY <2>2 DEF IsFlat
  <2>4. g[i] = IF i = 1 THEN more[i] ELSE g[i - 1] \o more[i]
    BY <2>2 DEF IsFlat
  <2>5. i # 1 => g[i - 1] = f[i - 1]
    <3>1. i - 1 = k /\ (i # 1 => k \in 1..n)
      BY <2>1, <2>2
    <3> QED
      BY <1>1, <1>3, <3>1
  <2>6. more[i] = seqs[i]
    BY <2>2
  <2> QED
    BY <2>1, <2>3, <2>4, <2>5, <2>6
<1>4. \A k \in Nat : k \in S
  BY <1>2, <1>3, SetInduction
<1> QED
  BY <1>1, <1>4

LEMMA FlattenIs ==
    ASSUME NEW seqs, Len(seqs) \in Nat, Len(seqs) # 0
    PROVE  \E f : IsFlat(f, seqs, Len(seqs)) /\ FlattenSeq(seqs) = f[Len(seqs)]
<1>1. \E f : IsFlat(f, seqs, Len(seqs))
  BY FlatExists
<1>2. PICK f : f = CHOOSE g : IsFlat(g, seqs, Len(seqs))
  OBVIOUS
<1>3. IsFlat(f, seqs, Len(seqs))
  BY <1>1, <1>2
<1>4. FlattenSeq(seqs) = (CHOOSE g : IsFlat(g, seqs, Len(seqs)))[Len(seqs)]
  BY Zenon DEF FlattenSeq, IsFlat
<1> QED
  BY <1>2, <1>3, <1>4

(* One sequence more.                                                      *)
LEMMA FlattenStep ==
    ASSUME NEW n \in Nat, NEW seqs, IsSeq(seqs), Len(seqs) = n,
           NEW more, Len(more) = n + 1, \A i \in 1..n : more[i] = seqs[i],
           NEW last, IsSeq(last), more[n + 1] = last
    PROVE  FlattenSeq(more) = FlattenSeq(seqs) \o last
<1>1. PICK m : m = n + 1
  OBVIOUS
<1>2. m \in Nat /\ m # 0 /\ m \in 1..m
  BY <1>1
<1>3. PICK g : IsFlat(g, more, m) /\ FlattenSeq(more) = g[m]
  <2>1. Len(more) = m
    BY <1>1
  <2>2. Len(more) \in Nat /\ Len(more) # 0
    BY <1>2, <2>1
  <2>3. \E f : IsFlat(f, more, Len(more)) /\ FlattenSeq(more) = f[Len(more)]
    BY <2>2, FlattenIs
  <2> QED
    BY <2>1, <2>3
<1>4. g[m] = IF m = 1 THEN more[m] ELSE g[m - 1] \o more[m]
  BY <1>2, <1>3 DEF IsFlat
<1>5. CASE n = 0
  <2>1. FlattenSeq(seqs) = seqs /\ seqs = <<>>
    <3>1. Len(seqs) = 0
      BY <1>5
    <3>2. seqs = <<>>
      BY <3>1, SeqFacts
    <3> QED
      BY <3>1, <3>2 DEF FlattenSeq
  <2>2. <<>> \o last = last
    BY ConcatEmptySeq DEF IsSeq
  <2>3. g[m] = last
    BY <1>1, <1>4, <1>5
  <2> QED
    BY <1>3, <2>1, <2>2, <2>3
<1>6. CASE n # 0
  <2>1. PICK f : IsFlat(f, seqs, n) /\ FlattenSeq(seqs) = f[n]
    <3>1. Len(seqs) \in Nat /\ Len(seqs) # 0
      BY <1>6
    <3>2. \E f : IsFlat(f, seqs, Len(seqs)) /\ FlattenSeq(seqs) = f[Len(seqs)]
      BY <3>1, FlattenIs
    <3> QED
      BY <3>2
  <2>2. m >= n
    BY <1>1
  <2>3. \A i \in 1..n : g[i] = f[i]
    BY <1>2, <1>3, <2>1, <2>2, FlatSame
  <2>4. g[n] = f[n]
    BY <1>6, <2>3
  <2>5. m # 1 /\ m - 1 = n /\ more[m] = last
    BY <1>1, <1>6
  <2>6. g[m] = g[n] \o last
    BY <1>4, <2>5
  <2> QED
    BY <1>3, <2>1, <2>4, <2>6
<1> QED
  BY <1>5, <1>6

-----------------------------------------------------------------------------
(* What is looked up stays what it was.                                    *)

(* Objects that were appended are found under the numbers they were given, *)
(* with the call and the number in the source that they came from.         *)
LEMMA AppendedObjects ==
    ASSUME AssemblerInv, phase = "open", NEW shard \in Shards,
           NEW order \in Orders(shard),
           writer' = Written(writer, ObjectsOf(shard, order))
    PROVE  /\ \A m \in FirstShardObject..(nextObject - 1) : At(writer', m) = At(writer, m)
           /\ \A o \in Kept(shard) :
                 /\ At(writer', Numbered(order, nextObject, o)).call = appends + 1
                 /\ At(writer', Numbered(order, nextObject, o)).source = o
                 /\ o \in ToSet(shard.pages) =>
                       /\ At(writer', Numbered(order, nextObject, o)).kind = "page"
                       /\ At(writer', Numbered(order, nextObject, o)).parent = PagesId
                       /\ At(writer', Numbered(order, nextObject, o)).attrs
                             = Climbed(shard, o).owner
<1>1. /\ IsWriter(writer) /\ OpenInv
      /\ nextObject \in Nat \ {0} /\ nextObject >= FirstShardObject
  BY DEF AssemblerInv, TypeOK, FirstShardObject
<1>2. PICK objects, n : objects = ObjectsOf(shard, order) /\ n = Cardinality(Kept(shard))
  OBVIOUS
<1>3. /\ n \in Nat /\ IsSeq(objects) /\ Distinct(objects)
      /\ NumbersOf(objects) = nextObject..(nextObject + n - 1)
      /\ DOMAIN objects = 1..n
      /\ \A i \in 1..n : /\ objects[i] = ObjectOf(shard, order, i)
                         /\ objects[i].number = nextObject + i - 1
      /\ \A o \in Kept(shard) : \E i \in 1..n :
            order[i] = o /\ Numbered(order, nextObject, o) = nextObject + i - 1
  BY <1>1, <1>2, ObjectsFacts
<1>4. PICK wr : wr = writer'
  OBVIOUS
<1>5. /\ \A i \in DOMAIN objects : At(wr, objects[i].number) = objects[i]
      /\ \A m \in Nat \ NumbersOf(objects) : Resolves(writer, m) => At(wr, m) = At(writer, m)
  <2>1. NumbersOf(objects) \subseteq Nat \ {0}
    BY <1>1, <1>3
  <2>2. IsWriter(writer) /\ IsSeq(objects) /\ Distinct(objects) /\ wr = Written(writer, objects)
    BY <1>1, <1>2, <1>3, <1>4
  <2> QED
    BY <2>1, <2>2, WrittenFacts
<1>6. ASSUME NEW m \in FirstShardObject..(nextObject - 1) PROVE At(wr, m) = At(writer, m)
  <2>1. m \in Nat \ NumbersOf(objects)
    BY <1>1, <1>3 DEF FirstShardObject
  <2> QED
    BY <1>1, <1>5, <2>1 DEF OpenInv
<1>7. ASSUME NEW o \in Kept(shard)
      PROVE  \E i \in 1..n : /\ order[i] = o
                             /\ At(wr, Numbered(order, nextObject, o)) = ObjectOf(shard, order, i)
  BY <1>3, <1>5
<1>8. ASSUME NEW i \in 1..n
      PROVE  /\ ObjectOf(shard, order, i).call = appends + 1
             /\ ObjectOf(shard, order, i).source = order[i]
             /\ order[i] \in ToSet(shard.pages) =>
                   /\ ObjectOf(shard, order, i).kind = "page"
                   /\ ObjectOf(shard, order, i).parent = PagesId
                   /\ ObjectOf(shard, order, i).attrs = Climbed(shard, order[i]).owner
  <2>1. CASE order[i] \in ToSet(shard.pages)
    BY <2>1 DEF ObjectOf
  <2>2. CASE order[i] \notin ToSet(shard.pages)
    BY <2>2 DEF ObjectOf
  <2> QED
    BY <2>1, <2>2
<1>9. ASSUME NEW o \in Kept(shard)
      PROVE  /\ At(wr, Numbered(order, nextObject, o)).call = appends + 1
             /\ At(wr, Numbered(order, nextObject, o)).source = o
             /\ o \in ToSet(shard.pages) =>
                   /\ At(wr, Numbered(order, nextObject, o)).kind = "page"
                   /\ At(wr, Numbered(order, nextObject, o)).parent = PagesId
                   /\ At(wr, Numbered(order, nextObject, o)).attrs = Climbed(shard, o).owner
  <2>1. PICK i \in 1..n :
           /\ order[i] = o
           /\ At(wr, Numbered(order, nextObject, o)) = ObjectOf(shard, order, i)
    BY <1>7
  <2> QED
    BY <1>8, <2>1
<1> QED
  BY <1>4, <1>6, <1>9

(* An append that fails half way leaves what the earlier ones wrote.       *)
LEMMA TornObjects ==
    ASSUME AssemblerInv, phase = "open", NEW shard \in Shards, AppendTears(shard)
    PROVE  \A m \in FirstShardObject..(nextObject - 1) : At(writer', m) = At(writer, m)
<1>1. /\ IsWriter(writer) /\ OpenInv
      /\ nextObject \in Nat \ {0} /\ nextObject >= FirstShardObject
  BY DEF AssemblerInv, TypeOK, FirstShardObject
<1>2. PICK order \in Orders(shard) : \E k \in DOMAIN order :
         writer' \in WriteFails(writer, ObjectsOf(shard, order), k)
  BY DEF AppendTears
<1>3. PICK objects, n : objects = ObjectsOf(shard, order) /\ n = Cardinality(Kept(shard))
  OBVIOUS
<1>4. /\ n \in Nat /\ IsSeq(objects) /\ Distinct(objects)
      /\ DOMAIN objects = DOMAIN order
      /\ NumbersOf(objects) = nextObject..(nextObject + n - 1)
  BY <1>1, <1>3, ObjectsFacts
<1>5. PICK k \in DOMAIN objects : writer' \in WriteFails(writer, objects, k)
  BY <1>2, <1>3, <1>4
<1>6. NumbersOf(objects) \subseteq Nat \ {0}
  BY <1>1, <1>4
<1>7. \A m \in Nat \ NumbersOf(objects) : Resolves(writer, m) => At(writer', m) = At(writer, m)
  BY <1>1, <1>4, <1>5, <1>6, WriteFailsFacts
<1>8. ASSUME NEW m \in FirstShardObject..(nextObject - 1) PROVE At(writer', m) = At(writer, m)
  <2>1. m \in Nat \ NumbersOf(objects)
    BY <1>1, <1>4 DEF FirstShardObject
  <2> QED
    BY <1>1, <1>7, <2>1 DEF OpenInv
<1> QED
  BY <1>8

LEMMA PublishedLookups ==
    ASSUME AssemblerInv, phase = "open", NEW entries, IsOutline(entries),
           writer' = [Body(entries) EXCEPT
                         !.file = Append(@, Table(Body(entries), Size(entries)))]
    PROVE  /\ Catalog' = CatalogObject(entries) /\ Catalog'.pages = PagesId
           /\ Catalog'.dests = Sorted(namedDests)
           /\ Pages' = PagesObject /\ Pages'.kids = pageIds
           /\ \A m \in FirstShardObject..(nextObject - 1) : Lookup(m)' = At(writer, m)
<1>1. PICK size \in Nat : size = Size(entries) /\ size >= nextObject
  <2>1. PICK objects : objects = LastObjects(entries)
    OBVIOUS
  <2> QED
    BY <2>1, BodyFacts
<1>2. /\ At(Body(entries), PagesId) = PagesObject
      /\ At(Body(entries), CatalogId) = CatalogObject(entries)
      /\ \A m \in FirstShardObject..(nextObject - 1) : At(Body(entries), m) = At(writer, m)
  <2>1. PICK objects : objects = LastObjects(entries)
    OBVIOUS
  <2> QED
    BY <2>1, BodyFacts
<1>3. /\ Xref'.root = CatalogId
      /\ \A n \in 1..(size - 1) : Lookup(n)' = At(Body(entries), n)
  BY <1>1, PublishedFacts
<1>4. /\ PagesId \in 1..(size - 1) /\ CatalogId \in 1..(size - 1)
      /\ \A m \in FirstShardObject..(nextObject - 1) : m \in 1..(size - 1)
  <2>1. nextObject \in Nat /\ nextObject >= 3
    BY DEF AssemblerInv, TypeOK, FirstShardObject
  <2> QED
    BY <1>1, <2>1 DEF PagesId, CatalogId, FirstShardObject
<1>5. Catalog' = CatalogObject(entries)
  <2>1. Lookup(CatalogId)' = CatalogObject(entries)
    BY <1>2, <1>3, <1>4
  <2> QED
    BY <1>3, <2>1 DEF Catalog, Lookup
<1>6. Catalog'.pages = PagesId /\ Catalog'.dests = Sorted(namedDests)
  BY <1>5 DEF CatalogObject
<1>7. Pages' = PagesObject
  <2>1. Lookup(PagesId)' = PagesObject
    BY <1>2, <1>3, <1>4
  <2> QED
    BY <1>6, <2>1 DEF Pages, Lookup
<1>8. Pages'.kids = pageIds
  BY <1>7 DEF PagesObject
<1>9. \A m \in FirstShardObject..(nextObject - 1) : Lookup(m)' = At(writer, m)
  BY <1>2, <1>3, <1>4
<1> QED
  BY <1>5, <1>6, <1>7, <1>8, <1>9

-----------------------------------------------------------------------------
(* The pages of an open assembly are those appended so far.                *)

CallPages(a) == [i \in DOMAIN a.shard.pages |-> <<a.call, a.shard.pages[i]>>]

PageOrigins(w, ids) == [i \in DOMAIN ids |-> <<At(w, ids[i]).call, At(w, ids[i]).source>>]

PagesAppended ==
    /\ \A i \in DOMAIN pageIds : /\ At(writer, pageIds[i]).kind = "page"
                                 /\ At(writer, pageIds[i]).parent = PagesId
    /\ PageOrigins(writer, pageIds)
          = FlattenSeq([a \in DOMAIN appended |-> CallPages(appended[a])])

OrderInv ==
    /\ AssemblerInv
    /\ phase = "open" => PagesAppended
    /\ PagesInOrder

LEMMA InitOrder == Init => OrderInv
<1> SUFFICES ASSUME Init PROVE OrderInv
  OBVIOUS
<1>1. pageIds = <<>> /\ appended = <<>> /\ phase = "open"
  BY DEF Init
<1>2. PICK s : s = [a \in DOMAIN appended |-> CallPages(appended[a])]
  OBVIOUS
<1>3. s = <<>>
  BY <1>1, <1>2
<1>4. FlattenSeq(s) = <<>>
  BY <1>3 DEF FlattenSeq
<1>5. PageOrigins(writer, pageIds) = <<>> /\ DOMAIN pageIds = {}
  BY <1>1 DEF PageOrigins
<1>6. PagesAppended
  BY <1>2, <1>4, <1>5 DEF PagesAppended
<1> QED
  BY <1>1, <1>6, InitAssembler DEF OrderInv, PagesInOrder

(* The numbers of the pages lead where they led.                           *)
LEMMA PagesFrame ==
    ASSUME OrderInv, phase = "open", UNCHANGED <<pageIds, appended>>,
           \A m \in FirstShardObject..(nextObject - 1) : At(writer', m) = At(writer, m)
    PROVE  PagesAppended'
<1>1. PagesAppended /\ TypeOK
  BY DEF OrderInv, AssemblerInv
<1>2. \A i \in DOMAIN pageIds : pageIds[i] \in FirstShardObject..(nextObject - 1)
  <2>1. PICK numbers : numbers = FirstShardObject..(nextObject - 1)
    OBVIOUS
  <2>2. pageIds \in Seq(numbers)
    BY <1>1, <2>1 DEF TypeOK
  <2> QED
    BY <2>1, <2>2, SeqRange
<1>3. PICK w, u, ids : w = writer /\ u = writer' /\ ids = pageIds
  OBVIOUS
<1>4. \A i \in DOMAIN ids : At(u, ids[i]) = At(w, ids[i])
  BY <1>2, <1>3
<1>5. PageOrigins(u, ids) = PageOrigins(w, ids)
  BY <1>4 DEF PageOrigins
<1>6. PageOrigins(writer', pageIds')
         = FlattenSeq([a \in DOMAIN appended' |-> CallPages(appended'[a])])
  BY <1>1, <1>3, <1>5 DEF PagesAppended
<1>7. \A i \in DOMAIN pageIds' : /\ At(writer', pageIds'[i]).kind = "page"
                                 /\ At(writer', pageIds'[i]).parent = PagesId
  BY <1>1, <1>3, <1>4 DEF PagesAppended
<1> QED
  BY <1>6, <1>7 DEF PagesAppended

LEMMA PagesSucceed ==
    ASSUME OrderInv, phase = "open", NEW shard \in Shards, AppendSucceeds(shard)
    PROVE  PagesAppended'
<1>1. /\ AssemblerInv /\ TypeOK /\ PagesAppended
      /\ appended \in Seq([call : Nat, shard : Shards])
  BY DEF OrderInv, AssemblerInv
<1>2. PICK order \in Orders(shard) :
         /\ writer' = Written(writer, ObjectsOf(shard, order))
         /\ pageIds' = pageIds \o
               [i \in DOMAIN shard.pages |-> Numbered(order, nextObject, shard.pages[i])]
  BY DEF AppendSucceeds
<1>3. PICK added, pages : /\ pages = shard.pages
                          /\ added = [i \in DOMAIN pages |-> Numbered(order, nextObject, pages[i])]
  OBVIOUS
<1>4. PICK n \in Nat : /\ n = Len(pages) /\ DOMAIN pages = 1..n
                       /\ \A i \in 1..n : pages[i] \in Kept(shard) /\ pages[i] \in ToSet(pages)
  <2>1. pages \in Seq(Kept(shard))
    BY <1>3, KeptFinite
  <2> QED
    BY <2>1 DEF ToSet
<1>5. IsSeq(added) /\ Len(added) = n
  <2>1. DOMAIN added = 1..n /\ added = [i \in 1..n |-> added[i]]
    BY <1>3, <1>4
  <2> QED
    BY <2>1, SeqMade
<1>6. PICK w, u, ids, more, nth : /\ w = writer /\ u = writer' /\ ids = pageIds
                                   /\ more = pageIds' /\ nth = appends + 1
  OBVIOUS
<1>7. PICK len \in Nat : /\ len = Len(ids) /\ IsSeq(ids) /\ DOMAIN ids = 1..len
                         /\ \A i \in 1..len : ids[i] \in FirstShardObject..(nextObject - 1)
  <2>1. PICK numbers : numbers = FirstShardObject..(nextObject - 1)
    OBVIOUS
  <2>2. ids \in Seq(numbers)
    BY <1>1, <1>6, <2>1 DEF TypeOK
  <2> QED
    BY <2>1, <2>2, SeqRange
<1>8. /\ IsSeq(more) /\ Len(more) = len + n
      /\ \A i \in 1..len : more[i] = ids[i]
      /\ \A i \in 1..n : more[len + i] = added[i]
  <2>1. more = ids \o added
    BY <1>2, <1>3, <1>6
  <2>2. IsSeq(ids) /\ IsSeq(added)
    BY <1>5, <1>7
  <2>3. /\ IsSeq(ids \o added) /\ Len(ids \o added) = Len(ids) + Len(added)
        /\ \A i \in 1..Len(ids) : (ids \o added)[i] = ids[i]
        /\ \A i \in 1..Len(added) : (ids \o added)[Len(ids) + i] = added[i]
    BY <2>2, Concat
  <2> QED
    BY <1>5, <1>7, <2>1, <2>3
<1>9. DOMAIN more = 1..(len + n)
  BY <1>8, SeqFacts
<1>10. /\ \A m \in FirstShardObject..(nextObject - 1) : At(u, m) = At(w, m)
       /\ \A o \in Kept(shard) :
             /\ At(u, Numbered(order, nextObject, o)).call = nth
             /\ At(u, Numbered(order, nextObject, o)).source = o
             /\ o \in ToSet(shard.pages) =>
                   /\ At(u, Numbered(order, nextObject, o)).kind = "page"
                   /\ At(u, Numbered(order, nextObject, o)).parent = PagesId
  BY <1>1, <1>2, <1>6, AppendedObjects
<1>11. ASSUME NEW i \in 1..n
       PROVE  /\ At(u, more[len + i]).call = nth
              /\ At(u, more[len + i]).source = pages[i]
              /\ At(u, more[len + i]).kind = "page"
              /\ At(u, more[len + i]).parent = PagesId
  <2>1. more[len + i] = Numbered(order, nextObject, pages[i])
    BY <1>3, <1>4, <1>8
  <2>2. pages[i] \in Kept(shard) /\ pages[i] \in ToSet(shard.pages)
    BY <1>3, <1>4
  <2> QED
    BY <1>10, <2>1, <2>2
<1>12. \A i \in 1..len : At(u, more[i]) = At(w, ids[i])
  BY <1>7, <1>8, <1>10
<1>13. \A i \in 1..(len + n) : i \in 1..len \/ (i - len \in 1..n /\ i = len + (i - len))
  OBVIOUS
<1>14. ASSUME NEW i \in DOMAIN more PROVE At(u, more[i]).kind = "page" /\ At(u, more[i]).parent = PagesId
  <2>1. CASE i \in 1..len
    BY <1>1, <1>6, <1>7, <1>12, <2>1 DEF PagesAppended
  <2>2. CASE i \notin 1..len
    <3>1. PICK j \in 1..n : i = len + j
      BY <1>9, <1>13, <2>2
    <3> QED
      BY <1>11, <3>1
  <2> QED
    BY <2>1, <2>2
<1>15. PICK old, new, last : /\ old = PageOrigins(w, ids) /\ new = PageOrigins(u, more)
                             /\ last = [i \in 1..n |-> <<nth, pages[i]>>]
  OBVIOUS
<1>16. /\ IsSeq(old) /\ Len(old) = len /\ IsSeq(new) /\ Len(new) = len + n
       /\ IsSeq(last) /\ Len(last) = n
  <2>1. DOMAIN old = 1..len /\ old = [i \in 1..len |-> old[i]]
    BY <1>7, <1>15 DEF PageOrigins
  <2>2. DOMAIN new = 1..(len + n) /\ new = [i \in 1..(len + n) |-> new[i]]
    BY <1>9, <1>15 DEF PageOrigins
  <2>3. DOMAIN last = 1..n /\ last = [i \in 1..n |-> last[i]]
    BY <1>15
  <2>4. len + n \in Nat
    OBVIOUS
  <2> QED
    BY <2>1, <2>2, <2>3, <2>4, SeqMade
<1>17. new = old \o last
  <2>1. PICK both : both = old \o last
    OBVIOUS
  <2>2. /\ IsSeq(both) /\ Len(both) = len + n
        /\ \A i \in 1..len : both[i] = old[i]
        /\ \A i \in 1..n : both[len + i] = last[i]
    <3>1. IsSeq(old) /\ IsSeq(last)
      BY <1>16
    <3>2. /\ IsSeq(old \o last) /\ Len(old \o last) = Len(old) + Len(last)
          /\ \A i \in 1..Len(old) : (old \o last)[i] = old[i]
          /\ \A i \in 1..Len(last) : (old \o last)[Len(old) + i] = last[i]
      BY <3>1, Concat
    <3> QED
      BY <1>16, <2>1, <3>2
  <2>3. ASSUME NEW i \in 1..(len + n) PROVE new[i] = both[i]
    <3>1. new[i] = <<At(u, more[i]).call, At(u, more[i]).source>>
      BY <1>9, <1>15 DEF PageOrigins
    <3>2. CASE i \in 1..len
      <4>1. old[i] = <<At(w, ids[i]).call, At(w, ids[i]).source>>
        BY <1>7, <1>15, <3>2 DEF PageOrigins
      <4> QED
        BY <1>12, <2>2, <3>1, <3>2, <4>1
    <3>3. CASE i \notin 1..len
      <4>1. PICK j \in 1..n : i = len + j
        BY <1>13, <3>3
      <4>2. last[j] = <<nth, pages[j]>>
        BY <1>15
      <4> QED
        BY <1>11, <2>2, <3>1, <4>1, <4>2
    <3> QED
      BY <3>2, <3>3
  <2>4. new = both
    BY <1>16, <2>2, <2>3, SameSeq
  <2> QED
    BY <2>1, <2>4
<1>18. PICK calls, longer : /\ calls = [a \in DOMAIN appended |-> CallPages(appended[a])]
                            /\ longer = [a \in DOMAIN appended' |-> CallPages(appended'[a])]
  OBVIOUS
<1>19. FlattenSeq(longer) = FlattenSeq(calls) \o last
  <2>0. PICK a, b, e : /\ a = appended /\ b = appended'
                       /\ e = [call |-> nth, shard |-> shard]
    OBVIOUS
  <2>1. PICK k \in Nat : k = Len(a)
    BY <1>1, <2>0
  <2>2. IsSeq(a) /\ DOMAIN a = 1..k /\ b = Append(a, e)
    <3>1. PICK S : a \in Seq(S)
      BY <1>1, <2>0
    <3>2. IsSeq(a) /\ DOMAIN a = 1..k
      BY <2>1, <3>1 DEF IsSeq
    <3> QED
      BY <1>6, <2>0, <3>2 DEF AppendSucceeds
  <2>3. /\ IsSeq(b) /\ Len(b) = k + 1
        /\ \A i \in 1..k : b[i] = a[i]
        /\ b[k + 1] = e
    BY <2>1, <2>2, Longer
  <2>4. DOMAIN b = 1..(k + 1)
    BY <2>3, SeqFacts
  <2>5. IsSeq(calls) /\ Len(calls) = k /\ Len(longer) = k + 1
    <3>1. DOMAIN calls = 1..k /\ calls = [i \in 1..k |-> calls[i]]
      BY <1>18, <2>0, <2>1, <2>2
    <3>2. DOMAIN longer = 1..(k + 1) /\ longer = [i \in 1..(k + 1) |-> longer[i]]
      BY <1>18, <2>0, <2>1, <2>4
    <3>3. k + 1 \in Nat
      OBVIOUS
    <3> QED
      BY <3>1, <3>2, <3>3, SeqMade
  <2>6. \A i \in 1..k : longer[i] = calls[i]
    BY <1>18, <2>0, <2>1, <2>2, <2>3, <2>4
  <2>7. longer[k + 1] = last
    <3>1. longer[k + 1] = CallPages(e)
      BY <1>18, <2>0, <2>1, <2>3, <2>4
    <3>2. e.call = nth /\ e.shard = shard
      BY <2>0
    <3>3. CallPages(e) = [i \in DOMAIN pages |-> <<nth, pages[i]>>]
      BY <1>3, <3>2 DEF CallPages
    <3> QED
      BY <1>4, <1>15, <3>1, <3>3
  <2>8. IsSeq(last)
    BY <1>16
  <2> QED
    <3>1. PICK x, y, z : x = calls /\ y = longer /\ z = last
      OBVIOUS
    <3>2. /\ IsSeq(x) /\ Len(x) = k /\ Len(y) = k + 1
          /\ \A i \in 1..k : y[i] = x[i]
          /\ y[k + 1] = z /\ IsSeq(z)
      BY <2>5, <2>6, <2>7, <2>8, <3>1
    <3>3. FlattenSeq(y) = FlattenSeq(x) \o z
      BY SMTT(30), <3>2, FlattenStep
    <3> QED
      BY <3>1, <3>3
<1>20. PageOrigins(writer', pageIds')
          = FlattenSeq([a \in DOMAIN appended' |-> CallPages(appended'[a])])
  BY <1>1, <1>6, <1>15, <1>17, <1>18, <1>19 DEF PagesAppended
<1> QED
  BY <1>6, <1>14, <1>20 DEF PagesAppended

LEMMA PagesPublished ==
    ASSUME OrderInv, phase = "open", NEW entries, IsOutline(entries), UNCHANGED appended,
           writer' = [Body(entries) EXCEPT
                         !.file = Append(@, Table(Body(entries), Size(entries)))]
    PROVE  PagesInOrder'
<1>1. AssemblerInv /\ PagesAppended /\ TypeOK
  BY DEF OrderInv, AssemblerInv
<1>2. /\ Catalog'.pages = PagesId /\ Pages'.kids = pageIds
      /\ \A m \in FirstShardObject..(nextObject - 1) : Lookup(m)' = At(writer, m)
  BY <1>1, PublishedLookups
<1>3. PICK ids, w : ids = pageIds /\ w = writer
  OBVIOUS
<1>4. \A i \in DOMAIN ids : ids[i] \in FirstShardObject..(nextObject - 1)
  <2>1. PICK numbers : numbers = FirstShardObject..(nextObject - 1)
    OBVIOUS
  <2>2. ids \in Seq(numbers)
    BY <1>1, <1>3, <2>1 DEF TypeOK
  <2> QED
    BY <2>1, <2>2, SeqRange
<1>5. \A i \in DOMAIN ids : Lookup(ids[i])' = At(w, ids[i])
  BY <1>2, <1>3, <1>4
<1>6. PICK kids : kids = Pages'.kids /\ kids = ids
  BY <1>2, <1>3
<1>7. \A i \in DOMAIN kids : /\ Lookup(kids[i])'.kind = "page"
                             /\ Lookup(kids[i])'.parent = Catalog'.pages
  BY <1>1, <1>2, <1>3, <1>5, <1>6 DEF PagesAppended
<1>8. [i \in DOMAIN kids |-> <<Lookup(kids[i])'.call, Lookup(kids[i])'.source>>]
         = PageOrigins(w, ids)
  BY <1>5, <1>6 DEF PageOrigins
<1>9. PageOrigins(w, ids) = FlattenSeq([a \in DOMAIN appended' |-> CallPages(appended'[a])])
  BY <1>1, <1>3 DEF PagesAppended
<1> QED
  BY <1>6, <1>7, <1>8, <1>9 DEF PagesInOrder, CallPages, Lookup

LEMMA NextOrder == OrderInv /\ Step => OrderInv'
<1> SUFFICES ASSUME OrderInv, Step PROVE OrderInv'
  OBVIOUS
<1>1. AssemblerInv /\ AssemblerInv'
  BY NextAssembler DEF OrderInv
<1>2. ASSUME NEW shard \in Shards, AppendShardDoc(shard) PROVE OrderInv'
  <2>1. phase = "open" /\ phase' = "open"
    BY <1>2 DEF AppendShardDoc
  <2>2. PagesInOrder'
    BY <2>1 DEF PagesInOrder
  <2>3. CASE AppendMalformed(shard)
    <3>1. UNCHANGED <<writer, pageIds, appended>>
      BY <2>3 DEF AppendMalformed
    <3>2. PagesAppended'
      BY <2>1, <3>1, PagesFrame
    <3> QED
      BY <1>1, <2>1, <2>2, <3>2 DEF OrderInv
  <2>4. CASE AppendTears(shard)
    <3>1. UNCHANGED <<pageIds, appended>>
      BY <2>4 DEF AppendTears
    <3>2. \A m \in FirstShardObject..(nextObject - 1) : At(writer', m) = At(writer, m)
      BY <1>1, <2>1, <2>4, TornObjects
    <3>3. PagesAppended'
      BY <2>1, <3>1, <3>2, PagesFrame
    <3> QED
      BY <1>1, <2>1, <2>2, <3>3 DEF OrderInv
  <2>5. CASE AppendSucceeds(shard)
    <3>1. PagesAppended'
      BY <2>1, <2>5, PagesSucceed
    <3> QED
      BY <1>1, <2>1, <2>2, <3>1 DEF OrderInv
  <2> QED
    BY <1>2, <2>3, <2>4, <2>5 DEF AppendShardDoc
<1>3. ASSUME NEW entries, IsOutline(entries), Finalize(entries) PROVE OrderInv'
  <2>1. phase = "open" /\ UNCHANGED appended
    BY <1>3 DEF Finalize
  <2>2. CASE \E why \in Failures : phase' = why
    BY <1>1, <2>2 DEF OrderInv, PagesInOrder, Failures
  <2>3. CASE /\ phase' = "published"
             /\ writer' = [Body(entries) EXCEPT
                              !.file = Append(@, Table(Body(entries), Size(entries)))]
    <3>1. PagesInOrder'
      BY <1>3, <2>1, <2>3, PagesPublished
    <3> QED
      BY <1>1, <2>3, <3>1 DEF OrderInv
  <2> QED
    BY <1>3, <2>2, <2>3 DEF Finalize, Fails, Failures
<1>4. ASSUME UNCHANGED vars PROVE OrderInv'
  <2>1. UNCHANGED <<writer, pageIds, phase, appended>>
    BY <1>4 DEF vars
  <2>2. PagesAppended' = PagesAppended
    BY <2>1 DEF PagesAppended, PageOrigins, At
  <2>3. Xref' = Xref
    BY <2>1 DEF Xref, Last
  <2>4. Catalog' = Catalog
    BY <2>1, <2>3 DEF Catalog, Lookup
  <2>5. Pages' = Pages
    BY <2>1, <2>3, <2>4 DEF Pages, Lookup
  <2>6. PagesInOrder' = PagesInOrder
    BY <2>1, <2>3, <2>4, <2>5 DEF PagesInOrder, Lookup
  <2> QED
    BY <1>1, <2>1, <2>2, <2>6 DEF OrderInv
<1> QED
  BY <1>2, <1>3, <1>4 DEF Step

(* The pages of the published file are those of the appended shards, in    *)
(* the order of the calls and of the pages in each, under one page tree,   *)
(* whichever appends failed in between (append_shard_doc(), finalize()).   *)
THEOREM PagesAreInOrder == Spec => []PagesInOrder
<1>1. OrderInv => PagesInOrder
  BY DEF OrderInv
<1> QED
  BY <1>1, InitOrder, NextOrder, NextIsStep, PTL DEF Spec

-----------------------------------------------------------------------------
(* The names can be sorted.                                                *)

Ascending(g, n) == \A i, j \in 1..n : i < j => g[i] <= g[j]

(* Where x belongs.                                                        *)
LEMMA InsertionPoint ==
    ASSUME NEW n \in Nat, NEW g \in [1..n -> Nat], Ascending(g, n), NEW x \in Nat
    PROVE  \E k \in 1..(n + 1) : /\ \A i \in 1..(k - 1) : g[i] <= x
                                 /\ \A i \in k..n : x <= g[i]
<1>1. PICK S : S = {m \in Nat : m <= n =>
                      \E k \in 1..(m + 1) : /\ \A i \in 1..(k - 1) : g[i] <= x
                                            /\ \A i \in k..m : x <= g[i]}
  OBVIOUS
<1>2. 0 \in S
  <2>1. /\ 1 \in 1..(0 + 1)
        /\ \A i \in 1..(1 - 1) : g[i] <= x
        /\ \A i \in 1..0 : x <= g[i]
    OBVIOUS
  <2>2. \E k \in 1..(0 + 1) : /\ \A i \in 1..(k - 1) : g[i] <= x
                              /\ \A i \in k..0 : x <= g[i]
    BY <2>1
  <2> QED
    BY <1>1, <2>2
<1>3. ASSUME NEW m \in Nat, m \in S PROVE m + 1 \in S
  <2> SUFFICES ASSUME m + 1 <= n
               PROVE  \E k \in 1..(m + 2) : /\ \A i \in 1..(k - 1) : g[i] <= x
                                            /\ \A i \in k..(m + 1) : x <= g[i]
    BY <1>1
  <2>1. PICK k \in 1..(m + 1) : /\ \A i \in 1..(k - 1) : g[i] <= x
                                /\ \A i \in k..m : x <= g[i]
    BY <1>1, <1>3
  <2>2. m + 1 \in 1..n /\ g[m + 1] \in Nat
    OBVIOUS
  <2>3. CASE x <= g[m + 1]
    <3>1. \A i \in k..(m + 1) : i \in k..m \/ i = m + 1
      OBVIOUS
    <3>2. \A i \in k..(m + 1) : x <= g[i]
      BY <2>1, <2>3, <3>1
    <3>3. k \in 1..(m + 2)
      OBVIOUS
    <3> QED
      BY <2>1, <3>2, <3>3
  <2>4. CASE ~(x <= g[m + 1])
    <3>1. ASSUME NEW i \in 1..(m + 1) PROVE g[i] <= x
      <4>1. i \in 1..n /\ g[i] \in Nat
        OBVIOUS
      <4>2. i # m + 1 => g[i] <= g[m + 1]
        BY <2>2, <4>1 DEF Ascending
      <4> QED
        BY <2>2, <2>4, <4>1, <4>2
    <3>2. \A i \in (m + 2)..(m + 1) : FALSE
      OBVIOUS
    <3>3. m + 2 \in 1..(m + 2) /\ (m + 2) - 1 = m + 1
      OBVIOUS
    <3> QED
      BY <3>1, <3>2, <3>3
  <2> QED
    BY <2>3, <2>4
<1>4. \A m \in Nat : m \in S
  BY <1>2, <1>3, SetInduction
<1>5. n \in S /\ n <= n
  BY <1>4
<1> QED
  BY <1>1, <1>5

(* An order of 1..n in which the keys ascend.                              *)
SortsFirst(p, key, n) ==
    /\ p \in [1..n -> 1..n]
    /\ \A i, j \in 1..n : p[i] = p[j] => i = j
    /\ \A i, j \in 1..n : i < j => key[p[i]] <= key[p[j]]

LEMMA SortStep ==
    ASSUME NEW n \in Nat, NEW len \in Nat, n + 1 <= len, NEW key \in [1..len -> Nat],
           NEW p, SortsFirst(p, key, n)
    PROVE  \E q : SortsFirst(q, key, n + 1)
<1>1. PICK g, x : g = [i \in 1..n |-> key[p[i]]] /\ x = key[n + 1]
  OBVIOUS
<1>2. /\ p \in [1..n -> 1..n]
      /\ \A i, j \in 1..n : p[i] = p[j] => i = j
      /\ \A i, j \in 1..n : i < j => key[p[i]] <= key[p[j]]
  BY DEF SortsFirst
<1>3. g \in [1..n -> Nat] /\ Ascending(g, n) /\ x \in Nat
  BY SMTT(30), <1>1, <1>2 DEF Ascending
<1>4. PICK k \in 1..(n + 1) : /\ \A i \in 1..(k - 1) : g[i] <= x
                              /\ \A i \in k..n : x <= g[i]
  BY <1>3, InsertionPoint
<1>5. PICK q : q = [i \in 1..(n + 1) |-> IF i < k THEN p[i]
                                         ELSE IF i = k THEN n + 1 ELSE p[i - 1]]
  OBVIOUS
<1>6. /\ \A i \in 1..(n + 1) : i < k => i \in 1..n /\ q[i] = p[i]
      /\ q[k] = n + 1
      /\ \A i \in 1..(n + 1) : i > k => i - 1 \in 1..n /\ i - 1 >= k /\ q[i] = p[i - 1]
  <2>1. \A i \in 1..(n + 1) : i < k => i \in 1..n
    OBVIOUS
  <2>2. \A i \in 1..(n + 1) : i > k => i - 1 \in 1..n /\ i - 1 >= k
    OBVIOUS
  <2>3. \A i \in 1..(n + 1) : i < k => q[i] = p[i]
    BY <1>5
  <2>4. q[k] = n + 1
    BY <1>5
  <2>5. ASSUME NEW i \in 1..(n + 1), i > k PROVE q[i] = p[i - 1]
    <3>1. ~(i < k) /\ i # k
      BY <2>5
    <3> QED
      BY <1>5, <3>1
  <2> QED
    BY <2>1, <2>2, <2>3, <2>4, <2>5
<1>7. \A i \in 1..n : p[i] \in 1..n /\ p[i] # n + 1
  BY <1>2
<1>8. \A i \in 1..(n + 1) : i < k \/ i = k \/ i > k
  OBVIOUS
<1>9. q \in [1..(n + 1) -> 1..(n + 1)]
  <2>1. ASSUME NEW i \in 1..(n + 1) PROVE q[i] \in 1..(n + 1)
    <3>1. CASE i < k
      BY <1>6, <1>7, <3>1
    <3>2. CASE i = k
      BY <1>6, <3>2
    <3>3. CASE i > k
      <4>1. q[i] = p[i - 1] /\ p[i - 1] \in 1..n
        BY <1>6, <1>7, <3>3
      <4>2. \A o \in 1..n : o \in 1..(n + 1)
        OBVIOUS
      <4> QED
        BY <4>1, <4>2
    <3> QED
      BY <1>8, <3>1, <3>2, <3>3
  <2>2. DOMAIN q = 1..(n + 1) /\ q = [i \in 1..(n + 1) |-> q[i]]
    BY <1>5
  <2> QED
    BY <2>1, <2>2
<1>10. ASSUME NEW i \in 1..(n + 1), NEW j \in 1..(n + 1), i < j PROVE q[i] # q[j]
  <2>1. CASE j < k
    BY <1>2, <1>6, <1>10, <2>1
  <2>2. CASE j = k
    BY <1>6, <1>7, <1>10, <2>2
  <2>3. CASE i = k
    BY <1>6, <1>7, <1>10, <2>3
  <2>4. CASE i < k /\ j > k
    <3>1. q[i] = p[i] /\ q[j] = p[j - 1] /\ i \in 1..n /\ j - 1 \in 1..n /\ i # j - 1
      BY <1>6, <2>4
    <3> QED
      BY <1>2, <3>1
  <2>5. CASE i > k
    <3>1. /\ q[i] = p[i - 1] /\ q[j] = p[j - 1] /\ i - 1 \in 1..n /\ j - 1 \in 1..n
          /\ i - 1 # j - 1
      BY <1>6, <1>10, <2>5
    <3> QED
      BY <1>2, <3>1
  <2> QED
    BY <1>8, <1>10, <2>1, <2>2, <2>3, <2>4, <2>5
<1>11. ASSUME NEW i \in 1..(n + 1), NEW j \in 1..(n + 1), i < j
       PROVE  key[q[i]] <= key[q[j]]
  <2>1. CASE j < k
    <3>1. i < k
      BY <1>11, <2>1
    <3>2. q[i] = p[i] /\ q[j] = p[j] /\ i \in 1..n /\ j \in 1..n
      BY <1>6, <2>1, <3>1
    <3> QED
      BY <1>2, <1>11, <3>2
  <2>2. CASE j = k
    <3>1. i \in 1..(k - 1) /\ q[i] = p[i] /\ i \in 1..n
      BY <1>6, <1>11, <2>2
    <3>2. g[i] <= x /\ g[i] = key[p[i]]
      BY <1>1, <1>4, <3>1
    <3> QED
      BY <1>1, <1>6, <2>2, <3>1, <3>2
  <2>3. CASE i = k
    <3>1. j - 1 \in k..n /\ q[j] = p[j - 1] /\ j - 1 \in 1..n
      BY <1>6, <1>11, <2>3
    <3>2. x <= g[j - 1] /\ g[j - 1] = key[p[j - 1]]
      BY <1>1, <1>4, <3>1
    <3> QED
      BY <1>1, <1>6, <2>3, <3>1, <3>2
  <2>4. CASE i < k /\ j > k
    <3>1. q[i] = p[i] /\ q[j] = p[j - 1] /\ i \in 1..n /\ j - 1 \in 1..n
      BY <1>6, <2>4
    <3>2. i < j - 1
      BY <2>4
    <3> QED
      BY <1>2, <3>1, <3>2
  <2>5. CASE i > k
    <3>1. /\ q[i] = p[i - 1] /\ q[j] = p[j - 1] /\ i - 1 \in 1..n /\ j - 1 \in 1..n
          /\ i - 1 < j - 1
      BY <1>6, <1>11, <2>5
    <3> QED
      BY <1>2, <3>1
  <2> QED
    BY <1>8, <1>11, <2>1, <2>2, <2>3, <2>4, <2>5
<1>12. \A i, j \in 1..(n + 1) : q[i] = q[j] => i = j
  BY <1>10
<1>13. SortsFirst(q, key, n + 1)
  BY <1>9, <1>11, <1>12 DEF SortsFirst
<1> QED
  BY <1>13

LEMMA SortExists ==
    ASSUME NEW len \in Nat, NEW key \in [1..len -> Nat]
    PROVE  \E p : SortsFirst(p, key, len)
<1>1. PICK S : S = {n \in Nat : n <= len => \E p : SortsFirst(p, key, n)}
  OBVIOUS
<1>2. 0 \in S
  <2>1. PICK p : p = [i \in 1..0 |-> i]
    OBVIOUS
  <2>2. SortsFirst(p, key, 0)
    BY <2>1 DEF SortsFirst
  <2> QED
    BY <1>1, <2>2
<1>3. ASSUME NEW n \in Nat, n \in S PROVE n + 1 \in S
  <2> SUFFICES ASSUME n + 1 <= len PROVE \E p : SortsFirst(p, key, n + 1)
    BY <1>1
  <2>1. PICK p : SortsFirst(p, key, n)
    BY <1>1, <1>3
  <2> QED
    BY <2>1, SortStep
<1>4. \A n \in Nat : n \in S
  BY <1>2, <1>3, SetInduction
<1> QED
  BY <1>1, <1>4

(* The sort keeps the destinations and puts their names in order.          *)
LEMMA SortedFacts ==
    ASSUME NEW dests, IsSeq(dests), \A i \in DOMAIN dests : dests[i].name \in Nat,
           NEW sorted, sorted = Sorted(dests)
    PROVE  /\ IsSeq(sorted) /\ Len(sorted) = Len(dests)
           /\ ToSet(sorted) = ToSet(dests)
           /\ \A i, j \in DOMAIN sorted : i < j => sorted[i].name <= sorted[j].name
<1>1. PICK len \in Nat : len = Len(dests) /\ DOMAIN dests = 1..len
  BY SeqFacts
<1>2. PICK key : key = [i \in 1..len |-> dests[i].name]
  OBVIOUS
<1>3. key \in [1..len -> Nat]
  BY <1>1, <1>2
<1>4. PICK p : SortsFirst(p, key, len)
  BY <1>3, SortExists
<1>5. IsFiniteSet(1..len) /\ Cardinality(1..len) = len
  BY FS_Interval
<1>6. PICK Ascends : Ascends = {q \in SetToSeqs(1..len) : \A i, j \in 1..len :
                                    i < j => dests[q[i]].name <= dests[q[j]].name}
  OBVIOUS
<1>7. p \in Ascends
  <2>1. p \in SetToSeqs(1..len)
    BY <1>4, <1>5 DEF SetToSeqs, SortsFirst
  <2>2. \A i, j \in 1..len : i < j => dests[p[i]].name <= dests[p[j]].name
    BY <1>2, <1>4 DEF SortsFirst
  <2> QED
    BY <1>6, <2>1, <2>2
<1>8. PICK order : /\ order = CHOOSE q \in SetToSeqs(1..len) : \A i, j \in 1..len :
                                  i < j => dests[q[i]].name <= dests[q[j]].name
  OBVIOUS
<1>9. order \in SetToSeqs(1..len) /\ \A i, j \in 1..len : i < j => dests[order[i]].name <= dests[order[j]].name
  BY <1>6, <1>7, <1>8
<1>10. sorted = [i \in 1..len |-> dests[order[i]]]
  BY <1>1, <1>8 DEF Sorted
<1>11. order \in [1..len -> 1..len] /\ \A o \in 1..len : \E i \in 1..len : order[i] = o
  <2>1. PICK D : D = 1..len
    OBVIOUS
  <2>2. IsFiniteSet(D) /\ order \in SetToSeqs(D)
    BY <1>5, <1>9, <2>1
  <2>3. /\ order \in [1..Cardinality(D) -> D]
        /\ \A o \in D : \E i \in 1..Cardinality(D) : order[i] = o
    BY <2>2, OrderComplete
  <2> QED
    BY <1>5, <2>1, <2>3
<1>12. DOMAIN sorted = 1..len /\ sorted = [i \in 1..len |-> sorted[i]]
  BY <1>10
<1>13. IsSeq(sorted) /\ Len(sorted) = len
  BY <1>12, SeqMade
<1>14. ToSet(sorted) = ToSet(dests)
  <2>1. \A i \in 1..len : sorted[i] \in ToSet(dests)
    BY <1>1, <1>10, <1>11 DEF ToSet
  <2>2. ASSUME NEW o \in 1..len PROVE dests[o] \in ToSet(sorted)
    <3>1. PICK i \in 1..len : order[i] = o
      BY <1>11
    <3>2. sorted[i] = dests[o]
      BY <1>10, <3>1
    <3> QED
      BY <1>12, <3>2 DEF ToSet
  <2> QED
    BY <1>1, <1>12, <2>1, <2>2 DEF ToSet
<1>15. \A i, j \in 1..len : i < j => sorted[i].name <= sorted[j].name
  BY <1>9, <1>10
<1> QED
  BY <1>1, <1>12, <1>13, <1>14, <1>15

-----------------------------------------------------------------------------
(* The destinations of an open assembly lead to what was appended.         *)

(* Where a destination leads: the name, the call and the number in the     *)
(* source of the object.                                                   *)
Leads(w, d) == <<d.name, <<At(w, d.page).call, At(w, d.page).source>>>>

CallDests(a) == {<<d.name, <<a.call, d.page>>>> : d \in ToSet(a.shard.dests)}

DestsAppended ==
    {Leads(writer, d) : d \in ToSet(namedDests)} = UNION {CallDests(a) : a \in ToSet(appended)}

DestsInv ==
    /\ AssemblerInv
    /\ phase = "open" => DestsAppended
    /\ DestsResolve

LEMMA InitDests == Init => DestsInv
<1> SUFFICES ASSUME Init PROVE DestsInv
  OBVIOUS
<1>1. namedDests = <<>> /\ appended = <<>> /\ phase = "open"
  BY DEF Init
<1>2. ToSet(namedDests) = {} /\ ToSet(appended) = {}
  BY <1>1 DEF ToSet
<1>3. DestsAppended
  BY <1>2 DEF DestsAppended
<1> QED
  BY <1>1, <1>3, InitAssembler DEF DestsInv, DestsResolve

LEMMA DestNumbers ==
    ASSUME AssemblerInv
    PROVE  \A d \in ToSet(namedDests) : d.page \in FirstShardObject..(nextObject - 1)
  BY DEF AssemblerInv, TypeOK, ToSet

LEMMA DestsFrame ==
    ASSUME DestsInv, phase = "open", UNCHANGED <<namedDests, appended>>,
           \A m \in FirstShardObject..(nextObject - 1) : At(writer', m) = At(writer, m)
    PROVE  DestsAppended'
<1>1. AssemblerInv /\ DestsAppended
  BY DEF DestsInv
<1>2. PICK w, u, dests : w = writer /\ u = writer' /\ dests = ToSet(namedDests)
  OBVIOUS
<1>3. \A d \in dests : Leads(u, d) = Leads(w, d)
  BY <1>1, <1>2, DestNumbers DEF Leads
<1>4. {Leads(u, d) : d \in dests} = {Leads(w, d) : d \in dests}
  BY <1>3
<1>5. ToSet(namedDests)' = dests /\ ToSet(appended)' = ToSet(appended)
  BY <1>2 DEF ToSet
<1> QED
  BY <1>1, <1>2, <1>4, <1>5 DEF DestsAppended, Leads

(* What a sequence has after another was put behind it.                    *)
LEMMA ConcatSet ==
    ASSUME NEW s, IsSeq(s), NEW t, IsSeq(t)
    PROVE  ToSet(s \o t) = ToSet(s) \cup ToSet(t)
<1>1. PICK both, m, n : both = s \o t /\ m = Len(s) /\ n = Len(t)
  OBVIOUS
<1>2. m \in Nat /\ n \in Nat /\ DOMAIN s = 1..m /\ DOMAIN t = 1..n
  BY <1>1, SeqFacts
<1>3. /\ IsSeq(both) /\ Len(both) = m + n
      /\ \A i \in 1..m : both[i] = s[i]
      /\ \A i \in 1..n : both[m + i] = t[i]
  BY <1>1, Concat
<1>4. DOMAIN both = 1..(m + n)
  BY <1>3, SeqFacts
<1>5. \A i \in 1..(m + n) : i \in 1..m \/ (i - m \in 1..n /\ i = m + (i - m))
  BY <1>2
<1>6. ASSUME NEW i \in 1..(m + n) PROVE both[i] \in ToSet(s) \cup ToSet(t)
  <2>1. CASE i \in 1..m
    BY <1>2, <1>3, <2>1 DEF ToSet
  <2>2. CASE i \notin 1..m
    <3>1. i - m \in 1..n /\ i = m + (i - m)
      BY <1>5, <2>2
    <3>2. both[i] = t[i - m]
      BY <1>3, <3>1
    <3> QED
      BY <1>2, <3>1, <3>2 DEF ToSet
  <2> QED
    BY <2>1, <2>2
<1>7. ASSUME NEW i \in 1..m PROVE s[i] \in ToSet(both)
  <2>1. i \in 1..(m + n) /\ both[i] = s[i]
    BY <1>2, <1>3
  <2> QED
    BY <1>4, <2>1 DEF ToSet
<1>8. ASSUME NEW i \in 1..n PROVE t[i] \in ToSet(both)
  <2>1. m + i \in 1..(m + n) /\ both[m + i] = t[i]
    BY <1>2, <1>3
  <2> QED
    BY <1>4, <2>1 DEF ToSet
<1>9. ToSet(both) = {both[i] : i \in 1..(m + n)}
  BY <1>4 DEF ToSet
<1>10. ToSet(s) = {s[i] : i \in 1..m} /\ ToSet(t) = {t[i] : i \in 1..n}
  BY <1>2 DEF ToSet
<1>11. ToSet(both) \subseteq ToSet(s) \cup ToSet(t)
  BY <1>6, <1>9
<1>12. ToSet(s) \subseteq ToSet(both) /\ ToSet(t) \subseteq ToSet(both)
  BY <1>7, <1>8, <1>10
<1> QED
  BY <1>1, <1>11, <1>12

LEMMA DestsSucceed ==
    ASSUME DestsInv, phase = "open", NEW shard \in Shards, AppendSucceeds(shard)
    PROVE  DestsAppended'
<1>1. /\ AssemblerInv /\ DestsAppended /\ IsSeq(namedDests)
      /\ appended \in Seq([call : Nat, shard : Shards])
  BY DEF DestsInv, AssemblerInv
<1>2. PICK order \in Orders(shard) :
         /\ writer' = Written(writer, ObjectsOf(shard, order))
         /\ namedDests' = namedDests \o
               [i \in DOMAIN shard.dests |->
                   [name |-> shard.dests[i].name,
                    page |-> Numbered(order, nextObject, shard.dests[i].page)]]
  BY DEF AppendSucceeds
<1>3. PICK found, kept : found = shard.dests /\ kept = Kept(shard)
  OBVIOUS
<1>4. PICK n \in Nat : /\ n = Len(found) /\ DOMAIN found = 1..n
                       /\ \A i \in 1..n : found[i].page \in kept
  <2>1. found \in Seq([name : Nat, page : kept])
    BY <1>3, KeptFinite
  <2>2. /\ Len(found) \in Nat /\ DOMAIN found = 1..Len(found)
        /\ \A i \in 1..Len(found) : found[i] \in [name : Nat, page : kept]
    BY <2>1, SeqRange, Zenon
  <2> QED
    BY <2>2
<1>5. PICK added : added = [i \in 1..n |-> [name |-> found[i].name,
                                            page |-> Numbered(order, nextObject, found[i].page)]]
  OBVIOUS
<1>6. IsSeq(added) /\ DOMAIN added = 1..n
  <2>1. DOMAIN added = 1..n /\ added = [i \in 1..n |-> added[i]]
    BY <1>5
  <2> QED
    BY <2>1, SeqMade
<1>7. namedDests' = namedDests \o added
  BY <1>2, <1>3, <1>4, <1>5
<1>8. ToSet(namedDests)' = ToSet(namedDests) \cup ToSet(added)
  BY <1>1, <1>6, <1>7, ConcatSet
<1>9. PICK w, u, nth : w = writer /\ u = writer' /\ nth = appends + 1
  OBVIOUS
<1>10. /\ \A m \in FirstShardObject..(nextObject - 1) : At(u, m) = At(w, m)
       /\ \A o \in kept :
             /\ At(u, Numbered(order, nextObject, o)).call = nth
             /\ At(u, Numbered(order, nextObject, o)).source = o
  BY <1>1, <1>2, <1>3, <1>9, AppendedObjects
<1>11. \A d \in ToSet(namedDests) : Leads(u, d) = Leads(w, d)
  BY <1>1, <1>10, DestNumbers DEF Leads
<1>12. PICK e : e = [call |-> nth, shard |-> shard]
  OBVIOUS
<1>13. ASSUME NEW i \in 1..n PROVE Leads(u, added[i]) = <<found[i].name, <<nth, found[i].page>>>>
  <2>1. /\ added[i].name = found[i].name
        /\ added[i].page = Numbered(order, nextObject, found[i].page)
    BY <1>5
  <2>2. found[i].page \in kept
    BY <1>4
  <2> QED
    BY <1>10, <2>1, <2>2 DEF Leads
<1>14. {Leads(u, d) : d \in ToSet(added)} = CallDests(e)
  <2>1. ToSet(added) = {added[i] : i \in 1..n} /\ ToSet(found) = {found[i] : i \in 1..n}
    BY <1>4, <1>6 DEF ToSet
  <2>2. {Leads(u, d) : d \in ToSet(added)} = {Leads(u, added[i]) : i \in 1..n}
    BY <2>1
  <2>3. CallDests(e) = {<<d.name, <<nth, d.page>>>> : d \in ToSet(found)}
    BY <1>3, <1>12 DEF CallDests
  <2>4. CallDests(e) = {<<found[i].name, <<nth, found[i].page>>>> : i \in 1..n}
    BY <2>1, <2>3
  <2> QED
    BY <1>13, <2>2, <2>4
<1>15. ToSet(appended)' = ToSet(appended) \cup {e}
  <2>1. appended' = Append(appended, e)
    BY <1>9, <1>12 DEF AppendSucceeds
  <2>2. PICK a, b : a = appended /\ b = appended'
    OBVIOUS
  <2>3. PICK k \in Nat : /\ k = Len(a) /\ DOMAIN a = 1..k /\ IsSeq(a)
    BY <1>1, <2>2, SeqRange
  <2>4. /\ IsSeq(b) /\ Len(b) = k + 1 /\ b[k + 1] = e
        /\ \A i \in 1..k : b[i] = a[i]
    BY <2>1, <2>2, <2>3, Longer
  <2>5. DOMAIN b = 1..(k + 1)
    BY <2>4, SeqFacts
  <2>6. \A i \in 1..(k + 1) : i \in 1..k \/ i = k + 1
    OBVIOUS
  <2>7. k + 1 \in 1..(k + 1) /\ \A i \in 1..k : i \in 1..(k + 1)
    OBVIOUS
  <2>8. ToSet(b) = ToSet(a) \cup {e}
    BY <2>3, <2>4, <2>5, <2>6, <2>7 DEF ToSet
  <2> QED
    BY <2>2, <2>8
<1>16. PICK calls : calls = ToSet(appended)
  OBVIOUS
<1>17. UNION {CallDests(a) : a \in calls \cup {e}}
          = (UNION {CallDests(a) : a \in calls}) \cup CallDests(e)
  <2>1. PICK A, z : A = {CallDests(a) : a \in calls} /\ z = CallDests(e)
    OBVIOUS
  <2>2. {CallDests(a) : a \in calls \cup {e}} = A \cup {z}
    BY <2>1
  <2>3. UNION (A \cup {z}) = (UNION A) \cup z
    OBVIOUS
  <2> QED
    BY <2>1, <2>2, <2>3
<1>18. PICK old : old = ToSet(namedDests)
  OBVIOUS
<1>19. {Leads(u, d) : d \in old \cup ToSet(added)}
          = {Leads(u, d) : d \in old} \cup {Leads(u, d) : d \in ToSet(added)}
  OBVIOUS
<1>20. {Leads(u, d) : d \in old} = {Leads(w, d) : d \in old}
  BY <1>11, <1>18
<1>21. {Leads(w, d) : d \in old} = UNION {CallDests(a) : a \in calls}
  BY <1>1, <1>9, <1>16, <1>18 DEF DestsAppended
<1>22. {Leads(u, d) : d \in ToSet(namedDests)'} = UNION {CallDests(a) : a \in ToSet(appended)'}
  BY <1>8, <1>14, <1>15, <1>16, <1>17, <1>18, <1>19, <1>20, <1>21
<1> QED
  BY <1>9, <1>22 DEF DestsAppended, Leads, CallDests

LEMMA DestsPublished ==
    ASSUME DestsInv, phase = "open", NEW entries, IsOutline(entries), UNCHANGED appended,
           ~DuplicateDestination(Sorted(namedDests)),
           writer' = [Body(entries) EXCEPT
                         !.file = Append(@, Table(Body(entries), Size(entries)))]
    PROVE  DestsResolve'
<1>1. /\ AssemblerInv /\ DestsAppended /\ IsSeq(namedDests)
      /\ \A i \in DOMAIN namedDests : namedDests[i].name \in Nat
  BY DEF DestsInv, AssemblerInv
<1>2. /\ Catalog'.dests = Sorted(namedDests)
      /\ \A m \in FirstShardObject..(nextObject - 1) : Lookup(m)' = At(writer, m)
  BY <1>1, PublishedLookups
<1>3. PICK dests, sorted, w : dests = namedDests /\ sorted = Sorted(namedDests) /\ w = writer
  OBVIOUS
<1>4. PICK n \in Nat : /\ n = Len(dests) /\ IsSeq(sorted) /\ Len(sorted) = n
                       /\ ToSet(sorted) = ToSet(dests)
                       /\ \A i, j \in DOMAIN sorted : i < j => sorted[i].name <= sorted[j].name
  <2>1. IsSeq(dests) /\ \A i \in DOMAIN dests : dests[i].name \in Nat
    BY <1>1, <1>3
  <2>2. sorted = Sorted(dests)
    BY <1>3
  <2>3. Len(dests) \in Nat
    BY <2>1, SeqFacts
  <2> QED
    BY <2>1, <2>2, <2>3, SortedFacts
<1>5. DOMAIN sorted = 1..n
  BY <1>4, SeqFacts
<1>6. \A i \in 1..n : sorted[i].name \in Nat
  <2>1. \A i \in 1..n : sorted[i] \in ToSet(dests)
    BY <1>4, <1>5 DEF ToSet
  <2> QED
    BY <1>1, <1>3, <2>1 DEF ToSet
<1>7. \A i \in 1..(n - 1) : sorted[i].name # sorted[i + 1].name
  BY <1>3, <1>4 DEF DuplicateDestination
<1>8. ASSUME NEW i \in 1..n, NEW j \in 1..n, i < j
      PROVE  sorted[i].name < sorted[j].name
  <2>1. /\ i \in 1..(n - 1) /\ i + 1 \in 1..n /\ i < i + 1
        /\ i + 1 = j \/ i + 1 < j
    BY <1>8
  <2>2. sorted[i].name <= sorted[i + 1].name
    BY <1>4, <1>5, <2>1
  <2>3. sorted[i].name # sorted[i + 1].name
    BY <1>7, <2>1
  <2>4. i + 1 = j \/ sorted[i + 1].name <= sorted[j].name
    <3>1. i + 1 < j => sorted[i + 1].name <= sorted[j].name
      BY <1>4, <1>5, <2>1
    <3> QED
      BY <1>8, <3>1
  <2>5. sorted[i].name \in Nat /\ sorted[i + 1].name \in Nat /\ sorted[j].name \in Nat
    BY <1>6, <2>1
  <2> QED
    BY <2>2, <2>3, <2>4, <2>5
<1>9. \A d \in ToSet(dests) : Lookup(d.page)' = At(w, d.page)
  BY <1>1, <1>2, <1>3, DestNumbers
<1>10. {<<d.name, <<Lookup(d.page)'.call, Lookup(d.page)'.source>>>> : d \in ToSet(sorted)}
          = {Leads(w, d) : d \in ToSet(dests)}
  BY <1>4, <1>9 DEF Leads
<1>11. ToSet(appended)' = ToSet(appended)
  BY DEF ToSet
<1>12. {Leads(w, d) : d \in ToSet(dests)} = UNION {CallDests(a) : a \in ToSet(appended)'}
  BY <1>1, <1>3, <1>11 DEF DestsAppended
<1>13. PICK published : published = Catalog'.dests /\ published = sorted
  BY <1>2, <1>3
<1>14. \A i, j \in DOMAIN Catalog'.dests :
          i < j => Catalog'.dests[i].name < Catalog'.dests[j].name
  BY <1>5, <1>8, <1>13
<1>15. {<<d.name, <<Lookup(d.page)'.call, Lookup(d.page)'.source>>>> : d \in ToSet(Catalog'.dests)}
          = UNION {CallDests(a) : a \in ToSet(appended)'}
  BY <1>10, <1>12, <1>13
<1> QED
  BY <1>14, <1>15 DEF DestsResolve, CallDests, Lookup

LEMMA NextDests == DestsInv /\ Step => DestsInv'
<1> SUFFICES ASSUME DestsInv, Step PROVE DestsInv'
  OBVIOUS
<1>1. AssemblerInv /\ AssemblerInv'
  BY NextAssembler DEF DestsInv
<1>2. ASSUME NEW shard \in Shards, AppendShardDoc(shard) PROVE DestsInv'
  <2>1. phase = "open" /\ phase' = "open"
    BY <1>2 DEF AppendShardDoc
  <2>2. DestsResolve'
    BY <2>1 DEF DestsResolve
  <2>3. CASE AppendMalformed(shard)
    <3>1. UNCHANGED <<writer, namedDests, appended>>
      BY <2>3 DEF AppendMalformed
    <3>2. DestsAppended'
      BY <2>1, <3>1, DestsFrame
    <3> QED
      BY <1>1, <2>1, <2>2, <3>2 DEF DestsInv
  <2>4. CASE AppendTears(shard)
    <3>1. UNCHANGED <<namedDests, appended>>
      BY <2>4 DEF AppendTears
    <3>2. \A m \in FirstShardObject..(nextObject - 1) : At(writer', m) = At(writer, m)
      BY <1>1, <2>1, <2>4, TornObjects
    <3>3. DestsAppended'
      BY <2>1, <3>1, <3>2, DestsFrame
    <3> QED
      BY <1>1, <2>1, <2>2, <3>3 DEF DestsInv
  <2>5. CASE AppendSucceeds(shard)
    <3>1. DestsAppended'
      BY <2>1, <2>5, DestsSucceed
    <3> QED
      BY <1>1, <2>1, <2>2, <3>1 DEF DestsInv
  <2> QED
    BY <1>2, <2>3, <2>4, <2>5 DEF AppendShardDoc
<1>3. ASSUME NEW entries, IsOutline(entries), Finalize(entries) PROVE DestsInv'
  <2>1. phase = "open" /\ UNCHANGED appended
    BY <1>3 DEF Finalize
  <2>2. CASE \E why \in Failures : phase' = why
    BY <1>1, <2>2 DEF DestsInv, DestsResolve, Failures
  <2>3. CASE /\ phase' = "published"
             /\ ~DuplicateDestination(Sorted(namedDests))
             /\ writer' = [Body(entries) EXCEPT
                              !.file = Append(@, Table(Body(entries), Size(entries)))]
    <3>1. DestsResolve'
      BY <1>3, <2>1, <2>3, DestsPublished
    <3> QED
      BY <1>1, <2>3, <3>1 DEF DestsInv
  <2> QED
    BY <1>3, <2>2, <2>3 DEF Finalize, Fails, Failures
<1>4. ASSUME UNCHANGED vars PROVE DestsInv'
  <2>1. UNCHANGED <<writer, namedDests, phase, appended>>
    BY <1>4 DEF vars
  <2>2. DestsAppended' = DestsAppended
    BY <2>1 DEF DestsAppended, Leads, At, ToSet
  <2>3. Xref' = Xref
    BY <2>1 DEF Xref, Last
  <2>4. Catalog' = Catalog
    BY <2>1, <2>3 DEF Catalog, Lookup
  <2>5. DestsResolve' = DestsResolve
    BY <2>1, <2>3, <2>4 DEF DestsResolve, Lookup, ToSet
  <2> QED
    BY <1>1, <2>1, <2>2, <2>5 DEF DestsInv
<1> QED
  BY <1>2, <1>3, <1>4 DEF Step

(* The name tree of the published file ascends strictly, and leads every   *)
(* name of every appended shard to the page it led to in its source        *)
(* (append_shard_doc() and the sort in finalize()).                        *)
THEOREM DestsAreRight == Spec => []DestsResolve
<1>1. DestsInv => DestsResolve
  BY DEF DestsInv
<1> QED
  BY <1>1, InitDests, NextDests, NextIsStep, PTL DEF Spec

-----------------------------------------------------------------------------
(* The climb up the page tree (PageTree).                                  *)

(* What each object gives key k: any solution of the equation.             *)
IsValue(f, shard, k) ==
    f = [o \in shard.objects |->
            IF k \in shard.attrs[o] THEN o
            ELSE IF o \in DOMAIN shard.parent /\ shard.parent[o] \in shard.objects
            THEN f[shard.parent[o]] ELSE 0]

(* A relation of objects and values that the equation derives.             *)
Derives(Q, shard, k) ==
    /\ \A o \in shard.objects : k \in shard.attrs[o] => <<o, o>> \in Q
    /\ \A o \in shard.objects : \A v \in shard.objects :
          /\ k \notin shard.attrs[o]
          /\ o \in DOMAIN shard.parent /\ shard.parent[o] \in shard.objects
          /\ <<shard.parent[o], v>> \in Q
          => <<o, v>> \in Q

OneOf(V) == IF V = {} THEN 0 ELSE CHOOSE v : v \in V

(* There is one, cycles or not: the least relation, and 0 without a value. *)
LEMMA ValueExists == ASSUME NEW shard, NEW k PROVE \E f : IsValue(f, shard, k)
<1>1. PICK P : P = shard.objects \X shard.objects
  OBVIOUS
<1>2. PICK R : R = {x \in P : \A Q \in SUBSET P : Derives(Q, shard, k) => x \in Q}
  OBVIOUS
<1>3. Derives(R, shard, k)
  <2>1. ASSUME NEW o \in shard.objects, k \in shard.attrs[o] PROVE <<o, o>> \in R
    BY <1>1, <1>2, <2>1 DEF Derives
  <2>2. ASSUME NEW o \in shard.objects, NEW v \in shard.objects,
               k \notin shard.attrs[o],
               o \in DOMAIN shard.parent, shard.parent[o] \in shard.objects,
               <<shard.parent[o], v>> \in R
        PROVE  <<o, v>> \in R
    <3>1. \A Q \in SUBSET P : Derives(Q, shard, k) => <<shard.parent[o], v>> \in Q
      BY <1>2, <2>2
    <3>2. \A Q \in SUBSET P : Derives(Q, shard, k) => <<o, v>> \in Q
      BY <2>2, <3>1 DEF Derives
    <3> QED
      BY <1>1, <1>2, <3>2
  <2> QED
    BY <2>1, <2>2 DEF Derives
<1>4. ASSUME NEW o \in shard.objects, NEW v \in shard.objects,
             Derives(R \ {<<o, v>>}, shard, k)
      PROVE  <<o, v>> \notin R
  <2>1. R \ {<<o, v>>} \in SUBSET P
    BY <1>2
  <2> QED
    BY <1>2, <1>4, <2>1
<1>5. ASSUME NEW o \in shard.objects, NEW v \in shard.objects,
             <<o, v>> \in R
      PROVE  \/ k \in shard.attrs[o] /\ v = o
             \/ /\ k \notin shard.attrs[o]
                /\ o \in DOMAIN shard.parent /\ shard.parent[o] \in shard.objects
                /\ <<shard.parent[o], v>> \in R
  <2> SUFFICES ASSUME ~(k \in shard.attrs[o] /\ v = o),
                      ~(/\ k \notin shard.attrs[o]
                        /\ o \in DOMAIN shard.parent /\ shard.parent[o] \in shard.objects
                        /\ <<shard.parent[o], v>> \in R)
               PROVE  Derives(R \ {<<o, v>>}, shard, k)
    BY <1>4, <1>5
  <2>1. ASSUME NEW a \in shard.objects, k \in shard.attrs[a]
        PROVE  <<a, a>> \in R \ {<<o, v>>}
    BY <1>3, <2>1 DEF Derives
  <2>2. ASSUME NEW a \in shard.objects, NEW b \in shard.objects,
               k \notin shard.attrs[a],
               a \in DOMAIN shard.parent, shard.parent[a] \in shard.objects,
               <<shard.parent[a], b>> \in R \ {<<o, v>>}
        PROVE  <<a, b>> \in R \ {<<o, v>>}
    <3>1. <<a, b>> \in R
      BY <1>3, <2>2 DEF Derives
    <3>2. ~(a = o /\ b = v)
      BY <2>2
    <3> QED
      BY <3>1, <3>2
  <2> QED
    BY <2>1, <2>2 DEF Derives
<1>6. PICK values : values = [o \in shard.objects |-> {v \in shard.objects : <<o, v>> \in R}]
  OBVIOUS
<1>7. PICK f : f = [o \in shard.objects |-> OneOf(values[o])]
  OBVIOUS
<1>8. ASSUME NEW o \in shard.objects
      PROVE  f[o] = IF k \in shard.attrs[o] THEN o
                    ELSE IF o \in DOMAIN shard.parent /\ shard.parent[o] \in shard.objects
                    THEN f[shard.parent[o]] ELSE 0
  <2>1. CASE k \in shard.attrs[o]
    <3>1. values[o] = {o}
      BY <1>3, <1>5, <1>6, <2>1 DEF Derives
    <3>2. f[o] = OneOf({o}) /\ OneOf({o}) = o
      BY <1>7, <3>1 DEF OneOf
    <3> QED
      BY <2>1, <3>2
  <2>2. CASE /\ k \notin shard.attrs[o]
             /\ o \in DOMAIN shard.parent /\ shard.parent[o] \in shard.objects
    <3>1. \A v \in shard.objects : <<o, v>> \in R <=> <<shard.parent[o], v>> \in R
      BY <1>3, <1>5, <2>2 DEF Derives
    <3>2. values[o] = values[shard.parent[o]]
      BY <1>6, <2>2, <3>1
    <3>3. f[o] = f[shard.parent[o]]
      <4>1. PICK p \in shard.objects : p = shard.parent[o]
        BY <2>2
      <4>2. f[o] = OneOf(values[o]) /\ f[p] = OneOf(values[p])
        BY <1>7
      <4> QED
        BY <3>2, <4>1, <4>2
    <3> QED
      BY <2>2, <3>3
  <2>3. CASE /\ k \notin shard.attrs[o]
             /\ ~(o \in DOMAIN shard.parent /\ shard.parent[o] \in shard.objects)
    <3>1. values[o] = {}
      BY <1>5, <1>6, <2>3
    <3>2. f[o] = 0
      BY <1>7, <3>1 DEF OneOf
    <3> QED
      BY <2>3, <3>2
  <2> QED
    BY <2>1, <2>2, <2>3
<1>9. f = [o \in shard.objects |-> f[o]]
  BY <1>7
<1>10. IsValue(f, shard, k)
  BY <1>8, <1>9 DEF IsValue
<1> QED
  BY <1>10

LEMMA InheritedIs ==
    ASSUME NEW shard, NEW page, NEW k
    PROVE  \E f : IsValue(f, shard, k) /\ Inherited(shard, page, k) = f[page]
<1>1. \E f : IsValue(f, shard, k)
  BY ValueExists
<1>2. PICK f : f = CHOOSE g : IsValue(g, shard, k)
  OBVIOUS
<1>3. IsValue(f, shard, k)
  BY <1>1, <1>2
<1>4. Inherited(shard, page, k) = (CHOOSE g : IsValue(g, shard, k))[page]
  BY Zenon DEF Inherited, IsValue
<1> QED
  BY <1>2, <1>3, <1>4

(* The turns of the loop.                                                  *)
IsTurns(t, shard, page, n) ==
    t = [m \in 0..n |-> IF m = 0 THEN AtPage(shard, page) ELSE ClimbTurn(shard, t[m - 1])]

LEMMA TurnsExist ==
    ASSUME NEW shard, NEW page PROVE \A n \in Nat : \E t : IsTurns(t, shard, page, n)
<1>1. PICK S : S = {n \in Nat : \E t : IsTurns(t, shard, page, n)}
  OBVIOUS
<1>2. PICK start : start = AtPage(shard, page)
  OBVIOUS
<1>3. 0 \in S
  <2>1. PICK t : t = [m \in 0..0 |-> start]
    OBVIOUS
  <2>2. \A m \in 0..0 : m = 0
    OBVIOUS
  <2>3. t = [m \in 0..0 |-> IF m = 0 THEN start ELSE ClimbTurn(shard, t[m - 1])]
    BY <2>1, <2>2
  <2>4. IsTurns(t, shard, page, 0)
    BY <1>2, <2>3 DEF IsTurns
  <2> QED
    BY <1>1, <2>4
<1>4. ASSUME NEW n \in Nat, n \in S PROVE n + 1 \in S
  <2>1. PICK t : IsTurns(t, shard, page, n)
    BY <1>1, <1>4
  <2>2. PICK last : last = ClimbTurn(shard, t[n])
    OBVIOUS
  <2>3. PICK u : u = [m \in 0..(n + 1) |-> IF m = n + 1 THEN last ELSE t[m]]
    OBVIOUS
  <2>4. ASSUME NEW m \in 0..(n + 1)
        PROVE  u[m] = IF m = 0 THEN start ELSE ClimbTurn(shard, u[m - 1])
    <3>1. CASE m = n + 1
      <4>1. u[m] = last /\ m # 0 /\ m - 1 = n
        BY <2>3, <3>1
      <4>2. u[n] = t[n]
        BY <2>3
      <4> QED
        BY <2>2, <4>1, <4>2
    <3>2. CASE m # n + 1
      <4>1. m \in 0..n
        BY <3>2
      <4>2. t[m] = IF m = 0 THEN start ELSE ClimbTurn(shard, t[m - 1])
        BY <1>2, <2>1, <4>1 DEF IsTurns
      <4>3. u[m] = t[m]
        BY <2>3, <3>2
      <4>4. m # 0 => u[m - 1] = t[m - 1]
        BY <2>3, <4>1
      <4> QED
        BY <4>2, <4>3, <4>4
    <3> QED
      BY <3>1, <3>2
  <2>5. u = [m \in 0..(n + 1) |-> u[m]]
    BY <2>3
  <2>6. IsTurns(u, shard, page, n + 1)
    BY <1>2, <2>4, <2>5 DEF IsTurns
  <2> QED
    BY <1>1, <2>6
<1>5. \A n \in Nat : n \in S
  BY <1>3, <1>4, SetInduction
<1> QED
  BY <1>1, <1>5

LEMMA ClimbedIs ==
    ASSUME NEW shard, NEW page, NEW turns \in Nat, turns = Cardinality(shard.objects) + 1
    PROVE  \E t : IsTurns(t, shard, page, turns) /\ Climbed(shard, page) = t[turns]
<1>1. \E t : IsTurns(t, shard, page, turns)
  BY TurnsExist
<1>2. PICK t : t = CHOOSE u : IsTurns(u, shard, page, turns)
  OBVIOUS
<1>3. IsTurns(t, shard, page, turns)
  BY <1>1, <1>2
<1>4. Climbed(shard, page) = (CHOOSE u : IsTurns(u, shard, page, turns))[turns]
  BY Zenon DEF Climbed, IsTurns
<1> QED
  BY <1>2, <1>3, <1>4

(* After n turns: what was collected is what the tree gives, and what is   *)
(* still missing is to be had from where the climb stands.                 *)
IsClimb(c) == c = [current |-> c.current, owner |-> c.owner, seen |-> c.seen, state |-> c.state]

Climbs(c, n, f, shard, page, k) ==
    /\ IsClimb(c)
    /\ c.current \in shard.objects
    /\ c.seen \in SUBSET shard.objects
    /\ c.state = "top" => c.current \notin DOMAIN shard.parent
    /\ c.state \in {"climbing", "top", "malformed"}
    /\ k \in DOMAIN c.owner => c.owner[k] = f[page]
    /\ k \notin DOMAIN c.owner => f[page] = f[c.current] /\ k \notin shard.attrs[c.current]
    /\ c.state = "climbing" /\ Missing(c) # {} => Cardinality(c.seen) = n + 1

LEMMA ClimbStarts ==
    ASSUME NEW shard, NEW page \in shard.objects, NEW k \in Keys,
           NEW f, IsValue(f, shard, k)
    PROVE  Climbs(AtPage(shard, page), 0, f, shard, page, k)
<1>1. PICK c : c = AtPage(shard, page)
  OBVIOUS
<1>2. /\ IsClimb(c) /\ c.current = page /\ c.seen = {page} /\ c.state = "climbing"
      /\ DOMAIN c.owner = Keys \intersect shard.attrs[page]
      /\ \A q \in Keys \intersect shard.attrs[page] : c.owner[q] = page
  BY <1>1 DEF AtPage, IsClimb
<1>3. Cardinality(c.seen) = 0 + 1
  BY <1>2, FS_Singleton
<1>4. k \in shard.attrs[page] => f[page] = page
  BY DEF IsValue
<1> QED
  BY <1>1, <1>2, <1>3, <1>4 DEF Climbs

LEMMA ClimbStep ==
    ASSUME NEW shard, IsFiniteSet(shard.objects), NEW page \in shard.objects, NEW k \in Keys,
           NEW f, IsValue(f, shard, k),
           NEW n \in Nat, NEW c, Climbs(c, n, f, shard, page, k)
    PROVE  Climbs(ClimbTurn(shard, c), n + 1, f, shard, page, k)
<1>1. PICK p : p = shard.parent[c.current]
  OBVIOUS
<1>2. /\ IsClimb(c)
      /\ c.current \in shard.objects
      /\ c.seen \in SUBSET shard.objects
      /\ c.state = "top" => c.current \notin DOMAIN shard.parent
      /\ c.state \in {"climbing", "top", "malformed"}
      /\ k \in DOMAIN c.owner => c.owner[k] = f[page]
      /\ k \notin DOMAIN c.owner => f[page] = f[c.current] /\ k \notin shard.attrs[c.current]
      /\ c.state = "climbing" /\ Missing(c) # {} => Cardinality(c.seen) = n + 1
  BY DEF Climbs
<1>3. CASE c.state # "climbing" \/ Missing(c) = {}
  <2>1. ClimbTurn(shard, c) = c
    BY <1>3 DEF ClimbTurn
  <2> QED
    BY <1>2, <1>3, <2>1 DEF Climbs
<1>4. CASE /\ ~(c.state # "climbing" \/ Missing(c) = {})
           /\ c.current \notin DOMAIN shard.parent
  <2>1. PICK d : d = [c EXCEPT !.state = "top"]
    OBVIOUS
  <2>2. ClimbTurn(shard, c) = d
    BY <1>4, <2>1 DEF ClimbTurn
  <2>3. /\ IsClimb(d) /\ d.current = c.current /\ d.owner = c.owner /\ d.seen = c.seen
        /\ d.state = "top"
    BY <1>2, <2>1 DEF IsClimb
  <2>4. Climbs(d, n + 1, f, shard, page, k)
    BY <1>2, <1>4, <2>3 DEF Climbs
  <2> QED
    BY <2>2, <2>4
<1>5. CASE /\ ~(c.state # "climbing" \/ Missing(c) = {})
           /\ c.current \in DOMAIN shard.parent
           /\ p \in c.seen \/ p \notin shard.objects
  <2>1. PICK d : d = [c EXCEPT !.state = "malformed"]
    OBVIOUS
  <2>2. ClimbTurn(shard, c) = d
    BY <1>1, <1>5, <2>1 DEF ClimbTurn
  <2>3. /\ IsClimb(d) /\ d.current = c.current /\ d.owner = c.owner /\ d.seen = c.seen
        /\ d.state = "malformed"
    BY <1>2, <2>1 DEF IsClimb
  <2>4. Climbs(d, n + 1, f, shard, page, k)
    BY <1>2, <1>5, <2>3 DEF Climbs
  <2> QED
    BY <2>2, <2>4
<1>6. CASE /\ ~(c.state # "climbing" \/ Missing(c) = {})
           /\ c.current \in DOMAIN shard.parent
           /\ ~(p \in c.seen \/ p \notin shard.objects)
  <2>1. PICK owner, seen : owner = Collected(shard, c, p) /\ seen = c.seen \cup {p}
    OBVIOUS
  <2>2. PICK d : d = [c EXCEPT !.current = p, !.owner = owner, !.seen = seen]
    OBVIOUS
  <2>3. ClimbTurn(shard, c) = d
    BY <1>1, <1>6, <2>1, <2>2 DEF ClimbTurn
  <2>4. /\ IsClimb(d) /\ d.current = p /\ d.owner = owner /\ d.seen = seen
        /\ d.state = "climbing"
    BY <1>2, <1>6, <2>2 DEF IsClimb
  <2>5. /\ DOMAIN owner = DOMAIN c.owner \cup (Missing(c) \intersect shard.attrs[p])
        /\ k \in DOMAIN c.owner => owner[k] = c.owner[k]
        /\ k \in Missing(c) \intersect shard.attrs[p] => owner[k] = p
    BY <2>1 DEF Collected, Missing
  <2>6. k \in Missing(c) <=> k \notin DOMAIN c.owner
    BY DEF Missing
  <2>7. Cardinality(seen) = n + 2
    <3>1. IsFiniteSet(c.seen) /\ Cardinality(c.seen) = n + 1
      BY <1>2, <1>6, FS_Subset
    <3>2. Cardinality(c.seen \cup {p}) = Cardinality(c.seen) + 1
      BY <1>6, <3>1, FS_AddElement
    <3> QED
      BY <2>1, <3>1, <3>2
  <2>8. p \in shard.objects /\ seen \in SUBSET shard.objects
    BY <1>2, <1>6, <2>1
  <2>9. k \in shard.attrs[p] => f[p] = p
    BY <2>8 DEF IsValue
  <2>10. k \notin shard.attrs[c.current] => f[c.current] = f[p]
    BY <1>1, <1>2, <1>6, <2>8 DEF IsValue
  <2>11. k \in DOMAIN owner => owner[k] = f[page]
    <3>1. CASE k \in DOMAIN c.owner
      BY <1>2, <2>5, <3>1
    <3>2. CASE k \notin DOMAIN c.owner
      BY <1>2, <2>5, <2>6, <2>9, <2>10, <3>2
    <3> QED
      BY <3>1, <3>2
  <2>12. k \notin DOMAIN owner => f[page] = f[p] /\ k \notin shard.attrs[p]
    BY <1>2, <2>5, <2>6, <2>10
  <2>13. n + 2 = (n + 1) + 1
    OBVIOUS
  <2>14. Climbs(d, n + 1, f, shard, page, k)
    BY <2>4, <2>7, <2>8, <2>11, <2>12, <2>13 DEF Climbs
  <2> QED
    BY <2>3, <2>14
<1> QED
  BY <1>3, <1>4, <1>5, <1>6

(* A climb that did not fail has collected what the tree gives the page.   *)
LEMMA ClimbRight ==
    ASSUME NEW shard \in Shards, NEW page \in shard.objects, NEW k \in Keys,
           Climbed(shard, page).state # "malformed",
           NEW owner, owner = Climbed(shard, page).owner
    PROVE  Inherited(shard, page, k) = IF k \in DOMAIN owner THEN owner[k] ELSE 0
<1>1. IsFiniteSet(shard.objects)
  BY DocumentsWellFormed
<1>2. PICK turns \in Nat : turns = Cardinality(shard.objects) + 1
  BY <1>1, FS_CardinalityType
<1>3. PICK t : IsTurns(t, shard, page, turns) /\ Climbed(shard, page) = t[turns]
  BY <1>2, ClimbedIs
<1>4. PICK f : IsValue(f, shard, k) /\ Inherited(shard, page, k) = f[page]
  BY InheritedIs
<1>5. PICK S : S = {n \in Nat : n <= turns => Climbs(t[n], n, f, shard, page, k)}
  OBVIOUS
<1>6. 0 \in S
  <2>1. t[0] = AtPage(shard, page)
    BY <1>2, <1>3 DEF IsTurns
  <2>2. Climbs(t[0], 0, f, shard, page, k)
    BY <1>4, <2>1, ClimbStarts
  <2> QED
    BY <1>5, <2>2
<1>7. ASSUME NEW n \in Nat, n \in S PROVE n + 1 \in S
  <2> SUFFICES ASSUME n + 1 <= turns PROVE Climbs(t[n + 1], n + 1, f, shard, page, k)
    BY <1>5
  <2>1. PICK m : m = n + 1
    OBVIOUS
  <2>2. m \in 0..turns /\ m # 0 /\ m - 1 = n /\ n <= turns
    BY <1>2, <2>1
  <2>3. t[m] = ClimbTurn(shard, t[n])
    BY <1>3, <2>2 DEF IsTurns
  <2>4. Climbs(t[n], n, f, shard, page, k)
    BY <1>5, <1>7, <2>2
  <2>5. Climbs(ClimbTurn(shard, t[n]), n + 1, f, shard, page, k)
    BY <1>1, <1>4, <2>4, ClimbStep
  <2> QED
    BY <2>1, <2>3, <2>5
<1>8. \A n \in Nat : n \in S
  BY <1>6, <1>7, SetInduction
<1>9. PICK c : c = t[turns]
  OBVIOUS
<1>10. Climbs(c, turns, f, shard, page, k)
  <2>1. turns \in S /\ turns <= turns
    BY <1>2, <1>8
  <2> QED
    BY <1>5, <1>9, <2>1
<1>11. c.state # "malformed" /\ c.owner = owner
  BY <1>3, <1>9
<1>12. ~(c.state = "climbing" /\ Missing(c) # {})
  <2> SUFFICES ASSUME c.state = "climbing", Missing(c) # {} PROVE FALSE
    OBVIOUS
  <2>1. c.seen \in SUBSET shard.objects /\ Cardinality(c.seen) = turns + 1
    BY <1>10 DEF Climbs
  <2>2. Cardinality(c.seen) <= Cardinality(shard.objects) /\ Cardinality(shard.objects) \in Nat
    BY <1>1, <2>1, FS_Subset, FS_CardinalityType
  <2> QED
    BY <1>2, <2>1, <2>2
<1>13. CASE k \in DOMAIN owner
  <2>1. owner[k] = f[page]
    BY <1>10, <1>11, <1>13 DEF Climbs
  <2> QED
    BY <1>4, <1>13, <2>1
<1>14. CASE k \notin DOMAIN owner
  <2>1. Missing(c) # {}
    BY <1>11, <1>14 DEF Missing
  <2>2. c.state = "top"
    BY <1>10, <1>11, <1>12, <2>1 DEF Climbs
  <2>3. /\ c.current \in shard.objects /\ c.current \notin DOMAIN shard.parent
        /\ f[page] = f[c.current] /\ k \notin shard.attrs[c.current]
    BY <1>10, <1>11, <1>14, <2>2 DEF Climbs
  <2>4. f[c.current] = 0
    BY <1>4, <2>3 DEF IsValue
  <2> QED
    BY <1>4, <1>14, <2>3, <2>4
<1> QED
  BY <1>13, <1>14

-----------------------------------------------------------------------------
(* The pages of an open assembly have what their page trees gave them.     *)

(* The page has what the tree of its document gives it.                    *)
HasInherited(page, a) ==
    page.call = a.call =>
        \A k \in Keys : (IF k \in DOMAIN page.attrs THEN page.attrs[k] ELSE 0)
                           = Inherited(a.shard, page.source, k)

AttrsAppended ==
    \A i \in DOMAIN pageIds :
        /\ At(writer, pageIds[i]).call \in 1..appends
        /\ \A a \in ToSet(appended) : HasInherited(At(writer, pageIds[i]), a)

InheritInv ==
    /\ AssemblerInv
    /\ \A a \in ToSet(appended) : a.call \in 1..appends
    /\ phase = "open" => AttrsAppended
    /\ PagesInherit

LEMMA InitInherit == Init => InheritInv
<1> SUFFICES ASSUME Init PROVE InheritInv
  OBVIOUS
<1>1. DOMAIN pageIds = {} /\ DOMAIN appended = {} /\ phase = "open"
  BY DEF Init
<1>2. ToSet(appended) = {} /\ AttrsAppended
  BY <1>1 DEF ToSet, AttrsAppended
<1> QED
  BY <1>1, <1>2, InitAssembler DEF InheritInv, PagesInherit

LEMMA PageNumbers ==
    ASSUME AssemblerInv
    PROVE  /\ IsSeq(pageIds)
           /\ \A i \in DOMAIN pageIds : pageIds[i] \in FirstShardObject..(nextObject - 1)
<1>1. PICK numbers : numbers = FirstShardObject..(nextObject - 1)
  OBVIOUS
<1>2. pageIds \in Seq(numbers)
  BY <1>1 DEF AssemblerInv, TypeOK
<1> QED
  BY <1>1, <1>2, SeqRange

LEMMA InheritFrame ==
    ASSUME InheritInv, phase = "open", UNCHANGED <<pageIds, appended>>, appends' = appends + 1,
           \A m \in FirstShardObject..(nextObject - 1) : At(writer', m) = At(writer, m)
    PROVE  /\ AttrsAppended'
           /\ \A a \in ToSet(appended)' : a.call \in 1..appends'
<1>1. /\ AssemblerInv /\ AttrsAppended /\ appends \in Nat
      /\ \A a \in ToSet(appended) : a.call \in 1..appends
  BY AppendsNatural DEF InheritInv, AssemblerInv, TypeOK
<1>2. PICK w, u, ids, calls : /\ w = writer /\ u = writer' /\ ids = pageIds
                              /\ calls = ToSet(appended)
  OBVIOUS
<1>3. \A i \in DOMAIN ids : At(u, ids[i]) = At(w, ids[i])
  BY <1>1, <1>2, PageNumbers
<1>4. ToSet(appended)' = calls
  BY <1>2 DEF ToSet
<1>5. \A n \in 1..appends : n \in 1..appends'
  BY <1>1
<1>6. \A i \in DOMAIN ids : /\ At(u, ids[i]).call \in 1..appends'
                            /\ \A a \in calls : HasInherited(At(u, ids[i]), a)
  BY <1>1, <1>2, <1>3, <1>5 DEF AttrsAppended
<1>7. AttrsAppended'
  BY <1>2, <1>4, <1>6 DEF AttrsAppended, HasInherited
<1>8. \A a \in ToSet(appended)' : a.call \in 1..appends'
  BY <1>1, <1>2, <1>4, <1>5
<1> QED
  BY <1>7, <1>8

LEMMA InheritSucceed ==
    ASSUME InheritInv, phase = "open", NEW shard \in Shards, AppendSucceeds(shard),
           appends' = appends + 1
    PROVE  /\ AttrsAppended'
           /\ \A a \in ToSet(appended)' : a.call \in 1..appends'
<1>1. /\ AssemblerInv /\ AttrsAppended /\ appends \in Nat
      /\ appended \in Seq([call : Nat, shard : Shards])
      /\ \A a \in ToSet(appended) : a.call \in 1..appends
  BY AppendsNatural DEF InheritInv, AssemblerInv, TypeOK
<1>2. PICK order \in Orders(shard) :
         /\ writer' = Written(writer, ObjectsOf(shard, order))
         /\ pageIds' = pageIds \o
               [i \in DOMAIN shard.pages |-> Numbered(order, nextObject, shard.pages[i])]
  BY DEF AppendSucceeds
<1>3. PICK pages, ids, more, w, u, nth : /\ pages = shard.pages /\ ids = pageIds /\ more = pageIds'
                                          /\ w = writer /\ u = writer' /\ nth = appends + 1
  OBVIOUS
<1>4. PICK n \in Nat : /\ n = Len(pages) /\ DOMAIN pages = 1..n
                       /\ \A i \in 1..n : pages[i] \in Kept(shard) /\ pages[i] \in ToSet(pages)
  <2>1. pages \in Seq(Kept(shard))
    BY <1>3, KeptFinite
  <2> QED
    BY <2>1 DEF ToSet
<1>5. PICK added : added = [i \in 1..n |-> Numbered(order, nextObject, pages[i])]
  OBVIOUS
<1>6. IsSeq(added) /\ DOMAIN added = 1..n
  <2>1. DOMAIN added = 1..n /\ added = [i \in 1..n |-> added[i]]
    BY <1>5
  <2> QED
    BY <2>1, SeqMade
<1>7. more = ids \o added
  BY <1>2, <1>3, <1>4, <1>5
<1>8. IsSeq(ids) /\ \A i \in DOMAIN ids : ids[i] \in FirstShardObject..(nextObject - 1)
  BY <1>1, <1>3, PageNumbers
<1>9. ToSet(more) = ToSet(ids) \cup ToSet(added)
  BY <1>6, <1>7, <1>8, ConcatSet
<1>10. /\ \A m \in FirstShardObject..(nextObject - 1) : At(u, m) = At(w, m)
       /\ \A o \in Kept(shard) :
             /\ At(u, Numbered(order, nextObject, o)).call = nth
             /\ At(u, Numbered(order, nextObject, o)).source = o
             /\ o \in ToSet(shard.pages) =>
                   At(u, Numbered(order, nextObject, o)).attrs = Climbed(shard, o).owner
  BY <1>1, <1>2, <1>3, AppendedObjects
<1>11. PICK e, calls, longer : /\ e = [call |-> nth, shard |-> shard]
                               /\ calls = ToSet(appended) /\ longer = ToSet(appended)'
  OBVIOUS
<1>12. longer = calls \cup {e}
  <2>1. appended' = Append(appended, e)
    BY <1>3, <1>11 DEF AppendSucceeds
  <2>2. PICK a, b : a = appended /\ b = appended'
    OBVIOUS
  <2>3. PICK k \in Nat : /\ k = Len(a) /\ DOMAIN a = 1..k /\ IsSeq(a)
    BY <1>1, <2>2, SeqRange
  <2>4. /\ IsSeq(b) /\ Len(b) = k + 1 /\ b[k + 1] = e
        /\ \A i \in 1..k : b[i] = a[i]
    BY <2>1, <2>2, <2>3, Longer
  <2>5. DOMAIN b = 1..(k + 1)
    BY <2>4, SeqFacts
  <2>6. \A i \in 1..(k + 1) : i \in 1..k \/ i = k + 1
    OBVIOUS
  <2>7. k + 1 \in 1..(k + 1) /\ \A i \in 1..k : i \in 1..(k + 1)
    OBVIOUS
  <2>8. ToSet(b) = ToSet(a) \cup {e}
    BY <2>3, <2>4, <2>5, <2>6, <2>7 DEF ToSet
  <2> QED
    BY <1>11, <2>2, <2>8
<1>13. /\ nth \in 1..appends' /\ e.call = nth /\ e.shard = shard
       /\ \A m \in 1..appends : m \in 1..appends' /\ m # nth
  BY <1>1, <1>3, <1>11
<1>14. ASSUME NEW m \in ToSet(ids)
       PROVE  /\ At(u, m).call \in 1..appends'
              /\ \A a \in longer : HasInherited(At(u, m), a)
  <2>1. PICK i \in DOMAIN ids : m = ids[i]
    BY DEF ToSet
  <2>2. At(u, m) = At(w, m)
    BY <1>8, <1>10, <2>1
  <2>3. At(w, m).call \in 1..appends /\ \A a \in calls : HasInherited(At(w, m), a)
    BY <1>1, <1>3, <1>11, <2>1 DEF AttrsAppended
  <2>4. HasInherited(At(u, m), e)
    BY <1>13, <2>2, <2>3 DEF HasInherited
  <2> QED
    BY <1>12, <1>13, <2>2, <2>3, <2>4
<1>15. ASSUME NEW m \in ToSet(added)
       PROVE  /\ At(u, m).call \in 1..appends'
              /\ \A a \in longer : HasInherited(At(u, m), a)
  <2>1. PICK i \in 1..n : m = Numbered(order, nextObject, pages[i])
    BY <1>5, <1>6 DEF ToSet
  <2>2. PICK page, object : page = pages[i] /\ object = At(u, m)
    OBVIOUS
  <2>3. /\ object.call = nth /\ object.source = page
        /\ object.attrs = Climbed(shard, page).owner
    BY <1>3, <1>4, <1>10, <2>1, <2>2
  <2>4. Climbed(shard, page).state # "malformed"
    BY <1>3, <1>4, <2>2 DEF AppendSucceeds, Malformed, PushDownFails
  <2>5. page \in shard.objects
    BY <1>4, <2>2 DEF Kept
  <2>6. PICK owner : owner = Climbed(shard, page).owner
    OBVIOUS
  <2>7. \A k \in Keys : Inherited(shard, page, k) = IF k \in DOMAIN owner THEN owner[k] ELSE 0
    BY <2>4, <2>5, <2>6, ClimbRight
  <2>8. HasInherited(object, e)
    BY <1>13, <2>3, <2>6, <2>7 DEF HasInherited
  <2>9. \A a \in calls : HasInherited(object, a)
    <3>1. \A a \in calls : a.call # nth
      BY <1>1, <1>11, <1>13
    <3> QED
      BY <2>3, <3>1 DEF HasInherited
  <2> QED
    BY <1>12, <1>13, <2>2, <2>3, <2>8, <2>9
<1>16. \A i \in DOMAIN more : more[i] \in ToSet(ids) \cup ToSet(added)
  BY <1>9 DEF ToSet
<1>17. \A i \in DOMAIN more : /\ At(u, more[i]).call \in 1..appends'
                              /\ \A a \in longer : HasInherited(At(u, more[i]), a)
  BY <1>14, <1>15, <1>16
<1>18. AttrsAppended'
  BY <1>3, <1>11, <1>17 DEF AttrsAppended, HasInherited
<1>19. \A a \in longer : a.call \in 1..appends'
  BY <1>1, <1>11, <1>12, <1>13
<1> QED
  BY <1>11, <1>18, <1>19

LEMMA InheritPublished ==
    ASSUME InheritInv, phase = "open", NEW entries, IsOutline(entries), UNCHANGED appended,
           writer' = [Body(entries) EXCEPT
                         !.file = Append(@, Table(Body(entries), Size(entries)))]
    PROVE  PagesInherit'
<1>1. AssemblerInv /\ AttrsAppended
  BY DEF InheritInv
<1>2. /\ Pages'.kids = pageIds
      /\ \A m \in FirstShardObject..(nextObject - 1) : Lookup(m)' = At(writer, m)
  BY <1>1, PublishedLookups
<1>3. PICK kids, w, calls : /\ kids = Pages'.kids /\ kids = pageIds /\ w = writer
                            /\ calls = ToSet(appended) /\ calls = ToSet(appended)'
  BY <1>2 DEF ToSet
<1>4. \A i \in DOMAIN kids : Lookup(kids[i])' = At(w, kids[i])
  BY <1>1, <1>2, <1>3, PageNumbers
<1>5. \A i \in DOMAIN kids : \A a \in calls : HasInherited(Lookup(kids[i])', a)
  BY <1>1, <1>3, <1>4 DEF AttrsAppended
<1>6. \A i \in DOMAIN Pages.kids' : \A a \in ToSet(appended)' :
         HasInherited(Lookup(Pages.kids[i])', a)
  BY <1>3, <1>5
<1>7. \A i \in DOMAIN Pages.kids' : \A a \in ToSet(appended)' :
         Lookup(Pages.kids[i])'.call = a.call =>
             \A k \in Keys :
                (IF k \in DOMAIN Lookup(Pages.kids[i])'.attrs
                 THEN Lookup(Pages.kids[i])'.attrs[k] ELSE 0)
                = Inherited(a.shard, Lookup(Pages.kids[i])'.source, k)
  BY <1>6, Zenon DEF HasInherited
<1> QED
  BY <1>7, Zenon DEF PagesInherit

LEMMA NextInherit == InheritInv /\ Step => InheritInv'
<1> SUFFICES ASSUME InheritInv, Step PROVE InheritInv'
  OBVIOUS
<1>1. AssemblerInv /\ AssemblerInv'
  BY NextAssembler DEF InheritInv
<1>2. ASSUME NEW shard \in Shards, AppendShardDoc(shard) PROVE InheritInv'
  <2>1. phase = "open" /\ phase' = "open" /\ appends' = appends + 1
    BY <1>2 DEF AppendShardDoc
  <2>2. PagesInherit'
    BY <2>1 DEF PagesInherit
  <2>3. CASE AppendMalformed(shard)
    <3>1. UNCHANGED <<writer, pageIds, appended>>
      BY <2>3 DEF AppendMalformed
    <3>2. AttrsAppended' /\ \A a \in ToSet(appended)' : a.call \in 1..appends'
      BY <2>1, <3>1, InheritFrame
    <3> QED
      BY <1>1, <2>1, <2>2, <3>2 DEF InheritInv
  <2>4. CASE AppendTears(shard)
    <3>1. UNCHANGED <<pageIds, appended>>
      BY <2>4 DEF AppendTears
    <3>2. \A m \in FirstShardObject..(nextObject - 1) : At(writer', m) = At(writer, m)
      BY <1>1, <2>1, <2>4, TornObjects
    <3>3. AttrsAppended' /\ \A a \in ToSet(appended)' : a.call \in 1..appends'
      BY <2>1, <3>1, <3>2, InheritFrame
    <3> QED
      BY <1>1, <2>1, <2>2, <3>3 DEF InheritInv
  <2>5. CASE AppendSucceeds(shard)
    <3>1. AttrsAppended' /\ \A a \in ToSet(appended)' : a.call \in 1..appends'
      BY <2>1, <2>5, InheritSucceed
    <3> QED
      BY <1>1, <2>1, <2>2, <3>1 DEF InheritInv
  <2> QED
    BY <1>2, <2>3, <2>4, <2>5 DEF AppendShardDoc
<1>3. ASSUME NEW entries, IsOutline(entries), Finalize(entries) PROVE InheritInv'
  <2>1. phase = "open" /\ UNCHANGED <<appended, appends>>
    BY <1>3 DEF Finalize
  <2>2. \A a \in ToSet(appended)' : a.call \in 1..appends'
    BY <2>1 DEF InheritInv, ToSet
  <2>3. CASE \E why \in Failures : phase' = why
    BY <1>1, <2>2, <2>3 DEF InheritInv, PagesInherit, Failures
  <2>4. CASE /\ phase' = "published"
             /\ writer' = [Body(entries) EXCEPT
                              !.file = Append(@, Table(Body(entries), Size(entries)))]
    <3>1. PagesInherit'
      BY <1>3, <2>1, <2>4, InheritPublished
    <3> QED
      BY <1>1, <2>2, <2>4, <3>1 DEF InheritInv
  <2> QED
    BY <1>3, <2>3, <2>4 DEF Finalize, Fails, Failures
<1>4. ASSUME UNCHANGED vars PROVE InheritInv'
  <2>1. UNCHANGED <<writer, pageIds, phase, appends, appended>>
    BY <1>4 DEF vars
  <2>2. AttrsAppended' = AttrsAppended
    BY <2>1 DEF AttrsAppended, HasInherited, At, ToSet
  <2>3. Xref' = Xref /\ ToSet(appended)' = ToSet(appended)
    BY <2>1 DEF Xref, Last, ToSet
  <2>4. Catalog' = Catalog
    BY <2>1, <2>3 DEF Catalog, Lookup
  <2>5. Pages' = Pages
    BY <2>1, <2>3, <2>4 DEF Pages, Lookup
  <2>6. PagesInherit' = PagesInherit
    BY <2>1, <2>3, <2>5 DEF PagesInherit, Lookup
  <2> QED
    BY <1>1, <2>1, <2>2, <2>3, <2>6 DEF InheritInv
<1> QED
  BY <1>2, <1>3, <1>4 DEF Step

(* Every page of the published file has the inheritable attributes its own *)
(* page tree gave it, whatever that tree looks like, cycles and missing    *)
(* parents included (push_down_inherited(), assembler.rs).                 *)
THEOREM AttributesArePushedDown == Spec => []PagesInherit
<1>1. InheritInv => PagesInherit
  BY DEF InheritInv
<1> QED
  BY <1>1, InitInherit, NextInherit, NextIsStep, PTL DEF Spec

-----------------------------------------------------------------------------
(* The tree of a preorder list, by its levels.                             *)

(* The levels of a preorder list of n entries.                             *)
Preorder(lv, n) ==
    /\ n \in Nat /\ lv \in [1..n -> Nat]
    /\ \A i \in 1..n : lv[i] <= IF i = 1 THEN 0 ELSE lv[i - 1] + 1

(* Of the entries up to i, the last whose level is at most l, or 0.        *)
LastUpTo(lv, i, l, a) ==
    /\ a \in 0..i
    /\ a # 0 => lv[a] <= l
    /\ \A j \in (a + 1)..i : lv[j] > l

LEMMA LastExists ==
    ASSUME NEW lv, NEW n, Preorder(lv, n), NEW l \in Nat
    PROVE  \A i \in 0..n : \E a \in 0..n : LastUpTo(lv, i, l, a)
<1> USE DEF Preorder
<1>1. PICK S : S = {i \in Nat : i <= n => \E a \in 0..n : LastUpTo(lv, i, l, a)}
  OBVIOUS
<1>2. 0 \in S
  <2>1. LastUpTo(lv, 0, l, 0) /\ 0 \in 0..n
    BY DEF LastUpTo
  <2> QED
    BY <1>1, <2>1
<1>3. ASSUME NEW i \in Nat, i \in S PROVE i + 1 \in S
  <2> SUFFICES ASSUME i + 1 <= n PROVE \E a \in 0..n : LastUpTo(lv, i + 1, l, a)
    BY <1>1
  <2>1. PICK a \in 0..n : LastUpTo(lv, i, l, a)
    BY <1>1, <1>3
  <2>2. CASE lv[i + 1] <= l
    <3>1. LastUpTo(lv, i + 1, l, i + 1) /\ i + 1 \in 0..n
      BY <2>2 DEF LastUpTo
    <3> QED
      BY <3>1
  <2>3. CASE lv[i + 1] > l
    <3>1. \A j \in (a + 1)..(i + 1) : lv[j] > l
      <4> TAKE j \in (a + 1)..(i + 1)
      <4>1. j = i + 1 \/ j \in (a + 1)..i
        BY <2>1 DEF LastUpTo
      <4> QED
        BY <2>1, <2>3, <4>1 DEF LastUpTo
    <3>2. LastUpTo(lv, i + 1, l, a)
      BY <2>1, <3>1 DEF LastUpTo
    <3> QED
      BY <3>2
  <2>4. lv[i + 1] \in Nat
    OBVIOUS
  <2> QED
    BY <2>2, <2>3, <2>4
<1>4. \A i \in Nat : i \in S
  BY <1>2, <1>3, SetInduction
<1> QED
  BY <1>1, <1>4

LEMMA LastUnique ==
    ASSUME NEW lv, NEW n, Preorder(lv, n), NEW l \in Nat, NEW i \in 0..n,
           NEW a, LastUpTo(lv, i, l, a), NEW b, LastUpTo(lv, i, l, b)
    PROVE  a = b
<1>1. /\ n \in Nat /\ a \in 0..i /\ b \in 0..i /\ i \in Nat
      /\ \A j \in 1..n : lv[j] \in Nat
  BY DEF Preorder, LastUpTo
<1>2. ~(a < b)
  <2> SUFFICES ASSUME a < b PROVE FALSE
    OBVIOUS
  <2>1. b \in (a + 1)..i /\ b # 0 /\ b \in 1..n
    BY <1>1
  <2>2. lv[b] > l /\ lv[b] <= l /\ lv[b] \in Nat
    BY <1>1, <2>1 DEF LastUpTo
  <2> QED
    BY <2>2
<1>3. ~(b < a)
  <2> SUFFICES ASSUME b < a PROVE FALSE
    OBVIOUS
  <2>1. a \in (b + 1)..i /\ a # 0 /\ a \in 1..n
    BY <1>1
  <2>2. lv[a] > l /\ lv[a] <= l /\ lv[a] \in Nat
    BY <1>1, <2>1 DEF LastUpTo
  <2> QED
    BY <2>2
<1> QED
  BY <1>1, <1>2, <1>3

(* No level is skipped: up to the level of an entry, each has an open one. *)
LEMMA LastLevel ==
    ASSUME NEW lv, NEW n, Preorder(lv, n)
    PROVE  \A i \in 1..n : \A l \in 0..lv[i] : \A a \in 0..n :
              LastUpTo(lv, i, l, a) => a # 0 /\ lv[a] = l
<1> USE DEF Preorder
<1>1. PICK S : S = {i \in Nat : i \in 1..n =>
                       \A l \in 0..lv[i] : \A a \in 0..n :
                          LastUpTo(lv, i, l, a) => a # 0 /\ lv[a] = l}
  OBVIOUS
<1>2. 0 \in S
  BY <1>1
<1>3. ASSUME NEW i \in Nat, i \in S PROVE i + 1 \in S
  <2> SUFFICES ASSUME i + 1 \in 1..n, NEW l \in 0..lv[i + 1], NEW a \in 0..n,
                      LastUpTo(lv, i + 1, l, a)
               PROVE  a # 0 /\ lv[a] = l
    BY <1>1
  <2>1. PICK m \in Nat : m = lv[i + 1]
    OBVIOUS
  <2>2. CASE l = m
    <3>1. a = i + 1
      BY <2>1, <2>2 DEF LastUpTo
    <3> QED
      BY <2>1, <2>2, <3>1
  <2>3. CASE l # m
    <3>1. i \in 1..n /\ l \in 0..lv[i] /\ lv[i] \in Nat
      <4>1. i # 0
        BY <2>1, <2>3
      <4>2. i + 1 # 1 /\ (i + 1) - 1 = i /\ i \in 1..n
        BY <4>1
      <4>3. m <= lv[i] + 1 /\ lv[i] \in Nat
        BY <2>1, <4>2
      <4> QED
        BY <2>1, <2>3, <4>2, <4>3
    <3>2. a # i + 1
      BY <2>1, <2>3 DEF LastUpTo
    <3>3. LastUpTo(lv, i, l, a)
      BY <3>2 DEF LastUpTo
    <3> QED
      BY <1>1, <1>3, <3>1, <3>3
  <2> QED
    BY <2>2, <2>3
<1>4. \A i \in Nat : i \in S
  BY <1>2, <1>3, SetInduction
<1> QED
  BY <1>1, <1>4

(* p is the parent of entry i: the entry above it that is one level up,    *)
(* with nothing as high as i in between.                                   *)
IsParent(lv, i, p) ==
    /\ p \in 0..(i - 1)
    /\ p = 0 => lv[i] = 0
    /\ p # 0 => lv[i] = lv[p] + 1
    /\ \A j \in (p + 1)..(i - 1) : lv[j] >= lv[i]

LEMMA ParentExists ==
    ASSUME NEW lv, NEW n, Preorder(lv, n), NEW i \in 1..n
    PROVE  \E p \in 0..n : IsParent(lv, i, p)
<1>1. n \in Nat /\ lv[i] \in Nat
  BY DEF Preorder
<1>2. CASE lv[i] = 0
  <2>1. IsParent(lv, i, 0)
    BY <1>1, <1>2 DEF IsParent, Preorder
  <2> QED
    BY <1>1, <2>1
<1>3. CASE lv[i] # 0
  <2>1. PICK h, l : h = i - 1 /\ l = lv[i] - 1
    OBVIOUS
  <2>2. h \in 1..n /\ l \in 0..lv[h] /\ l \in Nat
    BY <1>1, <1>3, <2>1 DEF Preorder
  <2>3. PICK a \in 0..n : LastUpTo(lv, h, l, a)
    BY <2>2, LastExists
  <2>4. a # 0 /\ lv[a] = l
    BY <2>2, <2>3, LastLevel
  <2>5. \A j \in (a + 1)..(i - 1) : lv[j] >= lv[i]
    <3> TAKE j \in (a + 1)..(i - 1)
    <3>1. j \in (a + 1)..h /\ j \in 1..n
      BY <1>1, <2>1, <2>2
    <3>2. lv[j] > l
      BY <2>3, <3>1 DEF LastUpTo
    <3>3. lv[j] \in Nat
      BY <3>1 DEF Preorder
    <3> QED
      BY <1>1, <2>1, <2>2, <3>2, <3>3
  <2>6. IsParent(lv, i, a)
    BY <1>1, <1>3, <2>1, <2>2, <2>3, <2>4, <2>5 DEF IsParent, LastUpTo
  <2> QED
    BY <2>6
<1> QED
  BY <1>2, <1>3

LEMMA ParentUnique ==
    ASSUME NEW lv, NEW n, Preorder(lv, n), NEW i \in 1..n,
           NEW p, IsParent(lv, i, p), NEW q, IsParent(lv, i, q)
    PROVE  p = q
<1>1. /\ n \in Nat /\ i \in Nat /\ p \in 0..(i - 1) /\ q \in 0..(i - 1)
      /\ \A j \in 1..n : lv[j] \in Nat
  BY DEF Preorder, IsParent
<1>2. ASSUME NEW a \in 0..(i - 1), NEW b \in 0..(i - 1), a < b,
             IsParent(lv, i, a), IsParent(lv, i, b)
      PROVE  FALSE
  <2>1. b \in (a + 1)..(i - 1) /\ b # 0 /\ b \in 1..n
    BY <1>1, <1>2
  <2>2. lv[b] >= lv[i] /\ lv[i] = lv[b] + 1 /\ lv[b] \in Nat /\ lv[i] \in Nat
    BY <1>1, <1>2, <2>1 DEF IsParent
  <2> QED
    BY <2>2
<1>3. ~(p < q) /\ ~(q < p)
  BY <1>1, <1>2
<1> QED
  BY <1>1, <1>3

-----------------------------------------------------------------------------
(* The largest and the smallest.                                           *)

LEMMA MaxIs ==
    ASSUME NEW S, S \subseteq Int, NEW m \in S, \A y \in S : m >= y
    PROVE  Max(S) = m
<1>1. \A x \in S : (\A y \in S : x >= y) => x = m
  OBVIOUS
<1> QED
  BY <1>1 DEF Max

LEMMA MinIs ==
    ASSUME NEW S, S \subseteq Int, NEW m \in S, \A y \in S : m <= y
    PROVE  Min(S) = m
<1>1. \A x \in S : (\A y \in S : x <= y) => x = m
  OBVIOUS
<1> QED
  BY <1>1 DEF Min

(* The first and the last of a set of entries, or 0 when it has none.      *)
IsFirst(S, a) == (S = {} => a = 0) /\ (S # {} => a \in S /\ \A y \in S : a <= y)
IsLastOf(S, a) == (S = {} => a = 0) /\ (S # {} => a \in S /\ \A y \in S : a >= y)

LEMMA FirstIs ==
    ASSUME NEW n \in Nat, NEW S, S \subseteq 1..n, NEW a, IsFirst(S, a)
    PROVE  FirstOf(S) = a
<1>1. CASE S = {}
  BY <1>1 DEF IsFirst, FirstOf, None
<1>2. CASE S # {}
  <2>1. a \in S /\ (\A y \in S : a <= y) /\ S \subseteq Int
    BY <1>2 DEF IsFirst
  <2>2. Min(S) = a
    BY <2>1, MinIs
  <2> QED
    BY <1>2, <2>2 DEF FirstOf
<1> QED
  BY <1>1, <1>2

LEMMA LastIs ==
    ASSUME NEW n \in Nat, NEW S, S \subseteq 1..n, NEW a, IsLastOf(S, a)
    PROVE  LastOf(S) = a
<1>1. CASE S = {}
  BY <1>1 DEF IsLastOf, LastOf, None
<1>2. CASE S # {}
  <2>1. a \in S /\ (\A y \in S : a >= y) /\ S \subseteq Int
    BY <1>2 DEF IsLastOf
  <2>2. Max(S) = a
    BY <2>1, MaxIs
  <2> QED
    BY <1>2, <2>2 DEF LastOf
<1> QED
  BY <1>1, <1>2

LEMMA FirstExists == \A n \in Nat : \A S \in SUBSET (1..n) : \E a \in 0..n : IsFirst(S, a)
<1>1. PICK T : T = {n \in Nat : \A S \in SUBSET (1..n) : \E a \in 0..n : IsFirst(S, a)}
  OBVIOUS
<1>2. 0 \in T
  <2>1. \A S \in SUBSET (1..0) : S = {}
    OBVIOUS
  <2>2. IsFirst({}, 0) /\ 0 \in 0..0
    BY DEF IsFirst
  <2> QED
    BY <1>1, <2>1, <2>2
<1>3. ASSUME NEW n \in Nat, n \in T PROVE n + 1 \in T
  <2> SUFFICES ASSUME NEW S \in SUBSET (1..(n + 1)) PROVE \E a \in 0..(n + 1) : IsFirst(S, a)
    BY <1>1
  <2>1. PICK R : R = S \ {n + 1}
    OBVIOUS
  <2>2. R \in SUBSET (1..n)
    BY <2>1
  <2>3. PICK a \in 0..n : IsFirst(R, a)
    BY <1>1, <1>3, <2>2
  <2>4. CASE R = {}
    <3>1. S = {} => IsFirst(S, 0)
      BY DEF IsFirst
    <3>2. S # {} => S = {n + 1}
      BY <2>1, <2>4
    <3>3. S # {} => IsFirst(S, n + 1)
      BY <3>2 DEF IsFirst
    <3>4. 0 \in 0..(n + 1) /\ n + 1 \in 0..(n + 1)
      OBVIOUS
    <3> QED
      BY <3>1, <3>3, <3>4
  <2>5. CASE R # {}
    <3>1. a \in S /\ \A y \in S : a <= y
      BY <2>1, <2>3, <2>5 DEF IsFirst
    <3> QED
      BY <3>1 DEF IsFirst
  <2> QED
    BY <2>4, <2>5
<1>4. \A n \in Nat : n \in T
  BY <1>2, <1>3, SetInduction
<1> QED
  BY <1>1, <1>4

LEMMA LastOfExists == \A n \in Nat : \A S \in SUBSET (1..n) : \E a \in 0..n : IsLastOf(S, a)
<1>1. PICK T : T = {n \in Nat : \A S \in SUBSET (1..n) : \E a \in 0..n : IsLastOf(S, a)}
  OBVIOUS
<1>2. 0 \in T
  <2>1. \A S \in SUBSET (1..0) : S = {}
    OBVIOUS
  <2>2. IsLastOf({}, 0) /\ 0 \in 0..0
    BY DEF IsLastOf
  <2> QED
    BY <1>1, <2>1, <2>2
<1>3. ASSUME NEW n \in Nat, n \in T PROVE n + 1 \in T
  <2> SUFFICES ASSUME NEW S \in SUBSET (1..(n + 1)) PROVE \E a \in 0..(n + 1) : IsLastOf(S, a)
    BY <1>1
  <2>1. CASE n + 1 \in S
    <3>1. IsLastOf(S, n + 1)
      BY <2>1 DEF IsLastOf
    <3> QED
      BY <3>1
  <2>2. CASE n + 1 \notin S
    <3>1. S \in SUBSET (1..n)
      BY <2>2
    <3>2. PICK a \in 0..n : IsLastOf(S, a)
      BY <1>1, <1>3, <3>1
    <3> QED
      BY <3>2
  <2> QED
    BY <2>1, <2>2
<1>4. \A n \in Nat : n \in T
  BY <1>2, <1>3, SetInduction
<1> QED
  BY <1>1, <1>4

-----------------------------------------------------------------------------
(* The tree of a list of bookmarks, by its levels.                         *)

Describes(e, lv, n) ==
    /\ Preorder(lv, n) /\ DOMAIN e = 1..n /\ Len(e) = n
    /\ \A i \in 1..n : e[i].level = lv[i]

LEMMA ParentIs ==
    ASSUME NEW e, NEW lv, NEW n, Describes(e, lv, n), NEW i \in 1..n
    PROVE  IsParent(lv, i, ParentOf(e, i))
<1>1. /\ n \in Nat /\ Preorder(lv, n) /\ DOMAIN e = 1..n
      /\ \A j \in 1..n : lv[j] \in Nat /\ e[j].level = lv[j]
  BY DEF Describes, Preorder
<1>2. PICK p \in 0..n : IsParent(lv, i, p)
  BY <1>1, ParentExists
<1>3. PICK S : S = {0} \cup {j \in 1..(i - 1) : e[j].level < e[i].level}
  OBVIOUS
<1>4. p \in S
  BY <1>1, <1>2, <1>3 DEF IsParent
<1>5. ASSUME NEW y \in S PROVE p >= y
  <2>1. CASE y = 0
    BY <2>1
  <2>2. CASE y # 0
    <3>1. y \in 1..(i - 1) /\ lv[y] < lv[i] /\ lv[y] \in Nat /\ lv[i] \in Nat
      BY <1>1, <1>3, <2>2
    <3>2. ~(y \in (p + 1)..(i - 1))
      BY <1>2, <3>1 DEF IsParent
    <3> QED
      BY <1>2, <3>1, <3>2
  <2> QED
    BY <2>1, <2>2
<1>6. S \subseteq Int
  BY <1>3
<1>7. Max(S) = p
  BY <1>4, <1>5, <1>6, MaxIs
<1>8. ParentOf(e, i) = p
  BY <1>3, <1>7 DEF ParentOf, None
<1> QED
  BY <1>2, <1>8

(* d entries lie below entry i.                                            *)
IsBelow(lv, n, i, d) ==
    /\ d \in 0..(n - i)
    /\ \A j \in (i + 1)..(i + d) : lv[j] > lv[i]
    /\ i + d < n => lv[i + d + 1] <= lv[i]

LEMMA BelowExists ==
    ASSUME NEW lv, NEW n, Preorder(lv, n), NEW i \in 1..n
    PROVE  \E d \in 0..(n - i) : IsBelow(lv, n, i, d)
<1>1. n \in Nat /\ \A j \in 1..n : lv[j] \in Nat
  BY DEF Preorder
<1>2. SUFFICES ASSUME \A d \in 0..(n - i) : ~IsBelow(lv, n, i, d) PROVE FALSE
  OBVIOUS
<1>3. PICK S : S = {k \in Nat : k <= n - i => \A j \in (i + 1)..(i + k) : lv[j] > lv[i]}
  OBVIOUS
<1>4. 0 \in S
  BY <1>1, <1>3
<1>5. ASSUME NEW k \in Nat, k \in S PROVE k + 1 \in S
  <2> SUFFICES ASSUME k + 1 <= n - i PROVE \A j \in (i + 1)..(i + (k + 1)) : lv[j] > lv[i]
    BY <1>3
  <2>1. \A j \in (i + 1)..(i + k) : lv[j] > lv[i]
    BY <1>1, <1>3, <1>5
  <2>2. k \in 0..(n - i) /\ i + k < n /\ i + k + 1 \in 1..n
    BY <1>1
  <2>3. ~(lv[i + k + 1] <= lv[i])
    BY <1>2, <2>1, <2>2 DEF IsBelow
  <2>4. lv[i + k + 1] > lv[i]
    BY <1>1, <2>2, <2>3
  <2>5. \A j \in (i + 1)..(i + (k + 1)) : j \in (i + 1)..(i + k) \/ j = i + k + 1
    BY <1>1
  <2> QED
    BY <2>1, <2>4, <2>5
<1>6. \A k \in Nat : k \in S
  BY <1>4, <1>5, SetInduction
<1>7. PICK m \in Nat : m = n - i
  BY <1>1
<1>8. IsBelow(lv, n, i, m)
  <2>1. m \in S /\ m <= n - i
    BY <1>1, <1>6, <1>7
  <2>2. \A j \in (i + 1)..(i + m) : lv[j] > lv[i]
    BY <1>3, <2>1
  <2> QED
    BY <1>1, <1>7, <2>2 DEF IsBelow
<1> QED
  BY <1>2, <1>7, <1>8

LEMMA BelowIs ==
    ASSUME NEW e, NEW lv, NEW n, Describes(e, lv, n), NEW i \in 1..n
    PROVE  IsBelow(lv, n, i, DescendantCount(e, i + 1, lv[i]))
<1>1. /\ n \in Nat /\ Preorder(lv, n) /\ DOMAIN e = 1..n /\ Len(e) = n
      /\ \A j \in 1..n : lv[j] \in Nat /\ e[j].level = lv[j]
  BY DEF Describes, Preorder
<1>2. PICK d \in 0..(n - i) : IsBelow(lv, n, i, d)
  BY <1>1, BelowExists
<1>3. PICK S : S = {m \in 0..(Len(e) + 1 - (i + 1)) :
                       \A j \in (i + 1)..((i + 1) + m - 1) : e[j].level > lv[i]}
  OBVIOUS
<1>4. d \in S
  <2>1. d \in 0..(Len(e) + 1 - (i + 1))
    BY <1>1
  <2>2. \A j \in (i + 1)..((i + 1) + d - 1) : e[j].level > lv[i]
    <3> TAKE j \in (i + 1)..((i + 1) + d - 1)
    <3>1. j \in (i + 1)..(i + d) /\ j \in 1..n
      BY <1>1
    <3> QED
      BY <1>1, <1>2, <3>1 DEF IsBelow
  <2> QED
    BY <1>3, <2>1, <2>2
<1>5. ASSUME NEW m \in S PROVE d >= m
  <2> SUFFICES ASSUME m > d PROVE FALSE
    BY <1>1, <1>3
  <2>1. m \in Nat /\ m <= n - i
    BY <1>1, <1>3
  <2>2. i + d < n /\ i + d + 1 \in (i + 1)..((i + 1) + m - 1) /\ i + d + 1 \in 1..n
    BY <1>1, <2>1
  <2>3. lv[i + d + 1] <= lv[i]
    BY <1>2, <2>2 DEF IsBelow
  <2>4. e[i + d + 1].level > lv[i]
    BY <1>3, <2>2
  <2>5. PICK x : x = i + d + 1
    OBVIOUS
  <2>6. lv[x] <= lv[i] /\ lv[x] > lv[i] /\ lv[x] \in Nat /\ lv[i] \in Nat
    BY <1>1, <2>2, <2>3, <2>4, <2>5
  <2> QED
    BY <2>6
<1>6. S \subseteq Int
  BY <1>3
<1>7. Max(S) = d
  BY <1>4, <1>5, <1>6, MaxIs
<1>8. DescendantCount(e, i + 1, lv[i]) = d
  BY <1>3, <1>7 DEF DescendantCount
<1> QED
  BY <1>2, <1>8

(* The children of an entry, by the levels.                                *)
LEMMA ChildrenAre ==
    ASSUME NEW e, NEW lv, NEW n, Describes(e, lv, n), NEW i \in 1..n,
           NEW d, IsBelow(lv, n, i, d)
    PROVE  ChildrenOf(e, i) = {j \in (i + 1)..(i + d) : lv[j] = lv[i] + 1}
<1>1. /\ n \in Nat /\ Preorder(lv, n) /\ DOMAIN e = 1..n /\ d \in 0..(n - i)
      /\ \A j \in 1..n : lv[j] \in Nat
  BY DEF Describes, Preorder, IsBelow
<1>2. ASSUME NEW j \in 1..n, ParentOf(e, j) = i
      PROVE  j \in (i + 1)..(i + d) /\ lv[j] = lv[i] + 1
  <2>1. IsParent(lv, j, i)
    BY <1>2, ParentIs
  <2>2. j > i /\ lv[j] = lv[i] + 1
    BY <1>1, <2>1 DEF IsParent
  <2>3. ~(j > i + d)
    <3> SUFFICES ASSUME j > i + d PROVE FALSE
      OBVIOUS
    <3>1. PICK x : x = i + d + 1
      OBVIOUS
    <3>2. x \in 1..n /\ i + d < n /\ x > i /\ x <= j
      BY <1>1, <3>1
    <3>3. lv[x] <= lv[i] /\ lv[x] \in Nat /\ lv[i] \in Nat
      BY <1>1, <3>1, <3>2 DEF IsBelow
    <3>4. x # j => x \in (i + 1)..(j - 1)
      BY <1>1, <3>2
    <3>5. x # j => lv[x] >= lv[j]
      BY <2>1, <3>4 DEF IsParent
    <3> QED
      BY <2>2, <3>3, <3>5
  <2> QED
    BY <1>1, <2>2, <2>3
<1>3. ASSUME NEW j \in (i + 1)..(i + d), lv[j] = lv[i] + 1
      PROVE  j \in 1..n /\ ParentOf(e, j) = i
  <2>1. j \in 1..n /\ i \in 0..(j - 1) /\ i # 0
    BY <1>1
  <2>2. ASSUME NEW k \in (i + 1)..(j - 1) PROVE lv[k] >= lv[j]
    <3>1. k \in (i + 1)..(i + d) /\ k \in 1..n
      BY <1>1
    <3>2. lv[k] > lv[i] /\ lv[k] \in Nat /\ lv[i] \in Nat
      BY <1>1, <3>1 DEF IsBelow
    <3> QED
      BY <1>3, <3>2
  <2>3. IsParent(lv, j, i)
    BY <1>3, <2>1, <2>2 DEF IsParent
  <2>4. IsParent(lv, j, ParentOf(e, j))
    BY <2>1, ParentIs
  <2> QED
    BY <1>1, <2>1, <2>3, <2>4, ParentUnique
<1> QED
  BY <1>1, <1>2, <1>3 DEF ChildrenOf

(* The entries with the same parent, by the levels.                        *)
LEMMA SiblingsAre ==
    ASSUME NEW e, NEW lv, NEW n, Describes(e, lv, n), NEW i \in 1..n, NEW j \in 1..n, j < i
    PROVE  ParentOf(e, j) = ParentOf(e, i)
              <=> lv[j] = lv[i] /\ \A k \in (j + 1)..(i - 1) : lv[k] >= lv[i]
<1>1. /\ n \in Nat /\ Preorder(lv, n) /\ \A k \in 1..n : lv[k] \in Nat
  BY DEF Describes, Preorder
<1>2. PICK p, q : p = ParentOf(e, i) /\ q = ParentOf(e, j)
  OBVIOUS
<1>3. IsParent(lv, i, p) /\ IsParent(lv, j, q)
  BY <1>2, ParentIs
<1>4. ASSUME p = q PROVE lv[j] = lv[i] /\ \A k \in (j + 1)..(i - 1) : lv[k] >= lv[i]
  <2>1. lv[j] = lv[i]
    BY <1>3, <1>4 DEF IsParent
  <2>2. ASSUME NEW k \in (j + 1)..(i - 1) PROVE lv[k] >= lv[i]
    <3>1. k \in (p + 1)..(i - 1)
      BY <1>1, <1>3, <1>4 DEF IsParent
    <3> QED
      BY <1>3, <3>1 DEF IsParent
  <2> QED
    BY <2>1, <2>2
<1>5. ASSUME lv[j] = lv[i], \A k \in (j + 1)..(i - 1) : lv[k] >= lv[i] PROVE p = q
  <2>1. p < j
    <3> SUFFICES ASSUME p >= j PROVE FALSE
      BY <1>1, <1>3 DEF IsParent
    <3>1. p \in 1..n /\ p # 0 /\ p <= i - 1
      BY <1>1, <1>3 DEF IsParent
    <3>2. lv[i] = lv[p] + 1 /\ lv[p] \in Nat /\ lv[i] \in Nat
      BY <1>1, <1>3, <3>1 DEF IsParent
    <3>3. p = j \/ p \in (j + 1)..(i - 1)
      BY <1>1, <3>1
    <3> QED
      BY <1>5, <3>2, <3>3
  <2>2. p \in 0..(j - 1)
    BY <1>1, <1>3, <2>1 DEF IsParent
  <2>3. ASSUME NEW k \in (p + 1)..(j - 1) PROVE lv[k] >= lv[j]
    <3>1. k \in (p + 1)..(i - 1)
      BY <1>1, <2>2
    <3> QED
      BY <1>3, <1>5, <3>1 DEF IsParent
  <2>4. IsParent(lv, j, p)
    BY <1>3, <1>5, <2>2, <2>3 DEF IsParent
  <2> QED
    BY <1>1, <1>3, <2>4, ParentUnique
<1> QED
  BY <1>2, <1>4, <1>5

Older(e, i) == {j \in ChildrenOf(e, ParentOf(e, i)) : j < i}
YoungerUpTo(e, i, k) == {j \in ChildrenOf(e, ParentOf(e, i)) : j > i /\ j <= k}

LEMMA OlderIs ==
    ASSUME NEW e, NEW lv, NEW n, Describes(e, lv, n), NEW i \in 1..n,
           NEW b, LastUpTo(lv, i - 1, lv[i], b)
    PROVE  LastOf(Older(e, i)) = IF b # 0 /\ lv[b] = lv[i] THEN b ELSE 0
<1>1. /\ n \in Nat /\ DOMAIN e = 1..n /\ \A k \in 1..n : lv[k] \in Nat
      /\ b \in 0..(i - 1)
  BY DEF Describes, Preorder, LastUpTo
<1>2. PICK S : S = Older(e, i)
  OBVIOUS
<1>3. \A s : s \in S <=> s \in 1..n /\ s < i /\ ParentOf(e, s) = ParentOf(e, i)
  BY <1>1, <1>2 DEF Older, ChildrenOf
<1>4. \A s : s \in S <=> /\ s \in 1..n /\ s < i /\ lv[s] = lv[i]
                         /\ \A k \in (s + 1)..(i - 1) : lv[k] >= lv[i]
  BY <1>3, SiblingsAre
<1>5. \A s \in S : s \in 1..n /\ s <= b
  <2> TAKE s \in S
  <2>1. s \in 1..n /\ s < i /\ lv[s] = lv[i] /\ lv[i] \in Nat
    BY <1>1, <1>4
  <2>2. ~(s \in (b + 1)..(i - 1))
    BY <2>1 DEF LastUpTo
  <2> QED
    BY <1>1, <2>1, <2>2
<1>6. S \subseteq 1..n
  BY <1>4
<1>7. CASE b # 0 /\ lv[b] = lv[i]
  <2>1. ASSUME NEW k \in (b + 1)..(i - 1) PROVE lv[k] >= lv[i]
    <3>1. k \in 1..n
      BY <1>1
    <3>2. lv[k] > lv[i] /\ lv[k] \in Nat /\ lv[i] \in Nat
      BY <1>1, <3>1 DEF LastUpTo
    <3> QED
      BY <3>2
  <2>2. b \in S
    BY <1>1, <1>4, <1>7, <2>1
  <2>3. IsLastOf(S, b)
    BY <1>1, <1>5, <2>2 DEF IsLastOf
  <2>4. LastOf(S) = b
    BY <1>1, <1>6, <2>3, LastIs
  <2> QED
    BY <1>2, <1>7, <2>4
<1>8. CASE ~(b # 0 /\ lv[b] = lv[i])
  <2>1. ASSUME NEW s \in S PROVE FALSE
    <3>1. s \in 1..n /\ s <= b /\ lv[s] = lv[i] /\ b # 0 /\ b \in 1..n
      BY <1>1, <1>4, <1>5
    <3>2. lv[b] <= lv[i] /\ lv[b] \in Nat /\ lv[i] \in Nat
      BY <1>1, <3>1 DEF LastUpTo
    <3>3. s # b
      BY <1>8, <3>1
    <3>4. b \in (s + 1)..(i - 1)
      BY <1>1, <3>1, <3>3
    <3>5. lv[b] >= lv[i]
      BY <1>4, <3>4
    <3> QED
      BY <1>8, <3>1, <3>2, <3>5
  <2>2. S = {}
    BY <2>1
  <2>3. LastOf(S) = 0
    BY <2>2 DEF LastOf, None
  <2> QED
    BY <1>2, <1>8, <2>3
<1> QED
  BY <1>7, <1>8

(* One entry more: it is the next sibling of its elder one.                *)
LEMMA NextIs ==
    ASSUME NEW e, NEW lv, NEW n, Describes(e, lv, n), NEW i \in 1..n, NEW j \in 1..n, j < i
    PROVE  FirstOf(YoungerUpTo(e, j, i))
              = IF j = LastOf(Older(e, i)) THEN i ELSE FirstOf(YoungerUpTo(e, j, i - 1))
<1>1. n \in Nat /\ DOMAIN e = 1..n
  BY DEF Describes, Preorder
<1>2. PICK S, T, U : S = Older(e, i) /\ T = YoungerUpTo(e, j, i) /\ U = YoungerUpTo(e, j, i - 1)
  OBVIOUS
<1>3. PICK P : P = [s \in 1..n |-> ParentOf(e, s)]
  OBVIOUS
<1>4. /\ \A s : s \in S <=> s \in 1..n /\ P[s] = P[i] /\ s < i
      /\ \A s : s \in T <=> s \in 1..n /\ P[s] = P[j] /\ s > j /\ s <= i
      /\ \A s : s \in U <=> s \in 1..n /\ P[s] = P[j] /\ s > j /\ s <= i - 1
  BY <1>1, <1>2, <1>3 DEF Older, YoungerUpTo, ChildrenOf
<1>5. S \in SUBSET (1..n) /\ T \in SUBSET (1..n) /\ U \in SUBSET (1..n)
  BY <1>4
<1>6. PICK a \in 0..n : IsLastOf(S, a)
  BY <1>1, <1>5, LastOfExists
<1>7. PICK b \in 0..n : IsFirst(U, b)
  BY <1>1, <1>5, FirstExists
<1>8. LastOf(S) = a /\ FirstOf(U) = b
  BY <1>1, <1>5, <1>6, <1>7, LastIs, FirstIs
<1>9. CASE j = a
  <2>1. S # {} /\ j \in S /\ \A y \in S : j >= y
    BY <1>1, <1>6, <1>9 DEF IsLastOf
  <2>2. P[j] = P[i] /\ i \in T
    BY <1>4, <2>1
  <2>3. \A y \in T : i <= y
    <3> TAKE y \in T
    <3>1. y \in 1..n /\ P[y] = P[i] /\ y > j /\ y <= i
      BY <1>4, <2>2
    <3>2. y < i => y \in S
      BY <1>4, <3>1
    <3> QED
      BY <2>1, <3>1, <3>2
  <2>4. IsFirst(T, i)
    BY <2>2, <2>3 DEF IsFirst
  <2>5. FirstOf(T) = i
    BY <1>1, <1>5, <2>4, FirstIs
  <2> QED
    BY <1>2, <1>8, <1>9, <2>5
<1>10. CASE j # a
  <2>1. IsFirst(T, b)
    <3>1. CASE P[j] # P[i]
      <4>1. i \notin T
        BY <1>4, <3>1
      <4>2. ASSUME NEW s \in T PROVE s \in U
        <5>1. s \in 1..n /\ P[s] = P[j] /\ s > j /\ s <= i /\ s # i
          BY <1>4, <4>1
        <5> QED
          BY <1>4, <5>1
      <4>3. ASSUME NEW s \in U PROVE s \in T
        <5>1. s \in 1..n /\ P[s] = P[j] /\ s > j /\ s <= i - 1
          BY <1>4
        <5> QED
          BY <1>4, <5>1
      <4>4. T = U
        BY <4>2, <4>3
      <4> QED
        BY <1>7, <4>4
    <3>2. CASE P[j] = P[i]
      <4>1. j \in S
        BY <1>4, <3>2
      <4>2. a \in S /\ a >= j /\ a > j
        BY <1>1, <1>6, <1>10, <4>1 DEF IsLastOf
      <4>3. a \in U
        BY <1>1, <1>4, <3>2, <4>2
      <4>4. b \in U /\ \A y \in U : b <= y
        BY <1>7, <4>3 DEF IsFirst
      <4>5. b \in T /\ b <= i
        BY <1>1, <1>4, <4>4
      <4>6. \A y \in T : b <= y
        <5> TAKE y \in T
        <5>1. y \in U \/ y = i
          BY <1>1, <1>4
        <5> QED
          BY <4>4, <4>5, <5>1
      <4> QED
        BY <4>5, <4>6 DEF IsFirst
    <3> QED
      BY <3>1, <3>2
  <2>2. FirstOf(T) = b
    BY <1>1, <1>5, <2>1, FirstIs
  <2> QED
    BY <1>2, <1>8, <1>10, <2>2
<1> QED
  BY <1>9, <1>10

LEMMA Prefix ==
    ASSUME NEW s, IsSeq(s), NEW m \in 0..Len(s)
    PROVE  /\ IsSeq(SubSeq(s, 1, m)) /\ Len(SubSeq(s, 1, m)) = m
           /\ \A i \in 1..m : SubSeq(s, 1, m)[i] = s[i]
<1>1. PICK S : s \in Seq(S)
  BY DEF IsSeq
<1>2. Len(s) \in Nat /\ 1 \in 1..(Len(s) + 1) /\ m \in (1 - 1)..Len(s)
  BY <1>1
<1>3. /\ SubSeq(s, 1, m) \in Seq(S)
      /\ Len(SubSeq(s, 1, m)) = IF 1 <= m THEN m - 1 + 1 ELSE 0
      /\ \A i \in 1..(m - 1 + 1) : SubSeq(s, 1, m)[i] = s[1 + i - 1]
  BY <1>1, <1>2, SubSeqProperties
<1> QED
  BY <1>2, <1>3 DEF IsSeq

(* The links of entry i, but for the next one.                             *)
Linked(e, i, next) ==
    [parent |-> ParentOf(e, i), prev |-> LastOf(Older(e, i)), next |-> next,
     first |-> FirstOf(ChildrenOf(e, i)), last |-> LastOf(ChildrenOf(e, i)),
     count |-> DescendantCount(e, i + 1, e[i].level)]

(* The pass after k entries: what it has open, the last sibling of each    *)
(* level, and the links so far.                                            *)
Turn(e, lv, acc, k) ==
    /\ IsSeq(acc.ancestors) /\ Len(acc.ancestors) = IF k = 0 THEN 0 ELSE lv[k] + 1
    /\ k # 0 => \A l \in 0..lv[k] : LastUpTo(lv, k, l, acc.ancestors[l + 1])
    /\ DOMAIN acc.siblings = IF k = 0 THEN {} ELSE 0..lv[k]
    /\ k # 0 => \A l \in 0..lv[k] : LastUpTo(lv, k, l, acc.siblings[l])
    /\ IsSeq(acc.items) /\ Len(acc.items) = k
    /\ \A j \in 1..k : acc.items[j] = Linked(e, j, FirstOf(YoungerUpTo(e, j, k)))

(* The ancestors an entry keeps open, and its parent among them.           *)
StaysOpen(acc, m) == SubSeq(acc.ancestors, 1, m)

LEMMA AncestorsTurn ==
    ASSUME NEW e, NEW lv, NEW n, Describes(e, lv, n), NEW i \in 1..n,
           NEW acc, Turn(e, lv, acc, i - 1),
           NEW open, open = StaysOpen(acc, lv[i])
    PROVE  /\ IsSeq(open) /\ Len(open) = lv[i]
           /\ \A l \in 0..(lv[i] - 1) : LastUpTo(lv, i - 1, l, open[l + 1])
           /\ open = <<>> => ParentOf(e, i) = None
           /\ open # <<>> => ParentOf(e, i) = Last(open)
<1>1. /\ n \in Nat /\ Preorder(lv, n) /\ \A j \in 1..n : lv[j] \in Nat
      /\ lv[i] <= IF i = 1 THEN 0 ELSE lv[i - 1] + 1
  BY DEF Describes, Preorder
<1>2. PICK h : h = i - 1
  OBVIOUS
<1>3. h \in 0..n /\ (h # 0 => h \in 1..n)
  BY <1>1, <1>2
<1>4. PICK all : all = acc.ancestors
  OBVIOUS
<1>5. /\ IsSeq(all) /\ Len(all) = IF h = 0 THEN 0 ELSE lv[h] + 1
      /\ h # 0 => \A l \in 0..lv[h] : LastUpTo(lv, h, l, all[l + 1])
  BY <1>2, <1>4 DEF Turn
<1>6. PICK m \in Nat : m = lv[i]
  BY <1>1
<1>7. m \in 0..Len(all) /\ (h = 0 => m = 0) /\ (h # 0 => m <= lv[h] + 1 /\ lv[h] \in Nat)
  BY <1>1, <1>2, <1>3, <1>5, <1>6
<1>8. IsSeq(open) /\ Len(open) = m /\ \A j \in 1..m : open[j] = all[j]
  BY <1>4, <1>5, <1>6, <1>7, Prefix DEF StaysOpen
<1>9. ASSUME NEW l \in 0..(m - 1) PROVE LastUpTo(lv, h, l, open[l + 1])
  <2>1. h # 0 /\ l \in 0..lv[h] /\ l + 1 \in 1..m
    BY <1>6, <1>7
  <2>2. open[l + 1] = all[l + 1]
    BY <1>8, <2>1
  <2> QED
    BY <1>5, <2>1, <2>2
<1>10. CASE m = 0
  <2>1. open = <<>>
    BY <1>8, <1>10 DEF IsSeq
  <2>2. IsParent(lv, i, 0)
    BY <1>1, <1>6, <1>10 DEF IsParent
  <2>3. ParentOf(e, i) = 0
    BY <1>1, <2>2, ParentIs, ParentUnique
  <2> QED
    BY <1>2, <1>6, <1>8, <1>9, <2>1, <2>3 DEF None
<1>11. CASE m # 0
  <2>1. open # <<>> /\ Last(open) = open[m]
    <3>1. open # <<>>
      BY <1>8, <1>11
    <3> QED
      BY <1>8, <3>1 DEF Last
  <2>2. PICK a : a = open[m]
    OBVIOUS
  <2>3. PICK l : l = m - 1
    OBVIOUS
  <2>4. l \in 0..(m - 1) /\ l + 1 = m /\ h # 0 /\ h \in 1..n /\ l \in 0..lv[h]
    <3>1. h # 0 /\ h \in 1..n
      BY <1>3, <1>7, <1>11
    <3>2. m <= lv[h] + 1 /\ lv[h] \in Nat
      BY <1>7, <3>1
    <3>3. l \in 0..(m - 1) /\ l + 1 = m
      BY <1>6, <1>11, <2>3
    <3>4. l \in 0..lv[h]
      BY <3>2, <3>3
    <3> QED
      BY <3>1, <3>3, <3>4
  <2>5. LastUpTo(lv, h, l, a)
    BY <1>9, <2>2, <2>4
  <2>6. a \in 0..n
    BY <1>1, <1>3, <2>5 DEF LastUpTo
  <2>7. a # 0 /\ lv[a] = l
    BY <1>1, <2>4, <2>5, <2>6, LastLevel
  <2>8. ASSUME NEW j \in (a + 1)..(i - 1) PROVE lv[j] >= lv[i]
    <3>1. j \in (a + 1)..h /\ j \in 1..n
      BY <1>1, <1>2, <2>6
    <3>2. lv[j] > l /\ lv[j] \in Nat
      BY <1>1, <2>5, <3>1 DEF LastUpTo
    <3> QED
      BY <1>6, <2>3, <3>2
  <2>9. IsParent(lv, i, a)
    BY <1>2, <1>6, <2>3, <2>5, <2>7, <2>8 DEF IsParent, LastUpTo
  <2>10. ParentOf(e, i) = a
    BY <1>1, <2>9, ParentIs, ParentUnique
  <2> QED
    BY <1>2, <1>6, <1>8, <1>9, <2>1, <2>2, <2>10
<1> QED
  BY <1>10, <1>11

(* The last siblings per level, and the one the entry follows.             *)
LEMMA SiblingsTurn ==
    ASSUME NEW e, NEW lv, NEW n, Describes(e, lv, n), NEW i \in 1..n,
           NEW acc, Turn(e, lv, acc, i - 1),
           NEW kept, kept = Resized(acc.siblings, lv[i])
    PROVE  /\ DOMAIN kept = 0..lv[i]
           /\ \A l \in 0..(lv[i] - 1) : LastUpTo(lv, i - 1, l, kept[l])
           /\ LastOf(Older(e, i)) = kept[lv[i]]
<1>1. /\ n \in Nat /\ Preorder(lv, n) /\ \A j \in 1..n : lv[j] \in Nat
      /\ lv[i] <= IF i = 1 THEN 0 ELSE lv[i - 1] + 1
  BY DEF Describes, Preorder
<1>2. PICK h : h = i - 1
  OBVIOUS
<1>3. h \in 0..n /\ (h # 0 => h \in 1..n)
  BY <1>1, <1>2
<1>4. PICK all : all = acc.siblings
  OBVIOUS
<1>5. /\ DOMAIN all = IF h = 0 THEN {} ELSE 0..lv[h]
      /\ h # 0 => \A l \in 0..lv[h] : LastUpTo(lv, h, l, all[l])
  BY <1>2, <1>4 DEF Turn
<1>6. PICK m \in Nat : m = lv[i]
  BY <1>1
<1>7. (h = 0 => m = 0) /\ (h # 0 => m <= lv[h] + 1 /\ lv[h] \in Nat)
  BY <1>1, <1>2, <1>3, <1>6
<1>8. kept = [l \in 0..m |-> IF l \in DOMAIN all THEN all[l] ELSE 0]
  BY <1>4, <1>6 DEF Resized, None
<1>9. ASSUME NEW l \in 0..(m - 1) PROVE LastUpTo(lv, h, l, kept[l])
  <2>1. h # 0 /\ l \in 0..lv[h] /\ l \in 0..m
    BY <1>6, <1>7
  <2>2. kept[l] = all[l]
    BY <1>5, <1>8, <2>1
  <2> QED
    BY <1>5, <2>1, <2>2
<1>10. PICK b \in 0..n : LastUpTo(lv, h, m, b)
  BY <1>1, <1>3, LastExists
<1>11. LastOf(Older(e, i)) = IF b # 0 /\ lv[b] = lv[i] THEN b ELSE 0
  BY <1>2, <1>6, <1>10, OlderIs
<1>12. kept[m] = IF m \in DOMAIN all THEN all[m] ELSE 0
  BY <1>8
<1>13. CASE m \in DOMAIN all
  <2>1. h # 0 /\ m \in 0..lv[h] /\ h \in 1..n
    BY <1>3, <1>5, <1>13
  <2>2. LastUpTo(lv, h, m, all[m])
    BY <1>5, <2>1
  <2>3. all[m] = b
    BY <1>1, <1>3, <1>10, <2>2, LastUnique
  <2>4. b # 0 /\ lv[b] = m
    BY <1>1, <1>10, <2>1, LastLevel
  <2> QED
    BY <1>2, <1>6, <1>8, <1>9, <1>11, <1>12, <1>13, <2>3, <2>4
<1>14. CASE m \notin DOMAIN all
  <2>1. b # 0 => lv[b] # m
    <3> SUFFICES ASSUME b # 0, lv[b] = m PROVE FALSE
      OBVIOUS
    <3>1. h # 0 /\ b \in 1..h /\ \A j \in (b + 1)..h : lv[j] > m
      BY <1>3, <1>10 DEF LastUpTo
    <3>2. lv[h] \in Nat /\ m = lv[h] + 1
      BY <1>5, <1>7, <1>14, <3>1
    <3>3. h # b
      BY <3>2
    <3>4. h \in (b + 1)..h
      BY <1>3, <3>1, <3>3
    <3>5. lv[h] > m
      BY <3>1, <3>4
    <3> QED
      BY <3>2, <3>5
  <2> QED
    BY <1>2, <1>6, <1>8, <1>9, <1>11, <1>12, <1>14, <2>1
<1> QED
  BY <1>13, <1>14

(* One turn of the loop.                                                   *)
LEMMA OpenStep ==
    ASSUME NEW e, NEW lv, NEW n, Describes(e, lv, n), NEW i \in 1..n,
           NEW acc, Turn(e, lv, acc, i - 1),
           NEW to, to = OpenEntry(e, acc, i)
    PROVE  Turn(e, lv, to, i)
<1>1. /\ n \in Nat /\ Preorder(lv, n) /\ DOMAIN e = 1..n
      /\ \A j \in 1..n : lv[j] \in Nat /\ e[j].level = lv[j]
  BY DEF Describes, Preorder
<1>2. PICK open, kept : /\ open = StaysOpen(acc, lv[i])
                        /\ kept = Resized(acc.siblings, lv[i])
  OBVIOUS
<1>3. PICK h, m : h = i - 1 /\ m = lv[i]
  OBVIOUS
<1>4. h \in Nat /\ m \in Nat /\ i # 0 /\ i = h + 1
  BY <1>1, <1>3
<1>5. PICK d : d = DescendantCount(e, i + 1, m)
  OBVIOUS
<1>6. PICK children : children = {j \in (i + 1)..(i + d) : e[j].level = m + 1}
  OBVIOUS
<1>7. PICK item : item = [parent |-> IF open = <<>> THEN None ELSE Last(open),
                          prev   |-> kept[m],
                          next   |-> None,
                          first  |-> IF d = 0 THEN None ELSE i + 1,
                          last   |-> IF d = 0 THEN None ELSE Max(children),
                          count  |-> d]
  OBVIOUS
<1>8. PICK moved : moved = [j \in DOMAIN acc.items |->
                               IF j = kept[m] THEN [acc.items[j] EXCEPT !.next = i]
                               ELSE acc.items[j]]
  OBVIOUS
<1>9. /\ to.ancestors = Append(open, i)
      /\ to.siblings = [kept EXCEPT ![m] = i]
      /\ to.items = Append(moved, item)
  <2>1. e[i].level = m /\ e[i].level = lv[i]
    BY <1>1, <1>3
  <2> QED
    BY <1>2, <1>5, <1>6, <1>7, <1>8, <2>1, Zenon DEF OpenEntry, StaysOpen
<1>10. /\ IsSeq(open) /\ Len(open) = m
       /\ \A l \in 0..(m - 1) : LastUpTo(lv, h, l, open[l + 1])
       /\ ParentOf(e, i) = IF open = <<>> THEN None ELSE Last(open)
  <2>1. /\ IsSeq(open) /\ Len(open) = lv[i]
        /\ \A l \in 0..(lv[i] - 1) : LastUpTo(lv, i - 1, l, open[l + 1])
        /\ open = <<>> => ParentOf(e, i) = None
        /\ open # <<>> => ParentOf(e, i) = Last(open)
    BY <1>2, AncestorsTurn
  <2> QED
    BY <1>3, <2>1
<1>11. /\ DOMAIN kept = 0..m
       /\ \A l \in 0..(m - 1) : LastUpTo(lv, h, l, kept[l])
       /\ LastOf(Older(e, i)) = kept[m]
  <2>1. /\ DOMAIN kept = 0..lv[i]
        /\ \A l \in 0..(lv[i] - 1) : LastUpTo(lv, i - 1, l, kept[l])
        /\ LastOf(Older(e, i)) = kept[lv[i]]
    BY <1>2, SiblingsTurn
  <2> QED
    BY <1>3, <2>1
<1>12. ASSUME NEW l \in 0..(m - 1), NEW a, LastUpTo(lv, h, l, a) PROVE LastUpTo(lv, i, l, a)
  <2>1. a \in 0..i
    BY <1>4, <1>12 DEF LastUpTo
  <2>2. ASSUME NEW j \in (a + 1)..i PROVE lv[j] > l
    <3>1. j \in (a + 1)..h \/ j = i
      BY <1>4, <2>1
    <3> QED
      BY <1>3, <1>4, <1>12, <3>1 DEF LastUpTo
  <2> QED
    BY <1>12, <2>1, <2>2 DEF LastUpTo
<1>13. LastUpTo(lv, i, m, i)
  BY <1>3, <1>4 DEF LastUpTo
<1>14. /\ IsSeq(to.ancestors) /\ Len(to.ancestors) = m + 1
       /\ \A l \in 0..m : LastUpTo(lv, i, l, to.ancestors[l + 1])
  <2>1. /\ IsSeq(to.ancestors) /\ Len(to.ancestors) = m + 1
        /\ \A l \in 1..m : to.ancestors[l] = open[l]
        /\ to.ancestors[m + 1] = i
    BY <1>9, <1>10, Longer
  <2>2. ASSUME NEW l \in 0..m PROVE LastUpTo(lv, i, l, to.ancestors[l + 1])
    <3>1. CASE l = m
      BY <1>13, <2>1, <3>1
    <3>2. CASE l # m
      <4>1. l \in 0..(m - 1) /\ l + 1 \in 1..m
        BY <1>4, <3>2
      <4> QED
        BY <1>10, <1>12, <2>1, <4>1
    <3> QED
      BY <3>1, <3>2
  <2> QED
    BY <2>1, <2>2
<1>15. /\ DOMAIN to.siblings = 0..m
       /\ \A l \in 0..m : LastUpTo(lv, i, l, to.siblings[l])
  <2>1. ASSUME NEW l \in 0..m PROVE LastUpTo(lv, i, l, to.siblings[l])
    <3>1. CASE l = m
      BY <1>9, <1>11, <1>13, <3>1
    <3>2. CASE l # m
      <4>1. l \in 0..(m - 1)
        BY <1>4, <3>2
      <4>2. to.siblings[l] = kept[l]
        BY <1>9, <1>11, <3>2
      <4> QED
        BY <1>11, <1>12, <4>1, <4>2
    <3> QED
      BY <3>1, <3>2
  <2> QED
    BY <1>9, <1>11, <2>1
<1>16. item = Linked(e, i, FirstOf(YoungerUpTo(e, i, i)))
  <2>1. YoungerUpTo(e, i, i) = {}
    BY <1>1 DEF YoungerUpTo, ChildrenOf
  <2>2. FirstOf(YoungerUpTo(e, i, i)) = None
    BY <2>1 DEF FirstOf
  <2>3. IsBelow(lv, n, i, d)
    BY <1>3, <1>5, BelowIs
  <2>4. d \in Nat /\ i + d <= n
    BY <1>1, <2>3 DEF IsBelow
  <2>5. ChildrenOf(e, i) = children
    <3>1. ChildrenOf(e, i) = {j \in (i + 1)..(i + d) : lv[j] = lv[i] + 1}
      BY <2>3, ChildrenAre
    <3>2. \A j \in (i + 1)..(i + d) : e[j].level = lv[j]
      BY <1>1, <2>4
    <3> QED
      BY <1>3, <1>6, <3>1, <3>2
  <2>6. d = 0 => children = {}
    BY <1>1, <1>6
  <2>7. d # 0 => i + 1 \in children
    <3> SUFFICES ASSUME d # 0 PROVE i + 1 \in children
      OBVIOUS
    <3>1. PICK x : x = i + 1
      OBVIOUS
    <3>2. x \in (i + 1)..(i + d) /\ x \in 1..n /\ x # 1 /\ x - 1 = i
      BY <1>1, <2>4, <3>1
    <3>3. lv[x] > lv[i] /\ lv[x] <= lv[i] + 1 /\ lv[x] \in Nat /\ lv[i] \in Nat
      BY <1>1, <2>3, <3>2 DEF IsBelow, Preorder
    <3>4. lv[x] = m + 1
      BY <1>3, <3>3
    <3> QED
      BY <1>1, <1>6, <3>1, <3>2, <3>4
  <2>8. children \subseteq 1..n /\ \A y \in children : i + 1 <= y
    BY <1>1, <1>6, <2>4
  <2>9. FirstOf(children) = IF d = 0 THEN None ELSE i + 1
    <3>1. CASE d = 0
      BY <2>6, <3>1 DEF FirstOf
    <3>2. CASE d # 0
      <4>1. IsFirst(children, i + 1)
        BY <2>7, <2>8, <3>2 DEF IsFirst
      <4> QED
        BY <1>1, <2>8, <3>2, <4>1, FirstIs
    <3> QED
      BY <3>1, <3>2
  <2>10. LastOf(children) = IF d = 0 THEN None ELSE Max(children)
    BY <2>6, <2>7 DEF LastOf
  <2>11. e[i].level = m
    BY <1>1, <1>3
  <2> QED
    BY <1>5, <1>7, <1>10, <1>11, <2>2, <2>5, <2>9, <2>10, <2>11, Zenon DEF Linked
<1>17. /\ IsSeq(moved) /\ Len(moved) = h
       /\ \A j \in 1..h : moved[j] = Linked(e, j, FirstOf(YoungerUpTo(e, j, i)))
  <2>1. PICK items : items = acc.items
    OBVIOUS
  <2>2. /\ IsSeq(items) /\ Len(items) = h
        /\ \A j \in 1..h : items[j] = Linked(e, j, FirstOf(YoungerUpTo(e, j, h)))
    BY <1>3, <2>1 DEF Turn
  <2>3. DOMAIN items = 1..h
    BY <2>2, SeqFacts
  <2>4. moved = [j \in 1..h |-> IF j = kept[m] THEN [items[j] EXCEPT !.next = i] ELSE items[j]]
    BY <1>8, <2>1, <2>3
  <2>5. DOMAIN moved = 1..h /\ moved = [j \in 1..h |-> moved[j]]
    BY <2>4
  <2>6. IsSeq(moved) /\ Len(moved) = h
    BY <1>4, <2>5, SeqMade
  <2>7. ASSUME NEW j \in 1..h PROVE moved[j] = Linked(e, j, FirstOf(YoungerUpTo(e, j, i)))
    <3>1. PICK old, new : /\ old = FirstOf(YoungerUpTo(e, j, h))
                          /\ new = FirstOf(YoungerUpTo(e, j, i))
      OBVIOUS
    <3>2. j \in 1..n /\ j < i
      BY <1>1, <1>4
    <3>3. new = IF j = kept[m] THEN i ELSE old
      BY <1>3, <1>11, <3>1, <3>2, NextIs
    <3>4. items[j] = Linked(e, j, old)
      BY <2>2, <3>1
    <3>5. moved[j] = IF j = kept[m] THEN [items[j] EXCEPT !.next = i] ELSE items[j]
      BY <2>4
    <3>6. [Linked(e, j, old) EXCEPT !.next = i] = Linked(e, j, i)
      BY DEF Linked
    <3> QED
      BY <3>1, <3>3, <3>4, <3>5, <3>6
  <2> QED
    BY <2>6, <2>7
<1>18. /\ IsSeq(to.items) /\ Len(to.items) = i
       /\ \A j \in 1..i : to.items[j] = Linked(e, j, FirstOf(YoungerUpTo(e, j, i)))
  <2>1. /\ IsSeq(to.items) /\ Len(to.items) = h + 1
        /\ \A j \in 1..h : to.items[j] = moved[j]
        /\ to.items[h + 1] = item
    BY <1>9, <1>17, Longer
  <2>2. \A j \in 1..i : j \in 1..h \/ j = i
    BY <1>4
  <2> QED
    BY <1>4, <1>16, <1>17, <2>1, <2>2
<1> QED
  BY <1>3, <1>4, <1>14, <1>15, <1>18 DEF Turn

LEMMA MaxTop ==
    ASSUME NEW m \in Nat, NEW s, s \subseteq 1..m, m \in s
    PROVE  Max(s) = m
<1>1. \A y \in s : m >= y
  OBVIOUS
<1>2. s \subseteq Int
  OBVIOUS
<1> QED
  BY <1>1, <1>2, MaxIs

(* The pass over the list, as a fold over its indices.                     *)
NothingOpen == [ancestors |-> <<>>, siblings |-> <<>>, items |-> <<>>]

IsPass(f, e, seq, base, S) ==
    f = [s \in SUBSET S |->
            IF s = {} THEN base ELSE OpenEntry(e, f[s \ {Max(s)}], seq[Max(s)])]

LEMMA ItemsIs ==
    ASSUME NEW e, NEW seq, seq = [i \in DOMAIN e |-> i]
    PROVE  Items(e) = (CHOOSE f : IsPass(f, e, seq, NothingOpen, DOMAIN seq))[DOMAIN seq].items
  BY Zenon DEF Items, FoldLeftDomain, FoldLeft, MapThenFoldSet, IsPass, NothingOpen

LEMMA PassExists ==
    ASSUME NEW e, NEW seq, NEW base, \A i \in Nat : i \in DOMAIN seq => seq[i] = i
    PROVE  \A n \in Nat : 1..n \subseteq DOMAIN seq => \E f : IsPass(f, e, seq, base, 1..n)
<1>1. PICK T : T = {n \in Nat : 1..n \subseteq DOMAIN seq => \E f : IsPass(f, e, seq, base, 1..n)}
  OBVIOUS
<1>2. 0 \in T
  <2>0. PICK D : D = 1..0
    OBVIOUS
  <2>1. D = 1..0 /\ D = {}
    BY <2>0
  <2>2. PICK f : f = [s \in SUBSET D |-> base]
    OBVIOUS
  <2>3. \A s \in SUBSET D : s = {}
    BY <2>1
  <2>4. IsPass(f, e, seq, base, D)
    BY <2>2, <2>3 DEF IsPass
  <2> QED
    BY <1>1, <2>1, <2>4
<1>3. ASSUME NEW n \in Nat, n \in T PROVE n + 1 \in T
  <2> SUFFICES ASSUME 1..(n + 1) \subseteq DOMAIN seq
               PROVE  \E f : IsPass(f, e, seq, base, 1..(n + 1))
    BY <1>1
  <2>1. PICK f : IsPass(f, e, seq, base, 1..n)
    BY <1>1, <1>3
  <2>2. PICK m, D : m = n + 1 /\ D = 1..m /\ m \in Nat
    OBVIOUS
  <2>3. PICK g : g = [s \in SUBSET D |-> IF m \in s THEN OpenEntry(e, f[s \ {m}], seq[m])
                                         ELSE f[s]]
    OBVIOUS
  <2>4. \A s \in SUBSET D : /\ s \ {m} \in SUBSET (1..n)
                            /\ m \notin s => s \in SUBSET (1..n)
    BY <2>2
  <2>5. ASSUME NEW s \in SUBSET D
        PROVE  g[s] = IF s = {} THEN base ELSE OpenEntry(e, g[s \ {Max(s)}], seq[Max(s)])
    <3>1. CASE m \in s
      <4>1. Max(s) = m
        BY <2>2, <3>1, MaxTop
      <4>2. PICK r : r = s \ {m}
        OBVIOUS
      <4>3. r \in SUBSET D /\ m \notin r
        BY <4>2
      <4>4. g[r] = f[r]
        BY <2>3, <4>3
      <4>5. g[s] = OpenEntry(e, f[r], seq[m])
        BY <2>3, <3>1, <4>2
      <4> QED
        BY <3>1, <4>1, <4>2, <4>4, <4>5
    <3>2. CASE m \notin s
      <4>1. g[s] = f[s] /\ s \in SUBSET (1..n)
        BY <2>3, <2>4, <3>2
      <4>2. f[s] = IF s = {} THEN base ELSE OpenEntry(e, f[s \ {Max(s)}], seq[Max(s)])
        BY <2>1, <4>1 DEF IsPass
      <4>3. PICK r : r = s \ {Max(s)}
        OBVIOUS
      <4>4. r \in SUBSET D /\ m \notin r
        BY <3>2, <4>3
      <4>5. g[r] = f[r]
        BY <2>3, <4>4
      <4> QED
        BY <4>1, <4>2, <4>3, <4>5
    <3> QED
      BY <3>1, <3>2
  <2>6. g = [s \in SUBSET D |-> g[s]]
    BY <2>3
  <2>7. IsPass(g, e, seq, base, D)
    BY <2>5, <2>6 DEF IsPass
  <2> QED
    BY <2>2, <2>7
<1>4. \A n \in Nat : n \in T
  BY <1>2, <1>3, SetInduction
<1> QED
  BY <1>1, <1>4

(* Every entry has the links of the tree.                                  *)
LEMMA ItemsAre ==
    ASSUME NEW e, NEW lv, NEW n, Describes(e, lv, n)
    PROVE  /\ IsSeq(Items(e)) /\ Len(Items(e)) = n
           /\ \A j \in 1..n : Items(e)[j] = Linked(e, j, FirstOf(YoungerUpTo(e, j, n)))
<1>1. n \in Nat /\ DOMAIN e = 1..n
  BY DEF Describes, Preorder
<1>2. PICK seq : seq = [i \in DOMAIN e |-> i]
  OBVIOUS
<1>3. DOMAIN seq = 1..n /\ \A i \in 1..n : seq[i] = i
  BY <1>1, <1>2
<1>4. PICK f : f = CHOOSE g : IsPass(g, e, seq, NothingOpen, 1..n)
  OBVIOUS
<1>5. IsPass(f, e, seq, NothingOpen, 1..n)
  <2>1. \A i \in Nat : i \in DOMAIN seq => seq[i] = i
    BY <1>3
  <2>2. \E g : IsPass(g, e, seq, NothingOpen, 1..n)
    BY <1>1, <1>3, <2>1, PassExists
  <2> QED
    BY <1>4, <2>2
<1>6. Items(e) = f[1..n].items
  <2>1. Items(e) = (CHOOSE g : IsPass(g, e, seq, NothingOpen, DOMAIN seq))[DOMAIN seq].items
    BY <1>2, ItemsIs
  <2> QED
    BY <1>3, <1>4, <2>1
<1>7. PICK T : T = {k \in Nat : k <= n => Turn(e, lv, f[1..k], k)}
  OBVIOUS
<1>8. 0 \in T
  <2>0. PICK s : s = 1..0
    OBVIOUS
  <2>1. s = 1..0 /\ s = {} /\ s \in SUBSET (1..n)
    BY <2>0
  <2>2. f[s] = NothingOpen
    BY <1>5, <2>1 DEF IsPass
  <2>3. PICK acc : acc = f[s]
    OBVIOUS
  <2>4. acc.ancestors = <<>> /\ acc.siblings = <<>> /\ acc.items = <<>>
    BY <2>2, <2>3 DEF NothingOpen
  <2>5. IsSeq(<<>>) /\ Len(<<>>) = 0 /\ DOMAIN <<>> = {}
    BY DEF IsSeq
  <2>6. Turn(e, lv, acc, 0)
    BY <2>4, <2>5 DEF Turn
  <2> QED
    BY <1>7, <2>1, <2>3, <2>6
<1>9. ASSUME NEW h \in Nat, h \in T PROVE h + 1 \in T
  <2> SUFFICES ASSUME h + 1 <= n PROVE Turn(e, lv, f[1..(h + 1)], h + 1)
    BY <1>7
  <2>1. PICK i : i = h + 1
    OBVIOUS
  <2>2. i \in 1..n /\ i - 1 = h /\ i \in Nat
    BY <1>1, <2>1
  <2>3. PICK s, r : s = 1..i /\ r = 1..h
    OBVIOUS
  <2>4. s \in SUBSET (1..n) /\ s # {} /\ i \in s /\ s \ {i} = r
    <3>1. s \in SUBSET (1..n) /\ i \in s
      BY <1>1, <2>2, <2>3
    <3>2. (1..i) \ {i} = 1..h
      BY <2>1, <2>2
    <3> QED
      BY <2>3, <3>1, <3>2
  <2>5. Max(s) = i
    BY <2>2, <2>3, <2>4, MaxTop
  <2>6. f[s] = OpenEntry(e, f[r], seq[i])
    BY <1>5, <2>4, <2>5 DEF IsPass
  <2>7. f[s] = OpenEntry(e, f[r], i)
    BY <1>3, <2>2, <2>6
  <2>8. Turn(e, lv, f[r], i - 1)
    BY <1>1, <1>7, <1>9, <2>2, <2>3
  <2>9. PICK acc, to : acc = f[r] /\ to = f[s]
    OBVIOUS
  <2>10. Turn(e, lv, to, i)
    BY <2>2, <2>7, <2>8, <2>9, OpenStep
  <2> QED
    BY <2>1, <2>3, <2>9, <2>10
<1>10. \A k \in Nat : k \in T
  BY <1>8, <1>9, SetInduction
<1>11. Turn(e, lv, f[1..n], n)
  BY <1>1, <1>7, <1>10
<1> QED
  BY <1>6, <1>11 DEF Turn

-----------------------------------------------------------------------------
(* An entry counts what its children count.                                *)

(* The entries covered by some of them, with all that lies below.          *)
IsCount(f, items, S) ==
    f = [s \in SUBSET S |-> IF s = {} THEN 0
                            ELSE (1 + items[CHOOSE x \in s : TRUE].count)
                                    + f[s \ {CHOOSE x \in s : TRUE}]]

VisibleIn(items, S) ==
    LET Visible(c) == 1 + items[c].count IN MapThenSumSet(Visible, S)

LEMMA VisibleIs ==
    ASSUME NEW items, NEW S
    PROVE  VisibleIn(items, S) = (CHOOSE f : IsCount(f, items, S))[S]
  BY Zenon DEF VisibleIn, MapThenSumSet, MapThenFoldSet, IsCount

LEMMA LinksTreeIs ==
    ASSUME NEW e, NEW items, DOMAIN items = DOMAIN e,
           \A i \in DOMAIN e :
              /\ items[i].parent = ParentOf(e, i)
              /\ items[i].prev = LastOf({j \in ChildrenOf(e, ParentOf(e, i)) : j < i})
              /\ items[i].next = FirstOf({j \in ChildrenOf(e, ParentOf(e, i)) : j > i})
              /\ items[i].first = FirstOf(ChildrenOf(e, i))
              /\ items[i].last = LastOf(ChildrenOf(e, i))
              /\ items[i].count = VisibleIn(items, ChildrenOf(e, i))
    PROVE  LinksTree(e, items)
  BY Zenon DEF LinksTree, VisibleIn, MapThenSumSet, MapThenFoldSet

(* Some entries and all that lies below them.                              *)
Cover(items, S) == UNION {c..(c + items[c].count) : c \in S}

(* Entries none of which lies below another.                               *)
Apart(items, S, n) ==
    /\ S \subseteq 1..n
    /\ \A c \in S : items[c].count \in Nat /\ c + items[c].count <= n
    /\ \A a, b \in S : a < b => a + items[a].count < b

LEMMA CoverFinite ==
    ASSUME NEW n \in Nat, NEW items, NEW S, Apart(items, S, n)
    PROVE  /\ IsFiniteSet(S)
           /\ IsFiniteSet(Cover(items, S)) /\ Cardinality(Cover(items, S)) \in Nat
<1>1. IsFiniteSet(1..n)
  BY FS_Interval
<1>2. S \in SUBSET (1..n)
  BY DEF Apart
<1>3. Cover(items, S) \in SUBSET (1..n)
  <2>1. ASSUME NEW c \in S, NEW x \in c..(c + items[c].count) PROVE x \in 1..n
    <3>1. PICK d : d = items[c].count
      OBVIOUS
    <3>2. c \in 1..n /\ d \in Nat /\ c + d <= n
      BY <3>1 DEF Apart
    <3> QED
      BY <3>1, <3>2
  <2> QED
    BY <2>1 DEF Cover
<1> QED
  BY <1>1, <1>2, <1>3, FS_Subset, FS_CardinalityType

LEMMA CoverStep ==
    ASSUME NEW n \in Nat, NEW items, NEW S, Apart(items, S, n), NEW x \in S
    PROVE  Cardinality(Cover(items, S))
              = (1 + items[x].count) + Cardinality(Cover(items, S \ {x}))
<1>1. PICK R, A, B, d : /\ R = S \ {x} /\ A = Cover(items, R)
                        /\ d = items[x].count /\ B = x..(x + d)
  OBVIOUS
<1>2. Apart(items, R, n)
  BY <1>1 DEF Apart
<1>3. IsFiniteSet(A) /\ Cardinality(A) \in Nat
  BY <1>1, <1>2, CoverFinite
<1>4. x \in Nat /\ d \in Nat
  BY <1>1 DEF Apart
<1>5. IsFiniteSet(B) /\ Cardinality(B) = d + 1
  <2>1. PICK y : y = x + d
    OBVIOUS
  <2>2. x \in Int /\ y \in Int /\ ~(x > y) /\ y - x + 1 = d + 1
    BY <1>4, <2>1
  <2>3. IsFiniteSet(x..y) /\ Cardinality(x..y) = IF x > y THEN 0 ELSE y - x + 1
    BY <2>2, FS_Interval
  <2>4. B = x..y
    BY <1>1, <2>1
  <2> QED
    BY <2>2, <2>3, <2>4
<1>6. A \cap B = {}
  <2> SUFFICES ASSUME NEW y \in A, y \in B PROVE FALSE
    OBVIOUS
  <2>1. PICK c \in R : y \in c..(c + items[c].count)
    BY <1>1 DEF Cover
  <2>2. c \in S /\ c # x /\ c \in Nat /\ items[c].count \in Nat
    BY <1>1 DEF Apart
  <2>3. c < x => c + items[c].count < x
    BY <2>2 DEF Apart
  <2>4. x < c => x + d < c
    BY <1>1, <2>2 DEF Apart
  <2>5. y \in Int /\ y >= c /\ y <= c + items[c].count /\ y >= x /\ y <= x + d
    BY <1>1, <1>4, <2>1, <2>2
  <2> QED
    BY <1>4, <2>2, <2>3, <2>4, <2>5
<1>7. Cover(items, S) = A \cup B
  <2>1. \A y : y \in Cover(items, S) <=> \E c \in S : y \in c..(c + items[c].count)
    BY DEF Cover
  <2>2. \A y : y \in A <=> \E c \in R : y \in c..(c + items[c].count)
    BY <1>1 DEF Cover
  <2>3. \A c : c \in S <=> c \in R \/ c = x
    BY <1>1
  <2>4. \A y : y \in Cover(items, S) <=> y \in A \/ y \in B
    BY <1>1, <2>1, <2>2, <2>3
  <2> QED
    BY <2>4
<1>8. Cardinality(A \cup B) = Cardinality(A) + Cardinality(B) - Cardinality(A \cap B)
  BY <1>3, <1>5, FS_Union
<1>9. Cardinality(A \cap B) = 0
  BY <1>6, FS_EmptySet
<1>10. PICK k \in Nat : k = Cardinality(A)
  BY <1>3
<1>11. Cardinality(Cover(items, S)) = k + (d + 1) - 0
  BY <1>5, <1>7, <1>8, <1>9, <1>10
<1> QED
  BY <1>1, <1>4, <1>10, <1>11

LEMMA CoverCounts ==
    ASSUME NEW n \in Nat, NEW items, NEW S, Apart(items, S, n)
    PROVE  VisibleIn(items, S) = Cardinality(Cover(items, S))
<1>1. \A s \in SUBSET S : Apart(items, s, n)
  BY DEF Apart
<1>2. IsFiniteSet(S) /\ \A s \in SUBSET S : IsFiniteSet(s) /\ Cardinality(s) \in Nat
  BY CoverFinite, FS_Subset, FS_CardinalityType
<1>3. Cardinality(Cover(items, {})) = 0
  <2>1. Cover(items, {}) = {}
    BY DEF Cover
  <2> QED
    BY <2>1, FS_EmptySet
<1>4. PICK w : w = [s \in SUBSET S |-> Cardinality(Cover(items, s))]
  OBVIOUS
<1>5. ASSUME NEW s \in SUBSET S, s # {}, NEW x \in s
      PROVE  w[s] = (1 + items[x].count) + w[s \ {x}]
  <2>1. Apart(items, s, n)
    BY <1>1
  <2>2. Cardinality(Cover(items, s)) = (1 + items[x].count) + Cardinality(Cover(items, s \ {x}))
    BY <2>1, CoverStep
  <2>3. PICK r : r = s \ {x}
    OBVIOUS
  <2>4. r \in SUBSET S
    BY <2>3
  <2> QED
    BY <1>4, <2>2, <2>3, <2>4
<1>6. IsCount(w, items, S)
  <2>1. ASSUME NEW s \in SUBSET S
        PROVE  w[s] = IF s = {} THEN 0
                      ELSE (1 + items[CHOOSE x \in s : TRUE].count)
                              + w[s \ {CHOOSE x \in s : TRUE}]
    <3>1. CASE s = {}
      BY <1>3, <1>4, <3>1
    <3>2. CASE s # {}
      <4>1. PICK x : x = CHOOSE y \in s : TRUE
        OBVIOUS
      <4>2. x \in s
        BY <3>2, <4>1
      <4>3. w[s] = (1 + items[x].count) + w[s \ {x}]
        BY <1>5, <3>2, <4>2
      <4> QED
        BY <3>2, <4>1, <4>3
    <3> QED
      BY <3>1, <3>2
  <2>2. w = [s \in SUBSET S |-> w[s]]
    BY <1>4
  <2> QED
    BY <2>1, <2>2 DEF IsCount
<1>7. PICK f : f = CHOOSE g : IsCount(g, items, S)
  OBVIOUS
<1>8. IsCount(f, items, S)
  BY <1>6, <1>7
<1>9. PICK T : T = {k \in Nat : \A s \in SUBSET S : Cardinality(s) = k => f[s] = w[s]}
  OBVIOUS
<1>10. 0 \in T
  <2>1. ASSUME NEW s \in SUBSET S, Cardinality(s) = 0 PROVE f[s] = w[s]
    <3>1. s = {}
      BY <1>2, <2>1, FS_EmptySet
    <3>2. f[s] = 0
      BY <1>8, <3>1 DEF IsCount
    <3>3. w[s] = 0
      BY <1>3, <1>4, <3>1
    <3> QED
      BY <3>2, <3>3
  <2> QED
    BY <1>9, <2>1
<1>11. ASSUME NEW k \in Nat, k \in T PROVE k + 1 \in T
  <2> SUFFICES ASSUME NEW s \in SUBSET S, Cardinality(s) = k + 1 PROVE f[s] = w[s]
    BY <1>9
  <2>1. s # {}
    BY FS_EmptySet
  <2>2. PICK x : x = CHOOSE y \in s : TRUE
    OBVIOUS
  <2>3. x \in s
    BY <2>1, <2>2
  <2>4. f[s] = (1 + items[x].count) + f[s \ {x}]
    BY <1>8, <2>1, <2>2 DEF IsCount
  <2>5. w[s] = (1 + items[x].count) + w[s \ {x}]
    BY <1>5, <2>1, <2>3
  <2>6. PICK r : r = s \ {x}
    OBVIOUS
  <2>7. r \in SUBSET S /\ Cardinality(r) = k
    <3>1. Cardinality(s \ {x}) = Cardinality(s) - 1
      BY <1>2, <2>3, FS_RemoveElement
    <3> QED
      BY <2>6, <3>1
  <2>8. f[r] = w[r]
    BY <1>9, <1>11, <2>7
  <2> QED
    BY <2>4, <2>5, <2>6, <2>8
<1>12. \A k \in Nat : k \in T
  BY <1>10, <1>11, SetInduction
<1>13. f[S] = w[S]
  BY <1>2, <1>9, <1>12
<1>14. VisibleIn(items, S) = f[S]
  BY <1>7, VisibleIs
<1>15. w[S] = Cardinality(Cover(items, S))
  BY <1>4
<1> QED
  BY <1>13, <1>14, <1>15

(* What lies below an entry is its children and what lies below them.      *)
LEMMA CountsAdd ==
    ASSUME NEW e, NEW lv, NEW n, Describes(e, lv, n), NEW items,
           \A j \in 1..n : items[j].count = DescendantCount(e, j + 1, lv[j]),
           NEW i \in 1..n
    PROVE  items[i].count = VisibleIn(items, ChildrenOf(e, i))
<1>1. /\ n \in Nat /\ Preorder(lv, n) /\ \A j \in 1..n : lv[j] \in Nat
  BY DEF Describes, Preorder
<1>2. \A j \in 1..n : IsBelow(lv, n, j, items[j].count)
  BY BelowIs
<1>3. PICK S, d : S = ChildrenOf(e, i) /\ d = items[i].count
  OBVIOUS
<1>4. IsBelow(lv, n, i, d) /\ d \in Nat /\ i + d <= n
  BY <1>1, <1>2, <1>3 DEF IsBelow
<1>5. S = {j \in (i + 1)..(i + d) : lv[j] = lv[i] + 1}
  BY <1>3, <1>4, ChildrenAre
<1>6. \A c \in S : c \in 1..n /\ c > i /\ c <= i + d /\ lv[c] = lv[i] + 1
  BY <1>1, <1>4, <1>5
<1>7. ASSUME NEW c \in S PROVE items[c].count \in Nat /\ c + items[c].count <= i + d
  <2>1. PICK k : k = items[c].count
    OBVIOUS
  <2>2. IsBelow(lv, n, c, k) /\ k \in Nat /\ c + k <= n
    BY <1>1, <1>2, <1>6, <2>1 DEF IsBelow
  <2>3. ~(c + k > i + d)
    <3> SUFFICES ASSUME c + k > i + d PROVE FALSE
      OBVIOUS
    <3>1. PICK x : x = i + d + 1
      OBVIOUS
    <3>2. x \in (c + 1)..(c + k) /\ x \in 1..n /\ i + d < n
      BY <1>1, <1>4, <1>6, <2>2, <3>1
    <3>3. lv[x] > lv[c] /\ lv[x] <= lv[i] /\ lv[x] \in Nat /\ lv[i] \in Nat
      BY <1>1, <1>4, <2>2, <3>1, <3>2 DEF IsBelow
    <3> QED
      BY <1>6, <3>3
  <2> QED
    BY <1>1, <1>4, <1>6, <2>1, <2>2, <2>3
<1>8. ASSUME NEW a \in S, NEW b \in S, a < b PROVE a + items[a].count < b
  <2>1. PICK k : k = items[a].count
    OBVIOUS
  <2>2. IsBelow(lv, n, a, k) /\ k \in Nat
    BY <1>2, <1>6, <1>7, <2>1
  <2>3. ~(b <= a + k)
    <3> SUFFICES ASSUME b <= a + k PROVE FALSE
      OBVIOUS
    <3>1. b \in (a + 1)..(a + k)
      BY <1>6, <1>8, <2>2
    <3>2. lv[b] > lv[a] /\ lv[b] = lv[a] /\ lv[a] \in Nat
      BY <1>1, <1>6, <2>2, <3>1 DEF IsBelow
    <3> QED
      BY <3>2
  <2> QED
    BY <1>6, <2>1, <2>2, <2>3
<1>9. Apart(items, S, n)
  BY <1>1, <1>4, <1>6, <1>7, <1>8 DEF Apart
<1>10. Cover(items, S) = (i + 1)..(i + d)
  <2>1. ASSUME NEW c \in S, NEW x \in c..(c + items[c].count) PROVE x \in (i + 1)..(i + d)
    BY <1>1, <1>4, <1>6, <1>7
  <2>2. ASSUME NEW x \in (i + 1)..(i + d) PROVE \E c \in S : x \in c..(c + items[c].count)
    <3>1. PICK l \in Nat : l = lv[i] + 1
      BY <1>1
    <3>2. x \in 1..n /\ x \in 0..n /\ x > i /\ lv[x] \in Nat
      BY <1>1, <1>4
    <3>3. l \in 0..lv[x]
      <4>1. lv[x] > lv[i] /\ lv[i] \in Nat
        BY <1>1, <1>4 DEF IsBelow
      <4> QED
        BY <3>1, <3>2, <4>1
    <3>4. PICK c \in 0..n : LastUpTo(lv, x, l, c)
      BY <1>1, <3>2, LastExists
    <3>5. c # 0 /\ lv[c] = l
      BY <1>1, <3>2, <3>3, <3>4, LastLevel
    <3>6. c > i /\ c <= x
      <4>1. ~(i \in (c + 1)..x)
        <5>1. ~(lv[i] > l)
          BY <1>1, <3>1
        <5> QED
          BY <3>4, <5>1 DEF LastUpTo
      <4>2. c # i
        BY <1>1, <3>1, <3>5
      <4>3. c <= x
        BY <3>4 DEF LastUpTo
      <4> QED
        BY <3>2, <4>1, <4>2, <4>3
    <3>7. c \in S
      BY <1>1, <1>4, <1>5, <3>1, <3>2, <3>5, <3>6
    <3>8. PICK k : k = items[c].count
      OBVIOUS
    <3>9. IsBelow(lv, n, c, k) /\ k \in Nat /\ c + k <= n
      <4>1. c \in 1..n /\ k \in Nat /\ c + k <= i + d
        BY <1>6, <1>7, <3>7, <3>8
      <4>2. IsBelow(lv, n, c, k)
        BY <1>2, <3>8, <4>1
      <4> QED
        BY <1>1, <1>4, <4>1, <4>2
    <3>10. ~(x > c + k)
      <4> SUFFICES ASSUME x > c + k PROVE FALSE
        OBVIOUS
      <4>1. PICK y : y = c + k + 1
        OBVIOUS
      <4>2. y \in (c + 1)..x /\ y \in 1..n /\ c + k < n
        BY <1>1, <3>2, <3>6, <3>9, <4>1
      <4>3. lv[y] > l
        BY <3>4, <4>2 DEF LastUpTo
      <4>4. lv[y] <= lv[c] /\ lv[y] \in Nat
        BY <1>1, <3>9, <4>1, <4>2 DEF IsBelow
      <4> QED
        BY <3>5, <4>3, <4>4
    <3>11. x \in c..(c + k)
      BY <3>2, <3>6, <3>9, <3>10
    <3> QED
      BY <3>7, <3>8, <3>11
  <2>3. \A x : x \in Cover(items, S) <=> \E c \in S : x \in c..(c + items[c].count)
    BY DEF Cover
  <2> QED
    BY <2>1, <2>2, <2>3
<1>11. Cardinality((i + 1)..(i + d)) = d
  <2>1. PICK a \in Int, b \in Int : a = i + 1 /\ b = i + d
    BY <1>1, <1>4
  <2>2. Cardinality(a..b) = IF a > b THEN 0 ELSE b - a + 1
    BY FS_Interval
  <2>3. (a > b => d = 0) /\ (~(a > b) => b - a + 1 = d)
    BY <1>1, <1>4, <2>1
  <2> QED
    BY <2>1, <2>2, <2>3
<1>12. VisibleIn(items, S) = Cardinality(Cover(items, S))
  BY <1>1, <1>9, CoverCounts
<1> QED
  BY <1>3, <1>10, <1>11, <1>12

(* The pass over a preorder list that skips no level yields the links of   *)
(* the tree the list describes (build_outline_objects(), outline.rs).      *)
THEOREM ItemsFormTree ==
    ASSUME NEW e, NEW lv, NEW n, Describes(e, lv, n)
    PROVE  LinksTree(e, Items(e))
<1>1. n \in Nat /\ DOMAIN e = 1..n /\ \A j \in 1..n : e[j].level = lv[j]
  BY DEF Describes, Preorder
<1>2. PICK items : items = Items(e)
  OBVIOUS
<1>3. /\ IsSeq(items) /\ Len(items) = n
      /\ \A j \in 1..n : items[j] = Linked(e, j, FirstOf(YoungerUpTo(e, j, n)))
  BY <1>2, ItemsAre
<1>4. DOMAIN items = 1..n
  BY <1>3, SeqFacts
<1>5. ASSUME NEW j \in 1..n
      PROVE  /\ items[j].parent = ParentOf(e, j)
             /\ items[j].prev = LastOf(Older(e, j))
             /\ items[j].next = FirstOf(YoungerUpTo(e, j, n))
             /\ items[j].first = FirstOf(ChildrenOf(e, j))
             /\ items[j].last = LastOf(ChildrenOf(e, j))
             /\ items[j].count = DescendantCount(e, j + 1, lv[j])
  <2>1. items[j] = Linked(e, j, FirstOf(YoungerUpTo(e, j, n)))
    BY <1>3
  <2> QED
    BY <1>1, <2>1 DEF Linked
<1>6. ASSUME NEW i \in DOMAIN e
      PROVE  /\ items[i].parent = ParentOf(e, i)
             /\ items[i].prev = LastOf({j \in ChildrenOf(e, ParentOf(e, i)) : j < i})
             /\ items[i].next = FirstOf({j \in ChildrenOf(e, ParentOf(e, i)) : j > i})
             /\ items[i].first = FirstOf(ChildrenOf(e, i))
             /\ items[i].last = LastOf(ChildrenOf(e, i))
             /\ items[i].count = VisibleIn(items, ChildrenOf(e, i))
  <2>1. i \in 1..n
    BY <1>1
  <2>2. items[i].prev = LastOf({j \in ChildrenOf(e, ParentOf(e, i)) : j < i})
    BY <1>5, <2>1 DEF Older
  <2>3. items[i].next = FirstOf({j \in ChildrenOf(e, ParentOf(e, i)) : j > i})
    <3>1. PICK S : S = ChildrenOf(e, ParentOf(e, i))
      OBVIOUS
    <3>2. S \subseteq DOMAIN e
      BY <3>1 DEF ChildrenOf
    <3>3. \A j \in S : j <= n
      BY <1>1, <3>2
    <3>4. {j \in S : j > i} = {j \in S : j > i /\ j <= n}
      BY <3>3
    <3> QED
      BY <1>5, <2>1, <3>1, <3>4 DEF YoungerUpTo
  <2>4. \A j \in 1..n : items[j].count = DescendantCount(e, j + 1, lv[j])
    BY <1>5
  <2>5. items[i].count = VisibleIn(items, ChildrenOf(e, i))
    BY <2>1, <2>4, CountsAdd
  <2> QED
    BY <1>5, <2>1, <2>2, <2>3, <2>5
<1>7. DOMAIN items = DOMAIN e
  BY <1>1, <1>4
<1>8. LinksTree(e, items)
  BY <1>6, <1>7, LinksTreeIs
<1> QED
  BY <1>2, <1>8

-----------------------------------------------------------------------------
(* The bookmarks of the published file.                                    *)

(* What OutlineTree says of a file, a table and the rest that it reads.    *)
Found(file, rows, n) == file[rows[n] + 1]

OutlineRead(file, rows, size, root, kids, e) ==
    LET Bookmarks == {n \in 1..(size - 1) : Found(file, rows, n).kind = "bookmark"}
        Of(i) == Found(file, rows, CHOOSE n \in Bookmarks : Found(file, rows, n).title = i)
        Entry(n) == IF n \in Bookmarks THEN Found(file, rows, n).title ELSE None
        read == [i \in DOMAIN e |->
                    [parent |-> Entry(Of(i).parent), prev |-> Entry(Of(i).prev),
                     next |-> Entry(Of(i).next), first |-> Entry(Of(i).first),
                     last |-> Entry(Of(i).last), count |-> Of(i).count]]
        top == ChildrenOf(e, None)
    IN  /\ {Found(file, rows, n).title : n \in Bookmarks} = DOMAIN e
        /\ LinksTree(e, read)
        /\ \A i \in DOMAIN e : Of(i).dest = kids[e[i].page + 1]
        /\ \A i \in top : Of(i).parent = root
        /\ e # <<>> =>
              /\ Found(file, rows, root).count = Len(e)
              /\ Entry(Found(file, rows, root).first) = Min(top)
              /\ Entry(Found(file, rows, root).last) = Max(top)

LEMMA OutlineTreeReads ==
    ASSUME OutlineRead(writer.file, Xref.rows, Xref.size, Catalog.outlines, Pages.kids, outline)
    PROVE  OutlineTree
  BY Zenon DEF OutlineTree, OutlineRead, Found, Lookup, Numbers

(* The entries at the top of the list.                                     *)
LEMMA TopIs ==
    ASSUME NEW e, NEW lv, NEW n, Describes(e, lv, n)
    PROVE  /\ ChildrenOf(e, None) = {i \in 1..n : lv[i] = 0}
           /\ ChildrenOf(e, None) = {i \in DOMAIN e : e[i].level = 0}
<1>1. n \in Nat /\ DOMAIN e = 1..n /\ \A i \in 1..n : e[i].level = lv[i] /\ lv[i] \in Nat
  BY DEF Describes, Preorder
<1>2. ASSUME NEW i \in 1..n PROVE ParentOf(e, i) = 0 <=> lv[i] = 0
  <2>1. IsParent(lv, i, ParentOf(e, i))
    BY ParentIs
  <2>2. PICK p : p = ParentOf(e, i)
    OBVIOUS
  <2>3. p \in 0..(i - 1) /\ (p = 0 => lv[i] = 0) /\ (p # 0 => lv[i] = lv[p] + 1)
    BY <2>1, <2>2 DEF IsParent
  <2>4. p # 0 => lv[i] # 0
    <3>1. p # 0 => p \in 1..n
      BY <1>1, <2>3
    <3>2. p # 0 => lv[p] \in Nat
      BY <1>1, <3>1
    <3> QED
      BY <2>3, <3>2
  <2> QED
    BY <2>2, <2>3, <2>4
<1> QED
  BY <1>1, <1>2 DEF ChildrenOf, None

(* Links are numbers of entries, or 0.                                     *)
LEMMA LinksInRange ==
    ASSUME NEW e, NEW lv, NEW n, Describes(e, lv, n), NEW i \in 1..n
    PROVE  /\ ParentOf(e, i) \in 0..n /\ LastOf(Older(e, i)) \in 0..n
           /\ FirstOf(YoungerUpTo(e, i, n)) \in 0..n
           /\ FirstOf(ChildrenOf(e, i)) \in 0..n /\ LastOf(ChildrenOf(e, i)) \in 0..n
<1>1. n \in Nat /\ DOMAIN e = 1..n
  BY DEF Describes, Preorder
<1>2. ASSUME NEW S \in SUBSET (1..n) PROVE FirstOf(S) \in 0..n /\ LastOf(S) \in 0..n
  <2>1. PICK a \in 0..n : IsFirst(S, a)
    BY <1>1, FirstExists
  <2>2. PICK b \in 0..n : IsLastOf(S, b)
    BY <1>1, LastOfExists
  <2> QED
    BY <1>1, <2>1, <2>2, FirstIs, LastIs
<1>3. ParentOf(e, i) \in 0..n
  <2>1. ParentOf(e, i) \in 0..(i - 1)
    BY ParentIs DEF IsParent
  <2> QED
    BY <1>1, <2>1
<1>4. \A p : ChildrenOf(e, p) \in SUBSET (1..n)
  BY <1>1 DEF ChildrenOf
<1>5. Older(e, i) \in SUBSET (1..n) /\ YoungerUpTo(e, i, n) \in SUBSET (1..n)
  BY <1>4 DEF Older, YoungerUpTo
<1> QED
  BY <1>2, <1>3, <1>4, <1>5

(* The number of an entry when the first has the number `start`.           *)
NumberFrom(start, i) == IF i = 0 THEN 0 ELSE start + i - 1

(* An object is the bookmark of entry i of a list of n.                    *)
IsBookmark(object, e, i, n, start, kids) ==
    /\ object.kind = "bookmark" /\ object.title = i
    /\ object.dest = kids[e[i].page + 1]
    /\ object.parent = IF Items(e)[i].parent = 0 THEN start + n
                       ELSE NumberFrom(start, Items(e)[i].parent)
    /\ object.prev = NumberFrom(start, Items(e)[i].prev)
    /\ object.next = NumberFrom(start, Items(e)[i].next)
    /\ object.first = NumberFrom(start, Items(e)[i].first)
    /\ object.last = NumberFrom(start, Items(e)[i].last)
    /\ object.count = Items(e)[i].count

(* The numbers from `start` on lead to the bookmarks of a list, one after  *)
(* the other, the next to their root, and no other to a bookmark.          *)
HoldsOutline(file, rows, size, root, kids, e, lv, n, start) ==
    /\ Describes(e, lv, n) /\ (n # 0 <=> e # <<>>)
    /\ start \in Nat /\ start >= 3 /\ size \in Nat
    /\ size = IF n = 0 THEN start ELSE start + n + 1
    /\ \A m \in 1..(size - 1) :
          Found(file, rows, m).kind = "bookmark" <=> m \in start..(start + n - 1)
    /\ \A i \in 1..n : IsBookmark(Found(file, rows, start + i - 1), e, i, n, start, kids)
    /\ root = IF n = 0 THEN 0 ELSE start + n
    /\ n # 0 =>
          /\ Found(file, rows, root).count = n
          /\ Found(file, rows, root).first = NumberFrom(start, Root(e).first)
          /\ Found(file, rows, root).last = NumberFrom(start, Root(e).last)

LEMMA OutlineIsRead ==
    ASSUME NEW file, NEW rows, NEW size, NEW root, NEW kids, NEW e, NEW lv, NEW n, NEW start,
           HoldsOutline(file, rows, size, root, kids, e, lv, n, start)
    PROVE  OutlineRead(file, rows, size, root, kids, e)
<1> DEFINE Bookmarks == {m \in 1..(size - 1) : Found(file, rows, m).kind = "bookmark"}
           Of(i) == Found(file, rows, CHOOSE m \in Bookmarks : Found(file, rows, m).title = i)
           Entry(m) == IF m \in Bookmarks THEN Found(file, rows, m).title ELSE None
           read == [i \in DOMAIN e |->
                      [parent |-> Entry(Of(i).parent), prev |-> Entry(Of(i).prev),
                       next |-> Entry(Of(i).next), first |-> Entry(Of(i).first),
                       last |-> Entry(Of(i).last), count |-> Of(i).count]]
           top == ChildrenOf(e, None)
<1> USE DEF HoldsOutline
<1>1. n \in Nat /\ DOMAIN e = 1..n /\ Len(e) = n
  BY DEF Describes, Preorder
<1>2. Bookmarks = start..(start + n - 1)
  BY <1>1
<1>3. \A i \in 1..n : start + i - 1 \in Bookmarks
  BY <1>1, <1>2
<1>4. \A m \in Bookmarks : \E i \in 1..n : m = start + i - 1
  <2>1. \A m \in start..(start + n - 1) : m - start + 1 \in 1..n /\ m = start + (m - start + 1) - 1
    BY <1>1
  <2> QED
    BY <1>2, <2>1
<1>5. \A i \in 1..n : Found(file, rows, start + i - 1).title = i
  BY DEF IsBookmark
<1>6. ASSUME NEW i \in 1..n PROVE Of(i) = Found(file, rows, start + i - 1)
  <2>1. start + i - 1 \in Bookmarks /\ Found(file, rows, start + i - 1).title = i
    BY <1>3, <1>5
  <2>2. \A m \in Bookmarks : Found(file, rows, m).title = i => m = start + i - 1
    BY <1>4, <1>5
  <2>3. (CHOOSE m \in Bookmarks : Found(file, rows, m).title = i) = start + i - 1
    <3> HIDE DEF Bookmarks
    <3> QED
      BY <2>1, <2>2
  <2> QED
    BY <2>3
<1>7. \A i \in 0..n : Entry(NumberFrom(start, i)) = i
  <2>1. 0 \notin Bookmarks
    OBVIOUS
  <2>2. \A i \in 1..n : NumberFrom(start, i) = start + i - 1
    BY <1>1 DEF NumberFrom
  <2>3. Entry(NumberFrom(start, 0)) = 0
    BY <2>1 DEF NumberFrom, None
  <2>4. \A i \in 1..n : Entry(NumberFrom(start, i)) = i
    BY <1>3, <1>5, <2>2
  <2> QED
    BY <1>1, <2>3, <2>4
<1>8. Entry(start + n) = 0
  <2>1. start + n \notin Bookmarks
    BY <1>1, <1>2
  <2> QED
    BY <2>1 DEF None
<1>9. \A i \in 1..n : IsBookmark(Of(i), e, i, n, start, kids)
  BY <1>6
<1> HIDE DEF Of, Entry
<1>10. ASSUME NEW i \in 1..n PROVE read[i] = Items(e)[i]
  <2>1. PICK p, b, x, f, l, c : /\ p = ParentOf(e, i) /\ b = LastOf(Older(e, i))
                                /\ x = FirstOf(YoungerUpTo(e, i, n))
                                /\ f = FirstOf(ChildrenOf(e, i))
                                /\ l = LastOf(ChildrenOf(e, i))
                                /\ c = DescendantCount(e, i + 1, e[i].level)
    OBVIOUS
  <2>2. p \in 0..n /\ b \in 0..n /\ x \in 0..n /\ f \in 0..n /\ l \in 0..n
    BY <2>1, LinksInRange
  <2>3. Items(e)[i] = [parent |-> p, prev |-> b, next |-> x, first |-> f, last |-> l,
                       count |-> c]
    <3>1. Items(e)[i] = Linked(e, i, x)
      BY <2>1, ItemsAre
    <3> QED
      BY <2>1, <3>1 DEF Linked
  <2>4. PICK o : o = Of(i)
    OBVIOUS
  <2>5. /\ o.parent = IF p = 0 THEN start + n ELSE NumberFrom(start, p)
        /\ o.prev = NumberFrom(start, b) /\ o.next = NumberFrom(start, x)
        /\ o.first = NumberFrom(start, f) /\ o.last = NumberFrom(start, l)
        /\ o.count = c
    BY <1>9, <2>3, <2>4 DEF IsBookmark
  <2>6. Entry(o.parent) = p
    BY <1>7, <1>8, <2>2, <2>5
  <2>7. Entry(o.prev) = b /\ Entry(o.next) = x /\ Entry(o.first) = f /\ Entry(o.last) = l
    BY <1>7, <2>2, <2>5
  <2>8. read[i] = [parent |-> Entry(o.parent), prev |-> Entry(o.prev),
                   next |-> Entry(o.next), first |-> Entry(o.first),
                   last |-> Entry(o.last), count |-> o.count]
    BY <1>1, <2>4
  <2> QED
    BY <2>3, <2>5, <2>6, <2>7, <2>8
<1>11. read = Items(e)
  <2>1. IsSeq(Items(e)) /\ Len(Items(e)) = n
    BY ItemsAre
  <2>2. Items(e) = [i \in 1..n |-> Items(e)[i]]
    BY <2>1, SeqFacts
  <2>3. read = [i \in 1..n |-> read[i]]
    BY <1>1
  <2> HIDE DEF read
  <2> QED
    BY <1>10, <2>2, <2>3
<1>12. LinksTree(e, read)
  <2>1. LinksTree(e, Items(e))
    BY ItemsFormTree
  <2> HIDE DEF read
  <2> QED
    BY <1>11, <2>1
<1>13. {Found(file, rows, m).title : m \in Bookmarks} = DOMAIN e
  <2>1. ASSUME NEW m \in Bookmarks PROVE Found(file, rows, m).title \in 1..n
    BY <1>4, <1>5
  <2>2. ASSUME NEW i \in 1..n PROVE \E m \in Bookmarks : i = Found(file, rows, m).title
    BY <1>3, <1>5
  <2> HIDE DEF Bookmarks
  <2> QED
    BY <1>1, <2>1, <2>2
<1>14. \A i \in DOMAIN e : Of(i).dest = kids[e[i].page + 1]
  BY <1>1, <1>9 DEF IsBookmark
<1>15. top = {i \in 1..n : lv[i] = 0} /\ top = {i \in DOMAIN e : e[i].level = 0}
  BY TopIs
<1>16. ASSUME NEW i \in top PROVE Of(i).parent = root
  <2>1. i \in 1..n /\ ParentOf(e, i) = 0
    BY <1>1, <1>15 DEF ChildrenOf, None
  <2>2. Items(e)[i].parent = 0
    <3>1. Items(e)[i] = Linked(e, i, FirstOf(YoungerUpTo(e, i, n)))
      BY <2>1, ItemsAre
    <3> QED
      BY <2>1, <3>1 DEF Linked
  <2>3. n # 0 /\ IsBookmark(Of(i), e, i, n, start, kids)
    BY <1>1, <1>9, <2>1
  <2> QED
    BY <2>2, <2>3 DEF IsBookmark
<1>17. ASSUME e # <<>>
       PROVE  /\ Found(file, rows, root).count = Len(e)
              /\ Entry(Found(file, rows, root).first) = Min(top)
              /\ Entry(Found(file, rows, root).last) = Max(top)
  <2>1. 1 \in top /\ top \in SUBSET (1..n)
    <3>1. lv[1] = 0
      <4>1. lv[1] <= 0 /\ lv[1] \in Nat
        BY <1>1, <1>17 DEF Describes, Preorder
      <4> QED
        BY <4>1
    <3> QED
      BY <1>1, <1>15, <1>17, <3>1
  <2>2. FirstOf(top) = Min(top) /\ LastOf(top) = Max(top)
    BY <2>1 DEF FirstOf, LastOf
  <2>3. FirstOf(top) \in 0..n /\ LastOf(top) \in 0..n
    <3> HIDE DEF top
    <3>1. PICK a \in 0..n : IsFirst(top, a)
      BY <1>1, <2>1, FirstExists
    <3>2. PICK b \in 0..n : IsLastOf(top, b)
      BY <1>1, <2>1, LastOfExists
    <3> QED
      BY <1>1, <2>1, <3>1, <3>2, FirstIs, LastIs
  <2>4. Root(e).first = Min(top) /\ Root(e).last = Max(top)
    BY <1>15 DEF Root
  <2>5. /\ Found(file, rows, root).count = n
        /\ Found(file, rows, root).first = NumberFrom(start, Root(e).first)
        /\ Found(file, rows, root).last = NumberFrom(start, Root(e).last)
    BY <1>17
  <2> HIDE DEF top
  <2> QED
    BY <1>1, <1>7, <2>2, <2>3, <2>4, <2>5
<1>18. \A i \in DOMAIN e : Of(i).dest = kids[e[i].page + 1]
  BY <1>14
<1> QED
  BY Zenon, <1>12, <1>13, <1>14, <1>16, <1>17 DEF OutlineRead, Of, Entry

(* Shards bring no bookmarks of their own.                                 *)
KindsAppended ==
    \A m \in FirstShardObject..(nextObject - 1) : At(writer, m).kind \in {"page", "object"}

FileOutline ==
    phase = "published" =>
        \E lv, start : HoldsOutline(writer.file, Xref.rows, Xref.size, Catalog.outlines,
                                    Pages.kids, outline, lv, Len(outline), start)

TreeInv ==
    /\ AssemblerInv
    /\ phase = "open" => KindsAppended
    /\ FileOutline

LEMMA TreeIsRead == TreeInv => OutlineTree
<1>1. CASE phase = "published"
  <2> SUFFICES ASSUME TreeInv PROVE OutlineTree
    OBVIOUS
  <2>1. PICK lv, start : HoldsOutline(writer.file, Xref.rows, Xref.size, Catalog.outlines,
                                      Pages.kids, outline, lv, Len(outline), start)
    BY <1>1 DEF TreeInv, FileOutline
  <2>2. OutlineRead(writer.file, Xref.rows, Xref.size, Catalog.outlines, Pages.kids, outline)
    BY <2>1, OutlineIsRead
  <2> QED
    BY <2>2, OutlineTreeReads
<1>2. CASE phase # "published"
  BY <1>2 DEF OutlineTree
<1> QED
  BY <1>1, <1>2

LEMMA InitTree == Init => TreeInv
<1> SUFFICES ASSUME Init PROVE TreeInv
  OBVIOUS
<1>1. phase = "open" /\ FirstShardObject..(nextObject - 1) = {}
  BY DEF Init, FirstShardObject
<1> QED
  BY <1>1, InitAssembler DEF TreeInv, KindsAppended, FileOutline

LEMMA KindsSucceed ==
    ASSUME TreeInv, phase = "open", NEW shard \in Shards, AppendSucceeds(shard)
    PROVE  KindsAppended'
<1>1. /\ AssemblerInv /\ KindsAppended /\ IsWriter(writer) /\ OpenInv
      /\ nextObject \in Nat \ {0} /\ nextObject >= FirstShardObject
  BY DEF TreeInv, AssemblerInv, TypeOK, FirstShardObject
<1>2. PICK order \in Orders(shard) : writer' = Written(writer, ObjectsOf(shard, order))
  BY DEF AppendSucceeds
<1>3. PICK objects, n : objects = ObjectsOf(shard, order) /\ n = Cardinality(Kept(shard))
  OBVIOUS
<1>4. /\ n \in Nat /\ LastNumber(shard, nextObject) = nextObject + n - 1
      /\ IsSeq(objects) /\ Distinct(objects)
      /\ NumbersOf(objects) = nextObject..(nextObject + n - 1)
      /\ DOMAIN objects = 1..n
      /\ \A i \in 1..n : /\ objects[i] = ObjectOf(shard, order, i)
                         /\ objects[i].number = nextObject + i - 1
  BY <1>1, <1>3, ObjectsFacts
<1>5. nextObject' = nextObject + n
  <2>1. nextObject' = LastNumber(shard, nextObject) + 1
    BY DEF AppendSucceeds
  <2> QED
    BY <1>1, <1>4, <2>1
<1>6. \A i \in 1..n : objects[i].kind \in {"page", "object"}
  <2> TAKE i \in 1..n
  <2>1. objects[i] = ObjectOf(shard, order, i)
    BY <1>4
  <2>2. ObjectOf(shard, order, i).kind \in {"page", "object"}
    BY DEF ObjectOf
  <2> QED
    BY <2>1, <2>2
<1>7. PICK wr : wr = writer'
  OBVIOUS
<1>8. \A i \in DOMAIN objects : At(wr, objects[i].number) = objects[i]
  <2>1. NumbersOf(objects) \subseteq Nat \ {0}
    BY <1>1, <1>4
  <2>2. wr = Written(writer, objects)
    BY <1>2, <1>3, <1>7
  <2> QED
    BY <1>1, <1>4, <2>1, <2>2, WrittenFacts
<1>9. \A m \in FirstShardObject..(nextObject - 1) : At(wr, m) = At(writer, m)
  BY <1>1, <1>2, <1>7, AppendedObjects
<1>10. ASSUME NEW m \in FirstShardObject..(nextObject' - 1)
       PROVE  At(wr, m).kind \in {"page", "object"}
  <2>1. CASE m \in FirstShardObject..(nextObject - 1)
    BY <1>1, <1>9, <2>1 DEF KindsAppended
  <2>2. CASE m \notin FirstShardObject..(nextObject - 1)
    <3>1. PICK i \in 1..n : m = nextObject + i - 1
      <4>1. m \in nextObject..(nextObject + n - 1)
        BY <1>1, <1>4, <1>5, <2>2 DEF FirstShardObject
      <4>2. m - nextObject + 1 \in 1..n /\ m = nextObject + (m - nextObject + 1) - 1
        BY <1>1, <1>4, <4>1
      <4> QED
        BY <4>2
    <3>2. At(wr, m) = objects[i]
      BY <1>4, <1>8, <3>1
    <3> QED
      BY <1>6, <3>2
  <2> QED
    BY <2>1, <2>2
<1> QED
  BY <1>7, <1>10 DEF KindsAppended

(* The numbers of the file that finalize() completes, and what they lead   *)
(* to: the bookmarks in their order, their root, and nothing else that is  *)
(* a bookmark.                                                             *)
LEMMA PublishedBookmarks ==
    ASSUME AssemblerInv, KindsAppended, phase = "open", NEW entries, IsOutline(entries),
           writer' = [Body(entries) EXCEPT
                         !.file = Append(@, Table(Body(entries), Size(entries)))],
           NEW n \in Nat, n = Len(entries), NEW start, start = nextObject
    PROVE  /\ Size(entries) = IF n = 0 THEN start ELSE start + n + 1
           /\ \A i \in 1..n : Lookup(start + i - 1)' = OutlineItem(entries, i)
           /\ n # 0 => Lookup(start + n)' = OutlineRoot(entries)
           /\ \A m \in 1..(Size(entries) - 1) :
                 Lookup(m)'.kind = "bookmark" <=> m \in start..(start + n - 1)
<1>1. /\ start \in Nat /\ start >= 3 /\ nextObject \in Nat /\ nextObject >= FirstShardObject
      /\ FirstShardObject = 3 /\ PagesId = 1 /\ CatalogId = 2
  BY DEF AssemblerInv, TypeOK, FirstShardObject, PagesId, CatalogId
<1>2. DOMAIN entries = 1..n /\ (n = 0 <=> entries = <<>>)
  <2>1. IsSeq(entries)
    BY DEF IsOutline
  <2> QED
    BY <2>1 DEF IsSeq
<1>3. PICK bookmarks, objects : bookmarks = OutlineObjects(entries) /\ objects = LastObjects(entries)
  OBVIOUS
<1>4. PICK k \in Nat : /\ k = Len(bookmarks) /\ Size(entries) = start + k
                       /\ IsSeq(bookmarks)
  <2>1. nextObject \in Nat \ {0}
    BY <1>1
  <2> QED
    BY <1>1, <1>3, <2>1, BookmarksFacts
<1>5. /\ k = IF n = 0 THEN 0 ELSE n + 1
      /\ \A i \in 1..n : bookmarks[i] = OutlineItem(entries, i)
      /\ n # 0 => bookmarks[n + 1] = OutlineRoot(entries)
  <2>1. CASE n = 0
    <3>1. bookmarks = <<>>
      BY <1>2, <1>3, <2>1 DEF OutlineObjects
    <3> QED
      BY <1>4, <2>1, <3>1
  <2>2. CASE n # 0
    <3>1. PICK items, last : /\ items = [i \in 1..n |-> OutlineItem(entries, i)]
                             /\ last = OutlineRoot(entries)
      OBVIOUS
    <3>2. bookmarks = Append(items, last)
      BY <1>2, <1>3, <2>2, <3>1 DEF OutlineObjects
    <3>3. items = [i \in 1..n |-> items[i]]
      BY <3>1
    <3>4. IsSeq(items) /\ Len(items) = n
      BY <3>3, SeqMade
    <3>5. /\ Len(bookmarks) = n + 1 /\ bookmarks[n + 1] = last
          /\ \A i \in 1..n : bookmarks[i] = items[i]
      BY <3>2, <3>4, Longer
    <3> QED
      BY <1>4, <2>2, <3>1, <3>5
  <2> QED
    BY <2>1, <2>2
<1>6. /\ Len(objects) = k + 2
      /\ \A i \in 1..k : objects[i + 1] = bookmarks[i]
  <2>1. PICK first, final : first = PagesObject /\ final = CatalogObject(entries)
    OBVIOUS
  <2>2. objects = Frame(first, bookmarks, final)
    BY <1>3, <2>1 DEF LastObjects
  <2>3. IsSeq(bookmarks) /\ k = Len(bookmarks)
    BY <1>4
  <2>4. /\ IsSeq(objects) /\ Len(objects) = k + 2 /\ objects[1] = first
        /\ objects[k + 2] = final
        /\ \A i \in 1..k : objects[i + 1] = bookmarks[i]
    BY SMTT(30), <2>2, <2>3, Framed
  <2> QED
    BY <2>4
<1>7. PICK body, size : body = Body(entries) /\ size = Size(entries)
  OBVIOUS
<1>8. /\ At(body, PagesId) = PagesObject /\ At(body, CatalogId) = CatalogObject(entries)
      /\ \A m \in FirstShardObject..(start - 1) : At(body, m) = At(writer, m)
      /\ \A i \in 2..(Len(objects) - 1) : At(body, start + i - 2) = objects[i]
  BY <1>3, <1>7, BodyFacts
<1>9. \A m \in 1..(size - 1) : Lookup(m)' = At(body, m)
  BY <1>7, PublishedFacts
<1>10. ASSUME NEW i \in 1..k PROVE Lookup(start + i - 1)' = bookmarks[i]
  <2>1. i + 1 \in 2..(Len(objects) - 1) /\ start + (i + 1) - 2 = start + i - 1
    BY <1>1, <1>6
  <2>2. At(body, start + (i + 1) - 2) = objects[i + 1]
    BY <1>8, <2>1
  <2>3. start + i - 1 \in 1..(size - 1)
    BY <1>1, <1>4, <1>7
  <2>4. Lookup(start + i - 1)' = At(body, start + i - 1)
    BY <1>9, <2>3
  <2> QED
    BY <1>6, <2>1, <2>2, <2>4
<1>11. \A i \in 1..n : Lookup(start + i - 1)' = OutlineItem(entries, i)
  BY <1>5, <1>10
<1>12. n # 0 => Lookup(start + n)' = OutlineRoot(entries)
  <2>1. n # 0 => n + 1 \in 1..k /\ start + (n + 1) - 1 = start + n
    BY <1>1, <1>5
  <2> QED
    BY <1>5, <1>10, <2>1
<1>13. ASSUME NEW m \in 1..(size - 1)
       PROVE  Lookup(m)'.kind = "bookmark" <=> m \in start..(start + n - 1)
  <2>1. Lookup(m)' = At(body, m)
    BY <1>9
  <2>2. CASE m = 1 \/ m = 2
    <3>1. PagesObject.kind = "pages" /\ CatalogObject(entries).kind = "catalog"
      BY DEF PagesObject, CatalogObject
    <3>2. Lookup(m)'.kind # "bookmark"
      BY <1>1, <1>8, <2>1, <2>2, <3>1
    <3> QED
      BY <1>1, <2>2, <3>2
  <2>3. CASE m \in 3..(start - 1)
    <3>1. Lookup(m)' = At(writer, m) /\ At(writer, m).kind \in {"page", "object"}
      BY <1>1, <1>8, <2>1, <2>3 DEF KindsAppended
    <3>2. Lookup(m)'.kind # "bookmark"
      BY <3>1
    <3> QED
      BY <1>1, <2>3, <3>2
  <2>4. CASE m \in start..(start + n - 1)
    <3>1. PICK i \in 1..n : m = start + i - 1
      <4>1. m - start + 1 \in 1..n /\ m = start + (m - start + 1) - 1
        BY <1>1, <2>4
      <4> QED
        BY <4>1
    <3>2. OutlineItem(entries, i).kind = "bookmark"
      BY DEF OutlineItem
    <3> QED
      BY <1>11, <2>4, <3>1, <3>2
  <2>5. CASE m = start + n /\ n # 0
    <3>1. OutlineRoot(entries).kind = "bookmarks"
      BY DEF OutlineRoot
    <3>2. Lookup(m)'.kind = "bookmarks"
      BY <1>12, <2>5, <3>1
    <3> QED
      BY <1>1, <2>5, <3>2
  <2>6. \/ m = 1 \/ m = 2 \/ m \in 3..(start - 1)
        \/ m \in start..(start + n - 1)
        \/ m = start + n /\ n # 0
    <3>1. size = start + k /\ start \in Nat /\ start >= 3
      BY <1>1, <1>4, <1>7
    <3>2. CASE n = 0
      <4>1. size - 1 = start - 1
        BY <1>5, <3>1, <3>2
      <4>2. m \in 1..(start - 1)
        BY <4>1
      <4> QED
        BY <3>1, <4>2
    <3>3. CASE n # 0
      <4>1. size - 1 = start + n
        BY <1>5, <3>1, <3>3
      <4>2. m \in 1..(start + n)
        BY <4>1
      <4> QED
        BY <3>1, <3>3, <4>2
    <3> QED
      BY <3>2, <3>3
  <2> QED
    BY <2>2, <2>3, <2>4, <2>5, <2>6
<1>14. Size(entries) = IF n = 0 THEN start ELSE start + n + 1
  BY <1>1, <1>4, <1>5
<1> QED
  BY <1>7, <1>11, <1>12, <1>13, <1>14

LEMMA TreePublished ==
    ASSUME TreeInv, phase = "open", NEW entries, IsOutline(entries), ~InvalidOutline(entries),
           writer' = [Body(entries) EXCEPT
                         !.file = Append(@, Table(Body(entries), Size(entries)))],
           outline' = entries
    PROVE  \E lv, start : HoldsOutline(writer'.file, Xref'.rows, Xref'.size, Catalog'.outlines,
                                       Pages'.kids, outline', lv, Len(outline'), start)
<1>1. AssemblerInv /\ KindsAppended /\ nextObject \in Nat /\ nextObject >= 3
  BY DEF TreeInv, AssemblerInv, TypeOK, FirstShardObject
<1>2. PICK n \in Nat : n = Len(entries) /\ DOMAIN entries = 1..n /\ (n # 0 <=> entries # <<>>)
  <2>1. IsSeq(entries)
    BY DEF IsOutline
  <2> QED
    BY <2>1 DEF IsSeq
<1>3. PICK lv : lv = [i \in 1..n |-> entries[i].level]
  OBVIOUS
<1>4. Describes(entries, lv, n)
  <2>1. lv \in [1..n -> Nat]
    <3>1. \A i \in 1..n : entries[i].level \in Nat
      BY <1>2 DEF IsOutline
    <3> QED
      BY <1>3, <3>1
  <2>2. ASSUME NEW i \in 1..n PROVE lv[i] <= IF i = 1 THEN 0 ELSE lv[i - 1] + 1
    <3>1. entries[i].level <= IF i = 1 THEN 0 ELSE entries[i - 1].level + 1
      BY <1>2 DEF InvalidOutline, LevelsValid
    <3>2. i # 1 => i - 1 \in 1..n
      BY <1>2
    <3>3. lv[i] = entries[i].level /\ (i # 1 => lv[i - 1] = entries[i - 1].level)
      BY <1>3, <3>2
    <3> QED
      BY <3>1, <3>3
  <2> QED
    BY <1>2, <1>3, <2>1, <2>2 DEF Describes, Preorder
<1>5. PICK start, kids, size : start = nextObject /\ kids = pageIds /\ size = Size(entries)
  OBVIOUS
<1>6. /\ size = IF n = 0 THEN start ELSE start + n + 1
      /\ \A i \in 1..n : Lookup(start + i - 1)' = OutlineItem(entries, i)
      /\ n # 0 => Lookup(start + n)' = OutlineRoot(entries)
      /\ \A m \in 1..(size - 1) :
            Lookup(m)'.kind = "bookmark" <=> m \in start..(start + n - 1)
  BY <1>1, <1>2, <1>5, PublishedBookmarks
<1>7. Xref'.size = size
  BY <1>1, <1>5, PublishedFacts
<1>8. /\ Catalog' = CatalogObject(entries) /\ Pages'.kids = kids
  BY <1>1, <1>5, PublishedLookups
<1>9. PICK file, rows, root : file = writer'.file /\ rows = Xref'.rows /\ root = Catalog'.outlines
  OBVIOUS
<1>10. \A m : Lookup(m)' = Found(file, rows, m)
  BY <1>9 DEF Lookup, Found
<1>11. root = IF n = 0 THEN 0 ELSE start + n
  <2>1. root = IF entries = <<>> THEN None ELSE RootNumber(entries)
    BY <1>8, <1>9 DEF CatalogObject
  <2> QED
    BY <1>2, <1>5, <2>1 DEF RootNumber, None
<1>12. \A i : EntryNumber(i) = NumberFrom(start, i)
  BY <1>5 DEF EntryNumber, NumberFrom, None
<1>13. ASSUME NEW i \in 1..n
       PROVE  IsBookmark(Found(file, rows, start + i - 1), entries, i, n, start, kids)
  <2>1. PICK o : o = OutlineItem(entries, i)
    OBVIOUS
  <2>2. IsBookmark(o, entries, i, n, start, kids)
    <3>1. RootNumber(entries) = start + n
      BY <1>2, <1>5 DEF RootNumber
    <3> QED
      BY <1>5, <1>12, <2>1, <3>1 DEF OutlineItem, IsBookmark, None
  <2>3. Found(file, rows, start + i - 1) = o
    BY <1>6, <1>10, <2>1
  <2> QED
    BY <2>2, <2>3
<1>14. ASSUME n # 0
       PROVE  /\ Found(file, rows, root).count = n
              /\ Found(file, rows, root).first = NumberFrom(start, Root(entries).first)
              /\ Found(file, rows, root).last = NumberFrom(start, Root(entries).last)
  <2>1. Found(file, rows, root) = OutlineRoot(entries)
    BY <1>6, <1>10, <1>11, <1>14
  <2>2. Root(entries).count = n
    BY <1>2 DEF Root
  <2> QED
    BY <1>12, <2>1, <2>2 DEF OutlineRoot
<1>15. \A m \in 1..(size - 1) :
          Found(file, rows, m).kind = "bookmark" <=> m \in start..(start + n - 1)
  BY <1>6, <1>10
<1>16. HoldsOutline(file, rows, size, root, kids, entries, lv, n, start)
  <2>1. size \in Nat /\ start \in Nat /\ start >= 3
    BY <1>1, <1>5, <1>6
  <2> QED
    BY <1>2, <1>4, <1>6, <1>11, <1>13, <1>14, <1>15, <2>1 DEF HoldsOutline
<1> QED
  BY <1>2, <1>7, <1>8, <1>9, <1>16

LEMMA NextTree == TreeInv /\ Step => TreeInv'
<1> SUFFICES ASSUME TreeInv, Step PROVE TreeInv'
  OBVIOUS
<1>1. AssemblerInv /\ AssemblerInv'
  BY NextAssembler DEF TreeInv
<1>2. ASSUME NEW shard \in Shards, AppendShardDoc(shard) PROVE TreeInv'
  <2>1. phase = "open" /\ phase' = "open" /\ KindsAppended
    BY <1>2 DEF AppendShardDoc, TreeInv
  <2>2. FileOutline'
    BY <2>1 DEF FileOutline
  <2>3. CASE AppendMalformed(shard)
    <3>1. UNCHANGED <<writer, nextObject>>
      BY <2>3 DEF AppendMalformed
    <3>2. KindsAppended'
      BY <2>1, <3>1 DEF KindsAppended, At
    <3> QED
      BY <1>1, <2>1, <2>2, <3>2 DEF TreeInv
  <2>4. CASE AppendTears(shard)
    <3>1. UNCHANGED nextObject
      BY <2>4 DEF AppendTears
    <3>2. \A m \in FirstShardObject..(nextObject - 1) : At(writer', m) = At(writer, m)
      BY <1>1, <2>1, <2>4, TornObjects
    <3>3. KindsAppended'
      BY <2>1, <3>1, <3>2 DEF KindsAppended
    <3> QED
      BY <1>1, <2>1, <2>2, <3>3 DEF TreeInv
  <2>5. CASE AppendSucceeds(shard)
    <3>1. KindsAppended'
      BY <2>1, <2>5, KindsSucceed
    <3> QED
      BY <1>1, <2>1, <2>2, <3>1 DEF TreeInv
  <2> QED
    BY <1>2, <2>3, <2>4, <2>5 DEF AppendShardDoc
<1>3. ASSUME NEW entries, IsOutline(entries), Finalize(entries) PROVE TreeInv'
  <2>1. phase = "open"
    BY <1>3 DEF Finalize
  <2>2. CASE \E why \in Failures : phase' = why
    BY <1>1, <2>2 DEF TreeInv, FileOutline, Failures
  <2>3. CASE /\ ~InvalidOutline(entries)
             /\ phase' = "published" /\ outline' = entries
             /\ writer' = [Body(entries) EXCEPT
                              !.file = Append(@, Table(Body(entries), Size(entries)))]
    <3>1. FileOutline'
      BY <1>3, <2>1, <2>3, TreePublished DEF FileOutline
    <3> QED
      BY <1>1, <2>3, <3>1 DEF TreeInv
  <2> QED
    BY <1>3, <2>2, <2>3 DEF Finalize, Fails, Failures
<1>4. ASSUME UNCHANGED vars PROVE TreeInv'
  <2>1. UNCHANGED <<writer, nextObject, phase, outline>>
    BY <1>4 DEF vars
  <2>2. KindsAppended' = KindsAppended
    BY <2>1 DEF KindsAppended, At
  <2>3. Xref' = Xref
    BY <2>1 DEF Xref, Last
  <2>4. Catalog' = Catalog
    BY <2>1, <2>3 DEF Catalog, Lookup
  <2>5. Pages' = Pages
    BY <2>1, <2>3, <2>4 DEF Pages, Lookup
  <2>6. FileOutline'
    BY <2>1, <2>3, <2>4, <2>5 DEF TreeInv, FileOutline
  <2> QED
    BY <1>1, <2>1, <2>2, <2>6 DEF TreeInv
<1> QED
  BY <1>2, <1>3, <1>4 DEF Step

(* The bookmarks of a published file are the tree that the list given to   *)
(* finalize() describes, linked in both directions and counted, whatever   *)
(* documents were appended and whichever appends failed before             *)
(* (build_outline_objects() and its call in finalize()).                   *)
THEOREM OutlineIsTree == Spec => []OutlineTree
  BY TreeIsRead, InitTree, NextTree, NextIsStep, PTL DEF Spec

-----------------------------------------------------------------------------
(* Flattening nested bookmarks.                                            *)

(* Location p lies below location w; it is in the array at w.              *)
Below(w, p) == Len(p) > Len(w) /\ \A x \in 1..Len(w) : p[x] = w[x]
InArray(w, p) == Len(p) = Len(w) + 1 /\ \A x \in 1..Len(w) : p[x] = w[x]

(* Two locations in one array, the first before the second.                *)
Precedes(p, r) ==
    /\ Len(p) = Len(r) /\ \A x \in 1..(Len(p) - 1) : p[x] = r[x]
    /\ p[Len(p)] < r[Len(r)]

(* The n locations q are those, of a set, in the first places of the array *)
(* at w with all below them, each once; the array each is in belongs to a  *)
(* location before it, with nothing less deep in between, and they keep    *)
(* the order of their arrays.                                              *)
Listing(q, n, D, w, places) ==
    /\ \A i \in 1..n : q[i] \in D /\ Below(w, q[i]) /\ q[i][Len(w) + 1] \in 1..places
    /\ \A p \in D : Below(w, p) /\ p[Len(w) + 1] \in 1..places => \E i \in 1..n : q[i] = p
    /\ \A i, j \in 1..n : q[i] = q[j] => i = j
    /\ \A i \in 1..n : Len(q[i]) > Len(w) + 1 =>
          \E j \in 1..(i - 1) : /\ InArray(q[j], q[i])
                                /\ \A k \in (j + 1)..(i - 1) : Len(q[k]) >= Len(q[i])
    /\ \A i, j \in 1..n : Precedes(q[i], q[j]) => i < j

(* Locations, and one array of them, one location and another array.       *)
Locations(D) == D \subseteq Seq(Nat \ {0})

Joined(t, q, n, c, r, m) ==
    /\ \A i \in 1..n : t[i] = q[i]
    /\ t[n + 1] = c
    /\ \A i \in 1..m : t[n + 1 + i] = r[i]

LEMMA ListingStep ==
    ASSUME NEW D, Locations(D), NEW w \in D, NEW K \in Nat, NEW c \in D,
           InArray(w, c), c[Len(w) + 1] = K + 1,
           NEW q, NEW n \in Nat, Listing(q, n, D, w, K),
           NEW r, NEW m \in Nat, NEW M, Listing(r, m, D, c, M),
           \A p \in D : Below(c, p) => p[Len(c) + 1] \in 1..M,
           NEW t, Joined(t, q, n, c, r, m)
    PROVE  Listing(t, n + 1 + m, D, w, K + 1)
<1>1. \A p \in D : IsSeq(p) /\ Len(p) \in Nat /\ \A x \in 1..Len(p) : p[x] \in Nat
  BY SeqRange DEF Locations
<1>0. /\ \A i \in 1..n : t[i] = q[i]
      /\ t[n + 1] = c
      /\ \A i \in 1..m : t[n + 1 + i] = r[i]
  BY DEF Joined
<1>2. PICK L \in Nat : L = Len(w) /\ Len(c) = L + 1
  BY <1>1 DEF InArray
<1>3. c[L + 1] = K + 1 /\ \A x \in 1..L : c[x] = w[x]
  BY <1>2 DEF InArray
<1>4. PICK N \in Nat : N = n + 1 + m
  OBVIOUS
<1>5. \A i \in 1..N : \/ i \in 1..n /\ t[i] = q[i]
                      \/ i = n + 1 /\ t[i] = c
                      \/ \E j \in 1..m : i = n + 1 + j /\ t[i] = r[j]
  <2>1. ASSUME NEW i \in 1..N, i > n + 1 PROVE \E j \in 1..m : i = n + 1 + j /\ t[i] = r[j]
    <3>1. PICK j \in 1..m : i = n + 1 + j
      <4>1. i - n - 1 \in 1..m /\ i = n + 1 + (i - n - 1)
        BY <1>4, <2>1
      <4> QED
        BY <4>1
    <3> QED
      BY <1>0, <3>1
  <2> QED
    BY <1>0, <1>4, <2>1
<1>6. \A j \in 1..m : n + 1 + j \in 1..N
  BY <1>4
<1>7. \A i \in 1..n : /\ q[i] \in D /\ Len(q[i]) > L /\ \A x \in 1..L : q[i][x] = w[x]
                      /\ q[i][L + 1] \in 1..K
  BY <1>2 DEF Listing, Below
<1>8. ASSUME NEW j \in 1..m
      PROVE  /\ r[j] \in D /\ Len(r[j]) > L + 1 /\ \A x \in 1..L : r[j][x] = w[x]
             /\ r[j][L + 1] = K + 1
             /\ InArray(c, r[j]) <=> Len(r[j]) = L + 2
  <2>1. r[j] \in D /\ Len(r[j]) > L + 1 /\ \A x \in 1..(L + 1) : r[j][x] = c[x]
    BY <1>2 DEF Listing, Below
  <2>2. \A x \in 1..L : x \in 1..(L + 1)
    OBVIOUS
  <2>3. L + 1 \in 1..(L + 1)
    OBVIOUS
  <2> QED
    BY <1>2, <1>3, <2>1, <2>2, <2>3 DEF InArray
<1>9. ASSUME NEW i \in 1..N
      PROVE  t[i] \in D /\ Below(w, t[i]) /\ t[i][L + 1] \in 1..(K + 1)
  <2>1. CASE i \in 1..n
    <3>1. PICK x : x = q[i]
      OBVIOUS
    <3>2. /\ x \in D /\ Len(x) > L /\ \A a \in 1..L : x[a] = w[a]
          /\ x[L + 1] \in 1..K
      BY <1>7, <2>1, <3>1
    <3>3. x \in D /\ Below(w, x) /\ x[L + 1] \in 1..(K + 1)
      BY <1>2, <3>2 DEF Below
    <3> QED
      BY <1>0, <2>1, <3>1, <3>3
  <2>2. CASE i = n + 1
    BY <1>0, <1>2, <1>3, <2>2 DEF Below
  <2>3. ASSUME NEW j \in 1..m, i = n + 1 + j
        PROVE  t[i] \in D /\ Below(w, t[i]) /\ t[i][L + 1] \in 1..(K + 1)
    <3>1. t[i] = r[j] /\ Len(r[j]) \in Nat
      BY <1>0, <1>1, <1>8, <2>3
    <3>2. PICK x : x = r[j]
      OBVIOUS
    <3>3. /\ x \in D /\ Len(x) > L + 1 /\ \A a \in 1..L : x[a] = w[a]
          /\ x[L + 1] = K + 1 /\ Len(x) \in Nat
      BY <1>8, <3>1, <3>2
    <3>4. Below(w, x)
      BY <1>2, <3>3 DEF Below
    <3>5. x[L + 1] \in 1..(K + 1)
      BY <3>3
    <3> QED
      BY <3>1, <3>2, <3>3, <3>4, <3>5
  <2> QED
    BY <1>0, <1>5, <2>1, <2>2, <2>3
<1>10. ASSUME NEW p \in D, Below(w, p), p[L + 1] \in 1..(K + 1)
       PROVE  \E i \in 1..N : t[i] = p
  <2>1. IsSeq(p) /\ Len(p) \in Nat /\ Len(p) > L /\ \A x \in 1..L : p[x] = w[x]
    BY <1>0, <1>1, <1>2, <1>10 DEF Below
  <2>2. CASE p[L + 1] \in 1..K
    <3>1. PICK i \in 1..n : q[i] = p
      BY <1>0, <1>2, <1>10, <2>2 DEF Listing
    <3> QED
      BY <1>0, <1>4, <3>1
  <2>3. CASE p[L + 1] = K + 1
    <3>1. \A x \in 1..(L + 1) : p[x] = c[x]
      <4>1. \A x \in 1..(L + 1) : x \in 1..L \/ x = L + 1
        OBVIOUS
      <4> QED
        BY <1>0, <1>3, <2>1, <2>3, <4>1
    <3>2. CASE Len(p) = L + 1
      <4>1. p = c
        BY <1>0, <1>1, <1>2, <2>1, <3>1, <3>2, SameSeq
      <4> QED
        BY <1>0, <1>4, <4>1
    <3>3. CASE Len(p) # L + 1
      <4>1. Below(c, p)
        BY <1>0, <1>2, <2>1, <3>1, <3>3 DEF Below
      <4>2. PICK j \in 1..m : r[j] = p
        BY <4>1 DEF Listing
      <4> QED
        BY <1>0, <1>6, <4>2
    <3> QED
      BY <3>2, <3>3
  <2>4. p[L + 1] \in 1..K \/ p[L + 1] = K + 1
    BY <1>0, <1>10
  <2> QED
    BY <1>0, <2>2, <2>3, <2>4
<1>11. ASSUME NEW i \in 1..N, NEW j \in 1..N, t[i] = t[j] PROVE i = j
  <2>1. \A a \in 1..n : q[a][L + 1] # K + 1
    BY <1>7
  <2>2. c[L + 1] = K + 1 /\ Len(c) = L + 1
    BY <1>2, <1>3
  <2>3. ASSUME NEW a \in 1..m PROVE r[a][L + 1] = K + 1 /\ Len(r[a]) # L + 1
    <3>1. Len(r[a]) \in Nat /\ Len(r[a]) > L + 1
      BY <1>1, <1>8
    <3> QED
      BY <1>8, <3>1
  <2>4. \A a, b \in 1..n : q[a] = q[b] => a = b
    BY DEF Listing
  <2>5. \A a, b \in 1..m : r[a] = r[b] => a = b
    BY DEF Listing
  <2>6. CASE i \in 1..n /\ t[i] = q[i]
    <3>1. t[j] # c /\ \A a \in 1..m : t[j] # r[a]
      BY <1>11, <2>1, <2>2, <2>3, <2>6
    <3>2. j \in 1..n /\ t[j] = q[j]
      BY <1>5, <3>1
    <3> QED
      BY <1>11, <2>4, <2>6, <3>2
  <2>7. CASE i = n + 1 /\ t[i] = c
    <3>1. (\A a \in 1..n : t[j] # q[a]) /\ \A a \in 1..m : t[j] # r[a]
      BY <1>11, <2>1, <2>2, <2>3, <2>7
    <3> QED
      BY <1>5, <2>7, <3>1
  <2>8. ASSUME NEW a \in 1..m, i = n + 1 + a, t[i] = r[a] PROVE i = j
    <3>1. (\A b \in 1..n : t[j] # q[b]) /\ t[j] # c
      BY <1>11, <2>1, <2>2, <2>3, <2>8
    <3>2. PICK b \in 1..m : j = n + 1 + b /\ t[j] = r[b]
      BY <1>5, <3>1
    <3> QED
      BY <1>11, <2>5, <2>8, <3>2
  <2> QED
    BY <1>5, <2>6, <2>7, <2>8
<1>12. ASSUME NEW i \in 1..N, Len(t[i]) > L + 1
       PROVE  \E j \in 1..(i - 1) : /\ InArray(t[j], t[i])
                                    /\ \A k \in (j + 1)..(i - 1) : Len(t[k]) >= Len(t[i])
  <2>1. CASE i \in 1..n
    <3>1. PICK j \in 1..(i - 1) : /\ InArray(q[j], q[i])
                                  /\ \A k \in (j + 1)..(i - 1) : Len(q[k]) >= Len(q[i])
      BY <1>0, <1>2, <1>12, <2>1 DEF Listing
    <3>2. t[j] = q[j] /\ t[i] = q[i] /\ \A k \in (j + 1)..(i - 1) : t[k] = q[k]
      BY <1>0, <2>1
    <3> QED
      BY <3>1, <3>2
  <2>2. ASSUME NEW a \in 1..m, i = n + 1 + a
        PROVE  \E j \in 1..(i - 1) : /\ InArray(t[j], t[i])
                                     /\ \A k \in (j + 1)..(i - 1) : Len(t[k]) >= Len(t[i])
    <3>1. t[i] = r[a] /\ Len(r[a]) \in Nat
      BY <1>0, <1>1, <1>8, <2>2
    <3>2. CASE Len(r[a]) > L + 2
      <4>1. PICK b \in 1..(a - 1) : /\ InArray(r[b], r[a])
                                    /\ \A k \in (b + 1)..(a - 1) : Len(r[k]) >= Len(r[a])
        BY <1>0, <1>2, <3>2 DEF Listing
      <4>2. n + 1 + b \in 1..(i - 1) /\ t[n + 1 + b] = r[b]
        BY <1>0, <2>2
      <4>3. ASSUME NEW k \in (n + 1 + b + 1)..(i - 1) PROVE Len(t[k]) >= Len(t[i])
        <5>1. PICK d \in 1..m : d = k - n - 1 /\ d \in (b + 1)..(a - 1) /\ k = n + 1 + d
          BY <1>0, <2>2
        <5>2. t[k] = r[d] /\ Len(r[d]) >= Len(r[a])
          BY <1>0, <4>1, <5>1
        <5> QED
          BY <3>1, <5>2
      <4> QED
        BY <3>1, <4>1, <4>2, <4>3
    <3>3. CASE Len(r[a]) = L + 2
      <4>1. InArray(t[n + 1], t[i]) /\ n + 1 \in 1..(i - 1)
        BY <1>0, <1>8, <2>2, <3>1, <3>3
      <4>2. ASSUME NEW k \in (n + 1 + 1)..(i - 1) PROVE Len(t[k]) >= Len(t[i])
        <5>1. PICK d \in 1..m : k = n + 1 + d
          <6>1. k - n - 1 \in 1..m /\ k = n + 1 + (k - n - 1)
            BY <1>0, <2>2
          <6> QED
            BY <6>1
        <5>2. t[k] = r[d] /\ Len(r[d]) > L + 1 /\ Len(r[d]) \in Nat
          BY <1>0, <1>1, <1>8, <5>1
        <5> QED
          BY <3>1, <3>3, <5>2
      <4> QED
        BY <4>1, <4>2
    <3> QED
      BY <1>0, <1>8, <3>1, <3>2, <3>3
  <2>3. ~(i = n + 1 /\ t[i] = c)
    BY <1>2, <1>12
  <2> QED
    BY <1>5, <2>1, <2>2, <2>3
<1>13. ASSUME NEW i \in 1..N, NEW j \in 1..N, Precedes(t[i], t[j]) PROVE i < j
  <2>1. \A a, b \in 1..n : Precedes(q[a], q[b]) => a < b
    BY DEF Listing
  <2>2. \A a, b \in 1..m : Precedes(r[a], r[b]) => a < b
    BY DEF Listing
  <2>3. ASSUME NEW x \in D, NEW y \in D, Len(x) > L, x[L + 1] = K + 1, y[L + 1] \in 1..K
        PROVE  ~Precedes(x, y)
    <3> SUFFICES ASSUME Precedes(x, y) PROVE FALSE
      OBVIOUS
    <3>1. Len(x) \in Nat /\ Len(x) = Len(y)
      BY <1>1 DEF Precedes
    <3>2. CASE Len(x) = L + 1
      <4>1. x[L + 1] < y[L + 1]
        BY <3>1, <3>2 DEF Precedes
      <4> QED
        BY <2>3, <4>1
    <3>3. CASE Len(x) # L + 1
      <4>1. L + 1 \in 1..(Len(x) - 1)
        BY <2>3, <3>1, <3>3
      <4>2. x[L + 1] = y[L + 1]
        BY <4>1 DEF Precedes
      <4> QED
        BY <2>3, <4>2
    <3> QED
      BY <3>2, <3>3
  <2>4. ~Precedes(c, c)
    <3> SUFFICES ASSUME Precedes(c, c) PROVE FALSE
      OBVIOUS
    <3>1. c[Len(c)] < c[Len(c)] /\ c[Len(c)] = K + 1
      BY <1>2, <1>3 DEF Precedes
    <3> QED
      BY <3>1
  <2>5. Len(t[i]) = Len(t[j])
    BY <1>13 DEF Precedes
  <2>6. CASE i \in 1..n /\ t[i] = q[i]
    <3>1. j \in 1..n /\ t[j] = q[j] => i < j
      BY <1>13, <2>1, <2>6
    <3>2. \A a \in 1..m : i < n + 1 + a
      BY <2>6
    <3>3. i < n + 1
      BY <2>6
    <3> QED
      BY <1>5, <3>1, <3>2, <3>3
  <2>7. CASE i = n + 1 /\ t[i] = c
    <3>1. ASSUME NEW a \in 1..n PROVE ~Precedes(c, q[a])
      <4>1. PICK x : x = q[a]
        OBVIOUS
      <4>2. x \in D /\ x[L + 1] \in 1..K
        BY <1>7, <4>1
      <4>3. c \in D /\ Len(c) > L /\ c[L + 1] = K + 1
        BY <1>2, <1>3
      <4> QED
        BY <2>3, <4>1, <4>2, <4>3
    <3>2. \A a \in 1..m : t[j] # r[a]
      BY <1>2, <1>8, <2>5, <2>7
    <3> QED
      BY <1>5, <1>13, <2>4, <2>7, <3>1, <3>2
  <2>8. ASSUME NEW a \in 1..m, i = n + 1 + a, t[i] = r[a] PROVE i < j
    <3>1. Len(r[a]) \in Nat /\ Len(r[a]) > L /\ Len(r[a]) # L + 1
      BY <1>1, <1>8
    <3>2. \A b \in 1..n : ~Precedes(r[a], q[b])
      BY <1>7, <1>8, <2>3, <3>1
    <3>3. t[j] # c
      BY <1>2, <2>5, <2>8, <3>1
    <3>4. PICK b \in 1..m : j = n + 1 + b /\ t[j] = r[b]
      BY <1>5, <1>13, <2>8, <3>2, <3>3
    <3>5. a < b
      BY <1>13, <2>2, <2>8, <3>4
    <3> QED
      BY <2>8, <3>4, <3>5
  <2> QED
    BY <1>5, <2>6, <2>7, <2>8
<1> QED
  BY <1>2, <1>4, <1>9, <1>10, <1>11, <1>12, <1>13 DEF Listing

(* What an array holds of the locations below it, each tree guarantees.    *)
LEMMA TreeFacts ==
    ASSUME NEW outl, IsOutlineTree(outl)
    PROVE  /\ Locations(DOMAIN outl) /\ <<>> \in DOMAIN outl
           /\ \A p \in DOMAIN outl : IsSeq(p) /\ Len(p) \in Nat
           /\ \E d \in Nat : \A p \in DOMAIN outl : Len(p) <= d
           /\ \A w \in DOMAIN outl :
                 /\ outl[w].children \in Nat
                 /\ \A k \in 1..outl[w].children :
                       /\ Append(w, k) \in DOMAIN outl /\ InArray(w, Append(w, k))
                       /\ Append(w, k)[Len(w) + 1] = k
                 /\ \A p \in DOMAIN outl :
                       Below(w, p) => p[Len(w) + 1] \in 1..outl[w].children
<1>1. PICK D : D = DOMAIN outl
  OBVIOUS
<1>2. /\ Locations(D) /\ <<>> \in D
      /\ \E deepest \in D : \A p \in D : Len(p) <= Len(deepest)
      /\ \A w \in D : /\ outl[w].children \in Nat
                      /\ \A k \in 1..outl[w].children : Append(w, k) \in D
                      /\ \A m \in 0..(Len(w) - 1) :
                            SubSeq(w, 1, m) \in D
                            /\ w[m + 1] \in 1..outl[SubSeq(w, 1, m)].children
  BY <1>1 DEF IsOutlineTree, Locations
<1>3. \A p \in D : IsSeq(p) /\ Len(p) \in Nat
  BY <1>2, SeqRange DEF Locations
<1>4. \E d \in Nat : \A p \in D : Len(p) <= d
  BY <1>2, <1>3
<1>5. ASSUME NEW w \in D, NEW k \in 1..outl[w].children
      PROVE  Append(w, k) \in D /\ InArray(w, Append(w, k)) /\ Append(w, k)[Len(w) + 1] = k
  <2>1. Append(w, k) \in D
    BY <1>2
  <2>2. IsSeq(w) /\ Len(w) \in Nat
    BY <1>3
  <2>3. /\ Len(Append(w, k)) = Len(w) + 1
        /\ \A i \in 1..Len(w) : Append(w, k)[i] = w[i]
        /\ Append(w, k)[Len(w) + 1] = k
    BY <2>2, Longer
  <2> QED
    BY <2>1, <2>3 DEF InArray
<1>6. ASSUME NEW w \in D, NEW p \in D, Below(w, p)
      PROVE  p[Len(w) + 1] \in 1..outl[w].children
  <2>1. PICK m \in Nat : m = Len(w) /\ IsSeq(w)
    BY <1>3
  <2>2. IsSeq(p) /\ Len(p) \in Nat /\ Len(p) > m /\ \A x \in 1..m : p[x] = w[x]
    BY <1>3, <1>6, <2>1 DEF Below
  <2>3. PICK s : s = SubSeq(p, 1, m)
    OBVIOUS
  <2>4. IsSeq(s) /\ Len(s) = m /\ \A x \in 1..m : s[x] = p[x]
    <3>1. m \in 0..Len(p)
      BY <2>2
    <3> QED
      BY <2>2, <2>3, <3>1, Prefix
  <2>5. s = w
    BY <2>1, <2>2, <2>4, SameSeq
  <2>6. m \in 0..(Len(p) - 1)
    BY <2>2
  <2>7. p[m + 1] \in 1..outl[s].children
    BY <1>2, <2>3, <2>6
  <2> QED
    BY <2>1, <2>5, <2>7
<1> QED
  BY <1>1, <1>2, <1>3, <1>4, <1>5, <1>6

(* visit() on the array at a location, given what it does below.           *)
Visited(outl, visit, w) ==
    [k \in 1..outl[w].children |->
        <<FlatEntry(outl, Append(w, k))>> \o visit[Append(w, k)]]

IsVisit(visit, outl) ==
    visit = [w \in DOMAIN outl |-> FlattenSeq(Visited(outl, visit, w))]

LEMMA VisitExists ==
    ASSUME NEW outl, IsOutlineTree(outl)
    PROVE  \E visit : IsVisit(visit, outl)
<1>1. PICK D : D = DOMAIN outl
  OBVIOUS
<1>2. PICK d \in Nat : \A p \in D : Len(p) <= d
  BY <1>1, TreeFacts
<1>3. PICK H : H = {h \in Nat : \E f : /\ DOMAIN f = D /\ f = [w \in D |-> f[w]]
                                       /\ \A w \in D : Len(w) + h > d =>
                                             f[w] = FlattenSeq(Visited(outl, f, w))}
  OBVIOUS
<1>4. 0 \in H
  <2>1. PICK f : f = [w \in D |-> 0]
    OBVIOUS
  <2>2. \A w \in D : ~(Len(w) + 0 > d)
    BY <1>1, <1>2, TreeFacts
  <2>3. DOMAIN f = D /\ f = [w \in D |-> f[w]]
    BY <2>1
  <2> QED
    BY <1>3, <2>2, <2>3
<1>5. ASSUME NEW h \in Nat, h \in H PROVE h + 1 \in H
  <2>1. PICK f : /\ DOMAIN f = D /\ f = [w \in D |-> f[w]]
                 /\ \A w \in D : Len(w) + h > d => f[w] = FlattenSeq(Visited(outl, f, w))
    BY <1>3, <1>5
  <2>2. PICK g : g = [w \in D |-> FlattenSeq(Visited(outl, f, w))]
    OBVIOUS
  <2>3. ASSUME NEW w \in D, Len(w) + (h + 1) > d
        PROVE  g[w] = FlattenSeq(Visited(outl, g, w))
    <3>1. ASSUME NEW k \in 1..outl[w].children PROVE g[Append(w, k)] = f[Append(w, k)]
      <4>1. PICK c : c = Append(w, k)
        OBVIOUS
      <4>2. c \in D /\ Len(c) = Len(w) + 1 /\ Len(w) \in Nat
        BY <1>1, <4>1, TreeFacts DEF InArray
      <4>3. Len(c) + h > d
        BY <2>3, <4>2
      <4> QED
        BY <2>1, <2>2, <4>1, <4>2, <4>3
    <3>2. Visited(outl, g, w) = Visited(outl, f, w)
      BY <3>1 DEF Visited
    <3> QED
      BY <2>2, <3>2
  <2>4. DOMAIN g = D /\ g = [w \in D |-> g[w]]
    BY <2>2
  <2> QED
    BY <1>3, <2>3, <2>4
<1>6. \A h \in Nat : h \in H
  BY <1>4, <1>5, SetInduction
<1>7. PICK f : /\ DOMAIN f = D /\ f = [w \in D |-> f[w]]
               /\ \A w \in D : Len(w) + (d + 1) > d => f[w] = FlattenSeq(Visited(outl, f, w))
  <2>1. d + 1 \in H
    BY <1>6
  <2> QED
    BY <1>3, <2>1
<1>8. \A w \in D : f[w] = FlattenSeq(Visited(outl, f, w))
  <2>1. \A w \in D : Len(w) \in Nat
    BY <1>1, TreeFacts
  <2>2. \A w \in D : Len(w) + (d + 1) > d
    BY <2>1
  <2> QED
    BY <1>7, <2>2
<1>9. f = [w \in D |-> FlattenSeq(Visited(outl, f, w))]
  BY <1>7, <1>8
<1> QED
  BY <1>1, <1>9 DEF IsVisit

LEMMA FlattenOutlineIs ==
    ASSUME NEW outl, IsOutlineTree(outl)
    PROVE  \E visit : IsVisit(visit, outl) /\ FlattenOutline(outl) = visit[<<>>]
<1>1. PICK visit : visit = CHOOSE f : IsVisit(f, outl)
  OBVIOUS
<1>2. IsVisit(visit, outl)
  BY <1>1, VisitExists
<1>3. FlattenOutline(outl) = (CHOOSE f : IsVisit(f, outl))[<<>>]
  BY Zenon DEF FlattenOutline, IsVisit, Visited
<1> QED
  BY <1>1, <1>2, <1>3

(* A list of entries made from the bookmarks in the first places of the    *)
(* array at w and all below them, in preorder.                             *)
Where(s) == [i \in 1..Len(s) |-> s[i].location]

ListsArray(s, outl, w, places) ==
    /\ IsSeq(s)
    /\ \A i \in 1..Len(s) : s[i] = FlatEntry(outl, s[i].location)
    /\ Listing(Where(s), Len(s), DOMAIN outl, w, places)

(* One place more: a bookmark, then its children.                          *)
LEMMA ListsOneMore ==
    ASSUME NEW outl, IsOutlineTree(outl), NEW w \in DOMAIN outl,
           NEW K \in Nat, K + 1 \in 1..outl[w].children,
           NEW s, ListsArray(s, outl, w, K),
           NEW c, c = Append(w, K + 1), NEW v, ListsArray(v, outl, c, outl[c].children),
           NEW t, t = s \o (<<FlatEntry(outl, c)>> \o v)
    PROVE  ListsArray(t, outl, w, K + 1)
<1>1. PICK D : D = DOMAIN outl
  OBVIOUS
<1>2. /\ Locations(D) /\ c \in D /\ InArray(w, c) /\ c[Len(w) + 1] = K + 1
      /\ \A p \in D : Below(c, p) => p[Len(c) + 1] \in 1..outl[c].children
  BY <1>1, TreeFacts
<1>3. PICK n, m \in Nat : n = Len(s) /\ m = Len(v)
  BY SeqFacts DEF ListsArray
<1>4. PICK n1 \in Nat : n1 = n
  BY <1>3, SeqFacts DEF ListsArray
<1>5. PICK e, one : e = FlatEntry(outl, c) /\ one = <<e>>
  OBVIOUS
<1>6. IsSeq(one) /\ Len(one) = 1 /\ one[1] = e
  <2>1. one \in Seq({e})
    BY <1>5
  <2> QED
    BY <1>5, <2>1 DEF IsSeq
<1>7. PICK u : u = one \o v
  OBVIOUS
<1>8. /\ IsSeq(u) /\ Len(u) = 1 + m /\ u[1] = e
      /\ \A i \in 1..m : u[1 + i] = v[i]
  <2>1. /\ IsSeq(one \o v) /\ Len(one \o v) = Len(one) + Len(v)
        /\ \A i \in 1..Len(one) : (one \o v)[i] = one[i]
        /\ \A i \in 1..Len(v) : (one \o v)[Len(one) + i] = v[i]
    <3>1. IsSeq(one) /\ IsSeq(v)
      BY <1>6 DEF ListsArray
    <3> QED
      BY <3>1, Concat
  <2> QED
    BY <1>3, <1>6, <1>7, <2>1
<1>9. /\ IsSeq(t) /\ Len(t) = n + (1 + m)
      /\ \A i \in 1..n : t[i] = s[i]
      /\ \A i \in 1..(1 + m) : t[n + i] = u[i]
  <2>1. t = s \o u
    BY <1>5, <1>7
  <2>2. /\ IsSeq(s \o u) /\ Len(s \o u) = Len(s) + Len(u)
        /\ \A i \in 1..Len(s) : (s \o u)[i] = s[i]
        /\ \A i \in 1..Len(u) : (s \o u)[Len(s) + i] = u[i]
    <3>1. IsSeq(s) /\ IsSeq(u)
      BY <1>8 DEF ListsArray
    <3> QED
      BY <3>1, Concat
  <2> QED
    BY <1>3, <1>8, <2>1, <2>2
<1>10. Len(t) = n + 1 + m /\ n \in Nat /\ t[n + 1] = e
  <2>1. 1 \in 1..(1 + m) /\ n + (1 + m) = n + 1 + m /\ n \in Nat
    BY <1>3, <1>4
  <2>2. t[n + 1] = u[1]
    BY <1>9, <2>1
  <2> QED
    BY <1>8, <1>9, <2>1, <2>2
<1>11. ASSUME NEW i \in 1..m PROVE t[n + 1 + i] = v[i]
  <2>1. 1 + i \in 1..(1 + m) /\ n + (1 + i) = n + 1 + i
    BY <1>4
  <2> QED
    BY <1>8, <1>9, <2>1
<1>12. e.location = c
  BY <1>5 DEF FlatEntry
<1>13. Joined(Where(t), Where(s), n, c, Where(v), m)
  <2>1. ASSUME NEW i \in 1..n PROVE Where(t)[i] = Where(s)[i]
    <3>1. i \in 1..Len(t) /\ i \in 1..Len(s)
      BY <1>3, <1>10
    <3> QED
      BY <1>9, <3>1 DEF Where
  <2>2. Where(t)[n + 1] = c
    <3>1. n + 1 \in 1..Len(t)
      BY <1>10
    <3> QED
      BY <1>10, <1>12, <3>1 DEF Where
  <2>3. ASSUME NEW i \in 1..m PROVE Where(t)[n + 1 + i] = Where(v)[i]
    <3>1. n + 1 + i \in 1..Len(t) /\ i \in 1..Len(v)
      BY <1>3, <1>10
    <3> QED
      BY <1>11, <3>1 DEF Where
  <2> QED
    BY <2>1, <2>2, <2>3 DEF Joined
<1>14. Listing(Where(t), n + 1 + m, D, w, K + 1)
  <2>1. Listing(Where(s), n, D, w, K) /\ Listing(Where(v), m, D, c, outl[c].children)
    BY <1>1, <1>3 DEF ListsArray
  <2>2. w \in D /\ n \in Nat
    BY <1>1, <1>10
  <2> QED
    BY <1>2, <1>13, <2>1, <2>2, ListingStep
<1>15. ASSUME NEW i \in 1..Len(t) PROVE t[i] = FlatEntry(outl, t[i].location)
  <2>1. CASE i \in 1..n
    BY <1>3, <1>9, <2>1 DEF ListsArray
  <2>2. CASE i = n + 1
    BY <1>5, <1>10, <1>12, <2>2
  <2>3. CASE i > n + 1
    <3>1. PICK j \in 1..m : i = n + 1 + j
      <4>1. i - n - 1 \in 1..m /\ i = n + 1 + (i - n - 1)
        BY <1>10, <2>3
      <4> QED
        BY <4>1
    <3>2. t[i] = v[j] /\ v[j] = FlatEntry(outl, v[j].location)
      BY <1>3, <1>11, <3>1 DEF ListsArray
    <3> QED
      BY <3>2
  <2> QED
    BY <1>10, <2>1, <2>2, <2>3
<1> QED
  BY <1>1, <1>9, <1>10, <1>14, <1>15 DEF ListsArray

LEMMA ListsNothing ==
    ASSUME NEW outl, NEW w PROVE ListsArray(<<>>, outl, w, 0)
<1>1. PICK s : s = <<>>
  OBVIOUS
<1>2. IsSeq(s) /\ Len(s) = 0
  BY <1>1 DEF IsSeq
<1>3. Listing(Where(s), 0, DOMAIN outl, w, 0)
  BY DEF Listing
<1> QED
  BY <1>1, <1>2, <1>3 DEF ListsArray

(* A list of n + 1 lists is one of n with a part after it.                 *)
OneMore(q, r, n, part) ==
    /\ n \in Nat /\ IsSeq(q) /\ Len(q) = n + 1
    /\ IsSeq(r) /\ Len(r) = n
    /\ \A i \in 1..n : q[i] = r[i]
    /\ IsSeq(part) /\ q[n + 1] = part

LEMMA FlattenOne ==
    ASSUME NEW n, NEW q, NEW r, NEW part, OneMore(q, r, n, part)
    PROVE  FlattenSeq(q) = FlattenSeq(r) \o part
BY FlattenStep DEF OneMore

(* Every array is flattened into the list of what lies below it.           *)
LEMMA VisitLists ==
    ASSUME NEW outl, IsOutlineTree(outl), NEW visit, IsVisit(visit, outl)
    PROVE  \A w \in DOMAIN outl : ListsArray(visit[w], outl, w, outl[w].children)
<1>1. PICK D : D = DOMAIN outl
  OBVIOUS
<1>2. PICK d \in Nat : \A p \in D : Len(p) <= d
  BY <1>1, TreeFacts
<1>3. PICK H : H = {h \in Nat : \A w \in D : Len(w) + h > d =>
                                   ListsArray(visit[w], outl, w, outl[w].children)}
  OBVIOUS
<1>4. 0 \in H
  <2>1. \A w \in D : ~(Len(w) + 0 > d)
    BY <1>1, <1>2, TreeFacts
  <2> QED
    BY <1>3, <2>1
<1>5. ASSUME NEW h \in Nat, h \in H PROVE h + 1 \in H
  <2> SUFFICES ASSUME NEW w \in D, Len(w) + (h + 1) > d
               PROVE  ListsArray(visit[w], outl, w, outl[w].children)
    BY <1>3
  <2>1. PICK length \in Nat : length = outl[w].children
    BY <1>1, TreeFacts
  <2>2. PICK parts : parts = Visited(outl, visit, w)
    OBVIOUS
  <2>3. /\ DOMAIN parts = 1..length
        /\ \A k \in 1..length : parts[k] = <<FlatEntry(outl, Append(w, k))>> \o visit[Append(w, k)]
    BY <2>1, <2>2 DEF Visited
  <2>4. ASSUME NEW k \in 1..length
        PROVE  ListsArray(visit[Append(w, k)], outl, Append(w, k), outl[Append(w, k)].children)
    <3>1. PICK c : c = Append(w, k)
      OBVIOUS
    <3>2. c \in D /\ Len(c) = Len(w) + 1 /\ Len(w) \in Nat
      BY <1>1, <2>1, <3>1, TreeFacts DEF InArray
    <3>3. Len(c) + h > d
      BY <3>2
    <3> QED
      BY <1>3, <1>5, <3>1, <3>2, <3>3
  <2>5. PICK T : T = {n \in Nat : n <= length =>
                        \A q : IsSeq(q) /\ Len(q) = n /\ (\A i \in 1..n : q[i] = parts[i])
                                 => ListsArray(FlattenSeq(q), outl, w, n)}
    OBVIOUS
  <2>6. 0 \in T
    <3>1. ASSUME NEW q, IsSeq(q), Len(q) = 0 PROVE ListsArray(FlattenSeq(q), outl, w, 0)
      <4>1. q = <<>>
        BY <3>1 DEF IsSeq
      <4>2. FlattenSeq(q) = <<>>
        BY <4>1 DEF FlattenSeq
      <4> QED
        BY <4>2, ListsNothing
    <3> QED
      BY <2>5, <3>1
  <2>7. ASSUME NEW n \in Nat, n \in T PROVE n + 1 \in T
    <3> SUFFICES ASSUME n + 1 <= length, NEW q, IsSeq(q), Len(q) = n + 1,
                        \A i \in 1..(n + 1) : q[i] = parts[i]
                 PROVE  ListsArray(FlattenSeq(q), outl, w, n + 1)
      BY <2>5
    <3>1. PICK r : r = [i \in 1..n |-> parts[i]]
      OBVIOUS
    <3>2. IsSeq(r) /\ Len(r) = n /\ \A i \in 1..n : r[i] = parts[i]
      <4>1. DOMAIN r = 1..n /\ r = [i \in 1..n |-> r[i]]
        BY <3>1
      <4> QED
        BY <3>1, <4>1, SeqMade
    <3>3. ListsArray(FlattenSeq(r), outl, w, n)
      BY <2>5, <2>7, <3>2
    <3>4. PICK c, v, part : /\ c = Append(w, n + 1) /\ v = visit[c]
                            /\ part = <<FlatEntry(outl, c)>> \o v
      OBVIOUS
    <3>5. n + 1 \in 1..length /\ q[n + 1] = part /\ ListsArray(v, outl, c, outl[c].children)
      BY <2>3, <2>4, <3>4
    <3>6. IsSeq(part)
      <4>1. PICK one : one = <<FlatEntry(outl, c)>>
        OBVIOUS
      <4>2. one \in Seq({FlatEntry(outl, c)})
        BY <4>1
      <4>3. IsSeq(one) /\ IsSeq(v)
        BY <3>5, <4>2 DEF IsSeq, ListsArray
      <4> QED
        BY <3>4, <4>1, <4>3, Concat
    <3>7. FlattenSeq(q) = FlattenSeq(r) \o part
      <4>1. \A i \in 1..n : q[i] = r[i]
        BY <3>2
      <4>2. OneMore(q, r, n, part)
        BY <3>2, <3>5, <3>6, <4>1 DEF OneMore
      <4> QED
        BY <4>2, FlattenOne
    <3>8. FlattenSeq(q) = FlattenSeq(r) \o (<<FlatEntry(outl, c)>> \o v)
      BY <3>4, <3>7
    <3> QED
      BY <1>1, <2>1, <3>3, <3>4, <3>5, <3>8, ListsOneMore
  <2>8. \A n \in Nat : n \in T
    BY <2>6, <2>7, SetInduction
  <2>9. ListsArray(FlattenSeq(parts), outl, w, length)
    <3>1. IsSeq(parts) /\ Len(parts) = length
      <4>1. parts = [k \in 1..length |-> parts[k]]
        BY <2>1, <2>2 DEF Visited
      <4> QED
        BY <2>3, <4>1, SeqMade
    <3>2. length \in T
      BY <2>8
    <3> QED
      BY <2>5, <3>1, <3>2
  <2>10. visit[w] = FlattenSeq(parts)
    BY <1>1, <2>2 DEF IsVisit
  <2> QED
    BY <2>1, <2>9, <2>10
<1>6. \A h \in Nat : h \in H
  BY <1>4, <1>5, SetInduction
<1>7. ASSUME NEW w \in D PROVE ListsArray(visit[w], outl, w, outl[w].children)
  <2>1. d + 1 \in H /\ Len(w) \in Nat
    BY <1>1, <1>6, TreeFacts
  <2>2. Len(w) + (d + 1) > d
    BY <2>1
  <2> QED
    BY <1>3, <2>1, <2>2
<1> QED
  BY <1>1, <1>7

(* The nested bookmarks of a call, flattened (flattenOutline(), index.js). *)
LEMMA FlattenLists ==
    ASSUME NEW outl, IsOutlineTree(outl)
    PROVE  ListsArray(FlattenOutline(outl), outl, <<>>, outl[<<>>].children)
<1>1. PICK visit : IsVisit(visit, outl) /\ FlattenOutline(outl) = visit[<<>>]
  BY FlattenOutlineIs
<1>2. <<>> \in DOMAIN outl
  BY TreeFacts
<1> QED
  BY <1>1, <1>2, VisitLists

-----------------------------------------------------------------------------
(* What a merge keeps of its arguments, and gives to the assembly.         *)
Flattened == mpc \in {"looping", "appending", "finalizing", "resolved"}

CallInv ==
    /\ call \in Calls
    /\ DOMAIN held = DOMAIN call.inputs /\ \A i \in DOMAIN held : held[i] \in Shards
    /\ taken = NoDoc \/ taken \in Shards
    /\ IsSeq(results) /\ Len(results) <= Len(call.inputs)
    /\ mpc = "appending" => Len(results) < Len(call.inputs)
    /\ mpc \in {"finalizing", "resolved"} => Len(results) = Len(call.inputs)
    /\ call.host = "direct" => mpc = "start"
    /\ Flattened => flat = FlattenOutline(call.outline) /\ ~FlattenThrows(flat)
    /\ mpc = "resolved" => phase = "published" /\ outline = flat

LEMMA CallInputs ==
    ASSUME NEW c \in Calls
    PROVE  /\ IsSeq(c.inputs) /\ Len(c.inputs) \in Nat /\ DOMAIN c.inputs = 1..Len(c.inputs)
           /\ \A i \in DOMAIN c.inputs : c.inputs[i].doc \in Shards
           /\ IsOutlineTree(c.outline)
<1>1. PICK S : S = [type : ArgumentTypes, doc : Shards]
  OBVIOUS
<1>2. c.inputs \in Seq(S) /\ IsOutlineTree(c.outline)
  BY <1>1, CallsWellFormed
<1>3. \A x \in S : x.doc \in Shards
  BY <1>1
<1> QED
  BY <1>2, <1>3, SeqRange

(* The list a merge makes of nested bookmarks can be given to finalize().  *)
LEMMA FlatIsOutline ==
    ASSUME NEW outl, IsOutlineTree(outl), NEW s, s = FlattenOutline(outl), ~FlattenThrows(s)
    PROVE  IsOutline(s)
<1>1. ListsArray(s, outl, <<>>, outl[<<>>].children)
  BY FlattenLists
<1>2. IsSeq(s) /\ Len(s) \in Nat /\ DOMAIN s = 1..Len(s)
  BY <1>1, SeqFacts DEF ListsArray
<1>3. ASSUME NEW i \in 1..Len(s) PROVE s[i].level \in Nat /\ s[i].page \in Nat
  <2>1. PICK p : p = s[i].location
    OBVIOUS
  <2>2. p \in DOMAIN outl /\ Below(<<>>, p)
    <3>1. Where(s)[i] = p
      BY <2>1 DEF Where
    <3> QED
      BY <1>1, <3>1 DEF ListsArray, Listing
  <2>3. s[i] = FlatEntry(outl, p)
    BY <1>1, <2>1 DEF ListsArray
  <2>4. Len(p) \in Nat /\ Len(p) > 0
    BY <2>2, TreeFacts DEF Below
  <2>5. p # <<>>
    BY <2>4
  <2>6. outl[p].page \in Int
    BY <2>2, <2>5 DEF IsOutlineTree
  <2>7. s[i].level = Len(p) - 1 /\ s[i].page = outl[p].page
    BY <2>3 DEF FlatEntry
  <2>8. ~(s[i].page < 0)
    BY <1>2 DEF FlattenThrows
  <2> QED
    BY <2>4, <2>6, <2>7, <2>8
<1> QED
  BY <1>2, <1>3 DEF IsOutline

LEMMA InitCall == MergeInit => CallInv
<1> SUFFICES ASSUME MergeInit PROVE CallInv
  OBVIOUS
<1>1. call \in Calls /\ mpc = "start" /\ taken = NoDoc
      /\ held = [i \in DOMAIN call.inputs |-> call.inputs[i].doc]
  BY DEF MergeInit
<1>2. \A i \in DOMAIN call.inputs : call.inputs[i].doc \in Shards
  BY <1>1, CallInputs
<1>3. IsSeq(results) /\ Len(results) = 0 /\ Len(call.inputs) \in Nat
  BY <1>1, CallInputs DEF MergeInit, IsSeq
<1> QED
  BY <1>1, <1>2, <1>3 DEF CallInv, Flattened

(* Every step of a merge is a call of the assembly, or none.               *)
LEMMA MergeIsStep == CallInv /\ [MergeNext]_<<vars, mvars>> => Step
<1> SUFFICES ASSUME CallInv, [MergeNext]_<<vars, mvars>> PROVE Step
  OBVIOUS
<1>1. ASSUME Direct PROVE Step
  BY <1>1, NextIsStep DEF Direct
<1>2. ASSUME Appended PROVE Step
  BY <1>2 DEF Appended, CallInv, Step
<1>3. ASSUME Finalized PROVE Step
  <2>1. call \in Calls /\ flat = FlattenOutline(call.outline) /\ ~FlattenThrows(flat)
    BY <1>3 DEF Finalized, CallInv, Flattened
  <2>2. IsOutline(flat)
    BY <2>1, CallInputs, FlatIsOutline
  <2> QED
    BY <1>3, <2>2 DEF Finalized, Step
<1>4. ASSUME UNCHANGED vars PROVE Step
  BY <1>4 DEF Step
<1>5. Start \/ ThrowIfAborted \/ SpawnAppend \/ TaskReads \/ SpawnFinalize \/ AbortSignal
         \/ (\E i \in DOMAIN held : Rewrite(i)) \/ MergeEnded
         \/ UNCHANGED <<vars, mvars>> => UNCHANGED vars
  BY DEF Start, ThrowIfAborted, SpawnAppend, TaskReads, SpawnFinalize, AbortSignal, Rewrite,
         MergeEnded, Untouched
<1> QED
  BY <1>1, <1>2, <1>3, <1>4, <1>5 DEF MergeNext

LEMMA NextCall == CallInv /\ [MergeNext]_<<vars, mvars>> => CallInv'
<1> SUFFICES ASSUME CallInv, [MergeNext]_<<vars, mvars>> PROVE CallInv'
  OBVIOUS
<1> USE DEF Flattened
<1>1. call \in Calls /\ Len(results) \in Nat /\ Len(call.inputs) \in Nat
  BY CallInputs, SeqFacts DEF CallInv
<1>2. ASSUME Direct PROVE CallInv'
  <2>1. UNCHANGED <<call, mpc, held, taken, flat, results>> /\ mpc = "start"
    BY <1>2 DEF Direct, mvars, CallInv
  <2> QED
    BY <2>1 DEF CallInv
<1>3. ASSUME Start PROVE CallInv'
  <2>1. UNCHANGED <<call, held, taken, results>> /\ call.host = "merge"
    BY <1>3 DEF Start
  <2>2. \/ mpc' = "rejected" /\ UNCHANGED flat
        \/ /\ mpc' = "looping" /\ ~FlattenThrows(FlattenOutline(call.outline))
           /\ flat' = FlattenOutline(call.outline)
    BY <1>3 DEF Start, ArgumentsValid
  <2>3. flat' = FlattenOutline(call.outline) => FlattenThrows(flat') = FlattenThrows(FlattenOutline(call.outline))
    OBVIOUS
  <2> QED
    BY <2>1, <2>2 DEF CallInv
<1>4. ASSUME ThrowIfAborted PROVE CallInv'
  BY <1>4 DEF ThrowIfAborted, CallInv
<1>5. ASSUME SpawnAppend PROVE CallInv'
  <2>1. Index \in DOMAIN held
    <3>1. Index \in 1..Len(call.inputs)
      BY <1>1, <1>5 DEF Index, SpawnAppend
    <3> QED
      BY <1>1, <3>1, CallInputs DEF CallInv
  <2>2. taken' = NoDoc \/ taken' \in Shards
    <3>1. held[Index] \in Shards
      BY <2>1 DEF CallInv
    <3> QED
      BY <1>5, <3>1 DEF SpawnAppend
  <2>3. Len(results) < Len(call.inputs)
    BY <1>1, <1>5 DEF SpawnAppend, Index
  <2> QED
    BY <1>5, <2>2, <2>3 DEF SpawnAppend, CallInv
<1>6. ASSUME TaskReads PROVE CallInv'
  <2>1. UNCHANGED <<call, mpc, held, flat, results, vars>> /\ taken' = held[Index]
    BY <1>6 DEF TaskReads, Untouched
  <2>2. Index \in DOMAIN held
    <3>1. Index \in 1..Len(call.inputs)
      BY <1>1, <1>6 DEF Index, TaskReads, CallInv
    <3> QED
      BY <1>1, <3>1, CallInputs DEF CallInv
  <2>3. held[Index] \in Shards
    BY <2>2 DEF CallInv
  <2> QED
    BY <2>1, <2>3 DEF CallInv, vars
<1>7. ASSUME Appended PROVE CallInv'
  <2>1. UNCHANGED <<call, held, flat>> /\ taken' = NoDoc /\ mpc = "appending"
    BY <1>7 DEF Appended
  <2>2. IsSeq(results)
    BY DEF CallInv
  <2>3. /\ IsSeq(results') /\ Len(results') \in {Len(results), Len(results) + 1}
        /\ mpc' \in {"looping", "rejected"}
    <3>1. mpc' \in {"looping", "rejected"}
      BY <1>7 DEF Appended
    <3>2. results' = results \/ \E e : results' = Append(results, e)
      BY <1>7 DEF Appended
    <3>3. CASE results' = results
      BY <2>2, <3>1, <3>3
    <3>4. ASSUME NEW e, results' = Append(results, e)
          PROVE  IsSeq(results') /\ Len(results') = Len(results) + 1
      <4>1. IsSeq(Append(results, e)) /\ Len(Append(results, e)) = Len(results) + 1
        BY <2>2, Longer
      <4> QED
        BY <3>4, <4>1
    <3> QED
      BY <3>1, <3>2, <3>3, <3>4
  <2>4. Len(results') <= Len(call.inputs)
    BY <1>1, <2>1, <2>3 DEF CallInv
  <2> QED
    BY <2>1, <2>3, <2>4 DEF CallInv
<1>8. ASSUME SpawnFinalize PROVE CallInv'
  <2>1. Len(results) = Len(call.inputs)
    BY <1>1, <1>8 DEF SpawnFinalize, Index, CallInv
  <2> QED
    BY <1>8, <2>1 DEF SpawnFinalize, CallInv
<1>9. ASSUME Finalized PROVE CallInv'
  <2>1. UNCHANGED <<call, held, taken, flat, results>> /\ mpc = "finalizing"
    BY <1>9 DEF Finalized
  <2>2. mpc' \in {"resolved", "rejected"} /\ (mpc' = "resolved" => phase' = "published")
    BY <1>9 DEF Finalized
  <2>3. phase' = "published" => outline' = flat
    BY <1>9 DEF Finalized, Finalize, Fails, Failures
  <2> QED
    BY <2>1, <2>2, <2>3 DEF CallInv
<1>10. ASSUME NEW i \in DOMAIN held, Rewrite(i) PROVE CallInv'
  <2>1. UNCHANGED <<call, mpc, taken, flat, results>> /\ mpc \notin Settled
    BY <1>10 DEF Rewrite
  <2>2. PICK c \in Calls : \E k \in DOMAIN c.inputs : held' = [held EXCEPT ![i] = c.inputs[k].doc]
    BY <1>10 DEF Rewrite
  <2>5. PICK k \in DOMAIN c.inputs : held' = [held EXCEPT ![i] = c.inputs[k].doc]
    BY <2>2
  <2>3. c.inputs[k].doc \in Shards
    BY CallInputs
  <2>4. DOMAIN held' = DOMAIN held /\ \A j \in DOMAIN held : held'[j] \in Shards
    BY <2>3, <2>5 DEF CallInv
  <2> QED
    BY <2>1, <2>4 DEF CallInv, Settled
<1>11. ASSUME AbortSignal \/ MergeEnded \/ UNCHANGED <<vars, mvars>> PROVE CallInv'
  <2>1. UNCHANGED <<call, mpc, held, taken, flat, results, vars>>
    BY <1>11 DEF AbortSignal, MergeEnded, mvars, Untouched
  <2> QED
    BY <2>1 DEF CallInv, vars
<1> QED
  BY <1>2, <1>3, <1>4, <1>5, <1>6, <1>7, <1>8, <1>9, <1>10, <1>11 DEF MergeNext

-----------------------------------------------------------------------------
(* What the results of a merge say of the pages it has appended.           *)

(* Of the m origins F, those of call i are where result i has them.        *)
CountsPages(F, r, n, m) ==
    /\ IsSeq(F) /\ Len(F) = m
    /\ \A i \in 1..n : /\ r[i].pageCount \in Nat \ {0} /\ r[i].startPageIndex \in Nat
                       /\ r[i].startPageIndex + r[i].pageCount <= m
    /\ \A i \in 1..n : \A p \in 1..m :
          F[p][1] = i <=> p \in (r[i].startPageIndex + 1)..(r[i].startPageIndex + r[i].pageCount)
    /\ \A p \in 1..m : F[p][1] \in 1..n

LEMMA CountsStep ==
    ASSUME NEW n \in Nat, NEW m \in Nat, NEW k \in Nat \ {0},
           NEW F, NEW r, CountsPages(F, r, n, m),
           NEW G, IsSeq(G), Len(G) = m + k, \A p \in 1..m : G[p] = F[p],
           \A p \in (m + 1)..(m + k) : G[p][1] = n + 1,
           NEW q, \A i \in 1..n : q[i] = r[i],
           q[n + 1] = [pageCount |-> k, startPageIndex |-> m]
    PROVE  CountsPages(G, q, n + 1, m + k)
<1>1. ASSUME NEW i \in 1..n
      PROVE  /\ q[i].pageCount \in Nat \ {0} /\ q[i].startPageIndex \in Nat
             /\ q[i].startPageIndex + q[i].pageCount <= m
             /\ \A p \in 1..m : G[p][1] = i <=>
                   p \in (q[i].startPageIndex + 1)..(q[i].startPageIndex + q[i].pageCount)
  <2>1. PICK e : e = r[i]
    OBVIOUS
  <2>2. q[i] = e
    BY <2>1
  <2>3. /\ e.pageCount \in Nat \ {0} /\ e.startPageIndex \in Nat
        /\ e.startPageIndex + e.pageCount <= m
    BY <2>1 DEF CountsPages
  <2>4. \A p \in 1..m : F[p][1] = i <=>
           p \in (e.startPageIndex + 1)..(e.startPageIndex + e.pageCount)
    BY <2>1 DEF CountsPages
  <2> QED
    BY <2>2, <2>3, <2>4
<1>2. q[n + 1].pageCount = k /\ q[n + 1].startPageIndex = m
  OBVIOUS
<1>3. \A p \in 1..m : G[p][1] \in 1..n
  BY DEF CountsPages
<1>4. \A p \in 1..(m + k) : p \in 1..m \/ p \in (m + 1)..(m + k)
  OBVIOUS
<1>5. \A i \in 1..(n + 1) : i \in 1..n \/ i = n + 1
  OBVIOUS
<1>6. ASSUME NEW p \in 1..(m + k) PROVE G[p][1] \in 1..(n + 1)
  BY <1>3, <1>4
<1>7. ASSUME NEW i \in 1..(n + 1)
      PROVE  /\ q[i].pageCount \in Nat \ {0} /\ q[i].startPageIndex \in Nat
             /\ q[i].startPageIndex + q[i].pageCount <= m + k
  <2>1. CASE i \in 1..n
    <3>1. PICK a, b : a = q[i].startPageIndex /\ b = q[i].pageCount
      OBVIOUS
    <3>2. a \in Nat /\ b \in Nat \ {0} /\ a + b <= m
      BY <1>1, <2>1, <3>1
    <3>3. a + b <= m + k
      BY <3>2
    <3> QED
      BY <3>1, <3>2, <3>3
  <2>2. CASE i = n + 1
    BY <1>2, <2>2
  <2> QED
    BY <1>5, <2>1, <2>2
<1>8. ASSUME NEW i \in 1..(n + 1), NEW p \in 1..(m + k)
      PROVE  G[p][1] = i <=>
                p \in (q[i].startPageIndex + 1)..(q[i].startPageIndex + q[i].pageCount)
  <2>1. PICK a, b : a = q[i].startPageIndex /\ b = q[i].pageCount
    OBVIOUS
  <2>2. a \in Nat /\ b \in Nat \ {0}
    BY <1>7, <2>1
  <2>3. CASE i \in 1..n /\ p \in 1..m
    BY <1>1, <2>3
  <2>4. CASE i \in 1..n /\ p \in (m + 1)..(m + k)
    <3>1. G[p][1] # i
      BY <2>4
    <3>2. a + b <= m
      BY <1>1, <2>1, <2>4
    <3>3. p \notin (a + 1)..(a + b)
      BY <2>2, <2>4, <3>2
    <3> QED
      BY <2>1, <3>1, <3>3
  <2>5. CASE i = n + 1 /\ p \in 1..m
    <3>1. G[p][1] # i
      BY <1>3, <2>5
    <3>2. a = m
      BY <1>2, <2>1, <2>5
    <3>3. p \notin (a + 1)..(a + b)
      BY <2>2, <2>5, <3>2
    <3> QED
      BY <2>1, <3>1, <3>3
  <2>6. CASE i = n + 1 /\ p \in (m + 1)..(m + k)
    BY <1>2, <2>6
  <2> QED
    BY <1>4, <1>5, <2>3, <2>4, <2>5, <2>6
<1> QED
  BY <1>6, <1>7, <1>8 DEF CountsPages

(* The call and the page that each page of the output comes from.          *)
Origins(a) == FlattenSeq([i \in DOMAIN a |-> CallPages(a[i])])

ResultsInv ==
    call.host # "direct" /\ mpc # "rejected" =>
        /\ appends = Len(results) /\ Len(appended) = Len(results) /\ IsSeq(appended)
        /\ pageCount \in Nat
        /\ CountsPages(Origins(appended), results, Len(results), pageCount)

LEMMA OriginsStep ==
    ASSUME NEW a, IsSeq(a), NEW n, n = Len(a), NEW e, NEW b, b = Append(a, e),
           IsSeq(CallPages(e))
    PROVE  Origins(b) = Origins(a) \o CallPages(e)
<1>1. n \in Nat /\ DOMAIN a = 1..n
  BY SeqFacts
<1>2. IsSeq(b) /\ Len(b) = n + 1 /\ (\A i \in 1..n : b[i] = a[i]) /\ b[n + 1] = e
  BY Longer
<1>3. DOMAIN b = 1..(n + 1)
  BY <1>2, SeqFacts
<1>4. PICK r, q, part : /\ r = [i \in DOMAIN a |-> CallPages(a[i])]
                        /\ q = [i \in DOMAIN b |-> CallPages(b[i])]
                        /\ part = CallPages(e)
  OBVIOUS
<1>5. IsSeq(r) /\ Len(r) = n
  <2>1. DOMAIN r = 1..n /\ r = [i \in 1..n |-> r[i]]
    BY <1>1, <1>4
  <2> QED
    BY <1>1, <2>1, SeqMade
<1>6. IsSeq(q) /\ Len(q) = n + 1
  <2>1. DOMAIN q = 1..(n + 1) /\ q = [i \in 1..(n + 1) |-> q[i]]
    BY <1>3, <1>4
  <2>2. n + 1 \in Nat
    BY <1>1
  <2> QED
    BY <2>1, <2>2, SeqMade
<1>7. ASSUME NEW i \in 1..n PROVE q[i] = r[i]
  <2>1. i \in DOMAIN a /\ i \in DOMAIN b
    BY <1>1, <1>3
  <2> QED
    BY <1>2, <1>4, <2>1
<1>8. q[n + 1] = part
  <2>1. n + 1 \in DOMAIN b
    BY <1>1, <1>3
  <2> QED
    BY <1>2, <1>4, <2>1
<1>9. OneMore(q, r, n, part)
  BY <1>1, <1>4, <1>5, <1>6, <1>7, <1>8 DEF OneMore
<1>10. FlattenSeq(q) = FlattenSeq(r) \o part
  BY <1>9, FlattenOne
<1> QED
  BY <1>4, <1>10 DEF Origins

LEMMA InitResults == MergeInit => ResultsInv
<1> SUFFICES ASSUME MergeInit PROVE ResultsInv
  OBVIOUS
<1>1. /\ appends = 0 /\ appended = <<>> /\ results = <<>> /\ pageCount = 0
  BY DEF MergeInit, Init
<1>2. IsSeq(appended) /\ Len(appended) = 0 /\ Len(results) = 0
  BY <1>1 DEF IsSeq
<1>3. PICK s : s = [i \in DOMAIN appended |-> CallPages(appended[i])]
  OBVIOUS
<1>4. s = <<>>
  BY <1>1, <1>3
<1>5. FlattenSeq(s) = <<>>
  BY <1>4 DEF FlattenSeq
<1>6. Origins(appended) = <<>>
  BY <1>3, <1>5 DEF Origins
<1>7. PICK F : F = Origins(appended) /\ F = <<>>
  BY <1>6
<1>8. IsSeq(F) /\ Len(F) = 0
  BY <1>7 DEF IsSeq
<1>9. CountsPages(F, results, 0, 0)
  BY <1>8 DEF CountsPages
<1> QED
  BY <1>1, <1>2, <1>7, <1>9 DEF ResultsInv

(* Another input is appended.                                              *)
LEMMA ResultsAppended ==
    ASSUME CallInv, ResultsInv, Appended, call.host # "direct", mpc' # "rejected"
    PROVE  ResultsInv'
<1>1. PICK n, m \in Nat : n = Len(results) /\ m = pageCount
  BY DEF ResultsInv, Appended
<1>2. /\ appends = n /\ Len(appended) = n /\ IsSeq(appended) /\ n \in Nat
      /\ CountsPages(Origins(appended), results, n, m)
  <2>1. mpc # "rejected"
    BY DEF Appended
  <2> QED
    BY <1>1, <2>1, SeqFacts DEF ResultsInv, CallInv
<1>3. PICK doc \in Shards : doc = taken
  BY DEF CallInv, Appended
<1>4. /\ AppendShardDoc(doc) /\ Len(appended') > Len(appended)
      /\ pageCount' = m + Len(doc.pages)
      /\ results' = Append(results, [pageCount |-> Len(doc.pages), startPageIndex |-> m])
      /\ UNCHANGED call
  BY <1>1, <1>3 DEF Appended, StartPageIndex
<1>5. AppendSucceeds(doc) /\ appends' = n + 1
  <2>1. ~(UNCHANGED appended)
    BY <1>2, <1>4
  <2> QED
    BY <1>2, <1>4, <2>1 DEF AppendShardDoc, AppendMalformed, AppendTears
<1>6. PICK e : /\ e = [call |-> n + 1, shard |-> doc] /\ appended' = Append(appended, e)
               /\ e.call = n + 1 /\ e.shard = doc
  <2>1. PICK c : c = n + 1
    OBVIOUS
  <2>2. PICK e : e = [call |-> c, shard |-> doc]
    OBVIOUS
  <2>3. e.call = c /\ e.shard = doc
    BY <2>2
  <2>4. appended' = Append(appended, [call |-> appends + 1, shard |-> doc])
    BY <1>5 DEF AppendSucceeds
  <2>5. appended' = Append(appended, e)
    BY <1>2, <2>1, <2>2, <2>4
  <2> QED
    BY <2>1, <2>2, <2>3, <2>5
<1>7. PICK k \in Nat \ {0} : k = Len(doc.pages) /\ DOMAIN doc.pages = 1..k
  <2>1. doc.pages \in Seq(doc.objects \ doc.structural)
    BY DocumentsWellFormed
  <2>2. doc.pages # <<>>
    BY <1>5 DEF AppendSucceeds, Malformed
  <2> QED
    BY <2>1, <2>2
<1>8. PICK part : part = CallPages(e)
  OBVIOUS
<1>9. DOMAIN part = 1..k /\ part = [j \in 1..k |-> part[j]] /\ \A j \in 1..k : part[j][1] = n + 1
  BY <1>6, <1>7, <1>8 DEF CallPages
<1>10. IsSeq(part) /\ Len(part) = k
  BY <1>9, SeqMade
<1>11. PICK F, G : F = Origins(appended) /\ G = Origins(appended')
  OBVIOUS
<1>12. G = F \o part
  BY <1>2, <1>6, <1>8, <1>10, <1>11, OriginsStep
<1>13. IsSeq(F) /\ Len(F) = m
  BY <1>2, <1>11 DEF CountsPages
<1>14. /\ IsSeq(G) /\ Len(G) = m + k /\ \A p \in 1..m : G[p] = F[p]
       /\ \A j \in 1..k : G[m + j] = part[j]
  <2>1. /\ IsSeq(F \o part) /\ Len(F \o part) = Len(F) + Len(part)
        /\ \A p \in 1..Len(F) : (F \o part)[p] = F[p]
        /\ \A j \in 1..Len(part) : (F \o part)[Len(F) + j] = part[j]
    BY <1>10, <1>13, Concat
  <2> QED
    BY <1>10, <1>12, <1>13, <2>1
<1>15. ASSUME NEW p \in (m + 1)..(m + k) PROVE G[p][1] = n + 1
  <2>1. p - m \in 1..k /\ p = m + (p - m)
    BY <1>1, <1>7
  <2> QED
    BY <1>9, <1>14, <2>1
<1>16. PICK q : q = results' /\ Len(q) = n + 1 /\ (\A i \in 1..n : q[i] = results[i])
                /\ q[n + 1] = [pageCount |-> k, startPageIndex |-> m]
  <2>1. IsSeq(results)
    BY DEF CallInv
  <2>2. PICK e2 : e2 = [pageCount |-> k, startPageIndex |-> m]
    OBVIOUS
  <2>3. PICK q : q = Append(results, e2)
    OBVIOUS
  <2>4. q = results'
    BY <1>4, <1>7, <2>2, <2>3
  <2>5. Len(q) = n + 1 /\ (\A i \in 1..n : q[i] = results[i]) /\ q[n + 1] = e2
    BY <1>1, <2>1, <2>3, Longer
  <2> QED
    BY <2>2, <2>4, <2>5
<1>17. CountsPages(G, q, n + 1, m + k)
  <2>1. PICK r : r = results
    OBVIOUS
  <2>2. CountsPages(F, r, n, m) /\ \A i \in 1..n : q[i] = r[i]
    BY <1>2, <1>11, <1>16, <2>1
  <2>3. \A p \in (m + 1)..(m + k) : G[p][1] = n + 1
    BY <1>15
  <2>4. /\ IsSeq(G) /\ Len(G) = m + k /\ \A p \in 1..m : G[p] = F[p]
        /\ q[n + 1] = [pageCount |-> k, startPageIndex |-> m]
    BY <1>14, <1>16
  <2> QED
    BY SMTT(30), <2>2, <2>3, <2>4, CountsStep
<1>18. IsSeq(appended') /\ Len(appended') = n + 1
  BY <1>2, <1>6, Longer
<1>19. m + k \in Nat /\ pageCount' = m + k
  BY <1>4, <1>7
<1> QED
  BY <1>5, <1>11, <1>16, <1>17, <1>18, <1>19 DEF ResultsInv

LEMMA NextResults == CallInv /\ ResultsInv /\ [MergeNext]_<<vars, mvars>> => ResultsInv'
<1> SUFFICES ASSUME CallInv, ResultsInv, [MergeNext]_<<vars, mvars>> PROVE ResultsInv'
  OBVIOUS
<1>1. ASSUME Direct PROVE ResultsInv'
  <2>1. call.host = "direct" /\ UNCHANGED call
    BY <1>1 DEF Direct, mvars
  <2> QED
    BY <2>1 DEF ResultsInv
<1>2. ASSUME Appended PROVE ResultsInv'
  <2>1. UNCHANGED call /\ call.host # "direct"
    BY <1>2 DEF Appended, CallInv
  <2>2. CASE mpc' = "rejected"
    BY <2>2 DEF ResultsInv
  <2>3. CASE mpc' # "rejected"
    BY <1>2, <2>1, <2>3, ResultsAppended
  <2> QED
    BY <2>2, <2>3
<1>3. ASSUME UNCHANGED <<appends, appended, results, pageCount, call>>, mpc # "rejected" \/ mpc' = "rejected"
      PROVE  ResultsInv'
  <2>1. PICK a, r : a = appended /\ r = results /\ a = appended' /\ r = results'
    BY <1>3
  <2> QED
    BY <1>3, <2>1 DEF ResultsInv
<1>4. Finalized => UNCHANGED <<appends, appended, results, pageCount, call>> /\ mpc # "rejected"
  BY DEF Finalized, Finalize
<1>5. Start \/ ThrowIfAborted \/ SpawnAppend \/ TaskReads \/ SpawnFinalize \/ AbortSignal
         \/ (\E i \in DOMAIN held : Rewrite(i)) \/ MergeEnded
         \/ UNCHANGED <<vars, mvars>>
      => /\ UNCHANGED <<appends, appended, results, pageCount, call>>
         /\ mpc # "rejected" \/ mpc' = "rejected"
  BY DEF Start, ThrowIfAborted, SpawnAppend, TaskReads, SpawnFinalize, AbortSignal, Rewrite,
         MergeEnded, Untouched, vars, mvars, Settled
<1> QED
  BY <1>1, <1>2, <1>3, <1>4, <1>5 DEF MergeNext

(* The results of a merge that resolves are those of the published file.   *)
LEMMA ResultsAreRight == CallInv /\ ResultsInv /\ OrderInv => ResultsMatch
<1> SUFFICES ASSUME CallInv, ResultsInv, OrderInv, mpc = "resolved" PROVE ResultsMatch
  BY DEF ResultsMatch
<1>1. PICK n, m \in Nat : n = Len(results) /\ m = pageCount
  BY DEF ResultsInv, CallInv
<1>2. PICK F, r : F = Origins(appended) /\ r = results
  OBVIOUS
<1>3. CountsPages(F, r, n, m) /\ n = Len(call.inputs) /\ DOMAIN r = 1..n /\ n \in Nat
  BY <1>1, <1>2, SeqFacts DEF ResultsInv, CallInv
<1>4. PICK kids : kids = Pages.kids
  OBVIOUS
<1>5. [i \in DOMAIN kids |-> <<Lookup(kids[i]).call, Lookup(kids[i]).source>>] = F
  BY <1>2, <1>4 DEF OrderInv, PagesInOrder, CallInv, Origins, CallPages
<1>6. DOMAIN F = 1..m
  BY <1>3, SeqFacts DEF CountsPages
<1>7. DOMAIN kids = 1..m
  BY <1>5, <1>6
<1>8. Len(kids) = m
  BY <1>1, <1>7
<1>9. ASSUME NEW p \in 1..m PROVE Lookup(kids[p]).call = F[p][1]
  BY <1>5, <1>7
<1>10. ASSUME NEW i \in DOMAIN r
       PROVE  /\ r[i].pageCount > 0
              /\ (r[i].startPageIndex + 1)..(r[i].startPageIndex + r[i].pageCount)
                    = {p \in 1..m : Lookup(kids[p]).call = i}
  <2>1. i \in 1..n
    BY <1>3
  <2>2. PICK a, b : a = r[i].startPageIndex /\ b = r[i].pageCount
    OBVIOUS
  <2>3. a \in Nat /\ b \in Nat \ {0} /\ a + b <= m
    BY <1>3, <2>1, <2>2 DEF CountsPages
  <2>4. \A p \in 1..m : F[p][1] = i <=> p \in (a + 1)..(a + b)
    BY <1>3, <2>1, <2>2 DEF CountsPages
  <2>5. \A p \in (a + 1)..(a + b) : p \in 1..m
    BY <1>1, <2>3
  <2>6. (a + 1)..(a + b) = {p \in 1..m : Lookup(kids[p]).call = i}
    BY <1>9, <2>4, <2>5
  <2> QED
    BY <2>2, <2>3, <2>6
<1> QED
  BY <1>1, <1>2, <1>3, <1>4, <1>8, <1>10 DEF ResultsMatch

-----------------------------------------------------------------------------
(* The links of the flattened list lead along the nested bookmarks.        *)

(* The n locations q are all those of an outline.                          *)
Placed(outl, q, n) ==
    /\ IsOutlineTree(outl) /\ n \in Nat
    /\ Listing(q, n, DOMAIN outl, <<>>, outl[<<>>].children)

LEMMA PlacedFacts ==
    ASSUME NEW outl, NEW q, NEW n, Placed(outl, q, n)
    PROVE  /\ \A i \in 1..n : /\ q[i] \in DOMAIN outl /\ IsSeq(q[i]) /\ Len(q[i]) \in Nat \ {0}
                              /\ \A x \in 1..Len(q[i]) : q[i][x] \in Nat \ {0}
           /\ \A p \in DOMAIN outl : Len(p) > 0 => \E i \in 1..n : q[i] = p
           /\ \A i, j \in 1..n : q[i] = q[j] => i = j
           /\ \A i, j \in 1..n : Precedes(q[i], q[j]) => i < j
           /\ \A i \in 1..n : Len(q[i]) > 1 =>
                 \E j \in 1..(i - 1) : /\ InArray(q[j], q[i])
                                       /\ \A k \in (j + 1)..(i - 1) : Len(q[k]) >= Len(q[i])
<1>1. PICK D, root : D = DOMAIN outl /\ root = <<>>
  OBVIOUS
<1>2. IsOutlineTree(outl) /\ Locations(D) /\ root \in D /\ Len(root) = 0
  BY <1>1, TreeFacts DEF Placed
<1>3. \A p \in D : IsSeq(p) /\ Len(p) \in Nat /\ \A x \in 1..Len(p) : p[x] \in Nat \ {0}
  <2>1. PICK S : S = Nat \ {0}
    OBVIOUS
  <2>2. D \subseteq Seq(S)
    BY <1>2, <2>1 DEF Locations
  <2>3. \A p \in D : p \in Seq(S)
    BY <2>2
  <2> QED
    BY <2>1, <2>3, SeqRange
<1>4. Listing(q, n, D, root, outl[root].children)
  BY <1>1 DEF Placed
<1>5. \A i \in 1..n : q[i] \in D /\ Len(q[i]) > 0
  BY <1>2, <1>4 DEF Listing, Below
<1>6. ASSUME NEW p \in D, Len(p) > 0 PROVE \E i \in 1..n : q[i] = p
  <2>1. Below(root, p)
    BY <1>2, <1>6 DEF Below
  <2>2. p[Len(root) + 1] \in 1..outl[root].children
    BY <1>1, <1>2, <2>1, TreeFacts
  <2> QED
    BY <1>4, <2>1, <2>2 DEF Listing
<1>7. /\ \A i, j \in 1..n : q[i] = q[j] => i = j
      /\ \A i, j \in 1..n : Precedes(q[i], q[j]) => i < j
  BY <1>4 DEF Listing
<1>8. \A i \in 1..n : Len(q[i]) > 1 =>
         \E j \in 1..(i - 1) : /\ InArray(q[j], q[i])
                               /\ \A k \in (j + 1)..(i - 1) : Len(q[k]) >= Len(q[i])
  BY <1>2, <1>4 DEF Listing
<1>9. ASSUME NEW i \in 1..n
      PROVE  /\ q[i] \in DOMAIN outl /\ IsSeq(q[i]) /\ Len(q[i]) \in Nat \ {0}
             /\ \A x \in 1..Len(q[i]) : q[i][x] \in Nat \ {0}
  <2>1. PICK p : p = q[i]
    OBVIOUS
  <2>2. p \in D /\ Len(p) > 0
    BY <1>5, <2>1
  <2>3. IsSeq(p) /\ Len(p) \in Nat /\ \A x \in 1..Len(p) : p[x] \in Nat \ {0}
    BY <1>3, <2>2
  <2> QED
    BY <1>1, <2>1, <2>2, <2>3
<1>10. \A p \in DOMAIN outl : Len(p) > 0 => \E i \in 1..n : q[i] = p
  BY <1>1, <1>6
<1> QED
  BY <1>7, <1>8, <1>9, <1>10

(* The places of the bookmarks of an array from its k-th on.               *)
FromPlace(q, n, w, k) == {s \in 1..n : InArray(w, q[s]) /\ q[s][Len(w) + 1] >= k}

(* The first of them is the k-th, when the array has so many.              *)
FindsPlace(outl, q, n, w, k, f) ==
    /\ Append(w, k) \in DOMAIN outl => f \in 1..n /\ q[f] = Append(w, k)
    /\ Append(w, k) \notin DOMAIN outl => f = 0

LEMMA ArrayFrom ==
    ASSUME NEW outl, NEW q, NEW n, Placed(outl, q, n),
           NEW w \in DOMAIN outl, NEW k \in Nat \ {0}
    PROVE  FindsPlace(outl, q, n, w, k, FirstOf(FromPlace(q, n, w, k)))
<1>1. PICK D : D = DOMAIN outl /\ w \in D
  OBVIOUS
<1>2. IsOutlineTree(outl) /\ n \in Nat
  BY DEF Placed
<1>3. PICK L \in Nat : L = Len(w) /\ IsSeq(w)
  BY <1>1, <1>2, TreeFacts
<1>4. PICK c : c = Append(w, k)
  OBVIOUS
<1>5. IsSeq(c) /\ Len(c) = L + 1 /\ (\A x \in 1..L : c[x] = w[x]) /\ c[L + 1] = k
  BY <1>3, <1>4, Longer
<1>6. PICK S : S = FromPlace(q, n, w, k)
  OBVIOUS
<1>7. S \subseteq 1..n
  BY <1>6 DEF FromPlace
<1>8. ASSUME NEW s \in S
      PROVE  /\ s \in 1..n /\ q[s] \in D /\ IsSeq(q[s]) /\ Len(q[s]) = L + 1
             /\ \A x \in 1..L : q[s][x] = w[x]
             /\ q[s][L + 1] >= k /\ q[s][L + 1] \in Nat
  <2>1. s \in 1..n /\ InArray(w, q[s]) /\ q[s][L + 1] >= k
    BY <1>3, <1>6 DEF FromPlace
  <2>2. Len(q[s]) = L + 1 /\ \A x \in 1..L : q[s][x] = w[x]
    BY <1>3, <2>1 DEF InArray
  <2>3. q[s] \in D /\ IsSeq(q[s]) /\ \A x \in 1..Len(q[s]) : q[s][x] \in Nat \ {0}
    BY <1>1, <2>1, PlacedFacts
  <2>4. L + 1 \in 1..Len(q[s])
    BY <2>2
  <2> QED
    BY <2>1, <2>2, <2>3, <2>4
<1>9. CASE c \in D
  <2>1. PICK f \in 1..n : q[f] = c
    BY <1>1, <1>5, <1>9, PlacedFacts
  <2>2. f \in S
    BY <1>3, <1>5, <1>6, <2>1 DEF FromPlace, InArray
  <2>3. ASSUME NEW s \in S PROVE f <= s
    <3>1. CASE q[s][L + 1] = k
      <4>1. \A x \in 1..(L + 1) : q[s][x] = c[x]
        <5>1. \A x \in 1..(L + 1) : x \in 1..L \/ x = L + 1
          OBVIOUS
        <5> QED
          BY <1>5, <1>8, <3>1, <5>1
      <4>2. q[s] = c
        BY <1>5, <1>8, <4>1, SameSeq
      <4>3. s = f
        BY <1>8, <2>1, <4>2, PlacedFacts
      <4> QED
        BY <2>1, <4>3, <1>2
    <3>2. CASE q[s][L + 1] > k
      <4>1. Precedes(q[f], q[s])
        <5>1. L + 1 - 1 = L
          OBVIOUS
        <5>2. PICK t : t = q[s]
          OBVIOUS
        <5>3. Len(t) = L + 1 /\ (\A x \in 1..L : c[x] = t[x]) /\ c[L + 1] < t[L + 1]
          BY <1>5, <1>8, <3>2, <5>2
        <5>4. Precedes(c, t)
          BY <1>5, <5>1, <5>3 DEF Precedes
        <5> QED
          BY <2>1, <5>2, <5>4
      <4>2. f < s
        BY <1>8, <2>1, <4>1, PlacedFacts
      <4> QED
        BY <4>2, <1>2, <1>8
    <3> QED
      BY <1>8, <3>1, <3>2
  <2>4. IsFirst(S, f)
    BY <2>2, <2>3 DEF IsFirst
  <2>5. FirstOf(S) = f
    BY <1>2, <1>7, <2>4, FirstIs
  <2> QED
    BY <1>1, <1>4, <1>6, <1>9, <2>1, <2>5 DEF FindsPlace
<1>10. CASE c \notin D
  <2>1. ASSUME NEW s \in S PROVE FALSE
    <3>1. PICK t : t = q[s]
      OBVIOUS
    <3>2. t \in D /\ Below(w, t) /\ t[L + 1] \in Nat /\ t[L + 1] >= k
      <4>1. t \in D /\ Len(t) = L + 1 /\ (\A x \in 1..L : t[x] = w[x])
            /\ t[L + 1] \in Nat /\ t[L + 1] >= k
        BY <1>8, <3>1
      <4> QED
        BY <1>3, <4>1 DEF Below
    <3>3. t[L + 1] \in 1..outl[w].children /\ outl[w].children \in Nat
      BY <1>1, <1>2, <1>3, <3>2, TreeFacts
    <3>4. k \in 1..outl[w].children
      BY <3>2, <3>3
    <3>5. Append(w, k) \in D
      BY <1>1, <1>2, <3>4, TreeFacts
    <3> QED
      BY <1>4, <1>10, <3>5
  <2>2. IsFirst(S, 0)
    BY <2>1 DEF IsFirst
  <2>3. FirstOf(S) = 0
    BY <1>2, <1>7, <2>2, FirstIs
  <2> QED
    BY <1>1, <1>4, <1>6, <1>10, <2>3 DEF FindsPlace
<1> QED
  BY <1>9, <1>10

(* The list of those locations, with the level of each.                    *)
ListsPlaces(e, lv, outl, q, n) ==
    /\ Placed(outl, q, n) /\ Describes(e, lv, n)
    /\ \A i \in 1..n : lv[i] = Len(q[i]) - 1

(* The parent of an entry is the bookmark its array belongs to.            *)
LEMMA ParentLocated ==
    ASSUME NEW e, NEW lv, NEW outl, NEW q, NEW n, ListsPlaces(e, lv, outl, q, n),
           NEW i \in 1..n
    PROVE  /\ ParentOf(e, i) \in 0..n
           /\ ParentOf(e, i) = 0 <=> Len(q[i]) = 1
           /\ \A j \in 1..n : ParentOf(e, i) = j <=> InArray(q[j], q[i])
<1>1. /\ n \in Nat /\ Preorder(lv, n) /\ Placed(outl, q, n) /\ Describes(e, lv, n)
      /\ \A k \in 1..n : lv[k] = Len(q[k]) - 1
  BY DEF ListsPlaces, Placed, Describes
<1>2. PICK p : p = ParentOf(e, i)
  OBVIOUS
<1>3. IsParent(lv, i, p)
  BY <1>1, <1>2, ParentIs
<1>4. \A k \in 1..n : IsSeq(q[k]) /\ Len(q[k]) \in Nat \ {0}
  BY <1>1, PlacedFacts
<1>5. CASE Len(q[i]) = 1
  <2>1. IsParent(lv, i, 0)
    <3>1. lv[i] = 0 /\ 0 \in 0..(i - 1)
      <4>1. lv[i] = Len(q[i]) - 1
        BY <1>1
      <4>2. lv[i] = 1 - 1
        BY <1>5, <4>1
      <4> QED
        BY <1>1, <4>2
    <3>2. ASSUME NEW k \in (0 + 1)..(i - 1) PROVE lv[k] >= lv[i]
      <4>1. k \in 1..n
        BY <1>1
      <4>2. lv[k] \in Nat
        BY <1>1, <1>4, <4>1
      <4> QED
        BY <3>1, <4>2
    <3> QED
      BY <3>1, <3>2 DEF IsParent
  <2>2. p = 0
    BY <1>1, <1>3, <2>1, ParentUnique
  <2>3. ASSUME NEW j \in 1..n PROVE ~InArray(q[j], q[i])
    BY <1>4, <1>5 DEF InArray
  <2> QED
    BY <1>1, <1>2, <1>5, <2>2, <2>3
<1>6. CASE Len(q[i]) # 1
  <2>1. PICK b \in 1..(i - 1) : /\ InArray(q[b], q[i])
                                /\ \A k \in (b + 1)..(i - 1) : Len(q[k]) >= Len(q[i])
    <3>1. Len(q[i]) > 1
      <4>1. PICK len : len = Len(q[i])
        OBVIOUS
      <4>2. len \in Nat /\ len # 0 /\ len # 1
        BY <1>4, <1>6, <4>1
      <4>3. len > 1
        BY <4>2
      <4> QED
        BY <4>1, <4>3
    <3> QED
      BY <1>1, <3>1, PlacedFacts
  <2>2. b \in 1..n /\ b \in 0..(i - 1) /\ b # 0
    BY <1>1
  <2>3. Len(q[i]) = Len(q[b]) + 1
    BY <2>1 DEF InArray
  <2>4. lv[i] = lv[b] + 1
    BY <1>1, <1>4, <2>2, <2>3
  <2>5. ASSUME NEW k \in (b + 1)..(i - 1) PROVE lv[k] >= lv[i]
    <3>1. k \in 1..n
      BY <1>1, <2>2
    <3>2. Len(q[k]) >= Len(q[i])
      BY <2>1
    <3> QED
      BY <1>1, <1>4, <3>1, <3>2
  <2>6. IsParent(lv, i, b)
    BY <2>2, <2>4, <2>5 DEF IsParent
  <2>7. p = b
    BY <1>1, <1>3, <2>6, ParentUnique
  <2>8. ASSUME NEW j \in 1..n, InArray(q[j], q[i]) PROVE j = b
    <3>1. PICK s, t, u : s = q[j] /\ t = q[b] /\ u = q[i]
      OBVIOUS
    <3>2. IsSeq(s) /\ IsSeq(t) /\ Len(s) \in Nat /\ Len(t) \in Nat
      BY <1>4, <2>2, <3>1
    <3>3. /\ Len(u) = Len(s) + 1 /\ \A x \in 1..Len(s) : u[x] = s[x]
          /\ Len(u) = Len(t) + 1 /\ \A x \in 1..Len(t) : u[x] = t[x]
      BY <2>1, <2>8, <3>1 DEF InArray
    <3>4. Len(s) = Len(t)
      BY <3>2, <3>3
    <3>5. s = t
      BY <3>2, <3>3, <3>4, SameSeq
    <3>6. \A c, d \in 1..n : q[c] = q[d] => c = d
      BY <1>1, PlacedFacts
    <3> QED
      BY <2>2, <3>1, <3>5, <3>6
  <2> QED
    BY <1>1, <1>2, <1>6, <2>1, <2>2, <2>7, <2>8
<1> QED
  BY <1>5, <1>6

(* Where the children of an entry are, and those of the list.              *)
LEMMA ChildrenLocated ==
    ASSUME NEW e, NEW lv, NEW outl, NEW q, NEW n, ListsPlaces(e, lv, outl, q, n)
    PROVE  /\ ChildrenOf(e, 0) = FromPlace(q, n, <<>>, 1)
           /\ \A i \in 1..n : ChildrenOf(e, i) = FromPlace(q, n, q[i], 1)
<1>1. n \in Nat /\ DOMAIN e = 1..n /\ Placed(outl, q, n)
  BY DEF ListsPlaces, Placed, Describes
<1>2. \A k \in 1..n : Len(q[k]) \in Nat \ {0} /\ \A x \in 1..Len(q[k]) : q[k][x] \in Nat \ {0}
  BY <1>1, PlacedFacts
<1>3. ASSUME NEW i \in 1..n PROVE ChildrenOf(e, i) = FromPlace(q, n, q[i], 1)
  <2>1. \A s \in 1..n : ParentOf(e, s) = i <=> InArray(q[i], q[s])
    BY ParentLocated
  <2>2. ASSUME NEW s \in 1..n, InArray(q[i], q[s]) PROVE q[s][Len(q[i]) + 1] >= 1
    <3>1. PICK len \in Nat : len = Len(q[i])
      BY <1>2
    <3>2. Len(q[s]) = len + 1
      BY <2>2, <3>1 DEF InArray
    <3>3. len + 1 \in 1..Len(q[s])
      BY <3>2
    <3>4. PICK x : x = q[s][len + 1]
      OBVIOUS
    <3>5. x \in Nat /\ x # 0
      BY <1>2, <3>3, <3>4
    <3>6. x >= 1
      BY <3>5
    <3> QED
      BY <3>1, <3>4, <3>6
  <2> QED
    BY <1>1, <2>1, <2>2 DEF ChildrenOf, FromPlace
<1>4. ChildrenOf(e, 0) = FromPlace(q, n, <<>>, 1)
  <2>1. PICK root : root = <<>> /\ Len(root) = 0
    OBVIOUS
  <2>2. \A s \in 1..n : ParentOf(e, s) = 0 <=> Len(q[s]) = 1
    BY ParentLocated
  <2>3. \A s \in 1..n : InArray(root, q[s]) <=> Len(q[s]) = 1
    BY <2>1 DEF InArray
  <2>4. ASSUME NEW s \in 1..n, Len(q[s]) = 1 PROVE q[s][Len(root) + 1] >= 1
    <3>1. PICK x : x = q[s][1]
      OBVIOUS
    <3>2. 1 \in 1..Len(q[s])
      BY <2>4
    <3>3. x \in Nat /\ x # 0
      BY <1>2, <3>1, <3>2
    <3>4. x >= 1
      BY <3>3
    <3> QED
      BY <2>1, <3>1, <3>4
  <2>5. ChildrenOf(e, 0) = FromPlace(q, n, root, 1)
    BY <1>1, <2>2, <2>3, <2>4 DEF ChildrenOf, FromPlace
  <2> QED
    BY <2>1, <2>5
<1> QED
  BY <1>3, <1>4

(* The location of the next bookmark of an array.                          *)
NextPlace(where) == [where EXCEPT ![Len(where)] = @ + 1]

LEMMA YoungerLocated ==
    ASSUME NEW e, NEW lv, NEW outl, NEW q, NEW n, ListsPlaces(e, lv, outl, q, n),
           NEW i \in 1..n
    PROVE  \E w \in DOMAIN outl : \E k \in Nat \ {0} :
              /\ NextPlace(q[i]) = Append(w, k)
              /\ YoungerUpTo(e, i, n) = FromPlace(q, n, w, k)
<1>1. /\ n \in Nat /\ DOMAIN e = 1..n /\ Placed(outl, q, n) /\ Describes(e, lv, n)
      /\ IsOutlineTree(outl)
  BY DEF ListsPlaces, Placed, Describes
<1>2. PICK p, L : p = q[i] /\ L = Len(p) - 1
  OBVIOUS
<1>3. p \in DOMAIN outl /\ IsSeq(p) /\ Len(p) \in Nat /\ Len(p) # 0
      /\ \A x \in 1..Len(p) : p[x] \in Nat /\ p[x] # 0
  BY <1>1, <1>2, PlacedFacts
<1>4. L \in Nat /\ Len(p) = L + 1 /\ L \in 0..Len(p)
  BY <1>2, <1>3
<1>5. PICK w : w = SubSeq(p, 1, L)
  OBVIOUS
<1>6. IsSeq(w) /\ Len(w) = L /\ \A x \in 1..L : w[x] = p[x]
  BY <1>3, <1>4, <1>5, Prefix
<1>7. w \in DOMAIN outl
  <2>1. L \in 0..(Len(p) - 1)
    BY <1>4
  <2> QED
    BY <1>1, <1>3, <1>5, <2>1 DEF IsOutlineTree
<1>8. PICK y \in Nat : y = p[L + 1] /\ y # 0
  <2>1. L + 1 \in 1..Len(p)
    BY <1>4
  <2> QED
    BY <1>3, <2>1
<1>9. PICK k \in Nat \ {0} : k = y + 1
  OBVIOUS
<1>10. NextPlace(p) = Append(w, k)
  <2>1. PICK s, t : s = NextPlace(p) /\ t = Append(w, k)
    OBVIOUS
  <2>2. s = [p EXCEPT ![L + 1] = p[L + 1] + 1]
    BY <1>4, <2>1 DEF NextPlace
  <2>3. DOMAIN p = 1..(L + 1)
    BY <1>3, <1>4, SeqFacts
  <2>4. DOMAIN s = 1..(L + 1) /\ s = [x \in 1..(L + 1) |-> s[x]]
    BY <2>2, <2>3
  <2>5. L + 1 \in Nat
    BY <1>4
  <2>6. IsSeq(s) /\ Len(s) = L + 1
    BY <2>4, <2>5, SeqMade
  <2>7. s[L + 1] = k /\ \A x \in 1..L : s[x] = p[x]
    <3>1. L + 1 \in 1..(L + 1) /\ \A x \in 1..L : x \in 1..(L + 1) /\ x # L + 1
      BY <1>4
    <3> QED
      BY <1>8, <1>9, <2>2, <2>3, <3>1
  <2>8. IsSeq(t) /\ Len(t) = L + 1 /\ (\A x \in 1..L : t[x] = w[x]) /\ t[L + 1] = k
    BY <1>6, <2>1, Longer
  <2>9. \A x \in 1..(L + 1) : s[x] = t[x]
    <3>1. \A x \in 1..(L + 1) : x \in 1..L \/ x = L + 1
      BY <1>4
    <3> QED
      BY <1>6, <2>7, <2>8, <3>1
  <2> QED
    BY <2>1, <2>6, <2>8, <2>9, SameSeq
<1>11. ASSUME NEW s \in 1..n
       PROVE  /\ q[s] \in DOMAIN outl /\ IsSeq(q[s]) /\ Len(q[s]) \in Nat
              /\ \A x \in 1..Len(q[s]) : q[s][x] \in Nat
  BY <1>1, PlacedFacts
<1>12. InArray(w, p)
  BY <1>4, <1>6 DEF InArray
<1>13. ASSUME NEW s \in 1..n
       PROVE  ParentOf(e, s) = ParentOf(e, i) <=> InArray(w, q[s])
  <2>1. PICK b \in 0..n : b = ParentOf(e, i)
    BY ParentLocated
  <2>2. b = 0 <=> Len(p) = 1
    BY <1>2, <2>1, ParentLocated
  <2>3. CASE b = 0
    <3>1. L = 0 /\ Len(w) = 0
      BY <1>4, <1>6, <2>2, <2>3
    <3>2. ParentOf(e, s) = b <=> Len(q[s]) = 1
      BY <2>3, ParentLocated
    <3>3. InArray(w, q[s]) <=> Len(q[s]) = 1
      BY <3>1 DEF InArray
    <3> QED
      BY <2>1, <3>2, <3>3
  <2>4. CASE b # 0
    <3>1. b \in 1..n
      BY <1>1, <2>4
    <3>2. InArray(q[b], p)
      BY <1>2, <2>1, <3>1, ParentLocated
    <3>3. PICK t : t = q[b]
      OBVIOUS
    <3>4. IsSeq(t) /\ Len(t) \in Nat
      BY <1>11, <3>1, <3>3
    <3>5. Len(p) = Len(t) + 1 /\ \A x \in 1..Len(t) : p[x] = t[x]
      BY <3>2, <3>3 DEF InArray
    <3>6. Len(t) = L
      BY <1>4, <3>4, <3>5
    <3>7. t = w
      BY <1>6, <3>4, <3>5, <3>6, SameSeq
    <3>8. ParentOf(e, s) = b <=> InArray(t, q[s])
      BY <3>1, <3>3, ParentLocated
    <3> QED
      BY <2>1, <3>7, <3>8
  <2> QED
    BY <2>3, <2>4
<1>14. ASSUME NEW s \in 1..n, InArray(w, q[s]) PROVE s > i <=> q[s][L + 1] >= k
  <2>1. PICK t : t = q[s]
    OBVIOUS
  <2>2. t \in DOMAIN outl /\ IsSeq(t) /\ Len(t) = L + 1 /\ \A x \in 1..L : t[x] = w[x]
    BY <1>6, <1>11, <1>14, <2>1 DEF InArray
  <2>3. PICK z \in Nat : z = t[L + 1]
    <3>1. L + 1 \in 1..Len(t)
      BY <1>4, <2>2
    <3> QED
      BY <1>11, <2>1, <3>1
  <2>4. L + 1 - 1 = L
    BY <1>4
  <2>5. CASE z > y
    <3>1. Precedes(p, t)
      BY <1>4, <1>6, <1>8, <2>2, <2>3, <2>4, <2>5 DEF Precedes
    <3>2. Precedes(q[i], q[s])
      BY <1>2, <2>1, <3>1
    <3>3. i < s
      BY <1>1, <3>2, PlacedFacts
    <3> QED
      BY <1>9, <2>1, <2>3, <2>5, <3>3
  <2>6. CASE z < y
    <3>1. Precedes(t, p)
      BY <1>4, <1>6, <1>8, <2>2, <2>3, <2>4, <2>6 DEF Precedes
    <3>2. Precedes(q[s], q[i])
      BY <1>2, <2>1, <3>1
    <3>3. s < i
      BY <1>1, <3>2, PlacedFacts
    <3> QED
      BY <1>9, <2>1, <2>3, <2>6, <3>3
  <2>7. CASE z = y
    <3>1. \A x \in 1..(L + 1) : t[x] = p[x]
      <4>1. \A x \in 1..(L + 1) : x \in 1..L \/ x = L + 1
        BY <1>4
      <4> QED
        BY <1>6, <1>8, <2>2, <2>3, <2>7, <4>1
    <3>2. t = p
      BY <1>3, <1>4, <2>2, <3>1, SameSeq
    <3>3. \A c, d \in 1..n : q[c] = q[d] => c = d
      BY <1>1, PlacedFacts
    <3>4. s = i
      BY <1>2, <2>1, <3>2, <3>3
    <3> QED
      BY <1>9, <2>1, <2>3, <2>7, <3>4
  <2> QED
    BY <2>5, <2>6, <2>7
<1>15. YoungerUpTo(e, i, n) = FromPlace(q, n, w, k)
  <2>1. \A s : s \in YoungerUpTo(e, i, n)
                 <=> s \in 1..n /\ s > i /\ ParentOf(e, s) = ParentOf(e, i)
    BY <1>1 DEF YoungerUpTo, ChildrenOf
  <2>2. \A s : s \in FromPlace(q, n, w, k)
                 <=> s \in 1..n /\ InArray(w, q[s]) /\ q[s][L + 1] >= k
    BY <1>6 DEF FromPlace
  <2>3. \A s : s \in YoungerUpTo(e, i, n) <=> s \in FromPlace(q, n, w, k)
    BY <1>13, <1>14, <2>1, <2>2
  <2> QED
    BY <2>3
<1> QED
  BY <1>2, <1>7, <1>10, <1>15

(* What OutlineAsGiven says of a file, a table and the rest that it reads. *)
BookmarkAt(file, rows, size, e, m, where) ==
    /\ m \in 1..(size - 1) /\ Found(file, rows, m).kind = "bookmark"
    /\ e[Found(file, rows, m).title].location = where

LeadsToPlace(file, rows, size, e, outl, m, where) ==
    IF where \in DOMAIN outl THEN BookmarkAt(file, rows, size, e, m, where) ELSE m = None

HoldsNested(file, rows, size, root, kids, e, outl) ==
    /\ LeadsToPlace(file, rows, size, e, outl,
                    IF root = None THEN None ELSE Found(file, rows, root).first, <<1>>)
    /\ \A where \in DOMAIN outl \ {<<>>} : \E m \in 1..(size - 1) :
          /\ BookmarkAt(file, rows, size, e, m, where)
          /\ e[Found(file, rows, m).title].title = outl[where].title
          /\ Found(file, rows, m).dest = kids[outl[where].page + 1]
          /\ LeadsToPlace(file, rows, size, e, outl, Found(file, rows, m).first,
                          Append(where, 1))
          /\ LeadsToPlace(file, rows, size, e, outl, Found(file, rows, m).next,
                          NextPlace(where))

LEMMA NestedIsRead ==
    ASSUME HoldsNested(writer.file, Xref.rows, Xref.size, Catalog.outlines, Pages.kids, flat,
                       call.outline)
    PROVE  OutlineAsGiven
  BY Zenon DEF OutlineAsGiven, HoldsNested, LeadsToPlace, BookmarkAt, Found, Lookup, Numbers,
               NextPlace

(* The entries of a list made from nested bookmarks.                       *)
IsNested(e, outl, q, n) ==
    \A i \in 1..n : /\ e[i].location = q[i]
                    /\ e[i].title = outl[q[i]].title /\ e[i].page = outl[q[i]].page

LEMMA LinksLead ==
    ASSUME NEW file, NEW rows, NEW size, NEW root, NEW kids, NEW e, NEW lv, NEW n, NEW start,
           HoldsOutline(file, rows, size, root, kids, e, lv, n, start),
           NEW outl, NEW q, ListsPlaces(e, lv, outl, q, n), IsNested(e, outl, q, n)
    PROVE  HoldsNested(file, rows, size, root, kids, e, outl)
<1>1. /\ n \in Nat /\ DOMAIN e = 1..n /\ Len(e) = n /\ IsOutlineTree(outl)
      /\ Placed(outl, q, n) /\ Describes(e, lv, n) /\ Preorder(lv, n)
      /\ \A i \in 1..n : e[i].level = lv[i]
  BY DEF ListsPlaces, Placed, Describes
<1>2. /\ start \in Nat /\ start >= 3 /\ size = IF n = 0 THEN start ELSE start + n + 1
      /\ root = IF n = 0 THEN 0 ELSE start + n
      /\ \A i \in 1..n : IsBookmark(Found(file, rows, start + i - 1), e, i, n, start, kids)
      /\ n # 0 => Found(file, rows, root).first = NumberFrom(start, Root(e).first)
  BY DEF HoldsOutline
<1>3. ASSUME NEW i \in 1..n
      PROVE  BookmarkAt(file, rows, size, e, start + i - 1, q[i])
  <2>1. start + i - 1 \in 1..(size - 1)
    BY <1>1, <1>2
  <2>2. /\ Found(file, rows, start + i - 1).kind = "bookmark"
        /\ Found(file, rows, start + i - 1).title = i
    BY <1>2 DEF IsBookmark
  <2>3. e[i].location = q[i]
    BY DEF IsNested
  <2> QED
    BY <2>1, <2>2, <2>3 DEF BookmarkAt
<1>4. ASSUME NEW w, NEW k, NEW f, FindsPlace(outl, q, n, w, k, f)
      PROVE  LeadsToPlace(file, rows, size, e, outl, NumberFrom(start, f), Append(w, k))
  <2>1. PICK c, m : c = Append(w, k) /\ m = NumberFrom(start, f)
    OBVIOUS
  <2>2. CASE c \in DOMAIN outl
    <3>1. f \in 1..n /\ q[f] = c
      BY <1>4, <2>1, <2>2 DEF FindsPlace
    <3>2. m = start + f - 1
      BY <2>1, <3>1 DEF NumberFrom
    <3>3. BookmarkAt(file, rows, size, e, m, c)
      BY <1>3, <3>1, <3>2
    <3> QED
      BY <2>1, <2>2, <3>3 DEF LeadsToPlace
  <2>3. CASE c \notin DOMAIN outl
    <3>1. f = 0
      BY <1>4, <2>1, <2>3 DEF FindsPlace
    <3>2. m = None
      BY <2>1, <3>1 DEF NumberFrom, None
    <3> QED
      BY <2>1, <2>3, <3>2 DEF LeadsToPlace
  <2> QED
    BY <2>2, <2>3
<1>5. PICK one \in Nat \ {0} : one = 1
  OBVIOUS
<1>6. LeadsToPlace(file, rows, size, e, outl,
                   IF root = None THEN None ELSE Found(file, rows, root).first, <<1>>)
  <2>1. PICK top : top = ChildrenOf(e, 0)
    OBVIOUS
  <2>2. top = FromPlace(q, n, <<>>, 1)
    BY <2>1, ChildrenLocated
  <2>3. <<>> \in DOMAIN outl
    BY <1>1, TreeFacts
  <2>4. FindsPlace(outl, q, n, <<>>, 1, FirstOf(top))
    BY <1>1, <1>5, <2>2, <2>3, ArrayFrom
  <2>5. PICK f : f = FirstOf(top)
    OBVIOUS
  <2>6. LeadsToPlace(file, rows, size, e, outl, NumberFrom(start, f), Append(<<>>, 1))
    BY <1>4, <2>4, <2>5
  <2>7. Append(<<>>, 1) = <<1>>
    OBVIOUS
  <2>8. PICK m : m = IF root = None THEN None ELSE Found(file, rows, root).first
    OBVIOUS
  <2>9. m = NumberFrom(start, f)
    <3>1. CASE n = 0
      <4>1. top = {}
        BY <1>1, <2>1, <3>1 DEF ChildrenOf
      <4>2. f = 0
        BY <2>5, <4>1 DEF FirstOf, None
      <4>3. m = 0
        BY <1>2, <2>8, <3>1 DEF None
      <4> QED
        BY <4>2, <4>3 DEF NumberFrom
    <3>2. CASE n # 0
      <4>1. root # None
        BY <1>1, <1>2, <3>2 DEF None
      <4>2. m = NumberFrom(start, Root(e).first)
        BY <1>2, <2>8, <3>2, <4>1
      <4>3. top = {i \in DOMAIN e : e[i].level = 0} /\ top = {i \in 1..n : lv[i] = 0}
        BY <1>1, <2>1, TopIs DEF None
      <4>4. 1 \in 1..n /\ lv[1] = 0
        BY <1>1, <3>2 DEF Preorder
      <4>5. top # {}
        BY <4>3, <4>4
      <4>6. Root(e).first = Min(top)
        BY <4>3 DEF Root
      <4>7. f = Min(top)
        BY <2>5, <4>5 DEF FirstOf
      <4> QED
        BY <4>2, <4>6, <4>7
    <3> QED
      BY <3>1, <3>2
  <2> QED
    BY <2>6, <2>7, <2>8, <2>9
<1>7. ASSUME NEW where \in DOMAIN outl \ {<<>>}
      PROVE  \E m \in 1..(size - 1) :
                /\ BookmarkAt(file, rows, size, e, m, where)
                /\ e[Found(file, rows, m).title].title = outl[where].title
                /\ Found(file, rows, m).dest = kids[outl[where].page + 1]
                /\ LeadsToPlace(file, rows, size, e, outl, Found(file, rows, m).first,
                                Append(where, 1))
                /\ LeadsToPlace(file, rows, size, e, outl, Found(file, rows, m).next,
                                NextPlace(where))
  <2>1. IsSeq(where) /\ Len(where) \in Nat
    BY <1>1, TreeFacts
  <2>2. Len(where) # 0
    BY <2>1 DEF IsSeq
  <2>3. PICK i \in 1..n : q[i] = where
    <3>1. Len(where) > 0
      BY <2>1, <2>2
    <3> QED
      BY <1>1, <3>1, PlacedFacts
  <2>4. PICK m, object : m = start + i - 1 /\ object = Found(file, rows, m)
    OBVIOUS
  <2>5. IsBookmark(object, e, i, n, start, kids)
    BY <1>2, <2>4
  <2>6. BookmarkAt(file, rows, size, e, m, where)
    BY <1>3, <2>3, <2>4
  <2>7. object.title = i /\ object.dest = kids[e[i].page + 1]
    BY <2>5 DEF IsBookmark
  <2>8. e[i].title = outl[where].title /\ e[i].page = outl[where].page
    BY <2>3 DEF IsNested
  <2>9. Items(e)[i] = Linked(e, i, FirstOf(YoungerUpTo(e, i, n)))
    BY <1>1, ItemsAre
  <2>10. /\ Items(e)[i].first = FirstOf(ChildrenOf(e, i))
         /\ Items(e)[i].next = FirstOf(YoungerUpTo(e, i, n))
    BY <2>9 DEF Linked
  <2>11. LeadsToPlace(file, rows, size, e, outl, object.first, Append(where, 1))
    <3>1. PICK f : f = FirstOf(ChildrenOf(e, i))
      OBVIOUS
    <3>2. ChildrenOf(e, i) = FromPlace(q, n, where, 1)
      BY <2>3, ChildrenLocated
    <3>3. FindsPlace(outl, q, n, where, 1, f)
      BY <1>1, <1>5, <3>1, <3>2, ArrayFrom
    <3>4. object.first = NumberFrom(start, f)
      BY <2>5, <2>10, <3>1 DEF IsBookmark
    <3> QED
      BY <1>4, <3>3, <3>4
  <2>12. LeadsToPlace(file, rows, size, e, outl, object.next, NextPlace(where))
    <3>1. PICK f : f = FirstOf(YoungerUpTo(e, i, n))
      OBVIOUS
    <3>2. PICK w \in DOMAIN outl, k \in Nat \ {0} :
             /\ NextPlace(where) = Append(w, k)
             /\ YoungerUpTo(e, i, n) = FromPlace(q, n, w, k)
      BY <2>3, YoungerLocated
    <3>3. FindsPlace(outl, q, n, w, k, f)
      BY <1>1, <3>1, <3>2, ArrayFrom
    <3>4. object.next = NumberFrom(start, f)
      BY <2>5, <2>10, <3>1 DEF IsBookmark
    <3> QED
      BY <1>4, <3>2, <3>3, <3>4
  <2> QED
    BY <2>4, <2>6, <2>7, <2>8, <2>11, <2>12 DEF BookmarkAt
<1> QED
  BY <1>6, <1>7 DEF HoldsNested

(* The bookmarks of a file that a merge has published.                     *)
LEMMA NestedIsRight == CallInv /\ TreeInv => OutlineAsGiven
<1> SUFFICES ASSUME CallInv, TreeInv, mpc = "resolved" PROVE OutlineAsGiven
  BY DEF OutlineAsGiven
<1>1. PICK outl, e : outl = call.outline /\ e = flat
  OBVIOUS
<1>2. IsOutlineTree(outl) /\ e = FlattenOutline(outl) /\ phase = "published" /\ outline = e
  BY <1>1, CallInputs DEF CallInv, Flattened
<1>3. ListsArray(e, outl, <<>>, outl[<<>>].children)
  BY <1>2, FlattenLists
<1>4. PICK n \in Nat : n = Len(e)
  BY <1>3, SeqFacts DEF ListsArray
<1>5. PICK lv, start : HoldsOutline(writer.file, Xref.rows, Xref.size, Catalog.outlines,
                                    Pages.kids, e, lv, n, start)
  BY <1>2, <1>4 DEF TreeInv, FileOutline
<1>6. PICK q : q = Where(e)
  OBVIOUS
<1>7. Placed(outl, q, n)
  BY <1>2, <1>3, <1>4, <1>6 DEF Placed, ListsArray
<1>8. Describes(e, lv, n)
  BY <1>5 DEF HoldsOutline
<1>9. ASSUME NEW i \in 1..n
      PROVE  /\ e[i].location = q[i] /\ e[i].level = Len(q[i]) - 1
             /\ e[i].title = outl[q[i]].title /\ e[i].page = outl[q[i]].page
  <2>1. q[i] = e[i].location
    BY <1>4, <1>6 DEF Where
  <2>2. e[i] = FlatEntry(outl, q[i])
    BY <1>3, <1>4, <2>1 DEF ListsArray
  <2> QED
    BY <2>1, <2>2 DEF FlatEntry
<1>10. ListsPlaces(e, lv, outl, q, n)
  <2>1. \A i \in 1..n : lv[i] = Len(q[i]) - 1
    BY <1>8, <1>9 DEF Describes
  <2> QED
    BY <1>7, <1>8, <2>1 DEF ListsPlaces
<1>11. IsNested(e, outl, q, n)
  BY <1>9 DEF IsNested
<1>12. HoldsNested(writer.file, Xref.rows, Xref.size, Catalog.outlines, Pages.kids, e, outl)
  BY <1>5, <1>10, <1>11, LinksLead
<1> QED
  BY <1>1, <1>12, NestedIsRead

-----------------------------------------------------------------------------
(* The results about a merge.                                              *)

(* What a merge keeps, with everything it does to the assembly.            *)
MergeInv ==
    /\ CallInv /\ ResultsInv
    /\ OrderInv /\ DestsInv /\ InheritInv /\ TreeInv

LEMMA InitMerge == MergeInit => MergeInv
<1>1. MergeInit => Init
  BY DEF MergeInit
<1> QED
  BY <1>1, InitCall, InitResults, InitOrder, InitDests, InitInherit, InitTree DEF MergeInv

LEMMA NextMerge == MergeInv /\ [MergeNext]_<<vars, mvars>> => MergeInv'
  BY MergeIsStep, NextCall, NextResults, NextOrder, NextDests, NextInherit, NextTree DEF MergeInv

(* merge() never fails for the nesting of its bookmarks: of what it has    *)
(* flattened, every list has levels that finalize() takes (flattenOutline()*)
(* in index.js, the check of levels in outline.rs).                        *)
THEOREM FlattenedLevelsAreValid ==
    ASSUME NEW outl, IsOutlineTree(outl)
    PROVE  LevelsValid(FlattenOutline(outl))
<1>1. PICK e, q : e = FlattenOutline(outl) /\ q = Where(e)
  OBVIOUS
<1>2. ListsArray(e, outl, <<>>, outl[<<>>].children)
  BY <1>1, FlattenLists
<1>3. PICK n \in Nat : n = Len(e) /\ DOMAIN e = 1..n
  BY <1>2, SeqFacts DEF ListsArray
<1>4. Placed(outl, q, n)
  BY <1>1, <1>2, <1>3 DEF Placed, ListsArray
<1>5. ASSUME NEW i \in 1..n
      PROVE  /\ e[i].level = Len(q[i]) - 1 /\ e[i].level \in Nat /\ Len(q[i]) \in Nat
  <2>1. q[i] = e[i].location
    BY <1>1, <1>3 DEF Where
  <2>2. e[i] = FlatEntry(outl, q[i])
    BY <1>2, <1>3, <2>1 DEF ListsArray
  <2>3. PICK l \in Nat : l = Len(q[i]) /\ l # 0
    BY <1>4, PlacedFacts
  <2>4. e[i].level = l - 1
    BY <2>2, <2>3 DEF FlatEntry
  <2> QED
    BY <2>3, <2>4
<1>6. ASSUME NEW i \in 1..n
      PROVE  e[i].level <= IF i = 1 THEN 0 ELSE e[i - 1].level + 1
  <2>1. PICK l \in Nat : l = Len(q[i]) /\ e[i].level = l - 1
    BY <1>5
  <2>2. i # 1 => i - 1 \in 1..n
    BY <1>3
  <2>3. i # 1 => e[i - 1].level \in Nat /\ e[i - 1].level = Len(q[i - 1]) - 1
    BY <1>5, <2>2
  <2>4. CASE l <= 1
    BY <2>1, <2>3, <2>4
  <2>5. CASE l > 1
    <3>1. PICK j \in 1..(i - 1) : /\ InArray(q[j], q[i])
                                  /\ \A k \in (j + 1)..(i - 1) : Len(q[k]) >= Len(q[i])
      BY <1>4, <2>1, <2>5, PlacedFacts
    <3>2. i # 1 /\ i - 1 \in 1..n /\ j \in 1..n
      BY <1>3, <3>1
    <3>3. CASE j = i - 1
      <4>1. Len(q[i]) = Len(q[i - 1]) + 1
        BY <3>1, <3>3 DEF InArray
      <4> QED
        BY <1>5, <2>1, <2>3, <3>2, <4>1
    <3>4. CASE j # i - 1
      <4>1. i - 1 \in (j + 1)..(i - 1)
        BY <3>1, <3>4
      <4>2. Len(q[i - 1]) >= l /\ Len(q[i - 1]) \in Nat
        BY <1>5, <2>1, <3>1, <3>2, <4>1
      <4> QED
        BY <2>1, <2>3, <3>2, <4>2
    <3> QED
      BY <3>3, <3>4
  <2> QED
    BY <2>1, <2>4, <2>5
<1> QED
  BY <1>1, <1>3, <1>6 DEF LevelsValid

(* In every file that merge() publishes the results it resolves with name  *)
(* the pages each input gave, whatever happens to the inputs, the progress *)
(* callback and the signal on the way (merge(), index.js).                 *)
THEOREM MergeResultsMatch == MergeSpec => []ResultsMatch
<1>1. MergeInv => ResultsMatch
  BY ResultsAreRight DEF MergeInv
<1> QED
  BY <1>1, InitMerge, NextMerge, PTL DEF MergeSpec

(* The bookmarks of a merge's output are the nested outline it was given,  *)
(* at every depth of nesting (merge() and flattenOutline() in index.js,    *)
(* build_outline_objects() in outline.rs).                                 *)
THEOREM MergeKeepsOutline == MergeSpec => []OutlineAsGiven
<1>1. MergeInv => OutlineAsGiven
  BY NestedIsRight DEF MergeInv
<1> QED
  BY <1>1, InitMerge, NextMerge, PTL DEF MergeSpec

(* Whatever the assembly promises any host holds of the files of merge(),  *)
(* which gives it lists of bookmarks of its own making.                    *)
THEOREM MergeKeepsAssembly ==
    MergeSpec => [](/\ TypeOK /\ XrefResolves /\ PagesInOrder
                    /\ PagesInherit /\ DestsResolve /\ OutlineTree)
<1>1. MergeInv => /\ TypeOK /\ XrefResolves /\ PagesInOrder
                  /\ PagesInherit /\ DestsResolve /\ OutlineTree
  BY TreeIsRead DEF MergeInv, OrderInv, DestsInv, InheritInv, AssemblerInv
<1> QED
  BY <1>1, InitMerge, NextMerge, PTL DEF MergeSpec
=============================================================================
