--------------------------- MODULE ExtractionProofs --------------------------
(***************************************************************************)
(* Proofs about Extraction, for any calls, versions of the source, output  *)
(* files and faults.                                                       *)
(***************************************************************************)
EXTENDS Extraction, TLAPS

Whole == {f \in Files : disk[f].kind = "whole"}

(* Which function can be where, and what has been parsed by then.          *)
StageMatches ==
    /\ pc \in {"looping", "removing"} => call.fn = "extractRanges" /\ read # None
    /\ pc = "counting" => call.fn # "extractRanges"
    /\ pc \in {"extracting", "publishing", "cleaning"} => call.fn = "extract"
    /\ pc = "publishing" \/ (pc = "resolved" /\ call.fn = "extractRanges") => read # None
    /\ pc \in {"start", "counting", "looping", "removing", "extracting"} => result = None
    /\ removing # {} => pc \in {"removing", "rejected"}
    /\ pc = "start" => written = <<>>

(* Every complete file has somebody who will remove it, or publish it.     *)
WholeTracked ==
    /\ pc \in {"start", "counting", "extracting"} => Whole = {}
    /\ pc = "looping" => Whole \subseteq WrittenFiles
    /\ pc \in {"removing", "rejected"} => Whole \subseteq removing \union late
    /\ pc = "publishing" => Whole \subseteq {Partial}
    /\ pc = "cleaning" =>
          Whole \subseteq {Partial} \union late \union
                          IF result = None THEN {} ELSE {call.output}

(* Slice i is the last one written to its file, which still is that slice. *)
IsLast(i) == \A j \in DOMAIN written : written[j].output = written[i].output => j <= i

SliceThere(i) ==
    /\ 1 <= FirstPage(written[i]) /\ FirstPage(written[i]) <= LastPage(written[i])
    /\ LastPage(written[i]) <= Versions[read].pages
    /\ disk[written[i].output] = File("whole", SlicePages(written[i]))

SlicesMatch ==
    pc = "looping" \/ (pc = "resolved" /\ call.fn = "extractRanges") =>
        \A f \in WrittenFiles :
            \E i \in DOMAIN written : written[i].output = f /\ IsLast(i) /\ SliceThere(i)

(* The selection is what the caller asked for, and stays it.               *)
Selecting ==
    \/ pc \in {"extracting", "publishing"}
    \/ pc = "cleaning" /\ result # None
    \/ pc = "resolved" /\ call.fn = "extract"

SelectionMatches ==
    Selecting => selection # <<>> /\ IsInjective(selection) /\ Asks(call.pages, selection)

(* The file that is going to be published, or is.                          *)
Selected == [i \in DOMAIN selection |-> <<read, selection[i]>>]

FileIsSelected(f) ==
    /\ result = Len(selection)
    /\ \A i \in DOMAIN selection : selection[i] < Versions[read].pages
    /\ disk[f] = File("whole", Selected)

DocumentMatches ==
    /\ pc = "publishing" => FileIsSelected(Partial)
    /\ Selecting /\ pc \in {"cleaning", "resolved"} => FileIsSelected(call.output)

(* The page counts that are reported.                                      *)
CountMatches ==
    pc = "resolved" =>
        /\ call.fn = "extractRanges" => result = Versions[read].pages
        /\ call.fn = "getPageCount" => result = Versions[read].pages /\ result > 0

ExtractionInv ==
    /\ TypeOK
    /\ StageMatches /\ WholeTracked /\ SlicesMatch
    /\ SelectionMatches /\ DocumentMatches /\ CountMatches

-----------------------------------------------------------------------------
(* The arguments of the call.                                              *)
LEMMA RangesTyped ==
    ASSUME TypeOK, call.fn = "extractRanges"
    PROVE  call.ranges \in Seq(Ranges)
  BY CallsKnown DEF TypeOK

LEMMA RangeTyped ==
    ASSUME NEW range \in Ranges
    PROVE  range.start \in JSNumber /\ range.end \in JSNumber /\ range.output \in Paths
  BY DEF Ranges

(* What a number becomes on its way into the core: a u32, and the same     *)
(* number if it was one.                                                   *)
LEMMA NumberConverted ==
    ASSUME NEW number \in JSNumber
    PROVE  /\ ToUnsigned(number, U32) \in 0..(U32 - 1)
           /\ IsUnsigned(number, U32) => ToUnsigned(number, U32) = number.whole
<1>1. number.whole \in Int /\ U32 \in Nat /\ U32 > 0
  BY U32Positive DEF JSNumber
<1>2. \A n \in Int, u \in Nat : u > 0 => n % u \in 0..(u - 1)
  OBVIOUS
<1>3. \A n \in Int, u \in Nat : u > 0 /\ n \in 0..(u - 1) => n % u = n
  OBVIOUS
<1> QED
  BY <1>1, <1>2, <1>3 DEF ToUnsigned, IsUnsigned

LEMMA OutputTyped ==
    ASSUME TypeOK, call.fn = "extract"
    PROVE  call.output \in Paths /\ call.output \in Files /\ call.output # Partial
  BY CallsKnown, PartialApart DEF TypeOK, Files

LEMMA VersionTyped ==
    ASSUME NEW v \in DOMAIN Versions
    PROVE  Versions[v].pages \in Nat /\ v \in Nat /\ v # None
<1>1. v \in 1..Len(Versions) /\ Len(Versions) \in Nat
  BY VersionsHavePages
<1>2. Versions[v] \in [pages : 0..(U32 - 1), inflated : Nat]
  <2> DEFINE Version == [pages : 0..(U32 - 1), inflated : Nat]
  <2>1. Versions \in Seq(Version)
    BY VersionsHavePages
  <2> HIDE DEF Version
  <2>2. Versions[v] \in Version
    BY <1>1, <2>1
  <2> QED
    BY <2>2 DEF Version
<1>3. \A n \in 0..(U32 - 1) : n \in Nat
  BY U32Positive
<1> QED
  BY <1>1, <1>2, <1>3 DEF None

LEMMA AbsentTyped ==
    ASSUME NEW k \in {"old", "absent", "torn", "whole"}
    PROVE  File(k, <<>>) \in Contents /\ File(k, <<>>).kind = k
  BY DEF File, Contents

LEMMA SliceTyped ==
    ASSUME NEW v \in DOMAIN Versions, read = v,
           NEW range, FirstPage(range) \in Nat, LastPage(range) \in Nat,
           1 <= FirstPage(range), FirstPage(range) <= LastPage(range)
    PROVE  File("whole", SlicePages(range)) \in Contents
<1>1. PICK first \in Nat, last \in Nat : first = FirstPage(range) /\ last = LastPage(range)
  OBVIOUS
<1>2. last - first + 1 \in Nat /\ \A i \in 1..(last - first + 1) : first + i - 2 \in Nat
  BY <1>1
<1>3. SlicePages(range) \in Seq((DOMAIN Versions) \X Nat)
  BY <1>1, <1>2 DEF SlicePages
<1> QED
  BY <1>3 DEF File, Contents

LEMMA InitExtraction == Init => ExtractionInv
<1> SUFFICES ASSUME Init PROVE ExtractionInv
  OBVIOUS
<1>1. \A f \in Files : disk[f].kind # "whole"
  BY DEF Init, File
<1>2. 1 \in DOMAIN Versions
  BY VersionsHavePages
<1>3. disk \in [Files -> Contents]
  BY AbsentTyped DEF Init
<1>4. TypeOK
  <2>1. selection \in Seq(Nat) /\ written \in Seq(Ranges)
    BY DEF Init
  <2>2. /\ call \in Calls /\ pc = "start" /\ source = 1 /\ read = None /\ removing = {}
        /\ aborted \in BOOLEAN /\ result = None /\ late = {}
    BY DEF Init
  <2> QED
    BY <1>2, <1>3, <2>1, <2>2 DEF TypeOK, None
<1>5. StageMatches /\ SlicesMatch /\ SelectionMatches /\ DocumentMatches /\ CountMatches
  BY DEF Init, StageMatches, SlicesMatch, SelectionMatches, DocumentMatches, CountMatches,
         Selecting, None
<1>6. WholeTracked
  BY <1>1 DEF Init, WholeTracked, Whole
<1> QED
  BY <1>4, <1>5, <1>6 DEF ExtractionInv

-----------------------------------------------------------------------------
LEMMA StartKeeps ==
    ASSUME ExtractionInv, Start
    PROVE  ExtractionInv'
<1>1. /\ TypeOK /\ pc = "start" /\ result = None /\ removing = {} /\ Whole = {}
      /\ UNCHANGED <<call, source, selection, written, removing, aborted, disk, result, late>>
      /\ source \in DOMAIN Versions
  BY DEF Start, ExtractionInv, StageMatches, WholeTracked, TypeOK
<1>2. /\ read' \in DOMAIN Versions \union {None}
      /\ pc' \in {"rejected", "looping", "counting"}
      /\ pc' = "looping" => call.fn = "extractRanges" /\ read' # None
      /\ pc' = "counting" => call.fn # "extractRanges"
  BY <1>1, VersionTyped DEF Start, CountPages, SpawnTask, Goto, TypeOK
<1>3. Whole' = {}
  BY <1>1 DEF Whole
<1>4. TypeOK'
  BY <1>1, <1>2 DEF TypeOK, Settled
<1>5. StageMatches' /\ WholeTracked'
  BY <1>1, <1>2, <1>3 DEF StageMatches, WholeTracked
<1>6. SlicesMatch'
  <2>1. pc' = "looping" => WrittenFiles' = {}
    BY <1>1 DEF WrittenFiles, ExtractionInv, StageMatches
  <2> QED
    BY <1>2, <2>1 DEF SlicesMatch
<1>7. SelectionMatches' /\ DocumentMatches' /\ CountMatches'
  BY <1>2 DEF SelectionMatches, DocumentMatches, CountMatches, Selecting
<1> QED
  BY <1>4, <1>5, <1>6, <1>7 DEF ExtractionInv

-----------------------------------------------------------------------------
(* extractRanges().                                                        *)

LEMMA WrittenGrows ==
    ASSUME TypeOK, NEW range \in Ranges, written' = Append(written, range)
    PROVE  /\ written' \in Seq(Ranges)
           /\ DOMAIN written' = DOMAIN written \union {Len(written) + 1}
           /\ \A i \in DOMAIN written : written'[i] = written[i] /\ i < Len(written) + 1
           /\ written'[Len(written) + 1] = range
           /\ WrittenFiles' = WrittenFiles \union {range.output}
<1>1. written \in Seq(Ranges)
  BY DEF TypeOK
<1> HIDE DEF Ranges
<1>2. /\ written' \in Seq(Ranges)
      /\ DOMAIN written' = DOMAIN written \union {Len(written) + 1}
      /\ \A i \in DOMAIN written : written'[i] = written[i] /\ i < Len(written) + 1
      /\ written'[Len(written) + 1] = range
  BY <1>1
<1>3. WrittenFiles' = WrittenFiles \union {range.output}
  BY <1>2 DEF WrittenFiles
<1> QED
  BY <1>2, <1>3

(* The catch block, when the loop has completed no file any more.          *)
LEMMA CatchKeeps ==
    ASSUME ExtractionInv, pc = "looping", Catch,
           disk' \in [Files -> Contents], Whole' \subseteq Whole,
           UNCHANGED <<call, source, read, selection, written, aborted, result, late>>
    PROVE  ExtractionInv'
<1>1. /\ TypeOK /\ call.fn = "extractRanges" /\ read # None /\ result = None
      /\ Whole \subseteq WrittenFiles
      /\ pc' = "removing" /\ removing' = WrittenFiles
  BY DEF Catch, Goto, ExtractionInv, StageMatches, WholeTracked
<1>2. WrittenFiles \subseteq Paths
  <2>1. written \in Seq(Ranges)
    BY <1>1 DEF TypeOK
  <2>2. \A i \in DOMAIN written : written[i] \in Ranges
    BY <2>1
  <2> QED
    BY <2>2, RangeTyped DEF WrittenFiles
<1>3. TypeOK'
  BY <1>1, <1>2 DEF TypeOK
<1>4. StageMatches' /\ WholeTracked'
  BY <1>1 DEF StageMatches, WholeTracked
<1>5. SlicesMatch' /\ SelectionMatches' /\ DocumentMatches' /\ CountMatches'
  BY <1>1 DEF SlicesMatch, SelectionMatches, DocumentMatches, CountMatches, Selecting
<1> QED
  BY <1>3, <1>4, <1>5 DEF ExtractionInv

(* A slice is complete: it is the last one of its file, and of no other.   *)
LEMMA SliceWritten ==
    ASSUME ExtractionInv, pc = "looping",
           NEW range \in Ranges, ~RangeRefused(range),
           disk' = [disk EXCEPT ![range.output] = File("whole", SlicePages(range))],
           written' = Append(written, range),
           UNCHANGED <<call, pc, source, read, selection, removing, aborted, result, late>>
    PROVE  ExtractionInv'
<1>1. /\ TypeOK /\ call.fn = "extractRanges" /\ read \in DOMAIN Versions /\ result = None
      /\ removing = {} /\ Whole \subseteq WrittenFiles /\ range.output \in Files
  BY RangeTyped DEF ExtractionInv, StageMatches, WholeTracked, TypeOK, Files
<1>2. /\ 1 <= FirstPage(range) /\ FirstPage(range) <= LastPage(range)
      /\ LastPage(range) <= Versions[read].pages
      /\ FirstPage(range) \in Nat /\ LastPage(range) \in Nat
  <2>1. FirstPage(range) \in 0..(U32 - 1) /\ LastPage(range) \in 0..(U32 - 1)
    BY RangeTyped, NumberConverted DEF FirstPage, LastPage
  <2> QED
    BY <1>1, <2>1, VersionTyped, U32Positive DEF RangeRefused
<1>3. /\ File("whole", SlicePages(range)) \in Contents
      /\ File("whole", SlicePages(range)).kind = "whole"
  BY <1>1, <1>2, SliceTyped DEF File
<1>4. /\ disk' \in [Files -> Contents]
      /\ disk'[range.output] = File("whole", SlicePages(range))
      /\ \A f \in Files \ {range.output} : disk'[f] = disk[f]
  BY <1>1, <1>3 DEF TypeOK
<1>5. WrittenFiles' = WrittenFiles \union {range.output}
  BY <1>1, WrittenGrows
<1>6. TypeOK'
  BY <1>1, <1>4, WrittenGrows DEF TypeOK
<1>7. StageMatches'
  BY <1>1 DEF ExtractionInv, StageMatches
<1>8. WholeTracked'
  BY <1>1, <1>4, <1>5 DEF WholeTracked, Whole
<1>9. SlicesMatch'
  <2> SUFFICES ASSUME NEW f \in WrittenFiles'
               PROVE  \E i \in DOMAIN written' :
                         written'[i].output = f /\ IsLast(i)' /\ SliceThere(i)'
    BY DEF SlicesMatch
  <2>1. CASE f = range.output
    <3> PICK n \in Nat : n = Len(written) + 1
      BY <1>1 DEF TypeOK
    <3>1. n \in DOMAIN written' /\ written'[n] = range
      BY <1>1, WrittenGrows
    <3>2. IsLast(n)'
      BY <1>1, WrittenGrows DEF IsLast
    <3>3. SliceThere(n)'
      BY <1>2, <1>4, <3>1 DEF SliceThere, SlicePages, FirstPage, LastPage, File
    <3> QED
      BY <2>1, <3>1, <3>2, <3>3
  <2>2. CASE f # range.output
    <3>1. PICK i \in DOMAIN written : written[i].output = f /\ IsLast(i) /\ SliceThere(i)
      BY <1>5, <2>2 DEF ExtractionInv, SlicesMatch
    <3>2. i \in DOMAIN written' /\ written'[i] = written[i]
      BY <1>1, WrittenGrows
    <3>3. IsLast(i)'
      BY <1>1, <2>2, <3>1, WrittenGrows DEF IsLast
    <3>4. f \in Files
      <4>1. written \in Seq(Ranges)
        BY <1>1 DEF TypeOK
      <4>2. written[i] \in Ranges
        BY <4>1
      <4> QED
        BY <3>1, <4>2, RangeTyped DEF Files
    <3>5. SliceThere(i)'
      BY <1>4, <2>2, <3>1, <3>2, <3>4 DEF SliceThere, SlicePages, FirstPage, LastPage, File
    <3> QED
      BY <3>1, <3>2, <3>3, <3>5
  <2> QED
    BY <2>1, <2>2
<1>10. SelectionMatches' /\ DocumentMatches' /\ CountMatches'
  BY DEF SelectionMatches, DocumentMatches, CountMatches, Selecting
<1> QED
  BY <1>6, <1>7, <1>8, <1>9, <1>10 DEF ExtractionInv

LEMMA SliceKeeps ==
    ASSUME ExtractionInv, Slice
    PROVE  ExtractionInv'
<1> DEFINE range == call.ranges[Len(written) + 1]
<1>1. /\ TypeOK /\ pc = "looping" /\ call.fn = "extractRanges"
      /\ Len(written) < Len(call.ranges)
      /\ UNCHANGED <<call, source, read, selection, aborted, result, late>>
  BY DEF Slice, ExtractionInv, StageMatches
<1>2. range \in Ranges
  <2>1. call.ranges \in Seq(Ranges) /\ Len(written) \in Nat
    BY <1>1, RangesTyped DEF TypeOK
  <2> QED
    BY <1>1, <2>1
<1>3. CASE /\ ~RangeRefused(range)
           /\ disk' = [disk EXCEPT ![range.output] = File("whole", SlicePages(range))]
           /\ written' = Append(written, range) /\ UNCHANGED <<pc, removing>>
  <2> HIDE DEF range
  <2> QED
    BY <1>1, <1>2, <1>3, SliceWritten
<1>4. CASE /\ disk' = [disk EXCEPT ![range.output] = File("torn", <<>>)]
           /\ Catch /\ UNCHANGED written
  <2> HIDE DEF range
  <2>1. File("torn", <<>>) \in Contents /\ File("torn", <<>>).kind = "torn"
    BY AbsentTyped
  <2>2. disk' \in [Files -> Contents] /\ Whole' \subseteq Whole
    BY <1>1, <1>4, <2>1 DEF TypeOK, Whole
  <2> QED
    BY <1>1, <1>4, <2>2, CatchKeeps
<1>5. CASE Catch /\ UNCHANGED <<disk, written>>
  <2>1. disk' \in [Files -> Contents] /\ Whole' \subseteq Whole
    BY <1>1, <1>5 DEF TypeOK, Whole
  <2> QED
    BY <1>1, <1>5, <2>1, CatchKeeps
<1> HIDE DEF range
<1> QED
  BY <1>3, <1>4, <1>5 DEF Slice, range

LEMMA ReturnKeeps ==
    ASSUME ExtractionInv, Return
    PROVE  ExtractionInv'
<1>1. /\ TypeOK /\ pc = "looping" /\ call.fn = "extractRanges" /\ read \in DOMAIN Versions
      /\ UNCHANGED <<call, source, read, selection, written, aborted, disk, late>>
  BY DEF Return, ExtractionInv, StageMatches, TypeOK
<1>2. CASE Catch /\ UNCHANGED result
  <2>1. disk' \in [Files -> Contents] /\ Whole' \subseteq Whole
    BY <1>1 DEF TypeOK, Whole
  <2> QED
    BY <1>1, <1>2, <2>1, CatchKeeps
<1>3. CASE pc' = "resolved" /\ result' = Versions[read].pages /\ UNCHANGED removing
  <2>1. removing = {}
    BY <1>1 DEF ExtractionInv, StageMatches
  <2>2. TypeOK'
    BY <1>1, <1>3, VersionTyped DEF TypeOK, Settled
  <2>3. StageMatches' /\ WholeTracked' /\ CountMatches'
    <3>1. read # None /\ result' = Versions[read].pages
      BY <1>1, <1>3, VersionTyped
    <3> QED
      BY <1>1, <1>3, <2>1, <3>1 DEF StageMatches, WholeTracked, CountMatches
  <2>4. SlicesMatch'
    <3> SUFFICES ASSUME NEW f \in WrittenFiles
                 PROVE  \E i \in DOMAIN written' :
                           written'[i].output = f /\ IsLast(i)' /\ SliceThere(i)'
      BY <1>1 DEF SlicesMatch, WrittenFiles
    <3>1. PICK i \in DOMAIN written : written[i].output = f /\ IsLast(i) /\ SliceThere(i)
      BY <1>1 DEF ExtractionInv, SlicesMatch
    <3>2. IsLast(i)' /\ SliceThere(i)'
      BY <1>1, <3>1 DEF IsLast, SliceThere, SlicePages, FirstPage, LastPage, File
    <3> QED
      BY <1>1, <3>1, <3>2
  <2>5. SelectionMatches' /\ DocumentMatches'
    BY <1>1, <1>3 DEF SelectionMatches, DocumentMatches, Selecting
  <2> QED
    BY <2>2, <2>3, <2>4, <2>5 DEF ExtractionInv
<1> QED
  BY <1>2, <1>3 DEF Return, Goto

LEMMA RemoveFileKeeps ==
    ASSUME ExtractionInv, NEW f \in Paths, RemoveFile(f)
    PROVE  ExtractionInv'
<1>1. /\ TypeOK /\ pc \in {"removing", "rejected"} /\ f \in removing
      /\ Whole \subseteq removing \union late
      /\ removing' = removing \ {f} /\ pc' \in {pc, "rejected"}
      /\ UNCHANGED <<call, source, read, selection, written, aborted, result>>
  BY DEF RemoveFile, ExtractionInv, StageMatches, WholeTracked, Goto
<1>2. f \in Files
  BY DEF Files
<1>3. /\ disk' \in [Files -> Contents] /\ late' \subseteq Files
      /\ Whole' \subseteq removing' \union late'
  <2>1. CASE disk' = [disk EXCEPT ![f] = File("absent", <<>>)] /\ UNCHANGED late
    <3>1. File("absent", <<>>) \in Contents /\ File("absent", <<>>).kind = "absent"
      BY AbsentTyped
    <3> QED
      BY <1>1, <1>2, <2>1, <3>1 DEF TypeOK, Whole
  <2>2. CASE late' = late \union {f} /\ UNCHANGED disk
    BY <1>1, <1>2, <2>2 DEF TypeOK, Whole
  <2> QED
    BY <2>1, <2>2 DEF RemoveFile
<1>4. TypeOK'
  BY <1>1, <1>3 DEF TypeOK, Settled
<1>5. StageMatches' /\ WholeTracked'
  BY <1>1, <1>3 DEF ExtractionInv, StageMatches, WholeTracked
<1>6. SlicesMatch' /\ SelectionMatches' /\ DocumentMatches' /\ CountMatches'
  BY <1>1 DEF SlicesMatch, SelectionMatches, DocumentMatches, CountMatches, Selecting
<1> QED
  BY <1>4, <1>5, <1>6 DEF ExtractionInv

LEMMA RethrowKeeps ==
    ASSUME ExtractionInv, Rethrow
    PROVE  ExtractionInv'
<1>1. /\ TypeOK /\ pc = "removing" /\ pc' = "rejected" /\ removing = {} /\ Whole \subseteq late
      /\ UNCHANGED <<call, source, read, selection, written, removing, aborted,
                     disk, result, late>>
  BY DEF Rethrow, Goto, ExtractionInv, WholeTracked
<1>2. TypeOK' /\ StageMatches'
  BY <1>1 DEF TypeOK, Settled, StageMatches
<1>3. WholeTracked'
  BY <1>1 DEF WholeTracked, Whole
<1>4. SlicesMatch' /\ SelectionMatches' /\ DocumentMatches' /\ CountMatches'
  BY <1>1 DEF SlicesMatch, SelectionMatches, DocumentMatches, CountMatches, Selecting
<1> QED
  BY <1>2, <1>3, <1>4 DEF ExtractionInv

-----------------------------------------------------------------------------
(* getPageCount() and extract().                                           *)

LEMMA TaskReadsKeeps ==
    ASSUME ExtractionInv, TaskReads
    PROVE  ExtractionInv'
<1>1. /\ TypeOK /\ pc \in {"counting", "extracting"} /\ read' = source
      /\ UNCHANGED <<call, pc, source, selection, written, removing, aborted,
                     disk, result, late>>
  BY DEF TaskReads, ExtractionInv
<1>2. TypeOK' /\ StageMatches' /\ WholeTracked'
  BY <1>1 DEF ExtractionInv, TypeOK, StageMatches, WholeTracked, Whole
<1>3. SlicesMatch' /\ DocumentMatches' /\ CountMatches'
  BY <1>1 DEF SlicesMatch, DocumentMatches, CountMatches
<1>4. SelectionMatches'
  BY <1>1 DEF ExtractionInv, SelectionMatches, Selecting, Asks
<1> QED
  BY <1>2, <1>3, <1>4 DEF ExtractionInv

(* resolveSelection(): a valid selection resolves to what it asks for.     *)
LEMMA ResolvedAsks ==
    ASSUME TypeOK, call.fn = "extract", NEW count \in Nat, SelectionValid(call.pages, count)
    PROVE  /\ ResolveSelection(call.pages) \in Seq(Nat)
           /\ ResolveSelection(call.pages) # <<>>
           /\ IsInjective(ResolveSelection(call.pages))
           /\ Asks(call.pages, ResolveSelection(call.pages))
<1>1. CASE call.pages.kind = "array"
  <2>1. call.pages.indices \in Seq(Int) /\ ResolveSelection(call.pages) = call.pages.indices
    BY <1>1, CallsKnown DEF TypeOK, ResolveSelection
  <2>2. /\ call.pages.indices # <<>> /\ IsInjective(call.pages.indices)
        /\ \A i \in DOMAIN call.pages.indices : call.pages.indices[i] \in 0..(count - 1)
    BY <1>1 DEF SelectionValid
  <2>3. call.pages.indices \in Seq(Nat)
    BY <2>1, <2>2
  <2> QED
    BY <1>1, <2>1, <2>2, <2>3 DEF Asks
<1>2. CASE call.pages.kind = "range"
  <2> DEFINE start == call.pages.start
             end == call.pages.end
             n == end - start
             indices == [i \in 1..n |-> start + i - 1]
  <2>1. start \in Nat /\ end \in Nat /\ n \in Nat /\ n > 0 /\ end = start + n
    BY <1>2, CallsKnown DEF TypeOK, SelectionValid
  <2>2. ResolveSelection(call.pages) = indices
    BY <1>2 DEF ResolveSelection
  <2> HIDE DEF start, end, n
  <2>3. indices \in Seq(Nat) /\ DOMAIN indices = 1..n /\ 1 \in DOMAIN indices
    BY <2>1
  <2>4. IsInjective(indices)
    BY <2>1 DEF IsInjective
  <2>5. {indices[i] : i \in DOMAIN indices} = start..(end - 1)
    <3>1. ASSUME NEW k \in start..(end - 1) PROVE \E i \in DOMAIN indices : indices[i] = k
      <4>1. k - start + 1 \in 1..n
        BY <2>1
      <4> QED
        BY <2>1, <4>1
    <3>2. \A i \in DOMAIN indices : indices[i] \in start..(end - 1)
      BY <2>1
    <3> QED
      BY <3>1, <3>2
  <2>6. \A i, j \in DOMAIN indices : i < j => indices[i] < indices[j]
    BY <2>1
  <2>7. Asks(call.pages, indices)
    BY <1>2, <2>5, <2>6 DEF Asks, start, end
  <2>8. indices # <<>>
    BY <2>3
  <2> HIDE DEF indices
  <2> QED
    BY <2>2, <2>3, <2>4, <2>7, <2>8
<1> QED
  BY <1>1, <1>2 DEF SelectionValid

LEMMA CountedKeeps ==
    ASSUME ExtractionInv, Counted
    PROVE  ExtractionInv'
<1>1. /\ TypeOK /\ pc = "counting" /\ read \in DOMAIN Versions
      /\ call.fn # "extractRanges" /\ result = None /\ removing = {} /\ Whole = {}
      /\ Versions[read].pages \in Nat /\ source \in DOMAIN Versions
      /\ UNCHANGED <<call, source, written, removing, aborted, disk, late>>
  BY VersionTyped DEF Counted, ExtractionInv, StageMatches, WholeTracked, TypeOK
<1>2. Whole' = {}
  BY <1>1 DEF Whole
<1>3. CASE pc' = "rejected" /\ UNCHANGED <<read, selection, result>>
  <2>1. TypeOK' /\ StageMatches' /\ WholeTracked'
    BY <1>1, <1>2, <1>3 DEF TypeOK, Settled, StageMatches, WholeTracked
  <2>2. SlicesMatch' /\ SelectionMatches' /\ DocumentMatches' /\ CountMatches'
    BY <1>3 DEF SlicesMatch, SelectionMatches, DocumentMatches, CountMatches, Selecting
  <2> QED
    BY <2>1, <2>2 DEF ExtractionInv
<1>4. CASE /\ Parsed /\ call.fn = "getPageCount" /\ result' = Versions[read].pages
           /\ pc' = "resolved" /\ UNCHANGED <<read, selection>>
  <2>1. TypeOK' /\ StageMatches' /\ WholeTracked' /\ CountMatches'
    BY <1>1, <1>2, <1>4 DEF TypeOK, Settled, StageMatches, WholeTracked, CountMatches, Parsed
  <2>2. SlicesMatch' /\ SelectionMatches' /\ DocumentMatches'
    BY <1>1, <1>4 DEF SlicesMatch, SelectionMatches, DocumentMatches, Selecting
  <2> QED
    BY <2>1, <2>2 DEF ExtractionInv
<1>5. CASE /\ call.fn = "extract" /\ SelectionValid(call.pages, Versions[read].pages)
           /\ selection' = ResolveSelection(call.pages)
           /\ read' \in {source, None} /\ pc' = "extracting" /\ UNCHANGED result
  <2>1. /\ selection' \in Seq(Nat) /\ selection' # <<>> /\ IsInjective(selection')
        /\ Asks(call.pages, selection')
    BY <1>1, <1>5, ResolvedAsks
  <2>2. TypeOK' /\ StageMatches' /\ WholeTracked'
    BY <1>1, <1>2, <1>5, <2>1 DEF TypeOK, StageMatches, WholeTracked
  <2>3. SlicesMatch' /\ DocumentMatches' /\ CountMatches'
    BY <1>5 DEF SlicesMatch, DocumentMatches, CountMatches
  <2>4. SelectionMatches'
    BY <1>1, <2>1 DEF SelectionMatches, Asks
  <2> QED
    BY <2>2, <2>3, <2>4 DEF ExtractionInv
<1> QED
  BY <1>3, <1>4, <1>5 DEF Counted, SpawnTask, Goto

(* A selection that is not refused lies within the document that was read. *)
LEMMA SelectedTyped ==
    ASSUME TypeOK, read \in DOMAIN Versions, ~Refused
    PROVE  /\ \A i \in DOMAIN selection : selection[i] < Versions[read].pages
           /\ Selected \in Seq((DOMAIN Versions) \X Nat)
           /\ Len(Selected) = Len(selection)
           /\ File("whole", Selected) \in Contents
<1>1. \A i \in DOMAIN selection : selection[i] \in 0..(Versions[read].pages - 1)
  BY DEF Refused, SelectionValid
<1>2. Versions[read].pages \in Nat
  BY VersionTyped
<1>3. PICK n \in Nat : DOMAIN selection = 1..n /\ Len(selection) = n
  BY DEF TypeOK
<1>4. \A i \in 1..n : selection[i] \in Nat
  BY <1>1, <1>3
<1>5. /\ Selected \in Seq((DOMAIN Versions) \X Nat)
      /\ Len(Selected) = n
  BY <1>3, <1>4 DEF Selected
<1>6. \A i \in DOMAIN selection : selection[i] < Versions[read].pages
  BY <1>1, <1>2
<1> QED
  BY <1>3, <1>5, <1>6 DEF File, Contents

LEMMA ExtractedKeeps ==
    ASSUME ExtractionInv, Extracted
    PROVE  ExtractionInv'
<1>1. /\ TypeOK /\ pc = "extracting" /\ read \in DOMAIN Versions /\ call.fn = "extract"
      /\ result = None /\ removing = {} /\ Whole = {}
      /\ selection # <<>> /\ IsInjective(selection) /\ Asks(call.pages, selection)
      /\ UNCHANGED <<call, source, read, selection, written, removing, aborted, late>>
  BY DEF Extracted, ExtractionInv, StageMatches, WholeTracked, SelectionMatches,
         Selecting, TypeOK
<1>2. Partial \in Files
  BY DEF Files
<1>3. CASE /\ disk' \in [Files -> Contents] /\ Whole' \subseteq {Partial}
           /\ pc' = "cleaning" /\ UNCHANGED result
  <2>1. TypeOK' /\ StageMatches' /\ WholeTracked'
    BY <1>1, <1>3 DEF TypeOK, StageMatches, WholeTracked
  <2>2. SlicesMatch' /\ SelectionMatches' /\ DocumentMatches' /\ CountMatches'
    BY <1>1, <1>3 DEF SlicesMatch, SelectionMatches, DocumentMatches, CountMatches, Selecting
  <2> QED
    BY <2>1, <2>2 DEF ExtractionInv
<1>4. CASE pc' = "cleaning" /\ UNCHANGED <<disk, result>>
  <2>1. disk' \in [Files -> Contents] /\ Whole' \subseteq {Partial}
    BY <1>1, <1>4 DEF TypeOK, Whole
  <2> QED
    BY <1>3, <1>4, <2>1
<1>5. CASE /\ disk' = [disk EXCEPT ![Partial] = File("torn", <<>>)]
           /\ pc' = "cleaning" /\ UNCHANGED result
  <2>1. File("torn", <<>>) \in Contents /\ File("torn", <<>>).kind = "torn"
    BY AbsentTyped
  <2>2. disk' \in [Files -> Contents] /\ Whole' \subseteq {Partial}
    BY <1>1, <1>5, <2>1 DEF TypeOK, Whole
  <2> QED
    BY <1>3, <1>5, <2>2
<1>6. ASSUME ~Refused, disk' = [disk EXCEPT ![Partial] = File("whole", Selected)]
      PROVE  /\ disk' \in [Files -> Contents] /\ Whole' \subseteq {Partial}
             /\ disk'[Partial] = File("whole", Selected)
  <2>1. File("whole", Selected) \in Contents
    BY <1>1, <1>6, SelectedTyped
  <2> QED
    BY <1>1, <1>2, <1>6, <2>1 DEF TypeOK, Whole
<1>7. CASE /\ ~Refused /\ disk' = [disk EXCEPT ![Partial] = File("whole", Selected)]
           /\ pc' = "cleaning" /\ UNCHANGED result
  BY <1>3, <1>6, <1>7
<1>8. CASE /\ ~Refused /\ disk' = [disk EXCEPT ![Partial] = File("whole", Selected)]
           /\ pc' = "publishing" /\ result' = Len(Selected)
  <2>1. /\ disk' \in [Files -> Contents] /\ Whole' \subseteq {Partial}
        /\ disk'[Partial] = File("whole", Selected)
    BY <1>6, <1>8
  <2>2. /\ result' = Len(selection) /\ result' \in Nat
        /\ \A i \in DOMAIN selection : selection[i] < Versions[read].pages
    BY <1>1, <1>8, SelectedTyped DEF TypeOK
  <2>3. TypeOK' /\ StageMatches' /\ WholeTracked'
    <3>1. pc' = "publishing"
      BY <1>8
    <3>2. TypeOK'
      BY <1>1, <2>1, <2>2, <3>1 DEF TypeOK
    <3>3. read # None
      BY <1>1, VersionTyped
    <3> QED
      BY <1>1, <2>1, <3>1, <3>2, <3>3 DEF StageMatches, WholeTracked
  <2>4. FileIsSelected(Partial)'
    <3>1. Selected' = Selected
      BY <1>1 DEF Selected
    <3> QED
      BY <1>1, <2>1, <2>2, <3>1 DEF FileIsSelected, File
  <2>5. DocumentMatches' /\ SlicesMatch' /\ CountMatches'
    BY <1>8, <2>4 DEF DocumentMatches, SlicesMatch, CountMatches
  <2>6. SelectionMatches'
    BY <1>1 DEF SelectionMatches, Asks
  <2> QED
    BY <2>3, <2>5, <2>6 DEF ExtractionInv
<1> QED
  BY <1>4, <1>5, <1>7, <1>8 DEF Extracted, Selected, Goto

LEMMA PublishKeeps ==
    ASSUME ExtractionInv, Publish
    PROVE  ExtractionInv'
<1>1. /\ TypeOK /\ pc = "publishing" /\ call.fn = "extract" /\ read # None
      /\ removing = {} /\ Whole \subseteq {Partial} /\ FileIsSelected(Partial)
      /\ selection # <<>> /\ IsInjective(selection) /\ Asks(call.pages, selection)
      /\ pc' = "cleaning"
      /\ UNCHANGED <<call, source, read, selection, written, removing, aborted>>
  BY DEF Publish, Goto, ExtractionInv, StageMatches, WholeTracked, SelectionMatches,
         Selecting, DocumentMatches
<1>2. call.output \in Files /\ call.output # Partial /\ Partial \in Files
  BY <1>1, OutputTyped DEF Files
<1>3. SlicesMatch' /\ CountMatches' /\ SelectionMatches'
  BY <1>1 DEF SlicesMatch, CountMatches, SelectionMatches, Asks
<1>4. CASE /\ disk' = [disk EXCEPT ![call.output] = disk[Partial],
                                   ![Partial] = File("absent", <<>>)]
           /\ \/ UNCHANGED <<result, late>>
              \/ result' = None /\ late' = late \union {call.output}
  <2>1. File("absent", <<>>) \in Contents /\ File("absent", <<>>).kind = "absent"
    BY AbsentTyped
  <2>2. /\ disk' \in [Files -> Contents] /\ disk'[call.output] = disk[Partial]
        /\ Whole' \subseteq {call.output}
    <3>1. /\ disk' \in [Files -> Contents]
          /\ disk'[call.output] = disk[Partial] /\ disk'[Partial] = File("absent", <<>>)
          /\ \A f \in Files \ {call.output, Partial} : disk'[f] = disk[f]
      BY <1>1, <1>2, <1>4, <2>1 DEF TypeOK
    <3>2. Whole' \subseteq {call.output}
      BY <1>1, <2>1, <3>1 DEF Whole
    <3> QED
      BY <3>1, <3>2
  <2>3. CASE UNCHANGED <<result, late>>
    <3>1. TypeOK' /\ StageMatches'
      BY <1>1, <2>2, <2>3 DEF TypeOK, StageMatches
    <3>2. result # None
      BY <1>1 DEF FileIsSelected, TypeOK, None
    <3>3. WholeTracked'
      BY <1>1, <2>2, <2>3, <3>2 DEF WholeTracked
    <3>4. FileIsSelected(call.output)'
      <4>1. Selected' = Selected
        BY <1>1 DEF Selected
      <4> QED
        BY <1>1, <2>2, <2>3, <4>1 DEF FileIsSelected, File
    <3>5. DocumentMatches'
      BY <1>1, <3>4 DEF DocumentMatches
    <3> QED
      BY <1>3, <3>1, <3>3, <3>5 DEF ExtractionInv
  <2>4. CASE result' = None /\ late' = late \union {call.output}
    <3>1. TypeOK' /\ StageMatches'
      BY <1>1, <1>2, <2>2, <2>4 DEF TypeOK, StageMatches, None
    <3>2. WholeTracked'
      BY <1>1, <2>2, <2>4 DEF WholeTracked
    <3>3. DocumentMatches'
      BY <1>1, <2>4 DEF DocumentMatches, Selecting
    <3> QED
      BY <1>3, <3>1, <3>2, <3>3 DEF ExtractionInv
  <2> QED
    BY <1>4, <2>3, <2>4
<1>5. CASE result' = None /\ UNCHANGED <<disk, late>>
  <2>1. TypeOK' /\ StageMatches'
    BY <1>1, <1>5 DEF TypeOK, StageMatches, None
  <2>2. WholeTracked'
    BY <1>1, <1>5 DEF WholeTracked, Whole
  <2>3. DocumentMatches'
    BY <1>1, <1>5 DEF DocumentMatches, Selecting
  <2> QED
    BY <1>3, <2>1, <2>2, <2>3 DEF ExtractionInv
<1> QED
  BY <1>4, <1>5 DEF Publish

LEMMA CleanKeeps ==
    ASSUME ExtractionInv, Clean
    PROVE  ExtractionInv'
<1>1. /\ TypeOK /\ pc = "cleaning" /\ call.fn = "extract" /\ removing = {}
      /\ Whole \subseteq {Partial} \union late \union
                         IF result = None THEN {} ELSE {call.output}
      /\ UNCHANGED <<call, source, read, selection, written, removing, aborted, result>>
  BY DEF Clean, ExtractionInv, StageMatches, WholeTracked
<1>2. call.output \in Files /\ call.output # Partial /\ Partial \in Files
  BY <1>1, OutputTyped DEF Files
<1>3. CASE /\ disk' = [disk EXCEPT ![Partial] = File("absent", <<>>)] /\ UNCHANGED late
           /\ pc' = IF result = None THEN "rejected" ELSE "resolved"
  <2>1. File("absent", <<>>) \in Contents /\ File("absent", <<>>).kind = "absent"
    BY AbsentTyped
  <2>2. /\ disk' \in [Files -> Contents] /\ disk'[call.output] = disk[call.output]
        /\ Whole' \subseteq Whole \ {Partial}
    BY <1>1, <1>2, <1>3, <2>1 DEF TypeOK, Whole
  <2>3. TypeOK' /\ StageMatches'
    BY <1>1, <1>3, <2>2 DEF TypeOK, Settled, StageMatches
  <2>4. WholeTracked'
    BY <1>1, <1>3, <2>2 DEF WholeTracked
  <2>5. SlicesMatch' /\ CountMatches'
    BY <1>1, <1>3 DEF SlicesMatch, CountMatches
  <2>6. CASE result = None
    BY <1>3, <2>3, <2>4, <2>5, <2>6
       DEF ExtractionInv, SelectionMatches, DocumentMatches, Selecting
  <2>7. CASE result # None
    <3>1. /\ selection # <<>> /\ IsInjective(selection) /\ Asks(call.pages, selection)
          /\ FileIsSelected(call.output)
      BY <1>1, <2>7 DEF ExtractionInv, SelectionMatches, DocumentMatches, Selecting
    <3>2. SelectionMatches'
      BY <1>1, <3>1 DEF SelectionMatches, Asks
    <3>3. FileIsSelected(call.output)'
      <4>1. Selected' = Selected
        BY <1>1 DEF Selected
      <4> QED
        BY <1>1, <2>2, <3>1, <4>1 DEF FileIsSelected, File
    <3>4. DocumentMatches'
      BY <1>3, <2>7, <3>3 DEF DocumentMatches
    <3> QED
      BY <2>3, <2>4, <2>5, <3>2, <3>4 DEF ExtractionInv
  <2> QED
    BY <2>6, <2>7
<1>4. CASE /\ pc' = "rejected" /\ UNCHANGED disk
           /\ late' = late \union {Partial} \union
                              IF result = None THEN {} ELSE {call.output}
  <2>1. TypeOK' /\ StageMatches'
    BY <1>1, <1>2, <1>4 DEF TypeOK, Settled, StageMatches
  <2>2. WholeTracked'
    BY <1>1, <1>4 DEF WholeTracked, Whole
  <2>3. SlicesMatch' /\ SelectionMatches' /\ DocumentMatches' /\ CountMatches'
    BY <1>4 DEF SlicesMatch, SelectionMatches, DocumentMatches, CountMatches, Selecting
  <2> QED
    BY <2>1, <2>2, <2>3 DEF ExtractionInv
<1> QED
  BY <1>3, <1>4 DEF Clean, Goto

-----------------------------------------------------------------------------
(* What goes on around the call.                                           *)

(* A step that leaves the call, its place and the files alone.             *)
LEMMA AroundKeeps ==
    ASSUME ExtractionInv, TypeOK',
           UNCHANGED <<call, pc, read, selection, written, removing, disk, result, late>>
    PROVE  ExtractionInv'
<1>1. StageMatches' /\ CountMatches'
  BY DEF ExtractionInv, StageMatches, CountMatches
<1>2. WholeTracked'
  <2>1. Whole' = Whole /\ WrittenFiles' = WrittenFiles
    BY DEF Whole, WrittenFiles
  <2> QED
    BY <2>1 DEF ExtractionInv, WholeTracked
<1>3. SlicesMatch'
  <2> SUFFICES ASSUME pc = "looping" \/ (pc = "resolved" /\ call.fn = "extractRanges"),
                      NEW f \in WrittenFiles
               PROVE  \E i \in DOMAIN written' :
                         written'[i].output = f /\ IsLast(i)' /\ SliceThere(i)'
    BY DEF SlicesMatch, WrittenFiles
  <2>1. PICK i \in DOMAIN written : written[i].output = f /\ IsLast(i) /\ SliceThere(i)
    BY DEF ExtractionInv, SlicesMatch
  <2>2. IsLast(i)' /\ SliceThere(i)'
    BY <2>1 DEF IsLast, SliceThere, SlicePages, FirstPage, LastPage, File
  <2> QED
    BY <2>1, <2>2
<1>4. SelectionMatches'
  BY DEF ExtractionInv, SelectionMatches, Selecting, Asks
<1>5. DocumentMatches'
  <2>1. Selected' = Selected
    BY DEF Selected
  <2>2. /\ FileIsSelected(Partial) => FileIsSelected(Partial)'
        /\ FileIsSelected(call.output) => FileIsSelected(call.output)'
    BY <2>1 DEF FileIsSelected, File
  <2> QED
    BY <2>2 DEF ExtractionInv, DocumentMatches, Selecting
<1> QED
  BY <1>1, <1>2, <1>3, <1>4, <1>5 DEF ExtractionInv

LEMMA EditKeeps ==
    ASSUME ExtractionInv, Edit
    PROVE  ExtractionInv'
<1>1. PICK c \in Calls : c.fn = call.fn /\ call' = c
  BY DEF Edit
<1>2. /\ pc \in {"counting", "looping"} /\ TypeOK
      /\ UNCHANGED <<pc, source, read, selection, written, removing, aborted, disk,
                     result, late>>
  BY DEF Edit, ExtractionInv
<1>3. TypeOK' /\ StageMatches' /\ WholeTracked'
  <2>1. Whole' = Whole /\ WrittenFiles' = WrittenFiles
    BY <1>2 DEF Whole, WrittenFiles
  <2>2. TypeOK' /\ StageMatches'
    BY <1>1, <1>2 DEF ExtractionInv, TypeOK, StageMatches
  <2>3. WholeTracked'
    BY <1>2, <2>1 DEF ExtractionInv, WholeTracked
  <2> QED
    BY <2>2, <2>3
<1>4. SlicesMatch'
  <2> SUFFICES ASSUME pc = "looping", NEW f \in WrittenFiles
               PROVE  \E i \in DOMAIN written' :
                         written'[i].output = f /\ IsLast(i)' /\ SliceThere(i)'
    BY <1>2 DEF SlicesMatch, WrittenFiles
  <2>1. PICK i \in DOMAIN written : written[i].output = f /\ IsLast(i) /\ SliceThere(i)
    BY DEF ExtractionInv, SlicesMatch
  <2>2. IsLast(i)' /\ SliceThere(i)'
    BY <1>2, <2>1 DEF IsLast, SliceThere, SlicePages, FirstPage, LastPage, File
  <2> QED
    BY <1>2, <2>1, <2>2
<1>5. SelectionMatches' /\ DocumentMatches' /\ CountMatches'
  BY <1>2 DEF SelectionMatches, DocumentMatches, CountMatches, Selecting
<1> QED
  BY <1>3, <1>4, <1>5 DEF ExtractionInv

LEMMA NextKeeps ==
    ASSUME ExtractionInv, [Next]_vars
    PROVE  ExtractionInv'
<1>1. CASE Step
  BY <1>1, StartKeeps, SliceKeeps, ReturnKeeps, RethrowKeeps, RemoveFileKeeps,
     TaskReadsKeeps, CountedKeeps, ExtractedKeeps, PublishKeeps, CleanKeeps DEF Step
<1>2. CASE Abort
  <2>1. TypeOK'
    BY <1>2 DEF Abort, ExtractionInv, TypeOK
  <2> QED
    BY <1>2, <2>1, AroundKeeps DEF Abort
<1>3. CASE Rewrite
  <2>1. TypeOK'
    <3>1. source' \in DOMAIN Versions
      BY <1>3, VersionsHavePages, VersionTyped DEF Rewrite, ExtractionInv, TypeOK
    <3> QED
      BY <1>3, <3>1 DEF Rewrite, ExtractionInv, TypeOK
  <2> QED
    BY <1>3, <2>1, AroundKeeps DEF Rewrite
<1>4. CASE Edit
  BY <1>4, EditKeeps
<1>5. CASE UNCHANGED vars
  <2>1. TypeOK'
    BY <1>5 DEF vars, ExtractionInv, TypeOK
  <2> QED
    BY <1>5, <2>1, AroundKeeps DEF vars
<1> QED
  BY <1>1, <1>2, <1>3, <1>4, <1>5 DEF Next, Ended

(* The inductive invariant of a call.                                      *)
THEOREM ExtractionInvariant == Spec => []ExtractionInv
<1>1. ExtractionInv /\ [Next]_vars => ExtractionInv'
  BY NextKeeps
<1> QED
  BY <1>1, InitExtraction, PTL DEF Spec

(* Type correctness of the extraction functions.                           *)
THEOREM TypeCorrect == Spec => []TypeOK
<1>1. ExtractionInv => TypeOK
  BY DEF ExtractionInv
<1> QED
  BY <1>1, ExtractionInvariant, PTL

(* A failed call leaves no completed file, in any order of the removals,   *)
(* except where a removal failed or the rename had been done.              *)
THEOREM FailedCallsCleanUp == Spec => []SlicesRemoved
<1>1. ExtractionInv => SlicesRemoved
  BY DEF ExtractionInv, WholeTracked, Whole, SlicesRemoved
<1> QED
  BY <1>1, ExtractionInvariant, PTL

-----------------------------------------------------------------------------
(* What a call that resolves has written.                                  *)
LEMMA LastSliceIs ==
    ASSUME TypeOK, NEW f, NEW i \in DOMAIN written, written[i].output = f, IsLast(i)
    PROVE  LastSlice(f) = written[i]
<1> DEFINE IsLastOf(k) == /\ written[k].output = f
                          /\ \A j \in DOMAIN written : written[j].output = f => j <= k
<1>1. IsLastOf(i)
  BY DEF IsLast
<1>2. PICK n \in Nat : DOMAIN written = 1..n
  BY DEF TypeOK
<1>3. \A k \in DOMAIN written : IsLastOf(k) => k = i
  BY <1>1, <1>2
<1>4. (CHOOSE k \in DOMAIN written : IsLastOf(k)) = i
  BY <1>1, <1>3
<1> QED
  BY <1>4 DEF LastSlice

(* A slice as it was written is what its range asked for.                  *)
LEMMA SliceIsExact ==
    ASSUME NEW slice \in Ranges, read \in DOMAIN Versions,
           1 <= FirstPage(slice), FirstPage(slice) <= LastPage(slice),
           LastPage(slice) <= Versions[read].pages
    PROVE  SliceExact(slice, SlicePages(slice))
<1>1. slice.start \in JSNumber /\ slice.end \in JSNumber
  BY RangeTyped
<1>2. PICK first \in Nat, last \in Nat, count \in Nat :
         /\ first = FirstPage(slice) /\ last = LastPage(slice)
         /\ count = Versions[read].pages
  <2>1. FirstPage(slice) \in 0..(U32 - 1) /\ LastPage(slice) \in 0..(U32 - 1)
    BY <1>1, NumberConverted DEF FirstPage, LastPage
  <2> QED
    BY <2>1, VersionTyped, U32Positive
<1> DEFINE pages == SlicePages(slice)
<1>3. pages = [i \in 1..(last - first + 1) |-> <<read, first + i - 2>>]
  BY <1>2 DEF SlicePages
<1>4. 1 <= first /\ first <= last /\ last <= count
  BY <1>2
<1> HIDE DEF pages
<1>5. /\ DOMAIN pages = 1..(last - first + 1) /\ Len(pages) = last - first + 1
      /\ \A i \in 1..(last - first + 1) :
            pages[i] = <<read, first + i - 2>> /\ pages[i][2] = first + i - 2
  BY <1>3, <1>4
<1>6. pages # <<>> /\ pages[1][2] = first - 1 /\ pages[Len(pages)][2] = last - 1
  BY <1>4, <1>5
<1>7. ASSUME NEW i \in DOMAIN pages
      PROVE  /\ pages[i] = <<read, pages[1][2] + i - 1>>
             /\ pages[i][2] \in 0..(Versions[read].pages - 1)
  <2>1. /\ i \in Int /\ 1 <= i /\ i <= last - first + 1
        /\ pages[i] = <<read, first + i - 2>> /\ pages[i][2] = first + i - 2
    BY <1>5, <1>7
  <2>2. first + i - 2 = pages[1][2] + i - 1
    BY <1>6, <2>1
  <2>3. first + i - 2 \in 0..(count - 1)
    BY <1>4, <2>1
  <2> QED
    BY <1>2, <2>1, <2>2, <2>3
<1>8. ASSUME IsUnsigned(slice.start, U32), IsUnsigned(slice.end, U32)
      PROVE  slice.start.whole = first /\ slice.end.whole = last
  BY <1>1, <1>2, <1>8, NumberConverted DEF FirstPage, LastPage
<1> QED
  BY <1>4, <1>6, <1>7, <1>8 DEF SliceExact, pages

LEMMA SlicesExact ==
    ASSUME ExtractionInv, pc = "resolved", call.fn = "extractRanges"
    PROVE  PagesExact
<1>1. TypeOK /\ result = Versions[read].pages
  BY DEF ExtractionInv, CountMatches
<1>2. ASSUME NEW f \in WrittenFiles
      PROVE  disk[f].kind = "whole" /\ SliceExact(LastSlice(f), disk[f].pages)
  <2>1. PICK i \in DOMAIN written : written[i].output = f /\ IsLast(i) /\ SliceThere(i)
    BY DEF ExtractionInv, SlicesMatch
  <2>2. LastSlice(f) = written[i]
    BY <1>1, <2>1, LastSliceIs
  <2>3. written[i] \in Ranges
    <3>1. written \in Seq(Ranges)
      BY <1>1 DEF TypeOK
    <3> QED
      BY <3>1
  <2>4. read \in DOMAIN Versions
    <3>1. read # None
      BY DEF ExtractionInv, StageMatches
    <3> QED
      BY <1>1, <3>1 DEF TypeOK
  <2>5. SliceExact(written[i], SlicePages(written[i]))
    BY <2>1, <2>3, <2>4, SliceIsExact DEF SliceThere
  <2> QED
    BY <2>1, <2>2, <2>5 DEF SliceThere, File
<1> QED
  BY <1>1, <1>2 DEF PagesExact

LEMMA DocumentExact ==
    ASSUME ExtractionInv, pc = "resolved", call.fn = "extract"
    PROVE  PagesExact
<1>1. /\ TypeOK /\ selection # <<>> /\ IsInjective(selection)
      /\ Asks(call.pages, selection) /\ FileIsSelected(call.output)
  BY DEF ExtractionInv, SelectionMatches, DocumentMatches, Selecting
<1>2. PICK n \in Nat : DOMAIN selection = 1..n /\ Len(selection) = n /\ n > 0
  BY <1>1 DEF TypeOK
<1> DEFINE pages == disk[call.output].pages
<1>3. /\ disk[call.output].kind = "whole" /\ pages = Selected
      /\ \A i \in DOMAIN selection : selection[i] < Versions[read].pages
      /\ result = n
  BY <1>1, <1>2 DEF FileIsSelected, File
<1>4. /\ DOMAIN pages = DOMAIN selection /\ Len(pages) = n
      /\ \A i \in DOMAIN selection : pages[i] = <<read, selection[i]>>
  BY <1>2, <1>3 DEF Selected
<1> HIDE DEF pages
<1>5. IsInjective(pages)
  BY <1>1, <1>4 DEF IsInjective
<1>6. [i \in DOMAIN pages |-> pages[i][2]] = selection
  BY <1>1, <1>4 DEF TypeOK
<1>7. Asks(call.pages, [i \in DOMAIN pages |-> pages[i][2]])
  BY <1>1, <1>6
<1>8. \A i \in DOMAIN pages : pages[i][1] = read /\ pages[i][2] < Versions[read].pages
  BY <1>3, <1>4
<1>9. Len(pages) = result /\ result > 0
  BY <1>2, <1>3, <1>4
<1> QED
  BY <1>3, <1>5, <1>7, <1>8, <1>9 DEF PagesExact, pages

(* A call that resolves has written the pages that were asked for, all     *)
(* from one version of the source, whatever happened to the source and to  *)
(* the caller's arrays meanwhile.  A range of numbers that are no u32,     *)
(* which nobody refuses, has some pages of that version, in its order.     *)
THEOREM ResolvedCallsAreExact == Spec => []PagesExact
<1>1. ExtractionInv => PagesExact
  <2> SUFFICES ASSUME ExtractionInv, pc = "resolved" PROVE PagesExact
    BY DEF PagesExact
  <2>1. call.fn \in Functions3
    BY CallsKnown DEF ExtractionInv, TypeOK
  <2>2. CASE call.fn = "getPageCount"
    BY <2>2 DEF ExtractionInv, CountMatches, PagesExact
  <2> QED
    BY <2>1, <2>2, SlicesExact, DocumentExact DEF Functions3
<1> QED
  BY <1>1, ExtractionInvariant, PTL
=============================================================================
