------------------------------ MODULE Extraction -----------------------------
(***************************************************************************)
(* One call of extractRanges(), extract() or getPageCount() of crates/core *)
(* (index.js).  extractRanges() parses the source once and slices ranges   *)
(* straight into their output files.  extract() counts the pages, resolves *)
(* the selection against the count, and has the source parsed a second     *)
(* time for the pages themselves; the file the source is in may have been  *)
(* replaced in between, and so may the contents of the arrays that were    *)
(* passed in.  extractRanges() checks its ranges once and reads them again *)
(* in every turn, and hands their numbers to a function that takes a u32.  *)
(*                                                                         *)
(* A page is <<version, index>>: the version of the source it comes from   *)
(* and its place there.  The protocol of partial file and rename is in     *)
(* more detail, with concurrent calls, in Publication.                     *)
(***************************************************************************)
EXTENDS Arguments, FiniteSets

CONSTANTS
    Calls,     \* the calls, with their arguments
    Versions,  \* what the source holds, one after the other: pages (0 when
               \* it is no PDF) and how far it inflates
    U32,       \* how many values a u32 has: 2^32
    Paths,     \* output files
    Faults     \* what may go wrong, a subset of FaultKinds

FaultKinds == {"malformed", "write", "callback", "rename", "stat", "rm"}

Functions3 == {"extractRanges", "extract", "getPageCount"}

(* An element of `ranges`, known for two numbers and an output path unless *)
(* it is something else (not `typed`).                                     *)
Ranges == [start : JSNumber, end : JSNumber, output : Paths, typed : BOOLEAN]

(* What the code gets hold of.                                             *)
ASSUME CallsKnown ==
    \A c \in Calls :
        /\ c.fn \in Functions3 /\ c.input \in ArgumentTypes
        /\ c.fn = "extractRanges" =>
              c.ranges \in Seq(Ranges)
        /\ c.fn = "extract" =>
              /\ c.output \in Paths /\ c.pages.typed \in BOOLEAN
              /\ c.pages.kind = "array" => c.pages.indices \in Seq(Int)
              /\ c.pages.kind = "range" => c.pages.start \in Int /\ c.pages.end \in Int
ASSUME FaultsKnown == Faults \subseteq FaultKinds
ASSUME U32Positive == U32 \in Nat \ {0}
ASSUME VersionsHavePages ==
    Versions # <<>> /\ Versions \in Seq([pages : 0..(U32 - 1), inflated : Nat])

(* partialPathFor(): the partial file has a name of its own.               *)
Partial == "partial"
ASSUME PartialApart == Partial \notin Paths

Files == Paths \cup {Partial}

VARIABLES
    call,       \* the call; its arrays may be edited while it runs
    pc,         \* where it is
    source,     \* the version the source holds
    read,       \* the version that was parsed, None until then
    selection,  \* extract(): the resolved selection
    written,    \* extractRanges(): `written`, with the ranges
    removing,   \* files whose rm() has not settled
    aborted,    \* the signal has fired
    disk,       \* every file
    result,     \* the page count of a call that is going to resolve
    late        \* files whose rm() failed, or whose call failed after rename()

vars == <<call, pc, source, read, selection, written, removing, aborted, disk, result, late>>

None == 0
Settled == {"resolved", "rejected"}
Contents == [kind : {"old", "absent", "torn", "whole"},
             pages : Seq((DOMAIN Versions) \X Nat)]

TypeOK ==
    /\ call \in Calls
    /\ pc \in {"start", "looping", "removing", "counting", "extracting",
               "publishing", "cleaning"} \cup Settled
    /\ source \in DOMAIN Versions
    /\ read \in DOMAIN Versions \cup {None}
    /\ selection \in Seq(Nat)
    /\ written \in Seq(Ranges)
    /\ removing \subseteq Paths
    /\ aborted \in BOOLEAN
    /\ disk \in [Files -> Contents]
    /\ result \in Nat
    /\ late \subseteq Files

File(kind, pages) == [kind |-> kind, pages |-> pages]

Init ==
    /\ call \in Calls
    /\ pc = "start"
    /\ source = 1
    /\ read = None
    /\ selection = <<>>
    /\ written = <<>>
    /\ removing = {}
    /\ aborted = FALSE
    /\ disk = [f \in Files |-> File(IF f = Partial THEN "absent" ELSE "old", <<>>)]
    /\ result = None
    /\ late = {}

Goto(label) == pc' = label

(* The arguments are checked before anything else is done; extract() looks *)
(* at the contents of its selection only when it knows the page count.     *)
ExtractRangesValid ==
    /\ call.input = "path" /\ call.ranges # <<>>
    /\ \A i \in DOMAIN call.ranges :
          LET range == call.ranges[i]
          IN  range.typed /\ range.start.exact /\ range.end.exact

ExtractValid ==
    /\ IsSource(call.input) /\ IsFilePath(call.outputType)
    /\ OptionsValid(call.options)
    /\ call.annotations = "drop"
    /\ call.pages.kind # "absent"

GetPageCountValid == IsSource(call.input) /\ OptionsValid(call.options)

ArgumentsValid ==
    \/ call.fn = "extractRanges" /\ ExtractRangesValid
    \/ call.fn = "extract" /\ ExtractValid
    \/ call.fn = "getPageCount" /\ GetPageCountValid

(* A task copies a byte array when it is made; a file is parsed later.     *)
SpawnTask == read' = IF call.input = "bytes" THEN source ELSE None

CountPages == SpawnTask /\ Goto("counting")

(* Extractor::open parses in the constructor, and knows no limit.          *)
Start ==
    /\ pc = "start"
    /\ \/ /\ ~ArgumentsValid \/ aborted
          /\ Goto("rejected")
          /\ UNCHANGED read
       \/ /\ ArgumentsValid /\ ~aborted
          /\ call.fn = "extractRanges"
          /\ read' = source
          /\ Goto(IF Versions[source].pages = 0 THEN "rejected" ELSE "looping")
       \/ /\ ArgumentsValid /\ ~aborted
          /\ call.fn # "extractRanges"
          /\ CountPages
    /\ UNCHANGED <<call, source, selection, written, removing, aborted, disk, result, late>>

-----------------------------------------------------------------------------
(* extractRanges().                                                        *)

(* Mutant of WrittenFiles: the slice written last is not recorded yet.     *)
WrittenFilesLate == {written[i].output : i \in DOMAIN written \ {Len(written)}}

WrittenFiles == {written[i].output : i \in DOMAIN written}

(* The catch block: rm() starts for every slice written.                   *)
Catch ==
    /\ Goto("removing")
    /\ removing' = WrittenFiles

(* The two u32 that extract_range() is called with.                        *)
FirstPage(range) == ToUnsigned(range.start, U32)
LastPage(range) == ToUnsigned(range.end, U32)

(* extract_range(): inclusive, and counted from 1.                         *)
SlicePages(range) ==
    [i \in 1..(LastPage(range) - FirstPage(range) + 1) |-> <<read, FirstPage(range) + i - 2>>]

(* An element that is no range any more is refused by whoever reads it.    *)
RangeRefused(range) ==
    \/ ~range.typed
    \/ FirstPage(range) < 1 \/ FirstPage(range) > LastPage(range)
    \/ LastPage(range) > Versions[read].pages

(* One turn of the loop, on the range the array holds now: complete,       *)
(* refused before the file is touched, for its numbers or because an       *)
(* object is missing, or ended by an error after the file was truncated.   *)
(* In both of the last two the file is not in `written`.                   *)
Slice ==
    /\ pc = "looping"
    /\ Len(written) < Len(call.ranges)
    /\ LET range == call.ranges[Len(written) + 1]
       IN  \/ /\ ~aborted /\ ~RangeRefused(range)
              /\ disk' = [disk EXCEPT ![range.output] = File("whole", SlicePages(range))]
              /\ written' = Append(written, range)
              /\ UNCHANGED <<pc, removing>>
           \/ /\ ~aborted /\ ~RangeRefused(range)
              /\ "write" \in Faults
              /\ disk' = [disk EXCEPT ![range.output] = File("torn", <<>>)]
              /\ Catch
              /\ UNCHANGED written
           \/ /\ aborted \/ RangeRefused(range) \/ "malformed" \in Faults
              /\ Catch
              /\ UNCHANGED <<disk, written>>
    /\ UNCHANGED <<call, source, read, selection, aborted, result, late>>

(* After the last range the signal is checked once more.                   *)
Return ==
    /\ pc = "looping"
    /\ Len(written) >= Len(call.ranges)
    /\ \/ aborted /\ Catch /\ UNCHANGED result
       \/ /\ ~aborted
          /\ Goto("resolved")
          /\ result' = Versions[read].pages
          /\ UNCHANGED removing
    /\ UNCHANGED <<call, source, read, selection, written, aborted, disk, late>>

(* Promise.all rejects with the first failing rm(); the others go on.      *)
RemoveFile(f) ==
    /\ f \in removing
    /\ removing' = removing \ {f}
    /\ \/ /\ disk' = [disk EXCEPT ![f] = File("absent", <<>>)]
          /\ UNCHANGED <<pc, late>>
       \/ /\ "rm" \in Faults
          /\ Goto("rejected")
          /\ late' = late \cup {f}
          /\ UNCHANGED disk
    /\ UNCHANGED <<call, source, read, selection, written, aborted, result>>

Rethrow ==
    /\ pc = "removing"
    /\ removing = {}
    /\ Goto("rejected")
    /\ UNCHANGED <<call, source, read, selection, written, removing, aborted,
                   disk, result, late>>

-----------------------------------------------------------------------------
(* getPageCount() and extract().                                           *)

(* The task on the threadpool gets to the file.                            *)
TaskReads ==
    /\ pc \in {"counting", "extracting"}
    /\ read = None
    /\ read' = source
    /\ UNCHANGED <<call, pc, source, selection, written, removing, aborted,
                   disk, result, late>>

Parsed == Versions[read].pages > 0 /\ Parses(call.options, Versions[read].inflated)

(* pageCountAsync() has settled.  The count is all that is kept of it.     *)
Counted ==
    /\ pc = "counting"
    /\ read # None
    /\ \/ /\ ~Parsed
          /\ Goto("rejected")
          /\ UNCHANGED <<read, selection, result>>
       \/ /\ Parsed /\ call.fn = "getPageCount"
          /\ result' = Versions[read].pages
          /\ Goto("resolved")
          /\ UNCHANGED <<read, selection>>
       \/ /\ Parsed /\ call.fn = "extract"
          /\ aborted \/ ~SelectionValid(call.pages, Versions[read].pages)
          /\ Goto("rejected")
          /\ UNCHANGED <<read, selection, result>>
       \/ /\ Parsed /\ call.fn = "extract"
          /\ ~aborted /\ SelectionValid(call.pages, Versions[read].pages)
          /\ selection' = ResolveSelection(call.pages)
          /\ SpawnTask
          /\ Goto("extracting")
          /\ UNCHANGED result
    /\ UNCHANGED <<call, source, written, removing, aborted, disk, late>>

(* Mutant of Refused: the selection that was resolved is trusted.          *)
RefusedNever == FALSE

(* extract_selection_from_doc() checks the selection against the document  *)
(* it has parsed itself.                                                   *)
Refused ==
    ~SelectionValid([kind |-> "array", indices |-> selection, typed |-> TRUE],
                    Versions[read].pages)

(* extractSelectionAsync() has settled; then onProgress and the signal.    *)
Extracted ==
    /\ pc = "extracting"
    /\ read # None
    /\ \/ /\ ~Parsed \/ Refused \/ "malformed" \in Faults
          /\ Goto("cleaning")
          /\ UNCHANGED <<disk, result>>
       \/ /\ Parsed /\ ~Refused
          /\ "write" \in Faults
          /\ disk' = [disk EXCEPT ![Partial] = File("torn", <<>>)]
          /\ Goto("cleaning")
          /\ UNCHANGED result
       \/ /\ Parsed /\ ~Refused
          /\ LET pages == [i \in DOMAIN selection |-> <<read, selection[i]>>]
             IN  /\ disk' = [disk EXCEPT ![Partial] = File("whole", pages)]
                 /\ \/ /\ \/ Len(pages) # Len(selection)
                          \/ aborted \/ "callback" \in Faults
                       /\ Goto("cleaning")
                       /\ UNCHANGED result
                    \/ /\ ~aborted
                       /\ Goto("publishing")
                       /\ result' = Len(pages)
    /\ UNCHANGED <<call, source, read, selection, written, removing, aborted, late>>

(* rename(), then stat(), whose failure comes too late to undo it.         *)
Publish ==
    /\ pc = "publishing"
    /\ \/ /\ disk' = [disk EXCEPT ![call.output] = disk[Partial],
                                  ![Partial] = File("absent", <<>>)]
          /\ \/ UNCHANGED <<result, late>>
             \/ "stat" \in Faults /\ result' = None /\ late' = late \cup {call.output}
       \/ "rename" \in Faults /\ result' = None /\ UNCHANGED <<disk, late>>
    /\ Goto("cleaning")
    /\ UNCHANGED <<call, source, read, selection, written, removing, aborted>>

(* The finally block.                                                      *)
Clean ==
    /\ pc = "cleaning"
    /\ \/ /\ disk' = [disk EXCEPT ![Partial] = File("absent", <<>>)]
          /\ Goto(IF result = None THEN "rejected" ELSE "resolved")
          /\ UNCHANGED late
       \/ /\ "rm" \in Faults
          /\ Goto("rejected")
          /\ late' = late \cup {Partial} \cup IF result = None THEN {} ELSE {call.output}
          /\ UNCHANGED disk
    /\ UNCHANGED <<call, source, read, selection, written, removing, aborted, result>>

-----------------------------------------------------------------------------
(* What goes on around the call.                                           *)

Abort ==
    /\ ~aborted
    /\ pc \notin Settled
    /\ aborted' = TRUE
    /\ UNCHANGED <<call, pc, source, read, selection, written, removing, disk,
                   result, late>>

(* Somebody replaces the source, or writes to the byte array.              *)
Rewrite ==
    /\ pc \notin Settled
    /\ source < Len(Versions)
    /\ source' = source + 1
    /\ UNCHANGED <<call, pc, read, selection, written, removing, aborted, disk,
                   result, late>>

(* The caller changes the elements of `pages` or `ranges` while the call   *)
(* is awaiting something, to anything.  extractRanges() awaits after every *)
(* range that is not the last.                                             *)
Edited(c) ==
    \/ /\ call.fn = "extractRanges"
       /\ c = [call EXCEPT !.ranges = c.ranges]
    \/ /\ call.fn = "extract"
       /\ c.pages.kind = call.pages.kind
       /\ c = [call EXCEPT !.pages = c.pages]

Edit ==
    /\ \/ pc = "counting"
       \/ pc = "looping" /\ written # <<>> /\ Len(written) < Len(call.ranges)
    /\ \E c \in Calls : c.fn = call.fn /\ Edited(c) /\ call' = c
    /\ UNCHANGED <<pc, source, read, selection, written, removing, aborted, disk,
                   result, late>>

Step ==
    \/ Start \/ Slice \/ Return \/ Rethrow \/ \E f \in Paths : RemoveFile(f)
    \/ TaskReads \/ Counted \/ Extracted \/ Publish \/ Clean

(* The call has ended, and so has everything it removes.                   *)
Ended ==
    /\ pc \in Settled
    /\ removing = {}
    /\ UNCHANGED vars

Next == Step \/ Abort \/ Rewrite \/ Edit \/ Ended

Spec == Init /\ [][Next]_vars

-----------------------------------------------------------------------------
(* The last of the slices written to a file.                               *)
LastSlice(f) ==
    LET last == CHOOSE i \in DOMAIN written :
                    /\ written[i].output = f
                    /\ \A j \in DOMAIN written : written[j].output = f => j <= i
    IN  written[last]

(* The indices a selection asks for, in the order of the output.           *)
Asks(pages, indices) ==
    IF pages.kind = "array" THEN indices = pages.indices
    ELSE /\ {indices[i] : i \in DOMAIN indices} = pages.start..(pages.end - 1)
         /\ \A i, j \in DOMAIN indices : i < j => indices[i] < indices[j]

(* A call that resolves has written what was asked of it, whatever         *)
(* happened to the source and to the arrays meanwhile: every page of every *)
(* file is from one and the same version of the source, in the order of    *)
(* the selection, and really in that version, each at most once; and the   *)
(* page count it resolves with is that of this version (extractRanges(),   *)
(* getPageCount()) or of the file (extract()).  A slice for two numbers    *)
(* that are no u32 has pages of that version in its order, but which, the  *)
(* caller did not say: index.js lets such numbers through, and napi cuts   *)
(* them.                                                                   *)
SliceExact(slice, pages) ==
    /\ pages # <<>>
    /\ \A i \in DOMAIN pages :
          /\ pages[i] = <<read, pages[1][2] + i - 1>>
          /\ pages[i][2] \in 0..(Versions[read].pages - 1)
    /\ IsUnsigned(slice.start, U32) /\ IsUnsigned(slice.end, U32) =>
          pages[1][2] + 1 = slice.start.whole /\ pages[Len(pages)][2] + 1 = slice.end.whole

PagesExact ==
    pc = "resolved" =>
        CASE call.fn = "extractRanges" ->
                /\ result = Versions[read].pages
                /\ \A f \in WrittenFiles :
                      disk[f].kind = "whole" /\ SliceExact(LastSlice(f), disk[f].pages)
          [] call.fn = "extract" ->
                LET pages == disk[call.output].pages
                IN  /\ disk[call.output].kind = "whole"
                    /\ Len(pages) = result /\ result > 0
                    /\ IsInjective(pages)
                    /\ \A i \in DOMAIN pages :
                          pages[i][1] = read /\ pages[i][2] < Versions[read].pages
                    /\ Asks(call.pages, [i \in DOMAIN pages |-> pages[i][2]])
          [] OTHER -> result = Versions[read].pages /\ result > 0

(* Once a failed call is over, no file it completed is left, neither a     *)
(* slice nor a document nor a partial file, except where rm() failed or    *)
(* the failure came after the rename.                                      *)
SlicesRemoved ==
    pc = "rejected" /\ removing = {} =>
        \A f \in Files \ late : disk[f].kind # "whole"

-----------------------------------------------------------------------------
(* What the documentation says and the code does not do.                   *)

(* index.js: "no partial result set survives".  The range whose write fails*)
(* leaves the file it has truncated.                                       *)
NothingSurvives ==
    pc = "rejected" /\ removing = {} =>
        \A p \in Paths : disk[p].kind \in {"old", "absent"}
=============================================================================
