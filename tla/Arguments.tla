------------------------------ MODULE Arguments ------------------------------
(***************************************************************************)
(* What the functions of index.js make of their arguments.  A value from   *)
(* JavaScript is known by its type: a string is a "path" or "empty", a URL *)
(* is a "file URL" or an "other URL", a Uint8Array is "bytes" or "no       *)
(* bytes", anything else is "other".                                       *)
(***************************************************************************)
EXTENDS Integers, Sequences, Functions

ArgumentTypes == {"path", "empty", "file URL", "other URL", "bytes", "no bytes", "other"}

(* toFilePath() and toSource(): the types they do not throw for.           *)
IsFilePath(type) == type \in {"path", "file URL"}
IsSource(type) == type = "bytes" \/ IsFilePath(type)

(* normalizeOptions(): an absent bag is fine; one that is there has a      *)
(* signal and a listener of the right type (`typed`), and a limit that is  *)
(* a positive integer unless it is absent.                                 *)
NoOptions == [typed |-> TRUE, limit |-> 0, limited |-> FALSE]

OptionsValid(options) ==
    /\ options.typed
    /\ options.limited => options.limit > 0

(* loadOptions(): what the native parser is given; a document that         *)
(* inflates beyond the limit is not parsed.                                *)
Parses(options, inflated) == options.limited => inflated <= options.limit

-----------------------------------------------------------------------------
(* A number of JavaScript: its integral part, and whether there is no more *)
(* to it.  NaN and the infinities have the part 0, and more to it.         *)
JSNumber == [whole : Int, exact : BOOLEAN]

(* What napi makes of a number that a function takes as an unsigned        *)
(* integer with `size` values: the fraction and the upper bits are lost.   *)
ToUnsigned(number, size) == number.whole % size

(* The numbers that it does not change.                                    *)
IsUnsigned(number, size) == number.exact /\ number.whole \in 0..(size - 1)

-----------------------------------------------------------------------------
(* Mutant of SelectionValid: indices below zero are let through.           *)
SelectionValidUnsigned(pages, count) ==
    CASE pages.kind = "array" ->
            /\ pages.indices # <<>>
            /\ \A i \in DOMAIN pages.indices : pages.indices[i] < count
            /\ IsInjective(pages.indices)
      [] pages.kind = "range" ->
            0 <= pages.start /\ pages.start < pages.end /\ pages.end <= count
      [] OTHER -> FALSE

(* resolveSelection() against a source of `count` pages: an array of       *)
(* indices without repetition, or a range that is not empty; of integers   *)
(* (`typed`), which it looks for itself.                                   *)
SelectionValid(pages, count) ==
    /\ pages.typed
    /\ CASE pages.kind = "array" ->
               /\ pages.indices # <<>>
               /\ \A i \in DOMAIN pages.indices : pages.indices[i] \in 0..(count - 1)
               /\ IsInjective(pages.indices)
         [] pages.kind = "range" ->
               0 <= pages.start /\ pages.start < pages.end /\ pages.end <= count
         [] OTHER -> FALSE

(* The indices of a valid selection, in output order.                      *)
ResolveSelection(pages) ==
    IF pages.kind = "array" THEN pages.indices
    ELSE [i \in 1..(pages.end - pages.start) |-> pages.start + i - 1]
=============================================================================
