-------------------------------- MODULE Merge -------------------------------
(***************************************************************************)
(* merge() of index.js on top of the Assembly it drives: the call appends  *)
(* its inputs one after the other, awaiting each, and reports which pages  *)
(* of the output each of them became; the nested bookmarks of its caller   *)
(* are flattened into the list that finalize() takes.  Publication has the *)
(* files of the call, and this module what is in them.                     *)
(*                                                                         *)
(* A call is a record with `host` ("merge", or "direct" for a host that    *)
(* uses the Assembly class itself), the `inputs`, each with its `type` and *)
(* the document (`doc`) it is at first, and the `outline`: the arrays of   *)
(* bookmarks by their location.  The array given is at <<>>, and bookmark  *)
(* k of an array is, with its own children, at the location of that array  *)
(* followed by k.  Each has the number of its `children`, and a bookmark   *)
(* its title, its page, and whether all of it is `typed` as it should be.  *)
(***************************************************************************)
EXTENDS Integers, Assembler, Arguments

CONSTANT Calls    \* the calls

(* Outlines are trees of some depth: every location lies in its array.     *)
IsOutlineTree(outl) ==
    /\ <<>> \in DOMAIN outl /\ DOMAIN outl \subseteq Seq(Nat \ {0})
    /\ \E deepest \in DOMAIN outl : \A where \in DOMAIN outl : Len(where) <= Len(deepest)
    /\ \A where \in DOMAIN outl :
          /\ outl[where].children \in Nat
          /\ \A k \in 1..outl[where].children : Append(where, k) \in DOMAIN outl
          /\ \A m \in 0..(Len(where) - 1) :
                LET array == SubSeq(where, 1, m)
                IN  array \in DOMAIN outl /\ where[m + 1] \in 1..outl[array].children
          /\ where # <<>> => outl[where].page \in Int

ASSUME CallsWellFormed ==
    \A c \in Calls :
        /\ c.inputs \in Seq([type : ArgumentTypes, doc : Shards])
        /\ IsOutlineTree(c.outline)

VARIABLES
    call,      \* the call
    mpc,       \* where it is
    held,      \* what each input holds now
    taken,     \* the document the task at work has got hold of
    flat,      \* flatOutline
    results,   \* inputResults
    pageCount, \* pageCount
    aborted    \* the signal of the call

mvars == <<call, mpc, held, taken, flat, results, pageCount, aborted>>

Settled == {"resolved", "rejected"}
NoDoc == [objects |-> {}]

MergeInit ==
    /\ Init
    /\ call \in Calls
    /\ mpc = "start"
    /\ held = [i \in DOMAIN call.inputs |-> call.inputs[i].doc]
    /\ taken = NoDoc
    /\ flat = <<>>
    /\ results = <<>>
    /\ pageCount = 0
    /\ aborted = FALSE

-----------------------------------------------------------------------------
(* flattenOutline(): a bookmark, then its children one level below.  The   *)
(* location is the one its errors name.                                    *)

(* Mutant of FlatEntry: the children stay on the level of the parent.      *)
FlatEntryOnOneLevel(outl, where) ==
    [title |-> outl[where].title, page |-> outl[where].page, typed |-> outl[where].typed,
     level |-> 0, location |-> where]

FlatEntry(outl, where) ==
    [title |-> outl[where].title, page |-> outl[where].page, typed |-> outl[where].typed,
     level |-> Len(where) - 1, location |-> where]

FlattenOutline(outl) ==
    LET visit[where \in DOMAIN outl] ==
            FlattenSeq([k \in 1..outl[where].children |->
                <<FlatEntry(outl, Append(where, k))>> \o visit[Append(where, k)]])
    IN  visit[<<>>]

FlattenThrows(entries) == \E i \in DOMAIN entries : ~entries[i].typed \/ entries[i].page < 0

-----------------------------------------------------------------------------
(* The call.                                                               *)

ArgumentsValid ==
    /\ call.inputs # <<>>
    /\ \A i \in DOMAIN call.inputs : IsSource(call.inputs[i].type)
    /\ ~FlattenThrows(FlattenOutline(call.outline))

Untouched == UNCHANGED vars

(* The arguments are read, and the partial file is opened.                 *)
Start ==
    /\ call.host = "merge"
    /\ mpc = "start"
    /\ \/ /\ ~ArgumentsValid \/ aborted \/ "write" \in Faults
          /\ mpc' = "rejected"
          /\ UNCHANGED flat
       \/ /\ ArgumentsValid /\ ~aborted
          /\ mpc' = "looping"
          /\ flat' = FlattenOutline(call.outline)
    /\ UNCHANGED <<call, held, taken, results, pageCount, aborted>> /\ Untouched

Index == Len(results) + 1

(* throwIfAborted() at the top of the loop and after it.                   *)
ThrowIfAborted ==
    /\ mpc = "looping"
    /\ aborted
    /\ mpc' = "rejected"
    /\ UNCHANGED <<call, held, taken, flat, results, pageCount, aborted>> /\ Untouched

(* The task for the next input: bytes are copied into it, while a path is  *)
(* read when the task runs.                                                *)
SpawnAppend ==
    /\ mpc = "looping"
    /\ ~aborted
    /\ Index <= Len(call.inputs)
    /\ mpc' = "appending"
    /\ taken' = IF call.inputs[Index].type = "bytes" THEN held[Index] ELSE NoDoc
    /\ UNCHANGED <<call, held, flat, results, pageCount, aborted>> /\ Untouched

TaskReads ==
    /\ mpc = "appending"
    /\ taken = NoDoc
    /\ taken' = held[Index]
    /\ UNCHANGED <<call, mpc, held, flat, results, pageCount, aborted>> /\ Untouched

(* Mutant of StartPageIndex: it is taken after the pages are counted.      *)
StartPageIndexAfter == pageCount'

StartPageIndex == pageCount

(* The append, and the progress callback, which may throw.                 *)
Appended ==
    /\ mpc = "appending"
    /\ taken # NoDoc
    /\ AppendShardDoc(taken)
    /\ IF Len(appended') > Len(appended)
       THEN /\ pageCount' = pageCount + Len(taken.pages)
            /\ results' = Append(results, [pageCount |-> Len(taken.pages),
                                           startPageIndex |-> StartPageIndex])
            /\ mpc' \in IF "callback" \in Faults THEN {"looping", "rejected"} ELSE {"looping"}
       ELSE /\ mpc' = "rejected"
            /\ UNCHANGED <<results, pageCount>>
    /\ taken' = NoDoc
    /\ UNCHANGED <<call, held, flat, aborted>>

SpawnFinalize ==
    /\ mpc = "looping"
    /\ ~aborted
    /\ Index > Len(call.inputs)
    /\ mpc' = "finalizing"
    /\ UNCHANGED <<call, held, taken, flat, results, pageCount, aborted>> /\ Untouched

(* finalize() has settled; an abort that came meanwhile still rejects.     *)
Finalized ==
    /\ mpc = "finalizing"
    /\ Finalize(flat)
    /\ mpc' = IF phase' = "published" /\ ~aborted THEN "resolved" ELSE "rejected"
    /\ UNCHANGED <<call, held, taken, flat, results, pageCount, aborted>>

-----------------------------------------------------------------------------
(* What goes on around the call.                                           *)

(* The caller writes to a byte array, or somebody replaces a file.         *)
Rewrite(i) ==
    /\ mpc \notin Settled
    /\ held[i] = call.inputs[i].doc
    /\ \E c \in Calls : \E k \in DOMAIN c.inputs : held' = [held EXCEPT ![i] = c.inputs[k].doc]
    /\ UNCHANGED <<call, mpc, taken, flat, results, pageCount, aborted>> /\ Untouched

AbortSignal ==
    /\ call.host = "merge"
    /\ mpc \notin Settled
    /\ ~aborted
    /\ aborted' = TRUE
    /\ UNCHANGED <<call, mpc, held, taken, flat, results, pageCount>> /\ Untouched

Direct ==
    /\ call.host = "direct"
    /\ Next
    /\ UNCHANGED mvars

MergeEnded == mpc \in Settled /\ UNCHANGED <<vars, mvars>>

MergeNext ==
    \/ Direct
    \/ Start \/ ThrowIfAborted \/ SpawnAppend \/ TaskReads \/ Appended
    \/ SpawnFinalize \/ Finalized
    \/ AbortSignal \/ (\E i \in DOMAIN held : Rewrite(i))
    \/ MergeEnded

MergeSpec == MergeInit /\ [][MergeNext]_<<vars, mvars>>

-----------------------------------------------------------------------------
(* What a merge that resolves says of its inputs is true of the file: the  *)
(* pages from startPageIndex on, pageCount of them, are those that this    *)
(* very input gave, for every input in turn, and there are no others.      *)
ResultsMatch ==
    mpc = "resolved" =>
        LET Source(p) == Lookup(Pages.kids[p])
        IN  /\ Len(results) = Len(call.inputs)
            /\ Len(Pages.kids) = pageCount
            /\ \A i \in DOMAIN results :
                  LET mine == (results[i].startPageIndex + 1)
                                 ..(results[i].startPageIndex + results[i].pageCount)
                  IN  /\ results[i].pageCount > 0
                      /\ mine = {p \in 1..pageCount : Source(p).call = i}

(* The bookmarks of the file a merge publishes are the nested outline of   *)
(* its caller: the catalog leads to the first bookmark of the outline, a   *)
(* bookmark through /First to the first of its children and through /Next  *)
(* to the next of its array, where the outline has one and nowhere else,   *)
(* and each has its own title and leads to the page with the index given.  *)
OutlineAsGiven ==
    LET outl == call.outline
        Bookmark(n) == flat[Lookup(n).title]
        IsAt(n, where) ==
            /\ n \in Numbers /\ Lookup(n).kind = "bookmark"
            /\ Bookmark(n).location = where
        LeadsTo(n, where) == IF where \in DOMAIN outl THEN IsAt(n, where) ELSE n = None
        Younger(where) == [where EXCEPT ![Len(where)] = @ + 1]
    IN  mpc = "resolved" =>
            /\ LeadsTo(IF Catalog.outlines = None THEN None
                       ELSE Lookup(Catalog.outlines).first, <<1>>)
            /\ \A where \in DOMAIN outl \ {<<>>} : \E n \in Numbers :
                  /\ IsAt(n, where)
                  /\ Bookmark(n).title = outl[where].title
                  /\ Lookup(n).dest = Pages.kids[outl[where].page + 1]
                  /\ LeadsTo(Lookup(n).first, Append(where, 1))
                  /\ LeadsTo(Lookup(n).next, Younger(where))
=============================================================================
