------------------------------ MODULE Assembler -----------------------------
(***************************************************************************)
(* The writer behind one Assembly (assembler.rs).  Shards are streamed     *)
(* into the output file object by object: each is renumbered to the        *)
(* numbers that follow the last one used, every object's offset is noted   *)
(* before it is written, and finalize() adds the page tree, the bookmarks, *)
(* the catalog and a cross-reference table made from the offsets.          *)
(*                                                                         *)
(* The file is the sequence of what has been written, and an offset is the *)
(* length of that sequence.  A shard is a record with its `objects`, the   *)
(* `structural` ones among them (object streams and cross-reference        *)
(* streams of the source file), its `pages` in order, the `parent` and     *)
(* `attrs` of its objects (see PageTree), its named destinations `dests`   *)
(* (a name and the page it leads to), and `namesBroken` when collecting    *)
(* them fails.                                                             *)
(***************************************************************************)
EXTENDS Naturals, FiniteSets, SequencesExt, Outline, PageTree

CONSTANTS
    Shards,       \* the documents that may be appended
    Outlines,     \* the lists of bookmarks finalize() may be given
    MaxAppends,   \* bound: calls of append_shard_doc()
    Faults        \* which operations may fail

FaultKinds == {"write", "callback"}

ASSUME FaultsKnown == Faults \subseteq FaultKinds
ASSUME AppendsNatural == MaxAppends \in Nat
ASSUME DocumentsWellFormed ==
    \A s \in Shards :
        /\ s.objects \subseteq Nat
        /\ IsFiniteSet(s.objects)
        /\ s.structural \subseteq s.objects
        /\ s.pages \in Seq(s.objects \ s.structural)
        /\ s.dests \in Seq([name : Nat, page : s.objects \ s.structural])
ASSUME OutlinesAreLists == Outlines \subseteq Seq([level : Nat, page : Nat])

VARIABLES
    writer,       \* the file so far, and the offsets of its objects
    pageIds,      \* numbers of the pages, in document order
    namedDests,   \* named destinations, in the order they were found
    nextObject,   \* the number the next shard starts from
    phase,        \* "open", "published", or why finalize() failed
    appends,      \* calls made
    appended,     \* history: the calls whose append succeeded, with the shard
    outline,      \* history: the bookmarks of the finalize() that succeeded
    torn          \* history: some append failed after it had begun to write

vars == <<writer, pageIds, namedDests, nextObject, phase,
          appends, appended, outline, torn>>

PagesId == 1
CatalogId == 2
FirstShardObject == 3

Failures == {"duplicate destination", "invalid outline", "xref gap", "io"}

Init ==
    /\ writer = [file |-> <<>>, offsets |-> <<>>]
    /\ pageIds = <<>>
    /\ namedDests = <<>>
    /\ nextObject = FirstShardObject
    /\ phase = "open"
    /\ appends = 0
    /\ appended = <<>>
    /\ outline = <<>>
    /\ torn = FALSE

-----------------------------------------------------------------------------
(* The writer.                                                             *)

(* Mutant of Position: it is taken after the object.                       *)
PositionAfter(w, i) == Len(w.file) + i

(* Where object i of those that follow the file will start.                *)
Position(w, i) == Len(w.file) + i - 1

(* The offsets once those objects have been noted (no number twice).       *)
Noted(w, objects) ==
    LET numbers == {objects[i].number : i \in DOMAIN objects}
        place(n) == CHOOSE i \in DOMAIN objects : objects[i].number = n
    IN  [n \in DOMAIN w.offsets \cup numbers |->
            IF n \in numbers THEN Position(w, place(n)) ELSE w.offsets[n]]

(* Objects are written: each is noted, then follows the file.              *)
Written(w, objects) ==
    [file |-> w.file \o objects, offsets |-> Noted(w, objects)]

(* Object k cannot be written: those before it are in the file, it is      *)
(* noted as well, and part of it may be there.                             *)
WriteFails(w, objects, k) ==
    LET before   == w.file \o SubSeq(objects, 1, k - 1)
        fragment == [number |-> 0, kind |-> "fragment"]
    IN  {[file |-> f, offsets |-> Noted(w, SubSeq(objects, 1, k))] :
            f \in {before, Append(before, fragment)}}

-----------------------------------------------------------------------------
(* append_shard_doc().                                                     *)

Kept(shard) == shard.objects \ shard.structural

(* Renumbering: the objects, one number after the other, in some order.    *)
Orders(shard) == SetToSeqs(Kept(shard))

Numbered(order, start, o) ==
    start - 1 + CHOOSE i \in DOMAIN order : order[i] = o

(* Mutant of LastNumber: one too few.                                      *)
LastNumberShort(shard, start) == start + Cardinality(Kept(shard)) - 2

(* max_id of the renumbered shard.                                         *)
LastNumber(shard, start) == start + Cardinality(Kept(shard)) - 1

ObjectOf(shard, order, i) ==
    IF order[i] \in ToSet(shard.pages)
    THEN [number |-> nextObject + i - 1, kind |-> "page",
          call |-> appends + 1, source |-> order[i],
          parent |-> PagesId, attrs |-> Climbed(shard, order[i]).owner]
    ELSE [number |-> nextObject + i - 1, kind |-> "object",
          call |-> appends + 1, source |-> order[i]]

ObjectsOf(shard, order) == [i \in DOMAIN order |-> ObjectOf(shard, order, i)]

Malformed(shard) ==
    \/ shard.pages = <<>>
    \/ PushDownFails(shard)
    \/ shard.namesBroken

(* The error comes before the first write.                                 *)
AppendMalformed(shard) ==
    /\ Malformed(shard)
    /\ UNCHANGED <<writer, pageIds, namedDests, nextObject, appended, torn>>

AppendTears(shard) ==
    /\ "write" \in Faults
    /\ ~Malformed(shard)
    /\ \E order \in Orders(shard) : \E k \in DOMAIN order :
          writer' \in WriteFails(writer, ObjectsOf(shard, order), k)
    /\ torn' = TRUE
    /\ UNCHANGED <<pageIds, namedDests, nextObject, appended>>

AppendSucceeds(shard) ==
    /\ ~Malformed(shard)
    /\ \E order \in Orders(shard) :
          /\ writer' = Written(writer, ObjectsOf(shard, order))
          /\ pageIds' = pageIds \o
                [i \in DOMAIN shard.pages |->
                    Numbered(order, nextObject, shard.pages[i])]
          /\ namedDests' = namedDests \o
                [i \in DOMAIN shard.dests |->
                    [name |-> shard.dests[i].name,
                     page |-> Numbered(order, nextObject, shard.dests[i].page)]]
    /\ nextObject' = LastNumber(shard, nextObject) + 1
    /\ appended' = Append(appended, [call |-> appends + 1, shard |-> shard])
    /\ UNCHANGED torn

AppendShardDoc(shard) ==
    /\ phase = "open"
    /\ appends < MaxAppends
    /\ appends' = appends + 1
    /\ \/ AppendMalformed(shard)
       \/ AppendTears(shard)
       \/ AppendSucceeds(shard)
    /\ UNCHANGED <<phase, outline>>

-----------------------------------------------------------------------------
(* finalize().                                                             *)

(* Mutant of Sorted: the names stay in the order they were found.          *)
SortedNot(dests) == dests

Sorted(dests) ==
    LET Ascends(order) ==
            \A i, j \in DOMAIN dests :
                i < j => dests[order[i]].name <= dests[order[j]].name
        order == CHOOSE p \in SetToSeqs(DOMAIN dests) : Ascends(p)
    IN  [i \in DOMAIN dests |-> dests[order[i]]]

(* The check looks at neighbours only.                                     *)
DuplicateDestination(dests) ==
    \E i \in 1..(Len(dests) - 1) : dests[i].name = dests[i + 1].name

PagesObject == [number |-> PagesId, kind |-> "pages", kids |-> pageIds]

InvalidOutline(entries) ==
    \/ ~LevelsValid(entries)
    \/ \E i \in DOMAIN entries : entries[i].page >= Len(pageIds)

(* The number of an entry: the entries come first, the root after them.    *)
(* An absent link stays absent, and the parent of the top entries is the   *)
(* root.  The title of an entry is named by its place in the list.         *)
EntryNumber(i) == IF i = None THEN None ELSE nextObject + i - 1
RootNumber(entries) == nextObject + Len(entries)

OutlineItem(entries, i) ==
    LET item == Items(entries)[i]
    IN  [number |-> EntryNumber(i), kind |-> "bookmark",
         title  |-> i,
         dest   |-> pageIds[entries[i].page + 1],
         parent |-> IF item.parent = None THEN RootNumber(entries)
                    ELSE EntryNumber(item.parent),
         prev   |-> EntryNumber(item.prev),
         next   |-> EntryNumber(item.next),
         first  |-> EntryNumber(item.first),
         last   |-> EntryNumber(item.last),
         count  |-> item.count]

OutlineRoot(entries) ==
    [number |-> RootNumber(entries), kind |-> "bookmarks",
     first  |-> EntryNumber(Root(entries).first),
     last   |-> EntryNumber(Root(entries).last),
     count  |-> Root(entries).count]

(* No object at all for an empty list.                                     *)
OutlineObjects(entries) ==
    IF entries = <<>> THEN <<>>
    ELSE Append([i \in DOMAIN entries |-> OutlineItem(entries, i)],
                OutlineRoot(entries))

(* The first number that is free after the bookmarks.                      *)
Size(entries) == nextObject + Len(OutlineObjects(entries))

CatalogObject(entries) ==
    [number   |-> CatalogId, kind |-> "catalog", pages |-> PagesId,
     outlines |-> IF entries = <<>> THEN None ELSE RootNumber(entries),
     dests    |-> Sorted(namedDests)]

(* Everything before the cross-reference table.                            *)
Body(entries) ==
    Written(writer, <<PagesObject>> \o OutlineObjects(entries)
                       \o <<CatalogObject(entries)>>)

XrefGap(w, size) == 1..(size - 1) \ DOMAIN w.offsets # {}

(* The table is the values of the offsets in the order of their keys, and  *)
(* the trailer names the size and the catalog.                             *)
Table(w, size) ==
    LET keys == DOMAIN w.offsets
        key(i) == CHOOSE n \in keys : Cardinality({m \in keys : m < n}) = i - 1
    IN  [number |-> 0, kind |-> "xref", size |-> size, root |-> CatalogId,
         rows |-> [i \in 1..Cardinality(keys) |-> w.offsets[key(i)]]]

(* The writer is dropped with what it has written, and nothing reads it.   *)
Fails(why) ==
    /\ phase' = why
    /\ UNCHANGED <<writer, nextObject, outline>>

Finalize(entries) ==
    /\ phase = "open"
    /\ \/ DuplicateDestination(Sorted(namedDests)) /\ Fails("duplicate destination")
       \/ /\ ~DuplicateDestination(Sorted(namedDests))
          /\ \/ "write" \in Faults /\ Fails("io")
             \/ InvalidOutline(entries) /\ Fails("invalid outline")
             \/ ~InvalidOutline(entries)
                /\ XrefGap(Body(entries), Size(entries)) /\ Fails("xref gap")
             \/ /\ ~InvalidOutline(entries)
                /\ ~XrefGap(Body(entries), Size(entries))
                /\ writer' = [Body(entries) EXCEPT
                                 !.file = Append(@, Table(Body(entries), Size(entries)))]
                /\ nextObject' = Size(entries)
                /\ phase' = "published"
                /\ outline' = entries
    /\ UNCHANGED <<pageIds, namedDests, appends, appended, torn>>

(* The assembly is consumed: nothing follows.                              *)
Ended == phase # "open" /\ UNCHANGED vars

Next ==
    \/ \E s \in Shards : AppendShardDoc(s)
    \/ \E entries \in Outlines : Finalize(entries)
    \/ Ended

Spec == Init /\ [][Next]_vars

-----------------------------------------------------------------------------
(* The published file, read the way a viewer reads it: from the trailer    *)
(* through the cross-reference table to the objects.                       *)

Xref == Last(writer.file)
Numbers == 1..(Xref.size - 1)
Lookup(n) == writer.file[Xref.rows[n] + 1]
Catalog == Lookup(Xref.root)
Pages == Lookup(Catalog.pages)

(* Type correctness, and the bounds a later call relies on: the numbers    *)
(* used lie below the next one, and the offsets inside the file.           *)
TypeOK ==
    /\ phase \in {"open", "published"} \cup Failures
    /\ appends \in 0..MaxAppends
    /\ torn \in BOOLEAN
    /\ nextObject \in Nat /\ nextObject >= FirstShardObject
    /\ pageIds \in Seq(FirstShardObject..(nextObject - 1))
    /\ \A i \in DOMAIN namedDests :
          namedDests[i].page \in FirstShardObject..(nextObject - 1)
    /\ DOMAIN writer.offsets \subseteq Nat \ {0}
    /\ \A n \in DOMAIN writer.offsets : writer.offsets[n] \in 0..Len(writer.file)

(* A viewer that looks a number up in the cross-reference table of a       *)
(* published file finds the object of that number, and the table has a row *)
(* for each number below /Size and no other (finalize(), assembler.rs), as *)
(* long as no append failed half way; after one that did, the rows of the  *)
(* numbers in use are still right.  Renumbering leaves no number unused,   *)
(* whatever the shards contain: finalize() never meets the gap it looks    *)
(* for.                                                                    *)
XrefResolves ==
    /\ phase # "xref gap"
    /\ phase = "published" =>
          /\ \A n \in Numbers : Lookup(n).number = n
          /\ ~torn => Len(Xref.rows) = Xref.size - 1

(* The pages of the file are those of the appended shards, in the order of *)
(* the calls and, in a shard, of its pages; each of them hangs under the   *)
(* one page tree (append_shard_doc(), finalize()).                         *)
PagesInOrder ==
    LET PagesOf(a) == [i \in DOMAIN a.shard.pages |-> <<a.call, a.shard.pages[i]>>]
    IN  phase = "published" =>
            /\ \A i \in DOMAIN Pages.kids :
                  /\ Lookup(Pages.kids[i]).kind = "page"
                  /\ Lookup(Pages.kids[i]).parent = Catalog.pages
            /\ [i \in DOMAIN Pages.kids |-> <<Lookup(Pages.kids[i]).call,
                                             Lookup(Pages.kids[i]).source>>]
               = FlattenSeq([a \in DOMAIN appended |-> PagesOf(appended[a])])

(* Under the flat page tree every page has the inheritable attributes its  *)
(* source's page tree gave it, its own or those of the nearest ancestor    *)
(* that has them (push_down_inherited()).                                  *)
PagesInherit ==
    LET Has(page, k) == IF k \in DOMAIN page.attrs THEN page.attrs[k] ELSE 0
    IN  phase = "published" =>
            \A i \in DOMAIN Pages.kids : \A a \in ToSet(appended) :
                LET page == Lookup(Pages.kids[i])
                IN  page.call = a.call =>
                        \A k \in Keys : Has(page, k) = Inherited(a.shard, page.source, k)

(* The name tree is strictly ascending, as a search in it requires, and    *)
(* leads every name of every shard to the page it led to in its source     *)
(* (the sort, the duplicate check and the renumbering together).           *)
DestsResolve ==
    LET Target(n) == <<Lookup(n).call, Lookup(n).source>>
    IN  phase = "published" =>
            /\ \A i, j \in DOMAIN Catalog.dests :
                  i < j => Catalog.dests[i].name < Catalog.dests[j].name
            /\ {<<d.name, Target(d.page)>> : d \in ToSet(Catalog.dests)}
               = UNION {{<<d.name, <<a.call, d.page>>>> : d \in ToSet(a.shard.dests)} :
                           a \in ToSet(appended)}

(* The bookmarks a viewer reaches from the catalog are the tree the list   *)
(* of entries describes, and each of them leads to the page it names       *)
(* (build_outline_objects() and its call in finalize()).                   *)
OutlineTree ==
    LET Bookmarks == {n \in Numbers : Lookup(n).kind = "bookmark"}
        Of(i) == Lookup(CHOOSE n \in Bookmarks : Lookup(n).title = i)
        Entry(n) == IF n \in Bookmarks THEN Lookup(n).title ELSE None
        read == [i \in DOMAIN outline |->
                    [parent |-> Entry(Of(i).parent), prev |-> Entry(Of(i).prev),
                     next |-> Entry(Of(i).next), first |-> Entry(Of(i).first),
                     last |-> Entry(Of(i).last), count |-> Of(i).count]]
        top == ChildrenOf(outline, None)
        root == Lookup(Catalog.outlines)
    IN  phase = "published" =>
            /\ {Lookup(n).title : n \in Bookmarks} = DOMAIN outline
            /\ LinksTree(outline, read)
            /\ \A i \in DOMAIN outline : Of(i).dest = Pages.kids[outline[i].page + 1]
            /\ \A i \in top : Of(i).parent = Catalog.outlines
            /\ outline # <<>> =>
                  /\ root.count = Len(outline)
                  /\ Entry(root.first) = Min(top) /\ Entry(root.last) = Max(top)
=============================================================================
