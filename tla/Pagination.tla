------------------------------ MODULE Pagination -----------------------------
(***************************************************************************)
(* How a plan of sections becomes numbered pages: the partition into       *)
(* shards (scheduler.ts), and both passes of the PDFKit adapter            *)
(* (adapter-pdfkit/src/adapter.ts) with its image cache (image-cache.ts),  *)
(* up to the check that the passes agree (generate.ts).                    *)
(*                                                                         *)
(* A section is a record with the `kind` of its template, what pages()     *)
(* answers in pass 1 (`pages`) and may answer in pass 2 (`answers`), its   *)
(* `anchors`, and perhaps an `estimate`.  A page of a document has the     *)
(* section and page that were drawn on it, the literals that were printed, *)
(* and the images.  Every render has a process and a file of its own, so   *)
(* they are taken one after the other; Generate interleaves them and has   *)
(* caching, WorkerPool has the processes.                                  *)
(***************************************************************************)
EXTENDS Integers, FiniteSets, SequencesExt, FiniteSetsExt

CONSTANTS
    Plans,             \* the lists of sections
    Kinds,             \* the kinds that have a template
    MaxPagesPerShard,  \* the budget of the partition
    Images,            \* keys of images
    Attempts,          \* how often a render is tried
    MaxExtra,          \* bound: pages the draws of one render add themselves
    Faults             \* what may go wrong, a subset of FaultKinds

FaultKinds == {"adapter", "draw", "stream"}

ASSUME FaultsKnown == Faults \subseteq FaultKinds
\* partition() throws on any other budget.
ASSUME BudgetPositive == MaxPagesPerShard \in Nat \ {0}
ASSUME AttemptsPositive == Attempts \in Nat \ {0}
ASSUME ExtraNatural == MaxExtra \in Nat

IsList(s) == s \in Seq(ToSet(s))

(* What a host may write: a template answers any number, a section may     *)
(* come without an estimate, an anchor without its page.                   *)
IsAnchor(anchor) == "at" \in DOMAIN anchor => anchor.at \in Int

IsTemplate(s) ==
    /\ s.pages \in Int /\ s.answers # {} /\ s.answers \subseteq Int
    /\ IsList(s.anchors) /\ \A anchor \in ToSet(s.anchors) : IsAnchor(anchor)

IsSection(s) == IsTemplate(s) /\ ("estimate" \in DOMAIN s => s.estimate \in Int)

ASSUME PlansKnown == \A p \in Plans : IsList(p) /\ \A s \in ToSet(p) : IsSection(s)

VARIABLES
    plan,       \* the sections
    shards,     \* the partition: lists of numbers of sections
    pc,         \* how far generate() is
    measures,   \* what pass 1 reported, by shard
    shard,      \* the shard that is rendered or assembled next
    attempt,    \* how often its render has been started
    render,     \* the render that runs
    files,      \* the rendered shards
    document    \* the pages assembled so far

vars == <<plan, shards, pc, measures, shard, attempt, render, files, document>>

(* A measurement, and what is known of an image and of a page.             *)
IsMeasure(m) ==
    /\ m.pageCount \in Nat \ {0}
    /\ \A anchor \in ToSet(m.anchors) : anchor.page \in 0..(m.pageCount - 1)

Handles == [key : Images, owner : (DOMAIN shards) \X (1..Attempts)]

IsPage(page) ==
    /\ page.section \in 0..Len(plan)
    /\ page.index \in Nat /\ page.number \in Nat /\ page.total \in Nat
    /\ page.images \subseteq Handles

Blank == [section |-> 0, index |-> 0, number |-> 0, total |-> 0, images |-> {}]

NoRender == [state |-> "none", turn |-> 0, pages |-> 0, index |-> 0,
             inShard |-> 0, doc |-> <<>>, entries |-> {}, opened |-> <<>>, extra |-> 0]

NoFile == [state |-> "absent", doc |-> <<>>, opened |-> <<>>]

Init ==
    /\ plan \in Plans
    /\ shards = <<>>
    /\ pc = "planning"
    /\ measures = <<>>
    /\ shard = 1
    /\ attempt = 0
    /\ render = NoRender
    /\ files = <<>>
    /\ document = <<>>

Fail == pc' = "failed"

SumOf(numbers) == FoldLeft(LAMBDA sum, n : sum + n, 0, numbers)

-----------------------------------------------------------------------------
(* partition().                                                            *)

(* An estimate counts as one page at least, and as one when it is absent.  *)
Estimate(s) ==
    IF "estimate" \in DOMAIN plan[s] THEN Max({1, plan[s].estimate}) ELSE 1

Flush(acc) ==
    IF acc.current = <<>> THEN acc
    ELSE [shards |-> Append(acc.shards, acc.current), current |-> <<>>, size |-> 0]

(* Mutant of Overfull: the section that is added is not counted.           *)
OverfullLate(acc, s) == acc.current # <<>> /\ acc.size > MaxPagesPerShard

Overfull(acc, s) == acc.current # <<>> /\ acc.size + Estimate(s) > MaxPagesPerShard

Pack(acc, s) ==
    LET room == IF Overfull(acc, s) THEN Flush(acc) ELSE acc
    IN  [room EXCEPT !.current = Append(@, s), !.size = @ + Estimate(s)]

(* A plan without sections is refused.                                     *)
Partition ==
    /\ pc = "planning"
    /\ LET start == [shards |-> <<>>, current |-> <<>>, size |-> 0]
       IN  shards' = Flush(FoldLeftDomain(Pack, start, plan)).shards
    /\ IF shards' = <<>> THEN Fail ELSE pc' = "measuring"
    /\ UNCHANGED <<plan, measures, shard, attempt, render, files, document>>

-----------------------------------------------------------------------------
(* Pass 1: measure(), for every shard.                                     *)

(* resolveTemplate() and sectionPageCount() throw.                         *)
TemplateMissing(s) == plan[s].kind \notin Kinds
CountInvalid(pages) == pages < 1

(* The page of an anchor in its section: the first, unless it says so.     *)
OffsetOf(anchor) == IF "at" \in DOMAIN anchor THEN anchor.at ELSE 0

(* Mutant of AnchorOutside: the page after the last is let through.        *)
AnchorOutsideByOne(s) ==
    \E i \in DOMAIN plan[s].anchors : OffsetOf(plan[s].anchors[i]) \notin 0..plan[s].pages

AnchorOutside(s) ==
    \E i \in DOMAIN plan[s].anchors : OffsetOf(plan[s].anchors[i]) \notin 0..(plan[s].pages - 1)

MeasureThrows(sections) ==
    \E s \in ToSet(sections) :
        TemplateMissing(s) \/ CountInvalid(plan[s].pages) \/ AnchorOutside(s)

(* Mutant of MeasureSection: an anchor counts from the page after.         *)
MeasureSectionLate(acc, s) ==
    LET anchors == plan[s].anchors
        base    == acc.pageCount + plan[s].pages
    IN  [pageCount |-> base,
         anchors |-> acc.anchors \o
            [i \in DOMAIN anchors |->
                [name |-> anchors[i].name, page |-> base + OffsetOf(anchors[i])]]]

MeasureSection(acc, s) ==
    LET anchors == plan[s].anchors
    IN  [pageCount |-> acc.pageCount + plan[s].pages,
         anchors |-> acc.anchors \o
            [i \in DOMAIN anchors |->
                [name |-> anchors[i].name, page |-> acc.pageCount + OffsetOf(anchors[i])]]]

Measure(sections) ==
    FoldLeft(MeasureSection, [pageCount |-> 0, anchors |-> <<>>], sections)

(* The context of pass 2: offset, total, and the pages of the anchors.     *)
PagesOf(m) == SumOf([j \in DOMAIN m |-> m[j].pageCount])
PageOffset(j) == PagesOf(SubSeq(measures, 1, j - 1))
TotalPages == PagesOf(measures)

AnchorPages ==
    UNION {{<<a.name, PageOffset(j) + a.page + 1>> : a \in ToSet(measures[j].anchors)} :
              j \in DOMAIN measures}

(* Two anchors of one name are refused, wherever they are.                 *)
AnchorNames(m) == FlattenSeq([j \in DOMAIN m |-> [i \in DOMAIN m[j].anchors |->
                                                    m[j].anchors[i].name]])

(* An adapter module whose options or shape are wrong does not even load.  *)
MeasurePass ==
    /\ pc = "measuring"
    /\ \/ /\ \E j \in DOMAIN shards : MeasureThrows(shards[j])
          /\ Fail
          /\ UNCHANGED <<measures, files>>
       \/ /\ "adapter" \in Faults
          /\ Fail
          /\ UNCHANGED <<measures, files>>
       \/ /\ \A j \in DOMAIN shards : ~MeasureThrows(shards[j])
          /\ measures' = [j \in DOMAIN shards |-> Measure(shards[j])]
          /\ files' = [j \in DOMAIN shards |-> NoFile]
          /\ LET names == AnchorNames(measures')
             IN  IF \E i, k \in DOMAIN names : i # k /\ names[i] = names[k]
                 THEN Fail ELSE pc' = "rendering"
    /\ UNCHANGED <<plan, shards, shard, attempt, render, document>>

-----------------------------------------------------------------------------
(* Pass 2: render() of one shard.                                          *)

Running == <<plan, shards, pc, measures, shard, attempt, files, document>>

(* Mutant of NewRender: the image cache of the last document is kept.      *)
NewRenderKeepingImages ==
    [NoRender EXCEPT !.state = "between", !.doc = <<Blank>>, !.entries = render.entries]

(* A document, with the page that PDFKit makes, and its image cache.       *)
NewRender == [NoRender EXCEPT !.state = "between", !.doc = <<Blank>>]

(* The stream truncates what an earlier attempt has written.               *)
StartRender ==
    /\ pc = "rendering"
    /\ render.state = "none"
    /\ attempt < Attempts
    /\ attempt' = attempt + 1
    /\ render' = NewRender
    /\ files' = [files EXCEPT ![shard] = [NoFile EXCEPT !.state = "torn"]]
    /\ UNCHANGED <<plan, shards, pc, measures, shard, document>>

(* The render has ended, and its process may take another one.             *)
Leave == render' = [NoRender EXCEPT !.entries = render.entries]

(* render() rejects once its stream is destroyed and closed.               *)
Throw ==
    /\ Leave
    /\ IF attempt < Attempts THEN UNCHANGED pc ELSE Fail
    /\ UNCHANGED <<plan, shards, measures, shard, attempt, files, document>>

(* The next section: its template is asked for its pages again.            *)
NextSection ==
    /\ render.state = "between"
    /\ render.index = render.pages
    /\ render.turn < Len(shards[shard])
    /\ \E pages \in plan[shards[shard][render.turn + 1]].answers :
          \/ CountInvalid(pages) /\ Throw
          \/ /\ ~CountInvalid(pages)
             /\ render' = [render EXCEPT !.turn = @ + 1, !.pages = pages, !.index = 0]
             /\ UNCHANGED Running

(* The first draw() of the document gets the page that is already there.   *)
PageStarted == render.inShard > 0

(* addPage() where it is needed; the draw() that starts prints its page    *)
(* number and the total.                                                   *)
StartPage ==
    /\ render.state = "between"
    /\ render.index < render.pages
    /\ LET page == [section |-> shards[shard][render.turn], index |-> render.index,
                    number |-> PageOffset(shard) + render.inShard + 1,
                    total |-> TotalPages, images |-> {}]
       IN  render' = [render EXCEPT !.state = "drawing",
                          !.doc = Append(IF PageStarted THEN @ ELSE <<>>, page)]
    /\ UNCHANGED Running

(* The draw puts an image on the page it is at: the last of the document.  *)
(* The bound is one image on a page.                                       *)
MaxOnPage == 1
MayShow == render.state = "drawing" /\ Cardinality(Last(render.doc).images) < MaxOnPage
OnPage(doc, handle) == [doc EXCEPT ![Len(doc)].images = @ \cup {handle}]

(* ImageCache.get(), when the key has an entry.                            *)
GetHit(key) ==
    /\ MayShow
    /\ \E handle \in render.entries :
          /\ handle.key = key
          /\ render' = [render EXCEPT !.doc = OnPage(@, handle)]
    /\ UNCHANGED Running

(* ImageCache.get(), when it has none: rasterize() and openImage().  A     *)
(* handle belongs to the document that opened it, which is known by the    *)
(* shard and the attempt.  The bound is one image more than there are keys.*)
GetMiss(key) ==
    /\ MayShow
    /\ \A e \in render.entries : e.key # key
    /\ Len(render.opened) <= Cardinality(Images)
    /\ LET handle == [key |-> key, owner |-> <<shard, attempt>>]
       IN  render' = [render EXCEPT !.entries = @ \cup {handle},
                                    !.opened = Append(@, handle),
                                    !.doc = OnPage(@, handle)]
    /\ UNCHANGED Running

(* stats() of a cache in use, without the hits.                            *)
Stats == [distinct |-> Cardinality(render.entries), misses |-> Len(render.opened)]

(* The key is empty, rasterize() throws or answers no bytes, or the draw   *)
(* itself throws.  There is no entry then: a draw that goes on without its *)
(* image is a draw that did not ask.                                       *)
DrawThrows ==
    /\ "draw" \in Faults
    /\ render.state = "drawing"
    /\ Throw

(* The draw adds a page, itself or because its text runs over the end.     *)
DrawAddsPage ==
    /\ render.state = "drawing"
    /\ render.extra < MaxExtra
    /\ render' = [render EXCEPT !.doc = Append(@, Blank), !.extra = @ + 1]
    /\ UNCHANGED Running

EndPage ==
    /\ render.state = "drawing"
    /\ render' = [render EXCEPT !.state = "between", !.index = @ + 1, !.inShard = @ + 1]
    /\ UNCHANGED Running

(* doc.end(): what is left is written to the stream.                       *)
EndDocument ==
    /\ render.state = "between"
    /\ render.index = render.pages
    /\ render.turn = Len(shards[shard])
    /\ render' = [render EXCEPT !.state = "closing"]
    /\ UNCHANGED Running

Resolve ==
    /\ Leave
    /\ shard' = shard + 1
    /\ attempt' = 0
    /\ IF shard = Len(shards) THEN pc' = "rendered" ELSE UNCHANGED pc
    /\ UNCHANGED <<plan, shards, measures, document>>

Written(state) == [state |-> state, doc |-> render.doc, opened |-> render.opened]

(* Mutant of StreamClosed: render() does not wait for its stream.          *)
StreamClosedUnseen ==
    /\ render.state = "closing"
    /\ \E state \in {"torn", "whole"} : files' = [files EXCEPT ![shard] = Written(state)]
    /\ Resolve

(* The stream has finished, or failed: only then does render() settle.     *)
StreamClosed ==
    /\ render.state = "closing"
    /\ \/ /\ files' = [files EXCEPT ![shard] = Written("whole")]
          /\ Resolve
       \/ "stream" \in Faults /\ Throw

-----------------------------------------------------------------------------
(* Assembly, with the check of the page counts (generate.ts, onShard).     *)

Assemble ==
    /\ pc = "rendered"
    /\ pc' = "assembling"
    /\ shard' = 1
    /\ UNCHANGED <<plan, shards, measures, attempt, render, files, document>>

(* Mutant of Agree: the check is left out.                                 *)
AgreeUnchecked(j) == TRUE

Agree(j) == Len(files[j].doc) = measures[j].pageCount

AssembleShard ==
    /\ pc = "assembling"
    /\ \/ /\ Agree(shard)
          /\ document' = document \o files[shard].doc
          /\ shard' = shard + 1
          /\ IF shard = Len(shards) THEN pc' = "shipped" ELSE UNCHANGED pc
       \/ /\ ~Agree(shard)
          /\ Fail
          /\ UNCHANGED <<document, shard>>
    /\ UNCHANGED <<plan, shards, measures, attempt, render, files>>

(* generate() has returned or thrown.                                      *)
Ended == pc \in {"shipped", "failed"} /\ UNCHANGED vars

Next ==
    \/ Partition \/ MeasurePass \/ StartRender \/ NextSection \/ StartPage
    \/ \E key \in Images : GetHit(key) \/ GetMiss(key)
    \/ DrawThrows \/ DrawAddsPage \/ EndPage \/ EndDocument \/ StreamClosed
    \/ Assemble \/ AssembleShard \/ Ended

Spec == Init /\ [][Next]_vars

-----------------------------------------------------------------------------
TypeOK ==
    /\ plan \in Plans
    /\ pc \in {"planning", "measuring", "rendering", "rendered", "assembling",
              "shipped", "failed"}
    /\ \A m \in ToSet(measures) : IsMeasure(m)
    /\ shard \in 1..(Len(shards) + 1)
    /\ attempt \in 0..Attempts
    /\ render.state \in {"none", "between", "drawing", "closing"}
    /\ render.index \in 0..render.pages
    /\ render.turn \in Nat /\ render.extra \in 0..MaxExtra
    /\ \A page \in ToSet(render.doc) \cup ToSet(document) : IsPage(page)
    /\ \A j \in DOMAIN files : files[j].state \in {"absent", "torn", "whole"}

(* The shards of partition() are the sections of the plan in their order,  *)
(* none lost and none empty; a shard is over the budget only with a single *)
(* section; and the packing is greedy: no shard could have taken the first *)
(* section of the next one.                                                *)
PartitionRight ==
    LET Estimated(sections) == SumOf([t \in DOMAIN sections |-> Estimate(sections[t])])
    IN  pc # "planning" =>
          /\ FlattenSeq(shards) = [s \in DOMAIN plan |-> s]
          /\ \A j \in DOMAIN shards :
                /\ shards[j] # <<>>
                /\ Len(shards[j]) > 1 => Estimated(shards[j]) <= MaxPagesPerShard
                /\ j < Len(shards) =>
                      Estimated(Append(shards[j], Head(shards[j + 1]))) > MaxPagesPerShard

(* A document that ships is numbered as a reader counts: its page p is a   *)
(* page that a section drew and prints "p of" the number of all its pages, *)
(* whatever the draws of a shard did to the document they share.           *)
PagesNumbered ==
    pc = "shipped" =>
        \A p \in DOMAIN document :
            /\ document[p].section # 0
            /\ document[p].number = p
            /\ document[p].total = Len(document)

(* In a document that ships the number a table of contents prints for an   *)
(* anchor, which pass 1 has computed, is that of the very page of the very *)
(* section that declared it.                                               *)
AnchorsLand ==
    pc = "shipped" =>
        \A s \in DOMAIN plan : \A i \in DOMAIN plan[s].anchors :
            LET anchor == plan[s].anchors[i]
            IN  \E p \in DOMAIN document :
                   /\ <<anchor.name, p>> \in AnchorPages
                   /\ document[p].section = s
                   /\ document[p].index = OffsetOf(anchor)

(* An image on a page belongs to the document of the page, never to that   *)
(* of another shard or of an earlier attempt, and a document holds one     *)
(* object for a key, however many of its pages show it, which is what      *)
(* stats() says of it.                                                     *)
HandlesOf(doc) == UNION {doc[p].images : p \in DOMAIN doc}
KeysOnce(opened) ==
    \A i, k \in DOMAIN opened : opened[i].key = opened[k].key => i = k

ImagesOwned ==
    /\ HandlesOf(render.doc) \subseteq ToSet(render.opened)
    /\ KeysOnce(render.opened)
    /\ render.state # "none" => Stats.distinct = Stats.misses
    /\ \A j \in DOMAIN files :
          HandlesOf(files[j].doc) \subseteq ToSet(files[j].opened) /\ KeysOnce(files[j].opened)

(* A shard whose render has resolved is complete on disk, although the     *)
(* document is written by a stream that runs behind the draws: nothing     *)
(* else is ever appended to the output.                                    *)
WholeWhenResolved ==
    \A j \in DOMAIN files :
        j < shard \/ pc \in {"rendered", "assembling", "shipped"} => files[j].state = "whole"
=============================================================================
