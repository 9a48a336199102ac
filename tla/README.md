# Verification of shardpdf

TLA+ models of shardpdf, the TLC configurations that check them on small
instances, and TLAPS proofs of what matters most for instances of every size.
Line references are to the repository; `src/` is its root, and paths without
a directory are those of the component's table row.

## 1. The system

shardpdf renders a long document as *shards* in isolated worker processes and
streams the shards into one PDF. Three packages carry the logic:

* `src/packages/orchestrator` (TypeScript): `generate()` cuts a plan of
  sections into shards, measures every shard, derives offsets and anchors,
  renders every shard with them, and assembles.
* `src/packages/adapter-pdfkit` (TypeScript): measures and renders one shard
  with PDFKit, inside a worker process.
* `src/crates/core` (Rust behind a Node binding, `index.js` in front): the
  assembler, page extraction and the publication of output files.

### Inventory

| Component | State | Operations | Interacts with | Hard behaviour | Correct when |
|---|---|---|---|---|---|
| Worker pool, `pool.ts`, `worker.ts` | `running`, `waiters`, `active`, child processes, abort listener | `run`, `dispose`, abort, child events | `generate()`, child processes over IPC | retries, handed-over slots, late events, abort and dispose at any point | slots are conserved, an abort reaches every child, no worker stays |
| Shard cache, `manifest.ts` | directory, manifest on disk, a copy per cache, registry (`users`, `pendingDestroy`, `chain`) | `open`, `getMeasure`, `putMeasure`, `getRender`, `commitRender`, `close` | every `generate()` on that directory | several users, serialised writes, deferred removal, crashes | nobody's files vanish, no entry is lost, a requested cleanup happens |
| Two-pass generation, `generate.ts` | passes, measurements, context, output | `generate` | pool, cache, `assemble()` | an adapter that breaks its contract, resume, tasks that outlive their call | what ships is consistent, what was stored is found |
| Partition, `scheduler.ts` | none | `partition` | `generate()` | boundaries of the budget | order kept, nothing lost, greedy |
| PDFKit adapter, `adapter.ts`, `image-cache.ts` | PDFKit document, page counters, image cache, output stream | `measure`, `render`, `ImageCache.get`, `stats` | worker, templates of the host, `generate()` | implicit first page, draws that add pages, a stream behind the draws, handles that belong to one document | literals, anchors and images are those of the page they are on |
| Assembly object, `node.rs` | slot (ready, busy, consumed), writer, tasks | `appendShard*`, `finalize*`, `abort`, `pageCount` | JavaScript caller, threadpool | a task has the writer while the caller goes on | one operation at a time, consumed for ever, nothing torn is published |
| Assembler, `assembler.rs` | file, offsets, page ids, destinations, `next_object` | `append_shard_doc`, `finalize` | lopdf, serializer, outline | renumbering, failures after partial writes | the file read back is what went in |
| Outline, `outline.rs` | none | `validate_outline`, `build_outline_objects` | assembler, `merge()` | stack and siblings of a preorder list | the links are the tree |
| Publication, `index.js` | partial files, output path | `assemble`, `merge`, `extract` | native tasks, file system, signal | failures and aborts between native calls, racing calls | the output is old or whole |
| Merge, `index.js` | results, page count, flat outline | `merge` | assembly object | inputs that change before their turn, nested bookmarks | what it reports is true of the file |
| Extraction, `index.js`, `extract.rs` | `written`, selection | `extractRanges`, `extract`, `getPageCount` | native slices, file system, the caller's arrays | a source and arrays that change meanwhile, partial failure, cleanup that fails | what resolves is what was asked, a failed call removes what it finished |
| Reachability, `extract.rs` | none | object closure of a page | lopdf | two extraction paths | copied objects are closed under references |
| Validation, `inspect.rs`, `lib.rs` | none | validation of a document | lopdf | - | - |
| Serializer, `serializer.rs` | none | bytes of one object | assembler | escaping | round trip |
| Hashing, errors, types, native loader, fuzz targets, examples, benchmarks, smoke projects | - | - | - | - | - |

### How the parts meet

`generate()` partitions the plan, opens a cache, runs a worker per shard and
pass through the pool, commits renders to the cache and calls `assemble()`,
which creates an `Assembly` on a partial file, appends shard by shard,
finalises and renames. `merge()` drives the same `Assembly`; `extract()` and
`extractRanges()` write their files natively. Everything on the JavaScript
side interleaves at `await`; child processes and threadpool tasks run at the
same time; a crash ends all calls of a process and leaves the file system.

## 2. Modules

| Module | Models | Kind |
|---|---|---|
| `WorkerPool` | `pool.ts`, `worker.ts` | component |
| `Semaphore` | what the slots of the pool promise | abstract specification |
| `ShardCache` | `manifest.ts` | component |
| `Generate` | `generate.ts`, composing the roles of the pool, the cache and `assemble()` | composition |
| `Pagination` | `scheduler.ts`, both passes of the PDFKit adapter, the check of `generate.ts` | composition |
| `AssemblySlot` | the object behind `Assembly`, `node.rs` | component |
| `Document` | what an `Assembly` promises its caller | abstract specification |
| `Assembler`, with `PageTree` and `Outline` | `assembler.rs`, `outline.rs` | component, pure algorithms |
| `Merge` | `merge()` of `index.js`, over `Assembler` | composition |
| `Publication` | `merge`, `assemble`, `extract` of `index.js`: files and order of steps | component |
| `Extraction` | `extractRanges`, `extract`, `getPageCount` of `index.js`: what is in the files | component |
| `Arguments` | what `index.js` makes of its arguments | pure operators |
| `MC*` | TLC instances | |
| `WorkerPoolProofs`, `ShardCacheProofs`, `AssemblySlotProofs`, `PublicationProofs`, `ExtractionProofs`, `GenerateProofs`, `AssemblerProofs`, `PaginationProofs` | TLAPS proofs | |

Every state variable is commented where it is declared; a *history* variable
stands for nothing in the code and records what a property has to compare
with. The definitions with *Mutant* in their comment are wrong on purpose:
each is a plausible bug that the property it belongs to rejects.

### WorkerPool

A call of `run()` is a task with a program counter (`pc`): waiting, in the
loop, in an attempt, finished. An attempt is a child `<<task, attempt>>` with
the state of its process (`proc`), what is in its channel, and whether its
promise is settled. `Acquire`/`Release` are the semaphore with its handover
(`pool.ts:143-162`), `ThrowIfAborted`, `Fork`, `GiveUp`,
`RetryListenerThrows`, `SendThrows` the loop (77-98) and `runOnce` (100-140),
`Deliver` the listeners, `Abort` and `Dispose` 41-73. Children reply, crash,
are killed, or hang. `Semaphore` has the clients inside, those who are done,
and a line that nobody overtakes; `SemaphoreSpec` maps the pool to it, and
`waiters` to the line. What an adapter still does between its reply and the
end of its process is left out.

### ShardCache

One process, any number of `ShardCache` objects on one directory. `phase` of a
cache follows the awaits of `open()` and `close()`; `queue` is the chain of
manifest writes (`persist`), and `step` the one at its head: read, merge,
write the temporary file, rename (212-223). `Open`, `Close`, `PutMeasure`,
`CommitRename`, `CommitRecord`, `GetRender` are the operations. Switches:
`Overlap` lets a cache open the directory while another removes it;
`Stragglers` lets tasks of a closed cache store their results, as tasks of a
rejected `generate()` do; `Faults` names what may fail. Two history variables
name what the code leaves unprotected, so that the properties can hold it to
all the rest: `overlapped`, the caches that opened during a removal, and
`misread`, a write whose own read of the manifest failed.

### Generate

`pc` is how far a call is, `task` how far it is with each shard. Each `await`
of the two task functions is a state: `measuring`, `storing` (pass 1),
`looking`, `rendering`, `renaming`, `recording`, `cleaning` (pass 2). A
rejected call leaves its tasks running. The adapter answers any result each
time. Renders are keyed by shard and context (`renderKey`), so a
measurement that changes leads to other keys. Every call has the same plan.
The history variable `complete` has what was stored, and which calls have
published, since the directory was last removed.

### Pagination

One call of `generate()` on a `plan`, a list of sections, from `Partition` to
`AssembleShard`. `measures` is what `measure()` reported per shard; pages and
anchors of the context follow from it (`PageOffset`, `TotalPages`,
`AnchorPages`). `render` is the `render()` under way: the section and page it
is at (`turn`, `index`, `inShard`), the document (`doc`, a list of pages with
the section, the literals and the images on each), the image cache
(`entries`), and the images the document has opened (`opened`). A draw may
show images (`GetHit`, `GetMiss`), add pages of its own, or throw. `files`
are the shards on disk: `torn` until the stream has finished. A retry renders
again into the same file. The renders are taken one after the other, because
each has its own process, file and document; `Generate` interleaves them.

### AssemblySlot

`slot` is `Ready`, `Busy` or `Consumed`; a call is synchronous, or a task that
is spawned (it takes the writer on the JavaScript thread), starts, computes on
a thread, and settles back on the JavaScript thread, where `SlotAfter` decides
whether the writer returns. `abort()` may come at any time. `doc` is what the
writer has, `torn` whether a write failed half way. With `Careful`, the caller
makes no further call after an append failed, as `index.js` does; without it
`OutputIntact` is not claimed. `Document` has only the acknowledged shards
and what is published.

### Assembler, PageTree, Outline

The file is the sequence of what was written; an offset is its length at the
time. A shard is a set of objects with structural ones, pages, parents,
attributes and named destinations. `AppendShardDoc` is all of
`append_shard_doc()`: malformed (nothing written), torn (a write fails), or
whole. `Finalize` is all of `finalize()`. lopdf's renumbering is any order of
the objects on consecutive numbers. `PageTree` is the climb to inherited
attributes, `Outline` the pass that links bookmarks, each against a
definition without a loop. The properties read the file from its trailer,
through the table, as a viewer does.

### Merge

`merge()` on top of `Assembler`: an append is `AppendShardDoc` of the document
that the task got hold of (`taken`), when it did: a byte array is copied as
the task is made, a path is read when the task runs, and `held` is what each
input holds at the moment, which `Rewrite` changes. The nested outline is a
function from locations: `<<2, 1>>` is the first child of the second bookmark,
as an error of `flattenOutline()` would name it, and each bookmark has the
number of its children. `flat` is the outline after `flattenOutline()`
(`FlattenOutline`; `visit` is a recursive function over the locations, as in
the code), which `Finalize` turns into a tree again. A call with
`host = "direct"` uses `Assembly` itself, in any order it likes, and keeps
appending after failures, which `merge()` does not.

### Publication

A call of each of the three functions with its partial file, native handle
and program counter; every native call, callback, check of the signal,
rename, stat and cleanup is a step. `Cleaned` is the `finally` block, `Leave`
the way to it. The history variable `late` names the calls whose `stat()` or
`rm()` failed: those reject after the output has been replaced, or leave
their partial file, and the properties except them by name.

### Extraction, Arguments

One call. `source` is the version that the source path or byte array holds
now, and `read` the one that was parsed: `extractRanges()` parses once in the
constructor, `extract()` parses once to count and once to extract. `call` has
the arguments, and `Edit` changes the elements of its arrays as the caller
may while the call awaits something, to anything: `extractRanges()` checks its
ranges once, before the first await (`index.js:504-517`), and reads them again
in each turn (526). A page number of a range is a number of JavaScript
(`JSNumber`): an integral part, and whether there is more to it. It goes
through the conversion that napi makes for a `u32` parameter (`node.rs:585-590`,
`FirstPage`, `LastPage`), which loses the fraction and the upper bits;
`RangeRefused` is about what is left. `selection` is the copy that `extract()`
makes. `written` and `removing` are the slices completed and the ones whose
`rm()` is under way. A file is a list of pages `<<version, index>>`.
`Arguments` has the checks that `index.js` makes of a source, an output, a
bag of options, and a selection.

## 3. Runs

| Run | Instance | Shows |
|---|---|---|
| `pool` | 3 tasks, 1 slot, 1 retry, two tasks that cannot be sent; every fault | an abort reaches every child and drains the pool, workers hold slots, the pool implements `Semaphore` (calls get their slots in order), every worker is reaped |
| `pool_after_dispose` | violation | section 5 |
| `cache` | 2 caches, a measurement and a render; overlapping removal, stragglers, every fault, crashes | a directory in use stays intact, the manifest only grows, a cleanup that was asked for happens |
| `cache_reopen` | violation | section 5 |
| `slot` | 4 calls, sync or async, abort | output intact, refines `Document`, tasks give the assembly back |
| `publish` | `merge`, `assemble`, `extract` on one path; all faults | output whole, settled as published, no leftovers, every call settles |
| `extraction` | each function with valid and invalid arguments, up to 3 ranges in 2 files, 4 versions of the source; all faults | exactly the pages asked for, all of one version, if the numbers are a u32; slices removed |
| `ranges_torn` | violation | section 5 |
| `merge` | 6 shards, 2 appends, all bookmark lists of up to 4 entries on 3 levels; `merge()` with 6 lists of inputs and 6 outlines | the published file resolves; pages, attributes, destinations and bookmarks are those that went in; the reported page ranges are true |
| `generate` | 2 calls, 2 shards, 2 results each, 2 page counts; all faults | literals right, stored work found, cache kept until success |
| `paginate` | plans of up to 3 sections and 4 pages, 2 images, 2 attempts; all faults | partition right, pages numbered, anchors land, images owned, files whole |
| `toc` | violation | section 5 |

### Bounds, and why they are enough

* `pool`: with 3 tasks on 1 slot two tasks queue, so order in the queue and
  handover both happen; one retry is enough for an attempt that follows
  another. Several slots are taken at once in `pool_after_dispose` only;
  what holds for any number of them is proved.
* `cache`: two caches are a race for a write or a removal, and an open that
  meets a removal. What three would add for `IntactUnlessOverlapped` and
  `ManifestOnlyGrows` is covered by their proofs.
* `slot`: four calls are an append, a task in flight, a second task, and an
  abort or a finalize. Proved for any number.
* `merge`: two appends (`MaxAppends`) show every border between shards, and
  with a failing one before it the reuse of numbers; four entries
  (`MaxEntries`) on three levels are every way to go down and up, with a
  sibling before and after.
* `publish`: the three kinds of call once each, all on one path; two of them
  have two inputs.
* `extraction`: three ranges (`MaxRanges`) in two files, so that one file is
  written twice and one call can fail at the first, a middle or the last
  range; the four versions have more pages, fewer, none, and inflate more.
  `U32` is 8 there in place of 2^32: more values than any version has pages,
  so that numbers beyond it (9, -7, -1) become a page that is there, one that
  is there, and one that is not. Calls of up to two ranges also have these, a
  fraction, and something that is no range.
* `generate`: two calls are a resume or an overlap. Two shards are one with an
  offset. A page count of 1 or 2 lets a render differ from its measurement.
* `paginate`: three sections with a budget of 3 give shards of one and of
  several sections, below, at and over the budget. `MaxPages` bounds the
  pages of a plan, `MaxExtra` the pages that the draws of a render add,
  `MaxOnPage` the images on a page; a document opens at most one image more
  than there are keys, which is enough to open one twice. `Attempts` = 2 is
  one retry. The templates of this run answer the same page count in both
  passes, or one that changes the sum of the shard; `toc` has the others.

`TaskSymmetry` and `CacheSymmetry` are used in runs with safety properties
only, on instances where the elements are interchangeable. Deadlock is not
checked in `pool`, `cache`, `slot` and `publish`, where the system may stop:
all calls may have ended there, and in `pool` a child that got no request may
outlive them. `pool`, `slot` and `publish` have liveness properties in its place.

### Fairness

* `WorkerPool.FairSpec`: the event loop delivers what is ready and the loops
  go on; a child that was killed dies. Nothing makes an adapter answer:
  `pool.ts` sets no timeout. So `EveryWorkerReaped` says `AdapterHangs \/ ...`,
  and `AbortDrains` needs no adapter to answer.
* `Publication.FairSpec`: continuations run and file operations end. Nothing
  forces a caller to make another call or to abort.
* `AssemblySlot.FairSpec`: a task the threadpool was given runs and settles.
  `index.js` has at most one task per assembly; that the threadpool has
  threads for the tasks of other objects is taken for granted.

The other modules state safety only, and their `Spec` has no fairness.

## 4. Proofs

All theorems are for every value of the constants that satisfies the
assumptions of the module: finite sets of tasks, caches and calls, any
number of slots, retries, shards and appends, any sets of keys and of faults,
any lists of ranges, selections, sections and versions of a source. The
assumptions say what the inputs are:

* `Publication`, `Extraction`: arguments have their types, and every call has
  a partial file with a name of its own, as the UUID of `partialPathFor()`
  gives it. `U32` is any positive number, and a source has fewer pages.
* `Generate`: a measurement has a page at least, as `generate()` gets it from
  an adapter that keeps its contract; renders may have any number.
* `Assembler`: a parsed source has finitely many objects, pages that are among
  them and are not dictionaries that the assembler replaces, and named
  destinations that lead to such objects.
* `Merge`: a call has a list of inputs and an outline that is a tree of some
  depth (`CallsWellFormed`): an array within itself exhausts the stack in
  `flattenOutline()`. A page index is any integer.
* `Pagination`: plans and lists of anchors are lists; every number a template
  or a host answers is any integer.

The proofs, module by module:

* `WorkerPoolProofs`. `IInv` strengthens the type invariant with who
  holds a slot, what the queue contains, which child belongs to which attempt,
  and what settled children may still do. It is needed because the accounting
  of slots depends on the program counters, and the kill set on the children.
  From it: `TypeCorrect`, `SlotsAccounted`, `QueueAccounted`, `WorkersInSlots`,
  `ActiveIsExact`, `WorkingWithinConcurrency`, `NoForkAfter`. `AbortReaches`
  holds by itself: the only child an abort misses is that of a retry whose own
  progress listener has aborted. `PoolIsSemaphore` is the refinement, order
  included; it needs that `waiters` are the waiting calls and are there only
  while all slots are taken.
* `ShardCacheProofs`. `CountInv` (types and `UsersExact`) is inductive by
  itself. `SnapshotCovers` says that the write under way holds all that is on
  disk, unless its read failed; with it `ManifestGrows`. `IntactInv` says
  that who removes the directory is alone among the caches that have not
  opened during a removal, that a directory being opened starts empty or
  whole, and that known files exist; with it `IntactIfAlone` without an
  assumption, and `OpenStaysIntact` for `Overlap = FALSE`. `RemovalDue` says
  that a cleanup which was asked for is under way, or left to the last of the
  users that the registry counts. With it `CleanupIsHonoured`.
* `AssemblySlotProofs`. `SlotInv` relates the slot, the tasks that hold the
  writer, and how far the writer is ahead of what the caller was told.
  From it `TypeCorrect`, `OneAtATime`, `IdleReported`, `OutputStaysIntact`,
  `ConsumedStays`, and the refinement `ImplementsDocument`.
* `PublicationProofs`. `PublicationInv` is needed because `OutputsWhole` looks
  at an output only, which a rename fills from a partial file: it says per
  call what the partial file holds at each place of the code
  (`PartialMatches`: nothing, the appends so far, or the whole document), how
  many inputs are in (`ProgressMatches`), and whether the output has been
  replaced (`PublishedMatches`). From it `OutputsStayWhole`,
  `SettlesAsPublished`, `LeavesNothing`. Calls touch each other only through
  outputs, so a step of one call keeps the parts of the others.
* `ExtractionProofs`. `ExtractionInv` says who is going to remove or publish
  every complete file (`WholeTracked`), that each file of `written` holds the
  last slice written to it (`SlicesMatch`), that the selection is what the
  caller asks for from the moment it is resolved (`SelectionMatches`), and that
  the document is that selection of the version parsed last
  (`DocumentMatches`). From it `FailedCallsCleanUp` and
  `ResolvedCallsAreExact`: an array edited while `extract()` counts, or a
  source replaced between its two parses, changes neither. A range whose
  numbers are a u32 yields its pages (`NumberConverted`, `SliceIsExact`); for
  other numbers only this is claimed: the file is a run of pages of the version
  that was parsed.
* `GenerateProofs`. `GenerateInvariant`: the two passes of a call do not
  overlap, so the keys of its renders stay what they are; a task that records
  a result has it in the call's copy of the manifest; and `assemble()` has read
  a prefix of the shards, as they were measured. It is needed because
  `LiteralsRight` looks at the output, which takes its renders by key. From it
  `TypeCorrect`, `LiteralsAreRight`, `StoredWorkIsFound`, and the action
  property `CacheIsKept`: nothing goes from the manifest or the renders while a
  call has the directory open, nor before one that was not told to keep it has
  published in this process and since the last removal (`PendingMatches`). It
  does not say that a failed call's cache stays for ever: a call that succeeds
  on the same directory takes all of it away, as the code does.
* `AssemblerProofs`. `AssemblerInvariant`: every number below `next_object` has
  an offset that leads to its object, and no other number has one, unless an
  append failed after it had begun to write. With it `XrefIsRight`, although a
  failed append leaves objects in the file and its numbers are taken again.
  `OrderInv` maps the page ids back to the pages of the appends that succeeded
  (`PagesAreInOrder`). `DestsAreRight` adds that a sorting permutation exists
  for every list of names, so that the `CHOOSE` of `Sorted` has something to
  choose. `AttributesArePushedDown` compares the climb over parents, an iteration that
  remembers what it has seen, with the least relation of `PageTree`, for
  parents of any shape.
  * Bookmarks. `ItemsFormTree` is about `Outline` alone: after each entry of a
    list with valid levels, the pass has, for every level down to that of the
    entry, the last entry on it, as open ancestor and as sibling (`Turn`). So the
    links it makes are those of the tree that the levels describe, and the
    counts, which it takes from the levels, are the sums over that tree
    (`CountsAdd`). `FileOutline` says where the bookmarks are in a published
    file: on consecutive numbers, the root behind them, and nowhere else, as
    shards bring none (`KindsAppended`). From both `OutlineIsTree`.
  * Merge. Every step of `merge()` is a call of the assembly or leaves it alone
    (`MergeIsStep`), because what it flattens is a list `finalize()` may be
    given: so `MergeKeepsAssembly`. `ResultsInv` says that the results so far
    cut the pages so far into the pages of each append (`MergeResultsMatch`).
    `FlattenLists` shows by induction on the depth that flattening lists every
    location once, behind its parent, with nothing less deep in between, and in
    the order of its array; so the levels are accepted
    (`FlattenedLevelsAreValid`), and the first child and the next bookmark by
    levels are those by location (`ArrayFrom`), which the bookmarks of the file
    lead to (`MergeKeepsOutline`).
* `PaginationProofs`. `PartitionIsRight` follows from a loop invariant of
  `partition()`: the shards so far and the current one are the sections seen,
  in order, and each border is where the budget demanded it. `StateInvariant`
  relates partition, measurements, render and files; with it `TypeCorrect` and
  `FilesAreWhole`. `ImagesAreOwned` relates the entries of the cache, the
  images the document has opened and those its pages show. `PagesAreNumbered`
  and `AnchorsDoLand` follow one render step by step (`DrawnInv`, `SteadyInv`,
  `PlacedInv`: how many pages the document has, which number each prints,
  where each section's first page is), carry that to the file and the
  assembled document, and need that the offsets of pass 1 are sums. Both have
  a hypothesis, `NeverFewer`: no template answers fewer pages in pass 2 than
  in pass 1, unless so few that the answer is refused. Every plan of
  `paginate` satisfies it, with answers that are more and answers that are
  refused; the plan of `toc` does not, and `AnchorsLand` is false there.
  `PagesAreNumbered` holds without it if no draw adds pages.

What folds, flattenings and loops compute is proved by induction on a set of
numbers (`SetInduction` in `PaginationProofs` and `AssemblerProofs`).

Theorems without a run of their own (`SlotsAccounted`, `QueueAccounted`,
`ActiveIsExact`, `WorkingWithinConcurrency`, `NoForkAfter`, `UsersCounted`,
`OneAtATime`, `IdleReported`, `ConsumedStays`, `GenerateInvariant`,
`AssemblerInvariant`, `StateInvariant`) state parts of the inductive
invariants, or actions, that a reader would ask for by name; `ItemsFormTree` and
`FlattenedLevelsAreValid` are about operators. `OpenStaysIntact`
is the assumption under which the property that `cache_reopen` refutes holds.

Only model-checked: the liveness properties (`EveryWorkerReaped`,
`AbortDrains`, `BusyEnds`, `EveryCallSettles`), which are out of the prover's
reach. Every other property of the passing runs is stated by a theorem.

## 5. Where code and documents disagree

Checked by a run that TLC finds violated:

* `pool_after_dispose` / `DisposedPoolIsDead`. `dispose()` "Kills any live
  workers and detaches from the abort signal" (`pool.ts:70`), but a call in its
  retry loop takes the kill for a crash and forks again, and a queued call gets
  the free slot; nothing kills these workers.
* `cache_reopen` / `OpenIsIntact`. `close()` decides to remove the directory and
  then awaits (`manifest.ts:178-182`); an `open()` in between loses its
  directory, although any number of calls may share it
  (`orchestrator/README.md:80`).
* `ranges_torn` / `NothingSurvives`. The range whose write fails has truncated
  its file before it is listed in `written` (`index.js:532`), so the file stays,
  against `index.d.ts:130`.
* `toc` / `AnchorsLand`. The check of pass 2 compares the page count of a whole
  shard (`generate.ts:223`), while `render()` asks every template for its pages
  again: two sections whose counts change by +1 and -1 pass, and the table of
  contents has the wrong page for the second one, against
  `adapter-pdfkit/README.md:48`.

Met while modelling; the properties name the cases and no run is spent on them:

* The slot of a worker is free as soon as its reply is read; the process that
  sent it may still be exiting, so more than `concurrency` processes can be
  alive ("Concurrent worker processes.", `types.ts:108`).
* A child that is forked after `dispose()` and whose `send()` throws is killed
  by nobody and waits for a request for ever (`EveryWorkerReaped` excepts it).
* `extractRanges()` checks that page numbers are integers (`index.js:508`), and
  `extract_range` takes them as `u32` (`node.rs:587`), which napi converts
  silently: `startPage` 4294967297 or -4294967295 is page 1, and an element
  edited to 1.7 during the call is as well. `node.rs:578` says
  `SHARDPDF_INVALID_ARG` for a range past the last page, and 314 that the other
  functions refuse such numbers for this reason. `PagesExact` says of such a
  range no more than that its file is some run of pages of the source.
* The same check of sums as in `toc` lets a second fault pass: a section that
  answers one page fewer in pass 2, while a draw flows over by one page, ships
  with every later page number wrong (`generate.ts:223`). `PagesNumbered` holds
  in `paginate` because its plans satisfy `NeverFewer`.
* An `open()` that fails stays counted in `users` (`manifest.ts:114`), because
  `generate()` calls it before its `try`.
* An error while reading the manifest counts as an empty one
  (`manifest.ts:231`), and the next write drops what was there.
* A `stat()` that fails after the rename rejects a call that has replaced the
  output (`index.js:320`, against `index.d.ts:247`).
* `extract()` parses its source twice (`index.js:446`, 451), where
  `index.d.ts:263` says once. `PagesExact` shows that the pages are still those
  of one version, because the core checks the selection again.
* A render with a wrong page count stays in the cache of the failed call and
  fails every retry (`generate.ts:188`; the design document asks for a check
  before reuse).
* The PDFKit adapter forces neither `bufferPages` nor a document of its own on
  `createDocument()`, though `adapter-pdfkit/src/types.ts:122` says that two
  options are forced.
* After an append that failed half way, a later shard with fewer objects leaves
  offsets behind, and the table gets rows beyond `/Size`
  (`assembler.rs:268,358`). `index.js` aborts instead of going on.

## 6. What is abstracted

* `rm` of a directory is one step; a manifest write that is renamed is whole.
* `Publication`, `Extraction` and `Merge` let the signal fire between any two
  steps, which is finer than turns of the event loop.
* File contents are what the properties tell apart: which shards, which
  objects, which pages. Bytes, titles, fonts, generations and the text of
  errors are left out. That the numbers of a selection are integers is one
  flag of it (`typed`), which `resolveSelection()` looks at; they are within
  the page count before they reach Rust, and the conversion of a range is
  modelled (`ToUnsigned`). The limit of an option bag is positive and fits a
  `usize`; page numbers of bookmarks go through `u32_field()`, which refuses
  what is no u32.
* Other processes on the same cache directory are left out, as the source says
  that nothing coordinates them (`manifest.ts:85-95`).
* `Generate` takes the pool, the cache and `assemble()` at the level that their
  own modules establish: a worker ends well or not, a manifest write is one
  step, no call opens the directory during its removal, the output is replaced
  whole. `mkdir` and `rm` do not fail there. Progress events appear only as a
  listener that throws; the resolution of the adapter module and the defaults
  of the options are left out.
* PDFKit and the templates are external to `Pagination`: a draw is any
  sequence of images and page breaks, and `end()` completes the stream or not.
* lopdf is external: parsing a source gives its pages, or an error. A named
  destination leads to an object of its own document; one that leads nowhere
  is not modelled. A `/Parent` that leads nowhere is missing after renumbering
  too; lopdf might let it meet a live object there.

## 7. Not modelled, and the plan

Next: the closure of the objects a page reaches, in `extract.rs`, along both
extraction paths.

Left out for good: formatting of objects (`serializer.rs`), validation
(`inspect.rs`, one read-only pass), parsing of native arguments and error
codes in `node.rs`, hashing, error classes and types, the generated native
loader, fuzz targets, examples, benchmarks and smoke projects. None of them
has state or interleavings that a model would explore.
