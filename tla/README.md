# A verification project for Pen&PDF

Pen&PDF is an Android application for annotating PDF files. It is a Java user
interface (`platform/android/src/com/cgogolin/penandpdf`), a JNI glue layer
(`platform/android/jni/mupdf.c`) and a fork of the MuPDF library (`source/`,
`include/`). This directory holds TLA+ models of the parts whose correctness
depends on the order of events, TLC configurations that check them on small
instances, and proofs about them that TLAPS checks for every instance.

All source references are relative to the repository root (`src/` in
`PROJECT.json`).

## 1. Inventory

| Part | State it keeps | Operations | What must hold |
|---|---|---|---|
| Resource store (`source/fitz/store.c`) | LRU list, hash, recorded size, reference counts of the stored objects | keep/drop, store, find, remove, empty, shrink, scavenge | counts are exact, nothing reachable is destroyed, nothing freed is used, the size is right and bounded |
| Allocator (`source/fitz/memory.c`) | none of its own | malloc/realloc that scavenge the store and retry | fails only when nothing can be evicted, always returns |
| Hash table (`source/fitz/hash.c`) | array of slots, load | insert (with growth), find, remove, remove at a position | every stored key is found, no freed array is used, a free slot ends each probe |
| Editing session (`PenAndPDFActivity`, `PenAndPDFCore`, `MuPDFCore`, `MuPDFPageView`, `saveAsInternal`) | native document, its file, the temporary file, two change flags, URI, task queue | accept a drawing, append a page, save, save as, share, stop, resume, rotate | a save that is reported is complete, unsaved edits are known, no edit is lost, a kill at any time leaves a copy |
| Page view editing (`PageView`, `MuPDFPageView`) | strokes being drawn, history, list of annotations, selection, tasks | draw, erase, undo, accept, cancel, edit, delete, load | no ink is lost, ink is on its page, the lists catch up with the document |
| Cancellable tasks (`CancellableAsyncTask`, cookies) | task state, native cookie | execute, cancel, cancelAndWait | a cookie is not used after it is destroyed, and destroyed once |
| Alerts (`jni/mupdf.c` 219-314, 2827-2950) | mutexes, request and reply flags | show, wait, reply, start, stop, finish | an alert gets its own reply; nobody waits for ever; mutexes outlive their users (switched off in the application) |
| Page cache of the glue (`gotoPageInternal`, `drawPage`, `updatePageInternal`) | three pages, their display lists and changed rectangles | go to page, draw, update, edit, close | edits land on their page, lists are current, no change of a picture is forgotten |
| Reader view (`ReaderView`) | child views, spare views, two shared bitmaps | layout, recycle, exchange bitmaps | a page has one view; native code never draws into the bitmap on screen |
| Search (`SearchTaskManager`) | current task | start, stop | ends, and reports the first hit in search direction |
| Recent files (`RecentFilesList`) | list of at most 100 entries | push, read, write | bounded, no duplicates, survives writing and reading |
| Exceptions (`source/fitz/error.c`) | stack of codes | try, always, catch, throw | always-blocks run once, overflow is caught |
| Glyph cache (`source/fitz/draw-glyph.c`) | buckets, LRU list, total | render, purge | one entry for each key, bounded total |
| Objects and xref (`pdf-object.c`, `pdf-xref.c`, `pdf-repair.c`) | xref sections, index, object table | create, update, delete, look up, sign, read back, repair | the newest version of an object wins, a signed version stays |
| Writer (`pdf-write.c`) | used objects, offsets, increments still to write | write, incremental write | the file holds every increment; a failure leaves the table usable |
| Interpreter, fonts, images, filters, devices, other formats, desktop viewers | data | — | numerics and parsing |

How they interact. Every native call goes through `MuPDFCore`, whose methods
are synchronized: the core is a monitor. The UI thread calls it directly;
tasks call it from the one thread of `AsyncTask`'s serial executor. The native
code runs in one `fz_context`; the library itself allows several threads with
cloned contexts (`docs/multi-threaded.c`), which share the store, the glyph
cache and the locks. Rendering puts decoded objects into the store; when
`malloc` fails the allocator evicts from it. The store finds hashed keys
through the hash table, which uses the allocator's own lock and gives it up
when it grows.

What is hard: the store's lock is given up in the middle of its loops
(`evict`, `fz_resize_hash`); a save is a chain of steps of which each can fail,
on a thread that races the UI, in a process that Android may kill; tasks wait
in a queue while the UI goes on, and find a page view that shows another page;
pages are dropped and loaded again under the pictures made from them; the glyph
cache gives its lock up while a glyph draws other glyphs. `PROJECT.json` lists
each such hazard at its line, with the properties that watch it.

## 2. Modules

| Module | Models | Proofs |
|---|---|---|
| `Store` | store.c and the retry loop of memory.c | `StoreProofs` |
| `Cache` | what the store promises: the abstract specification `Store` implements | in `StoreProofs` |
| `HashTable` | hash.c | `HashTableProofs` |
| `Session` | the editing session and the save path | `SessionProofs` |
| `ListLemmas` | facts about sequences, and about the folds of the community modules, for all proofs | itself |
| `Xref` | the cross-reference table, signing and the incremental save | `XrefProofs` |
| `Revisions` | what an editor of the document is promised: the abstract specification `Xref` implements | in `XrefProofs` |
| `PageViews` | the page views and the annotations drawn on them | `PageViewsProofs` |
| `PageViewsInvariant` | the five invariants the proofs about `PageViews` rest on | in `PageViewsProofs` |
| `PageCache` | the page cache of the glue, drawing and partial updates | `PageCacheProofs` |
| `GlyphCache` | the glyph cache, fonts and contexts as it sees them | `GlyphCacheProofs` |
| `MC...` | constants and symmetry for TLC | |

### Store

One step is what a thread does between two points where another thread can
run. The lock is a variable (`lock`): `evict` gives it up (`lock' = None`, the
thread's `pc` becomes `"freeing"`), runs the destructors, and the thread goes on
with `Unpin` (in `fz_store_item`) or `Relock` (in the allocator and in
`fz_empty_store`) when it gets the lock back. `th[t]` holds the locals of the
call a thread is in: the item, the amounts asked and freed, the scan position
`cur` and the pinned item `pin`.

* `Create`, `Keep`, `Drop` are the callers: they hold references in variables
  (`var`). `Keep` shares an object only when its `fz_store_item` has returned;
  the library's callers behave so, and the unlocked `val->refs--` at store.c:315
  would otherwise be a data race.
* `StoreBegin`, `InsertExisting`/`InsertFails`/`InsertNew`, `Fits`,
  `EnsureSpace`, `EnsureEvict`, `EnsureDone`, `Unpin`, `Saved`, `OverBudget`,
  `GiveUp`, `Unref`, `Link` are `fz_store_item` and `ensure_space`.
* `Find`, `RemoveItem`, `EmptyBegin`/`EmptyEvict`/`EmptyDone` are the calls of
  the same names.
* `MallocBegin`, `PhaseScavenge`, `ScavEvict`, `Relock`, `ScavEnd`,
  `ScavReturn`, `ScavRetry`, `ScavFails`, `MallocFails`, `ShrinkBegin` are
  `do_scavenging_malloc`, `fz_store_scavenge`, `scavenge` and
  `fz_shrink_store`. Whether the system allocator succeeds is a free choice.

An object is identified with the `fz_item` that carries it, and addresses are
never used again, so that a use of freed memory stays visible. The hash is a
function here: `HashTable` is its implementation.

`SerialClear` assumes that nobody else is inside the store during
`fz_remove_item` and `fz_empty_store`. It is how this application uses the
library (one context, used under the core's monitor), not a rule of the library:
`store.h` states none, and store.c:416-418 provides for a removal that meets an
item which is in the hash but not yet in the list. That overlap is not modelled:
no run has removals with two threads, and what section 5 says of the store with
removals is conditional on `SerialClear`. The comment at store.c:158-160
justifies the pin of `ensure_space` by the counts alone, which an overlapping
removal would not respect, as `fz_remove_item` unlinks an item whatever its count.

### Cache

References, lives and a set of cached objects. An object is destroyed by the
step after which nobody refers to it, neither earlier nor later. The mapping
takes `cached` to be the items that are in the list or on their way there.

### HashTable

The probe of an insertion, the copy into a grown array and the back shift after
a removal take one loop iteration per step. Arrays are numbered and remembered
when they are freed. `InsertGrows`, `Overtaken`, `GrowSkip`, `GrowFails`,
`GrowSwap`, `Copy`, `CopyDone` and `Relock` are `fz_resize_hash`, with the two
places where it gives up the lock. `RemoveFast` uses the position that the
thread's own insertion returned, as `fz_store_item` does. The constant
assumption `(InitialSize * 8) \div 10 + 1 < InitialSize` holds for the tables of
the library (256, 509 and 4096 slots); a table of fewer than six slots could
fill up and a probe would never end. So could a grown table if more threads were
to insert at once than a fifth of its slots: each looks at the load before the
table grows and not again when it has its turn. The second assumption about the
sizes excludes this; it allows 102 threads for the smallest of these tables.

### Session

The background thread executes one task at a time from `queue`. A document is
the set of edits in it; a file holds such a set, is `Broken`, or does not exist.

* UI thread: `SaveDraw` (with the cancellation of the page view's previous
  task), `ReleaseResources`, `InsertBlankPage`, `AskToSave` (save, save as,
  share), `ShareDone`, `OnStop` (auto save), `OnResume`, `OnRetainCore` (change
  of configuration).
* Background thread: `AddInkAnnotation`; `CoreIsNull`; and for a save or export
  `Export` (PenAndPDFCore.export up to the native call, including the flag that
  MuPDFCore.saveAs clears), `WriteDocument` and `RenameOutput`
  (saveAsInternal), `Reopen` (the rest of export), `OpenDestination` and
  `CopyStream` (saveAs), `Finish` (the activity's saveAs/save and the callback).
  `FailsAt` is the failure of the native write, of `rename`, of opening the
  destination and of the copy; `NothingToWrite` is what happens once the
  document has been closed by a failed rename.
* `CoreFree` says that the core's monitor is free; UI actions that call
  synchronized methods wait for it.
* A process that is killed leaves the files as they are: `ACopySurvives` is an
  invariant of every intermediate state, so it covers a kill at any point, and
  no separate action is needed.

Assumed: the current URI can be written (`canSaveToCurrentUri`), auto save is
on (its default), and the temporary file that has just been written can be
opened. A save-as chooser is represented by its result.

### Xref and Revisions

`table` is the `pdf_document`: its sections (the newest first), how many of them
are incremental, `xref_base`, the index, `max_xref_len` and the flags of the
writer; `file` is the sections of the file (the oldest first), `out` the copy
that is being written.

* `Look` is `pdf_get_xref_entry` with the lookup through the index and the base,
  `EnsureIncrementalXref` and `EnsureIncrementalObject` are
  `ensure_incremental_xref` and `pdf_xref_ensure_incremental_object`,
  `CreateObject`, `UpdateObject`, `DeleteObject`, `UpdateStream` the functions
  with these names, `SetSignature` is `pdf_xref_store_unsaved_signature` with
  the section it makes.
* Actions: `LoadObject`, `NewObject`, `Replace`, `Delete`, `Alter`, `NewStream`,
  `Sign` are what the annotator does to objects; `BeginWrite`, `WriteIncrement`
  (once for each increment, the oldest first), `FinishWrite`, `FailWrite` are
  `saveAsInternal` and `pdf_write_document`; `Reopen` opens the file again
  (`pdf_load_xref`, which reads tables and streams along `Prev`).
* `written` is what each object was last set to. `trust` becomes FALSE when a
  failure leaves the open document in disorder: a failed write leaves
  `xref_base`, `disallow_new_increments` and `startxref` as they were in the
  middle, and later changes may go into a signed section; a copy that cannot be
  opened leaves `freeze_updates` set (pdf-write.c:2728), so that later changes
  are not moved to an increment; an xref that fails after it has set `startxref`
  (pdf-write.c:2004) leaves it beyond the file. Only `Reopen` continues from
  there. When an object of the only, unsigned increment fails nothing is
  disturbed and a save may be tried again, which `FailWrite` has as the other
  outcome. A failure before the first object is written has changed nothing in
  the table and is no step.

`Revisions` knows neither sections nor index: there are objects, signed versions
that are not saved, and versions in the file. The mapping reads the signed
versions and the versions of the file off the sections.

Left out: generations, offsets, object streams, repaired documents (which are
saved incrementally although `pdf_write_document` does not support it), and the
non-incremental write, which only a document without a file takes. A deleted object
is not asked for after reading back: `pdf_prime_xref_index` skips free entries
and finds it again in an older section (pdf-xref.c:1148).

### PageViews

Views are set to a page, released, blanked and used again (`SetPage`,
`ReleaseResources`, `RemoveSuperfluous`, `GetOrCreateChild`, `OnLayout`). A layout
releases all the views it has no use for in one operator on their set: the release
of one view touches neither another view nor its tasks, and the order, that of the
pages, shows only in the cache of views (`Ascending`).
Handlers of the UI thread are one step each; a task is several (`Start`,
`ReadPage`, one of `GetAnnotations`/`DeleteAnnotation`/`AddInkAnnotation`, then
`ClearAnnotations` and `Reload` for the loading from the background), and
`Deliver` is `onPostExecute` on the UI thread. `cancelled` holds the tasks that
were cancelled: those not started never run, the others are not delivered.
`Saved` is what the file holds when it is opened: any annotations on any pages.

History variables: `wished` is the ink the user deleted, erased or undid,
`dropped` that of tasks cancelled before they began, `misled` what a deletion hit
whose index came from an older list or from that of another page, what was
edited from such a list, and what a task put on the page of a view that was
released as it began, `late` that a released view was loaded from the
background thread. A list, and a selection made from it, remember their page and
its deletions for that. `Budgets` are the numbers of acts (turns of a page,
accepted drawings, deletions, edits) one of which the user has. Only ink annotations are modelled; markup and text take the
same path through the tasks.

### PageCache

`slots` is `globals.pages` (a slot knows its page, the changes the page has not
reported, the two lists of changed rectangles, and the display lists), `current`
is `globals.current`, `shown` is what each picture on the screen shows. Each
native call is one step, because the core is a monitor; its cookie can stop it
while it records either list and while it paints, and recording can fail.

* `GotoPage`/`SlotFor` are `gotoPageInternal`; `Visit` is every call that only
  reads (sizes, links, text, annotations, search).
* `AddInkAnnotation`, `DeleteAnnotation` go to the page, change it, and dump all
  annotation lists. Markup and text annotations, clicks on widgets and signing
  end in the same two calls.
* `SaveDraw` is the painting of an accepted drawing into the shown patch
  (PageView.java:1380-1393), before the task that calls `AddInkAnnotation` has
  run; `ahead` are the drawings between the two. `CancelInk` is the task that is
  cancelled before it has begun, by a second drawing or with the view, or that
  never reaches the document. The order of the tasks, and whose is cancelled, is
  `PageViews`'s matter: here any drawing that waits may be next.
* `UpdateChangedRects` is `update_changed_rects` with `pdf_update_page`, which
  reports a change once. Either may throw half way: `ForgetSome` when an
  annotation cannot be given its appearance, after some others have been given
  theirs, `ListSome` when there is no memory for a rectangle. `FailDrawPage` and
  `FailUpdatePage` are the renderings that end there.
* `DrawPage`, `UpdatePage`, `UpdateUncached` are `drawPage` and
  `updatePageInternal` as `renderInBackground` calls them: the first rendering
  of a picture is complete, later ones repaint; a stopped one is not delivered.
* `Thumbnail` draws page 0 into a bitmap of its own. `Reset` takes a picture off
  the screen. `CloseDoc` is `close_doc` and the opening of the saved file.

`lost` is a history variable: the picture missed a change that the cache will
not report again. It is set where a page with outstanding changes leaves the
cache, where a report of changes fails half way, where a rendering of a whole
bitmap takes the rectangles of a picture it does not repaint or does not finish,
where a list is half recorded, and where the task of a drawing is cancelled that
is already in the picture.

### GlyphCache

`lru` is the list of entries (the buckets only speed the search up), `total`
the recorded size; `fonts` and `glyphs` have the counts of what is at each
address, and a generation or what is shown to tell its contents apart. `texts`
are the references that texts and display lists hold for a thread, `drawing` the
Type 3 glyphs that a thread is drawing within each other, `hand` the glyph that
a call has returned.

* `Find`, `RenderOutline`, `BeginType3`, `EndType3` and `FailType3` are
  `fz_render_glyph`. The lock is held from the search to the insertion for an
  outline glyph, and given up between `BeginType3` and `EndType3`.
* `Insert`, `Evicted`, `Take`, `DropEntry`, `Purged` are what happens to the
  cache under the lock. A failed allocation of the entry is one of the outcomes
  of `Store`.
* `NewFont`, `ShareFont`, `DropFont`: fonts are freed and their addresses used
  again. `PurgeGlyphCache` is the closing of a document, and the contexts of the
  threads come and go.

Left out: the exception stack may overflow at the `fz_try` that follows the
locking (draw-glyph.c:308), and then the lock stays taken. The colour space a
Type 3 glyph is drawn for is not part of the key, so that a coloured glyph that
was cached for one is found for another; the model does not tell them apart.

## 3. Runs

| Run | Shows | Bounds |
|---|---|---|
| `store_shared` | type, exact counts, no use after drop or free, pins stay linked, hash and list agree, the size is right, evictions for space take only unused objects, `Store` implements `Cache` | 2 threads with 2 references each, 4 objects under one hashable and one plain key, room for two; no removal |
| `store_single` | with removal as well: the budget, and that every call returns | 1 thread, requests that do and do not overflow |
| `store_leak` | violation: `fz_remove_item` leaves the recorded size too large | 1 thread |
| `store_scavenge` | violation: an allocation fails although the store could be emptied for it | 1 thread |
| `hash_table` | every key is found, the load is right, no freed array is used, growth and shifts lose nothing | 2 threads, 6 keys in wrapping clusters, one growth 6 to 12 slots |
| `session` | the base file is intact, a copy survives, no edit is lost but by cancellation, unsaved edits are flagged unless a native write failed, done means saved, every request is answered | 2 drawings on one page, 1 blank page, 2 destinations, 2 requests, 1 rotation, all four failures |
| `session_stop` | violation: a drawing still queued when the application stops is not saved | no failures |
| `xref` | the index overlooks no change, numbers are not used twice, lookups find the last change, signed versions and the file keep what they promise (`Revisions`) | 4 objects, 3 edits, 2 increments, 1 save that may fail and be repeated, files of one or two sections with tables or streams |
| `xref_twice` | violation: with three increments the object of the second signature is written as free | 3 increments, one save |
| `views` | no ink is lost or put on another page but as the history variables say, lists match and catch up, the only death on a released view is the known one | 3 pages, 3 views, 4 strokes, 3 acts of the user, or 6 of which 4 follow a scenario, Undo once |
| `page_cache` | edits land on their page, lists are current, every change of a shown picture is still known or was lost in one of the ways named | 3 pages, 2 slots, 2 annotations (symmetric: no action tells them apart), both targets of page 0 |
| `glyph_cache` | one entry for each key, exact counts and total, and every caller gets the glyph of the font it asked for | 2 threads, 2 addresses of fonts with 2 fonts each, 5 keys, room for 2, drawings nested twice |

Why the bounds are enough. Store: with two threads and four objects every pair
of calls overlaps in every way, the list gets long enough for a predecessor to
be pinned while another thread moves, finds or evicts it, and an item as large as the store
forces more than one eviction. Hash table: six keys of which three share a home
and the cluster wraps around the end; the second array takes all of them.
Session: two requests are enough for a save after a save, after an export or
after a failure, for a save to another destination (a second temporary file and
the deletion of the first) and for two saves in the queue; two drawings on one
page give the cancellation. Xref: three edits are a change, a signature and a
change after it, in every order, on a file that already hides one section with
another; a failed save and a second one come in between. Views: three acts are
an edit, a page turned and an edit on the next page while the tasks of the first
are queued; a third page makes a view that is released and used again. Two
lists under way for one view, which need a drawing whose task is overtaken, are
beyond three acts; so the run also takes those behaviours of six acts that begin
like that (`Scenario` in `MCPageViews`, an action constraint that only ever
holds back the user). In them the list of one page is shown on the view of
another, and the user deletes and edits from it. Page
cache: with two slots for three pages every slot is evicted by either neighbour,
as with three slots for more pages; two annotations let an update stop between
two rectangles. Glyph cache: two small glyphs fill it and a third evicts both;
the same glyph can be drawn by both threads and by one within itself; the second
font at an address meets the entries of the first. Four glyphs are as many as
two entries and two callers can hold.

Deadlock is checked for the store, the hash table, `Xref` and the two caches.
The session and the views may stop: the user need not do anything, the bounds on
requests and acts end it, and the application may die.

Fairness. `Store!FairSpec` has weak fairness of each thread's own steps inside a
call: a thread that can run is run. It is used with one thread, where it says
that the loops end; with several threads, `CallsReturn` would depend on the
scheduler, as a waiting thread may be overtaken for ever. `Session!FairSpec` has
weak fairness of the background thread, which the system's executor runs; what
the user does is not fair. `PageViews!Spec` has weak fairness of the background
thread and of the delivery of finished tasks, which Android's executor and
looper serve in order.

## 4. What the runs found

The four violations are listed in `PROJECT.json` under `findings` with the
lines and the sentences of the repository they contradict:

1. `fz_remove_item` does not take the removed item's size off the store's.
2. `fz_store_scavenge` skips exactly the phases in which something would have to
   be evicted (an inverted comparison at store.c:597).
3. Auto save on stop looks for changes before queued drawings have been added.
4. When three increments are written in one save, the list of used objects loses
   an object of a newer increment that the oldest one has as a free entry, and
   it is written as free.

More weaknesses show in the models but contradict no statement that a run could
be set against; each is a value of a history variable or an outcome of an action:

* A save whose native write fails clears the change flag (MuPDFCore.java:545);
  an appended page, or any edit after an export, is then unsaved and not flagged.
  That is why `FlaggedUnlessWriteFails` leaves failed writes out.
* Accepting a second drawing on a page, or scrolling it away, cancels the task
  of the first if it is still queued, and the drawing is lost (`dropped`).
* A save of an unchanged document that fails while copying leaves a broken
  destination and no change flag.
* A deletion by an index that is out of date deletes another annotation
  (`misled`); a second deletion cancels a first that has not begun.
* A task that adds a drawing and the UI thread may both load the annotations of
  a view; the one loader overwrites the other in `mLoadAnnotationsTask`
  (PageView.java:866), which nobody can cancel any more. When the view is then
  used for another page it shows the list of the first for a while, and what the
  user taps there is deleted or edited on the wrong page (`misled`).
* The task that adds a drawing loads the annotations from the background thread
  and dies on a view that was released meanwhile (`crashed = "size"`, `late`;
  MuPDFPageView.java:683); editing a selected annotation while the list is being
  replaced dies as well (`crashed = "list"`, MuPDFPageView.java:624).
* Accepting a drawing from which everything was erased adds an empty annotation.
* A failed write leaves the table in disorder (`trust`).
* A drawing is painted into the patch when it is accepted; when its task is
  cancelled it stays on the screen, and is not in the document (`lost`).
* A report of changes that throws half way is not made again for the annotations
  it had got to: they are not repainted (`lost`).
* A page with outstanding changes is evicted by other visits, or closed by a
  save, and loaded again: the picture keeps what it shows (`lost`).
  `include/mupdf/pdf/document.h` (136-141) warns of exactly this: "If instead
  the app were to drop the page and reload it then a call to pdf_update_page
  would not reliably be able to report all changed areas."
* A thumbnail of page 0 takes the changed rectangles of its patch or page.
* An update of a page that is not cached paints the whole bitmap and forgets the
  rectangles first; when it is stopped the picture stays half painted.

## 5. Proofs

The theorems hold for every value of the constants that the module's assumption
allows: any number of threads, keys, pages or object numbers, any sizes and any
bounds. Each component's safety properties follow from one inductive invariant,
`IInv`, in its module of proofs; those of the page views from five that build on
each other, in a module of their own. An invariant is written as named conjuncts, each action is a lemma
that shows it keeps them, and TLC has checked every one on the passing instances
of section 3 (that of `HashTable` without the conjunct that speaks of arrays of
every length). `ListLemmas` has the facts about sequences (removing, prepending,
counting places) that the proofs share.

### StoreProofs

`TypeOK`, `RefsExact`, `HashMatchesList`, `PinnedStaysLinked`,
`NothingDroppedIsReachable` and `NoFreedItemIsUsed`, from `StoreAssumption`
(constants have their types, sizes are positive) and `SerialClear`.

None of the properties is inductive alone: that a pinned item stays linked needs
its count to be at least two, which needs the exact counts, which need that an
object is in the list once, which needs that the item being added is not yet
there, which needs that every object is given to the store at most once. The
conjuncts:

* `TypeOK`, and that the list has no repetition (`NoRepeat`);
* `CallsOK`: which locals are set at which `pc`, in particular that a pin is
  held only while an eviction runs;
* `AloneOK`: during a removal or emptying no other thread is inside the store;
* `OwnerOK`: an object is being added by one thread at most, which holds a
  reference to it;
* `PlaceOK`: an object being added is either only in the hash or already linked
  because it was found;
* `ItemOK` and `LifeOK`: what the states of item and object say about where it
  can be found;
* `HashMatchesList` and `RefsExact`.

From the same invariant:

* `StoreImplementsCache`: the store implements `Cache` (`ImplementsCache`).
  Every step maps to a step of the cache or to a stutter; `CachedObjs`, the
  items in the list or on their way there, is the refinement mapping.
* `SpaceIsMadeFromUnused`: the action property `SpaceFromUnusedOnly`.
* `SizeIsTotal`: `SizeIsListed`, if nothing is ever removed (`Removable = {}`).
  The hypothesis is exact: `fz_remove_item` leaves the size as it was, and run
  `store_leak` shows it.
* `OneThreadKeepsBudget`: `BudgetKept` for a single thread. With two threads the
  property is false, in two ways. An addition that finds its item already linked
  by somebody else is let in over budget, as a comment of `fz_store_item` says.
  And `fz_store_item` reads the store's size once, before its loop, and goes on
  with that value although `ensure_space` has given up the lock: what another
  thread adds meanwhile is not counted, and both are linked. TLC finds the second
  way on the instance of `store_shared`; `BudgetKept` is checked by `store_single`
  for this reason.

`SizeIsListed` speaks of a sum over the list. The sum is a fold of the community
modules, defined by recursion on sets, and induction over data is out of the
provers' reach as a rule that takes a predicate. `ListLemmas` goes another way: the
step of the fold and the choice of the next element are constants of the module,
and its lemmas (that the fold exists, that two folds agree, the equations for the
empty set and for one element more, an invariant along a sequence) are proved by
taking a counterexample of the least size. A module of proofs takes them for its
own sum with `INSTANCE ListLemmas WITH Op <- ..., Pick <- ...`.

### HashTableProofs

`TypeOK`, `Findable`, `LoadCounts` and the action property
`OnlyCallsChangeContents`, from `HashTableAssumption`. The invariant:

* `Shapes` and `Frames`: arrays and sizes, and what a thread's locals are at
  each `pc`;
* `FreedOK`: an array that is being copied from has not been freed;
* `Runs`: no key is in two slots, and the way of a probe to every key is
  unbroken. During a removal it is unbroken but for the hole, which keys not
  passed yet may be behind (`UnbrokenBut`); a probe under way has not met its
  key; a copy has what it has passed;
* `Loads`: the load is the number of occupied slots, and the load with the
  insertions that have already looked at it stays below the size. This is where
  the number of threads comes in.

The heart is the arithmetic of the way around the end of the array (`OnWay`, and
the lemmas `MoveKey`, `KeepKey` and `HoleCloses`): moving an entry back into the
hole keeps every other run.

### SessionProofs

`TypeOK`, `BaseOnDisk`, `ACopySurvives`, `NoEditIsLost`,
`FlaggedUnlessWriteFails` and `DoneMeansSaved`, from `SessionAssumption`, for any
set of calls that may fail. The properties speak of the document, which is
closed in the middle of a save; the invariant follows the edits through the
stages (`Content`: the document, what has been written, or the temporary file
that is opened next).

* `Typed` and `Stages`: types, and which file the document is at each stage;
* `BaseOnDisk` and `ContentOK`: while a save is under way, too;
* `SavedInContent` and `CopyKept`: all that has been saved is still in the
  document, and in the destination or the temporary file of its name;
* `EditsKept`: every accepted edit is in the content, in the queue or dropped;
* `OwedKept`: what a request owes is in the content or ahead of it in the queue;
* `Flagged`: which stage of a save has which of the two flags.

### GlyphCacheProofs

`TypeOK`, `CacheInOrder`, `CountsExact` and `GlyphsAreTheirs`, from
`GlyphCacheAssumption`. What happens under the lock is an operator on a record
of the state, so most lemmas are about such records: `CacheGood` holds between
any two evictions of one insertion. Evicting and purging are folds over the list
of entries; `FoldSequenceKeeps` of `ListLemmas` carries `CacheGood` along them, and
counts and the total change by the entry that is taken out.

### PageViewsProofs

`TypeOK`, `DiesOnlyOfLateLoad`, `InkOnItsPage`, `InkIsKept` and
`ListsMatchDocument`, from `PageViewsAssumption`: any file, any pages, any number
of views of at least three, any numbers of strokes and of acts. The handlers are
operators on a record of the state (`Now`), so most lemmas are about such records,
and an action is the composition of a few of them: `Edited` for what a handler of
an edit leaves alone, `Begun` for a task that is put in the queue, `Relisted` for
loading a list again, `Creation` and `Removal` for the life of a view,
`LayoutKeeps` for a layout, which sets some views to pages and releases others.

The proof has five parts, each about an invariant of module `PageViewsInvariant`.
Each takes the ones before it as given.

* `TasksInv`: which tasks can exist for which view (`Distinct`, `Placed`,
  `Around`, `Remembered`, `ReloadKnown`). Every task has an id of its own, a view
  is in one place and blank while it waits, and a task that is not cancelled is
  one its view remembers, on the screen if it loads a list, unless a list was
  loaded `late`. `TypeOK` and `DiesOnlyOfLateLoad` follow.
* `InkInv`: every piece of ink, in a view, a task or the document, is on the page it
  was drawn on or `misled`; only the selected view is drawn on. `InkOnItsPage`
  follows.
* `DatedInv`: a list or a selection made since the last deletion on its page
  agrees with the document up to its own length, because annotations are only
  added at the end, and lists are delivered in the order they were made. This is
  what makes an index into such a list safe.
* `KeptInv`: each stroke drawn so far is in the document, in a view, in a task
  that will add it, or excused by a history variable; and what a deletion under
  way will hit (`Deletes`) is safe elsewhere or excused (`WaitsIn`). `InkIsKept`
  follows: the history variables name all the ways in which ink goes astray.
* `ListInv`: the list of a view on the screen is right, or the last one that will
  be delivered to it is, or a task to come will load it (`Covered`). The difficult
  case is a task whose view was released before it reads the number of the page:
  it reads page 0 and edits that. The list of page 0 is right all the same,
  because the task that loads it for another view is still behind in the queue
  (`FirstAhead`, `AtCore`), and a deletion that is given up is followed by another
  that loads the list (`Replaced`). `ListsMatchDocument` follows.

`ListsMatchDocument` says that the lists are right when nothing is left to do.
That this comes about, `ListsCatchUp`, needs fairness and stays with TLC.

### PageCacheProofs

`TypeOK`, `ListsAreCurrent` and `ChangesTracked`, from `PageCacheAssumption`.
Here the three together are inductive (`IInv`): that a picture's changes stay
pending needs that a page is in one slot, and that an update repaints a page's
own state needs that the list is current. The lemmas are about the slot that
`gotoPageInternal` chooses (`SlotForSlot`, `GotoPageOrdered`; that some slot is
furthest away, `FurthestExists`, rests on the strict subsets of a finite set
being well-founded), about what is pending when one slot changes (`PendingOf`,
`PendingElsewhere`), and about the outcomes of recording (`RecordSlot`) and of
reports that end half way (`FailedSlot`, `FailSlots`); then one lemma for each
action. What a picture shows ahead of its document counts as outstanding here:
`ChangesTracked` is about `Pending` and `Ahead` together.

### XrefProofs

`TypeOK`, `NoNewerEntry`, `NumbersNotReused`, `FindsLastChange` and the refinement
`KeepsRevisions`, from `XrefAssumption`. The invariant:

* `TableOK`, of five parts: `Shaped` (bounds of the sections, the base and the
  index), `Measured` (an entry lies within its section and within
  `max_xref_len`), `Indexed` (above the section the index names there is no
  object, and in the increments no entry at all), `NotRevived` (an object that
  a section has freed comes back in no newer one) and `Oldest` (the oldest
  section has no gaps);
* `FileOK` and `Loaded`: the same for the file, and that the sections of the file are
  still the bottom of the table;
* `Writing` and `OutOK` while a save is under way: the copy consists of the file
  and of the increments written so far, each entry as the writer found it
  (`Copied`); `Idle` otherwise;
* `Found`: the newest entry of each object holds what the object was last set to.

`FindsLastChange` is proved for `MaxIncrements <= 2`. The bound is exact, since
run `xref_twice` shows a violation with three. `Copied` and `Found` say what
remains in general, an object that is missing, and `SpecNothingStale` follows
for any number of increments: an object may be lost by a save but never shows
what it was before its last change. `Chain` is a recursive function; that it
yields the sections of a well-formed file from the newest to the oldest
(`ChainIs`) is proved by a least counterexample, as in `ListLemmas`.

`SpecKeepsRevisions`: the table, its sections and the file implement `Revisions`
(`KeepsRevisions`), again for `MaxIncrements <= 2`, because a version that has
lost an object is not the one that was signed. A version is a suffix of the
sections of a table or a prefix of those of a file, and two of them are the same
if their entries agree in type and value (`SameAt`, `SameFrom`, `StoredFrom`).
What an edit does to the sections is one relation, `Grown`: it puts at most one
new section on top and leaves the entries below the top one alone, apart from
the place of their streams. From it follow that an edit reaches no signed version
(`GrownSigned`) and that a signature adds exactly one (`MarkSigned`). A saved
file has the entries of all sections (`OutVersion`). Besides `IInv` this needs
`Layered`: every increment under the top one has been signed, which the mapping
counts on (`Sealed`), and a document that a failed save has left closed to new
sections and that can still be trusted has one increment, not signed. Looking
up, starting a save and writing an increment are stutters; `WroteVersion` says
that the object of a cross-reference stream is no part of a version.

### What the proofs changed

The attempts showed assumptions that TLC's instances had met by chance, and they
are stated now: the number of threads of the hash table, the finiteness of
`Threads` in both tables, and that the tokens of `Session` and `Xref` differ
from the values they stand beside (the latter are about the encoding, not the
code). `PageViews` had one file to begin with, where any can be opened now
(`Saved`), and released views one after the other by a recursion that no lemma
could be stated about. In `Session` a cancellation takes exactly one task out of the queue, and
`TypeOK` of `GlyphCache` now says which contents a glyph can show.

### Only model-checked

Liveness (`CallsReturn`, `RequestsAnswered`, `ListsCatchUp`) under the fairness of
section 3 is out of TLAPS's reach. Every other property that a passing run checks
is a theorem as well. `SizeIsListed` with removals under way and `BudgetKept` with
more threads than one are false and not claimed.

## 6. Plan

In this order.

1. `ErrorStack`: try/always/catch with the reserved slot, on which the lock of
   the glyph cache depends.
2. `Session` extended by opening another document, `onDestroy` and the viewport.
3. `Search`, `RecentFiles`: small modules, possibly with one run.

## 7. Not modelled, and why

Alerts between document scripts and the user interface are switched off: the
calls that would start them are commented out (PenAndPDFActivity.java:1073-1074,
"sometimes make the native code lock up"), and without them the native side
returns no alert. Rendering, fonts, images, colour, encryption and filters are
numerics and data. The interpreter and the parsers are sequential and large;
their interesting properties are about input, not about order. Other document
formats and the desktop programs do not take part in editing. User interface
layout and gestures are geometry. Preferences and choosers keep no state that a
property is about. Most of the lines of the repository are of these kinds, so
that the share of all lines that the modules map stays small.
