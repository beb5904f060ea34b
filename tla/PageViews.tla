----------------------------- MODULE PageViews -----------------------------
(***************************************************************************)
(* The pages on the screen and the annotations drawn on them (ReaderView,  *)
(* MuPDFReaderView, PageView and MuPDFPageView of the application).        *)
(*                                                                         *)
(* The current page and its neighbours have a view each; a view that is    *)
(* scrolled out is released and used again for another page.  Views read   *)
(* and change the annotations of the document in tasks: AsyncTask runs     *)
(* them one after the other on a background thread and then calls          *)
(* onPostExecute on the UI thread, unless the task has been cancelled.     *)
(* Every handler of the UI thread is one step.  A task is several: it      *)
(* reads the number of its view's page, has the core (one call under its   *)
(* monitor) and, if it adds a drawing, loads the annotations again.        *)
(*                                                                         *)
(* Pages are numbered from 0, annotations of a page from 1.  A drawing and *)
(* an annotation are a set of strokes, the points of a stroke are left     *)
(* out.  Only ink annotations are modelled; markup and text take the same  *)
(* path.  The tasks for links, text, widgets and bitmaps touch nothing of  *)
(* this, they only make the others wait.                                   *)
(***************************************************************************)
EXTENDS Integers, FiniteSets, SequencesExt

CONSTANTS NumPages,    \* the number of pages
          Saved,       \* the annotations of each page in the file
          Views,       \* the page views
          None,
          MaxStrokes,  \* bound: the strokes there ever are
          MaxHistory,  \* bound: how often Undo can be used
          Budgets      \* bounds: how often the user turns a page or edits

Pages == 0..NumPages - 1
Strokes == 1..MaxStrokes
Kinds == {"loader", "ink", "del"}

StrokesOf(seq) == UNION Range(seq)

(* A list of annotations that was loaded; an annotation that was selected   *)
(* from one, at which place; the fields of a view.                         *)
Lists == [of : Pages, list : Seq(SUBSET Strokes), deletions : Nat]
Selections == [at : Nat, annot : SUBSET Strokes, of : Pages, since : Nat]
Fields == [page : Pages, sized : BOOLEAN, annots : Lists \cup {None},
           sel : Selections \cup {None}, drawing : {None} \cup SUBSET Strokes,
           history : Seq(SUBSET Strokes), loader : Nat, ink : Nat, del : Nat]

(* A task that waits to be started, one on the background thread, and one   *)
(* that has its result.                                                    *)
Jobs ==
  [id : Nat, kind : {"loader"}, view : Views, what : {None}]
  \cup [id : Nat, kind : {"ink"}, view : Views, what : SUBSET Strokes]
  \cup [id : Nat, kind : {"del"}, view : Views, what : Selections]
Started ==
  [id : Nat, kind : {"loader"}, view : Views, what : {None},
   step : {"read"}, page : {0}, from : Pages]
  \cup [id : Nat, kind : {"ink"}, view : Views, what : SUBSET Strokes,
        step : {"read", "core", "clear", "reload"}, page : Nat, from : Pages]
  \cup [id : Nat, kind : {"del"}, view : Views, what : Selections,
        step : {"read", "core"}, page : Nat, from : Pages]
Results ==
  [id : Nat, kind : {"loader"}, view : Views, what : Lists]
  \cup [id : Nat, kind : {"del"}, view : Views, what : {None}]

ASSUME PageViewsAssumption ==
  /\ NumPages \in Nat \ {0} /\ MaxStrokes \in Nat
  /\ MaxHistory \in Nat /\ Budgets \subseteq Nat
  /\ IsFiniteSet(Views) /\ Cardinality(Views) >= 3
  /\ Saved \in [Pages -> Seq(SUBSET Strokes)]
  /\ \A p, q \in Pages : p # q => StrokesOf(Saved[p]) \cap StrokesOf(Saved[q]) = {}
  /\ \E n \in 0..MaxStrokes : 1..n = UNION {StrokesOf(Saved[p]) : p \in Pages}
  /\ None \notin Views /\ (\A S \in SUBSET Strokes : S # None)
  /\ None \notin Lists /\ None \notin Selections /\ None \notin Started
  /\ None \notin {"size", "list"}

VARIABLES
  doc,        \* the annotations of each page
  deletions,  \* how many of each page have been deleted
  cur, mode,  \* mCurrent; the mode of the reader view and the action bar
  views,      \* the fields of each view, see FreshView
  child,      \* mChildViews: the view of a page
  spare,      \* mViewCache
  queue,      \* the tasks that have not been started
  running,    \* the task on the background thread, with its step, or None
  posts,      \* the tasks that wait for the UI thread to finish them
  cancelled,  \* the tasks that have been cancelled
  crashed,    \* what the application has died of
  acts, drawn, home,        \* what is left of the budget; strokes, their pages
  wished, dropped, misled, late \* history, see the properties

uivars == <<views, child, spare, queue, cancelled>>
histories == <<wished, dropped, misled, late>>
vars == <<uivars, doc, deletions, cur, mode, running, posts, crashed,
          acts, drawn, home, histories>>

FreshView == [page |-> 0, sized |-> FALSE, annots |-> None, sel |-> None,
              drawing |-> None, history |-> <<>>,
              loader |-> 0, ink |-> 0, del |-> 0]

---------------------------------------------------------------------------
(* What the handlers do to the fields of the views and to the tasks.       *)

Now == [views |-> views, child |-> child, spare |-> spare,
        queue |-> queue, cancelled |-> cancelled]
Becomes(s) == /\ views' = s.views /\ child' = s.child /\ spare' = s.spare
              /\ queue' = s.queue /\ cancelled' = s.cancelled

Alive(s) == {t.id : t \in Range(s.queue) \cup Range(posts)}
            \cup (IF running = None THEN {} ELSE {running.id})

Cancel(s, ids) == [s EXCEPT !.cancelled = @ \cup (ids \cap Alive(s))]

(* A task that is executed, and where its view remembers it.               *)
Execute(s, v, field, t) ==
  LET used == Alive(s) \cup {s.views[w].loader : w \in Views}
              \cup {s.views[w].ink : w \in Views}
              \cup {s.views[w].del : w \in Views}
      id   == Min((1..Cardinality(used) + 1) \ used)
  IN  [s EXCEPT !.views[v] = [@ EXCEPT ![field] = id],
                !.queue = Append(@, [id |-> id, kind |-> field, view |-> v,
                                     what |-> t])]

LoadAnnotations(s, v) ==
  LET c == Cancel(s, {s.views[v].loader})
  IN  Execute([c EXCEPT !.views[v].annots = None], v, "loader", None)

(* Mutant: the annotations that are being loaded will still be shown.      *)
ResetKeepsLoader(s, S) ==
  [s EXCEPT !.views = [v \in Views |->
     IF v \in S
     THEN [s.views[v] EXCEPT !.loader = 0, !.page = 0, !.sized = FALSE]
     ELSE s.views[v]]]

(* What becomes of views that are blanked, and of those that are released.  *)
Reset(s, S) ==
  [Cancel(s, {s.views[v].loader : v \in S}) EXCEPT
     !.views = [v \in Views |->
       IF v \in S
       THEN [s.views[v] EXCEPT !.loader = 0, !.page = 0, !.sized = FALSE]
       ELSE s.views[v]]]

(* Mutant: the task that adds a drawing is left in the queue.              *)
ReleaseKeepsInk(s, S) ==
  LET c == Reset(Cancel(s, {s.views[v].del : v \in S}), S)
  IN  [c EXCEPT !.views = [v \in Views |->
         IF v \in S
         THEN [c.views[v] EXCEPT !.ink = 0, !.del = 0,
                                 !.drawing = None, !.history = <<>>]
         ELSE c.views[v]]]

ReleaseResources(s, S) ==
  LET c == Reset(Cancel(s, UNION {{s.views[v].ink, s.views[v].del} : v \in S}), S)
  IN  [c EXCEPT !.views = [v \in Views |->
         IF v \in S
         THEN [c.views[v] EXCEPT !.ink = 0, !.del = 0,
                                 !.drawing = None, !.history = <<>>]
         ELSE c.views[v]]]

(* Mutant: the annotations of the view are kept.                           *)
SetPageKeepsList(s, v, p) ==
  [Reset(s, {v}) EXCEPT !.views[v] = [@ EXCEPT !.page = p, !.sized = TRUE]]

SetPage(s, v, p) ==
  LoadAnnotations([Reset(s, {v}) EXCEPT
                     !.views[v] = [@ EXCEPT !.page = p, !.sized = TRUE]], v)

(* The views are released in the order of their pages.                      *)
Ascending(S) ==
  CHOOSE q \in [1..Cardinality(S) -> S] :
    \A i, j \in 1..Cardinality(S) : i < j => q[i] < q[j]

RemoveSuperfluous(s, c) ==
  LET far == {p \in Pages : s.child[p] # None /\ (p + 1 < c \/ p > c + 1)}
      old == [i \in 1..Cardinality(far) |-> s.child[Ascending(far)[i]]]
  IN  [ReleaseResources(s, {s.child[p] : p \in far}) EXCEPT
         !.spare = @ \o old,
         !.child = [p \in Pages |-> IF p \in far THEN None ELSE s.child[p]]]

(* Mutant: the view is not taken out of the cache.                         *)
CreateKeepsSpare(s, p) ==
  LET unused == Views \ (Range(s.child) \cup Range(s.spare))
      v == IF s.spare # <<>> THEN Head(s.spare)
           ELSE CHOOSE w \in unused : TRUE
      r == IF s.spare # <<>> THEN s ELSE [s EXCEPT !.views[v] = FreshView]
  IN  IF s.child[p] # None THEN s
      ELSE SetPage([r EXCEPT !.child[p] = v], v, p)

GetOrCreateChild(s, p) ==
  LET unused == Views \ (Range(s.child) \cup Range(s.spare))
      v == IF s.spare # <<>> THEN Head(s.spare)
           ELSE CHOOSE w \in unused : TRUE
      r == IF s.spare # <<>> THEN [s EXCEPT !.spare = Tail(@)]
           ELSE [s EXCEPT !.views[v] = FreshView]
  IN  IF s.child[p] # None THEN s
      ELSE SetPage([r EXCEPT !.child[p] = v], v, p)

OnLayout(s, c) ==
  LET here == GetOrCreateChild(RemoveSuperfluous(s, c), c)
      left == IF c > 0 THEN GetOrCreateChild(here, c - 1) ELSE here
  IN  IF c + 1 < NumPages THEN GetOrCreateChild(left, c + 1) ELSE left

---------------------------------------------------------------------------
(* The UI thread: what the user does.                                      *)

Up == crashed = None
Selected == child[cur]
V == views[Selected]
Act == acts > 0 /\ acts' = acts - 1
SetV(f, x) == views' = [views EXCEPT ![Selected] = [@ EXCEPT ![f] = x]]

Quiet == UNCHANGED <<doc, deletions, running, posts, home>>
OnlyView == /\ Quiet
            /\ UNCHANGED <<child, spare, queue, cancelled, cur, crashed, acts,
                           dropped, misled, late>>

(* setDisplayedViewIndex or a swipe, and the layout that follows.  Drawings *)
(* that wait to be added are given up with the view of their page.         *)
Unstarted(s, v) == UNION {t.what : t \in {q \in Range(s.queue) :
                            /\ q.kind = "ink" /\ q.view = v
                            /\ q.id \notin s.cancelled}}
MoveTo(p) ==
  /\ Up /\ mode # "Drawing" /\ p # cur /\ Act
  /\ LET off == [Now EXCEPT !.views[Selected].sel = None]
         s   == OnLayout(off, p)
     IN  /\ Becomes(s)
         /\ dropped' = dropped \cup
              UNION {Unstarted(Now, child[q]) : q \in {r \in Pages :
                       child[r] # None /\ s.child[r] # child[r]}}
  /\ cur' = p /\ mode' = "Viewing"
  /\ Quiet /\ UNCHANGED <<crashed, drawn, wished, misled, late>>

(* passClickEvent hits an annotation of the list the view has.             *)
Tap ==
  /\ Up /\ mode # "Drawing" /\ V.annots # None
  /\ \E i \in DOMAIN V.annots.list :
       SetV("sel", [at |-> i, annot |-> V.annots.list[i],
                    of |-> V.annots.of, since |-> V.annots.deletions])
  /\ mode' = "Edit"
  /\ OnlyView /\ UNCHANGED <<drawn, wished>>

Deselect ==
  /\ Up /\ mode = "Edit"
  /\ SetV("sel", None) /\ mode' = "Viewing"
  /\ OnlyView /\ UNCHANGED <<drawn, wished>>

DeleteSelected(s) ==
  Execute([Cancel(s, {V.del}) EXCEPT !.views[Selected].sel = None],
          Selected, "del", V.sel)

DeleteSelectedAnnotation ==
  /\ Up /\ mode = "Edit" /\ V.sel # None /\ Act
  /\ Becomes(DeleteSelected(Now))
  /\ mode' = "Viewing"
  /\ wished' = wished \cup V.sel.annot
  /\ Quiet /\ UNCHANGED <<cur, crashed, drawn, dropped, misled, late>>

(* The selected annotation becomes the drawing.  The list may have gone or *)
(* changed since it was selected; it may be that of another page.          *)
EditSelectedAnnotation ==
  /\ Up /\ mode = "Edit" /\ V.sel # None /\ Act
  /\ IF V.annots # None /\ V.sel.at \in DOMAIN V.annots.list
     THEN /\ Becomes([DeleteSelected(Now) EXCEPT
                        !.views[Selected].drawing = V.annots.list[V.sel.at]])
          /\ mode' = "Drawing" /\ UNCHANGED crashed
          /\ misled' = misled
               \cup (IF V.annots.of = V.sel.of THEN {} ELSE V.sel.annot)
               \cup (IF V.annots.of = V.page THEN {}
                     ELSE V.annots.list[V.sel.at])
     ELSE /\ crashed' = "list"
          /\ UNCHANGED <<uivars, mode, misled>>
  /\ Quiet /\ UNCHANGED <<cur, drawn, wished, dropped, late>>

Draw ==
  /\ Up /\ mode = "Viewing"
  /\ mode' = "Drawing"
  /\ OnlyView /\ UNCHANGED <<views, drawn, wished>>

Drawing == IF V.drawing = None THEN {} ELSE V.drawing

Stroke ==
  /\ Up /\ mode = "Drawing" /\ drawn < MaxStrokes
  /\ Len(V.history) < MaxHistory
  /\ views' = [views EXCEPT ![Selected].history = <<Drawing>> \o @,
                            ![Selected].drawing = Drawing \cup {drawn + 1}]
  /\ drawn' = drawn + 1
  /\ home' = [home EXCEPT ![drawn + 1] = cur]
  /\ UNCHANGED <<doc, deletions, running, posts, child, spare, queue,
                 cancelled, cur, mode, crashed, acts, histories>>

(* Mutant: what is erased is not kept for Undo.                            *)
EraseForGood(S) ==
  /\ Up /\ mode = "Drawing" /\ S \subseteq Drawing
  /\ Len(V.history) < MaxHistory
  /\ views' = [views EXCEPT ![Selected].drawing = IF @ = None THEN @ ELSE @ \ S]
  /\ OnlyView /\ UNCHANGED <<mode, drawn, wished>>

Erase(S) ==
  /\ Up /\ mode = "Drawing" /\ S \subseteq Drawing
  /\ Len(V.history) < MaxHistory
  /\ views' = [views EXCEPT
       ![Selected].history = <<Drawing>> \o @,
       ![Selected].drawing = IF @ = None THEN @ ELSE @ \ S]
  /\ OnlyView /\ UNCHANGED <<mode, drawn, wished>>

UndoDraw ==
  /\ Up /\ mode = "Drawing" /\ V.history # <<>>
  /\ views' = [views EXCEPT ![Selected].drawing = Head(V.history),
                            ![Selected].history = Tail(V.history)]
  /\ wished' = wished \cup (Drawing \ StrokesOf(V.history))
  /\ OnlyView /\ UNCHANGED <<mode, drawn>>

CancelDraw ==
  /\ Up /\ mode = "Drawing"
  /\ views' = [views EXCEPT ![Selected].drawing = None,
                            ![Selected].history = <<>>]
  /\ mode' = "Viewing"
  /\ wished' = wished \cup Drawing \cup StrokesOf(V.history)
  /\ OnlyView /\ UNCHANGED drawn

(* Accepting a drawing gives up the one before it if it still waits.  What *)
(* can only be had by Undo goes.                                           *)
SaveDraw ==
  /\ Up /\ mode = "Drawing" /\ Act
  /\ mode' = "Viewing"
  /\ IF V.drawing = None
     THEN UNCHANGED <<uivars, wished, dropped>>
     ELSE /\ Becomes(Execute([Cancel(Now, {V.ink}) EXCEPT
                                !.views[Selected].drawing = None,
                                !.views[Selected].history = <<>>],
                             Selected, "ink", V.drawing))
          /\ wished' = wished \cup (StrokesOf(V.history) \ V.drawing)
          /\ dropped' = dropped \cup Unstarted(Now, Selected)
  /\ Quiet /\ UNCHANGED <<cur, crashed, drawn, misled, late>>

(* Mutant: the list is not loaded again after a deletion.                  *)
DeliverOnlyLists ==
  /\ Up /\ posts # <<>>
  /\ posts' = Tail(posts)
  /\ LET t == Head(posts)
         s == [Now EXCEPT !.cancelled = @ \ {t.id}]
     IN  IF t.id \in cancelled \/ t.kind = "del"
         THEN Becomes(s) /\ UNCHANGED crashed
         ELSE /\ Becomes([s EXCEPT !.views[t.view].annots = t.what])
              /\ crashed' = IF views[t.view].sized THEN None ELSE "size"
  /\ UNCHANGED <<doc, deletions, cur, mode, running, acts, drawn, home,
                 histories>>

(* onPostExecute.                                                          *)
Deliver ==
  /\ Up /\ posts # <<>>
  /\ posts' = Tail(posts)
  /\ LET t == Head(posts)
         s == [Now EXCEPT !.cancelled = @ \ {t.id}]
     IN  IF t.id \in cancelled THEN Becomes(s) /\ UNCHANGED crashed
         ELSE IF t.kind = "del"
         THEN Becomes(LoadAnnotations(s, t.view)) /\ UNCHANGED crashed
         ELSE /\ Becomes([s EXCEPT !.views[t.view].annots = t.what])
              /\ crashed' = IF views[t.view].sized THEN None ELSE "size"
  /\ UNCHANGED <<doc, deletions, cur, mode, running, acts, drawn, home,
                 histories>>

---------------------------------------------------------------------------
(* The background thread.                                                  *)

NotUI == UNCHANGED <<child, spare, cur, mode, crashed, acts, drawn, home, wished,
                     dropped>>
To(step) == running' = [running EXCEPT !.step = step]

Start ==
  /\ Up /\ running = None /\ queue # <<>>
  /\ queue' = Tail(queue)
  /\ LET t == Head(queue)
     IN  IF t.id \in cancelled
         THEN cancelled' = cancelled \ {t.id} /\ UNCHANGED running
         ELSE /\ running' = [id |-> t.id, kind |-> t.kind, view |-> t.view,
                             what |-> t.what, step |-> "read", page |-> 0,
                             from |-> views[t.view].page]
              /\ UNCHANGED cancelled
  /\ UNCHANGED <<views, doc, deletions, posts, misled, late>> /\ NotUI

ReadPage ==
  /\ Up /\ running # None /\ running.step = "read" /\ running.kind # "loader"
  /\ running' = [running EXCEPT !.step = "core",
                                !.page = views[running.view].page]
  /\ UNCHANGED <<views, queue, cancelled, doc, deletions, posts, misled, late>>
  /\ NotUI

Finish(result) ==
  /\ running' = None
  /\ posts' = Append(posts, [id |-> running.id, kind |-> running.kind,
                             view |-> running.view, what |-> result])

(* Only tasks change the document, so the page number may be read here.    *)
GetAnnotations ==
  /\ Up /\ running # None /\ running.kind = "loader"
  /\ LET p == views[running.view].page
     IN  Finish([of |-> p, list |-> doc[p], deletions |-> deletions[p]])
  /\ UNCHANGED <<views, queue, cancelled, doc, deletions, misled, late>>
  /\ NotUI

(* The core deletes the annotation at an index.  It may be another one if  *)
(* the list it was found in was made before the last deletion, or was that *)
(* of another page.                                                        *)
DeleteAnnotation ==
  /\ Up /\ running # None /\ running.step = "core" /\ running.kind = "del"
  /\ LET p == running.page
         i == running.what.at
     IN  IF i \in DOMAIN doc[p]
         THEN /\ doc' = [doc EXCEPT ![p] = RemoveAt(@, i)]
              /\ deletions' = [deletions EXCEPT ![p] = @ + 1]
              /\ misled' = IF running.what.since = deletions[p]
                              /\ running.what.of = p
                           THEN misled ELSE misled \cup doc[p][i]
         ELSE UNCHANGED <<doc, deletions, misled>>
  /\ Finish(None)
  /\ UNCHANGED <<views, queue, cancelled, late>> /\ NotUI

AddInkAnnotation ==
  /\ Up /\ running # None /\ running.step = "core" /\ running.kind = "ink"
  /\ doc' = [doc EXCEPT ![running.page] = Append(@, running.what)]
  /\ misled' = IF running.page # running.from THEN misled \cup running.what
               ELSE misled
  /\ To("clear")
  /\ UNCHANGED <<views, queue, cancelled, deletions, posts, late>>
  /\ NotUI

(* loadAnnotations, called by the task.  late: the task has been given up, *)
(* or the UI thread is doing the same.                                     *)
ClearAnnotations ==
  /\ Up /\ running # None /\ running.step = "clear"
  /\ LET c == Cancel(Now, {views[running.view].loader})
     IN  /\ views' = [views EXCEPT ![running.view].annots = None]
         /\ cancelled' = c.cancelled
  /\ running' = [running EXCEPT !.step = "reload", !.page = views[running.view].loader]
  /\ UNCHANGED <<queue, doc, deletions, posts, misled, late>> /\ NotUI

Reload ==
  /\ Up /\ running # None /\ running.step = "reload"
  /\ LET s == Execute(Now, running.view, "loader", None)
     IN  views' = s.views /\ queue' = s.queue
  /\ cancelled' = cancelled \ {running.id}
  /\ late' = (late \/ running.id \in cancelled
                   \/ views[running.view].loader # running.page)
  /\ running' = None
  /\ UNCHANGED <<doc, deletions, posts, misled>> /\ NotUI

---------------------------------------------------------------------------

(* The strokes in the file come first.                                      *)
Init ==
  /\ doc = Saved /\ deletions = [p \in Pages |-> 0]
  /\ drawn \in 0..MaxStrokes
  /\ 1..drawn = UNION {StrokesOf(Saved[p]) : p \in Pages}
  /\ home = [s \in Strokes |->
               IF s <= drawn THEN CHOOSE p \in Pages : s \in StrokesOf(Saved[p])
               ELSE 0]
  /\ cur = 0 /\ mode = "Viewing"
  /\ running = None /\ posts = <<>>
  /\ LET s == OnLayout([views |-> [v \in Views |-> FreshView],
                        child |-> [p \in Pages |-> None], spare |-> <<>>,
                        queue |-> <<>>, cancelled |-> {}], 0)
     IN  /\ views = s.views /\ child = s.child /\ spare = s.spare
         /\ queue = s.queue /\ cancelled = s.cancelled
  /\ crashed = None /\ acts \in Budgets
  /\ wished = {} /\ dropped = {} /\ misled = {} /\ late = FALSE

Background ==
  \/ Start \/ ReadPage
  \/ GetAnnotations \/ DeleteAnnotation \/ AddInkAnnotation
  \/ ClearAnnotations \/ Reload

User ==
  \/ \E p \in Pages : MoveTo(p)
  \/ Tap \/ Deselect \/ DeleteSelectedAnnotation \/ EditSelectedAnnotation
  \/ Draw \/ Stroke \/ \E S \in SUBSET Strokes : Erase(S)
  \/ UndoDraw \/ CancelDraw \/ SaveDraw

Next == User \/ Deliver \/ Background

(* The looper and the thread pool of Android serve what is in their queues. *)
Spec == Init /\ [][Next]_vars /\ WF_vars(Background) /\ WF_vars(Deliver)

---------------------------------------------------------------------------
(* Properties.                                                             *)

(* Types of the variables; a view belongs to one page, or waits to be used *)
(* again; only tasks that are not done are cancelled.                      *)
TypeOK ==
  /\ doc \in [Pages -> Seq(SUBSET Strokes)] /\ deletions \in [Pages -> Nat]
  /\ cur \in Pages /\ mode \in {"Viewing", "Edit", "Drawing"}
  /\ views \in [Views -> Fields]
  /\ child \in [Pages -> Views \cup {None}] /\ spare \in Seq(Views)
  /\ \A p, q \in Pages : p # q /\ child[p] # None => child[p] # child[q]
  /\ \A i, j \in DOMAIN spare : i # j => spare[i] # spare[j]
  /\ Range(spare) \cap Range(child) = {}
  /\ queue \in Seq(Jobs) /\ posts \in Seq(Results)
  /\ running \in Started \cup {None} /\ cancelled \subseteq Alive(Now)
  /\ crashed \in {None, "size", "list"} /\ acts \in Nat
  /\ drawn \in 0..MaxStrokes /\ home \in [Strokes -> Pages]

(* A view shows a page whenever it is on the screen, and when everything   *)
(* that was begun is done, its list has the annotations the document has:  *)
(* what the user taps is what is there.                                    *)
ListsMatchDocument ==
  \A p \in Pages : child[p] # None =>
    /\ views[child[p]].page = p /\ views[child[p]].sized
    /\ Up /\ queue = <<>> /\ running = None /\ posts = <<>> =>
         /\ views[child[p]].annots # None
         /\ views[child[p]].annots.list = doc[p]

(* No stroke disappears unless the user deletes, erases or undoes it, but  *)
(* for what the code is known to lose: drawings whose task was cancelled   *)
(* before it began (dropped) and what a deletion hit whose index came from *)
(* a list that was out of date or of another page (misled).  An annotation *)
(* that is edited is in the drawing when it leaves the document, unless    *)
(* the list has become that of another page in between (misled too).       *)
Present ==
  (UNION {StrokesOf(doc[p]) : p \in Pages})
  \cup (UNION {StrokesOf(views[v].history)
               \cup (IF views[v].drawing = None THEN {} ELSE views[v].drawing) :
                 v \in Views})
  \cup (UNION {Unstarted(Now, v) : v \in Views})
  \cup (IF running # None /\ running.kind = "ink" THEN running.what ELSE {})

InkIsKept == 1..drawn \subseteq Present \cup wished \cup dropped \cup misled

(* Ink is added to the page it was drawn on, although the task reads the   *)
(* number of its view's page late and views are used for other pages.  A   *)
(* view released as the task begins, and an annotation edited from the     *)
(* list of another page, are known exceptions (misled).                    *)
InkOnItsPage ==
  \A p \in Pages : \A s \in StrokesOf(doc[p]) : home[s] = p \/ s \in misled

(* Annotations are shown on a view that has been released, which the       *)
(* application does not survive, only after a task that adds a drawing has *)
(* loaded them behind the back of the UI thread.                           *)
DiesOnlyOfLateLoad == crashed = "size" => late

(* When the user has stopped, every page on the screen comes to have the   *)
(* list of the annotations that are in the document.                       *)
ListsCatchUp ==
  <>[](Up => \A p \in Pages : child[p] # None =>
               /\ views[child[p]].annots # None
               /\ views[child[p]].annots.list = doc[p])
=============================================================================
