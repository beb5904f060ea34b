------------------------- MODULE PageViewsInvariant -------------------------
(***************************************************************************)
(* The inductive invariants of module PageViews, in five parts, each of    *)
(* which takes those before it as given.  They speak of a record s of what *)
(* the handlers change (Now, or what a handler makes of it), the results   *)
(* P, the running task R, the document D and how many annotations N of     *)
(* each page have been deleted.  PageViewsProofs shows that they are kept. *)
(***************************************************************************)
EXTENDS PageViews

-----------------------------------------------------------------------------
(* The tasks, the views they belong to, and where the views are.           *)

States == [views : [Views -> Fields], child : [Pages -> Views \cup {None}],
           spare : Seq(Views), queue : Seq(Jobs), cancelled : SUBSET Nat]

\* The views on the screen.
Displayed(s) == {v \in Views : \E p \in Pages : s.child[p] = v}

\* Every task, wherever it is, has an id of its own.
Distinct(Q, P, R) ==
  /\ \A i, j \in DOMAIN Q : Q[i].id = Q[j].id => i = j
  /\ \A i, j \in DOMAIN P : P[i].id = P[j].id => i = j
  /\ \A i \in DOMAIN Q, j \in DOMAIN P : Q[i].id # P[j].id
  /\ \A i \in DOMAIN Q : Q[i].id # 0 /\ (R # None => Q[i].id # R.id)
  /\ \A i \in DOMAIN P : P[i].id # 0 /\ (R # None => P[i].id # R.id)
  /\ R # None => R.id # 0

\* What is the same for a task at all its steps.
Tag(t) == [id |-> t.id, kind |-> t.kind, view |-> t.view]
Tags == [id : Nat, kind : Kinds, view : Views]
Live(Q, P, R) == {Tag(Q[i]) : i \in DOMAIN Q} \cup {Tag(P[i]) : i \in DOMAIN P}
                 \cup (IF R = None THEN {} ELSE {Tag(R)})

\* A view is in one place; it shows its page; released, it is blank.
Placed(s) ==
  /\ \A p, q \in Pages : p # q /\ s.child[p] # None => s.child[p] # s.child[q]
  /\ \A i, j \in DOMAIN s.spare : i # j => s.spare[i] # s.spare[j]
  /\ \A i \in DOMAIN s.spare, p \in Pages : s.spare[i] # s.child[p]
  /\ \A p \in Pages : s.child[p] # None =>
       s.views[s.child[p]].page = p /\ s.views[s.child[p]].sized
  /\ \A v \in Views : v \notin Displayed(s) =>
       /\ s.views[v].page = 0 /\ ~s.views[v].sized
       /\ s.views[v].ink = 0 /\ s.views[v].del = 0

\* Only the current page and its neighbours have views.
Around(s, c) == \A p \in Pages : s.child[p] # None => c <= p + 1 /\ p <= c + 1

\* A view remembers its tasks, unless one was loaded behind its back.
Remembered(s, L, lt) ==
  /\ \A i \in s.cancelled : \E t \in L : t.id = i
  /\ \A t \in L, v \in Views :
       /\ s.views[v].loader = t.id => t.kind = "loader" /\ t.view = v
       /\ s.views[v].ink = t.id => t.kind = "ink" /\ t.view = v
       /\ s.views[v].del = t.id => t.kind = "del" /\ t.view = v
  /\ \A t \in L : t.id \notin s.cancelled =>
       /\ t.kind = "ink" => s.views[t.view].ink = t.id
       /\ t.kind = "del" => s.views[t.view].del = t.id
       /\ t.kind = "loader" /\ ~lt =>
            s.views[t.view].loader = t.id /\ t.view \in Displayed(s)

\* A task about to load the list has cancelled the loader of its view, and if
\* the view has got another, it is not the same by accident.
ReloadKnown(s, L, P, R) ==
  R # None /\ R.step = "reload" /\ R.id \notin s.cancelled =>
    IF s.views[R.view].loader = R.page
    THEN \A t \in L : t.id = R.page => R.page \in s.cancelled
    ELSE \A i \in DOMAIN P : P[i].kind = "del" /\ P[i].view = R.view =>
           P[i].id \in s.cancelled

TasksGood(s, P, R, lt) ==
  /\ Distinct(s.queue, P, R) /\ Placed(s)
  /\ Remembered(s, Live(s.queue, P, R), lt)
  /\ ReloadKnown(s, Live(s.queue, P, R), P, R)

\* The types of the variables.
Basic ==
  /\ doc \in [Pages -> Seq(SUBSET Strokes)] /\ deletions \in [Pages -> Nat]
  /\ cur \in Pages /\ mode \in {"Viewing", "Edit", "Drawing"}
  /\ Now \in States /\ posts \in Seq(Results) /\ running \in Started \cup {None}
  /\ (running # None /\ running.step = "core" => running.page \in Pages)
  /\ crashed \in {None, "size", "list"} /\ acts \in Nat
  /\ drawn \in 0..MaxStrokes /\ home \in [Strokes -> Pages]
  /\ wished \in SUBSET Strokes /\ dropped \in SUBSET Strokes
  /\ misled \in SUBSET Strokes /\ late \in BOOLEAN

TasksInv ==
  /\ Basic /\ TasksGood(Now, posts, running, late)
  /\ Around(Now, cur) /\ child[cur] # None

-----------------------------------------------------------------------------
(* Where ink is.  G holds the pairs of a stroke and a page it may be on.    *)

On(G, S, p) == \A x \in S : <<x, p>> \in G

\* What a view lists is of the page of its list, what is drawn on it of its own.
OnView(G, w) ==
  /\ w.annots # None => On(G, StrokesOf(w.annots.list), w.annots.of)
  /\ w.drawing # None => On(G, w.drawing, w.page)
  /\ On(G, StrokesOf(w.history), w.page)

OnQueue(G, s) == \A i \in DOMAIN s.queue :
  s.queue[i].kind = "ink" /\ s.queue[i].id \notin s.cancelled =>
    On(G, s.queue[i].what, s.views[s.queue[i].view].page)

OnPosts(G, P) == \A i \in DOMAIN P :
  P[i].kind = "loader" => On(G, StrokesOf(P[i].what.list), P[i].what.of)

\* Ink that is listed, drawn, on its way or in the document is where it may be.
OnPages(G, s, P, R, D) ==
  /\ \A p \in Pages : On(G, StrokesOf(D[p]), p)
  /\ \A v \in Views : OnView(G, s.views[v])
  /\ OnQueue(G, s) /\ OnPosts(G, P)
  /\ R # None /\ R.kind = "ink" => On(G, R.what, R.from)

\* Only the selected view is drawn on; what can be undone begins with a stroke.
OnlyDrawn(s, c, m) == \A v \in Views :
  /\ v # s.child[c] \/ m # "Drawing" => s.views[v].drawing = None
  /\ s.views[v].drawing = None => StrokesOf(s.views[v].history) = {}

\* A stroke has been drawn, and on its page, unless a drawing has been misled.
Homed == {g \in Strokes \X Pages :
            g[1] <= drawn /\ (home[g[1]] = g[2] \/ g[1] \in misled)}

InkInv == OnPages(Homed, Now, posts, running, doc) /\ OnlyDrawn(Now, cur, mode)

-----------------------------------------------------------------------------
(* How old lists and selections are.  A list that was made after as many    *)
(* deletions as its page has had is still right as far as it goes, because  *)
(* annotations are only added at the end.                                   *)

\* A list made since the last deletion on its page begins as the page does.
Made(a, D, N) ==
  /\ a.deletions <= N[a.of]
  /\ a.deletions = N[a.of] =>
       \A i \in DOMAIN a.list : i \in DOMAIN D[a.of] /\ a.list[i] = D[a.of][i]

\* An annotation selected from such a list is where it was.
Taken(e, D, N) ==
  /\ e.since <= N[e.of]
  /\ e.since = N[e.of] => e.at \in DOMAIN D[e.of] /\ D[e.of][e.at] = e.annot

History(s, P, R, D, N) ==
  /\ \A v \in Views : /\ s.views[v].annots # None => Made(s.views[v].annots, D, N)
                      /\ s.views[v].sel # None => Taken(s.views[v].sel, D, N)
  /\ \A i \in DOMAIN P : P[i].kind = "loader" => Made(P[i].what, D, N)
  /\ \A i \in DOMAIN s.queue : s.queue[i].kind = "del" => Taken(s.queue[i].what, D, N)
  /\ R # None /\ R.kind = "del" => Taken(R.what, D, N)

\* Lists are delivered in the order they were made, and what is selected is of
\* a list that is not newer than the one its view has.
NotLater(n, p, a) == a.of = p => n <= a.deletions

After(w, a) ==
  /\ w.sel # None => NotLater(w.sel.since, w.sel.of, a)
  /\ w.annots # None => NotLater(w.annots.deletions, w.annots.of, a)

Order(s, P) ==
  /\ \A v \in Views : s.views[v].sel # None /\ s.views[v].annots # None =>
       NotLater(s.views[v].sel.since, s.views[v].sel.of, s.views[v].annots)
  /\ \A v \in Views : \A i \in DOMAIN P : P[i].kind = "loader" => After(s.views[v], P[i].what)
  /\ \A i, j \in DOMAIN P : i < j /\ P[i].kind = "loader" /\ P[j].kind = "loader" =>
       NotLater(P[i].what.deletions, P[i].what.of, P[j].what)

Dated(s, P, R, D, N) == History(s, P, R, D, N) /\ Order(s, P)

DatedInv == Dated(Now, posts, running, doc, deletions)

-----------------------------------------------------------------------------
(* No stroke is lost.  X holds those that need not be found any more.       *)

\* Where a stroke can be that is not in the document: a view holds it, or a task
\* after the i-th waits to add it.
Holds(w, x) == (w.drawing # None /\ x \in w.drawing) \/ x \in StrokesOf(w.history)

HeldBy(s, x) == \E v \in Views : Holds(s.views[v], x)

WaitsIn(s, i, x) ==
  \E j \in DOMAIN s.queue : /\ j > i /\ s.queue[j].kind = "ink" /\ x \in s.queue[j].what
                            /\ s.queue[j].id \notin s.cancelled

Safe(s, i, x, X) == x \in X \/ HeldBy(s, x) \/ WaitsIn(s, i, x)

\* What a task deletes is safe when it comes to be started, unless its index
\* is out of date.
Deletes(s, i, e, N, X) == e.since = N[e.of] => \A x \in e.annot : Safe(s, i, x, X)

InDocument(D, x) == \E p \in Pages : x \in StrokesOf(D[p])

BeingAdded(R, x) == R # None /\ R.kind = "ink" /\ x \in R.what

\* Each of the n strokes is somewhere or excused, and what is deleted is safe.
Kept(s, R, D, N, n, X) ==
  /\ R # None /\ R.kind = "ink" /\ R.step \in {"clear", "reload"} =>
       \A x \in R.what : InDocument(D, x)
  /\ \A i \in DOMAIN s.queue : s.queue[i].kind = "del" => Deletes(s, i, s.queue[i].what, N, X)
  /\ R # None /\ R.kind = "del" => Deletes(s, 0, R.what, N, X)
  /\ \A x \in 1..n : Safe(s, 0, x, X) \/ InDocument(D, x) \/ BeingAdded(R, x)

\* What the user has asked to go, and what is known to be lost.
Excused == wished \cup dropped \cup misled

KeptInv == Kept(Now, running, doc, deletions, drawn, Excused)

-----------------------------------------------------------------------------
(* Why a view comes to list what the document has: what it lists, or is     *)
(* about to, is right, or a task waits that will load the annotations.      *)

Waits(s, j, k, v) ==
  s.queue[j].kind = k /\ s.queue[j].view = v /\ s.queue[j].id \notin s.cancelled

Behind(s, i, v) == \E j \in DOMAIN s.queue : j > i /\ Waits(s, j, "loader", v)

\* A loader waits, or a deletion, which begins another.
WillLoad(s, v) == \E j \in DOMAIN s.queue : Waits(s, j, "loader", v) \/ Waits(s, j, "del", v)

OnSecond(s, v) == 1 \in Pages /\ s.child[1] = v

\* A view that has been released says it is of the first page.  A task that
\* finds it so is ahead of the one that will load the list of the first page.
Ahead(s, R, i, v) ==
  \/ s.child[0] \in {None, v} \/ OnSecond(s, v) \/ Behind(s, i, s.child[0])
  \/ R # None /\ R.step = "reload" /\ R.view = s.child[0]

FirstAhead(s, R) ==
  /\ \A i \in DOMAIN s.queue : s.queue[i].kind # "loader" => Ahead(s, R, i, s.queue[i].view)
  /\ R # None /\ R.kind # "loader" /\ R.step = "read" => Ahead(s, R, 0, R.view)

\* The page a task is about to change is its view's, or will be listed again.
AtCore(s, R) == R # None /\ R.step = "core" =>
  s.child[R.page] \in {None, R.view} \/ Behind(s, 0, s.child[R.page])

\* A deletion that is given up when it has begun has been replaced.
Replaced(s, R) ==
  R # None /\ R.kind = "del" /\ R.id \in s.cancelled /\ R.view \in Displayed(s) => WillLoad(s, R.view)

\* A task is still to load the list of the view.
Pending(s, P, R, v) ==
  \/ WillLoad(s, v)
  \/ \E j \in DOMAIN P : P[j].kind = "del" /\ P[j].view = v /\ P[j].id \notin s.cancelled
  \/ /\ R # None /\ R.view = v
     /\ (R.kind \in {"loader", "del"} /\ R.id \notin s.cancelled) \/ R.step \in {"clear", "reload"}

Comes(s, P, v, j) == P[j].kind = "loader" /\ P[j].view = v /\ P[j].id \notin s.cancelled

\* What the view lists, or the last list it will be given, is A.
Current(s, P, v, A) ==
  \/ /\ s.views[v].annots # None /\ s.views[v].annots.list = A
     /\ \A j \in DOMAIN P : ~Comes(s, P, v, j)
  \/ \E i \in DOMAIN P : /\ Comes(s, P, v, i) /\ P[i].what.list = A
                         /\ \A j \in DOMAIN P : j > i => ~Comes(s, P, v, j)

Covered(s, P, R, D) == \A p \in Pages : s.child[p] # None =>
  Pending(s, P, R, s.child[p]) \/ Current(s, P, s.child[p], D[p])

Listed(s, P, R, D) == FirstAhead(s, R) /\ AtCore(s, R) /\ Replaced(s, R) /\ Covered(s, P, R, D)

ListInv == Listed(Now, posts, running, doc)
=============================================================================
