-------------------------- MODULE PageViewsProofs --------------------------
(***************************************************************************)
(* Proofs about module PageViews, for any file, any number of pages and of *)
(* views (three or more), and any bounds.  The handlers of the UI thread   *)
(* are operators on a record s of the views and the tasks (Now, or what a  *)
(* handler makes of it), so most of the argument is about such records:    *)
(* first what each operator does, then that the invariants withstand what  *)
(* the operators do, then the steps of Next.  The invariants are those of  *)
(* PageViewsInvariant.                                                     *)
(***************************************************************************)
EXTENDS PageViewsInvariant, ListLemmas, FiniteSetTheorems, TLAPS

-----------------------------------------------------------------------------
(* The types of the tasks, and what the operators do.                      *)

LEMMA JobType ==
  ASSUME NEW t \in Jobs
  PROVE  /\ t.id \in Nat /\ t.kind \in Kinds /\ t.view \in Views
         /\ t.kind = "loader" => t.what = None
         /\ t.kind = "ink" => t.what \in SUBSET Strokes
         /\ t.kind = "del" => t.what \in Selections
         /\ t = [id |-> t.id, kind |-> t.kind, view |-> t.view, what |-> t.what]
BY DEF Jobs, Kinds

LEMMA ResultType ==
  ASSUME NEW t \in Results
  PROVE  /\ t.id \in Nat /\ t.kind \in {"loader", "del"} /\ t.kind \in Kinds /\ t.view \in Views
         /\ t.kind = "loader" => t.what \in Lists
         /\ t.kind = "del" => t.what = None
BY DEF Results, Kinds

LEMMA StartedType ==
  ASSUME NEW t \in Started
  PROVE  /\ t.id \in Nat /\ t.kind \in Kinds /\ t.view \in Views
         /\ t.from \in Pages /\ t.page \in Nat
         /\ t.kind = "loader" => t.what = None /\ t.step = "read"
         /\ t.kind = "ink" => /\ t.what \in SUBSET Strokes
                              /\ t.step \in {"read", "core", "clear", "reload"}
         /\ t.kind = "del" => t.what \in Selections /\ t.step \in {"read", "core"}
         /\ t # None
BY PageViewsAssumption DEF Started, Kinds

LEMMA LiveType ==
  ASSUME NEW Q \in Seq(Jobs), NEW P \in Seq(Results), NEW R \in Started \cup {None}
  PROVE  Live(Q, P, R) \subseteq Tags
<1>1. \A i \in DOMAIN Q : Tag(Q[i]) \in Tags
  BY JobType DEF Tag, Tags
<1>2. \A i \in DOMAIN P : Tag(P[i]) \in Tags
  BY ResultType DEF Tag, Tags
<1>3. R # None => Tag(R) \in Tags
  BY StartedType DEF Tag, Tags
<1>. QED
  BY <1>1, <1>2, <1>3 DEF Live

IdsOf(L) == {t.id : t \in L}

LEMMA AliveIs ==
  ASSUME NEW s \in States, posts \in Seq(Results), running \in Started \cup {None}
  PROVE  /\ Alive(s) = IdsOf(Live(s.queue, posts, running))
         /\ Alive(s) \subseteq Nat
         /\ IsFiniteSet(Alive(s))
<1>. DEFINE Q == s.queue
            f == [i \in DOMAIN Q |-> Q[i].id]
            g == [i \in DOMAIN posts |-> posts[i].id]
            A == {f[x] : x \in DOMAIN Q}
            B == {g[x] : x \in DOMAIN posts}
            C == IF running = None THEN {} ELSE {running.id}
<1>1. Q \in Seq(Jobs)
  BY DEF States
<1>a. /\ \A i : i \in A <=> \E x \in DOMAIN Q : i = Q[x].id
      /\ \A i : i \in B <=> \E x \in DOMAIN posts : i = posts[x].id
      /\ \A i : i \in C <=> running # None /\ i = running.id
  OBVIOUS
<1>. HIDE DEF A, B, C, Q
<1>2. Alive(s) = A \cup B \cup C
  <2>1. \A i : i \in Alive(s) => i \in A \cup B \cup C
    BY <1>a DEF Alive, Range, Q
  <2>2. \A i : i \in A \cup B \cup C => i \in Alive(s)
    BY <1>a DEF Alive, Range, Q
  <2>. QED
    BY <2>1, <2>2
<1>3. IdsOf(Live(Q, posts, running)) = A \cup B \cup C
  <2>0. \A t : Tag(t).id = t.id
    BY DEF Tag
  <2>1. \A i : i \in IdsOf(Live(Q, posts, running)) => i \in A \cup B \cup C
    BY <1>a, <2>0 DEF IdsOf, Live
  <2>2. \A i : i \in A \cup B \cup C => i \in IdsOf(Live(Q, posts, running))
    BY <1>a, <2>0 DEF IdsOf, Live
  <2>. QED
    BY <2>1, <2>2
<1>4. A \subseteq Nat /\ B \subseteq Nat /\ C \subseteq Nat
  <2>1. \A i \in DOMAIN Q : Q[i].id \in Nat
    BY <1>1, JobType
  <2>2. \A i \in DOMAIN posts : posts[i].id \in Nat
    BY ResultType
  <2>3. running # None => running.id \in Nat
    BY StartedType
  <2>. QED
    BY <1>a, <2>1, <2>2, <2>3
<1>5. IsFiniteSet(A) /\ IsFiniteSet(B) /\ IsFiniteSet(C)
  <2>1. /\ DOMAIN Q = 1..Len(Q) /\ Len(Q) \in Int
        /\ DOMAIN posts = 1..Len(posts) /\ Len(posts) \in Int
    BY <1>1
  <2>2. IsFiniteSet(DOMAIN Q) /\ IsFiniteSet(DOMAIN posts)
    BY <2>1, FS_Interval
  <2>3. IsFiniteSet(C)
    BY FS_EmptySet, FS_Singleton DEF C
  <2>. HIDE DEF f, g
  <2>4. IsFiniteSet({f[x] : x \in DOMAIN Q}) /\ IsFiniteSet({g[x] : x \in DOMAIN posts})
    BY <2>2, FiniteImage
  <2>. QED
    BY <2>3, <2>4 DEF A, B
<1>6. IsFiniteSet(A \cup B \cup C)
  BY <1>5, FS_Union
<1>. QED
  BY <1>2, <1>3, <1>4, <1>6 DEF Q

FreshIn(s, L, id) ==
  /\ id \in Nat \ {0}
  /\ \A t \in L : t.id # id
  /\ \A w \in Views : s.views[w].loader # id /\ s.views[w].ink # id /\ s.views[w].del # id

Job(id, k, v, t) == [id |-> id, kind |-> k, view |-> v, what |-> t]

SameShow(w, x) == /\ w.page = x.page /\ w.sized = x.sized
SameInk(w, x) == w.drawing = x.drawing /\ w.history = x.history
SameLists(w, x) == w.annots = x.annots /\ w.sel = x.sel

FieldSet(w, x, k, id) ==
  /\ w.loader = (IF k = "loader" THEN id ELSE x.loader)
  /\ w.ink = (IF k = "ink" THEN id ELSE x.ink)
  /\ w.del = (IF k = "del" THEN id ELSE x.del)

LEMMA ExecuteIs ==
  ASSUME NEW s \in States, posts \in Seq(Results), running \in Started \cup {None},
         NEW v \in Views, NEW k \in Kinds, NEW t,
         \A i \in Nat : Job(i, k, v, t) \in Jobs
  PROVE  \E id \in Nat : LET r == Execute(s, v, k, t) IN
           /\ FreshIn(s, Live(s.queue, posts, running), id)
           /\ r \in States
           /\ r.child = s.child /\ r.spare = s.spare /\ r.cancelled = s.cancelled
           /\ r.queue = Append(s.queue, Job(id, k, v, t))
           /\ \A w \in Views : w # v => r.views[w] = s.views[w]
           /\ SameShow(r.views[v], s.views[v]) /\ SameInk(r.views[v], s.views[v])
           /\ SameLists(r.views[v], s.views[v])
           /\ FieldSet(r.views[v], s.views[v], k, id)
<1>. DEFINE U == Alive(s) \cup {s.views[w].loader : w \in Views}
                 \cup {s.views[w].ink : w \in Views}
                 \cup {s.views[w].del : w \in Views}
            id == Min((1..Cardinality(U) + 1) \ U)
            r == Execute(s, v, k, t)
<1>1. IsFiniteSet(U)
  <2>. DEFINE f == [w \in Views |-> s.views[w].loader]
              g == [w \in Views |-> s.views[w].ink]
              h == [w \in Views |-> s.views[w].del]
              A == {f[x] : x \in Views}
              B == {g[x] : x \in Views}
              C == {h[x] : x \in Views}
  <2>2. U = Alive(s) \cup A \cup B \cup C
    OBVIOUS
  <2>. HIDE DEF f, g, h, U
  <2>1. IsFiniteSet(Views) /\ IsFiniteSet(Alive(s))
    BY AliveIs, PageViewsAssumption
  <2>4. IsFiniteSet(A) /\ IsFiniteSet(B) /\ IsFiniteSet(C)
    BY <2>1, FiniteImage
  <2>. HIDE DEF A, B, C
  <2>3. IsFiniteSet(Alive(s) \cup A \cup B \cup C)
    BY <2>1, <2>4, FS_Union
  <2>. QED
    BY <2>2, <2>3
<1>2. id \in Nat \ {0} /\ id \notin U
  <2>. HIDE DEF U
  <2>. QED
    BY <1>1, FreshId
<1>3. r = [s EXCEPT !.views[v] = [@ EXCEPT ![k] = id],
                    !.queue = Append(@, Job(id, k, v, t))]
  BY DEF Execute, Job
<1>. HIDE DEF id, r
<1>4. FreshIn(s, Live(s.queue, posts, running), id)
  <2>1. \A x \in Live(s.queue, posts, running) : x.id # id
    BY <1>2, AliveIs DEF IdsOf
  <2>2. \A w \in Views : s.views[w].loader # id /\ s.views[w].ink # id /\ s.views[w].del # id
    BY <1>2
  <2>. QED
    BY <1>2, <2>1, <2>2 DEF FreshIn
<1>. HIDE DEF U
<1>5. s.views[v] \in Fields /\ s.queue \in Seq(Jobs) /\ Job(id, k, v, t) \in Jobs
  BY <1>2 DEF States
<1>. DEFINE f == [s.views[v] EXCEPT ![k] = id]
<1>6. /\ f \in Fields /\ SameShow(f, s.views[v]) /\ SameInk(f, s.views[v])
      /\ SameLists(f, s.views[v]) /\ FieldSet(f, s.views[v], k, id)
  <2>1. CASE k = "loader"
    BY <1>2, <1>5, <2>1 DEF Fields, SameShow, SameInk, SameLists, FieldSet
  <2>2. CASE k = "ink"
    BY <1>2, <1>5, <2>2 DEF Fields, SameShow, SameInk, SameLists, FieldSet
  <2>3. CASE k = "del"
    BY <1>2, <1>5, <2>3 DEF Fields, SameShow, SameInk, SameLists, FieldSet
  <2>. QED
    BY <2>1, <2>2, <2>3 DEF Kinds
<1>7. r = [s EXCEPT !.views = [s.views EXCEPT ![v] = f],
                    !.queue = Append(s.queue, Job(id, k, v, t))]
  BY <1>3 DEF States
<1>. HIDE DEF f
<1>8. /\ r \in States
      /\ r.child = s.child /\ r.spare = s.spare /\ r.cancelled = s.cancelled
      /\ r.queue = Append(s.queue, Job(id, k, v, t))
      /\ r.views = [s.views EXCEPT ![v] = f]
  <2>. DEFINE V1 == [s.views EXCEPT ![v] = f]
              Q1 == Append(s.queue, Job(id, k, v, t))
  <2>1. V1 \in [Views -> Fields] /\ Q1 \in Seq(Jobs)
    BY <1>5, <1>6 DEF States
  <2>. HIDE DEF V1, Q1
  <2>2. r = [s EXCEPT !.views = V1, !.queue = Q1]
    BY <1>7 DEF V1, Q1
  <2>3. r \in States /\ r.child = s.child /\ r.spare = s.spare
        /\ r.cancelled = s.cancelled /\ r.queue = Q1 /\ r.views = V1
    BY <2>1, <2>2 DEF States
  <2>. QED
    BY <2>3 DEF V1, Q1
<1>9. r.views[v] = f /\ \A w \in Views : w # v => r.views[w] = s.views[w]
  BY <1>8 DEF States
<1>. QED
  BY <1>2, <1>4, <1>6, <1>8, <1>9 DEF r

TaskOf(w, k) == IF k = "loader" THEN w.loader ELSE IF k = "ink" THEN w.ink ELSE w.del

FreshFor(s, L, v, k, id) ==
  /\ id \in Nat \ {0}
  /\ \A t \in L : t.id # id
  /\ \A w \in Views : /\ w # v \/ k # "loader" => s.views[w].loader # id
                      /\ w # v \/ k # "ink" => s.views[w].ink # id
                      /\ w # v \/ k # "del" => s.views[w].del # id

\* A view begins a task in place of its last one of that kind.
Renewal(s, r, L, v, k, id, t) ==
  /\ FreshFor(s, L, v, k, id)
  /\ r.queue = Append(s.queue, Job(id, k, v, t))
  /\ s.cancelled \subseteq r.cancelled
  /\ \A i \in r.cancelled : i \in s.cancelled \/ (i = TaskOf(s.views[v], k) /\ i \in IdsOf(L))
  /\ TaskOf(s.views[v], k) \in IdsOf(L) => TaskOf(s.views[v], k) \in r.cancelled
  /\ \A w \in Views : w # v => r.views[w] = s.views[w]
  /\ FieldSet(r.views[v], s.views[v], k, id)

LEMMA FreshInFor ==
  ASSUME NEW s, NEW L, NEW v, NEW k, NEW id, FreshIn(s, L, id)
  PROVE  FreshFor(s, L, v, k, id)
BY DEF FreshIn, FreshFor

\* Cancelling the tasks of a set and changing the views.
LEMMA CancelIs ==
  ASSUME NEW s \in States, posts \in Seq(Results), running \in Started \cup {None}, NEW S
  PROVE  LET r == Cancel(s, S) IN
         /\ r \in States /\ r.views = s.views /\ r.child = s.child /\ r.spare = s.spare
         /\ r.queue = s.queue
         /\ r.cancelled = s.cancelled \cup (S \cap IdsOf(Live(s.queue, posts, running)))
         /\ Alive(r) = Alive(s)
<1>1. s.cancelled \cup (S \cap Alive(s)) \in SUBSET Nat
  BY AliveIs DEF States
<1>2. Cancel(s, S) = [s EXCEPT !.cancelled = s.cancelled \cup (S \cap Alive(s))]
  BY DEF Cancel
<1>3. /\ Cancel(s, S) \in States /\ Cancel(s, S).views = s.views
      /\ Cancel(s, S).child = s.child /\ Cancel(s, S).spare = s.spare
      /\ Cancel(s, S).queue = s.queue
      /\ Cancel(s, S).cancelled = s.cancelled \cup (S \cap Alive(s))
  <2>. DEFINE C == s.cancelled \cup (S \cap Alive(s))
  <2>1. C \in SUBSET Nat /\ Cancel(s, S) = [s EXCEPT !.cancelled = C]
    BY <1>1, <1>2
  <2>. HIDE DEF C
  <2>2. /\ Cancel(s, S) \in States /\ Cancel(s, S).views = s.views
        /\ Cancel(s, S).child = s.child /\ Cancel(s, S).spare = s.spare
        /\ Cancel(s, S).queue = s.queue
        /\ Cancel(s, S).cancelled = C
    BY <2>1 DEF States
  <2>. QED
    BY <2>2 DEF C
<1>4. Alive(Cancel(s, S)) = Alive(s)
  BY <1>3 DEF Alive
<1>. QED
  BY <1>3, <1>4, AliveIs

LEMMA WithViews ==
  ASSUME NEW s \in States, NEW W \in [Views -> Fields]
  PROVE  LET r == [s EXCEPT !.views = W] IN
         /\ r \in States /\ r.views = W /\ r.child = s.child /\ r.spare = s.spare
         /\ r.queue = s.queue /\ r.cancelled = s.cancelled
BY DEF States

LEMMA LoadAnnotationsIs ==
  ASSUME NEW s \in States, posts \in Seq(Results), running \in Started \cup {None},
         NEW v \in Views
  PROVE  \E id \in Nat :
           LET r == LoadAnnotations(s, v)
               L == Live(s.queue, posts, running)
           IN  /\ FreshFor(s, L, v, "loader", id) /\ FreshIn(s, L, id)
               /\ r \in States /\ r.child = s.child /\ r.spare = s.spare
               /\ Renewal(s, r, L, v, "loader", id, None)
               /\ SameShow(r.views[v], s.views[v]) /\ SameInk(r.views[v], s.views[v])
               /\ r.views[v].annots = None /\ r.views[v].sel = s.views[v].sel
<1>. DEFINE L == Live(s.queue, posts, running)
            c == Cancel(s, {s.views[v].loader})
            f == [s.views[v] EXCEPT !.annots = None]
            d == [c EXCEPT !.views[v].annots = None]
            r == LoadAnnotations(s, v)
<1>1. /\ c \in States /\ c.views = s.views /\ c.child = s.child /\ c.spare = s.spare
      /\ c.queue = s.queue
      /\ c.cancelled = s.cancelled \cup ({s.views[v].loader} \cap IdsOf(L))
  BY CancelIs
<1>2. r = Execute(d, v, "loader", None)
  BY DEF LoadAnnotations
<1>3. /\ f \in Fields /\ f.annots = None /\ f.sel = s.views[v].sel
      /\ SameShow(f, s.views[v]) /\ SameInk(f, s.views[v])
      /\ f.loader = s.views[v].loader /\ f.ink = s.views[v].ink /\ f.del = s.views[v].del
  <2>1. s.views[v] \in Fields
    BY DEF States
  <2>. QED
    BY <2>1 DEF Fields, SameShow, SameInk
<1>. HIDE DEF c, r
<1>4. d = [c EXCEPT !.views = [s.views EXCEPT ![v] = f]]
  BY <1>1 DEF States
<1>. HIDE DEF f, d
<1>5. /\ d \in States /\ d.views = [s.views EXCEPT ![v] = f] /\ d.child = s.child
      /\ d.spare = s.spare /\ d.queue = s.queue /\ d.cancelled = c.cancelled
  <2>1. [s.views EXCEPT ![v] = f] \in [Views -> Fields]
    BY <1>3 DEF States
  <2>. QED
    BY <1>1, <1>4, <2>1, WithViews
<1>6. d.views[v] = f /\ \A w \in Views : w # v => d.views[w] = s.views[w]
  BY <1>5 DEF States
<1>7. \A i \in Nat : Job(i, "loader", v, None) \in Jobs
  BY DEF Job, Jobs
<1>8. PICK id \in Nat :
           /\ FreshIn(d, Live(d.queue, posts, running), id)
           /\ r \in States
           /\ r.child = d.child /\ r.spare = d.spare /\ r.cancelled = d.cancelled
           /\ r.queue = Append(d.queue, Job(id, "loader", v, None))
           /\ \A w \in Views : w # v => r.views[w] = d.views[w]
           /\ SameShow(r.views[v], d.views[v]) /\ SameInk(r.views[v], d.views[v])
           /\ SameLists(r.views[v], d.views[v])
           /\ FieldSet(r.views[v], d.views[v], "loader", id)
  <2>1. "loader" \in Kinds /\ d \in States
    BY <1>5 DEF Kinds
  <2>. DEFINE e == Execute(d, v, "loader", None)
  <2>2. \E id \in Nat :
           /\ FreshIn(d, Live(d.queue, posts, running), id)
           /\ e \in States
           /\ e.child = d.child /\ e.spare = d.spare /\ e.cancelled = d.cancelled
           /\ e.queue = Append(d.queue, Job(id, "loader", v, None))
           /\ \A w \in Views : w # v => e.views[w] = d.views[w]
           /\ SameShow(e.views[v], d.views[v]) /\ SameInk(e.views[v], d.views[v])
           /\ SameLists(e.views[v], d.views[v])
           /\ FieldSet(e.views[v], d.views[v], "loader", id)
    BY <1>7, <2>1, ExecuteIs
  <2>. QED
    BY <1>2, <2>2
<1>9. FreshIn(s, L, id)
  BY <1>3, <1>5, <1>6, <1>8 DEF FreshIn
<1>10. FreshFor(s, L, v, "loader", id)
  BY <1>9, FreshInFor
<1>11. FieldSet(r.views[v], s.views[v], "loader", id)
  BY <1>3, <1>6, <1>8 DEF FieldSet
<1>12. Renewal(s, r, L, v, "loader", id, None)
  <2>1. TaskOf(s.views[v], "loader") = s.views[v].loader
    BY DEF TaskOf
  <2>2. \A w \in Views : w # v => r.views[w] = s.views[w]
    BY <1>6, <1>8
  <2>3. r.cancelled = s.cancelled \cup ({s.views[v].loader} \cap IdsOf(L))
    BY <1>1, <1>5, <1>8
  <2>4. r.queue = Append(s.queue, Job(id, "loader", v, None))
    BY <1>5, <1>8
  <2>. QED
    BY <1>10, <1>11, <2>1, <2>2, <2>3, <2>4 DEF Renewal
<1>13. /\ SameShow(r.views[v], s.views[v]) /\ SameInk(r.views[v], s.views[v])
       /\ r.views[v].annots = None /\ r.views[v].sel = s.views[v].sel
  BY <1>3, <1>6, <1>8 DEF SameShow, SameInk, SameLists
<1>14. r.child = s.child /\ r.spare = s.spare
  BY <1>5, <1>8
<1>. QED
  BY <1>8, <1>9, <1>10, <1>12, <1>13, <1>14 DEF L, r

\* The views of S are blank afterwards, and their loaders are given up.
LEMMA ResetIs ==
  ASSUME NEW s \in States, posts \in Seq(Results), running \in Started \cup {None},
         NEW S \in SUBSET Views
  PROVE  LET r == Reset(s, S)
             L == Live(s.queue, posts, running)
         IN  /\ r \in States /\ r.child = s.child /\ r.spare = s.spare
             /\ r.queue = s.queue
             /\ r.cancelled = s.cancelled \cup ({s.views[v].loader : v \in S} \cap IdsOf(L))
             /\ \A w \in Views \ S : r.views[w] = s.views[w]
             /\ \A w \in S : /\ r.views[w].page = 0 /\ ~r.views[w].sized
                             /\ r.views[w].loader = 0 /\ r.views[w].ink = s.views[w].ink
                             /\ r.views[w].del = s.views[w].del
                             /\ SameInk(r.views[w], s.views[w])
                             /\ SameLists(r.views[w], s.views[w])
<1>. DEFINE c == Cancel(s, {s.views[v].loader : v \in S})
            W == [v \in Views |->
                    IF v \in S
                    THEN [s.views[v] EXCEPT !.loader = 0, !.page = 0, !.sized = FALSE]
                    ELSE s.views[v]]
            L == Live(s.queue, posts, running)
<1>1. /\ c \in States /\ c.views = s.views /\ c.child = s.child /\ c.spare = s.spare
      /\ c.queue = s.queue
      /\ c.cancelled = s.cancelled \cup ({s.views[v].loader : v \in S} \cap IdsOf(L))
  BY CancelIs
<1>2. Reset(s, S) = [c EXCEPT !.views = W]
  BY DEF Reset
<1>0. 0 \in Pages
  BY PageViewsAssumption DEF Pages
<1>3. \A w \in Views : s.views[w] \in Fields
  BY DEF States
<1>4. \A w \in S : /\ W[w] \in Fields /\ W[w].page = 0 /\ ~W[w].sized
                   /\ W[w].loader = 0 /\ W[w].ink = s.views[w].ink
                   /\ W[w].del = s.views[w].del
                   /\ SameInk(W[w], s.views[w]) /\ SameLists(W[w], s.views[w])
  BY <1>0, <1>3 DEF Fields, SameInk, SameLists
<1>5. \A w \in Views \ S : W[w] = s.views[w]
  OBVIOUS
<1>6. W \in [Views -> Fields]
  BY <1>3, <1>4, <1>5
<1>. HIDE DEF W, c
<1>7. /\ Reset(s, S) \in States /\ Reset(s, S).views = W /\ Reset(s, S).child = s.child
      /\ Reset(s, S).spare = s.spare /\ Reset(s, S).queue = s.queue
      /\ Reset(s, S).cancelled = c.cancelled
  BY <1>1, <1>2, <1>6, WithViews
<1>. QED
  BY <1>1, <1>4, <1>5, <1>7

LEMMA SetPageIs ==
  ASSUME NEW s \in States, posts \in Seq(Results), running \in Started \cup {None},
         NEW v \in Views, NEW p \in Pages,
         0 \notin IdsOf(Live(s.queue, posts, running))
  PROVE  \E id \in Nat :
           LET r == SetPage(s, v, p)
               L == Live(s.queue, posts, running)
           IN  /\ r \in States /\ r.child = s.child /\ r.spare = s.spare
               /\ Renewal(s, r, L, v, "loader", id, None)
               /\ r.views[v].page = p /\ r.views[v].sized
               /\ r.views[v].annots = None /\ r.views[v].sel = s.views[v].sel
               /\ SameInk(r.views[v], s.views[v])
<1>. DEFINE L == Live(s.queue, posts, running)
            c == Reset(s, {v})
            f == [c.views[v] EXCEPT !.page = p, !.sized = TRUE]
            d == [c EXCEPT !.views[v] = [@ EXCEPT !.page = p, !.sized = TRUE]]
            r == SetPage(s, v, p)
<1>1. /\ c \in States /\ c.child = s.child /\ c.spare = s.spare
      /\ c.queue = s.queue
      /\ c.cancelled = s.cancelled \cup ({s.views[w].loader : w \in {v}} \cap IdsOf(L))
      /\ \A w \in Views \ {v} : c.views[w] = s.views[w]
      /\ c.views[v].loader = 0 /\ c.views[v].ink = s.views[v].ink
      /\ c.views[v].del = s.views[v].del /\ SameInk(c.views[v], s.views[v])
      /\ SameLists(c.views[v], s.views[v])
  <2>1. {v} \in SUBSET Views
    OBVIOUS
  <2>. QED
    BY <2>1, ResetIs
<1>2. r = LoadAnnotations(d, v)
  BY DEF SetPage
<1>. HIDE DEF c, r
<1>3. /\ f \in Fields /\ f.page = p /\ f.sized /\ f.annots = s.views[v].annots
      /\ f.sel = s.views[v].sel /\ SameInk(f, s.views[v])
      /\ f.loader = 0 /\ f.ink = s.views[v].ink /\ f.del = s.views[v].del
  <2>1. c.views[v] \in Fields
    BY <1>1 DEF States
  <2>. QED
    BY <1>1, <2>1 DEF Fields, SameInk, SameLists
<1>4. d = [c EXCEPT !.views = [c.views EXCEPT ![v] = f]]
  BY <1>1 DEF States
<1>. HIDE DEF f, d
<1>5. /\ d \in States /\ d.views = [c.views EXCEPT ![v] = f] /\ d.child = s.child
      /\ d.spare = s.spare /\ d.queue = s.queue /\ d.cancelled = c.cancelled
  <2>1. [c.views EXCEPT ![v] = f] \in [Views -> Fields]
    BY <1>1, <1>3 DEF States
  <2>. QED
    BY <1>1, <1>4, <2>1, WithViews
<1>6. d.views[v] = f /\ \A w \in Views : w # v => d.views[w] = s.views[w]
  BY <1>1, <1>5 DEF States
<1>7. PICK id \in Nat :
        /\ FreshIn(d, L, id)
        /\ r \in States /\ r.child = d.child /\ r.spare = d.spare
        /\ Renewal(d, r, L, v, "loader", id, None)
        /\ SameShow(r.views[v], d.views[v]) /\ SameInk(r.views[v], d.views[v])
        /\ r.views[v].annots = None /\ r.views[v].sel = d.views[v].sel
  <2>. DEFINE e == LoadAnnotations(d, v)
  <2>1. \E id \in Nat :
        /\ FreshIn(d, Live(d.queue, posts, running), id)
        /\ e \in States /\ e.child = d.child /\ e.spare = d.spare
        /\ Renewal(d, e, Live(d.queue, posts, running), v, "loader", id, None)
        /\ SameShow(e.views[v], d.views[v]) /\ SameInk(e.views[v], d.views[v])
        /\ e.views[v].annots = None /\ e.views[v].sel = d.views[v].sel
    BY <1>5, LoadAnnotationsIs
  <2>. HIDE DEF e
  <2>2. r = e /\ d.queue = s.queue
    BY <1>2, <1>5 DEF e
  <2>. QED
    BY <2>1, <2>2
<1>8. /\ r.views[v].page = p /\ r.views[v].sized
      /\ r.views[v].annots = None /\ r.views[v].sel = s.views[v].sel
      /\ SameInk(r.views[v], s.views[v])
  BY <1>3, <1>6, <1>7 DEF SameShow, SameInk
<1>9. FreshFor(s, L, v, "loader", id)
  BY <1>3, <1>6, <1>7 DEF FreshIn, FreshFor
<1>10. FieldSet(r.views[v], s.views[v], "loader", id)
  BY <1>3, <1>6, <1>7 DEF FieldSet, Renewal
<1>11. Renewal(s, r, L, v, "loader", id, None)
  <2>0. /\ TaskOf(s.views[v], "loader") = s.views[v].loader
        /\ TaskOf(d.views[v], "loader") = 0
    BY <1>3, <1>6 DEF TaskOf
  <2>1. r.queue = Append(s.queue, Job(id, "loader", v, None))
    BY <1>5, <1>7 DEF Renewal
  <2>2. d.cancelled = s.cancelled \cup ({s.views[v].loader} \cap IdsOf(L))
    BY <1>1, <1>5
  <2>3. /\ d.cancelled \subseteq r.cancelled
        /\ \A i \in r.cancelled : i \in d.cancelled \/ (i = 0 /\ i \in IdsOf(L))
    BY <1>7, <2>0 DEF Renewal
  <2>4. 0 \notin IdsOf(L)
    OBVIOUS
  <2>. HIDE DEF L
  <2>5. /\ s.cancelled \subseteq r.cancelled
        /\ \A i \in r.cancelled : i \in s.cancelled \/ (i = s.views[v].loader /\ i \in IdsOf(L))
        /\ s.views[v].loader \in IdsOf(L) => s.views[v].loader \in r.cancelled
    BY <2>2, <2>3, <2>4
  <2>6. \A w \in Views : w # v => r.views[w] = s.views[w]
    BY <1>6, <1>7 DEF Renewal
  <2>. QED
    BY <1>9, <1>10, <2>0, <2>1, <2>5, <2>6 DEF Renewal
<1>. QED
  BY <1>5, <1>7, <1>8, <1>11 DEF r

\* A view gets a page, and loads its list.
Creation(s, r, L, v, p, id) ==
  /\ v \in Views /\ v \notin Displayed(s) /\ s.child[p] = None
  /\ r.child = [s.child EXCEPT ![p] = v]
  /\ \/ s.spare # <<>> /\ v = Head(s.spare) /\ r.spare = Tail(s.spare)
     \/ s.spare = <<>> /\ r.spare = <<>>
  /\ FreshFor(s, L, v, "loader", id)
  /\ r.queue = Append(s.queue, Job(id, "loader", v, None))
  /\ s.cancelled \subseteq r.cancelled
  /\ \A i \in r.cancelled : i \in s.cancelled \/ (i = s.views[v].loader /\ i \in IdsOf(L))
  /\ \A w \in Views : w # v => r.views[w] = s.views[w]
  /\ r.views[v].page = p /\ r.views[v].sized /\ r.views[v].loader = id
  /\ r.views[v].ink = 0 /\ r.views[v].del = 0 /\ r.views[v].annots = None
  /\ r.views[v].sel \in {s.views[v].sel, None}
  /\ \/ SameInk(r.views[v], s.views[v])
     \/ r.views[v].drawing = None /\ r.views[v].history = <<>>

LEMMA ThreeViews ==
  \A a, b : \E w \in Views : w # a /\ w # b
<1>0. SUFFICES ASSUME NEW a, NEW b
               PROVE  \E w \in Views : w # a /\ w # b
  OBVIOUS
<1>1. IsFiniteSet(Views) /\ Cardinality(Views) >= 3
  BY PageViewsAssumption
<1>2. SUFFICES ASSUME Views \subseteq {a, b}
               PROVE  FALSE
  OBVIOUS
<1>3. IsFiniteSet({a}) /\ Cardinality({a}) = 1
  BY FS_Singleton
<1>4. IsFiniteSet({a} \cup {b}) /\ Cardinality({a} \cup {b}) <= 2
  <2>1. IsFiniteSet({a} \cup {b})
        /\ Cardinality({a} \cup {b}) = IF b \in {a} THEN Cardinality({a}) ELSE Cardinality({a}) + 1
    BY <1>3, FS_AddElement
  <2>. QED
    BY <1>3, <2>1
<1>5. Views \in SUBSET ({a} \cup {b})
  BY <1>2
<1>6. Cardinality(Views) <= Cardinality({a} \cup {b})
  BY <1>4, <1>5, FS_Subset
<1>7. Cardinality(Views) \in Nat /\ Cardinality({a} \cup {b}) \in Nat
  BY <1>1, <1>4, FS_CardinalityType
<1>8. Cardinality(Views) >= 3 /\ Cardinality({a} \cup {b}) <= 2
  BY <1>1, <1>4
<1>. QED
  BY <1>6, <1>7, <1>8

\* At most two other views are displayed when one is created.
TwoOthers(s) == \E a, b : \A p \in Pages : s.child[p] \in {None, a, b}

LEMMA ThirdView ==
  ASSUME NEW s, TwoOthers(s)
  PROVE  \E w \in Views : \A p \in Pages : s.child[p] # w
<1>1. PICK a, b : \A p \in Pages : s.child[p] \in {None, a, b}
  BY DEF TwoOthers
<1>2. PICK w \in Views : w # a /\ w # b
  BY ThreeViews
<1>3. w # None
  BY PageViewsAssumption
<1>. QED
  BY <1>1, <1>2, <1>3

LEMMA GetOrCreateIs ==
  ASSUME NEW s \in States, posts \in Seq(Results), running \in Started \cup {None},
         NEW p \in Pages, s.child[p] = None, TwoOthers(s), Placed(s),
         0 \notin IdsOf(Live(s.queue, posts, running))
  PROVE  \E v \in Views, id \in Nat :
           LET r == GetOrCreateChild(s, p)
               L == Live(s.queue, posts, running)
           IN  r \in States /\ Creation(s, r, L, v, p, id)
<1>. DEFINE L == Live(s.queue, posts, running)
            unused == Views \ (Range(s.child) \cup Range(s.spare))
            v == IF s.spare # <<>> THEN Head(s.spare)
                 ELSE CHOOSE w \in unused : TRUE
            m == IF s.spare # <<>> THEN [s EXCEPT !.spare = Tail(@)]
                 ELSE [s EXCEPT !.views[v] = FreshView]
            d == [m EXCEPT !.child[p] = v]
            r == GetOrCreateChild(s, p)
<1>1. r = SetPage(d, v, p)
  BY DEF GetOrCreateChild
<1>2. /\ s.views \in [Views -> Fields] /\ s.child \in [Pages -> Views \cup {None}]
      /\ s.spare \in Seq(Views) /\ s.queue \in Seq(Jobs) /\ s.cancelled \in SUBSET Nat
  BY DEF States
<1>3. v \in Views /\ v \notin Displayed(s)
  <2>1. CASE s.spare # <<>>
    <3>1. v = s.spare[1] /\ 1 \in DOMAIN s.spare /\ v \in Views
      BY <1>2, <2>1
    <3>2. \A q \in Pages : s.child[q] # v
      BY <3>1 DEF Placed
    <3>. QED
      BY <3>1, <3>2 DEF Displayed
  <2>2. CASE s.spare = <<>>
    <3>2. PICK w \in Views : \A q \in Pages : s.child[q] # w
      BY ThirdView
    <3>3. w \in unused
      <4>1. w # None
        BY PageViewsAssumption
      <4>2. w \notin Range(s.child)
        BY <1>2, <3>2, <4>1 DEF Range
      <4>3. w \notin Range(s.spare)
        BY <2>2 DEF Range
      <4>. QED
        BY <4>2, <4>3
    <3>4. v \in unused
      BY <2>2, <3>3
    <3>5. v \notin Displayed(s)
      BY <1>2, <3>4 DEF Displayed, Range
    <3>. QED
      BY <3>4, <3>5
  <2>. QED
    BY <2>1, <2>2
<1>f. FreshView \in Fields
  <2>1. 0 \in Pages
    BY PageViewsAssumption DEF Pages
  <2>2. <<>> \in Seq(SUBSET Strokes)
    OBVIOUS
  <2>3. PICK h : h = <<>>
    OBVIOUS
  <2>4. h \in Seq(SUBSET Strokes)
    BY <2>2, <2>3
  <2>5. FreshView = [page |-> 0, sized |-> FALSE, annots |-> None, sel |-> None,
                     drawing |-> None, history |-> h,
                     loader |-> 0, ink |-> 0, del |-> 0]
    BY <2>3 DEF FreshView
  <2>. QED
    BY <2>1, <2>4, <2>5 DEF Fields
<1>4. /\ d \in States /\ d.queue = s.queue /\ d.cancelled = s.cancelled
      /\ d.child = [s.child EXCEPT ![p] = v]
      /\ \/ s.spare # <<>> /\ v = Head(s.spare) /\ d.spare = Tail(s.spare) /\ d.views = s.views
         \/ s.spare = <<>> /\ d.spare = <<>> /\ d.views = [s.views EXCEPT ![v] = FreshView]
  <2>. HIDE DEF v
  <2>1. CASE s.spare # <<>>
    <3>1. Tail(s.spare) \in Seq(Views)
      BY <1>2, <2>1
    <3>2. m = [s EXCEPT !.spare = Tail(s.spare)]
      BY <2>1
    <3>3. /\ m \in States /\ m.spare = Tail(s.spare) /\ m.views = s.views /\ m.child = s.child
          /\ m.queue = s.queue /\ m.cancelled = s.cancelled
      BY <3>1, <3>2 DEF States
    <3>. HIDE DEF m
    <3>. DEFINE C == [s.child EXCEPT ![p] = v]
    <3>4. C \in [Pages -> Views \cup {None}]
      BY <1>2, <1>3
    <3>5. d = [m EXCEPT !.child = C]
      BY <3>3 DEF States
    <3>. HIDE DEF d, C
    <3>6. d \in States /\ d.child = C /\ d.spare = m.spare /\ d.views = m.views
          /\ d.queue = m.queue /\ d.cancelled = m.cancelled
      BY <3>3, <3>4, <3>5 DEF States
    <3>7. v = Head(s.spare)
      BY <2>1 DEF v
    <3>. QED
      BY <2>1, <3>3, <3>6, <3>7 DEF C
  <2>2. CASE s.spare = <<>>
    <3>. DEFINE W == [s.views EXCEPT ![v] = FreshView]
    <3>1. W \in [Views -> Fields]
      BY <1>2, <1>3, <1>f
    <3>2. m = [s EXCEPT !.views = W]
      BY <2>2, <1>2 DEF States
    <3>. HIDE DEF W, m
    <3>3. /\ m \in States /\ m.spare = s.spare /\ m.views = W /\ m.child = s.child
          /\ m.queue = s.queue /\ m.cancelled = s.cancelled
      BY <3>1, <3>2, WithViews
    <3>. DEFINE C == [s.child EXCEPT ![p] = v]
    <3>4. C \in [Pages -> Views \cup {None}]
      BY <1>2, <1>3
    <3>5. d = [m EXCEPT !.child = C]
      BY <3>3 DEF States
    <3>. HIDE DEF d, C
    <3>6. d \in States /\ d.child = C /\ d.spare = m.spare /\ d.views = m.views
          /\ d.queue = m.queue /\ d.cancelled = m.cancelled
      BY <3>3, <3>4, <3>5 DEF States
    <3>. QED
      BY <2>2, <3>3, <3>6 DEF C, W
  <2>. QED
    BY <2>1, <2>2
<1>. HIDE DEF v, m, d, r
<1>5. PICK id \in Nat :
        /\ r \in States /\ r.child = d.child /\ r.spare = d.spare
        /\ Renewal(d, r, L, v, "loader", id, None)
        /\ r.views[v].page = p /\ r.views[v].sized
        /\ r.views[v].annots = None /\ r.views[v].sel = d.views[v].sel
        /\ SameInk(r.views[v], d.views[v])
  <2>. DEFINE e == SetPage(d, v, p)
  <2>1. \E id \in Nat :
        /\ e \in States /\ e.child = d.child /\ e.spare = d.spare
        /\ Renewal(d, e, Live(d.queue, posts, running), v, "loader", id, None)
        /\ e.views[v].page = p /\ e.views[v].sized
        /\ e.views[v].annots = None /\ e.views[v].sel = d.views[v].sel
        /\ SameInk(e.views[v], d.views[v])
    <3>1. 0 \notin IdsOf(Live(d.queue, posts, running))
      BY <1>4
    <3>. QED
      BY <1>3, <1>4, <3>1, SetPageIs
  <2>. HIDE DEF e
  <2>2. r = e /\ d.queue = s.queue
    BY <1>1, <1>4 DEF e
  <2>. QED
    BY <2>1, <2>2
<1>6. \A w \in Views : w # v => d.views[w] = s.views[w]
  BY <1>2, <1>4
<1>7. d.views[v] = s.views[v] \/ d.views[v] = FreshView
  BY <1>2, <1>3, <1>4
<1>8. s.views[v].ink = 0 /\ s.views[v].del = 0
  BY <1>3 DEF Placed
<1>9. d.views[v].ink = 0 /\ d.views[v].del = 0
  BY <1>7, <1>8 DEF FreshView
<1>10. FreshFor(s, L, v, "loader", id)
  <2>1. FreshFor(d, L, v, "loader", id)
    BY <1>5 DEF Renewal
  <2>. QED
    BY <2>1, <1>3, <1>6, <1>8 DEF FreshFor
<1>11. /\ r.views[v].loader = id /\ r.views[v].ink = 0 /\ r.views[v].del = 0
  BY <1>5, <1>9 DEF Renewal, FieldSet
<1>12. r.views[v].sel \in {s.views[v].sel, None}
  BY <1>5, <1>7 DEF FreshView
<1>13. \/ SameInk(r.views[v], s.views[v])
       \/ r.views[v].drawing = None /\ r.views[v].history = <<>>
  BY <1>5, <1>7 DEF FreshView, SameInk
<1>14. \A w \in Views : w # v => r.views[w] = s.views[w]
  BY <1>5, <1>6 DEF Renewal
<1>15. /\ r.queue = Append(s.queue, Job(id, "loader", v, None))
       /\ s.cancelled \subseteq r.cancelled
       /\ \A i \in r.cancelled : i \in s.cancelled \/ (i = d.views[v].loader /\ i \in IdsOf(L))
  BY <1>4, <1>5 DEF Renewal, TaskOf
<1>16. \A i \in r.cancelled : i \in s.cancelled \/ (i = s.views[v].loader /\ i \in IdsOf(L))
  <2>1. CASE d.views[v] = s.views[v]
    BY <1>15, <2>1
  <2>2. CASE d.views[v] = FreshView
    <3>1. d.views[v].loader = 0
      BY <2>2 DEF FreshView
    <3>. QED
      BY <1>15, <3>1
  <2>. QED
    BY <1>7, <2>1, <2>2
<1>17. \/ s.spare # <<>> /\ v = Head(s.spare) /\ r.spare = Tail(s.spare)
       \/ s.spare = <<>> /\ r.spare = <<>>
  BY <1>4, <1>5
<1>18. r.child = [s.child EXCEPT ![p] = v]
  BY <1>4, <1>5
<1>19. Creation(s, r, L, v, p, id)
  BY <1>3, <1>5, <1>10, <1>11, <1>12, <1>13, <1>14, <1>15, <1>16, <1>17, <1>18 DEF Creation
<1>. QED
  BY <1>3, <1>5, <1>19 DEF r

LEMMA ReleaseIs ==
  ASSUME NEW s \in States, posts \in Seq(Results), running \in Started \cup {None},
         NEW S \in SUBSET Views
  PROVE  LET r == ReleaseResources(s, S)
             I == IdsOf(Live(s.queue, posts, running))
         IN  /\ r \in States /\ r.child = s.child /\ r.spare = s.spare
             /\ r.queue = s.queue
             /\ s.cancelled \subseteq r.cancelled
             /\ \A i \in r.cancelled : i \in s.cancelled \/ (i \in I /\ \E v \in S :
                  i \in {s.views[v].loader, s.views[v].ink, s.views[v].del})
             /\ \A v \in S : {s.views[v].loader, s.views[v].ink, s.views[v].del} \cap I
                               \subseteq r.cancelled
             /\ \A w \in Views \ S : r.views[w] = s.views[w]
             /\ \A w \in S : /\ r.views[w].page = 0 /\ ~r.views[w].sized
                             /\ r.views[w].loader = 0 /\ r.views[w].ink = 0
                             /\ r.views[w].del = 0
                             /\ r.views[w].drawing = None /\ r.views[w].history = <<>>
                             /\ SameLists(r.views[w], s.views[w])
<1>. DEFINE I == IdsOf(Live(s.queue, posts, running))
            U == UNION {{s.views[v].ink, s.views[v].del} : v \in S}
            b == Cancel(s, U)
            c == Reset(b, S)
            W == [v \in Views |->
                    IF v \in S
                    THEN [c.views[v] EXCEPT !.ink = 0, !.del = 0,
                                            !.drawing = None, !.history = <<>>]
                    ELSE c.views[v]]
<1>1. /\ b \in States /\ b.views = s.views /\ b.child = s.child /\ b.spare = s.spare
      /\ b.queue = s.queue
      /\ b.cancelled = s.cancelled \cup (U \cap I)
  BY CancelIs
<1>2. ReleaseResources(s, S) = [c EXCEPT !.views = W]
  BY DEF ReleaseResources
<1>. HIDE DEF b, U
<1>3. /\ c \in States /\ c.child = b.child /\ c.spare = b.spare
      /\ c.queue = b.queue
      /\ c.cancelled = b.cancelled \cup ({b.views[v].loader : v \in S}
                                        \cap IdsOf(Live(b.queue, posts, running)))
      /\ \A w \in Views \ S : c.views[w] = b.views[w]
      /\ \A w \in S : /\ c.views[w].page = 0 /\ ~c.views[w].sized
                      /\ c.views[w].loader = 0 /\ c.views[w].ink = b.views[w].ink
                      /\ c.views[w].del = b.views[w].del
                      /\ SameInk(c.views[w], b.views[w])
                      /\ SameLists(c.views[w], b.views[w])
  BY <1>1, ResetIs
<1>. HIDE DEF c
<1>4. \A w \in Views : c.views[w] \in Fields
  BY <1>3 DEF States
<1>5. \A w \in S : W[w] \in Fields
  <2>1. PICK h \in Seq(SUBSET Strokes) : h = <<>>
    <3>1. <<>> \in Seq(SUBSET Strokes)
      OBVIOUS
    <3>. QED
      BY <3>1
  <2>2. SUFFICES ASSUME NEW w \in S
                 PROVE  [c.views[w] EXCEPT !.ink = 0, !.del = 0,
                                           !.drawing = None, !.history = h] \in Fields
    BY <2>1
  <2>3. c.views[w] \in Fields
    BY <1>4
  <2>. QED
    BY <2>1, <2>3 DEF Fields
<1>6. \A w \in S :
        /\ W[w].page = 0 /\ ~W[w].sized /\ W[w].loader = 0 /\ W[w].ink = 0
        /\ W[w].del = 0 /\ W[w].drawing = None /\ W[w].history = <<>>
        /\ SameLists(W[w], s.views[w])
  BY <1>1, <1>3, <1>4 DEF Fields, SameLists
<1>7. \A w \in Views \ S : W[w] = s.views[w]
  BY <1>1, <1>3
<1>8. W \in [Views -> Fields]
  BY <1>4, <1>5
<1>. HIDE DEF W
<1>9. /\ ReleaseResources(s, S) \in States /\ ReleaseResources(s, S).views = W
      /\ ReleaseResources(s, S).child = s.child
      /\ ReleaseResources(s, S).spare = s.spare
      /\ ReleaseResources(s, S).queue = s.queue
      /\ ReleaseResources(s, S).cancelled = c.cancelled
  BY <1>1, <1>2, <1>3, <1>8, WithViews
<1>10. c.cancelled = s.cancelled \cup (U \cap I) \cup ({s.views[v].loader : v \in S} \cap I)
  BY <1>1, <1>3
<1>11. \A i : i \in U <=> \E v \in S : i \in {s.views[v].ink, s.views[v].del}
  BY DEF U
<1>. HIDE DEF I
<1>12. /\ \A i \in c.cancelled : i \in s.cancelled \/ (i \in I /\ \E v \in S :
                  i \in {s.views[v].loader, s.views[v].ink, s.views[v].del})
       /\ \A v \in S : {s.views[v].loader, s.views[v].ink, s.views[v].del} \cap I
                               \subseteq c.cancelled
       /\ s.cancelled \subseteq c.cancelled
  BY <1>10, <1>11
<1>. QED
  BY <1>6, <1>7, <1>9, <1>12 DEF I

-----------------------------------------------------------------------------

IsAscending(q, S) ==
  /\ q \in [1..Cardinality(S) -> S]
  /\ \A i, j \in 1..Cardinality(S) : i < j => q[i] < q[j]

LEMMA LastPage ==
  ASSUME NEW S \in SUBSET Pages, S # {}
  PROVE  \E m \in S : \A x \in S : x <= m
<1>. DEFINE D == {NumPages - x : x \in S}
<1>0. \A x \in S : x \in Nat /\ x <= NumPages /\ NumPages \in Nat
  BY PageViewsAssumption DEF Pages
<1>1. D \in SUBSET Nat /\ D # {}
  <2>1. \A x \in S : NumPages - x \in Nat
    BY <1>0
  <2>2. D \subseteq Nat
    BY <2>1
  <2>. QED
    BY <2>2
<1>2. PICK d \in D : \A x \in D : d <= x
  BY <1>1, LeastExists
<1>3. PICK m \in S : d = NumPages - m
  BY <1>2
<1>4. \A x \in S : NumPages - m <= NumPages - x
  BY <1>2, <1>3
<1>. QED
  BY <1>0, <1>3, <1>4

\* Every set of pages has an ascending enumeration.
LEMMA AscendingExists ==
  \A S \in SUBSET Pages : \E q : IsAscending(q, S)
<1>. DEFINE Bad == {m \in Nat : \E S \in SUBSET Pages :
                      Cardinality(S) = m /\ ~\E q : IsAscending(q, S)}
<1>0. \A S \in SUBSET Pages : IsFiniteSet(S) /\ Cardinality(S) \in Nat
  <2>1. IsFiniteSet(Pages)
    <3>1. 0 \in Int /\ NumPages - 1 \in Int
      BY PageViewsAssumption
    <3>. QED
      BY <3>1, FS_Interval DEF Pages
  <2>. QED
    BY <2>1, FS_Subset, FS_CardinalityType
<1>1. SUFFICES ASSUME Bad # {}
               PROVE  FALSE
  BY <1>0
<1>2. PICK m \in Bad : \A x \in Bad : m <= x
  <2>1. Bad \in SUBSET Nat
    OBVIOUS
  <2>. HIDE DEF Bad
  <2>. QED
    BY <1>1, <2>1, LeastExists
<1>3. PICK S \in SUBSET Pages : Cardinality(S) = m /\ ~\E q : IsAscending(q, S)
  OBVIOUS
<1>4. m \in Nat /\ IsFiniteSet(S)
  BY <1>0
<1>5. CASE S = {}
  <2>1. m = 0
    BY <1>3, <1>5, FS_EmptySet
  <2>. DEFINE e == [i \in 1..0 |-> 0]
  <2>2. IsAscending(e, S)
    BY <1>3, <1>5, <2>1 DEF IsAscending
  <2>. QED
    BY <1>3, <2>2
<1>6. CASE S # {}
  <2>1. PICK t \in S : \A x \in S : x <= t
    BY <1>6, LastPage
  <2>. DEFINE T == S \ {t}
  <2>2. T \in SUBSET Pages /\ Cardinality(T) = m - 1 /\ m - 1 \in Nat
    <3>1. T \in SUBSET Pages /\ Cardinality(T) \in Nat
      BY <1>0
    <3>2. Cardinality(T) = m - 1
      BY <1>3, <1>4, <2>1, FS_RemoveElement
    <3>. QED
      BY <3>1, <3>2
  <2>. HIDE DEF T
  <2>3. m - 1 \notin Bad
    BY <1>2, <1>4, <2>2
  <2>4. PICK q : IsAscending(q, T)
    BY <2>2, <2>3
  <2>. DEFINE r == [i \in 1..m |-> IF i = m THEN t ELSE q[i]]
  <2>5. \A i \in 1..m : i # m => i \in 1..(m - 1)
    BY <1>4
  <2>6. q \in [1..(m - 1) -> T] /\ \A i, j \in 1..(m - 1) : i < j => q[i] < q[j]
    BY <2>2, <2>4 DEF IsAscending
  <2>7. r \in [1..m -> S]
    BY <2>1, <2>5, <2>6 DEF T
  <2>8. \A i \in 1..(m - 1) : q[i] < t
    <3>1. SUFFICES ASSUME NEW i \in 1..(m - 1)
                   PROVE  q[i] < t
      OBVIOUS
    <3>2. q[i] \in S /\ q[i] # t
      BY <2>6 DEF T
    <3>0. \A x \in Pages : x \in Int
      BY DEF Pages
    <3>3. q[i] \in Int /\ t \in Int /\ q[i] <= t
      BY <2>1, <3>0, <3>2
    <3>. QED
      BY <3>2, <3>3
  <2>9. \A i, j \in 1..m : i < j => r[i] < r[j]
    <3>1. SUFFICES ASSUME NEW i \in 1..m, NEW j \in 1..m, i < j
                   PROVE  r[i] < r[j]
      OBVIOUS
    <3>2. i # m
      BY <3>1, <1>4
    <3>3. i \in 1..(m - 1) /\ r[i] = q[i]
      BY <3>2, <2>5
    <3>4. CASE j = m
      BY <2>8, <3>3, <3>4
    <3>5. CASE j # m
      BY <2>5, <2>6, <3>1, <3>3, <3>5
    <3>. QED
      BY <3>4, <3>5
  <2>10. IsAscending(r, S)
    BY <1>3, <2>7, <2>9 DEF IsAscending
  <2>. QED
    BY <1>3, <2>10
<1>. QED
  BY <1>5, <1>6

LEMMA AscendingIs ==
  ASSUME NEW S \in SUBSET Pages
  PROVE  LET n == Cardinality(S) IN
         /\ n \in Nat /\ Ascending(S) \in [1..n -> S]
         /\ \A i, j \in 1..n : i # j => Ascending(S)[i] # Ascending(S)[j]
<1>. DEFINE n == Cardinality(S)
            q == Ascending(S)
<1>1. IsAscending(q, S)
  <2>1. \E r : IsAscending(r, S)
    BY AscendingExists
  <2>. QED
    BY <2>1 DEF IsAscending, Ascending
<1>2. n \in Nat
  <2>1. 0 \in Int /\ NumPages - 1 \in Int
    BY PageViewsAssumption
  <2>2. IsFiniteSet(Pages)
    BY <2>1, FS_Interval DEF Pages
  <2>. QED
    BY <2>2, FS_Subset, FS_CardinalityType
<1>. HIDE DEF q, n
<1>3. q \in [1..n -> S] /\ \A i, j \in 1..n : i < j => q[i] < q[j]
  BY <1>1 DEF IsAscending, n
<1>4. \A i \in 1..n : q[i] \in Int
  <2>1. \A x \in Pages : x \in Int
    BY DEF Pages
  <2>2. \A i \in 1..n : q[i] \in S
    BY <1>3
  <2>. QED
    BY <2>1, <2>2
<1>5. \A i, j \in 1..n : i # j => q[i] # q[j]
  <2>1. SUFFICES ASSUME NEW i \in 1..n, NEW j \in 1..n, i # j
                 PROVE  q[i] # q[j]
    OBVIOUS
  <2>2. i < j \/ j < i
    BY <1>2, <2>1
  <2>3. q[i] < q[j] \/ q[j] < q[i]
    BY <1>3, <2>2
  <2>. QED
    BY <1>4, <2>3
<1>. QED
  BY <1>2, <1>3, <1>5 DEF q, n

-----------------------------------------------------------------------------

Far(s, c) == {p \in Pages : s.child[p] # None /\ (p + 1 < c \/ p > c + 1)}
Gone(s, c) == {s.child[p] : p \in Far(s, c)}

\* Views that are not near the page c are released and wait to be used again.
Removal(s, r, L, c) ==
  /\ r.queue = s.queue
  /\ r.child = [p \in Pages |-> IF p \in Far(s, c) THEN None ELSE s.child[p]]
  /\ s.cancelled \subseteq r.cancelled
  /\ \A i \in r.cancelled : i \in s.cancelled \/ (i \in IdsOf(L) /\ \E v \in Gone(s, c) :
       i \in {s.views[v].loader, s.views[v].ink, s.views[v].del})
  /\ \A v \in Gone(s, c) : \A i \in {s.views[v].loader, s.views[v].ink, s.views[v].del} :
       i \in IdsOf(L) => i \in r.cancelled
  /\ \A w \in Views \ Gone(s, c) : r.views[w] = s.views[w]
  /\ \A w \in Gone(s, c) : /\ r.views[w].page = 0 /\ ~r.views[w].sized
                  /\ r.views[w].loader = 0 /\ r.views[w].ink = 0
                  /\ r.views[w].del = 0
                  /\ r.views[w].drawing = None /\ r.views[w].history = <<>>
                  /\ SameLists(r.views[w], s.views[w])
  /\ \E old \in Seq(Views) :
       /\ r.spare = s.spare \o old
       /\ \A i \in DOMAIN old : old[i] \in Gone(s, c)
       /\ \A i, j \in DOMAIN old : i # j => old[i] # old[j]

LEMMA RemoveIs ==
  ASSUME NEW s \in States, posts \in Seq(Results), running \in Started \cup {None},
         NEW c \in Pages, Placed(s)
  PROVE  LET r == RemoveSuperfluous(s, c) IN
         r \in States /\ Removal(s, r, Live(s.queue, posts, running), c)
<1>. DEFINE L == Live(s.queue, posts, running)
            F == Far(s, c)
            G == Gone(s, c)
            n == Cardinality(F)
            q == Ascending(F)
            old == [i \in 1..n |-> s.child[q[i]]]
            C == [p \in Pages |-> IF p \in F THEN None ELSE s.child[p]]
            b == ReleaseResources(s, G)
            r == RemoveSuperfluous(s, c)
<1>1. r = [b EXCEPT !.spare = @ \o old, !.child = C]
  BY DEF RemoveSuperfluous, Far, Gone
<1>2. s.child \in [Pages -> Views \cup {None}] /\ s.spare \in Seq(Views)
  BY DEF States
<1>3. F \in SUBSET Pages /\ \A p \in F : s.child[p] \in Views /\ s.child[p] \in G
  BY <1>2 DEF Far, Gone
<1>4. G \in SUBSET Views
  BY <1>3 DEF Gone
<1>5. n \in Nat /\ q \in [1..n -> F] /\ \A i, j \in 1..n : i # j => q[i] # q[j]
  BY <1>3, AscendingIs
<1>. HIDE DEF q, n
<1>6. /\ old \in Seq(Views) /\ DOMAIN old = 1..n
      /\ \A i \in 1..n : old[i] \in G
      /\ \A i, j \in 1..n : i # j => old[i] # old[j]
  <2>1. \A i \in 1..n : old[i] \in G /\ old[i] \in Views
    BY <1>3, <1>5
  <2>2. \A i, j \in 1..n : i # j => old[i] # old[j]
    <3>1. SUFFICES ASSUME NEW i \in 1..n, NEW j \in 1..n, i # j
                   PROVE  s.child[q[i]] # s.child[q[j]]
      OBVIOUS
    <3>2. q[i] \in Pages /\ q[j] \in Pages /\ q[i] # q[j] /\ s.child[q[i]] # None
      BY <1>3, <1>5, <3>1 DEF Far
    <3>. QED
      BY <3>2 DEF Placed
  <2>. QED
    BY <1>5, <2>1, <2>2
<1>7. /\ b \in States /\ b.child = s.child /\ b.spare = s.spare
      /\ b.queue = s.queue
      /\ s.cancelled \subseteq b.cancelled
      /\ \A i \in b.cancelled : i \in s.cancelled \/ (i \in IdsOf(L) /\ \E v \in G :
                  i \in {s.views[v].loader, s.views[v].ink, s.views[v].del})
      /\ \A v \in G : {s.views[v].loader, s.views[v].ink, s.views[v].del} \cap IdsOf(L)
                               \subseteq b.cancelled
      /\ \A w \in Views \ G : b.views[w] = s.views[w]
      /\ \A w \in G : /\ b.views[w].page = 0 /\ ~b.views[w].sized
                             /\ b.views[w].loader = 0 /\ b.views[w].ink = 0
                             /\ b.views[w].del = 0
                             /\ b.views[w].drawing = None /\ b.views[w].history = <<>>
                             /\ SameLists(b.views[w], s.views[w])
  <2>. HIDE DEF G
  <2>. QED
    BY <1>4, ReleaseIs
<1>8. C \in [Pages -> Views \cup {None}]
  BY <1>2, <1>3
<1>. HIDE DEF b, r, C, old
<1>9. s.spare \o old \in Seq(Views)
  BY <1>2, <1>6
<1>10. /\ r \in States /\ r.views = b.views /\ r.queue = b.queue
       /\ r.cancelled = b.cancelled /\ r.child = C /\ r.spare = s.spare \o old
  <2>. DEFINE P == s.spare \o old
  <2>1. r = [b EXCEPT !.spare = P, !.child = C]
    BY <1>1, <1>7
  <2>2. P \in Seq(Views)
    BY <1>9
  <2>. HIDE DEF P
  <2>3. /\ r \in States /\ r.views = b.views /\ r.queue = b.queue
       /\ r.cancelled = b.cancelled /\ r.child = C /\ r.spare = P
    BY <1>7, <1>8, <2>1, <2>2 DEF States
  <2>. QED
    BY <2>3 DEF P
<1>11. \E o \in Seq(Views) :
       /\ r.spare = s.spare \o o
       /\ \A i \in DOMAIN o : o[i] \in Gone(s, c)
       /\ \A i, j \in DOMAIN o : i # j => o[i] # o[j]
  BY <1>6, <1>10
<1>12. r.child = [p \in Pages |-> IF p \in Far(s, c) THEN None ELSE s.child[p]]
  BY <1>10 DEF C
<1>13. Removal(s, r, L, c)
  <2>. HIDE DEF L
  <2>. QED
    BY <1>7, <1>10, <1>11, <1>12 DEF Removal
<1>. QED
  BY <1>10, <1>13 DEF r

-----------------------------------------------------------------------------
(* What becomes of the tasks when a handler begins one, or blanks a view.  *)

NewTag(id, k, v) == [id |-> id, kind |-> k, view |-> v]

LEMMA InLive ==
  ASSUME NEW Q, NEW P, NEW R
  PROVE  /\ \A i \in DOMAIN Q : Tag(Q[i]) \in Live(Q, P, R)
         /\ \A i \in DOMAIN P : Tag(P[i]) \in Live(Q, P, R)
         /\ R # None => Tag(R) \in Live(Q, P, R)
         /\ \A t : Tag(t).id = t.id /\ Tag(t).kind = t.kind /\ Tag(t).view = t.view
         /\ \A x \in Live(Q, P, R) : \/ \E i \in DOMAIN Q : x = Tag(Q[i])
                                     \/ \E i \in DOMAIN P : x = Tag(P[i])
                                     \/ R # None /\ x = Tag(R)
<1>1. \A t : Tag(t).id = t.id /\ Tag(t).kind = t.kind /\ Tag(t).view = t.view
  BY DEF Tag
<1>. QED
  BY <1>1 DEF Live

LEMMA AppendLive ==
  ASSUME NEW Q \in Seq(Jobs), NEW P \in Seq(Results), NEW R \in Started \cup {None},
         NEW id, NEW k, NEW v, NEW t, Job(id, k, v, t) \in Jobs, id # 0,
         Distinct(Q, P, R), \A x \in Live(Q, P, R) : x.id # id
  PROVE  LET Q2 == Append(Q, Job(id, k, v, t)) IN
         /\ Live(Q2, P, R) = Live(Q, P, R) \cup {NewTag(id, k, v)}
         /\ Distinct(Q2, P, R)
<1>. DEFINE j == Job(id, k, v, t)
            Q2 == Append(Q, j)
            m == Len(Q) + 1
<1>1. j.id = id /\ Tag(j) = NewTag(id, k, v)
  BY DEF Job, Tag, NewTag
<1>2. /\ DOMAIN Q2 = DOMAIN Q \cup {m} /\ m \notin DOMAIN Q
      /\ \A i \in DOMAIN Q : Q2[i] = Q[i]
      /\ Q2[m] = j
  <2>. HIDE DEF j
  <2>. QED
    BY AppendItems
<1>. HIDE DEF j, Q2, m
<1>3. Live(Q2, P, R) = Live(Q, P, R) \cup {NewTag(id, k, v)}
  <2>1. \A x : x \in {Tag(Q2[i]) : i \in DOMAIN Q2}
          <=> x \in {Tag(Q[i]) : i \in DOMAIN Q} \/ x = NewTag(id, k, v)
    BY <1>1, <1>2
  <2>. QED
    BY <2>1 DEF Live
<1>4. /\ \A i \in DOMAIN Q : Q[i].id # id
      /\ \A i \in DOMAIN P : P[i].id # id
      /\ R # None => R.id # id
  BY InLive
<1>5. \A i \in DOMAIN Q2 : i = m \/ i \in DOMAIN Q
  BY <1>2
<1>6. Distinct(Q2, P, R)
  <2>1. \A i, l \in DOMAIN Q2 : Q2[i].id = Q2[l].id => i = l
    BY <1>1, <1>2, <1>4 DEF Distinct
  <2>2. \A i \in DOMAIN Q2, l \in DOMAIN P : Q2[i].id # P[l].id
    BY <1>1, <1>2, <1>4 DEF Distinct
  <2>3. \A i \in DOMAIN Q2 : Q2[i].id # 0 /\ (R # None => Q2[i].id # R.id)
    BY <1>1, <1>2, <1>4 DEF Distinct
  <2>. QED
    BY <2>1, <2>2, <2>3 DEF Distinct
<1>. QED
  BY <1>3, <1>6 DEF Q2, j

\* The old task of the view, if there is one, is cancelled; the new is remembered.
LEMMA RenewRemembered ==
  ASSUME NEW s \in States, NEW r \in States, NEW L \in SUBSET Tags, NEW lt \in BOOLEAN,
         Remembered(s, L, lt), NEW v \in Views, NEW k \in Kinds, NEW id,
         FreshFor(s, L, v, k, id),
         s.cancelled \subseteq r.cancelled,
         \A i \in r.cancelled : i \in s.cancelled \/ (i = TaskOf(s.views[v], k) /\ i \in IdsOf(L)),
         \A t \in L : t.kind = k /\ t.view = v /\ (k = "loader" => ~lt) => t.id \in r.cancelled,
         \A w \in Views : w # v => r.views[w] = s.views[w],
         FieldSet(r.views[v], s.views[v], k, id),
         Displayed(s) \subseteq Displayed(r), k = "loader" /\ ~lt => v \in Displayed(r)
  PROVE  Remembered(r, L \cup {NewTag(id, k, v)}, lt)
<1>. DEFINE n == NewTag(id, k, v)
<1>1. n.id = id /\ n.kind = k /\ n.view = v
  BY DEF NewTag
<1>. HIDE DEF n
<1>2. \A t \in L : t.view \in Views /\ t.kind \in Kinds /\ t.id # id
  BY DEF Tags, FreshFor
<1>3. \A i \in r.cancelled : \E t \in L \cup {n} : t.id = i
  BY DEF Remembered, IdsOf
<1>4. id \notin r.cancelled
  <2>1. \A i \in r.cancelled : \E t \in L : t.id = i
    BY DEF Remembered, IdsOf
  <2>. QED
    BY <1>2, <2>1
<1>5. ASSUME NEW t \in L, NEW w \in Views
      PROVE  /\ r.views[w].loader = t.id => t.kind = "loader" /\ t.view = w
             /\ r.views[w].ink = t.id => t.kind = "ink" /\ t.view = w
             /\ r.views[w].del = t.id => t.kind = "del" /\ t.view = w
  <2>1. CASE w # v
    BY <2>1 DEF Remembered
  <2>2. CASE w = v
    BY <1>2, <2>2 DEF Remembered, FieldSet
  <2>. QED
    BY <2>1, <2>2
<1>6. ASSUME NEW w \in Views
      PROVE  /\ r.views[w].loader = id => k = "loader" /\ v = w
             /\ r.views[w].ink = id => k = "ink" /\ v = w
             /\ r.views[w].del = id => k = "del" /\ v = w
  <2>1. CASE w # v
    BY <2>1 DEF FreshFor
  <2>2. CASE w = v
    BY <2>2 DEF FreshFor, FieldSet
  <2>. QED
    BY <2>1, <2>2
<1>7. ASSUME NEW t \in L, t.id \notin r.cancelled
      PROVE  /\ t.kind = "ink" => r.views[t.view].ink = t.id
             /\ t.kind = "del" => r.views[t.view].del = t.id
             /\ t.kind = "loader" /\ ~lt =>
                  r.views[t.view].loader = t.id /\ t.view \in Displayed(r)
  <2>1. t.id \notin s.cancelled
    BY <1>7
  <2>2. CASE t.view # v
    BY <1>2, <2>1, <2>2 DEF Remembered
  <2>3. CASE t.view = v
    BY <1>2, <1>7, <2>1, <2>3 DEF Remembered, FieldSet
  <2>. QED
    BY <2>2, <2>3
<1>8. /\ k = "ink" => r.views[v].ink = id
      /\ k = "del" => r.views[v].del = id
      /\ k = "loader" => r.views[v].loader = id
  BY DEF FieldSet
<1>. QED
  BY <1>1, <1>3, <1>5, <1>6, <1>7, <1>8 DEF Remembered, n

\* A loader that is renewed for the view whose list is about to be loaded again
\* is not taken for the one before it, and no deletion will renew it once more.
Apart(r, P, R, v, k, id) ==
  R # None /\ R.step = "reload" /\ R.id \notin r.cancelled /\ k = "loader" /\ v = R.view =>
    /\ id # R.page
    /\ \A i \in DOMAIN P : P[i].kind = "del" /\ P[i].view = R.view => P[i].id \in r.cancelled

LEMMA RenewReloadKnown ==
  ASSUME NEW s \in States, NEW r \in States, NEW L \in SUBSET Tags, NEW lt \in BOOLEAN,
         Remembered(s, L, lt), NEW v \in Views, NEW k \in Kinds, NEW id,
         NEW P, NEW R \in Started \cup {None}, R # None => Tag(R) \in L,
         ReloadKnown(s, L, P, R),
         FreshFor(s, L, v, k, id),
         s.cancelled \subseteq r.cancelled,
         \A w \in Views : w # v => r.views[w] = s.views[w],
         FieldSet(r.views[v], s.views[v], k, id),
         Apart(r, P, R, v, k, id)
  PROVE  ReloadKnown(r, L \cup {NewTag(id, k, v)}, P, R)
<1>1. SUFFICES ASSUME R # None, R.step = "reload", R.id \notin r.cancelled
               PROVE  IF r.views[R.view].loader = R.page
                      THEN \A t \in L \cup {NewTag(id, k, v)} : t.id = R.page => R.page \in r.cancelled
                      ELSE \A i \in DOMAIN P : P[i].kind = "del" /\ P[i].view = R.view =>
                             P[i].id \in r.cancelled
  BY DEF ReloadKnown
<1>2. R.view \in Views /\ R.id \notin s.cancelled
  BY <1>1, StartedType
<1>3. CASE k = "loader" /\ v = R.view
  BY <1>1, <1>2, <1>3 DEF Apart, FieldSet
<1>4. CASE ~(k = "loader" /\ v = R.view)
  <2>1. r.views[R.view].loader = s.views[R.view].loader
    BY <1>2, <1>4 DEF FieldSet, Kinds
  <2>2. s.views[R.view].loader # id
    BY <1>2, <1>4 DEF FreshFor
  <2>3. NewTag(id, k, v).id = id
    BY DEF NewTag
  <2>. QED
    BY <1>1, <1>2, <2>1, <2>2, <2>3 DEF ReloadKnown
<1>. QED
  BY <1>3, <1>4

LEMMA NoTaskIsZero ==
  ASSUME NEW Q, NEW P, NEW R, Distinct(Q, P, R)
  PROVE  0 \notin IdsOf(Live(Q, P, R)) /\ \A t \in Live(Q, P, R) : t.id # 0
<1>1. \A t \in Live(Q, P, R) : t.id # 0
  BY InLive DEF Distinct
<1>. QED
  BY <1>1 DEF IdsOf

\* What a view does of its own accord: it is on the screen, or given up already.
LEMMA DisplayedTask ==
  ASSUME NEW s \in States, NEW P \in Seq(Results), NEW R \in Started \cup {None},
         NEW lt \in BOOLEAN, TasksGood(s, P, R, lt),
         NEW t \in Live(s.queue, P, R), t.id \notin s.cancelled,
         t.kind # "loader" \/ ~lt
  PROVE  t.view \in Displayed(s) /\ TaskOf(s.views[t.view], t.kind) = t.id
<1>1. t \in Tags /\ t.id # 0
  BY LiveType, NoTaskIsZero DEF TasksGood, States
<1>2. t.kind \in {"loader", "ink", "del"} /\ t.view \in Views
  BY <1>1 DEF Tags, Kinds
<1>. QED
  BY <1>1, <1>2 DEF TasksGood, Remembered, Placed, TaskOf

LEMMA RenewalTasksGood ==
  ASSUME NEW s \in States, NEW r \in States, NEW P \in Seq(Results),
         NEW R \in Started \cup {None}, NEW lt \in BOOLEAN, TasksGood(s, P, R, lt),
         NEW v \in Views, NEW k \in Kinds, NEW id, NEW t, Job(id, k, v, t) \in Jobs,
         Renewal(s, r, Live(s.queue, P, R), v, k, id, t), v \in Displayed(s),
         r.child = s.child, r.spare = s.spare, SameShow(r.views[v], s.views[v]),
         Apart(r, P, R, v, k, id)
  PROVE  TasksGood(r, P, R, lt)
<1>. DEFINE L == Live(s.queue, P, R)
<1>0. /\ L \in SUBSET Tags /\ (R # None => Tag(R) \in L)
      /\ Displayed(r) = Displayed(s)
  BY LiveType, InLive DEF States, Displayed
<1>1. /\ FreshFor(s, L, v, k, id)
      /\ s.cancelled \subseteq r.cancelled
      /\ \A i \in r.cancelled : i \in s.cancelled \/ (i = TaskOf(s.views[v], k) /\ i \in IdsOf(L))
      /\ TaskOf(s.views[v], k) \in IdsOf(L) => TaskOf(s.views[v], k) \in r.cancelled
      /\ \A w \in Views : w # v => r.views[w] = s.views[w]
      /\ FieldSet(r.views[v], s.views[v], k, id)
      /\ r.queue = Append(s.queue, Job(id, k, v, t))
  BY DEF Renewal
<1>2. /\ Live(r.queue, P, R) = L \cup {NewTag(id, k, v)}
      /\ Distinct(r.queue, P, R)
  <2>1. \A x \in L : x.id # id /\ id # 0
    BY <1>1 DEF FreshFor
  <2>2. s.queue \in Seq(Jobs) /\ Distinct(s.queue, P, R) /\ id # 0
    BY <1>1 DEF States, TasksGood, FreshFor
  <2>. QED
    BY <1>1, <2>1, <2>2, AppendLive
<1>3. \A x \in L : x.kind = k /\ x.view = v /\ (k = "loader" => ~lt) => x.id \in r.cancelled
  <2>1. SUFFICES ASSUME NEW x \in L, x.kind = k, x.view = v, k = "loader" => ~lt,
                        x.id \notin s.cancelled
                 PROVE  x.id \in r.cancelled
    BY <1>1
  <2>2. TaskOf(s.views[v], k) = x.id
    BY <2>1, DisplayedTask
  <2>3. x.id \in IdsOf(L)
    BY DEF IdsOf
  <2>. QED
    BY <1>1, <2>2, <2>3
<1>. HIDE DEF L
<1>4. Remembered(r, L \cup {NewTag(id, k, v)}, lt)
  <2>1. Remembered(s, L, lt)
    BY DEF TasksGood, L
  <2>. QED
    BY <1>0, <1>1, <1>3, <2>1, RenewRemembered
<1>5. ReloadKnown(r, L \cup {NewTag(id, k, v)}, P, R)
  <2>1. Remembered(s, L, lt) /\ ReloadKnown(s, L, P, R)
    BY DEF TasksGood, L
  <2>. QED
    BY <1>0, <1>1, <2>1, RenewReloadKnown
<1>6. Placed(r)
  <2>0. Placed(s)
    BY DEF TasksGood
  <2>1. \A w \in Views : /\ SameShow(r.views[w], s.views[w])
                         /\ w \notin Displayed(s) => r.views[w] = s.views[w]
    BY <1>1 DEF SameShow
  <2>2. \A p \in Pages : s.child[p] # None => s.child[p] \in Views
    BY DEF States
  <2>3. \A p \in Pages : s.child[p] # None =>
          r.views[s.child[p]].page = p /\ r.views[s.child[p]].sized
    BY <2>0, <2>1, <2>2 DEF Placed, SameShow
  <2>. QED
    BY <1>0, <2>0, <2>1, <2>3 DEF Placed
<1>. QED
  BY <1>2, <1>4, <1>5, <1>6 DEF TasksGood

LEMMA CreationTasksGood ==
  ASSUME NEW s \in States, NEW r \in States, NEW P \in Seq(Results),
         NEW R \in Started \cup {None}, NEW lt \in BOOLEAN, TasksGood(s, P, R, lt),
         NEW v \in Views, NEW p \in Pages, NEW id \in Nat,
         Creation(s, r, Live(s.queue, P, R), v, p, id)
  PROVE  TasksGood(r, P, R, lt)
<1>. DEFINE L == Live(s.queue, P, R)
            k == "loader"
<1>0. /\ L \in SUBSET Tags /\ (R # None => Tag(R) \in L)
      /\ s.child \in [Pages -> Views \cup {None}]
  BY LiveType, InLive DEF States
<1>d. /\ v \notin Displayed(s) /\ s.child[p] = None
      /\ r.child = [s.child EXCEPT ![p] = v]
  BY DEF Creation
<1>e. /\ Displayed(r) = Displayed(s) \cup {v}
      /\ r.child[p] = v /\ \A q \in Pages : q # p => r.child[q] = s.child[q]
  <2>1. r.child[p] = v /\ \A q \in Pages : q # p => r.child[q] = s.child[q]
    BY <1>0, <1>d
  <2>2. v # None
    BY PageViewsAssumption
  <2>3. \A w \in Views : w \in Displayed(r) <=> w \in Displayed(s) \/ w = v
    <3>1. SUFFICES ASSUME NEW w \in Views
                   PROVE  (\E q \in Pages : r.child[q] = w)
                            <=> (\E q \in Pages : s.child[q] = w) \/ w = v
      BY DEF Displayed
    <3>2. w # None
      BY PageViewsAssumption
    <3>. QED
      BY <1>d, <2>1, <3>2
  <2>. QED
    BY <2>1, <2>3 DEF Displayed
<1>1. /\ FreshFor(s, L, v, k, id)
      /\ s.cancelled \subseteq r.cancelled
      /\ \A i \in r.cancelled : i \in s.cancelled \/ (i = s.views[v].loader /\ i \in IdsOf(L))
      /\ \A w \in Views : w # v => r.views[w] = s.views[w]
      /\ r.queue = Append(s.queue, Job(id, k, v, None))
      /\ r.views[v].page = p /\ r.views[v].sized /\ r.views[v].loader = id
      /\ r.views[v].ink = 0 /\ r.views[v].del = 0
  BY DEF Creation
<1>. HIDE DEF k
<1>k. k = "loader" /\ k \in Kinds
  BY DEF k, Kinds
<1>a. s.views[v].ink = 0 /\ s.views[v].del = 0
  BY <1>d DEF TasksGood, Placed
<1>b. FieldSet(r.views[v], s.views[v], k, id)
  BY <1>1, <1>a, <1>k DEF FieldSet
<1>c. \A i \in r.cancelled : i \in s.cancelled \/ (i = TaskOf(s.views[v], k) /\ i \in IdsOf(L))
  BY <1>1, <1>k DEF TaskOf
<1>2. /\ Live(r.queue, P, R) = L \cup {NewTag(id, k, v)}
      /\ Distinct(r.queue, P, R)
  <2>1. \A x \in L : x.id # id
    BY <1>1 DEF FreshFor
  <2>2. s.queue \in Seq(Jobs) /\ Distinct(s.queue, P, R) /\ id # 0
    BY <1>1 DEF States, TasksGood, FreshFor
  <2>3. Job(id, k, v, None) \in Jobs
    BY <1>k DEF Job, Jobs
  <2>. QED
    BY <1>1, <2>1, <2>2, <2>3, AppendLive
<1>3. \A x \in L : x.kind = k /\ x.view = v /\ (k = "loader" => ~lt) => x.id \in r.cancelled
  <2>1. SUFFICES ASSUME NEW x \in L, x.kind = k, x.view = v, k = "loader" => ~lt,
                        x.id \notin s.cancelled
                 PROVE  FALSE
    BY <1>1
  <2>2. v \in Displayed(s)
    BY <1>k, <2>1, DisplayedTask
  <2>. QED
    BY <1>d, <2>2
<1>r. R # None /\ R.step = "reload" /\ R.id \notin r.cancelled => v # R.view
  <2>1. SUFFICES ASSUME R # None, R.step = "reload", R.id \notin s.cancelled
                 PROVE  R.view \in Displayed(s)
    BY <1>1, <1>d
  <2>2. R.kind = "ink"
    BY <2>1, StartedType DEF Kinds
  <2>3. /\ Tag(R) \in L /\ Tag(R).id = R.id /\ Tag(R).kind = R.kind
        /\ Tag(R).view = R.view
    BY <2>1, InLive
  <2>. QED
    BY <2>1, <2>2, <2>3, DisplayedTask
<1>. HIDE DEF L
<1>4. Remembered(r, L \cup {NewTag(id, k, v)}, lt)
  <2>1. Remembered(s, L, lt)
    BY DEF TasksGood, L
  <2>2. Displayed(s) \subseteq Displayed(r) /\ (k = "loader" /\ ~lt => v \in Displayed(r))
    BY <1>e
  <2>. QED
    <3>1. /\ FreshFor(s, L, v, k, id) /\ s.cancelled \subseteq r.cancelled
          /\ \A w \in Views : w # v => r.views[w] = s.views[w]
      BY <1>1
    <3>2. L \in SUBSET Tags /\ k \in Kinds
      BY <1>0, <1>k
    <3>. HIDE DEF k
    <3>. QED
      BY <1>b, <1>c, <1>3, <2>1, <2>2, <3>1, <3>2, RenewRemembered
<1>5. ReloadKnown(r, L \cup {NewTag(id, k, v)}, P, R)
  <2>1. Remembered(s, L, lt) /\ ReloadKnown(s, L, P, R)
    BY DEF TasksGood, L
  <2>. QED
    <3>1. /\ FreshFor(s, L, v, k, id) /\ s.cancelled \subseteq r.cancelled
          /\ \A w \in Views : w # v => r.views[w] = s.views[w]
          /\ Apart(r, P, R, v, k, id)
      BY <1>1, <1>r DEF Apart
    <3>2. k \in Kinds
      BY <1>k
    <3>. HIDE DEF k
    <3>. QED
      BY <1>0, <1>b, <2>1, <3>1, <3>2, RenewReloadKnown
<1>6. Placed(r)
  <2>0. Placed(s)
    BY DEF TasksGood
  <2>1. \A q \in Pages : s.child[q] # None => s.child[q] \in Displayed(s) /\ s.child[q] # v
    BY <1>0, <1>d DEF Displayed
  <2>2. \A q1, q2 \in Pages : q1 # q2 /\ r.child[q1] # None => r.child[q1] # r.child[q2]
    BY <1>d, <1>e, <2>0, <2>1 DEF Placed
  <2>3. /\ \A i, j \in DOMAIN r.spare : i # j => r.spare[i] # r.spare[j]
        /\ \A i \in DOMAIN r.spare, q \in Pages : r.spare[i] # r.child[q]
    <3>1. CASE s.spare = <<>> /\ r.spare = <<>>
      BY <3>1
    <3>2. CASE s.spare # <<>> /\ v = Head(s.spare) /\ r.spare = Tail(s.spare)
      <4>0. s.spare \in Seq(Views)
        BY DEF States
      <4>1. \A i \in DOMAIN r.spare : /\ i + 1 \in DOMAIN s.spare /\ i + 1 # 1
                                      /\ r.spare[i] = s.spare[i + 1] /\ i \in Int
        BY <3>2, <4>0
      <4>2. v = s.spare[1] /\ 1 \in DOMAIN s.spare
        BY <3>2, <4>0
      <4>3. \A i, j \in DOMAIN r.spare : i # j => r.spare[i] # r.spare[j]
        <5>1. SUFFICES ASSUME NEW i \in DOMAIN r.spare, NEW j \in DOMAIN r.spare, i # j
                       PROVE  r.spare[i] # r.spare[j]
          OBVIOUS
        <5>2. i + 1 # j + 1
          BY <4>1, <5>1
        <5>. QED
          BY <2>0, <4>1, <5>2 DEF Placed
      <4>4. \A i \in DOMAIN r.spare : r.spare[i] # v
        BY <2>0, <4>1, <4>2 DEF Placed
      <4>5. \A i \in DOMAIN r.spare, q \in Pages : r.spare[i] # r.child[q]
        BY <1>e, <2>0, <4>1, <4>4 DEF Placed
      <4>. QED
        BY <4>3, <4>5
    <3>. QED
      BY <3>1, <3>2 DEF Creation
  <2>4. \A q \in Pages : r.child[q] # None =>
          r.views[r.child[q]].page = q /\ r.views[r.child[q]].sized
    <3>1. SUFFICES ASSUME NEW q \in Pages, r.child[q] # None
                   PROVE  r.views[r.child[q]].page = q /\ r.views[r.child[q]].sized
      OBVIOUS
    <3>2. CASE q = p
      BY <1>1, <1>e, <3>2
    <3>3. CASE q # p
      <4>1. r.child[q] = s.child[q] /\ s.child[q] \in Views /\ s.child[q] # v
        BY <1>0, <1>e, <2>1, <3>1, <3>3
      <4>. QED
        BY <1>1, <2>0, <3>1, <4>1 DEF Placed
    <3>. QED
      BY <3>2, <3>3
  <2>5. \A w \in Views : w \notin Displayed(r) =>
          /\ r.views[w].page = 0 /\ ~r.views[w].sized
          /\ r.views[w].ink = 0 /\ r.views[w].del = 0
    BY <1>1, <1>e, <2>0 DEF Placed
  <2>. QED
    BY <2>2, <2>3, <2>4, <2>5 DEF Placed
<1>. QED
  BY <1>2, <1>4, <1>5, <1>6 DEF TasksGood

LEMMA RemovalShows ==
  ASSUME NEW s \in States, NEW r \in States, NEW L, NEW c \in Pages, Placed(s),
         Removal(s, r, L, c)
  PROVE  /\ Gone(s, c) \subseteq Displayed(s)
         /\ Displayed(r) = Displayed(s) \ Gone(s, c)
         /\ \A p \in Pages : r.child[p] = None \/ r.child[p] = s.child[p]
         /\ \A p \in Pages : r.child[p] # None <=> s.child[p] # None /\ c <= p + 1 /\ p <= c + 1
<1>0. s.child \in [Pages -> Views \cup {None}] /\ None \notin Views /\ c \in Int
      /\ \A p \in Pages : p \in Int
  BY PageViewsAssumption DEF States, Pages
<1>1. /\ r.child = [p \in Pages |-> IF p \in Far(s, c) THEN None ELSE s.child[p]]
      /\ \A p \in Pages : r.child[p] = IF p \in Far(s, c) THEN None ELSE s.child[p]
  BY DEF Removal
<1>2. Gone(s, c) \subseteq Displayed(s)
  BY <1>0 DEF Gone, Far, Displayed
<1>3. \A w \in Views : w \in Displayed(r) <=> w \in Displayed(s) /\ w \notin Gone(s, c)
  <2>1. ASSUME NEW w \in Views, NEW p \in Pages, r.child[p] = w
        PROVE  w \in Displayed(s) /\ w \notin Gone(s, c)
    <3>1. p \notin Far(s, c) /\ s.child[p] = w /\ w # None
      BY <1>0, <1>1, <2>1
    <3>2. \A q \in Pages : s.child[q] = w => q = p
      BY <3>1 DEF Placed
    <3>3. \A q \in Far(s, c) : q \in Pages
      BY DEF Far
    <3>. QED
      BY <3>1, <3>2, <3>3 DEF Displayed, Gone
  <2>2. ASSUME NEW w \in Views, NEW p \in Pages, s.child[p] = w, w \notin Gone(s, c)
        PROVE  w \in Displayed(r)
    <3>1. p \notin Far(s, c)
      BY <2>2 DEF Gone
    <3>. QED
      BY <1>1, <2>2, <3>1 DEF Displayed
  <2>. QED
    BY <2>1, <2>2 DEF Displayed
<1>4. Displayed(r) = Displayed(s) \ Gone(s, c)
  BY <1>3 DEF Displayed
<1>5. \A p \in Pages : r.child[p] # None <=> s.child[p] # None /\ c <= p + 1 /\ p <= c + 1
  <2>1. SUFFICES ASSUME NEW p \in Pages
                 PROVE  r.child[p] # None <=> s.child[p] # None /\ c <= p + 1 /\ p <= c + 1
    OBVIOUS
  <2>2. p \in Int /\ c \in Int
    BY <1>0
  <2>3. (p + 1 < c \/ p > c + 1) <=> ~(c <= p + 1 /\ p <= c + 1)
    BY <2>2
  <2>4. p \in Far(s, c) <=> s.child[p] # None /\ (p + 1 < c \/ p > c + 1)
    BY DEF Far
  <2>. QED
    BY <1>1, <2>3, <2>4
<1>. QED
  BY <1>1, <1>2, <1>4, <1>5

LEMMA RemovalTasksGood ==
  ASSUME NEW s \in States, NEW r \in States, NEW P \in Seq(Results),
         NEW R \in Started \cup {None}, NEW lt \in BOOLEAN, TasksGood(s, P, R, lt),
         NEW c \in Pages, Removal(s, r, Live(s.queue, P, R), c)
  PROVE  TasksGood(r, P, R, lt)
<1>. DEFINE L == Live(s.queue, P, R)
            G == Gone(s, c)
<1>0. /\ L \in SUBSET Tags /\ (R # None => Tag(R) \in L)
      /\ s.child \in [Pages -> Views \cup {None}]
      /\ \A t \in L : t.view \in Views /\ t.id # 0
  <2>1. L \in SUBSET Tags
    BY LiveType DEF States
  <2>2. \A t \in L : t.id # 0
    BY NoTaskIsZero DEF TasksGood
  <2>. QED
    BY <2>1, <2>2, InLive DEF States, Tags
<1>1. /\ G \subseteq Displayed(s)
      /\ Displayed(r) = Displayed(s) \ G
      /\ \A p \in Pages : r.child[p] = None \/ r.child[p] = s.child[p]
  BY RemovalShows DEF TasksGood
<1>2. /\ r.queue = s.queue
      /\ s.cancelled \subseteq r.cancelled
      /\ \A i \in r.cancelled : i \in s.cancelled \/ i \in IdsOf(L)
      /\ \A w \in Views \ G : r.views[w] = s.views[w]
      /\ \A v \in G : \A i \in {s.views[v].loader, s.views[v].ink, s.views[v].del} :
           i \in IdsOf(L) => i \in r.cancelled
      /\ \A w \in G : /\ r.views[w].page = 0 /\ ~r.views[w].sized
                      /\ r.views[w].loader = 0 /\ r.views[w].ink = 0
                      /\ r.views[w].del = 0
  BY DEF Removal
<1>3. Live(r.queue, P, R) = L /\ Distinct(r.queue, P, R)
  BY <1>2 DEF TasksGood
<1>4. \A t \in L : /\ t.view \in G /\ (t.kind = "loader" => ~lt) => t.id \in r.cancelled
                   /\ t.id \in IdsOf(L)
  <2>1. SUFFICES ASSUME NEW t \in L, t.view \in G, t.kind # "loader" \/ ~lt,
                        t.id \notin s.cancelled
                 PROVE  t.id \in r.cancelled
    BY <1>2 DEF IdsOf
  <2>2. TaskOf(s.views[t.view], t.kind) = t.id
    BY <2>1, DisplayedTask
  <2>3. t.id \in IdsOf(L)
    BY DEF IdsOf
  <2>. QED
    BY <1>2, <2>1, <2>2, <2>3 DEF TaskOf
<1>5. Remembered(r, L, lt)
  <2>0. Remembered(s, L, lt)
    BY DEF TasksGood
  <2>1. \A i \in r.cancelled : \E t \in L : t.id = i
    BY <1>2, <2>0 DEF Remembered, IdsOf
  <2>2. ASSUME NEW t \in L, NEW v \in Views
        PROVE  /\ r.views[v].loader = t.id => t.kind = "loader" /\ t.view = v
               /\ r.views[v].ink = t.id => t.kind = "ink" /\ t.view = v
               /\ r.views[v].del = t.id => t.kind = "del" /\ t.view = v
    <3>1. CASE v \in G
      BY <1>0, <1>2, <3>1
    <3>2. CASE v \notin G
      BY <1>2, <2>0, <3>2 DEF Remembered
    <3>. QED
      BY <3>1, <3>2
  <2>3. ASSUME NEW t \in L, t.id \notin r.cancelled
        PROVE  /\ t.kind = "ink" => r.views[t.view].ink = t.id
               /\ t.kind = "del" => r.views[t.view].del = t.id
               /\ t.kind = "loader" /\ ~lt =>
                    r.views[t.view].loader = t.id /\ t.view \in Displayed(r)
    <3>1. t.id \notin s.cancelled
      BY <1>2, <2>3
    <3>2. CASE t.view \in G
      BY <1>4, <2>3, <3>2
    <3>3. CASE t.view \notin G
      BY <1>0, <1>1, <1>2, <2>0, <3>1, <3>3 DEF Remembered
    <3>. QED
      BY <3>2, <3>3
  <2>. QED
    BY <2>1, <2>2, <2>3 DEF Remembered
<1>6. ReloadKnown(r, L, P, R)
  <2>0. ReloadKnown(s, L, P, R)
    BY DEF TasksGood
  <2>1. SUFFICES ASSUME R # None, R.step = "reload", R.id \notin r.cancelled
                 PROVE  R.view \in Views \ G
    BY <1>2, <2>0 DEF ReloadKnown
  <2>2. R.kind = "ink" /\ R.view \in Views
    BY <2>1, StartedType DEF Kinds
  <2>3. /\ Tag(R) \in L /\ Tag(R).id = R.id /\ Tag(R).kind = R.kind
        /\ Tag(R).view = R.view
    BY <2>1, InLive
  <2>. QED
    BY <1>4, <2>1, <2>2, <2>3
<1>7. Placed(r)
  <2>0. Placed(s)
    BY DEF TasksGood
  <2>1. \A q1, q2 \in Pages : q1 # q2 /\ r.child[q1] # None => r.child[q1] # r.child[q2]
    BY <1>1, <2>0 DEF Placed
  <2>2. PICK old \in Seq(Views) :
       /\ r.spare = s.spare \o old
       /\ \A i \in DOMAIN old : old[i] \in G
       /\ \A i, j \in DOMAIN old : i # j => old[i] # old[j]
    BY DEF Removal
  <2>3. \A q \in Pages : r.child[q] \notin G
    <3>1. SUFFICES ASSUME NEW q \in Pages, r.child[q] \in G
                   PROVE  FALSE
      OBVIOUS
    <3>2. r.child[q] \in Views
      BY <1>1, <3>1 DEF Displayed
    <3>3. r.child[q] \in Displayed(r)
      BY <3>2 DEF Displayed
    <3>. QED
      BY <1>1, <3>1, <3>3
  <2>4. s.spare \in Seq(Views) /\ Len(s.spare) \in Nat /\ DOMAIN s.spare = 1..Len(s.spare)
    BY DEF States
  <2>5. \A i \in DOMAIN r.spare :
          \/ i \in DOMAIN s.spare /\ r.spare[i] = s.spare[i]
          \/ /\ i \notin DOMAIN s.spare /\ i - Len(s.spare) \in DOMAIN old
             /\ r.spare[i] = old[i - Len(s.spare)]
    <3>1. /\ r.spare \in Seq(Views) /\ DOMAIN r.spare = 1..(Len(s.spare) + Len(old))
          /\ \A i \in 1..(Len(s.spare) + Len(old)) :
               r.spare[i] = IF i <= Len(s.spare) THEN s.spare[i] ELSE old[i - Len(s.spare)]
      BY <2>2, <2>4, ConcatProperties
    <3>2. DOMAIN old = 1..Len(old) /\ Len(old) \in Nat
      OBVIOUS
    <3>3. SUFFICES ASSUME NEW i \in DOMAIN r.spare
                   PROVE  \/ i \in DOMAIN s.spare /\ r.spare[i] = s.spare[i]
                          \/ /\ i \notin DOMAIN s.spare /\ i - Len(s.spare) \in DOMAIN old
                             /\ r.spare[i] = old[i - Len(s.spare)]
      OBVIOUS
    <3>4. i \in 1..(Len(s.spare) + Len(old)) /\ i \in Int
      BY <2>4, <3>1, <3>2
    <3>5. CASE i <= Len(s.spare)
      BY <2>4, <3>1, <3>4, <3>5
    <3>6. CASE ~(i <= Len(s.spare))
      <4>1. i \notin DOMAIN s.spare /\ i - Len(s.spare) \in 1..Len(old)
        BY <2>4, <3>2, <3>4, <3>6
      <4>2. r.spare[i] = old[i - Len(s.spare)]
        BY <3>1, <3>4, <3>6
      <4>. QED
        BY <3>2, <4>1, <4>2
    <3>. QED
      BY <3>5, <3>6
  <2>6. \A i \in DOMAIN s.spare : s.spare[i] \notin G
    <3>1. \A i \in DOMAIN s.spare : s.spare[i] \notin Displayed(s)
      BY <2>0 DEF Placed, Displayed
    <3>. QED
      BY <1>1, <3>1
  <2>7. \A i, j \in DOMAIN r.spare : i # j => r.spare[i] # r.spare[j]
    <3>1. SUFFICES ASSUME NEW i \in DOMAIN r.spare, NEW j \in DOMAIN r.spare, i # j
                   PROVE  r.spare[i] # r.spare[j]
      OBVIOUS
    <3>2. CASE i \in DOMAIN s.spare /\ j \in DOMAIN s.spare
      BY <2>0, <2>5, <3>1, <3>2 DEF Placed
    <3>3. CASE i \notin DOMAIN s.spare /\ j \notin DOMAIN s.spare
      <4>1. i \in Int /\ j \in Int
        BY DEF States
      <4>2. i - Len(s.spare) # j - Len(s.spare)
        BY <2>4, <3>1, <4>1
      <4>. QED
        BY <2>2, <2>5, <3>3, <4>2
    <3>4. CASE i \in DOMAIN s.spare /\ j \notin DOMAIN s.spare
      BY <2>2, <2>5, <2>6, <3>4
    <3>5. CASE i \notin DOMAIN s.spare /\ j \in DOMAIN s.spare
      BY <2>2, <2>5, <2>6, <3>5
    <3>. QED
      BY <3>2, <3>3, <3>4, <3>5
  <2>8. \A i \in DOMAIN r.spare, q \in Pages : r.spare[i] # r.child[q]
    <3>1. SUFFICES ASSUME NEW i \in DOMAIN r.spare, NEW q \in Pages
                   PROVE  r.spare[i] # r.child[q]
      OBVIOUS
    <3>2. CASE i \in DOMAIN s.spare
      <4>1. r.spare[i] = s.spare[i] /\ s.spare[i] \in Views
        BY <2>4, <2>5, <3>2
      <4>2. s.spare[i] # None
        BY <4>1, PageViewsAssumption
      <4>. QED
        BY <1>1, <2>0, <3>2, <4>1, <4>2 DEF Placed
    <3>3. CASE i \notin DOMAIN s.spare
      BY <2>2, <2>3, <2>5, <3>3
    <3>. QED
      BY <3>2, <3>3
  <2>9. \A q \in Pages : r.child[q] # None =>
          r.views[r.child[q]].page = q /\ r.views[r.child[q]].sized
    <3>1. \A q \in Pages : r.child[q] # None =>
            r.child[q] = s.child[q] /\ r.child[q] \in Views \ G
      BY <1>0, <1>1, <2>3
    <3>. QED
      BY <1>2, <2>0, <3>1 DEF Placed
  <2>10. \A w \in Views : w \notin Displayed(r) =>
          /\ r.views[w].page = 0 /\ ~r.views[w].sized
          /\ r.views[w].ink = 0 /\ r.views[w].del = 0
    <3>1. SUFFICES ASSUME NEW w \in Views, w \notin Displayed(r)
                   PROVE  /\ r.views[w].page = 0 /\ ~r.views[w].sized
                          /\ r.views[w].ink = 0 /\ r.views[w].del = 0
      OBVIOUS
    <3>2. CASE w \in G
      BY <1>2, <3>2
    <3>3. CASE w \notin G
      BY <1>1, <1>2, <2>0, <3>1, <3>3 DEF Placed
    <3>. QED
      BY <3>2, <3>3
  <2>. QED
    BY <2>1, <2>7, <2>8, <2>9, <2>10 DEF Placed
<1>. QED
  BY <1>3, <1>5, <1>6, <1>7 DEF TasksGood

LEMMA BecomesIs ==
  ASSUME NEW s \in States, Becomes(s)
  PROVE  Now' = s
BY DEF States, Becomes, Now

LEMMA AroundTwoOthers ==
  ASSUME NEW s, NEW c \in Pages, Around(s, c), NEW p \in Pages, s.child[p] = None,
         c <= p + 1, p <= c + 1
  PROVE  TwoOthers(s)
<1>1. \A q \in Pages : q \in Int
  BY DEF Pages
<1>2. c \in Int /\ p \in Int
  BY <1>1
<1>3. \A q \in Pages : s.child[q] # None => q \in {c - 1, c, c + 1} \ {p}
  BY <1>1, <1>2 DEF Around
<1>4. p \in {c - 1, c, c + 1}
  BY <1>2
<1>5. \E y, z : \A q \in Pages : s.child[q] # None => q \in {y, z}
  <2>1. CASE p = c - 1
    BY <1>3, <2>1
  <2>2. CASE p = c
    BY <1>3, <2>2
  <2>3. CASE p = c + 1
    BY <1>3, <2>3
  <2>. QED
    BY <1>4, <2>1, <2>2, <2>3
<1>6. PICK y, z : \A q \in Pages : s.child[q] # None => q \in {y, z}
  BY <1>5
<1>7. \A q \in Pages : s.child[q] \in {None, s.child[y], s.child[z]}
  BY <1>6
<1>. QED
  BY <1>7 DEF TwoOthers

LEMMA RemovalAround ==
  ASSUME NEW s \in States, NEW r \in States, NEW L, NEW c \in Pages, Placed(s),
         Removal(s, r, L, c)
  PROVE  Around(r, c)
BY RemovalShows DEF Around

LEMMA CreationAround ==
  ASSUME NEW s \in States, NEW r \in States, NEW L, NEW v, NEW p \in Pages, NEW id,
         NEW c \in Pages, Creation(s, r, L, v, p, id), Around(s, c), c <= p + 1, p <= c + 1
  PROVE  Around(r, c) /\ r.child[p] # None /\ \A q \in Pages : s.child[q] # None => r.child[q] # None
<1>1. r.child = [s.child EXCEPT ![p] = v] /\ v \in Views /\ v # None
  BY PageViewsAssumption DEF Creation
<1>. QED
  BY <1>1 DEF Around, States

\* What the release and the creation of a view keep, a layout keeps.
LEMMA LayoutKeeps ==
  ASSUME NEW s \in States, posts \in Seq(Results), running \in Started \cup {None},
         NEW c \in Pages, Placed(s), NEW T,
         \A r \in States : Removal(s, r, Live(s.queue, posts, running), c) => r \in T,
         \A x \in T : x \in States => Placed(x) /\ Distinct(x.queue, posts, running),
         \A x \in T, y \in States, v \in Views, p \in Pages, id \in Nat :
           x \in States /\ Creation(x, y, Live(x.queue, posts, running), v, p, id) => y \in T
  PROVE  LET r == OnLayout(s, c) IN
         r \in States /\ r \in T /\ Around(r, c) /\ r.child[c] # None
<1>. DEFINE Good(x) == x \in States /\ x \in T /\ Around(x, c)
            a == RemoveSuperfluous(s, c)
            here == GetOrCreateChild(a, c)
            left == IF c > 0 THEN GetOrCreateChild(here, c - 1) ELSE here
            r == IF c + 1 < NumPages THEN GetOrCreateChild(left, c + 1) ELSE left
<1>0. c \in Int /\ NumPages \in Int /\ c \in 0..NumPages - 1
  BY PageViewsAssumption DEF Pages
<1>1. Good(a)
  <2>1. a \in States /\ Removal(s, a, Live(s.queue, posts, running), c)
    BY RemoveIs
  <2>. HIDE DEF a
  <2>. QED
    BY <2>1, RemovalAround
<1>2. ASSUME NEW x, Good(x), NEW p \in Pages, c <= p + 1, p <= c + 1
      PROVE  LET y == GetOrCreateChild(x, p) IN
             /\ Good(y) /\ y.child[p] # None
             /\ \A q \in Pages : x.child[q] # None => y.child[q] # None
  <2>. DEFINE y == GetOrCreateChild(x, p)
  <2>1. CASE x.child[p] # None
    <3>1. y = x
      BY <2>1 DEF GetOrCreateChild
    <3>. QED
      BY <1>2, <2>1, <3>1
  <2>2. CASE x.child[p] = None
    <3>1. TwoOthers(x)
      BY <1>2, <2>2, AroundTwoOthers
    <3>2. Placed(x) /\ 0 \notin IdsOf(Live(x.queue, posts, running))
      BY <1>2, NoTaskIsZero
    <3>3. PICK v \in Views, id \in Nat :
            y \in States /\ Creation(x, y, Live(x.queue, posts, running), v, p, id)
      BY <1>2, <2>2, <3>1, <3>2, GetOrCreateIs
    <3>. HIDE DEF y
    <3>4. y \in T
      BY <1>2, <3>3
    <3>5. Around(y, c) /\ y.child[p] # None
          /\ \A q \in Pages : x.child[q] # None => y.child[q] # None
      BY <1>2, <3>3, CreationAround
    <3>. QED
      BY <3>3, <3>4, <3>5 DEF y
  <2>. QED
    BY <2>1, <2>2
<1>. HIDE DEF a, Good
<1>3. Good(here) /\ here.child[c] # None
  BY <1>0, <1>1, <1>2
<1>. HIDE DEF here
<1>4. Good(left) /\ left.child[c] # None
  <2>1. CASE c > 0
    <3>1. c - 1 \in Pages /\ c <= (c - 1) + 1 /\ c - 1 <= c + 1
      BY <1>0, <2>1 DEF Pages
    <3>. QED
      BY <1>2, <1>3, <2>1, <3>1
  <2>. QED
    BY <1>3, <2>1
<1>. HIDE DEF left
<1>5. Good(r) /\ r.child[c] # None
  <2>1. CASE c + 1 < NumPages
    <3>1. c + 1 \in Pages /\ c <= (c + 1) + 1 /\ c + 1 <= c + 1
      BY <1>0, <2>1 DEF Pages
    <3>. QED
      BY <1>2, <1>4, <2>1, <3>1
  <2>. QED
    BY <1>4, <2>1
<1>6. r = OnLayout(s, c)
  BY DEF OnLayout, a, here, left
<1>. QED
  BY <1>5, <1>6 DEF Good

LEMMA PopQueue ==
  ASSUME NEW Q \in Seq(Jobs), Q # <<>>, NEW P, NEW R, Distinct(Q, P, R)
  PROVE  /\ Live(Q, P, R) = Live(Tail(Q), P, R) \cup {Tag(Head(Q))}
         /\ Distinct(Tail(Q), P, R)
         /\ \A t \in Live(Tail(Q), P, R) : t.id # Head(Q).id
<1>. DEFINE T == Tail(Q)
<1>1. /\ Head(Q) = Q[1] /\ 1 \in DOMAIN Q
      /\ \A i \in DOMAIN T : i \in Nat /\ i > 0 /\ i + 1 \in DOMAIN Q /\ T[i] = Q[i + 1]
      /\ \A i \in DOMAIN Q : i = 1 \/ (i - 1 \in DOMAIN T /\ T[i - 1] = Q[i])
  BY TailItems
<1>. HIDE DEF T
<1>2. Live(Q, P, R) = Live(T, P, R) \cup {Tag(Head(Q))}
  BY <1>1 DEF Live
<1>3. Distinct(T, P, R)
  <2>1. \A i, j \in DOMAIN T : T[i].id = T[j].id => i = j
    <3>1. \A i, j \in DOMAIN T : T[i].id = T[j].id => i + 1 = j + 1
      BY <1>1 DEF Distinct
    <3>. QED
      BY <1>1, <3>1
  <2>. QED
    BY <1>1, <2>1 DEF Distinct
<1>4. \A t \in Live(T, P, R) : t.id # Head(Q).id
  <2>1. \A i \in DOMAIN T : T[i].id # Q[1].id
    <3>1. SUFFICES ASSUME NEW i \in DOMAIN T, T[i].id = Q[1].id
                   PROVE  FALSE
      OBVIOUS
    <3>2. i + 1 = 1
      BY <1>1, <3>1 DEF Distinct
    <3>. QED
      BY <1>1, <3>2
  <2>2. \A i \in DOMAIN P : P[i].id # Q[1].id
    BY <1>1 DEF Distinct
  <2>3. R # None => R.id # Q[1].id
    BY <1>1 DEF Distinct
  <2>4. \A t : Tag(t).id = t.id
    BY DEF Tag
  <2>. QED
    BY <1>1, <2>1, <2>2, <2>3, <2>4 DEF Live
<1>. QED
  BY <1>2, <1>3, <1>4 DEF T

LEMMA PopPosts ==
  ASSUME NEW P \in Seq(Results), P # <<>>, NEW Q, NEW R, Distinct(Q, P, R)
  PROVE  /\ Live(Q, P, R) = Live(Q, Tail(P), R) \cup {Tag(Head(P))}
         /\ Distinct(Q, Tail(P), R)
         /\ \A t \in Live(Q, Tail(P), R) : t.id # Head(P).id
<1>. DEFINE T == Tail(P)
<1>1. /\ Head(P) = P[1] /\ 1 \in DOMAIN P
      /\ \A i \in DOMAIN T : i \in Nat /\ i > 0 /\ i + 1 \in DOMAIN P /\ T[i] = P[i + 1]
      /\ \A i \in DOMAIN P : i = 1 \/ (i - 1 \in DOMAIN T /\ T[i - 1] = P[i])
  BY TailItems
<1>. HIDE DEF T
<1>2. Live(Q, P, R) = Live(Q, T, R) \cup {Tag(Head(P))}
  BY <1>1 DEF Live
<1>3. Distinct(Q, T, R)
  <2>1. \A i, j \in DOMAIN T : T[i].id = T[j].id => i = j
    <3>1. \A i, j \in DOMAIN T : T[i].id = T[j].id => i + 1 = j + 1
      BY <1>1 DEF Distinct
    <3>. QED
      BY <1>1, <3>1
  <2>. QED
    BY <1>1, <2>1 DEF Distinct
<1>4. \A t \in Live(Q, T, R) : t.id # Head(P).id
  <2>1. \A i \in DOMAIN T : T[i].id # P[1].id
    <3>1. SUFFICES ASSUME NEW i \in DOMAIN T, T[i].id = P[1].id
                   PROVE  FALSE
      OBVIOUS
    <3>2. i + 1 = 1
      BY <1>1, <3>1 DEF Distinct
    <3>. QED
      BY <1>1, <3>2
  <2>2. \A i \in DOMAIN Q : Q[i].id # P[1].id
    BY <1>1 DEF Distinct
  <2>3. R # None => R.id # P[1].id
    BY <1>1 DEF Distinct
  <2>4. \A t : Tag(t).id = t.id
    BY DEF Tag
  <2>. QED
    BY <1>1, <2>1, <2>2, <2>3, <2>4 DEF Live
<1>. QED
  BY <1>2, <1>3, <1>4 DEF T

\* A task goes from the queue to the background thread ...
LEMMA BeginTask ==
  ASSUME NEW Q \in Seq(Jobs), Q # <<>>, NEW P, Distinct(Q, P, None),
         NEW R \in Started, Tag(R) = Tag(Head(Q))
  PROVE  Live(Tail(Q), P, R) = Live(Q, P, None) /\ Distinct(Tail(Q), P, R)
<1>1. /\ Live(Q, P, None) = Live(Tail(Q), P, None) \cup {Tag(Head(Q))}
      /\ Distinct(Tail(Q), P, None)
      /\ \A t \in Live(Tail(Q), P, None) : t.id # Head(Q).id
  BY PopQueue
<1>2. R.id = Head(Q).id /\ R # None
  BY StartedType DEF Tag
<1>3. Head(Q).id # 0
  BY TailItems DEF Distinct
<1>4. \A t \in Live(Tail(Q), P, None) : t.id # R.id
  BY <1>1, <1>2
<1>5. /\ \A i \in DOMAIN Tail(Q) : Tail(Q)[i].id # R.id
      /\ \A i \in DOMAIN P : P[i].id # R.id
  BY <1>4, InLive
<1>6. Live(Tail(Q), P, R) = Live(Q, P, None)
  BY <1>1, <1>2 DEF Live
<1>7. Distinct(Tail(Q), P, R)
  BY <1>1, <1>2, <1>3, <1>5 DEF Distinct
<1>. QED
  BY <1>6, <1>7

\* ... takes its steps there ...
LEMMA StepTask ==
  ASSUME NEW Q, NEW P, NEW R \in Started, NEW S \in Started, Tag(S) = Tag(R), Distinct(Q, P, R)
  PROVE  Live(Q, P, S) = Live(Q, P, R) /\ Distinct(Q, P, S)
<1>1. R.id = S.id /\ R # None /\ S # None
  BY StartedType DEF Tag
<1>. QED
  BY <1>1 DEF Live, Distinct

\* ... and from there to those that wait for the UI thread, or is over.
LEMMA EndTask ==
  ASSUME NEW Q, NEW P \in Seq(Results), NEW R \in Started, Distinct(Q, P, R),
         NEW x \in Results, Tag(x) = Tag(R)
  PROVE  Live(Q, Append(P, x), None) = Live(Q, P, R) /\ Distinct(Q, Append(P, x), None)
<1>. DEFINE T == Append(P, x)
            m == Len(P) + 1
<1>1. x.id = R.id /\ R # None
  BY StartedType DEF Tag
<1>2. /\ DOMAIN T = DOMAIN P \cup {m} /\ m \notin DOMAIN P
      /\ \A i \in DOMAIN P : T[i] = P[i]
      /\ T[m] = x
  BY AppendItems
<1>. HIDE DEF T, m
<1>3. Live(Q, T, None) = Live(Q, P, R)
  BY <1>1, <1>2 DEF Live
<1>4. Distinct(Q, T, None)
  <2>1. \A i \in DOMAIN P : T[i].id # x.id
    BY <1>1, <1>2 DEF Distinct
  <2>2. \A i, j \in DOMAIN T : T[i].id = T[j].id => i = j
    BY <1>2, <2>1 DEF Distinct
  <2>. QED
    BY <1>1, <1>2, <2>2 DEF Distinct
<1>. QED
  BY <1>3, <1>4 DEF T

LEMMA DropTask ==
  ASSUME NEW Q, NEW P, NEW R \in Started, Distinct(Q, P, R)
  PROVE  /\ Live(Q, P, R) = Live(Q, P, None) \cup {Tag(R)} /\ Distinct(Q, P, None)
         /\ \A t \in Live(Q, P, None) : t.id # R.id
<1>1. R # None
  BY StartedType
<1>2. \A t : Tag(t).id = t.id
  BY DEF Tag
<1>. QED
  BY <1>1, <1>2 DEF Live, Distinct

SameTasks(w, x) == w.loader = x.loader /\ w.ink = x.ink /\ w.del = x.del

\* Tasks end or take a step, and views change nothing but what they show.
Fewer(s, P, R, r, P2, R2) ==
  /\ r.child = s.child /\ r.spare = s.spare
  /\ \A w \in Views : SameShow(r.views[w], s.views[w]) /\ SameTasks(r.views[w], s.views[w])
  /\ Distinct(r.queue, P2, R2)
  /\ Live(r.queue, P2, R2) \subseteq Live(s.queue, P, R)
  /\ \A t \in Live(r.queue, P2, R2) : t.id \in s.cancelled => t.id \in r.cancelled
  /\ \A i \in r.cancelled : \E t \in Live(r.queue, P2, R2) : t.id = i
  /\ ReloadKnown(r, Live(r.queue, P2, R2), P2, R2)

LEMMA FewerTasksGood ==
  ASSUME NEW s \in States, NEW P \in Seq(Results), NEW R \in Started \cup {None},
         NEW lt \in BOOLEAN, TasksGood(s, P, R, lt),
         NEW r \in States, NEW P2 \in Seq(Results), NEW R2 \in Started \cup {None},
         NEW lt2 \in BOOLEAN, lt => lt2, Fewer(s, P, R, r, P2, R2)
  PROVE  TasksGood(r, P2, R2, lt2)
<1>. DEFINE L == Live(s.queue, P, R)
            M == Live(r.queue, P2, R2)
<1>0. /\ r.child = s.child /\ r.spare = s.spare
      /\ \A w \in Views : SameShow(r.views[w], s.views[w]) /\ SameTasks(r.views[w], s.views[w])
      /\ Distinct(r.queue, P2, R2) /\ M \subseteq L
      /\ \A t \in M : t.id \in s.cancelled => t.id \in r.cancelled
      /\ \A i \in r.cancelled : \E t \in M : t.id = i
      /\ ReloadKnown(r, M, P2, R2)
  BY DEF Fewer
<1>1. L \in SUBSET Tags /\ M \in SUBSET L
  BY <1>0, LiveType DEF States
<1>2. Displayed(r) = Displayed(s)
  BY <1>0 DEF Displayed
<1>. HIDE DEF L, M
<1>3. Remembered(r, M, lt2)
  <2>1. Remembered(s, L, lt)
    BY DEF TasksGood, L
  <2>2. \A t \in M, v \in Views :
       /\ r.views[v].loader = t.id => t.kind = "loader" /\ t.view = v
       /\ r.views[v].ink = t.id => t.kind = "ink" /\ t.view = v
       /\ r.views[v].del = t.id => t.kind = "del" /\ t.view = v
    BY <1>0, <1>1, <2>1 DEF Remembered, SameTasks
  <2>3. ASSUME NEW t \in M, t.id \notin r.cancelled
        PROVE  /\ t.kind = "ink" => r.views[t.view].ink = t.id
               /\ t.kind = "del" => r.views[t.view].del = t.id
               /\ t.kind = "loader" /\ ~lt2 =>
                    r.views[t.view].loader = t.id /\ t.view \in Displayed(r)
    <3>1. t \in L /\ t.id \notin s.cancelled /\ t.view \in Views
      BY <1>0, <1>1, <2>3 DEF Tags
    <3>2. SameTasks(r.views[t.view], s.views[t.view])
      BY <1>0, <3>1
    <3>. QED
      BY <1>2, <2>1, <3>1, <3>2 DEF Remembered, SameTasks
  <2>4. \A i \in r.cancelled : \E t \in M : t.id = i
    BY <1>0
  <2>. QED
    BY <2>2, <2>3, <2>4 DEF Remembered
<1>4. Placed(r)
  <2>1. Placed(s)
    BY DEF TasksGood
  <2>2. \A p \in Pages : s.child[p] # None => s.child[p] \in Views
    BY DEF States
  <2>3. \A p \in Pages : s.child[p] # None =>
          r.views[s.child[p]].page = p /\ r.views[s.child[p]].sized
    BY <1>0, <2>1, <2>2 DEF Placed, SameShow
  <2>4. \A w \in Views : w \notin Displayed(s) =>
          /\ r.views[w].page = 0 /\ ~r.views[w].sized
          /\ r.views[w].ink = 0 /\ r.views[w].del = 0
    BY <1>0, <2>1 DEF Placed, SameShow, SameTasks
  <2>. QED
    BY <1>0, <1>2, <2>1, <2>3, <2>4 DEF Placed
<1>. QED
  BY <1>0, <1>3, <1>4 DEF TasksGood, M

-----------------------------------------------------------------------------
(* What the actions do.                                                    *)

\* A view changes its fields and begins a task in place of the last of its kind.
LEMMA RenewIs ==
  ASSUME NEW s \in States, posts \in Seq(Results), running \in Started \cup {None},
         NEW v \in Views, NEW k \in Kinds, NEW t, \A i \in Nat : Job(i, k, v, t) \in Jobs,
         NEW f \in Fields, SameShow(f, s.views[v]), SameTasks(f, s.views[v]),
         NEW d, d = [Cancel(s, {TaskOf(s.views[v], k)}) EXCEPT
                       !.views = [s.views EXCEPT ![v] = f]],
         NEW r, r = Execute(d, v, k, t)
  PROVE  \E id \in Nat :
           LET L == Live(s.queue, posts, running)
           IN  /\ FreshIn(s, L, id)
               /\ r \in States /\ r.child = s.child /\ r.spare = s.spare
               /\ Renewal(s, r, L, v, k, id, t)
               /\ SameShow(r.views[v], s.views[v]) /\ SameInk(r.views[v], f)
               /\ SameLists(r.views[v], f)
<1>. DEFINE L == Live(s.queue, posts, running)
            c == Cancel(s, {TaskOf(s.views[v], k)})
<1>1. /\ c \in States /\ c.views = s.views /\ c.child = s.child /\ c.spare = s.spare
      /\ c.queue = s.queue
      /\ c.cancelled = s.cancelled \cup ({TaskOf(s.views[v], k)} \cap IdsOf(L))
  BY CancelIs
<1>2. d = [c EXCEPT !.views = [s.views EXCEPT ![v] = f]]
  OBVIOUS
<1>. HIDE DEF c
<1>5. /\ d \in States /\ d.views = [s.views EXCEPT ![v] = f] /\ d.child = s.child
      /\ d.spare = s.spare /\ d.queue = s.queue /\ d.cancelled = c.cancelled
  <2>1. [s.views EXCEPT ![v] = f] \in [Views -> Fields]
    BY DEF States
  <2>. DEFINE W == [s.views EXCEPT ![v] = f]
  <2>2. d = [c EXCEPT !.views = W] /\ c \in States /\ W \in [Views -> Fields]
    BY <1>1, <1>2, <2>1
  <2>. HIDE DEF W
  <2>3. /\ d \in States /\ d.views = W /\ d.child = c.child /\ d.spare = c.spare
        /\ d.queue = c.queue /\ d.cancelled = c.cancelled
    BY <2>2 DEF States
  <2>. QED
    BY <1>1, <2>3 DEF W
<1>6. d.views[v] = f /\ \A w \in Views : w # v => d.views[w] = s.views[w]
  BY <1>5 DEF States
<1>8. PICK id \in Nat :
           /\ FreshIn(d, Live(d.queue, posts, running), id)
           /\ r \in States
           /\ r.child = d.child /\ r.spare = d.spare /\ r.cancelled = d.cancelled
           /\ r.queue = Append(d.queue, Job(id, k, v, t))
           /\ \A w \in Views : w # v => r.views[w] = d.views[w]
           /\ SameShow(r.views[v], d.views[v]) /\ SameInk(r.views[v], d.views[v])
           /\ SameLists(r.views[v], d.views[v])
           /\ FieldSet(r.views[v], d.views[v], k, id)
  <2>. DEFINE e == Execute(d, v, k, t)
  <2>2. \E id \in Nat :
           /\ FreshIn(d, Live(d.queue, posts, running), id)
           /\ e \in States
           /\ e.child = d.child /\ e.spare = d.spare /\ e.cancelled = d.cancelled
           /\ e.queue = Append(d.queue, Job(id, k, v, t))
           /\ \A w \in Views : w # v => e.views[w] = d.views[w]
           /\ SameShow(e.views[v], d.views[v]) /\ SameInk(e.views[v], d.views[v])
           /\ SameLists(e.views[v], d.views[v])
           /\ FieldSet(e.views[v], d.views[v], k, id)
    BY <1>5, ExecuteIs
  <2>3. r = e
    OBVIOUS
  <2>. HIDE DEF e
  <2>. QED
    BY <2>2, <2>3
<1>9. FreshIn(s, L, id)
  <2>1. \A w \in Views : SameTasks(d.views[w], s.views[w])
    BY <1>6 DEF SameTasks
  <2>. QED
    BY <1>5, <1>8, <2>1 DEF FreshIn, SameTasks
<1>10. FreshFor(s, L, v, k, id)
  BY <1>9, FreshInFor
<1>11. FieldSet(r.views[v], s.views[v], k, id)
  BY <1>6, <1>8 DEF FieldSet, SameTasks
<1>12. Renewal(s, r, L, v, k, id, t)
  <2>2. \A w \in Views : w # v => r.views[w] = s.views[w]
    BY <1>6, <1>8
  <2>3. r.cancelled = s.cancelled \cup ({TaskOf(s.views[v], k)} \cap IdsOf(L))
    BY <1>1, <1>5, <1>8
  <2>4. r.queue = Append(s.queue, Job(id, k, v, t))
    BY <1>5, <1>8
  <2>. QED
    BY <1>10, <1>11, <2>2, <2>3, <2>4 DEF Renewal
<1>13. /\ SameShow(r.views[v], s.views[v]) /\ SameInk(r.views[v], f)
       /\ SameLists(r.views[v], f)
  BY <1>6, <1>8 DEF SameShow, SameInk, SameLists
<1>. QED
  BY <1>5, <1>8, <1>9, <1>12, <1>13

-----------------------------------------------------------------------------

LEMMA NowIs ==
  /\ Now.views = views /\ Now.child = child /\ Now.spare = spare
  /\ Now.queue = queue /\ Now.cancelled = cancelled
BY DEF Now

LEMMA SelectedIs ==
  ASSUME TasksInv
  PROVE  /\ Selected \in Views /\ Selected \in Displayed(Now) /\ V \in Fields
         /\ V = Now.views[Selected] /\ V.page = cur /\ V.sized
<1>1. Selected \in Views
  BY NowIs DEF TasksInv, Basic, States, Selected
<1>2. Selected \in Displayed(Now)
  BY <1>1, NowIs DEF TasksInv, Basic, Displayed, Selected
<1>. QED
  BY <1>1, <1>2, NowIs DEF TasksInv, TasksGood, Basic, Placed, Selected, V, States

\* One view changes what is selected or drawn on it.
Edited(s, r, v, e, d, h) ==
  /\ r \in States /\ r.child = s.child /\ r.spare = s.spare
  /\ r.queue = s.queue /\ r.cancelled = s.cancelled
  /\ \A w \in Views : w # v => r.views[w] = s.views[w]
  /\ SameShow(r.views[v], s.views[v]) /\ SameTasks(r.views[v], s.views[v])
  /\ r.views[v].annots = s.views[v].annots
  /\ r.views[v].sel = e /\ r.views[v].drawing = d /\ r.views[v].history = h

LEMMA EditedIs ==
  ASSUME TasksInv, NEW e \in Selections \cup {None}, NEW d \in {None} \cup SUBSET Strokes,
         NEW h \in Seq(SUBSET Strokes),
         UNCHANGED <<child, spare, queue, cancelled>>,
         views' = [views EXCEPT ![Selected] =
                     [@ EXCEPT !.sel = e, !.drawing = d, !.history = h]]
  PROVE  Edited(Now, Now', Selected, e, d, h)
<1>. DEFINE f == [V EXCEPT !.sel = e, !.drawing = d, !.history = h]
            W == [views EXCEPT ![Selected] = f]
<1>1. /\ f \in Fields /\ SameShow(f, V) /\ SameTasks(f, V) /\ f.annots = V.annots
      /\ f.sel = e /\ f.drawing = d /\ f.history = h
  BY SelectedIs DEF Fields, SameShow, SameTasks
<1>2. views \in [Views -> Fields] /\ Now \in States
  BY NowIs DEF TasksInv, Basic, States
<1>3. views' = W
  BY DEF V
<1>. HIDE DEF f
<1>4. /\ W \in [Views -> Fields] /\ W[Selected] = f
      /\ \A w \in Views : w # Selected => W[w] = views[w]
  BY <1>1, <1>2, SelectedIs
<1>. HIDE DEF W
<1>5. Now' = [Now EXCEPT !.views = W]
  BY <1>3 DEF Now
<1>6. /\ Now' \in States /\ Now'.views = W /\ Now'.child = Now.child
      /\ Now'.spare = Now.spare /\ Now'.queue = Now.queue
      /\ Now'.cancelled = Now.cancelled
  BY <1>2, <1>4, <1>5, WithViews
<1>7. V = Now.views[Selected]
  BY SelectedIs
<1>. QED
  BY <1>1, <1>4, <1>6, <1>7, NowIs DEF Edited

\* What the handlers of the UI thread leave alone: see Quiet and OnlyView.
Idly == UNCHANGED <<doc, deletions, running, posts, cur, late>>

LEMMA ConcatHead ==
  ASSUME NEW S, NEW x \in S, NEW h \in Seq(S)
  PROVE  <<x>> \o h \in Seq(S)
OBVIOUS

LEMMA FieldsOf ==
  ASSUME NEW f \in Fields
  PROVE  /\ f.page \in Pages /\ f.sized \in BOOLEAN /\ f.annots \in Lists \cup {None}
         /\ f.sel \in Selections \cup {None} /\ f.drawing \in {None} \cup SUBSET Strokes
         /\ f.history \in Seq(SUBSET Strokes)
         /\ f.loader \in Nat /\ f.ink \in Nat /\ f.del \in Nat
         /\ f = [f EXCEPT !.sel = f.sel, !.drawing = f.drawing, !.history = f.history]
         /\ f.annots # None => /\ f.annots.of \in Pages /\ f.annots.list \in Seq(SUBSET Strokes)
                               /\ f.annots.deletions \in Nat
         /\ f.sel # None => /\ f.sel.at \in Nat /\ f.sel.annot \in SUBSET Strokes
                            /\ f.sel.of \in Pages /\ f.sel.since \in Nat
<1>1. /\ f.page \in Pages /\ f.sized \in BOOLEAN /\ f.annots \in Lists \cup {None}
      /\ f.sel \in Selections \cup {None} /\ f.drawing \in {None} \cup SUBSET Strokes
      /\ f.history \in Seq(SUBSET Strokes)
      /\ f.loader \in Nat /\ f.ink \in Nat /\ f.del \in Nat
      /\ f = [f EXCEPT !.sel = f.sel, !.drawing = f.drawing, !.history = f.history]
  BY DEF Fields
<1>2. f.annots # None => /\ f.annots.of \in Pages /\ f.annots.list \in Seq(SUBSET Strokes)
                         /\ f.annots.deletions \in Nat
  BY <1>1 DEF Lists
<1>3. f.sel # None => /\ f.sel.at \in Nat /\ f.sel.annot \in SUBSET Strokes
                      /\ f.sel.of \in Pages /\ f.sel.since \in Nat
  BY <1>1 DEF Selections
<1>. QED
  BY <1>1, <1>2, <1>3

LEMMA TapIs ==
  ASSUME TasksInv, Tap
  PROVE  /\ V.annots # None /\ V.annots \in Lists /\ Idly /\ mode # "Drawing" /\ mode' = "Edit"
         /\ UNCHANGED <<crashed, acts, home, drawn, wished, dropped, misled>>
         /\ \E i \in DOMAIN V.annots.list :
              LET e == [at |-> i, annot |-> V.annots.list[i],
                        of |-> V.annots.of, since |-> V.annots.deletions]
              IN  e \in Selections /\ Edited(Now, Now', Selected, e, V.drawing, V.history)
<1>1. V \in Fields
  BY SelectedIs
<1>2. PICK i \in DOMAIN V.annots.list :
        SetV("sel", [at |-> i, annot |-> V.annots.list[i],
                     of |-> V.annots.of, since |-> V.annots.deletions])
  BY DEF Tap
<1>3. /\ V.annots # None /\ mode # "Drawing" /\ mode' = "Edit" /\ Idly
      /\ UNCHANGED <<child, spare, queue, cancelled>>
      /\ UNCHANGED <<crashed, acts, home, drawn, wished, dropped, misled>>
  BY DEF Tap, OnlyView, Quiet, Idly
<1>4. V.annots \in Lists
  BY <1>1, <1>3, FieldsOf
<1>. DEFINE e == [at |-> i, annot |-> V.annots.list[i],
                  of |-> V.annots.of, since |-> V.annots.deletions]
<1>5. e \in Selections
  <2>1. /\ V.annots.of \in Pages /\ V.annots.list \in Seq(SUBSET Strokes)
        /\ V.annots.deletions \in Nat
    BY <1>1, <1>3, FieldsOf
  <2>2. i \in Nat /\ V.annots.list[i] \in SUBSET Strokes
    BY <2>1
  <2>. QED
    BY <2>1, <2>2 DEF Selections
<1>6. views' = [views EXCEPT ![Selected] = [@ EXCEPT !.sel = e]]
  BY <1>2 DEF SetV
<1>. HIDE DEF e
<1>7. views' = [views EXCEPT ![Selected] =
                  [@ EXCEPT !.sel = e, !.drawing = V.drawing, !.history = V.history]]
  <2>1. [V EXCEPT !.sel = e] = [V EXCEPT !.sel = e, !.drawing = V.drawing, !.history = V.history]
    BY <1>1 DEF Fields
  <2>. QED
    BY <1>6, <2>1 DEF V
<1>8. Edited(Now, Now', Selected, e, V.drawing, V.history)
  BY <1>1, <1>3, <1>5, <1>7, EditedIs, FieldsOf
<1>. QED
  BY <1>3, <1>4, <1>5, <1>8 DEF e

LEMMA DeselectIs ==
  ASSUME TasksInv, Deselect
  PROVE  /\ Idly /\ mode = "Edit" /\ mode' = "Viewing"
         /\ UNCHANGED <<crashed, acts, home, drawn, wished, dropped, misled>>
         /\ Edited(Now, Now', Selected, None, V.drawing, V.history)
<1>1. V \in Fields
  BY SelectedIs
<1>3. /\ mode = "Edit" /\ mode' = "Viewing" /\ Idly
      /\ UNCHANGED <<child, spare, queue, cancelled>>
      /\ UNCHANGED <<crashed, acts, home, drawn, wished, dropped, misled>>
      /\ views' = [views EXCEPT ![Selected] = [@ EXCEPT !.sel = None]]
  BY DEF Deselect, OnlyView, Quiet, Idly, SetV
<1>7. views' = [views EXCEPT ![Selected] =
                  [@ EXCEPT !.sel = None, !.drawing = V.drawing, !.history = V.history]]
  <2>1. [V EXCEPT !.sel = None] =
          [V EXCEPT !.sel = None, !.drawing = V.drawing, !.history = V.history]
    BY <1>1 DEF Fields
  <2>. QED
    BY <1>3, <2>1 DEF V
<1>8. Edited(Now, Now', Selected, None, V.drawing, V.history)
  BY <1>1, <1>3, <1>7, EditedIs, FieldsOf
<1>. QED
  BY <1>3, <1>8

LEMMA DrawIs ==
  ASSUME TasksInv, Draw
  PROVE  /\ Idly /\ mode = "Viewing" /\ mode' = "Drawing" /\ Now' = Now
         /\ UNCHANGED <<crashed, acts, home, drawn, wished, dropped, misled>>
BY DEF Draw, OnlyView, Quiet, Idly, Now

LEMMA DrawingIs ==
  ASSUME TasksInv
  PROVE  /\ Drawing \in SUBSET Strokes /\ StrokesOf(V.history) \in SUBSET Strokes
         /\ V.history \in Seq(SUBSET Strokes) /\ V.drawing \in {None} \cup SUBSET Strokes
         /\ V.sel \in Selections \cup {None}
         /\ V.drawing # None => Drawing = V.drawing
<1>1. V \in Fields
  BY SelectedIs
<1>2. V.history \in Seq(SUBSET Strokes) /\ V.drawing \in {None} \cup SUBSET Strokes
  BY <1>1, FieldsOf
<1>3. V.sel \in Selections \cup {None}
  BY <1>1, FieldsOf
<1>. QED
  BY <1>2, <1>3 DEF Drawing, StrokesOf, Range

LEMMA StrokeIs ==
  ASSUME TasksInv, Stroke
  PROVE  /\ Idly /\ mode = "Drawing" /\ mode' = mode
         /\ drawn < MaxStrokes /\ drawn' = drawn + 1 /\ drawn + 1 \in Strokes
         /\ home' = [home EXCEPT ![drawn + 1] = cur]
         /\ UNCHANGED <<crashed, acts, wished, dropped, misled>>
         /\ Edited(Now, Now', Selected, V.sel, Drawing \cup {drawn + 1}, <<Drawing>> \o V.history)
<1>1. V \in Fields
  BY SelectedIs
<1>3. /\ mode = "Drawing" /\ mode' = mode /\ Idly
      /\ drawn < MaxStrokes /\ drawn' = drawn + 1
      /\ home' = [home EXCEPT ![drawn + 1] = cur]
      /\ UNCHANGED <<child, spare, queue, cancelled>>
      /\ UNCHANGED <<crashed, acts, wished, dropped, misled>>
      /\ views' = [views EXCEPT ![Selected].history = <<Drawing>> \o @,
                                ![Selected].drawing = Drawing \cup {drawn + 1}]
  BY DEF Stroke, Idly, histories
<1>4. drawn + 1 \in Strokes
  BY <1>3, PageViewsAssumption DEF TasksInv, Basic, Strokes
<1>5. /\ Drawing \cup {drawn + 1} \in {None} \cup SUBSET Strokes
      /\ <<Drawing>> \o V.history \in Seq(SUBSET Strokes)
      /\ V.sel \in Selections \cup {None}
  BY <1>4, DrawingIs, ConcatHead
<1>. DEFINE d == Drawing \cup {drawn + 1}
            h == <<Drawing>> \o V.history
<1>7. views' = [views EXCEPT ![Selected] = [@ EXCEPT !.sel = V.sel, !.drawing = d, !.history = h]]
  <2>0. Selected \in Views /\ views \in [Views -> Fields]
    BY SelectedIs, NowIs DEF TasksInv, Basic, States
  <2>1. \A x, y : [V EXCEPT !.history = x, !.drawing = y] =
                  [V EXCEPT !.sel = V.sel, !.drawing = y, !.history = x]
    BY <1>1 DEF Fields
  <2>2. views' = [views EXCEPT ![Selected] = [V EXCEPT !.history = h, !.drawing = d]]
    BY <1>3, <2>0 DEF V
  <2>. HIDE DEF d, h
  <2>3. [V EXCEPT !.history = h, !.drawing = d] =
        [V EXCEPT !.sel = V.sel, !.drawing = d, !.history = h]
    BY <2>1
  <2>. QED
    BY <2>2, <2>3 DEF V
<1>. HIDE DEF d, h
<1>8. Edited(Now, Now', Selected, V.sel, d, h)
  BY <1>3, <1>5, <1>7, EditedIs DEF d, h
<1>. QED
  BY <1>3, <1>4, <1>8 DEF d, h

LEMMA EraseIs ==
  ASSUME TasksInv, NEW S \in SUBSET Strokes, Erase(S)
  PROVE  /\ Idly /\ mode = "Drawing" /\ mode' = mode /\ S \subseteq Drawing
         /\ UNCHANGED <<crashed, acts, home, drawn, wished, dropped, misled>>
         /\ Edited(Now, Now', Selected, V.sel,
                   IF V.drawing = None THEN None ELSE V.drawing \ S, <<Drawing>> \o V.history)
<1>1. V \in Fields
  BY SelectedIs
<1>3. /\ mode = "Drawing" /\ mode' = mode /\ Idly /\ S \subseteq Drawing
      /\ UNCHANGED <<child, spare, queue, cancelled>>
      /\ UNCHANGED <<crashed, acts, home, drawn, wished, dropped, misled>>
      /\ views' = [views EXCEPT ![Selected].history = <<Drawing>> \o @,
                                ![Selected].drawing = IF @ = None THEN @ ELSE @ \ S]
  BY DEF Erase, OnlyView, Quiet, Idly
<1>. DEFINE d == IF V.drawing = None THEN None ELSE V.drawing \ S
            h == <<Drawing>> \o V.history
<1>5. /\ d \in {None} \cup SUBSET Strokes /\ h \in Seq(SUBSET Strokes)
      /\ V.sel \in Selections \cup {None}
  BY DrawingIs, ConcatHead
<1>7. views' = [views EXCEPT ![Selected] = [@ EXCEPT !.sel = V.sel, !.drawing = d, !.history = h]]
  <2>0. Selected \in Views /\ views \in [Views -> Fields]
    BY SelectedIs, NowIs DEF TasksInv, Basic, States
  <2>1. \A x, y : [V EXCEPT !.history = x, !.drawing = y] =
                  [V EXCEPT !.sel = V.sel, !.drawing = y, !.history = x]
    BY <1>1 DEF Fields
  <2>2. views' = [views EXCEPT ![Selected] = [V EXCEPT !.history = h, !.drawing = d]]
    BY <1>1, <1>3, <2>0 DEF V, Fields
  <2>. HIDE DEF d, h
  <2>3. [V EXCEPT !.history = h, !.drawing = d] =
        [V EXCEPT !.sel = V.sel, !.drawing = d, !.history = h]
    BY <2>1
  <2>. QED
    BY <2>2, <2>3 DEF V
<1>. HIDE DEF d, h
<1>8. Edited(Now, Now', Selected, V.sel, d, h)
  BY <1>3, <1>5, <1>7, EditedIs
<1>. QED
  BY <1>3, <1>8 DEF d, h

LEMMA UndoIs ==
  ASSUME TasksInv, UndoDraw
  PROVE  /\ Idly /\ mode = "Drawing" /\ mode' = mode /\ V.history # <<>>
         /\ UNCHANGED <<crashed, acts, home, drawn, dropped, misled>>
         /\ wished' = wished \cup (Drawing \ StrokesOf(V.history))
         /\ Edited(Now, Now', Selected, V.sel, Head(V.history), Tail(V.history))
<1>1. V \in Fields
  BY SelectedIs
<1>3. /\ mode = "Drawing" /\ mode' = mode /\ Idly /\ V.history # <<>>
      /\ UNCHANGED <<child, spare, queue, cancelled>>
      /\ UNCHANGED <<crashed, acts, home, drawn, dropped, misled>>
      /\ wished' = wished \cup (Drawing \ StrokesOf(V.history))
      /\ views' = [views EXCEPT ![Selected].drawing = Head(V.history),
                                ![Selected].history = Tail(V.history)]
  BY DEF UndoDraw, OnlyView, Quiet, Idly
<1>. DEFINE d == Head(V.history)
            h == Tail(V.history)
<1>5. /\ d \in {None} \cup SUBSET Strokes /\ h \in Seq(SUBSET Strokes)
      /\ V.sel \in Selections \cup {None}
  BY <1>3, DrawingIs, TailItems
<1>. HIDE DEF d, h
<1>7. views' = [views EXCEPT ![Selected] = [@ EXCEPT !.sel = V.sel, !.drawing = d, !.history = h]]
  <2>0. Selected \in Views /\ views \in [Views -> Fields]
    BY SelectedIs, NowIs DEF TasksInv, Basic, States
  <2>1. [V EXCEPT !.drawing = d, !.history = h] =
                  [V EXCEPT !.sel = V.sel, !.drawing = d, !.history = h]
    BY <1>1 DEF Fields
  <2>2. views' = [views EXCEPT ![Selected] = [V EXCEPT !.drawing = d, !.history = h]]
    BY <1>3, <2>0 DEF V, d, h
  <2>. QED
    BY <2>1, <2>2 DEF V
<1>8. Edited(Now, Now', Selected, V.sel, d, h)
  BY <1>3, <1>5, <1>7, EditedIs
<1>. QED
  BY <1>3, <1>8 DEF d, h

LEMMA CancelDrawIs ==
  ASSUME TasksInv, CancelDraw
  PROVE  /\ Idly /\ mode = "Drawing" /\ mode' = "Viewing"
         /\ UNCHANGED <<crashed, acts, home, drawn, dropped, misled>>
         /\ wished' = wished \cup Drawing \cup StrokesOf(V.history)
         /\ \E h : h = <<>> /\ Edited(Now, Now', Selected, V.sel, None, h)
<1>1. V \in Fields
  BY SelectedIs
<1>3. /\ mode = "Drawing" /\ mode' = "Viewing" /\ Idly
      /\ UNCHANGED <<child, spare, queue, cancelled>>
      /\ UNCHANGED <<crashed, acts, home, drawn, dropped, misled>>
      /\ wished' = wished \cup Drawing \cup StrokesOf(V.history)
      /\ views' = [views EXCEPT ![Selected].drawing = None,
                                ![Selected].history = <<>>]
  BY DEF CancelDraw, OnlyView, Quiet, Idly
<1>4. PICK h : h = <<>>
  OBVIOUS
<1>5. h \in Seq(SUBSET Strokes) /\ V.sel \in Selections \cup {None}
  BY <1>4, DrawingIs
<1>6. views' = [views EXCEPT ![Selected].drawing = None, ![Selected].history = h]
  BY <1>3, <1>4
<1>7. views' = [views EXCEPT ![Selected] = [@ EXCEPT !.sel = V.sel, !.drawing = None, !.history = h]]
  <2>0. Selected \in Views /\ views \in [Views -> Fields]
    BY SelectedIs, NowIs DEF TasksInv, Basic, States
  <2>1. [V EXCEPT !.drawing = None, !.history = h] =
                  [V EXCEPT !.sel = V.sel, !.drawing = None, !.history = h]
    BY <1>1 DEF Fields
  <2>2. views' = [views EXCEPT ![Selected] = [V EXCEPT !.drawing = None, !.history = h]]
    BY <1>6, <2>0 DEF V
  <2>. QED
    BY <2>1, <2>2 DEF V
<1>8. Edited(Now, Now', Selected, V.sel, None, h)
  BY <1>3, <1>5, <1>7, EditedIs
<1>. QED
  BY <1>3, <1>4, <1>8

Work == Live(queue, posts, running)

\* One view begins a task, and has other things selected and drawn on it.
Begun(s, r, v, k, id, t, a, e, d, h) ==
  /\ r \in States /\ r.child = s.child /\ r.spare = s.spare
  /\ Renewal(s, r, Work, v, k, id, t) /\ FreshIn(s, Work, id)
  /\ SameShow(r.views[v], s.views[v])
  /\ r.views[v].annots = a
  /\ r.views[v].sel = e /\ r.views[v].drawing = d /\ r.views[v].history = h

LEMMA TasksInvTypes ==
  ASSUME TasksInv
  PROVE  /\ Now \in States /\ posts \in Seq(Results) /\ running \in Started \cup {None}
         /\ queue \in Seq(Jobs) /\ cancelled \in SUBSET Nat
         /\ views \in [Views -> Fields] /\ child \in [Pages -> Views \cup {None}]
         /\ Live(Now.queue, posts, running) = Work
         /\ Work \in SUBSET Tags /\ (running # None => Tag(running) \in Work)
BY LiveType, InLive, NowIs DEF TasksInv, Basic, States, Work

LEMMA DeleteSelectedIs ==
  ASSUME TasksInv, V.sel # None
  PROVE  \E id \in Nat : Begun(Now, DeleteSelected(Now), Selected, "del", id, V.sel,
                               V.annots, None, V.drawing, V.history)
<1>. DEFINE f == [V EXCEPT !.sel = None]
            d == [Cancel(Now, {V.del}) EXCEPT !.views[Selected].sel = None]
            c == Cancel(Now, {V.del})
<1>1. V \in Fields /\ Selected \in Views /\ V.sel \in Selections /\ "del" \in Kinds
      /\ V = Now.views[Selected]
  BY SelectedIs, FieldsOf DEF Kinds
<1>2. /\ f \in Fields /\ SameShow(f, V) /\ SameTasks(f, V) /\ SameInk(f, V)
      /\ f.annots = V.annots /\ f.sel = None
  BY <1>1 DEF Fields, SameShow, SameTasks, SameInk
<1>3. \A i \in Nat : Job(i, "del", Selected, V.sel) \in Jobs
  BY <1>1 DEF Job, Jobs
<1>4. c \in States /\ c.views = Now.views
  BY CancelIs, TasksInvTypes
<1>5. d = [c EXCEPT !.views = [Now.views EXCEPT ![Selected] = f]]
  BY <1>1, <1>4 DEF States
<1>6. TaskOf(Now.views[Selected], "del") = V.del
  BY <1>1 DEF TaskOf
<1>7. DeleteSelected(Now) = Execute(d, Selected, "del", V.sel)
  BY DEF DeleteSelected
<1>. HIDE DEF f, d
<1>8. PICK id \in Nat :
       LET r == DeleteSelected(Now) IN
           /\ FreshIn(Now, Work, id)
           /\ r \in States /\ r.child = Now.child /\ r.spare = Now.spare
           /\ Renewal(Now, r, Work, Selected, "del", id, V.sel)
           /\ SameShow(r.views[Selected], Now.views[Selected])
           /\ SameInk(r.views[Selected], f)
           /\ SameLists(r.views[Selected], f)
  <2>. DEFINE r == DeleteSelected(Now)
              t == V.sel
  <2>1. /\ Now \in States /\ posts \in Seq(Results) /\ running \in Started \cup {None}
        /\ Live(Now.queue, posts, running) = Work
    BY TasksInvTypes
  <2>2. d = [Cancel(Now, {TaskOf(Now.views[Selected], "del")}) EXCEPT
               !.views = [Now.views EXCEPT ![Selected] = f]]
    BY <1>5, <1>6
  <2>. HIDE DEF r, c, t
  <2>3. r = Execute(d, Selected, "del", t) /\ \A i \in Nat : Job(i, "del", Selected, t) \in Jobs
    BY <1>3, <1>7 DEF r, t
  <2>4. SameShow(f, Now.views[Selected]) /\ SameTasks(f, Now.views[Selected])
    BY <1>1, <1>2
  <2>5. \E id \in Nat :
           /\ FreshIn(Now, Work, id)
           /\ r \in States /\ r.child = Now.child /\ r.spare = Now.spare
           /\ Renewal(Now, r, Work, Selected, "del", id, t)
           /\ SameShow(r.views[Selected], Now.views[Selected])
           /\ SameInk(r.views[Selected], f)
           /\ SameLists(r.views[Selected], f)
    BY <1>1, <1>2, <2>1, <2>2, <2>3, <2>4, RenewIs
  <2>. QED
    BY <2>5 DEF r, t
<1>. QED
  BY <1>2, <1>8 DEF Begun, SameInk, SameLists

LEMMA DeleteIs ==
  ASSUME TasksInv, DeleteSelectedAnnotation
  PROVE  /\ Idly /\ mode = "Edit" /\ mode' = "Viewing" /\ V.sel # None
         /\ UNCHANGED <<crashed, home, drawn, dropped, misled>>
         /\ acts > 0 /\ acts' = acts - 1
         /\ wished' = wished \cup V.sel.annot
         /\ \E id \in Nat : Begun(Now, Now', Selected, "del", id, V.sel,
                                  V.annots, None, V.drawing, V.history)
<1>1. /\ Idly /\ mode = "Edit" /\ mode' = "Viewing" /\ V.sel # None
      /\ UNCHANGED <<crashed, home, drawn, dropped, misled>>
      /\ acts > 0 /\ acts' = acts - 1
      /\ wished' = wished \cup V.sel.annot
      /\ Becomes(DeleteSelected(Now))
  BY DEF DeleteSelectedAnnotation, Act, Quiet, Idly
<1>2. PICK id \in Nat : Begun(Now, DeleteSelected(Now), Selected, "del", id, V.sel,
                              V.annots, None, V.drawing, V.history)
  BY <1>1, DeleteSelectedIs
<1>3. DeleteSelected(Now) \in States
  BY <1>2 DEF Begun
<1>4. Now' = DeleteSelected(Now)
  BY <1>1, <1>3, BecomesIs
<1>. QED
  BY <1>1, <1>2, <1>4

LEMMA EditIs ==
  ASSUME TasksInv, EditSelectedAnnotation
  PROVE  /\ Idly /\ mode = "Edit" /\ V.sel # None
         /\ UNCHANGED <<home, drawn, wished, dropped>>
         /\ acts > 0 /\ acts' = acts - 1
         /\ \/ crashed' = "list" /\ mode' = mode /\ misled' = misled /\ Now' = Now
            \/ /\ V.annots # None /\ V.sel.at \in DOMAIN V.annots.list
               /\ mode' = "Drawing" /\ crashed' = crashed
               /\ misled' = misled
                    \cup (IF V.annots.of = V.sel.of THEN {} ELSE V.sel.annot)
                    \cup (IF V.annots.of = V.page THEN {} ELSE V.annots.list[V.sel.at])
               /\ V.annots.list[V.sel.at] \in SUBSET Strokes
               /\ \E id \in Nat : Begun(Now, Now', Selected, "del", id, V.sel,
                                        V.annots, None, V.annots.list[V.sel.at], V.history)
<1>0. /\ Idly /\ mode = "Edit" /\ V.sel # None
      /\ UNCHANGED <<home, drawn, wished, dropped>>
      /\ acts > 0 /\ acts' = acts - 1
  BY DEF EditSelectedAnnotation, Act, Quiet, Idly
<1>1. CASE ~(V.annots # None /\ V.sel.at \in DOMAIN V.annots.list)
  <2>1. crashed' = "list" /\ UNCHANGED <<uivars, mode, misled>>
    BY <1>1 DEF EditSelectedAnnotation
  <2>2. Now' = Now
    BY <2>1 DEF uivars, Now
  <2>. QED
    BY <1>0, <2>1, <2>2
<1>2. CASE V.annots # None /\ V.sel.at \in DOMAIN V.annots.list
  <2>. DEFINE x == V.annots.list[V.sel.at]
              s == DeleteSelected(Now)
              r == [s EXCEPT !.views[Selected].drawing = x]
              f == [s.views[Selected] EXCEPT !.drawing = x]
  <2>1. /\ Becomes(r) /\ mode' = "Drawing" /\ crashed' = crashed
        /\ misled' = misled
               \cup (IF V.annots.of = V.sel.of THEN {} ELSE V.sel.annot)
               \cup (IF V.annots.of = V.page THEN {} ELSE V.annots.list[V.sel.at])
    BY <1>2 DEF EditSelectedAnnotation
  <2>2. x \in SUBSET Strokes
    <3>1. V.annots.list \in Seq(SUBSET Strokes)
      BY <1>2, SelectedIs, FieldsOf
    <3>. QED
      BY <1>2, <3>1
  <2>3. PICK id \in Nat : Begun(Now, s, Selected, "del", id, V.sel,
                              V.annots, None, V.drawing, V.history)
    BY <1>0, DeleteSelectedIs
  <2>. HIDE DEF x, s
  <2>4. s \in States /\ s.views[Selected] \in Fields /\ s.views \in [Views -> Fields]
        /\ Selected \in Views
    BY <2>3, SelectedIs DEF Begun, States
  <2>5. /\ f \in Fields /\ SameShow(f, s.views[Selected]) /\ SameTasks(f, s.views[Selected])
        /\ SameLists(f, s.views[Selected]) /\ f.drawing = x
        /\ f.history = s.views[Selected].history
    BY <2>2, <2>4 DEF Fields, SameShow, SameTasks, SameLists
  <2>6. r = [s EXCEPT !.views = [s.views EXCEPT ![Selected] = f]]
    BY <2>4 DEF States
  <2>. DEFINE W == [s.views EXCEPT ![Selected] = f]
  <2>. HIDE DEF f, r
  <2>7. W \in [Views -> Fields] /\ W[Selected] = f /\ \A w \in Views : w # Selected => W[w] = s.views[w]
    BY <2>4, <2>5
  <2>. HIDE DEF W
  <2>8. /\ r \in States /\ r.views = W /\ r.child = s.child /\ r.spare = s.spare
        /\ r.queue = s.queue /\ r.cancelled = s.cancelled
    BY <2>4, <2>6, <2>7 DEF States, W
  <2>9. Begun(Now, r, Selected, "del", id, V.sel, V.annots, None, x, V.history)
    <3>1. SameShow(r.views[Selected], Now.views[Selected])
      BY <2>3, <2>5, <2>7, <2>8 DEF Begun, SameShow
    <3>2. FieldSet(r.views[Selected], Now.views[Selected], "del", id)
      BY <2>3, <2>5, <2>7, <2>8 DEF Begun, Renewal, FieldSet, SameTasks
    <3>3. Renewal(Now, r, Work, Selected, "del", id, V.sel)
      BY <2>3, <2>7, <2>8, <3>2 DEF Begun, Renewal
    <3>4. /\ r.views[Selected].annots = V.annots /\ r.views[Selected].sel = None
          /\ r.views[Selected].drawing = x /\ r.views[Selected].history = V.history
      BY <2>3, <2>5, <2>7, <2>8 DEF Begun, SameLists
    <3>. QED
      BY <2>3, <2>8, <3>1, <3>3, <3>4 DEF Begun
  <2>10. Now' = r
    BY <2>1, <2>8, BecomesIs DEF r, x, s
  <2>. QED
    BY <1>0, <1>2, <2>1, <2>2, <2>9, <2>10 DEF x
<1>. QED
  BY <1>1, <1>2

LEMMA SaveDrawIs ==
  ASSUME TasksInv, SaveDraw
  PROVE  /\ Idly /\ mode = "Drawing" /\ mode' = "Viewing"
         /\ UNCHANGED <<crashed, home, drawn, misled>>
         /\ acts > 0 /\ acts' = acts - 1
         /\ \/ V.drawing = None /\ Now' = Now /\ wished' = wished /\ dropped' = dropped
            \/ /\ V.drawing # None /\ V.drawing \in SUBSET Strokes
               /\ wished' = wished \cup (StrokesOf(V.history) \ V.drawing)
               /\ dropped' = dropped \cup Unstarted(Now, Selected)
               /\ \E id \in Nat : \E h : /\ h = <<>>
                    /\ Begun(Now, Now', Selected, "ink", id, V.drawing, V.annots, V.sel, None, h)
<1>0. /\ Idly /\ mode = "Drawing" /\ mode' = "Viewing"
      /\ UNCHANGED <<crashed, home, drawn, misled>>
      /\ acts > 0 /\ acts' = acts - 1
  BY DEF SaveDraw, Act, Quiet, Idly
<1>1. CASE V.drawing = None
  <2>1. UNCHANGED <<uivars, wished, dropped>>
    BY <1>1 DEF SaveDraw
  <2>2. Now' = Now
    BY <2>1 DEF uivars, Now
  <2>. QED
    BY <1>0, <1>1, <2>1, <2>2
<1>2. CASE V.drawing # None
  <2>. DEFINE d0 == [Cancel(Now, {V.ink}) EXCEPT
                      !.views[Selected].drawing = None,
                      !.views[Selected].history = <<>>]
              r == Execute(d0, Selected, "ink", V.drawing)
              c == Cancel(Now, {V.ink})
  <2>1. /\ Becomes(r)
        /\ wished' = wished \cup (StrokesOf(V.history) \ V.drawing)
        /\ dropped' = dropped \cup Unstarted(Now, Selected)
    BY <1>2 DEF SaveDraw
  <2>2. V.drawing \in SUBSET Strokes /\ V \in Fields /\ Selected \in Views /\ "ink" \in Kinds
        /\ V = Now.views[Selected]
    BY <1>2, DrawingIs, SelectedIs DEF Kinds
  <2>3. PICK h : h = <<>>
    OBVIOUS
  <2>. DEFINE f == [V EXCEPT !.drawing = None, !.history = h]
              d == [c EXCEPT !.views = [Now.views EXCEPT ![Selected] = f]]
  <2>4. /\ f \in Fields /\ SameShow(f, V) /\ SameTasks(f, V) /\ SameLists(f, V)
        /\ f.drawing = None /\ f.history = h
    <3>1. h \in Seq(SUBSET Strokes)
      BY <2>3
    <3>. QED
      BY <2>2, <3>1 DEF Fields, SameShow, SameTasks, SameLists
  <2>5. c \in States /\ c.views = Now.views
    BY CancelIs, TasksInvTypes
  <2>6. d0 = d
    <3>1. d0 = [c EXCEPT !.views[Selected].drawing = None, !.views[Selected].history = h]
      BY <2>3
    <3>. HIDE DEF c, d0
    <3>. QED
      BY <2>2, <2>5, <3>1 DEF States
  <2>7. \A i \in Nat : Job(i, "ink", Selected, V.drawing) \in Jobs
    BY <2>2 DEF Job, Jobs
  <2>8. TaskOf(Now.views[Selected], "ink") = V.ink
    BY <2>2 DEF TaskOf
  <2>9. d = [Cancel(Now, {TaskOf(Now.views[Selected], "ink")}) EXCEPT
               !.views = [Now.views EXCEPT ![Selected] = f]]
    BY <2>8
  <2>. DEFINE t == V.drawing
  <2>. HIDE DEF d0
  <2>10. r = Execute(d, Selected, "ink", t) /\ \A i \in Nat : Job(i, "ink", Selected, t) \in Jobs
    BY <2>6, <2>7
  <2>. HIDE DEF f, d, r, c, t
  <2>11. \E id \in Nat :
           /\ FreshIn(Now, Work, id)
           /\ r \in States /\ r.child = Now.child /\ r.spare = Now.spare
           /\ Renewal(Now, r, Work, Selected, "ink", id, t)
           /\ SameShow(r.views[Selected], Now.views[Selected])
           /\ SameInk(r.views[Selected], f)
           /\ SameLists(r.views[Selected], f)
    <3>1. /\ Now \in States /\ posts \in Seq(Results) /\ running \in Started \cup {None}
          /\ Live(Now.queue, posts, running) = Work
      BY TasksInvTypes
    <3>2. SameShow(f, Now.views[Selected]) /\ SameTasks(f, Now.views[Selected])
      BY <2>2, <2>4
    <3>. QED
      BY <2>2, <2>4, <2>9, <2>10, <3>1, <3>2, RenewIs
  <2>12. PICK id \in Nat : Begun(Now, r, Selected, "ink", id, t, V.annots, V.sel, None, h)
    BY <2>4, <2>11 DEF Begun, SameInk, SameLists
  <2>13. Now' = r
    <3>1. r \in States
      BY <2>12 DEF Begun
    <3>. QED
      BY <2>1, <3>1, BecomesIs DEF r, d0, t
  <2>. QED
    BY <1>0, <1>2, <2>1, <2>2, <2>3, <2>12, <2>13 DEF t
<1>. QED
  BY <1>1, <1>2

\* One view gets another list, or none.
Relisted(s, r, v, a) ==
  /\ r \in States /\ r.child = s.child /\ r.spare = s.spare /\ r.queue = s.queue
  /\ \A w \in Views : w # v => r.views[w] = s.views[w]
  /\ SameShow(r.views[v], s.views[v]) /\ SameTasks(r.views[v], s.views[v])
  /\ SameInk(r.views[v], s.views[v]) /\ r.views[v].sel = s.views[v].sel
  /\ r.views[v].annots = a

LEMMA RelistedIs ==
  ASSUME NEW s \in States, NEW v \in Views, NEW a \in Lists \cup {None}, NEW C \in SUBSET Nat,
         NEW f, f = [s.views[v] EXCEPT !.annots = a],
         NEW W,
         \A w \in Views : w # v => W[w] = s.views[w],
         W = [w \in Views |-> W[w]], W[v] = f,
         NEW r, r = [views |-> W, child |-> s.child, spare |-> s.spare,
                     queue |-> s.queue, cancelled |-> C]
  PROVE  Relisted(s, r, v, a) /\ r.cancelled = C
<1>1. s.views[v] \in Fields /\ s.views \in [Views -> Fields]
  BY DEF States
<1>2. /\ f \in Fields /\ SameShow(f, s.views[v]) /\ SameTasks(f, s.views[v])
      /\ SameInk(f, s.views[v]) /\ f.sel = s.views[v].sel /\ f.annots = a
  BY <1>1 DEF Fields, SameShow, SameTasks, SameInk
<1>3. W \in [Views -> Fields]
  BY <1>1, <1>2
<1>4. /\ r \in States /\ r.views = W /\ r.child = s.child /\ r.spare = s.spare
      /\ r.queue = s.queue /\ r.cancelled = C
  BY <1>3 DEF States
<1>. QED
  BY <1>2, <1>3, <1>4 DEF Relisted

LEMMA HeadOfPosts ==
  ASSUME TasksInv, posts # <<>>
  PROVE  /\ Head(posts) \in Results /\ Tail(posts) \in Seq(Results)
         /\ Tag(Head(posts)) \in Work /\ Head(posts).view \in Views
         /\ Tag(Head(posts)).id = Head(posts).id
         /\ Tag(Head(posts)).kind = Head(posts).kind
         /\ Tag(Head(posts)).view = Head(posts).view
<1>1. posts \in Seq(Results)
  BY TasksInvTypes
<1>2. /\ Head(posts) \in Results /\ Tail(posts) \in Seq(Results)
      /\ Head(posts) = posts[1] /\ 1 \in DOMAIN posts
  BY <1>1, TailItems
<1>. QED
  BY <1>2, InLive, ResultType DEF Work

LEMMA DeliverIs ==
  ASSUME TasksInv, Deliver
  PROVE  LET t == Head(posts) IN
         /\ posts # <<>> /\ posts' = Tail(posts) /\ crashed = None
         /\ UNCHANGED <<doc, deletions, cur, mode, running, acts, drawn, home,
                        wished, dropped, misled, late>>
         /\ \/ /\ t.id \in cancelled /\ crashed' = crashed
               /\ Now' \in States /\ views' = views /\ child' = child /\ spare' = spare
               /\ queue' = queue /\ cancelled' = cancelled \ {t.id}
            \/ /\ t.id \notin cancelled /\ t.kind = "del" /\ crashed' = crashed
               /\ \E id \in Nat :
                    Begun(Now, Now', t.view, "loader", id, None, None, views[t.view].sel,
                          views[t.view].drawing, views[t.view].history)
            \/ /\ t.id \notin cancelled /\ t.kind = "loader" /\ t.what \in Lists
               /\ crashed' = IF views[t.view].sized THEN None ELSE "size"
               /\ Relisted(Now, Now', t.view, t.what) /\ cancelled' = cancelled
<1>. DEFINE t == Head(posts)
            s == [Now EXCEPT !.cancelled = @ \ {t.id}]
<1>0. /\ posts # <<>> /\ posts' = Tail(posts) /\ crashed = None
      /\ UNCHANGED <<doc, deletions, cur, mode, running, acts, drawn, home,
                     wished, dropped, misled, late>>
  BY DEF Deliver, histories, Up
<1>1. t \in Results /\ t.view \in Views
  BY <1>0, HeadOfPosts
<1>2. /\ s \in States /\ s.views = views /\ s.child = child /\ s.spare = spare
      /\ s.queue = queue /\ s.cancelled = cancelled \ {t.id}
  <2>1. Now \in States
    BY TasksInvTypes
  <2>2. Now.cancelled \ {t.id} \in SUBSET Nat
    BY <2>1 DEF States
  <2>. HIDE DEF t
  <2>3. /\ s \in States /\ s.views = Now.views /\ s.child = Now.child /\ s.spare = Now.spare
        /\ s.queue = Now.queue /\ s.cancelled = Now.cancelled \ {t.id}
    BY <2>1, <2>2 DEF States
  <2>. QED
    BY <2>3, NowIs
<1>3. CASE t.id \in cancelled
  <2>1. Becomes(s) /\ crashed' = crashed
    BY <1>3 DEF Deliver
  <2>2. Now' = s
    BY <1>2, <2>1, BecomesIs
  <2>. QED
    BY <1>0, <1>2, <1>3, <2>1, <2>2 DEF Becomes
<1>4. CASE t.id \notin cancelled
  <2>1. s = Now
    BY <1>2, <1>4, TasksInvTypes, NowIs DEF States
  <2>2. CASE t.kind = "del"
    <3>1. Becomes(LoadAnnotations(s, t.view)) /\ crashed' = crashed
      BY <1>4, <2>2 DEF Deliver
    <3>. DEFINE r == LoadAnnotations(Now, t.view)
    <3>2. PICK id \in Nat :
           /\ FreshIn(Now, Work, id)
           /\ r \in States /\ r.child = Now.child /\ r.spare = Now.spare
           /\ Renewal(Now, r, Work, t.view, "loader", id, None)
           /\ SameShow(r.views[t.view], Now.views[t.view])
           /\ SameInk(r.views[t.view], Now.views[t.view])
           /\ r.views[t.view].annots = None
           /\ r.views[t.view].sel = Now.views[t.view].sel
      <4>. HIDE DEF t
      <4>. QED
        BY <1>1, TasksInvTypes, LoadAnnotationsIs
    <3>3. Becomes(r)
      BY <2>1, <3>1
    <3>. HIDE DEF r
    <3>4. Now' = r
      BY <3>2, <3>3, BecomesIs
    <3>5. Begun(Now, r, t.view, "loader", id, None, None, views[t.view].sel,
                          views[t.view].drawing, views[t.view].history)
      BY <3>2, NowIs DEF Begun, SameInk
    <3>. QED
      BY <1>0, <1>4, <2>2, <3>1, <3>4, <3>5
  <2>3. CASE t.kind # "del"
    <3>1. /\ Becomes([s EXCEPT !.views[t.view].annots = t.what])
          /\ crashed' = IF views[t.view].sized THEN None ELSE "size"
      BY <1>4, <2>3 DEF Deliver
    <3>2. t.kind = "loader" /\ t.what \in Lists
      BY <1>1, <2>3, ResultType
    <3>. DEFINE r == [Now EXCEPT !.views = [Now.views EXCEPT ![t.view] =
                         [Now.views[t.view] EXCEPT !.annots = t.what]],
                                 !.cancelled = Now.cancelled]
    <3>3. Relisted(Now, r, t.view, t.what) /\ r.cancelled = Now.cancelled
      <4>1. Now.cancelled \in SUBSET Nat /\ Now \in States
        BY TasksInvTypes DEF States
      <4>. DEFINE f == [Now.views[t.view] EXCEPT !.annots = t.what]
                  W == [Now.views EXCEPT ![t.view] = f]
      <4>2. /\ W = [w \in Views |-> W[w]] /\ W[t.view] = f
            /\ \A w \in Views : w # t.view => W[w] = Now.views[w]
        BY <1>1, <4>1 DEF States
      <4>. HIDE DEF W, t
      <4>3. r = [views |-> W, child |-> Now.child, spare |-> Now.spare,
                 queue |-> Now.queue, cancelled |-> Now.cancelled]
        <5>1. r = [Now EXCEPT !.views = W, !.cancelled = Now.cancelled]
          BY DEF W
        <5>. HIDE DEF r
        <5>. QED
          BY <4>1, <5>1 DEF States
      <4>4. t.what \in Lists \cup {None} /\ t.view \in Views
        BY <1>1, <3>2
      <4>5. f = [Now.views[t.view] EXCEPT !.annots = t.what]
        OBVIOUS
      <4>. HIDE DEF f, r
      <4>. QED
        BY <4>1, <4>2, <4>3, <4>4, <4>5, RelistedIs
    <3>4. r = [s EXCEPT !.views[t.view].annots = t.what]
      <4>1. Now \in States
        BY TasksInvTypes
      <4>. HIDE DEF t, s
      <4>. QED
        BY <1>1, <2>1, <4>1 DEF States
    <3>5. Becomes(r) /\ r \in States
      BY <3>1, <3>3, <3>4 DEF Relisted
    <3>. HIDE DEF r
    <3>6. Now' = r
      BY <3>5, BecomesIs
    <3>7. cancelled' = cancelled
      BY <3>3, <3>5, NowIs DEF Becomes
    <3>. QED
      BY <1>0, <1>4, <3>1, <3>2, <3>3, <3>6, <3>7
  <2>. QED
    BY <2>2, <2>3
<1>. QED
  BY <1>3, <1>4

LEMMA MoveToIs ==
  ASSUME TasksInv, NEW p \in Pages, MoveTo(p)
  PROVE  LET off == [Now EXCEPT !.views = [views EXCEPT ![Selected] = [V EXCEPT !.sel = None]]]
             s   == OnLayout(off, p)
         IN  /\ UNCHANGED <<doc, deletions, running, posts, home, crashed, drawn, wished,
                            misled, late>>
             /\ cur' = p /\ mode # "Drawing" /\ mode' = "Viewing"
             /\ acts > 0 /\ acts' = acts - 1
             /\ Edited(Now, off, Selected, None, V.drawing, V.history)
             /\ Becomes(s)
             /\ dropped' = dropped \cup
                  UNION {Unstarted(Now, child[q]) : q \in {r \in Pages :
                           child[r] # None /\ s.child[r] # child[r]}}
<1>. DEFINE f == [V EXCEPT !.sel = None]
            W == [views EXCEPT ![Selected] = f]
            off == [Now EXCEPT !.views = W]
            s   == OnLayout(off, p)
<1>1. /\ UNCHANGED <<doc, deletions, running, posts, home, crashed, drawn, wished,
                     misled, late>>
      /\ cur' = p /\ mode # "Drawing" /\ mode' = "Viewing"
      /\ acts > 0 /\ acts' = acts - 1
  BY DEF MoveTo, Quiet, Act
<1>2. Now \in States /\ V \in Fields /\ Selected \in Views /\ views \in [Views -> Fields]
      /\ V = Now.views[Selected] /\ V = views[Selected]
  BY SelectedIs, TasksInvTypes DEF V
<1>3. off = [Now EXCEPT !.views[Selected].sel = None]
  BY <1>2, NowIs DEF States
<1>4. /\ f \in Fields /\ SameShow(f, V) /\ SameTasks(f, V) /\ f.annots = V.annots
      /\ f.sel = None /\ f.drawing = V.drawing /\ f.history = V.history
  BY <1>2 DEF Fields, SameShow, SameTasks
<1>5. Becomes(s) /\ dropped' = dropped \cup
           UNION {Unstarted(Now, child[q]) : q \in {r \in Pages :
                    child[r] # None /\ s.child[r] # child[r]}}
  <2>. HIDE DEF off
  <2>. QED
    BY <1>3 DEF MoveTo
<1>. HIDE DEF f
<1>6. W \in [Views -> Fields] /\ W[Selected] = f /\ \A w \in Views : w # Selected => W[w] = views[w]
  BY <1>2, <1>4
<1>. HIDE DEF W
<1>7. /\ off \in States /\ off.views = W /\ off.child = child /\ off.spare = spare
      /\ off.queue = queue /\ off.cancelled = cancelled
  BY <1>2, <1>6, NowIs DEF States
<1>. HIDE DEF off, s
<1>8. Edited(Now, off, Selected, None, V.drawing, V.history)
  BY <1>2, <1>4, <1>6, <1>7, NowIs DEF Edited
<1>. QED
  BY <1>1, <1>5, <1>8 DEF s, off, W, f

-----------------------------------------------------------------------------
(* Every action keeps the tasks and the views in order.                    *)

LEMMA SelectedShown ==
  ASSUME Around(Now', cur'), Now'.child[cur'] # None, Basic', TasksGood(Now', posts', running', late')
  PROVE  TasksInv'
BY DEF TasksInv, Now

LEMMA BasicUI ==
  ASSUME TasksInv, UNCHANGED <<doc, deletions, running, posts, late>>, Now' \in States,
         cur' \in Pages, mode' \in {"Viewing", "Edit", "Drawing"}, crashed' \in {None, "size", "list"},
         acts' \in Nat, drawn' \in 0..MaxStrokes, home' \in [Strokes -> Pages],
         wished' \in SUBSET Strokes, dropped' \in SUBSET Strokes, misled' \in SUBSET Strokes
  PROVE  Basic'
BY DEF TasksInv, Basic

LEMMA BasicBackground ==
  ASSUME TasksInv, Now' \in States,
         UNCHANGED <<cur, mode, crashed, acts, drawn, home, wished, dropped>>,
         doc' \in [Pages -> Seq(SUBSET Strokes)], deletions' \in [Pages -> Nat],
         posts' \in Seq(Results), running' \in Started \cup {None},
         running' # None /\ running'.step = "core" => running'.page \in Pages,
         misled' \in SUBSET Strokes, late' \in BOOLEAN
  PROVE  Basic'
BY DEF TasksInv, Basic

LEMMA EditedTasks ==
  ASSUME TasksInv, NEW v \in Views, NEW r, NEW e, NEW d, NEW h, Edited(Now, r, v, e, d, h)
  PROVE  TasksGood(r, posts, running, late) /\ Around(r, cur) /\ r.child[cur] # None
<1>1. TasksGood(Now, posts, running, late) /\ Distinct(Now.queue, posts, running)
  BY DEF TasksInv, TasksGood
<1>2. /\ Now \in States /\ posts \in Seq(Results) /\ running \in Started \cup {None}
      /\ late \in BOOLEAN
  BY TasksInvTypes DEF TasksInv, Basic
<1>3. /\ r \in States /\ r.child = Now.child /\ r.spare = Now.spare
      /\ r.queue = Now.queue /\ r.cancelled = Now.cancelled
  BY DEF Edited
<1>4. \A w \in Views : SameShow(r.views[w], Now.views[w]) /\ SameTasks(r.views[w], Now.views[w])
  BY DEF Edited, SameShow, SameTasks
<1>5. ReloadKnown(r, Live(r.queue, posts, running), posts, running)
  <2>1. ReloadKnown(Now, Live(Now.queue, posts, running), posts, running)
    BY <1>1 DEF TasksGood
  <2>2. running # None => running.view \in Views
    BY <1>2, StartedType
  <2>. QED
    BY <1>3, <1>4, <2>1, <2>2 DEF ReloadKnown, SameTasks
<1>6. \A i \in r.cancelled : \E t \in Live(r.queue, posts, running) : t.id = i
  BY <1>1, <1>3 DEF TasksGood, Remembered
<1>7. TasksGood(r, posts, running, late)
  <2>1. Fewer(Now, posts, running, r, posts, running)
    BY <1>1, <1>3, <1>4, <1>5, <1>6 DEF Fewer
  <2>. QED
    BY <1>1, <1>2, <1>3, <2>1, FewerTasksGood
<1>. QED
  BY <1>3, <1>7, NowIs DEF TasksInv, Around

LEMMA SameTasksInv ==
  ASSUME TasksInv, UNCHANGED <<posts, running, cur, late>>, Now' = Now, Basic'
  PROVE  TasksInv'
BY DEF TasksInv, Now

LEMMA EditedKeeps ==
  ASSUME TasksInv, Idly, NEW v \in Views, NEW e, NEW d, NEW h, Edited(Now, Now', v, e, d, h), Basic'
  PROVE  TasksInv'
<1>1. TasksGood(Now', posts, running, late) /\ Around(Now', cur) /\ Now'.child[cur] # None
  BY EditedTasks
<1>2. posts' = posts /\ running' = running /\ late' = late /\ cur' = cur
  BY DEF Idly
<1>3. TasksGood(Now', posts', running', late') /\ Around(Now', cur') /\ Now'.child[cur'] # None
  BY <1>1, <1>2
<1>. QED
  BY <1>3, SelectedShown

LEMMA BegunTasks ==
  ASSUME TasksInv, NEW r, NEW v \in Views, NEW k \in Kinds, NEW id, NEW t, NEW a, NEW e, NEW d, NEW h,
         Job(id, k, v, t) \in Jobs, v \in Displayed(Now),
         Begun(Now, r, v, k, id, t, a, e, d, h), Apart(r, posts, running, v, k, id)
  PROVE  /\ TasksGood(r, posts, running, late) /\ Around(r, cur) /\ r.child[cur] # None
<1>1. TasksGood(Now, posts, running, late)
  BY DEF TasksInv
<1>2. /\ Now \in States /\ posts \in Seq(Results) /\ running \in Started \cup {None}
      /\ late \in BOOLEAN /\ Live(Now.queue, posts, running) = Work
  BY TasksInvTypes DEF TasksInv, Basic
<1>3. /\ r \in States /\ r.child = Now.child /\ r.spare = Now.spare
      /\ Renewal(Now, r, Work, v, k, id, t) /\ SameShow(r.views[v], Now.views[v])
  BY DEF Begun
<1>4. TasksGood(r, posts, running, late)
  BY <1>1, <1>2, <1>3, RenewalTasksGood
<1>. QED
  BY <1>3, <1>4, NowIs DEF TasksInv, Around

LEMMA BegunKeeps ==
  ASSUME TasksInv, Idly, NEW v \in Views, NEW k \in {"ink", "del"}, NEW id, NEW t, NEW a, NEW e,
         NEW d, NEW h, Job(id, k, v, t) \in Jobs, v \in Displayed(Now),
         Begun(Now, Now', v, k, id, t, a, e, d, h), Basic'
  PROVE  TasksInv'
<1>0. k \in Kinds /\ Apart(Now', posts, running, v, k, id)
  BY DEF Kinds, Apart
<1>1. TasksGood(Now', posts, running, late) /\ Around(Now', cur) /\ Now'.child[cur] # None
  BY <1>0, BegunTasks
<1>2. posts' = posts /\ running' = running /\ late' = late /\ cur' = cur
  BY DEF Idly
<1>3. TasksGood(Now', posts', running', late') /\ Around(Now', cur') /\ Now'.child[cur'] # None
  BY <1>1, <1>2
<1>. QED
  BY <1>3, SelectedShown

LEMMA TasksTypes ==
  ASSUME TasksInv
  PROVE  /\ mode \in {"Viewing", "Edit", "Drawing"} /\ crashed \in {None, "size", "list"}
         /\ acts \in Nat /\ drawn \in 0..MaxStrokes /\ home \in [Strokes -> Pages] /\ cur \in Pages
         /\ wished \in SUBSET Strokes /\ dropped \in SUBSET Strokes /\ misled \in SUBSET Strokes
         /\ late \in BOOLEAN /\ doc \in [Pages -> Seq(SUBSET Strokes)]
         /\ deletions \in [Pages -> Nat]
BY DEF TasksInv, Basic

LEMMA TapTasks ==
  ASSUME TasksInv, Tap
  PROVE  TasksInv'
<1>1. /\ Idly /\ mode' = "Edit"
      /\ UNCHANGED <<crashed, acts, home, drawn, wished, dropped, misled>>
      /\ \E e : Edited(Now, Now', Selected, e, V.drawing, V.history)
  BY TapIs
<1>2. PICK e : Edited(Now, Now', Selected, e, V.drawing, V.history)
  BY <1>1
<1>3. Basic'
  BY <1>1, <1>2, TasksTypes, BasicUI DEF Edited, Idly
<1>. QED
  BY <1>1, <1>2, <1>3, EditedKeeps, SelectedIs

LEMMA DeselectTasks ==
  ASSUME TasksInv, Deselect
  PROVE  TasksInv'
<1>1. /\ Idly /\ mode' = "Viewing"
      /\ UNCHANGED <<crashed, acts, home, drawn, wished, dropped, misled>>
      /\ Edited(Now, Now', Selected, None, V.drawing, V.history)
  BY DeselectIs
<1>3. Basic'
  BY <1>1, TasksTypes, BasicUI DEF Edited, Idly
<1>. QED
  BY <1>1, <1>3, EditedKeeps, SelectedIs

LEMMA DrawTasks ==
  ASSUME TasksInv, Draw
  PROVE  TasksInv'
<1>1. /\ Idly /\ mode' = "Drawing" /\ Now' = Now
      /\ UNCHANGED <<crashed, acts, home, drawn, wished, dropped, misled>>
  BY DrawIs
<1>3. Basic'
  BY <1>1, TasksTypes, TasksInvTypes, BasicUI DEF Idly
<1>. QED
  BY <1>1, <1>3, SameTasksInv DEF Idly

LEMMA StrokeTasks ==
  ASSUME TasksInv, Stroke
  PROVE  TasksInv'
<1>. DEFINE d == Drawing \cup {drawn + 1}
            h == <<Drawing>> \o V.history
<1>1. /\ Idly /\ mode' = mode
      /\ drawn < MaxStrokes /\ drawn' = drawn + 1
      /\ home' = [home EXCEPT ![drawn + 1] = cur]
      /\ UNCHANGED <<crashed, acts, wished, dropped, misled>>
      /\ Edited(Now, Now', Selected, V.sel, d, h)
  BY StrokeIs
<1>. HIDE DEF d, h
<1>2. home' \in [Strokes -> Pages] /\ drawn' \in 0..MaxStrokes
  <2>1. drawn \in Nat /\ MaxStrokes \in Nat /\ drawn + 1 <= MaxStrokes
    BY <1>1, TasksTypes, PageViewsAssumption
  <2>2. drawn' \in 0..MaxStrokes
    BY <1>1, <2>1
  <2>3. home' \in [Strokes -> Pages]
    BY <1>1, TasksTypes
  <2>. QED
    BY <2>2, <2>3
<1>3. Basic'
  BY <1>1, <1>2, TasksTypes, BasicUI DEF Edited, Idly
<1>. QED
  BY <1>1, <1>3, EditedKeeps, SelectedIs

LEMMA EraseTasks ==
  ASSUME TasksInv, NEW S \in SUBSET Strokes, Erase(S)
  PROVE  TasksInv'
<1>. DEFINE d == IF V.drawing = None THEN None ELSE V.drawing \ S
            h == <<Drawing>> \o V.history
<1>1. /\ Idly /\ mode' = mode
      /\ UNCHANGED <<crashed, acts, home, drawn, wished, dropped, misled>>
      /\ Edited(Now, Now', Selected, V.sel, d, h)
  BY EraseIs
<1>. HIDE DEF d, h
<1>3. Basic'
  BY <1>1, TasksTypes, BasicUI DEF Edited, Idly
<1>. QED
  BY <1>1, <1>3, EditedKeeps, SelectedIs

LEMMA UndoTasks ==
  ASSUME TasksInv, UndoDraw
  PROVE  TasksInv'
<1>. DEFINE d == Head(V.history)
            h == Tail(V.history)
<1>1. /\ Idly /\ mode' = mode
      /\ UNCHANGED <<crashed, acts, home, drawn, dropped, misled>>
      /\ wished' = wished \cup (Drawing \ StrokesOf(V.history))
      /\ Edited(Now, Now', Selected, V.sel, d, h)
  BY UndoIs
<1>. HIDE DEF d, h
<1>2. wished' \in SUBSET Strokes
  BY <1>1, TasksTypes, DrawingIs
<1>3. Basic'
  BY <1>1, <1>2, TasksTypes, BasicUI DEF Edited, Idly
<1>. QED
  BY <1>1, <1>3, EditedKeeps, SelectedIs

LEMMA CancelDrawTasks ==
  ASSUME TasksInv, CancelDraw
  PROVE  TasksInv'
<1>1. /\ Idly /\ mode' = "Viewing"
      /\ UNCHANGED <<crashed, acts, home, drawn, dropped, misled>>
      /\ wished' = wished \cup Drawing \cup StrokesOf(V.history)
      /\ \E h : Edited(Now, Now', Selected, V.sel, None, h)
  BY CancelDrawIs
<1>2. wished' \in SUBSET Strokes
  BY <1>1, TasksTypes, DrawingIs
<1>3. PICK h : Edited(Now, Now', Selected, V.sel, None, h)
  BY <1>1
<1>4. Basic'
  BY <1>1, <1>2, <1>3, TasksTypes, BasicUI DEF Edited, Idly
<1>. QED
  BY <1>1, <1>3, <1>4, EditedKeeps, SelectedIs

LEMMA DeleteTasks ==
  ASSUME TasksInv, DeleteSelectedAnnotation
  PROVE  TasksInv'
<1>1. /\ Idly /\ mode' = "Viewing" /\ V.sel # None
      /\ UNCHANGED <<crashed, home, drawn, dropped, misled>>
      /\ acts > 0 /\ acts' = acts - 1
      /\ wished' = wished \cup V.sel.annot
      /\ \E id \in Nat : Begun(Now, Now', Selected, "del", id, V.sel,
                               V.annots, None, V.drawing, V.history)
  BY DeleteIs
<1>2. PICK id \in Nat : Begun(Now, Now', Selected, "del", id, V.sel,
                               V.annots, None, V.drawing, V.history)
  BY <1>1
<1>3. V.sel \in Selections /\ V.sel.annot \in SUBSET Strokes
  BY <1>1, SelectedIs, FieldsOf
<1>4. acts' \in Nat /\ wished' \in SUBSET Strokes
  BY <1>1, <1>3, TasksTypes
<1>5. Basic'
  BY <1>1, <1>2, <1>4, TasksTypes, BasicUI DEF Begun, Idly
<1>6. Job(id, "del", Selected, V.sel) \in Jobs
  BY <1>3, SelectedIs DEF Job, Jobs
<1>. QED
  BY <1>1, <1>2, <1>5, <1>6, BegunKeeps, SelectedIs

LEMMA EditTasks ==
  ASSUME TasksInv, EditSelectedAnnotation
  PROVE  TasksInv'
<1>1. /\ Idly /\ V.sel # None
      /\ UNCHANGED <<home, drawn, wished, dropped>>
      /\ acts > 0 /\ acts' = acts - 1
  BY EditIs
<1>2. V.sel \in Selections /\ V.sel.annot \in SUBSET Strokes /\ acts' \in Nat
  <2>1. V.sel \in Selections /\ V.sel.annot \in SUBSET Strokes
    BY <1>1, SelectedIs, FieldsOf
  <2>2. acts' \in Nat
    BY <1>1, TasksTypes
  <2>. QED
    BY <2>1, <2>2
<1>3. CASE crashed' = "list" /\ mode' = mode /\ misled' = misled /\ Now' = Now
  <2>1. Basic'
    BY <1>1, <1>2, <1>3, TasksTypes, TasksInvTypes, BasicUI DEF Idly
  <2>. QED
    BY <1>1, <1>3, <2>1, SameTasksInv DEF Idly
<1>. DEFINE x == V.annots.list[V.sel.at]
<1>4. CASE /\ mode' = "Drawing" /\ crashed' = crashed
           /\ misled' = misled
                \cup (IF V.annots.of = V.sel.of THEN {} ELSE V.sel.annot)
                \cup (IF V.annots.of = V.page THEN {} ELSE x)
           /\ x \in SUBSET Strokes
           /\ \E id \in Nat : Begun(Now, Now', Selected, "del", id, V.sel,
                                    V.annots, None, x, V.history)
  <2>. HIDE DEF x
  <2>1. PICK id \in Nat : Begun(Now, Now', Selected, "del", id, V.sel,
                                V.annots, None, x, V.history)
    BY <1>4
  <2>2. misled' \in SUBSET Strokes
    BY <1>2, <1>4, TasksTypes
  <2>3. Basic'
    BY <1>1, <1>2, <1>4, <2>1, <2>2, TasksTypes, BasicUI DEF Begun, Idly
  <2>4. Job(id, "del", Selected, V.sel) \in Jobs
    BY <1>2, SelectedIs DEF Job, Jobs
  <2>. QED
    BY <1>1, <2>1, <2>3, <2>4, BegunKeeps, SelectedIs
<1>. QED
  BY <1>3, <1>4, EditIs

LEMMA SaveDrawTasks ==
  ASSUME TasksInv, SaveDraw
  PROVE  TasksInv'
<1>1. /\ Idly /\ mode' = "Viewing"
      /\ UNCHANGED <<crashed, home, drawn, misled>>
      /\ acts > 0 /\ acts' = acts - 1
  BY SaveDrawIs
<1>2. acts' \in Nat
  BY <1>1, TasksTypes
<1>3. CASE Now' = Now /\ wished' = wished /\ dropped' = dropped
  <2>1. Basic'
    BY <1>1, <1>2, <1>3, TasksTypes, TasksInvTypes, BasicUI DEF Idly
  <2>. QED
    BY <1>1, <1>3, <2>1, SameTasksInv DEF Idly
<1>4. CASE /\ V.drawing # None /\ V.drawing \in SUBSET Strokes
           /\ wished' = wished \cup (StrokesOf(V.history) \ V.drawing)
           /\ dropped' = dropped \cup Unstarted(Now, Selected)
           /\ \E id \in Nat : \E h : /\ h = <<>>
                /\ Begun(Now, Now', Selected, "ink", id, V.drawing, V.annots, V.sel, None, h)
  <2>1. PICK id \in Nat, h \in {<<>>} :
          Begun(Now, Now', Selected, "ink", id, V.drawing, V.annots, V.sel, None, h)
    BY <1>4
  <2>2. wished' \in SUBSET Strokes
    BY <1>4, TasksTypes, DrawingIs
  <2>3. Unstarted(Now, Selected) \in SUBSET Strokes
    <3>1. \A i \in DOMAIN Now.queue : Now.queue[i].kind = "ink" => Now.queue[i].what \in SUBSET Strokes
      <4>1. \A i \in DOMAIN Now.queue : Now.queue[i] \in Jobs
        BY TasksInvTypes, NowIs
      <4>. QED
        BY <4>1, JobType
    <3>. QED
      BY <3>1 DEF Unstarted, Range
  <2>4. dropped' \in SUBSET Strokes
    BY <1>4, <2>3, TasksTypes
  <2>5. Basic'
    BY <1>1, <1>2, <2>1, <2>2, <2>4, TasksTypes, BasicUI DEF Begun, Idly
  <2>6. Job(id, "ink", Selected, V.drawing) \in Jobs
    BY <1>4, SelectedIs DEF Job, Jobs
  <2>. QED
    BY <1>1, <2>1, <2>5, <2>6, BegunKeeps, SelectedIs
<1>. QED
  BY <1>3, <1>4, SaveDrawIs

LEMMA UnstartedType ==
  ASSUME TasksInv, NEW v
  PROVE  Unstarted(Now, v) \in SUBSET Strokes
<1>1. \A i \in DOMAIN Now.queue : Now.queue[i].kind = "ink" => Now.queue[i].what \in SUBSET Strokes
  <2>1. \A i \in DOMAIN Now.queue : Now.queue[i] \in Jobs
    BY TasksInvTypes, NowIs
  <2>. QED
    BY <2>1, JobType
<1>. QED
  BY <1>1 DEF Unstarted, Range

LEMMA MoveToTasks ==
  ASSUME TasksInv, NEW p \in Pages, MoveTo(p)
  PROVE  TasksInv'
<1>. DEFINE off == [Now EXCEPT !.views = [views EXCEPT ![Selected] = [V EXCEPT !.sel = None]]]
            s == OnLayout(off, p)
            T == {x \in States : TasksGood(x, posts, running, late)}
<1>1. /\ UNCHANGED <<doc, deletions, running, posts, home, crashed, drawn, wished,
                     misled, late>>
      /\ cur' = p /\ mode' = "Viewing"
      /\ acts > 0 /\ acts' = acts - 1
      /\ Edited(Now, off, Selected, None, V.drawing, V.history)
      /\ Becomes(s)
      /\ dropped' = dropped \cup
           UNION {Unstarted(Now, child[q]) : q \in {r \in Pages :
                    child[r] # None /\ s.child[r] # child[r]}}
  BY MoveToIs
<1>. HIDE DEF off
<1>2. TasksGood(off, posts, running, late) /\ off \in States
  BY <1>1, EditedTasks, SelectedIs DEF Edited
<1>3. posts \in Seq(Results) /\ running \in Started \cup {None} /\ late \in BOOLEAN
  BY TasksInvTypes, TasksTypes
<1>4. s \in States /\ s \in T /\ Around(s, p) /\ s.child[p] # None
  <2>1. \A r \in States : Removal(off, r, Live(off.queue, posts, running), p) => r \in T
    BY <1>2, <1>3, RemovalTasksGood
  <2>2. \A x \in T, y \in States, v \in Views, q \in Pages, id \in Nat :
          Creation(x, y, Live(x.queue, posts, running), v, q, id) => y \in T
    BY <1>3, CreationTasksGood
  <2>3. \A x \in T : Placed(x) /\ Distinct(x.queue, posts, running)
    BY DEF TasksGood
  <2>4. Placed(off)
    BY <1>2 DEF TasksGood
  <2>. DEFINE r == OnLayout(off, p)
  <2>. HIDE DEF T
  <2>5. r \in States /\ r \in T /\ Around(r, p) /\ r.child[p] # None
    BY <1>2, <1>3, <2>1, <2>2, <2>3, <2>4, LayoutKeeps
  <2>. QED
    BY <2>5
<1>. HIDE DEF s
<1>5. Now' = s
  BY <1>1, <1>4, BecomesIs
<1>6. dropped' \in SUBSET Strokes
  BY <1>1, UnstartedType, TasksTypes
<1>7. acts' \in Nat
  BY <1>1, TasksTypes
<1>8. Basic'
  <2>. HIDE DEF T
  <2>. QED
    BY <1>1, <1>4, <1>5, <1>6, <1>7, TasksTypes, BasicUI
<1>9. TasksGood(Now', posts', running', late')
  BY <1>1, <1>4, <1>5
<1>. QED
  BY <1>1, <1>4, <1>5, <1>8, <1>9, SelectedShown

LEMMA DeliverTasks ==
  ASSUME TasksInv, Deliver
  PROVE  TasksInv'
<1>. DEFINE t == Head(posts)
            P == Tail(posts)
<1>1. /\ posts # <<>> /\ posts' = P /\ crashed = None
      /\ UNCHANGED <<doc, deletions, cur, mode, running, acts, drawn, home,
                     wished, dropped, misled, late>>
  BY DeliverIs
<1>2. /\ t \in Results /\ P \in Seq(Results) /\ Tag(t) \in Work /\ t.view \in Views
      /\ Tag(t).id = t.id /\ Tag(t).kind = t.kind /\ Tag(t).view = t.view
  BY <1>1, HeadOfPosts
<1>3. /\ Now \in States /\ posts \in Seq(Results) /\ running \in Started \cup {None}
      /\ late \in BOOLEAN /\ Live(Now.queue, posts, running) = Work /\ Work \in SUBSET Tags
      /\ (running # None => Tag(running) \in Work)
  BY TasksInvTypes, TasksTypes
<1>4. TasksGood(Now, posts, running, late) /\ Distinct(Now.queue, posts, running)
      /\ Remembered(Now, Work, late) /\ ReloadKnown(Now, Work, posts, running)
  BY <1>3 DEF TasksInv, TasksGood
<1>. DEFINE M == Live(Now.queue, P, running)
<1>5. /\ Work = M \cup {Tag(t)}
      /\ Distinct(Now.queue, P, running)
      /\ \A x \in M : x.id # t.id
  BY <1>1, <1>3, <1>4, PopPosts
<1>. HIDE DEF t
<1>6. \A i \in DOMAIN P : \E j \in DOMAIN posts : P[i] = posts[j]
  BY <1>1, <1>3, TailItems
<1>. HIDE DEF P, M
<1>7. ASSUME Now' \in States, crashed' \in {None, "size", "list"}
      PROVE  Basic'
  <2>1. posts' \in Seq(Results)
    BY <1>1, <1>2
  <2>2. running' # None /\ running'.step = "core" => running'.page \in Pages
    BY <1>1 DEF TasksInv, Basic
  <2>. QED
    BY <1>1, <1>3, <1>7, <2>1, <2>2, TasksTypes DEF Basic
<1>8. ReloadKnown(Now, M, P, running)
  BY <1>4, <1>5, <1>6 DEF ReloadKnown
<1>9. \A r : r.child = Now.child /\ TasksGood(r, P, running, late) /\ Now' = r /\ Basic' => TasksInv'
  <2>1. SUFFICES ASSUME NEW r, r.child = Now.child, TasksGood(r, P, running, late), Now' = r, Basic'
                 PROVE  TasksInv'
    OBVIOUS
  <2>2. TasksGood(Now', posts', running', late')
    BY <1>1, <2>1
  <2>3. Around(Now', cur') /\ Now'.child[cur'] # None
    BY <1>1, <2>1, NowIs DEF TasksInv, Around
  <2>. QED
    BY <2>1, <2>2, <2>3, SelectedShown
<1>10. CASE /\ t.id \in cancelled /\ crashed' = crashed
            /\ Now' \in States /\ views' = views /\ child' = child /\ spare' = spare
            /\ queue' = queue /\ cancelled' = cancelled \ {t.id}
  <2>. DEFINE r == Now'
  <2>1. /\ r \in States /\ r.views = Now.views /\ r.child = Now.child /\ r.spare = Now.spare
        /\ r.queue = Now.queue /\ r.cancelled = Now.cancelled \ {t.id}
    BY <1>10, NowIs DEF Now
  <2>. HIDE DEF r
  <2>2. \A w \in Views : SameShow(r.views[w], Now.views[w]) /\ SameTasks(r.views[w], Now.views[w])
    BY <2>1 DEF SameShow, SameTasks
  <2>3. \A x \in M : x.id \in Now.cancelled => x.id \in r.cancelled
    BY <1>5, <2>1
  <2>4. \A i \in r.cancelled : \E x \in M : x.id = i
    BY <1>2, <1>4, <1>5, <2>1 DEF Remembered
  <2>5. ReloadKnown(r, M, P, running)
    <3>1. SUFFICES ASSUME running # None, running.step = "reload", running.id \notin r.cancelled
                   PROVE  IF r.views[running.view].loader = running.page
                          THEN \A x \in M : x.id = running.page => running.page \in r.cancelled
                          ELSE \A i \in DOMAIN P : P[i].kind = "del" /\ P[i].view = running.view =>
                                 P[i].id \in r.cancelled
      BY DEF ReloadKnown
    <3>2. running.id \notin Now.cancelled
      <4>1. Tag(running) \in M /\ Tag(running).id = running.id
        BY <3>1, InLive DEF M
      <4>. QED
        BY <1>5, <2>1, <3>1, <4>1
    <3>3. IF Now.views[running.view].loader = running.page
          THEN \A x \in M : x.id = running.page => running.page \in Now.cancelled
          ELSE \A i \in DOMAIN P : P[i].kind = "del" /\ P[i].view = running.view =>
                                 P[i].id \in Now.cancelled
      BY <1>8, <3>1, <3>2 DEF ReloadKnown
    <3>4. \A i \in DOMAIN P : P[i].id # t.id
      <4>1. \A i \in DOMAIN P : Tag(P[i]) \in M /\ Tag(P[i]).id = P[i].id
        BY InLive DEF M
      <4>. QED
        BY <1>5, <4>1
    <3>. QED
      BY <1>5, <2>1, <3>3, <3>4
  <2>6. Distinct(r.queue, P, running) /\ Live(r.queue, P, running) = M
    BY <1>5, <2>1 DEF M
  <2>7. TasksGood(r, P, running, late)
    <3>1. /\ Live(r.queue, P, running) \subseteq Live(Now.queue, posts, running)
          /\ \A x \in Live(r.queue, P, running) : x.id \in Now.cancelled => x.id \in r.cancelled
          /\ \A i \in r.cancelled : \E x \in Live(r.queue, P, running) : x.id = i
          /\ ReloadKnown(r, Live(r.queue, P, running), P, running)
      BY <1>3, <1>5, <2>3, <2>4, <2>5, <2>6
    <3>2. /\ Now \in States /\ posts \in Seq(Results) /\ running \in Started \cup {None}
          /\ late \in BOOLEAN /\ TasksGood(Now, posts, running, late) /\ P \in Seq(Results)
      BY <1>2, <1>3, <1>4
    <3>3. Fewer(Now, posts, running, r, P, running)
      BY <2>1, <2>2, <2>6, <3>1 DEF Fewer
    <3>. QED
      BY <2>1, <3>2, <3>3, FewerTasksGood
  <2>8. Basic'
    BY <1>7, <1>10, TasksTypes
  <2>. QED
    BY <1>9, <2>1, <2>7, <2>8 DEF r
\* A view that is given a list or nothing: its tasks are as they were.
<1>11. ASSUME NEW r \in States, r.child = Now.child, r.spare = Now.spare, r.queue = Now.queue,
              r.cancelled = Now.cancelled, t.id \notin Now.cancelled,
              \A w \in Views : SameShow(r.views[w], Now.views[w]) /\ SameTasks(r.views[w], Now.views[w])
       PROVE  TasksGood(r, P, running, late)
  <2>3. \A i \in r.cancelled : \E x \in M : x.id = i
    BY <1>2, <1>4, <1>5, <1>11 DEF Remembered
  <2>4. ReloadKnown(r, M, P, running)
    <3>1. running # None => running.view \in Views
      BY <1>3, StartedType
    <3>. QED
      BY <1>8, <1>11, <3>1 DEF ReloadKnown, SameTasks
  <2>5. Distinct(r.queue, P, running) /\ Live(r.queue, P, running) = M
    BY <1>5, <1>11 DEF M
  <2>6. \A x \in M : x.id \in Now.cancelled => x.id \in r.cancelled
    BY <1>11
  <2>. QED
    <3>1. /\ Live(r.queue, P, running) \subseteq Live(Now.queue, posts, running)
          /\ \A x \in Live(r.queue, P, running) : x.id \in Now.cancelled => x.id \in r.cancelled
          /\ \A i \in r.cancelled : \E x \in Live(r.queue, P, running) : x.id = i
          /\ ReloadKnown(r, Live(r.queue, P, running), P, running)
      BY <1>3, <1>5, <2>3, <2>4, <2>5, <2>6
    <3>2. /\ Now \in States /\ posts \in Seq(Results) /\ running \in Started \cup {None}
          /\ late \in BOOLEAN /\ TasksGood(Now, posts, running, late) /\ P \in Seq(Results)
      BY <1>2, <1>3, <1>4
    <3>3. Fewer(Now, posts, running, r, P, running)
      BY <1>11, <2>5, <3>1 DEF Fewer
    <3>. QED
      BY <1>11, <3>2, <3>3, FewerTasksGood
<1>12. CASE /\ t.id \notin cancelled /\ t.kind = "loader" /\ t.what \in Lists
            /\ crashed' = IF views[t.view].sized THEN None ELSE "size"
            /\ Relisted(Now, Now', t.view, t.what) /\ cancelled' = cancelled
  <2>. DEFINE r == Now'
  <2>1. /\ r \in States /\ r.child = Now.child /\ r.spare = Now.spare
        /\ r.queue = Now.queue /\ r.cancelled = Now.cancelled
    BY <1>12, NowIs DEF Relisted, Now
  <2>2. \A w \in Views : SameShow(r.views[w], Now.views[w]) /\ SameTasks(r.views[w], Now.views[w])
    BY <1>12 DEF Relisted, SameShow, SameTasks
  <2>. HIDE DEF r
  <2>3. TasksGood(r, P, running, late)
    BY <1>11, <1>12, <2>1, <2>2, NowIs
  <2>4. Basic'
    BY <1>7, <1>12, <2>1 DEF r
  <2>. QED
    BY <1>9, <2>1, <2>3, <2>4 DEF r
<1>13. CASE /\ t.id \notin cancelled /\ t.kind = "del" /\ crashed' = crashed
            /\ \E id \in Nat :
                    Begun(Now, Now', t.view, "loader", id, None, None, views[t.view].sel,
                          views[t.view].drawing, views[t.view].history)
  <2>. DEFINE r == Now'
              v == t.view
  <2>1. PICK id \in Nat : Begun(Now, r, v, "loader", id, None, None, views[v].sel,
                          views[v].drawing, views[v].history)
    BY <1>13
  <2>. HIDE DEF r
  <2>2. v \in Displayed(Now) /\ Now.views[v].del = t.id /\ t.id # 0
    <3>1. t.id \notin Now.cancelled
      BY <1>13, NowIs
    <3>2. Now.views[v].del = t.id
      BY <1>2, <1>4, <1>13, <3>1 DEF Remembered
    <3>3. t.id # 0
      BY <1>2, <1>3, <1>4, NoTaskIsZero
    <3>. QED
      BY <1>2, <1>4, <3>2, <3>3 DEF TasksGood, Placed
  <2>3. TasksGood(Now, P, running, late)
    BY <1>3, <1>11, <1>13, NowIs DEF SameShow, SameTasks
  <2>4. /\ FreshIn(Now, Work, id) /\ Renewal(Now, r, Work, v, "loader", id, None)
        /\ r \in States /\ r.child = Now.child /\ r.spare = Now.spare
        /\ SameShow(r.views[v], Now.views[v])
    BY <2>1 DEF Begun
  <2>5. Renewal(Now, r, M, v, "loader", id, None)
    <3>1. Now.views[v].loader # t.id
      BY <1>2, <1>4, <1>13 DEF Remembered
    <3>2. \A i : i # t.id => (i \in IdsOf(M) <=> i \in IdsOf(Work))
      BY <1>2, <1>5 DEF IdsOf
    <3>3. TaskOf(Now.views[v], "loader") = Now.views[v].loader
      BY DEF TaskOf
    <3>4. FreshFor(Now, M, v, "loader", id)
      BY <1>5, <2>4 DEF Renewal, FreshFor
    <3>. QED
      BY <2>4, <3>1, <3>2, <3>3, <3>4 DEF Renewal
  <2>6. Apart(r, P, running, v, "loader", id)
    <3>1. SUFFICES ASSUME running # None, running.step = "reload", running.id \notin r.cancelled,
                          v = running.view
                   PROVE  /\ id # running.page
                          /\ \A i \in DOMAIN P : P[i].kind = "del" /\ P[i].view = v =>
                               P[i].id \in r.cancelled
      BY DEF Apart
    <3>2. Now.cancelled \subseteq r.cancelled
      BY <2>4 DEF Renewal
    <3>3. id # running.page
      <4>1. CASE Now.views[v].loader = running.page
        BY <1>2, <2>4, <4>1 DEF FreshIn
      <4>2. CASE Now.views[v].loader # running.page
        <5>1. \A i \in DOMAIN posts : posts[i].kind = "del" /\ posts[i].view = v =>
                posts[i].id \in Now.cancelled
          BY <1>4, <3>1, <3>2, <4>2 DEF ReloadKnown
        <5>2. t = posts[1] /\ 1 \in DOMAIN posts
          BY <1>1, <1>3, TailItems DEF t
        <5>. QED
          BY <1>13, <5>1, <5>2, NowIs
      <4>. QED
        BY <4>1, <4>2
    <3>4. ASSUME NEW i \in DOMAIN P, P[i].kind = "del", P[i].view = v
          PROVE  P[i].id \in Now.cancelled
      <4>1. /\ Tag(P[i]) \in M /\ Tag(P[i]).id = P[i].id /\ Tag(P[i]).kind = P[i].kind
            /\ Tag(P[i]).view = P[i].view
        BY InLive DEF M
      <4>2. P[i].id # t.id /\ Tag(P[i]) \in Work
        BY <1>5, <4>1
      <4>. QED
        BY <1>4, <2>2, <3>4, <4>1, <4>2 DEF Remembered
    <3>. QED
      BY <3>2, <3>3, <3>4
  <2>7. Job(id, "loader", v, None) \in Jobs /\ "loader" \in Kinds
    BY <1>2 DEF Job, Jobs, Kinds
  <2>8. TasksGood(r, P, running, late)
    <3>. HIDE DEF v
    <3>1. v \in Views
      BY <2>2 DEF Displayed
    <3>. QED
      BY <1>2, <1>3, <2>2, <2>3, <2>4, <2>5, <2>6, <2>7, <3>1, RenewalTasksGood DEF M
  <2>9. Basic'
    BY <1>7, <1>13, <2>4, TasksTypes DEF r
  <2>. QED
    BY <1>9, <2>4, <2>8, <2>9 DEF r
<1>. QED
  BY <1>10, <1>12, <1>13, DeliverIs DEF t

\* A step of the background thread that leaves the views where they are.
LEMMA FewerKeeps ==
  ASSUME TasksInv, Fewer(Now, posts, running, Now', posts', running'), Basic',
         late => late', cur' = cur
  PROVE  TasksInv'
<1>1. /\ Now \in States /\ posts \in Seq(Results) /\ running \in Started \cup {None}
      /\ late \in BOOLEAN /\ TasksGood(Now, posts, running, late)
  BY TasksInvTypes, TasksTypes DEF TasksInv
<1>2. /\ Now' \in States /\ posts' \in Seq(Results) /\ running' \in Started \cup {None}
      /\ late' \in BOOLEAN
  BY DEF Basic
<1>3. TasksGood(Now', posts', running', late')
  BY <1>1, <1>2, FewerTasksGood
<1>4. Around(Now', cur') /\ Now'.child[cur'] # None
  <2>1. Now'.child = Now.child
    BY DEF Fewer
  <2>2. Around(Now, cur) /\ Now.child[cur] # None
    BY NowIs DEF TasksInv
  <2>3. Around(Now', cur) /\ Now'.child[cur] # None
    BY <2>1, <2>2 DEF Around
  <2>. QED
    BY <2>3
<1>. QED
  BY <1>3, <1>4, SelectedShown

LEMMA StartIs ==
  ASSUME TasksInv, Start
  PROVE  LET t == Head(queue)
         IN  /\ running = None /\ queue # <<>> /\ t \in Jobs /\ t.view \in Views
             /\ Now' \in States /\ queue' = Tail(queue) /\ queue' \in Seq(Jobs)
             /\ UNCHANGED <<views, doc, deletions, posts, misled, late>> /\ NotUI
             /\ \/ /\ t.id \in cancelled /\ cancelled' = cancelled \ {t.id}
                   /\ running' = None
                \/ /\ t.id \notin cancelled /\ cancelled' = cancelled
                   /\ running' \in Started /\ Tag(running') = Tag(t)
                   /\ running'.step = "read" /\ running'.what = t.what
                   /\ running'.kind = t.kind /\ running'.view = t.view
                   /\ running'.from = views[t.view].page
<1>. DEFINE t == Head(queue)
            n == [id |-> t.id, kind |-> t.kind, view |-> t.view,
                  what |-> t.what, step |-> "read", page |-> 0,
                  from |-> views[t.view].page]
<1>1. /\ running = None /\ queue # <<>> /\ queue' = Tail(queue)
      /\ UNCHANGED <<views, doc, deletions, posts, misled, late>> /\ NotUI
      /\ \/ t.id \in cancelled /\ cancelled' = cancelled \ {t.id} /\ running' = running
         \/ t.id \notin cancelled /\ cancelled' = cancelled /\ running' = n
  BY DEF Start
<1>2. /\ Tail(queue) \in Seq(Jobs) /\ t \in Jobs
      /\ views \in [Views -> Fields] /\ cancelled \in SUBSET Nat /\ Now \in States
  BY <1>1, TasksInvTypes, TailItems
<1>. HIDE DEF t
<1>3. t.view \in Views /\ views[t.view].page \in Pages
  BY <1>2, JobType, FieldsOf
<1>4. n \in Started
  <2>1. CASE t.kind = "loader"
    BY <1>2, <1>3, <2>1, JobType DEF Started
  <2>2. CASE t.kind = "ink"
    BY <1>2, <1>3, <2>2, JobType DEF Started
  <2>3. CASE t.kind = "del"
    BY <1>2, <1>3, <2>3, JobType DEF Started
  <2>. QED
    BY <1>2, <2>1, <2>2, <2>3, JobType DEF Kinds
<1>5. /\ Tag(n) = Tag(t) /\ n.step = "read" /\ n.what = t.what /\ n.kind = t.kind
      /\ n.view = t.view /\ n.from = views[t.view].page
  BY DEF Tag
<1>. HIDE DEF n
<1>6. cancelled' \in SUBSET Nat
  BY <1>1, <1>2
<1>7. Now' \in States
  <2>1. views' \in [Views -> Fields] /\ child' \in [Pages -> Views \cup {None}] /\ spare' \in Seq(Views)
    BY <1>1, <1>2, NowIs DEF NotUI, States
  <2>. QED
    BY <1>1, <1>2, <1>6, <2>1 DEF States, Now
<1>. QED
  BY <1>1, <1>2, <1>3, <1>4, <1>5, <1>6, <1>7 DEF t

LEMMA StartTasks ==
  ASSUME TasksInv, Start
  PROVE  TasksInv'
<1>. DEFINE t == Head(queue)
<1>1. /\ running = None /\ queue # <<>> /\ t \in Jobs
      /\ Now' \in States /\ queue' = Tail(queue) /\ queue' \in Seq(Jobs)
      /\ UNCHANGED <<views, doc, deletions, posts, misled, late>> /\ NotUI
      /\ \/ t.id \in cancelled /\ cancelled' = cancelled \ {t.id} /\ running' = None
         \/ /\ t.id \notin cancelled /\ cancelled' = cancelled
            /\ running' \in Started /\ Tag(running') = Tag(t) /\ running'.step = "read"
  BY StartIs
<1>2. /\ Now \in States /\ posts \in Seq(Results) /\ queue \in Seq(Jobs)
      /\ Distinct(queue, posts, None) /\ Live(queue, posts, None) = Work
      /\ Remembered(Now, Work, late)
  BY <1>1, TasksInvTypes, NowIs DEF TasksInv, TasksGood
<1>3. Basic'
  <2>1. running' \in Started \cup {None} /\ (running' # None => running'.step # "core")
    BY <1>1
  <2>2. /\ UNCHANGED <<cur, mode, crashed, acts, drawn, home, wished, dropped>>
        /\ UNCHANGED <<doc, deletions, posts, misled, late>>
    BY <1>1 DEF NotUI
  <2>3. /\ doc' \in [Pages -> Seq(SUBSET Strokes)] /\ deletions' \in [Pages -> Nat]
        /\ posts' \in Seq(Results) /\ misled' \in SUBSET Strokes /\ late' \in BOOLEAN
    BY <1>2, <2>2, TasksTypes
  <2>. QED
    BY <1>1, <2>1, <2>2, <2>3, BasicBackground
<1>4. /\ Now'.child = Now.child /\ Now'.spare = Now.spare /\ Now'.views = Now.views
      /\ Now'.queue = Tail(queue) /\ Now'.cancelled = cancelled' /\ Now.cancelled = cancelled
      /\ Now.queue = queue
  BY <1>1, NowIs DEF NotUI, Now
<1>. HIDE DEF t
<1>5. Fewer(Now, posts, running, Now', posts', running')
  <2>1. CASE t.id \in cancelled /\ cancelled' = cancelled \ {t.id} /\ running' = None
    <3>. DEFINE M == Live(Tail(queue), posts, None)
    <3>1. /\ Work = M \cup {Tag(t)} /\ Distinct(Tail(queue), posts, None)
          /\ (\A x \in M : x.id # t.id) /\ Tag(t).id = t.id
      BY <1>1, <1>2, PopQueue DEF t, Tag
    <3>. HIDE DEF M
    <3>2. \A x \in M : x.id \in cancelled => x.id \in cancelled'
      BY <2>1, <3>1
    <3>3. \A i \in cancelled' : \E x \in M : x.id = i
      BY <1>2, <1>4, <2>1, <3>1 DEF Remembered
    <3>4. /\ Live(Now'.queue, posts', running') = M /\ Live(Now.queue, posts, running) = Work
          /\ Distinct(Now'.queue, posts', running')
      BY <1>1, <1>2, <1>4, <2>1, <3>1 DEF M
    <3>5. ReloadKnown(Now', M, posts', running')
      BY <2>1 DEF ReloadKnown
    <3>. QED
      BY <1>4, <3>1, <3>2, <3>3, <3>4, <3>5 DEF Fewer, SameShow, SameTasks
  <2>2. CASE /\ t.id \notin cancelled /\ cancelled' = cancelled
             /\ running' \in Started /\ Tag(running') = Tag(t) /\ running'.step = "read"
    <3>1. Live(Tail(queue), posts, running') = Work /\ Distinct(Tail(queue), posts, running')
      BY <1>1, <1>2, <2>2, BeginTask DEF t
    <3>4. /\ Live(Now'.queue, posts', running') = Work /\ Live(Now.queue, posts, running) = Work
          /\ Distinct(Now'.queue, posts', running')
      BY <1>1, <1>2, <1>4, <3>1
    <3>5. ReloadKnown(Now', Work, posts', running')
      BY <2>2 DEF ReloadKnown
    <3>6. \A i \in cancelled' : \E x \in Work : x.id = i
      BY <1>2, <1>4, <2>2 DEF Remembered
    <3>. QED
      BY <1>4, <2>2, <3>4, <3>5, <3>6 DEF Fewer, SameShow, SameTasks
  <2>. QED
    BY <1>1, <2>1, <2>2
<1>. QED
  BY <1>1, <1>3, <1>5, FewerKeeps DEF NotUI

\* A step of a task that has begun, and leaves the views alone.
TaskStep ==
  /\ NotUI /\ UNCHANGED <<views, queue, cancelled, late>>

LEMMA StepFewer ==
  ASSUME TasksInv, running # None, UNCHANGED <<views, child, spare, queue, cancelled, posts>>,
         running' \in Started, Tag(running') = Tag(running), running'.step # "reload"
  PROVE  Fewer(Now, posts, running, Now', posts', running')
<1>1. /\ Now \in States /\ running \in Started /\ Distinct(queue, posts, running)
      /\ Live(queue, posts, running) = Work /\ Remembered(Now, Work, late)
  BY TasksInvTypes, NowIs DEF TasksInv, TasksGood
<1>2. Live(queue, posts, running') = Work /\ Distinct(queue, posts, running')
  BY <1>1, StepTask
<1>3. Now' = Now /\ posts' = posts /\ Now.queue = queue /\ Now.cancelled = cancelled
  BY DEF Now
<1>4. ReloadKnown(Now, Work, posts, running')
  BY DEF ReloadKnown
<1>5. \A i \in Now.cancelled : \E x \in Work : x.id = i
  BY <1>1 DEF Remembered
<1>. QED
  BY <1>1, <1>2, <1>3, <1>4, <1>5 DEF Fewer, SameShow, SameTasks

LEMMA EndFewer ==
  ASSUME TasksInv, running # None, UNCHANGED <<views, child, spare, queue, cancelled>>,
         running' = None, NEW x \in Results, Tag(x) = Tag(running), posts' = Append(posts, x)
  PROVE  Fewer(Now, posts, running, Now', posts', running')
<1>1. /\ Now \in States /\ running \in Started /\ Distinct(queue, posts, running)
      /\ posts \in Seq(Results)
      /\ Live(queue, posts, running) = Work /\ Remembered(Now, Work, late)
  BY TasksInvTypes, NowIs DEF TasksInv, TasksGood
<1>2. Live(queue, posts', None) = Work /\ Distinct(queue, posts', None)
  BY <1>1, EndTask
<1>3. Now' = Now /\ Now.queue = queue /\ Now.cancelled = cancelled
  BY DEF Now
<1>4. ReloadKnown(Now, Work, posts', None)
  BY DEF ReloadKnown
<1>5. \A i \in Now.cancelled : \E t \in Work : t.id = i
  BY <1>1 DEF Remembered
<1>. QED
  BY <1>1, <1>2, <1>3, <1>4, <1>5 DEF Fewer, SameShow, SameTasks

LEMMA RunningIs ==
  ASSUME TasksInv, running # None
  PROVE  /\ running \in Started /\ running.view \in Views /\ running.from \in Pages
         /\ running.id \in Nat /\ running.page \in Nat
         /\ (running.step = "core" => running.page \in Pages)
         /\ views[running.view] \in Fields /\ views[running.view].page \in Pages
         /\ running.kind = "loader" => running.what = None /\ running.step = "read"
         /\ running.kind = "ink" => /\ running.what \in SUBSET Strokes
                                    /\ running.step \in {"read", "core", "clear", "reload"}
         /\ running.kind = "del" => running.what \in Selections /\ running.step \in {"read", "core"}
         /\ running.kind \in Kinds
<1>1. running \in Started /\ views \in [Views -> Fields]
  BY TasksInvTypes
<1>2. running.view \in Views
  BY <1>1, StartedType
<1>3. views[running.view] \in Fields
  BY <1>1, <1>2
<1>4. views[running.view].page \in Pages
  BY <1>3, FieldsOf
<1>5. running.step = "core" => running.page \in Pages
  BY DEF TasksInv, Basic
<1>. QED
  BY <1>1, <1>2, <1>3, <1>4, <1>5, StartedType

\* The step of a task: what it is and for which view stays.
Stepped(R, S, step, page) ==
  /\ S \in Started /\ Tag(S) = Tag(R) /\ S.step = step /\ S.page = page
  /\ S.kind = R.kind /\ S.view = R.view /\ S.what = R.what /\ S.from = R.from /\ S.id = R.id

LEMMA SteppedIs ==
  ASSUME NEW R \in Started, R.kind # "loader", NEW step, NEW page \in Nat,
         step \in (IF R.kind = "ink" THEN {"read", "core", "clear", "reload"} ELSE {"read", "core"})
  PROVE  Stepped(R, [R EXCEPT !.step = step, !.page = page], step, page)
<1>1. CASE R.kind = "ink"
  <2>1. R \in [id : Nat, kind : {"ink"}, view : Views, what : SUBSET Strokes,
               step : {"read", "core", "clear", "reload"}, page : Nat, from : Pages]
    BY <1>1 DEF Started
  <2>2. [R EXCEPT !.step = step, !.page = page] \in
              [id : Nat, kind : {"ink"}, view : Views, what : SUBSET Strokes,
               step : {"read", "core", "clear", "reload"}, page : Nat, from : Pages]
    BY <1>1, <2>1
  <2>. QED
    BY <2>1, <2>2 DEF Stepped, Tag, Started
<1>2. CASE R.kind = "del"
  <2>1. R \in [id : Nat, kind : {"del"}, view : Views, what : Selections,
        step : {"read", "core"}, page : Nat, from : Pages]
    BY <1>2 DEF Started
  <2>2. [R EXCEPT !.step = step, !.page = page] \in
            [id : Nat, kind : {"del"}, view : Views, what : Selections,
        step : {"read", "core"}, page : Nat, from : Pages]
    BY <1>2, <2>1
  <2>. QED
    BY <2>1, <2>2 DEF Stepped, Tag, Started
<1>. QED
  BY <1>1, <1>2, StartedType DEF Kinds

LEMMA ReadPageIs ==
  ASSUME TasksInv, ReadPage
  PROVE  /\ running # None /\ running.step = "read" /\ running.kind # "loader"
         /\ TaskStep /\ UNCHANGED <<doc, deletions, posts, misled>>
         /\ Stepped(running, running', "core", views[running.view].page)
<1>1. /\ running # None /\ running.step = "read" /\ running.kind # "loader"
      /\ TaskStep /\ UNCHANGED <<doc, deletions, posts, misled>>
      /\ running' = [running EXCEPT !.step = "core", !.page = views[running.view].page]
  BY DEF ReadPage, TaskStep
<1>2. views[running.view].page \in Nat
  BY <1>1, RunningIs, PageViewsAssumption DEF Pages
<1>. QED
  BY <1>1, <1>2, RunningIs, SteppedIs

LEMMA ReadPageTasks ==
  ASSUME TasksInv, ReadPage
  PROVE  TasksInv'
<1>1. /\ running # None /\ running.step = "read" /\ running.kind # "loader"
      /\ TaskStep /\ UNCHANGED <<doc, deletions, posts, misled>>
      /\ Stepped(running, running', "core", views[running.view].page)
  BY ReadPageIs
<1>2. /\ running' \in Started /\ Tag(running') = Tag(running) /\ running'.step = "core"
      /\ running'.page \in Pages
  BY <1>1, RunningIs DEF Stepped
<1>3. UNCHANGED <<views, child, spare, queue, cancelled, posts>>
  BY <1>1 DEF TaskStep, NotUI
<1>4. Fewer(Now, posts, running, Now', posts', running')
  BY <1>1, <1>2, <1>3, StepFewer
<1>5. Basic'
  <2>1. Now' = Now /\ Now \in States
    BY <1>3, TasksInvTypes DEF Now
  <2>. QED
    BY <1>1, <1>2, <2>1, TasksTypes, TasksInvTypes, BasicBackground DEF TaskStep, NotUI
<1>. QED
  BY <1>1, <1>4, <1>5, FewerKeeps DEF TaskStep, NotUI

LEMMA GetAnnotationsIs ==
  ASSUME TasksInv, GetAnnotations
  PROVE  LET p == views[running.view].page
             a == [of |-> p, list |-> doc[p], deletions |-> deletions[p]]
             x == [id |-> running.id, kind |-> "loader", view |-> running.view, what |-> a]
         IN  /\ running # None /\ running.kind = "loader" /\ running' = None
             /\ TaskStep /\ UNCHANGED <<doc, deletions, misled>>
             /\ p \in Pages /\ a \in Lists /\ x \in Results /\ Tag(x) = Tag(running)
             /\ posts' = Append(posts, x)
<1>. DEFINE p == views[running.view].page
            a == [of |-> p, list |-> doc[p], deletions |-> deletions[p]]
            x == [id |-> running.id, kind |-> "loader", view |-> running.view, what |-> a]
<1>1. /\ running # None /\ running.kind = "loader" /\ running' = None
      /\ TaskStep /\ UNCHANGED <<doc, deletions, misled>>
      /\ posts' = Append(posts, x)
  BY DEF GetAnnotations, Finish, TaskStep
<1>2. p \in Pages /\ running.id \in Nat /\ running.view \in Views
  BY <1>1, RunningIs
<1>3. a \in Lists
  BY <1>2, TasksTypes DEF Lists
<1>4. x \in Results /\ Tag(x) = Tag(running)
  BY <1>1, <1>2, <1>3 DEF Results, Tag
<1>. QED
  BY <1>1, <1>2, <1>3, <1>4

LEMMA GetAnnotationsTasks ==
  ASSUME TasksInv, GetAnnotations
  PROVE  TasksInv'
<1>1. PICK x \in Results : Tag(x) = Tag(running) /\ posts' = Append(posts, x)
  BY GetAnnotationsIs
<1>2. /\ running # None /\ running' = None
      /\ TaskStep /\ UNCHANGED <<doc, deletions, misled>>
  BY GetAnnotationsIs
<1>3. UNCHANGED <<views, child, spare, queue, cancelled>>
  BY <1>2 DEF TaskStep, NotUI
<1>4. Fewer(Now, posts, running, Now', posts', running')
  BY <1>1, <1>2, <1>3, EndFewer
<1>5. Basic'
  <2>1. Now' = Now /\ Now \in States
    BY <1>3, TasksInvTypes DEF Now
  <2>2. posts' \in Seq(Results)
    BY <1>1, TasksInvTypes, AppendItems
  <2>. QED
    BY <1>2, <2>1, <2>2, TasksTypes, TasksInvTypes, BasicBackground DEF TaskStep, NotUI
<1>. QED
  BY <1>2, <1>4, <1>5, FewerKeeps DEF TaskStep, NotUI

LEMMA DeleteAnnotationIs ==
  ASSUME TasksInv, DeleteAnnotation
  PROVE  LET p == running.page
             i == running.what.at
             x == [id |-> running.id, kind |-> "del", view |-> running.view, what |-> None]
         IN  /\ running # None /\ running.kind = "del" /\ running.step = "core"
             /\ running' = None /\ TaskStep
             /\ p \in Pages /\ running.what \in Selections
             /\ x \in Results /\ Tag(x) = Tag(running) /\ posts' = Append(posts, x)
             /\ \/ i \notin DOMAIN doc[p] /\ UNCHANGED <<doc, deletions, misled>>
                \/ /\ i \in DOMAIN doc[p]
                   /\ doc' = [doc EXCEPT ![p] = RemoveAt(doc[p], i)]
                   /\ deletions' = [deletions EXCEPT ![p] = deletions[p] + 1]
                   /\ misled' = IF running.what.since = deletions[p] /\ running.what.of = p
                                THEN misled ELSE misled \cup doc[p][i]
             /\ doc' \in [Pages -> Seq(SUBSET Strokes)] /\ deletions' \in [Pages -> Nat]
             /\ misled' \in SUBSET Strokes
<1>. DEFINE p == running.page
            i == running.what.at
            x == [id |-> running.id, kind |-> "del", view |-> running.view, what |-> None]
<1>1. /\ running # None /\ running.kind = "del" /\ running.step = "core"
      /\ running' = None /\ TaskStep
      /\ posts' = Append(posts, x)
      /\ \/ i \notin DOMAIN doc[p] /\ UNCHANGED <<doc, deletions, misled>>
         \/ /\ i \in DOMAIN doc[p]
            /\ doc' = [doc EXCEPT ![p] = RemoveAt(doc[p], i)]
            /\ deletions' = [deletions EXCEPT ![p] = deletions[p] + 1]
            /\ misled' = IF running.what.since = deletions[p] /\ running.what.of = p
                         THEN misled ELSE misled \cup doc[p][i]
  BY DEF DeleteAnnotation, Finish, TaskStep
<1>2. p \in Pages /\ running.what \in Selections /\ running.id \in Nat /\ running.view \in Views
  BY <1>1, RunningIs
<1>3. x \in Results /\ Tag(x) = Tag(running)
  BY <1>1, <1>2 DEF Results, Tag
<1>4. /\ doc' \in [Pages -> Seq(SUBSET Strokes)] /\ deletions' \in [Pages -> Nat]
      /\ misled' \in SUBSET Strokes
  <2>1. CASE i \notin DOMAIN doc[p] /\ UNCHANGED <<doc, deletions, misled>>
    BY <2>1, TasksTypes
  <2>2. CASE /\ i \in DOMAIN doc[p]
             /\ doc' = [doc EXCEPT ![p] = RemoveAt(doc[p], i)]
             /\ deletions' = [deletions EXCEPT ![p] = deletions[p] + 1]
             /\ misled' = IF running.what.since = deletions[p] /\ running.what.of = p
                          THEN misled ELSE misled \cup doc[p][i]
    <3>1. doc[p] \in Seq(SUBSET Strokes) /\ deletions[p] + 1 \in Nat
      BY <1>2, TasksTypes
    <3>2. doc[p][i] \in SUBSET Strokes
      BY <2>2, <3>1
    <3>3. RemoveAt(doc[p], i) \in Seq(SUBSET Strokes)
      BY <2>2, <3>1, RemoveAtItems
    <3>. HIDE DEF i, p
    <3>. QED
      BY <1>2, <2>2, <3>1, <3>2, <3>3, TasksTypes
  <2>. QED
    BY <1>1, <2>1, <2>2
<1>. QED
  BY <1>1, <1>2, <1>3, <1>4

LEMMA DeleteAnnotationTasks ==
  ASSUME TasksInv, DeleteAnnotation
  PROVE  TasksInv'
<1>1. PICK x \in Results : Tag(x) = Tag(running) /\ posts' = Append(posts, x)
  BY DeleteAnnotationIs
<1>2. /\ running # None /\ running' = None /\ TaskStep
      /\ doc' \in [Pages -> Seq(SUBSET Strokes)] /\ deletions' \in [Pages -> Nat]
      /\ misled' \in SUBSET Strokes
  BY DeleteAnnotationIs
<1>3. UNCHANGED <<views, child, spare, queue, cancelled>>
  BY <1>2 DEF TaskStep, NotUI
<1>4. Fewer(Now, posts, running, Now', posts', running')
  BY <1>1, <1>2, <1>3, EndFewer
<1>5. Basic'
  <2>1. Now' = Now /\ Now \in States
    BY <1>3, TasksInvTypes DEF Now
  <2>2. posts' \in Seq(Results)
    BY <1>1, TasksInvTypes, AppendItems
  <2>. QED
    BY <1>2, <2>1, <2>2, TasksTypes, TasksInvTypes, BasicBackground DEF TaskStep, NotUI
<1>. QED
  BY <1>2, <1>4, <1>5, FewerKeeps DEF TaskStep, NotUI

LEMMA AddInkIs ==
  ASSUME TasksInv, AddInkAnnotation
  PROVE  /\ running # None /\ running.kind = "ink" /\ running.step = "core"
         /\ TaskStep /\ UNCHANGED <<deletions, posts>>
         /\ running.page \in Pages /\ running.what \in SUBSET Strokes
         /\ doc' = [doc EXCEPT ![running.page] = Append(doc[running.page], running.what)]
         /\ misled' = IF running.page # running.from THEN misled \cup running.what
                      ELSE misled
         /\ Stepped(running, running', "clear", running.page)
         /\ doc' \in [Pages -> Seq(SUBSET Strokes)] /\ misled' \in SUBSET Strokes
<1>1. /\ running # None /\ running.kind = "ink" /\ running.step = "core"
      /\ TaskStep /\ UNCHANGED <<deletions, posts>>
      /\ doc' = [doc EXCEPT ![running.page] = Append(doc[running.page], running.what)]
      /\ misled' = IF running.page # running.from THEN misled \cup running.what
                   ELSE misled
      /\ running' = [running EXCEPT !.step = "clear"]
  BY DEF AddInkAnnotation, To, TaskStep
<1>2. /\ running \in Started /\ running.page \in Pages /\ running.page \in Nat
      /\ running.what \in SUBSET Strokes
  BY <1>1, RunningIs
<1>3. Stepped(running, [running EXCEPT !.step = "clear", !.page = running.page], "clear", running.page)
  BY <1>1, <1>2, SteppedIs
<1>4. [running EXCEPT !.step = "clear", !.page = running.page] = [running EXCEPT !.step = "clear"]
  BY <1>2 DEF Started
<1>5. doc' \in [Pages -> Seq(SUBSET Strokes)] /\ misled' \in SUBSET Strokes
  <2>1. doc[running.page] \in Seq(SUBSET Strokes)
    BY <1>2, TasksTypes
  <2>2. Append(doc[running.page], running.what) \in Seq(SUBSET Strokes)
    BY <1>2, <2>1, AppendItems
  <2>. QED
    BY <1>1, <1>2, <2>2, TasksTypes
<1>. QED
  BY <1>1, <1>2, <1>3, <1>4, <1>5

LEMMA AddInkTasks ==
  ASSUME TasksInv, AddInkAnnotation
  PROVE  TasksInv'
<1>1. /\ running # None /\ TaskStep /\ UNCHANGED <<deletions, posts>>
      /\ Stepped(running, running', "clear", running.page)
      /\ doc' \in [Pages -> Seq(SUBSET Strokes)] /\ misled' \in SUBSET Strokes
  BY AddInkIs
<1>2. /\ running' \in Started /\ Tag(running') = Tag(running) /\ running'.step = "clear"
  BY <1>1 DEF Stepped
<1>3. UNCHANGED <<views, child, spare, queue, cancelled, posts>>
  BY <1>1 DEF TaskStep, NotUI
<1>4. Fewer(Now, posts, running, Now', posts', running')
  BY <1>1, <1>2, <1>3, StepFewer
<1>5. Basic'
  <2>1. Now' = Now /\ Now \in States
    BY <1>3, TasksInvTypes DEF Now
  <2>. QED
    BY <1>1, <1>2, <2>1, TasksTypes, TasksInvTypes, BasicBackground DEF TaskStep, NotUI
<1>. QED
  BY <1>1, <1>4, <1>5, FewerKeeps DEF TaskStep, NotUI

LEMMA ClearIs ==
  ASSUME TasksInv, ClearAnnotations
  PROVE  LET v == running.view
             i == views[running.view].loader
         IN  /\ running # None /\ running.kind = "ink" /\ running.step = "clear"
             /\ v \in Views /\ i \in Nat
             /\ NotUI /\ UNCHANGED <<queue, doc, deletions, posts, misled, late>>
             /\ Relisted(Now, Now', v, None)
             /\ cancelled' = cancelled \cup ({i} \cap IdsOf(Work))
             /\ Stepped(running, running', "reload", i)
<1>. DEFINE v == running.view
            i == views[running.view].loader
            c == Cancel(Now, {i})
            f == [Now.views[v] EXCEPT !.annots = None]
            W == [views EXCEPT ![v] = f]
<1>1. /\ running # None /\ running.step = "clear"
      /\ NotUI /\ UNCHANGED <<queue, doc, deletions, posts, misled, late>>
      /\ views' = [views EXCEPT ![v].annots = None] /\ cancelled' = c.cancelled
      /\ running' = [running EXCEPT !.step = "reload", !.page = i]
  BY DEF ClearAnnotations
<1>2. /\ running \in Started /\ v \in Views /\ running.kind = "ink"
  BY <1>1, RunningIs DEF Kinds
<1>3. views[v] \in Fields /\ i \in Nat /\ views \in [Views -> Fields]
  BY <1>2, TasksInvTypes, FieldsOf
<1>4. Stepped(running, running', "reload", i)
  BY <1>1, <1>2, <1>3, SteppedIs
<1>5. c.cancelled = cancelled \cup ({i} \cap IdsOf(Work)) /\ c.cancelled \in SUBSET Nat
  <2>1. c \in States /\ c.cancelled = Now.cancelled \cup ({i} \cap IdsOf(Live(Now.queue, posts, running)))
    BY TasksInvTypes, CancelIs
  <2>. HIDE DEF c
  <2>. QED
    BY <2>1, TasksInvTypes, NowIs DEF States
<1>6. views' = W
  BY <1>1, NowIs
<1>7. /\ Now' = [views |-> W, child |-> Now.child, spare |-> Now.spare,
                 queue |-> Now.queue, cancelled |-> c.cancelled]
  BY <1>1, <1>6 DEF Now, NotUI
<1>. HIDE DEF f, c
<1>8. /\ \A w \in Views : w # v => W[w] = Now.views[w]
      /\ W = [w \in Views |-> W[w]] /\ W[v] = f
  BY <1>2, <1>3, NowIs
<1>. HIDE DEF W, i, v
<1>9. Now \in States /\ None \in Lists \cup {None}
  BY TasksInvTypes
<1>10. Relisted(Now, Now', v, None)
  <2>. DEFINE r == Now'
  <2>1. r = [views |-> W, child |-> Now.child, spare |-> Now.spare,
             queue |-> Now.queue, cancelled |-> c.cancelled]
    BY <1>7
  <2>2. f = [Now.views[v] EXCEPT !.annots = None]
    BY DEF f
  <2>. HIDE DEF r
  <2>3. Relisted(Now, r, v, None)
    BY <1>2, <1>5, <1>8, <1>9, <2>1, <2>2, RelistedIs
  <2>. QED
    BY <2>3 DEF r
<1>. QED
  BY <1>1, <1>2, <1>3, <1>4, <1>5, <1>10 DEF v, i

LEMMA ClearTasks ==
  ASSUME TasksInv, ClearAnnotations
  PROVE  TasksInv'
<1>. DEFINE v == running.view
            i == views[running.view].loader
<1>1. /\ running # None /\ v \in Views
      /\ NotUI /\ UNCHANGED <<queue, doc, deletions, posts, misled, late>>
      /\ Relisted(Now, Now', v, None)
      /\ cancelled' = cancelled \cup ({i} \cap IdsOf(Work))
      /\ Stepped(running, running', "reload", i)
  BY ClearIs
<1>2. /\ running \in Started /\ running' \in Started /\ Tag(running') = Tag(running)
      /\ running'.page = i /\ running'.view = v /\ running'.step = "reload"
  BY <1>1, RunningIs DEF Stepped
<1>3. /\ Now' \in States /\ Now'.child = Now.child /\ Now'.spare = Now.spare
      /\ Now'.queue = Now.queue
      /\ \A w \in Views : SameShow(Now'.views[w], Now.views[w]) /\ SameTasks(Now'.views[w], Now.views[w])
  BY <1>1 DEF Relisted, SameShow, SameTasks
<1>4. /\ Distinct(queue, posts, running) /\ Live(queue, posts, running) = Work
      /\ Remembered(Now, Work, late) /\ Now.queue = queue /\ Now.cancelled = cancelled
      /\ Now.views = views
  BY TasksInvTypes, NowIs DEF TasksInv, TasksGood
<1>5. Live(queue, posts, running') = Work /\ Distinct(queue, posts, running')
  BY <1>2, <1>4, StepTask
<1>. HIDE DEF v, i
<1>6. /\ Live(Now'.queue, posts', running') = Work /\ Live(Now.queue, posts, running) = Work
      /\ Distinct(Now'.queue, posts', running') /\ Now'.cancelled = cancelled'
  BY <1>1, <1>3, <1>4, <1>5 DEF Now
<1>7. /\ \A x \in Work : x.id \in Now.cancelled => x.id \in Now'.cancelled
      /\ \A n \in Now'.cancelled : \E x \in Work : x.id = n
  BY <1>1, <1>4, <1>6 DEF Remembered, IdsOf
<1>8. ReloadKnown(Now', Work, posts', running')
  <2>1. Now'.views[v].loader = i
    BY <1>1, <1>3, <1>4 DEF SameTasks, v, i
  <2>2. \A x \in Work : x.id = i => i \in cancelled'
    BY <1>1 DEF IdsOf
  <2>. QED
    BY <1>2, <1>6, <2>1, <2>2 DEF ReloadKnown
<1>9. Fewer(Now, posts, running, Now', posts', running')
  BY <1>3, <1>6, <1>7, <1>8 DEF Fewer
<1>10. Basic'
  <2>1. running' # None => running'.step # "core"
    BY <1>2
  <2>. QED
    BY <1>1, <1>2, <1>3, <2>1, TasksTypes, TasksInvTypes, BasicBackground DEF NotUI
<1>. QED
  BY <1>1, <1>9, <1>10, FewerKeeps DEF NotUI

LEMMA ReloadIs ==
  ASSUME TasksInv, Reload
  PROVE  LET v == running.view
         IN  /\ running # None /\ running.kind = "ink" /\ running.step = "reload" /\ running' = None
             /\ v \in Views /\ Now' \in States
             /\ NotUI /\ UNCHANGED <<doc, deletions, posts, misled>>
             /\ cancelled' = cancelled \ {running.id}
             /\ late' = (late \/ running.id \in cancelled \/ views[v].loader # running.page)
             /\ \E id \in Nat :
                  /\ FreshIn(Now, Work, id)
                  /\ queue' = Append(queue, Job(id, "loader", v, None))
                  /\ \A w \in Views : w # v => views'[w] = views[w]
                  /\ SameShow(views'[v], views[v]) /\ SameInk(views'[v], views[v])
                  /\ SameLists(views'[v], views[v])
                  /\ FieldSet(views'[v], views[v], "loader", id)
<1>. DEFINE v == running.view
            r == Execute(Now, v, "loader", None)
<1>1. /\ running # None /\ running.step = "reload" /\ running' = None
      /\ NotUI /\ UNCHANGED <<doc, deletions, posts, misled>>
      /\ cancelled' = cancelled \ {running.id}
      /\ late' = (late \/ running.id \in cancelled \/ views[v].loader # running.page)
      /\ views' = r.views /\ queue' = r.queue
  BY DEF Reload
<1>2. running \in Started /\ v \in Views /\ running.kind = "ink"
  BY <1>1, RunningIs DEF Kinds
<1>3. \A i \in Nat : Job(i, "loader", v, None) \in Jobs
  BY <1>2 DEF Job, Jobs
<1>4. Now \in States /\ posts \in Seq(Results) /\ running \in Started \cup {None} /\ "loader" \in Kinds
      /\ Live(Now.queue, posts, running) = Work
  BY TasksInvTypes DEF Kinds
<1>. HIDE DEF v
<1>5. PICK id \in Nat :
           /\ FreshIn(Now, Work, id)
           /\ r \in States
           /\ r.child = Now.child /\ r.spare = Now.spare /\ r.cancelled = Now.cancelled
           /\ r.queue = Append(Now.queue, Job(id, "loader", v, None))
           /\ \A w \in Views : w # v => r.views[w] = Now.views[w]
           /\ SameShow(r.views[v], Now.views[v]) /\ SameInk(r.views[v], Now.views[v])
           /\ SameLists(r.views[v], Now.views[v])
           /\ FieldSet(r.views[v], Now.views[v], "loader", id)
  <2>. DEFINE L == Live(Now.queue, posts, running)
  <2>1. \E id \in Nat :
           /\ FreshIn(Now, L, id)
           /\ r \in States
           /\ r.child = Now.child /\ r.spare = Now.spare /\ r.cancelled = Now.cancelled
           /\ r.queue = Append(Now.queue, Job(id, "loader", v, None))
           /\ \A w \in Views : w # v => r.views[w] = Now.views[w]
           /\ SameShow(r.views[v], Now.views[v]) /\ SameInk(r.views[v], Now.views[v])
           /\ SameLists(r.views[v], Now.views[v])
           /\ FieldSet(r.views[v], Now.views[v], "loader", id)
    BY <1>2, <1>3, <1>4, ExecuteIs
  <2>. QED
    BY <1>4, <2>1
<1>. HIDE DEF r
<1>6. Now' \in States
  BY <1>1, <1>4, <1>5, NowIs DEF States, Now, NotUI
<1>. QED
  BY <1>1, <1>2, <1>5, <1>6, NowIs DEF v

\* The loader that a task begins is the one its view remembers, and the one
\* before it is cancelled, unless the UI thread has come in between.
LEMMA ReloadTasks ==
  ASSUME TasksInv, Reload
  PROVE  TasksInv'
<1>. DEFINE v == running.view
            L == Live(queue, posts, None)
            s == [views |-> views, child |-> child, spare |-> spare,
                  queue |-> queue, cancelled |-> cancelled \ {running.id}]
<1>1. /\ running # None /\ running.kind = "ink" /\ running.step = "reload" /\ running' = None
      /\ v \in Views /\ Now' \in States
      /\ NotUI /\ UNCHANGED <<doc, deletions, posts, misled>>
      /\ cancelled' = cancelled \ {running.id}
      /\ late' = (late \/ running.id \in cancelled \/ views[v].loader # running.page)
  BY ReloadIs
<1>2. PICK id \in Nat :
         /\ FreshIn(Now, Work, id)
         /\ queue' = Append(queue, Job(id, "loader", v, None))
         /\ \A w \in Views : w # v => views'[w] = views[w]
         /\ SameShow(views'[v], views[v]) /\ SameInk(views'[v], views[v])
         /\ SameLists(views'[v], views[v])
         /\ FieldSet(views'[v], views[v], "loader", id)
  BY ReloadIs
<1>3. /\ Now \in States /\ posts \in Seq(Results) /\ running \in Started /\ queue \in Seq(Jobs)
      /\ TasksGood(Now, posts, running, late) /\ Distinct(queue, posts, running)
      /\ Live(queue, posts, running) = Work /\ Live(Now.queue, posts, running) = Work
      /\ Remembered(Now, Work, late) /\ ReloadKnown(Now, Work, posts, running)
      /\ Placed(Now) /\ Work \in SUBSET Tags /\ Tag(running) \in Work
      /\ Tag(running).id = running.id /\ Tag(running).kind = running.kind
      /\ Tag(running).view = running.view
  BY <1>1, TasksInvTypes, NowIs DEF TasksInv, TasksGood, Tag
<1>4. /\ Work = L \cup {Tag(running)} /\ Distinct(queue, posts, None)
      /\ \A t \in L : t.id # running.id
  BY <1>3, DropTask
<1>5. /\ s \in States /\ s.views = views /\ s.child = child /\ s.spare = spare
      /\ s.queue = queue /\ s.cancelled = cancelled \ {running.id}
  BY <1>3, NowIs DEF States
<1>6. late \in BOOLEAN /\ late' \in BOOLEAN /\ (late => late')
  BY <1>1, TasksTypes
<1>. HIDE DEF L, s, v
<1>7. TasksGood(s, posts, None, late')
  <2>1. /\ Live(s.queue, posts, None) = L /\ Distinct(s.queue, posts, None)
    BY <1>4, <1>5 DEF L
  <2>2. \A t \in L : t.id \in Now.cancelled => t.id \in s.cancelled
    BY <1>4, <1>5, NowIs
  <2>3. \A i \in s.cancelled : \E t \in L : t.id = i
    BY <1>3, <1>4, <1>5, NowIs DEF Remembered
  <2>4. ReloadKnown(s, L, posts, None)
    BY DEF ReloadKnown
  <2>5. /\ s.child = Now.child /\ s.spare = Now.spare
        /\ \A w \in Views : SameShow(s.views[w], Now.views[w]) /\ SameTasks(s.views[w], Now.views[w])
    BY <1>5, NowIs DEF SameShow, SameTasks
  <2>6. Fewer(Now, posts, running, s, posts, None)
    BY <1>3, <1>4, <2>1, <2>2, <2>3, <2>4, <2>5 DEF Fewer
  <2>7. running \in Started \cup {None} /\ None \in Started \cup {None}
    BY <1>3
  <2>. QED
    BY <1>3, <1>5, <1>6, <2>6, <2>7, FewerTasksGood
<1>8. /\ Now'.queue = Append(s.queue, Job(id, "loader", v, None))
      /\ Now'.cancelled = s.cancelled /\ Now'.child = s.child /\ Now'.spare = s.spare
      /\ \A w \in Views : w # v => Now'.views[w] = s.views[w]
      /\ SameShow(Now'.views[v], s.views[v])
      /\ FieldSet(Now'.views[v], s.views[v], "loader", id)
  BY <1>1, <1>2, <1>5 DEF Now, NotUI
<1>9. FreshIn(s, L, id) /\ FreshFor(s, L, v, "loader", id) /\ id # 0
  <2>1. FreshIn(s, L, id)
    BY <1>2, <1>4, <1>5, NowIs DEF FreshIn
  <2>. QED
    BY <2>1, FreshInFor DEF FreshIn
<1>10. /\ Live(s.queue, posts, None) = L /\ Distinct(s.queue, posts, None)
       /\ Remembered(s, L, late') /\ Placed(s) /\ L \in SUBSET Tags
  <2>1. Live(s.queue, posts, None) = L
    BY <1>5 DEF L
  <2>. QED
    BY <1>3, <1>4, <1>7, <2>1 DEF TasksGood
<1>11. Job(id, "loader", v, None) \in Jobs /\ "loader" \in Kinds
  BY <1>1 DEF Job, Jobs, Kinds
<1>. DEFINE r == Now'
<1>12. Live(r.queue, posts, None) = L \cup {NewTag(id, "loader", v)} /\ Distinct(r.queue, posts, None)
  <2>1. \A x \in L : x.id # id
    BY <1>9 DEF FreshIn
  <2>. QED
    BY <1>3, <1>5, <1>8, <1>9, <1>10, <1>11, <2>1, AppendLive
<1>13. ASSUME ~late'
       PROVE  /\ \A t \in L : t.kind = "loader" /\ t.view = v => t.id \in s.cancelled
              /\ v \in Displayed(s)
  <2>1. ~late /\ running.id \notin Now.cancelled /\ Now.views[v].loader = running.page
    BY <1>1, <1>6, <1>13, NowIs
  <2>2. \A t \in Work : t.id = running.page => running.page \in Now.cancelled
    BY <1>1, <1>3, <2>1 DEF ReloadKnown, v
  <2>3. ASSUME NEW t \in L, t.kind = "loader", t.view = v, t.id \notin s.cancelled
        PROVE  FALSE
    <3>1. t \in Work /\ t.id # running.id /\ t.id \notin Now.cancelled
      BY <1>4, <1>5, <2>3, NowIs
    <3>2. Now.views[v].loader = t.id
      BY <1>3, <2>1, <2>3, <3>1 DEF Remembered
    <3>. QED
      BY <2>1, <2>2, <3>1, <3>2
  <2>4. Now.views[v].ink = running.id
    BY <1>1, <1>3, <2>1 DEF Remembered, v
  <2>5. running.id # 0
    BY <1>3, NoTaskIsZero
  <2>6. v \in Displayed(Now)
    BY <1>1, <1>3, <2>4, <2>5 DEF Placed
  <2>. QED
    BY <1>5, <2>3, <2>6, NowIs DEF Displayed
<1>. HIDE DEF r
<1>14. /\ r \in States /\ r.queue = Append(s.queue, Job(id, "loader", v, None))
       /\ r.cancelled = s.cancelled /\ r.child = s.child /\ r.spare = s.spare
       /\ \A w \in Views : w # v => r.views[w] = s.views[w]
       /\ SameShow(r.views[v], s.views[v])
       /\ FieldSet(r.views[v], s.views[v], "loader", id)
       /\ Displayed(r) = Displayed(s)
  BY <1>1, <1>8 DEF r, Displayed
<1>15. Remembered(r, L \cup {NewTag(id, "loader", v)}, late')
  <2>. DEFINE lt == late'
  <2>. HIDE DEF lt
  <2>1. \A t \in L : t.kind = "loader" /\ t.view = v /\ ("loader" = "loader" => ~lt) => t.id \in r.cancelled
    BY <1>13, <1>14 DEF lt
  <2>2. "loader" = "loader" /\ ~lt => v \in Displayed(r)
    BY <1>13, <1>14 DEF lt
  <2>3. /\ s.cancelled \subseteq r.cancelled /\ Displayed(s) \subseteq Displayed(r)
        /\ \A i \in r.cancelled : i \in s.cancelled \/ (i = TaskOf(s.views[v], "loader") /\ i \in IdsOf(L))
    BY <1>14
  <2>4. lt \in BOOLEAN /\ Remembered(s, L, lt) /\ v \in Views
    BY <1>1, <1>6, <1>10 DEF lt
  <2>5. Remembered(r, L \cup {NewTag(id, "loader", v)}, lt)
    BY <1>5, <1>9, <1>10, <1>11, <1>14, <2>1, <2>2, <2>3, <2>4, RenewRemembered
  <2>. QED
    BY <2>5 DEF lt
<1>16. Placed(r)
  <2>1. \A w \in Views : SameShow(r.views[w], s.views[w]) /\ r.views[w].ink = s.views[w].ink
                         /\ r.views[w].del = s.views[w].del
    BY <1>14 DEF SameShow, FieldSet
  <2>2. \A p \in Pages : s.child[p] # None => s.child[p] \in Views
    BY <1>5 DEF States
  <2>3. \A p \in Pages : s.child[p] # None =>
          r.views[s.child[p]].page = p /\ r.views[s.child[p]].sized
    BY <1>10, <2>1, <2>2 DEF Placed, SameShow
  <2>4. \A w \in Views : w \notin Displayed(s) =>
          /\ r.views[w].page = 0 /\ ~r.views[w].sized
          /\ r.views[w].ink = 0 /\ r.views[w].del = 0
    BY <1>10, <2>1 DEF Placed, SameShow
  <2>. QED
    BY <1>10, <1>14, <2>3, <2>4 DEF Placed
<1>17. TasksGood(r, posts, None, late')
  <2>1. ReloadKnown(r, Live(r.queue, posts, None), posts, None)
    BY DEF ReloadKnown
  <2>. QED
    BY <1>12, <1>15, <1>16, <2>1 DEF TasksGood
<1>18. TasksGood(Now', posts', running', late')
  BY <1>1, <1>17 DEF r
<1>19. Basic'
  BY <1>1, <1>3, <1>6, TasksTypes, BasicBackground DEF NotUI
<1>20. Around(Now', cur') /\ Now'.child[cur'] # None
  <2>1. Around(Now, cur) /\ Now.child[cur] # None
    BY NowIs DEF TasksInv
  <2>2. Now'.child = Now.child /\ cur' = cur
    BY <1>1, NowIs DEF Now, NotUI
  <2>. QED
    BY <2>1, <2>2 DEF Around
<1>. QED
  BY <1>18, <1>19, <1>20, SelectedShown

\* The layout that shows the first page begins from no views and no tasks.
LEMMA InitIs ==
  ASSUME Init
  PROVE  /\ 0 \in Pages /\ posts = <<>> /\ running = None /\ late = FALSE /\ cur = 0
         /\ posts \in Seq(Results) /\ running \in Started \cup {None} /\ late \in BOOLEAN
         /\ \E b \in States :
              /\ b.queue = <<>> /\ b.cancelled = {}
              /\ \A p \in Pages : b.child[p] = None
              /\ \A v \in Views : b.views[v] = FreshView
              /\ TasksGood(b, posts, running, late) /\ Placed(b)
              /\ Now = OnLayout(b, 0) /\ Now \in States /\ TasksGood(Now, posts, running, late)
              /\ Around(Now, 0) /\ Now.child[0] # None
<1>0. PICK b : b = [views |-> [v \in Views |-> FreshView],
                     child |-> [p \in Pages |-> None], spare |-> <<>>,
                     queue |-> <<>>, cancelled |-> {}]
  OBVIOUS
<1>. DEFINE s == OnLayout(b, 0)
            T == {x \in States : TasksGood(x, posts, running, late)}
<1>1. 0 \in Pages /\ posts = <<>> /\ running = None /\ late = FALSE /\ cur = 0
  BY PageViewsAssumption DEF Init, Pages
<1>2. FreshView \in Fields
  <2>1. <<>> \in Seq(SUBSET Strokes)
    OBVIOUS
  <2>. QED
    BY <1>1, <2>1 DEF FreshView, Fields
<1>3. /\ b \in States /\ b.queue = <<>> /\ b.cancelled = {} /\ b.spare = <<>>
      /\ \A p \in Pages : b.child[p] = None
      /\ \A v \in Views : b.views[v] = FreshView
  <2>1. PICK e : e = <<>>
    OBVIOUS
  <2>2. e \in Seq(Views) /\ e \in Seq(Jobs)
    BY <2>1
  <2>3. /\ [v \in Views |-> FreshView] \in [Views -> Fields] /\ {} \in SUBSET Nat
        /\ [p \in Pages |-> None] \in [Pages -> Views \cup {None}]
    BY <1>2
  <2>4. PICK W : W = [v \in Views |-> FreshView]
    OBVIOUS
  <2>5. PICK C : C = [p \in Pages |-> None]
    OBVIOUS
  <2>6. b = [views |-> W, child |-> C, spare |-> e, queue |-> e, cancelled |-> {}]
    BY <1>0, <2>1, <2>4, <2>5
  <2>7. W \in [Views -> Fields] /\ C \in [Pages -> Views \cup {None}]
    BY <2>3, <2>4, <2>5
  <2>8. b \in States
    BY <2>2, <2>6, <2>7 DEF States
  <2>. QED
    BY <2>1, <2>4, <2>5, <2>6, <2>8
<1>4. posts \in Seq(Results) /\ running \in Started \cup {None} /\ late \in BOOLEAN
  <2>1. PICK e : e = <<>>
    OBVIOUS
  <2>2. e \in Seq(Results)
    BY <2>1
  <2>. QED
    BY <1>1, <2>1, <2>2
<1>5. Placed(b)
  BY <1>3, PageViewsAssumption DEF Placed, Displayed, FreshView
<1>6. DOMAIN <<>> = {}
  OBVIOUS
<1>7. TasksGood(b, posts, running, late)
  <2>1. Live(b.queue, posts, running) = {}
    BY <1>1, <1>3, <1>6 DEF Live
  <2>2. Distinct(b.queue, posts, running)
    BY <1>1, <1>3, <1>6 DEF Distinct
  <2>3. Remembered(b, {}, late) /\ ReloadKnown(b, {}, posts, running)
    BY <1>1, <1>3 DEF Remembered, ReloadKnown
  <2>. QED
    BY <1>5, <2>1, <2>2, <2>3 DEF TasksGood
<1>8. s \in States /\ s \in T /\ Around(s, 0) /\ s.child[0] # None
  <2>1. \A r \in States : Removal(b, r, Live(b.queue, posts, running), 0) => r \in T
    BY <1>1, <1>3, <1>4, <1>7, RemovalTasksGood
  <2>2. \A x \in T, y \in States, v \in Views, q \in Pages, id \in Nat :
          Creation(x, y, Live(x.queue, posts, running), v, q, id) => y \in T
    BY <1>4, CreationTasksGood
  <2>3. \A x \in T : Placed(x) /\ Distinct(x.queue, posts, running)
    BY DEF TasksGood
  <2>. HIDE DEF T
  <2>. QED
    BY <1>1, <1>3, <1>4, <1>5, <2>1, <2>2, <2>3, LayoutKeeps
<1>9. Now = s
  <2>1. /\ views = s.views /\ child = s.child /\ spare = s.spare
        /\ queue = s.queue /\ cancelled = s.cancelled
    BY <1>0 DEF Init
  <2>. HIDE DEF s
  <2>. QED
    BY <1>8, <2>1 DEF Now, States
<1>10. Now = OnLayout(b, 0)
  BY <1>9
<1>. HIDE DEF s
<1>. QED
  BY <1>1, <1>3, <1>4, <1>5, <1>7, <1>8, <1>9, <1>10

LEMMA InitTasks ==
  ASSUME Init
  PROVE  TasksInv
<1>1. /\ 0 \in Pages /\ posts = <<>> /\ running = None /\ late = FALSE /\ cur = 0
      /\ posts \in Seq(Results) /\ running \in Started \cup {None} /\ late \in BOOLEAN
      /\ Now \in States /\ TasksGood(Now, posts, running, late)
      /\ Around(Now, 0) /\ Now.child[0] # None
  BY InitIs
<1>2. Basic
  <2>1. drawn \in 0..MaxStrokes /\ home \in [Strokes -> Pages]
    <3>1. /\ drawn \in 0..MaxStrokes
          /\ 1..drawn = UNION {StrokesOf(Saved[p]) : p \in Pages}
          /\ home = [x \in Strokes |->
                       IF x <= drawn THEN CHOOSE p \in Pages : x \in StrokesOf(Saved[p])
                       ELSE 0]
      BY DEF Init
    <3>2. ASSUME NEW x \in Strokes, x <= drawn
          PROVE  (CHOOSE p \in Pages : x \in StrokesOf(Saved[p])) \in Pages
      <4>1. x \in 1..drawn
        BY <3>1, <3>2 DEF Strokes
      <4>2. \E p \in Pages : x \in StrokesOf(Saved[p])
        BY <3>1, <4>1
      <4>. QED
        BY <4>2
    <3>. QED
      BY <1>1, <3>1, <3>2
  <2>2. doc \in [Pages -> Seq(SUBSET Strokes)] /\ deletions \in [Pages -> Nat]
    BY PageViewsAssumption DEF Init
  <2>3. /\ mode = "Viewing" /\ crashed = None /\ acts \in Nat
        /\ wished = {} /\ dropped = {} /\ misled = {}
    BY PageViewsAssumption DEF Init
  <2>4. Now \in States /\ cur \in Pages
    BY <1>1
  <2>. QED
    BY <1>1, <2>1, <2>2, <2>3, <2>4 DEF Basic
<1>. QED
  BY <1>1, <1>2, NowIs DEF TasksInv

LEMMA NextTasks ==
  ASSUME TasksInv, [Next]_vars
  PROVE  TasksInv'
<1>1. ASSUME NEW p \in Pages, MoveTo(p)
      PROVE  TasksInv'
  BY <1>1, MoveToTasks
<1>2. ASSUME NEW S \in SUBSET Strokes, Erase(S)
      PROVE  TasksInv'
  BY <1>2, EraseTasks
<1>3. CASE User
  BY <1>1, <1>2, <1>3, TapTasks, DeselectTasks, DeleteTasks, EditTasks, DrawTasks, StrokeTasks,
     UndoTasks, CancelDrawTasks, SaveDrawTasks DEF User
<1>4. CASE Deliver
  BY <1>4, DeliverTasks
<1>5. CASE Background
  BY <1>5, StartTasks, ReadPageTasks, GetAnnotationsTasks, DeleteAnnotationTasks, AddInkTasks,
     ClearTasks, ReloadTasks DEF Background
<1>6. CASE UNCHANGED vars
  <2>1. Now' = Now /\ UNCHANGED <<posts, running, cur, late>>
    BY <1>6 DEF vars, uivars, histories, Now
  <2>2. Basic'
    BY <1>6, <2>1, TasksTypes, TasksInvTypes, BasicUI DEF vars, uivars, histories
  <2>. QED
    BY <2>1, <2>2, SameTasksInv
<1>. QED
  BY <1>3, <1>4, <1>5, <1>6 DEF Next

\* With what the application can have died of.
TasksOK == TasksInv /\ DiesOnlyOfLateLoad

LEMMA NextDies ==
  ASSUME TasksOK, [Next]_vars
  PROVE  DiesOnlyOfLateLoad'
<1>1. late => late'
  <2>1. TasksInv' /\ late \in BOOLEAN
    BY NextTasks, TasksTypes DEF TasksOK
  <2>2. late' \in BOOLEAN
    BY <2>1 DEF TasksInv, Basic
  <2>3. CASE Reload
    BY <2>1, <2>2, <2>3 DEF Reload
  <2>4. CASE ~Reload
    BY <2>1, <2>4 DEF Next, User, Background, MoveTo, Tap, Deselect, DeleteSelectedAnnotation,
      EditSelectedAnnotation, Draw, Stroke, Erase, UndoDraw, CancelDraw, SaveDraw, Deliver,
      Start, ReadPage, GetAnnotations, DeleteAnnotation, AddInkAnnotation, ClearAnnotations,
      OnlyView, histories, vars
  <2>. QED
    BY <2>3, <2>4
<1>2. CASE Deliver
  <2>1. ASSUME crashed' = "size", ~late
        PROVE  FALSE
    <3>. DEFINE t == Head(posts)
    <3>1. TasksInv /\ crashed = None /\ posts # <<>>
      BY <1>2, DeliverIs DEF TasksOK
    <3>2. /\ t.id \notin cancelled /\ t.kind = "loader" /\ ~views[t.view].sized
      BY <1>2, <2>1, <3>1, DeliverIs, PageViewsAssumption
    <3>3. /\ Tag(t) \in Work /\ Tag(t).id = t.id /\ Tag(t).kind = t.kind /\ Tag(t).view = t.view
      BY <3>1, HeadOfPosts
    <3>. HIDE DEF t
    <3>4. Remembered(Now, Work, late) /\ Placed(Now)
      BY <3>1, TasksInvTypes DEF TasksInv, TasksGood
    <3>5. t.view \in Displayed(Now)
      BY <2>1, <3>2, <3>3, <3>4, NowIs DEF Remembered
    <3>. QED
      BY <3>2, <3>4, <3>5, NowIs, PageViewsAssumption DEF Placed, Displayed
  <2>2. late' = late
    BY <1>2, DeliverIs DEF TasksOK
  <2>. QED
    BY <2>1, <2>2 DEF DiesOnlyOfLateLoad
<1>3. CASE ~Deliver
  <2>1. crashed' = "size" => crashed = "size"
    BY <1>3 DEF Next, User, Background, MoveTo, Tap, Deselect, DeleteSelectedAnnotation,
      EditSelectedAnnotation, Draw, Stroke, Erase, UndoDraw, CancelDraw, SaveDraw,
      Start, ReadPage, GetAnnotations, DeleteAnnotation, AddInkAnnotation, ClearAnnotations,
      Reload, NotUI, OnlyView, vars
  <2>. QED
    BY <1>1, <2>1 DEF TasksOK, DiesOnlyOfLateLoad
<1>. QED
  BY <1>2, <1>3

LEMMA TasksHold == Spec => []TasksOK
<1>1. Init => TasksOK
  BY InitTasks, PageViewsAssumption DEF TasksOK, DiesOnlyOfLateLoad, Init
<1>2. TasksOK /\ [Next]_vars => TasksOK'
  BY NextTasks, NextDies DEF TasksOK
<1>. QED
  BY <1>1, <1>2, PTL DEF Spec

\* The variables keep their types; a view is on one page or waits in the cache
\* of the reader view, and nothing but tasks that are not done is cancelled.
THEOREM TypeCorrect == Spec => []TypeOK
<1>1. TasksOK => TypeOK
  <2>. SUFFICES ASSUME TasksOK PROVE TypeOK
    OBVIOUS
  <2>1. TasksInv /\ Placed(Now) /\ Remembered(Now, Work, late)
    BY TasksInvTypes DEF TasksOK, TasksInv, TasksGood
  <2>2. cancelled \subseteq Alive(Now)
    <3>1. Alive(Now) = IdsOf(Work)
      BY <2>1, TasksInvTypes, AliveIs
    <3>. QED
      BY <2>1, <3>1, NowIs DEF Remembered, IdsOf
  <2>3. Range(spare) \cap Range(child) = {}
    <3>1. DOMAIN child = Pages
      BY <2>1, TasksInvTypes
    <3>. QED
      BY <2>1, <3>1, NowIs DEF Placed, Range
  <2>4. spare \in Seq(Views)
    BY <2>1, TasksInvTypes, NowIs DEF States
  <2>5. /\ \A p, q \in Pages : p # q /\ child[p] # None => child[p] # child[q]
        /\ \A i, j \in DOMAIN spare : i # j => spare[i] # spare[j]
    BY <2>1, NowIs DEF Placed
  <2>. QED
    BY <2>1, <2>2, <2>3, <2>4, <2>5, TasksInvTypes, TasksTypes DEF TypeOK
<1>. QED
  BY <1>1, TasksHold, PTL

\* onPostExecute shows annotations on a view that has been released only after
\* a task that adds a drawing has loaded them behind the back of the UI thread.
THEOREM SizeOnlyOfLateLoad == Spec => []DiesOnlyOfLateLoad
<1>1. TasksOK => DiesOnlyOfLateLoad
  BY DEF TasksOK
<1>. QED
  BY <1>1, TasksHold, PTL

-----------------------------------------------------------------------------
(* The strokes and the pages they are on.                                  *)

Undrawn(s) == \A v \in Views : s.views[v].drawing = None /\ StrokesOf(s.views[v].history) = {}

LEMMA StrokesIn ==
  ASSUME NEW q
  PROVE  \A x : x \in StrokesOf(q) <=> \E i \in DOMAIN q : x \in q[i]
BY DEF StrokesOf, Range

LEMMA StrokesOfTail ==
  ASSUME NEW S, NEW q \in Seq(S), q # <<>>
  PROVE  /\ \A x : x \in StrokesOf(q) <=> x \in Head(q) \/ x \in StrokesOf(Tail(q))
         /\ Head(q) \subseteq StrokesOf(q) /\ StrokesOf(Tail(q)) \subseteq StrokesOf(q)
<1>. DEFINE T == Tail(q)
            a == Head(q)
<1>1. /\ a = q[1] /\ 1 \in DOMAIN q
      /\ \A i \in DOMAIN T : i + 1 \in DOMAIN q /\ T[i] = q[i + 1]
      /\ \A i \in DOMAIN q : i = 1 \/ (i - 1 \in DOMAIN T /\ T[i - 1] = q[i])
  BY TailItems
<1>. HIDE DEF T, a
<1>2. \A x : x \in StrokesOf(q) <=> \E i \in DOMAIN q : x \in q[i]
  BY StrokesIn
<1>3. \A x : x \in StrokesOf(T) <=> \E i \in DOMAIN T : x \in T[i]
  BY StrokesIn
<1>4. \A x : x \in StrokesOf(q) <=> x \in a \/ x \in StrokesOf(T)
  BY <1>1, <1>2, <1>3
<1>. QED
  BY <1>4 DEF T, a

LEMMA StrokesOfCons ==
  ASSUME NEW S, NEW q \in Seq(S), NEW d \in S
  PROVE  \A x : x \in StrokesOf(<<d>> \o q) <=> x \in d \/ x \in StrokesOf(q)
<1>1. /\ <<d>> \o q \in Seq(S) /\ <<d>> \o q # <<>>
      /\ Head(<<d>> \o q) = d /\ Tail(<<d>> \o q) = q
  OBVIOUS
<1>. QED
  BY <1>1, StrokesOfTail

LEMMA StrokesOfAppend ==
  ASSUME NEW S, NEW q \in Seq(S), NEW d \in S
  PROVE  \A x : x \in StrokesOf(Append(q, d)) <=> x \in d \/ x \in StrokesOf(q)
<1>. DEFINE r == Append(q, d)
<1>1. /\ DOMAIN r = DOMAIN q \cup {Len(q) + 1}
      /\ \A i \in DOMAIN q : r[i] = q[i]
      /\ r[Len(q) + 1] = d
  BY AppendItems
<1>. HIDE DEF r
<1>2. \A x : x \in StrokesOf(r) <=> x \in d \/ x \in StrokesOf(q)
  BY <1>1, StrokesIn
<1>. QED
  BY <1>2 DEF r

LEMMA NoStrokes == StrokesOf(<<>>) = {}
<1>1. DOMAIN <<>> = {}
  OBVIOUS
<1>. QED
  BY <1>1, StrokesIn

LEMMA OnMore ==
  ASSUME NEW G, NEW H, G \subseteq H, NEW s, NEW P, NEW R, NEW D, OnPages(G, s, P, R, D)
  PROVE  OnPages(H, s, P, R, D)
<1>1. \A S, p : On(G, S, p) => On(H, S, p)
  BY DEF On
<1>2. \A w : OnView(G, w) => OnView(H, w)
  BY <1>1 DEF OnView
<1>. QED
  BY <1>1, <1>2 DEF OnPages, OnQueue, OnPosts

LEMMA EditedOn ==
  ASSUME NEW G, NEW s \in States, NEW P, NEW R, NEW D, OnPages(G, s, P, R, D),
         NEW v \in Views, NEW r, NEW e, NEW d, NEW h, Edited(s, r, v, e, d, h),
         d # None => On(G, d, s.views[v].page), On(G, StrokesOf(h), s.views[v].page)
  PROVE  OnPages(G, r, P, R, D)
<1>1. /\ r.queue = s.queue /\ r.cancelled = s.cancelled
      /\ \A w \in Views : w # v => r.views[w] = s.views[w]
      /\ \A w \in Views : r.views[w].page = s.views[w].page
      /\ r.views[v].annots = s.views[v].annots
      /\ r.views[v].drawing = d /\ r.views[v].history = h
  BY DEF Edited, SameShow
<1>2. OnView(G, r.views[v])
  BY <1>1 DEF OnPages, OnView
<1>3. OnQueue(G, r)
  <2>1. \A i \in DOMAIN s.queue : s.queue[i].view \in Views
    BY JobType DEF States
  <2>. QED
    BY <1>1, <2>1 DEF OnPages, OnQueue
<1>. QED
  BY <1>1, <1>2, <1>3 DEF OnPages

LEMMA BegunOn ==
  ASSUME NEW G, NEW s \in States, NEW P, NEW R, NEW D, OnPages(G, s, P, R, D),
         NEW v \in Views, NEW r, NEW k, NEW id, NEW t, NEW a, NEW e, NEW d, NEW h,
         Begun(s, r, v, k, id, t, a, e, d, h), a \in {None, s.views[v].annots},
         d # None => On(G, d, s.views[v].page), On(G, StrokesOf(h), s.views[v].page),
         k = "ink" => On(G, t, s.views[v].page)
  PROVE  OnPages(G, r, P, R, D)
<1>1. /\ r.queue = Append(s.queue, Job(id, k, v, t)) /\ s.cancelled \subseteq r.cancelled
      /\ \A w \in Views : w # v => r.views[w] = s.views[w]
      /\ \A w \in Views : r.views[w].page = s.views[w].page
      /\ r.views[v].annots = a
      /\ r.views[v].drawing = d /\ r.views[v].history = h
  BY DEF Begun, Renewal, SameShow
<1>2. OnView(G, r.views[v])
  BY <1>1 DEF OnPages, OnView
<1>3. OnQueue(G, r)
  <2>. DEFINE j == Job(id, k, v, t)
              m == Len(s.queue) + 1
  <2>1. r \in States
    BY DEF Begun
  <2>2. r.queue \in Seq(Jobs) /\ s.queue \in Seq(Jobs)
    BY <2>1 DEF States
  <2>3. /\ DOMAIN r.queue = DOMAIN s.queue \cup {m}
        /\ \A i \in DOMAIN s.queue : r.queue[i] = s.queue[i]
        /\ r.queue[m] = j
    BY <1>1, <2>2
  <2>4. j.kind = k /\ j.view = v /\ j.what = t
    BY DEF Job
  <2>. HIDE DEF j, m
  <2>5. \A i \in DOMAIN s.queue : s.queue[i].view \in Views
    BY <2>2, JobType
  <2>6. \A i \in DOMAIN s.queue : s.queue[i].kind = "ink" /\ s.queue[i].id \notin r.cancelled =>
          On(G, s.queue[i].what, r.views[s.queue[i].view].page)
    BY <1>1, <2>5 DEF OnPages, OnQueue
  <2>7. j.kind = "ink" => On(G, j.what, r.views[j.view].page)
    BY <1>1, <2>4
  <2>. QED
    BY <2>3, <2>6, <2>7 DEF OnQueue
<1>. QED
  BY <1>1, <1>2, <1>3 DEF OnPages

LEMMA RelistedOn ==
  ASSUME NEW G, NEW s \in States, NEW P, NEW R, NEW D, OnPages(G, s, P, R, D),
         NEW v \in Views, NEW r, NEW a, Relisted(s, r, v, a), s.cancelled \subseteq r.cancelled,
         a # None => On(G, StrokesOf(a.list), a.of)
  PROVE  OnPages(G, r, P, R, D)
<1>1. /\ r.queue = s.queue
      /\ \A w \in Views : w # v => r.views[w] = s.views[w]
      /\ \A w \in Views : r.views[w].page = s.views[w].page
      /\ r.views[v].annots = a
      /\ r.views[v].drawing = s.views[v].drawing /\ r.views[v].history = s.views[v].history
  BY DEF Relisted, SameShow, SameInk
<1>2. OnView(G, r.views[v])
  BY <1>1 DEF OnPages, OnView
<1>3. OnQueue(G, r)
  <2>1. \A i \in DOMAIN s.queue : s.queue[i].view \in Views
    BY JobType DEF States
  <2>. QED
    BY <1>1, <2>1 DEF OnPages, OnQueue
<1>. QED
  BY <1>1, <1>2, <1>3 DEF OnPages

LEMMA RemovalOn ==
  ASSUME NEW G, NEW s \in States, NEW P \in Seq(Results), NEW R \in Started \cup {None}, NEW D,
         NEW lt \in BOOLEAN, TasksGood(s, P, R, lt), OnPages(G, s, P, R, D),
         NEW r \in States, NEW c, Removal(s, r, Live(s.queue, P, R), c), Undrawn(s)
  PROVE  OnPages(G, r, P, R, D) /\ Undrawn(r)
<1>. DEFINE L == Live(s.queue, P, R)
            Z == Gone(s, c)
<1>1. /\ r.queue = s.queue /\ s.cancelled \subseteq r.cancelled
      /\ \A v \in Z : \A i \in {s.views[v].loader, s.views[v].ink, s.views[v].del} :
           i \in IdsOf(L) => i \in r.cancelled
      /\ \A w \in Views \ Z : r.views[w] = s.views[w]
      /\ \A w \in Z : /\ r.views[w].drawing = None /\ r.views[w].history = <<>>
                      /\ r.views[w].annots = s.views[w].annots
  BY DEF Removal, SameLists
<1>2. \A i \in DOMAIN s.queue : s.queue[i] \in Jobs /\ s.queue[i].view \in Views
  BY JobType DEF States
<1>3. /\ \A w \in Views : OnView(G, r.views[w])
      /\ Undrawn(r)
  BY <1>1, NoStrokes DEF OnPages, OnView, On, Undrawn
<1>. HIDE DEF L, Z
<1>4. OnQueue(G, r)
  <2>1. SUFFICES ASSUME NEW i \in DOMAIN s.queue, s.queue[i].kind = "ink",
                        s.queue[i].id \notin r.cancelled
                 PROVE  On(G, s.queue[i].what, r.views[s.queue[i].view].page)
    BY <1>1 DEF OnQueue
  <2>. DEFINE t == Tag(s.queue[i])
  <2>2. t \in L /\ t.id = s.queue[i].id /\ t.kind = "ink" /\ t.view = s.queue[i].view
    BY <2>1, InLive DEF L
  <2>. HIDE DEF t
  <2>3. s.views[t.view].ink = t.id
    BY <1>1, <2>1, <2>2 DEF TasksGood, Remembered, L
  <2>4. t.view \notin Z
    BY <1>1, <2>1, <2>2, <2>3 DEF IdsOf
  <2>. QED
    BY <1>1, <1>2, <2>1, <2>2, <2>4 DEF OnPages, OnQueue
<1>. QED
  BY <1>3, <1>4 DEF OnPages

LEMMA CreationOn ==
  ASSUME NEW G, NEW s \in States, NEW P \in Seq(Results), NEW R \in Started \cup {None}, NEW D,
         NEW lt \in BOOLEAN, TasksGood(s, P, R, lt), OnPages(G, s, P, R, D),
         NEW r \in States, NEW v \in Views, NEW p \in Pages, NEW id \in Nat,
         Creation(s, r, Live(s.queue, P, R), v, p, id), Undrawn(s)
  PROVE  OnPages(G, r, P, R, D) /\ Undrawn(r)
<1>. DEFINE L == Live(s.queue, P, R)
            j == Job(id, "loader", v, None)
            m == Len(s.queue) + 1
<1>1. /\ r.queue = Append(s.queue, j) /\ s.cancelled \subseteq r.cancelled
      /\ v \notin Displayed(s)
      /\ \A w \in Views : w # v => r.views[w] = s.views[w]
      /\ r.views[v].annots = None
      /\ \/ r.views[v].drawing = s.views[v].drawing /\ r.views[v].history = s.views[v].history
         \/ r.views[v].drawing = None /\ r.views[v].history = <<>>
  BY DEF Creation, SameInk
<1>2. \A i \in DOMAIN s.queue : s.queue[i] \in Jobs /\ s.queue[i].view \in Views
  BY JobType DEF States
<1>3. r.views[v].drawing = None /\ StrokesOf(r.views[v].history) = {}
  BY <1>1, NoStrokes DEF Undrawn
<1>4. /\ \A w \in Views : OnView(G, r.views[w])
      /\ Undrawn(r)
  BY <1>1, <1>3 DEF OnPages, OnView, On, Undrawn
<1>5. /\ DOMAIN r.queue = DOMAIN s.queue \cup {m}
      /\ \A i \in DOMAIN s.queue : r.queue[i] = s.queue[i]
      /\ r.queue[m] = j /\ j.kind # "ink"
  <2>1. s.queue \in Seq(Jobs) /\ r.queue \in Seq(Jobs)
    BY DEF States
  <2>2. j.kind = "loader"
    BY DEF Job
  <2>. HIDE DEF j
  <2>. QED
    BY <1>1, <2>1, <2>2
<1>. HIDE DEF L, j, m
<1>6. OnQueue(G, r)
  <2>1. SUFFICES ASSUME NEW i \in DOMAIN s.queue, s.queue[i].kind = "ink",
                        s.queue[i].id \notin r.cancelled
                 PROVE  On(G, s.queue[i].what, r.views[s.queue[i].view].page)
    BY <1>5 DEF OnQueue
  <2>. DEFINE t == Tag(s.queue[i])
  <2>2. t \in L /\ t.id = s.queue[i].id /\ t.kind = "ink" /\ t.view = s.queue[i].view
    BY <2>1, InLive DEF L
  <2>. HIDE DEF t
  <2>3. t.view \in Displayed(s)
    BY <1>1, <2>1, <2>2, DisplayedTask DEF L
  <2>. QED
    BY <1>1, <1>2, <2>1, <2>2, <2>3 DEF OnPages, OnQueue
<1>. QED
  BY <1>4, <1>6 DEF OnPages

LEMMA HomedIs ==
  ASSUME NEW x \in Strokes, NEW p \in Pages
  PROVE  <<x, p>> \in Homed <=> x <= drawn /\ (home[x] = p \/ x \in misled)
BY DEF Homed

LEMMA HomedGrows ==
  ASSUME UNCHANGED <<home, drawn>>, misled \subseteq misled'
  PROVE  Homed \subseteq Homed'
BY DEF Homed

\* What is selected and drawn on the current view changes.
LEMMA EditedInk ==
  ASSUME TasksInv, InkInv, Idly, Homed \subseteq Homed',
         NEW e, NEW d, NEW h, Edited(Now, Now', Selected, e, d, h),
         d # None => On(Homed', d, cur), On(Homed', StrokesOf(h), cur),
         mode' = "Drawing" \/ d = None, d = None => StrokesOf(h) = {}
  PROVE  InkInv'
<1>1. /\ posts' = posts /\ running' = running /\ doc' = doc /\ cur' = cur
  BY DEF Idly
<1>2. Now \in States /\ Selected \in Views /\ Now.views[Selected].page = cur
      /\ Now.child[cur] = Selected
  BY TasksInvTypes, SelectedIs, NowIs DEF Selected
<1>3. OnPages(Homed', Now, posts, running, doc)
  BY OnMore DEF InkInv
<1>4. OnPages(Homed', Now', posts, running, doc)
  BY <1>2, <1>3, EditedOn
<1>5. OnlyDrawn(Now', cur, mode')
  <2>1. /\ \A w \in Views : w # Selected => Now'.views[w] = Now.views[w]
        /\ Now'.views[Selected].drawing = d /\ Now'.views[Selected].history = h
        /\ Now'.child = Now.child
    BY DEF Edited
  <2>. QED
    BY <1>2, <2>1 DEF InkInv, OnlyDrawn
<1>6. OnPages(Homed', Now', posts', running', doc') /\ OnlyDrawn(Now', cur', mode')
  BY <1>1, <1>4, <1>5
<1>. QED
  BY <1>6 DEF InkInv

\* The current view begins a task.
LEMMA BegunInk ==
  ASSUME TasksInv, InkInv, Idly, Homed \subseteq Homed',
         NEW k, NEW id, NEW t, NEW e, NEW d, NEW h,
         Begun(Now, Now', Selected, k, id, t, V.annots, e, d, h),
         d # None => On(Homed', d, cur), On(Homed', StrokesOf(h), cur),
         k = "ink" => On(Homed', t, cur),
         mode' = "Drawing" \/ d = None, d = None => StrokesOf(h) = {}
  PROVE  InkInv'
<1>1. /\ posts' = posts /\ running' = running /\ doc' = doc /\ cur' = cur
  BY DEF Idly
<1>2. Now \in States /\ Selected \in Views /\ Now.views[Selected].page = cur
      /\ Now.child[cur] = Selected /\ V.annots = Now.views[Selected].annots
  BY TasksInvTypes, SelectedIs, NowIs DEF Selected
<1>3. OnPages(Homed', Now, posts, running, doc)
  BY OnMore DEF InkInv
<1>4. OnPages(Homed', Now', posts, running, doc)
  BY <1>2, <1>3, BegunOn
<1>5. OnlyDrawn(Now', cur, mode')
  <2>1. /\ \A w \in Views : w # Selected => Now'.views[w] = Now.views[w]
        /\ Now'.views[Selected].drawing = d /\ Now'.views[Selected].history = h
        /\ Now'.child = Now.child
    BY DEF Begun, Renewal
  <2>. QED
    BY <1>2, <2>1 DEF InkInv, OnlyDrawn
<1>6. OnPages(Homed', Now', posts', running', doc') /\ OnlyDrawn(Now', cur', mode')
  BY <1>1, <1>4, <1>5
<1>. QED
  BY <1>6 DEF InkInv

\* The ink of the current view is of its page.
LEMMA SelectedInk ==
  ASSUME TasksInv, InkInv, Homed \subseteq Homed'
  PROVE  /\ V.drawing # None => On(Homed', V.drawing, cur)
         /\ On(Homed', Drawing, cur)
         /\ On(Homed', StrokesOf(V.history), cur)
         /\ V.annots # None => On(Homed, StrokesOf(V.annots.list), V.annots.of)
         /\ mode # "Drawing" => V.drawing = None
         /\ V.drawing = None => StrokesOf(V.history) = {}
         /\ V.history \in Seq(SUBSET Strokes) /\ Drawing \in SUBSET Strokes
<1>1. /\ Selected \in Views /\ Now.views[Selected] = V /\ V.page = cur
      /\ Now.child[cur] = Selected
  BY SelectedIs, NowIs DEF Selected
<1>2. OnView(Homed, V) /\ OnView(Homed', V)
  BY <1>1, OnMore DEF InkInv, OnPages
<1>3. On(Homed', Drawing, cur)
  BY <1>1, <1>2 DEF Drawing, OnView, On
<1>. QED
  BY <1>1, <1>2, <1>3, DrawingIs DEF InkInv, OnView, OnlyDrawn

LEMMA TapInk ==
  ASSUME TasksInv, InkInv, Tap
  PROVE  InkInv'
<1>1. PICK e : Edited(Now, Now', Selected, e, V.drawing, V.history)
  BY TapIs
<1>2. Idly /\ mode # "Drawing" /\ UNCHANGED <<home, drawn, misled>>
  BY TapIs
<1>. QED
  BY <1>1, <1>2, HomedGrows, SelectedInk, EditedInk

LEMMA DeselectInk ==
  ASSUME TasksInv, InkInv, Deselect
  PROVE  InkInv'
<1>1. /\ Edited(Now, Now', Selected, None, V.drawing, V.history)
      /\ Idly /\ mode # "Drawing" /\ UNCHANGED <<home, drawn, misled>>
  BY DeselectIs
<1>. QED
  BY <1>1, HomedGrows, SelectedInk, EditedInk

LEMMA DeleteInk ==
  ASSUME TasksInv, InkInv, DeleteSelectedAnnotation
  PROVE  InkInv'
<1>1. Idly /\ mode # "Drawing" /\ UNCHANGED <<home, drawn, misled>>
  BY DeleteIs
<1>2. PICK id \in Nat : Begun(Now, Now', Selected, "del", id, V.sel,
                              V.annots, None, V.drawing, V.history)
  BY DeleteIs
<1>3. Homed \subseteq Homed'
  BY <1>1, HomedGrows
<1>. QED
  BY <1>1, <1>2, <1>3, SelectedInk, BegunInk

LEMMA EditInk ==
  ASSUME TasksInv, InkInv, EditSelectedAnnotation
  PROVE  InkInv'
<1>1. Idly /\ mode = "Edit" /\ UNCHANGED <<home, drawn>>
  BY EditIs
<1>2. CASE mode' = mode /\ misled' = misled /\ Now' = Now
  <2>1. /\ posts' = posts /\ running' = running /\ doc' = doc /\ cur' = cur
    BY <1>1 DEF Idly
  <2>2. Homed' = Homed
    BY <1>1, <1>2 DEF Homed
  <2>3. OnPages(Homed', Now', posts', running', doc') /\ OnlyDrawn(Now', cur', mode')
    BY <1>2, <2>1, <2>2 DEF InkInv
  <2>. QED
    BY <2>3 DEF InkInv
<1>3. CASE /\ V.annots # None /\ V.sel.at \in DOMAIN V.annots.list
           /\ mode' = "Drawing"
           /\ misled' = misled
                \cup (IF V.annots.of = V.sel.of THEN {} ELSE V.sel.annot)
                \cup (IF V.annots.of = V.page THEN {} ELSE V.annots.list[V.sel.at])
           /\ V.annots.list[V.sel.at] \in SUBSET Strokes
           /\ \E id \in Nat : Begun(Now, Now', Selected, "del", id, V.sel,
                                    V.annots, None, V.annots.list[V.sel.at], V.history)
  <2>. DEFINE d == V.annots.list[V.sel.at]
  <2>1. PICK id \in Nat : Begun(Now, Now', Selected, "del", id, V.sel, V.annots, None, d, V.history)
    BY <1>3
  <2>2. Homed \subseteq Homed'
    BY <1>1, <1>3, HomedGrows
  <2>3. V.annots.of \in Pages /\ V.page = cur /\ cur \in Pages
    BY <1>3, SelectedIs, FieldsOf, TasksTypes
  <2>4. On(Homed', d, cur)
    <3>1. On(Homed, d, V.annots.of)
      <4>1. \A x \in d : x \in StrokesOf(V.annots.list)
        BY <1>3, StrokesIn
      <4>. HIDE DEF d
      <4>. QED
        BY <1>3, <2>2, <4>1, SelectedInk DEF On
    <3>2. CASE V.annots.of = V.page
      BY <2>2, <2>3, <3>1, <3>2 DEF On
    <3>3. CASE V.annots.of # V.page
      <4>1. d \subseteq misled'
        BY <1>3, <3>3
      <4>2. d \in SUBSET Strokes
        BY <1>3
      <4>. HIDE DEF d
      <4>3. \A x \in d : x <= drawn
        BY <2>3, <3>1, <4>2, HomedIs DEF On
      <4>4. \A x \in d : <<x, cur>> \in Homed'
        BY <1>1, <2>3, <4>1, <4>2, <4>3 DEF Homed
      <4>. QED
        BY <4>4 DEF On
    <3>. QED
      BY <3>2, <3>3
  <2>5. On(Homed', StrokesOf(V.history), cur) /\ StrokesOf(V.history) = {}
    BY <1>1, <2>2, SelectedInk
  <2>6. mode' = "Drawing"
    BY <1>3
  <2>. HIDE DEF d
  <2>. QED
    BY <1>1, <2>1, <2>2, <2>4, <2>5, <2>6, BegunInk
<1>. QED
  BY <1>2, <1>3, EditIs

LEMMA DrawInk ==
  ASSUME TasksInv, InkInv, Draw
  PROVE  InkInv'
<1>1. Idly /\ mode = "Viewing" /\ mode' = "Drawing" /\ Now' = Now /\ UNCHANGED <<home, drawn, misled>>
  BY DrawIs
<1>2. /\ posts' = posts /\ running' = running /\ doc' = doc /\ cur' = cur /\ Homed' = Homed
  BY <1>1 DEF Idly, Homed
<1>3. OnlyDrawn(Now, cur, mode')
  BY <1>1 DEF InkInv, OnlyDrawn
<1>4. OnPages(Homed', Now', posts', running', doc') /\ OnlyDrawn(Now', cur', mode')
  BY <1>1, <1>2, <1>3 DEF InkInv
<1>. QED
  BY <1>4 DEF InkInv

LEMMA StrokeInk ==
  ASSUME TasksInv, InkInv, Stroke
  PROVE  InkInv'
<1>. DEFINE d == Drawing \cup {drawn + 1}
            h == <<Drawing>> \o V.history
<1>1. /\ Idly /\ mode' = "Drawing" /\ drawn' = drawn + 1 /\ drawn + 1 \in Strokes
      /\ home' = [home EXCEPT ![drawn + 1] = cur] /\ misled' = misled
      /\ Edited(Now, Now', Selected, V.sel, d, h)
  BY StrokeIs
<1>2. /\ home \in [Strokes -> Pages] /\ cur \in Pages /\ drawn \in Nat
      /\ \A x \in Strokes : x \in Nat
  BY TasksTypes, PageViewsAssumption DEF Strokes
<1>3. Homed \subseteq Homed'
  <2>1. ASSUME NEW g \in Homed
        PROVE  g \in Homed'
    <3>1. g \in Strokes \X Pages /\ g[1] \in Strokes /\ g[1] <= drawn
          /\ (home[g[1]] = g[2] \/ g[1] \in misled)
      BY DEF Homed
    <3>2. g[1] <= drawn' /\ home'[g[1]] = home[g[1]]
      BY <1>1, <1>2, <3>1
    <3>. QED
      BY <1>1, <3>1, <3>2 DEF Homed
  <2>. QED
    BY <2>1
<1>4. <<drawn + 1, cur>> \in Homed'
  <2>1. drawn + 1 <= drawn' /\ home'[drawn + 1] = cur
    BY <1>1, <1>2
  <2>. QED
    BY <1>1, <1>2, <2>1 DEF Homed
<1>5. On(Homed', d, cur)
  BY <1>3, <1>4, SelectedInk DEF On
<1>6. On(Homed', StrokesOf(h), cur)
  BY <1>3, SelectedInk, StrokesOfCons DEF On
<1>7. d # None
  <2>1. d \in SUBSET Strokes
    BY <1>1, SelectedInk, <1>3
  <2>. QED
    BY <2>1, PageViewsAssumption
<1>. HIDE DEF d, h
<1>. QED
  BY <1>1, <1>3, <1>5, <1>6, <1>7, EditedInk

LEMMA EraseInk ==
  ASSUME TasksInv, InkInv, NEW S \in SUBSET Strokes, Erase(S)
  PROVE  InkInv'
<1>. DEFINE d == IF V.drawing = None THEN None ELSE V.drawing \ S
            h == <<Drawing>> \o V.history
<1>1. /\ Idly /\ mode' = "Drawing" /\ UNCHANGED <<home, drawn, misled>>
      /\ Edited(Now, Now', Selected, V.sel, d, h)
  BY EraseIs
<1>2. Homed \subseteq Homed'
  BY <1>1, HomedGrows
<1>3. d # None => On(Homed', d, cur)
  BY <1>2, SelectedInk DEF On
<1>4. On(Homed', StrokesOf(h), cur)
  BY <1>2, SelectedInk, StrokesOfCons DEF On
<1>5. d = None => StrokesOf(h) = {}
  <2>1. ASSUME d = None
        PROVE  V.drawing = None
    <3>1. V.drawing # None => V.drawing \ S \in SUBSET Strokes
      BY DrawingIs
    <3>. QED
      BY <2>1, <3>1, PageViewsAssumption
  <2>2. V.drawing = None => Drawing = {}
    BY DEF Drawing
  <2>. HIDE DEF d
  <2>. QED
    BY <1>2, <2>1, <2>2, SelectedInk, StrokesOfCons
<1>. HIDE DEF d, h
<1>. QED
  BY <1>1, <1>2, <1>3, <1>4, <1>5, EditedInk

LEMMA UndoInk ==
  ASSUME TasksInv, InkInv, UndoDraw
  PROVE  InkInv'
<1>. DEFINE d == Head(V.history)
            h == Tail(V.history)
<1>1. /\ Idly /\ mode' = "Drawing" /\ UNCHANGED <<home, drawn, misled>> /\ V.history # <<>>
      /\ Edited(Now, Now', Selected, V.sel, d, h)
  BY UndoIs
<1>2. Homed \subseteq Homed'
  BY <1>1, HomedGrows
<1>3. V.history \in Seq(SUBSET Strokes)
  BY DrawingIs
<1>4. d \subseteq StrokesOf(V.history) /\ StrokesOf(h) \subseteq StrokesOf(V.history)
  BY <1>1, <1>3, StrokesOfTail
<1>5. d # None
  BY <1>1, <1>3, TailItems, PageViewsAssumption
<1>. HIDE DEF d, h
<1>6. On(Homed', d, cur) /\ On(Homed', StrokesOf(h), cur)
  BY <1>2, <1>4, SelectedInk DEF On
<1>. QED
  BY <1>1, <1>2, <1>5, <1>6, EditedInk

LEMMA CancelDrawInk ==
  ASSUME TasksInv, InkInv, CancelDraw
  PROVE  InkInv'
<1>1. Idly /\ UNCHANGED <<home, drawn, misled>>
  BY CancelDrawIs
<1>2. PICK h : h = <<>> /\ Edited(Now, Now', Selected, V.sel, None, h)
  BY CancelDrawIs
<1>3. StrokesOf(h) = {}
  BY <1>2, NoStrokes
<1>. QED
  BY <1>1, <1>2, <1>3, HomedGrows, EditedInk DEF On

LEMMA SaveDrawInk ==
  ASSUME TasksInv, InkInv, SaveDraw
  PROVE  InkInv'
<1>1. Idly /\ mode' = "Viewing" /\ UNCHANGED <<home, drawn, misled>>
  BY SaveDrawIs
<1>0. Homed \subseteq Homed'
  BY <1>1, HomedGrows
<1>2. CASE V.drawing = None /\ Now' = Now
  <2>1. /\ posts' = posts /\ running' = running /\ doc' = doc /\ cur' = cur /\ Homed' = Homed
    BY <1>1 DEF Idly, Homed
  <2>2. Now.child[cur] = Selected /\ Selected \in Views /\ V = Now.views[Selected]
    BY SelectedIs, NowIs DEF Selected
  <2>3. OnlyDrawn(Now, cur, mode')
    BY <1>2, <2>2 DEF InkInv, OnlyDrawn
  <2>4. OnPages(Homed', Now', posts', running', doc') /\ OnlyDrawn(Now', cur', mode')
    BY <1>2, <2>1, <2>3 DEF InkInv
  <2>. QED
    BY <2>4 DEF InkInv
<1>3. CASE /\ V.drawing # None
           /\ \E id \in Nat : \E h : /\ h = <<>>
                /\ Begun(Now, Now', Selected, "ink", id, V.drawing, V.annots, V.sel, None, h)
  <2>1. PICK id \in Nat : \E h : /\ h = <<>>
                /\ Begun(Now, Now', Selected, "ink", id, V.drawing, V.annots, V.sel, None, h)
    BY <1>3
  <2>2. PICK h : h = <<>> /\ Begun(Now, Now', Selected, "ink", id, V.drawing, V.annots, V.sel, None, h)
    BY <2>1
  <2>3. StrokesOf(h) = {} /\ On(Homed', StrokesOf(h), cur) /\ On(Homed', V.drawing, cur)
    BY <1>0, <1>3, <2>2, NoStrokes, SelectedInk DEF On
  <2>. QED
    BY <1>0, <1>1, <2>2, <2>3, BegunInk
<1>. QED
  BY <1>2, <1>3, SaveDrawIs

LEMMA MoveToInk ==
  ASSUME TasksInv, InkInv, NEW p \in Pages, MoveTo(p)
  PROVE  InkInv'
<1>. DEFINE off == [Now EXCEPT !.views = [views EXCEPT ![Selected] = [V EXCEPT !.sel = None]]]
            s == OnLayout(off, p)
            T == {x \in States : /\ TasksGood(x, posts, running, late)
                                 /\ OnPages(Homed, x, posts, running, doc) /\ Undrawn(x)}
<1>1. /\ UNCHANGED <<doc, running, posts, home, drawn, misled>>
      /\ cur' = p /\ mode # "Drawing"
      /\ Edited(Now, off, Selected, None, V.drawing, V.history)
      /\ Becomes(s)
  BY MoveToIs
<1>. HIDE DEF off
<1>2. TasksGood(off, posts, running, late) /\ off \in States
  BY <1>1, EditedTasks, SelectedIs DEF Edited
<1>3. /\ posts \in Seq(Results) /\ running \in Started \cup {None} /\ late \in BOOLEAN
      /\ Now \in States /\ Selected \in Views /\ V = Now.views[Selected]
  BY TasksInvTypes, TasksTypes, SelectedIs
<1>4. Undrawn(Now)
  BY <1>1 DEF InkInv, OnlyDrawn, Undrawn
<1>5. Undrawn(off)
  BY <1>1, <1>3, <1>4 DEF Edited, Undrawn
<1>6. OnPages(Homed, off, posts, running, doc)
  <2>1. OnView(Homed, V) /\ OnPages(Homed, Now, posts, running, doc)
    BY <1>3 DEF InkInv, OnPages
  <2>2. (V.drawing # None => On(Homed, V.drawing, V.page)) /\ On(Homed, StrokesOf(V.history), V.page)
    BY <2>1 DEF OnView
  <2>. QED
    BY <1>1, <1>3, <2>1, <2>2, EditedOn
<1>7. s \in States /\ s \in T
  <2>1. \A r \in States : Removal(off, r, Live(off.queue, posts, running), p) => r \in T
    <3>1. SUFFICES ASSUME NEW r \in States, Removal(off, r, Live(off.queue, posts, running), p)
                   PROVE  r \in T
      OBVIOUS
    <3>2. TasksGood(r, posts, running, late)
      BY <1>2, <1>3, <3>1, RemovalTasksGood
    <3>3. OnPages(Homed, r, posts, running, doc) /\ Undrawn(r)
      BY <1>2, <1>3, <1>5, <1>6, <3>1, RemovalOn
    <3>. QED
      BY <3>1, <3>2, <3>3
  <2>2. \A x \in T, y \in States, v \in Views, q \in Pages, id \in Nat :
          Creation(x, y, Live(x.queue, posts, running), v, q, id) => y \in T
    BY <1>3, CreationTasksGood, CreationOn
  <2>3. \A x \in T : Placed(x) /\ Distinct(x.queue, posts, running)
    BY DEF TasksGood
  <2>4. Placed(off)
    BY <1>2 DEF TasksGood
  <2>. DEFINE r == OnLayout(off, p)
  <2>. HIDE DEF T
  <2>5. r \in States /\ r \in T /\ Around(r, p) /\ r.child[p] # None
    BY <1>2, <1>3, <2>1, <2>2, <2>3, <2>4, LayoutKeeps
  <2>. QED
    BY <2>5
<1>. HIDE DEF s
<1>8. Now' = s
  BY <1>1, <1>7, BecomesIs
<1>9. Homed' = Homed
  BY <1>1 DEF Homed
<1>10. OnPages(Homed', Now', posts', running', doc')
  BY <1>1, <1>7, <1>8, <1>9
<1>11. OnlyDrawn(Now', cur', mode')
  BY <1>7, <1>8 DEF OnlyDrawn, Undrawn
<1>. QED
  BY <1>10, <1>11 DEF InkInv

\* The document, the results and the running task change; Now may, in its queue.
LEMMA BackgroundInk ==
  ASSUME TasksInv, InkInv, UNCHANGED <<home, drawn, cur, mode, views, child>>, misled \subseteq misled',
         \A p \in Pages : On(Homed', StrokesOf(doc'[p]), p),
         OnQueue(Homed', Now'), OnPosts(Homed', posts'),
         running' # None /\ running'.kind = "ink" => On(Homed', running'.what, running'.from)
  PROVE  InkInv'
<1>1. Homed \subseteq Homed'
  BY HomedGrows
<1>2. Now'.views = Now.views /\ Now'.child = Now.child
  BY DEF Now
<1>3. OnPages(Homed', Now, posts, running, doc)
  BY <1>1, OnMore DEF InkInv
<1>4. OnPages(Homed', Now', posts', running', doc')
  BY <1>2, <1>3 DEF OnPages
<1>5. OnlyDrawn(Now', cur', mode')
  BY <1>2 DEF InkInv, OnlyDrawn
<1>. QED
  BY <1>4, <1>5 DEF InkInv

\* What is as it was is still on its page.
LEMMA StillOn ==
  ASSUME TasksInv, InkInv, UNCHANGED <<home, drawn>>, misled \subseteq misled'
  PROVE  /\ \A p \in Pages : On(Homed', StrokesOf(doc[p]), p) /\ On(Homed, StrokesOf(doc[p]), p)
         /\ OnQueue(Homed', Now) /\ OnPosts(Homed', posts)
         /\ running # None /\ running.kind = "ink" =>
              On(Homed', running.what, running.from) /\ On(Homed, running.what, running.from)
BY HomedGrows, OnMore DEF InkInv, OnPages

LEMMA DeliverInk ==
  ASSUME TasksInv, InkInv, Deliver
  PROVE  InkInv'
<1>. DEFINE t == Head(posts)
            P == Tail(posts)
<1>1. /\ posts # <<>> /\ posts' = P
      /\ UNCHANGED <<doc, cur, mode, running, drawn, home, misled>>
  BY DeliverIs
<1>2. /\ t \in Results /\ t.view \in Views /\ posts \in Seq(Results) /\ queue \in Seq(Jobs)
      /\ t = posts[1] /\ 1 \in DOMAIN posts
  BY <1>1, HeadOfPosts, TasksInvTypes, TailItems
<1>3. \A i \in DOMAIN P : \E j \in DOMAIN posts : P[i] = posts[j]
  BY <1>1, <1>2, TailItems
<1>4. /\ Now \in States /\ posts \in Seq(Results)
      /\ Distinct(queue, posts, running) /\ Now.queue = queue
  BY TasksInvTypes, NowIs DEF TasksInv, TasksGood
<1>. HIDE DEF t, P
<1>5. OnPosts(Homed, P)
  BY <1>3 DEF InkInv, OnPages, OnPosts
<1>6. OnPages(Homed, Now, P, running, doc) /\ Homed' = Homed
  BY <1>1, <1>5 DEF InkInv, OnPages, Homed
<1>7. CASE /\ t.id \in cancelled
           /\ Now' \in States /\ views' = views /\ child' = child /\ spare' = spare
           /\ queue' = queue /\ cancelled' = cancelled \ {t.id}
  <2>1. /\ Now'.queue = Now.queue /\ Now'.views = Now.views /\ Now'.child = Now.child
        /\ Now'.cancelled = Now.cancelled \ {t.id}
    BY <1>7 DEF Now
  <2>2. \A i \in DOMAIN queue : queue[i].id # t.id
    BY <1>2, <1>4 DEF Distinct
  <2>3. OnQueue(Homed, Now')
    BY <1>4, <1>6, <2>1, <2>2 DEF OnPages, OnQueue
  <2>4. OnPages(Homed', Now', posts', running', doc')
    BY <1>1, <1>6, <2>1, <2>3 DEF OnPages
  <2>5. OnlyDrawn(Now', cur', mode')
    BY <1>1, <2>1 DEF InkInv, OnlyDrawn
  <2>. QED
    BY <2>4, <2>5 DEF InkInv
<1>8. CASE \E id \in Nat :
             Begun(Now, Now', t.view, "loader", id, None, None, views[t.view].sel,
                   views[t.view].drawing, views[t.view].history)
  <2>. DEFINE v == t.view
              w == Now.views[v]
  <2>0. PICK id \in Nat :
             Begun(Now, Now', t.view, "loader", id, None, None, views[t.view].sel,
                   views[t.view].drawing, views[t.view].history)
    BY <1>8
  <2>1. Begun(Now, Now', v, "loader", id, None, None, w.sel, w.drawing, w.history) /\ v \in Views
    BY <1>2, <2>0, NowIs
  <2>2. (w.drawing # None => On(Homed, w.drawing, w.page)) /\ On(Homed, StrokesOf(w.history), w.page)
    BY <2>1 DEF InkInv, OnPages, OnView
  <2>3. "loader" # "ink"
    OBVIOUS
  <2>. HIDE DEF v
  <2>4. OnPages(Homed, Now', P, running, doc)
    BY <1>4, <1>6, <2>1, <2>2, <2>3, BegunOn
  <2>5. OnPages(Homed', Now', posts', running', doc')
    BY <1>1, <1>6, <2>4
  <2>6. OnlyDrawn(Now', cur', mode')
    BY <1>1, <2>1 DEF InkInv, OnlyDrawn, Begun, Renewal
  <2>. QED
    BY <2>5, <2>6 DEF InkInv
<1>9. CASE /\ t.kind = "loader" /\ t.what \in Lists
           /\ Relisted(Now, Now', t.view, t.what) /\ cancelled' = cancelled
  <2>1. On(Homed, StrokesOf(t.what.list), t.what.of)
    BY <1>2, <1>9 DEF InkInv, OnPages, OnPosts
  <2>2. Now'.cancelled = Now.cancelled
    BY <1>9 DEF Now
  <2>3. OnPages(Homed, Now', P, running, doc)
    BY <1>2, <1>4, <1>6, <1>9, <2>1, <2>2, RelistedOn
  <2>4. OnPages(Homed', Now', posts', running', doc')
    BY <1>1, <1>6, <2>3
  <2>5. OnlyDrawn(Now', cur', mode')
    BY <1>1, <1>2, <1>9 DEF InkInv, OnlyDrawn, Relisted, SameInk
  <2>. QED
    BY <2>4, <2>5 DEF InkInv
<1>. QED
  BY <1>7, <1>8, <1>9, DeliverIs DEF t

LEMMA StartInk ==
  ASSUME TasksInv, InkInv, Start
  PROVE  InkInv'
<1>. DEFINE t == Head(queue)
<1>1. /\ running = None /\ queue # <<>> /\ t \in Jobs /\ t.view \in Views
      /\ queue' = Tail(queue)
      /\ UNCHANGED <<views, doc, posts, misled>> /\ UNCHANGED <<home, drawn, cur, mode, child>>
      /\ \/ /\ t.id \in cancelled /\ cancelled' = cancelled \ {t.id} /\ running' = None
         \/ /\ t.id \notin cancelled /\ cancelled' = cancelled
            /\ running'.what = t.what
            /\ running'.kind = t.kind /\ running'.from = views[t.view].page
  BY StartIs DEF NotUI
<1>2. /\ queue \in Seq(Jobs) /\ Distinct(queue, posts, running)
  BY TasksInvTypes, NowIs DEF TasksInv, TasksGood
<1>3. /\ t = queue[1] /\ 1 \in DOMAIN queue
      /\ \A i \in DOMAIN queue' : i + 1 \in DOMAIN queue /\ queue'[i] = queue[i + 1] /\ i + 1 # 1
  <2>1. /\ t = queue[1] /\ 1 \in DOMAIN queue
        /\ \A i \in DOMAIN Tail(queue) : i \in Nat /\ i > 0 /\ i + 1 \in DOMAIN queue
                                         /\ Tail(queue)[i] = queue[i + 1]
    BY <1>1, <1>2, TailItems
  <2>2. \A i \in Nat : i > 0 => i + 1 # 1
    OBVIOUS
  <2>. QED
    BY <1>1, <2>1, <2>2
<1>. HIDE DEF t
<1>4. /\ \A p \in Pages : On(Homed', StrokesOf(doc[p]), p)
      /\ OnQueue(Homed', Now) /\ OnPosts(Homed', posts)
  BY <1>1, StillOn
<1>5. \A i \in DOMAIN queue' : queue'[i].id # t.id
  BY <1>2, <1>3 DEF Distinct
<1>6. OnQueue(Homed', Now')
  <2>1. Now'.queue = queue' /\ Now'.cancelled = cancelled' /\ Now'.views = views
    BY <1>1 DEF Now
  <2>2. ASSUME NEW i \in DOMAIN queue', queue'[i].kind = "ink", queue'[i].id \notin cancelled'
        PROVE  On(Homed', queue'[i].what, views[queue'[i].view].page)
    <3>1. queue'[i].id \notin cancelled
      BY <1>1, <1>5, <2>2
    <3>. QED
      BY <1>3, <1>4, <2>2, <3>1, NowIs DEF OnQueue
  <2>. QED
    BY <2>1, <2>2 DEF OnQueue
<1>7. running' # None /\ running'.kind = "ink" => On(Homed', running'.what, running'.from)
  <2>1. ASSUME running' # None, running'.kind = "ink"
        PROVE  On(Homed', running'.what, running'.from)
    <3>1. t.id \notin cancelled /\ t.kind = "ink"
      BY <1>1, <2>1
    <3>2. On(Homed', t.what, views[t.view].page)
      BY <1>3, <1>4, <3>1, NowIs DEF OnQueue
    <3>. QED
      BY <1>1, <2>1, <3>1, <3>2
  <2>. QED
    BY <2>1
<1>. QED
  BY <1>1, <1>4, <1>6, <1>7, BackgroundInk

LEMMA ReadPageInk ==
  ASSUME TasksInv, InkInv, ReadPage
  PROVE  InkInv'
<1>1. /\ running # None
      /\ TaskStep /\ UNCHANGED <<doc, posts, misled>>
      /\ Stepped(running, running', "core", views[running.view].page)
  BY ReadPageIs
<1>2. UNCHANGED <<home, drawn, cur, mode, views, child>> /\ Now' = Now
  BY <1>1 DEF TaskStep, NotUI, Now
<1>3. running'.kind = running.kind /\ running'.what = running.what /\ running'.from = running.from
  BY <1>1 DEF Stepped
<1>. QED
  BY <1>1, <1>2, <1>3, StillOn, BackgroundInk

LEMMA GetAnnotationsInk ==
  ASSUME TasksInv, InkInv, GetAnnotations
  PROVE  InkInv'
<1>. DEFINE p == views[running.view].page
            a == [of |-> p, list |-> doc[p], deletions |-> deletions[p]]
            x == [id |-> running.id, kind |-> "loader", view |-> running.view, what |-> a]
<1>1. /\ running' = None /\ p \in Pages /\ x \in Results
      /\ TaskStep /\ UNCHANGED <<doc, misled>>
      /\ posts' = Append(posts, x)
  BY GetAnnotationsIs
<1>2. UNCHANGED <<home, drawn, cur, mode, views, child>> /\ Now' = Now
  BY <1>1 DEF TaskStep, NotUI, Now
<1>3. x.what.list = doc[p] /\ x.what.of = p
  OBVIOUS
<1>. HIDE DEF x, p
<1>4. /\ \A q \in Pages : On(Homed', StrokesOf(doc[q]), q)
      /\ OnQueue(Homed', Now) /\ OnPosts(Homed', posts)
  BY <1>1, <1>2, StillOn
<1>5. OnPosts(Homed', posts')
  <2>1. /\ DOMAIN posts' = DOMAIN posts \cup {Len(posts) + 1}
        /\ \A i \in DOMAIN posts : posts'[i] = posts[i]
        /\ posts'[Len(posts) + 1] = x
    BY <1>1, TasksInvTypes, AppendItems
  <2>. QED
    BY <1>1, <1>3, <1>4, <2>1 DEF OnPosts
<1>. QED
  BY <1>1, <1>2, <1>4, <1>5, BackgroundInk

LEMMA DeleteAnnotationInk ==
  ASSUME TasksInv, InkInv, DeleteAnnotation
  PROVE  InkInv'
<1>. DEFINE p == running.page
            i == running.what.at
            x == [id |-> running.id, kind |-> "del", view |-> running.view, what |-> None]
<1>1. /\ running' = None /\ p \in Pages /\ x \in Results
      /\ TaskStep /\ posts' = Append(posts, x)
      /\ \/ i \notin DOMAIN doc[p] /\ UNCHANGED <<doc, deletions, misled>>
         \/ /\ i \in DOMAIN doc[p]
            /\ doc' = [doc EXCEPT ![p] = RemoveAt(doc[p], i)]
            /\ misled' = IF running.what.since = deletions[p] /\ running.what.of = p
                         THEN misled ELSE misled \cup doc[p][i]
  BY DeleteAnnotationIs
<1>2. UNCHANGED <<home, drawn, cur, mode, views, child>> /\ Now' = Now /\ misled \subseteq misled'
  BY <1>1 DEF TaskStep, NotUI, Now
<1>3. x.kind # "loader"
  OBVIOUS
<1>. HIDE DEF x, p, i
<1>4. /\ \A q \in Pages : On(Homed', StrokesOf(doc[q]), q)
      /\ OnQueue(Homed', Now) /\ OnPosts(Homed', posts)
  BY <1>1, <1>2, StillOn
<1>5. OnPosts(Homed', posts')
  <2>1. /\ DOMAIN posts' = DOMAIN posts \cup {Len(posts) + 1}
        /\ \A j \in DOMAIN posts : posts'[j] = posts[j]
        /\ posts'[Len(posts) + 1] = x
    BY <1>1, TasksInvTypes, AppendItems
  <2>. QED
    BY <1>3, <1>4, <2>1 DEF OnPosts
<1>6. \A q \in Pages : On(Homed', StrokesOf(doc'[q]), q)
  <2>1. CASE UNCHANGED doc
    BY <1>4, <2>1
  <2>2. CASE i \in DOMAIN doc[p] /\ doc' = [doc EXCEPT ![p] = RemoveAt(doc[p], i)]
    <3>1. doc \in [Pages -> Seq(SUBSET Strokes)] /\ doc[p] \in Seq(SUBSET Strokes)
      BY <1>1, TasksTypes
    <3>2. StrokesOf(RemoveAt(doc[p], i)) \subseteq StrokesOf(doc[p])
      <4>1. \A j \in DOMAIN RemoveAt(doc[p], i) : \E k \in DOMAIN doc[p] : RemoveAt(doc[p], i)[j] = doc[p][k]
        BY <2>2, <3>1, RemoveAtItems
      <4>. QED
        BY <4>1, StrokesIn
    <3>3. doc'[p] = RemoveAt(doc[p], i) /\ \A q \in Pages : q # p => doc'[q] = doc[q]
      BY <1>1, <2>2, <3>1
    <3>. QED
      BY <1>1, <1>4, <3>2, <3>3 DEF On
  <2>. QED
    BY <1>1, <2>1, <2>2
<1>. QED
  BY <1>1, <1>2, <1>4, <1>5, <1>6, BackgroundInk

LEMMA AddInkInk ==
  ASSUME TasksInv, InkInv, AddInkAnnotation
  PROVE  InkInv'
<1>. DEFINE p == running.page
            d == running.what
<1>1. /\ running # None /\ running.kind = "ink"
      /\ TaskStep /\ UNCHANGED posts
      /\ p \in Pages /\ d \in SUBSET Strokes
      /\ doc' = [doc EXCEPT ![p] = Append(doc[p], d)]
      /\ misled' = IF p # running.from THEN misled \cup d ELSE misled
      /\ Stepped(running, running', "clear", p)
  BY AddInkIs
<1>2. /\ UNCHANGED <<home, drawn, cur, mode, views, child>> /\ Now' = Now /\ misled \subseteq misled'
  BY <1>1 DEF TaskStep, NotUI, Now
<1>3. /\ \A q \in Pages : On(Homed', StrokesOf(doc[q]), q)
      /\ OnQueue(Homed', Now) /\ OnPosts(Homed', posts)
      /\ On(Homed', d, running.from) /\ On(Homed, d, running.from)
  BY <1>1, <1>2, StillOn
<1>4. running'.kind = running.kind /\ running'.what = d /\ running'.from = running.from
  BY <1>1 DEF Stepped
<1>. HIDE DEF p, d
<1>5. On(Homed', d, p)
  <2>1. ASSUME NEW x \in d PROVE <<x, p>> \in Homed'
    <3>1. x <= drawn /\ x \in Strokes
      BY <1>1, <1>3, <2>1 DEF On, Homed
    <3>2. CASE p = running.from
      BY <1>3, <2>1, <3>2 DEF On
    <3>3. CASE p # running.from
      BY <1>1, <1>2, <2>1, <3>1, <3>3 DEF Homed
    <3>. QED
      BY <3>2, <3>3
  <2>. QED
    BY <2>1 DEF On
<1>6. \A q \in Pages : On(Homed', StrokesOf(doc'[q]), q)
  <2>1. doc \in [Pages -> Seq(SUBSET Strokes)] /\ doc[p] \in Seq(SUBSET Strokes)
    BY <1>1, TasksTypes
  <2>2. \A x : x \in StrokesOf(Append(doc[p], d)) <=> x \in d \/ x \in StrokesOf(doc[p])
    BY <1>1, <2>1, StrokesOfAppend
  <2>3. doc'[p] = Append(doc[p], d) /\ \A q \in Pages : q # p => doc'[q] = doc[q]
    BY <1>1, <2>1
  <2>. QED
    BY <1>1, <1>3, <1>5, <2>2, <2>3 DEF On
<1>. QED
  BY <1>1, <1>2, <1>3, <1>4, <1>6, BackgroundInk

LEMMA ClearInk ==
  ASSUME TasksInv, InkInv, ClearAnnotations
  PROVE  InkInv'
<1>. DEFINE v == running.view
<1>1. /\ running # None /\ v \in Views
      /\ UNCHANGED <<doc, posts, misled>> /\ UNCHANGED <<home, drawn, cur, mode, child>>
      /\ Relisted(Now, Now', v, None)
      /\ cancelled \subseteq cancelled'
      /\ Stepped(running, running', "reload", views[v].loader)
  BY ClearIs DEF NotUI
<1>2. running' # None /\ running'.kind = running.kind /\ running'.what = running.what
      /\ running'.from = running.from
  <2>1. running' \in Started
    BY <1>1, RunningIs DEF Stepped
  <2>. QED
    BY <1>1, <2>1, PageViewsAssumption DEF Stepped
<1>3. Now \in States /\ Now.cancelled \subseteq Now'.cancelled
  BY <1>1, TasksInvTypes DEF Now
<1>. HIDE DEF v
<1>4. OnPages(Homed, Now', posts, running, doc)
  BY <1>1, <1>3, RelistedOn DEF InkInv
<1>5. OnPages(Homed, Now', posts', running', doc') /\ Homed' = Homed
  BY <1>1, <1>2, <1>4 DEF OnPages, Homed
<1>6. OnPages(Homed', Now', posts', running', doc')
  BY <1>5
<1>7. OnlyDrawn(Now', cur', mode')
  BY <1>1 DEF InkInv, OnlyDrawn, Relisted, SameInk
<1>. QED
  BY <1>6, <1>7 DEF InkInv

LEMMA ReloadInk ==
  ASSUME TasksInv, InkInv, Reload
  PROVE  InkInv'
<1>. DEFINE v == running.view
<1>1. /\ running # None /\ running' = None /\ v \in Views /\ Now' \in States
      /\ UNCHANGED <<doc, posts, misled>> /\ UNCHANGED <<home, drawn, cur, mode, child>>
      /\ cancelled' = cancelled \ {running.id}
  BY ReloadIs DEF NotUI
<1>2. PICK id \in Nat :
         /\ queue' = Append(queue, Job(id, "loader", v, None))
         /\ \A w \in Views : w # v => views'[w] = views[w]
         /\ SameShow(views'[v], views[v]) /\ SameInk(views'[v], views[v])
         /\ SameLists(views'[v], views[v])
  BY ReloadIs
<1>3. /\ queue \in Seq(Jobs) /\ Distinct(queue, posts, running)
  BY TasksInvTypes, NowIs DEF TasksInv, TasksGood
<1>4. /\ DOMAIN queue' = DOMAIN queue \cup {Len(queue) + 1}
      /\ \A i \in DOMAIN queue : queue'[i] = queue[i]
      /\ queue'[Len(queue) + 1].kind # "ink"
  <2>1. Job(id, "loader", v, None) \in Jobs /\ Job(id, "loader", v, None).kind # "ink"
    BY <1>1 DEF Job, Jobs
  <2>. QED
    BY <1>2, <1>3, <2>1, AppendItems
<1>. HIDE DEF v
<1>5. /\ \A p \in Pages : On(Homed, StrokesOf(doc[p]), p)
      /\ \A w \in Views : OnView(Homed, views[w])
      /\ OnQueue(Homed, Now) /\ OnPosts(Homed, posts)
  BY NowIs DEF InkInv, OnPages
<1>6. /\ \A w \in Views : /\ views'[w].page = views[w].page
                          /\ views'[w].annots = views[w].annots
                          /\ views'[w].drawing = views[w].drawing
                          /\ views'[w].history = views[w].history
  BY <1>2 DEF SameShow, SameInk, SameLists
<1>7. Now'.views = views' /\ Now'.queue = queue' /\ Now'.cancelled = cancelled' /\ Now'.child = Now.child
  BY <1>1 DEF Now
<1>8. OnQueue(Homed, Now')
  <2>1. ASSUME NEW i \in DOMAIN queue', queue'[i].kind = "ink", queue'[i].id \notin cancelled'
        PROVE  On(Homed, queue'[i].what, views'[queue'[i].view].page)
    <3>1. i \in DOMAIN queue /\ queue'[i] = queue[i] /\ queue[i] \in Jobs /\ queue[i].view \in Views
      BY <1>3, <1>4, <2>1, JobType
    <3>2. queue[i].id # running.id
      BY <1>1, <1>3, <3>1 DEF Distinct
    <3>3. queue[i].id \notin cancelled
      BY <1>1, <2>1, <3>1, <3>2
    <3>. QED
      BY <1>5, <1>6, <2>1, <3>1, <3>3, NowIs DEF OnQueue
  <2>. QED
    BY <1>7, <2>1 DEF OnQueue
<1>9. \A w \in Views : OnView(Homed, Now'.views[w])
  BY <1>5, <1>6, <1>7 DEF OnView
<1>10. OnPages(Homed, Now', posts', running', doc')
  BY <1>1, <1>5, <1>8, <1>9 DEF OnPages
<1>11. OnPages(Homed', Now', posts', running', doc')
  BY <1>1, <1>10 DEF Homed
<1>12. OnlyDrawn(Now', cur', mode')
  BY <1>1, <1>6, <1>7, NowIs DEF InkInv, OnlyDrawn
<1>. QED
  BY <1>11, <1>12 DEF InkInv

\* Each stroke of the file is of the page it was read from.
LEMMA InitHomed ==
  ASSUME Init
  PROVE  \A p \in Pages : On(Homed, StrokesOf(doc[p]), p)
<1>1. /\ doc = Saved /\ drawn \in 0..MaxStrokes
      /\ 1..drawn = UNION {StrokesOf(Saved[p]) : p \in Pages}
      /\ home = [x \in Strokes |->
                   IF x <= drawn THEN CHOOSE p \in Pages : x \in StrokesOf(Saved[p])
                   ELSE 0]
  BY DEF Init
<1>2. ASSUME NEW p \in Pages, NEW x \in StrokesOf(Saved[p])
      PROVE  <<x, p>> \in Homed
  <2>1. x \in 1..drawn
    BY <1>1, <1>2
  <2>2. x \in Strokes /\ x <= drawn
    BY <1>1, <2>1, PageViewsAssumption DEF Strokes
  <2>3. home[x] = CHOOSE q \in Pages : x \in StrokesOf(Saved[q])
    BY <1>1, <2>2
  <2>4. home[x] \in Pages /\ x \in StrokesOf(Saved[home[x]])
    BY <1>2, <2>3
  <2>5. home[x] = p
    BY <1>2, <2>4, PageViewsAssumption
  <2>. QED
    BY <2>2, <2>5 DEF Homed
<1>. QED
  BY <1>1, <1>2 DEF On

LEMMA InitInk ==
  ASSUME Init
  PROVE  InkInv
<1>1. /\ 0 \in Pages /\ posts = <<>> /\ running = None
      /\ posts \in Seq(Results) /\ running \in Started \cup {None} /\ late \in BOOLEAN
  BY InitIs
<1>2. PICK b \in States :
              /\ b.queue = <<>>
              /\ \A p \in Pages : b.child[p] = None
              /\ \A v \in Views : b.views[v] = FreshView
              /\ TasksGood(b, posts, running, late) /\ Placed(b)
              /\ Now = OnLayout(b, 0)
  BY InitIs
<1>. DEFINE T == {x \in States : /\ TasksGood(x, posts, running, late)
                                 /\ OnPages(Homed, x, posts, running, doc) /\ Undrawn(x)}
<1>3. /\ FreshView.annots = None /\ FreshView.drawing = None /\ FreshView.history = <<>>
  BY DEF FreshView
<1>4. Undrawn(b) /\ \A v \in Views : OnView(Homed, b.views[v])
  BY <1>2, <1>3, NoStrokes DEF Undrawn, OnView, On
<1>5. OnQueue(Homed, b) /\ OnPosts(Homed, posts)
  <2>1. DOMAIN <<>> = {}
    OBVIOUS
  <2>. QED
    BY <1>1, <1>2, <2>1 DEF OnQueue, OnPosts
<1>6. OnPages(Homed, b, posts, running, doc)
  BY <1>1, <1>4, <1>5, InitHomed DEF OnPages
<1>7. OnLayout(b, 0) \in T
  <2>1. \A r \in States : Removal(b, r, Live(b.queue, posts, running), 0) => r \in T
    <3>1. SUFFICES ASSUME NEW r \in States, Removal(b, r, Live(b.queue, posts, running), 0)
                   PROVE  r \in T
      OBVIOUS
    <3>2. TasksGood(r, posts, running, late)
      BY <1>1, <1>2, <3>1, RemovalTasksGood
    <3>3. OnPages(Homed, r, posts, running, doc) /\ Undrawn(r)
      BY <1>1, <1>2, <1>4, <1>6, <3>1, RemovalOn
    <3>. QED
      BY <3>1, <3>2, <3>3
  <2>2. \A x \in T, y \in States, v \in Views, q \in Pages, id \in Nat :
          Creation(x, y, Live(x.queue, posts, running), v, q, id) => y \in T
    <3>1. SUFFICES ASSUME NEW x \in T, NEW y \in States, NEW v \in Views, NEW q \in Pages,
                          NEW id \in Nat, Creation(x, y, Live(x.queue, posts, running), v, q, id)
                   PROVE  y \in T
      OBVIOUS
    <3>2. TasksGood(y, posts, running, late)
      BY <1>1, <3>1, CreationTasksGood
    <3>3. OnPages(Homed, y, posts, running, doc) /\ Undrawn(y)
      BY <1>1, <3>1, CreationOn
    <3>. QED
      BY <3>1, <3>2, <3>3
  <2>3. \A x \in T : Placed(x) /\ Distinct(x.queue, posts, running)
    BY DEF TasksGood
  <2>. HIDE DEF T
  <2>. QED
    BY <1>1, <1>2, <2>1, <2>2, <2>3, LayoutKeeps
<1>8. OnPages(Homed, Now, posts, running, doc) /\ Undrawn(Now)
  BY <1>2, <1>7
<1>. QED
  BY <1>8 DEF InkInv, OnlyDrawn, Undrawn

LEMMA NextInk ==
  ASSUME TasksInv, InkInv, [Next]_vars
  PROVE  InkInv'
<1>1. ASSUME NEW p \in Pages, MoveTo(p)
      PROVE  InkInv'
  BY <1>1, MoveToInk
<1>2. ASSUME NEW S \in SUBSET Strokes, Erase(S)
      PROVE  InkInv'
  BY <1>2, EraseInk
<1>3. CASE User
  BY <1>1, <1>2, <1>3, TapInk, DeselectInk, DeleteInk, EditInk, DrawInk, StrokeInk,
     UndoInk, CancelDrawInk, SaveDrawInk DEF User
<1>4. CASE Deliver
  BY <1>4, DeliverInk
<1>5. CASE Background
  BY <1>5, StartInk, ReadPageInk, GetAnnotationsInk, DeleteAnnotationInk, AddInkInk,
     ClearInk, ReloadInk DEF Background
<1>6. CASE UNCHANGED vars
  <2>1. Now' = Now /\ UNCHANGED <<posts, running, cur, mode, doc, home, drawn, misled>>
    BY <1>6 DEF vars, uivars, histories, Now
  <2>2. Homed' = Homed
    BY <2>1 DEF Homed
  <2>3. OnPages(Homed', Now', posts', running', doc') /\ OnlyDrawn(Now', cur', mode')
    BY <2>1, <2>2 DEF InkInv
  <2>. QED
    BY <2>3 DEF InkInv
<1>. QED
  BY <1>3, <1>4, <1>5, <1>6 DEF Next

LEMMA InkHolds == Spec => []InkInv
<1>1. Init => InkInv
  BY InitInk
<1>2. TasksOK /\ InkInv /\ [Next]_vars => InkInv'
  BY NextInk DEF TasksOK
<1>. QED
  BY <1>1, <1>2, TasksHold, PTL DEF Spec

\* Ink is added to the page it was drawn on, whatever pages its view is used
\* for before AddInkAnnotationTask reads the number of the page.
THEOREM InkStaysOnPage == Spec => []InkOnItsPage
<1>1. InkInv => InkOnItsPage
  BY DEF InkInv, OnPages, On, Homed, InkOnItsPage
<1>. QED
  BY <1>1, InkHolds, PTL

-----------------------------------------------------------------------------
(* The age of lists and selections.                                        *)

\* Lists and selections go, or are handed to tasks.
Lesser(s, r) ==
  /\ \A v \in Views : /\ r.views[v].annots \in {s.views[v].annots, None}
                      /\ r.views[v].sel \in {s.views[v].sel, None}
  /\ \A i \in DOMAIN r.queue : r.queue[i].kind = "del" =>
       \/ \E j \in DOMAIN s.queue : r.queue[i] = s.queue[j]
       \/ \E v \in Views : s.views[v].sel # None /\ r.queue[i].what = s.views[v].sel

LEMMA LesserTrans ==
  ASSUME NEW s, NEW r, NEW q, Lesser(s, r), Lesser(r, q)
  PROVE  Lesser(s, q)
<1>1. \A v \in Views : /\ q.views[v].annots \in {s.views[v].annots, None}
                       /\ q.views[v].sel \in {s.views[v].sel, None}
  BY DEF Lesser
<1>2. ASSUME NEW i \in DOMAIN q.queue, q.queue[i].kind = "del"
      PROVE  \/ \E j \in DOMAIN s.queue : q.queue[i] = s.queue[j]
             \/ \E v \in Views : s.views[v].sel # None /\ q.queue[i].what = s.views[v].sel
  <2>1. CASE \E j \in DOMAIN r.queue : q.queue[i] = r.queue[j]
    BY <1>2, <2>1 DEF Lesser
  <2>2. CASE \E v \in Views : r.views[v].sel # None /\ q.queue[i].what = r.views[v].sel
    BY <2>2 DEF Lesser
  <2>. QED
    BY <1>2, <2>1, <2>2 DEF Lesser
<1>. QED
  BY <1>1, <1>2 DEF Lesser

LEMMA LesserDated ==
  ASSUME NEW s, NEW r, NEW P, NEW R, NEW D, NEW N, Dated(s, P, R, D, N), Lesser(s, r)
  PROVE  Dated(r, P, R, D, N)
<1>1. History(r, P, R, D, N)
  <2>1. \A v \in Views : /\ r.views[v].annots # None => Made(r.views[v].annots, D, N)
                         /\ r.views[v].sel # None => Taken(r.views[v].sel, D, N)
    BY DEF Dated, History, Lesser
  <2>2. \A i \in DOMAIN r.queue : r.queue[i].kind = "del" => Taken(r.queue[i].what, D, N)
    BY DEF Dated, History, Lesser
  <2>. QED
    BY <2>1, <2>2 DEF Dated, History
<1>2. Order(r, P)
  <2>1. \A v \in Views : /\ r.views[v].annots \in {s.views[v].annots, None}
                         /\ r.views[v].sel \in {s.views[v].sel, None}
    BY DEF Lesser
  <2>2. Order(s, P)
    BY DEF Dated
  <2>3. \A v \in Views : r.views[v].sel # None /\ r.views[v].annots # None =>
          NotLater(r.views[v].sel.since, r.views[v].sel.of, r.views[v].annots)
    BY <2>1, <2>2 DEF Order
  <2>4. \A v \in Views : \A i \in DOMAIN P : P[i].kind = "loader" => After(r.views[v], P[i].what)
    BY <2>1, <2>2 DEF Order, After
  <2>. QED
    BY <2>2, <2>3, <2>4 DEF Order
<1>. QED
  BY <1>1, <1>2 DEF Dated

LEMMA EditedLesser ==
  ASSUME NEW s, NEW r, NEW v \in Views, NEW e, NEW d, NEW h, Edited(s, r, v, e, d, h),
         e \in {s.views[v].sel, None}
  PROVE  Lesser(s, r)
BY DEF Edited, Lesser

LEMMA BegunLesser ==
  ASSUME NEW s \in States, NEW r, NEW v \in Views, NEW k, NEW id, NEW t, NEW a, NEW e, NEW d, NEW h,
         Begun(s, r, v, k, id, t, a, e, d, h),
         a \in {s.views[v].annots, None}, e \in {s.views[v].sel, None},
         k = "del" => t = s.views[v].sel /\ t # None
  PROVE  Lesser(s, r)
<1>. DEFINE j == Job(id, k, v, t)
            m == Len(s.queue) + 1
<1>1. /\ r.queue = Append(s.queue, j) /\ r \in States
      /\ \A w \in Views : w # v => r.views[w] = s.views[w]
      /\ r.views[v].annots = a /\ r.views[v].sel = e
  BY DEF Begun, Renewal
<1>2. j.kind = k /\ j.what = t
  BY DEF Job
<1>. HIDE DEF j
<1>3. /\ DOMAIN r.queue = DOMAIN s.queue \cup {m}
      /\ \A i \in DOMAIN s.queue : r.queue[i] = s.queue[i]
      /\ r.queue[m] = j
  <2>1. s.queue \in Seq(Jobs) /\ r.queue \in Seq(Jobs)
    BY <1>1 DEF States
  <2>. QED
    BY <1>1, <2>1
<1>. HIDE DEF m
<1>. QED
  BY <1>1, <1>2, <1>3 DEF Lesser

LEMMA RemovalLesser ==
  ASSUME NEW s, NEW r, NEW L, NEW c, Removal(s, r, L, c)
  PROVE  Lesser(s, r)
BY DEF Removal, SameLists, Lesser

LEMMA CreationLesser ==
  ASSUME NEW s \in States, NEW r \in States, NEW L, NEW v \in Views, NEW p \in Pages, NEW id \in Nat,
         Creation(s, r, L, v, p, id)
  PROVE  Lesser(s, r)
<1>. DEFINE j == Job(id, "loader", v, None)
            m == Len(s.queue) + 1
<1>1. /\ r.queue = Append(s.queue, j)
      /\ \A w \in Views : w # v => r.views[w] = s.views[w]
      /\ r.views[v].annots = None /\ r.views[v].sel \in {s.views[v].sel, None}
  BY DEF Creation
<1>2. j.kind = "loader"
  BY DEF Job
<1>. HIDE DEF j
<1>3. /\ DOMAIN r.queue = DOMAIN s.queue \cup {m}
      /\ \A i \in DOMAIN s.queue : r.queue[i] = s.queue[i]
      /\ r.queue[m] = j
  <2>1. s.queue \in Seq(Jobs) /\ r.queue \in Seq(Jobs)
    BY DEF States
  <2>. QED
    BY <1>1, <2>1
<1>. HIDE DEF m
<1>. QED
  BY <1>1, <1>2, <1>3 DEF Lesser

\* Annotations are added.
LEMMA GrownDated ==
  ASSUME NEW s \in States, NEW P \in Seq(Results), NEW R, NEW D, NEW N, Dated(s, P, R, D, N),
         NEW E, \A p \in Pages : \A i \in DOMAIN D[p] : i \in DOMAIN E[p] /\ E[p][i] = D[p][i],
         R # None /\ R.kind = "del" => R.what \in Selections
  PROVE  Dated(s, P, R, E, N)
<1>1. ASSUME NEW a \in Lists, Made(a, D, N)
      PROVE  Made(a, E, N)
  BY <1>1 DEF Made, Lists
<1>2. ASSUME NEW e \in Selections, Taken(e, D, N)
      PROVE  Taken(e, E, N)
  BY <1>2 DEF Taken, Selections
<1>3. \A v \in Views : /\ s.views[v].annots # None => s.views[v].annots \in Lists
                       /\ s.views[v].sel # None => s.views[v].sel \in Selections
  BY FieldsOf DEF States
<1>4. \A i \in DOMAIN P : P[i].kind = "loader" => P[i].what \in Lists
  BY ResultType
<1>5. \A i \in DOMAIN s.queue : s.queue[i].kind = "del" => s.queue[i].what \in Selections
  BY JobType DEF States
<1>. QED
  BY <1>1, <1>2, <1>3, <1>4, <1>5 DEF Dated, History

\* An annotation of the page p is deleted.
LEMMA DeletedDated ==
  ASSUME NEW s \in States, NEW P \in Seq(Results), NEW R, NEW D, NEW N \in [Pages -> Nat],
         Dated(s, P, R, D, N), NEW p \in Pages,
         NEW E, \A q \in Pages : q # p => E[q] = D[q],
         NEW M, M = [N EXCEPT ![p] = N[p] + 1],
         R # None /\ R.kind = "del" => R.what \in Selections
  PROVE  Dated(s, P, R, E, M)
<1>0. /\ M[p] = N[p] + 1 /\ N[p] \in Nat
      /\ \A q \in Pages : q # p => M[q] = N[q]
  OBVIOUS
<1>1. ASSUME NEW a \in Lists, Made(a, D, N)
      PROVE  Made(a, E, M)
  <2>1. a.of \in Pages /\ a.deletions \in Nat
    BY DEF Lists
  <2>2. CASE a.of = p
    BY <1>0, <1>1, <2>1, <2>2 DEF Made
  <2>3. CASE a.of # p
    BY <1>0, <1>1, <2>1, <2>3 DEF Made
  <2>. QED
    BY <2>2, <2>3
<1>2. ASSUME NEW e \in Selections, Taken(e, D, N)
      PROVE  Taken(e, E, M)
  <2>1. e.of \in Pages /\ e.since \in Nat
    BY DEF Selections
  <2>2. CASE e.of = p
    BY <1>0, <1>2, <2>1, <2>2 DEF Taken
  <2>3. CASE e.of # p
    BY <1>0, <1>2, <2>1, <2>3 DEF Taken
  <2>. QED
    BY <2>2, <2>3
<1>3. \A v \in Views : /\ s.views[v].annots # None => s.views[v].annots \in Lists
                       /\ s.views[v].sel # None => s.views[v].sel \in Selections
  BY FieldsOf DEF States
<1>4. \A i \in DOMAIN P : P[i].kind = "loader" => P[i].what \in Lists
  BY ResultType
<1>5. \A i \in DOMAIN s.queue : s.queue[i].kind = "del" => s.queue[i].what \in Selections
  BY JobType DEF States
<1>. QED
  BY <1>1, <1>2, <1>3, <1>4, <1>5 DEF Dated, History

\* What the user does, but for choosing an annotation, leaves fewer lists and
\* selections.
LEMMA LesserStep ==
  ASSUME DatedInv, Idly, Lesser(Now, Now')
  PROVE  DatedInv'
<1>. DEFINE r == Now'
<1>1. Dated(Now, posts, running, doc, deletions)
  BY DEF DatedInv
<1>2. Lesser(Now, r)
  OBVIOUS
<1>. HIDE DEF r
<1>3. Dated(r, posts, running, doc, deletions)
  BY <1>1, <1>2, LesserDated
<1>4. posts' = posts /\ running' = running /\ doc' = doc /\ deletions' = deletions
  BY DEF Idly
<1>5. Dated(Now', posts', running', doc', deletions')
  BY <1>3, <1>4 DEF r
<1>. QED
  BY <1>5 DEF DatedInv

LEMMA LesserRefl == \A s : Lesser(s, s)
BY DEF Lesser

LEMMA TapDated ==
  ASSUME TasksInv, DatedInv, Tap
  PROVE  DatedInv'
<1>. DEFINE a == V.annots
<1>1. a # None /\ a \in Lists /\ Idly
  BY TapIs
<1>2. PICK i \in DOMAIN a.list : LET e == [at |-> i, annot |-> a.list[i],
                                           of |-> a.of, since |-> a.deletions]
                                 IN  Edited(Now, Now', Selected, e, V.drawing, V.history)
  BY TapIs
<1>. DEFINE e == [at |-> i, annot |-> a.list[i], of |-> a.of, since |-> a.deletions]
<1>3. Edited(Now, Now', Selected, e, V.drawing, V.history)
  BY <1>2
<1>4. e.at = i /\ e.annot = a.list[i] /\ e.of = a.of /\ e.since = a.deletions
  OBVIOUS
<1>5. Selected \in Views /\ a = Now.views[Selected].annots
  BY SelectedIs
<1>6. History(Now, posts, running, doc, deletions) /\ Order(Now, posts)
  BY DEF DatedInv, Dated
<1>. HIDE DEF e, a
<1>7. Taken(e, doc, deletions)
  BY <1>1, <1>4, <1>5, <1>6 DEF History, Made, Taken
<1>8. /\ \A w \in Views : w # Selected => Now'.views[w] = Now.views[w]
      /\ Now'.views[Selected].annots = a /\ Now'.views[Selected].sel = e
      /\ Now'.queue = Now.queue
  BY <1>3, <1>5 DEF Edited
<1>9. History(Now', posts, running, doc, deletions)
  BY <1>1, <1>5, <1>6, <1>7, <1>8 DEF History
<1>10. NotLater(e.since, e.of, a)
  BY <1>1, <1>4 DEF NotLater, Lists
<1>11. \A j \in DOMAIN posts : posts[j].kind = "loader" => After(Now'.views[Selected], posts[j].what)
  BY <1>1, <1>4, <1>5, <1>6, <1>8 DEF Order, After, NotLater
<1>12. Order(Now', posts)
  <2>1. \A v \in Views : Now'.views[v].sel # None /\ Now'.views[v].annots # None =>
          NotLater(Now'.views[v].sel.since, Now'.views[v].sel.of, Now'.views[v].annots)
    BY <1>6, <1>8, <1>10 DEF Order
  <2>2. \A v \in Views : \A j \in DOMAIN posts : posts[j].kind = "loader" =>
          After(Now'.views[v], posts[j].what)
    BY <1>6, <1>8, <1>11 DEF Order
  <2>. QED
    BY <1>6, <2>1, <2>2 DEF Order
<1>13. posts' = posts /\ running' = running /\ doc' = doc /\ deletions' = deletions
  BY <1>1 DEF Idly
<1>14. Dated(Now', posts', running', doc', deletions')
  BY <1>9, <1>12, <1>13 DEF Dated
<1>. QED
  BY <1>14 DEF DatedInv

LEMMA DeselectDated ==
  ASSUME TasksInv, DatedInv, Deselect
  PROVE  DatedInv'
BY DeselectIs, SelectedIs, EditedLesser, LesserStep

LEMMA DeleteDated ==
  ASSUME TasksInv, DatedInv, DeleteSelectedAnnotation
  PROVE  DatedInv'
<1>1. Idly /\ V.sel # None
  BY DeleteIs
<1>2. PICK id \in Nat : Begun(Now, Now', Selected, "del", id, V.sel,
                              V.annots, None, V.drawing, V.history)
  BY DeleteIs
<1>3. Lesser(Now, Now')
  BY <1>1, <1>2, TasksInvTypes, SelectedIs, BegunLesser
<1>. QED
  BY <1>1, <1>3, LesserStep

LEMMA EditDated ==
  ASSUME TasksInv, DatedInv, EditSelectedAnnotation
  PROVE  DatedInv'
<1>1. Idly /\ V.sel # None
  BY EditIs
<1>2. Now' = Now \/ \E id \in Nat : Begun(Now, Now', Selected, "del", id, V.sel, V.annots, None,
                                          V.annots.list[V.sel.at], V.history)
  BY EditIs
<1>3. Lesser(Now, Now')
  BY <1>1, <1>2, TasksInvTypes, SelectedIs, BegunLesser, LesserRefl
<1>. QED
  BY <1>1, <1>3, LesserStep

LEMMA DrawDated ==
  ASSUME TasksInv, DatedInv, Draw
  PROVE  DatedInv'
BY DrawIs, LesserRefl, LesserStep

LEMMA StrokeDated ==
  ASSUME TasksInv, DatedInv, Stroke
  PROVE  DatedInv'
BY StrokeIs, SelectedIs, EditedLesser, LesserStep

LEMMA EraseDated ==
  ASSUME TasksInv, DatedInv, NEW S \in SUBSET Strokes, Erase(S)
  PROVE  DatedInv'
BY EraseIs, SelectedIs, EditedLesser, LesserStep

LEMMA UndoDated ==
  ASSUME TasksInv, DatedInv, UndoDraw
  PROVE  DatedInv'
BY UndoIs, SelectedIs, EditedLesser, LesserStep

LEMMA CancelDrawDated ==
  ASSUME TasksInv, DatedInv, CancelDraw
  PROVE  DatedInv'
<1>1. Idly
  BY CancelDrawIs
<1>2. PICK h : h = <<>> /\ Edited(Now, Now', Selected, V.sel, None, h)
  BY CancelDrawIs
<1>. QED
  BY <1>1, <1>2, SelectedIs, EditedLesser, LesserStep

LEMMA SaveDrawDated ==
  ASSUME TasksInv, DatedInv, SaveDraw
  PROVE  DatedInv'
<1>1. Idly
  BY SaveDrawIs
<1>2. Now' = Now \/ \E id \in Nat : \E h :
        Begun(Now, Now', Selected, "ink", id, V.drawing, V.annots, V.sel, None, h)
  BY SaveDrawIs
<1>3. Lesser(Now, Now')
  <2>1. "ink" # "del"
    OBVIOUS
  <2>. QED
    BY <1>2, <2>1, TasksInvTypes, SelectedIs, BegunLesser, LesserRefl
<1>. QED
  BY <1>1, <1>3, LesserStep

LEMMA MoveToDated ==
  ASSUME TasksInv, DatedInv, NEW p \in Pages, MoveTo(p)
  PROVE  DatedInv'
<1>. DEFINE off == [Now EXCEPT !.views = [views EXCEPT ![Selected] = [V EXCEPT !.sel = None]]]
            s == OnLayout(off, p)
            T == {x \in States : TasksGood(x, posts, running, late) /\ Lesser(Now, x)}
<1>1. /\ UNCHANGED <<doc, deletions, running, posts>>
      /\ Edited(Now, off, Selected, None, V.drawing, V.history)
      /\ Becomes(s)
  BY MoveToIs
<1>. HIDE DEF off
<1>2. TasksGood(off, posts, running, late) /\ off \in States
  BY <1>1, EditedTasks, SelectedIs DEF Edited
<1>3. /\ posts \in Seq(Results) /\ running \in Started \cup {None} /\ late \in BOOLEAN
      /\ Now \in States /\ Selected \in Views
  BY TasksInvTypes, TasksTypes, SelectedIs
<1>4. Lesser(Now, off)
  BY <1>1, <1>3, EditedLesser
<1>5. s \in States /\ s \in T
  <2>1. \A r \in States : Removal(off, r, Live(off.queue, posts, running), p) => r \in T
    <3>1. SUFFICES ASSUME NEW r \in States, Removal(off, r, Live(off.queue, posts, running), p)
                   PROVE  r \in T
      OBVIOUS
    <3>2. TasksGood(r, posts, running, late)
      BY <1>2, <1>3, <3>1, RemovalTasksGood
    <3>3. Lesser(off, r)
      BY <3>1, RemovalLesser
    <3>4. Lesser(Now, r)
      BY <1>4, <3>3, LesserTrans
    <3>. QED
      BY <3>1, <3>2, <3>4
  <2>2. \A x \in T, y \in States, v \in Views, q \in Pages, id \in Nat :
          Creation(x, y, Live(x.queue, posts, running), v, q, id) => y \in T
    <3>1. SUFFICES ASSUME NEW x \in T, NEW y \in States, NEW v \in Views, NEW q \in Pages,
                          NEW id \in Nat, Creation(x, y, Live(x.queue, posts, running), v, q, id)
                   PROVE  y \in T
      OBVIOUS
    <3>2. TasksGood(y, posts, running, late)
      BY <1>3, <3>1, CreationTasksGood
    <3>3. Lesser(x, y)
      BY <3>1, CreationLesser
    <3>4. Lesser(Now, y)
      BY <3>3, LesserTrans
    <3>. QED
      BY <3>1, <3>2, <3>4
  <2>3. \A x \in T : Placed(x) /\ Distinct(x.queue, posts, running)
    BY DEF TasksGood
  <2>4. Placed(off)
    BY <1>2 DEF TasksGood
  <2>. HIDE DEF T
  <2>5. OnLayout(off, p) \in States /\ OnLayout(off, p) \in T
    BY <1>2, <1>3, <2>1, <2>2, <2>3, <2>4, LayoutKeeps
  <2>. QED
    BY <2>5
<1>. HIDE DEF s
<1>6. Now' = s
  BY <1>1, <1>5, BecomesIs
<1>7. Dated(s, posts, running, doc, deletions)
  BY <1>5, LesserDated DEF DatedInv
<1>8. Dated(Now', posts', running', doc', deletions')
  BY <1>1, <1>6, <1>7
<1>. QED
  BY <1>8 DEF DatedInv

LEMMA TailDated ==
  ASSUME NEW s, NEW P \in Seq(Results), NEW R, NEW D, NEW N, Dated(s, P, R, D, N), P # <<>>
  PROVE  Dated(s, Tail(P), R, D, N)
<1>. DEFINE Q == Tail(P)
<1>1. \A i \in DOMAIN Q : i \in Nat /\ i + 1 \in DOMAIN P /\ Q[i] = P[i + 1]
  BY TailItems
<1>2. \A i, j \in Nat : i < j => i + 1 < j + 1
  OBVIOUS
<1>. HIDE DEF Q
<1>3. History(s, Q, R, D, N)
  BY <1>1 DEF Dated, History
<1>4. Order(s, Q)
  <2>1. Order(s, P)
    BY DEF Dated
  <2>2. \A v \in Views : \A i \in DOMAIN Q : Q[i].kind = "loader" => After(s.views[v], Q[i].what)
    BY <1>1, <2>1 DEF Order
  <2>3. \A i, j \in DOMAIN Q : i < j /\ Q[i].kind = "loader" /\ Q[j].kind = "loader" =>
          NotLater(Q[i].what.deletions, Q[i].what.of, Q[j].what)
    BY <1>1, <1>2, <2>1 DEF Order
  <2>. QED
    BY <2>1, <2>2, <2>3 DEF Order
<1>. QED
  BY <1>3, <1>4 DEF Dated, Q

\* A list that has been loaded is shown.
LEMMA ShownDated ==
  ASSUME NEW s \in States, NEW P \in Seq(Results), NEW R, NEW D, NEW N, Dated(s, P, R, D, N),
         P # <<>>, NEW r, NEW v \in Views, Head(P).kind = "loader", Relisted(s, r, v, Head(P).what)
  PROVE  Dated(r, Tail(P), R, D, N)
<1>. DEFINE Q == Tail(P)
            a == Head(P).what
<1>1. /\ \A i \in DOMAIN Q : i \in Nat /\ i + 1 > 1 /\ i + 1 \in DOMAIN P /\ Q[i] = P[i + 1]
      /\ 1 \in DOMAIN P /\ P[1].what = a /\ P[1].kind = "loader"
  <2>1. /\ \A i \in DOMAIN Q : i \in Nat /\ i > 0 /\ i + 1 \in DOMAIN P /\ Q[i] = P[i + 1]
        /\ 1 \in DOMAIN P /\ P[1] = Head(P)
    BY TailItems
  <2>2. \A i \in Nat : i > 0 => i + 1 > 1
    OBVIOUS
  <2>. QED
    BY <2>1, <2>2
<1>2. Dated(s, Q, R, D, N)
  BY TailDated
<1>3. /\ \A w \in Views : w # v => r.views[w] = s.views[w]
      /\ r.views[v].sel = s.views[v].sel /\ r.views[v].annots = a /\ r.queue = s.queue
  BY DEF Relisted
<1>. HIDE DEF Q, a
<1>4. Made(a, D, N) /\ Order(s, P) /\ Order(s, Q)
  BY <1>1, <1>2 DEF Dated, History
<1>5. History(r, Q, R, D, N)
  BY <1>2, <1>3, <1>4 DEF Dated, History
<1>6. Order(r, Q)
  <2>1. s.views[v].sel # None => NotLater(s.views[v].sel.since, s.views[v].sel.of, a)
    BY <1>1, <1>4 DEF Order, After
  <2>2. \A i \in DOMAIN Q : Q[i].kind = "loader" => NotLater(a.deletions, a.of, Q[i].what)
    BY <1>1, <1>4 DEF Order
  <2>3. \A i \in DOMAIN Q : Q[i].kind = "loader" => After(r.views[v], Q[i].what)
    BY <1>3, <1>4, <2>2 DEF Order, After
  <2>4. \A w \in Views : \A i \in DOMAIN Q : Q[i].kind = "loader" => After(r.views[w], Q[i].what)
    BY <1>3, <1>4, <2>3 DEF Order
  <2>5. \A w \in Views : r.views[w].sel # None /\ r.views[w].annots # None =>
          NotLater(r.views[w].sel.since, r.views[w].sel.of, r.views[w].annots)
    BY <1>3, <1>4, <2>1 DEF Order
  <2>. QED
    BY <1>4, <2>4, <2>5 DEF Order
<1>. QED
  BY <1>5, <1>6 DEF Dated, Q

\* A result that is not a list, or is a new one, comes last.
LEMMA PostedDated ==
  ASSUME NEW s \in States, NEW P \in Seq(Results), NEW R, NEW D, NEW N \in [Pages -> Nat],
         Dated(s, P, R, D, N), NEW x \in Results,
         x.kind = "loader" => x.what.deletions = N[x.what.of] /\ x.what.list = D[x.what.of]
  PROVE  Dated(s, Append(P, x), None, D, N)
<1>. DEFINE Q == Append(P, x)
            n == Len(P) + 1
<1>1. /\ DOMAIN Q = DOMAIN P \cup {n} /\ Q[n] = x
      /\ \A i \in DOMAIN P : Q[i] = P[i] /\ i < n
      /\ n \in Nat /\ DOMAIN P \subseteq Nat
  BY AppendItems
<1>2. \A i \in DOMAIN P : ~(n < i)
  BY <1>1
<1>. HIDE DEF Q, n
<1>3. History(s, P, R, D, N) /\ Order(s, P)
  BY DEF Dated
<1>4. x.kind = "loader" => Made(x.what, D, N)
  <2>1. x.kind = "loader" => x.what \in Lists
    BY ResultType
  <2>2. x.kind = "loader" => x.what.of \in Pages /\ N[x.what.of] \in Nat
    BY <2>1 DEF Lists
  <2>. QED
    BY <2>2 DEF Made
<1>5. History(s, Q, None, D, N)
  BY <1>1, <1>3, <1>4 DEF History
<1>6. x.kind = "loader" => \A v \in Views : After(s.views[v], x.what)
  BY <1>3 DEF History, Made, Taken, After, NotLater
<1>7. x.kind = "loader" => \A i \in DOMAIN P : P[i].kind = "loader" =>
        NotLater(P[i].what.deletions, P[i].what.of, x.what)
  BY <1>3 DEF History, Made, NotLater
<1>8. Order(s, Q)
  <2>1. \A v \in Views : \A i \in DOMAIN Q : Q[i].kind = "loader" => After(s.views[v], Q[i].what)
    BY <1>1, <1>3, <1>6 DEF Order
  <2>2. n < n => FALSE
    BY <1>1
  <2>3. \A i, j \in DOMAIN Q : i < j /\ Q[i].kind = "loader" /\ Q[j].kind = "loader" =>
          NotLater(Q[i].what.deletions, Q[i].what.of, Q[j].what)
    BY <1>1, <1>2, <1>3, <1>7, <2>2 DEF Order
  <2>. QED
    BY <1>3, <2>1, <2>3 DEF Order
<1>. QED
  BY <1>5, <1>8 DEF Dated, Q

LEMMA DeliverDated ==
  ASSUME TasksInv, DatedInv, Deliver
  PROVE  DatedInv'
<1>. DEFINE t == Head(posts)
            r == Now'
<1>1. /\ posts # <<>> /\ posts' = Tail(posts) /\ UNCHANGED <<doc, deletions, running>>
  BY DeliverIs
<1>2. /\ t.view \in Views /\ Now \in States /\ posts \in Seq(Results)
  BY <1>1, HeadOfPosts, TasksInvTypes
<1>3. Dated(Now, posts, running, doc, deletions) /\ Dated(Now, Tail(posts), running, doc, deletions)
  BY <1>1, <1>2, TailDated DEF DatedInv
<1>4. CASE views' = views /\ queue' = queue
  <2>1. r.views = Now.views /\ r.queue = Now.queue
    BY <1>4 DEF Now
  <2>2. Lesser(Now, r)
    BY <2>1 DEF Lesser
  <2>. HIDE DEF r
  <2>3. Dated(r, Tail(posts), running, doc, deletions)
    BY <1>3, <2>2, LesserDated
  <2>4. Dated(Now', posts', running', doc', deletions')
    BY <1>1, <2>3 DEF r
  <2>. QED
    BY <2>4 DEF DatedInv
<1>5. CASE \E id \in Nat :
             Begun(Now, Now', t.view, "loader", id, None, None, views[t.view].sel,
                   views[t.view].drawing, views[t.view].history)
  <2>1. PICK id \in Nat :
             Begun(Now, Now', t.view, "loader", id, None, None, views[t.view].sel,
                   views[t.view].drawing, views[t.view].history)
    BY <1>5
  <2>2. Begun(Now, r, t.view, "loader", id, None, None, Now.views[t.view].sel,
              views[t.view].drawing, views[t.view].history)
    BY <2>1, NowIs
  <2>. HIDE DEF r, t
  <2>3. "loader" # "del"
    OBVIOUS
  <2>4. Lesser(Now, r)
    BY <1>2, <2>2, <2>3, BegunLesser
  <2>5. Dated(r, Tail(posts), running, doc, deletions)
    BY <1>3, <2>4, LesserDated
  <2>6. Dated(Now', posts', running', doc', deletions')
    BY <1>1, <2>5 DEF r
  <2>. QED
    BY <2>6 DEF DatedInv
<1>6. CASE t.kind = "loader" /\ Relisted(Now, Now', t.view, t.what)
  <2>1. Relisted(Now, r, t.view, Head(posts).what) /\ Head(posts).kind = "loader"
    BY <1>6
  <2>. HIDE DEF r, t
  <2>2. Dated(r, Tail(posts), running, doc, deletions)
    BY <1>1, <1>2, <1>3, <2>1, ShownDated
  <2>3. Dated(Now', posts', running', doc', deletions')
    BY <1>1, <2>2 DEF r
  <2>. QED
    BY <2>3 DEF DatedInv
<1>. QED
  BY <1>4, <1>5, <1>6, DeliverIs

LEMMA StartDated ==
  ASSUME TasksInv, DatedInv, Start
  PROVE  DatedInv'
<1>. DEFINE t == Head(queue)
            r == Now'
<1>1. /\ running = None /\ queue # <<>> /\ queue' = Tail(queue)
      /\ UNCHANGED <<views, doc, deletions, posts>>
      /\ \/ running' = None
         \/ running'.what = t.what /\ running'.kind = t.kind
  BY StartIs
<1>2. /\ t = queue[1] /\ 1 \in DOMAIN queue
      /\ \A i \in DOMAIN queue' : i + 1 \in DOMAIN queue /\ queue'[i] = queue[i + 1]
  BY <1>1, TasksInvTypes, TailItems
<1>3. Dated(Now, posts, running, doc, deletions) /\ Now.queue = queue
  BY NowIs DEF DatedInv
<1>4. Lesser(Now, r)
  <2>1. r.views = Now.views /\ r.queue = queue'
    BY <1>1 DEF Now
  <2>. HIDE DEF r
  <2>. QED
    BY <1>2, <1>3, <2>1 DEF Lesser
<1>. HIDE DEF r, t
<1>5. Dated(r, posts, running, doc, deletions)
  BY <1>3, <1>4, LesserDated
<1>6. running' # None /\ running'.kind = "del" => Taken(running'.what, doc, deletions)
  BY <1>1, <1>2, <1>3 DEF Dated, History
<1>7. Dated(r, posts, running', doc, deletions)
  BY <1>5, <1>6 DEF Dated, History
<1>8. Dated(Now', posts', running', doc', deletions')
  BY <1>1, <1>7 DEF r
<1>. QED
  BY <1>8 DEF DatedInv

LEMMA ReadPageDated ==
  ASSUME TasksInv, DatedInv, ReadPage
  PROVE  DatedInv'
<1>1. /\ running # None /\ UNCHANGED <<doc, deletions, posts>> /\ Now' = Now
      /\ running'.kind = running.kind /\ running'.what = running.what
  BY ReadPageIs DEF TaskStep, NotUI, Stepped, Now
<1>2. Dated(Now, posts, running', doc, deletions)
  BY <1>1 DEF DatedInv, Dated, History
<1>3. Dated(Now', posts', running', doc', deletions')
  BY <1>1, <1>2
<1>. QED
  BY <1>3 DEF DatedInv

LEMMA GetAnnotationsDated ==
  ASSUME TasksInv, DatedInv, GetAnnotations
  PROVE  DatedInv'
<1>. DEFINE p == views[running.view].page
            a == [of |-> p, list |-> doc[p], deletions |-> deletions[p]]
            x == [id |-> running.id, kind |-> "loader", view |-> running.view, what |-> a]
<1>1. /\ running' = None /\ UNCHANGED <<doc, deletions>> /\ Now' = Now
      /\ x \in Results /\ posts' = Append(posts, x)
  BY GetAnnotationsIs DEF TaskStep, NotUI, Now
<1>2. x.what.deletions = deletions[x.what.of] /\ x.what.list = doc[x.what.of]
  OBVIOUS
<1>. HIDE DEF x
<1>3. Dated(Now, Append(posts, x), None, doc, deletions)
  BY <1>1, <1>2, TasksInvTypes, TasksTypes, PostedDated DEF DatedInv
<1>4. Dated(Now', posts', running', doc', deletions')
  BY <1>1, <1>3
<1>. QED
  BY <1>4 DEF DatedInv

LEMMA DeleteAnnotationDated ==
  ASSUME TasksInv, DatedInv, DeleteAnnotation
  PROVE  DatedInv'
<1>. DEFINE p == running.page
            i == running.what.at
            x == [id |-> running.id, kind |-> "del", view |-> running.view, what |-> None]
<1>1. /\ running # None /\ running.kind = "del" /\ running.what \in Selections
      /\ running' = None /\ Now' = Now
      /\ p \in Pages /\ x \in Results /\ posts' = Append(posts, x)
      /\ \/ UNCHANGED <<doc, deletions>>
         \/ /\ i \in DOMAIN doc[p]
            /\ doc' = [doc EXCEPT ![p] = RemoveAt(doc[p], i)]
            /\ deletions' = [deletions EXCEPT ![p] = deletions[p] + 1]
  BY DeleteAnnotationIs DEF TaskStep, NotUI, Now
<1>2. x.kind # "loader"
  OBVIOUS
<1>. HIDE DEF x, p, i
<1>3. /\ Now \in States /\ posts \in Seq(Results) /\ deletions \in [Pages -> Nat]
      /\ doc \in [Pages -> Seq(SUBSET Strokes)] /\ Append(posts, x) \in Seq(Results)
  BY <1>1, TasksInvTypes, TasksTypes, AppendItems
<1>4. Dated(Now, Append(posts, x), None, doc, deletions)
  BY <1>1, <1>2, <1>3, PostedDated DEF DatedInv
<1>5. CASE UNCHANGED <<doc, deletions>>
  <2>1. Dated(Now', posts', running', doc', deletions')
    BY <1>1, <1>4, <1>5
  <2>. QED
    BY <2>1 DEF DatedInv
<1>6. CASE /\ i \in DOMAIN doc[p]
           /\ doc' = [doc EXCEPT ![p] = RemoveAt(doc[p], i)]
           /\ deletions' = [deletions EXCEPT ![p] = deletions[p] + 1]
  <2>1. \A q \in Pages : q # p => doc'[q] = doc[q]
    BY <1>3, <1>6
  <2>2. Dated(Now, Append(posts, x), None, doc', deletions')
    BY <1>1, <1>3, <1>4, <1>6, <2>1, DeletedDated
  <2>3. Dated(Now', posts', running', doc', deletions')
    BY <1>1, <2>2
  <2>. QED
    BY <2>3 DEF DatedInv
<1>. QED
  BY <1>1, <1>5, <1>6

LEMMA AddInkDated ==
  ASSUME TasksInv, DatedInv, AddInkAnnotation
  PROVE  DatedInv'
<1>. DEFINE p == running.page
            d == running.what
<1>1. /\ running # None /\ running.kind = "ink" /\ UNCHANGED <<posts, deletions>> /\ Now' = Now
      /\ p \in Pages /\ d \in SUBSET Strokes
      /\ doc' = [doc EXCEPT ![p] = Append(doc[p], d)]
      /\ running'.kind = running.kind
  BY AddInkIs DEF TaskStep, NotUI, Stepped, Now
<1>. HIDE DEF p, d
<1>2. /\ Now \in States /\ posts \in Seq(Results)
      /\ doc \in [Pages -> Seq(SUBSET Strokes)]
  BY TasksInvTypes, TasksTypes
<1>3. \A q \in Pages : \A i \in DOMAIN doc[q] : i \in DOMAIN doc'[q] /\ doc'[q][i] = doc[q][i]
  <2>1. doc[p] \in Seq(SUBSET Strokes)
    BY <1>1, <1>2
  <2>2. \A i \in DOMAIN doc[p] : i \in DOMAIN Append(doc[p], d) /\ Append(doc[p], d)[i] = doc[p][i]
    BY <1>1, <2>1, AppendItems
  <2>3. doc'[p] = Append(doc[p], d) /\ \A q \in Pages : q # p => doc'[q] = doc[q]
    BY <1>1, <1>2
  <2>. QED
    BY <2>2, <2>3
<1>4. Dated(Now, posts, running, doc', deletions)
  BY <1>1, <1>2, <1>3, GrownDated DEF DatedInv
<1>5. Dated(Now, posts, running', doc', deletions)
  BY <1>1, <1>4 DEF Dated, History
<1>6. Dated(Now', posts', running', doc', deletions')
  BY <1>1, <1>5
<1>. QED
  BY <1>6 DEF DatedInv

\* A task that has added a drawing loads the list.
LEMMA LoadDated ==
  ASSUME DatedInv, running # None, running.kind = "ink", UNCHANGED <<doc, deletions, posts>>,
         running' = None \/ running'.kind = "ink",
         Lesser(Now, Now')
  PROVE  DatedInv'
<1>. DEFINE r == Now'
<1>1. Dated(Now, posts, running, doc, deletions) /\ Lesser(Now, r)
  BY DEF DatedInv
<1>. HIDE DEF r
<1>2. Dated(r, posts, running, doc, deletions)
  BY <1>1, LesserDated
<1>3. Dated(r, posts, running', doc, deletions)
  BY <1>2 DEF Dated, History
<1>4. Dated(Now', posts', running', doc', deletions')
  BY <1>3 DEF r
<1>. QED
  BY <1>4 DEF DatedInv

LEMMA ClearDated ==
  ASSUME TasksInv, DatedInv, ClearAnnotations
  PROVE  DatedInv'
<1>1. /\ running # None /\ running.kind = "ink" /\ UNCHANGED <<doc, deletions, posts>>
      /\ running'.kind = "ink" /\ running.view \in Views
      /\ Relisted(Now, Now', running.view, None)
  BY ClearIs DEF Stepped
<1>2. Lesser(Now, Now')
  BY <1>1 DEF Relisted, Lesser
<1>. QED
  BY <1>1, <1>2, LoadDated

LEMMA ReloadDated ==
  ASSUME TasksInv, DatedInv, Reload
  PROVE  DatedInv'
<1>. DEFINE v == running.view
<1>1. /\ running # None /\ running.kind = "ink" /\ UNCHANGED <<doc, deletions, posts>>
      /\ running' = None /\ v \in Views
  BY ReloadIs
<1>2. PICK id \in Nat :
         /\ queue' = Append(queue, Job(id, "loader", v, None))
         /\ \A w \in Views : w # v => views'[w] = views[w]
         /\ SameLists(views'[v], views[v])
  BY ReloadIs
<1>3. /\ DOMAIN queue' = DOMAIN queue \cup {Len(queue) + 1}
      /\ \A i \in DOMAIN queue : queue'[i] = queue[i]
      /\ queue'[Len(queue) + 1].kind # "del"
  <2>1. Job(id, "loader", v, None) \in Jobs /\ Job(id, "loader", v, None).kind # "del"
    BY <1>1 DEF Job, Jobs
  <2>. QED
    BY <1>2, <2>1, TasksInvTypes, AppendItems
<1>. HIDE DEF v
<1>4. \A w \in Views : views'[w].annots = views[w].annots /\ views'[w].sel = views[w].sel
  BY <1>2 DEF SameLists
<1>5. Now'.views = views' /\ Now'.queue = queue'
  BY DEF Now
<1>6. Lesser(Now, Now')
  BY <1>3, <1>4, <1>5, NowIs DEF Lesser
<1>. QED
  BY <1>1, <1>6, LoadDated

LEMMA InitDated ==
  ASSUME Init
  PROVE  DatedInv
<1>1. /\ 0 \in Pages /\ posts = <<>> /\ running = None
      /\ posts \in Seq(Results) /\ running \in Started \cup {None} /\ late \in BOOLEAN
  BY InitIs
<1>2. PICK b \in States :
              /\ b.queue = <<>>
              /\ \A p \in Pages : b.child[p] = None
              /\ \A v \in Views : b.views[v] = FreshView
              /\ TasksGood(b, posts, running, late) /\ Placed(b)
              /\ Now = OnLayout(b, 0)
  BY InitIs
<1>. DEFINE T == {x \in States : TasksGood(x, posts, running, late) /\ Lesser(b, x)}
<1>3. FreshView.annots = None /\ FreshView.sel = None
  BY DEF FreshView
<1>4. Dated(b, posts, running, doc, deletions)
  <2>1. DOMAIN <<>> = {}
    OBVIOUS
  <2>. QED
    BY <1>1, <1>2, <1>3, <2>1 DEF Dated, History, Order, After
<1>5. OnLayout(b, 0) \in T
  <2>1. \A r \in States : Removal(b, r, Live(b.queue, posts, running), 0) => r \in T
    <3>1. SUFFICES ASSUME NEW r \in States, Removal(b, r, Live(b.queue, posts, running), 0)
                   PROVE  r \in T
      OBVIOUS
    <3>2. TasksGood(r, posts, running, late)
      BY <1>1, <1>2, <3>1, RemovalTasksGood
    <3>3. Lesser(b, r)
      BY <3>1, RemovalLesser
    <3>. QED
      BY <3>1, <3>2, <3>3
  <2>2. \A x \in T, y \in States, v \in Views, q \in Pages, id \in Nat :
          Creation(x, y, Live(x.queue, posts, running), v, q, id) => y \in T
    <3>1. SUFFICES ASSUME NEW x \in T, NEW y \in States, NEW v \in Views, NEW q \in Pages,
                          NEW id \in Nat, Creation(x, y, Live(x.queue, posts, running), v, q, id)
                   PROVE  y \in T
      OBVIOUS
    <3>2. TasksGood(y, posts, running, late)
      BY <1>1, <3>1, CreationTasksGood
    <3>3. Lesser(x, y)
      BY <3>1, CreationLesser
    <3>4. Lesser(b, y)
      BY <3>3, LesserTrans
    <3>. QED
      BY <3>1, <3>2, <3>4
  <2>3. \A x \in T : Placed(x) /\ Distinct(x.queue, posts, running)
    BY DEF TasksGood
  <2>. HIDE DEF T
  <2>. QED
    BY <1>1, <1>2, <2>1, <2>2, <2>3, LayoutKeeps
<1>6. Lesser(b, Now)
  BY <1>2, <1>5
<1>. QED
  BY <1>4, <1>6, LesserDated DEF DatedInv

LEMMA NextDated ==
  ASSUME TasksInv, DatedInv, [Next]_vars
  PROVE  DatedInv'
<1>1. ASSUME NEW p \in Pages, MoveTo(p)
      PROVE  DatedInv'
  BY <1>1, MoveToDated
<1>2. ASSUME NEW S \in SUBSET Strokes, Erase(S)
      PROVE  DatedInv'
  BY <1>2, EraseDated
<1>3. CASE User
  BY <1>1, <1>2, <1>3, TapDated, DeselectDated, DeleteDated, EditDated, DrawDated, StrokeDated,
     UndoDated, CancelDrawDated, SaveDrawDated DEF User
<1>4. CASE Deliver
  BY <1>4, DeliverDated
<1>5. CASE Background
  BY <1>5, StartDated, ReadPageDated, GetAnnotationsDated, DeleteAnnotationDated, AddInkDated,
     ClearDated, ReloadDated DEF Background
<1>6. CASE UNCHANGED vars
  <2>1. Now' = Now /\ UNCHANGED <<posts, running, doc, deletions>>
    BY <1>6 DEF vars, uivars, Now
  <2>2. Dated(Now', posts', running', doc', deletions')
    BY <2>1 DEF DatedInv
  <2>. QED
    BY <2>2 DEF DatedInv
<1>. QED
  BY <1>3, <1>4, <1>5, <1>6 DEF Next

-----------------------------------------------------------------------------
(* No stroke is lost.                                                      *)

\* Tasks keep their places, and X2 has what those add that are cancelled.
Carried(s, r, X2) ==
  \A j \in DOMAIN s.queue :
    /\ j \in DOMAIN r.queue /\ r.queue[j] = s.queue[j]
    /\ s.queue[j].kind = "ink" /\ s.queue[j].id \notin s.cancelled
         /\ s.queue[j].id \in r.cancelled => s.queue[j].what \subseteq X2

LEMMA CarriedKept ==
  ASSUME NEW s, NEW r, NEW R, NEW D, NEW N, NEW n, NEW m, NEW X, NEW X2,
         Kept(s, R, D, N, n, X), Carried(s, r, X2), X \subseteq X2,
         \A x : HeldBy(s, x) => \A i \in {0} \cup DOMAIN s.queue : Safe(r, i, x, X2),
         \A i \in DOMAIN r.queue : i \in DOMAIN s.queue \/
           (r.queue[i].kind = "del" => Deletes(r, i, r.queue[i].what, N, X2)),
         \A x \in 1..m : x \in 1..n \/ Safe(r, 0, x, X2)
  PROVE  Kept(r, R, D, N, m, X2)
<1>1. ASSUME NEW x, NEW i \in {0} \cup DOMAIN s.queue, Safe(s, i, x, X)
      PROVE  Safe(r, i, x, X2)
  <2>1. CASE WaitsIn(s, i, x)
    BY <2>1 DEF WaitsIn, Carried, Safe
  <2>. QED
    BY <1>1, <2>1 DEF Safe
<1>2. ASSUME NEW e, NEW i \in {0} \cup DOMAIN s.queue, Deletes(s, i, e, N, X)
      PROVE  Deletes(r, i, e, N, X2)
  BY <1>1, <1>2 DEF Deletes
<1>3. \A i \in DOMAIN r.queue : r.queue[i].kind = "del" => Deletes(r, i, r.queue[i].what, N, X2)
  BY <1>2 DEF Kept, Carried
<1>4. R # None /\ R.kind = "del" => Deletes(r, 0, R.what, N, X2)
  BY <1>2 DEF Kept
<1>5. \A x \in 1..m : Safe(r, 0, x, X2) \/ InDocument(D, x) \/ BeingAdded(R, x)
  BY <1>1 DEF Kept
<1>. QED
  BY <1>3, <1>4, <1>5 DEF Kept

\* What one view holds changes.
LEMMA HeldElsewhere ==
  ASSUME NEW s, NEW r, NEW v \in Views, NEW d, NEW h, NEW X2,
         \A w \in Views : w # v => r.views[w] = s.views[w],
         r.views[v].drawing = d, r.views[v].history = h,
         \A x : Holds(s.views[v], x) => x \in X2 \/ (d # None /\ x \in d) \/ x \in StrokesOf(h),
         NEW x, HeldBy(s, x), NEW i
  PROVE  Safe(r, i, x, X2)
<1>1. PICK w \in Views : Holds(s.views[w], x)
  BY DEF HeldBy
<1>2. CASE w = v
  BY <1>1, <1>2 DEF Safe, HeldBy, Holds
<1>3. CASE w # v
  BY <1>1, <1>3 DEF Safe, HeldBy
<1>. QED
  BY <1>2, <1>3

LEMMA EditedKept ==
  ASSUME NEW s \in States, NEW r, NEW R, NEW D, NEW N, NEW n, NEW m, NEW X, NEW X2,
         Kept(s, R, D, N, n, X), X \subseteq X2,
         NEW v \in Views, NEW e, NEW d, NEW h, Edited(s, r, v, e, d, h),
         \A x : Holds(s.views[v], x) => x \in X2 \/ (d # None /\ x \in d) \/ x \in StrokesOf(h),
         \A x \in 1..m : x \in 1..n \/ (d # None /\ x \in d)
  PROVE  Kept(r, R, D, N, m, X2)
<1>1. /\ r.queue = s.queue /\ r.cancelled = s.cancelled
      /\ \A w \in Views : w # v => r.views[w] = s.views[w]
      /\ r.views[v].drawing = d /\ r.views[v].history = h
  BY DEF Edited
<1>2. Carried(s, r, X2)
  BY <1>1 DEF Carried
<1>3. \A x : HeldBy(s, x) => \A i \in {0} \cup DOMAIN s.queue : Safe(r, i, x, X2)
  BY <1>1, HeldElsewhere
<1>4. \A x \in 1..m : x \in 1..n \/ Safe(r, 0, x, X2)
  BY <1>1 DEF Safe, HeldBy, Holds
<1>. QED
  BY <1>1, <1>2, <1>3, <1>4, CarriedKept

\* The queue after a task has been begun.
LEMMA BegunQueue ==
  ASSUME NEW s \in States, NEW r, NEW v \in Views, NEW k, NEW id, NEW t, NEW a, NEW e, NEW d, NEW h,
         Begun(s, r, v, k, id, t, a, e, d, h)
  PROVE  LET m == Len(s.queue) + 1
         IN  /\ DOMAIN r.queue = DOMAIN s.queue \cup {m} /\ m \notin DOMAIN s.queue
             /\ \A i \in DOMAIN s.queue : r.queue[i] = s.queue[i]
             /\ \A i \in {0} \cup DOMAIN s.queue : m > i
             /\ r.queue[m].kind = k /\ r.queue[m].what = t /\ r.queue[m].id = id
             /\ \A w \in Views : w # v => r.views[w] = s.views[w]
             /\ r.views[v].drawing = d /\ r.views[v].history = h
<1>. DEFINE j == Job(id, k, v, t)
            m == Len(s.queue) + 1
<1>1. /\ r.queue = Append(s.queue, j) /\ r \in States
      /\ \A w \in Views : w # v => r.views[w] = s.views[w]
      /\ r.views[v].drawing = d /\ r.views[v].history = h
  BY DEF Begun, Renewal
<1>2. j.kind = k /\ j.what = t /\ j.id = id
  BY DEF Job
<1>. HIDE DEF j
<1>3. s.queue \in Seq(Jobs) /\ r.queue \in Seq(Jobs)
  BY <1>1 DEF States
<1>4. /\ DOMAIN r.queue = DOMAIN s.queue \cup {m} /\ m \notin DOMAIN s.queue
      /\ \A i \in DOMAIN s.queue : r.queue[i] = s.queue[i]
      /\ r.queue[m] = j
  BY <1>1, <1>3
<1>5. \A i \in {0} \cup DOMAIN s.queue : m > i
  BY <1>3
<1>. QED
  BY <1>1, <1>2, <1>4, <1>5

\* A task that does not add ink takes the place of one that does not.
LEMMA BegunKept ==
  ASSUME TasksInv, NEW r, NEW R, NEW D, NEW N, NEW n, NEW X, NEW X2,
         Kept(Now, R, D, N, n, X), X \subseteq X2,
         NEW v \in Views, NEW k \in {"loader", "del"}, NEW id, NEW t, NEW a, NEW e, NEW d, NEW h,
         Begun(Now, r, v, k, id, t, a, e, d, h),
         \A x : Holds(Now.views[v], x) => x \in X2 \/ (d # None /\ x \in d) \/ x \in StrokesOf(h),
         k = "del" => (t.since = N[t.of] => \A x \in t.annot : x \in X2 \/ (d # None /\ x \in d))
  PROVE  Kept(r, R, D, N, n, X2)
<1>. DEFINE m == Len(Now.queue) + 1
<1>0. Now \in States /\ Live(Now.queue, posts, running) = Work /\ Remembered(Now, Work, late)
  BY TasksInvTypes, NowIs DEF TasksInv, TasksGood
<1>1. /\ DOMAIN r.queue = DOMAIN Now.queue \cup {m}
      /\ \A i \in DOMAIN Now.queue : r.queue[i] = Now.queue[i]
      /\ r.queue[m].kind = k /\ r.queue[m].what = t
      /\ \A w \in Views : w # v => r.views[w] = Now.views[w]
      /\ r.views[v].drawing = d /\ r.views[v].history = h
  BY <1>0, BegunQueue
<1>2. \A i \in r.cancelled : i \in Now.cancelled \/ (i = TaskOf(Now.views[v], k) /\ i \in IdsOf(Work))
  BY DEF Begun, Renewal
<1>. HIDE DEF m
<1>3. Carried(Now, r, X2)
  <2>1. ASSUME NEW j \in DOMAIN Now.queue, Now.queue[j].kind = "ink", Now.queue[j].id \notin Now.cancelled,
               Now.queue[j].id \in r.cancelled
        PROVE  FALSE
    <3>. DEFINE u == Tag(Now.queue[j])
    <3>1. u \in Work /\ u.id = Now.queue[j].id /\ u.kind = "ink"
      BY <1>0, <2>1, InLive
    <3>2. u.id = TaskOf(Now.views[v], k)
      BY <1>2, <2>1, <3>1
    <3>. HIDE DEF u
    <3>3. u.kind = k
      BY <1>0, <3>1, <3>2 DEF Remembered, TaskOf
    <3>. QED
      BY <3>1, <3>3
  <2>. QED
    BY <1>1, <2>1 DEF Carried
<1>4. \A x : HeldBy(Now, x) => \A i \in {0} \cup DOMAIN Now.queue : Safe(r, i, x, X2)
  BY <1>1, HeldElsewhere
<1>5. r.queue[m].kind = "del" => Deletes(r, m, r.queue[m].what, N, X2)
  BY <1>1 DEF Deletes, Safe, HeldBy, Holds
<1>6. \A i \in DOMAIN r.queue : i \in DOMAIN Now.queue \/
           (r.queue[i].kind = "del" => Deletes(r, i, r.queue[i].what, N, X2))
  BY <1>1, <1>5
<1>7. \A x \in 1..n : x \in 1..n \/ Safe(r, 0, x, X2)
  OBVIOUS
<1>. QED
  BY <1>3, <1>4, <1>6, <1>7, CarriedKept

LEMMA InUnstarted ==
  ASSUME NEW s, NEW j \in DOMAIN s.queue, s.queue[j].kind = "ink", s.queue[j].id \notin s.cancelled
  PROVE  s.queue[j].what \subseteq Unstarted(s, s.queue[j].view)
BY DEF Unstarted, Range

\* The drawing of a view is handed to a task, in place of one that still waits.
LEMMA BegunInkKept ==
  ASSUME TasksInv, NEW r, NEW R, NEW D, NEW N, NEW n, NEW X, NEW X2,
         Kept(Now, R, D, N, n, X), X \subseteq X2,
         NEW v \in Views, Unstarted(Now, v) \subseteq X2,
         NEW id, NEW t, NEW a, NEW e, NEW h,
         Begun(Now, r, v, "ink", id, t, a, e, None, h),
         \A x : Holds(Now.views[v], x) => x \in X2 \/ x \in t
  PROVE  Kept(r, R, D, N, n, X2)
<1>. DEFINE m == Len(Now.queue) + 1
<1>0. Now \in States /\ Live(Now.queue, posts, running) = Work /\ Remembered(Now, Work, late)
  BY TasksInvTypes, NowIs DEF TasksInv, TasksGood
<1>1. /\ DOMAIN r.queue = DOMAIN Now.queue \cup {m} /\ \A i \in {0} \cup DOMAIN Now.queue : m > i
      /\ \A i \in DOMAIN Now.queue : r.queue[i] = Now.queue[i]
      /\ r.queue[m].kind = "ink" /\ r.queue[m].what = t /\ r.queue[m].id = id
      /\ \A w \in Views : w # v => r.views[w] = Now.views[w]
  <2>1. PICK k, d : k = "ink" /\ d = None
    OBVIOUS
  <2>2. Begun(Now, r, v, k, id, t, a, e, d, h)
    BY <2>1
  <2>. QED
    BY <1>0, <2>1, <2>2, BegunQueue
<1>2. /\ \A i \in r.cancelled : i \in Now.cancelled \/ (i = Now.views[v].ink /\ i \in IdsOf(Work))
      /\ FreshIn(Now, Work, id)
  BY DEF Begun, Renewal, TaskOf
<1>. HIDE DEF m
<1>3. id \notin r.cancelled
  BY <1>0, <1>2 DEF FreshIn, Remembered
<1>4. \A x \in t : \A i \in {0} \cup DOMAIN Now.queue : Safe(r, i, x, X2)
  BY <1>1, <1>3 DEF Safe, WaitsIn
<1>5. Carried(Now, r, X2)
  <2>1. ASSUME NEW j \in DOMAIN Now.queue, Now.queue[j].kind = "ink", Now.queue[j].id \notin Now.cancelled,
               Now.queue[j].id \in r.cancelled
        PROVE  Now.queue[j].what \subseteq X2
    <3>. DEFINE u == Tag(Now.queue[j])
    <3>1. u \in Work /\ u.id = Now.queue[j].id /\ u.kind = "ink" /\ u.view = Now.queue[j].view
      BY <1>0, <2>1, InLive
    <3>2. u.id = Now.views[v].ink
      BY <1>2, <2>1, <3>1
    <3>. HIDE DEF u
    <3>3. u.view = v
      BY <1>0, <3>1, <3>2 DEF Remembered
    <3>. QED
      BY <2>1, <3>1, <3>3, InUnstarted
  <2>. QED
    BY <1>1, <2>1 DEF Carried
<1>6. ASSUME NEW x, HeldBy(Now, x), NEW i \in {0} \cup DOMAIN Now.queue
      PROVE  Safe(r, i, x, X2)
  <2>1. PICK w \in Views : Holds(Now.views[w], x)
    BY <1>6 DEF HeldBy
  <2>2. CASE w = v
    BY <1>4, <1>6, <2>1, <2>2 DEF Safe
  <2>3. CASE w # v
    BY <1>1, <2>1, <2>3 DEF Safe, HeldBy
  <2>. QED
    BY <2>2, <2>3
<1>7. \A i \in DOMAIN r.queue : i \in DOMAIN Now.queue \/
           (r.queue[i].kind = "del" => Deletes(r, i, r.queue[i].what, N, X2))
  BY <1>1
<1>8. \A x \in 1..n : x \in 1..n \/ Safe(r, 0, x, X2)
  OBVIOUS
<1>. QED
  BY <1>5, <1>6, <1>7, <1>8, CarriedKept

LEMMA IdlyKept ==
  ASSUME Idly, Kept(Now', running, doc, deletions, drawn', Excused')
  PROVE  KeptInv'
<1>1. running' = running /\ doc' = doc /\ deletions' = deletions
  BY DEF Idly
<1>2. Kept(Now', running', doc', deletions', drawn', Excused')
  BY <1>1
<1>. QED
  BY <1>2 DEF KeptInv

LEMMA EditedKeptInv ==
  ASSUME TasksInv, KeptInv, Idly, Excused \subseteq Excused',
         NEW e, NEW d, NEW h, Edited(Now, Now', Selected, e, d, h),
         \A x : Holds(V, x) => x \in Excused' \/ (d # None /\ x \in d) \/ x \in StrokesOf(h),
         \A x \in 1..drawn' : x \in 1..drawn \/ (d # None /\ x \in d)
  PROVE  KeptInv'
<1>. DEFINE r == Now'
            Y == Excused'
            m == drawn'
<1>1. /\ Edited(Now, r, Selected, e, d, h) /\ Excused \subseteq Y
      /\ \A x : Holds(Now.views[Selected], x) => x \in Y \/ (d # None /\ x \in d) \/ x \in StrokesOf(h)
      /\ \A x \in 1..m : x \in 1..drawn \/ (d # None /\ x \in d)
  BY SelectedIs
<1>2. Now \in States /\ Selected \in Views
  BY TasksInvTypes, SelectedIs
<1>. HIDE DEF r, Y, m
<1>3. Kept(Now, running, doc, deletions, drawn, Excused)
  BY DEF KeptInv
<1>4. Kept(r, running, doc, deletions, m, Y)
  BY <1>1, <1>2, <1>3, EditedKept
<1>. QED
  BY <1>4, IdlyKept DEF r, Y, m

LEMMA HoldsSelected ==
  \A x : Holds(V, x) <=> x \in Drawing \/ x \in StrokesOf(V.history)
BY DEF Holds, Drawing

LEMMA ExcusedGrows ==
  ASSUME wished \subseteq wished', dropped \subseteq dropped', misled \subseteq misled'
  PROVE  Excused \subseteq Excused'
BY DEF Excused

LEMMA TapKept ==
  ASSUME TasksInv, KeptInv, Tap
  PROVE  KeptInv'
<1>1. PICK e : Edited(Now, Now', Selected, e, V.drawing, V.history)
  BY TapIs
<1>2. Idly /\ UNCHANGED <<drawn, wished, dropped, misled>>
  BY TapIs
<1>3. \A x : Holds(V, x) => (V.drawing # None /\ x \in V.drawing) \/ x \in StrokesOf(V.history)
  BY DEF Holds
<1>. QED
  BY <1>1, <1>2, <1>3, ExcusedGrows, EditedKeptInv

LEMMA DeselectKept ==
  ASSUME TasksInv, KeptInv, Deselect
  PROVE  KeptInv'
<1>1. Edited(Now, Now', Selected, None, V.drawing, V.history)
  BY DeselectIs
<1>2. Idly /\ UNCHANGED <<drawn, wished, dropped, misled>>
  BY DeselectIs
<1>3. \A x : Holds(V, x) => (V.drawing # None /\ x \in V.drawing) \/ x \in StrokesOf(V.history)
  BY DEF Holds
<1>. QED
  BY <1>1, <1>2, <1>3, ExcusedGrows, EditedKeptInv

LEMMA DeleteKept ==
  ASSUME TasksInv, KeptInv, DeleteSelectedAnnotation
  PROVE  KeptInv'
<1>. DEFINE r == Now'
            Y == Excused'
            d == V.drawing
            h == V.history
<1>1. Idly /\ UNCHANGED <<drawn, dropped, misled>> /\ wished' = wished \cup V.sel.annot
  BY DeleteIs
<1>2. PICK id \in Nat : Begun(Now, Now', Selected, "del", id, V.sel, V.annots, None, d, h)
  BY DeleteIs
<1>3. Excused \subseteq Y /\ V.sel.annot \subseteq Y
  BY <1>1 DEF Excused
<1>4. \A x : Holds(Now.views[Selected], x) => x \in Y \/ (d # None /\ x \in d) \/ x \in StrokesOf(h)
  BY SelectedIs DEF Holds
<1>5. Begun(Now, r, Selected, "del", id, V.sel, V.annots, None, d, h) /\ Selected \in Views
  BY <1>2, SelectedIs
<1>. HIDE DEF r, Y, d, h
<1>6. "del" = "del" => (V.sel.since = deletions[V.sel.of] =>
                          \A x \in V.sel.annot : x \in Y \/ (d # None /\ x \in d))
  BY <1>3
<1>7. Kept(r, running, doc, deletions, drawn, Y)
  BY <1>3, <1>4, <1>5, <1>6, BegunKept DEF KeptInv
<1>8. Kept(Now', running, doc, deletions, drawn', Excused')
  BY <1>1, <1>7 DEF r, Y
<1>. QED
  BY <1>1, <1>8, IdlyKept

\* The drawing of an annotation that is edited is the annotation, when its list
\* is of the page it was selected on and is not out of date.
LEMMA EditKept ==
  ASSUME TasksInv, InkInv, DatedInv, KeptInv, EditSelectedAnnotation
  PROVE  KeptInv'
<1>0. UNCHANGED <<home, drawn>>
  BY EditIs
<1>1. Idly /\ mode = "Edit" /\ V.sel # None /\ UNCHANGED <<drawn, wished, dropped>>
  BY EditIs
<1>2. CASE misled' = misled /\ Now' = Now
  <2>1. Excused' = Excused
    BY <1>1, <1>2 DEF Excused
  <2>2. Kept(Now', running, doc, deletions, drawn', Excused')
    BY <1>1, <1>2, <2>1 DEF KeptInv
  <2>. QED
    BY <1>1, <2>2, IdlyKept
<1>3. CASE /\ V.annots # None /\ V.sel.at \in DOMAIN V.annots.list
           /\ misled' = misled
                \cup (IF V.annots.of = V.sel.of THEN {} ELSE V.sel.annot)
                \cup (IF V.annots.of = V.page THEN {} ELSE V.annots.list[V.sel.at])
           /\ V.annots.list[V.sel.at] \in SUBSET Strokes
           /\ \E id \in Nat : Begun(Now, Now', Selected, "del", id, V.sel,
                                    V.annots, None, V.annots.list[V.sel.at], V.history)
  <2>. DEFINE r == Now'
              Y == Excused'
              d == V.annots.list[V.sel.at]
              h == V.history
  <2>1. PICK id \in Nat : Begun(Now, r, Selected, "del", id, V.sel, V.annots, None, d, h)
    BY <1>3
  <2>2. Excused \subseteq Y /\ (V.annots.of # V.sel.of => V.sel.annot \subseteq Y)
    BY <1>1, <1>3 DEF Excused
  <2>3. d # None
    BY <1>3, PageViewsAssumption
  <2>4. \A x : Holds(Now.views[Selected], x) => x \in Y \/ (d # None /\ x \in d) \/ x \in StrokesOf(h)
    <3>1. Homed \subseteq Homed'
      <4>1. misled \subseteq misled'
        BY <1>3
      <4>. QED
        BY <1>0, <4>1, HomedGrows
    <3>2. V.drawing = None
      BY <1>1, <3>1, SelectedInk
    <3>. QED
      BY <3>2, SelectedIs DEF Holds
  <2>5. V.annots \in Lists /\ V.sel \in Selections /\ Selected \in Views /\ V = Now.views[Selected]
    BY <1>1, <1>3, SelectedIs, FieldsOf
  <2>6. ASSUME V.sel.since = deletions[V.sel.of], NEW x \in V.sel.annot
        PROVE  x \in Y \/ (d # None /\ x \in d)
    <3>1. CASE V.annots.of # V.sel.of
      BY <2>2, <2>6, <3>1
    <3>2. CASE V.annots.of = V.sel.of
      <4>1. /\ Made(V.annots, doc, deletions) /\ Taken(V.sel, doc, deletions)
            /\ NotLater(V.sel.since, V.sel.of, V.annots)
        BY <1>1, <1>3, <2>5 DEF DatedInv, Dated, History, Order
      <4>2. V.annots.deletions \in Nat /\ V.sel.since \in Nat
        BY <2>5 DEF Lists, Selections
      <4>3. V.annots.deletions = deletions[V.annots.of]
        BY <2>6, <3>2, <4>1, <4>2 DEF Made, NotLater
      <4>4. V.annots.list[V.sel.at] = V.sel.annot
        BY <1>3, <2>6, <3>2, <4>1, <4>3 DEF Made, Taken
      <4>. QED
        BY <2>3, <2>6, <4>4
    <3>. QED
      BY <3>1, <3>2
  <2>. HIDE DEF r, Y, d, h
  <2>7. "del" = "del" => (V.sel.since = deletions[V.sel.of] =>
                            \A x \in V.sel.annot : x \in Y \/ (d # None /\ x \in d))
    BY <2>6
  <2>8. Kept(r, running, doc, deletions, drawn, Y)
    BY <2>1, <2>2, <2>4, <2>5, <2>7, BegunKept DEF KeptInv
  <2>9. Kept(Now', running, doc, deletions, drawn', Excused')
    BY <1>1, <2>8 DEF r, Y
  <2>. QED
    BY <1>1, <2>9, IdlyKept
<1>. QED
  BY <1>2, <1>3, EditIs

LEMMA DrawKept ==
  ASSUME TasksInv, KeptInv, Draw
  PROVE  KeptInv'
<1>1. Idly /\ Now' = Now /\ UNCHANGED <<drawn, wished, dropped, misled>>
  BY DrawIs
<1>2. Kept(Now', running, doc, deletions, drawn', Excused')
  BY <1>1 DEF KeptInv, Excused
<1>. QED
  BY <1>1, <1>2, IdlyKept

LEMMA StrokeKept ==
  ASSUME TasksInv, KeptInv, Stroke
  PROVE  KeptInv'
<1>. DEFINE d == Drawing \cup {drawn + 1}
            h == <<Drawing>> \o V.history
<1>1. /\ Idly /\ drawn' = drawn + 1 /\ drawn + 1 \in Strokes
      /\ UNCHANGED <<wished, dropped, misled>>
      /\ Edited(Now, Now', Selected, V.sel, d, h)
  BY StrokeIs
<1>2. Drawing \in SUBSET Strokes /\ V.history \in Seq(SUBSET Strokes) /\ drawn \in Nat
  BY DrawingIs, TasksTypes, PageViewsAssumption
<1>3. d # None
  <2>1. d \in SUBSET Strokes
    BY <1>1, <1>2
  <2>. QED
    BY <2>1, PageViewsAssumption
<1>4. \A x : Holds(V, x) => x \in Excused' \/ (d # None /\ x \in d) \/ x \in StrokesOf(h)
  BY <1>2, HoldsSelected, StrokesOfCons
<1>5. \A x \in 1..drawn' : x \in 1..drawn \/ (d # None /\ x \in d)
  BY <1>1, <1>2, <1>3
<1>. HIDE DEF d, h
<1>. QED
  BY <1>1, <1>4, <1>5, ExcusedGrows, EditedKeptInv

LEMMA EraseKept ==
  ASSUME TasksInv, KeptInv, NEW S \in SUBSET Strokes, Erase(S)
  PROVE  KeptInv'
<1>. DEFINE d == IF V.drawing = None THEN None ELSE V.drawing \ S
            h == <<Drawing>> \o V.history
<1>1. /\ Idly /\ UNCHANGED <<drawn, wished, dropped, misled>>
      /\ Edited(Now, Now', Selected, V.sel, d, h)
  BY EraseIs
<1>2. Drawing \in SUBSET Strokes /\ V.history \in Seq(SUBSET Strokes)
  BY DrawingIs
<1>3. \A x : Holds(V, x) => x \in StrokesOf(h)
  BY <1>2, HoldsSelected, StrokesOfCons
<1>. HIDE DEF d, h
<1>. QED
  BY <1>1, <1>3, ExcusedGrows, EditedKeptInv

LEMMA UndoKept ==
  ASSUME TasksInv, KeptInv, UndoDraw
  PROVE  KeptInv'
<1>. DEFINE d == Head(V.history)
            h == Tail(V.history)
<1>1. /\ Idly /\ UNCHANGED <<drawn, dropped, misled>> /\ V.history # <<>>
      /\ wished' = wished \cup (Drawing \ StrokesOf(V.history))
      /\ Edited(Now, Now', Selected, V.sel, d, h)
  BY UndoIs
<1>2. V.history \in Seq(SUBSET Strokes)
  BY DrawingIs
<1>3. d # None
  BY <1>1, <1>2, TailItems, PageViewsAssumption
<1>4. \A x : x \in StrokesOf(V.history) <=> x \in d \/ x \in StrokesOf(h)
  BY <1>1, <1>2, StrokesOfTail
<1>. HIDE DEF d, h
<1>5. Drawing \subseteq Excused' \cup StrokesOf(V.history)
  BY <1>1 DEF Excused
<1>6. \A x : Holds(V, x) => x \in Excused' \/ (d # None /\ x \in d) \/ x \in StrokesOf(h)
  BY <1>3, <1>4, <1>5, HoldsSelected
<1>. QED
  BY <1>1, <1>6, ExcusedGrows, EditedKeptInv

LEMMA CancelDrawKept ==
  ASSUME TasksInv, KeptInv, CancelDraw
  PROVE  KeptInv'
<1>1. /\ Idly /\ UNCHANGED <<drawn, dropped, misled>>
      /\ wished' = wished \cup Drawing \cup StrokesOf(V.history)
  BY CancelDrawIs
<1>2. PICK h : h = <<>> /\ Edited(Now, Now', Selected, V.sel, None, h)
  BY CancelDrawIs
<1>3. \A x : Holds(V, x) => x \in Excused'
  BY <1>1, HoldsSelected DEF Excused
<1>. QED
  BY <1>1, <1>2, <1>3, ExcusedGrows, EditedKeptInv

LEMMA SaveDrawKept ==
  ASSUME TasksInv, KeptInv, SaveDraw
  PROVE  KeptInv'
<1>1. Idly /\ UNCHANGED <<drawn, misled>>
  BY SaveDrawIs
<1>2. CASE Now' = Now /\ wished' = wished /\ dropped' = dropped
  <2>1. Kept(Now', running, doc, deletions, drawn', Excused')
    BY <1>1, <1>2 DEF KeptInv, Excused
  <2>. QED
    BY <1>1, <2>1, IdlyKept
<1>3. CASE /\ V.drawing # None
           /\ wished' = wished \cup (StrokesOf(V.history) \ V.drawing)
           /\ dropped' = dropped \cup Unstarted(Now, Selected)
           /\ \E id \in Nat : \E h : /\ h = <<>>
                /\ Begun(Now, Now', Selected, "ink", id, V.drawing, V.annots, V.sel, None, h)
  <2>. DEFINE r == Now'
              Y == Excused'
  <2>1. PICK id \in Nat : \E h :
          Begun(Now, r, Selected, "ink", id, V.drawing, V.annots, V.sel, None, h)
    BY <1>3
  <2>2. PICK h : Begun(Now, r, Selected, "ink", id, V.drawing, V.annots, V.sel, None, h)
    BY <2>1
  <2>3. Excused \subseteq Y /\ Unstarted(Now, Selected) \subseteq Y
    BY <1>1, <1>3 DEF Excused
  <2>4. \A x : Holds(Now.views[Selected], x) => x \in Y \/ x \in V.drawing
    BY <1>3, SelectedIs DEF Holds, Excused
  <2>5. Selected \in Views /\ Kept(Now, running, doc, deletions, drawn, Excused)
    BY SelectedIs DEF KeptInv
  <2>. HIDE DEF r, Y
  <2>6. Kept(r, running, doc, deletions, drawn, Y)
    BY <2>2, <2>3, <2>4, <2>5, BegunInkKept
  <2>7. Kept(Now', running, doc, deletions, drawn', Excused')
    BY <1>1, <2>6 DEF r, Y
  <2>. QED
    BY <1>1, <2>7, IdlyKept
<1>. QED
  BY <1>2, <1>3, SaveDrawIs

\* Views are released: the drawings that they still wait to have added are lost.
LEMMA RemovalKept ==
  ASSUME NEW s \in States, NEW P \in Seq(Results), NEW R \in Started \cup {None},
         NEW lt \in BOOLEAN, TasksGood(s, P, R, lt), Undrawn(s),
         NEW r \in States, NEW c, Removal(s, r, Live(s.queue, P, R), c),
         NEW D, NEW N, NEW n, NEW X, NEW X2, Kept(s, R, D, N, n, X), X \subseteq X2,
         \A v \in Gone(s, c) : v \in Views => Unstarted(s, v) \subseteq X2
  PROVE  Kept(r, R, D, N, n, X2)
<1>. DEFINE L == Live(s.queue, P, R)
            Z == Gone(s, c)
<1>1. /\ r.queue = s.queue
      /\ \A i \in r.cancelled : i \in s.cancelled \/ (i \in IdsOf(L) /\ \E v \in Z :
           i \in {s.views[v].loader, s.views[v].ink, s.views[v].del})
  BY DEF Removal
<1>2. Remembered(s, L, lt) /\ Z \subseteq Views
  BY DEF TasksGood, Gone, Far, States
<1>3. \A x : ~HeldBy(s, x)
  BY DEF Undrawn, HeldBy, Holds
<1>4. Carried(s, r, X2)
  <2>1. ASSUME NEW j \in DOMAIN s.queue, s.queue[j].kind = "ink", s.queue[j].id \notin s.cancelled,
               s.queue[j].id \in r.cancelled
        PROVE  s.queue[j].what \subseteq X2
    <3>. DEFINE u == Tag(s.queue[j])
    <3>1. u \in L /\ u.id = s.queue[j].id /\ u.kind = "ink" /\ u.view = s.queue[j].view
      BY <2>1, InLive
    <3>. HIDE DEF L, u, Z
    <3>2. PICK v \in Z : u.id \in {s.views[v].loader, s.views[v].ink, s.views[v].del}
      BY <1>1, <2>1, <3>1
    <3>3. u.view = v
      BY <1>2, <3>1, <3>2 DEF Remembered
    <3>4. Unstarted(s, v) \subseteq X2
      BY <1>2, <3>2 DEF Z
    <3>. QED
      BY <2>1, <3>1, <3>3, <3>4, InUnstarted
  <2>. QED
    BY <1>1, <2>1 DEF Carried
<1>. HIDE DEF L, Z
<1>5. \A x : HeldBy(s, x) => \A i \in {0} \cup DOMAIN s.queue : Safe(r, i, x, X2)
  BY <1>3
<1>6. \A i \in DOMAIN r.queue : i \in DOMAIN s.queue \/
           (r.queue[i].kind = "del" => Deletes(r, i, r.queue[i].what, N, X2))
  BY <1>1
<1>7. \A x \in 1..n : x \in 1..n \/ Safe(r, 0, x, X2)
  OBVIOUS
<1>. QED
  BY <1>4, <1>5, <1>6, <1>7, CarriedKept

LEMMA CreationKept ==
  ASSUME NEW s \in States, NEW P \in Seq(Results), NEW R \in Started \cup {None},
         NEW lt \in BOOLEAN, TasksGood(s, P, R, lt), Undrawn(s),
         NEW r \in States, NEW v \in Views, NEW p \in Pages, NEW id \in Nat,
         Creation(s, r, Live(s.queue, P, R), v, p, id),
         NEW D, NEW N, NEW n, NEW X, Kept(s, R, D, N, n, X)
  PROVE  Kept(r, R, D, N, n, X)
<1>. DEFINE L == Live(s.queue, P, R)
            j == Job(id, "loader", v, None)
            m == Len(s.queue) + 1
<1>1. /\ r.queue = Append(s.queue, j)
      /\ \A i \in r.cancelled : i \in s.cancelled \/ (i = s.views[v].loader /\ i \in IdsOf(L))
  BY DEF Creation
<1>2. /\ DOMAIN r.queue = DOMAIN s.queue \cup {m}
      /\ \A i \in DOMAIN s.queue : r.queue[i] = s.queue[i]
      /\ r.queue[m] = j /\ j.kind = "loader"
  <2>1. s.queue \in Seq(Jobs) /\ r.queue \in Seq(Jobs)
    BY DEF States
  <2>2. j.kind = "loader"
    BY DEF Job
  <2>. HIDE DEF j
  <2>. QED
    BY <1>1, <2>1, <2>2
<1>3. Remembered(s, L, lt)
  BY DEF TasksGood
<1>4. \A x : ~HeldBy(s, x)
  BY DEF Undrawn, HeldBy, Holds
<1>5. Carried(s, r, X)
  <2>1. ASSUME NEW i \in DOMAIN s.queue, s.queue[i].kind = "ink", s.queue[i].id \notin s.cancelled,
               s.queue[i].id \in r.cancelled
        PROVE  FALSE
    <3>. DEFINE u == Tag(s.queue[i])
    <3>1. u \in L /\ u.id = s.queue[i].id /\ u.kind = "ink"
      BY <2>1, InLive
    <3>. HIDE DEF L, u, j
    <3>. QED
      BY <1>1, <1>3, <2>1, <3>1 DEF Remembered
  <2>. HIDE DEF L, j, m
  <2>. QED
    BY <1>2, <2>1 DEF Carried
<1>. HIDE DEF L, j, m
<1>6. \A x : HeldBy(s, x) => \A i \in {0} \cup DOMAIN s.queue : Safe(r, i, x, X)
  BY <1>4
<1>7. \A i \in DOMAIN r.queue : i \in DOMAIN s.queue \/
           (r.queue[i].kind = "del" => Deletes(r, i, r.queue[i].what, N, X))
  BY <1>2
<1>8. \A x \in 1..n : x \in 1..n \/ Safe(r, 0, x, X)
  OBVIOUS
<1>. QED
  BY <1>5, <1>6, <1>7, <1>8, CarriedKept

LEMMA MoveToKept ==
  ASSUME TasksInv, InkInv, KeptInv, NEW p \in Pages, MoveTo(p)
  PROVE  KeptInv'
<1>. DEFINE off == [Now EXCEPT !.views = [views EXCEPT ![Selected] = [V EXCEPT !.sel = None]]]
            s == OnLayout(off, p)
            Y == Excused'
            T == {x \in States : /\ TasksGood(x, posts, running, late) /\ Undrawn(x)
                                 /\ Kept(x, running, doc, deletions, drawn, Y)}
<1>1. /\ UNCHANGED <<doc, deletions, running, posts, drawn, wished, misled>>
      /\ cur' = p /\ mode # "Drawing"
      /\ Edited(Now, off, Selected, None, V.drawing, V.history)
      /\ Becomes(s)
      /\ dropped' = dropped \cup
           UNION {Unstarted(Now, child[q]) : q \in {r \in Pages :
                    child[r] # None /\ s.child[r] # child[r]}}
  BY MoveToIs
<1>2. TasksInv' /\ child' = s.child
  BY <1>1, MoveToTasks DEF Becomes
<1>. HIDE DEF off
<1>3. /\ off \in States /\ off.child = child /\ off.queue = queue /\ off.cancelled = cancelled
  BY <1>1, NowIs DEF Edited
<1>4. \A q \in Pages : child[q] # None /\ (q + 1 < p \/ q > p + 1) => child'[q] = None
  <2>1. ASSUME NEW q \in Pages, child'[q] # None
        PROVE  p <= q + 1 /\ q <= p + 1
    <3>1. Around(Now', cur') /\ Now'.child = child'
      BY <1>2 DEF TasksInv, Now
    <3>. QED
      BY <1>1, <2>1, <3>1 DEF Around
  <2>2. \A q \in Pages : q \in Int
    BY PageViewsAssumption DEF Pages
  <2>3. p \in Int
    BY <2>2
  <2>. QED
    BY <2>1, <2>2, <2>3
<1>5. Excused \subseteq Y /\ dropped' \subseteq Y
  BY <1>1 DEF Excused
<1>6. \A v \in Gone(off, p) : Unstarted(off, v) \subseteq Y
  <2>1. ASSUME NEW q \in Far(off, p)
        PROVE  Unstarted(Now, child[q]) \subseteq dropped'
    <3>1. q \in Pages /\ child[q] # None /\ child'[q] = None
      BY <1>3, <1>4, <2>1 DEF Far
    <3>. HIDE DEF s
    <3>. QED
      BY <1>1, <1>2, <3>1
  <2>2. \A v : Unstarted(off, v) = Unstarted(Now, v)
    BY <1>3, NowIs DEF Unstarted
  <2>. HIDE DEF Y
  <2>. QED
    BY <1>3, <1>5, <2>1, <2>2 DEF Gone
<1>7. TasksGood(off, posts, running, late)
  BY <1>1, EditedTasks, SelectedIs DEF Edited
<1>8. /\ posts \in Seq(Results) /\ running \in Started \cup {None} /\ late \in BOOLEAN
      /\ Now \in States /\ Selected \in Views /\ V = Now.views[Selected]
  BY TasksInvTypes, TasksTypes, SelectedIs
<1>9. Undrawn(Now)
  BY <1>1 DEF InkInv, OnlyDrawn, Undrawn
<1>10. Undrawn(off)
  BY <1>1, <1>8, <1>9 DEF Edited, Undrawn
<1>11. Kept(off, running, doc, deletions, drawn, Excused)
  <2>1. \A x : Holds(Now.views[Selected], x) => x \in Excused \/ (V.drawing # None /\ x \in V.drawing)
                                                  \/ x \in StrokesOf(V.history)
    BY <1>8 DEF Holds
  <2>2. Kept(Now, running, doc, deletions, drawn, Excused)
    BY DEF KeptInv
  <2>. QED
    BY <1>1, <1>8, <2>1, <2>2, EditedKept
<1>. HIDE DEF Y
<1>12. s \in States /\ s \in T
  <2>1. \A r \in States : Removal(off, r, Live(off.queue, posts, running), p) => r \in T
    <3>1. SUFFICES ASSUME NEW r \in States, Removal(off, r, Live(off.queue, posts, running), p)
                   PROVE  r \in T
      OBVIOUS
    <3>2. TasksGood(r, posts, running, late)
      BY <1>3, <1>7, <1>8, <3>1, RemovalTasksGood
    <3>3. Undrawn(r)
      BY <1>10, <3>1, NoStrokes DEF Removal, Undrawn
    <3>4. Kept(r, running, doc, deletions, drawn, Y)
      BY <1>3, <1>5, <1>6, <1>7, <1>8, <1>10, <1>11, <3>1, RemovalKept
    <3>. QED
      BY <3>1, <3>2, <3>3, <3>4
  <2>2. \A x \in T, y \in States, v \in Views, q \in Pages, id \in Nat :
          Creation(x, y, Live(x.queue, posts, running), v, q, id) => y \in T
    <3>1. SUFFICES ASSUME NEW x \in T, NEW y \in States, NEW v \in Views, NEW q \in Pages,
                          NEW id \in Nat, Creation(x, y, Live(x.queue, posts, running), v, q, id)
                   PROVE  y \in T
      OBVIOUS
    <3>2. TasksGood(y, posts, running, late)
      BY <1>8, <3>1, CreationTasksGood
    <3>3. Undrawn(y)
      BY <3>1, NoStrokes DEF Creation, SameInk, Undrawn
    <3>4. Kept(y, running, doc, deletions, drawn, Y)
      BY <1>8, <3>1, CreationKept
    <3>. QED
      BY <3>1, <3>2, <3>3, <3>4
  <2>3. \A x \in T : Placed(x) /\ Distinct(x.queue, posts, running)
    BY DEF TasksGood
  <2>4. Placed(off)
    BY <1>7 DEF TasksGood
  <2>. HIDE DEF T
  <2>5. OnLayout(off, p) \in States /\ OnLayout(off, p) \in T
    BY <1>3, <1>8, <2>1, <2>2, <2>3, <2>4, LayoutKeeps
  <2>. QED
    BY <2>5
<1>. HIDE DEF s
<1>13. Now' = s
  BY <1>1, <1>12, BecomesIs
<1>14. Kept(Now', running', doc', deletions', drawn', Y)
  BY <1>1, <1>12, <1>13
<1>. QED
  BY <1>14 DEF KeptInv, Y

\* What waits is not cancelled, and what the views hold stays.
LEMMA StillKept ==
  ASSUME NEW s, NEW r, NEW R, NEW D, NEW N, NEW n, NEW X, Kept(s, R, D, N, n, X),
         r.queue = s.queue,
         \A j \in DOMAIN s.queue : s.queue[j].kind = "ink" /\ s.queue[j].id \in r.cancelled =>
           s.queue[j].id \in s.cancelled,
         \A v \in Views : r.views[v].drawing = s.views[v].drawing /\ r.views[v].history = s.views[v].history
  PROVE  Kept(r, R, D, N, n, X)
<1>1. Carried(s, r, X)
  BY DEF Carried
<1>2. \A x : HeldBy(s, x) => \A i \in {0} \cup DOMAIN s.queue : Safe(r, i, x, X)
  BY DEF HeldBy, Holds, Safe
<1>3. \A i \in DOMAIN r.queue : i \in DOMAIN s.queue \/
           (r.queue[i].kind = "del" => Deletes(r, i, r.queue[i].what, N, X))
  OBVIOUS
<1>4. \A x \in 1..n : x \in 1..n \/ Safe(r, 0, x, X)
  OBVIOUS
<1>. QED
  BY <1>1, <1>2, <1>3, <1>4, CarriedKept

LEMMA DeliverKept ==
  ASSUME TasksInv, KeptInv, Deliver
  PROVE  KeptInv'
<1>. DEFINE t == Head(posts)
            r == Now'
<1>1. /\ posts # <<>> /\ UNCHANGED <<doc, deletions, running, drawn, wished, dropped, misled>>
  BY DeliverIs
<1>2. /\ t.view \in Views /\ Now \in States
  BY <1>1, HeadOfPosts, TasksInvTypes
<1>3. Kept(Now, running, doc, deletions, drawn, Excused)
  BY DEF KeptInv
<1>4. SUFFICES Kept(r, running, doc, deletions, drawn, Excused)
  <2>1. Excused' = Excused
    BY <1>1 DEF Excused
  <2>2. Kept(Now', running, doc, deletions, drawn, Excused)
    BY <1>4
  <2>3. Kept(Now', running', doc', deletions', drawn', Excused')
    BY <1>1, <2>1, <2>2
  <2>. QED
    BY <2>3 DEF KeptInv
<1>5. CASE views' = views /\ queue' = queue /\ cancelled' = cancelled \ {t.id}
  <2>1. /\ r.queue = Now.queue /\ r.views = Now.views
        /\ \A i \in r.cancelled : i \in Now.cancelled
    BY <1>5 DEF Now
  <2>. HIDE DEF r, t
  <2>. QED
    BY <1>3, <2>1, StillKept
<1>6. CASE \E id \in Nat :
             Begun(Now, Now', t.view, "loader", id, None, None, views[t.view].sel,
                   views[t.view].drawing, views[t.view].history)
  <2>. DEFINE w == Now.views[t.view]
  <2>1. PICK id \in Nat :
             Begun(Now, Now', t.view, "loader", id, None, None, views[t.view].sel,
                   views[t.view].drawing, views[t.view].history)
    BY <1>6
  <2>2. Begun(Now, r, t.view, "loader", id, None, None, w.sel, w.drawing, w.history)
    BY <2>1, NowIs
  <2>3. \A x : Holds(w, x) => x \in Excused \/ (w.drawing # None /\ x \in w.drawing)
                                \/ x \in StrokesOf(w.history)
    BY DEF Holds
  <2>. HIDE DEF r, t
  <2>4. "loader" # "del"
    OBVIOUS
  <2>. QED
    BY <1>2, <1>3, <2>2, <2>3, <2>4, BegunKept
<1>7. CASE Relisted(Now, Now', t.view, t.what) /\ cancelled' = cancelled
  <2>1. /\ r.queue = Now.queue /\ r.cancelled = Now.cancelled
        /\ \A v \in Views : r.views[v].drawing = Now.views[v].drawing
                            /\ r.views[v].history = Now.views[v].history
    BY <1>2, <1>7 DEF Relisted, SameInk, Now
  <2>. HIDE DEF r, t
  <2>. QED
    BY <1>3, <2>1, StillKept
<1>. QED
  BY <1>5, <1>6, <1>7, DeliverIs

LEMMA StartKept ==
  ASSUME TasksInv, KeptInv, Start
  PROVE  KeptInv'
<1>. DEFINE t == Head(queue)
            r == Now'
            S == running'
<1>1. /\ running = None /\ queue # <<>> /\ queue' = Tail(queue) /\ t \in Jobs
      /\ UNCHANGED <<views, doc, deletions, posts, misled>> /\ UNCHANGED <<drawn, wished, dropped>>
      /\ \/ /\ t.id \in cancelled /\ cancelled' = cancelled \ {t.id}
            /\ S = None
         \/ /\ t.id \notin cancelled /\ cancelled' = cancelled /\ S \in Started
            /\ S.step = "read" /\ S.what = t.what /\ S.kind = t.kind
  BY StartIs DEF NotUI
<1>2. /\ queue \in Seq(Jobs) /\ Distinct(queue, posts, running)
  BY TasksInvTypes, NowIs DEF TasksInv, TasksGood
<1>3. /\ t = queue[1] /\ 1 \in DOMAIN queue
      /\ \A i \in DOMAIN queue' : i \in Nat /\ i > 0 /\ i + 1 \in DOMAIN queue /\ queue'[i] = queue[i + 1]
      /\ \A i \in DOMAIN queue : i = 1 \/ (i - 1 \in DOMAIN queue' /\ queue'[i - 1] = queue[i])
      /\ DOMAIN queue \subseteq Nat \ {0}
  BY <1>1, <1>2, TailItems
<1>4. /\ r.queue = queue' /\ r.views = views /\ r.cancelled = cancelled'
      /\ Now.queue = queue /\ Now.views = views /\ Now.cancelled = cancelled
  BY <1>1 DEF Now
<1>5. Kept(Now, None, doc, deletions, drawn, Excused)
  BY <1>1 DEF KeptInv
<1>. HIDE DEF t, r, S
<1>6. S # None => S.step = "read" /\ S.what = t.what /\ S.kind = t.kind /\ t.id \notin cancelled
  BY <1>1
<1>7. ASSUME NEW x, NEW i \in DOMAIN queue, Safe(Now, i, x, Excused)
      PROVE  Safe(r, i - 1, x, Excused)
  <2>1. CASE WaitsIn(Now, i, x)
    <3>1. PICK j \in DOMAIN queue : /\ j > i /\ queue[j].kind = "ink" /\ x \in queue[j].what
                                    /\ queue[j].id \notin cancelled
      BY <1>4, <2>1 DEF WaitsIn
    <3>2. i \in Nat \ {0} /\ j \in Nat
      BY <1>3
    <3>3. j # 1 /\ j - 1 > i - 1
      BY <3>1, <3>2
    <3>4. j - 1 \in DOMAIN queue' /\ queue'[j - 1] = queue[j]
      BY <1>3, <3>3
    <3>5. queue[j].id \notin cancelled'
      BY <1>1, <3>1
    <3>6. WaitsIn(r, i - 1, x)
      BY <1>4, <3>1, <3>3, <3>4, <3>5 DEF WaitsIn
    <3>. QED
      BY <3>6 DEF Safe
  <2>2. CASE HeldBy(Now, x)
    BY <1>4, <2>2 DEF Safe, HeldBy
  <2>. QED
    BY <1>7, <2>1, <2>2 DEF Safe
<1>8. ASSUME NEW x, Safe(Now, 0, x, Excused)
      PROVE  Safe(r, 0, x, Excused) \/ BeingAdded(S, x)
  <2>1. CASE WaitsIn(Now, 0, x)
    <3>1. PICK j \in DOMAIN queue : /\ queue[j].kind = "ink" /\ x \in queue[j].what
                                    /\ queue[j].id \notin cancelled
      BY <1>4, <2>1 DEF WaitsIn
    <3>2. CASE j = 1
      <4>1. t.id \notin cancelled /\ t.kind = "ink" /\ x \in t.what
        BY <1>3, <3>1, <3>2
      <4>2. S \in Started /\ S.kind = "ink" /\ S.what = t.what
        BY <1>1, <4>1
      <4>. QED
        BY <4>1, <4>2, StartedType DEF BeingAdded
    <3>3. CASE j # 1
      <4>1. j - 1 \in DOMAIN queue' /\ queue'[j - 1] = queue[j]
        BY <1>3, <3>3
      <4>2. j - 1 > 0
        BY <1>3, <4>1
      <4>3. queue[j].id \notin cancelled'
        BY <1>1, <3>1
      <4>4. WaitsIn(r, 0, x)
        BY <1>4, <3>1, <4>1, <4>2, <4>3 DEF WaitsIn
      <4>. QED
        BY <4>4 DEF Safe
    <3>. QED
      BY <3>2, <3>3
  <2>2. CASE HeldBy(Now, x)
    BY <1>4, <2>2 DEF Safe, HeldBy
  <2>. QED
    BY <1>8, <2>1, <2>2 DEF Safe
<1>9. \A i \in DOMAIN r.queue : r.queue[i].kind = "del" =>
        Deletes(r, i, r.queue[i].what, deletions, Excused)
  <2>1. ASSUME NEW i \in DOMAIN queue', queue'[i].kind = "del"
        PROVE  Deletes(r, i, queue'[i].what, deletions, Excused)
    <3>1. i + 1 \in DOMAIN queue /\ queue'[i] = queue[i + 1] /\ (i + 1) - 1 = i
      BY <1>3
    <3>2. Deletes(Now, i + 1, queue[i + 1].what, deletions, Excused)
      BY <1>4, <1>5, <2>1, <3>1 DEF Kept
    <3>3. \A x : Safe(Now, i + 1, x, Excused) => Safe(r, i, x, Excused)
      BY <1>7, <3>1
    <3>. QED
      BY <3>1, <3>2, <3>3 DEF Deletes
  <2>. QED
    BY <1>4, <2>1
<1>10. S # None /\ S.kind = "del" => Deletes(r, 0, S.what, deletions, Excused)
  <2>1. ASSUME S # None, S.kind = "del"
        PROVE  Deletes(r, 0, S.what, deletions, Excused)
    <3>1. Deletes(Now, 1, t.what, deletions, Excused)
      BY <1>3, <1>4, <1>5, <1>6, <2>1 DEF Kept
    <3>2. \A x : Safe(Now, 1, x, Excused) => Safe(r, 0, x, Excused)
      BY <1>3, <1>7
    <3>. QED
      BY <1>6, <2>1, <3>1, <3>2 DEF Deletes
  <2>. QED
    BY <2>1
<1>11. \A x \in 1..drawn : Safe(r, 0, x, Excused) \/ InDocument(doc, x) \/ BeingAdded(S, x)
  BY <1>5, <1>8 DEF Kept, BeingAdded
<1>12. Kept(r, S, doc, deletions, drawn, Excused)
  BY <1>6, <1>9, <1>10, <1>11 DEF Kept
<1>13. Kept(Now', running', doc', deletions', drawn', Excused')
  <2>1. Excused' = Excused
    BY <1>1 DEF Excused
  <2>2. Kept(Now', running', doc, deletions, drawn, Excused)
    BY <1>12 DEF r, S
  <2>. QED
    BY <1>1, <2>1, <2>2
<1>. QED
  BY <1>13 DEF KeptInv

LEMMA SafeMore ==
  ASSUME NEW s, NEW i, NEW x, NEW X, NEW Y, X \subseteq Y, Safe(s, i, x, X)
  PROVE  Safe(s, i, x, Y)
BY DEF Safe

\* A task on the background thread leaves the views alone.
LEMMA BackgroundKept ==
  ASSUME TaskStep, Kept(Now, running', doc', deletions', drawn, Excused')
  PROVE  KeptInv'
<1>1. Now' = Now /\ drawn' = drawn
  BY DEF TaskStep, NotUI, Now
<1>2. Kept(Now', running', doc', deletions', drawn', Excused')
  BY <1>1
<1>. QED
  BY <1>2 DEF KeptInv

LEMMA ReadPageKept ==
  ASSUME TasksInv, KeptInv, ReadPage
  PROVE  KeptInv'
<1>1. /\ running # None /\ TaskStep /\ UNCHANGED <<doc, deletions, misled>>
      /\ running'.kind = running.kind /\ running'.what = running.what /\ running'.step = "core"
      /\ running' \in Started
  BY ReadPageIs DEF Stepped
<1>2. Excused' = Excused
  BY <1>1 DEF Excused, TaskStep, NotUI
<1>3. Kept(Now, running', doc, deletions, drawn, Excused)
  <2>1. running' # None /\ running'.step \notin {"clear", "reload"}
    BY <1>1, StartedType
  <2>2. Kept(Now, running, doc, deletions, drawn, Excused)
    BY DEF KeptInv
  <2>3. \A x : BeingAdded(running, x) <=> BeingAdded(running', x)
    BY <1>1, <2>1 DEF BeingAdded
  <2>. QED
    BY <1>1, <2>1, <2>2, <2>3 DEF Kept
<1>4. Kept(Now, running', doc', deletions', drawn, Excused')
  BY <1>1, <1>2, <1>3
<1>. QED
  BY <1>1, <1>4, BackgroundKept

LEMMA GetAnnotationsKept ==
  ASSUME TasksInv, KeptInv, GetAnnotations
  PROVE  KeptInv'
<1>1. /\ running # None /\ running.kind = "loader" /\ running' = None
      /\ TaskStep /\ UNCHANGED <<doc, deletions, misled>>
  BY GetAnnotationsIs
<1>2. Excused' = Excused
  BY <1>1 DEF Excused, TaskStep, NotUI
<1>3. Kept(Now, None, doc, deletions, drawn, Excused)
  BY <1>1 DEF KeptInv, Kept, BeingAdded
<1>4. Kept(Now, running', doc', deletions', drawn, Excused')
  BY <1>1, <1>2, <1>3
<1>. QED
  BY <1>1, <1>4, BackgroundKept

\* What is in the document when the i-th annotation of the page p is removed.
LEMMA RemovedFrom ==
  ASSUME NEW D \in [Pages -> Seq(SUBSET Strokes)], NEW p \in Pages, NEW i \in DOMAIN D[p],
         NEW E, E = [D EXCEPT ![p] = RemoveAt(D[p], i)],
         NEW x, InDocument(D, x)
  PROVE  InDocument(E, x) \/ x \in D[p][i]
<1>. DEFINE r == RemoveAt(D[p], i)
<1>1. \A k \in DOMAIN D[p] : k = i \/ \E j \in DOMAIN r : r[j] = D[p][k]
  <2>1. D[p] \in Seq(SUBSET Strokes)
    OBVIOUS
  <2>. QED
    BY <2>1, RemoveAtItems
<1>2. E[p] = r /\ \A q \in Pages : q # p => E[q] = D[q]
  OBVIOUS
<1>. HIDE DEF r
<1>3. PICK q \in Pages : x \in StrokesOf(D[q])
  BY DEF InDocument
<1>4. CASE q = p
  <2>1. PICK k \in DOMAIN D[p] : x \in D[p][k]
    BY <1>3, <1>4, StrokesIn
  <2>2. CASE k = i
    BY <2>1, <2>2
  <2>3. CASE k # i
    <3>1. PICK j \in DOMAIN r : r[j] = D[p][k]
      BY <1>1, <2>3
    <3>2. x \in StrokesOf(r)
      BY <2>1, <3>1, StrokesIn
    <3>. QED
      BY <1>2, <3>2 DEF InDocument
  <2>. QED
    BY <2>2, <2>3
<1>5. CASE q # p
  BY <1>2, <1>3, <1>5 DEF InDocument
<1>. QED
  BY <1>4, <1>5

LEMMA DeleteAnnotationKept ==
  ASSUME TasksInv, DatedInv, KeptInv, DeleteAnnotation
  PROVE  KeptInv'
<1>. DEFINE p == running.page
            e == running.what
            i == running.what.at
            Y == Excused'
<1>1. /\ running # None /\ running.kind = "del" /\ running' = None /\ TaskStep
      /\ p \in Pages /\ e \in Selections
      /\ \/ UNCHANGED <<doc, deletions, misled>>
         \/ /\ i \in DOMAIN doc[p]
            /\ doc' = [doc EXCEPT ![p] = RemoveAt(doc[p], i)]
            /\ deletions' = [deletions EXCEPT ![p] = deletions[p] + 1]
            /\ misled' = IF e.since = deletions[p] /\ e.of = p
                         THEN misled ELSE misled \cup doc[p][i]
  BY DeleteAnnotationIs
<1>2. Kept(Now, running, doc, deletions, drawn, Excused)
  BY DEF KeptInv
<1>3. /\ doc \in [Pages -> Seq(SUBSET Strokes)] /\ deletions \in [Pages -> Nat] /\ Now \in States
  BY TasksTypes, TasksInvTypes
<1>4. \A x : ~BeingAdded(running, x)
  BY <1>1 DEF BeingAdded
<1>5. CASE UNCHANGED <<doc, deletions, misled>>
  <2>1. Excused' = Excused
    BY <1>1, <1>5 DEF Excused, TaskStep, NotUI
  <2>2. Kept(Now, None, doc, deletions, drawn, Excused)
    BY <1>2, <1>4 DEF Kept
  <2>3. Kept(Now, running', doc', deletions', drawn, Excused')
    BY <1>1, <1>5, <2>1, <2>2
  <2>. QED
    BY <1>1, <2>3, BackgroundKept
<1>6. CASE /\ i \in DOMAIN doc[p]
           /\ doc' = [doc EXCEPT ![p] = RemoveAt(doc[p], i)]
           /\ deletions' = [deletions EXCEPT ![p] = deletions[p] + 1]
           /\ misled' = IF e.since = deletions[p] /\ e.of = p
                        THEN misled ELSE misled \cup doc[p][i]
  <2>1. misled \subseteq misled' /\ wished' = wished /\ dropped' = dropped
    BY <1>1, <1>6 DEF TaskStep, NotUI
  <2>2. Excused \subseteq Y /\ misled' \subseteq Y
    BY <2>1 DEF Excused
  <2>. HIDE DEF Y
  <2>3. /\ deletions'[p] = deletions[p] + 1 /\ deletions[p] \in Nat
        /\ \A q \in Pages : q # p => deletions'[q] = deletions[q]
    BY <1>1, <1>3, <1>6
  <2>. HIDE DEF p, i, e
  <2>4. ASSUME NEW j \in DOMAIN Now.queue, Now.queue[j].kind = "del"
        PROVE  Deletes(Now, j, Now.queue[j].what, deletions', Y)
    <3>. DEFINE q == Now.queue[j].what
    <3>1. q \in Selections
      BY <1>3, <2>4, JobType DEF States
    <3>2. q.of \in Pages /\ q.since \in Nat
      BY <3>1 DEF Selections
    <3>3. Taken(q, doc, deletions) /\ Deletes(Now, j, q, deletions, Excused)
      BY <1>2, <2>4 DEF DatedInv, Dated, History, Kept
    <3>. HIDE DEF q
    <3>4. q.since <= deletions[q.of]
      BY <3>3 DEF Taken
    <3>5. CASE q.of = p
      <4>1. q.since # deletions'[q.of]
        BY <2>3, <3>2, <3>4, <3>5
      <4>2. Deletes(Now, j, q, deletions', Y)
        BY <4>1 DEF Deletes
      <4>. QED
        BY <4>2 DEF q
    <3>6. CASE q.of # p
      <4>1. deletions'[q.of] = deletions[q.of]
        BY <2>3, <3>2, <3>6
      <4>2. Deletes(Now, j, q, deletions', Y)
        BY <2>2, <3>3, <4>1, SafeMore DEF Deletes
      <4>. QED
        BY <4>2 DEF q
    <3>. QED
      BY <3>5, <3>6
  <2>5. ASSUME NEW x \in doc[p][i]
        PROVE  Safe(Now, 0, x, Y)
    <3>1. CASE e.since = deletions[p] /\ e.of = p
      <4>1. Taken(e, doc, deletions) /\ Deletes(Now, 0, e, deletions, Excused)
        BY <1>1, <1>2 DEF DatedInv, Dated, History, Kept, e
      <4>2. x \in e.annot
        BY <2>5, <3>1, <4>1 DEF Taken, i, e
      <4>3. Safe(Now, 0, x, Excused)
        BY <3>1, <4>1, <4>2 DEF Deletes
      <4>. QED
        BY <2>2, <4>3, SafeMore
    <3>2. CASE ~(e.since = deletions[p] /\ e.of = p)
      <4>1. x \in misled'
        BY <1>6, <2>5, <3>2
      <4>. QED
        BY <2>2, <4>1 DEF Safe
    <3>. QED
      BY <3>1, <3>2
  <2>6. ASSUME NEW x \in 1..drawn
        PROVE  Safe(Now, 0, x, Y) \/ InDocument(doc', x)
    <3>1. Safe(Now, 0, x, Excused) \/ InDocument(doc, x)
      BY <1>2, <1>4 DEF Kept
    <3>2. InDocument(doc, x) => InDocument(doc', x) \/ x \in doc[p][i]
      BY <1>1, <1>3, <1>6, RemovedFrom
    <3>. QED
      BY <2>2, <2>5, <3>1, <3>2, SafeMore
  <2>7. Kept(Now, None, doc', deletions', drawn, Y)
    BY <2>4, <2>6 DEF Kept
  <2>8. Kept(Now, running', doc', deletions', drawn, Excused')
    BY <1>1, <2>7 DEF Y
  <2>. QED
    BY <1>1, <2>8, BackgroundKept
<1>. QED
  BY <1>1, <1>5, <1>6

LEMMA AddInkKept ==
  ASSUME TasksInv, KeptInv, AddInkAnnotation
  PROVE  KeptInv'
<1>. DEFINE p == running.page
            d == running.what
            Y == Excused'
            E == doc'
<1>1. /\ running # None /\ running.kind = "ink" /\ TaskStep /\ deletions' = deletions
      /\ p \in Pages /\ d \in SUBSET Strokes
      /\ doc' = [doc EXCEPT ![p] = Append(doc[p], d)]
      /\ misled' = IF p # running.from THEN misled \cup d ELSE misled
      /\ Stepped(running, running', "clear", p)
  BY AddInkIs
<1>2. running'.kind = "ink" /\ running'.what = d /\ running' # None
  <2>1. running' \in Started /\ running'.kind = "ink" /\ running'.what = d
    BY <1>1 DEF Stepped
  <2>. QED
    BY <2>1, StartedType
<1>3. misled \subseteq misled' /\ wished' = wished /\ dropped' = dropped
  BY <1>1 DEF TaskStep, NotUI
<1>4. Excused \subseteq Y
  BY <1>3 DEF Excused
<1>. HIDE DEF p, d, Y
<1>5. /\ \A x \in d : InDocument(E, x)
      /\ \A x : InDocument(doc, x) => InDocument(E, x)
  <2>1. doc \in [Pages -> Seq(SUBSET Strokes)] /\ doc[p] \in Seq(SUBSET Strokes)
    BY <1>1, TasksTypes
  <2>2. \A x : x \in StrokesOf(Append(doc[p], d)) <=> x \in d \/ x \in StrokesOf(doc[p])
    BY <1>1, <2>1, StrokesOfAppend
  <2>3. E[p] = Append(doc[p], d) /\ \A q \in Pages : q # p => E[q] = doc[q]
    BY <1>1, <2>1
  <2>. HIDE DEF E
  <2>. QED
    BY <1>1, <2>2, <2>3 DEF InDocument
<1>. HIDE DEF E
<1>6. Kept(Now, running, doc, deletions, drawn, Excused)
  BY DEF KeptInv
<1>7. \A j \in DOMAIN Now.queue : Now.queue[j].kind = "del" =>
        Deletes(Now, j, Now.queue[j].what, deletions, Y)
  BY <1>4, <1>6, SafeMore DEF Kept, Deletes
<1>8. ASSUME NEW x \in 1..drawn
      PROVE  Safe(Now, 0, x, Y) \/ InDocument(E, x)
  <2>1. Safe(Now, 0, x, Excused) \/ InDocument(doc, x) \/ x \in d
    BY <1>6 DEF Kept, BeingAdded, d
  <2>. QED
    BY <1>4, <1>5, <2>1, SafeMore
<1>9. Kept(Now, running', E, deletions, drawn, Y)
  BY <1>2, <1>5, <1>7, <1>8 DEF Kept
<1>10. Kept(Now, running', doc', deletions', drawn, Excused')
  BY <1>1, <1>9 DEF E, Y
<1>. QED
  BY <1>1, <1>10, BackgroundKept

LEMMA ClearKept ==
  ASSUME TasksInv, KeptInv, ClearAnnotations
  PROVE  KeptInv'
<1>. DEFINE v == running.view
            i == views[running.view].loader
            r == Now'
<1>1. /\ running # None /\ running.kind = "ink" /\ running.step = "clear" /\ v \in Views
      /\ UNCHANGED <<doc, deletions, misled>> /\ NotUI
      /\ Relisted(Now, r, v, None)
      /\ cancelled' = cancelled \cup ({i} \cap IdsOf(Work))
      /\ Stepped(running, running', "reload", i)
  BY ClearIs
<1>2. /\ running' # None /\ running'.kind = "ink" /\ running'.what = running.what
  <2>1. running' \in Started /\ running'.kind = "ink" /\ running'.what = running.what
    BY <1>1 DEF Stepped
  <2>. QED
    BY <2>1, StartedType
<1>3. Now \in States /\ Live(Now.queue, posts, running) = Work /\ Remembered(Now, Work, late)
  BY TasksInvTypes, NowIs DEF TasksInv, TasksGood
<1>4. r.cancelled = cancelled' /\ Now.cancelled = cancelled /\ i = Now.views[v].loader
  BY NowIs DEF Now
<1>. HIDE DEF r, v, i
<1>5. \A j \in DOMAIN Now.queue : Now.queue[j].kind = "ink" /\ Now.queue[j].id \in r.cancelled =>
           Now.queue[j].id \in Now.cancelled
  <2>1. ASSUME NEW j \in DOMAIN Now.queue, Now.queue[j].kind = "ink", Now.queue[j].id = i
        PROVE  FALSE
    <3>. DEFINE u == Tag(Now.queue[j])
    <3>1. u \in Work /\ u.id = i /\ u.kind = "ink"
      BY <1>3, <2>1, InLive
    <3>. HIDE DEF u
    <3>2. u.kind = "loader"
      BY <1>1, <1>3, <1>4, <3>1 DEF Remembered
    <3>. QED
      BY <3>1, <3>2
  <2>. QED
    BY <1>1, <1>4, <2>1
<1>6. Kept(Now, running, doc, deletions, drawn, Excused)
  BY DEF KeptInv
<1>7. /\ r.queue = Now.queue
      /\ \A w \in Views : r.views[w].drawing = Now.views[w].drawing
                          /\ r.views[w].history = Now.views[w].history
  BY <1>1 DEF Relisted, SameInk
<1>8. Kept(r, running, doc, deletions, drawn, Excused)
  BY <1>5, <1>6, <1>7, StillKept
<1>9. Kept(r, running', doc, deletions, drawn, Excused)
  BY <1>1, <1>2, <1>8 DEF Kept, BeingAdded
<1>10. Excused' = Excused /\ drawn' = drawn
  BY <1>1 DEF Excused, NotUI
<1>11. Kept(Now', running', doc', deletions', drawn', Excused')
  BY <1>1, <1>9, <1>10 DEF r
<1>. QED
  BY <1>11 DEF KeptInv

LEMMA ReloadKept ==
  ASSUME TasksInv, KeptInv, Reload
  PROVE  KeptInv'
<1>. DEFINE v == running.view
            r == Now'
<1>1. /\ running # None /\ running.kind = "ink" /\ running.step = "reload" /\ running' = None
      /\ v \in Views /\ UNCHANGED <<doc, deletions, misled>> /\ NotUI
      /\ cancelled' = cancelled \ {running.id}
  BY ReloadIs
<1>2. PICK id \in Nat :
         /\ queue' = Append(queue, Job(id, "loader", v, None))
         /\ \A w \in Views : w # v => views'[w] = views[w]
         /\ SameInk(views'[v], views[v])
  BY ReloadIs
<1>3. /\ DOMAIN queue' = DOMAIN queue \cup {Len(queue) + 1}
      /\ \A i \in DOMAIN queue : queue'[i] = queue[i]
      /\ queue'[Len(queue) + 1].kind # "del"
  <2>1. Job(id, "loader", v, None) \in Jobs /\ Job(id, "loader", v, None).kind # "del"
    BY <1>1 DEF Job, Jobs
  <2>. QED
    BY <1>2, <2>1, TasksInvTypes, AppendItems
<1>4. Kept(Now, running, doc, deletions, drawn, Excused)
  BY DEF KeptInv
<1>5. Kept(Now, None, doc, deletions, drawn, Excused)
  BY <1>1, <1>4 DEF Kept, BeingAdded
<1>6. /\ r.queue = queue' /\ r.views = views' /\ r.cancelled = cancelled'
      /\ Now.queue = queue /\ Now.views = views /\ Now.cancelled = cancelled
  BY DEF Now
<1>. HIDE DEF r, v
<1>7. \A w \in Views : r.views[w].drawing = Now.views[w].drawing
                       /\ r.views[w].history = Now.views[w].history
  BY <1>2, <1>6 DEF SameInk
<1>8. Carried(Now, r, Excused)
  BY <1>1, <1>3, <1>6 DEF Carried
<1>9. \A x : HeldBy(Now, x) => \A i \in {0} \cup DOMAIN Now.queue : Safe(r, i, x, Excused)
  BY <1>7 DEF HeldBy, Holds, Safe
<1>10. \A i \in DOMAIN r.queue : i \in DOMAIN Now.queue \/
         (r.queue[i].kind = "del" => Deletes(r, i, r.queue[i].what, deletions, Excused))
  BY <1>3, <1>6
<1>11. Kept(r, None, doc, deletions, drawn, Excused)
  <2>1. \A x \in 1..drawn : x \in 1..drawn \/ Safe(r, 0, x, Excused)
    OBVIOUS
  <2>. QED
    BY <1>5, <1>8, <1>9, <1>10, <2>1, CarriedKept
<1>12. Excused' = Excused /\ drawn' = drawn
  BY <1>1 DEF Excused, NotUI
<1>13. Kept(Now', running', doc', deletions', drawn', Excused')
  BY <1>1, <1>11, <1>12 DEF r
<1>. QED
  BY <1>13 DEF KeptInv

\* At first every stroke is in the document, and the tasks only load.
LEMMA InitKept ==
  ASSUME Init
  PROVE  KeptInv
<1>1. /\ 0 \in Pages /\ posts = <<>> /\ running = None
      /\ posts \in Seq(Results) /\ running \in Started \cup {None} /\ late \in BOOLEAN
  BY InitIs
<1>2. PICK b \in States :
              /\ b.queue = <<>>
              /\ \A p \in Pages : b.child[p] = None
              /\ \A v \in Views : b.views[v] = FreshView
              /\ TasksGood(b, posts, running, late) /\ Placed(b)
              /\ Now = OnLayout(b, 0)
  BY InitIs
<1>. DEFINE X == Excused
            T == {x \in States : /\ TasksGood(x, posts, running, late) /\ Undrawn(x)
                                 /\ Kept(x, running, doc, deletions, drawn, X)}
<1>3. /\ FreshView.drawing = None /\ FreshView.history = <<>>
  BY DEF FreshView
<1>4. Undrawn(b)
  BY <1>2, <1>3, NoStrokes DEF Undrawn
<1>5. Kept(b, running, doc, deletions, drawn, X)
  <2>1. DOMAIN <<>> = {}
    OBVIOUS
  <2>2. \A x \in 1..drawn : InDocument(doc, x)
    <3>1. doc = Saved /\ 1..drawn = UNION {StrokesOf(Saved[p]) : p \in Pages}
      BY DEF Init
    <3>. QED
      BY <3>1 DEF InDocument
  <2>. HIDE DEF X
  <2>. QED
    BY <1>1, <1>2, <2>1, <2>2 DEF Kept
<1>. HIDE DEF X
<1>6. OnLayout(b, 0) \in T
  <2>1. \A r \in States : Removal(b, r, Live(b.queue, posts, running), 0) => r \in T
    <3>1. SUFFICES ASSUME NEW r \in States, Removal(b, r, Live(b.queue, posts, running), 0)
                   PROVE  r \in T
      OBVIOUS
    <3>2. TasksGood(r, posts, running, late)
      BY <1>1, <1>2, <3>1, RemovalTasksGood
    <3>3. Undrawn(r)
      BY <1>4, <3>1, NoStrokes DEF Removal, Undrawn
    <3>4. \A v \in Gone(b, 0) : FALSE
      BY <1>2 DEF Gone, Far
    <3>5. Kept(r, running, doc, deletions, drawn, X)
      BY <1>1, <1>2, <1>4, <1>5, <3>1, <3>4, RemovalKept
    <3>. QED
      BY <3>1, <3>2, <3>3, <3>5
  <2>2. \A x \in T, y \in States, v \in Views, q \in Pages, id \in Nat :
          Creation(x, y, Live(x.queue, posts, running), v, q, id) => y \in T
    <3>1. SUFFICES ASSUME NEW x \in T, NEW y \in States, NEW v \in Views, NEW q \in Pages,
                          NEW id \in Nat, Creation(x, y, Live(x.queue, posts, running), v, q, id)
                   PROVE  y \in T
      OBVIOUS
    <3>2. TasksGood(y, posts, running, late)
      BY <1>1, <3>1, CreationTasksGood
    <3>3. Undrawn(y)
      BY <3>1, NoStrokes DEF Creation, SameInk, Undrawn
    <3>4. Kept(y, running, doc, deletions, drawn, X)
      BY <1>1, <3>1, CreationKept
    <3>. QED
      BY <3>1, <3>2, <3>3, <3>4
  <2>3. \A x \in T : Placed(x) /\ Distinct(x.queue, posts, running)
    BY DEF TasksGood
  <2>. HIDE DEF T
  <2>. QED
    BY <1>1, <1>2, <2>1, <2>2, <2>3, LayoutKeeps
<1>7. Kept(Now, running, doc, deletions, drawn, X)
  BY <1>2, <1>6
<1>. QED
  BY <1>7 DEF KeptInv, X

LEMMA NextKept ==
  ASSUME TasksInv, InkInv, DatedInv, KeptInv, [Next]_vars
  PROVE  KeptInv'
<1>1. ASSUME NEW p \in Pages, MoveTo(p)
      PROVE  KeptInv'
  BY <1>1, MoveToKept
<1>2. ASSUME NEW S \in SUBSET Strokes, Erase(S)
      PROVE  KeptInv'
  BY <1>2, EraseKept
<1>3. CASE User
  BY <1>1, <1>2, <1>3, TapKept, DeselectKept, DeleteKept, EditKept, DrawKept, StrokeKept,
     UndoKept, CancelDrawKept, SaveDrawKept DEF User
<1>4. CASE Deliver
  BY <1>4, DeliverKept
<1>5. CASE Background
  BY <1>5, StartKept, ReadPageKept, GetAnnotationsKept, DeleteAnnotationKept, AddInkKept,
     ClearKept, ReloadKept DEF Background
<1>6. CASE UNCHANGED vars
  <2>1. Now' = Now /\ UNCHANGED <<running, doc, deletions, drawn>> /\ Excused' = Excused
    BY <1>6 DEF vars, uivars, histories, Now, Excused
  <2>2. Kept(Now', running', doc', deletions', drawn', Excused')
    BY <2>1 DEF KeptInv
  <2>. QED
    BY <2>2 DEF KeptInv
<1>. QED
  BY <1>3, <1>4, <1>5, <1>6 DEF Next

LEMMA KeptHolds == Spec => [](InkInv /\ DatedInv /\ KeptInv)
<1>. DEFINE I == InkInv /\ DatedInv /\ KeptInv
<1>1. Init => I
  BY InitInk, InitDated, InitKept
<1>2. TasksOK /\ I /\ [Next]_vars => I'
  <2>. SUFFICES ASSUME TasksOK, I, [Next]_vars
                PROVE  I'
    OBVIOUS
  <2>1. TasksInv
    BY DEF TasksOK
  <2>2. InkInv' /\ DatedInv' /\ KeptInv'
    BY <2>1, NextInk, NextDated, NextKept
  <2>. QED
    BY <2>2
<1>. HIDE DEF I
<1>3. Spec => []I
  BY <1>1, <1>2, TasksHold, PTL DEF Spec
<1>. QED
  BY <1>3 DEF I

\* A stroke is always in the document, in a view or in a task that will add it,
\* unless the user has it gone, its task has been cancelled before it began, or
\* a deletion went by an index of another list: no interleaving of the UI
\* thread with the tasks of the views loses any other.
THEOREM InkNeverLost == Spec => []InkIsKept
<1>1. TasksOK /\ KeptInv => InkIsKept
  <2>. SUFFICES ASSUME TasksOK, KeptInv, NEW x \in 1..drawn
                PROVE  x \in Present \cup wished \cup dropped \cup misled
    BY DEF InkIsKept
  <2>1. Now \in States /\ Now.queue = queue /\ Now.views = views
    BY TasksInvTypes, NowIs DEF TasksOK
  <2>2. Safe(Now, 0, x, Excused) \/ InDocument(doc, x) \/ BeingAdded(running, x)
    BY DEF KeptInv, Kept
  <2>3. CASE InDocument(doc, x)
    BY <2>3 DEF InDocument, Present
  <2>4. CASE BeingAdded(running, x)
    BY <2>4 DEF BeingAdded, Present
  <2>5. CASE x \in Excused
    BY <2>5 DEF Excused
  <2>6. CASE HeldBy(Now, x)
    <3>1. PICK v \in Views : Holds(views[v], x)
      BY <2>1, <2>6 DEF HeldBy
    <3>2. x \in StrokesOf(views[v].history)
                \cup (IF views[v].drawing = None THEN {} ELSE views[v].drawing)
      BY <3>1 DEF Holds
    <3>. QED
      BY <3>2 DEF Present
  <2>7. CASE WaitsIn(Now, 0, x)
    <3>1. PICK j \in DOMAIN Now.queue :
             /\ Now.queue[j].kind = "ink" /\ x \in Now.queue[j].what
             /\ Now.queue[j].id \notin Now.cancelled
      BY <2>7 DEF WaitsIn
    <3>2. x \in Unstarted(Now, Now.queue[j].view)
      BY <3>1, InUnstarted
    <3>3. Now.queue[j].view \in Views
      BY <2>1, <3>1, JobType DEF States
    <3>. QED
      BY <3>2, <3>3 DEF Present
  <2>. QED
    BY <2>2, <2>3, <2>4, <2>5, <2>6, <2>7 DEF Safe
<1>. QED
  BY <1>1, TasksHold, KeptHolds, PTL

-----------------------------------------------------------------------------
(* The lists catch up with the document.                                   *)

\* Only tasks of the kinds and views of S are given up; there are others in
\* their place for the views that are on the screen.
Fills(s, r, k, v) == \E j \in DOMAIN r.queue :
  Waits(r, j, k, v) /\ \A i \in {0} \cup DOMAIN s.queue : j > i

GivesUp(s, r, L, S) ==
  /\ \A j \in DOMAIN s.queue : j \in DOMAIN r.queue /\ r.queue[j] = s.queue[j]
  /\ \A t \in L : <<t.kind, t.view>> \notin S => (t.id \in r.cancelled <=> t.id \in s.cancelled)
  /\ \A k \in Kinds, v \in Views : <<k, v>> \in S /\ v \in Displayed(r) => Fills(s, r, k, v)
  /\ \A v \in Views : <<"loader", v>> \notin S => r.views[v].annots = s.views[v].annots
  /\ \A p \in Pages : r.child[p] \in {s.child[p], None} \/ <<"loader", r.child[p]>> \in S
  /\ \A v \in Views : OnSecond(s, v) => OnSecond(r, v) \/ r.child[0] = None

LEMMA ZeroIsPage == 0 \in Pages
BY PageViewsAssumption DEF Pages

LEMMA WaitsStill ==
  ASSUME NEW s, NEW r, NEW P, NEW R, NEW S, GivesUp(s, r, Live(s.queue, P, R), S),
         NEW j \in DOMAIN s.queue, NEW k, NEW v, Waits(s, j, k, v), <<k, v>> \notin S
  PROVE  j \in DOMAIN r.queue /\ Waits(r, j, k, v)
<1>. DEFINE t == Tag(s.queue[j])
<1>1. t \in Live(s.queue, P, R) /\ t.id = s.queue[j].id /\ t.kind = k /\ t.view = v
  BY InLive DEF Waits
<1>. HIDE DEF t
<1>2. t.id \notin r.cancelled
  BY <1>1 DEF GivesUp, Waits
<1>. QED
  BY <1>1, <1>2 DEF GivesUp, Waits

LEMMA BehindStill ==
  ASSUME NEW s, NEW r, NEW P, NEW R, NEW S, GivesUp(s, r, Live(s.queue, P, R), S),
         NEW i \in {0} \cup DOMAIN s.queue, NEW v \in Views, v \in Displayed(r),
         Behind(s, i, v) \/ <<"loader", v>> \in S
  PROVE  Behind(r, i, v)
<1>1. CASE <<"loader", v>> \in S
  BY <1>1 DEF GivesUp, Fills, Behind, Kinds
<1>2. CASE <<"loader", v>> \notin S
  BY <1>2, WaitsStill DEF Behind
<1>. QED
  BY <1>1, <1>2

LEMMA WillLoadStill ==
  ASSUME NEW s, NEW r, NEW P, NEW R, NEW S, GivesUp(s, r, Live(s.queue, P, R), S),
         NEW v \in Views, v \in Displayed(r),
         WillLoad(s, v) \/ <<"loader", v>> \in S \/ <<"del", v>> \in S
  PROVE  WillLoad(r, v)
<1>1. CASE <<"loader", v>> \in S \/ <<"del", v>> \in S
  BY <1>1 DEF GivesUp, Fills, WillLoad, Kinds
<1>2. CASE ~(<<"loader", v>> \in S \/ <<"del", v>> \in S)
  BY <1>2, WaitsStill DEF WillLoad
<1>. QED
  BY <1>1, <1>2

LEMMA AheadStill ==
  ASSUME NEW s \in States, NEW r \in States, NEW P, NEW R, NEW S,
         GivesUp(s, r, Live(s.queue, P, R), S),
         NEW i \in {0} \cup DOMAIN s.queue, NEW v \in Views, Ahead(s, R, i, v)
  PROVE  Ahead(r, R, i, v)
<1>. DEFINE c == r.child[0]
<1>1. c \in Views \cup {None} /\ (c # None => c \in Displayed(r))
  BY ZeroIsPage DEF States, Displayed
<1>2. CASE c = None
  BY <1>2 DEF Ahead
<1>3. CASE c # None /\ <<"loader", c>> \in S
  BY <1>1, <1>3, BehindStill DEF Ahead
<1>4. CASE c # None /\ c = s.child[0]
  <2>1. Behind(s, i, c) => Behind(r, i, c)
    BY <1>1, <1>4, BehindStill
  <2>2. OnSecond(s, v) => OnSecond(r, v)
    BY <1>4 DEF GivesUp
  <2>. QED
    BY <1>4, <2>1, <2>2 DEF Ahead
<1>. QED
  BY <1>2, <1>3, <1>4, ZeroIsPage DEF GivesUp

LEMMA GivesUpLists ==
  ASSUME NEW s \in States, NEW r \in States, NEW P \in Seq(Results), NEW R \in Started \cup {None},
         NEW D, NEW S, Listed(s, P, R, D), GivesUp(s, r, Live(s.queue, P, R), S),
         \A i \in DOMAIN r.queue : i \in DOMAIN s.queue \/ r.queue[i].kind = "loader"
                                   \/ Ahead(r, R, i, r.queue[i].view),
         R # None /\ R.step = "core" => R.page \in Pages
  PROVE  Listed(r, P, R, D)
<1>1. /\ R # None => R.view \in Views /\ Tag(R) \in Live(s.queue, P, R)
                     /\ Tag(R).id = R.id /\ Tag(R).kind = R.kind /\ Tag(R).view = R.view
      /\ \A i \in DOMAIN s.queue : s.queue[i].view \in Views
      /\ \A p \in Pages : r.child[p] \in Views \cup {None} /\ (r.child[p] # None => r.child[p] \in Displayed(r))
  BY StartedType, JobType, InLive DEF States, Displayed
<1>2. FirstAhead(r, R)
  <2>1. \A i \in DOMAIN r.queue : r.queue[i].kind # "loader" => Ahead(r, R, i, r.queue[i].view)
    <3>. SUFFICES ASSUME NEW i \in DOMAIN s.queue, r.queue[i].kind # "loader"
                  PROVE  Ahead(r, R, i, r.queue[i].view)
      OBVIOUS
    <3>1. r.queue[i] = s.queue[i]
      BY DEF GivesUp
    <3>2. Ahead(s, R, i, s.queue[i].view)
      BY <3>1 DEF Listed, FirstAhead
    <3>. QED
      BY <1>1, <3>1, <3>2, AheadStill
  <2>2. R # None /\ R.kind # "loader" /\ R.step = "read" => Ahead(r, R, 0, R.view)
    BY <1>1, AheadStill DEF Listed, FirstAhead
  <2>. QED
    BY <2>1, <2>2 DEF FirstAhead
<1>3. AtCore(r, R)
  <2>. SUFFICES ASSUME R # None, R.step = "core", r.child[R.page] # None, r.child[R.page] # R.view
                PROVE  Behind(r, 0, r.child[R.page])
    BY DEF AtCore
  <2>1. R.page \in Pages
    OBVIOUS
  <2>2. CASE r.child[R.page] = s.child[R.page]
    <3>1. Behind(s, 0, s.child[R.page])
      BY <2>2 DEF Listed, AtCore
    <3>. QED
      BY <1>1, <2>1, <2>2, <3>1, BehindStill
  <2>3. CASE <<"loader", r.child[R.page]>> \in S
    BY <1>1, <2>1, <2>3, BehindStill
  <2>. QED
    BY <2>1, <2>2, <2>3 DEF GivesUp
<1>4. Replaced(r, R)
  <2>. SUFFICES ASSUME R # None, R.kind = "del", R.id \in r.cancelled, R.view \in Displayed(r)
                PROVE  WillLoad(r, R.view)
    BY DEF Replaced
  <2>1. CASE <<"loader", R.view>> \in S \/ <<"del", R.view>> \in S
    BY <1>1, <2>1, WillLoadStill
  <2>2. CASE ~(<<"loader", R.view>> \in S \/ <<"del", R.view>> \in S)
    <3>1. R.id \in s.cancelled
      BY <1>1, <2>2 DEF GivesUp
    <3>2. R.view \in Displayed(s)
      <4>1. PICK p \in Pages : r.child[p] = R.view
        BY DEF Displayed
      <4>2. s.child[p] = R.view
        BY <1>1, <2>2, <4>1, PageViewsAssumption DEF GivesUp
      <4>. QED
        BY <1>1, <4>2 DEF Displayed
    <3>3. WillLoad(s, R.view)
      BY <3>1, <3>2 DEF Listed, Replaced
    <3>. QED
      BY <1>1, <3>3, WillLoadStill
  <2>. QED
    BY <2>1, <2>2
<1>5. Covered(r, P, R, D)
  <2>. SUFFICES ASSUME NEW p \in Pages, r.child[p] # None
                PROVE  Pending(r, P, R, r.child[p]) \/ Current(r, P, r.child[p], D[p])
    BY DEF Covered
  <2>. DEFINE v == r.child[p]
  <2>1. v \in Views /\ v \in Displayed(r) /\ (v = s.child[p] \/ <<"loader", v>> \in S)
    BY <1>1 DEF GivesUp
  <2>. HIDE DEF v
  <2>2. CASE WillLoad(s, v) \/ <<"loader", v>> \in S \/ <<"del", v>> \in S
    BY <2>1, <2>2, WillLoadStill DEF Pending, v
  <2>3. CASE ~(WillLoad(s, v) \/ <<"loader", v>> \in S \/ <<"del", v>> \in S)
    <3>1. /\ \A j \in DOMAIN P : P[j].view = v /\ P[j].kind \in {"loader", "del"} =>
               (P[j].id \in r.cancelled <=> P[j].id \in s.cancelled)
          /\ R # None /\ R.view = v /\ R.kind \in {"loader", "del"} =>
               (R.id \in r.cancelled <=> R.id \in s.cancelled)
      BY <1>1, <2>3, InLive DEF GivesUp
    <3>2. r.views[v].annots = s.views[v].annots
      BY <2>1, <2>3 DEF GivesUp
    <3>3. Pending(s, P, R, v) \/ Current(s, P, v, D[p])
      BY <2>1, <2>3 DEF Listed, Covered, v
    <3>4. CASE Pending(s, P, R, v)
      <4>1. Pending(r, P, R, v)
        BY <2>3, <3>1, <3>4 DEF Pending
      <4>. QED
        BY <4>1 DEF v
    <3>5. CASE Current(s, P, v, D[p])
      <4>1. \A j \in DOMAIN P : Comes(r, P, v, j) <=> Comes(s, P, v, j)
        BY <3>1 DEF Comes
      <4>2. Current(r, P, v, D[p])
        BY <3>2, <3>5, <4>1 DEF Current
      <4>. QED
        BY <4>2 DEF v
    <3>. QED
      BY <3>3, <3>4, <3>5
  <2>. QED
    BY <2>2, <2>3
<1>. QED
  BY <1>2, <1>3, <1>4, <1>5 DEF Listed

LEMMA EditedGivesUp ==
  ASSUME NEW s, NEW r, NEW v \in Views, NEW e, NEW d, NEW h, Edited(s, r, v, e, d, h), NEW L
  PROVE  GivesUp(s, r, L, {}) /\ DOMAIN r.queue = DOMAIN s.queue
<1>1. /\ r.child = s.child /\ r.queue = s.queue /\ r.cancelled = s.cancelled
      /\ \A w \in Views : r.views[w].annots = s.views[w].annots
  BY DEF Edited
<1>. QED
  BY <1>1 DEF GivesUp, OnSecond

\* A new task at the end of the queue.
Adds(s, r, k, v, id) ==
  LET m == Len(s.queue) + 1
  IN  /\ DOMAIN r.queue = DOMAIN s.queue \cup {m}
      /\ \A i \in DOMAIN s.queue : r.queue[i] = s.queue[i]
      /\ \A i \in {0} \cup DOMAIN s.queue : m > i
      /\ r.queue[m].id = id /\ r.queue[m].kind = k /\ r.queue[m].view = v

LEMMA AppendAdds ==
  ASSUME NEW s \in States, NEW r \in States, NEW k, NEW v, NEW id, NEW t,
         r.queue = Append(s.queue, Job(id, k, v, t))
  PROVE  Adds(s, r, k, v, id)
<1>. DEFINE j == Job(id, k, v, t)
<1>1. j.id = id /\ j.kind = k /\ j.view = v
  BY DEF Job
<1>. HIDE DEF j
<1>2. s.queue \in Seq(Jobs) /\ r.queue \in Seq(Jobs)
  BY DEF States
<1>. QED
  BY <1>1, <1>2 DEF j, Adds

LEMMA AddsGivesUp ==
  ASSUME NEW s \in States, NEW r \in States, NEW L, NEW lt, Remembered(s, L, lt),
         NEW v \in Views, NEW k \in Kinds, NEW id, FreshFor(s, L, v, k, id),
         Adds(s, r, k, v, id), s.cancelled \subseteq r.cancelled,
         \A i \in r.cancelled : i \in s.cancelled \/ (i = TaskOf(s.views[v], k) /\ i \in IdsOf(L)),
         \A w \in Views : w # v => r.views[w] = s.views[w],
         k = "loader" \/ r.views[v].annots = s.views[v].annots,
         \A p \in Pages : r.child[p] = s.child[p] \/ (s.child[p] = None /\ r.child[p] = v /\ k = "loader")
  PROVE  GivesUp(s, r, L, {<<k, v>>})
<1>. DEFINE m == Len(s.queue) + 1
            S == {<<k, v>>}
<1>1. /\ DOMAIN r.queue = DOMAIN s.queue \cup {m}
      /\ \A i \in DOMAIN s.queue : r.queue[i] = s.queue[i]
      /\ \A i \in {0} \cup DOMAIN s.queue : m > i
      /\ r.queue[m].id = id /\ r.queue[m].kind = k /\ r.queue[m].view = v
  BY DEF Adds
<1>. HIDE DEF m
<1>2. id \notin r.cancelled
  BY DEF Remembered, FreshFor, IdsOf
<1>3. \A x \in L : <<x.kind, x.view>> \notin S => (x.id \in r.cancelled <=> x.id \in s.cancelled)
  <2>1. ASSUME NEW x \in L, x.id = TaskOf(s.views[v], k)
        PROVE  x.kind = k /\ x.view = v
    BY <2>1 DEF Remembered, TaskOf, Kinds
  <2>. QED
    BY <2>1
<1>4. Fills(s, r, k, v)
  BY <1>1, <1>2 DEF Fills, Waits
<1>5. /\ \A w \in Views : <<"loader", w>> \notin S => r.views[w].annots = s.views[w].annots
      /\ \A p \in Pages : r.child[p] \in {s.child[p], None} \/ <<"loader", r.child[p]>> \in S
  OBVIOUS
<1>6. \A w \in Views : OnSecond(s, w) => OnSecond(r, w)
  BY PageViewsAssumption DEF OnSecond
<1>7. \A l \in Kinds, w \in Views : <<l, w>> \in S => l = k /\ w = v
  OBVIOUS
<1>. HIDE DEF S
<1>8. GivesUp(s, r, L, S)
  BY <1>1, <1>3, <1>4, <1>5, <1>6, <1>7 DEF GivesUp
<1>. QED
  BY <1>8 DEF S

LEMMA BegunGivesUp ==
  ASSUME TasksInv, NEW r, NEW v \in Views, NEW k \in Kinds, NEW id, NEW t, NEW a, NEW e, NEW d, NEW h,
         Begun(Now, r, v, k, id, t, a, e, d, h), k = "loader" \/ a = Now.views[v].annots
  PROVE  r \in States /\ GivesUp(Now, r, Work, {<<k, v>>}) /\ Adds(Now, r, k, v, id)
<1>1. /\ Now \in States /\ Live(Now.queue, posts, running) = Work /\ Remembered(Now, Work, late)
  BY TasksInvTypes, NowIs DEF TasksInv, TasksGood
<1>2. r \in States /\ r.child = Now.child /\ Renewal(Now, r, Work, v, k, id, t) /\ r.views[v].annots = a
  BY DEF Begun
<1>3. /\ FreshFor(Now, Work, v, k, id) /\ Now.cancelled \subseteq r.cancelled
      /\ \A i \in r.cancelled : i \in Now.cancelled \/ (i = TaskOf(Now.views[v], k) /\ i \in IdsOf(Work))
      /\ \A w \in Views : w # v => r.views[w] = Now.views[w]
  BY <1>2 DEF Renewal
<1>4. Adds(Now, r, k, v, id)
  BY <1>1, <1>2, AppendAdds DEF Renewal
<1>5. /\ k = "loader" \/ r.views[v].annots = Now.views[v].annots
      /\ \A p \in Pages : r.child[p] = Now.child[p] \/ (Now.child[p] = None /\ r.child[p] = v /\ k = "loader")
  BY <1>2
<1>. HIDE DEF Now, Work
<1>. QED
  BY <1>1, <1>2, <1>3, <1>4, <1>5, AddsGivesUp

LEMMA CreationGivesUp ==
  ASSUME NEW s \in States, NEW r \in States, NEW L, NEW lt, Remembered(s, L, lt),
         NEW v \in Views, NEW p \in Pages, NEW id, Creation(s, r, L, v, p, id)
  PROVE  GivesUp(s, r, L, {<<"loader", v>>}) /\ Adds(s, r, "loader", v, id)
<1>1. PICK k \in Kinds : k = "loader"
  BY DEF Kinds
<1>2. /\ FreshFor(s, L, v, k, id) /\ s.cancelled \subseteq r.cancelled
      /\ \A i \in r.cancelled : i \in s.cancelled \/ (i = TaskOf(s.views[v], k) /\ i \in IdsOf(L))
      /\ \A w \in Views : w # v => r.views[w] = s.views[w]
      /\ r.child = [s.child EXCEPT ![p] = v] /\ s.child[p] = None
  BY <1>1 DEF Creation, TaskOf
<1>3. Adds(s, r, k, v, id)
  BY <1>1, AppendAdds DEF Creation
<1>4. /\ k = "loader" \/ r.views[v].annots = s.views[v].annots
      /\ \A q \in Pages : r.child[q] = s.child[q] \/ (s.child[q] = None /\ r.child[q] = v /\ k = "loader")
  BY <1>1, <1>2 DEF States
<1>5. GivesUp(s, r, L, {<<k, v>>})
  BY <1>2, <1>3, <1>4, AddsGivesUp
<1>. QED
  BY <1>1, <1>3, <1>5

LEMMA RemovalGivesUp ==
  ASSUME NEW s \in States, NEW r \in States, NEW L, NEW lt, Placed(s),
         Remembered(s, L, lt), NEW c \in Pages, Removal(s, r, L, c)
  PROVE  /\ GivesUp(s, r, L, Kinds \X Gone(s, c))
         /\ DOMAIN r.queue = DOMAIN s.queue
<1>. DEFINE Z == Gone(s, c)
            S == Kinds \X Z
<1>1. /\ r.queue = s.queue /\ s.cancelled \subseteq r.cancelled
      /\ \A i \in r.cancelled : i \in s.cancelled \/ (\E v \in Z : i \in {s.views[v].loader, s.views[v].ink, s.views[v].del})
      /\ \A w \in Views \ Z : r.views[w] = s.views[w]
      /\ \A p \in Pages : r.child[p] = IF p \in Far(s, c) THEN None ELSE s.child[p]
  BY DEF Removal
<1>2. Z \subseteq Views /\ \A v \in Z : \E p \in Far(s, c) : v = s.child[p]
  BY DEF Gone, Far, States
<1>3. \A p \in Far(s, c) : p \in Pages /\ s.child[p] # None
  BY DEF Far
<1>4. \A k, v : <<k, v>> \in S <=> k \in Kinds /\ v \in Z
  OBVIOUS
<1>5. ASSUME NEW v \in Z, v \in Displayed(r)
      PROVE  FALSE
  <2>1. PICK p \in Pages : r.child[p] = v
    BY <1>5 DEF Displayed
  <2>2. PICK q \in Far(s, c) : v = s.child[q]
    BY <1>2
  <2>3. v # None
    BY <1>2, PageViewsAssumption
  <2>4. p \notin Far(s, c) /\ s.child[p] = v
    BY <1>1, <2>1, <2>3
  <2>5. p # q /\ s.child[p] # None /\ q \in Pages
    BY <1>3, <2>2, <2>3, <2>4
  <2>. QED
    BY <2>2, <2>4, <2>5 DEF Placed
<1>6. ASSUME NEW v \in Views, OnSecond(s, v), ~OnSecond(r, v)
      PROVE  r.child[0] = None
  <2>1. 1 \in Far(s, c) /\ 1 \in Pages
    BY <1>1, <1>6 DEF OnSecond
  <2>2. c \in Int /\ c >= 0
    BY PageViewsAssumption DEF Pages
  <2>3. 1 < c
    BY <2>1, <2>2 DEF Far
  <2>4. s.child[0] = None \/ 0 \in Far(s, c)
    BY <2>3, ZeroIsPage DEF Far
  <2>. QED
    BY <1>1, <2>4, ZeroIsPage
<1>. HIDE DEF Z, S
<1>7. \A x \in L : <<x.kind, x.view>> \notin S => (x.id \in r.cancelled <=> x.id \in s.cancelled)
  <2>1. ASSUME NEW x \in L, NEW v \in Z, x.id \in {s.views[v].loader, s.views[v].ink, s.views[v].del}
        PROVE  <<x.kind, x.view>> \in S
    <3>1. x.view = v /\ x.kind \in Kinds
      BY <1>2, <2>1 DEF Remembered, Kinds
    <3>. QED
      BY <1>4, <3>1
  <2>. QED
    BY <1>1, <2>1
<1>8. \A v \in Views : <<"loader", v>> \notin S => r.views[v].annots = s.views[v].annots
  BY <1>1, <1>4 DEF Kinds
<1>9. GivesUp(s, r, L, S)
  BY <1>1, <1>4, <1>5, <1>6, <1>7, <1>8 DEF GivesUp
<1>. QED
  BY <1>1, <1>9 DEF Z, S

\* What a handler of the UI thread makes of the views and tasks.
LEMMA UserLists ==
  ASSUME TasksInv, ListInv, UNCHANGED <<posts, running, doc>>,
         NEW r \in States, Now' = r, NEW S, GivesUp(Now, r, Live(Now.queue, posts, running), S),
         \A i \in DOMAIN r.queue : i \in DOMAIN Now.queue \/ r.queue[i].kind = "loader"
                                   \/ Ahead(r, running, i, r.queue[i].view)
  PROVE  ListInv'
<1>1. /\ Now \in States /\ posts \in Seq(Results) /\ running \in Started \cup {None}
      /\ (running # None /\ running.step = "core" => running.page \in Pages)
  BY TasksInvTypes DEF TasksInv, Basic
<1>2. Listed(r, posts, running, doc)
  BY <1>1, GivesUpLists DEF ListInv
<1>3. Listed(Now', posts', running', doc')
  BY <1>2
<1>. QED
  BY <1>3 DEF ListInv

LEMMA EditedLists ==
  ASSUME TasksInv, ListInv, UNCHANGED <<posts, running, doc>>,
         NEW v \in Views, NEW e, NEW d, NEW h, Edited(Now, Now', v, e, d, h)
  PROVE  ListInv'
<1>1. PICK r : r = Now'
  OBVIOUS
<1>2. r \in States /\ Edited(Now, r, v, e, d, h)
  BY <1>1 DEF Edited
<1>3. GivesUp(Now, r, Live(Now.queue, posts, running), {}) /\ DOMAIN r.queue = DOMAIN Now.queue
  BY <1>2, EditedGivesUp
<1>. QED
  BY <1>1, <1>2, <1>3, UserLists

\* A drawing or a deletion begins in the view of the current page: if that is
\* not the first page, the view of the first page is not there, or is the
\* view of a neighbour.
LEMMA BegunLists ==
  ASSUME TasksInv, ListInv, UNCHANGED <<posts, running, doc>>,
         NEW k \in {"ink", "del"}, NEW id, NEW t, NEW e, NEW d, NEW h,
         Begun(Now, Now', Selected, k, id, t, V.annots, e, d, h)
  PROVE  ListInv'
<1>1. PICK r : r = Now'
  OBVIOUS
<1>2. /\ Selected \in Views /\ V = Now.views[Selected] /\ Selected = Now.child[cur]
      /\ Around(Now, cur) /\ cur \in Pages /\ Live(Now.queue, posts, running) = Work
  BY SelectedIs, TasksInvTypes, TasksTypes, NowIs DEF TasksInv, Selected
<1>3. Begun(Now, r, Selected, k, id, t, V.annots, e, d, h) /\ k \in Kinds
  BY <1>1 DEF Kinds
<1>4. r.child = Now.child
  BY <1>3 DEF Begun
<1>5. Now.child[0] \in {None, Selected} \/ OnSecond(Now, Selected)
  <2>1. cur \in Int /\ cur >= 0
    BY <1>2, PageViewsAssumption DEF Pages
  <2>2. Now.child[0] # None => cur <= 1
    BY <1>2, <2>1, ZeroIsPage DEF Around
  <2>3. CASE cur = 0
    BY <1>2, <2>3
  <2>4. CASE cur = 1
    BY <1>2, <2>4 DEF OnSecond
  <2>. QED
    BY <2>1, <2>2, <2>3, <2>4
<1>6. \A i : Ahead(r, running, i, Selected)
  BY <1>4, <1>5 DEF Ahead, OnSecond
<1>7. /\ r \in States /\ GivesUp(Now, r, Work, {<<k, Selected>>}) /\ Adds(Now, r, k, Selected, id)
  BY <1>2, <1>3, BegunGivesUp
<1>8. \A i \in DOMAIN r.queue : i \in DOMAIN Now.queue \/ r.queue[i].view = Selected
  BY <1>7 DEF Adds
<1>9. \A i \in DOMAIN r.queue : i \in DOMAIN Now.queue \/ Ahead(r, running, i, r.queue[i].view)
  BY <1>6, <1>8
<1>. QED
  BY <1>1, <1>2, <1>7, <1>9, UserLists

LEMMA StaysLists ==
  ASSUME ListInv, UNCHANGED <<posts, running, doc>>, Now' = Now
  PROVE  ListInv'
<1>1. Listed(Now', posts', running', doc')
  BY DEF ListInv
<1>. QED
  BY <1>1 DEF ListInv

LEMMA TapLists ==
  ASSUME TasksInv, ListInv, Tap
  PROVE  ListInv'
<1>1. /\ UNCHANGED <<posts, running, doc>> /\ Selected \in Views
      /\ \E e : Edited(Now, Now', Selected, e, V.drawing, V.history)
  BY TapIs, SelectedIs DEF Idly
<1>. QED
  BY <1>1, EditedLists

LEMMA DeselectLists ==
  ASSUME TasksInv, ListInv, Deselect
  PROVE  ListInv'
<1>1. /\ UNCHANGED <<posts, running, doc>> /\ Selected \in Views
      /\ Edited(Now, Now', Selected, None, V.drawing, V.history)
  BY DeselectIs, SelectedIs DEF Idly
<1>. QED
  BY <1>1, EditedLists

LEMMA DrawLists ==
  ASSUME TasksInv, ListInv, Draw
  PROVE  ListInv'
<1>1. UNCHANGED <<posts, running, doc>> /\ Now' = Now
  BY DrawIs DEF Idly
<1>. QED
  BY <1>1, StaysLists

LEMMA StrokeLists ==
  ASSUME TasksInv, ListInv, Stroke
  PROVE  ListInv'
<1>1. /\ UNCHANGED <<posts, running, doc>> /\ Selected \in Views
      /\ Edited(Now, Now', Selected, V.sel, Drawing \cup {drawn + 1}, <<Drawing>> \o V.history)
  BY StrokeIs, SelectedIs DEF Idly
<1>. QED
  BY <1>1, EditedLists

LEMMA EraseLists ==
  ASSUME TasksInv, ListInv, NEW S \in SUBSET Strokes, Erase(S)
  PROVE  ListInv'
<1>1. /\ UNCHANGED <<posts, running, doc>> /\ Selected \in Views
      /\ Edited(Now, Now', Selected, V.sel,
                IF V.drawing = None THEN None ELSE V.drawing \ S, <<Drawing>> \o V.history)
  BY EraseIs, SelectedIs DEF Idly
<1>. QED
  BY <1>1, EditedLists

LEMMA UndoLists ==
  ASSUME TasksInv, ListInv, UndoDraw
  PROVE  ListInv'
<1>1. /\ UNCHANGED <<posts, running, doc>> /\ Selected \in Views
      /\ Edited(Now, Now', Selected, V.sel, Head(V.history), Tail(V.history))
  BY UndoIs, SelectedIs DEF Idly
<1>. QED
  BY <1>1, EditedLists

LEMMA CancelDrawLists ==
  ASSUME TasksInv, ListInv, CancelDraw
  PROVE  ListInv'
<1>1. /\ UNCHANGED <<posts, running, doc>> /\ Selected \in Views
      /\ \E h : Edited(Now, Now', Selected, V.sel, None, h)
  BY CancelDrawIs, SelectedIs DEF Idly
<1>. QED
  BY <1>1, EditedLists

LEMMA DeleteLists ==
  ASSUME TasksInv, ListInv, DeleteSelectedAnnotation
  PROVE  ListInv'
<1>1. /\ UNCHANGED <<posts, running, doc>>
      /\ \E id \in Nat : Begun(Now, Now', Selected, "del", id, V.sel, V.annots, None, V.drawing, V.history)
  BY DeleteIs DEF Idly
<1>. QED
  BY <1>1, BegunLists

LEMMA EditLists ==
  ASSUME TasksInv, ListInv, EditSelectedAnnotation
  PROVE  ListInv'
<1>1. /\ UNCHANGED <<posts, running, doc>>
      /\ \/ Now' = Now
         \/ \E id \in Nat : Begun(Now, Now', Selected, "del", id, V.sel, V.annots, None,
                                  V.annots.list[V.sel.at], V.history)
  BY EditIs DEF Idly
<1>2. CASE Now' = Now
  BY <1>1, <1>2, StaysLists
<1>. QED
  BY <1>1, <1>2, BegunLists

LEMMA SaveDrawLists ==
  ASSUME TasksInv, ListInv, SaveDraw
  PROVE  ListInv'
<1>1. /\ UNCHANGED <<posts, running, doc>>
      /\ \/ Now' = Now
         \/ \E id \in Nat : \E h : Begun(Now, Now', Selected, "ink", id, V.drawing, V.annots, V.sel, None, h)
  BY SaveDrawIs DEF Idly
<1>2. CASE Now' = Now
  BY <1>1, <1>2, StaysLists
<1>. QED
  BY <1>1, <1>2, BegunLists

\* The steps of a layout.
LEMMA RemovalLists ==
  ASSUME NEW s \in States, NEW r \in States, NEW P \in Seq(Results), NEW R \in Started \cup {None},
         NEW D, NEW lt, TasksGood(s, P, R, lt), Listed(s, P, R, D),
         R # None /\ R.step = "core" => R.page \in Pages,
         NEW c \in Pages, Removal(s, r, Live(s.queue, P, R), c)
  PROVE  Listed(r, P, R, D)
<1>1. Placed(s) /\ Remembered(s, Live(s.queue, P, R), lt)
  BY DEF TasksGood
<1>2. PICK S : S = Kinds \X Gone(s, c)
  OBVIOUS
<1>3. GivesUp(s, r, Live(s.queue, P, R), S) /\ DOMAIN r.queue = DOMAIN s.queue
  BY <1>1, <1>2, RemovalGivesUp
<1>. QED
  BY <1>3, GivesUpLists

LEMMA CreationLists ==
  ASSUME NEW s \in States, NEW r \in States, NEW P \in Seq(Results), NEW R \in Started \cup {None},
         NEW D, NEW lt, TasksGood(s, P, R, lt), Listed(s, P, R, D),
         R # None /\ R.step = "core" => R.page \in Pages,
         NEW v \in Views, NEW p \in Pages, NEW id \in Nat,
         Creation(s, r, Live(s.queue, P, R), v, p, id)
  PROVE  Listed(r, P, R, D)
<1>1. Remembered(s, Live(s.queue, P, R), lt)
  BY DEF TasksGood
<1>2. PICK S : S = {<<"loader", v>>}
  OBVIOUS
<1>3. GivesUp(s, r, Live(s.queue, P, R), S) /\ Adds(s, r, "loader", v, id)
  BY <1>1, <1>2, CreationGivesUp
<1>4. \A i \in DOMAIN r.queue : i \in DOMAIN s.queue \/ r.queue[i].kind = "loader"
  BY <1>3 DEF Adds
<1>. QED
  BY <1>3, <1>4, GivesUpLists

LEMMA LayoutLists ==
  ASSUME NEW s \in States, posts \in Seq(Results), running \in Started \cup {None},
         late \in BOOLEAN, NEW D, TasksGood(s, posts, running, late),
         Listed(s, posts, running, D),
         running # None /\ running.step = "core" => running.page \in Pages, NEW c \in Pages
  PROVE  OnLayout(s, c) \in States /\ Listed(OnLayout(s, c), posts, running, D)
<1>. DEFINE T == {x \in States : TasksGood(x, posts, running, late) /\ Listed(x, posts, running, D)}
<1>1. ASSUME NEW r \in States, Removal(s, r, Live(s.queue, posts, running), c)
      PROVE  r \in T
  BY <1>1, RemovalTasksGood, RemovalLists
<1>2. ASSUME NEW x \in T, NEW y \in States, NEW v \in Views, NEW q \in Pages, NEW id \in Nat,
             Creation(x, y, Live(x.queue, posts, running), v, q, id)
      PROVE  y \in T
  BY <1>2, CreationTasksGood, CreationLists
<1>3. \A x \in T : Placed(x) /\ Distinct(x.queue, posts, running)
  BY DEF TasksGood
<1>4. Placed(s)
  BY DEF TasksGood
<1>. HIDE DEF T
<1>5. OnLayout(s, c) \in States /\ OnLayout(s, c) \in T
  BY <1>1, <1>2, <1>3, <1>4, LayoutKeeps
<1>. QED
  BY <1>5 DEF T

LEMMA MoveToLists ==
  ASSUME TasksInv, ListInv, NEW p \in Pages, MoveTo(p)
  PROVE  ListInv'
<1>. DEFINE off == [Now EXCEPT !.views = [views EXCEPT ![Selected] = [V EXCEPT !.sel = None]]]
            s == OnLayout(off, p)
<1>1. /\ UNCHANGED <<doc, running, posts>> /\ Becomes(s)
      /\ Edited(Now, off, Selected, None, V.drawing, V.history)
  BY MoveToIs
<1>. HIDE DEF off
<1>2. /\ Now \in States /\ posts \in Seq(Results) /\ running \in Started \cup {None} /\ late \in BOOLEAN
      /\ Selected \in Views /\ off \in States
      /\ (running # None /\ running.step = "core" => running.page \in Pages)
  BY <1>1, TasksInvTypes, TasksTypes, SelectedIs DEF TasksInv, Basic, Edited
<1>3. TasksGood(off, posts, running, late)
  BY <1>1, <1>2, EditedTasks
<1>4. GivesUp(Now, off, Live(Now.queue, posts, running), {}) /\ DOMAIN off.queue = DOMAIN Now.queue
  BY <1>1, <1>2, EditedGivesUp
<1>5. Listed(off, posts, running, doc)
  BY <1>2, <1>4, GivesUpLists DEF ListInv
<1>6. s \in States /\ Listed(s, posts, running, doc)
  BY <1>2, <1>3, <1>5, LayoutLists
<1>. HIDE DEF s
<1>7. Now' = s
  BY <1>1, <1>6, BecomesIs
<1>8. Listed(Now', posts', running', doc')
  BY <1>1, <1>6, <1>7
<1>. QED
  BY <1>8 DEF ListInv

LEMMA InitLists ==
  ASSUME Init
  PROVE  ListInv
<1>1. /\ 0 \in Pages /\ posts = <<>> /\ running = None
      /\ posts \in Seq(Results) /\ running \in Started \cup {None} /\ late \in BOOLEAN
  BY InitIs
<1>2. PICK b \in States :
              /\ b.queue = <<>>
              /\ \A p \in Pages : b.child[p] = None
              /\ TasksGood(b, posts, running, late)
              /\ Now = OnLayout(b, 0)
  BY InitIs
<1>3. DOMAIN <<>> = {}
  OBVIOUS
<1>4. Listed(b, posts, running, doc)
  BY <1>1, <1>2, <1>3 DEF Listed, FirstAhead, AtCore, Replaced, Covered
<1>5. Listed(OnLayout(b, 0), posts, running, doc)
  BY <1>1, <1>2, <1>4, LayoutLists
<1>. QED
  BY <1>2, <1>5 DEF ListInv

\* A result that is not shown is delivered.
LEMMA TailCovers ==
  ASSUME NEW s, NEW P \in Seq(Results), P # <<>>, NEW R, NEW D, Covered(s, P, R, D),
         Head(P).id \in s.cancelled
           \/ (Head(P).kind = "del"
               /\ \A p \in Pages : s.child[p] = Head(P).view => WillLoad(s, Head(P).view))
  PROVE  Covered(s, Tail(P), R, D)
<1>. DEFINE t == Head(P)
            Q == Tail(P)
<1>1. /\ t = P[1] /\ 1 \in DOMAIN P
      /\ \A i \in DOMAIN Q : i \in Nat /\ i > 0 /\ i + 1 \in DOMAIN P /\ Q[i] = P[i + 1]
      /\ \A i \in DOMAIN P : i = 1 \/ (i - 1 \in DOMAIN Q /\ Q[i - 1] = P[i])
      /\ DOMAIN P \subseteq Nat \ {0}
  BY TailItems
<1>2. \/ t.id \in s.cancelled
      \/ t.kind = "del" /\ \A p \in Pages : s.child[p] = t.view => WillLoad(s, t.view)
  OBVIOUS
<1>. HIDE DEF t, Q
<1>3. SUFFICES ASSUME NEW p \in Pages, s.child[p] # None
               PROVE  Pending(s, Q, R, s.child[p]) \/ Current(s, Q, s.child[p], D[p])
  BY DEF Covered, Q
<1>. DEFINE v == s.child[p]
<1>4. Pending(s, P, R, v) \/ Current(s, P, v, D[p])
  BY <1>3 DEF Covered
<1>5. t.kind = "del" /\ t.view = v /\ t.id \notin s.cancelled => WillLoad(s, v)
  BY <1>2
<1>6. ~Comes(s, P, v, 1)
  BY <1>1, <1>2 DEF Comes
<1>7. /\ \A i \in DOMAIN Q : Comes(s, Q, v, i) <=> Comes(s, P, v, i + 1)
      /\ \A i \in DOMAIN P : Comes(s, P, v, i) => i - 1 \in DOMAIN Q /\ Comes(s, Q, v, i - 1)
  BY <1>1, <1>6 DEF Comes
<1>. HIDE DEF v
<1>8. CASE Pending(s, P, R, v)
  <2>1. ASSUME NEW j \in DOMAIN P, P[j].kind = "del", P[j].view = v, P[j].id \notin s.cancelled
        PROVE  Pending(s, Q, R, v)
    <3>1. CASE j = 1
      BY <1>1, <1>5, <2>1, <3>1 DEF Pending
    <3>2. CASE j # 1
      BY <1>1, <2>1, <3>2 DEF Pending
    <3>. QED
      BY <3>1, <3>2
  <2>2. Pending(s, Q, R, v)
    BY <1>8, <2>1 DEF Pending
  <2>. QED
    BY <2>2 DEF v
<1>9. CASE Current(s, P, v, D[p])
  <2>1. CASE s.views[v].annots # None /\ s.views[v].annots.list = D[p]
             /\ \A j \in DOMAIN P : ~Comes(s, P, v, j)
    <3>1. \A i \in DOMAIN Q : ~Comes(s, Q, v, i)
      BY <1>1, <1>7, <2>1
    <3>2. Current(s, Q, v, D[p])
      BY <2>1, <3>1 DEF Current
    <3>. QED
      BY <3>2 DEF v
  <2>2. ASSUME NEW i \in DOMAIN P, Comes(s, P, v, i), P[i].what.list = D[p],
               \A j \in DOMAIN P : j > i => ~Comes(s, P, v, j)
        PROVE  Current(s, Q, v, D[p])
    <3>1. i - 1 \in DOMAIN Q /\ Comes(s, Q, v, i - 1)
      BY <1>7, <2>2
    <3>2. Q[i - 1] = P[i]
      BY <1>1, <1>6, <2>2
    <3>3. i \in Nat
      BY <1>1
    <3>4. ASSUME NEW j \in DOMAIN Q, j > i - 1
          PROVE  ~Comes(s, Q, v, j)
      <4>1. j + 1 \in DOMAIN P /\ j + 1 > i
        BY <1>1, <3>3, <3>4
      <4>. QED
        BY <1>7, <2>2, <4>1
    <3>. QED
      BY <2>2, <3>1, <3>2, <3>4 DEF Current
  <2>. QED
    BY <1>9, <2>1, <2>2 DEF Current, v
<1>. QED
  BY <1>4, <1>8, <1>9 DEF v

LEMMA DeliverDropped ==
  ASSUME TasksInv, ListInv, NEW t, t = Head(posts), posts # <<>>, posts' = Tail(posts),
         UNCHANGED <<running, doc>>,
         t.id \in cancelled, Now' \in States, views' = views, child' = child,
         queue' = queue, cancelled' = cancelled \ {t.id}
  PROVE  ListInv'
<1>1. /\ Now \in States /\ posts \in Seq(Results) /\ running \in Started \cup {None}
      /\ (running # None /\ running.step = "core" => running.page \in Pages)
      /\ Distinct(Now.queue, posts, running)
  BY TasksInvTypes DEF TasksInv, Basic, TasksGood
<1>2. PICK r : r = Now'
  OBVIOUS
<1>3. PICK Q : Q = Tail(posts)
  OBVIOUS
<1>4. /\ r \in States /\ r.views = Now.views /\ r.child = Now.child /\ r.queue = Now.queue
      /\ r.cancelled = Now.cancelled \ {t.id} /\ t.id \in Now.cancelled
  BY <1>2, NowIs DEF Now
<1>5. Listed(Now, Q, running, doc)
  BY <1>1, <1>3, <1>4, TailCovers DEF ListInv, Listed
<1>6. \A x \in Live(Now.queue, Q, running) : x.id # t.id
  BY <1>1, <1>3, PopPosts
<1>7. GivesUp(Now, r, Live(Now.queue, Q, running), {})
  BY <1>4, <1>6 DEF GivesUp, OnSecond
<1>8. Q \in Seq(Results)
  BY <1>1, <1>3, TailItems
<1>9. Listed(r, Q, running, doc)
  BY <1>1, <1>4, <1>5, <1>7, <1>8, GivesUpLists
<1>10. Listed(Now', posts', running', doc')
  BY <1>2, <1>3, <1>9
<1>. QED
  BY <1>10 DEF ListInv

LEMMA DeliverDeleted ==
  ASSUME TasksInv, ListInv, NEW t, t = Head(posts), posts # <<>>, posts' = Tail(posts),
         UNCHANGED <<running, doc>>, t.kind = "del", t.view \in Views,
         NEW id, NEW e, NEW d, NEW h,
         Begun(Now, Now', t.view, "loader", id, None, None, e, d, h)
  PROVE  ListInv'
<1>1. /\ Now \in States /\ posts \in Seq(Results) /\ running \in Started \cup {None}
      /\ (running # None /\ running.step = "core" => running.page \in Pages)
      /\ Live(Now.queue, posts, running) = Work
  BY TasksInvTypes DEF TasksInv, Basic
<1>2. PICK r : r = Now'
  OBVIOUS
<1>3. PICK k \in Kinds : k = "loader"
  BY DEF Kinds
<1>4. /\ r \in States /\ GivesUp(Now, r, Work, {<<k, t.view>>}) /\ Adds(Now, r, k, t.view, id)
  <2>1. Begun(Now, r, t.view, k, id, None, None, e, d, h)
    BY <1>2, <1>3
  <2>. QED
    BY <1>3, <2>1, BegunGivesUp
<1>5. \A i \in DOMAIN r.queue : i \in DOMAIN Now.queue \/ r.queue[i].kind = "loader"
  BY <1>3, <1>4 DEF Adds
<1>6. Listed(r, posts, running, doc)
  BY <1>1, <1>4, <1>5, GivesUpLists DEF ListInv
<1>7. ASSUME NEW p \in Pages, r.child[p] = t.view
      PROVE  WillLoad(r, t.view)
  <2>1. t.view \in Displayed(r)
    BY <1>7 DEF Displayed
  <2>. QED
    BY <1>3, <1>4, <2>1 DEF GivesUp, Fills, WillLoad
<1>8. Listed(r, Tail(posts), running, doc)
  BY <1>1, <1>6, <1>7, TailCovers DEF Listed
<1>9. Listed(Now', posts', running', doc')
  BY <1>2, <1>8
<1>. QED
  BY <1>9 DEF ListInv

LEMMA DeliverShown ==
  ASSUME TasksInv, ListInv, NEW t, t = Head(posts), posts # <<>>, posts' = Tail(posts),
         UNCHANGED <<running, doc>>, t.kind = "loader", t.view \in Views, t.what \in Lists,
         t.id \notin cancelled,
         Relisted(Now, Now', t.view, t.what), cancelled' = cancelled
  PROVE  ListInv'
<1>1. /\ Now \in States /\ posts \in Seq(Results)
      /\ \A p \in Pages : Now.child[p] \in Views \cup {None}
  BY TasksInvTypes DEF States
<1>2. PICK r : r = Now'
  OBVIOUS
<1>3. PICK Q : Q = Tail(posts)
  OBVIOUS
<1>4. /\ r.child = Now.child /\ r.queue = Now.queue /\ r.cancelled = Now.cancelled
      /\ r.views[t.view].annots = t.what /\ t.what # None
      /\ \A w \in Views : w # t.view => r.views[w] = Now.views[w]
  BY <1>2, NowIs, PageViewsAssumption DEF Relisted, Now
<1>5. /\ t = posts[1] /\ 1 \in DOMAIN posts
      /\ \A i \in DOMAIN Q : i \in Nat /\ i > 0 /\ i + 1 \in DOMAIN posts /\ Q[i] = posts[i + 1]
      /\ \A i \in DOMAIN posts : i = 1 \/ (i - 1 \in DOMAIN Q /\ Q[i - 1] = posts[i])
      /\ DOMAIN posts \subseteq Nat \ {0}
  BY <1>1, <1>3, TailItems
<1>6. /\ \A j, k, v : Waits(r, j, k, v) <=> Waits(Now, j, k, v)
      /\ \A i, v : Behind(r, i, v) <=> Behind(Now, i, v)
      /\ \A v : WillLoad(r, v) <=> WillLoad(Now, v)
  BY <1>4 DEF Waits, Behind, WillLoad
<1>7. FirstAhead(r, running) /\ AtCore(r, running) /\ Replaced(r, running)
  <2>1. \A i, v : Ahead(r, running, i, v) <=> Ahead(Now, running, i, v)
    BY <1>4, <1>6 DEF Ahead, OnSecond
  <2>2. FirstAhead(Now, running) /\ AtCore(Now, running) /\ Replaced(Now, running)
    BY DEF ListInv, Listed
  <2>3. FirstAhead(r, running)
    BY <1>4, <2>1, <2>2 DEF FirstAhead
  <2>4. AtCore(r, running)
    BY <1>4, <1>6, <2>2 DEF AtCore
  <2>5. Replaced(r, running)
    BY <1>4, <1>6, <2>2 DEF Replaced, Displayed
  <2>. QED
    BY <2>3, <2>4, <2>5
<1>8. Covered(r, Q, running, doc)
  <2>1. SUFFICES ASSUME NEW p \in Pages, r.child[p] # None
                 PROVE  Pending(r, Q, running, r.child[p]) \/ Current(r, Q, r.child[p], doc[p])
    BY DEF Covered
  <2>. DEFINE v == r.child[p]
  <2>2. v \in Views
    BY <1>1, <1>4, <2>1
  <2>3. Pending(Now, posts, running, v) \/ Current(Now, posts, v, doc[p])
    BY <1>4, <2>1 DEF ListInv, Listed, Covered
  <2>. HIDE DEF v
  <2>4. /\ \A i \in DOMAIN Q : Comes(r, Q, v, i) <=> Comes(Now, posts, v, i + 1)
        /\ \A i \in DOMAIN posts : Comes(Now, posts, v, i) =>
             i = 1 \/ (i - 1 \in DOMAIN Q /\ Comes(r, Q, v, i - 1))
    BY <1>4, <1>5 DEF Comes
  <2>5. CASE Pending(Now, posts, running, v)
    <3>1. ASSUME NEW j \in DOMAIN posts, posts[j].kind = "del"
          PROVE  j - 1 \in DOMAIN Q /\ Q[j - 1] = posts[j]
      BY <1>5, <3>1
    <3>2. Pending(r, Q, running, v)
      BY <1>4, <1>6, <2>5, <3>1 DEF Pending
    <3>. QED
      BY <3>2 DEF v
  <2>6. CASE Current(Now, posts, v, doc[p])
    <3>0. v = t.view <=> Comes(Now, posts, v, 1)
      BY <1>5, NowIs DEF Comes
    <3>1. CASE /\ Now.views[v].annots # None /\ Now.views[v].annots.list = doc[p]
               /\ \A j \in DOMAIN posts : ~Comes(Now, posts, v, j)
      <4>1. v # t.view
        BY <1>5, <3>0, <3>1
      <4>2. \A i \in DOMAIN Q : ~Comes(r, Q, v, i)
        BY <1>5, <2>4, <3>1
      <4>3. Current(r, Q, v, doc[p])
        BY <1>4, <2>2, <3>1, <4>1, <4>2 DEF Current
      <4>. QED
        BY <4>3 DEF v
    <3>2. ASSUME NEW i \in DOMAIN posts, Comes(Now, posts, v, i), posts[i].what.list = doc[p],
                 \A j \in DOMAIN posts : j > i => ~Comes(Now, posts, v, j)
          PROVE  Current(r, Q, v, doc[p])
      <4>1. CASE i = 1
        <5>1. \A j \in DOMAIN Q : ~Comes(r, Q, v, j)
          <6>1. \A j \in DOMAIN Q : j + 1 > i
            BY <1>5, <4>1
          <6>. QED
            BY <1>5, <2>4, <3>2, <6>1
        <5>2. v = t.view
          BY <3>0, <3>2, <4>1
        <5>3. r.views[v].annots # None /\ r.views[v].annots.list = doc[p]
          BY <1>4, <1>5, <3>2, <4>1, <5>2
        <5>. QED
          BY <5>1, <5>3 DEF Current
      <4>2. CASE i # 1
        <5>1. i - 1 \in DOMAIN Q /\ Comes(r, Q, v, i - 1) /\ Q[i - 1] = posts[i] /\ i \in Nat
          BY <1>5, <2>4, <3>2, <4>2
        <5>2. ASSUME NEW j \in DOMAIN Q, j > i - 1
              PROVE  ~Comes(r, Q, v, j)
          <6>1. j + 1 \in DOMAIN posts /\ j + 1 > i
            BY <1>5, <5>1, <5>2
          <6>. QED
            BY <2>4, <3>2, <6>1
        <5>. QED
          BY <3>2, <5>1, <5>2 DEF Current
      <4>. QED
        BY <4>1, <4>2
    <3>. QED
      BY <2>6, <3>1, <3>2 DEF Current, v
  <2>. QED
    BY <2>3, <2>5, <2>6 DEF v
<1>9. Listed(Now', posts', running', doc')
  <2>1. Listed(r, Q, running, doc)
    BY <1>7, <1>8 DEF Listed
  <2>. QED
    BY <1>2, <1>3, <2>1
<1>. QED
  BY <1>9 DEF ListInv

LEMMA DeliverLists ==
  ASSUME TasksInv, ListInv, Deliver
  PROVE  ListInv'
<1>1. PICK t : t = Head(posts)
  OBVIOUS
<1>2. /\ posts # <<>> /\ posts' = Tail(posts) /\ UNCHANGED <<running, doc>> /\ t.view \in Views
      /\ \/ /\ t.id \in cancelled /\ Now' \in States /\ views' = views /\ child' = child
            /\ queue' = queue /\ cancelled' = cancelled \ {t.id}
         \/ /\ t.kind = "del"
            /\ \E id \in Nat : \E e, d, h : Begun(Now, Now', t.view, "loader", id, None, None, e, d, h)
         \/ /\ t.id \notin cancelled /\ t.kind = "loader" /\ t.what \in Lists
            /\ Relisted(Now, Now', t.view, t.what) /\ cancelled' = cancelled
  BY <1>1, DeliverIs, HeadOfPosts
<1>. QED
  BY <1>1, <1>2, DeliverDropped, DeliverDeleted, DeliverShown

\* A task leaves the queue: it begins, or it has been given up.
LEMMA StartLists ==
  ASSUME TasksInv, ListInv, Start
  PROVE  ListInv'
<1>. DEFINE t == Head(queue)
            r == Now'
            S == running'
<1>1. /\ running = None /\ queue # <<>> /\ queue' = Tail(queue) /\ t \in Jobs
      /\ UNCHANGED <<views, child, doc, posts>>
      /\ \/ /\ t.id \in cancelled /\ cancelled' = cancelled \ {t.id} /\ S = None
         \/ /\ t.id \notin cancelled /\ cancelled' = cancelled /\ S \in Started
            /\ Tag(S) = Tag(t) /\ S.step = "read" /\ S.kind = t.kind /\ S.view = t.view
  BY StartIs DEF NotUI
<1>2. queue \in Seq(Jobs) /\ Distinct(queue, posts, running)
  BY TasksInvTypes, NowIs DEF TasksInv, TasksGood
<1>3. /\ t = queue[1] /\ 1 \in DOMAIN queue
      /\ \A i \in DOMAIN queue' : i \in Nat /\ i > 0 /\ i + 1 \in DOMAIN queue /\ queue'[i] = queue[i + 1]
      /\ \A i \in DOMAIN queue : i = 1 \/ (i - 1 \in DOMAIN queue' /\ queue'[i - 1] = queue[i])
      /\ DOMAIN queue \subseteq Nat \ {0}
  BY <1>1, <1>2, TailItems
<1>4. /\ r.queue = queue' /\ r.views = views /\ r.child = child /\ r.cancelled = cancelled'
      /\ Now.queue = queue /\ Now.views = views /\ Now.child = child /\ Now.cancelled = cancelled
  BY <1>1 DEF Now
<1>5. S # None => S.id = t.id /\ S.kind = t.kind /\ S.view = t.view /\ S.step = "read" /\ t.id \notin cancelled'
  BY <1>1 DEF Tag
<1>6. /\ cancelled' \subseteq cancelled /\ (t.id \notin cancelled => S # None)
      /\ \A i : i \in cancelled /\ i # t.id => i \in cancelled'
      /\ \A j \in DOMAIN posts : posts[j].id # t.id
  BY <1>1, <1>2, <1>3, PageViewsAssumption DEF Distinct
<1>7. FirstAhead(Now, None) /\ Covered(Now, posts, None, doc)
  BY <1>1 DEF ListInv, Listed
<1>. HIDE DEF t, r, S
<1>8. ASSUME NEW j \in DOMAIN queue, NEW k, NEW v, Waits(Now, j, k, v), j # 1
      PROVE  j - 1 \in DOMAIN r.queue /\ Waits(r, j - 1, k, v)
  BY <1>3, <1>4, <1>6, <1>8 DEF Waits
<1>9. ASSUME NEW i \in DOMAIN queue, NEW v, Behind(Now, i, v)
      PROVE  Behind(r, i - 1, v)
  <2>1. PICK j \in DOMAIN queue : j > i /\ Waits(Now, j, "loader", v)
    BY <1>4, <1>9 DEF Behind
  <2>2. i \in Nat \ {0} /\ j \in Nat /\ j # 1 /\ j - 1 > i - 1
    BY <1>3, <2>1
  <2>3. j - 1 \in DOMAIN r.queue /\ Waits(r, j - 1, "loader", v)
    BY <1>8, <2>1, <2>2
  <2>. QED
    BY <2>2, <2>3 DEF Behind
<1>10. ASSUME NEW i \in DOMAIN queue, NEW v, Ahead(Now, None, i, v)
       PROVE  Ahead(r, S, i - 1, v)
  BY <1>4, <1>9, <1>10 DEF Ahead, OnSecond
<1>11. FirstAhead(r, S)
  <2>1. ASSUME NEW i \in DOMAIN r.queue, r.queue[i].kind # "loader"
        PROVE  Ahead(r, S, i, r.queue[i].view)
    <3>1. i + 1 \in DOMAIN queue /\ r.queue[i] = queue[i + 1] /\ (i + 1) - 1 = i
      BY <1>3, <1>4
    <3>2. Ahead(Now, None, i + 1, queue[i + 1].view)
      BY <1>4, <1>7, <2>1, <3>1 DEF FirstAhead
    <3>3. Ahead(r, S, (i + 1) - 1, queue[i + 1].view)
      BY <1>10, <3>1, <3>2
    <3>. QED
      BY <3>1, <3>3
  <2>2. ASSUME S # None, S.kind # "loader"
        PROVE  Ahead(r, S, 0, S.view)
    <3>1. Ahead(Now, None, 1, t.view)
      BY <1>3, <1>4, <1>5, <1>7, <2>2 DEF FirstAhead
    <3>2. Ahead(r, S, 1 - 1, t.view)
      BY <1>3, <1>10, <3>1
    <3>. QED
      BY <1>5, <2>2, <3>2
  <2>. QED
    BY <2>1, <2>2 DEF FirstAhead
<1>12. AtCore(r, S) /\ Replaced(r, S)
  BY <1>4, <1>5 DEF AtCore, Replaced
<1>13. ASSUME NEW v, WillLoad(Now, v)
       PROVE  Pending(r, posts, S, v)
  <2>1. PICK j \in DOMAIN queue : Waits(Now, j, "loader", v) \/ Waits(Now, j, "del", v)
    BY <1>4, <1>13 DEF WillLoad
  <2>2. CASE j = 1
    <3>1. t.kind \in {"loader", "del"} /\ t.view = v /\ t.id \notin cancelled
      BY <1>3, <1>4, <2>1, <2>2 DEF Waits
    <3>. QED
      BY <1>4, <1>5, <1>6, <3>1 DEF Pending
  <2>3. CASE j # 1
    BY <1>8, <2>1, <2>3 DEF WillLoad, Pending
  <2>. QED
    BY <2>2, <2>3
<1>14. \A v : Pending(Now, posts, None, v) => Pending(r, posts, S, v)
  BY <1>4, <1>6, <1>13 DEF Pending
<1>15. \A v, A : Current(Now, posts, v, A) => Current(r, posts, v, A)
  <2>1. \A v, j : j \in DOMAIN posts => (Comes(r, posts, v, j) <=> Comes(Now, posts, v, j))
    BY <1>4, <1>6 DEF Comes
  <2>. QED
    BY <1>4, <2>1 DEF Current
<1>16. Covered(r, posts, S, doc)
  BY <1>4, <1>7, <1>14, <1>15 DEF Covered
<1>17. Listed(Now', posts', running', doc')
  <2>1. Listed(Now', posts, running', doc)
    BY <1>11, <1>12, <1>16 DEF Listed, r, S
  <2>. QED
    BY <1>1, <2>1
<1>. QED
  BY <1>17 DEF ListInv

LEMMA DisplayedPage ==
  ASSUME TasksInv, NEW v \in Views
  PROVE  /\ \A p \in Pages : child[p] = v => views[v].page = p
         /\ v \notin Displayed(Now) => views[v].page = 0
BY NowIs, PageViewsAssumption DEF TasksInv, TasksGood, Placed

LEMMA NowStays ==
  ASSUME UNCHANGED <<views, queue, cancelled>>, NotUI
  PROVE  Now' = Now
BY DEF NotUI, Now

LEMMA ReadPageLists ==
  ASSUME TasksInv, ListInv, ReadPage
  PROVE  ListInv'
<1>. DEFINE R == running
<1>1. PICK S : S = running'
  OBVIOUS
<1>2. /\ R # None /\ R.step = "read" /\ R.kind # "loader" /\ S.step = "core"
      /\ S.page = views[R.view].page /\ S.kind = R.kind /\ S.view = R.view /\ S.id = R.id
      /\ Now' = Now /\ UNCHANGED <<doc, posts>> /\ S # None /\ R.view \in Views
      /\ views[R.view].page \in Pages
  BY <1>1, ReadPageIs, NowStays, RunningIs, StartedType DEF TaskStep, Stepped
<1>3. FirstAhead(Now, R) /\ Replaced(Now, R) /\ Covered(Now, posts, R, doc)
  BY DEF ListInv, Listed
<1>. HIDE DEF R
<1>4. \A i, v : Ahead(Now, R, i, v) => Ahead(Now, S, i, v)
  BY <1>2 DEF Ahead
<1>5. FirstAhead(Now, S)
  BY <1>2, <1>3, <1>4 DEF FirstAhead
<1>6. AtCore(Now, S)
  <2>1. CASE R.view \in Displayed(Now)
    <3>1. PICK p \in Pages : child[p] = R.view
      BY <2>1, NowIs DEF Displayed
    <3>2. S.page = p
      BY <1>2, <3>1, DisplayedPage
    <3>. QED
      BY <1>2, <3>1, <3>2, NowIs DEF AtCore
  <2>2. CASE R.view \notin Displayed(Now)
    <3>1. S.page = 0
      BY <1>2, <2>2, DisplayedPage
    <3>2. ~OnSecond(Now, R.view)
      BY <1>2, <2>2 DEF OnSecond, Displayed
    <3>3. Now.child[0] \in {None, R.view} \/ Behind(Now, 0, Now.child[0])
      BY <1>2, <1>3, <3>2 DEF FirstAhead, Ahead
    <3>. QED
      BY <1>2, <3>1, <3>3 DEF AtCore
  <2>. QED
    BY <2>1, <2>2
<1>7. Replaced(Now, S)
  BY <1>2, <1>3 DEF Replaced
<1>8. Covered(Now, posts, S, doc)
  <2>1. \A v : Pending(Now, posts, R, v) => Pending(Now, posts, S, v)
    BY <1>2 DEF Pending
  <2>. QED
    BY <1>3, <2>1 DEF Covered
<1>9. Listed(Now', posts', running', doc')
  <2>1. Listed(Now, posts, S, doc)
    BY <1>5, <1>6, <1>7, <1>8 DEF Listed
  <2>. QED
    BY <1>1, <1>2, <2>1
<1>. QED
  BY <1>9 DEF ListInv

\* A task is done, and its result is the last one.
LEMMA AppendResult ==
  ASSUME NEW s, NEW P \in Seq(Results), NEW x \in Results, NEW R, NEW v, NEW A,
         ~(x.kind = "loader" /\ x.view = v /\ x.id \notin s.cancelled)
  PROVE  LET Q == Append(P, x) IN
         /\ Pending(s, P, R, v) => Pending(s, Q, None, v) \/ (R # None /\ R.view = v
              /\ ((R.kind \in {"loader", "del"} /\ R.id \notin s.cancelled) \/ R.step \in {"clear", "reload"}))
         /\ Current(s, P, v, A) => Current(s, Q, v, A)
<1>. DEFINE Q == Append(P, x)
            m == Len(P) + 1
<1>1. /\ DOMAIN Q = DOMAIN P \cup {m} /\ Q[m] = x
      /\ \A i \in DOMAIN P : Q[i] = P[i]
  BY AppendItems
<1>. HIDE DEF Q, m
<1>2. Pending(s, P, R, v) => Pending(s, Q, None, v) \/ (R # None /\ R.view = v
          /\ ((R.kind \in {"loader", "del"} /\ R.id \notin s.cancelled) \/ R.step \in {"clear", "reload"}))
  BY <1>1 DEF Pending
<1>3. /\ \A i \in DOMAIN P : Comes(s, Q, v, i) <=> Comes(s, P, v, i)
      /\ ~Comes(s, Q, v, m)
  BY <1>1 DEF Comes
<1>4. Current(s, P, v, A) => Current(s, Q, v, A)
  BY <1>1, <1>3 DEF Current
<1>. QED
  BY <1>2, <1>4 DEF Q

LEMMA GetAnnotationsLists ==
  ASSUME TasksInv, ListInv, GetAnnotations
  PROVE  ListInv'
<1>. DEFINE R == running
<1>1. PICK q, a, x : /\ q = views[R.view].page
                     /\ a = [of |-> q, list |-> doc[q], deletions |-> deletions[q]]
                     /\ x = [id |-> R.id, kind |-> "loader", view |-> R.view, what |-> a]
  OBVIOUS
<1>2. /\ R # None /\ R.kind = "loader" /\ running' = None /\ Now' = Now /\ doc' = doc
      /\ x \in Results /\ posts' = Append(posts, x) /\ R.view \in Views /\ R.step = "read"
      /\ posts \in Seq(Results) /\ x.id = R.id /\ x.kind = "loader" /\ x.view = R.view
      /\ x.what.list = doc[q]
  BY <1>1, GetAnnotationsIs, RunningIs, NowStays, TasksInvTypes DEF TaskStep
<1>3. PICK Q, m : Q = Append(posts, x) /\ m = Len(posts) + 1
  OBVIOUS
<1>4. /\ DOMAIN Q = DOMAIN posts \cup {m} /\ Q[m] = x /\ m \in Nat
      /\ \A i \in DOMAIN posts : ~(i > m) /\ i \in Nat
  BY <1>2, <1>3, AppendItems
<1>5. FirstAhead(Now, R) /\ Covered(Now, posts, R, doc)
  BY DEF ListInv, Listed
<1>. HIDE DEF R
<1>6. FirstAhead(Now, None)
  BY <1>2, <1>5 DEF FirstAhead, Ahead
<1>7. AtCore(Now, None) /\ Replaced(Now, None)
  BY DEF AtCore, Replaced
<1>8. Covered(Now, Q, None, doc)
  <2>1. SUFFICES ASSUME NEW p \in Pages, Now.child[p] # None
                 PROVE  Pending(Now, Q, None, Now.child[p]) \/ Current(Now, Q, Now.child[p], doc[p])
    BY DEF Covered
  <2>. DEFINE v == Now.child[p]
  <2>2. CASE v = R.view /\ R.id \notin Now.cancelled
    <3>1. q = p
      BY <1>1, <1>2, <2>2, DisplayedPage, NowIs DEF R
    <3>2. Comes(Now, Q, v, m) /\ Q[m].what.list = doc[p]
      BY <1>2, <1>4, <2>2, <3>1 DEF Comes
    <3>3. \A j \in DOMAIN Q : ~(j > m)
      BY <1>4
    <3>. QED
      BY <1>4, <3>2, <3>3 DEF Current
  <2>3. CASE ~(v = R.view /\ R.id \notin Now.cancelled)
    <3>1. Pending(Now, posts, R, v) \/ Current(Now, posts, v, doc[p])
      BY <1>5, <2>1 DEF Covered
    <3>2. ~(x.kind = "loader" /\ x.view = v /\ x.id \notin Now.cancelled)
      BY <1>2, <2>3
    <3>. HIDE DEF v
    <3>3. Pending(Now, Q, None, v) \/ Current(Now, Q, v, doc[p])
      BY <1>2, <1>3, <2>3, <3>1, <3>2, AppendResult
    <3>. QED
      BY <3>3 DEF v
  <2>. QED
    BY <2>2, <2>3
<1>9. Listed(Now', posts', running', doc')
  BY <1>2, <1>3, <1>6, <1>7, <1>8 DEF Listed
<1>. QED
  BY <1>9 DEF ListInv

LEMMA DeleteAnnotationLists ==
  ASSUME TasksInv, ListInv, DeleteAnnotation
  PROVE  ListInv'
<1>. DEFINE R == running
<1>1. PICK x : x = [id |-> R.id, kind |-> "del", view |-> R.view, what |-> None]
  OBVIOUS
<1>2. /\ R # None /\ R.kind = "del" /\ R.step = "core" /\ running' = None /\ Now' = Now
      /\ x \in Results /\ posts' = Append(posts, x) /\ R.view \in Views /\ R.page \in Pages
      /\ posts \in Seq(Results) /\ x.id = R.id /\ x.kind = "del" /\ x.view = R.view
      /\ \A p \in Pages : p # R.page => doc'[p] = doc[p]
  <2>1. doc \in [Pages -> Seq(SUBSET Strokes)]
    BY TasksTypes
  <2>2. /\ R # None /\ R.kind = "del" /\ R.step = "core" /\ running' = None /\ R.page \in Pages
        /\ x \in Results /\ posts' = Append(posts, x) /\ TaskStep
        /\ \/ doc' = doc
           \/ doc' = [doc EXCEPT ![R.page] = RemoveAt(doc[R.page], R.what.at)]
    BY <1>1, DeleteAnnotationIs
  <2>3. \A p \in Pages : p # R.page => doc'[p] = doc[p]
    BY <2>1, <2>2
  <2>. QED
    BY <1>1, <2>2, <2>3, RunningIs, NowStays, TasksInvTypes DEF TaskStep
<1>3. PICK Q, m : Q = Append(posts, x) /\ m = Len(posts) + 1
  OBVIOUS
<1>4. DOMAIN Q = DOMAIN posts \cup {m} /\ Q[m] = x
  BY <1>2, <1>3, AppendItems
<1>5. FirstAhead(Now, R) /\ AtCore(Now, R) /\ Replaced(Now, R) /\ Covered(Now, posts, R, doc)
  BY DEF ListInv, Listed
<1>. HIDE DEF R
<1>6. FirstAhead(Now, None)
  BY <1>2, <1>5 DEF FirstAhead, Ahead
<1>7. AtCore(Now, None) /\ Replaced(Now, None)
  BY DEF AtCore, Replaced
<1>8. PICK D : D = doc'
  OBVIOUS
<1>9. Covered(Now, Q, None, D)
  <2>1. SUFFICES ASSUME NEW p \in Pages, Now.child[p] # None
                 PROVE  Pending(Now, Q, None, Now.child[p]) \/ Current(Now, Q, Now.child[p], D[p])
    BY DEF Covered
  <2>. DEFINE v == Now.child[p]
  <2>2. CASE v = R.view /\ R.id \notin Now.cancelled
    BY <1>2, <1>4, <2>2 DEF Pending
  <2>3. CASE v = R.view /\ R.id \in Now.cancelled
    <3>1. R.view \in Displayed(Now)
      BY <1>2, <2>3 DEF Displayed
    <3>. QED
      BY <1>2, <1>5, <2>3, <3>1 DEF Replaced, Pending
  <2>4. CASE v # R.view /\ p = R.page
    <3>1. Behind(Now, 0, v)
      BY <1>2, <1>5, <2>1, <2>4 DEF AtCore
    <3>. QED
      BY <3>1 DEF Behind, WillLoad, Pending
  <2>5. CASE v # R.view /\ p # R.page
    <3>1. Pending(Now, posts, R, v) \/ Current(Now, posts, v, D[p])
      BY <1>2, <1>5, <1>8, <2>1, <2>5 DEF Covered
    <3>. HIDE DEF v
    <3>2. Pending(Now, Q, None, v) \/ Current(Now, Q, v, D[p])
      BY <1>2, <1>3, <2>5, <3>1, AppendResult
    <3>. QED
      BY <3>2 DEF v
  <2>. QED
    BY <2>2, <2>3, <2>4, <2>5
<1>10. Listed(Now', posts', running', doc')
  BY <1>2, <1>3, <1>6, <1>7, <1>8, <1>9 DEF Listed
<1>. QED
  BY <1>10 DEF ListInv

\* The page has an annotation more, and the task will load its list.
LEMMA AddInkLists ==
  ASSUME TasksInv, ListInv, AddInkAnnotation
  PROVE  ListInv'
<1>. DEFINE R == running
<1>1. PICK S, D : S = running' /\ D = doc'
  OBVIOUS
<1>2. /\ R # None /\ R.kind = "ink" /\ R.step = "core" /\ R.page \in Pages
      /\ S # None /\ S.kind = "ink" /\ S.step = "clear" /\ S.view = R.view
      /\ Now' = Now /\ posts' = posts
      /\ \A p \in Pages : p # R.page => D[p] = doc[p]
  <2>1. doc \in [Pages -> Seq(SUBSET Strokes)]
    BY TasksTypes
  <2>2. /\ R # None /\ R.kind = "ink" /\ R.step = "core" /\ R.page \in Pages
        /\ TaskStep /\ posts' = posts /\ Stepped(R, S, "clear", R.page)
        /\ D = [doc EXCEPT ![R.page] = Append(doc[R.page], R.what)]
    BY <1>1, AddInkIs
  <2>3. \A p \in Pages : p # R.page => D[p] = doc[p]
    BY <2>1, <2>2
  <2>. QED
    BY <2>2, <2>3, NowStays, StartedType DEF TaskStep, Stepped
<1>3. FirstAhead(Now, R) /\ AtCore(Now, R) /\ Covered(Now, posts, R, doc)
  BY DEF ListInv, Listed
<1>. HIDE DEF R
<1>4. FirstAhead(Now, S)
  BY <1>2, <1>3 DEF FirstAhead, Ahead
<1>5. AtCore(Now, S) /\ Replaced(Now, S)
  BY <1>2 DEF AtCore, Replaced
<1>6. Covered(Now, posts, S, D)
  <2>1. SUFFICES ASSUME NEW p \in Pages, Now.child[p] # None
                 PROVE  Pending(Now, posts, S, Now.child[p]) \/ Current(Now, posts, Now.child[p], D[p])
    BY DEF Covered
  <2>. DEFINE v == Now.child[p]
  <2>2. CASE v = R.view
    BY <1>2, <2>2 DEF Pending
  <2>3. CASE v # R.view /\ p = R.page
    <3>1. Behind(Now, 0, v)
      BY <1>2, <1>3, <2>1, <2>3 DEF AtCore
    <3>. QED
      BY <3>1 DEF Behind, WillLoad, Pending
  <2>4. CASE v # R.view /\ p # R.page
    <3>1. Pending(Now, posts, R, v) \/ Current(Now, posts, v, D[p])
      BY <1>2, <1>3, <2>1, <2>4 DEF Covered
    <3>. HIDE DEF v
    <3>2. Pending(Now, posts, R, v) => Pending(Now, posts, S, v)
      BY <2>4 DEF Pending
    <3>. QED
      BY <3>1, <3>2 DEF v
  <2>. QED
    BY <2>2, <2>3, <2>4
<1>7. Listed(Now', posts', running', doc')
  BY <1>1, <1>2, <1>4, <1>5, <1>6 DEF Listed
<1>. QED
  BY <1>7 DEF ListInv

\* The loader of its view is given up, and will be replaced in the next step.
LEMMA ClearLists ==
  ASSUME TasksInv, ListInv, ClearAnnotations
  PROVE  ListInv'
<1>. DEFINE R == running
            u == R.view
            c == views[u].loader
<1>1. PICK S, r : S = running' /\ r = Now'
  OBVIOUS
<1>2. /\ R # None /\ R.kind = "ink" /\ R.step = "clear" /\ u \in Views
      /\ S # None /\ S.kind = "ink" /\ S.step = "reload" /\ S.view = u
      /\ UNCHANGED <<posts, doc>>
      /\ r.child = Now.child /\ r.queue = Now.queue
      /\ r.cancelled = Now.cancelled \cup ({c} \cap IdsOf(Work))
      /\ \A w \in Views : w # u => r.views[w] = Now.views[w]
  <2>1. /\ R # None /\ R.kind = "ink" /\ R.step = "clear" /\ u \in Views
        /\ UNCHANGED <<posts, doc>> /\ Stepped(R, S, "reload", c)
        /\ Relisted(Now, r, u, None) /\ cancelled' = cancelled \cup ({c} \cap IdsOf(Work))
    BY <1>1, ClearIs
  <2>2. r.cancelled = cancelled' /\ Now.cancelled = cancelled
    BY <1>1 DEF Now
  <2>. QED
    BY <2>1, <2>2, StartedType DEF Stepped, Relisted
<1>3. /\ Remembered(Now, Work, late) /\ Live(Now.queue, posts, running) = Work
      /\ Now.views[u].loader = c /\ Now \in States
  BY TasksInvTypes, NowIs DEF TasksInv, TasksGood
<1>4. \A x \in Work : x.id = c => x.kind = "loader" /\ x.view = u
  BY <1>2, <1>3 DEF Remembered
<1>. HIDE DEF c, u
<1>5. /\ \A k, w : \A j \in DOMAIN Now.queue : w # u /\ Waits(Now, j, k, w) => Waits(r, j, k, w)
      /\ \A j \in DOMAIN posts : posts[j].id \notin Now.cancelled /\ posts[j].id \in r.cancelled =>
           posts[j].kind = "loader" /\ posts[j].view = u
  <2>1. \A j \in DOMAIN Now.queue : Now.queue[j].id = c => Now.queue[j].view = u
    BY <1>3, <1>4, InLive
  <2>2. \A j \in DOMAIN posts : posts[j].id = c => posts[j].kind = "loader" /\ posts[j].view = u
    BY <1>3, <1>4, InLive
  <2>. QED
    BY <1>2, <2>1, <2>2 DEF Waits
<1>6. FirstAhead(Now, R) /\ Covered(Now, posts, R, doc)
  BY DEF ListInv, Listed
<1>. HIDE DEF R
<1>7. /\ \A i, w : w # u /\ Behind(Now, i, w) => Behind(r, i, w)
      /\ \A w : w # u /\ WillLoad(Now, w) => WillLoad(r, w)
  BY <1>2, <1>5 DEF Behind, WillLoad
<1>8. \A i, v : Ahead(Now, R, i, v) => Ahead(r, S, i, v)
  <2>1. SUFFICES ASSUME NEW i, NEW v, Ahead(Now, R, i, v)
                 PROVE  Ahead(r, S, i, v)
    OBVIOUS
  <2>2. CASE Now.child[0] = u
    BY <1>2, <2>2 DEF Ahead
  <2>3. CASE Now.child[0] # u
    BY <1>2, <1>7, <2>1, <2>3 DEF Ahead, OnSecond
  <2>. QED
    BY <2>2, <2>3
<1>9. FirstAhead(r, S)
  BY <1>2, <1>6, <1>8 DEF FirstAhead
<1>10. AtCore(r, S) /\ Replaced(r, S)
  BY <1>2 DEF AtCore, Replaced
<1>11. Covered(r, posts, S, doc)
  <2>1. SUFFICES ASSUME NEW p \in Pages, r.child[p] # None
                 PROVE  Pending(r, posts, S, r.child[p]) \/ Current(r, posts, r.child[p], doc[p])
    BY DEF Covered
  <2>. DEFINE v == r.child[p]
  <2>2. CASE v = u
    BY <1>2, <2>2 DEF Pending
  <2>3. CASE v # u
    <3>1. v \in Views
      BY <1>2, <1>3, <2>1 DEF States
    <3>2. Pending(Now, posts, R, v) \/ Current(Now, posts, v, doc[p])
      BY <1>2, <1>6, <2>1 DEF Covered
    <3>. HIDE DEF v
    <3>3. Pending(Now, posts, R, v) => Pending(r, posts, S, v)
      BY <1>2, <1>5, <1>7, <2>3 DEF Pending, u
    <3>4. \A j \in DOMAIN posts : Comes(r, posts, v, j) <=> Comes(Now, posts, v, j)
      BY <1>2, <1>5, <2>3 DEF Comes
    <3>5. Current(Now, posts, v, doc[p]) => Current(r, posts, v, doc[p])
      BY <1>2, <2>3, <3>1, <3>4 DEF Current
    <3>. QED
      BY <3>2, <3>3, <3>5 DEF v
  <2>. QED
    BY <2>2, <2>3
<1>12. Listed(Now', posts', running', doc')
  BY <1>1, <1>2, <1>9, <1>10, <1>11 DEF Listed
<1>. QED
  BY <1>12 DEF ListInv

LEMMA ReloadLists ==
  ASSUME TasksInv, ListInv, Reload
  PROVE  ListInv'
<1>. DEFINE R == running
            u == R.view
<1>1. PICK r : r = Now'
  OBVIOUS
<1>2. PICK id \in Nat : FreshIn(Now, Work, id) /\ queue' = Append(queue, Job(id, "loader", u, None))
  BY ReloadIs
<1>3. /\ R # None /\ R.kind = "ink" /\ R.step = "reload" /\ running' = None /\ u \in Views
      /\ r \in States /\ r.child = Now.child /\ UNCHANGED <<posts, doc>>
      /\ r.cancelled = Now.cancelled \ {R.id}
      /\ r.queue = Append(Now.queue, Job(id, "loader", u, None))
      /\ \A w \in Views : r.views[w].annots = Now.views[w].annots
  <2>1. /\ R # None /\ R.kind = "ink" /\ R.step = "reload" /\ running' = None /\ u \in Views
        /\ r \in States /\ NotUI /\ UNCHANGED <<posts, doc>> /\ cancelled' = cancelled \ {R.id}
        /\ \A w \in Views : w # u => views'[w] = views[w]
        /\ SameLists(views'[u], views[u])
    BY <1>1, ReloadIs
  <2>2. /\ r.child = child' /\ r.cancelled = cancelled' /\ r.queue = queue' /\ r.views = views'
    BY <1>1 DEF Now
  <2>. QED
    BY <1>2, <2>1, <2>2, NowIs DEF NotUI, SameLists
<1>4. /\ Now \in States /\ Remembered(Now, Work, late) /\ Distinct(Now.queue, posts, R)
      /\ \A p \in Pages : Now.child[p] \in Views \cup {None}
  BY TasksInvTypes DEF TasksInv, TasksGood, States
<1>5. id \notin r.cancelled
  BY <1>2, <1>3, <1>4 DEF Remembered, FreshIn
<1>6. Adds(Now, r, "loader", u, id)
  BY <1>3, <1>4, AppendAdds
<1>7. PICK m : /\ DOMAIN r.queue = DOMAIN Now.queue \cup {m}
               /\ \A i \in DOMAIN Now.queue : r.queue[i] = Now.queue[i]
               /\ \A i \in {0} \cup DOMAIN Now.queue : m > i
               /\ r.queue[m].id = id /\ r.queue[m].kind = "loader" /\ r.queue[m].view = u
  BY <1>6 DEF Adds
<1>8. FirstAhead(Now, R) /\ Covered(Now, posts, R, doc)
  BY DEF ListInv, Listed
<1>9. \A j \in DOMAIN posts : posts[j].id \in r.cancelled <=> posts[j].id \in Now.cancelled
  BY <1>3, <1>4 DEF Distinct
<1>. HIDE DEF R, u
<1>10. Waits(r, m, "loader", u)
  BY <1>5, <1>7 DEF Waits
<1>11. \A k, v : \A j \in DOMAIN Now.queue : Waits(Now, j, k, v) => j \in DOMAIN r.queue /\ Waits(r, j, k, v)
  BY <1>3, <1>7 DEF Waits
<1>12. /\ \A i, v : Behind(Now, i, v) => Behind(r, i, v)
       /\ \A i \in {0} \cup DOMAIN Now.queue : Behind(r, i, u)
       /\ WillLoad(r, u) /\ \A v : WillLoad(Now, v) => WillLoad(r, v)
  <2>1. m \in DOMAIN r.queue
    BY <1>7
  <2>2. \A i \in {0} \cup DOMAIN Now.queue : Behind(r, i, u)
    BY <1>7, <1>10, <2>1 DEF Behind
  <2>3. WillLoad(r, u)
    BY <1>10, <2>1 DEF WillLoad
  <2>4. \A i, v : Behind(Now, i, v) => Behind(r, i, v)
    BY <1>11 DEF Behind
  <2>5. \A v : WillLoad(Now, v) => WillLoad(r, v)
    BY <1>11 DEF WillLoad
  <2>. QED
    BY <2>2, <2>3, <2>4, <2>5
<1>13. \A v : \A i \in DOMAIN Now.queue : Ahead(Now, R, i, v) => Ahead(r, None, i, v)
  <2>1. SUFFICES ASSUME NEW i \in DOMAIN Now.queue, NEW v, Ahead(Now, R, i, v)
                 PROVE  Ahead(r, None, i, v)
    OBVIOUS
  <2>2. CASE Now.child[0] = u
    BY <1>3, <1>12, <2>2 DEF Ahead
  <2>3. CASE Now.child[0] # u
    BY <1>3, <1>12, <2>1, <2>3 DEF Ahead, OnSecond, u
  <2>. QED
    BY <2>2, <2>3
<1>14. FirstAhead(r, None)
  BY <1>7, <1>8, <1>13 DEF FirstAhead
<1>15. AtCore(r, None) /\ Replaced(r, None)
  BY DEF AtCore, Replaced
<1>16. Covered(r, posts, None, doc)
  <2>1. SUFFICES ASSUME NEW p \in Pages, r.child[p] # None
                 PROVE  Pending(r, posts, None, r.child[p]) \/ Current(r, posts, r.child[p], doc[p])
    BY DEF Covered
  <2>. DEFINE v == r.child[p]
  <2>2. CASE v = u
    BY <1>12, <2>2 DEF Pending
  <2>3. CASE v # u
    <3>1. v \in Views
      BY <1>3, <1>4, <2>1
    <3>2. Pending(Now, posts, R, v) \/ Current(Now, posts, v, doc[p])
      BY <1>3, <1>8, <2>1 DEF Covered
    <3>. HIDE DEF v
    <3>3. Pending(Now, posts, R, v) => Pending(r, posts, None, v)
      BY <1>9, <1>12, <2>3 DEF Pending, u
    <3>4. \A j \in DOMAIN posts : Comes(r, posts, v, j) <=> Comes(Now, posts, v, j)
      BY <1>9 DEF Comes
    <3>5. Current(Now, posts, v, doc[p]) => Current(r, posts, v, doc[p])
      BY <1>3, <3>1, <3>4 DEF Current
    <3>. QED
      BY <3>2, <3>3, <3>5 DEF v
  <2>. QED
    BY <2>2, <2>3
<1>17. Listed(Now', posts', running', doc')
  BY <1>1, <1>3, <1>14, <1>15, <1>16 DEF Listed
<1>. QED
  BY <1>17 DEF ListInv

LEMMA NextLists ==
  ASSUME TasksInv, ListInv, [Next]_vars
  PROVE  ListInv'
<1>1. ASSUME NEW p \in Pages, MoveTo(p)
      PROVE  ListInv'
  BY <1>1, MoveToLists
<1>2. ASSUME NEW S \in SUBSET Strokes, Erase(S)
      PROVE  ListInv'
  BY <1>2, EraseLists
<1>3. CASE User
  BY <1>1, <1>2, <1>3, TapLists, DeselectLists, DeleteLists, EditLists, DrawLists, StrokeLists,
     UndoLists, CancelDrawLists, SaveDrawLists DEF User
<1>4. CASE Deliver
  BY <1>4, DeliverLists
<1>5. CASE Background
  BY <1>5, StartLists, ReadPageLists, GetAnnotationsLists, DeleteAnnotationLists, AddInkLists,
     ClearLists, ReloadLists DEF Background
<1>6. CASE UNCHANGED vars
  <2>1. Now' = Now /\ UNCHANGED <<posts, running, doc>>
    BY <1>6 DEF vars, uivars, Now
  <2>. QED
    BY <2>1, StaysLists
<1>. QED
  BY <1>3, <1>4, <1>5, <1>6 DEF Next

\* A view on the screen shows its page, and when everything is done that was
\* begun, its list is what the document has.  On the way there, a task that is
\* still to come will load the list, or the last one that is to be shown is
\* right, even when the page number was read from a view that has been released
\* since: the list of the first page, which it then changes, is loaded again.
THEOREM ListsComeRight == Spec => []ListsMatchDocument
<1>1. Init => ListInv
  BY InitLists
<1>2. TasksOK /\ ListInv /\ [Next]_vars => ListInv'
  BY NextLists DEF TasksOK
<1>3. TasksOK /\ ListInv => ListsMatchDocument
  <2>. SUFFICES ASSUME TasksOK, ListInv, NEW p \in Pages, child[p] # None
                PROVE  /\ views[child[p]].page = p /\ views[child[p]].sized
                       /\ Up /\ queue = <<>> /\ running = None /\ posts = <<>> =>
                            /\ views[child[p]].annots # None
                            /\ views[child[p]].annots.list = doc[p]
    BY DEF ListsMatchDocument
  <2>1. views[child[p]].page = p /\ views[child[p]].sized
    BY NowIs DEF TasksOK, TasksInv, TasksGood, Placed
  <2>2. ASSUME queue = <<>>, running = None, posts = <<>>
        PROVE  views[child[p]].annots # None /\ views[child[p]].annots.list = doc[p]
    <3>1. DOMAIN <<>> = {}
      OBVIOUS
    <3>2. ~Pending(Now, posts, running, child[p])
      BY <2>2, <3>1, NowIs DEF Pending, WillLoad
    <3>3. Pending(Now, posts, running, child[p]) \/ Current(Now, posts, child[p], doc[p])
      BY NowIs DEF ListInv, Listed, Covered
    <3>. QED
      BY <2>2, <3>1, <3>2, <3>3, NowIs DEF Current
  <2>. QED
    BY <2>1, <2>2
<1>. QED
  BY <1>1, <1>2, <1>3, TasksHold, PTL DEF Spec
=============================================================================
