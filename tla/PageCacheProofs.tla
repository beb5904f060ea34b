--------------------------- MODULE PageCacheProofs ---------------------------
(***************************************************************************)
(* Proofs about module PageCache, for any number of pages and slots, any   *)
(* annotations and any pictures.                                           *)
(***************************************************************************)
EXTENDS PageCache, ListLemmas, FiniteSetTheorems

-----------------------------------------------------------------------------
(* Extreme elements of sets of slots.                                      *)

\* The least and the greatest of some slots are among them.
LEMMA MinMaxSlot ==
  ASSUME NEW S \in SUBSET Slots, S # {}
  PROVE  Min(S) \in S /\ Max(S) \in S
<1>1. NumCache \in Nat
  BY PageCacheAssumption
<1>2. S \in SUBSET Nat /\ S \in SUBSET (1..NumCache)
  BY <1>1 DEF Slots
<1>3. \E m \in S : \A x \in S : m <= x
  BY <1>2, LeastExists
<1>4. \E m \in S : \A x \in S : x <= m
  BY <1>1, <1>2, GreatestExists
<1>5. \E m \in S : \A x \in S : m >= x
  BY <1>2, <1>4
<1>. QED
  BY <1>3, <1>5 DEF Min, Max

\* Some slot is at least as far from page p as every other.
LEMMA FurthestExists ==
  ASSUME NEW d \in [Slots -> Nat]
  PROVE  \E i \in Slots : \A j \in Slots : d[j] <= d[i]
<1>. DEFINE Beyond(i) == {j \in Slots : d[j] > d[i]}
            K == {Beyond(i) : i \in Slots}
<1>1. IsFiniteSet(Slots) /\ 1 \in Slots
  BY PageCacheAssumption, FS_Interval DEF Slots
<1>2. IsWellFoundedOn(StrictSubsetOrdering(Slots), SUBSET Slots)
  BY <1>1, FS_StrictSubsetOrderingWellFounded, FS_FiniteSubsetsOfFinite
<1>3. K \subseteq SUBSET Slots /\ K # {}
  BY <1>1
<1>. HIDE DEF K
<1>4. PICK k \in K : \A y \in K : ~ (<<y, k>> \in StrictSubsetOrdering(Slots))
  BY <1>2, <1>3, WFMin
<1>5. PICK i \in Slots : k = Beyond(i)
  BY <1>4 DEF K
<1>6. ASSUME NEW j \in Slots, ~ (d[j] <= d[i]) PROVE FALSE
  <2>1. d[i] \in Nat /\ d[j] \in Nat /\ d[j] > d[i]
    BY <1>6
  <2>2. Beyond(j) \subseteq Beyond(i)
    BY <2>1
  <2>3. j \in Beyond(i) /\ j \notin Beyond(j)
    BY <2>1
  <2>4. Beyond(j) \in K /\ Beyond(j) \in SUBSET Slots /\ Beyond(i) \in SUBSET Slots
    BY DEF K
  <2>. QED
    BY <1>4, <1>5, <2>2, <2>3, <2>4 DEF StrictSubsetOrdering
<1>. QED
  BY <1>6

-----------------------------------------------------------------------------
(* A cache in order: typed, no page in two slots, no list out of date.     *)

Ordered(cache, d) ==
  /\ cache \in [Slots -> Slot]
  /\ \A i, j \in Slots : cache[i].page = cache[j].page /\ i # j
       => cache[i].page = None
  /\ \A i \in Slots : cache[i].annots # None /\ ~ cache[i].half
       => cache[i].annots = d[cache[i].page]

\* The slot for a page is a slot, and that of the page if one holds it.
LEMMA SlotForSlot ==
  ASSUME slots \in [Slots -> Slot], NEW p \in Pages
  PROVE  /\ SlotFor(p) \in Slots
         /\ Holding(slots, p) # {} => slots[SlotFor(p)].page = p
<1>1. Holding(slots, p) \in SUBSET Slots /\ Holding(slots, None) \in SUBSET Slots
  BY DEF Holding
<1>2. CASE Holding(slots, p) # {}
  <2>1. SlotFor(p) = Min(Holding(slots, p))
    BY <1>2 DEF SlotFor
  <2>2. SlotFor(p) \in Holding(slots, p)
    BY <1>1, <1>2, <2>1, MinMaxSlot
  <2>. QED
    BY <2>2 DEF Holding
<1>3. CASE Holding(slots, p) = {} /\ Holding(slots, None) # {}
  <2>1. SlotFor(p) = Max(Holding(slots, None))
    BY <1>3 DEF SlotFor
  <2>. QED
    BY <1>1, <1>3, <2>1, MinMaxSlot
<1>4. CASE Holding(slots, p) = {} /\ Holding(slots, None) = {}
  <2>. DEFINE d == [i \in Slots |-> Distance(slots[i].page, p)]
              F == {i \in Slots : \A j \in Slots :
                      Distance(slots[j].page, p) <= Distance(slots[i].page, p)}
  <2>1. SlotFor(p) = Min(F)
    BY <1>4 DEF SlotFor
  <2>2. \A i \in Slots : slots[i].page \in Nat
    BY <1>4, PageCacheAssumption DEF Holding, Slot
  <2>3. p \in Nat
    BY PageCacheAssumption
  <2>4. \A q \in Nat : Distance(q, p) \in Nat
    BY <2>3 DEF Distance
  <2>5. d \in [Slots -> Nat]
    BY <2>2, <2>4
  <2>6. \E i \in Slots : \A j \in Slots : d[j] <= d[i]
    BY <2>5, FurthestExists
  <2>7. F # {} /\ F \in SUBSET Slots
    BY <2>6
  <2>. QED
    BY <1>4, <2>1, <2>7, MinMaxSlot
<1>. QED
  BY <1>2, <1>3, <1>4

\* A page that has just been loaded is a slot without lists.
LEMMA LoadedSlot ==
  ASSUME NEW p \in Pages \cup {None}
  PROVE  Loaded(p) \in Slot /\ Loaded(p).page = p /\ Loaded(p).annots = None
BY DEF Loaded, Slot

\* Going to a page keeps the cache in order, and the page is in its slot.
LEMMA GotoPageOrdered ==
  ASSUME NEW d, Ordered(slots, d), NEW p \in Pages
  PROVE  /\ SlotFor(p) \in Slots
         /\ Ordered(GotoPage(p), d)
         /\ GotoPage(p)[SlotFor(p)].page = p
         /\ \A k \in Slots \ {SlotFor(p)} : GotoPage(p)[k] = slots[k]
<1>. DEFINE i == SlotFor(p)
<1>1. slots \in [Slots -> Slot]
  BY DEF Ordered
<1>2. i \in Slots /\ (Holding(slots, p) # {} => slots[i].page = p)
  BY <1>1, SlotForSlot
<1>. HIDE DEF i
<1>3. CASE slots[i].page = p
  <2>1. GotoPage(p) = slots
    BY <1>3 DEF GotoPage, i
  <2>. QED
    BY <1>2, <1>3, <2>1 DEF i
<1>4. CASE slots[i].page # p
  <2>1. GotoPage(p) = [slots EXCEPT ![i] = Loaded(p)]
    BY <1>4 DEF GotoPage, i
  <2>2. \A k \in Slots : slots[k].page # p
    BY <1>2, <1>4 DEF Holding
  <2>3. GotoPage(p) \in [Slots -> Slot] /\ GotoPage(p)[i] = Loaded(p)
    BY <1>1, <1>2, <2>1, LoadedSlot
  <2>4. \A k \in Slots \ {i} : GotoPage(p)[k] = slots[k]
    BY <1>1, <1>2, <2>1
  <2>5. GotoPage(p)[i].page = p /\ GotoPage(p)[i].annots = None
    BY <2>3, LoadedSlot
  <2>6. Ordered(GotoPage(p), d)
    BY <1>2, <2>2, <2>3, <2>4, <2>5 DEF Ordered
  <2>. QED
    BY <1>2, <2>4, <2>5, <2>6 DEF i
<1>. QED
  BY <1>3, <1>4

-----------------------------------------------------------------------------
(* What is pending.                                                        *)

\* A change is pending if the slot of the page knows of it.
LEMMA PendingMember ==
  ASSUME NEW cache, NEW p, NEW t, NEW a
  PROVE  a \in Pending(cache, p, t) <=>
           \E i \in Slots : /\ cache[i].page = p
                            /\ a \in cache[i].fresh \/ a \in cache[i].rects[t]
BY DEF Pending, Holding

\* In an ordered cache, what is pending for a page is what its slot knows.
LEMMA PendingOf ==
  ASSUME NEW cache, NEW d, Ordered(cache, d), NEW i \in Slots, NEW t,
         cache[i].page # None
  PROVE  Pending(cache, cache[i].page, t) = cache[i].fresh \cup cache[i].rects[t]
<1>1. \A j \in Slots : cache[j].page = cache[i].page => j = i
  BY DEF Ordered
<1>2. ASSUME NEW a
      PROVE  a \in Pending(cache, cache[i].page, t)
               <=> a \in cache[i].fresh \cup cache[i].rects[t]
  BY <1>1, PendingMember
<1>. QED
  BY <1>2

\* Nothing is pending for a page that no slot holds.
LEMMA PendingNone ==
  ASSUME NEW cache, NEW p, NEW t, Holding(cache, p) = {}
  PROVE  Pending(cache, p, t) = {}
BY DEF Pending

\* Slots of other pages do not matter for what is pending.
LEMMA PendingElsewhere ==
  ASSUME NEW cache, NEW other, NEW i \in Slots, NEW p, NEW t,
         \A k \in Slots \ {i} : other[k] = cache[k],
         cache[i].page # p, other[i].page # p
  PROVE  /\ Pending(other, p, t) = Pending(cache, p, t)
         /\ Holding(other, p) = Holding(cache, p)
<1>1. ASSUME NEW a
      PROVE  a \in Pending(other, p, t) <=> a \in Pending(cache, p, t)
  BY PendingMember
<1>2. ASSUME NEW k \in Slots
      PROVE  other[k].page = p <=> cache[k].page = p
  OBVIOUS
<1>. QED
  BY <1>1, <1>2 DEF Holding

\* A picture that does not count as missing anything when the cache goes to
\* a page has all its changes pending as before.
LEMMA GotoPageKeepsPending ==
  ASSUME NEW d, Ordered(slots, d), NEW p \in Pages, NEW x \in Pictures,
         shown[x] # None, ~ Missed(GotoPage(p))[x]
  PROVE  /\ ~ lost[x]
         /\ Pending(slots, x[1], x[2]) \subseteq Pending(GotoPage(p), x[1], x[2])
<1>. DEFINE i == SlotFor(p)
            q == x[1]
            t == x[2]
<1>1. q \in Pages /\ q # None
  BY PageCacheAssumption
<1>2. /\ ~ lost[x]
      /\ Pending(slots, q, t) = {} \/ Holding(GotoPage(p), q) # {}
  BY DEF Missed
<1>3. /\ i \in Slots /\ GotoPage(p)[i].page = p
      /\ \A k \in Slots \ {i} : GotoPage(p)[k] = slots[k]
  BY GotoPageOrdered
<1>4. GotoPage(p) = slots \/ slots[i].page # p
  BY DEF GotoPage
<1>5. CASE GotoPage(p) = slots
  BY <1>2, <1>5
<1>6. CASE slots[i].page # p /\ slots[i].page # q /\ q # p
  BY <1>2, <1>3, <1>6, PendingElsewhere
<1>7. CASE slots[i].page # p /\ slots[i].page = q
  <2>1. \A k \in Slots \ {i} : slots[k].page # q
    BY <1>1, <1>3, <1>7 DEF Ordered
  <2>2. Holding(GotoPage(p), q) = {}
    BY <1>3, <1>7, <2>1 DEF Holding
  <2>. QED
    BY <1>2, <2>2
<1>8. CASE slots[i].page # p /\ q = p
  <2>1. Holding(slots, p) = {}
    BY <1>3, <1>8, SlotForSlot DEF Ordered
  <2>2. Pending(slots, p, t) = {}
    BY <2>1, PendingNone
  <2>. QED
    BY <1>2, <1>8, <2>2
<1>. QED
  BY <1>4, <1>5, <1>6, <1>7, <1>8

-----------------------------------------------------------------------------
(* Recording the lists.                                                    *)

\* Recording changes only the lists of a slot, and the list of annotations
\* of a recording that was not cut short is that of the page.
LEMMA RecordSlot ==
  ASSUME doc \in [Pages -> SUBSET Annots],
         NEW s \in Slot, s.page \in Pages,
         s.annots # None /\ ~ s.half => s.annots = doc[s.page],
         NEW r \in Record(s)
  PROVE  /\ r[1] \in Slot /\ r[1].page = s.page
         /\ r[1].fresh = s.fresh /\ r[1].rects = s.rects
         /\ r[1].annots # None /\ ~ r[1].half => r[1].annots = doc[s.page]
         /\ r[2] = "done" => r[1].annots \in SUBSET Annots
<1>1. doc[s.page] \in SUBSET Annots
  OBVIOUS
<1>2. ASSUME NEW q \in RecordContents(s)
      PROVE  /\ q[1] \in Slot /\ q[1].page = s.page
             /\ q[1].fresh = s.fresh /\ q[1].rects = s.rects
             /\ q[1].annots = s.annots /\ q[1].half = s.half
  BY <1>2 DEF RecordContents, Slot
<1>3. CASE r \in RecordContents(s) /\ r[2] # "done"
  BY <1>2, <1>3
<1>4. CASE \E q \in RecordContents(s) : r \in RecordAnnots(q[1])
  <2>1. PICK q \in RecordContents(s) : r \in RecordAnnots(q[1])
    BY <1>4
  <2>. DEFINE u == q[1]
  <2>2. /\ u \in Slot /\ u.page = s.page /\ u.fresh = s.fresh /\ u.rects = s.rects
        /\ u.annots = s.annots /\ u.half = s.half
    BY <1>2, <2>1
  <2>3. r \in RecordAnnots(u)
    BY <2>1
  <2>. HIDE DEF u
  <2>4. CASE u.annots # None
    <3>1. r = <<u, "done">>
      BY <2>3, <2>4 DEF RecordAnnots
    <3>2. u.annots \in SUBSET Annots
      BY <2>2, <2>4 DEF Slot
    <3>. QED
      BY <2>2, <3>1, <3>2
  <2>5. CASE u.annots = None
    <3>1. \/ r = <<[u EXCEPT !.annots = doc[u.page]], "done">>
          \/ r = <<u, "stopped">>
          \/ \E S \in SUBSET doc[u.page] :
               r = <<[u EXCEPT !.annots = S, !.half = TRUE], "failed">>
      BY <2>3, <2>5 DEF RecordAnnots
    <3>2. doc[u.page] = doc[s.page]
      BY <2>2
    <3>3. CASE r = <<[u EXCEPT !.annots = doc[u.page]], "done">>
      BY <1>1, <2>2, <3>2, <3>3 DEF Slot
    <3>4. CASE r = <<u, "stopped">>
      BY <2>2, <2>5, <3>4
    <3>5. ASSUME NEW S \in SUBSET doc[u.page],
                 r = <<[u EXCEPT !.annots = S, !.half = TRUE], "failed">>
          PROVE  /\ r[1] \in Slot /\ r[1].page = s.page
                 /\ r[1].fresh = s.fresh /\ r[1].rects = s.rects
                 /\ r[1].half /\ r[2] # "done"
      <4>1. S \in SUBSET Annots
        BY <1>1, <3>2
      <4>. QED
        BY <2>2, <3>5, <4>1 DEF Slot
    <3>. QED
      BY <3>1, <3>3, <3>4, <3>5
  <2>. QED
    BY <2>4, <2>5
<1>. QED
  BY <1>3, <1>4 DEF Record

\* What update_changed_rects and drop_changed_rects make of a slot.
LEMMA RectsOfSlot ==
  ASSUME NEW s \in Slot, NEW t \in Targets
  PROVE  LET u == UpdateChangedRects(s)
             v == DropChangedRects(u, t)
         IN  /\ u \in Slot /\ v \in Slot
             /\ u.page = s.page /\ v.page = s.page
             /\ u.annots = s.annots /\ v.annots = s.annots
             /\ u.half = s.half /\ v.half = s.half
             /\ u.fresh = {} /\ v.fresh = {} /\ v.rects[t] = {}
             /\ \A w \in Targets : u.rects[w] = s.fresh \cup s.rects[w]
             /\ \A w \in Targets \ {t} : v.rects[w] = s.fresh \cup s.rects[w]
BY DEF UpdateChangedRects, DropChangedRects, Slot

\* A slot may be exchanged for one of the same page whose list is current.
LEMMA OrderedExcept ==
  ASSUME NEW cache, NEW d, Ordered(cache, d), NEW i \in Slots,
         NEW s \in Slot, s.page = cache[i].page,
         s.annots # None /\ ~ s.half => s.annots = d[s.page]
  PROVE  Ordered([cache EXCEPT ![i] = s], d)
BY DEF Ordered
-----------------------------------------------------------------------------
(* The inductive invariant.                                                *)

Tracked(x) ==
  shown[x] # None /\ ~ lost[x] =>
    (shown[x] \ doc[x[1]]) \cup (doc[x[1]] \ shown[x])
      \subseteq Pending(slots, x[1], x[2]) \cup Ahead(x[1], x[2])

IInv == TypeOK /\ ListsAreCurrent /\ ChangesTracked

LEMMA TrackedPictures == ChangesTracked <=> \A x \in Pictures : Tracked(x)
BY DEF ChangesTracked, Tracked

\* The drawings that wait for their task, as TypeOK has them.
AheadOK == ahead \subseteq Annots /\ \A a \in ahead : a \notin doc[PageOf[a]]

LEMMA OrderedSlots == TypeOK /\ ListsAreCurrent => Ordered(slots, doc)
BY DEF TypeOK, ListsAreCurrent, Ordered

\* A picture that is not touched stays tracked if its changes stay pending.
LEMMA UntouchedTracked ==
  ASSUME NEW x \in Pictures, Tracked(x),
         shown'[x] = shown[x], doc'[x[1]] = doc[x[1]], ahead' = ahead,
         shown[x] # None /\ ~ lost'[x] =>
           ~ lost[x] /\ Pending(slots, x[1], x[2]) \subseteq Pending(slots', x[1], x[2])
  PROVE  Tracked(x)'
BY DEF Tracked, Ahead

\* The three parts of the invariant from what the steps establish.
LEMMA InvariantParts ==
  ASSUME doc' \in [Pages -> SUBSET Annots],
         \A p \in Pages : \A a \in doc'[p] : PageOf[a] = p,
         Ordered(slots', doc'), current' \in Slots, AheadOK',
         shown' \in [Pictures -> (SUBSET Annots) \cup {None}],
         lost' \in [Pictures -> BOOLEAN],
         \A x \in Pictures : Tracked(x)'
  PROVE  IInv'
BY TrackedPictures DEF IInv, TypeOK, AheadOK, ListsAreCurrent, Ordered, ChangesTracked, Tracked

-----------------------------------------------------------------------------
(* The steps.                                                              *)

LEMMA MissedType ==
  ASSUME NEW cache
  PROVE  Missed(cache) \in [Pictures -> BOOLEAN]
BY DEF Missed

LEMMA VisitStep == ASSUME IInv, NEW p \in Pages, Visit(p) PROVE IInv'
<1>1. TypeOK /\ Ordered(slots, doc) /\ \A x \in Pictures : Tracked(x)
  BY OrderedSlots, TrackedPictures DEF IInv
<1>2. /\ slots' = GotoPage(p) /\ current' = SlotFor(p) /\ lost' = Missed(GotoPage(p))
      /\ doc' = doc /\ ahead' = ahead /\ shown' = shown
  BY DEF Visit
<1>3. Ordered(slots', doc') /\ current' \in Slots
  BY <1>1, <1>2, GotoPageOrdered
<1>4. ASSUME NEW x \in Pictures PROVE Tracked(x)'
  <2>1. shown[x] # None /\ ~ lost'[x] =>
           ~ lost[x] /\ Pending(slots, x[1], x[2]) \subseteq Pending(slots', x[1], x[2])
    BY <1>1, <1>2, GotoPageKeepsPending
  <2>. QED
    BY <1>1, <1>2, <2>1, UntouchedTracked
<1>5. lost' \in [Pictures -> BOOLEAN]
  BY <1>2, MissedType
<1>. QED
  BY <1>1, <1>2, <1>3, <1>4, <1>5, InvariantParts DEF TypeOK, AheadOK

LEMMA ChangeStep ==
  ASSUME IInv, NEW a \in Annots, NEW added \in BOOLEAN, Change(a, added),
         ahead' = IF added THEN ahead \ {a} ELSE ahead
  PROVE  IInv'
<1>. DEFINE p == PageOf[a]
            i == SlotFor(p)
            there == GotoPage(p)
            dumped == DumpAnnotationDisplayLists(there)
<1>1. TypeOK /\ Ordered(slots, doc) /\ \A x \in Pictures : Tracked(x)
  BY OrderedSlots, TrackedPictures DEF IInv
<1>2. p \in Pages
  BY PageCacheAssumption
<1>3. i \in Slots /\ Ordered(there, doc) /\ there[i].page = p
  BY <1>1, <1>2, GotoPageOrdered
<1>4. /\ slots' = [dumped EXCEPT ![i].fresh = @ \cup {a}]
      /\ current' = i
      /\ doc' = [doc EXCEPT ![p] = IF added THEN @ \cup {a} ELSE @ \ {a}]
      /\ lost' = Missed(there) /\ shown' = shown
  BY <1>3 DEF Change
<1>. HIDE DEF there, i
<1>5. /\ dumped \in [Slots -> Slot]
      /\ \A k \in Slots : /\ dumped[k].page = there[k].page
                           /\ dumped[k].fresh = there[k].fresh
                           /\ dumped[k].rects = there[k].rects
                           /\ dumped[k].annots = None
  BY <1>3 DEF Ordered, DumpAnnotationDisplayLists, Slot
<1>. HIDE DEF dumped
<1>6. /\ slots' \in [Slots -> Slot]
      /\ slots'[i].fresh = there[i].fresh \cup {a}
      /\ \A k \in Slots : /\ slots'[k].page = there[k].page
                           /\ there[k].fresh \subseteq slots'[k].fresh
                           /\ slots'[k].rects = there[k].rects
                           /\ slots'[k].annots = None
  BY <1>3, <1>4, <1>5 DEF Slot
<1>7. Ordered(slots', doc')
  BY <1>3, <1>6 DEF Ordered
<1>8. doc' \in [Pages -> SUBSET Annots] /\ \A q \in Pages : \A b \in doc'[q] : PageOf[b] = q
  BY <1>1, <1>2, <1>4 DEF TypeOK
<1>9. ASSUME NEW x \in Pictures PROVE Tracked(x)'
  <2>. DEFINE q == x[1]
              t == x[2]
  <2>1. SUFFICES ASSUME shown[x] # None, ~ lost'[x]
                 PROVE  (shown[x] \ doc'[q]) \cup (doc'[q] \ shown[x])
                          \subseteq Pending(slots', q, t) \cup Ahead(q, t)'
    BY <1>4 DEF Tracked
  <2>2. ~ lost[x] /\ Pending(slots, q, t) \subseteq Pending(there, q, t)
    BY <1>1, <1>2, <1>4, <2>1, GotoPageKeepsPending DEF there
  <2>3. (shown[x] \ doc[q]) \cup (doc[q] \ shown[x])
          \subseteq Pending(there, q, t) \cup Ahead(q, t)
    BY <1>1, <2>1, <2>2 DEF Tracked
  <2>4. Pending(there, q, t) \subseteq Pending(slots', q, t)
    BY <1>6, PendingMember
  <2>5. q \in Pages
    BY PageCacheAssumption
  <2>8. Ahead(q, t) \subseteq Ahead(q, t)' \cup {a} /\ (q # p => Ahead(q, t)' = Ahead(q, t))
    BY DEF Ahead
  <2>6. CASE q = p
    <3>1. a \in Pending(slots', q, t)
      BY <1>3, <1>6, <2>6, PendingMember
    <3>2. \A b : b # a => (b \in doc'[q] <=> b \in doc[q])
      BY <1>1, <1>2, <1>4, <2>6 DEF TypeOK
    <3>. QED
      BY <2>3, <2>4, <2>8, <3>1, <3>2
  <2>7. CASE q # p
    <3>1. doc'[q] = doc[q]
      BY <1>1, <1>4, <2>5, <2>7 DEF TypeOK
    <3>. QED
      BY <2>3, <2>4, <2>7, <2>8, <3>1
  <2>. QED
    BY <2>6, <2>7
<1>11. AheadOK'
  <2>1. AheadOK
    BY <1>1 DEF TypeOK, AheadOK
  <2>2. \A b : b # a => (b \in doc'[PageOf[b]] <=> b \in doc[PageOf[b]]) \/ b \notin Annots
    BY <1>1, <1>2, <1>4, PageCacheAssumption DEF TypeOK
  <2>3. CASE added
    BY <2>1, <2>2, <2>3 DEF AheadOK
  <2>4. CASE ~ added
    <3>1. a \notin doc'[PageOf[a]]
      BY <1>1, <1>2, <1>4, <2>4 DEF TypeOK
    <3>. QED
      BY <2>1, <2>2, <2>4, <3>1 DEF AheadOK
  <2>. QED
    BY <2>3, <2>4
<1>10. lost' \in [Pictures -> BOOLEAN]
  BY <1>4, MissedType
<1>. QED
  BY <1>1, <1>3, <1>4, <1>7, <1>8, <1>9, <1>10, <1>11, InvariantParts DEF TypeOK, AheadOK

\* What drawing a page does to the cache: nothing is pending any more for the
\* picture of this page and target, everything for the others.
LEMMA DrawSlots ==
  ASSUME IInv, NEW p \in Pages, NEW t \in Targets, NEW r, Draw(p, t, r)
  PROVE  /\ Ordered(slots', doc) /\ current' \in Slots
         /\ doc' = doc /\ ahead' = ahead
         /\ r[2] = "done" => r[1].annots \in SUBSET Annots
         /\ r[2] = "done" /\ Whole(r[1]) => r[1].annots = doc[p]
         /\ \A x \in Pictures : x # <<p, t>> /\ shown[x] # None /\ ~ Missed(slots')[x]
              => /\ ~ lost[x]
                 /\ Pending(slots, x[1], x[2]) \subseteq Pending(slots', x[1], x[2])
<1>. DEFINE i == SlotFor(p)
            there == GotoPage(p)
            s == DropChangedRects(UpdateChangedRects(there[i]), t)
<1>1. TypeOK /\ Ordered(slots, doc) /\ \A x \in Pictures : Tracked(x)
  BY OrderedSlots, TrackedPictures DEF IInv
<1>2. i \in Slots /\ Ordered(there, doc) /\ there[i].page = p
  BY <1>1, GotoPageOrdered
<1>3. /\ r \in Record(s) /\ slots' = [there EXCEPT ![i] = r[1]]
      /\ current' = i /\ doc' = doc /\ ahead' = ahead
  BY DEF Draw, Drawn
<1>4. there[i] \in Slot /\ p # None
  BY <1>2, PageCacheAssumption DEF Ordered
<1>5. /\ s \in Slot /\ s.page = p /\ s.fresh = {}
      /\ s.annots = there[i].annots /\ s.half = there[i].half
      /\ \A w \in Targets \ {t} : s.rects[w] = there[i].fresh \cup there[i].rects[w]
  BY <1>2, <1>4, RectsOfSlot
<1>6. s.annots # None /\ ~ s.half => s.annots = doc[s.page]
  BY <1>2, <1>5 DEF Ordered
<1>7. doc \in [Pages -> SUBSET Annots]
  BY <1>1 DEF TypeOK
<1>. HIDE DEF s, there
<1>8. /\ r[1] \in Slot /\ r[1].page = p /\ r[1].fresh = {} /\ r[1].rects = s.rects
      /\ r[1].annots # None /\ ~ r[1].half => r[1].annots = doc[p]
      /\ r[2] = "done" => r[1].annots \in SUBSET Annots
  BY <1>3, <1>5, <1>6, <1>7, RecordSlot
<1>9. Ordered(slots', doc)
  BY <1>2, <1>3, <1>8, OrderedExcept
<1>10. ASSUME r[2] = "done", Whole(r[1]) PROVE r[1].annots = doc[p]
  BY <1>8, <1>10, PageCacheAssumption DEF Whole
<1>11. slots'[i] = r[1] /\ \A k \in Slots \ {i} : slots'[k] = there[k]
  BY <1>2, <1>3 DEF Ordered
<1>12. ASSUME NEW x \in Pictures, x # <<p, t>>, shown[x] # None, ~ Missed(slots')[x]
       PROVE  /\ ~ lost[x]
              /\ Pending(slots, x[1], x[2]) \subseteq Pending(slots', x[1], x[2])
  <2>. DEFINE q == x[1]
              w == x[2]
  <2>1. q \in Pages /\ w \in Targets /\ x = <<q, w>>
    BY PageCacheAssumption
  <2>2. \A k \in Slots : slots'[k].page = there[k].page
    BY <1>2, <1>8, <1>11
  <2>3. Holding(slots', q) = Holding(there, q)
    BY <2>2 DEF Holding
  <2>4. ~ Missed(there)[x]
    BY <1>12, <2>3 DEF Missed
  <2>5. ~ lost[x] /\ Pending(slots, q, w) \subseteq Pending(there, q, w)
    BY <1>1, <1>12, <2>4, GotoPageKeepsPending DEF there
  <2>6. CASE q # p
    BY <1>2, <1>8, <1>11, <2>5, <2>6, PendingElsewhere
  <2>7. CASE q = p
    <3>1. w \in Targets \ {t}
      BY <1>12, <2>1, <2>7
    <3>2. Pending(there, p, w) = there[i].fresh \cup there[i].rects[w]
      BY <1>2, <1>4, PendingOf
    <3>3. Pending(slots', p, w) = r[1].fresh \cup r[1].rects[w]
      <4>1. slots'[i].page = p /\ slots'[i].page # None
        BY <1>4, <1>8, <1>11
      <4>2. Pending(slots', slots'[i].page, w) = slots'[i].fresh \cup slots'[i].rects[w]
        BY <1>2, <1>9, <4>1, PendingOf
      <4>. QED
        BY <1>11, <4>1, <4>2
    <3>. QED
      BY <1>5, <1>8, <2>5, <2>7, <3>1, <3>2, <3>3
  <2>. QED
    BY <2>6, <2>7
<1>. QED
  BY <1>2, <1>3, <1>8, <1>9, <1>10, <1>12

\* How a drawn picture counts, when the others are as they were.
LEMMA ShowStep ==
  ASSUME IInv, NEW p \in Pages, NEW t \in Targets, NEW r, Draw(p, t, r),
         <<p, t>> \in Pictures,
         NEW annots \in (SUBSET Annots) \cup {None}, NEW missed \in BOOLEAN,
         Show(<<p, t>>, annots, missed),
         annots # None /\ ~ missed =>
           (annots \ doc[p]) \cup (doc[p] \ annots) \subseteq Ahead(p, t)
  PROVE  IInv'
<1>. DEFINE x == <<p, t>>
<1>1. TypeOK /\ \A y \in Pictures : Tracked(y)
  BY TrackedPictures DEF IInv
<1>2. /\ Ordered(slots', doc) /\ current' \in Slots
      /\ doc' = doc /\ ahead' = ahead
      /\ \A y \in Pictures : y # x /\ shown[y] # None /\ ~ Missed(slots')[y]
           => /\ ~ lost[y]
              /\ Pending(slots, y[1], y[2]) \subseteq Pending(slots', y[1], y[2])
  BY DrawSlots
<1>3. /\ shown' = [shown EXCEPT ![x] = annots]
      /\ lost' = [Missed(slots') EXCEPT ![x] = missed]
  BY DEF Show
<1>4. shown \in [Pictures -> (SUBSET Annots) \cup {None}]
  BY <1>1 DEF TypeOK
<1>5. /\ shown' \in [Pictures -> (SUBSET Annots) \cup {None}]
      /\ lost' \in [Pictures -> BOOLEAN]
      /\ shown'[x] = annots /\ lost'[x] = missed
      /\ \A y \in Pictures \ {x} : shown'[y] = shown[y] /\ lost'[y] = Missed(slots')[y]
  BY <1>3, <1>4, MissedType
<1>6. Tracked(x)'
  BY <1>2, <1>5 DEF Tracked, Ahead
<1>7. ASSUME NEW y \in Pictures \ {x} PROVE Tracked(y)'
  BY <1>1, <1>2, <1>5, UntouchedTracked
<1>. QED
  BY <1>1, <1>2, <1>5, <1>6, <1>7, InvariantParts DEF TypeOK, AheadOK

LEMMA DrawPageStep ==
  ASSUME IInv, NEW p \in Pages, NEW t \in Targets, <<p, t>> \in Pictures,
         DrawPage(p, t)
  PROVE  IInv'
<1>1. PICK r \in Drawn(p, t) :
        /\ Draw(p, t, r)
        /\ \/ /\ r[2] = "done"
              /\ Show(<<p, t>>, r[1].annots, ~ Whole(r[1]))
           \/ r[2] = "failed" /\ Show(<<p, t>>, {}, TRUE)
           \/ r[2] # "failed" /\ Show(<<p, t>>, None, FALSE)
  BY DEF DrawPage
<1>2. /\ r[2] = "done" => r[1].annots \in SUBSET Annots
      /\ r[2] = "done" /\ Whole(r[1]) => r[1].annots = doc[p]
  BY <1>1, DrawSlots
<1>3. (~ Whole(r[1])) \in BOOLEAN
  BY DEF Whole
<1>4. CASE r[2] = "done" /\ Show(<<p, t>>, r[1].annots, ~ Whole(r[1]))
  BY <1>1, <1>2, <1>3, <1>4, ShowStep
<1>5. CASE r[2] = "failed" /\ Show(<<p, t>>, {}, TRUE)
  BY <1>1, <1>5, ShowStep
<1>6. CASE r[2] # "failed" /\ Show(<<p, t>>, None, FALSE)
  BY <1>1, <1>6, ShowStep
<1>. QED
  BY <1>1, <1>4, <1>5, <1>6

\* An uncached page has nothing pending: a picture of it that does not count
\* as missing anything is current before the update, or ahead of a task.
LEMMA UpdateUncachedStep ==
  ASSUME IInv, NEW p \in Pages, NEW t \in Targets, <<p, t>> \in Pictures,
         UpdateUncached(p, t)
  PROVE  IInv'
<1>. DEFINE x == <<p, t>>
<1>1. PICK r \in Drawn(p, t) :
        /\ Draw(p, t, r)
        /\ \/ r[2] = "done" /\ Show(x, r[1].annots, ~ Whole(r[1]))
           \/ r[2] = "done" /\ \E S \in SUBSET r[1].annots : Show(x, S, TRUE)
           \/ r[2] # "done" /\ Show(x, shown[x], lost[x])
  BY DEF UpdateUncached
<1>2. /\ r[2] = "done" => r[1].annots \in SUBSET Annots
      /\ r[2] = "done" /\ Whole(r[1]) => r[1].annots = doc[p]
  BY <1>1, DrawSlots
<1>3. (~ Whole(r[1])) \in BOOLEAN
  BY DEF Whole
<1>4. /\ TypeOK /\ Tracked(x)
      /\ Pending(slots, p, t) = {}
  BY TrackedPictures, PendingNone DEF IInv, UpdateUncached
<1>5. CASE r[2] = "done" /\ Show(x, r[1].annots, ~ Whole(r[1]))
  BY <1>1, <1>2, <1>3, <1>5, ShowStep
<1>6. CASE r[2] = "done" /\ \E S \in SUBSET r[1].annots : Show(x, S, TRUE)
  <2>1. PICK S \in SUBSET r[1].annots : Show(x, S, TRUE)
    BY <1>6
  <2>2. S \in SUBSET Annots
    BY <1>2, <1>6
  <2>. QED
    BY <1>1, <2>1, <2>2, ShowStep
<1>7. CASE r[2] # "done" /\ Show(x, shown[x], lost[x])
  <2>1. shown[x] \in (SUBSET Annots) \cup {None} /\ lost[x] \in BOOLEAN
    BY <1>4 DEF TypeOK
  <2>2. ASSUME shown[x] # None, ~ lost[x]
        PROVE  (shown[x] \ doc[p]) \cup (doc[p] \ shown[x]) \subseteq Ahead(p, t)
    BY <1>4, <2>2 DEF Tracked
  <2>. QED
    BY <1>1, <1>7, <2>1, <2>2, ShowStep
<1>. QED
  BY <1>1, <1>5, <1>6, <1>7

LEMMA ThumbnailStep ==
  ASSUME IInv, NEW t \in Targets, Thumbnail(t)
  PROVE  IInv'
<1>1. TypeOK /\ Ordered(slots, doc) /\ \A x \in Pictures : Tracked(x)
  BY OrderedSlots, TrackedPictures DEF IInv
<1>2. 0 \in Pages
  BY PageCacheAssumption
<1>3. PICK r \in Drawn(0, t) :
        /\ Draw(0, t, r)
        /\ lost' = [x \in Pictures |->
                      \/ Missed(slots')[x]
                      \/ /\ x = <<0, t>> /\ shown[x] # None
                         /\ Pending(slots, 0, t) # {}]
        /\ shown' = shown
  BY DEF Thumbnail
<1>4. /\ Ordered(slots', doc) /\ current' \in Slots
      /\ doc' = doc /\ ahead' = ahead
      /\ \A x \in Pictures : x # <<0, t>> /\ shown[x] # None /\ ~ Missed(slots')[x]
           => /\ ~ lost[x]
              /\ Pending(slots, x[1], x[2]) \subseteq Pending(slots', x[1], x[2])
  BY <1>2, <1>3, DrawSlots
<1>5. ASSUME NEW x \in Pictures PROVE Tracked(x)'
  <2>1. CASE x # <<0, t>>
    BY <1>1, <1>3, <1>4, <2>1, UntouchedTracked
  <2>2. CASE x = <<0, t>>
    <3>1. ASSUME shown[x] # None, ~ lost'[x]
          PROVE  ~ lost[x] /\ Pending(slots, x[1], x[2]) = {}
      BY <1>3, <2>2, <3>1 DEF Missed
    <3>. QED
      BY <1>1, <1>3, <1>4, <3>1, UntouchedTracked
  <2>. QED
    BY <2>1, <2>2
<1>6. lost' \in [Pictures -> BOOLEAN]
  BY <1>3
<1>. QED
  BY <1>1, <1>3, <1>4, <1>5, <1>6, InvariantParts DEF TypeOK, AheadOK

LEMMA ResetStep == ASSUME IInv, NEW x \in Pictures, Reset(x) PROVE IInv'
<1>1. TypeOK /\ Ordered(slots, doc) /\ \A y \in Pictures : Tracked(y)
  BY OrderedSlots, TrackedPictures DEF IInv
<1>2. /\ shown' = [shown EXCEPT ![x] = None] /\ lost' = [lost EXCEPT ![x] = FALSE]
      /\ doc' = doc /\ slots' = slots /\ current' = current /\ ahead' = ahead
  BY DEF Reset
<1>3. /\ shown' \in [Pictures -> (SUBSET Annots) \cup {None}]
      /\ lost' \in [Pictures -> BOOLEAN]
      /\ shown'[x] = None
      /\ \A y \in Pictures \ {x} : shown'[y] = shown[y] /\ lost'[y] = lost[y]
  BY <1>1, <1>2 DEF TypeOK
<1>4. ASSUME NEW y \in Pictures PROVE Tracked(y)'
  <2>1. CASE y = x
    BY <1>3, <2>1 DEF Tracked
  <2>2. CASE y # x
    BY <1>1, <1>2, <1>3, <2>2, UntouchedTracked
  <2>. QED
    BY <2>1, <2>2
<1>. QED
  BY <1>1, <1>2, <1>3, <1>4, InvariantParts DEF TypeOK, AheadOK

\* The empty cache is in order, and knows of nothing.
LEMMA UnusedSlots ==
  ASSUME NEW d
  PROVE  /\ Ordered([i \in Slots |-> Unused], d)
         /\ 1 \in Slots
         /\ \A p \in Pages : Holding([i \in Slots |-> Unused], p) = {}
<1>1. Unused \in Slot /\ Unused.page = None /\ Unused.annots = None
  BY LoadedSlot DEF Unused
<1>2. 1 \in Slots
  BY PageCacheAssumption DEF Slots
<1>3. \A p \in Pages : p # None
  BY PageCacheAssumption
<1>. QED
  BY <1>1, <1>2, <1>3 DEF Ordered, Holding

LEMMA CloseDocStep == ASSUME IInv, CloseDoc PROVE IInv'
<1>1. TypeOK /\ \A x \in Pictures : Tracked(x)
  BY TrackedPictures DEF IInv
<1>2. /\ slots' = [i \in Slots |-> Unused] /\ current' = 1
      /\ lost' = Missed(slots') /\ doc' = doc /\ shown' = shown
      /\ ahead' = ahead
  BY DEF CloseDoc
<1>3. /\ Ordered(slots', doc') /\ current' \in Slots
      /\ \A p \in Pages : Holding(slots', p) = {}
  BY <1>2, UnusedSlots
<1>4. ASSUME NEW x \in Pictures PROVE Tracked(x)'
  <2>1. x[1] \in Pages
    BY PageCacheAssumption
  <2>2. Holding(slots', x[1]) = {}
    BY <1>3, <2>1
  <2>3. ASSUME shown[x] # None, ~ lost'[x]
        PROVE  ~ lost[x] /\ Pending(slots, x[1], x[2]) = {}
    BY <1>2, <2>2, <2>3 DEF Missed
  <2>. QED
    BY <1>1, <1>2, <2>3, UntouchedTracked
<1>5. lost' \in [Pictures -> BOOLEAN]
  BY <1>2, MissedType
<1>. QED
  BY <1>1, <1>2, <1>3, <1>4, <1>5, InvariantParts DEF TypeOK, AheadOK

\* A slot of the page that knows of all the page's changes but those of one
\* target keeps the other pictures tracked.
LEMMA UpdateSlots ==
  ASSUME IInv, NEW p \in Pages, NEW t \in Targets, NEW i \in Slots,
         slots[i].page = p,
         NEW s \in Slot, s.page = p, s.fresh = {},
         s.annots # None /\ ~ s.half => s.annots = doc[p],
         \A w \in Targets \ {t} : s.rects[w] = slots[i].fresh \cup slots[i].rects[w],
         slots' = [slots EXCEPT ![i] = s]
  PROVE  /\ Ordered(slots', doc)
         /\ Pending(slots', p, t) = s.rects[t]
         /\ \A x \in Pictures \ {<<p, t>>} :
              /\ Missed(slots')[x] => lost[x] \/ Holding(slots, x[1]) = {}
              /\ Pending(slots, x[1], x[2]) \subseteq Pending(slots', x[1], x[2])
         /\ Missed(slots') \in [Pictures -> BOOLEAN]
<1>1. Ordered(slots, doc) /\ p # None
  BY OrderedSlots, PageCacheAssumption DEF IInv
<1>2. Ordered(slots', doc)
  <2>1. s.page = slots[i].page /\ (s.annots # None /\ ~ s.half => s.annots = doc[s.page])
    OBVIOUS
  <2>2. Ordered([slots EXCEPT ![i] = s], doc)
    BY <1>1, <2>1, OrderedExcept
  <2>. QED
    BY <2>2
<1>3. slots'[i] = s /\ \A k \in Slots \ {i} : slots'[k] = slots[k]
  BY <1>1 DEF Ordered
<1>4. ASSUME NEW w
      PROVE  Pending(slots', p, w) = s.fresh \cup s.rects[w]
  <2>. DEFINE c == slots'
  <2>1. Ordered(c, doc) /\ c[i] = s /\ c[i].page # None
    BY <1>1, <1>2, <1>3
  <2>. HIDE DEF c
  <2>2. Pending(c, c[i].page, w) = c[i].fresh \cup c[i].rects[w]
    BY <2>1, PendingOf
  <2>3. Pending(c, p, w) = s.fresh \cup s.rects[w]
    BY <2>1, <2>2
  <2>. QED
    BY <2>3 DEF c
<1>5. ASSUME NEW w
      PROVE  Pending(slots, p, w) = slots[i].fresh \cup slots[i].rects[w]
  BY <1>1, PendingOf
<1>6. \A k \in Slots : slots'[k].page = slots[k].page
  BY <1>3
<1>7. ASSUME NEW x \in Pictures, x # <<p, t>>
      PROVE  /\ Missed(slots')[x] => lost[x] \/ Holding(slots, x[1]) = {}
             /\ Pending(slots, x[1], x[2]) \subseteq Pending(slots', x[1], x[2])
  <2>1. x[1] \in Pages /\ x[2] \in Targets /\ x = <<x[1], x[2]>>
    BY PageCacheAssumption
  <2>2. Holding(slots', x[1]) = Holding(slots, x[1])
    BY <1>6 DEF Holding
  <2>3. CASE x[1] # p
    <3>. DEFINE q == x[1]
                w == x[2]
                c == slots'
    <3>1. slots[i].page # q /\ c[i].page # q /\ \A k \in Slots \ {i} : c[k] = slots[k]
      BY <1>3, <2>3
    <3>. HIDE DEF q, w, c
    <3>2. Pending(c, q, w) = Pending(slots, q, w)
      BY <3>1, PendingElsewhere
    <3>. QED
      BY <2>2, <3>2 DEF Missed, q, w, c
  <2>4. CASE x[1] = p
    <3>1. x[2] \in Targets \ {t}
      BY <1>7, <2>1, <2>4
    <3>2. Pending(slots, x[1], x[2]) \subseteq Pending(slots', x[1], x[2])
      BY <1>4, <1>5, <2>4, <3>1
    <3>. QED
      BY <2>2, <3>2 DEF Missed
  <2>. QED
    BY <2>3, <2>4
<1>8. Pending(slots', p, t) = s.rects[t]
  BY <1>4
<1>9. Missed(slots') \in [Pictures -> BOOLEAN]
  BY MissedType
<1>10. \A x \in Pictures \ {<<p, t>>} :
         /\ Missed(slots')[x] => lost[x] \/ Holding(slots, x[1]) = {}
         /\ Pending(slots, x[1], x[2]) \subseteq Pending(slots', x[1], x[2])
  BY <1>7
<1>. QED
  BY <1>2, <1>8, <1>9, <1>10

\* An update repaints what is pending for its picture, or keeps it pending.
LEMMA UpdatePageStep ==
  ASSUME IInv, NEW p \in Pages, NEW t \in Targets, <<p, t>> \in Pictures,
         UpdatePage(p, t)
  PROVE  IInv'
<1>. DEFINE x == <<p, t>>
            i == SlotFor(p)
            u == UpdateChangedRects(slots[i])
<1>1. TypeOK /\ Ordered(slots, doc) /\ \A y \in Pictures : Tracked(y)
  BY OrderedSlots, TrackedPictures DEF IInv
<1>2. /\ i \in Slots /\ slots[i].page = p /\ slots[i] \in Slot /\ p # None
      /\ shown[x] # None /\ Holding(slots, p) # {}
      /\ doc' = doc /\ current' = current /\ ahead' = ahead
  BY <1>1, SlotForSlot, PageCacheAssumption DEF UpdatePage, Ordered
<1>3. PICK r \in Record(u) :
        \/ /\ r[2] = "done"
           /\ slots' = [slots EXCEPT ![i] = DropChangedRects(r[1], t)]
           /\ Show(x, (shown[x] \ r[1].rects[t]) \cup (r[1].annots \cap r[1].rects[t]),
                   lost[x] \/ (r[1].rects[t] # {} /\ ~ Whole(r[1])))
        \/ /\ r[2] = "done"
           /\ slots' = [slots EXCEPT ![i] = r[1]]
           /\ \E S \in SUBSET r[1].rects[t] : \E T \in SUBSET (S \cap r[1].annots) :
                Show(x, (shown[x] \ S) \cup T, lost[x] \/ (S # {} /\ ~ Whole(r[1])))
        \/ /\ r[2] # "done"
           /\ slots' = [slots EXCEPT ![i] = r[1]]
           /\ UNCHANGED <<shown, lost>>
  BY DEF UpdatePage
<1>. DEFINE s == r[1]
            R == s.rects[t]
            v == DropChangedRects(s, t)
<1>4. /\ u \in Slot /\ u.page = p /\ u.fresh = {}
      /\ u.annots = slots[i].annots /\ u.half = slots[i].half
      /\ \A w \in Targets : u.rects[w] = slots[i].fresh \cup slots[i].rects[w]
  BY <1>2, RectsOfSlot
<1>5. u.annots # None /\ ~ u.half => u.annots = doc[u.page]
  BY <1>1, <1>2, <1>4 DEF Ordered
<1>6. doc \in [Pages -> SUBSET Annots]
  BY <1>1 DEF TypeOK
<1>. HIDE DEF u
<1>7. /\ s \in Slot /\ s.page = p /\ s.fresh = {} /\ s.rects = u.rects
      /\ s.annots # None /\ ~ s.half => s.annots = doc[p]
      /\ r[2] = "done" => s.annots \in SUBSET Annots
  BY <1>4, <1>5, <1>6, RecordSlot
<1>8. /\ v \in Slot /\ v.page = p /\ v.fresh = {} /\ v.rects[t] = {}
      /\ v.annots = s.annots /\ v.half = s.half
      /\ \A w \in Targets \ {t} : v.rects[w] = s.rects[w]
  BY <1>7 DEF DropChangedRects, Slot
<1>9. R = Pending(slots, p, t) /\ R \subseteq Annots
  <2>1. Pending(slots, p, t) = slots[i].fresh \cup slots[i].rects[t]
    BY <1>1, <1>2, PendingOf
  <2>. QED
    BY <1>4, <1>7, <2>1 DEF Slot
<1>10. ASSUME shown[x] # None, ~ lost[x]
       PROVE  (shown[x] \ doc[p]) \cup (doc[p] \ shown[x]) \subseteq R \cup Ahead(p, t)
  BY <1>1, <1>9, <1>10 DEF Tracked
<1>11. r[2] = "done" /\ Whole(s) => s.annots = doc[p]
  BY <1>7, PageCacheAssumption DEF Whole
<1>12. shown[x] \in SUBSET Annots /\ shown \in [Pictures -> (SUBSET Annots) \cup {None}]
       /\ lost \in [Pictures -> BOOLEAN]
  BY <1>1, <1>2 DEF TypeOK
<1>13. \A S : S \in SUBSET Annots => S # None
  BY PageCacheAssumption
<1>14. /\ i \in Slots /\ slots[i].page = p
       /\ s \in Slot /\ s.page = p /\ s.fresh = {} /\ s.rects[t] = R
       /\ s.annots # None /\ ~ s.half => s.annots = doc[p]
       /\ \A w \in Targets \ {t} : s.rects[w] = slots[i].fresh \cup slots[i].rects[w]
       /\ \A w \in Targets \ {t} : v.rects[w] = slots[i].fresh \cup slots[i].rects[w]
       /\ v.annots # None /\ ~ v.half => v.annots = doc[p]
  BY <1>2, <1>4, <1>7, <1>8
<1>. HIDE DEF i, s, v, R
<1>15. ASSUME NEW A \in SUBSET Annots, NEW m \in BOOLEAN, Show(x, A, m),
              Ordered(slots', doc),
              \A y \in Pictures \ {x} :
                /\ Missed(slots')[y] => lost[y] \/ Holding(slots, y[1]) = {}
                /\ Pending(slots, y[1], y[2]) \subseteq Pending(slots', y[1], y[2]),
              ~ m => (A \ doc[p]) \cup (doc[p] \ A)
                       \subseteq Pending(slots', p, t) \cup Ahead(p, t)
       PROVE  IInv'
  <2>1. /\ shown' = [shown EXCEPT ![x] = A]
        /\ lost' = [Missed(slots') EXCEPT ![x] = m]
    BY <1>15 DEF Show
  <2>2. /\ shown' \in [Pictures -> (SUBSET Annots) \cup {None}]
        /\ lost' \in [Pictures -> BOOLEAN]
        /\ shown'[x] = A /\ lost'[x] = m
        /\ \A y \in Pictures \ {x} : shown'[y] = shown[y] /\ lost'[y] = Missed(slots')[y]
    BY <1>12, <2>1, MissedType
  <2>3. Tracked(x)'
    BY <1>2, <1>15, <2>2 DEF Tracked, Ahead
  <2>4. ASSUME NEW y \in Pictures \ {x} PROVE Tracked(y)'
    <3>1. ~ lost'[y] => ~ lost[y]
      BY <2>2 DEF Missed
    <3>. QED
      BY <1>1, <1>2, <1>15, <2>2, <3>1, UntouchedTracked
  <2>. QED
    BY <1>1, <1>2, <1>15, <2>2, <2>3, <2>4, InvariantParts DEF TypeOK, AheadOK
<1>16. CASE /\ r[2] = "done"
            /\ slots' = [slots EXCEPT ![i] = v]
            /\ Show(x, (shown[x] \ R) \cup (s.annots \cap R), lost[x] \/ (R # {} /\ ~ Whole(s)))
  <2>. DEFINE A == (shown[x] \ R) \cup (s.annots \cap R)
              m == lost[x] \/ (R # {} /\ ~ Whole(s))
  <2>1. A \in SUBSET Annots /\ m \in BOOLEAN
    BY <1>7, <1>9, <1>12, <1>16
  <2>2. /\ Ordered(slots', doc)
        /\ \A y \in Pictures \ {x} :
             /\ Missed(slots')[y] => lost[y] \/ Holding(slots, y[1]) = {}
             /\ Pending(slots, y[1], y[2]) \subseteq Pending(slots', y[1], y[2])
    BY <1>2, <1>8, <1>16, <1>14, UpdateSlots
  <2>3. ASSUME ~ m PROVE (A \ doc[p]) \cup (doc[p] \ A) \subseteq Ahead(p, t)
    <3>1. (shown[x] \ doc[p]) \cup (doc[p] \ shown[x]) \subseteq R \cup Ahead(p, t)
      BY <1>2, <1>10, <2>3
    <3>2. R = {} \/ s.annots = doc[p]
      BY <1>11, <1>16, <2>3
    <3>. QED
      BY <3>1, <3>2
  <2>. QED
    BY <1>15, <1>16, <2>1, <2>2, <2>3
<1>17. CASE /\ r[2] = "done"
            /\ slots' = [slots EXCEPT ![i] = s]
            /\ \E S \in SUBSET R : \E T \in SUBSET (S \cap s.annots) :
                 Show(x, (shown[x] \ S) \cup T, lost[x] \/ (S # {} /\ ~ Whole(s)))
  <2>0. PICK S \in SUBSET R : \E T \in SUBSET (S \cap s.annots) :
          Show(x, (shown[x] \ S) \cup T, lost[x] \/ (S # {} /\ ~ Whole(s)))
    BY <1>17
  <2>1. PICK T \in SUBSET (S \cap s.annots) :
          Show(x, (shown[x] \ S) \cup T, lost[x] \/ (S # {} /\ ~ Whole(s)))
    BY <2>0
  <2>. DEFINE A == (shown[x] \ S) \cup T
              m == lost[x] \/ (S # {} /\ ~ Whole(s))
  <2>2. A \in SUBSET Annots /\ m \in BOOLEAN
    BY <1>9, <1>12
  <2>3. /\ Ordered(slots', doc) /\ Pending(slots', p, t) = R
        /\ \A y \in Pictures \ {x} :
             /\ Missed(slots')[y] => lost[y] \/ Holding(slots, y[1]) = {}
             /\ Pending(slots, y[1], y[2]) \subseteq Pending(slots', y[1], y[2])
    <3>1. /\ Ordered(slots', doc)
          /\ Pending(slots', p, t) = s.rects[t]
          /\ \A y \in Pictures \ {<<p, t>>} :
               /\ Missed(slots')[y] => lost[y] \/ Holding(slots, y[1]) = {}
               /\ Pending(slots, y[1], y[2]) \subseteq Pending(slots', y[1], y[2])
          /\ Missed(slots') \in [Pictures -> BOOLEAN]
      <4>1. slots' = [slots EXCEPT ![i] = s]
        BY <1>17
      <4>. QED
        BY <1>14, <4>1, UpdateSlots, Zenon
    <3>. QED
      BY <1>14, <3>1
  <2>4. ASSUME ~ m PROVE (A \ doc[p]) \cup (doc[p] \ A) \subseteq R \cup Ahead(p, t)
    <3>1. (shown[x] \ doc[p]) \cup (doc[p] \ shown[x]) \subseteq R \cup Ahead(p, t)
      BY <1>2, <1>10, <2>4
    <3>. QED
      BY <3>1
  <2>. QED
    BY <1>15, <2>1, <2>2, <2>3, <2>4
<1>18. CASE r[2] # "done" /\ slots' = [slots EXCEPT ![i] = s] /\ UNCHANGED <<shown, lost>>
  <2>1. /\ Ordered(slots', doc) /\ Pending(slots', p, t) = R
        /\ \A y \in Pictures \ {x} :
             Pending(slots, y[1], y[2]) \subseteq Pending(slots', y[1], y[2])
    <3>1. /\ Ordered(slots', doc)
          /\ Pending(slots', p, t) = s.rects[t]
          /\ \A y \in Pictures \ {<<p, t>>} :
               /\ Missed(slots')[y] => lost[y] \/ Holding(slots, y[1]) = {}
               /\ Pending(slots, y[1], y[2]) \subseteq Pending(slots', y[1], y[2])
          /\ Missed(slots') \in [Pictures -> BOOLEAN]
      <4>1. slots' = [slots EXCEPT ![i] = s]
        BY <1>18
      <4>. QED
        BY <1>14, <4>1, UpdateSlots, Zenon
    <3>. QED
      BY <1>14, <3>1
  <2>2. ASSUME NEW y \in Pictures PROVE Tracked(y)'
    <3>1. Pending(slots, y[1], y[2]) \subseteq Pending(slots', y[1], y[2])
      BY <1>9, <2>1
    <3>. QED
      BY <1>1, <1>2, <1>18, <3>1, UntouchedTracked
  <2>. QED
    BY <1>1, <1>2, <1>18, <2>1, <2>2, InvariantParts DEF TypeOK, AheadOK
<1>. QED
  BY <1>3, <1>16, <1>17, <1>18 DEF i, s, v, R

\* A drawing painted ahead of its task differs where Ahead says so.
LEMMA SaveDrawStep == ASSUME IInv, NEW a \in Annots, SaveDraw(a) PROVE IInv'
<1>1. TypeOK /\ Ordered(slots, doc) /\ \A x \in Pictures : Tracked(x)
  BY OrderedSlots, TrackedPictures DEF IInv
<1>2. /\ ahead' = ahead \cup {a} /\ a \notin doc[PageOf[a]]
      /\ doc' = doc /\ slots' = slots /\ current' = current /\ lost' = lost
      /\ shown' = [x \in Pictures |->
                     IF x = <<PageOf[a], "hq">> /\ shown[x] # None
                     THEN shown[x] \cup {a} ELSE shown[x]]
  BY DEF SaveDraw
<1>3. \A S \in SUBSET Annots : S # None
  BY PageCacheAssumption
<1>4. ASSUME NEW x \in Pictures
      PROVE  /\ shown'[x] \in (SUBSET Annots) \cup {None}
             /\ shown'[x] # None => shown[x] # None
             /\ shown'[x] # shown[x]
                  => /\ x[1] = PageOf[a] /\ x[2] = "hq"
                     /\ shown'[x] = shown[x] \cup {a}
  BY <1>1, <1>2 DEF TypeOK
<1>5. ASSUME NEW x \in Pictures PROVE Tracked(x)'
  <2>1. Ahead(x[1], x[2]) \subseteq Ahead(x[1], x[2])'
    BY <1>2 DEF Ahead
  <2>2. x[1] = PageOf[a] /\ x[2] = "hq" => a \in Ahead(x[1], x[2])'
    BY <1>2 DEF Ahead
  <2>. QED
    BY <1>1, <1>2, <1>4, <2>1, <2>2 DEF Tracked
<1>6. shown' \in [Pictures -> (SUBSET Annots) \cup {None}]
  BY <1>2, <1>4
<1>7. AheadOK'
  BY <1>1, <1>2 DEF TypeOK, AheadOK
<1>. QED
  BY <1>1, <1>2, <1>5, <1>6, <1>7, InvariantParts DEF TypeOK, AheadOK

\* A cancelled drawing stays in the picture: it counts as lost, unless the
\* cache is to paint its place anyway.
LEMMA CancelInkStep == ASSUME IInv, NEW a \in Annots, CancelInk(a) PROVE IInv'
<1>1. TypeOK /\ Ordered(slots, doc) /\ \A x \in Pictures : Tracked(x)
  BY OrderedSlots, TrackedPictures DEF IInv
<1>2. /\ ahead' = ahead \ {a} /\ a \in ahead /\ a \notin doc[PageOf[a]]
      /\ doc' = doc /\ slots' = slots /\ current' = current /\ shown' = shown
      /\ lost' = [x \in Pictures |->
                    \/ lost[x]
                    \/ /\ x = <<PageOf[a], "hq">> /\ shown[x] # None
                       /\ a \in shown[x] \ Pending(slots, x[1], x[2])]
  BY <1>1 DEF CancelInk, TypeOK
<1>3. ASSUME NEW x \in Pictures PROVE Tracked(x)'
  <2>1. SUFFICES ASSUME shown[x] # None, ~ lost'[x]
                 PROVE  (shown[x] \ doc[x[1]]) \cup (doc[x[1]] \ shown[x])
                          \subseteq Pending(slots, x[1], x[2]) \cup Ahead(x[1], x[2])'
    BY <1>2 DEF Tracked
  <2>2. /\ ~ lost[x]
        /\ x = <<PageOf[a], "hq">>
             => a \notin shown[x] \/ a \in Pending(slots, x[1], x[2])
    BY <1>2, <2>1
  <2>3. (shown[x] \ doc[x[1]]) \cup (doc[x[1]] \ shown[x])
          \subseteq Pending(slots, x[1], x[2]) \cup Ahead(x[1], x[2])
    BY <1>1, <2>1, <2>2 DEF Tracked
  <2>4. Ahead(x[1], x[2]) \subseteq Ahead(x[1], x[2])' \cup {a}
    BY <1>2 DEF Ahead
  <2>5. CASE a \in Ahead(x[1], x[2])
    <3>1. x = <<PageOf[a], "hq">>
      BY <2>5, PageCacheAssumption DEF Ahead
    <3>2. a \notin doc[x[1]]
      BY <1>2, <3>1
    <3>. QED
      BY <2>2, <2>3, <2>4, <3>1, <3>2
  <2>6. CASE a \notin Ahead(x[1], x[2])
    BY <2>3, <2>4, <2>6
  <2>. QED
    BY <2>5, <2>6
<1>4. lost' \in [Pictures -> BOOLEAN]
  BY <1>1, <1>2 DEF TypeOK
<1>5. AheadOK'
  BY <1>1, <1>2 DEF TypeOK, AheadOK
<1>. QED
  BY <1>1, <1>2, <1>3, <1>4, <1>5, InvariantParts DEF TypeOK, AheadOK

\* A report that failed half way keeps the page and the lists of its slot.
LEMMA FailedSlot ==
  ASSUME NEW s \in Slot, NEW u \in FailedReports(s)
  PROVE  /\ u \in Slot /\ u.page = s.page
         /\ u.annots = s.annots /\ u.half = s.half
         /\ \A w \in Targets : s.rects[w] \subseteq u.rects[w]
<1>1. ASSUME NEW S \in SUBSET (s.fresh \cap doc[s.page]), u = ForgetSome(s, S)
      PROVE  /\ u \in Slot /\ u.page = s.page /\ u.rects = s.rects
             /\ u.annots = s.annots /\ u.half = s.half
  BY <1>1 DEF ForgetSome, Slot
<1>2. ASSUME NEW S \in SUBSET s.fresh, NEW a \in s.fresh, u = ListSome(s, S, a)
      PROVE  /\ u \in Slot /\ u.page = s.page
             /\ u.annots = s.annots /\ u.half = s.half
             /\ \A w \in Targets : s.rects[w] \subseteq u.rects[w]
  <2>. DEFINE R == [main |-> s.rects["main"] \cup S \cup {a}, hq |-> s.rects["hq"] \cup S]
  <2>1. /\ s.fresh \in SUBSET Annots
        /\ s.rects["main"] \in SUBSET Annots /\ s.rects["hq"] \in SUBSET Annots
    BY DEF Slot, Targets
  <2>2. R \in [Targets -> SUBSET Annots] /\ \A w \in Targets : s.rects[w] \subseteq R[w]
    BY <2>1 DEF Targets
  <2>3. u = [s EXCEPT !.fresh = {}, !.rects = R]
    BY <1>2 DEF ListSome
  <2>. HIDE DEF R
  <2>. QED
    BY <2>2, <2>3 DEF Slot
<1>3. \/ \E S \in SUBSET (s.fresh \cap doc[s.page]) : u = ForgetSome(s, S)
      \/ \E S \in SUBSET s.fresh : \E a \in s.fresh : u = ListSome(s, S, a)
  BY DEF FailedReports
<1>. QED
  BY <1>1, <1>2, <1>3

\* What such a report does to the cache: what is not pending any more for a
\* picture that is shown counts as lost.
LEMMA FailSlots ==
  ASSUME IInv, NEW p \in Pages, NEW s \in FailedReports(GotoPage(p)[SlotFor(p)]),
         FailReport(p, s)
  PROVE  /\ Ordered(slots', doc) /\ SlotFor(p) \in Slots
         /\ doc' = doc /\ ahead' = ahead
         /\ Unreported(p, s) \in [Pictures -> BOOLEAN]
         /\ \A x \in Pictures : shown[x] # None /\ ~ Unreported(p, s)[x]
              => /\ ~ lost[x]
                 /\ Pending(slots, x[1], x[2]) \subseteq Pending(slots', x[1], x[2])
<1>. DEFINE i == SlotFor(p)
            there == GotoPage(p)
<1>1. TypeOK /\ Ordered(slots, doc)
  BY OrderedSlots DEF IInv
<1>2. i \in Slots /\ Ordered(there, doc) /\ there[i].page = p
  BY <1>1, GotoPageOrdered
<1>3. slots' = [there EXCEPT ![i] = s] /\ doc' = doc /\ ahead' = ahead
  BY DEF FailReport
<1>4. there[i] \in Slot /\ p # None
  BY <1>2, PageCacheAssumption DEF Ordered
<1>5. /\ s \in Slot /\ s.page = p
      /\ s.annots = there[i].annots /\ s.half = there[i].half
      /\ \A w \in Targets : there[i].rects[w] \subseteq s.rects[w]
  BY <1>2, <1>4, FailedSlot
<1>6. s.annots # None /\ ~ s.half => s.annots = doc[s.page]
  BY <1>2, <1>5 DEF Ordered
<1>7. Unreported(p, s) \in [Pictures -> BOOLEAN]
  BY DEF Unreported
<1>8. ASSUME NEW x \in Pictures, shown[x] # None, ~ Unreported(p, s)[x]
      PROVE  /\ ~ Missed(slots')[x]
             /\ x[1] = p => there[i].fresh \subseteq s.fresh \cup s.rects[x[2]]
  BY <1>8 DEF Unreported
<1>. HIDE DEF there, i
<1>9. Ordered(slots', doc)
  BY <1>2, <1>3, <1>5, <1>6, OrderedExcept
<1>10. slots'[i] = s /\ \A k \in Slots \ {i} : slots'[k] = there[k]
  BY <1>2, <1>3 DEF Ordered
<1>11. ASSUME NEW x \in Pictures, shown[x] # None, ~ Unreported(p, s)[x]
       PROVE  /\ ~ lost[x]
              /\ Pending(slots, x[1], x[2]) \subseteq Pending(slots', x[1], x[2])
  <2>. DEFINE q == x[1]
              w == x[2]
  <2>1. q \in Pages /\ w \in Targets
    BY PageCacheAssumption
  <2>2. \A k \in Slots : slots'[k].page = there[k].page
    BY <1>2, <1>5, <1>10
  <2>3. Holding(slots', q) = Holding(there, q)
    BY <2>2 DEF Holding
  <2>4. ~ Missed(there)[x]
    BY <1>8, <1>11, <2>3 DEF Missed
  <2>5. ~ lost[x] /\ Pending(slots, q, w) \subseteq Pending(there, q, w)
    BY <1>1, <1>11, <2>4, GotoPageKeepsPending DEF there
  <2>6. CASE q # p
    <3>. DEFINE c == slots'
    <3>1. there[i].page # q /\ c[i].page # q /\ \A k \in Slots \ {i} : c[k] = there[k]
      BY <1>2, <1>5, <1>10, <2>6
    <3>. HIDE DEF c, q, w
    <3>2. Pending(c, q, w) = Pending(there, q, w)
      BY <1>2, <3>1, PendingElsewhere
    <3>. QED
      BY <2>5, <3>2 DEF c, q, w
  <2>7. CASE q = p
    <3>1. there[i].fresh \subseteq s.fresh \cup s.rects[w]
      BY <1>8, <1>11, <2>7
    <3>2. Pending(there, p, w) = there[i].fresh \cup there[i].rects[w]
      BY <1>2, <1>4, PendingOf
    <3>3. Pending(slots', p, w) = s.fresh \cup s.rects[w]
      <4>1. slots'[i].page = p /\ slots'[i].page # None
        BY <1>4, <1>5, <1>10
      <4>2. Pending(slots', slots'[i].page, w) = slots'[i].fresh \cup slots'[i].rects[w]
        BY <1>2, <1>9, <4>1, PendingOf
      <4>. QED
        BY <1>10, <4>1, <4>2
    <3>. QED
      BY <1>5, <2>1, <2>5, <2>7, <3>1, <3>2, <3>3
  <2>. QED
    BY <2>6, <2>7
<1>. QED
  BY <1>2, <1>3, <1>7, <1>9, <1>11 DEF i

LEMMA FailDrawPageStep ==
  ASSUME IInv, NEW p \in Pages, FailDrawPage(p) PROVE IInv'
<1>1. TypeOK /\ \A x \in Pictures : Tracked(x)
  BY TrackedPictures DEF IInv
<1>2. PICK s \in FailedReports(GotoPage(p)[SlotFor(p)]) :
        /\ FailReport(p, s)
        /\ current' = SlotFor(p)
        /\ \/ shown' = shown /\ lost' = Unreported(p, s)
           \/ \E x \in Pictures :
                /\ x[1] = p /\ shown[x] = None
                /\ shown' = [shown EXCEPT ![x] = {}]
                /\ lost' = [Unreported(p, s) EXCEPT ![x] = TRUE]
  BY DEF FailDrawPage
<1>3. /\ Ordered(slots', doc) /\ current' \in Slots
      /\ doc' = doc /\ ahead' = ahead
      /\ Unreported(p, s) \in [Pictures -> BOOLEAN]
      /\ \A x \in Pictures : shown[x] # None /\ ~ Unreported(p, s)[x]
           => /\ ~ lost[x]
              /\ Pending(slots, x[1], x[2]) \subseteq Pending(slots', x[1], x[2])
  BY <1>2, FailSlots
<1>. DEFINE U == Unreported(p, s)
<1>. HIDE DEF U
<1>4. CASE shown' = shown /\ lost' = Unreported(p, s)
  <2>1. \A x \in Pictures : Tracked(x)'
    BY <1>1, <1>3, <1>4, UntouchedTracked
  <2>. QED
    BY <1>1, <1>3, <1>4, <2>1, InvariantParts DEF TypeOK, AheadOK
<1>5. ASSUME NEW x \in Pictures,
             shown' = [shown EXCEPT ![x] = {}], lost' = [Unreported(p, s) EXCEPT ![x] = TRUE]
      PROVE  IInv'
  <2>1. /\ shown' \in [Pictures -> (SUBSET Annots) \cup {None}]
        /\ lost' \in [Pictures -> BOOLEAN] /\ lost'[x]
        /\ \A y \in Pictures \ {x} : shown'[y] = shown[y] /\ lost'[y] = Unreported(p, s)[y]
    BY <1>1, <1>3, <1>5 DEF TypeOK
  <2>2. Tracked(x)'
    BY <2>1 DEF Tracked
  <2>3. \A y \in Pictures \ {x} : Tracked(y)'
    BY <1>1, <1>3, <2>1, UntouchedTracked
  <2>. QED
    BY <1>1, <1>3, <2>1, <2>2, <2>3, InvariantParts DEF TypeOK, AheadOK
<1>. QED
  BY <1>2, <1>4, <1>5

LEMMA FailUpdatePageStep ==
  ASSUME IInv, NEW p \in Pages, FailUpdatePage(p) PROVE IInv'
<1>1. TypeOK /\ \A x \in Pictures : Tracked(x)
  BY TrackedPictures DEF IInv
<1>2. PICK s \in FailedReports(GotoPage(p)[SlotFor(p)]) :
        FailReport(p, s) /\ lost' = Unreported(p, s)
  BY DEF FailUpdatePage
<1>3. current' = current /\ shown' = shown
  BY DEF FailUpdatePage
<1>4. /\ Ordered(slots', doc)
      /\ doc' = doc /\ ahead' = ahead
      /\ Unreported(p, s) \in [Pictures -> BOOLEAN]
      /\ \A x \in Pictures : shown[x] # None /\ ~ Unreported(p, s)[x]
           => /\ ~ lost[x]
              /\ Pending(slots, x[1], x[2]) \subseteq Pending(slots', x[1], x[2])
  BY <1>2, FailSlots
<1>5. \A x \in Pictures : Tracked(x)'
  BY <1>1, <1>2, <1>3, <1>4, UntouchedTracked
<1>. QED
  BY <1>1, <1>2, <1>3, <1>4, <1>5, InvariantParts DEF TypeOK, AheadOK

LEMMA Start == Init => IInv
<1>. SUFFICES ASSUME Init PROVE IInv
  OBVIOUS
<1>1. Ordered(slots, doc) /\ current \in Slots
  BY UnusedSlots DEF Init
<1>2. ListsAreCurrent /\ TypeOK
  BY <1>1 DEF Init, Ordered, ListsAreCurrent, TypeOK
<1>3. ChangesTracked
  BY DEF Init, ChangesTracked
<1>. QED
  BY <1>2, <1>3 DEF IInv

LEMMA Step == IInv /\ [Next]_vars => IInv'
<1>. SUFFICES ASSUME IInv, [Next]_vars PROVE IInv'
  OBVIOUS
<1>1. ASSUME NEW p \in Pages, Visit(p) \/ FailDrawPage(p) \/ FailUpdatePage(p)
      PROVE  IInv'
  BY <1>1, VisitStep, FailDrawPageStep, FailUpdatePageStep
<1>2. ASSUME NEW a \in Annots,
             AddInkAnnotation(a) \/ DeleteAnnotation(a) \/ SaveDraw(a) \/ CancelInk(a)
      PROVE  IInv'
  BY <1>2, ChangeStep, SaveDrawStep, CancelInkStep DEF AddInkAnnotation, DeleteAnnotation
<1>3. ASSUME NEW x \in Pictures,
             \/ DrawPage(x[1], x[2]) \/ UpdatePage(x[1], x[2])
             \/ UpdateUncached(x[1], x[2]) \/ Reset(x)
      PROVE  IInv'
  <2>1. x[1] \in Pages /\ x[2] \in Targets /\ <<x[1], x[2]>> \in Pictures
    BY PageCacheAssumption
  <2>2. CASE DrawPage(x[1], x[2])
    BY <2>1, <2>2, DrawPageStep
  <2>3. CASE UpdatePage(x[1], x[2])
    BY <2>1, <2>3, UpdatePageStep
  <2>4. CASE UpdateUncached(x[1], x[2])
    BY <2>1, <2>4, UpdateUncachedStep
  <2>5. CASE Reset(x)
    BY <2>5, ResetStep
  <2>. QED
    BY <1>3, <2>2, <2>3, <2>4, <2>5
<1>4. ASSUME NEW t \in Targets, Thumbnail(t) PROVE IInv'
  BY <1>4, ThumbnailStep
<1>5. CASE CloseDoc
  BY <1>5, CloseDocStep
<1>6. CASE UNCHANGED vars
  BY <1>6 DEF vars, IInv, TypeOK, ListsAreCurrent, ChangesTracked, Ahead
<1>. QED
  BY <1>1, <1>2, <1>3, <1>4, <1>5, <1>6 DEF Next

-----------------------------------------------------------------------------
(* The theorems.                                                           *)

\* The three properties together are inductive.
THEOREM CacheInvariance == Spec => []IInv
BY Start, Step, PTL DEF Spec

\* Every edit lands on the page it was made for, and no page is in two slots.
THEOREM EditsLand == Spec => []TypeOK
<1>1. IInv => TypeOK
  BY DEF IInv
<1>. QED
  BY <1>1, CacheInvariance, PTL

\* A list that was recorded to its end is never older than the page.
THEOREM ListsStayCurrent == Spec => []ListsAreCurrent
<1>1. IInv => ListsAreCurrent
  BY DEF IInv
<1>. QED
  BY <1>1, CacheInvariance, PTL

\* A picture that has not lost a change in one of the ways that are named
\* differs from the page only where the cache knows that it does.
THEOREM ChangesStayTracked == Spec => []ChangesTracked
<1>1. IInv => ChangesTracked
  BY DEF IInv
<1>. QED
  BY <1>1, CacheInvariance, PTL
=============================================================================
