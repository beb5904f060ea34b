------------------------------- MODULE PageCache -------------------------------
(***************************************************************************)
(* The page cache of the native glue (platform/android/jni/mupdf.c): the   *)
(* pages it keeps loaded, their display lists, and the changed rectangles  *)
(* by which the pictures on the screen follow the annotations.             *)
(*                                                                         *)
(* Each call of the core holds the core's monitor, so it is one step here, *)
(* with every place at which its cookie can stop it and every place at     *)
(* which recording a list can fail.  A picture is the bitmap of a page for *)
(* one of two targets: the page as a whole, or the sharp patch.  It shows  *)
(* a set of annotations; the rectangle of an annotation is known by the    *)
(* annotation, and pages always load.                                      *)
(***************************************************************************)
EXTENDS Naturals, FiniteSetsExt

CONSTANTS Pages,     \* the page numbers
          NumCache,  \* NUM_CACHE
          Annots,    \* the annotations there may be
          PageOf,    \* the page each of them belongs to
          Pictures,  \* bound: the pictures, pairs of a page and a target
          None

Targets == {"main", "hq"}
Slots == 1..NumCache

ASSUME PageCacheAssumption ==
  /\ Pages \subseteq Nat /\ 0 \in Pages
  /\ NumCache \in Nat \ {0}
  /\ PageOf \in [Annots -> Pages]
  /\ Pictures \subseteq Pages \X Targets
  /\ None \notin Nat /\ \A S \in SUBSET Annots : S # None

VARIABLES
  doc,      \* the annotations of each page of the document
  slots,    \* globals.pages
  current,  \* globals.current
  ahead,    \* accepted drawings whose task has not added them yet
  shown,    \* what each picture shows, None while there is no picture
  lost      \* whether a picture missed a change for good (a history variable)

vars == <<doc, slots, current, ahead, shown, lost>>

(***************************************************************************)
(* page_cache.  fresh: the changes the loaded page has not reported yet,   *)
(* new annotations without an appearance and deleted_annots.  rects: the   *)
(* two lists of changed rectangles.  contents, annots: the display lists;  *)
(* a list is half recorded when recording it failed without a cookie's     *)
(* abort.                                                                  *)
(***************************************************************************)
Loaded(p) ==
  [page |-> p, fresh |-> {}, rects |-> [t \in Targets |-> {}],
   contents |-> "none", annots |-> None, half |-> FALSE]
Unused == Loaded(None)

Slot ==
  [page : Pages \cup {None}, fresh : SUBSET Annots,
   rects : [Targets -> SUBSET Annots], contents : {"none", "half", "whole"},
   annots : (SUBSET Annots) \cup {None}, half : BOOLEAN]

Holding(cache, p) == {i \in Slots : cache[i].page = p}

\* What the cache knows to be out of date in a picture.
Pending(cache, p, t) ==
  UNION {cache[i].fresh \cup cache[i].rects[t] : i \in Holding(cache, p)}

(***************************************************************************)
(* gotoPageInternal: the slot to use for page p is the one that holds it,  *)
(* the last unused one, or the first of those that are furthest away.      *)
(***************************************************************************)
Distance(p, q) == IF p < q THEN q - p ELSE p - q
SlotForAtUnused(p) ==  \* variant: the search ends at an unused slot
  CASE Holding(slots, None) # {} -> Min(Holding(slots, None))
    [] Holding(slots, None) = {} /\ Holding(slots, p) # {} -> Min(Holding(slots, p))
    [] OTHER ->
         Min({i \in Slots : \A j \in Slots :
                Distance(slots[j].page, p) <= Distance(slots[i].page, p)})
SlotFor(p) ==
  CASE Holding(slots, p) # {} -> Min(Holding(slots, p))
    [] Holding(slots, p) = {} /\ Holding(slots, None) # {} ->
         Max(Holding(slots, None))
    [] OTHER ->
         Min({i \in Slots : \A j \in Slots :
                Distance(slots[j].page, p) <= Distance(slots[i].page, p)})

GotoPage(p) ==
  IF slots[SlotFor(p)].page = p THEN slots
  ELSE [slots EXCEPT ![SlotFor(p)] = Loaded(p)]

\* A picture misses the changes that are pending when its page is dropped.
Missed(cache) ==
  [x \in Pictures |->
     \/ lost[x]
     \/ /\ shown[x] # None
        /\ Pending(slots, x[1], x[2]) # {}
        /\ Holding(cache, x[1]) = {}]

Visit(p) ==
  /\ slots' = GotoPage(p)
  /\ current' = SlotFor(p)
  /\ lost' = Missed(slots')
  /\ UNCHANGED <<doc, ahead, shown>>

(***************************************************************************)
(* addInkAnnotation, deleteAnnotation: the change is made on the page that *)
(* is current after gotoPage, and all annotation lists are thrown away.    *)
(***************************************************************************)
DumpAllButLast(cache) ==  \* variant: the loop ends one slot too early
  [i \in Slots |-> IF i < NumCache THEN [cache[i] EXCEPT !.annots = None, !.half = FALSE]
                   ELSE cache[i]]
DumpAnnotationDisplayLists(cache) ==
  [i \in Slots |-> [cache[i] EXCEPT !.annots = None, !.half = FALSE]]

Change(a, added) ==
  LET p == PageOf[a]
      i == SlotFor(p)
      there == GotoPage(p)
  IN  /\ slots' = [DumpAnnotationDisplayLists(there) EXCEPT ![i].fresh = @ \cup {a}]
      /\ current' = i
      /\ doc' = [doc EXCEPT ![there[i].page] = IF added THEN @ \cup {a} ELSE @ \ {a}]
      /\ lost' = Missed(there)
      /\ UNCHANGED shown

AddInkAnnotation(a) ==
  a \notin doc[PageOf[a]] /\ ahead' = ahead \ {a} /\ Change(a, TRUE)
DeleteAnnotation(a) ==
  a \in doc[PageOf[a]] /\ UNCHANGED ahead /\ Change(a, FALSE)

(***************************************************************************)
(* An accepted drawing is painted into the sharp patch at once, ahead of   *)
(* the task that adds the annotation.  The task may be cancelled before it *)
(* has begun, and nothing takes the drawing out of the picture again.      *)
(***************************************************************************)
Ahead(p, t) == {a \in ahead : PageOf[a] = p /\ t = "hq"}

SaveDraw(a) ==
  /\ a \notin doc[PageOf[a]] /\ a \notin ahead
  /\ ahead' = ahead \cup {a}
  /\ shown' = [x \in Pictures |->
                  IF x = <<PageOf[a], "hq">> /\ shown[x] # None
                  THEN shown[x] \cup {a} ELSE shown[x]]
  /\ UNCHANGED <<doc, slots, current, lost>>

CancelInk(a) ==
  /\ a \in ahead
  /\ ahead' = ahead \ {a}
  /\ lost' = [x \in Pictures |->
                 \/ lost[x]
                 \/ /\ x = <<PageOf[a], "hq">> /\ shown[x] # None
                    /\ a \in shown[x] \ Pending(slots, x[1], x[2])]
  /\ UNCHANGED <<doc, slots, current, shown>>

(***************************************************************************)
(* update_changed_rects: both lists get what the page reports.             *)
(***************************************************************************)
UpdateMainRects(s) ==  \* variant: the sharp patch is forgotten
  [s EXCEPT !.fresh = {}, !.rects["main"] = @ \cup s.fresh]
UpdateChangedRects(s) ==
  [s EXCEPT !.fresh = {}, !.rects = [t \in Targets |-> @[t] \cup s.fresh]]
DropChangedRects(s, t) == [s EXCEPT !.rects[t] = {}]

(***************************************************************************)
(* Recording the lists a slot does not have, first that of the contents:   *)
(* the slot and how it ended.  A stopped recording leaves no list, a       *)
(* failed one what was recorded so far.                                    *)
(***************************************************************************)
RecordContents(s) ==
  IF s.contents # "none" THEN {<<s, "done">>}
  ELSE {<<[s EXCEPT !.contents = "whole"], "done">>, <<s, "stopped">>,
        <<[s EXCEPT !.contents = "half"], "failed">>}

RecordAnnots(s) ==
  IF s.annots # None THEN {<<s, "done">>}
  ELSE {<<[s EXCEPT !.annots = doc[s.page]], "done">>, <<s, "stopped">>}
         \cup {<<[s EXCEPT !.annots = S, !.half = TRUE], "failed">> :
                 S \in SUBSET doc[s.page]}

Record(s) ==
  {r \in RecordContents(s) : r[2] # "done"} \cup
  UNION {RecordAnnots(r[1]) : r \in {q \in RecordContents(s) : q[2] = "done"}}

Whole(s) == s.contents = "whole" /\ ~ s.half

(***************************************************************************)
(* drawPage renders the whole bitmap, and forgets the rectangles of its    *)
(* target before it has.                                                   *)
(***************************************************************************)
Drawn(p, t) ==
  LET s == DropChangedRects(UpdateChangedRects(GotoPage(p)[SlotFor(p)]), t)
  IN  Record(s)

Draw(p, t, r) ==
  /\ r \in Drawn(p, t)
  /\ slots' = [GotoPage(p) EXCEPT ![SlotFor(p)] = r[1]]
  /\ current' = SlotFor(p)
  /\ UNCHANGED <<doc, ahead>>

Show(x, annots, missed) ==
  /\ shown' = [shown EXCEPT ![x] = annots]
  /\ lost' = [Missed(slots') EXCEPT ![x] = missed]

\* The first rendering of a picture.  One that is stopped is not shown;
\* one that failed is, although it is empty.
DrawPage(p, t) ==
  /\ shown[<<p, t>>] = None
  /\ \E r \in Drawn(p, t) :
       /\ Draw(p, t, r)
       /\ \/ /\ r[2] = "done"
             /\ Show(<<p, t>>, r[1].annots, ~ Whole(r[1]))
          \/ r[2] = "failed" /\ Show(<<p, t>>, {}, TRUE)
          \/ r[2] # "failed" /\ Show(<<p, t>>, None, FALSE)

(***************************************************************************)
(* updatePageInternal repaints the changed rectangles of a shown picture,  *)
(* and forgets them when it has painted them all.  It does not go to the   *)
(* page.                                                                   *)
(***************************************************************************)
UpdatePage(p, t) ==
  LET x == <<p, t>>
      i == SlotFor(p)
  IN  /\ shown[x] # None
      /\ Holding(slots, p) # {}
      /\ \E r \in Record(UpdateChangedRects(slots[i])) :
           LET s == r[1]
               R == s.rects[t]
           IN  \/ /\ r[2] = "done"
                  /\ slots' = [slots EXCEPT ![i] = DropChangedRects(s, t)]
                  /\ Show(x, (shown[x] \ R) \cup (s.annots \cap R),
                          lost[x] \/ (R # {} /\ ~ Whole(s)))
               \/ /\ r[2] = "done"   \* stopped in the course of painting
                  /\ slots' = [slots EXCEPT ![i] = s]
                  /\ \E S \in SUBSET R : \E T \in SUBSET (S \cap s.annots) :
                       Show(x, (shown[x] \ S) \cup T,
                            lost[x] \/ (S # {} /\ ~ Whole(s)))
               \/ /\ r[2] # "done"
                  /\ slots' = [slots EXCEPT ![i] = s]
                  /\ UNCHANGED <<shown, lost>>
      /\ UNCHANGED <<doc, current, ahead>>

\* Without a cached page the whole bitmap is rendered, the shown one.
UpdateUncached(p, t) ==
  LET x == <<p, t>>
  IN  /\ shown[x] # None
      /\ Holding(slots, p) = {}
      /\ \E r \in Drawn(p, t) :
           /\ Draw(p, t, r)
           /\ \/ /\ r[2] = "done"
                 /\ Show(x, r[1].annots, ~ Whole(r[1]))
              \/ /\ r[2] = "done"   \* stopped in the course of painting
                 /\ \E S \in SUBSET r[1].annots : Show(x, S, TRUE)
              \/ r[2] # "done" /\ Show(x, shown[x], lost[x])

(***************************************************************************)
(* Making a report may throw half way: pdf_update_page after it has given  *)
(* some of the new annotations their appearance, or the polling when there *)
(* is no memory for a rectangle, with the one before in the first list.    *)
(* What was regenerated or listed as changed is not reported again.  The   *)
(* rendering ends there, with no rectangle dropped and nothing painted.    *)
(***************************************************************************)
ForgetSome(s, S) == [s EXCEPT !.fresh = @ \ S]
ListSome(s, S, a) ==
  [s EXCEPT !.fresh = {},
            !.rects = [main |-> @["main"] \cup S \cup {a}, hq |-> @["hq"] \cup S]]

FailedReports(s) ==
  {ForgetSome(s, S) : S \in SUBSET (s.fresh \cap doc[s.page])}
    \cup {ListSome(s, S, a) : S \in SUBSET s.fresh, a \in s.fresh}

\* The pictures of page p on the screen miss what goes unreported.
Unreported(p, s) ==
  [x \in Pictures |->
     \/ Missed(slots')[x]
     \/ /\ shown[x] # None /\ x[1] = p
        /\ ~ (GotoPage(p)[SlotFor(p)].fresh \subseteq s.fresh \cup s.rects[x[2]])]

FailReport(p, s) ==
  /\ slots' = [GotoPage(p) EXCEPT ![SlotFor(p)] = s]
  /\ UNCHANGED <<doc, ahead>>

\* In drawPage: a first rendering is shown although it is empty; one that was
\* stopped as well, a thumbnail and an update change no picture.
FailDrawPage(p) ==
  \E s \in FailedReports(GotoPage(p)[SlotFor(p)]) :
    /\ FailReport(p, s)
    /\ current' = SlotFor(p)
    /\ \/ shown' = shown /\ lost' = Unreported(p, s)
       \/ \E x \in Pictures :
            /\ x[1] = p /\ shown[x] = None
            /\ shown' = [shown EXCEPT ![x] = {}]
            /\ lost' = [Unreported(p, s) EXCEPT ![x] = TRUE]

FailUpdatePage(p) ==
  /\ Holding(slots, p) # {}
  /\ \E x \in Pictures : x[1] = p /\ shown[x] # None
  /\ \E s \in FailedReports(GotoPage(p)[SlotFor(p)]) :
       FailReport(p, s) /\ lost' = Unreported(p, s)
  /\ UNCHANGED <<current, shown>>

\* The thumbnail of the first page has a bitmap of its own: the picture
\* whose rectangles it takes is not repainted.
Thumbnail(t) ==
  \E r \in Drawn(0, t) :
    /\ Draw(0, t, r)
    /\ lost' = [x \in Pictures |->
                  \/ Missed(slots')[x]
                  \/ /\ x = <<0, t>> /\ shown[x] # None
                     /\ Pending(slots, 0, t) # {}]
    /\ UNCHANGED shown

\* The view is scrolled, zoomed or used for another page.
Reset(x) ==
  /\ shown' = [shown EXCEPT ![x] = None]
  /\ lost' = [lost EXCEPT ![x] = FALSE]
  /\ UNCHANGED <<doc, slots, current, ahead>>

\* A save closes the document and opens the new file.
CloseDoc ==
  /\ slots' = [i \in Slots |-> Unused]
  /\ current' = 1
  /\ lost' = Missed(slots')
  /\ UNCHANGED <<doc, ahead, shown>>

Init ==
  /\ doc \in [Pages -> SUBSET Annots]
  /\ \A p \in Pages : \A a \in doc[p] : PageOf[a] = p
  /\ slots = [i \in Slots |-> Unused]
  /\ current = 1
  /\ ahead = {}
  /\ shown = [x \in Pictures |-> None]
  /\ lost = [x \in Pictures |-> FALSE]

Next ==
  \/ \E p \in Pages : Visit(p) \/ FailDrawPage(p) \/ FailUpdatePage(p)
  \/ \E a \in Annots :
       AddInkAnnotation(a) \/ DeleteAnnotation(a) \/ SaveDraw(a) \/ CancelInk(a)
  \/ \E x \in Pictures :
       \/ DrawPage(x[1], x[2]) \/ UpdatePage(x[1], x[2])
       \/ UpdateUncached(x[1], x[2]) \/ Reset(x)
  \/ \E t \in Targets : Thumbnail(t)
  \/ CloseDoc

Spec == Init /\ [][Next]_vars

(***************************************************************************)
(* The properties.                                                         *)
(***************************************************************************)
\* Every edit lands on the page it was made for, and no page is loaded into
\* two slots, where the annotations of one copy would be out of date.
TypeOK ==
  /\ doc \in [Pages -> SUBSET Annots]
  /\ \A p \in Pages : \A a \in doc[p] : PageOf[a] = p
  /\ slots \in [Slots -> Slot]
  /\ \A i, j \in Slots : slots[i].page = slots[j].page /\ i # j
       => slots[i].page = None
  /\ current \in Slots
  /\ ahead \subseteq Annots /\ \A a \in ahead : a \notin doc[PageOf[a]]
  /\ shown \in [Pictures -> (SUBSET Annots) \cup {None}]
  /\ lost \in [Pictures -> BOOLEAN]

\* A display list that was recorded to its end holds the annotations the
\* page has now (dump_annotation_display_lists after every change): the next
\* rendering from it is never of an older state.
ListsAreCurrent ==
  \A i \in Slots :
    slots[i].annots # None /\ ~ slots[i].half => slots[i].annots = doc[slots[i].page]

\* Where a picture on the screen differs from the page, the cache knows of a
\* change still to be painted for this target (so that the next updatePage
\* repairs it), or it is the sharp patch, ahead of a drawing's task.  The
\* exceptions are the ways to lose a change that the history variable names:
\* the page was dropped with changes outstanding, the report of changes failed
\* half way, a rendering of the whole bitmap took its rectangles or was
\* stopped, a list is half recorded, or the task of a drawing was cancelled.
ChangesTracked ==
  \A x \in Pictures :
    LET p == x[1]
        stale == (shown[x] \ doc[p]) \cup (doc[p] \ shown[x])
    IN  shown[x] # None /\ ~ lost[x]
          => stale \subseteq Pending(slots, p, x[2]) \cup Ahead(p, x[2])

=============================================================================
