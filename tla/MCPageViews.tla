---------------------------- MODULE MCPageViews ----------------------------
EXTENDS PageViews

(* The first page has two annotations and the second one.                  *)
MCSaved == [p \in Pages |-> CASE p = 0 -> <<{1}, {2}>> [] p = 1 -> <<{3}>>
                              [] OTHER -> <<>>]

(* With a budget of three acts the user does what he likes.  With six he   *)
(* begins by turning to the last page and accepting a drawing there, each  *)
(* when all lists have been loaded.  Then he turns back when its task is   *)
(* about to load the list again, or while it waits, and turns another page *)
(* while some task is at a critical step; the other two acts are free.     *)
Idle == queue = <<>> /\ running = None /\ posts = <<>>
RunningAt(step) == running # None /\ running.step = step

Scenario ==
  \/ Background \/ Deliver
  \/ acts < 3 \/ (acts = 3 /\ home[MaxStrokes] = 0)
  \/ acts = 6 /\ Idle /\ MoveTo(NumPages - 1)
  \/ acts = 5 /\ Idle /\ (Draw \/ Stroke \/ (drawn = MaxStrokes /\ SaveDraw))
  \/ acts = 4 /\ RunningAt("reload") /\ MoveTo(0)
  \/ acts = 4 /\ queue # <<>> /\ MoveTo(1)
  \/ /\ acts = 3 /\ (RunningAt("reload") \/ RunningAt("read") \/ posts # <<>>)
     /\ \E p \in Pages : MoveTo(p)
=============================================================================
