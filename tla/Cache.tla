------------------------------- MODULE Cache -------------------------------
(***************************************************************************)
(* What the resource store promises its users (include/mupdf/fitz/store.h, *)
(* docs/refcount.txt), without counts, list, hash, sizes or locks: objects *)
(* are shared by reference, the cache holds some of them, and an object is *)
(* destroyed in the step after which nobody refers to it, never before and *)
(* never later.                                                            *)
(***************************************************************************)
CONSTANTS Objs, Places, None, HashKeys, KeyOf

VARIABLES
  var,     \* the reference variables of the program's threads
  life,    \* "unborn", "live" or "dropped"
  cached   \* the objects the cache holds

Used(o) == \E p \in Places : var[p] = o

Init ==
  /\ var = [p \in Places |-> None]
  /\ life = [o \in Objs |-> "unborn"]
  /\ cached = {}

Create(p, o) ==
  /\ var[p] = None /\ life[o] = "unborn"
  /\ var' = [var EXCEPT ![p] = o]
  /\ life' = [life EXCEPT ![o] = "live"]
  /\ UNCHANGED cached

\* A new reference to an object that is in use or cached, and so alive.
Acquire(p, o) ==
  /\ var[p] = None /\ life[o] = "live"
  /\ Used(o) \/ o \in cached
  /\ var' = [var EXCEPT ![p] = o]
  /\ UNCHANGED <<life, cached>>

Release(p) ==
  LET o == var[p] IN
  /\ o # None
  /\ var' = [var EXCEPT ![p] = None]
  /\ life' = IF o \in cached \/ \E q \in Places \ {p} : var[q] = o THEN life
             ELSE [life EXCEPT ![o] = "dropped"]
  /\ UNCHANGED cached

\* Only an object in use is added, and only one for each hashable key.
Add(o) ==
  /\ Used(o) /\ life[o] = "live" /\ o \notin cached
  /\ KeyOf[o] \in HashKeys => \A c \in cached : KeyOf[c] # KeyOf[o]
  /\ cached' = cached \cup {o}
  /\ UNCHANGED <<var, life>>

Remove(o) ==
  /\ o \in cached
  /\ cached' = cached \ {o}
  /\ life' = IF Used(o) THEN life ELSE [life EXCEPT ![o] = "dropped"]
  /\ UNCHANGED var

Next ==
  \/ \E p \in Places, o \in Objs : Create(p, o) \/ Acquire(p, o)
  \/ \E p \in Places : Release(p)
  \/ \E o \in Objs : Add(o) \/ Remove(o)

Spec == Init /\ [][Next]_<<var, life, cached>>
=============================================================================
