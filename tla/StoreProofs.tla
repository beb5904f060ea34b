---------------------------- MODULE StoreProofs ----------------------------
(***************************************************************************)
(* Proofs about module Store, for any number of threads, variables,        *)
(* objects and keys, and any sizes.  The callers' discipline (SerialClear) *)
(* is a hypothesis of the theorems: a removal beside a scan could unlink   *)
(* and free the item that the scan has pinned.                             *)
(***************************************************************************)
EXTENDS Store, ListLemmas, FiniteSetTheorems

-----------------------------------------------------------------------------
(* The inductive invariant.                                                *)

StorePcs == {"insert", "check", "scan", "saved", "freeing", "link", "unref"}
OtherPcs == {"idle", "empty", "phase", "scav", "scavenged", "freeing"}

\* Where a thread may be in each call, and what its locals then hold.
CallOK(t) ==
  /\ th[t].pc = "idle" => th[t] = Idle
  /\ th[t].op = "store" <=> th[t].obj # None
  /\ th[t].pc \in IF th[t].op = "store" THEN StorePcs ELSE OtherPcs
  /\ th[t].pc = "insert" => /\ th[t].slot \in Slots
                            /\ var[<<t, th[t].slot>>] = None
  /\ th[t].pc = "empty" => th[t].op = "empty"
  /\ th[t].pin # None => /\ th[t].pc = "freeing" /\ th[t].op = "store"
                         /\ th[t].pin \in Linked

CallsOK == \A t \in Threads : CallOK(t)

\* Nobody else is in the store while it is emptied.
AloneOK ==
  \A t, u \in Threads : th[t].op = "empty" /\ u # t => th[u].pc = "idle"

\* The object of a call of fz_store_item belongs to that call alone, and its
\* thread keeps a reference to it.
OwnerOK ==
  \A t \in Threads : th[t].obj # None =>
    /\ \E s \in Slots : var[<<t, s>>] = th[t].obj
    /\ \A u \in Threads : th[u].obj = th[t].obj => u = t

\* Where that object is before it is linked.
PlaceOK ==
  \A t \in Threads :
    /\ th[t].pc \in {"insert", "unref"} => th[t].obj \notin Linked
    /\ th[t].op = "store" /\ ~Hashable(th[t].obj) => th[t].obj \notin Linked
    /\ th[t].op = "store" /\ th[t].pc \notin {"insert", "unref"}
       /\ Hashable(th[t].obj)
         => hash[KeyOf[th[t].obj]] = th[t].obj

\* Which items are allocated.
ItemOK ==
  /\ \A o \in Linked : item[o] = "alloc"
  /\ \A t \in Threads : th[t].obj # None =>
       item[th[t].obj] = IF th[t].pc = "unref" THEN "freed" ELSE "alloc"

LifeOK == \A o \in Objs : life[o] = "live" <=> refs[o] > 0

IInv ==
  /\ TypeOK /\ NoRepeat(lru)
  /\ CallsOK /\ AloneOK /\ OwnerOK /\ PlaceOK
  /\ HashMatchesList /\ ItemOK /\ LifeOK /\ RefsExact

-----------------------------------------------------------------------------
(* Counting references.                                                    *)

LEMMA PlacesFinite == IsFiniteSet(Places)
BY FS_Product, StoreAssumption DEF Places

\* The number of variables and of pins that refer to an object is a number,
\* and positive when there is one.
LEMMA CountsType ==
  ASSUME NEW o
  PROVE  /\ IsFiniteSet(Holders(o)) /\ IsFiniteSet(Pins(o))
         /\ Cardinality(Holders(o)) \in Nat /\ Cardinality(Pins(o)) \in Nat
         /\ \A p \in Places : var[p] = o => Cardinality(Holders(o)) > 0
         /\ \A t \in Threads : th[t].pin = o => Cardinality(Pins(o)) > 0
<1>1. IsFiniteSet(Holders(o))
  BY PlacesFinite, FS_Subset DEF Holders
<1>2. IsFiniteSet(Pins(o))
  BY StoreAssumption, FS_Subset DEF Pins
<1>3. Cardinality(Holders(o)) \in Nat /\ Cardinality(Pins(o)) \in Nat
  BY <1>1, <1>2, FS_CardinalityType
<1>4. Holders(o) # {} => Cardinality(Holders(o)) # 0
  BY <1>1, FS_EmptySet
<1>5. Pins(o) # {} => Cardinality(Pins(o)) # 0
  BY <1>2, FS_EmptySet
<1>6. \A p \in Places : var[p] = o => Holders(o) # {}
  BY DEF Holders
<1>7. \A t \in Threads : th[t].pin = o => Pins(o) # {}
  BY DEF Pins
<1>. QED
  BY <1>1, <1>2, <1>3, <1>4, <1>5, <1>6, <1>7

\* An empty variable takes a reference to o.
LEMMA HoldersPlus ==
  ASSUME TypeOK, NEW p \in Places, NEW o \in Objs, var[p] = None,
         var' = [var EXCEPT ![p] = o]
  PROVE  \A x \in Objs :
           Cardinality(Holders(x)') =
             Cardinality(Holders(x)) + (IF x = o THEN 1 ELSE 0)
<1>1. o # None
  BY StoreAssumption
<1>2. Holders(o)' = Holders(o) \cup {p} /\ p \notin Holders(o)
  BY <1>1 DEF Holders, TypeOK
<1>3. \A x \in Objs : x # o => Holders(x)' = Holders(x)
  BY StoreAssumption DEF Holders, TypeOK
<1>4. Cardinality(Holders(o) \cup {p}) = Cardinality(Holders(o)) + 1
  BY <1>2, CountsType, FS_AddElement
<1>5. \A x \in Objs : Cardinality(Holders(x)) \in Nat
  BY CountsType
<1>6. Cardinality(Holders(o)') = Cardinality(Holders(o)) + 1
  BY <1>2, <1>4
<1>7. ASSUME NEW x \in Objs, x # o
      PROVE  Cardinality(Holders(x)') = Cardinality(Holders(x))
  BY <1>3, <1>7
<1>8. SUFFICES ASSUME NEW x \in Objs
               PROVE  Cardinality(Holders(x)') =
                        Cardinality(Holders(x)) + (IF x = o THEN 1 ELSE 0)
  OBVIOUS
<1>9. CASE x = o
  BY <1>5, <1>6, <1>9
<1>10. CASE x # o
  BY <1>5, <1>7, <1>10
<1>. QED
  BY <1>9, <1>10

\* A variable gives its reference back.
LEMMA HoldersMinus ==
  ASSUME TypeOK, NEW p \in Places, NEW o \in Objs, var[p] = o,
         var' = [var EXCEPT ![p] = None]
  PROVE  \A x \in Objs :
           Cardinality(Holders(x)') =
             Cardinality(Holders(x)) - (IF x = o THEN 1 ELSE 0)
<1>1. o # None
  BY StoreAssumption
<1>2. Holders(o)' = Holders(o) \ {p} /\ p \in Holders(o)
  BY <1>1 DEF Holders, TypeOK
<1>3. \A x \in Objs : x # o => Holders(x)' = Holders(x)
  BY StoreAssumption DEF Holders, TypeOK
<1>4. Cardinality(Holders(o) \ {p}) = Cardinality(Holders(o)) - 1
  BY <1>2, CountsType, FS_RemoveElement
<1>5. \A x \in Objs : Cardinality(Holders(x)) \in Nat
  BY CountsType
<1>6. Cardinality(Holders(o)') = Cardinality(Holders(o)) - 1
  BY <1>2, <1>4
<1>7. ASSUME NEW x \in Objs, x # o
      PROVE  Cardinality(Holders(x)') = Cardinality(Holders(x))
  BY <1>3, <1>7
<1>8. SUFFICES ASSUME NEW x \in Objs
               PROVE  Cardinality(Holders(x)') =
                        Cardinality(Holders(x)) - (IF x = o THEN 1 ELSE 0)
  OBVIOUS
<1>9. CASE x = o
  BY <1>5, <1>6, <1>9
<1>10. CASE x # o
  BY <1>5, <1>7, <1>10
<1>. QED
  BY <1>9, <1>10

LEMMA HoldersSame ==
  ASSUME var' = var
  PROVE  \A x : Holders(x)' = Holders(x)
BY DEF Holders

LEMMA PinsSame ==
  ASSUME \A u \in Threads : th'[u].pin = th[u].pin
  PROVE  \A x : Pins(x)' = Pins(x)
BY DEF Pins

LEMMA PinsPlus ==
  ASSUME NEW t \in Threads, th[t].pin = None, NEW o \in Objs, th'[t].pin = o,
         \A u \in Threads : u # t => th'[u].pin = th[u].pin
  PROVE  \A x \in Objs :
           Cardinality(Pins(x)') =
             Cardinality(Pins(x)) + (IF x = o THEN 1 ELSE 0)
<1>1. o # None
  BY StoreAssumption
<1>2. Pins(o)' = Pins(o) \cup {t} /\ t \notin Pins(o)
  BY <1>1 DEF Pins
<1>3. \A x \in Objs : x # o => Pins(x)' = Pins(x)
  BY StoreAssumption DEF Pins
<1>4. Cardinality(Pins(o) \cup {t}) = Cardinality(Pins(o)) + 1
  BY <1>2, CountsType, FS_AddElement
<1>5. \A x \in Objs : Cardinality(Pins(x)) \in Nat
  BY CountsType
<1>6. Cardinality(Pins(o)') = Cardinality(Pins(o)) + 1
  BY <1>2, <1>4
<1>7. ASSUME NEW x \in Objs, x # o
      PROVE  Cardinality(Pins(x)') = Cardinality(Pins(x))
  BY <1>3, <1>7
<1>8. SUFFICES ASSUME NEW x \in Objs
               PROVE  Cardinality(Pins(x)') =
                        Cardinality(Pins(x)) + (IF x = o THEN 1 ELSE 0)
  OBVIOUS
<1>9. CASE x = o
  BY <1>5, <1>6, <1>9
<1>10. CASE x # o
  BY <1>5, <1>7, <1>10
<1>. QED
  BY <1>9, <1>10

LEMMA PinsMinus ==
  ASSUME NEW t \in Threads, NEW o \in Objs, th[t].pin = o, th'[t].pin = None,
         \A u \in Threads : u # t => th'[u].pin = th[u].pin
  PROVE  \A x \in Objs :
           Cardinality(Pins(x)') =
             Cardinality(Pins(x)) - (IF x = o THEN 1 ELSE 0)
<1>1. o # None
  BY StoreAssumption
<1>2. Pins(o)' = Pins(o) \ {t} /\ t \in Pins(o)
  BY <1>1 DEF Pins
<1>3. \A x \in Objs : x # o => Pins(x)' = Pins(x)
  BY StoreAssumption DEF Pins
<1>4. Cardinality(Pins(o) \ {t}) = Cardinality(Pins(o)) - 1
  BY <1>2, CountsType, FS_RemoveElement
<1>5. \A x \in Objs : Cardinality(Pins(x)) \in Nat
  BY CountsType
<1>6. Cardinality(Pins(o)') = Cardinality(Pins(o)) - 1
  BY <1>2, <1>4
<1>7. ASSUME NEW x \in Objs, x # o
      PROVE  Cardinality(Pins(x)') = Cardinality(Pins(x))
  BY <1>3, <1>7
<1>8. SUFFICES ASSUME NEW x \in Objs
               PROVE  Cardinality(Pins(x)') =
                        Cardinality(Pins(x)) - (IF x = o THEN 1 ELSE 0)
  OBVIOUS
<1>9. CASE x = o
  BY <1>5, <1>6, <1>9
<1>10. CASE x # o
  BY <1>5, <1>7, <1>10
<1>. QED
  BY <1>9, <1>10

-----------------------------------------------------------------------------
(* The list, and what the code finds in it.                                *)

LEMMA PositionOK ==
  ASSUME TypeOK, NEW o \in Linked
  PROVE  Position(o) \in 1..Len(lru) /\ lru[Position(o)] = o
<1>1. lru \in Seq(Objs) /\ DOMAIN lru = 1..Len(lru)
  BY DEF TypeOK
<1>2. \E i \in DOMAIN lru : lru[i] = o
  BY DEF Linked, Range
<1>. QED
  BY <1>1, <1>2 DEF Position

LEMMA UnlinkOK ==
  ASSUME TypeOK, NoRepeat(lru), NEW o \in Objs
  PROVE  /\ Unlink(o) \in Seq(Objs) /\ NoRepeat(Unlink(o))
         /\ Range(Unlink(o)) = Linked \ {o}
<1>1. lru \in Seq(Objs)
  BY DEF TypeOK
<1>2. CASE o \in Linked
  <2>1. Position(o) \in 1..Len(lru) /\ lru[Position(o)] = o
    BY <1>2, PositionOK
  <2>2. Unlink(o) = RemoveAt(lru, Position(o))
    BY <1>2 DEF Unlink
  <2>. QED
    BY <1>1, <2>1, <2>2, RemoveAtElements, RemoveAtRange DEF Linked
<1>3. CASE o \notin Linked
  BY <1>1, <1>3 DEF Unlink, Linked
<1>. QED
  BY <1>2, <1>3

LEMMA TouchOK ==
  ASSUME TypeOK, NoRepeat(lru), NEW o \in Objs
  PROVE  /\ Touch(o) \in Seq(Objs) /\ NoRepeat(Touch(o))
         /\ Range(Touch(o)) = Linked \cup {o}
<1>1. /\ Unlink(o) \in Seq(Objs) /\ NoRepeat(Unlink(o))
      /\ Range(Unlink(o)) = Linked \ {o}
  BY UnlinkOK
<1>2. Touch(o) = <<o>> \o Unlink(o)
  BY DEF Touch
<1>3. o \notin Range(Unlink(o))
  BY <1>1
<1>4. Range(<<o>> \o Unlink(o)) = Range(Unlink(o)) \cup {o}
  BY <1>1, <1>3, ConsRange
<1>. QED
  BY <1>1, <1>2, <1>3, <1>4, ConsRange

LEMMA LinkedObjs ==
  ASSUME TypeOK
  PROVE  Linked \subseteq Objs
BY DEF TypeOK, Linked, Range

\* A victim is a place in the list, and its object has no other reference.
LEMMA VictimOK ==
  ASSUME TypeOK, NEW o, VictimFrom(o) # 0
  PROVE  /\ o \in Linked
         /\ VictimFrom(o) \in 1..Len(lru)
         /\ Evictable(lru[VictimFrom(o)])
<1>1. o \in Linked
  BY DEF VictimFrom
<1>. DEFINE at == {i \in 1..Position(o) : Evictable(lru[i])}
<1>2. Position(o) \in 1..Len(lru) /\ Len(lru) \in Nat
  BY <1>1, PositionOK DEF TypeOK
<1>3. at # {} /\ VictimFrom(o) = CHOOSE i \in at : \A j \in at : j <= i
  BY <1>1 DEF VictimFrom
<1>4. at \in SUBSET (1..Position(o)) /\ Position(o) \in Nat
  BY <1>2
<1>. HIDE DEF at
<1>5. \E i \in at : \A j \in at : j <= i
  BY <1>3, <1>4, GreatestExists
<1>6. VictimFrom(o) \in at
  BY <1>3, <1>5
<1>. QED
  BY <1>1, <1>2, <1>6 DEF at

\* What a key finds is in the store, and not about to leave it.
LEMMA FoundOK ==
  ASSUME TypeOK, HashMatchesList, NEW k, Found(k) # None
  PROVE  /\ Found(k) \in Objs /\ Cached(Found(k))
         /\ Found(k) \in Linked \/ Hashable(Found(k))
<1>1. CASE k \in HashKeys
  BY <1>1 DEF Found, HashMatchesList, TypeOK, Hashable
<1>2. CASE k \notin HashKeys
  <2>. DEFINE at == {i \in DOMAIN lru : KeyOf[lru[i]] = k}
  <2>1. at # {} /\ Found(k) = lru[CHOOSE i \in at : \A j \in at : i <= j]
    BY <1>2 DEF Found
  <2>2. at \in SUBSET Nat /\ at \subseteq DOMAIN lru
    BY DEF TypeOK
  <2>. HIDE DEF at
  <2>3. \E i \in at : \A j \in at : i <= j
    BY <2>1, <2>2, LeastExists
  <2>4. PICK i \in DOMAIN lru : Found(k) = lru[i]
    BY <2>1, <2>2, <2>3
  <2>5. Found(k) \in Linked
    BY <2>4 DEF Linked, Range
  <2>. QED
    BY <2>5, LinkedObjs DEF Cached
<1>. QED
  BY <1>1, <1>2

-----------------------------------------------------------------------------
(* Steps that change nothing but the lock, the size and the locals of the  *)
(* thread that takes them.                                                 *)

QuietPcs == {"check", "scan", "saved", "link"}

LEMMA QuietStep ==
  ASSUME IInv, NEW t \in Threads,
         UNCHANGED <<lru, hash, size, refs, life, item, var>>,
         lock' \in Threads \cup {None},
         th' \in [Threads -> Frame],
         \A u \in Threads : u # t => th'[u] = th[u],
         th[t].pin = None, th'[t].pin = None, th'[t].obj = th[t].obj,
         th'[t].op = "store" <=> th[t].op = "store",
         th'[t].op = "store" => th[t].pc \in QuietPcs /\ th'[t].pc \in QuietPcs,
         th'[t].op # "store" => th'[t].pc \in OtherPcs,
         th'[t].pc = "idle" => th'[t] = Idle,
         th'[t].pc = "empty" => th'[t].op = "empty",
         \A u \in Threads : u # t =>
           /\ th[u].op = "empty" => th'[t].pc = "idle"
           /\ th'[t].op = "empty" => th[u].pc = "idle"
  PROVE  IInv'
<1>1. /\ TypeOK /\ NoRepeat(lru) /\ CallsOK /\ AloneOK /\ OwnerOK /\ PlaceOK
      /\ HashMatchesList /\ ItemOK /\ LifeOK /\ RefsExact
  BY DEF IInv
<1>2. TypeOK'
  BY <1>1 DEF TypeOK
<1>3. th[t].op = "store" <=> th[t].obj # None
  BY <1>1 DEF CallsOK, CallOK
<1>4. \A u \in Threads : th'[u].pin = th[u].pin /\ th'[u].obj = th[u].obj
  OBVIOUS
<1>5. Linked' = Linked
  BY DEF Linked
<1>6. CallsOK'
  BY <1>1, <1>3, <1>4, <1>5 DEF CallsOK, CallOK, QuietPcs, StorePcs, OtherPcs
<1>7. AloneOK'
  BY <1>1, <1>4 DEF AloneOK
<1>8. OwnerOK'
  BY <1>1, <1>4 DEF OwnerOK
<1>9. \A u \in Threads, o \in Objs :
        /\ Storing(u, o)' <=> Storing(u, o)
        /\ th'[u].pc = "unref" /\ th'[u].obj = o
             <=> th[u].pc = "unref" /\ th[u].obj = o
        /\ th'[u].pc = "insert" /\ th'[u].obj = o
             <=> th[u].pc = "insert" /\ th[u].obj = o
  BY <1>1, <1>3, <1>4, StoreAssumption
     DEF Storing, CallsOK, CallOK, QuietPcs, StorePcs, OtherPcs
<1>10. PlaceOK'
  BY <1>1, <1>3, <1>4, <1>5
     DEF PlaceOK, Hashable, QuietPcs, OtherPcs
<1>11. \A o \in Objs : (InStore(o)' <=> InStore(o)) /\ (Cached(o)' <=> Cached(o))
  BY <1>5, <1>9 DEF InStore, Cached, Storing
<1>12. HashMatchesList'
  BY <1>1, <1>5, <1>11 DEF HashMatchesList, Hashable, TypeOK
<1>13. ItemOK'
  BY <1>1, <1>3, <1>4, <1>5 DEF ItemOK, QuietPcs, OtherPcs
<1>14. LifeOK' /\ NoRepeat(lru)'
  BY <1>1 DEF LifeOK, NoRepeat
<1>15. RefsExact'
  <2>1. \A x : Holders(x)' = Holders(x)
    BY HoldersSame
  <2>2. \A x : Pins(x)' = Pins(x)
    BY <1>4, PinsSame
  <2>. QED
    BY <1>1, <1>11, <2>1, <2>2 DEF RefsExact
<1>. QED
  BY <1>2, <1>6, <1>7, <1>8, <1>10, <1>12, <1>13, <1>14, <1>15 DEF IInv

-----------------------------------------------------------------------------
(* The phases of the scavenging allocator.                                 *)

LEMMA PhaseMaxType ==
  ASSUME TypeOK, NEW ph \in Nat
  PROVE  PhaseMax(ph) \in Int
<1>1. StoreMax \in Nat /\ size \in Int
  BY StoreAssumption DEF TypeOK
<1>2. CASE ph >= 16
  BY <1>2 DEF PhaseMax
<1>3. CASE ph < 16
  <2>1. 16 - ph \in Nat /\ 16 - ph > 0
    BY <1>3
  <2>2. StoreMax \div 16 \in Int /\ size \div (16 - ph) \in Int
    BY <1>1, <2>1
  <2>3. (StoreMax \div 16) * (16 - ph) \in Int
    BY <2>1, <2>2
  <2>4. (size \div (16 - ph)) * (15 - ph) \in Int
    BY <2>1, <2>2
  <2>. QED
    BY <1>3, <2>3, <2>4 DEF PhaseMax
<1>. QED
  BY <1>2, <1>3

LEMMA NextPhaseType ==
  ASSUME TypeOK, NEW n \in Int, NEW ph \in Nat
  PROVE  NextPhase(n, ph) \in Nat
<1>. DEFINE P(q) == Scavenges(n, q) \/ PhaseMax(q) = 0
            S == {q \in ph..(ph + 16) : P(q)}
<1>1. PhaseMax(ph + 16) = 0
  BY DEF PhaseMax
<1>2. S \in SUBSET Nat /\ S # {}
  <2>1. ph + 16 \in S
    BY <1>1
  <2>. QED
    BY <2>1
<1>3. PICK m \in S : \A x \in S : m <= x
  BY <1>2, LeastExists
<1>4. m \in ph..(ph + 16) /\ P(m)
  OBVIOUS
<1>5. \A r \in ph..(m - 1) : r \in ph..(ph + 16) /\ r \notin S
  BY <1>3, <1>4
<1>6. \A r \in ph..(m - 1) : ~P(r)
  BY <1>5
<1>. HIDE DEF P, S
<1>7. NextPhase(n, ph) = CHOOSE q \in ph..(ph + 16) :
                           P(q) /\ \A r \in ph..(q - 1) : ~P(r)
  BY DEF NextPhase, P
<1>8. NextPhase(n, ph) \in ph..(ph + 16)
  BY <1>4, <1>6, <1>7
<1>. QED
  BY <1>8

LEMMA ToFreeType ==
  ASSUME TypeOK, NEW n \in Int, NEW ph \in Nat
  PROVE  ToFree(n, ph) \in Nat
<1>1. PhaseMax(ph) \in Int /\ size \in Int /\ UIntMax \in Nat
  BY PhaseMaxType, StoreAssumption DEF TypeOK
<1>2. (IF n > UIntMax - size THEN UIntMax - PhaseMax(ph)
       ELSE n + size - PhaseMax(ph)) \in Int
  BY <1>1
<1>3. \A x \in Int : x % (UIntMax + 1) \in Nat
  BY <1>1
<1>. QED
  BY <1>2, <1>3 DEF ToFree

-----------------------------------------------------------------------------
(* The steps that QuietStep covers.                                        *)

LEMMA LastLinked ==
  ASSUME TypeOK, lru # <<>>
  PROVE  lru[Len(lru)] \in Objs /\ lru[1] \in Objs /\ lru[1] \in Linked
BY DEF TypeOK, Linked, Range

LEMMA QuietStoreActions ==
  ASSUME IInv, NEW t \in Threads,
         \/ Fits(t) \/ EnsureSpace(t) \/ EnsureDone(t) \/ Saved(t)
         \/ OverBudget(t)
  PROVE  IInv'
<1>. USE DEF Goto
<1>1. /\ th \in [Threads -> Frame] /\ th[t] \in Frame /\ TypeOK
      /\ lock \in Threads \cup {None} /\ size \in Int
  BY DEF IInv, TypeOK
<1>2. /\ \A u \in Threads : u # t /\ th[u].op = "empty" => th[t].pc = "idle"
      /\ th[t].pc \in {"check", "scan", "saved"} =>
           th[t].op = "store" /\ th[t].pin = None
  BY DEF IInv, CallsOK, CallOK, AloneOK, OtherPcs
<1>3. CASE Fits(t)
  BY <1>1, <1>2, <1>3, QuietStep DEF Fits, Frame, QuietPcs
<1>4. CASE EnsureSpace(t)
  <2>1. /\ th[t].need - StoreMax \in Int
        /\ lru # <<>> => lru[Len(lru)] \in Objs
    BY <1>1, LastLinked, StoreAssumption DEF Frame
  <2>2. th' \in [Threads -> Frame]
    <3>1. CASE th' = [th EXCEPT ![t].pc = "saved", ![t].count = 0]
      BY <1>1, <3>1 DEF Frame
    <3>2. CASE /\ lru # <<>> /\ th[t].need - StoreMax > 0
               /\ th' = [th EXCEPT ![t].pc = "scan",
                                   ![t].tofree = th[t].need - StoreMax,
                                   ![t].count = 0, ![t].cur = lru[Len(lru)]]
      <4>1. th[t].need - StoreMax \in Nat /\ lru[Len(lru)] \in Objs
        BY <2>1, <3>2
      <4>. QED
        BY <1>1, <3>2, <4>1 DEF Frame
    <3>. QED
      BY <1>4, <3>1, <3>2 DEF EnsureSpace
  <2>3. /\ th[t].pc = "check" /\ th'[t].pc \in {"scan", "saved"}
        /\ th'[t].op = th[t].op /\ th'[t].obj = th[t].obj
        /\ th'[t].pin = th[t].pin
        /\ \A u \in Threads : u # t => th'[u] = th[u]
        /\ UNCHANGED <<lock, lru, hash, size, refs, life, item, var>>
    BY <1>1, <1>4 DEF EnsureSpace, Frame
  <2>. QED
    BY <1>1, <1>2, <2>2, <2>3, QuietStep DEF QuietPcs
<1>5. CASE EnsureDone(t)
  BY <1>1, <1>2, <1>5, QuietStep DEF EnsureDone, Frame, QuietPcs
<1>6. CASE Saved(t)
  BY <1>1, <1>2, <1>6, QuietStep DEF Saved, Frame, QuietPcs
<1>7. CASE OverBudget(t)
  BY <1>1, <1>2, <1>7, QuietStep DEF OverBudget, Frame, QuietPcs
<1>. QED
  BY <1>3, <1>4, <1>5, <1>6, <1>7

LEMMA QuietOtherActions ==
  ASSUME IInv, SerialClear, NEW t \in Threads,
         \/ EmptyBegin(t) \/ EmptyDone(t)
         \/ \E n \in Requests : MallocBegin(t, n)
         \/ \E percent \in Percents : ShrinkBegin(t, percent)
         \/ PhaseScavenge(t) \/ MallocFails(t) \/ Relock(t)
         \/ ScavEnd(t) \/ ScavReturn(t) \/ ScavRetry(t) \/ ScavFails(t)
  PROVE  IInv'
<1>. USE DEF Goto, Return, IsIdle, OtherPcs
<1>1. /\ th \in [Threads -> Frame] /\ th[t] \in Frame /\ TypeOK
      /\ lock \in Threads \cup {None} /\ size \in Int
  BY DEF IInv, TypeOK
<1>0. None \notin Objs /\ Idle \in Frame
  BY StoreAssumption DEF Idle, Frame
<1>2. /\ \A u \in Threads : u # t /\ th[u].op = "empty" => th[t].pc = "idle"
      /\ \A u \in Threads : u # t /\ th[t].op = "empty" => th[u].pc = "idle"
      /\ th[t].pc \in {"idle", "empty", "phase", "scav", "scavenged"} =>
           th[t].op # "store"
      /\ th[t].pc = "idle" => th[t] = Idle
      /\ th[t].op # "store" => th[t].pin = None /\ th[t].obj = None
      /\ th[t].pc = "empty" => th[t].op = "empty"
  BY DEF IInv, CallsOK, CallOK, AloneOK, StorePcs
<1>3. CASE EmptyBegin(t)
  <2>. DEFINE f == [Idle EXCEPT !.pc = "empty", !.op = "empty"]
  <2>1. /\ f \in Frame /\ f.pc = "empty" /\ f.op = "empty"
        /\ f.obj = None /\ f.pin = None
    BY <1>0 DEF Frame, Idle
  <2>2. /\ th' = [th EXCEPT ![t] = f] /\ lock' = t
        /\ UNCHANGED <<lru, hash, size, refs, life, item, var>>
        /\ \A u \in Threads : th[u].pc = "idle"
    BY <1>3 DEF EmptyBegin, MayClear
  <2>. HIDE DEF f
  <2>3. /\ th' \in [Threads -> Frame] /\ th'[t] = f
        /\ \A u \in Threads : u # t => th'[u] = th[u]
    BY <1>0, <1>1, <2>1, <2>2
  <2>4. \A u \in Threads : th[u] = Idle /\ Idle.op # "empty"
    BY <2>2 DEF IInv, CallsOK, CallOK, Idle
  <2>. QED
    BY <1>0, <1>1, <1>2, <2>1, <2>2, <2>3, <2>4, QuietStep
<1>4. CASE EmptyDone(t)
  BY <1>0, <1>1, <1>2, <1>4, QuietStep DEF EmptyDone, Idle
<1>5. CASE \E n \in Requests : MallocBegin(t, n)
  <2>0. PICK n \in Requests : MallocBegin(t, n)
    BY <1>5
  <2>5. n \in Int
    BY StoreAssumption
  <2>. DEFINE f == [Idle EXCEPT !.pc = "phase", !.op = "malloc", !.need = n]
  <2>1. /\ f \in Frame /\ f.pc \in {"phase", "scav"}
        /\ f.op \in {"malloc", "shrink"} /\ f.obj = None /\ f.pin = None
    BY <1>0, <1>1, <2>5 DEF Frame, Idle
  <2>2. /\ th' = [th EXCEPT ![t] = f] /\ lock' = t
        /\ UNCHANGED <<lru, hash, size, refs, life, item, var>>
        /\ th[t].pc = "idle" /\ \A u \in Threads : th[u].op # "empty"
    BY <2>0 DEF MallocBegin, MayStart
  <2>. HIDE DEF f
  <2>3. /\ th' \in [Threads -> Frame] /\ th'[t] = f
        /\ \A u \in Threads : u # t => th'[u] = th[u]
    BY <1>0, <1>1, <2>1, <2>2
  <2>. QED
    BY <1>0, <1>1, <1>2, <2>1, <2>2, <2>3, QuietStep
<1>6. CASE \E percent \in Percents : ShrinkBegin(t, percent)
  <2>0. PICK percent \in Percents : ShrinkBegin(t, percent)
    BY <1>6
  <2>. DEFINE new == (size * percent) \div 100
  <2>4. percent \in Int
    BY StoreAssumption
  <2>5. new \in Int
    <3>1. size * percent \in Int
      BY <1>1, <2>4
    <3>. QED
      BY <3>1
  <2>6. size > new
    BY <2>0, Zenon DEF ShrinkBegin
  <2>. HIDE DEF new
  <2>7. size - new \in Nat
    BY <1>1, <2>5, <2>6
  <2>. DEFINE f == [Idle EXCEPT !.pc = "scav", !.op = "shrink",
                            !.tofree = size - new]
  <2>1. /\ f \in Frame /\ f.pc \in {"phase", "scav"}
        /\ f.op \in {"malloc", "shrink"} /\ f.obj = None /\ f.pin = None
    BY <1>0, <1>1, <2>7 DEF Frame, Idle
  <2>2. /\ th' = [th EXCEPT ![t] = f] /\ lock' = t
        /\ UNCHANGED <<lru, hash, size, refs, life, item, var>>
        /\ th[t].pc = "idle" /\ \A u \in Threads : th[u].op # "empty"
    BY <2>0 DEF ShrinkBegin, new, MayStart
  <2>. HIDE DEF f
  <2>3. /\ th' \in [Threads -> Frame] /\ th'[t] = f
        /\ \A u \in Threads : u # t => th'[u] = th[u]
    BY <1>0, <1>1, <2>1, <2>2
  <2>. QED
    BY <1>0, <1>1, <1>2, <2>1, <2>2, <2>3, QuietStep
<1>7. CASE PhaseScavenge(t)
  <2>. DEFINE q == NextPhase(th[t].need, th[t].phase)
  <2>1. th[t].need \in Int /\ th[t].phase \in Nat
    BY <1>1 DEF Frame
  <2>2. q \in Nat /\ ToFree(th[t].need, q) \in Nat
    BY <1>0, <1>1, <2>1, NextPhaseType, ToFreeType
  <2>3. th' \in [Threads -> Frame]
    <3>1. th' = [th EXCEPT ![t].pc = "scav", ![t].count = 0,
                           ![t].phase = q + 1,
                           ![t].tofree = ToFree(th[t].need, q)]
      BY <1>7 DEF PhaseScavenge
    <3>. HIDE DEF q
    <3>2. q + 1 \in Nat
      BY <2>2
    <3>. QED
      BY <1>0, <1>1, <2>2, <3>1, <3>2 DEF Frame
  <2>. QED
    <3>1. /\ th[t].pc = "phase" /\ th'[t].pc = "scav"
          /\ th'[t].op = th[t].op /\ th'[t].obj = th[t].obj
          /\ th'[t].pin = th[t].pin
          /\ \A u \in Threads : u # t => th'[u] = th[u]
          /\ UNCHANGED <<lock, lru, hash, size, refs, life, item, var>>
      BY <1>1, <1>7 DEF PhaseScavenge, Frame
    <3>. QED
      BY <1>1, <1>2, <2>3, <3>1, QuietStep
<1>8. CASE MallocFails(t)
  BY <1>0, <1>1, <1>2, <1>8, QuietStep DEF MallocFails, Idle
<1>9. CASE Relock(t)
  <2>1. th' \in [Threads -> Frame]
    BY <1>0, <1>1, <1>9 DEF Relock, Frame
  <2>. QED
    BY <1>0, <1>1, <1>2, <1>9, <2>1, QuietStep DEF Relock, Frame
<1>10. CASE ScavEnd(t)
  BY <1>0, <1>1, <1>2, <1>10, QuietStep DEF ScavEnd, Frame
<1>11. CASE ScavReturn(t)
  BY <1>0, <1>1, <1>2, <1>11, QuietStep DEF ScavReturn, Idle
<1>12. CASE ScavRetry(t)
  BY <1>0, <1>1, <1>2, <1>12, QuietStep DEF ScavRetry, Frame
<1>13. CASE ScavFails(t)
  BY <1>0, <1>1, <1>2, <1>13, QuietStep DEF ScavFails, Idle
<1>. QED
  BY <1>3, <1>4, <1>5, <1>6, <1>7, <1>8, <1>9, <1>10, <1>11, <1>12, <1>13

-----------------------------------------------------------------------------
(* Steps of an idle thread that take or drop a reference.                  *)

\* An object in the store has a reference from it, and the object of a call
\* one more from the thread that makes it.
LEMMA CountsOK ==
  ASSUME IInv, NEW o \in Objs
  PROVE  /\ refs[o] \in Nat
         /\ InStore(o) => refs[o] > 0
         /\ \A p \in Places : var[p] = o => refs[o] > 0
         /\ \A p \in Places : var[p] = o /\ InStore(o) => refs[o] > 1
         /\ \A t \in Threads : th[t].pin = o => refs[o] > 0
         /\ \A t \in Threads : th[t].pin = o /\ InStore(o) => refs[o] > 1
<1>1. refs[o] = Cardinality(Holders(o)) + Cardinality(Pins(o))
                + (IF InStore(o) THEN 1 ELSE 0)
  BY DEF IInv, RefsExact
<1>2. refs[o] \in Nat
  BY DEF IInv, TypeOK
<1>3. CASE InStore(o)
  BY <1>1, <1>2, <1>3, CountsType
<1>4. CASE ~InStore(o)
  BY <1>1, <1>2, <1>4, CountsType
<1>. QED
  BY <1>2, <1>3, <1>4

LEMMA IdleFacts ==
  ASSUME IInv, NEW t \in Threads, th[t].pc = "idle"
  PROVE  /\ th[t] = Idle
         /\ th[t].obj = None /\ th[t].pin = None /\ th[t].op = "none"
<1>1. th[t] = Idle
  BY DEF IInv, CallsOK, CallOK
<1>. QED
  BY <1>1 DEF Idle

LEMMA AcquireStep ==
  ASSUME IInv, NEW t \in Threads, NEW s \in Slots, NEW o \in Objs,
         th[t].pc = "idle", var[<<t, s>>] = None,
         var' = [var EXCEPT ![<<t, s>>] = o],
         refs' = [refs EXCEPT ![o] = refs[o] + 1],
         life' \in [Objs -> {"unborn", "live", "dropped"}], life'[o] = "live",
         \A x \in Objs : x # o => life'[x] = life[x],
         UNCHANGED <<lock, hash, size, item, th>>,
         lru' \in Seq(Objs), NoRepeat(lru'),
         \/ Linked' = Linked
         \/ Linked' = Linked \cup {o} /\ Cached(o) /\ (o \in Linked \/ Hashable(o))
  PROVE  IInv'
<1>1. /\ TypeOK /\ NoRepeat(lru) /\ CallsOK /\ AloneOK /\ OwnerOK /\ PlaceOK
      /\ HashMatchesList /\ ItemOK /\ LifeOK /\ RefsExact
  BY DEF IInv
<1>2. <<t, s>> \in Places
  BY DEF Places
<1>3. TypeOK'
  BY <1>1, <1>2 DEF TypeOK
<1>4. Linked \subseteq Linked' /\ Linked' \subseteq Linked \cup {o}
  OBVIOUS
<1>5. \A x \in Objs : (Cached(x)' <=> Cached(x)) /\ (InStore(x)' <=> InStore(x))
  BY DEF Cached, InStore, Storing
<1>6. CallsOK'
  <2>1. \A u \in Threads, r \in Slots :
          u # t => var'[<<u, r>>] = var[<<u, r>>]
    BY <1>1, <1>2 DEF TypeOK, Places
  <2>. QED
    BY <1>1, <1>4, <2>1 DEF CallsOK, CallOK
<1>7. AloneOK'
  BY <1>1 DEF AloneOK
<1>8. OwnerOK'
  <2>1. \A u \in Threads : th[u].obj # None => u # t
    BY IdleFacts
  <2>2. \A u \in Threads, r \in Slots :
          u # t => var'[<<u, r>>] = var[<<u, r>>]
    BY <1>1, <1>2 DEF TypeOK, Places
  <2>. QED
    BY <1>1, <2>1, <2>2 DEF OwnerOK
<1>9. PlaceOK' /\ ItemOK' /\ HashMatchesList'
  <2>1. CASE Linked' = Linked
    BY <1>1, <1>5, <2>1, LinkedObjs
       DEF PlaceOK, ItemOK, HashMatchesList, Hashable, TypeOK
  <2>2. CASE o \notin Linked /\ Linked' = Linked \cup {o} /\ Cached(o) /\ Hashable(o)
    <3>1. PICK u \in Threads : Storing(u, o) /\ th[u].pc # "unref"
      BY <2>2 DEF Cached
    <3>2. /\ th[u].obj = o /\ th[u].op = "store"
          /\ th[u].pc \notin {"insert", "unref"}
      BY <3>1 DEF Storing
    <3>3. o # None /\ \A w \in Threads : th[w].obj = o => w = u
      BY <1>1, <3>2, StoreAssumption DEF OwnerOK
    <3>4. hash[KeyOf[o]] = o /\ item[o] = "alloc"
      BY <1>1, <2>2, <3>2, <3>3 DEF PlaceOK, ItemOK
    <3>5. PlaceOK'
      BY <1>1, <2>2, <3>2, <3>3, <3>4 DEF PlaceOK, Hashable
    <3>6. ItemOK'
      BY <1>1, <2>2, <3>4 DEF ItemOK
    <3>7. HashMatchesList'
      BY <1>1, <1>5, <2>2, <3>4 DEF HashMatchesList, Hashable, TypeOK
    <3>. QED
      BY <3>5, <3>6, <3>7
  <2>3. CASE o \in Linked
    BY <2>1, <2>3
  <2>. QED
    BY <2>1, <2>2, <2>3
<1>10. LifeOK'
  BY <1>1, <1>3 DEF LifeOK, TypeOK
<1>11. RefsExact'
  <2>1. \A x \in Objs : Cardinality(Holders(x)') =
          Cardinality(Holders(x)) + (IF x = o THEN 1 ELSE 0)
    BY <1>1, <1>2, HoldersPlus
  <2>2. \A x : Pins(x)' = Pins(x)
    BY PinsSame
  <2>3. \A x \in Objs :
          /\ Cardinality(Holders(x)) \in Nat /\ Cardinality(Pins(x)) \in Nat
    BY CountsType
  <2>4. \A x \in Objs : refs'[x] = IF x = o THEN refs[x] + 1 ELSE refs[x]
    BY <1>1 DEF TypeOK
  <2>5. SUFFICES ASSUME NEW x \in Objs
                 PROVE  refs'[x] = Cardinality(Holders(x)') + Cardinality(Pins(x)')
                                   + (IF InStore(x)' THEN 1 ELSE 0)
    BY DEF RefsExact
  <2>6. refs[x] = Cardinality(Holders(x)) + Cardinality(Pins(x))
                  + (IF InStore(x) THEN 1 ELSE 0)
    BY <1>1 DEF RefsExact
  <2>. QED
    BY <1>5, <2>1, <2>2, <2>3, <2>4, <2>6
<1>. QED
  BY <1>3, <1>6, <1>7, <1>8, <1>9, <1>10, <1>11 DEF IInv, NoRepeat

LEMMA CreateInv ==
  ASSUME IInv, NEW t \in Threads, NEW s \in Slots, NEW o \in Objs,
         Create(t, s, o)
  PROVE  IInv'
<1>1. TypeOK /\ LifeOK /\ NoRepeat(lru) /\ lru \in Seq(Objs)
  BY DEF IInv, TypeOK
<1>2. refs[o] = 0
  BY <1>1, CountsOK DEF Create, LifeOK
<1>3. /\ refs' = [refs EXCEPT ![o] = refs[o] + 1] /\ life'[o] = "live"
      /\ life' \in [Objs -> {"unborn", "live", "dropped"}]
      /\ \A x \in Objs : x # o => life'[x] = life[x]
      /\ th[t].pc = "idle" /\ var[<<t, s>>] = None
      /\ var' = [var EXCEPT ![<<t, s>>] = o]
      /\ UNCHANGED <<lock, lru, hash, size, item, th>>
  BY <1>1, <1>2 DEF Create, MayStart, IsIdle, TypeOK
<1>4. Linked' = Linked /\ lru' \in Seq(Objs) /\ NoRepeat(lru')
  BY <1>1, <1>3 DEF Linked
<1>. QED
  BY <1>3, <1>4, AcquireStep

LEMMA KeepInv ==
  ASSUME IInv, NEW t \in Threads, NEW s \in Slots, NEW p \in Places,
         Keep(t, s, p)
  PROVE  IInv'
<1>. DEFINE o == var[p]
<1>1. TypeOK /\ LifeOK /\ NoRepeat(lru) /\ lru \in Seq(Objs)
  BY DEF IInv, TypeOK
<1>2. o \in Objs
  BY <1>1 DEF Keep, TypeOK
<1>3. refs[o] > 0 /\ life[o] = "live"
  BY <1>1, <1>2, CountsOK DEF LifeOK
<1>4. PICK x \in Objs : x = o
  BY <1>2
<1>5. /\ refs' = [refs EXCEPT ![x] = refs[x] + 1] /\ life'[x] = "live"
      /\ life' \in [Objs -> {"unborn", "live", "dropped"}]
      /\ \A y \in Objs : y # x => life'[y] = life[y]
      /\ th[t].pc = "idle" /\ var[<<t, s>>] = None
      /\ var' = [var EXCEPT ![<<t, s>>] = x]
      /\ UNCHANGED <<lock, lru, hash, size, item, th>>
  BY <1>1, <1>3, <1>4 DEF Keep, MayStart, IsIdle, TypeOK, Inc
<1>6. Linked' = Linked /\ lru' \in Seq(Objs) /\ NoRepeat(lru')
  BY <1>1, <1>5 DEF Linked
<1>. QED
  BY <1>5, <1>6, AcquireStep

LEMMA FindInv ==
  ASSUME IInv, NEW t \in Threads, NEW s \in Slots, NEW k \in Keys,
         Find(t, s, k)
  PROVE  IInv'
<1>1. TypeOK /\ LifeOK /\ NoRepeat(lru) /\ HashMatchesList
  BY DEF IInv
<1>2. PICK o \in Objs : /\ o = Found(k) /\ Cached(o)
                        /\ o \in Linked \/ Hashable(o)
  BY <1>1, FoundOK DEF Find
<1>3. refs[o] > 0 /\ life[o] = "live"
  BY <1>1, <1>2, CountsOK DEF LifeOK, Cached, InStore
<1>4. /\ refs' = [refs EXCEPT ![o] = refs[o] + 1] /\ life'[o] = "live"
      /\ life' \in [Objs -> {"unborn", "live", "dropped"}]
      /\ \A y \in Objs : y # o => life'[y] = life[y]
      /\ th[t].pc = "idle" /\ var[<<t, s>>] = None
      /\ var' = [var EXCEPT ![<<t, s>>] = o]
      /\ lru' = Touch(o)
      /\ UNCHANGED <<lock, hash, size, item, th>>
  BY <1>1, <1>2, <1>3 DEF Find, MayStart, IsIdle, TypeOK, Inc
<1>5. /\ Linked' = Linked \cup {o} /\ lru' \in Seq(Objs) /\ NoRepeat(lru')
  BY <1>1, <1>4, TouchOK DEF Linked
<1>. QED
  BY <1>2, <1>4, <1>5, AcquireStep

LEMMA DropInv ==
  ASSUME IInv, NEW t \in Threads, NEW s \in Slots, Drop(t, s)
  PROVE  IInv'
<1>1. /\ TypeOK /\ NoRepeat(lru) /\ CallsOK /\ AloneOK /\ OwnerOK /\ PlaceOK
      /\ HashMatchesList /\ ItemOK /\ LifeOK /\ RefsExact
  BY DEF IInv
<1>2. <<t, s>> \in Places
  BY DEF Places
<1>3. PICK o \in Objs : o = var[<<t, s>>]
  BY <1>1, <1>2 DEF Drop, TypeOK
<1>4. refs[o] \in Nat /\ refs[o] > 0 /\ (InStore(o) => refs[o] > 1)
  BY <1>2, <1>3, CountsOK
<1>5. /\ refs' = [refs EXCEPT ![o] = refs[o] - 1]
      /\ life' = IF refs[o] = 1 THEN [life EXCEPT ![o] = "dropped"] ELSE life
      /\ var' = [var EXCEPT ![<<t, s>>] = None]
      /\ th[t].pc = "idle"
      /\ UNCHANGED <<lock, lru, hash, size, item, th>>
  BY <1>3, <1>4 DEF Drop, Dec, Dropped, MayStart, IsIdle
<1>6. TypeOK'
  BY <1>1, <1>2, <1>4, <1>5 DEF TypeOK
<1>7. Linked' = Linked
  BY <1>5 DEF Linked
<1>8. \A x \in Objs : (Cached(x)' <=> Cached(x)) /\ (InStore(x)' <=> InStore(x))
  BY <1>5, <1>7 DEF Cached, InStore, Storing
<1>9. \A u \in Threads, r \in Slots :
        u # t => var'[<<u, r>>] = var[<<u, r>>]
  BY <1>1, <1>2, <1>5 DEF TypeOK, Places
<1>10. \A u \in Threads : th[u].pc = "insert" \/ th[u].obj # None => u # t
  BY <1>5, IdleFacts
<1>11. CallsOK' /\ OwnerOK'
  BY <1>1, <1>5, <1>7, <1>9, <1>10 DEF CallsOK, CallOK, OwnerOK
<1>12. AloneOK' /\ PlaceOK' /\ ItemOK' /\ HashMatchesList' /\ NoRepeat(lru)'
  BY <1>1, <1>5, <1>7, <1>8, LinkedObjs
     DEF AloneOK, PlaceOK, ItemOK, HashMatchesList, Hashable, NoRepeat, TypeOK
<1>13. LifeOK'
  BY <1>1, <1>4, <1>5 DEF LifeOK, TypeOK
<1>14. RefsExact'
  <2>1. \A x \in Objs : Cardinality(Holders(x)') =
          Cardinality(Holders(x)) - (IF x = o THEN 1 ELSE 0)
    BY <1>1, <1>2, <1>3, <1>5, HoldersMinus
  <2>2. \A x : Pins(x)' = Pins(x)
    BY <1>5, PinsSame
  <2>3. \A x \in Objs :
          /\ Cardinality(Holders(x)) \in Nat /\ Cardinality(Pins(x)) \in Nat
    BY CountsType
  <2>4. \A x \in Objs : refs'[x] = IF x = o THEN refs[x] - 1 ELSE refs[x]
    BY <1>1, <1>5 DEF TypeOK
  <2>5. SUFFICES ASSUME NEW x \in Objs
                 PROVE  refs'[x] = Cardinality(Holders(x)') + Cardinality(Pins(x)')
                                   + (IF InStore(x)' THEN 1 ELSE 0)
    BY DEF RefsExact
  <2>6. refs[x] = Cardinality(Holders(x)) + Cardinality(Pins(x))
                  + (IF InStore(x) THEN 1 ELSE 0)
    BY <1>1 DEF RefsExact
  <2>. QED
    BY <1>8, <2>1, <2>2, <2>3, <2>4, <2>6
<1>. QED
  BY <1>6, <1>11, <1>12, <1>13, <1>14 DEF IInv

-----------------------------------------------------------------------------
(* The steps of fz_store_item that evict nothing.                          *)

LEMMA RefsSame ==
  ASSUME RefsExact, refs' = refs, var' = var,
         \A u \in Threads : th'[u].pin = th[u].pin,
         \A x \in Objs : InStore(x)' <=> InStore(x)
  PROVE  RefsExact'
<1>1. \A x : Holders(x)' = Holders(x)
  BY HoldersSame
<1>2. \A x : Pins(x)' = Pins(x)
  BY PinsSame
<1>. QED
  BY <1>1, <1>2 DEF RefsExact

\* The object of a call before its reference for the store is taken is not in
\* the store at all, nor what any key finds.
LEMMA FreshOK ==
  ASSUME IInv, NEW t \in Threads, NEW o \in Objs,
         th[t].pc = "insert", th[t].obj = o
  PROVE  /\ ~InStore(o) /\ ~Cached(o) /\ o \notin Linked /\ item[o] = "alloc"
         /\ \A k \in HashKeys : hash[k] # o
<1>1. /\ o # None /\ OwnerOK /\ PlaceOK /\ ItemOK /\ HashMatchesList
  BY StoreAssumption DEF IInv
<1>2. o \notin Linked /\ item[o] = "alloc"
  BY <1>1 DEF PlaceOK, ItemOK
<1>3. \A u \in Threads : ~Storing(u, o)
  BY <1>1 DEF OwnerOK, Storing
<1>. QED
  BY <1>1, <1>2, <1>3 DEF InStore, Cached, HashMatchesList

LEMMA StoreBeginInv ==
  ASSUME IInv, SerialClear, NEW t \in Threads, NEW s \in Slots,
         StoreBegin(t, s)
  PROVE  IInv'
<1>1. /\ TypeOK /\ NoRepeat(lru) /\ CallsOK /\ AloneOK /\ OwnerOK /\ PlaceOK
      /\ HashMatchesList /\ ItemOK /\ LifeOK /\ RefsExact
  BY DEF IInv
<1>2. <<t, s>> \in Places
  BY DEF Places
<1>3. PICK o \in Objs : o = var[<<t, s>>]
  BY <1>1, <1>2 DEF StoreBegin, TypeOK
<1>4. PICK r \in FreeSlots(t) :
        th' = [th EXCEPT ![t] = [Idle EXCEPT !.pc = "insert", !.op = "store",
                                             !.obj = o, !.slot = r]]
  BY <1>3 DEF StoreBegin
<1>. DEFINE f == [Idle EXCEPT !.pc = "insert", !.op = "store",
                              !.obj = o, !.slot = r]
<1>5. r \in Slots /\ var[<<t, r>>] = None /\ o # None
  BY StoreAssumption DEF FreeSlots
<1>6. /\ f \in Frame /\ f.pc = "insert" /\ f.op = "store" /\ f.obj = o
      /\ f.slot = r /\ f.pin = None
  <2>1. Idle \in Frame /\ Idle.pin = None
    BY DEF Idle, Frame
  <2>2. f \in Frame
    BY <1>5, <2>1 DEF Frame
  <2>3. f.pc = "insert" /\ f.op = "store"
    BY <2>1 DEF Frame
  <2>4. f.obj = o /\ f.slot = r /\ f.pin = None
    BY <2>1 DEF Frame
  <2>. QED
    BY <2>2, <2>3, <2>4
<1>7. /\ th' = [th EXCEPT ![t] = f] /\ item' = [item EXCEPT ![o] = "alloc"]
      /\ item[o] = "none"
      /\ th[t].pc = "idle"
      /\ UNCHANGED <<lock, lru, hash, size, refs, life, var>>
  BY <1>3, <1>4 DEF StoreBegin, MayStart, IsIdle
<1>. HIDE DEF f
<1>8. /\ th'[t] = f /\ \A u \in Threads : u # t => th'[u] = th[u]
  BY <1>1, <1>7 DEF TypeOK
<1>9. TypeOK'
  BY <1>1, <1>6, <1>7 DEF TypeOK
<1>10. /\ o \notin Linked /\ \A u \in Threads : th[u].obj # o
  BY <1>1, <1>5, <1>7 DEF ItemOK
<1>11. /\ th[t].obj = None /\ th[t].pin = None /\ th[t].op = "none"
  BY <1>7, IdleFacts
<1>12. Linked' = Linked
  BY <1>7 DEF Linked
<1>13. \A x \in Objs : (Cached(x)' <=> Cached(x)) /\ (InStore(x)' <=> InStore(x))
  <2>1. \A u \in Threads, x \in Objs : Storing(u, x)' <=> Storing(u, x)
    BY <1>6, <1>8, <1>11 DEF Storing
  <2>2. \A u \in Threads, x \in Objs :
          Storing(u, x) => (th'[u].pc = "unref" <=> th[u].pc = "unref")
    BY <1>6, <1>8, <1>11 DEF Storing
  <2>. QED
    BY <1>12, <2>1, <2>2 DEF Cached, InStore
<1>14. CallsOK'
  <2>1. CallOK(t)'
    BY <1>5, <1>6, <1>7, <1>8 DEF CallOK, StorePcs
  <2>2. \A u \in Threads : u # t => CallOK(u)'
    BY <1>1, <1>7, <1>8, <1>12 DEF CallsOK, CallOK
  <2>. QED
    BY <2>1, <2>2 DEF CallsOK
<1>15. AloneOK'
  <2>1. \A u \in Threads : th[u].op # "empty"
    BY DEF StoreBegin, MayStart
  <2>. QED
    BY <1>1, <1>6, <1>8, <2>1 DEF AloneOK
<1>16. OwnerOK'
  BY <1>1, <1>3, <1>6, <1>7, <1>8, <1>10 DEF OwnerOK
<1>17. PlaceOK'
  BY <1>1, <1>6, <1>7, <1>8, <1>10, <1>12 DEF PlaceOK, Hashable
<1>18. HashMatchesList'
  BY <1>1, <1>7, <1>12, <1>13, LinkedObjs DEF HashMatchesList, Hashable, TypeOK
<1>19. ItemOK'
  BY <1>1, <1>6, <1>7, <1>8, <1>10, <1>12, LinkedObjs DEF ItemOK, TypeOK
<1>20. LifeOK' /\ NoRepeat(lru)'
  BY <1>1, <1>7 DEF LifeOK, NoRepeat
<1>21. RefsExact'
  BY <1>1, <1>6, <1>7, <1>8, <1>11, <1>13, RefsSame
<1>. QED
  BY <1>9, <1>14, <1>15, <1>16, <1>17, <1>18, <1>19, <1>20, <1>21 DEF IInv

LEMMA IdleShape ==
  /\ Idle \in Frame /\ Idle.pc = "idle" /\ Idle.op = "none"
  /\ Idle.obj = None /\ Idle.pin = None
BY DEF Idle, Frame

LEMMA OwnFacts ==
  ASSUME IInv, NEW t \in Threads, th[t].op = "store"
  PROVE  /\ th[t].obj \in Objs /\ th[t].obj # None
         /\ \E s \in Slots : var[<<t, s>>] = th[t].obj
         /\ \A u \in Threads : th[u].obj = th[t].obj => u = t
         /\ th[t].pc # "freeing" => th[t].pin = None
         /\ \A u \in Threads : th[u].op # "empty"
<1>1. TypeOK /\ CallsOK /\ AloneOK /\ OwnerOK
  BY DEF IInv
<1>2. th[t].obj # None /\ th[t].pc \in StorePcs
  BY <1>1 DEF CallsOK, CallOK
<1>3. th[t].obj \in Objs
  BY <1>1, <1>2 DEF TypeOK, Frame
<1>4. \A u \in Threads : th[u].op # "empty"
  BY <1>1, <1>2 DEF AloneOK, StorePcs
<1>. QED
  BY <1>1, <1>2, <1>3, <1>4 DEF CallsOK, CallOK, OwnerOK

LEMMA InsertFailsInv ==
  ASSUME IInv, NEW t \in Threads, InsertFails(t)
  PROVE  IInv'
<1>1. /\ TypeOK /\ NoRepeat(lru) /\ CallsOK /\ AloneOK /\ OwnerOK /\ PlaceOK
      /\ HashMatchesList /\ ItemOK /\ LifeOK /\ RefsExact
  BY DEF IInv
<1>2. th[t].pc = "insert" /\ th[t].op = "store"
  BY <1>1 DEF InsertFails, CallsOK, CallOK, OtherPcs
<1>3. PICK o \in Objs : o = th[t].obj
  BY <1>2, OwnFacts
<1>4. /\ \A u \in Threads : th[u].obj = o => u = t
      /\ th[t].pin = None
  BY <1>2, <1>3, OwnFacts
<1>5. ~InStore(o) /\ ~Cached(o) /\ o \notin Linked
  BY <1>2, <1>3, FreshOK
<1>6. /\ th' = [th EXCEPT ![t] = Idle] /\ item' = [item EXCEPT ![o] = "freed"]
      /\ UNCHANGED <<lock, lru, hash, size, refs, life, var>>
  BY <1>3 DEF InsertFails, Return
<1>7. th'[t] = Idle /\ \A u \in Threads : u # t => th'[u] = th[u]
  BY <1>1, <1>6 DEF TypeOK
<1>8. TypeOK'
  BY <1>1, <1>6, IdleShape DEF TypeOK
<1>9. Linked' = Linked
  BY <1>6 DEF Linked
<1>10. \A x \in Objs : (Cached(x)' <=> Cached(x)) /\ (InStore(x)' <=> InStore(x))
  <2>1. \A u \in Threads, x \in Objs : Storing(u, x)' <=> Storing(u, x)
    BY <1>2, <1>7, IdleShape DEF Storing
  <2>2. \A u \in Threads, x \in Objs :
          Storing(u, x) => (th'[u].pc = "unref" <=> th[u].pc = "unref")
    BY <1>2, <1>7, IdleShape DEF Storing
  <2>. QED
    BY <1>9, <2>1, <2>2 DEF Cached, InStore
<1>11. CallsOK'
  <2>1. CallOK(t)'
    BY <1>7, IdleShape DEF CallOK, OtherPcs
  <2>2. \A u \in Threads : u # t => CallOK(u)'
    BY <1>1, <1>6, <1>7, <1>9 DEF CallsOK, CallOK
  <2>. QED
    BY <2>1, <2>2 DEF CallsOK
<1>12. AloneOK' /\ OwnerOK'
  BY <1>1, <1>6, <1>7, IdleShape DEF AloneOK, OwnerOK
<1>13. PlaceOK' /\ HashMatchesList'
  BY <1>1, <1>6, <1>7, <1>9, <1>10, IdleShape, LinkedObjs
     DEF PlaceOK, HashMatchesList, Hashable, TypeOK
<1>14. ItemOK'
  <2>1. \A x \in Linked' : item'[x] = "alloc"
    BY <1>1, <1>5, <1>6, <1>9, LinkedObjs DEF ItemOK, TypeOK
  <2>2. \A u \in Threads : th'[u].obj # None =>
          /\ u # t /\ th[u].obj \in Objs /\ th[u].obj # o
          /\ th'[u] = th[u]
    BY <1>1, <1>4, <1>7, IdleShape DEF TypeOK, Frame
  <2>. QED
    BY <1>1, <1>6, <2>1, <2>2 DEF ItemOK, TypeOK
<1>15. LifeOK' /\ NoRepeat(lru)'
  BY <1>1, <1>6 DEF LifeOK, NoRepeat
<1>16. RefsExact'
  BY <1>1, <1>4, <1>6, <1>7, <1>10, IdleShape, RefsSame
<1>. QED
  BY <1>8, <1>11, <1>12, <1>13, <1>14, <1>15, <1>16 DEF IInv

LEMMA InsertNewInv ==
  ASSUME IInv, NEW t \in Threads, InsertNew(t)
  PROVE  IInv'
<1>1. /\ TypeOK /\ NoRepeat(lru) /\ CallsOK /\ AloneOK /\ OwnerOK /\ PlaceOK
      /\ HashMatchesList /\ ItemOK /\ LifeOK /\ RefsExact
  BY DEF IInv
<1>2. th[t].pc = "insert" /\ th[t].op = "store"
  BY <1>1 DEF InsertNew, CallsOK, CallOK, OtherPcs
<1>3. PICK o \in Objs : o = th[t].obj
  BY <1>2, OwnFacts
<1>4. /\ \A u \in Threads : th[u].obj = o => u = t
      /\ \E s \in Slots : var[<<t, s>>] = o
      /\ th[t].pin = None /\ o # None
  BY <1>2, <1>3, OwnFacts
<1>5. /\ ~InStore(o) /\ o \notin Linked /\ item[o] = "alloc"
  BY <1>2, <1>3, FreshOK
<1>6. refs[o] \in Nat /\ refs[o] > 0 /\ life[o] = "live"
  BY <1>1, <1>4, CountsOK DEF LifeOK, Places
<1>7. /\ Hashable(o) => hash[KeyOf[o]] = None
      /\ hash' = IF Hashable(o) THEN [hash EXCEPT ![KeyOf[o]] = o] ELSE hash
      /\ refs' = [refs EXCEPT ![o] = refs[o] + 1]
      /\ lock' = t
      /\ th' = [th EXCEPT ![t].pc = IF StoreMax = 0 THEN "link" ELSE "check",
                          ![t].need = size + SizeOf[o]]
      /\ UNCHANGED <<lru, size, life, item, var>>
  BY <1>3, <1>6 DEF InsertNew, Inc
<1>8. /\ \A u \in Threads : u # t => th'[u] = th[u]
      /\ th'[t].pc \in {"link", "check"} /\ th'[t].op = "store"
      /\ th'[t].obj = o /\ th'[t].pin = None
      /\ th' \in [Threads -> Frame]
  <2>1. size + SizeOf[o] \in Int /\ th[t] \in Frame
    BY <1>1, StoreAssumption DEF TypeOK
  <2>. QED
    BY <1>1, <1>2, <1>3, <1>4, <1>7, <2>1 DEF TypeOK, Frame
<1>9. TypeOK'
  BY <1>1, <1>6, <1>7, <1>8 DEF TypeOK, Hashable
<1>10. Linked' = Linked
  BY <1>7 DEF Linked
<1>11. /\ \A x \in Objs : x # o => /\ Cached(x)' <=> Cached(x)
                                   /\ InStore(x)' <=> InStore(x)
       /\ Cached(o)' /\ InStore(o)'
  <2>1. \A u \in Threads, x \in Objs :
          x # o => /\ Storing(u, x)' <=> Storing(u, x)
                   /\ Storing(u, x) => th'[u] = th[u]
    BY <1>3, <1>8 DEF Storing
  <2>2. Storing(t, o)' /\ th'[t].pc # "unref"
    BY <1>8 DEF Storing
  <2>. QED
    BY <1>10, <2>1, <2>2 DEF Cached, InStore
<1>12. CallsOK'
  <2>1. CallOK(t)'
    BY <1>4, <1>8 DEF CallOK, StorePcs
  <2>2. \A u \in Threads : u # t => CallOK(u)'
    BY <1>1, <1>7, <1>8, <1>10 DEF CallsOK, CallOK
  <2>. QED
    BY <2>1, <2>2 DEF CallsOK
<1>13. AloneOK'
  BY <1>2, <1>8, OwnFacts DEF AloneOK
<1>14. OwnerOK'
  <2>1. \E s \in Slots : var'[<<t, s>>] = th'[t].obj
    BY <1>4, <1>7, <1>8
  <2>2. \A u \in Threads : u # t => th'[u].obj # th'[t].obj
    BY <1>4, <1>8
  <2>. QED
    BY <1>1, <1>7, <1>8, <2>1, <2>2 DEF OwnerOK
<1>15. \A k \in HashKeys :
         hash'[k] = IF Hashable(o) /\ k = KeyOf[o] THEN o ELSE hash[k]
  BY <1>1, <1>7 DEF TypeOK, Hashable
<1>16. HashMatchesList'
  <2>1. \A k \in HashKeys, x \in Objs :
          hash'[k] = x => KeyOf[x] = k /\ Cached(x)'
    <3>1. SUFFICES ASSUME NEW k \in HashKeys, NEW x \in Objs, hash'[k] = x
                   PROVE  KeyOf[x] = k /\ Cached(x)'
      OBVIOUS
    <3>2. CASE x = o
      BY <1>4, <1>5, <1>11, <1>15, <3>1, <3>2, FreshOK, <1>2, <1>3
    <3>3. CASE x # o
      <4>1. hash[k] = x /\ x # None
        BY <1>15, <3>1, <3>3, StoreAssumption
      <4>2. KeyOf[x] = k /\ Cached(x)
        BY <1>1, <4>1 DEF HashMatchesList
      <4>. QED
        BY <1>11, <3>3, <4>2
    <3>. QED
      BY <3>2, <3>3
  <2>2. \A x \in Linked : Hashable(x) => hash'[KeyOf[x]] = x
    <3>1. SUFFICES ASSUME NEW x \in Linked, Hashable(x)
                   PROVE  hash'[KeyOf[x]] = x
      OBVIOUS
    <3>2. hash[KeyOf[x]] = x /\ x # None /\ KeyOf[x] \in HashKeys
      BY <1>1, <3>1, LinkedObjs, StoreAssumption DEF HashMatchesList, Hashable
    <3>. QED
      BY <1>7, <1>15, <3>2
  <2>. QED
    BY <1>9, <1>10, <2>1, <2>2 DEF HashMatchesList, Hashable, TypeOK
<1>17. PlaceOK'
  <2>1. ASSUME NEW u \in Threads, u # t, th[u].op = "store",
               th[u].pc \notin {"insert", "unref"}, Hashable(th[u].obj)
        PROVE  hash'[KeyOf[th[u].obj]] = th[u].obj
    <3>1. /\ hash[KeyOf[th[u].obj]] = th[u].obj /\ th[u].obj # None
          /\ KeyOf[th[u].obj] \in HashKeys
      BY <1>1, <2>1, OwnFacts DEF PlaceOK, Hashable
    <3>. QED
      BY <1>7, <1>15, <3>1
  <2>2. Hashable(o) => hash'[KeyOf[o]] = o
    BY <1>15 DEF Hashable
  <2>. QED
    BY <1>1, <1>5, <1>8, <1>10, <2>1, <2>2 DEF PlaceOK, Hashable
<1>18. ItemOK'
  BY <1>1, <1>4, <1>5, <1>7, <1>8, <1>10 DEF ItemOK
<1>19. LifeOK' /\ NoRepeat(lru)'
  BY <1>1, <1>6, <1>7 DEF LifeOK, NoRepeat, TypeOK
<1>20. RefsExact'
  <2>1. \A x : Holders(x)' = Holders(x)
    BY <1>7, HoldersSame
  <2>2. \A x : Pins(x)' = Pins(x)
    BY <1>4, <1>8, PinsSame
  <2>3. \A x \in Objs :
          /\ Cardinality(Holders(x)) \in Nat /\ Cardinality(Pins(x)) \in Nat
    BY CountsType
  <2>4. \A x \in Objs : refs'[x] = IF x = o THEN refs[x] + 1 ELSE refs[x]
    BY <1>1, <1>7 DEF TypeOK
  <2>5. SUFFICES ASSUME NEW x \in Objs
                 PROVE  refs'[x] = Cardinality(Holders(x)') + Cardinality(Pins(x)')
                                   + (IF InStore(x)' THEN 1 ELSE 0)
    BY DEF RefsExact
  <2>6. refs[x] = Cardinality(Holders(x)) + Cardinality(Pins(x))
                  + (IF InStore(x) THEN 1 ELSE 0)
    BY <1>1 DEF RefsExact
  <2>. QED
    BY <1>5, <1>11, <2>1, <2>2, <2>3, <2>4, <2>6
<1>. QED
  BY <1>9, <1>12, <1>13, <1>14, <1>16, <1>17, <1>18, <1>19, <1>20 DEF IInv

LEMMA InsertExistingInv ==
  ASSUME IInv, NEW t \in Threads, InsertExisting(t)
  PROVE  IInv'
<1>1. /\ TypeOK /\ NoRepeat(lru) /\ CallsOK /\ AloneOK /\ OwnerOK /\ PlaceOK
      /\ HashMatchesList /\ ItemOK /\ LifeOK /\ RefsExact
  BY DEF IInv
<1>2. th[t].pc = "insert" /\ th[t].op = "store"
  BY <1>1 DEF InsertExisting, CallsOK, CallOK, OtherPcs
<1>3. PICK o \in Objs : o = th[t].obj
  BY <1>2, OwnFacts
<1>4. /\ \A u \in Threads : th[u].obj = o => u = t
      /\ th[t].pin = None /\ th[t].slot \in Slots
      /\ var[<<t, th[t].slot>>] = None
  BY <1>1, <1>2, <1>3, OwnFacts DEF CallsOK, CallOK
<1>5. ~InStore(o) /\ ~Cached(o) /\ o \notin Linked
  BY <1>2, <1>3, FreshOK
<1>6. PICK s \in Slots : s = th[t].slot
  BY <1>4
<1>7. PICK e \in Objs : e = hash[KeyOf[o]] /\ KeyOf[e] = KeyOf[o] /\ Cached(e)
                        /\ Hashable(e)
  <2>1. KeyOf[o] \in HashKeys /\ hash[KeyOf[o]] # None
    BY <1>3 DEF InsertExisting, Hashable
  <2>. QED
    BY <1>1, <2>1 DEF HashMatchesList, TypeOK, Hashable
<1>8. e # o /\ refs[e] \in Nat /\ refs[e] > 0 /\ life[e] = "live"
  BY <1>1, <1>5, <1>7, CountsOK DEF LifeOK, Cached, InStore
<1>9. /\ th' = [th EXCEPT ![t] = Idle] /\ item' = [item EXCEPT ![o] = "freed"]
      /\ lru' = Touch(e)
      /\ refs' = [refs EXCEPT ![e] = refs[e] + 1]
      /\ var' = [var EXCEPT ![<<t, s>>] = e]
      /\ UNCHANGED <<lock, hash, size, life>>
  BY <1>3, <1>6, <1>7, <1>8 DEF InsertExisting, Return, Inc
<1>10. th'[t] = Idle /\ \A u \in Threads : u # t => th'[u] = th[u]
  BY <1>1, <1>9 DEF TypeOK
<1>11. lru' \in Seq(Objs) /\ NoRepeat(lru)' /\ Linked' = Linked \cup {e}
  BY <1>1, <1>9, TouchOK DEF Linked, NoRepeat
<1>12. <<t, s>> \in Places /\ var[<<t, s>>] = None
  BY <1>4, <1>6 DEF Places
<1>13. TypeOK'
  BY <1>1, <1>8, <1>9, <1>11, <1>12, IdleShape DEF TypeOK
<1>14. \A x \in Objs : (Cached(x)' <=> Cached(x)) /\ (InStore(x)' <=> InStore(x))
  <2>1. \A u \in Threads, x \in Objs : Storing(u, x)' <=> Storing(u, x)
    BY <1>2, <1>10, IdleShape DEF Storing
  <2>2. \A u \in Threads, x \in Objs :
          Storing(u, x) => (th'[u].pc = "unref" <=> th[u].pc = "unref")
    BY <1>2, <1>10, IdleShape DEF Storing
  <2>. QED
    BY <1>7, <1>11, <2>1, <2>2 DEF Cached, InStore
<1>15. \A u \in Threads, r \in Slots :
         u # t => var'[<<u, r>>] = var[<<u, r>>]
  BY <1>1, <1>9, <1>12 DEF TypeOK, Places
<1>16. CallsOK'
  <2>1. CallOK(t)'
    BY <1>10, IdleShape DEF CallOK, OtherPcs
  <2>2. \A u \in Threads : u # t => CallOK(u)'
    BY <1>1, <1>10, <1>11, <1>15 DEF CallsOK, CallOK
  <2>. QED
    BY <2>1, <2>2 DEF CallsOK
<1>17. AloneOK' /\ OwnerOK'
  BY <1>1, <1>10, <1>15, IdleShape DEF AloneOK, OwnerOK
<1>18. e \notin Linked =>
         \E u \in Threads : /\ u # t /\ th[u].obj = e /\ th[u].op = "store"
                            /\ th[u].pc \notin {"insert", "unref"}
                            /\ \A w \in Threads : th[w].obj = e => w = u
  <2>1. SUFFICES ASSUME e \notin Linked
                 PROVE  \E u \in Threads :
                          /\ u # t /\ th[u].obj = e /\ th[u].op = "store"
                          /\ th[u].pc \notin {"insert", "unref"}
                          /\ \A w \in Threads : th[w].obj = e => w = u
    OBVIOUS
  <2>2. PICK u \in Threads : Storing(u, e) /\ th[u].pc # "unref"
    BY <1>7, <2>1 DEF Cached
  <2>. QED
    BY <1>3, <1>8, <2>2, OwnFacts DEF Storing
<1>19. hash[KeyOf[e]] = e /\ item[e] = "alloc"
  BY <1>1, <1>7, <1>18, StoreAssumption DEF ItemOK
<1>20. PlaceOK'
  BY <1>1, <1>7, <1>9, <1>10, <1>11, <1>18, IdleShape
     DEF PlaceOK, Hashable
<1>21. HashMatchesList'
  BY <1>1, <1>9, <1>11, <1>14, <1>19, LinkedObjs
     DEF HashMatchesList, Hashable, TypeOK
<1>22. ItemOK'
  <2>1. \A x \in Linked' : item'[x] = "alloc"
    BY <1>1, <1>5, <1>8, <1>9, <1>11, <1>19, LinkedObjs DEF ItemOK, TypeOK
  <2>2. \A u \in Threads : th'[u].obj # None =>
          /\ u # t /\ th[u].obj \in Objs /\ th[u].obj # o
          /\ th'[u] = th[u]
    BY <1>1, <1>4, <1>10, IdleShape DEF TypeOK, Frame
  <2>. QED
    BY <1>1, <1>9, <2>1, <2>2 DEF ItemOK, TypeOK
<1>23. LifeOK'
  BY <1>1, <1>8, <1>9 DEF LifeOK, TypeOK
<1>24. RefsExact'
  <2>1. \A x \in Objs : Cardinality(Holders(x)') =
          Cardinality(Holders(x)) + (IF x = e THEN 1 ELSE 0)
    BY <1>1, <1>9, <1>12, HoldersPlus
  <2>2. \A x : Pins(x)' = Pins(x)
    BY <1>4, <1>10, IdleShape, PinsSame
  <2>3. \A x \in Objs :
          /\ Cardinality(Holders(x)) \in Nat /\ Cardinality(Pins(x)) \in Nat
    BY CountsType
  <2>4. \A x \in Objs : refs'[x] = IF x = e THEN refs[x] + 1 ELSE refs[x]
    BY <1>1, <1>9 DEF TypeOK
  <2>5. SUFFICES ASSUME NEW x \in Objs
                 PROVE  refs'[x] = Cardinality(Holders(x)') + Cardinality(Pins(x)')
                                   + (IF InStore(x)' THEN 1 ELSE 0)
    BY DEF RefsExact
  <2>6. refs[x] = Cardinality(Holders(x)) + Cardinality(Pins(x))
                  + (IF InStore(x) THEN 1 ELSE 0)
    BY <1>1 DEF RefsExact
  <2>. QED
    BY <1>14, <2>1, <2>2, <2>3, <2>4, <2>6
<1>. QED
  BY <1>11, <1>13, <1>16, <1>17, <1>20, <1>21, <1>22, <1>23, <1>24 DEF IInv

LEMMA LinkInv ==
  ASSUME IInv, NEW t \in Threads, Link(t)
  PROVE  IInv'
<1>1. /\ TypeOK /\ NoRepeat(lru) /\ CallsOK /\ AloneOK /\ OwnerOK /\ PlaceOK
      /\ HashMatchesList /\ ItemOK /\ LifeOK /\ RefsExact
  BY DEF IInv
<1>2. th[t].pc = "link" /\ th[t].op = "store"
  BY <1>1 DEF Link, CallsOK, CallOK, OtherPcs
<1>3. PICK o \in Objs : o = th[t].obj
  BY <1>2, OwnFacts
<1>4. /\ \A u \in Threads : th[u].obj = o => u = t
      /\ th[t].pin = None /\ o # None
  BY <1>2, <1>3, OwnFacts
<1>5. /\ item[o] = "alloc" /\ Storing(t, o)
      /\ Hashable(o) => hash[KeyOf[o]] = o
  BY <1>1, <1>2, <1>3, <1>4 DEF ItemOK, PlaceOK, Storing
<1>6. /\ th' = [th EXCEPT ![t] = Idle] /\ size' = size + SizeOf[o]
      /\ lru' = Touch(o) /\ lock' = None
      /\ UNCHANGED <<hash, refs, life, item, var>>
  BY <1>3 DEF Link, Return
<1>7. th'[t] = Idle /\ \A u \in Threads : u # t => th'[u] = th[u]
  BY <1>1, <1>6 DEF TypeOK
<1>8. lru' \in Seq(Objs) /\ NoRepeat(lru)' /\ Linked' = Linked \cup {o}
  BY <1>1, <1>6, TouchOK DEF Linked, NoRepeat
<1>9. TypeOK'
  BY <1>1, <1>6, <1>8, IdleShape, StoreAssumption DEF TypeOK
<1>10. \A x \in Objs : (Cached(x)' <=> Cached(x)) /\ (InStore(x)' <=> InStore(x))
  <2>1. \A u \in Threads, x \in Objs :
          x # o => /\ Storing(u, x)' <=> Storing(u, x)
                   /\ Storing(u, x) => th'[u] = th[u]
    BY <1>3, <1>7, IdleShape DEF Storing
  <2>. QED
    BY <1>2, <1>5, <1>8, <2>1 DEF Cached, InStore
<1>11. CallsOK'
  <2>1. CallOK(t)'
    BY <1>7, IdleShape DEF CallOK, OtherPcs
  <2>2. \A u \in Threads : u # t => CallOK(u)'
    BY <1>1, <1>6, <1>7, <1>8 DEF CallsOK, CallOK
  <2>. QED
    BY <2>1, <2>2 DEF CallsOK
<1>12. AloneOK' /\ OwnerOK'
  BY <1>1, <1>6, <1>7, IdleShape DEF AloneOK, OwnerOK
<1>13. PlaceOK'
  BY <1>1, <1>4, <1>6, <1>7, <1>8, IdleShape DEF PlaceOK, Hashable
<1>14. HashMatchesList'
  BY <1>1, <1>5, <1>6, <1>8, <1>10, LinkedObjs
     DEF HashMatchesList, Hashable, TypeOK
<1>15. ItemOK' /\ LifeOK'
  BY <1>1, <1>5, <1>6, <1>7, <1>8, IdleShape DEF ItemOK, LifeOK
<1>16. RefsExact'
  BY <1>1, <1>4, <1>6, <1>7, <1>10, IdleShape, RefsSame
<1>. QED
  BY <1>8, <1>9, <1>11, <1>12, <1>13, <1>14, <1>15, <1>16 DEF IInv

LEMMA GiveUpInv ==
  ASSUME IInv, NEW t \in Threads, GiveUp(t)
  PROVE  IInv'
<1>1. /\ TypeOK /\ NoRepeat(lru) /\ CallsOK /\ AloneOK /\ OwnerOK /\ PlaceOK
      /\ HashMatchesList /\ ItemOK /\ LifeOK /\ RefsExact
  BY DEF IInv
<1>2. th[t].pc = "saved" /\ th[t].op = "store"
  BY <1>1 DEF GiveUp, CallsOK, CallOK, OtherPcs
<1>3. PICK o \in Objs : o = th[t].obj
  BY <1>2, OwnFacts
<1>4. /\ \A u \in Threads : th[u].obj = o => u = t
      /\ th[t].pin = None /\ o # None
  BY <1>2, <1>3, OwnFacts
<1>5. /\ o \notin Linked
      /\ Hashable(o) => hash[KeyOf[o]] = o
  BY <1>1, <1>2, <1>3 DEF GiveUp, PlaceOK
<1>6. /\ th' = [th EXCEPT ![t].pc = "unref"] /\ hash' = Unhash(o)
      /\ item' = [item EXCEPT ![o] = "freed"] /\ lock' = None
      /\ UNCHANGED <<lru, size, refs, life, var>>
  BY <1>3 DEF GiveUp, Goto
<1>7. /\ \A u \in Threads : u # t => th'[u] = th[u]
      /\ th'[t].pc = "unref" /\ th'[t].op = "store" /\ th'[t].obj = o
      /\ th'[t].pin = None /\ th' \in [Threads -> Frame]
  <2>1. th \in [Threads -> Frame] /\ th[t] \in Frame
    BY <1>1 DEF TypeOK
  <2>2. \A u \in Threads : u # t => th'[u] = th[u]
    BY <1>6, <2>1
  <2>3. th'[t] = [th[t] EXCEPT !.pc = "unref"]
    BY <1>6, <2>1
  <2>4. /\ th'[t].pc = "unref" /\ th'[t].op = th[t].op
        /\ th'[t].obj = th[t].obj /\ th'[t].pin = th[t].pin
    BY <2>1, <2>3 DEF Frame
  <2>5. th' \in [Threads -> Frame]
    BY <1>6, <2>1 DEF Frame
  <2>. QED
    BY <1>2, <1>3, <1>4, <2>2, <2>4, <2>5
<1>8. TypeOK'
  BY <1>1, <1>6, <1>7 DEF TypeOK, Unhash, Hashable
<1>9. Linked' = Linked
  BY <1>6 DEF Linked
<1>10. \A k \in HashKeys :
         hash'[k] = IF Hashable(o) /\ k = KeyOf[o] THEN None ELSE hash[k]
  BY <1>1, <1>6 DEF TypeOK, Hashable, Unhash
<1>11. /\ \A x \in Objs : x # o => /\ Cached(x)' <=> Cached(x)
                                   /\ InStore(x)' <=> InStore(x)
       /\ InStore(o)' /\ InStore(o)
  <2>1. \A u \in Threads, x \in Objs :
          x # o => /\ Storing(u, x)' <=> Storing(u, x)
                   /\ Storing(u, x) => th'[u] = th[u]
    BY <1>3, <1>7 DEF Storing
  <2>2. Storing(t, o)' /\ Storing(t, o)
    BY <1>2, <1>3, <1>7 DEF Storing
  <2>. QED
    BY <1>9, <2>1, <2>2 DEF Cached, InStore
<1>12. CallsOK'
  <2>1. CallOK(t)'
    BY <1>4, <1>7 DEF CallOK, StorePcs
  <2>2. \A u \in Threads : u # t => CallOK(u)'
    BY <1>1, <1>6, <1>7, <1>9 DEF CallsOK, CallOK
  <2>. QED
    BY <2>1, <2>2 DEF CallsOK
<1>13. AloneOK'
  BY <1>2, <1>7, OwnFacts DEF AloneOK
<1>14. OwnerOK'
  <2>1. \A u \in Threads : th'[u].obj = th[u].obj
    BY <1>3, <1>7
  <2>. QED
    BY <1>1, <1>6, <2>1 DEF OwnerOK
<1>15. HashMatchesList'
  <2>1. \A k \in HashKeys, x \in Objs :
          hash'[k] = x => KeyOf[x] = k /\ Cached(x)'
    <3>1. SUFFICES ASSUME NEW k \in HashKeys, NEW x \in Objs, hash'[k] = x
                   PROVE  KeyOf[x] = k /\ Cached(x)'
      OBVIOUS
    <3>2. hash[k] = x /\ x # None
      BY <1>10, <3>1, StoreAssumption
    <3>3. KeyOf[x] = k /\ Cached(x)
      BY <1>1, <3>2 DEF HashMatchesList
    <3>4. x # o
      BY <1>10, <3>1, <3>2, <3>3 DEF Hashable
    <3>. QED
      BY <1>11, <3>3, <3>4
  <2>2. \A x \in Linked : Hashable(x) => hash'[KeyOf[x]] = x
    BY <1>1, <1>5, <1>10 DEF HashMatchesList, Hashable
  <2>. QED
    BY <1>8, <1>9, <2>1, <2>2 DEF HashMatchesList, Hashable, TypeOK
<1>16. PlaceOK'
  <2>1. ASSUME NEW u \in Threads, u # t, th[u].op = "store",
               th[u].pc \notin {"insert", "unref"}, Hashable(th[u].obj)
        PROVE  hash'[KeyOf[th[u].obj]] = th[u].obj
    <3>1. /\ hash[KeyOf[th[u].obj]] = th[u].obj /\ th[u].obj # o
          /\ KeyOf[th[u].obj] \in HashKeys
      BY <1>1, <1>4, <2>1 DEF PlaceOK, Hashable
    <3>. QED
      BY <1>5, <1>10, <3>1
  <2>. QED
    BY <1>1, <1>5, <1>7, <1>9, <2>1 DEF PlaceOK, Hashable
<1>17. ItemOK'
  <2>1. \A x \in Linked' : item'[x] = "alloc"
    BY <1>1, <1>5, <1>6, <1>9, LinkedObjs DEF ItemOK, TypeOK
  <2>2. item'[th'[t].obj] = "freed"
    BY <1>1, <1>6, <1>7 DEF TypeOK
  <2>3. \A u \in Threads : u # t /\ th[u].obj # None =>
          th[u].obj \in Objs /\ th[u].obj # o /\ th'[u] = th[u]
    BY <1>1, <1>4, <1>7 DEF TypeOK, Frame
  <2>. QED
    BY <1>1, <1>6, <1>7, <2>1, <2>2, <2>3 DEF ItemOK, TypeOK
<1>18. LifeOK' /\ NoRepeat(lru)'
  BY <1>1, <1>6 DEF LifeOK, NoRepeat
<1>19. RefsExact'
  BY <1>1, <1>4, <1>6, <1>7, <1>11, RefsSame
<1>. QED
  BY <1>8, <1>12, <1>13, <1>14, <1>15, <1>16, <1>17, <1>18, <1>19 DEF IInv

LEMMA UnrefInv ==
  ASSUME IInv, NEW t \in Threads, Unref(t)
  PROVE  IInv'
<1>1. /\ TypeOK /\ NoRepeat(lru) /\ CallsOK /\ AloneOK /\ OwnerOK /\ PlaceOK
      /\ HashMatchesList /\ ItemOK /\ LifeOK /\ RefsExact
  BY DEF IInv
<1>2. th[t].pc = "unref" /\ th[t].op = "store"
  BY <1>1 DEF Unref, CallsOK, CallOK, OtherPcs
<1>3. PICK o \in Objs : o = th[t].obj
  BY <1>2, OwnFacts
<1>4. /\ \A u \in Threads : th[u].obj = o => u = t
      /\ th[t].pin = None /\ o # None
      /\ \E s \in Slots : var[<<t, s>>] = o
  BY <1>2, <1>3, OwnFacts
<1>5. o \notin Linked /\ Storing(t, o) /\ ~Cached(o) /\ InStore(o)
  BY <1>1, <1>2, <1>3, <1>4 DEF PlaceOK, Storing, Cached, InStore
<1>6. refs[o] \in Nat /\ refs[o] > 1
  BY <1>4, <1>5, CountsOK DEF Places
<1>7. /\ th' = [th EXCEPT ![t] = Idle]
      /\ refs' = [refs EXCEPT ![o] = refs[o] - 1]
      /\ UNCHANGED <<lock, lru, hash, size, life, item, var>>
  <2>1. Dec(refs[o]) = refs[o] - 1
    BY <1>6 DEF Dec
  <2>2. refs' = [refs EXCEPT ![o] = Dec(refs[o])]
    BY <1>3 DEF Unref
  <2>. QED
    BY <2>1, <2>2 DEF Unref, Return
<1>8. th'[t] = Idle /\ \A u \in Threads : u # t => th'[u] = th[u]
  BY <1>1, <1>7 DEF TypeOK
<1>9. TypeOK'
  BY <1>1, <1>6, <1>7, IdleShape DEF TypeOK
<1>10. Linked' = Linked
  BY <1>7 DEF Linked
<1>11. /\ \A x \in Objs : x # o => /\ Cached(x)' <=> Cached(x)
                                   /\ InStore(x)' <=> InStore(x)
       /\ ~Cached(o)' /\ ~InStore(o)'
  <2>1. \A u \in Threads, x \in Objs :
          x # o => /\ Storing(u, x)' <=> Storing(u, x)
                   /\ Storing(u, x) => th'[u] = th[u]
    BY <1>3, <1>8, IdleShape DEF Storing
  <2>2. \A u \in Threads : ~Storing(u, o)'
    BY <1>4, <1>8, IdleShape DEF Storing
  <2>. QED
    BY <1>5, <1>10, <2>1, <2>2 DEF Cached, InStore
<1>12. CallsOK'
  <2>1. CallOK(t)'
    BY <1>8, IdleShape DEF CallOK, OtherPcs
  <2>2. \A u \in Threads : u # t => CallOK(u)'
    BY <1>1, <1>7, <1>8, <1>10 DEF CallsOK, CallOK
  <2>. QED
    BY <2>1, <2>2 DEF CallsOK
<1>13. AloneOK' /\ OwnerOK'
  BY <1>1, <1>7, <1>8, IdleShape DEF AloneOK, OwnerOK
<1>14. PlaceOK'
  BY <1>1, <1>7, <1>8, <1>10, IdleShape DEF PlaceOK, Hashable
<1>15. HashMatchesList'
  BY <1>1, <1>5, <1>7, <1>10, <1>11, LinkedObjs
     DEF HashMatchesList, Hashable, TypeOK
<1>16. ItemOK' /\ LifeOK' /\ NoRepeat(lru)'
  BY <1>1, <1>6, <1>7, <1>8, <1>10, IdleShape DEF ItemOK, LifeOK, NoRepeat, TypeOK
<1>17. RefsExact'
  <2>1. \A x : Holders(x)' = Holders(x)
    BY <1>7, HoldersSame
  <2>2. \A x : Pins(x)' = Pins(x)
    BY <1>4, <1>8, IdleShape, PinsSame
  <2>3. \A x \in Objs :
          /\ Cardinality(Holders(x)) \in Nat /\ Cardinality(Pins(x)) \in Nat
    BY CountsType
  <2>4. \A x \in Objs : refs'[x] = IF x = o THEN refs[x] - 1 ELSE refs[x]
    BY <1>1, <1>7 DEF TypeOK
  <2>5. SUFFICES ASSUME NEW x \in Objs
                 PROVE  refs'[x] = Cardinality(Holders(x)') + Cardinality(Pins(x)')
                                   + (IF InStore(x)' THEN 1 ELSE 0)
    BY DEF RefsExact
  <2>6. refs[x] = Cardinality(Holders(x)) + Cardinality(Pins(x))
                  + (IF InStore(x) THEN 1 ELSE 0)
    BY <1>1 DEF RefsExact
  <2>. QED
    BY <1>5, <1>11, <2>1, <2>2, <2>3, <2>4, <2>6
<1>. QED
  BY <1>9, <1>12, <1>13, <1>14, <1>15, <1>16, <1>17 DEF IInv

-----------------------------------------------------------------------------
(* Evictions and removals.                                                 *)

\* An object that leaves the list while no call stores it leaves the store,
\* with the store's reference to it.  The thread t is the one that takes it
\* out; it may pin a listed object p meanwhile.
LEMMA LeaveStep ==
  ASSUME IInv, NEW t \in Threads, NEW v \in Linked, NEW p \in Objs \cup {None},
         \A u \in Threads : th[u].obj # v /\ th[u].pin # v,
         p # v, p # None => p \in Linked, th[t].pin = None,
         lru' = Unlink(v), hash' = Unhash(v), life' = Dropped(v),
         refs' = [o \in Objs |-> IF o = v THEN Dec(refs[o])
                                 ELSE IF o = p THEN refs[o] + 1 ELSE refs[o]],
         item' = [item EXCEPT ![v] = "freed"],
         var' = var, size' \in Int, lock' \in Threads \cup {None},
         th' \in [Threads -> Frame],
         \A u \in Threads : u # t => th'[u] = th[u],
         th'[t].pin = p, th'[t].obj = th[t].obj, th'[t].op = th[t].op,
         \/ th'[t] = th[t]
         \/ th[t].pc \notin {"idle", "insert", "unref"} /\ th'[t].pc = "freeing",
         p # None => th[t].op = "store" /\ th'[t].pc = "freeing"
  PROVE  IInv'
<1>1. /\ TypeOK /\ NoRepeat(lru) /\ CallsOK /\ AloneOK /\ OwnerOK /\ PlaceOK
      /\ HashMatchesList /\ ItemOK /\ LifeOK /\ RefsExact
  BY DEF IInv
<1>2. v \in Objs /\ v # None
  BY <1>1, LinkedObjs, StoreAssumption
<1>3. refs[v] \in Nat /\ refs[v] > 0 /\ InStore(v)
  BY <1>2, CountsOK DEF InStore
<1>4. lru' \in Seq(Objs) /\ NoRepeat(lru)' /\ Linked' = Linked \ {v}
  BY <1>1, <1>2, UnlinkOK DEF Linked, NoRepeat
<1>5. /\ \A o \in Objs : refs'[o] = IF o = v THEN refs[o] - 1
                                    ELSE IF o = p THEN refs[o] + 1 ELSE refs[o]
      /\ refs' \in [Objs -> Nat]
  BY <1>1, <1>2, <1>3 DEF Dec, TypeOK
<1>6. \A o \in Objs : life'[o] = IF o = v /\ refs[v] = 1 THEN "dropped" ELSE life[o]
  BY <1>1, <1>2 DEF Dropped, TypeOK
<1>7. \A k \in HashKeys :
        hash'[k] = IF Hashable(v) /\ k = KeyOf[v] THEN None ELSE hash[k]
  BY <1>1 DEF TypeOK, Hashable, Unhash
<1>8. TypeOK'
  <2>1. hash' \in [HashKeys -> Objs \cup {None}]
    BY <1>1 DEF TypeOK, Unhash, Hashable
  <2>2. life' \in [Objs -> {"unborn", "live", "dropped"}]
    BY <1>1 DEF TypeOK, Dropped
  <2>. QED
    BY <1>1, <1>4, <1>5, <2>1, <2>2 DEF TypeOK
<1>9. \A u \in Threads : th'[u].obj = th[u].obj /\ th'[u].op = th[u].op
  OBVIOUS
<1>10. /\ \A x \in Objs : x # v => /\ Cached(x)' <=> Cached(x)
                                   /\ InStore(x)' <=> InStore(x)
       /\ ~Cached(v)' /\ ~InStore(v)'
  <2>1. \A u \in Threads, x \in Objs :
          /\ Storing(u, x)' <=> Storing(u, x)
          /\ Storing(u, x) => (th'[u].pc = "unref" <=> th[u].pc = "unref")
    BY <1>9 DEF Storing
  <2>2. \A u \in Threads : ~Storing(u, v)
    BY DEF Storing
  <2>. QED
    <3>1. \A x \in Objs : x # v =>
            (Cached(x)' <=> Cached(x)) /\ (InStore(x)' <=> InStore(x))
      BY <1>4, <2>1 DEF Cached, InStore, Storing
    <3>2. \A u \in Threads : ~Storing(u, v)'
      BY <1>2, <2>1, <2>2
    <3>3. v \notin Linked'
      BY <1>4
    <3>4. ~Cached(v)' /\ ~InStore(v)'
      BY <3>2, <3>3 DEF Cached, InStore
    <3>. QED
      BY <3>1, <3>4
<1>11. CallsOK'
  <2>1. CallOK(t)'
    <3>1. CASE th'[t] = th[t]
      BY <1>1, <1>4, <3>1 DEF CallsOK, CallOK
    <3>2. CASE th[t].pc \notin {"idle", "insert", "unref"} /\ th'[t].pc = "freeing"
      BY <1>1, <1>4, <1>9, <3>2 DEF CallsOK, CallOK, StorePcs, OtherPcs
    <3>. QED
      BY <3>1, <3>2
  <2>2. \A u \in Threads : u # t => CallOK(u)'
    BY <1>1, <1>4 DEF CallsOK, CallOK
  <2>. QED
    BY <2>1, <2>2 DEF CallsOK
<1>12. AloneOK' /\ OwnerOK'
  BY <1>1, <1>9 DEF AloneOK, OwnerOK
<1>13. HashMatchesList'
  <2>1. \A k \in HashKeys, x \in Objs :
          hash'[k] = x => KeyOf[x] = k /\ Cached(x)'
    <3>1. SUFFICES ASSUME NEW k \in HashKeys, NEW x \in Objs, hash'[k] = x
                   PROVE  KeyOf[x] = k /\ Cached(x)'
      OBVIOUS
    <3>2. hash[k] = x /\ x # None
      BY <1>7, <3>1, StoreAssumption
    <3>3. KeyOf[x] = k /\ Cached(x)
      BY <1>1, <3>2 DEF HashMatchesList
    <3>4. x # v
      BY <1>7, <3>1, <3>2, <3>3 DEF Hashable
    <3>. QED
      BY <1>10, <3>3, <3>4
  <2>2. \A x \in Linked' : Hashable(x) => hash'[KeyOf[x]] = x
    BY <1>1, <1>4, <1>7 DEF HashMatchesList, Hashable
  <2>. QED
    BY <1>8, <2>1, <2>2 DEF HashMatchesList, Hashable, TypeOK
<1>14. PlaceOK'
  <2>1. ASSUME NEW u \in Threads, th[u].op = "store",
               th[u].pc \notin {"insert", "unref"}, Hashable(th[u].obj)
        PROVE  hash'[KeyOf[th[u].obj]] = th[u].obj
    <3>1. /\ hash[KeyOf[th[u].obj]] = th[u].obj
          /\ KeyOf[th[u].obj] \in HashKeys
      BY <1>1, <2>1 DEF PlaceOK, Hashable
    <3>2. Hashable(v) => hash[KeyOf[v]] = v
      BY <1>1 DEF HashMatchesList
    <3>. QED
      BY <1>7, <3>1, <3>2
  <2>2. \A u \in Threads : th'[u].pc \in {"insert", "unref"} <=>
                           th[u].pc \in {"insert", "unref"}
    OBVIOUS
  <2>. QED
    BY <1>1, <1>4, <1>9, <2>1, <2>2 DEF PlaceOK, Hashable
<1>15. ItemOK'
  <2>1. \A x \in Linked' : item'[x] = "alloc"
    BY <1>1, <1>4, LinkedObjs DEF ItemOK, TypeOK
  <2>2. \A u \in Threads : th[u].obj # None => item'[th[u].obj] = item[th[u].obj]
    BY <1>1, <1>2 DEF TypeOK, Frame
  <2>3. \A u \in Threads : th'[u].pc = "unref" <=> th[u].pc = "unref"
    OBVIOUS
  <2>. QED
    BY <1>1, <1>9, <2>1, <2>2, <2>3 DEF ItemOK
<1>16. LifeOK'
  <2>1. p # None => p \in Objs /\ refs[p] > 0
    BY <1>2, CountsOK DEF InStore
  <2>. QED
    <3>1. SUFFICES ASSUME NEW x \in Objs
                   PROVE  life'[x] = "live" <=> refs'[x] > 0
      BY DEF LifeOK
    <3>2. refs[x] \in Nat /\ (life[x] = "live" <=> refs[x] > 0)
      BY <1>1 DEF LifeOK, TypeOK
    <3>3. CASE x = v
      BY <1>3, <1>5, <1>6, <3>2, <3>3
    <3>4. CASE x # v
      <4>1. life'[x] = life[x]
        BY <1>6, <3>4
      <4>2. refs'[x] = IF x = p THEN refs[x] + 1 ELSE refs[x]
        BY <1>5, <3>4
      <4>. QED
        BY <2>1, <3>2, <4>1, <4>2, StoreAssumption
    <3>. QED
      BY <3>3, <3>4
<1>17. RefsExact'
  <2>1. \A x : Holders(x)' = Holders(x)
    BY HoldersSame
  <2>2. \A x \in Objs : Cardinality(Pins(x)') =
          Cardinality(Pins(x)) + (IF x = p THEN 1 ELSE 0)
    <3>1. CASE p = None
      <4>1. \A x : Pins(x)' = Pins(x)
        BY <3>1, PinsSame
      <4>2. \A x \in Objs : x # p /\ Cardinality(Pins(x)) \in Nat
        BY <3>1, StoreAssumption, CountsType
      <4>. QED
        BY <4>1, <4>2
    <3>2. CASE p # None
      BY <3>2, PinsPlus
    <3>. QED
      BY <3>1, <3>2
  <2>3. \A x \in Objs :
          /\ Cardinality(Holders(x)) \in Nat /\ Cardinality(Pins(x)) \in Nat
    BY CountsType
  <2>5. SUFFICES ASSUME NEW x \in Objs
                 PROVE  refs'[x] = Cardinality(Holders(x)') + Cardinality(Pins(x)')
                                   + (IF InStore(x)' THEN 1 ELSE 0)
    BY DEF RefsExact
  <2>6. refs[x] = Cardinality(Holders(x)) + Cardinality(Pins(x))
                  + (IF InStore(x) THEN 1 ELSE 0)
    BY <1>1 DEF RefsExact
  <2>. QED
    BY <1>3, <1>5, <1>10, <2>1, <2>2, <2>3, <2>6
<1>. QED
  BY <1>4, <1>8, <1>11, <1>12, <1>13, <1>14, <1>15, <1>16, <1>17 DEF IInv

\* The object of a call and a pinned object have a reference besides the
\* store's own, so an evictable object is neither.
LEMMA EvictableFree ==
  ASSUME IInv, NEW v \in Linked, Evictable(v)
  PROVE  \A u \in Threads : th[u].obj # v /\ th[u].pin # v
<1>1. v \in Objs /\ v # None /\ InStore(v) /\ OwnerOK
  BY LinkedObjs, StoreAssumption DEF IInv, InStore
<1>2. refs[v] = 1
  BY DEF Evictable
<1>3. SUFFICES ASSUME NEW u \in Threads
               PROVE  th[u].obj # v /\ th[u].pin # v
  OBVIOUS
<1>4. th[u].pin # v
  BY <1>1, <1>2, CountsOK
<1>5. \A s \in Slots : var[<<u, s>>] # v
  BY <1>1, <1>2, CountsOK DEF Places
<1>. QED
  BY <1>1, <1>4, <1>5 DEF OwnerOK

\* evict() called for an object that no call uses.
LEMMA EvictStep ==
  ASSUME IInv, NEW t \in Threads, NEW v \in Linked, NEW p \in Objs \cup {None},
         \A u \in Threads : th[u].obj # v /\ th[u].pin # v,
         p # v, p # None => p \in Linked,
         th[t].pin = None, th[t].pc \notin {"idle", "insert", "unref"},
         p # None => th[t].op = "store",
         Evict(t, v, p),
         th' \in [Threads -> Frame],
         \A u \in Threads : u # t => th'[u] = th[u],
         th'[t].pin = p, th'[t].obj = th[t].obj, th'[t].op = th[t].op,
         th'[t].pc = "freeing"
  PROVE  IInv'
<1>1. v \in Objs /\ size \in Int
  BY LinkedObjs DEF IInv, TypeOK
<1>2. size' \in Int
  BY <1>1, StoreAssumption DEF Evict
<1>3. /\ lru' = Unlink(v) /\ hash' = Unhash(v) /\ life' = Dropped(v)
      /\ refs' = [o \in Objs |-> IF o = v THEN Dec(refs[o])
                                 ELSE IF o = p THEN refs[o] + 1 ELSE refs[o]]
      /\ item' = [item EXCEPT ![v] = "freed"]
      /\ var' = var /\ lock' \in Threads \cup {None}
  BY DEF Evict
<1>. QED
  BY <1>2, <1>3, LeaveStep

LEMMA EnsureEvictInv ==
  ASSUME IInv, NEW t \in Threads, EnsureEvict(t)
  PROVE  IInv'
<1>1. TypeOK /\ NoRepeat(lru) /\ CallsOK
  BY DEF IInv
<1>2. /\ th[t].pc = "scan" /\ th[t].op = "store" /\ th[t].pin = None
  BY <1>1 DEF EnsureEvict, CallsOK, CallOK, OtherPcs
<1>3. PICK i : i = VictimFrom(th[t].cur)
  OBVIOUS
<1>4. i \in 1..Len(lru) /\ Len(lru) \in Nat /\ Evictable(lru[i])
  <2>1. VictimFrom(th[t].cur) # 0
    BY DEF EnsureEvict
  <2>. QED
    BY <1>1, <1>3, <2>1, VictimOK DEF TypeOK
<1>5. PICK v : v = lru[i]
  OBVIOUS
<1>6. v \in Linked /\ v \in Objs /\ v # None /\ Evictable(v)
  BY <1>1, <1>4, <1>5, LinkedObjs, StoreAssumption DEF Linked, Range, TypeOK
<1>7. PICK p : p = IF i > 1 THEN lru[i - 1] ELSE None
  OBVIOUS
<1>8. p \in Objs \cup {None} /\ p # v /\ (p # None => p \in Linked)
  <2>1. CASE i > 1
    <3>1. i - 1 \in 1..Len(lru) /\ i - 1 # i
      BY <1>4, <2>1
    <3>2. p \in Linked /\ p # v
      BY <1>1, <1>4, <1>5, <1>7, <2>1, <3>1 DEF NoRepeat, Linked, Range, TypeOK
    <3>. QED
      BY <1>1, <3>2, LinkedObjs
  <2>2. CASE ~(i > 1)
    BY <1>6, <1>7, <2>2
  <2>. QED
    BY <2>1, <2>2
<1>9. \A u \in Threads : th[u].obj # v /\ th[u].pin # v
  BY <1>6, EvictableFree
<1>10. /\ Evict(t, v, p)
       /\ th' = [th EXCEPT ![t].pc = "freeing", ![t].pin = p,
                           ![t].count = @ + SizeOf[v]]
  BY <1>3, <1>5, <1>7 DEF EnsureEvict
<1>11. th[t] \in Frame /\ th \in [Threads -> Frame] /\ SizeOf[v] \in Nat
  BY <1>1, <1>6, StoreAssumption DEF TypeOK
<1>12. th' \in [Threads -> Frame]
  <2>1. th[t].count + SizeOf[v] \in Nat
    BY <1>11 DEF Frame
  <2>. QED
    BY <1>8, <1>10, <1>11, <2>1 DEF Frame
<1>13. /\ \A u \in Threads : u # t => th'[u] = th[u]
       /\ th'[t].pin = p /\ th'[t].obj = th[t].obj /\ th'[t].op = th[t].op
       /\ th'[t].pc = "freeing"
  BY <1>10, <1>11 DEF Frame
<1>. QED
  BY <1>2, <1>6, <1>8, <1>9, <1>10, <1>12, <1>13, EvictStep

LEMMA ScavEvictInv ==
  ASSUME IInv, NEW t \in Threads, ScavEvict(t)
  PROVE  IInv'
<1>1. TypeOK /\ NoRepeat(lru) /\ CallsOK
  BY DEF IInv
<1>2. /\ th[t].pc = "scav" /\ th[t].op # "store" /\ th[t].pin = None
  BY <1>1 DEF ScavEvict, CallsOK, CallOK, StorePcs
<1>3. PICK i : i = LastVictim
  OBVIOUS
<1>4. i \in 1..Len(lru) /\ Len(lru) \in Nat /\ Evictable(lru[i])
  <2>1. i # 0
    BY <1>3 DEF ScavEvict
  <2>2. i = VictimFrom(lru[Len(lru)])
    BY <1>3, <2>1 DEF LastVictim
  <2>. QED
    BY <1>1, <2>1, <2>2, VictimOK DEF TypeOK
<1>5. PICK v : v = lru[i]
  OBVIOUS
<1>6. v \in Linked /\ v \in Objs /\ v # None /\ Evictable(v)
  BY <1>1, <1>4, <1>5, LinkedObjs, StoreAssumption DEF Linked, Range, TypeOK
<1>7. \A u \in Threads : th[u].obj # v /\ th[u].pin # v
  BY <1>6, EvictableFree
<1>8. /\ Evict(t, v, None)
      /\ th' = [th EXCEPT ![t].pc = "freeing", ![t].count = @ + SizeOf[v]]
  BY <1>3, <1>5 DEF ScavEvict
<1>9. th[t] \in Frame /\ th \in [Threads -> Frame] /\ SizeOf[v] \in Nat
  BY <1>1, <1>6, StoreAssumption DEF TypeOK
<1>10. th' \in [Threads -> Frame]
  <2>1. th[t].count + SizeOf[v] \in Nat
    BY <1>9 DEF Frame
  <2>. QED
    BY <1>8, <1>9, <2>1 DEF Frame
<1>11. /\ \A u \in Threads : u # t => th'[u] = th[u]
       /\ th'[t].pin = None /\ th'[t].obj = th[t].obj /\ th'[t].op = th[t].op
       /\ th'[t].pc = "freeing"
  BY <1>2, <1>8, <1>9 DEF Frame
<1>. QED
  BY <1>2, <1>6, <1>7, <1>8, <1>10, <1>11, EvictStep

\* fz_empty_store does not look at the counts; that nobody else is in the store
\* is what keeps it from evicting an object that a call uses.
LEMMA EmptyEvictInv ==
  ASSUME IInv, NEW t \in Threads, EmptyEvict(t)
  PROVE  IInv'
<1>1. TypeOK /\ NoRepeat(lru) /\ CallsOK /\ AloneOK
  BY DEF IInv
<1>2. /\ th[t].pc = "empty" /\ th[t].op = "empty"
      /\ th[t].pin = None /\ th[t].obj = None
  BY <1>1 DEF EmptyEvict, CallsOK, CallOK, OtherPcs
<1>3. PICK v : v = lru[1]
  OBVIOUS
<1>4. v \in Linked /\ v \in Objs /\ v # None
  BY <1>1, <1>3, LastLinked, LinkedObjs, StoreAssumption DEF EmptyEvict
<1>5. \A u \in Threads : th[u].obj # v /\ th[u].pin # v
  <2>1. \A u \in Threads : u # t => th[u].pc = "idle"
    BY <1>1, <1>2 DEF AloneOK
  <2>2. \A u \in Threads : u # t => th[u].obj = None /\ th[u].pin = None
    BY <2>1, IdleFacts
  <2>. QED
    BY <1>2, <1>4, <2>2
<1>6. Evict(t, v, None) /\ th' = [th EXCEPT ![t].pc = "freeing"]
  BY <1>3 DEF EmptyEvict, Goto
<1>7. th[t] \in Frame /\ th \in [Threads -> Frame]
  BY <1>1 DEF TypeOK
<1>8. th' \in [Threads -> Frame]
  BY <1>6, <1>7 DEF Frame
<1>9. /\ \A u \in Threads : u # t => th'[u] = th[u]
      /\ th'[t].pin = None /\ th'[t].obj = th[t].obj /\ th'[t].op = th[t].op
      /\ th'[t].pc = "freeing"
  BY <1>2, <1>6, <1>7 DEF Frame
<1>. QED
  BY <1>2, <1>4, <1>5, <1>6, <1>8, <1>9, EvictStep

LEMMA RemoveItemInv ==
  ASSUME IInv, SerialClear, NEW t \in Threads, NEW k \in Removable,
         RemoveItem(t, k)
  PROVE  IInv'
<1>1. TypeOK /\ HashMatchesList
  BY DEF IInv
<1>2. \A u \in Threads : /\ th[u].pc = "idle" /\ th[u].op = "none"
                         /\ th[u].obj = None /\ th[u].pin = None
  <2>1. \A u \in Threads : th[u].pc = "idle"
    BY DEF RemoveItem, MayClear, IsIdle
  <2>. QED
    BY <2>1, IdleFacts
<1>3. PICK v : v = Found(k)
  OBVIOUS
<1>4. v # None
  BY <1>3 DEF RemoveItem
<1>5. v \in Objs /\ Cached(v)
  BY <1>1, <1>3, <1>4, FoundOK
<1>6. v \in Linked
  BY <1>2, <1>5 DEF Cached, Storing
<1>7. /\ lru' = Unlink(v) /\ hash' = Unhash(v) /\ life' = Dropped(v)
      /\ refs' = [refs EXCEPT ![v] = Dec(@)]
      /\ item' = [item EXCEPT ![v] = "freed"]
      /\ lock' = lock /\ size' = size /\ var' = var /\ th' = th
  BY <1>3 DEF RemoveItem
<1>8. PICK p \in Objs \cup {None} : p = None
  OBVIOUS
<1>9. refs' = [o \in Objs |-> IF o = v THEN Dec(refs[o])
                              ELSE IF o = p THEN refs[o] + 1 ELSE refs[o]]
  BY <1>1, <1>5, <1>7, <1>8, StoreAssumption DEF TypeOK
<1>10. size' \in Int /\ lock' \in Threads \cup {None} /\ th' \in [Threads -> Frame]
  BY <1>1, <1>7 DEF TypeOK
<1>11. \A u \in Threads : /\ th[u].obj # v /\ th[u].pin # v
                            /\ th'[u] = th[u]
  BY <1>2, <1>4, <1>7
<1>12. th[t].pin = None /\ th'[t] = th[t]
  BY <1>2, <1>11
<1>13. th'[t].pin = p /\ th'[t].obj = th[t].obj /\ th'[t].op = th[t].op
  BY <1>12, <1>8
<1>14. p # v /\ (p # None => p \in Linked)
  BY <1>4, <1>8
<1>15. p # None => th[t].op = "store" /\ th'[t].pc = "freeing"
  BY <1>8
<1>16. \A u \in Threads : th[u].obj # v /\ th[u].pin # v
  BY <1>11
<1>17. \A u \in Threads : u # t => th'[u] = th[u]
  BY <1>11
<1>. QED
  BY <1>6, <1>7, <1>9, <1>10, <1>12, <1>13, <1>14, <1>15, <1>16, <1>17, LeaveStep

\* ensure_space takes its pin off: the predecessor is still in the list.
LEMMA UnpinInv ==
  ASSUME IInv, NEW t \in Threads, Unpin(t)
  PROVE  IInv'
<1>1. /\ TypeOK /\ NoRepeat(lru) /\ CallsOK /\ AloneOK /\ OwnerOK /\ PlaceOK
      /\ HashMatchesList /\ ItemOK /\ LifeOK /\ RefsExact
  BY DEF IInv
<1>2. th[t].pc = "freeing" /\ th[t].op = "store"
  BY DEF Unpin
<1>3. PICK p : p = th[t].pin
  OBVIOUS
<1>4. p \in Objs \cup {None}
  BY <1>1, <1>3 DEF TypeOK, Frame
<1>5. p # None => p \in Objs /\ refs[p] \in Nat /\ refs[p] > 1
  <2>1. p # None => p \in Linked /\ p \in Objs
    BY <1>1, <1>3, <1>4 DEF CallsOK, CallOK
  <2>. QED
    BY <1>3, <2>1, CountsOK DEF InStore
<1>6. PICK pc \in {"saved", "scan"} :
        th' = [th EXCEPT ![t].pin = None, ![t].cur = p, ![t].pc = pc]
  BY <1>3 DEF Unpin
<1>7. /\ refs' = IF p = None THEN refs ELSE [refs EXCEPT ![p] = @ - 1]
      /\ lock' \in Threads \cup {None}
      /\ UNCHANGED <<lru, hash, size, life, item, var>>
  BY <1>3 DEF Unpin
<1>8. /\ \A x \in Objs : refs'[x] = IF x = p THEN refs[x] - 1 ELSE refs[x]
      /\ refs' \in [Objs -> Nat]
  <2>1. CASE p = None
    BY <1>1, <1>7, <2>1, StoreAssumption DEF TypeOK
  <2>2. CASE p # None
    BY <1>1, <1>5, <1>7, <2>2 DEF TypeOK
  <2>. QED
    BY <2>1, <2>2
<1>9. th[t] \in Frame /\ th \in [Threads -> Frame]
  BY <1>1 DEF TypeOK
<1>10. th' \in [Threads -> Frame]
  BY <1>4, <1>6, <1>9 DEF Frame
<1>11. /\ \A u \in Threads : u # t => th'[u] = th[u]
       /\ th'[t].pin = None /\ th'[t].obj = th[t].obj /\ th'[t].op = th[t].op
       /\ th'[t].pc \in {"saved", "scan"}
  BY <1>6, <1>9 DEF Frame
<1>12. TypeOK'
  BY <1>1, <1>7, <1>8, <1>10 DEF TypeOK
<1>13. Linked' = Linked
  BY <1>7 DEF Linked
<1>14. \A u \in Threads, x \in Objs :
         /\ Storing(u, x)' <=> Storing(u, x)
         /\ th'[u].pc = "unref" <=> th[u].pc = "unref"
         /\ th'[u].pc = "insert" <=> th[u].pc = "insert"
  BY <1>2, <1>11 DEF Storing
<1>15. \A x \in Objs : (Cached(x)' <=> Cached(x)) /\ (InStore(x)' <=> InStore(x))
  BY <1>13, <1>14 DEF Cached, InStore
<1>16. CallsOK'
  <2>1. CallOK(t)
    BY <1>1 DEF CallsOK
  <2>2. CallOK(t)'
    BY <1>2, <1>11, <2>1 DEF CallOK, StorePcs
  <2>3. \A u \in Threads : u # t => CallOK(u)'
    BY <1>1, <1>7, <1>11, <1>13 DEF CallsOK, CallOK
  <2>. QED
    BY <2>2, <2>3 DEF CallsOK
<1>17. AloneOK' /\ OwnerOK'
  <2>1. \A u \in Threads : th[u].op # "empty"
    BY <1>2, OwnFacts
  <2>2. \A u \in Threads : th'[u].op = th[u].op /\ th'[u].obj = th[u].obj
    BY <1>11
  <2>. QED
    BY <1>1, <1>7, <2>1, <2>2 DEF AloneOK, OwnerOK
<1>18. PlaceOK'
  BY <1>1, <1>2, <1>7, <1>11, <1>13 DEF PlaceOK, Hashable
<1>19. HashMatchesList'
  BY <1>1, <1>7, <1>13, <1>15 DEF HashMatchesList, Hashable, TypeOK
<1>20. ItemOK' /\ NoRepeat(lru)'
  BY <1>1, <1>2, <1>7, <1>11, <1>13 DEF ItemOK, NoRepeat
<1>21. LifeOK'
  <2>1. SUFFICES ASSUME NEW x \in Objs
                 PROVE  life[x] = "live" <=> refs'[x] > 0
    BY <1>7 DEF LifeOK
  <2>2. refs[x] \in Nat /\ (life[x] = "live" <=> refs[x] > 0)
    BY <1>1 DEF LifeOK, TypeOK
  <2>. QED
    BY <1>5, <1>8, <2>2, StoreAssumption
<1>22. RefsExact'
  <2>1. \A x : Holders(x)' = Holders(x)
    BY <1>7, HoldersSame
  <2>2. \A x \in Objs : Cardinality(Pins(x)') =
          Cardinality(Pins(x)) - (IF x = p THEN 1 ELSE 0)
    <3>1. CASE p = None
      <4>1. \A u \in Threads : th'[u].pin = th[u].pin
        BY <1>3, <1>11, <3>1
      <4>2. \A x : Pins(x)' = Pins(x)
        BY <4>1, PinsSame
      <4>3. \A x \in Objs : x # p /\ Cardinality(Pins(x)) \in Nat
        BY <3>1, StoreAssumption, CountsType
      <4>. QED
        BY <4>2, <4>3
    <3>2. CASE p # None
      BY <1>3, <1>5, <1>11, <3>2, PinsMinus
    <3>. QED
      BY <3>1, <3>2
  <2>3. \A x \in Objs :
          /\ Cardinality(Holders(x)) \in Nat /\ Cardinality(Pins(x)) \in Nat
    BY CountsType
  <2>4. SUFFICES ASSUME NEW x \in Objs
                 PROVE  refs'[x] = Cardinality(Holders(x)') + Cardinality(Pins(x)')
                                   + (IF InStore(x)' THEN 1 ELSE 0)
    BY DEF RefsExact
  <2>5. refs[x] = Cardinality(Holders(x)) + Cardinality(Pins(x))
                  + (IF InStore(x) THEN 1 ELSE 0)
    BY <1>1 DEF RefsExact
  <2>. QED
    BY <1>8, <1>15, <2>1, <2>2, <2>3, <2>5
<1>. QED
  BY <1>12, <1>16, <1>17, <1>18, <1>19, <1>20, <1>21, <1>22 DEF IInv

-----------------------------------------------------------------------------
(* The invariant of the specification.                                     *)

LEMMA InitInv ==
  ASSUME Init
  PROVE  IInv
<1>1. /\ lock = None /\ lru = <<>> /\ hash = [k \in HashKeys |-> None]
      /\ size = 0 /\ refs = [o \in Objs |-> 0]
      /\ life = [o \in Objs |-> "unborn"] /\ item = [o \in Objs |-> "none"]
      /\ var = [p \in Places |-> None] /\ th = [t \in Threads |-> Idle]
  BY DEF Init
<1>2. TypeOK
  BY <1>1, IdleShape DEF TypeOK
<1>3. Linked = {} /\ NoRepeat(lru)
  BY <1>1 DEF Linked, Range, NoRepeat
<1>4. \A t \in Threads : /\ th[t] = Idle /\ th[t].pc = "idle"
                         /\ th[t].op = "none" /\ th[t].obj = None
                         /\ th[t].pin = None
  BY <1>1, IdleShape
<1>5. CallsOK
  BY <1>4 DEF CallsOK, CallOK, OtherPcs
<1>6. AloneOK /\ OwnerOK
  BY <1>4 DEF AloneOK, OwnerOK
<1>7. PlaceOK /\ ItemOK
  BY <1>3, <1>4 DEF PlaceOK, ItemOK
<1>8. HashMatchesList
  BY <1>1, <1>3 DEF HashMatchesList
<1>9. LifeOK
  BY <1>1 DEF LifeOK
<1>10. RefsExact
  <2>1. SUFFICES ASSUME NEW o \in Objs
                 PROVE  refs[o] = Cardinality(Holders(o)) + Cardinality(Pins(o))
                                  + (IF InStore(o) THEN 1 ELSE 0)
    BY DEF RefsExact
  <2>2. o # None
    BY StoreAssumption
  <2>3. Holders(o) = {} /\ Pins(o) = {}
    BY <1>1, <1>4, <2>2 DEF Holders, Pins
  <2>4. ~InStore(o)
    BY <1>3, <1>4 DEF InStore, Storing
  <2>5. Cardinality({}) = 0
    BY FS_EmptySet
  <2>6. refs[o] = 0
    BY <1>1
  <2>. QED
    BY <2>3, <2>4, <2>5, <2>6
<1>. QED
  BY <1>2, <1>3, <1>5, <1>6, <1>7, <1>8, <1>9, <1>10 DEF IInv

LEMMA StutterInv ==
  ASSUME IInv, UNCHANGED vars
  PROVE  IInv'
<1>1. UNCHANGED <<lock, lru, hash, size, refs, life, item, var, th>>
  BY DEF vars
<1>2. Linked' = Linked
  BY <1>1 DEF Linked
<1>3. TypeOK' /\ NoRepeat(lru)' /\ LifeOK'
  BY <1>1 DEF IInv, TypeOK, NoRepeat, LifeOK
<1>4. CallsOK' /\ AloneOK' /\ OwnerOK'
  BY <1>1, <1>2 DEF IInv, CallsOK, CallOK, AloneOK, OwnerOK
<1>5. PlaceOK' /\ ItemOK'
  BY <1>1, <1>2 DEF IInv, PlaceOK, ItemOK, Hashable
<1>6. \A x \in Objs : (Cached(x)' <=> Cached(x)) /\ (InStore(x)' <=> InStore(x))
  BY <1>1, <1>2 DEF Cached, InStore, Storing
<1>7. HashMatchesList'
  BY <1>1, <1>2, <1>6 DEF IInv, HashMatchesList, Hashable, TypeOK
<1>8. RefsExact'
  BY <1>1, <1>6, RefsSame DEF IInv
<1>. QED
  BY <1>3, <1>4, <1>5, <1>7, <1>8 DEF IInv

LEMMA ClientInv ==
  ASSUME IInv, SerialClear, NEW t \in Threads, Client(t)
  PROVE  IInv'
<1>1. CASE \E s \in Slots, o \in Objs : Create(t, s, o)
  BY <1>1, CreateInv
<1>2. CASE \E s \in Slots, p \in Places : Keep(t, s, p)
  BY <1>2, KeepInv
<1>3. CASE \E s \in Slots : Drop(t, s)
  BY <1>3, DropInv
<1>4. CASE \E s \in Slots : StoreBegin(t, s)
  BY <1>4, StoreBeginInv
<1>5. CASE \E s \in Slots, k \in Keys : Find(t, s, k)
  BY <1>5, FindInv
<1>6. CASE \E k \in Removable : RemoveItem(t, k)
  BY <1>6, RemoveItemInv
<1>7. CASE \/ EmptyBegin(t)
           \/ \E n \in Requests : MallocBegin(t, n)
           \/ \E percent \in Percents : ShrinkBegin(t, percent)
  BY <1>7, QuietOtherActions
<1>. QED
  BY <1>1, <1>2, <1>3, <1>4, <1>5, <1>6, <1>7 DEF Client

LEMMA StepInv ==
  ASSUME IInv, SerialClear, NEW t \in Threads, Step(t)
  PROVE  IInv'
<1>1. CASE Locked(t)
  <2>1. CASE \/ Fits(t) \/ EnsureSpace(t) \/ EnsureDone(t) \/ Saved(t)
             \/ OverBudget(t)
    BY <2>1, QuietStoreActions
  <2>2. CASE \/ EmptyDone(t) \/ PhaseScavenge(t) \/ MallocFails(t)
             \/ ScavEnd(t) \/ ScavReturn(t) \/ ScavRetry(t) \/ ScavFails(t)
    BY <2>2, QuietOtherActions
  <2>3. CASE EnsureEvict(t)
    BY <2>3, EnsureEvictInv
  <2>4. CASE EmptyEvict(t)
    BY <2>4, EmptyEvictInv
  <2>5. CASE ScavEvict(t)
    BY <2>5, ScavEvictInv
  <2>6. CASE GiveUp(t)
    BY <2>6, GiveUpInv
  <2>7. CASE Link(t)
    BY <2>7, LinkInv
  <2>. QED
    BY <1>1, <2>1, <2>2, <2>3, <2>4, <2>5, <2>6, <2>7 DEF Locked
<1>2. CASE Acquire(t)
  <2>1. CASE InsertExisting(t)
    BY <2>1, InsertExistingInv
  <2>2. CASE InsertFails(t)
    BY <2>2, InsertFailsInv
  <2>3. CASE InsertNew(t)
    BY <2>3, InsertNewInv
  <2>4. CASE Unpin(t)
    BY <2>4, UnpinInv
  <2>5. CASE Relock(t)
    BY <2>5, QuietOtherActions
  <2>. QED
    BY <1>2, <2>1, <2>2, <2>3, <2>4, <2>5 DEF Acquire
<1>3. CASE Unref(t)
  BY <1>3, UnrefInv
<1>. QED
  BY <1>1, <1>2, <1>3 DEF Step

\* The inductive invariant holds in every reachable state: store.c keeps its
\* list, its hash, its items and its reference counts consistent, as long as
\* the store is emptied and items are removed while nobody else is in it.
THEOREM Invariance == ASSUME SerialClear PROVE Spec => []IInv
<1>1. Init => IInv
  BY InitInv
<1>2. IInv /\ [Next]_vars => IInv'
  <2>1. SUFFICES ASSUME IInv, [Next]_vars
                 PROVE  IInv'
    OBVIOUS
  <2>2. CASE Next
    <3>1. PICK t \in Threads : Client(t) \/ Step(t)
      BY <2>2 DEF Next
    <3>. QED
      BY <2>1, <3>1, ClientInv, StepInv
  <2>3. CASE UNCHANGED vars
    BY <2>1, <2>3, StutterInv
  <2>. QED
    BY <2>1, <2>2, <2>3
<1>. QED
  BY <1>1, <1>2, PTL DEF Spec

\* The variables of the store and of every call keep their types; in
\* particular the reference counts, and the amounts to free, stay natural.
THEOREM TypeCorrect == ASSUME SerialClear PROVE Spec => []TypeOK
<1>1. IInv => TypeOK
  BY DEF IInv
<1>. QED
  BY <1>1, Invariance, PTL

\* val->refs is exactly the number of references to the object, so no sequence
\* of store calls of any number of threads leaks or over-drops an object.
THEOREM CountsExact == ASSUME SerialClear PROVE Spec => []RefsExact
<1>1. IInv => RefsExact
  BY DEF IInv
<1>. QED
  BY <1>1, Invariance, PTL

\* The hash and the list describe the same cache.
THEOREM HashAndListAgree == ASSUME SerialClear PROVE Spec => []HashMatchesList
<1>1. IInv => HashMatchesList
  BY DEF IInv
<1>. QED
  BY <1>1, Invariance, PTL

\* The predecessor ensure_space pins while evict() has released the lock is
\* still linked when it comes back (the comment at store.c:158-161).
THEOREM PinsStayLinked == ASSUME SerialClear PROVE Spec => []PinnedStaysLinked
<1>1. IInv => PinnedStaysLinked
  BY DEF IInv, CallsOK, CallOK, PinnedStaysLinked
<1>. QED
  BY <1>1, Invariance, PTL

\* No destructor runs on an object that a thread, the list, the hash or a pin
\* still refers to.
THEOREM NoUseAfterDrop ==
  ASSUME SerialClear PROVE Spec => []NothingDroppedIsReachable
<1>1. IInv => NothingDroppedIsReachable
  <2>1. SUFFICES ASSUME IInv, NEW o \in Objs, Reachable(o)
                 PROVE  life[o] = "live"
    BY DEF NothingDroppedIsReachable
  <2>2. HashMatchesList /\ LifeOK
    BY <2>1 DEF IInv
  <2>3. (\E k \in HashKeys : hash[k] = o) => Cached(o)
    BY <2>2, StoreAssumption DEF HashMatchesList
  <2>4. Cached(o) \/ o \in Linked => InStore(o)
    BY DEF Cached, InStore
  <2>5. refs[o] > 0
    BY <2>1, <2>3, <2>4, CountsOK DEF Reachable, Holders, Pins
  <2>. QED
    BY <2>2, <2>5 DEF LifeOK
<1>. QED
  BY <1>1, Invariance, PTL

\* Every fz_item the code is about to follow a pointer to is allocated.
THEOREM NoUseOfFreedItem == ASSUME SerialClear PROVE Spec => []NoFreedItemIsUsed
<1>1. IInv => NoFreedItemIsUsed
  <2>1. SUFFICES ASSUME IInv, NEW o \in ItemsInUse, o # None
                 PROVE  item[o] = "alloc"
    BY DEF NoFreedItemIsUsed
  <2>2. HashMatchesList /\ ItemOK /\ CallsOK
    BY <2>1 DEF IInv
  <2>3. CASE o \in Linked
    BY <2>2, <2>3 DEF ItemOK
  <2>4. CASE \E t \in Threads : th[t].pin = o
    BY <2>1, <2>2, <2>4 DEF ItemOK, CallsOK, CallOK
  <2>5. CASE \E t \in Threads : th[t].pc # "unref" /\ th[t].obj = o
    BY <2>1, <2>2, <2>5 DEF ItemOK
  <2>6. CASE \E k \in HashKeys : hash[k] = o
    <3>1. Cached(o)
      BY <2>1, <2>2, <2>6 DEF HashMatchesList
    <3>. QED
      BY <2>3, <2>5, <3>1 DEF Cached, Storing
  <2>. QED
    BY <2>1, <2>3, <2>4, <2>5, <2>6 DEF ItemsInUse
<1>. QED
  BY <1>1, Invariance, PTL

-----------------------------------------------------------------------------
(* The store implements the cache of module Cache: every step of store.c   *)
(* is a step of the cache or changes nothing that can be seen from         *)
(* outside.  Also here: what the steps that make space may evict.          *)

(* What a step does to the set of cached objects.                          *)

\* Inside fz_store_item, between the store's reference and its loss.
Keeps(t, o) == th[t].obj = o /\ th[t].pc \notin {"insert", "unref"}

LEMMA CachedMeans ==
  ASSUME IInv, NEW o \in Objs
  PROVE  Cached(o) <=> o \in Linked \/ \E t \in Threads : Keeps(t, o)
<1>1. o # None
  BY StoreAssumption
<1>2. \A t \in Threads : th[t].op = "store" <=> th[t].obj # None
  BY DEF IInv, CallsOK, CallOK
<1>. QED
  BY <1>1, <1>2 DEF Cached, Storing, Keeps

LEMMA CachedMeansNext ==
  ASSUME IInv', NEW o \in Objs
  PROVE  Cached(o)' <=> o \in Linked' \/ \E t \in Threads : Keeps(t, o)'
<1>1. o # None
  BY StoreAssumption
<1>2. \A t \in Threads : th'[t].op = "store" <=> th'[t].obj # None
  BY DEF IInv, CallsOK, CallOK
<1>. QED
  BY <1>1, <1>2 DEF Cached, Storing, Keeps

\* The other threads stay where they are.
LEMMA OthersKeep ==
  ASSUME NEW t \in Threads, \A u \in Threads : u # t => th'[u] = th[u]
  PROVE  \A u \in Threads, o \in Objs : u # t => (Keeps(u, o)' <=> Keeps(u, o))
BY DEF Keeps

\* A step that leaves the list and what its thread is about to link.
LEMMA SameCache ==
  ASSUME IInv, IInv', NEW t \in Threads, Linked' = Linked,
         \A u \in Threads : u # t => th'[u] = th[u],
         \A o \in Objs : Keeps(t, o)' <=> Keeps(t, o)
  PROVE  CachedObjs' = CachedObjs
<1>1. \A o \in Objs : Cached(o)' <=> Cached(o)
  BY CachedMeans, CachedMeansNext, OthersKeep
<1>. QED
  BY <1>1 DEF CachedObjs

\* A step that links an object which is cached already.
LEMMA SameCacheTouched ==
  ASSUME IInv, IInv', NEW t \in Threads, NEW e \in Objs, Cached(e),
         Linked' = Linked \cup {e},
         \A u \in Threads : u # t => th'[u] = th[u],
         \A o \in Objs : o # e => (Keeps(t, o)' <=> Keeps(t, o))
  PROVE  CachedObjs' = CachedObjs
<1>1. \A o \in Objs : o # e => (Cached(o)' <=> Cached(o))
  BY CachedMeans, CachedMeansNext, OthersKeep
<1>2. Cached(e)'
  BY CachedMeansNext
<1>3. \A o \in Objs : Cached(o)' <=> Cached(o)
  BY <1>1, <1>2
<1>. QED
  BY <1>3 DEF CachedObjs

\* A cached object is alive, and cached objects are kept apart by their keys.
LEMMA CachedLive ==
  ASSUME IInv, NEW o \in Objs, Cached(o)
  PROVE  life[o] = "live" /\ InStore(o)
<1>1. InStore(o)
  BY DEF Cached, InStore
<1>. QED
  BY <1>1, CountsOK DEF IInv, LifeOK

LEMMA HeldLive ==
  ASSUME IInv, NEW p \in Places, var[p] # None
  PROVE  var[p] \in Objs /\ life[var[p]] = "live"
<1>1. var[p] \in Objs
  BY DEF IInv, TypeOK
<1>. QED
  BY <1>1, CountsOK DEF IInv, LifeOK

LEMMA CachedFound ==
  ASSUME IInv, NEW o \in Objs, Cached(o), Hashable(o)
  PROVE  hash[KeyOf[o]] = o
<1>1. HashMatchesList /\ PlaceOK /\ CallsOK
  BY DEF IInv
<1>2. CASE o \in Linked
  BY <1>1, <1>2 DEF HashMatchesList
<1>3. CASE \E t \in Threads : Storing(t, o) /\ th[t].pc # "unref"
  BY <1>1, <1>3 DEF PlaceOK, Storing
<1>. QED
  BY <1>2, <1>3 DEF Cached

-----------------------------------------------------------------------------
(* Steps of the cache.                                                     *)

CacheStep == Abstract!Next \/ UNCHANGED <<var, life, CachedObjs>>

\* A step that changes nothing but the lock and its thread's locals, and does
\* not begin or end to store an object that is in the list.
Hidden(t) ==
  /\ UNCHANGED <<lru, size, life, var>>
  /\ \A u \in Threads : u # t => th'[u] = th[u]
  /\ \A o \in Objs : Keeps(t, o)' <=> Keeps(t, o)
  /\ \A o \in Linked : Storing(t, o)' <=> Storing(t, o)

LEMMA HiddenImplements ==
  ASSUME IInv, IInv', NEW t \in Threads, Hidden(t)
  PROVE  CacheStep
<1>1. Linked' = Linked
  BY DEF Hidden, Linked
<1>2. CachedObjs' = CachedObjs
  BY <1>1, SameCache DEF Hidden
<1>. QED
  BY <1>2 DEF CacheStep, Hidden

LEMMA CreateImplements ==
  ASSUME IInv, IInv', NEW t \in Threads, NEW s \in Slots, NEW o \in Objs,
         Create(t, s, o)
  PROVE  CacheStep
<1>1. /\ UNCHANGED <<lru, th>> /\ <<t, s>> \in Places
  BY DEF Create, Places
<1>2. CachedObjs' = CachedObjs
  BY <1>1, SameCache DEF Linked, Keeps
<1>3. Abstract!Create(<<t, s>>, o)
  BY <1>2 DEF Create, Abstract!Create
<1>. QED
  BY <1>1, <1>3 DEF CacheStep, Abstract!Next

LEMMA KeepImplements ==
  ASSUME IInv, IInv', NEW t \in Threads, NEW s \in Slots, NEW p \in Places,
         Keep(t, s, p)
  PROVE  CacheStep
<1>1. /\ UNCHANGED <<lru, th, life>> /\ <<t, s>> \in Places /\ var[p] # None
      /\ var[<<t, s>>] = None /\ var' = [var EXCEPT ![<<t, s>>] = var[p]]
  BY DEF Keep, Places
<1>2. CachedObjs' = CachedObjs
  BY <1>1, SameCache DEF Linked, Keeps
<1>3. PICK o \in Objs : o = var[p] /\ life[o] = "live"
  BY <1>1, HeldLive
<1>4. Abstract!Acquire(<<t, s>>, o)
  BY <1>1, <1>2, <1>3 DEF Abstract!Acquire, Abstract!Used
<1>. QED
  BY <1>1, <1>4 DEF CacheStep, Abstract!Next

LEMMA FindImplements ==
  ASSUME IInv, IInv', NEW t \in Threads, NEW s \in Slots, NEW k \in Keys,
         Find(t, s, k)
  PROVE  CacheStep
<1>1. /\ UNCHANGED <<th, life>> /\ <<t, s>> \in Places /\ Found(k) # None
      /\ var[<<t, s>>] = None /\ var' = [var EXCEPT ![<<t, s>>] = Found(k)]
      /\ lru' = Touch(Found(k))
  BY DEF Find, Places
<1>2. PICK o \in Objs : o = Found(k) /\ Cached(o)
  BY <1>1, FoundOK DEF IInv
<1>3. Linked' = Linked \cup {o}
  BY <1>1, <1>2, TouchOK DEF IInv, Linked
<1>4. \A x \in Objs : Keeps(t, x)' <=> Keeps(t, x)
  BY <1>1 DEF Keeps
<1>5. CachedObjs' = CachedObjs
  BY <1>1, <1>2, <1>3, <1>4, SameCacheTouched
<1>6. life[o] = "live"
  BY <1>2, CachedLive
<1>7. Abstract!Acquire(<<t, s>>, o)
  BY <1>1, <1>2, <1>5, <1>6 DEF Abstract!Acquire, CachedObjs
<1>. QED
  BY <1>1, <1>7 DEF CacheStep, Abstract!Next

\* fz_drop_storable destroys the object exactly when nobody else refers to it
\* and the store does not hold it: an object whose fz_store_item has given up
\* is still referred to by the thread that makes that call.
LEMMA DropImplements ==
  ASSUME IInv, IInv', NEW t \in Threads, NEW s \in Slots, Drop(t, s)
  PROVE  CacheStep
<1>1. /\ UNCHANGED <<lru, th>> /\ <<t, s>> \in Places /\ var[<<t, s>>] # None
      /\ var' = [var EXCEPT ![<<t, s>>] = None] /\ th[t].pc = "idle"
      /\ life' = Dropped(var[<<t, s>>])
  BY DEF Drop, Places, MayStart, IsIdle
<1>2. CachedObjs' = CachedObjs
  BY <1>1, SameCache DEF Linked, Keeps
<1>3. PICK o \in Objs : o = var[<<t, s>>] /\ o # None
  BY <1>1, HeldLive
<1>. DEFINE Others == \E q \in Places \ {<<t, s>>} : var[q] = o
<1>4. /\ refs[o] \in Nat /\ Cardinality(Holders(o)) \in Nat
      /\ Cardinality(Pins(o)) \in Nat
      /\ refs[o] = Cardinality(Holders(o)) + Cardinality(Pins(o))
                   + (IF InStore(o) THEN 1 ELSE 0)
  BY CountsType DEF IInv, TypeOK, RefsExact
<1>5. <<t, s>> \in Holders(o) /\ IsFiniteSet(Holders(o)) /\ IsFiniteSet(Pins(o))
  BY <1>1, <1>3, PlacesFinite, StoreAssumption, FS_Subset DEF Holders, Pins
<1>6. Cardinality(Holders(o) \ {<<t, s>>}) = Cardinality(Holders(o)) - 1
  BY <1>5, FS_RemoveElement
<1>7. CASE Cached(o) \/ Others
  <2>1. refs[o] # 1
    <3>1. CASE Cached(o)
      BY <1>1, <1>3, <3>1, CountsOK, CachedLive
    <3>2. CASE Others
      <4>1. Holders(o) \ {<<t, s>>} # {} /\ IsFiniteSet(Holders(o) \ {<<t, s>>})
        BY <1>5, <3>2, FS_RemoveElement DEF Holders
      <4>2. /\ Cardinality(Holders(o) \ {<<t, s>>}) # 0
            /\ Cardinality(Holders(o) \ {<<t, s>>}) \in Nat
        BY <4>1, FS_EmptySet, FS_CardinalityType
      <4>3. Cardinality(Holders(o)) > 1
        BY <1>4, <1>6, <4>2
      <4>4. CASE InStore(o)
        BY <1>4, <4>3, <4>4
      <4>5. CASE ~InStore(o)
        BY <1>4, <4>3, <4>5
      <4>. QED
        BY <4>4, <4>5
    <3>. QED
      BY <1>7, <3>1, <3>2
  <2>2. life' = life
    BY <1>1, <1>3, <2>1 DEF Dropped
  <2>3. Abstract!Release(<<t, s>>)
    BY <1>1, <1>2, <1>3, <1>7, <2>2 DEF Abstract!Release, CachedObjs
  <2>. QED
    BY <1>1, <2>3 DEF CacheStep, Abstract!Next
<1>8. CASE ~Cached(o) /\ ~Others
  <2>1. Holders(o) = {<<t, s>>}
    BY <1>5, <1>8 DEF Holders
  <2>2. Pins(o) = {}
    BY <1>3, <1>8 DEF IInv, CallsOK, CallOK, Pins, Cached
  <2>3. ~InStore(o)
    <3>1. SUFFICES ASSUME NEW u \in Threads, Storing(u, o)
                   PROVE  FALSE
      BY <1>8 DEF InStore, Cached
    <3>2. th[u].op = "store" /\ th[u].obj = o /\ u # t
      BY <1>1, <3>1, IdleFacts DEF Storing
    <3>3. PICK r \in Slots : var[<<u, r>>] = o
      BY <3>2, OwnFacts
    <3>. QED
      BY <1>8, <3>2, <3>3 DEF Places
  <2>4. Cardinality({}) = 0 /\ Cardinality({<<t, s>>}) = 1
    BY FS_EmptySet, FS_Singleton
  <2>5. refs[o] = 1
    BY <1>4, <2>1, <2>2, <2>3, <2>4
  <2>6. life' = [life EXCEPT ![o] = "dropped"]
    BY <1>1, <1>3, <2>5 DEF Dropped
  <2>7. Abstract!Release(<<t, s>>)
    BY <1>1, <1>2, <1>3, <1>8, <2>6 DEF Abstract!Release, CachedObjs
  <2>. QED
    BY <1>1, <2>7 DEF CacheStep, Abstract!Next
<1>. QED
  BY <1>7, <1>8

-----------------------------------------------------------------------------
(* fz_store_item.                                                          *)

\* The thread of a call that is not inserting, unreferencing or storing.
LEMMA NothingKept ==
  ASSUME IInv, NEW t \in Threads, th[t].op # "store" \/ th[t].pc = "insert"
  PROVE  \A o \in Objs : ~Keeps(t, o)
<1>1. th[t].op # "store" => th[t].obj = None
  BY DEF IInv, CallsOK, CallOK
<1>. QED
  BY <1>1, StoreAssumption DEF Keeps

LEMMA NothingKeptNext ==
  ASSUME IInv', NEW t \in Threads, th'[t].op # "store" \/ th'[t].pc = "insert"
  PROVE  \A o \in Objs : ~Keeps(t, o)'
<1>1. th'[t].op # "store" => th'[t].obj = None
  BY DEF IInv, CallsOK, CallOK
<1>. QED
  BY <1>1, StoreAssumption DEF Keeps

LEMMA IsStoring ==
  ASSUME IInv, NEW t \in Threads, th[t].pc \in StorePcs \ {"freeing"}
  PROVE  th[t].op = "store"
BY DEF IInv, CallsOK, CallOK, StorePcs, OtherPcs

LEMMA StoreBeginHidden ==
  ASSUME IInv, IInv', NEW t \in Threads, NEW s \in Slots, StoreBegin(t, s)
  PROVE  Hidden(t)
<1>1. th[t].op # "store" /\ th \in [Threads -> Frame]
  BY IdleFacts DEF StoreBegin, MayStart, IsIdle, IInv, TypeOK
<1>2. PICK r \in FreeSlots(t) :
        th' = [th EXCEPT ![t] = [Idle EXCEPT !.pc = "insert", !.op = "store",
                                             !.obj = var[<<t, s>>], !.slot = r]]
  BY DEF StoreBegin
<1>3. [Idle EXCEPT !.pc = "insert", !.op = "store",
                   !.obj = var[<<t, s>>], !.slot = r].pc = "insert"
  BY DEF Idle
<1>4. th'[t].pc = "insert" /\ \A u \in Threads : u # t => th'[u] = th[u]
  BY <1>1, <1>2, <1>3
<1>5. \A o \in Objs : ~Keeps(t, o)' /\ ~Keeps(t, o)
  BY <1>1, <1>4, NothingKept, NothingKeptNext
<1>6. UNCHANGED <<lru, size, life, var>>
  BY DEF StoreBegin
<1>. QED
  BY <1>1, <1>4, <1>5, <1>6 DEF Hidden, Storing

LEMMA InsertExistingImplements ==
  ASSUME IInv, IInv', NEW t \in Threads, InsertExisting(t)
  PROVE  CacheStep
<1>1. th[t].pc = "insert" /\ th[t].op = "store" /\ th \in [Threads -> Frame]
  BY IsStoring DEF InsertExisting, StorePcs, IInv, TypeOK
<1>2. PICK o \in Objs : o = th[t].obj
  BY <1>1, OwnFacts
<1>3. PICK s \in Slots : s = th[t].slot /\ var[<<t, s>>] = None
  BY <1>1 DEF IInv, CallsOK, CallOK
<1>4. PICK e \in Objs : e = hash[KeyOf[o]] /\ Cached(e)
  BY <1>2, StoreAssumption
     DEF InsertExisting, IInv, TypeOK, HashMatchesList, Hashable
<1>5. /\ UNCHANGED life /\ lru' = Touch(e) /\ th' = [th EXCEPT ![t] = Idle]
      /\ var' = [var EXCEPT ![<<t, s>>] = e]
  BY <1>2, <1>3, <1>4 DEF InsertExisting, Return
<1>6. Linked' = Linked \cup {e}
  BY <1>4, <1>5, TouchOK DEF IInv, Linked
<1>7. th'[t].op # "store" /\ \A u \in Threads : u # t => th'[u] = th[u]
  BY <1>1, <1>5, IdleShape
<1>8. \A x \in Objs : ~Keeps(t, x)' /\ ~Keeps(t, x)
  BY <1>1, <1>7, NothingKept, NothingKeptNext
<1>9. CachedObjs' = CachedObjs
  BY <1>4, <1>6, <1>7, <1>8, SameCacheTouched
<1>10. life[e] = "live"
  BY <1>4, CachedLive
<1>11. Abstract!Acquire(<<t, s>>, e)
  BY <1>3, <1>4, <1>5, <1>9, <1>10 DEF Abstract!Acquire, CachedObjs
<1>. QED
  BY <1>11 DEF CacheStep, Abstract!Next, Places

\* The object that fz_store_item is given is alive and in use, not yet cached,
\* and nothing else is cached under its key.
LEMMA InsertNewImplements ==
  ASSUME IInv, IInv', NEW t \in Threads, InsertNew(t)
  PROVE  CacheStep
<1>1. th[t].pc = "insert" /\ th[t].op = "store" /\ th \in [Threads -> Frame]
  BY IsStoring DEF InsertNew, StorePcs, IInv, TypeOK
<1>2. PICK o \in Objs : o = th[t].obj /\ o # None
  BY <1>1, OwnFacts
<1>3. PICK s \in Slots : var[<<t, s>>] = o
  BY <1>1, <1>2, OwnFacts
<1>4. life[o] = "live" /\ <<t, s>> \in Places
  BY <1>2, <1>3, HeldLive DEF Places
<1>5. ~Cached(o)
  BY <1>1, <1>2, FreshOK
<1>6. /\ UNCHANGED <<lru, life, var>>
      /\ Hashable(o) => hash[KeyOf[o]] = None
      /\ th' = [th EXCEPT ![t].pc = IF StoreMax = 0 THEN "link" ELSE "check",
                          ![t].need = size + SizeOf[o]]
  BY <1>2 DEF InsertNew
<1>7. /\ th'[t].pc \in {"link", "check"} /\ th'[t].obj = o
      /\ \A u \in Threads : u # t => th'[u] = th[u]
  BY <1>1, <1>2, <1>6 DEF Frame
<1>8. \A x \in Objs : Cached(x)' <=> Cached(x) \/ x = o
  <2>1. \A x \in Objs : ~Keeps(t, x) /\ (Keeps(t, x)' <=> x = o)
    BY <1>1, <1>7, NothingKept DEF Keeps
  <2>2. Linked' = Linked
    BY <1>6 DEF Linked
  <2>. QED
    BY <1>7, <2>1, <2>2, CachedMeans, CachedMeansNext, OthersKeep
<1>9. CachedObjs' = CachedObjs \cup {o} /\ o \notin CachedObjs
  BY <1>5, <1>8 DEF CachedObjs
<1>10. Hashable(o) => \A c \in CachedObjs : KeyOf[c] # KeyOf[o]
  BY <1>2, <1>6, CachedFound, StoreAssumption DEF CachedObjs, Hashable
<1>11. Abstract!Add(o)
  BY <1>3, <1>4, <1>6, <1>9, <1>10
     DEF Abstract!Add, Abstract!Used, Hashable
<1>. QED
  BY <1>11 DEF CacheStep, Abstract!Next

\* When no space can be made the object leaves the cache again; its thread
\* still refers to it.
LEMMA GiveUpImplements ==
  ASSUME IInv, IInv', NEW t \in Threads, GiveUp(t)
  PROVE  CacheStep
<1>1. th[t].pc = "saved" /\ th[t].op = "store" /\ th \in [Threads -> Frame]
  BY IsStoring DEF GiveUp, StorePcs, IInv, TypeOK
<1>2. PICK o \in Objs : o = th[t].obj /\ o # None
  BY <1>1, OwnFacts
<1>3. \A u \in Threads : th[u].obj = o => u = t
  BY <1>1, <1>2, OwnFacts
<1>4. PICK s \in Slots : var[<<t, s>>] = o
  BY <1>1, <1>2, OwnFacts
<1>5. UNCHANGED <<lru, life, var>> /\ th' = [th EXCEPT ![t].pc = "unref"]
  BY DEF GiveUp, Goto
<1>6. /\ th'[t].pc = "unref" /\ th'[t].obj = o
      /\ \A u \in Threads : u # t => th'[u] = th[u]
  BY <1>1, <1>2, <1>5 DEF Frame
<1>7. Keeps(t, o) /\ \A x \in Objs : ~Keeps(t, x)'
  BY <1>1, <1>2, <1>6 DEF Keeps
<1>8. o \notin Linked /\ Linked' = Linked
  BY <1>1, <1>2, <1>5 DEF GiveUp, IInv, PlaceOK, Linked
<1>9. \A u \in Threads : u # t => ~Keeps(u, o)
  BY <1>3 DEF Keeps
<1>10. ~Cached(o)' /\ Cached(o)
  BY <1>6, <1>7, <1>8, <1>9, CachedMeans, CachedMeansNext, OthersKeep
<1>11. \A x \in Objs : x # o => (Cached(x)' <=> Cached(x))
  <2>1. \A x \in Objs : x # o => (Keeps(t, x)' <=> Keeps(t, x))
    BY <1>2, <1>7 DEF Keeps
  <2>. QED
    BY <1>6, <1>8, <2>1, CachedMeans, CachedMeansNext, OthersKeep
<1>12. CachedObjs' = CachedObjs \ {o} /\ o \in CachedObjs
  BY <1>10, <1>11 DEF CachedObjs
<1>13. Abstract!Used(o)
  BY <1>4 DEF Abstract!Used, Places
<1>14. Abstract!Remove(o)
  BY <1>5, <1>12, <1>13 DEF Abstract!Remove
<1>. QED
  BY <1>14 DEF CacheStep, Abstract!Next

LEMMA LinkImplements ==
  ASSUME IInv, IInv', NEW t \in Threads, Link(t)
  PROVE  CacheStep
<1>1. th[t].pc = "link" /\ th[t].op = "store" /\ th \in [Threads -> Frame]
  BY IsStoring DEF Link, StorePcs, IInv, TypeOK
<1>2. PICK o \in Objs : o = th[t].obj
  BY <1>1, OwnFacts
<1>3. /\ UNCHANGED <<life, var>> /\ lru' = Touch(o)
      /\ th' = [th EXCEPT ![t] = Idle]
  BY <1>2 DEF Link, Return
<1>4. Linked' = Linked \cup {o}
  BY <1>3, TouchOK DEF IInv, Linked
<1>5. th'[t].op # "store" /\ \A u \in Threads : u # t => th'[u] = th[u]
  BY <1>1, <1>3, IdleShape
<1>6. Cached(o) /\ \A x \in Objs : x # o => (Keeps(t, x)' <=> Keeps(t, x))
  <2>1. Keeps(t, o) /\ \A x \in Objs : x # o => ~Keeps(t, x)
    BY <1>1, <1>2 DEF Keeps
  <2>2. \A x \in Objs : ~Keeps(t, x)'
    BY <1>5, NothingKeptNext
  <2>. QED
    BY <2>1, <2>2, CachedMeans
<1>7. CachedObjs' = CachedObjs
  BY <1>4, <1>5, <1>6, SameCacheTouched
<1>. QED
  BY <1>3, <1>7 DEF CacheStep

-----------------------------------------------------------------------------
(* Evictions and removals.                                                 *)

\* An object that no call is about is in use unless the store's reference is
\* the last.
LEMMA LastReference ==
  ASSUME IInv, NEW v \in Linked, \A u \in Threads : th[u].pin # v
  PROVE  refs[v] = 1 <=> Holders(v) = {}
<1>1. v \in Objs /\ InStore(v) /\ Pins(v) = {}
  BY LinkedObjs DEF IInv, InStore, Pins
<1>2. /\ Cardinality(Holders(v)) \in Nat /\ Cardinality({}) = 0
      /\ refs[v] = Cardinality(Holders(v)) + Cardinality(Pins(v)) + 1
  BY <1>1, CountsType, FS_EmptySet DEF IInv, RefsExact
<1>3. IsFiniteSet(Holders(v))
  BY PlacesFinite, FS_Subset DEF Holders
<1>. QED
  BY <1>1, <1>2, <1>3, FS_EmptySet

\* Nothing refers to an object whose only reference is the store's.
LEMMA EvictableUnused ==
  ASSUME IInv, NEW v \in Linked, Evictable(v)
  PROVE  Holders(v) \cup Pins(v) = {}
<1>1. \A u \in Threads : th[u].pin # v
  BY EvictableFree
<1>. QED
  BY <1>1, LastReference DEF Evictable, Pins

LEMMA LeaveImplements ==
  ASSUME IInv, IInv', NEW t \in Threads, NEW v \in Linked,
         \A u \in Threads : th[u].obj # v /\ th[u].pin # v,
         lru' = Unlink(v), life' = Dropped(v), var' = var,
         \A u \in Threads : u # t => th'[u] = th[u],
         th'[t].obj = th[t].obj,
         th[t].pc \notin {"insert", "unref"}, th'[t].pc \notin {"insert", "unref"}
  PROVE  CacheStep
<1>1. v \in Objs
  BY LinkedObjs DEF IInv
<1>2. Linked' = Linked \ {v}
  BY <1>1, UnlinkOK DEF IInv, Linked
<1>3. /\ \A u \in Threads : ~Keeps(u, v)
      /\ \A o \in Objs : Keeps(t, o)' <=> Keeps(t, o)
  BY DEF Keeps
<1>4. \A o \in Objs : Cached(o)' <=> Cached(o) /\ o # v
  BY <1>2, <1>3, CachedMeans, CachedMeansNext, OthersKeep
<1>5. CachedObjs' = CachedObjs \ {v} /\ v \in CachedObjs
  BY <1>1, <1>4 DEF CachedObjs, Cached
<1>6. refs[v] = 1 <=> Holders(v) = {}
  BY LastReference
<1>7. Abstract!Used(v) <=> Holders(v) # {}
  BY DEF Abstract!Used, Holders
<1>8. life' = IF Abstract!Used(v) THEN life ELSE [life EXCEPT ![v] = "dropped"]
  BY <1>6, <1>7 DEF Dropped
<1>9. Abstract!Remove(v)
  BY <1>5, <1>8 DEF Abstract!Remove
<1>. QED
  BY <1>1, <1>9 DEF CacheStep, Abstract!Next

\* What an eviction takes: an object of the list that no call uses; and, when
\* the caller makes space, one that nothing refers to.
LEMMA EnsureEvictTakes ==
  ASSUME IInv, NEW t \in Threads, EnsureEvict(t)
  PROVE  \E v \in Linked : \E p :
            /\ Evictable(v) /\ Evict(t, v, p)
            /\ th'[t].pc = "freeing" /\ th'[t].obj = th[t].obj
            /\ \A u \in Threads : u # t => th'[u] = th[u]
<1>. DEFINE i == VictimFrom(th[t].cur)
            p == IF i > 1 THEN lru[i - 1] ELSE None
<1>1. TypeOK /\ i # 0
  BY DEF IInv, EnsureEvict
<1>2. i \in 1..Len(lru) /\ Evictable(lru[i]) /\ lru[i] \in Linked
  BY <1>1, VictimOK DEF TypeOK, Linked, Range
<1>3. /\ Evict(t, lru[i], p)
      /\ th' = [th EXCEPT ![t].pc = "freeing", ![t].pin = p,
                          ![t].count = @ + SizeOf[lru[i]]]
  BY DEF EnsureEvict
<1>. HIDE DEF i, p
<1>4. /\ th'[t].pc = "freeing" /\ th'[t].obj = th[t].obj
      /\ \A u \in Threads : u # t => th'[u] = th[u]
  BY <1>1, <1>3 DEF TypeOK, Frame
<1>. QED
  BY <1>2, <1>3, <1>4

LEMMA ScavEvictTakes ==
  ASSUME IInv, NEW t \in Threads, ScavEvict(t)
  PROVE  \E v \in Linked : \E p :
            /\ Evictable(v) /\ Evict(t, v, p)
            /\ th'[t].pc = "freeing" /\ th'[t].obj = th[t].obj
            /\ \A u \in Threads : u # t => th'[u] = th[u]
<1>. DEFINE i == LastVictim
<1>1. TypeOK /\ i # 0 /\ i = VictimFrom(lru[Len(lru)])
  BY DEF IInv, ScavEvict, LastVictim
<1>. HIDE DEF i
<1>2. i \in 1..Len(lru) /\ Evictable(lru[i]) /\ lru[i] \in Linked
  BY <1>1, VictimOK DEF TypeOK, Linked, Range
<1>3. /\ Evict(t, lru[i], None)
      /\ th' = [th EXCEPT ![t].pc = "freeing", ![t].count = @ + SizeOf[lru[i]]]
  BY DEF ScavEvict, i
<1>4. /\ th'[t].pc = "freeing" /\ th'[t].obj = th[t].obj
      /\ \A u \in Threads : u # t => th'[u] = th[u]
  BY <1>1, <1>3 DEF TypeOK, Frame
<1>. QED
  BY <1>2, <1>3, <1>4

LEMMA EmptyEvictTakes ==
  ASSUME IInv, NEW t \in Threads, EmptyEvict(t)
  PROVE  \E v \in Linked : \E p :
            /\ Evict(t, v, p)
            /\ \A u \in Threads : th[u].obj # v /\ th[u].pin # v
            /\ th'[t].pc = "freeing" /\ th'[t].obj = th[t].obj
            /\ \A u \in Threads : u # t => th'[u] = th[u]
<1>1. TypeOK /\ CallsOK /\ AloneOK
  BY DEF IInv
<1>2. /\ th[t].op = "empty" /\ th[t].pin = None /\ th[t].obj = None
  BY <1>1 DEF EmptyEvict, CallsOK, CallOK, OtherPcs
<1>3. lru[1] \in Linked /\ lru[1] # None
  BY <1>1, LastLinked, LinkedObjs, StoreAssumption DEF EmptyEvict
<1>4. \A u \in Threads : u # t => th[u].obj = None /\ th[u].pin = None
  BY <1>1, <1>2, IdleFacts DEF AloneOK
<1>5. Evict(t, lru[1], None) /\ th' = [th EXCEPT ![t].pc = "freeing"]
  BY DEF EmptyEvict, Goto
<1>6. /\ th'[t].pc = "freeing" /\ th'[t].obj = th[t].obj
      /\ \A u \in Threads : u # t => th'[u] = th[u]
  BY <1>1, <1>5 DEF TypeOK, Frame
<1>. QED
  BY <1>2, <1>3, <1>4, <1>5, <1>6

LEMMA EvictImplements ==
  ASSUME IInv, IInv', NEW t \in Threads,
         EnsureEvict(t) \/ ScavEvict(t) \/ EmptyEvict(t)
  PROVE  CacheStep
<1>1. PICK v \in Linked :
        /\ \E p : Evict(t, v, p)
        /\ \A u \in Threads : th[u].obj # v /\ th[u].pin # v
        /\ th'[t].pc = "freeing" /\ th'[t].obj = th[t].obj
        /\ \A u \in Threads : u # t => th'[u] = th[u]
  <2>1. CASE EnsureEvict(t)
    BY <2>1, EnsureEvictTakes, EvictableFree
  <2>2. CASE ScavEvict(t)
    BY <2>2, ScavEvictTakes, EvictableFree
  <2>3. CASE EmptyEvict(t)
    BY <2>3, EmptyEvictTakes
  <2>. QED
    BY <2>1, <2>2, <2>3
<1>2. lru' = Unlink(v) /\ life' = Dropped(v) /\ var' = var
  BY <1>1 DEF Evict
<1>3. th[t].pc \notin {"insert", "unref"}
  BY DEF EnsureEvict, ScavEvict, EmptyEvict
<1>. QED
  BY <1>1, <1>2, <1>3, LeaveImplements

LEMMA RemoveItemImplements ==
  ASSUME IInv, IInv', SerialClear, NEW t \in Threads, NEW k \in Removable,
         RemoveItem(t, k)
  PROVE  CacheStep
<1>1. \A u \in Threads : th[u].pc = "idle" /\ th[u].obj = None /\ th[u].pin = None
  BY IdleFacts DEF RemoveItem, MayClear, IsIdle
<1>2. PICK v \in Objs : v = Found(k) /\ Cached(v) /\ v # None
  BY FoundOK DEF RemoveItem, IInv
<1>3. v \in Linked
  BY <1>1, <1>2, CachedMeans DEF Keeps
<1>4. /\ lru' = Unlink(v) /\ life' = Dropped(v) /\ var' = var /\ th' = th
  BY <1>2 DEF RemoveItem
<1>. QED
  BY <1>1, <1>2, <1>3, <1>4, LeaveImplements

-----------------------------------------------------------------------------
(* Steps that cannot be seen from outside.                                 *)

LEMMA SpaceHidden ==
  ASSUME IInv, IInv', NEW t \in Threads,
         \/ Fits(t) \/ EnsureSpace(t) \/ EnsureDone(t) \/ Saved(t)
         \/ OverBudget(t) \/ Unpin(t)
  PROVE  Hidden(t)
<1>1. th \in [Threads -> Frame] /\ th[t] \in Frame
  BY DEF IInv, TypeOK
<1>2. /\ UNCHANGED <<lru, size, life, var>>
      /\ th[t].pc \notin {"insert", "unref"}
  BY DEF Fits, EnsureSpace, EnsureDone, Saved, OverBudget, Unpin
<1>3. /\ th'[t].pc \notin {"insert", "unref"} /\ th'[t].obj = th[t].obj
      /\ \A u \in Threads : u # t => th'[u] = th[u]
  <2>1. CASE Fits(t) \/ EnsureDone(t) \/ OverBudget(t)
    BY <1>1, <2>1 DEF Fits, EnsureDone, OverBudget, Goto, Frame
  <2>2. CASE EnsureSpace(t)
    BY <1>1, <2>2 DEF EnsureSpace, Frame
  <2>3. CASE Saved(t)
    BY <1>1, <2>3 DEF Saved, Frame
  <2>4. CASE Unpin(t)
    BY <1>1, <2>4 DEF Unpin, Frame
  <2>. QED
    BY <2>1, <2>2, <2>3, <2>4
<1>4. \A o \in Objs : Keeps(t, o)' <=> Keeps(t, o)
  BY <1>2, <1>3 DEF Keeps
<1>5. \A o \in Linked : Storing(t, o)' <=> Storing(t, o)
  <2>1. /\ th[t].op = "store" <=> th[t].obj # None
        /\ th'[t].op = "store" <=> th'[t].obj # None
    BY DEF IInv, CallsOK, CallOK
  <2>. QED
    BY <1>2, <1>3, <2>1 DEF Storing
<1>. QED
  BY <1>2, <1>3, <1>4, <1>5 DEF Hidden

LEMMA ReturnHidden ==
  ASSUME IInv, IInv', NEW t \in Threads, Unref(t) \/ InsertFails(t)
  PROVE  Hidden(t)
<1>1. th \in [Threads -> Frame]
  BY DEF IInv, TypeOK
<1>2. /\ UNCHANGED <<lru, size, life, var>> /\ th' = [th EXCEPT ![t] = Idle]
      /\ th[t].pc \in {"insert", "unref"}
  BY DEF Unref, InsertFails, Return
<1>3. th'[t].op # "store" /\ \A u \in Threads : u # t => th'[u] = th[u]
  BY <1>1, <1>2, IdleShape
<1>4. \A o \in Objs : ~Keeps(t, o)' /\ ~Keeps(t, o)
  BY <1>2, <1>3, NothingKeptNext DEF Keeps
<1>5. \A o \in Linked : ~Storing(t, o)' /\ ~Storing(t, o)
  BY <1>2, <1>3 DEF Storing, IInv, PlaceOK
<1>. QED
  BY <1>2, <1>3, <1>4, <1>5 DEF Hidden

LEMMA OtherHidden ==
  ASSUME IInv, IInv', NEW t \in Threads,
         \/ EmptyBegin(t) \/ EmptyDone(t)
         \/ \E n \in Requests : MallocBegin(t, n)
         \/ \E percent \in Percents : ShrinkBegin(t, percent)
         \/ PhaseScavenge(t) \/ MallocFails(t) \/ Relock(t)
         \/ ScavEnd(t) \/ ScavReturn(t) \/ ScavRetry(t) \/ ScavFails(t)
  PROVE  Hidden(t)
<1>1. th \in [Threads -> Frame] /\ th[t] \in Frame /\ CallsOK
  BY DEF IInv, TypeOK
<1>2. UNCHANGED <<lru, size, life, var>>
  BY DEF EmptyBegin, EmptyDone, MallocBegin, ShrinkBegin, PhaseScavenge,
         MallocFails, Relock, ScavEnd, ScavReturn, ScavRetry, ScavFails
<1>3. th[t].op # "store"
  <2>1. th[t].pc \in {"idle", "empty", "phase", "scav", "scavenged"}
        \/ th[t].op # "store"
    BY DEF EmptyBegin, EmptyDone, MallocBegin, ShrinkBegin, PhaseScavenge,
           MallocFails, Relock, ScavEnd, ScavReturn, ScavRetry, ScavFails,
           MayStart, MayClear, IsIdle
  <2>. QED
    BY <1>1, <2>1 DEF CallsOK, CallOK, StorePcs
<1>4. th'[t].op # "store" /\ \A u \in Threads : u # t => th'[u] = th[u]
  <2>1. CASE EmptyBegin(t)
    <3>1. [Idle EXCEPT !.pc = "empty", !.op = "empty"].op = "empty"
      BY DEF Idle
    <3>. QED
      BY <1>1, <2>1, <3>1 DEF EmptyBegin
  <2>2. CASE \E n \in Requests : MallocBegin(t, n)
    <3>1. \A n : [Idle EXCEPT !.pc = "phase", !.op = "malloc",
                              !.need = n].op = "malloc"
      BY DEF Idle
    <3>. QED
      BY <1>1, <2>2, <3>1 DEF MallocBegin
  <2>3. CASE \E percent \in Percents : ShrinkBegin(t, percent)
    <3>1. \A n : [Idle EXCEPT !.pc = "scav", !.op = "shrink",
                              !.tofree = n].op = "shrink"
      BY DEF Idle
    <3>. QED
      BY <1>1, <2>3, <3>1 DEF ShrinkBegin
  <2>4. CASE EmptyDone(t) \/ MallocFails(t) \/ ScavReturn(t) \/ ScavFails(t)
    BY <1>1, <2>4, IdleShape DEF EmptyDone, MallocFails, ScavReturn, ScavFails,
                                 Return
  <2>5. CASE PhaseScavenge(t)
    BY <1>1, <1>3, <2>5 DEF PhaseScavenge, Frame
  <2>6. CASE Relock(t) \/ ScavEnd(t) \/ ScavRetry(t)
    BY <1>1, <1>3, <2>6 DEF Relock, ScavEnd, ScavRetry, Goto, Frame
  <2>. QED
    BY <2>1, <2>2, <2>3, <2>4, <2>5, <2>6
<1>5. \A o \in Objs : ~Keeps(t, o)' /\ ~Keeps(t, o)
  BY <1>3, <1>4, NothingKept, NothingKeptNext
<1>6. \A o \in Linked : ~Storing(t, o)' /\ ~Storing(t, o)
  BY <1>3, <1>4 DEF Storing
<1>. QED
  BY <1>2, <1>4, <1>5, <1>6 DEF Hidden

-----------------------------------------------------------------------------
(* The refinement.                                                         *)

LEMMA ClientImplements ==
  ASSUME IInv, IInv', SerialClear, NEW t \in Threads, Client(t)
  PROVE  CacheStep
<1>1. CASE \E s \in Slots, o \in Objs : Create(t, s, o)
  BY <1>1, CreateImplements
<1>2. CASE \E s \in Slots, p \in Places : Keep(t, s, p)
  BY <1>2, KeepImplements
<1>3. CASE \E s \in Slots : Drop(t, s)
  BY <1>3, DropImplements
<1>4. CASE \E s \in Slots : StoreBegin(t, s)
  BY <1>4, StoreBeginHidden, HiddenImplements
<1>5. CASE \E s \in Slots, k \in Keys : Find(t, s, k)
  BY <1>5, FindImplements
<1>6. CASE \E k \in Removable : RemoveItem(t, k)
  BY <1>6, RemoveItemImplements
<1>7. CASE \/ EmptyBegin(t)
           \/ \E n \in Requests : MallocBegin(t, n)
           \/ \E percent \in Percents : ShrinkBegin(t, percent)
  BY <1>7, OtherHidden, HiddenImplements
<1>. QED
  BY <1>1, <1>2, <1>3, <1>4, <1>5, <1>6, <1>7 DEF Client

LEMMA StepImplements ==
  ASSUME IInv, IInv', NEW t \in Threads, Step(t)
  PROVE  CacheStep
<1>1. CASE Locked(t)
  <2>1. CASE \/ Fits(t) \/ EnsureSpace(t) \/ EnsureDone(t) \/ Saved(t)
             \/ OverBudget(t)
    BY <2>1, SpaceHidden, HiddenImplements
  <2>2. CASE \/ EmptyDone(t) \/ PhaseScavenge(t) \/ MallocFails(t)
             \/ ScavEnd(t) \/ ScavReturn(t) \/ ScavRetry(t) \/ ScavFails(t)
    BY <2>2, OtherHidden, HiddenImplements
  <2>3. CASE EnsureEvict(t) \/ EmptyEvict(t) \/ ScavEvict(t)
    BY <2>3, EvictImplements
  <2>4. CASE GiveUp(t)
    BY <2>4, GiveUpImplements
  <2>5. CASE Link(t)
    BY <2>5, LinkImplements
  <2>. QED
    BY <1>1, <2>1, <2>2, <2>3, <2>4, <2>5 DEF Locked
<1>2. CASE Acquire(t)
  <2>1. CASE InsertExisting(t)
    BY <2>1, InsertExistingImplements
  <2>2. CASE InsertFails(t)
    BY <2>2, ReturnHidden, HiddenImplements
  <2>3. CASE InsertNew(t)
    BY <2>3, InsertNewImplements
  <2>4. CASE Unpin(t)
    BY <2>4, SpaceHidden, HiddenImplements
  <2>5. CASE Relock(t)
    BY <2>5, OtherHidden, HiddenImplements
  <2>. QED
    BY <1>2, <2>1, <2>2, <2>3, <2>4, <2>5 DEF Acquire
<1>3. CASE Unref(t)
  BY <1>3, ReturnHidden, HiddenImplements
<1>. QED
  BY <1>1, <1>2, <1>3 DEF Step

LEMMA InitImplements ==
  ASSUME Init
  PROVE  Abstract!Init
<1>1. IInv
  BY InitInv
<1>2. Linked = {} /\ \A t \in Threads : th[t].op # "store"
  BY IdleShape DEF Init, Linked, Range
<1>3. CachedObjs = {}
  BY <1>1, <1>2, NothingKept, CachedMeans DEF CachedObjs
<1>. QED
  BY <1>3 DEF Init, Abstract!Init

\* Seen from outside, store.c is the cache of module Cache, for any number of
\* threads, objects and keys: objects enter and leave one at a time, are added
\* only while in use and only one for a hashable key, and each is destroyed by
\* the very step after which nobody refers to it, neither before nor after.
THEOREM StoreImplementsCache == ASSUME SerialClear PROVE Spec => ImplementsCache
<1>1. Init => Abstract!Init
  BY InitImplements
<1>2. /\ IInv /\ IInv' /\ [Next]_vars
      => [Abstract!Next]_<<var, life, CachedObjs>>
  <2>1. SUFFICES ASSUME IInv, IInv', [Next]_vars
                 PROVE  CacheStep
    BY DEF CacheStep
  <2>2. CASE Next
    <3>1. PICK t \in Threads : Client(t) \/ Step(t)
      BY <2>2 DEF Next
    <3>. QED
      BY <2>1, <3>1, ClientImplements, StepImplements
  <2>3. CASE UNCHANGED vars
    <3>1. UNCHANGED <<var, life, CachedObjs>>
      BY <2>3 DEF vars, CachedObjs, Cached, Storing, Linked
    <3>. QED
      BY <3>1 DEF CacheStep
  <2>. QED
    BY <2>1, <2>2, <2>3
<1>. QED
  BY <1>1, <1>2, Invariance, PTL DEF Spec, ImplementsCache, Abstract!Spec

-----------------------------------------------------------------------------
(* What evictions may take.                                                *)

SpaceStep ==
  \A t \in Threads :
    th'[t].pc = "freeing" /\ th[t].pc # "freeing" /\ th[t].op # "empty"
      => \A o \in Linked \ Linked' : Holders(o) \cup Pins(o) = {}

LEMMA EvictSpace ==
  ASSUME IInv, NEW t \in Threads, EnsureEvict(t) \/ ScavEvict(t) \/ EmptyEvict(t)
  PROVE  SpaceStep
<1>1. CASE EnsureEvict(t) \/ ScavEvict(t)
  <2>1. PICK v \in Linked : \E p : Evictable(v) /\ Evict(t, v, p)
    BY <1>1, EnsureEvictTakes, ScavEvictTakes
  <2>2. Linked' = Linked \ {v}
    BY <2>1, LinkedObjs, UnlinkOK DEF IInv, Linked, Evict
  <2>. QED
    BY <2>1, <2>2, EvictableUnused DEF SpaceStep
<1>2. CASE EmptyEvict(t)
  <2>1. \A u \in Threads : u # t => th'[u] = th[u]
    BY <1>2, EmptyEvictTakes
  <2>2. th[t].op = "empty"
    BY <1>2 DEF IInv, CallsOK, CallOK, EmptyEvict
  <2>. QED
    BY <2>1, <2>2 DEF SpaceStep
<1>. QED
  BY <1>1, <1>2

\* The list only loses objects in evict() and in fz_remove_item.
LEMMA NoneLeaves ==
  ASSUME IInv, NEW t \in Threads, Client(t) \/ Step(t),
         ~(EnsureEvict(t) \/ ScavEvict(t) \/ EmptyEvict(t)),
         \A k \in Removable : ~RemoveItem(t, k)
  PROVE  Linked \subseteq Linked'
<1>1. TypeOK /\ NoRepeat(lru) /\ HashMatchesList /\ CallsOK
  BY DEF IInv
<1>2. ASSUME NEW o \in Objs, lru' = Touch(o)
      PROVE  Linked \subseteq Linked'
  BY <1>1, <1>2, TouchOK DEF Linked
<1>3. CASE \E s \in Slots, k \in Keys : Find(t, s, k)
  BY <1>1, <1>2, <1>3, FoundOK DEF Find
<1>4. CASE InsertExisting(t)
  BY <1>1, <1>2, <1>4, IsStoring, OwnFacts, StoreAssumption
     DEF InsertExisting, StorePcs, TypeOK, Hashable
<1>5. CASE Link(t)
  BY <1>2, <1>5, IsStoring, OwnFacts DEF Link, StorePcs
<1>6. CASE UNCHANGED lru
  BY <1>6 DEF Linked
<1>7. CASE /\ ~\E s \in Slots, k \in Keys : Find(t, s, k)
           /\ Client(t)
  BY <1>6, <1>7 DEF Client, Create, Keep, Drop, StoreBegin, EmptyBegin,
                    MallocBegin, ShrinkBegin
<1>8. CASE Step(t) /\ ~InsertExisting(t) /\ ~Link(t)
  BY <1>6, <1>8 DEF Step, Locked, Acquire, Fits, EnsureSpace, EnsureDone, Saved,
     OverBudget, GiveUp, EmptyDone, PhaseScavenge, MallocFails, ScavEnd,
     ScavReturn, ScavRetry, ScavFails, InsertFails, InsertNew, Unpin, Relock,
     Unref
<1>. QED
  BY <1>3, <1>4, <1>5, <1>7, <1>8

\* ensure_space and scavenge evict only objects whose one reference is the
\* store's: none that a thread refers to, and none that ensure_space has pinned
\* in another thread.
THEOREM SpaceIsMadeFromUnused ==
  ASSUME SerialClear PROVE Spec => SpaceFromUnusedOnly
<1>1. IInv /\ [Next]_vars => [SpaceStep]_vars
  <2>1. SUFFICES ASSUME IInv, Next
                 PROVE  SpaceStep
    OBVIOUS
  <2>2. PICK t \in Threads : Client(t) \/ Step(t)
    BY <2>1 DEF Next
  <2>3. CASE EnsureEvict(t) \/ ScavEvict(t) \/ EmptyEvict(t)
    BY <2>1, <2>3, EvictSpace
  <2>4. CASE \E k \in Removable : RemoveItem(t, k)
    BY <2>4 DEF RemoveItem, SpaceStep
  <2>5. CASE /\ ~(EnsureEvict(t) \/ ScavEvict(t) \/ EmptyEvict(t))
             /\ \A k \in Removable : ~RemoveItem(t, k)
    BY <2>1, <2>2, <2>5, NoneLeaves DEF SpaceStep
  <2>. QED
    BY <2>3, <2>4, <2>5
<1>2. Spec => [][SpaceStep]_vars
  BY <1>1, Invariance, PTL DEF Spec
<1>. QED
  BY <1>2 DEF SpaceFromUnusedOnly, SpaceStep

-----------------------------------------------------------------------------
(* Sums of sizes.                                                          *)

Plus(m, n) == m + n
AnyOf(S) == CHOOSE x \in S : TRUE
Sums == INSTANCE ListLemmas WITH Op <- Plus, Pick <- AnyOf

LEMMA SumIsFold ==
  ASSUME NEW S
  PROVE  SumSizes(S) = Sums!Fold(SizeOf, 0, S)
BY DEF SumSizes, MapThenSumSet, Sums!Fold, Plus, AnyOf, MapThenFoldSet,
       Sums!MapThenFoldSet

LEMMA SumOfNone == SumSizes({}) = 0
<1>1. SumSizes({}) = Sums!Fold(SizeOf, 0, {})
  BY SumIsFold
<1>. QED
  BY <1>1, Sums!FoldEmpty

LEMMA SumOfOne ==
  ASSUME NEW S, IsFiniteSet(S), S # {}
  PROVE  \E x \in S : SumSizes(S) = SizeOf[x] + SumSizes(S \ {x})
<1>1. Sums!Picks(S) /\ Sums!IsFiniteSet(S) /\ AnyOf(S) \in S
  BY DEF Sums!Picks, AnyOf, IsFiniteSet, Sums!IsFiniteSet
<1>2. Sums!Fold(SizeOf, 0, S)
        = Plus(SizeOf[AnyOf(S)], Sums!Fold(SizeOf, 0, S \ {AnyOf(S)}))
  BY <1>1, Sums!FoldStep
<1>. QED
  BY <1>1, <1>2, SumIsFold DEF Plus

\* A sum does not depend on the order in which its elements are taken.
SumsRight(S) ==
  SumSizes(S) \in Nat /\ \A x \in S : SumSizes(S) = SizeOf[x] + SumSizes(S \ {x})

LEMMA SumType ==
  ASSUME NEW S \in SUBSET Objs, IsFiniteSet(S)
  PROVE  SumsRight(S)
<1>. DEFINE Wrong(n) == \E R \in SUBSET Objs :
                          IsFiniteSet(R) /\ Cardinality(R) = n /\ ~SumsRight(R)
            Bad == {n \in Nat : Wrong(n)}
<1>1. SUFFICES ASSUME ~SumsRight(S)
               PROVE  FALSE
  OBVIOUS
<1>2. Cardinality(S) \in Bad
  BY <1>1, FS_CardinalityType
<1>3. PICK n \in Bad : \A m \in Bad : n <= m
  <2>1. Bad \in SUBSET Nat /\ Bad # {}
    BY <1>2
  <2>. HIDE DEF Bad
  <2>. QED
    BY <2>1, LeastExists
<1>4. PICK R \in SUBSET Objs :
        IsFiniteSet(R) /\ Cardinality(R) = n /\ n \in Nat /\ ~SumsRight(R)
  OBVIOUS
<1>5. \A x \in R : SumsRight(R \ {x})
  <2>1. SUFFICES ASSUME NEW x \in R, ~SumsRight(R \ {x})
                 PROVE  FALSE
    OBVIOUS
  <2>2. IsFiniteSet(R \ {x}) /\ Cardinality(R \ {x}) = n - 1
    BY <1>4, FS_RemoveElement
  <2>3. n - 1 \in Nat
    BY <1>4, <2>2, FS_CardinalityType
  <2>4. n - 1 \in Bad
    BY <2>1, <2>2, <2>3
  <2>. QED
    BY <1>3, <1>4, <2>4
<1>6. CASE R = {}
  BY <1>4, <1>6, SumOfNone DEF SumsRight
<1>7. CASE R # {}
  <2>1. PICK y \in R : SumSizes(R) = SizeOf[y] + SumSizes(R \ {y})
    BY <1>4, <1>7, SumOfOne
  <2>2. \A x \in R : SumSizes(R \ {x}) \in Nat /\ SizeOf[x] \in Nat
    BY <1>5, StoreAssumption DEF SumsRight
  <2>3. ASSUME NEW x \in R, x # y
        PROVE  SumSizes(R) = SizeOf[x] + SumSizes(R \ {x})
    <3>1. x \in R \ {y} /\ y \in R \ {x}
      BY <2>3
    <3>2. /\ SumSizes(R \ {y}) = SizeOf[x] + SumSizes((R \ {y}) \ {x})
          /\ SumSizes(R \ {x}) = SizeOf[y] + SumSizes((R \ {x}) \ {y})
      BY <1>5, <3>1 DEF SumsRight
    <3>3. (R \ {y}) \ {x} = (R \ {x}) \ {y}
      OBVIOUS
    <3>4. PICK d : d = SumSizes((R \ {x}) \ {y})
      OBVIOUS
    <3>5. IsFiniteSet(R \ {x}) /\ R \ {x} \in SUBSET Objs
      BY <1>4, FS_RemoveElement
    <3>6. d \in Nat
      <4>1. IsFiniteSet((R \ {x}) \ {y})
        BY <3>5, FS_RemoveElement
      <4>2. /\ Cardinality((R \ {x}) \ {y}) = Cardinality(R \ {x}) - 1
            /\ Cardinality(R \ {x}) = n - 1
        BY <1>4, <3>1, <3>5, FS_RemoveElement
      <4>3. Cardinality((R \ {x}) \ {y}) \in Nat
        BY <4>1, FS_CardinalityType
      <4>4. Cardinality((R \ {x}) \ {y}) \notin Bad
        BY <1>3, <1>4, <4>2, <4>3
      <4>5. (R \ {x}) \ {y} \in SUBSET Objs
        OBVIOUS
      <4>6. SumsRight((R \ {x}) \ {y})
        BY <4>1, <4>3, <4>4, <4>5
      <4>. QED
        BY <3>4, <4>6 DEF SumsRight
    <3>. QED
      BY <2>1, <2>2, <3>2, <3>3, <3>4, <3>6
  <2>4. SumsRight(R)
    BY <2>1, <2>2, <2>3 DEF SumsRight
  <2>. QED
    BY <1>4, <2>4
<1>. QED
  BY <1>6, <1>7

\* What an element adds to a sum.
LEMMA SumPlus ==
  ASSUME NEW S \in SUBSET Objs, IsFiniteSet(S), NEW x \in Objs, x \notin S
  PROVE  SumSizes(S \cup {x}) = SumSizes(S) + SizeOf[x] /\ SumSizes(S) \in Nat
<1>1. IsFiniteSet(S \cup {x}) /\ S \cup {x} \in SUBSET Objs
  BY FS_AddElement
<1>2. SumsRight(S) /\ SumsRight(S \cup {x}) /\ (S \cup {x}) \ {x} = S
  BY <1>1, SumType
<1>3. SumSizes(S \cup {x}) = SizeOf[x] + SumSizes(S)
  BY <1>2 DEF SumsRight
<1>. QED
  BY <1>2, <1>3, StoreAssumption DEF SumsRight

LEMMA SumMinus ==
  ASSUME NEW S \in SUBSET Objs, IsFiniteSet(S), NEW x \in S
  PROVE  SumSizes(S \ {x}) = SumSizes(S) - SizeOf[x]
<1>1. IsFiniteSet(S \ {x}) /\ S \ {x} \in SUBSET Objs
  BY FS_RemoveElement
<1>2. SumsRight(S) /\ SumsRight(S \ {x})
  BY <1>1, SumType
<1>3. SumSizes(S) = SizeOf[x] + SumSizes(S \ {x}) /\ SumSizes(S \ {x}) \in Nat
  BY <1>2 DEF SumsRight
<1>. QED
  BY <1>3, StoreAssumption

-----------------------------------------------------------------------------
(* The size of the store.                                                  *)

Counted == Linked \ Uncounted

LEMMA CountedMeans ==
  ASSUME IInv
  PROVE  /\ Counted \in SUBSET Objs /\ IsFiniteSet(Counted)
         /\ \A o \in Objs : o \in Counted <=>
                              o \in Linked /\ \A t \in Threads : ~Storing(t, o)
<1>1. lru \in Seq(Objs)
  BY DEF IInv, TypeOK
<1>2. Linked \subseteq Objs
  BY LinkedObjs DEF IInv
<1>3. lru \in Seq(Linked) /\ \A o \in Linked : \E n \in 1..Len(lru) : lru[n] = o
  BY <1>1 DEF Linked, Range
<1>4. IsFiniteSet(Linked)
  BY <1>3 DEF IsFiniteSet
<1>5. IsFiniteSet(Counted)
  BY <1>4, FS_Subset DEF Counted
<1>. QED
  BY <1>2, <1>5 DEF Counted, Uncounted

SizeKept == size' = size /\ Counted' = Counted

LEMMA HiddenSize ==
  ASSUME NEW t \in Threads, Hidden(t)
  PROVE  SizeKept
<1>1. Linked' = Linked
  BY DEF Hidden, Linked
<1>2. \A u \in Threads, o \in Linked : Storing(u, o)' <=> Storing(u, o)
  BY DEF Hidden, Storing
<1>. QED
  BY <1>1, <1>2 DEF Hidden, SizeKept, Counted, Uncounted

\* A call that finds an object puts it into the list; if it was not there, its
\* own call is still storing it.
LEMMA TouchSize ==
  ASSUME IInv, IInv', NEW t \in Threads, NEW e \in Objs, Cached(e),
         lru' = Touch(e), size' = size,
         \A u \in Threads : u # t => th'[u] = th[u],
         \A o \in Objs : ~Storing(t, o) /\ ~Storing(t, o)'
  PROVE  SizeKept
<1>1. Linked' = Linked \cup {e}
  BY TouchOK DEF IInv, Linked
<1>2. \A u \in Threads, o \in Objs : Storing(u, o)' <=> Storing(u, o)
  BY DEF Storing
<1>3. Linked \subseteq Objs
  BY LinkedObjs DEF IInv
<1>4. e \notin Linked => \E u \in Threads : Storing(u, e)
  BY DEF Cached
<1>. QED
  BY <1>1, <1>2, <1>3, <1>4 DEF SizeKept, Counted, Uncounted

\* evict() takes the object's size from the total.
LEMMA EvictSize ==
  ASSUME IInv, IInv', NEW t \in Threads,
         EnsureEvict(t) \/ ScavEvict(t) \/ EmptyEvict(t)
  PROVE  \E v \in Counted : size' = size - SizeOf[v] /\ Counted' = Counted \ {v}
<1>1. PICK v \in Linked :
        /\ \E p : Evict(t, v, p)
        /\ \A u \in Threads : th[u].obj # v /\ th[u].pin # v
        /\ th'[t].pc = "freeing" /\ th'[t].obj = th[t].obj
        /\ \A u \in Threads : u # t => th'[u] = th[u]
  <2>1. CASE EnsureEvict(t)
    BY <2>1, EnsureEvictTakes, EvictableFree
  <2>2. CASE ScavEvict(t)
    BY <2>2, ScavEvictTakes, EvictableFree
  <2>3. CASE EmptyEvict(t)
    BY <2>3, EmptyEvictTakes
  <2>. QED
    BY <2>1, <2>2, <2>3
<1>2. size' = size - SizeOf[v] /\ Linked' = Linked \ {v}
  BY <1>1, LinkedObjs, UnlinkOK DEF IInv, Linked, Evict
<1>3. /\ \A u \in Threads : th[u].op = "store" <=> th[u].obj # None
      /\ \A u \in Threads : th'[u].op = "store" <=> th'[u].obj # None
      /\ th[t].pc # "insert"
  BY DEF IInv, CallsOK, CallOK, EnsureEvict, ScavEvict, EmptyEvict
<1>4. \A u \in Threads, o \in Objs : Storing(u, o)' <=> Storing(u, o)
  BY <1>1, <1>3, StoreAssumption DEF Storing
<1>5. Linked \subseteq Objs
  BY LinkedObjs DEF IInv
<1>6. Counted' = Counted \ {v}
  BY <1>2, <1>4, <1>5 DEF Counted, Uncounted
<1>7. v \in Counted
  BY <1>1 DEF Counted, Uncounted, Storing
<1>. QED
  BY <1>2, <1>6, <1>7

\* Linking an object adds its size: it was not counted before, whether or not
\* another thread had found it and linked it first.
LEMMA LinkSize ==
  ASSUME IInv, IInv', NEW t \in Threads, Link(t)
  PROVE  \E o \in Objs \ Counted :
           size' = size + SizeOf[o] /\ Counted' = Counted \cup {o}
<1>1. th[t].pc = "link" /\ th[t].op = "store" /\ th \in [Threads -> Frame]
  BY IsStoring DEF Link, StorePcs, IInv, TypeOK
<1>2. PICK o \in Objs : o = th[t].obj
  BY <1>1, OwnFacts
<1>3. \A u \in Threads : th[u].obj = o => u = t
  BY <1>1, <1>2, OwnFacts
<1>4. size' = size + SizeOf[o] /\ lru' = Touch(o) /\ th' = [th EXCEPT ![t] = Idle]
  BY <1>2 DEF Link, Return
<1>5. Linked' = Linked \cup {o} /\ Linked \subseteq Objs
  BY <1>4, TouchOK, LinkedObjs DEF IInv, Linked
<1>6. th'[t].op # "store" /\ \A u \in Threads : u # t => th'[u] = th[u]
  BY <1>1, <1>4, IdleShape
<1>7. \A x \in Objs \ {o}, u \in Threads : Storing(u, x)' <=> Storing(u, x)
  BY <1>2, <1>6 DEF Storing
<1>8. Storing(t, o) /\ \A u \in Threads : ~Storing(u, o)'
  BY <1>1, <1>2, <1>3, <1>6 DEF Storing
<1>9. Counted' = Counted \cup {o} /\ o \notin Counted
  BY <1>5, <1>7, <1>8 DEF Counted, Uncounted
<1>. QED
  BY <1>4, <1>9

LEMMA InsertNewSize ==
  ASSUME IInv, IInv', NEW t \in Threads, InsertNew(t)
  PROVE  SizeKept
<1>1. th[t].pc = "insert" /\ th[t].op = "store" /\ th \in [Threads -> Frame]
  BY IsStoring DEF InsertNew, StorePcs, IInv, TypeOK
<1>2. /\ UNCHANGED <<lru, size>>
      /\ th' = [th EXCEPT ![t].pc = IF StoreMax = 0 THEN "link" ELSE "check",
                          ![t].need = size + SizeOf[th[t].obj]]
  BY DEF InsertNew
<1>3. th'[t].obj = th[t].obj /\ \A u \in Threads : u # t => th'[u] = th[u]
  BY <1>1, <1>2 DEF Frame
<1>4. th[t].obj \notin Linked /\ Linked' = Linked
  BY <1>1, <1>2 DEF IInv, PlaceOK, Linked
<1>5. \A u \in Threads, o \in Linked : Storing(u, o)' <=> Storing(u, o)
  BY <1>3, <1>4 DEF Storing
<1>. QED
  BY <1>2, <1>4, <1>5 DEF SizeKept, Counted, Uncounted

LEMMA GiveUpSize ==
  ASSUME IInv, NEW t \in Threads, GiveUp(t)
  PROVE  SizeKept
<1>1. th[t].pc = "saved" /\ th[t].op = "store" /\ th \in [Threads -> Frame]
  BY IsStoring DEF GiveUp, StorePcs, IInv, TypeOK
<1>2. UNCHANGED <<lru, size>> /\ th' = [th EXCEPT ![t].pc = "unref"]
  BY DEF GiveUp, Goto
<1>3. /\ th'[t].pc = "unref" /\ th'[t].op = "store" /\ th'[t].obj = th[t].obj
      /\ \A u \in Threads : u # t => th'[u] = th[u]
  BY <1>1, <1>2 DEF Frame
<1>4. \A u \in Threads, o \in Objs : Storing(u, o)' <=> Storing(u, o)
  BY <1>1, <1>3 DEF Storing
<1>5. Linked' = Linked /\ Linked \subseteq Objs
  BY <1>2, LinkedObjs DEF IInv, Linked
<1>. QED
  BY <1>2, <1>4, <1>5 DEF SizeKept, Counted, Uncounted

LEMMA InsertExistingSize ==
  ASSUME IInv, IInv', NEW t \in Threads, InsertExisting(t)
  PROVE  SizeKept
<1>1. th[t].pc = "insert" /\ th[t].op = "store" /\ th \in [Threads -> Frame]
  BY IsStoring DEF InsertExisting, StorePcs, IInv, TypeOK
<1>2. PICK o \in Objs : o = th[t].obj
  BY <1>1, OwnFacts
<1>3. PICK e \in Objs : e = hash[KeyOf[o]] /\ Cached(e)
  BY <1>2, StoreAssumption
     DEF InsertExisting, IInv, TypeOK, HashMatchesList, Hashable
<1>4. lru' = Touch(e) /\ size' = size /\ th' = [th EXCEPT ![t] = Idle]
  BY <1>2, <1>3 DEF InsertExisting, Return
<1>5. \A u \in Threads : u # t => th'[u] = th[u]
  BY <1>4
<1>6. \A x \in Objs : ~Storing(t, x)' /\ ~Storing(t, x)
  BY <1>1, <1>4, IdleShape DEF Storing
<1>. QED
  BY <1>3, <1>4, <1>5, <1>6, TouchSize

LEMMA FindSize ==
  ASSUME IInv, IInv', NEW t \in Threads, NEW s \in Slots, NEW k \in Keys,
         Find(t, s, k)
  PROVE  SizeKept
<1>1. PICK e \in Objs : e = Found(k) /\ Cached(e)
  BY FoundOK DEF Find, IInv
<1>2. lru' = Touch(e) /\ UNCHANGED <<size, th>> /\ th[t].op = "none"
  BY <1>1, IdleFacts DEF Find, MayStart, IsIdle
<1>3. \A x \in Objs : ~Storing(t, x)' /\ ~Storing(t, x)
  BY <1>2 DEF Storing
<1>. QED
  BY <1>1, <1>2, <1>3, TouchSize

LEMMA ClientSize ==
  ASSUME IInv, IInv', Removable = {}, NEW t \in Threads, Client(t)
  PROVE  SizeKept
<1>1. CASE \/ \E s \in Slots, o \in Objs : Create(t, s, o)
           \/ \E s \in Slots, p \in Places : Keep(t, s, p)
           \/ \E s \in Slots : Drop(t, s)
  <2>1. UNCHANGED <<lru, size, th>>
    BY <1>1 DEF Create, Keep, Drop
  <2>. QED
    BY <2>1 DEF SizeKept, Counted, Uncounted, Linked, Storing
<1>2. CASE \E s \in Slots : StoreBegin(t, s)
  BY <1>2, StoreBeginHidden, HiddenSize
<1>3. CASE \E s \in Slots, k \in Keys : Find(t, s, k)
  BY <1>3, FindSize
<1>4. CASE \/ EmptyBegin(t)
           \/ \E n \in Requests : MallocBegin(t, n)
           \/ \E percent \in Percents : ShrinkBegin(t, percent)
  BY <1>4, OtherHidden, HiddenSize
<1>. QED
  BY <1>1, <1>2, <1>3, <1>4 DEF Client

LEMMA StepSize ==
  ASSUME IInv, IInv', NEW t \in Threads, Step(t)
  PROVE  SizeKept \/ Link(t) \/ EnsureEvict(t) \/ ScavEvict(t) \/ EmptyEvict(t)
<1>1. CASE \/ Fits(t) \/ EnsureSpace(t) \/ EnsureDone(t) \/ Saved(t)
           \/ OverBudget(t) \/ Unpin(t)
  BY <1>1, SpaceHidden, HiddenSize
<1>2. CASE \/ EmptyDone(t) \/ PhaseScavenge(t) \/ MallocFails(t) \/ Relock(t)
           \/ ScavEnd(t) \/ ScavReturn(t) \/ ScavRetry(t) \/ ScavFails(t)
  BY <1>2, OtherHidden, HiddenSize
<1>3. CASE Unref(t) \/ InsertFails(t)
  BY <1>3, ReturnHidden, HiddenSize
<1>4. CASE GiveUp(t) \/ InsertNew(t) \/ InsertExisting(t)
  BY <1>4, GiveUpSize, InsertNewSize, InsertExistingSize
<1>. QED
  BY <1>1, <1>2, <1>3, <1>4 DEF Step, Locked, Acquire

\* store->size is the total of the sizes of the listed objects, but for those
\* that another thread has linked before their own call has added their size,
\* for any number of threads and whatever is evicted meanwhile.  That nothing
\* is removed with fz_remove_item is needed: it leaves the size as it is.
THEOREM SizeIsTotal ==
  ASSUME SerialClear, Removable = {}
  PROVE  Spec => []SizeIsListed
<1>1. Init => SizeIsListed
  <2>1. SUFFICES ASSUME Init
                 PROVE  SizeIsListed
    OBVIOUS
  <2>2. Linked \ Uncounted = {} /\ size = 0
    BY <2>1 DEF Init, Linked, Range
  <2>. QED
    BY <2>2, SumOfNone DEF SizeIsListed
<1>2. IInv /\ IInv' /\ SizeIsListed /\ [Next]_vars => SizeIsListed'
  <2>1. SUFFICES ASSUME IInv, IInv', SizeIsListed, [Next]_vars
                 PROVE  size' = SumSizes(Counted')
    BY DEF SizeIsListed, Counted
  <2>2. size = SumSizes(Counted)
    BY <2>1 DEF SizeIsListed, Counted
  <2>3. Counted \in SUBSET Objs /\ IsFiniteSet(Counted)
    BY <2>1, CountedMeans
  <2>4. CASE SizeKept
    BY <2>2, <2>4 DEF SizeKept
  <2>5. CASE \E t \in Threads : EnsureEvict(t) \/ ScavEvict(t) \/ EmptyEvict(t)
    BY <2>1, <2>2, <2>3, <2>5, EvictSize, SumMinus
  <2>6. CASE \E t \in Threads : Link(t)
    <3>1. PICK o \in Objs \ Counted :
            size' = size + SizeOf[o] /\ Counted' = Counted \cup {o}
      BY <2>1, <2>6, LinkSize
    <3>. QED
      BY <2>2, <2>3, <3>1, SumPlus
  <2>7. CASE UNCHANGED vars
    BY <2>4, <2>7 DEF vars, SizeKept, Counted, Uncounted, Linked, Storing
  <2>8. CASE Next
    BY <2>1, <2>4, <2>5, <2>6, <2>8, ClientSize, StepSize DEF Next
  <2>. QED
    BY <2>1, <2>7, <2>8
<1>. QED
  BY <1>1, <1>2, Invariance, PTL DEF Spec

-----------------------------------------------------------------------------
(* The maximum, with a single thread.                                      *)

\* What the locals of fz_store_item say of the size when nobody interferes,
\* and that nobody else links its item.
RoomOK(t) ==
  th[t].op = "store" =>
    /\ th[t].obj \notin Linked
    /\ th[t].pc = "check" => th[t].need = size + SizeOf[th[t].obj]
    /\ th[t].pc \in {"scan", "freeing", "saved"} =>
         th[t].need = size + SizeOf[th[t].obj] + th[t].count
    /\ th[t].pc = "link" => StoreMax = 0 \/ size + SizeOf[th[t].obj] <= StoreMax

LEMMA BeginRoom ==
  ASSUME IInv, NEW t \in Threads, NEW s \in Slots, StoreBegin(t, s), BudgetKept
  PROVE  RoomOK(t)' /\ BudgetKept'
<1>1. th \in [Threads -> Frame] /\ \A o \in Linked : item[o] = "alloc"
  BY DEF IInv, TypeOK, ItemOK
<1>2. /\ th'[t].obj = var[<<t, s>>] /\ th'[t].pc = "insert"
      /\ item[var[<<t, s>>]] = "none" /\ UNCHANGED <<lru, size>>
  BY <1>1 DEF StoreBegin, Idle
<1>. QED
  BY <1>1, <1>2 DEF RoomOK, Linked, BudgetKept

LEMMA NewRoom ==
  ASSUME IInv, NEW t \in Threads, InsertNew(t), RoomOK(t), BudgetKept
  PROVE  RoomOK(t)' /\ BudgetKept'
<1>1. th \in [Threads -> Frame] /\ th[t].op = "store"
  BY IsStoring DEF IInv, TypeOK, InsertNew, StorePcs
<1>2. /\ th'[t].obj = th[t].obj /\ th'[t].need = size + SizeOf[th[t].obj]
      /\ th'[t].pc = IF StoreMax = 0 THEN "link" ELSE "check"
      /\ UNCHANGED <<lru, size>>
  BY <1>1 DEF InsertNew, Frame
<1>. QED
  BY <1>1, <1>2 DEF RoomOK, Linked, BudgetKept

LEMMA SpaceRoom ==
  ASSUME IInv, NEW t \in Threads, RoomOK(t), BudgetKept,
         \/ Fits(t) \/ EnsureSpace(t) \/ EnsureDone(t) \/ Saved(t)
         \/ OverBudget(t) \/ Unpin(t) \/ GiveUp(t)
  PROVE  RoomOK(t)' /\ BudgetKept'
<1>1. th \in [Threads -> Frame] /\ th[t] \in Frame /\ size \in Int
  BY DEF IInv, TypeOK
<1>2. UNCHANGED <<lru, size>> /\ Linked' = Linked
  BY DEF Fits, EnsureSpace, EnsureDone, Saved, OverBudget, Unpin, GiveUp, Linked
<1>3. th[t].op = "store" /\ th[t].obj \in Objs
  <2>1. th[t].op = "store"
    BY IsStoring DEF Fits, EnsureSpace, EnsureDone, Saved, OverBudget, Unpin,
                     GiveUp, StorePcs
  <2>. QED
    BY <2>1, OwnFacts
<1>4. SizeOf[th[t].obj] \in Nat /\ th[t].count \in Nat
  BY <1>1, <1>3, StoreAssumption DEF Frame
<1>. USE <1>1, <1>2, <1>3, <1>4 DEF RoomOK, BudgetKept, Goto
<1>5. CASE Fits(t)
  BY <1>5 DEF Fits, Frame
<1>6. CASE EnsureSpace(t)
  <2>1. /\ th'[t].obj = th[t].obj /\ th'[t].op = "store" /\ th'[t].count = 0
        /\ th'[t].need = th[t].need /\ th'[t].pc \in {"scan", "saved"}
    BY <1>6 DEF EnsureSpace, Frame
  <2>2. th[t].pc = "check"
    BY <1>6 DEF EnsureSpace
  <2>. QED
    BY <2>1, <2>2
<1>7. CASE EnsureDone(t)
  BY <1>7 DEF EnsureDone, Frame
<1>8. CASE Saved(t)
  <2>1. /\ th'[t].obj = th[t].obj /\ th'[t].op = "store"
        /\ th'[t].need = th[t].need - th[t].count /\ th'[t].pc = "check"
    BY <1>8 DEF Saved, Frame
  <2>2. th[t].pc = "saved"
    BY <1>8 DEF Saved
  <2>. QED
    BY <2>1, <2>2
<1>9. CASE OverBudget(t)
  BY <1>9 DEF OverBudget
<1>10. CASE Unpin(t)
  <2>1. /\ th'[t].obj = th[t].obj /\ th'[t].op = "store"
        /\ th'[t].need = th[t].need /\ th'[t].count = th[t].count
        /\ th'[t].pc \in {"saved", "scan"}
    BY <1>10 DEF Unpin, Frame
  <2>2. th[t].pc = "freeing"
    BY <1>10 DEF Unpin
  <2>. QED
    BY <2>1, <2>2
<1>11. CASE GiveUp(t)
  BY <1>11 DEF GiveUp, Frame
<1>. QED
  BY <1>5, <1>6, <1>7, <1>8, <1>9, <1>10, <1>11

LEMMA EvictRoom ==
  ASSUME IInv, NEW t \in Threads, EnsureEvict(t), RoomOK(t), BudgetKept
  PROVE  RoomOK(t)' /\ BudgetKept'
<1>1. /\ th \in [Threads -> Frame] /\ th[t] \in Frame /\ size \in Int
      /\ TypeOK /\ NoRepeat(lru) /\ lru \in Seq(Objs)
  BY DEF IInv, TypeOK
<1>2. th[t].op = "store" /\ th[t].obj \in Objs /\ th[t].pc = "scan"
  <2>1. th[t].op = "store" /\ th[t].pc = "scan"
    BY IsStoring DEF EnsureEvict, StorePcs
  <2>. QED
    BY <2>1, OwnFacts
<1>. DEFINE v == lru[VictimFrom(th[t].cur)]
<1>3. VictimFrom(th[t].cur) \in 1..Len(lru)
  <2>1. VictimFrom(th[t].cur) # 0
    BY DEF EnsureEvict
  <2>. QED
    BY <1>1, <2>1, VictimOK
<1>4. v \in Objs
  BY <1>1, <1>3
<1>5. /\ size' = size - SizeOf[v] /\ lru' = Unlink(v)
      /\ th'[t].obj = th[t].obj /\ th'[t].op = "store" /\ th'[t].pc = "freeing"
      /\ th'[t].need = th[t].need /\ th'[t].count = th[t].count + SizeOf[v]
  BY <1>1, <1>2 DEF EnsureEvict, Evict, Frame
<1>. HIDE DEF v
<1>6. Linked' = Linked \ {v}
  <2>1. Range(Unlink(v)) = Linked \ {v}
    BY <1>1, <1>4, UnlinkOK
  <2>. QED
    BY <1>5, <2>1 DEF Linked
<1>7. SizeOf[v] \in Nat /\ SizeOf[th[t].obj] \in Nat /\ th[t].count \in Nat
  BY <1>1, <1>2, <1>4, StoreAssumption DEF Frame
<1>. QED
  BY <1>1, <1>2, <1>5, <1>6, <1>7, StoreAssumption DEF RoomOK, BudgetKept

\* The steps that end a call of fz_store_item, or belong to another call.
LEMMA OtherRoom ==
  ASSUME IInv, IInv', NEW t \in Threads, BudgetKept, RoomOK(t),
         \/ Unref(t) \/ InsertFails(t) \/ InsertExisting(t) \/ Link(t)
         \/ EmptyDone(t) \/ PhaseScavenge(t) \/ MallocFails(t) \/ Relock(t)
         \/ ScavEnd(t) \/ ScavReturn(t) \/ ScavRetry(t) \/ ScavFails(t)
         \/ ScavEvict(t) \/ EmptyEvict(t)
  PROVE  th'[t].op # "store" /\ BudgetKept'
<1>1. /\ th \in [Threads -> Frame] /\ th[t] \in Frame /\ size \in Int /\ CallsOK
      /\ StoreMax \in Nat /\ \A o \in Objs : SizeOf[o] \in Nat
  BY StoreAssumption DEF IInv, TypeOK
<1>. USE DEF Goto, Return
<1>2. CASE Unref(t) \/ InsertFails(t) \/ InsertExisting(t)
  BY <1>1, <1>2, IdleShape DEF Unref, InsertFails, InsertExisting, BudgetKept
<1>3. CASE Link(t)
  <2>1. th[t].op = "store" /\ th[t].pc = "link"
    BY <1>3, IsStoring DEF Link, StorePcs
  <2>2. th[t].obj \in Objs
    BY <2>1, OwnFacts
  <2>. QED
    BY <1>1, <1>3, <2>1, <2>2, IdleShape DEF Link, RoomOK, BudgetKept
<1>4. CASE \/ EmptyDone(t) \/ PhaseScavenge(t) \/ MallocFails(t) \/ Relock(t)
           \/ ScavEnd(t) \/ ScavReturn(t) \/ ScavRetry(t) \/ ScavFails(t)
  <2>1. th[t].op # "store"
    BY <1>1, <1>4 DEF EmptyDone, PhaseScavenge, MallocFails, Relock, ScavEnd,
       ScavReturn, ScavRetry, ScavFails, CallsOK, CallOK, StorePcs
  <2>2. UNCHANGED size
    BY <1>4 DEF EmptyDone, PhaseScavenge, MallocFails, Relock, ScavEnd,
       ScavReturn, ScavRetry, ScavFails
  <2>3. th'[t].op # "store"
    BY <1>1, <1>4, <2>1, IdleShape DEF EmptyDone, PhaseScavenge, MallocFails,
       Relock, ScavEnd, ScavReturn, ScavRetry, ScavFails, Frame
  <2>. QED
    BY <2>2, <2>3 DEF BudgetKept
<1>5. CASE ScavEvict(t) \/ EmptyEvict(t)
  <2>1. th[t].op # "store"
    BY <1>1, <1>5 DEF ScavEvict, EmptyEvict, CallsOK, CallOK, StorePcs
  <2>2. PICK v \in Counted : size' = size - SizeOf[v]
    BY <1>5, EvictSize
  <2>3. v \in Objs
    BY LinkedObjs DEF Counted, IInv
  <2>4. th'[t].op # "store"
    BY <1>1, <1>5, <2>1 DEF ScavEvict, EmptyEvict, Frame
  <2>. QED
    BY <1>1, <2>2, <2>3, <2>4 DEF BudgetKept
<1>. QED
  BY <1>2, <1>3, <1>4, <1>5

\* The other beginnings: objects outside the store, and other calls.
LEMMA ClientRoom ==
  ASSUME IInv, NEW t \in Threads, BudgetKept,
         \/ \E s \in Slots, o \in Objs : Create(t, s, o)
         \/ \E s \in Slots, p \in Places : Keep(t, s, p)
         \/ \E s \in Slots : Drop(t, s)
         \/ \E s \in Slots, k \in Keys : Find(t, s, k)
         \/ \E k \in Removable : RemoveItem(t, k)
         \/ EmptyBegin(t)
         \/ \E n \in Requests : MallocBegin(t, n)
         \/ \E percent \in Percents : ShrinkBegin(t, percent)
  PROVE  th'[t].op # "store" /\ BudgetKept'
<1>1. th \in [Threads -> Frame] /\ th[t].op # "store"
  <2>1. th[t].pc = "idle"
    BY DEF Create, Keep, Drop, Find, RemoveItem, EmptyBegin, MallocBegin,
           ShrinkBegin, MayStart, MayClear, IsIdle
  <2>. QED
    BY <2>1, IdleFacts DEF IInv, TypeOK
<1>2. UNCHANGED size
  BY DEF Create, Keep, Drop, Find, RemoveItem, EmptyBegin, MallocBegin, ShrinkBegin
<1>3. \/ UNCHANGED th
      \/ th' = [th EXCEPT ![t] = [Idle EXCEPT !.pc = "empty", !.op = "empty"]]
      \/ \E n \in Requests :
           th' = [th EXCEPT ![t] = [Idle EXCEPT !.pc = "phase", !.op = "malloc",
                                                !.need = n]]
      \/ \E m : th' = [th EXCEPT ![t] = [Idle EXCEPT !.pc = "scav", !.op = "shrink",
                                                     !.tofree = m]]
  BY DEF Create, Keep, Drop, Find, RemoveItem, EmptyBegin, MallocBegin, ShrinkBegin
<1>4. th'[t].op # "store"
  BY <1>1, <1>3 DEF Idle
<1>. QED
  BY <1>2, <1>4 DEF BudgetKept

\* A program with a single thread never takes the store over its maximum:
\* fz_store_item links an item only when the size it computed before making
\* space, less what it has freed, leaves room for it.
THEOREM OneThreadKeepsBudget ==
  ASSUME SerialClear, NEW t, Threads = {t}
  PROVE  Spec => []BudgetKept
<1>. DEFINE Inv == RoomOK(t) /\ BudgetKept
<1>1. Init => Inv
  BY StoreAssumption DEF Init, Idle, RoomOK, BudgetKept
<1>2. IInv /\ IInv' /\ Inv /\ [Next]_vars => Inv'
  <2>1. SUFFICES ASSUME IInv, IInv', RoomOK(t), BudgetKept, [Next]_vars
                 PROVE  RoomOK(t)' /\ BudgetKept'
    OBVIOUS
  <2>2. t \in Threads
    OBVIOUS
  <2>3. CASE UNCHANGED vars
    BY <2>1, <2>3 DEF vars, RoomOK, BudgetKept, Linked
  <2>4. CASE Client(t)
    <3>1. CASE \E s \in Slots : StoreBegin(t, s)
      BY <2>1, <2>2, <3>1, BeginRoom
    <3>2. CASE ~\E s \in Slots : StoreBegin(t, s)
      <4>1. th'[t].op # "store" /\ BudgetKept'
        BY <2>1, <2>2, <2>4, <3>2, ClientRoom DEF Client
      <4>. QED
        BY <4>1 DEF RoomOK
    <3>. QED
      BY <3>1, <3>2
  <2>5. CASE Step(t)
    <3>1. CASE InsertNew(t)
      BY <2>1, <2>2, <3>1, NewRoom
    <3>2. CASE EnsureEvict(t)
      BY <2>1, <2>2, <3>2, EvictRoom
    <3>3. CASE \/ Fits(t) \/ EnsureSpace(t) \/ EnsureDone(t) \/ Saved(t)
               \/ OverBudget(t) \/ Unpin(t) \/ GiveUp(t)
      BY <2>1, <2>2, <3>3, SpaceRoom
    <3>4. CASE \/ Unref(t) \/ InsertFails(t) \/ InsertExisting(t) \/ Link(t)
               \/ EmptyDone(t) \/ PhaseScavenge(t) \/ MallocFails(t) \/ Relock(t)
               \/ ScavEnd(t) \/ ScavReturn(t) \/ ScavRetry(t) \/ ScavFails(t)
               \/ ScavEvict(t) \/ EmptyEvict(t)
      <4>1. th'[t].op # "store" /\ BudgetKept'
        BY <2>1, <2>2, <3>4, OtherRoom
      <4>. QED
        BY <4>1 DEF RoomOK
    <3>. QED
      BY <2>5, <3>1, <3>2, <3>3, <3>4 DEF Step, Locked, Acquire
  <2>. QED
    BY <2>1, <2>3, <2>4, <2>5 DEF Next
<1>. QED
  BY <1>1, <1>2, Invariance, PTL DEF Spec

=============================================================================
