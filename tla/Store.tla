------------------------------- MODULE Store -------------------------------
(***************************************************************************)
(* The resource store of MuPDF (source/fitz/store.c): a cache of decoded   *)
(* objects shared by every thread of the program.  An object lives as long *)
(* as its reference count is positive; the store keeps one reference to    *)
(* each object it caches, and evicts from the least recently used end the  *)
(* objects nobody else refers to.                                          *)
(*                                                                         *)
(* All of it happens under the lock FZ_LOCK_ALLOC, but evict() gives that  *)
(* lock up to run the destructors, in the middle of fz_store_item, of the  *)
(* scavenging allocator and of fz_empty_store.  A step of this module is   *)
(* a piece of one thread's call between two points where another thread    *)
(* can run, or a shorter one inside a piece (then lock = t).               *)
(*                                                                         *)
(* An object is identified with the fz_item that carries it: each object   *)
(* is decoded for one key and given to fz_store_item at most once, and     *)
(* addresses are not reused, so a use of freed memory stays visible.       *)
(***************************************************************************)
EXTENDS Integers, FiniteSets, Sequences, SequencesExt

CONSTANTS
  Threads,      \* threads with a context that shares the store
  Slots,        \* reference variables each thread has
  Objs,         \* the objects (fz_storable) ever created
  Keys,         \* the keys objects are stored under
  HashKeys,     \* keys for which type->make_hash_key succeeds
  KeyOf,        \* the key each object is decoded for
  SizeOf,       \* itemsize of each object
  StoreMax,     \* store->max, 0 for FZ_STORE_UNLIMITED
  UIntMax,      \* UINT_MAX
  Requests,     \* sizes asked of the allocator when memory has run out
  Percents,     \* arguments of fz_shrink_store
  Removable,    \* keys that fz_remove_item is called for (failed loads)
  SerialClear,  \* nobody else is in the store during remove and empty
  None

ASSUME StoreAssumption ==
  /\ IsFiniteSet(Threads) /\ IsFiniteSet(Slots)
  /\ HashKeys \subseteq Keys /\ Removable \subseteq Keys
  /\ KeyOf \in [Objs -> Keys]
  /\ SizeOf \in [Objs -> Nat \ {0}]
  /\ StoreMax \in Nat /\ UIntMax \in Nat
  /\ Requests \subseteq Nat \ {0}
  /\ Percents \subseteq 0..99
  /\ SerialClear \in BOOLEAN
  /\ None \notin Objs /\ None \notin Threads

VARIABLES
  lock,   \* the thread that holds FZ_LOCK_ALLOC, or None
  lru,    \* the linked list, store->head first
  hash,   \* store->hash: what a key finds, or None
  size,   \* store->size
  refs,   \* val->refs of each object
  life,   \* "unborn", "live" or "dropped" (its destructor has been called)
  item,   \* the object's fz_item: "none", "alloc" or "freed"
  var,    \* the thread's reference variables: an object or None
  th      \* the call each thread is in, and that call's locals

vars == <<lock, lru, hash, size, refs, life, item, var, th>>

Places == Threads \X Slots

Idle == [pc |-> "idle", op |-> "none", obj |-> None, slot |-> None,
         need |-> 0, tofree |-> 0, count |-> 0, cur |-> None, pin |-> None,
         phase |-> 0]

Init ==
  /\ lock = None
  /\ lru = <<>>
  /\ hash = [k \in HashKeys |-> None]
  /\ size = 0
  /\ refs = [o \in Objs |-> 0]
  /\ life = [o \in Objs |-> "unborn"]
  /\ item = [o \in Objs |-> "none"]
  /\ var = [p \in Places |-> None]
  /\ th = [t \in Threads |-> Idle]

-----------------------------------------------------------------------------
(* The list, the hash and the counts.                                      *)

Linked == Range(lru)
Position(o) == CHOOSE i \in DOMAIN lru : lru[i] = o
Unlink(o) == IF o \in Linked THEN RemoveAt(lru, Position(o)) ELSE lru

\* touch(): to the head of the list, whether or not it was in it.
Touch(o) == <<o>> \o Unlink(o)

Hashable(o) == KeyOf[o] \in HashKeys
Unhash(o) == IF Hashable(o) THEN [hash EXCEPT ![KeyOf[o]] = None] ELSE hash

\* What fz_find_item and fz_remove_item find: the hash, or the first match.
Found(k) ==
  IF k \in HashKeys THEN hash[k]
  ELSE LET at == {i \in DOMAIN lru : KeyOf[lru[i]] = k}
       IN  IF at = {} THEN None
           ELSE lru[CHOOSE i \in at : \A j \in at : i <= j]

\* A count that is not positive is that of a static object: it stays.
Inc(n) == IF n > 0 THEN n + 1 ELSE n
Dec(n) == IF n > 0 THEN n - 1 ELSE n

Evictable(o) == refs[o] = 1
Dropped(o) == IF refs[o] = 1 THEN [life EXCEPT ![o] = "dropped"] ELSE life

SumSizes(S) == MapThenSumSet(LAMBDA o : SizeOf[o], S)

FreeSlots(t) == {s \in Slots : var[<<t, s>>] = None}
IsIdle(t) == th[t].pc = "idle"

\* SerialClear is an assumption about the callers, which store.h does not
\* state: nothing overlaps fz_remove_item and fz_empty_store.  An item that is
\* in the hash but not in the list yet is then never met by a removal.
MayStart(t) ==
  /\ IsIdle(t)
  /\ SerialClear => \A u \in Threads : th[u].op # "empty"
MayClear(t) ==
  /\ IsIdle(t)
  /\ SerialClear => \A u \in Threads : IsIdle(u)

Goto(t, pc) == th' = [th EXCEPT ![t].pc = pc]
Return(t) == th' = [th EXCEPT ![t] = Idle]

-----------------------------------------------------------------------------
(* Objects outside the store.                                              *)

\* Decode an object: FZ_INIT_STORABLE with a count of 1.
Create(t, s, o) ==
  /\ MayStart(t) /\ var[<<t, s>>] = None /\ life[o] = "unborn"
  /\ life' = [life EXCEPT ![o] = "live"]
  /\ refs' = [refs EXCEPT ![o] = 1]
  /\ var' = [var EXCEPT ![<<t, s>>] = o]
  /\ UNCHANGED <<lock, lru, hash, size, item, th>>

\* fz_keep_storable on an object some thread refers to.  An object is shared
\* only after the fz_store_item that may decrement its count without the lock.
Keep(t, s, p) ==
  /\ MayStart(t) /\ lock = None /\ var[<<t, s>>] = None /\ var[p] # None
  /\ \A u \in Threads : th[u].obj # var[p]
  /\ refs' = [refs EXCEPT ![var[p]] = Inc(@)]
  /\ var' = [var EXCEPT ![<<t, s>>] = var[p]]
  /\ UNCHANGED <<lock, lru, hash, size, life, item, th>>

\* fz_drop_storable.
Drop(t, s) ==
  /\ MayStart(t) /\ lock = None /\ var[<<t, s>>] # None
  /\ LET o == var[<<t, s>>] IN
       /\ refs' = [refs EXCEPT ![o] = Dec(@)]
       /\ life' = Dropped(o)
  /\ var' = [var EXCEPT ![<<t, s>>] = None]
  /\ UNCHANGED <<lock, lru, hash, size, item, th>>

-----------------------------------------------------------------------------
(* evict(): unlink v, drop the store's reference and leave the hash, then  *)
(* release the lock to run the destructors.  ensure_space pins its next    *)
(* candidate p over that window; the other callers pin nothing.            *)

\* Mutants of Evict: the predecessor is not pinned; the hash entry stays; the
\* size is not given back.
Evict_NoPin(t, v, p) ==
  /\ size' = size - SizeOf[v]
  /\ lru' = Unlink(v)
  /\ refs' = [refs EXCEPT ![v] = Dec(@)]
  /\ life' = Dropped(v)
  /\ hash' = Unhash(v)
  /\ item' = [item EXCEPT ![v] = "freed"]
  /\ lock' = None
  /\ UNCHANGED var

Evict_KeepsHash(t, v, p) ==
  /\ size' = size - SizeOf[v]
  /\ lru' = Unlink(v)
  /\ refs' = [o \in Objs |-> IF o = v THEN Dec(refs[o])
                             ELSE IF o = p THEN refs[o] + 1 ELSE refs[o]]
  /\ life' = Dropped(v)
  /\ item' = [item EXCEPT ![v] = "freed"]
  /\ lock' = None
  /\ UNCHANGED <<hash, var>>

Evict_KeepsSize(t, v, p) ==
  /\ lru' = Unlink(v)
  /\ refs' = [o \in Objs |-> IF o = v THEN Dec(refs[o])
                             ELSE IF o = p THEN refs[o] + 1 ELSE refs[o]]
  /\ life' = Dropped(v)
  /\ hash' = Unhash(v)
  /\ item' = [item EXCEPT ![v] = "freed"]
  /\ lock' = None
  /\ UNCHANGED <<size, var>>

Evict(t, v, p) ==
  /\ size' = size - SizeOf[v]
  /\ lru' = Unlink(v)
  /\ refs' = [o \in Objs |-> IF o = v THEN Dec(refs[o])
                             ELSE IF o = p THEN refs[o] + 1 ELSE refs[o]]
  /\ life' = Dropped(v)
  /\ hash' = Unhash(v)
  /\ item' = [item EXCEPT ![v] = "freed"]
  /\ lock' = None
  /\ UNCHANGED var

-----------------------------------------------------------------------------
(* fz_store_item                                                           *)

\* The early returns and the allocation of the item; the call needs a second
\* variable for the object it may return.
StoreBegin(t, s) ==
  /\ MayStart(t)
  /\ LET o == var[<<t, s>>] IN
       /\ o # None /\ item[o] = "none"
       /\ StoreMax = 0 \/ SizeOf[o] <= StoreMax
       /\ \E r \in FreeSlots(t) :
            th' = [th EXCEPT ![t] = [Idle EXCEPT !.pc = "insert", !.op = "store",
                                                 !.obj = o, !.slot = r]]
       /\ item' = [item EXCEPT ![o] = "alloc"]
  /\ UNCHANGED <<lock, lru, hash, size, refs, life, var>>

\* The hash has an entry for the key: return that object with a new reference.
InsertExisting(t) ==
  LET o == th[t].obj IN
  /\ th[t].pc = "insert" /\ lock = None
  /\ Hashable(o) /\ hash[KeyOf[o]] # None
  /\ LET e == hash[KeyOf[o]] IN
       /\ lru' = Touch(e)
       /\ refs' = [refs EXCEPT ![e] = Inc(@)]
       /\ var' = [var EXCEPT ![<<t, th[t].slot>>] = e]
  /\ item' = [item EXCEPT ![o] = "freed"]
  /\ Return(t)
  /\ UNCHANGED <<lock, hash, size, life>>

\* The hash table has to grow and there is no memory: nothing is stored.
InsertFails(t) ==
  LET o == th[t].obj IN
  /\ th[t].pc = "insert" /\ lock = None /\ Hashable(o)
  /\ item' = [item EXCEPT ![o] = "freed"]
  /\ Return(t)
  /\ UNCHANGED <<lock, lru, hash, size, refs, life, var>>

\* Mutant: the space needed leaves out the item itself.
InsertNew_ForgetsItem(t) ==
  LET o == th[t].obj IN
  /\ th[t].pc = "insert" /\ lock = None
  /\ Hashable(o) => hash[KeyOf[o]] = None
  /\ hash' = IF Hashable(o) THEN [hash EXCEPT ![KeyOf[o]] = o] ELSE hash
  /\ refs' = [refs EXCEPT ![o] = Inc(@)]
  /\ lock' = t
  /\ th' = [th EXCEPT ![t].pc = IF StoreMax = 0 THEN "link" ELSE "check",
                      ![t].need = size]
  /\ UNCHANGED <<lru, size, life, item, var>>

InsertNew(t) ==
  LET o == th[t].obj IN
  /\ th[t].pc = "insert" /\ lock = None
  /\ Hashable(o) => hash[KeyOf[o]] = None
  /\ hash' = IF Hashable(o) THEN [hash EXCEPT ![KeyOf[o]] = o] ELSE hash
  /\ refs' = [refs EXCEPT ![o] = Inc(@)]
  /\ lock' = t
  /\ th' = [th EXCEPT ![t].pc = IF StoreMax = 0 THEN "link" ELSE "check",
                      ![t].need = size + SizeOf[o]]
  /\ UNCHANGED <<lru, size, life, item, var>>

Fits(t) ==
  /\ th[t].pc = "check" /\ th[t].need <= StoreMax
  /\ Goto(t, "link")
  /\ UNCHANGED <<lock, lru, hash, size, refs, life, item, var>>

\* ensure_space, first pass: can so much be freed at all?
EnsureSpace(t) ==
  LET tofree == th[t].need - StoreMax IN
  /\ th[t].pc = "check" /\ tofree > 0
  /\ IF lru # <<>> /\ SumSizes({o \in Linked : Evictable(o)}) >= tofree
     THEN th' = [th EXCEPT ![t].pc = "scan", ![t].tofree = tofree,
                           ![t].count = 0, ![t].cur = lru[Len(lru)]]
     ELSE th' = [th EXCEPT ![t].pc = "saved", ![t].count = 0]
  /\ UNCHANGED <<lock, lru, hash, size, refs, life, item, var>>

\* Mutant: the reference count of the victim is not looked at.
VictimFrom_Any(o) == IF o \in Linked THEN Position(o) ELSE 0

\* The place of the next victim from o towards the head, 0 if there is none.
VictimFrom(o) ==
  LET at == IF o \in Linked
            THEN {i \in 1..Position(o) : Evictable(lru[i])} ELSE {}
  IN  IF at = {} THEN 0 ELSE CHOOSE i \in at : \A j \in at : j <= i

\* ensure_space, second pass: evict the next victim with its predecessor pinned.
EnsureEvict(t) ==
  LET i == VictimFrom(th[t].cur)
      p == IF i > 1 THEN lru[i - 1] ELSE None
  IN
  /\ th[t].pc = "scan" /\ i > 0
  /\ Evict(t, lru[i], p)
  /\ th' = [th EXCEPT ![t].pc = "freeing", ![t].pin = p,
                      ![t].count = @ + SizeOf[lru[i]]]

EnsureDone(t) ==
  /\ th[t].pc = "scan" /\ VictimFrom(th[t].cur) = 0
  /\ Goto(t, "saved")
  /\ UNCHANGED <<lock, lru, hash, size, refs, life, item, var>>

\* Mutant: the pin is never taken off.
Unpin_Leaks(t) ==
  /\ th[t].pc = "freeing" /\ th[t].op = "store" /\ lock = None
  /\ lock' = t
  /\ th' = [th EXCEPT ![t].pin = None, ![t].cur = th[t].pin,
                      ![t].pc = IF th[t].count >= th[t].tofree
                                THEN "saved" ELSE "scan"]
  /\ UNCHANGED <<lru, hash, size, refs, life, item, var>>

\* evict() takes the lock back; ensure_space unpins and looks at its count.
Unpin(t) ==
  LET p == th[t].pin IN
  /\ th[t].pc = "freeing" /\ th[t].op = "store" /\ lock = None
  /\ lock' = t
  /\ refs' = IF p = None THEN refs ELSE [refs EXCEPT ![p] = @ - 1]
  /\ th' = [th EXCEPT ![t].pin = None, ![t].cur = p,
                      ![t].pc = IF th[t].count >= th[t].tofree
                                THEN "saved" ELSE "scan"]
  /\ UNCHANGED <<lru, hash, size, life, item, var>>

\* Space was made: it is subtracted from the total this call computed.
Saved(t) ==
  /\ th[t].pc = "saved" /\ th[t].count > 0
  /\ th' = [th EXCEPT ![t].pc = "check", ![t].need = @ - th[t].count]
  /\ UNCHANGED <<lock, lru, hash, size, refs, life, item, var>>

\* No space, but another thread has found the item and put it in the list.
OverBudget(t) ==
  LET o == th[t].obj IN
  /\ th[t].pc = "saved" /\ th[t].count = 0
  /\ Hashable(o) /\ o \in Linked
  /\ Goto(t, "link")
  /\ UNCHANGED <<lock, lru, hash, size, refs, life, item, var>>

\* Mutant: nobody is expected to have found the item meanwhile.
GiveUp_Always(t) ==
  /\ th[t].pc = "saved" /\ th[t].count = 0
  /\ hash' = Unhash(th[t].obj)
  /\ item' = [item EXCEPT ![th[t].obj] = "freed"]
  /\ lock' = None
  /\ Goto(t, "unref")
  /\ UNCHANGED <<lru, size, refs, life, var>>

\* No space: take the item out of the hash again and free it ...
GiveUp(t) ==
  LET o == th[t].obj IN
  /\ th[t].pc = "saved" /\ th[t].count = 0
  /\ ~(Hashable(o) /\ o \in Linked)
  /\ hash' = Unhash(o)
  /\ item' = [item EXCEPT ![o] = "freed"]
  /\ lock' = None
  /\ Goto(t, "unref")
  /\ UNCHANGED <<lru, size, refs, life, var>>

\* Mutant: the reference taken for the store is forgotten.
Unref_Leaks(t) ==
  /\ th[t].pc = "unref"
  /\ Return(t)
  /\ UNCHANGED <<lock, lru, hash, size, refs, life, item, var>>

\* ... and give the reference back, without the lock.
Unref(t) ==
  /\ th[t].pc = "unref"
  /\ refs' = [refs EXCEPT ![th[t].obj] = Dec(@)]
  /\ Return(t)
  /\ UNCHANGED <<lock, lru, hash, size, life, item, var>>

Link(t) ==
  LET o == th[t].obj IN
  /\ th[t].pc = "link"
  /\ size' = size + SizeOf[o]
  /\ lru' = Touch(o)
  /\ lock' = None
  /\ Return(t)
  /\ UNCHANGED <<hash, refs, life, item, var>>

-----------------------------------------------------------------------------
(* fz_find_item, fz_remove_item, fz_empty_store                            *)

\* Mutant: the caller is given no reference of its own.
Find_NoRef(t, s, k) ==
  LET e == Found(k) IN
  /\ MayStart(t) /\ lock = None /\ var[<<t, s>>] = None
  /\ e # None
  /\ lru' = Touch(e)
  /\ var' = [var EXCEPT ![<<t, s>>] = e]
  /\ UNCHANGED <<lock, hash, size, refs, life, item, th>>

Find(t, s, k) ==
  LET e == Found(k) IN
  /\ MayStart(t) /\ lock = None /\ var[<<t, s>>] = None
  /\ e # None
  /\ lru' = Touch(e)
  /\ refs' = [refs EXCEPT ![e] = Inc(@)]
  /\ var' = [var EXCEPT ![<<t, s>>] = e]
  /\ UNCHANGED <<lock, hash, size, life, item, th>>

\* The caller is left with its own references; store->size keeps its value.
RemoveItem(t, k) ==
  LET e == Found(k) IN
  /\ MayClear(t) /\ lock = None
  /\ e # None
  /\ hash' = Unhash(e)
  /\ lru' = Unlink(e)
  /\ refs' = [refs EXCEPT ![e] = Dec(@)]
  /\ life' = Dropped(e)
  /\ item' = [item EXCEPT ![e] = "freed"]
  /\ UNCHANGED <<lock, size, var, th>>

EmptyBegin(t) ==
  /\ MayClear(t) /\ lock = None /\ lru # <<>>
  /\ lock' = t
  /\ th' = [th EXCEPT ![t] = [Idle EXCEPT !.pc = "empty", !.op = "empty"]]
  /\ UNCHANGED <<lru, hash, size, refs, life, item, var>>

\* while (store->head) evict(store->head), whoever refers to it.
EmptyEvict(t) ==
  /\ th[t].pc = "empty" /\ lru # <<>>
  /\ Evict(t, lru[1], None)
  /\ Goto(t, "freeing")

EmptyDone(t) ==
  /\ th[t].pc = "empty" /\ lru = <<>>
  /\ lock' = None
  /\ Return(t)
  /\ UNCHANGED <<lru, hash, size, refs, life, item, var>>

-----------------------------------------------------------------------------
(* The scavenging allocator (memory.c, fz_store_scavenge), fz_shrink_store *)

\* malloc returned NULL: start to scavenge, with the lock held.
MallocBegin(t, n) ==
  /\ MayStart(t) /\ lock = None
  /\ lock' = t
  /\ th' = [th EXCEPT ![t] = [Idle EXCEPT !.pc = "phase", !.op = "malloc",
                                          !.need = n]]
  /\ UNCHANGED <<lru, hash, size, refs, life, item, var>>

\* The size of the store a phase aims at.
PhaseMax(ph) ==
  IF ph >= 16 THEN 0
  ELSE IF StoreMax # 0 THEN (StoreMax \div 16) * (16 - ph)
  ELSE (size \div (16 - ph)) * (15 - ph)

\* A phase scavenges when the request and the store together overflow or are
\* within its aim; otherwise the loop's `continue` passes over it.
Scavenges(n, ph) == n > UIntMax - size \/ n + size <= PhaseMax(ph)

\* The do-while loop passes over phases until one scavenges; a phase that
\* aimed at 0 is the last, and then the allocation fails.
NextPhase(n, ph) ==
  CHOOSE q \in ph..(ph + 16) :
    /\ Scavenges(n, q) \/ PhaseMax(q) = 0
    /\ \A r \in ph..(q - 1) : ~Scavenges(n, r) /\ PhaseMax(r) # 0

\* Mutant: signed arithmetic.
ToFree_Signed(n, ph) ==
  IF n > UIntMax - size THEN UIntMax - PhaseMax(ph) ELSE n + size - PhaseMax(ph)

\* What scavenge() is asked to free: a difference of unsigned numbers.
ToFree(n, ph) ==
  (IF n > UIntMax - size THEN UIntMax - PhaseMax(ph)
   ELSE n + size - PhaseMax(ph)) % (UIntMax + 1)

\* Mutant: the phase is not advanced.
PhaseScavenge_SamePhase(t) ==
  LET n == th[t].need
      q == NextPhase(n, th[t].phase)
  IN
  /\ th[t].pc = "phase" /\ Scavenges(n, q)
  /\ th' = [th EXCEPT ![t].pc = "scav", ![t].count = 0, ![t].phase = q,
                      ![t].tofree = ToFree(n, q)]
  /\ UNCHANGED <<lock, lru, hash, size, refs, life, item, var>>

PhaseScavenge(t) ==
  LET n == th[t].need
      q == NextPhase(n, th[t].phase)
  IN
  /\ th[t].pc = "phase" /\ Scavenges(n, q)
  /\ th' = [th EXCEPT ![t].pc = "scav", ![t].count = 0, ![t].phase = q + 1,
                      ![t].tofree = ToFree(n, q)]
  /\ UNCHANGED <<lock, lru, hash, size, refs, life, item, var>>

MallocFails(t) ==
  LET n == th[t].need IN
  /\ th[t].pc = "phase" /\ ~Scavenges(n, NextPhase(n, th[t].phase))
  /\ lock' = None
  /\ Return(t)
  /\ UNCHANGED <<lru, hash, size, refs, life, item, var>>

LastVictim == IF lru = <<>> THEN 0 ELSE VictimFrom(lru[Len(lru)])

\* scavenge(): evict from the tail, starting again after each eviction.
ScavEvict(t) ==
  LET i == LastVictim IN
  /\ th[t].pc = "scav" /\ i > 0
  /\ Evict(t, lru[i], None)
  /\ th' = [th EXCEPT ![t].pc = "freeing", ![t].count = @ + SizeOf[lru[i]]]

\* evict() takes the lock back in the middle of scavenge or fz_empty_store.
Relock(t) ==
  /\ th[t].pc = "freeing" /\ th[t].op # "store" /\ lock = None
  /\ lock' = t
  /\ Goto(t, IF th[t].op = "empty" THEN "empty"
             ELSE IF th[t].count >= th[t].tofree THEN "scavenged" ELSE "scav")
  /\ UNCHANGED <<lru, hash, size, refs, life, item, var>>

ScavEnd(t) ==
  /\ th[t].pc = "scav" /\ LastVictim = 0
  /\ Goto(t, "scavenged")
  /\ UNCHANGED <<lock, lru, hash, size, refs, life, item, var>>

\* Something was freed and the retried malloc succeeds, or shrinking ends.
ScavReturn(t) ==
  /\ th[t].pc = "scavenged"
  /\ th[t].op = "shrink" \/ th[t].count > 0
  /\ lock' = None
  /\ Return(t)
  /\ UNCHANGED <<lru, hash, size, refs, life, item, var>>

\* malloc fails again after something was freed, or nothing was freed and the
\* loop goes on because the phase aimed above 0 ...
ScavRetry(t) ==
  /\ th[t].pc = "scavenged" /\ th[t].op = "malloc"
  /\ th[t].count > 0 \/ PhaseMax(th[t].phase - 1) # 0
  /\ Goto(t, "phase")
  /\ UNCHANGED <<lock, lru, hash, size, refs, life, item, var>>

\* ... or it aimed at 0 and the allocation fails.
ScavFails(t) ==
  /\ th[t].pc = "scavenged" /\ th[t].op = "malloc"
  /\ th[t].count = 0 /\ PhaseMax(th[t].phase - 1) = 0
  /\ lock' = None
  /\ Return(t)
  /\ UNCHANGED <<lru, hash, size, refs, life, item, var>>

ShrinkBegin(t, percent) ==
  LET new == (size * percent) \div 100 IN
  /\ MayStart(t) /\ lock = None /\ size > new
  /\ lock' = t
  /\ th' = [th EXCEPT ![t] = [Idle EXCEPT !.pc = "scav", !.op = "shrink",
                                          !.tofree = size - new]]
  /\ UNCHANGED <<lru, hash, size, refs, life, item, var>>

-----------------------------------------------------------------------------
Client(t) ==
  \/ \E s \in Slots, o \in Objs : Create(t, s, o)
  \/ \E s \in Slots, p \in Places : Keep(t, s, p)
  \/ \E s \in Slots : Drop(t, s)
  \/ \E s \in Slots : StoreBegin(t, s)
  \/ \E s \in Slots, k \in Keys : Find(t, s, k)
  \/ \E k \in Removable : RemoveItem(t, k)
  \/ EmptyBegin(t)
  \/ \E n \in Requests : MallocBegin(t, n)
  \/ \E percent \in Percents : ShrinkBegin(t, percent)

Locked(t) ==
  \/ Fits(t) \/ EnsureSpace(t) \/ EnsureEvict(t) \/ EnsureDone(t)
  \/ Saved(t) \/ OverBudget(t) \/ GiveUp(t) \/ Link(t)
  \/ EmptyEvict(t) \/ EmptyDone(t)
  \/ PhaseScavenge(t) \/ MallocFails(t)
  \/ ScavEvict(t) \/ ScavEnd(t) \/ ScavReturn(t) \/ ScavRetry(t) \/ ScavFails(t)

Acquire(t) ==
  \/ InsertExisting(t) \/ InsertFails(t) \/ InsertNew(t)
  \/ Unpin(t) \/ Relock(t)

Step(t) == Locked(t) \/ Acquire(t) \/ Unref(t)

Next == \E t \in Threads : Client(t) \/ Step(t)

Spec == Init /\ [][Next]_vars

\* A thread that runs does not stop for ever inside a call.
FairSpec == Spec /\ \A t \in Threads : WF_vars(Step(t))

-----------------------------------------------------------------------------
(* Properties                                                              *)

Frame == [pc : {"idle", "insert", "check", "scan", "saved", "freeing", "unref",
                "link", "empty", "phase", "scav", "scavenged"},
          op : {"none", "store", "empty", "malloc", "shrink"},
          obj : Objs \cup {None}, slot : Slots \cup {None},
          need : Int, tofree : Nat, count : Nat,
          cur : Objs \cup {None}, pin : Objs \cup {None}, phase : Nat]

(* The type invariant; counts of references and amounts to free are never   *)
(* negative (they are unsigned in the code, or compared with zero).         *)
TypeOK ==
  /\ lock \in Threads \cup {None}
  /\ lru \in Seq(Objs)
  /\ hash \in [HashKeys -> Objs \cup {None}]
  /\ size \in Int
  /\ refs \in [Objs -> Nat]
  /\ life \in [Objs -> {"unborn", "live", "dropped"}]
  /\ item \in [Objs -> {"none", "alloc", "freed"}]
  /\ var \in [Places -> Objs \cup {None}]
  /\ th \in [Threads -> Frame]

Holders(o) == {p \in Places : var[p] = o}
Pins(o) == {t \in Threads : th[t].pin = o}

\* Inside fz_store_item, after the store has taken its reference to o.
Storing(t, o) ==
  th[t].op = "store" /\ th[t].pc # "insert" /\ th[t].obj = o
InStore(o) == o \in Linked \/ \E t \in Threads : Storing(t, o)

\* In the store, and not about to lose the store's reference without the lock.
Cached(o) ==
  o \in Linked \/ \E t \in Threads : Storing(t, o) /\ th[t].pc # "unref"

(* Every count is the number of references there are: one for each variable *)
(* of a thread, one for the store and one for each pin of ensure_space.     *)
RefsExact ==
  \A o \in Objs : refs[o] = Cardinality(Holders(o)) + Cardinality(Pins(o))
                            + (IF InStore(o) THEN 1 ELSE 0)

(* An object that a thread refers to, that the list or the hash can find or *)
(* that is pinned has not been dropped (fz_drop_storable: an object whose   *)
(* last reference goes "cannot possibly be in the store").                  *)
Reachable(o) ==
  \/ Holders(o) # {} \/ Pins(o) # {} \/ o \in Linked
  \/ \E k \in HashKeys : hash[k] = o
NothingDroppedIsReachable == \A o \in Objs : Reachable(o) => life[o] = "live"

(* The items the code is about to follow a pointer to have not been freed:  *)
(* those in the list and in the hash, the predecessor ensure_space goes on  *)
(* with, and the item fz_store_item is going to link.                       *)
ItemsInUse ==
  Linked \cup {hash[k] : k \in HashKeys} \cup {th[t].pin : t \in Threads}
  \cup {th[t].obj : t \in {u \in Threads : th[u].pc # "unref"}}
NoFreedItemIsUsed == \A o \in ItemsInUse \ {None} : item[o] = "alloc"

(* What ensure_space has pinned is still in the list when evict() comes     *)
(* back with the lock ("no other evict process can have thrown prev away in *)
(* the meantime").                                                          *)
PinnedStaysLinked ==
  \A t \in Threads : th[t].pin # None => th[t].pin \in Linked

(* The hash and the list agree: a hashed item is in the list or on its way  *)
(* there, and a listed item with a hashable key is what its key finds; so   *)
(* no two objects are cached under one hashable key.                        *)
HashMatchesList ==
  /\ \A k \in HashKeys :
       hash[k] # None => KeyOf[hash[k]] = k /\ Cached(hash[k])
  /\ \A o \in Linked : Hashable(o) => hash[KeyOf[o]] = o

(* store->size is the total of the items in the list, without those that    *)
(* another thread linked before fz_store_item has added their size ("We     *)
(* keep track of the size of the store").                                   *)
Uncounted == {o \in Linked : \E t \in Threads : Storing(t, o)}
SizeIsListed == size = SumSizes(Linked \ Uncounted)

(* A single thread never takes the store over its maximum.                  *)
BudgetKept == StoreMax # 0 => size <= StoreMax

(* An eviction that makes space, for an item or for the allocator, takes    *)
(* only objects that no thread refers to and that no call has pinned.       *)
SpaceFromUnusedOnly ==
  [][\A t \in Threads :
       th'[t].pc = "freeing" /\ th[t].pc # "freeing" /\ th[t].op # "empty"
         => \A o \in Linked \ Linked' : Holders(o) \cup Pins(o) = {}]_vars

(* An allocation fails only when scavenging has left nothing to evict       *)
(* (store.h: before a failure is returned the store tries to evict).        *)
FailsOnlyWhenStoreIsSpent ==
  [][\A t \in Threads :
       th[t].op = "malloc" /\ (MallocFails(t) \/ ScavFails(t))
         => \A o \in Linked : ~Evictable(o)]_vars

(* Every call on the store returns: the loops that make space make progress.*)
CallsReturn == \A t \in Threads : th[t].pc # "idle" ~> th[t].pc = "idle"

(* Seen from outside, the store is the cache of module Cache: objects enter *)
(* and leave it one at a time, and each is destroyed by the very step that  *)
(* leaves it without a reference.                                           *)
CachedObjs == {o \in Objs : Cached(o)}
Abstract == INSTANCE Cache WITH cached <- CachedObjs
ImplementsCache == Abstract!Spec
=============================================================================
