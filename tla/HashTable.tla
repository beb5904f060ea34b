----------------------------- MODULE HashTable -----------------------------
(***************************************************************************)
(* The hash table of MuPDF (source/fitz/hash.c): open addressing with a    *)
(* linear probe, where a removal moves later entries back into the hole.   *)
(* It is called with the table's lock held, but growing the table gives    *)
(* that lock up (it is the allocator's own) to allocate the new array and  *)
(* to free the old one, while other threads use the table.                 *)
(*                                                                         *)
(* Entries stand for their keys: a value always moves with its key.  The   *)
(* arrays the table has had are numbered, so that a use of one that was    *)
(* freed stays visible.                                                    *)
(***************************************************************************)
EXTENDS Integers, FiniteSets, Sequences

CONSTANTS
  Threads,      \* threads that share the table
  Keys,         \* the keys they use
  FastKeys,     \* those that may be taken out again with their position
  Hash,         \* hash(key), before it is reduced to the size of the table
  InitialSize,  \* size of the first array (256, 509 or 4096 in the code)
  MaxArrays,    \* bound: the number of arrays the table ever has
  None

ASSUME HashTableAssumption ==
  /\ Hash \in [Keys -> Nat]
  /\ InitialSize \in Nat /\ (InitialSize * 8) \div 10 + 1 < InitialSize
  /\ IsFiniteSet(Threads)  \* and no more than a grown table has room for
  /\ (2 * InitialSize * 8) \div 10 + Cardinality(Threads) < 2 * InitialSize
  /\ MaxArrays \in Nat \ {0}
  /\ FastKeys \subseteq Keys
  /\ None \notin Keys /\ None \notin Threads

VARIABLES
  lock,    \* the thread that holds the table's lock, or None
  arrays,  \* every array there has been: a function on its slots
  freed,   \* the arrays that have been freed
  ents,    \* table->ents: the number of an array
  load,    \* table->load
  th       \* the call each thread is in, and that call's locals

vars == <<lock, arrays, freed, ents, load, th>>

Idle == [pc |-> "idle", op |-> "none", key |-> None, pos |-> 0,
         old |-> 0, i |-> 0, last |-> None, mark |-> 0]

Blank(n) == [slot \in 0..(n - 1) |-> None]

Init ==
  /\ lock = None
  /\ arrays = <<Blank(InitialSize)>>
  /\ freed = {}
  /\ ents = 1
  /\ load = 0
  /\ th = [t \in Threads |-> Idle]

-----------------------------------------------------------------------------
Slots(a) == DOMAIN arrays[a]
SizeOf(a) == Cardinality(Slots(a))
Size == SizeOf(ents)
Slot(pos) == arrays[ents][pos]
Home(k, n) == Hash[k] % n
After(pos) == IF pos + 1 = Size THEN 0 ELSE pos + 1

\* What the calls that change one slot of the table's array leave of it.
Put(pos, k) == arrays' = [arrays EXCEPT ![ents][pos] = k]

Goto(t, pc) == th' = [th EXCEPT ![t].pc = pc]

\* The key a thread has just inserted, and where, stay with it: fz_store_item
\* may take the key out again after removals of other keys.
Return(t) ==
  th' = [th EXCEPT ![t] = [Idle EXCEPT !.last = th[t].last, !.mark = th[t].mark]]
ReturnWith(t, k, pos) ==
  th' = [th EXCEPT ![t] = IF k \in FastKeys
                          THEN [Idle EXCEPT !.last = k, !.mark = pos] ELSE Idle]

StartProbe(t, op, k, n) ==
  th' = [th EXCEPT ![t].pc = "probe", ![t].op = op, ![t].key = k,
                   ![t].pos = Home(k, n)]

\* Mutant: the table grows when it is full.
MustGrow_TooLate == load >= Size

MustGrow == load > (Size * 8) \div 10

-----------------------------------------------------------------------------
(* The calls                                                               *)

Find(t, k) ==
  /\ th[t].pc = "idle" /\ lock = None
  /\ lock' = t
  /\ StartProbe(t, "find", k, Size)
  /\ UNCHANGED <<arrays, freed, ents, load>>

Insert(t, k) ==
  /\ th[t].pc = "idle" /\ lock = None /\ ~MustGrow
  /\ lock' = t
  /\ StartProbe(t, "insert", k, Size)
  /\ UNCHANGED <<arrays, freed, ents, load>>

\* The table is too full: remember the array and give up the lock to allocate.
InsertGrows(t, k) ==
  /\ th[t].pc = "idle" /\ lock = None /\ MustGrow
  /\ Len(arrays) < MaxArrays
  /\ th' = [th EXCEPT ![t].pc = "alloc", ![t].op = "insert", ![t].key = k,
                      ![t].old = ents]
  /\ UNCHANGED <<lock, arrays, freed, ents, load>>

RemoveKey(t, k) ==
  /\ th[t].pc = "idle" /\ lock = None
  /\ lock' = t
  /\ StartProbe(t, "remove", k, Size)
  /\ UNCHANGED <<arrays, freed, ents, load>>

\* Mutant: the remembered position is trusted.
RemoveFast_Trusting(t) ==
  LET k == th[t].last
      hole == th[t].mark
  IN
  /\ th[t].pc = "idle" /\ lock = None /\ k # None /\ Slot(hole) # None
  /\ lock' = t
  /\ Put(hole, None)
  /\ th' = [th EXCEPT ![t] = [Idle EXCEPT !.pc = "shift", !.op = "remove",
                                          !.key = k, !.pos = hole,
                                          !.i = After(hole)]]
  /\ UNCHANGED <<freed, ents, load>>

\* Take the key of the last insertion out again: at the position where it went
\* if it is still there, else the slow way.
RemoveFast(t) ==
  LET k == th[t].last
      hole == th[t].mark
  IN
  /\ th[t].pc = "idle" /\ lock = None /\ k # None
  /\ lock' = t
  /\ IF Slot(hole) = k
     THEN /\ Put(hole, None)
          /\ th' = [th EXCEPT ![t] = [Idle EXCEPT !.pc = "shift", !.op = "remove",
                                                  !.key = k, !.pos = hole,
                                                  !.i = After(hole)]]
     ELSE /\ th' = [th EXCEPT ![t] = [Idle EXCEPT !.pc = "probe", !.op = "remove",
                                                  !.key = k, !.pos = Home(k, Size)]]
          /\ UNCHANGED arrays
  /\ UNCHANGED <<freed, ents, load>>

-----------------------------------------------------------------------------
(* The probe, one slot a step, with the lock held                          *)

ProbeOn(t) ==
  /\ th[t].pc = "probe" /\ Slot(th[t].pos) \notin {None, th[t].key}
  /\ th' = [th EXCEPT ![t].pos = (@ + 1) % Size]
  /\ UNCHANGED <<lock, arrays, freed, ents, load>>

\* An empty slot: the key is not in the table.
Miss(t) ==
  /\ th[t].pc = "probe" /\ th[t].op # "insert" /\ Slot(th[t].pos) = None
  /\ lock' = None
  /\ Return(t)
  /\ UNCHANGED <<arrays, freed, ents, load>>

InsertHere(t) ==
  /\ th[t].pc = "probe" /\ th[t].op = "insert" /\ Slot(th[t].pos) = None
  /\ Put(th[t].pos, th[t].key)
  /\ load' = load + 1
  /\ lock' = None
  /\ ReturnWith(t, th[t].key, th[t].pos)
  /\ UNCHANGED <<freed, ents>>

\* The key is there: it is what find and insert return.
Hit(t) ==
  /\ th[t].pc = "probe" /\ th[t].op \in {"find", "insert"}
  /\ Slot(th[t].pos) = th[t].key
  /\ lock' = None
  /\ IF th[t].op = "insert" THEN ReturnWith(t, None, 0) ELSE Return(t)
  /\ UNCHANGED <<arrays, freed, ents, load>>

RemoveHere(t) ==
  LET hole == th[t].pos IN
  /\ th[t].pc = "probe" /\ th[t].op = "remove"
  /\ Slot(hole) = th[t].key
  /\ Put(hole, None)
  /\ th' = [th EXCEPT ![t].pc = "shift", ![t].i = After(hole)]
  /\ UNCHANGED <<lock, freed, ents, load>>

-----------------------------------------------------------------------------
(* do_removal: later entries of the run move into the hole they could be    *)
(* found in                                                                *)

\* Mutant: entries that wrapped around the end of the array are left behind.
Belongs_NoWrap(code, hole, look) == code <= hole /\ hole < look

Belongs(code, hole, look) ==
  \/ code <= hole /\ hole < look
  \/ look < code /\ code <= hole
  \/ hole < look /\ look < code

Shift(t) ==
  LET hole == th[t].pos
      look == th[t].i
      k == Slot(look)
  IN
  /\ th[t].pc = "shift" /\ k # None
  /\ IF Belongs(Home(k, Size), hole, look)
     THEN /\ arrays' = [arrays EXCEPT ![ents][hole] = k, ![ents][look] = None]
          /\ th' = [th EXCEPT ![t].pos = look, ![t].i = After(look)]
     ELSE /\ th' = [th EXCEPT ![t].i = After(look)]
          /\ UNCHANGED arrays
  /\ UNCHANGED <<lock, freed, ents, load>>

ShiftDone(t) ==
  /\ th[t].pc = "shift" /\ Slot(th[t].i) = None
  /\ load' = load - 1
  /\ lock' = None
  /\ Return(t)
  /\ UNCHANGED <<arrays, freed, ents>>

-----------------------------------------------------------------------------
(* fz_resize_hash, after the allocation                                    *)

NewSize(t) == 2 * SizeOf(th[t].old)

\* Mutant: nobody is expected to have made the table larger meanwhile.
Overtaken_Never(t) == FALSE

\* Another thread has made the table larger meanwhile.
Overtaken(t) == Size >= NewSize(t)

\* ... then the new array is freed again, without the lock.
GrowSkip(t) ==
  /\ th[t].pc = "alloc" /\ lock = None /\ Overtaken(t)
  /\ Goto(t, "unlocked")
  /\ UNCHANGED <<lock, arrays, freed, ents, load>>

\* There was no memory: the exception leaves the insertion.
GrowFails(t) ==
  /\ th[t].pc = "alloc" /\ lock = None /\ ~Overtaken(t)
  /\ ReturnWith(t, None, 0)
  /\ UNCHANGED <<lock, arrays, freed, ents, load>>

\* Install the new array, empty ...
GrowSwap(t) ==
  /\ th[t].pc = "alloc" /\ lock = None /\ ~Overtaken(t)
  /\ lock' = t
  /\ arrays' = Append(arrays, Blank(NewSize(t)))
  /\ ents' = Len(arrays) + 1
  /\ load' = 0
  /\ th' = [th EXCEPT ![t].pc = "copy", ![t].i = 0]
  /\ UNCHANGED freed

\* The slot do_hash_insert finds for a key of the old array.
FreeSlot(k) ==
  CHOOSE pos \in Slots(ents) :
    /\ Slot(pos) = None
    /\ \E d \in 0..(Size - 1) :
         /\ pos = (Hash[k] + d) % Size
         /\ \A e \in 0..(d - 1) : Slot((Hash[k] + e) % Size) # None

\* ... insert the entries of the old one ...
Copy(t) ==
  LET k == arrays[th[t].old][th[t].i] IN
  /\ th[t].pc = "copy" /\ th[t].i \in Slots(th[t].old)
  /\ IF k # None THEN Put(FreeSlot(k), k) /\ load' = load + 1
                 ELSE UNCHANGED <<arrays, load>>
  /\ th' = [th EXCEPT ![t].i = @ + 1]
  /\ UNCHANGED <<lock, freed, ents>>

\* ... and free it, without the lock.
CopyDone(t) ==
  /\ th[t].pc = "copy" /\ th[t].i \notin Slots(th[t].old)
  /\ freed' = freed \cup {th[t].old}
  /\ arrays' = [arrays EXCEPT ![th[t].old] = Blank(SizeOf(th[t].old))]
  /\ lock' = None
  /\ Goto(t, "unlocked")
  /\ UNCHANGED <<ents, load>>

\* The lock again: now the insertion looks for its slot.
Relock(t) ==
  /\ th[t].pc = "unlocked" /\ lock = None
  /\ lock' = t
  /\ StartProbe(t, "insert", th[t].key, Size)
  /\ UNCHANGED <<arrays, freed, ents, load>>

-----------------------------------------------------------------------------
Call(t) ==
  \/ \E k \in Keys : Find(t, k) \/ Insert(t, k) \/ InsertGrows(t, k) \/ RemoveKey(t, k)
  \/ RemoveFast(t)

Locked(t) ==
  \/ ProbeOn(t) \/ Miss(t) \/ InsertHere(t) \/ Hit(t) \/ RemoveHere(t)
  \/ Shift(t) \/ ShiftDone(t) \/ Copy(t) \/ CopyDone(t)

Growing(t) == GrowSkip(t) \/ GrowFails(t) \/ GrowSwap(t) \/ Relock(t)

Next == \E t \in Threads : Call(t) \/ Locked(t) \/ Growing(t)

Spec == Init /\ [][Next]_vars

-----------------------------------------------------------------------------
(* Properties                                                              *)

Frame == [pc : {"idle", "probe", "shift", "alloc", "copy", "unlocked"},
          op : {"none", "find", "insert", "remove"}, key : Keys \cup {None},
          pos : Nat, old : Nat, i : Nat, last : Keys \cup {None}, mark : Nat]

(* A thread whose table was rebuilt by another one while it allocated never *)
(* copies from the array that was freed, and the table's own array is never *)
(* a freed one.  The variables keep their types.                            *)
TypeOK ==
  /\ ents \notin freed
  /\ \A t \in Threads : th[t].pc = "copy" => th[t].old \notin freed
  /\ lock \in Threads \cup {None}
  /\ \A a \in DOMAIN arrays :
       /\ arrays[a] \in [0..(SizeOf(a) - 1) -> Keys \cup {None}]
       /\ SizeOf(a) = IF a = 1 THEN InitialSize ELSE 2 * SizeOf(a - 1)
  /\ ents \in DOMAIN arrays /\ freed \subseteq DOMAIN arrays
  /\ load \in Nat
  /\ th \in [Threads -> Frame]

Stored(a) == {arrays[a][pos] : pos \in Slots(a)} \ {None}

\* While the table is rebuilt, part of it is still in the old array.
Uncopied ==
  (UNION {{arrays[th[t].old][i] : i \in {j \in Slots(th[t].old) : j >= th[t].i}}
          : t \in {u \in Threads : th[u].pc = "copy"}}) \ {None}
Contents == Stored(ents) \cup Uncopied

(* Every key in the table is in one slot, and no empty slot lies between    *)
(* the key's home and that slot: a probe finds it, whatever was inserted    *)
(* and removed before ("removing entries works correctly").                 *)
Findable ==
  lock = None =>
    \A k \in Contents :
      \E d \in 0..(Size - 1) :
        /\ \A pos \in Slots(ents) : Slot(pos) = k <=> pos = (Hash[k] + d) % Size
        /\ \A e \in 0..d : Slot((Hash[k] + e) % Size) # None

(* table->load is the number of entries, so the table grows in time and     *)
(* there is an empty slot to end every probe.                               *)
LoadCounts ==
  lock = None => load = Cardinality({pos \in Slots(ents) : Slot(pos) # None})
                 /\ load < Size

(* Rebuilding and shifting lose nothing and add nothing: the keys change    *)
(* only by the insertion or the removal of the key a call was made for.     *)
OnlyCallsChangeContents ==
  [][\A k \in (Contents \ Contents') \cup (Contents' \ Contents) :
       \E t \in Threads :
         IF k \in Contents'
         THEN th[t].op = "insert" /\ th[t].key = k /\ th[t].pc = "probe"
         ELSE th'[t].op = "remove" /\ th'[t].key = k /\ th'[t].pc = "shift"]_vars
=============================================================================
