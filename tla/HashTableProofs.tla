--------------------------- MODULE HashTableProofs ---------------------------
(***************************************************************************)
(* Proofs about module HashTable, for any keys, hash function and number   *)
(* of arrays, any table that is large enough, and as many threads as a     *)
(* grown table leaves room for.                                            *)
(***************************************************************************)
EXTENDS HashTable, ListLemmas, FiniteSetTheorems

-----------------------------------------------------------------------------
(* Remainders.                                                             *)

LEMMA ModRange ==
  ASSUME NEW x \in Nat, NEW n \in Nat \ {0}
  PROVE  x % n \in 0..(n - 1)
OBVIOUS

LEMMA ModAdd ==
  ASSUME NEW x \in Nat, NEW n \in Nat \ {0}, NEW d \in 0..(n - 1)
  PROVE  (x + d) % n = IF (x % n) + d < n THEN (x % n) + d ELSE (x % n) + d - n
<1>1. /\ x = n * (x \div n) + (x % n)
      /\ x % n \in 0..(n - 1) /\ x \div n \in Nat
  OBVIOUS
<1>2. /\ x + d = n * ((x + d) \div n) + ((x + d) % n)
      /\ (x + d) % n \in 0..(n - 1) /\ (x + d) \div n \in Nat
  OBVIOUS
<1>. QED
  BY <1>1, <1>2

LEMMA ModNext ==
  ASSUME NEW n \in Nat \ {0}, NEW p \in 0..(n - 1)
  PROVE  (p + 1) % n = IF p + 1 = n THEN 0 ELSE p + 1
OBVIOUS

-----------------------------------------------------------------------------
(* The way a probe takes through an array of n slots: from the home h of a *)
(* key up to slot p, around the end of the array.                          *)

OnWay(h, q, p) == IF h <= p THEN h <= q /\ q <= p ELSE h <= q \/ q <= p
Before(h, q, p) == OnWay(h, q, p) /\ q # p
\* Slots after the hole and before look; if look has come around to the hole,
\* all the others.
Passed(hole, q, look) ==
  IF hole < look THEN hole < q /\ q < look ELSE hole < q \/ q < look
NextOf(p, n) == IF p + 1 = n THEN 0 ELSE p + 1

\* The slots of an array.
Array(n) == [0..(n - 1) -> Keys \cup {None}]
Occupied(s) == {p \in DOMAIN s : s[p] # None}
KeysOf(s) == {s[p] : p \in DOMAIN s} \ {None}

\* How the keys of r differ from those of s.
Adds(r, s, k) == \A x : x \in KeysOf(r) <=> x \in KeysOf(s) \/ x = k
Drops(r, s, k) == \A x : x \in KeysOf(r) <=> x \in KeysOf(s) /\ x # k
SameKeys(r, s) == \A x : x \in KeysOf(r) <=> x \in KeysOf(s)

\* No key is in two slots; the way to every key is unbroken, but for a hole
\* that keys behind look may still be beyond.
NoTwice(s) == \A p, q \in DOMAIN s : s[p] = s[q] /\ s[p] # None => p = q
Unbroken(s, n) ==
  \A p, q \in DOMAIN s :
    s[p] # None /\ OnWay(Home(s[p], n), q, p) => s[q] # None
UnbrokenBut(s, n, hole, look) ==
  /\ s[hole] = None
  /\ \A p, q \in DOMAIN s :
       s[p] # None /\ OnWay(Home(s[p], n), q, p) /\ s[q] = None
         => q = hole /\ ~Passed(hole, p, look)

\* The home of a key is a slot.
LEMMA HomeIsSlot ==
  ASSUME NEW k \in Keys, NEW n \in Nat \ {0}
  PROVE  Home(k, n) \in 0..(n - 1)
BY HashTableAssumption, ModRange DEF Home

\* A probe that has met neither the key nor an empty slot, until this one,
\* shows that the key is not there.
LEMMA ProbeDecides ==
  ASSUME NEW n \in Nat \ {0}, NEW s \in Array(n), Unbroken(s, n),
         NEW k \in Keys, NEW pos \in 0..(n - 1), s[pos] = None,
         \A q \in 0..(n - 1) : Before(Home(k, n), q, pos) => s[q] # k
  PROVE  k \notin KeysOf(s)
<1>. SUFFICES ASSUME NEW p \in 0..(n - 1), s[p] = k PROVE FALSE
  BY DEF Array, KeysOf
<1>. DEFINE h == Home(k, n)
<1>1. h \in 0..(n - 1) /\ k # None
  BY HomeIsSlot, HashTableAssumption
<1>. HIDE DEF h
<1>2. ~OnWay(h, pos, p)
  BY <1>1 DEF Unbroken, Array, h
<1>3. ~Before(h, p, pos)
  BY DEF h
<1>4. p # pos
  BY <1>1
<1>. QED
  BY <1>1, <1>2, <1>3, <1>4 DEF OnWay, Before

\* An array of n slots has the size n.
LEMMA SizeOfArray ==
  ASSUME NEW n \in Nat, NEW s \in Array(n)
  PROVE  /\ DOMAIN s = 0..(n - 1) /\ Cardinality(DOMAIN s) = n
         /\ IsFiniteSet(DOMAIN s)
<1>1. DOMAIN s = 0..(n - 1)
  BY DEF Array
<1>2. IsFiniteSet(0..(n - 1)) /\ Cardinality(0..(n - 1)) = n
  <2>1. 0 \in Int /\ n - 1 \in Int
    OBVIOUS
  <2>2. IsFiniteSet(0..(n - 1))
        /\ Cardinality(0..(n - 1)) = IF 0 > n - 1 THEN 0 ELSE (n - 1) - 0 + 1
    BY <2>1, FS_Interval
  <2>. QED
    BY <2>2
<1>. QED
  BY <1>1, <1>2

LEMMA OccupiedFinite ==
  ASSUME NEW n \in Nat, NEW s \in Array(n)
  PROVE  IsFiniteSet(Occupied(s)) /\ Cardinality(Occupied(s)) \in Nat
<1>1. Occupied(s) \in SUBSET DOMAIN s
  BY DEF Occupied
<1>. QED
  BY <1>1, SizeOfArray, FS_Subset, FS_CardinalityType

\* An empty slot is filled.
LEMMA OneMore ==
  ASSUME NEW n \in Nat, NEW s \in Array(n), NEW pos \in 0..(n - 1), s[pos] = None,
         NEW k \in Keys, NEW r, r = [s EXCEPT ![pos] = k]
  PROVE  /\ Cardinality(Occupied(s)) \in Nat
         /\ Cardinality(Occupied(r)) = Cardinality(Occupied(s)) + 1
<1>1. DOMAIN s = 0..(n - 1) /\ DOMAIN r = 0..(n - 1) /\ k # None
  BY HashTableAssumption DEF Array
<1>2. r[pos] = k /\ \A q \in 0..(n - 1) : q # pos => r[q] = s[q]
  BY DEF Array
<1>3. Occupied(r) = Occupied(s) \cup {pos} /\ pos \notin Occupied(s)
  BY <1>1, <1>2 DEF Occupied
<1>. QED
  BY <1>3, OccupiedFinite, FS_AddElement

\* A key that is not there goes into the first empty slot of its way.
LEMMA PutKey ==
  ASSUME NEW n \in Nat \ {0}, NEW s \in Array(n), NoTwice(s), Unbroken(s, n),
         NEW k \in Keys, k \notin KeysOf(s), NEW pos \in 0..(n - 1), s[pos] = None,
         \A q \in 0..(n - 1) : Before(Home(k, n), q, pos) => s[q] # None,
         NEW r, r = [s EXCEPT ![pos] = k]
  PROVE  /\ r \in Array(n) /\ NoTwice(r) /\ Unbroken(r, n)
         /\ Adds(r, s, k)
<1>1. DOMAIN s = 0..(n - 1) /\ DOMAIN r = 0..(n - 1) /\ k # None
  BY HashTableAssumption DEF Array
<1>2. r[pos] = k /\ \A q \in 0..(n - 1) : q # pos => r[q] = s[q]
  BY DEF Array
<1>3. \A q \in 0..(n - 1) : s[q] # k
  BY <1>1 DEF KeysOf
<1>4. r \in Array(n)
  BY DEF Array
<1>5. NoTwice(r)
  BY <1>1, <1>2, <1>3 DEF NoTwice
<1>6. Unbroken(r, n)
  BY <1>1, <1>2 DEF Unbroken, Before
<1>7. Adds(r, s, k)
  BY <1>1, <1>2 DEF KeysOf, Adds
<1>. QED
  BY <1>4, <1>5, <1>6, <1>7

\* Taking a key out leaves a hole that any other key may be beyond.
LEMMA TakeKey ==
  ASSUME NEW n \in Nat \ {0, 1}, NEW s \in Array(n), NoTwice(s), Unbroken(s, n),
         NEW hole \in 0..(n - 1), s[hole] # None,
         NEW r, r = [s EXCEPT ![hole] = None]
  PROVE  /\ r \in Array(n) /\ NoTwice(r)
         /\ UnbrokenBut(r, n, hole, NextOf(hole, n))
         /\ NextOf(hole, n) \in 0..(n - 1)
         /\ Drops(r, s, s[hole])
         /\ Cardinality(Occupied(r)) = Cardinality(Occupied(s)) - 1
<1>1. DOMAIN s = 0..(n - 1) /\ DOMAIN r = 0..(n - 1)
  BY DEF Array
<1>2. r[hole] = None /\ \A q \in 0..(n - 1) : q # hole => r[q] = s[q]
  BY DEF Array
<1>3. r \in Array(n)
  BY DEF Array
<1>4. NoTwice(r)
  BY <1>1, <1>2 DEF NoTwice
<1>5. UnbrokenBut(r, n, hole, NextOf(hole, n)) /\ NextOf(hole, n) \in 0..(n - 1)
  <2>1. \A p \in 0..(n - 1) : ~Passed(hole, p, NextOf(hole, n))
    BY DEF Passed, NextOf
  <2>2. \A p, q \in 0..(n - 1) :
          r[p] # None /\ OnWay(Home(r[p], n), q, p) /\ r[q] = None => q = hole
    BY <1>1, <1>2 DEF Unbroken
  <2>3. NextOf(hole, n) \in 0..(n - 1)
    BY DEF NextOf
  <2>. QED
    BY <1>1, <1>2, <2>1, <2>2, <2>3 DEF UnbrokenBut
<1>6. Drops(r, s, s[hole])
  BY <1>1, <1>2 DEF KeysOf, NoTwice, Drops
<1>7. Occupied(r) = Occupied(s) \ {hole} /\ hole \in Occupied(s)
  BY <1>1, <1>2 DEF Occupied
<1>8. Cardinality(Occupied(r)) = Cardinality(Occupied(s)) - 1
  BY <1>7, OccupiedFinite, FS_RemoveElement
<1>. QED
  BY <1>3, <1>4, <1>5, <1>6, <1>8

\* The key at look fills the hole.
Filled(s, hole, look) == [s EXCEPT ![hole] = s[look], ![look] = None]

\* The key at look belongs before the hole: it fills it and leaves a new one.
LEMMA MoveKey ==
  ASSUME NEW n \in Nat \ {0, 1}, NEW s \in Array(n), NoTwice(s),
         NEW hole \in 0..(n - 1), NEW look \in 0..(n - 1),
         UnbrokenBut(s, n, hole, look), s[look] # None,
         Belongs(Home(s[look], n), hole, look),
         NEW r, r = Filled(s, hole, look)
  PROVE  /\ r \in Array(n) /\ NoTwice(r)
         /\ UnbrokenBut(r, n, look, NextOf(look, n))
         /\ NextOf(look, n) \in 0..(n - 1)
         /\ SameKeys(r, s)
         /\ Cardinality(Occupied(r)) = Cardinality(Occupied(s))
<1>1. DOMAIN s = 0..(n - 1) /\ DOMAIN r = 0..(n - 1) /\ hole # look /\ s[hole] = None
  BY DEF Array, UnbrokenBut, Filled
<1>2. /\ r[hole] = s[look] /\ r[look] = None
      /\ \A q \in 0..(n - 1) : q # hole /\ q # look => r[q] = s[q]
  BY <1>1 DEF Array, Filled
<1>3. r \in Array(n)
  BY <1>1 DEF Array, Filled
<1>4. NoTwice(r)
  BY <1>1, <1>2 DEF NoTwice
<1>5. NextOf(look, n) \in 0..(n - 1)
      /\ \A p \in 0..(n - 1) : ~Passed(look, p, NextOf(look, n))
  BY DEF Passed, NextOf
<1>6. ASSUME NEW p \in 0..(n - 1), NEW q \in 0..(n - 1), r[p] # None,
             OnWay(Home(r[p], n), q, p), r[q] = None
      PROVE  q = look
  <2>. DEFINE h == Home(r[p], n)
  <2>0. h \in 0..(n - 1)
    BY <1>3, <1>6, HomeIsSlot DEF Array
  <2>1. CASE p = hole
    <3>1. OnWay(h, q, look)
      <4>1. Belongs(h, hole, look) /\ OnWay(h, q, hole)
        BY <1>2, <1>6, <2>1
      <4>. HIDE DEF h
      <4>. QED
        BY <2>0, <4>1 DEF Belongs, OnWay
    <3>2. q = look \/ s[q] = None
      BY <1>2, <1>6, <2>1
    <3>3. s[q] = None => q = hole
      BY <1>1, <1>2, <2>1, <3>1 DEF UnbrokenBut
    <3>. QED
      BY <1>6, <2>1, <3>2, <3>3
  <2>2. CASE p # hole
    <3>1. p # look /\ r[p] = s[p]
      BY <1>2, <1>6, <2>2
    <3>2. q # hole
      BY <1>2, <1>6
    <3>. QED
      BY <1>1, <1>2, <1>6, <3>1, <3>2 DEF UnbrokenBut
  <2>. QED
    BY <2>1, <2>2
<1>7. UnbrokenBut(r, n, look, NextOf(look, n))
  BY <1>1, <1>2, <1>5, <1>6 DEF UnbrokenBut
<1>8. SameKeys(r, s)
  BY <1>1, <1>2 DEF KeysOf, SameKeys
<1>9. /\ Occupied(r) = (Occupied(s) \ {look}) \cup {hole}
      /\ look \in Occupied(s) /\ hole \notin Occupied(s)
  BY <1>1, <1>2 DEF Occupied
<1>10. Cardinality(Occupied(r)) = Cardinality(Occupied(s))
  <2>. DEFINE m == Occupied(s) \ {look}
  <2>1. IsFiniteSet(m) /\ Cardinality(m) = Cardinality(Occupied(s)) - 1
        /\ Cardinality(Occupied(s)) \in Nat
    BY <1>9, OccupiedFinite, FS_RemoveElement
  <2>2. hole \notin m /\ Occupied(r) = m \cup {hole}
    BY <1>9
  <2>. HIDE DEF m
  <2>3. Cardinality(Occupied(r)) = Cardinality(m) + 1
    BY <2>1, <2>2, FS_AddElement
  <2>. QED
    BY <2>1, <2>3
<1>. QED
  BY <1>3, <1>4, <1>5, <1>7, <1>8, <1>10

\* The key at look is found without the hole: it can stay.
LEMMA KeepKey ==
  ASSUME NEW n \in Nat \ {0, 1}, NEW s \in Array(n),
         NEW hole \in 0..(n - 1), NEW look \in 0..(n - 1),
         UnbrokenBut(s, n, hole, look), s[look] # None,
         ~Belongs(Home(s[look], n), hole, look)
  PROVE  /\ UnbrokenBut(s, n, hole, NextOf(look, n))
         /\ NextOf(look, n) \in 0..(n - 1)
<1>1. DOMAIN s = 0..(n - 1) /\ hole # look
  BY DEF Array, UnbrokenBut
<1>2. NextOf(look, n) \in 0..(n - 1)
  BY DEF NextOf
<1>3. \A p \in 0..(n - 1) : Passed(hole, p, NextOf(look, n)) /\ p # hole
        => p = look \/ Passed(hole, p, look)
  BY <1>1 DEF Passed, NextOf
<1>4. Home(s[look], n) \in 0..(n - 1)
  BY HomeIsSlot DEF Array
<1>5. ~OnWay(Home(s[look], n), hole, look)
  BY <1>1, <1>4 DEF Belongs, OnWay
<1>. QED
  BY <1>1, <1>2, <1>3, <1>5 DEF UnbrokenBut

\* An empty slot at look: no key is beyond the hole.
LEMMA HoleCloses ==
  ASSUME NEW n \in Nat \ {0, 1}, NEW s \in Array(n),
         NEW hole \in 0..(n - 1), NEW look \in 0..(n - 1),
         UnbrokenBut(s, n, hole, look), s[look] = None
  PROVE  Unbroken(s, n)
<1>1. DOMAIN s = 0..(n - 1) /\ s[hole] = None
  BY DEF Array, UnbrokenBut
<1>2. SUFFICES ASSUME NEW p \in 0..(n - 1), NEW q \in 0..(n - 1), s[p] # None,
                      OnWay(Home(s[p], n), q, p), s[q] = None
               PROVE  FALSE
  BY <1>1 DEF Unbroken
<1>. DEFINE h == Home(s[p], n)
<1>3. h \in 0..(n - 1)
  BY HomeIsSlot, <1>2 DEF Array
<1>4. OnWay(h, hole, p) /\ ~Passed(hole, p, look)
  BY <1>1, <1>2 DEF UnbrokenBut
<1>5. p # hole /\ p # look
  BY <1>1, <1>2
<1>6. OnWay(h, look, p) => look = hole
  BY <1>1, <1>2 DEF UnbrokenBut
<1>. HIDE DEF h
<1>. QED
  BY <1>3, <1>4, <1>5, <1>6 DEF OnWay, Passed

\* How far slot p is from the home h.
Dist(h, p, n) == IF h <= p THEN p - h ELSE p + n - h

LEMMA DistReaches ==
  ASSUME NEW n \in Nat \ {0}, NEW x \in Nat, NEW p \in 0..(n - 1)
  PROVE  /\ Dist(x % n, p, n) \in 0..(n - 1)
         /\ (x + Dist(x % n, p, n)) % n = p
<1>1. x % n \in 0..(n - 1)
  BY ModRange
<1>2. Dist(x % n, p, n) \in 0..(n - 1)
  BY <1>1 DEF Dist
<1>3. (x + Dist(x % n, p, n)) % n
        = IF (x % n) + Dist(x % n, p, n) < n THEN (x % n) + Dist(x % n, p, n)
          ELSE (x % n) + Dist(x % n, p, n) - n
  BY <1>2, ModAdd
<1>. QED
  BY <1>1, <1>2, <1>3 DEF Dist

LEMMA DistOrders ==
  ASSUME NEW n \in Nat \ {0}, NEW h \in 0..(n - 1), NEW p \in 0..(n - 1),
         NEW q \in 0..(n - 1), Before(h, q, p)
  PROVE  Dist(h, q, n) < Dist(h, p, n)
BY DEF Dist, Before, OnWay

\* As long as a slot is empty, do_hash_insert finds the first on the way.
LEMMA FreeSlotIsFirst ==
  ASSUME NEW n \in Nat \ {0}, Size = n, Slots(ents) = 0..(n - 1),
         NEW k \in Keys, NEW empty \in 0..(n - 1), Slot(empty) = None
  PROVE  /\ FreeSlot(k) \in 0..(n - 1) /\ Slot(FreeSlot(k)) = None
         /\ \A q \in 0..(n - 1) :
              Before(Home(k, n), q, FreeSlot(k)) => Slot(q) # None
<1>. DEFINE x == Hash[k]
            h == Home(k, n)
            D == {d \in 0..(n - 1) : Slot((x + d) % n) = None}
            First(pos) == /\ Slot(pos) = None
                          /\ \E d \in 0..(n - 1) :
                               /\ pos = (x + d) % n
                               /\ \A e \in 0..(d - 1) : Slot((x + e) % n) # None
<1>1. x \in Nat /\ h = x % n /\ h \in 0..(n - 1)
  BY HashTableAssumption, ModRange DEF Home
<1>. HIDE DEF x, h
<1>2. Dist(h, empty, n) \in D
  BY <1>1, DistReaches
<1>3. PICK d \in D : \A e \in D : d <= e
  <2>1. D \in SUBSET Nat /\ D # {}
    BY <1>2
  <2>. HIDE DEF D
  <2>. QED
    BY <2>1, LeastExists
<1>4. (x + d) % n \in 0..(n - 1) /\ First((x + d) % n)
  <2>1. (x + d) % n \in 0..(n - 1)
    BY <1>1, <1>3, ModRange
  <2>2. \A e \in 0..(d - 1) : e \in 0..(n - 1) /\ e \notin D
    BY <1>3
  <2>. QED
    BY <1>3, <2>1, <2>2
<1>. DEFINE f == CHOOSE pos \in 0..(n - 1) : First(pos)
<1>5. f \in 0..(n - 1) /\ First(f)
  <2>. HIDE DEF First
  <2>. QED
    BY <1>4
<1>6. FreeSlot(k) = f
  BY DEF FreeSlot, x
<1>. HIDE DEF f
<1>7. PICK c \in 0..(n - 1) : f = (x + c) % n
                              /\ \A e \in 0..(c - 1) : Slot((x + e) % n) # None
  BY <1>5
<1>8. f = IF h + c < n THEN h + c ELSE h + c - n
  BY <1>1, <1>7, ModAdd
<1>9. Dist(h, f, n) = c
  BY <1>1, <1>5, <1>8 DEF Dist
<1>10. ASSUME NEW q \in 0..(n - 1), Before(h, q, f) PROVE Slot(q) # None
  <2>1. Dist(h, q, n) < c
    BY <1>1, <1>5, <1>9, <1>10, DistOrders
  <2>2. Dist(h, q, n) \in 0..(n - 1) /\ (x + Dist(h, q, n)) % n = q
    BY <1>1, DistReaches
  <2>3. Dist(h, q, n) \in 0..(c - 1)
    BY <2>1, <2>2
  <2>. QED
    BY <1>7, <2>2, <2>3
<1>. QED
  BY <1>5, <1>6, <1>10 DEF h

-----------------------------------------------------------------------------
(* The inductive invariant.                                                *)

\* The arrays double, the last one is the table's, and every one but the
\* first has room for an entry more of each thread when it must grow.
Shapes ==
  /\ arrays \in Seq(UNION {Array(n) : n \in Nat})
  /\ ents = Len(arrays) /\ ents > 0
  /\ \A a \in 1..Len(arrays) : arrays[a] \in Array(SizeOf(a))
  /\ SizeOf(1) = InitialSize
  /\ \A a \in 1..Len(arrays) :
       /\ SizeOf(a) \in Nat /\ SizeOf(a) > 1
       /\ a > 1 => /\ SizeOf(a) = 2 * SizeOf(a - 1)
                   /\ (SizeOf(a) * 8) \div 10 + Cardinality(Threads) < SizeOf(a)
       /\ a < ents => 2 * SizeOf(a) <= Size

LockPcs == {"probe", "shift", "copy"}

\* Who holds the lock, and what the locals of each thread then are.
Frames ==
  /\ lock \in Threads \cup {None} /\ th \in [Threads -> Frame]
  /\ \A t \in Threads :
       /\ lock = t <=> th[t].pc \in LockPcs
       /\ th[t].pc # "idle" => th[t].key \in Keys
       /\ th[t].pc = "probe" => /\ th[t].op \in {"find", "insert", "remove"}
                                /\ th[t].pos \in 0..(Size - 1)
       /\ th[t].pc = "shift" => /\ th[t].op = "remove"
                                /\ th[t].pos \in 0..(Size - 1)
                                /\ th[t].i \in 0..(Size - 1)
       /\ th[t].pc \in {"alloc", "copy", "unlocked"} => th[t].op = "insert"
       /\ th[t].pc = "alloc" => th[t].old \in 1..ents
       /\ th[t].pc = "unlocked" => ents > 1
       /\ th[t].pc = "copy" => /\ ents > 1 /\ th[t].old = ents - 1
                               /\ th[t].i \in 0..SizeOf(ents - 1)
       /\ th[t].last # None => th[t].mark \in 0..(Size - 1)

\* Only arrays that have been replaced are freed, after they were copied.
FreedOK ==
  /\ freed \subseteq 1..(ents - 1)
  /\ \A t \in Threads : th[t].pc = "copy" => ents - 1 \notin freed

\* The table: while a removal or a copy is under way, what it has done so far.
Runs ==
  LET s == arrays[ents] IN
  /\ NoTwice(s)
  /\ \/ Unbroken(s, Size)
     \/ \E t \in Threads : th[t].pc = "shift"
  /\ \A t \in Threads :
       /\ th[t].pc = "shift" => UnbrokenBut(s, Size, th[t].pos, th[t].i)
       /\ th[t].pc = "probe" =>
            \A q \in 0..(Size - 1) :
              Before(Home(th[t].key, Size), q, th[t].pos)
                => s[q] \notin {None, th[t].key}
       /\ th[t].pc = "copy" =>
            /\ NoTwice(arrays[ents - 1])
            /\ \A k \in KeysOf(s) :
                 \E j \in 0..(th[t].i - 1) : arrays[ents - 1][j] = k

\* Threads that may still insert a key without looking at the load.
Unchecked ==
  {t \in Threads : \/ th[t].pc \in {"copy", "unlocked"}
                   \/ th[t].pc = "probe" /\ th[t].op = "insert"
                   \/ th[t].pc = "alloc" /\ th[t].old # ents}

\* The load is exact, and the entries beyond the limit of MustGrow are at most
\* one for each thread that does not insert one any more.
Loads ==
  /\ load \in Nat
  /\ load = Cardinality(Occupied(arrays[ents]))
            + (IF \E t \in Threads : th[t].pc = "shift" THEN 1 ELSE 0)
  /\ \A t \in Threads : th[t].pc = "copy" => load <= th[t].i
  /\ load + Cardinality(Unchecked)
       <= (Size * 8) \div 10 + (IF ents = 1 THEN 1 ELSE Cardinality(Threads))

IInv == Shapes /\ Frames /\ FreedOK /\ Runs /\ Loads

-----------------------------------------------------------------------------
(* The arrays.                                                             *)

\* The table's array.
LEMMA TableArray ==
  ASSUME Shapes
  PROVE  /\ ents \in 1..Len(arrays) /\ ents \in Nat \ {0} /\ DOMAIN arrays = 1..ents
         /\ Size \in Nat \ {0, 1} /\ Slots(ents) = 0..(Size - 1)
         /\ arrays[ents] \in Array(Size)
         /\ IsFiniteSet(Occupied(arrays[ents]))
         /\ Cardinality(Occupied(arrays[ents])) \in Nat
<1>. DEFINE s == arrays[ents]
            n == Size
<1>1. ents \in 1..Len(arrays) /\ ents \in Nat \ {0} /\ DOMAIN arrays = 1..ents
  <2>1. Len(arrays) \in Nat /\ DOMAIN arrays = 1..Len(arrays)
    BY DEF Shapes
  <2>. QED
    BY <2>1 DEF Shapes
<1>2. n \in Nat \ {0, 1} /\ s \in Array(n)
  BY <1>1 DEF Shapes, Size
<1>3. Slots(ents) = DOMAIN s
  BY DEF Slots
<1>. HIDE DEF s, n
<1>4. DOMAIN s = 0..(n - 1)
  BY <1>2, SizeOfArray
<1>6. IsFiniteSet(Occupied(s)) /\ Cardinality(Occupied(s)) \in Nat
  BY <1>2, OccupiedFinite
<1>. QED
  BY <1>1, <1>2, <1>3, <1>4, <1>6 DEF s, n

\* The sizes of the arrays.
LEMMA ArraySizes ==
  ASSUME Shapes
  PROVE  \A a \in 1..Len(arrays) :
           /\ SizeOf(a) \in Nat \ {0, 1} /\ Slots(a) = 0..(SizeOf(a) - 1)
           /\ arrays[a] \in Array(SizeOf(a)) /\ DOMAIN arrays[a] = 0..(SizeOf(a) - 1)
           /\ a < ents => 2 * SizeOf(a) <= Size
<1>. SUFFICES ASSUME NEW a \in 1..Len(arrays)
              PROVE  /\ SizeOf(a) \in Nat \ {0, 1} /\ Slots(a) = 0..(SizeOf(a) - 1)
                     /\ arrays[a] \in Array(SizeOf(a)) /\ DOMAIN arrays[a] = 0..(SizeOf(a) - 1)
                     /\ a < ents => 2 * SizeOf(a) <= Size
  OBVIOUS
<1>1. SizeOf(a) \in Nat /\ SizeOf(a) > 1 /\ arrays[a] \in Array(SizeOf(a))
      /\ (a < ents => 2 * SizeOf(a) <= Size)
  BY DEF Shapes, Size
<1>2. DOMAIN arrays[a] = 0..(SizeOf(a) - 1)
  BY <1>1 DEF Array
<1>. QED
  BY <1>1, <1>2 DEF Slots

\* One of the arrays is changed and keeps its size.
LEMMA ChangedArray ==
  ASSUME Shapes, NEW b \in 1..Len(arrays), NEW r \in Array(SizeOf(b)),
         arrays' = [arrays EXCEPT ![b] = r], ents' = ents
  PROVE  /\ Shapes' /\ Size' = Size /\ arrays'[b] = r
         /\ \A a \in 1..Len(arrays) : a # b => arrays'[a] = arrays[a]
         /\ \A a \in 1..Len(arrays) : SizeOf(a)' = SizeOf(a)
<1>1. /\ ents \in 1..Len(arrays) /\ ents \in Nat \ {0} /\ DOMAIN arrays = 1..ents
      /\ SizeOf(b) \in Nat \ {0, 1} /\ ents = Len(arrays)
  BY TableArray, ArraySizes DEF Shapes
<1>2. arrays'[b] = r
      /\ \A a \in 1..Len(arrays) : a # b => arrays'[a] = arrays[a]
  BY <1>1 DEF Shapes
<1>3. arrays' \in Seq(UNION {Array(n) : n \in Nat}) /\ Len(arrays') = Len(arrays)
  <2>. DEFINE S == UNION {Array(n) : n \in Nat}
  <2>1. r \in S /\ arrays \in Seq(S)
    BY <1>1 DEF Shapes
  <2>. HIDE DEF S
  <2>2. arrays' \in Seq(S) /\ Len(arrays') = Len(arrays)
    BY <1>1, <2>1
  <2>. QED
    BY <2>2 DEF S
<1>4. Cardinality(DOMAIN r) = SizeOf(b)
  BY <1>1, SizeOfArray
<1>5. \A a \in 1..Len(arrays) : Cardinality(DOMAIN arrays'[a]) = SizeOf(a)
  <2>1. \A a \in 1..Len(arrays) : a # b => Cardinality(DOMAIN arrays'[a]) = SizeOf(a)
    BY <1>2 DEF SizeOf, Slots
  <2>. QED
    BY <1>2, <1>4, <2>1
<1>6. \A a : SizeOf(a)' = Cardinality(DOMAIN arrays'[a])
  BY DEF SizeOf, Slots
<1>7. \A a \in 1..Len(arrays) : SizeOf(a)' = SizeOf(a)
  BY <1>5, <1>6
<1>8. Size' = Size
  BY <1>1, <1>7 DEF Size
<1>9. \A a \in 1..Len(arrays) : a > 1 => a - 1 \in 1..Len(arrays)
  BY <1>1
<1>10. \A a \in 1..Len(arrays) : arrays'[a] \in Array(SizeOf(a))
  BY <1>2, <1>1 DEF Shapes
<1>11. Shapes'
  <2>1. /\ arrays' \in Seq(UNION {Array(n) : n \in Nat})
        /\ ents' = Len(arrays') /\ ents' > 0 /\ Len(arrays') = Len(arrays)
    BY <1>1, <1>3 DEF Shapes
  <2>2. \A a \in 1..Len(arrays) : arrays'[a] \in Array(SizeOf(a)')
    BY <1>7, <1>10
  <2>3. SizeOf(1)' = InitialSize
    BY <1>1, <1>7 DEF Shapes
  <2>4. \A a \in 1..Len(arrays) :
          /\ SizeOf(a)' \in Nat /\ SizeOf(a)' > 1
          /\ a > 1 => /\ SizeOf(a)' = 2 * SizeOf(a - 1)'
                      /\ (SizeOf(a)' * 8) \div 10 + Cardinality(Threads) < SizeOf(a)'
          /\ a < ents => 2 * SizeOf(a)' <= Size'
    BY <1>7, <1>8, <1>9 DEF Shapes
  <2>. QED
    BY <2>1, <2>2, <2>3, <2>4 DEF Shapes
<1>. QED
  BY <1>2, <1>7, <1>8, <1>11

-----------------------------------------------------------------------------
(* Init => IInv.                                                           *)

LEMMA InitIInv == Init => IInv
<1>. SUFFICES ASSUME Init PROVE IInv
  OBVIOUS
<1>. DEFINE s == Blank(InitialSize)
            n == InitialSize
<1>1. n \in Nat /\ n > 1 /\ 1 <= (n * 8) \div 10 + 1 /\ (n * 8) \div 10 \in Nat
  BY HashTableAssumption
<1>2. s \in Array(n) /\ \A p \in 0..(n - 1) : s[p] = None
  BY DEF Blank, Array
<1>3. DOMAIN s = 0..(n - 1) /\ Cardinality(DOMAIN s) = n
  BY <1>1, <1>2, SizeOfArray
<1>. HIDE DEF s, n
<1>4. arrays = <<s>> /\ ents = 1 /\ freed = {} /\ load = 0 /\ lock = None
      /\ th = [t \in Threads |-> Idle]
  BY DEF Init, s, n
<1>5. Len(arrays) = 1 /\ arrays[1] = s /\ arrays \in Seq({s})
  BY <1>4
<1>6. SizeOf(1) = n /\ Size = n
  BY <1>3, <1>4, <1>5 DEF SizeOf, Slots, Size
<1>7. Shapes
  <2>1. arrays \in Seq(UNION {Array(m) : m \in Nat})
    <3>1. s \in UNION {Array(m) : m \in Nat}
      BY <1>1, <1>2
    <3>. QED
      BY <1>4, <3>1
  <2>. QED
    BY <1>1, <1>2, <1>4, <1>5, <1>6, <2>1 DEF Shapes, n
<1>8. \A t \in Threads : th[t] = Idle /\ th[t].pc = "idle" /\ th[t].last = None
  BY <1>4 DEF Idle
<1>9. Frames
  <2>1. Idle \in Frame
    BY DEF Idle, Frame
  <2>2. th \in [Threads -> Frame] /\ None \notin Threads
    BY <1>4, <2>1, HashTableAssumption
  <2>. QED
    BY <1>4, <1>8, <2>2 DEF Frames, LockPcs
<1>10. FreedOK
  BY <1>4, <1>8 DEF FreedOK
<1>11. Runs
  <2>1. NoTwice(s) /\ Unbroken(s, n)
    BY <1>2, <1>3 DEF NoTwice, Unbroken
  <2>. QED
    BY <1>4, <1>5, <1>6, <1>8, <2>1 DEF Runs
<1>12. Loads
  <2>1. Occupied(s) = {} /\ Unchecked = {}
    BY <1>2, <1>3, <1>8 DEF Occupied, Unchecked
  <2>2. Cardinality({}) = 0
    BY FS_EmptySet
  <2>3. arrays[ents] = s /\ (\A t \in Threads : th[t].pc \notin {"shift", "copy"})
    BY <1>4, <1>5, <1>8
  <2>4. load = Cardinality(Occupied(arrays[ents]))
               + (IF \E t \in Threads : th[t].pc = "shift" THEN 1 ELSE 0)
    BY <1>4, <2>1, <2>2, <2>3
  <2>5. load + Cardinality(Unchecked) <= (Size * 8) \div 10 + 1
    BY <1>1, <1>4, <1>6, <2>1, <2>2
  <2>. QED
    BY <1>4, <2>3, <2>4, <2>5 DEF Loads
<1>. QED
  BY <1>7, <1>9, <1>10, <1>11, <1>12 DEF IInv

-----------------------------------------------------------------------------
(* Steps that leave the table alone.                                       *)

\* When a thread holds the lock, or nobody does, the others are elsewhere.
LEMMA OthersWait ==
  ASSUME Frames, NEW t \in Threads, lock \in {None, t}
  PROVE  /\ \A u \in Threads \ {t} : th[u].pc \notin LockPcs
         /\ lock = None => th[t].pc \notin LockPcs
         /\ IsFiniteSet(Unchecked) /\ Cardinality(Unchecked) \in Nat
         /\ Cardinality(Unchecked) <= Cardinality(Threads)
         /\ Cardinality(Threads) \in Nat
<1>1. None \notin Threads /\ IsFiniteSet(Threads)
  BY HashTableAssumption
<1>2. Unchecked \in SUBSET Threads
  BY DEF Unchecked
<1>3. /\ IsFiniteSet(Unchecked) /\ Cardinality(Unchecked) \in Nat
      /\ Cardinality(Unchecked) <= Cardinality(Threads)
      /\ Cardinality(Threads) \in Nat
  BY <1>1, <1>2, FS_Subset, FS_CardinalityType
<1>. QED
  BY <1>1, <1>3 DEF Frames

\* The count of the threads that may insert unchecked, when t goes on with
\* the frame f: it is not larger if t was one of them or is none now, and it
\* is small enough in any case for a load that MustGrow allows.
LEMMA UncheckedCount ==
  ASSUME IInv, NEW t \in Threads, lock \in {None, t}, NEW f \in Frame,
         th' = [th EXCEPT ![t] = f], ents' = ents, f.pc # "copy"
  PROVE  /\ Cardinality(Unchecked') \in Nat
         /\ t \in Unchecked \/ t \notin Unchecked'
              => Cardinality(Unchecked') <= Cardinality(Unchecked)
         /\ t \in Unchecked /\ t \notin Unchecked'
              => Cardinality(Unchecked') <= Cardinality(Unchecked) - 1
         /\ f.pc # "unlocked" /\ (f.pc = "alloc" => f.old = ents)
              => Cardinality(Unchecked')
                   <= IF ents = 1 THEN 1 ELSE Cardinality(Threads)
<1>. DEFINE U == Unchecked
            V == Unchecked'
<1>1. th \in [Threads -> Frame] /\ th'[t] = f
      /\ \A u \in Threads \ {t} : th'[u] = th[u]
  BY DEF IInv, Frames
<1>2. V \subseteq U \cup {t} /\ (t \in U \/ t \notin V => V \subseteq U)
      /\ (t \in U /\ t \notin V => V \subseteq U \ {t})
  BY <1>1 DEF Unchecked
<1>3. IsFiniteSet(U) /\ Cardinality(U) \in Nat
      /\ \A u \in Threads \ {t} : th[u].pc \notin LockPcs
  BY OthersWait DEF IInv
<1>4. V \subseteq Threads
  BY DEF Unchecked
<1>5. ASSUME f.pc # "unlocked", f.pc = "alloc" => f.old = ents, ents = 1
      PROVE  V \subseteq {t}
  <2>1. \A u \in Threads \ {t} : /\ th[u].pc \notin {"probe", "copy"}
                                 /\ th[u].pc # "unlocked"
                                 /\ th[u].pc = "alloc" => th[u].old = 1
    BY <1>3, <1>5 DEF IInv, Frames, LockPcs
  <2>. QED
    BY <1>1, <1>5, <2>1 DEF Unchecked
<1>. HIDE DEF U, V
<1>6. IsFiniteSet(V) /\ Cardinality(V) \in Nat /\ Cardinality(V) <= Cardinality(Threads)
  <2>1. IsFiniteSet(Threads)
    BY HashTableAssumption
  <2>. QED
    BY <1>4, <2>1, FS_Subset, FS_CardinalityType
<1>7. V \subseteq U => Cardinality(V) <= Cardinality(U)
  BY <1>3, FS_Subset
<1>8. t \in U /\ V \subseteq U \ {t} => Cardinality(V) <= Cardinality(U) - 1
  <2>1. SUFFICES ASSUME t \in U, V \in SUBSET (U \ {t})
                 PROVE  Cardinality(V) <= Cardinality(U) - 1
    OBVIOUS
  <2>2. IsFiniteSet(U \ {t}) /\ Cardinality(U \ {t}) = Cardinality(U) - 1
    BY <1>3, <2>1, FS_RemoveElement
  <2>. QED
    BY <2>1, <2>2, FS_Subset
<1>9. V \subseteq {t} => Cardinality(V) <= 1
  <2>1. IsFiniteSet({t}) /\ Cardinality({t}) = 1
    BY FS_Singleton
  <2>. QED
    BY <2>1, FS_Subset
<1>. QED
  BY <1>2, <1>5, <1>6, <1>7, <1>8, <1>9 DEF U, V

\* What the locals of a thread may be when it is neither shifting nor copying.
FrameOK(f) ==
  /\ f.pc \notin {"shift", "copy"}
  /\ f.pc # "idle" => f.key \in Keys
  /\ f.pc = "probe" => /\ f.op \in {"find", "insert", "remove"}
                       /\ f.pos \in 0..(Size - 1)
                       /\ \A q \in 0..(Size - 1) :
                            Before(Home(f.key, Size), q, f.pos)
                              => Slot(q) \notin {None, f.key}
  /\ f.pc \in {"alloc", "unlocked"} => f.op = "insert"
  /\ f.pc = "alloc" => f.old \in 1..ents
  /\ f.pc = "unlocked" => ents > 1
  /\ f.last # None => f.mark \in 0..(Size - 1)

\* A thread goes on with other locals and may take or give up the lock; it may
\* become one that inserts unchecked only if the load is below the limit.
LEMMA ThreadStep ==
  ASSUME IInv, NEW t \in Threads, lock \in {None, t}, NEW f \in Frame,
         th[t].pc \notin {"shift", "copy"}, FrameOK(f),
         th' = [th EXCEPT ![t] = f],
         lock' = IF f.pc = "probe" THEN t ELSE None,
         UNCHANGED <<arrays, freed, ents, load>>,
         \/ t \in Unchecked \/ t \notin Unchecked'
         \/ ~MustGrow /\ f.pc = "probe"
  PROVE  IInv'
<1>1. th \in [Threads -> Frame] /\ th'[t] = f /\ None \notin Threads
      /\ \A u \in Threads \ {t} : th'[u] = th[u]
  BY HashTableAssumption DEF IInv, Frames
<1>2. \A u \in Threads \ {t} : th[u].pc \notin LockPcs
  BY OthersWait DEF IInv
<1>3. \A u \in Threads : th'[u].pc \notin {"shift", "copy"} /\ th[u].pc \notin {"shift", "copy"}
  BY <1>1, <1>2 DEF LockPcs, FrameOK
<1>4. Size' = Size /\ \A a : SizeOf(a)' = SizeOf(a)
  BY DEF Size, SizeOf, Slots
<1>5. Shapes'
  BY <1>4 DEF IInv, Shapes
<1>6. Frames'
  <2>1. lock' \in Threads \cup {None} /\ th' \in [Threads -> Frame]
    BY <1>1
  <2>2. lock' = t <=> th'[t].pc \in LockPcs
    BY <1>1 DEF LockPcs, FrameOK
  <2>3. \A u \in Threads \ {t} : lock' # u /\ th'[u].pc \notin LockPcs
    BY <1>1, <1>2
  <2>4. \A u \in Threads :
          /\ th'[u].pc # "idle" => th'[u].key \in Keys
          /\ th'[u].pc = "probe" => /\ th'[u].op \in {"find", "insert", "remove"}
                                    /\ th'[u].pos \in 0..(Size - 1)
          /\ th'[u].pc \in {"alloc", "unlocked"} => th'[u].op = "insert"
          /\ th'[u].pc = "alloc" => th'[u].old \in 1..ents
          /\ th'[u].pc = "unlocked" => ents > 1
          /\ th'[u].last # None => th'[u].mark \in 0..(Size - 1)
    BY <1>1 DEF IInv, Frames, FrameOK
  <2>. QED
    BY <1>3, <1>4, <2>1, <2>2, <2>3, <2>4 DEF Frames
<1>7. FreedOK'
  BY <1>3 DEF IInv, FreedOK
<1>8. Runs'
  <2>1. NoTwice(arrays[ents]) /\ Unbroken(arrays[ents], Size)
    BY <1>3 DEF IInv, Runs
  <2>2. \A u \in Threads : th'[u].pc = "probe" =>
          u = t /\ \A q \in 0..(Size - 1) :
             Before(Home(th'[u].key, Size), q, th'[u].pos)
               => arrays[ents][q] \notin {None, th'[u].key}
    BY <1>1, <1>2 DEF LockPcs, FrameOK, Slot
  <2>. QED
    BY <1>3, <1>4, <2>1, <2>2 DEF Runs
<1>9. Loads'
  <2>. DEFINE lim == (Size * 8) \div 10
              room == IF ents = 1 THEN 1 ELSE Cardinality(Threads)
  <2>1. /\ load \in Nat /\ load = Cardinality(Occupied(arrays[ents])) + 0
        /\ load + Cardinality(Unchecked) <= lim + room
    BY <1>3 DEF IInv, Loads
  <2>2. Cardinality(Unchecked) \in Nat /\ Cardinality(Threads) \in Nat /\ lim \in Nat
        /\ room \in Nat
    BY TableArray, OthersWait DEF IInv
  <2>3. /\ Cardinality(Unchecked') \in Nat
        /\ t \in Unchecked \/ t \notin Unchecked'
              => Cardinality(Unchecked') <= Cardinality(Unchecked)
        /\ f.pc = "probe" => Cardinality(Unchecked') <= room
    BY UncheckedCount DEF FrameOK
  <2>4. ~MustGrow => load <= lim
    BY <2>1, <2>2 DEF MustGrow
  <2>5. load + Cardinality(Unchecked') <= lim + room
    <3>. HIDE DEF lim, room
    <3>. QED
      BY <2>1, <2>2, <2>3, <2>4
  <2>. QED
    BY <1>3, <1>4, <2>1, <2>5 DEF Loads
<1>. QED
  BY <1>5, <1>6, <1>7, <1>8, <1>9 DEF IInv

\* The first slot of a probe.
LEMMA ProbeStarts ==
  ASSUME Shapes, NEW k \in Keys
  PROVE  /\ Home(k, Size) \in 0..(Size - 1) /\ Home(k, Size) \in Nat
         /\ \A q \in 0..(Size - 1) : ~Before(Home(k, Size), q, Home(k, Size))
<1>1. Home(k, Size) \in 0..(Size - 1) /\ Size \in Nat
  BY TableArray, HomeIsSlot
<1>. DEFINE h == Home(k, Size)
<1>. HIDE DEF h
<1>2. h \in 0..(Size - 1) => \A q \in 0..(Size - 1) : ~Before(h, q, h)
  BY DEF Before, OnWay
<1>. QED
  BY <1>1, <1>2 DEF h

LEMMA StartStep ==
  ASSUME IInv, NEW t \in Threads, NEW k \in Keys, NEW op \in {"find", "insert", "remove"},
         lock = None, lock' = t,
         \/ th[t].pc = "idle" /\ (op = "insert" => ~MustGrow)
         \/ th[t].pc = "unlocked",
         StartProbe(t, op, k, Size), UNCHANGED <<arrays, freed, ents, load>>
  PROVE  IInv'
<1>. DEFINE f == [th[t] EXCEPT !.pc = "probe", !.op = op, !.key = k,
                               !.pos = Home(k, Size)]
<1>1. Home(k, Size) \in 0..(Size - 1) /\ Home(k, Size) \in Nat
      /\ \A q \in 0..(Size - 1) : ~Before(Home(k, Size), q, Home(k, Size))
  BY ProbeStarts DEF IInv
<1>2. th \in [Threads -> Frame] /\ th[t] \in Frame
      /\ (th[t].last # None => th[t].mark \in 0..(Size - 1))
  BY DEF IInv, Frames
<1>3. f \in Frame /\ f.pc = "probe" /\ f.op = op /\ f.key = k /\ f.pos = Home(k, Size)
      /\ f.last = th[t].last /\ f.mark = th[t].mark
  BY <1>1, <1>2 DEF Frame
<1>4. th' = [th EXCEPT ![t] = f]
  BY <1>2 DEF StartProbe
<1>. HIDE DEF f
<1>5. FrameOK(f)
  BY <1>1, <1>2, <1>3 DEF FrameOK
<1>6. th'[t] = f
  BY <1>2, <1>4
<1>7. \/ t \in Unchecked \/ t \notin Unchecked'
      \/ ~MustGrow /\ f.pc = "probe"
  BY <1>3, <1>6 DEF Unchecked
<1>. QED
  BY <1>3, <1>4, <1>5, <1>7, ThreadStep

LEMMA FindIInv ==
  ASSUME IInv, NEW t \in Threads, NEW k \in Keys, Find(t, k) PROVE IInv'
BY StartStep DEF Find

LEMMA InsertIInv ==
  ASSUME IInv, NEW t \in Threads, NEW k \in Keys, Insert(t, k) PROVE IInv'
BY StartStep DEF Insert

LEMMA RemoveIInv ==
  ASSUME IInv, NEW t \in Threads, NEW k \in Keys, RemoveKey(t, k) PROVE IInv'
<1>1. /\ th[t].pc = "idle" /\ lock = None /\ lock' = t
      /\ StartProbe(t, "remove", k, Size) /\ UNCHANGED <<arrays, freed, ents, load>>
  BY DEF RemoveKey
<1>2. "remove" \in {"find", "insert", "remove"} /\ "remove" # "insert"
  OBVIOUS
<1>. HIDE DEF StartProbe
<1>. QED
  BY <1>1, <1>2, StartStep

LEMMA RelockIInv ==
  ASSUME IInv, NEW t \in Threads, Relock(t) PROVE IInv'
<1>1. th[t].key \in Keys
  BY DEF Relock, IInv, Frames
<1>. QED
  BY <1>1, StartStep DEF Relock

LEMMA InsertGrowsIInv ==
  ASSUME IInv, NEW t \in Threads, NEW k \in Keys, InsertGrows(t, k) PROVE IInv'
<1>. DEFINE f == [th[t] EXCEPT !.pc = "alloc", !.op = "insert", !.key = k, !.old = ents]
<1>1. ents \in Nat \ {0}
  BY TableArray DEF IInv
<1>2. th \in [Threads -> Frame] /\ th[t] \in Frame
      /\ (th[t].last # None => th[t].mark \in 0..(Size - 1))
  BY DEF IInv, Frames
<1>3. f \in Frame /\ f.pc = "alloc" /\ f.op = "insert" /\ f.key = k /\ f.old = ents
      /\ f.last = th[t].last /\ f.mark = th[t].mark
  BY <1>1, <1>2 DEF Frame
<1>4. th' = [th EXCEPT ![t] = f] /\ UNCHANGED <<lock, arrays, freed, ents, load>>
      /\ th[t].pc = "idle" /\ lock = None
  BY <1>2 DEF InsertGrows
<1>. HIDE DEF f
<1>5. FrameOK(f)
  BY <1>1, <1>2, <1>3 DEF FrameOK
<1>6. th'[t] = f
  BY <1>2, <1>4
<1>7. t \notin Unchecked'
  BY <1>3, <1>4, <1>6 DEF Unchecked
<1>. QED
  BY <1>3, <1>4, <1>5, <1>7, ThreadStep

\* The locals of a thread whose call is over, and what it remembers.
Ended(k, pos) == [Idle EXCEPT !.last = k, !.mark = pos]

LEMMA IdleFrame == Idle \in Frame /\ FrameOK(Idle) /\ Idle.pc = "idle"
BY DEF Idle, Frame, FrameOK

LEMMA EndedFrame ==
  ASSUME NEW k \in Keys \cup {None}, NEW pos \in Nat,
         k # None => pos \in 0..(Size - 1)
  PROVE  Ended(k, pos) \in Frame /\ FrameOK(Ended(k, pos)) /\ Ended(k, pos).pc = "idle"
<1>1. LET g == Ended(k, pos) IN
      g \in Frame /\ g.pc = "idle" /\ g.last = k /\ g.mark = pos
  BY DEF Ended, Idle, Frame
<1>. QED
  BY <1>1 DEF FrameOK

LEMMA ReturnStep ==
  ASSUME IInv, NEW t \in Threads, lock \in {None, t},
         th[t].pc \in {"probe", "alloc"}, lock' = None,
         \/ Return(t) \/ ReturnWith(t, None, 0),
         UNCHANGED <<arrays, freed, ents, load>>
  PROVE  IInv'
<1>1. /\ th[t] \in Frame /\ (th[t].last # None => th[t].mark \in 0..(Size - 1))
      /\ None \notin FastKeys /\ th \in [Threads -> Frame]
  BY HashTableAssumption DEF IInv, Frames
<1>2. PICK f \in Frame : /\ FrameOK(f) /\ f.pc = "idle"
                         /\ th' = [th EXCEPT ![t] = f]
  <2>1. th[t].last \in Keys \cup {None} /\ th[t].mark \in Nat
    BY <1>1 DEF Frame
  <2>. DEFINE e == Ended(th[t].last, th[t].mark)
  <2>2. e \in Frame /\ FrameOK(e) /\ e.pc = "idle"
    BY <1>1, <2>1, EndedFrame
  <2>3. CASE Return(t)
    <3>1. th' = [th EXCEPT ![t] = e]
      BY <2>3 DEF Return, Ended
    <3>. HIDE DEF e
    <3>. QED
      BY <2>2, <3>1
  <2>4. CASE ReturnWith(t, None, 0)
    <3>1. th' = [th EXCEPT ![t] = Idle]
      BY <1>1, <2>4 DEF ReturnWith
    <3>. QED
      BY IdleFrame, <3>1
  <2>. QED
    BY <2>3, <2>4
<1>3. t \notin Unchecked'
  BY <1>1, <1>2 DEF Unchecked
<1>4. th[t].pc \notin {"shift", "copy"} /\ lock' = IF f.pc = "probe" THEN t ELSE None
  BY <1>2
<1>. QED
  BY <1>2, <1>3, <1>4, ThreadStep

LEMMA MissIInv ==
  ASSUME IInv, NEW t \in Threads, Miss(t) PROVE IInv'
<1>1. lock = t
  BY DEF Miss, IInv, Frames, LockPcs
<1>. QED
  BY <1>1, ReturnStep DEF Miss

LEMMA HitIInv ==
  ASSUME IInv, NEW t \in Threads, Hit(t) PROVE IInv'
<1>1. lock = t
  BY DEF Hit, IInv, Frames, LockPcs
<1>. QED
  BY <1>1, ReturnStep DEF Hit

LEMMA GrowFailsIInv ==
  ASSUME IInv, NEW t \in Threads, GrowFails(t) PROVE IInv'
BY ReturnStep DEF GrowFails

LEMMA ProbeOnIInv ==
  ASSUME IInv, NEW t \in Threads, ProbeOn(t) PROVE IInv'
<1>. DEFINE pos == th[t].pos
            f == [th[t] EXCEPT !.pos = (pos + 1) % Size]
            h == Home(th[t].key, Size)
<1>1. Size \in Nat \ {0, 1} /\ Slots(ents) = 0..(Size - 1)
  BY TableArray DEF IInv
<1>2. /\ th \in [Threads -> Frame] /\ th[t] \in Frame
      /\ th[t].pc = "probe" /\ th[t].key \in Keys /\ pos \in 0..(Size - 1)
      /\ th[t].op \in {"find", "insert", "remove"} /\ lock = t
      /\ th[t].last # None => th[t].mark \in 0..(Size - 1)
  BY DEF IInv, Frames, ProbeOn, LockPcs
<1>3. h \in 0..(Size - 1)
  BY <1>1, <1>2, HomeIsSlot
<1>4. (pos + 1) % Size = NextOf(pos, Size) /\ NextOf(pos, Size) \in 0..(Size - 1)
  BY <1>1, <1>2, ModNext DEF NextOf
<1>5. f \in Frame /\ f = [th[t] EXCEPT !.pos = NextOf(pos, Size)]
  BY <1>2, <1>4 DEF Frame
<1>6. /\ f.pc = "probe" /\ f.op = th[t].op /\ f.key = th[t].key
      /\ f.pos = NextOf(pos, Size) /\ f.last = th[t].last /\ f.mark = th[t].mark
  BY <1>2, <1>5 DEF Frame
<1>7. th' = [th EXCEPT ![t] = f] /\ th'[t] = f
  BY <1>2 DEF ProbeOn
<1>8. \A q \in 0..(Size - 1) : Before(h, q, NextOf(pos, Size))
                                 => Slot(q) \notin {None, th[t].key}
  <2>1. \A q \in 0..(Size - 1) : Before(h, q, pos) \/ q = pos
                                    => Slot(q) \notin {None, th[t].key}
    BY <1>2 DEF IInv, Runs, Slot, ProbeOn
  <2>. HIDE DEF h, pos
  <2>2. \A q \in 0..(Size - 1) : Before(h, q, NextOf(pos, Size)) => Before(h, q, pos) \/ q = pos
    BY <1>1, <1>2, <1>3 DEF Before, OnWay, NextOf
  <2>. QED
    BY <2>1, <2>2
<1>. HIDE DEF f
<1>9. FrameOK(f)
  BY <1>2, <1>4, <1>6, <1>8 DEF FrameOK
<1>10. t \in Unchecked \/ t \notin Unchecked'
  BY <1>2, <1>6, <1>7 DEF Unchecked
<1>. QED
  BY <1>2, <1>5, <1>6, <1>7, <1>9, <1>10, ThreadStep DEF ProbeOn

\* A larger array than the remembered one is another one.
LEMMA GrowSkipIInv ==
  ASSUME IInv, NEW t \in Threads, GrowSkip(t) PROVE IInv'
<1>. DEFINE f == [th[t] EXCEPT !.pc = "unlocked"]
<1>1. ents \in Nat \ {0} /\ Size \in Nat \ {0, 1} /\ Size = SizeOf(ents)
  BY TableArray DEF IInv, Size
<1>2. /\ th \in [Threads -> Frame] /\ th[t] \in Frame
      /\ th[t].pc = "alloc" /\ th[t].key \in Keys /\ th[t].old \in 1..ents
      /\ th[t].op = "insert" /\ lock = None
      /\ th[t].last # None => th[t].mark \in 0..(Size - 1)
  BY DEF IInv, Frames, GrowSkip
<1>3. th[t].old # ents
  BY <1>1 DEF GrowSkip, Overtaken, NewSize
<1>4. ents > 1
  BY <1>1, <1>2, <1>3
<1>5. /\ f \in Frame /\ f.pc = "unlocked" /\ f.op = th[t].op /\ f.key = th[t].key
      /\ f.last = th[t].last /\ f.mark = th[t].mark
  BY <1>2 DEF Frame
<1>6. th' = [th EXCEPT ![t] = f]
  BY <1>2 DEF GrowSkip, Goto
<1>7. t \in Unchecked
  BY <1>2, <1>3 DEF Unchecked
<1>. HIDE DEF f
<1>8. FrameOK(f)
  BY <1>2, <1>4, <1>5 DEF FrameOK
<1>. QED
  BY <1>2, <1>5, <1>6, <1>7, <1>8, ThreadStep DEF GrowSkip

-----------------------------------------------------------------------------
(* Steps that change the table's array.                                    *)

\* A thread puts the array r in place of the table's: it ends its call, or
\* shifts entries until the hole it made is closed.
LEMMA ArrayStep ==
  ASSUME IInv, NEW t \in Threads, lock \in {None, t}, NEW f \in Frame,
         th[t].pc # "copy", th' = [th EXCEPT ![t] = f],
         f.pc \in {"idle", "shift"},
         f.pc = "shift" => /\ f.key \in Keys /\ f.op = "remove"
                           /\ f.pos \in 0..(Size - 1) /\ f.i \in 0..(Size - 1),
         f.last # None => f.mark \in 0..(Size - 1),
         lock' = IF f.pc = "shift" THEN t ELSE None,
         NEW r \in Array(Size), arrays' = [arrays EXCEPT ![ents] = r],
         UNCHANGED <<freed, ents>>,
         NoTwice(r),
         IF f.pc = "shift" THEN UnbrokenBut(r, Size, f.pos, f.i) ELSE Unbroken(r, Size),
         load' \in Nat,
         load' = Cardinality(Occupied(r)) + (IF f.pc = "shift" THEN 1 ELSE 0),
         load' <= load + (IF t \in Unchecked THEN 1 ELSE 0)
  PROVE  IInv'
<1>1. th \in [Threads -> Frame] /\ th'[t] = f /\ None \notin Threads
      /\ \A u \in Threads \ {t} : th'[u] = th[u]
  BY HashTableAssumption DEF IInv, Frames
<1>2. \A u \in Threads \ {t} : th[u].pc \notin LockPcs
  BY OthersWait DEF IInv
<1>3. /\ Shapes' /\ Size' = Size /\ arrays'[ents'] = r
  <2>1. ents \in 1..Len(arrays) /\ Size = SizeOf(ents)
    BY TableArray DEF IInv, Size
  <2>. QED
    BY <2>1, ChangedArray DEF IInv
<1>4. /\ \A u \in Threads : th'[u].pc \notin {"probe", "copy"}
      /\ (\E u \in Threads : th'[u].pc = "shift") <=> f.pc = "shift"
      /\ \A u \in Threads : th'[u].pc = "shift" => u = t
  BY <1>1, <1>2 DEF LockPcs
<1>5. Frames'
  <2>1. lock' \in Threads \cup {None} /\ th' \in [Threads -> Frame]
    BY <1>1
  <2>2. lock' = t <=> th'[t].pc \in LockPcs
    BY <1>1 DEF LockPcs
  <2>3. \A u \in Threads \ {t} : lock' # u /\ th'[u].pc \notin LockPcs
    BY <1>1, <1>2
  <2>4. \A u \in Threads :
          /\ th'[u].pc # "idle" => th'[u].key \in Keys
          /\ th'[u].pc = "shift" => /\ th'[u].op = "remove"
                                    /\ th'[u].pos \in 0..(Size - 1)
                                    /\ th'[u].i \in 0..(Size - 1)
          /\ th'[u].pc \in {"alloc", "unlocked"} => th'[u].op = "insert"
          /\ th'[u].pc = "alloc" => th'[u].old \in 1..ents
          /\ th'[u].pc = "unlocked" => ents > 1
          /\ th'[u].last # None => th'[u].mark \in 0..(Size - 1)
    BY <1>1 DEF IInv, Frames
  <2>. QED
    BY <1>3, <1>4, <2>1, <2>2, <2>3, <2>4 DEF Frames
<1>6. FreedOK'
  BY <1>4 DEF IInv, FreedOK
<1>7. Runs'
  BY <1>1, <1>3, <1>4 DEF Runs
<1>8. Loads'
  <2>. DEFINE lim == (Size * 8) \div 10
              room == IF ents = 1 THEN 1 ELSE Cardinality(Threads)
  <2>1. load \in Nat /\ load + Cardinality(Unchecked) <= lim + room
    BY DEF IInv, Loads
  <2>2. Cardinality(Unchecked) \in Nat /\ Cardinality(Threads) \in Nat /\ lim \in Nat
        /\ room \in Nat
    BY TableArray, OthersWait DEF IInv
  <2>3. t \notin Unchecked'
    BY <1>1 DEF Unchecked
  <2>4. /\ Cardinality(Unchecked') \in Nat
        /\ Cardinality(Unchecked') <= Cardinality(Unchecked)
        /\ t \in Unchecked => Cardinality(Unchecked') <= Cardinality(Unchecked) - 1
    BY <2>3, UncheckedCount
  <2>5. load' + Cardinality(Unchecked') <= lim + room
    <3>. HIDE DEF lim, room
    <3>. QED
      BY <2>1, <2>2, <2>4
  <2>. QED
    BY <1>3, <1>4, <2>5 DEF Loads
<1>. QED
  BY <1>3, <1>5, <1>6, <1>7, <1>8 DEF IInv

\* The table when nothing is being taken out of it.
LEMMA TableWhole ==
  ASSUME IInv, NEW t \in Threads, lock \in {None, t}, th[t].pc # "shift"
  PROVE  /\ NoTwice(arrays[ents]) /\ Unbroken(arrays[ents], Size)
         /\ load = Cardinality(Occupied(arrays[ents]))
<1>1. \A u \in Threads : th[u].pc # "shift"
  BY OthersWait DEF IInv, LockPcs
<1>2. Cardinality(Occupied(arrays[ents])) \in Nat
  BY TableArray DEF IInv
<1>. QED
  BY <1>1, <1>2 DEF IInv, Runs, Loads

LEMMA InsertHereIInv ==
  ASSUME IInv, NEW t \in Threads, InsertHere(t) PROVE IInv'
<1>. DEFINE s == arrays[ents]
            n == Size
            k == th[t].key
            pos == th[t].pos
            r == [s EXCEPT ![pos] = k]
            h == Home(k, n)
<1>1. /\ n \in Nat \ {0, 1} /\ Slots(ents) = 0..(n - 1) /\ s \in Array(n)
      /\ IsFiniteSet(Occupied(s)) /\ Cardinality(Occupied(s)) \in Nat
      /\ ents \in DOMAIN arrays /\ DOMAIN s = 0..(n - 1)
  BY TableArray DEF IInv, Array
<1>2. /\ th \in [Threads -> Frame] /\ th[t] \in Frame /\ th[t].pc = "probe"
      /\ k \in Keys /\ pos \in 0..(n - 1) /\ lock = t /\ th[t].op = "insert"
  BY DEF IInv, Frames, InsertHere, LockPcs
<1>3. NoTwice(s) /\ Unbroken(s, n) /\ load = Cardinality(Occupied(s))
  BY <1>2, TableWhole
<1>4. s[pos] = None /\ \A q \in 0..(n - 1) : Before(h, q, pos) => s[q] \notin {None, k}
  BY <1>2 DEF IInv, Runs, InsertHere, Slot
<1>5. /\ arrays' = [arrays EXCEPT ![ents] = r] /\ load' = load + 1 /\ lock' = None
      /\ UNCHANGED <<freed, ents>>
  BY <1>1 DEF InsertHere, Put
<1>6. PICK f \in Frame : /\ f.pc = "idle" /\ (f.last # None => f.mark \in 0..(n - 1))
                         /\ th' = [th EXCEPT ![t] = f]
  <2>1. pos \in Nat
    BY <1>1, <1>2
  <2>. DEFINE e == Ended(k, pos)
  <2>2. e \in Frame /\ e.pc = "idle" /\ FrameOK(e)
    BY <1>2, <2>1, EndedFrame
  <2>3. th' = [th EXCEPT ![t] = e] \/ th' = [th EXCEPT ![t] = Idle]
    BY DEF InsertHere, ReturnWith, Ended
  <2>. HIDE DEF e
  <2>. QED
    BY <2>2, <2>3, IdleFrame DEF FrameOK
<1>7. t \in Unchecked
  BY <1>2 DEF Unchecked
<1>. HIDE DEF s, n, k, pos, h
<1>8. k \notin KeysOf(s)
  BY <1>1, <1>2, <1>3, <1>4, ProbeDecides DEF h
<1>9. \A q \in 0..(n - 1) : Before(Home(k, n), q, pos) => s[q] # None
  BY <1>4 DEF h
<1>10. /\ r \in Array(n) /\ NoTwice(r) /\ Unbroken(r, n)
       /\ Cardinality(Occupied(r)) = Cardinality(Occupied(s)) + 1
  <2>1. n \in Nat \ {0} /\ s[pos] = None /\ r = [s EXCEPT ![pos] = k]
    BY <1>1, <1>4
  <2>. HIDE DEF r
  <2>2. r \in Array(n) /\ NoTwice(r) /\ Unbroken(r, n)
    BY <1>1, <1>2, <1>3, <1>8, <1>9, <2>1, PutKey
  <2>3. Cardinality(Occupied(r)) = Cardinality(Occupied(s)) + 1
    BY <1>1, <1>2, <2>1, OneMore
  <2>. QED
    BY <2>2, <2>3
<1>. HIDE DEF r
<1>11. load' = Cardinality(Occupied(r)) + 0 /\ load' \in Nat /\ load' <= load + 1
  BY <1>1, <1>3, <1>5, <1>10
<1>. QED
  BY <1>2, <1>5, <1>6, <1>7, <1>10, <1>11, ArrayStep DEF n

\* The frame of a thread that shifts.
ShiftFrame(f, hole, look) ==
  /\ f \in Frame /\ f.pc = "shift" /\ f.op = "remove" /\ f.key \in Keys
  /\ f.pos = hole /\ f.i = look
  /\ f.last # None => f.mark \in 0..(Size - 1)

\* A key is taken out of its slot.
LEMMA TakeStep ==
  ASSUME IInv, NEW t \in Threads, lock \in {None, t}, th[t].pc \in {"idle", "probe"},
         NEW hole \in 0..(Size - 1), Slot(hole) # None, Put(hole, None),
         NEW f, ShiftFrame(f, hole, After(hole)),
         th' = [th EXCEPT ![t] = f], lock' = t, UNCHANGED <<freed, ents, load>>
  PROVE  IInv'
<1>. DEFINE s == arrays[ents]
            n == Size
            r == [s EXCEPT ![hole] = None]
<1>1. /\ n \in Nat \ {0, 1} /\ s \in Array(n) /\ Cardinality(Occupied(s)) \in Nat
      /\ ents \in DOMAIN arrays
  BY TableArray DEF IInv
<1>2. NoTwice(s) /\ Unbroken(s, n) /\ load = Cardinality(Occupied(s))
  BY TableWhole
<1>3. s[hole] # None /\ After(hole) = NextOf(hole, n) /\ hole \in 0..(n - 1)
  BY DEF Slot, After, NextOf
<1>4. arrays' = [arrays EXCEPT ![ents] = r] /\ load' = load
  BY <1>1 DEF Put
<1>. HIDE DEF s, n
<1>5. /\ r \in Array(n) /\ NoTwice(r) /\ UnbrokenBut(r, n, hole, NextOf(hole, n))
      /\ NextOf(hole, n) \in 0..(n - 1)
      /\ Cardinality(Occupied(r)) = Cardinality(Occupied(s)) - 1
  <2>1. r = [s EXCEPT ![hole] = None]
    OBVIOUS
  <2>. HIDE DEF r
  <2>. QED
    BY <1>1, <1>2, <1>3, <2>1, TakeKey
<1>. HIDE DEF r
<1>6. load' = Cardinality(Occupied(r)) + 1 /\ load' \in Nat /\ load' <= load + 0
  BY <1>1, <1>2, <1>4, <1>5
<1>7. /\ f \in Frame /\ f.pc = "shift" /\ f.op = "remove" /\ f.key \in Keys
      /\ f.pos = hole /\ f.i = NextOf(hole, n)
      /\ f.last # None => f.mark \in 0..(n - 1)
  BY <1>3 DEF ShiftFrame, n
<1>8. load' <= load + (IF t \in Unchecked THEN 1 ELSE 0)
  BY <1>1, <1>2, <1>6
<1>9. th[t].pc # "copy"
  OBVIOUS
<1>. QED
  BY <1>3, <1>4, <1>5, <1>6, <1>7, <1>8, <1>9, ArrayStep DEF n

LEMMA RemoveHereIInv ==
  ASSUME IInv, NEW t \in Threads, RemoveHere(t) PROVE IInv'
<1>. DEFINE hole == th[t].pos
            f == [th[t] EXCEPT !.pc = "shift", !.i = After(hole)]
<1>1. /\ th \in [Threads -> Frame] /\ th[t] \in Frame /\ th[t].pc = "probe"
      /\ th[t].key \in Keys /\ hole \in 0..(Size - 1) /\ lock = t /\ th[t].op = "remove"
      /\ th[t].last # None => th[t].mark \in 0..(Size - 1)
  BY DEF IInv, Frames, RemoveHere, LockPcs
<1>2. Size \in Nat
  BY TableArray DEF IInv
<1>3. After(hole) \in Nat /\ hole \in Nat
  BY <1>1, <1>2 DEF After
<1>4. ShiftFrame(f, hole, After(hole))
  BY <1>1, <1>3 DEF ShiftFrame, Frame
<1>5. th' = [th EXCEPT ![t] = f] /\ Put(hole, None) /\ lock' = t
      /\ UNCHANGED <<freed, ents, load>> /\ Slot(hole) # None
  BY <1>1, HashTableAssumption DEF RemoveHere
<1>. HIDE DEF f, hole
<1>. QED
  BY <1>1, <1>4, <1>5, TakeStep

LEMMA RemoveFastIInv ==
  ASSUME IInv, NEW t \in Threads, RemoveFast(t) PROVE IInv'
<1>. DEFINE k == th[t].last
            hole == th[t].mark
            e == [Idle EXCEPT !.pc = "shift", !.op = "remove", !.key = k,
                              !.pos = hole, !.i = After(hole)]
            g == [Idle EXCEPT !.pc = "probe", !.op = "remove", !.key = k,
                              !.pos = Home(k, Size)]
<1>1. /\ th \in [Threads -> Frame] /\ th[t] \in Frame /\ th[t].pc = "idle"
      /\ lock = None /\ k # None /\ hole \in 0..(Size - 1) /\ lock' = t
      /\ UNCHANGED <<freed, ents, load>>
  BY DEF IInv, Frames, RemoveFast
<1>2. Size \in Nat /\ k \in Keys
  BY <1>1, TableArray DEF IInv, Frame
<1>3. After(hole) \in Nat /\ hole \in Nat
  BY <1>1, <1>2 DEF After
<1>4. CASE Slot(hole) = k
  <2>1. /\ e \in Frame /\ e.pc = "shift" /\ e.op = "remove" /\ e.key = k
        /\ e.pos = hole /\ e.i = After(hole) /\ e.last = None
    BY <1>2, <1>3 DEF Frame, Idle
  <2>2. th' = [th EXCEPT ![t] = e] /\ Put(hole, None)
    BY <1>4 DEF RemoveFast
  <2>. HIDE DEF e, k, hole
  <2>3. ShiftFrame(e, hole, After(hole))
    BY <1>2, <2>1 DEF ShiftFrame
  <2>. QED
    BY <1>1, <1>4, <2>2, <2>3, TakeStep
<1>5. CASE Slot(hole) # k
  <2>1. Home(k, Size) \in 0..(Size - 1) /\ Home(k, Size) \in Nat
        /\ \A q \in 0..(Size - 1) : ~Before(Home(k, Size), q, Home(k, Size))
    BY <1>2, ProbeStarts DEF IInv
  <2>2. /\ g \in Frame /\ g.pc = "probe" /\ g.op = "remove" /\ g.key = k
        /\ g.pos = Home(k, Size) /\ g.last = None
    BY <1>2, <2>1 DEF Frame, Idle
  <2>3. th' = [th EXCEPT ![t] = g] /\ UNCHANGED arrays
    BY <1>5 DEF RemoveFast
  <2>. HIDE DEF g, k, hole
  <2>4. FrameOK(g)
    BY <1>2, <2>1, <2>2 DEF FrameOK
  <2>5. th'[t] = g
    BY <1>1, <2>3
  <2>6. t \notin Unchecked'
    BY <2>2, <2>5 DEF Unchecked
  <2>7. th[t].pc \notin {"shift", "copy"} /\ lock' = IF g.pc = "probe" THEN t ELSE None
    BY <1>1, <2>2
  <2>. QED
    BY <1>1, <2>2, <2>3, <2>4, <2>6, <2>7, ThreadStep
<1>. QED
  BY <1>4, <1>5

MovedTo(g, a, b) == [g EXCEPT !.pos = a, !.i = b]

LEMMA FrameMoved ==
  ASSUME NEW g \in Frame, NEW a \in Nat, NEW b \in Nat
  PROVE  LET f == MovedTo(g, a, b) IN
         /\ f \in Frame /\ f.pc = g.pc /\ f.op = g.op /\ f.key = g.key
         /\ f.pos = a /\ f.i = b /\ f.last = g.last /\ f.mark = g.mark
BY DEF Frame, MovedTo

LEMMA ShiftIInv ==
  ASSUME IInv, NEW t \in Threads, Shift(t) PROVE IInv'
<1>. DEFINE s == arrays[ents]
            n == Size
            hole == th[t].pos
            look == th[t].i
            k == s[look]
            f == MovedTo(th[t], look, NextOf(look, n))
            g == [th[t] EXCEPT !.i = NextOf(look, n)]
            r == Filled(s, hole, look)
<1>1. /\ n \in Nat \ {0, 1} /\ s \in Array(n) /\ Cardinality(Occupied(s)) \in Nat
      /\ ents \in DOMAIN arrays /\ DOMAIN s = 0..(n - 1)
  BY TableArray DEF IInv, Array
<1>2. /\ th \in [Threads -> Frame] /\ th[t] \in Frame /\ th[t].pc = "shift"
      /\ th[t].key \in Keys /\ th[t].op = "remove" /\ lock = t
      /\ hole \in 0..(n - 1) /\ look \in 0..(n - 1)
      /\ th[t].last # None => th[t].mark \in 0..(n - 1)
  BY DEF IInv, Frames, Shift, LockPcs
<1>3. /\ NoTwice(s) /\ UnbrokenBut(s, n, hole, look) /\ k # None
      /\ load = Cardinality(Occupied(s)) + 1
  BY <1>2 DEF IInv, Runs, Loads, Shift, Slot
<1>4. /\ lock' = t /\ UNCHANGED <<freed, ents, load>> /\ After(look) = NextOf(look, n)
      /\ NextOf(look, n) \in 0..(n - 1) /\ Slot(look) = k
  BY <1>1, <1>2 DEF Shift, After, NextOf, Slot
<1>5. load' = load /\ load' \in Nat /\ load' <= load + (IF t \in Unchecked THEN 1 ELSE 0)
  BY <1>1, <1>3, <1>4
<1>6. CASE Belongs(Home(k, n), hole, look)
  <2>1. arrays' = [arrays EXCEPT ![ents] = r]
    <3>1. arrays' = [arrays EXCEPT ![ents][hole] = k, ![ents][look] = None]
      BY <1>4, <1>6 DEF Shift
    <3>. QED
      BY <1>1, <3>1 DEF Filled
  <2>2. th' = [th EXCEPT ![t] = f]
    BY <1>2, <1>4, <1>6 DEF Shift, MovedTo
  <2>3. /\ f \in Frame /\ f.pc = "shift" /\ f.op = "remove" /\ f.key \in Keys
        /\ f.pos = look /\ f.i = NextOf(look, n) /\ f.pos \in 0..(n - 1) /\ f.i \in 0..(n - 1)
        /\ f.last # None => f.mark \in 0..(n - 1)
    <3>1. look \in Nat /\ NextOf(look, n) \in Nat
      BY <1>1, <1>2, <1>4
    <3>. DEFINE b == NextOf(look, n)
                g0 == th[t]
    <3>2. f = MovedTo(g0, look, b) /\ g0 \in Frame /\ look \in Nat /\ b \in Nat
      BY <1>2, <3>1
    <3>. HIDE DEF f, b, look, g0
    <3>3. /\ f \in Frame /\ f.pc = g0.pc /\ f.op = g0.op /\ f.key = g0.key
          /\ f.pos = look /\ f.i = b /\ f.last = g0.last /\ f.mark = g0.mark
      BY <3>2, FrameMoved
    <3>. USE DEF b, look, g0
    <3>. QED
      BY <1>2, <1>4, <3>3
  <2>. HIDE DEF s, n, hole, look, f
  <2>4. /\ r \in Array(n) /\ NoTwice(r) /\ UnbrokenBut(r, n, look, NextOf(look, n))
        /\ Cardinality(Occupied(r)) = Cardinality(Occupied(s))
    <3>1. r = Filled(s, hole, look) /\ s[look] # None
          /\ Belongs(Home(s[look], n), hole, look)
      BY <1>3, <1>6
    <3>2. /\ s \in Array(n) /\ NoTwice(s) /\ UnbrokenBut(s, n, hole, look)
          /\ n \in Nat \ {0, 1} /\ hole \in 0..(n - 1) /\ look \in 0..(n - 1)
      BY <1>1, <1>2, <1>3
    <3>. HIDE DEF r, k
    <3>. QED
      BY <3>1, <3>2, MoveKey
  <2>. HIDE DEF r, k
  <2>5. load' = Cardinality(Occupied(r)) + 1
    BY <1>3, <1>5, <2>4
  <2>6. UnbrokenBut(r, n, f.pos, f.i)
    BY <2>3, <2>4
  <2>. QED
    BY <1>2, <1>4, <1>5, <2>1, <2>2, <2>3, <2>4, <2>5, <2>6, ArrayStep DEF n
<1>7. CASE ~Belongs(Home(k, n), hole, look)
  <2>1. arrays' = [arrays EXCEPT ![ents] = s]
    BY <1>1, <1>4, <1>7 DEF Shift, IInv, Shapes
  <2>2. th' = [th EXCEPT ![t] = g]
    BY <1>2, <1>4, <1>7 DEF Shift
  <2>3. /\ g \in Frame /\ g.pc = "shift" /\ g.op = "remove" /\ g.key \in Keys
        /\ g.pos = hole /\ g.i = NextOf(look, n) /\ g.pos \in 0..(n - 1) /\ g.i \in 0..(n - 1)
        /\ g.last # None => g.mark \in 0..(n - 1)
    BY <1>1, <1>2, <1>4 DEF Frame
  <2>. HIDE DEF s, n, hole, look, g
  <2>4. UnbrokenBut(s, n, hole, NextOf(look, n))
    BY <1>1, <1>2, <1>3, <1>7, KeepKey
  <2>5. UnbrokenBut(s, n, g.pos, g.i)
    BY <2>3, <2>4
  <2>6. load' = Cardinality(Occupied(s)) + 1
    BY <1>3, <1>5
  <2>. QED
    BY <1>1, <1>2, <1>3, <1>4, <1>5, <2>1, <2>2, <2>3, <2>5, <2>6, ArrayStep DEF n
<1>. QED
  BY <1>6, <1>7

LEMMA ShiftDoneIInv ==
  ASSUME IInv, NEW t \in Threads, ShiftDone(t) PROVE IInv'
<1>. DEFINE s == arrays[ents]
            n == Size
            hole == th[t].pos
            look == th[t].i
            f == Ended(th[t].last, th[t].mark)
<1>1. /\ n \in Nat \ {0, 1} /\ s \in Array(n) /\ Cardinality(Occupied(s)) \in Nat
      /\ ents \in DOMAIN arrays
  BY TableArray DEF IInv
<1>2. /\ th \in [Threads -> Frame] /\ th[t] \in Frame /\ th[t].pc = "shift" /\ lock = t
      /\ hole \in 0..(n - 1) /\ look \in 0..(n - 1)
      /\ th[t].last # None => th[t].mark \in 0..(n - 1)
  BY DEF IInv, Frames, ShiftDone, LockPcs
<1>3. /\ NoTwice(s) /\ UnbrokenBut(s, n, hole, look) /\ s[look] = None
      /\ load = Cardinality(Occupied(s)) + 1
  BY <1>2 DEF IInv, Runs, Loads, ShiftDone, Slot
<1>4. /\ lock' = None /\ UNCHANGED <<freed, ents>> /\ load' = load - 1
      /\ arrays' = [arrays EXCEPT ![ents] = s]
  BY <1>1 DEF ShiftDone, IInv, Shapes
<1>5. load' = Cardinality(Occupied(s)) + 0 /\ load' \in Nat
      /\ load' <= load + (IF t \in Unchecked THEN 1 ELSE 0)
  BY <1>1, <1>3, <1>4
<1>6. f \in Frame /\ f.pc = "idle" /\ FrameOK(f)
  <2>1. th[t].last \in Keys \cup {None} /\ th[t].mark \in Nat
    BY <1>2 DEF Frame
  <2>. QED
    BY <1>2, <2>1, EndedFrame
<1>7. th' = [th EXCEPT ![t] = f]
  BY DEF ShiftDone, Return, Ended
<1>. HIDE DEF s, n, hole, look, f
<1>8. Unbroken(s, n)
  BY <1>1, <1>2, <1>3, HoleCloses
<1>9. f.last # None => f.mark \in 0..(n - 1)
  BY <1>6 DEF FrameOK, n
<1>. QED
  BY <1>1, <1>2, <1>3, <1>4, <1>5, <1>6, <1>7, <1>8, <1>9, ArrayStep DEF n

-----------------------------------------------------------------------------
(* Rebuilding the table.                                                   *)

\* What a thread that copies knows.
LEMMA Copying ==
  ASSUME IInv, NEW t \in Threads, th[t].pc = "copy"
  PROVE  /\ lock = t /\ \A u \in Threads \ {t} : th[u].pc \notin LockPcs
         /\ ents > 1 /\ ents - 1 \in 1..Len(arrays) /\ th[t].old = ents - 1
         /\ th[t].i \in 0..SizeOf(ents - 1) /\ th[t].op = "insert" /\ th[t].key \in Keys
         /\ SizeOf(ents - 1) \in Nat \ {0, 1} /\ Size = 2 * SizeOf(ents - 1)
         /\ Slots(ents - 1) = 0..(SizeOf(ents - 1) - 1)
         /\ arrays[ents - 1] \in Array(SizeOf(ents - 1))
         /\ NoTwice(arrays[ents]) /\ Unbroken(arrays[ents], Size) /\ NoTwice(arrays[ents - 1])
         /\ \A k \in KeysOf(arrays[ents]) :
              \E j \in 0..(th[t].i - 1) : arrays[ents - 1][j] = k
         /\ load = Cardinality(Occupied(arrays[ents])) /\ load <= th[t].i /\ load \in Nat
         /\ th \in [Threads -> Frame] /\ th[t] \in Frame
         /\ th[t].last # None => th[t].mark \in 0..(Size - 1)
<1>1. /\ lock = t /\ ents > 1 /\ th[t].old = ents - 1 /\ th[t].i \in 0..SizeOf(ents - 1)
      /\ th[t].op = "insert" /\ th[t].key \in Keys
      /\ th \in [Threads -> Frame] /\ th[t] \in Frame
      /\ th[t].last # None => th[t].mark \in 0..(Size - 1)
  BY DEF IInv, Frames, LockPcs
<1>2. \A u \in Threads \ {t} : th[u].pc \notin LockPcs
  BY <1>1, OthersWait DEF IInv
<1>3. ents \in 1..Len(arrays) /\ ents \in Nat
  BY TableArray DEF IInv
<1>4. ents - 1 \in 1..Len(arrays)
  BY <1>1, <1>3
<1>5. /\ SizeOf(ents - 1) \in Nat \ {0, 1}
      /\ Slots(ents - 1) = 0..(SizeOf(ents - 1) - 1)
      /\ arrays[ents - 1] \in Array(SizeOf(ents - 1))
  BY <1>4, ArraySizes DEF IInv
<1>6. Size = 2 * SizeOf(ents - 1)
  BY <1>1, <1>3 DEF IInv, Shapes, Size
<1>7. NoTwice(arrays[ents]) /\ Unbroken(arrays[ents], Size)
      /\ load = Cardinality(Occupied(arrays[ents]))
  BY <1>1, TableWhole
<1>8. NoTwice(arrays[ents - 1]) /\ load <= th[t].i /\ load \in Nat
      /\ \A k \in KeysOf(arrays[ents]) :
           \E j \in 0..(th[t].i - 1) : arrays[ents - 1][j] = k
  BY DEF IInv, Runs, Loads
<1>. QED
  BY <1>1, <1>2, <1>4, <1>5, <1>6, <1>7, <1>8

\* As long as not all of the old array is copied, the new one has empty slots.
LEMMA SlotLeft ==
  ASSUME NEW n \in Nat, NEW s \in Array(n), Cardinality(Occupied(s)) < n
  PROVE  \E empty \in 0..(n - 1) : s[empty] = None
<1>1. SUFFICES ASSUME \A p \in 0..(n - 1) : s[p] # None PROVE FALSE
  OBVIOUS
<1>2. DOMAIN s = 0..(n - 1) /\ Cardinality(DOMAIN s) = n
  BY SizeOfArray
<1>3. Occupied(s) = DOMAIN s
  BY <1>1, <1>2 DEF Occupied
<1>. QED
  BY <1>2, <1>3

\* The frame of a thread that goes on copying.
CopyFrame(g) == [g EXCEPT !.i = @ + 1]

LEMMA CopyFrameIs ==
  ASSUME NEW g \in Frame
  PROVE  LET f == CopyFrame(g) IN
         /\ f \in Frame /\ f.pc = g.pc /\ f.op = g.op /\ f.key = g.key /\ f.pos = g.pos
         /\ f.old = g.old /\ f.i = g.i + 1 /\ f.last = g.last /\ f.mark = g.mark
BY DEF Frame, CopyFrame

LEMMA CopyIInv ==
  ASSUME IInv, NEW t \in Threads, Copy(t) PROVE IInv'
<1>. DEFINE s == arrays[ents]
            o == arrays[ents - 1]
            n == Size
            m == SizeOf(ents - 1)
            i == th[t].i
            k == o[i]
            f == CopyFrame(th[t])
<1>1. /\ lock = t /\ \A u \in Threads \ {t} : th[u].pc \notin LockPcs
      /\ ents > 1 /\ ents - 1 \in 1..Len(arrays) /\ th[t].old = ents - 1
      /\ i \in 0..m /\ th[t].op = "insert" /\ th[t].key \in Keys
      /\ m \in Nat \ {0, 1} /\ n = 2 * m /\ Slots(ents - 1) = 0..(m - 1) /\ o \in Array(m)
      /\ NoTwice(s) /\ Unbroken(s, n) /\ NoTwice(o) /\ load \in Nat
      /\ \A x \in KeysOf(s) : \E j \in 0..(i - 1) : o[j] = x
      /\ load = Cardinality(Occupied(s)) /\ load <= i
      /\ th \in [Threads -> Frame] /\ th[t] \in Frame
      /\ th[t].last # None => th[t].mark \in 0..(n - 1)
  BY Copying DEF Copy
<1>2. /\ i \in 0..(m - 1) /\ lock' = t /\ UNCHANGED <<freed, ents>>
      /\ th[t].pc = "copy"
  BY <1>1 DEF Copy
<1>3. /\ n \in Nat \ {0, 1} /\ s \in Array(n) /\ Slots(ents) = 0..(n - 1)
      /\ ents \in DOMAIN arrays /\ ents \in 1..Len(arrays) /\ ents \in Nat
  BY TableArray DEF IInv
<1>4. /\ th' = [th EXCEPT ![t] = f]
  BY DEF Copy, CopyFrame
<1>5. /\ f \in Frame /\ f.pc = "copy" /\ f.op = "insert" /\ f.key \in Keys
      /\ f.old = ents - 1 /\ f.i = i + 1 /\ f.last = th[t].last /\ f.mark = th[t].mark
  <2>. DEFINE g == th[t]
  <2>1. g \in Frame
    BY <1>1
  <2>. HIDE DEF g
  <2>2. LET e == CopyFrame(g) IN
         /\ e \in Frame /\ e.pc = g.pc /\ e.op = g.op /\ e.key = g.key /\ e.pos = g.pos
         /\ e.old = g.old /\ e.i = g.i + 1 /\ e.last = g.last /\ e.mark = g.mark
    BY <2>1, CopyFrameIs
  <2>. QED
    BY <1>1, <1>2, <2>2 DEF g
<1>6. PICK r \in Array(n) :
        /\ arrays' = [arrays EXCEPT ![ents] = r] /\ NoTwice(r) /\ Unbroken(r, n)
        /\ \A x \in KeysOf(r) : x \in KeysOf(s) \/ x = o[i]
        /\ load' = Cardinality(Occupied(r)) /\ load' \in Nat /\ load' <= i + 1
  <2>1. CASE k = None
    <3>1. arrays' = [arrays EXCEPT ![ents] = s] /\ load' = load
      BY <1>1, <1>3, <2>1 DEF Copy, IInv, Shapes
    <3>2. /\ s \in Array(n) /\ NoTwice(s) /\ Unbroken(s, n)
          /\ load' = Cardinality(Occupied(s)) /\ load' \in Nat /\ load' <= i + 1
      <4>. HIDE DEF s, n, i
      <4>. QED
        BY <1>1, <1>2, <1>3, <3>1
    <3>. HIDE DEF s, o, n, m, i, k
    <3>. QED
      BY <3>1, <3>2
  <2>2. CASE k # None
    <3>. DEFINE pos == FreeSlot(k)
                r == [s EXCEPT ![pos] = k]
    <3>1. k \in Keys
      BY <1>1, <1>2, <2>2 DEF Array
    <3>2. arrays' = [arrays EXCEPT ![ents] = r] /\ load' = load + 1
      BY <1>1, <1>3, <2>2 DEF Copy, Put
    <3>3. PICK empty \in 0..(n - 1) : s[empty] = None
      <4>. HIDE DEF s, o, n, m, i, k
      <4>1. Cardinality(Occupied(s)) < n
        BY <1>1, <1>2
      <4>. QED
        BY <1>3, <4>1, SlotLeft
    <3>4. /\ pos \in 0..(n - 1) /\ s[pos] = None
          /\ \A q \in 0..(n - 1) : Before(Home(k, n), q, pos) => s[q] # None
      <4>1. n \in Nat \ {0} /\ Slot(empty) = None
        BY <1>3, <3>3 DEF Slot
      <4>2. /\ pos \in 0..(n - 1) /\ Slot(pos) = None
            /\ \A q \in 0..(n - 1) : Before(Home(k, n), q, pos) => Slot(q) # None
        <5>. HIDE DEF k
        <5>. QED
          BY <1>3, <3>1, <3>3, <4>1, FreeSlotIsFirst
      <4>. QED
        BY <4>2 DEF Slot
    <3>5. k \notin KeysOf(s)
      <4>1. \A j \in 0..(i - 1) : j \in DOMAIN o /\ i \in DOMAIN o /\ j # i
        BY <1>1, <1>2 DEF Array
      <4>2. \A j \in 0..(i - 1) : o[j] # k
        BY <2>2, <4>1, <1>1 DEF NoTwice
      <4>. HIDE DEF s, o, n, m, i, k
      <4>. QED
        BY <1>1, <4>2
    <3>. HIDE DEF s, n, pos
    <3>6. /\ r \in Array(n) /\ NoTwice(r) /\ Unbroken(r, n)
          /\ Adds(r, s, k)
          /\ Cardinality(Occupied(r)) = Cardinality(Occupied(s)) + 1
      <4>1. /\ n \in Nat \ {0} /\ r = [s EXCEPT ![pos] = k] /\ s \in Array(n)
            /\ NoTwice(s) /\ Unbroken(s, n)
        BY <1>1, <1>3
      <4>. HIDE DEF r, k
      <4>2. r \in Array(n) /\ NoTwice(r) /\ Unbroken(r, n) /\ Adds(r, s, k)
        BY <3>1, <3>4, <3>5, <4>1, PutKey
      <4>3. Cardinality(Occupied(r)) = Cardinality(Occupied(s)) + 1
        BY <3>1, <3>4, <4>1, OneMore
      <4>. QED
        BY <4>2, <4>3
    <3>7. load' = Cardinality(Occupied(r)) /\ load' \in Nat /\ load' <= i + 1
      <4>. HIDE DEF r, i
      <4>. QED
        BY <1>1, <1>2, <3>2, <3>6
    <3>8. \A x \in KeysOf(r) : x \in KeysOf(s) \/ x = k
      BY <3>6 DEF Adds
    <3>. HIDE DEF r
    <3>. QED
      BY <3>2, <3>6, <3>7, <3>8
  <2>. QED
    BY <2>1, <2>2
<1>7. /\ Shapes' /\ Size' = n /\ arrays'[ents] = r
      /\ arrays'[ents - 1] = o /\ SizeOf(ents - 1)' = m
  <2>1. /\ Shapes' /\ Size' = Size /\ arrays'[ents] = r
        /\ \A a \in 1..Len(arrays) : a # ents => arrays'[a] = arrays[a]
        /\ \A a \in 1..Len(arrays) : SizeOf(a)' = SizeOf(a)
    <3>1. r \in Array(SizeOf(ents))
      BY DEF Size
    <3>. QED
      BY <1>2, <1>3, <1>6, <3>1, ChangedArray DEF IInv
  <2>2. ents - 1 # ents /\ ents' = ents
    BY <1>2, <1>3
  <2>. QED
    BY <1>1, <2>1, <2>2
<1>. HIDE DEF f
<1>8. th'[t] = f /\ \A u \in Threads \ {t} : th'[u] = th[u]
  BY <1>1, <1>4
<1>9. \A u \in Threads : /\ th'[u].pc = "copy" <=> u = t
                         /\ th'[u].pc \notin {"probe", "shift"}
  BY <1>1, <1>5, <1>8 DEF LockPcs
<1>10. Frames'
  <2>. HIDE DEF s, o, i, k
  <2>1. lock' = t /\ th' \in [Threads -> Frame]
    BY <1>1, <1>2, <1>4, <1>5
  <2>2. \A u \in Threads : lock' = u <=> th'[u].pc \in LockPcs
    <3>1. \A u \in Threads : th'[u].pc \in LockPcs <=> u = t
      BY <1>9 DEF LockPcs
    <3>. QED
      BY <2>1, <3>1
  <2>3. \A u \in Threads :
          /\ th'[u].pc # "idle" => th'[u].key \in Keys
          /\ th'[u].pc \in {"alloc", "copy", "unlocked"} => th'[u].op = "insert"
          /\ th'[u].pc = "alloc" => th'[u].old \in 1..ents
          /\ th'[u].pc = "unlocked" => ents > 1
          /\ th'[u].last # None => th'[u].mark \in 0..(n - 1)
    BY <1>1, <1>5, <1>8 DEF IInv, Frames
  <2>4. \A u \in Threads : th'[u].pc = "copy" =>
          ents > 1 /\ th'[u].old = ents - 1 /\ th'[u].i \in 0..m
    <3>. HIDE DEF m
    <3>. QED
      BY <1>1, <1>2, <1>5, <1>8, <1>9
  <2>5. ents' = ents /\ Size' = n /\ SizeOf(ents - 1)' = m
    BY <1>2, <1>7
  <2>. HIDE DEF n, m
  <2>6. \A u \in Threads :
          /\ th'[u].pc = "alloc" => th'[u].old \in 1..ents'
          /\ th'[u].pc = "unlocked" => ents' > 1
          /\ th'[u].pc = "copy" => /\ ents' > 1 /\ th'[u].old = ents' - 1
                                   /\ th'[u].i \in 0..SizeOf(ents - 1)'
          /\ th'[u].last # None => th'[u].mark \in 0..(Size' - 1)
    BY <2>3, <2>4, <2>5
  <2>7. lock' \in Threads \cup {None} /\ th' \in [Threads -> Frame]
    BY <2>1
  <2>. QED
    BY <1>9, <2>2, <2>3, <2>6, <2>7 DEF Frames
<1>11. FreedOK'
  <2>1. ents - 1 \notin freed
    BY <1>2 DEF IInv, FreedOK
  <2>. QED
    BY <1>2, <2>1 DEF IInv, FreedOK
<1>12. Runs'
  <2>1. \A x \in KeysOf(r) : \E j \in 0..((i + 1) - 1) : o[j] = x
    <3>. HIDE DEF s, o, i
    <3>1. i \in 0..((i + 1) - 1) /\ \A j \in 0..(i - 1) : j \in 0..((i + 1) - 1)
      BY <1>2, <1>1
    <3>. QED
      BY <1>1, <1>6, <3>1
  <2>. HIDE DEF s, o, i, n, m
  <2>2. \A u \in Threads : th'[u].pc = "copy" =>
          /\ NoTwice(o)
          /\ \A x \in KeysOf(r) : \E j \in 0..(th'[u].i - 1) : o[j] = x
    BY <1>1, <1>5, <1>8, <1>9, <2>1
  <2>3. arrays'[ents'] = r /\ arrays'[ents' - 1] = o /\ Size' = n
    BY <1>2, <1>7
  <2>. QED
    BY <1>6, <1>9, <2>2, <2>3 DEF Runs
<1>13. Loads'
  <2>1. /\ Cardinality(Unchecked') \in Nat /\ Cardinality(Threads) \in Nat
        /\ Cardinality(Unchecked') <= Cardinality(Threads)
    <3>1. Unchecked' \in SUBSET Threads /\ IsFiniteSet(Threads)
      BY HashTableAssumption DEF Unchecked
    <3>. QED
      BY <3>1, FS_Subset, FS_CardinalityType
  <2>2. load' + Cardinality(Unchecked') <= (n * 8) \div 10 + Cardinality(Threads)
    <3>1. load' <= (n * 8) \div 10 /\ (n * 8) \div 10 \in Nat
      <4>. HIDE DEF n, m, i
      <4>1. load' <= m /\ load' \in Nat
        BY <1>1, <1>2, <1>6
      <4>2. m <= (2 * m * 8) \div 10
        BY <1>1
      <4>. QED
        BY <1>1, <4>1, <4>2
    <3>. HIDE DEF n
    <3>. QED
      BY <1>6, <2>1, <3>1
  <2>3. \A u \in Threads : th'[u].pc = "copy" => load' <= th'[u].i
    BY <1>5, <1>6, <1>8, <1>9
  <2>4. ~ \E u \in Threads : th'[u].pc = "shift"
    BY <1>9
  <2>5. ents' # 1 /\ arrays'[ents'] = r
    BY <1>1, <1>2, <1>7
  <2>6. load' = Cardinality(Occupied(r)) + 0
    BY <1>6
  <2>. HIDE DEF n
  <2>. QED
    BY <1>6, <1>7, <2>2, <2>3, <2>4, <2>5, <2>6 DEF Loads
<1>. QED
  BY <1>7, <1>10, <1>11, <1>12, <1>13 DEF IInv

\* The old array is freed: it is not the table's.
LEMMA CopyDoneIInv ==
  ASSUME IInv, NEW t \in Threads, CopyDone(t) PROVE IInv'
<1>. DEFINE s == arrays[ents]
            n == Size
            m == SizeOf(ents - 1)
            f == [th[t] EXCEPT !.pc = "unlocked"]
            b == Blank(m)
<1>1. /\ lock = t /\ \A u \in Threads \ {t} : th[u].pc \notin LockPcs
      /\ ents > 1 /\ ents - 1 \in 1..Len(arrays) /\ th[t].old = ents - 1
      /\ th[t].op = "insert" /\ th[t].key \in Keys /\ m \in Nat \ {0, 1}
      /\ NoTwice(s) /\ Unbroken(s, n) /\ load \in Nat
      /\ load = Cardinality(Occupied(s))
      /\ th \in [Threads -> Frame] /\ th[t] \in Frame /\ th[t].pc = "copy"
      /\ th[t].last # None => th[t].mark \in 0..(n - 1)
  BY Copying DEF CopyDone
<1>2. /\ freed' = freed \cup {ents - 1} /\ arrays' = [arrays EXCEPT ![ents - 1] = b]
      /\ lock' = None /\ th' = [th EXCEPT ![t] = f] /\ UNCHANGED <<ents, load>>
  BY <1>1 DEF CopyDone, Goto
<1>3. ents \in 1..Len(arrays) /\ ents \in Nat
  BY TableArray DEF IInv
<1>4. /\ Shapes' /\ Size' = n /\ arrays'[ents] = s
  <2>1. b \in Array(m)
    BY DEF Blank, Array
  <2>2. ents - 1 # ents
    BY <1>3
  <2>. HIDE DEF b
  <2>. QED
    BY <1>1, <1>2, <1>3, <2>1, <2>2, ChangedArray DEF IInv
<1>5. /\ f \in Frame /\ f.pc = "unlocked" /\ f.op = "insert" /\ f.key = th[t].key
      /\ f.last = th[t].last /\ f.mark = th[t].mark
  BY <1>1 DEF Frame
<1>. HIDE DEF f
<1>6. th'[t] = f /\ \A u \in Threads \ {t} : th'[u] = th[u]
  BY <1>1, <1>2
<1>7. \A u \in Threads : th'[u].pc \notin LockPcs
  BY <1>1, <1>5, <1>6 DEF LockPcs
<1>8. Frames'
  <2>1. lock' = None /\ None \notin Threads /\ th' \in [Threads -> Frame]
    BY <1>1, <1>2, <1>5, HashTableAssumption
  <2>2. \A u \in Threads :
          /\ th'[u].pc # "idle" => th'[u].key \in Keys
          /\ th'[u].pc \in {"alloc", "unlocked"} => th'[u].op = "insert"
          /\ th'[u].pc = "alloc" => th'[u].old \in 1..ents
          /\ th'[u].pc = "unlocked" => ents > 1
          /\ th'[u].last # None => th'[u].mark \in 0..(n - 1)
    BY <1>1, <1>5, <1>6 DEF IInv, Frames
  <2>. HIDE DEF n
  <2>. QED
    BY <1>2, <1>4, <1>7, <2>1, <2>2 DEF Frames, LockPcs
<1>9. FreedOK'
  <2>1. freed \subseteq 1..(ents - 1) /\ ents - 1 \in 1..(ents - 1)
    BY <1>1, <1>3 DEF IInv, FreedOK
  <2>. QED
    BY <1>2, <1>7, <2>1 DEF FreedOK, LockPcs
<1>10. Runs'
  <2>1. arrays'[ents'] = s /\ Size' = n
    BY <1>2, <1>4
  <2>. HIDE DEF s, n
  <2>. QED
    BY <1>1, <1>7, <2>1 DEF Runs, LockPcs
<1>11. Loads'
  <2>1. Unchecked' = Unchecked
    BY <1>1, <1>2, <1>5, <1>6 DEF Unchecked
  <2>2. load + Cardinality(Unchecked)
          <= (n * 8) \div 10 + (IF ents = 1 THEN 1 ELSE Cardinality(Threads))
    BY DEF IInv, Loads
  <2>3. arrays'[ents'] = s /\ Size' = n /\ load' = load /\ ents' = ents
    BY <1>2, <1>4
  <2>4. ~ \E u \in Threads : th'[u].pc \in {"shift", "copy"}
    BY <1>7 DEF LockPcs
  <2>5. load = Cardinality(Occupied(s)) + 0
    BY <1>1
  <2>. HIDE DEF s, n
  <2>. QED
    BY <1>1, <2>1, <2>2, <2>3, <2>4, <2>5 DEF Loads
<1>. QED
  BY <1>4, <1>8, <1>9, <1>10, <1>11 DEF IInv

\* Where there is room for c more than eight tenths, there is in twice as much.
LEMMA RoomDoubles ==
  ASSUME NEW n \in Nat, NEW c \in Nat, (n * 8) \div 10 + c < n
  PROVE  (2 * n * 8) \div 10 + c < 2 * n
OBVIOUS

\* The new array is the largest.
LEMMA GrowSwapIInv ==
  ASSUME IInv, NEW t \in Threads, GrowSwap(t) PROVE IInv'
<1>. DEFINE n == Size
            b == Blank(2 * n)
            f == [th[t] EXCEPT !.pc = "copy", !.i = 0]
            C == Cardinality(Threads)
            S == UNION {Array(a) : a \in Nat}
<1>1. /\ ents \in 1..Len(arrays) /\ ents \in Nat \ {0} /\ DOMAIN arrays = 1..ents
      /\ n \in Nat \ {0, 1} /\ ents = Len(arrays) /\ n = SizeOf(ents)
  BY TableArray DEF IInv, Shapes, Size
<1>2. /\ th \in [Threads -> Frame] /\ th[t] \in Frame /\ th[t].pc = "alloc"
      /\ th[t].key \in Keys /\ th[t].op = "insert" /\ th[t].old \in 1..ents
      /\ lock = None /\ None \notin Threads
      /\ th[t].last # None => th[t].mark \in 0..(n - 1)
  BY HashTableAssumption DEF IInv, Frames, GrowSwap
<1>3. \A u \in Threads : th[u].pc \notin LockPcs
  BY <1>2, OthersWait DEF IInv
<1>4. C \in Nat
  BY <1>2, OthersWait DEF IInv
<1>5. th[t].old = ents
  <2>. DEFINE old == th[t].old
  <2>1. n < 2 * SizeOf(old)
    <3>1. SizeOf(old) \in Nat
      BY <1>1, <1>2, ArraySizes DEF IInv
    <3>2. ~ (Size >= 2 * SizeOf(old))
      BY DEF GrowSwap, Overtaken, NewSize
    <3>. QED
      BY <1>1, <3>1, <3>2
  <2>2. old < ents => 2 * SizeOf(old) <= n /\ SizeOf(old) \in Nat
    BY <1>1, <1>2, ArraySizes DEF IInv
  <2>. HIDE DEF n
  <2>. QED
    BY <1>1, <1>2, <2>1, <2>2
<1>6. /\ lock' = t /\ arrays' = Append(arrays, b) /\ ents' = ents + 1 /\ load' = 0
      /\ freed' = freed
  BY <1>1, <1>5 DEF GrowSwap, NewSize
<1>7. th' = [th EXCEPT ![t] = f]
  BY DEF GrowSwap
<1>8. /\ f \in Frame /\ f.pc = "copy" /\ f.op = "insert" /\ f.key = th[t].key
      /\ f.old = ents /\ f.i = 0 /\ f.last = th[t].last /\ f.mark = th[t].mark
  BY <1>2, <1>5 DEF Frame
<1>. HIDE DEF f
<1>9. th'[t] = f /\ \A u \in Threads \ {t} : th'[u] = th[u]
  BY <1>2, <1>7
<1>10. \A u \in Threads : /\ th'[u].pc = "copy" <=> u = t
                          /\ th'[u].pc \notin {"probe", "shift"}
  BY <1>3, <1>8, <1>9 DEF LockPcs
<1>11. /\ b \in Array(2 * n) /\ 2 * n \in Nat /\ \A p \in DOMAIN b : b[p] = None
  BY <1>1 DEF Blank, Array
<1>12. Cardinality(DOMAIN b) = 2 * n
  <2>. HIDE DEF b
  <2>. QED
    BY <1>11, SizeOfArray
<1>. HIDE DEF b
<1>13. /\ Len(arrays') = ents + 1 /\ arrays' \in Seq(S)
       /\ arrays'[ents + 1] = b /\ \A a \in 1..ents : arrays'[a] = arrays[a]
  <2>1. b \in S /\ arrays \in Seq(S)
    BY <1>11 DEF IInv, Shapes
  <2>. HIDE DEF S
  <2>. QED
    BY <1>1, <1>6, <2>1
<1>14. /\ \A a \in 1..ents : SizeOf(a)' = SizeOf(a)
       /\ Size' = 2 * n /\ \A a : a = ents + 1 => SizeOf(a)' = 2 * n
  <2>1. \A a : SizeOf(a)' = Cardinality(DOMAIN arrays'[a])
    BY DEF SizeOf, Slots
  <2>2. \A a \in 1..ents : Cardinality(DOMAIN arrays'[a]) = SizeOf(a)
    BY <1>13 DEF SizeOf, Slots
  <2>3. Size' = Cardinality(DOMAIN arrays'[ents'])
    BY DEF Size, SizeOf, Slots
  <2>4. Size' = 2 * n
    BY <1>6, <1>12, <1>13, <2>3
  <2>5. \A a : a = ents + 1 => SizeOf(a)' = 2 * n
    BY <1>12, <1>13, <2>1
  <2>. QED
    BY <2>1, <2>2, <2>4, <2>5
<1>15. (2 * n * 8) \div 10 + C < 2 * n
  <2>1. CASE ents = 1
    <3>1. n = InitialSize
      BY <1>1, <2>1 DEF IInv, Shapes
    <3>. QED
      BY <3>1, HashTableAssumption
  <2>2. CASE ents > 1
    <3>1. (n * 8) \div 10 + C < n
      BY <1>1, <2>2 DEF IInv, Shapes
    <3>. HIDE DEF n, C
    <3>. QED
      BY <1>1, <1>4, <3>1, RoomDoubles
  <2>. QED
    BY <1>1, <2>1, <2>2
<1>16. Shapes'
  <2>1. arrays' \in Seq(UNION {Array(a) : a \in Nat}) /\ ents' = Len(arrays') /\ ents' > 0
        /\ Len(arrays') = ents + 1
    BY <1>1, <1>6, <1>13
  <2>2. SizeOf(1)' = InitialSize
    BY <1>1, <1>14 DEF IInv, Shapes
  <2>3. \A a \in 1..ents :
          /\ SizeOf(a) \in Nat /\ SizeOf(a) > 1 /\ arrays[a] \in Array(SizeOf(a))
          /\ a > 1 => /\ SizeOf(a) = 2 * SizeOf(a - 1)
                      /\ (SizeOf(a) * 8) \div 10 + C < SizeOf(a)
          /\ a < ents => 2 * SizeOf(a) <= n
    BY <1>1 DEF IInv, Shapes
  <2>4. \A a \in 1..ents : 2 * SizeOf(a) <= 2 * n
    <3>. SUFFICES ASSUME NEW a \in 1..ents PROVE 2 * SizeOf(a) <= 2 * n
      OBVIOUS
    <3>1. n \in Nat /\ SizeOf(a) \in Nat /\ (a < ents => 2 * SizeOf(a) <= n)
      BY <1>1, <2>3
    <3>2. a = ents => SizeOf(a) = n
      BY <1>1
    <3>3. a < ents \/ a = ents
      <4>1. ents \in Nat
        BY <1>1
      <4>. QED
        BY <4>1
    <3>. HIDE DEF n
    <3>. QED
      BY <3>1, <3>2, <3>3
  <2>. HIDE DEF n, C
  <2>5. \A a \in 1..ents : a > 1 => a - 1 \in 1..ents
    BY <1>1
  <2>6. \A a \in 1..ents :
          /\ arrays'[a] \in Array(SizeOf(a)')
          /\ SizeOf(a)' \in Nat /\ SizeOf(a)' > 1
          /\ a > 1 => /\ SizeOf(a)' = 2 * SizeOf(a - 1)'
                      /\ (SizeOf(a)' * 8) \div 10 + C < SizeOf(a)'
          /\ 2 * SizeOf(a)' <= Size'
    BY <1>13, <1>14, <2>3, <2>4, <2>5
  <2>7. \A a : a = ents + 1 =>
          /\ arrays'[a] \in Array(SizeOf(a)')
          /\ SizeOf(a)' \in Nat /\ SizeOf(a)' > 1
          /\ SizeOf(a)' = 2 * SizeOf(a - 1)'
          /\ (SizeOf(a)' * 8) \div 10 + C < SizeOf(a)'
    <3>1. SizeOf(ents) = n
      BY <1>1
    <3>2. \A a : a = ents + 1 => a - 1 = ents /\ SizeOf(a - 1)' = n
      <4>1. \A a : a = ents + 1 => a - 1 = ents /\ a - 1 \in 1..ents
        BY <1>1
      <4>. QED
        BY <1>14, <3>1, <4>1
    <3>3. \A a : a = ents + 1 => arrays'[a] = b /\ SizeOf(a)' = 2 * n
      BY <1>13, <1>14
    <3>4. 2 * n \in Nat /\ 2 * n > 1
      BY <1>1
    <3>. SUFFICES ASSUME NEW a, a = ents + 1
                  PROVE  /\ arrays'[a] \in Array(SizeOf(a)')
                         /\ SizeOf(a)' \in Nat /\ SizeOf(a)' > 1
                         /\ SizeOf(a)' = 2 * SizeOf(a - 1)'
                         /\ (SizeOf(a)' * 8) \div 10 + C < SizeOf(a)'
      OBVIOUS
    <3>5. (SizeOf(a)' * 8) \div 10 + C < SizeOf(a)'
      BY <1>15, <3>3
    <3>. QED
      BY <1>11, <3>2, <3>3, <3>4, <3>5
  <2>8. \A a \in 1..(ents + 1) : a \in 1..ents \/ (a = ents + 1 /\ ~(a < ents'))
    BY <1>1, <1>6
  <2>9. \A a \in 1..(ents + 1) :
          /\ arrays'[a] \in Array(SizeOf(a)')
          /\ SizeOf(a)' \in Nat /\ SizeOf(a)' > 1
          /\ a > 1 => /\ SizeOf(a)' = 2 * SizeOf(a - 1)'
                      /\ (SizeOf(a)' * 8) \div 10 + C < SizeOf(a)'
          /\ a < ents' => 2 * SizeOf(a)' <= Size'
    BY <2>6, <2>7, <2>8
  <2>. QED
    BY <2>1, <2>2, <2>9 DEF Shapes, C
<1>17. Frames'
  <2>1. lock' = t /\ th' \in [Threads -> Frame]
    BY <1>2, <1>6, <1>7, <1>8
  <2>2. \A u \in Threads : lock' = u <=> th'[u].pc \in LockPcs
    <3>1. \A u \in Threads : th'[u].pc \in LockPcs <=> u = t
      BY <1>10 DEF LockPcs
    <3>. QED
      BY <2>1, <3>1
  <2>3. \A u \in Threads :
          /\ th'[u].pc # "idle" => th'[u].key \in Keys
          /\ th'[u].pc \in {"alloc", "copy", "unlocked"} => th'[u].op = "insert"
          /\ th'[u].pc = "alloc" => th'[u].old \in 1..ents
          /\ th'[u].last # None => th'[u].mark \in 0..(n - 1)
    BY <1>2, <1>8, <1>9 DEF IInv, Frames
  <2>4. \A x \in 0..(n - 1) : x \in 0..(Size' - 1)
    <3>. HIDE DEF n
    <3>. QED
      BY <1>1, <1>14
  <2>5. \A x \in 1..ents : x \in 1..ents'
    BY <1>1, <1>6
  <2>6. \A u \in Threads : th'[u].pc = "copy" =>
          /\ ents' > 1 /\ th'[u].old = ents' - 1 /\ th'[u].i \in 0..SizeOf(ents - 1)'
    <3>1. ents' > 1 /\ ents' - 1 = ents
      BY <1>1, <1>6
    <3>2. SizeOf(ents - 1)' \in Nat
      <4>1. \A a : a = ents' - 1 => SizeOf(a)' \in Nat
        <5>1. ents \in 1..ents /\ SizeOf(ents) \in Nat
          BY <1>1
        <5>. QED
          BY <1>14, <3>1, <5>1
      <4>. QED
        BY <4>1
    <3>. QED
      BY <1>8, <1>9, <1>10, <3>1, <3>2
  <2>7. ents' > 1
    BY <1>1, <1>6
  <2>8. \A u \in Threads :
          /\ th'[u].pc = "alloc" => th'[u].old \in 1..ents'
          /\ th'[u].last # None => th'[u].mark \in 0..(Size' - 1)
    BY <2>3, <2>4, <2>5
  <2>9. lock' \in Threads \cup {None}
    BY <2>1
  <2>. QED
    BY <1>10, <2>1, <2>2, <2>3, <2>6, <2>7, <2>8, <2>9 DEF Frames
<1>18. FreedOK'
  <2>1. ents' - 1 = ents /\ freed \subseteq 1..(ents - 1)
    BY <1>1, <1>6 DEF IInv, FreedOK
  <2>2. \A x \in 1..(ents - 1) : x \in 1..ents /\ x # ents
    <3>1. ents \in Nat \ {0}
      BY <1>1
    <3>. QED
      BY <3>1
  <2>3. freed' \subseteq 1..(ents' - 1) /\ ents' - 1 \notin freed'
    BY <1>6, <2>1, <2>2
  <2>. QED
    BY <2>3 DEF FreedOK
<1>19. Runs'
  <2>1. NoTwice(b) /\ Unbroken(b, 2 * n) /\ KeysOf(b) = {}
    BY <1>11 DEF NoTwice, Unbroken, KeysOf
  <2>2. NoTwice(arrays[ents])
    BY <1>2, TableWhole
  <2>3. arrays'[ents'] = b /\ arrays'[ents' - 1] = arrays[ents] /\ Size' = 2 * n
    BY <1>1, <1>6, <1>13, <1>14
  <2>. HIDE DEF n
  <2>. QED
    BY <1>10, <2>1, <2>2, <2>3 DEF Runs
<1>20. Loads'
  <2>1. Occupied(b) = {} /\ Cardinality({}) = 0
    BY <1>11, FS_EmptySet DEF Occupied
  <2>2. /\ Cardinality(Unchecked') \in Nat /\ Cardinality(Unchecked') <= C
    <3>1. Unchecked' \in SUBSET Threads /\ IsFiniteSet(Threads)
      BY HashTableAssumption DEF Unchecked
    <3>. QED
      BY <3>1, FS_Subset, FS_CardinalityType
  <2>3. arrays'[ents'] = b /\ Size' = 2 * n /\ ents' # 1
    BY <1>1, <1>6, <1>13, <1>14
  <2>. HIDE DEF n, C
  <2>4. load' + Cardinality(Unchecked') <= (2 * n * 8) \div 10 + C
    BY <1>1, <1>4, <1>6, <2>2
  <2>5. load' = Cardinality(Occupied(b)) + 0 /\ load' \in Nat
    BY <1>6, <2>1
  <2>6. \A u \in Threads : th'[u].pc = "copy" => load' <= th'[u].i
    BY <1>6, <1>8, <1>9, <1>10
  <2>7. ~ \E u \in Threads : th'[u].pc = "shift"
    BY <1>10
  <2>8. Size' * 8 = 2 * n * 8
    BY <1>1, <2>3
  <2>. QED
    BY <2>3, <2>4, <2>5, <2>6, <2>7, <2>8 DEF Loads, C
<1>. QED
  BY <1>16, <1>17, <1>18, <1>19, <1>20 DEF IInv

-----------------------------------------------------------------------------
(* Every step keeps the invariant.                                         *)

LEMMA NextIInv == IInv /\ [Next]_vars => IInv'
<1>. SUFFICES ASSUME IInv, [Next]_vars PROVE IInv'
  OBVIOUS
<1>1. CASE UNCHANGED vars
  BY <1>1 DEF vars, IInv, Shapes, Frames, FreedOK, Runs, Loads, Unchecked,
              Size, SizeOf, Slots
<1>2. ASSUME NEW t \in Threads, Call(t) PROVE IInv'
  BY <1>2, FindIInv, InsertIInv, InsertGrowsIInv, RemoveIInv, RemoveFastIInv DEF Call
<1>3. ASSUME NEW t \in Threads, Locked(t) PROVE IInv'
  BY <1>3, ProbeOnIInv, MissIInv, InsertHereIInv, HitIInv, RemoveHereIInv, ShiftIInv,
     ShiftDoneIInv, CopyIInv, CopyDoneIInv DEF Locked
<1>4. ASSUME NEW t \in Threads, Growing(t) PROVE IInv'
  BY <1>4, GrowSkipIInv, GrowFailsIInv, GrowSwapIInv, RelockIInv DEF Growing
<1>. QED
  BY <1>1, <1>2, <1>3, <1>4 DEF Next

THEOREM SpecInvariant == Spec => []IInv
<1>. QED
  BY InitIInv, NextIInv, PTL DEF Spec

-----------------------------------------------------------------------------
(* The properties.                                                         *)

LEMMA IInvTypeOK == IInv => TypeOK
<1>. SUFFICES ASSUME IInv PROVE TypeOK
  OBVIOUS
<1>1. /\ ents \in 1..Len(arrays) /\ ents \in Nat \ {0} /\ DOMAIN arrays = 1..ents
      /\ Len(arrays) = ents
  BY TableArray DEF IInv, Shapes
<1>2. ents \notin freed /\ freed \subseteq DOMAIN arrays
  <2>1. ents \in Nat /\ freed \subseteq 1..(ents - 1)
    BY <1>1 DEF IInv, FreedOK
  <2>. QED
    BY <1>1, <2>1
<1>3. \A t \in Threads : th[t].pc = "copy" => th[t].old \notin freed
  BY DEF IInv, Frames, FreedOK
<1>4. \A a \in DOMAIN arrays :
        /\ arrays[a] \in [0..(SizeOf(a) - 1) -> Keys \cup {None}]
        /\ SizeOf(a) = IF a = 1 THEN InitialSize ELSE 2 * SizeOf(a - 1)
  <2>. SUFFICES ASSUME NEW a \in 1..Len(arrays)
                PROVE  /\ arrays[a] \in [0..(SizeOf(a) - 1) -> Keys \cup {None}]
                       /\ SizeOf(a) = IF a = 1 THEN InitialSize ELSE 2 * SizeOf(a - 1)
    BY <1>1
  <2>1. arrays[a] \in [0..(SizeOf(a) - 1) -> Keys \cup {None}]
    BY DEF IInv, Shapes, Array
  <2>2. a > 1 => SizeOf(a) = 2 * SizeOf(a - 1)
    BY DEF IInv, Shapes
  <2>3. a = 1 \/ a > 1
    OBVIOUS
  <2>4. SizeOf(1) = InitialSize
    BY DEF IInv, Shapes
  <2>. QED
    BY <2>1, <2>2, <2>3, <2>4
<1>5. lock \in Threads \cup {None} /\ th \in [Threads -> Frame] /\ load \in Nat
  BY DEF IInv, Frames, Loads
<1>. QED
  BY <1>1, <1>2, <1>3, <1>4, <1>5 DEF TypeOK

\* When nobody copies, the table's array is all there is.
LEMMA ContentsAtRest ==
  ASSUME \A t \in Threads : th[t].pc # "copy"
  PROVE  \A k : k \in Contents <=> k \in KeysOf(arrays[ents])
BY DEF Contents, Stored, Uncopied, Slots, KeysOf

LEMMA ContentsAtRestNext ==
  ASSUME \A t \in Threads : th'[t].pc # "copy"
  PROVE  \A k : k \in Contents' <=> k \in KeysOf(arrays'[ents'])
BY DEF Contents, Stored, Uncopied, Slots, KeysOf

\* When a thread copies, the rest of the old array counts too.
LEMMA ContentsCopying ==
  ASSUME NEW t \in Threads, \A u \in Threads : th[u].pc = "copy" <=> u = t,
         NEW o, o = arrays[th[t].old]
  PROVE  \A k : k \in Contents
                <=> \/ k \in KeysOf(arrays[ents])
                    \/ k # None /\ \E j \in DOMAIN o : j >= th[t].i /\ o[j] = k
<1>1. {u \in Threads : th[u].pc = "copy"} = {t}
  OBVIOUS
<1>. DEFINE R == {o[j] : j \in {x \in DOMAIN o : x >= th[t].i}}
<1>2. Uncopied = R \ {None}
  <2>1. Uncopied = (UNION {R : u \in {t}}) \ {None}
    BY <1>1 DEF Uncopied, Slots
  <2>. HIDE DEF R
  <2>. QED
    BY <2>1
<1>3. \A k : k \in R <=> \E j \in DOMAIN o : j >= th[t].i /\ o[j] = k
  OBVIOUS
<1>4. \A k : k \in Contents <=> k \in KeysOf(arrays[ents]) \/ k \in Uncopied
  BY DEF Contents, Stored, Slots, KeysOf
<1>. HIDE DEF R
<1>. QED
  BY <1>2, <1>3, <1>4

LEMMA ContentsCopyingNext ==
  ASSUME NEW t \in Threads, \A u \in Threads : th'[u].pc = "copy" <=> u = t,
         NEW o, o = arrays'[th'[t].old]
  PROVE  \A k : k \in Contents'
                <=> \/ k \in KeysOf(arrays'[ents'])
                    \/ k # None /\ \E j \in DOMAIN o : j >= th'[t].i /\ o[j] = k
<1>1. {u \in Threads : th'[u].pc = "copy"} = {t}
  OBVIOUS
<1>. DEFINE R == {o[j] : j \in {x \in DOMAIN o : x >= th'[t].i}}
<1>2. Uncopied' = R \ {None}
  <2>1. Uncopied' = (UNION {R : u \in {t}}) \ {None}
    BY <1>1 DEF Uncopied, Slots
  <2>. HIDE DEF R
  <2>. QED
    BY <2>1
<1>3. \A k : k \in R <=> \E j \in DOMAIN o : j >= th'[t].i /\ o[j] = k
  OBVIOUS
<1>4. \A k : k \in Contents' <=> k \in KeysOf(arrays'[ents']) \/ k \in Uncopied'
  BY DEF Contents, Stored, Slots, KeysOf
<1>. HIDE DEF R
<1>. QED
  BY <1>2, <1>3, <1>4

\* The slots from the home of a key up to a slot are those on the way.
LEMMA UpToIsOnWay ==
  ASSUME NEW n \in Nat \ {0}, NEW x \in Nat, NEW p \in 0..(n - 1),
         NEW e \in 0..Dist(x % n, p, n)
  PROVE  (x + e) % n \in 0..(n - 1) /\ OnWay(x % n, (x + e) % n, p)
<1>. DEFINE h == x % n
<1>1. h \in 0..(n - 1)
  BY ModRange
<1>2. Dist(h, p, n) \in 0..(n - 1) /\ e \in 0..(n - 1)
  <2>1. Dist(h, p, n) \in 0..(n - 1) /\ e \in 0..Dist(h, p, n)
    BY DistReaches
  <2>. DEFINE dd == Dist(h, p, n)
  <2>. HIDE DEF dd
  <2>2. dd \in 0..(n - 1) /\ e \in 0..dd => e \in 0..(n - 1)
    OBVIOUS
  <2>. QED
    BY <2>1, <2>2 DEF dd
<1>3. (x + e) % n = IF h + e < n THEN h + e ELSE h + e - n
  BY <1>2, ModAdd
<1>4. e <= Dist(h, p, n)
  BY <1>2
<1>. HIDE DEF h
<1>. QED
  BY <1>1, <1>2, <1>3, <1>4 DEF h, OnWay, Dist

LEMMA IInvFindable == IInv => Findable
<1>. DEFINE s == arrays[ents]
            n == Size
<1>1. SUFFICES ASSUME IInv, lock = None, NEW k \in Contents
               PROVE  \E d \in 0..(n - 1) :
                        /\ \A pos \in Slots(ents) : Slot(pos) = k <=> pos = (Hash[k] + d) % n
                        /\ \A e \in 0..d : Slot((Hash[k] + e) % n) # None
  BY DEF Findable
<1>2. /\ n \in Nat \ {0} /\ s \in Array(n) /\ Slots(ents) = 0..(n - 1)
  BY <1>1, TableArray DEF IInv
<1>3. \A t \in Threads : th[t].pc \notin LockPcs
  BY <1>1, OthersWait, HashTableAssumption DEF IInv, Frames
<1>4. NoTwice(s) /\ Unbroken(s, n)
  BY <1>1, <1>3 DEF IInv, Runs, LockPcs
<1>5. k \in KeysOf(s)
  BY <1>1, <1>3, ContentsAtRest DEF LockPcs
<1>. HIDE DEF n
<1>6. PICK p \in 0..(n - 1) : s[p] = k
  BY <1>2, <1>5 DEF KeysOf, Array
<1>7. k \in Keys /\ k # None
  BY <1>2, <1>5 DEF KeysOf, Array
<1>. DEFINE x == Hash[k]
            d == Dist(x % n, p, n)
<1>8. x \in Nat /\ Home(k, n) = x % n
  BY <1>7, HashTableAssumption DEF Home
<1>. HIDE DEF x
<1>9. d \in 0..(n - 1) /\ (x + d) % n = p
  BY <1>2, <1>8, DistReaches
<1>10. \A pos \in Slots(ents) : Slot(pos) = k <=> pos = (x + d) % n
  BY <1>2, <1>4, <1>6, <1>7, <1>9 DEF NoTwice, Array, Slot
<1>11. ASSUME NEW e \in 0..d PROVE Slot((x + e) % n) # None
  <2>1. (x + e) % n \in 0..(n - 1) /\ OnWay(x % n, (x + e) % n, p)
    BY <1>2, <1>8, UpToIsOnWay
  <2>. QED
    BY <1>2, <1>4, <1>6, <1>7, <1>8, <2>1 DEF Unbroken, Array, Slot
<1>. HIDE DEF d
<1>. QED
  BY <1>9, <1>10, <1>11 DEF x

LEMMA IInvLoadCounts == IInv => LoadCounts
<1>1. SUFFICES ASSUME IInv, lock = None
               PROVE  /\ load = Cardinality({pos \in Slots(ents) : Slot(pos) # None})
                      /\ load < Size
  BY DEF LoadCounts
<1>2. \A t \in Threads : th[t].pc \notin LockPcs
  BY <1>1, HashTableAssumption DEF IInv, Frames
<1>3. Occupied(arrays[ents]) = {pos \in Slots(ents) : Slot(pos) # None}
  BY DEF Occupied, Slots, Slot
<1>4. Cardinality(Occupied(arrays[ents])) \in Nat /\ Size \in Nat \ {0, 1}
      /\ ents \in 1..Len(arrays) /\ ents \in Nat \ {0}
  BY TableArray, <1>1 DEF IInv
<1>5. load = Cardinality(Occupied(arrays[ents]))
  BY <1>1, <1>2, <1>4 DEF IInv, Loads, LockPcs
<1>. DEFINE room == IF ents = 1 THEN 1 ELSE Cardinality(Threads)
            U == Cardinality(Unchecked)
            lim == (Size * 8) \div 10
<1>6. load + U <= lim + room
  BY <1>1 DEF IInv, Loads
<1>7. lim + room < Size
  <2>1. CASE ents = 1
    <3>1. Size = InitialSize
      BY <1>1, <2>1 DEF IInv, Shapes, Size
    <3>. QED
      BY <2>1, <3>1, HashTableAssumption
  <2>2. CASE ents > 1
    <3>1. (SizeOf(ents) * 8) \div 10 + Cardinality(Threads) < SizeOf(ents)
      BY <1>1, <1>4, <2>2 DEF IInv, Shapes
    <3>. QED
      BY <2>2, <3>1 DEF Size
  <2>. QED
    BY <1>4, <2>1, <2>2
<1>8. U \in Nat /\ lim \in Nat /\ room \in Nat
  <2>1. IsFiniteSet(Threads) /\ Unchecked \in SUBSET Threads
    BY HashTableAssumption DEF Unchecked
  <2>2. U \in Nat /\ Cardinality(Threads) \in Nat
    BY <2>1, FS_Subset, FS_CardinalityType
  <2>. QED
    BY <1>4, <2>2
<1>. HIDE DEF U, lim, room
<1>9. load < Size
  BY <1>4, <1>5, <1>6, <1>7, <1>8
<1>. QED
  BY <1>3, <1>5, <1>9

\* The variables keep their types, the table is never a freed array, and no
\* thread copies from one, with any number of growths.
THEOREM SpecTypeOK == Spec => []TypeOK
BY SpecInvariant, IInvTypeOK, PTL

\* A probe finds every key in the table, in the one slot it is in.
THEOREM SpecFindable == Spec => []Findable
BY SpecInvariant, IInvFindable, PTL

\* The load is the number of entries, and every probe ends at an empty slot.
THEOREM SpecLoadCounts == Spec => []LoadCounts
BY SpecInvariant, IInvLoadCounts, PTL

-----------------------------------------------------------------------------
(* What changes the contents.                                              *)

\* The keys that a step adds or takes away are those of calls.
OnlyCalls ==
  \A k \in (Contents \ Contents') \cup (Contents' \ Contents) :
    \E t \in Threads :
      IF k \in Contents'
      THEN th[t].op = "insert" /\ th[t].key = k /\ th[t].pc = "probe"
      ELSE th'[t].op = "remove" /\ th'[t].key = k /\ th'[t].pc = "shift"

\* A step of a thread that does not copy, in the table's array.
LEMMA NotCopying ==
  ASSUME IInv, NEW t \in Threads, lock \in {None, t}, th[t].pc # "copy", th'[t].pc # "copy",
         \A u \in Threads \ {t} : th'[u] = th[u]
  PROVE  \A k : /\ k \in Contents <=> k \in KeysOf(arrays[ents])
                /\ k \in Contents' <=> k \in KeysOf(arrays'[ents'])
<1>1. \A u \in Threads : th[u].pc # "copy" /\ th'[u].pc # "copy"
  BY OthersWait DEF IInv, LockPcs
<1>. QED
  BY <1>1, ContentsAtRest, ContentsAtRestNext

LEMMA SameContents ==
  ASSUME IInv, NEW t \in Threads, lock \in {None, t}, th[t].pc # "copy", th'[t].pc # "copy",
         \A u \in Threads \ {t} : th'[u] = th[u],
         SameKeys(arrays'[ents'], arrays[ents])
  PROVE  OnlyCalls
BY NotCopying DEF OnlyCalls, SameKeys

\* The steps that change no array.
LEMMA QuietCalls ==
  ASSUME IInv, NEW t \in Threads, UNCHANGED <<arrays, ents>>,
         \/ \E k \in Keys : Find(t, k) \/ Insert(t, k) \/ InsertGrows(t, k) \/ RemoveKey(t, k)
         \/ RemoveFast(t) \/ ProbeOn(t) \/ Miss(t) \/ Hit(t) \/ ShiftDone(t)
         \/ GrowSkip(t) \/ GrowFails(t) \/ Relock(t)
  PROVE  OnlyCalls
<1>1. th \in [Threads -> Frame] /\ \A u \in Threads : lock = u <=> th[u].pc \in LockPcs
  BY DEF IInv, Frames
<1>2. lock \in {None, t} /\ th[t].pc # "copy" /\ th'[t].pc # "copy"
      /\ \A u \in Threads \ {t} : th'[u] = th[u]
  <2>1. CASE \E k \in Keys : Find(t, k) \/ Insert(t, k) \/ InsertGrows(t, k) \/ RemoveKey(t, k)
    <3>1. PICK k \in Keys : Find(t, k) \/ Insert(t, k) \/ InsertGrows(t, k) \/ RemoveKey(t, k)
      BY <2>1
    <3>2. CASE Find(t, k)
      BY <1>1, <3>2 DEF Find, StartProbe, Frame
    <3>3. CASE Insert(t, k)
      BY <1>1, <3>3 DEF Insert, StartProbe, Frame
    <3>4. CASE InsertGrows(t, k)
      BY <1>1, <3>4 DEF InsertGrows, Frame
    <3>5. CASE RemoveKey(t, k)
      BY <1>1, <3>5 DEF RemoveKey, StartProbe, Frame
    <3>. QED
      BY <3>1, <3>2, <3>3, <3>4, <3>5
  <2>2. CASE RemoveFast(t)
    BY <1>1, <2>2 DEF RemoveFast, Idle
  <2>3. CASE ProbeOn(t)
    BY <1>1, <2>3 DEF ProbeOn, LockPcs, Frame
  <2>4. CASE Miss(t)
    BY <1>1, <2>4 DEF Miss, LockPcs, Return, Idle
  <2>5. CASE Hit(t)
    <3>1. Return(t) \/ ReturnWith(t, None, 0)
      BY <2>5 DEF Hit
    <3>2. lock = t /\ th[t].pc # "copy"
      BY <1>1, <2>5 DEF Hit, LockPcs
    <3>3. CASE Return(t)
      BY <1>1, <3>2, <3>3 DEF Return, Idle
    <3>4. CASE ReturnWith(t, None, 0)
      BY <1>1, <3>2, <3>4 DEF ReturnWith, Idle
    <3>. QED
      BY <3>1, <3>3, <3>4
  <2>6. CASE ShiftDone(t)
    BY <1>1, <2>6 DEF ShiftDone, LockPcs, Return, Idle
  <2>7. CASE GrowSkip(t)
    BY <1>1, <2>7 DEF GrowSkip, Goto, Frame
  <2>8. CASE GrowFails(t)
    BY <1>1, <2>8 DEF GrowFails, ReturnWith, Idle
  <2>9. CASE Relock(t)
    BY <1>1, <2>9 DEF Relock, StartProbe, Frame
  <2>. QED
    BY <2>1, <2>2, <2>3, <2>4, <2>5, <2>6, <2>7, <2>8, <2>9
<1>3. SameKeys(arrays'[ents'], arrays[ents])
  BY DEF SameKeys
<1>. QED
  BY <1>2, <1>3, SameContents

LEMMA InsertCalls ==
  ASSUME IInv, NEW t \in Threads, InsertHere(t) PROVE OnlyCalls
<1>. DEFINE s == arrays[ents]
            n == Size
            k == th[t].key
            pos == th[t].pos
            r == [s EXCEPT ![pos] = k]
<1>1. /\ s \in Array(n) /\ ents \in DOMAIN arrays /\ DOMAIN s = 0..(n - 1)
  BY TableArray DEF IInv, Array
<1>2. /\ th \in [Threads -> Frame] /\ th[t].pc = "probe" /\ th[t].op = "insert"
      /\ pos \in 0..(n - 1) /\ lock = t /\ s[pos] = None
  BY DEF IInv, Frames, InsertHere, LockPcs, Slot
<1>3. arrays'[ents'] = r
  BY <1>1 DEF InsertHere, Put
<1>4. \A x : x \in KeysOf(r) <=> x \in KeysOf(s) \/ (x = k /\ k # None)
  <2>. HIDE DEF s, n, k, pos
  <2>. QED
    BY <1>1, <1>2 DEF KeysOf
<1>5. th'[t].pc # "copy" /\ \A u \in Threads \ {t} : th'[u] = th[u]
  BY <1>2 DEF InsertHere, ReturnWith, Idle
<1>6. \A x : /\ x \in Contents <=> x \in KeysOf(s)
             /\ x \in Contents' <=> x \in KeysOf(r)
  <2>. HIDE DEF r
  <2>. QED
    BY <1>2, <1>3, <1>5, NotCopying
<1>. HIDE DEF r, s, n, pos
<1>. QED
  BY <1>2, <1>4, <1>6 DEF OnlyCalls

\* A key that is taken out is the one that was to be removed.
LEMMA TakeCalls ==
  ASSUME IInv, NEW t \in Threads, lock \in {None, t}, th[t].pc \in {"idle", "probe"},
         NEW hole \in 0..(Size - 1), Put(hole, None), ents' = ents,
         \A u \in Threads \ {t} : th'[u] = th[u],
         th'[t].pc = "shift", th'[t].op = "remove", th'[t].key = Slot(hole)
  PROVE  OnlyCalls
<1>. DEFINE s == arrays[ents]
            n == Size
            r == [s EXCEPT ![hole] = None]
<1>1. /\ s \in Array(n) /\ ents \in DOMAIN arrays /\ DOMAIN s = 0..(n - 1)
  BY TableArray DEF IInv, Array
<1>2. arrays'[ents'] = r /\ Slot(hole) = s[hole] /\ hole \in 0..(n - 1)
  BY <1>1 DEF Put, Slot
<1>3. \A x : /\ x \in KeysOf(s) => x \in KeysOf(r) \/ x = s[hole]
             /\ x \in KeysOf(r) => x \in KeysOf(s)
  <2>. HIDE DEF s, n
  <2>. QED
    BY <1>1, <1>2 DEF KeysOf
<1>4. \A x : /\ x \in Contents <=> x \in KeysOf(s)
             /\ x \in Contents' <=> x \in KeysOf(r)
  <2>1. th[t].pc # "copy" /\ th'[t].pc # "copy"
    OBVIOUS
  <2>. HIDE DEF r
  <2>. QED
    BY <1>2, <2>1, NotCopying
<1>. HIDE DEF r, s, n
<1>. QED
  BY <1>2, <1>3, <1>4 DEF OnlyCalls

LEMMA RemoveHereCalls ==
  ASSUME IInv, NEW t \in Threads, RemoveHere(t) PROVE OnlyCalls
<1>1. /\ th \in [Threads -> Frame] /\ th[t] \in Frame /\ th[t].pc = "probe" /\ lock = t
      /\ th[t].pos \in 0..(Size - 1) /\ th[t].op = "remove"
  BY DEF IInv, Frames, RemoveHere, LockPcs
<1>2. /\ Put(th[t].pos, None) /\ ents' = ents /\ Slot(th[t].pos) = th[t].key
      /\ th' = [th EXCEPT ![t].pc = "shift", ![t].i = After(th[t].pos)]
  BY DEF RemoveHere
<1>3. /\ th'[t].pc = "shift" /\ th'[t].op = "remove" /\ th'[t].key = th[t].key
      /\ \A u \in Threads \ {t} : th'[u] = th[u]
  BY <1>1, <1>2 DEF Frame
<1>. DEFINE hole == th[t].pos
<1>4. hole \in 0..(Size - 1) /\ Put(hole, None) /\ th'[t].key = Slot(hole)
  BY <1>1, <1>2, <1>3
<1>. HIDE DEF hole
<1>. QED
  BY <1>1, <1>2, <1>3, <1>4, TakeCalls

LEMMA RemoveFastCalls ==
  ASSUME IInv, NEW t \in Threads, RemoveFast(t) PROVE OnlyCalls
<1>. DEFINE hole == th[t].mark
<1>1. CASE Slot(hole) = th[t].last
  <2>1. /\ th \in [Threads -> Frame] /\ th[t].pc = "idle" /\ lock = None
        /\ hole \in 0..(Size - 1)
    BY DEF IInv, Frames, RemoveFast
  <2>2. Put(hole, None) /\ ents' = ents
    BY <1>1 DEF RemoveFast
  <2>3. /\ th'[t].pc = "shift" /\ th'[t].op = "remove" /\ th'[t].key = th[t].last
        /\ \A u \in Threads \ {t} : th'[u] = th[u]
    BY <1>1, <2>1 DEF RemoveFast, Idle
  <2>. HIDE DEF hole
  <2>. QED
    BY <1>1, <2>1, <2>2, <2>3, TakeCalls
<1>2. CASE Slot(hole) # th[t].last
  <2>1. UNCHANGED <<arrays, ents>>
    BY <1>2 DEF RemoveFast
  <2>. QED
    BY <2>1, QuietCalls
<1>. QED
  BY <1>1, <1>2

LEMMA ShiftCalls ==
  ASSUME IInv, NEW t \in Threads, Shift(t) PROVE OnlyCalls
<1>. DEFINE s == arrays[ents]
            n == Size
            hole == th[t].pos
            look == th[t].i
            r == Filled(s, hole, look)
<1>1. /\ s \in Array(n) /\ ents \in DOMAIN arrays /\ DOMAIN s = 0..(n - 1)
  BY TableArray DEF IInv, Array
<1>2. /\ th \in [Threads -> Frame] /\ th[t] \in Frame /\ th[t].pc = "shift" /\ lock = t
      /\ hole \in 0..(n - 1) /\ look \in 0..(n - 1) /\ s[hole] = None /\ s[look] # None
  BY DEF IInv, Frames, Runs, Shift, LockPcs, UnbrokenBut, Slot
<1>3. th'[t].pc # "copy" /\ \A u \in Threads \ {t} : th'[u] = th[u]
  BY <1>2 DEF Shift, Frame
<1>4. arrays'[ents'] = r \/ arrays'[ents'] = s
  BY <1>1 DEF Shift, Slot, Filled
<1>5. SameKeys(r, s) /\ SameKeys(s, s)
  <2>. HIDE DEF s, n, hole, look
  <2>1. DOMAIN r = 0..(n - 1) /\ hole # look
    BY <1>1, <1>2 DEF Filled
  <2>2. /\ r[hole] = s[look] /\ r[look] = None
        /\ \A q \in 0..(n - 1) : q # hole /\ q # look => r[q] = s[q]
    BY <1>1, <1>2, <2>1 DEF Filled
  <2>. QED
    BY <1>1, <1>2, <2>1, <2>2 DEF SameKeys, KeysOf
<1>6. SameKeys(arrays'[ents'], arrays[ents])
  <2>. HIDE DEF r
  <2>. QED
    BY <1>4, <1>5
<1>. QED
  BY <1>2, <1>3, <1>6, SameContents

\* Copying an entry and freeing the old array change nothing.
LEMMA CopyCalls ==
  ASSUME IInv, NEW t \in Threads, Copy(t) PROVE OnlyCalls
<1>. DEFINE s == arrays[ents]
            o == arrays[ents - 1]
            n == Size
            m == SizeOf(ents - 1)
            i == th[t].i
            k == o[i]
<1>1. /\ lock = t /\ \A u \in Threads \ {t} : th[u].pc \notin LockPcs
      /\ ents > 1 /\ ents - 1 \in 1..Len(arrays) /\ th[t].old = ents - 1
      /\ i \in 0..m /\ m \in Nat \ {0, 1} /\ n = 2 * m /\ Slots(ents - 1) = 0..(m - 1)
      /\ o \in Array(m) /\ load \in Nat
      /\ load = Cardinality(Occupied(s)) /\ load <= i
      /\ th \in [Threads -> Frame] /\ th[t] \in Frame
  BY Copying DEF Copy
<1>2. th[t].pc = "copy" /\ i \in 0..(m - 1) /\ DOMAIN o = 0..(m - 1)
      /\ UNCHANGED ents
  BY <1>1 DEF Copy, Array
<1>3. /\ n \in Nat \ {0, 1} /\ s \in Array(n) /\ Slots(ents) = 0..(n - 1)
      /\ ents \in DOMAIN arrays /\ ents \in Nat
  BY TableArray DEF IInv
<1>4. /\ th'[t].pc = "copy" /\ th'[t].i = i + 1 /\ th'[t].old = ents - 1
      /\ \A u \in Threads \ {t} : th'[u] = th[u]
  BY <1>1, <1>2 DEF Copy, Frame
<1>5. \A u \in Threads : /\ th[u].pc = "copy" <=> u = t
                         /\ th'[u].pc = "copy" <=> u = t
  BY <1>1, <1>2, <1>4 DEF LockPcs
<1>6. PICK r : /\ arrays'[ents'] = r /\ arrays'[ents - 1] = o
               /\ \A x : x \in KeysOf(r) <=> x \in KeysOf(s) \/ (x = k /\ k # None)
  <2>1. CASE k = None
    BY <1>1, <1>2, <2>1 DEF Copy
  <2>2. CASE k # None
    <3>. DEFINE pos == FreeSlot(k)
                r == [s EXCEPT ![pos] = k]
    <3>1. arrays' = [arrays EXCEPT ![ents] = r]
      BY <1>1, <1>3, <2>2 DEF Copy, Put
    <3>2. arrays'[ents'] = r /\ arrays'[ents - 1] = o
      BY <1>2, <1>3, <3>1
    <3>3. k \in Keys
      BY <1>1, <1>2, <2>2 DEF Array
    <3>4. PICK empty \in 0..(n - 1) : s[empty] = None
      <4>. HIDE DEF s, o, n, m, i, k
      <4>1. Cardinality(Occupied(s)) < n
        BY <1>1, <1>2
      <4>. QED
        BY <1>3, <4>1, SlotLeft
    <3>5. pos \in 0..(n - 1) /\ s[pos] = None
      <4>1. n \in Nat \ {0} /\ Slot(empty) = None
        BY <1>3, <3>4 DEF Slot
      <4>2. pos \in 0..(n - 1) /\ Slot(pos) = None
        <5>. HIDE DEF k
        <5>. QED
          BY <1>3, <3>3, <3>4, <4>1, FreeSlotIsFirst
      <4>. QED
        BY <4>2 DEF Slot
    <3>. HIDE DEF s, n, pos, k
    <3>6. \A x : x \in KeysOf(r) <=> x \in KeysOf(s) \/ (x = k /\ k # None)
      BY <1>3, <3>5 DEF KeysOf, Array
    <3>. HIDE DEF r
    <3>. QED
      BY <3>2, <3>6
  <2>. QED
    BY <2>1, <2>2
<1>7. \A x : x \in Contents
              <=> \/ x \in KeysOf(s)
                  \/ x # None /\ \E j \in 0..(m - 1) : j >= i /\ o[j] = x
  <2>1. o = arrays[th[t].old]
    BY <1>1
  <2>. HIDE DEF o, m
  <2>2. \A u \in Threads : th[u].pc = "copy" <=> u = t
    BY <1>5
  <2>3. \A x : x \in Contents
          <=> \/ x \in KeysOf(s)
              \/ x # None /\ \E j \in DOMAIN o : j >= i /\ o[j] = x
    BY <2>1, <2>2, ContentsCopying
  <2>. HIDE DEF s, i
  <2>. QED
    BY <1>2, <2>3
<1>8. \A x : x \in Contents'
              <=> \/ x \in KeysOf(r)
                  \/ x # None /\ \E j \in 0..(m - 1) : j >= i + 1 /\ o[j] = x
  <2>1. o = arrays'[th'[t].old] /\ th'[t].i = i + 1
    BY <1>4, <1>6
  <2>2. o = arrays'[th'[t].old] => \A x : x \in Contents'
          <=> \/ x \in KeysOf(arrays'[ents'])
              \/ x # None /\ \E j \in DOMAIN o : j >= th'[t].i /\ o[j] = x
    <3>. HIDE DEF o
    <3>. QED
      BY <1>5, ContentsCopyingNext
  <2>3. \A x : x \in Contents'
          <=> \/ x \in KeysOf(r)
              \/ x # None /\ \E j \in DOMAIN o : j >= i + 1 /\ o[j] = x
    <3>. HIDE DEF o, i
    <3>. QED
      BY <1>6, <2>1, <2>2
  <2>. HIDE DEF o, i, m
  <2>. QED
    BY <1>2, <2>3
<1>9. \A j \in 0..(m - 1) : j >= i <=> j >= i + 1 \/ j = i
  <2>. HIDE DEF i, m
  <2>. QED
    BY <1>1, <1>2
<1>10. \A x : x \in Contents <=> x \in Contents'
  <2>. HIDE DEF s, o, i, m
  <2>. QED
    BY <1>2, <1>6, <1>7, <1>8, <1>9
<1>. QED
  BY <1>10 DEF OnlyCalls

LEMMA CopyDoneCalls ==
  ASSUME IInv, NEW t \in Threads, CopyDone(t) PROVE OnlyCalls
<1>. DEFINE s == arrays[ents]
            o == arrays[ents - 1]
            m == SizeOf(ents - 1)
            i == th[t].i
<1>1. /\ lock = t /\ \A u \in Threads \ {t} : th[u].pc \notin LockPcs
      /\ ents > 1 /\ ents - 1 \in 1..Len(arrays) /\ th[t].old = ents - 1
      /\ i \in 0..m /\ m \in Nat \ {0, 1} /\ Slots(ents - 1) = 0..(m - 1)
      /\ o \in Array(m)
      /\ th \in [Threads -> Frame] /\ th[t] \in Frame
  BY Copying DEF CopyDone
<1>2. th[t].pc = "copy" /\ i \notin 0..(m - 1) /\ DOMAIN o = 0..(m - 1)
      /\ UNCHANGED ents
  BY <1>1 DEF CopyDone, Array
<1>3. th'[t].pc = "unlocked" /\ \A u \in Threads \ {t} : th'[u] = th[u]
  BY <1>1 DEF CopyDone, Goto, Frame
<1>4. \A u \in Threads : (th[u].pc = "copy" <=> u = t) /\ th'[u].pc # "copy"
  BY <1>1, <1>2, <1>3 DEF LockPcs
<1>5. arrays'[ents'] = s
  <2>1. ents - 1 # ents
    BY TableArray DEF IInv
  <2>. QED
    BY <1>1, <1>2, <2>1, TableArray DEF CopyDone, IInv
<1>6. \A x : x \in Contents
              <=> \/ x \in KeysOf(s)
                  \/ x # None /\ \E j \in 0..(m - 1) : j >= i /\ o[j] = x
  <2>1. o = arrays[th[t].old]
    BY <1>1
  <2>. HIDE DEF o, m
  <2>2. \A u \in Threads : th[u].pc = "copy" <=> u = t
    BY <1>4
  <2>3. \A x : x \in Contents
          <=> \/ x \in KeysOf(s)
              \/ x # None /\ \E j \in DOMAIN o : j >= i /\ o[j] = x
    BY <2>1, <2>2, ContentsCopying
  <2>. HIDE DEF s, i
  <2>. QED
    BY <1>2, <2>3
<1>7. \A j \in 0..(m - 1) : ~(j >= i)
  <2>. HIDE DEF i, m
  <2>. QED
    BY <1>1, <1>2
<1>8. \A x : x \in Contents' <=> x \in KeysOf(s)
  <2>. HIDE DEF s
  <2>. QED
    BY <1>4, <1>5, ContentsAtRestNext
<1>9. \A x : x \in Contents <=> x \in Contents'
  <2>. HIDE DEF s, o, i, m
  <2>. QED
    BY <1>6, <1>7, <1>8
<1>. QED
  BY <1>9 DEF OnlyCalls

LEMMA GrowSwapCalls ==
  ASSUME IInv, NEW t \in Threads, GrowSwap(t), IInv' PROVE OnlyCalls
<1>. DEFINE o == arrays[ents]
            b == Blank(NewSize(t))
<1>1. /\ ents \in 1..Len(arrays) /\ ents \in Nat \ {0} /\ ents = Len(arrays)
      /\ Len(arrays) \in Nat
  BY TableArray DEF IInv, Shapes
<1>2. /\ th \in [Threads -> Frame] /\ th[t] \in Frame /\ lock = None /\ th[t].pc = "alloc"
  BY DEF IInv, Frames, GrowSwap
<1>3. \A u \in Threads : th[u].pc # "copy"
  BY <1>2, OthersWait DEF IInv, LockPcs
<1>4. /\ th'[t].pc = "copy" /\ th'[t].i = 0 /\ \A u \in Threads \ {t} : th'[u] = th[u]
  BY <1>2 DEF GrowSwap, Frame
<1>5. th'[t].old = ents' - 1 /\ ents' - 1 = ents
  BY <1>1, <1>4 DEF GrowSwap, IInv, Frames
<1>6. arrays'[ents'] = b /\ arrays'[ents] = o
  BY <1>1 DEF GrowSwap, IInv, Shapes
<1>7. KeysOf(b) = {}
  BY DEF KeysOf, Blank
<1>8. \A u \in Threads : th'[u].pc = "copy" <=> u = t
  BY <1>3, <1>4
<1>9. \A x : x \in Contents <=> x \in KeysOf(o)
  BY <1>3, ContentsAtRest
<1>10. \A x : x \in Contents'
         <=> x # None /\ \E j \in DOMAIN o : j >= 0 /\ o[j] = x
  <2>1. o = arrays'[th'[t].old]
    BY <1>5, <1>6
  <2>. HIDE DEF o, b
  <2>. QED
    BY <1>4, <1>6, <1>7, <1>8, <2>1, ContentsCopyingNext
<1>11. \A j \in DOMAIN o : j >= 0
  BY <1>1, ArraySizes DEF IInv
<1>12. \A x : x \in Contents <=> x \in Contents'
  <2>. HIDE DEF o
  <2>. QED
    BY <1>9, <1>10, <1>11 DEF KeysOf
<1>. QED
  BY <1>12 DEF OnlyCalls

LEMMA NextOnlyCalls == IInv /\ [Next]_vars => [OnlyCalls]_vars
<1>. SUFFICES ASSUME IInv, Next PROVE OnlyCalls
  OBVIOUS
<1>1. IInv'
  BY NextIInv
<1>2. PICK t \in Threads : Call(t) \/ Locked(t) \/ Growing(t)
  BY DEF Next
<1>3. CASE \/ InsertHere(t) \/ RemoveHere(t) \/ Shift(t) \/ Copy(t) \/ CopyDone(t)
           \/ GrowSwap(t) \/ RemoveFast(t)
  BY <1>1, <1>3, InsertCalls, RemoveHereCalls, ShiftCalls, CopyCalls, CopyDoneCalls,
     GrowSwapCalls, RemoveFastCalls
<1>4. ASSUME \/ \E k \in Keys : Find(t, k) \/ Insert(t, k) \/ InsertGrows(t, k) \/ RemoveKey(t, k)
             \/ ProbeOn(t) \/ Miss(t) \/ Hit(t) \/ ShiftDone(t)
             \/ GrowSkip(t) \/ GrowFails(t) \/ Relock(t)
      PROVE  OnlyCalls
  <2>1. UNCHANGED <<arrays, ents>>
    BY <1>4 DEF Find, Insert, InsertGrows, RemoveKey, ProbeOn, Miss, Hit, ShiftDone,
                GrowSkip, GrowFails, Relock
  <2>. QED
    BY <1>4, <2>1, QuietCalls
<1>. QED
  BY <1>2, <1>3, <1>4 DEF Call, Locked, Growing

\* Growing the table and shifting entries lose no key and add none: a key comes
\* by the insertion it was made for and goes by its removal.
THEOREM SpecOnlyCallsChangeContents == Spec => OnlyCallsChangeContents
<1>1. IInv /\ [Next]_vars =>
        [\A k \in (Contents \ Contents') \cup (Contents' \ Contents) :
           \E t \in Threads :
             IF k \in Contents'
             THEN th[t].op = "insert" /\ th[t].key = k /\ th[t].pc = "probe"
             ELSE th'[t].op = "remove" /\ th'[t].key = k /\ th'[t].pc = "shift"]_vars
  BY NextOnlyCalls DEF OnlyCalls
<1>. QED
  BY <1>1, SpecInvariant, PTL DEF Spec, OnlyCallsChangeContents

=============================================================================
