----------------------------- MODULE ListLemmas -----------------------------
(***************************************************************************)
(* Facts about lists without repetitions, about how many elements of a     *)
(* list are of some kind, about extreme elements of sets of numbers, and   *)
(* about MapThenFoldSet of the community modules, on which their sums and  *)
(* their folds over sequences rest.                                        *)
(*                                                                         *)
(* The step of a fold and the choice of the next element are parameters of *)
(* this module, so that a module of proofs can take the facts about a fold *)
(* of its own with INSTANCE.  Nothing is assumed of them, and nothing but  *)
(* the facts about folds speaks of them: a module that only needs those    *)
(* about lists extends this one and leaves them open.                      *)
(***************************************************************************)
EXTENDS Integers, Sequences, SequencesExt, SequenceTheorems, FiniteSetTheorems,
        WellFoundedInduction, TLAPS

CONSTANTS Op(_, _),  \* the step of a fold
          Pick(_)    \* the element of a set that is taken first

-----------------------------------------------------------------------------
(* Numbers: non-empty sets of naturals have a least element, and those that *)
(* are bounded a greatest one.                                              *)

LEMMA LeastExists ==
  ASSUME NEW S \in SUBSET Nat, S # {}
  PROVE  \E m \in S : \A x \in S : m <= x
<1>. DEFINE Less == {ss \in Nat \X Nat : ss[1] < ss[2]}
<1>1. IsWellFoundedOn(Less, Nat)
  BY NatLessThanWellFounded DEF OpToRel
<1>. HIDE DEF Less
<1>2. PICK m \in S : \A x \in S : ~(<<x, m>> \in Less)
  BY <1>1, WFMin
<1>3. \A x \in S : x < m => <<x, m>> \in Less
  BY DEF Less
<1>4. \A x \in S : ~(x < m)
  BY <1>2, <1>3
<1>5. m \in Nat /\ \A x \in S : x \in Nat
  OBVIOUS
<1>. QED
  BY <1>4, <1>5

LEMMA GreatestExists ==
  ASSUME NEW n \in Nat, NEW S \in SUBSET (1..n), S # {}
  PROVE  \E m \in S : \A x \in S : x <= m
<1>. DEFINE D == {n - x : x \in S}
<1>0. \A x \in S : x \in Nat /\ x <= n
  OBVIOUS
<1>1. D \in SUBSET Nat /\ D # {}
  <2>1. \A x \in S : n - x \in Nat
    BY <1>0
  <2>2. D \subseteq Nat
    BY <2>1
  <2>. QED
    BY <2>2
<1>2. PICK d \in D : \A x \in D : d <= x
  BY <1>1, LeastExists
<1>3. PICK m \in S : d = n - m
  BY <1>2
<1>4. \A x \in S : n - m <= n - x
  BY <1>2, <1>3
<1>. QED
  BY <1>0, <1>3, <1>4

\* The images of the elements of a finite set are finitely many.
LEMMA FiniteImage ==
  ASSUME NEW D, IsFiniteSet(D), NEW f
  PROVE  IsFiniteSet({f[x] : x \in D})
<1>. DEFINE T == {f[x] : x \in D}
            g == [x \in D |-> f[x]]
<1>1. g \in Surjection(D, T)
  BY DEF Surjection
<1>. HIDE DEF g, T
<1>2. IsFiniteSet(T)
  BY <1>1, FS_Surjection
<1>. QED
  BY <1>2 DEF T

\* One number more than a set has elements is enough for one it has not.
LEMMA FreshId ==
  ASSUME NEW S, IsFiniteSet(S)
  PROVE  /\ Min((1..Cardinality(S) + 1) \ S) \in Nat \ {0}
         /\ Min((1..Cardinality(S) + 1) \ S) \notin S
<1>. DEFINE n == Cardinality(S)
            F == (1..n + 1) \ S
<1>1. n \in Nat
  BY FS_CardinalityType
<1>2. F # {}
  <2>1. SUFFICES ASSUME 1..n + 1 \subseteq S
                 PROVE  FALSE
    OBVIOUS
  <2>2. Cardinality(1..n + 1) <= n
    BY <2>1, FS_Subset
  <2>3. n + 1 \in Nat /\ 1 \in Int
    BY <1>1
  <2>. HIDE DEF n
  <2>4. Cardinality(1..n + 1) = n + 1
    BY <1>1, <2>3, FS_Interval
  <2>. QED
    BY <1>1, <2>2, <2>4
<1>3. F \in SUBSET Nat /\ \A x \in F : x # 0 /\ x \notin S
  BY <1>1
<1>. HIDE DEF F
<1>4. \E m \in F : \A x \in F : m <= x
  BY <1>2, <1>3, LeastExists
<1>5. Min(F) \in F
  BY <1>4 DEF Min
<1>. QED
  BY <1>3, <1>5 DEF F

-----------------------------------------------------------------------------
(* The list: removing one of its items, and moving one to the front, in a   *)
(* list without repetitions.                                                *)

NoRepeat(s) == \A i, j \in DOMAIN s : s[i] = s[j] => i = j

LEMMA RemoveAtElements ==
  ASSUME NEW S, NEW s \in Seq(S), NEW i \in 1..Len(s)
  PROVE  /\ RemoveAt(s, i) \in Seq(S)
         /\ Len(RemoveAt(s, i)) = Len(s) - 1
         /\ \A j \in 1..(Len(s) - 1) :
              RemoveAt(s, i)[j] = IF j < i THEN s[j] ELSE s[j + 1]
<1>. DEFINE a == SubSeq(s, 1, i - 1)
            b == SubSeq(s, i + 1, Len(s))
<1>0. Len(s) \in Nat /\ \A j \in 1..Len(s) : s[j] \in S
  OBVIOUS
<1>1. a \in Seq(S) /\ Len(a) = i - 1 /\ \A j \in 1..(i - 1) : a[j] = s[j]
  OBVIOUS
<1>2. /\ b \in Seq(S) /\ Len(b) = Len(s) - i
      /\ \A j \in 1..(Len(s) - i) : b[j] = s[i + j]
  OBVIOUS
<1>. HIDE DEF a, b
<1>3. /\ a \o b \in Seq(S) /\ Len(a \o b) = Len(a) + Len(b)
      /\ \A j \in 1..(Len(a) + Len(b)) :
           (a \o b)[j] = IF j <= Len(a) THEN a[j] ELSE b[j - Len(a)]
  BY <1>1, <1>2, ConcatProperties
<1>4. RemoveAt(s, i) = a \o b
  BY DEF RemoveAt, a, b
<1>5. i \in Nat /\ i >= 1 /\ i <= Len(s)
  BY <1>0
<1>6. \A j \in 1..(Len(s) - 1) :
        (a \o b)[j] = IF j < i THEN s[j] ELSE s[j + 1]
  <2>1. SUFFICES ASSUME NEW j \in 1..(Len(s) - 1)
                 PROVE  (a \o b)[j] = IF j < i THEN s[j] ELSE s[j + 1]
    OBVIOUS
  <2>2. (a \o b)[j] = IF j <= i - 1 THEN a[j] ELSE b[j - (i - 1)]
    BY <1>0, <1>1, <1>2, <1>3, <1>5
  <2>3. CASE j < i
    BY <2>2, <2>3, <1>0, <1>1, <1>5
  <2>4. CASE ~(j < i)
    <3>1. j - (i - 1) \in 1..(Len(s) - i) /\ i + (j - (i - 1)) = j + 1
      BY <2>4, <1>0, <1>5
    <3>2. b[j - (i - 1)] = s[j + 1]
      BY <3>1, <1>2
    <3>3. ~(j <= i - 1)
      BY <2>4, <1>0, <1>5
    <3>. QED
      BY <2>2, <2>4, <3>2, <3>3
  <2>. QED
    BY <2>3, <2>4
<1>7. a \o b \in Seq(S) /\ Len(a \o b) = Len(s) - 1
  BY <1>0, <1>1, <1>2, <1>3, <1>5
<1>. QED
  BY <1>4, <1>6, <1>7, Zenon

LEMMA RemoveAtRange ==
  ASSUME NEW S, NEW s \in Seq(S), NEW i \in 1..Len(s), NoRepeat(s)
  PROVE  /\ Range(RemoveAt(s, i)) = Range(s) \ {s[i]}
         /\ NoRepeat(RemoveAt(s, i))
<1>. DEFINE r == RemoveAt(s, i)
<1>1. /\ r \in Seq(S) /\ DOMAIN r = 1..(Len(s) - 1)
      /\ \A j \in 1..(Len(s) - 1) : r[j] = IF j < i THEN s[j] ELSE s[j + 1]
  BY RemoveAtElements
<1>2. DOMAIN s = 1..Len(s) /\ Len(s) \in Nat
  OBVIOUS
<1>. HIDE DEF r
<1>3. \A j \in DOMAIN r : r[j] \in Range(s) /\ r[j] # s[i]
  BY <1>1, <1>2 DEF NoRepeat, Range
<1>4. ASSUME NEW j \in DOMAIN s, j # i
      PROVE  \E k \in DOMAIN r : r[k] = s[j]
  <2>1. CASE j < i
    BY <2>1, <1>1, <1>2
  <2>2. CASE j > i
    <3>1. j - 1 \in 1..(Len(s) - 1) /\ ~(j - 1 < i) /\ (j - 1) + 1 = j
      BY <2>2, <1>2
    <3>. QED
      BY <3>1, <1>1
  <2>3. j \in Int /\ i \in Int
    BY <1>2
  <2>4. j < i \/ j > i
    BY <2>3, <1>4
  <2>. QED
    BY <2>1, <2>2, <2>4
<1>5. NoRepeat(r)
  <2>1. SUFFICES ASSUME NEW j \in DOMAIN r, NEW k \in DOMAIN r, j # k
                 PROVE  r[j] # r[k]
    BY DEF NoRepeat
  <2>2. \E p \in DOMAIN s, q \in DOMAIN s : p # q /\ r[j] = s[p] /\ r[k] = s[q]
    <3>1. j \in Int /\ k \in Int /\ i \in Int
      BY <1>1
    <3>. DEFINE p == IF j < i THEN j ELSE j + 1
                q == IF k < i THEN k ELSE k + 1
    <3>2. p \in DOMAIN s /\ q \in DOMAIN s /\ p # q
      BY <1>1, <1>2, <2>1, <3>1
    <3>3. r[j] = s[p] /\ r[k] = s[q]
      BY <1>1
    <3>. QED
      BY <3>2, <3>3
  <2>. QED
    BY <2>2 DEF NoRepeat
<1>6. Range(r) = Range(s) \ {s[i]}
  BY <1>3, <1>4 DEF Range
<1>. QED
  BY <1>5, <1>6 DEF r

\* The elements of a sequence after another is added or the first is taken.
LEMMA AppendItems ==
  ASSUME NEW S, NEW Q \in Seq(S), NEW j \in S
  PROVE  /\ Append(Q, j) \in Seq(S)
         /\ DOMAIN Append(Q, j) = DOMAIN Q \cup {Len(Q) + 1}
         /\ Len(Q) \in Nat /\ DOMAIN Q = 1..Len(Q) /\ Len(Q) + 1 \notin DOMAIN Q
         /\ \A i \in DOMAIN Q : Append(Q, j)[i] = Q[i] /\ i < Len(Q) + 1
         /\ Append(Q, j)[Len(Q) + 1] = j
OBVIOUS

LEMMA TailItems ==
  ASSUME NEW S, NEW Q \in Seq(S), Q # <<>>
  PROVE  /\ Tail(Q) \in Seq(S) /\ Head(Q) \in S /\ Head(Q) = Q[1] /\ 1 \in DOMAIN Q
         /\ \A i \in DOMAIN Tail(Q) : i \in Nat /\ i > 0 /\ i + 1 \in DOMAIN Q /\ Tail(Q)[i] = Q[i + 1]
         /\ \A i \in DOMAIN Q : i = 1 \/ (i - 1 \in DOMAIN Tail(Q) /\ Tail(Q)[i - 1] = Q[i])
         /\ DOMAIN Q \subseteq Nat \ {0}
OBVIOUS

\* A sequence keeps all its elements but the one that is removed.
LEMMA RemoveAtItems ==
  ASSUME NEW S, NEW q \in Seq(S), NEW i \in DOMAIN q
  PROVE  LET r == RemoveAt(q, i) IN
         /\ r \in Seq(S) /\ Len(r) = Len(q) - 1 /\ Len(q) \in Nat
         /\ \A j \in DOMAIN r : \E k \in DOMAIN q : r[j] = q[k]
         /\ \A k \in DOMAIN q : k = i \/ \E j \in DOMAIN r : r[j] = q[k]
<1>. DEFINE r == RemoveAt(q, i)
<1>1. i \in 1..Len(q) /\ Len(q) \in Nat /\ DOMAIN q = 1..Len(q)
  OBVIOUS
<1>2. /\ r \in Seq(S) /\ Len(r) = Len(q) - 1
      /\ \A j \in 1..Len(q) - 1 : r[j] = IF j < i THEN q[j] ELSE q[j + 1]
  BY <1>1, RemoveAtElements
<1>. HIDE DEF r
<1>3. DOMAIN r = 1..Len(q) - 1
  BY <1>1, <1>2
<1>4. \A j \in DOMAIN r : \E k \in DOMAIN q : r[j] = q[k]
  <2>1. \A j \in 1..Len(q) - 1 : j \in 1..Len(q) /\ j + 1 \in 1..Len(q)
    BY <1>1
  <2>. QED
    BY <1>1, <1>2, <1>3, <2>1
<1>5. \A k \in DOMAIN q : k = i \/ \E j \in DOMAIN r : r[j] = q[k]
  <2>1. ASSUME NEW k \in 1..Len(q), k < i
        PROVE  k \in 1..Len(q) - 1 /\ r[k] = q[k]
    BY <1>1, <1>2, <2>1
  <2>2. ASSUME NEW k \in 1..Len(q), k > i
        PROVE  k - 1 \in 1..Len(q) - 1 /\ r[k - 1] = q[k]
    <3>1. k - 1 \in 1..Len(q) - 1 /\ ~(k - 1 < i) /\ (k - 1) + 1 = k
      BY <1>1, <2>2
    <3>. QED
      BY <1>2, <3>1
  <2>3. \A k \in 1..Len(q) : k < i \/ k = i \/ k > i
    BY <1>1
  <2>. QED
    BY <1>1, <1>3, <2>1, <2>2, <2>3
<1>. QED
  BY <1>1, <1>2, <1>4, <1>5 DEF r

LEMMA ConsRange ==
  ASSUME NEW S, NEW s \in Seq(S), NEW o \in S, NoRepeat(s), o \notin Range(s)
  PROVE  /\ <<o>> \o s \in Seq(S)
         /\ Range(<<o>> \o s) = Range(s) \cup {o}
         /\ NoRepeat(<<o>> \o s)
<1>. DEFINE r == <<o>> \o s
<1>1. /\ r \in Seq(S) /\ DOMAIN r = 1..(Len(s) + 1)
      /\ r[1] = o /\ \A j \in 1..Len(s) : r[j + 1] = s[j]
  OBVIOUS
<1>2. DOMAIN s = 1..Len(s) /\ Len(s) \in Nat
  OBVIOUS
<1>. HIDE DEF r
<1>3. \A j \in DOMAIN r : j = 1 \/ (j - 1 \in DOMAIN s /\ r[j] = s[j - 1])
  BY <1>1, <1>2
<1>4. Range(r) = Range(s) \cup {o}
  <2>1. Range(r) \subseteq Range(s) \cup {o}
    BY <1>3, <1>1 DEF Range
  <2>2. o \in Range(r) /\ Range(s) \subseteq Range(r)
    BY <1>1, <1>2 DEF Range
  <2>. QED
    BY <2>1, <2>2
<1>5. NoRepeat(r)
  BY <1>1, <1>2, <1>3 DEF NoRepeat, Range
<1>. QED
  BY <1>1, <1>4, <1>5 DEF r

-----------------------------------------------------------------------------
(* How many elements of a list are in a set.                               *)

PlacesOf(s, P) == {i \in DOMAIN s : s[i] \in P}
CountOf(s, P) == Cardinality(PlacesOf(s, P))

LEMMA CountType ==
  ASSUME NEW S, NEW s \in Seq(S), NEW P
  PROVE  /\ IsFiniteSet(PlacesOf(s, P)) /\ CountOf(s, P) \in Nat
         /\ \A i \in DOMAIN s : s[i] \in P => CountOf(s, P) >= 1
         /\ CountOf(s, P) = 0 => \A i \in DOMAIN s : s[i] \notin P
<1>1. DOMAIN s = 1..Len(s) /\ Len(s) \in Int
  OBVIOUS
<1>2. IsFiniteSet(1..Len(s)) /\ PlacesOf(s, P) \in SUBSET (1..Len(s))
  BY <1>1, FS_Interval DEF PlacesOf
<1>3. IsFiniteSet(PlacesOf(s, P)) /\ CountOf(s, P) \in Nat
  BY <1>2, FS_Subset, FS_CardinalityType DEF CountOf
<1>4. CountOf(s, P) = 0 => PlacesOf(s, P) = {}
  BY <1>3, FS_EmptySet DEF CountOf
<1>. QED
  BY <1>3, <1>4 DEF PlacesOf

LEMMA CountOfNone ==
  ASSUME NEW P
  PROVE  CountOf(<<>>, P) = 0
<1>1. PlacesOf(<<>>, P) = {}
  BY DEF PlacesOf
<1>. QED
  BY <1>1, FS_EmptySet DEF CountOf

LEMMA CountRemoveAt ==
  ASSUME NEW S, NEW s \in Seq(S), NEW i \in 1..Len(s), NEW P
  PROVE  CountOf(RemoveAt(s, i), P)
           = IF s[i] \in P THEN CountOf(s, P) - 1 ELSE CountOf(s, P)
<1>. DEFINE r == RemoveAt(s, i)
            B == PlacesOf(s, P) \ {i}
            A == PlacesOf(r, P)
            f == [j \in A |-> IF j < i THEN j ELSE j + 1]
<1>1. /\ r \in Seq(S) /\ DOMAIN r = 1..(Len(s) - 1) /\ DOMAIN s = 1..Len(s)
      /\ Len(s) \in Nat /\ i \in Nat /\ i >= 1 /\ i <= Len(s)
      /\ \A j \in 1..(Len(s) - 1) : r[j] = IF j < i THEN s[j] ELSE s[j + 1]
  BY RemoveAtElements
<1>. HIDE DEF r
<1>2. /\ A = {j \in 1..(Len(s) - 1) : r[j] \in P}
      /\ B = {j \in 1..Len(s) : s[j] \in P /\ j # i}
  BY <1>1 DEF PlacesOf
<1>. HIDE DEF A, B
<1>3. f \in Bijection(A, B)
  <2>1. f \in [A -> B]
    BY <1>1, <1>2
  <2>2. \A j, k \in A : f[j] = f[k] => j = k
    BY <1>1, <1>2
  <2>3. \A k \in B : \E j \in A : f[j] = k
    <3>1. SUFFICES ASSUME NEW k \in B
                   PROVE  \E j \in A : f[j] = k
      OBVIOUS
    <3>2. k \in 1..Len(s) /\ s[k] \in P /\ k # i
      BY <1>2
    <3>3. CASE k < i
      <4>1. k \in 1..(Len(s) - 1) /\ r[k] \in P
        BY <1>1, <3>2, <3>3
      <4>. QED
        BY <1>2, <3>3, <4>1
    <3>4. CASE k > i
      <4>1. k - 1 \in 1..(Len(s) - 1) /\ ~(k - 1 < i) /\ (k - 1) + 1 = k
        BY <1>1, <3>2, <3>4
      <4>2. r[k - 1] = s[k]
        BY <1>1, <4>1
      <4>3. k - 1 \in A
        BY <1>2, <3>2, <4>1, <4>2
      <4>. QED
        BY <4>1, <4>3
    <3>. QED
      BY <1>1, <3>2, <3>3, <3>4
  <2>. HIDE DEF f
  <2>4. f \in Injection(A, B) /\ f \in Surjection(A, B)
    BY <2>1, <2>2, <2>3 DEF Injection, Surjection, IsInjective
  <2>. QED
    BY <2>4 DEF Bijection
<1>4. IsFiniteSet(A) /\ Cardinality(A) = Cardinality(B)
  <2>1. IsFiniteSet(A)
    BY <1>1, CountType DEF A
  <2>2. ExistsBijection(A, B)
    BY <1>3 DEF ExistsBijection
  <2>. QED
    BY <2>1, <2>2, FS_Bijection
<1>5. IsFiniteSet(PlacesOf(s, P))
  BY CountType
<1>6. Cardinality(B) = IF i \in PlacesOf(s, P) THEN CountOf(s, P) - 1
                       ELSE CountOf(s, P)
  BY <1>5, FS_RemoveElement DEF B, CountOf
<1>7. i \in PlacesOf(s, P) <=> s[i] \in P
  BY <1>1 DEF PlacesOf
<1>8. CountOf(r, P) = Cardinality(A)
  BY DEF CountOf, A
<1>. QED
  BY <1>4, <1>6, <1>7, <1>8 DEF r

LEMMA CountCons ==
  ASSUME NEW S, NEW s \in Seq(S), NEW e \in S, NEW P
  PROVE  CountOf(<<e>> \o s, P)
           = IF e \in P THEN CountOf(s, P) + 1 ELSE CountOf(s, P)
<1>. DEFINE r == <<e>> \o s
<1>1. /\ r \in Seq(S) /\ Len(r) = Len(s) + 1 /\ 1 \in 1..Len(r) /\ r[1] = e
  OBVIOUS
<1>2. RemoveAt(r, 1) = s
  <2>1. SubSeq(r, 1, 0) = <<>> /\ SubSeq(r, 2, Len(r)) = s
    OBVIOUS
  <2>. HIDE DEF r
  <2>2. RemoveAt(r, 1) = <<>> \o s
    BY <2>1 DEF RemoveAt
  <2>. QED
    BY <2>2
<1>. HIDE DEF r
<1>3. CountOf(s, P) = IF e \in P THEN CountOf(r, P) - 1 ELSE CountOf(r, P)
  BY <1>1, <1>2, CountRemoveAt
<1>4. CountOf(r, P) \in Nat /\ CountOf(s, P) \in Nat
  BY <1>1, CountType
<1>. QED
  BY <1>3, <1>4 DEF r

-----------------------------------------------------------------------------
(* Folds over a finite set.                                                *)

Fold(f, base, S) == MapThenFoldSet(Op, base, LAMBDA x : f[x], Pick, S)

\* The choice is one of the set.
Picks(S) == \A s \in SUBSET S : s # {} => Pick(s) \in s

Unfolded(f, base, g, s) ==
  IF s = {} THEN base ELSE Op(f[Pick(s)], g[s \ {Pick(s)}])

\* g is the fold on the sets of D.
IsFold(f, base, g, D) == g = [s \in D |-> Unfolded(f, base, g, s)]

Small(S, n) == {s \in SUBSET S : Cardinality(s) <= n}

LEMMA SmallerSet ==
  ASSUME NEW S, IsFiniteSet(S), Picks(S), NEW s \in SUBSET S, s # {}
  PROVE  /\ s \ {Pick(s)} \in SUBSET S
         /\ Cardinality(s) \in Nat /\ Cardinality(s \ {Pick(s)}) \in Nat
         /\ Cardinality(s \ {Pick(s)}) = Cardinality(s) - 1
<1>1. Pick(s) \in s /\ IsFiniteSet(s)
  BY FS_Subset DEF Picks
<1>. QED
  BY <1>1, FS_RemoveElement, FS_CardinalityType

LEMMA SmallStep ==
  ASSUME NEW S, IsFiniteSet(S), Picks(S), NEW n \in Nat,
         NEW s \in Small(S, n), s # {}
  PROVE  s \ {Pick(s)} \in Small(S, n) /\ (n # 0 => s \ {Pick(s)} \in Small(S, n - 1))
BY SmallerSet DEF Small

LEMMA FoldsExist ==
  ASSUME NEW S, IsFiniteSet(S), Picks(S), NEW f, NEW base, NEW n \in Nat
  PROVE  \E g : IsFold(f, base, g, Small(S, n))
<1>. DEFINE Bad == {m \in Nat : ~\E g : IsFold(f, base, g, Small(S, m))}
<1>1. SUFFICES ASSUME Bad # {}
               PROVE  FALSE
  OBVIOUS
<1>2. PICK m \in Bad : \A x \in Bad : m <= x
  <2>1. Bad \in SUBSET Nat
    OBVIOUS
  <2>. HIDE DEF Bad
  <2>. QED
    BY <1>1, <2>1, LeastExists
<1>3. m \in Nat
  OBVIOUS
<1>4. CASE m = 0
  <2>. DEFINE g == [s \in Small(S, 0) |-> base]
  <2>1. \A s \in Small(S, 0) : s = {}
    <3>1. SUFFICES ASSUME NEW s \in Small(S, 0)
                   PROVE  s = {}
      OBVIOUS
    <3>2. IsFiniteSet(s) /\ Cardinality(s) \in Nat /\ Cardinality(s) <= 0
      BY FS_Subset, FS_CardinalityType DEF Small
    <3>. QED
      BY <3>2, FS_EmptySet
  <2>2. IsFold(f, base, g, Small(S, 0))
    BY <2>1 DEF IsFold, Unfolded
  <2>. QED
    BY <1>4, <2>2
<1>5. CASE m # 0
  <2>1. m - 1 \in Nat /\ m - 1 \notin Bad
    BY <1>2, <1>3, <1>5
  <2>2. PICK g : IsFold(f, base, g, Small(S, m - 1))
    BY <2>1
  <2>. DEFINE h == [s \in Small(S, m) |-> Unfolded(f, base, g, s)]
  <2>3. \A s \in Small(S, m - 1) : s \in Small(S, m) /\ h[s] = g[s]
    <3>1. \A s \in Small(S, m - 1) : s \in Small(S, m)
      <4>1. SUFFICES ASSUME NEW s \in Small(S, m - 1)
                     PROVE  s \in Small(S, m)
        OBVIOUS
      <4>2. IsFiniteSet(s) /\ Cardinality(s) \in Nat /\ Cardinality(s) <= m - 1
        BY FS_Subset, FS_CardinalityType DEF Small
      <4>. QED
        BY <1>3, <4>2 DEF Small
    <3>2. \A s \in Small(S, m - 1) : g[s] = Unfolded(f, base, g, s)
      BY <2>2 DEF IsFold
    <3>. QED
      BY <3>1, <3>2
  <2>4. \A s \in Small(S, m) : Unfolded(f, base, h, s) = Unfolded(f, base, g, s)
    <3>1. SUFFICES ASSUME NEW s \in Small(S, m), s # {}
                   PROVE  Unfolded(f, base, h, s) = Unfolded(f, base, g, s)
      BY DEF Unfolded
    <3>2. s \ {Pick(s)} \in Small(S, m - 1)
      BY <1>3, <1>5, <3>1, SmallStep
    <3>3. h[s \ {Pick(s)}] = g[s \ {Pick(s)}]
      BY <2>3, <3>2
    <3>. HIDE DEF h
    <3>. QED
      BY <3>1, <3>3 DEF Unfolded
  <2>5. IsFold(f, base, h, Small(S, m))
    BY <2>4 DEF IsFold
  <2>. QED
    BY <2>5
<1>. QED
  BY <1>4, <1>5

\* Two folds agree wherever both are defined and their elements agree.
LEMMA FoldsAgree ==
  ASSUME NEW S, IsFiniteSet(S), Picks(S), NEW D1, NEW D2,
         SUBSET S \subseteq D1, SUBSET S \subseteq D2,
         NEW f1, NEW f2, \A x \in S : f1[x] = f2[x], NEW base,
         NEW g1, IsFold(f1, base, g1, D1), NEW g2, IsFold(f2, base, g2, D2)
  PROVE  \A s \in SUBSET S : g1[s] = g2[s]
<1>. DEFINE Bad == {m \in Nat : \E s \in SUBSET S : Cardinality(s) = m /\ g1[s] # g2[s]}
<1>1. SUFFICES ASSUME NEW r \in SUBSET S, g1[r] # g2[r]
               PROVE  FALSE
  OBVIOUS
<1>2. Cardinality(r) \in Bad
  BY <1>1, FS_Subset, FS_CardinalityType
<1>3. PICK m \in Bad : \A x \in Bad : m <= x
  <2>1. Bad \in SUBSET Nat /\ Bad # {}
    BY <1>2
  <2>. HIDE DEF Bad
  <2>. QED
    BY <2>1, LeastExists
<1>4. PICK s \in SUBSET S : Cardinality(s) = m /\ g1[s] # g2[s]
  OBVIOUS
<1>5. /\ g1[s] = Unfolded(f1, base, g1, s)
      /\ g2[s] = Unfolded(f2, base, g2, s)
  BY DEF IsFold
<1>6. s # {}
  BY <1>4, <1>5 DEF Unfolded
<1>. DEFINE d == s \ {Pick(s)}
<1>7. d \in SUBSET S /\ Cardinality(d) \in Nat /\ Cardinality(d) = m - 1 /\ m \in Nat
  BY <1>4, <1>6, SmallerSet
<1>8. Pick(s) \in S
  BY <1>6 DEF Picks
<1>9. g1[d] = g2[d]
  BY <1>3, <1>7
<1>. QED
  BY <1>4, <1>5, <1>6, <1>8, <1>9 DEF Unfolded

\* The definition of the community modules is such a fold.
LEMMA FoldIsFold ==
  ASSUME NEW S, IsFiniteSet(S), Picks(S), NEW f, NEW base
  PROVE  \E g : IsFold(f, base, g, SUBSET S) /\ Fold(f, base, S) = g[S]
<1>. DEFINE g == CHOOSE h : h = [s \in SUBSET S |->
                                   IF s = {} THEN base
                                   ELSE Op(f[Pick(s)], h[s \ {Pick(s)}])]
<1>1. Fold(f, base, S) = g[S]
  BY DEF Fold, MapThenFoldSet
<1>2. PICK n \in Nat : Small(S, n) = SUBSET S
  BY FS_Subset, FS_CardinalityType DEF Small
<1>3. \E h : IsFold(f, base, h, SUBSET S)
  <2>1. \E h : IsFold(f, base, h, Small(S, n))
    BY FoldsExist
  <2>. QED
    BY <1>2, <2>1
<1>4. IsFold(f, base, g, SUBSET S)
  BY <1>3 DEF IsFold, Unfolded
<1>. QED
  BY <1>1, <1>4

-----------------------------------------------------------------------------
(* The equations of a fold.                                                *)

LEMMA FoldEmpty ==
  ASSUME NEW f, NEW base
  PROVE  Fold(f, base, {}) = base
<1>1. IsFiniteSet({}) /\ Picks({})
  BY FS_EmptySet DEF Picks
<1>2. PICK g : IsFold(f, base, g, SUBSET {}) /\ Fold(f, base, {}) = g[{}]
  BY <1>1, FoldIsFold
<1>. QED
  BY <1>2 DEF IsFold, Unfolded

LEMMA FoldStep ==
  ASSUME NEW S, IsFiniteSet(S), Picks(S), S # {}, NEW f, NEW base
  PROVE  Fold(f, base, S) = Op(f[Pick(S)], Fold(f, base, S \ {Pick(S)}))
<1>. DEFINE T == S \ {Pick(S)}
<1>1. IsFiniteSet(T) /\ Picks(T) /\ T \subseteq S
  BY FS_Subset DEF Picks
<1>2. PICK g : IsFold(f, base, g, SUBSET S) /\ Fold(f, base, S) = g[S]
  BY FoldIsFold
<1>3. PICK h : IsFold(f, base, h, SUBSET T) /\ Fold(f, base, T) = h[T]
  BY <1>1, FoldIsFold
<1>. HIDE DEF T
<1>4. SUBSET T \subseteq SUBSET S /\ T \in SUBSET T
  BY <1>1
<1>5. g[T] = h[T]
  BY <1>1, <1>2, <1>3, <1>4, FoldsAgree
<1>6. g[S] = Op(f[Pick(S)], g[T])
  BY <1>2 DEF IsFold, Unfolded, T
<1>. QED
  BY <1>2, <1>3, <1>5, <1>6 DEF T

LEMMA FoldSame ==
  ASSUME NEW S, IsFiniteSet(S), Picks(S), NEW base,
         NEW f1, NEW f2, \A x \in S : f1[x] = f2[x]
  PROVE  Fold(f1, base, S) = Fold(f2, base, S)
<1>1. PICK g1 : IsFold(f1, base, g1, SUBSET S) /\ Fold(f1, base, S) = g1[S]
  BY FoldIsFold
<1>2. PICK g2 : IsFold(f2, base, g2, SUBSET S) /\ Fold(f2, base, S) = g2[S]
  BY FoldIsFold
<1>3. g1[S] = g2[S]
  BY <1>1, <1>2, FoldsAgree
<1>. QED
  BY <1>1, <1>2, <1>3

-----------------------------------------------------------------------------
(* Folding a sequence, when the greatest position is picked: the elements  *)
(* are taken in their order, from the first to the last.                   *)

PicksLast ==
  \A n \in Nat : \A s \in SUBSET (1..n) :
    s # {} => Pick(s) \in s /\ \A x \in s : x <= Pick(s)

LEMMA PicksLastPicks ==
  ASSUME PicksLast
  PROVE  \A n \in Nat : Picks(1..n)
BY DEF PicksLast, Picks

\* FoldLeft of the community modules, if Op takes its arguments the other way.
FoldSequence(base, seq) ==
  MapThenFoldSet(Op, base, LAMBDA i : seq[i], Pick, DOMAIN seq)

LEMMA FoldSequenceEmpty ==
  ASSUME NEW base
  PROVE  FoldSequence(base, <<>>) = base
<1>1. PICK s : s = <<>>
  OBVIOUS
<1>2. DOMAIN s = {}
  BY <1>1
<1>3. FoldSequence(base, s) = Fold(s, base, DOMAIN s)
  BY DEF FoldSequence, Fold
<1>4. Fold(s, base, DOMAIN s) = base
  BY <1>2, FoldEmpty
<1>. QED
  BY <1>1, <1>3, <1>4

LEMMA FoldSequenceStep ==
  ASSUME PicksLast, NEW E, NEW seq \in Seq(E), seq # <<>>, NEW base
  PROVE  FoldSequence(base, seq) =
           Op(seq[Len(seq)], FoldSequence(base, SubSeq(seq, 1, Len(seq) - 1)))
<1>. DEFINE n == Len(seq)
            S == 1..n
            rest == SubSeq(seq, 1, n - 1)
<1>1. n \in Nat /\ n # 0 /\ DOMAIN seq = S
  OBVIOUS
<1>2. DOMAIN rest = 1..(n - 1) /\ \A i \in 1..(n - 1) : rest[i] = seq[i]
  BY <1>1
<1>3. IsFiniteSet(S) /\ Picks(S) /\ S # {} /\ n \in S
  <2>1. n \in Int /\ 1 \in Int
    BY <1>1
  <2>2. IsFiniteSet(1..n)
    BY <2>1, FS_Interval
  <2>3. n \in 1..n
    BY <1>1
  <2>. QED
    BY <1>1, <2>2, <2>3, PicksLastPicks
<1>4. Pick(S) = n
  <2>1. Pick(S) \in S /\ \A x \in S : x <= Pick(S)
    <3>1. S \in SUBSET (1..n) /\ S # {}
      BY <1>3
    <3>. QED
      BY <1>1, <3>1 DEF PicksLast
  <2>. QED
    BY <1>1, <1>3, <2>1
<1>5. S \ {n} = 1..(n - 1)
  BY <1>1
<1>. HIDE DEF n, rest
<1>6. Fold(seq, base, S) = Op(seq[n], Fold(seq, base, S \ {n}))
  BY <1>3, <1>4, FoldStep
<1>7. Fold(seq, base, 1..(n - 1)) = Fold(rest, base, 1..(n - 1))
  <2>1. IsFiniteSet(1..(n - 1)) /\ Picks(1..(n - 1))
    BY <1>1, PicksLastPicks, FS_Interval
  <2>. QED
    BY <1>2, <2>1, FoldSame
<1>8. FoldSequence(base, seq) = Fold(seq, base, S)
  BY <1>1 DEF FoldSequence, Fold
<1>9. FoldSequence(base, rest) = Fold(rest, base, 1..(n - 1))
  BY <1>2 DEF FoldSequence, Fold
<1>. QED
  BY <1>5, <1>6, <1>7, <1>8, <1>9 DEF n, rest

\* An invariant of a fold over a sequence: what holds after m of its steps is
\* that the result is in R[m].
LEMMA FoldSequenceKeeps ==
  ASSUME PicksLast, NEW E, NEW seq \in Seq(E), NEW base, NEW R, base \in R[0],
         \A m \in 1..Len(seq) : \A x \in R[m - 1] : Op(seq[m], x) \in R[m]
  PROVE  FoldSequence(base, seq) \in R[Len(seq)]
<1>. DEFINE Upto(m) == SubSeq(seq, 1, m)
            Bad == {m \in 0..Len(seq) : FoldSequence(base, Upto(m)) \notin R[m]}
<1>1. Len(seq) \in Nat /\ Upto(Len(seq)) = seq
  OBVIOUS
<1>2. SUFFICES ASSUME FoldSequence(base, seq) \notin R[Len(seq)]
               PROVE  FALSE
  OBVIOUS
<1>3. PICK m \in Bad : \A x \in Bad : m <= x
  <2>1. Bad \in SUBSET Nat /\ Len(seq) \in Bad
    <3>1. FoldSequence(base, Upto(Len(seq))) \notin R[Len(seq)]
      BY <1>1, <1>2
    <3>. QED
      BY <1>1, <3>1
  <2>. HIDE DEF Bad
  <2>. QED
    BY <2>1, LeastExists
<1>4. m \in 0..Len(seq) /\ FoldSequence(base, Upto(m)) \notin R[m]
  OBVIOUS
<1>5. m # 0
  <2>1. SUFFICES ASSUME m = 0
                 PROVE  FALSE
    OBVIOUS
  <2>2. Upto(0) = <<>>
    OBVIOUS
  <2>. QED
    BY <1>4, <2>1, <2>2, FoldSequenceEmpty
<1>6. /\ m \in 1..Len(seq) /\ m - 1 \in 0..Len(seq) /\ ~(m <= m - 1)
  BY <1>1, <1>4, <1>5
<1>7. m - 1 \notin Bad
  BY <1>3, <1>6
<1>8. FoldSequence(base, Upto(m - 1)) \in R[m - 1]
  BY <1>6, <1>7
<1>9. /\ Upto(m) \in Seq(E) /\ Upto(m) # <<>> /\ Len(Upto(m)) = m
      /\ Upto(m)[m] = seq[m]
      /\ SubSeq(Upto(m), 1, m - 1) = Upto(m - 1)
  BY <1>1, <1>6
<1>. HIDE DEF Upto
<1>10. FoldSequence(base, Upto(m))
         = Op(seq[m], FoldSequence(base, Upto(m - 1)))
  BY <1>9, FoldSequenceStep
<1>. QED
  BY <1>4, <1>6, <1>8, <1>10

=============================================================================
