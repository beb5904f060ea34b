--------------------------- MODULE GlyphCacheProofs ---------------------------
(***************************************************************************)
(* Proofs about module GlyphCache, for any threads, fonts, glyphs, keys,   *)
(* sizes and bounds.  What happens under the lock is an operator on a      *)
(* record of the protected state, so most of the argument is about such    *)
(* records: CacheGood says what every one of them satisfies, also in the   *)
(* middle of an eviction, for given hands H and texts T.                   *)
(***************************************************************************)
EXTENDS GlyphCache, ListLemmas

-----------------------------------------------------------------------------
(* The inductive invariant.                                                *)

Entry == [key : Keys, val : Glyphs]
FontState == [refs : Nat, kind : Kinds, gen : 0..MaxGen]
GlyphState == [refs : Nat, shows : Shown \cup {None}]
Held == [glyph : Glyphs, asked : Shown]
Hands == [Threads -> Held \cup {Empty}]

Caches == [lru : Seq(Entry), total : Nat, fonts : [Fonts -> FontState],
           glyphs : [Glyphs -> GlyphState]]

TotalOf(s) == FoldLeft(LAMBDA n, e : n + Size[e.key], 0, s)

WithVal(g) == {e \in Entry : e.val = g}
WithFont(f) == {e \in Entry : e.key.font = f}
HandsWith(H, g) == {t \in Threads : H[t].glyph = g}
TextsWith(T, f) == {t \in Threads : <<t, f>> \in T}

KeysOnce(s) == \A i, j \in DOMAIN s : s[i].key = s[j].key => i = j

GlyphsCounted(c, H) ==
  \A g \in Glyphs : c.glyphs[g].refs = CountOf(c.lru, WithVal(g))
                                       + Cardinality(HandsWith(H, g))
FontsCounted(c, T) ==
  \A f \in Fonts : c.fonts[f].refs = CountOf(c.lru, WithFont(f))
                                     + Cardinality(TextsWith(T, f))

\* A font that was never loaded has no references.
FontsLoaded(c) == \A f \in Fonts : c.fonts[f].gen = 0 => c.fonts[f].refs = 0

ShowsIn(c, k) == [key |-> k, gen |-> c.fonts[k.font].gen]
EntriesShow(c) ==
  \A i \in DOMAIN c.lru : c.glyphs[c.lru[i].val].shows = ShowsIn(c, c.lru[i].key)
HandsShow(c, H) ==
  \A t \in Threads : H[t] # Empty => c.glyphs[H[t].glyph].shows = H[t].asked

CacheGood(c, H, T) ==
  /\ c \in Caches /\ H \in Hands
  /\ KeysOnce(c.lru) /\ c.total = TotalOf(c.lru)
  /\ GlyphsCounted(c, H) /\ FontsCounted(c, T) /\ FontsLoaded(c)
  /\ EntriesShow(c) /\ HandsShow(c, H)

IInv ==
  /\ TypeOK
  /\ CacheGood(Cache, hand, texts)
  /\ users = {} => lru = <<>>

-----------------------------------------------------------------------------
(* The total of the entries' sizes.                                        *)

AddSize(e, n) == n + Size[e.key]
Totals == INSTANCE ListLemmas WITH Op <- AddSize, Pick <- Max

LEMMA MaxIsLast ==
  ASSUME NEW n \in Nat, NEW s \in SUBSET (1..n), s # {}
  PROVE  Max(s) \in s /\ \A x \in s : x <= Max(s)
<1>1. \E m \in s : \A x \in s : x <= m
  BY GreatestExists
<1>2. \E m \in s : \A x \in s : m >= x
  BY <1>1
<1>3. Max(s) \in s /\ \A x \in s : Max(s) >= x
  BY <1>2 DEF Max
<1>. QED
  BY <1>3

LEMMA TotalIsFold ==
  ASSUME NEW s
  PROVE  TotalOf(s) = Totals!FoldSequence(0, s)
BY DEF TotalOf, FoldLeft, Totals!FoldSequence, AddSize, Max, MapThenFoldSet,
       Totals!MapThenFoldSet, Totals!Max

LEMMA TotalOfNone == TotalOf(<<>>) = 0
BY TotalIsFold, Totals!FoldSequenceEmpty

ButLast(s) == SubSeq(s, 1, Len(s) - 1)

LEMMA TotalOfLast ==
  ASSUME NEW s \in Seq(Entry), s # <<>>
  PROVE  TotalOf(s) = TotalOf(ButLast(s)) + Size[s[Len(s)].key]
<1>1. Totals!PicksLast
  BY MaxIsLast DEF Totals!PicksLast
<1>2. Totals!FoldSequence(0, s)
        = AddSize(s[Len(s)], Totals!FoldSequence(0, SubSeq(s, 1, Len(s) - 1)))
  BY <1>1, Totals!FoldSequenceStep
<1>. QED
  BY <1>2, TotalIsFold DEF AddSize, ButLast

LEMMA ButLastOK ==
  ASSUME NEW s \in Seq(Entry), s # <<>>
  PROVE  /\ ButLast(s) \in Seq(Entry) /\ Len(ButLast(s)) = Len(s) - 1
         /\ Len(s) \in Nat /\ Len(s) >= 1
         /\ \A i \in 1..(Len(s) - 1) : ButLast(s)[i] = s[i]
         /\ s[Len(s)] \in Entry
<1>1. /\ Len(s) \in Nat /\ Len(s) >= 1
      /\ \A i \in 1..Len(s) : s[i] \in Entry
  BY EmptySeq
<1>2. \A i \in 1..(Len(s) - 1) : s[i] \in Entry
  BY <1>1
<1>3. /\ ButLast(s) \in Seq(Entry)
      /\ Len(ButLast(s)) = Len(s) - 1
  <2>. DEFINE n == Len(s) - 1
  <2>1. 1 \in Int /\ n \in Int /\ \A i \in 1..n : s[i] \in Entry
    BY <1>1, <1>2
  <2>. HIDE DEF n
  <2>2. /\ SubSeq(s, 1, n) \in Seq(Entry)
        /\ Len(SubSeq(s, 1, n)) = IF 1 <= n THEN n - 1 + 1 ELSE 0
    BY <2>1, SubSeqProperties
  <2>3. ButLast(s) = SubSeq(s, 1, n)
    BY DEF ButLast, n
  <2>4. n \in Int /\ n >= 0 /\ n = Len(s) - 1
    BY <1>1 DEF n
  <2>5. Len(SubSeq(s, 1, n)) = n
    BY <2>2, <2>4
  <2>. QED
    BY <2>2, <2>3, <2>4, <2>5
<1>4. \A i \in 1..(Len(s) - 1) : ButLast(s)[i] = s[i]
  BY <1>1 DEF ButLast
<1>. QED
  BY <1>1, <1>3, <1>4

\* Where an entry stands makes no difference to the total.
TotalFits(s) ==
  /\ TotalOf(s) \in Nat
  /\ \A e \in Entry : TotalOf(<<e>> \o s) = TotalOf(s) + Size[e.key]
  /\ \A i \in DOMAIN s : TotalOf(s) = TotalOf(RemoveAt(s, i)) + Size[s[i].key]

LEMMA TotalType ==
  ASSUME NEW s \in Seq(Entry)
  PROVE  TotalFits(s)
<1>. DEFINE Bad == {n \in Nat : \E r \in Seq(Entry) : Len(r) = n /\ ~TotalFits(r)}
<1>0. \A e \in Entry : Size[e.key] \in Nat
  BY GlyphCacheAssumption DEF Entry
<1>1. SUFFICES ASSUME Bad # {}
               PROVE  FALSE
  OBVIOUS
<1>2. PICK n \in Bad : \A m \in Bad : n <= m
  <2>1. Bad \in SUBSET Nat
    OBVIOUS
  <2>. HIDE DEF Bad
  <2>. QED
    BY <1>1, <2>1, LeastExists
<1>3. PICK r \in Seq(Entry) : Len(r) = n /\ ~TotalFits(r)
  OBVIOUS
<1>. DEFINE b == ButLast(r)
            z == r[Len(r)]
<1>4. CASE r = <<>>
  <2>1. \A e \in Entry : TotalOf(<<e>> \o r) = TotalOf(r) + Size[e.key]
    <3>1. SUFFICES ASSUME NEW e \in Entry
                   PROVE  TotalOf(<<e>> \o r) = TotalOf(r) + Size[e.key]
      OBVIOUS
    <3>2. <<e>> \o r = <<e>> /\ <<e>> \in Seq(Entry) /\ <<e>> # <<>>
          /\ Len(<<e>>) = 1 /\ <<e>>[1] = e
      BY <1>4
    <3>3. ButLast(<<e>>) = <<>>
      BY <3>2 DEF ButLast
    <3>. QED
      BY <1>4, <3>2, <3>3, TotalOfLast
  <2>2. DOMAIN r = {}
    BY <1>4
  <2>. QED
    BY <1>3, <1>4, <2>1, <2>2, TotalOfNone DEF TotalFits
<1>5. CASE r # <<>>
  <2>1. /\ b \in Seq(Entry) /\ Len(b) = n - 1 /\ n - 1 \in Nat /\ n \in Nat
        /\ \A i \in 1..(n - 1) : b[i] = r[i]
        /\ z \in Entry
    <3>1. n \in Nat /\ Len(r) = n
      BY <1>3
    <3>2. /\ ButLast(r) \in Seq(Entry) /\ Len(ButLast(r)) = n - 1 /\ n >= 1
          /\ \A i \in 1..(n - 1) : ButLast(r)[i] = r[i]
          /\ r[Len(r)] \in Entry
      BY <1>5, <3>1, ButLastOK
    <3>. QED
      BY <3>1, <3>2
  <2>2. TotalFits(b)
    BY <1>2, <2>1
  <2>3. TotalOf(r) = TotalOf(b) + Size[z.key]
    BY <1>5, TotalOfLast
  <2>. HIDE DEF b, z
  <2>4. TotalOf(r) \in Nat
    BY <1>0, <2>1, <2>2, <2>3 DEF TotalFits
  <2>5. ASSUME NEW e \in Entry
        PROVE  TotalOf(<<e>> \o r) = TotalOf(r) + Size[e.key]
    <3>1. /\ <<e>> \o r \in Seq(Entry) /\ <<e>> \o r # <<>>
          /\ Len(<<e>> \o r) = n + 1 /\ (<<e>> \o r)[n + 1] = z
      BY <1>3, <2>1 DEF z
    <3>2. ButLast(<<e>> \o r) = <<e>> \o b
      <4>. DEFINE u == <<e>> \o r
                  v == <<e>> \o b
      <4>0. u \in Seq(Entry) /\ u # <<>> /\ Len(u) = n + 1 /\ (n + 1) - 1 = n
        BY <2>1, <3>1
      <4>1. /\ ButLast(u) \in Seq(Entry)
            /\ Len(ButLast(u)) = n
            /\ \A i \in 1..n : ButLast(u)[i] = u[i]
        <5>. HIDE DEF u
        <5>. QED
          BY <4>0, ButLastOK
      <4>2. <<e>> \o b \in Seq(Entry) /\ Len(<<e>> \o b) = n
        BY <2>1
      <4>3. \A i \in 1..n : (<<e>> \o r)[i] = (<<e>> \o b)[i]
        <5>1. SUFFICES ASSUME NEW i \in 1..n
                       PROVE  (<<e>> \o r)[i] = (<<e>> \o b)[i]
          OBVIOUS
        <5>2. CASE i = 1
          BY <5>2
        <5>3. CASE i # 1
          <6>1. i - 1 \in 1..(n - 1) /\ i - 1 \in 1..Len(r) /\ i - 1 \in 1..Len(b)
            BY <1>3, <2>1, <5>3
          <6>2. (<<e>> \o r)[i] = r[i - 1] /\ (<<e>> \o b)[i] = b[i - 1]
            BY <1>3, <2>1, <5>3, <6>1
          <6>. QED
            BY <2>1, <6>1, <6>2
        <5>. QED
          BY <5>2, <5>3
      <4>. HIDE DEF u, v
      <4>4. /\ v \in Seq(Entry) /\ Len(ButLast(u)) = Len(v)
            /\ \A i \in 1..Len(ButLast(u)) : ButLast(u)[i] = v[i]
        BY <4>1, <4>2, <4>3 DEF u, v
      <4>5. ButLast(u) = v
        BY <4>1, <4>4, SeqEqual
      <4>. QED
        BY <4>5 DEF u, v
    <3>3. TotalOf(<<e>> \o r) = TotalOf(<<e>> \o b) + Size[z.key]
      BY <2>1, <3>1, <3>2, TotalOfLast
    <3>4. TotalOf(<<e>> \o b) = TotalOf(b) + Size[e.key]
      BY <2>2 DEF TotalFits
    <3>5. TotalOf(b) \in Nat /\ Size[z.key] \in Nat /\ Size[e.key] \in Nat
      BY <1>0, <2>1, <2>2 DEF TotalFits
    <3>. QED
      BY <2>3, <3>3, <3>4, <3>5
  <2>6. ASSUME NEW i \in DOMAIN r
        PROVE  TotalOf(r) = TotalOf(RemoveAt(r, i)) + Size[r[i].key]
    <3>1. i \in 1..n /\ RemoveAt(r, i) \in Seq(Entry)
          /\ Len(RemoveAt(r, i)) = n - 1
          /\ \A j \in 1..(n - 1) :
               RemoveAt(r, i)[j] = IF j < i THEN r[j] ELSE r[j + 1]
      BY <1>3, RemoveAtElements
    <3>2. CASE i = n
      <4>1. RemoveAt(r, i) = b
        <5>1. \A j \in 1..(n - 1) : RemoveAt(r, i)[j] = b[j]
          BY <2>1, <3>1, <3>2
        <5>. QED
          BY <2>1, <3>1, <5>1, SeqEqual
      <4>. QED
        BY <1>3, <2>3, <3>2, <4>1 DEF z
    <3>3. CASE i # n
      <4>. DEFINE q == RemoveAt(r, i)
      <4>1. /\ i \in 1..(n - 1) /\ n - 1 >= 1 /\ n - 2 \in Nat
            /\ i \in 1..Len(b) /\ i \in DOMAIN b
        BY <2>1, <3>1, <3>3
      <4>2. q \in Seq(Entry) /\ Len(q) = n - 1 /\ q # <<>> /\ q[n - 1] = z
        BY <1>3, <2>1, <3>1, <4>1 DEF z
      <4>3. /\ RemoveAt(b, i) \in Seq(Entry) /\ Len(RemoveAt(b, i)) = n - 2
            /\ \A j \in 1..(n - 2) :
                 RemoveAt(b, i)[j] = IF j < i THEN b[j] ELSE b[j + 1]
        <5>1. (n - 1) - 1 = n - 2
          BY <2>1
        <5>. QED
          BY <2>1, <4>1, <5>1, RemoveAtElements
      <4>4. /\ ButLast(q) \in Seq(Entry) /\ Len(ButLast(q)) = n - 2
            /\ \A j \in 1..(n - 2) : ButLast(q)[j] = q[j]
        BY <2>1, <4>2, ButLastOK
      <4>5. ButLast(q) = RemoveAt(b, i)
        <5>1. ASSUME NEW j \in 1..(n - 2)
              PROVE  ButLast(q)[j] = RemoveAt(b, i)[j]
          <6>1. j \in 1..(n - 1) /\ j + 1 \in 1..(n - 1) /\ j \in Int
            BY <2>1
          <6>2. q[j] = IF j < i THEN r[j] ELSE r[j + 1]
            BY <3>1, <6>1
          <6>3. b[j] = r[j] /\ b[j + 1] = r[j + 1]
            BY <2>1, <6>1
          <6>4. ButLast(q)[j] = q[j]
            BY <4>4
          <6>5. RemoveAt(b, i)[j] = IF j < i THEN b[j] ELSE b[j + 1]
            BY <4>3
          <6>. HIDE DEF q
          <6>. QED
            BY <6>2, <6>3, <6>4, <6>5
        <5>. QED
          BY <4>3, <4>4, <5>1, SeqEqual
      <4>6. TotalOf(q) = TotalOf(RemoveAt(b, i)) + Size[z.key]
        BY <4>2, <4>5, TotalOfLast
      <4>7. TotalOf(b) = TotalOf(RemoveAt(b, i)) + Size[r[i].key]
        BY <2>1, <2>2, <4>1 DEF TotalFits
      <4>8. TotalOf(RemoveAt(b, i)) \in Nat
        <5>1. n - 2 \notin Bad
          BY <1>2, <2>1, <4>1
        <5>. QED
          BY <4>1, <4>3, <5>1 DEF TotalFits
      <4>9. Size[z.key] \in Nat /\ Size[r[i].key] \in Nat
        BY <1>0, <2>1
      <4>. QED
        BY <2>3, <4>6, <4>7, <4>8, <4>9
    <3>. QED
      BY <3>2, <3>3
  <2>. QED
    BY <1>3, <2>4, <2>5, <2>6 DEF TotalFits
<1>. QED
  BY <1>4, <1>5

-----------------------------------------------------------------------------
(* Keeping and dropping.                                                   *)

LEMMA DropGlyphOK ==
  ASSUME NEW objs \in [Glyphs -> GlyphState], NEW g \in Glyphs, objs[g].refs > 0
  PROVE  LET new == DropGlyph(objs, g)
         IN  /\ new \in [Glyphs -> GlyphState]
             /\ \A x \in Glyphs :
                  /\ new[x].refs = IF x = g THEN objs[x].refs - 1 ELSE objs[x].refs
                  /\ new[x].refs > 0 => new[x].shows = objs[x].shows
<1>1. CASE objs[g].refs = 1
  <2>1. DropGlyph(objs, g) = [objs EXCEPT ![g] = Freed]
    BY <1>1 DEF DropGlyph
  <2>2. Freed \in GlyphState /\ Freed.refs = 0
    BY DEF Freed, GlyphState
  <2>. QED
    BY <1>1, <2>1, <2>2
<1>2. CASE objs[g].refs # 1
  <2>1. DropGlyph(objs, g) = [objs EXCEPT ![g].refs = IF @ > 0 THEN @ - 1 ELSE @]
    BY <1>2 DEF DropGlyph, Drop
  <2>2. \A x \in Glyphs : objs[x] \in GlyphState /\ objs[x].refs \in Nat
    BY DEF GlyphState
  <2>. QED
    BY <2>1, <2>2 DEF GlyphState
<1>. QED
  BY <1>1, <1>2

LEMMA KeepGlyphOK ==
  ASSUME NEW objs \in [Glyphs -> GlyphState], NEW g \in Glyphs, objs[g].refs > 0
  PROVE  LET new == Keep(objs, g)
         IN  /\ new \in [Glyphs -> GlyphState]
             /\ \A x \in Glyphs :
                  /\ new[x].refs = IF x = g THEN objs[x].refs + 1 ELSE objs[x].refs
                  /\ new[x].shows = objs[x].shows
BY DEF Keep, GlyphState

LEMMA DropFontOK ==
  ASSUME NEW objs \in [Fonts -> FontState], NEW f \in Fonts, objs[f].refs > 0
  PROVE  LET new == Drop(objs, f)
         IN  /\ new \in [Fonts -> FontState]
             /\ \A x \in Fonts :
                  /\ new[x].refs = IF x = f THEN objs[x].refs - 1 ELSE objs[x].refs
                  /\ new[x].gen = objs[x].gen
BY DEF Drop, FontState

LEMMA KeepFontOK ==
  ASSUME NEW objs \in [Fonts -> FontState], NEW f \in Fonts, objs[f].refs > 0
  PROVE  LET new == Keep(objs, f)
         IN  /\ new \in [Fonts -> FontState]
             /\ \A x \in Fonts :
                  /\ new[x].refs = IF x = f THEN objs[x].refs + 1 ELSE objs[x].refs
                  /\ new[x].gen = objs[x].gen
BY DEF Keep, FontState

\* Each kind of reference is counted by a natural number.
LEMMA CountsType ==
  ASSUME NEW c, NEW H, NEW T, CacheGood(c, H, T)
  PROVE  /\ c \in Caches /\ c.lru \in Seq(Entry) /\ c.total \in Nat
         /\ c.fonts \in [Fonts -> FontState] /\ c.glyphs \in [Glyphs -> GlyphState]
         /\ \A g \in Glyphs : /\ c.glyphs[g].refs \in Nat
                              /\ CountOf(c.lru, WithVal(g)) \in Nat
                              /\ Cardinality(HandsWith(H, g)) \in Nat
         /\ \A f \in Fonts : /\ c.fonts[f].refs \in Nat
                             /\ CountOf(c.lru, WithFont(f)) \in Nat
                             /\ Cardinality(TextsWith(T, f)) \in Nat
<1>1. /\ c \in Caches /\ c.lru \in Seq(Entry) /\ c.total \in Nat
      /\ c.fonts \in [Fonts -> FontState] /\ c.glyphs \in [Glyphs -> GlyphState]
  BY DEF CacheGood, Caches
<1>2. /\ \A g \in Glyphs : IsFiniteSet(HandsWith(H, g))
      /\ \A f \in Fonts : IsFiniteSet(TextsWith(T, f))
  BY GlyphCacheAssumption, FS_Subset DEF HandsWith, TextsWith
<1>. QED
  BY <1>1, <1>2, CountType, FS_CardinalityType DEF FontState, GlyphState

\* An entry has its glyph and its font counted.
LEMMA EntryFacts ==
  ASSUME NEW c, NEW H, NEW T, CacheGood(c, H, T), NEW i \in DOMAIN c.lru
  PROVE  /\ c.lru[i] \in Entry /\ c.lru[i].val \in Glyphs
         /\ c.lru[i].key \in Keys /\ c.lru[i].key.font \in Fonts
         /\ c.glyphs[c.lru[i].val].refs > 0 /\ c.fonts[c.lru[i].key.font].refs > 0
<1>1. c.lru[i] \in Entry
  BY CountsType
<1>2. /\ c.lru[i].val \in Glyphs /\ c.lru[i].key \in Keys
      /\ c.lru[i].key.font \in Fonts
  BY <1>1, GlyphCacheAssumption DEF Entry
<1>3. /\ c.lru[i] \in WithVal(c.lru[i].val)
      /\ c.lru[i] \in WithFont(c.lru[i].key.font)
  BY <1>1 DEF WithVal, WithFont
<1>4. /\ CountOf(c.lru, WithVal(c.lru[i].val)) >= 1
      /\ CountOf(c.lru, WithFont(c.lru[i].key.font)) >= 1
  BY <1>3, CountsType, CountType
<1>5. /\ CountOf(c.lru, WithVal(c.lru[i].val)) \in Nat
      /\ Cardinality(HandsWith(H, c.lru[i].val)) \in Nat
      /\ CountOf(c.lru, WithFont(c.lru[i].key.font)) \in Nat
      /\ Cardinality(TextsWith(T, c.lru[i].key.font)) \in Nat
  BY <1>2, CountsType
<1>6. /\ c.glyphs[c.lru[i].val].refs = CountOf(c.lru, WithVal(c.lru[i].val))
           + Cardinality(HandsWith(H, c.lru[i].val))
      /\ c.fonts[c.lru[i].key.font].refs = CountOf(c.lru, WithFont(c.lru[i].key.font))
           + Cardinality(TextsWith(T, c.lru[i].key.font))
  BY <1>2 DEF CacheGood, GlyphsCounted, FontsCounted
<1>. QED
  BY <1>1, <1>2, <1>4, <1>5, <1>6

\* A glyph without references is nowhere.
LEMMA UnusedGlyph ==
  ASSUME NEW c, NEW H, NEW T, CacheGood(c, H, T), NEW g \in Glyphs,
         c.glyphs[g].refs = 0
  PROVE  /\ CountOf(c.lru, WithVal(g)) = 0 /\ HandsWith(H, g) = {}
         /\ \A i \in DOMAIN c.lru : c.lru[i].val # g
         /\ \A t \in Threads : H[t].glyph # g
<1>1. CountOf(c.lru, WithVal(g)) = 0 /\ Cardinality(HandsWith(H, g)) = 0
  BY CountsType DEF CacheGood, GlyphsCounted
<1>2. HandsWith(H, g) = {}
  BY <1>1, GlyphCacheAssumption, FS_Subset, FS_EmptySet DEF HandsWith
<1>. QED
  BY <1>1, <1>2, EntryFacts DEF HandsWith

\* The glyph in a hand is counted.
LEMMA HandFacts ==
  ASSUME NEW c, NEW H, NEW T, CacheGood(c, H, T), NEW t \in Threads, H[t] # Empty
  PROVE  /\ H[t] \in Held /\ H[t].glyph \in Glyphs /\ H[t].asked \in Shown
         /\ Cardinality(HandsWith(H, H[t].glyph)) >= 1
         /\ c.glyphs[H[t].glyph].refs > 0
<1>1. H[t] \in Held /\ H[t].glyph \in Glyphs /\ H[t].asked \in Shown
  BY DEF CacheGood, Hands, Held
<1>2. t \in HandsWith(H, H[t].glyph) /\ IsFiniteSet(HandsWith(H, H[t].glyph))
  BY GlyphCacheAssumption, FS_Subset DEF HandsWith
<1>3. /\ Cardinality(HandsWith(H, H[t].glyph)) \in Nat
      /\ CountOf(c.lru, WithVal(H[t].glyph)) \in Nat
  BY <1>1, CountsType
<1>4. Cardinality(HandsWith(H, H[t].glyph)) # 0
  BY <1>2, FS_EmptySet
<1>5. c.glyphs[H[t].glyph].refs = CountOf(c.lru, WithVal(H[t].glyph))
        + Cardinality(HandsWith(H, H[t].glyph))
  BY <1>1 DEF CacheGood, GlyphsCounted
<1>. QED
  BY <1>1, <1>3, <1>4, <1>5

-----------------------------------------------------------------------------
(* Dropping, taking and inserting an entry.                                *)

Pack(l, n, f, g) == [lru |-> l, total |-> n, fonts |-> f, glyphs |-> g]

LEMMA PackOK ==
  ASSUME NEW l \in Seq(Entry), NEW n \in Nat, NEW f \in [Fonts -> FontState],
         NEW g \in [Glyphs -> GlyphState]
  PROVE  /\ Pack(l, n, f, g) \in Caches
         /\ Pack(l, n, f, g).lru = l /\ Pack(l, n, f, g).total = n
         /\ Pack(l, n, f, g).fonts = f /\ Pack(l, n, f, g).glyphs = g
BY DEF Pack, Caches

LEMMA DropEntryIs ==
  ASSUME NEW c \in Caches, NEW i
  PROVE  DropEntry(c, i)
           = Pack(RemoveAt(c.lru, i), c.total - Size[c.lru[i].key],
                  Drop(c.fonts, c.lru[i].key.font), DropGlyph(c.glyphs, c.lru[i].val))
<1>1. PICK l \in Seq(Entry), n \in Nat, f \in [Fonts -> FontState],
           g \in [Glyphs -> GlyphState] : c = Pack(l, n, f, g)
  BY DEF Pack, Caches
<1>2. c.lru = l /\ c.total = n /\ c.fonts = f /\ c.glyphs = g
  BY <1>1 DEF Pack
<1>3. DropEntry(c, i)
        = [c EXCEPT !.lru = RemoveAt(l, i), !.total = n - Size[l[i].key],
                    !.fonts = Drop(f, l[i].key.font),
                    !.glyphs = DropGlyph(g, l[i].val)]
  BY <1>1, <1>2 DEF DropEntry
<1>. QED
  BY <1>1, <1>2, <1>3 DEF Pack

LEMMA DropEntryGood ==
  ASSUME NEW c, NEW H, NEW T, CacheGood(c, H, T), NEW i \in DOMAIN c.lru
  PROVE  /\ CacheGood(DropEntry(c, i), H, T)
         /\ Len(DropEntry(c, i).lru) = Len(c.lru) - 1
<1>. DEFINE e == c.lru[i]
            l == RemoveAt(c.lru, i)
            n == c.total - Size[e.key]
            f == Drop(c.fonts, e.key.font)
            g == DropGlyph(c.glyphs, e.val)
            d == Pack(l, n, f, g)
<1>1. /\ c \in Caches /\ c.lru \in Seq(Entry) /\ c.total \in Nat
      /\ c.fonts \in [Fonts -> FontState] /\ c.glyphs \in [Glyphs -> GlyphState]
      /\ DOMAIN c.lru = 1..Len(c.lru) /\ Len(c.lru) \in Nat
  BY CountsType
<1>2. /\ e \in Entry /\ e.val \in Glyphs /\ e.key \in Keys /\ e.key.font \in Fonts
      /\ c.glyphs[e.val].refs > 0 /\ c.fonts[e.key.font].refs > 0
  BY EntryFacts
<1>3. DropEntry(c, i) = d
  BY <1>1, DropEntryIs
<1>4. /\ l \in Seq(Entry) /\ Len(l) = Len(c.lru) - 1
      /\ DOMAIN l = 1..(Len(c.lru) - 1)
      /\ \A j \in 1..(Len(c.lru) - 1) : l[j] = IF j < i THEN c.lru[j] ELSE c.lru[j + 1]
  BY <1>1, RemoveAtElements
<1>5. n \in Nat /\ n = TotalOf(l)
  <2>1. TotalFits(c.lru) /\ TotalFits(l)
    BY <1>1, <1>4, TotalType
  <2>2. c.total = TotalOf(l) + Size[e.key] /\ TotalOf(l) \in Nat
    BY <2>1 DEF TotalFits, CacheGood
  <2>3. Size[e.key] \in Nat
    BY <1>2, GlyphCacheAssumption
  <2>. QED
    BY <2>2, <2>3
<1>6. /\ f \in [Fonts -> FontState]
      /\ \A x \in Fonts :
           /\ f[x].refs = IF x = e.key.font THEN c.fonts[x].refs - 1 ELSE c.fonts[x].refs
           /\ f[x].gen = c.fonts[x].gen
  BY <1>1, <1>2, DropFontOK
<1>7. /\ g \in [Glyphs -> GlyphState]
      /\ \A x \in Glyphs :
           /\ g[x].refs = IF x = e.val THEN c.glyphs[x].refs - 1 ELSE c.glyphs[x].refs
           /\ g[x].refs > 0 => g[x].shows = c.glyphs[x].shows
  BY <1>1, <1>2, DropGlyphOK
<1>8. /\ \A x \in Glyphs : CountOf(l, WithVal(x))
           = IF x = e.val THEN CountOf(c.lru, WithVal(x)) - 1
             ELSE CountOf(c.lru, WithVal(x))
      /\ \A x \in Fonts : CountOf(l, WithFont(x))
           = IF x = e.key.font THEN CountOf(c.lru, WithFont(x)) - 1
             ELSE CountOf(c.lru, WithFont(x))
  <2>1. /\ \A x : e \in WithVal(x) <=> x = e.val
        /\ \A x : e \in WithFont(x) <=> x = e.key.font
    BY <1>2 DEF WithVal, WithFont
  <2>2. i \in 1..Len(c.lru)
    BY <1>1
  <2>. QED
    BY <1>1, <2>1, <2>2, CountRemoveAt
<1>9. /\ d \in Caches /\ d.lru = l /\ d.total = n /\ d.fonts = f /\ d.glyphs = g
  BY <1>4, <1>5, <1>6, <1>7, PackOK
<1>. HIDE DEF e, l, n, f, g, d
<1>10. \A j \in DOMAIN l : \E m \in DOMAIN c.lru :
         l[j] = c.lru[m] /\ m = IF j < i THEN j ELSE j + 1
  BY <1>1, <1>4
<1>11. KeysOnce(l)
  <2>1. SUFFICES ASSUME NEW j \in DOMAIN l, NEW k \in DOMAIN l, l[j].key = l[k].key
                 PROVE  j = k
    BY DEF KeysOnce
  <2>2. PICK m \in DOMAIN c.lru : l[j] = c.lru[m] /\ m = IF j < i THEN j ELSE j + 1
    BY <1>10
  <2>3. PICK p \in DOMAIN c.lru : l[k] = c.lru[p] /\ p = IF k < i THEN k ELSE k + 1
    BY <1>10
  <2>4. m = p
    BY <2>1, <2>2, <2>3 DEF CacheGood, KeysOnce
  <2>. QED
    BY <1>1, <1>4, <2>2, <2>3, <2>4
<1>12. \A x \in Glyphs : g[x].refs = CountOf(l, WithVal(x)) + Cardinality(HandsWith(H, x))
  <2>1. SUFFICES ASSUME NEW x \in Glyphs
                 PROVE  g[x].refs = CountOf(l, WithVal(x)) + Cardinality(HandsWith(H, x))
    OBVIOUS
  <2>2. /\ CountOf(c.lru, WithVal(x)) \in Nat /\ Cardinality(HandsWith(H, x)) \in Nat
    BY CountsType
  <2>3. c.glyphs[x].refs = CountOf(c.lru, WithVal(x)) + Cardinality(HandsWith(H, x))
    BY DEF CacheGood, GlyphsCounted
  <2>. QED
    BY <1>7, <1>8, <2>2, <2>3
<1>13. \A x \in Fonts : f[x].refs = CountOf(l, WithFont(x)) + Cardinality(TextsWith(T, x))
  <2>1. SUFFICES ASSUME NEW x \in Fonts
                 PROVE  f[x].refs = CountOf(l, WithFont(x)) + Cardinality(TextsWith(T, x))
    OBVIOUS
  <2>2. /\ CountOf(c.lru, WithFont(x)) \in Nat /\ Cardinality(TextsWith(T, x)) \in Nat
    BY CountsType
  <2>3. c.fonts[x].refs = CountOf(c.lru, WithFont(x)) + Cardinality(TextsWith(T, x))
    BY DEF CacheGood, FontsCounted
  <2>. QED
    BY <1>6, <1>8, <2>2, <2>3
<1>14. FontsLoaded(d)
  <2>1. SUFFICES ASSUME NEW x \in Fonts, f[x].gen = 0
                 PROVE  f[x].refs = 0
    BY <1>9 DEF FontsLoaded
  <2>2. c.fonts[x].refs = 0
    BY <1>6, <2>1 DEF CacheGood, FontsLoaded
  <2>. QED
    BY <1>2, <1>6, <2>2
<1>15. EntriesShow(d)
  <2>1. SUFFICES ASSUME NEW j \in DOMAIN l
                 PROVE  g[l[j].val].shows = ShowsIn(d, l[j].key)
    BY <1>9 DEF EntriesShow
  <2>2. l[j] \in Entry /\ l[j] \in WithVal(l[j].val)
    BY <1>4 DEF WithVal
  <2>3. l[j].val \in Glyphs /\ l[j].key.font \in Fonts
    BY <2>2, GlyphCacheAssumption DEF Entry
  <2>4. CountOf(l, WithVal(l[j].val)) >= 1
    BY <1>4, <2>2, CountType
  <2>5. g[l[j].val].refs > 0
    <3>1. CountOf(l, WithVal(l[j].val)) \in Nat
      BY <1>4, CountType
    <3>2. Cardinality(HandsWith(H, l[j].val)) \in Nat
      BY <2>3, CountsType
    <3>. QED
      BY <1>12, <2>3, <2>4, <3>1, <3>2
  <2>6. g[l[j].val].shows = c.glyphs[l[j].val].shows
    BY <1>7, <2>3, <2>5
  <2>7. c.glyphs[l[j].val].shows = ShowsIn(c, l[j].key)
    BY <1>10 DEF CacheGood, EntriesShow
  <2>. QED
    BY <1>6, <1>9, <2>3, <2>6, <2>7 DEF ShowsIn
<1>16. HandsShow(d, H)
  <2>1. SUFFICES ASSUME NEW t \in Threads, H[t] # Empty
                 PROVE  g[H[t].glyph].shows = H[t].asked
    BY <1>9 DEF HandsShow
  <2>2. H[t].glyph \in Glyphs /\ Cardinality(HandsWith(H, H[t].glyph)) >= 1
    BY <2>1, HandFacts
  <2>3. /\ CountOf(l, WithVal(H[t].glyph)) \in Nat
        /\ Cardinality(HandsWith(H, H[t].glyph)) \in Nat
    BY <1>4, <2>2, CountType, CountsType
  <2>4. g[H[t].glyph].refs > 0
    BY <1>12, <2>2, <2>3
  <2>5. c.glyphs[H[t].glyph].shows = H[t].asked
    BY <2>1 DEF CacheGood, HandsShow
  <2>. QED
    BY <1>7, <2>2, <2>4, <2>5
<1>17. GlyphsCounted(d, H) /\ FontsCounted(d, T)
  BY <1>9, <1>12, <1>13 DEF GlyphsCounted, FontsCounted
<1>18. CacheGood(d, H, T)
  BY <1>5, <1>9, <1>11, <1>14, <1>15, <1>16, <1>17 DEF CacheGood
<1>. QED
  BY <1>3, <1>4, <1>9, <1>18

-----------------------------------------------------------------------------
(* Changes of the glyphs, of the hands and of the fonts.                   *)

\* Thread t, whose hand was empty, is given a glyph.
Given(H, t, g, sh) == [H EXCEPT ![t] = [glyph |-> g, asked |-> sh]]

LEMMA GivenHands ==
  ASSUME NEW H \in Hands, NEW t \in Threads, H[t] = Empty,
         NEW g \in Glyphs, NEW sh \in Shown
  PROVE  /\ Given(H, t, g, sh) \in Hands
         /\ Given(H, t, g, sh)[t] = [glyph |-> g, asked |-> sh]
         /\ \A u \in Threads : u # t => Given(H, t, g, sh)[u] = H[u]
         /\ \A x \in Glyphs :
              Cardinality(HandsWith(Given(H, t, g, sh), x))
                = IF x = g THEN Cardinality(HandsWith(H, x)) + 1
                  ELSE Cardinality(HandsWith(H, x))
<1>. DEFINE H2 == Given(H, t, g, sh)
<1>1. /\ H2 \in Hands /\ H2[t] = [glyph |-> g, asked |-> sh]
      /\ \A u \in Threads : u # t => H2[u] = H[u]
  BY DEF Given, Hands, Held
<1>2. H[t].glyph = None
  BY DEF Empty
<1>. HIDE DEF H2
<1>3. ASSUME NEW x \in Glyphs
      PROVE  Cardinality(HandsWith(H2, x))
                = IF x = g THEN Cardinality(HandsWith(H, x)) + 1
                  ELSE Cardinality(HandsWith(H, x))
  <2>1. HandsWith(H2, x) = IF x = g THEN HandsWith(H, x) \cup {t} ELSE HandsWith(H, x)
    BY <1>1, <1>2, GlyphCacheAssumption DEF HandsWith
  <2>2. t \notin HandsWith(H, x) /\ IsFiniteSet(HandsWith(H, x))
    BY <1>2, GlyphCacheAssumption, FS_Subset DEF HandsWith
  <2>. QED
    BY <2>1, <2>2, FS_AddElement
<1>. QED
  BY <1>1, <1>3 DEF H2

\* Thread t gives its glyph back.
LEMMA EmptiedHands ==
  ASSUME NEW H \in Hands, NEW t \in Threads, H[t] # Empty
  PROVE  LET H2 == [H EXCEPT ![t] = Empty]
         IN  /\ H2 \in Hands /\ H2[t] = Empty
             /\ \A u \in Threads : u # t => H2[u] = H[u]
             /\ \A x \in Glyphs :
                  Cardinality(HandsWith(H2, x))
                    = IF x = H[t].glyph THEN Cardinality(HandsWith(H, x)) - 1
                      ELSE Cardinality(HandsWith(H, x))
<1>. DEFINE H2 == [H EXCEPT ![t] = Empty]
<1>1. /\ H2 \in Hands /\ H2[t] = Empty
      /\ \A u \in Threads : u # t => H2[u] = H[u]
  BY DEF Hands
<1>2. Empty.glyph = None
  BY DEF Empty
<1>. HIDE DEF H2
<1>3. ASSUME NEW x \in Glyphs
      PROVE  Cardinality(HandsWith(H2, x))
                = IF x = H[t].glyph THEN Cardinality(HandsWith(H, x)) - 1
                  ELSE Cardinality(HandsWith(H, x))
  <2>1. HandsWith(H2, x) = HandsWith(H, x) \ {t}
    BY <1>1, <1>2, GlyphCacheAssumption DEF HandsWith
  <2>2. IsFiniteSet(HandsWith(H, x)) /\ (t \in HandsWith(H, x) <=> x = H[t].glyph)
    BY GlyphCacheAssumption, FS_Subset DEF HandsWith
  <2>. QED
    BY <2>1, <2>2, FS_RemoveElement
<1>. QED
  BY <1>1, <1>3 DEF H2

\* New glyphs and hands, with the entries as they are or in another order.
LEMMA GlyphsChange ==
  ASSUME NEW c, NEW H, NEW T, CacheGood(c, H, T),
         NEW l \in Seq(Entry), KeysOnce(l), TotalOf(l) = TotalOf(c.lru),
         \A P : CountOf(l, P) = CountOf(c.lru, P),
         \A i \in DOMAIN l : \E j \in DOMAIN c.lru : l[i] = c.lru[j],
         NEW g \in [Glyphs -> GlyphState], NEW H2 \in Hands,
         \A x \in Glyphs : g[x].refs = CountOf(c.lru, WithVal(x))
                                      + Cardinality(HandsWith(H2, x)),
         \A i \in DOMAIN c.lru : g[c.lru[i].val].shows = c.glyphs[c.lru[i].val].shows,
         \A t \in Threads : H2[t] # Empty => g[H2[t].glyph].shows = H2[t].asked
  PROVE  CacheGood(Pack(l, c.total, c.fonts, g), H2, T)
<1>. DEFINE d == Pack(l, c.total, c.fonts, g)
<1>0. c.total \in Nat /\ c.fonts \in [Fonts -> FontState]
  BY CountsType
<1>1. /\ d \in Caches /\ d.lru = l /\ d.total = c.total
      /\ d.fonts = c.fonts /\ d.glyphs = g
  BY <1>0, PackOK
<1>. HIDE DEF d
<1>2. GlyphsCounted(d, H2) /\ FontsCounted(d, T) /\ FontsLoaded(d) /\ HandsShow(d, H2)
  BY <1>1 DEF CacheGood, GlyphsCounted, FontsCounted, FontsLoaded, HandsShow
<1>3. EntriesShow(d)
  <2>1. SUFFICES ASSUME NEW i \in DOMAIN l
                 PROVE  g[l[i].val].shows = ShowsIn(d, l[i].key)
    BY <1>1 DEF EntriesShow
  <2>2. PICK j \in DOMAIN c.lru : l[i] = c.lru[j]
    OBVIOUS
  <2>3. c.glyphs[c.lru[j].val].shows = ShowsIn(c, c.lru[j].key)
    BY DEF CacheGood, EntriesShow
  <2>. QED
    BY <1>1, <2>2, <2>3 DEF ShowsIn
<1>. QED
  BY <1>1, <1>2, <1>3 DEF CacheGood, d

\* New fonts and texts.
LEMMA FontsChange ==
  ASSUME NEW c, NEW H, NEW T, CacheGood(c, H, T), NEW T2,
         NEW f \in [Fonts -> FontState],
         \A x \in Fonts : f[x].refs = CountOf(c.lru, WithFont(x))
                                     + Cardinality(TextsWith(T2, x)),
         \A x \in Fonts : f[x].gen = 0 => f[x].refs = 0,
         \A i \in DOMAIN c.lru : f[c.lru[i].key.font].gen = c.fonts[c.lru[i].key.font].gen
  PROVE  CacheGood(Pack(c.lru, c.total, f, c.glyphs), H, T2)
<1>. DEFINE d == Pack(c.lru, c.total, f, c.glyphs)
<1>1. /\ d \in Caches /\ d.lru = c.lru /\ d.total = c.total
      /\ d.fonts = f /\ d.glyphs = c.glyphs
  BY CountsType, PackOK
<1>. HIDE DEF d
<1>2. GlyphsCounted(d, H) /\ FontsCounted(d, T2) /\ FontsLoaded(d) /\ HandsShow(d, H)
  BY <1>1 DEF CacheGood, GlyphsCounted, FontsCounted, FontsLoaded, HandsShow
<1>3. EntriesShow(d)
  BY <1>1 DEF CacheGood, EntriesShow, ShowsIn
<1>. QED
  BY <1>1, <1>2, <1>3 DEF CacheGood, d

-----------------------------------------------------------------------------
(* Taking and inserting an entry.                                          *)

LEMMA ToFront ==
  ASSUME NEW s \in Seq(Entry), NEW i \in DOMAIN s, KeysOnce(s)
  PROVE  LET l == <<s[i]>> \o RemoveAt(s, i)
         IN  /\ l \in Seq(Entry) /\ KeysOnce(l) /\ TotalOf(l) = TotalOf(s)
             /\ \A P : CountOf(l, P) = CountOf(s, P)
             /\ \A j \in DOMAIN l : \E m \in DOMAIN s : l[j] = s[m]
<1>. DEFINE r == RemoveAt(s, i)
            l == <<s[i]>> \o r
<1>1. /\ r \in Seq(Entry) /\ Len(r) = Len(s) - 1 /\ DOMAIN s = 1..Len(s)
      /\ Len(s) \in Nat /\ i \in 1..Len(s) /\ s[i] \in Entry
      /\ \A j \in 1..(Len(s) - 1) : r[j] = IF j < i THEN s[j] ELSE s[j + 1]
  BY RemoveAtElements
<1>. HIDE DEF r
<1>2. /\ l \in Seq(Entry) /\ DOMAIN l = 1..Len(s) /\ l[1] = s[i]
      /\ \A j \in 1..Len(s) : j # 1 => l[j] = r[j - 1]
  BY <1>1
<1>. HIDE DEF l
<1>. DEFINE From(j) == IF j = 1 THEN i ELSE IF j - 1 < i THEN j - 1 ELSE j
<1>3. \A j \in 1..Len(s) : From(j) \in 1..Len(s) /\ l[j] = s[From(j)]
  <2>1. SUFFICES ASSUME NEW j \in 1..Len(s)
                 PROVE  From(j) \in 1..Len(s) /\ l[j] = s[From(j)]
    OBVIOUS
  <2>2. CASE j = 1
    BY <1>1, <1>2, <2>2
  <2>3. CASE j # 1
    <3>1. j - 1 \in 1..(Len(s) - 1) /\ (j - 1) + 1 = j
      BY <1>1, <2>3
    <3>2. r[j - 1] = s[From(j)]
      BY <1>1, <2>3, <3>1
    <3>. QED
      BY <1>1, <1>2, <2>3, <3>1, <3>2
  <2>. QED
    BY <2>2, <2>3
<1>4. \A j, k \in 1..Len(s) : From(j) = From(k) => j = k
  <2>1. SUFFICES ASSUME NEW j \in 1..Len(s), NEW k \in 1..Len(s), From(j) = From(k)
                 PROVE  j = k
    OBVIOUS
  <2>2. i \in Int /\ j \in Int /\ k \in Int
    BY <1>1
  <2>3. CASE j = 1
    BY <2>1, <2>2, <2>3
  <2>4. CASE k = 1
    BY <2>1, <2>2, <2>4
  <2>5. CASE j # 1 /\ k # 1
    BY <2>1, <2>2, <2>5
  <2>. QED
    BY <2>3, <2>4, <2>5
<1>. HIDE DEF From
<1>5. KeysOnce(l)
  <2>1. SUFFICES ASSUME NEW j \in 1..Len(s), NEW k \in 1..Len(s), l[j].key = l[k].key
                 PROVE  j = k
    BY <1>2 DEF KeysOnce
  <2>2. /\ From(j) \in DOMAIN s /\ From(k) \in DOMAIN s
        /\ s[From(j)].key = s[From(k)].key
    BY <1>1, <1>3, <2>1
  <2>3. From(j) = From(k)
    BY <2>2 DEF KeysOnce
  <2>. QED
    BY <1>4, <2>3
<1>6. TotalOf(l) = TotalOf(s)
  BY <1>1, TotalType DEF TotalFits, l, r
<1>7. ASSUME NEW P
      PROVE  CountOf(l, P) = CountOf(s, P)
  <2>1. CountOf(r, P) = IF s[i] \in P THEN CountOf(s, P) - 1 ELSE CountOf(s, P)
    BY <1>1, CountRemoveAt DEF r
  <2>2. CountOf(l, P) = IF s[i] \in P THEN CountOf(r, P) + 1 ELSE CountOf(r, P)
    BY <1>1, CountCons DEF l
  <2>3. CountOf(s, P) \in Nat
    BY CountType
  <2>. QED
    BY <2>1, <2>2, <2>3
<1>. QED
  BY <1>1, <1>2, <1>3, <1>5, <1>6, <1>7 DEF l, r

LEMMA TakeGood ==
  ASSUME NEW c, NEW H, NEW T, CacheGood(c, H, T), NEW i \in DOMAIN c.lru,
         NEW t \in Threads, H[t] = Empty, ShowsIn(c, c.lru[i].key) \in Shown
  PROVE  /\ CacheGood(Take(c, i),
                       Given(H, t, c.lru[i].val, ShowsIn(c, c.lru[i].key)), T)
         /\ Take(c, i).total = c.total /\ Take(c, i).lru # <<>>
<1>. DEFINE e == c.lru[i]
            l == <<e>> \o RemoveAt(c.lru, i)
            g == Keep(c.glyphs, e.val)
            H2 == Given(H, t, e.val, ShowsIn(c, e.key))
<1>1. /\ c \in Caches /\ c.lru \in Seq(Entry) /\ KeysOnce(c.lru)
      /\ c.glyphs \in [Glyphs -> GlyphState] /\ H \in Hands
  BY CountsType DEF CacheGood
<1>2. e \in Entry /\ e.val \in Glyphs /\ c.glyphs[e.val].refs > 0
  BY EntryFacts
<1>3. /\ l \in Seq(Entry) /\ KeysOnce(l) /\ TotalOf(l) = TotalOf(c.lru)
      /\ \A P : CountOf(l, P) = CountOf(c.lru, P)
      /\ \A j \in DOMAIN l : \E m \in DOMAIN c.lru : l[j] = c.lru[m]
  BY <1>1, ToFront
<1>4. /\ g \in [Glyphs -> GlyphState]
      /\ \A x \in Glyphs :
           /\ g[x].refs = IF x = e.val THEN c.glyphs[x].refs + 1 ELSE c.glyphs[x].refs
           /\ g[x].shows = c.glyphs[x].shows
  BY <1>1, <1>2, KeepGlyphOK
<1>5. /\ H2 \in Hands /\ H2[t] = [glyph |-> e.val, asked |-> ShowsIn(c, e.key)]
      /\ \A u \in Threads : u # t => H2[u] = H[u]
      /\ \A x \in Glyphs :
           Cardinality(HandsWith(H2, x))
             = IF x = e.val THEN Cardinality(HandsWith(H, x)) + 1
               ELSE Cardinality(HandsWith(H, x))
  BY <1>1, <1>2, GivenHands
<1>6. Take(c, i) = Pack(l, c.total, c.fonts, g)
  <2>1. PICK ll \in Seq(Entry), n \in Nat, f \in [Fonts -> FontState],
             gg \in [Glyphs -> GlyphState] : c = Pack(ll, n, f, gg)
    BY <1>1 DEF Pack, Caches
  <2>2. c.lru = ll /\ c.total = n /\ c.fonts = f /\ c.glyphs = gg
    BY <2>1 DEF Pack
  <2>3. Take(c, i) = [c EXCEPT !.lru = <<ll[i]>> \o RemoveAt(ll, i),
                               !.glyphs = Keep(gg, ll[i].val)]
    BY <2>1, <2>2 DEF Take
  <2>. QED
    BY <2>1, <2>2, <2>3 DEF Pack
<1>7. Pack(l, c.total, c.fonts, g).total = c.total /\ Pack(l, c.total, c.fonts, g).lru = l
  BY DEF Pack
<1>8. l # <<>>
  <2>1. RemoveAt(c.lru, i) \in Seq(Entry)
    BY <1>1, RemoveAtElements
  <2>. QED
    BY <1>2, <2>1
<1>. HIDE DEF e, l, g, H2
<1>9. \A x \in Glyphs : g[x].refs = CountOf(c.lru, WithVal(x))
                                   + Cardinality(HandsWith(H2, x))
  <2>1. SUFFICES ASSUME NEW x \in Glyphs
                 PROVE  g[x].refs = CountOf(c.lru, WithVal(x))
                                    + Cardinality(HandsWith(H2, x))
    OBVIOUS
  <2>2. /\ CountOf(c.lru, WithVal(x)) \in Nat /\ Cardinality(HandsWith(H, x)) \in Nat
    BY CountsType
  <2>3. c.glyphs[x].refs = CountOf(c.lru, WithVal(x)) + Cardinality(HandsWith(H, x))
    BY DEF CacheGood, GlyphsCounted
  <2>. QED
    BY <1>4, <1>5, <2>2, <2>3
<1>10. \A j \in DOMAIN c.lru : g[c.lru[j].val].shows = c.glyphs[c.lru[j].val].shows
  BY <1>4, EntryFacts
<1>11. \A u \in Threads : H2[u] # Empty => g[H2[u].glyph].shows = H2[u].asked
  <2>1. c.glyphs[e.val].shows = ShowsIn(c, e.key)
    BY DEF CacheGood, EntriesShow, e
  <2>2. \A u \in Threads : H[u] # Empty =>
          H[u].glyph \in Glyphs /\ c.glyphs[H[u].glyph].shows = H[u].asked
    BY HandFacts DEF CacheGood, HandsShow
  <2>. QED
    BY <1>2, <1>4, <1>5, <2>1, <2>2
<1>12. CacheGood(Pack(l, c.total, c.fonts, g), H2, T)
  BY <1>3, <1>4, <1>5, <1>9, <1>10, <1>11, GlyphsChange
<1>. QED
  BY <1>6, <1>7, <1>8, <1>12 DEF e, H2

\* A glyph that nobody has is rendered for thread t.
LEMMA RenderedGood ==
  ASSUME NEW c, NEW H, NEW T, CacheGood(c, H, T), NEW t \in Threads, H[t] = Empty,
         NEW g \in Glyphs, c.glyphs[g].refs = 0, NEW k \in Keys, Shows(k) \in Shown
  PROVE  /\ CacheGood(Rendered(c, k, g), Given(H, t, g, Shows(k)), T)
         /\ Rendered(c, k, g).lru = c.lru /\ Rendered(c, k, g).total = c.total
         /\ Rendered(c, k, g).fonts = c.fonts
         /\ Rendered(c, k, g).glyphs[g].refs = 1
         /\ Rendered(c, k, g).glyphs[g].shows = Shows(k)
<1>. DEFINE new == [refs |-> 1, shows |-> Shows(k)]
            gg == [c.glyphs EXCEPT ![g] = new]
            H2 == Given(H, t, g, Shows(k))
<1>1. /\ c \in Caches /\ c.lru \in Seq(Entry) /\ H \in Hands
      /\ c.glyphs \in [Glyphs -> GlyphState] /\ KeysOnce(c.lru)
  BY CountsType DEF CacheGood
<1>2. /\ CountOf(c.lru, WithVal(g)) = 0 /\ HandsWith(H, g) = {}
      /\ \A i \in DOMAIN c.lru : c.lru[i].val # g
      /\ \A u \in Threads : H[u].glyph # g
  BY UnusedGlyph
<1>3. /\ H2 \in Hands /\ H2[t] = [glyph |-> g, asked |-> Shows(k)]
      /\ \A u \in Threads : u # t => H2[u] = H[u]
      /\ \A x \in Glyphs :
           Cardinality(HandsWith(H2, x))
             = IF x = g THEN Cardinality(HandsWith(H, x)) + 1
               ELSE Cardinality(HandsWith(H, x))
  BY <1>1, GivenHands
<1>4. new \in GlyphState /\ new.refs = 1 /\ new.shows = Shows(k)
  BY DEF GlyphState
<1>5. /\ gg \in [Glyphs -> GlyphState] /\ gg[g] = new
      /\ \A x \in Glyphs : x # g => gg[x] = c.glyphs[x]
  BY <1>1, <1>4
<1>6. Rendered(c, k, g) = Pack(c.lru, c.total, c.fonts, gg)
  <2>1. PICK ll \in Seq(Entry), n \in Nat, f \in [Fonts -> FontState],
             o \in [Glyphs -> GlyphState] : c = Pack(ll, n, f, o)
    BY <1>1 DEF Pack, Caches
  <2>2. c.lru = ll /\ c.total = n /\ c.fonts = f /\ c.glyphs = o
    BY <2>1 DEF Pack
  <2>3. Rendered(c, k, g) = [c EXCEPT !.glyphs = [o EXCEPT ![g] = new]]
    BY <2>1, <2>2 DEF Rendered
  <2>. QED
    BY <2>1, <2>2, <2>3 DEF Pack
<1>7. /\ Pack(c.lru, c.total, c.fonts, gg).lru = c.lru
      /\ Pack(c.lru, c.total, c.fonts, gg).total = c.total
      /\ Pack(c.lru, c.total, c.fonts, gg).fonts = c.fonts
      /\ Pack(c.lru, c.total, c.fonts, gg).glyphs = gg
  BY DEF Pack
<1>. HIDE DEF new, gg, H2
<1>8. \A x \in Glyphs : gg[x].refs = CountOf(c.lru, WithVal(x))
                                    + Cardinality(HandsWith(H2, x))
  <2>1. SUFFICES ASSUME NEW x \in Glyphs
                 PROVE  gg[x].refs = CountOf(c.lru, WithVal(x))
                                     + Cardinality(HandsWith(H2, x))
    OBVIOUS
  <2>2. CASE x = g
    <3>1. gg[x].refs = 1 /\ CountOf(c.lru, WithVal(x)) = 0
      BY <1>2, <1>4, <1>5, <2>2
    <3>2. Cardinality(HandsWith(H, x)) = 0
      BY <1>2, <2>2, FS_EmptySet
    <3>3. Cardinality(HandsWith(H2, x)) = Cardinality(HandsWith(H, x)) + 1
      BY <1>3, <2>2
    <3>. QED
      BY <3>1, <3>2, <3>3
  <2>3. CASE x # g
    BY <1>3, <1>5, <2>3 DEF CacheGood, GlyphsCounted
  <2>. QED
    BY <2>2, <2>3
<1>9. \A i \in DOMAIN c.lru : gg[c.lru[i].val].shows = c.glyphs[c.lru[i].val].shows
  BY <1>2, <1>5, EntryFacts
<1>10. \A u \in Threads : H2[u] # Empty => gg[H2[u].glyph].shows = H2[u].asked
  <2>1. \A u \in Threads : H[u] # Empty =>
          H[u].glyph \in Glyphs /\ c.glyphs[H[u].glyph].shows = H[u].asked
    BY HandFacts DEF CacheGood, HandsShow
  <2>. QED
    BY <1>2, <1>3, <1>4, <1>5, <2>1
<1>11. CacheGood(Pack(c.lru, c.total, c.fonts, gg), H2, T)
  BY <1>1, <1>3, <1>5, <1>8, <1>9, <1>10, GlyphsChange
<1>. QED
  BY <1>4, <1>5, <1>6, <1>7, <1>11 DEF H2

\* A new entry, before anything is evicted for it.
Pushed(c, k, g) ==
  [c EXCEPT !.lru = <<[key |-> k, val |-> g]>> \o @, !.total = @ + Size[k],
            !.glyphs = Keep(@, g), !.fonts = Keep(@, k.font)]

LEMMA PushedGood ==
  ASSUME NEW c, NEW H, NEW T, CacheGood(c, H, T),
         NEW k \in Keys, \A i \in DOMAIN c.lru : c.lru[i].key # k,
         NEW g \in Glyphs, c.glyphs[g].refs > 0, c.glyphs[g].shows = ShowsIn(c, k),
         c.fonts[k.font].refs > 0
  PROVE  CacheGood(Pushed(c, k, g), H, T)
<1>. DEFINE e == [key |-> k, val |-> g]
            l == <<e>> \o c.lru
            n == c.total + Size[k]
            f == Keep(c.fonts, k.font)
            gg == Keep(c.glyphs, g)
            d == Pack(l, n, f, gg)
<1>1. /\ c \in Caches /\ c.lru \in Seq(Entry) /\ c.total \in Nat
      /\ c.fonts \in [Fonts -> FontState] /\ c.glyphs \in [Glyphs -> GlyphState]
      /\ DOMAIN c.lru = 1..Len(c.lru) /\ Len(c.lru) \in Nat
  BY CountsType
<1>2. e \in Entry /\ e.key = k /\ e.val = g /\ k.font \in Fonts /\ Size[k] \in Nat
  BY GlyphCacheAssumption DEF Entry
<1>3. Pushed(c, k, g) = d
  <2>1. PICK ll \in Seq(Entry), m \in Nat, ff \in [Fonts -> FontState],
             o \in [Glyphs -> GlyphState] : c = Pack(ll, m, ff, o)
    BY <1>1 DEF Pack, Caches
  <2>2. c.lru = ll /\ c.total = m /\ c.fonts = ff /\ c.glyphs = o
    BY <2>1 DEF Pack
  <2>3. Pushed(c, k, g) = [c EXCEPT !.lru = <<e>> \o ll, !.total = m + Size[k],
                                    !.glyphs = Keep(o, g), !.fonts = Keep(ff, k.font)]
    BY <2>1, <2>2 DEF Pushed
  <2>. QED
    BY <2>1, <2>2, <2>3 DEF Pack
<1>4. /\ l \in Seq(Entry) /\ DOMAIN l = 1..(Len(c.lru) + 1) /\ l[1] = e
      /\ \A j \in 2..(Len(c.lru) + 1) : l[j] = c.lru[j - 1] /\ j - 1 \in DOMAIN c.lru
  BY <1>1, <1>2
<1>5. n \in Nat /\ n = TotalOf(l)
  <2>1. TotalOf(l) = TotalOf(c.lru) + Size[e.key]
    BY <1>1, <1>2, TotalType DEF TotalFits
  <2>2. c.total = TotalOf(c.lru)
    BY DEF CacheGood
  <2>. QED
    BY <1>1, <1>2, <2>1, <2>2
<1>6. /\ f \in [Fonts -> FontState]
      /\ \A x \in Fonts :
           /\ f[x].refs = IF x = k.font THEN c.fonts[x].refs + 1 ELSE c.fonts[x].refs
           /\ f[x].gen = c.fonts[x].gen
  BY <1>1, <1>2, KeepFontOK
<1>7. /\ gg \in [Glyphs -> GlyphState]
      /\ \A x \in Glyphs :
           /\ gg[x].refs = IF x = g THEN c.glyphs[x].refs + 1 ELSE c.glyphs[x].refs
           /\ gg[x].shows = c.glyphs[x].shows
  BY <1>1, KeepGlyphOK
<1>8. /\ \A x \in Glyphs : CountOf(l, WithVal(x))
           = IF x = g THEN CountOf(c.lru, WithVal(x)) + 1 ELSE CountOf(c.lru, WithVal(x))
      /\ \A x \in Fonts : CountOf(l, WithFont(x))
           = IF x = k.font THEN CountOf(c.lru, WithFont(x)) + 1
             ELSE CountOf(c.lru, WithFont(x))
  <2>1. /\ \A x : e \in WithVal(x) <=> x = g
        /\ \A x : e \in WithFont(x) <=> x = k.font
    BY <1>2 DEF WithVal, WithFont
  <2>2. \A P : CountOf(l, P) = IF e \in P THEN CountOf(c.lru, P) + 1
                              ELSE CountOf(c.lru, P)
    BY <1>1, <1>2, CountCons
  <2>. HIDE DEF e, l
  <2>. QED
    BY <2>1, <2>2
<1>9. /\ d \in Caches /\ d.lru = l /\ d.total = n /\ d.fonts = f /\ d.glyphs = gg
  <2>. HIDE DEF e, l, n, f, gg
  <2>. QED
    BY <1>4, <1>5, <1>6, <1>7, PackOK
<1>. HIDE DEF e, l, n, f, gg, d
<1>10. \A j \in DOMAIN l : j = 1 \/ (j - 1 \in DOMAIN c.lru /\ l[j] = c.lru[j - 1])
  BY <1>1, <1>4
<1>11. KeysOnce(l)
  <2>1. SUFFICES ASSUME NEW i \in DOMAIN l, NEW j \in DOMAIN l, l[i].key = l[j].key
                 PROVE  i = j
    BY DEF KeysOnce
  <2>2. CASE i = 1 \/ j = 1
    BY <1>2, <1>4, <1>10, <2>1, <2>2
  <2>3. CASE i # 1 /\ j # 1
    <3>1. /\ i - 1 \in DOMAIN c.lru /\ j - 1 \in DOMAIN c.lru
          /\ c.lru[i - 1].key = c.lru[j - 1].key
      BY <1>10, <2>1, <2>3
    <3>2. i - 1 = j - 1
      BY <3>1 DEF CacheGood, KeysOnce
    <3>. QED
      BY <1>4, <3>2
  <2>. QED
    BY <2>2, <2>3
<1>12. GlyphsCounted(d, H)
  <2>1. SUFFICES ASSUME NEW x \in Glyphs
                 PROVE  gg[x].refs = CountOf(l, WithVal(x)) + Cardinality(HandsWith(H, x))
    BY <1>9 DEF GlyphsCounted
  <2>2. /\ CountOf(c.lru, WithVal(x)) \in Nat /\ Cardinality(HandsWith(H, x)) \in Nat
    BY CountsType
  <2>3. c.glyphs[x].refs = CountOf(c.lru, WithVal(x)) + Cardinality(HandsWith(H, x))
    BY DEF CacheGood, GlyphsCounted
  <2>. QED
    BY <1>7, <1>8, <2>2, <2>3
<1>13. FontsCounted(d, T)
  <2>1. SUFFICES ASSUME NEW x \in Fonts
                 PROVE  f[x].refs = CountOf(l, WithFont(x)) + Cardinality(TextsWith(T, x))
    BY <1>9 DEF FontsCounted
  <2>2. /\ CountOf(c.lru, WithFont(x)) \in Nat /\ Cardinality(TextsWith(T, x)) \in Nat
    BY CountsType
  <2>3. c.fonts[x].refs = CountOf(c.lru, WithFont(x)) + Cardinality(TextsWith(T, x))
    BY DEF CacheGood, FontsCounted
  <2>. QED
    BY <1>6, <1>8, <2>2, <2>3
<1>14. FontsLoaded(d)
  <2>1. SUFFICES ASSUME NEW x \in Fonts, f[x].gen = 0
                 PROVE  f[x].refs = 0
    BY <1>9 DEF FontsLoaded
  <2>2. c.fonts[x].refs = 0
    BY <1>6, <2>1 DEF CacheGood, FontsLoaded
  <2>. QED
    BY <1>6, <2>2
<1>15. EntriesShow(d)
  <2>1. SUFFICES ASSUME NEW j \in DOMAIN l
                 PROVE  gg[l[j].val].shows = ShowsIn(d, l[j].key)
    BY <1>9 DEF EntriesShow
  <2>2. CASE j = 1
    BY <1>2, <1>4, <1>6, <1>7, <1>9, <2>2 DEF ShowsIn
  <2>3. CASE j # 1
    <3>1. j - 1 \in DOMAIN c.lru /\ l[j] = c.lru[j - 1]
      BY <1>10, <2>3
    <3>2. /\ l[j].val \in Glyphs /\ l[j].key.font \in Fonts
          /\ c.glyphs[l[j].val].shows = ShowsIn(c, l[j].key)
      BY <3>1, EntryFacts DEF CacheGood, EntriesShow
    <3>. QED
      BY <1>6, <1>7, <1>9, <3>2 DEF ShowsIn
  <2>. QED
    BY <2>2, <2>3
<1>16. HandsShow(d, H)
  <2>1. \A u \in Threads : H[u] # Empty =>
          H[u].glyph \in Glyphs /\ c.glyphs[H[u].glyph].shows = H[u].asked
    BY HandFacts DEF CacheGood, HandsShow
  <2>. QED
    BY <1>7, <1>9, <2>1 DEF HandsShow
<1>17. CacheGood(d, H, T)
  BY <1>5, <1>9, <1>11, <1>12, <1>13, <1>14, <1>15, <1>16 DEF CacheGood
<1>. QED
  BY <1>3, <1>17

-----------------------------------------------------------------------------
(* Evicting and purging.                                                   *)

EvictStep(e, d) == IF d.total > MaxCacheSize THEN DropEntry(d, Len(d.lru)) ELSE d
PurgeStep(e, d) == DropEntry(d, 1)
Evicting == INSTANCE ListLemmas WITH Op <- EvictStep, Pick <- Max
Purging == INSTANCE ListLemmas WITH Op <- PurgeStep, Pick <- Max

LEMMA EvictedGood ==
  ASSUME NEW c, NEW H, NEW T, CacheGood(c, H, T)
  PROVE  CacheGood(Evicted(c), H, T) /\ Evicted(c).total <= MaxCacheSize
<1>. DEFINE Good == {d \in Caches : CacheGood(d, H, T)}
            R == [m \in Nat |-> {d \in Good : d.total <= MaxCacheSize
                                             \/ Len(d.lru) = Len(c.lru) - m}]
<1>1. c \in Caches /\ c.lru \in Seq(Entry) /\ Len(c.lru) \in Nat
  BY CountsType
<1>2. Evicted(c) = Evicting!FoldSequence(c, c.lru)
  BY DEF Evicted, FoldLeft, Evicting!FoldSequence, EvictStep, Max, MapThenFoldSet,
         Evicting!MapThenFoldSet, Evicting!Max
<1>3. c \in R[0]
  BY <1>1
<1>4. ASSUME NEW m \in 1..Len(c.lru), NEW d \in R[m - 1]
      PROVE  EvictStep(c.lru[m], d) \in R[m]
  <2>1. m \in Nat /\ m - 1 \in Nat
    BY <1>1
  <2>2. /\ d \in Caches /\ CacheGood(d, H, T)
        /\ d.total <= MaxCacheSize \/ Len(d.lru) = Len(c.lru) - (m - 1)
    BY <2>1
  <2>3. CASE d.total > MaxCacheSize
    <3>1. d.lru \in Seq(Entry) /\ d.total \in Nat /\ MaxCacheSize \in Nat
      BY <2>2, CountsType, GlyphCacheAssumption
    <3>2. Len(d.lru) \in DOMAIN d.lru
      BY <1>1, <2>1, <2>2, <2>3, <3>1
    <3>3. /\ CacheGood(DropEntry(d, Len(d.lru)), H, T)
          /\ Len(DropEntry(d, Len(d.lru)).lru) = Len(d.lru) - 1
      BY <2>2, <3>2, DropEntryGood
    <3>4. DropEntry(d, Len(d.lru)) \in Caches
      BY <3>3 DEF CacheGood
    <3>5. Len(d.lru) - 1 = Len(c.lru) - m
      BY <1>1, <2>1, <2>2, <2>3, <3>1
    <3>6. EvictStep(c.lru[m], d) = DropEntry(d, Len(d.lru))
      BY <2>3 DEF EvictStep
    <3>. QED
      BY <2>1, <3>3, <3>4, <3>5, <3>6
  <2>4. CASE ~(d.total > MaxCacheSize)
    <3>1. d.total \in Nat /\ MaxCacheSize \in Nat
      BY <2>2, CountsType, GlyphCacheAssumption
    <3>2. EvictStep(c.lru[m], d) = d /\ d.total <= MaxCacheSize
      BY <2>4, <3>1 DEF EvictStep
    <3>. QED
      BY <2>1, <2>2, <3>2
  <2>. QED
    BY <2>3, <2>4
<1>. HIDE DEF R
<1>5. Evicting!PicksLast
  BY MaxIsLast DEF Evicting!PicksLast
<1>6. Evicting!FoldSequence(c, c.lru) \in R[Len(c.lru)]
  BY <1>1, <1>3, <1>4, <1>5, Evicting!FoldSequenceKeeps
<1>7. /\ CacheGood(Evicted(c), H, T)
      /\ Evicted(c).total <= MaxCacheSize \/ Len(Evicted(c).lru) = 0
  BY <1>1, <1>2, <1>6 DEF R
<1>8. CASE Len(Evicted(c).lru) = 0
  <2>1. Evicted(c).lru = <<>>
    BY <1>7, <1>8, CountsType, EmptySeq
  <2>2. Evicted(c).total = 0
    BY <1>7, <2>1, TotalOfNone DEF CacheGood
  <2>. QED
    BY <1>7, <2>2, GlyphCacheAssumption
<1>. QED
  BY <1>7, <1>8

LEMMA PurgedGood ==
  ASSUME NEW c, NEW H, NEW T, CacheGood(c, H, T)
  PROVE  CacheGood(Purged(c), H, T) /\ Purged(c).lru = <<>> /\ Purged(c).total = 0
<1>. DEFINE Good == {d \in Caches : CacheGood(d, H, T)}
            R == [m \in Nat |-> {d \in Good : Len(d.lru) = Len(c.lru) - m}]
            p == FoldLeft(LAMBDA d, e : DropEntry(d, 1), c, c.lru)
<1>1. c \in Caches /\ c.lru \in Seq(Entry) /\ Len(c.lru) \in Nat
  BY CountsType
<1>2. p = Purging!FoldSequence(c, c.lru)
  BY DEF FoldLeft, Purging!FoldSequence, PurgeStep, Max, MapThenFoldSet,
         Purging!MapThenFoldSet, Purging!Max
<1>3. c \in R[0]
  BY <1>1
<1>4. ASSUME NEW m \in 1..Len(c.lru), NEW d \in R[m - 1]
      PROVE  PurgeStep(c.lru[m], d) \in R[m]
  <2>1. m \in Nat /\ m - 1 \in Nat /\ m <= Len(c.lru)
    BY <1>1
  <2>2. /\ d \in Caches /\ CacheGood(d, H, T) /\ Len(d.lru) = Len(c.lru) - (m - 1)
    BY <2>1
  <2>3. d.lru \in Seq(Entry)
    BY <2>2, CountsType
  <2>4. 1 \in DOMAIN d.lru
    BY <1>1, <2>1, <2>2, <2>3
  <2>5. /\ CacheGood(DropEntry(d, 1), H, T)
        /\ Len(DropEntry(d, 1).lru) = Len(d.lru) - 1
    BY <2>2, <2>4, DropEntryGood
  <2>6. DropEntry(d, 1) \in Caches
    BY <2>5 DEF CacheGood
  <2>7. Len(d.lru) - 1 = Len(c.lru) - m
    BY <1>1, <2>1, <2>2
  <2>. QED
    BY <2>1, <2>5, <2>6, <2>7 DEF PurgeStep
<1>. HIDE DEF R, p
<1>5. Purging!PicksLast
  BY MaxIsLast DEF Purging!PicksLast
<1>6. Purging!FoldSequence(c, c.lru) \in R[Len(c.lru)]
  BY <1>1, <1>3, <1>4, <1>5, Purging!FoldSequenceKeeps
<1>7. CacheGood(p, H, T) /\ Len(p.lru) = 0
  BY <1>1, <1>2, <1>6 DEF R
<1>8. p.lru = <<>> /\ p \in Caches
  BY <1>7, CountsType, EmptySeq
<1>9. p.total = 0
  BY <1>7, <1>8, TotalOfNone DEF CacheGood
<1>10. [p EXCEPT !.total = 0] = p
  <2>1. PICK ll \in Seq(Entry), m \in Nat, ff \in [Fonts -> FontState],
             o \in [Glyphs -> GlyphState] : p = Pack(ll, m, ff, o)
    BY <1>8 DEF Pack, Caches
  <2>. QED
    BY <1>9, <2>1 DEF Pack
<1>11. Purged(c) = p
  BY <1>10 DEF Purged, p
<1>. QED
  BY <1>7, <1>8, <1>9, <1>11

-----------------------------------------------------------------------------
(* From the record of the protected state to the variables.                *)

LEMMA CacheIs ==
  /\ Cache = Pack(lru, total, fonts, glyphs)
  /\ Cache.lru = lru /\ Cache.total = total
  /\ Cache.fonts = fonts /\ Cache.glyphs = glyphs
  /\ \A k : ShowsIn(Cache, k) = Shows(k)
BY DEF Cache, Pack, ShowsIn, Shows

LEMMA BecomeIs ==
  ASSUME NEW d \in Caches, Become(d)
  PROVE  Cache' = d /\ lru' = d.lru /\ total' = d.total
<1>1. PICK ll \in Seq(Entry), m \in Nat, ff \in [Fonts -> FontState],
           o \in [Glyphs -> GlyphState] : d = Pack(ll, m, ff, o)
  BY DEF Pack, Caches
<1>2. lru' = ll /\ total' = m /\ fonts' = ff /\ glyphs' = o
  BY <1>1 DEF Become, Pack
<1>. QED
  BY <1>1, <1>2 DEF Cache, Pack

\* What remains of the invariant when the protected state is in order.
LEMMA Assemble ==
  ASSUME CacheGood(Cache, hand, texts)', total' <= MaxCacheSize,
         users' \subseteq Threads, texts' \subseteq users' \X Fonts,
         drawing' \in [Threads -> Seq(Keys)],
         \A t \in Threads : \A i \in DOMAIN drawing'[t] :
           <<t, drawing'[t][i].font>> \in texts',
         \A t \in Threads : hand'[t] # Empty => t \in users',
         users' = {} => lru' = <<>>
  PROVE  IInv'
<1>1. /\ Cache' \in Caches /\ hand' \in Hands
      /\ Cache' = Pack(lru', total', fonts', glyphs')
  BY DEF CacheGood, Cache, Pack
<1>2. /\ lru' \in Seq(Entry) /\ total' \in Nat
      /\ fonts' \in [Fonts -> FontState] /\ glyphs' \in [Glyphs -> GlyphState]
  BY <1>1 DEF Caches, Pack
<1>3. total' \in 0..MaxCacheSize
  BY <1>2, GlyphCacheAssumption
<1>4. TypeOK'
  BY <1>1, <1>2, <1>3 DEF TypeOK, FontState, GlyphState, Entry, Hands, Held
<1>. QED
  BY <1>4 DEF IInv

LEMMA Typing ==
  ASSUME IInv
  PROVE  /\ CacheGood(Cache, hand, texts)
         /\ lru \in Seq(Entry) /\ total \in Nat /\ total <= MaxCacheSize
         /\ fonts \in [Fonts -> FontState] /\ glyphs \in [Glyphs -> GlyphState]
         /\ users \subseteq Threads /\ texts \subseteq users \X Fonts /\ hand \in Hands
         /\ drawing \in [Threads -> Seq(Keys)]
         /\ \A t \in Threads : \A i \in DOMAIN drawing[t] :
              <<t, drawing[t][i].font>> \in texts
         /\ \A t \in Threads : hand[t] # Empty => t \in users
         /\ users = {} => lru = <<>>
<1>1. TypeOK /\ CacheGood(Cache, hand, texts) /\ (users = {} => lru = <<>>)
  BY DEF IInv
<1>2. total \in Nat /\ total <= MaxCacheSize
  BY <1>1, GlyphCacheAssumption DEF TypeOK
<1>. QED
  BY <1>1, <1>2 DEF TypeOK, FontState, GlyphState, Entry, Hands, Held

\* A thread that may ask for a glyph keeps its font alive.
LEMMA AskFacts ==
  ASSUME IInv, NEW t \in Threads, NEW f \in Fonts, <<t, f>> \in texts
  PROVE  /\ fonts[f].refs > 0 /\ t \in users /\ fonts[f].gen \in 1..MaxGen
         /\ \A k \in Keys : k.font = f => Shows(k) \in Shown
<1>1. CacheGood(Cache, hand, texts) /\ fonts \in [Fonts -> FontState] /\ t \in users
  BY Typing
<1>2. t \in TextsWith(texts, f) /\ IsFiniteSet(TextsWith(texts, f))
  BY GlyphCacheAssumption, FS_Subset DEF TextsWith
<1>3. Cardinality(TextsWith(texts, f)) \in Nat /\ Cardinality(TextsWith(texts, f)) # 0
  BY <1>2, FS_EmptySet, FS_CardinalityType
<1>4. /\ fonts[f].refs = CountOf(lru, WithFont(f)) + Cardinality(TextsWith(texts, f))
      /\ fonts[f].gen = 0 => fonts[f].refs = 0
  BY <1>1, CacheIs DEF CacheGood, FontsCounted, FontsLoaded
<1>5. CountOf(lru, WithFont(f)) \in Nat
  BY <1>1, CacheIs, CountsType
<1>6. fonts[f].refs > 0 /\ fonts[f].gen \in 0..MaxGen /\ MaxGen \in Nat
  BY <1>1, <1>3, <1>4, <1>5, GlyphCacheAssumption DEF FontState
<1>7. fonts[f].gen \in 1..MaxGen
  BY <1>4, <1>6
<1>. QED
  BY <1>1, <1>6, <1>7 DEF Shows, Shown

\* Thread t gets a glyph, under the lock, and the cache becomes d.
LEMMA Served ==
  ASSUME IInv, NEW t \in Threads, t \in users, NEW h,
         NEW d, CacheGood(d, h, texts), d.total <= MaxCacheSize, Become(d), hand' = h,
         \A u \in Threads : u # t => h[u] = hand[u],
         UNCHANGED <<users, texts>>,
         drawing' \in [Threads -> Seq(Keys)],
         \A u \in Threads : \A i \in DOMAIN drawing'[u] :
           <<u, drawing'[u][i].font>> \in texts
  PROVE  IInv'
<1>1. d \in Caches
  BY DEF CacheGood
<1>2. Cache' = d /\ total' = d.total
  BY <1>1, BecomeIs
<1>3. CacheGood(Cache, hand, texts)'
  BY <1>2
<1>. QED
  BY <1>2, <1>3, Typing, Assemble

LEMMA FindInv ==
  ASSUME IInv, NEW t \in Threads, NEW k \in Keys, Find(t, k)
  PROVE  IInv'
<1>1. PICK i \in At(Cache, k) :
        Become(Take(Cache, i)) /\ Give(t, k, lru[i].val)
  BY DEF Find
<1>2. /\ i \in DOMAIN Cache.lru /\ lru[i].key = k /\ hand[t] = Empty
      /\ Cache.lru[i] = lru[i] /\ <<t, k.font>> \in texts
      /\ UNCHANGED <<users, texts, drawing>>
  BY <1>1, CacheIs DEF At, Find, MayAsk
<1>3. k.font \in Fonts
  BY GlyphCacheAssumption
<1>4. ShowsIn(Cache, k) = Shows(k) /\ Shows(k) \in Shown /\ t \in users
  BY <1>2, <1>3, AskFacts, CacheIs
<1>5. CacheGood(Cache, hand, texts)
  BY Typing
<1>. DEFINE h == Given(hand, t, lru[i].val, Shows(k))
<1>6. CacheGood(Take(Cache, i), h, texts) /\ Take(Cache, i).total = Cache.total
  BY <1>2, <1>4, <1>5, TakeGood
<1>7. hand' = h
  BY <1>1 DEF Give, Given
<1>8. \A u \in Threads : u # t => h[u] = hand[u]
  BY Typing DEF Given, Hands
<1>9. Take(Cache, i).total <= MaxCacheSize
  BY <1>6, CacheIs, Typing
<1>. HIDE DEF h
<1>. QED
  BY <1>1, <1>2, <1>4, <1>6, <1>7, <1>8, <1>9, Typing, Served

\* However the rendering of a new glyph ends.
LEMMA StoreGood ==
  ASSUME IInv, NEW t \in Threads, hand[t] = Empty, NEW k \in Keys,
         <<t, k.font>> \in texts, k.scale = "small" => At(Cache, k) = {},
         NEW g \in Glyphs, glyphs[g].refs = 0, NEW r \in Store(Cache, k, g)
  PROVE  /\ CacheGood(r[1], Given(hand, t, r[2], Shows(k)), texts)
         /\ r[1].total <= MaxCacheSize /\ r[2] = g
<1>. DEFINE c == Rendered(Cache, k, g)
            h == Given(hand, t, g, Shows(k))
<1>1. CacheGood(Cache, hand, texts) /\ total <= MaxCacheSize
  BY Typing
<1>2. k.font \in Fonts
  BY GlyphCacheAssumption
<1>3. Shows(k) \in Shown /\ fonts[k.font].refs > 0
  BY <1>2, AskFacts
<1>4. /\ CacheGood(c, h, texts) /\ c.lru = lru /\ c.total = total /\ c.fonts = fonts
      /\ c.glyphs[g].refs = 1 /\ c.glyphs[g].shows = Shows(k)
  BY <1>1, <1>3, CacheIs, RenderedGood
<1>. HIDE DEF c, h
<1>5. CASE r = <<c, g>>
  BY <1>1, <1>4, <1>5 DEF h
<1>6. CASE k.scale = "small" /\ r = <<Insert(c, k, g), g>>
  <2>1. \A i \in DOMAIN c.lru : c.lru[i].key # k
    BY <1>4, <1>6, CacheIs DEF At
  <2>2. ShowsIn(c, k) = Shows(k)
    BY <1>4 DEF ShowsIn, Shows
  <2>3. CacheGood(Pushed(c, k, g), h, texts)
    BY <1>3, <1>4, <2>1, <2>2, PushedGood
  <2>4. Insert(c, k, g) = Evicted(Pushed(c, k, g))
    BY DEF Insert, Pushed
  <2>5. CacheGood(Insert(c, k, g), h, texts) /\ Insert(c, k, g).total <= MaxCacheSize
    BY <2>3, <2>4, EvictedGood
  <2>. QED
    BY <1>6, <2>5 DEF h
<1>. QED
  BY <1>5, <1>6 DEF Store, c

LEMMA RenderOutlineInv ==
  ASSUME IInv, NEW t \in Threads, NEW k \in Keys, RenderOutline(t, k)
  PROVE  IInv'
<1>1. PICK g \in Glyphs : /\ glyphs[g].refs = 0
                          /\ \E r \in Store(Cache, k, g) : Become(r[1]) /\ Give(t, k, r[2])
  BY DEF RenderOutline
<1>2. PICK r \in Store(Cache, k, g) : Become(r[1]) /\ Give(t, k, r[2])
  BY <1>1
<1>3. /\ hand[t] = Empty /\ <<t, k.font>> \in texts /\ At(Cache, k) = {}
      /\ UNCHANGED <<users, texts, drawing>>
  BY DEF RenderOutline, MayAsk
<1>4. /\ CacheGood(r[1], Given(hand, t, r[2], Shows(k)), texts)
      /\ r[1].total <= MaxCacheSize
  BY <1>1, <1>2, <1>3, StoreGood
<1>5. k.font \in Fonts
  BY GlyphCacheAssumption
<1>6. t \in users
  BY <1>3, <1>5, AskFacts
<1>7. hand' = Given(hand, t, r[2], Shows(k))
  BY <1>2 DEF Give, Given
<1>8. \A u \in Threads : u # t => Given(hand, t, r[2], Shows(k))[u] = hand[u]
  BY Typing DEF Given, Hands
<1>. QED
  BY <1>2, <1>3, <1>4, <1>6, <1>7, <1>8, Typing, Served

LEMMA BeginType3Inv ==
  ASSUME IInv, NEW t \in Threads, NEW k \in Keys, BeginType3(t, k)
  PROVE  IInv'
<1>1. /\ <<t, k.font>> \in texts /\ drawing' = [drawing EXCEPT ![t] = <<k>> \o @]
      /\ UNCHANGED <<users, texts, fonts, glyphs, lru, total, hand>>
  BY DEF BeginType3, MayAsk
<1>2. Cache' = Cache
  BY <1>1 DEF Cache
<1>3. drawing[t] \in Seq(Keys) /\ drawing \in [Threads -> Seq(Keys)]
  BY Typing
<1>4. /\ <<k>> \o drawing[t] \in Seq(Keys)
      /\ \A i \in DOMAIN (<<k>> \o drawing[t]) :
           \/ (<<k>> \o drawing[t])[i] = k
           \/ \E j \in DOMAIN drawing[t] : (<<k>> \o drawing[t])[i] = drawing[t][j]
  <2>1. /\ <<k>> \o drawing[t] \in Seq(Keys)
        /\ Len(<<k>> \o drawing[t]) = Len(drawing[t]) + 1 /\ Len(drawing[t]) \in Nat
        /\ (<<k>> \o drawing[t])[1] = k
        /\ \A i \in 2..(Len(drawing[t]) + 1) :
             (<<k>> \o drawing[t])[i] = drawing[t][i - 1]
    BY <1>3
  <2>2. \A i \in 2..(Len(drawing[t]) + 1) : i - 1 \in DOMAIN drawing[t]
    BY <1>3
  <2>. QED
    BY <2>1, <2>2
<1>5. drawing' \in [Threads -> Seq(Keys)] /\ drawing'[t] = <<k>> \o drawing[t]
      /\ \A u \in Threads : u # t => drawing'[u] = drawing[u]
  BY <1>1, <1>3, <1>4
<1>6. \A u \in Threads : \A i \in DOMAIN drawing'[u] :
        <<u, drawing'[u][i].font>> \in texts
  <2>1. SUFFICES ASSUME NEW u \in Threads, NEW i \in DOMAIN drawing'[u]
                 PROVE  <<u, drawing'[u][i].font>> \in texts
    OBVIOUS
  <2>2. CASE u = t
    BY <1>1, <1>4, <1>5, <2>2, Typing
  <2>3. CASE u # t
    BY <1>5, <2>3, Typing
  <2>. QED
    BY <2>2, <2>3
<1>7. CacheGood(Cache, hand, texts)'
  BY <1>1, <1>2, Typing
<1>. QED
  BY <1>1, <1>5, <1>6, <1>7, Typing, Assemble

\* The drawing that ends was of a key whose font the thread has.
LEMMA EndFacts ==
  ASSUME IInv, NEW t \in Threads, drawing[t] # <<>>,
         drawing' = [drawing EXCEPT ![t] = Tail(@)]
  PROVE  /\ Head(drawing[t]) \in Keys /\ <<t, Head(drawing[t]).font>> \in texts
         /\ drawing' \in [Threads -> Seq(Keys)]
         /\ \A u \in Threads : \A i \in DOMAIN drawing'[u] :
              <<u, drawing'[u][i].font>> \in texts
<1>1. drawing[t] \in Seq(Keys) /\ drawing \in [Threads -> Seq(Keys)]
  BY Typing
<1>2. /\ Head(drawing[t]) = drawing[t][1] /\ 1 \in DOMAIN drawing[t]
      /\ Head(drawing[t]) \in Keys /\ Tail(drawing[t]) \in Seq(Keys)
      /\ \A i \in DOMAIN Tail(drawing[t]) :
           i + 1 \in DOMAIN drawing[t] /\ Tail(drawing[t])[i] = drawing[t][i + 1]
  BY <1>1
<1>3. /\ drawing' \in [Threads -> Seq(Keys)] /\ drawing'[t] = Tail(drawing[t])
      /\ \A u \in Threads : u # t => drawing'[u] = drawing[u]
  BY <1>1, <1>2
<1>4. \A u \in Threads : \A i \in DOMAIN drawing'[u] :
        <<u, drawing'[u][i].font>> \in texts
  <2>1. SUFFICES ASSUME NEW u \in Threads, NEW i \in DOMAIN drawing'[u]
                 PROVE  <<u, drawing'[u][i].font>> \in texts
    OBVIOUS
  <2>2. CASE u = t
    BY <1>2, <1>3, <2>2, Typing
  <2>3. CASE u # t
    BY <1>3, <2>3, Typing
  <2>. QED
    BY <2>2, <2>3
<1>. QED
  BY <1>2, <1>3, <1>4, Typing

LEMMA EndType3Inv ==
  ASSUME IInv, NEW t \in Threads, EndType3(t)
  PROVE  IInv'
<1>. DEFINE k == Head(drawing[t])
<1>1. /\ drawing[t] # <<>> /\ hand[t] = Empty
      /\ drawing' = [drawing EXCEPT ![t] = Tail(@)]
      /\ UNCHANGED <<users, texts>>
  BY DEF EndType3
<1>2. PICK g \in Glyphs :
        /\ glyphs[g].refs = 0
        /\ \E r \in StoreType3(Cache, k, g) : Become(r[1]) /\ Give(t, k, r[2])
  BY DEF EndType3
<1>3. PICK r \in StoreType3(Cache, k, g) : Become(r[1]) /\ Give(t, k, r[2])
  BY <1>2
<1>4. /\ k \in Keys /\ <<t, k.font>> \in texts
      /\ drawing' \in [Threads -> Seq(Keys)]
      /\ \A u \in Threads : \A i \in DOMAIN drawing'[u] :
           <<u, drawing'[u][i].font>> \in texts
  BY <1>1, EndFacts
<1>. HIDE DEF k
<1>5. k.font \in Fonts
  BY <1>4, GlyphCacheAssumption
<1>6. t \in users /\ Shows(k) \in Shown
  BY <1>4, <1>5, AskFacts
<1>. DEFINE h == Given(hand, t, r[2], Shows(k))
<1>7. CacheGood(r[1], h, texts) /\ r[1].total <= MaxCacheSize
  <2>1. CASE k.scale = "small" /\ At(Cache, k) # {}
    <3>1. PICK i \in At(Cache, k) : r = <<Take(Cache, i), Cache.lru[i].val>>
      BY <2>1 DEF StoreType3
    <3>2. i \in DOMAIN Cache.lru /\ Cache.lru[i].key = k
      BY DEF At
    <3>3. /\ CacheGood(Take(Cache, i), Given(hand, t, Cache.lru[i].val, Shows(k)), texts)
          /\ Take(Cache, i).total = Cache.total
      BY <1>1, <1>6, <3>2, CacheIs, Typing, TakeGood
    <3>. QED
      BY <3>1, <3>3, CacheIs, Typing
  <2>2. CASE ~(k.scale = "small" /\ At(Cache, k) # {})
    <3>1. r \in Store(Cache, k, g)
      BY <2>2 DEF StoreType3
    <3>. QED
      BY <1>1, <1>2, <1>4, <2>2, <3>1, StoreGood
  <2>. QED
    BY <2>1, <2>2
<1>8. hand' = h
  BY <1>3 DEF Give, Given
<1>9. \A u \in Threads : u # t => h[u] = hand[u]
  BY Typing DEF Given, Hands
<1>. HIDE DEF h
<1>. QED
  BY <1>1, <1>3, <1>4, <1>6, <1>7, <1>8, <1>9, Served

LEMMA FailType3Inv ==
  ASSUME IInv, NEW t \in Threads, FailType3(t)
  PROVE  IInv'
<1>1. /\ drawing[t] # <<>> /\ drawing' = [drawing EXCEPT ![t] = Tail(@)]
      /\ UNCHANGED <<users, texts, fonts, glyphs, lru, total, hand>>
  BY DEF FailType3
<1>2. Cache' = Cache
  BY <1>1 DEF Cache
<1>3. CacheGood(Cache, hand, texts)'
  BY <1>1, <1>2, Typing
<1>. QED
  BY <1>1, <1>3, EndFacts, Typing, Assemble

LEMMA ReturnGlyphInv ==
  ASSUME IInv, NEW t \in Threads, ReturnGlyph(t)
  PROVE  IInv'
<1>. DEFINE g == hand[t].glyph
            gg == DropGlyph(glyphs, g)
            h == [hand EXCEPT ![t] = Empty]
<1>1. /\ hand[t] # Empty /\ glyphs' = gg /\ hand' = h
      /\ UNCHANGED <<users, texts, fonts, lru, total, drawing>>
  BY DEF ReturnGlyph
<1>2. /\ CacheGood(Cache, hand, texts) /\ hand \in Hands
      /\ glyphs \in [Glyphs -> GlyphState] /\ lru \in Seq(Entry) /\ KeysOnce(lru)
  BY Typing, CacheIs DEF CacheGood
<1>3. g \in Glyphs /\ glyphs[g].refs > 0
  BY <1>1, <1>2, CacheIs, HandFacts
<1>4. /\ h \in Hands /\ h[t] = Empty /\ \A u \in Threads : u # t => h[u] = hand[u]
      /\ \A x \in Glyphs : Cardinality(HandsWith(h, x))
           = IF x = g THEN Cardinality(HandsWith(hand, x)) - 1
             ELSE Cardinality(HandsWith(hand, x))
  BY <1>1, <1>2, EmptiedHands
<1>5. /\ gg \in [Glyphs -> GlyphState]
      /\ \A x \in Glyphs :
           /\ gg[x].refs = IF x = g THEN glyphs[x].refs - 1 ELSE glyphs[x].refs
           /\ gg[x].refs > 0 => gg[x].shows = glyphs[x].shows
  BY <1>2, <1>3, DropGlyphOK
<1>. HIDE DEF g, gg, h
<1>6. ASSUME NEW x \in Glyphs
      PROVE  /\ gg[x].refs = CountOf(lru, WithVal(x)) + Cardinality(HandsWith(h, x))
             /\ CountOf(lru, WithVal(x)) \in Nat /\ Cardinality(HandsWith(h, x)) \in Nat
  <2>1. /\ CountOf(lru, WithVal(x)) \in Nat /\ Cardinality(HandsWith(hand, x)) \in Nat
    BY <1>2, CacheIs, CountsType
  <2>2. glyphs[x].refs = CountOf(lru, WithVal(x)) + Cardinality(HandsWith(hand, x))
    BY <1>2, CacheIs DEF CacheGood, GlyphsCounted
  <2>3. Cardinality(HandsWith(h, x)) \in Nat
    BY GlyphCacheAssumption, FS_Subset, FS_CardinalityType DEF HandsWith
  <2>. QED
    BY <1>4, <1>5, <2>1, <2>2, <2>3
<1>7. \A i \in DOMAIN lru : gg[lru[i].val].shows = glyphs[lru[i].val].shows
  <2>1. SUFFICES ASSUME NEW i \in DOMAIN lru
                 PROVE  gg[lru[i].val].shows = glyphs[lru[i].val].shows
    OBVIOUS
  <2>2. lru[i] \in WithVal(lru[i].val) /\ lru[i].val \in Glyphs
    <3>1. lru[i] \in Entry
      BY <1>2, <2>1
    <3>. QED
      BY <3>1 DEF WithVal, Entry
  <2>3. CountOf(lru, WithVal(lru[i].val)) >= 1
    BY <1>2, <2>2, CountType
  <2>4. gg[lru[i].val].refs > 0
    BY <1>6, <2>2, <2>3
  <2>. QED
    BY <1>5, <2>2, <2>4
<1>8. \A u \in Threads : h[u] # Empty => gg[h[u].glyph].shows = h[u].asked
  <2>1. SUFFICES ASSUME NEW u \in Threads, h[u] # Empty
                 PROVE  gg[h[u].glyph].shows = h[u].asked
    OBVIOUS
  <2>2. h[u] = hand[u] /\ hand[u] # Empty
    BY <1>4, <2>1
  <2>3. /\ h[u].glyph \in Glyphs /\ glyphs[h[u].glyph].shows = h[u].asked
    BY <1>2, <2>2, CacheIs, HandFacts DEF CacheGood, HandsShow
  <2>4. u \in HandsWith(h, h[u].glyph) /\ IsFiniteSet(HandsWith(h, h[u].glyph))
    BY GlyphCacheAssumption, FS_Subset DEF HandsWith
  <2>5. Cardinality(HandsWith(h, h[u].glyph)) # 0
    BY <2>4, FS_EmptySet
  <2>6. gg[h[u].glyph].refs > 0
    BY <1>6, <2>3, <2>5
  <2>. QED
    BY <1>5, <2>3, <2>6
<1>9. CacheGood(Pack(lru, total, fonts, gg), h, texts)
  <2>. DEFINE c == Cache
  <2>1. /\ CacheGood(c, hand, texts) /\ c.lru = lru /\ c.total = total
        /\ c.fonts = fonts /\ c.glyphs = glyphs
    BY <1>2, CacheIs
  <2>. HIDE DEF c
  <2>2. CacheGood(Pack(c.lru, c.total, c.fonts, gg), h, texts)
    <3>1. /\ c.lru \in Seq(Entry) /\ KeysOnce(c.lru)
          /\ \A i \in DOMAIN c.lru : gg[c.lru[i].val].shows = c.glyphs[c.lru[i].val].shows
          /\ \A x \in Glyphs : gg[x].refs = CountOf(c.lru, WithVal(x))
                                            + Cardinality(HandsWith(h, x))
      BY <1>2, <1>6, <1>7, <2>1
    <3>. QED
      BY <1>4, <1>5, <1>8, <2>1, <3>1, GlyphsChange
  <2>. QED
    BY <2>1, <2>2
<1>10. Cache' = Pack(lru, total, fonts, gg) /\ hand' = h
  BY <1>1 DEF Cache, Pack
<1>11. CacheGood(Cache, hand, texts)'
  BY <1>1, <1>9, <1>10
<1>. QED
  BY <1>1, <1>4, <1>10, <1>11, Typing, Assemble

-----------------------------------------------------------------------------
(* Fonts.                                                                  *)

LEMMA TextsPlus ==
  ASSUME NEW T, NEW t \in Threads, NEW f \in Fonts, <<t, f>> \notin T
  PROVE  \A x \in Fonts : Cardinality(TextsWith(T \cup {<<t, f>>}, x))
           = IF x = f THEN Cardinality(TextsWith(T, x)) + 1 ELSE Cardinality(TextsWith(T, x))
<1>1. SUFFICES ASSUME NEW x \in Fonts
               PROVE  Cardinality(TextsWith(T \cup {<<t, f>>}, x))
                 = IF x = f THEN Cardinality(TextsWith(T, x)) + 1
                   ELSE Cardinality(TextsWith(T, x))
  OBVIOUS
<1>2. TextsWith(T \cup {<<t, f>>}, x)
        = IF x = f THEN TextsWith(T, x) \cup {t} ELSE TextsWith(T, x)
  BY DEF TextsWith
<1>3. IsFiniteSet(TextsWith(T, x)) /\ (x = f => t \notin TextsWith(T, x))
  BY GlyphCacheAssumption, FS_Subset DEF TextsWith
<1>. QED
  BY <1>2, <1>3, FS_AddElement

LEMMA TextsMinus ==
  ASSUME NEW T, NEW t \in Threads, NEW f \in Fonts, <<t, f>> \in T
  PROVE  \A x \in Fonts : Cardinality(TextsWith(T \ {<<t, f>>}, x))
           = IF x = f THEN Cardinality(TextsWith(T, x)) - 1 ELSE Cardinality(TextsWith(T, x))
<1>1. SUFFICES ASSUME NEW x \in Fonts
               PROVE  Cardinality(TextsWith(T \ {<<t, f>>}, x))
                 = IF x = f THEN Cardinality(TextsWith(T, x)) - 1
                   ELSE Cardinality(TextsWith(T, x))
  OBVIOUS
<1>2. TextsWith(T \ {<<t, f>>}, x)
        = IF x = f THEN TextsWith(T, x) \ {t} ELSE TextsWith(T, x)
  BY DEF TextsWith
<1>3. IsFiniteSet(TextsWith(T, x)) /\ (x = f => t \in TextsWith(T, x))
  BY GlyphCacheAssumption, FS_Subset DEF TextsWith
<1>. QED
  BY <1>2, <1>3, FS_RemoveElement

\* A change of one font's references and of the texts that have it.
LEMMA FontStep ==
  ASSUME IInv, NEW f \in Fonts, NEW g \in [Fonts -> FontState], fonts' = g,
         UNCHANGED <<users, glyphs, lru, total, drawing, hand>>,
         \A x \in Fonts : g[x].refs = CountOf(lru, WithFont(x))
                                     + Cardinality(TextsWith(texts', x)),
         g[f].gen = 0 => g[f].refs = 0,
         g[f].gen = fonts[f].gen \/ fonts[f].refs = 0,
         \A x \in Fonts : x # f => g[x] = fonts[x],
         texts' \subseteq users \X Fonts,
         \A t \in Threads : \A i \in DOMAIN drawing[t] :
           <<t, drawing[t][i].font>> \in texts'
  PROVE  IInv'
<1>. DEFINE c == Cache
<1>1. /\ CacheGood(c, hand, texts) /\ c.lru = lru /\ c.total = total
      /\ c.fonts = fonts /\ c.glyphs = glyphs
  BY Typing, CacheIs
<1>2. Cache' = Pack(lru, total, g, glyphs)
  BY DEF Cache, Pack
<1>. HIDE DEF c
<1>3. \A x \in Fonts : g[x].gen = 0 => g[x].refs = 0
  BY <1>1 DEF CacheGood, FontsLoaded
<1>4. \A i \in DOMAIN c.lru : g[c.lru[i].key.font].gen = c.fonts[c.lru[i].key.font].gen
  <2>1. SUFFICES ASSUME NEW i \in DOMAIN c.lru
                 PROVE  g[c.lru[i].key.font].gen = c.fonts[c.lru[i].key.font].gen
    OBVIOUS
  <2>2. c.lru[i].key.font \in Fonts /\ c.fonts[c.lru[i].key.font].refs > 0
    BY <1>1, EntryFacts
  <2>. QED
    BY <1>1, <2>2
<1>5. CacheGood(Pack(c.lru, c.total, g, c.glyphs), hand, texts')
  <2>1. \A x \in Fonts : g[x].refs = CountOf(c.lru, WithFont(x))
                                    + Cardinality(TextsWith(texts', x))
    BY <1>1
  <2>. QED
    BY <1>1, <1>3, <1>4, <2>1, FontsChange
<1>6. CacheGood(Cache, hand, texts)'
  BY <1>1, <1>2, <1>5
<1>. QED
  BY <1>6, Typing, Assemble

LEMMA NewFontInv ==
  ASSUME IInv, NEW t \in Threads, NEW f \in Fonts, NewFont(t, f)
  PROVE  IInv'
<1>1. PICK kind \in Kinds :
        fonts' = [fonts EXCEPT ![f] = [refs |-> 1, kind |-> kind, gen |-> @.gen + 1]]
  BY DEF NewFont
<1>2. /\ t \in users /\ fonts[f].refs = 0 /\ fonts[f].gen < MaxGen
      /\ texts' = texts \cup {<<t, f>>}
      /\ UNCHANGED <<users, glyphs, lru, total, drawing, hand>>
  BY DEF NewFont
<1>3. /\ CacheGood(Cache, hand, texts) /\ fonts \in [Fonts -> FontState]
      /\ texts \subseteq users \X Fonts
  BY Typing
<1>. DEFINE new == [refs |-> 1, kind |-> kind, gen |-> fonts[f].gen + 1]
<1>4. new \in FontState /\ new.refs = 1 /\ new.gen # 0
  <2>1. fonts[f].gen \in 0..MaxGen /\ MaxGen \in Nat
    BY <1>3, GlyphCacheAssumption DEF FontState
  <2>2. fonts[f].gen + 1 \in 0..MaxGen /\ fonts[f].gen + 1 # 0
    BY <1>2, <2>1
  <2>. QED
    BY <2>2 DEF FontState
<1>. HIDE DEF new
<1>5. /\ fonts' \in [Fonts -> FontState] /\ fonts'[f] = new
      /\ \A x \in Fonts : x # f => fonts'[x] = fonts[x]
  BY <1>1, <1>3, <1>4 DEF new
<1>6. \A x \in Fonts :
        /\ fonts[x].refs = CountOf(lru, WithFont(x)) + Cardinality(TextsWith(texts, x))
        /\ CountOf(lru, WithFont(x)) \in Nat /\ Cardinality(TextsWith(texts, x)) \in Nat
  BY <1>3, CacheIs, CountsType DEF CacheGood, FontsCounted
<1>7. <<t, f>> \notin texts
  BY <1>2, AskFacts
<1>8. \A x \in Fonts : Cardinality(TextsWith(texts', x))
        = IF x = f THEN Cardinality(TextsWith(texts, x)) + 1
          ELSE Cardinality(TextsWith(texts, x))
  BY <1>2, <1>7, TextsPlus
<1>9. \A x \in Fonts : fonts'[x].refs = CountOf(lru, WithFont(x))
                                       + Cardinality(TextsWith(texts', x))
  <2>1. SUFFICES ASSUME NEW x \in Fonts
                 PROVE  fonts'[x].refs = CountOf(lru, WithFont(x))
                                         + Cardinality(TextsWith(texts', x))
    OBVIOUS
  <2>2. CASE x = f
    <3>1. fonts[f].refs = 0 /\ fonts'[f].refs = 1
      BY <1>2, <1>4, <1>5
    <3>2. /\ fonts[f].refs = CountOf(lru, WithFont(f)) + Cardinality(TextsWith(texts, f))
          /\ CountOf(lru, WithFont(f)) \in Nat /\ Cardinality(TextsWith(texts, f)) \in Nat
      BY <1>6
    <3>3. Cardinality(TextsWith(texts', f)) = Cardinality(TextsWith(texts, f)) + 1
      BY <1>8
    <3>. QED
      BY <2>2, <3>1, <3>2, <3>3
  <2>3. CASE x # f
    BY <1>5, <1>6, <1>8, <2>3
  <2>. QED
    BY <2>2, <2>3
<1>10. texts' \subseteq users \X Fonts
  BY <1>2, <1>3
<1>11. \A u \in Threads : \A i \in DOMAIN drawing[u] : <<u, drawing[u][i].font>> \in texts'
  BY <1>2, Typing
<1>. QED
  BY <1>2, <1>4, <1>5, <1>9, <1>10, <1>11, FontStep

LEMMA ShareFontInv ==
  ASSUME IInv, NEW t \in Threads, NEW u \in Threads, NEW f \in Fonts, ShareFont(t, u, f)
  PROVE  IInv'
<1>1. /\ <<t, f>> \in texts /\ u \in users /\ <<u, f>> \notin texts
      /\ fonts' = Keep(fonts, f) /\ texts' = texts \cup {<<u, f>>}
      /\ UNCHANGED <<users, glyphs, lru, total, drawing, hand>>
  BY DEF ShareFont
<1>2. /\ CacheGood(Cache, hand, texts) /\ fonts \in [Fonts -> FontState]
      /\ texts \subseteq users \X Fonts /\ fonts[f].refs > 0 /\ fonts[f].gen \in 1..MaxGen
  BY <1>1, Typing, AskFacts
<1>3. /\ fonts' \in [Fonts -> FontState]
      /\ \A x \in Fonts :
           /\ fonts'[x].refs = IF x = f THEN fonts[x].refs + 1 ELSE fonts[x].refs
           /\ fonts'[x].gen = fonts[x].gen
  BY <1>1, <1>2, KeepFontOK
<1>4. \A x \in Fonts : x # f => fonts'[x] = fonts[x]
  BY <1>1, <1>2 DEF Keep
<1>5. \A x \in Fonts : Cardinality(TextsWith(texts', x))
        = IF x = f THEN Cardinality(TextsWith(texts, x)) + 1
          ELSE Cardinality(TextsWith(texts, x))
  BY <1>1, TextsPlus
<1>6. \A x \in Fonts : fonts'[x].refs = CountOf(lru, WithFont(x))
                                       + Cardinality(TextsWith(texts', x))
  <2>1. \A x \in Fonts :
        /\ fonts[x].refs = CountOf(lru, WithFont(x)) + Cardinality(TextsWith(texts, x))
        /\ CountOf(lru, WithFont(x)) \in Nat /\ Cardinality(TextsWith(texts, x)) \in Nat
    BY <1>2, CacheIs, CountsType DEF CacheGood, FontsCounted
  <2>. QED
    BY <1>3, <1>5, <2>1
<1>7. texts' \subseteq users \X Fonts
  BY <1>1, <1>2
<1>8. \A v \in Threads : \A i \in DOMAIN drawing[v] : <<v, drawing[v][i].font>> \in texts'
  BY <1>1, Typing
<1>9. fonts'[f].gen = fonts[f].gen /\ fonts'[f].gen # 0
  BY <1>2, <1>3
<1>. QED
  BY <1>1, <1>3, <1>4, <1>6, <1>7, <1>8, <1>9, FontStep

LEMMA DropFontInv ==
  ASSUME IInv, NEW t \in Threads, NEW f \in Fonts, DropFont(t, f)
  PROVE  IInv'
<1>1. /\ <<t, f>> \in texts /\ \A i \in DOMAIN drawing[t] : drawing[t][i].font # f
      /\ fonts' = Drop(fonts, f) /\ texts' = texts \ {<<t, f>>}
      /\ UNCHANGED <<users, glyphs, lru, total, drawing, hand>>
  BY DEF DropFont
<1>2. /\ CacheGood(Cache, hand, texts) /\ fonts \in [Fonts -> FontState]
      /\ texts \subseteq users \X Fonts /\ fonts[f].refs > 0 /\ fonts[f].gen \in 1..MaxGen
  BY <1>1, Typing, AskFacts
<1>3. /\ fonts' \in [Fonts -> FontState]
      /\ \A x \in Fonts :
           /\ fonts'[x].refs = IF x = f THEN fonts[x].refs - 1 ELSE fonts[x].refs
           /\ fonts'[x].gen = fonts[x].gen
  BY <1>1, <1>2, DropFontOK
<1>4. \A x \in Fonts : x # f => fonts'[x] = fonts[x]
  BY <1>1, <1>2 DEF Drop
<1>5. \A x \in Fonts : Cardinality(TextsWith(texts', x))
        = IF x = f THEN Cardinality(TextsWith(texts, x)) - 1
          ELSE Cardinality(TextsWith(texts, x))
  BY <1>1, TextsMinus
<1>6. \A x \in Fonts : fonts'[x].refs = CountOf(lru, WithFont(x))
                                       + Cardinality(TextsWith(texts', x))
  <2>1. \A x \in Fonts :
        /\ fonts[x].refs = CountOf(lru, WithFont(x)) + Cardinality(TextsWith(texts, x))
        /\ CountOf(lru, WithFont(x)) \in Nat /\ Cardinality(TextsWith(texts, x)) \in Nat
    BY <1>2, CacheIs, CountsType DEF CacheGood, FontsCounted
  <2>. QED
    BY <1>3, <1>5, <2>1
<1>7. texts' \subseteq users \X Fonts
  BY <1>1, <1>2
<1>8. \A v \in Threads : \A i \in DOMAIN drawing[v] : <<v, drawing[v][i].font>> \in texts'
  BY <1>1, Typing
<1>9. fonts'[f].gen = fonts[f].gen /\ fonts'[f].gen # 0
  BY <1>2, <1>3
<1>. QED
  BY <1>1, <1>3, <1>4, <1>6, <1>7, <1>8, <1>9, FontStep

-----------------------------------------------------------------------------
(* Contexts.                                                               *)

LEMMA PurgeInv ==
  ASSUME IInv, Become(Purged(Cache)), users' \subseteq Threads,
         texts \subseteq users' \X Fonts, UNCHANGED <<texts, drawing, hand>>,
         \A t \in Threads : hand[t] # Empty => t \in users'
  PROVE  IInv'
<1>. DEFINE c == Purged(Cache)
<1>1. CacheGood(c, hand, texts) /\ c.lru = <<>> /\ c.total = 0
  BY Typing, PurgedGood
<1>. HIDE DEF c
<1>2. c \in Caches
  BY <1>1 DEF CacheGood
<1>3. Become(c)
  BY DEF c
<1>4. Cache' = c /\ lru' = <<>> /\ total' = 0
  BY <1>1, <1>2, <1>3, BecomeIs
<1>5. CacheGood(Cache, hand, texts)'
  BY <1>1, <1>4
<1>. QED
  BY <1>4, <1>5, Typing, GlyphCacheAssumption, Assemble

\* The cache stays as it is while contexts come and go.
LEMMA SameCache ==
  ASSUME IInv, users' \subseteq Threads, texts \subseteq users' \X Fonts,
         UNCHANGED <<texts, fonts, glyphs, lru, total, drawing, hand>>,
         \A t \in Threads : hand[t] # Empty => t \in users',
         users' = {} => lru = <<>>
  PROVE  IInv'
<1>1. Cache' = Cache
  BY DEF Cache
<1>2. CacheGood(Cache, hand, texts)'
  BY <1>1, Typing
<1>. QED
  BY <1>2, Typing, Assemble

LEMMA ContextInv ==
  ASSUME IInv, NEW t \in Threads,
         \/ PurgeGlyphCache(t) \/ NewGlyphCacheContext(t)
         \/ KeepGlyphCache(t) \/ DropGlyphCacheContext(t)
  PROVE  IInv'
<1>1. /\ users \subseteq Threads /\ texts \subseteq users \X Fonts
      /\ \A u \in Threads : hand[u] # Empty => u \in users
      /\ users = {} => lru = <<>>
  BY Typing
<1>2. CASE PurgeGlyphCache(t)
  BY <1>1, <1>2, PurgeInv DEF PurgeGlyphCache
<1>3. CASE NewGlyphCacheContext(t)
  <2>1. /\ users = {} /\ users' = {t} /\ lru' = <<>> /\ total' = 0
        /\ UNCHANGED <<texts, fonts, glyphs, drawing, hand>>
    BY <1>3 DEF NewGlyphCacheContext
  <2>2. lru = <<>> /\ total = 0
    <3>1. lru = <<>>
      BY <1>1, <2>1
    <3>2. total = TotalOf(lru)
      BY Typing, CacheIs DEF CacheGood
    <3>. QED
      BY <3>1, <3>2, TotalOfNone
  <2>3. texts \subseteq users' \X Fonts /\ \A u \in Threads : hand[u] # Empty => u \in users'
    BY <1>1, <2>1
  <2>. QED
    BY <2>1, <2>2, <2>3, SameCache
<1>4. CASE KeepGlyphCache(t)
  <2>1. /\ users' = users \cup {t}
        /\ UNCHANGED <<texts, fonts, glyphs, lru, total, drawing, hand>>
    BY <1>4 DEF KeepGlyphCache
  <2>2. texts \subseteq users' \X Fonts
    BY <1>1, <2>1
  <2>. QED
    BY <1>1, <2>1, <2>2, SameCache
<1>5. CASE DropGlyphCacheContext(t)
  <2>1. /\ t \in users /\ hand[t] = Empty /\ users' = users \ {t}
        /\ \A f \in Fonts : <<t, f>> \notin texts
        /\ Become(IF users = {t} THEN Purged(Cache) ELSE Cache)
        /\ UNCHANGED <<texts, drawing, hand>>
    BY <1>5 DEF DropGlyphCacheContext, Idle
  <2>2. /\ users' \subseteq Threads /\ texts \subseteq users' \X Fonts
        /\ \A u \in Threads : hand[u] # Empty => u \in users'
    BY <1>1, <2>1
  <2>3. CASE users = {t}
    BY <2>1, <2>2, <2>3, PurgeInv
  <2>4. CASE users # {t}
    <3>1. UNCHANGED <<fonts, glyphs, lru, total>>
      BY <2>1, <2>4, CacheIs DEF Become
    <3>2. users' # {}
      BY <2>1, <2>4
    <3>. QED
      BY <2>1, <2>2, <3>1, <3>2, SameCache
  <2>. QED
    BY <2>3, <2>4
<1>. QED
  BY <1>2, <1>3, <1>4, <1>5

-----------------------------------------------------------------------------
(* The invariant.                                                          *)

LEMMA InitInv ==
  ASSUME Init
  PROVE  IInv
<1>1. /\ texts = {} /\ lru = <<>> /\ total = 0 /\ users \subseteq Threads /\ users # {}
      /\ fonts = [f \in Fonts |-> [refs |-> 0, kind |-> "ft", gen |-> 0]]
      /\ glyphs = [g \in Glyphs |-> Freed]
      /\ drawing = [t \in Threads |-> <<>>] /\ hand = [t \in Threads |-> Empty]
  BY DEF Init
<1>2. /\ lru \in Seq(Entry) /\ total \in 0..MaxCacheSize
      /\ fonts \in [Fonts -> FontState] /\ glyphs \in [Glyphs -> GlyphState]
      /\ hand \in Hands
  BY <1>1, GlyphCacheAssumption DEF FontState, GlyphState, Kinds, Freed, Hands
<1>3. TypeOK
  BY <1>1, <1>2 DEF TypeOK, FontState, GlyphState, Entry, Hands, Held
<1>. DEFINE c == Cache
<1>4. c \in Caches /\ c.lru = <<>> /\ c.total = 0 /\ c.fonts = fonts /\ c.glyphs = glyphs
  BY <1>1, <1>2, CacheIs, PackOK, GlyphCacheAssumption
<1>. HIDE DEF c
<1>5. KeysOnce(c.lru) /\ EntriesShow(c) /\ c.total = TotalOf(c.lru)
  BY <1>4, TotalOfNone DEF KeysOnce, EntriesShow
<1>6. GlyphsCounted(c, hand)
  <2>1. SUFFICES ASSUME NEW g \in Glyphs
                 PROVE  glyphs[g].refs = CountOf(<<>>, WithVal(g))
                                         + Cardinality(HandsWith(hand, g))
    BY <1>4 DEF GlyphsCounted
  <2>2. HandsWith(hand, g) = {}
    BY <1>1, GlyphCacheAssumption DEF HandsWith, Empty
  <2>3. glyphs[g].refs = 0
    BY <1>1 DEF Freed
  <2>. QED
    BY <2>2, <2>3, CountOfNone, FS_EmptySet
<1>7. FontsCounted(c, texts) /\ FontsLoaded(c)
  <2>1. \A f \in Fonts : fonts[f].refs = 0
    BY <1>1
  <2>2. \A f \in Fonts : TextsWith(texts, f) = {}
    BY <1>1 DEF TextsWith
  <2>3. ASSUME NEW f \in Fonts
        PROVE  fonts[f].refs = CountOf(<<>>, WithFont(f)) + Cardinality(TextsWith(texts, f))
    <3>1. CountOf(<<>>, WithFont(f)) = 0
      BY CountOfNone
    <3>2. Cardinality(TextsWith(texts, f)) = 0
      BY <2>2, FS_EmptySet
    <3>. QED
      BY <2>1, <3>1, <3>2
  <2>4. FontsCounted(c, texts)
    BY <1>4, <2>3 DEF FontsCounted
  <2>. QED
    BY <1>4, <2>1, <2>4 DEF FontsLoaded
<1>8. HandsShow(c, hand)
  BY <1>1 DEF HandsShow
<1>9. CacheGood(c, hand, texts)
  BY <1>2, <1>4, <1>5, <1>6, <1>7, <1>8 DEF CacheGood
<1>. QED
  BY <1>1, <1>3, <1>9 DEF IInv, c

\* In every state the entries, the total, the references and what the glyphs
\* show fit together, whatever the threads do while the lock is given up.
THEOREM SpecInvariant == Spec => []IInv
<1>1. Init => IInv
  BY InitInv
<1>2. IInv /\ [Next]_vars => IInv'
  <2>1. SUFFICES ASSUME IInv, [Next]_vars
                 PROVE  IInv'
    OBVIOUS
  <2>2. CASE UNCHANGED vars
    BY <2>1, <2>2, Typing, SameCache DEF vars
  <2>3. CASE Next
    <3>1. PICK t \in Threads :
            \/ \E k \in Keys : Find(t, k) \/ RenderOutline(t, k) \/ BeginType3(t, k)
            \/ EndType3(t) \/ FailType3(t) \/ ReturnGlyph(t)
            \/ \E f \in Fonts : NewFont(t, f) \/ DropFont(t, f)
            \/ \E f \in Fonts, u \in Threads : ShareFont(t, u, f)
            \/ PurgeGlyphCache(t) \/ NewGlyphCacheContext(t)
            \/ KeepGlyphCache(t) \/ DropGlyphCacheContext(t)
      BY <2>3 DEF Next
    <3>2. CASE \E k \in Keys : Find(t, k) \/ RenderOutline(t, k) \/ BeginType3(t, k)
      BY <2>1, <3>2, FindInv, RenderOutlineInv, BeginType3Inv
    <3>3. CASE EndType3(t) \/ FailType3(t) \/ ReturnGlyph(t)
      BY <2>1, <3>3, EndType3Inv, FailType3Inv, ReturnGlyphInv
    <3>4. CASE \E f \in Fonts : NewFont(t, f) \/ DropFont(t, f)
      BY <2>1, <3>4, NewFontInv, DropFontInv
    <3>5. CASE \E f \in Fonts, u \in Threads : ShareFont(t, u, f)
      BY <2>1, <3>5, ShareFontInv
    <3>6. CASE \/ PurgeGlyphCache(t) \/ NewGlyphCacheContext(t)
               \/ KeepGlyphCache(t) \/ DropGlyphCacheContext(t)
      BY <2>1, <3>6, ContextInv
    <3>. QED
      BY <3>1, <3>2, <3>3, <3>4, <3>5, <3>6
  <2>. QED
    BY <2>1, <2>2, <2>3
<1>. QED
  BY <1>1, <1>2, PTL DEF Spec

\* Every variable keeps its type: the cache is never left larger than it may
\* be, and the texts of a thread have the fonts of what it draws.
THEOREM SpecTypeOK == Spec => []TypeOK
<1>1. IInv => TypeOK
  BY DEF IInv
<1>. QED
  BY <1>1, SpecInvariant, PTL

\* One entry for a key, and the total is the size of what is there.
THEOREM SpecCacheInOrder == Spec => []CacheInOrder
<1>1. IInv => CacheInOrder
  BY CacheIs DEF IInv, CacheGood, CacheInOrder, KeysOnce, TotalOf
<1>. QED
  BY <1>1, SpecInvariant, PTL

\* Every count is the number of references there are.
THEOREM SpecCountsExact == Spec => []CountsExact
<1>1. IInv => CountsExact
  <2>1. SUFFICES ASSUME IInv
                 PROVE  CountsExact
    OBVIOUS
  <2>2. /\ lru \in Seq(Entry)
        /\ \A g \in Glyphs : glyphs[g].refs = CountOf(lru, WithVal(g))
                                           + Cardinality(HandsWith(hand, g))
        /\ \A f \in Fonts : fonts[f].refs = CountOf(lru, WithFont(f))
                                         + Cardinality(TextsWith(texts, f))
    BY <2>1, Typing, CacheIs DEF CacheGood, GlyphsCounted, FontsCounted
  <2>3. /\ \A g : PlacesOf(lru, WithVal(g)) = {i \in DOMAIN lru : lru[i].val = g}
        /\ \A f : PlacesOf(lru, WithFont(f)) = {i \in DOMAIN lru : lru[i].key.font = f}
    BY <2>2 DEF PlacesOf, WithVal, WithFont
  <2>4. users = {} => lru = <<>>
    BY <2>1, Typing
  <2>. QED
    BY <2>2, <2>3, <2>4 DEF CountsExact, CountOf, HandsWith, TextsWith
<1>. QED
  BY <1>1, SpecInvariant, PTL

\* A caller has the glyph it asked for, also when an address of a font or of
\* a glyph has been used again.
THEOREM SpecGlyphsAreTheirs == Spec => []GlyphsAreTheirs
<1>1. IInv => GlyphsAreTheirs
  BY CacheIs DEF IInv, CacheGood, EntriesShow, HandsShow, GlyphsAreTheirs
<1>. QED
  BY <1>1, SpecInvariant, PTL

=============================================================================
