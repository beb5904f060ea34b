------------------------------ MODULE GlyphCache ------------------------------
(***************************************************************************)
(* The glyph cache (source/fitz/draw-glyph.c), which the contexts of all   *)
(* threads share.  Its lock is given up while a Type 3 glyph is drawn: the *)
(* drawing runs a display list, which may ask for other glyphs, while      *)
(* other threads may ask for the same one, purge the cache or drop fonts.  *)
(* What happens under the lock is one step.                                *)
(*                                                                         *)
(* A key names its font by address, and an address is used again after its *)
(* font was freed; a generation tells the fonts at one address apart.  Of  *)
(* the matrix in a key only the scale matters here: "small" glyphs are     *)
(* cached, "wide" ones turn out too large for it when they are rendered,   *)
(* "huge" ones are not to be cached.  Rendering that fails changes nothing.*)
(***************************************************************************)
EXTENDS Naturals, FiniteSetsExt, SequencesExt

CONSTANTS Threads, Fonts,  \* threads and addresses of fonts
          Glyphs,          \* addresses of glyphs
          Keys,            \* bound: the keys that are asked for
          Size,            \* the size of the glyph of each key
          MaxCacheSize,    \* MAX_CACHE_SIZE
          MaxGen,          \* bound: fonts that are loaded at one address
          MaxDepth,        \* bound: Type 3 glyphs within each other
          None

Scales == {"small", "wide", "huge"}
Kinds == {"ft", "t3"}

\* Glyphs of at most 255 x 255 pixels are each smaller than the cache.
ASSUME GlyphCacheAssumption ==
  /\ IsFiniteSet(Threads)
  /\ \A k \in Keys : k.font \in Fonts /\ k.scale \in Scales
  /\ Size \in [Keys -> Nat \ {0}] /\ MaxCacheSize \in Nat
  /\ \A k \in Keys : Size[k] <= MaxCacheSize
  /\ MaxGen \in Nat /\ MaxDepth \in Nat
  /\ None \notin Glyphs

VARIABLES
  users,    \* the threads that have a context; its size is cache->refs
  texts,    \* pairs of a thread and a font that its texts hold a reference to
  fonts,    \* the fonts: their references, kind and generation
  glyphs,   \* the glyphs: their references and what they show
  lru,      \* the entries, the most recently used first
  total,    \* cache->total
  drawing,  \* the keys of the Type 3 glyphs a thread draws, the innermost first
  hand      \* the glyph a thread was given, and what it had asked for

vars == <<users, texts, fonts, glyphs, lru, total, drawing, hand>>

-----------------------------------------------------------------------------
(* Keeping and dropping.                                                   *)
Keep(objs, o) == [objs EXCEPT ![o].refs = IF @ > 0 THEN @ + 1 ELSE @]
Drop(objs, o) == [objs EXCEPT ![o].refs = IF @ > 0 THEN @ - 1 ELSE @]

\* A glyph that is freed shows nothing.
Freed == [refs |-> 0, shows |-> None]
DropGlyph(objs, g) ==
  IF objs[g].refs = 1 THEN [objs EXCEPT ![g] = Freed] ELSE Drop(objs, g)

\* What a glyph of key k shows: the glyph of the font that is there now.
Shows(k) == [key |-> k, gen |-> fonts[k.font].gen]

\* The part of the state that the lock protects, with the counts.
Cache == [lru |-> lru, total |-> total, fonts |-> fonts, glyphs |-> glyphs]
Become(c) ==
  lru' = c.lru /\ total' = c.total /\ fonts' = c.fonts /\ glyphs' = c.glyphs

At(c, k) == {i \in DOMAIN c.lru : c.lru[i].key = k}

(***************************************************************************)
(* drop_glyph_cache_entry: the i-th entry is unlinked and gives up its     *)
(* references.                                                             *)
(***************************************************************************)
DropEntryKeepFont(c, i) ==  \* variant: the font's reference is forgotten
  [c EXCEPT !.lru = RemoveAt(@, i), !.total = @ - Size[c.lru[i].key],
            !.glyphs = DropGlyph(@, c.lru[i].val)]
DropEntry(c, i) ==
  [c EXCEPT !.lru = RemoveAt(@, i), !.total = @ - Size[c.lru[i].key],
            !.fonts = Drop(@, c.lru[i].key.font),
            !.glyphs = DropGlyph(@, c.lru[i].val)]

\* do_purge drops every entry.
Purged(c) ==
  [FoldLeft(LAMBDA d, e : DropEntry(d, 1), c, c.lru) EXCEPT !.total = 0]

\* Eviction from the end, until the total is no larger than it may be.
EvictedOnce(c) ==  \* variant: one entry at most is evicted
  IF c.total > MaxCacheSize THEN DropEntry(c, Len(c.lru)) ELSE c
Evicted(c) ==
  FoldLeft(LAMBDA d, e : IF d.total > MaxCacheSize
                         THEN DropEntry(d, Len(d.lru)) ELSE d,
           c, c.lru)

\* A found entry moves to the front, and its glyph is kept for the caller.
Take(c, i) ==
  [c EXCEPT !.lru = <<c.lru[i]>> \o RemoveAt(@, i),
            !.glyphs = Keep(@, c.lru[i].val)]

\* A new entry holds its glyph and its font.
InsertUnkept(c, k, g) ==  \* variant: the font is not kept
  Evicted([c EXCEPT !.lru = <<[key |-> k, val |-> g]>> \o @, !.total = @ + Size[k],
                    !.glyphs = Keep(@, g)])
Insert(c, k, g) ==
  Evicted([c EXCEPT !.lru = <<[key |-> k, val |-> g]>> \o @, !.total = @ + Size[k],
                    !.glyphs = Keep(@, g), !.fonts = Keep(@, k.font)])

Rendered(c, k, g) == [c EXCEPT !.glyphs[g] = [refs |-> 1, shows |-> Shows(k)]]

Give(t, k, g) == hand' = [hand EXCEPT ![t] = [glyph |-> g, asked |-> Shows(k)]]
Empty == [glyph |-> None, asked |-> None]

-----------------------------------------------------------------------------
(* fz_render_glyph.                                                        *)

\* Thread t may ask for a glyph of a font that it holds a reference to.
MayAsk(t, k) ==
  hand[t] = Empty /\ <<t, k.font>> \in texts

Find(t, k) ==
  /\ MayAsk(t, k)
  /\ \E i \in At(Cache, k) :
       /\ Become(Take(Cache, i))
       /\ Give(t, k, lru[i].val)
  /\ UNCHANGED <<users, texts, drawing>>

\* How the rendering of glyph g for key k may end: the cache, and the glyph
\* for the caller.  Too large glyphs are not put into the cache, and others
\* are not if there is no memory for an entry.
Store(c, k, g) ==
  LET uncached == Rendered(c, k, g)
  IN  {<<uncached, g>>} \cup
      IF k.scale = "small" THEN {<<Insert(uncached, k, g), g>>} ELSE {}

\* If another thread, or the drawing itself, has put the same glyph into the
\* cache meanwhile, that one is taken and the new one dropped.
StoreBlindly(c, k, g) == Store(c, k, g)  \* variant: no second search
StoreType3(c, k, g) ==
  IF k.scale = "small" /\ At(c, k) # {}
  THEN {<<Take(c, i), c.lru[i].val>> : i \in At(c, k)}
  ELSE Store(c, k, g)

\* Outline glyphs are rendered under the lock.  A huge one is refused.
RenderOutline(t, k) ==
  /\ MayAsk(t, k) /\ fonts[k.font].kind = "ft" /\ k.scale # "huge"
  /\ At(Cache, k) = {}
  /\ \E g \in Glyphs :
       /\ glyphs[g].refs = 0
       /\ \E r \in Store(Cache, k, g) : Become(r[1]) /\ Give(t, k, r[2])
  /\ UNCHANGED <<users, texts, drawing>>

\* The lock is given up to draw a Type 3 glyph.
BeginType3(t, k) ==
  /\ MayAsk(t, k) /\ fonts[k.font].kind = "t3"
  /\ At(Cache, k) = {}
  /\ Len(drawing[t]) < MaxDepth
  /\ drawing' = [drawing EXCEPT ![t] = <<k>> \o @]
  /\ UNCHANGED <<users, texts, fonts, glyphs, lru, total, hand>>

EndType3(t) ==
  LET k == Head(drawing[t])
  IN  /\ drawing[t] # <<>> /\ hand[t] = Empty
      /\ drawing' = [drawing EXCEPT ![t] = Tail(@)]
      /\ \E g \in Glyphs :
           /\ glyphs[g].refs = 0
           /\ \E r \in StoreType3(Cache, k, g) : Become(r[1]) /\ Give(t, k, r[2])
      /\ UNCHANGED <<users, texts>>

\* An empty glyph, or an exception.
FailType3(t) ==
  /\ drawing[t] # <<>> /\ hand[t] = Empty
  /\ drawing' = [drawing EXCEPT ![t] = Tail(@)]
  /\ UNCHANGED <<users, texts, fonts, glyphs, lru, total, hand>>

ReturnGlyph(t) ==
  /\ hand[t] # Empty
  /\ glyphs' = DropGlyph(glyphs, hand[t].glyph)
  /\ hand' = [hand EXCEPT ![t] = Empty]
  /\ UNCHANGED <<users, texts, fonts, lru, total, drawing>>

-----------------------------------------------------------------------------
(* Fonts, purging and contexts.                                            *)

NewFont(t, f) ==
  /\ t \in users /\ fonts[f].refs = 0 /\ fonts[f].gen < MaxGen
  /\ \E kind \in Kinds :
       fonts' = [fonts EXCEPT ![f] = [refs |-> 1, kind |-> kind, gen |-> @.gen + 1]]
  /\ texts' = texts \cup {<<t, f>>}
  /\ UNCHANGED <<users, glyphs, lru, total, drawing, hand>>

\* A display list is handed to another thread.
ShareFont(t, u, f) ==
  /\ <<t, f>> \in texts /\ u \in users /\ <<u, f>> \notin texts
  /\ fonts' = Keep(fonts, f)
  /\ texts' = texts \cup {<<u, f>>}
  /\ UNCHANGED <<users, glyphs, lru, total, drawing, hand>>

\* The texts with the glyphs that are being drawn are still in use.
DropFont(t, f) ==
  /\ <<t, f>> \in texts
  /\ \A i \in DOMAIN drawing[t] : drawing[t][i].font # f
  /\ fonts' = Drop(fonts, f)
  /\ texts' = texts \ {<<t, f>>}
  /\ UNCHANGED <<users, glyphs, lru, total, drawing, hand>>

Idle(t) == t \in users /\ drawing[t] = <<>> /\ hand[t] = Empty

\* fz_purge_glyph_cache, when a document is closed.
PurgeGlyphCache(t) ==
  /\ Idle(t) /\ lru # <<>>
  /\ Become(Purged(Cache))
  /\ UNCHANGED <<users, texts, drawing, hand>>

\* fz_new_glyph_cache_context, for the first context.
NewGlyphCacheContext(t) ==
  /\ users = {}
  /\ users' = {t} /\ lru' = <<>> /\ total' = 0
  /\ UNCHANGED <<texts, fonts, glyphs, drawing, hand>>

\* fz_keep_glyph_cache, when a context is cloned.
KeepGlyphCache(t) ==
  /\ users # {} /\ t \notin users
  /\ users' = users \cup {t}
  /\ UNCHANGED <<texts, fonts, glyphs, lru, total, drawing, hand>>

\* fz_drop_glyph_cache_context: the last context purges the cache.
DropGlyphCacheContext(t) ==
  /\ Idle(t) /\ \A f \in Fonts : <<t, f>> \notin texts
  /\ users' = users \ {t}
  /\ Become(IF users = {t} THEN Purged(Cache) ELSE Cache)
  /\ UNCHANGED <<texts, drawing, hand>>

Init ==
  /\ \E t \in Threads : users = {t}
  /\ texts = {}
  /\ fonts = [f \in Fonts |-> [refs |-> 0, kind |-> "ft", gen |-> 0]]
  /\ glyphs = [g \in Glyphs |-> Freed]
  /\ lru = <<>>
  /\ total = 0
  /\ drawing = [t \in Threads |-> <<>>]
  /\ hand = [t \in Threads |-> Empty]

Next ==
  \E t \in Threads :
    \/ \E k \in Keys : Find(t, k) \/ RenderOutline(t, k) \/ BeginType3(t, k)
    \/ EndType3(t) \/ FailType3(t) \/ ReturnGlyph(t)
    \/ \E f \in Fonts : NewFont(t, f) \/ DropFont(t, f)
    \/ \E f \in Fonts, u \in Threads : ShareFont(t, u, f)
    \/ PurgeGlyphCache(t) \/ NewGlyphCacheContext(t)
    \/ KeepGlyphCache(t) \/ DropGlyphCacheContext(t)

Spec == Init /\ [][Next]_vars
-----------------------------------------------------------------------------
(* Properties.                                                             *)

Shown == [key : Keys, gen : 1..MaxGen]

\* Every variable keeps its type; the cache is never left larger than it may
\* be, and the texts of a thread have their fonts, those with the Type 3
\* glyphs it draws included.
TypeOK ==
  /\ users \subseteq Threads /\ texts \subseteq users \X Fonts
  /\ fonts \in [Fonts -> [refs : Nat, kind : Kinds, gen : 0..MaxGen]]
  /\ glyphs \in [Glyphs -> [refs : Nat, shows : Shown \cup {None}]]
  /\ lru \in Seq([key : Keys, val : Glyphs])
  /\ total \in 0..MaxCacheSize
  /\ drawing \in [Threads -> Seq(Keys)]
  /\ hand \in [Threads -> [glyph : Glyphs, asked : Shown] \cup {Empty}]
  /\ \A t \in Threads : \A i \in DOMAIN drawing[t] : <<t, drawing[t][i].font>> \in texts
  /\ \A t \in Threads : hand[t] # Empty => t \in users

\* However threads and drawings within drawings overlap while the lock is
\* given up, only one glyph gets inserted into the cache for a key, and the
\* total is the size of what is there.
CacheInOrder ==
  /\ \A i, j \in DOMAIN lru : lru[i].key = lru[j].key => i = j
  /\ total = FoldLeft(LAMBDA n, e : n + Size[e.key], 0, lru)

\* Every count is the number of references there are: nothing is freed too
\* early, and when the last context is gone nothing of the cache is left.
CountsExact ==
  /\ \A g \in Glyphs :
       glyphs[g].refs = Cardinality({i \in DOMAIN lru : lru[i].val = g})
                      + Cardinality({t \in Threads : hand[t].glyph = g})
  /\ \A f \in Fonts :
       fonts[f].refs = Cardinality({i \in DOMAIN lru : lru[i].key.font = f})
                     + Cardinality({t \in Threads : <<t, f>> \in texts})
  /\ users = {} => lru = <<>>

\* A caller has the glyph it asked for, although keys know fonts by their
\* addresses only and other threads purge and evict: no entry outlives its
\* font, and no glyph that a caller or the cache has is used for another.
GlyphsAreTheirs ==
  /\ \A i \in DOMAIN lru : glyphs[lru[i].val].shows = Shows(lru[i].key)
  /\ \A t \in Threads : hand[t] # Empty => glyphs[hand[t].glyph].shows = hand[t].asked
=============================================================================
