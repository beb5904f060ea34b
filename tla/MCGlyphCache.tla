----------------------------- MODULE MCGlyphCache -----------------------------
EXTENDS GlyphCache, TLC

CONSTANTS f1, f2

Key(f, n, s) == [font |-> f, gid |-> n, scale |-> s]

\* Two glyphs of one font, of which the second fills the cache, one of the
\* other font, and one of each kind that is not cached.
MCKeys ==
  {Key(f1, 1, "small"), Key(f1, 2, "small"), Key(f2, 1, "small"),
   Key(f2, 1, "wide"), Key(f2, 1, "huge")}
MCSize == [k \in MCKeys |-> k.gid]

Symmetry == Permutations(Threads) \cup Permutations(Glyphs)
=============================================================================
