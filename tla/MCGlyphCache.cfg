SPECIFICATION Spec
CONSTANTS
  Threads = {t1, t2}
  Fonts = {f1, f2}
  f1 = f1
  f2 = f2
  Glyphs = {g1, g2, g3, g4}
  Keys <- MCKeys
  Size <- MCSize
  MaxCacheSize = 2
  MaxGen = 2
  MaxDepth = 2
  None = None
SYMMETRY Symmetry
INVARIANTS TypeOK CacheInOrder CountsExact GlyphsAreTheirs
