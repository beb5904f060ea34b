----------------------------- MODULE MCPageCache -----------------------------
EXTENDS PageCache, TLC

CONSTANTS a, b

MCPages == 0..2
MCAnnots == {a, b}
MCPageOf == [x \in MCAnnots |-> 0]
MCPictures == {<<0, "main">>, <<0, "hq">>}
Symmetry == Permutations(MCAnnots)
=============================================================================
