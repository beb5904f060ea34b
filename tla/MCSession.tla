------------------------------ MODULE MCSession ------------------------------
EXTENDS Session, TLC

CONSTANTS s1, s2, p1, b1, d1, d2

MCStrokes == {s1, s2}
MCPages == {p1}
MCBlankPages == {b1}
MCDests == {d1, d2}
MCPageOf == [s \in MCStrokes |-> p1]
AllFailures == {"write", "rename", "open", "copy"}
NoFailures == {}

Symmetry == Permutations(MCStrokes) \cup Permutations(MCDests)
=============================================================================
