---------------------------- MODULE MCGroupAuth ----------------------------
EXTENDS GroupAuth, TLC
CONSTANTS a1, c1, c2, ann, bob
HalfDays == [t \in Time |-> IF t < 2 THEN "d0" ELSE "d1"]
Symmetry == Permutations(Code) \union Permutations(Teacher)
=============================================================================
