---------------------------- MODULE MCJsonItems ----------------------------
EXTENDS JsonItems, TLC

Symmetry == Permutations(Items) \cup Permutations(Keys)
=============================================================================
