----------------------------- MODULE MC_Emcdi -----------------------------
EXTENDS Emcdi, TLC

Symmetry == Permutations(Cmds)
===========================================================================
