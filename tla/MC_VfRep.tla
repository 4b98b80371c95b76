----------------------------- MODULE MC_VfRep -----------------------------
(* The processors as model values.                                          *)
EXTENDS VfRep

CONSTANTS p1, p2, p3

===========================================================================
