------------------------------ MODULE MC_Reset ------------------------------
(* Instances of Reset for TLC.                                              *)
EXTENDS Reset, TLC


=============================================================================
