---------------------------- MODULE MC_TxQueue ----------------------------
EXTENDS TxQueue, TLC

(* Fewer packets where the poll rings the doorbells, which it does in many  *)
(* more steps.                                                              *)
Skbs == [c \in BOOLEAN |-> IF c THEN 2 ELSE 3]

===========================================================================
