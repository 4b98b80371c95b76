---------------------------- MODULE MC_Axienet ----------------------------
(* An instance of Axienet for TLC.                                          *)
EXTENDS Axienet

(* The stack sends to one queue and an application through the other, one   *)
(* of them the queue that is stopped for all.  Or what arrives is relayed.  *)
SendOrReceive == {{<<"stack", 0>>, <<"app", 1>>}, {<<"stack", 1>>, <<"app", 0>>},
                  {<<"wire", 0>>, <<"poll", 0>>}}

===========================================================================
