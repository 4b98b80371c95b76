------------------------------ MODULE MC_Mcdi ------------------------------
EXTENDS Mcdi

CONSTANTS s, a, t   \* a call of each kind

Base == [ calls      |-> {s, a},
          answers    |-> {"OK"},
          late       |-> FALSE,
          lowMemory  |-> FALSE,
          impatient  |-> FALSE,
          interrupts |-> TRUE ]

(* Timeouts, fail mode and the reset, without event queues.                 *)
Polled ==
    [Base EXCEPT !.calls = {s, a, t}, !.answers = {"OK", "FULL"},
                 !.late = TRUE, !.impatient = TRUE, !.interrupts = FALSE]

(* ... with reboots of the MC.                                              *)
Rebooting == [Polled EXCEPT !.calls = {s, a}, !.answers = {"OK", "EIO", "FULL"}]

(* Commands that wait for another function.                                 *)
Proxied == [Base EXCEPT !.answers = {"OK", "PROXY"}]

(* Event queues that start and stop, and refusals.                          *)
Refused == [Base EXCEPT !.answers = {"OK", "FULL"}]

(* ... reboots and no memory for replies.                                   *)
Evented == [Base EXCEPT !.answers = {"OK", "EIO"}, !.lowMemory = TRUE]

PolledOrRefused == {Polled, Rebooting, Proxied, Refused}
EventedOnly == {Evented}
===========================================================================
