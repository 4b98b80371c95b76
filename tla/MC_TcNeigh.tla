---------------------------- MODULE MC_TcNeigh ----------------------------
EXTENDS TcNeigh

CONSTANTS r1, r2, k1, k2, c1, c2, b1, b2, m1, m2

Base ==
    [ rules |-> {r1}, keys |-> {k1}, cpus |-> {c1}, most |-> 2,
      u25 |-> FALSE, fails |-> FALSE, remove |-> FALSE ]

(* Two tunnels to one remote address, changes on two CPUs.                   *)
Overtaking == [Base EXCEPT !.keys = {k1, k2}, !.cpus = {c1, c2}]

(* Requests fail.                                                            *)
Failing == [Base EXCEPT !.keys = {k1, k2}, !.most = 1, !.fails = TRUE, !.remove = TRUE]

(* Two rules share tunnels; the egress device is removed.                    *)
Removing == [Base EXCEPT !.rules = {r1, r2}, !.keys = {k1, k2}, !.most = 1, !.remove = TRUE]

(* Two rules share a tunnel on a U25.                                        *)
U25 == [Base EXCEPT !.rules = {r1, r2}, !.u25 = TRUE, !.remove = TRUE]

AllSettings == {Overtaking, Failing, Removing, U25}
===========================================================================
