------------------------------- MODULE Rpc -------------------------------
(***************************************************************************)
(* What a command transport of the U25N driver promises to the code that   *)
(* calls it: a call is made once, at most one reply is ever handed to it,  *)
(* and it returns, with the result of the reply or with an error of its    *)
(* own.  Retransmission, queueing, sequence numbers, reference counts and  *)
(* timers are nowhere to be seen; Emcdi and Mcdi both implement this module.*)
(***************************************************************************)
CONSTANTS
    Calls,    \* the calls that may be made
    Replies   \* the result codes a reply can carry

(* The errors of the transport itself.                                     *)
Errors  == {"ENETDOWN", "ENOMEM", "ETIMEDOUT"}

VARIABLES
    call,    \* call[c]: "idle", "active" or "returned"
    reply,   \* reply[c]: what the completer of c was given, or "none"
    result   \* result[c]: what the call returned, or "none"

vars == <<call, reply, result>>

Init ==
    /\ call = [c \in Calls |-> "idle"]
    /\ reply = [c \in Calls |-> "none"]
    /\ result = [c \in Calls |-> "none"]

Begin(c) ==
    /\ call[c] = "idle"
    /\ call' = [call EXCEPT ![c] = "active"]
    /\ UNCHANGED <<reply, result>>

(* Replies may be handed to several calls at once, when the transport fails *)
(* with all of them, and after a call gave up; never two to the same call.  *)
Reply ==
    /\ reply' \in [Calls -> Replies \cup {"none"}]
    /\ \A c \in Calls : reply'[c] # reply[c] => call[c] # "idle" /\ reply[c] = "none"
    /\ UNCHANGED <<call, result>>

Finish(c) ==
    /\ call[c] = "active"
    /\ reply[c] # "none"
    /\ call' = [call EXCEPT ![c] = "returned"]
    /\ result' = [result EXCEPT ![c] = reply[c]]
    /\ UNCHANGED reply

Fail(c) ==
    /\ call[c] # "returned"
    /\ call' = [call EXCEPT ![c] = "returned"]
    /\ \E e \in Errors : result' = [result EXCEPT ![c] = e]
    /\ UNCHANGED reply

Next == Reply \/ \E c \in Calls : Begin(c) \/ Finish(c) \/ Fail(c)

SafeSpec == Init /\ [][Next]_vars

Spec == SafeSpec /\ \A c \in Calls : WF_vars(call[c] = "active" /\ (Finish(c) \/ Fail(c)))
===========================================================================
