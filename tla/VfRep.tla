------------------------------ MODULE VfRep ------------------------------
(***************************************************************************)
(* The receive path of a VF representor (sfc/u25_rep.c).  Packets for the  *)
(* VF arrive on the RX channels of the physical function; the NAPI poll of *)
(* a channel appends them to the representor's rx_list, and the NAPI poll  *)
(* of the representor hands them to the network stack.  write_index and    *)
(* read_index tell the channels whether the representor's poll must be     *)
(* scheduled.                                                              *)
(*                                                                         *)
(* A CPU runs one poll at a time.  The representor is polled on the CPU    *)
(* that scheduled it.                                                      *)
(***************************************************************************)
EXTENDS Integers, Sequences

CONSTANTS
    CPUs,         \* the processors that poll the RX channels
    NoCPU,        \* no processor
    Weight,       \* NAPI_POLL_WEIGHT
    IndexSpace,   \* the indices are 0 .. IndexSpace - 1 (2^32)
    MaxPackets,   \* bound: how many packets ever arrive
    MayClose      \* whether the representor may be closed and opened again

ASSUME CPUsNamed     == NoCPU \notin CPUs
ASSUME WeightPos     == Weight \in Nat \ {0}
ASSUME IndexSpacePos == IndexSpace \in Nat \ {0, 1}
ASSUME PacketBound   == MaxPackets \in Nat
ASSUME CloseBool     == MayClose \in BOOLEAN

VARIABLES
    rx_list, write_index, read_index,   \* struct efx_vfrep
    sent, received,                     \* packets queued and delivered so far
    dev,       \* the representor: "down", "up", and the two stages of closing it
    napi,      \* efv->napi: "off", "idle" or "scheduled"
    missed,    \* NAPI_STATE_MISSED
    owner,     \* the CPU the poll is scheduled on
    cpu,       \* how far each CPU is in one of the two polls
    head,      \* the packets the representor's poll took off rx_list
    loaded,    \* write_index as a CPU read it after napi_complete_done
    raced      \* history: closed, or a packet queued in the gap of a poll on another CPU

queueVars == <<rx_list, write_index, read_index, sent>>
napiVars  == <<napi, missed, owner>>
vars == <<queueVars, received, dev, napiVars, cpu, head, loaded, raced>>

Indices == 0 .. IndexSpace - 1
Stages  == {"idle", "accepted", "primed", "grabbed", "completed", "storing"}

Init ==
    /\ rx_list = <<>>
    /\ write_index = 0
    /\ read_index = 0
    /\ sent = 0
    /\ received = 0
    /\ dev = "down"
    /\ napi = "off"
    /\ missed = FALSE
    /\ owner = NoCPU
    /\ cpu = [p \in CPUs |-> "idle"]
    /\ head = <<>>
    /\ loaded = [p \in CPUs |-> 0]
    /\ raced = FALSE

(* Between the last look of a poll at rx_list and its update of read_index. *)
InGap(p) == (cpu[p] = "grabbed" /\ Len(head) < Weight) \/ cpu[p] \in {"completed", "storing"}

Goto(p, stage) == cpu' = [cpu EXCEPT ![p] = stage]

----------------------------------------------------------------------------
(* efx_u25_rx_packet and efx_u25_vfrep_rx_packet, in the poll of a channel  *)

(* The flags of the net device still have IFF_UP until it is closed for     *)
(* good, well after its NAPI context was disabled.                          *)
RxAccept(p) ==
    /\ cpu[p] = "idle"
    /\ sent < MaxPackets
    /\ dev # "down"
    /\ Goto(p, "accepted")
    /\ UNCHANGED <<queueVars, received, dev, napiVars, head, loaded, raced>>

RxNoSkb(p) ==
    /\ cpu[p] = "accepted"
    /\ Goto(p, "idle")
    /\ UNCHANGED <<queueVars, received, dev, napiVars, head, loaded, raced>>

(* Names ending in _X are faulty variants of the definition they precede:   *)
(* substituted for it, they show that a property notices the fault.         *)

(* The indices are compared when the packet was counted already.            *)
RxQueue_PrimedLate_X(p) ==
    /\ cpu[p] = "accepted"
    /\ sent < MaxPackets
    /\ Goto(p, IF read_index = (write_index + 1) % IndexSpace THEN "primed" ELSE "idle")
    /\ rx_list' = Append(rx_list, sent + 1)
    /\ sent' = sent + 1
    /\ write_index' = (write_index + 1) % IndexSpace
    /\ raced' = (raced \/ \E q \in CPUs : InGap(q))
    /\ UNCHANGED <<read_index, received, dev, napiVars, head, loaded>>

(* Under rx_lock.                                                           *)
RxQueue(p) ==
    /\ cpu[p] = "accepted"
    /\ sent < MaxPackets
    /\ Goto(p, IF read_index = write_index THEN "primed" ELSE "idle")
    /\ rx_list' = Append(rx_list, sent + 1)
    /\ sent' = sent + 1
    /\ write_index' = (write_index + 1) % IndexSpace
    /\ raced' = (raced \/ \E q \in CPUs : InGap(q))
    /\ UNCHANGED <<read_index, received, dev, napiVars, head, loaded>>

(* napi_schedule: a poll that is scheduled, or held by napi_disable, is     *)
(* asked for another round; one that is being disabled takes no requests.   *)
RxTrigger(p) ==
    /\ cpu[p] = "primed"
    /\ Goto(p, "idle")
    /\ \/ dev = "closing" /\ UNCHANGED napiVars
       \/ /\ dev # "closing" /\ napi = "idle"
          /\ napi' = "scheduled" /\ owner' = p
          /\ UNCHANGED missed
       \/ /\ dev # "closing" /\ napi # "idle"
          /\ missed' = TRUE
          /\ UNCHANGED <<napi, owner>>
    /\ UNCHANGED <<queueVars, received, dev, head, loaded, raced>>

----------------------------------------------------------------------------
(* efx_u25_vfrep_poll                                                       *)

(* The packets taken are not unlinked.                                      *)
PollGrab_StillLinked_X(p) ==
    /\ cpu[p] = "idle"
    /\ napi = "scheduled"
    /\ owner = p
    /\ head' = SubSeq(rx_list, 1, IF Len(rx_list) < Weight THEN Len(rx_list) ELSE Weight)
    /\ Goto(p, "grabbed")
    /\ UNCHANGED <<queueVars, received, dev, napiVars, loaded, raced>>

(* Under rx_lock.                                                           *)
PollGrab(p) ==
    /\ cpu[p] = "idle"
    /\ napi = "scheduled"
    /\ owner = p
    /\ LET spent == IF Len(rx_list) < Weight THEN Len(rx_list) ELSE Weight
       IN  /\ head' = SubSeq(rx_list, 1, spent)
           /\ rx_list' = SubSeq(rx_list, spent + 1, Len(rx_list))
    /\ Goto(p, "grabbed")
    /\ UNCHANGED <<write_index, read_index, sent, received, dev, napiVars, loaded, raced>>

(* A full batch ends the poll.                                              *)
PollMore_Ends_X(p) ==
    /\ cpu[p] = "grabbed"
    /\ Len(head) = Weight
    /\ received' = received + Len(head)
    /\ head' = <<>>
    /\ Goto(p, "idle")
    /\ napi' = "idle"
    /\ owner' = NoCPU
    /\ UNCHANGED <<queueVars, missed, dev, loaded, raced>>

(* The packets go to the stack.  After a full batch the poll stays          *)
(* scheduled, unless it is being disabled.                                  *)
PollMore(p) ==
    /\ cpu[p] = "grabbed"
    /\ Len(head) = Weight
    /\ received' = received + Len(head)
    /\ head' = <<>>
    /\ Goto(p, "idle")
    /\ IF dev = "closing" /\ ~missed
       THEN napi' = "idle" /\ owner' = NoCPU
       ELSE UNCHANGED <<napi, owner>>
    /\ missed' = IF dev = "closing" THEN FALSE ELSE missed
    /\ UNCHANGED <<queueVars, dev, loaded, raced>>

(* napi_complete_done: only when nobody asked for another round is the poll *)
(* at an end, and from now on it may be scheduled on any CPU.               *)
PollComplete(p) ==
    /\ cpu[p] = "grabbed"
    /\ Len(head) < Weight
    /\ received' = received + Len(head)
    /\ head' = <<>>
    /\ missed' = FALSE
    /\ IF missed
       THEN Goto(p, "idle") /\ UNCHANGED <<napi, owner>>
       ELSE Goto(p, "completed") /\ napi' = "idle" /\ owner' = NoCPU
    /\ UNCHANGED <<queueVars, dev, loaded, raced>>

(* read_index = write_index, without rx_lock: a load and a store.           *)
IndexLoad(p) ==
    /\ cpu[p] = "completed"
    /\ loaded' = [loaded EXCEPT ![p] = write_index]
    /\ Goto(p, "storing")
    /\ UNCHANGED <<queueVars, received, dev, napiVars, head, raced>>

IndexStore(p) ==
    /\ cpu[p] = "storing"
    /\ read_index' = loaded[p]
    /\ loaded' = [loaded EXCEPT ![p] = 0]
    /\ Goto(p, "idle")
    /\ UNCHANGED <<rx_list, write_index, sent, received, dev, napiVars, head, raced>>

----------------------------------------------------------------------------
(* efx_u25_vfrep_open and efx_u25_vfrep_close.  What is left on rx_list and *)
(* in the two indices when the representor is closed is there when it is    *)
(* opened again.                                                            *)
Open ==
    /\ dev = "down"
    /\ dev' = "up"
    /\ napi' = "idle"
    /\ UNCHANGED <<queueVars, received, missed, owner, cpu, head, loaded, raced>>

CloseStart ==
    /\ MayClose
    /\ dev = "up"
    /\ dev' = "closing"
    /\ raced' = TRUE
    /\ UNCHANGED <<queueVars, received, napiVars, cpu, head, loaded>>

(* napi_disable waited until the poll was not scheduled, and keeps it.      *)
CloseDisabled ==
    /\ dev = "closing"
    /\ napi = "idle"
    /\ dev' = "disabled"
    /\ napi' = "off"
    /\ UNCHANGED <<queueVars, received, missed, owner, cpu, head, loaded, raced>>

CloseDone ==
    /\ dev = "disabled"
    /\ dev' = "down"
    /\ UNCHANGED <<queueVars, received, napiVars, cpu, head, loaded, raced>>

----------------------------------------------------------------------------
RxStep(p)   == RxNoSkb(p) \/ RxQueue(p) \/ RxTrigger(p)
PollStep(p) == PollGrab(p) \/ PollMore(p) \/ PollComplete(p) \/ IndexLoad(p) \/ IndexStore(p)
DevStep     == Open \/ CloseStart \/ CloseDisabled \/ CloseDone

Next ==
    \/ \E p \in CPUs : RxAccept(p) \/ RxStep(p) \/ PollStep(p)
    \/ DevStep

Spec == Init /\ [][Next]_vars

(* A CPU finishes the poll of a channel, and polls the contexts scheduled   *)
(* on it in turn: packets that keep arriving do not keep the representor    *)
(* from being polled.                                                       *)
FairSpec == Spec /\ \A p \in CPUs : WF_vars(RxStep(p)) /\ SF_vars(PollStep(p))

----------------------------------------------------------------------------
(* Properties                                                               *)

(* Every variable stays in its domain.                                      *)
TypeOK ==
    /\ rx_list \in Seq(1 .. MaxPackets)
    /\ head \in Seq(1 .. MaxPackets)
    /\ write_index \in Indices
    /\ read_index \in Indices
    /\ sent \in 0 .. MaxPackets
    /\ received \in 0 .. MaxPackets
    /\ dev \in {"down", "up", "closing", "disabled"}
    /\ napi \in {"off", "idle", "scheduled"}
    /\ missed \in BOOLEAN
    /\ owner \in CPUs \cup {NoCPU}
    /\ cpu \in [CPUs -> Stages]
    /\ loaded \in [CPUs -> Indices]
    /\ raced \in BOOLEAN

(* However the polls of the CPUs and the closing of the device interleave,  *)
(* the packets between the channels and the stack are exactly those not     *)
(* delivered yet, in the order in which they were queued: none is lost,     *)
(* duplicated or overtaken.                                                 *)
InOrder == head \o rx_list = [i \in 1 .. sent - received |-> received + i]

(* efx_u25_vfrep_rx_packet triggers the rx work for what it queued: when no *)
(* CPU is in the middle of a poll, an open representor with packets on its  *)
(* list has its poll scheduled.  Not so once a packet was queued in the gap *)
(* of a poll on another CPU (u25_rep.c:601), or after it was closed.        *)
RxTriggered ==
    (\A p \in CPUs : cpu[p] = "idle") /\ dev = "up" /\ rx_list # <<>> /\ ~raced
        => napi = "scheduled"

(* Every packet queued for the representor reaches the stack, with the same *)
(* exceptions.                                                              *)
EventuallyReceived == \A n \in 1 .. MaxPackets : sent >= n ~> (received >= n \/ raced)
=============================================================================
