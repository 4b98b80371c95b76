----------------------------- MODULE Axienet -----------------------------
(***************************************************************************)
(* The Ethernet driver of the card's processor (u25n_mcdma_driver): the    *)
(* transmit rings of the MCDMA channels, the receive ring of one channel,  *)
(* their interrupts, and the relay of eMCDI messages.  What arrives is     *)
(* given to the network stack or to an application (netlink), or sent back *)
(* to the host at once, by the poll; applications send by netlink          *)
(* messages.  These two call ndo_start_xmit themselves, under              *)
(* netif_tx_lock.                                                          *)
(***************************************************************************)
EXTENDS Integers, FiniteSets

CONSTANTS
    NumQueues,    \* the transmit queues, each with a channel and a ring of its own
    TxSize,       \* tx_bd_num
    RxSize,       \* rx_bd_num
    MaxFrags,     \* the fragments of a packet besides its head
    Quota,        \* NAPI_POLL_WEIGHT
    Traffics,     \* bound: the sets of flows one of which a behaviour has, see Flows
    MaxFailures,  \* bound: how often there is no memory for a receive buffer
    MaxMessages,  \* bound: how many messages applications send
    GoOn          \* bound: whether a behaviour goes on when two handlers met in a ring

(* CIRC_SPACE masks with the size of the ring less one.                     *)
ASSUME TxSizePowerOfTwo == \E k \in 1..12 : TxSize = 2^k
ASSUME SizesPos         == {NumQueues, TxSize, RxSize, Quota} \subseteq Nat \ {0}
ASSUME PacketFits       == MaxFrags \in Nat /\ MaxFrags + 2 <= TxSize
ASSUME BoundsNat        == MaxFailures \in Nat /\ MaxMessages \in Nat
ASSUME GoOnBoolean      == GoOn \in BOOLEAN

VARIABLES
    tail, ci,     \* tx_bd_tail and tx_bd_ci of each queue
    hw,           \* where the engine is in the ring of each queue
    bd,           \* the descriptors of each queue: "free", "owned" by the engine or "done"
    skb,          \* tx_skb of a descriptor: "none", a packet that is "kept", or one "freed"
    misfreed,     \* history: a packet was freed twice, or forgotten without being freed
    stopped,      \* the stack's queue 0 is stopped: netif_stop_queue knows no other
    tx_ioc,       \* IOC in the status register of each transmit channel
    sender,       \* how far each call of ndo_start_xmit is
    txlock,       \* who holds netif_tx_lock
    messages,     \* what MaxMessages leaves
    irq,          \* how far the handler of each transmit interrupt is: a line for each queue
    crossed,      \* history: two handlers were in the ring of one queue at once
    rx_bd,        \* the receive descriptors: "posted", with the engine ("hw") or "done"
    rx_ci, rx_hw, \* where the driver and the engine are
    rx_ioc,       \* IOC in the status register of the receive channel
    masked,       \* its interrupt is disabled
    napi,         \* its poll is scheduled
    poll,         \* how far the poll is, and its work_done
    failures,     \* what MaxFailures leaves
    left,         \* history: a poll ended with descriptors done that nothing announces
    traffic       \* the flows of this behaviour

txVars   == <<tail, ci, hw, bd, skb, misfreed>>
irqVars  == <<irq, crossed>>
sendVars == <<sender, txlock, messages>>
rxVars   == <<rx_bd, rx_ci, rx_hw, rx_ioc, masked, napi, poll, failures, left>>
vars == <<txVars, stopped, tx_ioc, sendVars, irqVars, rxVars, traffic>>

Queues  == 0 .. NumQueues - 1
TxBds   == 0 .. TxSize - 1
RxBds   == 0 .. RxSize - 1

(* Who calls ndo_start_xmit: the stack for each queue, the netlink callback *)
(* and the poll of the receive channel.                                     *)
Stack(q) == <<"stack", q>>
App      == <<"app", 0>>
Poll     == <<"poll", 0>>
Nobody   == <<"nobody", 0>>
Senders  == {Stack(q) : q \in Queues} \cup {App, Poll}

(* What may come and where it goes: packets of the stack, of applications   *)
(* and of the poll for a queue, and what the wire brings.                   *)
Flows == ({"stack", "app", "poll"} \X Queues) \cup {<<"wire", 0>>}

ASSUME TrafficsAreFlows == Traffics \subseteq SUBSET Flows

Quiet    == [pc |-> "idle", queue |-> 0, frags |-> 0]
QuietIrq == [pc |-> "idle", queue |-> 0, at |-> 0]

Init ==
    /\ tail = [q \in Queues |-> 0] /\ ci = [q \in Queues |-> 0] /\ hw = [q \in Queues |-> 0]
    /\ bd = [q \in Queues |-> [i \in TxBds |-> "free"]]
    /\ skb = [q \in Queues |-> [i \in TxBds |-> "none"]]
    /\ misfreed = FALSE
    /\ stopped = FALSE
    /\ tx_ioc = [q \in Queues |-> FALSE]
    /\ sender = [s \in Senders |-> Quiet] /\ txlock = Nobody /\ messages = MaxMessages
    /\ irq = [l \in Queues |-> QuietIrq] /\ crossed = FALSE
    /\ rx_bd = [i \in RxBds |-> "hw"] /\ rx_ci = 0 /\ rx_hw = 0
    /\ rx_ioc = FALSE /\ masked = FALSE /\ napi = FALSE
    /\ poll = [pc |-> "idle", work |-> 0]
    /\ failures = MaxFailures /\ left = FALSE
    /\ traffic \in Traffics

----------------------------------------------------------------------------
(* axienet_queue_xmit, with interrupts off and q->tx_lock held              *)

(* axienet_check_tx_bd_space                                                *)
Space(q, frags) ==
    /\ (ci[q] - (tail[q] + 1)) % TxSize >= frags + 1
    /\ bd[q][(tail[q] + frags) % TxSize] # "done"

XmitEnds(s) ==
    /\ sender' = [sender EXCEPT ![s] = Quiet]
    /\ txlock' = IF txlock = s THEN Nobody ELSE txlock

(* The descriptors are filled and given to the engine.  The last one keeps  *)
(* the packet.                                                              *)
Write(q, frags) ==
    LET last == (tail[q] + frags) % TxSize
        used == {(tail[q] + k) % TxSize : k \in 0 .. frags}
    IN  /\ bd' = [bd EXCEPT ![q] = [i \in TxBds |-> IF i \in used THEN "owned" ELSE @[i]]]
        /\ skb' = [skb EXCEPT ![q][last] = "kept"]
        /\ misfreed' = (misfreed \/ skb[q][last] = "kept")
        /\ tail' = [tail EXCEPT ![q] = (last + 1) % TxSize]
        /\ UNCHANGED <<ci, hw>>

(* The first look at the ring and what is written when there is space: an   *)
(* interrupt that runs meanwhile only makes more of it.                     *)
Attempt(s, q, frags) ==
    \/ /\ Space(q, frags)
       /\ Write(q, frags)
       /\ sender' = [sender EXCEPT ![s] = Quiet]
       /\ UNCHANGED txlock
    \/ /\ ~Space(q, frags)
       /\ sender' = [sender EXCEPT ![s] = [pc |-> "full", queue |-> q, frags |-> frags]]
       /\ txlock' = IF s \in {App, Poll} THEN s ELSE txlock
       /\ UNCHANGED txVars

(* The stack calls it for a queue that is not stopped, under the lock of    *)
(* that queue; whoever holds netif_tx_lock has frozen the queues.           *)
XmitStack(q, frags) ==
    /\ <<"stack", q>> \in traffic
    /\ sender[Stack(q)].pc = "idle"
    /\ txlock = Nobody
    /\ q = 0 => ~stopped
    /\ Attempt(Stack(q), q, frags)
    /\ UNCHANGED <<messages, stopped, tx_ioc, irqVars, rxVars, traffic>>

(* The netlink callback and the poll ask for netif_tx_lock, get it and call.*)
XmitDirect(s) ==
    /\ sender[s].pc = "lock"
    /\ txlock = Nobody
    /\ \A q \in Queues : sender[Stack(q)].pc = "idle"
    /\ Attempt(s, sender[s].queue, sender[s].frags)
    /\ UNCHANGED <<messages, stopped, tx_ioc, irqVars, rxVars, traffic>>

(* If queue 0 is stopped already NETDEV_TX_BUSY is returned: the stack      *)
(* keeps the packet, the others forget it.  Otherwise it is stopped.        *)
XmitStop(s) ==
    /\ sender[s].pc = "full"
    /\ \/ stopped /\ XmitEnds(s) /\ UNCHANGED stopped
       \/ /\ ~stopped
          /\ stopped' = TRUE
          /\ sender' = [sender EXCEPT ![s].pc = "recheck"]
          /\ UNCHANGED txlock
    /\ UNCHANGED <<txVars, messages, tx_ioc, irqVars, rxVars, traffic>>

(* The space is not checked again.                                          *)
XmitRecheck_Never_X(s) ==
    /\ sender[s].pc = "recheck"
    /\ XmitEnds(s)
    /\ UNCHANGED <<txVars, messages, stopped, tx_ioc, irqVars, rxVars, traffic>>

XmitRecheck(s) ==
    /\ sender[s].pc = "recheck"
    /\ XmitEnds(s)
    /\ IF Space(sender[s].queue, sender[s].frags)
       THEN stopped' = FALSE /\ Write(sender[s].queue, sender[s].frags)
       ELSE UNCHANGED <<stopped, txVars>>
    /\ UNCHANGED <<messages, tx_ioc, irqVars, rxVars, traffic>>

XmitStep(s) == XmitDirect(s) \/ XmitStop(s) \/ XmitRecheck(s)

----------------------------------------------------------------------------
(* The engine completes descriptors in their order; when it announces them  *)
(* later, for several at once, nothing differs.                             *)
EngineSends(q) ==
    /\ bd[q][hw[q]] = "owned"
    /\ bd' = [bd EXCEPT ![q][hw[q]] = "done"]
    /\ hw' = [hw EXCEPT ![q] = (@ + 1) % TxSize]
    /\ tx_ioc' = [tx_ioc EXCEPT ![q] = TRUE]
    /\ UNCHANGED <<tail, ci, skb, misfreed, stopped, sendVars, irqVars, rxVars, traffic>>

----------------------------------------------------------------------------
(* axienet_mcdma_tx_irq, on a line for each queue: all of them have this    *)
(* handler, several CPUs may be in it                                       *)

irqLeaves == <<txVars, stopped, sendVars, rxVars, traffic>>   \* what comes before a ring is reaped

IrqAt(l, pc) == irq' = [irq EXCEPT ![l].pc = pc]

(* The line of a channel is up while the channel has an interrupt pending.  *)
IrqEnter(l) ==
    /\ irq[l].pc = "idle"
    /\ tx_ioc[l]
    /\ IrqAt(l, "select")
    /\ UNCHANGED <<irqLeaves, tx_ioc, crossed>>

(* map_dma_q_txirq: the first channel that has an interrupt pending,        *)
(* whichever line this is; its status says so too.  Other handlers may have *)
(* acknowledged all of them.                                                *)
IrqSelect(l) ==
    /\ irq[l].pc = "select"
    /\ \/ /\ \A q \in Queues : ~tx_ioc[q]
          /\ irq' = [irq EXCEPT ![l] = QuietIrq]
       \/ \E q \in Queues :
             /\ tx_ioc[q]
             /\ \A r \in 0 .. q - 1 : ~tx_ioc[r]
             /\ irq' = [irq EXCEPT ![l] = [pc |-> "ack", queue |-> q, at |-> 0]]
    /\ UNCHANGED <<irqLeaves, tx_ioc, crossed>>

Reaping(l, q) == irq[l].queue = q /\ irq[l].pc \in {"look", "clear"}

(* The status is written back, which acknowledges it.                       *)
IrqAck(l) ==
    /\ irq[l].pc = "ack"
    /\ tx_ioc' = [tx_ioc EXCEPT ![irq[l].queue] = FALSE]
    /\ IrqAt(l, "look")
    /\ crossed' = (crossed \/ \E m \in Queues : Reaping(m, irq[l].queue))
    /\ UNCHANGED irqLeaves

(* axienet_start_xmit_done, without q->tx_lock: tx_bd_ci is read, and the   *)
(* status of the descriptor it stands at.  The packet is freed with the last*)
(* of its descriptors.                                                      *)
ReapBd(l) ==
    LET q == irq[l].queue
        i == ci[q]
    IN  /\ irq[l].pc = "look"
        /\ bd[q][i] = "done"
        /\ skb' = [skb EXCEPT ![q][i] = IF @ = "none" THEN "none" ELSE "freed"]
        /\ misfreed' = (misfreed \/ skb[q][i] = "freed")
        /\ irq' = [irq EXCEPT ![l] = [pc |-> "clear", queue |-> q, at |-> i]]
        /\ UNCHANGED <<tail, ci, hw, bd, stopped, tx_ioc, crossed, sendVars, rxVars, traffic>>

ReapEnd(l) ==
    /\ irq[l].pc = "look"
    /\ bd[irq[l].queue][ci[irq[l].queue]] # "done"
    /\ IrqAt(l, "wake")
    /\ UNCHANGED <<irqLeaves, tx_ioc, crossed>>

(* tx_skb of the descriptor stays.                                          *)
ReapClear_KeepsSkb_X(l) ==
    LET q == irq[l].queue
        i == irq[l].at
    IN  /\ irq[l].pc = "clear"
        /\ bd' = [bd EXCEPT ![q][i] = "free"]
        /\ misfreed' = (misfreed \/ skb[q][i] = "kept")
        /\ \E c \in {i, ci[q]} : ci' = [ci EXCEPT ![q] = (c + 1) % TxSize]
        /\ IrqAt(l, "look")
        /\ UNCHANGED <<tail, hw, skb, stopped, tx_ioc, crossed, sendVars, rxVars, traffic>>

(* The fields of the descriptor are cleared and tx_bd_ci goes on, from the  *)
(* value it had or, when another handler wrote it meanwhile, from that.     *)
ReapClear(l) ==
    LET q == irq[l].queue
        i == irq[l].at
    IN  /\ irq[l].pc = "clear"
        /\ bd' = [bd EXCEPT ![q][i] = "free"]
        /\ skb' = [skb EXCEPT ![q][i] = "none"]
        /\ misfreed' = (misfreed \/ skb[q][i] = "kept")
        /\ \E c \in {i, ci[q]} : ci' = [ci EXCEPT ![q] = (c + 1) % TxSize]
        /\ IrqAt(l, "look")
        /\ UNCHANGED <<tail, hw, stopped, tx_ioc, crossed, sendVars, rxVars, traffic>>

(* netif_tx_wake_all_queues                                                 *)
IrqWake(l) ==
    /\ irq[l].pc = "wake"
    /\ stopped' = FALSE
    /\ irq' = [irq EXCEPT ![l] = QuietIrq]
    /\ UNCHANGED <<txVars, tx_ioc, crossed, sendVars, rxVars, traffic>>

IrqStep(l) == \/ IrqEnter(l) \/ IrqSelect(l) \/ IrqAck(l)
              \/ ReapBd(l) \/ ReapClear(l) \/ ReapEnd(l) \/ IrqWake(l)

----------------------------------------------------------------------------
(* The receive ring                                                         *)

otherVars == <<txVars, stopped, tx_ioc, irqVars>>   \* what receiving leaves alone

EngineReceives ==
    /\ <<"wire", 0>> \in traffic
    /\ rx_bd[rx_hw] = "hw"
    /\ rx_bd' = [rx_bd EXCEPT ![rx_hw] = "done"]
    /\ rx_hw' = (rx_hw + 1) % RxSize
    /\ rx_ioc' = TRUE
    /\ UNCHANGED <<otherVars, sendVars, rx_ci, masked, napi, poll, failures, left, traffic>>

(* axienet_mcdma_rx_irq                                                     *)
RxIrq ==
    /\ rx_ioc
    /\ ~masked
    /\ masked' = TRUE
    /\ napi' = TRUE
    /\ UNCHANGED <<otherVars, sendVars, rx_bd, rx_ci, rx_hw, rx_ioc, poll, failures, left, traffic>>

PollAt(pc) == poll' = [poll EXCEPT !.pc = pc]

(* xaxienet_rx_poll                                                         *)
PollStatus(work) ==
    /\ IF rx_ioc /\ work < Quota
       THEN rx_ioc' = FALSE /\ poll' = [pc |-> "recv", work |-> work]
       ELSE UNCHANGED rx_ioc /\ poll' = [pc |-> "end", work |-> work]
    /\ UNCHANGED <<otherVars, sendVars, rx_bd, rx_ci, rx_hw, masked, napi, failures, left, traffic>>

PollStart == napi /\ poll.pc = "idle" /\ PollStatus(0)
PollAgain == poll.pc = "status" /\ PollStatus(poll.work)

(* The poll takes more than its quota.                                      *)
MayReceive_Over_X == poll.pc = "recv" /\ rx_bd[rx_ci] = "done"

MayReceive == poll.pc = "recv" /\ poll.work < Quota /\ rx_bd[rx_ci] = "done"

(* axienet_recv takes a descriptor.                                         *)
Receive(pc) ==
    /\ MayReceive
    /\ rx_bd' = [rx_bd EXCEPT ![rx_ci] = "posted"]
    /\ rx_ci' = (rx_ci + 1) % RxSize
    /\ poll' = [pc |-> pc, work |-> poll.work + 1]
    /\ UNCHANGED <<otherVars, rx_hw, rx_ioc, masked, napi, failures, left, txlock, messages,
                   traffic>>

(* For the stack or for an application.                                     *)
RecvUp == Receive("recv") /\ UNCHANGED sender

(* A counter packet, sent back by the poll.                                 *)
RecvCounter(q) ==
    /\ <<"poll", q>> \in traffic
    /\ Receive("relay")
    /\ sender' = [sender EXCEPT ![Poll] = [pc |-> "lock", queue |-> q, frags |-> 0]]

Relayed ==
    /\ poll.pc = "relay"
    /\ sender[Poll].pc = "idle"
    /\ PollAt("recv")
    /\ UNCHANGED <<otherVars, sendVars, rx_bd, rx_ci, rx_hw, rx_ioc, masked, napi, failures, left,
                   traffic>>

(* The end of axienet_recv: the engine gets what was posted.                *)
RecvEnds ==
    /\ PollAt("status")
    /\ rx_bd' = [i \in RxBds |-> IF rx_bd[i] = "posted" THEN "hw" ELSE rx_bd[i]]
    /\ UNCHANGED <<otherVars, sendVars, rx_ci, rx_hw, masked, napi, left, traffic>>

RecvDone == poll.pc = "recv" /\ ~MayReceive /\ RecvEnds /\ UNCHANGED <<rx_ioc, failures>>

RecvNoMemory ==
    /\ MayReceive
    /\ failures > 0
    /\ failures' = failures - 1
    /\ RecvEnds /\ UNCHANGED rx_ioc

(* The status is acknowledged when the poll ends.                           *)
PollEnd_Acks_X ==
    /\ poll.pc = "end"
    /\ poll.work < Quota
    /\ napi' = FALSE /\ rx_ioc' = FALSE
    /\ PollAt("unmask")
    /\ left' = (left \/ (rx_bd[rx_ci] = "done" /\ ~rx_ioc))
    /\ UNCHANGED <<otherVars, sendVars, rx_bd, rx_ci, rx_hw, masked, failures, traffic>>

(* The poll ends for good while it still has its quota.                     *)
PollEnd ==
    /\ poll.pc = "end"
    /\ IF poll.work < Quota
       THEN /\ napi' = FALSE
            /\ PollAt("unmask")
            /\ left' = (left \/ (rx_bd[rx_ci] = "done" /\ ~rx_ioc))
       ELSE poll' = [pc |-> "idle", work |-> 0] /\ UNCHANGED <<napi, left>>
    /\ UNCHANGED <<otherVars, sendVars, rx_bd, rx_ci, rx_hw, rx_ioc, masked, failures, traffic>>

PollUnmask ==
    /\ poll.pc = "unmask"
    /\ masked' = FALSE
    /\ poll' = [pc |-> "idle", work |-> 0]
    /\ UNCHANGED <<otherVars, sendVars, rx_bd, rx_ci, rx_hw, rx_ioc, napi, failures, left, traffic>>

RecvStep == RecvUp \/ Relayed \/ RecvDone \/ RecvNoMemory
            \/ \E q \in Queues : RecvCounter(q)
PollStep == PollStart \/ PollAgain \/ RecvStep \/ PollEnd \/ PollUnmask

(* nl_recv_msg, on another CPU than the poll.                               *)
AppSends(q) ==
    /\ <<"app", q>> \in traffic
    /\ sender[App].pc = "idle"
    /\ messages > 0
    /\ messages' = messages - 1
    /\ sender' = [sender EXCEPT ![App] = [pc |-> "lock", queue |-> q, frags |-> 0]]
    /\ UNCHANGED <<otherVars, txlock, rxVars, traffic>>

----------------------------------------------------------------------------

Next ==
    /\ GoOn \/ ~crossed
    /\ \/ \E q \in Queues :
             EngineSends(q) \/ AppSends(q) \/ \E frags \in 0 .. MaxFrags : XmitStack(q, frags)
       \/ \E s \in Senders : XmitStep(s)
       \/ \E l \in Queues : IrqStep(l)
       \/ EngineReceives \/ RxIrq \/ PollStep

Spec == Init /\ [][Next]_vars

(* The interrupt is taken, a scheduled poll runs, and the call it makes gets *)
(* netif_tx_lock when others return it again and again.                     *)
Fairness ==
    /\ WF_vars(RxIrq)
    /\ WF_vars(PollStep)
    /\ SF_vars(XmitStep(Poll))

FairSpec == Spec /\ Fairness

----------------------------------------------------------------------------
(* Properties                                                               *)

(* Every variable stays in its domain.                                      *)
TypeOK ==
    /\ {tail, ci, hw} \subseteq [Queues -> TxBds]
    /\ bd \in [Queues -> [TxBds -> {"free", "owned", "done"}]]
    /\ skb \in [Queues -> [TxBds -> {"none", "kept", "freed"}]]
    /\ {misfreed, crossed, stopped, rx_ioc, masked, napi, left} \subseteq BOOLEAN
    /\ tx_ioc \in [Queues -> BOOLEAN]
    /\ sender \in [Senders -> [pc : {"idle", "lock", "full", "recheck"},
                               queue : Queues, frags : 0 .. MaxFrags]]
    /\ txlock \in {Nobody, App, Poll} /\ messages \in 0 .. MaxMessages
    /\ irq \in [Queues -> [pc : {"idle", "select", "ack", "look", "clear", "wake"},
                            queue : Queues, at : TxBds]]
    /\ rx_bd \in [RxBds -> {"posted", "hw", "done"}]
    /\ rx_ci \in RxBds /\ rx_hw \in RxBds
    /\ poll \in [pc : {"idle", "status", "recv", "relay", "end", "unmask"}, work : 0 .. Quota]
    /\ failures \in 0 .. MaxFailures
    /\ traffic \in Traffics

(* While packets are written under the lock and completions are reaped      *)
(* without it, by handlers on several lines, the descriptors in use are     *)
(* exactly those from tx_bd_ci up to tx_bd_tail, and no packet is           *)
(* overwritten or forgotten before it was freed, none freed twice           *)
(* (xilinx_axienet_main.c:880), unless two handlers met in the ring of one  *)
(* queue: nothing keeps them from it (mcdma.c:359), and then they may.      *)
BdsExact ==
    ~crossed =>
       /\ ~misfreed
       /\ \A q \in Queues :
             {i \in TxBds : bd[q][i] # "free"} =
                {(ci[q] + k) % TxSize : k \in 0 .. ((tail[q] - ci[q]) % TxSize) - 1}

(* While queue 0 is stopped, also when a packet for another queue stopped   *)
(* it, somebody is going to wake it: the sender that looks at the ring      *)
(* again, a handler that acknowledged a channel, or the engine, which has   *)
(* descriptors to complete or announces some.  The completion that makes    *)
(* room and the second look do not miss each other                          *)
(* (xilinx_axienet_main.c:1152), unless two handlers met in the ring of one *)
(* queue and went past a descriptor (:831).                                 *)
StoppedIsWoken ==
    stopped /\ ~crossed =>
      \/ \E s \in Senders : sender[s].pc = "recheck"
      \/ \E l \in Queues : irq[l].pc = "wake" \/ \E q \in Queues : Reaping(l, q)
      \/ \E q \in Queues : tx_ioc[q] \/ \E i \in TxBds : bd[q][i] = "owned"

(* What the engine received is handled, whenever it is announced relative   *)
(* to the acknowledgement of the status, the end of the poll and the        *)
(* enabling of the interrupt, unless a poll ended at its quota, or without  *)
(* memory, and left descriptors whose announcement it had acknowledged      *)
(* (xilinx_axienet_main.c:1497).                                            *)
ReceivedHandled == \A i \in RxBds : rx_bd[i] = "done" ~> (rx_bd[i] # "done" \/ left)

=============================================================================
