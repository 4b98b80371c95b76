----------------------------- MODULE TxQueue -----------------------------
(***************************************************************************)
(* The transmit path of one channel of the sfc driver (tx.c, tx_common.c,  *)
(* the transmit part of ef10.c, and the transmit half of the NAPI poll in  *)
(* efx_channels.c).  The queues of a channel share one queue of the        *)
(* network stack, so that one of its flags stops them all.  The stack      *)
(* calls efx_hard_start_xmit for one packet at a time; the poll of the     *)
(* channel runs on another processor and takes completed packets off the   *)
(* rings, rings doorbells it asked the transmit path to leave to it, and   *)
(* wakes the queue of the stack.                                           *)
(*                                                                         *)
(* Memory is sequentially consistent: the code has a full barrier wherever *)
(* a store is followed by a load the other side must not miss.             *)
(***************************************************************************)
EXTENDS Integers, FiniteSets

CONSTANTS
    Queues,       \* the transmit queues of the channel
    NoQueue,      \* no queue
    Entries,      \* efx->txq_entries: the size of a ring, a power of two
    MaxDescs,     \* efx->type->tx_max_skb_descs(efx)
    PushFill,     \* tx_push_max_fill, as long as doorbells are not coalesced
    CountSpace,   \* the counters are 0 .. CountSpace - 1 (2^32)
    Starts,       \* bound: the counts at which an empty ring is first looked at
    MaxSkbs,      \* bound: how many packets the stack then hands over, with the
                  \* doorbells coalesced (TRUE) and without
    GoOn          \* bound: whether it does so even after the queue was woken
                  \* although too full for that, or descriptors were not announced

ASSUME QueuesNamed  == NoQueue \notin Queues /\ Queues # {} /\ IsFiniteSet(Queues)
ASSUME EntriesPos   == Entries \in Nat \ {0, 1}
ASSUME DescsFit     == MaxDescs \in 1 .. Entries - 1
ASSUME PushFillNat  == PushFill \in Nat
ASSUME CountsWrap   == CountSpace \in Nat /\ CountSpace % (2 * Entries) = 0 /\ CountSpace # 0
ASSUME StartCounts  == Starts \subseteq 0 .. CountSpace - 1
ASSUME SkbBound     == MaxSkbs \in [BOOLEAN -> Nat]
ASSUME GoOnBool     == GoOn \in BOOLEAN

VARIABLES
    insert_count, write_count, notify_count,  \* struct efx_tx_queue: written
    xmit_pending,                             \* by the transmit path
    read_count, old_write_count, empty_read_count,  \* written by the poll
    buffer,       \* the software ring: what each buffer holds
    doorbell,     \* the NIC: the ring pointer it was last given,
    done,         \* and the one up to which it reported completions
    stopped,      \* the driver stopped the queue of the stack
    holdoff,      \* channel->holdoff_doorbell
    coalesce,     \* the module parameter tx_coalesce_doorbell
    tx,           \* how far the transmit path is
    poll,         \* how far the poll of the channel is
    mapped,       \* how many DMA mappings there are
    skbs,         \* how many packets the stack handed over
    spurious,     \* history: a completion was reported as spurious
    overtaken,    \* history: the queue was woken although too full for that
    unsaid        \* history: descriptors counted as announced were not, or
                  \* differences of the counts of two queues cancelled

countVars == <<insert_count, write_count, notify_count, xmit_pending>>
doneVars  == <<read_count, old_write_count, empty_read_count>>
nicVars   == <<doorbell, done>>
flagVars  == <<stopped, holdoff, coalesce>>
histVars  == <<spurious, overtaken, unsaid>>
vars == <<countVars, doneVars, nicVars, flagVars, buffer, tx, poll, mapped, skbs, histVars>>

Counts == 0 .. CountSpace - 1
Slots  == 0 .. Entries - 1

txq_stop_thresh == Entries - MaxDescs
txq_wake_thresh == txq_stop_thresh \div 2

(* "map" is the last descriptor of a fragment, which unmaps it; "skb" is    *)
(* that of the last fragment, and frees the packet.                         *)
Ends  == {"skb", "copy", "pio"}
Kinds == {"free", "map"} \cup Ends

(* Names ending in _X are faulty variants of the definition they precede.   *)
Incr_NoWrap_X(count, n) == count + n

Incr(count, n)  == (count + n) % CountSpace
Slot(count)     == count % Entries
Span(first, n)  == {Slot(first + k) : k \in 0 .. n - 1}
Mapped(q, span) == Cardinality({i \in span : buffer[q][i] \in {"map", "skb"}})
Emptied(q, span) ==
    [buffer EXCEPT ![q] = [i \in Slots |-> IF i \in span THEN "free" ELSE buffer[q][i]]]

(* The buffers that will undo a DMA mapping.                                *)
Mappings == {s \in Queues \X Slots : buffer[s[1]][s[2]] \in {"map", "skb"}}

Fill(q) == (insert_count[q] - read_count[q]) % CountSpace

(* efx_for_each_channel_tx_queue goes through the queues in a fixed order.  *)
FirstOf(queues) == CHOOSE q \in queues : TRUE

(* efx_channel_tx_fill_level is the largest of them.                        *)
FillBelow(level) == \A q \in Queues : Fill(q) < level

(* __efx_nic_tx_is_empty: the counts are compared without their top bit.    *)
TxIsEmpty(q) == empty_read_count[q] = write_count[q] % (CountSpace \div 2)

NoTx   == [stage |-> "idle", q |-> NoQueue, from |-> 0, left |-> 0, more |-> FALSE, ring |-> NoQueue]
NoPoll == [stage |-> "idle", todo |-> {}, ring |-> NoQueue, low |-> FALSE,
           unsent |-> 0, read |-> 0, differ |-> FALSE]

Goto(stage) == tx' = [tx EXCEPT !.stage = stage]

(* The end of a packet.  efx_tx_tso_fallback sends the segments of a packet *)
(* one by one, whether or not the stack's queue was stopped in between; a   *)
(* segment takes one descriptor of the packet's at least.                   *)
Finish(left) ==
    \/ tx' = [NoTx EXCEPT !.more = tx.more]
    \/ left > 0 /\ tx' = [tx EXCEPT !.stage = "map", !.from = insert_count'[tx.q], !.left = left]

(* A packet fails: efx_tx_send_pending unless more packets follow.          *)
Failed ==
    LET left == IF tx.left > 0 THEN tx.left - 1 ELSE 0
    IN  IF tx.more THEN Finish(left) ELSE tx' = [tx EXCEPT !.stage = "push", !.left = left]

All(value) == [q \in Queues |-> value]

(* The rings are empty: as efx_init_tx_queue leaves them, or after as many  *)
(* packets as it takes for the counts to be these.                          *)
Init ==
    /\ \E c \in Starts :
          /\ insert_count = All(c) /\ write_count = All(c) /\ notify_count = All(c)
          /\ read_count = All(c) /\ old_write_count = All(c)
          /\ empty_read_count = All(c % (CountSpace \div 2))
          /\ doorbell = All(Slot(c)) /\ done = All(Slot(c))
    /\ xmit_pending = All(FALSE)
    /\ buffer = All([i \in Slots |-> "free"])
    /\ stopped = FALSE /\ holdoff = FALSE /\ coalesce \in BOOLEAN
    /\ tx = NoTx /\ poll = NoPoll
    /\ mapped = 0 /\ skbs = 0
    /\ spurious = FALSE /\ overtaken = FALSE /\ unsaid = FALSE

----------------------------------------------------------------------------
(* efx_hard_start_xmit and __efx_enqueue_skb                                *)

HandOver(more) ==
    /\ skbs + (IF more THEN 1 ELSE 0) < MaxSkbs[coalesce]
    /\ GoOn \/ ~(overtaken \/ unsaid)
    /\ skbs' = skbs + 1

(* With more the stack promises (netdev_xmit_more) that another packet      *)
(* follows.                                                                 *)
StartXmit(q, more) ==
    /\ tx.stage = "idle"
    /\ ~stopped
    /\ HandOver(more)
    /\ tx' = [stage |-> "map", q |-> q, from |-> insert_count[q], left |-> MaxDescs,
              more |-> more, ring |-> NoQueue]
    /\ UNCHANGED <<countVars, doneVars, nicVars, flagVars, buffer, poll, mapped, histVars>>

(* A PTP packet does not use these queues; earlier packets may be waiting   *)
(* for the doorbell it would have rung.                                     *)
StartPtpXmit(more) ==
    /\ tx.stage = "idle"
    /\ ~stopped
    /\ HandOver(more)
    /\ tx' = [NoTx EXCEPT !.stage = "push", !.more = more]
    /\ UNCHANGED <<countVars, doneVars, nicVars, flagVars, buffer, poll, mapped, histVars>>

(* The packet, or the segment, is complete in the ring.                     *)
Insert(kind) ==
    /\ insert_count' = [insert_count EXCEPT ![tx.q] = Incr(@, 1)]
    /\ buffer' = [buffer EXCEPT ![tx.q][Slot(insert_count[tx.q])] = kind]
    /\ tx' = [tx EXCEPT !.left = @ - 1, !.stage = IF kind \in Ends THEN "mapped" ELSE "map"]

InUse == buffer[tx.q][Slot(insert_count[tx.q])] # "free"

Inserted == Span(tx.from, (insert_count[tx.q] - tx.from) % CountSpace)

(* A packet that fails leaves its descriptors in the ring.                  *)
Unwind_Nothing_X(leaked) ==
    /\ mapped' = mapped + leaked
    /\ UNCHANGED <<insert_count, buffer>>
    /\ Failed

(* efx_enqueue_unwind.                                                      *)
Unwind(leaked) ==
    /\ buffer' = Emptied(tx.q, Inserted)
    /\ insert_count' = [insert_count EXCEPT ![tx.q] = tx.from]
    /\ mapped' = mapped - Mapped(tx.q, Inserted) + leaked
    /\ Failed

(* One round of efx_tx_map_data: a fragment is mapped for DMA.  If          *)
(* efx_tx_map_chunk finds the buffer in use, no buffer knows the mapping.   *)
MapFragment(kind) ==
    /\ tx.stage = "map"
    /\ kind = "skb" \/ tx.left > 1
    /\ IF InUse THEN Unwind(1)
                ELSE Insert(kind) /\ mapped' = mapped + 1
    /\ UNCHANGED <<write_count, notify_count, xmit_pending, doneVars, nicVars, flagVars, poll,
                   skbs, histVars>>

MapFails ==
    /\ tx.stage = "map"
    /\ Unwind(0)
    /\ UNCHANGED <<write_count, notify_count, xmit_pending, doneVars, nicVars, flagVars, poll,
                   skbs, histVars>>

(* efx_enqueue_skb_copy does not look whether the buffer is in use.         *)
CopyPacket ==
    /\ tx.stage = "map"
    /\ insert_count[tx.q] = tx.from
    /\ Insert("copy")
    /\ UNCHANGED <<write_count, notify_count, xmit_pending, doneVars, nicVars, flagVars, poll,
                   mapped, skbs, histVars>>

(* Only the ring of the packet is tested.                                   *)
MayPio_OneQueue_X == ~tx.more /\ TxIsEmpty(tx.q)

MayPio == ~tx.more /\ \A q \in Queues : TxIsEmpty(q)

PioPacket ==
    /\ tx.stage = "map"
    /\ insert_count[tx.q] = tx.from
    /\ MayPio
    /\ Insert("pio")
    /\ UNCHANGED <<write_count, notify_count, xmit_pending, doneVars, nicVars, flagVars, poll,
                   mapped, skbs, histVars>>

----------------------------------------------------------------------------
(* efx_tx_maybe_stop_queue                                                  *)

(* The queue is stopped when the packet that fills the ring is refused.     *)
CheckFill_Late_X ==
    /\ tx.stage = "mapped"
    /\ Goto(IF FillBelow(Entries - 1) THEN "queued" ELSE "stop")
    /\ UNCHANGED <<countVars, doneVars, nicVars, flagVars, buffer, poll, mapped, skbs, histVars>>

CheckFill ==
    /\ tx.stage = "mapped"
    /\ Goto(IF FillBelow(txq_stop_thresh) THEN "queued" ELSE "stop")
    /\ UNCHANGED <<countVars, doneVars, nicVars, flagVars, buffer, poll, mapped, skbs, histVars>>

StopQueue ==
    /\ tx.stage = "stop"
    /\ stopped' = TRUE
    /\ Goto("recheck")
    /\ UNCHANGED <<countVars, doneVars, nicVars, holdoff, coalesce, buffer, poll, mapped, skbs,
                   histVars>>

Recheck ==
    /\ tx.stage = "recheck"
    /\ stopped' = (stopped /\ ~FillBelow(txq_stop_thresh))
    /\ Goto("queued")
    /\ UNCHANGED <<countVars, doneVars, nicVars, holdoff, coalesce, buffer, poll, mapped, skbs,
                   histVars>>

(* The doorbell waits for the promised packet even if the queue is stopped. *)
Queued_StoppedWaits_X ==
    /\ tx.stage = "queued"
    /\ xmit_pending' = [xmit_pending EXCEPT ![tx.q] = TRUE]
    /\ UNCHANGED insert_count
    /\ IF tx.more THEN Finish(tx.left) ELSE Goto("push")
    /\ UNCHANGED <<write_count, notify_count, doneVars, nicVars, flagVars, buffer,
                   poll, mapped, skbs, histVars>>

Queued ==
    /\ tx.stage = "queued"
    /\ xmit_pending' = [xmit_pending EXCEPT ![tx.q] = TRUE]
    /\ UNCHANGED insert_count
    /\ IF tx.more /\ ~stopped THEN Finish(tx.left) ELSE Goto("push")
    /\ UNCHANGED <<write_count, notify_count, doneVars, nicVars, flagVars, buffer,
                   poll, mapped, skbs, histVars>>

----------------------------------------------------------------------------
(* efx_tx_send_pending and efx_ef10_tx_write                                *)

PushAllowed(q) ==
    ~coalesce /\ (write_count[q] - read_count[q]) % CountSpace < PushFill

(* A descriptor is pushed with the doorbell if the queue is empty enough.   *)
(* Otherwise the doorbell may be the poll's to ring.                        *)
SendPending(q) ==
    /\ tx.stage = "push"
    /\ xmit_pending[q] /\ q = FirstOf({r \in Queues : xmit_pending[r]})
    /\ xmit_pending' = [xmit_pending EXCEPT ![q] = FALSE]
    /\ write_count' = [write_count EXCEPT ![q] = insert_count[q]]
    /\ IF write_count[q] # insert_count[q] /\ PushAllowed(q)
       THEN /\ doorbell' = [doorbell EXCEPT ![q] = Slot(insert_count[q])]
            /\ notify_count' = [notify_count EXCEPT ![q] = insert_count[q]]
       ELSE UNCHANGED <<doorbell, notify_count>>
    /\ IF write_count[q] # insert_count[q] /\ ~PushAllowed(q)
       THEN tx' = [tx EXCEPT !.stage = "holdoff", !.ring = q]
       ELSE UNCHANGED tx
    /\ UNCHANGED <<insert_count, doneVars, done, flagVars, buffer, poll, mapped, skbs, histVars>>

(* efx_ef10_notify_tx_desc on the transmit path, the only one to change     *)
(* write_count.                                                             *)
TestHoldoff ==
    /\ tx.stage = "holdoff"
    /\ IF holdoff
       THEN UNCHANGED <<doorbell, notify_count>>
       ELSE /\ doorbell' = [doorbell EXCEPT ![tx.ring] = Slot(write_count[tx.ring])]
            /\ notify_count' = [notify_count EXCEPT ![tx.ring] = write_count[tx.ring]]
    /\ tx' = [tx EXCEPT !.stage = "push", !.ring = NoQueue]
    /\ UNCHANGED <<insert_count, write_count, xmit_pending, doneVars, done, flagVars, buffer, poll,
                   mapped, skbs, histVars>>

EndPush ==
    /\ tx.stage = "push"
    /\ \A q \in Queues : ~xmit_pending[q]
    /\ UNCHANGED countVars
    /\ Finish(tx.left)
    /\ UNCHANGED <<doneVars, nicVars, flagVars, buffer, poll, mapped, skbs, histVars>>

----------------------------------------------------------------------------
(* efx_process_channel.  The NIC reports whole packets among the            *)
(* descriptors it was told of; an event stands for all those before it.     *)

Reportable(q) ==
    {n \in 1 .. (doorbell[q] - done[q]) % Entries : buffer[q][Slot(done[q] + n - 1)] \in Ends}

PollStart ==
    /\ poll.stage = "idle"
    /\ poll' = [poll EXCEPT !.stage = "events"]
    /\ holdoff' = coalesce
    /\ UNCHANGED <<countVars, doneVars, nicVars, stopped, coalesce, buffer, tx, mapped, skbs,
                   histVars>>

(* The bounds of the comparison are as in C: the sign of the difference.    *)
NotBefore(a, b) == (a - b) % CountSpace < CountSpace \div 2

(* efx_xmit_done_check_empty for the new read_count: the poll notes when    *)
(* all that was written is completed.                                       *)
CheckEmpty(q, read) ==
    IF NotBefore(read, old_write_count[q])
    THEN /\ old_write_count' = [old_write_count EXCEPT ![q] = write_count[q]]
         /\ empty_read_count' = IF read = write_count[q]
                                THEN [empty_read_count EXCEPT ![q] = read % (CountSpace \div 2)]
                                ELSE empty_read_count
    ELSE UNCHANGED <<old_write_count, empty_read_count>>

(* As many buffers are unmapped and freed.                                  *)
Dequeue(q, taken) ==
    LET span == Span(read_count[q], taken)
        read == Incr(read_count[q], taken)
    IN  /\ buffer' = Emptied(q, span)
        /\ mapped' = mapped - Mapped(q, span)
        /\ read_count' = [read_count EXCEPT ![q] = read]
        /\ CheckEmpty(q, read)

(* efx_dequeue_buffers, up to the n-th descriptor after those reported      *)
(* before, or to one that is not in use.                                    *)
PollEvent(q, n) ==
    /\ poll.stage = "events"
    /\ n \in Reportable(q)
    /\ done' = [done EXCEPT ![q] = Slot(@ + n)]
    /\ LET count    == (done[q] + n - read_count[q]) % Entries
           Taken(k) == buffer[q][Slot(read_count[q] + k)] # "free"
       IN  \E taken \in 0 .. count :
              /\ \A k \in 0 .. taken - 1 : Taken(k)
              /\ taken = count \/ ~Taken(taken)
              /\ spurious' = (spurious \/ taken # count)
              /\ Dequeue(q, taken)
    /\ UNCHANGED <<countVars, doorbell, flagVars, tx, poll, skbs, overtaken, unsaid>>

(* The fill level is read before the flag of the stack's queue.             *)
ReadFill == [poll EXCEPT !.stage = "test", !.low = FillBelow(txq_wake_thresh + 1)]

PollEventsDone ==
    /\ poll.stage = "events"
    /\ poll' = IF holdoff THEN [poll EXCEPT !.stage = "bells", !.todo = Queues]
                          ELSE ReadFill
    /\ UNCHANGED <<countVars, doneVars, nicVars, flagVars, buffer, tx, mapped, skbs, histVars>>

(* The loop over holdoff_doorbell: a queue with something to announce has   *)
(* its doorbell rung.                                                       *)
PollRing(q) ==
    /\ poll.stage = "bells"
    /\ q \in poll.todo /\ q = FirstOf(poll.todo)
    /\ poll.ring = NoQueue
    /\ IF notify_count[q] # write_count[q]
       THEN /\ doorbell' = [doorbell EXCEPT ![q] = Slot(write_count[q])]
            /\ poll' = [poll EXCEPT !.ring = q]
       ELSE /\ poll' = [poll EXCEPT !.todo = @ \ {q}]
            /\ UNCHANGED doorbell
    /\ UNCHANGED <<countVars, doneVars, done, flagVars, buffer, tx, mapped, skbs, histVars>>

(* efx_ef10_notify_tx_desc reads write_count again when it notes what was   *)
(* announced.                                                               *)
PollRang ==
    /\ poll.ring # NoQueue
    /\ LET q == poll.ring
       IN  /\ notify_count' = [notify_count EXCEPT ![q] = write_count[q]]
           /\ unsaid' = (unsaid \/ doorbell[q] # Slot(write_count[q]))
           /\ poll' = [poll EXCEPT !.ring = NoQueue, !.todo = @ \ {q}]
    /\ UNCHANGED <<insert_count, write_count, xmit_pending, doneVars, nicVars, flagVars, buffer, tx,
                   mapped, skbs, spurious, overtaken>>

PollBellsDone ==
    /\ poll.stage = "bells"
    /\ poll.todo = {}
    /\ holdoff' = FALSE
    /\ poll' = [NoPoll EXCEPT !.stage = "unsent", !.todo = Queues]
    /\ UNCHANGED <<countVars, doneVars, nicVars, stopped, coalesce, buffer, tx, mapped, skbs,
                   histVars>>

(* The sum of write_count - notify_count over the queues: four reads of two *)
(* queues, between which the transmit path goes on.  The compiler may also  *)
(* read notify_count first; then no difference is negative.                 *)
PollReadWritten(q) ==
    /\ poll.stage = "unsent"
    /\ q \in poll.todo /\ q = FirstOf(poll.todo)
    /\ poll' = [poll EXCEPT !.stage = "subtract", !.read = write_count[q]]
    /\ UNCHANGED <<countVars, doneVars, nicVars, flagVars, buffer, tx, mapped, skbs, histVars>>

PollSubtract(q) ==
    /\ poll.stage = "subtract"
    /\ q \in poll.todo /\ q = FirstOf(poll.todo)
    /\ LET difference == (poll.read - notify_count[q]) % CountSpace
       IN  poll' = [poll EXCEPT !.stage = "unsent", !.todo = @ \ {q}, !.read = 0,
                                !.unsent = Incr(@, difference),
                                !.differ = @ \/ difference # 0]
    /\ UNCHANGED <<countVars, doneVars, nicVars, flagVars, buffer, tx, mapped, skbs, histVars>>

(* What was written while the transmit path still left the doorbell to the  *)
(* poll is not looked for.                                                  *)
PollUnsent_Once_X ==
    /\ poll.stage = "unsent"
    /\ poll' = [NoPoll EXCEPT !.stage = "fill"]
    /\ UNCHANGED <<countVars, doneVars, nicVars, flagVars, buffer, tx, mapped, skbs, histVars>>

(* Another round, unless the differences add up to nothing.                 *)
PollUnsent ==
    /\ poll.stage = "unsent"
    /\ poll.todo = {}
    /\ holdoff' = (poll.unsent # 0)
    /\ poll' = IF poll.unsent # 0 THEN [NoPoll EXCEPT !.stage = "bells", !.todo = Queues]
                                  ELSE [NoPoll EXCEPT !.stage = "fill"]
    /\ unsaid' = (unsaid \/ (poll.unsent = 0 /\ poll.differ))
    /\ UNCHANGED <<countVars, doneVars, nicVars, stopped, coalesce, buffer, tx, mapped, skbs,
                   spurious, overtaken>>

PollFill ==
    /\ poll.stage = "fill"
    /\ poll' = ReadFill
    /\ UNCHANGED <<countVars, doneVars, nicVars, flagVars, buffer, tx, mapped, skbs, histVars>>

(* The queue is woken on the fill level read before.                        *)
PollWake ==
    /\ poll.stage = "test"
    /\ stopped' = (stopped /\ ~poll.low)
    /\ overtaken' = (overtaken \/ (stopped /\ poll.low /\ ~FillBelow(txq_wake_thresh + 1)))
    /\ poll' = NoPoll
    /\ UNCHANGED <<countVars, doneVars, nicVars, holdoff, coalesce, buffer, tx, mapped, skbs,
                   spurious, unsaid>>

----------------------------------------------------------------------------
(* efx_stop_datapath and efx_start_datapath: the stack is kept out and the  *)
(* poll disabled, the rings are purged (efx_purge_tx_queue) and             *)
(* initialised, and the queue of the stack is woken.  Bound: not before the *)
(* first packet.                                                            *)
Restart ==
    /\ skbs > 0
    /\ tx.stage = "idle"
    /\ poll.stage = "idle"
    /\ insert_count' = All(0) /\ write_count' = All(0) /\ notify_count' = All(0)
    /\ xmit_pending' = All(FALSE)
    /\ read_count' = All(0) /\ old_write_count' = All(0) /\ empty_read_count' = All(0)
    /\ buffer' = [q \in Queues |-> [i \in Slots |->
                     IF i \in Span(read_count[q], Fill(q)) THEN "free" ELSE buffer[q][i]]]
    /\ mapped' = mapped - Cardinality({s \in Mappings : s[2] \in Span(read_count[s[1]], Fill(s[1]))})
    /\ doorbell' = All(0) /\ done' = All(0)
    /\ stopped' = FALSE
    /\ tx' = NoTx
    /\ UNCHANGED <<holdoff, coalesce, poll, skbs, histVars>>

----------------------------------------------------------------------------
MapStep  == (\E kind \in {"map", "skb"} : MapFragment(kind)) \/ MapFails \/ CopyPacket
            \/ PioPacket
StopStep == CheckFill \/ StopQueue \/ Recheck \/ Queued
PushStep == (\E q \in Queues : SendPending(q)) \/ TestHoldoff \/ EndPush
XmitStep == MapStep \/ StopStep \/ PushStep

RingStep ==
    \/ (\E q \in Queues : PollRing(q) \/ PollReadWritten(q) \/ PollSubtract(q))
    \/ PollRang \/ PollBellsDone \/ PollUnsent
EventOf(q) == \E n \in 1 .. Entries : PollEvent(q, n)
PollStep == (\E q \in Queues : EventOf(q)) \/ PollEventsDone \/ RingStep \/ PollFill \/ PollWake

NextPacket == \E q \in Queues, more \in BOOLEAN : StartXmit(q, more)

Next == \/ NextPacket
        \/ \E more \in BOOLEAN : StartPtpXmit(more)
        \/ XmitStep
        \/ PollStart
        \/ PollStep
        \/ Restart

Spec == Init /\ [][Next]_vars

(* The stack hands over the packet it promised.                             *)
Promised == tx.stage = "idle" /\ tx.more /\ NextPacket

(* An event the NIC has to report makes the poll run; a poll without an     *)
(* event is never certain.                                                  *)
PollCalled == (\E q \in Queues : Reportable(q) # {}) /\ PollStart

(* The two sides run independently, and a poll that runs time and again     *)
(* finds the events there are.                                              *)
FairSpec ==
    /\ Spec
    /\ WF_vars(XmitStep \/ Promised)
    /\ WF_vars(PollStep \/ PollCalled)
    /\ SF_vars(\E q \in Queues : EventOf(q))

----------------------------------------------------------------------------
(* Properties                                                               *)

(* Every variable stays in its domain.                                      *)
TypeOK ==
    /\ {insert_count, write_count, notify_count, read_count, old_write_count}
          \subseteq [Queues -> Counts]
    /\ xmit_pending \in [Queues -> BOOLEAN]
    /\ empty_read_count \in [Queues -> 0 .. CountSpace \div 2 - 1]
    /\ buffer \in [Queues -> [Slots -> Kinds]]
    /\ {doorbell, done} \subseteq [Queues -> Slots]
    /\ {stopped, holdoff, coalesce, spurious, overtaken, unsaid} \subseteq BOOLEAN
    /\ tx \in [stage : {"idle", "map", "mapped", "stop", "recheck", "queued", "push", "holdoff"},
               q : Queues \cup {NoQueue}, from : Counts, left : 0 .. MaxDescs, more : BOOLEAN,
               ring : Queues \cup {NoQueue}]
    /\ poll \in [stage : {"idle", "events", "bells", "unsent", "subtract", "fill", "test"},
                 todo : SUBSET Queues, ring : Queues \cup {NoQueue}, low : BOOLEAN,
                 unsent : Counts, read : Counts, differ : BOOLEAN]
    /\ mapped \in Nat
    /\ skbs \in 0 .. MaxSkbs[coalesce]

(* "We must keep at least one descriptor in a TX ring empty" (the comment   *)
(* where txq_stop_thresh is computed).                                      *)
OneDescriptorEmpty == \A q \in Queues : Fill(q) < Entries

(* ... as far as the queue was only woken at a fill level that allows it.   *)
OneEmptyUnlessOvertaken == ~overtaken => OneDescriptorEmpty

(* Whatever fails on the way, the buffers between read_count and            *)
(* insert_count are in use and no others are, the ring holds whole packets  *)
(* but for the one being added, and there are as many DMA mappings as       *)
(* buffers that will undo one.                                              *)
MappingsOwned ==
    ~overtaken =>
        /\ \A q \in Queues, i \in Slots :
              (buffer[q][i] # "free") = (i \in Span(read_count[q], Fill(q)))
        /\ \A q \in Queues :
              Fill(q) > 0 /\ (tx.q # q \/ tx.stage # "map")
                  => buffer[q][Slot(insert_count[q] - 1)] \in Ends
        /\ mapped = Cardinality(Mappings)
        /\ ~spurious

(* "This also ensures that only one packet at a time can be using the PIO   *)
(* buffer" (efx_tx_may_pio).                                                *)
PioExclusive ==
    ~overtaken =>
        Cardinality({s \in Queues \X Slots : buffer[s[1]][s[2]] = "pio"}) <= 1

(* Between two calls of the stack that promised nothing, and outside the    *)
(* poll, the NIC was told of every packet: with doorbells coalesced or not, *)
(* after packets that failed, and on the partner queues too; unless a       *)
(* doorbell was rung with a count that was then read again, or the poll's   *)
(* last sum was of differences that cancel.                                 *)
AllAnnounced ==
    tx.stage = "idle" /\ ~tx.more /\ poll.stage = "idle" /\ ~unsaid
        => \A q \in Queues : doorbell[q] = Slot(insert_count[q])

(* The stack's queue does not stay stopped for ever: whatever the poll did  *)
(* between the check, the stop and the second check, there is a completion  *)
(* to come that wakes it.                                                   *)
Woken == stopped ~> (~stopped \/ overtaken \/ unsaid)
=============================================================================
