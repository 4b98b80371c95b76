----------------------------- MODULE RxQueue -----------------------------
(***************************************************************************)
(* The receive queue of one channel of the sfc driver (rx.c, rx_common.c,  *)
(* the receive part of ef10.c and the receive half of the NAPI poll in     *)
(* efx_channels.c).  A page is mapped for DMA once and cut into PerPage    *)
(* buffers, which are posted to the NIC one by one; each has a reference   *)
(* to the page, which the stack inherits with the packet.  One more        *)
(* reference and the mapping belong to the page's last buffer, and then to *)
(* the recycle ring, out of which a page is posted again once nobody else  *)
(* refers to it.  When memory is short, delayed work asks the NIC for an   *)
(* event, on which the poll tries again.                                   *)
(*                                                                         *)
(* The record rx is what the NAPI poll owns: actions of the poll apply     *)
(* operators from such a record to the next.  The stack frees what it      *)
(* holds, and the work item runs, at any time in between.                  *)
(***************************************************************************)
EXTENDS Integers, FiniteSets

CONSTANTS
    PageCount,    \* bound: there are pages 1 .. PageCount
    PerPage,      \* efx->rx_bufs_per_page
    PerBatch,     \* efx->rx_pages_per_batch
    Entries,      \* efx->rxq_entries
    RingSize,     \* rx_queue->ptr_mask + 1, a power of two
    MaxFrags,     \* EFX_RX_MAX_FRAGS
    WriteUnit,    \* RX_DESC_WPTR must be a multiple of it (8)
    RecycleSize,  \* rx_recycle_ring_size
    CountSpace,   \* the counters are 0 .. CountSpace - 1 (2^32)
    MaxHeld,      \* bound: how many buffers the stack holds
    Switchdev     \* whether a packet for a representor, or of an unknown
                  \* port, is dropped by freeing its first buffer only

ASSUME PagesPos    == PageCount \in Nat \ {0}
ASSUME SizesPos    == {PerPage, PerBatch, MaxFrags, WriteUnit, RecycleSize} \subseteq Nat \ {0}
ASSUME RingFits    == Entries \in Nat /\ RingSize \in Nat /\ Entries <= RingSize
ASSUME BatchesFit  == (PerBatch * PerPage) % WriteUnit = 0
ASSUME RecycleFits == RecycleSize % PerPage = 0 /\ RecycleSize >= PerPage
ASSUME CountsWrap  == CountSpace \in Nat \ {0} /\ CountSpace % RingSize = 0 /\ CountSpace % WriteUnit = 0
ASSUME HeldNat     == MaxHeld \in Nat
ASSUME SwitchBool  == Switchdev \in BOOLEAN

NoPage == 0
Pages  == 1 .. PageCount
Parts  == 0 .. PerPage - 1
Slots  == 0 .. RingSize - 1
Counts == 0 .. CountSpace - 1
Places == 0 .. (RecycleSize \div PerPage) - 1  \* of the recycle ring

(* efx_init_rx_queue, with the default rx_refill_threshold of 0 or one that *)
(* is capped.                                                               *)
BatchSize         == PerBatch * PerPage
max_fill          == Entries - (1 + MaxFrags)
fast_fill_trigger == max_fill - BatchSize

(* The code accepts 16 entries, with which the trigger is 0, or 1 without   *)
(* XDP: the queue is never filled, or no longer when what is left of it is  *)
(* less than a WriteUnit.  From 32 entries on this holds.                   *)
ASSUME TriggerFits == MaxFrags <= WriteUnit /\ fast_fill_trigger >= WriteUnit + MaxFrags - 1

VARIABLES
    rx,         \* the queue and its pages, see TypeOK
    held,       \* buffers <<page, part>> of packets given to the stack
    slow_fill,  \* slow_fill_work is armed
    event,      \* a refill event is in the event queue
    stage,      \* "off", "up" or "stopping"
    truncated,  \* the packet for which the NIC ran out of buffers: where the
                \* buffers ended, and how many it had begun to fill
    lost        \* history: pages of buffers that efx_fini_rx_queue passed over

vars == <<rx, held, slow_fill, event, stage, truncated, lost>>

NoBuf == [page |-> NoPage, part |-> 0, last |-> FALSE, ring |-> FALSE, again |-> FALSE]
NoPkt == [index |-> 0, n |-> 0]
NoCut == [end |-> 0, n |-> 0]

Empty ==
    [ buffer  |-> [i \in Slots |-> NoBuf],
      added   |-> 0,                           \* added_count
      noted   |-> 0,                           \* notified_count
      removed |-> 0,                           \* removed_count
      page_ring      |-> [i \in Places |-> NoPage],
      page_add       |-> 0,
      page_remove    |-> 1 % (RecycleSize \div PerPage),
      refill_enabled |-> FALSE,
      pkt     |-> NoPkt,                       \* channel->rx_pkt_index, _n_frags
      spent   |-> FALSE,                       \* the poll has handled packets
      slow    |-> FALSE,                       \* efx_schedule_slow_fill was called
      ref     |-> [p \in Pages |-> 0],         \* page_count
      mapped  |-> {} ]

Init ==
    /\ rx = Empty
    /\ held = {}
    /\ slow_fill = FALSE
    /\ event = FALSE
    /\ stage = "off"
    /\ truncated = NoCut
    /\ lost = {}

----------------------------------------------------------------------------
(* Buffers and pages                                                        *)

Slot(count)  == count % RingSize
Incr_NoWrap_X(c, n) == c + n
Incr(c, n)   == (c + n) % CountSpace
Behind(a, b) == (a - b) % CountSpace
Fill(m)      == Behind(m.added, m.removed)
Posted(m)    == {Slot(Incr(m.removed, k)) : k \in 0 .. Fill(m) - 1}
PktSlots(index, n) == {(index + k) % RingSize : k \in 0 .. n - 1}

(* again is history: whether it was posted again when a packet was dropped. *)
BufOf(p, part, ring) ==
    [page |-> p, part |-> part, last |-> part = PerPage - 1, ring |-> ring, again |-> FALSE]

(* efx_init_rx_buffer                                                       *)
Post(m, buf) == [m EXCEPT !.buffer[Slot(m.added)] = buf, !.added = Incr(@, 1)]

Clear(m, slots) ==
    [m EXCEPT !.buffer = [i \in Slots |-> IF i \in slots THEN NoBuf ELSE @[i]]]

PutPage(m, p) == [m EXCEPT !.ref[p] = @ - 1]

(* dma_unmap_page and put_page                                              *)
Release(m, p) == [PutPage(m, p) EXCEPT !.mapped = @ \ {p}]

(* efx_free_rx_buffers                                                      *)
FreeBuffers(m, slots) ==
    [Clear(m, slots) EXCEPT !.ref = [p \in Pages |->
        @[p] - Cardinality({i \in slots : m.buffer[i].page = p})]]

(* efx_recycle_rx_page: whether the buffer's page goes into the ring or is  *)
(* given back, and which of the two.                                        *)
Recyclable_FirstToo_X(buf) == ~buf.ring
Recyclable(buf)            == ~buf.ring /\ buf.last

RecycleInto_KeepsReference_X(m, at, p) ==
    IF m.page_add # RecycleSize /\ m.page_ring[at] = NoPage
    THEN [m EXCEPT !.page_ring[at] = p, !.page_add = @ + 1]
    ELSE [m EXCEPT !.mapped = @ \ {p}]
RecycleInto(m, at, p) ==
    IF m.page_add # RecycleSize /\ m.page_ring[at] = NoPage
    THEN [m EXCEPT !.page_ring[at] = p, !.page_add = @ + 1]
    ELSE Release(m, p)

RecyclePage(m, i) ==
    IF Recyclable(m.buffer[i])
    THEN RecycleInto(m, m.page_add % Cardinality(Places), m.buffer[i].page)
    ELSE m

(* efx_recycle_rx_buf                                                       *)
Repeat(m, i) ==
    LET buf == m.buffer[i]
    IN  [Post(m, [buf EXCEPT !.again = ~buf.last /\ ~buf.ring]) EXCEPT !.buffer[i] = NoBuf]

(* f applied for each of the n buffers of a packet.                         *)
EachFrag(f(_, _), m, index, n) ==
    LET after[k \in 0 .. n] ==
            IF k = 0 THEN m ELSE f(after[k - 1], (index + k - 1) % RingSize)
    IN  after[n]

(* efx_recycle_rx_pages                                                     *)
RecyclePages(m, index, n) == EachFrag(RecyclePage, m, index, n)

(* The loop of efx_discard_rx_packet                                        *)
RepeatAll(m, index, n) == EachFrag(Repeat, m, index, n)

----------------------------------------------------------------------------
(* Refilling                                                                *)

(* Only the recycle ring refers to the page.                                *)
Reusable_InUse_X(m, p) == p # NoPage
Reusable(m, p)         == p # NoPage /\ m.ref[p] = 1

(* efx_schedule_slow_fill                                                   *)
ScheduleSlowFill_WhenEmpty_X(m) == [m EXCEPT !.slow = Fill(m) = 0]
ScheduleSlowFill(m)             == [m EXCEPT !.slow = TRUE]

(* efx_reuse_page, then efx_alloc_pages: st.left allocations succeed, after *)
(* which one fails.  A new page is the first that nobody refers to.         *)
PushPage(st) ==
    LET m     == st.rx
        p     == m.page_ring[m.page_remove]
        next  == [m EXCEPT !.page_remove = (@ + 1) % Cardinality(Places)]
        free  == {q \in Pages : m.ref[q] = 0}
        new   == CHOOSE q \in free : \A r \in free : q <= r
        Mapped(mm, q) == [mm EXCEPT !.ref[q] = 1, !.mapped = @ \cup {q}]
        Cut(q, ring, mm) ==
            LET posted[k \in 0 .. PerPage] ==
                    IF k = 0 THEN mm ELSE Post(posted[k - 1], BufOf(q, k - 1, ring))
            IN  [posted[PerPage] EXCEPT !.ref[q] = @ + PerPage]
    IN  IF Reusable(m, p)
        THEN [st EXCEPT !.rx = Cut(p, TRUE, next)]
        ELSE IF st.left > 0 /\ free # {}
             THEN [st EXCEPT !.left = @ - 1,
                             !.rx = Cut(new, FALSE, Mapped(next, new))]
             ELSE [st EXCEPT !.failed = TRUE, !.rx = ScheduleSlowFill(next)]

(* efx_ef10_rx_write                                                        *)
Notify(m) == [m EXCEPT !.noted = m.added - (m.added % WriteUnit)]

(* efx_fast_push_rx_descriptors, in which left allocations succeed.         *)
FastPush(m, left) ==
    LET wanted == PerBatch * ((max_fill - Fill(m)) \div BatchSize)
        pushed[k \in 0 .. wanted] ==
            IF k = 0 THEN [rx |-> m, left |-> left, failed |-> FALSE]
            ELSE IF pushed[k - 1].failed THEN pushed[k - 1]
                 ELSE PushPage(pushed[k - 1])
    IN  IF ~m.refill_enabled THEN m
        ELSE IF Fill(m) >= fast_fill_trigger THEN Notify(m)
             ELSE Notify(pushed[wanted].rx)

(* Memory suffices for that many new pages.                                 *)
Allocations == 0 .. max_fill \div PerPage

(* schedule_delayed_work                                                    *)
Refill(m, left) ==
    /\ rx' = [FastPush(m, left) EXCEPT !.slow = FALSE]
    /\ slow_fill' = (slow_fill \/ FastPush(m, left).slow)

----------------------------------------------------------------------------
(* Passing packets on                                                       *)

(* efx_repost_rx_page, by which the buffer of a small packet, copied into   *)
(* its skb, is posted again, and the other half with it if it is free.      *)
Repost(m, i) ==
    LET p    == m.buffer[i].page
        part == m.buffer[i].part
        both == PerPage = 2 /\ m.ref[p] < PerPage + 1 /\ Fill(m) < max_fill
        one  == Post(m, BufOf(p, part, TRUE))
    IN  IF PerPage > 2 \/ Fill(m) > fast_fill_trigger THEN PutPage(m, p)
        ELSE IF both THEN [Post(one, BufOf(p, 1 - part, TRUE)) EXCEPT !.ref[p] = @ + 1]
             ELSE one

(* efx_rx_mk_skb when the packet fits into the skb's head                   *)
Copy(m, i) ==
    Clear(IF m.buffer[i].ring THEN Repost(m, i) ELSE PutPage(m, m.buffer[i].page), {i})

(* efx_rx_flush_packet: the packet in the pipeline is dropped for want of   *)
(* an skb or by a self test, given to the stack, or copied.  Each outcome   *)
(* has the buffers that the stack holds then.                               *)
Flush(m) ==
    LET slots == PktSlots(m.pkt.index, m.pkt.n)
        base  == [m EXCEPT !.pkt = NoPkt]
        given == {<<m.buffer[i].page, m.buffer[i].part>> : i \in slots}
    IN  IF m.pkt = NoPkt THEN {[rx |-> m, up |-> {}]}
        ELSE {[rx |-> FreeBuffers(base, slots), up |-> {}], [rx |-> Clear(base, slots), up |-> given]}
             \cup {[rx |-> Copy(base, i), up |-> {}] : i \in {j \in slots : m.pkt.n = 1}}
             \cup {[rx |-> FreeBuffers(base, {i}), up |-> {}] : i \in {j \in {m.pkt.index} : Switchdev}}

(* The poll passes the packet in the pipeline on, and the stack has room.   *)
Given(o) ==
    /\ held' = held \cup o.up
    /\ Cardinality(held') <= MaxHeld

----------------------------------------------------------------------------
(* The NAPI poll                                                            *)

(* Buffers the NIC may have filled with packets.                            *)
Filled ==
    Behind(IF truncated = NoCut THEN rx.noted ELSE truncated.end, rx.removed) - truncated.n

Head == Slot(rx.removed)

Taken(m, n) == [m EXCEPT !.removed = Incr(@, n)]

(* efx_ef10_handle_rx_event and efx_rx_packet                               *)
Receive(n) ==
    /\ stage # "off"
    /\ n <= Filled
    /\ \E o \in Flush(RecyclePages(rx, Head, n)) :
          /\ Given(o)
          /\ rx' = [Taken(o.rx, n) EXCEPT !.pkt = [index |-> Head, n |-> n], !.spent = TRUE]
    /\ UNCHANGED <<slow_fill, event, stage, truncated, lost>>

(* efx_rx_packet of a packet to be discarded: efx_discard_rx_packet         *)
Discard(n) ==
    /\ stage # "off"
    /\ n <= Filled
    /\ \E o \in Flush(rx) :
          /\ Given(o)
          /\ rx' = [Taken(RepeatAll(o.rx, Head, n), n) EXCEPT !.spent = TRUE]
    /\ UNCHANGED <<slow_fill, event, stage, truncated, lost>>

(* The NIC runs out of buffers in a packet, having filled n with it.        *)
RunDry(n) ==
    /\ stage # "off"
    /\ truncated = NoCut
    /\ n <= Filled
    /\ truncated' = [end |-> rx.noted, n |-> n]
    /\ UNCHANGED <<rx, held, slow_fill, event, stage, lost>>

(* efx_ef10_handle_rx_abort, after which efx_ef10_handle_rx_event returns 0 *)
Abort ==
    /\ stage # "off"
    /\ truncated # NoCut
    /\ Filled = 0
    /\ \E o \in Flush(rx) :
          /\ Given(o)
          /\ rx' = Taken(RepeatAll(o.rx, Head, truncated.n), truncated.n)
    /\ truncated' = NoCut
    /\ UNCHANGED <<slow_fill, event, stage, lost>>

(* The end of efx_process_channel, if it has handled packets.               *)
EndPoll(left) ==
    /\ rx.spent
    /\ \E o \in Flush(rx) :
          /\ Given(o)
          /\ Refill([o.rx EXCEPT !.spent = FALSE], left)
    /\ UNCHANGED <<event, stage, truncated, lost>>

(* EFX_EF10_REFILL                                                          *)
RefillEvent(left) ==
    /\ event
    /\ Refill(rx, left)
    /\ event' = FALSE
    /\ UNCHANGED <<held, stage, truncated, lost>>

----------------------------------------------------------------------------
(* Others                                                                   *)

(* efx_rx_slow_fill; if the MC does not generate the event, the work item   *)
(* is armed again, and nothing has changed.                                 *)
SlowFill ==
    /\ slow_fill
    /\ slow_fill' = FALSE
    /\ event' = TRUE
    /\ UNCHANGED <<rx, held, stage, truncated, lost>>

(* The stack frees a buffer.                                                *)
StackFree(b) ==
    /\ b \in held
    /\ held' = held \ {b}
    /\ rx' = PutPage(rx, b[1])
    /\ UNCHANGED <<slow_fill, event, stage, truncated, lost>>

(* efx_start_channels; bound: not once buffers were lost.                   *)
Start(left) ==
    /\ stage = "off"
    /\ lost = {}
    /\ stage' = "up"
    /\ Refill([Empty EXCEPT !.ref = rx.ref, !.mapped = rx.mapped, !.buffer = rx.buffer,
                            !.refill_enabled = TRUE], left)
    /\ UNCHANGED <<held, event, truncated, lost>>

(* efx_stop_channels stops the refilling and waits for the poll, which may  *)
(* go on to receive until the NIC has flushed the queue.                    *)
Stop ==
    /\ stage = "up"
    /\ stage' = "stopping"
    /\ rx' = [rx EXCEPT !.refill_enabled = FALSE]
    /\ UNCHANGED <<held, slow_fill, event, truncated, lost>>

(* efx_fini_rx_buffer_nzc                                                   *)
FiniBuffer(m, i) ==
    LET buf == m.buffer[i]
        put == PutPage(m, buf.page)
    IN  Clear(IF buf.last /\ ~buf.ring THEN Release(put, buf.page) ELSE put, {i})

(* efx_fini_rx_recycle_ring                                                 *)
FiniRecycleRing(m) ==
    LET kept == {m.page_ring[k] : k \in Places} \ {NoPage}
    IN  [m EXCEPT !.mapped = @ \ kept,
                  !.ref = [p \in Pages |-> IF p \in kept THEN @[p] - 1 ELSE @[p]],
                  !.page_ring = [k \in Places |-> NoPage]]

(* efx_fini_rx_queue; its loop ends at once when added_count has wrapped    *)
(* around and removed_count has not.                                        *)
Fini ==
    LET wrapped == rx.added < rx.removed
        n       == IF wrapped THEN 0 ELSE Fill(rx)
    IN  /\ stage = "stopping"
        /\ ~rx.spent
        /\ stage' = "off"
        /\ slow_fill' = FALSE
        /\ rx' = [FiniRecycleRing(EachFrag(FiniBuffer, rx, Head, n)) EXCEPT !.removed = rx.added]
        /\ lost' = IF wrapped THEN lost \cup {rx.buffer[i].page : i \in Posted(rx)} ELSE lost
        /\ truncated' = NoCut
        /\ UNCHANGED <<held, event>>

PollStep(left) == EndPoll(left) \/ RefillEvent(left)

Next ==
    \/ \E n \in 1 .. MaxFrags : Receive(n) \/ Discard(n)
    \/ \E n \in 1 .. MaxFrags - 1 : RunDry(n)
    \/ Abort
    \/ \E left \in Allocations : PollStep(left) \/ Start(left)
    \/ SlowFill
    \/ \E b \in held : StackFree(b)
    \/ Stop \/ Fini

Spec == Init /\ [][Next]_vars

----------------------------------------------------------------------------
(* Properties                                                               *)

Buffers ==
    {NoBuf} \cup {[BufOf(p, part, ring) EXCEPT !.again = again] :
                     p \in Pages, part \in Parts, ring \in BOOLEAN, again \in BOOLEAN}

(* Every variable stays in its domain, and the queue never overflows.       *)
TypeOK ==
    /\ rx \in [ buffer : [Slots -> Buffers],
                added : Counts, noted : Counts, removed : Counts,
                page_ring : [Places -> Pages \cup {NoPage}],
                page_add : 0 .. RecycleSize,
                page_remove : Places,
                refill_enabled : BOOLEAN,
                pkt : [index : Slots, n : 0 .. MaxFrags],
                spent : BOOLEAN,
                slow : BOOLEAN,
                ref : [Pages -> 0 .. PerPage + 1],
                mapped : SUBSET Pages ]
    /\ held \subseteq Pages \X Parts
    /\ {slow_fill, event} \subseteq BOOLEAN
    /\ stage \in {"off", "up", "stopping"}
    /\ truncated \in [end : Counts, n : 0 .. MaxFrags - 1]
    /\ lost \subseteq Pages

InUse == Posted(rx) \cup PktSlots(rx.pkt.index, rx.pkt.n)

(* The buffer or the recycle ring that keeps page p mapped.                 *)
Keeper(p) ==
    \/ \E k \in Places : rx.page_ring[k] = p
    \/ \E i \in Posted(rx) :
          rx.buffer[i].page = p /\ rx.buffer[i].last /\ ~rx.buffer[i].ring

(* A page is mapped as long as its last buffer or the recycle ring keeps    *)
(* it, and has a reference for each buffer posted, in the pipeline or in    *)
(* the stack, and for the keeper: it is not freed early, nor leaked, not    *)
(* even when the queue is stopped.                                          *)
RefsExact ==
    \A p \in Pages \ lost :
        /\ p \in rx.mapped <=> Keeper(p)
        /\ rx.ref[p] = Cardinality({i \in InUse : rx.buffer[i].page = p})
                       + Cardinality({b \in held : b[1] = p})
                       + (IF Keeper(p) THEN 1 ELSE 0)

(* The NIC is never given memory that another posted buffer, the pipeline   *)
(* or the stack still uses, though pages are posted again and again.        *)
Exclusive ==
    /\ \A i, j \in InUse : i # j =>
          <<rx.buffer[i].page, rx.buffer[i].part>> # <<rx.buffer[j].page, rx.buffer[j].part>>
    /\ \A i \in InUse : <<rx.buffer[i].page, rx.buffer[i].part>> \notin held

(* What is posted to the NIC is mapped for DMA, although half a page may be *)
(* unmapped by the other half; but not what was posted again on discard.    *)
PostedMapped ==
    \A i \in Posted(rx) : ~rx.buffer[i].again => rx.buffer[i].page \in rx.mapped

(* While the queue is up the NIC is not left without buffers, although     *)
(* buffers that were posted again are not announced at once, an abort       *)
(* announces nothing and memory is short: the poll is still to refill the   *)
(* queue, or the delayed work or its event is on the way.                   *)
Starved   == stage = "up" /\ rx.noted = rx.removed
RefillDue == Starved => rx.spent \/ slow_fill \/ event
=============================================================================
