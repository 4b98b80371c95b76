# TLA+ models of the U25N SmartNIC driver

This directory holds TLA+ specifications of the Xilinx U25N host driver
(`src/u25n_driver/drivers/net/ethernet/sfc/`, called `sfc/` below) and of the
Ethernet driver of the card's processor (`src/u25n_mcdma_driver/`), TLC
configurations that check them on small instances, and TLAPS proofs of what
holds for every instance. All line numbers refer to the commit of the
repository beside this directory. `PROJECT.json` maps every definition to the
lines it models.

## 1. The system and its parts

The U25N is a SmartNIC: an SFC9250 (EF10) Ethernet controller with a management
controller (MC), and an FPGA with a processing subsystem (PS). The host driver
speaks with the MC through a shared-memory mailbox (**MCDI**), with the PS
through encapsulated frames on the wire (**eMCDI**), moves packets of the
physical function through TX and RX queues, and shows every virtual function as
a **representor** net device. On top sit front ends: ioctls (bitstream and
flash upgrade, IPsec), sysfs, ethtool, tc offload, vDPA. The card side is the
MCDMA/TSN driver in `src/u25n_mcdma_driver`, which relays eMCDI messages.

| Part | State it keeps | Operations | Talks to | What is hard | What makes it correct | Model |
|---|---|---|---|---|---|---|
| eMCDI `emcdi.c` | one `efx_emcdi_iface` per message type: `cmd_list`, `pending`, `prev_seq`, cleanup count; per command: state, retry count, reference count, delayed work | `efx_emcdi_rpc`, process a reply, work item, cancel, init, fini | callers sleep; NAPI context delivers replies; a workqueue | lost, repeated, late replies; timeout against reply against cancellation; stop while calls run | no use after free; a completer runs once; every call returns; stop terminates | `Emcdi` |
| MCDI `mcdi.c` | one `efx_mcdi_iface`: mode, `cmd_list`, `db_held_by`, `seq_held_by[16]`; the mailbox buffer in use | `efx_mcdi_rpc[_async[_ext]]`, completion and proxy events, work item, cancel, mode switches, fail mode, FLR | the MC; EVQ events in NAPI context; the reset worker; PTP | four contexts finish the same command; MC reboots; fail mode; commands queued for one mailbox | exact references; answers read by their command; no lost wake-up; a command that is finished is left alone | `Mcdi` |
| VF representors `u25_rep.c`, `u25.c` | `rx_list`, `write_index`, `read_index`, NAPI state | queue a packet, poll, open, close, transmit | RX channels on several CPUs, the stack | indices read and written under different locks | packets in order, none lost, the poll is scheduled when there is work | `VfRep` |
| TX queues `tx.c`, `tx_common.c`, `ef10.c` | `insert_count`, `write_count`, `notify_count`, `read_count`, `old_*` copies, the PIO buffer, stopped flag | enqueue, copy, PIO, push, ring doorbells, complete, unwind | stack, NAPI poll | stop/wake race, doorbells left to the poll, unwinding half a packet | never overfull, never stopped for ever, each mapping undone once, everything announced | `TxQueue` |
| RX queues `rx.c`, `rx_common.c`, `ef10.c` | `added_count`, `notified_count`, `removed_count`, page references, recycle ring, packet in the pipeline | refill, receive, copy, repost, recycle, discard, abort, slow fill, start, stop | NIC, stack, delayed work | one page in several buffers, freed by the stack at any time; memory that runs out; counters that wrap | a buffer has one user, pages are neither leaked nor unmapped early, the ring is refilled | `RxQueue` |
| Device reset `efx_common.c`, `efx.c` | `reset_pending`, `state`, presence, `reset_count` | schedule, worker, reset, open, close, reallocate, freeze, thaw, PCI recovery | MCDI, RTNL lock, power management | requests during a reset and without the lock, escalation, recovery limit | the widest pending method wins, none is lost, what is detached comes back | `Reset` |
| MCDMA driver `xilinx_axienet_*.c` | descriptor rings, NAPI state, the stack's queue | xmit, reap, receive interrupt and poll, relay of eMCDI messages | PS network stack, an application (netlink), DMA engine | three kinds of sender of which two bypass the stack; a reap without the lock | a descriptor has one owner, what is received is handled | `Axienet` |
| tc offload `tc.c`, `mae.c` | rules, encap actions, neighbour binders, their tables and reference counts; counters | replace, destroy, neighbour change, work item, removal of a device | MCDI, tc, the kernel's neighbour table | notifiers without the mutex, RCU, references put in four contexts | who has a reference keeps the binder, headers and rules follow the neighbour | `TcNeigh` (tunnels) |
| Image upgrade `imageupgrade.c`, IPsec `ipsec.c` | which eMCDI interfaces are up, link and loopback modes | ioctls and sysfs stores | eMCDI | sessions that share interfaces, errors half-way | every interface started is stopped, not under somebody's feet | planned |
| Logger `logger.c` | queue of messages, work item | add, drain, stop | eMCDI RX path | stop against arrival | nothing queued after stop | planned |
| Virtual bus `virtual_bus.c`, `efx_virtbus.c` | ids, device list | register, release | vDPA | failed registration | an id is released once | planned |

How the models hang together. The contexts are the same everywhere: the NAPI
poll of a channel delivers what `Emcdi` and `VfRep` receive, is the consumer in
`TxQueue` and the owner of `RxQueue`, and completes commands in `Mcdi`; the
reset worker of `Reset` puts `Mcdi` into fail mode and runs the function level
reset that `Mcdi` contains; it restarts the rings as `Restart` of `TxQueue` and
`Start`/`Stop`/`Fini` of `RxQueue` do. `Emcdi` and `Mcdi` implement the same
abstract transport, `Rpc`. `Axienet` is the far end of `Emcdi`'s wire: it is why
`Emcdi` lets replies be lost, late and repeated. `TcNeigh` sends its requests over
`Mcdi`, of which it knows only that they succeed or fail.

Filters, PTP, driverlink, ethtool/sysfs/MTD front ends, the Siena and EF100
families, the strongSwan patch and the generated headers are listed in
`PROJECT.json` with the reason they are not modelled.

## 2. Modules

| Module | What it is |
|---|---|
| `Rpc` | the abstract command transport: a call is made once, given at most one reply, and returns with it or with an error of the transport |
| `Emcdi` | `emcdi.c`: one interface with its callers, work items, RX context and fini |
| `Mcdi` | `mcdi.c` on an EF10 mailbox, with the MC, event queues and the function level reset |
| `VfRep` | the receive path of a representor |
| `TxQueue` | the transmit queues of one channel, from `efx_hard_start_xmit` to the completions |
| `RxQueue` | the receive queue of one channel and its pages |
| `Reset` | requests for resets, the reset work, and everything else that holds the RTNL lock |
| `Axienet` | the rings of the PS Ethernet driver and its relay of messages |
| `TcNeigh` | tunnel rules of the match-action engine and the neighbours they depend on |
| `EmcdiProofs`, `VfRepProofs`, `ResetProofs`, `AxienetProofs`, `TcNeighProofs`, `TxQueueProofs`, `RxQueueProofs`, `McdiProofs` | theorems about the modules they are named after, and their proofs |
| `MC_Emcdi`, `MC_Mcdi`, ... | the instances TLC checks; the `.cfg` files give the constants |

`Emcdi` and `Mcdi` each contain `Caller == INSTANCE Rpc WITH ...`, the
refinement mapping to the abstract transport, and `ImplementsRpc ==
Caller!Spec`.

Conventions. Everything the code does under one hold of a spinlock is one
action; what it reads before taking the lock or does after dropping it is an
action of its own. Where two processors work on the same counters without a
lock (`TxQueue`, `Axienet`, `VfRep`, `Reset`, `TcNeigh`), each access the other side can
tell apart is an action. Memory is sequentially consistent. kmalloc'ed
structures are not removed (but for the binders of `TcNeigh`): `ref` counts the references the code counts, and
"freed early" is `ref` falling below the number of places that still point to
the structure. Definitions whose name ends in `_X` are faulty variants (a
dropped guard, a missing put, ...); each is in the module to show that one
property notices the fault when it replaces the definition after it. A variable
whose comment says *history* records that something happened and is read by
properties only (and, in `RxQueue`, by one bound).

### Emcdi

| Code | Model |
|---|---|
| `emcdi->enabled, pending, prev_seq, prev_handle, cmd_list, outstanding_cleanups` | variables of the same names |
| `cmd->state, retry, seq, handle, ref, started` | functions of the command |
| `cmd->work` | `work` ("idle", "armed" timer, "due") and `running` (its function was entered and waits for the lock) |
| task in `efx_emcdi_rpc_sync` | `caller`, `waited`, `done`/`wait_ref` (wait_data), `result` |
| `cleanup_list` of a context | `cleanup`, pairs of context and command |
| frames on the network | `wire`, replies the card may yet deliver; `rx`, a reply past the unlocked sequence check |
| `efx_emcdi_fini` | `fini` |

A command structure is used by one call, so the model names commands, not
calls. `StartOrQueue` is the walk over the list: with nothing pending the first
eligible command is started, then every command in RETRY is sent again, and the
last one sent becomes `pending`; with send faults any of them may fail to go
out. What kmalloc leaves in `cmd->state` and `cmd->retry` is a choice among
`StateAtAlloc` and `RetryAtAlloc`, since the code reads both before it writes
them. `efx_emcdi_init` is guarded to start over an empty list without armed
work: initialising over live ones is undefined.

### Mcdi

What `iface_lock` protects is one record, `mcdi`; functions called with the lock
held are operators from record to record (`Remove`, `CancelCmd`, `ModeFail`,
`ModePoll`, `Complete`, `Advance`, `Timeout`, `Flr`), and an action is what one
context does under one hold of the lock.

| Code | Model |
|---|---|
| `mode, cmd_list, db_held_by, seq_held_by, prev_seq, prev_handle, outstanding_cleanups` | `mode, list, db, held, prev_seq, prev_handle, outstanding` |
| `nic_data->mcdi_buf_use` (one buffer, `EF10_NUM_MCDI_BUFFERS`) | `buf` |
| contents of the mailbox | `mail`: whose request, whether an event was asked for, the reply |
| `cmd->state, polled, proxy_handle, rc, ref, work` | `state, polled, proxied, rc, ref, work` |
| `time_after(jiffies, cmd->started + timeout)` | `expired`, set when a work item is entered late |
| completer called / what it was given | `called`, `done` |
| EVQ: completion events / proxy responses to come | `events`, `awaiting` |
| event queues started, MCDI in event mode, FLR under way | `stage` |

Three kinds of command: `Sync` (`efx_mcdi_rpc`: the caller spins for a jiffy,
waits, gives up and cancels), `Async` (`efx_mcdi_rpc_async`), `Atomic`
(`efx_mcdi_rpc_async_ext` as `ptp.c` uses it: immediate only, completer called
under the lock). Of the answers, "EIO" stands for a header that says the MC
rebooted, "FULL" for `MC_CMD_ERR_QUEUE_FULL`, "PROXY" for
`MC_CMD_ERR_PROXY_PENDING`, "OK" for every other, errors of the MC included.
`McAnswer` is external: the MC may answer what is in the mailbox, its event may
arrive at any later time or never. The environment a behaviour lives in is the
variable `setting`, chosen from `Settings` in the beginning: which calls are
made, which answers the MC gives and whether they may be late, whether memory
may be short, callers impatient and event queues in use. `ModeFail` does in one
step what the code does in a loop that ends only when the list is empty;
`FailEmpties` is what makes that sound, and is checked; where it does not hold
(event mode with refusals) the code would not leave the loop, and what follows in
the model is nothing to go by.

### VfRep

`RxAccept`, `RxQueue`, `RxTrigger` are `efx_u25_rx_packet` and
`efx_u25_vfrep_rx_packet` in a channel's poll; `PollGrab` ... `IndexStore` are
`efx_u25_vfrep_poll`, where line 601, `read_index = write_index` without the
lock, is a load and a store. `napi`, `missed` and `owner` are the NAPI core's
`NAPI_STATE_SCHED`, `NAPI_STATE_MISSED` and the CPU that polls, as the code uses
them; a CPU runs one poll at a time. `dev` follows open and close:
`napi_disable` comes first, `IFF_UP` is cleared later. Packets are numbered, and
delivery is a count: `InOrder` ties the two. The history variable `raced`
records that a packet was queued between the poll's last look at the list and
its store of `read_index`, or that the device was closed.

### TxQueue

| Code | Model |
|---|---|
| `insert_count, write_count, notify_count, read_count` | the same, modulo `CountSpace` |
| `xmit_pending`, `old_write_count`, `empty_read_count` | the same |
| `tx_queue->buffer[]` | `buffer`: free, mapped fragment, or the end of a packet (skb, copy, PIO) |
| `channel->holdoff_doorbell`, `tx_coalesce_doorbell` | `holdoff`, `coalesce` |
| the queue of the stack | `stopped` |
| `efx_enqueue_skb` in progress, `efx_process_channel` in progress | `tx`, `poll` |
| write pointer the NIC was given | `doorbell` |

A packet is `StartXmit`, then `MapFragment` (or `MapFails`, which unwinds),
`CopyPacket` or `PioPacket`, then `CheckFill`, `StopQueue`, `Recheck`, then the
pushes of `efx_tx_send_pending` and the test of `holdoff_doorbell`. The poll is
`PollEvent`s, the loop that rings doorbells left to it (`PollRing`,
`PollRang`) and sums the differences of the counts with separate reads of each
queue's two (`PollReadWritten`, `PollSubtract`, `PollUnsent`), and the wake-up,
whose level is read (`ReadFill`) before the test whether the queue is stopped
(`PollFill`, `PollWake`). `Restart` is a stop and start of the channel. History:
`overtaken` (the poll woke the queue on a level that packets had overtaken),
`unsaid` (`notify_count` was set from a second reading of `write_count`,
`ef10.c:2798`, or differences of two queues cancelled), `spurious`. That some
difference was found is noted in the poll's record (`differ`).

### RxQueue

| Code | Model |
|---|---|
| `added_count, notified_count, removed_count` | `rx.added, noted, removed`, modulo `CountSpace` |
| `rx_queue->buffer[]`: page, half, LAST_IN_PAGE, IN_RECYCLE_RING | `rx.buffer` |
| `page_ring, page_add, page_remove` | `rx.page_ring, page_add, page_remove` |
| `page_count(page)`, its DMA mapping | `rx.ref`, `rx.mapped` |
| `channel->rx_pkt_index, rx_pkt_n_frags` | `rx.pkt` |
| packets handled in this poll (`spent`) | `rx.spent` |
| `slow_fill_work` armed, the refill event | `slow_fill`, `event` |
| fragments the stack keeps | `held` |

Everything in `rx` belongs to the poll, so functions of the poll are operators
from record to record, and an action is one event handled: `Receive`,
`Discard`, `Abort`, `RefillEvent`, or the end of the poll, `EndPoll`. A packet
stays in the pipeline until the next event; `Flush` gives the outcomes
`__efx_rx_packet` may have (dropped, given to the stack, copied and its buffer
posted again). The stack frees what it holds, and memory is found or not, at any
time. `RunDry` is the NIC running out of buffers within a packet.
`fast_fill_trigger` is an operator on the ring size, and `TriggerFits` says for
which sizes the refilling can work (section 4).

### Reset

| Code | Model |
|---|---|
| `efx->state` with its FROZEN and RECOVERY bits | `state`, `frozen`, `recovering` |
| `netif_device_present`, `netif_running` | `present`, `opened` |
| datapath and interrupts | `datapath`, `interrupts` |
| `reset_pending`, `reset_work`, `reset_count` | the same; `work` |
| `efx_schedule_reset` in each context | `caller`: bit set, state tested, detached, queued |
| RTNL lock and who holds it | `rtnl` |
| `efx_reset` in progress | `engine`; `worker` is `efx_reset_work` before it |
| system suspended or resuming | `pm` |
| recovery from a PCI error | `pci` |
| failures, requests and events the bounds leave | `bounds` |

`LoadPending` and `StorePending` are the two halves of line 1159. `Covered` is
the set of methods a reset clears, by number as the code has it. Opening,
reallocating channels, freezing, thawing and recovering are two or three actions
each, between which requests come in but not another holder of the lock.
History: `owed` (methods asked for and not covered since), `raced` (a request
interleaved with the clearing of bits), `idleResume`.

### Axienet

One record of progress per context: `sender` for the stack, an application
(netlink) and the poll, `poll` for NAPI, and `irq` for the transmit interrupts:
`axienet_open` requests a line for each queue (`xilinx_axienet_main.c:1690`), all
with the handler `axienet_mcdma_tx_irq`, which takes the first channel that has
something pending whichever line it was called for (`xilinx_axienet_mcdma.c:359`)
and reaps its ring without a lock. So a handler of each line may be on a CPU of
its own: it enters while its channel is pending, selects, acknowledges, and for
each descriptor frees the packet (`ReapBd`) and then clears the fields and goes on
(`ReapClear`), where it may use the `tx_bd_ci` it read or one that another wrote
meanwhile. Rings are `bd` (free, owned by the engine, done), `tail`, `ci`, the
engine's place `hw`, and `skb`; `stopped` is the stack's queue 0, the only one
`netif_stop_queue` knows. `traffic` is the set of flows of a behaviour: senders and
receive side share no state but the lock and the flag, so they are checked by
pairs. History: `misfreed` (a packet was freed twice or forgotten), `crossed` (a
handler began to reap a ring in which another was), `left` (a poll ended at its
quota or without memory and left descriptors whose announcement it had
acknowledged). `GoOn` says whether a behaviour goes on once it `crossed`.

### TcNeigh

| Code | Model |
|---|---|
| `struct efx_neigh_binder`: in `neigh_ht` or not, `ref`, `ha` and `n_valid`, `dying`, `work` | `binder`; `ready` once INIT_WORK was done; `running` when its work has begun and waits for the mutex |
| `struct efx_tc_encap_action`: `ref`, `neigh`, on `neigh->users`, `encap_hdr` and `n_valid` | `encap`; `hw` is the header the NIC has |
| `struct efx_tc_flow_rule`: its action sets, the response in the NIC | `rule` |
| the kernel's neighbour entry, the egress device | `nb`, `egdev` |
| `efx_neigh_event` on each CPU | `cpu` |
| what the thread that holds `tc->mutex` does | `job`: a replace, a release, the work item, `efx_tc_unregister_egdev` |

All tunnels go to one remote address and so share a binder, which is where the
contexts meet; an address has at most one binder in the table, but an older one
may still be waiting for readers. A new binder is visible from `BindNew` on,
while `Route`, `ReadNeighbour` and `InitWork` still fill it. `Unlink`,
`synchronize_rcu` and `NotifierFrees`, `JobFrees` or `Unrouted` are
`efx_free_neigh`. Between the look-up of `efx_bind_neigh` (`FindOld`) and
`refcount_inc_not_zero` (`BindOld`) the thread has a pointer only.

Of the headers only the address counts. `efx_tc_update_encap` is a step that
builds the header (`WorkUpdates`, `UserUnlisted`, `UserLost`), one that sends it
(`SendHeader`), and one for each rule that uses it (`UpdateRule`): each request
sleeps, so notifiers run in between. A request that fails is not repeated; if it is
the header's, the rules are left alone. On a U25 (`efx_is_u25`) no action set lists
exist, `InsertRule` does not look whether headers are ready, and `Response` is the
list 0.

The removal of the egress device is `Dying`, `Grace`, and for each user
`RemoveUser` and `UserUnlisted`, or `JobFrees` and `UserLost` if that was the last
reference. It has no reference of its own: what it reads from a binder that a
notifier has freed meanwhile is any header, or the end of it. When an action is
deleted from a list it is not on, or freed memory is followed, the thread dies with
the mutex held (`job.at` = "oops"). History: `late`, `failed`, and `lost` in the
binders.

## 3. What is checked

| Run | Properties | What it shows |
|---|---|---|
| `emcdi_faults` | `NoEarlyFree` | with retransmission, repeated replies, two sequence numbers only, failed transmissions (no skb, no mport) and uninitialised state no command is freed early |
| `emcdi_live` | `FiniTerminates ImplementsRpc` | when transmissions succeed every call returns and the interface can be stopped, also if the card never answers and `retry` starts at 255 and wraps; the calls are those of `Rpc` |
| `emcdi_late` | `NoLateCompletion` | violation, section 4 |
| `mcdi_polled` | `TypeOK NoEarlyFree MailIsOwn NoLostWakeup FailEmpties CalledOnce FinishedForGood` | polled mode, a command of each kind, refusals, MC reboots, late answers, impatient callers, fail mode, function level reset; and, in event mode, commands proxied to another function: granted, refused, proxied twice, timed out, reset; and event mode with refusals. No command that was not refused waits beside a free mailbox, and one that was is tried again when another ends |
| `mcdi_events` | `RefsExact FlushedQuiet Answered ImplementsRpc` | event mode that starts, stops and falls back to polling, lost and late events, no memory for replies: without refusals and cancellation references are exact, nothing is left on the workqueue when the interface is flushed, every command is answered |
| `vfrep_paths` | `InOrder RxTriggered EventuallyReceived` | three CPUs, open and close, indices that wrap: nothing lost, duplicated or reordered, and nothing left lying but in the race of `u25_rep.c:601` |
| `txq_paths` | `TypeOK OneEmptyUnlessOvertaken MappingsOwned PioExclusive AllAnnounced Woken` | two queues of a channel, with and without doorbells left to the poll, mappings that fail, copies, PIO, promised packets, a restart: nothing overfull, no mapping undone twice or never, everything announced, the queue woken; but for the races of `overtaken` and `unsaid` below, which it reaches |
| `txq_overfull` | `OneDescriptorEmpty` | violation, section 4 |
| `rxqueue_refill` | `TypeOK RefsExact Exclusive PostedMapped RefillDue` | one receive queue whose pages are shared by two buffers, with scattered packets, discards, aborts, memory that runs out, slow refill, stop and start: pages are neither leaked, freed early nor given to the NIC twice, and the NIC is not left without buffers |
| `reset_requests` | `UpRuns Reattached Served` | a caller without the lock and resets that ask for resets, against open, close, reallocation, suspend, resume, failed resets, PCI errors: what is asked for is done, the device comes back |
| `axienet_relay` | `TypeOK BdsExact StoppedIsWoken ReceivedHandled` | stack and application sending to two rings against the reaping interrupt, and the relay of what is received: descriptors have one owner, the stopped stack has somebody to wake it, what arrives is handled |
| `tc_neigh` | `TypeOK InUseAllocated RefsExact NicFollows Followed` | rules into tunnels replaced and destroyed while the neighbour changes on other CPUs; requests that fail; an egress device that goes away; a U25: whoever took a reference keeps the binder, references are exact, headers and rules in the NIC follow the neighbour or are about to be written, and no change is forgotten |

`TypeOK` of `Emcdi`, `VfRep` and `Reset`, and `LifeCycle` and `CompletedOnce` of
`Emcdi`, are in no run: they are proved (section 5), for the instances of the
runs as for all others.

### Bounds, and why they are enough

* `Emcdi`: two commands. The races are between contexts working on *one*
  command; a second one is needed for queueing, for a reply that finds another
  command pending and for moving the queue on. `MaxRetry` 1 to 3: none left, one
  left, and (3) a call that times out while its command has retransmissions
  left. `SeqSpace` 1 or 2 make numbers collide at once; 8 in `emcdi_late`
  excludes collisions by wrapping. `MaxAge`/`MaxWait` stop ages where no guard
  tells them apart.
* `Mcdi`: a command of each kind (of two where the MC reboots or proxies).
  `SeqSpace` 4 in `mcdi_polled` lets timed out commands use numbers up; 16 is
  the code's. The settings switch parts of the environment on together that
  interact; all of them in one are beyond a few minutes of TLC.
* `VfRep`: three CPUs, two that queue against one that polls; `Weight` 2
  (`NAPI_POLL_WEIGHT`) gives full and short batches, `IndexSpace` 3 and six
  packets make both indices wrap twice.
* `TxQueue`: rings of four descriptors, packets of up to two; four is the
  smallest ring with room for one packet beside the descriptor kept empty.
  `CountSpace` 8 and counters that start at 6 make them wrap within three
  packets. Two queues are what partner queues, the PIO buffer and
  `channel->holdoff_doorbell` need. `MaxSkbs`: three packets fill the ring and
  find it full; two where the poll rings the doorbells, which takes it many more
  steps.
* `RxQueue`: eight descriptors, two pages of two buffers. Two pages let one be
  in the stack while the other is used; two buffers per page is what sharing
  needs. `RecycleSize` 2 is a ring that gets full. `WriteUnit` 2 stands for the
  eight of `ef10.c:3214`, and `CountSpace` 16 wraps. `MaxHeld` 2 bounds what the
  stack keeps.
* `Reset`: one caller of `efx_schedule_reset` outside the reset and the reset
  itself, two requests, the methods ALL (the widest of those that leave the PCI
  function alone) and MC_BIST (which disables); `ResetsBeforeDisable` 1 instead
  of 5; one failure and one power or PCI event, in any order with the rest.
* `Axienet`: rings of four and two descriptors, packets of up to two fragments,
  a poll's `Quota` 2 that the receive ring can reach, one failed allocation.
  Senders and the receive side share no state but the lock and the flag, so one
  behaviour has either the stack and an application, with a queue each in one order
  or the other, or arrivals and the relay. One message of the application, and any
  number of packets of the stack. `GoOn` is FALSE, since no property says anything
  of what follows two handlers in one ring.
* `TcNeigh`: four settings. Two tunnels and two CPUs, on which the neighbour
  changes twice, so that one notifier overtakes another; requests that fail, with
  two tunnels, for a rule with a header that is written and one that is not; two
  rules that share tunnels, with the removal of the egress device; two rules and
  one tunnel on a U25. Two binders: one in the table, one being freed.
  Two addresses tell a change from a repetition.

Deadlock is not checked: every system here may rightly stop, with every call
returned or every packet delivered.

### What some properties need

* `NoLostWakeup` (`Mcdi`): no proxied commands. A refused one frees the doorbell
  without `efx_mcdi_start_or_queue` (`mcdi.c:583`). And of commands in RETRY it
  speaks only when a running one ends otherwise than by a refusal: they are
  "retried once another command returns" (`mcdi.h:46`), and where there is no
  other they stay (`allow_retry`, `mcdi.c:1265`), doorbell and buffer being free,
  until somebody issues one. `Answered` is therefore checked without refusals.
  `RefsExact`: not proxied or
  refused and sent again while the timer of the event mode is armed, where
  `queue_delayed_work` does nothing and the reference taken for it is never put;
  `NoEarlyFree`, the other half, is checked with both. `CalledOnce`: not
  cancelled *and* proxied; a proxy reply overwrites the cancelled state
  (`mcdi.c:1231`). And with event queues none of these holds once answers are late
  or callers impatient (a command that timed out or was cancelled is completed
  again, section 4). The settings are chosen accordingly.
* `MailIsOwn`, `FailEmpties` (`Mcdi`): no refusals in event mode (`RefusedArmed`).
  A refused command keeps the timer of its first attempt (`mcdi.c:640`), and its
  work item, when that fires, takes the answer to the command that runs for its
  own, or fails the interface under it. `FlushedQuiet`: that no work item is armed
  when `efx_mcdi_flushed` holds is claimed in event mode without refusals,
  proxies, late answers and cancellation (`TimersEnd`), and in polled mode with
  all of them; that nobody's completer is still to come, always.
* `RxTriggered` and `EventuallyReceived` (`VfRep`): until `raced`, that is until
  a packet is queued between the poll's last look at the list and its store of
  `read_index`, or the representor is closed.
* `OneEmptyUnlessOvertaken`, `MappingsOwned`, `PioExclusive`, `Woken`
  (`TxQueue`): until `overtaken`, the race of `txq_overfull`. `AllAnnounced`,
  `Woken`: until `unsaid`. `ef10.c:2798` reads `write_count` a second time to
  set `notify_count`; what was written in between by the other side counts as
  announced and was not. `efx_channels.c:2217` adds up `write_count -
  notify_count` of all queues, in two reads each: a queue that is written and
  announced between its two counts -1 and cancels another, with a packet that was
  left to the poll, and the poll ends its loop without announcing that.
* `PostedMapped` (`RxQueue`): for buffers not posted `again` by a discard of
  half a page (section 4). The definitions are for `Switchdev` FALSE in the runs: with it the first buffer only of a packet that
  cannot be delivered is freed, and the references of the others leak.
* `UpRuns` (`Reset`): until `idleResume`. Recovery from a PCI error restarts
  nothing, since its reset finds STATE_RECOVERY. `Reattached`, `Served`: until
  `raced` (a request in the middle of which `reset_pending` is cleared), and not
  after a failed resume or recovery; a device that is disabled serves no
  more requests.
* `ReceivedHandled` (`Axienet`): until `left`. The poll acknowledges the status
  before it reads the descriptors (`xilinx_axienet_main.c:1497`), so those left
  at the quota, or without an skb, wait for the next arrival.
* `BdsExact`, `StoppedIsWoken` (`Axienet`): until `crossed`. Nothing keeps two
  handlers from one ring: the first acknowledges the channel, the engine completes
  another descriptor, and the handler of either line selects that channel again.
  Both may then free the packet of a descriptor and both advance `tx_bd_ci` (810,
  831), so that a descriptor is passed over, the ring stays full and nobody is left
  to wake the queue. With `GoOn` TRUE and `~misfreed` for an invariant TLC finds a
  packet freed twice in 14 states.
* `InUseAllocated` (`TcNeigh`): whoever has a reference, or is a reader. The thread
  that holds `tc->mutex` is left out while it is `Unheld`: after the look-up of
  `efx_bind_neigh` (`tc.c:359` to 366), and in `efx_tc_unregister_egdev`
  (`tc.c:282` to 290), but when it frees a binder itself. There a notifier that
  releases the last reference (551) frees the binder under it, which the run
  reaches, with the reads of freed memory at 266 and 932. So are encap actions off
  their list, which keep `encap->neigh`.
* `NicFollows`, `Followed` (`TcNeigh`): a binder follows the neighbour once it is
  initialised, unless it is `dying`, or `late`: of two notifiers the one with the
  older state stored last (`tc.c:521` against 538). Headers follow their binder
  unless a request `failed` or work was scheduled before INIT_WORK (`lost`), and
  as long as they are on its list: after the removal of the egress device they may
  be neither there nor without a binder. Rules follow the headers, but not on a
  U25, and not before their own request: after a header is written they have the
  old response with the new header until the thread comes to them (`job.rules`).
  After an oops nothing is `Followed`.
* `RefsExact` (`TcNeigh`): one reference too many for each work that was `lost`.
* `StoppedIsWoken` says that somebody is to wake the stack and not that it is
  woken: the loop that reaps a queue (`xilinx_axienet_main.c:795`) may run as
  long as the engine completes what others send.

### Fairness

* `Emcdi!FairSpec`: weak fairness of every task, work item, the RX context's own
  steps and fini. They are kernel contexts that run when they can. Strong
  fairness of `Tick`: time passes however busy the network is, though an
  endless supply of replies keeps disabling the step. Nothing is assumed of the
  network, of new calls, or of anyone stopping the interface.
* `Mcdi!FairSpec`: weak fairness of callers, work items and cleanup lists,
  strong fairness of entering a work item late: a command polled again and
  again reaches its timeout, because `jiffies` advances. Nothing is assumed of
  the MC, its events, or the reset, so `Answered` rests on timeouts alone.
* `VfRep!FairSpec`: weak fairness of what a channel's poll has begun, strong
  fairness of the representor's poll on its CPU, since the softirq polls the
  contexts scheduled on a CPU in turn.
* `TxQueue!FairSpec`: weak fairness of a packet under way and of the packet the
  stack promised (`xmit_more`); of a poll under way and of calling it while the
  NIC has an event to report; strong fairness of the poll finding events, for it
  may also run without. Nothing is assumed of new packets or restarts.
* `Reset!Fairness`: weak fairness of each caller, of the worker's start, and of
  whoever holds the RTNL lock; strong fairness of getting it (`WorkLock`,
  `PmStep`, `PciResume`), which others take and release in turn: the lock is a
  mutex with a queue. Nobody has to open or suspend.
* `Axienet!Fairness`: weak fairness of the receive interrupt and of a scheduled
  poll; strong fairness of the poll getting `netif_tx_lock`, a queued spinlock.
* `TcNeigh!FairSpec`: weak fairness of the thread that holds `tc->mutex`, of
  notifiers, of work that is queued, and of freeing a binder; strong fairness of
  the work getting the mutex, which tc commands may take again and again: it has
  a queue. Nobody has to change a neighbour or a rule.

`RxQueue` has no fairness: that a queue is refilled in the end is stated as the
invariant `RefillDue`, which names who is going to do it.

## 4. Where the code and its comments differ

1. `emcdi_late`: `efx_emcdi_timeout_cmd` sets RETRY whatever the state was
   (`emcdi.c:666`). A command whose call timed out, was cancelled and returned
   is sent again and completed: the completer writes to a `wait_data` and an
   output buffer of a call that is over. The comment at line 631 says the
   completers of cancelled commands have been called already.
2. `txq_overfull`: the poll computes the fill level before it tests whether the
   queue is stopped (`efx_channels.c:2242`, 2247). If the ring fills and stops
   in between, the queue is woken on the old level, and the ring gets fuller
   than "We must keep at least one descriptor in a TX ring empty"
   (`efx_common.c:570`).

Read while modelling and not given a run of their own:

* `emcdi.c`: the delayed work of a command cancelled in RETRY outlives the
  workqueue `efx_emcdi_fini` destroys; a retransmission sets `prev_seq` back, so
  two commands on the wire may have one number (715); the reference to
  `wait_data` taken at 1068 is never put, so every submitted call leaks it.
* `mcdi.c`: a command that timed out stays in `seq_held_by`, so the event of a
  late answer before the reset completes it again; the refusal of a proxied
  command does not start the next (583); a cancelled command is unlinked by its
  completion without becoming FINISHED (1246), so that in event mode its work item,
  if it already runs, completes it once more. A command the MC had no resources for
  waits for another one to return, also when there is none (1265). In event mode
  its timer stays armed (640), and `efx_mcdi_cmd_work` looks for FINISHED and PROXY
  but not for RETRY: it reads the answer to another command; or it times out and
  calls `efx_mcdi_mode_fail`, whose loop (1475) never ends when another command
  runs, with `iface_lock` held; or it fires after the interface was flushed and its
  workqueue destroyed (248).
* `efx_common.c`: "no race here" (1155) is not so: `efx_schedule_reset` sets its
  bit without the RTNL lock, and if it tests the state before the bits are
  cleared and detaches the device after it was attached, nobody attaches it
  again. `raced` marks these behaviours. A PCI error stops nothing and resuming
  starts nothing (1871); EAGAIN in the resume leaves STATE_RECOVERY set; a
  failed thaw or resume does not queue what is pending. `efx.c:416` opens a
  device with a reset pending without its datapath. `ef10.c:1651` sets
  STATE_DISABLED without closing the device. `enum.h:138`: a reset of method
  DATAPATH covers, by number, more than it does.
* RX: a discarded buffer is posted again although its page is shared
  (`rx_common.c:258`), against the comment at 212; if its other half then finds
  the recycle ring full, it unmaps the page the NIC is to write to. With the
  smallest ring the driver accepts (`EFX_RXQ_MIN_ENT`, `efx.h:142`)
  `fast_fill_trigger` is 0 or 1 and the queue is never filled or announced;
  `TriggerFits` is what the ring size has to satisfy, and 32 does.
  `efx_fini_rx_queue` compares counters that wrap (`rx_common.c:559`) and may
  skip its loop, leaking the buffers (`lost`). An RX abort returns no work, so
  the poll that handles nothing else neither refills nor rings (`ef10.c:3485`);
  `RefillDue` holds all the same. Entries of the recycle ring are not cleared when reused, so
  a ring that was full once stays full.
* tc: "Should cause neigh usage count to fall to zero" (`tc.c:267`) is so only for
  one tunnel and no pending work. Otherwise `encap->neigh` stays set (463): the
  header remains valid, and releasing the rule deletes the action from the list
  again. On a U25 `efx_tc_update_encap` gives a rule the list 0 (957), and rules
  are inserted however unready (3915). A notifier may find a binder before its
  lock and work item are initialised (359, 418); an error of
  `efx_tc_flower_replace` on a U25 does not delete the rules inserted so far
  (3923). An update for a flow counter that is gone uses a null pointer once
  `net_ratelimit` refuses to log (1501).
* MCDMA: an interrupt of a transmit channel reaps the lowest one that has one
  pending (`xilinx_axienet_mcdma.c:359`), without a lock, so that two may reap one
  ring (section 3, `crossed`); `nl.c:95` takes `netif_tx_lock` with softirqs
  enabled; `set_ringparam` accepts sizes `CIRC_SPACE` does not work with
  (`xilinx_axienet_main.c:2338`); NETDEV_TX_BUSY is ignored by the netlink and
  the relaying sender, whose packets are then lost.

## 5. What is proved

`EmcdiProofs` proves, for any finite set of commands, any positive retry limit
and sequence space, any content of fresh memory, repeated replies and failing
transmissions:

| Theorem | Statement |
|---|---|
| `TypeCorrect` | `Spec => []TypeOK` |
| `Inductive` | `Spec => []IInv` |
| `NeverFreedEarly` | `Spec => []NoEarlyFree` |
| `CancelledNeverPending` | `Spec => []CancelledNotPending` |
| `LifeCycleKept` | `Spec => []LifeCycle` |
| `CompleterCalledOnce` | `Spec => CompletedOnce` |
| `CleanupsAreCounted` | `Spec => []CleanupsCounted` |
| `PendingStaysListed` | `Spec => []PendingListed`, if an skb can always be had |
| `EmcdiImplementsRpc` | `Spec => Caller!SafeSpec`: the calls are those of the abstract transport |

`VfRepProofs` proves, for any set of CPUs, weight, index space and number of
packets, and with the representor closed at any time:

| Theorem | Statement |
|---|---|
| `Invariance` | `Spec => []IInv` |
| `TypeCorrect` | `Spec => []TypeOK` |
| `AlwaysInOrder` | `Spec => []InOrder` |
| `AlwaysTriggered` | `Spec => []RxTriggered` |

`ResetProofs` proves, for any callers and any bounds on requests, failures and
events:

| Theorem | Statement |
|---|---|
| `TypeCorrect` | `Spec => []TypeOK` |
| `Invariance` | `Spec => [](TypeOK /\ IInv)` |
| `UpAlwaysRuns` | `Spec => []UpRuns` |
| `DisabledForGood` | `Spec => DisabledStays` |

`AxienetProofs` proves, for any number of queues, rings of any power of two up
to 4096 that hold a packet, any quota and traffic:

| Theorem | Statement |
|---|---|
| `Inductive` | `Spec => []IInv` |
| `TypeCorrect` | `Spec => []TypeOK` |
| `RingsExact` | `Spec => []BdsExact` |
| `NoLostStop` | `Spec => []StoppedIsWoken` |
| `CompletionsAnnounced` | `Spec => [](~crossed => \A q \in Queues : DoneAnnounced(q))` |

`TcNeighProofs` proves, for any finite sets of rules, tunnels and CPUs, any
binders and addresses, any number of changes and any settings:

| Theorem | Statement |
|---|---|
| `Invariant` | `Spec => []IInv` |
| `TypeCorrect` | `Spec => []TypeOK` |
| `ReferencesExact` | `Spec => []RefsExact` |
| `NoUseAfterFree` | `Spec => []InUseAllocated` |
| `NicFollowsNeighbours` | `Spec => []NicFollows` |

`TxQueueProofs` proves, for any finite set of queues, ring size, number of
descriptors a packet may take, push threshold and start of the counters:

| Theorem | Statement |
|---|---|
| `Invariant` | `Spec => []IInv` |
| `TypeCorrect` | `Spec => []TypeOK` |
| `RingNeverFull` | `Spec => []OneEmptyUnlessOvertaken` |
| `MappingsExact` | `Spec => []MappingsOwned` |
| `EveryPacketAnnounced` | `Spec => []AllAnnounced` |

`RxQueueProofs` proves, for any number of pages, any halves and pages of a
batch, any ring, recycle ring and space of the counters, packets of any number
of fragments, and memory found or not:

| Theorem | Statement |
|---|---|
| `Invariant` | `Spec => []IInv` |
| `TypeCorrect` | `Spec => []TypeOK` |
| `Exclusively` | `Spec => []Exclusive` |
| `PostedAreMapped` | `Spec => []PostedMapped` |
| `RefillComes` | `Spec => []RefillDue` |
| `NeverFreedEarly` | `Spec => []RefsSuffice`: `RefsExact` with "at least" |
| `RefsCounted` | `Spec => []RefsExact`, if not `Switchdev` |

`McdiProofs` proves, for any finite sets of commands of each kind, any number
of sequence numbers and any settings:

| Theorem | Statement |
|---|---|
| `TypeCorrect` | `Spec => []TypeOK` |
| `QueueMovesOn` | `Spec => NoLostWakeup` |
| `PolledRefsExact` | `Spec => [](~setting.interrupts => RefsExact)` |
| `PolledNoEarlyFree` | `Spec => [](~setting.interrupts => NoEarlyFree)` |
| `PolledMailIsOwn` | `Spec => [](~setting.interrupts => MailIsOwn)` |
| `PolledFailEmpties` | `Spec => [](~setting.interrupts => FailEmpties)` |
| `PolledFlushedQuiet` | `Spec => [](~setting.interrupts => FlushedQuiet)` |
| `PolledCalledOnce` | `Spec => [](~setting.interrupts /\ "PROXY" \notin setting.answers => CalledOnce)` |
| `PolledFinishedForGood` | `Spec /\ ~setting.interrupts => FinishedForGood` |
| `PolledImplementsRpc` | `Spec /\ ~setting.interrupts /\ "PROXY" \notin setting.answers => Caller!SafeSpec` |

The assumptions are the named `ASSUME`s of the modules: sets of commands,
queues, rules, tunnels and CPUs that are finite and not empty, a null value that
is in none of them, rules that are no tunnels (`RulesNoKeys`: the history variable
`failed` has both), positive sizes and limits, known garbage, replies and
faults; that a ring divides the space of the counters (`CountsWrap`: both are
powers of two in the code) and that a packet fits on a ring. For `TxQueue`
(`DescsFit`) `efx.c:1253` sees to it, which makes rings twice as large. For
`Axienet` (`TxSizePowerOfTwo`, `PacketFits`) it holds of the size the driver
starts with; ethtool's is not looked at (`xilinx_axienet_main.c:2325`). For
`RxQueue`, a batch is a multiple of what the write pointer moves by
(`BatchesFit`), the recycle ring has whole pages (`RecycleFits`), and the trigger
leaves room for a packet (`TriggerFits`), which is so from 32 entries on (section
4). TLC
evaluates the assumptions on every run of the module.

`Emcdi`. `NoEarlyFree` is not inductive alone: that a work item puts only its
own reference depends on where a command can be found at each stage of its
life. `LifeCycle` says so: before it is submitted nobody knows the command; on
the list it was neither completed nor given up; a work item whose command is off
the list finds it FINISHED; it is cancelled once. That a reply is taken only for
a command that is not cancelled (otherwise `efx_emcdi_complete_cmd` unlinks
nothing and drops the reply) is `CancelledNotPending`. So

    IInv == TypeOK /\ LifeCycle /\ NoEarlyFree /\ CancelledNotPending

is preserved by every action. The walk over the list (`StartOrQueue`) and the
actions that contain it are first described by lemmas (`TransmitEffect`,
`StartOrQueueEffect`, `WorkRetryEffect`, `RxCompleteEffect`): which commands
they put in which state, and that they take a reference for each timer they arm.
`CompletedOnce` follows because a completed command is off the list and so never
pending in it; `CleanupsCounted` needs in addition that `cleanup` is finite and,
from `LifeCycle`, that a context never adds a command twice; the refinement maps
each action of `Emcdi` to one action of `Rpc` or to a stutter.

`VfRep`. `InOrder` alone does not exclude that two CPUs take packets at once;
`GrabOwned` does: who is between taking packets and delivering them is the owner
of the scheduled poll, and `head` is empty otherwise. `Numbered` states `InOrder`
element by element and with a length, which is what a step that appends, splits
or delivers preserves. `NapiOff` ties NAPI to open and close. `RxTriggered`
speaks of the moment when no CPU is in a poll; `Unraced` says what holds in
between, in particular that the list is empty in the gap and that a stored index
is the one in use, as long as nothing raced.

    IInv == TypeOK /\ GrabOwned /\ Numbered /\ NapiOff /\ (raced \/ Unraced)

`Reset`. Whether an attached device runs depends on who is about to attach it:
`OpenedRuns`, `EngineRuns` and `ReallocDetached` say what the holder of the RTNL
lock has done by then, `PresentRuns` is `UpRuns` for the states between thawing
and freeing the lock, `EngineLocked` and `PowerExclusive` keep the holders
apart, `PathInterrupts` gives interrupts with the datapath, and `Stays` is what
`DisabledStays` needs of a state.

`Axienet`. `BdsExact` is a statement about a cyclic interval between `ci` and
`tail` and does not say where the engine is. `RingOK` gives the interval without
remainders (`From`), that a packet's skb sits on a descriptor in use, and that what
the engine has is the last part of the interval: without that a reap that stops at
the first descriptor not done could leave others behind. `Apart` keeps the handlers
in rings of their own, `Clears` and `FreedNow` say what one has done between freeing
a packet and clearing its descriptor. All this, `Sound`, holds until two handlers
meet, `crossed`; the invariant is `~crossed => Sound`, since the handlers go on
however `GoOn` is. `DoneAnnounced` is why an interrupt that is acknowledged *before* the
reap loses nothing, and why `StoppedIsWoken` is inductive: the stack is stopped
on a full queue, whose descriptors are done and announced, or still owned by the
engine, which will announce them. `RelayWaits` keeps the poll, which is itself a
sender, from going on without its packet.

`TcNeigh`. A count of references is exact only if every step knows what else
refers to the binder. So the invariant is `RefsExact` term by term (`RefSum`:
encap actions, lost work, work queued, work running, notifiers, whoever fills a
new one), and what gives each term its meaning:

    IInv == Types /\ JobOK /\ EncapOK /\ CpuOK /\ FreeOK /\ BinderRefs /\ EncapRefs

`JobOK` says what the thread that holds `tc->mutex` has in hand at each point,
`EncapOK` when an encap action is on a list, and `FreeOK` that whoever frees a
binder does so alone: its count is zero, no other CPU frees it, and a notifier
that still has it in hand (it found it under RCU before it was unlinked) keeps it
from being freed. `NoUseAfterFree` adds up what these say of each holder of a
pointer, the thread with the mutex included unless it is `Unheld`. `EncapRefs` makes sure that the encap actions
`efx_tc_remove_neigh_users` finds on a list are in use by rules.

`NicFollows` needs more, relative to `IInv`:

    NicInv == OneInTable /\ Following /\ InHand /\ HeadersFollow /\ SendFollows
              /\ HeadersSent /\ RulesFollow

That *some* notifier is on its way says nothing of what it will store.
`Following` says that one of them tells *this* binder the *present* state: it has
not read the neighbour yet, or it has read what is true now and has not looked up
a binder, or has looked up this one. So a notifier that stores something else is
the one that makes the binder `late`, and one that was told leaves it right. It
can tell only one binder, which is enough because the table has one
(`OneInTable`); and it counts from the moment the binder has read the neighbour,
before INIT_WORK. `InHand` says that the encap actions a work item still has to go
through, and the one it is writing, are its binder's, and that a binder being filled
has none. A notifier may change the binder after a header was built and before it is
sent: `SendFollows` says that it is still the binder's then, or somebody is due to
write it again. Rules are written from the header that was *built* (`hdr`), and
`NicFollows` speaks of the one the NIC has: `HeadersSent` makes them equal unless it
is being sent or a request failed. That a
released encap action leaves no rule behind is the exact count of `EncapRefs`: the
last reference is the one of the rule that releases it (`LastUser`).

`TxQueue`. The counters wrap and are compared as they are, so the proof is in
three layers: remainders; one ring, as lemmas about constants (`RingOK`, and what
inserting, unwinding, completing, writing and announcing do to it); the
specification. `RingOK(i, t, w, r, ...)` orders the counters of a ring, `r`
(completed), the doorbell, `w` (written), `t` (whole packets) and `i` (inserted),
by their distance from `r`, all less than a ring; says that the buffers in use
are those from `r` to `i`; and that the one before `t` ends a packet. Nothing of
that survives the race of `txq_overfull`, so

    IInv == Types /\ TxOK /\ MappedEnough /\ (~overtaken => Sound)

where `Sound` is a good ring for every queue, `Room` (a queue that is not stopped
has room for a packet on *every* ring, at the latest when the next packet is
handed over: the fill level is tested after a packet and for the fullest ring),
`Fits` (what is left of the packet on its way has room), as many mappings as
buffers that undo one, and no spurious completion. `MappedEnough` holds even
afterwards: a mapping may be lost, none is undone twice. The places where the
code counts on the next packet and not on the present one are those where `Room`
is excused (`tx.stage` in `mapped`, `stop`).

`AllAnnounced` is about the moment when nobody is at work, and rests on

    Told == Rung /\ Written /\ Drained /\ Noted /\ Held

The doorbell stands at what was announced, but for the queue at which the poll
stands between setting `notify_count` and ringing (`Rung`). The whole packets of a
queue (up to `Due`) are written, or the queue is `xmit_pending` (`Written`), which
it is no longer when no packet is on its way or promised (`Drained`). What was
written is announced, or the transmit path stands before the test of `holdoff`, or
the poll, or its next round, will go through the bells (`Noted`); doorbells are held
off only while the poll runs (`Held`). `Unseen` says for the sum what the poll has
still to find: a queue whose packets are left to it is yet to be read, or was read
with the count it still has, or a difference has been found, after which only a
sum of 0, that is `unsaid`, ends the loop. Once the poll has read `write_count`
twice with a packet in between, `unsaid` excuses too.

`RxQueue`. The poll goes from one record to the next through operators, several
of which are loops (recursive functions on the numbers up to a bound). So the
account is stated of *any* queue in the middle of an action:

    Good(m, lo, kl, H, L)

says that the buffers from the `lo`-th on are in use (`Window`), that those from
the `kl`-th on may be what keeps their page mapped, that the buffers in use and
those in `H` are all different memory (`Apart`), that each mapped page has one
keeper, a LAST_IN_PAGE buffer or a place in the recycle ring, or is in `L`
(`OneKeeper`), and that every reference count is the number of these users. For
each function of the driver a lemma says how it moves `lo`, `kl` and `H` on; for
each loop one by induction over the numbers up to its bound; then one for each
action. Between actions

    IInv == Domains /\ Kept(...) /\ Settled(rx) /\ Staged(...) /\ CutShort(...) /\ Fed(...)

`Kept` is `Good` with what the stack holds for `H`, and two sets that exist only in
the proof: buffers nobody will free (the others of a packet dropped in switchdev
mode, or of pages that a stop passed over), and pages passed over that stay mapped.
That is why `RefsExact` becomes "at least" in switchdev mode. `PostedMapped` does
not follow from the counts: a page's last buffer comes off the ring after its
others only because they were posted in order, which is `Chain`: a buffer that is
of no recycled page and was not posted again is followed by its page's last one.
`RefillDue` is `Fed`: unless a refill is due, the NIC has buffers for a packet of
any size, `MaxFrags`. What it has is announced in multiples of `WriteUnit`, which
is why a packet cut short (`CutShort`) that uses up the last of them leaves no
remainder that is neither enough nor noticed.

`Mcdi`. The code is a set of functions from record to record, so the proof has
one lemma for each (`RemoveIs`, `StartIs`, `ModeFailIs`, ... say which fields they
change), and the actions follow from the lemmas of the operators they call.
The first half of `NoLostWakeup`, which is about settings without proxied commands,
is inductive if strengthened to no command waiting for another function (`Moving`):
whoever frees the doorbell then ends with `Advance`, or with an empty list. The
second half is about a step (`StepEases`): either the commands that run go on
running, or the step ends with an `Advance` that allows retries or with the fail
mode or the reset, which leave none in RETRY; for a command that is issued and
refused at once it needs that it was not listed before (`Occupied`). The other
theorems rest on two arguments. First, *accounts*: the
`Surplus` of a command, its references less those that the list, an armed timer
and the cleanup lists stand for, and `Unlisted`, `outstanding_cleanups` less the
entries of those lists, are left alone by every operator (`Conserved`, the
`...Books` lemmas), so that only the start and the end of a work item's function
have to be counted. Second, *one doorbell*:

    Polled == ~setting.interrupts => stage \in {"off", "reset"} /\ Polls(...)

where `Polls` says that a command is `Resting` (not on the list, or on it to be
sent, with no timer armed and no work item running) or `Working`, and only the
holder of the doorbell is (`Fine`); that the accounts are exact (`Exact`); and
that a failed interface has an empty list (`Failing`). The buffer is the
holder's as long as that one runs. These theorems are about behaviours whose event
queues are never started, as at probe, in a reset or without interrupts; proxied
commands, late answers, reboots and impatient callers are included.

`CalledOnce` needs a third account: `Due`, the calls of a completer that were
made, that a cleanup list will make, and that leaving the list will. No operator
adds to it (`NoneAdded`, the `...Adds` lemmas); only issuing a command does, once.
So it is at most one (`Paid`). The theorem excludes proxied commands, since a
proxy reply overwrites the cancelled state and makes a second call due.

`FinishedForGood` rests on one relation, `Spares`: every operator leaves alone a
command that is off the list and is not the one it works on. In `Polled` a
FINISHED command is off the list, and a command that is issued was not FINISHED
before (`Unused`). The refinement rests on another, `Replied`: what a caller sees
changes only when a completer is called. With `CalledOnce` and `Uncalled` (no
reply without a call) a step that calls completers is `Rpc`'s `Reply`. That action
answers any number of calls at once: `efx_mcdi_mode_fail` calls the completers of
all atomic commands under one lock. Two of them are on the list when the MC had no
room for the first and timed out on the second.

With event queues the invariants fail for some settings, above all since a command that timed out
is still in `seq_held_by` when its late event arrives (section 4): without late
answers and proxied commands TLC checks them.

`CleanupsCounted`, `CancelledNotPending`, `PendingListed`, `DisabledStays` and
`CompletionsAnnounced` are proved and in no run, for the proofs cover all a run
could show.

Only model-checked:

* everything about liveness (`FiniTerminates`, `Answered`, `EventuallyReceived`,
  `Woken`, `Reattached`, `Served`, `ReceivedHandled`, `Followed`, the fair half of
  `ImplementsRpc`), which is out of the prover's reach;
* `PioExclusive`: it is not true for every value of the constants.
  `empty_read_count` keeps no more than the counter without its top bit, so a
  value left from before matches again when half of `CountSpace` descriptors were
  sent while the ring was never empty; TLC's bound on packets is less;
* what the theorems about polled mode leave to event mode (section 3 says for
  which settings), `ImplementsRpc` of `Mcdi` there included.

## 6. What is not modelled

In the modelled parts:

* everywhere: message contents and lengths, logging, statistics, weak memory
  order (barriers are where the code has them; the models are sequentially
  consistent);
* `emcdi.c`: start failures of `efx_emcdi_init` and two initialisers at once;
  the interfaces of different types, which share only the transmit lock;
* `mcdi.c`: `efx_mcdi_init`/`_fini`, `efx_mcdi_wait_for_quiescence`,
  `reboot_seen` and which resets are scheduled, `hw_unavailable`, proxy handles
  that match no command, and the command set built on the transport;
* `u25_rep.c`: transmission, creation and removal of representors;
* TX: option descriptors of hardware TSO, time stamp events, byte queue limits,
  XDP and AF_XDP queues;
* RX: AF_XDP, XDP, LRO, event queue overruns, failed flushes, interrupt
  moderation, allocation of channels;
* reset: what each method does to the hardware, `efx_try_recovery`, the wait for
  the end of BIST, the poll for reboots in `efx_net_open`, drivers on top;
* MCDMA driver: DMA errors and the tasklet that resets all rings, opening and
  closing, ring sizes, time stamps, checksums, TSN, PHY and ethtool;
* tc: matches and encap matches, rules on the left-hand side and conntrack,
  pedits, flow counters, default rules, U25 legacy mode, that a U25 has one
  rule for each action set, start and stop of the offload.

Other parts of the repository. Much of its text are generated headers
(`mcdi_pcol.h`, `mc_driver_pcol.h`, register definitions: a third of all lines),
compatibility shims for kernels, front ends that fill tables for ethtool, sysfs
or debugfs, and code for boards that are not the U25N (Siena, Falcon, EF100):
it keeps no state of its own that a model could say something about. What does
and is still left is in the plan; `PROJECT.json` lists each part with its
reason.

## 7. Plan

In order of importance:

1. Proofs: the theorems of `McdiProofs` in event mode without late answers and
   proxied commands; `PioExclusive` of `TxQueue`, for fewer packets than half of
   `CountSpace`.
2. `Session` (`imageupgrade.c`, `ipsec.c`): sessions over several eMCDI
   interfaces, each abstracted by its enabled flag and its calls. Properties:
   started interfaces are stopped, nobody's interface is stopped under it.
3. Flow counters of `tc.c` (allocation, update from the counter stream, work,
   release), and encap matches, composed with `TcNeigh`.
4. `Filters`: insertion and removal against the restoring of the table after a
   reset (`mcdi_filters.c`), composed with `Reset`.
5. `Logger` and `VirtBus`: one hazard each; the error task of the MCDMA driver;
   AF_XDP wake-ups in `TxQueue` and `RxQueue`.
