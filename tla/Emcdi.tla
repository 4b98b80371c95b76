------------------------------ MODULE Emcdi ------------------------------
(***************************************************************************)
(* Encapsulated MCDI: the request/reply protocol the host driver speaks    *)
(* with the processing subsystem (PS) of the card over Ethernet frames     *)
(* (sfc/emcdi.c, sfc/emcdi.h).  One interface (struct efx_emcdi_iface) is  *)
(* modelled, with any number of callers of efx_emcdi_rpc, the delayed work *)
(* item of every command, the NAPI context that receives replies, and the  *)
(* code that initialises and stops the interface.                          *)
(*                                                                         *)
(* One command structure is used by one call.  Everything the code does    *)
(* under iface_lock is one action; what it reads before it takes the lock  *)
(* or does after it drops it is an action of its own.                      *)
(***************************************************************************)
EXTENDS Integers, FiniteSets

CONSTANTS
    Cmds,           \* the command structures, one for each call
    NoCmd,          \* the NULL of emcdi->pending
    MaxRetry,       \* EMCDI_MAX_RETRY
    SeqSpace,       \* sequence numbers are 0 .. SeqSpace - 1 (2^16)
    StateAtAlloc,   \* what kmalloc may leave in cmd->state
    RetryAtAlloc,   \* what kmalloc may leave in cmd->retry
    Replies,        \* what a completer may be given: "OK", "EIO" (or no memory)
    Repeats,        \* whether one transmission may be answered several times
    SendFaults      \* ways a transmission may fail: "noskb", "nomport"

States == {"QUEUED", "RETRY", "RUNNING", "RUNNING_CANCELLED", "FINISHED"}
Seqs   == 0 .. SeqSpace - 1
Bytes  == 0 .. 255             \* cmd->retry is a u8

ASSUME CmdsFinite   == IsFiniteSet(Cmds)
ASSUME NoCmdNotCmd  == NoCmd \notin Cmds
ASSUME MaxRetryPos  == MaxRetry \in Nat \ {0}
ASSUME SeqSpacePos  == SeqSpace \in Nat \ {0}
ASSUME AllocGarbage == StateAtAlloc \subseteq States /\ RetryAtAlloc \subseteq Bytes
ASSUME KnownReplies == Replies \subseteq {"OK", "EIO"}
ASSUME RepeatsBool  == Repeats \in BOOLEAN
ASSUME KnownFaults  == SendFaults \subseteq {"noskb", "nomport"}

(* The waiter gives up after EMCDI_MAX_RETRY * EMCDI_RPC_TIMEOUT.  Time is *)
(* counted in units of EMCDI_RPC_TIMEOUT, and ages stop growing when no    *)
(* guard can tell them apart.                                              *)
MaxWait == MaxRetry
MaxAge  == 2

VARIABLES
    \* struct efx_emcdi_iface
    enabled, pending, prev_seq, prev_handle, cmd_list, outstanding_cleanups,
    \* struct efx_emcdi_cmd
    state, retry, seq, handle, ref, started,
    \* cmd->work: the delayed work item, and whether its function was entered
    work, running,
    \* the caller of efx_emcdi_rpc, its wait_data and what it returns
    caller, waited, done, wait_ref, result,
    \* the cleanup lists of the contexts that have not processed them yet
    cleanup,
    \* replies that may still arrive, and the one past the unlocked check
    wire, rx,
    \* efx_emcdi_fini
    fini

ifaceVars  == <<enabled, pending, prev_seq, prev_handle, cmd_list, outstanding_cleanups>>
cmdVars    == <<state, retry, seq, handle, ref, started, work, running>>
callerVars == <<caller, waited, done, wait_ref, result>>
vars == <<ifaceVars, cmdVars, callerVars, cleanup, wire, rx, fini>>

Contexts  == {"caller", "work", "rx"}
Callers   == {"idle", "checked", "waiting", "cancelling", "cancelled", "returned"}
Results   == Replies \cup {"ENETDOWN", "ENOMEM", "ETIMEDOUT"}
Msgs      == [cmd : Cmds, seq : Seqs]
NoMsg     == [cmd |-> NoCmd, seq |-> 0]

Init ==
    /\ enabled = FALSE
    /\ pending = NoCmd
    /\ prev_seq = 0
    /\ prev_handle = 0
    /\ cmd_list = {}
    /\ outstanding_cleanups = 0
    /\ state = [c \in Cmds |-> "QUEUED"]
    /\ retry = [c \in Cmds |-> 0]
    /\ seq = [c \in Cmds |-> 0]
    /\ handle = [c \in Cmds |-> 0]
    /\ ref = [c \in Cmds |-> 0]
    /\ started = [c \in Cmds |-> 0]
    /\ work = [c \in Cmds |-> "idle"]
    /\ running = [c \in Cmds |-> FALSE]
    /\ caller = [c \in Cmds |-> "idle"]
    /\ waited = [c \in Cmds |-> 0]
    /\ done = [c \in Cmds |-> "none"]
    /\ wait_ref = [c \in Cmds |-> 0]
    /\ result = [c \in Cmds |-> "none"]
    /\ cleanup = {}
    /\ wire = {}
    /\ rx = NoMsg
    /\ fini = "stopped"

----------------------------------------------------------------------------
(* Helpers                                                                  *)

One(b) == IF b THEN 1 ELSE 0

(* Names ending in _X are faulty variants of the definition they precede:   *)
(* substituted for it, they show that a property notices the fault.         *)

NextSeq(s) == (s + 1) % SeqSpace

(* The list is in the order of the handles: list_add_tail and the increment *)
(* of prev_handle happen under the same hold of the lock.                   *)
Eligible(st, list) == {c \in list : st[c] \in {"QUEUED", "RETRY"}}

IsFirst(c, S) == c \in S /\ \A d \in S : handle[c] <= handle[d]
IsLast(c, S)  == c \in S /\ \A d \in S : handle[d] <= handle[c]

(* efx_emcdi_start_or_queue(emcdi, true, NULL): the commands it transmits   *)
(* when pending is pend.  With nothing pending the first eligible command   *)
(* is started; after that every command in RETRY is sent again, because the *)
(* test is on cmd->state alone.                                             *)
Fresh(st, list, pend) ==
    IF pend = NoCmd THEN {c \in Cmds : IsFirst(c, Eligible(st, list))} ELSE {}

Attempted(st, list, pend) ==
    IF enabled
    THEN Fresh(st, list, pend) \cup {c \in list : st[c] = "RETRY"}
    ELSE {}

(* Transmission of the commands in tried, those in fresh with a new number. *)
(* Without an skb the command is pending and its clock restarted already,   *)
(* but it is not RUNNING and has no work item.                              *)
Transmit(st, pend, fresh, tried, sent, refs, works) ==
    LET newSeq == [c \in Cmds |-> IF c \in fresh THEN NextSeq(prev_seq) ELSE seq[c]]
        seqs   == [c \in Cmds |-> IF c \in tried THEN newSeq[c] ELSE seq[c]]
    IN  /\ IF tried = {}
           THEN pending' = pend /\ prev_seq' = prev_seq
           ELSE \E c \in tried :
                   IsLast(c, tried) /\ pending' = c /\ prev_seq' = seqs[c]
        /\ seq' = seqs
        /\ state' = [c \in Cmds |-> IF c \in sent \cap fresh THEN "RUNNING" ELSE st[c]]
        /\ started' = [c \in Cmds |-> IF c \in tried THEN 0 ELSE started[c]]
        /\ ref' = [c \in Cmds |-> IF c \in sent THEN refs[c] + 1 ELSE refs[c]]
        /\ work' = [c \in Cmds |-> IF c \in sent /\ works[c] = "idle" THEN "armed" ELSE works[c]]
        /\ wire' = wire \cup {[cmd |-> c, seq |-> seqs[c]] : c \in sent}

(* Which of the commands it tries to transmit a pass over the list sends.   *)
SentOf(tried) == IF "noskb" \in SendFaults THEN SUBSET tried ELSE {tried}

StartOrQueue(st, list, pend, refs, works) ==
    LET tried == Attempted(st, list, pend)
    IN  \/ \E sent \in SentOf(tried) :
              Transmit(st, pend, Fresh(st, list, pend), tried, sent, refs, works)
        \/ /\ "nomport" \in SendFaults
           /\ Transmit(st, pend, {}, {}, {}, refs, works)

(* _efx_emcdi_remove_cmd by context ctx: every command has a completer.     *)
AddCleanup(ctx, c) ==
    /\ cleanup' = cleanup \cup {<<ctx, c>>}
    /\ outstanding_cleanups' = outstanding_cleanups + 1

----------------------------------------------------------------------------
(* efx_emcdi_rpc                                                            *)

(* The checks efx_emcdi_rpc_sync makes without the lock: the link may be    *)
(* down at any time.  A failed allocation ends the call at the same point.  *)
CallRefused(c) ==
    /\ caller[c] = "idle"
    /\ caller' = [caller EXCEPT ![c] = "returned"]
    /\ result' = [result EXCEPT ![c] = "ENETDOWN"]
    /\ UNCHANGED <<ifaceVars, cmdVars, waited, done, wait_ref, cleanup, wire, rx, fini>>

CallChecked(c) ==
    /\ caller[c] = "idle"
    /\ enabled
    /\ caller' = [caller EXCEPT ![c] = "checked"]
    /\ wait_ref' = [wait_ref EXCEPT ![c] = 2]
    /\ UNCHANGED <<ifaceVars, cmdVars, waited, done, result, cleanup, wire, rx, fini>>

(* What efx_emcdi_cmd_start_or_queue_ext makes of a new command: it waits   *)
(* behind the pending one, or is sent with number q, or cannot be sent; it  *)
(* is then unlinked and freed, but stays pending if only the skb lacked.    *)
SubmitQueued(c) ==
    /\ cmd_list' = cmd_list \cup {c}
    /\ state' = [state EXCEPT ![c] = "QUEUED"]
    /\ ref' = [ref EXCEPT ![c] = 1]
    /\ caller' = [caller EXCEPT ![c] = "waiting"]
    /\ UNCHANGED <<pending, prev_seq, started, work, wire, wait_ref, result>>

SubmitSent(c, q) ==
    /\ enabled
    /\ cmd_list' = cmd_list \cup {c}
    /\ pending' = c
    /\ prev_seq' = q
    /\ started' = [started EXCEPT ![c] = 0]
    /\ state' = [state EXCEPT ![c] = IF pending = NoCmd THEN "RUNNING" ELSE "RETRY"]
    /\ ref' = [ref EXCEPT ![c] = 2]
    /\ work' = [work EXCEPT ![c] = "armed"]
    /\ wire' = wire \cup {[cmd |-> c, seq |-> q]}
    /\ caller' = [caller EXCEPT ![c] = "waiting"]
    /\ UNCHANGED <<wait_ref, result>>

SubmitFailed(c, s0, q) ==
    /\ \/ (~enabled \/ "nomport" \in SendFaults) /\ UNCHANGED <<pending, prev_seq>>
       \/ enabled /\ "noskb" \in SendFaults /\ pending' = c /\ prev_seq' = q
    /\ state' = [state EXCEPT ![c] = s0]
    /\ caller' = [caller EXCEPT ![c] = "returned"]
    /\ result' = [result EXCEPT ![c] = "ENOMEM"]
    /\ wait_ref' = [wait_ref EXCEPT ![c] = 0]
    /\ UNCHANGED <<cmd_list, ref, started, work, wire>>

(* efx_emcdi_rpc_sync_internal: the command goes to the end of the list.    *)
(* cmd->state, cmd->retry and cmd->seq still hold what kmalloc left there.  *)
Submit(c) ==
    /\ caller[c] = "checked"
    /\ prev_handle' = prev_handle + 1
    /\ handle' = [handle EXCEPT ![c] = prev_handle]
    /\ \E s0 \in StateAtAlloc, r0 \in RetryAtAlloc, q0 \in Seqs :
        LET sends == pending = NoCmd \/ s0 = "RETRY"
            q     == IF pending = NoCmd THEN NextSeq(prev_seq) ELSE q0
        IN  /\ retry' = [retry EXCEPT ![c] = r0]
            /\ seq' = [seq EXCEPT ![c] = q]
            /\ \/ ~sends /\ SubmitQueued(c)
               \/ sends /\ (SubmitSent(c, q) \/ SubmitFailed(c, s0, q))
    /\ UNCHANGED <<enabled, outstanding_cleanups, running, waited, done, cleanup, rx, fini>>

(* wait_event_timeout saw wait_data->done.                                  *)
CallCompleted_NotDone_X(c) ==
    /\ caller[c] = "waiting"
    /\ caller' = [caller EXCEPT ![c] = "returned"]
    /\ waited' = [waited EXCEPT ![c] = 0]
    /\ result' = [result EXCEPT ![c] = done[c]]
    /\ wait_ref' = [wait_ref EXCEPT ![c] = @ - 1]
    /\ UNCHANGED <<ifaceVars, cmdVars, done, cleanup, wire, rx, fini>>

CallCompleted(c) ==
    /\ caller[c] = "waiting"
    /\ done[c] # "none"
    /\ caller' = [caller EXCEPT ![c] = "returned"]
    /\ waited' = [waited EXCEPT ![c] = 0]
    /\ result' = [result EXCEPT ![c] = done[c]]
    /\ wait_ref' = [wait_ref EXCEPT ![c] = @ - 1]
    /\ UNCHANGED <<ifaceVars, cmdVars, done, cleanup, wire, rx, fini>>

CallTimesOut(c) ==
    /\ caller[c] = "waiting"
    /\ done[c] = "none"
    /\ waited[c] = MaxWait
    /\ caller' = [caller EXCEPT ![c] = "cancelling"]
    /\ waited' = [waited EXCEPT ![c] = 0]
    /\ UNCHANGED <<ifaceVars, cmdVars, done, wait_ref, result, cleanup, wire, rx, fini>>

(* efx_emcdi_cancel_cmd: whatever is pending, nothing is pending now; the   *)
(* command leaves the list unless it is running, and nothing is started.    *)
Cancel(c) ==
    /\ caller[c] = "cancelling"
    /\ caller' = [caller EXCEPT ![c] = "cancelled"]
    /\ pending' = NoCmd
    /\ \/ /\ c \in cmd_list /\ state[c] \in {"QUEUED", "RETRY"}
          /\ cmd_list' = cmd_list \ {c}
          /\ state' = [state EXCEPT ![c] = "FINISHED"]
          /\ AddCleanup("caller", c)
          /\ UNCHANGED ref                  \* the list's reference, now the cleanup's
       \/ /\ c \in cmd_list /\ state[c] = "RUNNING"
          /\ state' = [state EXCEPT ![c] = "RUNNING_CANCELLED"]
          /\ AddCleanup("caller", c)
          /\ ref' = [ref EXCEPT ![c] = @ + 1]
          /\ UNCHANGED cmd_list
       \/ /\ c \notin cmd_list \/ state[c] \in {"RUNNING_CANCELLED", "FINISHED"}
          /\ UNCHANGED <<cmd_list, state, ref, cleanup, outstanding_cleanups>>
    /\ UNCHANGED <<enabled, prev_seq, prev_handle, retry, seq, handle, started, work,
                   running, waited, done, wait_ref, result, wire, rx, fini>>

(* wait_data->rc is set to -ETIMEDOUT and read back; a completer that runs  *)
(* in between overwrites it.  The choice is offered for any completer that  *)
(* ran so far.                                                              *)
CallTimedOut(c) ==
    /\ caller[c] = "cancelled"
    /\ <<"caller", c>> \notin cleanup
    /\ caller' = [caller EXCEPT ![c] = "returned"]
    /\ \E rc \in {"ETIMEDOUT", done[c]} \ {"none"} : result' = [result EXCEPT ![c] = rc]
    /\ wait_ref' = [wait_ref EXCEPT ![c] = @ - 1]
    /\ UNCHANGED <<ifaceVars, cmdVars, waited, done, cleanup, wire, rx, fini>>

----------------------------------------------------------------------------
(* The delayed work item                                                    *)

(* The timer of the work item expires and the workqueue calls its function. *)
(* Undefined once the workqueue is destroyed: such a timer is left alone.   *)
WorkEnter(c) ==
    /\ work[c] = "due"
    /\ fini # "stopped"
    /\ ~running[c]
    /\ work' = [work EXCEPT ![c] = "idle"]
    /\ running' = [running EXCEPT ![c] = TRUE]
    /\ UNCHANGED <<ifaceVars, state, retry, seq, handle, ref, started, callerVars,
                   cleanup, wire, rx, fini>>

(* efx_emcdi_check_timeout: jiffies is beyond started + EMCDI_RPC_TIMEOUT.  *)
(* After one unit of time it may or may not be.                             *)
MayHaveExpired(c)    == started[c] >= 1
MayNotHaveExpired(c) == started[c] <= 1

WorkFinished(c) ==
    /\ running[c]
    /\ state[c] = "FINISHED"
    /\ running' = [running EXCEPT ![c] = FALSE]
    /\ ref' = [ref EXCEPT ![c] = @ - 1]
    /\ UNCHANGED <<ifaceVars, state, retry, seq, handle, started, work, callerVars,
                   cleanup, wire, rx, fini>>

WorkRequeue_NoReference_X(c) ==
    /\ running[c]
    /\ state[c] # "FINISHED"
    /\ MayNotHaveExpired(c)
    /\ running' = [running EXCEPT ![c] = FALSE]
    /\ work' = [work EXCEPT ![c] = "armed"]
    /\ ref' = [ref EXCEPT ![c] = @ - 1]
    /\ UNCHANGED <<ifaceVars, state, retry, seq, handle, started, callerVars,
                   cleanup, wire, rx, fini>>

(* A new reference for the requeued item, and this run's reference dropped. *)
WorkRequeue(c) ==
    /\ running[c]
    /\ state[c] # "FINISHED"
    /\ MayNotHaveExpired(c)
    /\ running' = [running EXCEPT ![c] = FALSE]
    /\ work' = [work EXCEPT ![c] = IF @ = "idle" THEN "armed" ELSE @]
    /\ UNCHANGED <<ifaceVars, state, retry, seq, handle, ref, started, callerVars,
                   cleanup, wire, rx, fini>>

(* efx_emcdi_timeout_cmd, when the retry count allows another transmission: *)
(* all commands in RETRY are sent, this one included.                       *)
WorkRetry(c) ==
    /\ running[c]
    /\ state[c] # "FINISHED"
    /\ MayHaveExpired(c)
    /\ (retry[c] + 1) % 256 < MaxRetry
    /\ retry' = [retry EXCEPT ![c] = (@ + 1) % 256]
    /\ running' = [running EXCEPT ![c] = FALSE]
    /\ StartOrQueue([state EXCEPT ![c] = "RETRY"], cmd_list, pending,
                    [ref EXCEPT ![c] = @ - 1], work)
    /\ UNCHANGED <<enabled, prev_handle, cmd_list, outstanding_cleanups, handle,
                   callerVars, cleanup, rx, fini>>

(* ... and when it does not: the command is removed without its completer   *)
(* being called, and the commands queued behind it are not started.         *)
WorkGiveUp(c) ==
    /\ running[c]
    /\ state[c] # "FINISHED"
    /\ MayHaveExpired(c)
    /\ (retry[c] + 1) % 256 >= MaxRetry
    /\ retry' = [retry EXCEPT ![c] = (@ + 1) % 256]
    /\ running' = [running EXCEPT ![c] = FALSE]
    /\ pending' = NoCmd
    /\ cmd_list' = cmd_list \ {c}
    /\ state' = [state EXCEPT ![c] = "FINISHED"]
    /\ AddCleanup("work", c)
    /\ ref' = [ref EXCEPT ![c] = @ - 1]     \* list's and work's given up, cleanup's taken
    /\ UNCHANGED <<enabled, prev_seq, prev_handle, seq, handle, started, work,
                   callerVars, wire, rx, fini>>

----------------------------------------------------------------------------
(* Reception: efx_emcdi_rx, efx_emcdi_process_message, in one NAPI context  *)

(* A reply to any transmission may arrive at any later time, again after a  *)
(* retransmission, or never.  Its sequence number is compared without the   *)
(* lock.                                                                    *)
RxCheck(m) ==
    /\ rx = NoMsg
    /\ \A c \in Cmds : <<"rx", c>> \notin cleanup
    /\ enabled
    /\ m.seq = prev_seq
    /\ rx' = m
    /\ wire' = IF Repeats THEN wire ELSE wire \ {m}
    /\ UNCHANGED <<ifaceVars, cmdVars, callerVars, cleanup, fini>>

RxNotFound ==
    /\ rx # NoMsg
    /\ pending = NoCmd
    /\ rx' = NoMsg
    /\ UNCHANGED <<ifaceVars, cmdVars, callerVars, cleanup, wire, fini>>

(* efx_emcdi_complete_cmd on the pending command, whichever it is now.      *)
(* A cancelled command is unlinked without a word; for any other one the    *)
(* completer fills wait_data and the caller's buffer and the command is     *)
(* removed.  The queue moves on, and the work item is cancelled unless its  *)
(* function is already waiting for the lock.  If the command was freed      *)
(* behind pending's back there is no defined step.                          *)
RxComplete ==
    /\ rx # NoMsg
    /\ pending \in cmd_list
    /\ rx' = NoMsg
    /\ LET c         == pending
           cancelled == state[c] = "RUNNING_CANCELLED"
           dequeued  == work[c] # "idle"
           st        == IF cancelled THEN state ELSE [state EXCEPT ![c] = "FINISHED"]
           gone      == One(cancelled) + One(dequeued)
           refs      == [ref EXCEPT ![c] = @ - gone]
       IN  /\ cmd_list' = cmd_list \ {c}
           /\ IF cancelled
              THEN UNCHANGED <<done, cleanup, outstanding_cleanups>>
              ELSE /\ \E rc \in Replies : done' = [done EXCEPT ![c] = rc]
                   /\ AddCleanup("rx", c)
           /\ StartOrQueue(st, cmd_list \ {c}, NoCmd, refs, [work EXCEPT ![c] = "idle"])
    /\ UNCHANGED <<enabled, prev_handle, retry, handle, running, caller, waited,
                   wait_ref, result, fini>>

ProcessCleanup_Uncounted_X(e) ==
    /\ e \in cleanup
    /\ cleanup' = cleanup \ {e}
    /\ ref' = [ref EXCEPT ![e[2]] = @ - 1]
    /\ UNCHANGED <<ifaceVars, state, retry, seq, handle, started, work, running,
                   callerVars, wire, rx, fini>>

(* efx_emcdi_process_cleanup_list, after the lock was dropped.              *)
ProcessCleanup(e) ==
    /\ e \in cleanup
    /\ cleanup' = cleanup \ {e}
    /\ ref' = [ref EXCEPT ![e[2]] = @ - 1]
    /\ outstanding_cleanups' = outstanding_cleanups - 1
    /\ UNCHANGED <<enabled, pending, prev_seq, prev_handle, cmd_list, state, retry, seq,
                   handle, started, work, running, callerVars, wire, rx, fini>>

----------------------------------------------------------------------------
(* Start and stop of the interface                                          *)

(* efx_emcdi_init.  pending and prev_seq keep their values.  Starting again *)
(* over a list or a timer of the last life is undefined, so those states    *)
(* are left as they are.                                                    *)
EmcdiInit ==
    /\ ~enabled
    /\ fini = "stopped"
    /\ cmd_list = {}
    /\ \A c \in Cmds : work[c] = "idle"
    /\ enabled' = TRUE
    /\ fini' = "none"
    /\ UNCHANGED <<pending, prev_seq, prev_handle, cmd_list, outstanding_cleanups,
                   cmdVars, callerVars, cleanup, wire, rx>>

FiniStart ==
    /\ enabled
    /\ fini = "none"
    /\ fini' = "waiting"
    /\ UNCHANGED <<ifaceVars, cmdVars, callerVars, cleanup, wire, rx>>

(* efx_emcdi_wait_for_cleanup: efx_emcdi_flushed holds.                     *)
FiniFlushed ==
    /\ fini = "waiting"
    /\ cmd_list = {}
    /\ outstanding_cleanups = 0
    /\ fini' = "destroying"
    /\ UNCHANGED <<ifaceVars, cmdVars, callerVars, cleanup, wire, rx>>

(* destroy_workqueue waits for the functions that were called, not for the  *)
(* timers; only then is the interface disabled.                             *)
FiniDestroy ==
    /\ fini = "destroying"
    /\ \A c \in Cmds : ~running[c]
    /\ fini' = "stopped"
    /\ enabled' = FALSE
    /\ UNCHANGED <<pending, prev_seq, prev_handle, cmd_list, outstanding_cleanups,
                   cmdVars, callerVars, cleanup, wire, rx>>

----------------------------------------------------------------------------
(* A unit of EMCDI_RPC_TIMEOUT, a second, goes by.  A softirq does not stay *)
(* that long between the sequence check and the lock.                       *)
Older(n, max) == IF n < max THEN n + 1 ELSE max

Tick ==
    /\ rx = NoMsg
    /\ \/ \E c \in Cmds : caller[c] = "waiting" /\ waited[c] < MaxWait
       \/ \E c \in cmd_list : started[c] < MaxAge
       \/ \E c \in Cmds : work[c] = "armed"
    /\ waited' = [c \in Cmds |-> IF caller[c] = "waiting" THEN Older(waited[c], MaxWait)
                                 ELSE waited[c]]
    /\ started' = [c \in Cmds |-> IF c \in cmd_list THEN Older(started[c], MaxAge)
                                  ELSE 0]
    /\ work' = [c \in Cmds |-> IF work[c] = "armed" THEN "due" ELSE work[c]]
    /\ UNCHANGED <<ifaceVars, state, retry, seq, handle, ref, running, caller, done,
                   wait_ref, result, cleanup, wire, rx, fini>>

(* The processes: the task of each call, the work item of each command, the *)
(* NAPI context, and the task that stops the interface.                     *)
CallerStep(c) ==
    \/ Submit(c) \/ CallCompleted(c) \/ CallTimesOut(c) \/ Cancel(c)
    \/ ProcessCleanup(<<"caller", c>>) \/ CallTimedOut(c)

WorkStep(c) ==
    \/ WorkEnter(c) \/ WorkFinished(c) \/ WorkRequeue(c) \/ WorkRetry(c) \/ WorkGiveUp(c)
    \/ ProcessCleanup(<<"work", c>>)

RxStep   == RxNotFound \/ RxComplete \/ \E c \in Cmds : ProcessCleanup(<<"rx", c>>)
FiniStep == FiniFlushed \/ FiniDestroy

Next ==
    \/ \E c \in Cmds : CallRefused(c) \/ CallChecked(c) \/ CallerStep(c) \/ WorkStep(c)
    \/ \E m \in wire : RxCheck(m)
    \/ RxStep
    \/ EmcdiInit \/ FiniStart \/ FiniStep
    \/ Tick

Spec == Init /\ [][Next]_vars

(* The processes run, and time passes however busy the network is; nothing  *)
(* is assumed of the network, of new calls, or of anyone starting and       *)
(* stopping the interface.                                                  *)
Fairness ==
    /\ \A c \in Cmds : WF_vars(CallerStep(c)) /\ WF_vars(WorkStep(c))
    /\ WF_vars(RxStep) /\ WF_vars(FiniStep) /\ SF_vars(Tick)

FairSpec == Spec /\ Fairness

----------------------------------------------------------------------------
(* Properties                                                               *)

(* Every variable stays in its domain.                                      *)
TypeOK ==
    /\ enabled \in BOOLEAN
    /\ pending \in Cmds \cup {NoCmd}
    /\ prev_seq \in Seqs
    /\ prev_handle \in Nat
    /\ cmd_list \subseteq Cmds
    /\ outstanding_cleanups \in Int
    /\ state \in [Cmds -> States]
    /\ retry \in [Cmds -> Bytes]
    /\ seq \in [Cmds -> Seqs]
    /\ handle \in [Cmds -> Nat]
    /\ ref \in [Cmds -> Int]
    /\ started \in [Cmds -> 0 .. MaxAge]
    /\ work \in [Cmds -> {"idle", "armed", "due"}]
    /\ running \in [Cmds -> BOOLEAN]
    /\ caller \in [Cmds -> Callers]
    /\ waited \in [Cmds -> 0 .. MaxWait]
    /\ done \in [Cmds -> Replies \cup {"none"}]
    /\ wait_ref \in [Cmds -> Int]
    /\ result \in [Cmds -> Results \cup {"none"}]
    /\ cleanup \subseteq Contexts \X Cmds
    /\ wire \subseteq Msgs
    /\ rx \in Msgs \cup {NoMsg}
    /\ fini \in {"stopped", "none", "waiting", "destroying"}

(* The references the code relies on: the list's, the queued or running     *)
(* work item's, and those of the cleanup lists.                             *)
Holders(c) ==
    One(c \in cmd_list) + One(work[c] # "idle") + One(running[c])
    + One(<<"caller", c>> \in cleanup) + One(<<"work", c>> \in cleanup)
    + One(<<"rx", c>> \in cleanup)

(* No command is freed (kref_put to zero) while the list, its work item or  *)
(* a cleanup list still points to it.                                       *)
NoEarlyFree == \A c \in Cmds : ref[c] >= Holders(c)

(* outstanding_cleanups counts exactly the cleanups still to be processed:  *)
(* the assertion of efx_emcdi_process_cleanup_list holds and efx_emcdi_fini *)
(* neither returns too early nor waits for a cleanup nobody owes.           *)
CleanupsCounted == outstanding_cleanups = Cardinality(cleanup)

(* What efx_emcdi_process_message completes is live: emcdi->pending never   *)
(* is a command that left the list.  A retransmission, a cancellation and a *)
(* timeout all write it.  Without an skb it does dangle (emcdi.c 716, 722). *)
PendingListed == pending \in cmd_list \cup {NoCmd}

(* A cancelled command is not the pending one until it is sent again, which *)
(* takes it out of RUNNING_CANCELLED: the branch of efx_emcdi_complete_cmd  *)
(* that drops a reply in silence is dead.                                   *)
CancelledNotPending == pending \in cmd_list => state[pending] # "RUNNING_CANCELLED"

(* The completer of a command, which writes wait_data and the buffer of the *)
(* caller, is called at most once, however often the command was sent.      *)
CompletedOnce == [][\A c \in Cmds : done[c] # "none" => done'[c] = done[c]]_vars

(* efx_emcdi_fini comes to an end: every command of the list has its caller *)
(* or its work item to act on it.  It needs transmissions not to fail,      *)
(* since a failed retransmission arms no timer (emcdi.c:717).               *)
FiniTerminates == fini = "waiting" ~> fini = "stopped"

(* The calls of efx_emcdi_rpc are those of a transport that answers a call  *)
(* at most once and always returns.                                         *)
Caller == INSTANCE Rpc WITH
    Calls  <- Cmds,
    call   <- [c \in Cmds |-> IF caller[c] \in {"idle", "returned"} THEN caller[c] ELSE "active"],
    reply  <- done,
    result <- result

ImplementsRpc == Caller!Spec

(* Where a command may be found in each stage of its life; with NoEarlyFree *)
(* and CancelledNotPending this is preserved by every step.                 *)
Untouched(c) ==      \* before efx_emcdi_rpc_sync_internal nobody knows of it
    caller[c] \in {"idle", "checked"} =>
        /\ c \notin cmd_list /\ work[c] = "idle" /\ ~running[c] /\ done[c] = "none"
        /\ \A x \in Contexts : <<x, c>> \notin cleanup

OnList(c) ==         \* on the list it was neither completed nor given up
    c \in cmd_list => /\ state[c] # "FINISHED" /\ done[c] = "none"
                      /\ \A x \in {"work", "rx"} : <<x, c>> \notin cleanup

WorkSafe(c) ==       \* a work item that finds no command on the list does nothing
    work[c] # "idle" \/ running[c] => c \in cmd_list \/ state[c] = "FINISHED"

CancelledOnce(c) == <<"caller", c>> \in cleanup => caller[c] = "cancelled"

LifeCycle ==
    \A c \in Cmds : Untouched(c) /\ OnList(c) /\ WorkSafe(c) /\ CancelledOnce(c)

(* What a comment of the code says and the code does not do.                *)

(* "if cancelled, the completers have already been called" (emcdi.c:631):   *)
(* no completer is called once the command's call was cancelled.            *)
NoLateCompletion ==
    [][\A c \in Cmds : done'[c] # done[c] => caller[c] \notin {"cancelled", "returned"}]_vars

=============================================================================
