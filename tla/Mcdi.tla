------------------------------- MODULE Mcdi -------------------------------
(***************************************************************************)
(* MCDI: the commands the host driver gives the management controller (MC) *)
(* of the NIC (sfc/mcdi.c, sfc/mcdi.h), on the one mailbox buffer that an  *)
(* EF10 function has (sfc/ef10.c).  Commands queue for the mailbox; their  *)
(* replies are polled for or announced by events; the MC may ask for a     *)
(* command to be sent again, or hold it back until another function has    *)
(* authorised it (a proxied command).  A command that is not answered puts *)
(* the interface into fail mode until the function is reset.               *)
(*                                                                         *)
(* What iface_lock protects is one record, mcdi, and each function that is *)
(* called with the lock held is an operator from such a record to the next *)
(* one.  An action is what one context does under one hold of the lock.    *)
(***************************************************************************)
EXTENDS Integers, FiniteSets

CONSTANTS
    Sync,           \* commands of efx_mcdi_rpc, which wait and then cancel
    Async,          \* commands of efx_mcdi_rpc_async
    Atomic,         \* commands of efx_mcdi_rpc_async_ext as ptp.c uses it
    NoCmd,          \* NULL
    SeqSpace,       \* sequence numbers are 0 .. SeqSpace - 1 (16)
    Settings        \* what else a behaviour may meet, see Setting

Cmds == Sync \cup Async \cup Atomic
Seqs == 0 .. SeqSpace - 1

ASSUME KindsDiffer  == Sync \cap Async = {} /\ Sync \cap Atomic = {} /\ Async \cap Atomic = {}
ASSUME CmdsFinite   == IsFiniteSet(Cmds)
ASSUME NoCmdNotCmd  == NoCmd \notin Cmds
ASSUME SeqSpacePos  == SeqSpace \in Nat \ {0}

Answers == {"OK", "EIO", "FULL", "PROXY"}

(* One behaviour meets one setting: the commands that are issued, what the  *)
(* MC answers, whether it may still answer a command that timed out,        *)
(* whether memory for a reply may be missing, whether callers may lose      *)
(* patience, and whether the event queues are ever started.                 *)
Setting == [ calls      : SUBSET Cmds,
             answers    : SUBSET Answers,
             late       : BOOLEAN,
             lowMemory  : BOOLEAN,
             impatient  : BOOLEAN,
             interrupts : BOOLEAN ]

ASSUME SettingsKnown == Settings \subseteq Setting

(* enum efx_mcdi_cmd_state                                                 *)
Running   == {"RUNNING", "RUNNING_CANCELLED"}
Cancelled == {"RUNNING_CANCELLED", "PROXY_CANCELLED"}
States    == {"QUEUED", "RETRY", "PROXY", "FINISHED"} \cup Running \cup Cancelled

(* What cmd->rc may be when the completer is called; "EIO" stands for a    *)
(* reply that says that the MC rebooted.                                   *)
Codes    == Answers \cup {"ENOMEM", "EPIPE", "ETIMEDOUT"}
Results  == Codes \cup {"ENETDOWN"}
Contexts == {"caller", "work", "rx", "reset"}
Stages   == {"off", "polled", "on", "reset"}

VARIABLES
    setting,   \* the setting of this behaviour
    mcdi,      \* the interface, its commands and the mailbox; see TypeOK
    running,   \* running[c]: the work item's function was called
    caller,    \* where the task that issued the command is
    result,    \* what its call returned
    events,    \* sequence numbers of the completion events in the queue
    awaiting,  \* proxied commands the MC has not decided on
    stage      \* event queues: "off", "polled" (not used by MCDI) or "on";
               \* "reset" after a function level reset

vars == <<setting, mcdi, running, caller, result, events, awaiting, stage>>

NoMail == [cmd |-> NoCmd, evreq |-> FALSE, reply |-> "none"]

Init ==
    /\ setting \in Settings
    /\ mcdi = [ mode        |-> "POLL",
                list        |-> {},
                db          |-> NoCmd,                        \* db_held_by
                held        |-> [q \in Seqs |-> NoCmd],       \* seq_held_by
                prev_seq    |-> 0,
                prev_handle |-> 0,
                cleanup     |-> {},
                outstanding |-> 0,                            \* outstanding_cleanups
                buf         |-> FALSE,                        \* mcdi_buf_use
                mail        |-> NoMail,
                state       |-> [c \in Cmds |-> "QUEUED"],
                handle      |-> [c \in Cmds |-> 0],
                seq         |-> [c \in Cmds |-> 0],
                polled      |-> [c \in Cmds |-> FALSE],
                proxied     |-> [c \in Cmds |-> FALSE],       \* proxy_handle # 0
                expired     |-> [c \in Cmds |-> FALSE],       \* since started
                rc          |-> [c \in Cmds |-> "none"],
                ref         |-> [c \in Cmds |-> 0],
                work        |-> [c \in Cmds |-> "idle"],
                done        |-> [c \in Cmds |-> "none"],
                called      |-> [c \in Cmds |-> 0] ]
    /\ running = [c \in Cmds |-> FALSE]
    /\ caller = [c \in Cmds |-> "idle"]
    /\ result = [c \in Cmds |-> "none"]
    /\ events = {}
    /\ awaiting = {}
    /\ stage = "off"

----------------------------------------------------------------------------
(* Functions called with iface_lock held                                    *)

Get(m, c) == [m EXCEPT !.ref[c] = @ + 1]
Put(m, c) == [m EXCEPT !.ref[c] = @ - 1]

(* Names ending in _X are faulty variants of the definition they precede:   *)
(* substituted for it, they show that a property notices the fault.         *)

Arm_NoGet_X(m, c) == [m EXCEPT !.work[c] = "armed"]

(* kref_get and queue_delayed_work, which does nothing to a pending item.   *)
Arm(m, c) == [Get(m, c) EXCEPT !.work[c] = "armed"]

Disarm_NoPut_X(m, c) == [m EXCEPT !.work[c] = "idle"]

Disarm_Never_X(m, c) == m

(* if (cancel_delayed_work()) kref_put()                                    *)
Disarm(m, c) ==
    IF m.work[c] = "armed" THEN [Put(m, c) EXCEPT !.work[c] = "idle"] ELSE m

WithRc(m, c, code) == [m EXCEPT !.rc[c] = code]

(* The completer of c is called.                                            *)
Called(m, c) == [m EXCEPT !.done[c] = m.rc[c], !.called[c] = @ + 1]

Notify_Again_X(m, ctx, c) ==
    IF c \in Atomic THEN Called(m, c)
    ELSE [Get(m, c) EXCEPT !.cleanup = @ \cup {<<ctx, c>>}, !.outstanding = @ + 1]

(* _efx_mcdi_remove_cmd by context ctx.                                     *)
Notify(m, ctx, c) ==
    IF m.state[c] \in Cancelled THEN m
    ELSE IF c \in Atomic THEN Called(m, c)
    ELSE [Get(m, c) EXCEPT !.cleanup = @ \cup {<<ctx, c>>}, !.outstanding = @ + 1]

Unlink(m, c) == [Put(m, c) EXCEPT !.list = @ \ {c}]

(* efx_mcdi_remove_cmd                                                      *)
Remove(m, ctx, c) == [Unlink(Notify(m, ctx, c), c) EXCEPT !.state[c] = "FINISHED"]

(* Free sequence numbers are tried from prev_seq + 1 on.                    *)
FreeSeqs(m) == {q \in Seqs : m.held[q] = NoCmd}

NextSeq_NoWrap_X(m) == m.prev_seq + 1

NextSeq(m) ==
    LET Steps(q) == (q - m.prev_seq - 1) % SeqSpace
    IN  CHOOSE q \in FreeSeqs(m) : \A r \in FreeSeqs(m) : Steps(q) <= Steps(r)

(* A proxied command keeps the doorbell but not the buffer.                 *)
CanStart(m) == m.db = NoCmd /\ ~m.buf /\ FreeSeqs(m) # {}

Transmit(m, c) ==
    [m EXCEPT !.seq[c] = NextSeq(m), !.prev_seq = NextSeq(m), !.held[NextSeq(m)] = c,
              !.db = c, !.buf = TRUE, !.polled[c] = (m.mode = "POLL"),
              !.state[c] = "RUNNING", !.expired[c] = FALSE,
              !.mail = [cmd |-> c, evreq |-> m.mode = "EVENTS", reply |-> "none"]]

Start(m, c) == Arm(Transmit(m, c), c)

(* The list is in the order of the handles.                                 *)
IsFirst(m, c, S) == c \in S /\ \A d \in S : m.handle[c] <= m.handle[d]

(* efx_mcdi_start_or_queue: the first command that may start does, and all  *)
(* the others are QUEUED, those that were in RETRY too.                     *)
Advance(m, allow_retry) ==
    LET ready  == {c \in m.list : m.state[c] = "QUEUED" \/ (m.state[c] = "RETRY" /\ allow_retry)}
        queued == [m EXCEPT !.state = [c \in Cmds |-> IF c \in ready THEN "QUEUED" ELSE @[c]]]
    IN  IF ready # {} /\ CanStart(m)
        THEN Start(queued, CHOOSE c \in ready : IsFirst(m, c, ready))
        ELSE queued

(* _efx_mcdi_cancel_cmd: a command the MC has is only marked, and its       *)
(* completer is called.                                                     *)
Mark(s) == CASE s = "RUNNING" -> "RUNNING_CANCELLED"
             [] s = "PROXY"   -> "PROXY_CANCELLED"
             [] OTHER         -> s

CancelCmd(m, ctx, c) ==
    LET piped == WithRc(m, c, "EPIPE")
    IN  CASE m.state[c] \in {"QUEUED", "RETRY"}  -> Remove(piped, ctx, c)
          [] m.state[c] \in {"RUNNING", "PROXY"} ->
                [Notify(piped, ctx, c) EXCEPT !.state[c] = Mark(@)]
          [] OTHER -> m

(* Only the commands that were never sent are cancelled.                    *)
ModeFail_QueuedOnly_X(m, ctx) ==
    LET waits == {c \in m.list : m.state[c] = "QUEUED"}
    IN  [m EXCEPT
           !.mode = "FAIL",
           !.list = @ \ waits,
           !.rc = [c \in Cmds |-> IF c \in waits THEN "EPIPE" ELSE @[c]],
           !.cleanup = @ \cup {<<ctx, c>> : c \in waits},
           !.outstanding = @ + Cardinality(waits),
           !.state = [c \in Cmds |-> IF c \in waits THEN "FINISHED" ELSE @[c]]]

(* efx_mcdi_mode_fail: every command is cancelled.  The code does it until  *)
(* the list is empty, so it needs FailEmpties.                              *)
ModeFail(m, ctx) ==
    LET waits  == {c \in m.list : m.state[c] \in {"QUEUED", "RETRY"}}
        told   == {c \in m.list : m.state[c] \notin Cancelled}
        atomic == told \cap Atomic
        listed == told \ Atomic
    IN  [m EXCEPT
           !.mode = "FAIL",
           !.list = @ \ waits,
           !.rc = [c \in Cmds |-> IF c \in told THEN "EPIPE" ELSE @[c]],
           !.cleanup = @ \cup {<<ctx, c>> : c \in listed},
           !.outstanding = @ + Cardinality(listed),
           !.state = [c \in Cmds |-> IF c \in waits THEN "FINISHED"
                                     ELSE IF c \in told THEN Mark(@[c]) ELSE @[c]],
           !.ref = [c \in Cmds |-> @[c] + (IF c \in listed THEN 1 ELSE 0)
                                        - (IF c \in waits THEN 1 ELSE 0)],
           !.done = [c \in Cmds |-> IF c \in atomic THEN "EPIPE" ELSE @[c]],
           !.called = [c \in Cmds |-> IF c \in atomic THEN @[c] + 1 ELSE @[c]]]

(* _efx_mcdi_mode_poll; a work item that was armed is armed for now.        *)
ModePoll(m) ==
    IF m.mode # "EVENTS" THEN m
    ELSE [m EXCEPT !.mode = "POLL",
                   !.polled = [c \in Cmds |->
                                 @[c] \/ (c \in m.list /\ m.state[c] \in Running)]]

(* The MC may not answer for a proxied command with the doorbell free, nor  *)
(* hold a command back twice.                                               *)
BadProxy(m, c) == m.db # c \/ m.proxied[c]

(* efx_mcdi_complete_cmd returns false: the command is not done with.       *)
Unfinished(m, c, code) ==
    \/ code = "PROXY" /\ ~BadProxy(m, c)
    \/ code = "FULL" /\ m.state[c] \notin Cancelled

FreeDoorbell(m, c) == [m EXCEPT !.db = IF @ = c THEN NoCmd ELSE @]

Settle(m, ctx, c, code) ==
    CASE code = "PROXY" /\ BadProxy(m, c) ->
            ModeFail(Remove(WithRc(m, c, "EIO"), ctx, c), ctx)
      [] code = "PROXY" /\ ~BadProxy(m, c) ->
            Arm([m EXCEPT !.state[c] = "PROXY", !.proxied[c] = TRUE], c)
      [] code # "PROXY" /\ m.state[c] \in Cancelled ->
            Unlink(FreeDoorbell(m, c), c)
      [] code = "FULL" /\ m.state[c] \notin Cancelled ->
            [FreeDoorbell(m, c) EXCEPT !.state[c] = "RETRY"]
      [] OTHER ->
            Remove(WithRc(FreeDoorbell(m, c), c, code), ctx, c)

(* What was refused is never tried again.                                   *)
Complete_NoRetry_X(m, ctx, c, code) ==
    Advance([Settle(m, ctx, c, code) EXCEPT !.held[m.seq[c]] = NoCmd, !.buf = FALSE], FALSE)

(* efx_mcdi_complete_cmd                                                    *)
Complete(m, ctx, c, code) ==
    Advance([Settle(m, ctx, c, code) EXCEPT !.held[m.seq[c]] = NoCmd, !.buf = FALSE],
            code # "FULL")

(* efx_mcdi_timeout_cmd and efx_mcdi_proxy_timeout_cmd: the sequence number *)
(* and the doorbell are left to the reset.                                  *)
ProxyTimeout(m, ctx, c) == ModeFail(Remove(WithRc(m, c, "ETIMEDOUT"), ctx, c), ctx)
Timeout(m, ctx, c)      == ProxyTimeout([m EXCEPT !.buf = FALSE], ctx, c)

(* efx_flr, after pci_reset_function.                                       *)
Flr(m) ==
    LET told   == {c \in m.list : m.state[c] \notin Cancelled}
        atomic == told \cap Atomic
        listed == told \ Atomic
    IN  [m EXCEPT
           !.mode = "POLL",
           !.list = {},
           !.db = NoCmd,
           !.held = [q \in Seqs |-> NoCmd],
           !.buf = @ /\ \A c \in m.list : m.state[c] \notin Running,
           !.mail = NoMail,
           !.rc = [c \in Cmds |-> IF c \in m.list THEN "EIO" ELSE @[c]],
           !.cleanup = @ \cup {<<"reset", c>> : c \in listed},
           !.outstanding = @ + Cardinality(listed),
           !.state = [c \in Cmds |-> IF c \in m.list THEN "FINISHED" ELSE @[c]],
           !.ref = [c \in Cmds |-> @[c] + (IF c \in listed THEN 1 ELSE 0)
                                        - (IF c \in m.list THEN 1 ELSE 0)
                                        - (IF c \in m.list /\ m.work[c] = "armed" THEN 1 ELSE 0)],
           !.work = [c \in Cmds |-> IF c \in m.list THEN "idle" ELSE @[c]],
           !.done = [c \in Cmds |-> IF c \in atomic THEN "EIO" ELSE @[c]],
           !.called = [c \in Cmds |-> IF c \in atomic THEN @[c] + 1 ELSE @[c]]]

(* The reply in the mailbox as efx_mcdi_complete_cmd understands it: a      *)
(* request that was not answered yet reads as success.  If the MC rebooted, *)
(* the reboot may be noticed only now, and events are not relied on.        *)
CodesOf(reply) ==
    CASE reply = "none" -> {"OK"}
      [] reply = "EIO"  -> {"EIO"}
      [] OTHER          -> {reply} \cup (IF setting.lowMemory THEN {"ENOMEM"} ELSE {})

Noticed(m, code) == IF code = "EIO" THEN {m, ModePoll(m)} ELSE {m}

----------------------------------------------------------------------------
(* Issuing commands: efx_mcdi_rpc_async_internal and its callers            *)

Goto(c, s) == caller' = [caller EXCEPT ![c] = s]

Return(c, rc) ==
    /\ Goto(c, "returned")
    /\ result' = [result EXCEPT ![c] = rc]

MayCall(c) == caller[c] = "idle" /\ c \in setting.calls

(* A self test of another function, or fail mode; without memory for the    *)
(* command the call ends in the same place.                                 *)
CallRefused(c) ==
    /\ MayCall(c)
    /\ Return(c, "ENETDOWN")
    /\ UNCHANGED <<setting, mcdi, running, events, awaiting, stage>>

(* efx_ptp_synchronize tries again while the mailbox is busy, for a while.  *)
CallBusy(c) ==
    /\ MayCall(c)
    /\ c \in Atomic
    /\ mcdi.mode # "FAIL"
    /\ ~CanStart(mcdi)
    /\ Return(c, "ETIMEDOUT")
    /\ UNCHANGED <<setting, mcdi, running, events, awaiting, stage>>

Listed(m, c) ==
    [m EXCEPT !.list = @ \cup {c}, !.ref[c] = 1,
              !.handle[c] = m.prev_handle, !.prev_handle = @ + 1]

Queue(c) ==
    /\ MayCall(c)
    /\ c \notin Atomic
    /\ mcdi.mode # "FAIL"
    /\ ~CanStart(mcdi)
    /\ mcdi' = [Listed(mcdi, c) EXCEPT !.state[c] = "QUEUED"]
    /\ Goto(c, "waiting")
    /\ UNCHANGED <<setting, running, result, events, awaiting, stage>>

Send(c) ==
    /\ MayCall(c)
    /\ mcdi.mode # "FAIL"
    /\ CanStart(mcdi)
    /\ mcdi' = Start(Listed(mcdi, c), c)
    /\ Goto(c, "waiting")
    /\ UNCHANGED <<setting, running, result, events, awaiting, stage>>

(* efx_mcdi_poll_start with a copybuf: the answer comes within a jiffy.     *)
SendAndPoll(c) ==
    /\ MayCall(c)
    /\ c \in Sync
    /\ mcdi.mode = "POLL"
    /\ CanStart(mcdi)
    /\ \E reply \in setting.answers :
          /\ mcdi' = Complete([Transmit(Listed(mcdi, c), c) EXCEPT !.mail.reply = reply],
                              "caller", c, reply)
          /\ awaiting' = IF reply = "PROXY" THEN awaiting \cup {c} ELSE awaiting
    /\ Goto(c, "waiting")
    /\ UNCHANGED <<setting, running, result, events, stage>>

CallCompleted_NotDone_X(c) ==
    /\ caller[c] = "waiting"
    /\ c \notin Async
    /\ Return(c, mcdi.done[c])
    /\ UNCHANGED <<setting, mcdi, running, events, awaiting, stage>>

CallCompleted(c) ==
    /\ caller[c] = "waiting"
    /\ c \notin Async
    /\ mcdi.done[c] # "none"
    /\ Return(c, mcdi.done[c])
    /\ UNCHANGED <<setting, mcdi, running, events, awaiting, stage>>

(* wait_event_timeout gave up, with the cleanup list of the call processed. *)
CallTimesOut(c) ==
    /\ setting.impatient
    /\ caller[c] = "waiting"
    /\ c \notin Async
    /\ mcdi.done[c] = "none"
    /\ <<"caller", c>> \notin mcdi.cleanup
    /\ Goto(c, "cancelling")
    /\ UNCHANGED <<setting, mcdi, running, result, events, awaiting, stage>>

(* efx_mcdi_cancel_cmd: the queue does not move.                            *)
Cancel(c) ==
    /\ caller[c] = "cancelling"
    /\ mcdi' = IF c \in mcdi.list THEN CancelCmd(mcdi, "caller", c) ELSE mcdi
    /\ Goto(c, "cancelled")
    /\ UNCHANGED <<setting, running, result, events, awaiting, stage>>

(* wait_data->rc is set to -ETIMEDOUT and read back, and a completer in     *)
(* another context may write it in between.                                 *)
CallTimedOut(c) ==
    /\ caller[c] = "cancelled"
    /\ <<"caller", c>> \notin mcdi.cleanup
    /\ \E rc \in {"ETIMEDOUT", mcdi.done[c]} \ {"none"} : Return(c, rc)
    /\ UNCHANGED <<setting, mcdi, running, events, awaiting, stage>>

(* efx_mcdi_process_cleanup_list, one command, after the lock was dropped.  *)
ProcessCleanup(e) ==
    /\ e \in mcdi.cleanup
    /\ mcdi' = [Put(Called(mcdi, e[2]), e[2]) EXCEPT !.cleanup = @ \ {e}, !.outstanding = @ - 1]
    /\ UNCHANGED <<setting, running, caller, result, events, awaiting, stage>>

----------------------------------------------------------------------------
(* The delayed work item: efx_mcdi_cmd_work                                 *)

(* While the timer ran the command may have reached its timeout; the timer  *)
(* of an evented one does not end sooner, unless it was set for the proxy.  *)
WorkEnter(c, late) ==
    /\ mcdi.work[c] = "armed"
    /\ ~running[c]
    /\ late \/ mcdi.polled[c] \/ mcdi.proxied[c]
    /\ mcdi' = [mcdi EXCEPT !.work[c] = "idle", !.expired[c] = @ \/ late]
    /\ running' = [running EXCEPT ![c] = TRUE]
    /\ UNCHANGED <<setting, caller, result, events, awaiting, stage>>

WorkLeaves(c) ==
    /\ running[c]
    /\ running' = [running EXCEPT ![c] = FALSE]
    /\ UNCHANGED <<setting, caller, result, events, awaiting, stage>>

WorkFinished(c) ==
    /\ WorkLeaves(c)
    /\ mcdi.state[c] = "FINISHED"
    /\ mcdi' = Put(mcdi, c)

WorkProxyTimeout(c) ==
    /\ WorkLeaves(c)
    /\ mcdi.state[c] = "PROXY"
    /\ mcdi' = Put(ProxyTimeout(mcdi, "work", c), c)

(* A command that is FINISHED is completed again.                           *)
WorkComplete_Finished_X(c) ==
    /\ WorkLeaves(c)
    /\ mcdi.state[c] # "PROXY"
    /\ mcdi.mail.reply # "none"
    /\ \E code \in CodesOf(mcdi.mail.reply) : \E m \in Noticed(mcdi, code) :
          mcdi' = Put(Complete(m, "work", c, code), c)

(* The reply is in the mailbox, and the event was late or not asked for.    *)
WorkComplete(c) ==
    /\ WorkLeaves(c)
    /\ mcdi.state[c] \notin {"FINISHED", "PROXY"}
    /\ mcdi.mail.reply # "none"
    /\ \E code \in CodesOf(mcdi.mail.reply) : \E m \in Noticed(mcdi, code) :
          mcdi' = Put(Complete(m, "work", c, code), c)

(* The timer of an evented command ran for its whole timeout; a polled one  *)
(* looks at the clock.                                                      *)
WorkTimeout(c) ==
    /\ WorkLeaves(c)
    /\ mcdi.state[c] \notin {"FINISHED", "PROXY"}
    /\ mcdi.mail.reply = "none"
    /\ mcdi.polled[c] => mcdi.expired[c]
    /\ mcdi' = Put(Timeout(mcdi, "work", c), c)

WorkPollAgain_NoTimer_X(c) ==
    /\ WorkLeaves(c)
    /\ mcdi.state[c] \notin {"FINISHED", "PROXY"}
    /\ mcdi.mail.reply = "none"
    /\ mcdi.polled[c] /\ ~mcdi.expired[c]
    /\ mcdi' = Put(mcdi, c)

WorkPollAgain(c) ==
    /\ WorkLeaves(c)
    /\ mcdi.state[c] \notin {"FINISHED", "PROXY"}
    /\ mcdi.mail.reply = "none"
    /\ mcdi.polled[c] /\ ~mcdi.expired[c]
    /\ mcdi' = Put(Arm(mcdi, c), c)

----------------------------------------------------------------------------
(* The MC and its events: efx_mcdi_process_event                            *)

EventsRun == stage \in {"polled", "on"}

(* After a timeout the answer may still come, until the function is reset.  *)
McAnswer ==
    /\ mcdi.mail.cmd # NoCmd
    /\ mcdi.mail.reply = "none"
    /\ mcdi.mode = "FAIL" => setting.late
    /\ \E reply \in setting.answers :
          /\ mcdi' = [mcdi EXCEPT !.mail.reply = reply]
          /\ awaiting' = IF reply = "PROXY" THEN awaiting \cup {mcdi.mail.cmd} ELSE awaiting
    /\ events' = IF mcdi.mail.evreq /\ EventsRun
                 THEN events \cup {mcdi.seq[mcdi.mail.cmd]} ELSE events
    /\ UNCHANGED <<setting, running, caller, result, stage>>

(* efx_mcdi_ev_cpl                                                          *)
EvCpl(q) ==
    /\ EventsRun
    /\ q \in events
    /\ events' = events \ {q}
    /\ LET c == mcdi.held[q]
       IN  \/ c = NoCmd /\ UNCHANGED mcdi
           \/ /\ c # NoCmd
              /\ \E code \in CodesOf(mcdi.mail.reply) : \E m \in Noticed(mcdi, code) :
                    LET n == Complete(m, "rx", c, code)
                    IN  mcdi' = IF Unfinished(m, c, code) THEN n ELSE Disarm(n, c)
    /\ UNCHANGED <<setting, running, caller, result, awaiting, stage>>

(* The command is not sent again.                                           *)
EvProxyGranted_NotSent_X(c) ==
    /\ EventsRun
    /\ c \in awaiting
    /\ awaiting' = awaiting \ {c}
    /\ IF c \in mcdi.list /\ mcdi.state[c] = "PROXY"
       THEN mcdi' = [mcdi EXCEPT !.state[c] = "RUNNING"]
       ELSE UNCHANGED mcdi
    /\ UNCHANGED <<setting, running, caller, result, events, stage>>

(* efx_mcdi_ev_proxy_response: the command is sent again...                 *)
EvProxyGranted(c) ==
    /\ EventsRun
    /\ c \in awaiting
    /\ awaiting' = awaiting \ {c}
    /\ IF c \in mcdi.list /\ mcdi.state[c] = "PROXY"
       THEN LET m == [mcdi EXCEPT !.db = NoCmd]
            IN  mcdi' = IF CanStart(m) THEN Start(m, c) ELSE [m EXCEPT !.state[c] = "QUEUED"]
       ELSE UNCHANGED mcdi
    /\ UNCHANGED <<setting, running, caller, result, events, stage>>

(* ... or it is over, and the commands that wait for its doorbell go on     *)
(* waiting.  The reason may be that the MC rebooted.                        *)
EvProxyRefused(c) ==
    /\ EventsRun
    /\ c \in awaiting
    /\ awaiting' = awaiting \ {c}
    /\ IF c \in mcdi.list /\ mcdi.state[c] = "PROXY"
       THEN \E m \in {mcdi, ModePoll(mcdi)} :
               mcdi' = Disarm(Remove(WithRc([m EXCEPT !.db = NoCmd], c, "EIO"), "rx", c), c)
       ELSE UNCHANGED mcdi
    /\ UNCHANGED <<setting, running, caller, result, events, stage>>

(* efx_mcdi_ev_death                                                        *)
EvDeath ==
    /\ EventsRun
    /\ mcdi' = ModePoll(mcdi)
    /\ UNCHANGED <<setting, running, caller, result, events, awaiting, stage>>

----------------------------------------------------------------------------
(* Starting and stopping event queues, and the function level reset         *)

(* efx_soft_enable_interrupts                                               *)
EventsStart ==
    /\ setting.interrupts
    /\ stage = "off"
    /\ stage' = "polled"
    /\ UNCHANGED <<setting, mcdi, running, caller, result, events, awaiting>>

ModeEvent ==
    /\ stage = "polled"
    /\ stage' = "on"
    /\ mcdi' = [mcdi EXCEPT !.mode = IF @ = "POLL" THEN "EVENTS" ELSE @]
    /\ UNCHANGED <<setting, running, caller, result, events, awaiting>>

(* efx_soft_disable_interrupts                                              *)
StopEvents ==
    /\ stage = "on"
    /\ stage' = "polled"
    /\ mcdi' = ModePoll(mcdi)
    /\ UNCHANGED <<setting, running, caller, result, events, awaiting>>

EventsStopped ==
    /\ stage = "polled"
    /\ stage' = "off"
    /\ events' = {}
    /\ UNCHANGED <<setting, mcdi, running, caller, result, awaiting>>

(* The reset worker, for RESET_TYPE_MCDI_TIMEOUT.                           *)
FlrReset ==
    /\ stage = "off"
    /\ mcdi.mode = "FAIL"
    /\ stage' = "reset"
    /\ mcdi' = Flr(mcdi)
    /\ awaiting' = {}
    /\ UNCHANGED <<setting, running, caller, result, events>>

(* efx_mcdi_post_reset: efx_mcdi_flushed holds.                             *)
Flushed == mcdi.list = {} /\ mcdi.outstanding = 0

PostReset ==
    /\ stage = "reset"
    /\ Flushed
    /\ stage' = "off"
    /\ UNCHANGED <<setting, mcdi, running, caller, result, events, awaiting>>

----------------------------------------------------------------------------
CallerStep(c) ==
    \/ CallCompleted(c) \/ Cancel(c) \/ CallTimedOut(c)

WorkStep(c) ==
    \/ (\E late \in BOOLEAN : WorkEnter(c, late)) \/ WorkFinished(c) \/ WorkProxyTimeout(c)
    \/ WorkComplete(c) \/ WorkTimeout(c) \/ WorkPollAgain(c)

EventStep ==
    \/ \E q \in Seqs : EvCpl(q)
    \/ \E c \in Cmds : EvProxyGranted(c) \/ EvProxyRefused(c)
    \/ EvDeath

Next ==
    \/ \E c \in Cmds :
          \/ CallRefused(c) \/ CallBusy(c) \/ Queue(c) \/ Send(c) \/ SendAndPoll(c)
          \/ CallTimesOut(c) \/ CallerStep(c) \/ WorkStep(c)
    \/ \E e \in Contexts \X Cmds : ProcessCleanup(e)
    \/ McAnswer \/ EventStep
    \/ EventsStart \/ ModeEvent \/ StopEvents \/ EventsStopped
    \/ FlrReset \/ PostReset

Spec == Init /\ [][Next]_vars

(* Tasks, timers and work items go on, and a command that is polled again   *)
(* and again does reach its timeout.  Nothing is assumed of the MC, of its  *)
(* events, or of the reset.                                                 *)
Fairness ==
    /\ \A c \in Cmds : WF_vars(CallerStep(c)) /\ WF_vars(WorkStep(c)) /\ SF_vars(WorkEnter(c, TRUE))
    /\ \A e \in Contexts \X Cmds : WF_vars(ProcessCleanup(e))

FairSpec == Spec /\ Fairness

----------------------------------------------------------------------------
(* Properties                                                               *)

(* Every variable stays in its domain.                                      *)
TypeOK ==
    /\ setting \in Settings
    /\ mcdi \in [ mode : {"POLL", "EVENTS", "FAIL"},
                  list : SUBSET Cmds,
                  db : Cmds \cup {NoCmd},
                  held : [Seqs -> Cmds \cup {NoCmd}],
                  prev_seq : Seqs,
                  prev_handle : Nat,
                  cleanup : SUBSET (Contexts \X Cmds),
                  outstanding : Int,
                  buf : BOOLEAN,
                  mail : [cmd : Cmds \cup {NoCmd}, evreq : BOOLEAN, reply : Answers \cup {"none"}],
                  state : [Cmds -> States],
                  handle : [Cmds -> Nat],
                  seq : [Cmds -> Seqs],
                  polled : [Cmds -> BOOLEAN],
                  proxied : [Cmds -> BOOLEAN],
                  expired : [Cmds -> BOOLEAN],
                  rc : [Cmds -> Codes \cup {"none"}],
                  ref : [Cmds -> Int],
                  work : [Cmds -> {"idle", "armed"}],
                  done : [Cmds -> Codes \cup {"none"}],
                  called : [Cmds -> Nat] ]
    /\ running \in [Cmds -> BOOLEAN]
    /\ caller \in [Cmds -> {"idle", "waiting", "cancelling", "cancelled", "returned"}]
    /\ result \in [Cmds -> Results \cup {"none"}]
    /\ events \subseteq Seqs
    /\ awaiting \subseteq Cmds
    /\ stage \in Stages

Holders(c) ==
    Cardinality({x \in {"list", "work", "running"} :
                    \/ x = "list" /\ c \in mcdi.list
                    \/ x = "work" /\ mcdi.work[c] = "armed"
                    \/ x = "running" /\ running[c]})
    + Cardinality({x \in Contexts : <<x, c>> \in mcdi.cleanup})

(* A command is not freed while the list, its work item or a cleanup list   *)
(* points to it.                                                            *)
NoEarlyFree == \A c \in Cmds : mcdi.ref[c] >= Holders(c)

(* ... and is freed as soon as none does: there is one reference for each   *)
(* of them (mcdi.h:80), however completion, timeout, cancellation and reset *)
(* of the command race with its work item.                                  *)
RefsExact == \A c \in Cmds : mcdi.ref[c] = Holders(c)

(* A command that an event says was refused is queued again with the timer  *)
(* of its first attempt armed (mcdi.c:640), and its work item may run any   *)
(* time: it reads the answer to another command, or cancels all of them.    *)
RefusedArmed == setting.interrupts /\ "FULL" \in setting.answers

(* What efx_mcdi_complete_cmd reads from the buffer for a running command   *)
(* is the answer to that command, but where commands are RefusedArmed.      *)
MailIsOwn ==
    ~RefusedArmed => \A c \in mcdi.list : mcdi.state[c] \in Running => mcdi.buf /\ mcdi.mail.cmd = c

(* No QUEUED command waits for a mailbox that is free: whoever frees the    *)
(* doorbell, the buffer or the sequence number moves the queue on.  And one *)
(* the MC had no resources for is "retried once another command returns"    *)
(* (mcdi.h:46): when a running one is answered otherwise, or times out,     *)
(* none is left in RETRY.  Only then: with no other under way it waits      *)
(* beside a free mailbox until somebody issues one (mcdi.c:1265), and the   *)
(* refusal of a proxied command moves nobody (mcdi.c:583).                  *)
QueuedMove ==
    "PROXY" \notin setting.answers /\ CanStart(mcdi) =>
       \A c \in mcdi.list : mcdi.state[c] # "QUEUED"

RunsOn(m) == {c \in m.list : m.state[c] \in Running}

RetriedNext ==
    /\ "PROXY" \notin setting.answers
    /\ mcdi.mail.reply # "FULL"
    /\ ~(RunsOn(mcdi) \subseteq RunsOn(mcdi'))
    => \A c \in mcdi'.list : mcdi'.state[c] # "RETRY"

NoLostWakeup == []QueuedMove /\ [][RetriedNext]_vars

(* efx_mcdi_mode_fail, which cancels the first command until there is none, *)
(* comes to an end, but where commands are RefusedArmed.                    *)
FailEmpties == ~RefusedArmed => (mcdi.mode = "FAIL" => mcdi.list = {})

(* "Wait for outstanding MCDI commands to complete." (mcdi.c:302): when     *)
(* efx_mcdi_flushed holds no call's completer is still to come, and no work *)
(* item is armed on the workqueue, which efx_mcdi_fini destroys next.  With *)
(* events the latter is not so of a command that was refused or held back   *)
(* while its timer ran: the fail mode and a cancellation unlink it with the *)
(* timer armed (mcdi.c:640); nor of one that is answered after it timed out *)
(* or was cancelled.                                                        *)
TimersEnd ==
    setting.interrupts =>
       /\ {"FULL", "PROXY"} \cap setting.answers = {}
       /\ ~setting.late /\ ~setting.impatient

FlushedQuiet ==
    Flushed => \A c \in Cmds : /\ TimersEnd => mcdi.work[c] = "idle"
                               /\ caller[c] = "waiting" => mcdi.called[c] > 0

(* The completer of a command is called at most once.                       *)
CalledOnce == \A c \in Cmds : mcdi.called[c] <= 1

(* "processing of this command has completed" (mcdi.h:67): nothing is done  *)
(* any more to a FINISHED command but putting references to it.             *)
FinishedForGood ==
    [][\A c \in Cmds : mcdi.state[c] = "FINISHED" =>
          /\ mcdi'.state[c] = "FINISHED"
          /\ mcdi'.rc[c] = mcdi.rc[c]
          /\ mcdi'.work[c] = "armed" => mcdi.work[c] = "armed"
          /\ \A x \in Contexts : <<x, c>> \in mcdi'.cleanup => <<x, c>> \in mcdi.cleanup]_vars

(* The completer of a command that was issued is called.                    *)
Answered == \A c \in Cmds : caller[c] = "waiting" ~> mcdi.called[c] > 0

(* The calls that wait are those of a transport that answers a call at most *)
(* once and always returns.                                                 *)
Caller == INSTANCE Rpc WITH
    Calls   <- Sync \cup Atomic,
    Replies <- Codes,
    call    <- [c \in Sync \cup Atomic |->
                   IF caller[c] \in {"idle", "returned"} THEN caller[c] ELSE "active"],
    reply   <- [c \in Sync \cup Atomic |-> mcdi.done[c]],
    result  <- [c \in Sync \cup Atomic |-> result[c]]

ImplementsRpc == Caller!Spec
=============================================================================
