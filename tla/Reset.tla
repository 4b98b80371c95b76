------------------------------ MODULE Reset ------------------------------
(***************************************************************************)
(* How the sfc driver resets the NIC (efx_common.c, efx.c).  Any context   *)
(* may ask for a reset: efx_schedule_reset notes the method in             *)
(* reset_pending, detaches the net device and queues reset_work.  The work *)
(* takes the RTNL lock and resets by the widest method that is pending.    *)
(* Opening and closing the device, changing its rings, power management    *)
(* and the recovery from PCI errors hold the same lock; those who ask for  *)
(* a reset do not.                                                         *)
(***************************************************************************)
EXTENDS Integers, FiniteSets

CONSTANTS
    Callers,        \* the contexts that ask for resets
    Asked,          \* the methods they ask for, as map_reset_reason gives them
    ResetsBeforeDisable,
    MaxRequests,    \* bound: how many resets are asked for
    MaxFailures,    \* bound: how often the hardware fails
    MaxEvents       \* bound: how often the system is suspended or the PCI layer reports an error

(* enum reset_type: the methods, "numbered in order of increasing scope";   *)
(* MCDI_TIMEOUT is none of those.                                           *)
Number == [RECOVER_OR_ALL |-> 1, ALL |-> 2, WORLD |-> 3, DATAPATH |-> 4, MC_BIST |-> 5,
           DISABLE |-> 6, MCDI_TIMEOUT |-> 13]
Methods == DOMAIN Number
MAX_METHOD == 7

Engine == "engine"   \* efx_reset, when it schedules its own repetition

ASSUME CallersNamed == Engine \notin Callers
ASSUME AskedMethods == Asked \subseteq Methods
ASSUME BoundsNat    == {ResetsBeforeDisable, MaxRequests, MaxFailures, MaxEvents} \subseteq Nat

VARIABLES
    state,          \* efx->state without its two flags,
    frozen,         \* STATE_FROZEN
    recovering,     \* and STATE_RECOVERY
    opened,         \* the net device is up for the stack (IFF_UP),
    present,        \* and attached
    datapath,       \* efx->port_enabled, with the channels started
    interrupts,     \* interrupts are enabled
    reset_pending,  \* efx->reset_pending
    reset_count,    \* efx->reset_count
    work,           \* reset_work is queued
    worker,         \* how far efx_reset_work is, and its method
    caller,         \* how far each call of efx_schedule_reset is
    rtnl,           \* who holds the RTNL lock
    engine,         \* how far efx_reset is, under it
    pm, pci,        \* how far a suspension, and the recovery from a PCI error are
    bounds,         \* what the bounds leave
    owed,           \* history: methods asked for that no reset covered since
    raced,          \* history: reset_pending was cleared in the middle of a request
    idleResume      \* history: recovered from a PCI error with the datapath down

stateVars  == <<state, frozen, recovering>>
deviceVars == <<opened, present>>
pathVars   == <<datapath, interrupts>>
pendVars   == <<reset_pending, reset_count>>
histVars   == <<owed, raced, idleResume>>
powerVars  == <<pm, pci>>
vars == <<stateVars, deviceVars, pathVars, pendVars, work, worker, caller, rtnl, engine, bounds,
          histVars, powerVars>>

(* The flags make the value of efx->state none of these.                    *)
NetActive    == state \in {"down", "allocated", "up"} /\ ~frozen /\ ~recovering
NetAllocated == state \in {"allocated", "up"} /\ ~frozen /\ ~recovering
Up           == state = "up" /\ ~frozen /\ ~recovering

Quiet == [pc |-> "idle", method |-> "ALL"]
Off   == [pc |-> "off", method |-> "ALL", rc |-> "ok", loaded |-> {}]

Init ==
    /\ state = "down" /\ frozen = FALSE /\ recovering = FALSE
    /\ opened = FALSE /\ present = TRUE
    /\ datapath = FALSE /\ interrupts = FALSE
    /\ reset_pending = {} /\ reset_count = 0
    /\ work = FALSE /\ worker = Quiet
    /\ caller = [c \in Callers \cup {Engine} |-> Quiet]
    /\ rtnl = "free" /\ engine = Off
    /\ bounds = [requests |-> MaxRequests, failures |-> MaxFailures, events |-> MaxEvents]
    /\ pm = "running" /\ pci = "ok"
    /\ owed = {} /\ raced = FALSE /\ idleResume = FALSE

----------------------------------------------------------------------------
(* efx_schedule_reset                                                       *)

CallerAt(c, pc) == caller' = [caller EXCEPT ![c] = IF pc = "idle" THEN Quiet ELSE [@ EXCEPT !.pc = pc]]

(* More than so many resets within a second (recent), and the device is     *)
(* disabled.  The count only matters up to there.                           *)
Ask(c, method, recent) ==
    LET new   == method \notin reset_pending
        count == (IF recent THEN reset_count ELSE 0) + (IF new THEN 1 ELSE 0)
        often == new /\ count > ResetsBeforeDisable
    IN  IF recovering THEN UNCHANGED <<reset_count, caller>>
        ELSE /\ reset_count' = IF often THEN ResetsBeforeDisable + 1 ELSE count
             /\ caller' = [caller EXCEPT ![c] = [pc |-> "set",
                                                 method |-> IF often THEN "DISABLE" ELSE method]]

Request(c, method, recent) ==
    /\ caller[c].pc = "idle"
    /\ bounds.requests > 0
    /\ bounds' = [bounds EXCEPT !.requests = @ - 1]
    /\ Ask(c, method, recent)
    /\ UNCHANGED <<stateVars, deviceVars, pathVars, reset_pending, work, worker, rtnl, engine,
                   histVars, powerVars>>

SetPending(c) ==
    /\ caller[c].pc = "set"
    /\ reset_pending' = reset_pending \cup {caller[c].method}
    /\ owed' = owed \cup {caller[c].method}
    /\ CallerAt(c, "test")
    /\ UNCHANGED <<stateVars, deviceVars, pathVars, reset_count, work, worker, rtnl, engine, bounds,
                   raced, idleResume, powerVars>>

TestActive(c) ==
    /\ caller[c].pc = "test"
    /\ CallerAt(c, IF NetActive THEN "detach" ELSE "idle")
    /\ UNCHANGED <<stateVars, deviceVars, pathVars, pendVars, work, worker, rtnl, engine, bounds,
                   histVars, powerVars>>

Detach(c) ==
    /\ caller[c].pc = "detach"
    /\ present' = FALSE
    /\ CallerAt(c, "queue")
    /\ UNCHANGED <<stateVars, opened, pathVars, pendVars, work, worker, rtnl, engine, bounds,
                   histVars, powerVars>>

QueueWork(c) ==
    /\ caller[c].pc = "queue"
    /\ work' = TRUE
    /\ CallerAt(c, "idle")
    /\ UNCHANGED <<stateVars, deviceVars, pathVars, pendVars, worker, rtnl, engine, bounds, histVars,
                   powerVars>>

CallerStep(c) == SetPending(c) \/ TestActive(c) \/ Detach(c) \/ QueueWork(c)

(* A request that is at one of these places.                                *)
Requesting(pcs) == \E c \in DOMAIN caller : caller[c].pc \in pcs

----------------------------------------------------------------------------
(* efx_reset_work, on a workqueue with one thread                           *)

(* The narrowest method first.                                              *)
Chosen_Narrowest_X(pending) == CHOOSE m \in pending : \A n \in pending : Number[m] <= Number[n]

Chosen(pending) == CHOOSE m \in pending : \A n \in pending : Number[n] <= Number[m]

WorkStart ==
    /\ worker.pc = "idle"
    /\ work
    /\ work' = FALSE
    /\ worker' = IF reset_pending = {} THEN worker
                 ELSE [pc |-> "lock", method |-> Chosen(reset_pending)]
    /\ UNCHANGED <<stateVars, deviceVars, pathVars, pendVars, caller, rtnl, engine, bounds, histVars,
                   powerVars>>

(* efx_reset up to the reset itself: the device is detached, and the        *)
(* datapath and the interrupts are stopped (efx_reset_down).                *)
Begin(owner, method) ==
    /\ rtnl' = owner
    /\ present' = FALSE
    /\ datapath' = FALSE
    /\ interrupts' = FALSE
    /\ engine' = [pc |-> "hardware", method |-> method, rc |-> "ok", loaded |-> {}]

WorkLock ==
    /\ worker.pc = "lock"
    /\ rtnl = "free"
    /\ IF NetActive
       THEN Begin("worker", worker.method) /\ worker' = [worker EXCEPT !.pc = "reset"]
       ELSE worker' = Quiet /\ UNCHANGED <<rtnl, present, pathVars, engine>>
    /\ UNCHANGED <<stateVars, opened, pendVars, work, caller, bounds, histVars, powerVars>>

----------------------------------------------------------------------------
(* efx_reset                                                                *)

(* The methods a reset covers.                                              *)
Covered(method) ==
    IF Number[method] < MAX_METHOD THEN {m \in Methods : Number[m] <= Number[method]} ELSE {method}

Outcomes == {"ok", "again", "failed"}

Worse(a, b) == IF "failed" \in {a, b} THEN "failed" ELSE IF "again" \in {a, b} THEN "again" ELSE "ok"

(* What fails uses up the bound.                                            *)
Result(rc) ==
    /\ rc # "ok" => bounds.failures > 0
    /\ bounds' = IF rc = "ok" THEN bounds ELSE [bounds EXCEPT !.failures = @ - 1]

(* efx->type->reset                                                         *)
ResetHardware(rc) ==
    /\ engine.pc = "hardware"
    /\ Result(rc)
    /\ engine' = [engine EXCEPT !.rc = rc, !.pc = IF rc = "ok" THEN "load" ELSE "up"]
    /\ owed' = IF rc = "ok" THEN owed \ Covered(engine.method) ELSE owed
    /\ UNCHANGED <<stateVars, deviceVars, pathVars, pendVars, work, worker, caller, rtnl, raced,
                   idleResume, powerVars>>

(* The clearing of the bits is a load and a store.                          *)
LoadPending ==
    /\ engine.pc = "load"
    /\ engine' = [engine EXCEPT !.loaded = reset_pending, !.pc = "store"]
    /\ UNCHANGED <<stateVars, deviceVars, pathVars, pendVars, work, worker, caller, rtnl, bounds,
                   histVars, powerVars>>

StorePending ==
    /\ engine.pc = "store"
    /\ reset_pending' = engine.loaded \ Covered(engine.method)
    /\ raced' = (raced \/ owed \cap (reset_pending \ reset_pending') # {}
                       \/ Requesting({"test", "detach"}))
    /\ engine' = [engine EXCEPT !.loaded = {}, !.pc = "up"]
    /\ UNCHANGED <<stateVars, deviceVars, pathVars, reset_count, work, worker, caller, rtnl, bounds,
                   owed, idleResume, powerVars>>

(* efx_reset_up: init, and unless the device stays stopped interrupts and   *)
(* efx_start_all, which does nothing while another reset is pending.        *)
ResetUp(rc) ==
    /\ engine.pc = "up"
    /\ Result(rc)
    /\ IF engine.rc = "ok" /\ rc = "ok" /\ engine.method # "DISABLE"
       THEN /\ interrupts' = NetAllocated
            /\ datapath' = (Up /\ reset_pending = {})
       ELSE UNCHANGED pathVars
    /\ engine' = [engine EXCEPT
                    !.rc = IF engine.method = "DISABLE" THEN "failed" ELSE Worse(@, rc),
                    !.pc = "finish"]
    /\ UNCHANGED <<stateVars, deviceVars, pendVars, work, worker, caller, rtnl, histVars, powerVars>>

(* The lock is released.  efx_io_resume ends the recovery before.           *)
Release(rc) ==
    /\ engine' = Off
    /\ rtnl' = "free"
    /\ worker' = IF rtnl = "worker" THEN Quiet ELSE worker
    /\ IF rtnl = "resume" /\ rc = "ok"
       THEN /\ recovering' = FALSE
            /\ reset_count' = 0
            /\ idleResume' = (idleResume \/ (state = "up" /\ ~datapath))
       ELSE UNCHANGED <<recovering, reset_count, idleResume>>

FinishDisabled ==
    /\ engine.pc = "finish"
    /\ engine.rc = "failed"
    /\ opened' = FALSE /\ datapath' = FALSE /\ interrupts' = FALSE
    /\ state' = "disabled"
    /\ frozen' = FALSE /\ recovering' = FALSE
    /\ engine' = Off /\ rtnl' = "free" /\ worker' = IF rtnl = "worker" THEN Quiet ELSE worker
    /\ UNCHANGED <<present, pendVars, work, caller, bounds, histVars, powerVars>>

FinishRetry(recent) ==
    /\ engine.pc = "finish"
    /\ engine.rc = "again"
    /\ Ask(Engine, IF engine.method = "MC_BIST" THEN "DATAPATH" ELSE engine.method, recent)
    /\ engine' = [engine EXCEPT !.pc = "retry"]
    /\ UNCHANGED <<stateVars, deviceVars, pathVars, reset_pending, work, worker, rtnl, bounds,
                   histVars, powerVars>>

RetryScheduled ==
    /\ engine.pc = "retry"
    /\ caller[Engine].pc = "idle"
    /\ Release("again")
    /\ UNCHANGED <<state, frozen, deviceVars, pathVars, reset_pending, work, caller, bounds, owed,
                   raced, powerVars>>

(* Attached whatever is pending.                                            *)
MayAttach_Always_X == TRUE

(* efx_device_attach_if_not_resetting                                       *)
MayAttach == state # "disabled" /\ reset_pending = {}

FinishOk ==
    /\ engine.pc = "finish"
    /\ engine.rc = "ok"
    /\ IF MayAttach
       THEN /\ engine' = [engine EXCEPT !.pc = "attach"]
            /\ UNCHANGED <<recovering, reset_count, rtnl, worker, idleResume>>
       ELSE Release("ok")
    /\ UNCHANGED <<state, frozen, deviceVars, pathVars, reset_pending, work, caller, bounds, owed,
                   raced, powerVars>>

Attach ==
    /\ engine.pc = "attach"
    /\ present' = TRUE
    /\ Release("ok")
    /\ UNCHANGED <<state, frozen, opened, pathVars, reset_pending, work, caller, bounds, owed,
                   raced, powerVars>>

EngineStep ==
    \/ \E rc \in Outcomes : ResetHardware(rc) \/ ResetUp(rc)
    \/ LoadPending \/ StorePending
    \/ FinishDisabled \/ RetryScheduled \/ FinishOk \/ Attach
    \/ \E recent \in BOOLEAN : FinishRetry(recent)

----------------------------------------------------------------------------
(* The others that hold the RTNL lock                                       *)

Idle == rtnl = "free" /\ pm \in {"running", "failed"}

(* efx_net_open, called for a device that is present: one that is disabled  *)
(* or recovering is not.  rtnl names the next step.                         *)
OpenAlloc ==
    /\ Idle /\ ~opened /\ present
    /\ rtnl' = "start"
    /\ state' = "allocated"
    /\ interrupts' = TRUE
    /\ reset_count' = 0
    /\ UNCHANGED <<frozen, recovering, deviceVars, datapath, reset_pending, work, worker, caller,
                   engine, bounds, histVars, powerVars>>

OpenStart ==
    /\ rtnl = "start"
    /\ rtnl' = "opened"
    /\ datapath' = (reset_pending = {})
    /\ UNCHANGED <<stateVars, deviceVars, interrupts, pendVars, work, worker, caller, engine, bounds,
                   histVars, powerVars>>

(* With a reset pending the state stays STATE_NET_ALLOCATED.                *)
OpenFinish ==
    /\ rtnl = "opened"
    /\ rtnl' = "free"
    /\ opened' = TRUE
    /\ present' = (present /\ reset_pending = {})
    /\ state' = IF reset_pending = {} THEN "up" ELSE state
    /\ UNCHANGED <<frozen, recovering, pathVars, pendVars, work, worker, caller, engine, bounds,
                   histVars, powerVars>>

(* efx_net_stop, for the stack or after efx_net_open failed.                *)
Stopped ==
    /\ rtnl' = "free"
    /\ opened' = FALSE
    /\ state' = "down"
    /\ frozen' = FALSE /\ recovering' = FALSE
    /\ datapath' = FALSE
    /\ interrupts' = FALSE
    /\ UNCHANGED <<present, pendVars, work, worker, caller, engine, histVars, powerVars>>

OpenFails == rtnl = "start" /\ Result("failed") /\ Stopped

Close == Idle /\ opened /\ UNCHANGED bounds /\ Stopped

(* efx_realloc_channels, for ethtool and an open device.                    *)
ReallocStop ==
    /\ Idle /\ opened /\ present
    /\ ~recovering
    /\ rtnl' = "realloc"
    /\ present' = FALSE
    /\ datapath' = FALSE
    /\ interrupts' = FALSE
    /\ UNCHANGED <<stateVars, opened, pendVars, work, worker, caller, engine, bounds, histVars,
                   powerVars>>

ReallocRestart ==
    /\ rtnl = "realloc"
    /\ rtnl' = "free"
    /\ interrupts' = TRUE
    /\ datapath' = (Up /\ reset_pending = {})
    /\ present' = MayAttach
    /\ UNCHANGED <<stateVars, opened, pendVars, work, worker, caller, engine, bounds, histVars,
                   powerVars>>

ReallocFails(recent) ==
    /\ rtnl = "realloc"
    /\ Result("failed")
    /\ Ask(Engine, "DISABLE", recent)
    /\ rtnl' = "schedule"
    /\ UNCHANGED <<stateVars, deviceVars, pathVars, reset_pending, work, worker, engine, histVars,
                   powerVars>>

ReallocScheduled ==
    /\ rtnl = "schedule"
    /\ caller[Engine].pc = "idle"
    /\ rtnl' = "free"
    /\ UNCHANGED <<stateVars, deviceVars, pathVars, pendVars, work, worker, caller, engine, bounds,
                   histVars, powerVars>>

----------------------------------------------------------------------------
(* Power management                                                         *)

Freeze ==
    /\ rtnl = "free" /\ pm = "running" /\ pci = "ok"
    /\ bounds.events > 0
    /\ bounds' = [bounds EXCEPT !.events = @ - 1]
    /\ pm' = "frozen"
    /\ IF Up THEN present' = FALSE /\ datapath' = FALSE /\ interrupts' = FALSE
             ELSE UNCHANGED <<present, pathVars>>
    /\ frozen' = NetActive
    /\ UNCHANGED <<state, recovering, opened, pendVars, work, worker, caller, rtnl, engine, histVars,
                   pci>>

PowerOff ==
    /\ pm = "frozen"
    /\ pm' = "off"
    /\ reset_pending' = {}
    /\ owed' = {}
    /\ raced' = (raced \/ Requesting({"test", "detach"}))
    /\ UNCHANGED <<stateVars, deviceVars, pathVars, reset_count, work, worker, caller, rtnl, engine,
                   bounds, idleResume, pci>>

(* efx_pm_resume up to efx_pm_thaw.  When it fails the device stays frozen. *)
Resume(rc) ==
    /\ pm = "off"
    /\ Result(rc)
    /\ pm' = IF rc = "ok" THEN "resumed" ELSE "failed"
    /\ UNCHANGED <<stateVars, deviceVars, pathVars, pendVars, work, worker, caller, rtnl, engine,
                   histVars, pci>>

ThawFails ==
    /\ pm \in {"frozen", "resumed"} /\ rtnl = "free"
    /\ state = "up" /\ frozen
    /\ Result("failed")
    /\ pm' = "failed"
    /\ UNCHANGED <<stateVars, deviceVars, pathVars, pendVars, work, worker, caller, rtnl, engine,
                   histVars, pci>>

Thaw ==
    /\ pm \in {"frozen", "resumed"} /\ rtnl = "free"
    /\ pm' = "thawing"
    /\ rtnl' = "thaw"
    /\ IF state = "up" /\ frozen
       THEN interrupts' = TRUE /\ datapath' = (reset_pending = {}) /\ present' = MayAttach
       ELSE UNCHANGED <<pathVars, present>>
    /\ UNCHANGED <<stateVars, opened, pendVars, work, worker, caller, engine, bounds, histVars, pci>>

Thawed ==
    /\ pm = "thawing"
    /\ pm' = "requeue"
    /\ rtnl' = "free"
    /\ frozen' = FALSE
    /\ UNCHANGED <<state, recovering, deviceVars, pathVars, pendVars, work, worker, caller, engine,
                   bounds, histVars, pci>>

(* The resets quenched while frozen are not rescheduled.                    *)
Requeue_Never_X ==
    /\ pm = "requeue"
    /\ pm' = "running"
    /\ UNCHANGED <<stateVars, deviceVars, pathVars, pendVars, work, worker, caller, rtnl, engine,
                   bounds, histVars, pci>>

Requeue ==
    /\ pm = "requeue"
    /\ pm' = "running"
    /\ work' = TRUE
    /\ UNCHANGED <<stateVars, deviceVars, pathVars, pendVars, worker, caller, rtnl, engine,
                   bounds, histVars, pci>>

PmStep == Thaw \/ Thawed \/ Requeue \/ \E rc \in {"ok", "failed"} : Resume(rc)

----------------------------------------------------------------------------
(* PCI error recovery.  Once the state is STATE_RECOVERY efx_net_active is  *)
(* false: nothing is stopped here.                                          *)

PciError ==
    /\ Idle /\ pci = "ok"
    /\ bounds.events > 0
    /\ bounds' = [bounds EXCEPT !.events = @ - 1]
    /\ pci' = "error"
    /\ IF state = "disabled" THEN UNCHANGED <<recovering, present, reset_pending, owed, raced>>
       ELSE /\ recovering' = TRUE
            /\ present' = FALSE
            /\ reset_pending' = {}
            /\ owed' = {}
            /\ raced' = (raced \/ Requesting({"set", "test", "detach"}))
    /\ UNCHANGED <<state, frozen, opened, pathVars, reset_count, work, worker, caller, rtnl, engine,
                   idleResume, pm>>

PciResume ==
    /\ pci = "error" /\ rtnl = "free"
    /\ pci' = "ok"
    /\ IF state = "disabled" THEN UNCHANGED <<rtnl, present, pathVars, engine>>
       ELSE Begin("resume", "ALL")
    /\ UNCHANGED <<stateVars, opened, pendVars, work, worker, caller, bounds, histVars, pm>>

----------------------------------------------------------------------------

Next ==
    \/ \E c \in Callers, method \in Asked, recent \in BOOLEAN : Request(c, method, recent)
    \/ \E c \in DOMAIN caller : CallerStep(c)
    \/ WorkStart \/ WorkLock
    \/ EngineStep
    \/ OpenAlloc \/ OpenStart \/ OpenFinish \/ OpenFails \/ Close
    \/ ReallocStop \/ ReallocRestart \/ ReallocScheduled
    \/ \E recent \in BOOLEAN : ReallocFails(recent)
    \/ Freeze \/ PowerOff \/ ThawFails \/ PmStep
    \/ PciError \/ PciResume

Spec == Init /\ [][Next]_vars

(* Whoever holds the lock and whoever asks for a reset goes on, and whoever *)
(* waits for the lock gets it in the end.                                   *)
Fairness ==
    /\ \A c \in Callers \cup {Engine} : WF_vars(CallerStep(c))
    /\ WF_vars(WorkStart)
    /\ SF_vars(WorkLock)
    /\ WF_vars(EngineStep)
    /\ WF_vars(OpenStart) /\ WF_vars(OpenFinish)
    /\ WF_vars(ReallocRestart) /\ WF_vars(ReallocScheduled)
    /\ SF_vars(PmStep)
    /\ SF_vars(PciResume)

FairSpec == Spec /\ Fairness

----------------------------------------------------------------------------
(* Properties                                                               *)

(* Every variable stays in its domain.                                      *)
TypeOK ==
    /\ state \in {"down", "allocated", "up", "disabled"}
    /\ {frozen, recovering, opened, present, datapath, interrupts, work, raced, idleResume}
          \subseteq BOOLEAN
    /\ reset_pending \subseteq Methods /\ owed \subseteq Methods
    /\ reset_count \in 0..(ResetsBeforeDisable + 1)
    /\ worker \in [pc : {"idle", "lock", "reset"}, method : Methods]
    /\ caller \in [Callers \cup {Engine} -> [pc : {"idle", "set", "test", "detach", "queue"},
                                             method : Methods]]
    /\ rtnl \in {"free", "worker", "resume", "start", "opened", "realloc", "schedule", "thaw"}
    /\ engine \in [pc : {"off", "hardware", "load", "store", "up", "finish", "retry", "attach"},
                   method : Methods, rc : Outcomes, loaded : SUBSET Methods]
    /\ pm \in {"running", "frozen", "off", "resumed", "thawing", "requeue", "failed"}
    /\ pci \in {"ok", "error"}
    /\ bounds \in [{"requests", "failures", "events"} -> Nat]

(* A device that was disabled stays disabled, detached and stopped, however *)
(* resets, power management, PCI errors and the closing of the device by    *)
(* the reset that disables it follow each other (efx_common.c:1193).        *)
DisabledStays ==
    [][state = "disabled" => state' = "disabled" /\ ~present' /\ ~datapath' /\ ~opened']_vars

(* The stack sees an open device only while its datapath runs: whoever      *)
(* leaves the datapath stopped because a reset is pending leaves the device *)
(* detached, and whoever attaches it has started the datapath before        *)
(* (efx.h:424).  Recovery from a PCI error is the exception: its reset      *)
(* finds STATE_RECOVERY in the state and starts nothing (efx_common.c:1086).*)
UpRuns == Up /\ present /\ rtnl = "free" /\ ~idleResume => datapath /\ interrupts

(* An open device that is detached is attached again, closed or disabled,   *)
(* unless reset_pending was cleared in the middle of a request              *)
(* (efx_common.c:1155) or the recovery or the resumption failed.            *)
Reattached ==
    (state = "up" /\ ~present) ~> (present \/ state # "up" \/ raced \/ pm = "failed" \/ recovering)

(* No method that was asked for is forgotten, also when it was asked for    *)
(* while frozen, or while another reset runs (efx.c:1724): in the end a     *)
(* reset covers it, with the same exceptions.                               *)
Served ==
    \A method \in Asked :
        method \in owed ~> (method \notin owed \/ raced \/ pm = "failed" \/ recovering \/ state = "disabled")

=============================================================================
