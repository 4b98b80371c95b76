--------------------------- MODULE ResetProofs ---------------------------
(***************************************************************************)
(* Proofs about Reset, for any contexts that ask for resets, any methods   *)
(* they ask for and any bounds.                                            *)
(***************************************************************************)
EXTENDS Reset, TLAPS

USE CallersNamed, AskedMethods, BoundsNat

CallerPcs  == {"idle", "set", "test", "detach", "queue"}
CallerType == [Callers \cup {Engine} -> [pc : CallerPcs, method : Methods]]
WorkerType == [pc : {"idle", "lock", "reset"}, method : Methods]
EngineType == [pc : {"off", "hardware", "load", "store", "up", "finish", "retry", "attach"},
               method : Methods, rc : Outcomes, loaded : SUBSET Methods]
BoundsType == [{"requests", "failures", "events"} -> Nat]
CountType  == 0..(ResetsBeforeDisable + 1)

(* TypeOK, by these names.                                                  *)
LEMMA TypeParts ==
    TypeOK <=>
      /\ state \in {"down", "allocated", "up", "disabled"}
      /\ {frozen, recovering, opened, present, datapath, interrupts, work, raced, idleResume}
            \subseteq BOOLEAN
      /\ reset_pending \subseteq Methods /\ owed \subseteq Methods
      /\ reset_count \in CountType
      /\ worker \in WorkerType /\ caller \in CallerType /\ engine \in EngineType
      /\ rtnl \in {"free", "worker", "resume", "start", "opened", "realloc", "schedule", "thaw"}
      /\ pm \in {"running", "frozen", "off", "resumed", "thawing", "requeue", "failed"}
      /\ pci \in {"ok", "error"}
      /\ bounds \in BoundsType
  BY DEF TypeOK, CallerPcs, CallerType, WorkerType, EngineType, BoundsType, CountType

(* The methods, by name.                                                    *)
LEMMA MethodsAre ==
    Methods = {"RECOVER_OR_ALL", "ALL", "WORLD", "DATAPATH", "MC_BIST", "DISABLE", "MCDI_TIMEOUT"}
  BY DEF Methods, Number

(* A request, the work and efx_reset at rest.                               *)
LEMMA AtRest ==
    /\ Quiet \in WorkerType
    /\ Quiet \in [pc : CallerPcs, method : Methods]
    /\ Off \in EngineType
  BY MethodsAre DEF Quiet, Off, Outcomes, WorkerType, EngineType, CallerPcs

(* The widest method that is pending exists.                                *)
LEMMA WidestExists ==
    ASSUME NEW pending \in SUBSET Methods, pending # {}
    PROVE  \E m \in pending : \A n \in pending : Number[n] <= Number[m]
<1> USE MethodsAre DEF Number
<1>1. CASE "MCDI_TIMEOUT" \in pending
  BY <1>1
<1>2. CASE "MCDI_TIMEOUT" \notin pending /\ "DISABLE" \in pending
  BY <1>2
<1>3. CASE {"MCDI_TIMEOUT", "DISABLE"} \cap pending = {} /\ "MC_BIST" \in pending
  BY <1>3
<1>4. CASE {"MCDI_TIMEOUT", "DISABLE", "MC_BIST"} \cap pending = {} /\ "DATAPATH" \in pending
  BY <1>4
<1>5. CASE {"MCDI_TIMEOUT", "DISABLE", "MC_BIST", "DATAPATH"} \cap pending = {} /\ "WORLD" \in pending
  BY <1>5
<1>6. CASE {"MCDI_TIMEOUT", "DISABLE", "MC_BIST", "DATAPATH", "WORLD"} \cap pending = {}
           /\ "ALL" \in pending
  BY <1>6
<1>7. CASE pending \subseteq {"RECOVER_OR_ALL"}
  <2>1. \A m \in pending : m = "RECOVER_OR_ALL"
    BY <1>7
  <2>2. PICK m \in pending : TRUE
    OBVIOUS
  <2> QED BY <2>1, <2>2
<1> QED BY <1>1, <1>2, <1>3, <1>4, <1>5, <1>6, <1>7

----------------------------------------------------------------------------
(* Types                                                                    *)

(* A failure uses up what the bound leaves.                                 *)
LEMMA ResultType ==
    ASSUME TypeOK, NEW rc, Result(rc)
    PROVE  bounds' \in BoundsType
<1> USE DEF TypeOK, BoundsType
<1>1. CASE rc = "ok"
  BY <1>1 DEF Result
<1>2. CASE rc # "ok"
  <2>1. bounds.failures - 1 \in Nat
    BY <1>2 DEF Result
  <2> QED BY <1>2, <2>1 DEF Result
<1> QED BY <1>1, <1>2

(* What releasing the lock writes.                                          *)
LEMMA ReleaseType ==
    ASSUME TypeOK, NEW rc, Release(rc)
    PROVE  /\ engine' \in EngineType /\ rtnl' = "free"
           /\ worker' \in WorkerType
           /\ recovering' \in BOOLEAN
           /\ reset_count' \in CountType
           /\ idleResume' \in BOOLEAN
<1>1. engine' \in EngineType /\ rtnl' = "free"
  BY AtRest DEF Release
<1>2. worker' \in WorkerType
  BY AtRest, TypeParts DEF Release
<1>3. reset_count' \in CountType
  BY DEF Release, TypeOK, CountType
<1>4. recovering' \in BOOLEAN
  BY DEF Release, TypeOK
<1>5. idleResume' \in BOOLEAN
  BY DEF Release, TypeOK
<1> QED BY <1>1, <1>2, <1>3, <1>4, <1>5

(* A request that starts.                                                   *)
LEMMA AskType ==
    ASSUME TypeOK, NEW c \in Callers \cup {Engine}, NEW method \in Methods,
           NEW recent \in BOOLEAN, Ask(c, method, recent)
    PROVE  reset_count' \in CountType /\ caller' \in CallerType
<1> USE DEF TypeOK, CountType, CallerPcs, CallerType
<1>1. reset_count' \in CountType
  BY DEF Ask
<1>2. caller' \in CallerType
  BY MethodsAre DEF Ask
<1> QED BY <1>1, <1>2

(* A request that goes on.                                                  *)
LEMMA CallerAtType ==
    ASSUME TypeOK, NEW c \in Callers \cup {Engine}, NEW pc \in CallerPcs, CallerAt(c, pc)
    PROVE  caller' \in CallerType
<1> USE DEF TypeOK, CallerPcs, CallerType
<1>1. CASE pc = "idle"
  BY <1>1, AtRest DEF CallerAt
<1>2. CASE pc # "idle"
  BY <1>2 DEF CallerAt
<1> QED BY <1>1, <1>2

(* The work that starts has chosen a method.                                *)
LEMMA WorkStartType ==
    ASSUME TypeOK, WorkStart
    PROVE  worker' \in WorkerType
<1>1. CASE reset_pending = {}
  BY <1>1, TypeParts DEF WorkStart, WorkerType
<1>2. CASE reset_pending # {}
  <2>1. Chosen(reset_pending) \in Methods
    BY <1>2, TypeParts, WidestExists DEF Chosen
  <2>2. ASSUME NEW m \in Methods PROVE [pc |-> "lock", method |-> m] \in WorkerType
    BY DEF WorkerType
  <2>3. worker' = [pc |-> "lock", method |-> Chosen(reset_pending)]
    BY <1>2 DEF WorkStart
  <2> QED BY ONLY <2>1, <2>2, <2>3
<1> QED BY <1>1, <1>2

(* The reset that begins.                                                   *)
LEMMA BeginType ==
    ASSUME NEW owner, NEW method \in Methods, Begin(owner, method)
    PROVE  engine' \in EngineType
  BY DEF Begin, EngineType, Outcomes

(* The initial state is of these types ...                                  *)
LEMMA TypeInit == Init => TypeOK
<1> SUFFICES ASSUME Init PROVE TypeOK
  OBVIOUS
<1>1. bounds \in BoundsType
  BY DEF Init, BoundsType
<1>2. caller \in CallerType
  BY AtRest DEF Init, CallerType
<1>3. /\ worker \in WorkerType /\ engine \in EngineType
      /\ reset_count \in CountType
  BY AtRest DEF Init, CountType
<1>4. /\ state = "down" /\ rtnl = "free" /\ pm = "running" /\ pci = "ok"
      /\ {frozen, recovering, opened, present, datapath, interrupts, work, raced, idleResume}
            \subseteq BOOLEAN
      /\ reset_pending = {} /\ owed = {}
  BY DEF Init
<1> QED BY ONLY <1>1, <1>2, <1>3, <1>4, TypeParts

(* ... and every step keeps them: one step of the proof per action.         *)
LEMMA TypeNext == TypeOK /\ [Next]_vars => TypeOK'
<1> SUFFICES ASSUME TypeOK, [Next]_vars PROVE TypeOK'
  OBVIOUS
<1>3. CASE WorkStart
  <2>1. worker' \in WorkerType
    BY <1>3, WorkStartType
  <2>2. /\ work' = FALSE
        /\ state' = state /\ frozen' = frozen /\ recovering' = recovering
        /\ opened' = opened /\ present' = present
        /\ datapath' = datapath /\ interrupts' = interrupts
        /\ reset_pending' = reset_pending /\ reset_count' = reset_count
        /\ caller' = caller /\ rtnl' = rtnl /\ engine' = engine /\ bounds' = bounds
        /\ owed' = owed /\ raced' = raced /\ idleResume' = idleResume
        /\ pm' = pm /\ pci' = pci
    BY <1>3 DEF WorkStart, stateVars, deviceVars, pathVars, pendVars, histVars, powerVars
  <2>3. {frozen, recovering, opened, present, datapath, interrupts, work, raced, idleResume}'
           \subseteq BOOLEAN
    BY <2>2, TypeParts
  <2> QED BY <2>1, <2>2, <2>3 DEF TypeOK, WorkerType
<1> USE DEF TypeOK, CallerPcs, CallerType, WorkerType, EngineType, BoundsType, CountType
<1> USE DEF stateVars, deviceVars, pathVars, pendVars, histVars, powerVars
<1>1. ASSUME NEW c \in Callers, NEW method \in Asked, NEW recent \in BOOLEAN,
             Request(c, method, recent)
      PROVE  TypeOK'
  <2>1. bounds' \in BoundsType
    <3>1. bounds.requests - 1 \in Nat
      BY <1>1 DEF Request
    <3> QED BY <1>1, <3>1 DEF Request
  <2>2. reset_count' \in CountType /\ caller' \in CallerType
    BY <1>1, AskType DEF Request
  <2> QED BY <1>1, <2>1, <2>2 DEF Request
<1>2. ASSUME NEW c \in DOMAIN caller, CallerStep(c) PROVE TypeOK'
  <2>1. c \in Callers \cup {Engine}
    OBVIOUS
  <2>2. CASE SetPending(c)
    BY <2>1, <2>2, CallerAtType DEF SetPending
  <2>3. CASE TestActive(c)
    BY <2>1, <2>3, CallerAtType DEF TestActive
  <2>4. CASE Detach(c)
    <3>1. caller' \in CallerType
      BY <2>1, <2>4, CallerAtType DEF Detach
    <3>2. present' \in BOOLEAN
      BY <2>4 DEF Detach
    <3> QED BY <2>4, <3>1, <3>2 DEF Detach
  <2>5. CASE QueueWork(c)
    BY <2>1, <2>5, CallerAtType DEF QueueWork
  <2> QED BY <1>2, <2>2, <2>3, <2>4, <2>5 DEF CallerStep
<1>4. CASE WorkLock
  <2>1. CASE NetActive
    <3>1. engine' \in EngineType
      BY <1>4, <2>1, BeginType DEF WorkLock
    <3>2. worker' \in WorkerType
      BY <1>4, <2>1 DEF WorkLock
    <3> QED BY <1>4, <2>1, <3>1, <3>2 DEF WorkLock, Begin
  <2>2. CASE ~NetActive
    BY <1>4, <2>2, AtRest DEF WorkLock
  <2> QED BY <2>1, <2>2
<1>5. ASSUME NEW rc \in Outcomes, ResetHardware(rc) PROVE TypeOK'
  <2>1. engine' \in EngineType
    BY <1>5 DEF ResetHardware
  <2>2. bounds' \in BoundsType
    BY <1>5, ResultType DEF ResetHardware
  <2>3. owed' \subseteq Methods
    BY <1>5 DEF ResetHardware
  <2>4. UNCHANGED <<stateVars, deviceVars, pathVars, pendVars, work, worker, caller, rtnl, raced,
                    idleResume, powerVars>>
    BY <1>5 DEF ResetHardware
  <2> QED BY <2>1, <2>2, <2>3, <2>4
<1>6. CASE LoadPending
  <2>1. engine' \in EngineType
    BY <1>6 DEF LoadPending
  <2>2. UNCHANGED <<stateVars, deviceVars, pathVars, pendVars, work, worker, caller, rtnl, bounds,
                    histVars, powerVars>>
    BY <1>6 DEF LoadPending
  <2> QED BY <2>1, <2>2
<1>7. CASE StorePending
  <2>1. engine' \in EngineType
    BY <1>7 DEF StorePending
  <2>2. reset_pending' \subseteq Methods /\ raced' \in BOOLEAN
    BY <1>7 DEF StorePending, Requesting
  <2>3. UNCHANGED <<stateVars, deviceVars, pathVars, reset_count, work, worker, caller, rtnl, bounds,
                    owed, idleResume, powerVars>>
    BY <1>7 DEF StorePending
  <2> QED BY <2>1, <2>2, <2>3
<1>8. ASSUME NEW rc \in Outcomes, ResetUp(rc) PROVE TypeOK'
  <2>1. Worse(engine.rc, rc) \in Outcomes
    BY DEF Worse, Outcomes
  <2>2. engine' \in EngineType
    BY <1>8, <2>1 DEF ResetUp, Outcomes
  <2>3. NetAllocated \in BOOLEAN /\ Up \in BOOLEAN
    BY DEF NetAllocated, Up
  <2>4. interrupts' \in BOOLEAN /\ datapath' \in BOOLEAN
    BY <1>8, <2>3 DEF ResetUp
  <2> QED BY <1>8, <2>2, <2>4, ResultType DEF ResetUp
<1>9. CASE FinishDisabled
  BY <1>9, AtRest DEF FinishDisabled
<1>10. ASSUME NEW recent \in BOOLEAN, FinishRetry(recent) PROVE TypeOK'
  <2>1. reset_count' \in CountType /\ caller' \in CallerType
    BY <1>10, AskType, MethodsAre DEF FinishRetry
  <2>2. engine' \in EngineType
    BY <1>10 DEF FinishRetry
  <2> QED BY <1>10, <2>1, <2>2 DEF FinishRetry
<1>11. CASE RetryScheduled
  BY <1>11, ReleaseType DEF RetryScheduled
<1>12. CASE FinishOk
  <2>1. CASE MayAttach
    BY <1>12, <2>1 DEF FinishOk
  <2>2. CASE ~MayAttach
    BY <1>12, <2>2, ReleaseType DEF FinishOk
  <2> QED BY <2>1, <2>2
<1>13. CASE Attach
  BY <1>13, ReleaseType DEF Attach
<1>14. CASE OpenAlloc \/ OpenStart
  <2>1. CASE OpenAlloc
    BY <2>1 DEF OpenAlloc
  <2>2. CASE OpenStart
    BY <2>2 DEF OpenStart
  <2> QED BY <1>14, <2>1, <2>2
<1>15. CASE OpenFinish
  BY <1>15 DEF OpenFinish
<1>16. CASE OpenFails \/ Close
  BY <1>16, ResultType DEF OpenFails, Close, Stopped
<1>17. CASE ReallocStop \/ ReallocScheduled
  BY <1>17 DEF ReallocStop, ReallocScheduled
<1>18. CASE ReallocRestart
  BY <1>18 DEF ReallocRestart, MayAttach, Up
<1>19. ASSUME NEW recent \in BOOLEAN, ReallocFails(recent) PROVE TypeOK'
  <2>1. reset_count' \in CountType /\ caller' \in CallerType
    BY <1>19, AskType, MethodsAre DEF ReallocFails
  <2> QED BY <1>19, <2>1, ResultType DEF ReallocFails
<1>20. CASE Freeze
  <2>1. frozen' \in BOOLEAN
    BY <1>20 DEF Freeze, NetActive
  <2>2. bounds' \in BoundsType
    <3>1. bounds.events - 1 \in Nat
      BY <1>20 DEF Freeze
    <3> QED BY <1>20, <3>1 DEF Freeze
  <2>3. present' \in BOOLEAN /\ datapath' \in BOOLEAN /\ interrupts' \in BOOLEAN
    BY <1>20 DEF Freeze
  <2> QED BY <1>20, <2>1, <2>2, <2>3 DEF Freeze
<1>21. CASE PowerOff
  BY <1>21 DEF PowerOff
<1>22. ASSUME NEW rc \in {"ok", "failed"}, Resume(rc) PROVE TypeOK'
  BY <1>22, ResultType DEF Resume
<1>23. CASE ThawFails
  BY <1>23, ResultType DEF ThawFails
<1>24. CASE Thaw
  BY <1>24 DEF Thaw, MayAttach
<1>25. CASE Thawed \/ Requeue
  BY <1>25 DEF Thawed, Requeue
<1>26. CASE PciError
  <2>1. bounds' \in BoundsType
    <3>1. bounds.events - 1 \in Nat
      BY <1>26 DEF PciError
    <3> QED BY <1>26, <3>1 DEF PciError
  <2>2. /\ present' \in BOOLEAN /\ recovering' \in BOOLEAN /\ raced' \in BOOLEAN
        /\ reset_pending' \subseteq Methods /\ owed' \subseteq Methods
    BY <1>26 DEF PciError
  <2> QED BY <1>26, <2>1, <2>2 DEF PciError
<1>27. CASE PciResume
  <2>1. CASE state = "disabled"
    BY <1>27, <2>1 DEF PciResume
  <2>2. CASE state # "disabled"
    <3>1. engine' \in EngineType
      BY <1>27, <2>2, BeginType, MethodsAre DEF PciResume
    <3> QED BY <1>27, <2>2, <3>1 DEF PciResume, Begin
  <2> QED BY <2>1, <2>2
<1>28. CASE UNCHANGED vars
  BY <1>28 DEF vars
<1> QED
  BY <1>1, <1>2, <1>3, <1>4, <1>5, <1>6, <1>7, <1>8, <1>9, <1>10, <1>11, <1>12, <1>13, <1>14,
     <1>15, <1>16, <1>17, <1>18, <1>19, <1>20, <1>21, <1>22, <1>23, <1>24, <1>25, <1>26, <1>27,
     <1>28 DEF Next, EngineStep, PmStep

(* Every variable of the reset machinery stays in its domain.               *)
THEOREM TypeCorrect == Spec => []TypeOK
  BY TypeInit, TypeNext, PTL DEF Spec

----------------------------------------------------------------------------
(* The strengthening of UpRuns and of what DisabledStays says of a state.   *)

(* efx_reset runs under the lock, on a device that is detached and not      *)
(* disabled; the reset of efx_reset_work on one that is active.             *)
EngineLocked ==
    /\ engine.pc # "off" => rtnl \in {"worker", "resume"} /\ ~present /\ state # "disabled"
    /\ rtnl = "worker" => NetActive

(* Power management and the others that hold the lock exclude each other.   *)
PowerExclusive ==
    /\ frozen => pm \in {"frozen", "off", "resumed", "thawing", "failed"}
    /\ rtnl \in {"start", "opened", "realloc", "schedule"} => pm \in {"running", "failed"}
    /\ pm = "thawing" => rtnl = "thaw"
    /\ pm \in {"frozen", "off", "resumed", "thawing"} =>
          ~NetActive /\ pci = "ok" /\ rtnl \in {"free", "thaw"}

(* A device that is disabled, and one whose rings are changed.              *)
Stays == state = "disabled" => ~opened /\ ~present /\ ~datapath /\ rtnl \in {"free", "thaw"}

ReallocDetached == rtnl \in {"realloc", "schedule"} => ~present

(* The datapath runs with interrupts only.                                  *)
PathInterrupts ==
    /\ datapath => interrupts
    /\ rtnl \in {"start", "opened"} => interrupts

(* Whoever is going to attach the device has started the datapath.          *)
OpenedRuns == rtnl = "opened" /\ reset_pending = {} => datapath

EngineRuns ==
    rtnl = "worker" /\ state = "up" =>
      /\ engine.pc = "finish" /\ engine.rc = "ok" /\ reset_pending = {} => datapath
      /\ engine.pc = "attach" => datapath

(* UpRuns, also for a device about to be thawed.                            *)
PresentRuns ==
    rtnl \in {"free", "thaw"} /\ state = "up" /\ present /\ ~recovering /\ ~idleResume
      /\ ~(frozen /\ pm = "failed") => datapath

IInv ==
    /\ EngineLocked /\ PowerExclusive /\ Stays /\ ReallocDetached
    /\ PathInterrupts /\ OpenedRuns /\ EngineRuns /\ PresentRuns

----------------------------------------------------------------------------
(* Initially nothing runs; every action keeps the invariant.                *)
LEMMA InvInit == Init => IInv
  BY DEF Init, Off, IInv, EngineLocked, PowerExclusive, Stays, ReallocDetached, PathInterrupts, OpenedRuns, EngineRuns, PresentRuns

(* Most actions are excluded by who holds the lock, or leave the parts      *)
(* alone that a part of the invariant relates.                              *)
LEMMA InvNext == TypeOK /\ IInv /\ [Next]_vars => IInv'
<1> SUFFICES ASSUME TypeOK, IInv, [Next]_vars PROVE IInv'
  OBVIOUS
<1> USE DEF IInv, EngineLocked, PowerExclusive, Stays, ReallocDetached, PathInterrupts, OpenedRuns,
            EngineRuns, PresentRuns
<1> USE DEF stateVars, deviceVars, pathVars, pendVars, histVars, powerVars
<1>0. engine \in EngineType
  BY TypeParts
<1>1. ASSUME NEW c \in Callers, NEW method \in Asked, NEW recent \in BOOLEAN,
             Request(c, method, recent)
      PROVE  IInv'
  BY <1>1 DEF Request, NetActive, TypeOK
<1>2. ASSUME NEW c \in DOMAIN caller, CallerStep(c) PROVE IInv'
  BY <1>2 DEF CallerStep, SetPending, TestActive, Detach, QueueWork, NetActive, TypeOK
<1>3. CASE WorkStart
  BY <1>3 DEF WorkStart, NetActive, TypeOK
<1>4. CASE WorkLock
  BY <1>4 DEF WorkLock, Begin, NetActive, TypeOK
<1>5. ASSUME NEW rc \in Outcomes, ResetHardware(rc) PROVE IInv'
  BY <1>5, <1>0 DEF ResetHardware, NetActive, EngineType, TypeOK
<1>6. CASE LoadPending \/ StorePending
  <2>1. CASE LoadPending
    BY <1>0, <2>1 DEF LoadPending, NetActive, EngineType, TypeOK
  <2>2. CASE StorePending
    <3>1. engine'.pc = "up" /\ rtnl \in {"worker", "resume"}
      BY <1>0, <2>2 DEF StorePending, EngineType
    <3> QED BY <2>2, <3>1 DEF StorePending, NetActive, TypeOK
  <2> QED BY <1>6, <2>1, <2>2
<1>7. ASSUME NEW rc \in Outcomes, ResetUp(rc) PROVE IInv'
  BY <1>7, <1>0 DEF ResetUp, NetActive, NetAllocated, Up, Worse, Outcomes, EngineType, TypeOK
<1>8. CASE FinishDisabled
  BY <1>8 DEF FinishDisabled, NetActive, Off, TypeOK
<1>9. ASSUME NEW recent \in BOOLEAN, FinishRetry(recent) PROVE IInv'
  BY <1>9, <1>0 DEF FinishRetry, NetActive, EngineType, TypeOK
<1>10. CASE RetryScheduled
  BY <1>10 DEF RetryScheduled, Release, NetActive, Off, TypeOK
<1>11. CASE FinishOk
  BY <1>11, <1>0 DEF FinishOk, MayAttach, Release, NetActive, Off, EngineType, TypeOK
<1>12. CASE Attach
  BY <1>12 DEF Attach, Release, NetActive, Off, TypeOK
<1>13. CASE OpenAlloc \/ OpenStart
  BY <1>13 DEF OpenAlloc, OpenStart, Idle, NetActive, TypeOK
<1>14. CASE OpenFinish
  BY <1>14 DEF OpenFinish, NetActive, TypeOK
<1>15. CASE OpenFails \/ Close
  BY <1>15 DEF OpenFails, Close, Stopped, Idle, NetActive, TypeOK
<1>16. CASE ReallocStop
  BY <1>16 DEF ReallocStop, Idle, NetActive, TypeOK
<1>17. CASE ReallocRestart
  BY <1>17 DEF ReallocRestart, MayAttach, Up, NetActive, TypeOK
<1>18. ASSUME NEW recent \in BOOLEAN, ReallocFails(recent) PROVE IInv'
  BY <1>18 DEF ReallocFails, NetActive, TypeOK
<1>19. CASE ReallocScheduled
  BY <1>19 DEF ReallocScheduled, NetActive, TypeOK
<1>20. CASE Freeze
  BY <1>20 DEF Freeze, Up, NetActive, TypeOK
<1>21. CASE PowerOff
  BY <1>21 DEF PowerOff, NetActive, TypeOK
<1>22. ASSUME NEW rc \in {"ok", "failed"}, Resume(rc) PROVE IInv'
  BY <1>22 DEF Resume, NetActive, TypeOK
<1>23. CASE ThawFails
  BY <1>23 DEF ThawFails, NetActive, TypeOK
<1>24. CASE Thaw
  BY <1>24 DEF Thaw, MayAttach, NetActive, TypeOK
<1>25. CASE Thawed
  BY <1>25 DEF Thawed, NetActive, TypeOK
<1>26. CASE Requeue
  BY <1>26 DEF Requeue, NetActive, TypeOK
<1>27. CASE PciError
  BY <1>27 DEF PciError, Idle, NetActive, TypeOK
<1>28. CASE PciResume
  BY <1>28 DEF PciResume, Begin, NetActive, TypeOK
<1>29. CASE UNCHANGED vars
  BY <1>29 DEF vars, NetActive, TypeOK
<1> QED
  BY <1>1, <1>2, <1>3, <1>4, <1>5, <1>6, <1>7, <1>8, <1>9, <1>10, <1>11, <1>12, <1>13, <1>14,
     <1>15, <1>16, <1>17, <1>18, <1>19, <1>20, <1>21, <1>22, <1>23, <1>24, <1>25, <1>26, <1>27,
     <1>28, <1>29 DEF Next, EngineStep, PmStep

----------------------------------------------------------------------------
(* Theorems                                                                 *)

(* The inductive invariant.                                                 *)
THEOREM Invariance == Spec => [](TypeOK /\ IInv)
<1>1. Init => TypeOK /\ IInv
  BY TypeInit, InvInit
<1>2. TypeOK /\ IInv /\ [Next]_vars => TypeOK' /\ IInv'
  BY TypeNext, InvNext
<1> QED BY <1>1, <1>2, PTL DEF Spec

(* The stack sees an open device only while its datapath runs, whoever      *)
(* asked for whatever reset at whatever moment, and whatever failed.        *)
THEOREM UpAlwaysRuns == Spec => []UpRuns
<1>1. TypeOK /\ IInv => UpRuns
  BY DEF TypeOK, IInv, PresentRuns, PathInterrupts, UpRuns, Up
<1> QED BY <1>1, Invariance, PTL

(* A device that was disabled stays disabled, detached and stopped.         *)
THEOREM DisabledForGood == Spec => DisabledStays
<1>1. TypeOK /\ IInv /\ IInv' /\ [Next]_vars
        => [state = "disabled" =>
              state' = "disabled" /\ ~present' /\ ~datapath' /\ ~opened']_vars
  <2> SUFFICES ASSUME TypeOK, IInv, IInv', [Next]_vars, state = "disabled"
               PROVE  state' = "disabled"
    BY DEF IInv, Stays
  <2>1. ~opened /\ ~present /\ rtnl \in {"free", "thaw"} /\ engine.pc = "off"
    BY DEF IInv, Stays, EngineLocked
  <2>2. CASE \E c \in Callers, method \in Asked, recent \in BOOLEAN : Request(c, method, recent)
    BY <2>2 DEF Request, stateVars
  <2>3. CASE \E c \in DOMAIN caller : CallerStep(c)
    BY <2>3 DEF CallerStep, SetPending, TestActive, Detach, QueueWork, stateVars
  <2>4. CASE WorkStart \/ WorkLock
    BY <2>4 DEF WorkStart, WorkLock, stateVars
  <2>5. CASE EngineStep
    BY <2>1, <2>5 DEF EngineStep, ResetHardware, ResetUp, LoadPending, StorePending,
       FinishDisabled, FinishRetry, RetryScheduled, FinishOk, Attach
  <2>6. CASE \/ OpenAlloc \/ OpenStart \/ OpenFinish \/ OpenFails \/ Close
             \/ ReallocStop \/ ReallocRestart \/ ReallocScheduled
             \/ \E recent \in BOOLEAN : ReallocFails(recent)
    BY <2>1, <2>6 DEF OpenAlloc, OpenStart, OpenFinish, OpenFails, Close, ReallocStop,
       ReallocRestart, ReallocScheduled, ReallocFails
  <2>7. CASE Freeze \/ PowerOff \/ ThawFails \/ PmStep \/ PciError \/ PciResume
    BY <2>7 DEF Freeze, PowerOff, ThawFails, PmStep, Thaw, Thawed, Requeue, Resume, PciError,
       PciResume, stateVars
  <2>8. CASE UNCHANGED vars
    BY <2>8 DEF vars, stateVars
  <2> QED BY <2>2, <2>3, <2>4, <2>5, <2>6, <2>7, <2>8 DEF Next
<1> QED BY <1>1, Invariance, PTL DEF Spec, DisabledStays

=============================================================================
