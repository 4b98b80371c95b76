------------------------------ MODULE TcNeigh ------------------------------
(***************************************************************************)
(* Tunnel rules of the match-action engine (tc.c, mae.c): how the headers  *)
(* that the NIC puts in front of packets follow the kernel's neighbour     *)
(* table.  An encap action (one for each tunnel key, shared by rules)      *)
(* holds the header, built with the MAC address from a neighbour binder    *)
(* (one for each remote address, shared by encap actions).  The binder is  *)
(* found in a hash table by the notifier of neighbour changes, which runs  *)
(* on any CPU without tc->mutex: it stores the new state and schedules a   *)
(* work item that writes the headers again.  A rule of which a header is   *)
(* not valid sends its packets to a default destination meanwhile.         *)
(*                                                                         *)
(* All tunnel keys have the same remote address, and so share a binder.    *)
(* Of a rule only its tunnel actions count, one action set for each key;   *)
(* matches, counters and other actions are left out, and so is that the    *)
(* U25 inserts each action set as a rule of its own.  job is what the      *)
(* thread that holds tc->mutex is doing: a tc command, the work item or    *)
(* the removal of the egress device.                                       *)
(***************************************************************************)
EXTENDS Naturals, FiniteSets

CONSTANTS
    Rules,       \* flow cookies
    Keys,        \* tunnel keys, one encap action each
    Cpus,        \* CPUs on which notifiers run
    Binders,     \* allocations of struct efx_neigh_binder
    Macs,        \* addresses of the neighbour
    None,        \* no binder, no key, no rule, no valid address
    MaxChanges,  \* bound: how often the neighbour changes at most
    Settings     \* the settings to look at, see Setting

Setting ==
    [ rules  : SUBSET Rules,
      keys   : SUBSET Keys,
      cpus   : SUBSET Cpus,
      most   : 0 .. MaxChanges,   \* bound: how often the neighbour changes
      u25    : BOOLEAN,   \* efx_is_u25
      fails  : BOOLEAN,   \* MCDI requests may fail
      remove : BOOLEAN ]  \* the egress device may be unregistered

ASSUME SomeOf      == Rules # {} /\ Keys # {} /\ Cpus # {} /\ Binders # {}
ASSUME SetsFinite  == IsFiniteSet(Rules) /\ IsFiniteSet(Keys) /\ IsFiniteSet(Cpus)
ASSUME NoneIsNone  == None \notin Rules \cup Keys \cup Binders \cup Macs
ASSUME RulesNoKeys == Rules \cap Keys = {}
ASSUME ChangesNat  == MaxChanges \in Nat
ASSUME SettingsAre == Settings \subseteq Setting

Hosts == Macs \cup {None}   \* what is known of the neighbour: valid with an address, or not

VARIABLES
    setting,
    nb,       \* the neighbour entry of the kernel, read and written under n->lock
    changes,  \* how often it has changed
    egdev,    \* the egress device of the route is registered
    binder,   \* struct efx_neigh_binder, see TypeOK
    encap,    \* struct efx_tc_encap_action
    rule,     \* struct efx_tc_flow_rule
    cpu,      \* the notifier on each CPU
    job,      \* the thread that holds tc->mutex
    late,     \* history: binders in which a notifier stored what was outdated
    failed    \* history: headers and rules that were not written since a request failed

vars == <<setting, nb, changes, egdev, binder, encap, rule, cpu, job, late, failed>>

NoBinder == [at |-> "free", ref |-> 0, val |-> None, dying |-> FALSE, ready |-> FALSE,
             work |-> FALSE, running |-> FALSE, lost |-> 0]
NoEncap  == [ref |-> 0, neigh |-> None, listed |-> FALSE, hdr |-> None, hw |-> None]
NoRule   == [at |-> "none", acts |-> {}, resp |-> "none"]
Idle     == [at |-> "idle", seen |-> None, b |-> None]
NoJob    == [op |-> "none", at |-> "none", rule |-> None, todo |-> {}, key |-> None, b |-> None,
             rules |-> {}]

InTable == {b \in Binders : binder[b].at = "table"}

(* neigh->users                                                             *)
Users(b) == {k \in Keys : encap[k].neigh = b /\ encap[k].listed}

(* CPUs between rcu_read_lock and rcu_read_unlock with a pointer to b.      *)
Readers(b) == {c \in Cpus : cpu[c].b = b /\ cpu[c].at \in {"store", "ref"}}

TypeOK ==
    /\ setting \in Settings
    /\ nb \in Hosts
    /\ changes \in 0 .. MaxChanges
    /\ egdev \in BOOLEAN
    /\ binder \in [Binders -> [at    : {"free", "table", "unlinked"},
                               ref   : Nat,
                               val   : Hosts,     \* n_valid and ha
                               dying : BOOLEAN,
                               ready : BOOLEAN,   \* INIT_WORK was done
                               work  : BOOLEAN,   \* the work item is pending
                               running : BOOLEAN, \* ... has begun, and waits for the mutex
                               lost  : Nat]]      \* references of work that was never queued
    /\ encap \in [Keys -> [ref : Nat, neigh : Binders \cup {None}, listed : BOOLEAN,
                           hdr : Hosts,      \* n_valid and the address in encap_hdr
                           hw  : Hosts]]     \* the header in the NIC
    /\ rule \in [Rules -> [at : {"none", "new", "in"}, acts : SUBSET Keys,
                           resp : {"none", "own", "fallback", "list0"}]]
    /\ cpu \in [Cpus -> [at : {"idle", "notify", "look", "store", "ref", "schedule", "put", "free"},
                         seen : Hosts, b : Binders \cup {None}]]
    /\ job \in [op : {"none", "replace", "release", "work", "unregister"},
                at : {"none", "next", "bind", "route", "unroute", "read", "init", "header", "set",
                      "put", "free", "grace", "users", "unlisted", "lost", "send", "rules", "oops"},
                rule : Rules \cup {None}, todo : SUBSET Keys,
                key : Keys \cup {None}, b : Binders \cup {None},
                rules : SUBSET Rules]   \* those still to be written for key
    /\ late \subseteq Binders
    /\ failed \subseteq Keys \cup Rules

Init ==
    /\ setting \in Settings
    /\ nb \in Hosts
    /\ changes = 0
    /\ egdev = TRUE
    /\ binder = [b \in Binders |-> NoBinder]
    /\ encap = [k \in Keys |-> NoEncap]
    /\ rule = [r \in Rules |-> NoRule]
    /\ cpu = [c \in Cpus |-> Idle]
    /\ job = NoJob
    /\ late = {}
    /\ failed = {}

---------------------------------------------------------------------------
(* Headers and rules in the NIC, written under tc->mutex.                   *)

(* efx_gen_encap_header: of the header only the address of the next hop     *)
(* counts, which is zero if the neighbour is not valid.                     *)
Header(b) == binder[b].val

(* efx_tc_check_ready                                                       *)
check_ready_Any_X(e, acts) == acts # {} /\ \E k \in acts : e[k].hdr # None

check_ready(e, acts) == \A k \in acts : e[k].hdr # None

(* What efx_mae_update_rule makes the response of r.  On the U25 no action  *)
(* set lists are allocated, and the id that is written is 0.                *)
Response(e, r) ==
    IF setting.u25 THEN "list0" ELSE IF check_ready(e, rule[r].acts) THEN "own" ELSE "fallback"

(* The rules that have an action set with encap action k.                   *)
Using(k) == {r \in Rules : rule[r].at = "in" /\ k \in rule[r].acts}

(* efx_tc_update_encap returns to the work item or to the loop of the       *)
(* removal, which look at the next user.                                    *)
Returned == IF job.op = "work" THEN [job EXCEPT !.at = "put", !.key = None]
                               ELSE [job EXCEPT !.at = "users"]

(* efx_tc_update_encap, once it has built the header of job.key: the thread *)
(* sends it and sleeps until the NIC has answered.  A request that fails is *)
(* not tried again.                                                         *)
SendHeader ==
    LET k == job.key
    IN  /\ job.at = "send"
        /\ \/ /\ encap' = [encap EXCEPT ![k].hw = encap[k].hdr]
              /\ failed' = failed \ {k}
              /\ job' = [job EXCEPT !.at = "rules", !.rules = Using(k)]
           \/ /\ setting.fails
              /\ failed' = failed \cup {k}
              /\ job' = Returned
              /\ UNCHANGED encap
        /\ UNCHANGED <<setting, nb, changes, egdev, binder, rule, cpu, late>>

(* ... and then does the same for each rule that uses it.                   *)
UpdateRule(r) ==
    /\ job.at = "rules"
    /\ r \in job.rules
    /\ \/ /\ rule' = [rule EXCEPT ![r].resp = Response(encap, r)]
          /\ failed' = failed \ {r}
       \/ /\ setting.fails
          /\ failed' = failed \cup {r}
          /\ UNCHANGED rule
    /\ job' = [job EXCEPT !.rules = @ \ {r}]
    /\ UNCHANGED <<setting, nb, changes, egdev, binder, encap, cpu, late>>

RulesUpdated ==
    /\ job.at = "rules" /\ job.rules = {}
    /\ job' = Returned
    /\ UNCHANGED <<setting, nb, changes, egdev, binder, encap, rule, cpu, late, failed>>

(* The thread that holds the mutex releases a reference to binder b and     *)
(* goes on with "then", or frees b first.                                   *)
PutBinder(b, then) ==
    /\ binder' = [binder EXCEPT ![b].ref = @ - 1]
    /\ job' = IF binder[b].ref = 1 THEN [then EXCEPT !.at = "free", !.b = b] ELSE then

(* efx_free_neigh: it leaves the hash table, then no reader has a pointer   *)
(* to it any more, then it is freed.  The thread is the mutex's or a        *)
(* notifier whose reference was the last one.                               *)
Freeing(b) == \/ job.at \in {"free", "unroute"} /\ job.b = b
              \/ \E c \in Cpus : cpu[c].at = "free" /\ cpu[c].b = b

Unlink(b) ==
    /\ Freeing(b)
    /\ binder[b].at = "table"
    /\ binder' = [binder EXCEPT ![b].at = "unlinked"]
    /\ UNCHANGED <<setting, nb, changes, egdev, encap, rule, cpu, job, late, failed>>

synchronize_rcu_Never_X(b) == Readers(b) \subseteq Cpus

synchronize_rcu(b) == Readers(b) = {}

Gone(b) == [binder EXCEPT ![b] = NoBinder]

NotifierFrees(c) ==
    /\ cpu[c].at = "free"
    /\ binder[cpu[c].b].at = "unlinked"
    /\ synchronize_rcu(cpu[c].b)
    /\ binder' = Gone(cpu[c].b)
    /\ cpu' = [cpu EXCEPT ![c] = Idle]
    /\ late' = late \ {cpu[c].b}
    /\ UNCHANGED <<setting, nb, changes, egdev, encap, rule, job, failed>>

JobFrees ==
    /\ job.at = "free"
    /\ binder[job.b].at = "unlinked"
    /\ synchronize_rcu(job.b)
    /\ binder' = Gone(job.b)
    /\ job' = IF job.op = "unregister" THEN [job EXCEPT !.at = "lost"]
                                       ELSE [job EXCEPT !.at = "next", !.b = None]
    /\ late' = late \ {job.b}
    /\ UNCHANGED <<setting, nb, changes, egdev, encap, rule, cpu, failed>>

---------------------------------------------------------------------------
(* tc commands                                                              *)

(* efx_tc_flower_replace of a rule that sends packets into tunnels: one     *)
(* action set for each key.                                                 *)
Replace(r, acts) ==
    /\ job.op = "none"
    /\ rule[r].at = "none"
    /\ acts # {}
    /\ rule' = [rule EXCEPT ![r].at = "new"]
    /\ job' = [NoJob EXCEPT !.op = "replace", !.at = "next", !.rule = r, !.todo = acts]
    /\ UNCHANGED <<setting, nb, changes, egdev, binder, encap, cpu, late, failed>>

(* The error path of efx_tc_flower_replace: what the rule has is released.  *)
Undo(acts) == [job EXCEPT !.op = "release", !.at = "next", !.todo = acts]

(* efx_tc_flower_create_encap_md when there is an encap action for the key. *)
ShareEncap(k) ==
    /\ job.op = "replace" /\ job.at = "next"
    /\ k \in job.todo
    /\ encap[k].ref > 0
    /\ encap' = [encap EXCEPT ![k].ref = @ + 1]
    /\ job' = [job EXCEPT !.at = "set", !.key = k]
    /\ UNCHANGED <<setting, nb, changes, egdev, binder, rule, cpu, late, failed>>

(* efx_bind_neigh when the remote address has a binder.  The thread leaves  *)
(* the look-up with a pointer only, and a notifier may free what it points  *)
(* to.                                                                      *)
FindOld(k, b) ==
    /\ job.op = "replace" /\ job.at = "next"
    /\ k \in job.todo
    /\ encap[k].ref = 0
    /\ b \in InTable
    /\ job' = [job EXCEPT !.at = "bind", !.key = k, !.b = b]
    /\ UNCHANGED <<setting, nb, changes, egdev, binder, encap, rule, cpu, late, failed>>

(* refcount_inc_not_zero.  In freed memory the count is still zero, or is   *)
(* somebody else's by now.                                                  *)
BindOld ==
    /\ job.at = "bind"
    /\ IF binder[job.b].ref = 0
       THEN /\ \/ job' = [Undo(rule[job.rule].acts) EXCEPT !.key = None, !.b = None]
               \/ binder[job.b].at = "free" /\ job' = [job EXCEPT !.at = "oops", !.b = None]
            /\ UNCHANGED <<binder, encap>>
       ELSE /\ binder' = [binder EXCEPT ![job.b].ref = @ + 1]
            /\ encap' = [encap EXCEPT ![job.key].neigh = job.b, ![job.key].listed = TRUE]
            /\ job' = [job EXCEPT !.at = "header", !.b = None]
    /\ UNCHANGED <<setting, nb, changes, egdev, rule, cpu, late, failed>>

(* ... and when it has none: the new binder is in the hash table, with no   *)
(* reference, before it is filled.                                          *)
BindNew(k) ==
    LET unused == {b \in Binders : binder[b].at = "free"}
        b      == CHOOSE x \in unused : TRUE
    IN
    /\ job.op = "replace" /\ job.at = "next"
    /\ k \in job.todo
    /\ encap[k].ref = 0
    /\ InTable = {} /\ unused # {}
    /\ binder' = [binder EXCEPT ![b].at = "table"]
    /\ job' = [job EXCEPT !.at = "route", !.key = k, !.b = b]
    /\ UNCHANGED <<setting, nb, changes, egdev, encap, rule, cpu, late, failed>>

(* The route and the neighbour entry are found, or the binder is removed.   *)
Route ==
    /\ job.at = "route"
    /\ \/ /\ binder' = [binder EXCEPT ![job.b].ref = 1]
          /\ job' = [job EXCEPT !.at = "read"]
       \/ /\ job' = [job EXCEPT !.at = "unroute"]
          /\ UNCHANGED binder
    /\ UNCHANGED <<setting, nb, changes, egdev, encap, rule, cpu, late, failed>>

Unrouted ==
    /\ job.at = "unroute"
    /\ binder[job.b].at = "unlinked"
    /\ synchronize_rcu(job.b)
    /\ binder' = Gone(job.b)
    /\ job' = [Undo(rule[job.rule].acts) EXCEPT !.b = None]
    /\ late' = late \ {job.b}
    /\ UNCHANGED <<setting, nb, changes, egdev, encap, rule, cpu, failed>>

ReadNeighbour ==
    /\ job.at = "read"
    /\ binder' = [binder EXCEPT ![job.b].val = nb]
    /\ job' = [job EXCEPT !.at = "init"]
    /\ late' = late \ {job.b}
    /\ UNCHANGED <<setting, nb, changes, egdev, encap, rule, cpu, failed>>

InitWork ==
    /\ job.at = "init"
    /\ binder' = [binder EXCEPT ![job.b].ready = TRUE]
    /\ encap' = [encap EXCEPT ![job.key].neigh = job.b, ![job.key].listed = TRUE]
    /\ job' = [job EXCEPT !.at = "header", !.b = None]
    /\ UNCHANGED <<setting, nb, changes, egdev, rule, cpu, late, failed>>

(* efx_tc_flower_create_encap_md goes on: the header is built and allocated *)
(* in the NIC, or the neighbour is released again.                          *)
NewHeader ==
    LET k   == job.key
        b   == encap[k].neigh
        hdr == Header(b)
    IN  /\ job.at = "header"
        /\ \/ /\ encap' = [encap EXCEPT ![k].hdr = hdr, ![k].hw = hdr, ![k].ref = 1]
              /\ job' = [job EXCEPT !.at = "set"]
              /\ failed' = failed \ {k}
              /\ UNCHANGED binder
           \/ /\ setting.fails
              /\ encap' = [encap EXCEPT ![k] = NoEncap]
              /\ PutBinder(b, Undo(rule[job.rule].acts))
              /\ UNCHANGED failed
        /\ UNCHANGED <<setting, nb, changes, egdev, rule, cpu, late>>

(* The action set with the encap action is allocated, or everything undone. *)
AllocActionSet ==
    LET acts == rule[job.rule].acts \cup {job.key}
    IN  /\ job.at = "set"
        /\ rule' = [rule EXCEPT ![job.rule].acts = acts]
        /\ \/ job' = [job EXCEPT !.at = "next", !.todo = @ \ {job.key}, !.key = None]
           \/ setting.fails /\ job' = [Undo(acts) EXCEPT !.key = None]
        /\ UNCHANGED <<setting, nb, changes, egdev, binder, encap, cpu, late, failed>>

(* The rule is inserted: with its own actions only if they are ready, but   *)
(* always on the U25.                                                       *)
InsertRule ==
    LET r == job.rule
    IN  /\ job.op = "replace" /\ job.at = "next" /\ job.todo = {}
        /\ \/ /\ rule' = [rule EXCEPT ![r].at = "in",
                              ![r].resp = IF setting.u25 \/ check_ready(encap, rule[r].acts)
                                          THEN "own" ELSE "fallback"]
              /\ job' = NoJob
              /\ failed' = failed \ {r}
           \/ /\ setting.fails
              /\ job' = Undo(rule[r].acts)
              /\ UNCHANGED <<rule, failed>>
        /\ UNCHANGED <<setting, nb, changes, egdev, binder, encap, cpu, late>>

(* efx_tc_flower_destroy, efx_tc_delete_rule                                *)
Destroy(r) ==
    /\ job.op = "none"
    /\ rule[r].at = "in"
    /\ rule' = [rule EXCEPT ![r].at = "new", ![r].resp = "none"]
    /\ job' = [NoJob EXCEPT !.op = "release", !.at = "next", !.rule = r, !.todo = rule[r].acts]
    /\ UNCHANGED <<setting, nb, changes, egdev, binder, encap, cpu, late, failed>>

(* efx_tc_free_action_set, efx_tc_flower_release_encap_md and               *)
(* efx_release_neigh.  An encap action that is not in the list of the       *)
(* binder it points to is deleted from it a second time: the thread dies of *)
(* LIST_POISON, with the mutex held.                                        *)
ReleaseEncap(k) ==
    LET next == [job EXCEPT !.todo = @ \ {k}]
        last == encap[k].ref = 1
    IN  /\ job.op = "release" /\ job.at = "next"
        /\ k \in job.todo
        /\ IF last /\ encap[k].neigh # None /\ ~encap[k].listed
           THEN /\ job' = [job EXCEPT !.at = "oops", !.b = None]
                /\ UNCHANGED <<binder, encap>>
           ELSE /\ encap' = [encap EXCEPT ![k] = IF last THEN NoEncap ELSE [encap[k] EXCEPT !.ref = @ - 1]]
                /\ IF last /\ encap[k].neigh # None
                   THEN PutBinder(encap[k].neigh, next)
                   ELSE job' = next /\ UNCHANGED binder
        /\ UNCHANGED <<setting, nb, changes, egdev, rule, cpu, late, failed>>

ReleaseDone ==
    /\ job.op = "release" /\ job.at = "next" /\ job.todo = {}
    /\ rule' = [rule EXCEPT ![job.rule] = NoRule]
    /\ job' = NoJob
    /\ UNCHANGED <<setting, nb, changes, egdev, binder, encap, cpu, late, failed>>

---------------------------------------------------------------------------
(* efx_neigh_update, the work item of a binder                              *)

(* It runs on one thread at a time, and may be queued again from then on.   *)
WorkBegins(b) ==
    /\ binder[b].work /\ ~binder[b].running
    /\ ~(job.op = "work" /\ job.b = b)
    /\ binder' = [binder EXCEPT ![b].work = FALSE, ![b].running = TRUE]
    /\ UNCHANGED <<setting, nb, changes, egdev, encap, rule, cpu, job, late, failed>>

WorkLocks(b) ==
    /\ binder[b].running
    /\ job.op = "none"
    /\ binder' = [binder EXCEPT ![b].running = FALSE]
    /\ job' = [NoJob EXCEPT !.op = "work", !.at = "put", !.todo = Users(b), !.b = b]
    /\ UNCHANGED <<setting, nb, changes, egdev, encap, rule, cpu, late, failed>>

(* The header of the next encap action is built, to be sent.                *)
WorkUpdates(k) ==
    /\ job.op = "work" /\ job.at = "put"
    /\ k \in job.todo
    /\ encap' = [encap EXCEPT ![k].hdr = Header(job.b)]
    /\ job' = [job EXCEPT !.at = "send", !.todo = @ \ {k}, !.key = k]
    /\ UNCHANGED <<setting, nb, changes, egdev, binder, rule, cpu, late, failed>>

(* The reference taken in efx_neigh_event is released.                      *)
WorkPuts ==
    /\ job.op = "work" /\ job.at = "put" /\ job.todo = {}
    /\ PutBinder(job.b, [job EXCEPT !.at = "next", !.b = None])
    /\ UNCHANGED <<setting, nb, changes, egdev, encap, rule, cpu, late, failed>>

WorkDone ==
    /\ job.op = "work" /\ job.at = "next"
    /\ job' = NoJob
    /\ UNCHANGED <<setting, nb, changes, egdev, binder, encap, rule, cpu, late, failed>>

---------------------------------------------------------------------------
(* efx_tc_unregister_egdev                                                  *)

Unregister ==
    /\ setting.remove /\ egdev
    /\ job.op = "none"
    /\ egdev' = FALSE
    /\ job' = [NoJob EXCEPT !.op = "unregister", !.at = "next"]
    /\ UNCHANGED <<setting, nb, changes, binder, encap, rule, cpu, late, failed>>

(* The walk of the hash table.                                              *)
Dying(b) ==
    /\ job.op = "unregister" /\ job.at = "next"
    /\ b \in InTable /\ ~binder[b].dying
    /\ binder' = [binder EXCEPT ![b].dying = TRUE]
    /\ job' = [job EXCEPT !.at = "grace", !.b = b]
    /\ UNCHANGED <<setting, nb, changes, egdev, encap, rule, cpu, late, failed>>

Grace ==
    /\ job.at = "grace"
    /\ synchronize_rcu(job.b)
    /\ job' = [job EXCEPT !.at = "users"]
    /\ UNCHANGED <<setting, nb, changes, egdev, binder, encap, rule, cpu, late, failed>>

(* efx_tc_remove_neigh_users: an encap action leaves the list of its binder *)
(* and releases it.  The thread itself has no reference.                    *)
RemoveUser(k) ==
    /\ job.at = "users"
    /\ k \in Users(job.b)
    /\ encap' = [encap EXCEPT ![k].listed = FALSE]
    /\ PutBinder(job.b, [job EXCEPT !.at = "unlisted", !.key = k])
    /\ UNCHANGED <<setting, nb, changes, egdev, rule, cpu, late, failed>>

(* If that was not the last reference, the encap action still points to the *)
(* binder and gets its header from it - or from what is left of it, if a    *)
(* notifier has freed it meanwhile.                                         *)
UserUnlisted ==
    LET gone == binder[job.b].at = "free"
    IN  /\ job.at = "unlisted"
        /\ \/ \E hdr \in IF gone THEN Hosts ELSE {Header(job.b)} :
                  /\ encap' = [encap EXCEPT ![job.key].hdr = hdr]
                  /\ job' = [job EXCEPT !.at = "send"]
           \/ /\ gone
              /\ job' = [job EXCEPT !.at = "oops", !.b = None]
              /\ UNCHANGED encap
        /\ UNCHANGED <<setting, nb, changes, egdev, binder, rule, cpu, late, failed>>

(* If it was, the encap action has no binder any more.                      *)
UserLost ==
    /\ job.at = "lost"
    /\ encap' = [encap EXCEPT ![job.key].neigh = None, ![job.key].hdr = None]
    /\ job' = [job EXCEPT !.at = "send"]
    /\ UNCHANGED <<setting, nb, changes, egdev, binder, rule, cpu, late, failed>>

(* The list is empty.  Its head may have been freed: after the last user it *)
(* is read but not used; before the first the thread goes where it points.  *)
UsersRemoved ==
    /\ job.at = "users"
    /\ Users(job.b) = {}
    /\ \/ job' = [job EXCEPT !.at = "next", !.key = None, !.b = None]
       \/ /\ binder[job.b].at = "free" /\ job.key = None
          /\ job' = [job EXCEPT !.at = "oops", !.b = None]
    /\ UNCHANGED <<setting, nb, changes, egdev, binder, encap, rule, cpu, late, failed>>

Unregistered ==
    /\ job.op = "unregister" /\ job.at = "next"
    /\ \A b \in InTable : binder[b].dying
    /\ job' = NoJob
    /\ UNCHANGED <<setting, nb, changes, egdev, binder, encap, rule, cpu, late, failed>>

---------------------------------------------------------------------------
(* The neighbour changes, and efx_neigh_event runs on the CPU on which it   *)
(* did.                                                                     *)

Change(c, v) ==
    /\ changes < setting.most
    /\ cpu[c].at = "idle"
    /\ v # nb
    /\ nb' = v
    /\ changes' = changes + 1
    /\ cpu' = [cpu EXCEPT ![c].at = "notify"]
    /\ UNCHANGED <<setting, egdev, binder, encap, rule, job, late, failed>>

Notify(c) ==
    /\ cpu[c].at = "notify"
    /\ cpu' = [cpu EXCEPT ![c].at = "look", ![c].seen = nb]
    /\ UNCHANGED <<setting, nb, changes, egdev, binder, encap, rule, job, late, failed>>

Look(c) ==
    /\ cpu[c].at = "look"
    /\ \/ \E b \in InTable :
              /\ ~binder[b].dying
              /\ cpu' = [cpu EXCEPT ![c].at = "store", ![c].b = b]
       \/ /\ \A b \in InTable : binder[b].dying
          /\ cpu' = [cpu EXCEPT ![c] = Idle]
    /\ UNCHANGED <<setting, nb, changes, egdev, binder, encap, rule, job, late, failed>>

(* What was read under the lock of the neighbour entry is compared and      *)
(* stored under the lock of the binder.                                     *)
Store(c) ==
    LET b == cpu[c].b
    IN  /\ cpu[c].at = "store"
        /\ IF cpu[c].seen = binder[b].val
           THEN /\ cpu' = [cpu EXCEPT ![c] = Idle]
                /\ UNCHANGED binder
           ELSE /\ binder' = [binder EXCEPT ![b].val = cpu[c].seen]
                /\ cpu' = [cpu EXCEPT ![c].at = "ref"]
        /\ late' = IF cpu[c].seen = nb THEN late \ {b} ELSE late \cup {b}
        /\ UNCHANGED <<setting, nb, changes, egdev, encap, rule, job, failed>>

(* The work item is scheduled only for a neighbour that became valid.       *)
TakeRef_ValidOnly_X(c) ==
    LET b == cpu[c].b
    IN  /\ cpu[c].at = "ref"
        /\ IF binder[b].ref = 0 \/ cpu[c].seen = None
           THEN /\ cpu' = [cpu EXCEPT ![c] = Idle]
                /\ UNCHANGED binder
           ELSE /\ binder' = [binder EXCEPT ![b].ref = @ + 1]
                /\ cpu' = [cpu EXCEPT ![c].at = "schedule"]
        /\ UNCHANGED <<setting, nb, changes, egdev, encap, rule, job, late, failed>>

(* No reference is taken for the work item.                                 *)
TakeRef_None_X(c) ==
    /\ cpu[c].at = "ref"
    /\ cpu' = [cpu EXCEPT ![c] = IF binder[cpu[c].b].ref = 0 THEN Idle ELSE [@ EXCEPT !.at = "schedule"]]
    /\ UNCHANGED <<setting, nb, changes, egdev, binder, encap, rule, job, late, failed>>

(* refcount_inc_not_zero                                                    *)
TakeRef(c) ==
    LET b == cpu[c].b
    IN  /\ cpu[c].at = "ref"
        /\ IF binder[b].ref = 0
           THEN /\ cpu' = [cpu EXCEPT ![c] = Idle]
                /\ UNCHANGED binder
           ELSE /\ binder' = [binder EXCEPT ![b].ref = @ + 1]
                /\ cpu' = [cpu EXCEPT ![c].at = "schedule"]
        /\ UNCHANGED <<setting, nb, changes, egdev, encap, rule, job, late, failed>>

(* The reference stays when the item is pending already.                    *)
Schedule_KeepsReference_X(c) ==
    LET b == cpu[c].b
    IN  /\ cpu[c].at = "schedule"
        /\ binder' = IF binder[b].ready THEN [binder EXCEPT ![b].work = TRUE]
                                        ELSE [binder EXCEPT ![b].lost = @ + 1]
        /\ cpu' = [cpu EXCEPT ![c] = Idle]
        /\ UNCHANGED <<setting, nb, changes, egdev, encap, rule, job, late, failed>>

(* schedule_work.  Before INIT_WORK the item has no list head: the kernel   *)
(* warns, returns true, and the item is marked pending but never queued.    *)
Schedule(c) ==
    LET b == cpu[c].b
    IN  /\ cpu[c].at = "schedule"
        /\ IF binder[b].work \/ (~binder[b].ready /\ binder[b].lost > 0)
           THEN /\ cpu' = [cpu EXCEPT ![c].at = "put"]
                /\ UNCHANGED binder
           ELSE /\ binder' = IF binder[b].ready THEN [binder EXCEPT ![b].work = TRUE]
                                                ELSE [binder EXCEPT ![b].lost = @ + 1]
                /\ cpu' = [cpu EXCEPT ![c] = Idle]
        /\ UNCHANGED <<setting, nb, changes, egdev, encap, rule, job, late, failed>>

(* The item was pending already: the reference is released.                 *)
PutRef(c) ==
    LET b == cpu[c].b
    IN  /\ cpu[c].at = "put"
        /\ binder' = [binder EXCEPT ![b].ref = @ - 1]
        /\ cpu' = [cpu EXCEPT ![c] = IF binder[b].ref = 1 THEN [@ EXCEPT !.at = "free"] ELSE Idle]
        /\ UNCHANGED <<setting, nb, changes, egdev, encap, rule, job, late, failed>>

---------------------------------------------------------------------------
Notifier(c) == \/ Notify(c) \/ Look(c) \/ Store(c) \/ TakeRef(c)
               \/ Schedule(c) \/ PutRef(c) \/ NotifierFrees(c)

(* What goes on by itself once the mutex is held.                           *)
JobStep ==
    \/ \E k \in Keys :
           \/ ShareEncap(k) \/ BindNew(k) \/ ReleaseEncap(k) \/ WorkUpdates(k) \/ RemoveUser(k)
           \/ \E b \in Binders : FindOld(k, b)
    \/ BindOld \/ Route \/ Unrouted \/ ReadNeighbour \/ InitWork \/ NewHeader
    \/ AllocActionSet \/ InsertRule \/ ReleaseDone
    \/ JobFrees \/ WorkPuts \/ WorkDone
    \/ SendHeader \/ RulesUpdated \/ \E r \in Rules : UpdateRule(r)
    \/ \E b \in Binders : Dying(b)
    \/ Grace \/ UserUnlisted \/ UserLost \/ UsersRemoved \/ Unregistered

Next ==
    \/ \E r \in setting.rules : Destroy(r) \/ \E acts \in SUBSET setting.keys : Replace(r, acts)
    \/ Unregister
    \/ JobStep
    \/ \E b \in Binders : WorkBegins(b) \/ WorkLocks(b) \/ Unlink(b)
    \/ \E c \in Cpus : Notifier(c)
    \/ \E c \in setting.cpus, v \in Hosts : Change(c, v)

Spec == Init /\ [][Next]_vars

(* A thread that holds the mutex goes on, the notifiers do, and whoever     *)
(* wants the mutex gets it in turn.                                         *)
FairSpec ==
    /\ Spec
    /\ WF_vars(JobStep)
    /\ \A b \in Binders : WF_vars(Unlink(b)) /\ WF_vars(WorkBegins(b)) /\ SF_vars(WorkLocks(b))
    /\ \A c \in Cpus : WF_vars(Notifier(c))

---------------------------------------------------------------------------
(* Properties                                                               *)

(* The thread that holds the mutex has a pointer to a binder and nothing    *)
(* that keeps it: after the look-up, and while it removes the users of one  *)
(* from its list, unless it frees that one itself.                          *)
Unheld == \/ job.at = "bind"
          \/ job.op = "unregister" /\ job.at # "free"

(* Nobody but a thread that is Unheld has a pointer to a binder that was    *)
(* freed (efx_free_neigh, 442), whoever releases the last reference: no     *)
(* notifier, work item or listed encap action, nor the thread that holds    *)
(* the mutex.  (An encap action that is off its list keeps its pointer.)    *)
InUseAllocated ==
    /\ \A c \in Cpus : cpu[c].b # None => binder[cpu[c].b].at # "free"
    /\ \A b \in Binders : binder[b].work \/ binder[b].running => binder[b].at # "free"
    /\ \A k \in Keys : encap[k].listed => binder[encap[k].neigh].at # "free"
    /\ job.b # None /\ ~Unheld => binder[job.b].at # "free"

(* There is one reference to a binder for each encap action in its list,    *)
(* for a pending or running work item, and for a notifier that schedules it *)
(* - and one too many after work was scheduled before INIT_WORK.  There is  *)
(* one to an encap action for each rule that uses it.                       *)
Working(b) == job.op = "work" /\ job.at \in {"put", "send", "rules"} /\ job.b = b

Flag(p) == IF p THEN 1 ELSE 0

RefsExact ==
    /\ \A b \in Binders :
           binder[b].ref =
               Cardinality(Users(b)) + binder[b].lost
               + Flag(binder[b].work) + Flag(binder[b].running) + Flag(Working(b))
               + Cardinality({c \in Cpus : cpu[c].b = b /\ cpu[c].at \in {"schedule", "put"}})
               + Flag(job.at \in {"read", "init"} /\ job.b = b)
    /\ \A k \in Keys :
           encap[k].ref =
               Cardinality({r \in Rules : rule[r].at # "none" /\ k \in rule[r].acts
                                           /\ ~(job.op = "release" /\ job.rule = r /\ k \notin job.todo)})
               + Flag(job.at = "set" /\ job.key = k)

(* A binder knows the state of the neighbour, unless a notifier is about to *)
(* tell it, or one was overtaken by another and told it an older state.     *)
BinderFollows ==
    \A b \in InTable :
        \/ ~binder[b].ready \/ binder[b].dying \/ b \in late
        \/ \E c \in Cpus : cpu[c].at \in {"notify", "look", "store"}
        \/ binder[b].val = nb

(* Someone will write the headers that use binder b.                        *)
Due(b) ==
    \/ binder[b].work \/ binder[b].running
    \/ \E c \in Cpus : cpu[c].b = b /\ cpu[c].at \in {"ref", "schedule"}

(* The header of encap action k has been built and is about to be written.  *)
Sending(k) == job.at = "send" /\ job.key = k

(* The header of an encap action in the NIC is that of its binder, unless   *)
(* it is going to be written, writing it failed, or work was lost.          *)
HeaderFollows(k) ==
    \/ k \in failed
    \/ Sending(k)
    \/ LET b == encap[k].neigh
       IN  \/ binder[b].lost > 0
           \/ Due(b)
           \/ Working(b) /\ k \in job.todo
           \/ encap[k].hw = binder[b].val

(* A rule has its own actions exactly if their headers are valid, whatever  *)
(* other rules share them; unless a request failed, or the thread that has  *)
(* written a header has yet to come to the rule.  (Not on the U25.)         *)
RuleFollows(r) ==
    \/ setting.u25
    \/ r \in failed
    \/ job.at = "rules" /\ r \in job.rules
    \/ \E k \in rule[r].acts : k \in failed
    \/ rule[r].resp = IF \A k \in rule[r].acts : encap[k].hw # None THEN "own" ELSE "fallback"

(* What the NIC does follows the neighbour table, by way of the binders: a  *)
(* binder the neighbour, a header its binder, a rule the headers; and an    *)
(* encap action that has lost its binder has no valid header.               *)
NicFollows ==
    /\ BinderFollows
    /\ \A k \in Keys : encap[k].ref > 0 /\ encap[k].listed => HeaderFollows(k)
    /\ \A k \in Keys : encap[k].ref > 0 /\ encap[k].neigh = None /\ k \notin failed
                         => encap[k].hw = None \/ Sending(k)
    /\ \A r \in Rules : rule[r].at = "in" => RuleFollows(r)

(* A header in the NIC that differs from its binder is written in the end:  *)
(* no notification is lost between notifiers, work and commands - unless    *)
(* the thread that holds the mutex has died.                                *)
Behind(k) ==
    /\ encap[k].listed /\ encap[k].ref > 0
    /\ LET b == encap[k].neigh IN encap[k].hw # binder[b].val /\ binder[b].lost = 0
    /\ k \notin failed
    /\ job.at # "oops"

Followed == \A k \in Keys : Behind(k) ~> ~Behind(k)
===========================================================================
