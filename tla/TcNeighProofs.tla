-------------------------- MODULE TcNeighProofs --------------------------
(***************************************************************************)
(* Proofs about TcNeigh, for any finite sets of rules, tunnels and CPUs,   *)
(* any binders, any number of changes of the neighbour and any settings.   *)
(***************************************************************************)
EXTENDS TcNeigh, Integers, FiniteSetTheorems, TLAPS

---------------------------------------------------------------------------
(* The inductive invariant                                                  *)

(* TypeOK, by variable.                                                     *)
BinderType == [at : {"free", "table", "unlinked"}, ref : Nat, val : Hosts, dying : BOOLEAN,
               ready : BOOLEAN, work : BOOLEAN, running : BOOLEAN, lost : Nat]
EncapType  == [ref : Nat, neigh : Binders \cup {None}, listed : BOOLEAN, hdr : Hosts, hw : Hosts]
RuleType   == [at : {"none", "new", "in"}, acts : SUBSET Keys,
               resp : {"none", "own", "fallback", "list0"}]
CpuType    == [at : {"idle", "notify", "look", "store", "ref", "schedule", "put", "free"},
               seen : Hosts, b : Binders \cup {None}]
JobType    == [op : {"none", "replace", "release", "work", "unregister"},
               at : {"none", "next", "bind", "route", "unroute", "read", "init", "header", "set",
                     "put", "free", "grace", "users", "unlisted", "lost", "send", "rules", "oops"},
               rule : Rules \cup {None}, todo : SUBSET Keys,
               key : Keys \cup {None}, b : Binders \cup {None},
               rules : SUBSET Rules]

Outside    == setting \in Settings /\ nb \in Hosts /\ changes \in 0 .. MaxChanges /\ egdev \in BOOLEAN
BinderOf   == binder \in [Binders -> BinderType]
EncapOf    == encap \in [Keys -> EncapType]
RuleOf     == rule \in [Rules -> RuleType]
CpuOf      == cpu \in [Cpus -> CpuType]
JobOf      == job \in JobType
History    == late \subseteq Binders /\ failed \subseteq Keys \cup Rules

Types == Outside /\ BinderOf /\ EncapOf /\ RuleOf /\ CpuOf /\ JobOf /\ History

(* How far the thread that holds the mutex can be with what it does, and    *)
(* what it has in hand then.                                                *)
Binding == {"route", "unroute", "read", "init"}   \* it has a new binder

Holds ==
    /\ job.op = "none" => job.at = "none"
    /\ job.op = "replace" =>
          /\ job.at \in Binding \cup {"next", "bind", "header", "set", "oops"}
          /\ job.rule \in Rules /\ rule[job.rule].at = "new"
          /\ job.todo \cap rule[job.rule].acts = {}
          /\ job.at # "next" => job.key \in job.todo
    /\ job.op = "release" =>
          /\ job.at \in {"next", "free", "oops"}
          /\ job.rule \in Rules /\ rule[job.rule].at = "new"
          /\ job.todo \subseteq rule[job.rule].acts
    /\ job.op = "work" =>
          /\ job.at \in {"put", "send", "rules", "next", "free"}
          /\ job.at \in {"next", "free"} => job.todo = {}
    /\ job.op = "unregister" =>
          /\ job.at \in {"next", "grace", "users", "unlisted", "free", "lost", "send", "rules", "oops"}
          /\ job.at = "free" => job.key \in Keys
    /\ job.at \in {"unlisted", "lost", "send", "rules"} => job.key \in Keys
    /\ job.at \in {"none", "next", "header", "set", "oops"} <=> job.b = None

RulesEmpty == \A r \in Rules : rule[r].at = "none" => rule[r].acts = {}

JobOK == Holds /\ RulesEmpty

(* An encap action that is not yet or no longer referred to is in no list.  *)
EncapOK ==
    /\ \A k \in Keys : encap[k].listed => encap[k].neigh \in Binders
    /\ \A k \in Keys : encap[k].ref = 0 /\ encap[k].listed => job.at = "header" /\ job.key = k
    /\ job.at \in Binding \cup {"bind", "header"} => encap[job.key].ref = 0
    /\ job.at = "header" => encap[job.key].listed
    /\ job.op = "unregister" /\ job.at \in {"free", "unlisted", "lost", "send"}
         => ~encap[job.key].listed

CpuOK == \A c \in Cpus : cpu[c].b = None <=> cpu[c].at \in {"idle", "notify", "look"}

(* Whoever frees a binder, or has not filled it yet, is the only one that   *)
(* does, and it has no reference.                                           *)
FreeOK ==
    /\ \A b \in Binders : binder[b].at = "free" => binder[b] = NoBinder
    /\ \A c \in Cpus : cpu[c].at = "free" => binder[cpu[c].b].ref = 0
    /\ job.at \in {"free", "route", "unroute"} =>
          /\ binder[job.b].ref = 0 /\ binder[job.b].at # "free"
          /\ \A c \in Cpus : cpu[c].at = "free" => cpu[c].b # job.b
    /\ \A c, d \in Cpus : cpu[c].at = "free" /\ cpu[d].at = "free" /\ c # d => cpu[c].b # cpu[d].b
    /\ \A c \in Cpus : cpu[c].b # None => binder[cpu[c].b].at # "free"

(* RefsExact, by its terms.                                                 *)
Waiting(b) == {c \in Cpus : cpu[c].b = b /\ cpu[c].at \in {"schedule", "put"}}
Filling(b) == job.at \in {"read", "init"} /\ job.b = b
RefSum(b)  == Cardinality(Users(b)) + binder[b].lost
              + Flag(binder[b].work) + Flag(binder[b].running) + Flag(Working(b))
              + Cardinality(Waiting(b)) + Flag(Filling(b))
BinderRefs == \A b \in Binders : binder[b].ref = RefSum(b)

UsedBy(k)  == {r \in Rules : rule[r].at # "none" /\ k \in rule[r].acts
                               /\ ~(job.op = "release" /\ job.rule = r /\ k \notin job.todo)}
Taken(k) == job.at = "set" /\ job.key = k
EncapRefs  == \A k \in Keys : encap[k].ref = Cardinality(UsedBy(k)) + Flag(Taken(k))

IInv == Types /\ JobOK /\ EncapOK /\ CpuOK /\ FreeOK /\ BinderRefs /\ EncapRefs

---------------------------------------------------------------------------
(* Types                                                                    *)

LEMMA HostsNone == None \in Hosts
BY DEF Hosts

(* NoBinder, NoEncap, NoRule, Idle and NoJob are of their types.            *)
LEMMA Empty ==
    /\ NoBinder \in BinderType /\ NoEncap \in EncapType /\ NoRule \in RuleType
    /\ Idle \in CpuType /\ NoJob \in JobType
BY HostsNone DEF NoBinder, NoEncap, NoRule, Idle, NoJob,
                 BinderType, EncapType, RuleType, CpuType, JobType

(* What the steps of an update leave alone: of the encap actions all but    *)
(* their headers, of the rules all but the response.                        *)
SameUsers == \A k \in Keys : /\ encap'[k].ref = encap[k].ref /\ encap'[k].neigh = encap[k].neigh
                             /\ encap'[k].listed = encap[k].listed

SameActs == \A r \in Rules : rule'[r].at = rule[r].at /\ rule'[r].acts = rule[r].acts

LEMMA Built ==
    ASSUME Types, NEW k \in Keys, NEW hdr \in Hosts, encap' = [encap EXCEPT ![k].hdr = hdr]
    PROVE  EncapOf' /\ SameUsers
BY DEF Types, EncapOf, EncapType, SameUsers

LEMMA Updates ==
    ASSUME Types, Holds
    PROVE  /\ (\E k \in Keys : WorkUpdates(k)) \/ SendHeader \/ UserUnlisted => EncapOf' /\ SameUsers
           /\ \A r \in Rules : UpdateRule(r) => RuleOf' /\ SameActs
  <1>1. None \notin Binders /\ \A b \in Binders : Header(b) \in Hosts
    BY NoneIsNone DEF Types, BinderOf, BinderType, Header
  <1>2. ASSUME NEW k \in Keys, WorkUpdates(k)  PROVE EncapOf' /\ SameUsers
    <2>1. job.b \in Binders
      BY <1>1, <1>2 DEF WorkUpdates, Holds, Types, JobOf, JobType
    <2> QED  BY <1>1, <1>2, <2>1, Built DEF WorkUpdates
  <1>3. ASSUME SendHeader  PROVE EncapOf' /\ SameUsers
    <2>1. CASE UNCHANGED encap
      BY <2>1 DEF Types, EncapOf, SameUsers
    <2>2. CASE encap' = [encap EXCEPT ![job.key].hw = encap[job.key].hdr]
      <3>1. job.key \in Keys
        BY <1>3 DEF SendHeader, Holds
      <3> QED  BY <2>2, <3>1 DEF Types, EncapOf, EncapType, SameUsers
    <2> QED  BY <1>3, <2>1, <2>2 DEF SendHeader
  <1>4. ASSUME UserUnlisted  PROVE EncapOf' /\ SameUsers
    <2>1. job.key \in Keys /\ job.b \in Binders
      BY <1>1, <1>4 DEF UserUnlisted, Holds, Types, JobOf, JobType
    <2>2. CASE UNCHANGED encap
      BY <2>2 DEF Types, EncapOf, SameUsers
    <2>3. CASE \E hdr \in Hosts : encap' = [encap EXCEPT ![job.key].hdr = hdr]
      BY <2>1, <2>3, Built
    <2>4. (IF binder[job.b].at = "free" THEN Hosts ELSE {Header(job.b)}) \subseteq Hosts
      BY <1>1, <2>1
    <2>5. \/ UNCHANGED encap
          \/ \E hdr \in (IF binder[job.b].at = "free" THEN Hosts ELSE {Header(job.b)}) :
                encap' = [encap EXCEPT ![job.key].hdr = hdr]
      BY <1>4, Zenon DEF UserUnlisted
    <2> QED  BY <2>2, <2>3, <2>4, <2>5, Zenon
  <1>5. ASSUME NEW r \in Rules, UpdateRule(r)  PROVE RuleOf' /\ SameActs
    <2>1. Response(encap, r) \in {"own", "fallback", "list0"}
      BY DEF Response
    <2>2. UNCHANGED rule \/ \E v \in {"own", "fallback", "list0"} : rule' = [rule EXCEPT ![r].resp = v]
      BY <1>5, <2>1, Zenon DEF UpdateRule
    <2>3. ASSUME NEW v \in {"own", "fallback", "list0"}, rule' = [rule EXCEPT ![r].resp = v]
          PROVE  RuleOf' /\ SameActs
      BY <2>3 DEF Types, RuleOf, RuleType, SameActs
    <2>4. CASE UNCHANGED rule
      BY <2>4 DEF Types, RuleOf, SameActs
    <2> QED  BY <2>2, <2>3, <2>4
  <1>6. \A r \in Rules : UpdateRule(r) => RuleOf' /\ SameActs
    BY <1>5
  <1>7. (\E k \in Keys : WorkUpdates(k)) \/ SendHeader \/ UserUnlisted => EncapOf' /\ SameUsers
    BY <1>2, <1>3, <1>4
  <1> QED  BY <1>6, <1>7

(* How the thread that holds the mutex goes through an update.              *)
LEMMA UpdateJob ==
    ASSUME JobOf, Holds
    PROVE  /\ \A k \in Keys : WorkUpdates(k) =>
                 /\ job.op = "work" /\ job'.op = "work" /\ job.at = "put" /\ job'.at = "send"
                 /\ job'.key = k /\ job'.todo = job.todo \ {k} /\ k \in job.todo
                 /\ job.b \in Binders /\ job'.b = job.b /\ job'.rules = job.rules
           /\ SendHeader \/ RulesUpdated =>
                 /\ job.op \in {"work", "unregister"} /\ job.at \in {"send", "rules"}
                 /\ job.key \in Keys /\ job.b \in Binders
                 /\ job'.op = job.op /\ job'.todo = job.todo /\ job'.b = job.b
                 /\ \/ job.at = "send" /\ job'.at = "rules" /\ job'.key = job.key
                    \/ job.op = "work" /\ job'.at = "put"
                    \/ job.op = "unregister" /\ job'.at = "users"
           /\ \A r \in Rules : UpdateRule(r) =>
                 /\ job.op \in {"work", "unregister"} /\ job.at = "rules" /\ job'.at = "rules"
                 /\ job.key \in Keys /\ job.b \in Binders
                 /\ job'.op = job.op /\ job'.todo = job.todo /\ job'.b = job.b
                 /\ job'.key = job.key /\ job'.rules = job.rules \ {r}
           /\ UserUnlisted \/ UserLost =>
                 /\ job.op = "unregister" /\ job.at \in {"unlisted", "lost"}
                 /\ job.key \in Keys /\ job.b \in Binders
                 /\ job'.op = job.op /\ job'.todo = job.todo /\ job'.key = job.key
                 /\ \/ job'.at = "send" /\ job'.b = job.b
                    \/ job'.at = "oops" /\ job'.b = None /\ UNCHANGED encap
  <1>1. None \notin Binders
    BY NoneIsNone
  <1>2. ASSUME NEW k \in Keys, WorkUpdates(k)
        PROVE  /\ job.op = "work" /\ job'.op = "work" /\ job.at = "put" /\ job'.at = "send"
               /\ job'.key = k /\ job'.todo = job.todo \ {k} /\ k \in job.todo
               /\ job.b \in Binders /\ job'.b = job.b /\ job'.rules = job.rules
    BY <1>1, <1>2 DEF WorkUpdates, JobOf, JobType, Holds
  <1>3. ASSUME SendHeader \/ RulesUpdated
        PROVE  /\ job.op \in {"work", "unregister"} /\ job.at \in {"send", "rules"}
               /\ job.key \in Keys /\ job.b \in Binders
               /\ job'.op = job.op /\ job'.todo = job.todo /\ job'.b = job.b
               /\ \/ job.at = "send" /\ job'.at = "rules" /\ job'.key = job.key
                  \/ job.op = "work" /\ job'.at = "put"
                  \/ job.op = "unregister" /\ job'.at = "users"
    <2>1. /\ job.op \in {"work", "unregister"} /\ job.at \in {"send", "rules"}
          /\ job.key \in Keys /\ job.b \in Binders
      BY <1>1, <1>3 DEF SendHeader, RulesUpdated, JobOf, JobType, Holds, Binding
    <2>2. \/ job.at = "send" /\ job' = [job EXCEPT !.at = "rules", !.rules = Using(job.key)]
          \/ job' = Returned
      BY <1>3 DEF SendHeader, RulesUpdated
    <2>3. CASE job.at = "send" /\ job' = [job EXCEPT !.at = "rules", !.rules = Using(job.key)]
      BY <2>1, <2>3 DEF JobOf, JobType
    <2>4. CASE job' = Returned
      BY <2>1, <2>4 DEF Returned, JobOf, JobType
    <2> QED  BY <2>1, <2>2, <2>3, <2>4
  <1>4. ASSUME NEW r \in Rules, UpdateRule(r)
        PROVE  /\ job.op \in {"work", "unregister"} /\ job.at = "rules" /\ job'.at = "rules"
               /\ job.key \in Keys /\ job.b \in Binders
               /\ job'.op = job.op /\ job'.todo = job.todo /\ job'.b = job.b
               /\ job'.key = job.key /\ job'.rules = job.rules \ {r}
    BY <1>1, <1>4 DEF UpdateRule, JobOf, JobType, Holds, Binding
  <1>5. ASSUME UserUnlisted \/ UserLost
        PROVE  /\ job.op = "unregister" /\ job.at \in {"unlisted", "lost"}
               /\ job.key \in Keys /\ job.b \in Binders
               /\ job'.op = job.op /\ job'.todo = job.todo /\ job'.key = job.key
               /\ \/ job'.at = "send" /\ job'.b = job.b
                  \/ job'.at = "oops" /\ job'.b = None /\ UNCHANGED encap
    <2>1. /\ job.op = "unregister" /\ job.at \in {"unlisted", "lost"}
          /\ job.key \in Keys /\ job.b \in Binders
      BY <1>1, <1>5 DEF UserUnlisted, UserLost, JobOf, JobType, Holds, Binding
    <2>2. \/ job' = [job EXCEPT !.at = "send"]
          \/ job' = [job EXCEPT !.at = "oops", !.b = None] /\ UNCHANGED encap
      BY <1>5 DEF UserUnlisted, UserLost
    <2> QED  BY <2>1, <2>2 DEF JobOf, JobType
  <1> QED  BY <1>2, <1>3, <1>4, <1>5, Zenon

(* What it has in hand, by how far it is.                                   *)
LEMMA InHandAt ==
    ASSUME JobOf, Holds
    PROVE  /\ job.at \notin {"none", "next", "header", "set", "oops"} => job.b \in Binders
           /\ job.at \in Binding \cup {"bind", "header", "set"} => job.op = "replace" /\ job.key \in Keys
           /\ job.at = "put" => job.op = "work"
           /\ job.at \in {"grace", "users", "unlisted", "lost"} => job.op = "unregister"
           /\ job.at \in {"send", "rules"} => job.op \in {"work", "unregister"}
  <1>1. job.at \notin {"none", "next", "header", "set", "oops"} => job.b \in Binders
    BY DEF Holds, JobOf, JobType
  <1>2. job.at \in Binding \cup {"bind", "header", "set"} => job.op = "replace"
    BY DEF Holds, JobOf, JobType, Binding
  <1>3. job.at \in Binding \cup {"bind", "header", "set"} => job.key \in Keys
    BY <1>2 DEF Holds, JobOf, JobType, Binding
  <1>4. job.at = "put" => job.op = "work"
    BY DEF Holds, JobOf, JobType, Binding
  <1>5. job.at \in {"grace", "users", "unlisted", "lost"} => job.op = "unregister"
    BY DEF Holds, JobOf, JobType, Binding
  <1>6. job.at \in {"send", "rules"} => job.op \in {"work", "unregister"}
    BY DEF Holds, JobOf, JobType, Binding
  <1> QED  BY <1>1, <1>2, <1>3, <1>4, <1>5, <1>6, Zenon

(* The steps, one by one.                                                   *)
StepOf ==
    \/ \E r \in Rules : Destroy(r) \/ \E acts \in SUBSET Keys : Replace(r, acts)
    \/ \E k \in Keys :
           \/ ShareEncap(k) \/ BindNew(k) \/ ReleaseEncap(k) \/ WorkUpdates(k) \/ RemoveUser(k)
           \/ \E b \in Binders : FindOld(k, b)
    \/ BindOld \/ Route \/ Unrouted \/ ReadNeighbour \/ InitWork \/ NewHeader
    \/ AllocActionSet \/ InsertRule \/ ReleaseDone
    \/ JobFrees \/ WorkPuts \/ WorkDone
    \/ SendHeader \/ RulesUpdated \/ \E r \in Rules : UpdateRule(r)
    \/ \E b \in Binders : Dying(b) \/ WorkBegins(b) \/ WorkLocks(b) \/ Unlink(b)
    \/ Unregister \/ Grace \/ UserUnlisted \/ UserLost \/ UsersRemoved \/ Unregistered
    \/ \E c \in Cpus : Notifier(c) \/ \E v \in Hosts : Change(c, v)

LEMMA Steps ==
    ASSUME Types, Next
    PROVE  StepOf
  <1>1. setting.rules \subseteq Rules /\ setting.keys \subseteq Keys /\ setting.cpus \subseteq Cpus
    BY SettingsAre DEF Types, Outside, Setting
  <1>2. SUBSET setting.keys \subseteq SUBSET Keys
    BY <1>1
  <1> QED  BY <1>1, <1>2, Zenon DEF Next, JobStep, StepOf

---------------------------------------------------------------------------
(* References                                                               *)

LEMMA Finite ==
    ASSUME NEW b \in Binders, NEW k \in Keys
    PROVE  /\ IsFiniteSet(Users(b)) /\ Cardinality(Users(b)) \in Nat
           /\ IsFiniteSet(Waiting(b)) /\ Cardinality(Waiting(b)) \in Nat
           /\ IsFiniteSet(UsedBy(k)) /\ Cardinality(UsedBy(k)) \in Nat
  <1>1. Users(b) \in SUBSET Keys /\ Waiting(b) \in SUBSET Cpus /\ UsedBy(k) \in SUBSET Rules
    BY DEF Users, Waiting, UsedBy
  <1> QED  BY <1>1, SetsFinite, FS_Subset, FS_CardinalityType, Zenon

(* A binder without a reference is not used by anyone.                      *)
LEMMA Unreferenced ==
    ASSUME Types, BinderRefs, NEW b \in Binders, binder[b].ref = 0
    PROVE  /\ Users(b) = {} /\ Waiting(b) = {} /\ binder[b].lost = 0
           /\ ~binder[b].work /\ ~binder[b].running /\ ~Working(b) /\ ~Filling(b)
  <1> DEFINE u == Cardinality(Users(b))
             w == Cardinality(Waiting(b))
  <1>1. u \in Nat /\ w \in Nat /\ (u = 0 => Users(b) = {}) /\ (w = 0 => Waiting(b) = {})
    BY Finite, SomeOf, FS_EmptySet
  <1>2. binder[b].ref = u + binder[b].lost
               + Flag(binder[b].work) + Flag(binder[b].running) + Flag(Working(b))
               + w + Flag(Filling(b))
    BY DEF BinderRefs, RefSum
  <1>3. binder[b].lost \in Nat
    BY DEF Types, BinderOf, BinderType
  <1> HIDE DEF u, w
  <1>4. /\ Flag(binder[b].work) \in {0, 1} /\ (binder[b].work => Flag(binder[b].work) = 1)
        /\ Flag(binder[b].running) \in {0, 1} /\ (binder[b].running => Flag(binder[b].running) = 1)
        /\ Flag(Working(b)) \in {0, 1} /\ (Working(b) => Flag(Working(b)) = 1)
        /\ Flag(Filling(b)) \in {0, 1} /\ (Filling(b) => Flag(Filling(b)) = 1)
    BY Zenon DEF Flag
  <1>5. u = 0 /\ w = 0 /\ binder[b].lost = 0
        /\ Flag(binder[b].work) = 0 /\ Flag(binder[b].running) = 0
        /\ Flag(Working(b)) = 0 /\ Flag(Filling(b)) = 0
    <2> DEFINE l == binder[b].lost  f1 == Flag(binder[b].work)  f2 == Flag(binder[b].running)
               f3 == Flag(Working(b))  f4 == Flag(Filling(b))
    <2>1. l \in Nat /\ f1 \in Nat /\ f2 \in Nat /\ f3 \in Nat /\ f4 \in Nat
      BY <1>3, <1>4
    <2>2. u + l + f1 + f2 + f3 + w + f4 = 0
      BY <1>2
    <2> HIDE DEF l, f1, f2, f3, f4
    <2>3. u = 0 /\ w = 0 /\ l = 0 /\ f1 = 0 /\ f2 = 0 /\ f3 = 0 /\ f4 = 0
      BY <1>1, <2>1, <2>2
    <2> QED  BY <2>3 DEF l, f1, f2, f3, f4
  <1> QED  BY <1>1, <1>4, <1>5

(* An encap action without a reference is in the actions of no rule.        *)
LEMMA Unused ==
    ASSUME Types, EncapRefs, NEW k \in Keys, encap[k].ref = 0
    PROVE  UsedBy(k) = {} /\ ~Taken(k)
  <1>1. Cardinality(UsedBy(k)) \in Nat /\ (Cardinality(UsedBy(k)) = 0 => UsedBy(k) = {})
    BY Finite, SomeOf, FS_EmptySet
  <1>2. encap[k].ref = Cardinality(UsedBy(k)) + Flag(Taken(k))
    BY DEF EncapRefs
  <1> QED  BY <1>1, <1>2 DEF Flag

(* So what is released is there.                                            *)
LEMMA Referenced ==
    ASSUME IInv
    PROVE  /\ \A b \in Binders : /\ binder[b].ref \in Nat
                                 /\ \/ Users(b) # {} \/ Waiting(b) # {} \/ Working(b) \/ Filling(b)
                                    \/ binder[b].work \/ binder[b].running
                                    => binder[b].ref >= 1
           /\ \A k \in Keys : /\ encap[k].ref \in Nat
                              /\ UsedBy(k) # {} \/ Taken(k) => encap[k].ref >= 1
           /\ \A k \in Keys : job.op = "release" /\ k \in job.todo => UsedBy(k) # {}
  <1>1. ASSUME NEW b \in Binders
        PROVE  /\ binder[b].ref \in Nat
               /\ \/ Users(b) # {} \/ Waiting(b) # {} \/ Working(b) \/ Filling(b)
                  \/ binder[b].work \/ binder[b].running
                  => binder[b].ref >= 1
    <2>1. binder[b].ref \in Nat
      BY DEF IInv, Types, BinderOf, BinderType
    <2> QED  BY <2>1, Unreferenced DEF IInv
  <1>2. ASSUME NEW k \in Keys
        PROVE  encap[k].ref \in Nat /\ (UsedBy(k) # {} \/ Taken(k) => encap[k].ref >= 1)
    <2>1. encap[k].ref \in Nat
      BY DEF IInv, Types, EncapOf, EncapType
    <2> QED  BY <2>1, Unused DEF IInv
  <1>3. ASSUME NEW k \in Keys, job.op = "release", k \in job.todo
        PROVE  UsedBy(k) # {}
    <2>1. job.rule \in Rules /\ rule[job.rule].at = "new" /\ k \in rule[job.rule].acts
      BY <1>3 DEF IInv, JobOK, Holds
    <2> QED  BY <1>3, <2>1 DEF UsedBy
  <1> QED  BY <1>1, <1>2, <1>3

---------------------------------------------------------------------------
(* Every step keeps the types.                                              *)

LEMMA Undone ==
    ASSUME JobOf, NEW acts \in SUBSET Keys
    PROVE  Undo(acts) \in JobType
BY DEF Undo, JobOf, JobType

LEMMA PutType ==
    ASSUME BinderOf, NEW b \in Binders, binder[b].ref >= 1, NEW then \in JobType, PutBinder(b, then)
    PROVE  BinderOf' /\ JobOf'
  <1>1. binder[b].ref \in Nat
    BY DEF BinderOf, BinderType
  <1>2. BinderOf'
    BY <1>1 DEF PutBinder, BinderOf, BinderType
  <1>3. [then EXCEPT !.at = "free", !.b = b] \in JobType
    BY DEF JobType
  <1> QED  BY <1>2, <1>3 DEF PutBinder, JobOf

LEMMA ReturnType ==
    ASSUME JobOf
    PROVE  Returned \in JobType
BY HostsNone DEF Returned, JobOf, JobType

LEMMA TypesStep ==
    ASSUME IInv, [Next]_vars
    PROVE  Types'
  <1> USE Empty, HostsNone
  <1>0. Types
    BY DEF IInv
  <1>1. ASSUME NEW r \in Rules, Destroy(r)  PROVE Types'
    <2>1. RuleOf'
      BY <1>0, <1>1 DEF Types, Destroy, RuleOf, RuleType
    <2>2. JobOf'
      BY <1>0, <1>1 DEF Types, Destroy, RuleOf, RuleType, JobOf, JobType, NoJob
    <2> QED  BY <1>0, <1>1, <2>1, <2>2 DEF Types, Destroy, Outside, BinderOf, EncapOf, CpuOf, History
  <1>2. ASSUME NEW r \in Rules, NEW acts \in SUBSET Keys, Replace(r, acts)  PROVE Types'
    <2>1. RuleOf'
      BY <1>0, <1>2 DEF Types, Replace, RuleOf, RuleType
    <2>2. JobOf'
      BY <1>2 DEF Replace, JobOf, JobType, NoJob
    <2> QED  BY <1>0, <1>2, <2>1, <2>2 DEF Types, Replace, Outside, BinderOf, EncapOf, CpuOf, History
  <1>3. ASSUME NEW k \in Keys, ShareEncap(k)  PROVE Types'
    <2>1. EncapOf'
      BY <1>0, <1>3 DEF Types, ShareEncap, EncapOf, EncapType
    <2>2. JobOf'
      BY <1>0, <1>3 DEF Types, ShareEncap, JobOf, JobType
    <2> QED  BY <1>0, <1>3, <2>1, <2>2 DEF Types, ShareEncap, Outside, BinderOf, RuleOf, CpuOf, History
  <1>4. ASSUME NEW k \in Keys, NEW b \in Binders, FindOld(k, b)  PROVE Types'
    <2>1. JobOf'
      BY <1>0, <1>4 DEF Types, FindOld, JobOf, JobType
    <2> QED  BY <1>0, <1>4, <2>1 DEF Types, FindOld, Outside, BinderOf, EncapOf, RuleOf, CpuOf, History
  <1>4a. CASE BindOld
    <2>0. \A r \in Rules : rule[r].acts \in SUBSET Keys
      BY <1>0 DEF Types, RuleOf, RuleType
    <2>1. job.op = "replace" /\ job.rule \in Rules /\ job.b \in Binders /\ job.key \in Keys
      BY <1>4a, <1>0, NoneIsNone DEF BindOld, IInv, JobOK, Holds, Types, JobOf, JobType
    <2>2. JobOf'
      <3>1. [Undo(rule[job.rule].acts) EXCEPT !.key = None, !.b = None] \in JobType
        <4>1. Undo(rule[job.rule].acts) \in JobType
          BY <1>0, <2>0, <2>1, Undone DEF Types
        <4> QED  BY <4>1 DEF JobType
      <3>2. [job EXCEPT !.at = "header", !.b = None] \in JobType
        BY <1>0 DEF Types, JobOf, JobType
      <3>3. [job EXCEPT !.at = "oops", !.b = None] \in JobType
        BY <1>0 DEF Types, JobOf, JobType
      <3>4. \/ job' = [Undo(rule[job.rule].acts) EXCEPT !.key = None, !.b = None]
            \/ job' = [job EXCEPT !.at = "header", !.b = None]
            \/ job' = [job EXCEPT !.at = "oops", !.b = None]
        BY <1>4a, Zenon DEF BindOld
      <3> QED  BY <3>1, <3>2, <3>3, <3>4 DEF JobOf
    <2>3. BinderOf'
      BY <1>0, <1>4a, <2>1 DEF Types, BindOld, BinderOf, BinderType
    <2>4. EncapOf'
      BY <1>0, <1>4a, <2>1 DEF Types, BindOld, EncapOf, EncapType
    <2> QED  BY <1>0, <1>4a, <2>2, <2>3, <2>4 DEF Types, BindOld, Outside, RuleOf, CpuOf, History
  <1>5. ASSUME NEW k \in Keys, BindNew(k)  PROVE Types'
    <2> DEFINE unused == {b \in Binders : binder[b].at = "free"}
               b == CHOOSE x \in unused : TRUE
    <2>1. b \in Binders
      BY <1>5 DEF BindNew
    <2>2. /\ binder' = [binder EXCEPT ![b].at = "table"]
          /\ job' = [job EXCEPT !.at = "route", !.key = k, !.b = b]
      BY <1>5, Zenon DEF BindNew
    <2> HIDE DEF b
    <2>3. BinderOf'
      BY <1>0, <2>1, <2>2 DEF Types, BinderOf, BinderType
    <2>4. JobOf'
      BY <1>0, <2>1, <2>2 DEF Types, JobOf, JobType
    <2> QED  BY <1>0, <1>5, <2>3, <2>4 DEF Types, BindNew, Outside, EncapOf, RuleOf, CpuOf, History
  <1>6. ASSUME NEW k \in Keys, ReleaseEncap(k)  PROVE Types'
    <2>1. encap[k].ref >= 1 /\ encap[k].ref \in Nat
      BY <1>6, Referenced DEF ReleaseEncap
    <2>2. EncapOf'
      <3>1. [encap[k] EXCEPT !.ref = @ - 1] \in EncapType
        BY <1>0, <2>1 DEF Types, EncapOf, EncapType
      <3> DEFINE new == IF encap[k].ref = 1 THEN NoEncap ELSE [encap[k] EXCEPT !.ref = @ - 1]
      <3>2. encap' = encap \/ encap' = [encap EXCEPT ![k] = new]
        BY <1>6, Zenon DEF ReleaseEncap
      <3>3. new \in EncapType
        BY <3>1
      <3> QED  BY <1>0, <3>2, <3>3 DEF Types, EncapOf
    <2>3. BinderOf' /\ JobOf'
      <3>1. [job EXCEPT !.todo = @ \ {k}] \in JobType
        BY <1>0 DEF Types, JobOf, JobType
      <3>1a. [job EXCEPT !.at = "oops", !.b = None] \in JobType
        BY <1>0 DEF Types, JobOf, JobType
      <3>2. CASE encap[k].neigh # None /\ encap[k].listed
                   /\ PutBinder(encap[k].neigh, [job EXCEPT !.todo = @ \ {k}])
        <4>1. encap[k].neigh \in Binders /\ k \in Users(encap[k].neigh)
          BY <3>2 DEF IInv, EncapOK, Users
        <4>2. binder[encap[k].neigh].ref \in Nat /\ binder[encap[k].neigh].ref >= 1
          BY <4>1, Referenced
        <4> QED  BY <1>0, <3>1, <3>2, <4>1, <4>2, PutType DEF Types
      <3>3. CASE UNCHANGED binder /\ job' \in JobType
        BY <1>0, <3>3 DEF Types, BinderOf, JobOf
      <3> QED  BY <1>6, <3>1, <3>1a, <3>2, <3>3 DEF ReleaseEncap
    <2> QED  BY <1>0, <1>6, <2>2, <2>3 DEF Types, ReleaseEncap, Outside, RuleOf, CpuOf, History
  <1>7. ASSUME NEW k \in Keys, WorkUpdates(k)  PROVE Types'
    <2>1. EncapOf'
      BY <1>0, <1>7, Updates DEF IInv, JobOK
    <2>2. JobOf'
      BY <1>0, <1>7 DEF Types, WorkUpdates, JobOf, JobType
    <2> QED  BY <1>0, <1>7, <2>1, <2>2 DEF Types, WorkUpdates, Outside, BinderOf, RuleOf, CpuOf, History
  <1>7a. CASE SendHeader
    <2>1. EncapOf' /\ job.key \in Keys
      BY <1>0, <1>7a, Updates DEF IInv, JobOK, SendHeader, Holds
    <2>2. JobOf'
      <3>1. Using(job.key) \in SUBSET Rules
        BY DEF Using
      <3>2. [job EXCEPT !.at = "rules", !.rules = Using(job.key)] \in JobType
        BY <1>0, <3>1 DEF Types, JobOf, JobType
      <3> QED  BY <1>0, <1>7a, <3>2, ReturnType DEF Types, SendHeader, JobOf
    <2>3. failed' \subseteq Keys \cup Rules
      BY <1>0, <1>7a, <2>1 DEF Types, SendHeader, History
    <2> QED  BY <1>0, <1>7a, <2>1, <2>2, <2>3 DEF Types, SendHeader, Outside, BinderOf, RuleOf, CpuOf, History
  <1>7b. ASSUME NEW r \in Rules, UpdateRule(r)  PROVE Types'
    <2>1. RuleOf'
      BY <1>0, <1>7b, Updates DEF IInv, JobOK
    <2>2. JobOf'
      BY <1>0, <1>7b DEF Types, UpdateRule, JobOf, JobType
    <2>3. failed' \subseteq Keys \cup Rules
      BY <1>0, <1>7b DEF Types, UpdateRule, History
    <2> QED  BY <1>0, <1>7b, <2>1, <2>2, <2>3 DEF Types, UpdateRule, Outside, BinderOf, EncapOf, CpuOf, History
  <1>7c. CASE RulesUpdated
    <2>1. JobOf'
      BY <1>0, <1>7c, ReturnType DEF Types, RulesUpdated, JobOf
    <2> QED  BY <1>0, <1>7c, <2>1 DEF Types, RulesUpdated, Outside, BinderOf, EncapOf, RuleOf, CpuOf, History
  <1>7d. CASE UserUnlisted
    <2>1. EncapOf'
      BY <1>0, <1>7d, Updates DEF IInv, JobOK
    <2>2. JobOf'
      <3>0. [job EXCEPT !.at = "oops", !.b = None] \in JobType
        BY <1>0 DEF Types, JobOf, JobType
      <3>1. [job EXCEPT !.at = "send"] \in JobType
        BY <1>0 DEF Types, JobOf, JobType
      <3>2. job' = [job EXCEPT !.at = "send"] \/ job' = [job EXCEPT !.at = "oops", !.b = None]
        BY <1>7d, Zenon DEF UserUnlisted
      <3> QED  BY <3>0, <3>1, <3>2 DEF JobOf
    <2> QED  BY <1>0, <1>7d, <2>1, <2>2 DEF Types, UserUnlisted, Outside, BinderOf, RuleOf, CpuOf, History
  <1>8. ASSUME NEW k \in Keys, RemoveUser(k)  PROVE Types'
    <2>1. job.b \in Binders /\ k \in Users(job.b)
      BY <1>8, <1>0 DEF RemoveUser, IInv, JobOK, Holds, Types, JobOf, JobType
    <2>2. binder[job.b].ref \in Nat /\ binder[job.b].ref >= 1
      BY <2>1, Referenced
    <2>3. EncapOf'
      BY <1>0, <1>8 DEF Types, RemoveUser, EncapOf, EncapType
    <2>4. [job EXCEPT !.at = "unlisted", !.key = k] \in JobType
      BY <1>0 DEF Types, JobOf, JobType
    <2>5. BinderOf' /\ JobOf'
      BY <1>0, <1>8, <2>1, <2>2, <2>4, PutType DEF Types, RemoveUser
    <2> QED  BY <1>0, <1>8, <2>3, <2>5 DEF Types, RemoveUser, Outside, RuleOf, CpuOf, History
  <1>9. CASE Route
    BY <1>0, <1>9 DEF Types, Route, Undo, JobOf, JobType, BinderOf, BinderType, Outside, EncapOf, RuleOf, CpuOf, History
  <1>10. CASE Unrouted
    <2>1. BinderOf'
      BY <1>0, <1>10 DEF Types, Unrouted, Gone, BinderOf
    <2>2. JobOf'
      <3>1. \A r \in Rules : rule[r].acts \in SUBSET Keys
        BY <1>0 DEF Types, RuleOf, RuleType
      <3>2. job.rule \in Rules
        BY <1>0, <1>10 DEF Types, JobOf, JobType, Unrouted, Undo, IInv, JobOK, Holds
      <3> QED  BY <1>0, <1>10, <3>1, <3>2 DEF Types, Unrouted, Undo, JobOf, JobType
    <2> QED  BY <1>0, <1>10, <2>1, <2>2 DEF Types, Unrouted, Outside, EncapOf, RuleOf, CpuOf, History
  <1>11. CASE ReadNeighbour
    <2>1. JobOf'
      BY <1>0, <1>11 DEF Types, ReadNeighbour, JobOf, JobType
    <2>2. BinderOf'
      BY <1>0, <1>11 DEF Types, ReadNeighbour, Outside, BinderOf, BinderType
    <2> QED  BY <1>0, <1>11, <2>1, <2>2 DEF Types, ReadNeighbour, Outside, EncapOf, RuleOf, CpuOf, History
  <1>12. CASE InitWork
    <2>1. JobOf'
      BY <1>0, <1>12 DEF Types, InitWork, JobOf, JobType
    <2>2. BinderOf'
      BY <1>0, <1>12 DEF Types, InitWork, BinderOf, BinderType
    <2>3. EncapOf'
      <3>1. job.b \in Binders
        BY <1>0, <1>12 DEF InitWork, IInv, JobOK, Holds, Types, JobOf, JobType
      <3> QED  BY <1>0, <1>12, <3>1 DEF Types, InitWork, EncapOf, EncapType
    <2> QED  BY <1>0, <1>12, <2>1, <2>2, <2>3 DEF Types, InitWork, Outside, RuleOf, CpuOf, History
  <1>13. CASE NewHeader
    <2>1. job.op = "replace" /\ job.key \in Keys /\ job.rule \in Rules
      BY <1>0, <1>13 DEF Types, JobOf, JobType, NewHeader, IInv, JobOK, Holds
    <2>2. encap[job.key].neigh \in Binders /\ job.key \in Users(encap[job.key].neigh)
      BY <1>13, <2>1 DEF NewHeader, IInv, EncapOK, Users
    <2>3. binder[encap[job.key].neigh].ref \in Nat /\ binder[encap[job.key].neigh].ref >= 1
      BY <2>2, Referenced
    <2>4. EncapOf'
      <3>1. Header(encap[job.key].neigh) \in Hosts
        BY <1>0, <2>2 DEF Types, Header, BinderOf, BinderType
      <3> QED  BY <1>0, <1>13, <2>1, <3>1 DEF Types, NewHeader, EncapOf, EncapType
    <2>5. BinderOf' /\ JobOf'
      <3>1. rule[job.rule].acts \in SUBSET Keys
        BY <1>0, <2>1 DEF Types, RuleOf, RuleType
      <3>2. CASE UNCHANGED binder /\ job' = [job EXCEPT !.at = "set"]
        BY <1>0, <3>2 DEF Types, BinderOf, JobOf, JobType
      <3>3. CASE PutBinder(encap[job.key].neigh, Undo(rule[job.rule].acts))
        BY <1>0, <2>2, <2>3, <3>1, <3>3, Undone, PutType DEF Types
      <3> QED  BY <1>13, <3>2, <3>3 DEF NewHeader
    <2> QED  BY <1>0, <1>13, <2>4, <2>5 DEF Types, NewHeader, Outside, RuleOf, CpuOf, History
  <1>14. CASE AllocActionSet
    <2>1. job.op = "replace" /\ job.key \in Keys /\ job.rule \in Rules
      BY <1>0, <1>14 DEF Types, JobOf, JobType, AllocActionSet, IInv, JobOK, Holds, Binding
    <2>2. rule[job.rule].acts \cup {job.key} \in SUBSET Keys
      BY <1>0, <2>1 DEF Types, RuleOf, RuleType
    <2>3. RuleOf'
      BY <1>0, <1>14, <2>2 DEF Types, AllocActionSet, RuleOf, RuleType
    <2>4. JobOf'
      <3>1. CASE job' = [job EXCEPT !.at = "next", !.todo = @ \ {job.key}, !.key = None]
        BY <1>0, <3>1 DEF Types, JobOf, JobType
      <3>2. CASE job' = [Undo(rule[job.rule].acts \cup {job.key}) EXCEPT !.key = None]
        <4>1. Undo(rule[job.rule].acts \cup {job.key}) \in JobType
          BY <1>0, <2>2, Undone DEF Types
        <4> QED  BY <3>2, <4>1 DEF JobOf, JobType
      <3> QED  BY <1>14, <3>1, <3>2 DEF AllocActionSet
    <2> QED  BY <1>0, <1>14, <2>3, <2>4 DEF Types, AllocActionSet, Outside, BinderOf, EncapOf, CpuOf, History
  <1>15. CASE InsertRule
    <2>1. job.rule \in Rules
      BY <1>15 DEF InsertRule, IInv, JobOK, Holds
    <2>2. RuleOf'
      <3> DEFINE resp == IF setting.u25 \/ check_ready(encap, rule[job.rule].acts)
                         THEN "own" ELSE "fallback"
      <3>1. resp \in {"own", "fallback"}
        OBVIOUS
      <3>2. \/ rule' = [rule EXCEPT ![job.rule].at = "in", ![job.rule].resp = resp]
            \/ UNCHANGED rule
        BY <1>15, Zenon DEF InsertRule
      <3> HIDE DEF resp
      <3>3. CASE UNCHANGED rule
        BY <1>0, <3>3 DEF Types, RuleOf
      <3>4. CASE rule' = [rule EXCEPT ![job.rule].at = "in", ![job.rule].resp = resp]
        BY <1>0, <2>1, <3>1, <3>4 DEF Types, RuleOf, RuleType
      <3> QED  BY <3>2, <3>3, <3>4
    <2>3. JobOf'
      <3>1. rule[job.rule].acts \in SUBSET Keys
        BY <1>0, <2>1 DEF Types, RuleOf, RuleType
      <3>2. Undo(rule[job.rule].acts) \in JobType
        BY <1>0, <3>1, Undone DEF Types
      <3>3. job' = NoJob \/ job' = Undo(rule[job.rule].acts)
        BY <1>15, Zenon DEF InsertRule
      <3> QED  BY <3>2, <3>3, Empty DEF JobOf
    <2> QED  BY <1>0, <1>15, <2>2, <2>3 DEF Types, InsertRule, Outside, BinderOf, EncapOf, CpuOf, History
  <1>16. CASE ReleaseDone
    BY <1>0, <1>16 DEF Types, ReleaseDone, RuleOf, JobOf, Outside, BinderOf, EncapOf, CpuOf, History
  <1>17. CASE JobFrees
    <2>1. BinderOf'
      BY <1>0, <1>17 DEF Types, JobFrees, Gone, BinderOf
    <2>2. JobOf'
      <3>1. [job EXCEPT !.at = "lost"] \in JobType
            /\ [job EXCEPT !.at = "next", !.b = None] \in JobType
        BY <1>0 DEF Types, JobOf, JobType
      <3>2. \/ job' = [job EXCEPT !.at = "lost"]
            \/ job' = [job EXCEPT !.at = "next", !.b = None]
        BY <1>17 DEF JobFrees
      <3> QED  BY <3>1, <3>2 DEF JobOf
    <2> QED  BY <1>0, <1>17, <2>1, <2>2 DEF Types, JobFrees, Outside, EncapOf, RuleOf, CpuOf, History
  <1>18. CASE WorkPuts
    <2>1. job.b \in Binders /\ Working(job.b)
      BY <1>0, <1>18 DEF WorkPuts, Working, IInv, JobOK, Holds, Types, JobOf, JobType
    <2>2. binder[job.b].ref \in Nat /\ binder[job.b].ref >= 1
      BY <2>1, Referenced
    <2>3. [job EXCEPT !.at = "next", !.b = None] \in JobType
      BY <1>0 DEF Types, JobOf, JobType
    <2>4. BinderOf' /\ JobOf'
      BY <1>0, <1>18, <2>1, <2>2, <2>3, PutType DEF Types, WorkPuts
    <2> QED  BY <1>0, <1>18, <2>4 DEF Types, WorkPuts, Outside, EncapOf, RuleOf, CpuOf, History
  <1>19. CASE WorkDone \/ Unregistered \/ Unregister
    BY <1>0, <1>19 DEF Types, WorkDone, Unregistered, Unregister, NoJob, JobOf, JobType, Outside,
                       BinderOf, EncapOf, RuleOf, CpuOf, History
  <1>20. ASSUME NEW b \in Binders, Dying(b)  PROVE Types'
    <2>1. [binder[b] EXCEPT !.dying = TRUE] \in BinderType
          /\ [job EXCEPT !.at = "grace", !.b = b] \in JobType
      BY <1>0, <1>20 DEF Types, Dying, BinderOf, BinderType, JobOf, JobType
    <2>2. binder' = [binder EXCEPT ![b] = [binder[b] EXCEPT !.dying = TRUE]]
      BY <1>20 DEF Dying
    <2>3. BinderOf'
      BY <1>0, <2>1, <2>2 DEF Types, BinderOf
    <2>4. JobOf'
      BY <1>20, <2>1 DEF Dying, JobOf
    <2> QED  BY <1>0, <1>20, <2>3, <2>4 DEF Types, Dying, Outside, EncapOf, RuleOf, CpuOf, History
  <1>21. ASSUME NEW b \in Binders, WorkBegins(b) \/ Unlink(b)  PROVE Types'
    BY <1>0, <1>21 DEF Types, WorkBegins, Unlink, BinderOf, BinderType, JobOf, Outside, EncapOf, RuleOf, CpuOf, History
  <1>22. ASSUME NEW b \in Binders, WorkLocks(b)  PROVE Types'
    <2>1. BinderOf'
      BY <1>0, <1>22 DEF Types, WorkLocks, BinderOf, BinderType
    <2>2. JobOf'
      <3>1. Users(b) \in SUBSET Keys
        BY DEF Users
      <3> QED  BY <1>22, <3>1 DEF WorkLocks, NoJob, JobOf, JobType
    <2> QED  BY <1>0, <1>22, <2>1, <2>2 DEF Types, WorkLocks, Outside, EncapOf, RuleOf, CpuOf, History
  <1>23. CASE Grace \/ UsersRemoved
    BY <1>0, <1>23 DEF Types, Grace, UsersRemoved, JobOf, JobType, Outside, BinderOf, EncapOf, RuleOf, CpuOf, History
  <1>24. CASE UserLost
    <2>1. job.key \in Keys
      BY <1>24 DEF UserLost, IInv, JobOK, Holds
    <2>2. EncapOf'
      BY <1>0, <1>24, <2>1 DEF Types, UserLost, EncapOf, EncapType
    <2>3. JobOf'
      BY <1>0, <1>24 DEF Types, UserLost, JobOf, JobType
    <2> QED  BY <1>0, <1>24, <2>2, <2>3 DEF Types, UserLost, Outside, BinderOf, RuleOf, CpuOf, History
  <1>25. ASSUME NEW c \in Cpus, NEW v \in Hosts, Change(c, v)  PROVE Types'
    <2>1. setting.most \in 0 .. MaxChanges /\ MaxChanges \in Nat
      BY <1>0, SettingsAre, ChangesNat DEF Types, Outside, Setting
    <2>2. Outside'
      BY <1>0, <1>25, <2>1 DEF Types, Change, Outside
    <2>3. CpuOf'
      BY <1>0, <1>25 DEF Types, Change, CpuOf, CpuType
    <2> QED  BY <1>0, <1>25, <2>2, <2>3 DEF Types, Change, BinderOf, EncapOf, RuleOf, JobOf, History
  <1>26. ASSUME NEW c \in Cpus, Notify(c) \/ Look(c)  PROVE Types'
    <2>1. CpuOf'
      BY <1>0, <1>26 DEF Types, Notify, Look, Outside, InTable, CpuOf, CpuType
    <2> QED  BY <1>0, <1>26, <2>1 DEF Types, Notify, Look, Outside, BinderOf, EncapOf, RuleOf, JobOf, History
  <1>27. ASSUME NEW c \in Cpus, Store(c)  PROVE Types'
    <2>0. cpu[c].b \in Binders /\ cpu[c].seen \in Hosts
      BY <1>0, <1>27 DEF Types, CpuOf, CpuType, Store, IInv, CpuOK
    <2>1. CpuOf'
      BY <1>0, <1>27 DEF Types, Store, CpuOf, CpuType
    <2>2. BinderOf'
      BY <1>0, <1>27, <2>0 DEF Types, Store, BinderOf, BinderType
    <2> QED  BY <1>0, <1>27, <2>0, <2>1, <2>2 DEF Types, Store, Outside, EncapOf, RuleOf, JobOf, History
  <1>28. ASSUME NEW c \in Cpus, TakeRef(c) \/ Schedule(c)  PROVE Types'
    <2>0. cpu[c].b \in Binders
      BY <1>0, <1>28 DEF Types, CpuOf, CpuType, TakeRef, Schedule, IInv, CpuOK
    <2>1. CpuOf'
      BY <1>0, <1>28 DEF Types, TakeRef, Schedule, CpuOf, CpuType
    <2>2. CASE TakeRef(c)
      <3>1. BinderOf'
        BY <1>0, <2>2, <2>0 DEF Types, TakeRef, BinderOf, BinderType
      <3> QED  BY <1>0, <2>2, <2>1, <3>1 DEF Types, TakeRef, Outside, EncapOf, RuleOf, JobOf, History
    <2>3. CASE Schedule(c)
      <3>1. BinderOf'
        <4>1. \/ UNCHANGED binder
              \/ binder' = [binder EXCEPT ![cpu[c].b].work = TRUE]
              \/ binder' = [binder EXCEPT ![cpu[c].b].lost = @ + 1]
          BY <2>3, Zenon DEF Schedule
        <4>2. CASE UNCHANGED binder
          BY <1>0, <4>2 DEF Types, BinderOf
        <4>3. CASE binder' = [binder EXCEPT ![cpu[c].b].work = TRUE]
          BY <1>0, <2>0, <4>3 DEF Types, BinderOf, BinderType
        <4>4. CASE binder' = [binder EXCEPT ![cpu[c].b].lost = @ + 1]
          BY <1>0, <2>0, <4>4 DEF Types, BinderOf, BinderType
        <4> QED  BY <4>1, <4>2, <4>3, <4>4
      <3> QED  BY <1>0, <2>3, <2>1, <3>1 DEF Types, Schedule, Outside, EncapOf, RuleOf, JobOf, History
    <2> QED  BY <1>28, <2>2, <2>3
  <1>29. ASSUME NEW c \in Cpus, PutRef(c)  PROVE Types'
    <2>1. cpu[c].b \in Binders /\ c \in Waiting(cpu[c].b)
      BY <1>0, <1>29 DEF Types, CpuOf, CpuType, PutRef, Waiting, IInv, CpuOK
    <2>2. binder[cpu[c].b].ref \in Nat /\ binder[cpu[c].b].ref >= 1
      BY <2>1, Referenced
    <2>3. BinderOf'
      BY <1>0, <1>29, <2>1, <2>2 DEF Types, PutRef, BinderOf, BinderType
    <2>4. CpuOf'
      BY <1>0, <1>29 DEF Types, PutRef, CpuOf, CpuType
    <2> QED  BY <1>0, <1>29, <2>3, <2>4 DEF Types, PutRef, Outside, EncapOf, RuleOf, JobOf, History
  <1>30. ASSUME NEW c \in Cpus, NotifierFrees(c)  PROVE Types'
    <2>1. BinderOf'
      BY <1>0, <1>30 DEF Types, NotifierFrees, Gone, BinderOf
    <2>2. CpuOf'
      BY <1>0, <1>30 DEF Types, NotifierFrees, CpuOf
    <2> QED  BY <1>0, <1>30, <2>1, <2>2 DEF Types, NotifierFrees, Outside, EncapOf, RuleOf, JobOf, History
  <1>31. CASE UNCHANGED vars
    BY <1>0, <1>31 DEF Types, vars, Outside, BinderOf, EncapOf, RuleOf, CpuOf, JobOf, History
  <1>32. CASE Next
    <2>1. StepOf
      BY <1>0, <1>32, Steps
    <2> QED  BY <2>1, <1>1, <1>2, <1>3, <1>4, <1>4a, <1>5, <1>6, <1>7, <1>7a, <1>7b, <1>7c, <1>7d, <1>8, <1>9, <1>10, <1>11, <1>12,
                <1>13, <1>14, <1>15, <1>16, <1>17, <1>18, <1>19, <1>20, <1>21, <1>22, <1>23, <1>24,
                <1>25, <1>26, <1>27, <1>28, <1>29, <1>30, Zenon DEF StepOf, Notifier
  <1> QED  BY <1>31, <1>32

---------------------------------------------------------------------------
(* What the thread that holds the mutex has in hand                         *)

(* The three ways to go on with what is undone.                             *)
LEMMA UndoneFields ==
    ASSUME JobOf, NEW acts, NEW b
    PROVE  /\ /\ Undo(acts).op = "release" /\ Undo(acts).at = "next" /\ Undo(acts).b = job.b
              /\ Undo(acts).rule = job.rule /\ Undo(acts).todo = acts
           /\ LET u == [Undo(acts) EXCEPT !.key = None, !.b = None]
              IN  u.op = "release" /\ u.at = "next" /\ u.b = None /\ u.rule = job.rule /\ u.todo = acts
           /\ LET u == [Undo(acts) EXCEPT !.at = "free", !.b = b]
              IN  u.op = "release" /\ u.at = "free" /\ u.b = b /\ u.rule = job.rule /\ u.todo = acts
  <1>1. /\ Undo(acts).op = "release" /\ Undo(acts).at = "next" /\ Undo(acts).b = job.b
        /\ Undo(acts).rule = job.rule /\ Undo(acts).todo = acts
    BY DEF Undo, JobOf, JobType
  <1>2. LET u == [Undo(acts) EXCEPT !.key = None, !.b = None]
        IN  u.op = "release" /\ u.at = "next" /\ u.b = None /\ u.rule = job.rule /\ u.todo = acts
    BY DEF Undo, JobOf, JobType
  <1>3. LET u == [Undo(acts) EXCEPT !.at = "free", !.b = b]
        IN  u.op = "release" /\ u.at = "free" /\ u.b = b /\ u.rule = job.rule /\ u.todo = acts
    BY DEF Undo, JobOf, JobType
  <1> QED  BY <1>1, <1>2, <1>3

LEMMA UndoneHolds ==
    ASSUME Holds, RulesEmpty, job.op = "replace", UNCHANGED rule,
           job'.op = "release", job'.rule = job.rule, job'.todo = rule[job.rule].acts,
           (job'.at = "next" /\ job'.b = None) \/ (job'.at = "free" /\ job'.b # None)
    PROVE  JobOK'
BY DEF JobOK, Holds, RulesEmpty, Binding

LEMMA JobOKStep ==
    ASSUME IInv, [Next]_vars
    PROVE  JobOK'
  <1> USE NoneIsNone
  <1>0. JobOf /\ RuleOf /\ Holds /\ RulesEmpty
    BY DEF IInv, Types, JobOK
  <1>1. ASSUME NEW r \in Rules, Destroy(r)  PROVE JobOK'
    BY <1>0, <1>1 DEF Destroy, RuleOf, RuleType, NoJob, JobOK, Holds, RulesEmpty, Binding
  <1>2. ASSUME NEW r \in Rules, NEW acts \in SUBSET Keys, Replace(r, acts)  PROVE JobOK'
    BY <1>0, <1>2 DEF Replace, RuleOf, RuleType, NoJob, JobOK, Holds, RulesEmpty, Binding
  <1>3. ASSUME NEW k \in Keys, ShareEncap(k)  PROVE JobOK'
    BY <1>0, <1>3 DEF ShareEncap, JobOf, JobType, JobOK, Holds, RulesEmpty, Binding
  <1>4. ASSUME NEW k \in Keys, NEW b \in Binders, FindOld(k, b)  PROVE JobOK'
    BY <1>0, <1>4 DEF FindOld, JobOf, JobType, JobOK, Holds, RulesEmpty, Binding
  <1>4a. CASE BindOld
    <2>1. job.op = "replace" /\ job.at = "bind" /\ UNCHANGED rule
      BY <1>0, <1>4a DEF BindOld, JobOf, JobType, Holds
    <2>2. CASE job' = [Undo(rule[job.rule].acts) EXCEPT !.key = None, !.b = None]
      <3>1. /\ job'.op = "release" /\ job'.rule = job.rule /\ job'.todo = rule[job.rule].acts
            /\ job'.at = "next" /\ job'.b = None
        BY <1>0, <2>2, UndoneFields
      <3> QED  BY <1>0, <2>1, <3>1, UndoneHolds
    <2>3. CASE \/ job' = [job EXCEPT !.at = "header", !.b = None]
               \/ job' = [job EXCEPT !.at = "oops", !.b = None]
      <3>1. /\ job'.op = "replace" /\ job'.at \in {"header", "oops"} /\ job'.key = job.key
            /\ job'.rule = job.rule /\ job'.todo = job.todo /\ job'.b = None
        BY <1>0, <2>1, <2>3 DEF JobOf, JobType
      <3> QED  BY <1>0, <2>1, <3>1 DEF JobOK, Holds, RulesEmpty, Binding
    <2> QED  BY <1>4a, <2>2, <2>3 DEF BindOld
  <1>5. ASSUME NEW k \in Keys, BindNew(k)  PROVE JobOK'
    <2> DEFINE unused == {b \in Binders : binder[b].at = "free"}
               b == CHOOSE x \in unused : TRUE
    <2>1. b \in Binders
      BY <1>5 DEF BindNew
    <2>2. job' = [job EXCEPT !.at = "route", !.key = k, !.b = b]
      BY <1>5, Zenon DEF BindNew
    <2> HIDE DEF b
    <2> QED  BY <1>0, <1>5, <2>1, <2>2 DEF BindNew, JobOf, JobType, JobOK, Holds, RulesEmpty, Binding
  <1>6. ASSUME NEW k \in Keys, ReleaseEncap(k)  PROVE JobOK'
    <2>1. job.op = "release" /\ k \in job.todo /\ UNCHANGED rule
      BY <1>6 DEF ReleaseEncap
    <2>2. \/ job' = [job EXCEPT !.at = "oops", !.b = None]
          \/ job' = [job EXCEPT !.todo = @ \ {k}]
          \/ /\ job' = [[job EXCEPT !.todo = @ \ {k}] EXCEPT !.at = "free", !.b = encap[k].neigh]
             /\ encap[k].listed
      BY <1>6 DEF ReleaseEncap, PutBinder
    <2>3. /\ job'.op = "release" /\ job'.rule = job.rule /\ job'.todo \subseteq job.todo
          /\ \/ job'.at = job.at /\ job'.b = job.b
             \/ job'.at = "oops" /\ job'.b = None
             \/ job'.at = "free" /\ job'.b = encap[k].neigh /\ encap[k].listed
      <3>1. CASE job' = [job EXCEPT !.at = "oops", !.b = None]
        BY <1>0, <2>1, <3>1 DEF JobOf, JobType
      <3>2. CASE job' = [job EXCEPT !.todo = @ \ {k}]
        BY <1>0, <2>1, <3>2 DEF JobOf, JobType
      <3>3. CASE /\ job' = [[job EXCEPT !.todo = @ \ {k}] EXCEPT !.at = "free", !.b = encap[k].neigh]
                 /\ encap[k].listed
        BY <1>0, <2>1, <3>3 DEF JobOf, JobType
      <3> QED  BY <2>2, <3>1, <3>2, <3>3
    <2>4. encap[k].listed => encap[k].neigh \in Binders
      BY DEF IInv, EncapOK
    <2>6. job.at = "next"
      BY <1>6 DEF ReleaseEncap
    <2> QED  BY <1>0, <2>1, <2>3, <2>4, <2>6 DEF JobOK, Holds, RulesEmpty, Binding
  <1>7. ASSUME \/ \E k \in Keys : WorkUpdates(k)
               \/ SendHeader \/ RulesUpdated \/ UserUnlisted \/ UserLost
               \/ \E r \in Rules : UpdateRule(r)
        PROVE  JobOK'
    <2>1. /\ job'.op = job.op /\ job'.op \in {"work", "unregister"} /\ job.at \notin {"next", "free"}
          /\ \/ job'.at = "oops" /\ job'.op = "unregister" /\ job'.b = None
             \/ job'.at \in {"send", "rules"} /\ job'.b \in Binders /\ job'.key \in Keys
             \/ job'.at = "put" /\ job'.op = "work" /\ job'.b \in Binders
             \/ job'.at = "users" /\ job'.op = "unregister" /\ job'.b \in Binders
      <3>1. CASE \E k \in Keys : WorkUpdates(k)
        BY <1>0, <3>1, UpdateJob
      <3>2. CASE SendHeader \/ RulesUpdated
        BY <1>0, <3>2, UpdateJob
      <3>3. CASE UserUnlisted \/ UserLost
        BY <1>0, <3>3, UpdateJob
      <3>4. CASE \E r \in Rules : UpdateRule(r)
        BY <1>0, <3>4, UpdateJob
      <3> QED  BY <1>7, <3>1, <3>2, <3>3, <3>4
    <2>2. SameActs
      <3>1. UNCHANGED rule \/ \E r \in Rules : UpdateRule(r)
        BY <1>7, Zenon DEF WorkUpdates, SendHeader, RulesUpdated, UserUnlisted, UserLost
      <3>2. Types
        BY DEF IInv
      <3> QED  BY <1>0, <3>1, <3>2, Updates DEF SameActs
    <2> QED  BY <1>0, <2>1, <2>2 DEF JobOK, Holds, RulesEmpty, Binding, SameActs
  <1>8. ASSUME NEW k \in Keys, RemoveUser(k)  PROVE JobOK'
    <2>1. job.op = "unregister" /\ job.at = "users" /\ job.b \in Binders /\ UNCHANGED rule
      BY <1>0, <1>8 DEF RemoveUser, JobOf, JobType, Holds, Binding
    <2>2. \/ job' = [[job EXCEPT !.at = "unlisted", !.key = k] EXCEPT !.at = "free", !.b = job.b]
          \/ job' = [job EXCEPT !.at = "unlisted", !.key = k]
      BY <1>8 DEF RemoveUser, PutBinder
    <2>3. /\ job'.op = "unregister" /\ job'.b = job.b
          /\ job'.at \in {"unlisted", "free"} /\ job'.key = k
      BY <1>0, <2>1, <2>2 DEF JobOf, JobType
    <2> QED  BY <1>0, <2>1, <2>3 DEF JobOK, Holds, RulesEmpty, Binding
  <1>9. CASE Route
    BY <1>0, <1>9 DEF Route, Undo, JobOf, JobType, JobOK, Holds, RulesEmpty, Binding
  <1>10. CASE Unrouted
    BY <1>0, <1>10 DEF Unrouted, Undo, JobOf, JobType, JobOK, Holds, RulesEmpty, Binding
  <1>11. CASE ReadNeighbour \/ InitWork
    <2>1. /\ job'.op = job.op /\ job'.rule = job.rule /\ job'.key = job.key /\ job'.todo = job.todo
          /\ \/ job.at = "read" /\ job'.at = "init" /\ job'.b = job.b
             \/ job.at = "init" /\ job'.at = "header" /\ job'.b = None
          /\ UNCHANGED rule
      <3>1. CASE ReadNeighbour
        BY <1>0, <3>1 DEF ReadNeighbour, JobOf, JobType
      <3>2. CASE InitWork
        BY <1>0, <3>2 DEF InitWork, JobOf, JobType
      <3> QED  BY <1>11, <3>1, <3>2
    <2> QED  BY <1>0, <2>1 DEF JobOK, Holds, RulesEmpty, Binding
  <1>13. CASE NewHeader
    <2>1. job.op = "replace" /\ UNCHANGED rule
      BY <1>0, <1>13 DEF NewHeader, JobOf, JobType, Holds, Binding
    <2>2. CASE job' = [job EXCEPT !.at = "set"]
      BY <1>0, <2>1, <2>2, <1>13 DEF NewHeader, JobOf, JobType, JobOK, Holds, RulesEmpty, Binding
    <2>3. CASE PutBinder(encap[job.key].neigh, Undo(rule[job.rule].acts))
      <3>1. encap[job.key].neigh \in Binders
        <4>1. job.at = "header" /\ job.key \in Keys
          BY <1>0, <1>13, <2>1 DEF NewHeader, Holds, JobOf, JobType
        <4> QED  BY <4>1 DEF IInv, EncapOK
      <3>2. job.b = None
        BY <1>0, <1>13 DEF NewHeader, Holds
      <3>3. \/ job' = Undo(rule[job.rule].acts)
            \/ job' = [Undo(rule[job.rule].acts) EXCEPT !.at = "free", !.b = encap[job.key].neigh]
        BY <2>3 DEF PutBinder
      <3>4. /\ job'.op = "release" /\ job'.rule = job.rule /\ job'.todo = rule[job.rule].acts
            /\ (job'.at = "next" /\ job'.b = None) \/ (job'.at = "free" /\ job'.b # None)
        <4>1. CASE job' = Undo(rule[job.rule].acts)
          BY <1>0, <3>2, <4>1, UndoneFields
        <4>2. CASE job' = [Undo(rule[job.rule].acts) EXCEPT !.at = "free", !.b = encap[job.key].neigh]
          BY <1>0, <3>1, <4>2, UndoneFields
        <4> QED  BY <3>3, <4>1, <4>2
      <3> QED  BY <1>0, <2>1, <3>4, UndoneHolds
    <2> QED  BY <1>13, <2>2, <2>3 DEF NewHeader
  <1>14. CASE AllocActionSet
    <2> DEFINE acts == rule[job.rule].acts \cup {job.key}
    <2>1. job.op = "replace" /\ job.at = "set" /\ job.rule \in Rules
      BY <1>0, <1>14 DEF AllocActionSet, JobOf, JobType, Holds, Binding
    <2>2. rule'[job.rule].acts = acts /\ \A r \in Rules : rule'[r].at = rule[r].at
      <3>1. rule' = [rule EXCEPT ![job.rule].acts = acts]
        BY <1>14, Zenon DEF AllocActionSet
      <3> HIDE DEF acts
      <3> QED  BY <1>0, <2>1, <3>1 DEF RuleOf, RuleType
    <2>3. \A r \in Rules : r # job.rule => rule'[r] = rule[r]
      BY <1>0, <1>14 DEF AllocActionSet, RuleOf
    <2>4. RulesEmpty'
      BY <1>0, <2>1, <2>2, <2>3 DEF Holds, RulesEmpty
    <2>5. CASE job' = [job EXCEPT !.at = "next", !.todo = @ \ {job.key}, !.key = None]
      <3>1. /\ job'.op = "replace" /\ job'.at = "next" /\ job'.rule = job.rule
            /\ job'.todo = job.todo \ {job.key} /\ job'.b = job.b
        BY <1>0, <2>1, <2>5 DEF JobOf, JobType
      <3> QED  BY <1>0, <2>1, <2>2, <2>4, <3>1 DEF JobOK, Holds, Binding
    <2>6. CASE job' = [Undo(acts) EXCEPT !.key = None]
      <3>1. job'.op = "release" /\ job'.at = "next" /\ job'.rule = job.rule /\ job'.todo = acts
            /\ job'.b = job.b
        BY <1>0, <2>1, <2>6 DEF Undo, JobOf, JobType
      <3> QED  BY <1>0, <2>1, <2>2, <2>4, <3>1 DEF JobOK, Holds, Binding
    <2> QED  BY <1>14, <2>5, <2>6 DEF AllocActionSet
  <1>15. CASE InsertRule
    <2>1. job.op = "replace" /\ job.rule \in Rules
      BY <1>0, <1>15 DEF InsertRule, Holds
    <2>2. CASE job' = Undo(rule[job.rule].acts) /\ UNCHANGED rule
      <3>1. job.b = None
        BY <1>0, <1>15 DEF InsertRule, Holds
      <3>2. /\ job'.op = "release" /\ job'.rule = job.rule /\ job'.todo = rule[job.rule].acts
            /\ job'.at = "next" /\ job'.b = None
        BY <1>0, <2>2, <3>1, UndoneFields
      <3> QED  BY <1>0, <2>1, <2>2, <3>2, UndoneHolds
    <2>3. CASE job' = NoJob
      <3>1. \A r \in Rules : /\ rule'[r].acts = rule[r].acts
                             /\ rule'[r].at = "none" => rule[r].at = "none"
        <4>1. \/ UNCHANGED rule
              \/ \E resp : rule' = [rule EXCEPT ![job.rule].at = "in", ![job.rule].resp = resp]
          BY <1>15, Zenon DEF InsertRule
        <4>2. CASE UNCHANGED rule
          BY <4>2
        <4>3. ASSUME NEW resp, rule' = [rule EXCEPT ![job.rule].at = "in", ![job.rule].resp = resp],
                     NEW r \in Rules
              PROVE  rule'[r].acts = rule[r].acts /\ (rule'[r].at = "none" => rule[r].at = "none")
          <5>1. CASE r = job.rule
            BY <1>0, <2>1, <4>3, <5>1 DEF RuleOf, RuleType
          <5>2. CASE r # job.rule
            BY <1>0, <4>3, <5>2 DEF RuleOf
          <5> QED  BY <5>1, <5>2
        <4> QED  BY <4>1, <4>2, <4>3, Zenon
      <3>2. RulesEmpty'
        BY <1>0, <3>1 DEF RulesEmpty
      <3> QED  BY <2>3, <3>2 DEF NoJob, JobOK, Holds, Binding
    <2> QED  BY <1>15, <2>2, <2>3, Zenon DEF InsertRule
  <1>16. CASE ReleaseDone
    BY <1>0, <1>16 DEF ReleaseDone, RuleOf, RuleType, NoRule, NoJob, JobOK, Holds, RulesEmpty, Binding
  <1>17. CASE JobFrees
    BY <1>0, <1>17 DEF JobFrees, JobOf, JobType, JobOK, Holds, RulesEmpty, Binding
  <1>18. CASE WorkPuts
    BY <1>0, <1>18 DEF WorkPuts, PutBinder, JobOf, JobType, JobOK, Holds, RulesEmpty, Binding
  <1>19. CASE WorkDone \/ Unregistered \/ Unregister
    <2>1. /\ UNCHANGED rule
          /\ job' = NoJob \/ job' = [NoJob EXCEPT !.op = "unregister", !.at = "next"]
      BY <1>19, Zenon DEF WorkDone, Unregistered, Unregister
    <2>2. /\ job'.b = None
          /\ \/ job'.op = "none" /\ job'.at = "none"
             \/ job'.op = "unregister" /\ job'.at = "next"
      <3>1. CASE job' = NoJob
        BY <3>1 DEF NoJob
      <3>2. CASE job' = [NoJob EXCEPT !.op = "unregister", !.at = "next"]
        BY <3>2 DEF NoJob
      <3> QED  BY <2>1, <3>1, <3>2
    <2> QED  BY <1>0, <2>1, <2>2 DEF JobOK, Holds, RulesEmpty, Binding
  <1>20. ASSUME NEW b \in Binders, Dying(b) \/ WorkLocks(b)  PROVE JobOK'
    <2>1. /\ UNCHANGED rule /\ job'.b = b
          /\ \/ job'.op = "unregister" /\ job'.at = "grace"
             \/ job'.op = "work" /\ job'.at = "put"
      <3>1. CASE Dying(b)
        BY <1>0, <3>1 DEF Dying, JobOf, JobType
      <3>2. CASE WorkLocks(b)
        BY <1>0, <3>2 DEF WorkLocks, NoJob
      <3> QED  BY <1>20, <3>1, <3>2
    <2> QED  BY <1>0, <2>1 DEF JobOK, Holds, RulesEmpty
  <1>21. ASSUME UNCHANGED <<job, rule>>  PROVE JobOK'
    BY <1>0, <1>21 DEF JobOK, Holds, RulesEmpty
  <1>23. CASE Grace \/ UsersRemoved
    <2>1. /\ UNCHANGED rule /\ job.op = "unregister" /\ job'.op = "unregister" /\ job.b \in Binders
          /\ \/ job'.at = "users" /\ job'.b = job.b
             \/ job'.at \in {"next", "oops"} /\ job'.b = None
      <3>1. job.op = "unregister" /\ job.b \in Binders /\ UNCHANGED rule
        BY <1>0, <1>23 DEF Grace, UsersRemoved, JobOf, JobType, Holds, Binding
      <3>2. CASE job' = [job EXCEPT !.at = "users"]
        BY <1>0, <3>1, <3>2 DEF JobOf, JobType
      <3>3. CASE job' = [job EXCEPT !.at = "next", !.key = None, !.b = None]
        BY <1>0, <3>1, <3>3 DEF JobOf, JobType
      <3>4. CASE job' = [job EXCEPT !.at = "oops", !.b = None]
        BY <1>0, <3>1, <3>4 DEF JobOf, JobType
      <3> QED  BY <1>23, <3>1, <3>2, <3>3, <3>4, Zenon DEF Grace, UsersRemoved
    <2> QED  BY <1>0, <2>1 DEF JobOK, Holds, RulesEmpty
  <1>25. ASSUME NEW b \in Binders, WorkBegins(b) \/ Unlink(b)  PROVE UNCHANGED <<job, rule>>
    BY <1>25 DEF WorkBegins, Unlink
  <1>26. ASSUME NEW c \in Cpus, Notifier(c) \/ \E v \in Hosts : Change(c, v)
         PROVE  UNCHANGED <<job, rule>>
    BY <1>26 DEF Notifier, Notify, Look, Store, TakeRef, Schedule, PutRef, NotifierFrees, Change
  <1>31. CASE UNCHANGED vars
    BY <1>21, <1>31 DEF vars
  <1>32. CASE Next
    <2>1. StepOf
      BY <1>32, Steps DEF IInv
    <2> QED  BY <2>1, <1>1, <1>2, <1>3, <1>4, <1>4a, <1>5, <1>6, <1>7, <1>8, <1>9, <1>10, <1>11, <1>13, <1>14,
                <1>15, <1>16, <1>17, <1>18, <1>19, <1>20, <1>21, <1>23, <1>25, <1>26, Zenon
             DEF StepOf
  <1> QED  BY <1>31, <1>32

---------------------------------------------------------------------------
(* Encap actions                                                            *)

(* Steps that leave the encap actions alone.                                *)
LEMMA EncapKept ==
    ASSUME EncapOK, UNCHANGED encap,
           \/ UNCHANGED job
           \/ /\ job.at # "header"
              /\ job'.at \notin Binding \cup {"bind", "header", "free", "unlisted", "lost", "send"}
           \/ /\ job.at # "header" /\ job'.at \in Binding \cup {"bind"}
              /\ encap[job'.key].ref = 0
           \/ /\ job.at # "header" /\ job'.op # "unregister" /\ job'.at = "free"
           \/ /\ job.op = "unregister" /\ job.at = "free" /\ job'.at = "lost" /\ job'.key = job.key
    PROVE  EncapOK'
  <1>1. CASE UNCHANGED job
    BY <1>1 DEF EncapOK
  <1>2. CASE /\ job.at # "header"
             /\ job'.at \notin Binding \cup {"bind", "header", "free", "unlisted", "lost", "send"}
    BY <1>2 DEF EncapOK, Binding
  <1>3. CASE job.at # "header" /\ job'.at \in Binding \cup {"bind"} /\ encap[job'.key].ref = 0
    BY <1>3 DEF EncapOK, Binding
  <1>4. CASE job.at # "header" /\ job'.op # "unregister" /\ job'.at = "free"
    BY <1>4 DEF EncapOK, Binding
  <1>5. CASE job.op = "unregister" /\ job.at = "free" /\ job'.at = "lost" /\ job'.key = job.key
    BY <1>5 DEF EncapOK, Binding
  <1> QED  BY <1>1, <1>2, <1>3, <1>4, <1>5

LEMMA EncapOKStep ==
    ASSUME IInv, [Next]_vars
    PROVE  EncapOK'
  <1>0. JobOf /\ EncapOf /\ Holds /\ EncapOK
    BY DEF IInv, Types, JobOK
  <1>1. ASSUME NEW r \in Rules, Destroy(r) \/ \E acts \in SUBSET Keys : Replace(r, acts)  PROVE EncapOK'
    <2>1. UNCHANGED encap /\ job.op = "none" /\ \E acts \in {rule[r].acts} \cup SUBSET Keys :
             \/ job' = [NoJob EXCEPT !.op = "release", !.at = "next", !.rule = r, !.todo = acts]
             \/ job' = [NoJob EXCEPT !.op = "replace", !.at = "next", !.rule = r, !.todo = acts]
      BY <1>1, Zenon DEF Destroy, Replace
    <2>2. job.at # "header" /\ job'.at = "next"
      BY <1>0, <2>1 DEF NoJob, Holds
    <2> QED  BY <1>0, <2>1, <2>2, EncapKept DEF Binding
  <1>3. ASSUME NEW k \in Keys, ShareEncap(k)  PROVE EncapOK'
    <2>1. job.at = "next" /\ job'.at = "set"
      BY <1>0, <1>3 DEF ShareEncap, JobOf, JobType
    <2>2. \A x \in Keys : /\ encap'[x].listed = encap[x].listed /\ encap'[x].neigh = encap[x].neigh
                          /\ encap'[x].ref = 0 => encap[x].ref = 0
      BY <1>0, <1>3 DEF ShareEncap, EncapOf, EncapType
    <2> QED  BY <1>0, <2>1, <2>2 DEF EncapOK, Binding
  <1>4. ASSUME NEW k \in Keys, NEW b \in Binders, FindOld(k, b)  PROVE EncapOK'
    <2>1. UNCHANGED encap /\ encap[k].ref = 0 /\ job.at = "next" /\ job'.at = "bind" /\ job'.key = k
      BY <1>0, <1>4 DEF FindOld, JobOf, JobType
    <2> QED  BY <1>0, <2>1, EncapKept DEF Binding
  <1>4a. CASE BindOld
    <2>1. /\ job.op = "replace" /\ job.at = "bind" /\ job.key \in Keys /\ job.b \in Binders
          /\ encap[job.key].ref = 0
      BY <1>0, <1>4a, NoneIsNone DEF BindOld, JobOf, JobType, Holds, EncapOK
    <2>2. CASE job' = [Undo(rule[job.rule].acts) EXCEPT !.key = None, !.b = None] /\ UNCHANGED encap
      <3>1. job'.at = "next"
        BY <1>0, <2>2, UndoneFields
      <3> QED  BY <1>0, <2>1, <2>2, <3>1, EncapKept DEF Binding
    <2>3. CASE job' = [job EXCEPT !.at = "oops", !.b = None] /\ UNCHANGED encap
      <3>1. job'.at = "oops"
        BY <1>0, <2>3 DEF JobOf, JobType
      <3> QED  BY <1>0, <2>1, <2>3, <3>1, EncapKept DEF Binding
    <2>4. CASE /\ encap' = [encap EXCEPT ![job.key].neigh = job.b, ![job.key].listed = TRUE]
               /\ job' = [job EXCEPT !.at = "header", !.b = None]
      <3>1. job'.op = "replace" /\ job'.at = "header" /\ job'.key = job.key
        BY <1>0, <2>1, <2>4 DEF JobOf, JobType
      <3>2. /\ encap'[job.key].listed /\ encap'[job.key].neigh = job.b /\ encap'[job.key].ref = 0
            /\ \A x \in Keys : x # job.key => encap'[x] = encap[x]
        BY <1>0, <2>1, <2>4 DEF EncapOf, EncapType
      <3> QED  BY <1>0, <2>1, <3>1, <3>2 DEF EncapOK, Binding
    <2> QED  BY <1>4a, <2>2, <2>3, <2>4 DEF BindOld
  <1>5. ASSUME NEW k \in Keys, BindNew(k)  PROVE EncapOK'
    <2>1. UNCHANGED encap /\ encap[k].ref = 0 /\ job.at = "next" /\ job'.at = "route" /\ job'.key = k
      BY <1>0, <1>5 DEF BindNew, JobOf, JobType
    <2> QED  BY <1>0, <2>1, EncapKept DEF Binding
  <1>6. ASSUME NEW k \in Keys, ReleaseEncap(k)  PROVE EncapOK'
    <2>1. job.op = "release" /\ job.at = "next" /\ job'.op = "release" /\ job'.at \in {"next", "free", "oops"}
      BY <1>0, <1>6 DEF ReleaseEncap, PutBinder, JobOf, JobType
    <2>2. encap[k].ref >= 1 /\ encap[k].ref \in Nat
      BY <1>6, Referenced DEF ReleaseEncap
    <2>3. \A x \in Keys : x # k => encap'[x] = encap[x]
      BY <1>0, <1>6 DEF ReleaseEncap, EncapOf
    <2>4. \/ encap'[k] = NoEncap \/ encap'[k] = encap[k]
          \/ encap[k].ref # 1 /\ encap'[k] = [encap[k] EXCEPT !.ref = @ - 1]
      BY <1>0, <1>6 DEF ReleaseEncap, EncapOf
    <2>5. encap'[k].listed => /\ encap[k].listed /\ encap'[k].neigh = encap[k].neigh
                              /\ encap'[k].ref # 0
      BY <1>0, <2>2, <2>4 DEF NoEncap, EncapOf, EncapType
    <2> QED  BY <1>0, <2>1, <2>3, <2>5 DEF EncapOK, Binding
  <1>7. ASSUME (\E k \in Keys : WorkUpdates(k)) \/ SendHeader \/ UserUnlisted  PROVE EncapOK'
    <2>1. SameUsers
      <3>1. Types
        BY DEF IInv
      <3> QED  BY <1>0, <1>7, <3>1, Updates
    <2>2. /\ job.at \in {"put", "send", "rules", "unlisted"}
          /\ \/ job'.at = "send" /\ job'.op = "work"
             \/ /\ job'.at = "send" /\ job.at = "unlisted" /\ job.op = "unregister"
                /\ job'.key = job.key /\ job.key \in Keys
             \/ job'.at \in {"put", "users", "rules", "oops"}
      <3>1. CASE \E k \in Keys : WorkUpdates(k)
        BY <1>0, <3>1, UpdateJob
      <3>2. CASE SendHeader
        BY <1>0, <3>2, UpdateJob
      <3>3. CASE UserUnlisted
        <4>1. job.at = "unlisted"
          BY <3>3 DEF UserUnlisted
        <4> QED  BY <1>0, <3>3, <4>1, UpdateJob
      <3> QED  BY <1>7, <3>1, <3>2, <3>3
    <2>3. \A k \in Keys : encap'[k].listed => encap'[k].neigh \in Binders
      BY <1>0, <2>1 DEF EncapOK, SameUsers
    <2>4. \A k \in Keys : ~(encap'[k].ref = 0 /\ encap'[k].listed)
      BY <1>0, <2>1, <2>2 DEF EncapOK, SameUsers
    <2>5. job'.at \notin Binding \cup {"bind", "header"}
      BY <2>2 DEF Binding
    <2>6. job'.op = "unregister" /\ job'.at \in {"free", "unlisted", "lost", "send"}
            => ~encap'[job'.key].listed
      BY <1>0, <2>1, <2>2 DEF EncapOK, SameUsers
    <2> QED  BY <2>3, <2>4, <2>5, <2>6 DEF EncapOK
  <1>7a. ASSUME RulesUpdated \/ \E r \in Rules : UpdateRule(r)  PROVE EncapOK'
    <2>1. /\ UNCHANGED encap /\ job.at # "header"
          /\ job'.at \in {"put", "users", "rules"}
      <3>1. CASE RulesUpdated
        <4>1. UNCHANGED encap /\ job.at = "rules"
          BY <3>1 DEF RulesUpdated
        <4> QED  BY <1>0, <3>1, <4>1, UpdateJob
      <3>2. ASSUME NEW r \in Rules, UpdateRule(r)
            PROVE  UNCHANGED encap /\ job.at # "header" /\ job'.at = "rules"
        <4>1. UNCHANGED encap /\ job.at = "rules"
          BY <3>2 DEF UpdateRule
        <4> QED  BY <1>0, <3>2, <4>1, UpdateJob
      <3> QED  BY <1>7a, <3>1, <3>2
    <2> QED  BY <1>0, <2>1, EncapKept DEF Binding
  <1>8. ASSUME NEW k \in Keys, RemoveUser(k)  PROVE EncapOK'
    <2>1. job.op = "unregister" /\ job.at = "users" /\ job.b \in Binders
      BY <1>0, <1>8 DEF RemoveUser, JobOf, JobType, Holds, Binding
    <2>2. \A x \in Keys : /\ encap'[x].listed <=> encap[x].listed /\ x # k
                          /\ encap'[x].neigh = encap[x].neigh /\ encap'[x].ref = encap[x].ref
      BY <1>0, <1>8 DEF RemoveUser, EncapOf, EncapType
    <2>3. \/ job' = [[job EXCEPT !.at = "unlisted", !.key = k] EXCEPT !.at = "free", !.b = job.b]
          \/ job' = [job EXCEPT !.at = "unlisted", !.key = k]
      BY <1>8 DEF RemoveUser, PutBinder
    <2>4. job'.op = "unregister" /\ job'.at \in {"unlisted", "free"} /\ job'.key = k
      BY <1>0, <2>1, <2>3 DEF JobOf, JobType
    <2> QED  BY <1>0, <2>1, <2>2, <2>4 DEF EncapOK, Binding
  <1>9. CASE Route \/ Unrouted \/ ReadNeighbour
    <2>1. UNCHANGED encap /\ job.at \in Binding
      BY <1>9 DEF Route, Unrouted, ReadNeighbour, Binding
    <2>2. (job'.at \in Binding /\ job'.key = job.key) \/ job'.at = "next"
      BY <1>0, <1>9 DEF Route, Unrouted, ReadNeighbour, Binding, Undo, JobOf, JobType
    <2> QED  BY <1>0, <2>1, <2>2, EncapKept DEF EncapOK, Binding
  <1>12. CASE InitWork
    <2>1. job.op = "replace" /\ job.b \in Binders /\ job.key \in Keys /\ encap[job.key].ref = 0
      BY <1>0, <1>12, NoneIsNone DEF InitWork, Holds, Binding, EncapOK, JobOf, JobType
    <2>2. job'.op = job.op /\ job'.at = "header" /\ job'.key = job.key /\ job.at = "init"
      BY <1>0, <1>12 DEF InitWork, JobOf, JobType
    <2>3. /\ encap'[job.key].listed /\ encap'[job.key].neigh = job.b /\ encap'[job.key].ref = 0
          /\ \A x \in Keys : x # job.key => encap'[x] = encap[x]
      BY <1>0, <1>12, <2>1 DEF InitWork, EncapOf, EncapType
    <2> QED  BY <1>0, <2>1, <2>2, <2>3 DEF EncapOK, Binding
  <1>13. CASE NewHeader
    <2>1. job.op = "replace" /\ job.key \in Keys /\ job.at = "header"
      BY <1>0, <1>13 DEF NewHeader, Holds, Binding, EncapOK, JobOf, JobType
    <2>2. job'.op \in {"replace", "release"} /\ job'.at \in {"set", "next", "free"}
      <3>1. CASE job' = [job EXCEPT !.at = "set"]
        BY <1>0, <2>1, <3>1 DEF JobOf, JobType
      <3>2. CASE PutBinder(encap[job.key].neigh, Undo(rule[job.rule].acts))
        BY <1>0, <3>2 DEF PutBinder, Undo, JobOf, JobType
      <3> QED  BY <1>13, <3>1, <3>2 DEF NewHeader
    <2>3. \A x \in Keys : x # job.key => encap'[x] = encap[x]
      BY <1>0, <1>13 DEF NewHeader, EncapOf
    <2>4. encap'[job.key].listed => encap'[job.key].neigh = encap[job.key].neigh /\ encap'[job.key].ref # 0
      BY <1>0, <1>13, <2>1 DEF NewHeader, NoEncap, EncapOf, EncapType
    <2>5. encap[job.key].listed
      BY <1>0, <2>1 DEF EncapOK
    <2> QED  BY <1>0, <2>1, <2>2, <2>3, <2>4, <2>5 DEF EncapOK, Binding
  <1>14. CASE AllocActionSet \/ InsertRule
    <2>1. UNCHANGED encap /\ job.at # "header"
      BY <1>14 DEF AllocActionSet, InsertRule
    <2>2. job'.at \in {"next", "none"}
      <3>1. CASE AllocActionSet
        BY <1>0, <3>1 DEF AllocActionSet, Undo, JobOf, JobType
      <3>2. CASE InsertRule
        <4>1. job' = NoJob \/ job' = Undo(rule[job.rule].acts)
          BY <3>2, Zenon DEF InsertRule
        <4>2. CASE job' = NoJob
          BY <4>2 DEF NoJob
        <4>3. CASE job' = Undo(rule[job.rule].acts)
          BY <1>0, <4>3 DEF Undo, JobOf, JobType
        <4> QED  BY <4>1, <4>2, <4>3
      <3> QED  BY <1>14, <3>1, <3>2
    <2> QED  BY <1>0, <2>1, <2>2, EncapKept DEF Binding
  <1>16. CASE ReleaseDone \/ WorkDone \/ Unregistered \/ Unregister
    <2>1. UNCHANGED encap /\ job.at # "header"
      BY <1>0, <1>16 DEF ReleaseDone, WorkDone, Unregistered, Unregister, Holds
    <2>2. job'.at \in {"next", "none"}
      <3>1. job' = NoJob \/ job' = [NoJob EXCEPT !.op = "unregister", !.at = "next"]
        BY <1>16, Zenon DEF ReleaseDone, WorkDone, Unregistered, Unregister
      <3>2. CASE job' = NoJob
        BY <3>2 DEF NoJob
      <3>3. CASE job' = [NoJob EXCEPT !.op = "unregister", !.at = "next"]
        BY <3>3 DEF NoJob
      <3> QED  BY <3>1, <3>2, <3>3
    <2> QED  BY <1>0, <2>1, <2>2, EncapKept DEF Binding
  <1>17. CASE JobFrees
    <2>1. UNCHANGED encap /\ job.at = "free"
      BY <1>17 DEF JobFrees
    <2>2. \/ job'.at = "next"
          \/ job.op = "unregister" /\ job'.at = "lost" /\ job'.key = job.key
      <3>1. \/ job' = [job EXCEPT !.at = "lost"] /\ job.op = "unregister"
            \/ job' = [job EXCEPT !.at = "next", !.b = None]
        BY <1>17 DEF JobFrees
      <3>2. CASE job' = [job EXCEPT !.at = "lost"] /\ job.op = "unregister"
        BY <1>0, <3>2 DEF JobOf, JobType
      <3>3. ASSUME job' = [job EXCEPT !.at = "next", !.b = None]
            PROVE  job'.at = "next"
        BY <1>0, <3>3 DEF JobOf, JobType
      <3> QED  BY <3>1, <3>2, <3>3, Zenon
    <2> QED  BY <1>0, <2>1, <2>2, EncapKept DEF Binding
  <1>18. CASE WorkPuts
    <2>1. UNCHANGED encap /\ job.at = "put" /\ job'.op = "work" /\ job'.at \in {"next", "free"}
      BY <1>0, <1>18 DEF WorkPuts, PutBinder, JobOf, JobType
    <2> QED  BY <1>0, <2>1, EncapKept DEF Binding
  <1>20. ASSUME NEW b \in Binders, Dying(b) \/ WorkLocks(b)  PROVE EncapOK'
    <2>1. UNCHANGED encap /\ job.at # "header" /\ job'.at \in {"grace", "put"}
      BY <1>0, <1>20 DEF Dying, WorkLocks, Holds, NoJob, JobOf, JobType
    <2> QED  BY <1>0, <2>1, EncapKept DEF Binding
  <1>21. ASSUME UNCHANGED <<job, encap>>  PROVE EncapOK'
    BY <1>0, <1>21, EncapKept
  <1>23. CASE Grace \/ UsersRemoved
    <2>1. UNCHANGED encap /\ job.at # "header" /\ job'.at \in {"users", "next", "oops"}
      BY <1>0, <1>23 DEF Grace, UsersRemoved, JobOf, JobType
    <2> QED  BY <1>0, <2>1, EncapKept DEF Binding
  <1>24. CASE UserLost
    <2>1. job.op = "unregister" /\ job.at = "lost" /\ job.key \in Keys
      BY <1>0, <1>24 DEF UserLost, JobOf, JobType, Holds, Binding
    <2>2. \A x \in Keys : /\ encap'[x].listed = encap[x].listed /\ encap'[x].ref = encap[x].ref
                          /\ x # job.key => encap'[x].neigh = encap[x].neigh
      BY <1>0, <1>24 DEF UserLost, EncapOf, EncapType
    <2>3. ~encap[job.key].listed
      BY <1>0, <2>1 DEF EncapOK
    <2>4. job'.op = "unregister" /\ job'.at = "send" /\ job'.key = job.key
      BY <1>0, <1>24, <2>1 DEF UserLost, JobOf, JobType
    <2> QED  BY <1>0, <2>1, <2>2, <2>3, <2>4 DEF EncapOK, Binding
  <1>25. ASSUME NEW b \in Binders, WorkBegins(b) \/ Unlink(b)  PROVE UNCHANGED <<job, encap>>
    BY <1>25 DEF WorkBegins, Unlink
  <1>26. ASSUME NEW c \in Cpus, Notifier(c) \/ \E v \in Hosts : Change(c, v)
         PROVE  UNCHANGED <<job, encap>>
    BY <1>26 DEF Notifier, Notify, Look, Store, TakeRef, Schedule, PutRef, NotifierFrees, Change
  <1>31. CASE UNCHANGED vars
    BY <1>21, <1>31 DEF vars
  <1>32. CASE Next
    <2>1. StepOf
      BY <1>32, Steps DEF IInv
    <2> QED  BY <2>1, <1>1, <1>3, <1>4, <1>4a, <1>5, <1>6, <1>7, <1>7a, <1>8, <1>9, <1>12, <1>13, <1>14,
                <1>16, <1>17, <1>18, <1>20, <1>21, <1>23, <1>24, <1>25, <1>26, Zenon DEF StepOf
  <1> QED  BY <1>31, <1>32

---------------------------------------------------------------------------
(* Notifiers                                                                *)

(* The other threads leave them alone.                                      *)
LEMMA OnlyNotifiers ==
    ASSUME StepOf
    PROVE  UNCHANGED cpu \/ \E c \in Cpus : Notifier(c) \/ \E v \in Hosts : Change(c, v)
  <1>1. ASSUME NEW r \in Rules, Destroy(r) \/ \E acts \in SUBSET Keys : Replace(r, acts)
        PROVE  UNCHANGED cpu
    BY <1>1, Zenon DEF Destroy, Replace
  <1>2. ASSUME NEW k \in Keys,
               \/ ShareEncap(k) \/ BindNew(k) \/ ReleaseEncap(k) \/ WorkUpdates(k) \/ RemoveUser(k)
               \/ \E b \in Binders : FindOld(k, b)
        PROVE  UNCHANGED cpu
    BY <1>2, Zenon DEF ShareEncap, BindNew, ReleaseEncap, WorkUpdates, RemoveUser, FindOld
  <1>3. ASSUME \/ BindOld \/ Route \/ Unrouted \/ ReadNeighbour \/ InitWork \/ NewHeader
               \/ AllocActionSet \/ InsertRule \/ ReleaseDone
        PROVE  UNCHANGED cpu
    BY <1>3, Zenon DEF BindOld, Route, Unrouted, ReadNeighbour, InitWork, NewHeader, AllocActionSet,
                       InsertRule, ReleaseDone
  <1>4. ASSUME \/ JobFrees \/ WorkPuts \/ WorkDone
               \/ SendHeader \/ RulesUpdated \/ \E r \in Rules : UpdateRule(r)
               \/ Unregister \/ Grace \/ UserUnlisted \/ UserLost \/ UsersRemoved \/ Unregistered
        PROVE  UNCHANGED cpu
    BY <1>4, Zenon DEF JobFrees, WorkPuts, WorkDone, SendHeader, RulesUpdated, UpdateRule, Unregister,
                       Grace, UserUnlisted, UserLost, UsersRemoved, Unregistered
  <1>5. ASSUME NEW b \in Binders, Dying(b) \/ WorkBegins(b) \/ WorkLocks(b) \/ Unlink(b)
        PROVE  UNCHANGED cpu
    BY <1>5, Zenon DEF Dying, WorkBegins, WorkLocks, Unlink
  <1> QED  BY <1>1, <1>2, <1>3, <1>4, <1>5, Zenon DEF StepOf

LEMMA CpuOKStep ==
    ASSUME IInv, [Next]_vars
    PROVE  CpuOK'
  <1>0. CpuOf /\ CpuOK /\ None \notin Binders
    BY NoneIsNone DEF IInv, Types
  <1>1. ASSUME UNCHANGED cpu  PROVE CpuOK'
    BY <1>0, <1>1 DEF CpuOK
  <1>2. ASSUME NEW c \in Cpus, NEW v \in Hosts, Change(c, v)  PROVE CpuOK'
    BY <1>0, <1>2 DEF Change, CpuOf, CpuType, CpuOK
  <1>3. ASSUME NEW c \in Cpus, Notify(c)  PROVE CpuOK'
    BY <1>0, <1>3 DEF Notify, CpuOf, CpuType, CpuOK
  <1>4. ASSUME NEW c \in Cpus, Look(c)  PROVE CpuOK'
    BY <1>0, <1>4 DEF Look, InTable, Idle, CpuOf, CpuType, CpuOK
  <1>5. ASSUME NEW c \in Cpus, Store(c)  PROVE CpuOK'
    BY <1>0, <1>5 DEF Store, Idle, CpuOf, CpuType, CpuOK
  <1>6. ASSUME NEW c \in Cpus, TakeRef(c)  PROVE CpuOK'
    BY <1>0, <1>6 DEF TakeRef, Idle, CpuOf, CpuType, CpuOK
  <1>7. ASSUME NEW c \in Cpus, Schedule(c)  PROVE CpuOK'
    BY <1>0, <1>7 DEF Schedule, Idle, CpuOf, CpuType, CpuOK
  <1>8. ASSUME NEW c \in Cpus, PutRef(c)  PROVE CpuOK'
    BY <1>0, <1>8 DEF PutRef, Idle, CpuOf, CpuType, CpuOK
  <1>9. ASSUME NEW c \in Cpus, NotifierFrees(c)  PROVE CpuOK'
    BY <1>0, <1>9 DEF NotifierFrees, Idle, CpuOf, CpuType, CpuOK
  <1>10. \/ UNCHANGED cpu
         \/ \E c \in Cpus : Notifier(c) \/ \E v \in Hosts : Change(c, v)
    <2>1. CASE UNCHANGED vars
      BY <2>1 DEF vars
    <2>2. CASE Next
      <3>1. StepOf
        BY <2>2, Steps DEF IInv
      <3> QED  BY <3>1, OnlyNotifiers
    <2> QED  BY <2>1, <2>2
  <1> QED  BY <1>1, <1>2, <1>3, <1>4, <1>5, <1>6, <1>7, <1>8, <1>9, <1>10, Zenon DEF Notifier

---------------------------------------------------------------------------
(* Who frees binders                                                        *)

(* A binder that is referred to is allocated, and nobody is freeing it.     *)
LEMMA InUse ==
    ASSUME IInv, NEW b \in Binders,
           \/ binder[b].ref >= 1 \/ Users(b) # {} \/ Waiting(b) # {} \/ Working(b) \/ Filling(b)
           \/ binder[b].work \/ binder[b].running
    PROVE  /\ binder[b].at # "free" /\ binder[b].ref >= 1
           /\ \A c \in Cpus : cpu[c].at = "free" => cpu[c].b # b
           /\ job.at \in {"free", "route", "unroute"} => job.b # b
  <1>1. binder[b].ref >= 1
    BY Referenced
  <1>2. binder[b].ref # 0
    BY <1>1
  <1>3. NoBinder.ref = 0
    BY DEF NoBinder
  <1> QED  BY <1>1, <1>2, <1>3 DEF IInv, FreeOK

(* When the reader section is over, nobody has a pointer to a binder that   *)
(* has no reference, but the thread that frees it.                          *)
LEMMA Unseen ==
    ASSUME IInv, NEW b \in Binders, binder[b].ref = 0, synchronize_rcu(b)
    PROVE  /\ Users(b) = {} /\ ~binder[b].work /\ ~binder[b].running /\ binder[b].lost = 0
           /\ ~Working(b) /\ ~Filling(b) /\ Waiting(b) = {}
           /\ \A c \in Cpus : cpu[c].b = b => cpu[c].at = "free"
  <1>1. /\ Users(b) = {} /\ ~binder[b].work /\ ~binder[b].running /\ binder[b].lost = 0
        /\ ~Working(b) /\ ~Filling(b) /\ Waiting(b) = {}
    BY Unreferenced DEF IInv
  <1>2. ASSUME NEW c \in Cpus, cpu[c].b = b  PROVE cpu[c].at = "free"
    <2>1. cpu[c].at \in {"idle", "notify", "look", "store", "ref", "schedule", "put", "free"}
      BY DEF IInv, Types, CpuOf, CpuType
    <2>2. cpu[c].at \notin {"idle", "notify", "look"}
      BY <1>2, NoneIsNone DEF IInv, CpuOK
    <2>3. cpu[c].at \notin {"store", "ref"}
      BY <1>2 DEF synchronize_rcu, Readers
    <2>4. cpu[c].at \notin {"schedule", "put"}
      BY <1>1, <1>2 DEF Waiting
    <2> QED  BY <2>1, <2>2, <2>3, <2>4
  <1> QED  BY <1>1, <1>2

(* The mutex's thread begins or ends nothing, and changes a binder that is  *)
(* allocated, of which it may take a reference if there is one.             *)
LEMMA FreeKept ==
    ASSUME IInv, UNCHANGED cpu,
           \/ job'.at \notin {"free", "route", "unroute"}
           \/ job.at \in {"free", "route", "unroute"} /\ job'.b = job.b
              /\ job'.at \in {"free", "route", "unroute"},
           \/ UNCHANGED binder
           \/ \E b \in Binders :
                 /\ binder[b].at # "free" /\ binder'[b].at # "free"
                 /\ binder'[b].ref = binder[b].ref \/ binder[b].ref >= 1
                 /\ \A x \in Binders : x # b => binder'[x] = binder[x]
    PROVE  FreeOK'
  <1>0. FreeOK /\ JobOf /\ Holds /\ CpuOK /\ CpuOf
    BY DEF IInv, Types, JobOK
  <1>1. CASE UNCHANGED binder
    BY <1>0, <1>1 DEF FreeOK
  <1>2. ASSUME NEW b \in Binders,
               binder[b].at # "free" /\ binder'[b].at # "free",
               binder'[b].ref = binder[b].ref \/ binder[b].ref >= 1,
               \A x \in Binders : x # b => binder'[x] = binder[x]
        PROVE  FreeOK'
    <2>1. \/ binder'[b].ref = binder[b].ref
          \/ /\ job.at \in {"free", "route", "unroute"} => job.b # b
             /\ \A c \in Cpus : cpu[c].at = "free" => cpu[c].b # b
      BY <1>2, InUse
    <2>2. \A c \in Cpus : cpu[c].at = "free" => cpu[c].b \in Binders
      BY <1>0 DEF CpuOK, CpuOf, CpuType
    <2>3. \A c \in Cpus : cpu[c].b # None => cpu[c].b \in Binders
      BY <1>0 DEF CpuOf, CpuType
    <2>4. job.at \in {"free", "route", "unroute"} => job.b \in Binders
      BY <1>0, InHandAt
    <2> QED  BY <1>0, <1>2, <2>1, <2>2, <2>3, <2>4 DEF FreeOK
  <1> QED  BY <1>1, <1>2

(* The mutex's thread releases a reference it has.                          *)
LEMMA FreePut ==
    ASSUME IInv, UNCHANGED cpu, NEW b \in Binders, binder[b].ref >= 1, NEW then \in JobType,
           then.at \notin {"free", "route", "unroute"}, PutBinder(b, then)
    PROVE  FreeOK'
  <1>0. FreeOK /\ BinderOf /\ binder[b].ref \in Nat
    BY DEF IInv, Types, BinderOf, BinderType
  <1>1. /\ binder[b].at # "free"
        /\ \A c \in Cpus : cpu[c].at = "free" => cpu[c].b # b
    BY InUse
  <1>2. /\ binder'[b].ref = binder[b].ref - 1 /\ binder'[b].at = binder[b].at
        /\ \A x \in Binders : x # b => binder'[x] = binder[x]
    BY <1>0 DEF PutBinder, BinderOf, BinderType
  <1>3. CASE binder[b].ref # 1
    <2>1. job' = then
      BY <1>3 DEF PutBinder
    <2> QED  BY <1>1, <1>2, <2>1, FreeKept
  <1>4. CASE binder[b].ref = 1
    <2>1. job'.at = "free" /\ job'.b = b
      BY <1>4 DEF PutBinder, JobType
    <2>2. \A c \in Cpus : cpu[c].b # None => cpu[c].b \in Binders
      BY DEF IInv, Types, CpuOf, CpuType
    <2>3. \A c \in Cpus : cpu[c].at = "free" => cpu[c].b \in Binders
      BY <2>2 DEF IInv, CpuOK
    <2> QED  BY <1>0, <1>1, <1>2, <1>4, <2>1, <2>2, <2>3 DEF FreeOK
  <1> QED  BY <1>3, <1>4

(* A notifier goes on, with the binder it has a pointer to or without.      *)
LEMMA FreeNotified ==
    ASSUME IInv, UNCHANGED job, NEW c \in Cpus, cpu[c].b \in Binders,
           binder[cpu[c].b].at # "free", binder'[cpu[c].b].at = binder[cpu[c].b].at,
           binder'[cpu[c].b].ref = binder[cpu[c].b].ref \/ binder[cpu[c].b].ref >= 1,
           \A x \in Binders : x # cpu[c].b => binder'[x] = binder[x],
           \A d \in Cpus : d # c => cpu'[d] = cpu[d],
           cpu'[c].at # "free", cpu'[c].b \in {cpu[c].b, None}
    PROVE  FreeOK'
  <1> DEFINE b == cpu[c].b
  <1>0. FreeOK /\ JobOf /\ CpuOf /\ Holds /\ CpuOK
    BY DEF IInv, Types, JobOK
  <1>1. \/ binder'[b].ref = binder[b].ref
        \/ /\ job.at \in {"free", "route", "unroute"} => job.b # b
           /\ \A d \in Cpus : cpu[d].at = "free" => cpu[d].b # b
    BY InUse
  <1>2. \A d \in Cpus : cpu[d].b # None => cpu[d].b \in Binders
    BY <1>0 DEF CpuOf, CpuType
  <1>3. \A d \in Cpus : cpu[d].at = "free" => cpu[d].b \in Binders
    BY <1>0, <1>2 DEF CpuOK
  <1>4. job.at \in {"free", "route", "unroute"} => job.b \in Binders
    BY <1>0, InHandAt
  <1> QED  BY <1>0, <1>1, <1>2, <1>3, <1>4 DEF FreeOK

LEMMA FreeOKStep ==
    ASSUME IInv, [Next]_vars
    PROVE  FreeOK'
  <1>0. BinderOf /\ JobOf /\ CpuOf /\ Holds /\ CpuOK /\ FreeOK
    BY DEF IInv, Types, JobOK
  <1>1. ASSUME NEW r \in Rules, Destroy(r) \/ \E acts \in SUBSET Keys : Replace(r, acts)  PROVE FreeOK'
    <2>1. UNCHANGED <<binder, cpu>> /\ \E acts \in {rule[r].acts} \cup SUBSET Keys :
             \/ job' = [NoJob EXCEPT !.op = "release", !.at = "next", !.rule = r, !.todo = acts]
             \/ job' = [NoJob EXCEPT !.op = "replace", !.at = "next", !.rule = r, !.todo = acts]
      BY <1>1, Zenon DEF Destroy, Replace
    <2>2. job'.at = "next"
      BY <2>1 DEF NoJob
    <2> QED  BY <2>1, <2>2, FreeKept
  <1>3. ASSUME NEW k \in Keys, ShareEncap(k)  PROVE FreeOK'
    <2>1. UNCHANGED <<binder, cpu>> /\ job'.at = "set"
      BY <1>0, <1>3 DEF ShareEncap, JobOf, JobType
    <2> QED  BY <2>1, FreeKept
  <1>4. ASSUME NEW k \in Keys, NEW b \in Binders, FindOld(k, b)  PROVE FreeOK'
    <2>1. UNCHANGED <<binder, cpu>> /\ job'.at = "bind"
      BY <1>0, <1>4 DEF FindOld, JobOf, JobType
    <2> QED  BY <2>1, FreeKept
  <1>4a. CASE BindOld
    <2>1. job.at = "bind" /\ job.b \in Binders /\ UNCHANGED cpu
      BY <1>0, <1>4a, InHandAt DEF BindOld
    <2>2. CASE job' = [Undo(rule[job.rule].acts) EXCEPT !.key = None, !.b = None] /\ UNCHANGED binder
      <3>1. job'.at = "next"
        BY <1>0, <2>2, UndoneFields
      <3> QED  BY <2>1, <2>2, <3>1, FreeKept
    <2>3. CASE job' = [job EXCEPT !.at = "oops", !.b = None] /\ UNCHANGED binder
      <3>1. job'.at = "oops"
        BY <1>0, <2>3 DEF JobOf, JobType
      <3> QED  BY <2>1, <2>3, <3>1, FreeKept
    <2>4. CASE /\ binder' = [binder EXCEPT ![job.b].ref = @ + 1] /\ binder[job.b].ref # 0
               /\ job' = [job EXCEPT !.at = "header", !.b = None]
      <3>1. job'.at = "header" /\ binder[job.b].ref >= 1
        BY <1>0, <2>1, <2>4 DEF JobOf, JobType, BinderOf, BinderType
      <3>2. binder[job.b].at # "free"
        BY <2>1, <3>1, InUse
      <3>3. /\ binder'[job.b].at = binder[job.b].at
            /\ \A x \in Binders : x # job.b => binder'[x] = binder[x]
        BY <1>0, <2>1, <2>4 DEF BinderOf, BinderType
      <3> QED  BY <2>1, <3>1, <3>2, <3>3, FreeKept
    <2> QED  BY <1>4a, <2>2, <2>3, <2>4 DEF BindOld
  <1>5. ASSUME NEW k \in Keys, BindNew(k)  PROVE FreeOK'
    <2> DEFINE unused == {b \in Binders : binder[b].at = "free"}
               b == CHOOSE x \in unused : TRUE
    <2>1. b \in Binders /\ binder[b].at = "free"
      BY <1>5 DEF BindNew
    <2>2. /\ binder' = [binder EXCEPT ![b].at = "table"] /\ UNCHANGED cpu
          /\ job' = [job EXCEPT !.at = "route", !.key = k, !.b = b]
      BY <1>5, Zenon DEF BindNew
    <2> HIDE DEF b
    <2>3. job'.at = "route" /\ job'.b = b
      BY <1>0, <2>2 DEF JobOf, JobType
    <2>4. /\ binder'[b].at = "table" /\ binder'[b].ref = binder[b].ref
          /\ \A x \in Binders : x # b => binder'[x] = binder[x]
      BY <1>0, <2>1, <2>2 DEF BinderOf, BinderType
    <2>5. binder[b].ref = 0
      BY <1>0, <2>1 DEF FreeOK, NoBinder
    <2>6. \A c \in Cpus : cpu[c].b \in Binders \cup {None} /\ cpu[c].b # b
      <3>1. b # None
        BY <2>1, NoneIsNone
      <3> QED  BY <1>0, <2>1, <3>1 DEF FreeOK, CpuOf, CpuType
    <2>7. \A c \in Cpus : cpu[c].at = "free" => cpu[c].b \in Binders
      BY <1>0, <2>6 DEF CpuOK
    <2> QED  BY <1>0, <2>2, <2>3, <2>4, <2>5, <2>6, <2>7 DEF FreeOK
  <1>6. ASSUME NEW k \in Keys, ReleaseEncap(k)  PROVE FreeOK'
    <2>1. job.op = "release" /\ job.at = "next" /\ UNCHANGED cpu
      BY <1>6 DEF ReleaseEncap
    <2> DEFINE then == [job EXCEPT !.todo = @ \ {k}]
    <2>2. then \in JobType /\ then.at = "next"
      BY <1>0, <2>1 DEF JobOf, JobType
    <2>3. CASE UNCHANGED binder /\ (job' = [job EXCEPT !.at = "oops", !.b = None] \/ job' = then)
      <3>1. job'.at \in {"oops", "next"}
        BY <1>0, <2>1, <2>3 DEF JobOf, JobType
      <3> QED  BY <2>1, <2>3, <3>1, FreeKept
    <2>4. CASE encap[k].listed /\ PutBinder(encap[k].neigh, then)
      <3> HIDE DEF then
      <3>1. encap[k].neigh \in Binders /\ k \in Users(encap[k].neigh)
        BY <2>4 DEF IInv, EncapOK, Users
      <3>2. binder[encap[k].neigh].ref >= 1
        BY <3>1, InUse
      <3> QED  BY <2>1, <2>2, <2>4, <3>1, <3>2, FreePut
    <2> QED  BY <1>6, <2>3, <2>4 DEF ReleaseEncap
  <1>7. ASSUME \/ \E k \in Keys : WorkUpdates(k)
               \/ SendHeader \/ RulesUpdated \/ UserUnlisted \/ UserLost
               \/ \E r \in Rules : UpdateRule(r)
        PROVE  FreeOK'
    <2>1. UNCHANGED <<binder, cpu>>
      BY <1>7, Zenon DEF WorkUpdates, SendHeader, RulesUpdated, UserUnlisted, UserLost, UpdateRule
    <2>2. job'.at \in {"send", "rules", "put", "users", "oops"}
      BY <1>0, <1>7, UpdateJob
    <2> QED  BY <2>1, <2>2, FreeKept
  <1>8. ASSUME NEW k \in Keys, RemoveUser(k)  PROVE FreeOK'
    <2>1. job.b \in Binders /\ k \in Users(job.b) /\ UNCHANGED cpu
          /\ PutBinder(job.b, [job EXCEPT !.at = "unlisted", !.key = k])
      BY <1>0, <1>8, InHandAt DEF RemoveUser
    <2>2. binder[job.b].ref >= 1
      BY <2>1, InUse
    <2>3. /\ [job EXCEPT !.at = "unlisted", !.key = k] \in JobType
          /\ [job EXCEPT !.at = "unlisted", !.key = k].at = "unlisted"
      BY <1>0 DEF JobOf, JobType
    <2> QED  BY <2>1, <2>2, <2>3, FreePut
  <1>9. CASE Route
    <2>1. /\ job.at = "route" /\ job.b \in Binders /\ binder[job.b].at # "free" /\ UNCHANGED cpu
          /\ \A c \in Cpus : cpu[c].at = "free" => cpu[c].b # job.b
      BY <1>0, <1>9, InHandAt DEF Route, FreeOK
    <2>2. CASE UNCHANGED binder /\ job' = [job EXCEPT !.at = "unroute"]
      <3>1. job'.at = "unroute" /\ job'.b = job.b
        BY <1>0, <2>2 DEF JobOf, JobType
      <3> QED  BY <2>1, <2>2, <3>1, FreeKept
    <2>3. CASE binder' = [binder EXCEPT ![job.b].ref = 1] /\ job' = [job EXCEPT !.at = "read"]
      <3>1. job'.at = "read"
        BY <1>0, <2>3 DEF JobOf, JobType
      <3>2. /\ binder'[job.b].at = binder[job.b].at
            /\ \A x \in Binders : x # job.b => binder'[x] = binder[x]
        BY <1>0, <2>1, <2>3 DEF BinderOf, BinderType
      <3>3. \A c \in Cpus : cpu[c].b # None => cpu[c].b \in Binders
        BY <1>0 DEF CpuOf, CpuType
      <3>4. \A c \in Cpus : cpu[c].at = "free" => cpu[c].b \in Binders
        BY <1>0, <3>3 DEF CpuOK
      <3> QED  BY <1>0, <2>1, <3>1, <3>2, <3>3, <3>4 DEF FreeOK
    <2> QED  BY <1>9, <2>2, <2>3 DEF Route
  <1>10. CASE Unrouted \/ JobFrees
    <2>1. /\ job.at \in {"unroute", "free"} /\ synchronize_rcu(job.b) /\ binder' = Gone(job.b)
          /\ UNCHANGED cpu
      BY <1>10 DEF Unrouted, JobFrees
    <2>2. /\ job.b \in Binders /\ binder[job.b].ref = 0
          /\ \A c \in Cpus : cpu[c].at = "free" => cpu[c].b # job.b
      BY <1>0, <2>1, InHandAt DEF FreeOK
    <2>3. job'.at \in {"next", "lost"}
      <3>1. CASE Unrouted
        BY <1>0, <3>1 DEF Unrouted, Undo, JobOf, JobType
      <3>2. CASE JobFrees
        BY <1>0, <3>2 DEF JobFrees, JobOf, JobType
      <3> QED  BY <1>10, <3>1, <3>2
    <2>4. \A c \in Cpus : cpu[c].b # job.b
      BY <2>1, <2>2, Unseen
    <2>5. binder'[job.b] = NoBinder /\ \A x \in Binders : x # job.b => binder'[x] = binder[x]
      BY <1>0, <2>1, <2>2 DEF Gone, BinderOf
    <2>6. \A c \in Cpus : cpu[c].b # None => cpu[c].b \in Binders
      BY <1>0 DEF CpuOf, CpuType
    <2>7. \A c \in Cpus : cpu[c].at = "free" => cpu[c].b \in Binders
      BY <1>0, <2>6 DEF CpuOK
    <2> QED  BY <1>0, <2>1, <2>3, <2>4, <2>5, <2>6, <2>7 DEF FreeOK
  <1>11. CASE ReadNeighbour \/ InitWork
    <2>1. job.at \in {"read", "init"} /\ job.b \in Binders /\ UNCHANGED cpu
      BY <1>0, <1>11, InHandAt DEF ReadNeighbour, InitWork
    <2>2. binder[job.b].at # "free"
      BY <2>1, InUse DEF Filling
    <2>3. job'.at \in {"init", "header"}
      <3>1. CASE ReadNeighbour
        BY <1>0, <3>1 DEF ReadNeighbour, JobOf, JobType
      <3>2. CASE InitWork
        BY <1>0, <3>2 DEF InitWork, JobOf, JobType
      <3> QED  BY <1>11, <3>1, <3>2
    <2>4. /\ binder'[job.b].at = binder[job.b].at /\ binder'[job.b].ref = binder[job.b].ref
          /\ \A x \in Binders : x # job.b => binder'[x] = binder[x]
      <3>1. CASE ReadNeighbour
        BY <1>0, <2>1, <3>1 DEF ReadNeighbour, BinderOf, BinderType
      <3>2. CASE InitWork
        BY <1>0, <2>1, <3>2 DEF InitWork, BinderOf, BinderType
      <3> QED  BY <1>11, <3>1, <3>2
    <2> QED  BY <2>1, <2>2, <2>3, <2>4, FreeKept
  <1>13. CASE NewHeader
    <2>1. job.op = "replace" /\ job.at = "header" /\ job.key \in Keys /\ UNCHANGED cpu
      BY <1>0, <1>13 DEF NewHeader, Holds, Binding, JobOf, JobType
    <2>2. CASE UNCHANGED binder /\ job' = [job EXCEPT !.at = "set"]
      <3>1. job'.at = "set"
        BY <1>0, <2>2 DEF JobOf, JobType
      <3> QED  BY <2>1, <2>2, <3>1, FreeKept
    <2>3. CASE PutBinder(encap[job.key].neigh, Undo(rule[job.rule].acts))
      <3>1. /\ encap[job.key].neigh \in Binders /\ job.key \in Users(encap[job.key].neigh)
        BY <2>1 DEF IInv, EncapOK, Users
      <3>2. rule[job.rule].acts \in SUBSET Keys
        BY <1>0, <2>1 DEF IInv, Types, RuleOf, RuleType, Holds
      <3>3. Undo(rule[job.rule].acts) \in JobType /\ Undo(rule[job.rule].acts).at = "next"
        BY <1>0, <3>2, Undone, UndoneFields
      <3>4. binder[encap[job.key].neigh].ref >= 1
        BY <3>1, InUse
      <3> QED  BY <2>1, <2>3, <3>1, <3>3, <3>4, FreePut
    <2> QED  BY <1>13, <2>2, <2>3 DEF NewHeader
  <1>14. CASE AllocActionSet
    <2>1. UNCHANGED <<binder, cpu>> /\ job'.at = "next"
      BY <1>0, <1>14 DEF AllocActionSet, Undo, JobOf, JobType
    <2> QED  BY <2>1, FreeKept
  <1>15. CASE InsertRule
    <2>1. UNCHANGED <<binder, cpu>> /\ (job' = NoJob \/ job' = Undo(rule[job.rule].acts))
      BY <1>15, Zenon DEF InsertRule
    <2>2. NoJob.at = "none" /\ Undo(rule[job.rule].acts).at = "next"
      BY <1>0 DEF NoJob, Undo, JobOf, JobType
    <2> QED  BY <2>1, <2>2, FreeKept
  <1>16. CASE ReleaseDone \/ WorkDone \/ Unregistered \/ Unregister
    <2>1. UNCHANGED <<binder, cpu>>
          /\ (job' = NoJob \/ job' = [NoJob EXCEPT !.op = "unregister", !.at = "next"])
      BY <1>16, Zenon DEF ReleaseDone, WorkDone, Unregistered, Unregister
    <2>2. NoJob.at = "none" /\ [NoJob EXCEPT !.op = "unregister", !.at = "next"].at = "next"
      BY DEF NoJob
    <2> QED  BY <2>1, <2>2, FreeKept
  <1>18. CASE WorkPuts
    <2>1. job.b \in Binders /\ Working(job.b) /\ UNCHANGED cpu
          /\ PutBinder(job.b, [job EXCEPT !.at = "next", !.b = None])
      BY <1>0, <1>18, InHandAt DEF WorkPuts, Working
    <2>2. /\ [job EXCEPT !.at = "next", !.b = None] \in JobType
          /\ [job EXCEPT !.at = "next", !.b = None].at = "next"
      BY <1>0 DEF JobOf, JobType
    <2>3. binder[job.b].ref >= 1
      BY <2>1, InUse
    <2> QED  BY <2>1, <2>2, <2>3, FreePut
  <1>20. ASSUME NEW b \in Binders, Dying(b) \/ WorkLocks(b)  PROVE FreeOK'
    <2>1. UNCHANGED cpu /\ job'.at \in {"grace", "put"}
      BY <1>0, <1>20 DEF Dying, WorkLocks, NoJob, JobOf, JobType
    <2>2. binder[b].at # "free"
      BY <1>20, InUse DEF Dying, WorkLocks, InTable
    <2>3. /\ binder'[b].at = binder[b].at /\ binder'[b].ref = binder[b].ref
          /\ \A x \in Binders : x # b => binder'[x] = binder[x]
      BY <1>0, <1>20 DEF Dying, WorkLocks, BinderOf, BinderType
    <2> QED  BY <2>1, <2>2, <2>3, FreeKept
  <1>21. ASSUME NEW b \in Binders, WorkBegins(b) \/ Unlink(b)  PROVE FreeOK'
    <2>1. UNCHANGED <<job, cpu>>
      BY <1>21 DEF WorkBegins, Unlink
    <2>2. binder[b].at # "free"
      BY <1>21, InUse DEF WorkBegins, Unlink
    <2>3. /\ binder'[b].at # "free" /\ binder'[b].ref = binder[b].ref
          /\ \A x \in Binders : x # b => binder'[x] = binder[x]
      BY <1>0, <1>21, <2>2 DEF WorkBegins, Unlink, BinderOf, BinderType
    <2> QED  BY <2>1, <2>2, <2>3, FreeKept
  <1>23. CASE Grace \/ UsersRemoved
    <2>1. UNCHANGED <<binder, cpu>> /\ job'.at \in {"users", "next", "oops"}
      BY <1>0, <1>23 DEF Grace, UsersRemoved, JobOf, JobType
    <2> QED  BY <2>1, FreeKept
  <1>25. ASSUME NEW c \in Cpus, NEW v \in Hosts, Change(c, v)  PROVE FreeOK'
    <2>1. UNCHANGED <<binder, job>>
          /\ \A d \in Cpus : cpu'[d].b = cpu[d].b /\ (cpu'[d].at = "free" => cpu[d].at = "free")
      BY <1>0, <1>25 DEF Change, CpuOf, CpuType
    <2> QED  BY <1>0, <2>1 DEF FreeOK
  <1>26. ASSUME NEW c \in Cpus, Notify(c)  PROVE FreeOK'
    <2>1. UNCHANGED <<binder, job>>
          /\ \A d \in Cpus : cpu'[d].b = cpu[d].b /\ (cpu'[d].at = "free" => cpu[d].at = "free")
      BY <1>0, <1>26 DEF Notify, CpuOf, CpuType
    <2> QED  BY <1>0, <2>1 DEF FreeOK
  <1>27. ASSUME NEW c \in Cpus, Look(c)  PROVE FreeOK'
    <2>1. UNCHANGED <<binder, job>>
          /\ \A d \in Cpus : d # c => cpu'[d] = cpu[d]
      BY <1>0, <1>27 DEF Look, CpuOf
    <2>2. cpu'[c].at \in {"store", "idle"} /\ (cpu'[c].b \in InTable \/ cpu'[c].b = None)
      BY <1>0, <1>27 DEF Look, Idle, CpuOf, CpuType
    <2> QED  BY <1>0, <2>1, <2>2 DEF FreeOK, InTable
  <1>28. ASSUME NEW c \in Cpus, Store(c)  PROVE FreeOK'
    <2>1. cpu[c].b \in Binders /\ binder[cpu[c].b].at # "free" /\ UNCHANGED job
      BY <1>0, <1>28, NoneIsNone DEF Store, CpuOK, CpuOf, CpuType, FreeOK
    <2>2. /\ binder'[cpu[c].b].at = binder[cpu[c].b].at /\ binder'[cpu[c].b].ref = binder[cpu[c].b].ref
          /\ \A x \in Binders : x # cpu[c].b => binder'[x] = binder[x]
      BY <1>0, <1>28, <2>1 DEF Store, BinderOf, BinderType
    <2>3. /\ \A d \in Cpus : d # c => cpu'[d] = cpu[d]
          /\ cpu'[c].at \in {"idle", "ref"} /\ cpu'[c].b \in {cpu[c].b, None}
      BY <1>0, <1>28 DEF Store, Idle, CpuOf, CpuType
    <2> QED  BY <1>0, <2>1, <2>2, <2>3, FreeNotified
  <1>29. ASSUME NEW c \in Cpus, TakeRef(c)  PROVE FreeOK'
    <2>1. cpu[c].b \in Binders /\ binder[cpu[c].b].at # "free" /\ UNCHANGED job
      BY <1>0, <1>29, NoneIsNone DEF TakeRef, CpuOK, CpuOf, CpuType, FreeOK
    <2>2. /\ binder'[cpu[c].b].at = binder[cpu[c].b].at
          /\ binder'[cpu[c].b].ref = binder[cpu[c].b].ref \/ binder[cpu[c].b].ref >= 1
          /\ \A x \in Binders : x # cpu[c].b => binder'[x] = binder[x]
      BY <1>0, <1>29, <2>1 DEF TakeRef, BinderOf, BinderType
    <2>3. /\ \A d \in Cpus : d # c => cpu'[d] = cpu[d]
          /\ cpu'[c].at \in {"idle", "schedule"} /\ cpu'[c].b \in {cpu[c].b, None}
      BY <1>0, <1>29 DEF TakeRef, Idle, CpuOf, CpuType
    <2> QED  BY <1>0, <2>1, <2>2, <2>3, FreeNotified
  <1>30. ASSUME NEW c \in Cpus, Schedule(c)  PROVE FreeOK'
    <2>1. cpu[c].b \in Binders /\ binder[cpu[c].b].at # "free" /\ UNCHANGED job
      BY <1>0, <1>30, NoneIsNone DEF Schedule, CpuOK, CpuOf, CpuType, FreeOK
    <2>2. /\ binder'[cpu[c].b].at = binder[cpu[c].b].at /\ binder'[cpu[c].b].ref = binder[cpu[c].b].ref
          /\ \A x \in Binders : x # cpu[c].b => binder'[x] = binder[x]
      <3>1. \/ UNCHANGED binder
            \/ binder' = [binder EXCEPT ![cpu[c].b].work = TRUE]
            \/ binder' = [binder EXCEPT ![cpu[c].b].lost = @ + 1]
        BY <1>30, Zenon DEF Schedule
      <3>2. CASE UNCHANGED binder
        BY <3>2
      <3>3. CASE binder' = [binder EXCEPT ![cpu[c].b].work = TRUE]
        BY <1>0, <2>1, <3>3 DEF BinderOf, BinderType
      <3>4. CASE binder' = [binder EXCEPT ![cpu[c].b].lost = @ + 1]
        BY <1>0, <2>1, <3>4 DEF BinderOf, BinderType
      <3> QED  BY <3>1, <3>2, <3>3, <3>4
    <2>3. /\ \A d \in Cpus : d # c => cpu'[d] = cpu[d]
          /\ cpu'[c].at \in {"idle", "put"} /\ cpu'[c].b \in {cpu[c].b, None}
      BY <1>0, <1>30 DEF Schedule, Idle, CpuOf, CpuType
    <2> QED  BY <1>0, <2>1, <2>2, <2>3, FreeNotified
  <1>31. ASSUME NEW c \in Cpus, PutRef(c)  PROVE FreeOK'
    <2> DEFINE b == cpu[c].b
    <2>1. b \in Binders /\ c \in Waiting(b) /\ UNCHANGED job
      BY <1>0, <1>31 DEF PutRef, CpuOK, CpuOf, CpuType, Waiting
    <2>2. /\ binder[b].at # "free" /\ binder[b].ref >= 1 /\ binder[b].ref \in Nat
          /\ \A d \in Cpus : cpu[d].at = "free" => cpu[d].b # b
          /\ job.at \in {"free", "route", "unroute"} => job.b # b
      BY <1>0, <2>1, InUse DEF BinderOf, BinderType
    <2>3. /\ binder'[b].at = binder[b].at /\ binder'[b].ref = binder[b].ref - 1
          /\ \A x \in Binders : x # b => binder'[x] = binder[x]
      BY <1>0, <1>31, <2>1 DEF PutRef, BinderOf, BinderType
    <2>4. /\ \A d \in Cpus : d # c => cpu'[d] = cpu[d]
          /\ \/ binder[b].ref = 1 /\ cpu'[c].at = "free" /\ cpu'[c].b = b
             \/ binder[b].ref # 1 /\ cpu'[c] = Idle
      BY <1>0, <1>31 DEF PutRef, CpuOf, CpuType
    <2>5. Idle.at = "idle" /\ Idle.b = None
      BY DEF Idle
    <2>6. \A d \in Cpus : cpu[d].b # None => cpu[d].b \in Binders
      BY <1>0 DEF CpuOf, CpuType
    <2>7. \A d \in Cpus : cpu[d].at = "free" => cpu[d].b \in Binders
      BY <1>0, <2>6 DEF CpuOK
    <2>8. job.at \in {"free", "route", "unroute"} => job.b \in Binders
      BY <1>0, InHandAt
    <2> HIDE DEF b
    <2> QED  BY <1>0, <2>1, <2>2, <2>3, <2>4, <2>5, <2>6, <2>7, <2>8 DEF FreeOK
  <1>32. ASSUME NEW c \in Cpus, NotifierFrees(c)  PROVE FreeOK'
    <2> DEFINE b == cpu[c].b
    <2>1. b \in Binders /\ binder[b].ref = 0 /\ synchronize_rcu(b) /\ cpu[c].at = "free" /\ UNCHANGED job
      BY <1>0, <1>32 DEF NotifierFrees, CpuOK, CpuOf, CpuType, FreeOK
    <2>2. \A d \in Cpus : d # c => cpu[d].b # b
      BY <1>0, <2>1, Unseen DEF FreeOK
    <2>3. job.at \in {"free", "route", "unroute"} => job.b # b /\ job.b \in Binders
      BY <1>0, <2>1, InHandAt DEF FreeOK
    <2>4. binder'[b] = NoBinder /\ \A x \in Binders : x # b => binder'[x] = binder[x]
      BY <1>0, <1>32, <2>1 DEF NotifierFrees, Gone, BinderOf
    <2>5. /\ \A d \in Cpus : d # c => cpu'[d] = cpu[d]
          /\ cpu'[c].at = "idle" /\ cpu'[c].b = None
      BY <1>0, <1>32 DEF NotifierFrees, Idle, CpuOf
    <2>6. \A d \in Cpus : cpu[d].b # None => cpu[d].b \in Binders
      BY <1>0 DEF CpuOf, CpuType
    <2>7. \A d \in Cpus : cpu[d].at = "free" => cpu[d].b \in Binders
      BY <1>0, <2>6 DEF CpuOK
    <2> HIDE DEF b
    <2> QED  BY <1>0, <2>1, <2>2, <2>3, <2>4, <2>5, <2>6, <2>7 DEF FreeOK
  <1>33. CASE UNCHANGED vars
    BY <1>0, <1>33 DEF vars, FreeOK
  <1>34. CASE Next
    <2>1. StepOf
      BY <1>34, Steps DEF IInv
    <2> QED  BY <2>1, <1>1, <1>3, <1>4, <1>4a, <1>5, <1>6, <1>7, <1>8, <1>9, <1>10, <1>11, <1>13, <1>14, <1>15,
                <1>16, <1>18, <1>20, <1>21, <1>23, <1>25, <1>26, <1>27, <1>28, <1>29, <1>30,
                <1>31, <1>32, Zenon DEF StepOf, Notifier
  <1> QED  BY <1>33, <1>34

---------------------------------------------------------------------------
(* The references to binders                                                *)

(* An encap action enters the list of a binder, or leaves it.               *)
LEMMA UsersAdd ==
    ASSUME NEW k \in Keys, NEW b \in Binders, ~encap[k].listed,
           encap'[k].listed, encap'[k].neigh = b,
           \A x \in Keys : x # k => encap'[x] = encap[x]
    PROVE  /\ Cardinality(Users(b))' = Cardinality(Users(b)) + 1
           /\ \A y \in Binders : y # b => Users(y)' = Users(y)
  <1>1. Users(b)' = Users(b) \cup {k} /\ k \notin Users(b)
    BY DEF Users
  <1>2. \A y \in Binders : y # b => Users(y)' = Users(y)
    BY DEF Users
  <1>3. IsFiniteSet(Users(b))
    BY Finite
  <1>4. Cardinality(Users(b) \cup {k}) = Cardinality(Users(b)) + 1
    BY <1>1, <1>3, FS_AddElement
  <1> QED  BY <1>1, <1>2, <1>4

LEMMA UsersDrop ==
    ASSUME NEW b \in Binders, NEW k \in Users(b), ~encap'[k].listed,
           \A x \in Keys : x # k => /\ encap'[x].neigh = encap[x].neigh
                                    /\ encap'[x].listed <=> encap[x].listed
    PROVE  /\ Cardinality(Users(b))' = Cardinality(Users(b)) - 1
           /\ \A y \in Binders : y # b => Users(y)' = Users(y)
  <1>1. Users(b)' = Users(b) \ {k}
    BY DEF Users
  <1>2. \A y \in Binders : y # b => Users(y)' = Users(y)
    BY DEF Users
  <1>3. IsFiniteSet(Users(b))
    BY SomeOf, Finite
  <1>4. Cardinality(Users(b) \ {k}) = Cardinality(Users(b)) - 1
    BY <1>3, FS_RemoveElement
  <1> QED  BY <1>1, <1>2, <1>4

LEMMA UsersKept ==
    ASSUME \A x \in Keys : /\ encap'[x].listed <=> encap[x].listed
                           /\ encap[x].listed => encap'[x].neigh = encap[x].neigh
    PROVE  \A y \in Binders : Users(y)' = Users(y)
BY DEF Users

(* A notifier takes a reference, or has released it.                        *)
LEMMA WaitingAdd ==
    ASSUME NEW c \in Cpus, NEW b \in Binders, cpu[c].at \notin {"schedule", "put"},
           cpu'[c].at \in {"schedule", "put"}, cpu'[c].b = b,
           \A d \in Cpus : d # c => cpu'[d] = cpu[d]
    PROVE  /\ Cardinality(Waiting(b))' = Cardinality(Waiting(b)) + 1
           /\ \A y \in Binders : y # b => Waiting(y)' = Waiting(y)
  <1>1. Waiting(b)' = Waiting(b) \cup {c} /\ c \notin Waiting(b)
    BY DEF Waiting
  <1>2. \A y \in Binders : y # b => Waiting(y)' = Waiting(y)
    BY DEF Waiting
  <1>3. IsFiniteSet(Waiting(b))
    BY SomeOf, Finite
  <1>4. Cardinality(Waiting(b) \cup {c}) = Cardinality(Waiting(b)) + 1
    BY <1>1, <1>3, FS_AddElement
  <1> QED  BY <1>1, <1>2, <1>4

LEMMA WaitingDrop ==
    ASSUME NEW b \in Binders, NEW c \in Waiting(b), cpu'[c].at \notin {"schedule", "put"},
           \A d \in Cpus : d # c => cpu'[d] = cpu[d]
    PROVE  /\ Cardinality(Waiting(b))' = Cardinality(Waiting(b)) - 1
           /\ \A y \in Binders : y # b => Waiting(y)' = Waiting(y)
  <1>1. Waiting(b)' = Waiting(b) \ {c}
    BY DEF Waiting
  <1>2. \A y \in Binders : y # b => Waiting(y)' = Waiting(y)
    BY DEF Waiting
  <1>3. IsFiniteSet(Waiting(b))
    BY SomeOf, Finite
  <1>4. Cardinality(Waiting(b) \ {c}) = Cardinality(Waiting(b)) - 1
    BY <1>3, FS_RemoveElement
  <1> QED  BY <1>1, <1>2, <1>4

LEMMA WaitingKept ==
    ASSUME \A d \in Cpus : \/ cpu'[d].at = cpu[d].at /\ cpu'[d].b = cpu[d].b
                           \/ /\ cpu[d].at \notin {"schedule", "put"}
                              /\ cpu'[d].at \notin {"schedule", "put"}
                           \/ /\ cpu[d].at \in {"schedule", "put"}
                              /\ cpu'[d].at \in {"schedule", "put"} /\ cpu'[d].b = cpu[d].b
    PROVE  \A y \in Binders : Waiting(y)' = Waiting(y)
BY DEF Waiting

(* A thread is at none of the places where the mutex's thread is counted.   *)
LEMMA NotCounted ==
    ASSUME job.op # "work" \/ job.at \notin {"put", "send", "rules"}, job.at \notin {"read", "init"},
           job'.op # "work" \/ job'.at \notin {"put", "send", "rules"}, job'.at \notin {"read", "init"}
    PROVE  \A b \in Binders : /\ ~Working(b) /\ Working(b)' = Working(b)
                              /\ ~Filling(b) /\ Filling(b)' = Filling(b)
  <1>1. ASSUME NEW b \in Binders  PROVE ~Working(b) /\ ~Filling(b)
    BY DEF Working, Filling
  <1>2. ASSUME NEW b \in Binders  PROVE ~Working(b)' /\ ~Filling(b)'
    BY DEF Working, Filling
  <1>3. ASSUME NEW b \in Binders  PROVE Working(b)' = Working(b) /\ Filling(b)' = Filling(b)
    BY <1>1, <1>2, Zenon DEF Working, Filling
  <1> QED  BY <1>1, <1>3

(* The work item goes on to update headers, or another thread does.         *)
LEMMA SameCounted ==
    ASSUME job.at \in {"put", "send", "rules", "unlisted", "lost", "users"},
           job'.op = job.op,
           \/ /\ job.op = "work" /\ job'.b = job.b
              /\ job.at \in {"put", "send", "rules"} /\ job'.at \in {"put", "send", "rules"}
           \/ job.op # "work" /\ job'.at \in {"send", "rules", "users", "oops"}
    PROVE  \A b \in Binders : Working(b)' = Working(b) /\ Filling(b)' = Filling(b)
  <1>1. CASE /\ job.op = "work" /\ job'.b = job.b
             /\ job.at \in {"put", "send", "rules"} /\ job'.at \in {"put", "send", "rules"}
    BY <1>1 DEF Working, Filling
  <1>2. CASE job.op # "work" /\ job'.at \in {"send", "rules", "users", "oops"}
    BY <1>2, NotCounted
  <1> QED  BY <1>1, <1>2

Counted(b) == <<Users(b), binder[b].lost, binder[b].work, binder[b].running,
                Working(b), Waiting(b), Filling(b)>>

LEMMA SumKept ==
    ASSUME NEW b \in Binders, UNCHANGED Counted(b)
    PROVE  RefSum(b)' = RefSum(b)
  <1>1. /\ Users(b)' = Users(b) /\ binder'[b].lost = binder[b].lost
        /\ binder'[b].work = binder[b].work /\ binder'[b].running = binder[b].running
        /\ Working(b)' = Working(b) /\ Waiting(b)' = Waiting(b) /\ Filling(b)' = Filling(b)
    BY DEF Counted
  <1>2. /\ Cardinality(Users(b))' = Cardinality(Users(b))
        /\ Cardinality(Waiting(b))' = Cardinality(Waiting(b))
        /\ Flag(binder[b].work)' = Flag(binder[b].work)
        /\ Flag(binder[b].running)' = Flag(binder[b].running)
        /\ Flag(Working(b))' = Flag(Working(b)) /\ Flag(Filling(b))' = Flag(Filling(b))
    BY <1>1, Zenon DEF Flag
  <1> QED  BY <1>1, <1>2, Zenon DEF RefSum

LEMMA RefsMoved ==
    ASSUME BinderRefs, NEW b \in Binders,
           \A x \in Binders : x # b => binder'[x].ref = binder[x].ref /\ UNCHANGED Counted(x),
           binder'[b].ref = RefSum(b)'
    PROVE  BinderRefs'
  <1>1. \A x \in Binders : x # b => RefSum(x)' = RefSum(x)
    BY SumKept
  <1> QED  BY <1>1 DEF BinderRefs

LEMMA RefsKept ==
    ASSUME BinderRefs,
           \A b \in Binders : binder'[b].ref = binder[b].ref /\ UNCHANGED Counted(b)
    PROVE  BinderRefs'
  <1>1. \A x \in Binders : RefSum(x)' = RefSum(x)
    BY SumKept
  <1> QED  BY <1>1 DEF BinderRefs

LEMMA Terms ==
    ASSUME IInv, NEW b \in Binders
    PROVE  /\ Cardinality(Users(b)) \in Nat /\ Cardinality(Waiting(b)) \in Nat
           /\ binder[b].lost \in Nat
           /\ Flag(binder[b].work) \in {0, 1} /\ Flag(binder[b].running) \in {0, 1}
           /\ Flag(Working(b)) \in {0, 1} /\ Flag(Filling(b)) \in {0, 1}
  <1>1. binder[b].lost \in Nat
    BY DEF IInv, Types, BinderOf, BinderType
  <1>2. /\ Flag(binder[b].work) \in {0, 1} /\ Flag(binder[b].running) \in {0, 1}
        /\ Flag(Working(b)) \in {0, 1} /\ Flag(Filling(b)) \in {0, 1}
    BY Zenon DEF Flag
  <1> QED  BY <1>1, <1>2, Finite, SomeOf

(* Steps that touch nothing that is counted.                                *)
LEMMA RefsUntouched ==
    ASSUME IInv,
           \A b \in Binders : /\ binder'[b].ref = binder[b].ref /\ binder'[b].lost = binder[b].lost
                              /\ binder'[b].work = binder[b].work
                              /\ binder'[b].running = binder[b].running,
           \A y \in Binders : Users(y)' = Users(y),
           \A y \in Binders : Waiting(y)' = Waiting(y),
           \A y \in Binders : Working(y)' = Working(y) /\ Filling(y)' = Filling(y)
    PROVE  BinderRefs'
  <1>1. \A b \in Binders : UNCHANGED Counted(b)
    BY DEF Counted
  <1> QED  BY <1>1, RefsKept DEF IInv

(* The references of a binder follow the encap actions in its list.         *)
LEMMA UsersRefs ==
    ASSUME IInv, NEW b \in Binders, NEW d \in {-1, 1},
           binder'[b].ref = binder[b].ref + d, binder'[b].lost = binder[b].lost,
           binder'[b].work = binder[b].work, binder'[b].running = binder[b].running,
           \A x \in Binders : x # b => binder'[x] = binder[x],
           Cardinality(Users(b))' = Cardinality(Users(b)) + d,
           \A y \in Binders : y # b => Users(y)' = Users(y),
           UNCHANGED cpu, job.at \notin {"put", "send", "rules", "read", "init"}, job'.at \notin {"put", "send", "rules", "read", "init"}
    PROVE  BinderRefs'
  <1>1. \A y \in Binders : /\ Waiting(y)' = Waiting(y) /\ Working(y)' = Working(y)
                           /\ Filling(y)' = Filling(y)
    <2>1. \A y \in Binders : Waiting(y)' = Waiting(y)
      BY WaitingKept
    <2>2. \A y \in Binders : Working(y)' = Working(y) /\ Filling(y)' = Filling(y)
      BY NotCounted
    <2> QED  BY <2>1, <2>2
  <1>2. RefSum(b)' = RefSum(b) + d
    <2>1. /\ Cardinality(Waiting(b))' = Cardinality(Waiting(b))
          /\ Flag(binder[b].work)' = Flag(binder[b].work)
          /\ Flag(binder[b].running)' = Flag(binder[b].running)
          /\ Flag(Working(b))' = Flag(Working(b)) /\ Flag(Filling(b))' = Flag(Filling(b))
      BY <1>1, Zenon DEF Flag
    <2> QED  BY <2>1, Terms DEF RefSum
  <1>3. \A x \in Binders : x # b => binder'[x].ref = binder[x].ref /\ UNCHANGED Counted(x)
    BY <1>1 DEF Counted
  <1>4. binder'[b].ref = RefSum(b)'
    BY <1>2 DEF IInv, BinderRefs
  <1> QED  BY <1>3, <1>4, RefsMoved DEF IInv

(* ... and the notifiers that have one.                                     *)
LEMMA WaitingRefs ==
    ASSUME IInv, NEW b \in Binders, NEW d \in {-1, 1},
           binder'[b].ref = binder[b].ref + d, binder'[b].lost = binder[b].lost,
           binder'[b].work = binder[b].work, binder'[b].running = binder[b].running,
           \A x \in Binders : x # b => binder'[x] = binder[x],
           Cardinality(Waiting(b))' = Cardinality(Waiting(b)) + d,
           \A y \in Binders : y # b => Waiting(y)' = Waiting(y),
           \A y \in Binders : /\ Users(y)' = Users(y) /\ Working(y)' = Working(y)
                              /\ Filling(y)' = Filling(y)
    PROVE  BinderRefs'
  <1>2. RefSum(b)' = RefSum(b) + d
    <2>1. /\ Cardinality(Users(b))' = Cardinality(Users(b))
          /\ Flag(binder[b].work)' = Flag(binder[b].work)
          /\ Flag(binder[b].running)' = Flag(binder[b].running)
          /\ Flag(Working(b))' = Flag(Working(b)) /\ Flag(Filling(b))' = Flag(Filling(b))
      BY Zenon DEF Flag
    <2> QED  BY <2>1, Terms DEF RefSum
  <1>3. \A x \in Binders : x # b => binder'[x].ref = binder[x].ref /\ UNCHANGED Counted(x)
    BY DEF Counted
  <1>4. binder'[b].ref = RefSum(b)'
    BY <1>2 DEF IInv, BinderRefs
  <1> QED  BY <1>3, <1>4, RefsMoved DEF IInv

LEMMA UsersPut ==
    ASSUME IInv, NEW b \in Binders, NEW k \in Users(b), ~encap'[k].listed,
           \A x \in Keys : x # k => /\ encap'[x].neigh = encap[x].neigh
                                    /\ encap'[x].listed <=> encap[x].listed,
           NEW then, PutBinder(b, then),
           UNCHANGED cpu, job.at \notin {"put", "send", "rules", "read", "init"}, job'.at \notin {"put", "send", "rules", "read", "init"}
    PROVE  BinderRefs'
  <1>1. binder[b].ref \in Nat
    BY DEF IInv, Types, BinderOf, BinderType
  <1>2. /\ binder'[b].ref = binder[b].ref + (-1) /\ binder'[b].lost = binder[b].lost
        /\ binder'[b].work = binder[b].work /\ binder'[b].running = binder[b].running
        /\ \A x \in Binders : x # b => binder'[x] = binder[x]
    BY <1>1 DEF PutBinder, IInv, Types, BinderOf, BinderType
  <1>3. /\ Cardinality(Users(b))' = Cardinality(Users(b)) - 1
        /\ \A y \in Binders : y # b => Users(y)' = Users(y)
    BY UsersDrop
  <1>4. Cardinality(Users(b))' = Cardinality(Users(b)) + (-1)
    BY <1>3, Terms
  <1> QED  BY <1>2, <1>3, <1>4, UsersRefs

(* A binder that is freed had nothing that was counted left.                *)
LEMMA GoneRefs ==
    ASSUME IInv, NEW b \in Binders, binder[b].ref = 0, synchronize_rcu(b), binder' = Gone(b)
    PROVE  \A x \in Binders : /\ binder'[x].ref = binder[x].ref /\ binder'[x].lost = binder[x].lost
                              /\ binder'[x].work = binder[x].work
                              /\ binder'[x].running = binder[x].running
  <1>0. BinderOf
    BY DEF IInv, Types
  <1>1. ~binder[b].work /\ ~binder[b].running /\ binder[b].lost = 0
    BY Unseen
  <1>2. binder[b].work = FALSE /\ binder[b].running = FALSE
    BY <1>0, <1>1 DEF BinderOf, BinderType
  <1>3. binder'[b] = NoBinder /\ \A x \in Binders : x # b => binder'[x] = binder[x]
    BY <1>0 DEF Gone, BinderOf
  <1>4. NoBinder.ref = 0 /\ NoBinder.lost = 0 /\ NoBinder.work = FALSE /\ NoBinder.running = FALSE
    BY DEF NoBinder
  <1> QED  BY <1>1, <1>2, <1>3, <1>4

LEMMA RefsIdle ==
    ASSUME IInv, UNCHANGED <<job, encap, cpu>>,
           \A b \in Binders : /\ binder'[b].ref = binder[b].ref /\ binder'[b].lost = binder[b].lost
                              /\ binder'[b].work = binder[b].work
                              /\ binder'[b].running = binder[b].running
    PROVE  BinderRefs'
  <1>1. \A y \in Binders : /\ Users(y)' = Users(y) /\ Waiting(y)' = Waiting(y)
                           /\ Working(y)' = Working(y) /\ Filling(y)' = Filling(y)
    BY DEF Users, Waiting, Working, Filling
  <1> QED  BY <1>1, RefsUntouched

LEMMA NotifierRefs ==
    ASSUME IInv, NEW c \in Cpus, Notifier(c) \/ \E v \in Hosts : Change(c, v)
    PROVE  BinderRefs'
  <1>0. BinderOf /\ CpuOf /\ CpuOK /\ FreeOK /\ BinderRefs
    BY DEF IInv, Types
  <1>1. /\ UNCHANGED <<job, encap>>
        /\ \A y \in Binders : /\ Users(y)' = Users(y) /\ Working(y)' = Working(y)
                              /\ Filling(y)' = Filling(y)
    <2>1. UNCHANGED <<job, encap>>
      BY DEF Notifier, Notify, Look, Store, TakeRef, Schedule, PutRef, NotifierFrees, Change
    <2> QED  BY <2>1 DEF Users, Working, Filling
  <1>2. Idle.at = "idle" /\ Idle.b = None
    BY DEF Idle
  <1>3. ASSUME Notify(c) \/ Look(c) \/ \E v \in Hosts : Change(c, v)  PROVE BinderRefs'
    <2>1. UNCHANGED binder
      BY <1>3 DEF Notify, Look, Change
    <2>2. /\ \A d \in Cpus : d # c => cpu'[d] = cpu[d]
          /\ cpu[c].at \in {"idle", "notify", "look"}
          /\ cpu'[c].at \in {"idle", "notify", "look", "store"}
      <3>1. CASE Notify(c)
        BY <1>0, <3>1 DEF Notify, CpuOf, CpuType
      <3>2. CASE Look(c)
        BY <1>0, <1>2, <3>2 DEF Look, CpuOf, CpuType
      <3>3. CASE \E v \in Hosts : Change(c, v)
        BY <1>0, <3>3 DEF Change, CpuOf, CpuType
      <3> QED  BY <1>3, <3>1, <3>2, <3>3
    <2>3. \A y \in Binders : Waiting(y)' = Waiting(y)
      BY <2>2, WaitingKept
    <2> QED  BY <1>1, <2>1, <2>3, RefsUntouched
  <1>4. ASSUME Store(c)  PROVE BinderRefs'
    <2>1. \A x \in Binders : /\ binder'[x].ref = binder[x].ref /\ binder'[x].lost = binder[x].lost
                             /\ binder'[x].work = binder[x].work
                             /\ binder'[x].running = binder[x].running
      BY <1>0, <1>4 DEF Store, BinderOf, BinderType
    <2>2. /\ \A d \in Cpus : d # c => cpu'[d] = cpu[d]
          /\ cpu[c].at = "store" /\ cpu'[c].at \in {"idle", "ref"}
      BY <1>0, <1>2, <1>4 DEF Store, CpuOf, CpuType
    <2>3. \A y \in Binders : Waiting(y)' = Waiting(y)
      BY <2>2, WaitingKept
    <2> QED  BY <1>1, <2>1, <2>3, RefsUntouched
  <1>5. ASSUME TakeRef(c)  PROVE BinderRefs'
    <2>1. PICK b \in Binders : b = cpu[c].b
      BY <1>0, <1>5 DEF TakeRef, CpuOK, CpuOf, CpuType
    <2>2. CASE cpu' = [cpu EXCEPT ![c] = Idle] /\ UNCHANGED binder
      <3>1. /\ \A d \in Cpus : d # c => cpu'[d] = cpu[d]
            /\ cpu[c].at = "ref" /\ cpu'[c].at = "idle"
        BY <1>0, <1>2, <1>5, <2>2 DEF TakeRef, CpuOf
      <3>2. \A y \in Binders : Waiting(y)' = Waiting(y)
        BY <3>1, WaitingKept
      <3> QED  BY <1>1, <2>2, <3>2, RefsUntouched
    <2>3. CASE /\ binder' = [binder EXCEPT ![b].ref = @ + 1]
               /\ cpu' = [cpu EXCEPT ![c].at = "schedule"]
      <3>1. /\ \A d \in Cpus : d # c => cpu'[d] = cpu[d]
            /\ cpu[c].at = "ref" /\ cpu'[c].at = "schedule" /\ cpu'[c].b = b
        BY <1>0, <1>5, <2>1, <2>3 DEF TakeRef, CpuOf, CpuType
      <3>2. /\ Cardinality(Waiting(b))' = Cardinality(Waiting(b)) + 1
            /\ \A y \in Binders : y # b => Waiting(y)' = Waiting(y)
        BY <3>1, WaitingAdd
      <3>3. /\ binder'[b].ref = binder[b].ref + 1 /\ binder'[b].lost = binder[b].lost
            /\ binder'[b].work = binder[b].work /\ binder'[b].running = binder[b].running
            /\ \A x \in Binders : x # b => binder'[x] = binder[x]
        BY <1>0, <2>3 DEF BinderOf, BinderType
      <3> QED  BY <1>1, <3>2, <3>3, WaitingRefs
    <2> QED  BY <1>5, <2>1, <2>2, <2>3 DEF TakeRef
  <1>6. ASSUME Schedule(c)  PROVE BinderRefs'
    <2>1. PICK b \in Binders : b = cpu[c].b
      BY <1>0, <1>6 DEF Schedule, CpuOK, CpuOf, CpuType
    <2>2. cpu[c].at = "schedule" /\ c \in Waiting(b)
      BY <1>6, <2>1 DEF Schedule, Waiting
    <2>3. CASE cpu' = [cpu EXCEPT ![c].at = "put"] /\ UNCHANGED binder
      <3>1. /\ \A d \in Cpus : d # c => cpu'[d] = cpu[d]
            /\ cpu'[c].at = "put" /\ cpu'[c].b = cpu[c].b
        BY <1>0, <2>3 DEF CpuOf, CpuType
      <3>2. \A y \in Binders : Waiting(y)' = Waiting(y)
        BY <2>2, <3>1, WaitingKept
      <3> QED  BY <1>1, <2>3, <3>2, RefsUntouched
    <2>4. CASE /\ ~binder[b].work /\ cpu' = [cpu EXCEPT ![c] = Idle]
               /\ \/ binder' = [binder EXCEPT ![b].work = TRUE]
                  \/ binder' = [binder EXCEPT ![b].lost = @ + 1]
      <3>1. /\ \A d \in Cpus : d # c => cpu'[d] = cpu[d]
            /\ cpu'[c].at = "idle"
        BY <1>0, <1>2, <2>4 DEF CpuOf
      <3>2. /\ Cardinality(Waiting(b))' = Cardinality(Waiting(b)) - 1
            /\ \A y \in Binders : y # b => Waiting(y)' = Waiting(y)
        BY <2>2, <3>1, WaitingDrop
      <3>3. /\ binder'[b].ref = binder[b].ref /\ binder'[b].running = binder[b].running
            /\ \A x \in Binders : x # b => binder'[x] = binder[x]
            /\ \/ binder'[b].work /\ binder'[b].lost = binder[b].lost
               \/ binder'[b].work = binder[b].work /\ binder'[b].lost = binder[b].lost + 1
        <4>1. CASE binder' = [binder EXCEPT ![b].work = TRUE]
          BY <1>0, <4>1 DEF BinderOf, BinderType
        <4>2. CASE binder' = [binder EXCEPT ![b].lost = @ + 1]
          BY <1>0, <4>2 DEF BinderOf, BinderType
        <4> QED  BY <2>4, <4>1, <4>2
      <3>4. binder'[b].ref = RefSum(b)'
        <4>1. /\ Cardinality(Users(b))' = Cardinality(Users(b))
              /\ Flag(binder[b].running)' = Flag(binder[b].running)
              /\ Flag(Working(b))' = Flag(Working(b)) /\ Flag(Filling(b))' = Flag(Filling(b))
          BY <1>1, <3>3, Zenon DEF Flag
        <4>2. Flag(binder[b].work)' + binder'[b].lost = Flag(binder[b].work) + binder[b].lost + 1
          <5>1. CASE binder'[b].work /\ binder'[b].lost = binder[b].lost
            <6>1. Flag(binder[b].work)' = 1 /\ Flag(binder[b].work) = 0
              BY <2>4, <5>1, Zenon DEF Flag
            <6>2. 1 + binder[b].lost = 0 + binder[b].lost + 1
              BY Terms
            <6> QED  BY <5>1, <6>1, <6>2, Zenon
          <5>2. CASE binder'[b].work = binder[b].work /\ binder'[b].lost = binder[b].lost + 1
            <6>1. Flag(binder[b].work)' = Flag(binder[b].work)
              BY <5>2, Zenon DEF Flag
            <6> QED  BY <5>2, <6>1, Terms
          <5> QED  BY <3>3, <5>1, <5>2
        <4>3. binder'[b].lost \in Nat /\ Flag(binder[b].work)' \in {0, 1}
          <5>1. binder'[b].lost \in Nat
            BY <3>3, Terms
          <5>2. Flag(binder[b].work)' \in {0, 1}
            BY Zenon DEF Flag
          <5> QED  BY <5>1, <5>2
        <4>4. binder[b].ref = RefSum(b)
          BY <1>0 DEF BinderRefs
        <4> QED  BY <3>2, <3>3, <4>1, <4>2, <4>3, <4>4, Terms DEF RefSum
      <3>5. \A x \in Binders : x # b => binder'[x].ref = binder[x].ref /\ UNCHANGED Counted(x)
        BY <1>1, <3>2, <3>3 DEF Counted
      <3> QED  BY <1>0, <3>4, <3>5, RefsMoved
    <2> QED  BY <1>6, <2>1, <2>3, <2>4, Zenon DEF Schedule
  <1>7. ASSUME PutRef(c)  PROVE BinderRefs'
    <2>1. PICK b \in Binders : b = cpu[c].b
      BY <1>0, <1>7 DEF PutRef, CpuOK, CpuOf, CpuType
    <2>2. c \in Waiting(b)
      BY <1>7, <2>1 DEF PutRef, Waiting
    <2>3. /\ \A d \in Cpus : d # c => cpu'[d] = cpu[d]
          /\ cpu'[c].at \in {"free", "idle"}
      BY <1>0, <1>2, <1>7 DEF PutRef, CpuOf, CpuType
    <2>4. /\ Cardinality(Waiting(b))' = Cardinality(Waiting(b)) - 1
          /\ \A y \in Binders : y # b => Waiting(y)' = Waiting(y)
      BY <2>2, <2>3, WaitingDrop
    <2>5. Cardinality(Waiting(b))' = Cardinality(Waiting(b)) + (-1)
      BY <2>4, Terms
    <2>6. binder[b].ref \in Nat
      BY <1>0 DEF BinderOf, BinderType
    <2>7. /\ binder'[b].ref = binder[b].ref + (-1) /\ binder'[b].lost = binder[b].lost
          /\ binder'[b].work = binder[b].work /\ binder'[b].running = binder[b].running
          /\ \A x \in Binders : x # b => binder'[x] = binder[x]
      BY <1>0, <1>7, <2>1, <2>6 DEF PutRef, BinderOf, BinderType
    <2> QED  BY <1>1, <2>4, <2>5, <2>7, WaitingRefs
  <1>8. ASSUME NotifierFrees(c)  PROVE BinderRefs'
    <2>1. PICK b \in Binders : b = cpu[c].b
      BY <1>0, <1>8 DEF NotifierFrees, CpuOK, CpuOf, CpuType
    <2>2. binder[b].ref = 0 /\ synchronize_rcu(b) /\ binder' = Gone(b)
      BY <1>0, <1>8, <2>1 DEF NotifierFrees, FreeOK
    <2>3. \A x \in Binders : /\ binder'[x].ref = binder[x].ref /\ binder'[x].lost = binder[x].lost
                             /\ binder'[x].work = binder[x].work
                             /\ binder'[x].running = binder[x].running
      BY <2>2, GoneRefs
    <2>4. /\ \A d \in Cpus : d # c => cpu'[d] = cpu[d]
          /\ cpu[c].at = "free" /\ cpu'[c].at = "idle"
      BY <1>0, <1>2, <1>8 DEF NotifierFrees, CpuOf
    <2>5. \A y \in Binders : Waiting(y)' = Waiting(y)
      BY <2>4, WaitingKept
    <2> QED  BY <1>1, <2>3, <2>5, RefsUntouched
  <1> QED  BY <1>3, <1>4, <1>5, <1>6, <1>7, <1>8 DEF Notifier

LEMMA BinderRefsStep ==
    ASSUME IInv, [Next]_vars
    PROVE  BinderRefs'
  <1>0. BinderOf /\ JobOf /\ CpuOf /\ EncapOf /\ Holds /\ CpuOK /\ FreeOK
    BY DEF IInv, Types, JobOK
  <1>a. ASSUME UNCHANGED <<binder, encap, cpu>>, job.at \notin {"put", "send", "rules", "read", "init"},
               job'.at \notin {"put", "send", "rules", "read", "init"}
        PROVE  BinderRefs'
    <2>1. \A y \in Binders : Users(y)' = Users(y) /\ Waiting(y)' = Waiting(y)
      BY <1>a DEF Users, Waiting
    <2> QED  BY <1>a, <2>1, NotCounted, RefsUntouched
  <1>1. ASSUME NEW r \in Rules, Destroy(r) \/ \E acts \in SUBSET Keys : Replace(r, acts)
        PROVE  BinderRefs'
    <2>1. UNCHANGED <<binder, encap, cpu>> /\ job.op = "none" /\ \E acts \in {rule[r].acts} \cup SUBSET Keys :
             \/ job' = [NoJob EXCEPT !.op = "release", !.at = "next", !.rule = r, !.todo = acts]
             \/ job' = [NoJob EXCEPT !.op = "replace", !.at = "next", !.rule = r, !.todo = acts]
      BY <1>1, Zenon DEF Destroy, Replace
    <2>2. job.at = "none" /\ job'.at = "next"
      BY <1>0, <2>1 DEF NoJob, Holds
    <2> QED  BY <1>a, <2>1, <2>2
  <1>3. ASSUME NEW k \in Keys, ShareEncap(k)  PROVE BinderRefs'
    <2>1. UNCHANGED <<binder, cpu>> /\ job.at = "next" /\ job'.at = "set"
      BY <1>0, <1>3 DEF ShareEncap, JobOf, JobType
    <2>2. \A x \in Keys : encap'[x].listed = encap[x].listed /\ encap'[x].neigh = encap[x].neigh
      BY <1>0, <1>3 DEF ShareEncap, EncapOf, EncapType
    <2>3. \A y \in Binders : Users(y)' = Users(y) /\ Waiting(y)' = Waiting(y)
      BY <2>1, <2>2, UsersKept DEF Waiting
    <2> QED  BY <2>1, <2>3, NotCounted, RefsUntouched
  <1>4. ASSUME NEW k \in Keys, NEW b \in Binders, FindOld(k, b)  PROVE BinderRefs'
    <2>1. UNCHANGED <<binder, encap, cpu>> /\ job.at = "next" /\ job'.at = "bind"
      BY <1>0, <1>4 DEF FindOld, JobOf, JobType
    <2> QED  BY <1>a, <2>1
  <1>4a. CASE BindOld
    <2>1. job.at = "bind" /\ job.b \in Binders /\ job.key \in Keys /\ UNCHANGED cpu
      BY <1>0, <1>4a, InHandAt DEF BindOld
    <2>2. CASE job' = [Undo(rule[job.rule].acts) EXCEPT !.key = None, !.b = None]
               /\ UNCHANGED <<binder, encap>>
      <3>1. job'.at = "next"
        BY <1>0, <2>2, UndoneFields
      <3> QED  BY <1>a, <2>1, <2>2, <3>1
    <2>3. CASE job' = [job EXCEPT !.at = "oops", !.b = None] /\ UNCHANGED <<binder, encap>>
      <3>1. job'.at = "oops"
        BY <1>0, <2>3 DEF JobOf, JobType
      <3> QED  BY <1>a, <2>1, <2>3, <3>1
    <2>4. CASE /\ binder' = [binder EXCEPT ![job.b].ref = @ + 1]
               /\ encap' = [encap EXCEPT ![job.key].neigh = job.b, ![job.key].listed = TRUE]
               /\ job' = [job EXCEPT !.at = "header", !.b = None]
      <3>0. PICK k \in Keys, b \in Binders : k = job.key /\ b = job.b
        BY <2>1
      <3>1. job'.at = "header" /\ encap[k].ref = 0
        BY <1>0, <2>1, <2>4, <3>0 DEF JobOf, JobType, IInv, EncapOK
      <3>2. ~encap[k].listed
        BY <2>1, <3>1 DEF IInv, EncapOK
      <3>3. /\ encap'[k].listed /\ encap'[k].neigh = b
            /\ \A x \in Keys : x # k => encap'[x] = encap[x]
        BY <1>0, <2>4, <3>0 DEF EncapOf, EncapType
      <3>4. /\ binder'[b].ref = binder[b].ref + 1 /\ binder'[b].lost = binder[b].lost
            /\ binder'[b].work = binder[b].work /\ binder'[b].running = binder[b].running
            /\ \A x \in Binders : x # b => binder'[x] = binder[x]
        BY <1>0, <2>4, <3>0 DEF BinderOf, BinderType
      <3>5. /\ Cardinality(Users(b))' = Cardinality(Users(b)) + 1
            /\ \A y \in Binders : y # b => Users(y)' = Users(y)
        BY <3>2, <3>3, UsersAdd
      <3>6. job.at \notin {"put", "send", "rules", "read", "init"}
            /\ job'.at \notin {"put", "send", "rules", "read", "init"}
        BY <2>1, <3>1
      <3> QED  BY <2>1, <3>4, <3>5, <3>6, UsersRefs
    <2> QED  BY <1>4a, <2>2, <2>3, <2>4 DEF BindOld
  <1>5. ASSUME NEW k \in Keys, BindNew(k)  PROVE BinderRefs'
    <2>1. UNCHANGED <<encap, cpu>> /\ job.at = "next"
      BY <1>5 DEF BindNew
    <2>2. \E b : /\ binder' = [binder EXCEPT ![b].at = "table"]
                 /\ job' = [job EXCEPT !.at = "route", !.key = k, !.b = b]
      BY <1>5, Zenon DEF BindNew
    <2>3. job'.at = "route"
      BY <1>0, <2>2 DEF JobOf, JobType
    <2>4. \A x \in Binders : /\ binder'[x].ref = binder[x].ref /\ binder'[x].lost = binder[x].lost
                             /\ binder'[x].work = binder[x].work
                             /\ binder'[x].running = binder[x].running
      BY <1>0, <2>2 DEF BinderOf, BinderType
    <2>5. \A y \in Binders : Users(y)' = Users(y) /\ Waiting(y)' = Waiting(y)
      BY <2>1 DEF Users, Waiting
    <2> QED  BY <2>1, <2>3, <2>4, <2>5, NotCounted, RefsUntouched
  <1>6. ASSUME NEW k \in Keys, ReleaseEncap(k)  PROVE BinderRefs'
    <2> DEFINE then == [job EXCEPT !.todo = @ \ {k}]
               b == encap[k].neigh
    <2>1. UNCHANGED cpu /\ job.at = "next" /\ then.at = "next"
      BY <1>0, <1>6 DEF ReleaseEncap, JobOf, JobType
    <2>2. CASE /\ encap[k].ref = 1 /\ b # None /\ encap[k].listed
               /\ encap' = [encap EXCEPT ![k] = NoEncap] /\ PutBinder(b, then)
      <3>1. b \in Binders /\ k \in Users(b)
        BY <2>2 DEF IInv, EncapOK, Users
      <3>2. ~encap'[k].listed /\ \A x \in Keys : x # k => encap'[x] = encap[x]
        BY <1>0, <2>2 DEF NoEncap, EncapOf
      <3>3. job'.at \in {"next", "free"}
        BY <1>0, <2>1, <2>2 DEF PutBinder, JobOf, JobType
      <3>4. PutBinder(b, then)
        BY <2>2
      <3> HIDE DEF b, then
      <3> QED  BY <2>1, <3>1, <3>2, <3>3, <3>4, UsersPut
    <2>3. CASE /\ encap' = [encap EXCEPT ![k] = NoEncap] /\ ~encap[k].listed
               /\ job' = then /\ UNCHANGED binder
      <3>1. \A x \in Keys : /\ encap'[x].listed <=> encap[x].listed
                            /\ encap[x].listed => encap'[x].neigh = encap[x].neigh
        BY <1>0, <2>3 DEF NoEncap, EncapOf, EncapType
      <3> QED  BY <2>1, <2>3, <3>1, UsersKept, WaitingKept, NotCounted, RefsUntouched
    <2>4. CASE /\ encap' = [encap EXCEPT ![k] = [encap[k] EXCEPT !.ref = @ - 1]]
               /\ job' = then /\ UNCHANGED binder
      <3>1. \A x \in Keys : /\ encap'[x].listed <=> encap[x].listed
                            /\ encap[x].listed => encap'[x].neigh = encap[x].neigh
        BY <1>0, <2>4 DEF EncapOf, EncapType
      <3> QED  BY <2>1, <2>4, <3>1, UsersKept, WaitingKept, NotCounted, RefsUntouched
    <2>5. CASE job' = [job EXCEPT !.at = "oops", !.b = None] /\ UNCHANGED <<binder, encap>>
      <3>1. job'.at = "oops"
        BY <1>0, <2>5 DEF JobOf, JobType
      <3> QED  BY <1>a, <2>1, <2>5, <3>1
    <2>6. encap[k].listed => b # None
      BY NoneIsNone DEF IInv, EncapOK
    <2>7. CASE encap[k].ref = 1
      <3>1. CASE b # None /\ ~encap[k].listed
        BY <1>6, <2>5, <2>7, <3>1, Zenon DEF ReleaseEncap
      <3>2. CASE b # None /\ encap[k].listed
        BY <1>6, <2>2, <2>7, <3>2, Zenon DEF ReleaseEncap
      <3>3. CASE b = None /\ ~encap[k].listed
        BY <1>6, <2>3, <2>7, <3>3, Zenon DEF ReleaseEncap
      <3> QED  BY <2>6, <3>1, <3>2, <3>3
    <2>8. CASE encap[k].ref # 1
      BY <1>6, <2>4, <2>8, Zenon DEF ReleaseEncap
    <2> QED  BY <2>7, <2>8
  <1>7. ASSUME (\E k \in Keys : WorkUpdates(k)) \/ SendHeader \/ UserUnlisted  PROVE BinderRefs'
    <2>1. UNCHANGED <<binder, cpu>>
      BY <1>7, Zenon DEF WorkUpdates, SendHeader, UserUnlisted
    <2>2. \A y \in Binders : Working(y)' = Working(y) /\ Filling(y)' = Filling(y)
      <3>1. CASE \E k \in Keys : WorkUpdates(k)
        BY <1>0, <3>1, UpdateJob, SameCounted
      <3>2. CASE SendHeader
        BY <1>0, <3>2, UpdateJob, SameCounted
      <3>3. CASE UserUnlisted
        BY <1>0, <3>3, UpdateJob, SameCounted
      <3> QED  BY <1>7, <3>1, <3>2, <3>3
    <2>3. SameUsers
      <3>1. Types
        BY DEF IInv
      <3> QED  BY <1>0, <1>7, <3>1, Updates
    <2>4. \A y \in Binders : Users(y)' = Users(y) /\ Waiting(y)' = Waiting(y)
      BY <2>1, <2>3, UsersKept, WaitingKept DEF SameUsers
    <2> QED  BY <2>1, <2>2, <2>4, RefsUntouched
  <1>7a. ASSUME RulesUpdated \/ \E r \in Rules : UpdateRule(r)  PROVE BinderRefs'
    <2>1. UNCHANGED <<binder, encap, cpu>>
      BY <1>7a, Zenon DEF RulesUpdated, UpdateRule
    <2>2. \A y \in Binders : Working(y)' = Working(y) /\ Filling(y)' = Filling(y)
      <3>1. CASE RulesUpdated
        BY <1>0, <3>1, UpdateJob, SameCounted
      <3>2. ASSUME NEW r \in Rules, UpdateRule(r)
            PROVE  \A y \in Binders : Working(y)' = Working(y) /\ Filling(y)' = Filling(y)
        BY <1>0, <3>2, UpdateJob, SameCounted
      <3> QED  BY <1>7a, <3>1, <3>2
    <2>4. \A y \in Binders : Users(y)' = Users(y) /\ Waiting(y)' = Waiting(y)
      BY <2>1 DEF Users, Waiting
    <2> QED  BY <2>1, <2>2, <2>4, RefsUntouched
  <1>8. ASSUME NEW k \in Keys, RemoveUser(k)  PROVE BinderRefs'
    <2> DEFINE then == [job EXCEPT !.at = "unlisted", !.key = k]
    <2>1. /\ job.at = "users" /\ job.b \in Binders /\ k \in Users(job.b)
          /\ UNCHANGED cpu /\ PutBinder(job.b, then)
      BY <1>0, <1>8, InHandAt DEF RemoveUser
    <2>2. /\ ~encap'[k].listed
          /\ \A x \in Keys : x # k => /\ encap'[x].neigh = encap[x].neigh
                                      /\ encap'[x].listed <=> encap[x].listed
      BY <1>0, <1>8 DEF RemoveUser, EncapOf, EncapType
    <2>3. then \in JobType /\ then.at = "unlisted"
      BY <1>0 DEF JobOf, JobType
    <2> HIDE DEF then
    <2>4. job'.at \in {"unlisted", "free"}
      BY <2>1, <2>3 DEF PutBinder, JobType
    <2> QED  BY <2>1, <2>2, <2>4, UsersPut
  <1>9. CASE Route
    <2>1. job.at = "route" /\ job.b \in Binders /\ binder[job.b].ref = 0 /\ UNCHANGED <<encap, cpu>>
      BY <1>0, <1>9, InHandAt DEF Route, FreeOK
    <2>2. CASE UNCHANGED binder /\ job' = [job EXCEPT !.at = "unroute"]
      <3>1. job'.at = "unroute"
        BY <1>0, <2>2 DEF JobOf, JobType
      <3> QED  BY <1>a, <2>1, <2>2, <3>1
    <2>3. CASE binder' = [binder EXCEPT ![job.b].ref = 1] /\ job' = [job EXCEPT !.at = "read"]
      <3>0. PICK b \in Binders : b = job.b
        BY <2>1
      <3>1. job'.at = "read" /\ job'.b = b
        BY <1>0, <2>3, <3>0 DEF JobOf, JobType
      <3>2. /\ binder'[b].ref = 1 /\ binder'[b].lost = binder[b].lost
            /\ binder'[b].work = binder[b].work /\ binder'[b].running = binder[b].running
            /\ \A x \in Binders : x # b => binder'[x] = binder[x]
        BY <1>0, <2>3, <3>0 DEF BinderOf, BinderType
      <3>3. \A y \in Binders : Users(y)' = Users(y) /\ Waiting(y)' = Waiting(y)
        BY <2>1 DEF Users, Waiting
      <3>4. \A y \in Binders : /\ Working(y)' = Working(y)
                               /\ y # b => Filling(y)' = Filling(y)
        BY <2>1, <3>1 DEF Working, Filling
      <3>5. binder'[b].ref = RefSum(b)'
        <4>1. /\ Cardinality(Users(b))' = Cardinality(Users(b))
              /\ Cardinality(Waiting(b))' = Cardinality(Waiting(b))
              /\ Flag(binder[b].work)' = Flag(binder[b].work)
              /\ Flag(binder[b].running)' = Flag(binder[b].running)
              /\ Flag(Working(b))' = Flag(Working(b))
          BY <3>2, <3>3, <3>4, Zenon DEF Flag
        <4>2. Flag(Filling(b))' = 1 /\ Flag(Filling(b)) = 0
          BY <2>1, <3>0, <3>1, SMT DEF Flag, Filling
        <4>3. binder[b].ref = 0 /\ binder[b].ref = RefSum(b)
          BY <2>1, <3>0 DEF IInv, BinderRefs
        <4> QED  BY <3>2, <4>1, <4>2, <4>3, Terms DEF RefSum
      <3>6. \A x \in Binders : x # b => binder'[x].ref = binder[x].ref /\ UNCHANGED Counted(x)
        BY <3>2, <3>3, <3>4 DEF Counted
      <3> QED  BY <3>5, <3>6, RefsMoved DEF IInv
    <2> QED  BY <1>9, <2>2, <2>3 DEF Route
  <1>10. CASE Unrouted \/ JobFrees
    <2>1. /\ job.at \in {"unroute", "free"} /\ synchronize_rcu(job.b) /\ binder' = Gone(job.b)
          /\ UNCHANGED <<encap, cpu>>
      BY <1>10 DEF Unrouted, JobFrees
    <2>2. job.b \in Binders /\ binder[job.b].ref = 0
      BY <1>0, <2>1, InHandAt DEF FreeOK
    <2>3. job'.at \in {"next", "lost"}
      <3>1. CASE Unrouted
        BY <1>0, <3>1 DEF Unrouted, Undo, JobOf, JobType
      <3>2. CASE JobFrees
        BY <1>0, <3>2 DEF JobFrees, JobOf, JobType
      <3> QED  BY <1>10, <3>1, <3>2
    <2>4. \A y \in Binders : Users(y)' = Users(y) /\ Waiting(y)' = Waiting(y)
      BY <2>1 DEF Users, Waiting
    <2>5. \A x \in Binders : /\ binder'[x].ref = binder[x].ref /\ binder'[x].lost = binder[x].lost
                             /\ binder'[x].work = binder[x].work
                             /\ binder'[x].running = binder[x].running
      BY <2>1, <2>2, GoneRefs
    <2> QED  BY <2>1, <2>3, <2>4, <2>5, NotCounted, RefsUntouched
  <1>11. CASE ReadNeighbour
    <2>1. /\ job.at = "read" /\ job'.at = "init" /\ job'.b = job.b /\ job'.op = job.op
          /\ job.b \in Binders /\ UNCHANGED <<encap, cpu>>
      BY <1>0, <1>11 DEF ReadNeighbour, JobOf, JobType, Holds, Binding
    <2>2. \A x \in Binders : /\ binder'[x].ref = binder[x].ref /\ binder'[x].lost = binder[x].lost
                             /\ binder'[x].work = binder[x].work
                             /\ binder'[x].running = binder[x].running
      BY <1>0, <1>11, <2>1 DEF ReadNeighbour, BinderOf, BinderType
    <2>3. \A y \in Binders : Users(y)' = Users(y) /\ Waiting(y)' = Waiting(y)
      BY <2>1 DEF Users, Waiting
    <2>4. \A y \in Binders : Working(y)' = Working(y) /\ Filling(y)' = Filling(y)
      BY <2>1 DEF Working, Filling
    <2> QED  BY <2>2, <2>3, <2>4, RefsUntouched
  <1>12. CASE InitWork
    <2>1. /\ job.op = "replace" /\ job.at = "init" /\ job'.at = "header" /\ job.b \in Binders
          /\ job.key \in Keys /\ ~encap[job.key].listed /\ UNCHANGED cpu
      BY <1>0, <1>12 DEF InitWork, JobOf, JobType, Holds, Binding, IInv, EncapOK
    <2>2. PICK b \in Binders : b = job.b
      BY <2>1
    <2>3. /\ encap'[job.key].listed /\ encap'[job.key].neigh = b
          /\ \A x \in Keys : x # job.key => encap'[x] = encap[x]
      BY <1>0, <1>12, <2>1, <2>2 DEF InitWork, EncapOf, EncapType
    <2>4. /\ Cardinality(Users(b))' = Cardinality(Users(b)) + 1
          /\ \A y \in Binders : y # b => Users(y)' = Users(y)
      <3>1. PICK k \in Keys : k = job.key
        BY <2>1
      <3> QED  BY <2>1, <2>3, <3>1, UsersAdd
    <2>5. \A x \in Binders : /\ binder'[x].ref = binder[x].ref /\ binder'[x].lost = binder[x].lost
                             /\ binder'[x].work = binder[x].work
                             /\ binder'[x].running = binder[x].running
      BY <1>0, <1>12, <2>1 DEF InitWork, BinderOf, BinderType
    <2>6. \A y \in Binders : /\ Waiting(y)' = Waiting(y) /\ Working(y)' = Working(y)
                             /\ y # b => Filling(y)' = Filling(y)
      BY <2>1, <2>2 DEF Waiting, Working, Filling
    <2>7. binder'[b].ref = RefSum(b)'
      <3>1. /\ Cardinality(Waiting(b))' = Cardinality(Waiting(b))
            /\ Flag(binder[b].work)' = Flag(binder[b].work)
            /\ Flag(binder[b].running)' = Flag(binder[b].running)
            /\ Flag(Working(b))' = Flag(Working(b))
        BY <2>5, <2>6, Zenon DEF Flag
      <3>2. Flag(Filling(b))' = 0 /\ Flag(Filling(b)) = 1
        BY <2>1, <2>2, SMT DEF Flag, Filling
      <3>3. binder[b].ref = RefSum(b)
        BY DEF IInv, BinderRefs
      <3> QED  BY <2>4, <2>5, <3>1, <3>2, <3>3, Terms DEF RefSum
    <2>8. \A x \in Binders : x # b => binder'[x].ref = binder[x].ref /\ UNCHANGED Counted(x)
      BY <2>4, <2>5, <2>6 DEF Counted
    <2> QED  BY <2>7, <2>8, RefsMoved DEF IInv
  <1>13. CASE NewHeader
    <2>1. job.op = "replace" /\ job.at = "header" /\ job.key \in Keys /\ UNCHANGED cpu
      BY <1>0, <1>13 DEF NewHeader, Holds, Binding, JobOf, JobType
    <2>2. PICK k \in Keys : k = job.key
      BY <2>1
    <2>3. encap[k].listed /\ encap[k].neigh \in Binders /\ k \in Users(encap[k].neigh)
      BY <2>1, <2>2 DEF IInv, EncapOK, Users
    <2> DEFINE hdr == Header(encap[k].neigh)
    <2>4. CASE /\ encap' = [encap EXCEPT ![k].hdr = hdr, ![k].hw = hdr, ![k].ref = 1]
               /\ job' = [job EXCEPT !.at = "set"] /\ UNCHANGED binder
      <3>1. job'.at = "set"
        BY <1>0, <2>4 DEF JobOf, JobType
      <3>2. \A x \in Keys : encap'[x].listed = encap[x].listed /\ encap'[x].neigh = encap[x].neigh
        <4> HIDE DEF hdr
        <4> QED  BY <1>0, <2>4 DEF EncapOf, EncapType
      <3> QED  BY <2>1, <2>4, <3>1, <3>2, UsersKept, WaitingKept, NotCounted, RefsUntouched
    <2>5. CASE /\ encap' = [encap EXCEPT ![k] = NoEncap]
               /\ PutBinder(encap[k].neigh, Undo(rule[job.rule].acts))
      <3>1. ~encap'[k].listed /\ \A x \in Keys : x # k => encap'[x] = encap[x]
        BY <1>0, <2>5 DEF NoEncap, EncapOf
      <3>2. job'.at \in {"next", "free"}
        BY <1>0, <2>1, <2>5 DEF PutBinder, Undo, JobOf, JobType
      <3> QED  BY <2>1, <2>3, <2>5, <3>1, <3>2, UsersPut
    <2> QED  BY <1>13, <2>2, <2>4, <2>5 DEF NewHeader
  <1>14. CASE AllocActionSet
    <2>1. UNCHANGED <<binder, encap, cpu>> /\ job.at = "set" /\ job'.at = "next"
      BY <1>0, <1>14 DEF AllocActionSet, Undo, JobOf, JobType
    <2> QED  BY <1>a, <2>1
  <1>15. CASE InsertRule
    <2>1. UNCHANGED <<binder, encap, cpu>> /\ job.at = "next"
          /\ (job' = NoJob \/ job' = Undo(rule[job.rule].acts))
      BY <1>15, Zenon DEF InsertRule
    <2>2. NoJob.at = "none" /\ Undo(rule[job.rule].acts).at = "next"
      BY <1>0 DEF NoJob, Undo, JobOf, JobType
    <2> QED  BY <1>a, <2>1, <2>2
  <1>16. CASE ReleaseDone \/ WorkDone \/ Unregistered \/ Unregister
    <2>1. UNCHANGED <<binder, encap, cpu>>
          /\ (job' = NoJob \/ job' = [NoJob EXCEPT !.op = "unregister", !.at = "next"])
      BY <1>16, Zenon DEF ReleaseDone, WorkDone, Unregistered, Unregister
    <2>2. NoJob.at = "none" /\ [NoJob EXCEPT !.op = "unregister", !.at = "next"].at = "next"
      BY DEF NoJob
    <2>3. job.at \in {"next", "none"}
      BY <1>0, <1>16 DEF ReleaseDone, WorkDone, Unregistered, Unregister, Holds
    <2> QED  BY <1>a, <2>1, <2>2, <2>3
  <1>23. CASE Grace \/ UsersRemoved
    <2>1. UNCHANGED <<binder, encap, cpu>> /\ job.at \in {"grace", "users"} /\ job'.at \in {"users", "next", "oops"}
      BY <1>0, <1>23 DEF Grace, UsersRemoved, JobOf, JobType
    <2> QED  BY <1>a, <2>1
  <1>24. CASE UserLost
    <2>1. UNCHANGED <<binder, cpu>>
      BY <1>24 DEF UserLost
    <2>2. /\ job.op = "unregister" /\ job.at = "lost" /\ job'.op = job.op /\ job.key \in Keys
          /\ job'.at \in {"send", "oops"}
      <3>1. job.at = "lost"
        BY <1>24 DEF UserLost
      <3> QED  BY <1>0, <1>24, <3>1, UpdateJob
    <2>3. \A y \in Binders : Working(y)' = Working(y) /\ Filling(y)' = Filling(y)
      BY <2>2, SameCounted
    <2>4. ~encap[job.key].listed
      BY <2>2 DEF IInv, EncapOK
    <2>5. \A x \in Keys : /\ encap'[x].listed = encap[x].listed
                          /\ x # job.key => encap'[x].neigh = encap[x].neigh
      BY <1>0, <1>24 DEF UserLost, EncapOf, EncapType
    <2> QED  BY <2>1, <2>3, <2>4, <2>5, UsersKept, WaitingKept, RefsUntouched
  <1>18. CASE WorkPuts
    <2>1. job.op = "work" /\ job.at = "put" /\ job.b \in Binders /\ UNCHANGED <<encap, cpu>>
      BY <1>0, <1>18, InHandAt DEF WorkPuts
    <2>2. PICK b \in Binders : b = job.b
      BY <2>1
    <2>3. job'.at \in {"next", "free"}
      BY <1>0, <1>18 DEF WorkPuts, PutBinder, JobOf, JobType
    <2>4. /\ binder'[b].ref = binder[b].ref - 1 /\ binder'[b].lost = binder[b].lost
          /\ binder'[b].work = binder[b].work /\ binder'[b].running = binder[b].running
          /\ \A x \in Binders : x # b => binder'[x] = binder[x]
      BY <1>0, <1>18, <2>2 DEF WorkPuts, PutBinder, BinderOf, BinderType
    <2>5. \A y \in Binders : /\ Users(y)' = Users(y) /\ Waiting(y)' = Waiting(y)
                             /\ Filling(y)' = Filling(y)
                             /\ y # b => Working(y)' = Working(y)
      BY <2>1, <2>2, <2>3 DEF Users, Waiting, Filling, Working
    <2>6. binder'[b].ref = RefSum(b)'
      <3>1. /\ Cardinality(Users(b))' = Cardinality(Users(b))
            /\ Cardinality(Waiting(b))' = Cardinality(Waiting(b))
            /\ Flag(binder[b].work)' = Flag(binder[b].work)
            /\ Flag(binder[b].running)' = Flag(binder[b].running)
            /\ Flag(Filling(b))' = Flag(Filling(b))
        BY <2>4, <2>5, Zenon DEF Flag
      <3>2. Flag(Working(b))' = 0 /\ Flag(Working(b)) = 1
        BY <2>1, <2>2, <2>3, SMT DEF Flag, Working
      <3>3. binder[b].ref = RefSum(b)
        BY DEF IInv, BinderRefs
      <3> QED  BY <2>4, <3>1, <3>2, <3>3, Terms DEF RefSum
    <2>7. \A x \in Binders : x # b => binder'[x].ref = binder[x].ref /\ UNCHANGED Counted(x)
      BY <2>4, <2>5 DEF Counted
    <2> QED  BY <2>6, <2>7, RefsMoved DEF IInv
  <1>20. ASSUME NEW b \in Binders, Dying(b)  PROVE BinderRefs'
    <2>1. job.at = "next" /\ job'.at = "grace" /\ UNCHANGED <<encap, cpu>>
      BY <1>0, <1>20 DEF Dying, JobOf, JobType
    <2>2. \A x \in Binders : /\ binder'[x].ref = binder[x].ref /\ binder'[x].lost = binder[x].lost
                             /\ binder'[x].work = binder[x].work
                             /\ binder'[x].running = binder[x].running
      BY <1>0, <1>20 DEF Dying, BinderOf, BinderType
    <2>3. \A y \in Binders : Users(y)' = Users(y) /\ Waiting(y)' = Waiting(y)
      BY <2>1 DEF Users, Waiting
    <2> QED  BY <2>1, <2>2, <2>3, NotCounted, RefsUntouched
  <1>21. ASSUME NEW b \in Binders, Unlink(b)  PROVE BinderRefs'
    <2>1. UNCHANGED <<job, encap, cpu>>
      BY <1>21 DEF Unlink
    <2>2. \A x \in Binders : /\ binder'[x].ref = binder[x].ref /\ binder'[x].lost = binder[x].lost
                             /\ binder'[x].work = binder[x].work
                             /\ binder'[x].running = binder[x].running
      BY <1>0, <1>21 DEF Unlink, BinderOf, BinderType
    <2> QED  BY <2>1, <2>2, RefsIdle
  <1>22. ASSUME NEW b \in Binders, WorkBegins(b)  PROVE BinderRefs'
    <2>1. UNCHANGED <<job, encap, cpu>> /\ binder[b].work /\ ~binder[b].running
      BY <1>22 DEF WorkBegins
    <2>2. /\ binder'[b].ref = binder[b].ref /\ binder'[b].lost = binder[b].lost
          /\ ~binder'[b].work /\ binder'[b].running
          /\ \A x \in Binders : x # b => binder'[x] = binder[x]
      BY <1>0, <1>22 DEF WorkBegins, BinderOf, BinderType
    <2>3. \A y \in Binders : /\ Users(y)' = Users(y) /\ Waiting(y)' = Waiting(y)
                             /\ Working(y)' = Working(y) /\ Filling(y)' = Filling(y)
      BY <2>1 DEF Users, Waiting, Working, Filling
    <2>4. binder'[b].ref = RefSum(b)'
      <3>1. /\ Cardinality(Users(b))' = Cardinality(Users(b))
            /\ Cardinality(Waiting(b))' = Cardinality(Waiting(b))
            /\ Flag(Working(b))' = Flag(Working(b)) /\ Flag(Filling(b))' = Flag(Filling(b))
        BY <2>3, Zenon DEF Flag
      <3>2. /\ Flag(binder[b].work) = 1 /\ Flag(binder[b].work)' = 0
            /\ Flag(binder[b].running) = 0 /\ Flag(binder[b].running)' = 1
        BY <2>1, <2>2, Zenon DEF Flag
      <3>3. binder[b].ref = RefSum(b)
        BY DEF IInv, BinderRefs
      <3> DEFINE u == Cardinality(Users(b))    w == Cardinality(Waiting(b))
                 f == Flag(Working(b))         g == Flag(Filling(b))
      <3>4. binder[b].ref = u + binder[b].lost + 1 + 0 + f + w + g
        BY <3>2, <3>3, Zenon DEF RefSum
      <3>5. RefSum(b)' = u + binder[b].lost + 0 + 1 + f + w + g
        BY <2>2, <3>1, <3>2, Zenon DEF RefSum
      <3>6. u \in Nat /\ w \in Nat /\ f \in Nat /\ g \in Nat /\ binder[b].lost \in Nat
        BY Terms
      <3> HIDE DEF u, w, f, g
      <3> QED  BY <2>2, <3>4, <3>5, <3>6
    <2>5. \A x \in Binders : x # b => binder'[x].ref = binder[x].ref /\ UNCHANGED Counted(x)
      BY <2>2, <2>3 DEF Counted
    <2> QED  BY <2>4, <2>5, RefsMoved DEF IInv
  <1>25. ASSUME NEW b \in Binders, WorkLocks(b)  PROVE BinderRefs'
    <2>1. UNCHANGED <<encap, cpu>> /\ binder[b].running /\ job.at = "none" /\ job.op = "none"
      BY <1>0, <1>25 DEF WorkLocks, Holds
    <2>2. job'.op = "work" /\ job'.at = "put" /\ job'.b = b
      BY <1>25 DEF WorkLocks, NoJob
    <2>3. /\ binder'[b].ref = binder[b].ref /\ binder'[b].lost = binder[b].lost
          /\ binder'[b].work = binder[b].work /\ ~binder'[b].running
          /\ \A x \in Binders : x # b => binder'[x] = binder[x]
      BY <1>0, <1>25 DEF WorkLocks, BinderOf, BinderType
    <2>4. \A y \in Binders : /\ Users(y)' = Users(y) /\ Waiting(y)' = Waiting(y)
                             /\ Filling(y)' = Filling(y)
                             /\ y # b => Working(y)' = Working(y)
      BY <2>1, <2>2 DEF Users, Waiting, Filling, Working
    <2>5. binder'[b].ref = RefSum(b)'
      <3>1. /\ Cardinality(Users(b))' = Cardinality(Users(b))
            /\ Cardinality(Waiting(b))' = Cardinality(Waiting(b))
            /\ Flag(binder[b].work)' = Flag(binder[b].work)
            /\ Flag(Filling(b))' = Flag(Filling(b))
        BY <2>3, <2>4, Zenon DEF Flag
      <3>2. Flag(binder[b].running) = 1 /\ Flag(binder[b].running)' = 0
        BY <2>1, <2>3, Zenon DEF Flag
      <3>3. Flag(Working(b)) = 0 /\ Flag(Working(b))' = 1
        BY <2>1, <2>2, SMT DEF Flag, Working
      <3>4. binder[b].ref = RefSum(b)
        BY DEF IInv, BinderRefs
      <3> QED  BY <2>3, <3>1, <3>2, <3>3, <3>4, Terms DEF RefSum
    <2>6. \A x \in Binders : x # b => binder'[x].ref = binder[x].ref /\ UNCHANGED Counted(x)
      BY <2>3, <2>4 DEF Counted
    <2> QED  BY <2>5, <2>6, RefsMoved DEF IInv
  <1>26. ASSUME NEW c \in Cpus, Notifier(c) \/ \E v \in Hosts : Change(c, v)  PROVE BinderRefs'
    BY <1>26, NotifierRefs
  <1>33. CASE UNCHANGED vars
    BY <1>33, RefsIdle DEF vars
  <1>34. CASE Next
    <2>1. StepOf
      BY <1>34, Steps DEF IInv
    <2> QED  BY <2>1, <1>1, <1>3, <1>4, <1>4a, <1>5, <1>6, <1>7, <1>7a, <1>8, <1>9, <1>10, <1>11, <1>12, <1>13, <1>14,
                <1>15, <1>16, <1>18, <1>20, <1>21, <1>22, <1>23, <1>24, <1>25, <1>26, Zenon
             DEF StepOf
  <1> QED  BY <1>33, <1>34

---------------------------------------------------------------------------
(* The references to encap actions                                          *)

(* The thread goes on with the same command, or begins to release what a    *)
(* rule has: the actions of the rules count as before.                      *)
LEMMA UsedKept ==
    ASSUME \A r \in Rules : /\ rule'[r].at = "none" <=> rule[r].at = "none"
                            /\ rule'[r].acts = rule[r].acts,
           \/ job'.op = job.op /\ job'.rule = job.rule /\ job'.todo = job.todo
           \/ job.op # "release" /\ job'.op # "release"
           \/ job.op # "release" /\ job'.todo = rule[job'.rule].acts
    PROVE  \A k \in Keys : UsedBy(k)' = UsedBy(k)
BY DEF UsedBy

LEMMA EncapRefsKept ==
    ASSUME EncapRefs, \A k \in Keys : encap'[k].ref = encap[k].ref,
           \A k \in Keys : UsedBy(k)' = UsedBy(k),
           job.at # "set", job'.at # "set"
    PROVE  EncapRefs'
  <1>1. \A k \in Keys : Flag(Taken(k))' = Flag(Taken(k))
    BY Zenon DEF Taken, Flag
  <1> QED  BY <1>1 DEF EncapRefs

(* One encap action gains or loses a reference.                             *)
LEMMA EncapRefsMoved ==
    ASSUME EncapRefs, NEW k \in Keys,
           \A x \in Keys : x # k => /\ encap'[x].ref = encap[x].ref /\ UsedBy(x)' = UsedBy(x)
                                    /\ ~Taken(x) /\ ~Taken(x)',
           encap'[k].ref = Cardinality(UsedBy(k))' + Flag(Taken(k))'
    PROVE  EncapRefs'
  <1>1. \A x \in Keys : x # k => Flag(Taken(x))' = Flag(Taken(x))
    BY Zenon DEF Flag
  <1> QED  BY <1>1 DEF EncapRefs

LEMMA TakenOne ==
    ASSUME IInv, NEW k \in Keys, encap'[k].ref = encap[k].ref + 1, UsedBy(k)' = UsedBy(k),
           job.at # "set", job'.at = "set", job'.key = k
    PROVE  encap'[k].ref = Cardinality(UsedBy(k))' + Flag(Taken(k))'
  <1>1. Cardinality(UsedBy(k)) \in Nat
    BY Finite, SomeOf
  <1>2. Flag(Taken(k)) = 0 /\ Flag(Taken(k))' = 1
    BY SMT DEF Flag, Taken
  <1>3. encap[k].ref = Cardinality(UsedBy(k)) + Flag(Taken(k))
    BY DEF IInv, EncapRefs
  <1>4. Cardinality(UsedBy(k))' = Cardinality(UsedBy(k))
    OBVIOUS
  <1> QED  BY <1>1, <1>2, <1>3, <1>4

LEMMA EncapRefsStep ==
    ASSUME IInv, [Next]_vars
    PROVE  EncapRefs'
  <1>0. JobOf /\ EncapOf /\ RuleOf /\ Holds /\ RulesEmpty /\ EncapRefs
    BY DEF IInv, Types, JobOK
  <1>a. ASSUME UNCHANGED <<encap, rule, job>>  PROVE EncapRefs'
    BY <1>0, <1>a DEF EncapRefs, UsedBy, Taken
  <1>b. ASSUME UNCHANGED <<encap, rule>>, job.at # "set", job'.at # "set",
               \/ job'.op = job.op /\ job'.rule = job.rule /\ job'.todo = job.todo
               \/ job.op # "release" /\ job'.op # "release"
               \/ job.op # "release" /\ job'.todo = rule[job'.rule].acts
        PROVE  EncapRefs'
    <2>1. \A k \in Keys : UsedBy(k)' = UsedBy(k)
      BY <1>b, UsedKept
    <2> QED  BY <1>0, <1>b, <2>1, EncapRefsKept
  <1>1. ASSUME NEW r \in Rules, Destroy(r)  PROVE EncapRefs'
    <2>1. /\ job.op = "none" /\ job.at = "none" /\ job'.at = "next" /\ UNCHANGED encap
          /\ job'.rule = r /\ job'.todo = rule[r].acts
      BY <1>0, <1>1 DEF Destroy, NoJob, Holds
    <2>2. \A x \in Rules : /\ rule'[x].at = "none" <=> rule[x].at = "none"
                           /\ rule'[x].acts = rule[x].acts
      BY <1>0, <1>1 DEF Destroy, RuleOf, RuleType
    <2>3. \A k \in Keys : UsedBy(k)' = UsedBy(k)
      BY <2>1, <2>2, UsedKept
    <2> QED  BY <1>0, <2>1, <2>3, EncapRefsKept
  <1>2. ASSUME NEW r \in Rules, NEW acts \in SUBSET Keys, Replace(r, acts)  PROVE EncapRefs'
    <2>1. /\ job.op = "none" /\ job.at = "none" /\ job'.op = "replace" /\ job'.at = "next"
          /\ UNCHANGED encap
      BY <1>0, <1>2 DEF Replace, NoJob, Holds
    <2>2. /\ \A x \in Rules : rule'[x].acts = rule[x].acts /\ (x # r => rule'[x].at = rule[x].at)
          /\ rule[r].acts = {}
      BY <1>0, <1>2 DEF Replace, RuleOf, RuleType, RulesEmpty
    <2>3. \A k \in Keys : UsedBy(k)' = UsedBy(k)
      BY <2>1, <2>2 DEF UsedBy
    <2> QED  BY <1>0, <2>1, <2>3, EncapRefsKept
  <1>3. ASSUME NEW k \in Keys, ShareEncap(k)  PROVE EncapRefs'
    <2>1. /\ job.op = "replace" /\ job'.op = "replace" /\ job.at = "next" /\ job'.at = "set"
          /\ job'.key = k /\ UNCHANGED rule
      BY <1>0, <1>3 DEF ShareEncap, JobOf, JobType
    <2>2. encap'[k].ref = encap[k].ref + 1 /\ \A x \in Keys : x # k => encap'[x].ref = encap[x].ref
      BY <1>0, <1>3 DEF ShareEncap, EncapOf, EncapType
    <2>3. \A x \in Keys : UsedBy(x)' = UsedBy(x)
      BY <2>1, UsedKept
    <2>4. encap'[k].ref = Cardinality(UsedBy(k))' + Flag(Taken(k))'
      BY <2>1, <2>2, <2>3, TakenOne
    <2>5. \A x \in Keys : x # k => ~Taken(x) /\ ~Taken(x)'
      BY <2>1 DEF Taken
    <2> QED  BY <1>0, <2>2, <2>3, <2>4, <2>5, EncapRefsMoved
  <1>4. ASSUME NEW k \in Keys, NEW b \in Binders, FindOld(k, b)  PROVE EncapRefs'
    <2>1. /\ UNCHANGED <<encap, rule>> /\ job.op = "replace" /\ job.at = "next"
          /\ job'.op = "replace" /\ job'.at = "bind"
      BY <1>0, <1>4 DEF FindOld, JobOf, JobType
    <2> QED  BY <1>b, <2>1
  <1>4a. CASE BindOld
    <2>1. /\ job.op = "replace" /\ job.at = "bind" /\ job.key \in Keys /\ UNCHANGED rule
      BY <1>0, <1>4a, InHandAt DEF BindOld
    <2>2. CASE job' = [Undo(rule[job.rule].acts) EXCEPT !.key = None, !.b = None] /\ UNCHANGED encap
      <3>1. job'.at = "next" /\ job'.rule = job.rule /\ job'.todo = rule[job.rule].acts
        BY <1>0, <2>2, UndoneFields
      <3> QED  BY <1>b, <2>1, <2>2, <3>1
    <2>3. CASE job' = [job EXCEPT !.at = "oops", !.b = None] /\ UNCHANGED encap
      <3>1. job'.at = "oops" /\ job'.op = "replace"
        BY <1>0, <2>1, <2>3 DEF JobOf, JobType
      <3> QED  BY <1>b, <2>1, <2>3, <3>1
    <2>4. CASE /\ encap' = [encap EXCEPT ![job.key].neigh = job.b, ![job.key].listed = TRUE]
               /\ job' = [job EXCEPT !.at = "header", !.b = None]
      <3>1. job'.op = "replace" /\ job'.at = "header"
        BY <1>0, <2>1, <2>4 DEF JobOf, JobType
      <3>2. \A x \in Keys : encap'[x].ref = encap[x].ref
        BY <1>0, <2>4 DEF EncapOf, EncapType
      <3>3. \A x \in Keys : UsedBy(x)' = UsedBy(x)
        BY <2>1, <3>1, UsedKept
      <3> QED  BY <1>0, <2>1, <3>1, <3>2, <3>3, EncapRefsKept
    <2> QED  BY <1>4a, <2>2, <2>3, <2>4 DEF BindOld
  <1>5. ASSUME NEW k \in Keys, BindNew(k)  PROVE EncapRefs'
    <2>1. UNCHANGED <<encap, rule>> /\ job.op = "replace" /\ job.at = "next"
          /\ \E b : job' = [job EXCEPT !.at = "route", !.key = k, !.b = b]
      BY <1>5, Zenon DEF BindNew
    <2>2. job'.op = "replace" /\ job'.at = "route"
      BY <1>0, <2>1 DEF JobOf, JobType
    <2> QED  BY <1>b, <2>1, <2>2
  <1>6. ASSUME NEW k \in Keys, ReleaseEncap(k)  PROVE EncapRefs'
    <2> DEFINE then == [job EXCEPT !.todo = @ \ {k}]
    <2>1. /\ job.op = "release" /\ job.at = "next" /\ k \in job.todo /\ UNCHANGED rule
          /\ job.rule \in Rules /\ rule[job.rule].at = "new" /\ k \in rule[job.rule].acts
      BY <1>0, <1>6 DEF ReleaseEncap, Holds
    <2>2. CASE UNCHANGED encap /\ job' = [job EXCEPT !.at = "oops", !.b = None]
      <3>1. /\ job'.op = job.op /\ job'.rule = job.rule /\ job'.todo = job.todo /\ job'.at = "oops"
        BY <1>0, <2>2 DEF JobOf, JobType
      <3> QED  BY <1>b, <2>1, <2>2, <3>1
    <2>3. ASSUME job' = then \/ PutBinder(encap[k].neigh, then),
                 \/ encap[k].ref = 1 /\ encap' = [encap EXCEPT ![k] = NoEncap]
                 \/ encap' = [encap EXCEPT ![k] = [encap[k] EXCEPT !.ref = @ - 1]]
          PROVE  EncapRefs'
      <3>0. /\ then \in JobType /\ then.op = "release" /\ then.rule = job.rule
            /\ then.todo = job.todo \ {k} /\ then.at = "next"
        BY <1>0, <2>1 DEF JobOf, JobType
      <3> HIDE DEF then
      <3>1. /\ job'.op = "release" /\ job'.rule = job.rule /\ job'.todo = job.todo \ {k}
            /\ job'.at \in {"next", "free"}
        <4>1. job' = then \/ job' = [then EXCEPT !.at = "free", !.b = encap[k].neigh]
          BY <2>3, Zenon DEF PutBinder
        <4>2. CASE job' = then
          BY <3>0, <4>2
        <4>3. CASE job' = [then EXCEPT !.at = "free", !.b = encap[k].neigh]
          BY <3>0, <4>3 DEF JobType
        <4> QED  BY <4>1, <4>2, <4>3
      <3>2. UsedBy(k)' = UsedBy(k) \ {job.rule} /\ job.rule \in UsedBy(k)
        BY <2>1, <3>1 DEF UsedBy
      <3>3. \A x \in Keys : x # k => UsedBy(x)' = UsedBy(x)
        BY <2>1, <3>1 DEF UsedBy
      <3>4. encap[k].ref \in Nat /\ encap'[k].ref = encap[k].ref - 1
        <4>1. encap[k].ref \in Nat
          BY <1>0 DEF EncapOf, EncapType
        <4>2. CASE encap[k].ref = 1 /\ encap' = [encap EXCEPT ![k] = NoEncap]
          BY <1>0, <4>1, <4>2 DEF EncapOf, NoEncap
        <4>3. CASE encap' = [encap EXCEPT ![k] = [encap[k] EXCEPT !.ref = @ - 1]]
          BY <1>0, <4>1, <4>3 DEF EncapOf, EncapType
        <4> QED  BY <2>3, <4>1, <4>2, <4>3
      <3>5. \A x \in Keys : x # k => encap'[x].ref = encap[x].ref
        BY <1>0, <2>3 DEF EncapOf
      <3>6. IsFiniteSet(UsedBy(k)) /\ Cardinality(UsedBy(k)) \in Nat
        BY Finite, SomeOf
      <3>7. Cardinality(UsedBy(k))' = Cardinality(UsedBy(k)) - 1
        BY <3>2, <3>6, FS_RemoveElement
      <3>8. Flag(Taken(k)) = 0 /\ Flag(Taken(k))' = 0
        BY <2>1, <3>1, SMT DEF Flag, Taken
      <3>9. encap[k].ref = Cardinality(UsedBy(k)) + Flag(Taken(k))
        BY <1>0 DEF EncapRefs
      <3>10. encap'[k].ref = Cardinality(UsedBy(k))' + Flag(Taken(k))'
        BY <3>4, <3>6, <3>7, <3>8, <3>9
      <3>11. \A x \in Keys : ~Taken(x) /\ ~Taken(x)'
        BY <2>1, <3>1 DEF Taken
      <3> QED  BY <1>0, <3>3, <3>5, <3>10, <3>11, EncapRefsMoved
    <2>4. \/ UNCHANGED encap /\ job' = [job EXCEPT !.at = "oops", !.b = None]
          \/ /\ \/ encap[k].ref = 1 /\ encap' = [encap EXCEPT ![k] = NoEncap]
                \/ encap' = [encap EXCEPT ![k] = [encap[k] EXCEPT !.ref = @ - 1]]
             /\ job' = then \/ PutBinder(encap[k].neigh, then)
      <3>1. CASE encap[k].ref = 1
        BY <1>6, <3>1, Zenon DEF ReleaseEncap
      <3>2. CASE encap[k].ref # 1
        BY <1>6, <3>2, Zenon DEF ReleaseEncap
      <3> QED  BY <3>1, <3>2
    <2> HIDE DEF then
    <2> QED  BY <2>2, <2>3, <2>4
  <1>7. ASSUME (\E k \in Keys : WorkUpdates(k)) \/ SendHeader \/ UserUnlisted  PROVE EncapRefs'
    <2>1. UNCHANGED rule
      BY <1>7, Zenon DEF WorkUpdates, SendHeader, UserUnlisted
    <2>2. /\ job.op # "release" /\ job'.op # "release" /\ job.at # "set" /\ job'.at # "set"
      <3>1. CASE \E k \in Keys : WorkUpdates(k)
        BY <1>0, <3>1, UpdateJob
      <3>2. CASE SendHeader
        BY <1>0, <3>2, UpdateJob
      <3>3. CASE UserUnlisted
        BY <1>0, <3>3, UpdateJob
      <3> QED  BY <1>7, <3>1, <3>2, <3>3
    <2>3. \A x \in Keys : encap'[x].ref = encap[x].ref
      <3>1. Types
        BY DEF IInv
      <3> QED  BY <1>0, <1>7, <3>1, Updates DEF SameUsers
    <2>4. \A x \in Keys : UsedBy(x)' = UsedBy(x)
      BY <2>1, <2>2, UsedKept
    <2> QED  BY <1>0, <2>2, <2>3, <2>4, EncapRefsKept
  <1>7a. CASE RulesUpdated
    <2>1. UNCHANGED <<encap, rule>>
      BY <1>7a DEF RulesUpdated
    <2>2. /\ job.op # "release" /\ job'.op # "release" /\ job.at # "set" /\ job'.at # "set"
      BY <1>0, <1>7a, UpdateJob
    <2> QED  BY <1>b, <2>1, <2>2
  <1>7b. ASSUME NEW r \in Rules, UpdateRule(r)  PROVE EncapRefs'
    <2>1. UNCHANGED encap
      BY <1>7b DEF UpdateRule
    <2>2. /\ job.op # "release" /\ job'.op # "release" /\ job.at # "set" /\ job'.at # "set"
      BY <1>0, <1>7b, UpdateJob
    <2>3. SameActs
      <3>1. Types
        BY DEF IInv
      <3> QED  BY <1>0, <1>7b, <3>1, Updates
    <2>4. \A x \in Keys : UsedBy(x)' = UsedBy(x)
      BY <2>2, <2>3, UsedKept DEF SameActs
    <2> QED  BY <1>0, <2>1, <2>2, <2>4, EncapRefsKept
  <1>8. ASSUME NEW k \in Keys, RemoveUser(k)  PROVE EncapRefs'
    <2>1. job.op = "unregister" /\ job.at = "users" /\ UNCHANGED rule
      BY <1>0, <1>8, InHandAt DEF RemoveUser
    <2>2. \A x \in Keys : encap'[x].ref = encap[x].ref
      BY <1>0, <1>8 DEF RemoveUser, EncapOf, EncapType
    <2>3. \/ job' = [[job EXCEPT !.at = "unlisted", !.key = k] EXCEPT !.at = "free", !.b = job.b]
          \/ job' = [job EXCEPT !.at = "unlisted", !.key = k]
      BY <1>8 DEF RemoveUser, PutBinder
    <2>4. job'.op = "unregister" /\ job'.at \in {"unlisted", "free"}
      BY <1>0, <2>1, <2>3 DEF JobOf, JobType
    <2>5. \A x \in Keys : UsedBy(x)' = UsedBy(x)
      BY <2>1, <2>4, UsedKept
    <2> QED  BY <1>0, <2>1, <2>2, <2>4, <2>5, EncapRefsKept
  <1>9. CASE Route
    <2>1. UNCHANGED <<encap, rule>> /\ job.at = "route"
      BY <1>9 DEF Route
    <2>2. job'.op = job.op /\ job'.rule = job.rule /\ job'.todo = job.todo /\ job'.at \in {"read", "unroute"}
      BY <1>0, <1>9 DEF Route, JobOf, JobType
    <2> QED  BY <1>b, <2>1, <2>2
  <1>10. CASE Unrouted
    <2>1. UNCHANGED <<encap, rule>> /\ job.at = "unroute" /\ job.op = "replace"
      BY <1>0, <1>10 DEF Unrouted, JobOf, JobType, Holds, Binding
    <2>2. job'.at = "next" /\ job'.rule = job.rule /\ job'.todo = rule[job.rule].acts
      BY <1>0, <1>10 DEF Unrouted, Undo, JobOf, JobType
    <2> QED  BY <1>b, <2>1, <2>2
  <1>11. CASE ReadNeighbour
    <2>1. UNCHANGED <<encap, rule>> /\ job.at = "read"
      BY <1>11 DEF ReadNeighbour
    <2>2. job'.op = job.op /\ job'.rule = job.rule /\ job'.todo = job.todo /\ job'.at = "init"
      BY <1>0, <1>11 DEF ReadNeighbour, JobOf, JobType
    <2> QED  BY <1>b, <2>1, <2>2
  <1>12. CASE InitWork
    <2>1. UNCHANGED rule /\ job.at = "init"
      BY <1>12 DEF InitWork
    <2>2. job'.op = job.op /\ job'.rule = job.rule /\ job'.todo = job.todo /\ job'.at = "header"
      BY <1>0, <1>12 DEF InitWork, JobOf, JobType
    <2>3. \A x \in Keys : encap'[x].ref = encap[x].ref
      BY <1>0, <1>12 DEF InitWork, EncapOf, EncapType
    <2>4. \A x \in Keys : UsedBy(x)' = UsedBy(x)
      BY <2>1, <2>2, UsedKept
    <2> QED  BY <1>0, <2>1, <2>2, <2>3, <2>4, EncapRefsKept
  <1>13. CASE NewHeader
    <2>1. job.op = "replace" /\ job.at = "header" /\ job.key \in Keys /\ UNCHANGED rule
      BY <1>0, <1>13 DEF NewHeader, Holds, Binding, JobOf, JobType
    <2>2. PICK k \in Keys : k = job.key
      BY <2>1
    <2>3. encap[k].ref = 0
      BY <2>1, <2>2 DEF IInv, EncapOK
    <2> DEFINE hdr == Header(encap[k].neigh)
    <2>4. CASE /\ encap' = [encap EXCEPT ![k].hdr = hdr, ![k].hw = hdr, ![k].ref = 1]
               /\ job' = [job EXCEPT !.at = "set"]
      <3>1. job'.op = "replace" /\ job'.at = "set" /\ job'.key = k
        BY <1>0, <2>1, <2>2, <2>4 DEF JobOf, JobType
      <3>2. encap'[k].ref = 1 /\ \A x \in Keys : x # k => encap'[x].ref = encap[x].ref
        <4> HIDE DEF hdr
        <4> QED  BY <1>0, <2>4 DEF EncapOf, EncapType
      <3>3. \A x \in Keys : UsedBy(x)' = UsedBy(x)
        BY <2>1, <3>1, UsedKept
      <3>4. encap'[k].ref = encap[k].ref + 1
        BY <2>3, <3>2
      <3>5. encap'[k].ref = Cardinality(UsedBy(k))' + Flag(Taken(k))'
        BY <2>1, <3>1, <3>3, <3>4, TakenOne
      <3>6. \A x \in Keys : x # k => ~Taken(x) /\ ~Taken(x)'
        BY <2>1, <3>1 DEF Taken
      <3> QED  BY <1>0, <3>2, <3>3, <3>5, <3>6, EncapRefsMoved
    <2>5. CASE /\ encap' = [encap EXCEPT ![k] = NoEncap]
               /\ PutBinder(encap[k].neigh, Undo(rule[job.rule].acts))
      <3>1. /\ job'.at \in {"next", "free"} /\ job'.rule = job.rule
            /\ job'.todo = rule[job.rule].acts
        BY <1>0, <2>1, <2>5 DEF PutBinder, Undo, JobOf, JobType
      <3>2. \A x \in Keys : encap'[x].ref = encap[x].ref
        BY <1>0, <2>3, <2>5 DEF NoEncap, EncapOf
      <3>3. \A x \in Keys : UsedBy(x)' = UsedBy(x)
        BY <2>1, <3>1, UsedKept
      <3> QED  BY <1>0, <2>1, <3>1, <3>2, <3>3, EncapRefsKept
    <2> QED  BY <1>13, <2>2, <2>4, <2>5 DEF NewHeader
  <1>14. CASE AllocActionSet
    <2>1. /\ job.op = "replace" /\ job.at = "set" /\ job.rule \in Rules /\ job.key \in Keys
          /\ rule[job.rule].at = "new" /\ job.key \notin rule[job.rule].acts /\ UNCHANGED encap
      BY <1>0, <1>14 DEF AllocActionSet, JobOf, JobType, Holds, Binding
    <2>2. PICK k \in Keys, r \in Rules : k = job.key /\ r = job.rule
      BY <2>1
    <2> DEFINE acts == rule[r].acts \cup {k}
    <2>3. /\ rule'[r].acts = acts /\ rule'[r].at = "new"
          /\ \A x \in Rules : x # r => rule'[x] = rule[x]
      <3>1. rule' = [rule EXCEPT ![r].acts = acts]
        BY <1>14, <2>2, Zenon DEF AllocActionSet
      <3> HIDE DEF acts
      <3> QED  BY <1>0, <2>1, <2>2, <3>1 DEF RuleOf, RuleType
    <2>4. /\ job'.rule = r /\ job'.at = "next"
          /\ job'.op = "replace" \/ (job'.op = "release" /\ job'.todo = acts)
      <3>1. CASE job' = [job EXCEPT !.at = "next", !.todo = @ \ {job.key}, !.key = None]
        BY <1>0, <2>1, <2>2, <3>1 DEF JobOf, JobType
      <3>2. CASE job' = [Undo(rule[job.rule].acts \cup {job.key}) EXCEPT !.key = None]
        BY <1>0, <2>1, <2>2, <3>2 DEF Undo, JobOf, JobType
      <3> QED  BY <1>14, <3>1, <3>2 DEF AllocActionSet
    <2>5. UsedBy(k)' = UsedBy(k) \cup {r} /\ r \notin UsedBy(k)
      BY <2>1, <2>2, <2>3, <2>4 DEF UsedBy
    <2>6. \A x \in Keys : x # k => UsedBy(x)' = UsedBy(x)
      BY <2>1, <2>2, <2>3, <2>4 DEF UsedBy
    <2>7. IsFiniteSet(UsedBy(k)) /\ Cardinality(UsedBy(k)) \in Nat
      BY Finite, SomeOf
    <2>8. Cardinality(UsedBy(k))' = Cardinality(UsedBy(k)) + 1
      BY <2>5, <2>7, FS_AddElement
    <2>9. Flag(Taken(k)) = 1 /\ Flag(Taken(k))' = 0
      BY <2>1, <2>2, <2>4, SMT DEF Flag, Taken
    <2>10. encap[k].ref = Cardinality(UsedBy(k)) + Flag(Taken(k))
      BY <1>0 DEF EncapRefs
    <2>11. encap'[k].ref = Cardinality(UsedBy(k))' + Flag(Taken(k))'
      BY <2>1, <2>7, <2>8, <2>9, <2>10
    <2>12. \A x \in Keys : x # k => ~Taken(x) /\ ~Taken(x)'
      BY <2>2, <2>4 DEF Taken
    <2> QED  BY <1>0, <2>1, <2>6, <2>11, <2>12, EncapRefsMoved
  <1>15. CASE InsertRule
    <2>1. job.op = "replace" /\ job.at = "next" /\ job.rule \in Rules /\ UNCHANGED encap
          /\ rule[job.rule].at = "new"
      BY <1>0, <1>15 DEF InsertRule, Holds
    <2>2. CASE job' = Undo(rule[job.rule].acts) /\ UNCHANGED rule
      <3>1. job'.at = "next" /\ job'.rule = job.rule /\ job'.todo = rule[job.rule].acts
        BY <1>0, <2>2 DEF Undo, JobOf, JobType
      <3> QED  BY <1>b, <2>1, <2>2, <3>1
    <2>3. CASE /\ job' = NoJob
               /\ \E resp : rule' = [rule EXCEPT ![job.rule].at = "in", ![job.rule].resp = resp]
      <3>1. job'.op = "none" /\ job'.at = "none"
        BY <2>3 DEF NoJob
      <3>2. ASSUME NEW resp, rule' = [rule EXCEPT ![job.rule].at = "in", ![job.rule].resp = resp],
                   NEW x \in Rules
            PROVE  (rule'[x].at = "none" <=> rule[x].at = "none") /\ rule'[x].acts = rule[x].acts
        <4>1. CASE x = job.rule
          BY <1>0, <2>1, <3>2, <4>1 DEF RuleOf, RuleType
        <4>2. CASE x # job.rule
          BY <1>0, <3>2, <4>2 DEF RuleOf
        <4> QED  BY <4>1, <4>2
      <3>3. \A x \in Keys : UsedBy(x)' = UsedBy(x)
        BY <2>1, <2>3, <3>1, <3>2, UsedKept
      <3> QED  BY <1>0, <2>1, <3>1, <3>3, EncapRefsKept
    <2>4. \/ job' = Undo(rule[job.rule].acts) /\ UNCHANGED rule
          \/ /\ job' = NoJob
             /\ \E resp : rule' = [rule EXCEPT ![job.rule].at = "in", ![job.rule].resp = resp]
      BY <1>15, Zenon DEF InsertRule
    <2> QED  BY <2>2, <2>3, <2>4
  <1>16. CASE ReleaseDone
    <2>1. /\ job.op = "release" /\ job.at = "next" /\ job.todo = {} /\ job.rule \in Rules
          /\ rule' = [rule EXCEPT ![job.rule] = NoRule] /\ UNCHANGED encap
          /\ job'.op = "none" /\ job'.at = "none"
      BY <1>0, <1>16 DEF ReleaseDone, NoJob, Holds
    <2>2. NoRule.at = "none"
      BY DEF NoRule
    <2>3. \A x \in Keys : UsedBy(x)' = UsedBy(x)
      BY <1>0, <2>1, <2>2 DEF UsedBy, RuleOf
    <2> QED  BY <1>0, <2>1, <2>3, EncapRefsKept
  <1>17. CASE JobFrees
    <2>1. UNCHANGED <<encap, rule>> /\ job.at = "free"
      BY <1>17 DEF JobFrees
    <2>2. job'.op = job.op /\ job'.rule = job.rule /\ job'.todo = job.todo /\ job'.at \in {"next", "lost"}
      BY <1>0, <1>17 DEF JobFrees, JobOf, JobType
    <2> QED  BY <1>b, <2>1, <2>2
  <1>18. CASE WorkPuts
    <2>1. UNCHANGED <<encap, rule>> /\ job.at = "put"
      BY <1>18 DEF WorkPuts
    <2>2. job'.op = job.op /\ job'.rule = job.rule /\ job'.todo = job.todo /\ job'.at \in {"next", "free"}
      BY <1>0, <1>18 DEF WorkPuts, PutBinder, JobOf, JobType
    <2> QED  BY <1>b, <2>1, <2>2
  <1>19. CASE WorkDone \/ Unregistered \/ Unregister
    <2>1. UNCHANGED <<encap, rule>>
          /\ (job' = NoJob \/ job' = [NoJob EXCEPT !.op = "unregister", !.at = "next"])
      BY <1>19, Zenon DEF WorkDone, Unregistered, Unregister
    <2>2. /\ NoJob.at = "none" /\ NoJob.op = "none"
          /\ [NoJob EXCEPT !.op = "unregister", !.at = "next"].at = "next"
          /\ [NoJob EXCEPT !.op = "unregister", !.at = "next"].op = "unregister"
      BY DEF NoJob
    <2>3. job.at \in {"next", "none"} /\ job.op # "release"
      BY <1>0, <1>19 DEF WorkDone, Unregistered, Unregister, Holds
    <2>4. job'.op # "release" /\ job'.at # "set"
      BY <2>1, <2>2
    <2> QED  BY <1>b, <2>1, <2>3, <2>4
  <1>20. ASSUME NEW b \in Binders, Dying(b) \/ WorkLocks(b)  PROVE EncapRefs'
    <2>1. /\ UNCHANGED <<encap, rule>> /\ job.op # "release" /\ job'.op # "release"
          /\ job.at # "set" /\ job'.at # "set"
      BY <1>0, <1>20 DEF Dying, WorkLocks, NoJob, JobOf, JobType, Holds
    <2> QED  BY <1>b, <2>1
  <1>21. ASSUME NEW b \in Binders, WorkBegins(b) \/ Unlink(b)  PROVE UNCHANGED <<encap, rule, job>>
    BY <1>21 DEF WorkBegins, Unlink
  <1>23. CASE Grace \/ UsersRemoved
    <2>1. UNCHANGED <<encap, rule>> /\ job.at # "set" /\ job'.at # "set"
          /\ job'.op = job.op /\ job'.rule = job.rule /\ job'.todo = job.todo
      BY <1>0, <1>23 DEF Grace, UsersRemoved, JobOf, JobType
    <2> QED  BY <1>b, <2>1
  <1>24. CASE UserLost
    <2>1. UNCHANGED rule
      BY <1>24 DEF UserLost
    <2>2. /\ job.op # "release" /\ job'.op # "release" /\ job.at # "set" /\ job'.at # "set"
      BY <1>0, <1>24, UpdateJob
    <2>3. \A x \in Keys : encap'[x].ref = encap[x].ref
      BY <1>0, <1>24 DEF UserLost, EncapOf, EncapType
    <2>4. \A x \in Keys : UsedBy(x)' = UsedBy(x)
      BY <2>1, <2>2, UsedKept
    <2> QED  BY <1>0, <2>2, <2>3, <2>4, EncapRefsKept
  <1>26. ASSUME NEW c \in Cpus, Notifier(c) \/ \E v \in Hosts : Change(c, v)
         PROVE  UNCHANGED <<encap, rule, job>>
    BY <1>26 DEF Notifier, Notify, Look, Store, TakeRef, Schedule, PutRef, NotifierFrees, Change
  <1>33. CASE UNCHANGED vars
    BY <1>a, <1>33 DEF vars
  <1>34. CASE Next
    <2>1. StepOf
      BY <1>34, Steps DEF IInv
    <2> QED  BY <2>1, <1>a, <1>1, <1>2, <1>3, <1>4, <1>4a, <1>5, <1>6, <1>7, <1>7a, <1>7b, <1>8, <1>9, <1>10, <1>11, <1>12,
                <1>13, <1>14, <1>15, <1>16, <1>17, <1>18, <1>19, <1>20, <1>21, <1>23, <1>24, <1>26,
                Zenon DEF StepOf
  <1> QED  BY <1>33, <1>34

---------------------------------------------------------------------------
(* What the NIC does                                                        *)

OneInTable == \A b, d \in InTable : b = d

(* Binder b has the state of the neighbour, or a notifier will tell it.     *)
Tells(c, b) ==
    \/ cpu[c].at = "notify"
    \/ cpu[c].at = "look" /\ cpu[c].seen = nb
    \/ cpu[c].at = "store" /\ cpu[c].b = b /\ cpu[c].seen = nb
Knows(b) == binder[b].val = nb \/ \E c \in Cpus : Tells(c, b)

(* It has read the state of the neighbour.                                  *)
HasRead(b) == binder[b].ready \/ (job.at = "init" /\ job.b = b)

Following ==
    \A b \in InTable : HasRead(b) => binder[b].dying \/ b \in late \/ Knows(b)

(* A new binder has no users yet; the headers that a work item goes through *)
(* are those of its binder, and so is that of an encap action that has just *)
(* left the list.                                                           *)
InHand ==
    /\ job.at \in Binding => Users(job.b) = {}
    /\ job.op = "work" => \A k \in job.todo : k \in Users(job.b)
    /\ job.op = "work" /\ job.at = "send" => job.key \in Users(job.b)
    /\ job.at = "unlisted" => encap[job.key].neigh = job.b

HeadersFollow == \A k \in Keys : encap[k].ref > 0 /\ encap[k].listed => HeaderFollows(k)

(* The header that the work item sends is that of the binder, or there will *)
(* be another.                                                              *)
Current(b) == Due(b) \/ binder[b].lost > 0
SendFollows == job.op = "work" /\ job.at = "send"
                  => Current(job.b) \/ encap[job.key].hdr = binder[job.b].val

(* The header in the NIC is the one that was built, unless it is being sent *)
(* or that failed; an encap action that lost its binder has no valid one.   *)
Sent(k) == /\ k \in failed \/ Sending(k) \/ encap[k].hw = encap[k].hdr
           /\ encap[k].neigh = None => encap[k].hdr = None
HeadersSent == \A k \in Keys : encap[k].ref > 0 => Sent(k)

RulesFollow == \A r \in Rules : rule[r].at = "in" => RuleFollows(r)

NicInv == OneInTable /\ Following /\ InHand /\ HeadersFollow /\ SendFollows /\ HeadersSent /\ RulesFollow

---------------------------------------------------------------------------
(* What some steps do, field by field.                                      *)

Apart(b) == /\ binder'[b].at = binder[b].at /\ binder'[b].val = binder[b].val
            /\ binder'[b].dying = binder[b].dying /\ binder'[b].ready = binder[b].ready
            /\ binder'[b].work = binder[b].work /\ binder'[b].running = binder[b].running
            /\ binder'[b].lost = binder[b].lost

LEMMA Begins ==
    ASSUME NEW r \in Rules, Destroy(r) \/ \E acts \in SUBSET Keys : Replace(r, acts)
    PROVE  /\ job.op = "none" /\ job'.op \in {"release", "replace"} /\ job'.at = "next"
           /\ UNCHANGED <<setting, nb, binder, encap, cpu, late, failed>>
  <1>1. /\ job.op = "none" /\ UNCHANGED <<setting, nb, binder, encap, cpu, late, failed>>
        /\ \E acts \in {rule[r].acts} \cup SUBSET Keys :
             \/ job' = [NoJob EXCEPT !.op = "release", !.at = "next", !.rule = r, !.todo = acts]
             \/ job' = [NoJob EXCEPT !.op = "replace", !.at = "next", !.rule = r, !.todo = acts]
    BY Zenon DEF Destroy, Replace
  <1>2. job'.op \in {"release", "replace"} /\ job'.at = "next"
    BY <1>1 DEF NoJob
  <1> QED  BY <1>1, <1>2

LEMMA TakesNew ==
    ASSUME IInv, NEW k \in Keys, BindNew(k)
    PROVE  /\ job.op = "replace" /\ job.at = "next" /\ InTable = {}
           /\ UNCHANGED <<setting, nb, encap, rule, cpu, late, failed>>
           /\ job'.op = "replace" /\ job'.at = "route" /\ job'.b \in Binders
           /\ binder[job'.b] = NoBinder
           /\ \A x \in Binders : /\ (x # job'.b => binder'[x] = binder[x])
                                 /\ binder'[x].val = binder[x].val /\ binder'[x].lost = binder[x].lost
                                 /\ binder'[x].ready = binder[x].ready
                                 /\ binder'[x].work = binder[x].work
                                 /\ binder'[x].running = binder[x].running
  <1>0. BinderOf /\ JobOf /\ FreeOK
    BY DEF IInv, Types
  <1> DEFINE unused == {b \in Binders : binder[b].at = "free"}
             b == CHOOSE x \in unused : TRUE
  <1>1. b \in Binders /\ binder[b].at = "free"
    BY DEF BindNew
  <1>2. /\ binder' = [binder EXCEPT ![b].at = "table"]
        /\ job' = [job EXCEPT !.at = "route", !.key = k, !.b = b]
        /\ job.op = "replace" /\ job.at = "next" /\ InTable = {}
        /\ UNCHANGED <<setting, nb, encap, rule, cpu, late, failed>>
    BY Zenon DEF BindNew
  <1> HIDE DEF b
  <1>3. job'.op = "replace" /\ job'.at = "route" /\ job'.b = b
    BY <1>0, <1>2 DEF JobOf, JobType
  <1>4. \A x \in Binders : /\ (x # b => binder'[x] = binder[x])
                           /\ binder'[x].val = binder[x].val /\ binder'[x].lost = binder[x].lost
                           /\ binder'[x].ready = binder[x].ready
                           /\ binder'[x].work = binder[x].work
                           /\ binder'[x].running = binder[x].running
    BY <1>0, <1>1, <1>2 DEF BinderOf, BinderType
  <1>5. binder[b] = NoBinder
    BY <1>0, <1>1 DEF FreeOK
  <1> QED  BY <1>1, <1>2, <1>3, <1>4, <1>5

LEMMA Binds ==
    ASSUME IInv, BindOld
    PROVE  /\ job.op = "replace" /\ job.at = "bind" /\ job.key \in Keys /\ encap[job.key].ref = 0
           /\ UNCHANGED <<setting, nb, rule, cpu, late, failed>>
           /\ job'.op \in {"replace", "release"} /\ job'.at \in {"next", "oops", "header"}
           /\ encap'[job.key].ref = 0
           /\ \A x \in Keys : /\ encap'[x].hw = encap[x].hw
                              /\ x # job.key => encap'[x] = encap[x]
           /\ \A x \in Binders : Apart(x)
  <1>0. BinderOf /\ EncapOf /\ JobOf /\ Holds /\ EncapOK
    BY DEF IInv, Types, JobOK
  <1>1. /\ job.op = "replace" /\ job.at = "bind" /\ job.key \in Keys /\ job.b \in Binders
        /\ UNCHANGED <<setting, nb, rule, cpu, late, failed>>
    BY <1>0, InHandAt DEF BindOld
  <1>2. encap[job.key].ref = 0
    BY <1>0, <1>1 DEF EncapOK
  <1>3. CASE /\ job' = [Undo(rule[job.rule].acts) EXCEPT !.key = None, !.b = None]
             /\ UNCHANGED <<binder, encap>>
    <2>1. job'.op = "release" /\ job'.at = "next"
      BY <1>0, <1>3, UndoneFields
    <2> QED  BY <1>1, <1>2, <1>3, <2>1 DEF Apart
  <1>4. CASE job' = [job EXCEPT !.at = "oops", !.b = None] /\ UNCHANGED <<binder, encap>>
    <2>1. job'.op = "replace" /\ job'.at = "oops"
      BY <1>0, <1>1, <1>4 DEF JobOf, JobType
    <2> QED  BY <1>1, <1>2, <1>4, <2>1 DEF Apart
  <1>5. CASE /\ binder' = [binder EXCEPT ![job.b].ref = @ + 1]
             /\ encap' = [encap EXCEPT ![job.key].neigh = job.b, ![job.key].listed = TRUE]
             /\ job' = [job EXCEPT !.at = "header", !.b = None]
    <2>1. job'.op = "replace" /\ job'.at = "header"
      BY <1>0, <1>1, <1>5 DEF JobOf, JobType
    <2>2. \A x \in Keys : /\ encap'[x].hw = encap[x].hw /\ encap'[x].ref = encap[x].ref
                          /\ x # job.key => encap'[x] = encap[x]
      BY <1>0, <1>1, <1>5 DEF EncapOf, EncapType
    <2>3. \A x \in Binders : Apart(x)
      BY <1>0, <1>1, <1>5 DEF BinderOf, BinderType, Apart
    <2> QED  BY <1>1, <1>2, <2>1, <2>2, <2>3
  <1> QED  BY <1>3, <1>4, <1>5, Zenon DEF BindOld

LEMMA Removes ==
    ASSUME IInv, NEW k \in Keys, RemoveUser(k)
    PROVE  /\ job.op = "unregister" /\ job.at = "users" /\ job.b \in Binders /\ k \in Users(job.b)
           /\ UNCHANGED <<setting, nb, rule, cpu, late, failed>>
           /\ job'.op = "unregister" /\ job'.at \in {"unlisted", "free"}
           /\ job'.at = "unlisted" => job'.key = k /\ job'.b = job.b
           /\ \A x \in Keys : /\ encap'[x].ref = encap[x].ref /\ encap'[x].neigh = encap[x].neigh
                              /\ encap'[x].hdr = encap[x].hdr /\ encap'[x].hw = encap[x].hw
                              /\ x # k => encap'[x] = encap[x]
           /\ ~encap'[k].listed
           /\ \A x \in Binders : Apart(x)
  <1>0. BinderOf /\ EncapOf /\ JobOf /\ Holds
    BY DEF IInv, Types, JobOK
  <1> DEFINE then == [job EXCEPT !.at = "unlisted", !.key = k]
  <1>1. /\ job.op = "unregister" /\ job.at = "users" /\ job.b \in Binders /\ k \in Users(job.b)
        /\ UNCHANGED <<setting, nb, rule, cpu, late, failed>>
        /\ encap' = [encap EXCEPT ![k].listed = FALSE] /\ PutBinder(job.b, then)
    BY <1>0, InHandAt DEF RemoveUser
  <1>2. then \in JobType /\ then.op = "unregister" /\ then.at = "unlisted" /\ then.key = k
        /\ then.b = job.b
    BY <1>0, <1>1 DEF JobOf, JobType
  <1>3. \A x \in Keys : /\ encap'[x].ref = encap[x].ref /\ encap'[x].neigh = encap[x].neigh
                        /\ encap'[x].hdr = encap[x].hdr /\ encap'[x].hw = encap[x].hw
                        /\ x # k => encap'[x] = encap[x]
    BY <1>0, <1>1 DEF EncapOf, EncapType
  <1>4. ~encap'[k].listed
    BY <1>0, <1>1 DEF EncapOf, EncapType
  <1> HIDE DEF then
  <1>5. \A x \in Binders : Apart(x)
    BY <1>0, <1>1 DEF PutBinder, BinderOf, BinderType, Apart
  <1>6. job' = then \/ job' = [then EXCEPT !.at = "free", !.b = job.b]
    BY <1>1, Zenon DEF PutBinder
  <1>7. /\ job'.op = "unregister" /\ job'.at \in {"unlisted", "free"}
        /\ job'.at = "unlisted" => job'.key = k /\ job'.b = job.b
    BY <1>2, <1>6 DEF JobType
  <1> QED  BY <1>1, <1>3, <1>4, <1>5, <1>7

(* The headers that are built.                                              *)
LEMMA HeaderBuilt ==
    ASSUME IInv
    PROVE  /\ \A k \in Keys : WorkUpdates(k) =>
                 /\ encap'[k].hdr = binder[job.b].val
                 /\ \A x \in Keys : encap'[x].hw = encap[x].hw /\ (x # k => encap'[x] = encap[x])
           /\ UserUnlisted =>
                 \A x \in Keys : encap'[x].hw = encap[x].hw /\ (x # job.key => encap'[x] = encap[x])
           /\ UserLost =>
                 /\ encap'[job.key].hdr = None /\ ~encap'[job.key].listed
                 /\ \A x \in Keys : /\ encap'[x].hw = encap[x].hw /\ encap'[x].ref = encap[x].ref
                                    /\ x # job.key => encap'[x] = encap[x]
  <1>0. BinderOf /\ EncapOf /\ JobOf /\ Holds /\ EncapOK
    BY DEF IInv, Types, JobOK
  <1>1. ASSUME NEW k \in Keys, NEW hdr, encap' = [encap EXCEPT ![k].hdr = hdr]
        PROVE  /\ encap'[k].hdr = hdr
               /\ \A x \in Keys : encap'[x].hw = encap[x].hw /\ (x # k => encap'[x] = encap[x])
    BY <1>0, <1>1 DEF EncapOf, EncapType
  <1>2. ASSUME NEW k \in Keys, WorkUpdates(k)
        PROVE  /\ encap'[k].hdr = binder[job.b].val
               /\ \A x \in Keys : encap'[x].hw = encap[x].hw /\ (x # k => encap'[x] = encap[x])
    BY <1>1, <1>2 DEF WorkUpdates, Header
  <1>3. ASSUME UserUnlisted
        PROVE  \A x \in Keys : encap'[x].hw = encap[x].hw /\ (x # job.key => encap'[x] = encap[x])
    <2>1. job.key \in Keys
      BY <1>0, <1>3, UpdateJob
    <2>2. UNCHANGED encap \/ \E hdr : encap' = [encap EXCEPT ![job.key].hdr = hdr]
      BY <1>3, Zenon DEF UserUnlisted
    <2> QED  BY <1>1, <2>1, <2>2
  <1>4. ASSUME UserLost
        PROVE  /\ encap'[job.key].hdr = None /\ ~encap'[job.key].listed
               /\ \A x \in Keys : /\ encap'[x].hw = encap[x].hw /\ encap'[x].ref = encap[x].ref
                                  /\ x # job.key => encap'[x] = encap[x]
    <2>1. job.op = "unregister" /\ job.at = "lost" /\ job.key \in Keys
      BY <1>0, <1>4, UpdateJob DEF UserLost
    <2>2. ~encap[job.key].listed
      BY <1>0, <2>1 DEF EncapOK
    <2>3. encap' = [encap EXCEPT ![job.key].neigh = None, ![job.key].hdr = None]
      BY <1>4 DEF UserLost
    <2> QED  BY <1>0, <2>1, <2>2, <2>3 DEF EncapOf, EncapType
  <1> QED  BY <1>2, <1>3, <1>4

---------------------------------------------------------------------------
(* Binders follow the neighbour                                             *)

Telling == {"notify", "look", "store"}

(* A step that changes neither the neighbour nor what binders and notifiers *)
(* know of it.                                                              *)
LEMMA FollowingKept ==
    ASSUME OneInTable, Following, UNCHANGED nb,
           \A c \in Cpus : cpu[c].at \in Telling => cpu'[c] = cpu[c],
           \A b \in Binders : binder'[b].at = "table" =>
               /\ binder[b].at = "table" /\ binder'[b].val = binder[b].val
               /\ binder[b].dying => binder'[b].dying
               /\ HasRead(b)' => HasRead(b)
               /\ b \in late => b \in late'
    PROVE  OneInTable' /\ Following'
  <1>1. InTable' \subseteq InTable
    BY DEF InTable
  <1>2. OneInTable'
    BY <1>1 DEF OneInTable
  <1>3. ASSUME NEW b \in Binders, binder'[b].at = "table", HasRead(b)'
        PROVE  binder'[b].dying \/ b \in late' \/ Knows(b)'
    <2>1. binder[b].dying \/ b \in late \/ Knows(b)
      BY <1>3 DEF Following, InTable
    <2>2. Knows(b) => Knows(b)'
      <3>1. ASSUME NEW c \in Cpus, Tells(c, b)  PROVE Tells(c, b)'
        <4>1. cpu'[c] = cpu[c]
          BY <3>1 DEF Tells, Telling
        <4> QED  BY <3>1, <4>1 DEF Tells
      <3> QED  BY <1>3, <3>1 DEF Knows
    <2> QED  BY <1>3, <2>1, <2>2
  <1> QED  BY <1>2, <1>3 DEF Following, InTable

(* As long as binders, or all but their references and work, are as before. *)
LEMMA FollowingSame ==
    ASSUME OneInTable, Following, UNCHANGED <<nb, cpu, late>>,
           \A b \in Binders : /\ binder'[b].at = binder[b].at /\ binder'[b].val = binder[b].val
                              /\ binder'[b].dying = binder[b].dying /\ binder'[b].ready = binder[b].ready,
           job'.at # "init"
    PROVE  OneInTable' /\ Following'
  <1>1. \A b \in Binders : HasRead(b)' => HasRead(b)
    BY DEF HasRead
  <1> QED  BY <1>1, FollowingKept

LEMMA PutSame ==
    ASSUME BinderOf, NEW b \in Binders, NEW then, PutBinder(b, then)
    PROVE  \A x \in Binders : /\ binder'[x].at = binder[x].at /\ binder'[x].val = binder[x].val
                              /\ binder'[x].dying = binder[x].dying /\ binder'[x].ready = binder[x].ready
                              /\ binder'[x].work = binder[x].work /\ binder'[x].running = binder[x].running
                              /\ binder'[x].lost = binder[x].lost
BY DEF PutBinder, BinderOf, BinderType

LEMMA PutJob ==
    ASSUME NEW b \in Binders, NEW then \in JobType, PutBinder(b, then)
    PROVE  /\ job'.op = then.op /\ job'.rule = then.rule /\ job'.todo = then.todo /\ job'.key = then.key
           /\ job'.at = then.at \/ (job'.at = "free" /\ job'.b = b)
BY DEF PutBinder, JobType

LEMMA GoneFollowing ==
    ASSUME BinderOf, OneInTable, Following, NEW d \in Binders, binder' = Gone(d), late' = late \ {d},
           UNCHANGED nb, \A c \in Cpus : cpu[c].at \in Telling => cpu'[c] = cpu[c],
           job'.at # "init" \/ UNCHANGED job
    PROVE  OneInTable' /\ Following'
  <1>1. binder'[d] = NoBinder /\ \A b \in Binders : b # d => binder'[b] = binder[b]
    BY DEF Gone, BinderOf
  <1>2. binder'[d].at # "table"
    BY <1>1 DEF NoBinder
  <1>3. \A b \in Binders : b # d => (HasRead(b)' => HasRead(b))
    BY <1>1 DEF HasRead
  <1> QED  BY <1>1, <1>2, <1>3, FollowingKept

LEMMA NotifierFollowing ==
    ASSUME IInv, OneInTable, Following, NEW c \in Cpus, Notifier(c)
    PROVE  OneInTable' /\ Following'
  <1>0. BinderOf /\ CpuOf /\ CpuOK
    BY DEF IInv, Types
  <1>1. CASE Notify(c)
    <2>1. /\ UNCHANGED <<nb, binder, job, late>> /\ cpu[c].at = "notify"
          /\ cpu' = [cpu EXCEPT ![c].at = "look", ![c].seen = nb]
      BY <1>1 DEF Notify
    <2>2. /\ cpu'[c].at = "look" /\ cpu'[c].seen = nb
          /\ \A d \in Cpus : d # c => cpu'[d] = cpu[d]
      BY <1>0, <2>1 DEF CpuOf, CpuType
    <2>3. \A b \in Binders : Knows(b)'
      BY <2>1, <2>2 DEF Knows, Tells
    <2> QED  BY <2>1, <2>3 DEF OneInTable, Following, InTable, HasRead
  <1>2. CASE Look(c)
    <2>1. UNCHANGED <<nb, binder, job, late>> /\ cpu[c].at = "look"
      BY <1>2 DEF Look
    <2>2. \A d \in Cpus : d # c => cpu'[d] = cpu[d]
      BY <1>0, <1>2 DEF Look, CpuOf
    <2>3. CASE \E b \in InTable : /\ ~binder[b].dying
                                  /\ cpu' = [cpu EXCEPT ![c].at = "store", ![c].b = b]
      <3> PICK b \in InTable : ~binder[b].dying /\ cpu' = [cpu EXCEPT ![c].at = "store", ![c].b = b]
        BY <2>3
      <3>1. cpu'[c].at = "store" /\ cpu'[c].b = b /\ cpu'[c].seen = cpu[c].seen
        BY <1>0 DEF CpuOf, CpuType
      <3>2. Knows(b) => Knows(b)'
        BY <2>1, <2>2, <3>1 DEF Knows, Tells
      <3>3. \A x \in InTable : x = b
        BY DEF OneInTable
      <3> QED  BY <2>1, <3>2, <3>3 DEF OneInTable, Following, InTable, HasRead
    <2>4. CASE \A b \in InTable : binder[b].dying
      BY <2>1, <2>4 DEF OneInTable, Following, InTable, HasRead
    <2> QED  BY <1>2, <2>3, <2>4 DEF Look
  <1>3. CASE Store(c)
    <2> PICK b : b = cpu[c].b
      OBVIOUS
    <2>1. /\ UNCHANGED <<nb, job>> /\ cpu[c].at = "store"
          /\ late' = IF cpu[c].seen = nb THEN late \ {b} ELSE late \cup {b}
      BY <1>3 DEF Store
    <2>2. b \in Binders
      BY <1>0, <2>1 DEF CpuOK, CpuOf, CpuType
    <2>3. \A d \in Cpus : d # c => cpu'[d] = cpu[d]
      BY <1>0, <1>3 DEF Store, CpuOf
    <2>4. /\ binder'[b].val = cpu[c].seen /\ binder'[b].at = binder[b].at
          /\ binder'[b].ready = binder[b].ready /\ binder'[b].dying = binder[b].dying
          /\ \A x \in Binders : x # b => binder'[x] = binder[x]
      BY <1>0, <1>3, <2>2 DEF Store, BinderOf, BinderType
    <2>5. b \in late' \/ Knows(b)'
      BY <2>1, <2>4 DEF Knows
    <2>6. ASSUME NEW x \in Binders, x # b, Knows(x)  PROVE Knows(x)'
      <3>1. ASSUME NEW d \in Cpus, Tells(d, x)  PROVE d # c
        BY <2>1, <2>6, <3>1 DEF Tells
      <3> QED  BY <2>1, <2>3, <2>4, <2>6, <3>1 DEF Knows, Tells
    <2>7. \A x \in Binders : x # b /\ x \in late => x \in late'
      BY <2>1
    <2> QED  BY <2>1, <2>2, <2>4, <2>5, <2>6, <2>7 DEF OneInTable, Following, InTable, HasRead
  <1>4. CASE TakeRef(c) \/ Schedule(c) \/ PutRef(c)
    <2> PICK b : b = cpu[c].b
      OBVIOUS
    <2>1. /\ UNCHANGED <<nb, job, late>> /\ cpu[c].at \in {"ref", "schedule", "put"}
      BY <1>4 DEF TakeRef, Schedule, PutRef
    <2>2. b \in Binders
      BY <1>0, <2>1 DEF CpuOK, CpuOf, CpuType
    <2>3. \A d \in Cpus : d # c => cpu'[d] = cpu[d]
      BY <1>0, <1>4 DEF TakeRef, Schedule, PutRef, CpuOf
    <2>4. \A x \in Binders : /\ binder'[x].at = binder[x].at /\ binder'[x].val = binder[x].val
                             /\ binder'[x].dying = binder[x].dying /\ binder'[x].ready = binder[x].ready
      <3>1. \/ UNCHANGED binder
            \/ \E n : binder' = [binder EXCEPT ![b].ref = n]
            \/ binder' = [binder EXCEPT ![b].work = TRUE]
            \/ \E n : binder' = [binder EXCEPT ![b].lost = n]
        BY <1>4, Zenon DEF TakeRef, Schedule, PutRef
      <3>2. CASE UNCHANGED binder
        BY <3>2
      <3>3. ASSUME NEW n, \/ binder' = [binder EXCEPT ![b].ref = n]
                          \/ binder' = [binder EXCEPT ![b].work = n]
                          \/ binder' = [binder EXCEPT ![b].lost = n]
            PROVE  \A x \in Binders : /\ binder'[x].at = binder[x].at /\ binder'[x].val = binder[x].val
                                      /\ binder'[x].dying = binder[x].dying
                                      /\ binder'[x].ready = binder[x].ready
        BY <1>0, <2>2, <3>3 DEF BinderOf, BinderType
      <3> QED  BY <3>1, <3>2, <3>3, Zenon
    <2>5. \A x \in Binders : HasRead(x)' => HasRead(x)
      BY <2>1, <2>4 DEF HasRead
    <2>6. \A d \in Cpus : cpu[d].at \in Telling => cpu'[d] = cpu[d]
      BY <2>1, <2>3 DEF Telling
    <2> QED  BY <2>1, <2>4, <2>5, <2>6, FollowingKept
  <1>5. CASE NotifierFrees(c)
    <2> PICK b : b = cpu[c].b
      OBVIOUS
    <2>1. /\ UNCHANGED <<nb, job>> /\ cpu[c].at = "free" /\ binder' = Gone(b) /\ late' = late \ {b}
      BY <1>5 DEF NotifierFrees
    <2>2. b \in Binders
      BY <1>0, <2>1 DEF CpuOK, CpuOf, CpuType
    <2>3. \A d \in Cpus : cpu[d].at \in Telling => cpu'[d] = cpu[d]
      BY <1>0, <1>5, <2>1 DEF NotifierFrees, CpuOf, Telling
    <2> QED  BY <1>0, <2>1, <2>2, <2>3, GoneFollowing
  <1> QED  BY <1>1, <1>2, <1>3, <1>4, <1>5 DEF Notifier

LEMMA FollowingStep ==
    ASSUME IInv, OneInTable, Following, [Next]_vars
    PROVE  OneInTable' /\ Following'
  <1>0. BinderOf /\ CpuOf /\ JobOf /\ Holds /\ CpuOK /\ FreeOK /\ EncapOK
    BY DEF IInv, Types, JobOK
  <1>1. ASSUME UNCHANGED <<nb, cpu, late, binder>>, job'.at # "init"  PROVE OneInTable' /\ Following'
    BY <1>1, FollowingSame
  <1>2. CASE UNCHANGED vars
    BY <1>2 DEF vars, OneInTable, Following, InTable, HasRead, Knows, Tells
  <1>3. ASSUME NEW r \in Rules, Destroy(r) \/ \E acts \in SUBSET Keys : Replace(r, acts)
        PROVE  OneInTable' /\ Following'
    <2>1. UNCHANGED <<nb, cpu, late, binder>> /\ job'.at = "next"
      BY <1>3, Begins
    <2> QED  BY <1>1, <2>1
  <1>4. ASSUME NEW k \in Keys, ShareEncap(k)  PROVE OneInTable' /\ Following'
    BY <1>0, <1>1, <1>4 DEF ShareEncap, JobOf, JobType
  <1>5. ASSUME NEW k \in Keys, BindNew(k)  PROVE OneInTable' /\ Following'
    <2> PICK b \in Binders : b = job'.b
      BY <1>5, TakesNew
    <2>1. /\ InTable = {} /\ job'.at = "route" /\ binder[b] = NoBinder
          /\ binder'[b].ready = binder[b].ready /\ \A x \in Binders : x # b => binder'[x] = binder[x]
      BY <1>5, TakesNew
    <2>2. ~binder'[b].ready
      <3>1. NoBinder.ready = FALSE
        BY DEF NoBinder
      <3> QED  BY <2>1, <3>1
    <2>3. InTable' \subseteq {b}
      <3>1. \A x \in Binders : x # b => binder'[x].at # "table"
        BY <2>1 DEF InTable
      <3> QED  BY <3>1 DEF InTable
    <2> QED  BY <2>1, <2>2, <2>3 DEF OneInTable, Following, HasRead
  <1>6. ASSUME NEW k \in Keys, NEW b \in Binders, FindOld(k, b)  PROVE OneInTable' /\ Following'
    <2>1. UNCHANGED <<nb, cpu, late, binder>> /\ job'.at = "bind"
      BY <1>0, <1>6 DEF FindOld, JobOf, JobType
    <2> QED  BY <1>1, <2>1
  <1>6a. CASE BindOld
    <2>1. UNCHANGED <<nb, cpu, late>> /\ job'.at # "init" /\ \A x \in Binders : Apart(x)
      BY <1>6a, Binds
    <2> QED  BY <2>1, FollowingSame DEF Apart
  <1>7. CASE Route
    <2>1. UNCHANGED <<nb, cpu, late>> /\ job'.at # "init" /\ job.b \in Binders
      <3>1. job.at = "route" /\ UNCHANGED <<nb, cpu, late>>
            /\ (job' = [job EXCEPT !.at = "read"] \/ job' = [job EXCEPT !.at = "unroute"])
        BY <1>7, Zenon DEF Route
      <3> QED  BY <1>0, <3>1, InHandAt DEF JobOf, JobType
    <2>2. UNCHANGED binder \/ binder' = [binder EXCEPT ![job.b].ref = 1]
      BY <1>7 DEF Route
    <2>3. \A x \in Binders : /\ binder'[x].at = binder[x].at /\ binder'[x].val = binder[x].val
                             /\ binder'[x].dying = binder[x].dying /\ binder'[x].ready = binder[x].ready
      BY <1>0, <2>1, <2>2 DEF BinderOf, BinderType
    <2> QED  BY <2>1, <2>3, FollowingSame
  <1>8. CASE Unrouted \/ JobFrees
    <2>1. job.b \in Binders /\ binder' = Gone(job.b) /\ late' = late \ {job.b} /\ UNCHANGED <<nb, cpu>>
      BY <1>0, <1>8, InHandAt DEF Unrouted, JobFrees
    <2>2. job'.at # "init"
      <3>1. \/ job' = [Undo(rule[job.rule].acts) EXCEPT !.b = None]
            \/ job' = [job EXCEPT !.at = "lost"] \/ job' = [job EXCEPT !.at = "next", !.b = None]
        BY <1>8, Zenon DEF Unrouted, JobFrees
      <3> QED  BY <1>0, <3>1 DEF Undo, JobOf, JobType
    <2> QED  BY <1>0, <2>1, <2>2, GoneFollowing
  <1>9. CASE ReadNeighbour
    <2> PICK b : b = job.b
      OBVIOUS
    <2>1. b \in Binders /\ binder' = [binder EXCEPT ![b].val = nb] /\ late' = late \ {b}
          /\ UNCHANGED <<nb, cpu>>
      BY <1>0, <1>9, InHandAt DEF ReadNeighbour
    <2>2. job'.b = b /\ job.at = "read"
      BY <1>0, <1>9 DEF ReadNeighbour, JobOf, JobType
    <2>3. binder'[b].val = nb /\ binder'[b].at = binder[b].at
          /\ \A x \in Binders : x # b => binder'[x] = binder[x]
      BY <1>0, <2>1 DEF BinderOf, BinderType
    <2>4. \A x \in Binders : x # b => /\ Knows(x) => Knows(x)'
                                      /\ HasRead(x)' => HasRead(x)
      BY <2>1, <2>2, <2>3 DEF Knows, Tells, HasRead
    <2>5. Knows(b)'
      BY <2>1, <2>3 DEF Knows
    <2> QED  BY <2>1, <2>3, <2>4, <2>5 DEF OneInTable, Following, InTable
  <1>10. CASE InitWork
    <2>1. job.b \in Binders /\ job.at = "init" /\ binder' = [binder EXCEPT ![job.b].ready = TRUE]
          /\ UNCHANGED <<nb, cpu, late>>
      BY <1>0, <1>10, InHandAt DEF InitWork
    <2>2. job'.at = "header"
      BY <1>0, <1>10 DEF InitWork, JobOf, JobType
    <2>3. \A x \in Binders : /\ binder'[x].at = binder[x].at /\ binder'[x].val = binder[x].val
                             /\ binder'[x].dying = binder[x].dying
                             /\ x # job.b => binder'[x].ready = binder[x].ready
      BY <1>0, <2>1 DEF BinderOf, BinderType
    <2>4. \A x \in Binders : HasRead(x)' => HasRead(x)
      BY <2>1, <2>2, <2>3 DEF HasRead
    <2> QED  BY <2>1, <2>3, <2>4, FollowingKept
  <1>11. CASE NewHeader
    <2>1. UNCHANGED <<nb, cpu, late>> /\ encap[job.key].neigh \in Binders
      BY <1>0, <1>11, InHandAt DEF NewHeader, EncapOK
    <2>2. CASE UNCHANGED binder /\ job' = [job EXCEPT !.at = "set"]
      BY <1>0, <1>1, <2>1, <2>2 DEF JobOf, JobType
    <2>3. CASE PutBinder(encap[job.key].neigh, Undo(rule[job.rule].acts))
      <3>1. job'.at # "init"
        BY <1>0, <2>3 DEF PutBinder, Undo, JobOf, JobType
      <3> QED  BY <1>0, <2>1, <2>3, <3>1, PutSame, FollowingSame
    <2> QED  BY <1>11, <2>2, <2>3 DEF NewHeader
  <1>12. CASE AllocActionSet
    BY <1>0, <1>1, <1>12 DEF AllocActionSet, Undo, JobOf, JobType
  <1>13. CASE InsertRule
    <2>1. UNCHANGED <<nb, cpu, late, binder>>
          /\ (job' = NoJob \/ job' = Undo(rule[job.rule].acts))
      BY <1>13, Zenon DEF InsertRule
    <2>2. job'.at # "init"
      <3>1. CASE job' = NoJob
        BY <3>1 DEF NoJob
      <3>2. CASE job' = Undo(rule[job.rule].acts)
        BY <1>0, <3>2 DEF Undo, JobOf, JobType
      <3> QED  BY <2>1, <3>1, <3>2
    <2> QED  BY <1>1, <2>1, <2>2
  <1>14. CASE ReleaseDone \/ WorkDone \/ Unregister \/ Unregistered
    <2>1. UNCHANGED <<nb, cpu, late, binder>>
          /\ (job' = NoJob \/ job' = [NoJob EXCEPT !.op = "unregister", !.at = "next"])
      BY <1>14, Zenon DEF ReleaseDone, WorkDone, Unregister, Unregistered
    <2>2. job'.at # "init"
      <3>1. CASE job' = NoJob
        BY <3>1 DEF NoJob
      <3>2. CASE job' = [NoJob EXCEPT !.op = "unregister", !.at = "next"]
        BY <3>2 DEF NoJob
      <3> QED  BY <2>1, <3>1, <3>2
    <2> QED  BY <1>1, <2>1, <2>2
  <1>15. ASSUME NEW k \in Keys, ReleaseEncap(k)  PROVE OneInTable' /\ Following'
    <2> DEFINE next == [job EXCEPT !.todo = @ \ {k}]
    <2>1. UNCHANGED <<nb, cpu, late>> /\ job.at = "next" /\ next \in JobType /\ next.at = "next"
      BY <1>0, <1>15 DEF ReleaseEncap, JobOf, JobType
    <2>2. CASE UNCHANGED binder /\ (job' = next \/ job' = [job EXCEPT !.at = "oops", !.b = None])
      BY <1>0, <1>1, <2>1, <2>2 DEF JobOf, JobType
    <2>3. CASE encap[k].neigh # None /\ PutBinder(encap[k].neigh, next)
      <3>1. encap[k].neigh \in Binders
        BY <2>3 DEF IInv, Types, EncapOf, EncapType
      <3> HIDE DEF next
      <3>2. job'.at # "init"
        BY <2>1, <2>3, <3>1, PutJob
      <3> QED  BY <1>0, <2>1, <2>3, <3>1, <3>2, PutSame, FollowingSame
    <2> HIDE DEF next
    <2> QED  BY <1>15, <2>2, <2>3 DEF ReleaseEncap, next
  <1>16. ASSUME NEW b \in Binders, WorkBegins(b) \/ WorkLocks(b)  PROVE OneInTable' /\ Following'
    <2>1. UNCHANGED <<nb, cpu, late>>
      BY <1>16 DEF WorkBegins, WorkLocks
    <2>2. UNCHANGED job \/ job'.at # "init"
      BY <1>16 DEF WorkBegins, WorkLocks, NoJob
    <2>3. \A x \in Binders : /\ binder'[x].at = binder[x].at /\ binder'[x].val = binder[x].val
                             /\ binder'[x].dying = binder[x].dying /\ binder'[x].ready = binder[x].ready
      BY <1>0, <1>16 DEF WorkBegins, WorkLocks, BinderOf, BinderType
    <2>4. \A x \in Binders : HasRead(x)' => HasRead(x)
      BY <2>2, <2>3 DEF HasRead
    <2> QED  BY <2>1, <2>3, <2>4, FollowingKept
  <1>17. ASSUME (\E k \in Keys : WorkUpdates(k)) \/ SendHeader \/ RulesUpdated
                \/ (\E r \in Rules : UpdateRule(r)) \/ UserUnlisted \/ UserLost
         PROVE  OneInTable' /\ Following'
    <2>1. UNCHANGED <<nb, cpu, late, binder>>
      BY <1>17, Zenon DEF WorkUpdates, SendHeader, RulesUpdated, UpdateRule, UserUnlisted, UserLost
    <2>2. job'.at # "init"
      BY <1>0, <1>17, UpdateJob
    <2> QED  BY <1>1, <2>1, <2>2
  <1>18. CASE WorkPuts
    <2> DEFINE then == [job EXCEPT !.at = "next", !.b = None]
    <2>1. UNCHANGED <<nb, cpu, late>> /\ job.b \in Binders /\ then \in JobType /\ then.at = "next"
          /\ PutBinder(job.b, then)
      BY <1>0, <1>18, InHandAt DEF WorkPuts, JobOf, JobType
    <2> HIDE DEF then
    <2>2. job'.at # "init"
      BY <2>1, PutJob
    <2> QED  BY <1>0, <2>1, <2>2, PutSame, FollowingSame
  <1>19. ASSUME NEW b \in Binders, Dying(b) \/ Unlink(b)  PROVE OneInTable' /\ Following'
    <2>1. UNCHANGED <<nb, cpu, late>> /\ (UNCHANGED job \/ job'.at # "init")
      BY <1>0, <1>19 DEF Dying, Unlink, JobOf, JobType
    <2>2. \A x \in Binders : /\ binder'[x].at = "table" => binder[x].at = "table"
                             /\ binder'[x].val = binder[x].val
                             /\ binder[x].dying => binder'[x].dying
                             /\ binder'[x].ready = binder[x].ready
      BY <1>0, <1>19 DEF Dying, Unlink, BinderOf, BinderType
    <2>3. \A x \in Binders : HasRead(x)' => HasRead(x)
      BY <2>1, <2>2 DEF HasRead
    <2> QED  BY <2>1, <2>2, <2>3, FollowingKept
  <1>20. CASE Grace \/ UsersRemoved
    <2>1. UNCHANGED <<nb, cpu, late, binder>> /\ job'.at # "init"
      BY <1>0, <1>20 DEF Grace, UsersRemoved, JobOf, JobType
    <2> QED  BY <1>1, <2>1
  <1>21. ASSUME NEW k \in Keys, RemoveUser(k)  PROVE OneInTable' /\ Following'
    <2>1. UNCHANGED <<nb, cpu, late>> /\ job'.at # "init" /\ \A x \in Binders : Apart(x)
      BY <1>21, Removes
    <2> QED  BY <2>1, FollowingSame DEF Apart
  <1>22. ASSUME NEW c \in Cpus, NEW v \in Hosts, Change(c, v)  PROVE OneInTable' /\ Following'
    <2>1. UNCHANGED <<binder, job, late>> /\ cpu'[c].at = "notify"
      BY <1>0, <1>22 DEF Change, CpuOf, CpuType
    <2>2. \A b \in Binders : Knows(b)'
      BY <2>1 DEF Knows, Tells
    <2> QED  BY <2>1, <2>2 DEF OneInTable, Following, InTable, HasRead
  <1>23. CASE Next
    <2>1. StepOf
      BY <1>23, Steps DEF IInv
    <2> QED  BY <2>1, <1>3, <1>4, <1>5, <1>6, <1>6a, <1>7, <1>8, <1>9, <1>10, <1>11, <1>12, <1>13, <1>14, <1>15,
                <1>16, <1>17, <1>18, <1>19, <1>20, <1>21, <1>22, NotifierFollowing, Zenon DEF StepOf
  <1> QED  BY <1>2, <1>23

---------------------------------------------------------------------------
(* Rules and the encap actions they use                                     *)

(* A rule in use has a reference to its encap actions.                      *)
LEMMA InUseBy ==
    ASSUME IInv, NEW r \in Rules, rule[r].at = "in", NEW k \in rule[r].acts
    PROVE  k \in Keys /\ r \in UsedBy(k) /\ encap[k].ref > 0
  <1>1. k \in Keys
    BY DEF IInv, Types, RuleOf, RuleType
  <1>2. ~(job.op = "release" /\ job.rule = r)
    BY DEF IInv, JobOK, Holds
  <1>3. r \in UsedBy(k)
    BY <1>2 DEF UsedBy
  <1>4. encap[k].ref \in Nat /\ encap[k].ref >= 1
    BY <1>1, <1>3, Referenced
  <1> QED  BY <1>1, <1>3, <1>4

(* What a rule that is not changed does still follows.                      *)
LEMMA RuleKept ==
    ASSUME NEW r \in Rules, RuleFollows(r), UNCHANGED setting, rule'[r] = rule[r],
           UNCHANGED job \/ job.at # "rules",
           r \in failed => r \in failed',
           \A k \in rule[r].acts : encap'[k].hw = encap[k].hw /\ (k \in failed => k \in failed')
    PROVE  RuleFollows(r)'
BY DEF RuleFollows

---------------------------------------------------------------------------
(* What the mutex's thread has in hand                                      *)

LEMMA InHandNone ==
    ASSUME job'.at \notin Binding \cup {"unlisted"}, job'.op # "work" \/ (job'.todo = {} /\ job'.at # "send")
    PROVE  InHand'
BY DEF InHand

LEMMA InHandStep ==
    ASSUME IInv, InHand, [Next]_vars
    PROVE  InHand'
  <1>0. BinderOf /\ EncapOf /\ JobOf /\ Holds /\ EncapOK /\ FreeOK /\ BinderRefs
    BY DEF IInv, Types, JobOK
  <1>1. ASSUME UNCHANGED <<encap, job>>  PROVE InHand'
    BY <1>1 DEF InHand, Users
  <1>2. CASE UNCHANGED vars
    BY <1>1, <1>2 DEF vars
  <1>3. ASSUME NEW r \in Rules, Destroy(r) \/ \E acts \in SUBSET Keys : Replace(r, acts)  PROVE InHand'
    <2>1. job'.at = "next" /\ job'.op \in {"release", "replace"}
      BY <1>3, Begins
    <2> QED  BY <2>1, InHandNone DEF Binding
  <1>4. ASSUME NEW k \in Keys, ShareEncap(k)  PROVE InHand'
    <2>1. job'.at = "set" /\ job'.op = "replace"
      BY <1>0, <1>4 DEF ShareEncap, JobOf, JobType
    <2> QED  BY <2>1, InHandNone DEF Binding
  <1>4a. ASSUME NEW k \in Keys, NEW b \in Binders, FindOld(k, b)  PROVE InHand'
    <2>1. job'.at = "bind" /\ job'.op = "replace"
      BY <1>0, <1>4a DEF FindOld, JobOf, JobType
    <2> QED  BY <2>1, InHandNone DEF Binding
  <1>5. ASSUME NEW k \in Keys, BindNew(k)  PROVE InHand'
    <2> PICK b \in Binders : b = job'.b
      BY <1>5, TakesNew
    <2>1. UNCHANGED encap /\ job'.op = "replace" /\ job'.at = "route" /\ binder[b] = NoBinder
      BY <1>5, TakesNew
    <2>2. NoBinder.ref = 0
      BY DEF NoBinder
    <2>3. Users(b) = {}
      BY <2>1, <2>2, Unreferenced DEF IInv
    <2> QED  BY <2>1, <2>3 DEF InHand, Users
  <1>6. CASE BindOld
    <2>1. job'.at \in {"next", "oops", "header"} /\ job'.op \in {"replace", "release"}
      BY <1>6, Binds
    <2> QED  BY <2>1, InHandNone DEF Binding
  <1>7. CASE Route \/ ReadNeighbour
    <2>1. UNCHANGED encap /\ job.at \in Binding
          /\ \E at \in {"read", "unroute", "init"} : job' = [job EXCEPT !.at = at]
      BY <1>7, Zenon DEF Route, ReadNeighbour, Binding
    <2>2. job'.op = "replace" /\ job'.b = job.b /\ job'.at \in {"read", "unroute", "init"}
      BY <1>0, <2>1, InHandAt DEF JobOf, JobType
    <2> QED  BY <2>1, <2>2 DEF InHand, Users
  <1>8. CASE InitWork \/ AllocActionSet \/ Unrouted
    <2> DEFINE acts == rule[job.rule].acts \cup {job.key}
    <2>1. job.op = "replace"
      BY <1>0, <1>8, InHandAt DEF InitWork, AllocActionSet, Unrouted, Binding
    <2>2. \/ job' = [job EXCEPT !.at = "header", !.b = None]
          \/ job' = [job EXCEPT !.at = "next", !.todo = @ \ {job.key}, !.key = None]
          \/ job' = [Undo(acts) EXCEPT !.key = None]
          \/ job' = [Undo(rule[job.rule].acts) EXCEPT !.b = None]
      BY <1>8, Zenon DEF InitWork, AllocActionSet, Unrouted
    <2> HIDE DEF acts
    <2>3. job'.op \in {"replace", "release"} /\ job'.at \in {"header", "next"}
      <3>1. CASE job' = [job EXCEPT !.at = "header", !.b = None]
        BY <1>0, <2>1, <3>1 DEF JobOf, JobType
      <3>2. CASE job' = [job EXCEPT !.at = "next", !.todo = @ \ {job.key}, !.key = None]
        BY <1>0, <2>1, <3>2 DEF JobOf, JobType
      <3>3. CASE job' = [Undo(acts) EXCEPT !.key = None]
        BY <1>0, <3>3 DEF Undo, JobOf, JobType
      <3>4. CASE job' = [Undo(rule[job.rule].acts) EXCEPT !.b = None]
        BY <1>0, <3>4 DEF Undo, JobOf, JobType
      <3> QED  BY <2>2, <3>1, <3>2, <3>3, <3>4
    <2> QED  BY <2>3, InHandNone DEF Binding
  <1>9. CASE NewHeader
    <2>1. job.op = "replace"
      BY <1>0, <1>9, InHandAt DEF NewHeader
    <2>2. job'.op \in {"replace", "release"} /\ job'.at \in {"set", "next", "free"}
      <3>1. CASE job' = [job EXCEPT !.at = "set"]
        BY <1>0, <2>1, <3>1 DEF JobOf, JobType
      <3>2. CASE PutBinder(encap[job.key].neigh, Undo(rule[job.rule].acts))
        BY <1>0, <3>2 DEF PutBinder, Undo, JobOf, JobType
      <3> QED  BY <1>9, <3>1, <3>2, Zenon DEF NewHeader
    <2> QED  BY <2>2, InHandNone DEF Binding
  <1>10. CASE InsertRule \/ ReleaseDone \/ WorkDone \/ Unregister \/ Unregistered
    <2>1. \/ job' = NoJob \/ job' = [NoJob EXCEPT !.op = "unregister", !.at = "next"]
          \/ job' = Undo(rule[job.rule].acts)
      BY <1>10, Zenon DEF InsertRule, ReleaseDone, WorkDone, Unregister, Unregistered
    <2>2. job'.op \in {"none", "unregister", "release"} /\ job'.at \in {"none", "next"}
      <3>1. CASE job' = NoJob
        BY <3>1 DEF NoJob
      <3>2. CASE job' = [NoJob EXCEPT !.op = "unregister", !.at = "next"]
        BY <3>2 DEF NoJob
      <3>3. CASE job' = Undo(rule[job.rule].acts)
        BY <1>0, <3>3 DEF Undo, JobOf, JobType
      <3> QED  BY <2>1, <3>1, <3>2, <3>3
    <2> QED  BY <2>2, InHandNone DEF Binding
  <1>11. ASSUME NEW k \in Keys, ReleaseEncap(k)  PROVE InHand'
    <2> DEFINE next == [job EXCEPT !.todo = @ \ {k}]
    <2>1. job.op = "release" /\ job.at = "next"
          /\ \/ job' = [job EXCEPT !.at = "oops", !.b = None] \/ job' = next
             \/ job' = [next EXCEPT !.at = "free", !.b = encap[k].neigh]
      BY <1>11, Zenon DEF ReleaseEncap, PutBinder
    <2>2. job'.op = "release" /\ job'.at \in {"next", "free", "oops"}
      <3>1. CASE job' = [job EXCEPT !.at = "oops", !.b = None]
        BY <1>0, <2>1, <3>1 DEF JobOf, JobType
      <3>2. CASE job' = next
        BY <1>0, <2>1, <3>2 DEF JobOf, JobType
      <3>3. CASE job' = [next EXCEPT !.at = "free", !.b = encap[k].neigh]
        BY <1>0, <2>1, <3>3 DEF JobOf, JobType
      <3> QED  BY <2>1, <3>1, <3>2, <3>3
    <2> QED  BY <2>2, InHandNone DEF Binding
  <1>12. CASE JobFrees
    <2>1. job.at = "free" /\ (job' = [job EXCEPT !.at = "lost"] \/ job' = [job EXCEPT !.at = "next", !.b = None])
      BY <1>12, Zenon DEF JobFrees
    <2>2. job'.op = job.op /\ job'.todo = job.todo /\ job'.at \in {"next", "lost"}
      BY <1>0, <2>1 DEF JobOf, JobType
    <2>3. job'.op = "work" => job'.todo = {}
      BY <1>0, <2>1, <2>2 DEF Holds
    <2> QED  BY <2>2, <2>3, InHandNone DEF Binding
  <1>13. ASSUME NEW b \in Binders, WorkLocks(b)  PROVE InHand'
    <2>1. job'.op = "work" /\ job'.at = "put" /\ job'.todo = Users(b) /\ job'.b = b /\ UNCHANGED encap
      BY <1>13 DEF WorkLocks, NoJob
    <2> QED  BY <2>1 DEF InHand, Users, Binding
  <1>14. ASSUME NEW k \in Keys, WorkUpdates(k)  PROVE InHand'
    <2>1. /\ job.op = "work" /\ job'.op = "work" /\ job'.at = "send" /\ job'.key = k
          /\ job'.todo = job.todo \ {k} /\ k \in job.todo /\ job'.b = job.b
      BY <1>0, <1>14, UpdateJob
    <2>2. SameUsers
      BY <1>14, Updates DEF IInv, JobOK
    <2>3. Users(job.b)' = Users(job.b)
      BY <2>1, <2>2 DEF Users, SameUsers
    <2>4. \A x \in job.todo : x \in Users(job.b)
      BY <2>1 DEF InHand
    <2>5. job'.at \notin Binding \cup {"unlisted"}
      BY <2>1 DEF Binding
    <2> QED  BY <2>1, <2>3, <2>4, <2>5 DEF InHand
  <1>14a. ASSUME SendHeader \/ RulesUpdated \/ \E r \in Rules : UpdateRule(r)  PROVE InHand'
    <2>1. /\ job'.op = job.op /\ job'.todo = job.todo /\ job'.b = job.b
          /\ job'.at \in {"rules", "put", "users"}
      BY <1>0, <1>14a, UpdateJob
    <2>2. SameUsers
      <3>1. CASE SendHeader
        BY <3>1, Updates DEF IInv, JobOK
      <3>2. CASE RulesUpdated \/ \E r \in Rules : UpdateRule(r)
        BY <3>2 DEF RulesUpdated, UpdateRule, SameUsers
      <3> QED  BY <1>14a, <3>1, <3>2
    <2>3. Users(job.b)' = Users(job.b)
      BY <2>1, <2>2 DEF Users, SameUsers
    <2>4. job'.at \notin Binding \cup {"unlisted", "send"}
      BY <2>1 DEF Binding
    <2> QED  BY <2>1, <2>3, <2>4 DEF InHand
  <1>15. CASE WorkPuts
    <2>1. job.op = "work" /\ job.todo = {}
          /\ \/ job' = [job EXCEPT !.at = "next", !.b = None]
             \/ job' = [[job EXCEPT !.at = "next", !.b = None] EXCEPT !.at = "free", !.b = job.b]
      BY <1>15, Zenon DEF WorkPuts, PutBinder
    <2>2. job'.op = "work" /\ job'.todo = {} /\ job'.at \in {"next", "free"}
      BY <1>0, <2>1 DEF JobOf, JobType
    <2> QED  BY <2>2, InHandNone DEF Binding
  <1>16. ASSUME NEW b \in Binders, Dying(b)  PROVE InHand'
    <2>1. job'.op = "unregister" /\ job'.at = "grace"
      BY <1>0, <1>16 DEF Dying, JobOf, JobType
    <2> QED  BY <2>1, InHandNone DEF Binding
  <1>17. CASE Grace \/ UsersRemoved
    <2>1. job.op = "unregister"
      BY <1>0, <1>17, InHandAt DEF Grace, UsersRemoved
    <2>2. job'.op = "unregister" /\ job'.at \in {"users", "next", "oops"}
      BY <1>0, <1>17, <2>1 DEF Grace, UsersRemoved, JobOf, JobType
    <2> QED  BY <2>2, InHandNone DEF Binding
  <1>17a. CASE UserUnlisted \/ UserLost
    <2>1. job'.op = "unregister" /\ job'.at \in {"send", "oops"}
      BY <1>0, <1>17a, UpdateJob
    <2> QED  BY <2>1, InHandNone DEF Binding
  <1>18. ASSUME NEW k \in Keys, RemoveUser(k)  PROVE InHand'
    <2>1. /\ job'.op = "unregister" /\ job'.at \in {"unlisted", "free"}
          /\ job'.at = "unlisted" => job'.key = k /\ job'.b = job.b
      BY <1>18, Removes
    <2>2. k \in Users(job.b) /\ encap'[k].neigh = encap[k].neigh
      BY <1>18, Removes
    <2>3. encap'[k].neigh = job.b
      BY <2>2 DEF Users
    <2>4. job'.at \notin Binding
      BY <2>1 DEF Binding
    <2> QED  BY <2>1, <2>3, <2>4 DEF InHand
  <1>19. ASSUME NEW b \in Binders, WorkBegins(b) \/ Unlink(b)  PROVE InHand'
    BY <1>1, <1>19 DEF WorkBegins, Unlink
  <1>20. ASSUME NEW c \in Cpus, Notifier(c) \/ \E v \in Hosts : Change(c, v)  PROVE InHand'
    BY <1>1, <1>20 DEF Notifier, Notify, Look, Store, TakeRef, Schedule, PutRef, NotifierFrees, Change
  <1>21. CASE Next
    <2>1. StepOf
      BY <1>21, Steps DEF IInv
    <2> QED  BY <2>1, <1>3, <1>4, <1>4a, <1>5, <1>6, <1>7, <1>8, <1>9, <1>10, <1>11, <1>12, <1>13, <1>14, <1>14a,
                <1>15, <1>16, <1>17, <1>17a, <1>18, <1>19, <1>20, Zenon DEF StepOf
  <1> QED  BY <1>2, <1>21

---------------------------------------------------------------------------
(* Headers follow their binders                                             *)

(* Binder b has what it had, or headers are or stay overdue.                *)
Stays(b) == Current(b)' \/ (binder'[b].val = binder[b].val /\ ~Current(b))

(* Nobody that was about to write a header turns away from it.              *)
Goes == /\ \A k \in Keys : Sending(k) => Sending(k)'
        /\ \A b \in Binders, k \in job.todo : Working(b) => Working(b)' /\ k \in job'.todo

LEMMA StaysIf ==
    ASSUME NEW b, binder'[b].val = binder[b].val, binder[b].lost > 0 => binder'[b].lost > 0,
           binder[b].work \/ binder[b].running => binder'[b].work \/ binder'[b].running,
           \A c \in Cpus : cpu[c].b = b /\ cpu[c].at \in {"ref", "schedule"} => cpu'[c] = cpu[c]
    PROVE  Stays(b)
BY DEF Stays, Current, Due

LEMMA GoesIf ==
    ASSUME JobOf, Holds,
           UNCHANGED job \/ (job.at # "send" /\ (job.op # "work" \/ job.todo = {}))
    PROVE  Goes
BY DEF Goes, Sending, Working

LEMMA HeaderKept ==
    ASSUME NEW k \in Keys, HeaderFollows(k), k \in failed => k \in failed', Sending(k) => Sending(k)',
           NEW b, encap[k].neigh = b, encap'[k].neigh = b, encap'[k].hw = encap[k].hw, Stays(b),
           Working(b) /\ k \in job.todo => Working(b)' /\ k \in job'.todo
    PROVE  HeaderFollows(k)'
  <1>1. CASE k \in failed \/ Sending(k)
    BY <1>1 DEF HeaderFollows
  <1>2. CASE Working(b) /\ k \in job.todo
    BY <1>2 DEF HeaderFollows
  <1>3. CASE Current(b)'
    BY <1>3 DEF HeaderFollows, Current
  <1>4. CASE binder'[b].val = binder[b].val /\ encap[k].hw = binder[b].val
    BY <1>4 DEF HeaderFollows
  <1>5. k \in failed \/ Sending(k) \/ (Working(b) /\ k \in job.todo) \/ Current(b)
        \/ encap[k].hw = binder[b].val
    BY DEF HeaderFollows, Current
  <1> QED  BY <1>1, <1>2, <1>3, <1>4, <1>5 DEF Stays

(* A step that changes neither headers that are in use, nor what the        *)
(* binders know that have users, nor who is going to write headers.         *)
LEMMA HeadersKept ==
    ASSUME EncapOK, HeadersFollow, Goes,
           \A k \in Keys : encap'[k].ref > 0 /\ encap'[k].listed =>
               /\ encap[k].ref > 0 /\ encap[k].listed /\ encap'[k].neigh = encap[k].neigh
               /\ encap'[k].hw = encap[k].hw /\ (k \in failed => k \in failed'),
           \A b \in Binders : Users(b) # {} => Stays(b)
    PROVE  HeadersFollow'
  <1> SUFFICES ASSUME NEW k \in Keys, encap'[k].ref > 0, encap'[k].listed
               PROVE  HeaderFollows(k)'
    BY DEF HeadersFollow
  <1> PICK b : b = encap[k].neigh
    OBVIOUS
  <1>1. encap[k].ref > 0 /\ encap[k].listed /\ encap'[k].neigh = b
        /\ encap'[k].hw = encap[k].hw /\ (k \in failed => k \in failed')
    OBVIOUS
  <1>2. b \in Binders /\ k \in Users(b) /\ HeaderFollows(k)
    BY <1>1 DEF EncapOK, Users, HeadersFollow
  <1>3. Stays(b)
    BY <1>2
  <1>4. (Sending(k) => Sending(k)') /\ (Working(b) /\ k \in job.todo => Working(b)' /\ k \in job'.todo)
    BY <1>2 DEF Goes
  <1> QED  BY <1>1, <1>2, <1>3, <1>4, HeaderKept

(* ... while binders keep all but references.                               *)
LEMMA HeadersApart ==
    ASSUME EncapOK, HeadersFollow, Goes,
           \A k \in Keys : encap'[k].ref > 0 /\ encap'[k].listed =>
               /\ encap[k].ref > 0 /\ encap[k].listed /\ encap'[k].neigh = encap[k].neigh
               /\ encap'[k].hw = encap[k].hw /\ (k \in failed => k \in failed'),
           UNCHANGED binder \/ \A b \in Binders : Apart(b),
           UNCHANGED cpu
    PROVE  HeadersFollow'
  <1>1. \A b \in Binders : Stays(b)
    BY StaysIf DEF Apart
  <1> QED  BY <1>1, HeadersKept

(* A binder that is freed has no users.                                     *)
LEMMA HeadersGone ==
    ASSUME IInv, HeadersFollow, NEW b \in Binders, binder[b].ref = 0, binder' = Gone(b), Goes,
           UNCHANGED <<encap, failed>>,
           \A c \in Cpus : cpu[c].at \in {"ref", "schedule"} => cpu'[c] = cpu[c]
    PROVE  HeadersFollow'
  <1>1. Users(b) = {}
    BY Unreferenced DEF IInv
  <1>2. \A x \in Binders : x # b => binder'[x] = binder[x]
    BY DEF Gone, IInv, Types, BinderOf
  <1>3. \A x \in Binders : x # b => Stays(x)
    BY <1>2, StaysIf
  <1> QED  BY <1>1, <1>3, HeadersKept DEF IInv

(* A notifier that tells a binder something in use sees to it that headers  *)
(* are written.                                                             *)
LEMMA NotifierStays ==
    ASSUME IInv, NEW c \in Cpus, Notifier(c) \/ \E v \in Hosts : Change(c, v),
           NEW b \in Binders, binder[b].ref # 0
    PROVE  Stays(b) /\ UNCHANGED <<encap, job, failed>>
  <1>0. BinderOf /\ CpuOf /\ CpuOK /\ FreeOK
    BY DEF IInv, Types
  <1>1. UNCHANGED <<encap, job, failed>>
    BY DEF Notifier, Notify, Look, Store, TakeRef, Schedule, PutRef, NotifierFrees, Change
  <1> SUFFICES Stays(b)
    BY <1>1
  <1>2. \A d \in Cpus : d # c => cpu'[d] = cpu[d]
    <2>1. \/ \E n : cpu' = [cpu EXCEPT ![c] = n]
          \/ \E n : cpu' = [cpu EXCEPT ![c].at = n]
          \/ \E n, m : cpu' = [cpu EXCEPT ![c].at = n, ![c].seen = m]
          \/ \E n, m : cpu' = [cpu EXCEPT ![c].at = n, ![c].b = m]
      BY Zenon DEF Notifier, Notify, Look, Store, TakeRef, Schedule, PutRef, NotifierFrees, Change
    <2> QED  BY <1>0, <2>1 DEF CpuOf
  <1>3. ASSUME UNCHANGED binder, cpu[c].at \notin {"ref", "schedule"}  PROVE Stays(b)
    BY <1>2, <1>3, StaysIf
  <1>4. CASE Notify(c) \/ Look(c) \/ \E v \in Hosts : Change(c, v)
    <2>1. UNCHANGED binder /\ cpu[c].at \notin {"ref", "schedule"}
      BY <1>4 DEF Notify, Look, Change
    <2> QED  BY <1>3, <2>1
  <1>5. CASE Store(c)
    <2>1. cpu[c].at = "store" /\ cpu[c].b \in Binders
      BY <1>0, <1>5 DEF Store, CpuOK, CpuOf, CpuType
    <2>2. CASE UNCHANGED binder
      BY <1>3, <2>1, <2>2
    <2>3. CASE binder' = [binder EXCEPT ![cpu[c].b].val = cpu[c].seen] /\ cpu' = [cpu EXCEPT ![c].at = "ref"]
      <3>1. cpu'[c].at = "ref" /\ cpu'[c].b = cpu[c].b
        BY <1>0, <2>3 DEF CpuOf, CpuType
      <3>2. CASE cpu[c].b = b
        BY <3>1, <3>2 DEF Stays, Current, Due
      <3>3. CASE cpu[c].b # b
        <4>1. binder'[b] = binder[b]
          BY <1>0, <2>3, <3>3 DEF BinderOf
        <4> QED  BY <1>2, <3>3, <4>1, StaysIf
      <3> QED  BY <3>2, <3>3
    <2> QED  BY <1>5, <2>2, <2>3 DEF Store
  <1>6. CASE TakeRef(c)
    <2>1. cpu[c].at = "ref" /\ cpu[c].b \in Binders
      BY <1>0, <1>6 DEF TakeRef, CpuOK, CpuOf, CpuType
    <2>2. CASE cpu[c].b = b
      <3>1. cpu' = [cpu EXCEPT ![c].at = "schedule"]
        BY <1>6, <2>2 DEF TakeRef
      <3>2. cpu'[c].at = "schedule" /\ cpu'[c].b = b
        BY <1>0, <2>2, <3>1 DEF CpuOf, CpuType
      <3> QED  BY <3>2 DEF Stays, Current, Due
    <2>3. CASE cpu[c].b # b
      <3>1. UNCHANGED binder \/ \E n : binder' = [binder EXCEPT ![cpu[c].b].ref = n]
        BY <1>6, Zenon DEF TakeRef
      <3>2. binder'[b] = binder[b]
        BY <1>0, <2>3, <3>1 DEF BinderOf
      <3> QED  BY <1>2, <2>3, <3>2, StaysIf
    <2> QED  BY <2>2, <2>3
  <1>7. CASE Schedule(c)
    <2> PICK d \in Binders : d = cpu[c].b
      BY <1>0, <1>7 DEF Schedule, CpuOK, CpuOf, CpuType
    <2>1. \/ UNCHANGED binder /\ (binder[d].work \/ binder[d].lost > 0)
          \/ binder' = [binder EXCEPT ![d].work = TRUE]
          \/ binder' = [binder EXCEPT ![d].lost = @ + 1]
      BY <1>7, Zenon DEF Schedule
    <2>2. CASE d = b
      <3>1. binder'[b].work \/ binder'[b].lost > 0
        BY <1>0, <2>1, <2>2 DEF BinderOf, BinderType
      <3> QED  BY <3>1 DEF Stays, Current, Due
    <2>3. CASE d # b
      <3>1. binder'[b] = binder[b]
        BY <1>0, <2>1, <2>3 DEF BinderOf
      <3> QED  BY <1>2, <2>3, <3>1, StaysIf
    <2> QED  BY <2>2, <2>3
  <1>8. CASE PutRef(c)
    <2>1. cpu[c].at = "put" /\ binder' = [binder EXCEPT ![cpu[c].b].ref = @ - 1]
      BY <1>8 DEF PutRef
    <2>2. /\ binder'[b].val = binder[b].val /\ binder'[b].lost = binder[b].lost
          /\ binder'[b].work = binder[b].work /\ binder'[b].running = binder[b].running
      BY <1>0, <2>1 DEF BinderOf, BinderType
    <2> QED  BY <1>2, <2>1, <2>2, StaysIf
  <1>9. CASE NotifierFrees(c)
    <2>1. cpu[c].at = "free" /\ binder' = Gone(cpu[c].b)
      BY <1>9 DEF NotifierFrees
    <2>2. cpu[c].b # b
      BY <1>0, <2>1 DEF FreeOK
    <2>3. binder'[b] = binder[b]
      BY <1>0, <2>1, <2>2 DEF Gone, BinderOf
    <2> QED  BY <1>2, <2>1, <2>3, StaysIf
  <1> QED  BY <1>1, <1>4, <1>5, <1>6, <1>7, <1>8, <1>9 DEF Notifier

LEMMA NotifierHeaders ==
    ASSUME IInv, HeadersFollow, NEW c \in Cpus, Notifier(c) \/ \E v \in Hosts : Change(c, v)
    PROVE  HeadersFollow'
  <1>1. UNCHANGED <<encap, job, failed>>
    BY DEF Notifier, Notify, Look, Store, TakeRef, Schedule, PutRef, NotifierFrees, Change
  <1>2. \A b \in Binders : Users(b) # {} => Stays(b)
    BY Unreferenced, NotifierStays DEF IInv
  <1>3. Goes
    BY <1>1, GoesIf DEF IInv, Types, JobOK
  <1> QED  BY <1>1, <1>2, <1>3, HeadersKept DEF IInv

LEMMA HeadersFollowStep ==
    ASSUME IInv, InHand, HeadersFollow, SendFollows, [Next]_vars
    PROVE  HeadersFollow'
  <1>0. BinderOf /\ EncapOf /\ RuleOf /\ CpuOf /\ JobOf /\ Holds /\ EncapOK /\ FreeOK
    BY DEF IInv, Types, JobOK
  <1>1. ASSUME UNCHANGED <<encap, failed, cpu>>,
               UNCHANGED job \/ (job.at # "send" /\ (job.op # "work" \/ job.todo = {})),
               UNCHANGED binder \/ \A b \in Binders : Apart(b)
        PROVE  HeadersFollow'
    <2>1. Goes
      BY <1>0, <1>1, GoesIf
    <2> QED  BY <1>0, <1>1, <2>1, HeadersApart
  <1>2. ASSUME UNCHANGED cpu, UNCHANGED binder \/ \A b \in Binders : Apart(b),
               job.at # "send" /\ job.op # "work",
               \A k \in Keys : encap'[k].ref > 0 /\ encap'[k].listed =>
                   /\ encap[k].ref > 0 /\ encap[k].listed /\ encap'[k].neigh = encap[k].neigh
                   /\ encap'[k].hw = encap[k].hw /\ (k \in failed => k \in failed')
        PROVE  HeadersFollow'
    <2>1. Goes
      BY <1>0, <1>2, GoesIf
    <2> QED  BY <1>0, <1>2, <2>1, HeadersApart
  <1>3. CASE UNCHANGED vars
    BY <1>1, <1>3 DEF vars
  <1>4. ASSUME NEW r \in Rules, Destroy(r) \/ \E acts \in SUBSET Keys : Replace(r, acts)
        PROVE  HeadersFollow'
    <2>1. job.op = "none" /\ UNCHANGED <<binder, encap, failed, cpu>>
      BY <1>4, Begins
    <2> QED  BY <1>0, <1>1, <2>1 DEF Holds
  <1>5. ASSUME NEW k \in Keys, ShareEncap(k)  PROVE HeadersFollow'
    <2>1. UNCHANGED <<binder, cpu, failed>> /\ job.op = "replace" /\ job.at = "next" /\ encap[k].ref > 0
          /\ encap' = [encap EXCEPT ![k].ref = @ + 1]
      BY <1>5 DEF ShareEncap
    <2>2. \A x \in Keys : /\ encap'[x].listed = encap[x].listed /\ encap'[x].neigh = encap[x].neigh
                          /\ encap'[x].hw = encap[x].hw /\ (x # k => encap'[x].ref = encap[x].ref)
      BY <1>0, <2>1 DEF EncapOf, EncapType
    <2> QED  BY <1>2, <2>1, <2>2
  <1>6. ASSUME NEW k \in Keys, BindNew(k)  PROVE HeadersFollow'
    <2>1. UNCHANGED <<encap, failed, cpu>> /\ job.op = "replace" /\ job.at = "next"
      BY <1>6, TakesNew
    <2>2. \A x \in Binders : /\ binder'[x].val = binder[x].val /\ binder'[x].lost = binder[x].lost
                             /\ binder'[x].work = binder[x].work /\ binder'[x].running = binder[x].running
      BY <1>6, TakesNew
    <2>3. \A x \in Binders : Stays(x)
      BY <2>1, <2>2, StaysIf
    <2>4. Goes
      BY <1>0, <2>1, GoesIf
    <2> QED  BY <1>0, <2>1, <2>3, <2>4, HeadersKept
  <1>6a. ASSUME NEW k \in Keys, NEW b \in Binders, FindOld(k, b)  PROVE HeadersFollow'
    BY <1>1, <1>6a DEF FindOld
  <1>7. CASE BindOld
    <2>1. /\ job.op = "replace" /\ job.at = "bind" /\ UNCHANGED <<cpu, failed>>
          /\ \A x \in Binders : Apart(x)
          /\ encap'[job.key].ref = 0 /\ \A x \in Keys : x # job.key => encap'[x] = encap[x]
      BY <1>7, Binds
    <2>2. \A x \in Keys : encap'[x].ref > 0 => encap'[x] = encap[x]
      BY <2>1
    <2> QED  BY <1>2, <2>1, <2>2
  <1>8. CASE Route \/ ReadNeighbour
    <2>1. UNCHANGED <<encap, failed, cpu>> /\ job.at \in {"route", "read"}
      BY <1>8 DEF Route, ReadNeighbour
    <2>2. job.b \in Binders /\ job.op = "replace"
      BY <1>0, <2>1, InHandAt DEF Binding
    <2>3. \/ UNCHANGED binder \/ binder' = [binder EXCEPT ![job.b].ref = 1]
          \/ binder' = [binder EXCEPT ![job.b].val = nb]
      BY <1>8 DEF Route, ReadNeighbour
    <2>4. \A x \in Binders : x # job.b => binder'[x] = binder[x]
      BY <1>0, <2>2, <2>3 DEF BinderOf, BinderType
    <2>5. Users(job.b) = {}
      BY <2>1 DEF InHand, Binding
    <2>6. \A x \in Binders : x # job.b => Stays(x)
      BY <2>1, <2>4, StaysIf
    <2>7. Goes
      BY <1>0, <2>1, <2>2, GoesIf
    <2> QED  BY <1>0, <2>1, <2>5, <2>6, <2>7, HeadersKept
  <1>9. CASE Unrouted \/ JobFrees
    <2>1. UNCHANGED <<encap, failed, cpu>> /\ job.at \in {"unroute", "free"} /\ binder' = Gone(job.b)
      BY <1>9 DEF Unrouted, JobFrees
    <2>2. job.b \in Binders /\ binder[job.b].ref = 0
      BY <1>0, <2>1, InHandAt DEF FreeOK
    <2>3. job.op # "work" \/ job.todo = {}
      BY <1>0, <2>1 DEF Holds
    <2>4. Goes
      BY <1>0, <2>1, <2>3, GoesIf
    <2> QED  BY <2>1, <2>2, <2>4, HeadersGone
  <1>10. CASE InitWork
    <2>1. UNCHANGED <<failed, cpu>> /\ job.at = "init"
          /\ binder' = [binder EXCEPT ![job.b].ready = TRUE]
          /\ encap' = [encap EXCEPT ![job.key].neigh = job.b, ![job.key].listed = TRUE]
      BY <1>10 DEF InitWork
    <2>2. job.op = "replace" /\ job.b \in Binders /\ job.key \in Keys /\ encap[job.key].ref = 0
      BY <1>0, <2>1, InHandAt DEF EncapOK, Binding
    <2>3. encap'[job.key].ref = 0 /\ \A x \in Keys : x # job.key => encap'[x] = encap[x]
      BY <1>0, <2>1, <2>2 DEF EncapOf, EncapType
    <2>4. \A x \in Binders : /\ binder'[x].val = binder[x].val /\ binder'[x].lost = binder[x].lost
                             /\ binder'[x].work = binder[x].work /\ binder'[x].running = binder[x].running
      BY <1>0, <2>1 DEF BinderOf, BinderType
    <2>5. \A x \in Binders : Stays(x)
      BY <2>1, <2>4, StaysIf
    <2>6. \A x \in Keys : encap'[x].ref > 0 => encap'[x] = encap[x]
      BY <2>3
    <2>7. Goes
      BY <1>0, <2>1, <2>2, GoesIf
    <2> QED  BY <1>0, <2>1, <2>5, <2>6, <2>7, HeadersKept
  <1>11. CASE NewHeader
    <2> PICK k, b : k = job.key /\ b = encap[k].neigh
      OBVIOUS
    <2>1. UNCHANGED cpu /\ job.at = "header" /\ job.op = "replace" /\ k \in Keys
      BY <1>0, <1>11, InHandAt DEF NewHeader
    <2>1a. b \in Binders
      BY <1>0, <2>1 DEF EncapOK
    <2>2. CASE /\ encap' = [encap EXCEPT ![k].hdr = Header(b), ![k].hw = Header(b), ![k].ref = 1]
               /\ failed' = failed \ {k} /\ UNCHANGED binder
      <3>1. encap'[k].hw = binder'[b].val /\ encap'[k].neigh = b
            /\ \A x \in Keys : x # k => encap'[x] = encap[x]
        BY <1>0, <2>1, <2>2 DEF Header, EncapOf, EncapType
      <3>2. HeaderFollows(k)'
        BY <3>1 DEF HeaderFollows
      <3>3. ASSUME NEW x \in Keys, x # k, HeaderFollows(x)  PROVE HeaderFollows(x)'
        <4>1. Stays(encap[x].neigh)
          BY <2>1, <2>2, StaysIf
        <4>2. ~Sending(x) /\ ~Working(encap[x].neigh) /\ (x \in failed => x \in failed')
          BY <2>1, <2>2, <3>3 DEF Sending, Working
        <4> QED  BY <3>1, <3>3, <4>1, <4>2, HeaderKept
      <3>4. \A x \in Keys : x # k => encap'[x] = encap[x]
        BY <3>1
      <3> QED  BY <3>2, <3>3, <3>4 DEF HeadersFollow
    <2>3. CASE /\ encap' = [encap EXCEPT ![k] = NoEncap] /\ UNCHANGED failed
               /\ PutBinder(b, Undo(rule[job.rule].acts))
      <3>1. encap'[k] = NoEncap /\ \A x \in Keys : x # k => encap'[x] = encap[x]
        BY <1>0, <2>1, <2>3 DEF EncapOf
      <3>2. ~encap'[k].listed
        BY <3>1 DEF NoEncap
      <3>3. \A x \in Keys : encap'[x].listed => encap'[x] = encap[x]
        BY <3>1, <3>2
      <3>4. \A x \in Binders : Apart(x)
        BY <1>0, <2>1a, <2>3, PutSame DEF Apart
      <3> QED  BY <1>2, <2>1, <2>3, <3>3, <3>4
    <2> QED  BY <1>11, <2>2, <2>3, Zenon DEF NewHeader
  <1>12. CASE AllocActionSet \/ ReleaseDone \/ WorkDone \/ Unregister \/ Unregistered \/ Grace
              \/ UsersRemoved
    <2>1. UNCHANGED <<binder, encap, failed, cpu>>
      BY <1>12, Zenon DEF AllocActionSet, ReleaseDone, WorkDone, Unregister, Unregistered, Grace,
                          UsersRemoved
    <2>2. \/ job.op \in {"none", "release", "unregister"} /\ job.at # "send"
          \/ job.op = "work" /\ job.at = "next"
          \/ job.at \in {"set", "grace", "users"}
      BY <1>0, <1>12 DEF AllocActionSet, ReleaseDone, WorkDone, Unregister, Unregistered, Grace,
                          UsersRemoved, Holds
    <2>3. job.at # "send" /\ (job.op # "work" \/ job.todo = {})
      BY <1>0, <2>2, InHandAt DEF Holds
    <2> QED  BY <1>1, <2>1, <2>3
  <1>13. CASE InsertRule
    <2>1. UNCHANGED <<binder, encap, cpu>> /\ job.op = "replace" /\ job.at = "next" /\ job.rule \in Rules
          /\ (failed' = failed \/ failed' = failed \ {job.rule})
      BY <1>0, <1>13 DEF InsertRule, Holds
    <2>2. \A x \in Keys : x \in failed => x \in failed'
      BY <2>1, RulesNoKeys
    <2> QED  BY <1>2, <2>1, <2>2
  <1>14. ASSUME NEW k \in Keys, ReleaseEncap(k)  PROVE HeadersFollow'
    <2>1. UNCHANGED <<cpu, failed>> /\ job.op = "release" /\ job.at = "next"
      BY <1>14 DEF ReleaseEncap
    <2>2. \/ UNCHANGED encap \/ encap' = [encap EXCEPT ![k] = NoEncap]
          \/ encap' = [encap EXCEPT ![k] = [encap[k] EXCEPT !.ref = @ - 1]] /\ encap[k].ref # 1
      BY <1>14 DEF ReleaseEncap
    <2>3. \A x \in Keys : encap'[x].ref > 0 /\ encap'[x].listed =>
              /\ encap[x].ref > 0 /\ encap[x].listed /\ encap'[x].neigh = encap[x].neigh
              /\ encap'[x].hw = encap[x].hw
      <3>1. CASE UNCHANGED encap
        BY <3>1
      <3>2. CASE encap' = [encap EXCEPT ![k] = NoEncap]
        <4>1. encap'[k] = NoEncap /\ \A x \in Keys : x # k => encap'[x] = encap[x]
          BY <1>0, <3>2 DEF EncapOf
        <4>2. ~encap'[k].listed
          BY <4>1 DEF NoEncap
        <4> QED  BY <4>1, <4>2
      <3>3. CASE encap' = [encap EXCEPT ![k] = [encap[k] EXCEPT !.ref = @ - 1]]
        <4>1. /\ encap'[k].ref = encap[k].ref - 1 /\ encap'[k].listed = encap[k].listed
              /\ encap'[k].neigh = encap[k].neigh /\ encap'[k].hw = encap[k].hw
              /\ \A x \in Keys : x # k => encap'[x] = encap[x]
              /\ encap[k].ref \in Nat
          BY <1>0, <3>3 DEF EncapOf, EncapType
        <4> QED  BY <4>1
      <3> QED  BY <2>2, <3>1, <3>2, <3>3
    <2>4. UNCHANGED binder \/ \A b \in Binders : Apart(b)
      <3>1. encap[k].neigh = None \/ encap[k].neigh \in Binders
        BY <1>0 DEF EncapOf, EncapType
      <3>2. UNCHANGED binder
            \/ (encap[k].neigh # None /\ PutBinder(encap[k].neigh, [job EXCEPT !.todo = @ \ {k}]))
        BY <1>14, Zenon DEF ReleaseEncap
      <3> QED  BY <1>0, <3>1, <3>2, PutSame DEF Apart
    <2> QED  BY <1>2, <2>1, <2>3, <2>4
  <1>15. ASSUME NEW b \in Binders, WorkBegins(b)  PROVE HeadersFollow'
    <2>1. UNCHANGED <<encap, failed, cpu, job>>
          /\ binder' = [binder EXCEPT ![b].work = FALSE, ![b].running = TRUE]
      BY <1>15 DEF WorkBegins
    <2>2. binder'[b].running /\ \A x \in Binders :
              /\ binder'[x].val = binder[x].val /\ binder'[x].lost = binder[x].lost
              /\ x # b => binder'[x] = binder[x]
      BY <1>0, <2>1 DEF BinderOf, BinderType
    <2>3. \A x \in Binders : Stays(x)
      BY <2>1, <2>2, StaysIf
    <2>4. Goes
      BY <1>0, <2>1, GoesIf
    <2> QED  BY <1>0, <2>1, <2>3, <2>4, HeadersKept
  <1>16. ASSUME NEW b \in Binders, WorkLocks(b)  PROVE HeadersFollow'
    <2>1. UNCHANGED <<encap, failed, cpu>> /\ job.op = "none"
          /\ binder' = [binder EXCEPT ![b].running = FALSE]
      BY <1>16 DEF WorkLocks
    <2>2. Working(b)' /\ job'.todo = Users(b)
      BY <1>16 DEF WorkLocks, Working, NoJob
    <2>3. \A x \in Binders : /\ binder'[x].val = binder[x].val /\ binder'[x].lost = binder[x].lost
                             /\ x # b => binder'[x] = binder[x]
      BY <1>0, <2>1 DEF BinderOf, BinderType
    <2>4. ASSUME NEW k \in Keys, encap[k].listed, HeaderFollows(k)  PROVE HeaderFollows(k)'
      <3>1. encap[k].neigh \in Binders /\ k \in Users(encap[k].neigh)
        BY <1>0, <2>4 DEF EncapOK, Users
      <3>2. CASE encap[k].neigh = b
        BY <2>1, <2>2, <3>1, <3>2 DEF HeaderFollows
      <3>3. CASE encap[k].neigh # b
        <4>1. Stays(encap[k].neigh)
          BY <2>1, <2>3, <3>1, <3>3, StaysIf
        <4>2. ~Sending(k) /\ ~Working(encap[k].neigh)
          BY <1>0, <2>1 DEF Sending, Working, Holds
        <4> QED  BY <2>1, <2>4, <3>1, <4>1, <4>2, HeaderKept
      <3> QED  BY <3>2, <3>3
    <2> QED  BY <2>1, <2>4 DEF HeadersFollow
  <1>17. ASSUME NEW k \in Keys, WorkUpdates(k)  PROVE HeadersFollow'
    <2>1. UNCHANGED <<binder, cpu, failed>>
      BY <1>17 DEF WorkUpdates
    <2>2. /\ job.op = "work" /\ job'.op = "work" /\ job.at = "put" /\ job'.at = "send" /\ job'.key = k
          /\ job'.todo = job.todo \ {k} /\ job'.b = job.b
      BY <1>0, <1>17, UpdateJob
    <2>3. \A x \in Keys : encap'[x].hw = encap[x].hw /\ (x # k => encap'[x] = encap[x])
      BY <1>17, HeaderBuilt
    <2>4. HeaderFollows(k)'
      BY <2>2 DEF HeaderFollows, Sending
    <2>5. ASSUME NEW x \in Keys, x # k, HeaderFollows(x)  PROVE HeaderFollows(x)'
      <3>1. Stays(encap[x].neigh)
        BY <2>1, StaysIf
      <3>2. ~Sending(x)
        BY <2>2 DEF Sending
      <3>3. Working(encap[x].neigh) /\ x \in job.todo => Working(encap[x].neigh)' /\ x \in job'.todo
        BY <2>2, <2>3, <2>5 DEF Working
      <3> QED  BY <2>1, <2>3, <2>5, <3>1, <3>2, <3>3, HeaderKept
    <2> QED  BY <2>3, <2>4, <2>5 DEF HeadersFollow
  <1>17a. CASE SendHeader
    <2> PICK k : k = job.key
      OBVIOUS
    <2>1. UNCHANGED <<binder, cpu>> /\ job.at = "send"
      BY <1>17a DEF SendHeader
    <2>2. /\ job.op \in {"work", "unregister"} /\ k \in Keys /\ job.b \in Binders
          /\ job'.op = job.op /\ job'.todo = job.todo /\ job'.b = job.b
          /\ job.op = "work" => job'.at \in {"rules", "put"}
      BY <1>0, <1>17a, UpdateJob
    <2>3. SameUsers
      BY <1>17a, Updates DEF IInv, JobOK
    <2>4. /\ k \in failed' \/ encap'[k].hw = encap[k].hdr
          /\ \A x \in Keys : x # k => encap'[x].hw = encap[x].hw /\ (x \in failed => x \in failed')
      <3>1. \/ encap' = [encap EXCEPT ![k].hw = encap[k].hdr] /\ failed' = failed \ {k}
            \/ UNCHANGED encap /\ failed' = failed \cup {k}
        BY <1>17a, Zenon DEF SendHeader
      <3> QED  BY <1>0, <2>2, <3>1 DEF EncapOf, EncapType
    <2>5. ASSUME encap'[k].listed  PROVE HeaderFollows(k)'
      <3>1. encap[k].listed
        BY <2>2, <2>3, <2>5 DEF SameUsers
      <3>2. job.op = "work"
        BY <1>0, <2>1, <2>2, <3>1 DEF EncapOK
      <3>3. encap'[k].neigh = job.b
        BY <2>1, <2>2, <2>3, <3>2 DEF InHand, Users, SameUsers
      <3>4. Current(job.b)' \/ encap[k].hdr = binder'[job.b].val
        BY <2>1, <2>2, <3>2 DEF SendFollows, Current, Due
      <3> QED  BY <2>2, <2>4, <3>3, <3>4 DEF HeaderFollows, Current
    <2>6. ASSUME NEW x \in Keys, x # k, HeaderFollows(x)  PROVE HeaderFollows(x)'
      <3>1. Stays(encap[x].neigh)
        BY <2>1, StaysIf
      <3>2. ~Sending(x)
        BY <2>6 DEF Sending
      <3>3. Working(encap[x].neigh) /\ x \in job.todo => Working(encap[x].neigh)' /\ x \in job'.todo
        BY <2>2, <2>3, <2>6 DEF Working, SameUsers
      <3> QED  BY <2>3, <2>4, <2>6, <3>1, <3>2, <3>3, HeaderKept DEF SameUsers
    <2> QED  BY <2>3, <2>5, <2>6 DEF HeadersFollow, SameUsers
  <1>17b. ASSUME RulesUpdated \/ \E r \in Rules : UpdateRule(r)  PROVE HeadersFollow'
    <2>1. UNCHANGED <<binder, cpu, encap>> /\ job.at = "rules"
          /\ \E r \in Rules : failed' \in {failed, failed \ {r}, failed \cup {r}}
      BY <1>17b, SomeOf DEF RulesUpdated, UpdateRule
    <2>2. /\ job'.op = job.op /\ job'.todo = job.todo /\ job'.b = job.b
          /\ job.op = "work" => job'.at \in {"rules", "put"}
      BY <1>0, <1>17b, UpdateJob
    <2>3. Goes
      BY <2>1, <2>2 DEF Goes, Sending, Working
    <2>4. \A x \in Keys : x \in failed => x \in failed'
      BY <2>1, RulesNoKeys
    <2> QED  BY <1>0, <2>1, <2>3, <2>4, HeadersApart
  <1>18. CASE WorkPuts
    <2>1. UNCHANGED <<encap, failed, cpu>> /\ job.at = "put" /\ job.todo = {}
          /\ PutBinder(job.b, [job EXCEPT !.at = "next", !.b = None])
      BY <1>18 DEF WorkPuts
    <2>2. job.b \in Binders
      BY <1>0, <2>1, InHandAt
    <2>3. \A b \in Binders : Apart(b)
      BY <1>0, <2>1, <2>2, PutSame DEF Apart
    <2> QED  BY <1>1, <2>1, <2>3
  <1>19. ASSUME NEW b \in Binders, Dying(b) \/ Unlink(b)  PROVE HeadersFollow'
    <2>1. UNCHANGED <<encap, failed, cpu>>
          /\ (UNCHANGED job \/ (job.op = "unregister" /\ job.at = "next"))
      BY <1>19 DEF Dying, Unlink
    <2>2. \A x \in Binders : /\ binder'[x].val = binder[x].val /\ binder'[x].lost = binder[x].lost
                             /\ binder'[x].work = binder[x].work /\ binder'[x].running = binder[x].running
      BY <1>0, <1>19 DEF Dying, Unlink, BinderOf, BinderType
    <2>3. \A x \in Binders : Stays(x)
      BY <2>1, <2>2, StaysIf
    <2>4. Goes
      BY <1>0, <2>1, GoesIf
    <2> QED  BY <1>0, <2>1, <2>3, <2>4, HeadersKept
  <1>20. ASSUME NEW k \in Keys, RemoveUser(k)  PROVE HeadersFollow'
    <2>1. /\ UNCHANGED <<cpu, failed>> /\ job.at = "users" /\ job.op = "unregister"
          /\ ~encap'[k].listed /\ \A x \in Keys : x # k => encap'[x] = encap[x]
          /\ \A x \in Binders : Apart(x)
      BY <1>20, Removes
    <2>2. \A x \in Keys : encap'[x].listed => encap'[x] = encap[x]
      BY <2>1
    <2> QED  BY <1>2, <2>1, <2>2
  <1>21. CASE UserUnlisted \/ UserLost
    <2>1. UNCHANGED <<binder, cpu, failed>>
      BY <1>21 DEF UserUnlisted, UserLost
    <2>2. /\ job.op = "unregister" /\ job.at \in {"unlisted", "lost"} /\ job.key \in Keys
      BY <1>0, <1>21, UpdateJob
    <2>3. ~encap'[job.key].listed
      <3>1. CASE UserUnlisted
        BY <1>0, <2>2, <3>1, Updates DEF IInv, JobOK, EncapOK, SameUsers
      <3>2. CASE UserLost
        BY <3>2, HeaderBuilt
      <3> QED  BY <1>21, <3>1, <3>2
    <2>4. \A x \in Keys : x # job.key => encap'[x] = encap[x]
      BY <1>21, HeaderBuilt
    <2>5. \A x \in Keys : encap'[x].listed => encap'[x] = encap[x]
      BY <2>3, <2>4
    <2> QED  BY <1>2, <2>1, <2>2, <2>5
  <1>23. CASE Next
    <2>1. StepOf
      BY <1>23, Steps DEF IInv
    <2> QED  BY <2>1, <1>4, <1>5, <1>6, <1>6a, <1>7, <1>8, <1>9, <1>10, <1>11, <1>12, <1>13, <1>14, <1>15,
                <1>16, <1>17, <1>17a, <1>17b, <1>18, <1>19, <1>20, <1>21, NotifierHeaders,
                Zenon DEF StepOf
  <1> QED  BY <1>3, <1>23

(* What the work item is about to send stays what its binder has.           *)
LEMMA SendFollowsStep ==
    ASSUME IInv, SendFollows, [Next]_vars
    PROVE  SendFollows'
  <1>0. BinderOf /\ EncapOf /\ CpuOf /\ JobOf /\ Holds /\ EncapOK /\ FreeOK
    BY DEF IInv, Types, JobOK
  <1> SUFFICES ASSUME job'.op = "work", job'.at = "send"
               PROVE  Current(job.b)' \/ encap'[job'.key].hdr = binder'[job'.b].val
    BY DEF SendFollows
  <1>1. ASSUME UNCHANGED <<encap, job>>, job.b \in Binders => Stays(job.b)
        PROVE  Current(job.b)' \/ encap'[job'.key].hdr = binder'[job'.b].val
    <2>1. job.b \in Binders
      BY <1>0, <1>1, InHandAt
    <2> QED  BY <1>1, <2>1 DEF SendFollows, Stays
  <1>2. CASE UNCHANGED vars
    <2>1. UNCHANGED <<encap, job, binder, cpu>>
      BY <1>2 DEF vars
    <2> QED  BY <1>1, <2>1, StaysIf
  <1>3. ASSUME NEW k \in Keys, WorkUpdates(k)
        PROVE  encap'[job'.key].hdr = binder'[job'.b].val
    <2>1. UNCHANGED binder
      BY <1>3 DEF WorkUpdates
    <2>2. job'.key = k /\ job'.b = job.b
      BY <1>0, <1>3, UpdateJob
    <2> QED  BY <1>3, <2>1, <2>2, HeaderBuilt
  <1>4. ASSUME NEW c \in Cpus, Notifier(c) \/ \E v \in Hosts : Change(c, v)
        PROVE  Current(job.b)' \/ encap'[job'.key].hdr = binder'[job'.b].val
    <2>1. UNCHANGED <<encap, job>>
      BY <1>4 DEF Notifier, Notify, Look, Store, TakeRef, Schedule, PutRef, NotifierFrees, Change
    <2>2. ASSUME job.b \in Binders  PROVE Stays(job.b)
      <3>1. Working(job.b)
        BY <2>1 DEF Working
      <3>2. binder[job.b].ref # 0
        BY <2>2, <3>1, Unreferenced DEF IInv
      <3> QED  BY <1>4, <2>2, <3>2, NotifierStays
    <2> QED  BY <1>1, <2>1, <2>2
  <1>5. ASSUME NEW b \in Binders, WorkBegins(b) \/ Unlink(b)
        PROVE  Current(job.b)' \/ encap'[job'.key].hdr = binder'[job'.b].val
    <2>1. UNCHANGED <<encap, job, cpu>>
      BY <1>5 DEF WorkBegins, Unlink
    <2>2. binder' = [binder EXCEPT ![b].work = FALSE, ![b].running = TRUE]
          \/ binder' = [binder EXCEPT ![b].at = "unlinked"]
      BY <1>5 DEF WorkBegins, Unlink
    <2>3. \A x \in Binders : /\ binder'[x].val = binder[x].val /\ binder'[x].lost = binder[x].lost
                             /\ binder[x].work \/ binder[x].running => binder'[x].work \/ binder'[x].running
      BY <1>0, <2>2 DEF BinderOf, BinderType
    <2> QED  BY <1>1, <2>1, <2>3, StaysIf
  <1>6. CASE Next
    <2>1. StepOf
      BY <1>6, Steps DEF IInv
    <2>2. ASSUME StepOf, \A k \in Keys : ~WorkUpdates(k), \A b \in Binders : ~WorkBegins(b) /\ ~Unlink(b),
                 \A c \in Cpus : ~(Notifier(c) \/ \E v \in Hosts : Change(c, v))
          PROVE  FALSE
      <3>1. ASSUME NEW r \in Rules, Destroy(r) \/ \E acts \in SUBSET Keys : Replace(r, acts)  PROVE FALSE
        BY <3>1, Begins
      <3>2. ASSUME NEW k \in Keys, ShareEncap(k)  PROVE FALSE
        BY <1>0, <3>2 DEF ShareEncap, JobOf, JobType
      <3>2a. ASSUME NEW k \in Keys, NEW b \in Binders, FindOld(k, b)  PROVE FALSE
        BY <1>0, <3>2a DEF FindOld, JobOf, JobType
      <3>3. ASSUME NEW k \in Keys, BindNew(k)  PROVE FALSE
        BY <3>3, TakesNew
      <3>4. CASE BindOld
        BY <3>4, Binds
      <3>5. CASE Route \/ ReadNeighbour \/ InitWork
        <4>1. job.op = "replace"
          BY <1>0, <3>5, InHandAt DEF Route, ReadNeighbour, InitWork, Binding
        <4> QED  BY <1>0, <3>5, <4>1 DEF Route, ReadNeighbour, InitWork, JobOf, JobType
      <3>6. CASE Unrouted \/ AllocActionSet \/ InsertRule
        <4> DEFINE acts == rule[job.rule].acts \cup {job.key}
        <4>1. \/ job' = [Undo(rule[job.rule].acts) EXCEPT !.b = None]
              \/ job' = [job EXCEPT !.at = "next", !.todo = @ \ {job.key}, !.key = None]
              \/ job' = [Undo(acts) EXCEPT !.key = None]
              \/ job' = NoJob \/ job' = Undo(rule[job.rule].acts)
          BY <3>6, Zenon DEF Unrouted, AllocActionSet, InsertRule
        <4> HIDE DEF acts
        <4>2. \A x : Undo(x).op = "release"
          BY <1>0 DEF Undo, JobOf, JobType
        <4>3. CASE job' = [Undo(rule[job.rule].acts) EXCEPT !.b = None] \/ job' = [Undo(acts) EXCEPT !.key = None]
          BY <1>0, <4>3 DEF Undo, JobOf, JobType
        <4>4. CASE job' = [job EXCEPT !.at = "next", !.todo = @ \ {job.key}, !.key = None]
          BY <1>0, <4>4 DEF JobOf, JobType
        <4>5. CASE job' = NoJob \/ job' = Undo(rule[job.rule].acts)
          BY <4>2, <4>5 DEF NoJob
        <4> QED  BY <4>1, <4>3, <4>4, <4>5
      <3>7. CASE NewHeader
        <4>1. CASE job' = [job EXCEPT !.at = "set"]
          BY <1>0, <4>1 DEF JobOf, JobType
        <4>2. CASE PutBinder(encap[job.key].neigh, Undo(rule[job.rule].acts))
          BY <1>0, <4>2 DEF PutBinder, Undo, JobOf, JobType
        <4> QED  BY <3>7, <4>1, <4>2, Zenon DEF NewHeader
      <3>8. ASSUME NEW k \in Keys, ReleaseEncap(k)  PROVE FALSE
        <4> DEFINE next == [job EXCEPT !.todo = @ \ {k}]
        <4>1. job.op = "release"
              /\ \/ job' = [job EXCEPT !.at = "oops", !.b = None] \/ job' = next
                 \/ job' = [next EXCEPT !.at = "free", !.b = encap[k].neigh]
          BY <3>8, Zenon DEF ReleaseEncap, PutBinder
        <4> QED  BY <1>0, <4>1 DEF JobOf, JobType
      <3>9. CASE ReleaseDone \/ WorkDone \/ Unregister \/ Unregistered
        <4>1. job' = NoJob \/ job' = [NoJob EXCEPT !.op = "unregister", !.at = "next"]
          BY <3>9, Zenon DEF ReleaseDone, WorkDone, Unregister, Unregistered
        <4>2. CASE job' = NoJob
          BY <4>2 DEF NoJob
        <4>3. CASE job' = [NoJob EXCEPT !.op = "unregister", !.at = "next"]
          BY <4>3 DEF NoJob
        <4> QED  BY <4>1, <4>2, <4>3
      <3>10. CASE JobFrees \/ WorkPuts
        <4>1. \/ job' = [job EXCEPT !.at = "lost"] \/ job' = [job EXCEPT !.at = "next", !.b = None]
              \/ job' = [[job EXCEPT !.at = "next", !.b = None] EXCEPT !.at = "free", !.b = job.b]
          BY <3>10, Zenon DEF JobFrees, WorkPuts, PutBinder
        <4> QED  BY <1>0, <4>1 DEF JobOf, JobType
      <3>11. ASSUME SendHeader \/ RulesUpdated \/ \E r \in Rules : UpdateRule(r)  PROVE FALSE
        BY <1>0, <3>11, UpdateJob
      <3>12. ASSUME UserUnlisted \/ UserLost  PROVE FALSE
        BY <1>0, <3>12, UpdateJob
      <3>13. ASSUME NEW b \in Binders, Dying(b) \/ WorkLocks(b)  PROVE FALSE
        BY <1>0, <3>13 DEF Dying, WorkLocks, NoJob, JobOf, JobType
      <3>14. CASE Grace \/ UsersRemoved
        BY <1>0, <3>14 DEF Grace, UsersRemoved, JobOf, JobType
      <3>15. ASSUME NEW k \in Keys, RemoveUser(k)  PROVE FALSE
        BY <3>15, Removes
      <3> QED  BY <2>2, <3>1, <3>2, <3>2a, <3>3, <3>4, <3>5, <3>6, <3>7, <3>8, <3>9, <3>10, <3>11, <3>12,
                  <3>13, <3>14, <3>15, Zenon DEF StepOf
    <2> QED  BY <2>1, <2>2, <1>3, <1>4, <1>5
  <1> QED  BY <1>2, <1>6

---------------------------------------------------------------------------
(* The NIC has the headers that were built.                                 *)

LEMMA SentKept ==
    ASSUME HeadersSent,
           \A k \in Keys : encap'[k].ref > 0 =>
               /\ encap[k].ref > 0 /\ encap'[k].neigh = encap[k].neigh
               /\ encap'[k].hdr = encap[k].hdr /\ encap'[k].hw = encap[k].hw
               /\ k \in failed => k \in failed'
               /\ Sending(k) => Sending(k)'
    PROVE  HeadersSent'
  <1> SUFFICES ASSUME NEW k \in Keys, encap'[k].ref > 0  PROVE Sent(k)'
    BY DEF HeadersSent
  <1>1. Sent(k)
    BY DEF HeadersSent
  <1> QED  BY <1>1 DEF Sent

LEMMA HeadersSentStep ==
    ASSUME IInv, InHand, HeadersSent, [Next]_vars
    PROVE  HeadersSent'
  <1>0. BinderOf /\ EncapOf /\ RuleOf /\ JobOf /\ Holds /\ EncapOK
    BY DEF IInv, Types, JobOK
  <1>1. ASSUME UNCHANGED <<encap, failed>>, UNCHANGED job \/ job.at # "send"  PROVE HeadersSent'
    BY <1>1, SentKept DEF Sending
  <1>1a. ASSUME UNCHANGED failed, job.at # "send",
                \A k \in Keys : encap'[k].ref > 0 => encap'[k] = encap[k]
         PROVE  HeadersSent'
    BY <1>1a, SentKept DEF Sending
  <1>2. CASE UNCHANGED vars
    BY <1>1, <1>2 DEF vars
  <1>3. ASSUME NEW r \in Rules, Destroy(r) \/ \E acts \in SUBSET Keys : Replace(r, acts)
        PROVE  HeadersSent'
    <2>1. job.op = "none" /\ UNCHANGED <<encap, failed>>
      BY <1>3, Begins
    <2> QED  BY <1>0, <1>1, <2>1 DEF Holds
  <1>4. ASSUME NEW k \in Keys, ShareEncap(k)  PROVE HeadersSent'
    <2>1. UNCHANGED failed /\ encap[k].ref > 0 /\ encap' = [encap EXCEPT ![k].ref = @ + 1]
          /\ job.at = "next"
      BY <1>4 DEF ShareEncap
    <2>2. \A x \in Keys : /\ encap'[x].neigh = encap[x].neigh /\ encap'[x].hdr = encap[x].hdr
                          /\ encap'[x].hw = encap[x].hw /\ (x # k => encap'[x].ref = encap[x].ref)
      BY <1>0, <2>1 DEF EncapOf, EncapType
    <2> QED  BY <2>1, <2>2, SentKept DEF Sending
  <1>5. CASE BindOld
    <2>1. UNCHANGED failed /\ job.at = "bind" /\ encap'[job.key].ref = 0
          /\ \A x \in Keys : x # job.key => encap'[x] = encap[x]
      BY <1>5, Binds
    <2>2. \A x \in Keys : encap'[x].ref > 0 => encap'[x] = encap[x]
      BY <2>1
    <2> QED  BY <1>1a, <2>1, <2>2
  <1>6. CASE InitWork
    <2>1. UNCHANGED failed /\ job.at = "init"
          /\ encap' = [encap EXCEPT ![job.key].neigh = job.b, ![job.key].listed = TRUE]
      BY <1>6 DEF InitWork
    <2>2. job.key \in Keys /\ encap[job.key].ref = 0
      BY <1>0, <2>1, InHandAt DEF EncapOK, Binding
    <2>3. encap'[job.key].ref = 0 /\ \A x \in Keys : x # job.key => encap'[x] = encap[x]
      BY <1>0, <2>1, <2>2 DEF EncapOf, EncapType
    <2>4. \A x \in Keys : encap'[x].ref > 0 => encap'[x] = encap[x]
      BY <2>3
    <2> QED  BY <1>1a, <2>1, <2>4
  <1>7. CASE NewHeader
    <2> PICK k, b : k = job.key /\ b = encap[k].neigh
      OBVIOUS
    <2>1. job.at = "header" /\ k \in Keys
      BY <1>0, <1>7, InHandAt DEF NewHeader
    <2>1a. b \in Binders
      BY <1>0, <2>1 DEF EncapOK
    <2>2. CASE /\ encap' = [encap EXCEPT ![k].hdr = Header(b), ![k].hw = Header(b), ![k].ref = 1]
               /\ failed' = failed \ {k}
      <3>1. encap'[k].hw = encap'[k].hdr /\ encap'[k].neigh = b
            /\ \A x \in Keys : x # k => encap'[x] = encap[x]
        BY <1>0, <2>1, <2>2 DEF EncapOf, EncapType
      <3>2. Sent(k)'
        BY <2>1a, <3>1, NoneIsNone DEF Sent
      <3>3. ASSUME NEW x \in Keys, x # k, encap'[x].ref > 0  PROVE Sent(x)'
        <4>1. encap'[x] = encap[x] /\ (x \in failed => x \in failed')
          BY <2>2, <3>1, <3>3
        <4>2. Sent(x) /\ ~Sending(x)
          BY <2>1, <3>3, <4>1 DEF HeadersSent, Sending
        <4> QED  BY <4>1, <4>2 DEF Sent
      <3> QED  BY <3>2, <3>3 DEF HeadersSent
    <2>3. CASE encap' = [encap EXCEPT ![k] = NoEncap] /\ UNCHANGED failed
      <3>1. encap'[k] = NoEncap /\ \A x \in Keys : x # k => encap'[x] = encap[x]
        BY <1>0, <2>1, <2>3 DEF EncapOf
      <3>2. encap'[k].ref = 0
        BY <3>1 DEF NoEncap
      <3>3. \A x \in Keys : encap'[x].ref > 0 => encap'[x] = encap[x]
        BY <3>1, <3>2
      <3> QED  BY <1>1a, <2>1, <2>3, <3>3
    <2> QED  BY <1>7, <2>2, <2>3, Zenon DEF NewHeader
  <1>8. CASE InsertRule
    <2>1. UNCHANGED encap /\ job.rule \in Rules /\ (failed' = failed \/ failed' = failed \ {job.rule})
          /\ job.at = "next"
      BY <1>0, <1>8 DEF InsertRule, Holds
    <2>2. \A x \in Keys : x \in failed => x \in failed'
      BY <2>1, RulesNoKeys
    <2> QED  BY <2>1, <2>2, SentKept DEF Sending
  <1>9. ASSUME NEW k \in Keys, ReleaseEncap(k)  PROVE HeadersSent'
    <2>1. UNCHANGED failed /\ job.at = "next"
          /\ \/ UNCHANGED encap \/ encap' = [encap EXCEPT ![k] = NoEncap]
             \/ encap' = [encap EXCEPT ![k] = [encap[k] EXCEPT !.ref = @ - 1]]
      BY <1>9 DEF ReleaseEncap
    <2>2. CASE UNCHANGED encap
      BY <1>1, <2>1, <2>2
    <2>3. CASE encap' = [encap EXCEPT ![k] = NoEncap]
      <3>1. encap'[k] = NoEncap /\ \A x \in Keys : x # k => encap'[x] = encap[x]
        BY <1>0, <2>3 DEF EncapOf
      <3>2. encap'[k].ref = 0
        BY <3>1 DEF NoEncap
      <3>3. \A x \in Keys : encap'[x].ref > 0 => encap'[x] = encap[x]
        BY <3>1, <3>2
      <3> QED  BY <1>1a, <2>1, <3>3
    <2>4. CASE encap' = [encap EXCEPT ![k] = [encap[k] EXCEPT !.ref = @ - 1]]
      <3>1. /\ encap'[k].ref = encap[k].ref - 1 /\ encap'[k].hdr = encap[k].hdr
            /\ encap'[k].neigh = encap[k].neigh /\ encap'[k].hw = encap[k].hw
            /\ \A x \in Keys : x # k => encap'[x] = encap[x]
            /\ encap[k].ref \in Nat
        BY <1>0, <2>4 DEF EncapOf, EncapType
      <3>2. \A x \in Keys : encap'[x].ref > 0 =>
                /\ encap[x].ref > 0 /\ encap'[x].neigh = encap[x].neigh
                /\ encap'[x].hdr = encap[x].hdr /\ encap'[x].hw = encap[x].hw
        BY <3>1
      <3> QED  BY <2>1, <3>2, SentKept DEF Sending
    <2> QED  BY <2>1, <2>2, <2>3, <2>4
  <1>9a. ASSUME NEW k \in Keys, job.at # "send", UNCHANGED failed, SameUsers,
                Sending(k)', encap[k].ref > 0 => encap'[k].neigh # None \/ encap'[k].hdr = None,
                \A x \in Keys : x # k => encap'[x] = encap[x]
         PROVE  HeadersSent'
    <2>1. encap'[k].ref > 0 => Sent(k)'
      BY <1>9a DEF Sent, SameUsers
    <2>2. ASSUME NEW x \in Keys, x # k, encap'[x].ref > 0  PROVE Sent(x)'
      <3>1. encap'[x] = encap[x]
        BY <1>9a, <2>2
      <3>2. Sent(x) /\ ~Sending(x)
        BY <1>9a, <2>2, <3>1 DEF HeadersSent, Sending
      <3> QED  BY <1>9a, <3>1, <3>2 DEF Sent
    <2> QED  BY <2>1, <2>2 DEF HeadersSent
  <1>10. ASSUME NEW k \in Keys, WorkUpdates(k)  PROVE HeadersSent'
    <2>1. job.op = "work" /\ job.at = "put" /\ job'.at = "send" /\ job'.key = k /\ k \in job.todo
          /\ job.b \in Binders
      BY <1>0, <1>10, UpdateJob
    <2>2. UNCHANGED failed
      BY <1>10 DEF WorkUpdates
    <2>2a. SameUsers
      BY <1>10, Updates DEF IInv, JobOK
    <2>3. encap'[k].neigh # None
      BY <2>1, <2>2a, NoneIsNone DEF InHand, Users, SameUsers
    <2>4. \A x \in Keys : x # k => encap'[x] = encap[x]
      BY <1>10, HeaderBuilt
    <2>5. Sending(k)'
      BY <2>1 DEF Sending
    <2> QED  BY <1>9a, <2>1, <2>2, <2>2a, <2>3, <2>4, <2>5
  <1>11. ASSUME NEW k \in Keys, RemoveUser(k)  PROVE HeadersSent'
    <2>1. UNCHANGED failed /\ job.at = "users"
          /\ \A x \in Keys : /\ encap'[x].ref = encap[x].ref /\ encap'[x].neigh = encap[x].neigh
                             /\ encap'[x].hdr = encap[x].hdr /\ encap'[x].hw = encap[x].hw
      BY <1>11, Removes
    <2> QED  BY <2>1, SentKept DEF Sending
  <1>12. CASE UserUnlisted
    <2>1. job.op = "unregister" /\ job.key \in Keys /\ job.b \in Binders /\ job'.key = job.key
          /\ (job'.at = "send" \/ UNCHANGED encap)
      BY <1>0, <1>12, UpdateJob
    <2>2. UNCHANGED failed /\ job.at = "unlisted"
      BY <1>12 DEF UserUnlisted
    <2>2a. SameUsers
      BY <1>12, Updates DEF IInv, JobOK
    <2>3. CASE UNCHANGED encap
      BY <1>1, <2>2, <2>3
    <2>4. CASE job'.at = "send"
      <3>1. encap'[job.key].neigh # None
        BY <2>1, <2>2, <2>2a, NoneIsNone DEF InHand, SameUsers
      <3>2. \A x \in Keys : x # job.key => encap'[x] = encap[x]
        BY <1>12, HeaderBuilt
      <3> PICK k \in Keys : k = job.key
        BY <2>1
      <3>4. Sending(k)'
        BY <2>1, <2>4 DEF Sending
      <3> QED  BY <1>9a, <2>2, <2>2a, <3>1, <3>2, <3>4
    <2> QED  BY <2>1, <2>3, <2>4
  <1>12a. CASE UserLost
    <2> PICK k : k = job.key
      OBVIOUS
    <2>1. k \in Keys /\ job'.key = k /\ job'.at = "send"
      <3>1. job' = [job EXCEPT !.at = "send"]
        BY <1>12a DEF UserLost
      <3>2. job.key \in Keys
        BY <1>0, <1>12a, UpdateJob
      <3> QED  BY <1>0, <3>1, <3>2 DEF JobOf, JobType
    <2>2. UNCHANGED failed /\ job.at = "lost"
      BY <1>12a DEF UserLost
    <2>3. encap'[k].hdr = None
          /\ \A x \in Keys : encap'[x].ref = encap[x].ref /\ (x # k => encap'[x] = encap[x])
      BY <1>12a, HeaderBuilt
    <2>4. Sent(k)'
      BY <2>1, <2>3 DEF Sent, Sending
    <2>5. ASSUME NEW x \in Keys, x # k, encap'[x].ref > 0  PROVE Sent(x)'
      <3>1. encap'[x] = encap[x]
        BY <2>3, <2>5
      <3>2. Sent(x) /\ ~Sending(x)
        BY <2>2, <2>5, <3>1 DEF HeadersSent, Sending
      <3> QED  BY <2>2, <3>1, <3>2 DEF Sent
    <2> QED  BY <2>4, <2>5 DEF HeadersSent
  <1>12b. CASE SendHeader
    <2> PICK k : k = job.key
      OBVIOUS
    <2>1. k \in Keys /\ job.at = "send"
      BY <1>0, <1>12b, UpdateJob DEF SendHeader
    <2>2. /\ k \in failed' \/ encap'[k].hw = encap'[k].hdr
          /\ encap'[k].hdr = encap[k].hdr
          /\ \A x \in Keys : x # k => encap'[x] = encap[x] /\ (x \in failed => x \in failed')
      <3>1. \/ encap' = [encap EXCEPT ![k].hw = encap[k].hdr] /\ failed' = failed \ {k}
            \/ UNCHANGED encap /\ failed' = failed \cup {k}
        BY <1>12b, Zenon DEF SendHeader
      <3> QED  BY <1>0, <2>1, <3>1 DEF EncapOf, EncapType
    <2>3. SameUsers
      BY <1>12b, Updates DEF IInv, JobOK
    <2>4. encap'[k].ref > 0 => Sent(k)'
      BY <2>1, <2>2, <2>3 DEF HeadersSent, Sent, SameUsers
    <2>5. ASSUME NEW x \in Keys, x # k, encap'[x].ref > 0  PROVE Sent(x)'
      <3>1. encap'[x] = encap[x] /\ (x \in failed => x \in failed')
        BY <2>2, <2>5
      <3>2. Sent(x) /\ ~Sending(x)
        BY <2>5, <3>1 DEF HeadersSent, Sending
      <3> QED  BY <3>1, <3>2 DEF Sent
    <2> QED  BY <2>4, <2>5 DEF HeadersSent
  <1>12c. CASE RulesUpdated \/ \E r \in Rules : UpdateRule(r)
    <2>1. UNCHANGED encap /\ job.at = "rules"
          /\ \E r \in Rules : failed' \in {failed, failed \ {r}, failed \cup {r}}
      BY <1>12c, SomeOf DEF RulesUpdated, UpdateRule
    <2>2. \A x \in Keys : x \in failed => x \in failed'
      BY <2>1, RulesNoKeys
    <2> QED  BY <2>1, <2>2, SentKept DEF Sending
  <1>13. ASSUME \/ \E k \in Keys : BindNew(k) \/ \E b \in Binders : FindOld(k, b)
                \/ Route \/ Unrouted \/ ReadNeighbour \/ AllocActionSet \/ ReleaseDone
                \/ JobFrees \/ WorkPuts \/ WorkDone
                \/ Unregister \/ Grace \/ UsersRemoved \/ Unregistered
         PROVE  HeadersSent'
    <2>1. UNCHANGED <<encap, failed>>
      BY <1>13, Zenon DEF BindNew, FindOld, Route, Unrouted, ReadNeighbour, AllocActionSet, ReleaseDone,
                       JobFrees, WorkPuts, WorkDone, Unregister, Grace, UsersRemoved, Unregistered
    <2>2. job.op = "none" \/ job.at # "send"
      BY <1>13, Zenon DEF BindNew, FindOld, Route, Unrouted, ReadNeighbour, AllocActionSet, ReleaseDone,
                       JobFrees, WorkPuts, WorkDone, Unregister, Grace, UsersRemoved, Unregistered
    <2> QED  BY <1>0, <1>1, <2>1, <2>2 DEF Holds
  <1>14. ASSUME NEW b \in Binders, Dying(b) \/ WorkBegins(b) \/ WorkLocks(b) \/ Unlink(b)
         PROVE  HeadersSent'
    <2>1. UNCHANGED <<encap, failed>>
      BY <1>14 DEF Dying, WorkBegins, WorkLocks, Unlink
    <2>2. UNCHANGED job \/ job.op = "none" \/ job.at = "next"
      BY <1>14, Zenon DEF Dying, WorkBegins, WorkLocks, Unlink
    <2> QED  BY <1>0, <1>1, <2>1, <2>2 DEF Holds
  <1>15. ASSUME NEW c \in Cpus, Notifier(c) \/ \E v \in Hosts : Change(c, v)  PROVE HeadersSent'
    BY <1>1, <1>15 DEF Notifier, Notify, Look, Store, TakeRef, Schedule, PutRef, NotifierFrees, Change
  <1>16. CASE Next
    <2>1. StepOf
      BY <1>16, Steps DEF IInv
    <2> QED  BY <2>1, <1>3, <1>4, <1>5, <1>6, <1>7, <1>8, <1>9, <1>10, <1>11, <1>12, <1>12a,
                <1>12b, <1>12c, <1>13, <1>14, <1>15, Zenon DEF StepOf
  <1> QED  BY <1>2, <1>16

---------------------------------------------------------------------------
(* Rules follow the headers                                                 *)

LEMMA RulesKept ==
    ASSUME RulesFollow, UNCHANGED setting, UNCHANGED job \/ job.at # "rules",
           \A r \in Rules : rule'[r].at = "in" => rule'[r] = rule[r] /\ (r \in failed => r \in failed'),
           \A r \in Rules : rule[r].at = "in" => \A k \in rule[r].acts :
               encap'[k].hw = encap[k].hw /\ (k \in failed => k \in failed')
    PROVE  RulesFollow'
  <1> SUFFICES ASSUME NEW r \in Rules, rule'[r].at = "in"  PROVE RuleFollows(r)'
    BY DEF RulesFollow
  <1>1. rule'[r] = rule[r] /\ rule[r].at = "in"
    OBVIOUS
  <1> QED  BY <1>1, RuleKept DEF RulesFollow

(* The last reference to an encap action is released by a rule that is not  *)
(* in use, and so no other rule uses it.                                    *)
LEMMA LastUser ==
    ASSUME IInv, NEW k \in Keys, job.op = "release", k \in job.todo, encap[k].ref = 1,
           NEW r \in Rules, rule[r].at = "in"
    PROVE  k \notin rule[r].acts
  <1> SUFFICES ASSUME k \in rule[r].acts  PROVE FALSE
    OBVIOUS
  <1> PICK d : d = job.rule
    OBVIOUS
  <1>1. d \in Rules /\ rule[d].at = "new" /\ k \in rule[d].acts
    BY DEF IInv, JobOK, Holds
  <1>2. r # d
    BY <1>1
  <1>3. {r, d} \subseteq UsedBy(k)
    BY <1>1, InUseBy DEF UsedBy
  <1>4. Cardinality({r, d}) = 2
    <2>1. IsFiniteSet({r}) /\ Cardinality({r}) = 1
      BY FS_Singleton
    <2>2. Cardinality({r} \cup {d}) = Cardinality({r}) + 1
      BY <1>2, <2>1, FS_AddElement
    <2>3. {r} \cup {d} = {r, d}
      OBVIOUS
    <2> QED  BY <2>1, <2>2, <2>3
  <1>5. Cardinality({r, d}) <= Cardinality(UsedBy(k)) /\ Cardinality(UsedBy(k)) \in Nat
    BY <1>3, Finite, SomeOf, FS_Subset, Zenon
  <1>6. encap[k].ref = Cardinality(UsedBy(k)) + Flag(Taken(k))
    BY DEF IInv, EncapRefs
  <1>7. Flag(Taken(k)) \in Nat
    BY DEF Flag
  <1> QED  BY <1>4, <1>5, <1>6, <1>7

LEMMA RulesFollowStep ==
    ASSUME IInv, InHand, HeadersSent, RulesFollow, [Next]_vars
    PROVE  RulesFollow'
  <1>0. BinderOf /\ EncapOf /\ RuleOf /\ JobOf /\ Holds /\ EncapOK
    BY DEF IInv, Types, JobOK
  <1>1. ASSUME UNCHANGED <<setting, encap, rule, failed>>, UNCHANGED job \/ job.at # "rules"
        PROVE  RulesFollow'
    BY <1>1, RulesKept
  <1>2. CASE UNCHANGED vars
    BY <1>1, <1>2 DEF vars
  <1>3. ASSUME NEW r \in Rules, UNCHANGED <<setting, encap, failed>>, rule'[r].at # "in",
               job.at # "rules", \A x \in Rules : x # r => rule'[x] = rule[x]
        PROVE  RulesFollow'
    <2>1. \A x \in Rules : rule'[x].at = "in" => rule'[x] = rule[x]
      BY <1>3
    <2> QED  BY <1>3, <2>1, RulesKept
  <1>4. ASSUME UNCHANGED <<setting, rule, failed>>, \A k \in Keys : encap'[k].hw = encap[k].hw,
               job.at # "rules"
        PROVE  RulesFollow'
    <2>1. \A r \in Rules : \A k \in rule[r].acts : k \in Keys
      BY <1>0 DEF RuleOf, RuleType
    <2> QED  BY <1>4, <2>1, RulesKept
  <1>5. ASSUME NEW r \in Rules, Destroy(r) \/ \E acts \in SUBSET Keys : Replace(r, acts)
        PROVE  RulesFollow'
    <2>1. rule' = [rule EXCEPT ![r].at = "new", ![r].resp = "none"] \/ rule' = [rule EXCEPT ![r].at = "new"]
      BY <1>5, Zenon DEF Destroy, Replace
    <2>2. rule'[r].at = "new" /\ \A x \in Rules : x # r => rule'[x] = rule[x]
      <3>1. CASE rule' = [rule EXCEPT ![r].at = "new", ![r].resp = "none"]
        BY <1>0, <3>1 DEF RuleOf, RuleType
      <3>2. CASE rule' = [rule EXCEPT ![r].at = "new"]
        BY <1>0, <3>2 DEF RuleOf, RuleType
      <3> QED  BY <2>1, <3>1, <3>2
    <2>3. UNCHANGED <<setting, encap, failed>> /\ job.op = "none"
      BY <1>5, Begins
    <2>4. job.at # "rules"
      BY <1>0, <2>3 DEF Holds
    <2> QED  BY <1>3, <2>2, <2>3, <2>4
  <1>6. ASSUME NEW k \in Keys, ShareEncap(k)  PROVE RulesFollow'
    <2>1. UNCHANGED <<setting, rule, failed>> /\ job.at = "next"
          /\ encap' = [encap EXCEPT ![k].ref = @ + 1]
      BY <1>6 DEF ShareEncap
    <2>2. \A x \in Keys : encap'[x].hw = encap[x].hw
      BY <1>0, <2>1 DEF EncapOf, EncapType
    <2> QED  BY <1>4, <2>1, <2>2
  <1>6a. CASE BindOld
    <2>1. UNCHANGED <<setting, rule, failed>> /\ job.at = "bind"
          /\ \A x \in Keys : encap'[x].hw = encap[x].hw
      BY <1>6a, Binds
    <2> QED  BY <1>4, <2>1
  <1>7. CASE InitWork
    <2>1. UNCHANGED <<setting, rule, failed>> /\ job.at = "init"
          /\ encap' = [encap EXCEPT ![job.key].neigh = job.b, ![job.key].listed = TRUE]
      BY <1>7 DEF InitWork
    <2>2. \A x \in Keys : encap'[x].hw = encap[x].hw
      BY <1>0, <2>1 DEF EncapOf, EncapType
    <2> QED  BY <1>4, <2>1, <2>2
  <1>8. CASE NewHeader
    <2> PICK k : k = job.key
      OBVIOUS
    <2>1. UNCHANGED <<setting, rule>> /\ job.at = "header"
      BY <1>8 DEF NewHeader
    <2>1a. k \in Keys /\ encap[k].ref = 0
      BY <1>0, <2>1, InHandAt DEF EncapOK
    <2>1b. failed' = failed \/ failed' = failed \ {k}
      BY <1>8, Zenon DEF NewHeader
    <2>2. \A x \in Keys : x # k => encap'[x] = encap[x] /\ (x \in failed => x \in failed')
      <3>1. \/ \E h : encap' = [encap EXCEPT ![k].hdr = h, ![k].hw = h, ![k].ref = 1]
            \/ encap' = [encap EXCEPT ![k] = NoEncap]
        BY <1>8, Zenon DEF NewHeader
      <3>2. ASSUME NEW h, encap' = [encap EXCEPT ![k].hdr = h, ![k].hw = h, ![k].ref = 1]
            PROVE  \A x \in Keys : x # k => encap'[x] = encap[x]
        BY <1>0, <3>2 DEF EncapOf
      <3>3. ASSUME encap' = [encap EXCEPT ![k] = NoEncap]
            PROVE  \A x \in Keys : x # k => encap'[x] = encap[x]
        BY <1>0, <3>3 DEF EncapOf
      <3>4. \A x \in Keys : x # k => encap'[x] = encap[x]
        BY <3>1, <3>2, <3>3, Zenon
      <3> QED  BY <2>1b, <3>4
    <2>3. \A r \in Rules : r \in failed => r \in failed'
      BY <2>1a, <2>1b, RulesNoKeys
    <2>4. ASSUME NEW r \in Rules, rule[r].at = "in", NEW x \in rule[r].acts
          PROVE  encap'[x].hw = encap[x].hw /\ (x \in failed => x \in failed')
      <3>1. x \in Keys /\ x # k
        BY <2>1a, <2>4, InUseBy
      <3> QED  BY <2>2, <3>1
    <2> QED  BY <2>1, <2>3, <2>4, RulesKept
  <1>9. CASE AllocActionSet
    <2>1. UNCHANGED <<setting, encap, failed>> /\ job.at = "set"
          /\ rule' = [rule EXCEPT ![job.rule].acts = rule[job.rule].acts \cup {job.key}]
      BY <1>9, Zenon DEF AllocActionSet
    <2>2. job.rule \in Rules /\ rule[job.rule].at = "new"
      BY <1>0, <2>1, InHandAt DEF Holds
    <2>3. rule'[job.rule].at = "new" /\ \A x \in Rules : x # job.rule => rule'[x] = rule[x]
      BY <1>0, <2>1, <2>2 DEF RuleOf, RuleType
    <2> QED  BY <1>3, <2>1, <2>2, <2>3
  <1>10. CASE InsertRule
    <2> PICK r : r = job.rule
      OBVIOUS
    <2>1. UNCHANGED <<setting, encap>> /\ job.op = "replace" /\ job.at = "next" /\ r \in Rules
          /\ rule[r].at = "new"
      BY <1>0, <1>10 DEF InsertRule, Holds
    <2>2. CASE UNCHANGED <<rule, failed>>
      BY <1>1, <2>1, <2>2
    <2>3. CASE /\ rule' = [rule EXCEPT ![r].at = "in",
                               ![r].resp = IF setting.u25 \/ check_ready(encap, rule[r].acts)
                                           THEN "own" ELSE "fallback"]
               /\ failed' = failed \ {r}
      <3>1. rule'[r].acts = rule[r].acts
            /\ rule'[r].resp = (IF setting.u25 \/ check_ready(encap, rule[r].acts)
                                THEN "own" ELSE "fallback")
            /\ \A x \in Rules : x # r => rule'[x] = rule[x]
        BY <1>0, <2>1, <2>3 DEF RuleOf, RuleType
      <3>2. ASSUME NEW k \in rule[r].acts, k \notin failed'  PROVE encap[k].hw = encap[k].hdr
        <4>1. k \in Keys /\ k \notin failed
          BY <1>0, <2>1, <2>3, <3>2, RulesNoKeys DEF RuleOf, RuleType
        <4>2. r \in UsedBy(k)
          BY <2>1 DEF UsedBy
        <4>3. encap[k].ref \in Nat /\ encap[k].ref >= 1
          BY <4>1, <4>2, Referenced
        <4>4. encap[k].ref > 0
          BY <4>3
        <4> QED  BY <2>1, <4>1, <4>4 DEF HeadersSent, Sent, Sending
      <3>3. RuleFollows(r)'
        <4> SUFFICES ASSUME ~setting.u25, \A k \in rule[r].acts : k \notin failed'
                     PROVE  rule'[r].resp = IF \A k \in rule[r].acts : encap'[k].hw # None
                                            THEN "own" ELSE "fallback"
          BY <2>1, <3>1 DEF RuleFollows
        <4>1. check_ready(encap, rule[r].acts) <=> \A k \in rule[r].acts : encap'[k].hw # None
          BY <2>1, <3>2 DEF check_ready
        <4> QED  BY <3>1, <4>1
      <3>4. ASSUME NEW x \in Rules, x # r, rule'[x].at = "in"  PROVE RuleFollows(x)'
        <4>1. rule'[x] = rule[x] /\ (x \in failed => x \in failed')
          BY <2>3, <3>1, <3>4
        <4>2. \A k \in rule[x].acts : k \in failed => k \in failed'
          BY <1>0, <2>1, <2>3, RulesNoKeys DEF RuleOf, RuleType
        <4> QED  BY <2>1, <3>4, <4>1, <4>2, RuleKept DEF RulesFollow
      <3> QED  BY <3>3, <3>4 DEF RulesFollow
    <2> QED  BY <1>10, <2>2, <2>3 DEF InsertRule
  <1>11. CASE ReleaseDone
    <2>1. UNCHANGED <<setting, encap, failed>> /\ job.rule \in Rules /\ job.at = "next"
          /\ rule' = [rule EXCEPT ![job.rule] = NoRule]
      BY <1>0, <1>11 DEF ReleaseDone, Holds
    <2>2. rule'[job.rule].at = "none" /\ \A x \in Rules : x # job.rule => rule'[x] = rule[x]
      BY <1>0, <2>1 DEF RuleOf, RuleType, NoRule
    <2> QED  BY <1>3, <2>1, <2>2
  <1>12. ASSUME NEW k \in Keys, ReleaseEncap(k)  PROVE RulesFollow'
    <2>1. UNCHANGED <<setting, rule, failed>> /\ job.op = "release" /\ k \in job.todo
          /\ job.at = "next"
          /\ \/ UNCHANGED encap \/ (encap[k].ref = 1 /\ encap' = [encap EXCEPT ![k] = NoEncap])
             \/ encap' = [encap EXCEPT ![k] = [encap[k] EXCEPT !.ref = @ - 1]]
      BY <1>12 DEF ReleaseEncap
    <2>2. CASE UNCHANGED encap
      BY <1>1, <2>1, <2>2
    <2>3. CASE encap[k].ref = 1 /\ encap' = [encap EXCEPT ![k] = NoEncap]
      <3>1. \A x \in Keys : x # k => encap'[x] = encap[x]
        BY <1>0, <2>3 DEF EncapOf
      <3>2. ASSUME NEW r \in Rules, rule[r].at = "in", NEW x \in rule[r].acts
            PROVE  encap'[x].hw = encap[x].hw
        <4>1. x \in Keys /\ x # k
          BY <2>1, <2>3, <3>2, InUseBy, LastUser
        <4> QED  BY <3>1, <4>1
      <3> QED  BY <2>1, <3>2, RulesKept
    <2>4. CASE encap' = [encap EXCEPT ![k] = [encap[k] EXCEPT !.ref = @ - 1]]
      <3>1. \A x \in Keys : encap'[x].hw = encap[x].hw
        BY <1>0, <2>4 DEF EncapOf, EncapType
      <3> QED  BY <1>4, <2>1, <3>1
    <2> QED  BY <2>1, <2>2, <2>3, <2>4
  <1>13. ASSUME NEW k \in Keys, WorkUpdates(k)  PROVE RulesFollow'
    <2>1. UNCHANGED <<setting, rule, failed>> /\ job.at = "put"
      BY <1>13 DEF WorkUpdates
    <2>2. \A x \in Keys : encap'[x].hw = encap[x].hw
      BY <1>13, HeaderBuilt
    <2> QED  BY <1>4, <2>1, <2>2
  <1>14. ASSUME NEW k \in Keys, RemoveUser(k)  PROVE RulesFollow'
    <2>1. UNCHANGED <<setting, rule, failed>> /\ job.at = "users"
          /\ \A x \in Keys : encap'[x].hw = encap[x].hw
      BY <1>14, Removes
    <2> QED  BY <1>4, <2>1
  <1>15. CASE UserUnlisted \/ UserLost
    <2>1. UNCHANGED <<setting, rule, failed>> /\ job.at \in {"unlisted", "lost"}
      BY <1>15 DEF UserUnlisted, UserLost
    <2>2. \A x \in Keys : encap'[x].hw = encap[x].hw
      BY <1>15, HeaderBuilt
    <2> QED  BY <1>4, <2>1, <2>2
  <1>15a. CASE SendHeader
    <2> PICK k : k = job.key
      OBVIOUS
    <2>1. UNCHANGED <<setting, rule>> /\ job.at = "send"
      BY <1>15a DEF SendHeader
    <2>2. k \in Keys
      BY <1>0, <1>15a, UpdateJob
    <2>3. \A r \in Rules : r \in failed => r \in failed'
      BY <1>15a, <2>2, RulesNoKeys DEF SendHeader
    <2>4. CASE UNCHANGED encap /\ failed' = failed \cup {k}
      BY <2>1, <2>3, <2>4, RulesKept
    <2>5. CASE /\ encap' = [encap EXCEPT ![k].hw = encap[k].hdr] /\ failed' = failed \ {k}
               /\ job' = [job EXCEPT !.at = "rules", !.rules = Using(k)]
      <3>1. \A x \in Keys : x # k => encap'[x] = encap[x] /\ (x \in failed => x \in failed')
        BY <1>0, <2>5 DEF EncapOf
      <3>2. job'.at = "rules" /\ job'.rules = Using(k)
        BY <1>0, <2>5 DEF JobOf, JobType
      <3>3. ASSUME NEW r \in Rules, rule[r].at = "in"  PROVE RuleFollows(r)'
        <4>1. CASE k \in rule[r].acts
          BY <3>2, <3>3, <4>1 DEF RuleFollows, Using
        <4>2. CASE k \notin rule[r].acts
          <5>1. rule[r].acts \subseteq Keys
            BY <1>0 DEF RuleOf, RuleType
          <5>2. \A x \in rule[r].acts : encap'[x].hw = encap[x].hw /\ (x \in failed => x \in failed')
            BY <3>1, <4>2, <5>1
          <5>3. RuleFollows(r)
            BY <3>3 DEF RulesFollow
          <5> QED  BY <2>1, <2>3, <5>2, <5>3, RuleKept
        <4> QED  BY <4>1, <4>2
      <3> QED  BY <2>1, <3>3 DEF RulesFollow
    <2> QED  BY <1>15a, <2>4, <2>5, Zenon DEF SendHeader
  <1>15b. ASSUME NEW r \in Rules, UpdateRule(r)  PROVE RulesFollow'
    <2>1. job.at = "rules" /\ job'.at = "rules" /\ job'.rules = job.rules \ {r}
      BY <1>0, <1>15b, UpdateJob
    <2>2. UNCHANGED <<setting, encap>>
      BY <1>15b DEF UpdateRule
    <2>3. \/ rule' = [rule EXCEPT ![r].resp = Response(encap, r)] /\ failed' = failed \ {r}
          \/ UNCHANGED rule /\ failed' = failed \cup {r}
      BY <1>15b, Zenon DEF UpdateRule
    <2>4. SameActs
      BY <1>0, <1>15b, Updates DEF IInv
    <2>5. \A x \in Rules : x # r => rule'[x] = rule[x] /\ (x \in failed <=> x \in failed')
      BY <1>0, <2>3 DEF RuleOf
    <2>6. \A k \in Keys : k \in failed <=> k \in failed'
      BY <2>3, RulesNoKeys
    <2>7. ASSUME NEW x \in Rules, x # r, rule'[x].at = "in"  PROVE RuleFollows(x)'
      <3>1. rule[x].acts \subseteq Keys /\ rule'[x] = rule[x] /\ (x \in failed => x \in failed')
        BY <1>0, <2>5, <2>7 DEF RuleOf, RuleType
      <3>2. RuleFollows(x)
        BY <2>7, <3>1 DEF RulesFollow
      <3>3. \A k \in rule[x].acts : k \in failed => k \in failed'
        BY <2>6, <3>1
      <3>4. x \in job.rules => x \in job'.rules
        BY <2>1, <2>7
      <3> QED  BY <2>1, <2>2, <3>1, <3>2, <3>3, <3>4 DEF RuleFollows
    <2>8. ASSUME rule'[r].at = "in"  PROVE RuleFollows(r)'
      <3>1. CASE r \in failed'
        BY <3>1 DEF RuleFollows
      <3>2. CASE rule' = [rule EXCEPT ![r].resp = Response(encap, r)]
        <4>1. rule'[r].resp = Response(encap, r)
          BY <1>0, <3>2 DEF RuleOf, RuleType
        <4>2. rule'[r].acts = rule[r].acts /\ rule[r].at = "in"
          BY <2>4, <2>8 DEF SameActs
        <4>3. ASSUME NEW k \in rule[r].acts, k \notin failed'  PROVE encap[k].hw = encap[k].hdr
          <5>1. k \in Keys /\ encap[k].ref > 0
            BY <4>2, <4>3, InUseBy
          <5>2. k \notin failed /\ ~Sending(k)
            BY <2>1, <2>6, <4>3, <5>1 DEF Sending
          <5> QED  BY <5>1, <5>2 DEF HeadersSent, Sent
        <4> SUFFICES ASSUME ~setting.u25, \A k \in rule[r].acts : k \notin failed'
                     PROVE  rule'[r].resp = IF \A k \in rule[r].acts : encap'[k].hw # None
                                            THEN "own" ELSE "fallback"
          BY <2>2, <4>2 DEF RuleFollows
        <4>4. check_ready(encap, rule[r].acts) <=> \A k \in rule[r].acts : encap'[k].hw # None
          BY <2>2, <4>3 DEF check_ready
        <4> QED  BY <4>1, <4>4 DEF Response
      <3> QED  BY <2>3, <3>1, <3>2
    <2> QED  BY <2>7, <2>8 DEF RulesFollow
  <1>15c. CASE RulesUpdated
    <2>1. UNCHANGED <<setting, encap, rule, failed>> /\ job.rules = {}
      BY <1>15c DEF RulesUpdated
    <2> QED  BY <2>1 DEF RulesFollow, RuleFollows
  <1>16. ASSUME \/ \E k \in Keys : BindNew(k) \/ \E b \in Binders : FindOld(k, b)
                \/ Route \/ Unrouted \/ ReadNeighbour \/ JobFrees \/ WorkPuts \/ WorkDone
                \/ Unregister \/ Grace \/ UsersRemoved \/ Unregistered
         PROVE  RulesFollow'
    <2>1. UNCHANGED <<setting, encap, rule, failed>>
      BY <1>16, Zenon DEF BindNew, FindOld, Route, Unrouted, ReadNeighbour, JobFrees, WorkPuts, WorkDone,
                       Unregister, Grace, UsersRemoved, Unregistered
    <2>2. job.op = "none" \/ job.at # "rules"
      BY <1>16, Zenon DEF BindNew, FindOld, Route, Unrouted, ReadNeighbour, JobFrees, WorkPuts, WorkDone,
                       Unregister, Grace, UsersRemoved, Unregistered
    <2> QED  BY <1>0, <1>1, <2>1, <2>2 DEF Holds
  <1>17. ASSUME NEW b \in Binders, Dying(b) \/ WorkBegins(b) \/ WorkLocks(b) \/ Unlink(b)
         PROVE  RulesFollow'
    <2>1. UNCHANGED <<setting, encap, rule, failed>>
      BY <1>17 DEF Dying, WorkBegins, WorkLocks, Unlink
    <2>2. UNCHANGED job \/ job.op = "none" \/ job.at = "next"
      BY <1>17, Zenon DEF Dying, WorkBegins, WorkLocks, Unlink
    <2> QED  BY <1>0, <1>1, <2>1, <2>2 DEF Holds
  <1>18. ASSUME NEW c \in Cpus, Notifier(c) \/ \E v \in Hosts : Change(c, v)  PROVE RulesFollow'
    BY <1>1, <1>18 DEF Notifier, Notify, Look, Store, TakeRef, Schedule, PutRef, NotifierFrees, Change
  <1>19. CASE Next
    <2>1. StepOf
      BY <1>19, Steps DEF IInv
    <2> QED  BY <2>1, <1>5, <1>6, <1>6a, <1>7, <1>8, <1>9, <1>10, <1>11, <1>12, <1>13, <1>14, <1>15,
                <1>15a, <1>15b, <1>15c, <1>16,
                <1>17, <1>18, Zenon DEF StepOf
  <1> QED  BY <1>2, <1>19

(* NicInv is inductive relative to IInv.                                    *)
LEMMA NicInitially == Init => NicInv
  <1> SUFFICES ASSUME Init  PROVE NicInv
    OBVIOUS
  <1>1. InTable = {}
    BY DEF Init, InTable, NoBinder
  <1>2. OneInTable /\ Following
    BY <1>1 DEF OneInTable, Following
  <1>3. InHand /\ SendFollows
    BY DEF Init, InHand, SendFollows, NoJob, Binding
  <1>4. HeadersFollow /\ HeadersSent
    BY DEF Init, HeadersFollow, HeadersSent, NoEncap
  <1>5. RulesFollow
    BY DEF Init, RulesFollow, NoRule
  <1> QED  BY <1>2, <1>3, <1>4, <1>5 DEF NicInv

LEMMA NicStep ==
    ASSUME IInv, NicInv, [Next]_vars
    PROVE  NicInv'
  <1>1. OneInTable' /\ Following'
    BY FollowingStep DEF NicInv
  <1>2. InHand'
    BY InHandStep DEF NicInv
  <1>3. HeadersFollow' /\ SendFollows'
    BY HeadersFollowStep, SendFollowsStep DEF NicInv
  <1>4. HeadersSent'
    BY HeadersSentStep DEF NicInv
  <1>5. RulesFollow'
    BY RulesFollowStep DEF NicInv
  <1> QED  BY <1>1, <1>2, <1>3, <1>4, <1>5 DEF NicInv

---------------------------------------------------------------------------
(* The results                                                              *)

LEMMA Initially == Init => IInv
  <1> SUFFICES ASSUME Init  PROVE IInv
    OBVIOUS
  <1>1. Types
    BY Empty, ChangesNat DEF Init, Types, Outside, BinderOf, EncapOf, RuleOf, CpuOf, JobOf, History
  <1>2. JobOK
    BY DEF Init, JobOK, Holds, RulesEmpty, NoJob, NoRule, Binding
  <1>3. EncapOK
    BY DEF Init, EncapOK, NoEncap, NoJob, Binding
  <1>4. CpuOK
    BY DEF Init, CpuOK, Idle
  <1>5. FreeOK
    BY DEF Init, FreeOK, NoBinder, Idle, NoJob
  <1>6. BinderRefs
    <2> SUFFICES ASSUME NEW b \in Binders  PROVE binder[b].ref = RefSum(b)
      BY DEF BinderRefs
    <2>1. Users(b) = {} /\ Waiting(b) = {} /\ ~Working(b) /\ ~Filling(b)
      BY DEF Init, Users, Waiting, Working, Filling, NoEncap, Idle, NoJob
    <2>2. /\ binder[b].ref = 0 /\ binder[b].lost = 0
          /\ ~binder[b].work /\ ~binder[b].running
      BY DEF Init, NoBinder
    <2>3. /\ Flag(binder[b].work) = 0 /\ Flag(binder[b].running) = 0
          /\ Flag(Working(b)) = 0 /\ Flag(Filling(b)) = 0
      BY <2>1, <2>2, Zenon DEF Flag
    <2>4. Cardinality(Users(b)) = 0 /\ Cardinality(Waiting(b)) = 0
      BY <2>1, FS_EmptySet
    <2> QED  BY <2>2, <2>3, <2>4 DEF RefSum
  <1>7. EncapRefs
    <2> SUFFICES ASSUME NEW k \in Keys
                 PROVE  encap[k].ref = Cardinality(UsedBy(k)) + Flag(Taken(k))
      BY DEF EncapRefs
    <2>1. UsedBy(k) = {} /\ ~Taken(k) /\ encap[k].ref = 0
      BY DEF Init, UsedBy, Taken, NoRule, NoJob, NoEncap
    <2>2. Flag(Taken(k)) = 0 /\ Cardinality(UsedBy(k)) = 0
      BY <2>1, FS_EmptySet, Zenon DEF Flag
    <2> QED  BY <2>1, <2>2
  <1> QED  BY <1>1, <1>2, <1>3, <1>4, <1>5, <1>6, <1>7 DEF IInv

(* The parts of IInv together are an invariant of every behaviour.          *)
THEOREM Invariant == Spec => []IInv
  <1>1. IInv /\ [Next]_vars => IInv'
    BY TypesStep, JobOKStep, EncapOKStep, CpuOKStep, FreeOKStep, BinderRefsStep, EncapRefsStep
       DEF IInv
  <1> QED  BY Initially, <1>1, PTL DEF Spec

(* The variables keep their types; what is released had been taken, so that *)
(* no count gets below zero.                                                *)
THEOREM TypeCorrect == Spec => []TypeOK
  <1>1. IInv => TypeOK
    BY DEF IInv, Types, Outside, BinderOf, EncapOf, RuleOf, CpuOf, JobOf, History, TypeOK,
           BinderType, EncapType, RuleType, CpuType, JobType
  <1> QED  BY Invariant, <1>1, PTL

(* Whoever the binder of a neighbour is used by - encap actions in its      *)
(* list, a work item, notifiers - has exactly one reference to it, and a    *)
(* rule has one to each of its encap actions, whatever commands, work,      *)
(* notifiers and the removal of the device do at the same time.             *)
THEOREM ReferencesExact == Spec => []RefsExact
  <1>1. IInv => RefsExact
    BY DEF IInv, RefsExact, BinderRefs, RefSum, EncapRefs, Waiting, Filling, UsedBy, Taken
  <1> QED  BY Invariant, <1>1, PTL

(* No notifier, work item or encap action in a list has a pointer to a      *)
(* binder that was freed, and nor has the thread that holds the mutex while *)
(* it fills, releases or frees one or writes its headers.  (What it finds   *)
(* in the hash table it may lose before it takes a reference, or while it   *)
(* removes the users: then it is Unheld.)                                   *)
THEOREM NoUseAfterFree == Spec => []InUseAllocated
  <1>1. ASSUME IInv  PROVE InUseAllocated
    <2>1. \A c \in Cpus : cpu[c].b # None => binder[cpu[c].b].at # "free"
      BY <1>1 DEF IInv, FreeOK
    <2>2. \A b \in Binders : binder[b].work \/ binder[b].running => binder[b].at # "free"
      BY <1>1, InUse
    <2>3. ASSUME NEW k \in Keys, encap[k].listed  PROVE binder[encap[k].neigh].at # "free"
      <3>1. encap[k].neigh \in Binders /\ k \in Users(encap[k].neigh)
        BY <1>1, <2>3 DEF IInv, EncapOK, Users
      <3> QED  BY <1>1, <3>1, InUse
    <2>4. ASSUME job.b # None, ~Unheld  PROVE binder[job.b].at # "free"
      <3>1. JobOf /\ Holds /\ FreeOK
        BY <1>1 DEF IInv, Types, JobOK
      <3>2. job.b \in Binders
        BY <2>4, <3>1 DEF JobOf, JobType
      <3>3. CASE job.at \in {"free", "route", "unroute"}
        BY <3>1, <3>3 DEF FreeOK
      <3>4. CASE job.at \in {"read", "init"}
        BY <1>1, <3>2, <3>4, InUse DEF Filling
      <3>5. CASE job.at \in {"put", "send", "rules"} /\ job.op = "work"
        BY <1>1, <3>2, <3>5, InUse DEF Working
      <3>6. job.at \notin {"none", "next", "bind", "header", "set", "oops"}
        BY <2>4, <3>1 DEF Unheld, Holds
      <3>7. job.op = "unregister" => job.at = "free"
        BY <2>4 DEF Unheld
      <3>8. job.at \in {"grace", "users", "unlisted", "lost"} => job.op = "unregister"
        BY <3>1, InHandAt
      <3>9. job.at \in {"put", "send", "rules"} => job.op = "work"
        BY <3>1, <3>7, InHandAt
      <3> QED  BY <3>1, <3>3, <3>4, <3>5, <3>6, <3>7, <3>8, <3>9 DEF JobOf, JobType
    <2> QED  BY <2>1, <2>2, <2>3, <2>4 DEF InUseAllocated
  <1> QED  BY Invariant, <1>1, PTL

(* What the NIC does with packets into tunnels follows the kernel's         *)
(* neighbour table through notifiers, binders, headers and rules: wherever  *)
(* one of them lags behind, there is a notifier, a pending work item or the *)
(* thread that holds the mutex that has yet to bring it up to date, a       *)
(* request that failed, or one of the two ways the code loses a change (a   *)
(* notifier overtaken by another, and work scheduled before INIT_WORK).     *)
(* The thread writes a header and each of its rules in requests of their    *)
(* own, and sleeps in between.                                              *)
THEOREM NicFollowsNeighbours == Spec => []NicFollows
  <1>1. Spec => []NicInv
    <2>1. IInv /\ NicInv /\ [Next]_vars => NicInv'
      BY NicStep
    <2> QED  BY NicInitially, Invariant, <2>1, PTL DEF Spec
  <1>2. ASSUME NicInv  PROVE NicFollows
    <2>1. BinderFollows
      <3> SUFFICES ASSUME NEW b \in InTable, binder[b].ready, ~binder[b].dying, b \notin late,
                          binder[b].val # nb
                   PROVE  \E c \in Cpus : cpu[c].at \in {"notify", "look", "store"}
        BY DEF BinderFollows
      <3>1. \E c \in Cpus : Tells(c, b)
        BY <1>2 DEF NicInv, Following, HasRead, Knows
      <3> QED  BY <3>1 DEF Tells
    <2>2. \A k \in Keys : encap[k].ref > 0 /\ encap[k].neigh = None /\ k \notin failed
                            => encap[k].hw = None \/ Sending(k)
      BY <1>2 DEF NicInv, HeadersSent, Sent
    <2> QED  BY <1>2, <2>1, <2>2 DEF NicInv, NicFollows, HeadersFollow, RulesFollow
  <1> QED  BY <1>1, <1>2, PTL

=============================================================================
