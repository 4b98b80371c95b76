---------------------------- MODULE McdiProofs ----------------------------
(***************************************************************************)
(* Proofs about Mcdi, for any commands of the three kinds, any number of   *)
(* sequence numbers and any settings.                                      *)
(***************************************************************************)
EXTENDS Mcdi, FiniteSetTheorems, WellFoundedInduction, TLAPS

---------------------------------------------------------------------------
(* The interface                                                            *)

Modes == {"POLL", "EVENTS", "FAIL"}
Mails == [cmd : Cmds \cup {NoCmd}, evreq : BOOLEAN, reply : Answers \cup {"none"}]

Iface == [ mode : Modes,
           list : SUBSET Cmds,
           db : Cmds \cup {NoCmd},
           held : [Seqs -> Cmds \cup {NoCmd}],
           prev_seq : Seqs,
           prev_handle : Nat,
           cleanup : SUBSET (Contexts \X Cmds),
           outstanding : Int,
           buf : BOOLEAN,
           mail : Mails,
           state : [Cmds -> States],
           handle : [Cmds -> Nat],
           seq : [Cmds -> Seqs],
           polled : [Cmds -> BOOLEAN],
           proxied : [Cmds -> BOOLEAN],
           expired : [Cmds -> BOOLEAN],
           rc : [Cmds -> Codes \cup {"none"}],
           ref : [Cmds -> Int],
           work : [Cmds -> {"idle", "armed"}],
           done : [Cmds -> Codes \cup {"none"}],
           called : [Cmds -> Nat] ]

(* What two states of it have in common.                                    *)
SameBox(m, n)     == /\ n.mode = m.mode /\ n.mail = m.mail
                     /\ n.db = m.db /\ n.buf = m.buf /\ n.held = m.held
SameCmds(m, n)    == n.list = m.list /\ n.state = m.state
SameCleanup(m, n) == n.cleanup = m.cleanup /\ n.outstanding = m.outstanding /\ n.called = m.called

LEMMA StateNames ==
    /\ {"QUEUED", "RETRY", "PROXY", "FINISHED", "RUNNING"} \subseteq States
    /\ {"RUNNING_CANCELLED", "PROXY_CANCELLED"} \subseteq States
BY DEF States, Running, Cancelled

(* Of the commands on the list one is the first, and of the sequence        *)
(* numbers one is the next.                                                 *)
LEMMA LeastNat == \A T \in SUBSET Nat : T # {} => \E x \in T : \A y \in T : x <= y
  <1> SUFFICES ASSUME NEW T \in SUBSET Nat, T # {}  PROVE \E x \in T : \A y \in T : x <= y
    OBVIOUS
  <1> DEFINE R == {ss \in Nat \X Nat : ss[1] < ss[2]}
  <1>1. IsWellFoundedOn(R, Nat)
    BY NatLessThanWellFounded DEF OpToRel
  <1>2. \A x \in Nat, y \in Nat : y < x => <<y, x>> \in R
    OBVIOUS
  <1> HIDE DEF R
  <1>3. PICK x \in T : \A y \in T : ~ (<<y, x>> \in R)
    BY <1>1, WFMin
  <1>4. \A y \in T : x <= y
    <2> TAKE y \in T
    <2>1. x \in Nat /\ y \in Nat
      OBVIOUS
    <2>2. ~(y < x)
      BY <1>2, <1>3, <2>1
    <2> QED  BY <2>1, <2>2
  <1> QED  BY <1>4

LEMMA FirstExists ==
    ASSUME NEW m \in Iface, NEW S \in SUBSET Cmds, S # {}
    PROVE  \E c \in S : IsFirst(m, c, S)
  <1> DEFINE T == {m.handle[c] : c \in S}
  <1>1. m.handle \in [Cmds -> Nat]
    BY DEF Iface
  <1>2. T \in SUBSET Nat /\ T # {}
    BY <1>1
  <1>3. PICK x \in T : \A y \in T : x <= y
    BY <1>2, LeastNat
  <1> QED  BY <1>3 DEF IsFirst

LEMMA NextSeqFree ==
    ASSUME NEW m \in Iface, FreeSeqs(m) # {}
    PROVE  NextSeq(m) \in Seqs /\ m.held[NextSeq(m)] = NoCmd
  <1> DEFINE Steps(q) == (q - m.prev_seq - 1) % SeqSpace
             T == {Steps(q) : q \in FreeSeqs(m)}
  <1>1. m.prev_seq \in Seqs /\ SeqSpace \in Nat \ {0}
    BY SeqSpacePos DEF Iface
  <1>2. \A q \in Seqs : Steps(q) \in Nat
    BY <1>1 DEF Seqs
  <1>3. T \in SUBSET Nat /\ T # {}
    BY <1>2 DEF FreeSeqs
  <1>4. PICK x \in T : \A y \in T : x <= y
    BY <1>3, LeastNat
  <1>5. \E q \in FreeSeqs(m) : \A r \in FreeSeqs(m) : Steps(q) <= Steps(r)
    BY <1>4
  <1>6. NextSeq(m) \in FreeSeqs(m)
    BY <1>5 DEF NextSeq
  <1> QED  BY <1>6 DEF FreeSeqs

---------------------------------------------------------------------------
(* What the functions do that are called with the lock held                 *)

LEMMA GetIs ==
    ASSUME NEW m \in Iface, NEW c \in Cmds
    PROVE  /\ Get(m, c) \in Iface
           /\ Get(m, c).ref = [m.ref EXCEPT ![c] = @ + 1]
           /\ SameBox(m, Get(m, c)) /\ SameCmds(m, Get(m, c)) /\ SameCleanup(m, Get(m, c))
           /\ Get(m, c).work = m.work
  <1> DEFINE r == [m.ref EXCEPT ![c] = @ + 1]
             n == [m EXCEPT !.ref = r]
  <1>1. m.ref \in [Cmds -> Int] /\ r \in [Cmds -> Int]
    BY DEF Iface
  <1>2. Get(m, c) = n
    BY <1>1 DEF Get
  <1> HIDE DEF r
  <1>3. n \in Iface
    BY <1>1 DEF Iface
  <1>4. n.ref = r /\ SameBox(m, n) /\ SameCmds(m, n) /\ SameCleanup(m, n) /\ n.work = m.work
    BY DEF Iface, SameBox, SameCmds, SameCleanup
  <1> QED  BY <1>2, <1>3, <1>4 DEF r

LEMMA PutIs ==
    ASSUME NEW m \in Iface, NEW c \in Cmds
    PROVE  /\ Put(m, c) \in Iface
           /\ Put(m, c).ref = [m.ref EXCEPT ![c] = @ - 1]
           /\ SameBox(m, Put(m, c)) /\ SameCmds(m, Put(m, c)) /\ SameCleanup(m, Put(m, c))
           /\ Put(m, c).work = m.work
  <1> DEFINE r == [m.ref EXCEPT ![c] = @ - 1]
             n == [m EXCEPT !.ref = r]
  <1>1. m.ref \in [Cmds -> Int] /\ r \in [Cmds -> Int]
    BY DEF Iface
  <1>2. Put(m, c) = n
    BY <1>1 DEF Put
  <1> HIDE DEF r
  <1>3. n \in Iface
    BY <1>1 DEF Iface
  <1>4. n.ref = r /\ SameBox(m, n) /\ SameCmds(m, n) /\ SameCleanup(m, n) /\ n.work = m.work
    BY DEF Iface, SameBox, SameCmds, SameCleanup
  <1> QED  BY <1>2, <1>3, <1>4 DEF r

(* A work item is armed, or no longer.                                      *)
LEMMA SetWork ==
    ASSUME NEW m \in Iface, NEW c \in Cmds, NEW w \in {"idle", "armed"}
    PROVE  LET n == [m EXCEPT !.work[c] = w]
           IN  /\ n \in Iface
               /\ n.work = [m.work EXCEPT ![c] = w] /\ n.ref = m.ref
               /\ SameBox(m, n) /\ SameCmds(m, n) /\ SameCleanup(m, n)
  <1> DEFINE v == [m.work EXCEPT ![c] = w]
             n == [m EXCEPT !.work = v]
  <1>1. m.work \in [Cmds -> {"idle", "armed"}] /\ v \in [Cmds -> {"idle", "armed"}]
    BY DEF Iface
  <1>2. [m EXCEPT !.work[c] = w] = n
    BY <1>1
  <1> HIDE DEF v
  <1>3. n \in Iface
    BY <1>1 DEF Iface
  <1>4. n.work = v /\ n.ref = m.ref /\ SameBox(m, n) /\ SameCmds(m, n) /\ SameCleanup(m, n)
    BY DEF Iface, SameBox, SameCmds, SameCleanup
  <1> QED  BY <1>2, <1>3, <1>4 DEF v

LEMMA ArmIs ==
    ASSUME NEW m \in Iface, NEW c \in Cmds
    PROVE  /\ Arm(m, c) \in Iface
           /\ Arm(m, c).ref = [m.ref EXCEPT ![c] = @ + 1]
           /\ Arm(m, c).work = [m.work EXCEPT ![c] = "armed"]
           /\ SameBox(m, Arm(m, c)) /\ SameCmds(m, Arm(m, c)) /\ SameCleanup(m, Arm(m, c))
  <1> DEFINE n == Get(m, c)
  <1>1. n \in Iface
    BY GetIs
  <1>2. LET k == [n EXCEPT !.work[c] = "armed"]
        IN  /\ k \in Iface
            /\ k.work = [n.work EXCEPT ![c] = "armed"] /\ k.ref = n.ref
            /\ SameBox(n, k) /\ SameCmds(n, k) /\ SameCleanup(n, k)
    BY <1>1, SetWork
  <1> QED  BY ZenonT(40), <1>2, GetIs DEF Arm, SameBox, SameCmds, SameCleanup

LEMMA DisarmIs ==
    ASSUME NEW m \in Iface, NEW c \in Cmds
    PROVE  /\ Disarm(m, c) \in Iface
           /\ SameBox(m, Disarm(m, c)) /\ SameCmds(m, Disarm(m, c)) /\ SameCleanup(m, Disarm(m, c))
  <1>1. CASE m.work[c] = "armed"
    <2> DEFINE n == Put(m, c)
    <2>1. n \in Iface
      BY PutIs
    <2>2. LET k == [n EXCEPT !.work[c] = "idle"]
          IN  k \in Iface /\ SameBox(n, k) /\ SameCmds(n, k) /\ SameCleanup(n, k)
      BY <2>1, SetWork
    <2> QED  BY <1>1, <2>2, PutIs DEF Disarm, SameBox, SameCmds, SameCleanup
  <1>2. CASE m.work[c] # "armed"
    BY <1>2 DEF Disarm, SameBox, SameCmds, SameCleanup
  <1> QED  BY <1>1, <1>2

LEMMA WithRcIs ==
    ASSUME NEW m \in Iface, NEW c \in Cmds, NEW code \in Codes
    PROVE  LET n == WithRc(m, c, code)
           IN  /\ n \in Iface
               /\ SameBox(m, n) /\ SameCmds(m, n) /\ SameCleanup(m, n)
               /\ n.ref = m.ref /\ n.work = m.work
  <1> DEFINE v == [m.rc EXCEPT ![c] = code]
             n == [m EXCEPT !.rc = v]
  <1>1. m.rc \in [Cmds -> Codes \cup {"none"}] /\ v \in [Cmds -> Codes \cup {"none"}]
    BY DEF Iface
  <1>2. WithRc(m, c, code) = n
    BY <1>1 DEF WithRc
  <1> HIDE DEF v
  <1>3. n \in Iface
    BY <1>1 DEF Iface
  <1>4. /\ n.ref = m.ref /\ n.work = m.work
        /\ SameBox(m, n) /\ SameCmds(m, n) /\ SameCleanup(m, n)
    BY DEF Iface, SameBox, SameCmds, SameCleanup
  <1> QED  BY <1>2, <1>3, <1>4

LEMMA CalledIs ==
    ASSUME NEW m \in Iface, NEW c \in Cmds
    PROVE  LET n == Called(m, c)
           IN  /\ n \in Iface
               /\ n.called = [m.called EXCEPT ![c] = @ + 1]
               /\ SameBox(m, n) /\ SameCmds(m, n)
               /\ n.ref = m.ref /\ n.work = m.work
               /\ n.cleanup = m.cleanup /\ n.outstanding = m.outstanding
  <1> DEFINE v == [m.done EXCEPT ![c] = m.rc[c]]
             k == [m.called EXCEPT ![c] = @ + 1]
             n == [m EXCEPT !.done = v, !.called = k]
  <1>1. /\ m.rc \in [Cmds -> Codes \cup {"none"}] /\ m.done \in [Cmds -> Codes \cup {"none"}]
        /\ m.called \in [Cmds -> Nat]
    BY DEF Iface
  <1>2. v \in [Cmds -> Codes \cup {"none"}] /\ k \in [Cmds -> Nat]
    BY <1>1
  <1>3. Called(m, c) = n
    BY <1>1 DEF Called
  <1> HIDE DEF v, k
  <1>4. n \in Iface
    BY <1>2 DEF Iface
  <1>5. /\ n.called = k /\ n.ref = m.ref /\ n.work = m.work
        /\ n.cleanup = m.cleanup /\ n.outstanding = m.outstanding
        /\ SameBox(m, n) /\ SameCmds(m, n)
    BY DEF Iface, SameBox, SameCmds
  <1> QED  BY <1>3, <1>4, <1>5 DEF k

(* A command is put on a cleanup list.                                      *)
LEMMA ListedForCleanup ==
    ASSUME NEW m \in Iface, NEW c \in Cmds, NEW ctx \in Contexts
    PROVE  LET n == [Get(m, c) EXCEPT !.cleanup = @ \cup {<<ctx, c>>}, !.outstanding = @ + 1]
           IN  /\ n \in Iface
               /\ n.cleanup = m.cleanup \cup {<<ctx, c>>} /\ n.outstanding = m.outstanding + 1
               /\ n.ref = [m.ref EXCEPT ![c] = @ + 1]
               /\ SameBox(m, n) /\ SameCmds(m, n) /\ n.work = m.work /\ n.called = m.called
  <1> DEFINE g == Get(m, c)
             u == g.cleanup \cup {<<ctx, c>>}
             o == g.outstanding + 1
             n == [g EXCEPT !.cleanup = u, !.outstanding = o]
  <1>1. g \in Iface
    BY GetIs
  <1>2. u \in SUBSET (Contexts \X Cmds) /\ o \in Int
    BY <1>1 DEF Iface
  <1>3. [g EXCEPT !.cleanup = @ \cup {<<ctx, c>>}, !.outstanding = @ + 1] = n
    BY <1>1 DEF Iface
  <1>4. u = m.cleanup \cup {<<ctx, c>>} /\ o = m.outstanding + 1
    BY GetIs DEF SameCleanup
  <1> HIDE DEF u, o, g
  <1>5. n \in Iface
    BY <1>1, <1>2 DEF Iface
  <1>6. /\ n.cleanup = u /\ n.outstanding = o /\ n.ref = g.ref
        /\ SameBox(g, n) /\ SameCmds(g, n) /\ n.work = g.work /\ n.called = g.called
    BY <1>1 DEF Iface, SameBox, SameCmds
  <1>7. /\ SameBox(m, g) /\ SameCmds(m, g) /\ SameCleanup(m, g) /\ g.work = m.work
        /\ g.ref = [m.ref EXCEPT ![c] = @ + 1]
    BY GetIs DEF g
  <1>8. /\ SameBox(m, n) /\ SameCmds(m, n) /\ n.work = m.work /\ n.called = m.called
        /\ n.ref = [m.ref EXCEPT ![c] = @ + 1]
    BY <1>6, <1>7 DEF SameBox, SameCmds, SameCleanup
  <1> QED  BY <1>3, <1>4, <1>5, <1>6, <1>8 DEF g

LEMMA UnlinkIs ==
    ASSUME NEW m \in Iface, NEW c \in Cmds
    PROVE  LET n == Unlink(m, c)
           IN  /\ n \in Iface
               /\ n.list = m.list \ {c} /\ n.ref = [m.ref EXCEPT ![c] = @ - 1]
               /\ SameBox(m, n) /\ SameCleanup(m, n) /\ n.state = m.state /\ n.work = m.work
  <1> DEFINE g == Put(m, c)
             l == g.list \ {c}
             n == [g EXCEPT !.list = l]
  <1>1. g \in Iface
    BY PutIs
  <1>2. l \in SUBSET Cmds
    BY <1>1 DEF Iface
  <1>3. Unlink(m, c) = n
    BY <1>1 DEF Unlink, Iface
  <1>4. /\ SameBox(m, g) /\ SameCmds(m, g) /\ SameCleanup(m, g) /\ g.work = m.work
        /\ g.ref = [m.ref EXCEPT ![c] = @ - 1] /\ l = m.list \ {c}
    BY PutIs DEF SameCmds
  <1> HIDE DEF l, g
  <1>5. n \in Iface
    BY <1>1, <1>2 DEF Iface
  <1>6. /\ n.list = l /\ n.ref = g.ref
        /\ SameBox(g, n) /\ SameCleanup(g, n) /\ n.state = g.state /\ n.work = g.work
    BY <1>1 DEF Iface, SameBox, SameCleanup
  <1> QED  BY <1>3, <1>4, <1>5, <1>6 DEF SameBox, SameCmds, SameCleanup

LEMMA SetState ==
    ASSUME NEW m \in Iface, NEW c \in Cmds, NEW s \in States
    PROVE  LET n == [m EXCEPT !.state[c] = s]
           IN  /\ n \in Iface
               /\ n.state = [m.state EXCEPT ![c] = s]
               /\ SameBox(m, n) /\ SameCleanup(m, n)
               /\ n.list = m.list /\ n.ref = m.ref /\ n.work = m.work
  <1> DEFINE v == [m.state EXCEPT ![c] = s]
             n == [m EXCEPT !.state = v]
  <1>1. m.state \in [Cmds -> States] /\ v \in [Cmds -> States]
    BY DEF Iface
  <1>2. [m EXCEPT !.state[c] = s] = n
    BY <1>1
  <1> HIDE DEF v
  <1>3. n \in Iface
    BY <1>1 DEF Iface
  <1>4. /\ n.state = v /\ n.list = m.list /\ n.ref = m.ref /\ n.work = m.work
        /\ SameBox(m, n) /\ SameCleanup(m, n)
    BY DEF Iface, SameBox, SameCleanup
  <1> QED  BY <1>2, <1>3, <1>4 DEF v

LEMMA NotifyIs ==
    ASSUME NEW m \in Iface, NEW c \in Cmds, NEW ctx \in Contexts
    PROVE  LET n == Notify(m, ctx, c)
           IN  n \in Iface /\ SameBox(m, n) /\ SameCmds(m, n) /\ n.work = m.work
  <1>1. CASE m.state[c] \in Cancelled
    BY <1>1 DEF Notify, SameBox, SameCmds
  <1>2. CASE m.state[c] \notin Cancelled /\ c \in Atomic
    BY <1>2, CalledIs DEF Notify
  <1>3. CASE m.state[c] \notin Cancelled /\ c \notin Atomic
    BY ZenonT(40), <1>3, ListedForCleanup DEF Notify
  <1> QED  BY <1>1, <1>2, <1>3

LEMMA RemoveIs ==
    ASSUME NEW m \in Iface, NEW c \in Cmds, NEW ctx \in Contexts
    PROVE  LET n == Remove(m, ctx, c)
           IN  /\ n \in Iface /\ SameBox(m, n) /\ n.work = m.work
               /\ n.list = m.list \ {c} /\ n.state = [m.state EXCEPT ![c] = "FINISHED"]
  <1> DEFINE k == Notify(m, ctx, c)
             u == Unlink(k, c)
             n == [u EXCEPT !.state[c] = "FINISHED"]
  <1>1. k \in Iface /\ SameBox(m, k) /\ SameCmds(m, k) /\ k.work = m.work
    BY NotifyIs
  <1> HIDE DEF k
  <1>2. /\ u \in Iface
        /\ u.list = k.list \ {c} /\ SameBox(k, u) /\ u.state = k.state /\ u.work = k.work
    BY <1>1, UnlinkIs
  <1> HIDE DEF u
  <1>3. /\ n \in Iface
        /\ n.state = [u.state EXCEPT ![c] = "FINISHED"]
        /\ SameBox(u, n) /\ n.list = u.list /\ n.work = u.work
    BY <1>2, SetState, StateNames
  <1>4. n = Remove(m, ctx, c)
    BY DEF Remove, u, k
  <1> HIDE DEF n
  <1> QED  BY <1>1, <1>2, <1>3, <1>4 DEF SameBox, SameCmds

LEMMA ListedIs ==
    ASSUME NEW m \in Iface, NEW c \in Cmds
    PROVE  LET n == Listed(m, c)
           IN  /\ n \in Iface
               /\ n.list = m.list \cup {c} /\ n.ref = [m.ref EXCEPT ![c] = 1]
               /\ SameBox(m, n) /\ SameCleanup(m, n) /\ n.state = m.state /\ n.work = m.work
  <1> DEFINE l == m.list \cup {c}
             r == [m.ref EXCEPT ![c] = 1]
             h == [m.handle EXCEPT ![c] = m.prev_handle]
             p == m.prev_handle + 1
             n == [m EXCEPT !.list = l, !.ref = r, !.handle = h, !.prev_handle = p]
  <1>1. /\ m.ref \in [Cmds -> Int] /\ m.handle \in [Cmds -> Nat]
        /\ m.prev_handle \in Nat /\ m.list \in SUBSET Cmds
    BY DEF Iface
  <1>2. l \in SUBSET Cmds /\ r \in [Cmds -> Int] /\ h \in [Cmds -> Nat] /\ p \in Nat
    BY <1>1
  <1>3. Listed(m, c) = n
    BY <1>1 DEF Listed
  <1> HIDE DEF l, r, h, p
  <1>4. n \in Iface
    BY <1>2 DEF Iface
  <1>5. /\ n.list = l /\ n.ref = r /\ n.state = m.state /\ n.work = m.work
        /\ SameBox(m, n) /\ SameCleanup(m, n)
    BY DEF Iface, SameBox, SameCleanup
  <1> QED  BY <1>3, <1>4, <1>5 DEF l, r

LEMMA TransmitIs ==
    ASSUME NEW m \in Iface, NEW c \in Cmds, FreeSeqs(m) # {}
    PROVE  LET n == Transmit(m, c)
           IN  /\ n \in Iface
               /\ n.mode = m.mode /\ n.db = c /\ n.buf = TRUE
               /\ n.mail = [cmd |-> c, evreq |-> m.mode = "EVENTS", reply |-> "none"]
               /\ n.state = [m.state EXCEPT ![c] = "RUNNING"] /\ n.list = m.list
               /\ n.ref = m.ref /\ n.work = m.work /\ SameCleanup(m, n)
  <1> DEFINE s == NextSeq(m)
             sq == [m.seq EXCEPT ![c] = s]
             h == [m.held EXCEPT ![s] = c]
             po == [m.polled EXCEPT ![c] = (m.mode = "POLL")]
             st == [m.state EXCEPT ![c] = "RUNNING"]
             ex == [m.expired EXCEPT ![c] = FALSE]
             ml == [cmd |-> c, evreq |-> m.mode = "EVENTS", reply |-> "none"]
             n == [m EXCEPT !.seq = sq, !.prev_seq = s, !.held = h, !.db = c, !.buf = TRUE,
                            !.polled = po, !.state = st, !.expired = ex, !.mail = ml]
  <1>0. s \in Seqs
    BY NextSeqFree
  <1> HIDE DEF s
  <1>1. /\ m.seq \in [Cmds -> Seqs] /\ m.held \in [Seqs -> Cmds \cup {NoCmd}]
        /\ m.polled \in [Cmds -> BOOLEAN] /\ m.state \in [Cmds -> States]
        /\ m.expired \in [Cmds -> BOOLEAN]
    BY DEF Iface
  <1>2. /\ sq \in [Cmds -> Seqs] /\ h \in [Seqs -> Cmds \cup {NoCmd}]
        /\ st \in [Cmds -> States] /\ ex \in [Cmds -> BOOLEAN]
    BY <1>0, <1>1, StateNames
  <1>2a. po \in [Cmds -> BOOLEAN]
    BY <1>1
  <1>2b. ml \in Mails
    BY DEF Mails
  <1>3. Transmit(m, c) = n
    BY <1>1 DEF Transmit, s
  <1> HIDE DEF sq, h, po, st, ex, ml
  <1>4. n \in Iface
    BY ZenonT(40), <1>0, <1>2, <1>2a, <1>2b DEF Iface
  <1>5. /\ n.mode = m.mode /\ n.db = c /\ n.buf = TRUE /\ n.mail = ml /\ n.state = st
        /\ n.list = m.list /\ n.ref = m.ref /\ n.work = m.work /\ SameCleanup(m, n)
    BY DEF Iface, SameCleanup
  <1> QED  BY <1>3, <1>4, <1>5 DEF ml, st

LEMMA StartIs ==
    ASSUME NEW m \in Iface, NEW c \in Cmds, FreeSeqs(m) # {}
    PROVE  LET n == Start(m, c)
           IN  /\ n \in Iface
               /\ n.mode = m.mode /\ n.db = c /\ n.buf = TRUE /\ n.mail.cmd = c
               /\ n.state = [m.state EXCEPT ![c] = "RUNNING"] /\ n.list = m.list
               /\ n.ref = [m.ref EXCEPT ![c] = @ + 1] /\ n.work = [m.work EXCEPT ![c] = "armed"]
               /\ SameCleanup(m, n)
  <1> DEFINE t == Transmit(m, c)
  <1>0. /\ t \in Iface
        /\ t.mode = m.mode /\ t.db = c /\ t.buf = TRUE
        /\ t.mail = [cmd |-> c, evreq |-> m.mode = "EVENTS", reply |-> "none"]
        /\ t.state = [m.state EXCEPT ![c] = "RUNNING"] /\ t.list = m.list
        /\ t.ref = m.ref /\ t.work = m.work /\ SameCleanup(m, t)
    BY TransmitIs
  <1> HIDE DEF t
  <1>1. t \in Iface /\ t.mail.cmd = c
    BY <1>0
  <1>2. /\ Arm(t, c) \in Iface
        /\ Arm(t, c).ref = [t.ref EXCEPT ![c] = @ + 1]
        /\ Arm(t, c).work = [t.work EXCEPT ![c] = "armed"]
        /\ SameBox(t, Arm(t, c)) /\ SameCmds(t, Arm(t, c)) /\ SameCleanup(t, Arm(t, c))
    BY <1>1, ArmIs
  <1> QED  BY <1>0, <1>1, <1>2 DEF Start, t, SameBox, SameCmds, SameCleanup

(* efx_mcdi_start_or_queue in two steps: those that are ready are QUEUED,   *)
(* and the first is started.                                                *)
Ready(m, allow_retry) ==
    {c \in m.list : m.state[c] = "QUEUED" \/ (m.state[c] = "RETRY" /\ allow_retry)}

Requeue(m, S) == [m EXCEPT !.state = [c \in Cmds |-> IF c \in S THEN "QUEUED" ELSE @[c]]]

LEMMA RequeueIs ==
    ASSUME NEW m \in Iface, NEW S \in SUBSET Cmds
    PROVE  LET n == Requeue(m, S)
           IN  /\ n \in Iface
               /\ n.state = [c \in Cmds |-> IF c \in S THEN "QUEUED" ELSE m.state[c]]
               /\ SameBox(m, n) /\ SameCleanup(m, n)
               /\ n.list = m.list /\ n.ref = m.ref /\ n.work = m.work
  <1> DEFINE v == [c \in Cmds |-> IF c \in S THEN "QUEUED" ELSE m.state[c]]
             n == [m EXCEPT !.state = v]
  <1>1. m.state \in [Cmds -> States]
    BY DEF Iface
  <1>1a. v \in [Cmds -> States]
    BY <1>1, StateNames
  <1>2. Requeue(m, S) = n
    BY DEF Requeue, Iface
  <1> HIDE DEF v
  <1>3. n \in Iface
    BY <1>1a DEF Iface
  <1>4. /\ n.state = v /\ n.list = m.list /\ n.ref = m.ref /\ n.work = m.work
        /\ SameBox(m, n) /\ SameCleanup(m, n)
    BY DEF Iface, SameBox, SameCleanup
  <1> QED  BY <1>2, <1>3, <1>4 DEF v

LEMMA AdvanceIs ==
    ASSUME NEW m \in Iface, NEW retry \in BOOLEAN
    PROVE  LET S == Ready(m, retry)
               n == Advance(m, retry)
           IN  /\ S # {} /\ CanStart(m) =>
                     \E c \in S : n = Start(Requeue(m, S), c) /\ FreeSeqs(Requeue(m, S)) # {}
               /\ ~(S # {} /\ CanStart(m)) => n = Requeue(m, S)
               /\ n \in Iface
  <1> DEFINE S == Ready(m, retry)
             q == Requeue(m, S)
             n == Advance(m, retry)
  <1>1. S \in SUBSET Cmds
    BY DEF Ready, Iface
  <1>2. /\ q \in Iface /\ SameBox(m, q)
    BY <1>1, RequeueIs
  <1>3. n = IF S # {} /\ CanStart(m) THEN Start(q, CHOOSE c \in S : IsFirst(m, c, S)) ELSE q
    BY DEF Advance, Ready, Requeue
  <1>4. ASSUME S # {}, CanStart(m)
        PROVE  /\ \E c \in S : n = Start(q, c) /\ FreeSeqs(q) # {}
               /\ n \in Iface
    <2>1. PICK c \in S : c = CHOOSE d \in S : IsFirst(m, d, S)
      BY <1>1, <1>4, FirstExists
    <2>2. FreeSeqs(q) # {}
      BY <1>2, <1>4 DEF CanStart, FreeSeqs, SameBox
    <2>3. n = Start(q, c)
      BY <1>3, <1>4, <2>1
    <2> HIDE DEF S, q
    <2>4. c \in Cmds
      BY <1>1
    <2>5. Start(q, c) \in Iface
      BY <1>2, <2>2, <2>4, StartIs
    <2> QED  BY <2>2, <2>3, <2>5
  <1>5. ASSUME ~(S # {} /\ CanStart(m))  PROVE n = q
    BY <1>3, <1>5
  <1> HIDE DEF S, q, n
  <1>6. n \in Iface
    BY <1>2, <1>4, <1>5
  <1> QED  BY <1>4, <1>5, <1>6 DEF S, q, n

LEMMA MarkType == \A s \in States : Mark(s) \in States
BY StateNames DEF Mark

LEMMA CancelCmdType ==
    ASSUME NEW m \in Iface, NEW c \in Cmds, NEW ctx \in Contexts
    PROVE  CancelCmd(m, ctx, c) \in Iface
  <1> DEFINE p == WithRc(m, c, "EPIPE")
             k == Notify(p, ctx, c)
  <1>1. p \in Iface
    BY WithRcIs DEF Codes
  <1>2. Remove(p, ctx, c) \in Iface
    BY <1>1, RemoveIs
  <1>3. k \in Iface
    BY <1>1, NotifyIs
  <1> HIDE DEF p, k
  <1>4. k.state[c] \in States
    BY <1>3 DEF Iface
  <1>5. [k EXCEPT !.state[c] = Mark(k.state[c])] \in Iface
    BY <1>3, <1>4, MarkType, SetState
  <1>6. [k EXCEPT !.state[c] = Mark(@)] \in Iface
    BY <1>3, <1>5 DEF Iface
  <1> QED  BY <1>2, <1>6 DEF CancelCmd, p, k

(* Those whom a failure or a reset tells of the end of their commands.      *)
Waits(s)      == s \in {"QUEUED", "RETRY"}
Waiting(m)    == {c \in m.list : Waits(m.state[c])}
Told(m)       == {c \in m.list : m.state[c] \notin Cancelled}
ToldLater(m)  == Told(m) \ Atomic

LEMMA ToldFinite ==
    ASSUME NEW m \in Iface
    PROVE  /\ Told(m) \in SUBSET Cmds /\ Waiting(m) \in SUBSET Cmds
           /\ IsFiniteSet(ToldLater(m)) /\ Cardinality(ToldLater(m)) \in Nat
  <1>1. Told(m) \in SUBSET Cmds /\ Waiting(m) \in SUBSET Cmds
    BY DEF Told, Waiting, Iface
  <1>2. ToldLater(m) \in SUBSET Cmds
    BY <1>1 DEF ToldLater
  <1>3. IsFiniteSet(ToldLater(m))
    BY <1>2, CmdsFinite, FS_Subset
  <1> QED  BY <1>1, <1>3, FS_CardinalityType

LEMMA ModeFailIs ==
    ASSUME NEW m \in Iface, NEW ctx \in Contexts
    PROVE  LET n == ModeFail(m, ctx)
           IN  /\ n \in Iface
               /\ n.mode = "FAIL" /\ n.list = m.list \ Waiting(m)
               /\ n.cleanup = m.cleanup \cup {<<ctx, c>> : c \in ToldLater(m)}
               /\ n.outstanding = m.outstanding + Cardinality(ToldLater(m))
               /\ n.state = [c \in Cmds |-> IF c \in Waiting(m) THEN "FINISHED"
                                            ELSE IF c \in Told(m) THEN Mark(m.state[c])
                                            ELSE m.state[c]]
               /\ n.ref = [c \in Cmds |-> m.ref[c] + (IF c \in ToldLater(m) THEN 1 ELSE 0)
                                                   - (IF c \in Waiting(m) THEN 1 ELSE 0)]
               /\ n.called = [c \in Cmds |-> IF c \in Told(m) \cap Atomic THEN m.called[c] + 1
                                             ELSE m.called[c]]
               /\ n.db = m.db /\ n.buf = m.buf /\ n.mail = m.mail /\ n.held = m.held
               /\ n.work = m.work
  <1> DEFINE W == Waiting(m)
             T == Told(m)
             L == ToldLater(m)
             A == Told(m) \cap Atomic
             l == m.list \ W
             rc == [c \in Cmds |-> IF c \in T THEN "EPIPE" ELSE m.rc[c]]
             u == m.cleanup \cup {<<ctx, c>> : c \in L}
             o == m.outstanding + Cardinality(L)
             st == [c \in Cmds |-> IF c \in W THEN "FINISHED"
                                   ELSE IF c \in T THEN Mark(m.state[c]) ELSE m.state[c]]
             r == [c \in Cmds |-> m.ref[c] + (IF c \in L THEN 1 ELSE 0)
                                           - (IF c \in W THEN 1 ELSE 0)]
             dn == [c \in Cmds |-> IF c \in A THEN "EPIPE" ELSE m.done[c]]
             k == [c \in Cmds |-> IF c \in A THEN m.called[c] + 1 ELSE m.called[c]]
             n == [m EXCEPT !.mode = "FAIL", !.list = l, !.rc = rc, !.cleanup = u,
                            !.outstanding = o, !.state = st, !.ref = r, !.done = dn, !.called = k]
  <1>1. /\ m.list \in SUBSET Cmds /\ m.rc \in [Cmds -> Codes \cup {"none"}]
        /\ m.cleanup \in SUBSET (Contexts \X Cmds) /\ m.outstanding \in Int
        /\ m.state \in [Cmds -> States] /\ m.ref \in [Cmds -> Int]
        /\ m.done \in [Cmds -> Codes \cup {"none"}] /\ m.called \in [Cmds -> Nat]
    BY DEF Iface
  <1>2. /\ T \in SUBSET Cmds /\ W \in SUBSET Cmds /\ L \in SUBSET Cmds /\ A \in SUBSET Cmds
        /\ Cardinality(L) \in Nat
    BY ToldFinite DEF ToldLater
  <1>3. ModeFail(m, ctx) = n
    BY DEF ModeFail, Told, ToldLater, Waiting, Waits
  <1> HIDE DEF W, T, L, A
  <1>4. l \in SUBSET Cmds /\ u \in SUBSET (Contexts \X Cmds) /\ o \in Int
    BY <1>1, <1>2
  <1>5. rc \in [Cmds -> Codes \cup {"none"}] /\ dn \in [Cmds -> Codes \cup {"none"}]
    BY <1>1, <1>2 DEF Codes
  <1>6. st \in [Cmds -> States]
    BY <1>1, <1>2, MarkType, StateNames
  <1>7. r \in [Cmds -> Int] /\ k \in [Cmds -> Nat]
    BY <1>1, <1>2
  <1> HIDE DEF l, rc, u, o, st, r, dn, k
  <1>8. n \in Iface
    BY <1>4, <1>5, <1>6, <1>7 DEF Iface, Modes
  <1>9. /\ n.mode = "FAIL" /\ n.list = l /\ n.cleanup = u /\ n.outstanding = o /\ n.state = st
        /\ n.ref = r /\ n.called = k /\ n.db = m.db /\ n.buf = m.buf /\ n.mail = m.mail
        /\ n.held = m.held /\ n.work = m.work
    BY DEF Iface
  <1>10. ModeFail(m, ctx) \in Iface
    BY <1>3, <1>8
  <1> HIDE DEF n
  <1> QED  BY <1>3, <1>9, <1>10 DEF l, u, o, st, r, k, W, T, L, A

LEMMA ModePollIs ==
    ASSUME NEW m \in Iface
    PROVE  LET n == ModePoll(m)
           IN  /\ n \in Iface
               /\ m.mode # "EVENTS" => n = m
               /\ SameCmds(m, n) /\ SameCleanup(m, n)
               /\ n.db = m.db /\ n.buf = m.buf /\ n.held = m.held /\ n.mail = m.mail
               /\ n.ref = m.ref /\ n.work = m.work
  <1> DEFINE p == [c \in Cmds |-> m.polled[c] \/ (c \in m.list /\ m.state[c] \in Running)]
             n == [m EXCEPT !.mode = "POLL", !.polled = p]
  <1>1. m.polled \in [Cmds -> BOOLEAN] /\ p \in [Cmds -> BOOLEAN]
    BY DEF Iface
  <1>2. ModePoll(m) = IF m.mode # "EVENTS" THEN m ELSE n
    BY DEF ModePoll
  <1> HIDE DEF p
  <1>3. n \in Iface
    BY <1>1 DEF Iface, Modes
  <1>4. /\ SameCmds(m, n) /\ SameCleanup(m, n)
        /\ n.db = m.db /\ n.buf = m.buf /\ n.held = m.held /\ n.mail = m.mail
        /\ n.ref = m.ref /\ n.work = m.work
    BY DEF Iface, SameCmds, SameCleanup
  <1> HIDE DEF n
  <1>5. CASE m.mode # "EVENTS"
    BY <1>2, <1>5 DEF SameCmds, SameCleanup
  <1>6. CASE m.mode = "EVENTS"
    BY <1>2, <1>3, <1>4, <1>6
  <1> QED  BY <1>5, <1>6

(* The doorbell is given.                                                   *)
LEMMA SetDoorbell ==
    ASSUME NEW m \in Iface, NEW d \in Cmds \cup {NoCmd}
    PROVE  LET n == [m EXCEPT !.db = d]
           IN  /\ n \in Iface
               /\ n.db = d /\ n.mode = m.mode /\ n.mail = m.mail /\ n.buf = m.buf
               /\ n.held = m.held
               /\ SameCmds(m, n) /\ SameCleanup(m, n) /\ n.ref = m.ref /\ n.work = m.work
  <1> DEFINE n == [m EXCEPT !.db = d]
  <1>1. n \in Iface
    BY DEF Iface
  <1>2. /\ n.db = d /\ n.mode = m.mode /\ n.mail = m.mail /\ n.buf = m.buf
        /\ n.held = m.held
        /\ SameCmds(m, n) /\ SameCleanup(m, n) /\ n.ref = m.ref /\ n.work = m.work
    BY DEF Iface, SameCmds, SameCleanup
  <1> QED  BY <1>1, <1>2

LEMMA FreeDoorbellIs ==
    ASSUME NEW m \in Iface, NEW c \in Cmds
    PROVE  LET n == FreeDoorbell(m, c)
           IN  /\ n \in Iface
               /\ n.db = (IF m.db = c THEN NoCmd ELSE m.db)
               /\ n.mode = m.mode /\ n.mail = m.mail /\ n.buf = m.buf /\ n.held = m.held
               /\ SameCmds(m, n) /\ SameCleanup(m, n) /\ n.ref = m.ref /\ n.work = m.work
  <1> DEFINE d == IF m.db = c THEN NoCmd ELSE m.db
  <1>1. d \in Cmds \cup {NoCmd}
    BY DEF Iface
  <1>2. FreeDoorbell(m, c) = [m EXCEPT !.db = d]
    BY DEF FreeDoorbell, Iface
  <1> HIDE DEF d
  <1>3. LET n == [m EXCEPT !.db = d]
        IN  /\ n \in Iface
            /\ n.db = d /\ n.mode = m.mode /\ n.mail = m.mail /\ n.buf = m.buf /\ n.held = m.held
            /\ SameCmds(m, n) /\ SameCleanup(m, n) /\ n.ref = m.ref /\ n.work = m.work
    BY <1>1, SetDoorbell
  <1> QED  BY <1>2, <1>3 DEF d

(* The buffer and the sequence number of a command are freed.               *)
LEMMA FreeMailbox ==
    ASSUME NEW m \in Iface, NEW q \in Seqs
    PROVE  LET n == [m EXCEPT !.held[q] = NoCmd, !.buf = FALSE]
           IN  /\ n \in Iface
               /\ n.buf = FALSE /\ n.db = m.db /\ n.mode = m.mode /\ n.mail = m.mail
               /\ SameCmds(m, n) /\ SameCleanup(m, n) /\ n.ref = m.ref /\ n.work = m.work
  <1> DEFINE h == [m.held EXCEPT ![q] = NoCmd]
             n == [m EXCEPT !.held = h, !.buf = FALSE]
  <1>1. m.held \in [Seqs -> Cmds \cup {NoCmd}] /\ h \in [Seqs -> Cmds \cup {NoCmd}]
    BY DEF Iface
  <1>2. [m EXCEPT !.held[q] = NoCmd, !.buf = FALSE] = n
    BY <1>1
  <1> HIDE DEF h
  <1>3. n \in Iface
    BY <1>1 DEF Iface
  <1>4. /\ n.buf = FALSE /\ n.db = m.db /\ n.mode = m.mode /\ n.mail = m.mail
        /\ SameCmds(m, n) /\ SameCleanup(m, n) /\ n.ref = m.ref /\ n.work = m.work
    BY DEF Iface, SameCmds, SameCleanup
  <1> QED  BY <1>2, <1>3, <1>4

(* A command waits for another function.                                    *)
LEMMA HeldBack ==
    ASSUME NEW m \in Iface, NEW c \in Cmds
    PROVE  LET n == [m EXCEPT !.state[c] = "PROXY", !.proxied[c] = TRUE]
           IN  /\ n \in Iface
               /\ n.state = [m.state EXCEPT ![c] = "PROXY"]
               /\ SameBox(m, n) /\ SameCleanup(m, n)
               /\ n.list = m.list /\ n.ref = m.ref /\ n.work = m.work
  <1> DEFINE v == [m.state EXCEPT ![c] = "PROXY"]
             p == [m.proxied EXCEPT ![c] = TRUE]
             n == [m EXCEPT !.state = v, !.proxied = p]
  <1>1. /\ m.state \in [Cmds -> States] /\ m.proxied \in [Cmds -> BOOLEAN]
    BY DEF Iface
  <1>2. v \in [Cmds -> States] /\ p \in [Cmds -> BOOLEAN]
    BY <1>1, StateNames
  <1>3. [m EXCEPT !.state[c] = "PROXY", !.proxied[c] = TRUE] = n
    BY <1>1
  <1> HIDE DEF v, p
  <1>4. n \in Iface
    BY <1>2 DEF Iface
  <1>5. /\ n.state = v /\ SameBox(m, n) /\ SameCleanup(m, n)
        /\ n.list = m.list /\ n.ref = m.ref /\ n.work = m.work
    BY DEF Iface, SameBox, SameCleanup
  <1> QED  BY <1>3, <1>4, <1>5 DEF v

(* efx_mcdi_complete_cmd takes one of five paths.                           *)
LEMMA SettleType ==
    ASSUME NEW m \in Iface, NEW c \in Cmds, NEW ctx \in Contexts, NEW code \in Codes
    PROVE  Settle(m, ctx, c, code) \in Iface
  <1> DEFINE f == FreeDoorbell(m, c)
  <1>1. f \in Iface
    BY FreeDoorbellIs
  <1> HIDE DEF f
  <1>2. WithRc(m, c, "EIO") \in Iface /\ WithRc(f, c, code) \in Iface
    BY <1>1, WithRcIs DEF Codes, Answers
  <1>3. Remove(WithRc(m, c, "EIO"), ctx, c) \in Iface /\ Remove(WithRc(f, c, code), ctx, c) \in Iface
    BY <1>2, RemoveIs
  <1>4. ModeFail(Remove(WithRc(m, c, "EIO"), ctx, c), ctx) \in Iface
    BY <1>3, ModeFailIs
  <1>5. [m EXCEPT !.state[c] = "PROXY", !.proxied[c] = TRUE] \in Iface
    BY HeldBack
  <1>6. Arm([m EXCEPT !.state[c] = "PROXY", !.proxied[c] = TRUE], c) \in Iface
    BY <1>5, ArmIs
  <1>7. Unlink(f, c) \in Iface
    BY <1>1, UnlinkIs
  <1>8. [f EXCEPT !.state[c] = "RETRY"] \in Iface
    BY <1>1, StateNames, SetState
  <1> QED  BY <1>3, <1>4, <1>6, <1>7, <1>8 DEF Settle, f

(* What efx_mcdi_complete_cmd hands to efx_mcdi_start_or_queue.             *)
Settled(m, ctx, c, code) ==
    [Settle(m, ctx, c, code) EXCEPT !.held[m.seq[c]] = NoCmd, !.buf = FALSE]

LEMMA SettledType ==
    ASSUME NEW m \in Iface, NEW c \in Cmds, NEW ctx \in Contexts, NEW code \in Codes
    PROVE  Settled(m, ctx, c, code) \in Iface
  <1>1. Settle(m, ctx, c, code) \in Iface
    BY SettleType
  <1>2. m.seq[c] \in Seqs
    BY DEF Iface
  <1> QED  BY <1>1, <1>2, FreeMailbox DEF Settled

LEMMA CompleteIs ==
    ASSUME NEW m \in Iface, NEW c \in Cmds, NEW ctx \in Contexts, NEW code \in Codes
    PROVE  /\ Complete(m, ctx, c, code) = Advance(Settled(m, ctx, c, code), code # "FULL")
           /\ Complete(m, ctx, c, code) \in Iface
  <1>1. Complete(m, ctx, c, code) = Advance(Settled(m, ctx, c, code), code # "FULL")
    BY DEF Complete, Settled
  <1> QED  BY <1>1, SettledType, AdvanceIs

LEMMA ProxyTimeoutType ==
    ASSUME NEW m \in Iface, NEW c \in Cmds, NEW ctx \in Contexts
    PROVE  ProxyTimeout(m, ctx, c) \in Iface
BY WithRcIs, RemoveIs, ModeFailIs DEF ProxyTimeout, Codes

LEMMA NoBuffer ==
    ASSUME NEW m \in Iface
    PROVE  LET n == [m EXCEPT !.buf = FALSE]
           IN  /\ n \in Iface
               /\ n.db = m.db /\ n.mode = m.mode /\ n.mail = m.mail /\ n.held = m.held
               /\ SameCmds(m, n) /\ SameCleanup(m, n) /\ n.ref = m.ref /\ n.work = m.work
  <1> DEFINE n == [m EXCEPT !.buf = FALSE]
  <1>1. n \in Iface
    BY DEF Iface
  <1>2. /\ n.db = m.db /\ n.mode = m.mode /\ n.mail = m.mail /\ n.held = m.held
        /\ SameCmds(m, n) /\ SameCleanup(m, n) /\ n.ref = m.ref /\ n.work = m.work
    BY DEF Iface, SameCmds, SameCleanup
  <1> QED  BY <1>1, <1>2

LEMMA TimeoutType ==
    ASSUME NEW m \in Iface, NEW c \in Cmds, NEW ctx \in Contexts
    PROVE  Timeout(m, ctx, c) \in Iface
BY NoBuffer, ProxyTimeoutType DEF Timeout

LEMMA FlrIs ==
    ASSUME NEW m \in Iface
    PROVE  LET n == Flr(m)
           IN  /\ n \in Iface
               /\ n.mode = "POLL" /\ n.list = {} /\ n.db = NoCmd
               /\ n.cleanup = m.cleanup \cup {<<"reset", c>> : c \in ToldLater(m)}
               /\ n.outstanding = m.outstanding + Cardinality(ToldLater(m))
               /\ n.state = [c \in Cmds |-> IF c \in m.list THEN "FINISHED" ELSE m.state[c]]
               /\ n.ref = [c \in Cmds |->
                             m.ref[c] + (IF c \in ToldLater(m) THEN 1 ELSE 0)
                                      - (IF c \in m.list THEN 1 ELSE 0)
                                      - (IF c \in m.list /\ m.work[c] = "armed" THEN 1 ELSE 0)]
               /\ n.work = [c \in Cmds |-> IF c \in m.list THEN "idle" ELSE m.work[c]]
               /\ n.called = [c \in Cmds |-> IF c \in Told(m) \cap Atomic THEN m.called[c] + 1
                                             ELSE m.called[c]]
  <1> DEFINE T == Told(m)
             L == ToldLater(m)
             A == Told(m) \cap Atomic
             h == [q \in Seqs |-> NoCmd]
             b == m.buf /\ \A c \in m.list : m.state[c] \notin Running
             rc == [c \in Cmds |-> IF c \in m.list THEN "EIO" ELSE m.rc[c]]
             u == m.cleanup \cup {<<"reset", c>> : c \in L}
             o == m.outstanding + Cardinality(L)
             st == [c \in Cmds |-> IF c \in m.list THEN "FINISHED" ELSE m.state[c]]
             r == [c \in Cmds |-> m.ref[c] + (IF c \in L THEN 1 ELSE 0)
                                           - (IF c \in m.list THEN 1 ELSE 0)
                                           - (IF c \in m.list /\ m.work[c] = "armed" THEN 1 ELSE 0)]
             w == [c \in Cmds |-> IF c \in m.list THEN "idle" ELSE m.work[c]]
             dn == [c \in Cmds |-> IF c \in A THEN "EIO" ELSE m.done[c]]
             k == [c \in Cmds |-> IF c \in A THEN m.called[c] + 1 ELSE m.called[c]]
             n == [m EXCEPT !.mode = "POLL", !.list = {}, !.db = NoCmd, !.held = h, !.buf = b,
                            !.mail = NoMail, !.rc = rc, !.cleanup = u, !.outstanding = o,
                            !.state = st, !.ref = r, !.work = w, !.done = dn, !.called = k]
  <1>1. /\ m.list \in SUBSET Cmds /\ m.rc \in [Cmds -> Codes \cup {"none"}]
        /\ m.cleanup \in SUBSET (Contexts \X Cmds) /\ m.outstanding \in Int
        /\ m.state \in [Cmds -> States] /\ m.ref \in [Cmds -> Int]
        /\ m.work \in [Cmds -> {"idle", "armed"}]
        /\ m.done \in [Cmds -> Codes \cup {"none"}] /\ m.called \in [Cmds -> Nat]
    BY DEF Iface
  <1>2. /\ L \in SUBSET Cmds /\ A \in SUBSET Cmds /\ Cardinality(L) \in Nat
    BY ToldFinite DEF ToldLater
  <1>3. Flr(m) = n
    BY DEF Flr, Told, ToldLater
  <1> HIDE DEF T, L, A
  <1>4. /\ u \in SUBSET (Contexts \X Cmds) /\ o \in Int
    BY <1>1, <1>2 DEF Contexts
  <1>5. rc \in [Cmds -> Codes \cup {"none"}] /\ dn \in [Cmds -> Codes \cup {"none"}]
    BY <1>1, <1>2 DEF Codes, Answers
  <1>6. st \in [Cmds -> States]
    BY <1>1, StateNames
  <1>7. r \in [Cmds -> Int] /\ k \in [Cmds -> Nat] /\ w \in [Cmds -> {"idle", "armed"}]
    BY <1>1, <1>2
  <1>8. h \in [Seqs -> Cmds \cup {NoCmd}] /\ b \in BOOLEAN
    OBVIOUS
  <1>9. NoMail \in Mails
    BY DEF NoMail, Mails
  <1> HIDE DEF h, b, rc, u, o, st, r, w, dn, k
  <1>10. n \in Iface
    BY ZenonT(40), <1>4, <1>5, <1>6, <1>7, <1>8, <1>9 DEF Iface, Modes
  <1>11. /\ n.mode = "POLL" /\ n.list = {} /\ n.db = NoCmd /\ n.cleanup = u /\ n.outstanding = o
         /\ n.state = st /\ n.ref = r /\ n.work = w /\ n.called = k
    BY DEF Iface
  <1>12. Flr(m) \in Iface
    BY <1>3, <1>10
  <1> HIDE DEF n
  <1> QED  BY <1>3, <1>11, <1>12 DEF u, o, st, r, w, k, T, L, A

LEMMA SetReply ==
    ASSUME NEW m \in Iface, NEW reply \in Answers
    PROVE  LET n == [m EXCEPT !.mail.reply = reply]
           IN  /\ n \in Iface
               /\ n.mail.cmd = m.mail.cmd /\ n.mode = m.mode /\ n.db = m.db /\ n.buf = m.buf
               /\ n.held = m.held
               /\ SameCmds(m, n) /\ SameCleanup(m, n) /\ n.ref = m.ref /\ n.work = m.work
  <1> DEFINE v == [m.mail EXCEPT !.reply = reply]
             n == [m EXCEPT !.mail = v]
  <1>1. m.mail \in Mails
    BY DEF Iface
  <1>2. v \in Mails /\ v.cmd = m.mail.cmd
    BY <1>1 DEF Mails
  <1>3. [m EXCEPT !.mail.reply = reply] = n
    OBVIOUS
  <1> HIDE DEF v
  <1>4. n \in Iface
    BY <1>2 DEF Iface
  <1>5. /\ n.mail = v /\ n.mode = m.mode /\ n.db = m.db /\ n.buf = m.buf /\ n.held = m.held
        /\ SameCmds(m, n) /\ SameCleanup(m, n) /\ n.ref = m.ref /\ n.work = m.work
    BY DEF Iface, SameCmds, SameCleanup
  <1> QED  BY <1>2, <1>3, <1>4, <1>5

LEMMA Entered ==
    ASSUME NEW m \in Iface, NEW c \in Cmds, NEW late \in BOOLEAN
    PROVE  LET n == [m EXCEPT !.work[c] = "idle", !.expired[c] = @ \/ late]
           IN  /\ n \in Iface
               /\ n.work = [m.work EXCEPT ![c] = "idle"] /\ n.ref = m.ref
               /\ SameBox(m, n) /\ SameCmds(m, n) /\ SameCleanup(m, n)
  <1> DEFINE w == [m.work EXCEPT ![c] = "idle"]
             x == [m.expired EXCEPT ![c] = @ \/ late]
             n == [m EXCEPT !.work = w, !.expired = x]
  <1>1. m.work \in [Cmds -> {"idle", "armed"}] /\ m.expired \in [Cmds -> BOOLEAN]
    BY DEF Iface
  <1>2. w \in [Cmds -> {"idle", "armed"}] /\ x \in [Cmds -> BOOLEAN]
    BY <1>1
  <1>3. [m EXCEPT !.work[c] = "idle", !.expired[c] = @ \/ late] = n
    BY <1>1
  <1> HIDE DEF w, x
  <1>4. n \in Iface
    BY <1>2 DEF Iface
  <1>5. n.work = w /\ n.ref = m.ref /\ SameBox(m, n) /\ SameCmds(m, n) /\ SameCleanup(m, n)
    BY DEF Iface, SameBox, SameCmds, SameCleanup
  <1> QED  BY <1>3, <1>4, <1>5 DEF w

LEMMA Cleaned ==
    ASSUME NEW m \in Iface, NEW e \in Contexts \X Cmds
    PROVE  LET n == [Put(Called(m, e[2]), e[2]) EXCEPT !.cleanup = @ \ {e}, !.outstanding = @ - 1]
           IN  /\ n \in Iface
               /\ n.cleanup = m.cleanup \ {e} /\ n.outstanding = m.outstanding - 1
               /\ n.ref = [m.ref EXCEPT ![e[2]] = @ - 1]
               /\ n.called = [m.called EXCEPT ![e[2]] = @ + 1]
               /\ SameBox(m, n) /\ SameCmds(m, n) /\ n.work = m.work
  <1> DEFINE c == e[2]
             k == Called(m, c)
             p == Put(k, c)
             u == p.cleanup \ {e}
             o == p.outstanding - 1
             n == [p EXCEPT !.cleanup = u, !.outstanding = o]
  <1>1. c \in Cmds
    OBVIOUS
  <1> HIDE DEF c
  <1>2. /\ k \in Iface
        /\ k.called = [m.called EXCEPT ![c] = @ + 1]
        /\ SameBox(m, k) /\ SameCmds(m, k)
        /\ k.ref = m.ref /\ k.work = m.work
        /\ k.cleanup = m.cleanup /\ k.outstanding = m.outstanding
    BY <1>1, CalledIs
  <1> HIDE DEF k
  <1>3. /\ p \in Iface
        /\ p.ref = [k.ref EXCEPT ![c] = @ - 1]
        /\ SameBox(k, p) /\ SameCmds(k, p) /\ SameCleanup(k, p) /\ p.work = k.work
    BY <1>1, <1>2, PutIs
  <1> HIDE DEF p
  <1>4. u \in SUBSET (Contexts \X Cmds) /\ o \in Int
    BY <1>3 DEF Iface
  <1>5. [p EXCEPT !.cleanup = @ \ {e}, !.outstanding = @ - 1] = n
    BY <1>3 DEF Iface
  <1>6. u = m.cleanup \ {e} /\ o = m.outstanding - 1
    BY <1>2, <1>3 DEF SameCleanup
  <1> HIDE DEF u, o
  <1>7. n \in Iface
    BY <1>3, <1>4 DEF Iface
  <1>8. /\ n.cleanup = u /\ n.outstanding = o /\ n.ref = p.ref /\ n.called = p.called
        /\ SameBox(p, n) /\ SameCmds(p, n) /\ n.work = p.work
    BY <1>3 DEF Iface, SameBox, SameCmds
  <1>9. /\ n.ref = [m.ref EXCEPT ![c] = @ - 1] /\ n.called = [m.called EXCEPT ![c] = @ + 1]
        /\ SameBox(m, n) /\ SameCmds(m, n) /\ n.work = m.work
    BY <1>2, <1>3, <1>8 DEF SameBox, SameCmds, SameCleanup
  <1> QED  BY <1>5, <1>6, <1>7, <1>8, <1>9 DEF c, p, k

LEMMA CodesOfReply == \A reply \in Answers \cup {"none"} : CodesOf(reply) \subseteq Codes
BY DEF CodesOf, Codes, Answers

LEMMA NoticedIs ==
    ASSUME NEW m \in Iface, NEW code, NEW n \in Noticed(m, code)
    PROVE  /\ n \in Iface /\ (n = m \/ n = ModePoll(m))
           /\ m.mode # "EVENTS" => n = m
BY ModePollIs DEF Noticed

---------------------------------------------------------------------------
(* Types                                                                    *)

CallerPcs == {"idle", "waiting", "cancelling", "cancelled", "returned"}

Rest == /\ setting \in Settings
        /\ running \in [Cmds -> BOOLEAN]
        /\ caller \in [Cmds -> CallerPcs]
        /\ result \in [Cmds -> Results \cup {"none"}]
        /\ events \subseteq Seqs
        /\ awaiting \subseteq Cmds
        /\ stage \in Stages

LEMMA TypeSplit == TypeOK <=> mcdi \in Iface /\ Rest
BY DEF TypeOK, Iface, Modes, Mails, Rest, CallerPcs

LEMMA TypeInit == Init => mcdi \in Iface /\ Rest
  <1> SUFFICES ASSUME Init  PROVE mcdi \in Iface /\ Rest
    OBVIOUS
  <1>1. NoMail \in Mails
    BY DEF NoMail, Mails
  <1>2. 0 \in Seqs
    BY SeqSpacePos DEF Seqs
  <1>3. mcdi \in Iface
    BY <1>1, <1>2, StateNames DEF Init, Iface, Modes
  <1>4. Rest
    BY DEF Init, Rest, CallerPcs, Results, Stages
  <1> QED  BY <1>3, <1>4

LEMMA RestStep ==
    ASSUME mcdi \in Iface, Rest, [Next]_vars
    PROVE  Rest'
  <1>1. setting \in Setting /\ setting.answers \subseteq Answers
    BY SettingsKnown DEF Rest, Setting
  <1>2. \A c \in Cmds : mcdi.done[c] \in Codes \cup {"none"}
    BY DEF Iface
  <1>3. \A c \in Cmds : mcdi.seq[c] \in Seqs
    BY DEF Iface
  <1>4. mcdi.mail.cmd \in Cmds \cup {NoCmd}
    BY DEF Iface, Mails
  <1> DEFINE Kept == UNCHANGED <<setting, running, events, stage>> /\ awaiting' \subseteq Cmds
  <1>a. ASSUME NEW c \in Cmds, NEW s \in CallerPcs, Goto(c, s), Kept, UNCHANGED result
        PROVE  Rest'
    BY <1>a DEF Rest, Goto
  <1>b. ASSUME NEW c \in Cmds, NEW rc \in Results \cup {"none"}, Return(c, rc), Kept
        PROVE  Rest'
    BY <1>b DEF Rest, Return, Goto, CallerPcs
  <1>5. ASSUME NEW c \in Cmds, CallRefused(c) \/ CallBusy(c) \/ Queue(c) \/ Send(c) \/ SendAndPoll(c)
        PROVE  Rest'
    <2>1. awaiting \subseteq Cmds
      BY DEF Rest
    <2>2. CASE CallRefused(c) \/ CallBusy(c)
      BY <1>b, <2>1, <2>2 DEF CallRefused, CallBusy, Results, Codes
    <2>3. CASE Queue(c) \/ Send(c)
      BY <1>a, <2>1, <2>3 DEF Queue, Send, CallerPcs
    <2>4. CASE SendAndPoll(c)
      BY <1>a, <2>1, <2>4 DEF SendAndPoll, CallerPcs
    <2> QED  BY <1>5, <2>2, <2>3, <2>4
  <1>6. ASSUME NEW c \in Cmds, CallTimesOut(c) \/ CallerStep(c)
        PROVE  Rest'
    <2>1. awaiting \subseteq Cmds
      BY DEF Rest
    <2>2. CASE CallTimesOut(c)
      BY <1>a, <2>1, <2>2 DEF CallTimesOut, CallerPcs
    <2>3. CASE CallCompleted(c)
      BY <1>2, <1>b, <2>1, <2>3 DEF CallCompleted, Results
    <2>4. CASE Cancel(c)
      BY <1>a, <2>1, <2>4 DEF Cancel, CallerPcs
    <2>5. CASE CallTimedOut(c)
      BY <1>2, <1>b, <2>1, <2>5 DEF CallTimedOut, Results, Codes
    <2> QED  BY <1>6, <2>2, <2>3, <2>4, <2>5 DEF CallerStep
  <1>7. ASSUME NEW c \in Cmds, WorkStep(c)
        PROVE  Rest'
    BY <1>7 DEF Rest, WorkStep, WorkEnter, WorkFinished, WorkProxyTimeout, WorkComplete, WorkTimeout,
                WorkPollAgain, WorkLeaves
  <1>8. ASSUME NEW e \in Contexts \X Cmds, ProcessCleanup(e)
        PROVE  Rest'
    BY <1>8 DEF Rest, ProcessCleanup
  <1>9. CASE McAnswer
    BY <1>1, <1>3, <1>4, <1>9 DEF Rest, McAnswer
  <1>10. CASE EventStep
    BY <1>10 DEF Rest, EventStep, EvCpl, EvProxyGranted, EvProxyRefused, EvDeath
  <1>11. CASE EventsStart \/ ModeEvent \/ StopEvents \/ EventsStopped \/ FlrReset \/ PostReset
    BY <1>11 DEF Rest, EventsStart, ModeEvent, StopEvents, EventsStopped, FlrReset, PostReset, Stages
  <1>12. CASE UNCHANGED vars
    BY <1>12 DEF vars, Rest
  <1> QED  BY <1>5, <1>6, <1>7, <1>8, <1>9, <1>10, <1>11, <1>12 DEF Next

LEMMA IfaceStep ==
    ASSUME mcdi \in Iface, Rest, [Next]_vars
    PROVE  mcdi' \in Iface
  <1>1. setting \in Setting /\ setting.answers \subseteq Answers
    BY SettingsKnown DEF Rest, Setting
  <1>2. \A code \in Codes : \A n \in Noticed(mcdi, code) : n \in Iface
    BY NoticedIs, ModePollIs
  <1>3. CodesOf(mcdi.mail.reply) \subseteq Codes
    BY CodesOfReply DEF Iface, Mails
  <1>4. Answers \subseteq Codes
    BY DEF Codes
  <1>5. ASSUME NEW c \in Cmds, Queue(c) \/ Send(c) \/ SendAndPoll(c)
        PROVE  mcdi' \in Iface
    <2> DEFINE l == Listed(mcdi, c)
    <2>1. l \in Iface /\ SameBox(mcdi, l)
      BY ListedIs
    <2> HIDE DEF l
    <2>2. CASE Queue(c)
      BY <2>1, <2>2, SetState, StateNames DEF Queue, l
    <2>3. CanStart(mcdi) => FreeSeqs(l) # {}
      BY <2>1 DEF CanStart, FreeSeqs, SameBox
    <2>4. CASE Send(c)
      BY <2>1, <2>3, <2>4, StartIs DEF Send, l
    <2>5. CASE SendAndPoll(c)
      <3>1. PICK reply \in Answers :
                mcdi' = Complete([Transmit(l, c) EXCEPT !.mail.reply = reply], "caller", c, reply)
        BY <1>1, <2>5 DEF SendAndPoll, l
      <3>2. Transmit(l, c) \in Iface
        BY <2>1, <2>3, <2>5, TransmitIs DEF SendAndPoll
      <3>3. [Transmit(l, c) EXCEPT !.mail.reply = reply] \in Iface
        BY <3>2, SetReply
      <3>4. "caller" \in Contexts /\ reply \in Codes
        BY <1>4 DEF Contexts
      <3> QED  BY <3>1, <3>3, <3>4, CompleteIs
    <2> QED  BY <1>5, <2>2, <2>4, <2>5
  <1>6. ASSUME NEW c \in Cmds, Cancel(c)
        PROVE  mcdi' \in Iface
    BY <1>6, CancelCmdType DEF Cancel, Contexts
  <1>7. ASSUME NEW c \in Cmds, WorkStep(c)
        PROVE  mcdi' \in Iface
    <2>0. "work" \in Contexts
      BY DEF Contexts
    <2>1. ASSUME NEW late \in BOOLEAN, WorkEnter(c, late)  PROVE mcdi' \in Iface
      BY <2>1, Entered DEF WorkEnter
    <2>2. CASE WorkFinished(c)
      BY <2>2, PutIs DEF WorkFinished
    <2>3. CASE WorkProxyTimeout(c)
      BY <2>0, <2>3, ProxyTimeoutType, PutIs DEF WorkProxyTimeout
    <2>4. CASE WorkComplete(c)
      <3>1. PICK code \in Codes : \E m \in Iface : mcdi' = Put(Complete(m, "work", c, code), c)
        BY <1>2, <1>3, <2>4 DEF WorkComplete
      <3>2. PICK m \in Iface : mcdi' = Put(Complete(m, "work", c, code), c)
        BY <3>1
      <3>3. Complete(m, "work", c, code) \in Iface
        BY <2>0, CompleteIs
      <3> QED  BY <3>2, <3>3, PutIs
    <2>5. CASE WorkTimeout(c)
      BY <2>0, <2>5, TimeoutType, PutIs DEF WorkTimeout
    <2>6. CASE WorkPollAgain(c)
      BY <2>6, ArmIs, PutIs DEF WorkPollAgain
    <2> QED  BY <1>7, <2>1, <2>2, <2>3, <2>4, <2>5, <2>6 DEF WorkStep
  <1>8. ASSUME NEW e \in Contexts \X Cmds, ProcessCleanup(e)
        PROVE  mcdi' \in Iface
    BY <1>8, Cleaned DEF ProcessCleanup
  <1>9. CASE McAnswer
    BY <1>1, <1>9, SetReply DEF McAnswer
  <1>10. ASSUME NEW q \in Seqs, EvCpl(q)  PROVE mcdi' \in Iface
    <2> DEFINE c == mcdi.held[q]
    <2>1. c \in Cmds \cup {NoCmd} /\ "rx" \in Contexts
      BY DEF Iface, Contexts
    <2>2. CASE mcdi' = mcdi
      BY <2>2
    <2>3. CASE \E code \in CodesOf(mcdi.mail.reply) : \E m \in Noticed(mcdi, code) :
                  LET n == Complete(m, "rx", c, code)
                  IN  c # NoCmd /\ mcdi' = IF Unfinished(m, c, code) THEN n ELSE Disarm(n, c)
      <3>0. PICK code \in Codes : \E m \in Iface :
                  LET n == Complete(m, "rx", c, code)
                  IN  c # NoCmd /\ mcdi' = IF Unfinished(m, c, code) THEN n ELSE Disarm(n, c)
        BY <1>2, <1>3, <2>3
      <3>1. PICK m \in Iface :
                  LET n == Complete(m, "rx", c, code)
                  IN  c # NoCmd /\ mcdi' = IF Unfinished(m, c, code) THEN n ELSE Disarm(n, c)
        BY <3>0
      <3>2. c \in Cmds
        BY <2>1, <3>1
      <3> DEFINE n == Complete(m, "rx", c, code)
      <3>3. n \in Iface
        BY <2>1, <3>2, CompleteIs
      <3>4. Disarm(n, c) \in Iface
        BY <3>2, <3>3, DisarmIs
      <3> QED  BY <3>1, <3>3, <3>4
    <2> QED  BY <1>10, <2>2, <2>3 DEF EvCpl
  <1>11. ASSUME NEW c \in Cmds, EvProxyGranted(c)  PROVE mcdi' \in Iface
    <2> DEFINE m == [mcdi EXCEPT !.db = NoCmd]
    <2>1. m \in Iface
      BY SetDoorbell
    <2>2. mcdi' \in {mcdi, Start(m, c), [m EXCEPT !.state[c] = "QUEUED"]}
             /\ (mcdi' = Start(m, c) => mcdi' = mcdi \/ CanStart(m) \/ mcdi' = [m EXCEPT !.state[c] = "QUEUED"])
      BY <1>11 DEF EvProxyGranted
    <2> HIDE DEF m
    <2>3. [m EXCEPT !.state[c] = "QUEUED"] \in Iface
      BY <2>1, SetState, StateNames
    <2>4. CanStart(m) => Start(m, c) \in Iface
      BY <2>1, StartIs DEF CanStart
    <2> QED  BY <2>2, <2>3, <2>4
  <1>12. ASSUME NEW c \in Cmds, EvProxyRefused(c)  PROVE mcdi' \in Iface
    <2>1. CASE mcdi' = mcdi
      BY <2>1
    <2>2. CASE \E m \in {mcdi, ModePoll(mcdi)} :
               mcdi' = Disarm(Remove(WithRc([m EXCEPT !.db = NoCmd], c, "EIO"), "rx", c), c)
      <3>1. PICK m \in Iface :
               mcdi' = Disarm(Remove(WithRc([m EXCEPT !.db = NoCmd], c, "EIO"), "rx", c), c)
        BY <2>2, ModePollIs
      <3>2. [m EXCEPT !.db = NoCmd] \in Iface
        BY SetDoorbell
      <3>3. WithRc([m EXCEPT !.db = NoCmd], c, "EIO") \in Iface
        BY <3>2, WithRcIs DEF Codes, Answers
      <3>4. Remove(WithRc([m EXCEPT !.db = NoCmd], c, "EIO"), "rx", c) \in Iface
        BY <3>3, RemoveIs DEF Contexts
      <3> QED  BY <3>1, <3>4, DisarmIs
    <2> QED  BY <1>12, <2>1, <2>2 DEF EvProxyRefused
  <1>13. CASE EvDeath \/ StopEvents
    BY <1>13, ModePollIs DEF EvDeath, StopEvents
  <1>14. CASE ModeEvent
    BY <1>14 DEF ModeEvent, Iface, Modes
  <1>15. CASE FlrReset
    BY <1>15, FlrIs DEF FlrReset
  <1>16. CASE UNCHANGED mcdi
    BY <1>16
  <1>17. ASSUME NEW c \in Cmds,
                CallRefused(c) \/ CallBusy(c) \/ CallTimesOut(c) \/ CallCompleted(c) \/ CallTimedOut(c)
         PROVE  UNCHANGED mcdi
    BY <1>17 DEF CallRefused, CallBusy, CallTimesOut, CallCompleted, CallTimedOut
  <1>18. CASE EventsStart \/ EventsStopped \/ PostReset \/ UNCHANGED vars
    BY <1>18 DEF EventsStart, EventsStopped, PostReset, vars
  <1> QED  BY <1>5, <1>6, <1>7, <1>8, <1>9, <1>10, <1>11, <1>12, <1>13, <1>14, <1>15, <1>16, <1>17, <1>18
           DEF Next, CallerStep, EventStep

Types == mcdi \in Iface /\ Rest

LEMMA TypesInit == Init => Types
BY TypeInit DEF Types

LEMMA TypesStep == Types /\ [Next]_vars => Types'
BY IfaceStep, RestStep DEF Types

LEMMA AlwaysTypes == Spec => []Types
BY TypesInit, TypesStep, PTL DEF Spec

(* Every variable of the model stays in its domain, whatever the setting:   *)
(* there is a sequence number for each command that is sent, and a command  *)
(* the queue goes on with.                                                  *)
THEOREM TypeCorrect == Spec => []TypeOK
  <1>1. Types => TypeOK
    BY TypeSplit DEF Types
  <1> QED  BY <1>1, AlwaysTypes, PTL

---------------------------------------------------------------------------
(* The queue moves on                                                       *)

NoneQueued(m) == \A c \in m.list : m.state[c] # "QUEUED"
Awake(m)      == NoneQueued(m) \/ ~CanStart(m)

(* A command starts only for a doorbell, a buffer and a number.             *)
LEMMA SameMailbox ==
    ASSUME NEW m \in Iface, NEW n \in Iface,
           n.db = m.db, n.buf = m.buf, n.held = m.held
    PROVE  CanStart(n) <=> CanStart(m)
BY DEF CanStart, FreeSeqs

(* Nothing is freed, and nobody else waits.                                 *)
LEMMA StillAwake ==
    ASSUME NEW m \in Iface, NEW n \in Iface, Awake(m),
           n.db = m.db, n.buf = m.buf, n.held = m.held, n.list \subseteq m.list,
           \A c \in n.list : n.state[c] = "QUEUED" => m.state[c] = "QUEUED"
    PROVE  Awake(n)
BY SameMailbox DEF Awake, NoneQueued

LEMMA AdvanceAwakes ==
    ASSUME NEW m \in Iface, NEW retry \in BOOLEAN
    PROVE  Awake(Advance(m, retry))
  <1> DEFINE S == Ready(m, retry)
             q == Requeue(m, S)
             n == Advance(m, retry)
  <1>1. /\ S # {} /\ CanStart(m) => \E c \in S : n = Start(q, c) /\ FreeSeqs(q) # {}
        /\ ~(S # {} /\ CanStart(m)) => n = q
        /\ n \in Iface
    BY AdvanceIs
  <1>2. S \in SUBSET Cmds /\ m.list \in SUBSET Cmds
    BY DEF Ready, Iface
  <1>3. /\ q \in Iface
        /\ q.state = [c \in Cmds |-> IF c \in S THEN "QUEUED" ELSE m.state[c]]
        /\ q.db = m.db /\ q.buf = m.buf /\ q.held = m.held /\ q.list = m.list
    BY <1>2, RequeueIs DEF SameBox
  <1>4. CASE S # {} /\ CanStart(m)
    <2>1. PICK c \in S : n = Start(q, c) /\ FreeSeqs(q) # {}
      BY <1>1, <1>4
    <2> HIDE DEF n, q, S
    <2>2. n.db = c /\ c \in Cmds
      BY <1>2, <1>3, <2>1, StartIs
    <2>3. ~CanStart(n)
      BY <2>2, NoCmdNotCmd DEF CanStart
    <2> QED  BY <2>3 DEF Awake, n
  <1>5. CASE S = {}
    <2>1. n = q
      BY <1>1, <1>5
    <2>2. \A c \in m.list : m.state[c] # "QUEUED"
      BY <1>5 DEF Ready
    <2> HIDE DEF n, q, S
    <2>3. \A c \in n.list : n.state[c] # "QUEUED"
      BY <1>2, <1>3, <1>5, <2>1, <2>2
    <2> QED  BY <2>3 DEF Awake, NoneQueued, n
  <1>6. CASE ~CanStart(m)
    <2>1. n = q
      BY <1>1, <1>6
    <2> HIDE DEF n, q, S
    <2>2. ~CanStart(n)
      BY <1>3, <1>6, <2>1, SameMailbox
    <2> QED  BY <2>2 DEF Awake, n
  <1> QED  BY <1>4, <1>5, <1>6

LEMMA ModeFailAwakes ==
    ASSUME NEW m \in Iface, NEW ctx \in Contexts
    PROVE  Awake(ModeFail(m, ctx))
  <1> DEFINE n == ModeFail(m, ctx)
  <1>1. /\ n.list = m.list \ Waiting(m)
        /\ n.state = [c \in Cmds |-> IF c \in Waiting(m) THEN "FINISHED"
                                     ELSE IF c \in Told(m) THEN Mark(m.state[c])
                                     ELSE m.state[c]]
    BY ModeFailIs
  <1> HIDE DEF n
  <1>2. ASSUME NEW c \in n.list  PROVE n.state[c] # "QUEUED"
    <2>1. c \in m.list /\ c \in Cmds /\ c \notin Waiting(m)
      BY <1>1 DEF Iface
    <2>2. m.state[c] # "QUEUED"
      BY <2>1 DEF Waiting, Waits
    <2>3. Mark(m.state[c]) # "QUEUED"
      BY <2>2 DEF Mark
    <2> QED  BY <1>1, <2>1, <2>2, <2>3
  <1> QED  BY <1>2 DEF Awake, NoneQueued, n

LEMMA CancelAwake ==
    ASSUME NEW m \in Iface, NEW c \in Cmds, NEW ctx \in Contexts, Awake(m)
    PROVE  Awake(CancelCmd(m, ctx, c))
  <1> DEFINE p == WithRc(m, c, "EPIPE")
             r == Remove(p, ctx, c)
             k == Notify(p, ctx, c)
             j == [k EXCEPT !.state[c] = Mark(@)]
  <1>1. p \in Iface /\ SameBox(m, p) /\ SameCmds(m, p)
    BY WithRcIs DEF Codes
  <1> HIDE DEF p
  <1>2. /\ r \in Iface /\ SameBox(p, r) /\ r.list = p.list \ {c}
        /\ r.state = [p.state EXCEPT ![c] = "FINISHED"]
    <2>0. p \in Iface
      BY <1>1
    <2>1. r \in Iface /\ SameBox(p, r)
      BY <2>0, RemoveIs
    <2>2. r.list = p.list \ {c}
      BY <2>0, RemoveIs
    <2>3. r.state = [p.state EXCEPT ![c] = "FINISHED"]
      BY <2>0, RemoveIs
    <2> QED  BY <2>1, <2>2, <2>3
  <1>3. k \in Iface /\ SameBox(p, k) /\ SameCmds(p, k)
    BY <1>1, NotifyIs
  <1> HIDE DEF r, k
  <1>4. m.state \in [Cmds -> States] /\ m.list \in SUBSET Cmds
    BY DEF Iface
  <1>5. Awake(r)
    BY <1>1, <1>2, <1>4, StillAwake DEF SameBox, SameCmds
  <1>6. Awake(j)
    <2> DEFINE s == Mark(m.state[c])
               i == [k EXCEPT !.state[c] = s]
    <2>1. s \in States /\ (s = "QUEUED" => m.state[c] = "QUEUED")
      BY <1>4, MarkType DEF Mark
    <2>2. j = i
      BY <1>1, <1>3 DEF Iface, SameCmds
    <2> HIDE DEF s
    <2>3. i \in Iface /\ i.state = [k.state EXCEPT ![c] = s] /\ SameBox(k, i) /\ i.list = k.list
      BY <1>3, <2>1, SetState
    <2> HIDE DEF i
    <2>4. Awake(i)
      BY <1>1, <1>3, <1>4, <2>1, <2>3, StillAwake DEF SameBox, SameCmds
    <2> QED  BY <2>2, <2>4
  <1> QED  BY <1>5, <1>6 DEF CancelCmd, p, r, k

LEMMA PutAwake ==
    ASSUME NEW m \in Iface, NEW c \in Cmds, Awake(m)
    PROVE  Awake(Put(m, c))
  <1> DEFINE n == Put(m, c)
  <1>1. n \in Iface /\ SameBox(m, n) /\ SameCmds(m, n)
    BY PutIs
  <1> HIDE DEF n
  <1>2. Awake(n)
    BY <1>1, StillAwake DEF SameBox, SameCmds
  <1> QED  BY <1>2 DEF n

LEMMA CompleteAwakes ==
    ASSUME NEW m \in Iface, NEW c \in Cmds, NEW ctx \in Contexts, NEW code \in Codes
    PROVE  Complete(m, ctx, c, code) \in Iface /\ Awake(Complete(m, ctx, c, code))
  <1> DEFINE s == Settled(m, ctx, c, code)
             r == code # "FULL"
  <1>1. s \in Iface /\ Complete(m, ctx, c, code) = Advance(s, r) /\ r \in BOOLEAN
    BY SettledType, CompleteIs
  <1> HIDE DEF s, r
  <1> QED  BY <1>1, AdvanceIs, AdvanceAwakes

(* efx_mcdi_mode_fail leaves no command that waits.                         *)
LEMMA TimeoutAwakes ==
    ASSUME NEW m \in Iface, NEW c \in Cmds, NEW ctx \in Contexts
    PROVE  ProxyTimeout(m, ctx, c) \in Iface /\ Awake(ProxyTimeout(m, ctx, c))
  <1> DEFINE r == Remove(WithRc(m, c, "ETIMEDOUT"), ctx, c)
  <1>1. r \in Iface
    BY WithRcIs, RemoveIs DEF Codes
  <1> HIDE DEF r
  <1> QED  BY <1>1, ModeFailIs, ModeFailAwakes DEF ProxyTimeout, r

(* No command is held back for another function, so that none is refused    *)
(* what it waits for.                                                       *)
Moving == "PROXY" \notin setting.answers => Awake(mcdi) /\ awaiting = {}

LEMMA MovingStep ==
    ASSUME Types, [Next]_vars, Moving
    PROVE  Moving'
  <1> USE DEF Types
  <1>0. SUFFICES ASSUME setting' = setting, "PROXY" \notin setting.answers
                 PROVE  Awake(mcdi') /\ awaiting' = {}
    BY DEF Moving, Next, vars, CallRefused, CallBusy, Queue, Send, SendAndPoll, CallTimesOut,
           CallerStep, CallCompleted, Cancel, CallTimedOut, WorkStep, WorkEnter, WorkFinished,
           WorkProxyTimeout, WorkComplete, WorkTimeout, WorkPollAgain, WorkLeaves, ProcessCleanup,
           McAnswer, EventStep, EvCpl, EvProxyGranted, EvProxyRefused, EvDeath, EventsStart,
           ModeEvent, StopEvents, EventsStopped, FlrReset, PostReset
  <1>1. Awake(mcdi) /\ awaiting = {} /\ mcdi' \in Iface
    BY <1>0, IfaceStep DEF Moving
  <1>2. ASSUME mcdi'.db = mcdi.db, mcdi'.buf = mcdi.buf, mcdi'.held = mcdi.held,
               mcdi'.list = mcdi.list, mcdi'.state = mcdi.state
        PROVE  Awake(mcdi')
    BY <1>1, <1>2, StillAwake
  <1>3. setting.answers \subseteq Answers
    BY SettingsKnown DEF Rest, Setting
  <1>4. \A code \in CodesOf(mcdi.mail.reply) : code \in Codes /\ Noticed(mcdi, code) \subseteq Iface
    BY CodesOfReply, NoticedIs, ModePollIs DEF Iface, Mails
  <1>5. ASSUME NEW c \in Cmds, Queue(c)  PROVE Awake(mcdi') /\ awaiting' = {}
    <2> DEFINE l == Listed(mcdi, c)
    <2>1. l \in Iface /\ SameBox(mcdi, l)
      BY ListedIs
    <2> HIDE DEF l
    <2>2. SameBox(l, mcdi')
      BY <1>5, <2>1, SetState, StateNames DEF Queue, l
    <2>3. ~CanStart(mcdi')
      BY <1>1, <1>5, <2>1, <2>2, SameMailbox DEF Queue, SameBox
    <2> QED  BY <1>1, <1>5, <2>3 DEF Queue, Awake
  <1>6. ASSUME NEW c \in Cmds, Send(c)  PROVE Awake(mcdi') /\ awaiting' = {}
    <2> DEFINE l == Listed(mcdi, c)
    <2>1. l \in Iface /\ SameBox(mcdi, l)
      BY ListedIs
    <2>2. FreeSeqs(l) # {}
      BY <1>6, <2>1 DEF Send, CanStart, FreeSeqs, SameBox
    <2> HIDE DEF l
    <2>3. mcdi'.db = c
      BY <1>6, <2>1, <2>2, StartIs DEF Send, l
    <2>4. ~CanStart(mcdi')
      BY <2>3, NoCmdNotCmd DEF CanStart
    <2> QED  BY <1>1, <1>6, <2>4 DEF Send, Awake
  <1>7. ASSUME NEW c \in Cmds, SendAndPoll(c)  PROVE Awake(mcdi') /\ awaiting' = {}
    <2> DEFINE l == Listed(mcdi, c)
               t == Transmit(l, c)
    <2>1. l \in Iface /\ SameBox(mcdi, l)
      BY ListedIs
    <2>2. FreeSeqs(l) # {}
      BY <1>7, <2>1 DEF SendAndPoll, CanStart, FreeSeqs, SameBox
    <2> HIDE DEF l
    <2>3. t \in Iface
      BY <2>1, <2>2, TransmitIs
    <2>4. PICK reply \in setting.answers :
              /\ mcdi' = Complete([t EXCEPT !.mail.reply = reply], "caller", c, reply)
              /\ awaiting' = IF reply = "PROXY" THEN awaiting \cup {c} ELSE awaiting
      BY <1>7 DEF SendAndPoll, l
    <2> HIDE DEF t
    <2> DEFINE u == [t EXCEPT !.mail.reply = reply]
    <2>5. u \in Iface /\ reply \in Codes /\ "caller" \in Contexts
      BY <1>3, <2>3, SetReply DEF Codes, Contexts
    <2> HIDE DEF u
    <2>6. Awake(mcdi')
      BY <2>4, <2>5, CompleteAwakes DEF u
    <2> QED  BY <1>0, <1>1, <2>4, <2>6
  <1>8. ASSUME NEW c \in Cmds, Cancel(c)  PROVE Awake(mcdi') /\ awaiting' = {}
    BY <1>1, <1>8, CancelAwake DEF Cancel, Contexts
  <1>9. ASSUME NEW c \in Cmds, WorkStep(c)  PROVE Awake(mcdi') /\ awaiting' = {}
    <2>0. awaiting' = {} /\ "work" \in Contexts
      BY <1>1, <1>9 DEF WorkStep, WorkEnter, WorkFinished, WorkProxyTimeout, WorkComplete,
                        WorkTimeout, WorkPollAgain, WorkLeaves, Contexts
    <2>1. ASSUME NEW late \in BOOLEAN, WorkEnter(c, late)  PROVE Awake(mcdi')
      <3> DEFINE n == [mcdi EXCEPT !.work[c] = "idle", !.expired[c] = @ \/ late]
      <3>1. mcdi' = n
        BY <2>1 DEF WorkEnter
      <3>2. SameBox(mcdi, n) /\ SameCmds(mcdi, n)
        BY Entered
      <3> HIDE DEF n
      <3> QED  BY <1>2, <3>1, <3>2 DEF SameBox, SameCmds
    <2>2. CASE WorkFinished(c)
      <3>1. mcdi' = Put(mcdi, c)
        BY <2>2 DEF WorkFinished
      <3> QED  BY <1>1, <2>0, <3>1, PutAwake
    <2>4. ASSUME NEW m \in Iface  PROVE Awake(Put(ProxyTimeout(m, "work", c), c))
      BY <2>0, TimeoutAwakes, PutAwake
    <2>5. CASE WorkProxyTimeout(c)
      <3>1. mcdi' = Put(ProxyTimeout(mcdi, "work", c), c)
        BY <2>5 DEF WorkProxyTimeout
      <3> QED  BY <2>0, <2>4, <3>1
    <2>6. CASE WorkTimeout(c)
      <3>1. mcdi' = Put(ProxyTimeout([mcdi EXCEPT !.buf = FALSE], "work", c), c)
        BY <2>6 DEF WorkTimeout, Timeout
      <3>2. [mcdi EXCEPT !.buf = FALSE] \in Iface
        BY NoBuffer
      <3> QED  BY <2>0, <2>4, <3>1, <3>2
    <2>7. CASE WorkComplete(c)
      <3>1. PICK code \in Codes : \E m \in Iface : mcdi' = Put(Complete(m, "work", c, code), c)
        BY <1>4, <2>7 DEF WorkComplete
      <3>2. PICK m \in Iface : mcdi' = Put(Complete(m, "work", c, code), c)
        BY <3>1
      <3> QED  BY <2>0, <3>2, CompleteAwakes, PutAwake
    <2>8. CASE WorkPollAgain(c)
      <3> DEFINE a == Arm(mcdi, c)
      <3>1. a \in Iface /\ SameBox(mcdi, a) /\ SameCmds(mcdi, a)
        BY ArmIs
      <3> HIDE DEF a
      <3>2. Awake(a)
        BY <1>1, <3>1, StillAwake DEF SameBox, SameCmds
      <3>3. mcdi' = Put(a, c)
        BY <2>8 DEF WorkPollAgain, a
      <3> QED  BY <2>0, <3>1, <3>2, <3>3, PutAwake
    <2> QED  BY <1>9, <2>0, <2>1, <2>2, <2>5, <2>6, <2>7, <2>8 DEF WorkStep
  <1>10. ASSUME NEW e \in Contexts \X Cmds, ProcessCleanup(e)  PROVE Awake(mcdi') /\ awaiting' = {}
    BY <1>1, <1>2, <1>10, Cleaned DEF ProcessCleanup, SameBox, SameCmds
  <1>11. CASE McAnswer
    <2>1. PICK reply \in setting.answers :
              /\ mcdi' = [mcdi EXCEPT !.mail.reply = reply]
              /\ awaiting' = IF reply = "PROXY" THEN awaiting \cup {mcdi.mail.cmd} ELSE awaiting
      BY <1>11 DEF McAnswer
    <2>2. Awake(mcdi')
      BY <1>2, <1>3, <2>1, SetReply DEF SameCmds
    <2> QED  BY <1>0, <1>1, <2>1, <2>2
  <1>12. ASSUME NEW q \in Seqs, EvCpl(q)  PROVE Awake(mcdi') /\ awaiting' = {}
    <2> DEFINE c == mcdi.held[q]
    <2>1. c \in Cmds \cup {NoCmd} /\ "rx" \in Contexts /\ awaiting' = awaiting
      BY <1>12 DEF EvCpl, Iface, Contexts
    <2>2. CASE mcdi' = mcdi
      BY <1>1, <2>1, <2>2
    <2>3. CASE \E code \in CodesOf(mcdi.mail.reply) : \E m \in Noticed(mcdi, code) :
                  LET n == Complete(m, "rx", c, code)
                  IN  c # NoCmd /\ mcdi' = IF Unfinished(m, c, code) THEN n ELSE Disarm(n, c)
      <3>0. PICK code \in Codes : \E m \in Iface :
                  c # NoCmd /\ mcdi' \in {Complete(m, "rx", c, code), Disarm(Complete(m, "rx", c, code), c)}
        BY <1>4, <2>3
      <3>1. PICK m \in Iface :
                  c # NoCmd /\ mcdi' \in {Complete(m, "rx", c, code), Disarm(Complete(m, "rx", c, code), c)}
        BY <3>0
      <3>2. c \in Cmds
        BY <2>1, <3>1
      <3> DEFINE n == Complete(m, "rx", c, code)
      <3>3. n \in Iface /\ Awake(n)
        BY <2>1, <3>2, CompleteAwakes
      <3> HIDE DEF n, c
      <3>4. Disarm(n, c) \in Iface /\ SameBox(n, Disarm(n, c)) /\ SameCmds(n, Disarm(n, c))
        BY <3>2, <3>3, DisarmIs
      <3>5. Awake(Disarm(n, c))
        BY <3>3, <3>4, StillAwake DEF SameBox, SameCmds
      <3> QED  BY <1>1, <2>1, <3>1, <3>3, <3>5 DEF n, c
    <2> QED  BY <1>12, <2>2, <2>3 DEF EvCpl
  <1>13. ASSUME NEW c \in Cmds  PROVE ~EvProxyGranted(c) /\ ~EvProxyRefused(c)
    BY <1>1 DEF EvProxyGranted, EvProxyRefused
  <1>14. CASE EvDeath \/ StopEvents
    BY <1>1, <1>2, <1>14, ModePollIs DEF EvDeath, StopEvents, SameCmds
  <1>15. CASE ModeEvent
    <2>1. /\ mcdi'.db = mcdi.db /\ mcdi'.buf = mcdi.buf /\ mcdi'.held = mcdi.held
          /\ mcdi'.list = mcdi.list /\ mcdi'.state = mcdi.state /\ awaiting' = awaiting
      BY <1>15 DEF ModeEvent, Iface
    <2> QED  BY <1>1, <1>2, <2>1
  <1>16. CASE FlrReset
    BY <1>16, FlrIs DEF FlrReset, Awake, NoneQueued
  <1>17. ASSUME NEW c \in Cmds,
                CallRefused(c) \/ CallBusy(c) \/ CallTimesOut(c) \/ CallCompleted(c) \/ CallTimedOut(c)
         PROVE  Awake(mcdi') /\ awaiting' = {}
    BY <1>1, <1>17 DEF CallRefused, CallBusy, CallTimesOut, CallCompleted, CallTimedOut
  <1>18. CASE EventsStart \/ EventsStopped \/ PostReset \/ UNCHANGED vars
    BY <1>1, <1>18 DEF EventsStart, EventsStopped, PostReset, vars
  <1> QED  BY <1>5, <1>6, <1>7, <1>8, <1>9, <1>10, <1>11, <1>12, <1>13, <1>14, <1>15, <1>16, <1>17, <1>18
           DEF Next, CallerStep, EventStep

LEMMA SettingKept == [Next]_vars => setting' = setting
BY ZenonT(40) DEF Next, vars, CallRefused, CallBusy, Queue, Send, SendAndPoll, CallTimesOut,
       CallerStep, CallCompleted, Cancel, CallTimedOut, WorkStep, WorkEnter, WorkFinished,
       WorkProxyTimeout, WorkComplete, WorkTimeout, WorkPollAgain, WorkLeaves, ProcessCleanup,
       McAnswer, EventStep, EvCpl, EvProxyGranted, EvProxyRefused, EvDeath, EventsStart,
       ModeEvent, StopEvents, EventsStopped, FlrReset, PostReset

(* The first half of NoLostWakeup.                                          *)
LEMMA QueuedMoves == Spec => [](Types /\ Moving /\ QueuedMove)
  <1>1. Init => Moving
    BY DEF Init, Moving, Awake, NoneQueued
  <1>2. Types /\ Moving /\ [Next]_vars => Moving'
    BY MovingStep
  <1>3. Moving => QueuedMove
    BY DEF Moving, Awake, NoneQueued, QueuedMove
  <1> QED  BY <1>1, <1>2, <1>3, AlwaysTypes, PTL DEF Spec

(* Only what was issued is listed.                                          *)
Occupied == "PROXY" \notin setting.answers => \A c \in mcdi.list : caller[c] # "idle"

NoneRetry(m) == \A c \in m.list : m.state[c] # "RETRY"

(* No command joins the list, and those that run go on doing so or none is  *)
(* left to be tried again.                                                  *)
Eased(m, n) == n.list \subseteq m.list /\ (RunsOn(m) \subseteq RunsOn(n) \/ NoneRetry(n))

LEMMA SameEased ==
    ASSUME NEW m, NEW n, SameCmds(m, n)
    PROVE  /\ Eased(m, n) /\ RunsOn(n) = RunsOn(m)
           /\ NoneRetry(m) => NoneRetry(n)
BY DEF Eased, SameCmds, RunsOn, NoneRetry

LEMMA EasedThenSame ==
    ASSUME NEW m, NEW n, NEW k, Eased(m, n), SameCmds(n, k)
    PROVE  Eased(m, k)
BY DEF Eased, SameCmds, RunsOn, NoneRetry

LEMMA AdvanceEases ==
    ASSUME NEW m \in Iface, NEW retry \in BOOLEAN
    PROVE  /\ Advance(m, retry).list = m.list
           /\ RunsOn(m) \subseteq RunsOn(Advance(m, retry))
           /\ retry => NoneRetry(Advance(m, retry))
  <1> DEFINE S == Ready(m, retry)
             q == Requeue(m, S)
             n == Advance(m, retry)
  <1>1. /\ S # {} /\ CanStart(m) => \E c \in S : n = Start(q, c) /\ FreeSeqs(q) # {}
        /\ ~(S # {} /\ CanStart(m)) => n = q
    BY AdvanceIs
  <1>2. S \in SUBSET Cmds /\ m.list \in SUBSET Cmds /\ m.state \in [Cmds -> States]
    BY DEF Ready, Iface
  <1>3. /\ q \in Iface /\ q.list = m.list
        /\ q.state = [c \in Cmds |-> IF c \in S THEN "QUEUED" ELSE m.state[c]]
    BY <1>2, RequeueIs
  <1>4. \A c \in m.list : c \in Cmds /\ (m.state[c] \in Running => c \notin S)
    BY <1>2 DEF Ready, Running
  <1>5. retry => \A c \in m.list : m.state[c] = "RETRY" => c \in S
    BY DEF Ready
  <1> HIDE DEF S, q, n
  <1>6. /\ RunsOn(m) \subseteq RunsOn(q)
        /\ retry => NoneRetry(q)
    BY <1>2, <1>3, <1>4, <1>5 DEF RunsOn, NoneRetry
  <1>7. CASE n = q
    BY <1>3, <1>6, <1>7 DEF n
  <1>8. CASE \E c \in S : n = Start(q, c) /\ FreeSeqs(q) # {}
    <2>1. PICK c \in S : n = Start(q, c) /\ FreeSeqs(q) # {}
      BY <1>8
    <2>2. n.list = q.list /\ n.state = [q.state EXCEPT ![c] = "RUNNING"]
      BY <1>2, <1>3, <2>1, StartIs
    <2>3. q.state \in [Cmds -> States] /\ "RUNNING" \in Running
      BY <1>3 DEF Iface, Running
    <2>4. RunsOn(q) \subseteq RunsOn(n) /\ (NoneRetry(q) => NoneRetry(n))
      BY <1>2, <1>3, <2>2, <2>3 DEF RunsOn, NoneRetry
    <2> QED  BY <1>3, <1>6, <2>2, <2>4 DEF n
  <1> QED  BY <1>1, <1>7, <1>8

LEMMA ModeFailEases ==
    ASSUME NEW m \in Iface, NEW ctx \in Contexts
    PROVE  ModeFail(m, ctx).list \subseteq m.list /\ NoneRetry(ModeFail(m, ctx))
  <1> DEFINE n == ModeFail(m, ctx)
  <1>1. /\ n.list = m.list \ Waiting(m)
        /\ n.state = [c \in Cmds |-> IF c \in Waiting(m) THEN "FINISHED"
                                     ELSE IF c \in Told(m) THEN Mark(m.state[c])
                                     ELSE m.state[c]]
    BY ModeFailIs
  <1> HIDE DEF n
  <1>2. ASSUME NEW c \in n.list  PROVE n.state[c] # "RETRY"
    <2>1. c \in m.list /\ c \in Cmds /\ c \notin Waiting(m)
      BY <1>1 DEF Iface
    <2>2. m.state[c] # "RETRY"
      BY <2>1 DEF Waiting, Waits
    <2>3. Mark(m.state[c]) # "RETRY"
      BY <2>2 DEF Mark
    <2> QED  BY <1>1, <2>1, <2>2, <2>3
  <1> QED  BY <1>1, <1>2 DEF NoneRetry, n

LEMMA TimeoutEases ==
    ASSUME NEW m \in Iface, NEW c \in Cmds, NEW ctx \in Contexts
    PROVE  ProxyTimeout(m, ctx, c).list \subseteq m.list /\ NoneRetry(ProxyTimeout(m, ctx, c))
  <1> DEFINE p == WithRc(m, c, "ETIMEDOUT")
             r == Remove(p, ctx, c)
  <1>1. p \in Iface /\ p.list = m.list
    BY WithRcIs DEF Codes, SameCmds
  <1> HIDE DEF p
  <1>2. r \in Iface /\ r.list = p.list \ {c}
    BY <1>1, RemoveIs
  <1> HIDE DEF r
  <1>3. r.list \subseteq m.list
    BY <1>1, <1>2
  <1> QED  BY <1>2, <1>3, ModeFailEases DEF ProxyTimeout, r, p

(* A command that is refused is tried again: it is the only one whose state *)
(* efx_mcdi_complete_cmd then writes.                                       *)
LEMMA SettledShrinks ==
    ASSUME NEW m \in Iface, NEW c \in Cmds, NEW ctx \in Contexts, NEW code \in Codes
    PROVE  LET n == Settled(m, ctx, c, code)
           IN  /\ n.list \subseteq m.list
               /\ code = "FULL" /\ m.state[c] \notin Cancelled =>
                     n.list = m.list /\ n.state = [m.state EXCEPT ![c] = "RETRY"]
  <1> DEFINE f == FreeDoorbell(m, c)
             e == WithRc(m, c, "EIO")
             g == WithRc(f, c, code)
             y == [f EXCEPT !.state[c] = "RETRY"]
             h == [m EXCEPT !.state[c] = "PROXY", !.proxied[c] = TRUE]
             s == Settle(m, ctx, c, code)
  <1>1. f \in Iface /\ SameCmds(m, f)
    BY FreeDoorbellIs
  <1> HIDE DEF f
  <1>2. "EIO" \in Codes
    BY DEF Codes, Answers
  <1>2a. e \in Iface /\ SameCmds(m, e)
    BY <1>2, WithRcIs
  <1>2b. g \in Iface /\ SameCmds(f, g)
    BY <1>1, WithRcIs
  <1> HIDE DEF e, g
  <1>2c. e.list = m.list /\ g.list = m.list
    BY <1>1, <1>2a, <1>2b DEF SameCmds
  <1>3a. Remove(e, ctx, c) \in Iface /\ Remove(e, ctx, c).list = e.list \ {c}
    BY <1>2a, RemoveIs
  <1>3b. Remove(g, ctx, c).list = g.list \ {c}
    BY <1>2b, RemoveIs
  <1>3. /\ Remove(e, ctx, c) \in Iface /\ Remove(e, ctx, c).list \subseteq m.list
        /\ Remove(g, ctx, c).list \subseteq m.list
    BY <1>2c, <1>3a, <1>3b
  <1>4. ModeFail(Remove(e, ctx, c), ctx).list \subseteq m.list
    BY <1>3, ModeFailEases
  <1>5. h \in Iface /\ h.list = m.list
    BY ZenonT(40), HeldBack
  <1> HIDE DEF h
  <1>6. Arm(h, c).list = m.list
    BY <1>5, ArmIs DEF SameCmds
  <1>7. Unlink(f, c).list \subseteq m.list
    BY <1>1, UnlinkIs DEF SameCmds
  <1>8. y.list = m.list /\ y.state = [m.state EXCEPT ![c] = "RETRY"]
    <2>1. y.state = [f.state EXCEPT ![c] = "RETRY"] /\ y.list = f.list
      BY <1>1, StateNames, SetState
    <2> HIDE DEF y
    <2> QED  BY <1>1, <2>1 DEF SameCmds
  <1> HIDE DEF y
  <1>9. s \in {ModeFail(Remove(e, ctx, c), ctx), Arm(h, c), Unlink(f, c), y, Remove(g, ctx, c)}
    BY DEF Settle, e, g, y, h, f
  <1>10. code = "FULL" /\ m.state[c] \notin Cancelled => s = y
    BY DEF Settle, y, f
  <1>11. s \in Iface /\ m.seq[c] \in Seqs
    BY SettleType DEF Iface
  <1> HIDE DEF s
  <1>12. SameCmds(s, Settled(m, ctx, c, code))
    <2>1. SameCmds(s, [s EXCEPT !.held[m.seq[c]] = NoCmd, !.buf = FALSE])
      BY ZenonT(40), <1>11, FreeMailbox
    <2> QED  BY <2>1 DEF Settled, s
  <1> QED  BY <1>3, <1>4, <1>6, <1>7, <1>8, <1>9, <1>10, <1>12 DEF SameCmds

LEMMA CompleteEases ==
    ASSUME NEW m \in Iface, NEW c \in Cmds, NEW ctx \in Contexts, NEW code \in Codes
    PROVE  LET n == Complete(m, ctx, c, code)
           IN  /\ n \in Iface /\ n.list \subseteq m.list
               /\ code # "FULL" => NoneRetry(n)
               /\ code = "FULL" /\ m.state[c] \notin Cancelled => RunsOn(m) \ {c} \subseteq RunsOn(n)
  <1> DEFINE s == Settled(m, ctx, c, code)
             r == code # "FULL"
             n == Complete(m, ctx, c, code)
  <1>1. s \in Iface /\ n = Advance(s, r) /\ r \in BOOLEAN /\ n \in Iface
    BY SettledType, CompleteIs
  <1>2. /\ s.list \subseteq m.list
        /\ code = "FULL" /\ m.state[c] \notin Cancelled =>
              s.list = m.list /\ s.state = [m.state EXCEPT ![c] = "RETRY"]
    BY SettledShrinks
  <1> HIDE DEF s, n
  <1>3. n.list = s.list /\ RunsOn(s) \subseteq RunsOn(n) /\ (r => NoneRetry(n))
    BY <1>1, AdvanceEases
  <1>4. ASSUME code = "FULL", m.state[c] \notin Cancelled, NEW d \in RunsOn(m) \ {c}
        PROVE  d \in RunsOn(s)
    BY <1>2, <1>4 DEF RunsOn, Iface
  <1> QED  BY <1>1, <1>2, <1>3, <1>4 DEF n

LEMMA CancelEases ==
    ASSUME NEW m \in Iface, NEW c \in Cmds, NEW ctx \in Contexts
    PROVE  Eased(m, CancelCmd(m, ctx, c))
  <1> DEFINE p == WithRc(m, c, "EPIPE")
             r == Remove(p, ctx, c)
             k == Notify(p, ctx, c)
             j == [k EXCEPT !.state[c] = Mark(@)]
  <1>0. m.state \in [Cmds -> States] /\ m.list \in SUBSET Cmds
    BY DEF Iface
  <1>1. p \in Iface /\ SameCmds(m, p)
    BY WithRcIs DEF Codes
  <1> HIDE DEF p
  <1>2. r.list = p.list \ {c} /\ r.state = [p.state EXCEPT ![c] = "FINISHED"]
    BY <1>1, RemoveIs
  <1>3. k \in Iface /\ SameCmds(p, k)
    BY <1>1, NotifyIs
  <1> HIDE DEF r, k
  <1>4. CASE m.state[c] \in {"QUEUED", "RETRY"}
    <2>1. CancelCmd(m, ctx, c) = r
      BY <1>4 DEF CancelCmd, r, p
    <2>2. c \notin RunsOn(m)
      BY <1>4 DEF RunsOn, Running
    <2> QED  BY <1>0, <1>1, <1>2, <2>1, <2>2 DEF Eased, RunsOn, SameCmds
  <1>5. CASE m.state[c] \in {"RUNNING", "PROXY"}
    <2>1. CancelCmd(m, ctx, c) = j
      BY <1>5 DEF CancelCmd, j, k, p
    <2> DEFINE z == Mark(m.state[c])
               i == [k EXCEPT !.state[c] = z]
    <2>2. z \in States /\ (m.state[c] \in Running => z \in Running)
      BY <1>0, <1>5, MarkType DEF Mark, Running
    <2>3. j = i
      BY <1>1, <1>3 DEF Iface, SameCmds
    <2> HIDE DEF z
    <2>4. i.state = [k.state EXCEPT ![c] = z] /\ i.list = k.list
      BY <1>3, <2>2, SetState
    <2> HIDE DEF i, j
    <2> QED  BY <1>0, <1>1, <1>3, <2>1, <2>2, <2>3, <2>4 DEF Eased, RunsOn, SameCmds
  <1>6. CASE m.state[c] \notin {"QUEUED", "RETRY", "RUNNING", "PROXY"}
    <2>1. CancelCmd(m, ctx, c) = m
      BY <1>6 DEF CancelCmd
    <2> QED  BY <2>1 DEF Eased
  <1> QED  BY <1>4, <1>5, <1>6

(* What the mailbox holds is understood as a refusal only if it is one.     *)
LEMMA RefusalIsOne ==
    \A reply : \A code \in CodesOf(reply) : code = "FULL" => reply = "FULL"
BY DEF CodesOf

(* A command is issued.                                                     *)
LEMMA CallEases ==
    ASSUME mcdi \in Iface, Rest, NEW c \in Cmds, Queue(c) \/ Send(c) \/ SendAndPoll(c)
    PROVE  /\ mcdi'.list \subseteq mcdi.list \cup {c}
           /\ caller' = [caller EXCEPT ![c] = "waiting"] /\ caller[c] = "idle"
           /\ c \notin mcdi.list => RunsOn(mcdi) \subseteq RunsOn(mcdi') \/ NoneRetry(mcdi')
  <1> DEFINE l == Listed(mcdi, c)
             t == Transmit(l, c)
  <1>0. caller' = [caller EXCEPT ![c] = "waiting"] /\ caller[c] = "idle"
    BY DEF Queue, Send, SendAndPoll, MayCall, Goto
  <1>1. l \in Iface /\ l.list = mcdi.list \cup {c} /\ l.state = mcdi.state /\ l.held = mcdi.held
    BY ListedIs DEF SameBox
  <1>2. CanStart(mcdi) => FreeSeqs(l) # {}
    BY <1>1 DEF CanStart, FreeSeqs
  <1> HIDE DEF l
  <1>3. mcdi.state \in [Cmds -> States] /\ mcdi.list \in SUBSET Cmds
    BY DEF Iface
  <1>4. ASSUME NEW n, NEW s, n.list = l.list, n.state = [l.state EXCEPT ![c] = s]
        PROVE  /\ n.list = mcdi.list \cup {c}
               /\ c \notin mcdi.list => RunsOn(mcdi) \subseteq RunsOn(n)
               /\ c \notin mcdi.list => RunsOn(mcdi) \subseteq RunsOn(n) \ {c}
    BY <1>1, <1>3, <1>4 DEF RunsOn
  <1>5. CASE Queue(c)
    <2>1. mcdi' = [l EXCEPT !.state[c] = "QUEUED"]
      BY <1>5 DEF Queue, l
    <2>2. mcdi'.list = l.list /\ mcdi'.state = [l.state EXCEPT ![c] = "QUEUED"]
      BY <1>1, <2>1, SetState, StateNames
    <2>3. mcdi'.list = mcdi.list \cup {c} /\ (c \notin mcdi.list => RunsOn(mcdi) \subseteq RunsOn(mcdi'))
      BY <1>4, <2>2
    <2> QED  BY <1>0, <2>3
  <1>6. CASE Send(c)
    <2>1. mcdi' = Start(l, c) /\ CanStart(mcdi)
      BY <1>6 DEF Send, l
    <2>2. mcdi'.list = l.list /\ mcdi'.state = [l.state EXCEPT ![c] = "RUNNING"]
      BY <1>1, <1>2, <2>1, StartIs
    <2>3. mcdi'.list = mcdi.list \cup {c} /\ (c \notin mcdi.list => RunsOn(mcdi) \subseteq RunsOn(mcdi'))
      BY <1>4, <2>2
    <2> QED  BY <1>0, <2>3
  <1>7. CASE SendAndPoll(c)
    <2>1. PICK reply \in setting.answers :
             mcdi' = Complete([t EXCEPT !.mail.reply = reply], "caller", c, reply)
      BY <1>7 DEF SendAndPoll, t, l
    <2>2. reply \in Answers /\ reply \in Codes /\ "caller" \in Contexts
      BY SettingsKnown DEF Rest, Setting, Codes, Contexts
    <2>3. FreeSeqs(l) # {}
      BY <1>2, <1>7 DEF SendAndPoll
    <2>4. t \in Iface /\ t.list = l.list /\ t.state = [l.state EXCEPT ![c] = "RUNNING"]
      BY <1>1, <2>3, TransmitIs
    <2> HIDE DEF t
    <2> DEFINE u == [t EXCEPT !.mail.reply = reply]
    <2>5. u \in Iface /\ SameCmds(t, u)
      BY <2>2, <2>4, SetReply
    <2>6. mcdi' = Complete(u, "caller", c, reply)
      BY <2>1
    <2> HIDE DEF u
    <2>7. u.list = l.list /\ u.state = [l.state EXCEPT ![c] = "RUNNING"]
      BY <2>4, <2>5 DEF SameCmds
    <2>8. /\ u.list = mcdi.list \cup {c}
          /\ c \notin mcdi.list => RunsOn(mcdi) \subseteq RunsOn(u) \ {c}
      BY <1>4, <2>7
    <2>9. u.state[c] \notin Cancelled
      BY <1>1, <1>3, <2>7 DEF Cancelled
    <2>10. /\ mcdi'.list \subseteq u.list
           /\ reply # "FULL" => NoneRetry(mcdi')
           /\ reply = "FULL" => RunsOn(u) \ {c} \subseteq RunsOn(mcdi')
      BY <2>2, <2>5, <2>6, <2>9, CompleteEases
    <2> QED  BY <1>0, <2>8, <2>10
  <1> QED  BY <1>5, <1>6, <1>7

LEMMA WorkEases ==
    ASSUME mcdi \in Iface, NEW c \in Cmds, WorkStep(c)
    PROVE  /\ mcdi'.list \subseteq mcdi.list
           /\ mcdi.mail.reply # "FULL" => Eased(mcdi, mcdi')
  <1>0. "work" \in Contexts
    BY DEF Contexts
  <1>1. ASSUME NEW m \in Iface, Eased(mcdi, m), mcdi' = Put(m, c)
        PROVE  Eased(mcdi, mcdi')
    BY <1>1, PutIs, EasedThenSame
  <1>2. Eased(mcdi, mcdi)
    BY DEF Eased
  <1>3. ASSUME NEW late \in BOOLEAN, WorkEnter(c, late)  PROVE Eased(mcdi, mcdi')
    <2> DEFINE n == [mcdi EXCEPT !.work[c] = "idle", !.expired[c] = @ \/ late]
    <2>1. mcdi' = n
      BY <1>3 DEF WorkEnter
    <2>2. SameCmds(mcdi, n)
      BY ZenonT(40), Entered
    <2> HIDE DEF n
    <2> QED  BY <2>1, <2>2, SameEased
  <1>4. CASE WorkFinished(c)
    <2>1. Eased(mcdi, mcdi')
      BY <1>1, <1>2, <1>4 DEF WorkFinished
    <2> QED  BY <2>1 DEF Eased
  <1>5. CASE WorkProxyTimeout(c)
    <2> DEFINE m == ProxyTimeout(mcdi, "work", c)
    <2>1. m \in Iface /\ Eased(mcdi, m)
      BY <1>0, ProxyTimeoutType, TimeoutEases DEF Eased
    <2>2. mcdi' = Put(m, c)
      BY <1>5 DEF WorkProxyTimeout
    <2>3. Eased(mcdi, mcdi')
      BY <1>1, <2>1, <2>2
    <2> QED  BY <2>3 DEF Eased
  <1>6. CASE WorkTimeout(c)
    <2> DEFINE b == [mcdi EXCEPT !.buf = FALSE]
               m == ProxyTimeout(b, "work", c)
    <2>1. b \in Iface /\ SameCmds(mcdi, b)
      BY NoBuffer
    <2>2. mcdi' = Put(m, c)
      BY <1>6 DEF WorkTimeout, Timeout
    <2> HIDE DEF b
    <2>3. m \in Iface /\ Eased(mcdi, m)
      BY <1>0, <2>1, ProxyTimeoutType, TimeoutEases DEF Eased, SameCmds
    <2>4. Eased(mcdi, mcdi')
      BY <1>1, <2>2, <2>3
    <2> QED  BY <2>4 DEF Eased
  <1>7. CASE WorkPollAgain(c)
    <2>1. Arm(mcdi, c) \in Iface /\ Eased(mcdi, Arm(mcdi, c))
      BY ArmIs, SameEased
    <2>2. Eased(mcdi, mcdi')
      BY <1>1, <1>7, <2>1 DEF WorkPollAgain
    <2> QED  BY <2>2 DEF Eased
  <1>8. CASE WorkComplete(c)
    <2>1. CodesOf(mcdi.mail.reply) \subseteq Codes
      BY CodesOfReply DEF Iface, Mails
    <2>2. PICK code \in CodesOf(mcdi.mail.reply) :
             \E m \in Noticed(mcdi, code) : mcdi' = Put(Complete(m, "work", c, code), c)
      BY <1>8 DEF WorkComplete
    <2>3. PICK m \in Noticed(mcdi, code) : mcdi' = Put(Complete(m, "work", c, code), c)
      BY <2>2
    <2>4. m \in Iface /\ SameCmds(mcdi, m)
      BY ModePollIs DEF Noticed, SameCmds
    <2> DEFINE n == Complete(m, "work", c, code)
    <2>5. n \in Iface /\ n.list \subseteq m.list /\ (code # "FULL" => NoneRetry(n))
      BY <1>0, <2>1, <2>4, CompleteEases
    <2>6. mcdi' = Put(n, c)
      BY <2>3
    <2> HIDE DEF n
    <2>7. mcdi'.list = n.list
      BY <2>5, <2>6, PutIs DEF SameCmds
    <2>8. code # "FULL" => Eased(mcdi, n)
      BY <2>4, <2>5 DEF Eased, SameCmds
    <2>9. mcdi.mail.reply # "FULL" => Eased(mcdi, mcdi')
      BY <1>1, <2>5, <2>6, <2>8, RefusalIsOne
    <2> QED  BY <2>4, <2>5, <2>7, <2>9 DEF SameCmds
  <1> QED  BY <1>3, <1>4, <1>5, <1>6, <1>7, <1>8 DEF WorkStep, Eased

LEMMA CompletionEases ==
    ASSUME mcdi \in Iface, NEW q \in Seqs, EvCpl(q)
    PROVE  /\ mcdi'.list \subseteq mcdi.list
           /\ mcdi.mail.reply # "FULL" => Eased(mcdi, mcdi')
  <1> DEFINE c == mcdi.held[q]
  <1>0. "rx" \in Contexts /\ c \in Cmds \cup {NoCmd}
    BY DEF Contexts, Iface
  <1>1. CodesOf(mcdi.mail.reply) \subseteq Codes
    BY CodesOfReply DEF Iface, Mails
  <1>2. CASE mcdi' = mcdi
    BY <1>2 DEF Eased
  <1>3. CASE c # NoCmd /\ \E code \in CodesOf(mcdi.mail.reply) : \E m \in Noticed(mcdi, code) :
                mcdi' \in {Complete(m, "rx", c, code), Disarm(Complete(m, "rx", c, code), c)}
    <2>0. c \in Cmds
      BY <1>0, <1>3
    <2> HIDE DEF c
    <2>1. PICK code \in CodesOf(mcdi.mail.reply) : \E m \in Noticed(mcdi, code) :
                mcdi' \in {Complete(m, "rx", c, code), Disarm(Complete(m, "rx", c, code), c)}
      BY <1>3
    <2>2. PICK m \in Noticed(mcdi, code) :
                mcdi' \in {Complete(m, "rx", c, code), Disarm(Complete(m, "rx", c, code), c)}
      BY <2>1
    <2>3. m \in Iface /\ SameCmds(mcdi, m)
      BY ModePollIs DEF Noticed, SameCmds
    <2> DEFINE n == Complete(m, "rx", c, code)
    <2>4. n \in Iface /\ n.list \subseteq m.list /\ (code # "FULL" => NoneRetry(n))
      BY <1>0, <1>1, <2>0, <2>3, CompleteEases
    <2>5. mcdi' \in {n, Disarm(n, c)}
      BY <2>2
    <2> HIDE DEF n
    <2>6. SameCmds(n, mcdi')
      BY <2>0, <2>4, <2>5, DisarmIs DEF SameCmds
    <2>7. code # "FULL" => Eased(mcdi, mcdi')
      BY <2>3, <2>4, <2>6 DEF Eased, SameCmds, NoneRetry
    <2> QED  BY <2>3, <2>4, <2>6, <2>7, RefusalIsOne DEF SameCmds
  <1> QED  BY <1>2, <1>3 DEF EvCpl

(* Each step, where no command is held back.                                *)
LEMMA StepEases ==
    ASSUME Types, Moving, Occupied, "PROXY" \notin setting.answers, [Next]_vars
    PROVE  /\ \A c \in mcdi'.list : c \in mcdi.list \/ caller'[c] # "idle"
           /\ \A c \in Cmds : caller[c] # "idle" => caller'[c] # "idle"
           /\ RetriedNext
  <1>0. mcdi \in Iface /\ Rest /\ awaiting = {} /\ mcdi.list \in SUBSET Cmds /\ caller \in [Cmds -> CallerPcs]
    BY DEF Types, Moving, Rest, Iface
  <1> DEFINE Kept == \A c \in Cmds : caller[c] # "idle" => caller'[c] # "idle"
             Goal == /\ \A c \in mcdi'.list : c \in mcdi.list \/ caller'[c] # "idle"
                     /\ Kept /\ RetriedNext
  <1>1. ASSUME mcdi'.list \subseteq mcdi.list, mcdi.mail.reply # "FULL" => Eased(mcdi, mcdi'), Kept
        PROVE  Goal
    BY <1>1 DEF RetriedNext, Eased, NoneRetry
  <1>2. ASSUME SameCmds(mcdi, mcdi'), Kept
        PROVE  Goal
    BY <1>1, <1>2, SameEased DEF SameCmds
  <1>3. ASSUME NEW c \in Cmds, Queue(c) \/ Send(c) \/ SendAndPoll(c)
        PROVE  Goal
    <2>1. /\ mcdi'.list \subseteq mcdi.list \cup {c}
          /\ caller' = [caller EXCEPT ![c] = "waiting"] /\ caller[c] = "idle"
          /\ c \notin mcdi.list => RunsOn(mcdi) \subseteq RunsOn(mcdi') \/ NoneRetry(mcdi')
      BY <1>0, <1>3, CallEases
    <2>2. c \notin mcdi.list
      BY <2>1 DEF Occupied
    <2> QED  BY <1>0, <2>1, <2>2 DEF RetriedNext, NoneRetry
  <1>4. ASSUME NEW c \in Cmds, Cancel(c)
        PROVE  Goal
    <2>1. Eased(mcdi, mcdi')
      BY <1>0, <1>4, CancelEases DEF Cancel, Contexts, Eased
    <2>2. Kept
      BY <1>0, <1>4 DEF Cancel, Goto
    <2> QED  BY <1>1, <2>1, <2>2 DEF Eased
  <1>5. ASSUME NEW c \in Cmds, WorkStep(c)
        PROVE  Goal
    <2>1. caller' = caller
      BY ZenonT(40), <1>5 DEF WorkStep, WorkEnter, WorkFinished, WorkProxyTimeout, WorkComplete,
                              WorkTimeout, WorkPollAgain, WorkLeaves
    <2> QED  BY <1>0, <1>1, <1>5, <2>1, WorkEases
  <1>6. ASSUME NEW e \in Contexts \X Cmds, ProcessCleanup(e)
        PROVE  SameCmds(mcdi, mcdi') /\ Kept
    <2> DEFINE n == [Put(Called(mcdi, e[2]), e[2]) EXCEPT !.cleanup = @ \ {e}, !.outstanding = @ - 1]
    <2>1. mcdi' = n /\ caller' = caller
      BY <1>6 DEF ProcessCleanup
    <2>2. SameCmds(mcdi, n)
      BY ZenonT(40), <1>0, Cleaned
    <2> HIDE DEF n
    <2> QED  BY <2>1, <2>2
  <1>7. ASSUME McAnswer  PROVE Goal
    <2>1. PICK reply \in setting.answers : mcdi' = [mcdi EXCEPT !.mail.reply = reply]
      BY <1>7 DEF McAnswer
    <2>2. reply \in Answers
      BY <1>0, SettingsKnown DEF Rest, Setting
    <2>3. SameCmds(mcdi, mcdi') /\ Kept
      BY <1>0, <1>7, <2>1, <2>2, SetReply DEF McAnswer
    <2> QED  BY <1>2, <2>3
  <1>8. ASSUME NEW q \in Seqs, EvCpl(q)
        PROVE  Goal
    <2>1. caller' = caller
      BY <1>8 DEF EvCpl
    <2> QED  BY <1>0, <1>1, <1>8, <2>1, CompletionEases
  <1>9. ASSUME NEW c \in Cmds  PROVE ~EvProxyGranted(c) /\ ~EvProxyRefused(c)
    BY <1>0 DEF EvProxyGranted, EvProxyRefused
  <1>10. ASSUME EvDeath \/ StopEvents  PROVE Goal
    <2>1. SameCmds(mcdi, mcdi') /\ Kept
      BY <1>0, <1>10, ModePollIs DEF EvDeath, StopEvents
    <2> QED  BY <1>2, <2>1
  <1>11. ASSUME ModeEvent  PROVE Goal
    <2>1. SameCmds(mcdi, mcdi') /\ Kept
      BY <1>0, <1>11 DEF ModeEvent, Iface, SameCmds
    <2> QED  BY <1>2, <2>1
  <1>12. ASSUME FlrReset  PROVE Goal
    <2>1. mcdi'.list = {} /\ caller' = caller
      BY <1>0, <1>12, FlrIs DEF FlrReset
    <2> QED  BY <1>1, <2>1 DEF Eased, NoneRetry
  <1>13. ASSUME NEW c \in Cmds,
                CallRefused(c) \/ CallBusy(c) \/ CallTimesOut(c) \/ CallCompleted(c) \/ CallTimedOut(c)
         PROVE  SameCmds(mcdi, mcdi') /\ Kept
    BY <1>0, <1>13 DEF CallRefused, CallBusy, CallTimesOut, CallCompleted, CallTimedOut, Goto, Return,
                       SameCmds
  <1>14. ASSUME EventsStart \/ EventsStopped \/ PostReset \/ UNCHANGED vars  PROVE Goal
    <2>1. SameCmds(mcdi, mcdi') /\ Kept
      BY <1>14 DEF EventsStart, EventsStopped, PostReset, vars, SameCmds
    <2> QED  BY <1>2, <2>1
  <1> HIDE DEF Kept, Goal
  <1>15. ASSUME NEW c \in Cmds,
                CallRefused(c) \/ CallBusy(c) \/ CallTimesOut(c) \/ CallCompleted(c) \/ CallTimedOut(c)
         PROVE  Goal
    BY <1>2, <1>13, <1>15
  <1>16. ASSUME NEW e \in Contexts \X Cmds, ProcessCleanup(e)
         PROVE  Goal
    BY <1>2, <1>6, <1>16
  <1>17. Goal
    BY <1>3, <1>4, <1>5, <1>7, <1>8, <1>9, <1>10, <1>11, <1>12, <1>14, <1>15, <1>16
       DEF Next, CallerStep, EventStep
  <1> QED  BY <1>17 DEF Kept, Goal

(* Whoever frees the mailbox starts what is QUEUED, and whoever ends a      *)
(* running command otherwise than by a refusal what was refused before, for *)
(* any number of commands and of sequence numbers, however completion by    *)
(* work items and by events, timeout, cancellation and reset interleave.    *)
THEOREM QueueMovesOn == Spec => NoLostWakeup
  <1>1. Init => Occupied
    BY DEF Init, Occupied
  <1>2. Types /\ Moving /\ Occupied /\ [Next]_vars => Occupied' /\ [RetriedNext]_vars
    <2> SUFFICES ASSUME Types, Moving, Occupied, [Next]_vars  PROVE Occupied' /\ [RetriedNext]_vars
      OBVIOUS
    <2>1. CASE "PROXY" \in setting.answers
      <3>1. setting' = setting
        BY SettingKept
      <3> QED  BY <2>1, <3>1 DEF Occupied, RetriedNext
    <2>2. CASE "PROXY" \notin setting.answers
      <3>1. /\ \A c \in mcdi'.list : c \in mcdi.list \/ caller'[c] # "idle"
            /\ \A c \in Cmds : caller[c] # "idle" => caller'[c] # "idle"
            /\ RetriedNext
        BY <2>2, StepEases
      <3>2. mcdi.list \subseteq Cmds
        BY DEF Types, Iface
      <3> QED  BY <2>2, <3>1, <3>2 DEF Occupied
    <2> QED  BY <2>1, <2>2
  <1> QED  BY <1>1, <1>2, QueuedMoves, PTL DEF Spec, NoLostWakeup

---------------------------------------------------------------------------
(* The references of a command: the surplus over those that the list, an    *)
(* armed work item and the cleanup lists stand for                          *)

Flag(b)       == IF b THEN 1 ELSE 0
Lists(m, c)   == {x \in Contexts : <<x, c>> \in m.cleanup}
Surplus(m, c) == m.ref[c] - Flag(c \in m.list) - Flag(m.work[c] = "armed")
                          - Cardinality(Lists(m, c))
Unlisted(m)   == m.outstanding - Cardinality(m.cleanup)

(* The books balance after a step if they did before.                       *)
Conserved(m, n) == /\ \A d \in Cmds : Surplus(n, d) = Surplus(m, d)
                   /\ Unlisted(n) = Unlisted(m)

LEMMA ListsFinite ==
    ASSUME NEW m \in Iface
    PROVE  /\ IsFiniteSet(m.cleanup) /\ Cardinality(m.cleanup) \in Nat
           /\ \A c \in Cmds : IsFiniteSet(Lists(m, c)) /\ Cardinality(Lists(m, c)) \in Nat
  <1>1. IsFiniteSet({"caller"}) /\ IsFiniteSet({"caller"} \cup {"work"})
    BY FS_Singleton, FS_AddElement
  <1>2. IsFiniteSet(({"caller"} \cup {"work"}) \cup {"rx"})
    BY <1>1, FS_AddElement
  <1>3. IsFiniteSet((({"caller"} \cup {"work"}) \cup {"rx"}) \cup {"reset"})
    BY <1>2, FS_AddElement
  <1>4. (({"caller"} \cup {"work"}) \cup {"rx"}) \cup {"reset"} = Contexts
    BY DEF Contexts
  <1>5. IsFiniteSet(Contexts)
    BY <1>3, <1>4
  <1>6. IsFiniteSet(Contexts \X Cmds)
    BY <1>5, CmdsFinite, FS_Product
  <1>7. m.cleanup \in SUBSET (Contexts \X Cmds)
    BY DEF Iface
  <1>8. IsFiniteSet(m.cleanup)
    BY <1>6, <1>7, FS_Subset
  <1>9. ASSUME NEW c \in Cmds  PROVE IsFiniteSet(Lists(m, c))
    <2>1. Lists(m, c) \in SUBSET Contexts
      BY DEF Lists
    <2> QED  BY <1>5, <2>1, FS_Subset
  <1> QED  BY <1>8, <1>9, FS_CardinalityType

LEMMA Numbers ==
    ASSUME NEW m \in Iface, NEW c \in Cmds
    PROVE  /\ m.ref[c] \in Int /\ Flag(c \in m.list) \in Int /\ Flag(m.work[c] = "armed") \in Int
           /\ Cardinality(Lists(m, c)) \in Int /\ Surplus(m, c) \in Int
           /\ m.outstanding \in Int /\ Cardinality(m.cleanup) \in Int /\ Unlisted(m) \in Int
  <1>1. /\ m.ref[c] \in Int /\ m.outstanding \in Int
    BY DEF Iface
  <1>2. Flag(c \in m.list) \in Int /\ Flag(m.work[c] = "armed") \in Int
    BY DEF Flag
  <1>3. Cardinality(Lists(m, c)) \in Int /\ Cardinality(m.cleanup) \in Int
    BY ListsFinite
  <1> QED  BY <1>1, <1>2, <1>3 DEF Surplus, Unlisted

LEMMA SameBooks ==
    ASSUME NEW m \in Iface, NEW n \in Iface, n.ref = m.ref, n.list = m.list, n.work = m.work,
           n.cleanup = m.cleanup, n.outstanding = m.outstanding
    PROVE  Conserved(m, n)
BY DEF Conserved, Surplus, Unlisted, Lists

LEMMA ConservedTwice ==
    ASSUME NEW m, NEW n, NEW k, Conserved(m, n), Conserved(n, k)
    PROVE  Conserved(m, k)
BY DEF Conserved

(* A command gets on a cleanup list.                                        *)
LEMMA OneMore ==
    ASSUME NEW m \in Iface, NEW n \in Iface, NEW c \in Cmds, NEW ctx \in Contexts,
           ctx \notin Lists(m, c), n.cleanup = m.cleanup \cup {<<ctx, c>>}
    PROVE  /\ Cardinality(n.cleanup) = Cardinality(m.cleanup) + 1
           /\ Lists(n, c) = Lists(m, c) \cup {ctx}
           /\ Cardinality(Lists(n, c)) = Cardinality(Lists(m, c)) + 1
           /\ \A d \in Cmds : d # c => Lists(n, d) = Lists(m, d)
  <1>1. <<ctx, c>> \notin m.cleanup
    BY DEF Lists
  <1>2. Cardinality(n.cleanup) = Cardinality(m.cleanup) + 1
    BY <1>1, ListsFinite, FS_AddElement
  <1>3. Lists(n, c) = Lists(m, c) \cup {ctx}
    BY DEF Lists
  <1>4. Cardinality(Lists(n, c)) = Cardinality(Lists(m, c)) + 1
    BY <1>3, ListsFinite, FS_AddElement
  <1>5. \A d \in Cmds : d # c => Lists(n, d) = Lists(m, d)
    BY DEF Lists
  <1> QED  BY <1>2, <1>3, <1>4, <1>5

LEMMA ArmBooks ==
    ASSUME NEW m \in Iface, NEW c \in Cmds, m.work[c] = "idle"
    PROVE  Conserved(m, Arm(m, c))
  <1> DEFINE n == Arm(m, c)
  <1>1. /\ n \in Iface
        /\ n.ref = [m.ref EXCEPT ![c] = @ + 1]
        /\ n.work = [m.work EXCEPT ![c] = "armed"]
        /\ SameCmds(m, n) /\ SameCleanup(m, n)
    BY ArmIs
  <1> HIDE DEF n
  <1>2. m.ref \in [Cmds -> Int] /\ m.work \in [Cmds -> {"idle", "armed"}]
    BY DEF Iface
  <1>3. ASSUME NEW d \in Cmds  PROVE Surplus(n, d) = Surplus(m, d)
    <2>1. Lists(n, d) = Lists(m, d) /\ n.list = m.list
      BY <1>1 DEF Lists, SameCmds, SameCleanup
    <2>2. n.ref[d] = m.ref[d] + Flag(d = c)
      BY <1>1, <1>2 DEF Flag
    <2>3. Flag(n.work[d] = "armed") = Flag(m.work[d] = "armed") + Flag(d = c)
      BY <1>1, <1>2 DEF Flag
    <2>4. Flag(d = c) \in Int
      BY DEF Flag
    <2> QED  BY <2>1, <2>2, <2>3, <2>4, Numbers DEF Surplus
  <1>4. Unlisted(n) = Unlisted(m)
    BY <1>1 DEF Unlisted, SameCleanup
  <1> QED  BY <1>3, <1>4 DEF Conserved, n

LEMMA StartBooks ==
    ASSUME NEW m \in Iface, NEW c \in Cmds, FreeSeqs(m) # {}, m.work[c] = "idle"
    PROVE  Conserved(m, Start(m, c))
  <1> DEFINE t == Transmit(m, c)
  <1>1. /\ t \in Iface /\ t.list = m.list /\ t.ref = m.ref /\ t.work = m.work
        /\ SameCleanup(m, t)
    BY TransmitIs
  <1> HIDE DEF t
  <1>2. Conserved(m, t)
    BY <1>1, SameBooks DEF SameCleanup
  <1>3. Conserved(t, Arm(t, c))
    BY <1>1, ArmBooks
  <1> QED  BY <1>2, <1>3, ConservedTwice DEF Start, t

(* efx_mcdi_start_or_queue takes a reference for the work item it arms.     *)
LEMMA AdvanceBooks ==
    ASSUME NEW m \in Iface, NEW retry \in BOOLEAN,
           \A c \in Ready(m, retry) : m.work[c] = "idle"
    PROVE  Conserved(m, Advance(m, retry))
  <1> DEFINE S == Ready(m, retry)
             q == Requeue(m, S)
             n == Advance(m, retry)
  <1>1. S \in SUBSET Cmds
    BY DEF Ready, Iface
  <1>2. q \in Iface /\ SameCleanup(m, q) /\ q.list = m.list /\ q.ref = m.ref /\ q.work = m.work
    BY <1>1, RequeueIs
  <1>3. /\ S # {} /\ CanStart(m) => \E c \in S : n = Start(q, c) /\ FreeSeqs(q) # {}
        /\ ~(S # {} /\ CanStart(m)) => n = q
    BY AdvanceIs
  <1>4. \A c \in S : m.work[c] = "idle"
    OBVIOUS
  <1> HIDE DEF S, q, n
  <1>5. Conserved(m, q)
    BY <1>2, SameBooks DEF SameCleanup
  <1>6. CASE S # {} /\ CanStart(m)
    <2>1. PICK c \in S : n = Start(q, c) /\ FreeSeqs(q) # {}
      BY <1>3, <1>6
    <2>2. c \in Cmds /\ q.work[c] = "idle"
      BY <1>1, <1>2, <1>4
    <2>3. Conserved(q, n)
      BY <1>2, <2>1, <2>2, StartBooks
    <2> QED  BY <1>5, <2>3, ConservedTwice DEF n
  <1>7. CASE ~(S # {} /\ CanStart(m))
    BY <1>3, <1>5, <1>7 DEF n
  <1> QED  BY <1>6, <1>7

LEMMA UnlinkBooks ==
    ASSUME NEW m \in Iface, NEW c \in Cmds, c \in m.list
    PROVE  Conserved(m, Unlink(m, c))
  <1> DEFINE n == Unlink(m, c)
  <1>1. /\ n \in Iface
        /\ n.list = m.list \ {c} /\ n.ref = [m.ref EXCEPT ![c] = @ - 1]
        /\ SameCleanup(m, n) /\ n.work = m.work
    BY UnlinkIs
  <1> HIDE DEF n
  <1>2. m.ref \in [Cmds -> Int]
    BY DEF Iface
  <1>3. ASSUME NEW d \in Cmds  PROVE Surplus(n, d) = Surplus(m, d)
    <2>1. Lists(n, d) = Lists(m, d)
      BY <1>1 DEF Lists, SameCleanup
    <2>2. n.ref[d] = m.ref[d] - Flag(d = c)
      BY <1>1, <1>2 DEF Flag
    <2>3. Flag(d \in n.list) = Flag(d \in m.list) - Flag(d = c)
      BY <1>1 DEF Flag
    <2>4. Flag(d = c) \in Int
      BY DEF Flag
    <2> QED  BY <1>1, <2>1, <2>2, <2>3, <2>4, Numbers DEF Surplus
  <1>4. Unlisted(n) = Unlisted(m)
    BY <1>1 DEF Unlisted, SameCleanup
  <1> QED  BY <1>3, <1>4 DEF Conserved, n

(* Whom the end of a command is told: nobody, its completer, or a cleanup   *)
(* list.                                                                    *)
LEMMA NotifyTells ==
    ASSUME NEW m \in Iface, NEW c \in Cmds, NEW ctx \in Contexts, ctx \notin Lists(m, c)
    PROVE  LET n == Notify(m, ctx, c)
           IN  /\ n \in Iface /\ Conserved(m, n)
               /\ \A d \in Cmds : d # c => Lists(n, d) = Lists(m, d) /\ n.called[d] = m.called[d]
               /\ m.state[c] \in Cancelled => Lists(n, c) = Lists(m, c) /\ n.called[c] = m.called[c]
               /\ m.state[c] \notin Cancelled /\ c \in Atomic =>
                     Lists(n, c) = Lists(m, c) /\ n.called[c] = m.called[c] + 1
               /\ m.state[c] \notin Cancelled /\ c \notin Atomic =>
                     Lists(n, c) = Lists(m, c) \cup {ctx} /\ n.called[c] = m.called[c]
  <1> DEFINE n == Notify(m, ctx, c)
  <1>0. m.called \in [Cmds -> Nat] /\ m.ref \in [Cmds -> Int]
    BY DEF Iface
  <1>1. CASE m.state[c] \in Cancelled
    <2>1. n = m
      BY <1>1 DEF Notify
    <2> QED  BY <1>1, <2>1, SameBooks
  <1>2. CASE m.state[c] \notin Cancelled /\ c \in Atomic
    <2> DEFINE k == Called(m, c)
    <2>1. /\ k \in Iface
          /\ k.called = [m.called EXCEPT ![c] = @ + 1]
          /\ SameCmds(m, k) /\ k.ref = m.ref /\ k.work = m.work
          /\ k.cleanup = m.cleanup /\ k.outstanding = m.outstanding
      BY CalledIs
    <2>2. n = k
      BY <1>2 DEF Notify
    <2> HIDE DEF k, n
    <2>3. Conserved(m, k)
      BY <2>1, SameBooks DEF SameCmds
    <2>4. \A d \in Cmds : /\ Lists(k, d) = Lists(m, d)
                          /\ k.called[d] = IF d = c THEN m.called[d] + 1 ELSE m.called[d]
      BY <1>0, <2>1 DEF Lists
    <2> QED  BY <1>2, <2>1, <2>2, <2>3, <2>4 DEF n
  <1>3. CASE m.state[c] \notin Cancelled /\ c \notin Atomic
    <2> DEFINE k == [Get(m, c) EXCEPT !.cleanup = @ \cup {<<ctx, c>>}, !.outstanding = @ + 1]
    <2>1. /\ k \in Iface
          /\ k.cleanup = m.cleanup \cup {<<ctx, c>>} /\ k.outstanding = m.outstanding + 1
          /\ k.ref = [m.ref EXCEPT ![c] = @ + 1]
          /\ SameCmds(m, k) /\ k.work = m.work /\ k.called = m.called
      BY ZenonT(40), ListedForCleanup
    <2>2. n = k
      BY <1>3 DEF Notify
    <2> HIDE DEF k, n
    <2>3. k \in Iface /\ k.cleanup = m.cleanup \cup {<<ctx, c>>}
      BY <2>1
    <2>3a. Cardinality(k.cleanup) = Cardinality(m.cleanup) + 1
      BY <2>3, OneMore
    <2>3b. Lists(k, c) = Lists(m, c) \cup {ctx}
      BY <2>3, OneMore
    <2>3c. Cardinality(Lists(k, c)) = Cardinality(Lists(m, c)) + 1
      BY <2>3, OneMore
    <2>3d. \A d \in Cmds : d # c => Lists(k, d) = Lists(m, d)
      BY <2>3, OneMore
    <2>4. ASSUME NEW d \in Cmds  PROVE Surplus(k, d) = Surplus(m, d)
      <3>1. k.ref[d] = m.ref[d] + Flag(d = c)
        BY <1>0, <2>1 DEF Flag
      <3>2. Cardinality(Lists(k, d)) = Cardinality(Lists(m, d)) + Flag(d = c)
        <4>1. CASE d = c
          BY <2>3c, <4>1, ListsFinite DEF Flag
        <4>2. CASE d # c
          BY <2>3d, <4>2, ListsFinite DEF Flag
        <4> QED  BY <4>1, <4>2
      <3>3. k.list = m.list /\ Flag(d = c) \in Int
        BY <2>1 DEF SameCmds, Flag
      <3> QED  BY <2>1, <3>1, <3>2, <3>3, Numbers DEF Surplus
    <2>5. Unlisted(k) = Unlisted(m)
      BY <2>1, <2>3a, Numbers DEF Unlisted
    <2> QED  BY <1>3, <2>1, <2>2, <2>3b, <2>3d, <2>4, <2>5 DEF n, Conserved
  <1> QED  BY <1>1, <1>2, <1>3

LEMMA RemoveBooks ==
    ASSUME NEW m \in Iface, NEW c \in Cmds, NEW ctx \in Contexts,
           c \in m.list, ctx \notin Lists(m, c)
    PROVE  LET n == Remove(m, ctx, c)
           IN  /\ Conserved(m, n)
               /\ \A d \in Cmds : d # c => Lists(n, d) = Lists(m, d) /\ n.called[d] = m.called[d]
               /\ m.state[c] \notin Cancelled => Lists(n, c) # {} \/ n.called[c] > 0
               /\ n.called[c] + Cardinality(Lists(n, c)) =
                     m.called[c] + Cardinality(Lists(m, c))
                                 + (IF m.state[c] \in Cancelled THEN 0 ELSE 1)
  <1> DEFINE k == Notify(m, ctx, c)
             u == Unlink(k, c)
             n == [u EXCEPT !.state[c] = "FINISHED"]
  <1>1. k \in Iface /\ SameCmds(m, k) /\ k.work = m.work
    BY NotifyIs
  <1>2. /\ Conserved(m, k)
        /\ \A d \in Cmds : d # c => Lists(k, d) = Lists(m, d) /\ k.called[d] = m.called[d]
        /\ m.state[c] \in Cancelled => Lists(k, c) = Lists(m, c) /\ k.called[c] = m.called[c]
        /\ m.state[c] \notin Cancelled /\ c \in Atomic =>
              Lists(k, c) = Lists(m, c) /\ k.called[c] = m.called[c] + 1
        /\ m.state[c] \notin Cancelled /\ c \notin Atomic =>
              Lists(k, c) = Lists(m, c) \cup {ctx} /\ k.called[c] = m.called[c]
    BY NotifyTells
  <1> HIDE DEF k
  <1>3. u \in Iface /\ SameCleanup(k, u) /\ Conserved(k, u)
    BY <1>1, UnlinkIs, UnlinkBooks DEF SameCmds
  <1> HIDE DEF u
  <1>4. n \in Iface /\ SameCleanup(u, n) /\ n.list = u.list /\ n.ref = u.ref /\ n.work = u.work
    BY <1>3, SetState, StateNames
  <1> HIDE DEF n
  <1>5. Conserved(u, n)
    BY <1>3, <1>4, SameBooks DEF SameCleanup
  <1>6. Conserved(m, n)
    BY <1>2, <1>3, <1>5, ConservedTwice
  <1>7. n.cleanup = k.cleanup /\ n.called = k.called
    BY <1>3, <1>4 DEF SameCleanup
  <1>8. \A d \in Cmds : Lists(n, d) = Lists(k, d)
    BY <1>7 DEF Lists
  <1>9. m.called[c] \in Nat
    BY DEF Iface
  <1>10. m.state[c] \notin Cancelled => Lists(n, c) # {} \/ n.called[c] > 0
    BY <1>2, <1>7, <1>8, <1>9
  <1>11. n.called[c] + Cardinality(Lists(n, c)) =
            m.called[c] + Cardinality(Lists(m, c)) + (IF m.state[c] \in Cancelled THEN 0 ELSE 1)
    <2>1. Lists(n, c) = Lists(k, c) /\ n.called[c] = k.called[c]
      BY <1>7, <1>8
    <2>2. Cardinality(Lists(m, c)) \in Nat
      BY ListsFinite
    <2>3. CASE m.state[c] \in Cancelled
      BY <1>2, <1>9, <2>1, <2>2, <2>3
    <2>4. CASE m.state[c] \notin Cancelled /\ c \in Atomic
      BY <1>2, <1>9, <2>1, <2>2, <2>4
    <2>5. CASE m.state[c] \notin Cancelled /\ c \notin Atomic
      <3>1. Lists(k, c) = Lists(m, c) \cup {ctx} /\ k.called[c] = m.called[c]
        BY <1>2, <2>5
      <3>2. Cardinality(Lists(k, c)) = Cardinality(Lists(m, c)) + 1
        BY <3>1, ListsFinite, FS_AddElement
      <3> QED  BY <1>9, <2>1, <2>2, <2>5, <3>1, <3>2
    <2> QED  BY <2>3, <2>4, <2>5
  <1>12. n = Remove(m, ctx, c)
    BY DEF Remove, n, u, k
  <1> QED  BY <1>2, <1>6, <1>7, <1>8, <1>10, <1>11, <1>12

(* efx_mcdi_mode_fail adds those that are told to its cleanup list.         *)
LEMMA ManyMore ==
    ASSUME NEW m \in Iface, NEW L \in SUBSET Cmds, NEW ctx \in Contexts,
           \A c \in L : ctx \notin Lists(m, c)
    PROVE  Cardinality(m.cleanup \cup ({ctx} \X L)) = Cardinality(m.cleanup) + Cardinality(L)
  <1> DEFINE E == {ctx} \X L
  <1>1. IsFiniteSet(L) /\ Cardinality(L) \in Nat
    BY CmdsFinite, FS_Subset, FS_CardinalityType
  <1>2. IsFiniteSet(E) /\ Cardinality(E) = 1 * Cardinality(L)
    <2>1. IsFiniteSet({ctx}) /\ Cardinality({ctx}) = 1
      BY FS_Singleton
    <2> QED  BY <1>1, <2>1, FS_Product
  <1>3. m.cleanup \cap E = {}
    BY DEF Lists
  <1> HIDE DEF E
  <1>4. Cardinality(E) = Cardinality(L)
    BY <1>1, <1>2
  <1>5. Cardinality(m.cleanup \cap E) = 0
    BY <1>3, FS_EmptySet
  <1>6. Cardinality(m.cleanup \cup E) = Cardinality(m.cleanup) + Cardinality(E) - Cardinality(m.cleanup \cap E)
    BY <1>2, ListsFinite, FS_Union
  <1>7. Cardinality(m.cleanup \cup E) = Cardinality(m.cleanup) + Cardinality(L)
    BY <1>1, <1>4, <1>5, <1>6, ListsFinite
  <1> QED  BY <1>7 DEF E

LEMMA ModeFailBooks ==
    ASSUME NEW m \in Iface, NEW ctx \in Contexts, \A c \in m.list : ctx \notin Lists(m, c)
    PROVE  LET n == ModeFail(m, ctx)
           IN  /\ Conserved(m, n)
               /\ \A c \in Cmds :
                     /\ c \notin m.list => Lists(n, c) = Lists(m, c) /\ n.called[c] = m.called[c]
                     /\ c \in Told(m) =>
                           /\ Lists(n, c) # {} \/ n.called[c] > 0
                           /\ n.called[c] + Cardinality(Lists(n, c)) =
                                 m.called[c] + Cardinality(Lists(m, c)) + 1
  <1> DEFINE n == ModeFail(m, ctx)
             L == ToldLater(m)
             W == Waiting(m)
  <1>1. /\ n \in Iface
        /\ n.list = m.list \ W
        /\ n.cleanup = m.cleanup \cup {<<ctx, c>> : c \in L}
        /\ n.outstanding = m.outstanding + Cardinality(L)
        /\ n.ref = [c \in Cmds |-> m.ref[c] + (IF c \in L THEN 1 ELSE 0)
                                            - (IF c \in W THEN 1 ELSE 0)]
        /\ n.called = [c \in Cmds |-> IF c \in Told(m) \cap Atomic THEN m.called[c] + 1
                                      ELSE m.called[c]]
        /\ n.work = m.work
    BY ModeFailIs
  <1>2. /\ L \subseteq m.list /\ W \subseteq m.list /\ m.list \in SUBSET Cmds
        /\ L = Told(m) \ Atomic /\ Told(m) \subseteq m.list
    BY DEF ToldLater, Told, Waiting, Iface
  <1>3. m.ref \in [Cmds -> Int] /\ m.called \in [Cmds -> Nat]
    BY DEF Iface
  <1> HIDE DEF n, L, W
  <1>4. L \in SUBSET Cmds /\ \A c \in L : ctx \notin Lists(m, c)
    BY <1>2
  <1>5. n.cleanup = m.cleanup \cup ({ctx} \X L)
    <2>1. {<<ctx, c>> : c \in L} = {ctx} \X L
      OBVIOUS
    <2> QED  BY <1>1, <2>1
  <1>5a. Cardinality(n.cleanup) = Cardinality(m.cleanup) + Cardinality(L)
    <2>1. Cardinality(m.cleanup \cup ({ctx} \X L)) = Cardinality(m.cleanup) + Cardinality(L)
      BY <1>4, ManyMore
    <2> QED  BY <1>5, <2>1, Zenon
  <1>5b. ASSUME NEW c \in Cmds
         PROVE  /\ c \in L => /\ ctx \in Lists(n, c)
                              /\ Cardinality(Lists(n, c)) = Cardinality(Lists(m, c)) + 1
                /\ c \notin L => Lists(n, c) = Lists(m, c)
    <2>1. CASE c \in L
      <3>1. Lists(n, c) = Lists(m, c) \cup {ctx}
        BY <1>5, <2>1 DEF Lists
      <3>2. ctx \notin Lists(m, c)
        BY <1>4, <2>1
      <3> QED  BY <2>1, <3>1, <3>2, ListsFinite, FS_AddElement
    <2>2. CASE c \notin L
      BY <1>5, <2>2 DEF Lists
    <2> QED  BY <2>1, <2>2
  <1>6. ASSUME NEW d \in Cmds  PROVE Surplus(n, d) = Surplus(m, d)
    <2>1. n.ref[d] = m.ref[d] + Flag(d \in L) - Flag(d \in W)
      BY <1>1 DEF Flag
    <2>2. Flag(d \in n.list) = Flag(d \in m.list) - Flag(d \in W)
      BY <1>1, <1>2 DEF Flag
    <2>3. Flag(d \in L) \in Int /\ Flag(d \in W) \in Int
      BY DEF Flag
    <2>4. Cardinality(Lists(n, d)) = Cardinality(Lists(m, d)) + Flag(d \in L)
      BY <1>5b, ListsFinite DEF Flag
    <2> QED  BY <1>1, <2>1, <2>2, <2>3, <2>4, Numbers DEF Surplus
  <1>7. Unlisted(n) = Unlisted(m)
    <2>1. Cardinality(L) \in Nat /\ Cardinality(m.cleanup) \in Nat /\ m.outstanding \in Int
      BY ToldFinite, ListsFinite DEF L, Iface
    <2> QED  BY <1>1, <1>5a, <2>1 DEF Unlisted
  <1>8. ASSUME NEW c \in Cmds, c \notin m.list
        PROVE  Lists(n, c) = Lists(m, c) /\ n.called[c] = m.called[c]
    BY <1>1, <1>2, <1>5b, <1>8
  <1>9. ASSUME NEW c \in Cmds, c \in Told(m)
        PROVE  /\ Lists(n, c) # {} \/ n.called[c] > 0
               /\ n.called[c] + Cardinality(Lists(n, c)) = m.called[c] + Cardinality(Lists(m, c)) + 1
    <2>0. Cardinality(Lists(m, c)) \in Nat /\ m.called[c] \in Nat
      BY <1>3, ListsFinite
    <2>1. CASE c \in Atomic
      <3>1. n.called[c] = m.called[c] + 1 /\ c \notin L
        BY <1>1, <1>2, <1>9, <2>1
      <3> QED  BY <1>5b, <2>0, <3>1
    <2>2. CASE c \notin Atomic
      <3>1. n.called[c] = m.called[c] /\ c \in L
        BY <1>1, <1>2, <1>9, <2>2
      <3> QED  BY <1>5b, <2>0, <3>1
    <2> QED  BY <2>1, <2>2
  <1> QED  BY <1>6, <1>7, <1>8, <1>9 DEF Conserved, n

---------------------------------------------------------------------------
(* Where a command can be while no event queue is started: at rest, that is *)
(* waiting in the queue or done with, or at work with the doorbell its own  *)

GivenUp == {"cancelled", "returned"}

(* A command that was not issued is untouched, and a caller that waits does *)
(* not wait in vain.                                                        *)
Issued(m, cal, d) ==
    /\ cal[d] = "idle" => d \notin m.list /\ Lists(m, d) = {} /\ m.called[d] = 0
    /\ cal[d] = "waiting" => d \in m.list \/ Lists(m, d) # {} \/ m.called[d] > 0

Resting(m, run, cal, d) ==
    /\ d \in m.list => Waits(m.state[d]) /\ Lists(m, d) = {}
    /\ m.work[d] = "idle" /\ ~run[d]
    /\ Issued(m, cal, d)

Working(m, run, cal, d) ==
    /\ d \in m.list /\ m.db = d /\ cal[d] # "idle"
    /\ m.state[d] \in Running \cup {"PROXY", "PROXY_CANCELLED"}
    /\ m.state[d] \in Running => m.buf /\ m.mail.cmd = d
    /\ m.state[d] \in Cancelled => cal[d] \in GivenUp
    /\ Lists(m, d) \subseteq {"caller"}
    /\ Lists(m, d) # {} => cal[d] \in GivenUp /\ m.state[d] \in Cancelled \cup {"PROXY"}
    /\ run[d] => m.work[d] = "idle"

Fine(m, run, cal)       == \A d \in Cmds : Resting(m, run, cal, d) \/ Working(m, run, cal, d)
Calm(m, run, cal)       == \A d \in Cmds : Resting(m, run, cal, d)
CalmBut(m, run, cal, c) == \A d \in Cmds : d # c => Resting(m, run, cal, d)
Failing(m)              == /\ m.mode \in {"POLL", "FAIL"}
                           /\ m.mode = "FAIL" => m.list = {}

Agree(m, n, d) == /\ d \in n.list <=> d \in m.list
                  /\ n.state[d] = m.state[d] /\ n.work[d] = m.work[d]
                  /\ Lists(n, d) = Lists(m, d) /\ n.called[d] = m.called[d]

LEMMA StatesDiffer ==
    ASSUME NEW s
    PROVE  Waits(s) => s \notin Running \cup {"PROXY", "PROXY_CANCELLED"} /\ s \notin Cancelled
BY DEF Waits, Running, Cancelled

LEMMA StillResting ==
    ASSUME NEW m, NEW n, NEW run, NEW cal, NEW r, NEW k, NEW d \in Cmds,
           Resting(m, run, cal, d), Agree(m, n, d), r[d] = run[d], k[d] = cal[d]
    PROVE  Resting(n, r, k, d)
BY DEF Resting, Agree, Issued

LEMMA StillWorking ==
    ASSUME NEW m, NEW n, NEW run, NEW cal, NEW r, NEW k, NEW d \in Cmds,
           Working(m, run, cal, d), Agree(m, n, d), r[d] = run[d], k[d] = cal[d],
           n.db = m.db, n.buf = m.buf, n.mail.cmd = m.mail.cmd
    PROVE  Working(n, r, k, d)
BY DEF Working, Agree

(* There is one doorbell.                                                   *)
LEMMA WorksAlone ==
    ASSUME NEW m \in Iface, NEW run, NEW cal, Fine(m, run, cal)
    PROVE  /\ \A c \in Cmds : Working(m, run, cal, c) => CalmBut(m, run, cal, c)
           /\ m.db = NoCmd => Calm(m, run, cal)
  <1>1. \A c, d \in Cmds : Working(m, run, cal, c) /\ Working(m, run, cal, d) => c = d
    BY DEF Working
  <1>2. \A c \in Cmds : Working(m, run, cal, c) => m.db = c
    BY DEF Working
  <1> QED  BY <1>1, <1>2, NoCmdNotCmd DEF Fine, Calm, CalmBut

LEMMA SameAgree ==
    ASSUME NEW m, NEW n, SameCmds(m, n), SameCleanup(m, n), n.work = m.work, NEW d \in Cmds
    PROVE  Agree(m, n, d)
BY DEF Agree, SameCmds, SameCleanup, Lists

(* A command that is removed rests.                                         *)
LEMMA RemovedRests ==
    ASSUME NEW m \in Iface, NEW c \in Cmds, NEW ctx \in Contexts, NEW run, NEW cal,
           c \in m.list, ctx \notin Lists(m, c), m.work[c] = "idle", ~run[c], cal[c] # "idle",
           m.state[c] \in Cancelled => cal[c] \in GivenUp
    PROVE  LET n == Remove(m, ctx, c)
           IN  /\ n \in Iface /\ SameBox(m, n) /\ Conserved(m, n)
               /\ n.list = m.list \ {c}
               /\ Resting(n, run, cal, c)
               /\ \A d \in Cmds : d # c => Agree(m, n, d)
  <1> DEFINE n == Remove(m, ctx, c)
  <1>1. /\ n \in Iface /\ SameBox(m, n)
        /\ n.list = m.list \ {c} /\ n.state = [m.state EXCEPT ![c] = "FINISHED"]
        /\ n.work = m.work
    <2>1. n \in Iface /\ SameBox(m, n) /\ n.work = m.work
      BY ZenonT(40), RemoveIs
    <2>2. n.list = m.list \ {c}
      BY RemoveIs
    <2>3. n.state = [m.state EXCEPT ![c] = "FINISHED"]
      BY RemoveIs
    <2> QED  BY <2>1, <2>2, <2>3
  <1>2. /\ Conserved(m, n)
        /\ \A d \in Cmds : d # c => Lists(n, d) = Lists(m, d) /\ n.called[d] = m.called[d]
        /\ m.state[c] \notin Cancelled => Lists(n, c) # {} \/ n.called[c] > 0
    BY RemoveBooks
  <1> HIDE DEF n
  <1>3. m.state \in [Cmds -> States]
    BY DEF Iface
  <1>4. Resting(n, run, cal, c)
    BY <1>1, <1>2 DEF Resting, Issued, GivenUp
  <1>5. ASSUME NEW d \in Cmds, d # c  PROVE Agree(m, n, d)
    BY <1>1, <1>2, <1>3, <1>5 DEF Agree
  <1> QED  BY <1>1, <1>2, <1>4, <1>5 DEF n

(* efx_mcdi_mode_fail when only commands that wait are left.                *)
LEMMA FailureRests ==
    ASSUME NEW m \in Iface, NEW ctx \in Contexts, NEW run, NEW cal, Calm(m, run, cal)
    PROVE  LET n == ModeFail(m, ctx)
           IN  /\ n \in Iface /\ Conserved(m, n) /\ n.list = {} /\ n.mode = "FAIL"
               /\ Calm(n, run, cal)
  <1> DEFINE n == ModeFail(m, ctx)
  <1>1. /\ n \in Iface /\ n.mode = "FAIL"
        /\ n.list = m.list \ Waiting(m) /\ n.work = m.work
    BY ModeFailIs
  <1>2. m.list \in SUBSET Cmds
    BY DEF Iface
  <1>3. \A d \in m.list : Waits(m.state[d]) /\ Lists(m, d) = {}
    BY <1>2 DEF Calm, Resting
  <1>4. n.list = {}
    BY <1>1, <1>3 DEF Waiting
  <1>5. m.list = Told(m)
    BY <1>2, <1>3, StatesDiffer DEF Told
  <1>6. \A c \in m.list : ctx \notin Lists(m, c)
    BY <1>3
  <1>7. /\ Conserved(m, n)
        /\ \A c \in Cmds :
              /\ c \notin m.list => Lists(n, c) = Lists(m, c) /\ n.called[c] = m.called[c]
              /\ c \in Told(m) => Lists(n, c) # {} \/ n.called[c] > 0
    BY <1>6, ModeFailBooks
  <1> HIDE DEF n
  <1>8. ASSUME NEW d \in Cmds  PROVE Resting(n, run, cal, d)
    <2>1. Resting(m, run, cal, d)
      BY DEF Calm
    <2>2. CASE d \in m.list
      BY <1>1, <1>4, <1>5, <1>7, <2>1, <2>2 DEF Resting, Issued
    <2>3. CASE d \notin m.list
      BY <1>1, <1>4, <1>7, <2>1, <2>3 DEF Resting, Issued
    <2> QED  BY <2>2, <2>3
  <1> QED  BY <1>1, <1>4, <1>7, <1>8 DEF Calm, n

(* efx_mcdi_start_or_queue sets one command to work when none is.           *)
LEMMA AdvanceFine ==
    ASSUME NEW m \in Iface, NEW retry \in BOOLEAN, NEW run, NEW cal,
           Fine(m, run, cal), Failing(m)
    PROVE  LET n == Advance(m, retry)
           IN  /\ n \in Iface /\ n.mode = m.mode /\ Failing(n) /\ Conserved(m, n)
               /\ Fine(n, run, cal)
  <1> DEFINE S == Ready(m, retry)
             q == Requeue(m, S)
             n == Advance(m, retry)
  <1>1. S \in SUBSET Cmds /\ S \subseteq m.list /\ \A c \in S : Waits(m.state[c])
    BY DEF Ready, Waits, Iface
  <1>2. ASSUME NEW c \in S  PROVE Resting(m, run, cal, c)
    <2>1. ~Working(m, run, cal, c)
      BY <1>1, StatesDiffer DEF Working
    <2> QED  BY <1>1, <2>1 DEF Fine
  <1>3. \A c \in S : m.work[c] = "idle"
    BY <1>2 DEF Resting
  <1>4. Conserved(m, n)
    BY <1>3, AdvanceBooks
  <1>5. /\ q \in Iface /\ q.state = [c \in Cmds |-> IF c \in S THEN "QUEUED" ELSE m.state[c]]
        /\ SameBox(m, q) /\ SameCleanup(m, q) /\ q.list = m.list /\ q.work = m.work
    BY <1>1, RequeueIs
  <1>6. /\ S # {} /\ CanStart(m) => \E c \in S : n = Start(q, c) /\ FreeSeqs(q) # {}
        /\ ~(S # {} /\ CanStart(m)) => n = q
        /\ n \in Iface
    BY AdvanceIs
  <1> HIDE DEF S, q, n
  <1>7. ASSUME NEW d \in Cmds, d \notin S  PROVE Agree(m, q, d)
    BY <1>5, <1>7 DEF Agree, Lists, SameCleanup
  <1>8. ASSUME NEW d \in Cmds, d \in S  PROVE Resting(q, run, cal, d)
    BY <1>2, <1>5, <1>8 DEF Resting, Issued, Lists, SameCleanup, Waits
  <1>9. q.db = m.db /\ q.buf = m.buf /\ q.mail = m.mail /\ q.mode = m.mode
    BY <1>5 DEF SameBox
  <1>10. ASSUME NEW d \in Cmds  PROVE Resting(q, run, cal, d) \/ Working(q, run, cal, d)
    <2>1. CASE d \in S
      BY <1>8, <2>1
    <2>2. CASE d \notin S /\ Resting(m, run, cal, d)
      BY <1>7, <2>2, StillResting
    <2>3. CASE d \notin S /\ Working(m, run, cal, d)
      BY <1>7, <1>9, <2>3, StillWorking
    <2> QED  BY <2>1, <2>2, <2>3 DEF Fine
  <1>11. CASE ~(S # {} /\ CanStart(m))
    BY <1>4, <1>5, <1>6, <1>9, <1>10, <1>11 DEF Fine, Failing, n
  <1>12. CASE S # {} /\ CanStart(m)
    <2>1. PICK c \in S : n = Start(q, c) /\ FreeSeqs(q) # {}
      BY <1>6, <1>12
    <2>2. c \in Cmds /\ c \in m.list
      BY <1>1
    <2>3. /\ n.mode = q.mode /\ n.db = c /\ n.buf = TRUE /\ n.mail.cmd = c
          /\ n.state = [q.state EXCEPT ![c] = "RUNNING"] /\ n.list = q.list
          /\ n.work = [q.work EXCEPT ![c] = "armed"] /\ SameCleanup(q, n)
      BY ZenonT(40), <1>5, <2>1, <2>2, StartIs
    <2>4. q.state \in [Cmds -> States] /\ q.work \in [Cmds -> {"idle", "armed"}]
      BY <1>5 DEF Iface
    <2>5. ASSUME NEW d \in Cmds, d # c  PROVE Resting(n, run, cal, d)
      <3>1. Agree(q, n, d)
        BY <2>3, <2>4, <2>5 DEF Agree, Lists, SameCleanup
      <3>2. q.db = NoCmd
        BY <1>9, <1>12 DEF CanStart
      <3>3. ~Working(q, run, cal, d)
        BY <3>2, NoCmdNotCmd DEF Working
      <3>4. Resting(q, run, cal, d)
        BY <1>10, <3>3
      <3> QED  BY <3>1, <3>4, StillResting
    <2>6. Working(n, run, cal, c)
      <3>1. Resting(m, run, cal, c)
        BY <1>2
      <3>2. /\ Lists(m, c) = {} /\ cal[c] # "idle" /\ ~run[c]
        BY <2>2, <3>1 DEF Resting, Issued
      <3>3. Lists(n, c) = {}
        BY <1>5, <2>3, <3>2 DEF Lists, SameCleanup
      <3>4. n.state[c] = "RUNNING" /\ c \in n.list
        BY <1>5, <2>2, <2>3, <2>4
      <3> QED  BY <2>3, <3>2, <3>3, <3>4 DEF Working, Running, Cancelled
    <2>7. m.mode # "FAIL"
      BY <2>2 DEF Failing
    <2> QED  BY <1>4, <1>6, <1>9, <2>3, <2>5, <2>6, <2>7 DEF Fine, Failing, n
  <1> QED  BY <1>11, <1>12

(* A command that times out takes the whole queue with it.                  *)
LEMMA TimeoutFine ==
    ASSUME NEW m \in Iface, NEW c \in Cmds, NEW ctx \in Contexts, NEW code \in Codes, NEW run, NEW cal,
           CalmBut(m, run, cal, c), c \in m.list, cal[c] # "idle",
           m.state[c] \in Cancelled => cal[c] \in GivenUp,
           m.work[c] = "idle", ~run[c], ctx \notin Lists(m, c)
    PROVE  LET n == ModeFail(Remove(WithRc(m, c, code), ctx, c), ctx)
           IN  /\ n \in Iface /\ Failing(n) /\ Conserved(m, n)
               /\ Calm(n, run, cal) /\ Fine(n, run, cal)
  <1> DEFINE w == WithRc(m, c, code)
             r == Remove(w, ctx, c)
             n == ModeFail(r, ctx)
  <1>1. /\ w \in Iface /\ SameCmds(m, w) /\ SameCleanup(m, w) /\ w.ref = m.ref /\ w.work = m.work
    BY WithRcIs
  <1> HIDE DEF w
  <1>2. Conserved(m, w)
    BY <1>1, SameBooks DEF SameCmds, SameCleanup
  <1>3. \A d \in Cmds : Agree(m, w, d)
    BY <1>1, SameAgree
  <1>4. /\ c \in w.list /\ ctx \notin Lists(w, c) /\ w.work[c] = "idle" /\ cal[c] # "idle"
        /\ w.state[c] \in Cancelled => cal[c] \in GivenUp
    BY <1>3 DEF Agree
  <1>5. /\ r \in Iface /\ Conserved(w, r)
        /\ Resting(r, run, cal, c)
        /\ \A d \in Cmds : d # c => Agree(w, r, d)
    BY <1>1, <1>4, RemovedRests
  <1> HIDE DEF r
  <1>6. ASSUME NEW d \in Cmds, d # c  PROVE Resting(r, run, cal, d)
    <2>1. Resting(m, run, cal, d)
      BY <1>6 DEF CalmBut
    <2>2. Resting(w, run, cal, d)
      BY <1>3, <2>1, StillResting
    <2> QED  BY <1>5, <1>6, <2>2, StillResting
  <1>7. Calm(r, run, cal)
    BY <1>5, <1>6 DEF Calm
  <1>8. /\ n \in Iface /\ Conserved(r, n) /\ n.list = {} /\ n.mode = "FAIL" /\ Calm(n, run, cal)
    BY <1>5, <1>7, FailureRests
  <1> HIDE DEF n
  <1>9. Conserved(m, n)
    BY <1>2, <1>5, <1>8, ConservedTwice
  <1>10. Failing(n) /\ Fine(n, run, cal)
    BY <1>8 DEF Failing, Fine, Calm
  <1> QED  BY <1>8, <1>9, <1>10 DEF n, r, w

(* efx_mcdi_complete_cmd leaves at most one command at work: the one that   *)
(* is held back, or the next one.                                           *)
LEMMA SettledFine ==
    ASSUME NEW m \in Iface, NEW c \in Cmds, NEW ctx \in Contexts, NEW code \in Codes, NEW run, NEW cal,
           m.mode = "POLL", CalmBut(m, run, cal, c), Working(m, run, cal, c),
           m.state[c] # "PROXY", m.work[c] = "idle", ~run[c], ctx \notin Lists(m, c)
    PROVE  LET n == Settle(m, ctx, c, code)
           IN  /\ n \in Iface /\ Conserved(m, n) /\ Failing(n)
               /\ \/ Calm(n, run, cal)
                  \/ /\ CalmBut(n, run, cal, c) /\ Working(n, run, cal, c)
                     /\ n.state[c] \notin Running
  <1> DEFINE n == Settle(m, ctx, c, code)
             f == FreeDoorbell(m, c)
  <1>0. n \in Iface
    BY SettleType
  <1>a. m.state \in [Cmds -> States] /\ m.work \in [Cmds -> {"idle", "armed"}]
    BY DEF Iface
  <1>b. /\ f \in Iface /\ f.mode = m.mode
        /\ SameCmds(m, f) /\ SameCleanup(m, f) /\ f.ref = m.ref /\ f.work = m.work
    BY FreeDoorbellIs
  <1>c. n = CASE code = "PROXY" /\ BadProxy(m, c) ->
                    ModeFail(Remove(WithRc(m, c, "EIO"), ctx, c), ctx)
              [] code = "PROXY" /\ ~BadProxy(m, c) ->
                    Arm([m EXCEPT !.state[c] = "PROXY", !.proxied[c] = TRUE], c)
              [] code # "PROXY" /\ m.state[c] \in Cancelled -> Unlink(f, c)
              [] code = "FULL" /\ m.state[c] \notin Cancelled -> [f EXCEPT !.state[c] = "RETRY"]
              [] OTHER -> Remove(WithRc(f, c, code), ctx, c)
    BY DEF Settle
  <1> HIDE DEF n, f
  <1>d. Conserved(m, f)
    BY <1>b, SameBooks DEF SameCmds, SameCleanup
  <1>e. \A d \in Cmds : Agree(m, f, d)
    BY <1>b, SameAgree
  <1>f. \A d \in Cmds : d # c => Resting(f, run, cal, d)
    BY <1>e, StillResting DEF CalmBut
  <1>g. /\ c \in f.list /\ ctx \notin Lists(f, c) /\ f.work[c] = "idle" /\ cal[c] # "idle"
        /\ f.state[c] = m.state[c]
        /\ f.state[c] \in Cancelled => cal[c] \in GivenUp
    BY <1>e DEF Agree, Working
  <1>1. CASE code = "PROXY" /\ BadProxy(m, c)
    <2>1. n = ModeFail(Remove(WithRc(m, c, "EIO"), ctx, c), ctx)
      BY <1>c, <1>1
    <2>2. "EIO" \in Codes
      BY DEF Codes, Answers
    <2>3. /\ c \in m.list /\ cal[c] # "idle"
          /\ m.state[c] \in Cancelled => cal[c] \in GivenUp
      BY DEF Working
    <2>4. Failing(n) /\ Conserved(m, n) /\ Calm(n, run, cal)
      BY <2>1, <2>2, <2>3, TimeoutFine
    <2> QED  BY <1>0, <2>4 DEF n
  <1>2. CASE code = "PROXY" /\ ~BadProxy(m, c)
    <2> DEFINE k == [m EXCEPT !.state[c] = "PROXY", !.proxied[c] = TRUE]
    <2>1. n = Arm(k, c)
      BY <1>c, <1>2
    <2>2. /\ k \in Iface /\ k.state = [m.state EXCEPT ![c] = "PROXY"]
          /\ SameBox(m, k) /\ SameCleanup(m, k)
          /\ k.list = m.list /\ k.ref = m.ref /\ k.work = m.work
      BY HeldBack
    <2> HIDE DEF k
    <2>3. Conserved(m, k) /\ Conserved(k, n)
      BY <2>1, <2>2, SameBooks, ArmBooks DEF SameCleanup
    <2>4. /\ n.work = [k.work EXCEPT ![c] = "armed"]
          /\ SameBox(k, n) /\ SameCmds(k, n) /\ SameCleanup(k, n)
      BY <2>1, <2>2, ArmIs
    <2>5. /\ n.list = m.list /\ n.state = [m.state EXCEPT ![c] = "PROXY"]
          /\ n.work = [m.work EXCEPT ![c] = "armed"]
          /\ n.cleanup = m.cleanup /\ n.called = m.called /\ n.db = m.db /\ n.mode = m.mode
      BY <2>2, <2>4 DEF SameBox, SameCmds, SameCleanup
    <2>6. ASSUME NEW d \in Cmds, d # c  PROVE Resting(n, run, cal, d)
      <3>1. Agree(m, n, d)
        BY <1>a, <2>5, <2>6 DEF Agree, Lists
      <3> QED  BY <2>6, <3>1, StillResting DEF CalmBut
    <2>7. Working(n, run, cal, c) /\ n.state[c] = "PROXY"
      BY <1>a, <2>5 DEF Working, Lists, Running, Cancelled
    <2>8. n.state[c] \notin Running
      BY <2>7 DEF Running
    <2>9. Conserved(m, n)
      BY <2>3, ConservedTwice
    <2>10. CalmBut(n, run, cal, c)
      BY <2>6 DEF CalmBut
    <2>11. Failing(n)
      BY <2>5 DEF Failing
    <2> QED  BY <1>0, <2>7, <2>8, <2>9, <2>10, <2>11 DEF n
  <1>3. CASE code # "PROXY" /\ m.state[c] \in Cancelled
    <2>1. n = Unlink(f, c)
      BY <1>c, <1>3
    <2>2. Conserved(f, n)
      BY <1>b, <1>g, <2>1, UnlinkBooks
    <2>3. /\ n.list = f.list \ {c} /\ SameBox(f, n) /\ SameCleanup(f, n)
          /\ n.state = f.state /\ n.work = f.work
      BY <1>b, <2>1, UnlinkIs
    <2>4. ASSUME NEW d \in Cmds, d # c  PROVE Resting(n, run, cal, d)
      <3>1. Agree(f, n, d)
        BY <2>3, <2>4 DEF Agree, Lists, SameCleanup
      <3> QED  BY <1>f, <2>4, <3>1, StillResting
    <2>5. Resting(n, run, cal, c)
      BY <1>3, <1>g, <2>3 DEF Resting, Issued, GivenUp
    <2>6. Calm(n, run, cal)
      BY <2>4, <2>5 DEF Calm
    <2>7. n.mode = "POLL"
      BY <1>b, <2>3 DEF SameBox
    <2>8. Conserved(m, n)
      BY <1>d, <2>2, ConservedTwice
    <2>9. Failing(n)
      BY <2>7 DEF Failing
    <2> QED  BY <1>0, <2>6, <2>8, <2>9 DEF n
  <1>4. CASE code = "FULL" /\ m.state[c] \notin Cancelled
    <2>1. n = [f EXCEPT !.state[c] = "RETRY"]
      BY <1>c, <1>4
    <2>2. /\ n.state = [f.state EXCEPT ![c] = "RETRY"]
          /\ SameBox(f, n) /\ SameCleanup(f, n)
          /\ n.list = f.list /\ n.ref = f.ref /\ n.work = f.work
      BY <1>b, <2>1, SetState, StateNames
    <2>3. Conserved(f, n)
      BY <1>0, <1>b, <2>2, SameBooks DEF SameCleanup
    <2>4. f.state \in [Cmds -> States]
      BY <1>b DEF Iface
    <2>5. ASSUME NEW d \in Cmds, d # c  PROVE Resting(n, run, cal, d)
      <3>1. Agree(f, n, d)
        BY <2>2, <2>4, <2>5 DEF Agree, Lists, SameCleanup
      <3> QED  BY <1>f, <2>5, <3>1, StillResting
    <2>6. Resting(n, run, cal, c)
      <3>1. Lists(m, c) = {}
        BY <1>4 DEF Working
      <3>2. Lists(n, c) = {}
        BY <1>e, <2>2, <3>1 DEF Agree, Lists, SameCleanup
      <3>3. n.state[c] = "RETRY" /\ c \in n.list /\ n.work[c] = "idle"
        BY <1>g, <2>2, <2>4
      <3> QED  BY <1>g, <3>2, <3>3 DEF Resting, Issued, Waits
    <2>7. Calm(n, run, cal)
      BY <2>5, <2>6 DEF Calm
    <2>8. n.mode = "POLL"
      BY <1>b, <2>2 DEF SameBox
    <2>9. Conserved(m, n)
      BY <1>d, <2>3, ConservedTwice
    <2>10. Failing(n)
      BY <2>8 DEF Failing
    <2> QED  BY <1>0, <2>7, <2>9, <2>10 DEF n
  <1>5. CASE code \notin {"PROXY", "FULL"} /\ m.state[c] \notin Cancelled
    <2> DEFINE w == WithRc(f, c, code)
    <2>1. n = Remove(w, ctx, c)
      BY <1>c, <1>5
    <2>2. /\ w \in Iface /\ SameBox(f, w) /\ SameCmds(f, w) /\ SameCleanup(f, w)
          /\ w.ref = f.ref /\ w.work = f.work
      BY <1>b, WithRcIs
    <2> HIDE DEF w
    <2>3. \A d \in Cmds : Agree(f, w, d)
      BY <2>2, SameAgree
    <2>4. /\ c \in w.list /\ ctx \notin Lists(w, c) /\ w.work[c] = "idle"
          /\ w.state[c] \in Cancelled => cal[c] \in GivenUp
      BY <1>g, <2>3 DEF Agree
    <2>5. /\ SameBox(w, n) /\ Conserved(w, n) /\ Resting(n, run, cal, c)
          /\ \A d \in Cmds : d # c => Agree(w, n, d)
      BY <1>g, <2>1, <2>2, <2>4, RemovedRests
    <2>6. Conserved(f, w)
      BY <1>b, <2>2, SameBooks DEF SameCmds, SameCleanup
    <2>7. ASSUME NEW d \in Cmds, d # c  PROVE Resting(n, run, cal, d)
      <3>1. Resting(w, run, cal, d)
        BY <1>f, <2>3, <2>7, StillResting
      <3> QED  BY <2>5, <2>7, <3>1, StillResting
    <2>8. Calm(n, run, cal)
      BY <2>5, <2>7 DEF Calm
    <2>9. n.mode = "POLL"
      BY <1>b, <2>2, <2>5 DEF SameBox
    <2>10. Conserved(m, n)
      BY <2>5, <2>6, <1>d, ConservedTwice
    <2>11. Failing(n)
      BY <2>9 DEF Failing
    <2> QED  BY <1>0, <2>8, <2>10, <2>11 DEF n
  <1> QED  BY <1>1, <1>2, <1>3, <1>4, <1>5 DEF n

LEMMA CompleteFine ==
    ASSUME NEW m \in Iface, NEW c \in Cmds, NEW ctx \in Contexts, NEW code \in Codes, NEW run, NEW cal,
           m.mode = "POLL", CalmBut(m, run, cal, c), Working(m, run, cal, c),
           m.state[c] # "PROXY", m.work[c] = "idle", ~run[c], ctx \notin Lists(m, c)
    PROVE  LET n == Complete(m, ctx, c, code)
           IN  n \in Iface /\ Conserved(m, n) /\ Failing(n) /\ Fine(n, run, cal)
  <1> DEFINE k == Settle(m, ctx, c, code)
             s == [k EXCEPT !.held[m.seq[c]] = NoCmd, !.buf = FALSE]
             n == Complete(m, ctx, c, code)
             retry == code # "FULL"
  <1>1. n = Advance(s, retry) /\ retry \in BOOLEAN
    BY DEF Complete
  <1>2. /\ k \in Iface /\ Conserved(m, k) /\ Failing(k)
        /\ \/ Calm(k, run, cal)
           \/ /\ CalmBut(k, run, cal, c) /\ Working(k, run, cal, c)
              /\ k.state[c] \notin Running
    BY SettledFine
  <1>3. m.seq[c] \in Seqs
    BY DEF Iface
  <1> HIDE DEF k
  <1>4. /\ s \in Iface
        /\ s.db = k.db /\ s.mode = k.mode /\ s.mail = k.mail
        /\ SameCmds(k, s) /\ SameCleanup(k, s) /\ s.ref = k.ref /\ s.work = k.work
    BY <1>2, <1>3, FreeMailbox
  <1> HIDE DEF s, retry, n
  <1>5. Conserved(k, s) /\ Failing(s)
    BY <1>2, <1>4, SameBooks DEF SameCmds, SameCleanup, Failing
  <1>6. \A d \in Cmds : Agree(k, s, d)
    BY <1>4, SameAgree
  <1>7. Fine(s, run, cal)
    <2>1. CASE Calm(k, run, cal)
      BY <1>6, <2>1, StillResting DEF Calm, Fine
    <2>2. CASE CalmBut(k, run, cal, c) /\ Working(k, run, cal, c) /\ k.state[c] \notin Running
      <3>1. Working(s, run, cal, c)
        BY <1>4, <1>6, <2>2 DEF Working, Agree
      <3>2. \A d \in Cmds : d # c => Resting(s, run, cal, d)
        BY <1>6, <2>2, StillResting DEF CalmBut
      <3> QED  BY <3>1, <3>2 DEF Fine
    <2> QED  BY <1>2, <2>1, <2>2
  <1>8. /\ n \in Iface /\ Failing(n) /\ Conserved(s, n) /\ Fine(n, run, cal)
    BY <1>1, <1>4, <1>5, <1>7, AdvanceFine
  <1>9. Conserved(m, n)
    BY <1>2, <1>5, <1>8, ConservedTwice
  <1> QED  BY <1>8, <1>9 DEF n

---------------------------------------------------------------------------
(* No event queue is started: every step keeps the books                    *)

Exact(m, run)      == /\ \A d \in Cmds : Surplus(m, d) = Flag(run[d])
                      /\ Unlisted(m) = 0
Polls(m, run, cal) == Failing(m) /\ Fine(m, run, cal) /\ Exact(m, run)

LEMMA StillExact ==
    ASSUME NEW m, NEW n, NEW run, Exact(m, run), Conserved(m, n)
    PROVE  Exact(n, run)
BY DEF Exact, Conserved

(* The caller of a command goes on.                                         *)
LEMMA CallerGoesOn ==
    ASSUME NEW m \in Iface, NEW run, NEW cal \in [Cmds -> CallerPcs], NEW c \in Cmds, NEW s \in CallerPcs,
           Fine(m, run, cal), s \notin {"idle", "waiting"}, cal[c] \in GivenUp => s \in GivenUp
    PROVE  Fine(m, run, [cal EXCEPT ![c] = s])
  <1> DEFINE k == [cal EXCEPT ![c] = s]
  <1>1. k[c] = s /\ \A d \in Cmds : d # c => k[d] = cal[d]
    OBVIOUS
  <1> HIDE DEF k
  <1>2. ASSUME NEW d \in Cmds  PROVE Resting(m, run, k, d) \/ Working(m, run, k, d)
    <2>1. CASE d # c
      BY <1>1, <2>1 DEF Fine, Resting, Working, Issued
    <2>2. CASE d = c
      BY <1>1, <2>2 DEF Fine, Resting, Working, Issued
    <2> QED  BY <2>1, <2>2
  <1> QED  BY <1>2 DEF Fine, k

(* A work item's function returns.                                          *)
LEMMA WorkReturns ==
    ASSUME NEW m \in Iface, NEW n \in Iface, NEW c \in Cmds, NEW run \in [Cmds -> BOOLEAN], NEW cal,
           Exact(m, run), run[c], Conserved(m, n), Failing(n),
           Fine(n, [run EXCEPT ![c] = FALSE], cal)
    PROVE  Polls(Put(n, c), [run EXCEPT ![c] = FALSE], cal)
  <1> DEFINE r == [run EXCEPT ![c] = FALSE]
             p == Put(n, c)
  <1>1. r[c] = FALSE /\ \A d \in Cmds : d # c => r[d] = run[d]
    OBVIOUS
  <1>2. /\ p \in Iface /\ p.ref = [n.ref EXCEPT ![c] = @ - 1]
        /\ SameBox(n, p) /\ SameCmds(n, p) /\ SameCleanup(n, p) /\ p.work = n.work
    BY PutIs
  <1> HIDE DEF r, p
  <1>3. Exact(n, run)
    BY StillExact
  <1>4. n.ref \in [Cmds -> Int]
    BY DEF Iface
  <1>5. ASSUME NEW d \in Cmds  PROVE Surplus(p, d) = Flag(r[d])
    <2>1. Surplus(n, d) = Flag(run[d])
      BY <1>3 DEF Exact
    <2>2. Lists(p, d) = Lists(n, d) /\ p.list = n.list
      BY <1>2 DEF Lists, SameCmds, SameCleanup
    <2>3. p.ref[d] = n.ref[d] - Flag(d = c)
      BY <1>2, <1>4 DEF Flag
    <2>4. Surplus(p, d) = Surplus(n, d) - Flag(d = c)
      <3>1. Flag(d = c) \in Int
        BY DEF Flag
      <3> QED  BY <1>2, <2>2, <2>3, <3>1, Numbers DEF Surplus
    <2>5. CASE d = c
      BY <1>1, <2>1, <2>4, <2>5 DEF Flag
    <2>6. CASE d # c
      BY <1>1, <2>1, <2>4, <2>6 DEF Flag
    <2> QED  BY <2>5, <2>6
  <1>6. Unlisted(p) = 0
    BY <1>2, <1>3 DEF Exact, Unlisted, SameCleanup
  <1>7. \A d \in Cmds : Agree(n, p, d)
    BY <1>2, SameAgree
  <1>8. p.db = n.db /\ p.buf = n.buf /\ p.mail = n.mail /\ p.mode = n.mode /\ p.list = n.list
    BY <1>2 DEF SameBox, SameCmds
  <1>9. Fine(p, r, cal)
    <2>1. Fine(n, r, cal)
      BY DEF r
    <2> QED  BY <1>7, <1>8, <2>1, StillResting, StillWorking DEF Fine
  <1>10. Failing(p)
    BY <1>8 DEF Failing
  <1> QED  BY <1>5, <1>6, <1>9, <1>10 DEF Polls, Exact, p, r

(* A command gets on the list.                                              *)
LEMMA ListedBooks ==
    ASSUME NEW m \in Iface, NEW c \in Cmds, NEW run, NEW cal,
           Exact(m, run), Resting(m, run, cal, c), cal[c] = "idle"
    PROVE  LET n == Listed(m, c)
           IN  /\ Exact(n, run) /\ Lists(n, c) = {} /\ c \in n.list /\ n.work[c] = "idle"
               /\ \A d \in Cmds : d # c => Agree(m, n, d)
  <1> DEFINE n == Listed(m, c)
  <1>1. /\ n \in Iface
        /\ n.list = m.list \cup {c} /\ n.ref = [m.ref EXCEPT ![c] = 1]
        /\ SameBox(m, n) /\ SameCleanup(m, n) /\ n.state = m.state /\ n.work = m.work
    BY ListedIs
  <1> HIDE DEF n
  <1>2. m.ref \in [Cmds -> Int]
    BY DEF Iface
  <1>3. c \notin m.list /\ Lists(m, c) = {} /\ m.work[c] = "idle" /\ ~run[c]
    BY DEF Resting, Issued
  <1>4. Lists(n, c) = {} /\ c \in n.list /\ n.work[c] = "idle"
    BY <1>1, <1>3 DEF Lists, SameCleanup
  <1>5. ASSUME NEW d \in Cmds, d # c  PROVE Agree(m, n, d)
    BY <1>1, <1>5 DEF Agree, Lists, SameCleanup
  <1>6. Surplus(n, c) = Flag(run[c])
    <2>1. Cardinality(Lists(n, c)) = 0
      BY <1>4, FS_EmptySet
    <2>2. n.ref[c] = 1
      BY <1>1, <1>2
    <2>3. Surplus(n, c) = 1 - 1 - 0 - 0
      BY <1>4, <2>1, <2>2 DEF Surplus, Flag
    <2> QED  BY <1>3, <2>3 DEF Flag
  <1>7. ASSUME NEW d \in Cmds, d # c  PROVE Surplus(n, d) = Surplus(m, d)
    <2>1. n.ref[d] = m.ref[d] /\ (d \in n.list <=> d \in m.list)
      BY <1>1, <1>2, <1>7
    <2>2. Lists(n, d) = Lists(m, d)
      BY <1>5, <1>7 DEF Agree
    <2>3. Flag(d \in n.list) = Flag(d \in m.list)
      BY <2>1 DEF Flag
    <2> QED  BY <1>1, <2>1, <2>2, <2>3 DEF Surplus
  <1>8. Unlisted(n) = Unlisted(m)
    BY <1>1 DEF Unlisted, SameCleanup
  <1> QED  BY <1>4, <1>5, <1>6, <1>7, <1>8 DEF Exact, n

LEMMA QueueFine ==
    ASSUME mcdi \in Iface, Rest, Polls(mcdi, running, caller), NEW c \in Cmds, Queue(c)
    PROVE  Polls(mcdi', running', caller')
  <1> DEFINE l == Listed(mcdi, c)
             n == [l EXCEPT !.state[c] = "QUEUED"]
  <1>0. /\ mcdi' = n /\ running' = running /\ caller' = [caller EXCEPT ![c] = "waiting"]
        /\ caller[c] = "idle" /\ mcdi.mode # "FAIL" /\ c \notin Atomic
    BY DEF Queue, Goto, MayCall
  <1>1. Fine(mcdi, running, caller) /\ Exact(mcdi, running) /\ Failing(mcdi)
    BY DEF Polls
  <1>2. Resting(mcdi, running, caller, c)
    BY <1>0, <1>1 DEF Fine, Working
  <1>3. l \in Iface /\ SameBox(mcdi, l)
    BY ListedIs
  <1>4. /\ Exact(l, running) /\ Lists(l, c) = {} /\ c \in l.list /\ l.work[c] = "idle"
        /\ \A d \in Cmds : d # c => Agree(mcdi, l, d)
    BY <1>0, <1>1, <1>2, ListedBooks
  <1> HIDE DEF l
  <1>5. /\ n \in Iface /\ n.state = [l.state EXCEPT ![c] = "QUEUED"]
        /\ SameBox(l, n) /\ SameCleanup(l, n)
        /\ n.list = l.list /\ n.ref = l.ref /\ n.work = l.work
    BY <1>3, SetState, StateNames
  <1> HIDE DEF n
  <1>6. Exact(n, running)
    <2>1. Conserved(l, n)
      BY <1>3, <1>5, SameBooks DEF SameCleanup
    <2> QED  BY <1>4, <2>1, StillExact
  <1>7. l.state \in [Cmds -> States] /\ caller \in [Cmds -> CallerPcs]
    BY <1>3 DEF Iface, Rest
  <1>8. /\ caller'[c] = "waiting" /\ \A d \in Cmds : d # c => caller'[d] = caller[d]
    BY <1>0, <1>7
  <1>9. n.db = mcdi.db /\ n.buf = mcdi.buf /\ n.mail = mcdi.mail /\ n.mode = mcdi.mode
    BY <1>3, <1>5 DEF SameBox
  <1>10. ASSUME NEW d \in Cmds
         PROVE  Resting(n, running, caller', d) \/ Working(n, running, caller', d)
    <2>1. CASE d = c
      <3>1. n.state[c] = "QUEUED" /\ c \in n.list /\ n.work[c] = "idle" /\ ~running[c]
        BY <1>2, <1>4, <1>5, <1>7 DEF Resting
      <3>2. Lists(n, c) = {}
        BY <1>4, <1>5 DEF Lists, SameCleanup
      <3> QED  BY <1>8, <2>1, <3>1, <3>2 DEF Resting, Issued, Waits
    <2>2. CASE d # c
      <3>1. Agree(l, n, d)
        BY <1>5, <1>7, <2>2 DEF Agree, Lists, SameCleanup
      <3>2. Agree(mcdi, n, d)
        BY <1>4, <2>2, <3>1 DEF Agree
      <3>3. CASE Resting(mcdi, running, caller, d)
        BY <1>8, <2>2, <3>2, <3>3, StillResting
      <3>4. CASE Working(mcdi, running, caller, d)
        BY <1>8, <1>9, <2>2, <3>2, <3>4, StillWorking
      <3> QED  BY <1>1, <3>3, <3>4 DEF Fine
    <2> QED  BY <2>1, <2>2
  <1>11. Failing(n)
    BY <1>0, <1>1, <1>9 DEF Failing
  <1>12. Polls(n, running, caller')
    BY <1>6, <1>10, <1>11 DEF Polls, Fine
  <1> QED  BY <1>0, <1>12

(* A command is handed to the mailbox, and nobody else is at work.          *)
LEMMA HandedOver ==
    ASSUME NEW m \in Iface, NEW run, NEW cal \in [Cmds -> CallerPcs], NEW c \in Cmds,
           Polls(m, run, cal), cal[c] = "idle", CanStart(m)
    PROVE  LET t == Transmit(Listed(m, c), c)
               k == [cal EXCEPT ![c] = "waiting"]
           IN  /\ t \in Iface /\ Exact(t, run) /\ t.mode = m.mode
               /\ Working(t, run, k, c) /\ CalmBut(t, run, k, c)
               /\ t.state[c] = "RUNNING" /\ t.work[c] = "idle" /\ ~run[c] /\ Lists(t, c) = {}
  <1> DEFINE l == Listed(m, c)
             t == Transmit(l, c)
             k == [cal EXCEPT ![c] = "waiting"]
  <1>1. Calm(m, run, cal) /\ Exact(m, run)
    BY WorksAlone DEF Polls, CanStart
  <1>2. Resting(m, run, cal, c) /\ ~run[c]
    BY <1>1 DEF Calm, Resting
  <1>3. l \in Iface /\ SameBox(m, l)
    BY ListedIs
  <1>4. /\ Exact(l, run) /\ Lists(l, c) = {} /\ c \in l.list /\ l.work[c] = "idle"
        /\ \A d \in Cmds : d # c => Agree(m, l, d)
    BY <1>1, <1>2, ListedBooks
  <1> HIDE DEF l
  <1>5. FreeSeqs(l) # {}
    BY <1>3 DEF CanStart, FreeSeqs, SameBox
  <1>6. /\ t \in Iface
        /\ t.mode = l.mode /\ t.db = c /\ t.buf = TRUE
        /\ t.mail = [cmd |-> c, evreq |-> l.mode = "EVENTS", reply |-> "none"]
        /\ t.state = [l.state EXCEPT ![c] = "RUNNING"] /\ t.list = l.list
        /\ t.ref = l.ref /\ t.work = l.work /\ SameCleanup(l, t)
    BY <1>3, <1>5, TransmitIs
  <1>7. k[c] = "waiting" /\ \A d \in Cmds : d # c => k[d] = cal[d]
    OBVIOUS
  <1> HIDE DEF t, k
  <1>8. Exact(t, run)
    <2>1. Conserved(l, t)
      BY <1>3, <1>6, SameBooks DEF SameCleanup
    <2> QED  BY <1>4, <2>1, StillExact
  <1>9. l.state \in [Cmds -> States]
    BY <1>3 DEF Iface
  <1>10. t.state[c] = "RUNNING" /\ t.work[c] = "idle" /\ t.mail.cmd = c
    BY <1>4, <1>6, <1>9
  <1>11. Lists(t, c) = {}
    BY <1>4, <1>6 DEF Lists, SameCleanup
  <1>12. Working(t, run, k, c)
    BY <1>2, <1>4, <1>6, <1>7, <1>10, <1>11 DEF Working, Running, Cancelled
  <1>13. ASSUME NEW d \in Cmds, d # c  PROVE Resting(t, run, k, d)
    <2>1. Agree(l, t, d)
      BY <1>6, <1>9, <1>13 DEF Agree, Lists, SameCleanup
    <2>2. Agree(m, t, d)
      BY <1>4, <1>13, <2>1 DEF Agree
    <2> QED  BY <1>1, <1>7, <1>13, <2>2, StillResting DEF Calm
  <1>14. t.mode = m.mode
    BY <1>3, <1>6 DEF SameBox
  <1> QED  BY <1>2, <1>6, <1>8, <1>10, <1>11, <1>12, <1>13, <1>14 DEF CalmBut, t, k, l

LEMMA SendFine ==
    ASSUME mcdi \in Iface, Rest, Polls(mcdi, running, caller), NEW c \in Cmds, Send(c)
    PROVE  Polls(mcdi', running', caller')
  <1> DEFINE t == Transmit(Listed(mcdi, c), c)
             n == Arm(t, c)
             k == [caller EXCEPT ![c] = "waiting"]
  <1>0. /\ mcdi' = n /\ running' = running /\ caller' = k
        /\ caller[c] = "idle" /\ mcdi.mode # "FAIL" /\ CanStart(mcdi)
    BY DEF Send, Goto, MayCall, Start
  <1>1. /\ t \in Iface /\ Exact(t, running) /\ t.mode = mcdi.mode
        /\ Working(t, running, k, c) /\ CalmBut(t, running, k, c)
        /\ t.state[c] = "RUNNING" /\ t.work[c] = "idle" /\ ~running[c] /\ Lists(t, c) = {}
    BY <1>0, HandedOver DEF Rest
  <1> HIDE DEF t, k
  <1>2. /\ n \in Iface /\ n.work = [t.work EXCEPT ![c] = "armed"]
        /\ SameBox(t, n) /\ SameCmds(t, n) /\ SameCleanup(t, n)
    BY <1>1, ArmIs
  <1>3. Exact(n, running)
    BY <1>1, ArmBooks, StillExact
  <1> HIDE DEF n
  <1>4. t.work \in [Cmds -> {"idle", "armed"}]
    BY <1>1 DEF Iface
  <1>5. ASSUME NEW d \in Cmds, d # c  PROVE Resting(n, running, k, d)
    <2>1. Agree(t, n, d)
      BY <1>2, <1>4, <1>5 DEF Agree, Lists, SameCmds, SameCleanup
    <2> QED  BY <1>1, <1>5, <2>1, StillResting DEF CalmBut
  <1>6. Working(n, running, k, c)
    BY <1>1, <1>2 DEF Working, Lists, SameBox, SameCmds, SameCleanup
  <1>7. Failing(n)
    BY <1>0, <1>1, <1>2 DEF Failing, Polls, SameBox
  <1>8. Polls(n, running, k)
    BY <1>3, <1>5, <1>6, <1>7 DEF Polls, Fine
  <1> QED  BY <1>0, <1>8

LEMMA SendAndPollFine ==
    ASSUME mcdi \in Iface, Rest, Polls(mcdi, running, caller), NEW c \in Cmds, SendAndPoll(c)
    PROVE  Polls(mcdi', running', caller')
  <1> DEFINE t == Transmit(Listed(mcdi, c), c)
             k == [caller EXCEPT ![c] = "waiting"]
  <1>0. PICK reply \in Answers : mcdi' = Complete([t EXCEPT !.mail.reply = reply], "caller", c, reply)
    BY SettingsKnown DEF SendAndPoll, Rest, Setting
  <1>1. /\ running' = running /\ caller' = k
        /\ caller[c] = "idle" /\ mcdi.mode = "POLL" /\ CanStart(mcdi)
    BY DEF SendAndPoll, Goto, MayCall
  <1>2. /\ t \in Iface /\ Exact(t, running) /\ t.mode = mcdi.mode
        /\ Working(t, running, k, c) /\ CalmBut(t, running, k, c)
        /\ t.state[c] = "RUNNING" /\ t.work[c] = "idle" /\ ~running[c] /\ Lists(t, c) = {}
    BY <1>1, HandedOver DEF Rest
  <1> HIDE DEF t, k
  <1> DEFINE u == [t EXCEPT !.mail.reply = reply]
             n == Complete(u, "caller", c, reply)
  <1>3. /\ u \in Iface /\ u.mail.cmd = t.mail.cmd /\ u.mode = t.mode /\ u.db = t.db /\ u.buf = t.buf
        /\ SameCmds(t, u) /\ SameCleanup(t, u) /\ u.ref = t.ref /\ u.work = t.work
    BY <1>2, SetReply
  <1> HIDE DEF u
  <1>4. \A d \in Cmds : Agree(t, u, d)
    BY <1>3, SameAgree
  <1>5. Exact(u, running)
    <2>1. Conserved(t, u)
      BY <1>2, <1>3, SameBooks DEF SameCmds, SameCleanup
    <2> QED  BY <1>2, <2>1, StillExact
  <1>6. CalmBut(u, running, k, c)
    BY <1>2, <1>4, StillResting DEF CalmBut
  <1>7. Working(u, running, k, c)
    BY <1>2, <1>3, <1>4, StillWorking
  <1>8. u.state[c] # "PROXY" /\ u.work[c] = "idle" /\ "caller" \notin Lists(u, c)
    BY <1>2, <1>4 DEF Agree
  <1>9. reply \in Codes /\ "caller" \in Contexts /\ u.mode = "POLL"
    BY <1>1, <1>2, <1>3 DEF Codes, Contexts
  <1>10. n \in Iface /\ Conserved(u, n) /\ Failing(n) /\ Fine(n, running, k)
    BY <1>2, <1>3, <1>6, <1>7, <1>8, <1>9, CompleteFine
  <1> HIDE DEF n
  <1>11. Polls(n, running, k)
    BY <1>5, <1>10, StillExact DEF Polls
  <1> QED  BY <1>0, <1>1, <1>11 DEF n, u

(* efx_mcdi_cancel_cmd, for a caller that lost patience.                    *)
LEMMA CancelFine ==
    ASSUME mcdi \in Iface, Rest, Polls(mcdi, running, caller), NEW c \in Cmds, Cancel(c)
    PROVE  Polls(mcdi', running', caller')
  <1> DEFINE k == [caller EXCEPT ![c] = "cancelled"]
             p == WithRc(mcdi, c, "EPIPE")
  <1>0. /\ mcdi' = (IF c \in mcdi.list THEN CancelCmd(mcdi, "caller", c) ELSE mcdi)
        /\ running' = running /\ caller' = k /\ caller[c] = "cancelling"
    BY DEF Cancel, Goto
  <1>1. Fine(mcdi, running, caller) /\ Exact(mcdi, running) /\ Failing(mcdi)
    BY DEF Polls
  <1>2. k[c] = "cancelled" /\ \A d \in Cmds : d # c => k[d] = caller[d]
    BY DEF Rest
  <1>3. Fine(mcdi, running, k)
    BY <1>0, <1>1, CallerGoesOn DEF Rest, CallerPcs, GivenUp
  <1>4. /\ p \in Iface /\ SameBox(mcdi, p) /\ SameCmds(mcdi, p) /\ SameCleanup(mcdi, p)
        /\ p.ref = mcdi.ref /\ p.work = mcdi.work
    BY WithRcIs DEF Codes
  <1> HIDE DEF k, p
  <1>5. \A d \in Cmds : Agree(mcdi, p, d)
    BY <1>4, SameAgree
  <1>6. p.db = mcdi.db /\ p.buf = mcdi.buf /\ p.mail = mcdi.mail /\ p.mode = mcdi.mode
    BY <1>4 DEF SameBox
  <1>7. Exact(p, running)
    <2>1. Conserved(mcdi, p)
      BY <1>4, SameBooks DEF SameCmds, SameCleanup
    <2> QED  BY <1>1, <2>1, StillExact
  <1>8. Fine(p, running, k)
    BY <1>3, <1>5, <1>6, StillResting, StillWorking DEF Fine
  <1>9. Failing(p)
    BY <1>1, <1>4, <1>6 DEF Failing, SameCmds
  <1>10. CASE c \notin mcdi.list
    BY <1>0, <1>1, <1>3, <1>10 DEF Polls
  <1>11. CASE c \in mcdi.list /\ Resting(mcdi, running, caller, c)
    <2> DEFINE n == Remove(p, "caller", c)
    <2>1. Waits(mcdi.state[c]) /\ Lists(mcdi, c) = {} /\ mcdi.work[c] = "idle" /\ ~running[c]
      BY <1>11 DEF Resting
    <2>2. mcdi' = n
      BY <1>0, <1>11, <2>1 DEF CancelCmd, Waits, p
    <2>3. /\ c \in p.list /\ "caller" \notin Lists(p, c) /\ p.work[c] = "idle" /\ k[c] # "idle"
          /\ p.state[c] \in Cancelled => k[c] \in GivenUp
      BY <1>2, <1>5, <1>11, <2>1 DEF Agree, GivenUp
    <2>4. "caller" \in Contexts
      BY DEF Contexts
    <2>5. /\ n \in Iface /\ SameBox(p, n) /\ Conserved(p, n)
          /\ n.list = p.list \ {c}
          /\ Resting(n, running, k, c)
          /\ \A d \in Cmds : d # c => Agree(p, n, d)
      BY <1>4, <2>1, <2>3, <2>4, RemovedRests
    <2> HIDE DEF n
    <2>6. n.db = p.db /\ n.buf = p.buf /\ n.mail = p.mail /\ n.mode = p.mode
      BY <2>5 DEF SameBox
    <2>7. ASSUME NEW d \in Cmds, d # c
          PROVE  Resting(n, running, k, d) \/ Working(n, running, k, d)
      <3>1. CASE Resting(p, running, k, d)
        BY <2>5, <2>7, <3>1, StillResting
      <3>2. CASE Working(p, running, k, d)
        BY <2>5, <2>6, <2>7, <3>2, StillWorking
      <3> QED  BY <1>8, <3>1, <3>2 DEF Fine
    <2>8. Failing(n)
      BY <1>9, <2>5, <2>6 DEF Failing
    <2>9. Polls(n, running, k)
      BY <1>7, <2>5, <2>7, <2>8, StillExact DEF Polls, Fine
    <2> QED  BY <1>0, <2>2, <2>9
  <1>12. CASE c \in mcdi.list /\ Working(mcdi, running, caller, c)
    <2> DEFINE g == Notify(p, "caller", c)
               s == Mark(g.state[c])
               n == [g EXCEPT !.state[c] = s]
    <2>1. /\ mcdi.state[c] \in {"RUNNING", "PROXY"} /\ Lists(mcdi, c) = {}
      BY <1>0, <1>12 DEF Working, Running, Cancelled, GivenUp
    <2>2. /\ g \in Iface /\ SameBox(p, g) /\ SameCmds(p, g) /\ g.work = p.work
      BY <1>4, NotifyIs DEF Contexts
    <2>3. "caller" \in Contexts /\ "caller" \notin Lists(p, c) /\ p.state[c] = mcdi.state[c]
      BY <1>5, <2>1 DEF Contexts, Agree
    <2>4. /\ Conserved(p, g)
          /\ \A d \in Cmds : d # c => Lists(g, d) = Lists(p, d) /\ g.called[d] = p.called[d]
      BY <1>4, <2>3, NotifyTells
    <2>5. Lists(g, c) \subseteq {"caller"}
      <3>1. Lists(p, c) = {}
        BY <1>5, <2>1 DEF Agree
      <3>2. Lists(g, c) \in {Lists(p, c), Lists(p, c) \cup {"caller"}}
        BY <1>4, <2>3, NotifyTells
      <3> QED  BY <3>1, <3>2
    <2>6. mcdi' = [g EXCEPT !.state[c] = Mark(@)]
      BY <1>0, <1>12, <2>1 DEF CancelCmd, p
    <2> HIDE DEF g
    <2>7. mcdi' = n
      BY <2>2, <2>6 DEF Iface
    <2>8. /\ g.state[c] = mcdi.state[c] /\ g.state \in [Cmds -> States]
      BY <2>2, <2>3 DEF SameCmds, Iface
    <2>9. s \in {"RUNNING_CANCELLED", "PROXY_CANCELLED"} /\ (s = "RUNNING_CANCELLED" => mcdi.state[c] = "RUNNING")
      BY <2>1, <2>8 DEF Mark
    <2> HIDE DEF s
    <2>10. s \in States
      BY <2>9, StateNames
    <2>11. /\ n \in Iface /\ n.state = [g.state EXCEPT ![c] = s]
           /\ SameBox(g, n) /\ SameCleanup(g, n)
           /\ n.list = g.list /\ n.ref = g.ref /\ n.work = g.work
      BY <2>2, <2>10, SetState
    <2> HIDE DEF n
    <2>12. n.db = p.db /\ n.buf = p.buf /\ n.mail = p.mail /\ n.mode = p.mode
      BY <2>2, <2>11 DEF SameBox
    <2>13. ASSUME NEW d \in Cmds, d # c  PROVE Agree(p, n, d)
      BY <2>2, <2>4, <2>8, <2>11, <2>13 DEF Agree, Lists, SameCmds, SameCleanup
    <2>14. ASSUME NEW d \in Cmds, d # c
           PROVE  Resting(n, running, k, d) \/ Working(n, running, k, d)
      <3>1. CASE Resting(p, running, k, d)
        BY <2>13, <2>14, <3>1, StillResting
      <3>2. CASE Working(p, running, k, d)
        BY <2>12, <2>13, <2>14, <3>2, StillWorking
      <3> QED  BY <1>8, <3>1, <3>2 DEF Fine
    <2>15. Working(n, running, k, c)
      <3>1. n.state[c] = s /\ c \in n.list /\ n.db = c /\ n.work[c] = mcdi.work[c]
        BY <1>4, <1>6, <1>12, <2>2, <2>8, <2>11, <2>12 DEF SameCmds, Working
      <3>2. Lists(n, c) \subseteq {"caller"}
        BY <2>5, <2>11 DEF Lists, SameCleanup
      <3>3. mcdi.state[c] \in Running => n.buf /\ n.mail.cmd = c
        BY <1>6, <1>12, <2>12 DEF Working
      <3>4. running[c] => mcdi.work[c] = "idle"
        BY <1>12 DEF Working
      <3> QED  BY <1>2, <2>9, <3>1, <3>2, <3>3, <3>4 DEF Working, Running, Cancelled, GivenUp
    <2>16. Failing(n)
      BY <1>9, <2>2, <2>11, <2>12 DEF Failing, SameCmds
    <2>17. Exact(n, running)
      <3>1. Conserved(g, n)
        BY <2>2, <2>11, SameBooks DEF SameCleanup
      <3> QED  BY <1>7, <2>4, <3>1, StillExact
    <2>18. Polls(n, running, k)
      BY <2>14, <2>15, <2>16, <2>17 DEF Polls, Fine
    <2> QED  BY <1>0, <2>7, <2>18
  <1> QED  BY <1>1, <1>10, <1>11, <1>12 DEF Fine

LEMMA CleanupFine ==
    ASSUME mcdi \in Iface, Polls(mcdi, running, caller), NEW e \in Contexts \X Cmds, ProcessCleanup(e)
    PROVE  Polls(mcdi', running', caller')
  <1> DEFINE n == [Put(Called(mcdi, e[2]), e[2]) EXCEPT !.cleanup = @ \ {e}, !.outstanding = @ - 1]
             x == e[1]
             c == e[2]
  <1>0. mcdi' = n /\ running' = running /\ caller' = caller /\ e \in mcdi.cleanup
    BY DEF ProcessCleanup
  <1>1. x \in Contexts /\ c \in Cmds /\ e = <<x, c>>
    OBVIOUS
  <1>2. /\ n \in Iface
        /\ n.cleanup = mcdi.cleanup \ {e} /\ n.outstanding = mcdi.outstanding - 1
        /\ n.ref = [mcdi.ref EXCEPT ![c] = @ - 1]
        /\ n.called = [mcdi.called EXCEPT ![c] = @ + 1]
        /\ SameBox(mcdi, n) /\ SameCmds(mcdi, n) /\ n.work = mcdi.work
    BY Cleaned
  <1> HIDE DEF n, x, c
  <1>3. mcdi.ref \in [Cmds -> Int] /\ mcdi.called \in [Cmds -> Nat]
    BY DEF Iface
  <1>4. x \in Lists(mcdi, c) /\ x \notin Lists(n, c)
    BY <1>0, <1>1, <1>2 DEF Lists
  <1>5. mcdi.cleanup = n.cleanup \cup {<<x, c>>}
    BY <1>0, <1>1, <1>2
  <1>6. Cardinality(n.cleanup) = Cardinality(mcdi.cleanup) - 1
    BY <1>0, <1>2, ListsFinite, FS_RemoveElement
  <1>7. Lists(mcdi, c) = Lists(n, c) \cup {x}
    BY <1>1, <1>5 DEF Lists
  <1>8. Cardinality(Lists(mcdi, c)) = Cardinality(Lists(n, c)) + 1
    BY <1>1, <1>2, <1>4, <1>7, ListsFinite, FS_AddElement
  <1>9. \A d \in Cmds : d # c => Lists(mcdi, d) = Lists(n, d)
    BY <1>5 DEF Lists
  <1>10. n.db = mcdi.db /\ n.buf = mcdi.buf /\ n.mail = mcdi.mail /\ n.mode = mcdi.mode
    BY <1>2 DEF SameBox
  <1>11. n.list = mcdi.list /\ n.state = mcdi.state
    BY <1>2 DEF SameCmds
  <1>12. ASSUME NEW d \in Cmds  PROVE Surplus(n, d) = Surplus(mcdi, d)
    <2>1. CASE d = c
      <3>1. n.ref[d] = mcdi.ref[d] - 1
        BY <1>2, <1>3, <2>1
      <3> QED  BY <1>2, <1>8, <1>11, <2>1, <3>1, Numbers DEF Surplus
    <2>2. CASE d # c
      <3>1. n.ref[d] = mcdi.ref[d] /\ Lists(n, d) = Lists(mcdi, d)
        BY <1>2, <1>3, <1>9, <2>2
      <3> QED  BY <1>2, <1>11, <3>1 DEF Surplus
    <2> QED  BY <2>1, <2>2
  <1>13. Unlisted(n) = Unlisted(mcdi)
    <2>1. /\ Cardinality(mcdi.cleanup) \in Nat /\ mcdi.outstanding \in Int
      BY ListsFinite DEF Iface
    <2> QED  BY <1>2, <1>6, <2>1 DEF Unlisted
  <1>14. Exact(n, running)
    BY <1>12, <1>13 DEF Polls, Exact
  <1>15. ASSUME NEW d \in Cmds  PROVE Resting(n, running, caller, d) \/ Working(n, running, caller, d)
    <2>1. CASE d # c
      <3>1. Agree(mcdi, n, d)
        BY <1>2, <1>3, <1>9, <1>11, <2>1 DEF Agree
      <3> QED  BY <1>10, <3>1, StillResting, StillWorking DEF Polls, Fine
    <2>2. CASE d = c /\ Resting(mcdi, running, caller, d)
      <3>1. n.called[c] > 0
        BY <1>1, <1>2, <1>3
      <3>2. c \notin mcdi.list /\ caller[c] # "idle"
        BY <1>4, <2>2 DEF Resting, Issued
      <3> QED  BY <1>2, <1>11, <2>2, <3>1, <3>2 DEF Resting, Issued
    <2>3. CASE d = c /\ Working(mcdi, running, caller, d)
      <3>1. Lists(n, c) = {}
        BY <1>4, <1>7, <2>3 DEF Working
      <3> QED  BY <1>2, <1>10, <1>11, <2>3, <3>1 DEF Working
    <2> QED  BY <2>1, <2>2, <2>3 DEF Polls, Fine
  <1>16. Failing(n)
    BY <1>10, <1>11 DEF Polls, Failing
  <1>17. Polls(n, running, caller)
    BY <1>14, <1>15, <1>16 DEF Polls, Fine
  <1> QED  BY <1>0, <1>17

LEMMA WorkEnterFine ==
    ASSUME mcdi \in Iface, Rest, Polls(mcdi, running, caller),
           NEW c \in Cmds, NEW late \in BOOLEAN, WorkEnter(c, late)
    PROVE  Polls(mcdi', running', caller')
  <1> DEFINE n == [mcdi EXCEPT !.work[c] = "idle", !.expired[c] = @ \/ late]
             r == [running EXCEPT ![c] = TRUE]
  <1>0. /\ mcdi' = n /\ running' = r /\ caller' = caller
        /\ mcdi.work[c] = "armed" /\ ~running[c]
    BY DEF WorkEnter
  <1>1. /\ n \in Iface
        /\ n.work = [mcdi.work EXCEPT ![c] = "idle"] /\ n.ref = mcdi.ref
        /\ SameBox(mcdi, n) /\ SameCmds(mcdi, n) /\ SameCleanup(mcdi, n)
    BY Entered
  <1>2. r[c] = TRUE /\ \A d \in Cmds : d # c => r[d] = running[d]
    BY DEF Rest
  <1> HIDE DEF n, r
  <1>3. mcdi.work \in [Cmds -> {"idle", "armed"}]
    BY DEF Iface
  <1>4. Working(mcdi, running, caller, c)
    BY <1>0 DEF Polls, Fine, Resting
  <1>5. n.db = mcdi.db /\ n.buf = mcdi.buf /\ n.mail = mcdi.mail /\ n.mode = mcdi.mode
    BY <1>1 DEF SameBox
  <1>6. /\ n.list = mcdi.list /\ n.state = mcdi.state /\ n.called = mcdi.called
        /\ n.cleanup = mcdi.cleanup /\ n.outstanding = mcdi.outstanding
    BY <1>1 DEF SameCmds, SameCleanup
  <1>7. \A d \in Cmds : Lists(n, d) = Lists(mcdi, d)
    BY <1>6 DEF Lists
  <1>8. Working(n, r, caller, c)
    BY <1>1, <1>3, <1>4, <1>5, <1>6, <1>7 DEF Working
  <1>9. ASSUME NEW d \in Cmds, d # c
        PROVE  Resting(n, r, caller, d) \/ Working(n, r, caller, d)
    <2>1. Agree(mcdi, n, d)
      BY <1>1, <1>3, <1>6, <1>7, <1>9 DEF Agree
    <2> QED  BY <1>2, <1>5, <1>9, <2>1, StillResting, StillWorking DEF Polls, Fine
  <1>10. ASSUME NEW d \in Cmds  PROVE Surplus(n, d) = Flag(r[d])
    <2>0. Surplus(mcdi, d) = Flag(running[d])
      BY DEF Polls, Exact
    <2>1. CASE d = c
      <3>1. Flag(n.work[d] = "armed") = 0 /\ Flag(mcdi.work[d] = "armed") = 1
        BY <1>0, <1>1, <1>3, <2>1 DEF Flag
      <3>2. Surplus(n, d) = Surplus(mcdi, d) + 1
        BY <1>1, <1>6, <1>7, <3>1, Numbers DEF Surplus
      <3> QED  BY <1>0, <1>2, <2>0, <2>1, <3>2 DEF Flag
    <2>2. CASE d # c
      <3>1. n.work[d] = mcdi.work[d] /\ r[d] = running[d]
        BY <1>1, <1>2, <1>3, <2>2
      <3> QED  BY <1>1, <1>6, <1>7, <2>0, <3>1 DEF Surplus
    <2> QED  BY <2>1, <2>2
  <1>11. Unlisted(n) = 0 /\ Failing(n)
    BY <1>5, <1>6 DEF Polls, Exact, Unlisted, Failing
  <1>12. Polls(n, r, caller)
    BY <1>8, <1>9, <1>10, <1>11 DEF Polls, Fine, Exact
  <1> QED  BY <1>0, <1>12

(* The command whose work item runs is the one at work, and the work item   *)
(* is the only one to tell its caller.                                      *)
LEMMA WorkRuns ==
    ASSUME mcdi \in Iface, Rest, Polls(mcdi, running, caller), NEW c \in Cmds, running[c]
    PROVE  LET r == [running EXCEPT ![c] = FALSE]
           IN  /\ Working(mcdi, r, caller, c) /\ CalmBut(mcdi, r, caller, c)
               /\ mcdi.work[c] = "idle" /\ ~r[c] /\ mcdi.mode = "POLL"
               /\ "work" \in Contexts /\ "work" \notin Lists(mcdi, c)
  <1> DEFINE r == [running EXCEPT ![c] = FALSE]
  <1>1. r[c] = FALSE /\ \A d \in Cmds : d # c => r[d] = running[d]
    BY DEF Rest
  <1> HIDE DEF r
  <1>2. Working(mcdi, running, caller, c)
    BY DEF Polls, Fine, Resting
  <1>3. Working(mcdi, r, caller, c) /\ mcdi.work[c] = "idle" /\ "work" \notin Lists(mcdi, c)
    BY <1>1, <1>2 DEF Working
  <1>4. CalmBut(mcdi, running, caller, c)
    BY <1>2, WorksAlone DEF Polls
  <1>5. CalmBut(mcdi, r, caller, c)
    BY <1>1, <1>4 DEF CalmBut, Resting
  <1>6. mcdi.mode = "POLL"
    BY <1>2 DEF Polls, Failing, Working
  <1>7. "work" \in Contexts
    BY DEF Contexts
  <1> QED  BY <1>1, <1>3, <1>5, <1>6, <1>7 DEF r

LEMMA WorkFine ==
    ASSUME mcdi \in Iface, Rest, Polls(mcdi, running, caller), NEW c \in Cmds, WorkStep(c)
    PROVE  Polls(mcdi', running', caller')
  <1>1. ASSUME NEW late \in BOOLEAN, WorkEnter(c, late)  PROVE Polls(mcdi', running', caller')
    BY <1>1, WorkEnterFine
  <1>2. SUFFICES ASSUME \/ WorkFinished(c) \/ WorkProxyTimeout(c) \/ WorkComplete(c)
                        \/ WorkTimeout(c) \/ WorkPollAgain(c)
                 PROVE  Polls(mcdi', running', caller')
    BY <1>1 DEF WorkStep
  <1> DEFINE r == [running EXCEPT ![c] = FALSE]
  <1>3. running[c] /\ running' = r /\ caller' = caller
    BY <1>2 DEF WorkFinished, WorkProxyTimeout, WorkComplete, WorkTimeout, WorkPollAgain, WorkLeaves
  <1>4. /\ Working(mcdi, r, caller, c) /\ CalmBut(mcdi, r, caller, c)
        /\ mcdi.work[c] = "idle" /\ ~r[c] /\ mcdi.mode = "POLL"
        /\ "work" \in Contexts /\ "work" \notin Lists(mcdi, c)
    BY <1>3, WorkRuns
  <1>5. /\ c \in mcdi.list /\ caller[c] # "idle"
        /\ mcdi.state[c] \in Cancelled => caller[c] \in GivenUp
    BY <1>4 DEF Working
  <1>6. Exact(mcdi, running) /\ Failing(mcdi) /\ running \in [Cmds -> BOOLEAN]
    BY DEF Polls, Rest
  <1>7. ASSUME NEW n \in Iface, Conserved(mcdi, n), Failing(n), Fine(n, r, caller), mcdi' = Put(n, c)
        PROVE  Polls(mcdi', running', caller')
    <2>1. Polls(Put(n, c), r, caller)
      BY <1>3, <1>6, <1>7, WorkReturns
    <2> QED  BY <1>3, <1>7, <2>1
  <1> HIDE DEF r
  <1>8. ~WorkFinished(c)
    <2>1. mcdi.state[c] # "FINISHED"
      BY <1>4 DEF Working, Running
    <2> QED  BY <2>1 DEF WorkFinished
  <1>9. CASE WorkProxyTimeout(c)
    <2> DEFINE n == ProxyTimeout(mcdi, "work", c)
    <2>1. mcdi' = Put(n, c)
      BY <1>9 DEF WorkProxyTimeout
    <2>2. "ETIMEDOUT" \in Codes
      BY DEF Codes
    <2>3. n \in Iface /\ Failing(n) /\ Conserved(mcdi, n) /\ Fine(n, r, caller)
      BY <1>4, <1>5, <2>2, TimeoutFine DEF ProxyTimeout
    <2> HIDE DEF n
    <2> QED  BY <1>7, <2>1, <2>3
  <1>10. CASE WorkTimeout(c)
    <2> DEFINE m == [mcdi EXCEPT !.buf = FALSE]
               n == ProxyTimeout(m, "work", c)
    <2>1. mcdi' = Put(n, c)
      BY <1>10 DEF WorkTimeout, Timeout
    <2>2. "ETIMEDOUT" \in Codes
      BY DEF Codes
    <2>3. /\ m \in Iface /\ SameCmds(mcdi, m) /\ SameCleanup(mcdi, m)
          /\ m.ref = mcdi.ref /\ m.work = mcdi.work
      BY NoBuffer
    <2> HIDE DEF m
    <2>4. \A d \in Cmds : Agree(mcdi, m, d)
      BY <2>3, SameAgree
    <2>5. Conserved(mcdi, m)
      BY <2>3, SameBooks DEF SameCmds, SameCleanup
    <2>6. CalmBut(m, r, caller, c)
      BY <1>4, <2>4, StillResting DEF CalmBut
    <2>7. /\ c \in m.list /\ m.work[c] = "idle" /\ "work" \notin Lists(m, c)
          /\ m.state[c] \in Cancelled => caller[c] \in GivenUp
      BY <1>4, <1>5, <2>4 DEF Agree
    <2>8. n \in Iface /\ Failing(n) /\ Conserved(m, n) /\ Fine(n, r, caller)
      BY <1>4, <1>5, <2>2, <2>3, <2>6, <2>7, TimeoutFine DEF ProxyTimeout
    <2> HIDE DEF n
    <2>9. Conserved(mcdi, n)
      BY <2>5, <2>8, ConservedTwice
    <2> QED  BY <1>7, <2>1, <2>8, <2>9
  <1>11. CASE WorkComplete(c)
    <2>1. CodesOf(mcdi.mail.reply) \subseteq Codes
      BY CodesOfReply DEF Iface, Mails
    <2>2. PICK code \in Codes : \E m \in Noticed(mcdi, code) : mcdi' = Put(Complete(m, "work", c, code), c)
      BY <1>11, <2>1 DEF WorkComplete
    <2>3. Noticed(mcdi, code) \subseteq {mcdi}
      BY <1>4, ModePollIs DEF Noticed
    <2> DEFINE n == Complete(mcdi, "work", c, code)
    <2>4. mcdi' = Put(n, c)
      BY <2>2, <2>3
    <2>5. mcdi.state[c] # "PROXY"
      BY <1>11 DEF WorkComplete
    <2>6. n \in Iface /\ Conserved(mcdi, n) /\ Failing(n) /\ Fine(n, r, caller)
      BY <1>4, <2>5, CompleteFine
    <2> HIDE DEF n
    <2> QED  BY <1>7, <2>4, <2>6
  <1>12. CASE WorkPollAgain(c)
    <2> DEFINE n == Arm(mcdi, c)
    <2>1. mcdi' = Put(n, c)
      BY <1>12 DEF WorkPollAgain
    <2>2. /\ n \in Iface /\ n.work = [mcdi.work EXCEPT ![c] = "armed"]
          /\ SameBox(mcdi, n) /\ SameCmds(mcdi, n) /\ SameCleanup(mcdi, n)
      BY ArmIs
    <2>3. Conserved(mcdi, n)
      BY <1>4, ArmBooks
    <2> HIDE DEF n
    <2>4. mcdi.work \in [Cmds -> {"idle", "armed"}]
      BY DEF Iface
    <2>5. ASSUME NEW d \in Cmds, d # c  PROVE Resting(n, r, caller, d)
      <3>1. Agree(mcdi, n, d)
        BY <2>2, <2>4, <2>5 DEF Agree, Lists, SameCmds, SameCleanup
      <3> QED  BY <1>4, <2>5, <3>1, StillResting DEF CalmBut
    <2>6. Working(n, r, caller, c)
      BY <1>4, <2>2 DEF Working, Lists, SameBox, SameCmds, SameCleanup
    <2>7. Failing(n)
      BY <1>6, <2>2 DEF Failing, SameBox, SameCmds
    <2> QED  BY <1>7, <2>1, <2>2, <2>3, <2>5, <2>6, <2>7 DEF Fine
  <1> QED  BY <1>2, <1>8, <1>9, <1>10, <1>11, <1>12

(* In fail mode the queue is empty, and the reset has nobody to tell.       *)
LEMMA FlrFine ==
    ASSUME mcdi \in Iface, Polls(mcdi, running, caller), FlrReset
    PROVE  Polls(mcdi', running', caller')
  <1> DEFINE n == Flr(mcdi)
  <1>0. mcdi' = n /\ running' = running /\ caller' = caller /\ mcdi.list = {}
    BY DEF FlrReset, Polls, Failing
  <1>1. Told(mcdi) = {} /\ ToldLater(mcdi) = {}
    BY <1>0 DEF Told, ToldLater
  <1>2. /\ n \in Iface
        /\ n.mode = "POLL" /\ n.list = {}
        /\ n.cleanup = mcdi.cleanup \cup {<<"reset", c>> : c \in ToldLater(mcdi)}
        /\ n.outstanding = mcdi.outstanding + Cardinality(ToldLater(mcdi))
        /\ n.state = [c \in Cmds |-> IF c \in mcdi.list THEN "FINISHED" ELSE mcdi.state[c]]
        /\ n.ref = [c \in Cmds |->
                      mcdi.ref[c] + (IF c \in ToldLater(mcdi) THEN 1 ELSE 0)
                                  - (IF c \in mcdi.list THEN 1 ELSE 0)
                                  - (IF c \in mcdi.list /\ mcdi.work[c] = "armed" THEN 1 ELSE 0)]
        /\ n.work = [c \in Cmds |-> IF c \in mcdi.list THEN "idle" ELSE mcdi.work[c]]
        /\ n.called = [c \in Cmds |-> IF c \in Told(mcdi) \cap Atomic THEN mcdi.called[c] + 1
                                      ELSE mcdi.called[c]]
    BY FlrIs
  <1> HIDE DEF n
  <1>3. /\ mcdi.ref \in [Cmds -> Int] /\ mcdi.work \in [Cmds -> {"idle", "armed"}]
        /\ mcdi.state \in [Cmds -> States] /\ mcdi.called \in [Cmds -> Nat]
        /\ mcdi.outstanding \in Int
    BY DEF Iface
  <1>4. n.cleanup = mcdi.cleanup
    BY <1>1, <1>2
  <1>5. n.outstanding = mcdi.outstanding
    <2>1. Cardinality(ToldLater(mcdi)) = 0
      BY <1>1, FS_EmptySet
    <2> QED  BY <1>2, <1>3, <2>1
  <1>6. n.ref = mcdi.ref /\ n.work = mcdi.work /\ n.state = mcdi.state /\ n.called = mcdi.called
    BY <1>0, <1>1, <1>2, <1>3
  <1>7. n.list = mcdi.list
    BY <1>0, <1>2
  <1>8. Conserved(mcdi, n)
    BY <1>2, <1>4, <1>5, <1>6, <1>7, SameBooks
  <1>9. \A d \in Cmds : Agree(mcdi, n, d)
    BY <1>4, <1>6, <1>7 DEF Agree, Lists
  <1>10. Calm(mcdi, running, caller)
    BY <1>0 DEF Polls, Fine, Calm, Working
  <1>11. Fine(n, running, caller)
    BY <1>9, <1>10, StillResting DEF Fine, Calm
  <1>12. Polls(n, running, caller)
    BY <1>2, <1>8, <1>11, StillExact DEF Polls, Failing
  <1> QED  BY <1>0, <1>12

(* The inductive invariant: without events, a command is at rest or at work *)
(* and its references are those that the list, an armed or a running work   *)
(* item and the cleanup lists stand for.                                    *)
Polled == ~setting.interrupts => /\ stage \in {"off", "reset"}
                                 /\ Polls(mcdi, running, caller)

LEMMA PolledInit == Init => Polled
  <1> SUFFICES ASSUME Init  PROVE Polls(mcdi, running, caller)
    BY DEF Init, Polled
  <1>1. mcdi.cleanup = {} /\ mcdi.list = {} /\ mcdi.outstanding = 0 /\ mcdi.mode = "POLL"
    BY DEF Init
  <1>2. \A d \in Cmds : mcdi.work[d] = "idle" /\ mcdi.ref[d] = 0 /\ mcdi.called[d] = 0
    BY DEF Init
  <1>3. \A d \in Cmds : running[d] = FALSE /\ caller[d] = "idle"
    BY DEF Init
  <1>4. \A d \in Cmds : Lists(mcdi, d) = {}
    BY <1>1 DEF Lists
  <1>5. Cardinality({}) = 0
    BY FS_EmptySet
  <1>6. \A d \in Cmds : Resting(mcdi, running, caller, d)
    BY <1>1, <1>2, <1>3, <1>4 DEF Resting, Issued
  <1>7. ASSUME NEW d \in Cmds  PROVE Surplus(mcdi, d) = Flag(running[d])
    <2>1. Cardinality(Lists(mcdi, d)) = 0
      BY <1>4, <1>5
    <2>2. Surplus(mcdi, d) = 0 - 0 - 0 - 0
      BY <1>1, <1>2, <2>1 DEF Surplus, Flag
    <2> QED  BY <1>3, <2>2 DEF Flag
  <1>8. Unlisted(mcdi) = 0
    BY <1>1, <1>5 DEF Unlisted
  <1> QED  BY <1>1, <1>6, <1>7, <1>8 DEF Polls, Failing, Fine, Exact

LEMMA PolledStep == Types /\ Polled /\ [Next]_vars => Polled'
  <1> SUFFICES ASSUME Types, Polled, [Next]_vars  PROVE Polled'
    OBVIOUS
  <1>0. SUFFICES ASSUME setting' = setting, ~setting.interrupts
                 PROVE  stage' \in {"off", "reset"} /\ Polls(mcdi', running', caller')
    BY SettingKept DEF Polled
  <1>1. stage \in {"off", "reset"} /\ Polls(mcdi, running, caller) /\ mcdi \in Iface /\ Rest
    BY <1>0 DEF Polled, Types
  <1>2. ASSUME NEW c \in Cmds, Queue(c) \/ Send(c) \/ SendAndPoll(c) \/ Cancel(c) \/ WorkStep(c)
        PROVE  stage' \in {"off", "reset"} /\ Polls(mcdi', running', caller')
    <2>1. stage' = stage
      BY <1>2 DEF Queue, Send, SendAndPoll, Cancel, WorkStep, WorkEnter, WorkFinished,
                  WorkProxyTimeout, WorkComplete, WorkTimeout, WorkPollAgain, WorkLeaves
    <2>2. Polls(mcdi', running', caller')
      BY <1>1, <1>2, QueueFine, SendFine, SendAndPollFine, CancelFine, WorkFine
    <2> QED  BY <1>1, <2>1, <2>2
  <1>3. ASSUME NEW c \in Cmds,
               CallRefused(c) \/ CallBusy(c) \/ CallTimesOut(c) \/ CallCompleted(c) \/ CallTimedOut(c)
        PROVE  stage' \in {"off", "reset"} /\ Polls(mcdi', running', caller')
    <2>1. /\ stage' = stage /\ mcdi' = mcdi /\ running' = running
          /\ \E s \in {"cancelling", "returned"} :
                /\ caller' = [caller EXCEPT ![c] = s]
                /\ caller[c] \in GivenUp => s \in GivenUp
      BY <1>3 DEF CallRefused, CallBusy, CallTimesOut, CallCompleted, CallTimedOut, Return, Goto,
                  GivenUp
    <2>2. PICK s \in {"cancelling", "returned"} :
                /\ caller' = [caller EXCEPT ![c] = s]
                /\ caller[c] \in GivenUp => s \in GivenUp
      BY <2>1
    <2>3. caller \in [Cmds -> CallerPcs] /\ s \in CallerPcs /\ s \notin {"idle", "waiting"}
      BY <1>1 DEF Rest, CallerPcs
    <2>4. Fine(mcdi, running, [caller EXCEPT ![c] = s])
      BY <1>1, <2>2, <2>3, CallerGoesOn DEF Polls
    <2> QED  BY <1>1, <2>1, <2>2, <2>4 DEF Polls
  <1>4. ASSUME NEW e \in Contexts \X Cmds, ProcessCleanup(e)
        PROVE  stage' \in {"off", "reset"} /\ Polls(mcdi', running', caller')
    <2>1. stage' = stage
      BY <1>4 DEF ProcessCleanup
    <2> QED  BY <1>1, <1>4, <2>1, CleanupFine
  <1>5. CASE McAnswer
    <2>1. PICK reply \in Answers : mcdi' = [mcdi EXCEPT !.mail.reply = reply]
      BY <1>1, <1>5, SettingsKnown DEF McAnswer, Rest, Setting
    <2>2. stage' = stage /\ running' = running /\ caller' = caller
      BY <1>5 DEF McAnswer
    <2> DEFINE n == [mcdi EXCEPT !.mail.reply = reply]
    <2>3. /\ n \in Iface
          /\ n.mail.cmd = mcdi.mail.cmd /\ n.mode = mcdi.mode /\ n.db = mcdi.db /\ n.buf = mcdi.buf
          /\ SameCmds(mcdi, n) /\ SameCleanup(mcdi, n) /\ n.ref = mcdi.ref /\ n.work = mcdi.work
      BY <1>1, SetReply
    <2> HIDE DEF n
    <2>4. \A d \in Cmds : Agree(mcdi, n, d)
      BY <2>3, SameAgree
    <2>5. Fine(n, running, caller)
      BY <1>1, <2>3, <2>4, StillResting, StillWorking DEF Polls, Fine
    <2>6. Failing(n)
      BY <1>1, <2>3 DEF Polls, Failing, SameCmds
    <2>7. Conserved(mcdi, n)
      BY <1>1, <2>3, SameBooks DEF SameCmds, SameCleanup
    <2>8. Polls(n, running, caller)
      BY <1>1, <2>5, <2>6, <2>7, StillExact DEF Polls
    <2> QED  BY <1>1, <2>1, <2>2, <2>8 DEF n
  <1>6. ~EventStep /\ ~EventsStart /\ ~ModeEvent /\ ~StopEvents /\ ~EventsStopped
    BY <1>0, <1>1 DEF EventStep, EvCpl, EvProxyGranted, EvProxyRefused, EvDeath, EventsRun,
                      EventsStart, ModeEvent, StopEvents, EventsStopped
  <1>7. CASE FlrReset
    <2>1. stage' = "reset"
      BY <1>7 DEF FlrReset
    <2> QED  BY <1>1, <1>7, <2>1, FlrFine
  <1>8. CASE PostReset \/ UNCHANGED vars
    BY <1>1, <1>8 DEF PostReset, vars
  <1> QED  BY <1>2, <1>3, <1>4, <1>5, <1>6, <1>7, <1>8 DEF Next, CallerStep

LEMMA AlwaysPolled == Spec => [](Types /\ Polled)
BY TypesInit, PolledInit, TypesStep, PolledStep, PTL DEF Spec

(* The references that are held, one by one.                                *)
LEMMA HoldersAre ==
    ASSUME mcdi \in Iface, NEW c \in Cmds
    PROVE  Holders(c) = Flag(c \in mcdi.list) + Flag(mcdi.work[c] = "armed") + Flag(running[c])
                        + Cardinality(Lists(mcdi, c))
  <1> DEFINE a == c \in mcdi.list
             b == mcdi.work[c] = "armed"
             r == running[c] = TRUE
             L == IF a THEN {"list"} ELSE {}
             W == IF b THEN L \cup {"work"} ELSE L
             H == {x \in {"list", "work", "running"} : \/ x = "list" /\ c \in mcdi.list
                                                       \/ x = "work" /\ mcdi.work[c] = "armed"
                                                       \/ x = "running" /\ running[c]}
  <1>1. IsFiniteSet(L) /\ Cardinality(L) = Flag(a)
    BY FS_EmptySet, FS_Singleton DEF Flag
  <1>2. "work" \notin L
    OBVIOUS
  <1> HIDE DEF L
  <1>3. IsFiniteSet(W) /\ Cardinality(W) = Flag(a) + Flag(b)
    BY <1>1, <1>2, FS_AddElement DEF Flag
  <1>4. "running" \notin W
    BY DEF L
  <1>5. H = IF running[c] THEN W \cup {"running"} ELSE W
    BY DEF L
  <1> HIDE DEF W
  <1>6. Cardinality(H) = Flag(a) + Flag(b) + Flag(running[c])
    <2>1. CASE running[c]
      <3>1. Cardinality(W \cup {"running"}) = Cardinality(W) + 1
        BY <1>3, <1>4, FS_AddElement
      <3>2. H = W \cup {"running"}
        BY <1>5, <2>1
      <3> HIDE DEF H
      <3>3. Cardinality(H) = Cardinality(W) + 1
        BY <3>1, <3>2, Zenon
      <3> QED  BY <1>3, <2>1, <3>3 DEF Flag
    <2>2. CASE ~running[c]
      <3>1. H = W
        BY <1>5, <2>2
      <3> HIDE DEF H
      <3>2. Cardinality(H) = Cardinality(W)
        BY <3>1, Zenon
      <3> QED  BY <1>3, <2>2, <3>2 DEF Flag
    <2> QED  BY <2>1, <2>2
  <1>7. Holders(c) = Cardinality(H) + Cardinality(Lists(mcdi, c))
    BY DEF Holders, Lists
  <1> QED  BY <1>6, <1>7

(* There is a reference to a command for each of the list, its armed work   *)
(* item, the work item's function and a cleanup list that points to it, and *)
(* none besides, as long as the event queues are not started: the count is  *)
(* exact however polling, timeout, cancellation and reset interleave.       *)
THEOREM PolledRefsExact == Spec => [](~setting.interrupts => RefsExact)
  <1>1. Types /\ Polled => (~setting.interrupts => RefsExact)
    <2> SUFFICES ASSUME Types, Polled, ~setting.interrupts, NEW c \in Cmds
                 PROVE  mcdi.ref[c] = Holders(c)
      BY DEF RefsExact
    <2>1. mcdi \in Iface /\ Surplus(mcdi, c) = Flag(running[c])
      BY DEF Types, Polled, Polls, Exact
    <2>2. Flag(running[c]) \in Int
      BY DEF Flag
    <2> QED  BY <2>1, <2>2, HoldersAre, Numbers DEF Surplus
  <1> QED  BY <1>1, AlwaysPolled, PTL

(* ... so that none is freed too early.                                     *)
THEOREM PolledNoEarlyFree == Spec => [](~setting.interrupts => NoEarlyFree)
  <1>1. Types /\ RefsExact => NoEarlyFree
    BY DEF Types, Iface, RefsExact, NoEarlyFree
  <1> QED  BY <1>1, PolledRefsExact, AlwaysTypes, PTL

(* The buffer that efx_mcdi_complete_cmd reads for a running command is in  *)
(* use and holds that command and its answer: only the command that has the *)
(* doorbell runs.                                                           *)
THEOREM PolledMailIsOwn == Spec => [](~setting.interrupts => MailIsOwn)
  <1>1. Types /\ Polled => (~setting.interrupts => MailIsOwn)
    <2> SUFFICES ASSUME Types, Polled, ~setting.interrupts, NEW c \in mcdi.list,
                        mcdi.state[c] \in Running
                 PROVE  mcdi.buf /\ mcdi.mail.cmd = c
      BY DEF MailIsOwn
    <2>1. c \in Cmds
      BY DEF Types, Iface
    <2>2. ~Resting(mcdi, running, caller, c)
      BY StatesDiffer DEF Resting
    <2>3. Working(mcdi, running, caller, c)
      BY <2>1, <2>2 DEF Polled, Polls, Fine
    <2> QED  BY <2>3 DEF Working
  <1> QED  BY <1>1, AlwaysPolled, PTL

(* efx_mcdi_mode_fail, which cancels the first command of the list until    *)
(* there is none, comes to an end: the command that timed out is off the    *)
(* list and all the others were never sent or are to be sent again.         *)
THEOREM PolledFailEmpties == Spec => [](~setting.interrupts => FailEmpties)
  <1>1. Types /\ Polled => (~setting.interrupts => FailEmpties)
    BY DEF Polled, Polls, Failing, FailEmpties
  <1> QED  BY <1>1, AlwaysPolled, PTL

(* When efx_mcdi_flushed holds, no work item is armed and every call that   *)
(* waits has had its completer called.                                      *)
THEOREM PolledFlushedQuiet == Spec => [](~setting.interrupts => FlushedQuiet)
  <1>1. Types /\ Polled => (~setting.interrupts => FlushedQuiet)
    <2> SUFFICES ASSUME Types, Polled, ~setting.interrupts, Flushed, NEW c \in Cmds
                 PROVE  mcdi.work[c] = "idle" /\ (caller[c] = "waiting" => mcdi.called[c] > 0)
      BY DEF FlushedQuiet
    <2>1. mcdi \in Iface /\ Polls(mcdi, running, caller)
      BY DEF Types, Polled
    <2>2. mcdi.cleanup = {}
      <3>1. mcdi.outstanding = 0 /\ Unlisted(mcdi) = 0
        BY <2>1 DEF Flushed, Polls, Exact
      <3>2. IsFiniteSet(mcdi.cleanup) /\ Cardinality(mcdi.cleanup) \in Nat
        BY <2>1, ListsFinite
      <3>3. Cardinality(mcdi.cleanup) = 0
        BY <3>1, <3>2 DEF Unlisted
      <3> QED  BY <3>2, <3>3, FS_EmptySet
    <2>3. Lists(mcdi, c) = {} /\ c \notin mcdi.list
      BY <2>2 DEF Lists, Flushed
    <2>4. Resting(mcdi, running, caller, c)
      BY <2>1, <2>3 DEF Polls, Fine, Working
    <2> QED  BY <2>3, <2>4 DEF Resting, Issued
  <1> QED  BY <1>1, AlwaysPolled, PTL

---------------------------------------------------------------------------
(* No completer is called twice                                             *)

(* How often the completer of a command was called, is to be called for a   *)
(* cleanup list, and is to be called for the list of commands.              *)
Due(m, d) == m.called[d] + Cardinality(Lists(m, d))
             + Flag(d \in m.list /\ m.state[d] \notin Cancelled)

(* A step makes no call due, and no answer appears in the mailbox.          *)
NoneAdded(m, n) == /\ \A d \in Cmds : Due(n, d) <= Due(m, d)
                   /\ n.mail = m.mail \/ n.mail.reply = "none"

LEMMA DueIs ==
    ASSUME NEW m \in Iface, NEW c \in Cmds
    PROVE  m.called[c] \in Nat /\ Cardinality(Lists(m, c)) \in Nat /\ Due(m, c) \in Nat
  <1>1. m.called[c] \in Nat /\ Cardinality(Lists(m, c)) \in Nat
    BY ListsFinite DEF Iface
  <1> QED  BY <1>1 DEF Due, Flag

LEMMA NoneAddedTwice ==
    ASSUME NEW m \in Iface, NEW n \in Iface, NEW k \in Iface, NoneAdded(m, n), NoneAdded(n, k)
    PROVE  NoneAdded(m, k)
  <1>1. ASSUME NEW d \in Cmds  PROVE Due(k, d) <= Due(m, d)
    <2>1. Due(m, d) \in Nat /\ Due(n, d) \in Nat /\ Due(k, d) \in Nat
      BY DueIs
    <2>2. Due(k, d) <= Due(n, d) /\ Due(n, d) <= Due(m, d)
      BY DEF NoneAdded
    <2> QED  BY <2>1, <2>2
  <1>2. k.mail = m.mail \/ k.mail.reply = "none"
    BY DEF NoneAdded
  <1> QED  BY <1>1, <1>2 DEF NoneAdded

LEMMA SameDue ==
    ASSUME NEW m \in Iface, NEW n \in Iface, n.called = m.called, n.cleanup = m.cleanup,
           n.list \subseteq m.list, n.mail = m.mail \/ n.mail.reply = "none",
           \A d \in n.list : n.state[d] \notin Cancelled => m.state[d] \notin Cancelled
    PROVE  NoneAdded(m, n)
  <1>1. ASSUME NEW d \in Cmds  PROVE Due(n, d) <= Due(m, d)
    <2>1. n.called[d] = m.called[d] /\ Lists(n, d) = Lists(m, d)
      BY DEF Lists
    <2>2. m.called[d] \in Nat /\ Cardinality(Lists(m, d)) \in Nat
      BY DueIs
    <2>3. d \in n.list /\ n.state[d] \notin Cancelled => d \in m.list /\ m.state[d] \notin Cancelled
      OBVIOUS
    <2> QED  BY <2>1, <2>2, <2>3 DEF Due, Flag
  <1> QED  BY <1>1 DEF NoneAdded

LEMMA RemoveAdds ==
    ASSUME NEW m \in Iface, NEW c \in Cmds, NEW ctx \in Contexts,
           c \in m.list, ctx \notin Lists(m, c)
    PROVE  NoneAdded(m, Remove(m, ctx, c))
  <1> DEFINE n == Remove(m, ctx, c)
  <1>1. /\ n \in Iface /\ SameBox(m, n)
        /\ n.list = m.list \ {c} /\ n.state = [m.state EXCEPT ![c] = "FINISHED"]
    BY RemoveIs
  <1>2. \A d \in Cmds : d # c => Lists(n, d) = Lists(m, d) /\ n.called[d] = m.called[d]
    BY RemoveBooks
  <1>3. n.called[c] + Cardinality(Lists(n, c)) =
           m.called[c] + Cardinality(Lists(m, c)) + (IF m.state[c] \in Cancelled THEN 0 ELSE 1)
    BY RemoveBooks
  <1> HIDE DEF n
  <1>4. m.state \in [Cmds -> States]
    BY DEF Iface
  <1>5. ASSUME NEW d \in Cmds  PROVE Due(n, d) <= Due(m, d)
    <2>1. /\ m.called[d] \in Nat /\ Cardinality(Lists(m, d)) \in Nat
          /\ n.called[d] \in Nat /\ Cardinality(Lists(n, d)) \in Nat
      BY <1>1, DueIs
    <2>2. CASE d = c
      <3>1. c \notin n.list
        BY <1>1
      <3> QED  BY <1>3, <2>1, <2>2, <3>1 DEF Due, Flag
    <2>3. CASE d # c
      <3>1. n.state[d] = m.state[d] /\ (d \in n.list <=> d \in m.list)
        BY <1>1, <1>4, <2>3
      <3> QED  BY <1>2, <2>1, <2>3, <3>1 DEF Due, Flag
    <2> QED  BY <2>2, <2>3
  <1> QED  BY <1>1, <1>5 DEF NoneAdded, SameBox, n

LEMMA ModeFailAdds ==
    ASSUME NEW m \in Iface, NEW ctx \in Contexts,
           \A c \in m.list : Waits(m.state[c]) /\ Lists(m, c) = {}
    PROVE  NoneAdded(m, ModeFail(m, ctx))
  <1> DEFINE n == ModeFail(m, ctx)
  <1>1. n \in Iface /\ n.list = m.list \ Waiting(m) /\ n.mail = m.mail
    BY ModeFailIs
  <1>2. m.list \in SUBSET Cmds
    BY DEF Iface
  <1>3. n.list = {}
    BY <1>1 DEF Waiting
  <1>4. Told(m) = m.list
    BY <1>2, StatesDiffer DEF Told
  <1>5. \A c \in Cmds :
           /\ c \notin m.list => Lists(n, c) = Lists(m, c) /\ n.called[c] = m.called[c]
           /\ c \in Told(m) => n.called[c] + Cardinality(Lists(n, c)) =
                                  m.called[c] + Cardinality(Lists(m, c)) + 1
    BY ModeFailBooks
  <1> HIDE DEF n
  <1>6. ASSUME NEW d \in Cmds  PROVE Due(n, d) <= Due(m, d)
    <2>1. /\ m.called[d] \in Nat /\ Cardinality(Lists(m, d)) \in Nat
          /\ n.called[d] \in Nat /\ Cardinality(Lists(n, d)) \in Nat
      BY <1>1, DueIs
    <2>2. Due(n, d) = n.called[d] + Cardinality(Lists(n, d))
      BY <1>3, <2>1 DEF Due, Flag
    <2>3. CASE d \in m.list
      <3>1. m.state[d] \notin Cancelled
        BY <2>3, StatesDiffer
      <3>2. Due(m, d) = m.called[d] + Cardinality(Lists(m, d)) + 1
        BY <2>3, <3>1 DEF Due, Flag
      <3> QED  BY <1>4, <1>5, <2>2, <2>3, <3>2, <2>1
    <2>4. CASE d \notin m.list
      <3>1. Due(m, d) = m.called[d] + Cardinality(Lists(m, d))
        BY <2>1, <2>4 DEF Due, Flag
      <3> QED  BY <1>5, <2>1, <2>2, <2>4, <3>1
    <2> QED  BY <2>3, <2>4
  <1> QED  BY <1>1, <1>6 DEF NoneAdded, n

LEMMA StartsUnanswered ==
    ASSUME NEW m \in Iface, NEW c \in Cmds, FreeSeqs(m) # {}
    PROVE  Start(m, c).mail.reply = "none"
  <1> DEFINE t == Transmit(m, c)
  <1>1. t \in Iface /\ t.mail = [cmd |-> c, evreq |-> m.mode = "EVENTS", reply |-> "none"]
    BY TransmitIs
  <1> HIDE DEF t
  <1>2. Arm(t, c).mail = t.mail
    BY <1>1, ArmIs DEF SameBox
  <1> QED  BY <1>1, <1>2 DEF Start, t

LEMMA AdvanceAdds ==
    ASSUME NEW m \in Iface, NEW retry \in BOOLEAN
    PROVE  NoneAdded(m, Advance(m, retry))
  <1> DEFINE S == Ready(m, retry)
             q == Requeue(m, S)
             n == Advance(m, retry)
  <1>1. S \in SUBSET Cmds
    BY DEF Ready, Iface
  <1>2. /\ S # {} /\ CanStart(m) => \E c \in S : n = Start(q, c) /\ FreeSeqs(q) # {}
        /\ ~(S # {} /\ CanStart(m)) => n = q
        /\ n \in Iface
    BY AdvanceIs
  <1>3. \A c \in S : Waits(m.state[c])
    BY DEF Ready, Waits
  <1> HIDE DEF S
  <1>4. /\ q \in Iface
        /\ q.state = [c \in Cmds |-> IF c \in S THEN "QUEUED" ELSE m.state[c]]
        /\ SameBox(m, q) /\ SameCleanup(m, q) /\ q.list = m.list
    BY <1>1, RequeueIs
  <1> HIDE DEF q, n
  <1>5. m.list \in SUBSET Cmds /\ q.state \in [Cmds -> States]
    BY <1>4 DEF Iface
  <1>6. \A d \in q.list : q.state[d] \notin Cancelled => m.state[d] \notin Cancelled
    BY <1>3, <1>4, <1>5, StatesDiffer
  <1>7. NoneAdded(m, q)
    BY <1>4, <1>6, SameDue DEF SameBox, SameCleanup
  <1>8. CASE ~(S # {} /\ CanStart(m))
    BY <1>2, <1>7, <1>8 DEF n
  <1>9. CASE S # {} /\ CanStart(m)
    <2>1. PICK c \in S : n = Start(q, c) /\ FreeSeqs(q) # {}
      BY <1>2, <1>9
    <2>2. c \in Cmds
      BY <1>1
    <2>3. /\ n.state = [q.state EXCEPT ![c] = "RUNNING"]
          /\ n.list = q.list /\ SameCleanup(q, n)
      BY <1>4, <2>1, <2>2, StartIs
    <2>3a. n.mail.reply = "none"
      BY <1>4, <2>1, <2>2, StartsUnanswered
    <2>4. q.state[c] \notin Cancelled
      BY <1>4, <2>2 DEF Cancelled
    <2>5. \A d \in n.list : n.state[d] \notin Cancelled => q.state[d] \notin Cancelled
      BY <1>4, <1>5, <2>2, <2>3, <2>4
    <2>6. NoneAdded(q, n)
      BY <1>2, <1>4, <2>3, <2>3a, <2>5, SameDue DEF SameCleanup
    <2> QED  BY <1>2, <1>4, <1>7, <2>6, NoneAddedTwice DEF n
  <1> QED  BY <1>8, <1>9

LEMMA SettleAdds ==
    ASSUME NEW m \in Iface, NEW c \in Cmds, NEW ctx \in Contexts, NEW code \in Codes,
           code # "PROXY", c \in m.list, ctx \notin Lists(m, c)
    PROVE  Settle(m, ctx, c, code) \in Iface /\ NoneAdded(m, Settle(m, ctx, c, code))
  <1> DEFINE f == FreeDoorbell(m, c)
             n == Settle(m, ctx, c, code)
  <1>1. n \in Iface
    BY SettleType
  <1>2. /\ f \in Iface /\ f.mail = m.mail
        /\ SameCmds(m, f) /\ SameCleanup(m, f)
    BY FreeDoorbellIs
  <1>3. n = CASE m.state[c] \in Cancelled                    -> Unlink(f, c)
              [] code = "FULL" /\ m.state[c] \notin Cancelled -> [f EXCEPT !.state[c] = "RETRY"]
              [] OTHER                                       -> Remove(WithRc(f, c, code), ctx, c)
    BY DEF Settle
  <1> HIDE DEF f, n
  <1>4. NoneAdded(m, f)
    BY <1>2, SameDue DEF SameCmds, SameCleanup
  <1>5. /\ c \in f.list /\ ctx \notin Lists(f, c) /\ f.state[c] = m.state[c]
        /\ f.state \in [Cmds -> States]
    BY <1>2 DEF SameCmds, SameCleanup, Lists, Iface
  <1>6. CASE m.state[c] \in Cancelled
    <2>1. n = Unlink(f, c)
      BY <1>3, <1>6
    <2>2. n.list = f.list \ {c} /\ SameBox(f, n) /\ SameCleanup(f, n) /\ n.state = f.state
      BY <1>2, <2>1, UnlinkIs
    <2>3. NoneAdded(f, n)
      BY <1>1, <1>2, <2>2, SameDue DEF SameBox, SameCleanup
    <2> QED  BY <1>1, <1>2, <1>4, <2>3, NoneAddedTwice DEF n
  <1>7. CASE code = "FULL" /\ m.state[c] \notin Cancelled
    <2>1. n = [f EXCEPT !.state[c] = "RETRY"]
      BY <1>3, <1>7
    <2>2. /\ n.state = [f.state EXCEPT ![c] = "RETRY"]
          /\ SameBox(f, n) /\ SameCleanup(f, n) /\ n.list = f.list
      BY <1>2, <2>1, SetState, StateNames
    <2>3. \A d \in n.list : n.state[d] \notin Cancelled => f.state[d] \notin Cancelled
      BY <1>5, <1>7, <2>2
    <2>4. NoneAdded(f, n)
      BY <1>1, <1>2, <2>2, <2>3, SameDue DEF SameBox, SameCleanup
    <2> QED  BY <1>1, <1>2, <1>4, <2>4, NoneAddedTwice DEF n
  <1>8. CASE code # "FULL" /\ m.state[c] \notin Cancelled
    <2> DEFINE w == WithRc(f, c, code)
    <2>1. n = Remove(w, ctx, c)
      BY <1>3, <1>8
    <2>2. w \in Iface /\ SameBox(f, w) /\ SameCmds(f, w) /\ SameCleanup(f, w)
      BY <1>2, WithRcIs
    <2> HIDE DEF w
    <2>3. NoneAdded(f, w)
      BY <1>2, <2>2, SameDue DEF SameBox, SameCmds, SameCleanup
    <2>4. c \in w.list /\ ctx \notin Lists(w, c)
      BY <1>5, <2>2 DEF SameCmds, SameCleanup, Lists
    <2>5. NoneAdded(w, n)
      BY <2>1, <2>2, <2>4, RemoveAdds
    <2>6. NoneAdded(m, w)
      BY <1>2, <1>4, <2>2, <2>3, NoneAddedTwice
    <2> QED  BY <1>1, <2>2, <2>5, <2>6, NoneAddedTwice DEF n
  <1> QED  BY <1>6, <1>7, <1>8

LEMMA CompleteAdds ==
    ASSUME NEW m \in Iface, NEW c \in Cmds, NEW ctx \in Contexts, NEW code \in Codes,
           code # "PROXY", c \in m.list, ctx \notin Lists(m, c)
    PROVE  Complete(m, ctx, c, code) \in Iface /\ NoneAdded(m, Complete(m, ctx, c, code))
  <1> DEFINE k == Settle(m, ctx, c, code)
             s == [k EXCEPT !.held[m.seq[c]] = NoCmd, !.buf = FALSE]
             n == Complete(m, ctx, c, code)
             retry == code # "FULL"
  <1>1. n = Advance(s, retry) /\ retry \in BOOLEAN
    BY DEF Complete
  <1>2. k \in Iface /\ NoneAdded(m, k)
    BY SettleAdds
  <1>3. m.seq[c] \in Seqs
    BY DEF Iface
  <1> HIDE DEF k
  <1>4. s \in Iface /\ s.mail = k.mail /\ SameCmds(k, s) /\ SameCleanup(k, s)
    BY <1>2, <1>3, FreeMailbox
  <1> HIDE DEF s, retry, n
  <1>5. NoneAdded(k, s)
    BY <1>2, <1>4, SameDue DEF SameCmds, SameCleanup
  <1>6. NoneAdded(s, n)
    BY <1>1, <1>4, AdvanceAdds
  <1>7. n \in Iface
    BY CompleteIs DEF n
  <1>8. NoneAdded(m, s)
    BY <1>2, <1>4, <1>5, NoneAddedTwice
  <1> QED  BY <1>4, <1>6, <1>7, <1>8, NoneAddedTwice DEF n

LEMMA TimeoutAdds ==
    ASSUME NEW m \in Iface, NEW c \in Cmds, NEW ctx \in Contexts,
           c \in m.list, ctx \notin Lists(m, c),
           \A d \in m.list : d # c => Waits(m.state[d]) /\ Lists(m, d) = {}
    PROVE  ProxyTimeout(m, ctx, c) \in Iface /\ NoneAdded(m, ProxyTimeout(m, ctx, c))
  <1> DEFINE w == WithRc(m, c, "ETIMEDOUT")
             r == Remove(w, ctx, c)
             n == ModeFail(r, ctx)
  <1>1. w \in Iface /\ SameBox(m, w) /\ SameCmds(m, w) /\ SameCleanup(m, w)
    BY WithRcIs DEF Codes
  <1> HIDE DEF w
  <1>2. NoneAdded(m, w)
    BY <1>1, SameDue DEF SameBox, SameCmds, SameCleanup
  <1>3. c \in w.list /\ ctx \notin Lists(w, c)
    BY <1>1 DEF SameCmds, SameCleanup, Lists
  <1>4. NoneAdded(w, r)
    BY <1>1, <1>3, RemoveAdds
  <1>5. /\ r \in Iface /\ r.list = w.list \ {c} /\ r.state = [w.state EXCEPT ![c] = "FINISHED"]
    BY <1>1, RemoveIs
  <1>6. \A d \in Cmds : d # c => Lists(r, d) = Lists(w, d)
    BY <1>1, <1>3, RemoveBooks
  <1> HIDE DEF r
  <1>7. w.list \in SUBSET Cmds /\ w.state \in [Cmds -> States]
    BY <1>1 DEF Iface
  <1>8. \A d \in r.list : Waits(r.state[d]) /\ Lists(r, d) = {}
    <2> SUFFICES ASSUME NEW d \in r.list  PROVE Waits(r.state[d]) /\ Lists(r, d) = {}
      OBVIOUS
    <2>1. d \in Cmds /\ d # c /\ d \in m.list
      BY <1>1, <1>5, <1>7 DEF SameCmds
    <2>2. r.state[d] = m.state[d]
      BY <1>1, <1>5, <1>7, <2>1 DEF SameCmds
    <2>3. Lists(r, d) = Lists(m, d)
      BY <1>1, <1>6, <2>1 DEF SameCleanup, Lists
    <2> QED  BY <2>1, <2>2, <2>3
  <1>9. NoneAdded(r, n)
    BY <1>5, <1>8, ModeFailAdds
  <1>10. n \in Iface
    BY <1>5, ModeFailIs
  <1> HIDE DEF n
  <1>11. NoneAdded(m, r)
    BY <1>1, <1>2, <1>4, <1>5, NoneAddedTwice
  <1>12. NoneAdded(m, n)
    BY <1>5, <1>9, <1>10, <1>11, NoneAddedTwice
  <1> QED  BY <1>10, <1>12 DEF ProxyTimeout, n, r, w

LEMMA NotifyAdds ==
    ASSUME NEW m \in Iface, NEW c \in Cmds, NEW ctx \in Contexts, m.state[c] \notin Cancelled
    PROVE  LET n == Notify(m, ctx, c)
           IN  /\ n \in Iface /\ SameBox(m, n) /\ SameCmds(m, n)
               /\ \A d \in Cmds : d # c => Lists(n, d) = Lists(m, d) /\ n.called[d] = m.called[d]
               /\ n.called[c] + Cardinality(Lists(n, c)) <=
                     m.called[c] + Cardinality(Lists(m, c)) + 1
  <1> DEFINE n == Notify(m, ctx, c)
  <1>1. n \in Iface /\ SameBox(m, n) /\ SameCmds(m, n)
    BY NotifyIs
  <1>2. m.called[c] \in Nat /\ Cardinality(Lists(m, c)) \in Nat
    BY DueIs
  <1>3. CASE ctx \notin Lists(m, c)
    <2>1. /\ \A d \in Cmds : d # c => Lists(n, d) = Lists(m, d) /\ n.called[d] = m.called[d]
          /\ c \in Atomic => Lists(n, c) = Lists(m, c) /\ n.called[c] = m.called[c] + 1
          /\ c \notin Atomic => Lists(n, c) = Lists(m, c) \cup {ctx} /\ n.called[c] = m.called[c]
      BY <1>3, NotifyTells
    <2> HIDE DEF n
    <2>2. Cardinality(Lists(m, c) \cup {ctx}) = Cardinality(Lists(m, c)) + 1
      BY <1>3, ListsFinite, FS_AddElement
    <2>3. n.called[c] + Cardinality(Lists(n, c)) = m.called[c] + Cardinality(Lists(m, c)) + 1
      <3>1. CASE c \in Atomic
        <4>1. n.called[c] = m.called[c] + 1
          BY <2>1, <3>1
        <4>2. Cardinality(Lists(n, c)) = Cardinality(Lists(m, c))
          BY <2>1, <3>1, Zenon
        <4> QED  BY <1>2, <4>1, <4>2
      <3>2. CASE c \notin Atomic
        <4>1. n.called[c] = m.called[c]
          BY <2>1, <3>2
        <4>2. Cardinality(Lists(n, c)) = Cardinality(Lists(m, c)) + 1
          BY <2>1, <2>2, <3>2, Zenon
        <4> QED  BY <1>2, <4>1, <4>2
      <3> QED  BY <3>1, <3>2
    <2> QED  BY <1>1, <1>2, <2>1, <2>3 DEF n
  <1>4. CASE ctx \in Lists(m, c) /\ c \in Atomic
    <2>1. n = Called(m, c)
      BY <1>4 DEF Notify
    <2>2. n.called = [m.called EXCEPT ![c] = @ + 1] /\ n.cleanup = m.cleanup
      BY <2>1, CalledIs
    <2> HIDE DEF n
    <2>3. \A d \in Cmds : /\ Lists(n, d) = Lists(m, d)
                          /\ n.called[d] = IF d = c THEN m.called[d] + 1 ELSE m.called[d]
      BY <2>2 DEF Lists, Iface
    <2> QED  BY <1>1, <1>2, <2>3 DEF n
  <1>5. CASE ctx \in Lists(m, c) /\ c \notin Atomic
    <2> DEFINE k == [Get(m, c) EXCEPT !.cleanup = @ \cup {<<ctx, c>>}, !.outstanding = @ + 1]
    <2>1. k.cleanup = m.cleanup \cup {<<ctx, c>>} /\ k.called = m.called
      BY ZenonT(40), ListedForCleanup
    <2>2. n = k
      BY <1>5 DEF Notify
    <2> HIDE DEF k, n
    <2>3. n.cleanup = m.cleanup /\ n.called = m.called
      BY <1>5, <2>1, <2>2 DEF Lists
    <2>4. \A d \in Cmds : Lists(n, d) = Lists(m, d) /\ n.called[d] = m.called[d]
      BY <2>3 DEF Lists
    <2> QED  BY <1>1, <1>2, <2>4 DEF n
  <1> QED  BY <1>3, <1>4, <1>5

LEMMA CancelAdds ==
    ASSUME NEW m \in Iface, NEW c \in Cmds, c \in m.list,
           Waits(m.state[c]) => Lists(m, c) = {}
    PROVE  NoneAdded(m, CancelCmd(m, "caller", c))
  <1> DEFINE p == WithRc(m, c, "EPIPE")
             n == CancelCmd(m, "caller", c)
  <1>1. p \in Iface /\ SameBox(m, p) /\ SameCmds(m, p) /\ SameCleanup(m, p)
    BY WithRcIs DEF Codes
  <1>2. n = CASE Waits(m.state[c])                  -> Remove(p, "caller", c)
              [] m.state[c] \in {"RUNNING", "PROXY"} ->
                    [Notify(p, "caller", c) EXCEPT !.state[c] = Mark(@)]
              [] OTHER                               -> m
    BY DEF CancelCmd, Waits
  <1>3. n \in Iface /\ "caller" \in Contexts
    BY CancelCmdType DEF Contexts
  <1> HIDE DEF p, n
  <1>4. NoneAdded(m, p)
    BY <1>1, SameDue DEF SameBox, SameCmds, SameCleanup
  <1>5. c \in p.list /\ p.state[c] = m.state[c] /\ Lists(p, c) = Lists(m, c)
    BY <1>1 DEF SameCmds, SameCleanup, Lists
  <1>6. CASE Waits(m.state[c])
    <2>1. n = Remove(p, "caller", c)
      BY <1>2, <1>6 DEF Waits
    <2>2. NoneAdded(p, n)
      BY <1>1, <1>3, <1>5, <1>6, <2>1, RemoveAdds
    <2> QED  BY <1>1, <1>3, <1>4, <2>2, NoneAddedTwice DEF n
  <1>7. CASE m.state[c] \in {"RUNNING", "PROXY"}
    <2> DEFINE t == Notify(p, "caller", c)
               s == Mark(t.state[c])
    <2>1. p.state[c] \notin Cancelled
      BY <1>5, <1>7 DEF Cancelled
    <2>2. /\ t \in Iface /\ SameBox(p, t) /\ SameCmds(p, t)
          /\ \A d \in Cmds : d # c => Lists(t, d) = Lists(p, d) /\ t.called[d] = p.called[d]
          /\ t.called[c] + Cardinality(Lists(t, c)) <= p.called[c] + Cardinality(Lists(p, c)) + 1
      BY <1>1, <1>3, <2>1, NotifyAdds
    <2>3. n = [t EXCEPT !.state[c] = Mark(@)]
      BY <1>2, <1>7 DEF Waits
    <2> HIDE DEF t
    <2>4. t.state[c] = m.state[c] /\ t.state \in [Cmds -> States]
      BY <1>5, <2>2 DEF SameCmds, Iface
    <2>5. s \in Cancelled /\ s \in States
      BY <1>7, <2>4, StateNames DEF Mark, Cancelled
    <2>6. n = [t EXCEPT !.state[c] = s]
      BY <2>2, <2>3, <2>4 DEF Iface
    <2> HIDE DEF s
    <2>7. /\ n.state = [t.state EXCEPT ![c] = s]
          /\ SameBox(t, n) /\ SameCleanup(t, n) /\ n.list = t.list
      BY <2>2, <2>5, <2>6, SetState
    <2>8. ASSUME NEW d \in Cmds  PROVE Due(n, d) <= Due(p, d)
      <3>1. Lists(n, d) = Lists(t, d) /\ n.called[d] = t.called[d]
        BY <2>7 DEF SameCleanup, Lists
      <3>2. /\ p.called[d] \in Nat /\ Cardinality(Lists(p, d)) \in Nat
            /\ t.called[d] \in Nat /\ Cardinality(Lists(t, d)) \in Nat
        BY <1>1, <2>2, DueIs
      <3>3. CASE d = c
        <4>1. n.state[c] \in Cancelled
          BY <2>4, <2>5, <2>7
        <4>2. Due(n, d) = t.called[d] + Cardinality(Lists(t, d))
          BY <3>1, <3>2, <3>3, <4>1 DEF Due, Flag
        <4>3. Due(p, d) = p.called[d] + Cardinality(Lists(p, d)) + 1
          BY <1>5, <2>1, <3>2, <3>3 DEF Due, Flag
        <4> QED  BY <2>2, <3>2, <3>3, <4>2, <4>3
      <3>4. CASE d # c
        <4>1. n.state[d] = p.state[d] /\ n.list = p.list
          BY <2>2, <2>4, <2>7, <3>4 DEF SameCmds
        <4> QED  BY <2>2, <3>1, <3>2, <3>4, <4>1 DEF Due, Flag
      <3> QED  BY <3>3, <3>4
    <2>9. n.mail = p.mail
      BY <2>2, <2>7 DEF SameBox
    <2>10. NoneAdded(p, n)
      BY <2>8, <2>9 DEF NoneAdded
    <2> QED  BY <1>1, <1>3, <1>4, <2>10, NoneAddedTwice DEF n
  <1>8. CASE ~Waits(m.state[c]) /\ m.state[c] \notin {"RUNNING", "PROXY"}
    BY <1>2, <1>8, SameDue DEF n
  <1> QED  BY <1>6, <1>7, <1>8

(* A command that is issued has its completer to be called, once.           *)
LEMMA IssuedDue ==
    ASSUME NEW m \in Iface, NEW n \in Iface, NEW c \in Cmds,
           \A d \in Cmds : Due(m, d) <= 1, m.called[c] = 0, Lists(m, c) = {},
           SameCleanup(m, n), n.list = m.list \cup {c},
           \A d \in Cmds : d # c => n.state[d] = m.state[d]
    PROVE  \A d \in Cmds : Due(n, d) <= 1
  <1> SUFFICES ASSUME NEW d \in Cmds  PROVE Due(n, d) <= 1
    OBVIOUS
  <1>1. n.called[d] = m.called[d] /\ Lists(n, d) = Lists(m, d)
    BY DEF SameCleanup, Lists
  <1>2. CASE d = c
    <2>1. Cardinality(Lists(n, d)) = 0 /\ n.called[d] = 0
      BY <1>1, <1>2, FS_EmptySet
    <2> QED  BY <2>1 DEF Due, Flag
  <1>3. CASE d # c
    <2>1. Due(n, d) = Due(m, d)
      BY <1>1, <1>3 DEF Due
    <2> QED  BY <2>1
  <1> QED  BY <1>2, <1>3

Paid(m) == /\ \A d \in Cmds : Due(m, d) <= 1
           /\ m.mail.reply # "PROXY"

LEMMA StillPaid ==
    ASSUME NEW m \in Iface, NEW n \in Iface, Paid(m), NoneAdded(m, n)
    PROVE  Paid(n)
  <1>1. ASSUME NEW d \in Cmds  PROVE Due(n, d) <= 1
    <2>1. Due(m, d) \in Nat /\ Due(n, d) \in Nat
      BY DueIs
    <2> QED  BY <2>1 DEF Paid, NoneAdded
  <1> QED  BY <1>1 DEF Paid, NoneAdded

(* Putting a reference changes nothing that is due.                         *)
LEMMA PutAdds ==
    ASSUME NEW m \in Iface, NEW c \in Cmds
    PROVE  Put(m, c) \in Iface /\ NoneAdded(m, Put(m, c))
  <1> DEFINE n == Put(m, c)
  <1>1. n \in Iface /\ SameBox(m, n) /\ SameCmds(m, n) /\ SameCleanup(m, n)
    BY PutIs
  <1> HIDE DEF n
  <1> QED  BY <1>1, SameDue DEF SameBox, SameCmds, SameCleanup, n

LEMMA CallPaid ==
    ASSUME mcdi \in Iface, Rest, Polls(mcdi, running, caller), Paid(mcdi),
           "PROXY" \notin setting.answers, NEW c \in Cmds, Queue(c) \/ Send(c) \/ SendAndPoll(c)
    PROVE  Paid(mcdi')
  <1> DEFINE l == Listed(mcdi, c)
             t == Transmit(l, c)
  <1>1. caller[c] = "idle"
    BY DEF Queue, Send, SendAndPoll, MayCall
  <1>2. mcdi.called[c] = 0 /\ Lists(mcdi, c) = {}
    BY <1>1 DEF Polls, Fine, Resting, Working, Issued
  <1>3. /\ l \in Iface /\ l.list = mcdi.list \cup {c}
        /\ SameBox(mcdi, l) /\ SameCleanup(mcdi, l) /\ l.state = mcdi.state
    BY ListedIs
  <1> HIDE DEF l, t
  <1>4. l.state \in [Cmds -> States]
    BY <1>3 DEF Iface
  <1>5. CASE Queue(c)
    <2> DEFINE n == [l EXCEPT !.state[c] = "QUEUED"]
    <2>1. mcdi' = n
      BY <1>5 DEF Queue, l
    <2>2. /\ n \in Iface /\ n.state = [l.state EXCEPT ![c] = "QUEUED"]
          /\ SameBox(l, n) /\ SameCleanup(l, n) /\ n.list = l.list
      BY <1>3, SetState, StateNames
    <2> HIDE DEF n
    <2>3. \A d \in Cmds : d # c => n.state[d] = mcdi.state[d]
      BY <1>3, <1>4, <2>2
    <2>4. SameCleanup(mcdi, n) /\ n.list = mcdi.list \cup {c} /\ n.mail = mcdi.mail
      BY <1>3, <2>2 DEF SameCleanup, SameBox
    <2>5. \A d \in Cmds : Due(n, d) <= 1
      BY <1>2, <2>2, <2>3, <2>4, IssuedDue DEF Paid
    <2> QED  BY <2>1, <2>4, <2>5 DEF Paid
  <1>6. CanStart(mcdi) => /\ t \in Iface /\ t.mail.reply = "none" /\ Lists(t, c) = {}
                          /\ c \in t.list /\ \A d \in Cmds : Due(t, d) <= 1
    <2> SUFFICES ASSUME CanStart(mcdi)
                 PROVE  /\ t \in Iface /\ t.mail.reply = "none" /\ Lists(t, c) = {}
                        /\ c \in t.list /\ \A d \in Cmds : Due(t, d) <= 1
      OBVIOUS
    <2>1. FreeSeqs(l) # {}
      BY <1>3 DEF CanStart, FreeSeqs, SameBox
    <2>2. /\ t \in Iface
          /\ t.mail = [cmd |-> c, evreq |-> l.mode = "EVENTS", reply |-> "none"]
          /\ t.state = [l.state EXCEPT ![c] = "RUNNING"] /\ t.list = l.list /\ SameCleanup(l, t)
      BY <1>3, <2>1, TransmitIs DEF t
    <2>3. \A d \in Cmds : d # c => t.state[d] = mcdi.state[d]
      BY <1>3, <1>4, <2>2
    <2>4. SameCleanup(mcdi, t) /\ t.list = mcdi.list \cup {c}
      BY <1>3, <2>2 DEF SameCleanup
    <2>5. \A d \in Cmds : Due(t, d) <= 1
      BY <1>2, <2>2, <2>3, <2>4, IssuedDue DEF Paid
    <2>6. Lists(t, c) = {}
      BY <1>2, <2>4 DEF SameCleanup, Lists
    <2> QED  BY <2>2, <2>4, <2>5, <2>6
  <1>7. CASE Send(c)
    <2> DEFINE n == Arm(t, c)
    <2>1. mcdi' = n /\ CanStart(mcdi)
      BY <1>7 DEF Send, Start, t, l
    <2>2. n \in Iface /\ SameBox(t, n) /\ SameCmds(t, n) /\ SameCleanup(t, n)
      BY <1>6, <2>1, ArmIs
    <2> HIDE DEF n
    <2>3. NoneAdded(t, n)
      BY <1>6, <2>1, <2>2, SameDue DEF SameBox, SameCmds, SameCleanup
    <2>4. Paid(t)
      BY <1>6, <2>1 DEF Paid
    <2> QED  BY <1>6, <2>1, <2>2, <2>3, <2>4, StillPaid
  <1>8. CASE SendAndPoll(c)
    <2>1. PICK reply \in setting.answers :
             mcdi' = Complete([t EXCEPT !.mail.reply = reply], "caller", c, reply)
      BY <1>8 DEF SendAndPoll, t, l
    <2>2. reply \in Answers /\ reply \in Codes /\ reply # "PROXY" /\ "caller" \in Contexts
      BY SettingsKnown DEF Rest, Setting, Codes, Contexts
    <2>3. CanStart(mcdi)
      BY <1>8 DEF SendAndPoll
    <2> DEFINE u == [t EXCEPT !.mail.reply = reply]
               n == Complete(u, "caller", c, reply)
    <2>4. u \in Iface /\ SameCmds(t, u) /\ SameCleanup(t, u)
      BY <1>6, <2>2, <2>3, SetReply
    <2>5. u.mail.reply = reply
      BY <1>6, <2>3 DEF Iface, Mails
    <2> HIDE DEF u
    <2>6. \A d \in Cmds : Due(u, d) <= 1
      BY <1>6, <2>3, <2>4 DEF Due, SameCmds, SameCleanup, Lists
    <2>7. Paid(u)
      BY <2>2, <2>5, <2>6 DEF Paid
    <2>8. c \in u.list /\ "caller" \notin Lists(u, c)
      BY <1>6, <2>3, <2>4 DEF SameCmds, SameCleanup, Lists
    <2>9. n \in Iface /\ NoneAdded(u, n)
      BY <2>2, <2>4, <2>8, CompleteAdds
    <2> HIDE DEF n
    <2>10. Paid(n)
      BY <2>4, <2>7, <2>9, StillPaid
    <2> QED  BY <2>1, <2>10 DEF n, u
  <1> QED  BY <1>5, <1>7, <1>8

LEMMA CancelPaid ==
    ASSUME mcdi \in Iface, Polls(mcdi, running, caller), Paid(mcdi), NEW c \in Cmds, Cancel(c)
    PROVE  Paid(mcdi')
  <1>1. mcdi' = (IF c \in mcdi.list THEN CancelCmd(mcdi, "caller", c) ELSE mcdi)
    BY DEF Cancel
  <1>2. CASE c \notin mcdi.list
    BY <1>1, <1>2
  <1>3. CASE c \in mcdi.list
    <2>1. Waits(mcdi.state[c]) => Lists(mcdi, c) = {}
      BY <1>3, StatesDiffer DEF Polls, Fine, Resting, Working
    <2>2. CancelCmd(mcdi, "caller", c) \in Iface
      BY CancelCmdType DEF Contexts
    <2>3. NoneAdded(mcdi, CancelCmd(mcdi, "caller", c))
      BY <1>3, <2>1, CancelAdds
    <2> QED  BY <1>1, <1>3, <2>2, <2>3, StillPaid
  <1> QED  BY <1>2, <1>3

LEMMA CleanupPaid ==
    ASSUME mcdi \in Iface, Paid(mcdi), NEW e \in Contexts \X Cmds, ProcessCleanup(e)
    PROVE  Paid(mcdi')
  <1> DEFINE n == [Put(Called(mcdi, e[2]), e[2]) EXCEPT !.cleanup = @ \ {e}, !.outstanding = @ - 1]
             x == e[1]
             c == e[2]
  <1>0. mcdi' = n /\ e \in mcdi.cleanup
    BY DEF ProcessCleanup
  <1>1. x \in Contexts /\ c \in Cmds /\ e = <<x, c>>
    OBVIOUS
  <1>2. /\ n \in Iface
        /\ n.cleanup = mcdi.cleanup \ {e}
        /\ n.called = [mcdi.called EXCEPT ![c] = @ + 1]
        /\ SameBox(mcdi, n) /\ SameCmds(mcdi, n)
    BY Cleaned
  <1> HIDE DEF n, x, c
  <1>3. mcdi.called \in [Cmds -> Nat]
    BY DEF Iface
  <1>4. x \in Lists(mcdi, c) /\ x \notin Lists(n, c)
    BY <1>0, <1>1, <1>2 DEF Lists
  <1>5. mcdi.cleanup = n.cleanup \cup {<<x, c>>}
    BY <1>0, <1>1, <1>2
  <1>6. Lists(mcdi, c) = Lists(n, c) \cup {x}
    BY <1>1, <1>5 DEF Lists
  <1>7. Cardinality(Lists(mcdi, c)) = Cardinality(Lists(n, c)) + 1
    BY <1>1, <1>2, <1>4, <1>6, ListsFinite, FS_AddElement
  <1>8. \A d \in Cmds : d # c => Lists(mcdi, d) = Lists(n, d)
    BY <1>5 DEF Lists
  <1>9. n.list = mcdi.list /\ n.state = mcdi.state /\ n.mail = mcdi.mail
    BY <1>2 DEF SameCmds, SameBox
  <1>10. ASSUME NEW d \in Cmds  PROVE Due(n, d) = Due(mcdi, d)
    <2>1. CASE d = c
      <3>1. n.called[d] = mcdi.called[d] + 1
        BY <1>2, <1>3, <2>1
      <3>2. Cardinality(Lists(n, d)) \in Nat /\ mcdi.called[d] \in Nat
        BY <1>2, DueIs
      <3> QED  BY <1>7, <1>9, <2>1, <3>1, <3>2 DEF Due, Flag
    <2>2. CASE d # c
      <3>1. n.called[d] = mcdi.called[d] /\ Lists(n, d) = Lists(mcdi, d)
        BY <1>2, <1>3, <1>8, <2>2
      <3> QED  BY <1>9, <3>1 DEF Due
    <2> QED  BY <2>1, <2>2
  <1> QED  BY <1>0, <1>9, <1>10 DEF Paid

LEMMA WorkPaid ==
    ASSUME mcdi \in Iface, Rest, Polls(mcdi, running, caller), Paid(mcdi),
           NEW c \in Cmds, WorkStep(c)
    PROVE  Paid(mcdi')
  <1>1. ASSUME NEW late \in BOOLEAN, WorkEnter(c, late)  PROVE Paid(mcdi')
    <2> DEFINE n == [mcdi EXCEPT !.work[c] = "idle", !.expired[c] = @ \/ late]
    <2>1. mcdi' = n
      BY <1>1 DEF WorkEnter
    <2>2. n \in Iface /\ SameBox(mcdi, n) /\ SameCmds(mcdi, n) /\ SameCleanup(mcdi, n)
      BY Entered
    <2> HIDE DEF n
    <2>3. NoneAdded(mcdi, n)
      BY <2>2, SameDue DEF SameBox, SameCmds, SameCleanup
    <2> QED  BY <2>1, <2>2, <2>3, StillPaid
  <1>2. SUFFICES ASSUME \/ WorkFinished(c) \/ WorkProxyTimeout(c) \/ WorkComplete(c)
                        \/ WorkTimeout(c) \/ WorkPollAgain(c)
                 PROVE  Paid(mcdi')
    BY <1>1 DEF WorkStep
  <1>3. running[c]
    BY <1>2 DEF WorkFinished, WorkProxyTimeout, WorkComplete, WorkTimeout, WorkPollAgain, WorkLeaves
  <1> DEFINE r == [running EXCEPT ![c] = FALSE]
  <1>4. /\ Working(mcdi, r, caller, c) /\ CalmBut(mcdi, r, caller, c)
        /\ mcdi.mode = "POLL" /\ "work" \in Contexts /\ "work" \notin Lists(mcdi, c)
    BY <1>3, WorkRuns
  <1> HIDE DEF r
  <1>5. c \in mcdi.list /\ mcdi.list \in SUBSET Cmds
    BY <1>4 DEF Working, Iface
  <1>6. \A d \in mcdi.list : d # c => Waits(mcdi.state[d]) /\ Lists(mcdi, d) = {}
    BY <1>4, <1>5 DEF CalmBut, Resting
  <1>7. ASSUME NEW n \in Iface, NoneAdded(mcdi, n), mcdi' = Put(n, c)
        PROVE  Paid(mcdi')
    BY <1>7, PutAdds, StillPaid
  <1>8. CASE WorkFinished(c)
    <2>1. NoneAdded(mcdi, mcdi)
      BY SameDue
    <2> QED  BY <1>7, <1>8, <2>1 DEF WorkFinished
  <1>9. CASE WorkProxyTimeout(c)
    <2> DEFINE n == ProxyTimeout(mcdi, "work", c)
    <2>1. mcdi' = Put(n, c)
      BY <1>9 DEF WorkProxyTimeout
    <2>2. n \in Iface /\ NoneAdded(mcdi, n)
      BY <1>4, <1>5, <1>6, TimeoutAdds
    <2> HIDE DEF n
    <2> QED  BY <1>7, <2>1, <2>2
  <1>10. CASE WorkTimeout(c)
    <2> DEFINE m == [mcdi EXCEPT !.buf = FALSE]
               n == ProxyTimeout(m, "work", c)
    <2>1. mcdi' = Put(n, c)
      BY <1>10 DEF WorkTimeout, Timeout
    <2>2. m \in Iface /\ m.mail = mcdi.mail /\ SameCmds(mcdi, m) /\ SameCleanup(mcdi, m)
      BY NoBuffer
    <2> HIDE DEF m
    <2>3. NoneAdded(mcdi, m)
      BY <2>2, SameDue DEF SameCmds, SameCleanup
    <2>4. /\ c \in m.list /\ "work" \notin Lists(m, c)
          /\ \A d \in m.list : d # c => Waits(m.state[d]) /\ Lists(m, d) = {}
      BY <1>4, <1>5, <1>6, <2>2 DEF SameCmds, SameCleanup, Lists
    <2>5. n \in Iface /\ NoneAdded(m, n)
      BY <1>4, <2>2, <2>4, TimeoutAdds
    <2> HIDE DEF n
    <2>6. NoneAdded(mcdi, n)
      BY <2>2, <2>3, <2>5, NoneAddedTwice
    <2> QED  BY <1>7, <2>1, <2>5, <2>6
  <1>11. CASE WorkComplete(c)
    <2>1. CodesOf(mcdi.mail.reply) \subseteq Codes
      BY CodesOfReply DEF Iface, Mails
    <2>2. "PROXY" \notin CodesOf(mcdi.mail.reply)
      BY DEF CodesOf, Paid
    <2>3. PICK code \in CodesOf(mcdi.mail.reply) :
             \E m \in Noticed(mcdi, code) : mcdi' = Put(Complete(m, "work", c, code), c)
      BY <1>11 DEF WorkComplete
    <2>4. code \in Codes /\ code # "PROXY"
      BY <2>1, <2>2
    <2>5. Noticed(mcdi, code) \subseteq {mcdi}
      BY <1>4, ModePollIs DEF Noticed
    <2> DEFINE n == Complete(mcdi, "work", c, code)
    <2>6. mcdi' = Put(n, c)
      BY <2>3, <2>5
    <2>7. n \in Iface /\ NoneAdded(mcdi, n)
      BY <1>4, <1>5, <2>4, CompleteAdds
    <2> HIDE DEF n
    <2> QED  BY <1>7, <2>6, <2>7
  <1>12. CASE WorkPollAgain(c)
    <2> DEFINE n == Arm(mcdi, c)
    <2>1. mcdi' = Put(n, c)
      BY <1>12 DEF WorkPollAgain
    <2>2. n \in Iface /\ SameBox(mcdi, n) /\ SameCmds(mcdi, n) /\ SameCleanup(mcdi, n)
      BY ArmIs
    <2> HIDE DEF n
    <2>3. NoneAdded(mcdi, n)
      BY <2>2, SameDue DEF SameBox, SameCmds, SameCleanup
    <2> QED  BY <1>7, <2>1, <2>2, <2>3
  <1> QED  BY <1>2, <1>8, <1>9, <1>10, <1>11, <1>12

LEMMA FlrPaid ==
    ASSUME mcdi \in Iface, Polls(mcdi, running, caller), Paid(mcdi), FlrReset
    PROVE  Paid(mcdi')
  <1> DEFINE n == Flr(mcdi)
  <1>1. mcdi' = n /\ mcdi.list = {}
    BY DEF FlrReset, Polls, Failing
  <1>2. Told(mcdi) = {} /\ ToldLater(mcdi) = {}
    BY <1>1 DEF Told, ToldLater
  <1>3. /\ n \in Iface /\ n.list = {}
        /\ n.cleanup = mcdi.cleanup \cup {<<"reset", c>> : c \in ToldLater(mcdi)}
        /\ n.called = [c \in Cmds |-> IF c \in Told(mcdi) \cap Atomic THEN mcdi.called[c] + 1
                                      ELSE mcdi.called[c]]
    BY FlrIs
  <1>4. n.mail.reply = "none"
    BY DEF Flr, NoMail, Iface
  <1> HIDE DEF n
  <1>5. n.cleanup = mcdi.cleanup /\ n.called = mcdi.called
    BY <1>2, <1>3 DEF Iface
  <1>6. NoneAdded(mcdi, n)
    BY <1>1, <1>3, <1>4, <1>5, SameDue
  <1> QED  BY <1>1, <1>3, <1>6, StillPaid

(* The inductive invariant: at most one call of each completer was made or  *)
(* is due, unless commands are held back for another function.              *)
Once == ~setting.interrupts /\ "PROXY" \notin setting.answers => Paid(mcdi)

LEMMA OnceInit == Init => Once
  <1> SUFFICES ASSUME Init  PROVE Paid(mcdi)
    BY DEF Once
  <1>1. mcdi.cleanup = {} /\ mcdi.list = {} /\ mcdi.mail.reply = "none"
    BY DEF Init, NoMail
  <1>2. \A d \in Cmds : mcdi.called[d] = 0
    BY DEF Init
  <1>3. \A d \in Cmds : Cardinality(Lists(mcdi, d)) = 0
    BY <1>1, FS_EmptySet DEF Lists
  <1> QED  BY <1>1, <1>2, <1>3 DEF Paid, Due, Flag

LEMMA OnceStep == Types /\ Polled /\ Once /\ [Next]_vars => Once'
  <1> SUFFICES ASSUME Types, Polled, Once, [Next]_vars  PROVE Once'
    OBVIOUS
  <1>0. SUFFICES ASSUME setting' = setting, ~setting.interrupts, "PROXY" \notin setting.answers
                 PROVE  Paid(mcdi')
    BY SettingKept DEF Once
  <1>1. /\ stage \in {"off", "reset"} /\ Polls(mcdi, running, caller)
        /\ mcdi \in Iface /\ Rest /\ Paid(mcdi)
    BY <1>0 DEF Polled, Types, Once
  <1>2. ASSUME NEW c \in Cmds, Queue(c) \/ Send(c) \/ SendAndPoll(c) \/ Cancel(c) \/ WorkStep(c)
        PROVE  Paid(mcdi')
    BY <1>0, <1>1, <1>2, CallPaid, CancelPaid, WorkPaid
  <1>3. ASSUME NEW e \in Contexts \X Cmds, ProcessCleanup(e)  PROVE Paid(mcdi')
    BY <1>1, <1>3, CleanupPaid
  <1>4. CASE McAnswer
    <2>1. PICK reply \in setting.answers : mcdi' = [mcdi EXCEPT !.mail.reply = reply]
      BY <1>4 DEF McAnswer
    <2>2. reply \in Answers /\ reply # "PROXY"
      BY <1>0, <1>1, SettingsKnown DEF Rest, Setting
    <2> DEFINE n == [mcdi EXCEPT !.mail.reply = reply]
    <2>3. SameCmds(mcdi, n) /\ SameCleanup(mcdi, n)
      BY <1>1, <2>2, SetReply
    <2>4. n.mail.reply = reply
      BY <1>1 DEF Iface, Mails
    <2> HIDE DEF n
    <2>5. \A d \in Cmds : Due(n, d) = Due(mcdi, d)
      BY <2>3 DEF Due, SameCmds, SameCleanup, Lists
    <2> QED  BY <1>1, <2>1, <2>2, <2>4, <2>5 DEF Paid, n
  <1>5. ~EventStep /\ ~ModeEvent /\ ~StopEvents
    BY <1>0, <1>1 DEF EventStep, EvCpl, EvProxyGranted, EvProxyRefused, EvDeath, EventsRun,
                      ModeEvent, StopEvents
  <1>6. CASE FlrReset
    BY <1>1, <1>6, FlrPaid
  <1>7. ASSUME NEW c \in Cmds,
               CallRefused(c) \/ CallBusy(c) \/ CallTimesOut(c) \/ CallCompleted(c) \/ CallTimedOut(c)
        PROVE  Paid(mcdi')
    BY <1>1, <1>7 DEF CallRefused, CallBusy, CallTimesOut, CallCompleted, CallTimedOut
  <1>8. CASE EventsStart \/ EventsStopped \/ PostReset \/ UNCHANGED vars
    BY <1>1, <1>8 DEF EventsStart, EventsStopped, PostReset, vars
  <1> QED  BY <1>2, <1>3, <1>4, <1>5, <1>6, <1>7, <1>8 DEF Next, CallerStep

LEMMA AlwaysOnce == Spec => [](Types /\ Once)
BY TypesInit, PolledInit, OnceInit, TypesStep, PolledStep, OnceStep, PTL DEF Spec

(* The completer of a command is called once at most, whoever takes the     *)
(* command off the list and whichever list it is on then: completion,       *)
(* timeout, cancellation, fail mode or the reset.  A command held back for  *)
(* another function after it was cancelled would be told twice.             *)
THEOREM PolledCalledOnce ==
    Spec => [](~setting.interrupts /\ "PROXY" \notin setting.answers => CalledOnce)
  <1>1. Types /\ Once => (~setting.interrupts /\ "PROXY" \notin setting.answers => CalledOnce)
    <2> SUFFICES ASSUME Types, Paid(mcdi), NEW c \in Cmds  PROVE mcdi.called[c] <= 1
      BY DEF Once, CalledOnce
    <2>1. mcdi \in Iface /\ Due(mcdi, c) <= 1
      BY DEF Types, Paid
    <2>2. mcdi.called[c] \in Nat /\ Cardinality(Lists(mcdi, c)) \in Nat
      BY <2>1, DueIs
    <2> QED  BY <2>1, <2>2 DEF Due, Flag
  <1> QED  BY <1>1, AlwaysOnce, PTL

---------------------------------------------------------------------------
(* Nothing is done to a command that is FINISHED                            *)

(* A step leaves alone a command that is off the list.                      *)
Spares(m, n, c) == /\ c \notin m.list /\ c \notin n.list
                   /\ n.state[c] = m.state[c] /\ n.rc[c] = m.rc[c]
                   /\ n.work[c] = m.work[c] /\ Lists(n, c) = Lists(m, c)

LEMMA SparesTwice ==
    ASSUME NEW m, NEW n, NEW k, NEW c \in Cmds, Spares(m, n, c), Spares(n, k, c)
    PROVE  Spares(m, k, c)
BY DEF Spares

LEMMA SameSpares ==
    ASSUME NEW m, NEW n, NEW c \in Cmds, c \notin m.list,
           SameCmds(m, n), SameCleanup(m, n), n.work = m.work, n.rc = m.rc
    PROVE  Spares(m, n, c)
BY DEF Spares, SameCmds, SameCleanup, Lists

(* The operators do not write the result of a command but by WithRc.        *)
LEMMA RcKept ==
    ASSUME NEW m \in Iface, NEW d \in Cmds
    PROVE  /\ Get(m, d).rc = m.rc /\ Put(m, d).rc = m.rc /\ Arm(m, d).rc = m.rc
           /\ Called(m, d).rc = m.rc /\ Unlink(m, d).rc = m.rc
           /\ Listed(m, d).rc = m.rc /\ Transmit(m, d).rc = m.rc
           /\ FreeDoorbell(m, d).rc = m.rc
  <1>1. Get(m, d).rc = m.rc /\ Put(m, d).rc = m.rc /\ Called(m, d).rc = m.rc
    BY DEF Get, Put, Called, Iface
  <1>2. Arm(m, d).rc = m.rc
    BY <1>1, GetIs DEF Arm, Iface
  <1>3. Unlink(m, d).rc = m.rc
    BY <1>1, PutIs DEF Unlink, Iface
  <1>4. Listed(m, d).rc = m.rc /\ Transmit(m, d).rc = m.rc /\ FreeDoorbell(m, d).rc = m.rc
    BY DEF Listed, Transmit, FreeDoorbell, Iface
  <1> QED  BY <1>1, <1>2, <1>3, <1>4

LEMMA WithRcSpares ==
    ASSUME NEW m \in Iface, NEW c \in Cmds, NEW d \in Cmds, c # d, c \notin m.list,
           NEW code \in Codes
    PROVE  Spares(m, WithRc(m, d, code), c)
  <1> DEFINE n == WithRc(m, d, code)
  <1>1. SameCmds(m, n) /\ SameCleanup(m, n) /\ n.work = m.work
    BY WithRcIs
  <1>2. n.rc[c] = m.rc[c]
    BY DEF WithRc, Iface
  <1> HIDE DEF n
  <1> QED  BY <1>1, <1>2 DEF Spares, SameCmds, SameCleanup, Lists, n

LEMMA ArmSpares ==
    ASSUME NEW m \in Iface, NEW c \in Cmds, NEW d \in Cmds, c # d, c \notin m.list
    PROVE  Spares(m, Arm(m, d), c)
  <1> DEFINE n == Arm(m, d)
  <1>1. SameCmds(m, n) /\ SameCleanup(m, n) /\ n.work = [m.work EXCEPT ![d] = "armed"]
    BY ArmIs
  <1>2. n.rc = m.rc
    BY RcKept
  <1> HIDE DEF n
  <1>3. n.work[c] = m.work[c]
    BY <1>1 DEF Iface
  <1> QED  BY <1>1, <1>2, <1>3 DEF Spares, SameCmds, SameCleanup, Lists, n

LEMMA PutSpares ==
    ASSUME NEW m \in Iface, NEW c \in Cmds, NEW d \in Cmds, c \notin m.list
    PROVE  Spares(m, Put(m, d), c)
BY PutIs, RcKept, SameSpares

LEMMA UnlinkSpares ==
    ASSUME NEW m \in Iface, NEW c \in Cmds, NEW d \in Cmds, c # d, c \notin m.list
    PROVE  Spares(m, Unlink(m, d), c)
  <1> DEFINE n == Unlink(m, d)
  <1>1. n.list = m.list \ {d} /\ SameCleanup(m, n) /\ n.state = m.state /\ n.work = m.work
    BY UnlinkIs
  <1>2. n.rc = m.rc
    BY RcKept
  <1> HIDE DEF n
  <1> QED  BY <1>1, <1>2 DEF Spares, SameCleanup, Lists, n

LEMMA SetStateSpares ==
    ASSUME NEW m \in Iface, NEW c \in Cmds, NEW d \in Cmds, c # d, c \notin m.list,
           NEW s \in States
    PROVE  Spares(m, [m EXCEPT !.state[d] = s], c)
  <1> DEFINE n == [m EXCEPT !.state[d] = s]
  <1>1. /\ n.state = [m.state EXCEPT ![d] = s]
        /\ SameCleanup(m, n) /\ n.list = m.list /\ n.work = m.work
    BY SetState
  <1>2. n.rc = m.rc
    BY DEF Iface
  <1> HIDE DEF n
  <1>3. n.state[c] = m.state[c]
    BY <1>1 DEF Iface
  <1> QED  BY <1>1, <1>2, <1>3 DEF Spares, SameCleanup, Lists, n

LEMMA NotifySpares ==
    ASSUME NEW m \in Iface, NEW c \in Cmds, NEW d \in Cmds, c # d, c \notin m.list,
           NEW ctx \in Contexts
    PROVE  Spares(m, Notify(m, ctx, d), c)
  <1>1. CASE m.state[d] \in Cancelled
    BY <1>1 DEF Notify, Spares
  <1>2. CASE m.state[d] \notin Cancelled /\ d \in Atomic
    <2> DEFINE n == Called(m, d)
    <2>1. SameCmds(m, n) /\ n.work = m.work /\ n.cleanup = m.cleanup /\ n.rc = m.rc
      BY CalledIs, RcKept
    <2>2. Notify(m, ctx, d) = n
      BY <1>2 DEF Notify
    <2> HIDE DEF n
    <2> QED  BY <2>1, <2>2 DEF Spares, SameCmds, Lists
  <1>3. CASE m.state[d] \notin Cancelled /\ d \notin Atomic
    <2> DEFINE n == [Get(m, d) EXCEPT !.cleanup = @ \cup {<<ctx, d>>}, !.outstanding = @ + 1]
    <2>1. n.cleanup = m.cleanup \cup {<<ctx, d>>} /\ SameCmds(m, n) /\ n.work = m.work
      BY ZenonT(40), ListedForCleanup
    <2>2. n.rc = m.rc
      <3> DEFINE g == Get(m, d)
      <3>1. g \in Iface /\ g.rc = m.rc
        BY GetIs, RcKept
      <3> HIDE DEF g
      <3>2. [g EXCEPT !.cleanup = @ \cup {<<ctx, d>>}, !.outstanding = @ + 1].rc = g.rc
        BY <3>1 DEF Iface
      <3> QED  BY <3>1, <3>2 DEF g
    <2>3. Notify(m, ctx, d) = n
      BY <1>3 DEF Notify
    <2> HIDE DEF n
    <2>4. Lists(n, c) = Lists(m, c)
      BY <2>1 DEF Lists
    <2> QED  BY <2>1, <2>2, <2>3, <2>4 DEF Spares, SameCmds
  <1> QED  BY <1>1, <1>2, <1>3

LEMMA RemoveSpares ==
    ASSUME NEW m \in Iface, NEW c \in Cmds, NEW d \in Cmds, c # d, c \notin m.list,
           NEW ctx \in Contexts
    PROVE  Spares(m, Remove(m, ctx, d), c)
  <1> DEFINE t == Notify(m, ctx, d)
             u == Unlink(t, d)
             n == [u EXCEPT !.state[d] = "FINISHED"]
  <1>1. t \in Iface /\ SameCmds(m, t)
    BY NotifyIs
  <1>2. Spares(m, t, c)
    BY NotifySpares
  <1> HIDE DEF t
  <1>3. c \notin t.list
    BY <1>2 DEF Spares
  <1>4. u \in Iface /\ Spares(t, u, c)
    BY <1>1, <1>3, UnlinkIs, UnlinkSpares
  <1> HIDE DEF u
  <1>5. Spares(u, n, c)
    BY <1>4, SetStateSpares, StateNames DEF Spares
  <1>6. Remove(m, ctx, d) = n
    BY DEF Remove, n, u, t
  <1> HIDE DEF n
  <1>7. Spares(m, u, c)
    BY <1>2, <1>4, SparesTwice
  <1> QED  BY <1>5, <1>6, <1>7, SparesTwice

LEMMA ModeFailSpares ==
    ASSUME NEW m \in Iface, NEW c \in Cmds, c \notin m.list, NEW ctx \in Contexts
    PROVE  Spares(m, ModeFail(m, ctx), c)
  <1> DEFINE n == ModeFail(m, ctx)
  <1>1. /\ n.list = m.list \ Waiting(m) /\ n.work = m.work
        /\ n.cleanup = m.cleanup \cup {<<ctx, d>> : d \in ToldLater(m)}
        /\ n.state = [d \in Cmds |-> IF d \in Waiting(m) THEN "FINISHED"
                                     ELSE IF d \in Told(m) THEN Mark(m.state[d])
                                     ELSE m.state[d]]
    BY ModeFailIs
  <1>2. c \notin Told(m) /\ c \notin Waiting(m) /\ c \notin ToldLater(m)
    BY DEF Told, Waiting, ToldLater
  <1>3. n.rc[c] = m.rc[c]
    BY DEF ModeFail, Iface
  <1> HIDE DEF n
  <1>4. n.state[c] = m.state[c] /\ c \notin n.list /\ Lists(n, c) = Lists(m, c)
    BY <1>1, <1>2 DEF Lists
  <1> QED  BY <1>1, <1>3, <1>4 DEF Spares, n

LEMMA TransmitSpares ==
    ASSUME NEW m \in Iface, NEW c \in Cmds, NEW d \in Cmds, c # d, c \notin m.list,
           FreeSeqs(m) # {}
    PROVE  Spares(m, Transmit(m, d), c)
  <1> DEFINE n == Transmit(m, d)
  <1>1. /\ n.state = [m.state EXCEPT ![d] = "RUNNING"] /\ n.list = m.list
        /\ n.work = m.work /\ SameCleanup(m, n)
    BY TransmitIs
  <1>2. n.rc = m.rc
    BY RcKept
  <1> HIDE DEF n
  <1>3. n.state[c] = m.state[c]
    BY <1>1 DEF Iface
  <1> QED  BY <1>1, <1>2, <1>3 DEF Spares, SameCleanup, Lists, n

LEMMA StartSpares ==
    ASSUME NEW m \in Iface, NEW c \in Cmds, NEW d \in Cmds, c # d, c \notin m.list,
           FreeSeqs(m) # {}
    PROVE  Spares(m, Start(m, d), c)
  <1> DEFINE t == Transmit(m, d)
             n == Arm(t, d)
  <1>1. t \in Iface /\ Spares(m, t, c)
    BY TransmitIs, TransmitSpares
  <1> HIDE DEF t
  <1>2. Spares(t, n, c)
    BY <1>1, ArmSpares DEF Spares
  <1>3. Start(m, d) = n
    BY DEF Start, t
  <1> HIDE DEF n
  <1> QED  BY <1>1, <1>2, <1>3, SparesTwice

LEMMA AdvanceSpares ==
    ASSUME NEW m \in Iface, NEW c \in Cmds, c \notin m.list, NEW retry \in BOOLEAN
    PROVE  Spares(m, Advance(m, retry), c)
  <1> DEFINE S == Ready(m, retry)
             q == Requeue(m, S)
             n == Advance(m, retry)
  <1>1. S \in SUBSET Cmds /\ c \notin S
    BY DEF Ready, Iface
  <1>2. /\ S # {} /\ CanStart(m) => \E d \in S : n = Start(q, d) /\ FreeSeqs(q) # {}
        /\ ~(S # {} /\ CanStart(m)) => n = q
    BY AdvanceIs
  <1> HIDE DEF S
  <1>3. /\ q \in Iface
        /\ q.state = [d \in Cmds |-> IF d \in S THEN "QUEUED" ELSE m.state[d]]
        /\ SameCleanup(m, q) /\ q.list = m.list /\ q.work = m.work
    BY <1>1, RequeueIs
  <1>4. q.rc = m.rc
    BY DEF Requeue, Iface
  <1> HIDE DEF q, n
  <1>5. Spares(m, q, c)
    BY <1>1, <1>3, <1>4 DEF Spares, SameCleanup, Lists
  <1>6. CASE S # {} /\ CanStart(m)
    <2>1. PICK d \in S : n = Start(q, d) /\ FreeSeqs(q) # {}
      BY <1>2, <1>6
    <2>2. d \in Cmds /\ d # c
      BY <1>1
    <2>3. Spares(q, n, c)
      BY <1>3, <2>1, <2>2, StartSpares
    <2> QED  BY <1>5, <2>3, SparesTwice DEF n
  <1> QED  BY <1>2, <1>5, <1>6 DEF n

LEMMA SettleSpares ==
    ASSUME NEW m \in Iface, NEW c \in Cmds, NEW d \in Cmds, c # d, c \notin m.list,
           NEW ctx \in Contexts, NEW code \in Codes
    PROVE  Spares(m, Settle(m, ctx, d, code), c)
  <1> DEFINE f == FreeDoorbell(m, d)
             n == Settle(m, ctx, d, code)
  <1>1. f \in Iface /\ SameCmds(m, f) /\ SameCleanup(m, f) /\ f.work = m.work
    BY FreeDoorbellIs
  <1>2. f.rc = m.rc
    BY RcKept
  <1>3. n = CASE code = "PROXY" /\ BadProxy(m, d) ->
                    ModeFail(Remove(WithRc(m, d, "EIO"), ctx, d), ctx)
              [] code = "PROXY" /\ ~BadProxy(m, d) ->
                    Arm([m EXCEPT !.state[d] = "PROXY", !.proxied[d] = TRUE], d)
              [] code # "PROXY" /\ m.state[d] \in Cancelled -> Unlink(f, d)
              [] code = "FULL" /\ m.state[d] \notin Cancelled -> [f EXCEPT !.state[d] = "RETRY"]
              [] OTHER -> Remove(WithRc(f, d, code), ctx, d)
    BY DEF Settle
  <1> HIDE DEF f, n
  <1>4. Spares(m, f, c) /\ c \notin f.list
    BY <1>1, <1>2, SameSpares DEF Spares
  <1>5. ASSUME NEW w \in Iface, NEW x \in Codes, c \notin w.list
        PROVE  LET r == Remove(WithRc(w, d, x), ctx, d) IN r \in Iface /\ Spares(w, r, c)
    <2> DEFINE v == WithRc(w, d, x)
    <2>1. v \in Iface /\ Spares(w, v, c)
      BY <1>5, WithRcIs, WithRcSpares
    <2> HIDE DEF v
    <2>2. Remove(v, ctx, d) \in Iface
      BY <2>1, RemoveIs
    <2>3. c \notin v.list
      BY <2>1 DEF Spares
    <2>4. Spares(v, Remove(v, ctx, d), c)
      BY <2>1, <2>3, RemoveSpares
    <2> QED  BY <2>1, <2>2, <2>4, SparesTwice DEF v
  <1>6. CASE code = "PROXY" /\ BadProxy(m, d)
    <2> DEFINE r == Remove(WithRc(m, d, "EIO"), ctx, d)
    <2>1. "EIO" \in Codes
      BY DEF Codes, Answers
    <2>2. r \in Iface /\ Spares(m, r, c)
      BY <1>5, <2>1
    <2>3. n = ModeFail(r, ctx)
      BY <1>3, <1>6
    <2> HIDE DEF r
    <2>4. Spares(r, n, c)
      BY <2>2, <2>3, ModeFailSpares DEF Spares
    <2> QED  BY <2>2, <2>4, SparesTwice DEF n
  <1>7. CASE code = "PROXY" /\ ~BadProxy(m, d)
    <2> DEFINE p == [m EXCEPT !.state[d] = "PROXY", !.proxied[d] = TRUE]
    <2>1. /\ p \in Iface /\ p.state = [m.state EXCEPT ![d] = "PROXY"]
          /\ SameCleanup(m, p) /\ p.list = m.list /\ p.work = m.work
      BY HeldBack
    <2>2. p.rc = m.rc
      BY DEF Iface
    <2>3. n = Arm(p, d)
      BY <1>3, <1>7
    <2> HIDE DEF p
    <2>4. p.state[c] = m.state[c]
      BY <2>1 DEF Iface
    <2>5. Spares(m, p, c)
      BY <2>1, <2>2, <2>4 DEF Spares, SameCleanup, Lists
    <2>6. Spares(p, n, c)
      BY <2>1, <2>3, ArmSpares
    <2> QED  BY <2>5, <2>6, SparesTwice DEF n
  <1>8. CASE code # "PROXY" /\ m.state[d] \in Cancelled
    <2>1. n = Unlink(f, d)
      BY <1>3, <1>8
    <2>2. Spares(f, n, c)
      BY <1>1, <1>4, <2>1, UnlinkSpares
    <2> QED  BY <1>4, <2>2, SparesTwice DEF n
  <1>9. CASE code = "FULL" /\ m.state[d] \notin Cancelled
    <2>1. n = [f EXCEPT !.state[d] = "RETRY"]
      BY <1>3, <1>9
    <2>2. Spares(f, n, c)
      BY <1>1, <1>4, <2>1, SetStateSpares, StateNames
    <2> QED  BY <1>4, <2>2, SparesTwice DEF n
  <1>10. CASE code \notin {"PROXY", "FULL"} /\ m.state[d] \notin Cancelled
    <2>1. n = Remove(WithRc(f, d, code), ctx, d)
      BY <1>3, <1>10
    <2>2. Spares(f, n, c)
      BY <1>1, <1>4, <1>5, <2>1
    <2> QED  BY <1>4, <2>2, SparesTwice DEF n
  <1> QED  BY <1>6, <1>7, <1>8, <1>9, <1>10

LEMMA CompleteSpares ==
    ASSUME NEW m \in Iface, NEW c \in Cmds, NEW d \in Cmds, c # d, c \notin m.list,
           NEW ctx \in Contexts, NEW code \in Codes
    PROVE  Spares(m, Complete(m, ctx, d, code), c)
  <1> DEFINE k == Settle(m, ctx, d, code)
             s == [k EXCEPT !.held[m.seq[d]] = NoCmd, !.buf = FALSE]
             n == Complete(m, ctx, d, code)
             retry == code # "FULL"
  <1>1. n = Advance(s, retry) /\ retry \in BOOLEAN
    BY DEF Complete
  <1>2. k \in Iface /\ Spares(m, k, c)
    BY SettleType, SettleSpares
  <1>3. m.seq[d] \in Seqs
    BY DEF Iface
  <1> HIDE DEF k
  <1>4. s \in Iface /\ SameCmds(k, s) /\ SameCleanup(k, s) /\ s.work = k.work
    BY <1>2, <1>3, FreeMailbox
  <1>5. s.rc = k.rc
    BY <1>2 DEF Iface
  <1> HIDE DEF s, retry, n
  <1>6. Spares(k, s, c)
    BY <1>2, <1>4, <1>5, SameSpares DEF Spares
  <1>7. Spares(s, n, c)
    BY <1>1, <1>4, <1>6, AdvanceSpares DEF Spares
  <1>8. Spares(m, s, c)
    BY <1>2, <1>6, SparesTwice
  <1> QED  BY <1>7, <1>8, SparesTwice DEF n

LEMMA TimeoutSpares ==
    ASSUME NEW m \in Iface, NEW c \in Cmds, NEW d \in Cmds, c # d, c \notin m.list,
           NEW ctx \in Contexts
    PROVE  Spares(m, ProxyTimeout(m, ctx, d), c)
  <1> DEFINE w == WithRc(m, d, "ETIMEDOUT")
             r == Remove(w, ctx, d)
             n == ModeFail(r, ctx)
  <1>1. w \in Iface /\ Spares(m, w, c)
    BY WithRcIs, WithRcSpares DEF Codes
  <1> HIDE DEF w
  <1>2. r \in Iface
    BY <1>1, RemoveIs
  <1>3. c \notin w.list
    BY <1>1 DEF Spares
  <1>4. Spares(w, r, c)
    BY <1>1, <1>3, RemoveSpares
  <1> HIDE DEF r
  <1>5. Spares(r, n, c)
    BY <1>2, <1>4, ModeFailSpares DEF Spares
  <1>6. ProxyTimeout(m, ctx, d) = n
    BY DEF ProxyTimeout, n, r, w
  <1> HIDE DEF n
  <1>7. Spares(m, r, c)
    BY <1>1, <1>4, SparesTwice
  <1> QED  BY <1>5, <1>6, <1>7, SparesTwice

LEMMA CancelSpares ==
    ASSUME NEW m \in Iface, NEW c \in Cmds, NEW d \in Cmds, c # d, c \notin m.list,
           NEW ctx \in Contexts
    PROVE  Spares(m, CancelCmd(m, ctx, d), c)
  <1> DEFINE p == WithRc(m, d, "EPIPE")
             n == CancelCmd(m, ctx, d)
  <1>1. p \in Iface /\ Spares(m, p, c)
    BY WithRcIs, WithRcSpares DEF Codes
  <1>2. n = CASE m.state[d] \in {"QUEUED", "RETRY"}  -> Remove(p, ctx, d)
              [] m.state[d] \in {"RUNNING", "PROXY"} ->
                    [Notify(p, ctx, d) EXCEPT !.state[d] = Mark(@)]
              [] OTHER                               -> m
    BY DEF CancelCmd
  <1> HIDE DEF p, n
  <1>3. CASE m.state[d] \in {"QUEUED", "RETRY"}
    <2>1. n = Remove(p, ctx, d)
      BY <1>2, <1>3
    <2>2. Spares(p, n, c)
      BY <1>1, <2>1, RemoveSpares DEF Spares
    <2> QED  BY <1>1, <2>2, SparesTwice DEF n
  <1>4. CASE m.state[d] \in {"RUNNING", "PROXY"}
    <2> DEFINE t == Notify(p, ctx, d)
               s == Mark(t.state[d])
    <2>1. n = [t EXCEPT !.state[d] = Mark(@)]
      BY <1>2, <1>4
    <2>2. t \in Iface /\ Spares(p, t, c)
      BY <1>1, NotifyIs, NotifySpares DEF Spares
    <2> HIDE DEF t
    <2>3. s \in States
      BY <2>2, MarkType DEF Iface
    <2>4. n = [t EXCEPT !.state[d] = s]
      BY <2>1, <2>2 DEF Iface
    <2> HIDE DEF s
    <2>5. Spares(t, n, c)
      BY <2>2, <2>3, <2>4, SetStateSpares DEF Spares
    <2>6. Spares(m, t, c)
      BY <1>1, <2>2, SparesTwice
    <2> QED  BY <2>5, <2>6, SparesTwice DEF n
  <1>5. CASE m.state[d] \notin {"QUEUED", "RETRY", "RUNNING", "PROXY"}
    BY <1>2, <1>5 DEF Spares, n
  <1> QED  BY <1>3, <1>4, <1>5

(* What a step may do to a command that is off the list: its work item is   *)
(* called, or its completer is, for a cleanup list.                         *)
Spared(c) == /\ mcdi'.state[c] = mcdi.state[c] /\ mcdi'.rc[c] = mcdi.rc[c]
             /\ mcdi'.work[c] = "armed" => mcdi.work[c] = "armed"
             /\ Lists(mcdi', c) \subseteq Lists(mcdi, c)

LEMMA SparesIsSpared ==
    ASSUME NEW c \in Cmds, Spares(mcdi, mcdi', c)
    PROVE  Spared(c)
BY DEF Spares, Spared

LEMMA SameIsSpared ==
    ASSUME NEW c \in Cmds, mcdi' = mcdi
    PROVE  Spared(c)
BY DEF Spared

LEMMA CallSpares ==
    ASSUME mcdi \in Iface, Rest, NEW c \in Cmds, NEW d \in Cmds, c # d, c \notin mcdi.list,
           Queue(d) \/ Send(d) \/ SendAndPoll(d)
    PROVE  Spared(c)
  <1> DEFINE l == Listed(mcdi, d)
             t == Transmit(l, d)
  <1>1. /\ l \in Iface /\ l.list = mcdi.list \cup {d} /\ SameBox(mcdi, l)
        /\ SameCleanup(mcdi, l) /\ l.state = mcdi.state /\ l.work = mcdi.work
    BY ListedIs
  <1>2. l.rc = mcdi.rc
    BY RcKept
  <1>3. CanStart(mcdi) => FreeSeqs(l) # {}
    <2>1. l.held = mcdi.held
      BY DEF Listed, Iface
    <2> HIDE DEF l
    <2> QED  BY <2>1 DEF CanStart, FreeSeqs
  <1> HIDE DEF l
  <1>4. Spares(mcdi, l, c) /\ c \notin l.list
    BY <1>1, <1>2 DEF Spares, SameCleanup, Lists
  <1>5. CASE Queue(d)
    <2> DEFINE n == [l EXCEPT !.state[d] = "QUEUED"]
    <2>1. mcdi' = n
      BY <1>5 DEF Queue, l
    <2>2. Spares(l, n, c)
      BY <1>1, <1>4, SetStateSpares, StateNames
    <2> HIDE DEF n
    <2> QED  BY <1>4, <2>1, <2>2, SparesTwice, SparesIsSpared
  <1>6. CASE Send(d)
    <2>1. mcdi' = Start(l, d) /\ CanStart(mcdi)
      BY <1>6 DEF Send, l
    <2>2. Spares(l, mcdi', c)
      BY <1>1, <1>3, <1>4, <2>1, StartSpares
    <2> QED  BY <1>4, <2>2, SparesTwice, SparesIsSpared
  <1>7. CASE SendAndPoll(d)
    <2>1. PICK reply \in setting.answers :
             mcdi' = Complete([t EXCEPT !.mail.reply = reply], "caller", d, reply)
      BY <1>7 DEF SendAndPoll, t, l
    <2>2. reply \in Answers /\ reply \in Codes /\ "caller" \in Contexts
      BY SettingsKnown DEF Rest, Setting, Codes, Contexts
    <2>3. FreeSeqs(l) # {}
      BY <1>3, <1>7 DEF SendAndPoll
    <2>4. t \in Iface /\ Spares(l, t, c)
      BY <1>1, <1>4, <2>3, TransmitIs, TransmitSpares
    <2> HIDE DEF t
    <2> DEFINE u == [t EXCEPT !.mail.reply = reply]
    <2>5. u \in Iface /\ SameCmds(t, u) /\ SameCleanup(t, u) /\ u.work = t.work
      BY <2>2, <2>4, SetReply
    <2>6. u.rc = t.rc
      BY <2>4 DEF Iface
    <2>7. mcdi' = Complete(u, "caller", d, reply)
      BY <2>1
    <2> HIDE DEF u
    <2>8. Spares(t, u, c)
      BY <2>4, <2>5, <2>6, SameSpares DEF Spares
    <2>9. c \notin u.list
      BY <2>8 DEF Spares
    <2>10. Spares(u, mcdi', c)
      BY <2>2, <2>5, <2>7, <2>9, CompleteSpares
    <2>11. Spares(mcdi, t, c)
      BY <1>4, <2>4, SparesTwice
    <2>12. Spares(mcdi, u, c)
      BY <2>8, <2>11, SparesTwice
    <2> QED  BY <2>10, <2>12, SparesTwice, SparesIsSpared
  <1> QED  BY <1>5, <1>6, <1>7

LEMMA WorkSpares ==
    ASSUME mcdi \in Iface, Rest, Polls(mcdi, running, caller), NEW c \in Cmds,
           c \notin mcdi.list, NEW d \in Cmds, WorkStep(d)
    PROVE  Spared(c)
  <1>1. ASSUME NEW late \in BOOLEAN, WorkEnter(d, late)  PROVE Spared(c)
    <2> DEFINE n == [mcdi EXCEPT !.work[d] = "idle", !.expired[d] = @ \/ late]
    <2>1. mcdi' = n
      BY <1>1 DEF WorkEnter
    <2>2. /\ n \in Iface /\ n.work = [mcdi.work EXCEPT ![d] = "idle"]
          /\ SameCmds(mcdi, n) /\ SameCleanup(mcdi, n)
      BY Entered
    <2>3. n.rc = mcdi.rc
      BY DEF Iface
    <2> HIDE DEF n
    <2>4. n.work[c] = "armed" => mcdi.work[c] = "armed"
      BY <2>2 DEF Iface
    <2> QED  BY <2>1, <2>2, <2>3, <2>4 DEF Spared, SameCmds, SameCleanup, Lists
  <1>2. SUFFICES ASSUME \/ WorkFinished(d) \/ WorkProxyTimeout(d) \/ WorkComplete(d)
                        \/ WorkTimeout(d) \/ WorkPollAgain(d)
                 PROVE  Spared(c)
    BY <1>1 DEF WorkStep
  <1>3. running[d]
    BY <1>2 DEF WorkFinished, WorkProxyTimeout, WorkComplete, WorkTimeout, WorkPollAgain, WorkLeaves
  <1> DEFINE r == [running EXCEPT ![d] = FALSE]
  <1>4. Working(mcdi, r, caller, d) /\ mcdi.mode = "POLL" /\ "work" \in Contexts
    BY <1>3, WorkRuns
  <1> HIDE DEF r
  <1>5. c # d
    BY <1>4 DEF Working
  <1>6. ASSUME NEW n \in Iface, Spares(mcdi, n, c), mcdi' = Put(n, d)
        PROVE  Spared(c)
    <2>1. Spares(n, mcdi', c)
      BY <1>6, PutSpares DEF Spares
    <2> QED  BY <1>6, <2>1, SparesTwice, SparesIsSpared
  <1>7. CASE WorkFinished(d)
    <2>1. Spares(mcdi, mcdi, c)
      BY DEF Spares
    <2> QED  BY <1>6, <1>7, <2>1 DEF WorkFinished
  <1>8. CASE WorkProxyTimeout(d)
    <2>1. mcdi' = Put(ProxyTimeout(mcdi, "work", d), d)
      BY <1>8 DEF WorkProxyTimeout
    <2> QED  BY <1>4, <1>5, <1>6, <2>1, ProxyTimeoutType, TimeoutSpares
  <1>9. CASE WorkTimeout(d)
    <2> DEFINE m == [mcdi EXCEPT !.buf = FALSE]
    <2>1. mcdi' = Put(ProxyTimeout(m, "work", d), d)
      BY <1>9 DEF WorkTimeout, Timeout
    <2>2. m \in Iface /\ SameCmds(mcdi, m) /\ SameCleanup(mcdi, m) /\ m.work = mcdi.work
      BY NoBuffer
    <2>3. m.rc = mcdi.rc
      BY DEF Iface
    <2> HIDE DEF m
    <2>4. Spares(mcdi, m, c)
      BY <2>2, <2>3, SameSpares
    <2>5. c \notin m.list
      BY <2>4 DEF Spares
    <2>6. Spares(m, ProxyTimeout(m, "work", d), c) /\ ProxyTimeout(m, "work", d) \in Iface
      BY <1>4, <1>5, <2>2, <2>5, ProxyTimeoutType, TimeoutSpares
    <2>7. Spares(mcdi, ProxyTimeout(m, "work", d), c)
      BY <2>4, <2>6, SparesTwice
    <2> QED  BY <1>6, <2>1, <2>6, <2>7
  <1>10. CASE WorkComplete(d)
    <2>1. CodesOf(mcdi.mail.reply) \subseteq Codes
      BY CodesOfReply DEF Iface, Mails
    <2>2. PICK code \in Codes : \E m \in Noticed(mcdi, code) : mcdi' = Put(Complete(m, "work", d, code), d)
      BY <1>10, <2>1 DEF WorkComplete
    <2>3. Noticed(mcdi, code) \subseteq {mcdi}
      BY <1>4, ModePollIs DEF Noticed
    <2>4. mcdi' = Put(Complete(mcdi, "work", d, code), d)
      BY <2>2, <2>3
    <2> QED  BY <1>4, <1>5, <1>6, <2>4, CompleteIs, CompleteSpares
  <1>11. CASE WorkPollAgain(d)
    <2>1. mcdi' = Put(Arm(mcdi, d), d)
      BY <1>11 DEF WorkPollAgain
    <2> QED  BY <1>5, <1>6, <2>1, ArmIs, ArmSpares
  <1> QED  BY <1>2, <1>7, <1>8, <1>9, <1>10, <1>11

LEMMA CleanupSpares ==
    ASSUME mcdi \in Iface, NEW c \in Cmds, NEW e \in Contexts \X Cmds, ProcessCleanup(e)
    PROVE  Spared(c)
  <1> DEFINE k == Called(mcdi, e[2])
             p == Put(k, e[2])
             n == [p EXCEPT !.cleanup = @ \ {e}, !.outstanding = @ - 1]
  <1>1. mcdi' = n
    BY DEF ProcessCleanup
  <1>2. n.cleanup = mcdi.cleanup \ {e} /\ SameCmds(mcdi, n) /\ n.work = mcdi.work
    BY Cleaned
  <1>3. k \in Iface /\ k.rc = mcdi.rc
    BY CalledIs, RcKept
  <1> HIDE DEF k
  <1>4. p \in Iface /\ p.rc = mcdi.rc
    BY <1>3, PutIs, RcKept
  <1> HIDE DEF p
  <1>5. n.rc = mcdi.rc
    BY <1>4 DEF Iface
  <1> HIDE DEF n
  <1> QED  BY <1>1, <1>2, <1>5 DEF Spared, SameCmds, Lists

LEMMA FlrSpares ==
    ASSUME mcdi \in Iface, NEW c \in Cmds, c \notin mcdi.list, FlrReset
    PROVE  Spared(c)
  <1> DEFINE n == Flr(mcdi)
  <1>1. mcdi' = n
    BY DEF FlrReset
  <1>2. /\ n.cleanup = mcdi.cleanup \cup {<<"reset", d>> : d \in ToldLater(mcdi)}
        /\ n.state = [d \in Cmds |-> IF d \in mcdi.list THEN "FINISHED" ELSE mcdi.state[d]]
        /\ n.work = [d \in Cmds |-> IF d \in mcdi.list THEN "idle" ELSE mcdi.work[d]]
    BY FlrIs
  <1>3. n.rc[c] = mcdi.rc[c]
    BY DEF Flr, Iface
  <1>4. c \notin ToldLater(mcdi)
    BY DEF ToldLater, Told
  <1> HIDE DEF n
  <1>5. Lists(n, c) = Lists(mcdi, c)
    BY <1>2, <1>4 DEF Lists
  <1> QED  BY <1>1, <1>2, <1>3, <1>5 DEF Spared

(* Nothing is done to a command that is off the list until it is issued.    *)
LEMMA OffListSpared ==
    ASSUME Types, Polled, ~setting.interrupts, [Next]_vars, NEW c \in Cmds,
           c \notin mcdi.list, caller[c] # "idle" \/ caller'[c] = "idle"
    PROVE  Spared(c)
  <1>1. /\ stage \in {"off", "reset"} /\ Polls(mcdi, running, caller) /\ mcdi \in Iface /\ Rest
    BY DEF Polled, Types
  <1>2. ASSUME NEW d \in Cmds, Queue(d) \/ Send(d) \/ SendAndPoll(d)  PROVE Spared(c)
    <2>1. caller[d] = "idle" /\ caller' = [caller EXCEPT ![d] = "waiting"]
      BY <1>2 DEF Queue, Send, SendAndPoll, MayCall, Goto
    <2>2. c # d
      BY <1>1, <2>1 DEF Rest
    <2> QED  BY <1>1, <1>2, <2>2, CallSpares
  <1>3. ASSUME NEW d \in Cmds, Cancel(d)  PROVE Spared(c)
    <2>1. mcdi' = (IF d \in mcdi.list THEN CancelCmd(mcdi, "caller", d) ELSE mcdi)
      BY <1>3 DEF Cancel
    <2>2. CASE d \notin mcdi.list
      BY <2>1, <2>2, SameIsSpared
    <2>3. CASE d \in mcdi.list
      <3>1. c # d /\ "caller" \in Contexts
        BY <2>3 DEF Contexts
      <3> QED  BY <1>1, <2>1, <2>3, <3>1, CancelSpares, SparesIsSpared
    <2> QED  BY <2>2, <2>3
  <1>4. ASSUME NEW d \in Cmds, WorkStep(d)  PROVE Spared(c)
    BY <1>1, <1>4, WorkSpares
  <1>5. ASSUME NEW e \in Contexts \X Cmds, ProcessCleanup(e)  PROVE Spared(c)
    BY <1>1, <1>5, CleanupSpares
  <1>6. CASE McAnswer
    <2>1. PICK reply \in Answers : mcdi' = [mcdi EXCEPT !.mail.reply = reply]
      BY <1>1, <1>6, SettingsKnown DEF McAnswer, Rest, Setting
    <2> DEFINE n == [mcdi EXCEPT !.mail.reply = reply]
    <2>2. SameCmds(mcdi, n) /\ SameCleanup(mcdi, n) /\ n.work = mcdi.work
      BY <1>1, SetReply
    <2>3. n.rc = mcdi.rc
      BY <1>1 DEF Iface
    <2>4. mcdi' = n
      BY <2>1
    <2> HIDE DEF n
    <2> QED  BY <2>2, <2>3, <2>4, SameSpares, SparesIsSpared
  <1>7. ~EventStep /\ ~ModeEvent /\ ~StopEvents
    BY <1>1 DEF EventStep, EvCpl, EvProxyGranted, EvProxyRefused, EvDeath, EventsRun,
                ModeEvent, StopEvents
  <1>8. CASE FlrReset
    BY <1>1, <1>8, FlrSpares
  <1>9. ASSUME NEW d \in Cmds,
               CallRefused(d) \/ CallBusy(d) \/ CallTimesOut(d) \/ CallCompleted(d) \/ CallTimedOut(d)
        PROVE  Spared(c)
    BY <1>9, SameIsSpared
       DEF CallRefused, CallBusy, CallTimesOut, CallCompleted, CallTimedOut
  <1>10. CASE EventsStart \/ EventsStopped \/ PostReset \/ UNCHANGED vars
    BY <1>10, SameIsSpared DEF EventsStart, EventsStopped, PostReset, vars
  <1> QED  BY <1>2, <1>3, <1>4, <1>5, <1>6, <1>7, <1>8, <1>9, <1>10 DEF Next, CallerStep

(* A command that was never issued is not FINISHED.                         *)
Unused == ~setting.interrupts => \A c \in Cmds : caller[c] = "idle" => mcdi.state[c] # "FINISHED"

LEMMA UnusedInit == Init => Unused
BY DEF Init, Unused

LEMMA UnusedStep == Types /\ Polled /\ Unused /\ [Next]_vars => Unused'
  <1> SUFFICES ASSUME Types, Polled, Unused, [Next]_vars  PROVE Unused'
    OBVIOUS
  <1>1. setting' = setting
    BY SettingKept
  <1> SUFFICES ASSUME ~setting.interrupts, NEW c \in Cmds, caller'[c] = "idle"
               PROVE  mcdi'.state[c] # "FINISHED"
    BY <1>1 DEF Unused
  <1>2. caller[c] = "idle"
    <2>1. caller \in [Cmds -> CallerPcs]
      BY DEF Types, Rest
    <2> QED
      BY <2>1 DEF Next, vars, CallRefused, CallBusy, Queue, Send, SendAndPoll, CallTimesOut,
           CallerStep, CallCompleted, Cancel, CallTimedOut, WorkStep, WorkEnter, WorkFinished,
           WorkProxyTimeout, WorkComplete, WorkTimeout, WorkPollAgain, WorkLeaves, ProcessCleanup,
           McAnswer, EventStep, EvCpl, EvProxyGranted, EvProxyRefused, EvDeath, EventsStart,
           ModeEvent, StopEvents, EventsStopped, FlrReset, PostReset, Return, Goto
  <1>3. c \notin mcdi.list
    BY <1>2 DEF Polled, Polls, Fine, Resting, Working, Issued
  <1>4. Spared(c)
    BY <1>3, OffListSpared
  <1> QED  BY <1>2, <1>4 DEF Spared, Unused

LEMMA AlwaysUnused ==
    Spec /\ ~setting.interrupts => [](Types /\ Polled /\ Unused /\ ~setting.interrupts)
  <1>1. ~setting.interrupts /\ [Next]_vars => (~setting.interrupts)'
    BY SettingKept
  <1> QED  BY <1>1, TypesInit, PolledInit, UnusedInit, TypesStep, PolledStep, UnusedStep, PTL DEF Spec

(* A FINISHED command is done with, whatever still refers to it: it is not  *)
(* put back in the queue, its result does not change, its timer is not      *)
(* armed, and no cleanup list gets it.                                      *)
THEOREM PolledFinishedForGood == Spec /\ ~setting.interrupts => FinishedForGood
  <1>1. Types /\ Polled /\ Unused /\ ~setting.interrupts /\ [Next]_vars
          => [\A c \in Cmds : mcdi.state[c] = "FINISHED" =>
                 /\ mcdi'.state[c] = "FINISHED"
                 /\ mcdi'.rc[c] = mcdi.rc[c]
                 /\ mcdi'.work[c] = "armed" => mcdi.work[c] = "armed"
                 /\ \A x \in Contexts : <<x, c>> \in mcdi'.cleanup => <<x, c>> \in mcdi.cleanup]_vars
    <2> SUFFICES ASSUME Types, Polled, Unused, ~setting.interrupts, [Next]_vars,
                        NEW c \in Cmds, mcdi.state[c] = "FINISHED"
                 PROVE  /\ mcdi'.state[c] = "FINISHED"
                        /\ mcdi'.rc[c] = mcdi.rc[c]
                        /\ mcdi'.work[c] = "armed" => mcdi.work[c] = "armed"
                        /\ \A x \in Contexts : <<x, c>> \in mcdi'.cleanup => <<x, c>> \in mcdi.cleanup
      OBVIOUS
    <2>1. c \notin mcdi.list
      BY DEF Polled, Polls, Fine, Resting, Working, Waits, Running
    <2>2. caller[c] # "idle"
      BY DEF Unused
    <2>3. Spared(c)
      BY <2>1, <2>2, OffListSpared
    <2> QED  BY <2>3 DEF Spared, Lists
  <1> QED  BY <1>1, AlwaysUnused, PTL DEF Spec, FinishedForGood

---------------------------------------------------------------------------
(* The calls that wait are those of the abstract transport                  *)

(* Completers may be called in a step, and then only have a reply.          *)
Replied(m, n) == \A d \in Cmds : /\ n.called[d] >= m.called[d]
                                 /\ n.called[d] = m.called[d] => n.done[d] = m.done[d]

(* No completer is.                                                         *)
Mute(m, n) == n.called = m.called /\ n.done = m.done

LEMMA MuteReplied ==
    ASSUME NEW m \in Iface, NEW n, Mute(m, n)
    PROVE  Replied(m, n)
  <1>1. m.called \in [Cmds -> Nat]
    BY DEF Iface
  <1> QED  BY <1>1 DEF Mute, Replied

LEMMA MuteTwice ==
    ASSUME NEW m, NEW n, NEW k, Mute(m, n), Mute(n, k)
    PROVE  Mute(m, k)
BY DEF Mute

LEMMA RepliedTwice ==
    ASSUME NEW m \in Iface, NEW n \in Iface, NEW k \in Iface, Replied(m, n), Replied(n, k)
    PROVE  Replied(m, k)
  <1>1. /\ m.called \in [Cmds -> Nat] /\ n.called \in [Cmds -> Nat] /\ k.called \in [Cmds -> Nat]
    BY DEF Iface
  <1> SUFFICES ASSUME NEW d \in Cmds
               PROVE  /\ k.called[d] >= m.called[d]
                      /\ k.called[d] = m.called[d] => k.done[d] = m.done[d]
    BY DEF Replied
  <1>2. /\ n.called[d] >= m.called[d] /\ k.called[d] >= n.called[d]
        /\ n.called[d] = m.called[d] => n.done[d] = m.done[d]
        /\ k.called[d] = n.called[d] => k.done[d] = n.done[d]
    BY DEF Replied
  <1>3. m.called[d] \in Nat /\ n.called[d] \in Nat /\ k.called[d] \in Nat
    BY <1>1
  <1>4. k.called[d] >= m.called[d]
    BY <1>2, <1>3
  <1>5. k.called[d] = m.called[d] => n.called[d] = m.called[d] /\ k.called[d] = n.called[d]
    BY <1>2, <1>3
  <1> QED  BY <1>2, <1>4, <1>5

(* The operators that call no completer.                                    *)
LEMMA MuteOps ==
    ASSUME NEW m \in Iface, NEW d \in Cmds
    PROVE  /\ Mute(m, Get(m, d)) /\ Mute(m, Put(m, d)) /\ Mute(m, Arm(m, d))
           /\ Mute(m, Unlink(m, d)) /\ Mute(m, Listed(m, d)) /\ Mute(m, Transmit(m, d))
           /\ Mute(m, FreeDoorbell(m, d))
  <1> USE DEF Mute
  <1>1. Mute(m, Get(m, d)) /\ Mute(m, Put(m, d))
    BY DEF Get, Put, Iface
  <1>2. Mute(m, Arm(m, d))
    BY <1>1, GetIs DEF Arm, Iface
  <1>3. Mute(m, Unlink(m, d))
    BY <1>1, PutIs DEF Unlink, Iface
  <1>4. Mute(m, Listed(m, d)) /\ Mute(m, Transmit(m, d)) /\ Mute(m, FreeDoorbell(m, d))
    BY DEF Listed, Transmit, FreeDoorbell, Iface
  <1> QED  BY <1>1, <1>2, <1>3, <1>4

LEMMA MuteSets ==
    ASSUME NEW m \in Iface, NEW d \in Cmds
    PROVE  /\ \A s \in States : Mute(m, [m EXCEPT !.state[d] = s])
           /\ \A code \in Codes : Mute(m, WithRc(m, d, code))
           /\ \A reply \in Answers : Mute(m, [m EXCEPT !.mail.reply = reply])
           /\ Mute(m, [m EXCEPT !.buf = FALSE])
           /\ \A q \in Seqs : Mute(m, [m EXCEPT !.held[q] = NoCmd, !.buf = FALSE])
           /\ \A late \in BOOLEAN :
                 Mute(m, [m EXCEPT !.work[d] = "idle", !.expired[d] = @ \/ late])
BY DEF Mute, WithRc, Iface

LEMMA AdvanceMute ==
    ASSUME NEW m \in Iface, NEW retry \in BOOLEAN
    PROVE  Mute(m, Advance(m, retry))
  <1> DEFINE S == Ready(m, retry)
             q == Requeue(m, S)
             n == Advance(m, retry)
  <1>1. S \in SUBSET Cmds
    BY DEF Ready, Iface
  <1>2. /\ S # {} /\ CanStart(m) => \E d \in S : n = Start(q, d) /\ FreeSeqs(q) # {}
        /\ ~(S # {} /\ CanStart(m)) => n = q
    BY AdvanceIs
  <1> HIDE DEF S
  <1>3. q \in Iface
    BY <1>1, RequeueIs
  <1>4. Mute(m, q)
    BY DEF Requeue, Mute, Iface
  <1> HIDE DEF q, n
  <1>5. CASE S # {} /\ CanStart(m)
    <2>1. PICK d \in S : n = Start(q, d) /\ FreeSeqs(q) # {}
      BY <1>2, <1>5
    <2>2. d \in Cmds
      BY <1>1
    <2> DEFINE t == Transmit(q, d)
    <2>3. t \in Iface /\ Mute(q, t)
      BY <1>3, <2>1, <2>2, TransmitIs, MuteOps
    <2>4. n = Arm(t, d)
      BY <2>1 DEF Start
    <2> HIDE DEF t
    <2>5. Mute(t, n)
      BY <2>2, <2>3, <2>4, MuteOps
    <2>6. Mute(m, t)
      BY <1>4, <2>3, MuteTwice
    <2> QED  BY <2>5, <2>6, MuteTwice DEF n
  <1> QED  BY <1>2, <1>4, <1>5 DEF n

LEMMA NotifyReplies ==
    ASSUME NEW m \in Iface, NEW d \in Cmds, NEW ctx \in Contexts
    PROVE  /\ Replied(m, Notify(m, ctx, d))
           /\ d \notin Atomic => Mute(m, Notify(m, ctx, d))
  <1>1. CASE m.state[d] \in Cancelled
    BY <1>1, MuteReplied DEF Notify, Mute
  <1>2. CASE m.state[d] \notin Cancelled /\ d \in Atomic
    <2> DEFINE n == Called(m, d)
    <2>1. n.called = [m.called EXCEPT ![d] = @ + 1]
      BY CalledIs
    <2>2. n.done = [m.done EXCEPT ![d] = m.rc[d]]
      BY DEF Called, Iface
    <2>3. Notify(m, ctx, d) = n
      BY <1>2 DEF Notify
    <2> HIDE DEF n
    <2>4. m.called \in [Cmds -> Nat] /\ m.done \in [Cmds -> Codes \cup {"none"}]
      BY DEF Iface
    <2>5. Replied(m, n)
      BY <2>1, <2>2, <2>4 DEF Replied
    <2> QED  BY <1>2, <2>3, <2>5
  <1>3. CASE m.state[d] \notin Cancelled /\ d \notin Atomic
    <2> DEFINE g == Get(m, d)
               n == [g EXCEPT !.cleanup = @ \cup {<<ctx, d>>}, !.outstanding = @ + 1]
    <2>1. g \in Iface /\ Mute(m, g)
      BY GetIs, MuteOps
    <2>2. Notify(m, ctx, d) = n
      BY <1>3 DEF Notify
    <2> HIDE DEF g
    <2>3. Mute(g, n)
      BY <2>1 DEF Mute, Iface
    <2> HIDE DEF n
    <2>4. Mute(m, n)
      BY <2>1, <2>3, MuteTwice
    <2> QED  BY <2>2, <2>4, MuteReplied
  <1> QED  BY <1>1, <1>2, <1>3

LEMMA RemoveReplies ==
    ASSUME NEW m \in Iface, NEW d \in Cmds, NEW ctx \in Contexts
    PROVE  /\ Replied(m, Remove(m, ctx, d))
           /\ d \notin Atomic => Mute(m, Remove(m, ctx, d))
  <1> DEFINE t == Notify(m, ctx, d)
             u == Unlink(t, d)
             n == [u EXCEPT !.state[d] = "FINISHED"]
  <1>1. t \in Iface /\ Replied(m, t) /\ (d \notin Atomic => Mute(m, t))
    BY NotifyIs, NotifyReplies
  <1> HIDE DEF t
  <1>2. u \in Iface /\ Mute(t, u)
    BY <1>1, UnlinkIs, MuteOps
  <1> HIDE DEF u
  <1>3. n \in Iface /\ Mute(u, n)
    BY <1>2, SetState, StateNames, MuteSets
  <1>4. Remove(m, ctx, d) = n
    BY DEF Remove, n, u, t
  <1> HIDE DEF n
  <1>5. Mute(t, n)
    BY <1>2, <1>3, MuteTwice
  <1>6. Replied(t, n)
    BY <1>1, <1>5, MuteReplied
  <1>7. Replied(m, n)
    BY <1>1, <1>3, <1>6, RepliedTwice
  <1> QED  BY <1>1, <1>4, <1>5, <1>7, MuteTwice

LEMMA ModeFailReplies ==
    ASSUME NEW m \in Iface, NEW ctx \in Contexts
    PROVE  Replied(m, ModeFail(m, ctx))
  <1> DEFINE n == ModeFail(m, ctx)
             T == Told(m) \cap Atomic
  <1>1. n.called = [c \in Cmds |-> IF c \in T THEN m.called[c] + 1 ELSE m.called[c]]
    BY ModeFailIs
  <1>2. n.done = [c \in Cmds |-> IF c \in T THEN "EPIPE" ELSE m.done[c]]
    BY DEF ModeFail, Told, Iface
  <1>3. m.called \in [Cmds -> Nat]
    BY DEF Iface
  <1> HIDE DEF n, T
  <1>4. Replied(m, n)
    BY <1>1, <1>2, <1>3 DEF Replied
  <1> QED  BY <1>4 DEF n

LEMMA SettleReplies ==
    ASSUME NEW m \in Iface, NEW d \in Cmds, NEW ctx \in Contexts, NEW code \in Codes,
           code # "PROXY"
    PROVE  /\ Replied(m, Settle(m, ctx, d, code))
           /\ d \notin Atomic => Mute(m, Settle(m, ctx, d, code))
  <1> DEFINE f == FreeDoorbell(m, d)
             n == Settle(m, ctx, d, code)
  <1>1. n \in Iface
    BY SettleType
  <1>2. f \in Iface /\ Mute(m, f)
    BY FreeDoorbellIs, MuteOps
  <1>3. n = CASE m.state[d] \in Cancelled                    -> Unlink(f, d)
              [] code = "FULL" /\ m.state[d] \notin Cancelled -> [f EXCEPT !.state[d] = "RETRY"]
              [] OTHER                                       -> Remove(WithRc(f, d, code), ctx, d)
    BY DEF Settle
  <1> HIDE DEF f, n
  <1>4. ASSUME NEW k \in Iface, Mute(m, k), Replied(k, n), d \notin Atomic => Mute(k, n)
        PROVE  Replied(m, n) /\ (d \notin Atomic => Mute(m, n))
    BY <1>1, <1>4, MuteReplied, MuteTwice, RepliedTwice
  <1>5. CASE m.state[d] \in Cancelled
    <2>1. Mute(f, n)
      BY <1>2, <1>3, <1>5, MuteOps
    <2> QED  BY <1>2, <1>4, <2>1, MuteReplied DEF n
  <1>6. CASE code = "FULL" /\ m.state[d] \notin Cancelled
    <2>1. n = [f EXCEPT !.state[d] = "RETRY"]
      BY <1>3, <1>6
    <2>2. Mute(f, n)
      BY <1>2, <2>1, MuteSets, StateNames
    <2> QED  BY <1>2, <1>4, <2>2, MuteReplied DEF n
  <1>7. CASE code # "FULL" /\ m.state[d] \notin Cancelled
    <2> DEFINE w == WithRc(f, d, code)
    <2>1. n = Remove(w, ctx, d)
      BY <1>3, <1>7
    <2>2. w \in Iface /\ Mute(f, w)
      BY <1>2, WithRcIs, MuteSets
    <2> HIDE DEF w
    <2>3. Mute(m, w)
      BY <1>2, <2>2, MuteTwice
    <2> QED  BY <1>4, <2>1, <2>2, <2>3, RemoveReplies DEF n
  <1> QED  BY <1>5, <1>6, <1>7

LEMMA CompleteReplies ==
    ASSUME NEW m \in Iface, NEW d \in Cmds, NEW ctx \in Contexts, NEW code \in Codes,
           code # "PROXY"
    PROVE  /\ Replied(m, Complete(m, ctx, d, code))
           /\ d \notin Atomic => Mute(m, Complete(m, ctx, d, code))
  <1> DEFINE k == Settle(m, ctx, d, code)
             s == [k EXCEPT !.held[m.seq[d]] = NoCmd, !.buf = FALSE]
             n == Complete(m, ctx, d, code)
             retry == code # "FULL"
  <1>1. n = Advance(s, retry) /\ retry \in BOOLEAN
    BY DEF Complete
  <1>2. k \in Iface /\ Replied(m, k) /\ (d \notin Atomic => Mute(m, k))
    BY SettleType, SettleReplies
  <1>3. m.seq[d] \in Seqs
    BY DEF Iface
  <1> HIDE DEF k
  <1>4. s \in Iface /\ Mute(k, s)
    BY <1>2, <1>3, FreeMailbox, MuteSets
  <1>5. n \in Iface
    BY CompleteIs
  <1> HIDE DEF s, retry, n
  <1>6. Mute(s, n)
    BY <1>1, <1>4, AdvanceMute
  <1>7. Mute(k, n)
    BY <1>4, <1>6, MuteTwice
  <1>8. Replied(k, n)
    BY <1>2, <1>7, MuteReplied
  <1>9. Replied(m, n)
    BY <1>2, <1>5, <1>8, RepliedTwice
  <1> QED  BY <1>2, <1>7, <1>9, MuteTwice DEF n

LEMMA TimeoutReplies ==
    ASSUME NEW m \in Iface, NEW d \in Cmds, NEW ctx \in Contexts
    PROVE  Replied(m, ProxyTimeout(m, ctx, d))
  <1> DEFINE w == WithRc(m, d, "ETIMEDOUT")
             r == Remove(w, ctx, d)
             n == ModeFail(r, ctx)
  <1>1. w \in Iface /\ Mute(m, w)
    BY WithRcIs, MuteSets DEF Codes
  <1> HIDE DEF w
  <1>2. r \in Iface /\ Replied(w, r)
    BY <1>1, RemoveIs, RemoveReplies
  <1> HIDE DEF r
  <1>3. n \in Iface /\ Replied(r, n)
    BY <1>2, ModeFailIs, ModeFailReplies
  <1>4. ProxyTimeout(m, ctx, d) = n
    BY DEF ProxyTimeout, n, r, w
  <1> HIDE DEF n
  <1>5. Replied(m, w)
    BY <1>1, MuteReplied
  <1>6. Replied(m, r)
    BY <1>1, <1>2, <1>5, RepliedTwice
  <1> QED  BY <1>2, <1>3, <1>4, <1>6, RepliedTwice

LEMMA CancelReplies ==
    ASSUME NEW m \in Iface, NEW d \in Cmds, NEW ctx \in Contexts
    PROVE  Replied(m, CancelCmd(m, ctx, d))
  <1> DEFINE p == WithRc(m, d, "EPIPE")
             n == CancelCmd(m, ctx, d)
  <1>1. p \in Iface /\ Mute(m, p)
    BY WithRcIs, MuteSets DEF Codes
  <1>2. n = CASE m.state[d] \in {"QUEUED", "RETRY"}  -> Remove(p, ctx, d)
              [] m.state[d] \in {"RUNNING", "PROXY"} ->
                    [Notify(p, ctx, d) EXCEPT !.state[d] = Mark(@)]
              [] OTHER                               -> m
    BY DEF CancelCmd
  <1>3. n \in Iface
    BY CancelCmdType
  <1> HIDE DEF p, n
  <1>4. Replied(m, p)
    BY <1>1, MuteReplied
  <1>5. CASE m.state[d] \in {"QUEUED", "RETRY"}
    <2>1. n = Remove(p, ctx, d)
      BY <1>2, <1>5
    <2>2. Replied(p, n)
      BY <1>1, <2>1, RemoveReplies
    <2> QED  BY <1>1, <1>3, <1>4, <2>2, RepliedTwice DEF n
  <1>6. CASE m.state[d] \in {"RUNNING", "PROXY"}
    <2> DEFINE t == Notify(p, ctx, d)
               s == Mark(t.state[d])
    <2>1. n = [t EXCEPT !.state[d] = Mark(@)]
      BY <1>2, <1>6
    <2>2. t \in Iface /\ Replied(p, t)
      BY <1>1, NotifyIs, NotifyReplies
    <2> HIDE DEF t
    <2>3. s \in States
      BY <2>2, MarkType DEF Iface
    <2>4. n = [t EXCEPT !.state[d] = s]
      BY <2>1, <2>2 DEF Iface
    <2> HIDE DEF s
    <2>5. Mute(t, n)
      BY <2>2, <2>3, <2>4, MuteSets
    <2>6. Replied(t, n)
      BY <2>2, <2>5, MuteReplied
    <2>7. Replied(m, t)
      BY <1>1, <1>4, <2>2, RepliedTwice
    <2> QED  BY <1>3, <2>2, <2>6, <2>7, RepliedTwice DEF n
  <1>7. CASE m.state[d] \notin {"QUEUED", "RETRY", "RUNNING", "PROXY"}
    <2>1. Mute(m, n)
      BY <1>2, <1>7 DEF Mute
    <2> QED  BY <2>1, MuteReplied DEF n
  <1> QED  BY <1>5, <1>6, <1>7

LEMMA CallMute ==
    ASSUME mcdi \in Iface, Rest, "PROXY" \notin setting.answers, NEW c \in Cmds,
           Queue(c) \/ Send(c) \/ SendAndPoll(c)
    PROVE  Mute(mcdi, mcdi')
  <1> DEFINE l == Listed(mcdi, c)
             t == Transmit(l, c)
  <1>1. l \in Iface /\ Mute(mcdi, l)
    BY ListedIs, MuteOps
  <1>2. CanStart(mcdi) => FreeSeqs(l) # {}
    <2>1. l.held = mcdi.held
      BY DEF Listed, Iface
    <2> HIDE DEF l
    <2> QED  BY <2>1 DEF CanStart, FreeSeqs
  <1> HIDE DEF l
  <1>3. CanStart(mcdi) => t \in Iface /\ Mute(mcdi, t)
    BY <1>1, <1>2, TransmitIs, MuteOps, MuteTwice
  <1> HIDE DEF t
  <1>4. CASE Queue(c)
    <2>1. mcdi' = [l EXCEPT !.state[c] = "QUEUED"]
      BY <1>4 DEF Queue, l
    <2>2. Mute(l, mcdi')
      BY <1>1, <2>1, MuteSets, StateNames
    <2> QED  BY <1>1, <2>2, MuteTwice
  <1>5. CASE Send(c)
    <2>1. mcdi' = Arm(t, c) /\ CanStart(mcdi)
      BY <1>5 DEF Send, Start, t, l
    <2>2. Mute(t, mcdi')
      BY <1>3, <2>1, MuteOps
    <2> QED  BY <1>3, <2>1, <2>2, MuteTwice
  <1>6. CASE SendAndPoll(c)
    <2>1. PICK reply \in setting.answers :
             mcdi' = Complete([t EXCEPT !.mail.reply = reply], "caller", c, reply)
      BY <1>6 DEF SendAndPoll, t, l
    <2>2. reply \in Answers /\ reply \in Codes /\ reply # "PROXY" /\ "caller" \in Contexts
      BY SettingsKnown DEF Rest, Setting, Codes, Contexts
    <2>3. CanStart(mcdi) /\ c \notin Atomic
      BY <1>6, KindsDiffer DEF SendAndPoll
    <2> DEFINE u == [t EXCEPT !.mail.reply = reply]
    <2>4. u \in Iface /\ Mute(t, u)
      BY <1>3, <2>2, <2>3, SetReply, MuteSets
    <2>5. mcdi' = Complete(u, "caller", c, reply)
      BY <2>1
    <2> HIDE DEF u
    <2>6. Mute(u, mcdi')
      BY <2>2, <2>3, <2>4, <2>5, CompleteReplies
    <2>7. Mute(mcdi, u)
      BY <1>3, <2>3, <2>4, MuteTwice
    <2> QED  BY <2>6, <2>7, MuteTwice
  <1> QED  BY <1>4, <1>5, <1>6

LEMMA WorkReplies ==
    ASSUME mcdi \in Iface, Rest, Polls(mcdi, running, caller), Paid(mcdi),
           NEW d \in Cmds, WorkStep(d)
    PROVE  Replied(mcdi, mcdi')
  <1>1. ASSUME NEW late \in BOOLEAN, WorkEnter(d, late)  PROVE Replied(mcdi, mcdi')
    <2>1. mcdi' = [mcdi EXCEPT !.work[d] = "idle", !.expired[d] = @ \/ late]
      BY <1>1 DEF WorkEnter
    <2> QED  BY <2>1, MuteSets, MuteReplied
  <1>2. SUFFICES ASSUME \/ WorkFinished(d) \/ WorkProxyTimeout(d) \/ WorkComplete(d)
                        \/ WorkTimeout(d) \/ WorkPollAgain(d)
                 PROVE  Replied(mcdi, mcdi')
    BY <1>1 DEF WorkStep
  <1>3. running[d]
    BY <1>2 DEF WorkFinished, WorkProxyTimeout, WorkComplete, WorkTimeout, WorkPollAgain, WorkLeaves
  <1>4. mcdi.mode = "POLL" /\ "work" \in Contexts
    BY <1>3, WorkRuns
  <1>5. ASSUME NEW n \in Iface, Replied(mcdi, n), mcdi' = Put(n, d)
        PROVE  Replied(mcdi, mcdi')
    <2>1. mcdi' \in Iface /\ Mute(n, mcdi')
      BY <1>5, PutIs, MuteOps
    <2>2. Replied(n, mcdi')
      BY <2>1, MuteReplied
    <2> QED  BY <1>5, <2>1, <2>2, RepliedTwice
  <1>6. CASE WorkFinished(d)
    BY <1>5, <1>6, MuteReplied DEF WorkFinished, Mute
  <1>7. CASE WorkProxyTimeout(d)
    <2>1. mcdi' = Put(ProxyTimeout(mcdi, "work", d), d)
      BY <1>7 DEF WorkProxyTimeout
    <2> QED  BY <1>4, <1>5, <2>1, ProxyTimeoutType, TimeoutReplies
  <1>8. CASE WorkTimeout(d)
    <2> DEFINE m == [mcdi EXCEPT !.buf = FALSE]
    <2>1. mcdi' = Put(ProxyTimeout(m, "work", d), d)
      BY <1>8 DEF WorkTimeout, Timeout
    <2>2. m \in Iface /\ Mute(mcdi, m)
      BY NoBuffer, MuteSets
    <2> HIDE DEF m
    <2>3. Replied(m, ProxyTimeout(m, "work", d)) /\ ProxyTimeout(m, "work", d) \in Iface
      BY <1>4, <2>2, ProxyTimeoutType, TimeoutReplies
    <2>4. Replied(mcdi, m)
      BY <2>2, MuteReplied
    <2>5. Replied(mcdi, ProxyTimeout(m, "work", d))
      BY <2>2, <2>3, <2>4, RepliedTwice
    <2> QED  BY <1>5, <2>1, <2>3, <2>5
  <1>9. CASE WorkComplete(d)
    <2>1. CodesOf(mcdi.mail.reply) \subseteq Codes
      BY CodesOfReply DEF Iface, Mails
    <2>2. "PROXY" \notin CodesOf(mcdi.mail.reply)
      BY DEF CodesOf, Paid
    <2>3. PICK code \in CodesOf(mcdi.mail.reply) :
             \E m \in Noticed(mcdi, code) : mcdi' = Put(Complete(m, "work", d, code), d)
      BY <1>9 DEF WorkComplete
    <2>4. code \in Codes /\ code # "PROXY"
      BY <2>1, <2>2
    <2>5. Noticed(mcdi, code) \subseteq {mcdi}
      BY <1>4, ModePollIs DEF Noticed
    <2>6. mcdi' = Put(Complete(mcdi, "work", d, code), d)
      BY <2>3, <2>5
    <2> QED  BY <1>4, <1>5, <2>4, <2>6, CompleteIs, CompleteReplies
  <1>10. CASE WorkPollAgain(d)
    <2>1. mcdi' = Put(Arm(mcdi, d), d)
      BY <1>10 DEF WorkPollAgain
    <2>2. Arm(mcdi, d) \in Iface /\ Mute(mcdi, Arm(mcdi, d))
      BY ArmIs, MuteOps
    <2> QED  BY <1>5, <2>1, <2>2, MuteReplied
  <1> QED  BY <1>2, <1>6, <1>7, <1>8, <1>9, <1>10

LEMMA CleanupReplies ==
    ASSUME mcdi \in Iface, NEW e \in Contexts \X Cmds, ProcessCleanup(e)
    PROVE  Replied(mcdi, mcdi')
  <1> DEFINE k == Called(mcdi, e[2])
             p == Put(k, e[2])
             n == [p EXCEPT !.cleanup = @ \ {e}, !.outstanding = @ - 1]
  <1>1. mcdi' = n
    BY DEF ProcessCleanup
  <1>2. k.called = [mcdi.called EXCEPT ![e[2]] = @ + 1] /\ k \in Iface
    BY CalledIs
  <1>3. k.done = [mcdi.done EXCEPT ![e[2]] = mcdi.rc[e[2]]]
    BY DEF Called, Iface
  <1> HIDE DEF k
  <1>4. p \in Iface /\ Mute(k, p)
    BY <1>2, PutIs, MuteOps
  <1> HIDE DEF p
  <1>5. Mute(p, n)
    BY <1>4 DEF Mute, Iface
  <1> HIDE DEF n
  <1>6. n.called = k.called /\ n.done = k.done
    BY <1>4, <1>5 DEF Mute
  <1>7. mcdi.called \in [Cmds -> Nat] /\ mcdi.done \in [Cmds -> Codes \cup {"none"}]
    BY DEF Iface
  <1> QED  BY <1>1, <1>2, <1>3, <1>6, <1>7 DEF Replied

LEMMA FlrReplies ==
    ASSUME mcdi \in Iface, Polls(mcdi, running, caller), FlrReset
    PROVE  Replied(mcdi, mcdi')
  <1> DEFINE n == Flr(mcdi)
             T == Told(mcdi) \cap Atomic
  <1>1. mcdi' = n
    BY DEF FlrReset
  <1>2. n.called = [c \in Cmds |-> IF c \in T THEN mcdi.called[c] + 1 ELSE mcdi.called[c]]
    BY FlrIs
  <1>3. n.done = [c \in Cmds |-> IF c \in T THEN "EIO" ELSE mcdi.done[c]]
    BY DEF Flr, Told, Iface
  <1>4. mcdi.called \in [Cmds -> Nat]
    BY DEF Iface
  <1> HIDE DEF n, T
  <1> QED  BY <1>1, <1>2, <1>3, <1>4 DEF Replied

(* Whatever a step does besides, completers are called with a reply.        *)
LEMMA RepliesStep ==
    ASSUME Types, Polled, Once, ~setting.interrupts, "PROXY" \notin setting.answers,
           [Next]_vars
    PROVE  Replied(mcdi, mcdi')
  <1>1. /\ stage \in {"off", "reset"} /\ Polls(mcdi, running, caller)
        /\ mcdi \in Iface /\ Rest /\ Paid(mcdi)
    BY DEF Polled, Types, Once
  <1>2. ASSUME NEW d \in Cmds, Queue(d) \/ Send(d) \/ SendAndPoll(d)
        PROVE  Replied(mcdi, mcdi')
    BY <1>1, <1>2, CallMute, MuteReplied
  <1>3. ASSUME NEW d \in Cmds, Cancel(d)  PROVE Replied(mcdi, mcdi')
    <2>1. mcdi' = (IF d \in mcdi.list THEN CancelCmd(mcdi, "caller", d) ELSE mcdi)
      BY <1>3 DEF Cancel
    <2>2. "caller" \in Contexts
      BY DEF Contexts
    <2> QED  BY <1>1, <2>1, <2>2, CancelReplies, MuteReplied DEF Mute
  <1>4. ASSUME NEW d \in Cmds, WorkStep(d)  PROVE Replied(mcdi, mcdi')
    BY <1>1, <1>4, WorkReplies
  <1>5. ASSUME NEW e \in Contexts \X Cmds, ProcessCleanup(e)  PROVE Replied(mcdi, mcdi')
    BY <1>1, <1>5, CleanupReplies
  <1>6. CASE McAnswer
    <2>1. PICK reply \in Answers : mcdi' = [mcdi EXCEPT !.mail.reply = reply]
      BY <1>1, <1>6, SettingsKnown DEF McAnswer, Rest, Setting
    <2>2. Mute(mcdi, mcdi')
      BY <1>1, <2>1 DEF Mute, Iface
    <2> QED  BY <1>1, <2>2, MuteReplied
  <1>7. ~EventStep /\ ~ModeEvent /\ ~StopEvents
    BY <1>1 DEF EventStep, EvCpl, EvProxyGranted, EvProxyRefused, EvDeath, EventsRun,
                ModeEvent, StopEvents
  <1>8. CASE FlrReset
    BY <1>1, <1>8, FlrReplies
  <1>9. mcdi' = mcdi => Replied(mcdi, mcdi')
    BY <1>1, MuteReplied DEF Mute
  <1>10. ASSUME NEW d \in Cmds,
                CallRefused(d) \/ CallBusy(d) \/ CallTimesOut(d) \/ CallCompleted(d) \/ CallTimedOut(d)
         PROVE  Replied(mcdi, mcdi')
    BY <1>9, <1>10 DEF CallRefused, CallBusy, CallTimesOut, CallCompleted, CallTimedOut
  <1>11. CASE EventsStart \/ EventsStopped \/ PostReset \/ UNCHANGED vars
    BY <1>9, <1>11 DEF EventsStart, EventsStopped, PostReset, vars
  <1> QED  BY <1>2, <1>3, <1>4, <1>5, <1>6, <1>7, <1>8, <1>10, <1>11 DEF Next, CallerStep

(* A command whose completer was not called has no reply.                   *)
Uncalled == ~setting.interrupts /\ "PROXY" \notin setting.answers =>
                \A c \in Cmds : mcdi.called[c] = 0 => mcdi.done[c] = "none"

(* The settings this is about.                                              *)
Eventless == ~setting.interrupts /\ "PROXY" \notin setting.answers

LEMMA UncalledInit == Init => Uncalled
BY DEF Init, Uncalled

LEMMA UncalledStep == Types /\ Polled /\ Once /\ Uncalled /\ [Next]_vars => Uncalled'
  <1> SUFFICES ASSUME Types, Polled, Once, Uncalled, [Next]_vars  PROVE Uncalled'
    OBVIOUS
  <1>1. setting' = setting
    BY SettingKept
  <1> SUFFICES ASSUME ~setting.interrupts, "PROXY" \notin setting.answers,
                      NEW c \in Cmds, mcdi'.called[c] = 0
               PROVE  mcdi'.done[c] = "none"
    BY <1>1 DEF Uncalled
  <1>2. mcdi \in Iface /\ Types'
    BY TypesStep DEF Types
  <1>3. mcdi.called[c] \in Nat
    BY <1>2 DEF Iface
  <1>4. mcdi'.called[c] >= mcdi.called[c]
        /\ (mcdi'.called[c] = mcdi.called[c] => mcdi'.done[c] = mcdi.done[c])
    BY RepliesStep DEF Replied
  <1>5. mcdi.called[c] = 0
    BY <1>3, <1>4
  <1> QED  BY <1>4, <1>5 DEF Uncalled

(* The state of a call, its reply and its result, for who made it.          *)
Calls    == Sync \cup Atomic
CallOf   == [c \in Calls |-> IF caller[c] \in {"idle", "returned"} THEN caller[c] ELSE "active"]
ReplyOf  == [c \in Calls |-> mcdi.done[c]]
ResultOf == [c \in Calls |-> result[c]]

LEMMA CallGoesOn ==
    ASSUME Rest, NEW c \in Cmds, NEW s \in CallerPcs, caller' = [caller EXCEPT ![c] = s]
    PROVE  /\ c \in Calls => CallOf' = [CallOf EXCEPT ![c] =
                                           IF s \in {"idle", "returned"} THEN s ELSE "active"]
           /\ c \notin Calls => CallOf' = CallOf
  <1>1. caller \in [Cmds -> CallerPcs] /\ Calls \subseteq Cmds
    BY DEF Rest, Calls, Cmds
  <1>2. \A d \in Calls : caller'[d] = IF d = c THEN s ELSE caller[d]
    BY <1>1
  <1> QED  BY <1>2 DEF CallOf

LEMMA ResultGiven ==
    ASSUME Rest, NEW c \in Cmds, NEW r, result' = [result EXCEPT ![c] = r]
    PROVE  /\ c \in Calls => ResultOf' = [ResultOf EXCEPT ![c] = r]
           /\ c \notin Calls => ResultOf' = ResultOf
  <1>1. \A d \in Calls : result'[d] = IF d = c THEN r ELSE result[d]
    BY DEF Rest, Calls, Cmds
  <1> QED  BY <1>1 DEF ResultOf

(* While no event queue is started and no command is held back, the calls   *)
(* that wait are those of the abstract transport: they begin, are given at  *)
(* most one reply, however their command ends, and return with that reply   *)
(* or an error of the transport.                                            *)
THEOREM PolledImplementsRpc ==
    Spec /\ ~setting.interrupts /\ "PROXY" \notin setting.answers => Caller!SafeSpec
  <1> DEFINE IInv == Types /\ Polled /\ Once /\ Uncalled /\ Eventless
  <1>1. Init => Caller!Init
    BY DEF Init, Caller!Init, Cmds
  <1>2. IInv /\ [Next]_vars => [Caller!Next]_(Caller!vars)
    <2> SUFFICES ASSUME IInv, [Next]_vars
                 PROVE  Caller!Next \/ UNCHANGED <<CallOf, ReplyOf, ResultOf>>
      BY DEF Caller!vars, CallOf, ReplyOf, ResultOf, Calls
    <2>a. /\ Polls(mcdi, running, caller) /\ mcdi \in Iface /\ Rest
          /\ ~setting.interrupts /\ "PROXY" \notin setting.answers
      BY DEF Polled, Types, Eventless
    <2>b. Calls \subseteq Cmds /\ caller \in [Cmds -> CallerPcs]
      BY <2>a DEF Calls, Cmds, Rest
    <2>1. ASSUME NEW c \in Cmds, Queue(c) \/ Send(c) \/ SendAndPoll(c)
          PROVE  Caller!Next \/ UNCHANGED <<CallOf, ReplyOf, ResultOf>>
      <3>1. caller[c] = "idle" /\ caller' = [caller EXCEPT ![c] = "waiting"] /\ result' = result
        BY <2>1 DEF Queue, Send, SendAndPoll, MayCall, Goto
      <3>2. ReplyOf' = ReplyOf /\ ResultOf' = ResultOf
        BY <2>1, <2>a, <3>1, CallMute DEF Mute, ReplyOf, ResultOf
      <3>3. "waiting" \in CallerPcs
        BY DEF CallerPcs
      <3>4. CASE c \in Calls
        <4>1. CallOf' = [CallOf EXCEPT ![c] = "active"] /\ CallOf[c] = "idle"
          BY <2>a, <3>1, <3>3, <3>4, CallGoesOn DEF CallOf
        <4>2. Caller!Begin(c)
          BY <3>2, <4>1 DEF Caller!Begin, CallOf, ReplyOf, ResultOf, Calls
        <4> QED  BY <3>4, <4>2 DEF Caller!Next, Calls
      <3>5. CASE c \notin Calls
        BY <2>a, <3>1, <3>2, <3>3, <3>5, CallGoesOn
      <3> QED  BY <3>4, <3>5
    <2>2. ASSUME NEW c \in Cmds, NEW r, caller[c] # "returned", mcdi' = mcdi, Return(c, r),
                 \/ r \in {"ENETDOWN", "ETIMEDOUT"}
                 \/ caller[c] # "idle" /\ r = mcdi.done[c] /\ r # "none"
          PROVE  Caller!Next \/ UNCHANGED <<CallOf, ReplyOf, ResultOf>>
      <3>1. /\ caller' = [caller EXCEPT ![c] = "returned"]
            /\ result' = [result EXCEPT ![c] = r] /\ ReplyOf' = ReplyOf
        BY <2>2 DEF Return, Goto, ReplyOf
      <3>2. "returned" \in CallerPcs
        BY DEF CallerPcs
      <3>3. CASE c \in Calls
        <4>1. CallOf' = [CallOf EXCEPT ![c] = "returned"] /\ CallOf[c] # "returned"
          BY <2>2, <2>a, <3>1, <3>2, <3>3, CallGoesOn DEF CallOf
        <4>2. ResultOf' = [ResultOf EXCEPT ![c] = r]
          BY <2>a, <3>1, <3>3, ResultGiven
        <4>3. CASE r \in {"ENETDOWN", "ETIMEDOUT"}
          <5>1. Caller!Fail(c)
            BY <3>1, <4>1, <4>2, <4>3
               DEF Caller!Fail, Caller!Errors, CallOf, ReplyOf, ResultOf, Calls
          <5> QED  BY <3>3, <5>1 DEF Caller!Next, Calls
        <4>4. CASE caller[c] # "idle" /\ r = mcdi.done[c] /\ r # "none"
          <5>1. CallOf[c] = "active" /\ ReplyOf[c] = r
            BY <2>2, <3>3, <4>4 DEF CallOf, ReplyOf
          <5>2. Caller!Finish(c)
            BY <3>1, <4>1, <4>2, <4>4, <5>1
               DEF Caller!Finish, CallOf, ReplyOf, ResultOf, Calls
          <5> QED  BY <3>3, <5>2 DEF Caller!Next, Calls
        <4> QED  BY <2>2, <4>3, <4>4
      <3>4. CASE c \notin Calls
        BY <2>a, <3>1, <3>2, <3>4, CallGoesOn, ResultGiven
      <3> QED  BY <3>3, <3>4
    <2>3. ASSUME CallOf' = CallOf, result' = result  PROVE Caller!Next
      <3>1. Replied(mcdi, mcdi') /\ Types' /\ Polled' /\ Once' /\ setting' = setting
        BY <2>a, RepliesStep, TypesStep, PolledStep, OnceStep, SettingKept
      <3>2. mcdi' \in Iface /\ Polls(mcdi', running', caller') /\ Paid(mcdi')
        BY <2>a, <3>1 DEF Types, Polled, Once
      <3>3. ReplyOf' \in [Calls -> Codes \cup {"none"}]
        BY <2>b, <3>2 DEF ReplyOf, Iface
      <3>4. ASSUME NEW c \in Calls, ReplyOf'[c] # ReplyOf[c]
            PROVE  CallOf[c] # "idle" /\ ReplyOf[c] = "none"
        <4>1. c \in Cmds /\ mcdi'.done[c] # mcdi.done[c]
          BY <2>b, <3>4 DEF ReplyOf
        <4>2. mcdi.called[c] \in Nat /\ mcdi'.called[c] \in Nat
          BY <2>a, <3>2, <4>1 DEF Iface
        <4>3. mcdi'.called[c] > mcdi.called[c]
          BY <3>1, <4>1, <4>2 DEF Replied
        <4>4. Due(mcdi', c) <= 1 /\ Cardinality(Lists(mcdi', c)) \in Nat
          BY <3>2, <4>1, ListsFinite DEF Paid
        <4>5. mcdi'.called[c] <= 1
          BY <4>2, <4>4 DEF Due, Flag
        <4>6. mcdi.called[c] = 0 /\ mcdi'.called[c] # 0
          BY <4>2, <4>3, <4>5
        <4>7. mcdi.done[c] = "none"
          BY <2>a, <4>1, <4>6 DEF Uncalled
        <4>8. caller'[c] # "idle"
          BY <3>2, <4>1, <4>6 DEF Polls, Fine, Resting, Working, Issued
        <4>9. CallOf'[c] # "idle"
          BY <3>4, <4>8 DEF CallOf
        <4> QED  BY <2>3, <3>4, <4>7, <4>9 DEF ReplyOf
      <3>5. ResultOf' = ResultOf
        BY <2>3 DEF ResultOf
      <3>6. Caller!Reply
        BY <2>3, <3>3, <3>4, <3>5 DEF Caller!Reply, CallOf, ReplyOf, ResultOf, Calls
      <3> QED  BY <3>6 DEF Caller!Next
    <2>4. ASSUME NEW c \in Cmds, CallRefused(c) \/ CallBusy(c)
          PROVE  Caller!Next \/ UNCHANGED <<CallOf, ReplyOf, ResultOf>>
      <3>1. PICK r \in {"ENETDOWN", "ETIMEDOUT"} : Return(c, r)
        BY <2>4 DEF CallRefused, CallBusy
      <3>2. caller[c] # "returned" /\ mcdi' = mcdi
        BY <2>4 DEF CallRefused, CallBusy, MayCall
      <3> QED  BY <2>2, <3>1, <3>2
    <2>5. ASSUME NEW c \in Cmds, CallCompleted(c)
          PROVE  Caller!Next \/ UNCHANGED <<CallOf, ReplyOf, ResultOf>>
      <3>1. /\ caller[c] = "waiting" /\ mcdi.done[c] # "none"
            /\ Return(c, mcdi.done[c]) /\ mcdi' = mcdi
        BY <2>5 DEF CallCompleted
      <3> QED  BY <2>2, <3>1
    <2>6. ASSUME NEW c \in Cmds, CallTimedOut(c)
          PROVE  Caller!Next \/ UNCHANGED <<CallOf, ReplyOf, ResultOf>>
      <3>1. PICK r \in {"ETIMEDOUT", mcdi.done[c]} \ {"none"} : Return(c, r)
        BY <2>6 DEF CallTimedOut
      <3>2. caller[c] = "cancelled" /\ mcdi' = mcdi
        BY <2>6 DEF CallTimedOut
      <3> QED  BY <2>2, <3>1, <3>2
    <2>7. ASSUME NEW c \in Cmds, CallTimesOut(c) \/ Cancel(c)  PROVE Caller!Next
      <3>1. PICK s \in {"cancelling", "cancelled"} :
               caller' = [caller EXCEPT ![c] = s] /\ caller[c] \in {"waiting", "cancelling"}
        BY <2>7 DEF CallTimesOut, Cancel, Goto
      <3>2. s \in CallerPcs /\ s \notin {"idle", "returned"}
        BY DEF CallerPcs
      <3>3. c \in Calls => CallOf[c] = "active"
        BY <3>1 DEF CallOf
      <3>4. CallOf' = CallOf
        <4>1. CASE c \in Calls
          <5>1. CallOf' = [CallOf EXCEPT ![c] = "active"]
            BY <2>a, <3>1, <3>2, <4>1, CallGoesOn
          <5> QED  BY <3>3, <4>1, <5>1 DEF CallOf
        <4>2. CASE c \notin Calls
          BY <2>a, <3>1, <3>2, <4>2, CallGoesOn
        <4> QED  BY <4>1, <4>2
      <3>5. result' = result
        BY <2>7 DEF CallTimesOut, Cancel
      <3> QED  BY <2>3, <3>4, <3>5
    <2>8. ASSUME caller' = caller, result' = result  PROVE Caller!Next
      <3>1. CallOf' = CallOf
        BY <2>8 DEF CallOf
      <3> QED  BY <2>3, <2>8, <3>1
    <2>9. ASSUME NEW c \in Cmds, WorkStep(c)  PROVE Caller!Next
      <3>1. caller' = caller /\ result' = result
        BY <2>9 DEF WorkStep, WorkEnter, WorkFinished, WorkProxyTimeout, WorkComplete,
                    WorkTimeout, WorkPollAgain, WorkLeaves
      <3> QED  BY <2>8, <3>1
    <2>10. CASE \/ \E e \in Contexts \X Cmds : ProcessCleanup(e)
                \/ McAnswer \/ EventStep
                \/ EventsStart \/ ModeEvent \/ StopEvents \/ EventsStopped
                \/ FlrReset \/ PostReset \/ UNCHANGED vars
      <3>1. caller' = caller /\ result' = result
        BY <2>10 DEF ProcessCleanup, McAnswer, EventStep, EvCpl, EvProxyGranted, EvProxyRefused,
                     EvDeath, EventsStart, ModeEvent, StopEvents, EventsStopped, FlrReset,
                     PostReset, vars
      <3> QED  BY <2>8, <3>1
    <2> QED
      BY <2>1, <2>4, <2>5, <2>6, <2>7, <2>9, <2>10 DEF Next, CallerStep
  <1>3. Eventless /\ [Next]_vars => Eventless'
    BY SettingKept DEF Eventless
  <1>4. ~setting.interrupts /\ "PROXY" \notin setting.answers => Eventless
    BY DEF Eventless
  <1> QED
    BY <1>1, <1>2, <1>3, <1>4, TypesInit, PolledInit, OnceInit, UncalledInit,
       TypesStep, PolledStep, OnceStep, UncalledStep, PTL DEF Spec, Caller!SafeSpec

===========================================================================
