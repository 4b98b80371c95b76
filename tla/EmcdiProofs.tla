--------------------------- MODULE EmcdiProofs ---------------------------
(***************************************************************************)
(* Proofs about Emcdi, for any set of commands, retry limit, sequence      *)
(* space and choice of faults.                                             *)
(***************************************************************************)
EXTENDS Emcdi, TLAPS, FiniteSetTheorems

USE NoCmdNotCmd, MaxRetryPos, SeqSpacePos, AllocGarbage, KnownReplies

(* A sequence number is followed by one that fits in the field.             *)
LEMMA NextSeqInRange == ASSUME NEW s \in Seqs PROVE NextSeq(s) \in Seqs
  BY SMT DEF NextSeq, Seqs

(* So does the u8 that counts retransmissions.                              *)
LEMMA ByteWraps == ASSUME NEW r \in Bytes PROVE (r + 1) % 256 \in Bytes
  BY SMT DEF Bytes

(* A message on the wire carries a command and a number of the field.       *)
LEMMA MsgIsRecord ==
    ASSUME NEW c \in Cmds, NEW q \in Seqs
    PROVE  [cmd |-> c, seq |-> q] \in Msgs
  BY DEF Msgs

(* Transmitting keeps the variables it writes in their domains.             *)
LEMMA TransmitType ==
    ASSUME TypeOK,
           NEW st \in [Cmds -> States], NEW pend \in Cmds \cup {NoCmd},
           NEW fresh \in SUBSET Cmds, NEW tried \in SUBSET Cmds, NEW sent \in SUBSET Cmds,
           NEW refs \in [Cmds -> Int], NEW works \in [Cmds -> {"idle", "armed", "due"}],
           Transmit(st, pend, fresh, tried, sent, refs, works)
    PROVE  /\ pending' \in Cmds \cup {NoCmd}
           /\ prev_seq' \in Seqs
           /\ seq' \in [Cmds -> Seqs]
           /\ state' \in [Cmds -> States]
           /\ started' \in [Cmds -> 0 .. MaxAge]
           /\ ref' \in [Cmds -> Int]
           /\ work' \in [Cmds -> {"idle", "armed", "due"}]
           /\ wire' \subseteq Msgs
<1> DEFINE newSeq == [c \in Cmds |-> IF c \in fresh THEN NextSeq(prev_seq) ELSE seq[c]]
           seqs   == [c \in Cmds |-> IF c \in tried THEN newSeq[c] ELSE seq[c]]
<1>1. NextSeq(prev_seq) \in Seqs
  BY NextSeqInRange DEF TypeOK
<1>2. newSeq \in [Cmds -> Seqs]
  BY <1>1 DEF TypeOK
<1>3. seqs \in [Cmds -> Seqs]
  BY <1>2 DEF TypeOK
<1>4. seq' = seqs /\ wire' = wire \cup {[cmd |-> c, seq |-> seqs[c]] : c \in sent}
  BY DEF Transmit
<1>5. wire' \subseteq Msgs
  <2> HIDE DEF newSeq, seqs
  <2>1. \A c \in sent : [cmd |-> c, seq |-> seqs[c]] \in Msgs
    BY <1>3, MsgIsRecord
  <2>2. wire \subseteq Msgs
    BY DEF TypeOK
  <2> QED BY <1>4, <2>1, <2>2
<1>6. pending' \in Cmds \cup {NoCmd} /\ prev_seq' \in Seqs
  <2>1. CASE tried = {}
    BY <2>1 DEF Transmit, TypeOK
  <2>2. CASE tried # {}
    <3>1. \E c \in tried : pending' = c /\ prev_seq' = seqs[c]
      BY <2>2 DEF Transmit
    <3> QED BY <3>1, <1>3
  <2> QED BY <2>1, <2>2
<1>7. state' \in [Cmds -> States]
  BY DEF Transmit, States
<1>8. started' \in [Cmds -> 0 .. MaxAge]
  BY DEF Transmit, TypeOK, MaxAge
<1>9. ref' \in [Cmds -> Int] /\ work' \in [Cmds -> {"idle", "armed", "due"}]
  BY DEF Transmit
<1> HIDE DEF newSeq, seqs
<1> QED BY <1>3, <1>4, <1>5, <1>6, <1>7, <1>8, <1>9

(* The same of a pass over the list.                                        *)
LEMMA StartOrQueueType ==
    ASSUME TypeOK,
           NEW st \in [Cmds -> States], NEW pend \in Cmds \cup {NoCmd},
           NEW list \in SUBSET Cmds,
           NEW refs \in [Cmds -> Int], NEW works \in [Cmds -> {"idle", "armed", "due"}],
           StartOrQueue(st, list, pend, refs, works)
    PROVE  /\ pending' \in Cmds \cup {NoCmd}
           /\ prev_seq' \in Seqs
           /\ seq' \in [Cmds -> Seqs]
           /\ state' \in [Cmds -> States]
           /\ started' \in [Cmds -> 0 .. MaxAge]
           /\ ref' \in [Cmds -> Int]
           /\ work' \in [Cmds -> {"idle", "armed", "due"}]
           /\ wire' \subseteq Msgs
<1> DEFINE fresh == Fresh(st, list, pend)
           tried == Attempted(st, list, pend)
<1>1. fresh \in SUBSET Cmds
  BY DEF Fresh
<1>2. tried \in SUBSET Cmds
  BY DEF Attempted, Fresh
<1>3. \A sent \in SentOf(tried) : sent \in SUBSET Cmds
  BY <1>2 DEF SentOf
<1>4. \/ \E sent \in SentOf(tried) : Transmit(st, pend, fresh, tried, sent, refs, works)
      \/ Transmit(st, pend, {}, {}, {}, refs, works)
  BY DEF StartOrQueue
<1> HIDE DEF fresh, tried
<1>5. CASE \E sent \in SentOf(tried) : Transmit(st, pend, fresh, tried, sent, refs, works)
  <2>1. PICK sent \in SentOf(tried) : Transmit(st, pend, fresh, tried, sent, refs, works)
    BY <1>5
  <2>2. sent \in SUBSET Cmds
    BY <1>3
  <2> QED BY ONLY TypeOK, <1>1, <1>2, <2>1, <2>2, TransmitType
<1>6. CASE Transmit(st, pend, {}, {}, {}, refs, works)
  BY <1>6, TransmitType
<1> QED BY <1>4, <1>5, <1>6

----------------------------------------------------------------------------
(* Types                                                                    *)

LEMMA TypeInit == Init => TypeOK
<1> SUFFICES ASSUME Init PROVE TypeOK
  OBVIOUS
<1>1. 0 \in Seqs /\ 0 \in Bytes /\ 0 \in 0 .. MaxAge /\ 0 \in 0 .. MaxWait
  BY SMT DEF Seqs, Bytes, MaxAge, MaxWait
<1>2. seq \in [Cmds -> Seqs] /\ retry \in [Cmds -> Bytes]
  BY <1>1 DEF Init
<1>3. started \in [Cmds -> 0 .. MaxAge] /\ waited \in [Cmds -> 0 .. MaxWait]
  BY <1>1 DEF Init
<1>4. /\ state \in [Cmds -> States] /\ caller \in [Cmds -> Callers]
      /\ result \in [Cmds -> Results \cup {"none"}]
      /\ done \in [Cmds -> Replies \cup {"none"}]
  BY DEF Init, States, Callers, Results
<1>5. /\ handle \in [Cmds -> Nat] /\ ref \in [Cmds -> Int] /\ wait_ref \in [Cmds -> Int]
      /\ work \in [Cmds -> {"idle", "armed", "due"}] /\ running \in [Cmds -> BOOLEAN]
  BY DEF Init
<1>6. /\ enabled \in BOOLEAN /\ pending \in Cmds \cup {NoCmd} /\ prev_seq \in Seqs
      /\ prev_handle \in Nat /\ cmd_list \subseteq Cmds /\ outstanding_cleanups \in Int
  <2>1. enabled \in BOOLEAN /\ pending \in Cmds \cup {NoCmd} /\ prev_seq \in Seqs
    BY <1>1 DEF Init
  <2>2. prev_handle \in Nat /\ outstanding_cleanups \in Int /\ cmd_list \subseteq Cmds
    BY DEF Init
  <2> QED BY <2>1, <2>2
<1>7. /\ cleanup \subseteq Contexts \X Cmds /\ wire \subseteq Msgs /\ rx \in Msgs \cup {NoMsg}
      /\ fini \in {"stopped", "none", "waiting", "destroying"}
  BY DEF Init
<1> QED BY <1>2, <1>3, <1>4, <1>5, <1>6, <1>7 DEF TypeOK

(* Every step keeps every variable in its domain.                           *)
LEMMA TypeStep == TypeOK /\ [Next]_vars => TypeOK'
<1> SUFFICES ASSUME TypeOK, [Next]_vars PROVE TypeOK'
  OBVIOUS
<1> USE DEF Callers, Results
<1>1. ASSUME NEW c \in Cmds, CallRefused(c) PROVE TypeOK'
  BY <1>1, SMT DEF CallRefused, TypeOK, ifaceVars, cmdVars, callerVars
<1>2. ASSUME NEW c \in Cmds, CallChecked(c) PROVE TypeOK'
  BY <1>2, SMT DEF CallChecked, TypeOK, ifaceVars, cmdVars, callerVars
<1>3. ASSUME NEW c \in Cmds, CallCompleted(c) PROVE TypeOK'
  BY <1>3, SMT DEF CallCompleted, TypeOK, ifaceVars, cmdVars, callerVars, MaxWait
<1>4. ASSUME NEW c \in Cmds, CallTimesOut(c) PROVE TypeOK'
  BY <1>4, SMT DEF CallTimesOut, TypeOK, ifaceVars, cmdVars, callerVars, MaxWait
<1>5. ASSUME NEW c \in Cmds, Cancel(c) PROVE TypeOK'
  BY <1>5, SMT DEF Cancel, TypeOK, ifaceVars, cmdVars, callerVars, AddCleanup, Contexts, States
<1>6. ASSUME NEW c \in Cmds, CallTimedOut(c) PROVE TypeOK'
  BY <1>6, SMT DEF CallTimedOut, TypeOK, ifaceVars, cmdVars, callerVars
<1>7. ASSUME NEW c \in Cmds, WorkEnter(c) PROVE TypeOK'
  BY <1>7, SMT DEF WorkEnter, TypeOK, ifaceVars, cmdVars, callerVars
<1>8. ASSUME NEW c \in Cmds, WorkFinished(c) PROVE TypeOK'
  BY <1>8, SMT DEF WorkFinished, TypeOK, ifaceVars, cmdVars, callerVars
<1>9. ASSUME NEW c \in Cmds, WorkRequeue(c) PROVE TypeOK'
  BY <1>9, SMT DEF WorkRequeue, TypeOK, ifaceVars, cmdVars, callerVars
<1>10. ASSUME NEW c \in Cmds, WorkRetry(c) PROVE TypeOK'
  <2> DEFINE st == [state EXCEPT ![c] = "RETRY"]
             refs == [ref EXCEPT ![c] = @ - 1]
  <2>1. st \in [Cmds -> States] /\ refs \in [Cmds -> Int]
    BY DEF TypeOK, States
  <2>2. /\ cmd_list \in SUBSET Cmds /\ pending \in Cmds \cup {NoCmd}
        /\ work \in [Cmds -> {"idle", "armed", "due"}]
    BY DEF TypeOK
  <2>3. StartOrQueue(st, cmd_list, pending, refs, work)
    BY <1>10 DEF WorkRetry
  <2> HIDE DEF st, refs
  <2>4. /\ pending' \in Cmds \cup {NoCmd} /\ prev_seq' \in Seqs /\ seq' \in [Cmds -> Seqs]
        /\ state' \in [Cmds -> States] /\ started' \in [Cmds -> 0 .. MaxAge]
        /\ ref' \in [Cmds -> Int] /\ work' \in [Cmds -> {"idle", "armed", "due"}]
        /\ wire' \subseteq Msgs
    BY ONLY TypeOK, <2>1, <2>2, <2>3, StartOrQueueType
  <2>5. retry' \in [Cmds -> Bytes] /\ running' \in [Cmds -> BOOLEAN]
    BY <1>10, ByteWraps DEF WorkRetry, TypeOK
  <2> QED BY <1>10, <2>4, <2>5 DEF WorkRetry, TypeOK, callerVars
<1>11. ASSUME NEW c \in Cmds, WorkGiveUp(c) PROVE TypeOK'
  <2>1. retry' \in [Cmds -> Bytes]
    BY <1>11, ByteWraps DEF WorkGiveUp, TypeOK
  <2> QED
    BY <1>11, <2>1, SMT DEF WorkGiveUp, TypeOK, AddCleanup, Contexts, States, callerVars
<1>12. ASSUME NEW m \in wire, RxCheck(m) PROVE TypeOK'
  BY <1>12, SMT DEF RxCheck, TypeOK, ifaceVars, cmdVars, callerVars
<1>13. CASE RxNotFound
  BY <1>13, SMT DEF RxNotFound, TypeOK, ifaceVars, cmdVars, callerVars
<1>14. CASE RxComplete
  <2> DEFINE c == pending
             cancelled == state[c] = "RUNNING_CANCELLED"
             dequeued  == work[c] # "idle"
             st   == IF cancelled THEN state ELSE [state EXCEPT ![c] = "FINISHED"]
             gone == One(cancelled) + One(dequeued)
             refs == [ref EXCEPT ![c] = @ - gone]
             works == [work EXCEPT ![c] = "idle"]
             list == cmd_list \ {c}
  <2>1. /\ st \in [Cmds -> States] /\ refs \in [Cmds -> Int] /\ list \in SUBSET Cmds
        /\ works \in [Cmds -> {"idle", "armed", "due"}] /\ NoCmd \in Cmds \cup {NoCmd}
    <3>0. gone \in Int /\ c \in Cmds
      BY <1>14 DEF One, RxComplete, TypeOK
    <3>1. st \in [Cmds -> States]
      BY DEF TypeOK, States
    <3> HIDE DEF gone, c
    <3>2. refs \in [Cmds -> Int]
      BY <3>0 DEF TypeOK
    <3>3. list \in SUBSET Cmds /\ works \in [Cmds -> {"idle", "armed", "due"}]
      BY DEF TypeOK
    <3> QED BY <3>1, <3>2, <3>3
  <2>2. StartOrQueue(st, list, NoCmd, refs, works)
    BY <1>14 DEF RxComplete
  <2>3. done' \in [Cmds -> Replies \cup {"none"}]
    BY <1>14 DEF RxComplete, TypeOK
  <2>4. cleanup' \subseteq Contexts \X Cmds /\ outstanding_cleanups' \in Int
    BY <1>14, SMT DEF RxComplete, TypeOK, AddCleanup, Contexts
  <2>5. cmd_list' \subseteq Cmds /\ rx' = NoMsg
    BY <1>14 DEF RxComplete, TypeOK
  <2> HIDE DEF st, refs, works, list
  <2>6. /\ pending' \in Cmds \cup {NoCmd} /\ prev_seq' \in Seqs /\ seq' \in [Cmds -> Seqs]
        /\ state' \in [Cmds -> States] /\ started' \in [Cmds -> 0 .. MaxAge]
        /\ ref' \in [Cmds -> Int] /\ work' \in [Cmds -> {"idle", "armed", "due"}]
        /\ wire' \subseteq Msgs
    BY ONLY TypeOK, <2>1, <2>2, StartOrQueueType
  <2> QED BY <1>14, <2>3, <2>4, <2>5, <2>6 DEF RxComplete, TypeOK
<1>15. ASSUME NEW e \in cleanup, ProcessCleanup(e) PROVE TypeOK'
  <2>1. e[2] \in Cmds
    BY DEF TypeOK
  <2>2. ref' \in [Cmds -> Int]
    BY <1>15, <2>1 DEF ProcessCleanup, TypeOK
  <2> QED BY <1>15, <2>2 DEF ProcessCleanup, TypeOK, callerVars
<1>16. CASE EmcdiInit \/ FiniStart \/ FiniFlushed \/ FiniDestroy
  <2>1. CASE EmcdiInit
    BY <2>1, SMT DEF EmcdiInit, TypeOK, cmdVars, callerVars
  <2>2. CASE FiniStart
    BY <2>2, SMT DEF FiniStart, TypeOK, ifaceVars, cmdVars, callerVars
  <2>3. CASE FiniFlushed
    BY <2>3, SMT DEF FiniFlushed, TypeOK, ifaceVars, cmdVars, callerVars
  <2>4. CASE FiniDestroy
    <3>1. /\ enabled' = FALSE /\ fini' = "stopped"
          /\ UNCHANGED <<pending, prev_seq, prev_handle, cmd_list, outstanding_cleanups,
                         cmdVars, callerVars, cleanup, wire, rx>>
      BY <2>4 DEF FiniDestroy
    <3> QED BY <3>1 DEF TypeOK, cmdVars, callerVars
  <2> QED BY <1>16, <2>1, <2>2, <2>3, <2>4
<1>17. CASE Tick
  <2>1. waited' \in [Cmds -> 0 .. MaxWait]
    BY <1>17, SMT DEF Tick, TypeOK, Older, MaxWait
  <2>2. started' \in [Cmds -> 0 .. MaxAge]
    BY <1>17, SMT DEF Tick, TypeOK, Older, MaxAge
  <2>3. work' \in [Cmds -> {"idle", "armed", "due"}]
    BY <1>17 DEF Tick, TypeOK
  <2> QED BY <1>17, <2>1, <2>2, <2>3 DEF Tick, TypeOK, ifaceVars
<1>18. ASSUME NEW c \in Cmds, Submit(c) PROVE TypeOK'
  <2>1. handle' \in [Cmds -> Nat] /\ prev_handle' \in Nat
    BY <1>18, SMT DEF Submit, TypeOK
  <2>2. PICK s0 \in StateAtAlloc, r0 \in RetryAtAlloc, q \in Seqs :
           /\ retry' = [retry EXCEPT ![c] = r0]
           /\ seq' = [seq EXCEPT ![c] = q]
           /\ SubmitQueued(c) \/ SubmitSent(c, q) \/ SubmitFailed(c, s0, q)
    <3>1. NextSeq(prev_seq) \in Seqs
      BY NextSeqInRange DEF TypeOK
    <3> QED BY <1>18, <3>1 DEF Submit
  <2>3. retry' \in [Cmds -> Bytes] /\ seq' \in [Cmds -> Seqs]
    BY <2>2 DEF TypeOK
  <2>4. s0 \in States /\ [cmd |-> c, seq |-> q] \in Msgs
    BY MsgIsRecord
  <2>5. CASE SubmitQueued(c)
    BY <1>18, <2>1, <2>3, <2>5 DEF Submit, SubmitQueued, TypeOK, States
  <2>6. CASE SubmitSent(c, q)
    BY <1>18, <2>1, <2>3, <2>4, <2>6, SMT DEF Submit, SubmitSent, TypeOK, States, MaxAge
  <2>7. CASE SubmitFailed(c, s0, q)
    BY <1>18, <2>1, <2>2, <2>3, <2>4, <2>7 DEF Submit, SubmitFailed, TypeOK
  <2> QED BY <2>2, <2>5, <2>6, <2>7
<1>19. CASE UNCHANGED vars
  BY <1>19 DEF TypeOK, vars, ifaceVars, cmdVars, callerVars
<1> QED
  BY <1>1, <1>2, <1>3, <1>4, <1>5, <1>6, <1>7, <1>8, <1>9, <1>10, <1>11, <1>12, <1>13,
     <1>14, <1>15, <1>16, <1>17, <1>18, <1>19
  DEF Next, CallerStep, WorkStep, RxStep, FiniStep, ProcessCleanup

(* TypeOK is an invariant of the interface.                                 *)
THEOREM TypeCorrect == Spec => []TypeOK
  BY TypeInit, TypeStep, PTL DEF Spec

----------------------------------------------------------------------------
(* The life of a command and its references                                 *)

(* What a pass over the list does to each command: one off the list is left *)
(* alone, one on the list may be started, and a work item is only queued    *)
(* with a reference of its own.  What is pending afterwards was pending     *)
(* before or was waiting on the list.                                       *)
PassEffect(st, list, pend, refs, works) ==
    /\ \A c \in Cmds :
        /\ state'[c] = st[c] \/ (state'[c] = "RUNNING" /\ st[c] \in {"QUEUED", "RETRY"})
        /\ \/ work'[c] = works[c] /\ ref'[c] = refs[c]
           \/ c \in list /\ ref'[c] = refs[c] + 1
        /\ c \notin list => state'[c] = st[c]
    /\ pending' = pend \/ (pending' \in list /\ st[pending'] \in {"QUEUED", "RETRY"})

LEMMA TransmitEffect ==
    ASSUME TypeOK, NEW st \in [Cmds -> States], NEW list \in SUBSET Cmds,
           NEW pend \in Cmds \cup {NoCmd},
           NEW fresh \in SUBSET Eligible(st, list), NEW tried \in SUBSET Eligible(st, list),
           NEW sent \in SUBSET tried,
           NEW refs \in [Cmds -> Int], NEW works \in [Cmds -> {"idle", "armed", "due"}],
           Transmit(st, pend, fresh, tried, sent, refs, works)
    PROVE  PassEffect(st, list, pend, refs, works)
<1>1. tried \subseteq list /\ sent \subseteq list /\ fresh \subseteq list
  BY DEF Eligible
<1>2. /\ \A c \in tried : st[c] \in {"QUEUED", "RETRY"}
      /\ \A c \in fresh : st[c] \in {"QUEUED", "RETRY"}
  BY DEF Eligible
<1>3. \A c \in Cmds : state'[c] = IF c \in sent \cap fresh THEN "RUNNING" ELSE st[c]
  BY DEF Transmit
<1>4. \A c \in Cmds :
        /\ ref'[c] = IF c \in sent THEN refs[c] + 1 ELSE refs[c]
        /\ c \notin sent => work'[c] = works[c]
  BY DEF Transmit
<1>5. pending' = pend \/ pending' \in tried
  BY DEF Transmit
<1>6. \A c \in Cmds :
        /\ state'[c] = st[c] \/ (state'[c] = "RUNNING" /\ st[c] \in {"QUEUED", "RETRY"})
        /\ c \notin list => state'[c] = st[c]
  BY <1>1, <1>2, <1>3
<1>7. \A c \in Cmds : \/ work'[c] = works[c] /\ ref'[c] = refs[c]
                      \/ c \in list /\ ref'[c] = refs[c] + 1
  BY <1>1, <1>4
<1>8. pending' = pend \/ (pending' \in list /\ st[pending'] \in {"QUEUED", "RETRY"})
  BY <1>1, <1>2, <1>5
<1> QED BY <1>6, <1>7, <1>8 DEF PassEffect

LEMMA StartOrQueueEffect ==
    ASSUME TypeOK, NEW st \in [Cmds -> States], NEW list \in SUBSET Cmds,
           NEW pend \in Cmds \cup {NoCmd},
           NEW refs \in [Cmds -> Int], NEW works \in [Cmds -> {"idle", "armed", "due"}],
           StartOrQueue(st, list, pend, refs, works)
    PROVE  PassEffect(st, list, pend, refs, works)
<1> DEFINE fresh == Fresh(st, list, pend)
           tried == Attempted(st, list, pend)
<1>1. fresh \in SUBSET Eligible(st, list)
  BY DEF Fresh, IsFirst
<1>2. tried \in SUBSET Eligible(st, list)
  BY <1>1 DEF Attempted, Eligible
<1>3. \A sent \in SentOf(tried) : sent \in SUBSET tried
  BY DEF SentOf
<1>4. \/ \E sent \in SentOf(tried) : Transmit(st, pend, fresh, tried, sent, refs, works)
      \/ Transmit(st, pend, {}, {}, {}, refs, works)
  BY DEF StartOrQueue
<1> HIDE DEF fresh, tried
<1>5. CASE \E sent \in SentOf(tried) : Transmit(st, pend, fresh, tried, sent, refs, works)
  <2>1. PICK sent \in SentOf(tried) : Transmit(st, pend, fresh, tried, sent, refs, works)
    BY <1>5
  <2>2. sent \in SUBSET tried
    BY <1>3
  <2> QED BY ONLY TypeOK, <1>1, <1>2, <2>1, <2>2, TransmitEffect
<1>6. CASE Transmit(st, pend, {}, {}, {}, refs, works)
  <2>1. {} \in SUBSET Eligible(st, list)
    OBVIOUS
  <2> QED BY ONLY TypeOK, <1>6, <2>1, TransmitEffect
<1> QED BY <1>4, <1>5, <1>6

(* The two handlers that end with such a pass, in terms of its effect.      *)
LEMMA WorkRetryEffect ==
    ASSUME TypeOK, NEW c \in Cmds, WorkRetry(c)
    PROVE  PassEffect([state EXCEPT ![c] = "RETRY"], cmd_list, pending,
                      [ref EXCEPT ![c] = @ - 1], work)
<1>1. [state EXCEPT ![c] = "RETRY"] \in [Cmds -> States]
  BY DEF TypeOK, States
<1>2. [ref EXCEPT ![c] = @ - 1] \in [Cmds -> Int]
  BY DEF TypeOK
<1>3. /\ cmd_list \in SUBSET Cmds /\ pending \in Cmds \cup {NoCmd}
      /\ work \in [Cmds -> {"idle", "armed", "due"}]
  BY DEF TypeOK
<1>4. StartOrQueue([state EXCEPT ![c] = "RETRY"], cmd_list, pending,
                   [ref EXCEPT ![c] = @ - 1], work)
  BY DEF WorkRetry
<1> QED BY ONLY TypeOK, <1>1, <1>2, <1>3, <1>4, StartOrQueueEffect

(* The pending command was not cancelled, so the branch for cancelled ones  *)
(* is not taken.                                                            *)
LEMMA RxCompleteEffect ==
    ASSUME TypeOK, CancelledNotPending, RxComplete
    PROVE  /\ pending \in Cmds /\ pending \in cmd_list
           /\ cmd_list' = cmd_list \ {pending}
           /\ \E rc \in Replies : done' = [done EXCEPT ![pending] = rc]
           /\ AddCleanup("rx", pending)
           /\ PassEffect([state EXCEPT ![pending] = "FINISHED"], cmd_list \ {pending}, NoCmd,
                         [ref EXCEPT ![pending] = @ - One(work[pending] # "idle")],
                         [work EXCEPT ![pending] = "idle"])
<1> DEFINE c == pending
           st == [state EXCEPT ![c] = "FINISHED"]
           refs == [ref EXCEPT ![c] = @ - One(work[c] # "idle")]
           works == [work EXCEPT ![c] = "idle"]
<1>1. c \in Cmds /\ c \in cmd_list /\ state[c] # "RUNNING_CANCELLED"
  BY DEF RxComplete, TypeOK, CancelledNotPending
<1>2. /\ cmd_list' = cmd_list \ {c} /\ AddCleanup("rx", c)
      /\ \E rc \in Replies : done' = [done EXCEPT ![c] = rc]
  BY <1>1 DEF RxComplete
<1>3. One(FALSE) + One(work[c] # "idle") = One(work[c] # "idle")
  BY DEF One
<1>4. StartOrQueue(st, cmd_list \ {c}, NoCmd, refs, works)
  BY <1>1, <1>3 DEF RxComplete
<1>5. st \in [Cmds -> States]
  BY DEF TypeOK, States
<1>6. refs \in [Cmds -> Int]
  <2>1. One(work[c] # "idle") \in Int
    BY DEF One
  <2> QED BY <1>1, <2>1 DEF TypeOK
<1>7. /\ works \in [Cmds -> {"idle", "armed", "due"}] /\ NoCmd \in Cmds \cup {NoCmd}
      /\ cmd_list \ {c} \in SUBSET Cmds
  BY DEF TypeOK
<1> HIDE DEF st, refs, works
<1>8. PassEffect(st, cmd_list \ {c}, NoCmd, refs, works)
  BY ONLY TypeOK, <1>4, <1>5, <1>6, <1>7, StartOrQueueEffect
<1> QED BY <1>1, <1>2, <1>8 DEF st, refs, works

(* The inductive invariant.                                                 *)
IInv == TypeOK /\ LifeCycle /\ NoEarlyFree /\ CancelledNotPending

LEMMA IInvInit == Init => IInv
<1> SUFFICES ASSUME Init PROVE IInv
  OBVIOUS
<1>1. TypeOK
  BY TypeInit
<1>2. LifeCycle
  BY DEF Init, LifeCycle, Untouched, OnList, WorkSafe, CancelledOnce
<1>3. NoEarlyFree
  BY SMT DEF Init, NoEarlyFree, Holders, One
<1>4. CancelledNotPending
  BY DEF Init, CancelledNotPending
<1> QED BY <1>1, <1>2, <1>3, <1>4 DEF IInv

(* Each command goes through its life in order.                             *)
LEMMA LifeCycleStep == IInv /\ [Next]_vars => LifeCycle'
<1> SUFFICES ASSUME IInv, [Next]_vars, NEW d \in Cmds
             PROVE  (Untouched(d) /\ OnList(d) /\ WorkSafe(d) /\ CancelledOnce(d))'
  BY DEF LifeCycle
<1> DEFINE Goal == (Untouched(d) /\ OnList(d) /\ WorkSafe(d) /\ CancelledOnce(d))'
<1>a. TypeOK /\ CancelledNotPending
      /\ \A c \in Cmds : Untouched(c) /\ OnList(c) /\ WorkSafe(c) /\ CancelledOnce(c)
  BY DEF IInv, LifeCycle
<1> USE <1>a DEF Untouched, OnList, WorkSafe, CancelledOnce
<1>1. ASSUME NEW c \in Cmds, CallRefused(c) PROVE Goal
  BY <1>1 DEF CallRefused, TypeOK, ifaceVars, cmdVars, callerVars
<1>2. ASSUME NEW c \in Cmds, CallChecked(c) PROVE Goal
  BY <1>2 DEF CallChecked, TypeOK, ifaceVars, cmdVars, callerVars
<1>3. ASSUME NEW c \in Cmds, Submit(c) PROVE Goal
  <2>1. CASE SubmitQueued(c)
    BY <1>3, <2>1 DEF Submit, SubmitQueued, TypeOK
  <2>2. ASSUME NEW q \in Seqs, SubmitSent(c, q) PROVE Goal
    BY <1>3, <2>2 DEF Submit, SubmitSent, TypeOK
  <2>3. ASSUME NEW s0 \in StateAtAlloc, NEW q \in Seqs, SubmitFailed(c, s0, q) PROVE Goal
    BY <1>3, <2>3 DEF Submit, SubmitFailed, TypeOK
  <2>4. NextSeq(prev_seq) \in Seqs
    BY NextSeqInRange DEF TypeOK
  <2> HIDE DEF Goal
  <2> QED BY <1>3, <2>1, <2>2, <2>3, <2>4 DEF Submit
<1>4. ASSUME NEW c \in Cmds, CallCompleted(c) PROVE Goal
  BY <1>4 DEF CallCompleted, TypeOK, ifaceVars, cmdVars, callerVars
<1>5. ASSUME NEW c \in Cmds, CallTimesOut(c) PROVE Goal
  BY <1>5 DEF CallTimesOut, TypeOK, ifaceVars, cmdVars, callerVars
<1>6. ASSUME NEW c \in Cmds, Cancel(c) PROVE Goal
  BY <1>6 DEF Cancel, TypeOK, ifaceVars, cmdVars, callerVars, AddCleanup, Contexts
<1>7. ASSUME NEW c \in Cmds, CallTimedOut(c) PROVE Goal
  BY <1>7 DEF CallTimedOut, TypeOK, ifaceVars, cmdVars, callerVars
<1>8. ASSUME NEW c \in Cmds, WorkEnter(c) PROVE Goal
  BY <1>8 DEF WorkEnter, TypeOK, ifaceVars, cmdVars, callerVars
<1>9. ASSUME NEW c \in Cmds, WorkFinished(c) PROVE Goal
  BY <1>9 DEF WorkFinished, TypeOK, ifaceVars, cmdVars, callerVars
<1>10. ASSUME NEW c \in Cmds, WorkRequeue(c) PROVE Goal
  BY <1>10 DEF WorkRequeue, TypeOK, ifaceVars, cmdVars, callerVars
<1>11. ASSUME NEW c \in Cmds, WorkRetry(c) PROVE Goal
  <2>1. PassEffect([state EXCEPT ![c] = "RETRY"], cmd_list, pending,
                   [ref EXCEPT ![c] = @ - 1], work)
    BY <1>11, WorkRetryEffect
  <2> QED BY <1>11, <2>1 DEF WorkRetry, PassEffect, TypeOK, callerVars
<1>12. ASSUME NEW c \in Cmds, WorkGiveUp(c) PROVE Goal
  BY <1>12 DEF WorkGiveUp, TypeOK, ifaceVars, cmdVars, callerVars, AddCleanup, Contexts
<1>13. ASSUME NEW m \in wire, RxCheck(m) PROVE Goal
  BY <1>13 DEF RxCheck, TypeOK, ifaceVars, cmdVars, callerVars
<1>14. CASE RxNotFound
  BY <1>14 DEF RxNotFound, TypeOK, ifaceVars, cmdVars, callerVars
<1>15. CASE RxComplete
  <2>1. /\ pending \in Cmds /\ pending \in cmd_list
        /\ cmd_list' = cmd_list \ {pending}
        /\ \E rc \in Replies : done' = [done EXCEPT ![pending] = rc]
        /\ AddCleanup("rx", pending)
        /\ PassEffect([state EXCEPT ![pending] = "FINISHED"], cmd_list \ {pending}, NoCmd,
                      [ref EXCEPT ![pending] = @ - One(work[pending] # "idle")],
                      [work EXCEPT ![pending] = "idle"])
    BY <1>15, RxCompleteEffect
  <2>2. caller' = caller /\ running' = running
    BY <1>15 DEF RxComplete
  <2> QED BY <2>1, <2>2 DEF PassEffect, TypeOK, AddCleanup, Contexts
<1>16. ASSUME NEW e \in cleanup, ProcessCleanup(e) PROVE Goal
  BY <1>16 DEF ProcessCleanup, TypeOK, callerVars
<1>17. CASE EmcdiInit \/ FiniStart \/ FiniFlushed \/ FiniDestroy
  BY <1>17 DEF EmcdiInit, FiniStart, FiniFlushed, FiniDestroy, ifaceVars, cmdVars, callerVars
<1>18. CASE Tick
  BY <1>18 DEF Tick, TypeOK, ifaceVars
<1>19. CASE UNCHANGED vars
  BY <1>19 DEF vars, ifaceVars, cmdVars, callerVars
<1> HIDE DEF Goal
<1> QED
  BY <1>1, <1>2, <1>3, <1>4, <1>5, <1>6, <1>7, <1>8, <1>9, <1>10, <1>11, <1>12, <1>13,
     <1>14, <1>15, <1>16, <1>17, <1>18, <1>19
  DEF Next, CallerStep, WorkStep, RxStep, FiniStep, ProcessCleanup, Goal

(* Every pointer to a command is taken together with a reference.           *)
LEMMA NoEarlyFreeStep == IInv /\ [Next]_vars => NoEarlyFree'
<1> SUFFICES ASSUME IInv, [Next]_vars, NEW d \in Cmds PROVE (ref[d] >= Holders(d))'
  BY DEF NoEarlyFree
<1> DEFINE Goal == (ref[d] >= Holders(d))'
<1>a. /\ TypeOK /\ CancelledNotPending /\ ref[d] >= Holders(d) /\ ref[d] \in Int
      /\ \A c \in Cmds : Untouched(c) /\ OnList(c) /\ WorkSafe(c) /\ CancelledOnce(c)
  BY DEF IInv, LifeCycle, NoEarlyFree, TypeOK
<1> USE <1>a DEF Holders, One
<1>1. ASSUME NEW c \in Cmds, CallRefused(c) PROVE Goal
  BY <1>1, SMT DEF CallRefused, TypeOK, ifaceVars, cmdVars
<1>2. ASSUME NEW c \in Cmds, CallChecked(c) PROVE Goal
  BY <1>2, SMT DEF CallChecked, TypeOK, ifaceVars, cmdVars
<1>3. ASSUME NEW c \in Cmds, Submit(c) PROVE Goal
  <2>0. /\ ~running[c] /\ work[c] = "idle" /\ UNCHANGED <<running, cleanup>>
        /\ \A x \in {"caller", "work", "rx"} : <<x, c>> \notin cleanup
    BY <1>3 DEF Submit, Untouched, Contexts
  <2>1. CASE SubmitQueued(c)
    BY <2>0, <2>1, SMT DEF SubmitQueued, TypeOK
  <2>2. ASSUME NEW q \in Seqs, SubmitSent(c, q) PROVE Goal
    BY <2>0, <2>2, SMT DEF SubmitSent, TypeOK
  <2>3. ASSUME NEW s0 \in StateAtAlloc, NEW q \in Seqs, SubmitFailed(c, s0, q) PROVE Goal
    BY <2>0, <2>3, SMT DEF SubmitFailed
  <2>4. NextSeq(prev_seq) \in Seqs
    BY NextSeqInRange DEF TypeOK
  <2> HIDE DEF Goal
  <2> QED BY <1>3, <2>1, <2>2, <2>3, <2>4 DEF Submit
<1>4. ASSUME NEW c \in Cmds, CallCompleted(c) PROVE Goal
  BY <1>4, SMT DEF CallCompleted, TypeOK, ifaceVars, cmdVars
<1>5. ASSUME NEW c \in Cmds, CallTimesOut(c) PROVE Goal
  BY <1>5, SMT DEF CallTimesOut, TypeOK, ifaceVars, cmdVars
<1>6. ASSUME NEW c \in Cmds, Cancel(c) PROVE Goal
  BY <1>6, SMT DEF Cancel, TypeOK, ifaceVars, cmdVars, AddCleanup, CancelledOnce
<1>7. ASSUME NEW c \in Cmds, CallTimedOut(c) PROVE Goal
  BY <1>7, SMT DEF CallTimedOut, TypeOK, ifaceVars, cmdVars
<1>8. ASSUME NEW c \in Cmds, WorkEnter(c) PROVE Goal
  BY <1>8, SMT DEF WorkEnter, TypeOK, ifaceVars, cmdVars
<1>9. ASSUME NEW c \in Cmds, WorkFinished(c) PROVE Goal
  BY <1>9, SMT DEF WorkFinished, TypeOK, ifaceVars, cmdVars
<1>10. ASSUME NEW c \in Cmds, WorkRequeue(c) PROVE Goal
  BY <1>10, SMT DEF WorkRequeue, TypeOK, ifaceVars, cmdVars
<1>11. ASSUME NEW c \in Cmds, WorkRetry(c) PROVE Goal
  <2>1. PassEffect([state EXCEPT ![c] = "RETRY"], cmd_list, pending,
                   [ref EXCEPT ![c] = @ - 1], work)
    BY <1>11, WorkRetryEffect
  <2> QED BY <1>11, <2>1, SMT DEF WorkRetry, PassEffect, TypeOK
<1>12. ASSUME NEW c \in Cmds, WorkGiveUp(c) PROVE Goal
  BY <1>12, SMT DEF WorkGiveUp, TypeOK, ifaceVars, cmdVars, AddCleanup, OnList, WorkSafe
<1>13. ASSUME NEW m \in wire, RxCheck(m) PROVE Goal
  BY <1>13, SMT DEF RxCheck, ifaceVars, cmdVars
<1>14. CASE RxNotFound
  BY <1>14, SMT DEF RxNotFound, ifaceVars, cmdVars
<1>15. CASE RxComplete
  <2>1. /\ pending \in Cmds /\ pending \in cmd_list
        /\ cmd_list' = cmd_list \ {pending}
        /\ cleanup' = cleanup \cup {<<"rx", pending>>}
        /\ PassEffect([state EXCEPT ![pending] = "FINISHED"], cmd_list \ {pending}, NoCmd,
                      [ref EXCEPT ![pending] = @ - One(work[pending] # "idle")],
                      [work EXCEPT ![pending] = "idle"])
    BY <1>15, RxCompleteEffect DEF AddCleanup
  <2>2. running' = running
    BY <1>15 DEF RxComplete
  <2> QED BY <2>1, <2>2, SMT DEF PassEffect, TypeOK
<1>16. ASSUME NEW e \in cleanup, ProcessCleanup(e) PROVE Goal
  <2>1. PICK x \in Contexts, c \in Cmds : e = <<x, c>>
    BY DEF TypeOK
  <2>2. cleanup' = cleanup \ {<<x, c>>} /\ ref' = [ref EXCEPT ![c] = @ - 1]
        /\ UNCHANGED <<cmd_list, work, running>>
    BY <1>16, <2>1 DEF ProcessCleanup
  <2> QED BY <2>1, <2>2, SMT DEF TypeOK, Contexts
<1>17. CASE EmcdiInit \/ FiniStart \/ FiniFlushed \/ FiniDestroy
  BY <1>17, SMT DEF EmcdiInit, FiniStart, FiniFlushed, FiniDestroy, ifaceVars, cmdVars
<1>18. CASE Tick
  BY <1>18, SMT DEF Tick, TypeOK, ifaceVars
<1>19. CASE UNCHANGED vars
  BY <1>19, SMT DEF vars, ifaceVars, cmdVars
<1> HIDE DEF Goal
<1> QED
  BY <1>1, <1>2, <1>3, <1>4, <1>5, <1>6, <1>7, <1>8, <1>9, <1>10, <1>11, <1>12, <1>13,
     <1>14, <1>15, <1>16, <1>17, <1>18, <1>19
  DEF Next, CallerStep, WorkStep, RxStep, FiniStep, ProcessCleanup, Goal

(* What is pending was just sent, or was not touched.                       *)
LEMMA CancelledNotPendingStep == IInv /\ [Next]_vars => CancelledNotPending'
<1> SUFFICES ASSUME IInv, [Next]_vars PROVE CancelledNotPending'
  OBVIOUS
<1>a. /\ TypeOK /\ CancelledNotPending
      /\ \A c \in Cmds : Untouched(c) /\ OnList(c) /\ WorkSafe(c)
  BY DEF IInv, LifeCycle
<1> USE <1>a DEF CancelledNotPending
<1>1. ASSUME NEW c \in Cmds, Submit(c) PROVE CancelledNotPending'
  <2>1. CASE SubmitQueued(c)
    BY <1>1, <2>1 DEF Submit, SubmitQueued, TypeOK, Untouched
  <2>2. ASSUME NEW q \in Seqs, SubmitSent(c, q) PROVE CancelledNotPending'
    BY <1>1, <2>2 DEF SubmitSent, TypeOK
  <2>3. ASSUME NEW s0 \in StateAtAlloc, NEW q \in Seqs, SubmitFailed(c, s0, q)
        PROVE  CancelledNotPending'
    BY <1>1, <2>3 DEF Submit, SubmitFailed, TypeOK, Untouched
  <2>4. NextSeq(prev_seq) \in Seqs
    BY NextSeqInRange DEF TypeOK
  <2> QED BY <1>1, <2>1, <2>2, <2>3, <2>4 DEF Submit
<1>2. ASSUME NEW c \in Cmds, WorkRetry(c) PROVE CancelledNotPending'
  <2>1. PassEffect([state EXCEPT ![c] = "RETRY"], cmd_list, pending,
                   [ref EXCEPT ![c] = @ - 1], work)
    BY <1>2, WorkRetryEffect
  <2>2. cmd_list' = cmd_list
    BY <1>2 DEF WorkRetry
  <2> QED BY <2>1, <2>2 DEF PassEffect, TypeOK
<1>3. CASE RxComplete
  <2>1. /\ pending \in Cmds
        /\ cmd_list' = cmd_list \ {pending}
        /\ PassEffect([state EXCEPT ![pending] = "FINISHED"], cmd_list \ {pending}, NoCmd,
                      [ref EXCEPT ![pending] = @ - One(work[pending] # "idle")],
                      [work EXCEPT ![pending] = "idle"])
    BY <1>3, RxCompleteEffect
  <2> QED BY <2>1 DEF PassEffect, TypeOK
<1>4. ASSUME NEW c \in Cmds, Cancel(c) \/ WorkGiveUp(c) PROVE CancelledNotPending'
  BY <1>4 DEF Cancel, WorkGiveUp, TypeOK
<1>5. CASE UNCHANGED <<pending, cmd_list, state>>
  BY <1>5
<1>6. ASSUME NEW c \in Cmds,
             CallRefused(c) \/ CallChecked(c) \/ CallCompleted(c) \/ CallTimesOut(c)
                \/ CallTimedOut(c) \/ WorkEnter(c) \/ WorkFinished(c) \/ WorkRequeue(c)
      PROVE  CancelledNotPending'
  <2>1. UNCHANGED <<pending, cmd_list, state>>
    BY <1>6 DEF CallRefused, CallChecked, CallCompleted, CallTimesOut, CallTimedOut,
                WorkEnter, WorkFinished, WorkRequeue, ifaceVars, cmdVars
  <2> QED BY <2>1, <1>5
<1>7. CASE \/ RxNotFound \/ EmcdiInit \/ FiniStart \/ FiniFlushed \/ FiniDestroy \/ Tick
           \/ (\E m \in wire : RxCheck(m)) \/ (\E e \in cleanup : ProcessCleanup(e))
           \/ UNCHANGED vars
  <2>1. UNCHANGED <<pending, cmd_list, state>>
    BY <1>7 DEF RxNotFound, EmcdiInit, FiniStart, FiniFlushed, FiniDestroy, Tick, RxCheck,
                ProcessCleanup, vars, ifaceVars, cmdVars
  <2> QED BY <2>1, <1>5
<1> QED
  BY <1>1, <1>2, <1>3, <1>4, <1>6, <1>7
  DEF Next, CallerStep, WorkStep, RxStep, FiniStep, ProcessCleanup

(* The parts of IInv hold together in every reachable state.                *)
THEOREM Inductive == Spec => []IInv
<1>1. Init => IInv
  BY IInvInit
<1>2. IInv /\ [Next]_vars => IInv'
  BY TypeStep, LifeCycleStep, NoEarlyFreeStep, CancelledNotPendingStep DEF IInv
<1> QED BY <1>1, <1>2, PTL DEF Spec

(* No command is freed under a context that still points to it.             *)
THEOREM NeverFreedEarly == Spec => []NoEarlyFree
<1>1. IInv => NoEarlyFree
  BY DEF IInv
<1> QED BY Inductive, <1>1, PTL

(* A cancelled command is never the pending one.                            *)
THEOREM CancelledNeverPending == Spec => []CancelledNotPending
<1>1. IInv => CancelledNotPending
  BY DEF IInv
<1> QED BY Inductive, <1>1, PTL

(* Commands go through the stages of their life in order.                   *)
THEOREM LifeCycleKept == Spec => []LifeCycle
<1>1. IInv => LifeCycle
  BY DEF IInv
<1> QED BY Inductive, <1>1, PTL

----------------------------------------------------------------------------
(* Completion                                                               *)

(* Only efx_emcdi_complete_cmd calls a completer, and the command it does   *)
(* it for leaves the list, so it is done once however often it was sent.    *)
THEOREM CompleterCalledOnce == Spec => CompletedOnce
<1> DEFINE Once == \A c \in Cmds : done[c] # "none" => done'[c] = done[c]
<1>1. IInv /\ [Next]_vars => Once \/ UNCHANGED vars
  <2> SUFFICES ASSUME IInv, [Next]_vars PROVE Once \/ UNCHANGED vars
    OBVIOUS
  <2>a. TypeOK /\ CancelledNotPending /\ \A c \in Cmds : OnList(c)
    BY DEF IInv, LifeCycle
  <2>1. CASE RxComplete
    <3>1. /\ pending \in Cmds /\ pending \in cmd_list
          /\ \E rc \in Replies : done' = [done EXCEPT ![pending] = rc]
      BY <2>1, <2>a, RxCompleteEffect
    <3>2. done[pending] = "none"
      BY <3>1, <2>a DEF OnList
    <3> QED BY <3>1, <3>2, <2>a DEF TypeOK
  <2>2. CASE done' = done
    BY <2>2
  <2>3. CASE Next /\ ~RxComplete
    <3>1. ASSUME NEW c \in Cmds, CallRefused(c) \/ CallChecked(c) \/ CallerStep(c)
          PROVE  done' = done
      BY <3>1 DEF CallerStep, ProcessCleanup, callerVars, CallRefused, CallChecked, Submit,
         CallCompleted, CallTimesOut, Cancel, CallTimedOut
    <3>2. ASSUME NEW c \in Cmds, WorkStep(c)
          PROVE  done' = done
      BY <3>2 DEF WorkStep, ProcessCleanup, callerVars, WorkEnter, WorkFinished, WorkRequeue,
         WorkRetry, WorkGiveUp
    <3>3. ASSUME NEW m \in wire, RxCheck(m)
          PROVE  done' = done
      BY <3>3 DEF RxCheck, callerVars
    <3>4. CASE RxStep
      BY <2>3, <3>4 DEF RxStep, RxNotFound, ProcessCleanup, callerVars
    <3>5. CASE EmcdiInit \/ FiniStart \/ FiniStep \/ Tick
      BY <3>5 DEF EmcdiInit, FiniStart, FiniStep, FiniFlushed, FiniDestroy, Tick, callerVars
    <3> QED BY <2>3, <3>1, <3>2, <3>3, <3>4, <3>5, <2>2 DEF Next
  <2> QED BY <2>1, <2>3
<1>2. IInv /\ [Next]_vars => [Once]_vars
  BY <1>1
<1> QED BY Inductive, <1>2, PTL DEF Spec, CompletedOnce

----------------------------------------------------------------------------
(* Cleanups                                                                 *)

CleanupInv == IsFiniteSet(cleanup) /\ CleanupsCounted

LEMMA AddCleanupCounts ==
    ASSUME CleanupInv, NEW x, NEW c, <<x, c>> \notin cleanup, AddCleanup(x, c)
    PROVE  CleanupInv'
<1>1. /\ IsFiniteSet(cleanup \cup {<<x, c>>})
      /\ Cardinality(cleanup \cup {<<x, c>>}) = Cardinality(cleanup) + 1
  BY FS_AddElement DEF CleanupInv
<1> QED BY <1>1 DEF CleanupInv, CleanupsCounted, AddCleanup

(* The counter efx_emcdi_fini waits for counts the cleanups that are owed:  *)
(* none is entered twice, since nothing is removed twice.                   *)
THEOREM CleanupsAreCounted == Spec => []CleanupsCounted
<1>1. Init => CleanupInv
  BY FS_EmptySet DEF Init, CleanupInv, CleanupsCounted
<1>2. IInv /\ CleanupInv /\ [Next]_vars => CleanupInv'
  <2> SUFFICES ASSUME IInv, CleanupInv, [Next]_vars PROVE CleanupInv'
    OBVIOUS
  <2>a. /\ TypeOK /\ CancelledNotPending
        /\ \A c \in Cmds : OnList(c) /\ WorkSafe(c) /\ CancelledOnce(c)
    BY DEF IInv, LifeCycle
  <2>b. ASSUME UNCHANGED <<cleanup, outstanding_cleanups>> PROVE CleanupInv'
    BY <2>b DEF CleanupInv, CleanupsCounted
  <2>1. ASSUME NEW c \in Cmds, Cancel(c) PROVE CleanupInv'
    <3>1. <<"caller", c>> \notin cleanup
      BY <2>1, <2>a DEF Cancel, CancelledOnce
    <3>2. AddCleanup("caller", c) \/ UNCHANGED <<cleanup, outstanding_cleanups>>
      BY <2>1 DEF Cancel
    <3> QED BY <3>1, <3>2, <2>b, AddCleanupCounts
  <2>2. ASSUME NEW c \in Cmds, WorkGiveUp(c) PROVE CleanupInv'
    <3>1. <<"work", c>> \notin cleanup
      BY <2>2, <2>a DEF WorkGiveUp, WorkSafe, OnList
    <3>2. AddCleanup("work", c)
      BY <2>2 DEF WorkGiveUp
    <3> QED BY <3>1, <3>2, AddCleanupCounts
  <2>3. CASE RxComplete
    <3>1. pending \in Cmds /\ pending \in cmd_list /\ AddCleanup("rx", pending)
      BY <2>3, <2>a, RxCompleteEffect
    <3>2. <<"rx", pending>> \notin cleanup
      BY <3>1, <2>a DEF OnList
    <3> QED BY <3>1, <3>2, AddCleanupCounts
  <2>4. ASSUME NEW e \in cleanup, ProcessCleanup(e) PROVE CleanupInv'
    <3>1. /\ IsFiniteSet(cleanup \ {e})
          /\ Cardinality(cleanup \ {e}) = Cardinality(cleanup) - 1
      BY FS_RemoveElement DEF CleanupInv
    <3> QED BY <2>4, <3>1 DEF CleanupInv, CleanupsCounted, ProcessCleanup
  <2>5. ASSUME NEW c \in Cmds,
               \/ CallRefused(c) \/ CallChecked(c) \/ Submit(c) \/ CallCompleted(c)
               \/ CallTimesOut(c) \/ CallTimedOut(c) \/ WorkEnter(c) \/ WorkFinished(c)
               \/ WorkRequeue(c) \/ WorkRetry(c)
        PROVE  CleanupInv'
    <3>1. UNCHANGED <<cleanup, outstanding_cleanups>>
      BY <2>5 DEF CallRefused, CallChecked, Submit, CallCompleted, CallTimesOut, CallTimedOut,
                  WorkEnter, WorkFinished, WorkRequeue, WorkRetry, ifaceVars
    <3> QED BY <3>1, <2>b
  <2>6. CASE \/ RxNotFound \/ EmcdiInit \/ FiniStart \/ FiniFlushed \/ FiniDestroy \/ Tick
             \/ (\E m \in wire : RxCheck(m)) \/ UNCHANGED vars
    <3>1. UNCHANGED <<cleanup, outstanding_cleanups>>
      BY <2>6 DEF RxNotFound, EmcdiInit, FiniStart, FiniFlushed, FiniDestroy, Tick, RxCheck,
                  vars, ifaceVars
    <3> QED BY <3>1, <2>b
  <2> QED
    BY <2>1, <2>2, <2>3, <2>4, <2>5, <2>6
    DEF Next, CallerStep, WorkStep, RxStep, FiniStep, ProcessCleanup
<1>3. CleanupInv => CleanupsCounted
  BY DEF CleanupInv
<1> QED BY Inductive, <1>1, <1>2, <1>3, PTL DEF Spec

----------------------------------------------------------------------------
(* The pending command                                                      *)

(* When skbs are never short, the pending command is on the list: whoever   *)
(* takes a command off it clears pending, or it was not the pending one.    *)
THEOREM PendingStaysListed ==
    ASSUME "noskb" \notin SendFaults PROVE Spec => []PendingListed
<1>1. Init => PendingListed
  BY DEF Init, PendingListed
<1>2. IInv /\ PendingListed /\ [Next]_vars => PendingListed'
  <2> SUFFICES ASSUME IInv, PendingListed, [Next]_vars PROVE PendingListed'
    OBVIOUS
  <2>a. TypeOK /\ CancelledNotPending /\ \A c \in Cmds : WorkSafe(c)
    BY DEF IInv, LifeCycle
  <2> USE DEF PendingListed
  <2>1. ASSUME NEW c \in Cmds, Submit(c) PROVE PendingListed'
    BY <2>1 DEF Submit, SubmitQueued, SubmitSent, SubmitFailed
  <2>2. ASSUME NEW c \in Cmds, WorkRetry(c) PROVE PendingListed'
    <3>1. PassEffect([state EXCEPT ![c] = "RETRY"], cmd_list, pending,
                     [ref EXCEPT ![c] = @ - 1], work)
      BY <2>2, <2>a, WorkRetryEffect
    <3>2. cmd_list' = cmd_list
      BY <2>2 DEF WorkRetry
    <3> QED BY <3>1, <3>2 DEF PassEffect
  <2>3. CASE RxComplete
    <3>1. /\ cmd_list' = cmd_list \ {pending}
          /\ PassEffect([state EXCEPT ![pending] = "FINISHED"], cmd_list \ {pending}, NoCmd,
                        [ref EXCEPT ![pending] = @ - One(work[pending] # "idle")],
                        [work EXCEPT ![pending] = "idle"])
      BY <2>3, <2>a, RxCompleteEffect
    <3> QED BY <3>1 DEF PassEffect
  <2>4. ASSUME NEW c \in Cmds, Cancel(c) \/ WorkGiveUp(c) PROVE PendingListed'
    BY <2>4 DEF Cancel, WorkGiveUp
  <2>5. ASSUME NEW c \in Cmds,
               \/ CallRefused(c) \/ CallChecked(c) \/ CallCompleted(c) \/ CallTimesOut(c)
               \/ CallTimedOut(c) \/ WorkEnter(c) \/ WorkFinished(c) \/ WorkRequeue(c)
        PROVE  PendingListed'
    <3>1. UNCHANGED <<pending, cmd_list>>
      BY <2>5 DEF CallRefused, CallChecked, CallCompleted, CallTimesOut, CallTimedOut,
                  WorkEnter, WorkFinished, WorkRequeue, ifaceVars
    <3> QED BY <3>1
  <2>6. CASE \/ RxNotFound \/ EmcdiInit \/ FiniStart \/ FiniFlushed \/ FiniDestroy \/ Tick
             \/ (\E m \in wire : RxCheck(m)) \/ (\E e \in cleanup : ProcessCleanup(e))
             \/ UNCHANGED vars
    <3>1. UNCHANGED <<pending, cmd_list>>
      BY <2>6 DEF RxNotFound, EmcdiInit, FiniStart, FiniFlushed, FiniDestroy, Tick, RxCheck,
                  ProcessCleanup, vars, ifaceVars
    <3> QED BY <3>1
  <2> QED
    BY <2>1, <2>2, <2>3, <2>4, <2>5, <2>6
    DEF Next, CallerStep, WorkStep, RxStep, FiniStep, ProcessCleanup
<1> QED BY Inductive, <1>1, <1>2, PTL DEF Spec

----------------------------------------------------------------------------
(* The abstract transport                                                   *)

(* The state a call has for the one who makes it.                           *)
CallOf == [c \in Cmds |-> IF caller[c] \in {"idle", "returned"} THEN caller[c] ELSE "active"]

(* Emcdi implements the safety part of Rpc: the steps of a call begin it,   *)
(* answer it once, or end it with the reply or an error; all the machinery  *)
(* behind is invisible.                                                     *)
THEOREM EmcdiImplementsRpc == Spec => Caller!SafeSpec
<1>1. Init => Caller!Init
  BY DEF Init, Caller!Init
<1>2. IInv /\ [Next]_vars => [Caller!Next]_(Caller!vars)
  <2> SUFFICES ASSUME IInv, [Next]_vars PROVE Caller!Next \/ UNCHANGED <<CallOf, done, result>>
    BY DEF Caller!vars, CallOf
  <2>a. /\ TypeOK /\ CancelledNotPending
        /\ \A c \in Cmds : OnList(c) /\ Untouched(c)
    BY DEF IInv, LifeCycle
  <2>b. ASSUME NEW c \in Cmds, NEW x \in {"returned", "active"}, CallOf[c] # x,
               caller' = [caller EXCEPT ![c] = IF x = "active" THEN "checked" ELSE x]
        PROVE  CallOf' = [CallOf EXCEPT ![c] = x]
    BY <2>a, <2>b DEF CallOf, TypeOK
  <2>c. ASSUME NEW c \in Cmds, CallOf[c] = "active",
               NEW x \in {"waiting", "cancelling", "cancelled"},
               caller' = [caller EXCEPT ![c] = x]
        PROVE  CallOf' = CallOf
    BY <2>a, <2>c DEF CallOf, TypeOK
  <2>1. ASSUME NEW c \in Cmds, CallRefused(c) PROVE Caller!Fail(c)
    <3>1. CallOf[c] = "idle" /\ UNCHANGED done
      BY <2>1 DEF CallRefused, CallOf
    <3>2. CallOf' = [CallOf EXCEPT ![c] = "returned"]
      BY <2>1, <2>b, <3>1 DEF CallRefused
    <3>3. result' = [result EXCEPT ![c] = "ENETDOWN"]
      BY <2>1 DEF CallRefused
    <3> QED BY <3>1, <3>2, <3>3 DEF Caller!Fail, Caller!Errors, CallOf
  <2>2. ASSUME NEW c \in Cmds, CallChecked(c) PROVE Caller!Begin(c)
    <3>1. CallOf[c] = "idle" /\ UNCHANGED <<done, result>>
      BY <2>2 DEF CallChecked, CallOf
    <3>2. CallOf' = [CallOf EXCEPT ![c] = "active"]
      BY <2>2, <2>b, <3>1 DEF CallChecked
    <3> QED BY <3>1, <3>2 DEF Caller!Begin, CallOf
  <2>3. ASSUME NEW c \in Cmds, Submit(c)
        PROVE  Caller!Fail(c) \/ UNCHANGED <<CallOf, done, result>>
    <3>1. CallOf[c] = "active" /\ UNCHANGED done
      BY <2>3 DEF Submit, CallOf
    <3>2. \/ caller' = [caller EXCEPT ![c] = "waiting"] /\ UNCHANGED result
          \/ /\ caller' = [caller EXCEPT ![c] = "returned"]
             /\ result' = [result EXCEPT ![c] = "ENOMEM"]
      BY <2>3 DEF Submit, SubmitQueued, SubmitSent, SubmitFailed
    <3>3. CASE caller' = [caller EXCEPT ![c] = "waiting"] /\ UNCHANGED result
      BY <3>1, <3>3, <2>c
    <3>4. CASE /\ caller' = [caller EXCEPT ![c] = "returned"]
               /\ result' = [result EXCEPT ![c] = "ENOMEM"]
      <4>1. CallOf' = [CallOf EXCEPT ![c] = "returned"]
        BY <3>1, <3>4, <2>b
      <4> QED BY <3>1, <3>4, <4>1 DEF Caller!Fail, Caller!Errors, CallOf
    <3> QED BY <3>2, <3>3, <3>4
  <2>4. ASSUME NEW c \in Cmds, CallCompleted(c) PROVE Caller!Finish(c)
    <3>1. CallOf[c] = "active" /\ done[c] # "none" /\ UNCHANGED done
      BY <2>4 DEF CallCompleted, CallOf
    <3>2. CallOf' = [CallOf EXCEPT ![c] = "returned"]
      BY <2>4, <2>b, <3>1 DEF CallCompleted
    <3>3. result' = [result EXCEPT ![c] = done[c]]
      BY <2>4 DEF CallCompleted
    <3> QED BY <3>1, <3>2, <3>3 DEF Caller!Finish, CallOf
  <2>5. ASSUME NEW c \in Cmds, CallTimesOut(c) \/ Cancel(c)
        PROVE  UNCHANGED <<CallOf, done, result>>
    <3>1. CallOf[c] = "active" /\ UNCHANGED <<done, result>>
      BY <2>5 DEF CallTimesOut, Cancel, CallOf
    <3>2. \/ caller' = [caller EXCEPT ![c] = "cancelling"]
          \/ caller' = [caller EXCEPT ![c] = "cancelled"]
      BY <2>5 DEF CallTimesOut, Cancel
    <3> QED BY <3>1, <3>2, <2>c
  <2>6. ASSUME NEW c \in Cmds, CallTimedOut(c) PROVE Caller!Fail(c) \/ Caller!Finish(c)
    <3>1. CallOf[c] = "active" /\ UNCHANGED done
      BY <2>6 DEF CallTimedOut, CallOf
    <3>2. CallOf' = [CallOf EXCEPT ![c] = "returned"]
      BY <2>6, <2>b, <3>1 DEF CallTimedOut
    <3>3. CASE result' = [result EXCEPT ![c] = "ETIMEDOUT"]
      BY <3>1, <3>2, <3>3 DEF Caller!Fail, Caller!Errors, CallOf
    <3>4. CASE done[c] # "none" /\ result' = [result EXCEPT ![c] = done[c]]
      BY <3>1, <3>2, <3>4 DEF Caller!Finish, CallOf
    <3> QED BY <2>6, <3>3, <3>4 DEF CallTimedOut
  <2>7. CASE RxComplete
    <3>1. /\ pending \in Cmds /\ pending \in cmd_list
          /\ \E rc \in Replies : done' = [done EXCEPT ![pending] = rc]
      BY <2>7, <2>a, RxCompleteEffect
    <3>2. caller' = caller /\ result' = result
      BY <2>7 DEF RxComplete
    <3>3. done[pending] = "none" /\ caller[pending] # "idle"
      BY <3>1, <2>a DEF OnList, Untouched
    <3>4. CallOf[pending] # "idle"
      BY <3>1, <3>3 DEF CallOf
    <3>5. CallOf' = CallOf
      BY <3>2 DEF CallOf
    <3>6. done \in [Cmds -> Replies \cup {"none"}] /\ done' \in [Cmds -> Replies \cup {"none"}]
      BY <3>1, <2>a DEF TypeOK
    <3>7. \A c \in Cmds : done'[c] # done[c] => c = pending
      BY <3>1, <3>6
    <3>8. Caller!Reply
      BY <3>2, <3>3, <3>4, <3>5, <3>6, <3>7 DEF Caller!Reply, CallOf
    <3> QED BY <3>8 DEF Caller!Next
  <2>8. ASSUME UNCHANGED <<caller, done, result>> PROVE UNCHANGED <<CallOf, done, result>>
    BY <2>8 DEF CallOf
  <2>9. ASSUME NEW c \in Cmds,
               WorkEnter(c) \/ WorkFinished(c) \/ WorkRequeue(c) \/ WorkRetry(c) \/ WorkGiveUp(c)
        PROVE  UNCHANGED <<CallOf, done, result>>
    <3>1. UNCHANGED <<caller, done, result>>
      BY <2>9 DEF WorkEnter, WorkFinished, WorkRequeue, WorkRetry, WorkGiveUp, callerVars
    <3> QED BY <3>1, <2>8
  <2>10. CASE \/ RxNotFound \/ EmcdiInit \/ FiniStart \/ FiniFlushed \/ FiniDestroy \/ Tick
              \/ (\E m \in wire : RxCheck(m)) \/ (\E e \in cleanup : ProcessCleanup(e))
              \/ UNCHANGED vars
    <3>1. UNCHANGED <<caller, done, result>>
      BY <2>10 DEF RxNotFound, EmcdiInit, FiniStart, FiniFlushed, FiniDestroy, Tick, RxCheck,
                   ProcessCleanup, vars, callerVars
    <3> QED BY <3>1, <2>8
  <2> QED
    BY <2>1, <2>2, <2>3, <2>4, <2>5, <2>6, <2>7, <2>9, <2>10
    DEF Next, CallerStep, WorkStep, RxStep, FiniStep, ProcessCleanup, Caller!Next
<1> QED BY Inductive, <1>1, <1>2, PTL DEF Spec, Caller!SafeSpec
=============================================================================
