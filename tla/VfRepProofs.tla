--------------------------- MODULE VfRepProofs ---------------------------
(***************************************************************************)
(* Proofs about VfRep, for any processors, weight, index space and number  *)
(* of packets, and with the representor closed at any time.                *)
(***************************************************************************)
EXTENDS VfRep, TLAPS, SequenceTheorems

USE CPUsNamed, WeightPos, IndexSpacePos, PacketBound, CloseBool

Packets == 1 .. MaxPackets

----------------------------------------------------------------------------
(* The inductive invariant                                                  *)

(* One CPU at most is between taking packets off the list and handing them  *)
(* to the stack: the owner of the scheduled poll.                           *)
GrabOwned ==
    /\ \A p \in CPUs : cpu[p] = "grabbed" => napi = "scheduled" /\ owner = p
    /\ head # <<>> => \E p \in CPUs : cpu[p] = "grabbed"
    /\ Len(head) <= Weight

(* The packets taken, then those on the list, are the ones still to be      *)
(* delivered.                                                               *)
Numbered ==
    /\ sent = received + Len(head) + Len(rx_list)
    /\ \A i \in 1 .. Len(head) : head[i] = received + i
    /\ \A i \in 1 .. Len(rx_list) : rx_list[i] = received + Len(head) + i

(* The NAPI context of a closed representor is off; of an open one it is    *)
(* not.                                                                     *)
NapiOff ==
    /\ dev \in {"down", "disabled"} => napi = "off"
    /\ dev = "up" => napi # "off"

(* What holds until a packet is queued in a gap or the representor closed:  *)
(* the list is empty in a gap, a stored index is the one in use, and when   *)
(* nobody is about to schedule the poll or to end it, there is nothing on   *)
(* the list and the indices say so.                                         *)
Unraced ==
    /\ dev \in {"down", "up"}
    /\ dev = "down" => \A p \in CPUs : cpu[p] = "idle"
    /\ \A p \in CPUs : InGap(p) => rx_list = <<>>
    /\ \A p \in CPUs : cpu[p] = "storing" => loaded[p] = write_index
    /\ \/ napi = "scheduled"
       \/ \E p \in CPUs : cpu[p] \in {"primed", "completed", "storing"}
       \/ rx_list = <<>> /\ read_index = write_index

IInv == TypeOK /\ GrabOwned /\ Numbered /\ NapiOff /\ (raced \/ Unraced)

----------------------------------------------------------------------------
(* Sequences                                                                *)

(* The two parts a poll splits the list into.                               *)
LEMMA SplitList ==
    ASSUME NEW s \in Seq(Packets), NEW k \in 0 .. Len(s)
    PROVE  /\ SubSeq(s, 1, k) \in Seq(Packets)
           /\ Len(SubSeq(s, 1, k)) = k
           /\ \A i \in 1 .. k : SubSeq(s, 1, k)[i] = s[i]
           /\ SubSeq(s, k + 1, Len(s)) \in Seq(Packets)
           /\ Len(SubSeq(s, k + 1, Len(s))) = Len(s) - k
           /\ \A i \in 1 .. Len(s) - k : SubSeq(s, k + 1, Len(s))[i] = s[k + i]
<1>1. Len(s) \in Nat /\ \A i \in 1 .. Len(s) : s[i] \in Packets
  BY LenProperties, ElementOfSeq
<1>2. \A i \in 1 .. k : s[i] \in Packets
  BY <1>1
<1>3. \A i \in k + 1 .. Len(s) : s[i] \in Packets
  BY <1>1
<1>4. /\ SubSeq(s, 1, k) \in Seq(Packets)
      /\ Len(SubSeq(s, 1, k)) = IF 1 <= k THEN k - 1 + 1 ELSE 0
      /\ \A i \in 1 .. k - 1 + 1 : SubSeq(s, 1, k)[i] = s[1 + i - 1]
  BY <1>1, <1>2, SubSeqProperties
<1>5. /\ SubSeq(s, k + 1, Len(s)) \in Seq(Packets)
      /\ Len(SubSeq(s, k + 1, Len(s))) = IF k + 1 <= Len(s) THEN Len(s) - (k + 1) + 1 ELSE 0
      /\ \A i \in 1 .. Len(s) - (k + 1) + 1 : SubSeq(s, k + 1, Len(s))[i] = s[k + 1 + i - 1]
  BY <1>1, <1>3, SubSeqProperties
<1> QED BY <1>1, <1>4, <1>5

(* The list with another packet.                                            *)
LEMMA LongerList ==
    ASSUME NEW s \in Seq(Packets), NEW n \in Packets
    PROVE  /\ Append(s, n) \in Seq(Packets)
           /\ Len(Append(s, n)) = Len(s) + 1
           /\ \A i \in 1 .. Len(s) : Append(s, n)[i] = s[i]
           /\ Append(s, n)[Len(s) + 1] = n
  BY AppendProperties

(* A sequence is empty when its length is zero.                             *)
LEMMA EmptyList ==
    ASSUME NEW s \in Seq(Packets)
    PROVE  /\ Len(s) \in Nat
           /\ s = <<>> <=> Len(s) = 0
  BY LenProperties, EmptySeq

(* An index is followed by one in its range.                                *)
LEMMA IndexInRange == ASSUME NEW i \in Indices PROVE (i + 1) % IndexSpace \in Indices
  BY DEF Indices

(* What TypeOK says, with the packets by name.                              *)
LEMMA TypeSeqs == TypeOK => rx_list \in Seq(Packets) /\ head \in Seq(Packets)
  BY DEF TypeOK, Packets

----------------------------------------------------------------------------
LEMMA InvInit == Init => IInv
<1> SUFFICES ASSUME Init PROVE IInv
  OBVIOUS
<1>1. <<>> \in Seq(Packets) /\ Len(<<>>) = 0
  BY EmptySeq
<1>2. TypeOK
  <2>1. 0 \in Indices /\ 0 \in 0 .. MaxPackets
    BY DEF Indices
  <2>2. cpu \in [CPUs -> Stages] /\ loaded \in [CPUs -> Indices]
    BY <2>1 DEF Init, Stages
  <2> QED BY <1>1, <2>1, <2>2 DEF Init, TypeOK, Packets
<1>3. GrabOwned /\ Numbered /\ NapiOff
  BY <1>1 DEF Init, GrabOwned, Numbered, NapiOff
<1>4. Unraced
  BY DEF Init, Unraced, InGap
<1> QED BY <1>2, <1>3, <1>4 DEF IInv

LEMMA GrabNext == IInv /\ [Next]_vars => GrabOwned'
<1> SUFFICES ASSUME IInv, [Next]_vars PROVE GrabOwned'
  OBVIOUS
<1> USE DEF IInv, GrabOwned, Goto, queueVars, napiVars
<1>0. /\ cpu \in [CPUs -> Stages] /\ Len(head) \in Nat /\ Len(<<>>) = 0
  BY TypeSeqs, EmptyList, EmptySeq DEF TypeOK
<1>1. ASSUME NEW p \in CPUs, RxAccept(p) \/ RxNoSkb(p) \/ RxQueue(p) PROVE GrabOwned'
  BY <1>0, <1>1 DEF RxAccept, RxNoSkb, RxQueue
<1>2. ASSUME NEW p \in CPUs, RxTrigger(p) PROVE GrabOwned'
  BY <1>0, <1>2 DEF RxTrigger
<1>3. ASSUME NEW p \in CPUs, PollGrab(p) PROVE GrabOwned'
  <2> DEFINE spent == IF Len(rx_list) < Weight THEN Len(rx_list) ELSE Weight
  <2>1. rx_list \in Seq(Packets) /\ Len(rx_list) \in Nat
    BY TypeSeqs, EmptyList
  <2>2. spent \in 0 .. Len(rx_list) /\ spent <= Weight
    BY <2>1
  <2>3. Len(head') = spent
    BY <1>3, <2>1, <2>2, SplitList DEF PollGrab
  <2>4. cpu' = [cpu EXCEPT ![p] = "grabbed"] /\ napi' = "scheduled" /\ owner' = p
    BY <1>3 DEF PollGrab
  <2>5. cpu'[p] = "grabbed" /\ \A q \in CPUs \ {p} : cpu'[q] = cpu[q]
    BY <1>0, <2>4
  <2>6. \A q \in CPUs : cpu[q] = "grabbed" => q = p
    BY <1>3 DEF PollGrab
  <2>7. \A q \in CPUs : cpu'[q] = "grabbed" => q = p
    BY <2>5, <2>6
  <2> HIDE DEF spent
  <2> QED BY <2>2, <2>3, <2>4, <2>5, <2>7
<1>4. ASSUME NEW p \in CPUs, PollMore(p) PROVE GrabOwned'
  BY <1>0, <1>4 DEF PollMore
<1>5. ASSUME NEW p \in CPUs, PollComplete(p) PROVE GrabOwned'
  BY <1>0, <1>5 DEF PollComplete
<1>6. ASSUME NEW p \in CPUs, IndexLoad(p) \/ IndexStore(p) PROVE GrabOwned'
  BY <1>0, <1>6 DEF IndexLoad, IndexStore
<1>7. CASE DevStep
  BY <1>7 DEF DevStep, Open, CloseStart, CloseDisabled, CloseDone, NapiOff
<1>8. CASE UNCHANGED vars
  BY <1>8 DEF vars
<1> QED
  BY <1>1, <1>2, <1>3, <1>4, <1>5, <1>6, <1>7, <1>8 DEF Next, RxStep, PollStep

(* Nothing is on the way to the stack when the list is split.               *)
LEMMA NothingTaken ==
    ASSUME IInv, NEW p \in CPUs, PollGrab(p)
    PROVE  head = <<>>
  BY DEF IInv, GrabOwned, PollGrab

LEMMA NumberedNext == IInv /\ [Next]_vars => Numbered'
<1> SUFFICES ASSUME IInv, [Next]_vars PROVE Numbered'
  OBVIOUS
<1> USE DEF Numbered, queueVars, napiVars
<1>0. /\ rx_list \in Seq(Packets) /\ head \in Seq(Packets)
      /\ Len(rx_list) \in Nat /\ Len(head) \in Nat /\ Len(<<>>) = 0
      /\ received \in Nat /\ sent \in Nat /\ Numbered
  BY TypeSeqs, EmptyList, EmptySeq DEF IInv, TypeOK
<1>1. ASSUME NEW p \in CPUs, RxQueue(p) PROVE Numbered'
  <2>1. sent + 1 \in Packets
    BY <1>0, <1>1 DEF RxQueue, Packets
  <2>2. rx_list' = Append(rx_list, sent + 1) /\ sent' = sent + 1 /\ UNCHANGED <<head, received>>
    BY <1>1 DEF RxQueue
  <2>3. /\ Len(rx_list') = Len(rx_list) + 1
        /\ \A i \in 1 .. Len(rx_list) : rx_list'[i] = rx_list[i]
        /\ rx_list'[Len(rx_list) + 1] = sent + 1
    BY <1>0, <2>1, <2>2, LongerList
  <2> QED BY <1>0, <2>2, <2>3
<1>2. ASSUME NEW p \in CPUs, PollGrab(p) PROVE Numbered'
  <2> DEFINE spent == IF Len(rx_list) < Weight THEN Len(rx_list) ELSE Weight
  <2>1. spent \in 0 .. Len(rx_list)
    BY <1>0
  <2>2. head = <<>>
    BY <1>2, NothingTaken
  <2>3. /\ head' = SubSeq(rx_list, 1, spent)
        /\ rx_list' = SubSeq(rx_list, spent + 1, Len(rx_list))
        /\ UNCHANGED <<sent, received>>
    BY <1>2 DEF PollGrab
  <2> HIDE DEF spent
  <2>4. /\ Len(head') = spent
        /\ \A i \in 1 .. spent : head'[i] = rx_list[i]
        /\ Len(rx_list') = Len(rx_list) - spent
        /\ \A i \in 1 .. Len(rx_list) - spent : rx_list'[i] = rx_list[spent + i]
    BY <1>0, <2>1, <2>3, SplitList
  <2>5. Len(head) = 0 /\ received' = received /\ sent' = sent
    BY <1>0, <2>2, <2>3
  <2>6. sent' = received' + Len(head') + Len(rx_list')
    BY <1>0, <2>1, <2>4, <2>5
  <2>7. \A i \in 1 .. Len(head') : head'[i] = received' + i
    BY <1>0, <2>1, <2>4, <2>5
  <2>8. ASSUME NEW i \in 1 .. Len(rx_list') PROVE rx_list'[i] = received' + Len(head') + i
    <3>1. i \in 1 .. Len(rx_list) - spent /\ spent + i \in 1 .. Len(rx_list)
      BY <1>0, <2>1, <2>4
    <3>2. rx_list[spent + i] = received + Len(head) + (spent + i)
      BY <1>0, <3>1
    <3> QED BY <1>0, <2>1, <2>4, <2>5, <3>1, <3>2
  <2> QED BY <2>6, <2>7, <2>8
<1>3. ASSUME NEW p \in CPUs, PollMore(p) \/ PollComplete(p) PROVE Numbered'
  <2>1. received' = received + Len(head) /\ head' = <<>> /\ UNCHANGED <<rx_list, sent>>
    BY <1>3 DEF PollMore, PollComplete
  <2> QED BY <1>0, <2>1
<1>4. ASSUME NEW p \in CPUs,
             RxAccept(p) \/ RxNoSkb(p) \/ RxTrigger(p) \/ IndexLoad(p) \/ IndexStore(p)
      PROVE  Numbered'
  BY <1>0, <1>4 DEF RxAccept, RxNoSkb, RxTrigger, IndexLoad, IndexStore
<1>5. CASE DevStep \/ UNCHANGED vars
  BY <1>0, <1>5 DEF DevStep, Open, CloseStart, CloseDisabled, CloseDone, vars
<1> QED
  BY <1>1, <1>2, <1>3, <1>4, <1>5 DEF Next, RxStep, PollStep

LEMMA TypeNext == IInv /\ [Next]_vars => TypeOK'
<1> SUFFICES ASSUME IInv, [Next]_vars PROVE TypeOK'
  OBVIOUS
<1> USE DEF TypeOK, Packets, Goto, queueVars, napiVars
<1>0. /\ TypeOK /\ rx_list \in Seq(Packets) /\ head \in Seq(Packets)
      /\ Len(rx_list) \in Nat /\ Len(head) \in Nat /\ <<>> \in Seq(Packets)
      /\ sent = received + Len(head) + Len(rx_list)
      /\ sent \in Nat /\ received \in Nat /\ sent <= MaxPackets
  BY TypeSeqs, EmptyList, EmptySeq DEF IInv, Numbered
<1>1. \A p \in CPUs, s \in Stages : [cpu EXCEPT ![p] = s] \in [CPUs -> Stages]
  BY <1>0
<1>2. {"idle", "accepted", "primed", "grabbed", "completed", "storing"} \subseteq Stages
  BY DEF Stages
<1>3. ASSUME NEW p \in CPUs, RxAccept(p) \/ RxNoSkb(p) \/ RxTrigger(p) PROVE TypeOK'
  <2>1. cpu' \in [CPUs -> Stages]
    BY <1>1, <1>2, <1>3 DEF RxAccept, RxNoSkb, RxTrigger
  <2>2. CASE RxAccept(p) \/ RxNoSkb(p)
    BY <1>0, <2>1, <2>2 DEF RxAccept, RxNoSkb
  <2>3. CASE RxTrigger(p)
    <3>1. napi' \in {"off", "idle", "scheduled"} /\ owner' \in CPUs \cup {NoCPU} /\ missed' \in BOOLEAN
      BY <1>0, <2>3 DEF RxTrigger
    <3>2. UNCHANGED <<queueVars, received, dev, head, loaded, raced>>
      BY <2>3 DEF RxTrigger
    <3> QED BY <1>0, <2>1, <3>1, <3>2
  <2> QED BY <1>3, <2>2, <2>3
<1>4. ASSUME NEW p \in CPUs, RxQueue(p) PROVE TypeOK'
  <2>1. sent + 1 \in Packets /\ sent' \in 0 .. MaxPackets
    BY <1>0, <1>4 DEF RxQueue
  <2>2. rx_list' \in Seq(Packets)
    BY <1>0, <1>4, <2>1, LongerList DEF RxQueue
  <2>3. write_index' \in Indices
    BY <1>0, <1>4, IndexInRange DEF RxQueue
  <2>4. cpu' \in [CPUs -> Stages] /\ raced' \in BOOLEAN
    BY <1>0, <1>1, <1>2, <1>4 DEF RxQueue
  <2> QED BY <1>0, <1>4, <2>1, <2>2, <2>3, <2>4 DEF RxQueue
<1>5. ASSUME NEW p \in CPUs, PollGrab(p) PROVE TypeOK'
  <2> DEFINE spent == IF Len(rx_list) < Weight THEN Len(rx_list) ELSE Weight
  <2>1. spent \in 0 .. Len(rx_list)
    BY <1>0
  <2>2. head' = SubSeq(rx_list, 1, spent) /\ rx_list' = SubSeq(rx_list, spent + 1, Len(rx_list))
    BY <1>5 DEF PollGrab
  <2> HIDE DEF spent
  <2>3. head' \in Seq(Packets) /\ rx_list' \in Seq(Packets)
    BY <1>0, <2>1, <2>2, SplitList
  <2>4. cpu' \in [CPUs -> Stages]
    BY <1>1, <1>2, <1>5 DEF PollGrab
  <2> QED BY <1>0, <1>5, <2>3, <2>4 DEF PollGrab
<1>6. ASSUME NEW p \in CPUs, PollMore(p) \/ PollComplete(p) PROVE TypeOK'
  <2>1. received' = received + Len(head) /\ head' = <<>>
    BY <1>6 DEF PollMore, PollComplete
  <2>2. received' \in 0 .. MaxPackets
    BY <1>0, <2>1
  <2>3. cpu' \in [CPUs -> Stages]
    <3>1. CASE PollMore(p)
      BY <1>1, <1>2, <3>1 DEF PollMore
    <3>2. CASE PollComplete(p)
      BY <1>1, <1>2, <3>2 DEF PollComplete
    <3> QED BY <1>6, <3>1, <3>2
  <2>4. napi' \in {"off", "idle", "scheduled"} /\ owner' \in CPUs \cup {NoCPU} /\ missed' \in BOOLEAN
    BY <1>0, <1>6 DEF PollMore, PollComplete
  <2>5. UNCHANGED <<queueVars, dev, loaded, raced>>
    BY <1>6 DEF PollMore, PollComplete
  <2> QED BY <1>0, <2>1, <2>2, <2>3, <2>4, <2>5
<1>7. ASSUME NEW p \in CPUs, IndexLoad(p) \/ IndexStore(p) PROVE TypeOK'
  <2>1. \A i \in Indices : [loaded EXCEPT ![p] = i] \in [CPUs -> Indices]
    BY <1>0
  <2>2. 0 \in Indices /\ write_index \in Indices /\ loaded[p] \in Indices
    BY <1>0 DEF Indices
  <2>3. loaded' \in [CPUs -> Indices] /\ read_index' \in Indices
    BY <1>0, <1>7, <2>1, <2>2 DEF IndexLoad, IndexStore
  <2>4. cpu' \in [CPUs -> Stages]
    BY <1>1, <1>2, <1>7 DEF IndexLoad, IndexStore
  <2> QED BY <1>0, <1>7, <2>3, <2>4 DEF IndexLoad, IndexStore
<1>8. CASE DevStep \/ UNCHANGED vars
  BY <1>0, <1>8 DEF DevStep, Open, CloseStart, CloseDisabled, CloseDone, vars
<1> QED
  BY <1>3, <1>4, <1>5, <1>6, <1>7, <1>8 DEF Next, RxStep, PollStep

LEMMA NapiNext == IInv /\ [Next]_vars => NapiOff'
<1> SUFFICES ASSUME IInv, [Next]_vars PROVE NapiOff'
  OBVIOUS
<1> USE DEF IInv, NapiOff, GrabOwned, queueVars, napiVars
<1>1. ASSUME NEW p \in CPUs, RxAccept(p) \/ RxStep(p) PROVE NapiOff'
  BY <1>1 DEF RxAccept, RxStep, RxNoSkb, RxQueue, RxTrigger
<1>2. ASSUME NEW p \in CPUs, PollStep(p) PROVE NapiOff'
  BY <1>2 DEF PollStep, PollGrab, PollMore, PollComplete, IndexLoad, IndexStore
<1>3. CASE DevStep \/ UNCHANGED vars
  BY <1>3 DEF DevStep, Open, CloseStart, CloseDisabled, CloseDone, vars
<1> QED BY <1>1, <1>2, <1>3 DEF Next

(* A poll on one CPU at most: another CPU in the gap has completed its own. *)
LEMMA OneGrabs ==
    ASSUME GrabOwned, NEW p \in CPUs, NEW q \in CPUs, owner = p, cpu[q] = "grabbed"
    PROVE  q = p
  BY DEF GrabOwned

LEMMA UnracedNext == IInv /\ [Next]_vars => raced' \/ Unraced'
<1> SUFFICES ASSUME IInv, [Next]_vars, ~raced' PROVE Unraced'
  OBVIOUS
<1> USE DEF Goto, queueVars, napiVars
<1>0. /\ cpu \in [CPUs -> Stages] /\ loaded \in [CPUs -> Indices]
      /\ rx_list \in Seq(Packets) /\ head \in Seq(Packets)
      /\ Len(rx_list) \in Nat /\ Len(head) \in Nat /\ Len(<<>>) = 0
      /\ GrabOwned /\ NapiOff
  BY TypeSeqs, EmptyList, EmptySeq DEF IInv, TypeOK
<1>1. raced => raced'
  BY DEF Next, RxStep, PollStep, DevStep, RxAccept, RxNoSkb, RxQueue, RxTrigger, PollGrab,
         PollMore, PollComplete, IndexLoad, IndexStore, Open, CloseStart, CloseDisabled,
         CloseDone, vars
<1>2. Unraced
  BY <1>1 DEF IInv
<1>3. ASSUME NEW p \in CPUs, RxAccept(p) \/ RxNoSkb(p) PROVE Unraced'
  BY <1>0, <1>2, <1>3 DEF Unraced, InGap, RxAccept, RxNoSkb
<1>4. ASSUME NEW p \in CPUs, RxQueue(p) PROVE Unraced'
  <2>1. \A q \in CPUs : ~InGap(q)
    BY <1>4 DEF RxQueue
  <2>2. \A q \in CPUs : ~InGap(q)' /\ cpu'[q] # "storing"
    BY <1>0, <1>4, <2>1 DEF RxQueue, InGap
  <2>3. dev' = "up"
    BY <1>2, <1>4 DEF RxQueue, Unraced
  <2>4. \/ napi' = "scheduled"
        \/ \E q \in CPUs : cpu'[q] \in {"primed", "completed", "storing"}
    <3>1. CASE napi = "scheduled"
      BY <1>4, <3>1 DEF RxQueue
    <3>2. CASE \E q \in CPUs : cpu[q] \in {"primed", "completed", "storing"}
      BY <1>0, <1>4, <3>2 DEF RxQueue
    <3>3. CASE read_index = write_index
      BY <1>0, <1>4, <3>3 DEF RxQueue
    <3> QED BY <1>2, <3>1, <3>2, <3>3 DEF Unraced
  <2> QED BY <2>2, <2>3, <2>4 DEF Unraced
<1>5. ASSUME NEW p \in CPUs, RxTrigger(p) PROVE Unraced'
  <2>1. dev = "up" /\ napi' = "scheduled"
    BY <1>0, <1>2, <1>5, TypeSeqs DEF RxTrigger, Unraced, NapiOff, IInv, TypeOK
  <2> QED BY <1>0, <1>2, <1>5, <2>1 DEF RxTrigger, Unraced, InGap
<1>6. ASSUME NEW p \in CPUs, PollGrab(p) PROVE Unraced'
  <2> DEFINE spent == IF Len(rx_list) < Weight THEN Len(rx_list) ELSE Weight
  <2>1. spent \in 0 .. Len(rx_list)
    BY <1>0
  <2>2. /\ head' = SubSeq(rx_list, 1, spent) /\ rx_list' = SubSeq(rx_list, spent + 1, Len(rx_list))
        /\ cpu[p] = "idle" /\ cpu' = [cpu EXCEPT ![p] = "grabbed"]
        /\ napi = "scheduled" /\ owner = p
        /\ UNCHANGED <<write_index, dev, napi, loaded>>
    BY <1>6 DEF PollGrab
  <2>3. spent < Weight => spent = Len(rx_list)
    BY <1>0
  <2> HIDE DEF spent
  <2>4. /\ Len(head') = spent /\ rx_list' \in Seq(Packets)
        /\ Len(rx_list') = Len(rx_list) - spent
    BY <1>0, <2>1, <2>2, SplitList
  <2>5. rx_list' = <<>> <=> Len(rx_list) = spent
    BY <1>0, <2>1, <2>4, EmptyList
  <2>6. \A q \in CPUs : q # p => cpu'[q] = cpu[q] /\ cpu[q] # "grabbed"
    BY <1>0, <2>2, OneGrabs
  <2>7. rx_list = <<>> => rx_list' = <<>>
    BY <1>0, <2>1, <2>5
  <2>8. \A q \in CPUs : InGap(q)' => rx_list' = <<>>
    BY <1>0, <1>2, <2>2, <2>3, <2>4, <2>5, <2>6, <2>7 DEF InGap, Unraced
  <2>9. \A q \in CPUs : cpu'[q] = "storing" => loaded'[q] = write_index'
    BY <1>0, <1>2, <2>2 DEF Unraced
  <2>10. dev' = "up"
    BY <1>0, <1>2, <2>2 DEF Unraced, NapiOff
  <2> QED BY <2>2, <2>8, <2>9, <2>10 DEF Unraced
<1>7. ASSUME NEW p \in CPUs, PollMore(p) PROVE Unraced'
  <2>1. napi = "scheduled" /\ owner = p /\ cpu[p] = "grabbed"
    BY <1>0, <1>7 DEF PollMore, GrabOwned
  <2>2. /\ dev \in {"down", "up"} /\ UNCHANGED <<rx_list, write_index, read_index, dev, napi, loaded>>
        /\ cpu' = [cpu EXCEPT ![p] = "idle"]
    BY <1>2, <1>7 DEF PollMore, Unraced
  <2>3. \A q \in CPUs : q # p => cpu'[q] = cpu[q] /\ cpu[q] # "grabbed"
    BY <1>0, <2>1, <2>2, OneGrabs
  <2>4. \A q \in CPUs : InGap(q)' => InGap(q)
    BY <1>0, <2>2, <2>3 DEF InGap
  <2> QED BY <1>0, <1>2, <2>1, <2>2, <2>4 DEF Unraced
<1>8. ASSUME NEW p \in CPUs, PollComplete(p) PROVE Unraced'
  <2>1. napi = "scheduled" /\ owner = p /\ InGap(p)
    BY <1>0, <1>8 DEF PollComplete, GrabOwned, InGap
  <2>2. rx_list = <<>> /\ dev = "up"
    BY <1>2, <1>8, <2>1 DEF Unraced, PollComplete
  <2>3. /\ UNCHANGED <<rx_list, write_index, read_index, dev, loaded>>
        /\ cpu' = [cpu EXCEPT ![p] = IF missed THEN "idle" ELSE "completed"]
        /\ missed => UNCHANGED napi
    BY <1>8 DEF PollComplete
  <2>4. \A q \in CPUs : cpu'[q] = "storing" => cpu[q] = "storing"
    BY <1>0, <2>3
  <2>5. napi' = "scheduled" \/ cpu'[p] = "completed"
    BY <1>0, <2>1, <2>3
  <2> QED BY <1>2, <2>2, <2>3, <2>4, <2>5 DEF Unraced
<1>9. ASSUME NEW p \in CPUs, IndexLoad(p) PROVE Unraced'
  <2>1. InGap(p) /\ dev = "up" /\ rx_list = <<>>
    BY <1>2, <1>9 DEF Unraced, IndexLoad, InGap
  <2>2. /\ loaded' = [loaded EXCEPT ![p] = write_index] /\ cpu' = [cpu EXCEPT ![p] = "storing"]
        /\ UNCHANGED <<rx_list, write_index, dev>>
    BY <1>9 DEF IndexLoad
  <2>3. \A q \in CPUs : cpu'[q] = "storing" => loaded'[q] = write_index
    BY <1>0, <1>2, <2>2 DEF Unraced
  <2>4. cpu'[p] = "storing"
    BY <1>0, <2>2
  <2> QED BY <2>1, <2>2, <2>3, <2>4 DEF Unraced
<1>10. ASSUME NEW p \in CPUs, IndexStore(p) PROVE Unraced'
  <2>1. InGap(p) /\ dev = "up" /\ rx_list = <<>> /\ loaded[p] = write_index
    BY <1>2, <1>10 DEF Unraced, IndexStore, InGap
  <2>2. /\ loaded' = [loaded EXCEPT ![p] = 0] /\ cpu' = [cpu EXCEPT ![p] = "idle"]
        /\ read_index' = loaded[p] /\ UNCHANGED <<rx_list, write_index, dev>>
    BY <1>10 DEF IndexStore
  <2>3. \A q \in CPUs : cpu'[q] = "storing" => loaded'[q] = write_index
    BY <1>0, <1>2, <2>2 DEF Unraced
  <2> QED BY <2>1, <2>2, <2>3 DEF Unraced
<1>11. CASE Open
  <2>1. rx_list = <<>> /\ read_index = write_index /\ \A q \in CPUs : cpu[q] = "idle"
    BY <1>0, <1>2, <1>11 DEF Open, Unraced, NapiOff
  <2> QED BY <2>1, <1>11 DEF Open, Unraced
<1>12. CASE CloseStart \/ CloseDisabled \/ CloseDone
  BY <1>2, <1>12 DEF CloseStart, CloseDisabled, CloseDone, Unraced
<1>13. CASE UNCHANGED vars
  BY <1>2, <1>13 DEF vars, Unraced, InGap
<1> QED
  BY <1>3, <1>4, <1>5, <1>6, <1>7, <1>8, <1>9, <1>10, <1>11, <1>12, <1>13
     DEF Next, RxStep, PollStep, DevStep

----------------------------------------------------------------------------
(* Theorems                                                                 *)

(* The invariant the properties follow from: what the polls of the CPUs and *)
(* the closing of the representor (u25_rep.c:166 to 627) keep between any   *)
(* two steps.                                                               *)
THEOREM Invariance == Spec => []IInv
<1>1. IInv /\ [Next]_vars => IInv'
  BY TypeNext, GrabNext, NumberedNext, NapiNext, UnracedNext DEF IInv
<1> QED BY InvInit, <1>1, PTL DEF Spec

(* Every variable stays in its domain: the 32-bit indices wrap, and no more *)
(* packets are delivered than were queued.                                  *)
THEOREM TypeCorrect == Spec => []TypeOK
  BY Invariance, PTL DEF IInv

(* What is on its way is exactly the packets not delivered yet, in the      *)
(* order of their arrival.                                                  *)
LEMMA NumberedInOrder == TypeOK /\ Numbered => InOrder
<1> SUFFICES ASSUME TypeOK, Numbered PROVE InOrder
  OBVIOUS
<1>1. /\ rx_list \in Seq(Packets) /\ head \in Seq(Packets)
      /\ Len(rx_list) \in Nat /\ Len(head) \in Nat /\ received \in Nat /\ sent \in Nat
  BY TypeSeqs, EmptyList DEF TypeOK
<1> DEFINE all == head \o rx_list
<1>2. /\ all \in Seq(Packets) /\ Len(all) = Len(head) + Len(rx_list)
      /\ \A i \in 1 .. Len(head) + Len(rx_list) :
             all[i] = IF i <= Len(head) THEN head[i] ELSE rx_list[i - Len(head)]
  BY <1>1, ConcatProperties
<1>3. Len(all) = sent - received
  BY <1>1, <1>2 DEF Numbered
<1>4. \A i \in 1 .. sent - received : all[i] = received + i
  BY <1>1, <1>2, <1>3 DEF Numbered
<1>5. all = [i \in 1 .. Len(all) |-> all[i]]
  BY <1>2, LenProperties
<1> HIDE DEF all
<1>6. all = [i \in 1 .. sent - received |-> received + i]
  BY <1>3, <1>4, <1>5
<1> QED BY <1>6 DEF all, InOrder

(* No interleaving of the channels' polls with the representor's loses,     *)
(* duplicates or reorders a packet, though only the splicing of the list    *)
(* (u25_rep.c:583) and the appending to it (u25_rep.c:541) hold the lock.   *)
THEOREM AlwaysInOrder == Spec => []InOrder
  BY Invariance, NumberedInOrder, PTL DEF IInv

(* Until a packet is queued in the gap of a poll (u25_rep.c:601), or the    *)
(* representor closed, packets on the list always have a poll coming.       *)
THEOREM AlwaysTriggered == Spec => []RxTriggered
<1>1. IInv => RxTriggered
  BY DEF IInv, Unraced, RxTriggered
<1> QED BY <1>1, Invariance, PTL
=============================================================================
