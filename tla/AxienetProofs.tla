-------------------------- MODULE AxienetProofs --------------------------
(***************************************************************************)
(* Proofs about Axienet, for any number of queues and any size of their    *)
(* rings, of the packets and of the quota.                                 *)
(***************************************************************************)
EXTENDS Axienet, FiniteSetTheorems, TLAPS

(* TypeOK, by the parts that the actions change.                            *)
RingType == /\ tail \in [Queues -> TxBds] /\ ci \in [Queues -> TxBds] /\ hw \in [Queues -> TxBds]
            /\ bd \in [Queues -> [TxBds -> {"free", "owned", "done"}]]
            /\ skb \in [Queues -> [TxBds -> {"none", "kept", "freed"}]]
            /\ misfreed \in BOOLEAN
Handlers == [pc : {"idle", "select", "ack", "look", "clear", "wake"}, queue : Queues, at : TxBds]
IrqType  == /\ stopped \in BOOLEAN /\ tx_ioc \in [Queues -> BOOLEAN]
            /\ irq \in [Queues -> Handlers] /\ crossed \in BOOLEAN
Calls    == [pc : {"idle", "lock", "full", "recheck"}, queue : Queues, frags : 0 .. MaxFrags]
SendType == /\ sender \in [Senders -> Calls] /\ txlock \in {Nobody, App, Poll}
            /\ messages \in 0 .. MaxMessages
PollType == /\ rx_bd \in [RxBds -> {"posted", "hw", "done"}]
            /\ rx_ci \in RxBds /\ rx_hw \in RxBds
            /\ rx_ioc \in BOOLEAN /\ masked \in BOOLEAN /\ napi \in BOOLEAN /\ left \in BOOLEAN
            /\ poll \in [pc : {"idle", "status", "recv", "relay", "end", "unmask"},
                         work : 0 .. Quota]
            /\ failures \in 0 .. MaxFailures
            /\ traffic \in Traffics

(* The descriptors from tx_bd_ci up to tx_bd_tail.                          *)
From(a, b) == {i \in TxBds : IF a <= b THEN a <= i /\ i < b ELSE a <= i \/ i < b}

(* The ring of a queue: what is in use, what of it the engine has, and      *)
(* where the packets are.                                                   *)
InUseExact(q) == \A i \in TxBds : bd[q][i] # "free" <=> i \in From(ci[q], tail[q])
OwnedLast(q)  == /\ hw[q] \in From(ci[q], tail[q]) \cup {tail[q]}
                 /\ \A i \in TxBds : bd[q][i] = "owned" <=> i \in From(hw[q], tail[q])
HeldInUse(q)  == \A i \in TxBds : skb[q][i] # "none" => bd[q][i] # "free"
RingOK(q) == InUseExact(q) /\ OwnedLast(q) /\ HeldInUse(q)

(* One handler at a time reaps a queue.  The descriptor it clears is the    *)
(* first one, its packet was freed, and no other still names one that was.  *)
Apart       == \A l, m, q \in Queues : Reaping(l, q) /\ Reaping(m, q) => l = m
Clears(l)   == LET q == irq[l].queue
                   i == irq[l].at
               IN  irq[l].pc = "clear" => i = ci[q] /\ bd[q][i] = "done" /\ skb[q][i] # "kept"
FreedNow(q) == \A i \in TxBds :
                  skb[q][i] = "freed" =>
                     i = ci[q] /\ \E l \in Queues : irq[l].pc = "clear" /\ irq[l].queue = q

(* An interrupt comes, or a handler reaps, when there is something done.    *)
DoneAnnounced(q) ==
    (\E i \in TxBds : bd[q][i] = "done") => tx_ioc[q] \/ \E l \in Queues : Reaping(l, q)

(* What holds of the rings until two handlers meet in one.                  *)
Sound ==
    /\ ~misfreed
    /\ Apart
    /\ \A l \in Queues : Clears(l)
    /\ \A q \in Queues : RingOK(q) /\ FreedNow(q) /\ DoneAnnounced(q)

(* The poll waits for the packet it sends back.                             *)
RelayWaits == sender[Poll].pc # "idle" => poll.pc = "relay"

IInv ==
    /\ RingType /\ IrqType /\ SendType /\ PollType
    /\ ~crossed => Sound
    /\ StoppedIsWoken
    /\ RelayWaits

----------------------------------------------------------------------------
(* The arithmetic of a ring                                                 *)

LEMMA Sizes ==
    /\ TxSize \in Nat /\ RxSize \in Nat /\ Quota \in Nat /\ NumQueues \in Nat
    /\ 2 <= TxSize /\ 0 < RxSize /\ 0 < Quota /\ 0 < NumQueues
    /\ MaxFrags \in Nat /\ MaxFrags + 2 <= TxSize
    /\ MaxFailures \in Nat /\ MaxMessages \in Nat
  BY SizesPos, PacketFits, BoundsNat

(* Going on by k descriptors.                                               *)
LEMMA Plus ==
    ASSUME NEW a \in TxBds, NEW k \in 0 .. TxSize - 1
    PROVE  /\ (a + k) % TxSize = IF a + k < TxSize THEN a + k ELSE a + k - TxSize
           /\ (a + k) % TxSize \in TxBds
<1>1. (a + k) % TxSize = IF a + k < TxSize THEN a + k ELSE a + k - TxSize
  BY Sizes DEF TxBds
<1> QED BY <1>1, Sizes DEF TxBds

(* How far it is from a to b, ...                                           *)
LEMMA Distance ==
    ASSUME NEW a \in TxBds, NEW b \in TxBds
    PROVE  (b - a) % TxSize = IF a <= b THEN b - a ELSE b - a + TxSize
  BY Sizes DEF TxBds

(* ... and, as CIRC_SPACE has it, what is free when a to b is in use.       *)
LEMMA Room ==
    ASSUME NEW a \in TxBds, NEW b \in TxBds
    PROVE  (a - (b + 1)) % TxSize = IF b < a THEN a - b - 1 ELSE a - b - 1 + TxSize
  BY Sizes DEF TxBds

(* Counting from a up to b gives the descriptors between them.              *)
LEMMA FromCounts ==
    ASSUME NEW a \in TxBds, NEW b \in TxBds
    PROVE  {(a + k) % TxSize : k \in 0 .. ((b - a) % TxSize) - 1} = From(a, b)
<1> DEFINE D == (b - a) % TxSize
<1>1. D = IF a <= b THEN b - a ELSE b - a + TxSize
  BY Distance
<1>2. ASSUME NEW k \in 0 .. D - 1 PROVE (a + k) % TxSize \in From(a, b)
  <2>1. k \in 0 .. TxSize - 1
    BY <1>1, <1>2, Sizes DEF TxBds
  <2>2. /\ (a + k) % TxSize = IF a + k < TxSize THEN a + k ELSE a + k - TxSize
        /\ (a + k) % TxSize \in TxBds
    BY <2>1, Plus
  <2> HIDE DEF D
  <2> QED BY <1>1, <1>2, <2>1, <2>2, Sizes DEF From, TxBds
<1>3. ASSUME NEW i \in From(a, b) PROVE \E k \in 0 .. D - 1 : i = (a + k) % TxSize
  <2> DEFINE k == IF a <= i THEN i - a ELSE i - a + TxSize
  <2>1. k \in 0 .. D - 1 /\ k \in 0 .. TxSize - 1
    <3> HIDE DEF D
    <3> QED BY <1>1, Sizes DEF From, TxBds
  <2>2. (a + k) % TxSize = IF a + k < TxSize THEN a + k ELSE a + k - TxSize
    BY <2>1, Plus
  <2>3. i = IF a + k < TxSize THEN a + k ELSE a + k - TxSize
    BY Sizes DEF From, TxBds
  <2> HIDE DEF k
  <2> QED BY <2>1, <2>2, <2>3
<1> HIDE DEF D
<1>4. {(a + k) % TxSize : k \in 0 .. D - 1} = From(a, b)
  BY <1>2, <1>3
<1> QED BY <1>4 DEF D

(* The part from c on, when c lies in it, is a part, and the rest is what   *)
(* lies before c.                                                           *)
LEMMA FromParts ==
    ASSUME NEW a \in TxBds, NEW b \in TxBds, NEW c \in TxBds, c \in From(a, b) \cup {b}
    PROVE  /\ From(c, b) \subseteq From(a, b)
           /\ a \in From(c, b) => a = c
           /\ From(a, b) \ From(c, b) = From(a, c)
<1>1. ASSUME NEW i \in TxBds
      PROVE  /\ i \in From(c, b) => i \in From(a, b)
             /\ i \in From(a, b) /\ i \notin From(c, b) <=> i \in From(a, c)
  BY Sizes DEF From, TxBds
<1>2. a \in From(c, b) => a = c
  BY Sizes DEF From, TxBds
<1> QED BY <1>1, <1>2 DEF From

(* Going on from c, where c lies in the part.                               *)
LEMMA FromGoesOn ==
    ASSUME NEW a \in TxBds, NEW b \in TxBds, NEW c \in From(a, b)
    PROVE  (c + 1) % TxSize \in From(a, b) \cup {b}
<1>1. /\ c \in TxBds
      /\ (c + 1) % TxSize = IF c + 1 < TxSize THEN c + 1 ELSE c + 1 - TxSize
      /\ (c + 1) % TxSize \in TxBds
  <2>1. 1 \in 0 .. TxSize - 1 /\ c \in TxBds
    BY Sizes DEF From
  <2> QED BY <2>1, Plus
<1> QED BY <1>1, Sizes DEF From, TxBds

(* The first descriptor is reaped.                                          *)
LEMMA FromSucc ==
    ASSUME NEW a \in TxBds, NEW b \in TxBds, a # b
    PROVE  /\ a \in From(a, b)
           /\ (a + 1) % TxSize \in TxBds
           /\ From((a + 1) % TxSize, b) = From(a, b) \ {a}
<1>1. /\ (a + 1) % TxSize = IF a + 1 < TxSize THEN a + 1 ELSE a + 1 - TxSize
      /\ (a + 1) % TxSize \in TxBds
  <2>1. 1 \in 0 .. TxSize - 1
    BY Sizes
  <2> QED BY <2>1, Plus
<1>2. a \in From(a, b)
  BY Sizes DEF From, TxBds
<1>3. ASSUME NEW i \in TxBds
      PROVE  i \in From((a + 1) % TxSize, b) <=> i \in From(a, b) /\ i # a
  BY <1>1, Sizes DEF From, TxBds
<1> QED BY <1>1, <1>2, <1>3 DEF From

(* A packet with frags fragments is added at b, where there is room for it: *)
(* its descriptors were not in use, and b goes beyond them.                 *)
LEMMA FromAdds ==
    ASSUME NEW a \in TxBds, NEW b \in TxBds, NEW frags \in 0 .. MaxFrags,
           (a - (b + 1)) % TxSize >= frags + 1
    PROVE  LET last == (b + frags) % TxSize
               used == {(b + k) % TxSize : k \in 0 .. frags}
           IN  /\ last \in used /\ used \subseteq TxBds
               /\ used \cap From(a, b) = {}
               /\ (last + 1) % TxSize \in TxBds
               /\ From(a, (last + 1) % TxSize) = From(a, b) \cup used
<1> DEFINE last == (b + frags) % TxSize
           used == {(b + k) % TxSize : k \in 0 .. frags}
           beyond == (last + 1) % TxSize
<1> USE Sizes DEF TxBds
<1>1. frags \in 0 .. TxSize - 1
  OBVIOUS
<1>2. last \in TxBds /\ last = IF b + frags < TxSize THEN b + frags ELSE b + frags - TxSize
  BY <1>1, Plus
<1>3. beyond \in TxBds /\ beyond = IF last + 1 < TxSize THEN last + 1 ELSE 0
  <2>1. 1 \in 0 .. TxSize - 1
    OBVIOUS
  <2> HIDE DEF last
  <2>2. /\ beyond = IF last + 1 < TxSize THEN last + 1 ELSE last + 1 - TxSize
        /\ beyond \in TxBds
    BY <2>1, <1>2, Plus
  <2> QED BY <1>2, <2>2
<1>4. frags + 1 <= IF b < a THEN a - b - 1 ELSE a - b - 1 + TxSize
  BY Room
<1>5. ASSUME NEW i \in TxBds
      PROVE  i \in used <=> IF b + frags < TxSize THEN b <= i /\ i <= b + frags
                                                  ELSE b <= i \/ i <= b + frags - TxSize
  <2>1. ASSUME NEW k \in 0 .. frags
        PROVE  (b + k) % TxSize = IF b + k < TxSize THEN b + k ELSE b + k - TxSize
    <3>1. k \in 0 .. TxSize - 1
      OBVIOUS
    <3> QED BY <3>1, Plus
  <2>2. CASE i \in used
    <3>1. PICK k \in 0 .. frags : i = (b + k) % TxSize
      BY <2>2
    <3>2. i = IF b + k < TxSize THEN b + k ELSE b + k - TxSize
      BY <2>1, <3>1
    <3> QED BY <2>2, <3>2
  <2>3. ASSUME IF b + frags < TxSize THEN b <= i /\ i <= b + frags
                                     ELSE b <= i \/ i <= b + frags - TxSize
        PROVE  i \in used
    <3> DEFINE k == IF b <= i THEN i - b ELSE i - b + TxSize
    <3>1. k \in 0 .. frags
      BY <2>3
    <3>2. i = IF b + k < TxSize THEN b + k ELSE b + k - TxSize
      OBVIOUS
    <3> HIDE DEF k
    <3> QED BY <2>1, <3>1, <3>2
  <2> QED BY <2>2, <2>3
<1>6. used \subseteq TxBds
  <2> SUFFICES ASSUME NEW k \in 0 .. frags PROVE (b + k) % TxSize \in TxBds
    OBVIOUS
  <2>1. k \in 0 .. TxSize - 1
    OBVIOUS
  <2> QED BY <2>1, Plus
<1>7. last \in used
  OBVIOUS
<1> HIDE DEF last, used, beyond
<1>8. ASSUME NEW i \in TxBds PROVE ~(i \in used /\ i \in From(a, b))
  BY <1>4, <1>5 DEF From
<1>9. ASSUME NEW i \in TxBds PROVE i \in From(a, beyond) <=> i \in From(a, b) \/ i \in used
  BY <1>2, <1>3, <1>4, <1>5 DEF From
<1>10. used \cap From(a, b) = {} /\ From(a, beyond) = From(a, b) \cup used
  BY <1>6, <1>8, <1>9 DEF From
<1> QED BY <1>3, <1>6, <1>7, <1>10 DEF last, used, beyond

----------------------------------------------------------------------------
(* The transmit rings                                                       *)

(* Nothing but the ring of q changes.                                       *)
LEMMA OtherRings ==
    ASSUME NEW q \in Queues, NEW r \in Queues, RingOK(r), r # q, RingType,
           tail'[r] = tail[r], ci'[r] = ci[r], hw'[r] = hw[r], bd'[r] = bd[r], skb'[r] = skb[r]
    PROVE  RingOK(r)'
  BY DEF RingOK, InUseExact, OwnedLast, HeldInUse, From

(* What is written stays in the ring.                                       *)
LEMMA WriteType ==
    ASSUME RingType, NEW q \in Queues, NEW frags \in 0 .. MaxFrags, Write(q, frags)
    PROVE  RingType'
<1> DEFINE last == (tail[q] + frags) % TxSize
           beyond == (last + 1) % TxSize
           used == {(tail[q] + k) % TxSize : k \in 0 .. frags}
<1>1. tail[q] \in TxBds /\ frags \in 0 .. TxSize - 1 /\ 1 \in 0 .. TxSize - 1
  BY Sizes DEF RingType
<1>2. last \in TxBds
  <2> DEFINE b == tail[q]
  <2> HIDE DEF b
  <2>1. (b + frags) % TxSize \in TxBds
    BY <1>1, Plus DEF b
  <2> QED BY <2>1 DEF b
<1>3. beyond \in TxBds
  <2> HIDE DEF last
  <2> QED BY <1>1, <1>2, Plus
<1>4. /\ bd' = [bd EXCEPT ![q] = [i \in TxBds |-> IF i \in used THEN "owned" ELSE bd[q][i]]]
      /\ skb' = [skb EXCEPT ![q][last] = "kept"]
      /\ tail' = [tail EXCEPT ![q] = beyond]
      /\ misfreed' = (misfreed \/ skb[q][last] = "kept")
      /\ UNCHANGED <<ci, hw>>
  BY DEF Write
<1> HIDE DEF last, beyond, used
<1>5. tail' \in [Queues -> TxBds] /\ ci' \in [Queues -> TxBds] /\ hw' \in [Queues -> TxBds]
  BY <1>3, <1>4 DEF RingType
<1>6. bd' \in [Queues -> [TxBds -> {"free", "owned", "done"}]]
  BY <1>4 DEF RingType
<1>7. skb' \in [Queues -> [TxBds -> {"none", "kept", "freed"}]] /\ misfreed' \in BOOLEAN
  BY <1>4 DEF RingType
<1> QED BY <1>5, <1>6, <1>7 DEF RingType

(* What one handler may rely on while the others do what they do in other   *)
(* rings, and nothing at the first descriptor of its own.                   *)
LEMMA HandlersKeep ==
    ASSUME RingType, IrqType, Sound, UNCHANGED irq,
           \A q \in Queues :
              /\ ci'[q] = ci[q]
              /\ bd[q][ci[q]] = "done" => bd'[q][ci[q]] = "done" /\ skb'[q][ci[q]] = skb[q][ci[q]]
              /\ \A i \in TxBds : skb'[q][i] = "freed" => skb[q][i] = "freed"
    PROVE  Apart' /\ \A q \in Queues : Clears(q)' /\ FreedNow(q)'
<1>1. Apart'
  BY DEF Sound, Apart, Reaping
<1>2. ASSUME NEW l \in Queues PROVE Clears(l)'
  <2>1. irq[l].queue \in Queues
    BY DEF IrqType, Handlers
  <2> QED BY <2>1 DEF Sound, Clears
<1>3. ASSUME NEW q \in Queues PROVE FreedNow(q)'
  BY DEF Sound, FreedNow
<1> QED BY <1>1, <1>2, <1>3

(* A packet is written where there is space.                                *)
LEMMA WriteKeeps ==
    ASSUME RingType, IrqType, Sound, UNCHANGED <<tx_ioc, irq>>,
           NEW q \in Queues, NEW frags \in 0 .. MaxFrags, Space(q, frags), Write(q, frags)
    PROVE  /\ Sound'
           /\ \A r \in Queues, i \in TxBds : bd[r][i] = "owned" => bd'[r][i] = "owned"
<1> DEFINE a == ci[q]
           b == tail[q]
           h == hw[q]
           last == (b + frags) % TxSize
           used == {(b + k) % TxSize : k \in 0 .. frags}
           beyond == (last + 1) % TxSize
<1>1. a \in TxBds /\ b \in TxBds /\ h \in TxBds
  BY DEF RingType
<1>2. (a - (b + 1)) % TxSize >= frags + 1
  BY DEF Space
<1>3. /\ last \in used /\ used \subseteq TxBds
      /\ used \cap From(a, b) = {}
      /\ beyond \in TxBds
      /\ From(a, beyond) = From(a, b) \cup used
  <2> HIDE DEF a, b
  <2> QED BY <1>1, <1>2, FromAdds
<1>4. /\ bd' = [bd EXCEPT ![q] = [i \in TxBds |-> IF i \in used THEN "owned" ELSE bd[q][i]]]
      /\ skb' = [skb EXCEPT ![q][last] = "kept"]
      /\ tail' = [tail EXCEPT ![q] = beyond]
      /\ misfreed' = (misfreed \/ skb[q][last] = "kept")
      /\ ci' = ci /\ hw' = hw
  BY DEF Write
<1>5. RingOK(q)
  BY DEF Sound
<1>6. h \in From(a, b) \cup {b} /\ From(h, beyond) = From(h, b) \cup used
  <2>1. h \in From(a, b) \cup {b}
    BY <1>5 DEF RingOK, OwnedLast
  <2>2. (h - (b + 1)) % TxSize >= frags + 1
    <3> HIDE DEF a, b, h
    <3>1. (a - (b + 1)) % TxSize = IF b < a THEN a - b - 1 ELSE a - b - 1 + TxSize
      BY <1>1, Room
    <3>2. (h - (b + 1)) % TxSize = IF b < h THEN h - b - 1 ELSE h - b - 1 + TxSize
      BY <1>1, Room
    <3> QED BY <1>1, <1>2, <2>1, <3>1, <3>2, Sizes DEF From, TxBds
  <2> HIDE DEF a, b, h
  <2>3. From(h, beyond) = From(h, b) \cup used
    BY <1>1, <2>2, FromAdds
  <2> QED BY <2>1, <2>3
<1> HIDE DEF last, used, beyond
<1>7. /\ DOMAIN bd = Queues /\ DOMAIN skb = Queues /\ DOMAIN tail = Queues /\ DOMAIN skb[q] = TxBds
  BY DEF RingType
<1>8. \A i \in TxBds : bd'[q][i] = IF i \in used THEN "owned" ELSE bd[q][i]
  BY <1>4, <1>7
<1>9. \A i \in TxBds : skb'[q][i] = IF i = last THEN "kept" ELSE skb[q][i]
  BY <1>4, <1>7
<1>10. tail'[q] = beyond /\ ci'[q] = a /\ hw'[q] = h
  BY <1>4, <1>7
<1>11. \A i \in used : bd[q][i] = "free" /\ skb[q][i] = "none"
  BY <1>3, <1>5 DEF RingOK, InUseExact, HeldInUse
<1>12. ~misfreed'
  BY <1>3, <1>4, <1>11 DEF Sound
<1>13. InUseExact(q)'
  <2> SUFFICES ASSUME NEW i \in TxBds
               PROVE  bd'[q][i] # "free" <=> i \in From(a, beyond)
    BY <1>10 DEF InUseExact, From
  <2>1. bd[q][i] # "free" <=> i \in From(a, b)
    BY <1>5 DEF RingOK, InUseExact
  <2> QED BY <1>3, <1>8, <2>1
<1>14. OwnedLast(q)'
  <2>1. h \in From(a, beyond)
    <3>1. CASE h = b
      <4>1. b \in used
        <5>1. 0 \in 0 .. frags /\ (b + 0) % TxSize = b
          BY <1>1, Sizes DEF TxBds
        <5> QED BY <5>1 DEF used
      <4> QED BY <1>3, <3>1, <4>1
    <3> QED BY <1>3, <1>6, <3>1
  <2>2. \A i \in TxBds : bd'[q][i] = "owned" <=> i \in From(h, beyond)
    BY <1>5, <1>6, <1>8 DEF RingOK, OwnedLast
  <2> QED BY <1>10, <2>1, <2>2 DEF OwnedLast, From
<1>15. HeldInUse(q)'
  BY <1>3, <1>5, <1>8, <1>9 DEF RingOK, HeldInUse
<1>16. ASSUME NEW r \in Queues PROVE RingOK(r)'
  <2>1. CASE r = q
    BY <1>13, <1>14, <1>15, <2>1 DEF RingOK
  <2>2. CASE r # q
    <3>1. RingOK(r)
      BY DEF Sound
    <3> QED BY <1>4, <1>7, <2>2, <3>1, OtherRings
  <2> QED BY <2>1, <2>2
<1>17. ASSUME NEW r \in Queues, NEW i \in TxBds
       PROVE  /\ bd'[r][i] = "done" => bd[r][i] = "done"
              /\ bd[r][i] = "done" => bd'[r][i] = "done" /\ skb'[r][i] = skb[r][i]
              /\ bd[r][i] = "owned" => bd'[r][i] = "owned"
              /\ skb'[r][i] = "freed" => skb[r][i] = "freed"
  <2>1. CASE r = q
    BY <1>3, <1>8, <1>9, <1>11, <2>1
  <2>2. CASE r # q
    BY <1>4, <2>2
  <2> QED BY <2>1, <2>2
<1>18. Apart' /\ \A r \in Queues : Clears(r)' /\ FreedNow(r)'
  <2>1. \A r \in Queues : ci'[r] = ci[r] /\ ci[r] \in TxBds
    BY <1>4 DEF RingType
  <2> QED BY <1>17, <2>1, HandlersKeep
<1>19. ASSUME NEW r \in Queues PROVE DoneAnnounced(r)'
  BY <1>17 DEF Sound, DoneAnnounced, Reaping
<1> QED BY <1>12, <1>16, <1>17, <1>18, <1>19 DEF Sound

(* The engine completes a descriptor.                                       *)
LEMMA EngineType ==
    ASSUME RingType, NEW q \in Queues, EngineSends(q)
    PROVE  RingType'
<1>1. 1 \in 0 .. TxSize - 1 /\ hw[q] \in TxBds
  BY Sizes DEF RingType
<1>2. (hw[q] + 1) % TxSize \in TxBds
  BY <1>1, Plus
<1>3. /\ bd' = [bd EXCEPT ![q][hw[q]] = "done"]
      /\ hw' = [hw EXCEPT ![q] = (hw[q] + 1) % TxSize]
      /\ UNCHANGED <<tail, ci, skb, misfreed>>
  BY DEF EngineSends
<1> QED BY <1>2, <1>3 DEF RingType

LEMMA EngineKeeps ==
    ASSUME RingType, IrqType, Sound, NEW q \in Queues, EngineSends(q)
    PROVE  Sound'
<1> DEFINE a == ci[q]
           b == tail[q]
           h == hw[q]
           next == (h + 1) % TxSize
<1>1. a \in TxBds /\ b \in TxBds /\ h \in TxBds
  BY DEF RingType
<1>2. /\ bd[q][h] = "owned"
      /\ bd' = [bd EXCEPT ![q][h] = "done"]
      /\ hw' = [hw EXCEPT ![q] = next]
      /\ tx_ioc' = [tx_ioc EXCEPT ![q] = TRUE]
      /\ UNCHANGED <<tail, ci, skb, misfreed, irq>>
  BY DEF EngineSends, irqVars
<1>3. RingOK(q)
  BY DEF Sound
<1>4. h \in From(h, b) /\ h # b /\ h \in From(a, b)
  <2>1. h \in From(h, b) /\ bd[q][h] # "free"
    BY <1>1, <1>2, <1>3 DEF RingOK, OwnedLast
  <2>2. h \in From(a, b)
    BY <1>1, <1>3, <2>1 DEF RingOK, InUseExact
  <2>3. h # b
    <3> HIDE DEF h, b
    <3> QED BY <1>1, <2>1, Sizes DEF From, TxBds
  <2> QED BY <2>1, <2>2, <2>3
<1>5. next \in TxBds /\ next \in From(a, b) \cup {b} /\ From(next, b) = From(h, b) \ {h}
  <2> HIDE DEF a, b, h
  <2> QED BY <1>1, <1>4, FromSucc, FromGoesOn
<1> HIDE DEF next
<1>6. \A j \in TxBds : bd'[q][j] = IF j = h THEN "done" ELSE bd[q][j]
  BY <1>1, <1>2 DEF RingType
<1>7. tail'[q] = b /\ ci'[q] = a /\ hw'[q] = next /\ skb'[q] = skb[q]
  BY <1>2 DEF RingType
<1>8. InUseExact(q)' /\ HeldInUse(q)'
  <2>1. InUseExact(q)'
    <3> SUFFICES ASSUME NEW i \in TxBds PROVE bd'[q][i] # "free" <=> i \in From(a, b)
      BY <1>7 DEF InUseExact, From
    <3> QED BY <1>2, <1>3, <1>6 DEF RingOK, InUseExact
  <2>2. HeldInUse(q)'
    BY <1>3, <1>6, <1>7 DEF RingOK, HeldInUse
  <2> QED BY <2>1, <2>2
<1>9. OwnedLast(q)'
  <2>1. \A i \in TxBds : bd'[q][i] = "owned" <=> i \in From(next, b)
    BY <1>3, <1>5, <1>6 DEF RingOK, OwnedLast
  <2> QED BY <1>5, <1>7, <2>1 DEF OwnedLast, From
<1>10. ASSUME NEW r \in Queues PROVE RingOK(r)'
  <2>1. CASE r = q
    BY <1>8, <1>9, <2>1 DEF RingOK
  <2>2. CASE r # q
    <3>1. RingOK(r)
      BY DEF Sound
    <3> QED BY <1>2, <2>2, <3>1, OtherRings DEF RingType
  <2> QED BY <2>1, <2>2
<1>11. \A r \in Queues, i \in TxBds : bd[r][i] = "done" => bd'[r][i] = "done"
  BY <1>2 DEF RingType
<1>12. Apart' /\ \A r \in Queues : Clears(r)' /\ FreedNow(r)'
  <2>1. \A r \in Queues : ci'[r] = ci[r] /\ ci[r] \in TxBds
    BY <1>2 DEF RingType
  <2> QED BY <1>2, <1>11, <2>1, HandlersKeep
<1>13. ASSUME NEW r \in Queues PROVE DoneAnnounced(r)'
  <2>1. CASE r = q
    BY <1>2, <2>1 DEF DoneAnnounced, IrqType
  <2>2. CASE r # q
    <3>1. bd'[r] = bd[r] /\ tx_ioc'[r] = tx_ioc[r]
      BY <1>2, <2>2 DEF IrqType, RingType
    <3> QED BY <1>2, <3>1 DEF Sound, DoneAnnounced, Reaping
  <2> QED BY <2>1, <2>2
<1> QED BY <1>2, <1>10, <1>12, <1>13 DEF Sound

(* A handler goes on; the others stay where they are.                       *)
LEMMA HandlerMoves ==
    ASSUME IrqType, NEW l \in Queues, NEW h \in Handlers, irq' = [irq EXCEPT ![l] = h]
    PROVE  /\ irq' \in [Queues -> Handlers]
           /\ irq'[l] = h /\ \A m \in Queues : m # l => irq'[m] = irq[m]
           /\ \A m, q \in Queues : m # l => (Reaping(m, q)' <=> Reaping(m, q))
           /\ \A q \in Queues : Reaping(l, q)' <=> h.queue = q /\ h.pc \in {"look", "clear"}
           /\ \A m \in Queues : irq[m] \in Handlers /\ irq[m].queue \in Queues
  BY DEF IrqType, Handlers, Reaping

(* It goes on in the ring it is in.                                         *)
LEMMA HandlerStays ==
    ASSUME IrqType, NEW l \in Queues, NEW h \in Handlers, irq' = [irq EXCEPT ![l] = h],
           h.queue = irq[l].queue, {irq[l].pc, h.pc} \subseteq {"look", "clear"}
    PROVE  /\ irq' \in [Queues -> Handlers]
           /\ irq'[l] = h /\ \A m \in Queues : m # l => irq'[m] = irq[m]
           /\ \A m, q \in Queues : Reaping(m, q)' <=> Reaping(m, q)
           /\ \A m \in Queues : irq[m].queue \in Queues
<1>1. \A q \in Queues : Reaping(l, q)' <=> Reaping(l, q)
  <2>1. \A q \in Queues : Reaping(l, q)' <=> h.queue = q
    BY HandlerMoves
  <2> QED BY <2>1 DEF Reaping
<1>2. /\ irq' \in [Queues -> Handlers]
      /\ irq'[l] = h /\ \A m \in Queues : m # l => irq'[m] = irq[m]
      /\ \A m, q \in Queues : m # l => (Reaping(m, q)' <=> Reaping(m, q))
      /\ \A m \in Queues : irq[m].queue \in Queues
  BY HandlerMoves
<1> QED BY <1>1, <1>2

(* One that reaps neither before nor after.                                 *)
LEMMA QuietMoves ==
    ASSUME IrqType, Sound, NEW l \in Queues, NEW h \in Handlers, irq' = [irq EXCEPT ![l] = h],
           irq[l].pc \notin {"look", "clear"}, h.pc \notin {"look", "clear"},
           UNCHANGED <<txVars, tx_ioc>>
    PROVE  Sound'
<1>1. /\ irq'[l] = h /\ \A m \in Queues : m # l => irq'[m] = irq[m]
      /\ \A m, q \in Queues : Reaping(m, q)' <=> Reaping(m, q)
  <2>1. \A q \in Queues : ~Reaping(l, q)' /\ ~Reaping(l, q)
    <3>1. \A q \in Queues : ~Reaping(l, q)'
      BY HandlerMoves
    <3> QED BY <3>1 DEF Reaping
  <2>2. /\ irq'[l] = h /\ \A m \in Queues : m # l => irq'[m] = irq[m]
        /\ \A m, q \in Queues : m # l => (Reaping(m, q)' <=> Reaping(m, q))
    BY HandlerMoves
  <2> QED BY <2>1, <2>2
<1>2. UNCHANGED <<tail, ci, hw, bd, skb, misfreed, tx_ioc>>
  BY DEF txVars
<1>3. Apart'
  BY <1>1 DEF Sound, Apart
<1>4. ASSUME NEW m \in Queues PROVE Clears(m)'
  BY <1>1, <1>2 DEF Sound, Clears
<1>5. ASSUME NEW q \in Queues PROVE FreedNow(q)'
  BY <1>1, <1>2 DEF Sound, FreedNow
<1>6. ASSUME NEW q \in Queues PROVE RingOK(q)' /\ DoneAnnounced(q)'
  BY <1>1, <1>2 DEF Sound, RingOK, InUseExact, OwnedLast, HeldInUse, From, DoneAnnounced
<1> QED BY <1>2, <1>3, <1>4, <1>5, <1>6 DEF Sound

(* A completed descriptor is taken and its packet freed.                    *)
LEMMA ReapBdKeeps ==
    ASSUME RingType, IrqType, NEW l \in Queues, ReapBd(l)
    PROVE  RingType' /\ IrqType' /\ (Sound => Sound') /\ bd' = bd
<1> DEFINE q == irq[l].queue
           i == ci[q]
           h == [pc |-> "clear", queue |-> q, at |-> i]
<1>1. q \in Queues /\ i \in TxBds
  BY DEF IrqType, Handlers, RingType
<1>2. /\ irq[l].pc = "look" /\ bd[q][i] = "done"
      /\ skb' = [skb EXCEPT ![q][i] = IF @ = "none" THEN "none" ELSE "freed"]
      /\ misfreed' = (misfreed \/ skb[q][i] = "freed")
      /\ irq' = [irq EXCEPT ![l] = h]
      /\ UNCHANGED <<tail, ci, hw, bd, stopped, tx_ioc, crossed>>
  BY DEF ReapBd
<1>3. h \in Handlers
  BY <1>1 DEF Handlers
<1>4. /\ irq' \in [Queues -> Handlers]
      /\ irq'[l] = h /\ \A m \in Queues : m # l => irq'[m] = irq[m]
      /\ \A m, r \in Queues : Reaping(m, r)' <=> Reaping(m, r)
      /\ \A m \in Queues : irq[m].queue \in Queues
  <2>1. h.queue = q /\ h.pc = "clear"
    OBVIOUS
  <2> HIDE DEF h
  <2> QED BY <1>2, <1>3, <2>1, HandlerStays
<1>5. IrqType'
  BY <1>2, <1>4 DEF IrqType
<1> HIDE DEF h
<1>6. \A r \in Queues, j \in TxBds :
         skb'[r][j] = IF r = q /\ j = i THEN IF skb[q][i] = "none" THEN "none" ELSE "freed"
                                        ELSE skb[r][j]
  BY <1>1, <1>2 DEF RingType
<1>7. RingType'
  BY <1>1, <1>2 DEF RingType
<1>8. ASSUME Sound PROVE Sound'
  <2>1. Reaping(l, q) /\ \A m \in Queues : Reaping(m, q) => m = l
    BY <1>1, <1>2, <1>8 DEF Sound, Apart, Reaping
  <2>2. \A j \in TxBds : skb[q][j] # "freed"
    BY <1>1, <1>2, <1>8, <2>1 DEF Sound, FreedNow, Reaping
  <2>3. ~misfreed'
    BY <1>1, <1>2, <1>8, <2>2 DEF Sound
  <2>4. Apart'
    BY <1>4, <1>8 DEF Sound, Apart
  <2>5. ASSUME NEW m \in Queues PROVE Clears(m)'
    <3>1. CASE m = l
      BY <1>1, <1>2, <1>4, <1>6, <3>1 DEF Clears, h
    <3>2. CASE m # l
      <4> SUFFICES ASSUME irq[m].pc = "clear" PROVE Clears(m)'
        BY <1>4, <3>2 DEF Clears
      <4>1. irq[m].queue # q /\ irq[m].queue \in Queues
        BY <1>4, <2>1, <3>2 DEF Reaping
      <4>2. Clears(m)
        BY <1>8 DEF Sound
      <4>3. irq[m].at \in TxBds
        BY DEF IrqType, Handlers
      <4> QED BY <1>2, <1>4, <1>6, <3>2, <4>1, <4>2, <4>3 DEF Clears
    <3> QED BY <3>1, <3>2
  <2>6. ASSUME NEW r \in Queues PROVE FreedNow(r)'
    <3>1. CASE r = q
      BY <1>1, <1>2, <1>4, <1>6, <2>2, <3>1 DEF FreedNow, h
    <3>2. CASE r # q
      BY <1>1, <1>2, <1>4, <1>6, <1>8, <3>2 DEF Sound, FreedNow
    <3> QED BY <3>1, <3>2
  <2>7. ASSUME NEW r \in Queues PROVE RingOK(r)'
    <3>1. RingOK(r)
      BY <1>8 DEF Sound
    <3>2. HeldInUse(r)'
      BY <1>2, <1>6, <3>1 DEF RingOK, HeldInUse
    <3> QED BY <1>2, <3>1, <3>2 DEF RingOK, InUseExact, OwnedLast, From
  <2>8. ASSUME NEW r \in Queues PROVE DoneAnnounced(r)'
    BY <1>2, <1>4, <1>8 DEF Sound, DoneAnnounced
  <2> QED BY <2>3, <2>4, <2>5, <2>6, <2>7, <2>8 DEF Sound
<1> QED BY <1>2, <1>5, <1>7, <1>8

(* It is cleared, and tx_bd_ci goes on.                                     *)
LEMMA ReapClearKeeps ==
    ASSUME RingType, IrqType, NEW l \in Queues, ReapClear(l)
    PROVE  /\ RingType' /\ IrqType'
           /\ Sound => Sound' /\ \A r \in Queues, j \in TxBds : bd[r][j] = "owned" => bd'[r][j] = "owned"
<1>0. PICK q \in Queues, i \in TxBds : q = irq[l].queue /\ i = irq[l].at
  BY DEF IrqType, Handlers
<1> DEFINE b == tail[q]
           w == hw[q]
           h == [irq[l] EXCEPT !.pc = "look"]
<1>1. q \in Queues /\ i \in TxBds /\ b \in TxBds /\ w \in TxBds /\ ci[q] \in TxBds
  BY DEF RingType
<1>2. /\ irq[l].pc = "clear"
      /\ bd' = [bd EXCEPT ![q][i] = "free"]
      /\ skb' = [skb EXCEPT ![q][i] = "none"]
      /\ misfreed' = (misfreed \/ skb[q][i] = "kept")
      /\ irq' = [irq EXCEPT ![l] = h]
      /\ UNCHANGED <<tail, hw, stopped, tx_ioc, crossed>>
  BY <1>0 DEF ReapClear, IrqAt
<1>3. PICK c \in {i, ci[q]} : ci' = [ci EXCEPT ![q] = (c + 1) % TxSize]
  BY <1>0 DEF ReapClear
<1>4. c \in TxBds /\ (c + 1) % TxSize \in TxBds
  <2>1. 1 \in 0 .. TxSize - 1 /\ c \in TxBds
    BY <1>1, Sizes
  <2> QED BY <2>1, Plus
<1>5. h \in Handlers /\ h.queue = q /\ h.pc = "look"
  BY <1>0, <1>1 DEF Handlers, IrqType
<1>6. /\ irq' \in [Queues -> Handlers]
      /\ irq'[l] = h /\ \A m \in Queues : m # l => irq'[m] = irq[m]
      /\ \A m, r \in Queues : Reaping(m, r)' <=> Reaping(m, r)
      /\ \A m \in Queues : irq[m].queue \in Queues
  <2> HIDE DEF h
  <2> QED BY <1>0, <1>2, <1>5, HandlerStays
<1>7. IrqType'
  BY <1>2, <1>6 DEF IrqType
<1> HIDE DEF h
<1>8. /\ \A r \in Queues, j \in TxBds : bd'[r][j] = IF r = q /\ j = i THEN "free" ELSE bd[r][j]
      /\ \A r \in Queues, j \in TxBds : skb'[r][j] = IF r = q /\ j = i THEN "none" ELSE skb[r][j]
  BY <1>1, <1>2 DEF RingType
<1>9. RingType'
  BY <1>1, <1>2, <1>3, <1>4 DEF RingType
<1>10. ASSUME Sound
       PROVE  Sound' /\ \A r \in Queues, j \in TxBds : bd[r][j] = "owned" => bd'[r][j] = "owned"
  <2>1. Reaping(l, q) /\ \A m \in Queues : Reaping(m, q) => m = l
    BY <1>0, <1>1, <1>2, <1>10 DEF Sound, Apart, Reaping
  <2>2. i = ci[q] /\ bd[q][i] = "done" /\ skb[q][i] # "kept" /\ c = i
    BY <1>0, <1>2, <1>10 DEF Sound, Clears
  <2>3. ~misfreed'
    BY <1>2, <1>10, <2>2 DEF Sound
  <2>4. Apart'
    BY <1>6, <1>10 DEF Sound, Apart
  <2>5. \A r \in Queues : ci'[r] = IF r = q THEN (i + 1) % TxSize ELSE ci[r]
    BY <1>1, <1>3, <2>2 DEF RingType
  <2>6. ASSUME NEW m \in Queues PROVE Clears(m)'
    <3>1. CASE m = l
      BY <1>5, <1>6, <3>1 DEF Clears
    <3>2. CASE m # l
      <4> SUFFICES ASSUME irq[m].pc = "clear" PROVE Clears(m)'
        BY <1>6, <3>2 DEF Clears
      <4>1. irq[m].queue # q /\ irq[m].queue \in Queues
        BY <1>6, <2>1, <3>2 DEF Reaping
      <4>2. Clears(m)
        BY <1>10 DEF Sound
      <4>3. irq[m].at \in TxBds
        BY DEF IrqType, Handlers
      <4> QED BY <1>6, <1>8, <2>5, <3>2, <4>1, <4>2, <4>3 DEF Clears
    <3> QED BY <3>1, <3>2
  <2>7. ASSUME NEW r \in Queues PROVE FreedNow(r)'
    <3>1. CASE r = q
      BY <1>8, <1>10, <2>2, <3>1 DEF Sound, FreedNow
    <3>2. CASE r # q
      BY <1>0, <1>6, <1>8, <1>10, <2>5, <3>2 DEF Sound, FreedNow
    <3> QED BY <3>1, <3>2
  <2>8. RingOK(q)
    BY <1>1, <1>10 DEF Sound
  <2>9. i \in From(i, b) /\ i # b /\ i \notin From(w, b)
    <3>1. i \in From(i, b) /\ i \notin From(w, b)
      BY <1>1, <2>2, <2>8 DEF RingOK, InUseExact, OwnedLast
    <3>2. i # b
      <4> HIDE DEF b
      <4> QED BY <1>1, <3>1, Sizes DEF From, TxBds
    <3> QED BY <3>1, <3>2
  <2>10. From((i + 1) % TxSize, b) = From(i, b) \ {i}
    <3> HIDE DEF b
    <3> QED BY <1>1, <2>9, FromSucc
  <2>11. w \in From((i + 1) % TxSize, b) \cup {b}
    <3>1. w \in From(i, b) \cup {b} /\ w # i
      BY <2>2, <2>8, <2>9 DEF RingOK, OwnedLast
    <3> QED BY <2>10, <3>1
  <2>12. tail'[q] = b /\ hw'[q] = w /\ ci'[q] = (i + 1) % TxSize
    BY <1>1, <1>2, <2>5
  <2>13. InUseExact(q)'
    <3> SUFFICES ASSUME NEW j \in TxBds PROVE bd'[q][j] # "free" <=> j \in From((i + 1) % TxSize, b)
      BY <2>12 DEF InUseExact, From
    <3>1. bd[q][j] # "free" <=> j \in From(i, b)
      BY <2>2, <2>8 DEF RingOK, InUseExact
    <3> QED BY <1>1, <1>8, <2>10, <3>1
  <2>14. OwnedLast(q)'
    <3>1. \A j \in TxBds : bd'[q][j] = "owned" <=> j \in From(w, b)
      BY <1>1, <1>8, <2>8, <2>9 DEF RingOK, OwnedLast
    <3> QED BY <2>11, <2>12, <3>1 DEF OwnedLast, From
  <2>15. HeldInUse(q)'
    BY <1>1, <1>8, <2>8 DEF RingOK, HeldInUse
  <2>16. ASSUME NEW r \in Queues PROVE RingOK(r)'
    <3>1. CASE r = q
      BY <2>13, <2>14, <2>15, <3>1 DEF RingOK
    <3>2. CASE r # q
      <4>1. RingOK(r)
        BY <1>10 DEF Sound
      <4>2. bd'[r] = bd[r] /\ skb'[r] = skb[r]
        BY <1>1, <1>2, <3>2 DEF RingType
      <4> QED BY <1>1, <1>2, <2>5, <3>2, <4>1, <4>2, OtherRings
    <3> QED BY <3>1, <3>2
  <2>17. ASSUME NEW r \in Queues PROVE DoneAnnounced(r)'
    BY <1>2, <1>6, <1>8, <1>10 DEF Sound, DoneAnnounced
  <2>18. \A r \in Queues, j \in TxBds : bd[r][j] = "owned" => bd'[r][j] = "owned"
    BY <1>8, <2>2
  <2> QED BY <2>3, <2>4, <2>6, <2>7, <2>16, <2>17, <2>18 DEF Sound
<1> QED BY <1>7, <1>9, <1>10

(* Nothing is left at the first descriptor: the handler is done.            *)
LEMMA ReapEndKeeps ==
    ASSUME RingType, IrqType, NEW l \in Queues, ReapEnd(l)
    PROVE  RingType' /\ IrqType' /\ (Sound => Sound') /\ irq'[l].pc = "wake"
<1> DEFINE q == irq[l].queue
           h == [irq[l] EXCEPT !.pc = "wake"]
<1>1. q \in Queues /\ ci[q] \in TxBds /\ tail[q] \in TxBds /\ hw[q] \in TxBds
  BY DEF IrqType, Handlers, RingType
<1>2. /\ irq[l].pc = "look" /\ bd[q][ci[q]] # "done"
      /\ irq' = [irq EXCEPT ![l] = h]
      /\ UNCHANGED <<txVars, stopped, tx_ioc, crossed>>
  BY DEF ReapEnd, IrqAt, irqLeaves
<1>3. h \in Handlers /\ h.pc = "wake"
  BY <1>1 DEF Handlers, IrqType
<1>4. /\ irq' \in [Queues -> Handlers]
      /\ irq'[l] = h /\ \A m \in Queues : m # l => irq'[m] = irq[m]
      /\ \A m, r \in Queues : Reaping(m, r)' <=> m # l /\ Reaping(m, r)
  <2> HIDE DEF h
  <2>1. /\ irq' \in [Queues -> Handlers]
        /\ irq'[l] = h /\ \A m \in Queues : m # l => irq'[m] = irq[m]
        /\ \A m, r \in Queues : m # l => (Reaping(m, r)' <=> Reaping(m, r))
        /\ \A r \in Queues : ~Reaping(l, r)'
    BY <1>2, <1>3, HandlerMoves
  <2> QED BY <2>1
<1>5. IrqType' /\ RingType'
  BY <1>2, <1>4 DEF IrqType, RingType, txVars
<1> HIDE DEF h
<1>6. UNCHANGED <<tail, ci, hw, bd, skb, misfreed>>
  BY <1>2 DEF txVars
<1>7. ASSUME Sound PROVE Sound'
  <2>1. Apart'
    BY <1>4, <1>7 DEF Sound, Apart
  <2>2. ASSUME NEW m \in Queues PROVE Clears(m)'
    <3>1. CASE m = l
      BY <1>3, <1>4, <3>1 DEF Clears
    <3>2. CASE m # l
      BY <1>4, <1>6, <1>7, <3>2 DEF Sound, Clears
    <3> QED BY <3>1, <3>2
  <2>3. ASSUME NEW r \in Queues PROVE FreedNow(r)'
    BY <1>2, <1>4, <1>6, <1>7 DEF Sound, FreedNow
  <2>4. ASSUME NEW r \in Queues PROVE RingOK(r)'
    BY <1>6, <1>7 DEF Sound, RingOK, InUseExact, OwnedLast, HeldInUse, From
  <2>5. \A j \in TxBds : bd[q][j] # "done"
    <3> SUFFICES ASSUME NEW j \in TxBds, bd[q][j] = "done" PROVE FALSE
      OBVIOUS
    <3> DEFINE a == ci[q]
               b == tail[q]
               w == hw[q]
    <3>1. RingOK(q)
      BY <1>1, <1>7 DEF Sound
    <3>2. /\ j \in From(a, b) /\ j \notin From(w, b)
          /\ w \in From(a, b) \cup {b}
          /\ a \in From(a, b) => a \in From(w, b)
      BY <1>1, <1>2, <3>1 DEF RingOK, InUseExact, OwnedLast, RingType
    <3> HIDE DEF a, b, w
    <3> QED BY <1>1, <3>2, Sizes DEF From, TxBds, a, b, w
  <2>6. ASSUME NEW r \in Queues PROVE DoneAnnounced(r)'
    <3>1. CASE r = q
      BY <1>6, <2>5, <3>1 DEF DoneAnnounced
    <3>2. CASE r # q
      <4>1. ~Reaping(l, r)
        BY <3>2 DEF Reaping
      <4> QED BY <1>2, <1>4, <1>6, <1>7, <4>1 DEF Sound, DoneAnnounced
    <3> QED BY <3>1, <3>2
  <2> QED BY <1>6, <1>7, <2>1, <2>2, <2>3, <2>4, <2>6 DEF Sound
<1> QED BY <1>3, <1>4, <1>5, <1>7

(* A channel is acknowledged; when another handler reaps its queue, the two *)
(* have met.                                                                *)
LEMMA AckKeeps ==
    ASSUME RingType, IrqType, NEW l \in Queues, IrqAck(l)
    PROVE  /\ RingType' /\ IrqType' /\ (Sound /\ ~crossed' => Sound')
           /\ (crossed => crossed') /\ \E q \in Queues : Reaping(l, q)'
<1> DEFINE q == irq[l].queue
           h == [irq[l] EXCEPT !.pc = "look"]
<1>1. q \in Queues
  BY DEF IrqType, Handlers
<1>2. /\ irq[l].pc = "ack"
      /\ tx_ioc' = [tx_ioc EXCEPT ![q] = FALSE]
      /\ irq' = [irq EXCEPT ![l] = h]
      /\ crossed' = (crossed \/ \E m \in Queues : Reaping(m, q))
      /\ UNCHANGED <<txVars, stopped>>
  BY DEF IrqAck, IrqAt, irqLeaves
<1>3. h \in Handlers /\ h.pc = "look" /\ h.queue = q
  BY <1>1 DEF Handlers, IrqType
<1>4. /\ irq' \in [Queues -> Handlers]
      /\ irq'[l] = h /\ \A m \in Queues : m # l => irq'[m] = irq[m]
      /\ \A m, r \in Queues : Reaping(m, r)' <=> (m = l /\ r = q) \/ Reaping(m, r)
  <2> HIDE DEF h
  <2>1. /\ irq' \in [Queues -> Handlers]
        /\ irq'[l] = h /\ \A m \in Queues : m # l => irq'[m] = irq[m]
        /\ \A m, r \in Queues : m # l => (Reaping(m, r)' <=> Reaping(m, r))
        /\ \A r \in Queues : Reaping(l, r)' <=> q = r
    BY <1>2, <1>3, HandlerMoves
  <2>2. \A r \in Queues : ~Reaping(l, r)
    BY <1>2 DEF Reaping
  <2> QED BY <1>1, <2>1, <2>2
<1>5. IrqType' /\ RingType'
  BY <1>2, <1>4 DEF IrqType, RingType, txVars
<1> HIDE DEF h
<1>6. UNCHANGED <<tail, ci, hw, bd, skb, misfreed>>
  BY <1>2 DEF txVars
<1>7. ASSUME Sound, ~crossed' PROVE Sound'
  <2>1. \A m \in Queues : ~Reaping(m, q)
    BY <1>2, <1>7
  <2>2. \A r \in Queues : ~Reaping(l, r)
    BY <1>2 DEF Reaping
  <2>3. Apart'
    BY <1>4, <1>7, <2>1, <2>2 DEF Sound, Apart
  <2>4. ASSUME NEW m \in Queues PROVE Clears(m)'
    <3>1. CASE m = l
      BY <1>3, <1>4, <3>1 DEF Clears
    <3>2. CASE m # l
      BY <1>4, <1>6, <1>7, <3>2 DEF Sound, Clears
    <3> QED BY <3>1, <3>2
  <2>5. ASSUME NEW r \in Queues PROVE FreedNow(r)'
    BY <1>2, <1>4, <1>6, <1>7 DEF Sound, FreedNow
  <2>6. ASSUME NEW r \in Queues PROVE RingOK(r)'
    BY <1>6, <1>7 DEF Sound, RingOK, InUseExact, OwnedLast, HeldInUse, From
  <2>7. ASSUME NEW r \in Queues PROVE DoneAnnounced(r)'
    <3>1. CASE r = q
      BY <1>4, <3>1 DEF DoneAnnounced
    <3>2. CASE r # q
      BY <1>1, <1>2, <1>4, <1>6, <1>7, <3>2 DEF Sound, DoneAnnounced, IrqType
    <3> QED BY <3>1, <3>2
  <2> QED BY <1>6, <1>7, <2>3, <2>4, <2>5, <2>6, <2>7 DEF Sound
<1> QED BY <1>1, <1>2, <1>4, <1>5, <1>7

----------------------------------------------------------------------------
(* The invariant                                                            *)

(* Somebody is going to wake the queue, other than a sender that looks      *)
(* again.                                                                   *)
Coming ==
    \/ \E l \in Queues : irq[l].pc = "wake" \/ \E q \in Queues : Reaping(l, q)
    \/ \E q \in Queues : tx_ioc[q] \/ \E i \in TxBds : bd[q][i] = "owned"

LEMMA WokenIs ==
    StoppedIsWoken <=>
       (stopped /\ ~crossed => Coming \/ \E s \in Senders : sender[s].pc = "recheck")
  BY DEF StoppedIsWoken, Coming

(* Where there is no space, something is in use: the engine has it, or an   *)
(* interrupt is due.                                                        *)
LEMMA NoSpace ==
    ASSUME RingType, Sound, NEW q \in Queues, NEW frags \in 0 .. MaxFrags, ~Space(q, frags)
    PROVE  Coming
<1> DEFINE a == ci[q]
           b == tail[q]
<1>1. a \in TxBds /\ b \in TxBds /\ RingOK(q) /\ DoneAnnounced(q)
  BY DEF Sound, RingType
<1>2. ASSUME NEW i \in TxBds, bd[q][i] # "free" PROVE Coming
  <2>1. bd[q][i] = "owned" \/ bd[q][i] = "done"
    BY <1>2 DEF RingType
  <2>2. CASE bd[q][i] = "owned"
    BY <2>2 DEF Coming
  <2>3. CASE bd[q][i] = "done"
    BY <1>1, <2>3 DEF DoneAnnounced, Coming
  <2> QED BY <2>1, <2>2, <2>3
<1>3. CASE a # b
  <2>1. a \in From(a, b)
    <3> HIDE DEF a, b
    <3> QED BY <1>1, <1>3, FromSucc
  <2> QED BY <1>1, <1>2, <2>1 DEF RingOK, InUseExact
<1>4. CASE a = b
  <2>1. (a - (b + 1)) % TxSize = TxSize - 1
    <3> HIDE DEF a, b
    <3> QED BY <1>1, <1>4, Room, Sizes DEF TxBds
  <2>2. (a - (b + 1)) % TxSize >= frags + 1
    <3> HIDE DEF a, b
    <3> QED BY <2>1, Sizes
  <2>3. bd[q][(b + frags) % TxSize] = "done"
    BY <2>2 DEF Space
  <2>4. (b + frags) % TxSize \in TxBds
    <3>1. frags \in 0 .. TxSize - 1
      BY Sizes
    <3> HIDE DEF b
    <3> QED BY <1>1, <3>1, Plus
  <2> QED BY <1>2, <2>3, <2>4
<1> QED BY <1>3, <1>4

(* The ring and the handlers stay as they are.                              *)
LEMMA SameRings ==
    ASSUME RingType, UNCHANGED <<txVars, tx_ioc, irq>>
    PROVE  RingType' /\ (Sound => Sound')
<1>1. UNCHANGED <<tail, ci, hw, bd, skb, misfreed, tx_ioc, irq>>
  BY DEF txVars
<1>2. RingType'
  BY <1>1 DEF RingType
<1>3. ASSUME Sound PROVE Sound'
  <2>1. Apart' /\ \A q \in Queues : Clears(q)' /\ FreedNow(q)'
    BY <1>1, <1>3 DEF Sound, Apart, Clears, FreedNow, Reaping
  <2>2. ASSUME NEW q \in Queues PROVE RingOK(q)' /\ DoneAnnounced(q)'
    BY <1>1, <1>3 DEF Sound, RingOK, InUseExact, OwnedLast, HeldInUse, DoneAnnounced, Reaping, From
  <2> QED BY <1>1, <1>3, <2>1, <2>2 DEF Sound
<1> QED BY <1>2, <1>3

(* What the engine has, and what is announced, is only added to.            *)
LEMMA StillComing ==
    ASSUME UNCHANGED <<tx_ioc, irq>>,
           \A q \in Queues, i \in TxBds : bd[q][i] = "owned" => bd'[q][i] = "owned"
    PROVE  Coming => Coming'
  BY DEF Coming, Reaping

LEMMA QuietCall ==
    /\ 0 \in Queues /\ Quiet \in Calls /\ QuietIrq \in Handlers
    /\ \A q \in Queues : [pc |-> "lock", queue |-> q, frags |-> 0] \in Calls
  BY Sizes DEF Quiet, QuietIrq, Handlers, Calls, Queues, TxBds

(* A sender goes on; the others stay where they are.                        *)
LEMMA SenderMoves ==
    ASSUME SendType, NEW s \in Senders, NEW call \in Calls, sender' = [sender EXCEPT ![s] = call],
           txlock' \in {Nobody, App, Poll}, messages' \in 0 .. MaxMessages
    PROVE  /\ SendType'
           /\ sender'[s] = call
           /\ \A r \in Senders : r # s => sender'[r] = sender[r]
  BY DEF SendType

LEMMA EndsKeeps ==
    ASSUME SendType, NEW s \in Senders, XmitEnds(s), UNCHANGED messages
    PROVE  SendType' /\ sender'[s] = Quiet /\ \A r \in Senders : r # s => sender'[r] = sender[r]
<1>1. txlock' \in {Nobody, App, Poll} /\ sender' = [sender EXCEPT ![s] = Quiet]
      /\ messages' \in 0 .. MaxMessages
  BY DEF XmitEnds, SendType
<1> QED BY <1>1, QuietCall, SenderMoves

(* The ring of q is written where there is space, or left as it is.         *)
LEMMA RingAfter ==
    ASSUME RingType, IrqType, NEW q \in Queues, NEW frags \in 0 .. MaxFrags,
           \/ Space(q, frags) /\ Write(q, frags)
           \/ UNCHANGED txVars,
           UNCHANGED <<tx_ioc, irqVars>>
    PROVE  RingType' /\ (Sound => Sound' /\ (Coming => Coming'))
<1>1. UNCHANGED <<tx_ioc, irq>>
  BY DEF irqVars
<1>2. CASE Space(q, frags) /\ Write(q, frags)
  BY <1>1, <1>2, WriteType, WriteKeeps, StillComing
<1>3. CASE UNCHANGED txVars
  <2>1. bd' = bd
    BY <1>3 DEF txVars
  <2> QED BY <1>1, <1>3, <2>1, SameRings, StillComing
<1> QED BY <1>2, <1>3

(* A first look at the ring, and what is written.                           *)
LEMMA AttemptKeeps ==
    ASSUME IInv, NEW s \in Senders, NEW q \in Queues, NEW frags \in 0 .. MaxFrags,
           sender[s].pc # "recheck", Attempt(s, q, frags),
           UNCHANGED <<messages, stopped, tx_ioc, irqVars>>
    PROVE  /\ RingType' /\ SendType' /\ StoppedIsWoken' /\ (~crossed' => Sound')
           /\ \A r \in Senders : r # s => sender'[r] = sender[r]
<1>1. RingType' /\ (Sound => Sound' /\ (Coming => Coming')) /\ crossed' = crossed
  <2>1. (Space(q, frags) /\ Write(q, frags)) \/ UNCHANGED txVars
    BY DEF Attempt
  <2>2. crossed' = crossed
    BY DEF irqVars
  <2> QED BY <2>1, <2>2, RingAfter DEF IInv
<1>2. /\ SendType'
      /\ \A r \in Senders : r # s => sender'[r] = sender[r]
  <2>1. PICK call \in Calls : sender' = [sender EXCEPT ![s] = call]
    BY QuietCall DEF Attempt, Calls
  <2>2. txlock' \in {Nobody, App, Poll} /\ messages' \in 0 .. MaxMessages
    BY DEF Attempt, IInv, SendType
  <2> QED BY <2>1, <2>2, SenderMoves DEF IInv
<1>3. StoppedIsWoken'
  <2> SUFFICES ASSUME stopped, ~crossed, ~Coming' PROVE \E r \in Senders : sender'[r].pc = "recheck"
    BY <1>1 DEF StoppedIsWoken, Coming
  <2>1. PICK r \in Senders : sender[r].pc = "recheck"
    BY <1>1, WokenIs DEF IInv
  <2> QED BY <1>2, <2>1
<1> QED BY <1>1, <1>2, <1>3 DEF IInv

(* One step of a sender.                                                    *)
LEMMA XmitKeeps ==
    ASSUME IInv, NEW s \in Senders, XmitStep(s)
    PROVE  /\ RingType' /\ IrqType' /\ SendType' /\ StoppedIsWoken' /\ (~crossed' => Sound')
           /\ sender[s].pc # "idle" /\ \A r \in Senders : r # s => sender'[r] = sender[r]
           /\ UNCHANGED <<rxVars, traffic>>
<1>1. /\ sender[s] \in Calls /\ sender[s].queue \in Queues /\ sender[s].frags \in 0 .. MaxFrags
      /\ RingType /\ IrqType /\ SendType /\ StoppedIsWoken /\ (~crossed => Sound)
  BY DEF IInv, SendType, Calls
<1>2. CASE XmitDirect(s)
  <2>1. /\ sender[s].pc = "lock" /\ Attempt(s, sender[s].queue, sender[s].frags)
        /\ UNCHANGED <<messages, stopped, tx_ioc, irqVars, rxVars, traffic>>
    BY <1>2 DEF XmitDirect
  <2> QED BY <1>1, <2>1, AttemptKeeps DEF IrqType, irqVars
<1>3. CASE XmitStop(s)
  <2>1. /\ sender[s].pc = "full"
        /\ UNCHANGED <<txVars, messages, tx_ioc, irqVars, rxVars, traffic>>
        /\ UNCHANGED <<irq, crossed>>
    BY <1>3 DEF XmitStop, irqVars
  <2>2. RingType' /\ (~crossed' => Sound' /\ (Coming => Coming'))
    BY <1>1, <2>1, RingAfter
  <2>3. CASE stopped /\ XmitEnds(s) /\ UNCHANGED stopped
    <3>1. SendType' /\ \A r \in Senders : r # s => sender'[r] = sender[r]
      BY <1>1, <2>1, <2>3, EndsKeeps
    <3>2. StoppedIsWoken'
      <4> SUFFICES ASSUME stopped, ~crossed, ~Coming' PROVE \E r \in Senders : sender'[r].pc = "recheck"
        BY <2>1, <2>3 DEF StoppedIsWoken, Coming
      <4>1. PICK r \in Senders : sender[r].pc = "recheck"
        BY <1>1, <2>1, <2>2, WokenIs
      <4> QED BY <2>1, <3>1, <4>1
    <3> QED BY <1>1, <2>1, <2>2, <2>3, <3>1, <3>2 DEF IrqType
  <2>4. CASE stopped' = TRUE /\ sender' = [sender EXCEPT ![s].pc = "recheck"] /\ UNCHANGED txlock
    <3>1. [sender[s] EXCEPT !.pc = "recheck"] \in Calls
      BY <1>1 DEF Calls
    <3>2. sender' = [sender EXCEPT ![s] = [sender[s] EXCEPT !.pc = "recheck"]]
      BY <2>4
    <3>3. txlock' \in {Nobody, App, Poll} /\ messages' \in 0 .. MaxMessages
      BY <1>1, <2>1, <2>4 DEF SendType
    <3>4. /\ SendType' /\ sender'[s] = [sender[s] EXCEPT !.pc = "recheck"]
          /\ \A r \in Senders : r # s => sender'[r] = sender[r]
      BY <1>1, <3>1, <3>2, <3>3, SenderMoves
    <3>5. StoppedIsWoken'
      BY <1>1, <3>4 DEF StoppedIsWoken, Calls
    <3> QED BY <1>1, <2>1, <2>2, <2>4, <3>4, <3>5 DEF IrqType
  <2> QED BY <1>3, <2>3, <2>4 DEF XmitStop
<1>4. CASE XmitRecheck(s)
  <2> DEFINE q == sender[s].queue
             frags == sender[s].frags
  <2>1. /\ sender[s].pc = "recheck" /\ XmitEnds(s)
        /\ UNCHANGED <<messages, tx_ioc, irqVars, rxVars, traffic>>
        /\ UNCHANGED <<irq, crossed>>
    BY <1>4 DEF XmitRecheck, irqVars
  <2>2. SendType' /\ \A r \in Senders : r # s => sender'[r] = sender[r]
    BY <1>1, <2>1, EndsKeeps
  <2>3. CASE Space(q, frags)
    <3>1. stopped' = FALSE /\ Write(q, frags)
      BY <1>4, <2>3 DEF XmitRecheck
    <3>2. RingType' /\ (~crossed' => Sound')
      BY <1>1, <2>1, <2>3, <3>1, RingAfter
    <3> QED BY <1>1, <2>1, <2>2, <3>1, <3>2 DEF IrqType, StoppedIsWoken
  <2>4. CASE ~Space(q, frags)
    <3>1. UNCHANGED <<stopped, txVars>>
      BY <1>4, <2>4 DEF XmitRecheck
    <3>2. RingType' /\ (~crossed' => Sound' /\ (Coming => Coming'))
      BY <1>1, <2>1, <3>1, RingAfter
    <3>3. ~crossed => Coming
      BY <1>1, <2>4, NoSpace
    <3>4. StoppedIsWoken'
      BY <2>1, <3>2, <3>3 DEF StoppedIsWoken, Coming
    <3> QED BY <1>1, <2>1, <2>2, <3>1, <3>2, <3>4 DEF IrqType
  <2> QED BY <2>3, <2>4
<1> QED BY <1>2, <1>3, <1>4 DEF XmitStep

(* One step of a handler of the transmit interrupts.                        *)
LEMMA IrqKeeps ==
    ASSUME IInv, NEW l \in Queues, IrqStep(l)
    PROVE  /\ RingType' /\ IrqType' /\ StoppedIsWoken' /\ (~crossed' => Sound')
           /\ UNCHANGED <<sendVars, rxVars, traffic>>
<1>1. RingType /\ IrqType /\ StoppedIsWoken /\ (~crossed => Sound)
  BY DEF IInv
<1>2. irq[l] \in Handlers
  BY <1>1 DEF IrqType
<1>3. ASSUME NEW h \in Handlers, irq' = [irq EXCEPT ![l] = h], h.pc \notin {"look", "clear"},
             irq[l].pc \notin {"look", "clear"}, UNCHANGED <<txVars, tx_ioc, crossed>>,
             stopped' \in BOOLEAN
      PROVE  RingType' /\ IrqType' /\ (~crossed' => Sound')
  <2>1. RingType' /\ (~crossed' => Sound')
    BY <1>1, <1>3, QuietMoves DEF RingType, txVars
  <2>2. irq' \in [Queues -> Handlers]
    BY <1>1, <1>3, HandlerMoves
  <2> QED BY <1>1, <1>3, <2>1, <2>2 DEF IrqType
<1>4. ASSUME NEW h \in Handlers, irq' = [irq EXCEPT ![l] = h],
             irq[l].pc \notin {"look", "clear", "wake"},
             UNCHANGED <<irqLeaves, tx_ioc, crossed>>
      PROVE  StoppedIsWoken'
  <2>1. \A m \in Queues : m # l => irq'[m] = irq[m]
    BY <1>1, <1>4, HandlerMoves
  <2>2. bd' = bd /\ sender' = sender /\ stopped' = stopped
    BY <1>4 DEF irqLeaves, txVars, sendVars
  <2>3. Coming => Coming'
    BY <1>4, <2>1, <2>2 DEF Coming, Reaping
  <2> QED BY <1>1, <1>4, <2>2, <2>3, WokenIs DEF StoppedIsWoken, Coming
<1>5. CASE IrqEnter(l)
  <2>1. /\ irq' = [irq EXCEPT ![l] = [irq[l] EXCEPT !.pc = "select"]]
        /\ irq[l].pc = "idle" /\ UNCHANGED <<irqLeaves, tx_ioc, crossed>>
    BY <1>5 DEF IrqEnter, IrqAt
  <2>2. [irq[l] EXCEPT !.pc = "select"] \in Handlers
    BY <1>2 DEF Handlers
  <2>3. UNCHANGED <<txVars, stopped, sendVars, rxVars, traffic>>
    BY <2>1 DEF irqLeaves
  <2>4. [irq[l] EXCEPT !.pc = "select"].pc = "select"
    BY <1>2 DEF Handlers
  <2>5. stopped' \in BOOLEAN
    BY <1>1, <2>3 DEF IrqType
  <2> QED BY <1>3, <1>4, <2>1, <2>2, <2>3, <2>4, <2>5
<1>6. CASE IrqSelect(l)
  <2>1. irq[l].pc = "select" /\ UNCHANGED <<irqLeaves, tx_ioc, crossed>>
    BY <1>6 DEF IrqSelect
  <2>2. PICK h \in Handlers : irq' = [irq EXCEPT ![l] = h] /\ h.pc \in {"idle", "ack"}
    <3>1. CASE irq' = [irq EXCEPT ![l] = QuietIrq]
      <4>1. QuietIrq.pc = "idle"
        BY DEF QuietIrq
      <4> QED BY <3>1, <4>1, QuietCall
    <3>2. CASE \E q \in Queues : irq' = [irq EXCEPT ![l] = [pc |-> "ack", queue |-> q, at |-> 0]]
      <4>1. PICK q \in Queues : irq' = [irq EXCEPT ![l] = [pc |-> "ack", queue |-> q, at |-> 0]]
        BY <3>2
      <4>2. [pc |-> "ack", queue |-> q, at |-> 0] \in Handlers
        BY Sizes DEF Handlers, TxBds
      <4> QED BY <4>1, <4>2
    <3> QED BY <1>6, <3>1, <3>2 DEF IrqSelect
  <2>3. UNCHANGED <<txVars, stopped, sendVars, rxVars, traffic>>
    BY <2>1 DEF irqLeaves
  <2>4. stopped' \in BOOLEAN
    BY <1>1, <2>3 DEF IrqType
  <2> QED BY <1>3, <1>4, <2>1, <2>2, <2>3, <2>4
<1>7. CASE IrqAck(l)
  <2>1. UNCHANGED <<stopped, sendVars, rxVars, traffic>>
    BY <1>7 DEF IrqAck, irqLeaves
  <2>2. /\ RingType' /\ IrqType' /\ (Sound /\ ~crossed' => Sound')
        /\ (crossed => crossed') /\ \E q \in Queues : Reaping(l, q)'
    BY <1>1, <1>7, AckKeeps
  <2>3. StoppedIsWoken'
    BY <2>2 DEF StoppedIsWoken
  <2> QED BY <1>1, <2>1, <2>2, <2>3
<1>8. CASE ReapBd(l)
  <2>1. UNCHANGED <<stopped, sendVars, rxVars, traffic, crossed>>
    BY <1>8 DEF ReapBd
  <2>2. RingType' /\ IrqType' /\ (Sound => Sound')
    BY <1>1, <1>8, ReapBdKeeps
  <2>3. StoppedIsWoken'
    <3>1. irq' = [irq EXCEPT ![l] = [pc |-> "clear", queue |-> irq[l].queue, at |-> ci[irq[l].queue]]]
      BY <1>8 DEF ReapBd
    <3>2. irq'[l].pc = "clear" /\ irq'[l].queue = irq[l].queue /\ irq[l].queue \in Queues
      BY <1>1, <1>2, <3>1 DEF IrqType, Handlers
    <3> QED BY <3>2 DEF StoppedIsWoken, Reaping
  <2> QED BY <1>1, <2>1, <2>2, <2>3
<1>9. CASE ReapClear(l)
  <2>1. UNCHANGED <<stopped, sendVars, rxVars, traffic, crossed>>
    BY <1>9 DEF ReapClear
  <2>2. RingType' /\ IrqType' /\ (Sound => Sound')
    BY <1>1, <1>9, ReapClearKeeps
  <2>3. StoppedIsWoken'
    <3>1. irq' = [irq EXCEPT ![l] = [irq[l] EXCEPT !.pc = "look"]]
      BY <1>9 DEF ReapClear, IrqAt
    <3>2. irq'[l].pc = "look" /\ irq'[l].queue = irq[l].queue /\ irq[l].queue \in Queues
      BY <1>1, <1>2, <3>1 DEF IrqType, Handlers
    <3> QED BY <3>2 DEF StoppedIsWoken, Reaping
  <2> QED BY <1>1, <2>1, <2>2, <2>3
<1>10. CASE ReapEnd(l)
  <2>1. UNCHANGED <<stopped, sendVars, rxVars, traffic, crossed>>
    BY <1>10 DEF ReapEnd, irqLeaves
  <2>2. RingType' /\ IrqType' /\ (Sound => Sound') /\ irq'[l].pc = "wake"
    BY <1>1, <1>10, ReapEndKeeps
  <2>3. StoppedIsWoken'
    BY <2>2 DEF StoppedIsWoken
  <2> QED BY <1>1, <2>1, <2>2, <2>3
<1>11. CASE IrqWake(l)
  <2>1. /\ irq[l].pc = "wake" /\ stopped' = FALSE /\ irq' = [irq EXCEPT ![l] = QuietIrq]
        /\ UNCHANGED <<txVars, tx_ioc, crossed, sendVars, rxVars, traffic>>
    BY <1>11 DEF IrqWake
  <2>2. QuietIrq.pc = "idle" /\ QuietIrq \in Handlers
    BY QuietCall DEF QuietIrq
  <2>3. RingType' /\ IrqType' /\ (~crossed' => Sound')
    BY <1>3, <2>1, <2>2
  <2>4. StoppedIsWoken'
    BY <2>1 DEF StoppedIsWoken
  <2> QED BY <2>1, <2>3, <2>4
<1> QED BY <1>5, <1>6, <1>7, <1>8, <1>9, <1>10, <1>11 DEF IrqStep

(* What leaves the transmit rings alone, and moves no sender but one that   *)
(* was idle.                                                                *)
LEMMA OthersKeep ==
    ASSUME IInv, UNCHANGED otherVars, SendType', PollType', RelayWaits',
           \A s \in Senders : sender[s].pc = "recheck" => sender'[s].pc = "recheck"
    PROVE  IInv'
<1>1. UNCHANGED txVars /\ UNCHANGED <<stopped, tx_ioc, irq, crossed>>
  BY DEF otherVars, irqVars
<1>2. bd' = bd
  BY <1>1 DEF txVars
<1>3. RingType' /\ (~crossed' => Sound') /\ (Coming => Coming')
  BY <1>1, <1>2, SameRings, StillComing DEF IInv
<1>4. StoppedIsWoken'
  BY <1>1, <1>3, WokenIs DEF IInv, StoppedIsWoken, Coming
<1>5. IrqType'
  BY <1>1 DEF IInv, IrqType
<1> QED BY <1>3, <1>4, <1>5 DEF IInv

(* One step of the receive side.                                            *)
LEMMA ReceiveType ==
    ASSUME PollType, EngineReceives \/ RxIrq \/ PollStep
    PROVE  PollType'
<1> USE Sizes
<1>1. CASE EngineReceives
  <2>1. (rx_hw + 1) % RxSize \in RxBds
    BY DEF PollType, RxBds
  <2> QED BY <1>1, <2>1 DEF PollType, EngineReceives
<1>2. CASE RxIrq
  BY <1>2 DEF PollType, RxIrq
<1>3. ASSUME NEW pc, Receive(pc), pc \in {"recv", "relay"} PROVE PollType'
  <2>1. (rx_ci + 1) % RxSize \in RxBds
    BY DEF PollType, RxBds
  <2>2. poll.work + 1 \in 0 .. Quota
    BY <1>3 DEF PollType, Receive, MayReceive
  <2> QED BY <1>3, <2>1, <2>2 DEF PollType, Receive
<1>4. ASSUME NEW work \in 0 .. Quota, PollStatus(work) PROVE PollType'
  <2>1. rx_ioc' \in BOOLEAN
    BY <1>4 DEF PollStatus, PollType
  <2>2. poll' \in [pc : {"idle", "status", "recv", "relay", "end", "unmask"}, work : 0 .. Quota]
    BY <1>4 DEF PollStatus
  <2>3. UNCHANGED <<rx_bd, rx_ci, rx_hw, masked, napi, failures, left, traffic>>
    BY <1>4 DEF PollStatus
  <2> QED BY <2>1, <2>2, <2>3 DEF PollType
<1>5. CASE RecvDone
  BY <1>5 DEF PollType, RecvDone, RecvEnds, PollAt
<1>6. CASE RecvNoMemory
  <2>1. failures - 1 \in 0 .. MaxFailures
    BY <1>6 DEF PollType, RecvNoMemory
  <2> QED BY <1>6, <2>1 DEF PollType, RecvNoMemory, RecvEnds, PollAt
<1>7. CASE Relayed
  BY <1>7 DEF PollType, Relayed, PollAt
<1>8. CASE RecvStep
  <2>1. CASE RecvUp
    BY <1>3, <2>1 DEF RecvUp
  <2>2. ASSUME NEW q \in Queues, RecvCounter(q) PROVE PollType'
    BY <1>3, <2>2 DEF RecvCounter
  <2> QED BY <1>5, <1>6, <1>7, <1>8, <2>1, <2>2 DEF RecvStep
<1>9. CASE PollEnd
  <2>1. CASE poll.work < Quota
    BY <1>9, <2>1 DEF PollType, PollEnd, PollAt
  <2>2. CASE ~(poll.work < Quota)
    BY <1>9, <2>2 DEF PollType, PollEnd
  <2> QED BY <2>1, <2>2
<1>10. CASE PollUnmask
  <2>1. poll' = [pc |-> "idle", work |-> 0]
        /\ masked' = FALSE /\ UNCHANGED <<rx_bd, rx_ci, rx_hw, rx_ioc, napi, failures, left, traffic>>
    BY <1>10 DEF PollUnmask
  <2>2. poll' \in [pc : {"idle", "status", "recv", "relay", "end", "unmask"}, work : 0 .. Quota]
    BY <2>1
  <2> QED BY <2>1, <2>2 DEF PollType
<1>11. CASE PollStart
  BY <1>4, <1>11 DEF PollStart
<1>12. CASE PollAgain
  BY <1>4, <1>12 DEF PollType, PollAgain
<1> QED BY <1>1, <1>2, <1>8, <1>9, <1>10, <1>11, <1>12 DEF PollStep

LEMMA PollIsSender == Poll \in Senders /\ Poll # App /\ \A q \in Queues : Poll # Stack(q)
  BY DEF Poll, App, Stack, Senders

(* The receive side leaves the transmit side alone, unless it sends a       *)
(* packet back ...                                                          *)
LEMMA ReceiveLeaves ==
    ASSUME EngineReceives \/ RxIrq \/ PollStep, ~\E q \in Queues : RecvCounter(q)
    PROVE  UNCHANGED <<otherVars, sendVars>>
<1>1. CASE EngineReceives
  BY <1>1 DEF EngineReceives
<1>2. CASE RxIrq
  BY <1>2 DEF RxIrq
<1>3. CASE PollStart \/ PollAgain
  BY <1>3 DEF PollStart, PollAgain, PollStatus
<1>4. CASE RecvUp
  BY <1>4 DEF RecvUp, Receive, sendVars
<1>5. CASE Relayed
  BY <1>5 DEF Relayed
<1>6. CASE RecvDone
  BY <1>6 DEF RecvDone, RecvEnds
<1>7. CASE RecvNoMemory
  BY <1>7 DEF RecvNoMemory, RecvEnds
<1>8. CASE PollEnd
  BY <1>8 DEF PollEnd
<1>9. CASE PollUnmask
  BY <1>9 DEF PollUnmask
<1> QED BY <1>1, <1>2, <1>3, <1>4, <1>5, <1>6, <1>7, <1>8, <1>9 DEF PollStep, RecvStep

(* ... for which it waits.                                                  *)
LEMMA ReceiveRelays ==
    ASSUME RelayWaits, EngineReceives \/ RxIrq \/ PollStep, ~\E q \in Queues : RecvCounter(q)
    PROVE  RelayWaits'
<1>1. sender' = sender
  BY ReceiveLeaves DEF sendVars
<1>2. SUFFICES ASSUME poll.pc = "relay" PROVE poll' = poll \/ sender[Poll].pc = "idle"
  BY <1>1 DEF RelayWaits
<1>3. CASE EngineReceives
  BY <1>3 DEF EngineReceives
<1>4. CASE RxIrq
  BY <1>4 DEF RxIrq
<1>5. CASE Relayed
  BY <1>5 DEF Relayed
<1>6. ~PollStart /\ ~PollAgain /\ ~PollEnd /\ ~PollUnmask
  BY <1>2 DEF PollStart, PollAgain, PollEnd, PollUnmask
<1>7. ~RecvUp /\ ~RecvDone /\ ~RecvNoMemory
  BY <1>2 DEF RecvUp, Receive, RecvDone, RecvNoMemory, MayReceive
<1> QED BY <1>3, <1>4, <1>5, <1>6, <1>7 DEF PollStep, RecvStep

LEMMA IInvInit == Init => IInv
<1> SUFFICES ASSUME Init PROVE IInv
  OBVIOUS
<1> USE Sizes DEF Init
<1>1. RingType
  <2>1. 0 \in TxBds
    BY DEF TxBds
  <2> QED BY <2>1 DEF RingType
<1>2. IrqType /\ StoppedIsWoken
  BY QuietCall DEF IrqType, StoppedIsWoken
<1>3. SendType
  BY QuietCall DEF SendType
<1>4. PollType
  <2>1. poll \in [pc : {"idle", "status", "recv", "relay", "end", "unmask"}, work : 0 .. Quota]
    OBVIOUS
  <2>2. rx_bd \in [RxBds -> {"posted", "hw", "done"}] /\ rx_ci \in RxBds /\ rx_hw \in RxBds
    BY DEF RxBds
  <2>3. failures \in 0 .. MaxFailures /\ traffic \in Traffics
    OBVIOUS
  <2>4. rx_ioc \in BOOLEAN /\ masked \in BOOLEAN /\ napi \in BOOLEAN /\ left \in BOOLEAN
    OBVIOUS
  <2> QED BY ONLY <2>1, <2>2, <2>3, <2>4 DEF PollType
<1>6. RelayWaits
  BY PollIsSender DEF RelayWaits, Quiet
<1>5. Sound
  <2>1. \A l, q \in Queues : ~Reaping(l, q)
    BY DEF Reaping, QuietIrq
  <2>2. Apart /\ \A q \in Queues : Clears(q) /\ FreedNow(q)
    BY <2>1 DEF Apart, Clears, FreedNow, QuietIrq
  <2>3. ASSUME NEW q \in Queues PROVE RingOK(q) /\ DoneAnnounced(q)
    <3>1. From(ci[q], tail[q]) = {} /\ From(hw[q], tail[q]) = {}
      BY DEF From, TxBds
    <3> QED BY <3>1 DEF RingOK, InUseExact, OwnedLast, HeldInUse, DoneAnnounced
  <2> QED BY <2>2, <2>3 DEF Sound
<1> QED BY <1>1, <1>2, <1>3, <1>4, <1>5, <1>6 DEF IInv

LEMMA IInvNext == IInv /\ [Next]_vars => IInv'
<1> SUFFICES ASSUME IInv, [Next]_vars PROVE IInv'
  OBVIOUS
<1>1. ASSUME NEW q \in Queues, EngineSends(q) PROVE IInv'
  <2>1. /\ tx_ioc' = [tx_ioc EXCEPT ![q] = TRUE]
        /\ UNCHANGED <<stopped, sendVars, irq, crossed, rxVars, traffic>>
    BY <1>1 DEF EngineSends, irqVars
  <2>2. RingType' /\ (~crossed' => Sound')
    BY <1>1, <2>1, EngineType, EngineKeeps DEF IInv
  <2>3. IrqType' /\ tx_ioc'[q] = TRUE
    BY <2>1 DEF IInv, IrqType
  <2>4. StoppedIsWoken' /\ SendType' /\ PollType' /\ RelayWaits'
    BY <2>1, <2>3 DEF IInv, StoppedIsWoken, SendType, PollType, RelayWaits, sendVars, rxVars
  <2> QED BY <2>2, <2>3, <2>4 DEF IInv
<1>2. ASSUME NEW q \in Queues, AppSends(q) PROVE IInv'
  <2>1. /\ sender[App].pc = "idle"
        /\ sender' = [sender EXCEPT ![App] = [pc |-> "lock", queue |-> q, frags |-> 0]]
        /\ UNCHANGED <<otherVars, txlock, rxVars, traffic>>
    BY <1>2 DEF AppSends
  <2>2. App \in Senders
    BY DEF Senders
  <2>3. SendType' /\ \A r \in Senders : r # App => sender'[r] = sender[r]
    <3>1. messages' \in 0 .. MaxMessages
      BY <1>2, Sizes DEF AppSends, SendType, IInv
    <3>2. txlock' \in {Nobody, App, Poll}
      BY <2>1 DEF SendType, IInv
    <3> QED BY <2>1, <2>2, <3>1, <3>2, QuietCall, SenderMoves DEF IInv
  <2>4. PollType'
    BY <2>1 DEF IInv, PollType, rxVars
  <2>5. RelayWaits'
    BY <2>1, <2>3, PollIsSender DEF IInv, RelayWaits, rxVars
  <2> QED BY <2>1, <2>3, <2>4, <2>5, OthersKeep
<1>3. ASSUME NEW q \in Queues, NEW frags \in 0 .. MaxFrags, XmitStack(q, frags) PROVE IInv'
  <2>1. /\ sender[Stack(q)].pc # "recheck" /\ Attempt(Stack(q), q, frags)
        /\ UNCHANGED <<messages, stopped, tx_ioc, irqVars, rxVars, traffic>>
    BY <1>3 DEF XmitStack
  <2>2. Stack(q) \in Senders
    BY DEF Senders
  <2>3. /\ RingType' /\ SendType' /\ StoppedIsWoken' /\ (~crossed' => Sound')
        /\ \A r \in Senders : r # Stack(q) => sender'[r] = sender[r]
    BY <2>1, <2>2, AttemptKeeps
  <2>4. IrqType' /\ PollType'
    BY <2>1 DEF IInv, IrqType, PollType, rxVars, irqVars
  <2>5. RelayWaits'
    BY <2>1, <2>3, PollIsSender DEF IInv, RelayWaits, rxVars
  <2> QED BY <2>3, <2>4, <2>5 DEF IInv
<1>4. ASSUME NEW s \in Senders, XmitStep(s) PROVE IInv'
  <2>1. PollType'
    BY <1>4, XmitKeeps DEF IInv, PollType, rxVars
  <2>2. RelayWaits'
    BY <1>4, XmitKeeps, PollIsSender DEF IInv, RelayWaits, rxVars
  <2> QED BY <1>4, <2>1, <2>2, XmitKeeps DEF IInv
<1>5. ASSUME NEW l \in Queues, IrqStep(l) PROVE IInv'
  <2>1. PollType' /\ SendType' /\ RelayWaits'
    BY <1>5, IrqKeeps DEF IInv, PollType, SendType, RelayWaits, rxVars, sendVars
  <2> QED BY <1>5, <2>1, IrqKeeps DEF IInv
<1>6. CASE EngineReceives \/ RxIrq \/ PollStep
  <2>1. PollType'
    BY <1>6, ReceiveType DEF IInv
  <2>2. CASE \E q \in Queues : RecvCounter(q)
    <3>1. PICK q \in Queues : RecvCounter(q)
      BY <2>2
    <3>2. /\ poll.pc = "recv" /\ poll'.pc = "relay"
          /\ sender' = [sender EXCEPT ![Poll] = [pc |-> "lock", queue |-> q, frags |-> 0]]
          /\ UNCHANGED <<otherVars, txlock, messages>>
      BY <3>1 DEF RecvCounter, Receive, MayReceive
    <3>3. SendType' /\ \A r \in Senders : r # Poll => sender'[r] = sender[r]
      BY <3>2, PollIsSender, QuietCall, SenderMoves DEF IInv, SendType
    <3>4. sender[Poll].pc = "idle" /\ RelayWaits'
      BY <3>2 DEF IInv, RelayWaits
    <3> QED BY <2>1, <3>2, <3>3, <3>4, OthersKeep
  <2>3. CASE ~\E q \in Queues : RecvCounter(q)
    <3>1. UNCHANGED <<otherVars, sendVars>>
      BY <1>6, <2>3, ReceiveLeaves
    <3>2. RelayWaits'
      BY <1>6, <2>3, ReceiveRelays DEF IInv
    <3>3. SendType' /\ sender' = sender
      BY <3>1 DEF IInv, SendType, sendVars
    <3> QED BY <2>1, <3>1, <3>2, <3>3, OthersKeep
  <2> QED BY <2>2, <2>3
<1>7. CASE UNCHANGED vars
  <2>1. UNCHANGED otherVars /\ SendType' /\ PollType' /\ RelayWaits'
    BY <1>7 DEF IInv, SendType, PollType, RelayWaits, vars, otherVars, sendVars, rxVars
  <2>2. sender' = sender
    BY <1>7 DEF vars, sendVars
  <2> QED BY <2>1, <2>2, OthersKeep
<1> QED BY <1>1, <1>2, <1>3, <1>4, <1>5, <1>6, <1>7 DEF Next

(* Rings, interrupts and the flow control of the stack agree at all times:  *)
(* every step of the senders, the engine, the interrupt and the poll keeps  *)
(* the invariant.                                                           *)
THEOREM Inductive == Spec => []IInv
  BY IInvInit, IInvNext, PTL DEF Spec

(* Every variable of the model stays in its domain: no pointer leaves its   *)
(* ring, no queue or packet is mistaken for another.                        *)
THEOREM TypeCorrect == Spec => []TypeOK
<1>1. IInv => TypeOK
  BY DEF IInv, RingType, IrqType, Handlers, SendType, Calls, PollType, TypeOK
<1> QED BY <1>1, Inductive, PTL

(* However writing packets, completions and the reaping of them without the *)
(* lock are interleaved, by handlers on as many lines as there are queues   *)
(* and in rings of any size: until two handlers meet in one ring, exactly   *)
(* the descriptors from tx_bd_ci up to tx_bd_tail are in use and no packet  *)
(* is freed twice or forgotten (axienet_queue_xmit and                      *)
(* axienet_start_xmit_done).                                                *)
THEOREM RingsExact == Spec => []BdsExact
<1>1. IInv => BdsExact
  <2> SUFFICES ASSUME IInv, ~crossed, NEW q \in Queues
               PROVE  /\ ~misfreed
                      /\ {i \in TxBds : bd[q][i] # "free"} =
                            {(ci[q] + k) % TxSize : k \in 0 .. ((tail[q] - ci[q]) % TxSize) - 1}
    BY QuietCall DEF BdsExact
  <2>1. RingOK(q) /\ ~misfreed
    BY DEF IInv, Sound
  <2>2. {(ci[q] + k) % TxSize : k \in 0 .. ((tail[q] - ci[q]) % TxSize) - 1} = From(ci[q], tail[q])
    BY FromCounts DEF IInv, RingType
  <2>3. {i \in TxBds : bd[q][i] # "free"} = From(ci[q], tail[q])
    BY <2>1 DEF RingOK, InUseExact, From
  <2> QED BY <2>1, <2>2, <2>3
<1> QED BY <1>1, Inductive, PTL

(* The second look at the ring after queue 0 was stopped and the completion *)
(* that makes room do not miss each other, in rings of any size and with    *)
(* any number of queues that share the one flag, each with its interrupt:   *)
(* while it is stopped, and until two handlers meet in one ring, somebody   *)
(* is going to wake it (axienet_queue_xmit, xilinx_axienet_main.c).         *)
THEOREM NoLostStop == Spec => []StoppedIsWoken
<1>1. IInv => StoppedIsWoken
  BY DEF IInv
<1> QED BY <1>1, Inductive, PTL

(* What is done is announced: while a descriptor of the transmit ring waits *)
(* to be reaped, the status of its channel says so, or a handler that       *)
(* acknowledged it is still reaping, whichever line it came by              *)
(* (axienet_mcdma_tx_irq acknowledges before it reaps), until two handlers  *)
(* meet in one ring.                                                        *)
THEOREM CompletionsAnnounced == Spec => [](~crossed => \A q \in Queues : DoneAnnounced(q))
<1>1. IInv => (~crossed => \A q \in Queues : DoneAnnounced(q))
  BY DEF IInv, Sound
<1> QED BY <1>1, Inductive, PTL

=============================================================================
