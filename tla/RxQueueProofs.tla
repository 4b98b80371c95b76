-------------------------- MODULE RxQueueProofs --------------------------
(***************************************************************************)
(* Proofs about RxQueue: every reference to a page and every mapping is    *)
(* accounted for, no buffer is given to the NIC while somebody else uses   *)
(* it, and a queue that is up does not run dry unnoticed.                  *)
(*                                                                         *)
(* The poll applies operators from one queue to the next, in loops over    *)
(* buffers and pages.  So the account, Good, is stated of any queue in the *)
(* middle of an action: for which part of the ring buffers are in use, and *)
(* for which part they may keep their page mapped.  There is a lemma for   *)
(* each function of the driver, then one for each loop, by induction over  *)
(* the numbers up to its bound, then one for each action.                  *)
(***************************************************************************)
EXTENDS RxQueue, FiniteSetTheorems, WellFoundedInduction, TLAPS

---------------------------------------------------------------------------
(* Remainders                                                               *)

LEMMA ModIs ==
    ASSUME NEW n \in Nat, n # 0, NEW r \in 0 .. n - 1, NEW k \in Int
    PROVE  (k * n + r) % n = r
OBVIOUS

LEMMA ModSmall ==
    ASSUME NEW n \in Nat, n # 0, NEW a \in 0 .. n - 1
    PROVE  a % n = a
OBVIOUS

LEMMA ModDef ==
    ASSUME NEW n \in Nat, n # 0, NEW a \in Int
    PROVE  /\ a % n \in 0 .. n - 1
           /\ \E k \in Int : a = k * n + (a % n)
  <1>1. a = (a \div n) * n + (a % n) /\ (a % n) \in 0 .. n - 1 /\ a \div n \in Int
    OBVIOUS
  <1> QED  BY <1>1

(* Multiples of the modulus do not count.                                   *)
LEMMA ModSame ==
    ASSUME NEW n \in Nat, n # 0, NEW a \in Int, NEW k \in Int
    PROVE  (a + k * n) % n = a % n
  <1> DEFINE r == a % n
  <1>1. r \in 0 .. n - 1
    BY ModDef
  <1>2. PICK j \in Int : a = j * n + r
    BY ModDef
  <1> HIDE DEF r
  <1>3. a + k * n = (j + k) * n + r /\ j + k \in Int
    BY <1>1, <1>2
  <1>4. ((j + k) * n + r) % n = r
    BY <1>1, ModIs
  <1> QED  BY <1>3, <1>4 DEF r

LEMMA ModMod ==
    ASSUME NEW n \in Nat, n # 0, NEW m \in Nat, m # 0, m % n = 0, NEW a \in Int
    PROVE  (a % m) % n = a % n
  <1> DEFINE b == a % m
  <1>1. b \in Int
    BY ModDef
  <1>2. PICK j \in Int : a = j * m + b
    BY ModDef
  <1>3. PICK i \in Int : m = i * n + 0
    BY ModDef
  <1> HIDE DEF b
  <1>4. a = b + (j * i) * n /\ j * i \in Int
    BY <1>1, <1>2, <1>3
  <1>5. (b + (j * i) * n) % n = b % n
    BY <1>1, <1>4, ModSame
  <1> QED  BY <1>4, <1>5 DEF b

(* A sum or a difference may be taken of remainders.                        *)
LEMMA ModAdd ==
    ASSUME NEW n \in Nat, n # 0, NEW a \in Int, NEW b \in Int
    PROVE  /\ ((a % n) + b) % n = (a + b) % n
           /\ (b - (a % n)) % n = (b - a) % n
  <1> DEFINE c == a % n
  <1>1. c \in Int
    BY ModDef
  <1>2. PICK j \in Int : a = j * n + c
    BY ModDef
  <1> HIDE DEF c
  <1>3. a + b = (c + b) + j * n /\ b - c = (b - a) + j * n
    BY <1>1, <1>2
  <1> DEFINE s == c + b  d == b - a
  <1>4. s \in Int /\ d \in Int
    BY <1>1
  <1> HIDE DEF s, d
  <1>5. (s + j * n) % n = s % n /\ (d + j * n) % n = d % n
    BY <1>4, ModSame
  <1> QED  BY <1>3, <1>5 DEF c, s, d

(* Different numbers less than the modulus apart have different remainders. *)
LEMMA ModEqual ==
    ASSUME NEW n \in Nat, n # 0, NEW a \in Int, NEW b \in Int, a % n = b % n, a - b < n, b - a < n
    PROVE  a = b
  <1> DEFINE r == a % n
  <1>1. PICK j \in Int : a = j * n + r
    BY ModDef
  <1>2. PICK k \in Int : b = k * n + r
    BY ModDef
  <1>3. r \in Int
    BY ModDef
  <1> HIDE DEF r
  <1>4. a - b = (j - k) * n
    BY <1>1, <1>2, <1>3
  <1>5. CASE j - k >= 1
    <2>1. (j - k - 1) * n >= 0
      BY <1>5
    <2>2. (j - k) * n = (j - k - 1) * n + n
      OBVIOUS
    <2> QED  BY <2>1, <2>2, <1>4
  <1>6. CASE k - j >= 1
    <2>1. (k - j - 1) * n >= 0
      BY <1>6
    <2>2. (j - k) * n = 0 - ((k - j - 1) * n + n)
      OBVIOUS
    <2> QED  BY <2>1, <2>2, <1>4
  <1>7. CASE j = k
    BY <1>7, <1>4
  <1> QED  BY <1>5, <1>6, <1>7

LEMMA ModSub ==
    ASSUME NEW n \in Nat, n # 0, NEW a \in Int, NEW b \in Int, a % n >= b % n
    PROVE  (a - b) % n = (a % n) - (b % n)
  <1> DEFINE c == a % n  d == b % n
  <1>1. c \in 0 .. n - 1 /\ d \in 0 .. n - 1
    BY ModDef
  <1>2. (a - d) % n = (a - b) % n
    BY ModAdd
  <1>3. c >= d
    OBVIOUS
  <1>4. \A e \in Int : (c + e) % n = (a + e) % n
    BY ModAdd
  <1> HIDE DEF c, d
  <1>5. (c + (0 - d)) % n = (a + (0 - d)) % n
    BY <1>1, <1>4
  <1>6. c + (0 - d) = c - d /\ a + (0 - d) = a - d
    BY <1>1
  <1>7. c - d \in 0 .. n - 1
    BY <1>1, <1>3
  <1>8. (c - d) % n = c - d
    BY <1>7, ModSmall
  <1> QED  BY <1>2, <1>5, <1>6, <1>8 DEF c, d

---------------------------------------------------------------------------
(* Counts and slots                                                         *)

(* What the sizes are to each other.                                        *)
LEMMA Sizes ==
    /\ RingSize \in Nat /\ RingSize # 0
    /\ CountSpace \in Nat /\ CountSpace # 0 /\ CountSpace % RingSize = 0 /\ CountSpace >= RingSize
    /\ WriteUnit \in Nat /\ WriteUnit # 0 /\ CountSpace % WriteUnit = 0
    /\ PerPage \in Nat /\ PerPage >= 1 /\ PerBatch \in Nat /\ PerBatch >= 1
    /\ MaxFrags \in Nat /\ MaxFrags >= 1 /\ MaxFrags <= WriteUnit
    /\ BatchSize \in Nat /\ BatchSize >= PerPage /\ BatchSize >= WriteUnit
    /\ max_fill \in Nat /\ max_fill + MaxFrags + 1 <= RingSize
    /\ fast_fill_trigger \in Nat /\ fast_fill_trigger = max_fill - BatchSize
    /\ fast_fill_trigger >= WriteUnit + MaxFrags - 1
  <1>1. /\ PerPage \in Nat /\ PerPage >= 1 /\ PerBatch \in Nat /\ PerBatch >= 1
        /\ MaxFrags \in Nat /\ MaxFrags >= 1 /\ WriteUnit \in Nat /\ WriteUnit >= 1
    BY SizesPos
  <1>2. BatchSize \in Nat /\ BatchSize >= PerPage
    <2>1. (PerBatch - 1) * PerPage >= 0
      BY <1>1
    <2>2. PerBatch * PerPage = (PerBatch - 1) * PerPage + PerPage
      BY <1>1
    <2> QED  BY <1>1, <2>1, <2>2 DEF BatchSize
  <1>3. BatchSize >= WriteUnit
    <2> DEFINE b == BatchSize
    <2>1. b \in Nat /\ b >= 1 /\ b % WriteUnit = 0
      BY <1>1, <1>2, BatchesFit DEF BatchSize
    <2> HIDE DEF b
    <2> SUFFICES ASSUME b < WriteUnit  PROVE FALSE
      BY <2>1, <1>1 DEF b
    <2>2. b % WriteUnit = b
      BY <2>1, <1>1, ModSmall
    <2> QED  BY <2>1, <2>2
  <1>4. /\ Entries \in Nat /\ RingSize \in Nat /\ Entries <= RingSize
        /\ max_fill = Entries - (1 + MaxFrags) /\ fast_fill_trigger = max_fill - BatchSize
        /\ MaxFrags <= WriteUnit /\ fast_fill_trigger >= WriteUnit + MaxFrags - 1
    BY RingFits, TriggerFits DEF max_fill, fast_fill_trigger
  <1>5. /\ max_fill \in Nat /\ max_fill + MaxFrags + 1 <= RingSize /\ RingSize # 0
        /\ fast_fill_trigger \in Nat
    BY <1>1, <1>2, <1>4
  <1>6. /\ CountSpace \in Nat /\ CountSpace # 0 /\ CountSpace % RingSize = 0
        /\ CountSpace % WriteUnit = 0
    BY CountsWrap
  <1>7. CountSpace >= RingSize
    <2> SUFFICES ASSUME CountSpace < RingSize  PROVE FALSE
      BY <1>4, <1>6
    <2>1. CountSpace \in 0 .. RingSize - 1
      BY <1>4, <1>6
    <2>2. CountSpace % RingSize = CountSpace
      BY <1>4, <1>5, <2>1, ModSmall
    <2> QED  BY <2>2, <1>6
  <1> QED  BY <1>1, <1>2, <1>3, <1>4, <1>5, <1>6, <1>7

LEMMA CountRange ==
    ASSUME NEW a \in Int
    PROVE  a % CountSpace \in Counts /\ Slot(a) \in Slots
  <1>1. a % CountSpace \in 0 .. CountSpace - 1
    BY Sizes, ModDef
  <1>2. RingSize \in Nat /\ RingSize # 0
    BY Sizes
  <1>3. a % RingSize \in 0 .. RingSize - 1
    BY <1>2, ModDef
  <1> QED  BY <1>1, <1>3 DEF Counts, Slots, Slot

LEMMA IncrRange ==
    ASSUME NEW c \in Counts, NEW n \in Int
    PROVE  Incr(c, n) \in Counts
BY CountRange, Sizes DEF Incr, Counts

(* A count leads to a slot before or after it is wrapped.                   *)
LEMMA SlotOfCount ==
    ASSUME NEW a \in Int, NEW k \in Int
    PROVE  Slot((a % CountSpace) + k) = Slot(a + k)
  <1> DEFINE b == a % CountSpace
  <1>0. RingSize \in Nat /\ RingSize # 0 /\ CountSpace \in Nat /\ CountSpace # 0
    BY Sizes
  <1>1. b \in Int /\ b % RingSize = a % RingSize
    <2>1. b \in Int
      BY <1>0, ModDef
    <2>2. CountSpace % RingSize = 0
      BY Sizes
    <2> QED  BY <2>1, <2>2, <1>0, ModMod
  <1> HIDE DEF b
  <1>2. (b + k) % RingSize = ((b % RingSize) + k) % RingSize
    BY <1>1, <1>0, ModAdd
  <1>3. (a + k) % RingSize = ((a % RingSize) + k) % RingSize
    BY <1>0, ModAdd
  <1> QED  BY <1>1, <1>2, <1>3 DEF Slot, b

LEMMA SlotIncr ==
    ASSUME NEW c \in Counts, NEW n \in Int
    PROVE  Slot(Incr(c, n)) = Slot(c + n)
  <1>1. c \in Int /\ c + n \in Int
    BY Sizes DEF Counts
  <1>2. (c + n) % CountSpace \in Int
    BY <1>1, Sizes, ModDef
  <1>3. Slot(((c + n) % CountSpace) + 0) = Slot((c + n) + 0)
    BY <1>1, SlotOfCount
  <1> QED  BY <1>1, <1>2, <1>3 DEF Incr

LEMMA BehindRange ==
    ASSUME NEW x \in Counts, NEW r \in Counts
    PROVE  /\ x \in Int /\ r \in Int
           /\ Behind(x, r) \in Int /\ Behind(x, r) >= 0 /\ Behind(x, r) < CountSpace
           /\ Behind(x, x) = 0
  <1>1. x \in Int /\ r \in Int /\ x - r \in Int
    BY Sizes DEF Counts
  <1>2. CountSpace \in Nat /\ CountSpace # 0
    BY Sizes
  <1>3. (x - r) % CountSpace \in 0 .. CountSpace - 1
    BY <1>1, <1>2, ModDef
  <1>4. 0 % CountSpace = 0 /\ x - x = 0
    BY <1>1, <1>2
  <1> QED  BY <1>1, <1>2, <1>3, <1>4 DEF Behind

LEMMA BehindOf ==
    ASSUME NEW x \in Counts, NEW r \in Counts
    PROVE  Incr(r, Behind(x, r)) = x
  <1>1. x \in Int /\ r \in Int /\ x - r \in Int /\ x \in 0 .. CountSpace - 1
    BY Sizes DEF Counts
  <1>2. CountSpace \in Nat /\ CountSpace # 0
    BY Sizes
  <1>3. (((x - r) % CountSpace) + r) % CountSpace = ((x - r) + r) % CountSpace
    BY <1>1, <1>2, ModAdd
  <1>4. (x - r) % CountSpace \in Int
    BY <1>1, <1>2, ModDef
  <1>5. (x - r) + r = x /\ ((x - r) % CountSpace) + r = r + ((x - r) % CountSpace)
    BY <1>1, <1>4
  <1>6. x % CountSpace = x
    BY <1>1, <1>2, ModSmall
  <1> QED  BY <1>3, <1>5, <1>6 DEF Behind, Incr

(* The first count moves on by one.                                         *)
LEMMA BehindNext ==
    ASSUME NEW x \in Counts, NEW r \in Counts, Behind(x, r) + 1 < CountSpace
    PROVE  Behind(Incr(x, 1), r) = Behind(x, r) + 1
  <1> DEFINE f == Behind(x, r)
  <1>1. x \in Int /\ r \in Int /\ x - r \in Int /\ x + 1 \in Int /\ x + 1 - r \in Int
    BY Sizes DEF Counts
  <1>2. CountSpace \in Nat /\ CountSpace # 0
    BY Sizes
  <1>3. f \in Int /\ f >= 0 /\ f + 1 < CountSpace
    BY BehindRange
  <1>4. (((x + 1) % CountSpace) + (0 - r)) % CountSpace = ((x + 1) + (0 - r)) % CountSpace
    <2> DEFINE a == x + 1  b == 0 - r
    <2>1. a \in Int /\ b \in Int
      BY <1>1
    <2> HIDE DEF a, b
    <2>2. ((a % CountSpace) + b) % CountSpace = (a + b) % CountSpace
      BY <2>1, <1>2, ModAdd
    <2> QED  BY <2>2 DEF a, b
  <1>5. (f + 1) % CountSpace = ((x - r) + 1) % CountSpace
    <2> DEFINE a == x - r  b == 1
    <2>1. a \in Int /\ b \in Int
      BY <1>1
    <2> HIDE DEF a, b
    <2>2. ((a % CountSpace) + b) % CountSpace = (a + b) % CountSpace
      BY <2>1, <1>2, ModAdd
    <2> QED  BY <2>2 DEF a, b, Behind
  <1>6. (x + 1) % CountSpace \in Int
    BY <1>1, <1>2, ModDef
  <1>7. ((x + 1) % CountSpace) + (0 - r) = ((x + 1) % CountSpace) - r /\ (x + 1) + (0 - r) = (x - r) + 1
    BY <1>1, <1>6
  <1>8. (f + 1) % CountSpace = f + 1
    BY <1>2, <1>3, ModSmall
  <1> QED  BY <1>4, <1>5, <1>7, <1>8 DEF Behind, Incr

(* The second count moves on, not beyond the first.                         *)
LEMMA BehindMoved ==
    ASSUME NEW x \in Counts, NEW r \in Counts, NEW n \in 0 .. Behind(x, r)
    PROVE  Behind(x, Incr(r, n)) = Behind(x, r) - n
  <1> DEFINE f == Behind(x, r)
  <1>1. x \in Int /\ r \in Int /\ f \in Int /\ f < CountSpace /\ n \in Int /\ n >= 0 /\ n <= f
    BY BehindRange
  <1>2. CountSpace \in Nat /\ CountSpace # 0
    BY Sizes
  <1>3. (x - ((r + n) % CountSpace)) % CountSpace = (x - (r + n)) % CountSpace
    <2> DEFINE a == r + n
    <2>1. a \in Int
      BY <1>1
    <2> HIDE DEF a
    <2>2. (x - (a % CountSpace)) % CountSpace = (x - a) % CountSpace
      BY <2>1, <1>1, <1>2, ModAdd
    <2> QED  BY <2>2 DEF a
  <1>4. (((x - r) % CountSpace) + (0 - n)) % CountSpace = ((x - r) + (0 - n)) % CountSpace
    <2> DEFINE a == x - r  b == 0 - n
    <2>1. a \in Int /\ b \in Int
      BY <1>1
    <2> HIDE DEF a, b
    <2>2. ((a % CountSpace) + b) % CountSpace = (a + b) % CountSpace
      BY <2>1, <1>2, ModAdd
    <2> QED  BY <2>2 DEF a, b
  <1>5. ((x - r) % CountSpace) + (0 - n) = f - n /\ (x - r) + (0 - n) = x - (r + n)
    BY <1>1 DEF Behind
  <1>6. (f - n) % CountSpace = f - n
    BY <1>1, <1>2, ModSmall
  <1> QED  BY <1>3, <1>4, <1>5, <1>6 DEF Behind, Incr

(* Of two counts ahead of r, the first the farther.                         *)
LEMMA BehindBetween ==
    ASSUME NEW x \in Counts, NEW y \in Counts, NEW r \in Counts, Behind(y, r) <= Behind(x, r)
    PROVE  Behind(x, y) = Behind(x, r) - Behind(y, r)
  <1>1. x \in Int /\ y \in Int /\ r \in Int /\ x - r \in Int /\ y - r \in Int
    BY Sizes DEF Counts
  <1>2. CountSpace \in Nat /\ CountSpace # 0
    BY Sizes
  <1>3. (x - r) % CountSpace >= (y - r) % CountSpace
    BY BehindRange DEF Behind
  <1>4. ((x - r) - (y - r)) % CountSpace = ((x - r) % CountSpace) - ((y - r) % CountSpace)
    BY <1>1, <1>2, <1>3, ModSub
  <1>5. (x - r) - (y - r) = x - y
    BY <1>1
  <1> QED  BY <1>4, <1>5 DEF Behind

LEMMA SlotEqual ==
    ASSUME NEW a \in Int, NEW b \in Int, Slot(a) = Slot(b), a - b < RingSize, b - a < RingSize
    PROVE  a = b
BY Sizes, ModEqual DEF Slot

---------------------------------------------------------------------------
(* Loops                                                                    *)

LEMMA LeastNat == \A T \in SUBSET Nat : T # {} => \E x \in T : \A y \in T : x <= y
  <1> SUFFICES ASSUME NEW T \in SUBSET Nat, T # {}  PROVE \E x \in T : \A y \in T : x <= y
    OBVIOUS
  <1> DEFINE R == {s \in Nat \X Nat : s[1] < s[2]}
  <1>1. IsWellFoundedOn(R, Nat)
    BY NatLessThanWellFounded DEF OpToRel
  <1>2. \A x \in Nat, y \in Nat : y < x => <<y, x>> \in R
    OBVIOUS
  <1> HIDE DEF R
  <1>3. PICK x \in T : \A y \in T : ~ (<<y, x>> \in R)
    BY <1>1, WFMin
  <1>4. \A y \in T : x <= y
    <2> TAKE y \in T
    <2>1. x \in Nat /\ y \in Nat
      OBVIOUS
    <2>2. ~(y < x)
      BY <1>2, <1>3, <2>1
    <2> QED  BY <2>1, <2>2
  <1> QED  BY <1>4

(* Induction, for sets.                                                     *)
LEMMA NatSet ==
    ASSUME NEW S, 0 \in S, \A n \in Nat : n \in S => n + 1 \in S
    PROVE  \A n \in Nat : n \in S
  <1> DEFINE T == Nat \ S
  <1> SUFFICES ASSUME T # {}  PROVE FALSE
    OBVIOUS
  <1>1. PICK x \in T : \A y \in T : x <= y
    BY LeastNat
  <1>2. x \in Nat /\ x # 0
    OBVIOUS
  <1>3. x - 1 \in Nat /\ x - 1 \notin T
    BY <1>1, <1>2
  <1>4. (x - 1) + 1 \in S
    BY <1>3
  <1> QED  BY <1>2, <1>4

(* Up to a bound.                                                           *)
LEMMA UpTo ==
    ASSUME NEW S, NEW n \in Nat, 0 \in S, \A k \in 0 .. n - 1 : k \in S => k + 1 \in S
    PROVE  n \in S
  <1> DEFINE T == {k \in Nat : k <= n => k \in S}
  <1>1. 0 \in T
    OBVIOUS
  <1>2. \A k \in Nat : k \in T => k + 1 \in T
    OBVIOUS
  <1> HIDE DEF T
  <1>3. n \in T
    BY <1>1, <1>2, NatSet
  <1> QED  BY <1>3 DEF T

(* The loops over the buffers of a packet, over the pages to be pushed and   *)
(* over the buffers of a page, unfolded.                                     *)
LEMMA RecyclePagesIs ==
    ASSUME NEW m, NEW index, NEW n \in Nat
    PROVE  \E g : /\ g[0] = m
                  /\ \A k \in 0 .. n - 1 : g[k + 1] = RecyclePage(g[k], (index + k) % RingSize)
                  /\ g[n] = RecyclePages(m, index, n)
  <1> DEFINE Loop(g, j) == g = [k \in 0 .. j |-> IF k = 0 THEN m ELSE RecyclePage(g[k - 1], (index + k - 1) % RingSize)]
             S == {j \in Nat : \E g : Loop(g, j)}
  <1>1. 0 \in S
    <2> DEFINE g == [k \in 0 .. 0 |-> m]
    <2>1. Loop(g, 0)
      OBVIOUS
    <2> QED  BY <2>1
  <1>2. \A j \in Nat : j \in S => j + 1 \in S
    <2> SUFFICES ASSUME NEW j \in Nat, j \in S  PROVE j + 1 \in S
      OBVIOUS
    <2> PICK g : Loop(g, j)
      OBVIOUS
    <2> DEFINE h == [k \in 0 .. j + 1 |-> IF k <= j THEN g[k] ELSE RecyclePage(g[j], (index + j) % RingSize)]
    <2>1. \A k \in 0 .. j : h[k] = g[k]
      OBVIOUS
    <2>2. \A k \in 0 .. j + 1 : h[k] = IF k = 0 THEN m ELSE RecyclePage(h[k - 1], (index + k - 1) % RingSize)
      <3> TAKE k \in 0 .. j + 1
      <3>1. CASE k = 0
        BY <3>1, <2>1
      <3>2. CASE k \in 1 .. j
        BY <3>2, <2>1
      <3>3. CASE k = j + 1
        BY <3>3, <2>1
      <3> QED  BY <3>1, <3>2, <3>3
    <2>3. Loop(h, j + 1)
      BY <2>2
    <2> HIDE DEF h, Loop
    <2> QED  BY <2>3
  <1> HIDE DEF S
  <1>3. n \in S
    BY <1>1, <1>2, NatSet
  <1>4. \E g : Loop(g, n)
    BY <1>3 DEF S
  <1> DEFINE after == CHOOSE g : Loop(g, n)
  <1>5. Loop(after, n)
    BY <1>4
  <1>6. after[n] = RecyclePages(m, index, n)
    BY DEF RecyclePages, EachFrag
  <1> HIDE DEF after
  <1>7. after[0] = m /\ \A k \in 0 .. n - 1 : after[k + 1] = RecyclePage(after[k], (index + k) % RingSize)
    BY <1>5
  <1> QED  BY <1>6, <1>7

LEMMA RepeatAllIs ==
    ASSUME NEW m, NEW index, NEW n \in Nat
    PROVE  \E g : /\ g[0] = m
                  /\ \A k \in 0 .. n - 1 : g[k + 1] = Repeat(g[k], (index + k) % RingSize)
                  /\ g[n] = RepeatAll(m, index, n)
  <1> DEFINE Loop(g, j) == g = [k \in 0 .. j |-> IF k = 0 THEN m ELSE Repeat(g[k - 1], (index + k - 1) % RingSize)]
             S == {j \in Nat : \E g : Loop(g, j)}
  <1>1. 0 \in S
    <2> DEFINE g == [k \in 0 .. 0 |-> m]
    <2>1. Loop(g, 0)
      OBVIOUS
    <2> QED  BY <2>1
  <1>2. \A j \in Nat : j \in S => j + 1 \in S
    <2> SUFFICES ASSUME NEW j \in Nat, j \in S  PROVE j + 1 \in S
      OBVIOUS
    <2> PICK g : Loop(g, j)
      OBVIOUS
    <2> DEFINE h == [k \in 0 .. j + 1 |-> IF k <= j THEN g[k] ELSE Repeat(g[j], (index + j) % RingSize)]
    <2>1. \A k \in 0 .. j : h[k] = g[k]
      OBVIOUS
    <2>2. \A k \in 0 .. j + 1 : h[k] = IF k = 0 THEN m ELSE Repeat(h[k - 1], (index + k - 1) % RingSize)
      <3> TAKE k \in 0 .. j + 1
      <3>1. CASE k = 0
        BY <3>1, <2>1
      <3>2. CASE k \in 1 .. j
        BY <3>2, <2>1
      <3>3. CASE k = j + 1
        BY <3>3, <2>1
      <3> QED  BY <3>1, <3>2, <3>3
    <2>3. Loop(h, j + 1)
      BY <2>2
    <2> HIDE DEF h, Loop
    <2> QED  BY <2>3
  <1> HIDE DEF S
  <1>3. n \in S
    BY <1>1, <1>2, NatSet
  <1>4. \E g : Loop(g, n)
    BY <1>3 DEF S
  <1> DEFINE after == CHOOSE g : Loop(g, n)
  <1>5. Loop(after, n)
    BY <1>4
  <1>6. after[n] = RepeatAll(m, index, n)
    BY DEF RepeatAll, EachFrag
  <1> HIDE DEF after
  <1>7. after[0] = m /\ \A k \in 0 .. n - 1 : after[k + 1] = Repeat(after[k], (index + k) % RingSize)
    BY <1>5
  <1> QED  BY <1>6, <1>7

(* The loop of efx_fini_rx_queue                                            *)
FiniBuffers(m, index, n) == EachFrag(FiniBuffer, m, index, n)

LEMMA FiniBuffersIs ==
    ASSUME NEW m, NEW index, NEW n \in Nat
    PROVE  \E g : /\ g[0] = m
                  /\ \A k \in 0 .. n - 1 : g[k + 1] = FiniBuffer(g[k], (index + k) % RingSize)
                  /\ g[n] = FiniBuffers(m, index, n)
  <1> DEFINE Loop(g, j) == g = [k \in 0 .. j |-> IF k = 0 THEN m ELSE FiniBuffer(g[k - 1], (index + k - 1) % RingSize)]
             S == {j \in Nat : \E g : Loop(g, j)}
  <1>1. 0 \in S
    <2> DEFINE g == [k \in 0 .. 0 |-> m]
    <2>1. Loop(g, 0)
      OBVIOUS
    <2> QED  BY <2>1
  <1>2. \A j \in Nat : j \in S => j + 1 \in S
    <2> SUFFICES ASSUME NEW j \in Nat, j \in S  PROVE j + 1 \in S
      OBVIOUS
    <2> PICK g : Loop(g, j)
      OBVIOUS
    <2> DEFINE h == [k \in 0 .. j + 1 |-> IF k <= j THEN g[k] ELSE FiniBuffer(g[j], (index + j) % RingSize)]
    <2>1. \A k \in 0 .. j : h[k] = g[k]
      OBVIOUS
    <2>2. \A k \in 0 .. j + 1 : h[k] = IF k = 0 THEN m ELSE FiniBuffer(h[k - 1], (index + k - 1) % RingSize)
      <3> TAKE k \in 0 .. j + 1
      <3>1. CASE k = 0
        BY <3>1, <2>1
      <3>2. CASE k \in 1 .. j
        BY <3>2, <2>1
      <3>3. CASE k = j + 1
        BY <3>3, <2>1
      <3> QED  BY <3>1, <3>2, <3>3
    <2>3. Loop(h, j + 1)
      BY <2>2
    <2> HIDE DEF h, Loop
    <2> QED  BY <2>3
  <1> HIDE DEF S
  <1>3. n \in S
    BY <1>1, <1>2, NatSet
  <1>4. \E g : Loop(g, n)
    BY <1>3 DEF S
  <1> DEFINE after == CHOOSE g : Loop(g, n)
  <1>5. Loop(after, n)
    BY <1>4
  <1>6. after[n] = FiniBuffers(m, index, n)
    BY DEF FiniBuffers, EachFrag
  <1> HIDE DEF after
  <1>7. after[0] = m /\ \A k \in 0 .. n - 1 : after[k + 1] = FiniBuffer(after[k], (index + k) % RingSize)
    BY <1>5
  <1> QED  BY <1>6, <1>7

(* Cut of PushPage.                                                         *)
Cut(q, ring, mm) ==
    LET posted[k \in 0 .. PerPage] ==
            IF k = 0 THEN mm ELSE Post(posted[k - 1], BufOf(q, k - 1, ring))
    IN  [posted[PerPage] EXCEPT !.ref[q] = @ + PerPage]

LEMMA CutIs ==
    ASSUME NEW q, NEW ring, NEW mm
    PROVE  \E g : /\ g[0] = mm
                  /\ \A k \in 0 .. PerPage - 1 : g[k + 1] = Post(g[k], BufOf(q, k, ring))
                  /\ Cut(q, ring, mm) = [g[PerPage] EXCEPT !.ref[q] = @ + PerPage]
  <1> DEFINE Loop(g, j) == g = [k \in 0 .. j |-> IF k = 0 THEN mm ELSE Post(g[k - 1], BufOf(q, k - 1, ring))]
             S == {j \in Nat : \E g : Loop(g, j)}
  <1>1. 0 \in S
    <2> DEFINE g == [k \in 0 .. 0 |-> mm]
    <2>1. Loop(g, 0)
      OBVIOUS
    <2> QED  BY <2>1
  <1>2. \A j \in Nat : j \in S => j + 1 \in S
    <2> SUFFICES ASSUME NEW j \in Nat, j \in S  PROVE j + 1 \in S
      OBVIOUS
    <2> PICK g : Loop(g, j)
      OBVIOUS
    <2> DEFINE h == [k \in 0 .. j + 1 |-> IF k <= j THEN g[k] ELSE Post(g[j], BufOf(q, j, ring))]
    <2>1. \A k \in 0 .. j : h[k] = g[k]
      OBVIOUS
    <2>2. \A k \in 0 .. j + 1 : h[k] = IF k = 0 THEN mm ELSE Post(h[k - 1], BufOf(q, k - 1, ring))
      <3> TAKE k \in 0 .. j + 1
      <3>1. CASE k = 0
        BY <3>1, <2>1
      <3>2. CASE k \in 1 .. j
        BY <3>2, <2>1
      <3>3. CASE k = j + 1
        BY <3>3, <2>1
      <3> QED  BY <3>1, <3>2, <3>3
    <2>3. Loop(h, j + 1)
      BY <2>2
    <2> HIDE DEF h, Loop
    <2> QED  BY <2>3
  <1> HIDE DEF S
  <1>3. PerPage \in S
    BY <1>1, <1>2, NatSet, Sizes
  <1>4. \E g : Loop(g, PerPage)
    BY <1>3 DEF S
  <1> DEFINE after == CHOOSE g : Loop(g, PerPage)
  <1>5. Loop(after, PerPage)
    BY <1>4
  <1>6. Cut(q, ring, mm) = [after[PerPage] EXCEPT !.ref[q] = @ + PerPage]
    BY DEF Cut
  <1> HIDE DEF after
  <1>7. after[0] = mm /\ \A k \in 0 .. PerPage - 1 : after[k + 1] = Post(after[k], BufOf(q, k, ring))
    BY <1>5, Sizes
  <1> QED  BY <1>6, <1>7

Wanted(m) == PerBatch * ((max_fill - Fill(m)) \div BatchSize)
Pushed(st) == IF st.failed THEN st ELSE PushPage(st)
Unpushed(m, left) == [rx |-> m, left |-> left, failed |-> FALSE]
PushAll(m, left, n) ==
    LET pushed[k \in 0 .. n] ==
            IF k = 0 THEN Unpushed(m, left) ELSE Pushed(pushed[k - 1])
    IN  pushed[n]

LEMMA FastPushIs ==
    ASSUME NEW m, NEW left
    PROVE  FastPush(m, left) =
               IF ~m.refill_enabled THEN m
               ELSE IF Fill(m) >= fast_fill_trigger THEN Notify(m)
                    ELSE Notify(PushAll(m, left, Wanted(m)).rx)
BY DEF FastPush, PushAll, Pushed, Wanted, Unpushed

LEMMA PushAllIs ==
    ASSUME NEW m, NEW left, NEW n \in Nat
    PROVE  \E g : /\ g[0] = Unpushed(m, left)
                  /\ \A k \in 0 .. n - 1 : g[k + 1] = Pushed(g[k])
                  /\ g[n] = PushAll(m, left, n)
  <1> DEFINE Loop(g, j) == g = [k \in 0 .. j |-> IF k = 0 THEN Unpushed(m, left) ELSE Pushed(g[k - 1])]
             S == {j \in Nat : \E g : Loop(g, j)}
  <1>1. 0 \in S
    <2> DEFINE g == [k \in 0 .. 0 |-> Unpushed(m, left)]
    <2>1. Loop(g, 0)
      OBVIOUS
    <2> QED  BY <2>1
  <1>2. \A j \in Nat : j \in S => j + 1 \in S
    <2> SUFFICES ASSUME NEW j \in Nat, j \in S  PROVE j + 1 \in S
      OBVIOUS
    <2> PICK g : Loop(g, j)
      OBVIOUS
    <2> DEFINE h == [k \in 0 .. j + 1 |-> IF k <= j THEN g[k] ELSE Pushed(g[j])]
    <2>1. \A k \in 0 .. j : h[k] = g[k]
      OBVIOUS
    <2>2. \A k \in 0 .. j + 1 : h[k] = IF k = 0 THEN Unpushed(m, left) ELSE Pushed(h[k - 1])
      <3> TAKE k \in 0 .. j + 1
      <3>1. CASE k = 0
        BY <3>1, <2>1
      <3>2. CASE k \in 1 .. j
        BY <3>2, <2>1
      <3>3. CASE k = j + 1
        BY <3>3, <2>1
      <3> QED  BY <3>1, <3>2, <3>3
    <2>3. Loop(h, j + 1)
      BY <2>2
    <2> HIDE DEF h, Loop
    <2> QED  BY <2>3
  <1> HIDE DEF S
  <1>3. n \in S
    BY <1>1, <1>2, NatSet
  <1>4. \E g : Loop(g, n)
    BY <1>3 DEF S
  <1> DEFINE after == CHOOSE g : Loop(g, n)
  <1>5. Loop(after, n)
    BY <1>4
  <1>6. after[n] = PushAll(m, left, n)
    BY DEF PushAll
  <1> HIDE DEF after
  <1>7. after[0] = Unpushed(m, left) /\ \A k \in 0 .. n - 1 : after[k + 1] = Pushed(after[k])
    BY <1>5
  <1> QED  BY <1>6, <1>7

---------------------------------------------------------------------------
(* The invariant                                                            *)

(* As in TypeOK, but for the bounds of the references.                      *)
Rx == [ buffer : [Slots -> Buffers],
        added : Counts, noted : Counts, removed : Counts,
        page_ring : [Places -> Pages \cup {NoPage}],
        page_add : 0 .. RecycleSize,
        page_remove : Places,
        refill_enabled : BOOLEAN,
        pkt : [index : Slots, n : 0 .. MaxFrags],
        spent : BOOLEAN,
        slow : BOOLEAN,
        ref : [Pages -> Int],
        mapped : SUBSET Pages ]

(* The slots from the lo-th before the hi-th, counted from removed_count.   *)
At(m, k) == Slot(m.removed + k)
Window(m, lo, hi) == {At(m, k) : k \in lo .. hi - 1}

PlaceOf(m, i) == <<m.buffer[i].page, m.buffer[i].part>>
UsesOf(m, U, p) == {i \in U : m.buffer[i].page = p}
HeldOf(H, p) == {b \in H : b[1] = p}
Ringed(m) == {m.page_ring[k] : k \in Places} \ {NoPage}
Owned(m, K) == {m.buffer[i].page : i \in {j \in K : Recyclable(m.buffer[j])}}

(* The buffers in the slots U and those in H are different ones.            *)
Apart(m, U, H) ==
    /\ H \subseteq Pages \X Parts
    /\ \A i \in U : m.buffer[i].page \in Pages
    /\ \A i, j \in U : PlaceOf(m, i) = PlaceOf(m, j) => i = j
    /\ \A i \in U : PlaceOf(m, i) \notin H

(* A page is in the recycle ring once, or has an owner among the slots K,   *)
(* or is one of L.                                                          *)
OneKeeper(m, U, K, L) ==
    /\ K \subseteq U
    /\ \A k, l \in Places : m.page_ring[k] = m.page_ring[l] /\ m.page_ring[k] # NoPage => k = l
    /\ \A i \in U : m.buffer[i].ring => m.buffer[i].page \in Ringed(m)
    /\ Ringed(m) \cap Owned(m, K) = {}
    /\ (Ringed(m) \cup Owned(m, K)) \cap L = {}
    /\ m.mapped = Ringed(m) \cup Owned(m, K) \cup L

RefOf(m, U, H, p) ==
    Cardinality(UsesOf(m, U, p)) + Cardinality(HeldOf(H, p)) + (IF p \in m.mapped THEN 1 ELSE 0)

Owns(m, U, K, H, L) ==
    /\ Apart(m, U, H)
    /\ OneKeeper(m, U, K, L)
    /\ \A p \in Pages : m.ref[p] = RefOf(m, U, H, p)

(* A buffer that is neither of a recycled page nor posted again is followed *)
(* by its page's last one.                                                  *)
Chain(m, lo) ==
    \A k \in lo .. Fill(m) - 1 :
        LET buf  == m.buffer[At(m, k)]
            last == k + (PerPage - 1 - buf.part)
        IN  ~buf.ring /\ ~buf.again =>
                /\ last < Fill(m)
                /\ m.buffer[At(m, last)].page = buf.page
                /\ Recyclable(m.buffer[At(m, last)])

(* The queue in the middle of an action: the buffers from the lo-th on are  *)
(* in use, and those from the kl-th on can be keepers.                      *)
Good(m, lo, kl, H, L) ==
    /\ m \in Rx /\ lo \in Int /\ kl \in Int
    /\ lo <= kl /\ kl <= Fill(m) /\ Fill(m) - lo <= RingSize
    /\ Owns(m, Window(m, lo, Fill(m)), Window(m, kl, Fill(m)), H, L)
    /\ Chain(m, kl)

---------------------------------------------------------------------------
(* Buffers, slots and windows                                               *)

LEMMA BuffersAre ==
    ASSUME NEW b \in Buffers
    PROVE  \/ b = NoBuf /\ b.page \notin Pages
           \/ /\ b.page \in Pages /\ b.part \in Parts /\ b.last = (b.part = PerPage - 1)
              /\ b.ring \in BOOLEAN /\ b.again \in BOOLEAN
              /\ b # NoBuf
  <1>1. NoBuf.page \notin Pages
    BY DEF NoPage, Pages, NoBuf
  <1>2. SUFFICES ASSUME b # NoBuf
                 PROVE  /\ b.page \in Pages /\ b.part \in Parts /\ b.last = (b.part = PerPage - 1)
                        /\ b.ring \in BOOLEAN /\ b.again \in BOOLEAN
    BY <1>1
  <1>3. PICK p \in Pages, part \in Parts, ring \in BOOLEAN, again \in BOOLEAN :
            b = [BufOf(p, part, ring) EXCEPT !.again = again]
    BY <1>2 DEF Buffers
  <1> DEFINE last == part = PerPage - 1
  <1>4. b = [page |-> p, part |-> part, last |-> last, ring |-> ring, again |-> again]
    BY <1>3 DEF BufOf
  <1> HIDE DEF last
  <1>5. b.page = p /\ b.part = part /\ b.last = last /\ b.ring = ring /\ b.again = again
    BY <1>4
  <1> QED  BY <1>5 DEF last

LEMMA BufferMade ==
    /\ NoBuf \in Buffers
    /\ \A p \in Pages, part \in Parts, ring \in BOOLEAN :
          /\ BufOf(p, part, ring) \in Buffers
          /\ BufOf(p, part, ring).page = p /\ BufOf(p, part, ring).part = part
          /\ BufOf(p, part, ring).ring = ring /\ ~BufOf(p, part, ring).again
          /\ BufOf(p, part, ring).last = (part = PerPage - 1)
  <1>1. NoBuf \in Buffers
    BY DEF Buffers
  <1>2. SUFFICES ASSUME NEW p \in Pages, NEW part \in Parts, NEW ring \in BOOLEAN
                 PROVE  /\ BufOf(p, part, ring) \in Buffers
                        /\ BufOf(p, part, ring).page = p /\ BufOf(p, part, ring).part = part
                        /\ BufOf(p, part, ring).ring = ring /\ ~BufOf(p, part, ring).again
                        /\ BufOf(p, part, ring).last = (part = PerPage - 1)
    BY <1>1
  <1> DEFINE last == part = PerPage - 1
             b == [page |-> p, part |-> part, last |-> last, ring |-> ring, again |-> FALSE]
  <1>3. BufOf(p, part, ring) = b
    BY DEF BufOf
  <1> HIDE DEF last
  <1>4. \A no : [[page |-> p, part |-> part, last |-> last, ring |-> ring, again |-> no] EXCEPT !.again = no]
                 = [page |-> p, part |-> part, last |-> last, ring |-> ring, again |-> no]
    OBVIOUS
  <1>5. b \in Buffers
    <2>1. [b EXCEPT !.again = FALSE] = b
      BY <1>4
    <2> HIDE DEF b
    <2>2. [BufOf(p, part, ring) EXCEPT !.again = FALSE] = b
      BY <1>3, <2>1
    <2>3. \E no \in BOOLEAN : b = [BufOf(p, part, ring) EXCEPT !.again = no]
      BY <2>2
    <2> QED  BY <2>3 DEF Buffers
  <1>6. b.page = p /\ b.part = part /\ b.ring = ring /\ ~b.again /\ b.last = last
    OBVIOUS
  <1> HIDE DEF b
  <1> QED  BY <1>3, <1>5, <1>6 DEF last

LEMMA BufferAgain ==
    ASSUME NEW b \in Buffers, b # NoBuf, NEW again \in BOOLEAN
    PROVE  /\ [b EXCEPT !.again = again] \in Buffers
           /\ [b EXCEPT !.again = again].page = b.page
           /\ [b EXCEPT !.again = again].part = b.part
           /\ [b EXCEPT !.again = again].last = b.last
           /\ [b EXCEPT !.again = again].ring = b.ring
           /\ [b EXCEPT !.again = again].again = again
  <1>1. PICK p \in Pages, part \in Parts, ring \in BOOLEAN, old \in BOOLEAN :
            b = [BufOf(p, part, ring) EXCEPT !.again = old]
    BY DEF Buffers
  <1>2. [b EXCEPT !.again = again] = [BufOf(p, part, ring) EXCEPT !.again = again]
    BY <1>1 DEF BufOf
  <1>3. [b EXCEPT !.again = again] \in Buffers
    BY <1>2 DEF Buffers
  <1> QED  BY <1>1, <1>3 DEF BufOf

LEMMA PagesFacts == IsFiniteSet(Slots) /\ NoPage \notin Pages /\ IsFiniteSet(Pages \X Parts)
  <1>1. IsFiniteSet(Slots) /\ IsFiniteSet(Pages) /\ IsFiniteSet(Parts)
    BY FS_Interval, PagesPos, Sizes DEF Slots, Pages, Parts
  <1>2. NoPage \notin Pages
    BY DEF NoPage, Pages
  <1> QED  BY <1>1, <1>2, FS_Product

LEMMA FillRange ==
    ASSUME NEW m \in Rx
    PROVE  Fill(m) \in Nat /\ Fill(m) < CountSpace /\ m.removed \in Int
BY BehindRange DEF Rx, Fill

LEMMA AtSlot ==
    ASSUME NEW m \in Rx, NEW k \in Int
    PROVE  At(m, k) \in Slots
  <1>1. m.removed + k \in Int
    BY FillRange
  <1> QED  BY <1>1, CountRange DEF At

LEMMA AtEqual ==
    ASSUME NEW m \in Rx, NEW k \in Int, NEW l \in Int, At(m, k) = At(m, l),
           k - l < RingSize, l - k < RingSize
    PROVE  k = l
  <1>1. m.removed \in Int
    BY FillRange
  <1>2. m.removed + k \in Int /\ m.removed + l \in Int
    BY <1>1
  <1>3. (m.removed + k) - (m.removed + l) < RingSize /\ (m.removed + l) - (m.removed + k) < RingSize
    BY <1>1, Sizes
  <1>4. m.removed + k = m.removed + l
    BY <1>2, <1>3, SlotEqual DEF At
  <1> QED  BY <1>1, <1>4

(* The next buffer is posted behind the last.                               *)
LEMMA AddedAt ==
    ASSUME NEW m \in Rx
    PROVE  Slot(m.added) = At(m, Fill(m))
  <1>1. m.added \in Counts /\ m.removed \in Counts
    BY DEF Rx
  <1>2. Incr(m.removed, Behind(m.added, m.removed)) = m.added
    BY <1>1, BehindOf
  <1>3. Behind(m.added, m.removed) \in Int
    BY <1>1, BehindRange
  <1>4. Slot(Incr(m.removed, Behind(m.added, m.removed))) = Slot(m.removed + Behind(m.added, m.removed))
    BY <1>1, <1>3, SlotIncr
  <1> QED  BY <1>2, <1>4 DEF At, Fill

LEMMA PostedIs ==
    ASSUME NEW m \in Rx
    PROVE  Posted(m) = Window(m, 0, Fill(m))
  <1>1. m.removed \in Counts
    BY DEF Rx
  <1>2. \A k \in 0 .. Fill(m) - 1 : Slot(Incr(m.removed, k)) = At(m, k)
    BY <1>1, SlotIncr, FillRange DEF At
  <1> QED  BY <1>2 DEF Posted, Window

(* Slots counted from another one.                                          *)
LEMMA AtFrom ==
    ASSUME NEW m \in Rx, NEW j \in Int, NEW k \in Int
    PROVE  (At(m, j) + k) % RingSize = At(m, j + k)
  <1> DEFINE a == m.removed + j
  <1>1. m.removed \in Int /\ a \in Int
    BY FillRange
  <1>2. m.removed + (j + k) = a + k
    BY <1>1
  <1> HIDE DEF a
  <1>3. ((a % RingSize) + k) % RingSize = (a + k) % RingSize
    BY <1>1, Sizes, ModAdd
  <1> QED  BY <1>2, <1>3 DEF At, Slot, a

LEMMA PktSlotsAre ==
    ASSUME NEW m \in Rx, NEW n \in Nat, NEW j \in Int
    PROVE  PktSlots(At(m, j), n) = Window(m, j, j + n)
  <1>1. \A k \in 0 .. n - 1 : (At(m, j) + k) % RingSize = At(m, j + k)
    BY AtFrom
  <1>2. PktSlots(At(m, j), n) = {At(m, j + k) : k \in 0 .. n - 1}
    BY <1>1 DEF PktSlots
  <1>3. \A k \in j .. j + n - 1 : k - j \in 0 .. n - 1 /\ k = j + (k - j)
    OBVIOUS
  <1>4. \A k \in 0 .. n - 1 : j + k \in j .. j + n - 1
    OBVIOUS
  <1> QED  BY <1>2, <1>3, <1>4 DEF Window

LEMMA WindowSlots ==
    ASSUME NEW m \in Rx, NEW lo \in Int, NEW hi \in Int
    PROVE  Window(m, lo, hi) \subseteq Slots /\ IsFiniteSet(Window(m, lo, hi))
  <1>1. Window(m, lo, hi) \subseteq Slots
    BY AtSlot DEF Window
  <1> QED  BY <1>1, PagesFacts, FS_Subset

LEMMA WindowSub ==
    ASSUME NEW m, NEW lo \in Int, NEW hi \in Int, NEW a \in Int, NEW b \in Int, lo <= a, b <= hi
    PROVE  Window(m, a, b) \subseteq Window(m, lo, hi)
BY DEF Window

(* Where a buffer is in a window.                                           *)
LEMMA WindowHas ==
    ASSUME NEW m \in Rx, NEW lo \in Int, NEW hi \in Int, NEW k \in Int,
           hi - k <= RingSize, k - lo < RingSize
    PROVE  At(m, k) \in Window(m, lo, hi) <=> lo <= k /\ k < hi
  <1>1. ASSUME At(m, k) \in Window(m, lo, hi)  PROVE lo <= k /\ k < hi
    <2>1. PICK l \in lo .. hi - 1 : At(m, k) = At(m, l)
      BY <1>1 DEF Window
    <2>2. k - l < RingSize /\ l - k < RingSize
      BY Sizes
    <2>3. k = l
      BY <2>1, <2>2, AtEqual
    <2> QED  BY <2>3
  <1> QED  BY <1>1 DEF Window

LEMMA WindowMinus ==
    ASSUME NEW m \in Rx, NEW lo \in Int, NEW hi \in Int, NEW mid \in lo .. hi, hi - lo <= RingSize
    PROVE  Window(m, lo, hi) \ Window(m, lo, mid) = Window(m, mid, hi)
  <1>1. \A k \in lo .. hi - 1 : At(m, k) \in Window(m, lo, mid) <=> k < mid
    <2> TAKE k \in lo .. hi - 1
    <2>1. mid - k <= RingSize /\ k - lo < RingSize
      BY Sizes
    <2> QED  BY <2>1, WindowHas
  <1> QED  BY <1>1 DEF Window

LEMMA WindowFirst ==
    ASSUME NEW m \in Rx, NEW lo \in Int, NEW hi \in Int, lo < hi, hi - lo <= RingSize
    PROVE  /\ At(m, lo) \in Window(m, lo, hi)
           /\ Window(m, lo, hi) \ {At(m, lo)} = Window(m, lo + 1, hi)
  <1>1. Window(m, lo, lo + 1) = {At(m, lo)}
    BY DEF Window
  <1>2. Window(m, lo, hi) \ Window(m, lo, lo + 1) = Window(m, lo + 1, hi)
    BY WindowMinus
  <1> QED  BY <1>1, <1>2 DEF Window

LEMMA WindowNext ==
    ASSUME NEW m \in Rx, NEW lo \in Int, NEW hi \in Int, lo <= hi
    PROVE  /\ Window(m, lo, hi + 1) = Window(m, lo, hi) \cup {At(m, hi)}
           /\ hi - lo < RingSize => At(m, hi) \notin Window(m, lo, hi)
  <1>1. lo .. (hi + 1) - 1 = (lo .. hi - 1) \cup {hi}
    OBVIOUS
  <1>2. hi - lo < RingSize => At(m, hi) \notin Window(m, lo, hi)
    BY WindowHas, Sizes
  <1> QED  BY <1>1, <1>2 DEF Window

LEMMA WindowEmpty == \A m, lo : lo \in Int => Window(m, lo, lo) = {}
BY DEF Window

---------------------------------------------------------------------------
(* Counting                                                                 *)

LEMMA UsesFinite ==
    ASSUME NEW m, NEW U, IsFiniteSet(U), NEW p
    PROVE  IsFiniteSet(UsesOf(m, U, p)) /\ Cardinality(UsesOf(m, U, p)) \in Nat
  <1>1. UsesOf(m, U, p) \in SUBSET U
    BY DEF UsesOf
  <1>2. IsFiniteSet(UsesOf(m, U, p))
    BY <1>1, FS_Subset
  <1> QED  BY <1>2, FS_CardinalityType

LEMMA HeldFinite ==
    ASSUME NEW H, H \subseteq Pages \X Parts, NEW p
    PROVE  IsFiniteSet(H) /\ IsFiniteSet(HeldOf(H, p)) /\ Cardinality(HeldOf(H, p)) \in Nat
  <1>1. IsFiniteSet(H) /\ HeldOf(H, p) \in SUBSET H
    BY PagesFacts, FS_Subset DEF HeldOf
  <1>2. IsFiniteSet(HeldOf(H, p))
    BY <1>1, FS_Subset
  <1> QED  BY <1>1, <1>2, FS_CardinalityType

LEMMA UsesSame ==
    ASSUME NEW m, NEW n, NEW U, \A i \in U : n.buffer[i] = m.buffer[i], NEW p
    PROVE  UsesOf(n, U, p) = UsesOf(m, U, p)
BY DEF UsesOf

LEMMA UsesRemove ==
    ASSUME NEW m, NEW U, IsFiniteSet(U), NEW i \in U, NEW p
    PROVE  Cardinality(UsesOf(m, U \ {i}, p)) =
               Cardinality(UsesOf(m, U, p)) - (IF m.buffer[i].page = p THEN 1 ELSE 0)
  <1>1. UsesOf(m, U \ {i}, p) = UsesOf(m, U, p) \ {i}
    BY DEF UsesOf
  <1>2. i \in UsesOf(m, U, p) <=> m.buffer[i].page = p
    BY DEF UsesOf
  <1>3. IsFiniteSet(UsesOf(m, U, p)) /\ Cardinality(UsesOf(m, U, p)) \in Nat
    BY UsesFinite
  <1>4. Cardinality(UsesOf(m, U, p) \ {i}) =
            IF i \in UsesOf(m, U, p) THEN Cardinality(UsesOf(m, U, p)) - 1 ELSE Cardinality(UsesOf(m, U, p))
    BY <1>3, FS_RemoveElement
  <1> DEFINE c == Cardinality(UsesOf(m, U, p))
             d == Cardinality(UsesOf(m, U \ {i}, p))
  <1>5. c \in Nat /\ (m.buffer[i].page = p => d = c - 1) /\ (m.buffer[i].page # p => d = c)
    BY <1>1, <1>2, <1>3, <1>4
  <1> HIDE DEF c, d
  <1>6. d = c - (IF m.buffer[i].page = p THEN 1 ELSE 0)
    BY <1>5
  <1> QED  BY <1>6 DEF c, d

LEMMA UsesAdd ==
    ASSUME NEW m, NEW U, IsFiniteSet(U), NEW i, i \notin U, NEW p
    PROVE  Cardinality(UsesOf(m, U \cup {i}, p)) =
               Cardinality(UsesOf(m, U, p)) + (IF m.buffer[i].page = p THEN 1 ELSE 0)
  <1> DEFINE T == UsesOf(m, U, p)
  <1>3. IsFiniteSet(T) /\ Cardinality(T) \in Nat
    BY UsesFinite
  <1>1. CASE m.buffer[i].page = p
    <2>1. UsesOf(m, U \cup {i}, p) = T \cup {i} /\ i \notin T
      BY <1>1 DEF UsesOf
    <2>2. Cardinality(T \cup {i}) = Cardinality(T) + 1
      BY <2>1, <1>3, FS_AddElement
    <2> QED  BY <1>1, <2>1, <2>2
  <1>2. CASE m.buffer[i].page # p
    <2>1. UsesOf(m, U \cup {i}, p) = T
      BY <1>2 DEF UsesOf
    <2> QED  BY <1>2, <1>3, <2>1
  <1> QED  BY <1>1, <1>2

LEMMA UsesRemoveSet ==
    ASSUME NEW m, NEW U, IsFiniteSet(U), NEW S, S \subseteq U, NEW p
    PROVE  Cardinality(UsesOf(m, U \ S, p)) =
               Cardinality(UsesOf(m, U, p)) - Cardinality(UsesOf(m, S, p))
  <1>1. UsesOf(m, U \ S, p) = UsesOf(m, U, p) \ S
    BY DEF UsesOf
  <1>2. UsesOf(m, U, p) \cap S = UsesOf(m, S, p)
    BY DEF UsesOf
  <1>3. IsFiniteSet(UsesOf(m, U, p))
    BY UsesFinite
  <1> QED  BY <1>1, <1>2, <1>3, FS_Difference

(* As many buffers of a page as the slots hold are added to H.              *)
LEMMA HeldAdd ==
    ASSUME NEW m, NEW U, NEW H, NEW S, IsFiniteSet(S), S \subseteq U, Apart(m, U, H), NEW p
    PROVE  Cardinality(HeldOf(H \cup {PlaceOf(m, i) : i \in S}, p)) =
               Cardinality(HeldOf(H, p)) + Cardinality(UsesOf(m, S, p))
  <1> DEFINE T == UsesOf(m, S, p)
             new == {PlaceOf(m, i) : i \in T}
             f == [i \in T |-> PlaceOf(m, i)]
  <1>1. IsFiniteSet(T) /\ Cardinality(T) \in Nat
    BY UsesFinite
  <1>2. f \in Bijection(T, new)
    <2>1. \A i, j \in T : f[i] = f[j] => i = j
      BY DEF UsesOf, Apart
    <2>2. f \in [T -> new] /\ \A b \in new : \E i \in T : f[i] = b
      OBVIOUS
    <2> HIDE DEF f, new, T
    <2> QED  BY <2>1, <2>2 DEF Bijection, Injection, Surjection, IsInjective
  <1>3. IsFiniteSet(new) /\ Cardinality(new) = Cardinality(T)
    BY <1>1, <1>2, FS_Bijection DEF ExistsBijection
  <1>4. HeldOf(H \cup {PlaceOf(m, i) : i \in S}, p) = HeldOf(H, p) \cup new
    BY DEF HeldOf, UsesOf, PlaceOf
  <1>5. HeldOf(H, p) \cap new = {}
    BY DEF HeldOf, Apart, UsesOf
  <1>6. IsFiniteSet(HeldOf(H, p)) /\ Cardinality(HeldOf(H, p)) \in Nat
    BY HeldFinite DEF Apart
  <1> HIDE DEF T, new
  <1>7. Cardinality(HeldOf(H, p) \cup new) = Cardinality(HeldOf(H, p)) + Cardinality(T)
    <2> DEFINE h == HeldOf(H, p)
    <2>1. IsFiniteSet(h) /\ Cardinality(h) \in Nat /\ h \cap new = {}
      BY <1>5, <1>6
    <2> HIDE DEF h
    <2>2. Cardinality(h \cup new) = Cardinality(h) + Cardinality(new) - Cardinality(h \cap new)
      BY <1>3, <2>1, FS_Union
    <2>3. Cardinality(h \cap new) = 0
      BY <2>1, FS_EmptySet
    <2>4. Cardinality(h \cup new) = Cardinality(h) + Cardinality(T)
      BY <1>1, <1>3, <2>1, <2>2, <2>3
    <2> QED  BY <2>4 DEF h
  <1> QED  BY <1>4, <1>7 DEF T

LEMMA HeldRemove ==
    ASSUME NEW H, H \subseteq Pages \X Parts, NEW b \in H, NEW p
    PROVE  Cardinality(HeldOf(H \ {b}, p)) =
               Cardinality(HeldOf(H, p)) - (IF b[1] = p THEN 1 ELSE 0)
  <1>1. HeldOf(H \ {b}, p) = HeldOf(H, p) \ {b}
    BY DEF HeldOf
  <1>2. b \in HeldOf(H, p) <=> b[1] = p
    BY DEF HeldOf
  <1>3. IsFiniteSet(HeldOf(H, p)) /\ Cardinality(HeldOf(H, p)) \in Nat
    BY HeldFinite
  <1>4. Cardinality(HeldOf(H, p) \ {b}) =
            IF b \in HeldOf(H, p) THEN Cardinality(HeldOf(H, p)) - 1 ELSE Cardinality(HeldOf(H, p))
    BY <1>3, FS_RemoveElement
  <1> DEFINE c == Cardinality(HeldOf(H, p))
             d == Cardinality(HeldOf(H \ {b}, p))
  <1>5. c \in Nat /\ (b[1] = p => d = c - 1) /\ (b[1] # p => d = c)
    BY <1>1, <1>2, <1>3, <1>4
  <1> HIDE DEF c, d
  <1>6. d = c - (IF b[1] = p THEN 1 ELSE 0)
    BY <1>5
  <1> QED  BY <1>6 DEF c, d

(* A page has PerPage buffers.                                              *)
LEMMA UsesBound ==
    ASSUME NEW m \in Rx, NEW U, IsFiniteSet(U), NEW H, Apart(m, U, H), U \subseteq Slots, NEW p \in Pages
    PROVE  Cardinality(UsesOf(m, U, p)) + Cardinality(HeldOf(H, p)) <= PerPage
  <1> DEFINE P == {p} \X Parts
             G == HeldOf(H \cup {PlaceOf(m, i) : i \in U}, p)
  <1>1. Cardinality(G) = Cardinality(HeldOf(H, p)) + Cardinality(UsesOf(m, U, p))
    BY HeldAdd
  <1>2. \A i \in U : m.buffer[i].part \in Parts
    <2> TAKE i \in U
    <2>1. m.buffer[i] \in Buffers /\ m.buffer[i].page \in Pages
      BY DEF Rx, Apart
    <2> QED  BY <2>1, BuffersAre
  <1>3. G \in SUBSET P
    BY <1>2 DEF HeldOf, Apart, PlaceOf
  <1>4. IsFiniteSet({p}) /\ Cardinality({p}) = 1
    BY FS_Singleton
  <1>5. IsFiniteSet(Parts) /\ Cardinality(Parts) = PerPage
    BY FS_Interval, Sizes DEF Parts
  <1>6. IsFiniteSet(P) /\ Cardinality(P) = 1 * PerPage
    BY <1>4, <1>5, FS_Product
  <1>7. Cardinality(G) <= Cardinality(P)
    BY <1>3, <1>6, FS_Subset
  <1>8. Cardinality(UsesOf(m, U, p)) \in Nat /\ Cardinality(HeldOf(H, p)) \in Nat
    BY UsesFinite, HeldFinite DEF Apart
  <1> HIDE DEF G, P
  <1> QED  BY <1>1, <1>6, <1>7, <1>8, Sizes

---------------------------------------------------------------------------
(* References and mappings                                                  *)

LEMMA OwnedSame ==
    ASSUME NEW m, NEW n, NEW K, \A i \in K : n.buffer[i] = m.buffer[i]
    PROVE  Owned(n, K) = Owned(m, K)
BY DEF Owned

LEMMA RingedSame ==
    ASSUME NEW m, NEW n, n.page_ring = m.page_ring
    PROVE  Ringed(n) = Ringed(m)
BY DEF Ringed

LEMMA OwnsSame ==
    ASSUME NEW m, NEW n, NEW U, NEW K, NEW H, NEW L, Owns(m, U, K, H, L),
           \A i \in U : n.buffer[i] = m.buffer[i],
           n.page_ring = m.page_ring, n.mapped = m.mapped, n.ref = m.ref
    PROVE  Owns(n, U, K, H, L)
  <1>1. Apart(n, U, H)
    BY DEF Owns, Apart, PlaceOf
  <1>2. K \subseteq U
    BY DEF Owns, OneKeeper
  <1>3. Owned(n, K) = Owned(m, K) /\ Ringed(n) = Ringed(m)
    BY <1>2, OwnedSame, RingedSame
  <1>4. OneKeeper(n, U, K, L)
    BY <1>3 DEF Owns, OneKeeper
  <1>5. \A p : UsesOf(n, U, p) = UsesOf(m, U, p)
    BY UsesSame
  <1>6. \A p \in Pages : n.ref[p] = RefOf(n, U, H, p)
    BY <1>5 DEF Owns, RefOf
  <1> QED  BY <1>1, <1>4, <1>6 DEF Owns

(* Buffers that are no keepers are freed.                                   *)
LEMMA OwnsFree ==
    ASSUME NEW m, NEW n, NEW U, IsFiniteSet(U), NEW K, NEW H, NEW L, Owns(m, U, K, H, L),
           NEW S, S \subseteq U, S \cap K = {},
           \A i \in U \ S : n.buffer[i] = m.buffer[i],
           n.page_ring = m.page_ring, n.mapped = m.mapped,
           \A p \in Pages : n.ref[p] = m.ref[p] - Cardinality(UsesOf(m, S, p))
    PROVE  Owns(n, U \ S, K, H, L)
  <1>1. Apart(n, U \ S, H)
    BY DEF Owns, Apart, PlaceOf
  <1>2. K \subseteq U \ S
    BY DEF Owns, OneKeeper
  <1>3. Owned(n, K) = Owned(m, K) /\ Ringed(n) = Ringed(m)
    BY <1>2, OwnedSame, RingedSame
  <1>4. OneKeeper(n, U \ S, K, L)
    BY <1>2, <1>3 DEF Owns, OneKeeper
  <1>5. \A p \in Pages : n.ref[p] = RefOf(n, U \ S, H, p)
    <2> TAKE p \in Pages
    <2>1. UsesOf(n, U \ S, p) = UsesOf(m, U \ S, p)
      BY UsesSame
    <2>2. Cardinality(UsesOf(m, U \ S, p)) = Cardinality(UsesOf(m, U, p)) - Cardinality(UsesOf(m, S, p))
      BY UsesRemoveSet
    <2>3. IsFiniteSet(S)
      BY FS_Subset
    <2>4. /\ Cardinality(UsesOf(m, U, p)) \in Nat /\ Cardinality(UsesOf(m, S, p)) \in Nat
          /\ Cardinality(HeldOf(H, p)) \in Nat
      BY <2>3, UsesFinite, HeldFinite DEF Owns, Apart
    <2>5. m.ref[p] = RefOf(m, U, H, p) /\ n.ref[p] = m.ref[p] - Cardinality(UsesOf(m, S, p))
      BY DEF Owns
    <2> DEFINE one == IF p \in m.mapped THEN 1 ELSE 0
    <2>6. one \in Int /\ RefOf(n, U \ S, H, p) = Cardinality(UsesOf(n, U \ S, p)) + Cardinality(HeldOf(H, p)) + one
      BY DEF RefOf
    <2>7. m.ref[p] = Cardinality(UsesOf(m, U, p)) + Cardinality(HeldOf(H, p)) + one
      BY <2>5 DEF RefOf
    <2> HIDE DEF one
    <2> QED  BY <2>1, <2>2, <2>4, <2>5, <2>6, <2>7
  <1> QED  BY <1>1, <1>4, <1>5 DEF Owns

LEMMA OwnsFreeOne ==
    ASSUME NEW m, NEW n, NEW U, IsFiniteSet(U), NEW K, NEW H, NEW L, Owns(m, U, K, H, L),
           NEW i \in U, i \notin K, m.ref \in [Pages -> Int],
           \A j \in U \ {i} : n.buffer[j] = m.buffer[j],
           n.page_ring = m.page_ring, n.mapped = m.mapped,
           n.ref = [m.ref EXCEPT ![m.buffer[i].page] = @ - 1]
    PROVE  Owns(n, U \ {i}, K, H, L)
  <1>1. \A p \in Pages : n.ref[p] = m.ref[p] - Cardinality(UsesOf(m, {i}, p))
    <2> TAKE p \in Pages
    <2>1. CASE m.buffer[i].page = p
      <3>1. UsesOf(m, {i}, p) = {i}
        BY <2>1 DEF UsesOf
      <3>2. Cardinality(UsesOf(m, {i}, p)) = 1
        BY <3>1, FS_Singleton
      <3> QED  BY <2>1, <3>2
    <2>2. CASE m.buffer[i].page # p
      <3>1. UsesOf(m, {i}, p) = {}
        BY <2>2 DEF UsesOf
      <3>2. Cardinality(UsesOf(m, {i}, p)) = 0
        BY <3>1, FS_EmptySet
      <3> QED  BY <2>2, <3>2
    <2> QED  BY <2>1, <2>2
  <1>2. {i} \subseteq U /\ {i} \cap K = {}
    OBVIOUS
  <1> QED  BY <1>1, <1>2, OwnsFree

(* The stack takes buffers over.                                            *)
LEMMA OwnsGive ==
    ASSUME NEW m \in Rx, NEW n, NEW U, U \subseteq Slots, NEW K, NEW H, NEW L, Owns(m, U, K, H, L),
           NEW S, S \subseteq U, S \cap K = {},
           \A i \in U \ S : n.buffer[i] = m.buffer[i],
           n.page_ring = m.page_ring, n.mapped = m.mapped, n.ref = m.ref
    PROVE  Owns(n, U \ S, K, H \cup {PlaceOf(m, i) : i \in S}, L)
  <1> DEFINE new == {PlaceOf(m, i) : i \in S}
  <1>0. IsFiniteSet(U) /\ IsFiniteSet(S)
    BY PagesFacts, FS_Subset
  <1>1. Apart(n, U \ S, H \cup new)
    <2>1. \A i \in S : PlaceOf(m, i) \in Pages \X Parts
      <3> TAKE i \in S
      <3>1. m.buffer[i] \in Buffers /\ m.buffer[i].page \in Pages
        BY DEF Rx, Owns, Apart
      <3> QED  BY <3>1, BuffersAre DEF PlaceOf
    <2>2. H \cup new \subseteq Pages \X Parts
      BY <2>1 DEF Owns, Apart
    <2>3. \A i \in U \ S : PlaceOf(n, i) = PlaceOf(m, i)
      BY DEF PlaceOf
    <2>4. \A i \in U \ S : PlaceOf(n, i) \notin H \cup new
      BY <2>3 DEF Owns, Apart
    <2> HIDE DEF new
    <2> QED  BY <2>2, <2>3, <2>4 DEF Owns, Apart
  <1>2. K \subseteq U \ S
    BY DEF Owns, OneKeeper
  <1>3. Owned(n, K) = Owned(m, K) /\ Ringed(n) = Ringed(m)
    BY <1>2, OwnedSame, RingedSame
  <1>4. OneKeeper(n, U \ S, K, L)
    BY <1>2, <1>3 DEF Owns, OneKeeper
  <1>5. \A p \in Pages : n.ref[p] = RefOf(n, U \ S, H \cup new, p)
    <2> TAKE p \in Pages
    <2>1. UsesOf(n, U \ S, p) = UsesOf(m, U \ S, p)
      BY UsesSame
    <2>2. Cardinality(UsesOf(m, U \ S, p)) = Cardinality(UsesOf(m, U, p)) - Cardinality(UsesOf(m, S, p))
      BY <1>0, UsesRemoveSet
    <2>3. Cardinality(HeldOf(H \cup new, p)) = Cardinality(HeldOf(H, p)) + Cardinality(UsesOf(m, S, p))
      BY <1>0, HeldAdd DEF Owns
    <2>4. /\ Cardinality(UsesOf(m, U, p)) \in Nat /\ Cardinality(UsesOf(m, S, p)) \in Nat
          /\ Cardinality(HeldOf(H, p)) \in Nat
      BY <1>0, UsesFinite, HeldFinite DEF Owns, Apart
    <2> DEFINE one == IF p \in m.mapped THEN 1 ELSE 0
    <2>6. one \in Int /\ RefOf(n, U \ S, H \cup new, p) = Cardinality(UsesOf(n, U \ S, p)) + Cardinality(HeldOf(H \cup new, p)) + one
      BY DEF RefOf
    <2>7. n.ref[p] = Cardinality(UsesOf(m, U, p)) + Cardinality(HeldOf(H, p)) + one
      BY DEF RefOf, Owns
    <2> HIDE DEF one, new
    <2> QED  BY <2>1, <2>2, <2>3, <2>4, <2>6, <2>7
  <1> QED  BY <1>1, <1>4, <1>5 DEF Owns

(* A buffer moves to another slot.                                          *)
LEMMA OwnsMove ==
    ASSUME NEW m, NEW n, NEW U, IsFiniteSet(U), NEW K, NEW H, NEW L, Owns(m, U, K, H, L),
           NEW i \in U, NEW a, a \notin U, NEW J, J \subseteq (U \ {i}) \cup {a},
           \A j \in U \ {i} : n.buffer[j] = m.buffer[j],
           n.buffer[a].page = m.buffer[i].page, n.buffer[a].part = m.buffer[i].part,
           n.buffer[a].ring => m.buffer[i].ring,
           Owned(n, J) = Owned(m, K),
           n.page_ring = m.page_ring, n.mapped = m.mapped, n.ref = m.ref
    PROVE  Owns(n, (U \ {i}) \cup {a}, J, H, L)
  <1> DEFINE V == (U \ {i}) \cup {a}
  <1>1. Apart(n, V, H)
    <2>1. PlaceOf(n, a) = PlaceOf(m, i) /\ \A j \in U \ {i} : PlaceOf(n, j) = PlaceOf(m, j)
      BY DEF PlaceOf
    <2> QED  BY <2>1 DEF Owns, Apart
  <1>2. Ringed(n) = Ringed(m)
    BY RingedSame
  <1>4. OneKeeper(n, V, J, L)
    BY <1>2 DEF Owns, OneKeeper
  <1>5. \A p \in Pages : n.ref[p] = RefOf(n, V, H, p)
    <2> TAKE p \in Pages
    <2>1. UsesOf(n, U \ {i}, p) = UsesOf(m, U \ {i}, p)
      BY UsesSame
    <2>2. Cardinality(UsesOf(m, U \ {i}, p)) = Cardinality(UsesOf(m, U, p)) - (IF m.buffer[i].page = p THEN 1 ELSE 0)
      BY UsesRemove
    <2>3. IsFiniteSet(U \ {i})
      BY FS_RemoveElement
    <2>4. Cardinality(UsesOf(n, V, p)) = Cardinality(UsesOf(n, U \ {i}, p)) + (IF n.buffer[a].page = p THEN 1 ELSE 0)
      BY <2>3, UsesAdd
    <2>5. Cardinality(UsesOf(m, U, p)) \in Nat
      BY UsesFinite
    <2> DEFINE one == IF n.buffer[a].page = p THEN 1 ELSE 0
    <2>6. one \in Int /\ one = IF m.buffer[i].page = p THEN 1 ELSE 0
      OBVIOUS
    <2>7. Cardinality(UsesOf(n, V, p)) = Cardinality(UsesOf(m, U, p))
      <3> HIDE DEF one, V
      <3>1. Cardinality(UsesOf(n, V, p)) = Cardinality(UsesOf(n, U \ {i}, p)) + one
        BY <2>4 DEF one
      <3>2. Cardinality(UsesOf(m, U \ {i}, p)) = Cardinality(UsesOf(m, U, p)) - one
        BY <2>2, <2>6
      <3> QED  BY <2>1, <2>5, <2>6, <3>1, <3>2
    <2> HIDE DEF V
    <2> QED  BY <2>7 DEF Owns, RefOf
  <1> QED  BY <1>1, <1>4, <1>5 DEF Owns

(* A part of a recycled page that nobody used is posted.                    *)
LEMMA OwnsPost ==
    ASSUME NEW m, NEW n, NEW U, IsFiniteSet(U), NEW K, NEW H, NEW L, Owns(m, U, K, H, L),
           m.ref \in [Pages -> Int],
           NEW a, a \notin U, n.buffer[a].page \in Ringed(m), n.buffer[a].page \in Pages, n.buffer[a].ring,
           PlaceOf(n, a) \notin H, \A j \in U : PlaceOf(m, j) # PlaceOf(n, a),
           \A j \in U : n.buffer[j] = m.buffer[j],
           n.page_ring = m.page_ring, n.mapped = m.mapped,
           n.ref = [m.ref EXCEPT ![n.buffer[a].page] = @ + 1]
    PROVE  Owns(n, U \cup {a}, K \cup {a}, H, L)
  <1> DEFINE V == U \cup {a}
  <1>1. Apart(n, V, H)
    <2>1. \A j \in U : PlaceOf(n, j) = PlaceOf(m, j)
      BY DEF PlaceOf
    <2> QED  BY <2>1 DEF Owns, Apart
  <1>2. Ringed(n) = Ringed(m) /\ Owned(n, K) = Owned(m, K) /\ K \subseteq U
    BY RingedSame, OwnedSame DEF Owns, OneKeeper
  <1>3. Owned(n, K \cup {a}) = Owned(n, K)
    <2>1. ~Recyclable(n.buffer[a])
      BY DEF Recyclable
    <2> QED  BY <2>1 DEF Owned
  <1>4. OneKeeper(n, V, K \cup {a}, L)
    <2>1. \A i \in U : n.buffer[i].ring => n.buffer[i].page \in Ringed(n)
      BY <1>2 DEF Owns, OneKeeper
    <2>2. n.buffer[a].page \in Ringed(n)
      BY <1>2
    <2>3. \A i \in V : n.buffer[i].ring => n.buffer[i].page \in Ringed(n)
      BY <2>1, <2>2
    <2>4. K \cup {a} \subseteq V
      BY <1>2
    <2>5. \A k, l \in Places : n.page_ring[k] = n.page_ring[l] /\ n.page_ring[k] # NoPage => k = l
      BY DEF Owns, OneKeeper
    <2>6. /\ Ringed(n) \cap Owned(n, K \cup {a}) = {}
          /\ (Ringed(n) \cup Owned(n, K \cup {a})) \cap L = {}
          /\ n.mapped = Ringed(n) \cup Owned(n, K \cup {a}) \cup L
      BY <1>2, <1>3 DEF Owns, OneKeeper
    <2> HIDE DEF V
    <2> QED  BY <2>3, <2>4, <2>5, <2>6 DEF OneKeeper
  <1>5. \A p \in Pages : n.ref[p] = RefOf(n, V, H, p)
    <2> TAKE p \in Pages
    <2>1. UsesOf(n, U, p) = UsesOf(m, U, p)
      BY UsesSame
    <2> DEFINE one == IF n.buffer[a].page = p THEN 1 ELSE 0
               kept == IF p \in m.mapped THEN 1 ELSE 0
    <2>2. Cardinality(UsesOf(n, V, p)) = Cardinality(UsesOf(n, U, p)) + one
      BY UsesAdd
    <2>3. /\ Cardinality(UsesOf(m, U, p)) \in Nat /\ Cardinality(HeldOf(H, p)) \in Nat
          /\ one \in Int /\ kept \in Int
      BY UsesFinite, HeldFinite DEF Owns, Apart
    <2>4. n.ref[p] = m.ref[p] + one
      <3>1. m.ref[p] \in Int
        OBVIOUS
      <3>2. CASE n.buffer[a].page = p
        BY <3>1, <3>2
      <3>3. CASE n.buffer[a].page # p
        BY <3>1, <3>3
      <3> QED  BY <3>2, <3>3
    <2>5. m.ref[p] = Cardinality(UsesOf(m, U, p)) + Cardinality(HeldOf(H, p)) + kept
      BY DEF Owns, RefOf
    <2>6. RefOf(n, V, H, p) = Cardinality(UsesOf(n, V, p)) + Cardinality(HeldOf(H, p)) + kept
      BY DEF RefOf
    <2> HIDE DEF one, kept, V
    <2> QED  BY <2>1, <2>2, <2>3, <2>4, <2>5, <2>6
  <1> QED  BY <1>1, <1>4, <1>5 DEF Owns

(* A page that nobody uses is cut into buffers, which are posted.  It has   *)
(* been in the recycle ring, or is mapped now.                              *)
LEMMA OwnsCut ==
    ASSUME NEW m, NEW n, NEW U, IsFiniteSet(U), NEW K, NEW H, NEW L, Owns(m, U, K, H, L),
           m.ref \in [Pages -> Int],
           NEW q \in Pages, NEW A, IsFiniteSet(A), Cardinality(A) = PerPage, A \cap U = {},
           UsesOf(m, U, q) = {}, HeldOf(H, q) = {},
           \A j \in U : n.buffer[j] = m.buffer[j],
           \A a \in A : n.buffer[a].page = q,
           \A a, b \in A : n.buffer[a].part = n.buffer[b].part => a = b,
           NEW new, new \subseteq {q},
           (q \in Ringed(m) /\ new = {}) \/ (q \notin m.mapped /\ new = {q} /\ (\A a \in A : ~n.buffer[a].ring)),
           Owned(n, A) = new,
           n.page_ring = m.page_ring, n.mapped = m.mapped \cup new,
           n.ref = [m.ref EXCEPT ![q] = PerPage + 1]
    PROVE  Owns(n, U \cup A, K \cup A, H, L)
  <1> DEFINE V == U \cup A
  <1>1. Apart(n, V, H)
    <2>1. \A j \in U : PlaceOf(n, j) = PlaceOf(m, j) /\ n.buffer[j].page # q
      BY DEF PlaceOf, UsesOf
    <2>2. \A a \in A : PlaceOf(n, a) \notin H
      BY DEF PlaceOf, HeldOf, Owns, Apart
    <2>3. \A i, j \in V : PlaceOf(n, i) = PlaceOf(n, j) => i = j
      <3>1. \A i, j \in U : PlaceOf(n, i) = PlaceOf(n, j) => i = j
        BY <2>1 DEF Owns, Apart
      <3>2. \A i \in U, j \in A : PlaceOf(n, i) # PlaceOf(n, j)
        BY <2>1 DEF PlaceOf
      <3>3. \A i, j \in A : PlaceOf(n, i) = PlaceOf(n, j) => i = j
        BY DEF PlaceOf
      <3> QED  BY <3>1, <3>2, <3>3
    <2>4. \A i \in V : n.buffer[i].page \in Pages /\ PlaceOf(n, i) \notin H
      BY <2>1, <2>2 DEF Owns, Apart
    <2> HIDE DEF V
    <2> QED  BY <2>3, <2>4 DEF Owns, Apart
  <1>2. Ringed(n) = Ringed(m) /\ Owned(n, K) = Owned(m, K) /\ K \subseteq U
    BY RingedSame, OwnedSame DEF Owns, OneKeeper
  <1>3. Owned(n, K \cup A) = Owned(m, K) \cup new
    <2>1. Owned(n, K \cup A) = Owned(n, K) \cup Owned(n, A)
      BY DEF Owned
    <2> QED  BY <2>1, <1>2
  <1>4. OneKeeper(n, V, K \cup A, L)
    <2>1. \A i \in U : n.buffer[i].ring => n.buffer[i].page \in Ringed(n)
      BY <1>2 DEF Owns, OneKeeper
    <2>2. \A i \in A : n.buffer[i].ring => n.buffer[i].page \in Ringed(n)
      BY <1>2
    <2>3. \A i \in V : n.buffer[i].ring => n.buffer[i].page \in Ringed(n)
      BY <2>1, <2>2
    <2>4. K \cup A \subseteq V
      BY <1>2
    <2>5. \A k, l \in Places : n.page_ring[k] = n.page_ring[l] /\ n.page_ring[k] # NoPage => k = l
      BY DEF Owns, OneKeeper
    <2>6. /\ Ringed(n) \cap Owned(n, K \cup A) = {}
          /\ (Ringed(n) \cup Owned(n, K \cup A)) \cap L = {}
          /\ n.mapped = Ringed(n) \cup Owned(n, K \cup A) \cup L
      <3>1. /\ Ringed(m) \cap Owned(m, K) = {}
            /\ (Ringed(m) \cup Owned(m, K)) \cap L = {}
            /\ m.mapped = Ringed(m) \cup Owned(m, K) \cup L
        BY DEF Owns, OneKeeper
      <3>2. new = {} \/ (new = {q} /\ q \notin m.mapped)
        OBVIOUS
      <3>3. /\ Ringed(m) \cap (Owned(m, K) \cup new) = {}
            /\ (Ringed(m) \cup (Owned(m, K) \cup new)) \cap L = {}
            /\ m.mapped \cup new = Ringed(m) \cup (Owned(m, K) \cup new) \cup L
        BY <3>1, <3>2
      <3> QED  BY <3>3, <1>2, <1>3
    <2> HIDE DEF V
    <2> QED  BY <2>3, <2>4, <2>5, <2>6 DEF OneKeeper
  <1>5. \A p \in Pages : n.ref[p] = RefOf(n, V, H, p)
    <2> TAKE p \in Pages
    <2>1. CASE p = q
      <3>1. UsesOf(n, V, q) = A
        BY DEF UsesOf
      <3>2. q \in n.mapped
        BY DEF Owns, OneKeeper
      <3>3. Cardinality(HeldOf(H, q)) = 0
        BY FS_EmptySet
      <3>4. n.ref[q] = PerPage + 1
        OBVIOUS
      <3> HIDE DEF V
      <3>5. RefOf(n, V, H, q) = PerPage + 0 + 1
        BY <3>1, <3>2, <3>3 DEF RefOf
      <3> QED  BY <2>1, <3>4, <3>5, Sizes
    <2>2. CASE p # q
      <3>1. UsesOf(n, V, p) = UsesOf(m, U, p)
        BY <2>2 DEF UsesOf
      <3>2. p \in n.mapped <=> p \in m.mapped
        BY <2>2
      <3>3. n.ref[p] = m.ref[p]
        BY <2>2
      <3>4. m.ref[p] = RefOf(m, U, H, p)
        BY DEF Owns
      <3> HIDE DEF V
      <3> QED  BY <3>1, <3>2, <3>3, <3>4 DEF RefOf
    <2> QED  BY <2>1, <2>2
  <1> QED  BY <1>1, <1>4, <1>5 DEF Owns

(* A buffer that is no keeper need not be counted as one.                   *)
LEMMA OwnsPlain ==
    ASSUME NEW m, NEW U, NEW K, NEW H, NEW L, Owns(m, U, K, H, L), NEW i, ~Recyclable(m.buffer[i])
    PROVE  Owns(m, U, K \ {i}, H, L)
  <1>1. Owned(m, K \ {i}) = Owned(m, K)
    BY DEF Owned
  <1>2. OneKeeper(m, U, K \ {i}, L)
    BY <1>1 DEF Owns, OneKeeper
  <1> QED  BY <1>2 DEF Owns

(* A page has one keeper.                                                   *)
LEMMA OwnedOnce ==
    ASSUME NEW m \in Rx, NEW U, U \subseteq Slots, NEW K, NEW H, NEW L, Owns(m, U, K, H, L),
           NEW i \in K, Recyclable(m.buffer[i])
    PROVE  /\ Owned(m, K) = Owned(m, K \ {i}) \cup {m.buffer[i].page}
           /\ m.buffer[i].page \notin Owned(m, K \ {i})
           /\ m.buffer[i].page \in Pages
  <1>1. \A j \in K : Recyclable(m.buffer[j]) => m.buffer[j].part = PerPage - 1 /\ m.buffer[j].page \in Pages
    <2> SUFFICES ASSUME NEW j \in K, Recyclable(m.buffer[j])
                 PROVE  m.buffer[j].part = PerPage - 1 /\ m.buffer[j].page \in Pages
      OBVIOUS
    <2>1. j \in U
      BY DEF Owns, OneKeeper
    <2>2. m.buffer[j] \in Buffers /\ m.buffer[j].page \in Pages
      BY <2>1 DEF Rx, Owns, Apart
    <2> QED  BY <2>2, BuffersAre DEF Recyclable
  <1>2. K \subseteq U
    BY DEF Owns, OneKeeper
  <1>3. \A j \in K : Recyclable(m.buffer[j]) /\ m.buffer[j].page = m.buffer[i].page => j = i
    BY <1>1, <1>2 DEF Owns, Apart, PlaceOf
  <1>4. m.buffer[i].page \notin Owned(m, K \ {i})
    BY <1>3 DEF Owned
  <1>5. Owned(m, K) = Owned(m, K \ {i}) \cup {m.buffer[i].page}
    BY DEF Owned
  <1> QED  BY <1>1, <1>4, <1>5

(* The recycle ring takes a page over from its last buffer.                 *)
LEMMA OwnsInto ==
    ASSUME NEW m \in Rx, NEW n, NEW U, U \subseteq Slots, NEW K, NEW H, NEW L, Owns(m, U, K, H, L),
           NEW i \in K, Recyclable(m.buffer[i]),
           NEW at \in Places, m.page_ring[at] = NoPage,
           n.page_ring = [m.page_ring EXCEPT ![at] = m.buffer[i].page],
           n.buffer = m.buffer, n.mapped = m.mapped, n.ref = m.ref
    PROVE  Owns(n, U, K \ {i}, H, L)
  <1> DEFINE p == m.buffer[i].page
  <1>1. /\ Owned(m, K) = Owned(m, K \ {i}) \cup {p}
        /\ p \notin Owned(m, K \ {i}) /\ p \in Pages
    BY OwnedOnce
  <1>2. m.page_ring \in [Places -> Pages \cup {NoPage}] /\ p # NoPage
    BY <1>1, PagesFacts DEF Rx
  <1> HIDE DEF p
  <1>3. n.page_ring = [m.page_ring EXCEPT ![at] = p]
    BY DEF p
  <1>4. Ringed(n) = Ringed(m) \cup {p}
    <2>1. n.page_ring[at] = p
      BY <1>2, <1>3
    <2>2. \A k \in Places : k # at => n.page_ring[k] = m.page_ring[k]
      BY <1>2, <1>3
    <2> QED  BY <1>2, <2>1, <2>2 DEF Ringed
  <1>5. p \notin Ringed(m)
    BY <1>1 DEF Owns, OneKeeper
  <1>6. Owned(n, K \ {i}) = Owned(m, K \ {i})
    BY DEF Owned
  <1>7. Apart(n, U, H)
    BY DEF Owns, Apart, PlaceOf
  <1>8. OneKeeper(n, U, K \ {i}, L)
    <2>1. \A j \in U : n.buffer[j].ring => n.buffer[j].page \in Ringed(n)
      BY <1>4 DEF Owns, OneKeeper
    <2>2. \A k, l \in Places : n.page_ring[k] = n.page_ring[l] /\ n.page_ring[k] # NoPage => k = l
      <3>1. \A k \in Places : m.page_ring[k] # p
        BY <1>2, <1>5 DEF Ringed
      <3>2. n.page_ring[at] = p /\ \A k \in Places : k # at => n.page_ring[k] = m.page_ring[k]
        BY <1>2, <1>3
      <3> QED  BY <3>1, <3>2 DEF Owns, OneKeeper
    <2>3. /\ Ringed(n) \cap Owned(n, K \ {i}) = {}
          /\ (Ringed(n) \cup Owned(n, K \ {i})) \cap L = {}
          /\ n.mapped = Ringed(n) \cup Owned(n, K \ {i}) \cup L
      <3>1. /\ Ringed(m) \cap Owned(m, K) = {}
            /\ (Ringed(m) \cup Owned(m, K)) \cap L = {}
            /\ m.mapped = Ringed(m) \cup Owned(m, K) \cup L
        BY DEF Owns, OneKeeper
      <3> QED  BY <3>1, <1>1, <1>4, <1>6
    <2>4. K \ {i} \subseteq U
      BY DEF Owns, OneKeeper
    <2> QED  BY <2>1, <2>2, <2>3, <2>4 DEF OneKeeper
  <1>9. \A r \in Pages : UsesOf(n, U, r) = UsesOf(m, U, r)
    BY UsesSame
  <1>10. \A r \in Pages : n.ref[r] = RefOf(n, U, H, r)
    BY <1>9 DEF Owns, RefOf
  <1> QED  BY <1>7, <1>8, <1>10 DEF Owns

(* ... or there is no room in the ring, and the page is unmapped.           *)
LEMMA OwnsRelease ==
    ASSUME NEW m \in Rx, NEW n, NEW U, U \subseteq Slots, NEW K, NEW H, NEW L, Owns(m, U, K, H, L),
           NEW i \in K, Recyclable(m.buffer[i]),
           n.page_ring = m.page_ring, n.buffer = m.buffer,
           n.mapped = m.mapped \ {m.buffer[i].page},
           n.ref = [m.ref EXCEPT ![m.buffer[i].page] = @ - 1]
    PROVE  Owns(n, U, K \ {i}, H, L)
  <1> DEFINE p == m.buffer[i].page
  <1>1. /\ Owned(m, K) = Owned(m, K \ {i}) \cup {p}
        /\ p \notin Owned(m, K \ {i}) /\ p \in Pages
    BY OwnedOnce
  <1>2. m.ref \in [Pages -> Int]
    BY DEF Rx
  <1> HIDE DEF p
  <1>3. n.mapped = m.mapped \ {p} /\ n.ref = [m.ref EXCEPT ![p] = @ - 1]
    BY DEF p
  <1>4. Ringed(n) = Ringed(m) /\ Owned(n, K \ {i}) = Owned(m, K \ {i})
    BY RingedSame DEF Owned
  <1>5. /\ Ringed(m) \cap Owned(m, K) = {}
        /\ (Ringed(m) \cup Owned(m, K)) \cap L = {}
        /\ m.mapped = Ringed(m) \cup Owned(m, K) \cup L
    BY DEF Owns, OneKeeper
  <1>6. p \in m.mapped
    BY <1>1, <1>5
  <1>7. Apart(n, U, H)
    BY DEF Owns, Apart, PlaceOf
  <1>8. OneKeeper(n, U, K \ {i}, L)
    <2>1. \A j \in U : n.buffer[j].ring => n.buffer[j].page \in Ringed(n)
      BY <1>4 DEF Owns, OneKeeper
    <2>2. \A k, l \in Places : n.page_ring[k] = n.page_ring[l] /\ n.page_ring[k] # NoPage => k = l
      BY DEF Owns, OneKeeper
    <2>3. /\ Ringed(n) \cap Owned(n, K \ {i}) = {}
          /\ (Ringed(n) \cup Owned(n, K \ {i})) \cap L = {}
          /\ n.mapped = Ringed(n) \cup Owned(n, K \ {i}) \cup L
      <3>1. p \notin Ringed(m) /\ p \notin L
        BY <1>1, <1>5
      <3>2. m.mapped = Ringed(m) \cup (Owned(m, K \ {i}) \cup {p}) \cup L
        BY <1>1, <1>5
      <3>3. m.mapped \ {p} = Ringed(m) \cup Owned(m, K \ {i}) \cup L
        BY <1>1, <3>1, <3>2
      <3>4. Owned(m, K \ {i}) \subseteq Owned(m, K)
        BY <1>1
      <3> QED  BY <1>3, <1>4, <1>5, <3>3, <3>4
    <2>4. K \ {i} \subseteq U
      BY DEF Owns, OneKeeper
    <2> QED  BY <2>1, <2>2, <2>3, <2>4 DEF OneKeeper
  <1>10. \A r \in Pages : n.ref[r] = RefOf(n, U, H, r)
    <2> TAKE r \in Pages
    <2>1. UsesOf(n, U, r) = UsesOf(m, U, r)
      BY UsesSame
    <2>2. m.ref[r] = RefOf(m, U, H, r)
      BY DEF Owns
    <2>3. CASE r = p
      <3>1. n.ref[r] = m.ref[r] - 1 /\ r \in m.mapped /\ r \notin n.mapped
        BY <1>2, <1>3, <1>6, <2>3
      <3>2. IsFiniteSet(U) /\ H \subseteq Pages \X Parts
        BY PagesFacts, FS_Subset DEF Owns, Apart
      <3> DEFINE c == Cardinality(UsesOf(m, U, r)) + Cardinality(HeldOf(H, r))
      <3>3. c \in Nat
        <4>1. Cardinality(UsesOf(m, U, r)) \in Nat
          BY <3>2, UsesFinite
        <4>2. Cardinality(HeldOf(H, r)) \in Nat
          BY <3>2, HeldFinite
        <4> QED  BY <4>1, <4>2
      <3>4. /\ RefOf(m, U, H, r) = Cardinality(UsesOf(m, U, r)) + Cardinality(HeldOf(H, r)) + 1
            /\ RefOf(n, U, H, r) = Cardinality(UsesOf(m, U, r)) + Cardinality(HeldOf(H, r)) + 0
        BY <2>1, <3>1 DEF RefOf
      <3>5. RefOf(m, U, H, r) = c + 1 /\ RefOf(n, U, H, r) = c + 0
        BY <3>4
      <3> HIDE DEF c
      <3> QED  BY <2>2, <3>1, <3>3, <3>5
    <2>4. CASE r # p
      <3>1. n.ref[r] = m.ref[r] /\ (r \in m.mapped <=> r \in n.mapped)
        BY <1>2, <1>3, <2>4
      <3> QED  BY <2>1, <2>2, <3>1 DEF RefOf
    <2> QED  BY <2>3, <2>4
  <1> QED  BY <1>7, <1>8, <1>10 DEF Owns

(* The stack frees a buffer.                                                *)
LEMMA OwnsUnhold ==
    ASSUME NEW m \in Rx, NEW n, NEW U, U \subseteq Slots, NEW K, NEW H, NEW L, Owns(m, U, K, H, L),
           NEW b \in H, n.page_ring = m.page_ring, n.buffer = m.buffer, n.mapped = m.mapped,
           n.ref = [m.ref EXCEPT ![b[1]] = @ - 1]
    PROVE  Owns(n, U, K, H \ {b}, L)
  <1>1. Apart(n, U, H \ {b})
    BY DEF Owns, Apart, PlaceOf
  <1>2. Ringed(n) = Ringed(m) /\ Owned(n, K) = Owned(m, K)
    BY RingedSame DEF Owned
  <1>3. OneKeeper(n, U, K, L)
    BY <1>2 DEF Owns, OneKeeper
  <1>4. \A p \in Pages : n.ref[p] = RefOf(n, U, H \ {b}, p)
    <2> TAKE p \in Pages
    <2> DEFINE u == Cardinality(UsesOf(m, U, p))
               h == Cardinality(HeldOf(H, p))
               g == Cardinality(HeldOf(H \ {b}, p))
               one == IF b[1] = p THEN 1 ELSE 0
               kept == IF p \in m.mapped THEN 1 ELSE 0
    <2>0. H \subseteq Pages \X Parts /\ IsFiniteSet(U)
      BY PagesFacts, FS_Subset DEF Owns, Apart
    <2>1. UsesOf(n, U, p) = UsesOf(m, U, p)
      BY UsesSame
    <2>2. g = h - one
      BY <2>0, HeldRemove
    <2>3. u \in Nat /\ h \in Nat /\ one \in Int /\ kept \in Int
      BY <2>0, UsesFinite, HeldFinite
    <2>4. m.ref \in [Pages -> Int] /\ b[1] \in Pages
      BY <2>0 DEF Rx
    <2>5. n.ref[p] = m.ref[p] - one
      <3>1. m.ref[p] \in Int
        BY <2>4
      <3>2. CASE b[1] = p
        BY <2>4, <3>1, <3>2
      <3>3. CASE b[1] # p
        BY <2>4, <3>1, <3>3
      <3> QED  BY <3>2, <3>3
    <2>6. m.ref[p] = u + h + kept
      BY DEF Owns, RefOf
    <2>7. RefOf(n, U, H \ {b}, p) = u + g + kept
      BY <2>1 DEF RefOf
    <2> HIDE DEF u, g, h, one, kept
    <2> QED  BY <2>2, <2>3, <2>5, <2>6, <2>7
  <1> QED  BY <1>1, <1>3, <1>4 DEF Owns

(* The recycle ring is emptied when there are no buffers.                   *)
LEMMA OwnsUnring ==
    ASSUME NEW m \in Rx, NEW n, NEW H, NEW L, Owns(m, {}, {}, H, L),
           \A k \in Places : n.page_ring[k] = NoPage,
           n.mapped = m.mapped \ Ringed(m),
           n.ref = [p \in Pages |-> IF p \in Ringed(m) THEN m.ref[p] - 1 ELSE m.ref[p]]
    PROVE  Owns(n, {}, {}, H, L) /\ n.mapped = L
  <1>1. Apart(n, {}, H)
    BY DEF Owns, Apart
  <1>2. Ringed(n) = {} /\ Owned(n, {}) = {} /\ Owned(m, {}) = {}
    BY DEF Ringed, Owned
  <1>3. /\ (Ringed(m) \cup Owned(m, {})) \cap L = {}
        /\ m.mapped = Ringed(m) \cup Owned(m, {}) \cup L
    BY DEF Owns, OneKeeper
  <1>4. n.mapped = L
    BY <1>2, <1>3
  <1>5. OneKeeper(n, {}, {}, L)
    BY <1>2, <1>4 DEF OneKeeper
  <1>6. \A p \in Pages : n.ref[p] = RefOf(n, {}, H, p)
    <2> TAKE p \in Pages
    <2> DEFINE u == Cardinality(UsesOf(m, {}, p))
               h == Cardinality(HeldOf(H, p))
    <2>1. UsesOf(n, {}, p) = UsesOf(m, {}, p)
      BY UsesSame
    <2>2. IsFiniteSet({}) /\ H \subseteq Pages \X Parts
      BY FS_EmptySet DEF Owns, Apart
    <2>3. u \in Nat /\ h \in Nat
      BY <2>2, UsesFinite, HeldFinite
    <2>4. /\ m.ref[p] = u + h + (IF p \in m.mapped THEN 1 ELSE 0)
          /\ RefOf(n, {}, H, p) = u + h + (IF p \in n.mapped THEN 1 ELSE 0)
      BY <2>1 DEF Owns, RefOf
    <2>5. m.ref[p] \in Int /\ n.ref[p] = IF p \in Ringed(m) THEN m.ref[p] - 1 ELSE m.ref[p]
      BY DEF Rx
    <2> HIDE DEF u, h
    <2>6. CASE p \in Ringed(m)
      <3>1. p \in m.mapped /\ p \notin n.mapped
        BY <1>3, <2>6
      <3> QED  BY <2>3, <2>4, <2>5, <2>6, <3>1
    <2>7. CASE p \notin Ringed(m)
      <3>1. p \in m.mapped <=> p \in n.mapped
        BY <2>7
      <3> QED  BY <2>3, <2>4, <2>5, <2>7, <3>1
    <2> QED  BY <2>6, <2>7
  <1> QED  BY <1>1, <1>4, <1>5, <1>6 DEF Owns

(* Buffers that the queue forgets, and the pages they keep.                 *)
LEMMA OwnsLost ==
    ASSUME NEW m \in Rx, NEW U, U \subseteq Slots, NEW H, Owns(m, U, U, H, {})
    PROVE  Owns(m, {}, {}, H \cup {PlaceOf(m, i) : i \in U}, Owned(m, U))
  <1>1. Owned(m, {}) = {}
    BY DEF Owned
  <1>2. OneKeeper(m, U, {}, Owned(m, U))
    <2>1. \A j \in U : m.buffer[j].ring => m.buffer[j].page \in Ringed(m)
      BY DEF Owns, OneKeeper
    <2>2. \A k, l \in Places : m.page_ring[k] = m.page_ring[l] /\ m.page_ring[k] # NoPage => k = l
      BY DEF Owns, OneKeeper
    <2>3. Ringed(m) \cap Owned(m, U) = {} /\ m.mapped = Ringed(m) \cup Owned(m, U)
      BY DEF Owns, OneKeeper
    <2> QED  BY <1>1, <2>1, <2>2, <2>3 DEF OneKeeper
  <1>3. Owns(m, U, {}, H, Owned(m, U))
    BY <1>2 DEF Owns
  <1> DEFINE new == {PlaceOf(m, i) : i \in U}
             L == Owned(m, U)
  <1> HIDE DEF L
  <1>4. Owns(m, U \ U, {}, H \cup new, L)
    BY <1>3, OwnsGive DEF L
  <1>5. U \ U = {}
    OBVIOUS
  <1> QED  BY <1>4, <1>5 DEF L

---------------------------------------------------------------------------
(* The functions of the poll, one buffer at a time                          *)

(* n differs from m in its buffers and pages only.                          *)
SameQueue(m, n) ==
    /\ n.noted = m.noted /\ n.removed = m.removed /\ n.pkt = m.pkt
    /\ n.refill_enabled = m.refill_enabled /\ n.spent = m.spent

LEMMA PlacesAre ==
    /\ Cardinality(Places) \in Nat /\ Cardinality(Places) # 0
    /\ Places = 0 .. Cardinality(Places) - 1
    /\ \A k \in Int : k % Cardinality(Places) \in Places
  <1> DEFINE q == RecycleSize \div PerPage
  <1>1. RecycleSize \in Nat /\ PerPage \in Nat /\ PerPage >= 1 /\ RecycleSize % PerPage = 0 /\ RecycleSize >= PerPage
    BY SizesPos, RecycleFits
  <1>2. q \in Int /\ RecycleSize = q * PerPage
    BY <1>1
  <1> HIDE DEF q
  <1>3. q >= 1
    <2> SUFFICES ASSUME q <= 0  PROVE FALSE
      BY <1>2
    <2>1. (0 - q) * PerPage >= 0
      BY <1>1, <1>2
    <2>2. q * PerPage = 0 - ((0 - q) * PerPage)
      BY <1>1, <1>2
    <2> QED  BY <1>1, <1>2, <2>1, <2>2
  <1>4. Places = 0 .. q - 1
    BY DEF Places, q
  <1>5. Cardinality(Places) = q
    BY <1>2, <1>3, <1>4, FS_Interval
  <1>6. q \in Nat /\ q # 0
    BY <1>2, <1>3
  <1>7. \A k \in Int : k % q \in 0 .. q - 1
    BY <1>6, ModDef
  <1> DEFINE c == Cardinality(Places)
  <1>8. c = q
    BY <1>5
  <1> HIDE DEF c
  <1>9. c \in Nat /\ c # 0 /\ Places = 0 .. c - 1 /\ \A k \in Int : k % c \in Places
    BY <1>4, <1>6, <1>7, <1>8
  <1> QED  BY <1>9 DEF c

LEMMA SameAt ==
    ASSUME NEW m, NEW n, n.removed = m.removed
    PROVE  /\ \A k : At(n, k) = At(m, k)
           /\ \A lo, hi : Window(n, lo, hi) = Window(m, lo, hi)
  <1>1. \A k : At(n, k) = At(m, k)
    BY DEF At
  <1> QED  BY <1>1 DEF Window

(* Records with some fields changed.                                        *)
WithBuffer(m, a, buf, c) == [m EXCEPT !.buffer[a] = buf, !.added = c]
WithRing(m, at, p, c)    == [m EXCEPT !.page_ring[at] = p, !.page_add = c]
WithPages(m, r, s)       == [m EXCEPT !.ref = r, !.mapped = s]

LEMMA RxBuffer ==
    ASSUME NEW m \in Rx, NEW a \in Slots, NEW buf \in Buffers, NEW c \in Counts,
           NEW n, n = WithBuffer(m, a, buf, c)
    PROVE  /\ n \in Rx /\ SameQueue(m, n) /\ n.added = c
           /\ n.buffer = [m.buffer EXCEPT ![a] = buf]
           /\ n.page_ring = m.page_ring /\ n.mapped = m.mapped /\ n.ref = m.ref
           /\ n.page_remove = m.page_remove /\ n.page_add = m.page_add /\ n.slow = m.slow
  <1>1. n \in Rx
    BY DEF WithBuffer, Rx
  <1>2. SameQueue(m, n)
    BY DEF WithBuffer, Rx, SameQueue
  <1>3. /\ n.added = c /\ n.buffer = [m.buffer EXCEPT ![a] = buf]
        /\ n.page_ring = m.page_ring /\ n.mapped = m.mapped /\ n.ref = m.ref
        /\ n.page_remove = m.page_remove /\ n.page_add = m.page_add /\ n.slow = m.slow
    BY DEF WithBuffer, Rx
  <1> QED  BY <1>1, <1>2, <1>3

LEMMA RxRing ==
    ASSUME NEW m \in Rx, NEW at \in Places, NEW p \in Pages \cup {NoPage}, NEW c \in 0 .. RecycleSize,
           NEW n, n = WithRing(m, at, p, c)
    PROVE  /\ n \in Rx /\ SameQueue(m, n) /\ n.added = m.added /\ n.buffer = m.buffer
           /\ n.page_ring = [m.page_ring EXCEPT ![at] = p] /\ n.mapped = m.mapped /\ n.ref = m.ref
           /\ n.page_remove = m.page_remove /\ n.slow = m.slow
  <1>1. n \in Rx
    BY DEF WithRing, Rx
  <1>2. SameQueue(m, n)
    BY DEF WithRing, Rx, SameQueue
  <1>3. /\ n.added = m.added /\ n.buffer = m.buffer
        /\ n.page_ring = [m.page_ring EXCEPT ![at] = p] /\ n.mapped = m.mapped /\ n.ref = m.ref
        /\ n.page_remove = m.page_remove /\ n.slow = m.slow
    BY DEF WithRing, Rx
  <1> QED  BY <1>1, <1>2, <1>3

LEMMA RxPages ==
    ASSUME NEW m \in Rx, NEW r \in [Pages -> Int], NEW s \in SUBSET Pages,
           NEW n, n = WithPages(m, r, s)
    PROVE  /\ n \in Rx /\ SameQueue(m, n) /\ n.added = m.added /\ n.buffer = m.buffer
           /\ n.page_ring = m.page_ring /\ n.mapped = s /\ n.ref = r
           /\ n.page_remove = m.page_remove /\ n.page_add = m.page_add /\ n.slow = m.slow
  <1>1. n \in Rx
    BY DEF WithPages, Rx
  <1>2. SameQueue(m, n)
    BY DEF WithPages, Rx, SameQueue
  <1>3. /\ n.added = m.added /\ n.buffer = m.buffer
        /\ n.page_ring = m.page_ring /\ n.mapped = s /\ n.ref = r
        /\ n.page_remove = m.page_remove /\ n.page_add = m.page_add /\ n.slow = m.slow
    BY DEF WithPages, Rx
  <1> QED  BY <1>1, <1>2, <1>3

LEMMA PostIs ==
    ASSUME NEW m \in Rx, NEW buf \in Buffers, Fill(m) + 1 < CountSpace, NEW n, n = Post(m, buf)
    PROVE  /\ n \in Rx /\ Fill(n) = Fill(m) + 1 /\ SameQueue(m, n)
           /\ n.buffer = [m.buffer EXCEPT ![At(m, Fill(m))] = buf]
           /\ n.page_ring = m.page_ring /\ n.mapped = m.mapped /\ n.ref = m.ref
           /\ n.page_remove = m.page_remove /\ n.page_add = m.page_add /\ n.slow = m.slow
  <1>1. Slot(m.added) = At(m, Fill(m)) /\ At(m, Fill(m)) \in Slots
    BY AddedAt, AtSlot, FillRange
  <1>2. m.added \in Counts /\ m.removed \in Counts
    BY DEF Rx
  <1>3. Incr(m.added, 1) \in Counts
    BY <1>2, IncrRange
  <1> DEFINE a == At(m, Fill(m))  c == Incr(m.added, 1)
  <1>4. a \in Slots /\ c \in Counts /\ n = WithBuffer(m, a, buf, c)
    BY <1>1, <1>3 DEF Post, WithBuffer
  <1> HIDE DEF a, c
  <1>5. /\ n \in Rx /\ SameQueue(m, n) /\ n.added = c
        /\ n.buffer = [m.buffer EXCEPT ![a] = buf]
        /\ n.page_ring = m.page_ring /\ n.mapped = m.mapped /\ n.ref = m.ref
        /\ n.page_remove = m.page_remove /\ n.page_add = m.page_add /\ n.slow = m.slow
    BY <1>4, RxBuffer
  <1>6. Behind(Incr(m.added, 1), m.removed) = Behind(m.added, m.removed) + 1
    BY <1>2, BehindNext DEF Fill
  <1> QED  BY <1>5, <1>6 DEF Fill, SameQueue, a, c

(* What is in the buffers of Good.                                          *)
LEMMA GoodBuffer ==
    ASSUME NEW m, NEW lo, NEW kl, NEW H, NEW L, Good(m, lo, kl, H, L), NEW k \in lo .. Fill(m) - 1
    PROVE  /\ m \in Rx /\ lo \in Int /\ kl \in Int /\ Fill(m) \in Nat
           /\ At(m, k) \in Window(m, lo, Fill(m)) /\ At(m, k) \in Slots
           /\ m.buffer[At(m, k)] \in Buffers
           /\ m.buffer[At(m, k)].page \in Pages /\ m.buffer[At(m, k)].part \in Parts
           /\ m.buffer[At(m, k)].last = (m.buffer[At(m, k)].part = PerPage - 1)
           /\ m.buffer[At(m, k)].ring \in BOOLEAN /\ m.buffer[At(m, k)].again \in BOOLEAN
           /\ m.buffer[At(m, k)] # NoBuf
           /\ m.buffer[At(m, k)].ring => m.buffer[At(m, k)].page \in Ringed(m)
  <1>1. m \in Rx /\ lo \in Int /\ kl \in Int /\ Fill(m) \in Nat /\ k \in Int
    BY FillRange DEF Good
  <1>2. At(m, k) \in Window(m, lo, Fill(m)) /\ At(m, k) \in Slots
    BY <1>1, AtSlot DEF Window
  <1>3. m.buffer[At(m, k)] \in Buffers
    BY <1>1, <1>2 DEF Rx
  <1>4. m.buffer[At(m, k)].page \in Pages
    BY <1>2 DEF Good, Owns, Apart
  <1>5. m.buffer[At(m, k)].ring => m.buffer[At(m, k)].page \in Ringed(m)
    BY <1>2 DEF Good, Owns, OneKeeper
  <1> QED  BY <1>1, <1>2, <1>3, <1>4, <1>5, BuffersAre

(* efx_recycle_rx_page                                                      *)
LEMMA GoodRecycle ==
    ASSUME NEW m, NEW lo, NEW kl, NEW H, NEW L, Good(m, lo, kl, H, L), kl < Fill(m),
           NEW n, n = RecyclePage(m, At(m, kl))
    PROVE  /\ Good(n, lo, kl + 1, H, L) /\ SameQueue(m, n)
           /\ n.buffer = m.buffer /\ n.added = m.added /\ n.slow = m.slow
  <1> DEFINE i == At(m, kl)
             p == m.buffer[i].page
             U == Window(m, lo, Fill(m))
             K == Window(m, kl, Fill(m))
             at == m.page_add % Cardinality(Places)
  <1>1. /\ m \in Rx /\ lo \in Int /\ kl \in Int /\ Fill(m) \in Nat /\ lo <= kl /\ Fill(m) - lo <= RingSize
        /\ Owns(m, U, K, H, L) /\ Chain(m, kl)
    BY FillRange DEF Good
  <1>2. kl \in lo .. Fill(m) - 1
    BY <1>1
  <1>3. p \in Pages
    BY <1>2, GoodBuffer
  <1>4. i \in K /\ K \ {i} = Window(m, kl + 1, Fill(m)) /\ U \subseteq Slots
    <2>1. Fill(m) - kl <= RingSize
      BY <1>1, Sizes
    <2> QED  BY <1>1, <2>1, WindowFirst, WindowSlots
  <1>5. at \in Places /\ m.page_add \in 0 .. RecycleSize /\ RecycleSize \in Nat
    <2>1. m.page_add \in 0 .. RecycleSize /\ RecycleSize \in Nat
      BY <1>1, SizesPos DEF Rx
    <2>2. m.page_add \in Int
      BY <2>1
    <2> QED  BY <2>1, <2>2, PlacesAre
  <1> HIDE DEF i, p, at, U, K
  <1>6. n = IF Recyclable(m.buffer[i]) THEN RecycleInto(m, at, p) ELSE m
    BY DEF RecyclePage, i, p, at
  <1>7. /\ n \in Rx /\ SameQueue(m, n) /\ n.buffer = m.buffer /\ n.added = m.added /\ n.slow = m.slow
        /\ Owns(n, U, K \ {i}, H, L)
    <2>1. CASE ~Recyclable(m.buffer[i])
      BY <2>1, <1>1, <1>6, OwnsPlain DEF SameQueue
    <2>2. CASE Recyclable(m.buffer[i]) /\ m.page_add # RecycleSize /\ m.page_ring[at] = NoPage
      <3>1. n = [m EXCEPT !.page_ring[at] = p, !.page_add = @ + 1]
        BY <2>2, <1>6 DEF RecycleInto
      <3>2. /\ n \in Rx /\ SameQueue(m, n) /\ n.buffer = m.buffer /\ n.added = m.added /\ n.slow = m.slow
            /\ n.page_ring = [m.page_ring EXCEPT ![at] = p] /\ n.mapped = m.mapped /\ n.ref = m.ref
        <4>1. m.page_add + 1 \in 0 .. RecycleSize
          BY <2>2, <1>5
        <4>2. n = WithRing(m, at, p, m.page_add + 1)
          BY <3>1 DEF WithRing
        <4>3. p \in Pages \cup {NoPage}
          BY <1>3
        <4> QED  BY <4>1, <4>2, <4>3, <1>1, <1>5, RxRing
      <3>3. Owns(n, U, K \ {i}, H, L)
        BY <3>2, <2>2, <1>1, <1>4, <1>5, OwnsInto DEF p
      <3> QED  BY <3>2, <3>3
    <2>3. CASE Recyclable(m.buffer[i]) /\ ~(m.page_add # RecycleSize /\ m.page_ring[at] = NoPage)
      <3>1. n = [m EXCEPT !.ref = [m.ref EXCEPT ![p] = @ - 1], !.mapped = m.mapped \ {p}]
        BY <2>3, <1>6, <1>1 DEF RecycleInto, Release, PutPage, Rx
      <3>2. /\ n \in Rx /\ SameQueue(m, n) /\ n.buffer = m.buffer /\ n.added = m.added /\ n.slow = m.slow
            /\ n.page_ring = m.page_ring /\ n.mapped = m.mapped \ {p} /\ n.ref = [m.ref EXCEPT ![p] = @ - 1]
        <4> DEFINE r == [m.ref EXCEPT ![p] = @ - 1]  s == m.mapped \ {p}
        <4>1. r \in [Pages -> Int] /\ s \in SUBSET Pages
          BY <1>1, <1>3 DEF Rx
        <4>2. n = WithPages(m, r, s)
          BY <3>1 DEF WithPages
        <4> HIDE DEF r, s
        <4>3. /\ n \in Rx /\ SameQueue(m, n) /\ n.buffer = m.buffer /\ n.added = m.added /\ n.slow = m.slow
              /\ n.page_ring = m.page_ring /\ n.mapped = s /\ n.ref = r
          BY <4>1, <4>2, <1>1, RxPages
        <4> QED  BY <4>3 DEF r, s
      <3>3. Owns(n, U, K \ {i}, H, L)
        BY <3>2, <2>3, <1>1, <1>4, OwnsRelease DEF p
      <3> QED  BY <3>2, <3>3
    <2> QED  BY <2>1, <2>2, <2>3
  <1>8. Fill(n) = Fill(m) /\ n.removed = m.removed
    BY <1>7 DEF Fill, SameQueue
  <1>9. Owns(n, Window(n, lo, Fill(n)), Window(n, kl + 1, Fill(n)), H, L)
    BY <1>4, <1>7, <1>8, SameAt DEF U
  <1>10. Chain(n, kl + 1)
    <2>1. \A k : At(n, k) = At(m, k)
      BY <1>8, SameAt
    <2> QED  BY <1>1, <1>7, <1>8, <2>1 DEF Chain
  <1> QED  BY <1>1, <1>7, <1>8, <1>9, <1>10 DEF Good

LEMMA ClearIs ==
    ASSUME NEW m \in Rx, NEW S, NEW n, n = Clear(m, S)
    PROVE  /\ n \in Rx /\ SameQueue(m, n) /\ n.added = m.added /\ n.slow = m.slow
           /\ \A i \in Slots : n.buffer[i] = IF i \in S THEN NoBuf ELSE m.buffer[i]
           /\ n.page_ring = m.page_ring /\ n.mapped = m.mapped /\ n.ref = m.ref
  <1> DEFINE buffer == [i \in Slots |-> IF i \in S THEN NoBuf ELSE m.buffer[i]]
  <1>1. buffer \in [Slots -> Buffers]
    BY BufferMade DEF Rx
  <1>2. n = [m EXCEPT !.buffer = buffer]
    BY DEF Clear, Rx
  <1>3. \A i \in Slots : buffer[i] = IF i \in S THEN NoBuf ELSE m.buffer[i]
    OBVIOUS
  <1> HIDE DEF buffer
  <1>4. n \in Rx
    BY <1>1, <1>2 DEF Rx
  <1>5. SameQueue(m, n)
    BY <1>2 DEF Rx, SameQueue
  <1>6. /\ n.added = m.added /\ n.slow = m.slow /\ n.buffer = buffer
        /\ n.page_ring = m.page_ring /\ n.mapped = m.mapped /\ n.ref = m.ref
    BY <1>2 DEF Rx
  <1> QED  BY <1>3, <1>4, <1>5, <1>6

LEMMA RepeatIs ==
    ASSUME NEW m \in Rx, Fill(m) + 1 < CountSpace, NEW i \in Slots, m.buffer[i] \in Buffers, m.buffer[i] # NoBuf,
           i # At(m, Fill(m)), NEW n, n = Repeat(m, i)
    PROVE  /\ n \in Rx /\ Fill(n) = Fill(m) + 1 /\ SameQueue(m, n) /\ n.slow = m.slow
           /\ \A j \in Slots : j # i /\ j # At(m, Fill(m)) => n.buffer[j] = m.buffer[j]
           /\ n.buffer[At(m, Fill(m))] = [m.buffer[i] EXCEPT !.again = ~m.buffer[i].last /\ ~m.buffer[i].ring]
           /\ n.page_ring = m.page_ring /\ n.mapped = m.mapped /\ n.ref = m.ref
  <1> DEFINE buf == [m.buffer[i] EXCEPT !.again = ~m.buffer[i].last /\ ~m.buffer[i].ring]
             o == Post(m, buf)
             a == At(m, Fill(m))
  <1>1. n = [o EXCEPT !.buffer[i] = NoBuf]
    BY DEF Repeat
  <1>2. buf \in Buffers
    <2>1. (~m.buffer[i].last /\ ~m.buffer[i].ring) \in BOOLEAN
      OBVIOUS
    <2> QED  BY <2>1, BufferAgain
  <1>3. /\ o \in Rx /\ Fill(o) = Fill(m) + 1 /\ SameQueue(m, o)
        /\ o.buffer = [m.buffer EXCEPT ![a] = buf]
        /\ o.page_ring = m.page_ring /\ o.mapped = m.mapped /\ o.ref = m.ref /\ o.slow = m.slow
    <2> HIDE DEF buf
    <2> QED  BY <1>2, PostIs
  <1>4. a \in Slots
    BY AtSlot, FillRange
  <1> HIDE DEF buf, o, a
  <1>5. n = WithBuffer(o, i, NoBuf, o.added)
    BY <1>1, <1>3 DEF WithBuffer, Rx
  <1>6. /\ n \in Rx /\ SameQueue(o, n) /\ n.added = o.added
        /\ n.buffer = [o.buffer EXCEPT ![i] = NoBuf]
        /\ n.page_ring = o.page_ring /\ n.mapped = o.mapped /\ n.ref = o.ref /\ n.slow = o.slow
    <2>1. o.added \in Counts
      BY <1>3 DEF Rx
    <2> QED  BY <1>3, <1>5, <2>1, BufferMade, RxBuffer
  <1>7. m.buffer \in [Slots -> Buffers] /\ o.buffer \in [Slots -> Buffers]
    BY <1>3 DEF Rx
  <1>8. /\ \A j \in Slots : j # i /\ j # a => n.buffer[j] = m.buffer[j]
        /\ n.buffer[a] = buf
    <2>1. i # a
      BY DEF a
    <2> QED  BY <1>3, <1>4, <1>6, <1>7, <2>1
  <1>9. Fill(n) = Fill(o) /\ SameQueue(m, n)
    BY <1>3, <1>6 DEF Fill, SameQueue
  <1> QED  BY <1>3, <1>6, <1>8, <1>9 DEF a, buf

(* The loop of efx_discard_rx_packet: a buffer is posted again.             *)
LEMMA GoodRepeat ==
    ASSUME NEW m, NEW k, NEW H, NEW L, Good(m, k, k, H, L), k < Fill(m), Fill(m) - k < RingSize,
           Fill(m) + 1 < CountSpace, NEW n, n = Repeat(m, At(m, k))
    PROVE  /\ Good(n, k + 1, k + 1, H, L) /\ Fill(n) = Fill(m) + 1
           /\ SameQueue(m, n) /\ n.slow = m.slow
  <1> DEFINE f == Fill(m)
             i == At(m, k)
             a == At(m, f)
             U == Window(m, k, f)
             V == (U \ {i}) \cup {a}
             again == ~m.buffer[i].last /\ ~m.buffer[i].ring
  <1>1. m \in Rx /\ k \in Int /\ f \in Nat /\ Owns(m, U, U, H, L) /\ Chain(m, k)
    BY FillRange DEF Good
  <1>2. k \in k .. f - 1
    BY <1>1
  <1>3. /\ i \in Slots /\ m.buffer[i] \in Buffers /\ m.buffer[i] # NoBuf /\ i \in U
        /\ m.buffer[i].last = (m.buffer[i].part = PerPage - 1)
    BY <1>2, GoodBuffer
  <1>4. i # a
    <2>1. f - k < RingSize /\ k - f < RingSize
      BY <1>1, Sizes
    <2>2. k # f
      BY <1>1
    <2> QED  BY <1>1, <2>1, <2>2, AtEqual
  <1>5. again \in BOOLEAN
    OBVIOUS
  <1>6. /\ n \in Rx /\ Fill(n) = f + 1 /\ SameQueue(m, n) /\ n.slow = m.slow
        /\ \A j \in Slots : j # i /\ j # a => n.buffer[j] = m.buffer[j]
        /\ n.buffer[a] = [m.buffer[i] EXCEPT !.again = again]
        /\ n.page_ring = m.page_ring /\ n.mapped = m.mapped /\ n.ref = m.ref
    BY <1>1, <1>3, <1>4, RepeatIs
  <1> HIDE DEF again
  <1>7. /\ n.buffer[a].page = m.buffer[i].page /\ n.buffer[a].part = m.buffer[i].part
        /\ n.buffer[a].last = m.buffer[i].last /\ n.buffer[a].ring = m.buffer[i].ring
        /\ n.buffer[a].again = again
    BY <1>3, <1>5, <1>6, BufferAgain
  <1>8. /\ U \ {i} = Window(m, k + 1, f) /\ U \subseteq Slots /\ IsFiniteSet(U)
        /\ a \notin U /\ a \in Slots
        /\ V = Window(m, k + 1, f + 1)
    <2>1. U \ {i} = Window(m, k + 1, f) /\ U \subseteq Slots /\ IsFiniteSet(U)
      <3>1. f - k <= RingSize
        BY <1>1, Sizes
      <3> QED  BY <1>1, <3>1, WindowFirst, WindowSlots
    <2>2. a \notin U
      <3>1. f - k < RingSize /\ k <= f
        BY <1>1
      <3> QED  BY <1>1, <3>1, WindowNext
    <2>3. Window(m, k + 1, f + 1) = Window(m, k + 1, f) \cup {a}
      <3> DEFINE next == k + 1
      <3>1. next <= f /\ next \in Int /\ f \in Int /\ m \in Rx
        BY <1>1
      <3> HIDE DEF next, f
      <3>2. Window(m, next, f + 1) = Window(m, next, f) \cup {At(m, f)}
        BY <3>1, WindowNext
      <3> QED  BY <3>2 DEF next
    <2> QED  BY <1>1, <2>1, <2>2, <2>3, AtSlot
  <1>9. \A j \in U \ {i} : n.buffer[j] = m.buffer[j]
    BY <1>6, <1>8
  <1>10. Recyclable(n.buffer[a]) <=> Recyclable(m.buffer[i])
    BY <1>7 DEF Recyclable
  <1> HIDE DEF f, i, a, U, V
  <1>11. Owned(n, V) = Owned(m, U)
    <2>1. ASSUME NEW p  PROVE p \in Owned(n, V) <=> p \in Owned(m, U)
      <3>1. p \in Owned(n, V) <=> \E j \in (U \ {i}) \cup {a} : Recyclable(n.buffer[j]) /\ n.buffer[j].page = p
        BY DEF Owned, V
      <3>2. p \in Owned(m, U) <=> \E j \in U : Recyclable(m.buffer[j]) /\ m.buffer[j].page = p
        BY DEF Owned
      <3> QED  BY <3>1, <3>2, <1>3, <1>7, <1>9, <1>10
    <2> QED  BY <2>1
  <1>12. Owns(n, V, V, H, L)
    <2>1. V \subseteq (U \ {i}) \cup {a}
      BY DEF V
    <2>2. n.buffer[a].ring => m.buffer[i].ring
      BY <1>7
    <2>3. n.buffer[a].page = m.buffer[i].page /\ n.buffer[a].part = m.buffer[i].part
      BY <1>7
    <2>4. n.page_ring = m.page_ring /\ n.mapped = m.mapped /\ n.ref = m.ref
      BY <1>6
    <2>5. Owns(m, U, U, H, L) /\ IsFiniteSet(U) /\ i \in U /\ a \notin U
      BY <1>1, <1>3, <1>8
    <2>6. Owns(n, (U \ {i}) \cup {a}, V, H, L)
      BY <1>9, <1>11, <2>1, <2>2, <2>3, <2>4, <2>5, OwnsMove
    <2> QED  BY <2>6 DEF V
  <1>13. /\ \A j : At(n, j) = At(m, j)
         /\ \A x, y : Window(n, x, y) = Window(m, x, y)
    <2>1. n.removed = m.removed
      BY <1>6 DEF SameQueue
    <2> QED  BY <2>1, SameAt
  <1>14. Owns(n, Window(n, k + 1, Fill(n)), Window(n, k + 1, Fill(n)), H, L)
    BY <1>6, <1>8, <1>12, <1>13
  <1>15. Chain(n, k + 1)
    <2> SUFFICES ASSUME NEW j \in k + 1 .. f, ~n.buffer[At(m, j)].ring, ~n.buffer[At(m, j)].again
                 PROVE  LET last == j + (PerPage - 1 - n.buffer[At(m, j)].part)
                        IN  /\ last < f + 1
                            /\ n.buffer[At(m, last)].page = n.buffer[At(m, j)].page
                            /\ Recyclable(n.buffer[At(m, last)])
      <3>1. \A j : j \in k + 1 .. (f + 1) - 1 => j \in k + 1 .. f
        BY <1>1
      <3> QED  BY <1>6, <1>13, <3>1 DEF Chain
    <2>1. CASE j = f
      <3>1. At(m, j) = a
        BY <2>1 DEF a, f
      <3>2. n.buffer[a].last
        BY <3>1, <1>7 DEF again
      <3>3. n.buffer[a].part = PerPage - 1
        BY <3>2, <1>3, <1>7
      <3>4. j + (PerPage - 1 - n.buffer[At(m, j)].part) = f
        BY <3>1, <3>3, <2>1, <1>1, Sizes
      <3>5. Recyclable(n.buffer[a])
        BY <3>1, <3>2 DEF Recyclable
      <3> QED  BY <3>1, <3>4, <3>5, <2>1, <1>1
    <2>2. CASE j # f
      <3>1. j \in k .. f - 1 /\ j \in k + 1 .. f - 1
        BY <2>2, <1>1
      <3>2. \A l \in k + 1 .. f - 1 : n.buffer[At(m, l)] = m.buffer[At(m, l)]
        BY <1>8, <1>9 DEF Window
      <3> DEFINE buf == m.buffer[At(m, j)]
                 last == j + (PerPage - 1 - buf.part)
      <3>3. ~buf.ring /\ ~buf.again /\ n.buffer[At(m, j)] = buf
        BY <3>1, <3>2
      <3>4. /\ last < f /\ m.buffer[At(m, last)].page = buf.page /\ Recyclable(m.buffer[At(m, last)])
        BY <1>1, <3>1, <3>3 DEF Chain, f
      <3>5. last \in k + 1 .. f - 1
        <4>1. buf.part \in 0 .. PerPage - 1 /\ PerPage \in Nat
          BY <3>1, GoodBuffer, Sizes DEF f, Parts
        <4> DEFINE t == buf.part
        <4>2. t \in 0 .. PerPage - 1 /\ j + (PerPage - 1 - t) < f
          BY <3>4, <4>1
        <4> HIDE DEF t
        <4>3. j + (PerPage - 1 - t) \in k + 1 .. f - 1
          BY <4>1, <4>2, <3>1, <1>1
        <4> QED  BY <4>3 DEF t
      <3>6. n.buffer[At(m, last)] = m.buffer[At(m, last)]
        BY <3>2, <3>5
      <3>7. last < f + 1
        BY <3>5, <1>1
      <3> QED  BY <3>3, <3>4, <3>6, <3>7
    <2> QED  BY <2>1, <2>2
  <1>16. Fill(n) - (k + 1) <= RingSize /\ k + 1 <= Fill(n) /\ k + 1 \in Int
    BY <1>1, <1>6, Sizes DEF f
  <1>17. Good(n, k + 1, k + 1, H, L)
    BY <1>6, <1>14, <1>15, <1>16 DEF Good
  <1> QED  BY <1>6, <1>17 DEF f

LEMMA ChainSame ==
    ASSUME NEW m \in Rx, NEW n, NEW lo \in Int, NEW j \in Int, lo <= j, Chain(m, lo),
           n.removed = m.removed, Fill(n) = Fill(m),
           \A k \in j .. Fill(m) - 1 : n.buffer[At(m, k)] = m.buffer[At(m, k)]
    PROVE  Chain(n, j)
  <1> DEFINE f == Fill(m)
  <1>1. f \in Int /\ \A k : At(n, k) = At(m, k)
    BY FillRange, SameAt
  <1> HIDE DEF f
  <1> SUFFICES ASSUME NEW k \in j .. f - 1, ~n.buffer[At(m, k)].ring, ~n.buffer[At(m, k)].again
               PROVE  LET last == k + (PerPage - 1 - n.buffer[At(m, k)].part)
                      IN  /\ last < f
                          /\ n.buffer[At(m, last)].page = n.buffer[At(m, k)].page
                          /\ Recyclable(n.buffer[At(m, last)])
    BY <1>1 DEF Chain, f
  <1> DEFINE buf == m.buffer[At(m, k)]
             last == k + (PerPage - 1 - buf.part)
  <1>2. \A l \in j .. f - 1 : n.buffer[At(m, l)] = m.buffer[At(m, l)]
    BY DEF f
  <1>3. ~buf.ring /\ ~buf.again /\ n.buffer[At(m, k)] = buf
    BY <1>2
  <1>4. k \in lo .. f - 1
    BY <1>1
  <1>5. last < f /\ m.buffer[At(m, last)].page = buf.page /\ Recyclable(m.buffer[At(m, last)])
    BY <1>3, <1>4 DEF Chain, f
  <1>6. last \in j .. f - 1
    <2> DEFINE t == buf.part
    <2>1. t \in 0 .. PerPage - 1 /\ PerPage \in Nat
      <3>1. At(m, k) \in Slots
        BY AtSlot
      <3>2. buf \in Buffers
        BY <3>1 DEF Rx
      <3>3. NoBuf.part = 0
        BY DEF NoBuf
      <3> QED  BY <3>2, <3>3, BuffersAre, Sizes DEF Parts
    <2>2. k + (PerPage - 1 - t) < f
      BY <1>5
    <2> HIDE DEF t
    <2>3. k + (PerPage - 1 - t) \in j .. f - 1
      BY <2>1, <2>2, <1>1
    <2> QED  BY <2>3 DEF t
  <1> QED  BY <1>2, <1>3, <1>5, <1>6

(* Good is about the buffers, the pages and two of the counters.            *)
LEMMA GoodSame ==
    ASSUME NEW m, NEW lo, NEW kl, NEW H, NEW L, Good(m, lo, kl, H, L), NEW n \in Rx,
           n.buffer = m.buffer, n.added = m.added, n.removed = m.removed,
           n.page_ring = m.page_ring, n.mapped = m.mapped, n.ref = m.ref
    PROVE  Good(n, lo, kl, H, L) /\ Fill(n) = Fill(m)
  <1>1. Fill(n) = Fill(m)
    BY DEF Fill
  <1>2. /\ m \in Rx /\ lo \in Int /\ kl \in Int /\ lo <= kl /\ kl <= Fill(m) /\ Fill(m) - lo <= RingSize
        /\ Owns(m, Window(m, lo, Fill(m)), Window(m, kl, Fill(m)), H, L)
        /\ Chain(m, kl)
    BY DEF Good
  <1>3. /\ Window(n, lo, Fill(n)) = Window(m, lo, Fill(m))
        /\ Window(n, kl, Fill(n)) = Window(m, kl, Fill(m))
    BY <1>1, SameAt
  <1>4. Owns(n, Window(n, lo, Fill(n)), Window(n, kl, Fill(n)), H, L)
    BY <1>2, <1>3, OwnsSame
  <1>5. Chain(n, kl)
    BY <1>1, <1>2, ChainSame
  <1>6. n \in Rx /\ lo \in Int /\ kl \in Int /\ lo <= kl /\ kl <= Fill(n) /\ Fill(n) - lo <= RingSize
    BY <1>1, <1>2
  <1> QED  BY <1>1, <1>4, <1>5, <1>6 DEF Good

(* removed_count moves on.                                                  *)
LEMMA GoodTaken ==
    ASSUME NEW m, NEW lo, NEW kl, NEW H, NEW L, Good(m, lo, kl, H, L), NEW d \in Nat, d <= kl,
           NEW n, n = Taken(m, d)
    PROVE  /\ Good(n, lo - d, kl - d, H, L) /\ Fill(n) = Fill(m) - d
           /\ n \in Rx /\ n.removed = Incr(m.removed, d)
           /\ \A k \in Int : At(n, k) = At(m, k + d)
           /\ n.noted = m.noted /\ n.pkt = m.pkt /\ n.slow = m.slow /\ n.spent = m.spent
           /\ n.refill_enabled = m.refill_enabled
  <1> DEFINE f == Fill(m)
  <1>1. /\ m \in Rx /\ lo \in Int /\ kl \in Int /\ f \in Nat /\ lo <= kl /\ kl <= f /\ f - lo <= RingSize
        /\ Owns(m, Window(m, lo, f), Window(m, kl, f), H, L) /\ Chain(m, kl)
    BY FillRange DEF Good
  <1>2. m.removed \in Counts /\ m.added \in Counts
    BY <1>1 DEF Rx
  <1> DEFINE r == Incr(m.removed, d)
  <1>3. r \in Counts
    BY <1>2, IncrRange
  <1>4. n = [m EXCEPT !.removed = r]
    BY DEF Taken
  <1> HIDE DEF r
  <1>5. n \in Rx
    BY <1>1, <1>3, <1>4 DEF Rx
  <1>6. /\ n.removed = r /\ n.added = m.added /\ n.buffer = m.buffer
        /\ n.page_ring = m.page_ring /\ n.mapped = m.mapped /\ n.ref = m.ref
        /\ n.noted = m.noted /\ n.pkt = m.pkt /\ n.slow = m.slow /\ n.spent = m.spent
        /\ n.refill_enabled = m.refill_enabled
    BY <1>1, <1>4 DEF Rx
  <1>7. Fill(n) = f - d
    <2>1. d \in 0 .. Behind(m.added, m.removed)
      BY <1>1 DEF Fill
    <2> QED  BY <1>2, <1>6, <2>1, BehindMoved DEF Fill, r
  <1>8. \A k \in Int : At(n, k) = At(m, k + d)
    <2> TAKE k \in Int
    <2> DEFINE c == m.removed
    <2>1. c \in Int
      BY <1>1, FillRange
    <2>2. At(n, k) = Slot(((c + d) % CountSpace) + k)
      BY <1>6 DEF At, r, Incr
    <2>3. At(m, k + d) = Slot(c + (k + d))
      BY DEF At
    <2> HIDE DEF c
    <2>4. Slot(((c + d) % CountSpace) + k) = Slot((c + d) + k)
      BY <2>1, SlotOfCount
    <2>5. (c + d) + k = c + (k + d)
      BY <2>1
    <2> QED  BY <2>2, <2>3, <2>4, <2>5
  <1> HIDE DEF f
  <1>9. \A x \in Int : Window(n, x - d, f - d) = Window(m, x, f)
    <2> TAKE x \in Int
    <2>1. \A k \in x .. f - 1 : k - d \in x - d .. (f - d) - 1 /\ At(n, k - d) = At(m, k)
      <3> TAKE k \in x .. f - 1
      <3>1. k - d \in Int /\ (k - d) + d = k /\ k - d \in x - d .. (f - d) - 1
        BY <1>1
      <3> QED  BY <3>1, <1>8
    <2>2. \A k \in x - d .. (f - d) - 1 : k + d \in x .. f - 1 /\ At(n, k) = At(m, k + d)
      BY <1>1, <1>8
    <2> QED  BY <2>1, <2>2 DEF Window
  <1>10. Owns(n, Window(n, lo - d, Fill(n)), Window(n, kl - d, Fill(n)), H, L)
    BY <1>1, <1>6, <1>7, <1>9, OwnsSame
  <1>11. Chain(n, kl - d)
    <2> SUFFICES ASSUME NEW k \in kl - d .. (f - d) - 1, ~n.buffer[At(n, k)].ring, ~n.buffer[At(n, k)].again
                 PROVE  LET last == k + (PerPage - 1 - n.buffer[At(n, k)].part)
                        IN  /\ last < f - d
                            /\ n.buffer[At(n, last)].page = n.buffer[At(n, k)].page
                            /\ Recyclable(n.buffer[At(n, last)])
      BY <1>7 DEF Chain
    <2> DEFINE buf == m.buffer[At(m, k + d)]
               t == PerPage - 1 - buf.part
    <2>1. k + d \in kl .. f - 1 /\ k \in Int
      BY <1>1
    <2>2. n.buffer[At(n, k)] = buf
      BY <1>6, <1>8, <2>1
    <2>3. /\ (k + d) + t < f /\ m.buffer[At(m, (k + d) + t)].page = buf.page
          /\ Recyclable(m.buffer[At(m, (k + d) + t)])
      BY <1>1, <2>1, <2>2 DEF Chain, f
    <2>4. t \in Int
      <3>1. At(m, k + d) \in Slots
        BY <1>1, <2>1, AtSlot
      <3>2. buf \in Buffers
        BY <1>1, <3>1 DEF Rx
      <3>3. NoBuf.part = 0
        BY DEF NoBuf
      <3> QED  BY <3>2, <3>3, BuffersAre, Sizes DEF Parts
    <2> HIDE DEF t
    <2>5. (k + d) + t = (k + t) + d /\ k + t \in Int /\ k + t < f - d
      BY <1>1, <2>1, <2>3, <2>4
    <2>6. At(n, k + t) = At(m, (k + t) + d)
      BY <1>8, <2>5
    <2> QED  BY <1>6, <2>2, <2>3, <2>5, <2>6 DEF t
  <1>12. lo - d \in Int /\ kl - d \in Int /\ lo - d <= kl - d /\ kl - d <= Fill(n) /\ Fill(n) - (lo - d) <= RingSize
    BY <1>1, <1>7, Sizes
  <1>13. Good(n, lo - d, kl - d, H, L)
    BY <1>5, <1>10, <1>11, <1>12 DEF Good
  <1> QED  BY <1>5, <1>6, <1>7, <1>8, <1>13 DEF f, r

(* efx_fini_rx_buffer_nzc                                                   *)
LEMMA GoodFini ==
    ASSUME NEW m, NEW k, NEW H, NEW L, Good(m, k, k, H, L), k < Fill(m),
           NEW n, n = FiniBuffer(m, At(m, k))
    PROVE  /\ Good(n, k + 1, k + 1, H, L) /\ Fill(n) = Fill(m)
           /\ SameQueue(m, n) /\ n.slow = m.slow /\ n.added = m.added
  <1> DEFINE i == At(m, k)
             p == m.buffer[i].page
             U == Window(m, k, Fill(m))
             less == [m.ref EXCEPT ![p] = @ - 1]
             y == IF Recyclable(m.buffer[i]) THEN WithPages(m, less, m.mapped \ {p}) ELSE m
             fewer == [y.ref EXCEPT ![p] = @ - 1]
  <1>1. m \in Rx /\ k \in Int /\ Fill(m) \in Nat /\ Owns(m, U, U, H, L) /\ Chain(m, k) /\ Fill(m) - k <= RingSize
    BY FillRange DEF Good
  <1>2. k \in k .. Fill(m) - 1
    BY <1>1
  <1>3. i \in Slots /\ i \in U /\ p \in Pages
    BY <1>2, GoodBuffer
  <1>4. U \ {i} = Window(m, k + 1, Fill(m)) /\ U \subseteq Slots /\ IsFiniteSet(U)
    BY <1>1, WindowFirst, WindowSlots
  <1>5. less \in [Pages -> Int] /\ m.mapped \ {p} \in SUBSET Pages
    BY <1>1, <1>3 DEF Rx
  <1> HIDE DEF i, p, U, less
  <1>6. /\ y \in Rx /\ SameQueue(m, y) /\ y.buffer = m.buffer /\ y.added = m.added /\ y.slow = m.slow
        /\ y.page_ring = m.page_ring /\ Owns(y, U, U \ {i}, H, L)
    <2>1. CASE ~Recyclable(m.buffer[i])
      <3>1. y = m
        BY <2>1
      <3> HIDE DEF y
      <3> QED  BY <2>1, <3>1, <1>1, OwnsPlain DEF SameQueue
    <2>2. CASE Recyclable(m.buffer[i])
      <3>1. y = WithPages(m, less, m.mapped \ {p})
        BY <2>2
      <3> HIDE DEF y
      <3>2. /\ y \in Rx /\ SameQueue(m, y) /\ y.buffer = m.buffer /\ y.added = m.added /\ y.slow = m.slow
            /\ y.page_ring = m.page_ring /\ y.mapped = m.mapped \ {p} /\ y.ref = less
        BY <3>1, <1>1, <1>5, RxPages
      <3>3. Owns(y, U, U \ {i}, H, L)
        BY <2>2, <3>2, <1>1, <1>3, <1>4, OwnsRelease DEF less, p
      <3> QED  BY <3>2, <3>3
    <2> QED  BY <2>1, <2>2
  <1>7. fewer \in [Pages -> Int] /\ y.mapped \in SUBSET Pages /\ y.ref \in [Pages -> Int]
    <2> HIDE DEF y
    <2>1. y.mapped \in SUBSET Pages /\ y.ref \in [Pages -> Int]
      BY <1>6 DEF Rx
    <2> QED  BY <2>1, <1>3
  <1> DEFINE z == WithPages(y, fewer, y.mapped)
  <1>8. n = Clear(z, {i})
    <2>1. CASE Recyclable(m.buffer[i])
      <3>1. z = Release(PutPage(m, p), p)
        BY <2>1, <1>1, <1>3 DEF Release, PutPage, WithPages, Rx, less
      <3> HIDE DEF z
      <3>2. m.buffer[i].last /\ ~m.buffer[i].ring
        BY <2>1 DEF Recyclable
      <3> QED  BY <3>1, <3>2 DEF FiniBuffer, i, p
    <2>2. CASE ~Recyclable(m.buffer[i])
      <3>1. z = PutPage(m, p)
        BY <2>2, <1>1, <1>3 DEF PutPage, WithPages, Rx
      <3> HIDE DEF z
      <3>2. ~(m.buffer[i].last /\ ~m.buffer[i].ring)
        BY <2>2 DEF Recyclable
      <3> QED  BY <3>1, <3>2 DEF FiniBuffer, i, p
    <2> QED  BY <2>1, <2>2
  <1>9. z = WithPages(y, fewer, y.mapped)
    OBVIOUS
  <1> HIDE DEF z, fewer, y
  <1>10. /\ z \in Rx /\ SameQueue(y, z) /\ z.buffer = y.buffer /\ z.added = y.added /\ z.slow = y.slow
         /\ z.page_ring = y.page_ring /\ z.mapped = y.mapped /\ z.ref = fewer
    BY <1>6, <1>7, <1>9, RxPages
  <1>11. /\ n \in Rx /\ SameQueue(z, n) /\ n.added = z.added /\ n.slow = z.slow
         /\ \A j \in Slots : n.buffer[j] = IF j \in {i} THEN NoBuf ELSE z.buffer[j]
         /\ n.page_ring = z.page_ring /\ n.mapped = z.mapped /\ n.ref = z.ref
    BY <1>8, <1>10, ClearIs
  <1>12. SameQueue(m, n) /\ n.added = m.added /\ n.slow = m.slow /\ n \in Rx
    BY <1>6, <1>10, <1>11 DEF SameQueue
  <1>13. \A j \in U \ {i} : n.buffer[j] = m.buffer[j]
    BY <1>4, <1>6, <1>10, <1>11
  <1>14. Owns(n, U \ {i}, U \ {i}, H, L)
    <2>1. n.page_ring = y.page_ring /\ n.mapped = y.mapped /\ n.ref = [y.ref EXCEPT ![y.buffer[i].page] = @ - 1]
      BY <1>6, <1>10, <1>11 DEF fewer, p
    <2>2. \A j \in U \ {i} : n.buffer[j] = y.buffer[j]
      BY <1>6, <1>13
    <2>3. i \in U /\ i \notin U \ {i} /\ IsFiniteSet(U)
      BY <1>3, <1>4
    <2> QED  BY <2>1, <2>2, <2>3, <1>6, <1>7, OwnsFreeOne
  <1>15. Fill(n) = Fill(m) /\ n.removed = m.removed
    BY <1>12 DEF Fill, SameQueue
  <1>16. Owns(n, Window(n, k + 1, Fill(n)), Window(n, k + 1, Fill(n)), H, L)
    BY <1>4, <1>14, <1>15, SameAt
  <1>17. Chain(n, k + 1)
    <2>1. \A j \in k + 1 .. Fill(m) - 1 : n.buffer[At(m, j)] = m.buffer[At(m, j)]
      BY <1>4, <1>13 DEF Window
    <2> QED  BY <2>1, <1>1, <1>15, ChainSame
  <1>18. k + 1 \in Int /\ k + 1 <= Fill(n) /\ Fill(n) - (k + 1) <= RingSize
    BY <1>1, <1>15, Sizes
  <1>19. Good(n, k + 1, k + 1, H, L)
    BY <1>12, <1>16, <1>17, <1>18 DEF Good
  <1> QED  BY <1>12, <1>15, <1>19

---------------------------------------------------------------------------
(* The loops over buffers                                                   *)

LEMMA SameQueueTrans ==
    ASSUME NEW m, NEW n, NEW o, SameQueue(m, n), SameQueue(n, o)
    PROVE  SameQueue(m, o)
BY DEF SameQueue

(* efx_recycle_rx_pages                                                     *)
LEMMA GoodRecycleAll ==
    ASSUME NEW m, NEW lo, NEW H, NEW L, Good(m, lo, 0, H, L), NEW n \in Nat, n <= Fill(m),
           NEW o, o = RecyclePages(m, At(m, 0), n)
    PROVE  /\ Good(o, lo, n, H, L) /\ SameQueue(m, o) /\ Fill(o) = Fill(m)
           /\ o.added = m.added /\ o.buffer = m.buffer /\ o.slow = m.slow
  <1> DEFINE index == At(m, 0)
  <1>1. PICK g : /\ g[0] = m
                 /\ \A k \in 0 .. n - 1 : g[k + 1] = RecyclePage(g[k], (index + k) % RingSize)
                 /\ g[n] = o
    BY RecyclePagesIs
  <1>2. m \in Rx /\ Fill(m) \in Nat
    BY FillRange DEF Good
  <1>3. \A k \in Int : (index + k) % RingSize = At(m, k)
    <2> TAKE k \in Int
    <2>1. (At(m, 0) + k) % RingSize = At(m, 0 + k)
      BY <1>2, AtFrom
    <2> QED  BY <2>1
  <1> HIDE DEF index
  <1> DEFINE P(k) == /\ Good(g[k], lo, k, H, L) /\ SameQueue(m, g[k])
                     /\ g[k].added = m.added /\ g[k].buffer = m.buffer /\ g[k].slow = m.slow
             S == {k \in Nat : P(k)}
  <1>4. 0 \in S
    BY <1>1 DEF SameQueue
  <1>5. \A k \in 0 .. n - 1 : k \in S => k + 1 \in S
    <2> SUFFICES ASSUME NEW k \in 0 .. n - 1, P(k)  PROVE P(k + 1)
      OBVIOUS
    <2>1. g[k + 1] = RecyclePage(g[k], At(m, k))
      BY <1>1, <1>3
    <2>2. At(g[k], k) = At(m, k) /\ Fill(g[k]) = Fill(m)
      BY SameAt DEF SameQueue, Fill
    <2>3. k < Fill(g[k])
      BY <1>2, <2>2
    <2> DEFINE a == g[k]  b == g[k + 1]
    <2>4. Good(a, lo, k, H, L) /\ k < Fill(a) /\ b = RecyclePage(a, At(a, k)) /\ SameQueue(m, a)
          /\ a.added = m.added /\ a.buffer = m.buffer /\ a.slow = m.slow
      BY <2>1, <2>2, <2>3
    <2> HIDE DEF a, b
    <2>5. /\ Good(b, lo, k + 1, H, L) /\ SameQueue(a, b)
          /\ b.buffer = a.buffer /\ b.added = a.added /\ b.slow = a.slow
      BY <2>4, GoodRecycle
    <2>6. SameQueue(m, b)
      BY <2>4, <2>5, SameQueueTrans
    <2> QED  BY <2>4, <2>5, <2>6 DEF b
  <1> HIDE DEF S
  <1>6. n \in S
    BY <1>4, <1>5, UpTo
  <1>7. P(n)
    BY <1>6 DEF S
  <1>8. Fill(o) = Fill(m)
    BY <1>1, <1>7 DEF SameQueue, Fill
  <1> QED  BY <1>1, <1>7, <1>8

(* The loop of efx_discard_rx_packet                                        *)
LEMMA GoodRepeatAll ==
    ASSUME NEW m, NEW H, NEW L, Good(m, 0, 0, H, L), NEW n \in 0 .. MaxFrags, n <= Fill(m),
           Fill(m) <= max_fill, NEW o, o = RepeatAll(m, At(m, 0), n)
    PROVE  /\ Good(o, n, n, H, L) /\ SameQueue(m, o) /\ Fill(o) = Fill(m) + n
           /\ o.slow = m.slow
  <1> DEFINE index == At(m, 0)  f == Fill(m)
  <1>0. n \in Nat
    BY Sizes
  <1>1. PICK g : /\ g[0] = m
                 /\ \A k \in 0 .. n - 1 : g[k + 1] = Repeat(g[k], (index + k) % RingSize)
                 /\ g[n] = o
    BY <1>0, RepeatAllIs
  <1>2. m \in Rx /\ f \in Nat
    BY FillRange DEF Good
  <1>3. \A k \in Int : (index + k) % RingSize = At(m, k)
    <2> TAKE k \in Int
    <2>1. (At(m, 0) + k) % RingSize = At(m, 0 + k)
      BY <1>2, AtFrom
    <2> QED  BY <2>1
  <1>9. n <= f /\ f + n < RingSize /\ RingSize <= CountSpace /\ RingSize \in Nat /\ CountSpace \in Nat
    BY <1>2, Sizes
  <1> HIDE DEF index, f
  <1> DEFINE P(k) == Good(g[k], k, k, H, L) /\ SameQueue(m, g[k]) /\ Fill(g[k]) = f + k /\ g[k].slow = m.slow
             S == {k \in Nat : P(k)}
  <1>4. 0 \in S
    BY <1>1, <1>2 DEF SameQueue, f
  <1>5. \A k \in 0 .. n - 1 : k \in S => k + 1 \in S
    <2> SUFFICES ASSUME NEW k \in 0 .. n - 1, P(k)  PROVE P(k + 1)
      OBVIOUS
    <2>1. g[k + 1] = Repeat(g[k], At(m, k))
      BY <1>1, <1>3
    <2>2. At(g[k], k) = At(m, k)
      BY SameAt DEF SameQueue
    <2> DEFINE a == g[k]  b == g[k + 1]
    <2>4. Good(a, k, k, H, L) /\ Fill(a) = f + k /\ b = Repeat(a, At(a, k)) /\ SameQueue(m, a) /\ a.slow = m.slow
      BY <2>1, <2>2
    <2> HIDE DEF a, b
    <2>3. k < Fill(a) /\ Fill(a) - k < RingSize /\ Fill(a) + 1 < CountSpace
      BY <2>4, <1>2, <1>9
    <2>5. Good(b, k + 1, k + 1, H, L) /\ SameQueue(a, b) /\ Fill(b) = Fill(a) + 1 /\ b.slow = a.slow
      BY <2>3, <2>4, GoodRepeat
    <2>6. SameQueue(m, b)
      BY <2>4, <2>5, SameQueueTrans
    <2>7. Fill(b) = f + (k + 1)
      BY <2>4, <2>5, <1>2
    <2> QED  BY <2>4, <2>5, <2>6, <2>7 DEF b
  <1> HIDE DEF S
  <1>6. n \in S
    BY <1>0, <1>4, <1>5, UpTo
  <1>7. P(n)
    BY <1>6 DEF S
  <1> QED  BY <1>1, <1>7 DEF f

(* The loop of efx_fini_rx_queue                                            *)
LEMMA GoodFiniAll ==
    ASSUME NEW m, NEW H, NEW L, Good(m, 0, 0, H, L),
           NEW o, o = FiniBuffers(m, At(m, 0), Fill(m))
    PROVE  /\ Good(o, Fill(m), Fill(m), H, L) /\ SameQueue(m, o) /\ Fill(o) = Fill(m)
           /\ o.slow = m.slow /\ o.added = m.added
  <1> DEFINE index == At(m, 0)  n == Fill(m)
  <1>2. m \in Rx /\ n \in Nat
    BY FillRange DEF Good
  <1>1. PICK g : /\ g[0] = m
                 /\ \A k \in 0 .. n - 1 : g[k + 1] = FiniBuffer(g[k], (index + k) % RingSize)
                 /\ g[n] = o
    BY <1>2, FiniBuffersIs
  <1>3. \A k \in Int : (index + k) % RingSize = At(m, k)
    <2> TAKE k \in Int
    <2>1. (At(m, 0) + k) % RingSize = At(m, 0 + k)
      BY <1>2, AtFrom
    <2> QED  BY <2>1
  <1> HIDE DEF index, n
  <1> DEFINE P(k) == /\ Good(g[k], k, k, H, L) /\ SameQueue(m, g[k]) /\ Fill(g[k]) = n
                     /\ g[k].slow = m.slow /\ g[k].added = m.added
             S == {k \in Nat : P(k)}
  <1>4. 0 \in S
    BY <1>1, <1>2 DEF SameQueue, n
  <1>5. \A k \in 0 .. n - 1 : k \in S => k + 1 \in S
    <2> SUFFICES ASSUME NEW k \in 0 .. n - 1, P(k)  PROVE P(k + 1)
      OBVIOUS
    <2>1. g[k + 1] = FiniBuffer(g[k], At(m, k))
      BY <1>1, <1>3
    <2>2. At(g[k], k) = At(m, k)
      BY SameAt DEF SameQueue
    <2> DEFINE a == g[k]  b == g[k + 1]
    <2>4. /\ Good(a, k, k, H, L) /\ Fill(a) = n /\ b = FiniBuffer(a, At(a, k)) /\ SameQueue(m, a)
          /\ a.slow = m.slow /\ a.added = m.added
      BY <2>1, <2>2
    <2> HIDE DEF a, b
    <2>3. k < Fill(a)
      BY <2>4, <1>2
    <2>5. Good(b, k + 1, k + 1, H, L) /\ SameQueue(a, b) /\ Fill(b) = Fill(a) /\ b.slow = a.slow /\ b.added = a.added
      BY <2>3, <2>4, GoodFini
    <2>6. SameQueue(m, b)
      BY <2>4, <2>5, SameQueueTrans
    <2> QED  BY <2>4, <2>5, <2>6 DEF b
  <1> HIDE DEF S
  <1>6. n \in S
    BY <1>2, <1>4, <1>5, UpTo
  <1>7. P(n)
    BY <1>6 DEF S
  <1> QED  BY <1>1, <1>7 DEF n

---------------------------------------------------------------------------
(* The packet in the pipeline is passed on                                  *)

(* The packet in the pipeline has the n buffers before removed_count.       *)
LEMMA PktWindow ==
    ASSUME NEW n \in Nat, NEW kl \in Nat, NEW m, NEW H, NEW L, Good(m, -n, kl, H, L)
    PROVE  /\ m \in Rx /\ Fill(m) \in Nat /\ kl <= Fill(m) /\ Fill(m) + n <= RingSize
           /\ Owns(m, Window(m, -n, Fill(m)), Window(m, kl, Fill(m)), H, L) /\ Chain(m, kl)
           /\ Window(m, -n, 0) \subseteq Window(m, -n, Fill(m))
           /\ Window(m, -n, 0) \cap Window(m, kl, Fill(m)) = {}
           /\ Window(m, -n, Fill(m)) \ Window(m, -n, 0) = Window(m, 0, Fill(m))
           /\ Window(m, kl, Fill(m)) \subseteq Window(m, 0, Fill(m))
           /\ Window(m, -n, Fill(m)) \subseteq Slots /\ IsFiniteSet(Window(m, -n, Fill(m)))
  <1> DEFINE f == Fill(m)  lo == -n
  <1>1. /\ m \in Rx /\ f \in Nat /\ lo \in Int /\ kl \in Int /\ kl <= f /\ f - lo <= RingSize
        /\ Owns(m, Window(m, lo, f), Window(m, kl, f), H, L) /\ Chain(m, kl)
    BY FillRange DEF Good
  <1>2. f + n <= RingSize /\ lo <= 0 /\ 0 \in lo .. f /\ 0 <= kl
    BY <1>1, Sizes
  <1> HIDE DEF f, lo
  <1>3. Window(m, lo, f) \ Window(m, lo, 0) = Window(m, 0, f)
    BY <1>1, <1>2, WindowMinus
  <1>4. Window(m, lo, 0) \subseteq Window(m, lo, f) /\ Window(m, kl, f) \subseteq Window(m, 0, f)
    BY <1>1, <1>2, WindowSub
  <1>5. Window(m, lo, f) \subseteq Slots /\ IsFiniteSet(Window(m, lo, f))
    BY <1>1, WindowSlots
  <1>6. Window(m, lo, 0) \cap Window(m, kl, f) = {}
    BY <1>3, <1>4
  <1> QED  BY <1>1, <1>2, <1>3, <1>4, <1>5, <1>6 DEF f, lo

(* The packet's buffers are passed on, and d buffers of recycled pages have *)
(* been posted.                                                             *)
LEMMA GoodWithout ==
    ASSUME NEW n \in Nat, NEW kl \in Nat, NEW m, NEW H, NEW L, Good(m, -n, kl, H, L),
           NEW d \in Nat, Fill(m) + d <= RingSize,
           NEW x \in Rx, x.removed = m.removed, Fill(x) = Fill(m) + d,
           \A i \in Window(m, 0, Fill(m)) : x.buffer[i] = m.buffer[i],
           \A k \in Fill(m) .. Fill(m) + d - 1 : x.buffer[At(m, k)].ring,
           NEW G, Owns(x, Window(m, 0, Fill(m) + d), Window(m, kl, Fill(m) + d), G, L)
    PROVE  Good(x, 0, kl, G, L)
  <1> DEFINE f == Fill(m)
  <1>1. m \in Rx /\ f \in Nat /\ kl <= f /\ Chain(m, kl)
    BY PktWindow
  <1>2. /\ \A k : At(x, k) = At(m, k)
        /\ \A lo, hi : Window(x, lo, hi) = Window(m, lo, hi)
    BY SameAt
  <1>3. Owns(x, Window(x, 0, Fill(x)), Window(x, kl, Fill(x)), G, L)
    BY <1>2
  <1>4. \A k \in 0 .. f - 1 : x.buffer[At(m, k)] = m.buffer[At(m, k)]
    BY DEF Window
  <1>5. \A k \in f .. f + d - 1 : x.buffer[At(m, k)].ring
    OBVIOUS
  <1> DEFINE e == f + d
  <1>6. Fill(x) = e
    OBVIOUS
  <1> HIDE DEF f, e
  <1>9. e = f + d
    BY DEF e
  <1>7. Chain(x, kl)
    <2> SUFFICES ASSUME NEW k \in kl .. e - 1, ~x.buffer[At(m, k)].ring, ~x.buffer[At(m, k)].again
                 PROVE  LET last == k + (PerPage - 1 - x.buffer[At(m, k)].part)
                        IN  /\ last < e
                            /\ x.buffer[At(m, last)].page = x.buffer[At(m, k)].page
                            /\ Recyclable(x.buffer[At(m, last)])
      BY <1>2, <1>6 DEF Chain
    <2>1. k \in kl .. f - 1 /\ k \in 0 .. f - 1
      BY <1>1, <1>5, <1>9
    <2> DEFINE buf == m.buffer[At(m, k)]
               t == PerPage - 1 - buf.part
    <2>2. x.buffer[At(m, k)] = buf
      BY <1>4, <2>1
    <2>3. k + t < f /\ m.buffer[At(m, k + t)].page = buf.page /\ Recyclable(m.buffer[At(m, k + t)])
      BY <1>1, <2>1, <2>2 DEF Chain, f
    <2>4. t \in Nat
      <3>1. At(m, k) \in Slots
        BY <1>1, <2>1, AtSlot
      <3>2. buf \in Buffers
        BY <1>1, <3>1 DEF Rx
      <3>3. NoBuf.part = 0
        BY DEF NoBuf
      <3> QED  BY <3>2, <3>3, BuffersAre, Sizes DEF Parts
    <2> HIDE DEF t
    <2>5. k + t \in 0 .. f - 1 /\ k + t < e
      BY <1>1, <1>9, <2>1, <2>3, <2>4
    <2>6. x.buffer[At(m, k + t)] = m.buffer[At(m, k + t)]
      BY <1>4, <2>5
    <2> QED  BY <2>2, <2>3, <2>5, <2>6 DEF t
  <1>8. 0 <= kl /\ kl <= Fill(x) /\ Fill(x) - 0 <= RingSize /\ kl \in Int
    BY <1>1, <1>6, Sizes DEF f, e
  <1> QED  BY <1>3, <1>7, <1>8 DEF Good

LEMMA FreeBuffersIs ==
    ASSUME NEW m \in Rx, NEW S, S \subseteq Slots, NEW n, n = FreeBuffers(m, S)
    PROVE  /\ n \in Rx /\ SameQueue(m, n) /\ n.added = m.added /\ n.slow = m.slow
           /\ \A i \in Slots : n.buffer[i] = IF i \in S THEN NoBuf ELSE m.buffer[i]
           /\ n.page_ring = m.page_ring /\ n.mapped = m.mapped
           /\ \A p \in Pages : n.ref[p] = m.ref[p] - Cardinality(UsesOf(m, S, p))
  <1> DEFINE o == Clear(m, S)
             ref == [p \in Pages |-> m.ref[p] - Cardinality(UsesOf(m, S, p))]
  <1>1. /\ o \in Rx /\ SameQueue(m, o) /\ o.added = m.added /\ o.slow = m.slow
        /\ \A i \in Slots : o.buffer[i] = IF i \in S THEN NoBuf ELSE m.buffer[i]
        /\ o.page_ring = m.page_ring /\ o.mapped = m.mapped /\ o.ref = m.ref
    BY ClearIs
  <1>2. IsFiniteSet(S)
    BY PagesFacts, FS_Subset
  <1>3. \A p \in Pages : Cardinality(UsesOf(m, S, p)) \in Int /\ m.ref[p] \in Int
    BY <1>2, UsesFinite DEF Rx
  <1>4. ref \in [Pages -> Int]
    BY <1>3
  <1>5. n = WithPages(o, ref, o.mapped)
    <2>1. n = [o EXCEPT !.ref = [p \in Pages |-> o.ref[p] - Cardinality(UsesOf(m, S, p))]]
      BY DEF FreeBuffers, UsesOf
    <2> HIDE DEF o
    <2>2. n = [o EXCEPT !.ref = ref]
      BY <1>1, <2>1
    <2> HIDE DEF ref
    <2> QED  BY <1>1, <2>2 DEF WithPages, Rx
  <1>6. \A p \in Pages : ref[p] = m.ref[p] - Cardinality(UsesOf(m, S, p))
    OBVIOUS
  <1> HIDE DEF o, ref
  <1>7. o.mapped \in SUBSET Pages
    BY <1>1 DEF Rx
  <1>8. /\ n \in Rx /\ SameQueue(o, n) /\ n.added = o.added /\ n.buffer = o.buffer
        /\ n.page_ring = o.page_ring /\ n.mapped = o.mapped /\ n.ref = ref /\ n.slow = o.slow
    BY <1>1, <1>4, <1>5, <1>7, RxPages
  <1>9. SameQueue(m, n)
    BY <1>1, <1>8, SameQueueTrans
  <1> QED  BY <1>1, <1>6, <1>8, <1>9

(* efx_rx_flush_packet drops a packet ...                                   *)
LEMMA FlushFree ==
    ASSUME NEW n \in Nat, NEW kl \in Nat, NEW m, NEW H, NEW L, Good(m, -n, kl, H, L),
           NEW x, x = FreeBuffers(m, Window(m, -n, 0))
    PROVE  Good(x, 0, kl, H, L) /\ SameQueue(m, x) /\ x.slow = m.slow /\ Fill(x) = Fill(m)
  <1> DEFINE S == Window(m, -n, 0)  U == Window(m, -n, Fill(m))  K == Window(m, kl, Fill(m))
  <1>1. /\ m \in Rx /\ Owns(m, U, K, H, L) /\ U \subseteq Slots /\ IsFiniteSet(U)
        /\ S \subseteq U /\ S \cap K = {} /\ U \ S = Window(m, 0, Fill(m))
        /\ Fill(m) \in Nat /\ Fill(m) + n <= RingSize
    BY PktWindow
  <1>2. S \subseteq Slots
    BY <1>1
  <1> HIDE DEF S, U, K
  <1>3. /\ x \in Rx /\ SameQueue(m, x) /\ x.added = m.added /\ x.slow = m.slow
        /\ \A i \in Slots : x.buffer[i] = IF i \in S THEN NoBuf ELSE m.buffer[i]
        /\ x.page_ring = m.page_ring /\ x.mapped = m.mapped
        /\ \A p \in Pages : x.ref[p] = m.ref[p] - Cardinality(UsesOf(m, S, p))
    BY <1>1, <1>2, FreeBuffersIs DEF S
  <1>4. \A i \in U \ S : x.buffer[i] = m.buffer[i]
    BY <1>1, <1>3
  <1>5. Owns(x, U \ S, K, H, L)
    BY <1>1, <1>3, <1>4, OwnsFree
  <1>6. Fill(x) = Fill(m) /\ x.removed = m.removed
    BY <1>3 DEF Fill, SameQueue
  <1>7. Good(x, 0, kl, H, L)
    <2>1. Fill(m) + 0 = Fill(m) /\ Fill(m) + 0 <= RingSize /\ 0 \in Nat
      BY <1>1, Sizes
    <2>2. Owns(x, Window(m, 0, Fill(m) + 0), Window(m, kl, Fill(m) + 0), H, L)
      BY <1>1, <1>5, <2>1 DEF K
    <2>3. \A k \in Fill(m) .. Fill(m) + 0 - 1 : x.buffer[At(m, k)].ring
      BY <1>1
    <2>4. \A i \in Window(m, 0, Fill(m)) : x.buffer[i] = m.buffer[i]
      BY <1>1, <1>4
    <2>5. Fill(x) = Fill(m) + 0
      BY <1>6, <2>1
    <2> QED  BY <1>3, <1>6, <2>1, <2>2, <2>3, <2>4, <2>5, GoodWithout
  <1> QED  BY <1>3, <1>6, <1>7

(* ... or gives it to the stack ...                                         *)
LEMMA FlushGive ==
    ASSUME NEW n \in Nat, NEW kl \in Nat, NEW m, NEW H, NEW L, Good(m, -n, kl, H, L),
           NEW x, x = Clear(m, Window(m, -n, 0))
    PROVE  /\ Good(x, 0, kl, H \cup {PlaceOf(m, i) : i \in Window(m, -n, 0)}, L)
           /\ H \cap {PlaceOf(m, i) : i \in Window(m, -n, 0)} = {}
           /\ SameQueue(m, x) /\ x.slow = m.slow /\ Fill(x) = Fill(m)
  <1> DEFINE S == Window(m, -n, 0)  U == Window(m, -n, Fill(m))  K == Window(m, kl, Fill(m))
             G == H \cup {PlaceOf(m, i) : i \in S}
  <1>1. /\ m \in Rx /\ Owns(m, U, K, H, L) /\ U \subseteq Slots /\ IsFiniteSet(U)
        /\ S \subseteq U /\ S \cap K = {} /\ U \ S = Window(m, 0, Fill(m))
        /\ Fill(m) \in Nat /\ Fill(m) + n <= RingSize
    BY PktWindow
  <1>2. H \cap {PlaceOf(m, i) : i \in S} = {}
    <2> HIDE DEF S, U, K
    <2> QED  BY <1>1 DEF Owns, Apart
  <1> HIDE DEF S, U, K
  <1>3. /\ x \in Rx /\ SameQueue(m, x) /\ x.added = m.added /\ x.slow = m.slow
        /\ \A i \in Slots : x.buffer[i] = IF i \in S THEN NoBuf ELSE m.buffer[i]
        /\ x.page_ring = m.page_ring /\ x.mapped = m.mapped /\ x.ref = m.ref
    BY <1>1, ClearIs DEF S
  <1>4. \A i \in U \ S : x.buffer[i] = m.buffer[i]
    BY <1>1, <1>3
  <1>5. Owns(x, U \ S, K, G, L)
    BY <1>1, <1>3, <1>4, OwnsGive
  <1> HIDE DEF G
  <1>6. Fill(x) = Fill(m) /\ x.removed = m.removed
    BY <1>3 DEF Fill, SameQueue
  <1>7. Good(x, 0, kl, G, L)
    <2>1. Fill(m) + 0 = Fill(m) /\ Fill(m) + 0 <= RingSize /\ 0 \in Nat
      BY <1>1, Sizes
    <2>2. Owns(x, Window(m, 0, Fill(m) + 0), Window(m, kl, Fill(m) + 0), G, L)
      BY <1>1, <1>5, <2>1 DEF K
    <2>3. \A k \in Fill(m) .. Fill(m) + 0 - 1 : x.buffer[At(m, k)].ring
      BY <1>1
    <2>4. \A i \in Window(m, 0, Fill(m)) : x.buffer[i] = m.buffer[i]
      BY <1>1, <1>4
    <2>5. Fill(x) = Fill(m) + 0
      BY <1>6, <2>1
    <2> QED  BY <1>3, <1>6, <2>1, <2>2, <2>3, <2>4, <2>5, GoodWithout
  <1> QED  BY <1>2, <1>3, <1>6, <1>7 DEF G, S

(* ... or frees its first buffer only, as if the others were held forever.  *)
LEMMA FlushFirst ==
    ASSUME NEW n \in Nat, n # 0, NEW kl \in Nat, NEW m, NEW H, NEW L, Good(m, -n, kl, H, L),
           NEW x, x = FreeBuffers(m, {At(m, -n)})
    PROVE  /\ \E G : Good(x, 0, kl, H \cup G, L) /\ H \cap G = {}
           /\ SameQueue(m, x) /\ x.slow = m.slow /\ Fill(x) = Fill(m)
  <1> DEFINE S == Window(m, -n, 0)  U == Window(m, -n, Fill(m))  K == Window(m, kl, Fill(m))
             i == At(m, -n)
             G == {PlaceOf(x, j) : j \in S \ {i}}
  <1>1. /\ m \in Rx /\ Owns(m, U, K, H, L) /\ U \subseteq Slots /\ IsFiniteSet(U)
        /\ S \subseteq U /\ S \cap K = {} /\ U \ S = Window(m, 0, Fill(m))
        /\ Fill(m) \in Nat /\ Fill(m) + n <= RingSize
    BY PktWindow
  <1>2. i \in S
    BY DEF Window
  <1> HIDE DEF S, U, K, i
  <1>3. /\ x \in Rx /\ SameQueue(m, x) /\ x.added = m.added /\ x.slow = m.slow
        /\ \A j \in Slots : x.buffer[j] = IF j \in {i} THEN NoBuf ELSE m.buffer[j]
        /\ x.page_ring = m.page_ring /\ x.mapped = m.mapped
        /\ \A p \in Pages : x.ref[p] = m.ref[p] - Cardinality(UsesOf(m, {i}, p))
    <2>1. {i} \subseteq Slots
      BY <1>1, <1>2
    <2> QED  BY <1>1, <2>1, FreeBuffersIs DEF i
  <1>4. \A j \in U \ {i} : x.buffer[j] = m.buffer[j]
    BY <1>1, <1>3
  <1>5. Owns(x, U \ {i}, K, H, L)
    <2>1. {i} \subseteq U /\ {i} \cap K = {}
      BY <1>1, <1>2
    <2> QED  BY <1>1, <1>3, <1>4, <2>1, OwnsFree
  <1>6. Owns(x, (U \ {i}) \ (S \ {i}), K, H \cup G, L)
    <2>1. U \ {i} \subseteq Slots /\ S \ {i} \subseteq U \ {i} /\ (S \ {i}) \cap K = {}
      BY <1>1
    <2> QED  BY <1>3, <1>5, <2>1, OwnsGive
  <1>7. (U \ {i}) \ (S \ {i}) = U \ S
    BY <1>2
  <1>8. H \cap G = {}
    <2>1. Apart(x, U \ {i}, H)
      BY <1>5 DEF Owns
    <2>2. \A j \in U \ {i} : PlaceOf(x, j) \notin H
      BY <2>1 DEF Apart
    <2>3. \A j \in S \ {i} : PlaceOf(x, j) \notin H
      BY <1>1, <2>2
    <2> QED  BY <2>3
  <1> HIDE DEF G
  <1>9. Fill(x) = Fill(m) /\ x.removed = m.removed
    BY <1>3 DEF Fill, SameQueue
  <1>10. Good(x, 0, kl, H \cup G, L)
    <2>1. Fill(m) + 0 = Fill(m) /\ Fill(m) + 0 <= RingSize /\ 0 \in Nat
      BY <1>1, Sizes
    <2>2. Owns(x, Window(m, 0, Fill(m) + 0), Window(m, kl, Fill(m) + 0), H \cup G, L)
      BY <1>1, <1>6, <1>7, <2>1 DEF K
    <2>3. \A k \in Fill(m) .. Fill(m) + 0 - 1 : x.buffer[At(m, k)].ring
      BY <1>1
    <2>4. \A j \in Window(m, 0, Fill(m)) : x.buffer[j] = m.buffer[j]
      BY <1>1, <1>2, <1>4
    <2>5. Fill(x) = Fill(m) + 0
      BY <1>9, <2>1
    <2> QED  BY <1>3, <1>9, <2>1, <2>2, <2>3, <2>4, <2>5, GoodWithout
  <1> QED  BY <1>3, <1>8, <1>9, <1>10

LEMMA Fields ==
    \A p, part : /\ BufOf(p, part, TRUE).page = p /\ BufOf(p, part, TRUE).part = part
                 /\ BufOf(p, part, TRUE).ring = TRUE
BY DEF BufOf

LEMMA Made == \A p \in Pages, part \in Parts : BufOf(p, part, TRUE) \in Buffers
BY BufferMade

(* A small packet is copied, and its buffer freed ...                       *)
LEMMA CopyFree ==
    ASSUME NEW kl \in Nat, NEW m, NEW H, NEW L, Good(m, -1, kl, H, L),
           NEW z, z = PutPage(m, m.buffer[At(m, -1)].page), NEW x, x = Clear(z, {At(m, -1)})
    PROVE  Good(x, 0, kl, H, L) /\ SameQueue(m, x) /\ x.slow = m.slow /\ Fill(x) = Fill(m)
  <1> DEFINE S == Window(m, -1, 0)  U == Window(m, -1, Fill(m))  K == Window(m, kl, Fill(m))
             i == At(m, -1)
             p == m.buffer[i].page
             less == [m.ref EXCEPT ![p] = @ - 1]
  <1>1. /\ m \in Rx /\ Owns(m, U, K, H, L) /\ U \subseteq Slots /\ IsFiniteSet(U)
        /\ S \subseteq U /\ S \cap K = {} /\ U \ S = Window(m, 0, Fill(m))
        /\ Fill(m) \in Nat /\ Fill(m) + 1 <= RingSize
    BY PktWindow
  <1>2. S = {i} /\ i \in Slots /\ p \in Pages
    <2>1. S = {i}
      BY DEF Window
    <2>2. -1 \in -1 .. Fill(m) - 1
      BY <1>1
    <2>3. i \in Slots /\ p \in Pages
      BY <2>2, GoodBuffer
    <2> QED  BY <2>1, <2>3
  <1>3. less \in [Pages -> Int] /\ m.mapped \in SUBSET Pages /\ m.ref \in [Pages -> Int]
    BY <1>1, <1>2 DEF Rx
  <1>4. z = WithPages(m, less, m.mapped)
    BY <1>1, <1>2 DEF PutPage, WithPages, Rx
  <1>5. x = Clear(z, {i})
    OBVIOUS
  <1> HIDE DEF S, U, K, i, less
  <1>6. /\ z \in Rx /\ SameQueue(m, z) /\ z.added = m.added /\ z.buffer = m.buffer
        /\ z.page_ring = m.page_ring /\ z.mapped = m.mapped /\ z.ref = less /\ z.slow = m.slow
    BY <1>1, <1>3, <1>4, RxPages
  <1>7. /\ x \in Rx /\ SameQueue(z, x) /\ x.added = z.added /\ x.slow = z.slow
        /\ \A j \in Slots : x.buffer[j] = IF j \in {i} THEN NoBuf ELSE z.buffer[j]
        /\ x.page_ring = z.page_ring /\ x.mapped = z.mapped /\ x.ref = z.ref
    <2>1. z \in Rx
      BY <1>6
    <2> QED  BY <1>5, <2>1, ClearIs
  <1>8. \A j \in U \ {i} : x.buffer[j] = m.buffer[j]
    BY <1>1, <1>6, <1>7
  <1>9. SameQueue(m, x)
    BY <1>6, <1>7, SameQueueTrans
  <1>10. Owns(x, U \ {i}, K, H, L)
    <2>1. x.page_ring = m.page_ring /\ x.mapped = m.mapped /\ x.ref = [m.ref EXCEPT ![m.buffer[i].page] = @ - 1]
      BY <1>6, <1>7 DEF less, p
    <2>2. i \in U /\ i \notin K
      BY <1>1, <1>2
    <2>3. Owns(m, U, K, H, L) /\ IsFiniteSet(U) /\ m.ref \in [Pages -> Int]
      BY <1>1, <1>3
    <2> QED  BY <1>8, <2>1, <2>2, <2>3, OwnsFreeOne
  <1>11. Fill(x) = Fill(m) /\ x.removed = m.removed
    BY <1>6, <1>7, <1>9 DEF Fill, SameQueue
  <1>12. Good(x, 0, kl, H, L)
    <2>1. Fill(m) + 0 = Fill(m) /\ Fill(m) + 0 <= RingSize /\ 0 \in Nat
      BY <1>1, Sizes
    <2>2. Owns(x, Window(m, 0, Fill(m) + 0), Window(m, kl, Fill(m) + 0), H, L)
      BY <1>1, <1>2, <1>10, <2>1 DEF K
    <2>3. \A k \in Fill(m) .. Fill(m) + 0 - 1 : x.buffer[At(m, k)].ring
      BY <1>1
    <2>4. \A j \in Window(m, 0, Fill(m)) : x.buffer[j] = m.buffer[j]
      BY <1>1, <1>2, <1>8
    <2>5. Fill(x) = Fill(m) + 0
      BY <1>11, <2>1
    <2> QED  BY <1>7, <1>11, <2>1, <2>2, <2>3, <2>4, <2>5, GoodWithout
  <1> QED  BY <1>6, <1>7, <1>9, <1>11, <1>12

(* ... or posted again.                                                     *)
LEMMA CopyOne ==
    ASSUME NEW kl \in Nat, NEW m, NEW H, NEW L, Good(m, -1, kl, H, L),
           Fill(m) + 1 < RingSize, m.buffer[At(m, -1)].ring,
           NEW x, x \in Rx, x.removed = m.removed, Fill(x) = Fill(m) + 1,
           \A j \in Slots : j # At(m, -1) /\ j # At(m, Fill(m)) => x.buffer[j] = m.buffer[j],
           x.buffer[At(m, Fill(m))].page = m.buffer[At(m, -1)].page,
           x.buffer[At(m, Fill(m))].part = m.buffer[At(m, -1)].part,
           x.buffer[At(m, Fill(m))].ring = TRUE,
           x.page_ring = m.page_ring, x.mapped = m.mapped, x.ref = m.ref
    PROVE  /\ Good(x, 0, kl, H, L)
           /\ Owns(x, Window(m, 0, Fill(m) + 1), Window(m, kl, Fill(m) + 1), H, L)
  <1> DEFINE f == Fill(m)
             S == Window(m, -1, 0)  U == Window(m, -1, f)  K == Window(m, kl, f)
             i == At(m, -1)
             a == At(m, f)
  <1>1. /\ m \in Rx /\ Owns(m, U, K, H, L) /\ U \subseteq Slots /\ IsFiniteSet(U)
        /\ S \subseteq U /\ S \cap K = {} /\ U \ S = Window(m, 0, f)
        /\ K \subseteq Window(m, 0, f) /\ f \in Nat /\ kl <= f
    BY PktWindow
  <1>2. S = {i}
    BY DEF Window
  <1>3. a \in Slots /\ a \notin U /\ Window(m, 0, f + 1) = Window(m, 0, f) \cup {a}
        /\ Window(m, kl, f + 1) = K \cup {a}
    <2>1. a \in Slots
      BY <1>1, AtSlot
    <2>2. f \in Int /\ f - (-1) < RingSize /\ -1 <= f /\ 0 <= f /\ kl <= f
      BY <1>1
    <2>3. a \notin U
      BY <1>1, <2>2, WindowNext
    <2>4. Window(m, 0, f + 1) = Window(m, 0, f) \cup {a}
      BY <1>1, <2>2, WindowNext
    <2>5. Window(m, kl, f + 1) = Window(m, kl, f) \cup {a}
      BY <1>1, <2>2, WindowNext
    <2> QED  BY <2>1, <2>3, <2>4, <2>5
  <1>4. /\ x.buffer[a].page = m.buffer[i].page /\ x.buffer[a].part = m.buffer[i].part
        /\ x.buffer[a].ring /\ m.buffer[i].ring
    OBVIOUS
  <1>5. \A j \in Slots : j # i /\ j # a => x.buffer[j] = m.buffer[j]
    OBVIOUS
  <1>6. Good(m, -1, kl, H, L) /\ Fill(m) + 1 <= RingSize /\ \A k \in Fill(m) .. Fill(m) + 1 - 1 : x.buffer[At(m, k)].ring
    <2>1. \A k \in f .. f + 1 - 1 : k = f
      BY <1>1
    <2> QED  BY <1>4, <2>1, <1>1, Sizes
  <1> HIDE DEF S, U, K, i, a, f
  <1>7. \A j \in U \ {i} : x.buffer[j] = m.buffer[j]
    BY <1>1, <1>3, <1>5
  <1>8. Owned(x, K \cup {a}) = Owned(m, K)
    <2>1. ~Recyclable(x.buffer[a])
      BY <1>4 DEF Recyclable
    <2>2. \A j \in K : x.buffer[j] = m.buffer[j]
      BY <1>1, <1>2, <1>7
    <2> QED  BY <2>1, <2>2 DEF Owned
  <1>9. Owns(x, (U \ {i}) \cup {a}, K \cup {a}, H, L)
    <2>1. i \in U /\ K \cup {a} \subseteq (U \ {i}) \cup {a} /\ IsFiniteSet(U) /\ a \notin U
      BY <1>1, <1>2, <1>3
    <2>2. Owns(m, U, K, H, L)
      BY <1>1
    <2>3. x.buffer[a].page = m.buffer[i].page /\ x.buffer[a].part = m.buffer[i].part
      BY <1>4
    <2>4. x.buffer[a].ring => m.buffer[i].ring
      BY <1>4
    <2> QED  BY <1>7, <1>8, <2>1, <2>2, <2>3, <2>4, OwnsMove
  <1>10. Owns(x, Window(m, 0, f + 1), Window(m, kl, f + 1), H, L)
    BY <1>1, <1>2, <1>3, <1>9
  <1>11. \A j \in Window(m, 0, f) : x.buffer[j] = m.buffer[j]
    BY <1>1, <1>2, <1>7
  <1>12. Good(x, 0, kl, H, L)
    BY <1>6, <1>10, <1>11, GoodWithout DEF f
  <1> QED  BY <1>10, <1>12 DEF f

(* The page's other half is posted with it if nobody else uses it.          *)
BothPosted(m, x, p, part, other, g) ==
    /\ p = m.buffer[At(m, -1)].page /\ part = m.buffer[At(m, -1)].part /\ other = 1 - part
    /\ g = Fill(m) + 1
    /\ m.ref[p] < PerPage + 1 /\ x.ref = [m.ref EXCEPT ![p] = @ + 1]
    /\ \A j \in Slots : j # At(m, -1) /\ j # At(m, Fill(m)) /\ j # At(m, g) => x.buffer[j] = m.buffer[j]
    /\ x.buffer[At(m, Fill(m))] = BufOf(p, part, TRUE)
    /\ x.buffer[At(m, g)] = BufOf(p, other, TRUE)

LEMMA CopyBoth ==
    ASSUME NEW kl \in Nat, NEW m, NEW H, NEW L, Good(m, -1, kl, H, L),
           Fill(m) + 2 < RingSize, m.buffer[At(m, -1)].ring, PerPage = 2,
           NEW x, x \in Rx, x.removed = m.removed, Fill(x) = Fill(m) + 2,
           NEW p, NEW part, NEW other, NEW g, BothPosted(m, x, p, part, other, g),
           x.page_ring = m.page_ring, x.mapped = m.mapped
    PROVE  Good(x, 0, kl, H, L)
  <1> DEFINE f == Fill(m)
             V == Window(m, 0, f + 1)  K == Window(m, kl, f + 1)
             a == At(m, f)
             b == At(m, f + 1)
             z == WithPages(x, m.ref, m.mapped)
  <1>1. /\ m \in Rx /\ f \in Nat /\ kl <= f /\ Owns(m, Window(m, -1, f), Window(m, kl, f), H, L)
        /\ Window(m, -1, f) \subseteq Slots
    BY PktWindow
  <1>01. p = m.buffer[At(m, -1)].page /\ part = m.buffer[At(m, -1)].part
    BY DEF BothPosted
  <1>02. other = 1 - part
    BY DEF BothPosted
  <1>03. m.ref[p] < 3 /\ x.ref = [m.ref EXCEPT ![p] = @ + 1]
    BY DEF BothPosted
  <1>04. \A j \in Slots : j # At(m, -1) /\ j # a /\ j # b => x.buffer[j] = m.buffer[j]
    BY DEF BothPosted
  <1>05. x.buffer[a] = BufOf(p, part, TRUE) /\ x.buffer[b] = BufOf(p, other, TRUE)
    BY DEF BothPosted
  <1>2. /\ At(m, -1) \in Window(m, -1, f) /\ p \in Pages /\ part \in Parts
        /\ p \in Ringed(m)
    <2>1. -1 \in -1 .. Fill(m) - 1
      BY <1>1
    <2> QED  BY <1>01, <2>1, GoodBuffer
  <1>3. part \in Parts /\ other \in Parts /\ part # other /\ Parts = {0, 1}
    <2>1. Parts = 0 .. 1
      BY DEF Parts
    <2> QED  BY <1>02, <1>2, <2>1
  <1>4. /\ x.buffer[a].page = p /\ x.buffer[a].part = part /\ x.buffer[a].ring = TRUE
        /\ x.buffer[b].page = p /\ x.buffer[b].part = other /\ x.buffer[b].ring = TRUE
    <2>1. PICK one : one = BufOf(p, part, TRUE)
      OBVIOUS
    <2>2. PICK two : two = BufOf(p, other, TRUE)
      OBVIOUS
    <2>3. one.page = p /\ one.part = part /\ one.ring = TRUE
      BY <2>1, Fields
    <2>4. two.page = p /\ two.part = other /\ two.ring = TRUE
      BY <2>2, Fields
    <2> HIDE DEF a, b
    <2>5. x.buffer[a] = one /\ x.buffer[b] = two
      BY <1>05, <2>1, <2>2
    <2>6. x.buffer[a].page = p /\ x.buffer[a].part = part /\ x.buffer[a].ring = TRUE
      BY <2>3, <2>5
    <2>7. x.buffer[b].page = p /\ x.buffer[b].part = other /\ x.buffer[b].ring = TRUE
      BY <2>4, <2>5
    <2> QED  BY <2>6, <2>7
  <1>5. m.ref \in [Pages -> Int] /\ m.mapped \in SUBSET Pages
    BY <1>1 DEF Rx
  <1>6. /\ z \in Rx /\ SameQueue(x, z) /\ z.added = x.added /\ z.buffer = x.buffer
        /\ z.page_ring = x.page_ring /\ z.mapped = m.mapped /\ z.ref = m.ref
    <2> HIDE DEF z
    <2>1. z = WithPages(x, m.ref, m.mapped)
      BY DEF z
    <2> QED  BY <2>1, <1>5, RxPages
  <1> HIDE DEF z
  <1>7. /\ a \in Slots /\ b \in Slots /\ a # b /\ b # At(m, -1) /\ b \notin V
        /\ Window(m, 0, f + 2) = V \cup {b} /\ Window(m, kl, f + 2) = K \cup {b}
        /\ V \subseteq Slots /\ IsFiniteSet(V)
    <2> DEFINE e == f + 1
    <2>1. e \in Int /\ e - (-1) < RingSize /\ e - 0 < RingSize /\ -1 <= e /\ 0 <= e /\ kl <= e /\ f \in -1 .. e - 1
          /\ -1 \in -1 .. e - 1 /\ e + 1 = f + 2
      BY <1>1, Sizes
    <2>2. a \in Slots /\ b \in Slots
      BY <1>1, <2>1, AtSlot
    <2> HIDE DEF e
    <2>3. At(m, e) \notin Window(m, -1, e)
      BY <1>1, <2>1, WindowNext
    <2>4. At(m, f) \in Window(m, -1, e) /\ At(m, -1) \in Window(m, -1, e)
      BY <2>1 DEF Window
    <2>5. At(m, e) \notin Window(m, 0, e) /\ Window(m, 0, e + 1) = Window(m, 0, e) \cup {At(m, e)}
      <3> DEFINE o == 0
      <3>1. o \in Int /\ e \in Int /\ o <= e /\ e - o < RingSize
        <4>1. e \in Int /\ e - (-1) < RingSize /\ 0 <= e /\ RingSize \in Int
          BY <2>1, Sizes
        <4> QED  BY <4>1
      <3> HIDE DEF o
      <3>2. At(m, e) \notin Window(m, o, e) /\ Window(m, o, e + 1) = Window(m, o, e) \cup {At(m, e)}
        <4>1. m \in Rx
          BY <1>1
        <4>2. Window(m, o, e + 1) = Window(m, o, e) \cup {At(m, e)}
          BY <3>1, <4>1, WindowNext
        <4>3. At(m, e) \notin Window(m, o, e)
          BY <3>1, <4>1, WindowNext
        <4> QED  BY <4>2, <4>3
      <3> QED  BY <3>2 DEF o
    <2>6. Window(m, kl, e + 1) = Window(m, kl, e) \cup {At(m, e)}
      BY <1>1, <2>1, WindowNext
    <2>7. Window(m, 0, e) \subseteq Slots /\ IsFiniteSet(Window(m, 0, e))
      BY <1>1, <2>1, WindowSlots
    <2> QED  BY <2>1, <2>2, <2>3, <2>4, <2>5, <2>6, <2>7 DEF e
  <1>8. Owns(z, V, K, H, L)
    <2> DEFINE y == WithBuffer(z, b, m.buffer[b], Incr(m.added, 1))
    <2>1. m.buffer[b] \in Buffers /\ Incr(m.added, 1) \in Counts /\ m.added \in Counts /\ m.removed \in Counts
      BY <1>1, <1>7, IncrRange DEF Rx
    <2>2. /\ y \in Rx /\ SameQueue(z, y) /\ y.added = Incr(m.added, 1)
          /\ y.buffer = [z.buffer EXCEPT ![b] = m.buffer[b]]
          /\ y.page_ring = z.page_ring /\ y.mapped = z.mapped /\ y.ref = z.ref
      <3> HIDE DEF y
      <3>1. y = WithBuffer(z, b, m.buffer[b], Incr(m.added, 1))
        BY DEF y
      <3> QED  BY <3>1, <1>6, <1>7, <2>1, RxBuffer
    <2> HIDE DEF y
    <2>3. y.removed = m.removed /\ Fill(y) = f + 1
      <3>1. y.removed = m.removed
        BY <1>6, <2>2 DEF SameQueue
      <3>2. Behind(m.added, m.removed) + 1 < CountSpace
        BY <1>1, Sizes DEF Fill
      <3>3. Behind(Incr(m.added, 1), m.removed) = Behind(m.added, m.removed) + 1
        BY <2>1, <3>2, BehindNext
      <3> QED  BY <2>2, <3>1, <3>3 DEF Fill
    <2>4. z.buffer \in [Slots -> Buffers]
      BY <1>6 DEF Rx
    <2>11. /\ \A j \in Slots : j # b => y.buffer[j] = x.buffer[j]
           /\ y.buffer[b] = m.buffer[b]
      <3> HIDE DEF a, b
      <3> QED  BY <1>6, <1>7, <2>2, <2>4
    <2>5. \A j \in Slots : j # At(m, -1) /\ j # a => y.buffer[j] = m.buffer[j]
      <3> HIDE DEF a, b
      <3> QED  BY <1>04, <2>11
    <2>6. y.buffer[a] = x.buffer[a]
      <3> HIDE DEF a, b
      <3> QED  BY <1>7, <2>11
    <2>7. /\ y.page_ring = m.page_ring /\ y.mapped = m.mapped /\ y.ref = m.ref
          /\ y.buffer[a].page = m.buffer[At(m, -1)].page /\ y.buffer[a].part = m.buffer[At(m, -1)].part
          /\ y.buffer[a].ring = TRUE
      BY <1>01, <1>4, <1>6, <2>2, <2>6
    <2>8. Fill(m) + 1 < RingSize
      BY <1>1, Sizes
    <2>9. Owns(y, V, K, H, L)
      BY <2>2, <2>3, <2>5, <2>7, <2>8, CopyOne
    <2>10. \A j \in V : z.buffer[j] = y.buffer[j]
      BY <1>7, <2>2, <2>4
    <2> QED  BY <2>2, <2>9, <2>10, OwnsSame
  <1>9. PlaceOf(x, b) \notin H /\ \A j \in V : PlaceOf(z, j) # PlaceOf(x, b)
    <2> DEFINE u == Cardinality(UsesOf(z, V, p))  h == Cardinality(HeldOf(H, p))
    <2>1. p \in z.mapped
      <3>1. p \in Ringed(z)
        BY <1>2, <1>6 DEF Ringed
      <3> QED  BY <3>1, <1>8 DEF Owns, OneKeeper
    <2>2. z.ref[p] = u + h + 1 /\ z.ref[p] < 3
      BY <1>03, <1>2, <1>6, <1>8, <2>1 DEF Owns, RefOf
    <2>3. IsFiniteSet(UsesOf(z, V, p)) /\ u \in Nat
      BY <1>7, UsesFinite
    <2>4. H \subseteq Pages \X Parts
      BY <1>8 DEF Owns, Apart
    <2>5. IsFiniteSet(HeldOf(H, p)) /\ h \in Nat
      BY <2>4, HeldFinite
    <2>6. a \in UsesOf(z, V, p)
      <3>1. a \in V
        BY <1>1 DEF Window
      <3> QED  BY <3>1, <1>4, <1>6 DEF UsesOf
    <2>7. u # 0
      BY <2>3, <2>6, FS_EmptySet
    <2>8. u = 1 /\ h = 0
      <3> HIDE DEF u, h
      <3> QED  BY <2>2, <2>3, <2>5, <2>7
    <2>9. HeldOf(H, p) = {}
      BY <2>5, <2>8, FS_EmptySet
    <2>10. UsesOf(z, V, p) = {a}
      <3>1. PICK e : UsesOf(z, V, p) = {e}
        BY <2>3, <2>8, FS_Singleton
      <3> QED  BY <3>1, <2>6
    <2>11. PlaceOf(x, b) = <<p, other>>
      BY <1>4 DEF PlaceOf
    <2>12. PlaceOf(x, b) \notin H
      BY <2>9, <2>11 DEF HeldOf
    <2>13. ASSUME NEW j \in V, PlaceOf(z, j) = <<p, other>>  PROVE FALSE
      <3>1. z.buffer[j].page = p /\ z.buffer[j].part = other
        BY <2>13 DEF PlaceOf
      <3>2. j = a
        BY <3>1, <2>10 DEF UsesOf
      <3> QED  BY <3>1, <3>2, <1>3, <1>4, <1>6
    <2> QED  BY <2>11, <2>12, <2>13
  <1> HIDE DEF V, K, a, b
  <1>10. Owns(x, V \cup {b}, K \cup {b}, H, L)
    <2>1. p \in Ringed(z) /\ z.ref \in [Pages -> Int]
      BY <1>2, <1>5, <1>6 DEF Ringed
    <2>2. x.buffer[b].page = p /\ x.buffer[b].ring
      BY <1>4
    <2>3. \A j \in V : x.buffer[j] = z.buffer[j]
      BY <1>6
    <2>4. x.page_ring = z.page_ring /\ x.mapped = z.mapped /\ x.ref = [z.ref EXCEPT ![x.buffer[b].page] = @ + 1]
      BY <1>03, <1>6, <2>2
    <2>5. x.buffer[b].page \in Ringed(z) /\ x.buffer[b].page \in Pages
      BY <1>2, <2>1, <2>2
    <2>6. IsFiniteSet(V) /\ b \notin V
      BY <1>7
    <2>7. x.buffer[b].ring
      BY <2>2
    <2> QED  BY <1>8, <1>9, <2>1, <2>3, <2>4, <2>5, <2>6, <2>7, OwnsPost
  <1>11. \A j \in Window(m, 0, f) : x.buffer[j] = m.buffer[j]
    <2> TAKE j \in Window(m, 0, f)
    <2>1. PICK k \in 0 .. f - 1 : j = At(m, k)
      BY DEF Window
    <2>2. /\ k - (-1) < RingSize /\ -1 - k < RingSize /\ k - f < RingSize /\ f - k < RingSize
          /\ k - (f + 1) < RingSize /\ (f + 1) - k < RingSize /\ k # -1 /\ k # f /\ k # f + 1
          /\ k \in Int /\ f \in Int /\ f + 1 \in Int
      BY <1>1, Sizes
    <2>3. At(m, k) # At(m, -1) /\ At(m, k) # At(m, f) /\ At(m, k) # At(m, f + 1)
      <3> DEFINE e == f + 1
      <3>1. e \in Int /\ k - e < RingSize /\ e - k < RingSize /\ k # e
        BY <2>2
      <3> HIDE DEF e, f
      <3>2. At(m, k) # At(m, -1)
        BY <1>1, <2>2, AtEqual
      <3>3. At(m, k) # At(m, f)
        BY <1>1, <2>2, AtEqual
      <3>4. At(m, k) # At(m, e)
        BY <1>1, <3>1, AtEqual
      <3> QED  BY <3>2, <3>3, <3>4 DEF e
    <2>4. j \in Slots
      BY <1>1, <2>1, AtSlot
    <2> QED  BY <1>04, <2>1, <2>3, <2>4 DEF a, b
  <1>12. \A k \in f .. f + 2 - 1 : x.buffer[At(m, k)].ring
    <2>1. \A k \in f .. f + 2 - 1 : k = f \/ k = f + 1
      BY <1>1
    <2> QED  BY <2>1, <1>4 DEF a, b
  <1>13. Owns(x, Window(m, 0, f + 2), Window(m, kl, f + 2), H, L)
    BY <1>7, <1>10
  <1>14. Fill(m) + 2 <= RingSize /\ 2 \in Nat
    BY <1>1, Sizes
  <1> QED  BY <1>11, <1>12, <1>13, <1>14, GoodWithout

(* What is posted, and the packet's slot cleared.                           *)
LEMMA ClearAfter ==
    ASSUME NEW m \in Rx, NEW i \in Slots, NEW x, x = Clear(m, {i})
    PROVE  /\ x \in Rx /\ SameQueue(m, x) /\ x.added = m.added /\ x.slow = m.slow
           /\ \A j \in Slots : j # i => x.buffer[j] = m.buffer[j]
           /\ x.page_ring = m.page_ring /\ x.mapped = m.mapped /\ x.ref = m.ref
  <1> DEFINE S == {i}
  <1>1. x = Clear(m, S)
    OBVIOUS
  <1>2. \A j : j \in S <=> j = i
    OBVIOUS
  <1> HIDE DEF S
  <1> QED  BY <1>1, <1>2, ClearIs

(* Copy, when the buffer is posted again, and when both halves are.         *)
PostedOne(m, p, part)  == Post(m, BufOf(p, part, TRUE))
PostedBoth(m, p, part) == [Post(PostedOne(m, p, part), BufOf(p, 1 - part, TRUE)) EXCEPT !.ref[p] = @ + 1]
CopiedOne(m, i)  == Clear(PostedOne(m, m.buffer[i].page, m.buffer[i].part), {i})
CopiedBoth(m, i) == Clear(PostedBoth(m, m.buffer[i].page, m.buffer[i].part), {i})

LEMMA CopyOneIs ==
    ASSUME NEW kl \in Nat, NEW m, NEW H, NEW L, Good(m, -1, kl, H, L), Fill(m) <= fast_fill_trigger,
           m.buffer[At(m, -1)].ring, NEW x, x = CopiedOne(m, At(m, -1))
    PROVE  /\ Good(x, 0, kl, H, L) /\ SameQueue(m, x) /\ x.slow = m.slow
           /\ Fill(m) <= Fill(x) /\ Fill(x) <= max_fill
  <1>1. m \in Rx /\ Fill(m) \in Nat
    BY PktWindow
  <1>20. PICK i : i = At(m, -1)
    OBVIOUS
  <1>21. PICK b : b = BufOf(m.buffer[i].page, m.buffer[i].part, TRUE)
    OBVIOUS
  <1>22. PICK one : one = Post(m, b)
    OBVIOUS
  <1>23. x = Clear(one, {i})
    BY <1>20, <1>21, <1>22 DEF CopiedOne, PostedOne
  <1>2. i \in Slots /\ m.buffer[i].page \in Pages /\ m.buffer[i].part \in Parts
    <2>1. -1 \in -1 .. Fill(m) - 1
      BY <1>1
    <2> QED  BY <2>1, <1>20, GoodBuffer
  <1>3. b \in Buffers /\ b.page = m.buffer[i].page /\ b.part = m.buffer[i].part /\ b.ring = TRUE
    <2>1. b \in Buffers
      BY <1>2, <1>21, Made
    <2> QED  BY <2>1, <1>21, Fields
  <1>4. Fill(m) + 1 <= max_fill /\ Fill(m) + 1 < RingSize /\ Fill(m) + 1 < CountSpace
    BY <1>1, Sizes
  <1>5. /\ one \in Rx /\ Fill(one) = Fill(m) + 1 /\ SameQueue(m, one)
        /\ one.buffer = [m.buffer EXCEPT ![At(m, Fill(m))] = b]
        /\ one.page_ring = m.page_ring /\ one.mapped = m.mapped /\ one.ref = m.ref /\ one.slow = m.slow
    BY <1>1, <1>3, <1>4, <1>22, PostIs
  <1>6. /\ x \in Rx /\ SameQueue(one, x) /\ x.added = one.added /\ x.slow = one.slow
        /\ \A j \in Slots : j # i => x.buffer[j] = one.buffer[j]
        /\ x.page_ring = one.page_ring /\ x.mapped = one.mapped /\ x.ref = one.ref
    BY <1>2, <1>5, <1>23, ClearAfter
  <1>7. PICK a : a = At(m, Fill(m))
    OBVIOUS
  <1>8. a \in Slots /\ a # i
    <2>1. -1 - Fill(m) < RingSize /\ Fill(m) - (-1) < RingSize /\ Fill(m) # -1 /\ -1 \in Int /\ Fill(m) \in Int
      BY <1>1, <1>4, Sizes
    <2>2. a \in Slots
      BY <1>1, <1>7, <2>1, AtSlot
    <2>3. At(m, -1) # At(m, Fill(m))
      BY <1>1, <2>1, AtEqual
    <2> QED  BY <1>7, <1>20, <2>2, <2>3
  <1>9. m.buffer \in [Slots -> Buffers] /\ one.buffer = [m.buffer EXCEPT ![a] = b]
    BY <1>1, <1>5, <1>7 DEF Rx
  <1>10. x.buffer[a] = b /\ \A j \in Slots : j # i /\ j # a => x.buffer[j] = m.buffer[j]
    BY <1>6, <1>8, <1>9
  <1>11. SameQueue(m, x)
    BY <1>5, <1>6, SameQueueTrans
  <1>12. Fill(x) = Fill(m) + 1 /\ x.removed = m.removed
    BY <1>5, <1>6, <1>11 DEF Fill, SameQueue
  <1>13. x.page_ring = m.page_ring /\ x.mapped = m.mapped /\ x.ref = m.ref /\ x.slow = m.slow
    BY <1>5, <1>6
  <1>14. /\ \A j \in Slots : j # At(m, -1) /\ j # At(m, Fill(m)) => x.buffer[j] = m.buffer[j]
         /\ x.buffer[At(m, Fill(m))].page = m.buffer[At(m, -1)].page
         /\ x.buffer[At(m, Fill(m))].part = m.buffer[At(m, -1)].part
         /\ x.buffer[At(m, Fill(m))].ring = TRUE
         /\ m.buffer[At(m, -1)].ring
    BY <1>3, <1>7, <1>10, <1>20
  <1>15. Good(x, 0, kl, H, L)
    BY <1>4, <1>6, <1>12, <1>13, <1>14, CopyOne
  <1>16. Fill(m) <= Fill(x) /\ Fill(x) <= max_fill
    BY <1>1, <1>4, <1>12
  <1> QED  BY <1>11, <1>13, <1>15, <1>16

LEMMA CopyBothIs ==
    ASSUME NEW kl \in Nat, NEW m, NEW H, NEW L, Good(m, -1, kl, H, L), Fill(m) <= fast_fill_trigger,
           m.buffer[At(m, -1)].ring, PerPage = 2, m.ref[m.buffer[At(m, -1)].page] < PerPage + 1,
           NEW x, x = CopiedBoth(m, At(m, -1))
    PROVE  /\ Good(x, 0, kl, H, L) /\ SameQueue(m, x) /\ x.slow = m.slow
           /\ Fill(m) <= Fill(x) /\ Fill(x) <= max_fill
  <1>24. PICK i : i = At(m, -1)
    OBVIOUS
  <1>25. PICK p : p = m.buffer[i].page
    OBVIOUS
  <1>26. PICK part : part = m.buffer[i].part
    OBVIOUS
  <1>27. PICK b : b = BufOf(p, part, TRUE)
    OBVIOUS
  <1>33. PICK other : other = 1 - part
    OBVIOUS
  <1>28. PICK c : c = BufOf(p, other, TRUE)
    OBVIOUS
  <1>29. PICK one : one = Post(m, b)
    OBVIOUS
  <1>30. PICK two : two = Post(one, c)
    OBVIOUS
  <1>31. PICK more : more = [two EXCEPT !.ref[p] = @ + 1]
    OBVIOUS
  <1>32. x = Clear(more, {i})
    BY <1>24, <1>25, <1>26, <1>27, <1>28, <1>29, <1>30, <1>31, <1>33 DEF CopiedBoth, PostedBoth, PostedOne
  <1>1. m \in Rx /\ Fill(m) \in Nat
    BY PktWindow
  <1>2. i \in Slots /\ p \in Pages /\ part \in Parts /\ 1 - part \in Parts
    <2>1. -1 \in -1 .. Fill(m) - 1
      BY <1>1
    <2>2. i \in Slots /\ p \in Pages /\ part \in Parts
      BY <2>1, <1>24, <1>25, <1>26, GoodBuffer
    <2>3. Parts = 0 .. 1
      BY DEF Parts
    <2> QED  BY <2>2, <2>3
  <1>3. b \in Buffers /\ c \in Buffers
    BY <1>2, <1>27, <1>28, <1>33, Made
  <1>4. Fill(m) + 2 <= max_fill /\ Fill(m) + 2 < RingSize /\ Fill(m) + 2 < CountSpace
    BY <1>1, Sizes
  <1>5. /\ one \in Rx /\ Fill(one) = Fill(m) + 1 /\ SameQueue(m, one)
        /\ one.buffer = [m.buffer EXCEPT ![At(m, Fill(m))] = b]
        /\ one.page_ring = m.page_ring /\ one.mapped = m.mapped /\ one.ref = m.ref /\ one.slow = m.slow
    <2>1. Fill(m) + 1 < CountSpace
      BY <1>1, <1>4, Sizes
    <2> QED  BY <1>1, <1>3, <1>29, <2>1, PostIs
  <1>6. /\ two \in Rx /\ Fill(two) = Fill(one) + 1 /\ SameQueue(one, two)
        /\ two.buffer = [one.buffer EXCEPT ![At(one, Fill(one))] = c]
        /\ two.page_ring = one.page_ring /\ two.mapped = one.mapped /\ two.ref = one.ref /\ two.slow = one.slow
    <2>1. Fill(one) + 1 < CountSpace
      BY <1>1, <1>4, <1>5, Sizes
    <2> QED  BY <1>3, <1>5, <1>30, <2>1, PostIs
  <1>7. Fill(two) = Fill(m) + 2 /\ At(one, Fill(one)) = At(m, Fill(m) + 1)
    <2>1. At(one, Fill(one)) = At(m, Fill(m) + 1)
      BY <1>5, SameAt DEF SameQueue
    <2> QED  BY <1>1, <1>5, <1>6, <2>1
  <1>8. PICK ref : ref = [m.ref EXCEPT ![p] = @ + 1]
    OBVIOUS
  <1>9. /\ more \in Rx /\ SameQueue(two, more) /\ more.added = two.added /\ more.buffer = two.buffer
        /\ more.page_ring = two.page_ring /\ more.mapped = two.mapped /\ more.ref = ref
        /\ more.slow = two.slow
    <2>1. ref \in [Pages -> Int] /\ two.mapped \in SUBSET Pages
      <3>1. m.ref \in [Pages -> Int] /\ two.mapped \in SUBSET Pages
        BY <1>1, <1>6 DEF Rx
      <3> QED  BY <3>1, <1>2, <1>8
    <2>2. two.ref = m.ref
      BY <1>5, <1>6
    <2>3. more = [two EXCEPT !.ref = [two.ref EXCEPT ![p] = @ + 1]]
      BY <1>6, <1>31 DEF Rx
    <2>4. more = [two EXCEPT !.ref = ref]
      BY <2>2, <2>3, <1>8
    <2>5. more = WithPages(two, ref, two.mapped)
      BY <2>4, <1>6 DEF WithPages, Rx
    <2> QED  BY <2>1, <2>5, <1>6, RxPages
  <1>10. /\ x \in Rx /\ SameQueue(more, x) /\ x.added = more.added /\ x.slow = more.slow
         /\ \A j \in Slots : j # i => x.buffer[j] = more.buffer[j]
         /\ x.page_ring = more.page_ring /\ x.mapped = more.mapped /\ x.ref = more.ref
    BY <1>2, <1>9, <1>32, ClearAfter
  <1>11. SameQueue(m, x) /\ SameQueue(m, two)
    BY <1>5, <1>6, <1>9, <1>10, SameQueueTrans
  <1>12. Fill(x) = Fill(m) + 2 /\ x.removed = m.removed
    BY <1>7, <1>9, <1>10, <1>11 DEF Fill, SameQueue
  <1>13. PICK a : a = At(m, Fill(m))
    OBVIOUS
  <1>14. PICK g : g = Fill(m) + 1
    OBVIOUS
  <1>15. PICK d : d = At(m, g)
    OBVIOUS
  <1>16. a \in Slots /\ d \in Slots /\ i # a /\ i # d /\ a # d
    <2>1. /\ -1 - Fill(m) < RingSize /\ Fill(m) - (-1) < RingSize /\ Fill(m) # -1 /\ Fill(m) \in Int
          /\ -1 - g < RingSize /\ g - (-1) < RingSize /\ g # -1 /\ g \in Int /\ -1 \in Int
          /\ Fill(m) - g < RingSize /\ g - Fill(m) < RingSize /\ g # Fill(m)
      BY <1>1, <1>4, <1>14, Sizes
    <2>2. a \in Slots /\ d \in Slots
      BY <1>1, <1>13, <1>15, <2>1, AtSlot
    <2>3. At(m, -1) # At(m, Fill(m))
      BY <1>1, <2>1, AtEqual
    <2>4. At(m, -1) # At(m, g)
      BY <1>1, <2>1, AtEqual
    <2>5. At(m, Fill(m)) # At(m, g)
      BY <1>1, <2>1, AtEqual
    <2> QED  BY <1>13, <1>15, <1>24, <2>2, <2>3, <2>4, <2>5
  <1>17. /\ m.buffer \in [Slots -> Buffers] /\ one.buffer \in [Slots -> Buffers]
         /\ one.buffer = [m.buffer EXCEPT ![a] = b] /\ two.buffer = [one.buffer EXCEPT ![d] = c]
    BY <1>1, <1>5, <1>6, <1>7, <1>13, <1>14, <1>15 DEF Rx
  <1>18. /\ x.buffer[a] = b /\ x.buffer[d] = c
         /\ \A j \in Slots : j # i /\ j # a /\ j # d => x.buffer[j] = m.buffer[j]
    BY <1>9, <1>10, <1>16, <1>17
  <1>19. x.page_ring = m.page_ring /\ x.mapped = m.mapped /\ x.ref = [m.ref EXCEPT ![p] = @ + 1] /\ x.slow = m.slow
    BY <1>5, <1>6, <1>8, <1>9, <1>10
  <1>20. /\ \A j \in Slots : j # At(m, -1) /\ j # At(m, Fill(m)) /\ j # At(m, g) => x.buffer[j] = m.buffer[j]
         /\ x.buffer[At(m, Fill(m))] = BufOf(p, part, TRUE)
         /\ x.buffer[At(m, g)] = BufOf(p, other, TRUE)
    BY <1>13, <1>15, <1>18, <1>24, <1>27, <1>28
  <1>21. p = m.buffer[At(m, -1)].page /\ part = m.buffer[At(m, -1)].part /\ m.ref[p] < PerPage + 1
    BY <1>24, <1>25, <1>26
  <1>22. Good(x, 0, kl, H, L)
    <2>1. x \in Rx /\ x.removed = m.removed /\ Fill(x) = Fill(m) + 2 /\ Fill(m) + 2 < RingSize
      BY <1>4, <1>10, <1>12
    <2>2. BothPosted(m, x, p, part, other, g)
      BY <1>14, <1>19, <1>20, <1>21, <1>33 DEF BothPosted
    <2>3. x.page_ring = m.page_ring /\ x.mapped = m.mapped
      BY <1>19
    <2> QED  BY <2>1, <2>2, <2>3, CopyBoth
  <1>23. Fill(m) <= Fill(x) /\ Fill(x) <= max_fill
    BY <1>1, <1>4, <1>12
  <1> QED  BY <1>11, <1>19, <1>22, <1>23

(* efx_rx_mk_skb of a small packet                                          *)
LEMMA GoodCopy ==
    ASSUME NEW kl \in Nat, NEW m, NEW H, NEW L, Good(m, -1, kl, H, L), Fill(m) <= max_fill,
           NEW x, x = Copy(m, At(m, -1))
    PROVE  /\ Good(x, 0, kl, H, L) /\ SameQueue(m, x) /\ x.slow = m.slow
           /\ Fill(m) <= Fill(x) /\ Fill(x) <= max_fill
  <1>1. m \in Rx /\ Fill(m) \in Nat
    BY PktWindow
  <1>2. PICK i : i = At(m, -1)
    OBVIOUS
  <1>3. PICK p : p = m.buffer[i].page
    OBVIOUS
  <1>4. PICK less : less = PutPage(m, p)
    OBVIOUS
  <1>5. \/ x = Clear(less, {i})
        \/ /\ m.buffer[i].ring /\ ~(PerPage > 2 \/ Fill(m) > fast_fill_trigger)
           /\ \/ x = CopiedOne(m, i)
              \/ PerPage = 2 /\ m.ref[p] < PerPage + 1 /\ x = CopiedBoth(m, i)
    BY <1>2, <1>3, <1>4 DEF Copy, Repost, CopiedOne, CopiedBoth, PostedOne, PostedBoth
  <1>6. CASE x = Clear(less, {i})
    <2>1. less = PutPage(m, m.buffer[At(m, -1)].page) /\ x = Clear(less, {At(m, -1)})
      BY <1>2, <1>3, <1>4, <1>6
    <2>2. Good(x, 0, kl, H, L) /\ SameQueue(m, x) /\ x.slow = m.slow /\ Fill(x) = Fill(m)
      BY <2>1, CopyFree
    <2> QED  BY <1>1, <2>2
  <1>7. CASE m.buffer[i].ring /\ ~(PerPage > 2 \/ Fill(m) > fast_fill_trigger) /\ x = CopiedOne(m, i)
    <2>1. Fill(m) <= fast_fill_trigger
      BY <1>1, <1>7, Sizes
    <2> QED  BY <1>2, <1>7, <2>1, CopyOneIs
  <1>8. CASE /\ m.buffer[i].ring /\ ~(PerPage > 2 \/ Fill(m) > fast_fill_trigger)
             /\ PerPage = 2 /\ m.ref[p] < PerPage + 1 /\ x = CopiedBoth(m, i)
    <2>1. Fill(m) <= fast_fill_trigger
      BY <1>1, <1>8, Sizes
    <2> QED  BY <1>2, <1>3, <1>8, <2>1, CopyBothIs
  <1> QED  BY <1>5, <1>6, <1>7, <1>8

(* The pipeline is empty, or has the packet before removed_count.           *)
PktIs(m) == m.pkt = NoPkt \/ (m.pkt.n \in 1 .. MaxFrags /\ m.pkt.index = At(m, - m.pkt.n))

LEMMA Negated == \A z \in Int : - z = 0 - z
OBVIOUS

Flushed(m, n) ==
    /\ n.pkt = NoPkt /\ n.noted = m.noted /\ n.removed = m.removed
    /\ n.refill_enabled = m.refill_enabled /\ n.spent = m.spent /\ n.slow = m.slow

WithoutPkt(m) == [m EXCEPT !.pkt = NoPkt]
Outcome(m, u) == [rx |-> m, up |-> u]

LEMMA NoPktIs == NoPkt.n = 0 /\ NoPkt.index = 0 /\ NoPkt \in [index : Slots, n : 0 .. MaxFrags]
  <1>1. 0 \in Slots /\ 0 \in 0 .. MaxFrags
    BY Sizes DEF Slots
  <1> QED  BY <1>1 DEF NoPkt

LEMMA WithoutPktIs ==
    ASSUME NEW m, NEW lo, NEW kl, NEW H, NEW L, Good(m, lo, kl, H, L), NEW n, n = WithoutPkt(m)
    PROVE  /\ Good(n, lo, kl, H, L) /\ Fill(n) = Fill(m) /\ Flushed(m, n) /\ n.buffer = m.buffer
           /\ n \in Rx
  <1>1. m \in Rx
    BY DEF Good
  <1>2. n \in Rx
    BY <1>1, NoPktIs DEF WithoutPkt, Rx
  <1>3. /\ n.buffer = m.buffer /\ n.added = m.added /\ n.removed = m.removed
        /\ n.page_ring = m.page_ring /\ n.mapped = m.mapped /\ n.ref = m.ref
    BY <1>1 DEF WithoutPkt, Rx
  <1>4. Flushed(m, n)
    BY <1>1 DEF WithoutPkt, Rx, Flushed
  <1> QED  BY <1>2, <1>3, <1>4, GoodSame

LEMMA FlushedSame ==
    ASSUME NEW m, NEW b, NEW x, Flushed(m, b), SameQueue(b, x), x.slow = b.slow
    PROVE  Flushed(m, x)
BY DEF Flushed, SameQueue

(* The outcomes of efx_rx_flush_packet.                                     *)
FlushesTo(m, b, S, o) ==
    \/ o = Outcome(FreeBuffers(b, S), {})
    \/ o = Outcome(Clear(b, S), {PlaceOf(m, i) : i \in S})
    \/ m.pkt.n = 1 /\ \E i \in S : o = Outcome(Copy(b, i), {})
    \/ Switchdev /\ o = Outcome(FreeBuffers(b, {m.pkt.index}), {})

LEMMA FlushIs ==
    ASSUME NEW m, m.pkt # NoPkt, NEW b, b = WithoutPkt(m), NEW S, S = PktSlots(m.pkt.index, m.pkt.n),
           NEW o \in Flush(m)
    PROVE  FlushesTo(m, b, S, o)
BY DEF FlushesTo, Flush, WithoutPkt, Outcome, PlaceOf

LEMMA OutcomeIs == \A x, u : Outcome(x, u).rx = x /\ Outcome(x, u).up = u
BY DEF Outcome

(* efx_rx_flush_packet: what it frees, gives up or posts again.             *)
FlushGood(m, kl, H, L, o) ==
    /\ Flushed(m, o.rx) /\ Fill(m) <= Fill(o.rx) /\ Fill(o.rx) <= max_fill
    /\ H \cap o.up = {}
    /\ \E G : /\ Good(o.rx, 0, kl, (H \cup o.up) \cup G, L)
              /\ (H \cup o.up) \cap G = {}
              /\ G = {} \/ Switchdev

LEMMA FlushGoodBy ==
    ASSUME NEW m, NEW kl, NEW H, NEW L, NEW o, NEW x, NEW u, o = Outcome(x, u),
           Flushed(m, x), Fill(m) <= Fill(x), Fill(x) <= max_fill, H \cap u = {},
           NEW G, Good(x, 0, kl, (H \cup u) \cup G, L), (H \cup u) \cap G = {}, G = {} \/ Switchdev
    PROVE  FlushGood(m, kl, H, L, o)
  <1>1. o.rx = x /\ o.up = u
    BY OutcomeIs
  <1>2. \E F : /\ Good(x, 0, kl, (H \cup u) \cup F, L)
               /\ (H \cup u) \cap F = {}
               /\ F = {} \/ Switchdev
    OBVIOUS
  <1> QED  BY <1>1, <1>2 DEF FlushGood

LEMMA GoodFlush ==
    ASSUME NEW kl \in Nat, NEW m, NEW H, NEW L, Good(m, - m.pkt.n, kl, H, L), PktIs(m),
           Fill(m) <= max_fill, NEW o \in Flush(m)
    PROVE  FlushGood(m, kl, H, L, o)
  <1>1. m \in Rx /\ Fill(m) \in Nat
    BY FillRange DEF Good
  <1>2. CASE m.pkt = NoPkt
    <2>1. o = Outcome(m, {})
      BY <1>2 DEF Flush, Outcome
    <2>6. m.pkt.n = 0
      BY <1>2, NoPktIs
    <2>7. - m.pkt.n = 0 - m.pkt.n
      <3>1. m.pkt.n \in Int
        BY <2>6
      <3> QED  BY <3>1, Negated
    <2>8. 0 - m.pkt.n = 0
      BY <2>6
    <2>2. - m.pkt.n = 0
      BY <2>7, <2>8
    <2>3. Good(m, 0, kl, (H \cup {}) \cup {}, L)
      <3>1. (H \cup {}) \cup {} = H
        OBVIOUS
      <3> QED  BY <2>2, <3>1
    <2>4. Flushed(m, m)
      BY <1>2 DEF Flushed
    <2>5. Fill(m) <= Fill(m) /\ H \cap {} = {} /\ (H \cup {}) \cap {} = {}
      BY <1>1
    <2> QED  BY <2>1, <2>3, <2>4, <2>5, FlushGoodBy
  <1>3. CASE m.pkt # NoPkt
    <2>1. PICK n : n = m.pkt.n
      OBVIOUS
    <2>2. PICK index : index = m.pkt.index
      OBVIOUS
    <2>3. n \in 1 .. MaxFrags /\ n \in Nat /\ n # 0 /\ index = At(m, -n) /\ Good(m, -n, kl, H, L)
      BY <1>3, <2>1, <2>2, Sizes DEF PktIs
    <2>4. PICK b : b = WithoutPkt(m)
      OBVIOUS
    <2>5. /\ Good(b, -n, kl, H, L) /\ Fill(b) = Fill(m) /\ Flushed(m, b) /\ b.buffer = m.buffer
          /\ b \in Rx
      BY <2>3, <2>4, WithoutPktIs
    <2>6. b.removed = m.removed
      BY <2>5 DEF Flushed
    <2>7. index = At(b, -n)
      BY <2>3, <2>6, SameAt
    <2>8. PICK S : S = Window(b, -n, 0)
      OBVIOUS
    <2>9. S = PktSlots(index, n)
      <3>1. -n \in Int /\ -n + n = 0
        BY <2>3
      <3>2. PktSlots(At(b, -n), n) = Window(b, -n, -n + n)
        BY <2>3, <2>5, <3>1, PktSlotsAre
      <3> QED  BY <2>7, <2>8, <3>1, <3>2
    <2>10. \A i : PlaceOf(m, i) = PlaceOf(b, i)
      BY <2>5 DEF PlaceOf
    <2>11. \/ o = Outcome(FreeBuffers(b, S), {})
           \/ o = Outcome(Clear(b, S), {PlaceOf(b, i) : i \in S})
           \/ n = 1 /\ \E i \in S : o = Outcome(Copy(b, i), {})
           \/ Switchdev /\ o = Outcome(FreeBuffers(b, {index}), {})
      <3>1. S = PktSlots(m.pkt.index, m.pkt.n)
        BY <2>1, <2>2, <2>9
      <3>2. {PlaceOf(m, i) : i \in S} = {PlaceOf(b, i) : i \in S}
        BY <2>10
      <3>3. FlushesTo(m, b, S, o)
        BY <1>3, <2>4, <3>1, FlushIs
      <3>4. Outcome(Clear(b, S), {PlaceOf(m, i) : i \in S}) = Outcome(Clear(b, S), {PlaceOf(b, i) : i \in S})
        BY <3>2
      <3>5. m.pkt.n = n /\ FreeBuffers(b, {m.pkt.index}) = FreeBuffers(b, {index})
        BY <2>1, <2>2
      <3> QED  BY <3>3, <3>4, <3>5, Zenon DEF FlushesTo
    <2>12. ASSUME NEW x, NEW u, NEW G, o = Outcome(x, u), SameQueue(b, x), x.slow = b.slow,
                  Fill(b) <= Fill(x), Fill(x) <= max_fill, H \cap u = {},
                  Good(x, 0, kl, (H \cup u) \cup G, L), (H \cup u) \cap G = {}, G = {} \/ Switchdev
           PROVE  FlushGood(m, kl, H, L, o)
      <3>1. Flushed(m, x)
        BY <2>5, <2>12, FlushedSame
      <3>2. Fill(m) <= Fill(x)
        BY <2>5, <2>12
      <3> QED  BY <2>12, <3>1, <3>2, FlushGoodBy
    <2>13. CASE o = Outcome(FreeBuffers(b, S), {})
      <3>1. PICK x : x = FreeBuffers(b, S)
        OBVIOUS
      <3>2. Good(x, 0, kl, H, L) /\ SameQueue(b, x) /\ x.slow = b.slow /\ Fill(x) = Fill(b)
        BY <2>3, <2>5, <2>8, <3>1, FlushFree
      <3>3. Good(x, 0, kl, (H \cup {}) \cup {}, L)
        <4>1. (H \cup {}) \cup {} = H
          OBVIOUS
        <4> QED  BY <3>2, <4>1
      <3>4. Fill(b) <= Fill(x) /\ Fill(x) <= max_fill /\ H \cap {} = {} /\ (H \cup {}) \cap {} = {}
        BY <1>1, <2>5, <3>2
      <3> QED  BY <2>12, <2>13, <3>1, <3>2, <3>3, <3>4
    <2>14. CASE o = Outcome(Clear(b, S), {PlaceOf(b, i) : i \in S})
      <3>1. PICK x : x = Clear(b, S)
        OBVIOUS
      <3>2. PICK u : u = {PlaceOf(b, i) : i \in S}
        OBVIOUS
      <3>3. /\ Good(x, 0, kl, H \cup u, L) /\ SameQueue(b, x) /\ x.slow = b.slow /\ Fill(x) = Fill(b)
            /\ H \cap u = {}
        BY <2>3, <2>5, <2>8, <3>1, <3>2, FlushGive
      <3>4. Good(x, 0, kl, (H \cup u) \cup {}, L)
        <4>1. (H \cup u) \cup {} = H \cup u
          OBVIOUS
        <4> QED  BY <3>3, <4>1
      <3>5. Fill(b) <= Fill(x) /\ Fill(x) <= max_fill /\ (H \cup u) \cap {} = {}
        BY <1>1, <2>5, <3>3
      <3> QED  BY <2>12, <2>14, <3>1, <3>2, <3>3, <3>4, <3>5
    <2>15. CASE n = 1 /\ \E i \in S : o = Outcome(Copy(b, i), {})
      <3>1. PICK i \in S : o = Outcome(Copy(b, i), {})
        BY <2>15
      <3>2. i = At(b, -1)
        <4>1. S = Window(b, -1, 0)
          BY <2>8, <2>15
        <4> QED  BY <4>1 DEF Window
      <3>3. PICK x : x = Copy(b, i)
        OBVIOUS
      <3>4. Good(b, -1, kl, H, L) /\ Fill(b) <= max_fill
        BY <2>5, <2>15
      <3>5. /\ Good(x, 0, kl, H, L) /\ SameQueue(b, x) /\ x.slow = b.slow
            /\ Fill(b) <= Fill(x) /\ Fill(x) <= max_fill
        BY <3>2, <3>3, <3>4, GoodCopy
      <3>6. Good(x, 0, kl, (H \cup {}) \cup {}, L)
        <4>1. (H \cup {}) \cup {} = H
          OBVIOUS
        <4> QED  BY <3>5, <4>1
      <3>7. H \cap {} = {} /\ (H \cup {}) \cap {} = {}
        OBVIOUS
      <3> QED  BY <2>12, <3>1, <3>3, <3>5, <3>6, <3>7
    <2>16. CASE Switchdev /\ o = Outcome(FreeBuffers(b, {index}), {})
      <3>1. PICK x : x = FreeBuffers(b, {index})
        OBVIOUS
      <3>2. x = FreeBuffers(b, {At(b, -n)})
        BY <2>7, <3>1
      <3>3. /\ \E G : Good(x, 0, kl, H \cup G, L) /\ H \cap G = {}
            /\ SameQueue(b, x) /\ x.slow = b.slow /\ Fill(x) = Fill(b)
        BY <2>3, <2>5, <3>2, FlushFirst
      <3>4. PICK G : Good(x, 0, kl, H \cup G, L) /\ H \cap G = {}
        BY <3>3
      <3>5. Good(x, 0, kl, (H \cup {}) \cup G, L) /\ (H \cup {}) \cap G = {} /\ H \cap {} = {}
        <4>1. H \cup {} = H
          OBVIOUS
        <4> QED  BY <3>4, <4>1
      <3>6. Fill(b) <= Fill(x) /\ Fill(x) <= max_fill
        BY <1>1, <2>5, <3>3
      <3> QED  BY <2>12, <2>16, <3>1, <3>3, <3>5, <3>6
    <2> QED  BY <2>11, <2>13, <2>14, <2>15, <2>16
  <1> QED  BY <1>2, <1>3

---------------------------------------------------------------------------
(* Refilling                                                                *)

(* The buffers the NIC was told of, counted from removed_count.             *)
Announced(m) == Behind(m.noted, m.removed)

(* The rounding of added_count to a WriteUnit does not go behind what was   *)
(* written to the NIC before.                                               *)
LEMMA Rounded ==
    ASSUME NEW x \in Counts, NEW y \in Counts, NEW r \in Counts, Behind(y, r) <= Behind(x, r),
           y % WriteUnit = 0
    PROVE  LET z == x - (x % WriteUnit)
           IN  /\ z \in Counts /\ z % WriteUnit = 0
               /\ Behind(y, r) <= Behind(z, r) /\ Behind(z, r) <= Behind(x, r)
               /\ Behind(z, r) >= Behind(x, r) - (WriteUnit - 1)
  <1> DEFINE d == x % WriteUnit  f == Behind(x, r)  a == Behind(y, r)  e == Behind(x, y)
  <1>1. x \in Int /\ y \in Int /\ r \in Int /\ x >= 0 /\ x < CountSpace
    BY Sizes DEF Counts
  <1>2. WriteUnit \in Nat /\ WriteUnit # 0 /\ CountSpace \in Nat /\ CountSpace # 0
    BY Sizes
  <1>3. d \in 0 .. WriteUnit - 1
    BY <1>1, <1>2, ModDef
  <1>4. PICK k \in Int : x = k * WriteUnit + d
    BY <1>1, <1>2, ModDef
  <1>5. f \in Int /\ a \in Int /\ e \in Int /\ f >= 0 /\ a >= 0 /\ e >= 0 /\ e < CountSpace /\ f < CountSpace
    BY BehindRange
  <1>6. e = f - a
    BY BehindBetween
  <1>7. e % WriteUnit = d
    <2>1. ((x - y) % CountSpace) % WriteUnit = (x - y) % WriteUnit
      <3> DEFINE s == x - y
      <3>1. s \in Int
        BY <1>1
      <3>2. CountSpace % WriteUnit = 0
        BY Sizes
      <3> HIDE DEF s
      <3>3. (s % CountSpace) % WriteUnit = s % WriteUnit
        BY <1>2, <3>1, <3>2, ModMod
      <3> QED  BY <3>3 DEF s
    <2>2. y % WriteUnit = 0 /\ x % WriteUnit >= 0
      BY <1>3
    <2>3. (x - y) % WriteUnit = (x % WriteUnit) - (y % WriteUnit)
      BY <1>1, <1>2, <2>2, ModSub
    <2>4. (x - y) % WriteUnit = d
      <3>1. PICK u : u = (x - y) % WriteUnit
        OBVIOUS
      <3>2. PICK w : w = y % WriteUnit
        OBVIOUS
      <3> HIDE DEF d
      <3>3. u = d - w
        BY <2>3, <3>1, <3>2 DEF d
      <3>4. w = 0
        BY <3>2
      <3>5. u = d
        BY <1>3, <3>3, <3>4
      <3> QED  BY <3>1, <3>5
    <2> QED  BY <2>1, <2>4 DEF Behind
  <1>8. PICK j \in Int : e = j * WriteUnit + d
    BY <1>2, <1>5, <1>7, ModDef
  <1> HIDE DEF d, f, a, e
  <1>9. j >= 0 /\ k >= 0
    <2>1. ASSUME NEW i \in Int, i < 0, i * WriteUnit + d >= 0  PROVE FALSE
      <3>1. (i + 1) * WriteUnit <= 0 /\ i * WriteUnit = (i + 1) * WriteUnit - WriteUnit
        BY <1>2, <2>1
      <3> QED  BY <1>2, <1>3, <2>1, <3>1
    <2>2. k >= 0
      BY <1>1, <1>4, <2>1
    <2>3. j >= 0
      BY <1>5, <1>8, <2>1
    <2> QED  BY <2>2, <2>3
  <1>10. j * WriteUnit >= 0 /\ k * WriteUnit >= 0 /\ j * WriteUnit \in Int /\ k * WriteUnit \in Int
    BY <1>2, <1>9
  <1>11. d <= e /\ d <= x
    BY <1>3, <1>4, <1>8, <1>10
  <1> DEFINE z == x - d
  <1>12. z \in Counts
    BY <1>1, <1>2, <1>3, <1>11 DEF Counts
  <1>13. z % WriteUnit = 0
    <2>1. z = k * WriteUnit + 0 /\ 0 \in 0 .. WriteUnit - 1
      BY <1>2, <1>3, <1>4, <1>10
    <2> HIDE DEF z
    <2> QED  BY <1>2, <2>1, ModIs
  <1>14. (z - r) % CountSpace = f - d
    <2> DEFINE b == x - r  c == 0 - d
    <2>1. b \in Int /\ c \in Int /\ z - r = b + c
      BY <1>1, <1>3
    <2>2. b % CountSpace = f
      BY DEF f, Behind
    <2> HIDE DEF b, z
    <2>3. ((b % CountSpace) + c) % CountSpace = (b + c) % CountSpace
      BY <1>2, <2>1, ModAdd
    <2>4. f + c = f - d /\ f - d \in 0 .. CountSpace - 1
      BY <1>2, <1>3, <1>5, <1>6, <1>11
    <2>5. (f - d) % CountSpace = f - d
      BY <1>2, <2>4, ModSmall
    <2> QED  BY <2>1, <2>2, <2>3, <2>4, <2>5
  <1>15. Behind(z, r) = f - d
    BY <1>14 DEF Behind
  <1> HIDE DEF z
  <1>16. a <= Behind(z, r) /\ Behind(z, r) <= f /\ Behind(z, r) >= f - (WriteUnit - 1)
    BY <1>2, <1>3, <1>5, <1>6, <1>11, <1>15
  <1> QED  BY <1>12, <1>13, <1>16 DEF z, d, a, f

WithNoted(m, c) == [m EXCEPT !.noted = c]

(* efx_ef10_rx_write                                                        *)
LEMMA GoodNotify ==
    ASSUME NEW m, NEW lo, NEW kl, NEW H, NEW L, Good(m, lo, kl, H, L),
           Announced(m) <= Fill(m), m.noted % WriteUnit = 0,
           NEW x, x = Notify(m)
    PROVE  /\ Good(x, lo, kl, H, L) /\ Fill(x) = Fill(m) /\ x.removed = m.removed
           /\ x.pkt = m.pkt /\ x.refill_enabled = m.refill_enabled /\ x.spent = m.spent /\ x.slow = m.slow
           /\ x.noted % WriteUnit = 0
           /\ Announced(m) <= Announced(x) /\ Announced(x) <= Fill(x)
           /\ Announced(x) >= Fill(x) - (WriteUnit - 1)
  <1>1. m \in Rx /\ m.added \in Counts /\ m.noted \in Counts /\ m.removed \in Counts
    BY DEF Good, Rx
  <1>2. PICK c : c = m.added - (m.added % WriteUnit)
    OBVIOUS
  <1>3. /\ c \in Counts /\ c % WriteUnit = 0
        /\ Behind(m.noted, m.removed) <= Behind(c, m.removed)
        /\ Behind(c, m.removed) <= Behind(m.added, m.removed)
        /\ Behind(c, m.removed) >= Behind(m.added, m.removed) - (WriteUnit - 1)
    BY <1>1, <1>2, Rounded DEF Announced, Fill
  <1>4. x = WithNoted(m, c)
    BY <1>2 DEF Notify, WithNoted
  <1>5. x \in Rx
    BY <1>1, <1>3, <1>4 DEF WithNoted, Rx
  <1>6. /\ x.buffer = m.buffer /\ x.added = m.added /\ x.removed = m.removed
        /\ x.page_ring = m.page_ring /\ x.mapped = m.mapped /\ x.ref = m.ref
    BY <1>1, <1>4 DEF WithNoted, Rx
  <1>7. /\ x.pkt = m.pkt /\ x.refill_enabled = m.refill_enabled /\ x.spent = m.spent /\ x.slow = m.slow
        /\ x.noted = c
    BY <1>1, <1>4 DEF WithNoted, Rx
  <1>8. Good(x, lo, kl, H, L) /\ Fill(x) = Fill(m)
    BY <1>5, <1>6, GoodSame
  <1>9. /\ Announced(m) <= Announced(x) /\ Announced(x) <= Fill(x)
        /\ Announced(x) >= Fill(x) - (WriteUnit - 1)
    BY <1>3, <1>6, <1>7 DEF Announced, Fill
  <1> QED  BY <1>3, <1>6, <1>7, <1>8, <1>9

LEMMA WindowJoin ==
    ASSUME NEW m, NEW lo \in Int, NEW mid \in Int, NEW hi \in Int, lo <= mid, mid <= hi
    PROVE  Window(m, lo, hi) = Window(m, lo, mid) \cup Window(m, mid, hi)
  <1>1. lo .. hi - 1 = (lo .. mid - 1) \cup (mid .. hi - 1)
    OBVIOUS
  <1> QED  BY <1>1 DEF Window

LEMMA WindowCard ==
    ASSUME NEW m \in Rx, NEW lo \in Int, NEW n \in Nat, n <= RingSize
    PROVE  Cardinality(Window(m, lo, lo + n)) = n
  <1> DEFINE S == {k \in Nat : Cardinality(Window(m, lo, lo + k)) = k}
  <1>1. 0 \in S
    <2>1. lo + 0 = lo
      OBVIOUS
    <2> QED  BY <2>1, WindowEmpty, FS_EmptySet
  <1>2. \A k \in 0 .. n - 1 : k \in S => k + 1 \in S
    <2> SUFFICES ASSUME NEW k \in 0 .. n - 1, Cardinality(Window(m, lo, lo + k)) = k
                 PROVE  Cardinality(Window(m, lo, lo + (k + 1))) = k + 1
      OBVIOUS
    <2> DEFINE hi == lo + k
    <2>1. hi \in Int /\ lo <= hi /\ hi - lo < RingSize /\ lo + (k + 1) = hi + 1
      BY Sizes
    <2> HIDE DEF hi
    <2>2. Window(m, lo, hi + 1) = Window(m, lo, hi) \cup {At(m, hi)} /\ At(m, hi) \notin Window(m, lo, hi)
      BY <2>1, WindowNext
    <2>3. IsFiniteSet(Window(m, lo, hi))
      BY <2>1, WindowSlots
    <2>4. Cardinality(Window(m, lo, hi + 1)) = Cardinality(Window(m, lo, hi)) + 1
      BY <2>2, <2>3, FS_AddElement
    <2> QED  BY <2>1, <2>4 DEF hi
  <1> HIDE DEF S
  <1>3. n \in S
    BY <1>1, <1>2, UpTo
  <1> QED  BY <1>3 DEF S

WithRef(m, q) == [m EXCEPT !.ref[q] = @ + PerPage]

(* The page q is cut into buffers, and they are posted.                     *)
LEMMA CutPosts ==
    ASSUME NEW m \in Rx, NEW q \in Pages, NEW ring \in BOOLEAN, Fill(m) + PerPage < RingSize,
           NEW x, x = Cut(q, ring, m)
    PROVE  /\ x \in Rx /\ SameQueue(m, x) /\ Fill(x) = Fill(m) + PerPage /\ x.slow = m.slow
           /\ \A k \in 0 .. PerPage - 1 : x.buffer[At(m, Fill(m) + k)] = BufOf(q, k, ring)
           /\ \A j \in Slots \ Window(m, Fill(m), Fill(m) + PerPage) : x.buffer[j] = m.buffer[j]
           /\ x.page_ring = m.page_ring /\ x.mapped = m.mapped
           /\ x.ref = [m.ref EXCEPT ![q] = @ + PerPage]
  <1> DEFINE f == Fill(m)
  <1>1. f \in Nat /\ f + PerPage < CountSpace /\ PerPage \in Nat /\ RingSize \in Nat /\ CountSpace \in Nat
        /\ RingSize <= CountSpace /\ m.removed \in Int /\ f + PerPage < RingSize /\ PerPage >= 1
    BY FillRange, Sizes
  <1>2. PICK g : /\ g[0] = m
                 /\ \A k \in 0 .. PerPage - 1 : g[k + 1] = Post(g[k], BufOf(q, k, ring))
                 /\ x = WithRef(g[PerPage], q)
    BY CutIs DEF WithRef
  <1> DEFINE P(k) == /\ g[k] \in Rx /\ SameQueue(m, g[k]) /\ Fill(g[k]) = f + k /\ g[k].slow = m.slow
                     /\ \A l \in 0 .. k - 1 : g[k].buffer[At(m, f + l)] = BufOf(q, l, ring)
                     /\ \A j \in Slots \ Window(m, f, f + k) : g[k].buffer[j] = m.buffer[j]
                     /\ g[k].page_ring = m.page_ring /\ g[k].mapped = m.mapped /\ g[k].ref = m.ref
             S == {k \in Nat : P(k)}
  <1>3. 0 \in S
    BY <1>1, <1>2 DEF SameQueue
  <1> HIDE DEF f
  <1>4. \A k \in 0 .. PerPage - 1 : k \in S => k + 1 \in S
    <2> SUFFICES ASSUME NEW k \in 0 .. PerPage - 1, P(k)  PROVE P(k + 1)
      OBVIOUS
    <2>1. PICK a : a = g[k]
      OBVIOUS
    <2>2. PICK b : b = BufOf(q, k, ring)
      OBVIOUS
    <2>3. PICK c : c = g[k + 1]
      OBVIOUS
    <2>4. c = Post(a, b)
      BY <1>2, <2>1, <2>2, <2>3
    <2>5. b \in Buffers
      <3>1. k \in Parts
        BY DEF Parts
      <3> QED  BY <2>2, <3>1, BufferMade
    <2>6. /\ a \in Rx /\ SameQueue(m, a) /\ Fill(a) = f + k /\ a.slow = m.slow
          /\ \A l \in 0 .. k - 1 : a.buffer[At(m, f + l)] = BufOf(q, l, ring)
          /\ \A j \in Slots \ Window(m, f, f + k) : a.buffer[j] = m.buffer[j]
          /\ a.page_ring = m.page_ring /\ a.mapped = m.mapped /\ a.ref = m.ref
      BY <2>1
    <2>7. Fill(a) + 1 < CountSpace /\ k < RingSize /\ f + k \in Int /\ f + (k + 1) = (f + k) + 1
      BY <1>1, <2>6
    <2>8. /\ c \in Rx /\ Fill(c) = Fill(a) + 1 /\ SameQueue(a, c)
          /\ c.buffer = [a.buffer EXCEPT ![At(a, Fill(a))] = b]
          /\ c.page_ring = a.page_ring /\ c.mapped = a.mapped /\ c.ref = a.ref
          /\ c.slow = a.slow
      BY <2>4, <2>5, <2>6, <2>7, PostIs
    <2>9. PICK e : e = f + k
      OBVIOUS
    <2>10. PICK i : i = At(m, e)
      OBVIOUS
    <2>11. /\ e \in Int /\ f <= e /\ e - f < RingSize /\ i \in Slots
           /\ Window(m, f, e + 1) = Window(m, f, e) \cup {i}
           /\ i \notin Window(m, f, e)
      <3>1. e \in Int /\ f <= e /\ e - f < RingSize
        BY <1>1, <2>7, <2>9
      <3>2. i \in Slots
        BY <2>10, <3>1, AtSlot
      <3>3. Window(m, f, e + 1) = Window(m, f, e) \cup {At(m, e)} /\ At(m, e) \notin Window(m, f, e)
        BY <1>1, <3>1, WindowNext
      <3> QED  BY <2>10, <3>1, <3>2, <3>3
    <2>12. c.buffer[i] = b /\ \A j \in Slots : j # i => c.buffer[j] = a.buffer[j]
      <3>1. At(a, Fill(a)) = i
        BY <2>6, <2>9, <2>10, SameAt DEF SameQueue
      <3>2. a.buffer \in [Slots -> Buffers]
        BY <2>6 DEF Rx
      <3> QED  BY <2>8, <2>11, <3>1, <3>2
    <2>13. \A l \in 0 .. k - 1 : At(m, f + l) \in Slots /\ At(m, f + l) # i
      <3> TAKE l \in 0 .. k - 1
      <3>1. f + l \in f .. e - 1 /\ f + l \in Int
        BY <1>1, <2>9
      <3>2. At(m, f + l) \in Slots
        BY <3>1, AtSlot
      <3>3. At(m, f + l) \in Window(m, f, e)
        BY <3>1 DEF Window
      <3> QED  BY <2>11, <3>2, <3>3
    <2>14. \A l \in 0 .. (k + 1) - 1 : c.buffer[At(m, f + l)] = BufOf(q, l, ring)
      <3> TAKE l \in 0 .. (k + 1) - 1
      <3>1. l \in 0 .. k - 1 \/ l = k
        OBVIOUS
      <3>2. CASE l \in 0 .. k - 1
        <4>1. c.buffer[At(m, f + l)] = a.buffer[At(m, f + l)]
          BY <3>2, <2>12, <2>13
        <4>2. a.buffer[At(m, f + l)] = BufOf(q, l, ring)
          BY <3>2, <2>6
        <4> QED  BY <4>1, <4>2
      <3>3. CASE l = k
        <4>1. At(m, f + l) = i
          BY <3>3, <2>9, <2>10
        <4>2. b = BufOf(q, l, ring)
          BY <3>3, <2>2
        <4> QED  BY <4>1, <4>2, <2>12
      <3> QED  BY <3>1, <3>2, <3>3
    <2>15. \A j \in Slots \ Window(m, f, f + (k + 1)) : c.buffer[j] = m.buffer[j]
      <3>1. Window(m, f, f + (k + 1)) = Window(m, f, f + k) \cup {i}
        BY <2>7, <2>9, <2>11
      <3>2. \A j \in Slots \ Window(m, f, f + k) : a.buffer[j] = m.buffer[j]
        BY <2>6
      <3> QED  BY <2>12, <3>1, <3>2
    <2>16. SameQueue(m, c) /\ Fill(c) = f + (k + 1)
      BY <2>6, <2>7, <2>8, SameQueueTrans
    <2>17. c.slow = m.slow /\ c.page_ring = m.page_ring /\ c.mapped = m.mapped /\ c.ref = m.ref /\ c \in Rx
      BY <2>6, <2>8
    <2> QED  BY <2>3, <2>14, <2>15, <2>16, <2>17
  <1> HIDE DEF S
  <1>5. PerPage \in S
    BY <1>1, <1>3, <1>4, UpTo
  <1>6. PICK a : a = g[PerPage]
    OBVIOUS
  <1>7. /\ a \in Rx /\ SameQueue(m, a) /\ Fill(a) = f + PerPage /\ a.slow = m.slow
        /\ \A l \in 0 .. PerPage - 1 : a.buffer[At(m, f + l)] = BufOf(q, l, ring)
        /\ \A j \in Slots \ Window(m, f, f + PerPage) : a.buffer[j] = m.buffer[j]
        /\ a.page_ring = m.page_ring /\ a.mapped = m.mapped /\ a.ref = m.ref
    BY <1>5, <1>6 DEF S
  <1>8. PICK more : more = [m.ref EXCEPT ![q] = @ + PerPage]
    OBVIOUS
  <1>9. m.ref \in [Pages -> Int] /\ more \in [Pages -> Int] /\ m.mapped \in SUBSET Pages
    <2>1. m.ref \in [Pages -> Int] /\ m.mapped \in SUBSET Pages
      BY DEF Rx
    <2> QED  BY <1>1, <1>8, <2>1
  <1>10. x = WithPages(a, more, m.mapped)
    <2>1. x = [a EXCEPT !.ref = [a.ref EXCEPT ![q] = @ + PerPage]]
      BY <1>2, <1>6, <1>7 DEF WithRef, Rx
    <2>2. x = [a EXCEPT !.ref = more]
      BY <1>7, <1>8, <2>1
    <2> QED  BY <1>7, <2>2 DEF WithPages, Rx
  <1>11. /\ x \in Rx /\ SameQueue(a, x) /\ x.added = a.added /\ x.buffer = a.buffer
         /\ x.page_ring = a.page_ring /\ x.mapped = m.mapped /\ x.ref = more /\ x.slow = a.slow
    BY <1>7, <1>9, <1>10, RxPages
  <1>12. SameQueue(m, x)
    BY <1>7, <1>11, SameQueueTrans
  <1>13. Fill(x) = f + PerPage
    BY <1>7, <1>11 DEF Fill, SameQueue
  <1> QED  BY <1>7, <1>8, <1>11, <1>12, <1>13 DEF f

(* The page q is nobody's, or only the recycle ring's.                      *)
LEMMA PageIdle ==
    ASSUME NEW m, NEW lo, NEW kl, NEW H, NEW L, Good(m, lo, kl, H, L), NEW q \in Pages,
           m.ref[q] = (IF q \in m.mapped THEN 1 ELSE 0)
    PROVE  UsesOf(m, Window(m, lo, Fill(m)), q) = {} /\ HeldOf(H, q) = {}
  <1> DEFINE U == Window(m, lo, Fill(m))  c == IF q \in m.mapped THEN 1 ELSE 0
  <1>1. m \in Rx /\ lo \in Int /\ Fill(m) \in Nat /\ Owns(m, U, Window(m, kl, Fill(m)), H, L)
    BY FillRange DEF Good
  <1>2. IsFiniteSet(U)
    BY <1>1, WindowSlots
  <1> HIDE DEF U
  <1>3. H \subseteq Pages \X Parts /\ m.ref[q] = RefOf(m, U, H, q)
    BY <1>1 DEF Owns, Apart
  <1>4. IsFiniteSet(UsesOf(m, U, q)) /\ Cardinality(UsesOf(m, U, q)) \in Nat
    BY <1>2, UsesFinite
  <1>5. IsFiniteSet(HeldOf(H, q)) /\ Cardinality(HeldOf(H, q)) \in Nat
    BY <1>3, HeldFinite
  <1>6. c \in Nat
    OBVIOUS
  <1>7. Cardinality(UsesOf(m, U, q)) + Cardinality(HeldOf(H, q)) + c = c
    BY <1>3 DEF RefOf
  <1> HIDE DEF c
  <1>8. Cardinality(UsesOf(m, U, q)) = 0 /\ Cardinality(HeldOf(H, q)) = 0
    BY <1>4, <1>5, <1>6, <1>7
  <1> QED  BY <1>4, <1>5, <1>8, FS_EmptySet DEF U

CutIn(x, A, q, ring) ==
    /\ \A a \in A : x.buffer[a].page = q /\ x.buffer[a].ring = ring
    /\ \A a, b \in A : x.buffer[a].part = x.buffer[b].part => a = b
    /\ Owned(x, A) = IF ring THEN {} ELSE {q}

LEMMA CutOwned ==
    ASSUME NEW x, NEW m, NEW f \in Int, NEW q \in Pages, NEW ring \in BOOLEAN,
           \A k \in 0 .. PerPage - 1 : x.buffer[At(m, f + k)] = BufOf(q, k, ring),
           NEW h, h = f + PerPage
    PROVE  CutIn(x, Window(m, f, h), q, ring)
  <1>1. PerPage \in Nat /\ PerPage >= 1
    BY Sizes
  <1> DEFINE A == Window(m, f, h)
  <1>7. \A k \in Parts : /\ BufOf(q, k, ring).page = q /\ BufOf(q, k, ring).part = k
                         /\ BufOf(q, k, ring).ring = ring
    BY BufferMade
  <1>2. \A a \in A : \E k \in Parts : a = At(m, f + k) /\ x.buffer[a] = BufOf(q, k, ring)
    <2> TAKE a \in A
    <2>1. PICK l \in f .. h - 1 : a = At(m, l)
      BY DEF Window
    <2>2. l - f \in Parts /\ f + (l - f) = l
      BY <1>1 DEF Parts
    <2>3. x.buffer[At(m, f + (l - f))] = BufOf(q, l - f, ring)
      BY <2>2 DEF Parts
    <2> QED  BY <2>1, <2>2, <2>3
  <1> HIDE DEF A
  <1>3. \A a \in A : x.buffer[a].page = q /\ x.buffer[a].ring = ring
    BY <1>2, <1>7
  <1>4. \A a, b \in A : x.buffer[a].part = x.buffer[b].part => a = b
    <2> SUFFICES ASSUME NEW a \in A, NEW b \in A, x.buffer[a].part = x.buffer[b].part  PROVE a = b
      OBVIOUS
    <2>1. PICK k \in Parts : a = At(m, f + k) /\ x.buffer[a] = BufOf(q, k, ring)
      BY <1>2
    <2>2. PICK l \in Parts : b = At(m, f + l) /\ x.buffer[b] = BufOf(q, l, ring)
      BY <1>2
    <2>3. x.buffer[a].part = k /\ x.buffer[b].part = l
      BY <2>1, <2>2, <1>7
    <2> QED  BY <2>1, <2>2, <2>3
  <1>5. \E a \in A : x.buffer[a].last
    <2>1. f + (PerPage - 1) \in f .. h - 1 /\ PerPage - 1 \in 0 .. PerPage - 1
      BY <1>1
    <2>2. At(m, f + (PerPage - 1)) \in A
      BY <2>1 DEF Window, A
    <2>3. x.buffer[At(m, f + (PerPage - 1))] = BufOf(q, PerPage - 1, ring) /\ PerPage - 1 \in Parts
      BY <2>1 DEF Parts
    <2>4. BufOf(q, PerPage - 1, ring).last
      BY <2>3, BufferMade
    <2> QED  BY <2>2, <2>3, <2>4
  <1>6. Owned(x, A) = IF ring THEN {} ELSE {q}
    BY <1>3, <1>5 DEF Owned, Recyclable
  <1> QED  BY <1>3, <1>4, <1>6 DEF CutIn, A

(* Changes of the pages' references and mappings before they are cut.       *)
Prepared(m, y, q, new) ==
    /\ y \in Rx /\ SameQueue(m, y) /\ y.added = m.added /\ y.buffer = m.buffer /\ y.slow = m.slow
    /\ y.page_ring = m.page_ring /\ y.ref = [m.ref EXCEPT ![q] = 1] /\ y.mapped = m.mapped \cup new

(* A page of the recycle ring, or a new one, that nobody uses.              *)
Source(m, q, ring, new) ==
    /\ q \in Pages /\ ring \in BOOLEAN /\ m.ref[q] = (IF q \in m.mapped THEN 1 ELSE 0)
    /\ \/ ring = TRUE /\ q \in Ringed(m) /\ new = {}
       \/ ring = FALSE /\ q \notin m.mapped /\ new = {q}

(* One more page was pushed.                                                *)
OneMore(m, x, lo, kl, H, L) ==
    /\ Good(x, lo, kl, H, L) /\ SameQueue(m, x) /\ x.slow = m.slow
    /\ Fill(x) = Fill(m) + PerPage

LEMMA GoodCut ==
    ASSUME NEW m, NEW lo, NEW kl, NEW H, NEW L, Good(m, lo, kl, H, L), lo <= 0,
           Fill(m) + PerPage - lo < RingSize,
           NEW q, NEW ring, NEW new, Source(m, q, ring, new),
           NEW y, Prepared(m, y, q, new), NEW x, x = Cut(q, ring, y)
    PROVE  OneMore(m, x, lo, kl, H, L)
  <1>0. q \in Pages /\ ring \in BOOLEAN
    BY DEF Source
  <1> DEFINE f == Fill(m)  h == f + PerPage
             U == Window(m, lo, f)  K == Window(m, kl, f)  A == Window(m, f, h)
  <1>1. /\ m \in Rx /\ f \in Nat /\ lo \in Int /\ kl \in Int /\ lo <= kl /\ kl <= f
        /\ Owns(m, U, K, H, L) /\ Chain(m, kl)
    BY FillRange DEF Good
  <1>2. PerPage \in Nat /\ PerPage >= 1 /\ h \in Nat /\ h - lo < RingSize /\ f <= h /\ lo <= f /\ RingSize \in Nat
        /\ PerPage <= RingSize /\ h < RingSize
    BY <1>1, Sizes
  <1>3. Fill(y) = f /\ y.removed = m.removed /\ y \in Rx /\ y.buffer = m.buffer
    BY DEF Prepared, Fill, SameQueue
  <1>4. /\ \A k : At(y, k) = At(m, k)
        /\ \A a, b : Window(y, a, b) = Window(m, a, b)
    BY <1>3, SameAt
  <1>5. /\ x \in Rx /\ SameQueue(y, x) /\ Fill(x) = Fill(y) + PerPage /\ x.slow = y.slow
        /\ \A k \in 0 .. PerPage - 1 : x.buffer[At(y, Fill(y) + k)] = BufOf(q, k, ring)
        /\ \A j \in Slots \ Window(y, Fill(y), Fill(y) + PerPage) : x.buffer[j] = y.buffer[j]
        /\ x.page_ring = y.page_ring /\ x.mapped = y.mapped
        /\ x.ref = [y.ref EXCEPT ![q] = @ + PerPage]
    <2>1. Fill(y) + PerPage < RingSize
      BY <1>2, <1>3
    <2> QED  BY <1>0, <1>3, <2>1, CutPosts
  <1>6. /\ \A k \in 0 .. PerPage - 1 : x.buffer[At(m, f + k)] = BufOf(q, k, ring)
        /\ \A j \in Slots \ A : x.buffer[j] = m.buffer[j]
    BY <1>3, <1>4, <1>5
  <1>7. x.page_ring = m.page_ring /\ x.mapped = m.mapped \cup new /\ x.ref = [m.ref EXCEPT ![q] = PerPage + 1]
    <2>1. m.ref \in [Pages -> Int] /\ y.ref = [m.ref EXCEPT ![q] = 1] /\ 1 + PerPage = PerPage + 1
      BY <1>1, <1>2 DEF Rx, Prepared
    <2>2. y.ref[q] = 1
      BY <1>0, <2>1
    <2>3. x.ref = [m.ref EXCEPT ![q] = PerPage + 1]
      BY <1>5, <2>1, <2>2
    <2> QED  BY <1>5, <2>3 DEF Prepared
  <1>8. SameQueue(m, x) /\ Fill(x) = h /\ x.removed = m.removed /\ x.slow = m.slow
    <2>1. SameQueue(m, y) /\ y.slow = m.slow
      BY DEF Prepared
    <2>2. SameQueue(m, x)
      BY <2>1, <1>5, SameQueueTrans
    <2> QED  BY <2>1, <2>2, <1>3, <1>5 DEF SameQueue
  <1> HIDE DEF f, h, U, K, A
  <1>20. h = f + PerPage /\ f = Fill(m) /\ A = Window(m, f, h) /\ U = Window(m, lo, f) /\ K = Window(m, kl, f)
    BY DEF f, h, U, K, A
  <1>9. /\ Window(m, lo, h) = U \cup A /\ Window(m, kl, h) = K \cup A /\ A \cap U = {}
        /\ IsFiniteSet(U) /\ IsFiniteSet(A) /\ U \subseteq Slots /\ A \subseteq Slots
    <2>1. f \in Int /\ h \in Int
      BY <1>1, <1>2, <1>20
    <2>2. Window(m, lo, h) = U \cup A
      BY <1>1, <1>2, <1>20, <2>1, WindowJoin
    <2>3. Window(m, kl, h) = K \cup A
      BY <1>1, <1>2, <1>20, <2>1, WindowJoin
    <2>4. f \in lo .. h /\ h - lo <= RingSize
      BY <1>1, <1>2, <1>20
    <2>5. Window(m, lo, h) \ U = A
      BY <1>1, <1>20, <2>1, <2>4, WindowMinus
    <2>6. IsFiniteSet(U) /\ U \subseteq Slots
      BY <1>1, <1>20, <2>1, WindowSlots
    <2>7. IsFiniteSet(A) /\ A \subseteq Slots
      BY <1>1, <1>20, <2>1, WindowSlots
    <2> QED  BY <2>2, <2>3, <2>5, <2>6, <2>7
  <1>10. Cardinality(A) = PerPage
    <2>1. f \in Int
      BY <1>1
    <2>2. Cardinality(Window(m, f, f + PerPage)) = PerPage
      BY <1>1, <1>2, <2>1, WindowCard
    <2> QED  BY <1>20, <2>2
  <1>11. UsesOf(m, U, q) = {} /\ HeldOf(H, q) = {}
    BY <1>0, <1>20, PageIdle DEF Source
  <1>12. /\ \A a \in A : x.buffer[a].page = q /\ x.buffer[a].ring = ring
         /\ \A a, b \in A : x.buffer[a].part = x.buffer[b].part => a = b
         /\ Owned(x, A) = IF ring THEN {} ELSE {q}
    <2>1. f \in Int /\ h = f + PerPage
      BY <1>1, <1>20
    <2>2. CutIn(x, Window(m, f, h), q, ring)
      BY <1>0, <1>6, <2>1, CutOwned
    <2>4. A = Window(m, f, h)
      BY <1>20
    <2>3. CutIn(x, A, q, ring)
      BY <2>2, <2>4
    <2> QED  BY <2>3 DEF CutIn
  <1>13. Owns(x, U \cup A, K \cup A, H, L)
    <2>1. \A j \in U : x.buffer[j] = m.buffer[j]
      BY <1>6, <1>9
    <2>2. new \subseteq {q} /\ Owned(x, A) = new
          /\ ((q \in Ringed(m) /\ new = {}) \/ (q \notin m.mapped /\ new = {q} /\ (\A a \in A : ~x.buffer[a].ring)))
      <3>1. CASE ring = TRUE /\ q \in Ringed(m) /\ new = {}
        BY <3>1, <1>12
      <3>2. CASE ring = FALSE /\ q \notin m.mapped /\ new = {q}
        BY <3>2, <1>12
      <3> QED  BY <3>1, <3>2 DEF Source
    <2>3. m.ref \in [Pages -> Int]
      BY <1>1 DEF Rx
    <2> QED  BY <1>0, <1>1, <1>7, <1>9, <1>10, <1>11, <1>12, <2>1, <2>2, <2>3, OwnsCut
  <1>14. Owns(x, Window(x, lo, Fill(x)), Window(x, kl, Fill(x)), H, L)
    <2>1. Window(x, lo, h) = Window(m, lo, h) /\ Window(x, kl, h) = Window(m, kl, h)
      BY <1>8, SameAt
    <2> QED  BY <1>8, <1>9, <1>13, <2>1
  <1>15. Chain(x, kl)
    <2> SUFFICES ASSUME NEW k \in kl .. h - 1, ~x.buffer[At(m, k)].ring, ~x.buffer[At(m, k)].again
                 PROVE  \E t : /\ t = PerPage - 1 - x.buffer[At(m, k)].part
                               /\ k + t < h
                               /\ x.buffer[At(m, k + t)].page = x.buffer[At(m, k)].page
                               /\ Recyclable(x.buffer[At(m, k + t)])
      <3>1. \A k : At(x, k) = At(m, k)
        BY <1>8, SameAt
      <3> QED  BY <1>8, <3>1 DEF Chain
    <2>1. \A l \in kl .. f - 1 : x.buffer[At(m, l)] = m.buffer[At(m, l)]
      <3> TAKE l \in kl .. f - 1
      <3>1. l \in lo .. f - 1
        BY <1>1
      <3>2. At(m, l) \in U
        BY <1>20, <3>1 DEF Window
      <3> QED  BY <1>6, <1>9, <3>2
    <2>2. CASE k < f
      <3>1. k \in kl .. f - 1
        BY <1>1, <2>2
      <3>2. PICK buf : buf = m.buffer[At(m, k)]
        OBVIOUS
      <3>3. PICK t : t = PerPage - 1 - buf.part
        OBVIOUS
      <3>4. x.buffer[At(m, k)] = buf
        BY <2>1, <3>1, <3>2
      <3>5. ~buf.ring /\ ~buf.again
        BY <3>4
      <3>6. k + t < f /\ m.buffer[At(m, k + t)].page = buf.page /\ Recyclable(m.buffer[At(m, k + t)])
        BY <1>1, <1>20, <3>1, <3>2, <3>3, <3>5 DEF Chain
      <3>7. t \in Nat
        <4>1. At(m, k) \in Slots
          BY <1>1, <3>1, AtSlot
        <4>2. buf \in Buffers
          BY <1>1, <3>2, <4>1 DEF Rx
        <4>3. buf.part \in Parts
          <5>1. NoBuf.part \in Parts
            BY Sizes DEF NoBuf, Parts
          <5> QED  BY <4>2, <5>1, BuffersAre
        <4> QED  BY <1>2, <3>3, <4>3 DEF Parts
      <3>8. k + t \in kl .. f - 1 /\ k + t < h
        BY <1>1, <1>2, <1>20, <3>1, <3>6, <3>7
      <3>9. x.buffer[At(m, k + t)] = m.buffer[At(m, k + t)]
        BY <2>1, <3>8
      <3>10. t = PerPage - 1 - x.buffer[At(m, k)].part
        BY <3>3, <3>4
      <3> QED  BY <3>4, <3>6, <3>8, <3>9, <3>10
    <2>3. CASE ~(k < f)
      <3>1. PICK l : l = k - f
        OBVIOUS
      <3>2. l \in 0 .. PerPage - 1 /\ f + l = k
        BY <1>1, <1>2, <1>20, <2>3, <3>1
      <3>3. x.buffer[At(m, k)] = BufOf(q, l, ring)
        BY <1>6, <3>2
      <3>4. PICK t : t = PerPage - 1 - l
        OBVIOUS
      <3>5. PerPage - 1 \in 0 .. PerPage - 1 /\ PerPage - 1 \in Parts /\ l \in Parts
            /\ k + t = f + (PerPage - 1) /\ k + t < h
        BY <1>1, <1>2, <1>20, <3>2, <3>4 DEF Parts
      <3>6. x.buffer[At(m, k + t)] = BufOf(q, PerPage - 1, ring)
        BY <1>6, <3>5
      <3>7. BufOf(q, l, ring).part = l /\ BufOf(q, l, ring).ring = ring /\ BufOf(q, l, ring).page = q
        BY <1>0, <3>5, BufferMade
      <3>8. ~ring
        BY <3>3, <3>7
      <3>9. BufOf(q, PerPage - 1, ring).page = q /\ BufOf(q, PerPage - 1, ring).last /\ ~BufOf(q, PerPage - 1, ring).ring
        BY <1>0, <3>5, <3>8, BufferMade
      <3>10. t = PerPage - 1 - x.buffer[At(m, k)].part
        BY <3>3, <3>4, <3>7
      <3>11. x.buffer[At(m, k + t)].page = x.buffer[At(m, k)].page /\ Recyclable(x.buffer[At(m, k + t)])
        BY <3>3, <3>6, <3>7, <3>9 DEF Recyclable
      <3> QED  BY <3>5, <3>10, <3>11
    <2> QED  BY <2>2, <2>3
  <1>16. lo <= kl /\ kl <= Fill(x) /\ Fill(x) - lo <= RingSize
    BY <1>1, <1>2, <1>8, <1>20
  <1>17. Good(x, lo, kl, H, L)
    BY <1>1, <1>5, <1>14, <1>15, <1>16 DEF Good
  <1> QED  BY <1>8, <1>17, <1>20 DEF OneMore

NextPlace(m) == [m EXCEPT !.page_remove = (@ + 1) % Cardinality(Places)]
Mapped(m, q) == [m EXCEPT !.ref[q] = 1, !.mapped = @ \cup {q}]
Pushing(m, left, failed) == [rx |-> m, left |-> left, failed |-> failed]
FreePages(m) == {q \in Pages : m.ref[q] = 0}
NewPage(m) == CHOOSE q \in FreePages(m) : \A r \in FreePages(m) : q <= r
RingPage(m) == m.page_ring[m.page_remove]

LEMMA PushingIs ==
    \A m, left, failed : /\ Pushing(m, left, failed).rx = m /\ Pushing(m, left, failed).left = left
                         /\ Pushing(m, left, failed).failed = failed
BY DEF Pushing

LEMMA PushingLike ==
    ASSUME NEW h, h = [i \in {"rx", "left", "failed"} |-> h[i]]
    PROVE  h = Pushing(h.rx, h.left, h.failed)
BY DEF Pushing

RxSet(st, x)        == [st EXCEPT !.rx = x]
RxLeftSet(st, x, l) == [st EXCEPT !.left = l, !.rx = x]
RxFailSet(st, x, f) == [st EXCEPT !.failed = f, !.rx = x]

LEMMA PushingSet ==
    ASSUME NEW m, NEW left, NEW failed, NEW x, NEW l, NEW f
    PROVE  /\ RxSet(Pushing(m, left, failed), x) = Pushing(x, left, failed)
           /\ RxLeftSet(Pushing(m, left, failed), x, l) = Pushing(x, l, failed)
           /\ RxFailSet(Pushing(m, left, failed), x, f) = Pushing(x, left, f)
  <1>1. PICK h : h = RxSet(Pushing(m, left, failed), x)
    OBVIOUS
  <1>2. h = [i \in {"rx", "left", "failed"} |-> h[i]] /\ h.rx = x /\ h.left = left /\ h.failed = failed
    BY <1>1 DEF Pushing, RxSet
  <1>3. PICK g : g = RxLeftSet(Pushing(m, left, failed), x, l)
    OBVIOUS
  <1>4. g = [i \in {"rx", "left", "failed"} |-> g[i]] /\ g.rx = x /\ g.left = l /\ g.failed = failed
    BY <1>3 DEF Pushing, RxLeftSet
  <1>5. PICK k : k = RxFailSet(Pushing(m, left, failed), x, f)
    OBVIOUS
  <1>6. k = [i \in {"rx", "left", "failed"} |-> k[i]] /\ k.rx = x /\ k.left = left /\ k.failed = f
    BY <1>5 DEF Pushing, RxFailSet
  <1>7. h = Pushing(x, left, failed)
    BY <1>2, PushingLike
  <1>8. g = Pushing(x, l, failed)
    BY <1>4, PushingLike
  <1>9. k = Pushing(x, left, f)
    BY <1>6, PushingLike
  <1> QED  BY <1>1, <1>3, <1>5, <1>7, <1>8, <1>9

LEMMA PushPageOf ==
    ASSUME NEW st
    PROVE  PushPage(st) =
               IF Reusable(st.rx, RingPage(st.rx))
               THEN RxSet(st, Cut(RingPage(st.rx), TRUE, NextPlace(st.rx)))
               ELSE IF st.left > 0 /\ FreePages(st.rx) # {}
                    THEN RxLeftSet(st, Cut(NewPage(st.rx), FALSE, Mapped(NextPlace(st.rx), NewPage(st.rx))),
                                   st.left - 1)
                    ELSE RxFailSet(st, ScheduleSlowFill(NextPlace(st.rx)), TRUE)
BY DEF PushPage, FreePages, NewPage, RingPage, NextPlace, Mapped, Cut, RxSet, RxLeftSet, RxFailSet

LEMMA PushPageIs ==
    ASSUME NEW m, NEW left, NEW failed
    PROVE  PushPage(Pushing(m, left, failed)) =
               IF Reusable(m, RingPage(m))
               THEN Pushing(Cut(RingPage(m), TRUE, NextPlace(m)), left, failed)
               ELSE IF left > 0 /\ FreePages(m) # {}
                    THEN Pushing(Cut(NewPage(m), FALSE, Mapped(NextPlace(m), NewPage(m))), left - 1, failed)
                    ELSE Pushing(ScheduleSlowFill(NextPlace(m)), left, TRUE)
  <1>5. PICK s : s = Pushing(m, left, failed)
    OBVIOUS
  <1>1. s.rx = m /\ s.left = left
    BY <1>5, PushingIs
  <1>6. /\ \A x : RxSet(s, x) = Pushing(x, left, failed)
        /\ \A x, l : RxLeftSet(s, x, l) = Pushing(x, l, failed)
        /\ \A f, x : RxFailSet(s, x, f) = Pushing(x, left, f)
    BY <1>5, PushingSet
  <1>7. PushPage(s) =
            IF Reusable(m, RingPage(m))
            THEN Pushing(Cut(RingPage(m), TRUE, NextPlace(m)), left, failed)
            ELSE IF left > 0 /\ FreePages(m) # {}
                 THEN Pushing(Cut(NewPage(m), FALSE, Mapped(NextPlace(m), NewPage(m))), left - 1, failed)
                 ELSE Pushing(ScheduleSlowFill(NextPlace(m)), left, TRUE)
    BY <1>1, <1>6, PushPageOf
  <1> QED  BY <1>5, <1>7

LEMMA NewPageIs ==
    ASSUME NEW m, FreePages(m) # {}
    PROVE  NewPage(m) \in Pages /\ m.ref[NewPage(m)] = 0
  <1>1. FreePages(m) \in SUBSET Nat
    BY PagesPos DEF FreePages, Pages
  <1>2. \E q \in FreePages(m) : \A r \in FreePages(m) : q <= r
    BY <1>1, LeastNat
  <1>3. NewPage(m) \in FreePages(m)
    BY <1>2 DEF NewPage
  <1> QED  BY <1>3 DEF FreePages

LEMMA NextPlaceIs ==
    ASSUME NEW m \in Rx, NEW n, n = NextPlace(m)
    PROVE  /\ n \in Rx /\ SameQueue(m, n) /\ n.added = m.added /\ n.buffer = m.buffer
           /\ n.page_ring = m.page_ring /\ n.mapped = m.mapped /\ n.ref = m.ref /\ n.slow = m.slow
  <1>1. PICK r : r = (m.page_remove + 1) % Cardinality(Places)
    OBVIOUS
  <1>2. r \in Places
    <2>1. m.page_remove \in Places
      BY DEF Rx
    <2>2. PICK c : c = Cardinality(Places)
      OBVIOUS
    <2>3. c \in Nat /\ Places = 0 .. c - 1 /\ \A k \in Int : k % c \in Places
      BY <2>2, PlacesAre
    <2>4. m.page_remove + 1 \in Int
      BY <2>1, <2>3
    <2>5. (m.page_remove + 1) % c \in Places
      BY <2>3, <2>4
    <2> QED  BY <1>1, <2>2, <2>5
  <1>3. n = [m EXCEPT !.page_remove = r]
    BY <1>1 DEF NextPlace, Rx
  <1>4. n \in Rx
    BY <1>2, <1>3 DEF Rx
  <1>5. SameQueue(m, n)
    BY <1>3 DEF Rx, SameQueue
  <1>6. /\ n.added = m.added /\ n.buffer = m.buffer
        /\ n.page_ring = m.page_ring /\ n.mapped = m.mapped /\ n.ref = m.ref /\ n.slow = m.slow
    BY <1>3 DEF Rx
  <1> QED  BY <1>4, <1>5, <1>6

(* A page from the recycle ring, a new one, or none.                        *)
LEMMA GoodReuse ==
    ASSUME NEW m, NEW lo, NEW kl, NEW H, NEW L, Good(m, lo, kl, H, L), lo <= 0,
           Fill(m) + PerPage - lo < RingSize, Reusable(m, RingPage(m)),
           NEW x, x = Cut(RingPage(m), TRUE, NextPlace(m))
    PROVE  OneMore(m, x, lo, kl, H, L)
  <1>1. PICK q : q = RingPage(m)
    OBVIOUS
  <1>2. PICK y : y = NextPlace(m)
    OBVIOUS
  <1>3. m \in Rx /\ m.ref \in [Pages -> Int] /\ m.page_remove \in Places /\ m.page_ring \in [Places -> Pages \cup {NoPage}]
    BY DEF Good, Rx
  <1>4. q # NoPage /\ m.ref[q] = 1
    BY <1>1 DEF Reusable
  <1>5. q \in Pages /\ q \in Ringed(m)
    BY <1>1, <1>3, <1>4 DEF RingPage, Ringed
  <1>6. q \in m.mapped
    <2>1. m.mapped = Ringed(m) \cup Owned(m, Window(m, kl, Fill(m))) \cup L
      BY DEF Good, Owns, OneKeeper
    <2> QED  BY <1>5, <2>1
  <1>7. /\ y \in Rx /\ SameQueue(m, y) /\ y.added = m.added /\ y.buffer = m.buffer
        /\ y.page_ring = m.page_ring /\ y.mapped = m.mapped /\ y.ref = m.ref /\ y.slow = m.slow
    BY <1>2, <1>3, NextPlaceIs
  <1>8. m.ref = [m.ref EXCEPT ![q] = 1]
    BY <1>3, <1>4, <1>5
  <1>9. Prepared(m, y, q, {})
    BY <1>7, <1>8 DEF Prepared
  <1>10. x = Cut(q, TRUE, y)
    BY <1>1, <1>2
  <1>11. m.ref[q] = (IF q \in m.mapped THEN 1 ELSE 0)
    BY <1>4, <1>6
  <1>12. Source(m, q, TRUE, {})
    BY <1>5, <1>11 DEF Source
  <1> QED  BY <1>9, <1>10, <1>12, GoodCut

LEMMA GoodNew ==
    ASSUME NEW m, NEW lo, NEW kl, NEW H, NEW L, Good(m, lo, kl, H, L), lo <= 0,
           Fill(m) + PerPage - lo < RingSize, FreePages(m) # {},
           NEW x, x = Cut(NewPage(m), FALSE, Mapped(NextPlace(m), NewPage(m)))
    PROVE  OneMore(m, x, lo, kl, H, L)
  <1>1. PICK q : q = NewPage(m)
    OBVIOUS
  <1>2. PICK n : n = NextPlace(m)
    OBVIOUS
  <1>3. PICK y : y = Mapped(n, q)
    OBVIOUS
  <1>4. /\ m \in Rx /\ m.ref \in [Pages -> Int] /\ m.mapped \in SUBSET Pages /\ lo \in Int /\ Fill(m) \in Nat
        /\ Owns(m, Window(m, lo, Fill(m)), Window(m, kl, Fill(m)), H, L)
    BY FillRange DEF Good, Rx
  <1>5. q \in Pages /\ m.ref[q] = 0
    BY <1>1, NewPageIs
  <1>6. q \notin m.mapped
    <2> DEFINE U == Window(m, lo, Fill(m))
    <2>1. IsFiniteSet(U) /\ H \subseteq Pages \X Parts /\ m.ref[q] = RefOf(m, U, H, q)
      BY <1>4, <1>5, WindowSlots DEF Owns, Apart
    <2> HIDE DEF U
    <2>2. Cardinality(UsesOf(m, U, q)) \in Nat /\ Cardinality(HeldOf(H, q)) \in Nat
      BY <2>1, UsesFinite, HeldFinite
    <2>3. Cardinality(UsesOf(m, U, q)) + Cardinality(HeldOf(H, q)) + (IF q \in m.mapped THEN 1 ELSE 0) = 0
      BY <1>5, <2>1 DEF RefOf
    <2> QED  BY <2>2, <2>3
  <1>7. /\ n \in Rx /\ SameQueue(m, n) /\ n.added = m.added /\ n.buffer = m.buffer
        /\ n.page_ring = m.page_ring /\ n.mapped = m.mapped /\ n.ref = m.ref /\ n.slow = m.slow
    BY <1>2, <1>4, NextPlaceIs
  <1>8. PICK more : more = [m.ref EXCEPT ![q] = 1]
    OBVIOUS
  <1>9. PICK all : all = m.mapped \cup {q}
    OBVIOUS
  <1>10. more \in [Pages -> Int] /\ all \in SUBSET Pages
    BY <1>4, <1>5, <1>8, <1>9
  <1>11. y = WithPages(n, more, all)
    <2>1. y = [n EXCEPT !.ref = [n.ref EXCEPT ![q] = 1], !.mapped = n.mapped \cup {q}]
      BY <1>3, <1>7 DEF Mapped, Rx
    <2> QED  BY <1>7, <1>8, <1>9, <2>1 DEF WithPages
  <1>12. /\ y \in Rx /\ SameQueue(n, y) /\ y.added = n.added /\ y.buffer = n.buffer
         /\ y.page_ring = n.page_ring /\ y.mapped = all /\ y.ref = more /\ y.slow = n.slow
    BY <1>7, <1>10, <1>11, RxPages
  <1>13. SameQueue(m, y)
    BY <1>7, <1>12, SameQueueTrans
  <1>14. Prepared(m, y, q, {q})
    BY <1>7, <1>8, <1>9, <1>12, <1>13 DEF Prepared
  <1>15. x = Cut(q, FALSE, y)
    BY <1>1, <1>2, <1>3
  <1>16. m.ref[q] = (IF q \in m.mapped THEN 1 ELSE 0)
    BY <1>5, <1>6
  <1>17. Source(m, q, FALSE, {q})
    BY <1>5, <1>6, <1>16 DEF Source
  <1> QED  BY <1>14, <1>15, <1>17, GoodCut

WithSlow(m, slow) == [m EXCEPT !.slow = slow]

SlowIs(m, x, lo, kl, H, L, slow) ==
    Good(x, lo, kl, H, L) /\ SameQueue(m, x) /\ Fill(x) = Fill(m) /\ x.slow = slow
        /\ x.buffer = m.buffer

LEMMA WithSlowIs ==
    ASSUME NEW m, NEW lo, NEW kl, NEW H, NEW L, Good(m, lo, kl, H, L), NEW slow \in BOOLEAN,
           NEW x, x = WithSlow(m, slow)
    PROVE  SlowIs(m, x, lo, kl, H, L, slow)
  <1>1. m \in Rx
    BY DEF Good
  <1>2. x \in Rx
    BY <1>1 DEF WithSlow, Rx
  <1>3. /\ x.buffer = m.buffer /\ x.added = m.added /\ x.removed = m.removed
        /\ x.page_ring = m.page_ring /\ x.mapped = m.mapped /\ x.ref = m.ref
    BY <1>1 DEF WithSlow, Rx
  <1>4. SameQueue(m, x)
    BY <1>1 DEF WithSlow, Rx, SameQueue
  <1>5. x.slow = slow
    BY <1>1 DEF WithSlow, Rx
  <1>6. Good(x, lo, kl, H, L) /\ Fill(x) = Fill(m)
    BY <1>2, <1>3, <1>4, GoodSame
  <1> QED  BY <1>3, <1>4, <1>5, <1>6 DEF SlowIs

LEMMA GoodNone ==
    ASSUME NEW m, NEW lo, NEW kl, NEW H, NEW L, Good(m, lo, kl, H, L),
           NEW x, x = ScheduleSlowFill(NextPlace(m))
    PROVE  /\ Good(x, lo, kl, H, L) /\ SameQueue(m, x) /\ Fill(x) = Fill(m) /\ x.slow = TRUE
  <1>1. PICK n : n = NextPlace(m)
    OBVIOUS
  <1>2. m \in Rx
    BY DEF Good
  <1>3. /\ n \in Rx /\ SameQueue(m, n) /\ n.added = m.added /\ n.buffer = m.buffer
        /\ n.page_ring = m.page_ring /\ n.mapped = m.mapped /\ n.ref = m.ref
    BY <1>1, <1>2, NextPlaceIs
  <1>4. n.removed = m.removed
    BY <1>3 DEF SameQueue
  <1>5. Good(n, lo, kl, H, L) /\ Fill(n) = Fill(m)
    BY <1>3, <1>4, GoodSame
  <1>6. x = WithSlow(n, TRUE)
    BY <1>1 DEF ScheduleSlowFill, WithSlow
  <1>7. Good(x, lo, kl, H, L) /\ SameQueue(n, x) /\ Fill(x) = Fill(n) /\ x.slow = TRUE
    <2>1. SlowIs(n, x, lo, kl, H, L, TRUE)
      BY <1>5, <1>6, WithSlowIs
    <2> QED  BY <2>1 DEF SlowIs
  <1>8. SameQueue(m, x)
    BY <1>3, <1>7, SameQueueTrans
  <1>9. Fill(x) = Fill(m)
    BY <1>5, <1>7
  <1> QED  BY <1>7, <1>8, <1>9

LEMMA Times ==
    ASSUME NEW a \in Nat, NEW b \in Nat, NEW c \in Nat, a <= b
    PROVE  a * c \in Nat /\ b * c \in Nat /\ a * c <= b * c /\ (a + 1) * c = a * c + c
OBVIOUS

(* The queue after k pages, unless memory has run out.                      *)
Pushes(m, a, failed, k, lo, kl, H, L) ==
    /\ Good(a, lo, kl, H, L) /\ SameQueue(m, a)
    /\ Fill(m) <= Fill(a) /\ Fill(a) <= max_fill
    /\ \/ failed = FALSE /\ a.slow = FALSE /\ Fill(a) = Fill(m) + k * PerPage
       \/ failed = TRUE /\ a.slow = TRUE

(* One more of the pages wanted.                                            *)
LEMMA GoodPush ==
    ASSUME NEW m, NEW lo, NEW kl, NEW H, NEW L, lo <= 0, 0 - lo <= MaxFrags, lo \in Int, Fill(m) \in Nat,
           NEW k \in Nat, NEW a, NEW left, NEW failed, Pushes(m, a, failed, k, lo, kl, H, L),
           Fill(m) + (k + 1) * PerPage <= max_fill
    PROVE  \E b, l, f : Pushed(Pushing(a, left, failed)) = Pushing(b, l, f) /\ Pushes(m, b, f, k + 1, lo, kl, H, L)
  <1>1. /\ Good(a, lo, kl, H, L) /\ SameQueue(m, a)
        /\ Fill(m) <= Fill(a) /\ Fill(a) <= max_fill
        /\ \/ failed = FALSE /\ a.slow = FALSE /\ Fill(a) = Fill(m) + k * PerPage
           \/ failed = TRUE /\ a.slow = TRUE
    BY DEF Pushes
  <1>2. Pushed(Pushing(a, left, failed)) = IF failed THEN Pushing(a, left, failed) ELSE PushPage(Pushing(a, left, failed))
    BY PushingIs DEF Pushed
  <1>3. CASE failed = TRUE /\ a.slow = TRUE
    <2>1. Pushed(Pushing(a, left, failed)) = Pushing(a, left, failed)
      BY <1>2, <1>3
    <2>2. Pushes(m, a, failed, k + 1, lo, kl, H, L)
      BY <1>1, <1>3 DEF Pushes
    <2> QED  BY <2>1, <2>2
  <1>4. CASE failed = FALSE /\ a.slow = FALSE /\ Fill(a) = Fill(m) + k * PerPage
    <2>1. Pushed(Pushing(a, left, failed)) = PushPage(Pushing(a, left, failed))
      BY <1>2, <1>4
    <2>2. /\ PerPage \in Nat /\ k * PerPage \in Nat /\ (k + 1) * PerPage = k * PerPage + PerPage
      BY Sizes, Times
    <2>3. Fill(a) \in Nat /\ Fill(a) + PerPage <= max_fill /\ Fill(a) + PerPage = Fill(m) + (k + 1) * PerPage
      BY <1>4, <2>2
    <2>4. Fill(a) + PerPage - lo < RingSize
      BY <2>2, <2>3, Sizes
    <2>5. ASSUME NEW b, OneMore(a, b, lo, kl, H, L)
          PROVE  Pushes(m, b, failed, k + 1, lo, kl, H, L)
      <3>1. Good(b, lo, kl, H, L) /\ SameQueue(m, b) /\ b.slow = a.slow /\ Fill(b) = Fill(a) + PerPage
        BY <1>1, <2>5, SameQueueTrans DEF OneMore
      <3>2. Fill(b) = Fill(m) + (k + 1) * PerPage /\ Fill(m) <= Fill(b) /\ Fill(b) <= max_fill
        BY <1>1, <2>2, <2>3, <3>1
      <3> QED  BY <1>4, <3>1, <3>2 DEF Pushes
    <2>6. PICK b : b = Cut(RingPage(a), TRUE, NextPlace(a))
      OBVIOUS
    <2>7. PICK c : c = Cut(NewPage(a), FALSE, Mapped(NextPlace(a), NewPage(a)))
      OBVIOUS
    <2>8. PICK d : d = ScheduleSlowFill(NextPlace(a))
      OBVIOUS
    <2>9. \/ Reusable(a, RingPage(a)) /\ PushPage(Pushing(a, left, failed)) = Pushing(b, left, failed)
          \/ FreePages(a) # {} /\ PushPage(Pushing(a, left, failed)) = Pushing(c, left - 1, failed)
          \/ PushPage(Pushing(a, left, failed)) = Pushing(d, left, TRUE)
      BY <2>6, <2>7, <2>8, PushPageIs
    <2>10. CASE Reusable(a, RingPage(a)) /\ PushPage(Pushing(a, left, failed)) = Pushing(b, left, failed)
      <3>1. OneMore(a, b, lo, kl, H, L)
        BY <1>1, <2>4, <2>6, <2>10, GoodReuse
      <3> QED  BY <2>1, <2>5, <2>10, <3>1
    <2>11. CASE FreePages(a) # {} /\ PushPage(Pushing(a, left, failed)) = Pushing(c, left - 1, failed)
      <3>1. OneMore(a, c, lo, kl, H, L)
        BY <1>1, <2>4, <2>7, <2>11, GoodNew
      <3> QED  BY <2>1, <2>5, <2>11, <3>1
    <2>12. CASE PushPage(Pushing(a, left, failed)) = Pushing(d, left, TRUE)
      <3>1. Good(d, lo, kl, H, L) /\ SameQueue(a, d) /\ Fill(d) = Fill(a) /\ d.slow = TRUE
        BY <1>1, <2>8, GoodNone
      <3>2. SameQueue(m, d) /\ Fill(m) <= Fill(d) /\ Fill(d) <= max_fill
        BY <1>1, <3>1, SameQueueTrans
      <3>3. PICK t : t = TRUE
        OBVIOUS
      <3>4. Pushes(m, d, t, k + 1, lo, kl, H, L)
        BY <3>1, <3>2, <3>3 DEF Pushes
      <3> QED  BY <2>1, <2>12, <3>3, <3>4
    <2> QED  BY <2>9, <2>10, <2>11, <2>12
  <1> QED  BY <1>1, <1>3, <1>4

LEMMA GoodPushAll ==
    ASSUME NEW m, NEW lo, NEW kl, NEW H, NEW L, Good(m, lo, kl, H, L), lo <= 0, 0 - lo <= MaxFrags,
           m.slow = FALSE, NEW left, NEW n \in Nat, Fill(m) + n * PerPage <= max_fill,
           NEW x, x = PushAll(m, left, n).rx
    PROVE  \E failed : Pushes(m, x, failed, n, lo, kl, H, L)
  <1>1. m \in Rx /\ lo \in Int /\ Fill(m) \in Nat /\ PerPage \in Nat /\ max_fill \in Nat
    BY FillRange, Sizes DEF Good
  <1>2. PICK g : /\ g[0] = Unpushed(m, left)
                 /\ \A k \in 0 .. n - 1 : g[k + 1] = Pushed(g[k])
                 /\ g[n] = PushAll(m, left, n)
    BY PushAllIs
  <1> DEFINE P(k) == \E a, l, f : g[k] = Pushing(a, l, f) /\ Pushes(m, a, f, k, lo, kl, H, L)
             S == {k \in Nat : P(k)}
  <1>3. 0 \in S
    <2>1. PICK f : f = FALSE
      OBVIOUS
    <2>2. g[0] = Pushing(m, left, f)
      BY <1>2, <2>1 DEF Unpushed, Pushing
    <2>3. SameQueue(m, m) /\ Fill(m) = Fill(m) + 0 * PerPage /\ Fill(m) <= max_fill /\ Fill(m) <= Fill(m)
      <3>1. 0 * PerPage = 0 /\ n * PerPage >= 0
        BY <1>1
      <3>2. SameQueue(m, m)
        BY DEF SameQueue
      <3>3. n * PerPage \in Int
        BY <1>1
      <3> QED  BY <1>1, <3>1, <3>2, <3>3
    <2>4. Pushes(m, m, f, 0, lo, kl, H, L)
      BY <2>1, <2>3 DEF Pushes
    <2> QED  BY <2>2, <2>4
  <1>4. \A k \in 0 .. n - 1 : k \in S => k + 1 \in S
    <2> SUFFICES ASSUME NEW k \in 0 .. n - 1, P(k)  PROVE P(k + 1)
      OBVIOUS
    <2>1. PICK a, l, f : g[k] = Pushing(a, l, f) /\ Pushes(m, a, f, k, lo, kl, H, L)
      OBVIOUS
    <2>2. g[k + 1] = Pushed(Pushing(a, l, f))
      BY <1>2, <2>1
    <2>3. Fill(m) + (k + 1) * PerPage <= max_fill /\ k \in Nat
      <3>1. k + 1 \in Nat /\ k + 1 <= n
        OBVIOUS
      <3>2. (k + 1) * PerPage \in Nat /\ n * PerPage \in Nat /\ (k + 1) * PerPage <= n * PerPage
        BY <1>1, <3>1, Times
      <3> QED  BY <1>1, <3>1, <3>2
    <2>4. \E b, j, e : Pushed(Pushing(a, l, f)) = Pushing(b, j, e) /\ Pushes(m, b, e, k + 1, lo, kl, H, L)
      BY <1>1, <2>1, <2>3, GoodPush
    <2> QED  BY <2>2, <2>4
  <1> HIDE DEF S
  <1>5. n \in S
    BY <1>3, <1>4, UpTo
  <1>6. PICK a, l, f : g[n] = Pushing(a, l, f) /\ Pushes(m, a, f, n, lo, kl, H, L)
    BY <1>5 DEF S
  <1>7. x = a
    BY <1>2, <1>6, PushingIs
  <1> QED  BY <1>6, <1>7

(* How many pages fast_push wants.                                          *)
LEMMA WantedIs ==
    ASSUME NEW m \in Rx, Fill(m) <= max_fill
    PROVE  /\ Wanted(m) \in Nat /\ Fill(m) + Wanted(m) * PerPage <= max_fill
           /\ Fill(m) + Wanted(m) * PerPage >= fast_fill_trigger
  <1> DEFINE d == max_fill - Fill(m)  q == d \div BatchSize
  <1>1. /\ Fill(m) \in Nat /\ d \in Nat /\ BatchSize \in Nat /\ BatchSize > 0 /\ PerPage \in Nat /\ PerBatch \in Nat
        /\ BatchSize = PerBatch * PerPage /\ fast_fill_trigger = max_fill - BatchSize /\ max_fill \in Nat
    BY FillRange, Sizes DEF BatchSize
  <1> DEFINE r == d % BatchSize
  <1>2. q \in Int /\ r \in Int /\ d = q * BatchSize + r /\ 0 <= r /\ r < BatchSize
    <2> HIDE DEF d
    <2>1. PICK b : b = BatchSize
      OBVIOUS
    <2>2. b \in Nat /\ b > 0 /\ d \in Nat
      BY <1>1, <2>1
    <2>3. d \div b \in Int /\ d % b \in 0 .. b - 1 /\ d = (d \div b) * b + (d % b)
      BY <2>2
    <2> QED  BY <2>1, <2>2, <2>3
  <1> HIDE DEF q, r
  <1>3. q >= 0
    <2>1. ASSUME q <= -1  PROVE FALSE
      <3>1. q * BatchSize <= (0 - 1) * BatchSize
        BY <1>1, <1>2, <2>1
      <3>2. q * BatchSize \in Int
        BY <1>1, <1>2
      <3> HIDE DEF d
      <3> QED  BY <1>1, <1>2, <3>1, <3>2
    <2> QED  BY <1>2, <2>1
  <1>4. Wanted(m) = PerBatch * q
    BY DEF Wanted, q, d
  <1>5. Wanted(m) \in Nat /\ Wanted(m) * PerPage = q * BatchSize
    <2>1. PICK e : e = PerBatch
      OBVIOUS
    <2>2. e * q \in Nat /\ (e * q) * PerPage = q * (e * PerPage)
      BY <1>1, <1>2, <1>3, <2>1
    <2> QED  BY <1>1, <1>4, <2>1, <2>2
  <1>6. q * BatchSize \in Int
    BY <1>1, <1>2
  <1>7. d = max_fill - Fill(m)
    OBVIOUS
  <1> HIDE DEF d
  <1> QED  BY <1>1, <1>2, <1>5, <1>6, <1>7

(* What one refill does to a queue that is up: it announces all but less    *)
(* than a WriteUnit of what is posted, and has posted enough for a packet,  *)
(* unless memory was short.                                                 *)
Pushable(m) ==
    /\ m.slow = FALSE /\ Fill(m) <= max_fill
    /\ Announced(m) <= Fill(m) /\ m.noted % WriteUnit = 0

Refilled(m, x) ==
    /\ x.removed = m.removed /\ x.pkt = m.pkt /\ x.spent = m.spent
    /\ x.refill_enabled = m.refill_enabled
    /\ Fill(m) <= Fill(x) /\ Fill(x) <= max_fill
    /\ x.noted % WriteUnit = 0
    /\ Announced(m) <= Announced(x) /\ Announced(x) <= Fill(x)
    /\ x.slow = TRUE \/ Announced(x) >= MaxFrags

(* Notify, applied to what the pages pushed have made of the queue.         *)
LEMMA NotifyRefills ==
    ASSUME NEW m \in Rx, Pushable(m), NEW lo, NEW kl, NEW H, NEW L,
           NEW a, Good(a, lo, kl, H, L), SameQueue(m, a),
           Fill(m) <= Fill(a), Fill(a) <= max_fill,
           a.slow = TRUE \/ Fill(a) >= fast_fill_trigger,
           NEW x, x = Notify(a)
    PROVE  Good(x, lo, kl, H, L) /\ Refilled(m, x)
  <1>1. /\ Fill(m) <= max_fill /\ Announced(m) <= Fill(m) /\ m.noted % WriteUnit = 0
    BY DEF Pushable
  <1>2. a.noted = m.noted /\ a.removed = m.removed /\ a.pkt = m.pkt
        /\ a.refill_enabled = m.refill_enabled /\ a.spent = m.spent
    BY DEF SameQueue
  <1>3. a \in Rx /\ Fill(a) \in Nat /\ Fill(m) \in Nat
    BY FillRange DEF Good
  <1>4. Announced(a) = Announced(m) /\ Announced(m) \in Int
    <2>1. m.noted \in Counts /\ m.removed \in Counts
      BY DEF Rx
    <2> QED  BY <1>2, <2>1, BehindRange DEF Announced
  <1>5. Announced(a) <= Fill(a) /\ a.noted % WriteUnit = 0
    BY <1>1, <1>2, <1>3, <1>4
  <1>6. /\ Good(x, lo, kl, H, L) /\ Fill(x) = Fill(a) /\ x.removed = a.removed
        /\ x.pkt = a.pkt /\ x.refill_enabled = a.refill_enabled /\ x.spent = a.spent /\ x.slow = a.slow
        /\ x.noted % WriteUnit = 0
        /\ Announced(a) <= Announced(x) /\ Announced(x) <= Fill(x)
        /\ Announced(x) >= Fill(x) - (WriteUnit - 1)
    BY <1>5, GoodNotify
  <1>7. x.slow = TRUE \/ Announced(x) >= MaxFrags
    <2>1. Announced(x) \in Int
      <3>1. x.noted \in Counts /\ x.removed \in Counts
        BY <1>6 DEF Good, Rx
      <3> QED  BY <3>1, BehindRange DEF Announced
    <2>2. CASE Fill(a) >= fast_fill_trigger
      BY <1>3, <1>6, <2>1, <2>2, Sizes
    <2> QED  BY <1>6, <2>2
  <1>8. Refilled(m, x)
    BY <1>2, <1>4, <1>6, <1>7 DEF Refilled
  <1> QED  BY <1>6, <1>8

(* efx_fast_push_rx_descriptors                                             *)
LEMMA GoodFastPush ==
    ASSUME NEW m, NEW lo, NEW kl, NEW H, NEW L, Good(m, lo, kl, H, L), lo <= 0, 0 - lo <= MaxFrags,
           Pushable(m), m.refill_enabled = TRUE, NEW left, NEW x, x = FastPush(m, left)
    PROVE  Good(x, lo, kl, H, L) /\ Refilled(m, x)
  <1>1. m \in Rx /\ Fill(m) \in Nat /\ Fill(m) <= max_fill /\ m.slow = FALSE
    BY FillRange DEF Good, Pushable
  <1>2. SameQueue(m, m)
    BY DEF SameQueue
  <1>3. CASE Fill(m) >= fast_fill_trigger
    <2>1. x = Notify(m)
      BY <1>3, FastPushIs
    <2>2. Fill(m) <= Fill(m)
      BY <1>1
    <2> QED  BY <1>1, <1>2, <1>3, <2>1, <2>2, NotifyRefills
  <1>4. CASE ~(Fill(m) >= fast_fill_trigger)
    <2>1. PICK n : n = Wanted(m)
      OBVIOUS
    <2>2. PICK a : a = PushAll(m, left, n).rx
      OBVIOUS
    <2>3. x = Notify(a)
      BY <1>4, <2>1, <2>2, FastPushIs
    <2>4. n \in Nat /\ Fill(m) + n * PerPage <= max_fill /\ Fill(m) + n * PerPage >= fast_fill_trigger
      BY <1>1, <2>1, WantedIs
    <2>5. \E failed : Pushes(m, a, failed, n, lo, kl, H, L)
      BY <1>1, <2>2, <2>4, GoodPushAll
    <2>6. /\ Good(a, lo, kl, H, L) /\ SameQueue(m, a)
          /\ Fill(m) <= Fill(a) /\ Fill(a) <= max_fill
          /\ a.slow = TRUE \/ Fill(a) >= fast_fill_trigger
      BY <2>4, <2>5 DEF Pushes
    <2> QED  BY <1>1, <2>3, <2>6, NotifyRefills
  <1> QED  BY <1>3, <1>4

---------------------------------------------------------------------------
(* The inductive invariant                                                  *)

(* The pages, between two steps or in the middle of one: everything is      *)
(* accounted for by the buffers in use, those the stack holds and the       *)
(* buffers G which nobody will ever free, of packets for representors or of *)
(* pages that efx_fini_rx_queue passed over.                                *)
Kept(m, lo, kl, stack, passed) ==
    \E G, L : /\ Good(m, lo, kl, stack \cup G, L)
              /\ G \cap stack = {}
              /\ \A b \in G : Switchdev \/ b[1] \in passed
              /\ L \subseteq passed

Settled(m) ==
    /\ m.slow = FALSE
    /\ Fill(m) <= max_fill
    /\ m.noted % WriteUnit = 0
    /\ PktIs(m)
    /\ m.pkt = NoPkt \/ m.spent = TRUE

Staged(m, st, cut, passed) ==
    /\ m.refill_enabled = TRUE <=> st = "up"
    /\ st = "off" => /\ Fill(m) = 0 /\ m.spent = FALSE
                     /\ \A k \in Places : m.page_ring[k] = NoPage
                     /\ cut = NoCut
    /\ st # "off" => passed = {} /\ Announced(m) <= Fill(m)

(* The buffers of the packet that was cut short end at what was announced   *)
(* at that time, before which the NIC had begun to fill some.               *)
CutShort(m, cut) ==
    \/ cut = NoCut
    \/ /\ cut.n \in 1 .. MaxFrags - 1
       /\ cut.end % WriteUnit = 0
       /\ cut.n <= Behind(cut.end, m.removed)
       /\ Behind(cut.end, m.removed) <= Announced(m)

(* The NIC has buffers for a packet of any size, or the queue is yet to be  *)
(* refilled.                                                                *)
Fed(m, st, armed, due) ==
    st = "up" => m.spent = TRUE \/ armed = TRUE \/ due = TRUE \/ Announced(m) >= MaxFrags

Domains ==
    /\ held \subseteq Pages \X Parts
    /\ slow_fill \in BOOLEAN /\ event \in BOOLEAN
    /\ stage \in {"off", "up", "stopping"}
    /\ truncated \in [end : Counts, n : 0 .. MaxFrags - 1]
    /\ lost \subseteq Pages

IInv ==
    /\ Domains
    /\ Kept(rx, - rx.pkt.n, 0, held, lost)
    /\ Settled(rx)
    /\ Staged(rx, stage, truncated, lost)
    /\ CutShort(rx, truncated)
    /\ Fed(rx, stage, slow_fill, event)

LEMMA KeptBy ==
    ASSUME NEW m, NEW lo, NEW kl, NEW S, NEW P, Kept(m, lo, kl, S, P),
           NEW x, NEW j, NEW k, \A H, L : Good(m, lo, kl, H, L) => Good(x, j, k, H, L)
    PROVE  Kept(x, j, k, S, P)
BY DEF Kept

LEMMA KeptRx ==
    ASSUME NEW m, NEW lo, NEW kl, NEW S, NEW P, Kept(m, lo, kl, S, P)
    PROVE  /\ m \in Rx /\ Fill(m) \in Nat /\ Announced(m) \in Nat
           /\ m.noted \in Counts /\ m.removed \in Counts /\ m.added \in Counts
           /\ lo \in Int /\ kl \in Int /\ kl <= Fill(m)
  <1>1. m \in Rx /\ lo \in Int /\ kl \in Int /\ kl <= Fill(m)
    BY DEF Kept, Good
  <1>2. m.noted \in Counts /\ m.removed \in Counts /\ m.added \in Counts
    BY <1>1 DEF Rx
  <1>3. Announced(m) \in Nat
    BY <1>2, BehindRange DEF Announced
  <1> QED  BY <1>1, <1>2, <1>3, FillRange

(* Whatever becomes of the packet in the pipeline.                          *)
LEMMA KeptFlush ==
    ASSUME NEW kl \in Nat, NEW m, NEW S, NEW P, Kept(m, - m.pkt.n, kl, S, P), PktIs(m),
           Fill(m) <= max_fill, NEW o \in Flush(m), NEW T, T = S \cup o.up
    PROVE  /\ Kept(o.rx, 0, kl, T, P) /\ Flushed(m, o.rx)
           /\ Fill(m) <= Fill(o.rx) /\ Fill(o.rx) <= max_fill
           /\ T \subseteq Pages \X Parts
  <1>1. PICK G, L : /\ Good(m, - m.pkt.n, kl, S \cup G, L)
                    /\ G \cap S = {}
                    /\ \A b \in G : Switchdev \/ b[1] \in P
                    /\ L \subseteq P
    BY DEF Kept
  <1>2. PICK H : H = S \cup G
    OBVIOUS
  <1>3. FlushGood(m, kl, H, L, o)
    BY <1>1, <1>2, GoodFlush
  <1>4. /\ Flushed(m, o.rx) /\ Fill(m) <= Fill(o.rx) /\ Fill(o.rx) <= max_fill
        /\ H \cap o.up = {}
    BY <1>3 DEF FlushGood
  <1>5. PICK F : /\ Good(o.rx, 0, kl, (H \cup o.up) \cup F, L)
                 /\ (H \cup o.up) \cap F = {}
                 /\ F = {} \/ Switchdev
    BY <1>3 DEF FlushGood
  <1>6. (H \cup o.up) \cup F = T \cup (G \cup F)
    BY <1>2
  <1>7. (G \cup F) \cap T = {}
    BY <1>1, <1>2, <1>4, <1>5
  <1>8. \A b \in G \cup F : Switchdev \/ b[1] \in P
    BY <1>1, <1>5
  <1>9. Kept(o.rx, 0, kl, T, P)
    BY <1>1, <1>5, <1>6, <1>7, <1>8 DEF Kept
  <1>10. T \subseteq Pages \X Parts
    <2>1. (H \cup o.up) \cup F \subseteq Pages \X Parts
      BY <1>5 DEF Good, Owns, Apart
    <2> QED  BY <1>6, <2>1
  <1> QED  BY <1>4, <1>9, <1>10

(* What Filled counts is announced, and still to be received.               *)
LEMMA FilledIs ==
    ASSUME IInv, stage # "off", NEW n \in Nat, n <= Filled
    PROVE  /\ n <= Announced(rx) /\ Announced(rx) <= Fill(rx)
           /\ truncated # NoCut => n + truncated.n <= Behind(truncated.end, rx.removed)
  <1>1. /\ rx.noted \in Counts /\ rx.removed \in Counts /\ Announced(rx) \in Nat
        /\ Announced(rx) <= Fill(rx)
    BY KeptRx DEF IInv, Staged
  <1>2. CASE truncated = NoCut
    <2>1. Filled = Announced(rx) - 0
      BY <1>2 DEF Filled, Announced, NoCut
    <2> QED  BY <1>1, <1>2, <2>1
  <1>3. CASE truncated # NoCut
    <2>1. Filled = Behind(truncated.end, rx.removed) - truncated.n
      BY <1>3 DEF Filled
    <2>2. /\ truncated.n \in 1 .. MaxFrags - 1
          /\ Behind(truncated.end, rx.removed) <= Announced(rx)
      BY <1>3 DEF IInv, CutShort
    <2>3. truncated.end \in Counts
      BY DEF IInv, Domains
    <2>4. Behind(truncated.end, rx.removed) \in Int /\ truncated.n \in Int /\ truncated.n > 0
      BY <1>1, <2>2, <2>3, BehindRange
    <2> QED  BY <1>1, <2>1, <2>2, <2>4
  <1> QED  BY <1>2, <1>3

(* n buffers are taken from the queue: the announced ones are n fewer, and  *)
(* so are those before the end of the packet that was cut short.            *)
LEMMA TakenBehind ==
    ASSUME NEW m, NEW x, NEW r \in Counts, NEW c \in Counts, NEW n \in Nat, m.removed = r, m.noted = c,
           n <= Announced(m), x.removed = Incr(r, n), x.noted = c
    PROVE  Announced(x) = Announced(m) - n
  <1>1. Announced(m) = Behind(c, r) /\ Announced(x) = Behind(c, Incr(r, n))
    BY DEF Announced
  <1>2. Behind(c, r) \in Int
    BY BehindRange
  <1>3. n \in 0 .. Behind(c, r)
    BY <1>1, <1>2
  <1> QED  BY <1>1, <1>3, BehindMoved

LEMMA TakenCut ==
    ASSUME IInv, stage # "off", NEW n \in Nat, n <= Filled,
           NEW x, x.removed = Incr(rx.removed, n), x.noted = rx.noted
    PROVE  Announced(x) = Announced(rx) - n /\ CutShort(x, truncated)
  <1>1. rx.noted \in Counts /\ rx.removed \in Counts /\ Announced(rx) \in Nat
    BY KeptRx DEF IInv
  <1>2. n <= Announced(rx)
    BY FilledIs
  <1>3. Announced(x) = Announced(rx) - n
    BY <1>1, <1>2, TakenBehind
  <1>4. CASE truncated # NoCut
    <2>1. /\ truncated.n \in 1 .. MaxFrags - 1 /\ truncated.end % WriteUnit = 0
          /\ Behind(truncated.end, rx.removed) <= Announced(rx)
      BY <1>4 DEF IInv, CutShort
    <2>2. truncated.end \in Counts
      BY DEF IInv, Domains
    <2>3. Behind(truncated.end, rx.removed) \in Int
      BY <1>1, <2>2, BehindRange
    <2>4. n + truncated.n <= Behind(truncated.end, rx.removed)
      BY <1>4, FilledIs
    <2>5. n \in 0 .. Behind(truncated.end, rx.removed) /\ truncated.n \in Int
      BY <2>1, <2>3, <2>4
    <2>6. Behind(truncated.end, x.removed) = Behind(truncated.end, rx.removed) - n
      BY <1>1, <2>2, <2>5, BehindMoved
    <2>7. truncated.n <= Behind(truncated.end, x.removed) /\ Behind(truncated.end, x.removed) <= Announced(x)
      BY <1>1, <1>3, <2>1, <2>3, <2>4, <2>5, <2>6
    <2> QED  BY <1>3, <2>1, <2>7 DEF CutShort
  <1> QED  BY <1>3, <1>4 DEF CutShort

(* y is m after a refill, and x is y after delayed work was scheduled.      *)
PushedOn(m, y, x) ==
    /\ x.slow = FALSE /\ y.slow \in BOOLEAN
    /\ x.removed = m.removed /\ x.pkt = m.pkt /\ x.spent = m.spent
    /\ x.refill_enabled = m.refill_enabled
    /\ Fill(m) <= Fill(x) /\ Fill(x) <= max_fill
    /\ m.refill_enabled = TRUE =>
          /\ x.noted % WriteUnit = 0
          /\ Announced(m) <= Announced(x) /\ Announced(x) <= Fill(x)
          /\ y.slow = TRUE \/ Announced(x) >= MaxFrags
    /\ m.refill_enabled = FALSE => x = m

(* The refill, when the queue is up or when it is not.                      *)
LEMMA KeptFastPush ==
    ASSUME NEW m, NEW lo, NEW S, NEW P, Kept(m, lo, 0, S, P), lo <= 0, 0 - lo <= MaxFrags,
           m.refill_enabled = TRUE => Pushable(m), m.slow = FALSE, Fill(m) <= max_fill,
           NEW left, NEW y, y = FastPush(m, left), NEW x, x = WithSlow(y, FALSE)
    PROVE  Kept(x, lo, 0, S, P) /\ PushedOn(m, y, x)
  <1>1. m \in Rx /\ Fill(m) \in Nat
    BY KeptRx
  <1>2. FALSE \in BOOLEAN
    OBVIOUS
  <1>3. CASE m.refill_enabled = TRUE
    <2>1. \A H, L : Good(m, lo, 0, H, L) => Good(y, lo, 0, H, L) /\ Refilled(m, y)
      BY <1>3, GoodFastPush
    <2>2. Refilled(m, y)
      BY <2>1 DEF Kept
    <2>3. Kept(y, lo, 0, S, P)
      BY <2>1, KeptBy
    <2>4. y \in Rx
      BY <2>3, KeptRx
    <2>5. PICK f : f = FALSE
      OBVIOUS
    <2>6. \A H, L : Good(y, lo, 0, H, L) => /\ Good(x, lo, 0, H, L) /\ SameQueue(y, x) /\ Fill(x) = Fill(y)
                                            /\ x.slow = f
      <3>1. f \in BOOLEAN
        BY <2>5
      <3>2. \A H, L : Good(y, lo, 0, H, L) => SlowIs(y, x, lo, 0, H, L, f)
        BY <2>5, <3>1, WithSlowIs
      <3> QED  BY <3>2 DEF SlowIs
    <2>7. SameQueue(y, x) /\ Fill(x) = Fill(y) /\ x.slow = FALSE
      BY <2>3, <2>5, <2>6 DEF Kept
    <2>8. Kept(x, lo, 0, S, P)
      BY <2>3, <2>6, KeptBy
    <2>9. y.slow \in BOOLEAN
      BY <2>4 DEF Rx
    <2>10. Announced(x) = Announced(y)
      BY <2>7 DEF Announced, SameQueue
    <2> QED  BY <1>3, <2>2, <2>7, <2>8, <2>9, <2>10 DEF Refilled, SameQueue, PushedOn
  <1>4. CASE m.refill_enabled # TRUE
    <2>1. m.refill_enabled = FALSE
      BY <1>1, <1>4 DEF Rx
    <2>2. y = m
      BY <2>1, FastPushIs
    <2>3. x = m
      BY <1>1, <2>2 DEF WithSlow, Rx
    <2>4. Fill(m) <= Fill(m) /\ m.slow \in BOOLEAN
      BY <1>1 DEF Rx
    <2> QED  BY <2>1, <2>2, <2>3, <2>4 DEF PushedOn
  <1> QED  BY <1>3, <1>4

---------------------------------------------------------------------------
(* The steps of the poll, and of the others                                 *)

WithPkt(m, index, n) == [m EXCEPT !.pkt = [index |-> index, n |-> n], !.spent = TRUE]
WithSpent(m, spent)  == [m EXCEPT !.spent = spent]

PktSet(m, x, i, n) ==
    /\ Fill(x) = Fill(m) /\ x.pkt.n = n /\ x.pkt.index = i /\ x.spent = TRUE
    /\ x.slow = m.slow /\ x.noted = m.noted /\ x.removed = m.removed
    /\ x.refill_enabled = m.refill_enabled

LEMMA WithPktIs ==
    ASSUME NEW m, NEW lo, NEW kl, NEW S, NEW P, Kept(m, lo, kl, S, P), NEW i \in Slots, NEW n \in 0 .. MaxFrags, NEW x, x = WithPkt(m, i, n)
    PROVE  Kept(x, lo, kl, S, P) /\ PktSet(m, x, i, n)
  <1>1. [index |-> i, n |-> n] \in [index : Slots, n : 0 .. MaxFrags]
    OBVIOUS
  <1>0. m \in Rx
    BY KeptRx
  <1>2. x \in Rx
    BY <1>0, <1>1 DEF WithPkt, Rx
  <1>3. /\ x.buffer = m.buffer /\ x.added = m.added /\ x.removed = m.removed
        /\ x.page_ring = m.page_ring /\ x.mapped = m.mapped /\ x.ref = m.ref
    BY <1>0 DEF WithPkt, Rx
  <1>4. /\ x.slow = m.slow /\ x.noted = m.noted /\ x.refill_enabled = m.refill_enabled
    BY <1>0 DEF WithPkt, Rx
  <1>5. x.pkt = [index |-> i, n |-> n] /\ x.spent = TRUE
    BY <1>0 DEF WithPkt, Rx
  <1>6. x.pkt.n = n /\ x.pkt.index = i
    BY <1>5
  <1>7. Fill(x) = Fill(m)
    BY <1>3 DEF Fill
  <1>8. Kept(x, lo, kl, S, P)
    <2>1. \A H, L : Good(m, lo, kl, H, L) => Good(x, lo, kl, H, L)
      BY <1>2, <1>3, GoodSame
    <2> QED  BY <2>1, KeptBy
  <1> QED  BY <1>3, <1>4, <1>5, <1>6, <1>7, <1>8 DEF PktSet

LEMMA WithSpentIs ==
    ASSUME NEW m, NEW lo, NEW kl, NEW S, NEW P, Kept(m, lo, kl, S, P), NEW s \in BOOLEAN, NEW x, x = WithSpent(m, s)
    PROVE  /\ Kept(x, lo, kl, S, P)
           /\ Fill(x) = Fill(m) /\ x.pkt = m.pkt /\ x.spent = s
           /\ x.slow = m.slow /\ x.noted = m.noted /\ x.removed = m.removed
           /\ x.refill_enabled = m.refill_enabled
  <1>0. m \in Rx
    BY KeptRx
  <1>2. x \in Rx
    BY <1>0 DEF WithSpent, Rx
  <1>3. /\ x.buffer = m.buffer /\ x.added = m.added /\ x.removed = m.removed
        /\ x.page_ring = m.page_ring /\ x.mapped = m.mapped /\ x.ref = m.ref
    BY <1>0 DEF WithSpent, Rx
  <1>4. /\ x.slow = m.slow /\ x.noted = m.noted /\ x.refill_enabled = m.refill_enabled
        /\ x.pkt = m.pkt /\ x.spent = s
    BY <1>0 DEF WithSpent, Rx
  <1>7. Fill(x) = Fill(m)
    BY <1>3 DEF Fill
  <1>8. Kept(x, lo, kl, S, P)
    <2>1. \A H, L : Good(m, lo, kl, H, L) => Good(x, lo, kl, H, L)
      BY <1>2, <1>3, GoodSame
    <2> QED  BY <2>1, KeptBy
  <1> QED  BY <1>3, <1>4, <1>7, <1>8

LEMMA KeptTaken ==
    ASSUME NEW m, NEW lo, NEW kl, NEW S, NEW P, Kept(m, lo, kl, S, P), NEW d \in Nat, d <= kl,
           NEW x, x = Taken(m, d)
    PROVE  /\ Kept(x, lo - d, kl - d, S, P) /\ Fill(x) = Fill(m) - d
           /\ x \in Rx /\ x.removed = Incr(m.removed, d)
           /\ \A k \in Int : At(x, k) = At(m, k + d)
           /\ x.noted = m.noted /\ x.pkt = m.pkt /\ x.slow = m.slow /\ x.spent = m.spent
           /\ x.refill_enabled = m.refill_enabled
  <1>1. \A H, L : Good(m, lo, kl, H, L) => Good(x, lo - d, kl - d, H, L)
    BY GoodTaken
  <1>2. PICK G, L : Good(m, lo, kl, S \cup G, L)
    BY DEF Kept
  <1> QED  BY <1>1, <1>2, GoodTaken, KeptBy

LEMMA HeadIs == Kept(rx, - rx.pkt.n, 0, held, lost) => Head = At(rx, 0) /\ Head \in Slots
  <1> SUFFICES ASSUME Kept(rx, - rx.pkt.n, 0, held, lost)  PROVE Head = At(rx, 0) /\ Head \in Slots
    OBVIOUS
  <1>1. rx.removed \in Counts /\ rx \in Rx
    BY KeptRx
  <1>2. rx.removed + 0 = rx.removed
    BY <1>1, BehindRange
  <1> QED  BY <1>1, <1>2, AtSlot DEF Head, At

(* The packet passed on by an action of the poll, once the queue is as far  *)
(* as rx is: what every such action needs.                                  *)
LEMMA Passed ==
    ASSUME IInv, NEW o \in Flush(rx), Given(o)
    PROVE  /\ Kept(o.rx, 0, 0, held', lost) /\ Flushed(rx, o.rx)
           /\ Fill(rx) <= Fill(o.rx) /\ Fill(o.rx) <= max_fill
           /\ held' \subseteq Pages \X Parts
  <1>1. held' = held \cup o.up
    BY DEF Given
  <1>2. Kept(rx, - rx.pkt.n, 0, held, lost) /\ PktIs(rx) /\ Fill(rx) <= max_fill
    BY DEF IInv, Settled
  <1>3. PICK z : z = 0
    OBVIOUS
  <1>4. PICK m : m = rx
    OBVIOUS
  <1>5. z \in Nat /\ Kept(m, - m.pkt.n, z, held, lost) /\ PktIs(m) /\ Fill(m) <= max_fill /\ o \in Flush(m)
    BY <1>2, <1>3, <1>4
  <1>6. PICK T : T = held'
    OBVIOUS
  <1>7. /\ Kept(o.rx, 0, z, T, lost) /\ Flushed(m, o.rx)
        /\ Fill(m) <= Fill(o.rx) /\ Fill(o.rx) <= max_fill
        /\ T \subseteq Pages \X Parts
    BY <1>1, <1>5, <1>6, KeptFlush
  <1> QED  BY <1>3, <1>4, <1>6, <1>7

LEMMA NoPktSettled ==
    ASSUME NEW x, x.slow = FALSE, Fill(x) <= max_fill, x.noted % WriteUnit = 0, x.pkt = NoPkt
    PROVE  Settled(x) /\ - x.pkt.n = 0
  <1>1. x.pkt.n = 0
    BY NoPktIs
  <1>2. - x.pkt.n = 0
    <2>1. PICK z : z = x.pkt.n
      OBVIOUS
    <2>2. z \in Int /\ z = 0
      BY <1>1, <2>1
    <2>3. - z = 0 - z
      BY <2>2, Negated
    <2>4. 0 - z = 0
      BY <2>2
    <2> QED  BY <2>1, <2>3, <2>4
  <1> QED  BY <1>2 DEF Settled, PktIs

LEMMA ReceiveIInv ==
    ASSUME IInv, NEW n \in 1 .. MaxFrags, Receive(n)
    PROVE  IInv'
  <1>1. stage # "off" /\ n <= Filled /\ n \in Nat /\ n > 0
    BY DEF Receive
  <1>2. UNCHANGED <<slow_fill, event, stage, truncated, lost>>
    BY DEF Receive
  <1>3. PICK r : r = RecyclePages(rx, Head, n)
    OBVIOUS
  <1>4. PICK o \in Flush(r) :
           /\ Given(o)
           /\ rx' = WithPkt(Taken(o.rx, n), Head, n)
    BY <1>3 DEF Receive, WithPkt
  <1>5. /\ Kept(rx, - rx.pkt.n, 0, held, lost) /\ Settled(rx) /\ Head = At(rx, 0) /\ Head \in Slots
        /\ rx \in Rx /\ rx.noted \in Counts /\ rx.removed \in Counts
    BY HeadIs, KeptRx DEF IInv
  <1>6. n <= Announced(rx) /\ Announced(rx) <= Fill(rx) /\ Announced(rx) \in Nat /\ Fill(rx) \in Nat
    BY <1>1, <1>5, FilledIs, KeptRx
  <1>7. n <= Fill(rx)
    BY <1>6
  <1>8. \A H, L : Good(rx, - rx.pkt.n, 0, H, L) =>
                     /\ Good(r, - rx.pkt.n, n, H, L) /\ SameQueue(rx, r) /\ Fill(r) = Fill(rx)
                     /\ r.slow = rx.slow
    BY <1>1, <1>3, <1>5, <1>7, GoodRecycleAll
  <1>9. SameQueue(rx, r) /\ Fill(r) = Fill(rx) /\ r.slow = rx.slow
    BY <1>5, <1>8 DEF Kept
  <1>10. r.pkt = rx.pkt
    BY <1>9 DEF SameQueue
  <1>11. Kept(r, - r.pkt.n, n, held, lost)
    BY <1>5, <1>8, <1>10, KeptBy
  <1>12. PktIs(r)
    <2>1. \A k : At(r, k) = At(rx, k)
      BY <1>9, SameAt DEF SameQueue
    <2> QED  BY <1>5, <1>10, <2>1 DEF Settled, PktIs
  <1>13. Fill(r) <= max_fill
    BY <1>5, <1>9 DEF Settled
  <1>14. held' = held \cup o.up
    BY <1>4 DEF Given
  <1>15. /\ Kept(o.rx, 0, n, held', lost) /\ Flushed(r, o.rx)
         /\ Fill(r) <= Fill(o.rx) /\ Fill(o.rx) <= max_fill
         /\ held' \subseteq Pages \X Parts
    BY <1>1, <1>11, <1>12, <1>13, <1>14, KeptFlush
  <1>16. PICK q : q = o.rx
    OBVIOUS
  <1>17. /\ q.noted = rx.noted /\ q.removed = rx.removed /\ q.refill_enabled = rx.refill_enabled
         /\ q.spent = rx.spent /\ q.slow = rx.slow
    BY <1>9, <1>15, <1>16 DEF Flushed, SameQueue
  <1>18. PICK t : t = Taken(q, n)
    OBVIOUS
  <1>19. Kept(q, 0, n, held', lost) /\ n <= n
    BY <1>1, <1>15, <1>16
  <1>20. /\ Kept(t, 0 - n, n - n, held', lost) /\ Fill(t) = Fill(q) - n
         /\ t \in Rx /\ t.removed = Incr(q.removed, n)
         /\ \A k \in Int : At(t, k) = At(q, k + n)
         /\ t.noted = q.noted /\ t.slow = q.slow /\ t.refill_enabled = q.refill_enabled
    BY <1>1, <1>18, <1>19, KeptTaken
  <1>21. PICK x : x = rx'
    OBVIOUS
  <1>22. x = WithPkt(t, Head, n)
    BY <1>4, <1>16, <1>18, <1>21
  <1>23. /\ Kept(x, 0 - n, n - n, held', lost)
         /\ Fill(x) = Fill(t) /\ x.pkt.n = n /\ x.pkt.index = Head /\ x.spent = TRUE
         /\ x.slow = t.slow /\ x.noted = t.noted /\ x.removed = t.removed
         /\ x.refill_enabled = t.refill_enabled
    <2>1. n \in 0 .. MaxFrags
      BY <1>1
    <2>2. PICK h : h = Head
      OBVIOUS
    <2>3. h \in Slots /\ x = WithPkt(t, h, n)
      BY <1>5, <1>22, <2>2
    <2>4. PICK a, b, T : a = 0 - n /\ b = n - n /\ T = held'
      OBVIOUS
    <2>5. Kept(t, a, b, T, lost)
      BY <1>20, <2>4
    <2>6. Kept(x, a, b, T, lost) /\ PktSet(t, x, h, n)
      BY <2>1, <2>3, <2>5, WithPktIs
    <2> QED  BY <2>2, <2>4, <2>6 DEF PktSet
  <1>24. 0 - n = - n /\ n - n = 0 /\ - n \in Int /\ (- n) + n = 0
    BY <1>1, Negated
  <1>25. Kept(x, - x.pkt.n, 0, held', lost)
    BY <1>23, <1>24
  <1>26. Announced(x) = Announced(rx) - n /\ CutShort(x, truncated)
    BY <1>1, <1>17, <1>20, <1>23, TakenCut
  <1>27. Fill(x) = Fill(q) - n /\ Fill(q) \in Nat /\ Fill(rx) <= Fill(q) /\ Fill(q) <= max_fill
    BY <1>9, <1>15, <1>16, <1>19, <1>20, <1>23, KeptRx
  <1>28. Fill(x) <= max_fill /\ Announced(x) <= Fill(x)
    BY <1>1, <1>6, <1>26, <1>27, Sizes
  <1>29. x.pkt.index = At(x, - x.pkt.n)
    <2>1. At(x, - n) = At(t, - n)
      BY <1>23 DEF At
    <2>2. At(t, - n) = At(q, 0)
      BY <1>20, <1>24
    <2>3. At(q, 0) = At(rx, 0)
      BY <1>17 DEF At
    <2> QED  BY <1>5, <1>23, <2>1, <2>2, <2>3
  <1>30. Settled(x)
    BY <1>5, <1>17, <1>20, <1>23, <1>28, <1>29 DEF Settled, PktIs
  <1>31. Staged(x, stage, truncated, lost)
    BY <1>1, <1>17, <1>20, <1>23, <1>28 DEF IInv, Staged
  <1>32. Fed(x, stage, slow_fill, event)
    BY <1>23 DEF Fed
  <1>33. Domains'
    BY <1>2, <1>15 DEF IInv, Domains
  <1> QED  BY <1>2, <1>21, <1>25, <1>26, <1>30, <1>31, <1>32, <1>33 DEF IInv

(* n buffers at the head are posted again and taken, once the packet before *)
(* them was passed on.                                                      *)
LEMMA Discarded ==
    ASSUME IInv, stage # "off", NEW o \in Flush(rx), Given(o), NEW n \in 1 .. MaxFrags, n <= Announced(rx),
           NEW x, x = Taken(RepeatAll(o.rx, Head, n), n)
    PROVE  /\ Kept(x, 0, 0, held', lost) /\ x.pkt = NoPkt
           /\ Announced(rx) <= Fill(rx) /\ Fill(rx) <= Fill(x) /\ Fill(x) <= max_fill
           /\ x.removed = Incr(rx.removed, n) /\ x.noted = rx.noted
           /\ x.spent = rx.spent /\ x.slow = rx.slow /\ x.refill_enabled = rx.refill_enabled
           /\ held' \subseteq Pages \X Parts
  <1>1. PICK q : q = o.rx
    OBVIOUS
  <1>2. PICK T : T = held'
    OBVIOUS
  <1>3. /\ Kept(q, 0, 0, T, lost) /\ Flushed(rx, q)
        /\ Fill(rx) <= Fill(q) /\ Fill(q) <= max_fill /\ T \subseteq Pages \X Parts
    BY <1>1, <1>2, Passed
  <1>4. /\ q.pkt = NoPkt /\ q.noted = rx.noted /\ q.removed = rx.removed
        /\ q.refill_enabled = rx.refill_enabled /\ q.spent = rx.spent /\ q.slow = rx.slow
    BY <1>3 DEF Flushed
  <1>5. Announced(rx) <= Fill(rx) /\ Announced(rx) \in Nat /\ Fill(rx) \in Nat /\ Fill(q) \in Nat
    BY <1>3, KeptRx DEF IInv, Staged
  <1>6. n <= Fill(q) /\ n \in 0 .. MaxFrags /\ n \in Nat
    BY <1>3, <1>5
  <1>7. PICK h : h = At(q, 0)
    OBVIOUS
  <1>8. Head = h
    <2>1. Head = At(rx, 0)
      BY HeadIs DEF IInv
    <2> QED  BY <1>4, <1>7, <2>1 DEF At
  <1>9. PICK r : r = RepeatAll(q, h, n)
    OBVIOUS
  <1>10. \A H, L : Good(q, 0, 0, H, L) => /\ Good(r, n, n, H, L) /\ SameQueue(q, r) /\ Fill(r) = Fill(q) + n
                                          /\ r.slow = q.slow
    BY <1>3, <1>6, <1>7, <1>9, GoodRepeatAll
  <1>11. SameQueue(q, r) /\ Fill(r) = Fill(q) + n /\ r.slow = q.slow
    BY <1>3, <1>10 DEF Kept
  <1>12. Kept(r, n, n, T, lost) /\ n <= n
    BY <1>3, <1>6, <1>10, KeptBy
  <1>13. x = Taken(r, n)
    BY <1>1, <1>8, <1>9
  <1>14. /\ Kept(x, n - n, n - n, T, lost) /\ Fill(x) = Fill(r) - n
         /\ x.removed = Incr(r.removed, n)
         /\ x.noted = r.noted /\ x.pkt = r.pkt /\ x.slow = r.slow /\ x.spent = r.spent
         /\ x.refill_enabled = r.refill_enabled
    BY <1>6, <1>12, <1>13, KeptTaken
  <1>15. n - n = 0 /\ (Fill(q) + n) - n = Fill(q)
    BY <1>5, <1>6
  <1>16. Fill(x) = Fill(q)
    BY <1>11, <1>14, <1>15
  <1>17. Kept(x, 0, 0, T, lost)
    BY <1>14, <1>15
  <1> QED  BY <1>2, <1>3, <1>4, <1>5, <1>11, <1>14, <1>16, <1>17 DEF SameQueue

LEMMA DiscardIInv ==
    ASSUME IInv, NEW n \in 1 .. MaxFrags, Discard(n)
    PROVE  IInv'
  <1>1. stage # "off" /\ n <= Filled /\ n \in Nat /\ n > 0
    BY DEF Discard
  <1>2. UNCHANGED <<slow_fill, event, stage, truncated, lost>>
    BY DEF Discard
  <1>3. PICK o \in Flush(rx) :
           /\ Given(o)
           /\ rx' = WithSpent(Taken(RepeatAll(o.rx, Head, n), n), TRUE)
    BY DEF Discard, WithSpent
  <1>4. PICK t : t = Taken(RepeatAll(o.rx, Head, n), n)
    OBVIOUS
  <1>5. n <= Announced(rx)
    BY <1>1, FilledIs
  <1>6. /\ Kept(t, 0, 0, held', lost) /\ t.pkt = NoPkt
        /\ Announced(rx) <= Fill(rx) /\ Fill(rx) <= Fill(t) /\ Fill(t) <= max_fill
        /\ t.removed = Incr(rx.removed, n) /\ t.noted = rx.noted
        /\ t.slow = rx.slow /\ t.refill_enabled = rx.refill_enabled
        /\ held' \subseteq Pages \X Parts
    BY <1>1, <1>3, <1>4, <1>5, Discarded
  <1>7. PICK x : x = rx'
    OBVIOUS
  <1>8. PICK s : s = TRUE
    OBVIOUS
  <1>9. x = WithSpent(t, s) /\ s \in BOOLEAN
    BY <1>3, <1>4, <1>7, <1>8
  <1>10. PICK T : T = held'
    OBVIOUS
  <1>11. /\ Kept(x, 0, 0, T, lost)
         /\ Fill(x) = Fill(t) /\ x.pkt = t.pkt /\ x.spent = s
         /\ x.slow = t.slow /\ x.noted = t.noted /\ x.removed = t.removed
         /\ x.refill_enabled = t.refill_enabled
    BY <1>6, <1>9, <1>10, WithSpentIs
  <1>12. Announced(x) = Announced(rx) - n /\ CutShort(x, truncated)
    BY <1>1, <1>6, <1>11, TakenCut
  <1>13. Fill(x) <= max_fill /\ Announced(x) <= Fill(x)
    <2>1. Announced(rx) \in Nat /\ Fill(rx) \in Nat /\ Fill(x) \in Nat
      BY <1>11, KeptRx DEF IInv
    <2> QED  BY <1>1, <1>6, <1>11, <1>12, <2>1
  <1>14. Settled(x) /\ - x.pkt.n = 0
    <2>1. rx.slow = FALSE /\ rx.noted % WriteUnit = 0
      BY DEF IInv, Settled
    <2> QED  BY <1>6, <1>11, <1>13, <2>1, NoPktSettled
  <1>15. Kept(x, - x.pkt.n, 0, held', lost)
    BY <1>10, <1>11, <1>14
  <1>16. Staged(x, stage, truncated, lost)
    BY <1>1, <1>6, <1>11, <1>13 DEF IInv, Staged
  <1>17. Fed(x, stage, slow_fill, event)
    BY <1>8, <1>11 DEF Fed
  <1>18. Domains'
    BY <1>2, <1>6 DEF IInv, Domains
  <1> QED  BY <1>2, <1>7, <1>12, <1>14, <1>15, <1>16, <1>17, <1>18 DEF IInv

LEMMA RunDryIInv ==
    ASSUME IInv, NEW n \in 1 .. MaxFrags - 1, RunDry(n)
    PROVE  IInv'
  <1>1. stage # "off" /\ n <= Filled /\ truncated = NoCut /\ n \in Nat
    BY DEF RunDry
  <1>2. UNCHANGED <<rx, held, slow_fill, event, stage, lost>>
    BY DEF RunDry
  <1>3. truncated'.end = rx.noted /\ truncated'.n = n /\ truncated' = [end |-> rx.noted, n |-> n]
    BY DEF RunDry
  <1>4. n <= Announced(rx) /\ rx.noted \in Counts /\ rx.noted % WriteUnit = 0 /\ Announced(rx) \in Nat
    BY <1>1, FilledIs, KeptRx DEF IInv, Settled
  <1>5. CutShort(rx, truncated')
    <2>1. Behind(truncated'.end, rx.removed) = Announced(rx)
      BY <1>3 DEF Announced
    <2>2. n <= Behind(truncated'.end, rx.removed) /\ Behind(truncated'.end, rx.removed) <= Announced(rx)
      BY <1>1, <1>4, <2>1
    <2> QED  BY <1>3, <1>4, <2>2 DEF CutShort
  <1>6. truncated' \in [end : Counts, n : 0 .. MaxFrags - 1]
    BY <1>3, <1>4
  <1>7. Domains'
    BY <1>2, <1>6 DEF IInv, Domains
  <1>8. Staged(rx, stage, truncated', lost)
    BY <1>1 DEF IInv, Staged
  <1> QED  BY <1>2, <1>5, <1>7, <1>8 DEF IInv

(* What was announced after the packet had been cut short comes in whole    *)
(* units.                                                                   *)
LEMMA UnitsAfter ==
    ASSUME NEW c \in Counts, NEW e \in Counts, c % WriteUnit = 0, e % WriteUnit = 0, Behind(c, e) # 0
    PROVE  Behind(c, e) >= WriteUnit
  <1>1. /\ c \in Int /\ e \in Int /\ Behind(c, e) \in Int /\ Behind(c, e) >= 0
        /\ WriteUnit \in Nat /\ WriteUnit # 0 /\ CountSpace \in Nat /\ CountSpace # 0
        /\ CountSpace % WriteUnit = 0
    BY BehindRange, Sizes
  <1>2. (c - e) \in Int
    BY <1>1
  <1>3. Behind(c, e) % WriteUnit = (c - e) % WriteUnit
    BY <1>1, <1>2, ModMod DEF Behind
  <1>4. (c - e) % WriteUnit = (c % WriteUnit) - (e % WriteUnit)
    <2>1. c % WriteUnit >= e % WriteUnit
      OBVIOUS
    <2> QED  BY <1>1, <2>1, ModSub
  <1>5. Behind(c, e) % WriteUnit = 0
    BY <1>3, <1>4
  <1>6. PICK b : b = Behind(c, e)
    OBVIOUS
  <1>7. ASSUME b < WriteUnit  PROVE FALSE
    <2>1. b \in 0 .. WriteUnit - 1
      BY <1>1, <1>6, <1>7
    <2>2. b % WriteUnit = b
      BY <1>1, <2>1, ModSmall
    <2> QED  BY <1>5, <1>6, <2>2
  <1> QED  BY <1>1, <1>6, <1>7

LEMMA AbortIInv ==
    ASSUME IInv, Abort
    PROVE  IInv'
  <1>1. stage # "off" /\ Filled = 0 /\ truncated # NoCut /\ truncated' = NoCut
    BY DEF Abort
  <1>2. UNCHANGED <<slow_fill, event, stage, lost>>
    BY DEF Abort
  <1>3. PICK n : n = truncated.n
    OBVIOUS
  <1>4. PICK o \in Flush(rx) : Given(o) /\ rx' = Taken(RepeatAll(o.rx, Head, n), n)
    BY <1>3 DEF Abort
  <1>5. PICK e : e = truncated.end
    OBVIOUS
  <1>6. /\ n \in 1 .. MaxFrags - 1 /\ e % WriteUnit = 0 /\ e \in Counts
        /\ n <= Behind(e, rx.removed) /\ Behind(e, rx.removed) <= Announced(rx)
    BY <1>1, <1>3, <1>5 DEF IInv, CutShort, Domains
  <1>7. /\ rx.noted \in Counts /\ rx.removed \in Counts /\ Announced(rx) \in Nat /\ Fill(rx) \in Nat
        /\ rx.noted % WriteUnit = 0 /\ rx.slow = FALSE
    BY KeptRx DEF IInv, Settled
  <1>8. Behind(e, rx.removed) = n
    <2>1. Behind(e, rx.removed) - n = 0
      BY <1>1, <1>3, <1>5 DEF Filled
    <2>2. Behind(e, rx.removed) \in Int
      BY <1>6, <1>7, BehindRange
    <2> QED  BY <1>6, <2>1, <2>2
  <1>9. n <= Announced(rx) /\ n \in 1 .. MaxFrags /\ n \in Nat
    BY <1>6, <1>7, <1>8, Sizes
  <1>10. PICK x : x = rx'
    OBVIOUS
  <1>11. PICK T : T = held'
    OBVIOUS
  <1>12. /\ Kept(x, 0, 0, T, lost) /\ x.pkt = NoPkt
         /\ Announced(rx) <= Fill(rx) /\ Fill(rx) <= Fill(x) /\ Fill(x) <= max_fill
         /\ x.removed = Incr(rx.removed, n) /\ x.noted = rx.noted
         /\ x.spent = rx.spent /\ x.slow = rx.slow /\ x.refill_enabled = rx.refill_enabled
         /\ T \subseteq Pages \X Parts
    BY <1>1, <1>4, <1>9, <1>10, <1>11, Discarded
  <1>13. Announced(x) = Announced(rx) - n
    BY <1>7, <1>9, <1>12, TakenBehind
  <1>14. Announced(x) <= Fill(x)
    <2>1. Fill(x) \in Nat
      BY <1>12, KeptRx
    <2> QED  BY <1>7, <1>9, <1>12, <1>13, <2>1
  <1>15. Settled(x) /\ - x.pkt.n = 0
    BY <1>7, <1>12, NoPktSettled
  <1>16. Staged(x, stage, NoCut, lost)
    BY <1>1, <1>12, <1>14 DEF IInv, Staged
  <1>17. Fed(x, stage, slow_fill, event)
    <2> SUFFICES ASSUME stage = "up", x.spent # TRUE, slow_fill # TRUE, event # TRUE
                 PROVE  Announced(x) >= MaxFrags
      BY DEF Fed
    <2>1. Announced(rx) >= MaxFrags
      BY <1>12 DEF IInv, Fed
    <2>2. Behind(rx.noted, e) = Announced(rx) - n
      <3>1. Behind(e, rx.removed) <= Behind(rx.noted, rx.removed)
        BY <1>6 DEF Announced
      <3> QED  BY <1>6, <1>7, <1>8, <3>1, BehindBetween DEF Announced
    <2>3. Announced(rx) - n # 0
      BY <1>6, <1>7, <2>1, Sizes
    <2>4. Behind(rx.noted, e) >= WriteUnit
      BY <1>6, <1>7, <2>2, <2>3, UnitsAfter
    <2>5. Announced(x) >= WriteUnit /\ Announced(x) \in Int
      BY <1>7, <1>9, <1>13, <2>2, <2>4
    <2> QED  BY <2>5, Sizes
  <1>18. Domains'
    <2>1. NoCut \in [end : Counts, n : 0 .. MaxFrags - 1]
      <3>1. 0 \in Counts /\ 0 \in 0 .. MaxFrags - 1
        BY Sizes DEF Counts
      <3> QED  BY <3>1 DEF NoCut
    <2> QED  BY <1>1, <1>2, <1>11, <1>12, <2>1 DEF IInv, Domains
  <1>19. Kept(x, - x.pkt.n, 0, T, lost)
    BY <1>12, <1>15
  <1>20. CutShort(x, NoCut)
    BY DEF CutShort
  <1> QED  BY <1>1, <1>2, <1>10, <1>11, <1>15, <1>16, <1>17, <1>18, <1>19, <1>20 DEF IInv

LEMMA FastPushSlow ==
    ASSUME NEW m, NEW left
    PROVE  [FastPush(m, left) EXCEPT !.slow = FALSE] = WithSlow(FastPush(m, left), FALSE)
BY DEF WithSlow

(* A refill in a step that leaves the rest as it is: m is the queue then,   *)
(* with the packet in the pipeline still there, or not.                     *)
LEMMA RefillIInv ==
    ASSUME IInv, NEW m, NEW left, Refill(m, left), Kept(m, - m.pkt.n, 0, held', lost), PktIs(m),
           m.pkt = NoPkt \/ m.spent = TRUE,
           m.slow = FALSE, Fill(m) <= max_fill, m.noted % WriteUnit = 0, CutShort(m, truncated'),
           m.refill_enabled = TRUE <=> stage' = "up",
           stage' = "off" => /\ Fill(m) = 0 /\ m.spent = FALSE
                             /\ \A k \in Places : m.page_ring[k] = NoPage
                             /\ truncated' = NoCut,
           stage' # "off" => lost = {} /\ Announced(m) <= Fill(m),
           Domains', lost' = lost
    PROVE  IInv'
  <1>1. PICK y : y = FastPush(m, left)
    OBVIOUS
  <1>2. PICK x : x = rx'
    OBVIOUS
  <1>3. PICK f : f = FALSE
    OBVIOUS
  <1>4. x = WithSlow(y, FALSE) /\ slow_fill' = (slow_fill \/ y.slow)
    BY <1>1, <1>2, FastPushSlow DEF Refill
  <1>5. PICK n : n = m.pkt.n
    OBVIOUS
  <1>6. PICK lo : lo = - m.pkt.n
    OBVIOUS
  <1>7. PICK T : T = held'
    OBVIOUS
  <1>8. m \in Rx /\ Fill(m) \in Nat /\ Announced(m) \in Nat
    BY KeptRx
  <1>9. n \in 0 .. MaxFrags
    BY <1>5, <1>8 DEF Rx
  <1>10. lo <= 0 /\ 0 - lo <= MaxFrags
    <2>1. lo = 0 - n
      BY <1>5, <1>6, <1>9, Negated
    <2> QED  BY <1>9, <2>1, Sizes
  <1>11. Kept(m, lo, 0, T, lost)
    BY <1>6, <1>7
  <1>12. m.refill_enabled = TRUE => Pushable(m)
    BY DEF Pushable
  <1>13. /\ Kept(x, lo, 0, T, lost) /\ x.slow = FALSE /\ y.slow \in BOOLEAN
         /\ x.removed = m.removed /\ x.pkt = m.pkt /\ x.spent = m.spent
         /\ x.refill_enabled = m.refill_enabled
         /\ Fill(m) <= Fill(x) /\ Fill(x) <= max_fill
         /\ m.refill_enabled = TRUE =>
               /\ x.noted % WriteUnit = 0
               /\ Announced(m) <= Announced(x) /\ Announced(x) <= Fill(x)
               /\ y.slow = TRUE \/ Announced(x) >= MaxFrags
         /\ m.refill_enabled = FALSE => x = m
    <2>1. Kept(x, lo, 0, T, lost) /\ PushedOn(m, y, x)
      BY <1>1, <1>4, <1>10, <1>11, <1>12, KeptFastPush
    <2> QED  BY <2>1 DEF PushedOn
  <1>14. m.refill_enabled = TRUE \/ m.refill_enabled = FALSE
    BY <1>8 DEF Rx
  <1>15. x.noted % WriteUnit = 0
    BY <1>13, <1>14
  <1>16. PktIs(x)
    <2>1. \A k : At(x, k) = At(m, k)
      BY <1>13, SameAt
    <2> QED  BY <1>13, <2>1 DEF PktIs
  <1>17. Settled(x)
    BY <1>13, <1>15, <1>16 DEF Settled
  <1>18. Kept(x, - x.pkt.n, 0, T, lost)
    BY <1>6, <1>13
  <1>19. Announced(m) <= Announced(x) /\ Announced(x) \in Nat
    BY <1>8, <1>13, <1>14, KeptRx
  <1>20. CutShort(x, truncated')
    <2> SUFFICES ASSUME truncated' # NoCut  PROVE CutShort(x, truncated')
      BY DEF CutShort
    <2>1. PICK c : c = truncated'
      OBVIOUS
    <2>2. /\ c.n \in 1 .. MaxFrags - 1 /\ c.end % WriteUnit = 0
          /\ c.n <= Behind(c.end, m.removed) /\ Behind(c.end, m.removed) <= Announced(m)
      BY <2>1 DEF CutShort
    <2>3. c.end \in Counts /\ m.removed \in Counts
      BY <1>8, <2>1 DEF Domains, Rx
    <2>4. Behind(c.end, m.removed) \in Int
      BY <2>3, BehindRange
    <2>5. Behind(c.end, m.removed) <= Announced(x)
      BY <1>8, <1>19, <2>2, <2>4
    <2>6. CutShort(x, c)
      BY <1>13, <2>2, <2>5 DEF CutShort
    <2> QED  BY <2>1, <2>6
  <1>21. Staged(x, stage', truncated', lost)
    <2>1. stage' = "off" => x = m
      BY <1>13, <1>14
    <2>2. stage' # "off" => Announced(x) <= Fill(x)
      BY <1>13, <1>14
    <2> QED  BY <1>13, <2>1, <2>2 DEF Staged
  <1>22. Fed(x, stage', slow_fill', event')
    <2> SUFFICES ASSUME stage' = "up"
                 PROVE  slow_fill' = TRUE \/ Announced(x) >= MaxFrags
      BY DEF Fed
    <2>1. m.refill_enabled = TRUE
      OBVIOUS
    <2>2. CASE y.slow = TRUE
      BY <1>4, <2>2
    <2> QED  BY <1>13, <2>1, <2>2
  <1> QED  BY <1>2, <1>7, <1>17, <1>18, <1>20, <1>21, <1>22 DEF IInv

LEMMA EndPollIInv ==
    ASSUME IInv, NEW left, EndPoll(left)
    PROVE  IInv'
  <1>1. PICK o \in Flush(rx) : Given(o) /\ Refill(WithSpent(o.rx, FALSE), left)
    BY DEF EndPoll, WithSpent
  <1>2. UNCHANGED <<event, stage, truncated, lost>> /\ rx.spent
    BY DEF EndPoll
  <1>3. PICK q : q = o.rx
    OBVIOUS
  <1>4. PICK T : T = held'
    OBVIOUS
  <1>5. PICK f : f = FALSE
    OBVIOUS
  <1>6. PICK m : m = WithSpent(q, f)
    OBVIOUS
  <1>7. Refill(m, left)
    BY <1>1, <1>3, <1>5, <1>6
  <1>8. /\ Kept(q, 0, 0, T, lost) /\ Flushed(rx, q)
        /\ Fill(rx) <= Fill(q) /\ Fill(q) <= max_fill /\ T \subseteq Pages \X Parts
    BY <1>1, <1>3, <1>4, Passed
  <1>9. f \in BOOLEAN
    BY <1>5
  <1>10. /\ Kept(m, 0, 0, T, lost)
         /\ Fill(m) = Fill(q) /\ m.pkt = q.pkt /\ m.spent = f
         /\ m.slow = q.slow /\ m.noted = q.noted /\ m.removed = q.removed
         /\ m.refill_enabled = q.refill_enabled
    BY <1>6, <1>8, <1>9, WithSpentIs
  <1>11. /\ m.pkt = NoPkt /\ m.noted = rx.noted /\ m.removed = rx.removed
         /\ m.refill_enabled = rx.refill_enabled /\ m.slow = rx.slow
    BY <1>8, <1>10 DEF Flushed
  <1>12. rx.slow = FALSE /\ rx.noted % WriteUnit = 0
    BY DEF IInv, Settled
  <1>13. Settled(m) /\ - m.pkt.n = 0
    BY <1>8, <1>10, <1>11, <1>12, NoPktSettled
  <1>14. stage # "off"
    BY <1>2 DEF IInv, Staged
  <1>15. Announced(m) = Announced(rx)
    BY <1>11 DEF Announced
  <1>16. lost = {} /\ Announced(m) <= Fill(m)
    <2>1. Announced(rx) <= Fill(rx) /\ Announced(rx) \in Nat /\ Fill(rx) \in Nat /\ Fill(q) \in Nat
      BY <1>8, <1>14, KeptRx DEF IInv, Staged
    <2> QED  BY <1>8, <1>10, <1>14, <1>15, <2>1 DEF IInv, Staged
  <1>17. CutShort(m, truncated')
    BY <1>2, <1>11, <1>15 DEF IInv, CutShort
  <1>18. m.refill_enabled = TRUE <=> stage' = "up"
    BY <1>2, <1>11 DEF IInv, Staged
  <1>19. Kept(m, - m.pkt.n, 0, held', lost)
    BY <1>4, <1>10, <1>13
  <1>20. Domains'
    <2>1. slow_fill' \in BOOLEAN
      BY <1>7 DEF Refill
    <2> QED  BY <1>2, <1>4, <1>8, <2>1 DEF IInv, Domains
  <1>21. PktIs(m) /\ m.slow = FALSE /\ Fill(m) <= max_fill /\ m.noted % WriteUnit = 0
    BY <1>13 DEF Settled
  <1>22. lost' = lost /\ stage' # "off"
    BY <1>2, <1>14
  <1> QED  BY <1>7, <1>11, <1>16, <1>17, <1>18, <1>19, <1>20, <1>21, <1>22, RefillIInv

LEMMA RefillEventIInv ==
    ASSUME IInv, NEW left, RefillEvent(left)
    PROVE  IInv'
  <1>1. UNCHANGED <<held, stage, truncated, lost>> /\ event' = FALSE
    BY DEF RefillEvent
  <1>2. PICK m : m = rx
    OBVIOUS
  <1>3. Refill(m, left)
    BY <1>2 DEF RefillEvent
  <1>4. /\ Kept(m, - m.pkt.n, 0, held', lost) /\ PktIs(m)
        /\ m.pkt = NoPkt \/ m.spent = TRUE
    BY <1>1, <1>2 DEF IInv, Settled
  <1>5. m.slow = FALSE /\ Fill(m) <= max_fill /\ m.noted % WriteUnit = 0 /\ CutShort(m, truncated')
    BY <1>1, <1>2 DEF IInv, Settled
  <1>6. /\ m.refill_enabled = TRUE <=> stage' = "up"
        /\ stage' = "off" => /\ Fill(m) = 0 /\ m.spent = FALSE
                             /\ \A k \in Places : m.page_ring[k] = NoPage
                             /\ truncated' = NoCut
        /\ stage' # "off" => lost = {} /\ Announced(m) <= Fill(m)
    BY <1>1, <1>2 DEF IInv, Staged
  <1>7. Domains'
    <2>1. slow_fill' \in BOOLEAN
      BY <1>3 DEF Refill
    <2> QED  BY <1>1, <2>1 DEF IInv, Domains
  <1> QED  BY <1>1, <1>3, <1>4, <1>5, <1>6, <1>7, RefillIInv

LEMMA SlowFillIInv ==
    ASSUME IInv, SlowFill
    PROVE  IInv'
  <1>1. slow_fill' = FALSE /\ event' = TRUE /\ UNCHANGED <<rx, held, stage, truncated, lost>>
    BY DEF SlowFill
  <1>2. Fed(rx, stage, slow_fill', event')
    BY <1>1 DEF Fed
  <1>3. Domains'
    BY <1>1 DEF IInv, Domains
  <1> QED  BY <1>1, <1>2, <1>3 DEF IInv

LEMMA StopIInv ==
    ASSUME IInv, Stop
    PROVE  IInv'
  <1>1. stage = "up" /\ stage' = "stopping" /\ UNCHANGED <<held, slow_fill, event, truncated, lost>>
    BY DEF Stop
  <1>2. PICK x : x = rx'
    OBVIOUS
  <1>3. x = [rx EXCEPT !.refill_enabled = FALSE]
    BY <1>2 DEF Stop
  <1>4. rx \in Rx
    BY KeptRx DEF IInv
  <1>5. x \in Rx
    BY <1>3, <1>4 DEF Rx
  <1>6. /\ x.buffer = rx.buffer /\ x.added = rx.added /\ x.removed = rx.removed
        /\ x.page_ring = rx.page_ring /\ x.mapped = rx.mapped /\ x.ref = rx.ref
    BY <1>3, <1>4 DEF Rx
  <1>7. x.pkt = rx.pkt /\ x.noted = rx.noted /\ x.spent = rx.spent /\ x.slow = rx.slow /\ x.refill_enabled = FALSE
    BY <1>3, <1>4 DEF Rx
  <1>8. PICK lo : lo = - rx.pkt.n
    OBVIOUS
  <1>9. \A H, L : Good(rx, lo, 0, H, L) => Good(x, lo, 0, H, L)
    BY <1>5, <1>6, GoodSame
  <1>10. Kept(x, - x.pkt.n, 0, held, lost)
    <2>1. Kept(rx, lo, 0, held, lost)
      BY <1>8 DEF IInv
    <2> QED  BY <1>7, <1>8, <1>9, <2>1, KeptBy
  <1>11. Fill(x) = Fill(rx) /\ Announced(x) = Announced(rx) /\ \A k : At(x, k) = At(rx, k)
    BY <1>6, <1>7 DEF Fill, Announced, At
  <1>12. Settled(x)
    BY <1>7, <1>11 DEF IInv, Settled, PktIs
  <1>13. Staged(x, stage', truncated, lost)
    BY <1>1, <1>7, <1>11 DEF IInv, Staged
  <1>14. CutShort(x, truncated)
    BY <1>6, <1>11 DEF IInv, CutShort
  <1>15. Fed(x, stage', slow_fill, event)
    BY <1>1 DEF Fed
  <1>16. Domains'
    BY <1>1 DEF IInv, Domains
  <1> QED  BY <1>1, <1>2, <1>10, <1>12, <1>13, <1>14, <1>15, <1>16 DEF IInv

(* The stack frees a buffer.                                                *)
LEMMA StackFreeIInv ==
    ASSUME IInv, NEW b, StackFree(b)
    PROVE  IInv'
  <1>1. b \in held /\ held' = held \ {b} /\ UNCHANGED <<slow_fill, event, stage, truncated, lost>>
    BY DEF StackFree
  <1>2. PICK x : x = rx'
    OBVIOUS
  <1>3. PICK S : S = held
    OBVIOUS
  <1>4. x = PutPage(rx, b[1])
    BY <1>2 DEF StackFree
  <1>5. rx \in Rx /\ b[1] \in Pages
    BY <1>1, KeptRx DEF IInv, Domains
  <1>6. PICK r : r = [rx.ref EXCEPT ![b[1]] = @ - 1]
    OBVIOUS
  <1>7. r \in [Pages -> Int] /\ rx.mapped \in SUBSET Pages
    BY <1>5, <1>6 DEF Rx
  <1>8. x = WithPages(rx, r, rx.mapped)
    BY <1>4, <1>5, <1>6 DEF PutPage, WithPages, Rx
  <1>9. /\ x \in Rx /\ SameQueue(rx, x) /\ x.added = rx.added /\ x.buffer = rx.buffer
        /\ x.page_ring = rx.page_ring /\ x.mapped = rx.mapped /\ x.ref = r /\ x.slow = rx.slow
    BY <1>5, <1>7, <1>8, RxPages
  <1>10. /\ x.noted = rx.noted /\ x.removed = rx.removed /\ x.pkt = rx.pkt
         /\ x.refill_enabled = rx.refill_enabled /\ x.spent = rx.spent
    BY <1>9 DEF SameQueue
  <1>11. Fill(x) = Fill(rx) /\ Announced(x) = Announced(rx) /\ \A k : At(x, k) = At(rx, k)
    BY <1>9, <1>10 DEF Fill, Announced, At
  <1>12. PICK lo : lo = - rx.pkt.n
    OBVIOUS
  <1>13. Kept(x, lo, 0, S \ {b}, lost)
    <2>1. PICK G, L : /\ Good(rx, lo, 0, S \cup G, L)
                      /\ G \cap S = {}
                      /\ \A c \in G : Switchdev \/ c[1] \in lost
                      /\ L \subseteq lost
      BY <1>3, <1>12 DEF IInv, Kept
    <2>2. PICK H : H = S \cup G
      OBVIOUS
    <2>3. PICK U, K : U = Window(rx, lo, Fill(rx)) /\ K = Window(rx, 0, Fill(rx))
      OBVIOUS
    <2>4. /\ lo \in Int /\ lo <= 0 /\ 0 <= Fill(rx) /\ Fill(rx) - lo <= RingSize /\ 0 \in Int
          /\ Owns(rx, U, K, H, L) /\ Chain(rx, 0)
      BY <2>1, <2>2, <2>3 DEF Good
    <2>5. U \subseteq Slots
      BY <1>5, <2>3, <2>4, WindowSlots, FillRange
    <2>6. Owns(x, U, K, H \ {b}, L)
      BY <1>1, <1>3, <1>5, <1>6, <1>9, <2>2, <2>4, <2>5, OwnsUnhold
    <2>7. Chain(x, 0)
      BY <1>9, <1>11, <2>4 DEF Chain
    <2>8. Window(x, lo, Fill(x)) = U /\ Window(x, 0, Fill(x)) = K
      BY <1>10, <1>11, <2>3, SameAt
    <2>9. Good(x, lo, 0, H \ {b}, L)
      BY <1>9, <1>11, <2>4, <2>6, <2>7, <2>8 DEF Good
    <2>10. H \ {b} = (S \ {b}) \cup G /\ G \cap (S \ {b}) = {}
      BY <1>1, <1>3, <2>1, <2>2
    <2> QED  BY <2>1, <2>9, <2>10 DEF Kept
  <1>14. Settled(x)
    BY <1>9, <1>10, <1>11 DEF IInv, Settled, PktIs
  <1>15. Staged(x, stage, truncated, lost)
    BY <1>9, <1>10, <1>11 DEF IInv, Staged
  <1>16. CutShort(x, truncated)
    BY <1>10, <1>11 DEF IInv, CutShort
  <1>17. Fed(x, stage, slow_fill, event)
    BY <1>10, <1>11 DEF IInv, Fed
  <1>18. Domains'
    BY <1>1 DEF IInv, Domains
  <1>19. Kept(x, - x.pkt.n, 0, held', lost)
    BY <1>1, <1>3, <1>10, <1>12, <1>13
  <1> QED  BY <1>1, <1>2, <1>14, <1>15, <1>16, <1>17, <1>18, <1>19 DEF IInv

LEMMA GoodEmpty ==
    ASSUME NEW m \in Rx, Fill(m) = 0, NEW H, NEW L, Owns(m, {}, {}, H, L)
    PROVE  Good(m, 0, 0, H, L)
  <1>1. PICK z : z = 0
    OBVIOUS
  <1>2. z \in Int /\ z <= Fill(m) /\ Fill(m) - z <= RingSize /\ z <= z /\ Fill(m) = z
    BY <1>1, Sizes
  <1>3. Window(m, z, Fill(m)) = {}
    BY <1>2, WindowEmpty
  <1>4. Chain(m, z)
    BY <1>1, <1>2 DEF Chain
  <1>5. Good(m, z, z, H, L)
    BY <1>2, <1>3, <1>4 DEF Good
  <1> QED  BY <1>1, <1>5

(* A queue that is not filled refers to its pages through the recycle ring  *)
(* only.                                                                    *)
LEMMA EmptyOwns ==
    ASSUME NEW m, NEW lo, NEW kl, NEW H, NEW L, Good(m, lo, kl, H, L), lo = Fill(m), kl = Fill(m)
    PROVE  Owns(m, {}, {}, H, L)
  <1>1. Fill(m) \in Int
    BY FillRange DEF Good
  <1>2. Window(m, Fill(m), Fill(m)) = {}
    BY <1>1, WindowEmpty
  <1> QED  BY <1>2 DEF Good

LEMMA EmptyRx == Empty \in Rx
  <1>3. 0 \in Counts /\ 0 \in Slots /\ 0 \in 0 .. MaxFrags /\ 0 \in 0 .. MaxFrags - 1 /\ 0 \in 0 .. RecycleSize
    BY Sizes, SizesPos DEF Counts, Slots
  <1>4. 1 % (RecycleSize \div PerPage) \in Places
    <2>1. Cardinality(Places) = RecycleSize \div PerPage
      <3>1. (RecycleSize \div PerPage) \in Nat
        <4>1. PICK a, b : a = RecycleSize /\ b = PerPage
          OBVIOUS
        <4>2. a \in Nat /\ b \in Nat /\ b > 0
          BY <4>1, SizesPos
        <4>3. (a \div b) \in Nat
          BY <4>2
        <4> QED  BY <4>1, <4>3
      <3>2. Places = 0 .. (RecycleSize \div PerPage) - 1
        BY DEF Places
      <3>3. PICK d : d = RecycleSize \div PerPage
        OBVIOUS
      <3>4. d \in Nat /\ Places = 0 .. d - 1
        BY <3>1, <3>2, <3>3
      <3>5. Cardinality(0 .. d - 1) = IF 0 > d - 1 THEN 0 ELSE (d - 1) - 0 + 1
        BY <3>4, FS_Interval
      <3> QED  BY <3>3, <3>4, <3>5
    <2> QED  BY <2>1, PlacesAre
  <1>5. Empty \in Rx
    <2>1. NoBuf \in Buffers
      BY BufferMade
    <2> QED  BY <1>3, <1>4, <2>1, NoPktIs DEF Empty, Rx
  <1> QED  BY <1>5

LEMMA InitIInv == Init => IInv
  <1> SUFFICES ASSUME Init  PROVE IInv
    OBVIOUS
  <1>1. /\ rx = Empty /\ held = {} /\ slow_fill = FALSE /\ event = FALSE
        /\ stage = "off" /\ truncated = NoCut /\ lost = {}
    BY DEF Init
  <1>2. PICK m : m = Empty
    OBVIOUS
  <1>3. 0 \in Counts /\ 0 \in 0 .. MaxFrags - 1
    BY Sizes DEF Counts
  <1>5. m \in Rx
    BY <1>2, EmptyRx
  <1>6. /\ m.added = 0 /\ m.noted = 0 /\ m.removed = 0 /\ m.slow = FALSE /\ m.refill_enabled = FALSE
        /\ m.spent = FALSE /\ m.pkt = NoPkt /\ m.mapped = {}
        /\ \A k \in Places : m.page_ring[k] = NoPage
        /\ \A p \in Pages : m.ref[p] = 0
    BY <1>2 DEF Empty
  <1>7. Fill(m) = 0
    BY <1>3, <1>6, BehindRange DEF Fill
  <1>8. Owns(m, {}, {}, {}, {})
    <2>1. Ringed(m) = {} /\ Owned(m, {}) = {}
      BY <1>6 DEF Ringed, Owned
    <2>2. OneKeeper(m, {}, {}, {})
      BY <1>6, <2>1 DEF OneKeeper
    <2>3. Apart(m, {}, {})
      BY DEF Apart
    <2>4. \A p \in Pages : m.ref[p] = RefOf(m, {}, {}, p)
      <3> TAKE p \in Pages
      <3>1. UsesOf(m, {}, p) = {} /\ HeldOf({}, p) = {} /\ p \notin m.mapped
        BY <1>6 DEF UsesOf, HeldOf
      <3>2. Cardinality({}) = 0
        BY FS_EmptySet
      <3> QED  BY <1>6, <3>1, <3>2 DEF RefOf
    <2> QED  BY <2>2, <2>3, <2>4 DEF Owns
  <1>9. Good(m, 0, 0, {}, {})
    BY <1>5, <1>7, <1>8, GoodEmpty
  <1>10. Kept(m, 0, 0, {}, {})
    <2>1. {} \cup {} = {} /\ {} \cap {} = {}
      OBVIOUS
    <2>2. PICK G : G = {}
      OBVIOUS
    <2>3. Good(m, 0, 0, G \cup G, G) /\ G \cap G = G /\ G \subseteq G /\ \A b \in G : Switchdev \/ b[1] \in G
      BY <1>9, <2>1, <2>2
    <2>4. Kept(m, 0, 0, G, G)
      BY <2>2, <2>3 DEF Kept
    <2> QED  BY <2>2, <2>4
  <1>11. Settled(m) /\ - m.pkt.n = 0
    <2>1. PICK w : w = WriteUnit
      OBVIOUS
    <2>2. w \in Nat /\ w > 0
      BY <2>1, Sizes
    <2>3. 0 % w = 0
      BY <2>2
    <2>4. 0 <= max_fill
      BY Sizes
    <2> QED  BY <1>6, <1>7, <2>1, <2>3, <2>4, NoPktSettled
  <1>12. Staged(m, "off", NoCut, {}) /\ CutShort(m, NoCut) /\ Fed(m, "off", FALSE, FALSE)
    BY <1>6, <1>7 DEF Staged, CutShort, Fed
  <1>13. Domains
    <2>1. NoCut \in [end : Counts, n : 0 .. MaxFrags - 1]
      BY <1>3 DEF NoCut
    <2> QED  BY <1>1, <2>1 DEF Domains
  <1> QED  BY <1>1, <1>2, <1>10, <1>11, <1>12, <1>13 DEF IInv

LEMMA StartIInv ==
    ASSUME IInv, NEW left, Start(left)
    PROVE  IInv'
  <1>1. stage = "off" /\ lost = {} /\ stage' = "up" /\ UNCHANGED <<held, event, truncated, lost>>
    BY DEF Start
  <1>2. PICK m : m = [Empty EXCEPT !.ref = rx.ref, !.mapped = rx.mapped, !.buffer = rx.buffer,
                                   !.refill_enabled = TRUE]
    OBVIOUS
  <1>3. Refill(m, left)
    BY <1>2 DEF Start
  <1>4. /\ Fill(rx) = 0 /\ rx.spent = FALSE /\ truncated = NoCut
        /\ \A k \in Places : rx.page_ring[k] = NoPage
    BY <1>1 DEF IInv, Staged
  <1>5. rx \in Rx
    BY KeptRx DEF IInv
  <1>6. PICK e : e = Empty
    OBVIOUS
  <1>7. e \in Rx
    BY <1>6, EmptyRx
  <1>8. m = [e EXCEPT !.ref = rx.ref, !.mapped = rx.mapped, !.buffer = rx.buffer, !.refill_enabled = TRUE]
    BY <1>2, <1>6
  <1>9. rx.ref \in [Pages -> Int] /\ rx.mapped \in SUBSET Pages /\ rx.buffer \in [Slots -> Buffers]
    BY <1>5 DEF Rx
  <1>10. m \in Rx
    BY <1>7, <1>8, <1>9 DEF Rx
  <1>11. /\ m.ref = rx.ref /\ m.mapped = rx.mapped /\ m.buffer = rx.buffer /\ m.refill_enabled = TRUE
         /\ m.added = e.added /\ m.noted = e.noted /\ m.removed = e.removed /\ m.slow = e.slow
         /\ m.spent = e.spent /\ m.pkt = e.pkt /\ m.page_ring = e.page_ring
    BY <1>7, <1>8 DEF Rx
  <1>12. /\ m.added = 0 /\ m.noted = 0 /\ m.removed = 0 /\ m.slow = FALSE /\ m.spent = FALSE /\ m.pkt = NoPkt
         /\ \A k \in Places : m.page_ring[k] = NoPage
    BY <1>6, <1>11 DEF Empty
  <1>13. Fill(m) = 0 /\ Announced(m) = 0
    <2>1. 0 \in Counts
      BY Sizes DEF Counts
    <2> QED  BY <1>12, <2>1, BehindRange DEF Fill, Announced
  <1>14. m.page_ring = rx.page_ring
    <2>1. m.page_ring \in [Places -> Pages \cup {NoPage}] /\ rx.page_ring \in [Places -> Pages \cup {NoPage}]
      BY <1>5, <1>10 DEF Rx
    <2>2. \A k \in Places : m.page_ring[k] = rx.page_ring[k]
      BY <1>4, <1>12
    <2> QED  BY <2>1, <2>2
  <1>15. Kept(m, 0, 0, held, lost)
    <2>1. rx.pkt = NoPkt /\ - rx.pkt.n = 0
      <3>1. Settled(rx)
        BY DEF IInv
      <3>2. rx.pkt = NoPkt
        BY <1>4, <3>1 DEF Settled
      <3> QED  BY <3>1, <3>2, NoPktSettled DEF Settled
    <2>2. Kept(rx, 0, 0, held, lost)
      BY <2>1 DEF IInv
    <2>3. \A H, L : Good(rx, 0, 0, H, L) => Good(m, 0, 0, H, L)
      <3> SUFFICES ASSUME NEW H, NEW L, Good(rx, 0, 0, H, L)  PROVE Good(m, 0, 0, H, L)
        OBVIOUS
      <3>1. Owns(rx, {}, {}, H, L)
        BY <1>4, EmptyOwns
      <3>2. Owns(m, {}, {}, H, L)
        BY <3>1, <1>11, <1>14, OwnsSame
      <3> QED  BY <3>2, <1>10, <1>13, GoodEmpty
    <2> QED  BY <2>2, <2>3, KeptBy
  <1>16. m.noted % WriteUnit = 0 /\ Fill(m) <= max_fill /\ Announced(m) <= Fill(m)
    <2>1. PICK w : w = WriteUnit
      OBVIOUS
    <2>2. w \in Nat /\ w > 0
      BY <2>1, Sizes
    <2>3. 0 % w = 0
      BY <2>2
    <2>4. 0 <= max_fill
      BY Sizes
    <2>5. Announced(m) <= Fill(m)
      BY <1>13
    <2> QED  BY <1>12, <1>13, <2>1, <2>3, <2>4, <2>5
  <1>17. Settled(m) /\ - m.pkt.n = 0
    BY <1>12, <1>16, NoPktSettled
  <1>18. Kept(m, - m.pkt.n, 0, held', lost)
    BY <1>1, <1>15, <1>17
  <1>19. CutShort(m, truncated')
    BY <1>1, <1>4 DEF CutShort
  <1>20. Domains'
    <2>1. slow_fill' \in BOOLEAN
      BY <1>3 DEF Refill
    <2> QED  BY <1>1, <2>1 DEF IInv, Domains
  <1>21. PktIs(m) /\ m.slow = FALSE
    BY <1>17 DEF Settled
  <1>22. (m.refill_enabled = TRUE <=> stage' = "up") /\ stage' # "off" /\ lost = {} /\ lost' = lost
    BY <1>1, <1>11
  <1> QED  BY <1>3, <1>12, <1>16, <1>18, <1>19, <1>20, <1>21, <1>22, RefillIInv

WithoutRing(m, r, s) == [m EXCEPT !.mapped = s, !.ref = r, !.page_ring = [k \in Places |-> NoPage]]

(* efx_fini_rx_recycle_ring                                                 *)
LEMMA FiniRingIs ==
    ASSUME NEW m \in Rx, NEW n, n = FiniRecycleRing(m)
    PROVE  /\ n \in Rx /\ SameQueue(m, n) /\ n.added = m.added /\ n.slow = m.slow
           /\ \A k \in Places : n.page_ring[k] = NoPage
           /\ n.mapped = m.mapped \ Ringed(m)
           /\ n.ref = [p \in Pages |-> IF p \in Ringed(m) THEN m.ref[p] - 1 ELSE m.ref[p]]
  <1>1. PICK r : r = [p \in Pages |-> IF p \in Ringed(m) THEN m.ref[p] - 1 ELSE m.ref[p]]
    OBVIOUS
  <1>2. PICK s : s = m.mapped \ Ringed(m)
    OBVIOUS
  <1>3. r \in [Pages -> Int] /\ s \in SUBSET Pages
    BY <1>1, <1>2 DEF Rx
  <1>4. n = WithoutRing(m, r, s)
    BY <1>1, <1>2 DEF FiniRecycleRing, WithoutRing, Ringed, Rx
  <1>5. PICK e : e = [k \in Places |-> NoPage]
    OBVIOUS
  <1>6. n = [m EXCEPT !.mapped = s, !.ref = r, !.page_ring = e] /\ e \in [Places -> Pages \cup {NoPage}]
    BY <1>4, <1>5 DEF WithoutRing
  <1>7. n \in Rx
    BY <1>3, <1>6 DEF Rx
  <1>8. /\ n.added = m.added /\ n.slow = m.slow /\ n.page_ring = e /\ n.mapped = s /\ n.ref = r
        /\ n.noted = m.noted /\ n.removed = m.removed /\ n.pkt = m.pkt
        /\ n.refill_enabled = m.refill_enabled /\ n.spent = m.spent
    BY <1>6 DEF Rx
  <1>9. \A k \in Places : n.page_ring[k] = NoPage
    BY <1>5, <1>8
  <1> QED  BY <1>1, <1>2, <1>7, <1>8, <1>9 DEF SameQueue

WithRemoved(m, c) == [m EXCEPT !.removed = c]

LEMMA WithRemovedIs ==
    ASSUME NEW m \in Rx, NEW c \in Counts, NEW x, x = WithRemoved(m, c)
    PROVE  /\ x \in Rx /\ x.added = m.added /\ x.removed = c /\ x.pkt = m.pkt /\ x.slow = m.slow
           /\ x.noted = m.noted /\ x.refill_enabled = m.refill_enabled /\ x.spent = m.spent
           /\ x.page_ring = m.page_ring /\ x.mapped = m.mapped /\ x.ref = m.ref
  <1>1. x \in Rx
    BY DEF WithRemoved, Rx
  <1>2. /\ x.added = m.added /\ x.removed = c /\ x.pkt = m.pkt /\ x.slow = m.slow
        /\ x.noted = m.noted /\ x.refill_enabled = m.refill_enabled /\ x.spent = m.spent
    BY DEF WithRemoved, Rx
  <1>3. x.page_ring = m.page_ring /\ x.mapped = m.mapped /\ x.ref = m.ref
    BY DEF WithRemoved, Rx
  <1> QED  BY <1>1, <1>2, <1>3

(* What becomes of a queue whose buffers are freed, or passed over.         *)
Finished(m, x) ==
    /\ x.added = m.added /\ x.removed = m.added /\ x.pkt = m.pkt /\ x.slow = m.slow
    /\ x.noted = m.noted /\ x.refill_enabled = m.refill_enabled /\ x.spent = m.spent
    /\ \A k \in Places : x.page_ring[k] = NoPage
    /\ Fill(x) = 0

LEMMA GoodFinish ==
    ASSUME NEW m \in Rx, NEW o \in Rx, SameQueue(m, o), o.added = m.added, o.slow = m.slow,
           NEW H, NEW L, Owns(o, {}, {}, H, L),
           NEW x, x = WithRemoved(FiniRecycleRing(o), m.added)
    PROVE  Good(x, 0, 0, H, L) /\ Finished(m, x)
  <1>1. PICK n : n = FiniRecycleRing(o)
    OBVIOUS
  <1>2. PICK c : c = m.added
    OBVIOUS
  <1>3. /\ n \in Rx /\ SameQueue(o, n) /\ n.added = o.added /\ n.slow = o.slow
        /\ \A k \in Places : n.page_ring[k] = NoPage
        /\ n.mapped = o.mapped \ Ringed(o)
        /\ n.ref = [p \in Pages |-> IF p \in Ringed(o) THEN o.ref[p] - 1 ELSE o.ref[p]]
    BY <1>1, FiniRingIs
  <1>4. c \in Counts
    BY <1>2 DEF Rx
  <1>5. /\ x \in Rx /\ x.added = n.added /\ x.removed = c /\ x.pkt = n.pkt /\ x.slow = n.slow
        /\ x.noted = n.noted /\ x.refill_enabled = n.refill_enabled /\ x.spent = n.spent
        /\ x.page_ring = n.page_ring /\ x.mapped = n.mapped /\ x.ref = n.ref
    BY <1>1, <1>2, <1>3, <1>4, WithRemovedIs
  <1>6. Fill(x) = 0
    BY <1>2, <1>3, <1>4, <1>5, BehindRange DEF Fill
  <1>7. SameQueue(m, n)
    BY <1>3, SameQueueTrans
  <1>8. Owns(n, {}, {}, H, L)
    BY <1>3, OwnsUnring
  <1>9. Owns(x, {}, {}, H, L)
    BY <1>5, <1>8, OwnsSame
  <1>10. Good(x, 0, 0, H, L)
    BY <1>5, <1>6, <1>9, GoodEmpty
  <1>11. Finished(m, x)
    BY <1>2, <1>3, <1>5, <1>6, <1>7 DEF Finished, SameQueue
  <1> QED  BY <1>10, <1>11

(* The queue is finished: with the loop over its buffers, or, when          *)
(* added_count has wrapped around, without.                                 *)
LEMMA FiniKept ==
    ASSUME NEW m, NEW S, NEW P, Kept(m, 0, 0, S, P), P = {}, NEW wrapped \in BOOLEAN, NEW i, i = At(m, 0),
           NEW n, n = IF wrapped THEN 0 ELSE Fill(m),
           NEW x, x = WithRemoved(FiniRecycleRing(FiniBuffers(m, i, n)), m.added),
           NEW Q, Q = IF wrapped THEN P \cup {m.buffer[j].page : j \in Posted(m)} ELSE P
    PROVE  Kept(x, 0, 0, S, Q) /\ Finished(m, x)
  <1>1. PICK G, L : /\ Good(m, 0, 0, S \cup G, L)
                    /\ G \cap S = {}
                    /\ \A b \in G : Switchdev \/ b[1] \in P
                    /\ L = {}
    BY DEF Kept
  <1>2. PICK H : H = S \cup G
    OBVIOUS
  <1>3. Good(m, 0, 0, H, L) /\ m \in Rx /\ Fill(m) \in Nat
    BY <1>1, <1>2, KeptRx
  <1>4. PICK o : o = FiniBuffers(m, i, n)
    OBVIOUS
  <1>5. x = WithRemoved(FiniRecycleRing(o), m.added)
    BY <1>4
  <1>6. CASE ~wrapped
    <2>1. n = Fill(m) /\ Q = P
      BY <1>6
    <2>2. Good(o, Fill(m), Fill(m), H, L) /\ SameQueue(m, o) /\ Fill(o) = Fill(m) /\ o.slow = m.slow /\ o.added = m.added
      BY <1>3, <1>4, <2>1, GoodFiniAll
    <2>3. Owns(o, {}, {}, H, L) /\ o \in Rx
      BY <2>2, EmptyOwns DEF Good
    <2>4. Good(x, 0, 0, H, L) /\ Finished(m, x)
      BY <1>3, <1>5, <2>2, <2>3, GoodFinish
    <2> QED  BY <1>1, <1>2, <2>1, <2>4 DEF Kept
  <1>7. CASE wrapped
    <2>1. n = 0 /\ Q = P \cup {m.buffer[j].page : j \in Posted(m)}
      BY <1>7
    <2>2. o = m
      <3>1. 0 \in Nat
        OBVIOUS
      <3>2. PICK g : g[0] = m /\ g[n] = FiniBuffers(m, i, n)
        BY <2>1, <3>1, FiniBuffersIs
      <3> QED  BY <1>4, <2>1, <3>2
    <2>3. PICK U : U = Window(m, 0, Fill(m))
      OBVIOUS
    <2>4. Posted(m) = U /\ U \subseteq Slots
      BY <1>3, <2>3, PostedIs, WindowSlots
    <2>5. Owns(m, U, U, H, {})
      BY <1>1, <1>3, <2>3 DEF Good
    <2>6. PICK F : F = {PlaceOf(m, j) : j \in U}
      OBVIOUS
    <2>7. Owns(m, {}, {}, H \cup F, Owned(m, U))
      BY <1>3, <2>4, <2>5, <2>6, OwnsLost
    <2>8. SameQueue(m, m)
      BY DEF SameQueue
    <2>9. Good(x, 0, 0, H \cup F, Owned(m, U)) /\ Finished(m, x)
      BY <1>3, <1>5, <2>2, <2>7, <2>8, GoodFinish
    <2>10. H \cup F = S \cup (G \cup F)
      BY <1>2
    <2>11. (G \cup F) \cap S = {}
      <3>1. F \cap H = {}
        BY <2>5, <2>6 DEF Owns, Apart
      <3> QED  BY <1>1, <1>2, <3>1
    <2>12. \A b \in G \cup F : Switchdev \/ b[1] \in Q
      <3>1. \A b \in F : b[1] \in Q
        BY <2>1, <2>4, <2>6 DEF PlaceOf
      <3> QED  BY <1>1, <3>1
    <2>13. Owned(m, U) \subseteq Q
      BY <2>1, <2>4 DEF Owned
    <2> QED  BY <2>9, <2>10, <2>11, <2>12, <2>13 DEF Kept
  <1> QED  BY <1>6, <1>7

LEMMA FiniIInv ==
    ASSUME IInv, Fini
    PROVE  IInv'
  <1>1. PICK w : w = (rx.added < rx.removed)
    OBVIOUS
  <1>2. PICK n : n = IF w THEN 0 ELSE Fill(rx)
    OBVIOUS
  <1>3. PICK x : x = rx'
    OBVIOUS
  <1>4. PICK Q : Q = lost'
    OBVIOUS
  <1>5. /\ stage = "stopping" /\ ~rx.spent /\ stage' = "off" /\ slow_fill' = FALSE
        /\ truncated' = NoCut /\ held' = held /\ event' = event
    BY DEF Fini
  <1>6. x = WithRemoved(FiniRecycleRing(FiniBuffers(rx, Head, n)), rx.added)
    BY <1>1, <1>2, <1>3 DEF Fini, FiniBuffers, WithRemoved
  <1>7. Q = IF w THEN lost \cup {rx.buffer[i].page : i \in Posted(rx)} ELSE lost
    BY <1>1, <1>4 DEF Fini
  <1>8. w \in BOOLEAN
    BY <1>1
  <1>9. lost = {} /\ rx.refill_enabled # TRUE
    BY <1>5 DEF IInv, Staged
  <1>10. rx.pkt = NoPkt /\ rx.slow = FALSE /\ rx.noted % WriteUnit = 0 /\ - rx.pkt.n = 0 /\ rx \in Rx
    <2>1. rx \in Rx
      BY KeptRx DEF IInv
    <2>2. rx.pkt = NoPkt
      BY <1>5 DEF IInv, Settled
    <2>3. Settled(rx)
      BY DEF IInv
    <2> QED  BY <2>1, <2>2, <2>3, NoPktSettled DEF Settled
  <1>11. PICK S : S = held
    OBVIOUS
  <1>12. Kept(rx, 0, 0, S, lost)
    BY <1>10, <1>11 DEF IInv
  <1>13. Head = At(rx, 0)
    BY HeadIs DEF IInv
  <1>14. Kept(x, 0, 0, S, Q) /\ Finished(rx, x)
    BY <1>2, <1>6, <1>7, <1>8, <1>9, <1>12, <1>13, FiniKept
  <1>15. /\ x.pkt = NoPkt /\ x.slow = FALSE /\ x.noted % WriteUnit = 0
         /\ x.refill_enabled = rx.refill_enabled /\ x.spent = rx.spent
         /\ \A k \in Places : x.page_ring[k] = NoPage
         /\ Fill(x) = 0
    BY <1>10, <1>14 DEF Finished
  <1>16. Settled(x) /\ - x.pkt.n = 0
    <2>1. Fill(x) <= max_fill
      BY <1>15, Sizes
    <2> QED  BY <1>15, <2>1, NoPktSettled
  <1>17. Staged(x, stage', truncated', Q)
    <2>1. x.spent = FALSE
      BY <1>5, <1>10, <1>15 DEF Rx
    <2> QED  BY <1>5, <1>9, <1>15, <2>1 DEF Staged
  <1>18. CutShort(x, truncated') /\ Fed(x, stage', slow_fill', event')
    BY <1>5 DEF CutShort, Fed
  <1>19. Domains'
    <2>1. NoCut \in [end : Counts, n : 0 .. MaxFrags - 1]
      <3>1. 0 \in Counts /\ 0 \in 0 .. MaxFrags - 1
        BY Sizes DEF Counts
      <3> QED  BY <3>1 DEF NoCut
    <2>2. Q \subseteq Pages
      <3>1. \A i \in Posted(rx) : rx.buffer[i].page \in Pages
        <4>1. PICK G, L : Good(rx, 0, 0, S \cup G, L)
          BY <1>12 DEF Kept
        <4>2. Posted(rx) = Window(rx, 0, Fill(rx))
          BY <1>10, PostedIs
        <4> QED  BY <4>1, <4>2 DEF Good, Owns, Apart
      <3> QED  BY <1>7, <1>9, <3>1
    <2> QED  BY <1>4, <1>5, <2>1, <2>2 DEF IInv, Domains
  <1>20. Kept(x, - x.pkt.n, 0, S, Q)
    BY <1>14, <1>16
  <1> QED  BY <1>3, <1>4, <1>5, <1>11, <1>16, <1>17, <1>18, <1>19, <1>20 DEF IInv

---------------------------------------------------------------------------
(* The theorems                                                             *)

LEMMA NextIInv == IInv /\ [Next]_vars => IInv'
  <1> SUFFICES ASSUME IInv, [Next]_vars  PROVE IInv'
    OBVIOUS
  <1>1. ASSUME NEW n \in 1 .. MaxFrags, Receive(n)  PROVE IInv'
    BY <1>1, ReceiveIInv
  <1>2. ASSUME NEW n \in 1 .. MaxFrags, Discard(n)  PROVE IInv'
    BY <1>2, DiscardIInv
  <1>3. ASSUME NEW n \in 1 .. MaxFrags - 1, RunDry(n)  PROVE IInv'
    BY <1>3, RunDryIInv
  <1>4. CASE Abort
    BY <1>4, AbortIInv
  <1>5. ASSUME NEW left \in Allocations, EndPoll(left)  PROVE IInv'
    BY <1>5, EndPollIInv
  <1>6. ASSUME NEW left \in Allocations, RefillEvent(left)  PROVE IInv'
    BY <1>6, RefillEventIInv
  <1>7. ASSUME NEW left \in Allocations, Start(left)  PROVE IInv'
    BY <1>7, StartIInv
  <1>8. CASE SlowFill
    BY <1>8, SlowFillIInv
  <1>9. ASSUME NEW b \in held, StackFree(b)  PROVE IInv'
    BY <1>9, StackFreeIInv
  <1>10. CASE Stop
    BY <1>10, StopIInv
  <1>11. CASE Fini
    BY <1>11, FiniIInv
  <1>12. CASE UNCHANGED vars
    BY <1>12 DEF IInv, Domains, vars
  <1> QED  BY <1>1, <1>2, <1>3, <1>4, <1>5, <1>6, <1>7, <1>8, <1>9, <1>10, <1>11, <1>12 DEF Next, PollStep

(* At every moment the references and the mapping of each page are those of *)
(* its users and its keeper, and a queue that is up has enough buffers      *)
(* announced, or is still to be refilled.                                   *)
THEOREM Invariant == Spec => []IInv
  <1>1. Init => IInv
    BY InitIInv
  <1>2. IInv /\ [Next]_vars => IInv'
    BY NextIInv
  <1> QED  BY <1>1, <1>2, PTL DEF Spec

(* What the invariant says of the buffers in use: those of the packet in    *)
(* the pipeline and the posted ones.                                        *)
InPlace(U, G, L) ==
    /\ InUse = U /\ U \subseteq Slots /\ IsFiniteSet(U)
    /\ Window(rx, 0, Fill(rx)) \subseteq U
    /\ Posted(rx) = Window(rx, 0, Fill(rx))
    /\ rx \in Rx
    /\ Owns(rx, U, Window(rx, 0, Fill(rx)), held \cup G, L)
    /\ Chain(rx, 0)
    /\ G \cap held = {}
    /\ \A b \in G : Switchdev \/ b[1] \in lost
    /\ L \subseteq lost

LEMMA AllInPlace ==
    ASSUME IInv
    PROVE  \E U, G, L : InPlace(U, G, L)
  <1>1. PICK n : n = rx.pkt.n
    OBVIOUS
  <1>2. PICK lo : lo = - rx.pkt.n
    OBVIOUS
  <1>3. Kept(rx, lo, 0, held, lost) /\ rx \in Rx /\ PktIs(rx)
    BY <1>2, KeptRx DEF IInv, Settled
  <1>4. PICK G, L : /\ Good(rx, lo, 0, held \cup G, L)
                    /\ G \cap held = {}
                    /\ \A b \in G : Switchdev \/ b[1] \in lost
                    /\ L \subseteq lost
    BY <1>3 DEF Kept
  <1>5. PICK U : U = Window(rx, lo, Fill(rx))
    OBVIOUS
  <1>6. n \in Nat /\ lo = 0 - n /\ lo \in Int /\ lo <= 0 /\ 0 <= Fill(rx) /\ Fill(rx) \in Int
    <2>1. n \in Nat
      BY <1>1, <1>3, Sizes DEF Rx
    <2>2. lo = 0 - n
      BY <1>1, <1>2, <2>1, Negated
    <2> QED  BY <1>3, <2>1, <2>2, FillRange
  <1>7. Posted(rx) = Window(rx, 0, Fill(rx))
    BY <1>3, PostedIs
  <1>8. PktSlots(rx.pkt.index, rx.pkt.n) = Window(rx, lo, 0)
    <2>1. CASE rx.pkt = NoPkt
      <3>1. n = 0 /\ lo = 0
        BY <1>1, <1>6, <2>1, NoPktIs
      <3>2. Window(rx, lo, 0) = {}
        BY <3>1, WindowEmpty
      <3>3. PktSlots(rx.pkt.index, n) = {}
        <4>1. 0 .. n - 1 = {}
          BY <3>1
        <4> QED  BY <4>1 DEF PktSlots
      <3> QED  BY <1>1, <3>2, <3>3
    <2>2. CASE rx.pkt.index = At(rx, - rx.pkt.n)
      <3>1. rx.pkt.index = At(rx, lo)
        BY <1>2, <2>2
      <3>2. PktSlots(At(rx, lo), n) = Window(rx, lo, lo + n)
        BY <1>3, <1>6, PktSlotsAre
      <3>3. lo + n = 0
        BY <1>6
      <3> QED  BY <1>1, <3>1, <3>2, <3>3
    <2> QED  BY <1>3, <2>1, <2>2 DEF PktIs
  <1>9. U = Window(rx, lo, 0) \cup Window(rx, 0, Fill(rx))
    BY <1>5, <1>6, WindowJoin
  <1>10. InUse = U
    BY <1>7, <1>8, <1>9 DEF InUse
  <1>11. U \subseteq Slots /\ IsFiniteSet(U)
    BY <1>3, <1>5, <1>6, WindowSlots
  <1>12. Owns(rx, U, Window(rx, 0, Fill(rx)), held \cup G, L) /\ Chain(rx, 0)
    BY <1>4, <1>5 DEF Good
  <1> QED  BY <1>3, <1>4, <1>7, <1>9, <1>10, <1>11, <1>12 DEF InPlace

LEMMA TypeOKFrom == IInv => TypeOK
  <1> SUFFICES ASSUME IInv  PROVE TypeOK
    OBVIOUS
  <1>1. PICK U, G, L : InPlace(U, G, L)
    BY AllInPlace
  <1>2. /\ rx \in Rx /\ IsFiniteSet(U) /\ U \subseteq Slots
        /\ Apart(rx, U, held \cup G)
        /\ \A p \in Pages : rx.ref[p] = RefOf(rx, U, held \cup G, p)
    BY <1>1 DEF InPlace, Owns
  <1>3. \A p \in Pages : rx.ref[p] \in 0 .. PerPage + 1
    <2> TAKE p \in Pages
    <2>1. PICK u : u = Cardinality(UsesOf(rx, U, p))
      OBVIOUS
    <2>2. PICK h : h = Cardinality(HeldOf(held \cup G, p))
      OBVIOUS
    <2>3. u + h <= PerPage
      BY <1>2, <2>1, <2>2, UsesBound
    <2>4. u \in Nat
      BY <1>2, <2>1, UsesFinite
    <2>5. h \in Nat
      BY <1>2, <2>2, HeldFinite DEF Apart
    <2>6. rx.ref[p] = u + h + (IF p \in rx.mapped THEN 1 ELSE 0)
      BY <1>2, <2>1, <2>2 DEF RefOf
    <2> QED  BY <2>3, <2>4, <2>5, <2>6, Sizes
  <1>4. rx.ref \in [Pages -> 0 .. PerPage + 1]
    <2>1. rx.ref \in [Pages -> Int]
      BY <1>2 DEF Rx
    <2> QED  BY <1>3, <2>1
  <1>5. rx \in [ buffer : [Slots -> Buffers],
                 added : Counts, noted : Counts, removed : Counts,
                 page_ring : [Places -> Pages \cup {NoPage}],
                 page_add : 0 .. RecycleSize,
                 page_remove : Places,
                 refill_enabled : BOOLEAN,
                 pkt : [index : Slots, n : 0 .. MaxFrags],
                 spent : BOOLEAN,
                 slow : BOOLEAN,
                 ref : [Pages -> 0 .. PerPage + 1],
                 mapped : SUBSET Pages ]
    BY <1>2, <1>4 DEF Rx
  <1> QED  BY <1>5 DEF IInv, Domains, TypeOK

LEMMA ExclusiveFrom == IInv => Exclusive
  <1> SUFFICES ASSUME IInv  PROVE Exclusive
    OBVIOUS
  <1>1. PICK U, G, L : InPlace(U, G, L)
    BY AllInPlace
  <1>2. InUse = U /\ Apart(rx, U, held \cup G)
    BY <1>1 DEF InPlace, Owns
  <1> QED  BY <1>2 DEF Exclusive, Apart, PlaceOf

LEMMA PostedMappedFrom == IInv => PostedMapped
  <1> SUFFICES ASSUME IInv, NEW i \in Posted(rx), ~rx.buffer[i].again
               PROVE  rx.buffer[i].page \in rx.mapped
    BY DEF PostedMapped
  <1>1. PICK U, G, L : InPlace(U, G, L)
    BY AllInPlace
  <1>2. PICK K : K = Window(rx, 0, Fill(rx))
    OBVIOUS
  <1>3. /\ Posted(rx) = K /\ K \subseteq U /\ OneKeeper(rx, U, K, L) /\ Chain(rx, 0) /\ rx \in Rx
        /\ U \subseteq Slots /\ Apart(rx, U, held \cup G)
    BY <1>1, <1>2 DEF InPlace, Owns
  <1>4. CASE rx.buffer[i].ring
    BY <1>3, <1>4 DEF OneKeeper
  <1>5. CASE ~rx.buffer[i].ring
    <2>1. PICK k \in 0 .. Fill(rx) - 1 : i = At(rx, k)
      BY <1>2, <1>3 DEF Window
    <2>2. PICK last : last = k + (PerPage - 1 - rx.buffer[i].part)
      OBVIOUS
    <2>3. /\ last < Fill(rx) /\ rx.buffer[At(rx, last)].page = rx.buffer[i].page
          /\ Recyclable(rx.buffer[At(rx, last)])
      BY <1>3, <1>5, <2>1, <2>2 DEF Chain
    <2>4. rx.buffer[i].part \in Parts
      <3>1. rx.buffer[i] \in Buffers /\ rx.buffer[i].page \in Pages
        BY <1>3 DEF Apart, Rx
      <3> QED  BY <3>1, BuffersAre
    <2>5. last \in 0 .. Fill(rx) - 1
      <3>1. PICK part : part = rx.buffer[i].part
        OBVIOUS
      <3>2. part \in Int /\ part <= PerPage - 1
        BY <2>4, <3>1, Sizes DEF Parts
      <3>3. Fill(rx) \in Nat
        BY <1>3, FillRange
      <3>4. PerPage \in Int
        BY Sizes
      <3> QED  BY <2>1, <2>2, <2>3, <3>1, <3>2, <3>3, <3>4
    <2>6. At(rx, last) \in K
      BY <1>2, <2>5 DEF Window
    <2>7. rx.buffer[i].page \in Owned(rx, K)
      BY <2>3, <2>6 DEF Owned
    <2> QED  BY <1>3, <2>7 DEF OneKeeper
  <1> QED  BY <1>4, <1>5

LEMMA RefillDueFrom == IInv => RefillDue
  <1> SUFFICES ASSUME IInv, stage = "up", rx.noted = rx.removed
               PROVE  rx.spent \/ slow_fill \/ event
    BY DEF RefillDue, Starved
  <1>1. rx.removed \in Counts
    BY KeptRx DEF IInv
  <1>2. Announced(rx) = 0
    BY <1>1, BehindRange DEF Announced
  <1>3. ~(Announced(rx) >= MaxFrags)
    BY <1>2, Sizes
  <1> QED  BY <1>3 DEF IInv, Fed

(* The keeper of a page is in the recycle ring or posted.                   *)
LEMMA KeeperIs ==
    ASSUME NEW K, K = Posted(rx), NEW p \in Pages
    PROVE  Keeper(p) <=> p \in Ringed(rx) \cup Owned(rx, K)
  <1>1. p # NoPage
    BY PagesFacts
  <1>2. (\E k \in Places : rx.page_ring[k] = p) <=> p \in Ringed(rx)
    BY <1>1 DEF Ringed
  <1>3. (\E i \in Posted(rx) : rx.buffer[i].page = p /\ rx.buffer[i].last /\ ~rx.buffer[i].ring) <=> p \in Owned(rx, K)
    BY DEF Owned, Recyclable
  <1> QED  BY <1>2, <1>3 DEF Keeper

(* No page is freed or unmapped early: it is mapped as long as it has a     *)
(* keeper and has at least the references of those who use it.              *)
RefsSuffice ==
    \A p \in Pages \ lost :
        /\ p \in rx.mapped <=> Keeper(p)
        /\ rx.ref[p] >= Cardinality({i \in InUse : rx.buffer[i].page = p})
                        + Cardinality({b \in held : b[1] = p})
                        + (IF Keeper(p) THEN 1 ELSE 0)

(* The account of one page, of which leaked buffers are never freed.        *)
LEMMA Account ==
    ASSUME NEW U, NEW G, NEW L, InPlace(U, G, L), NEW p \in Pages, p \notin lost
    PROVE  /\ p \in rx.mapped <=> Keeper(p)
           /\ rx.ref[p] = Cardinality({i \in InUse : rx.buffer[i].page = p})
                          + Cardinality({b \in held \cup G : b[1] = p})
                          + (IF Keeper(p) THEN 1 ELSE 0)
           /\ Cardinality({i \in InUse : rx.buffer[i].page = p}) \in Nat
           /\ IsFiniteSet({b \in held \cup G : b[1] = p})
           /\ Cardinality({b \in held \cup G : b[1] = p}) \in Nat
  <1>1. PICK K : K = Posted(rx)
    OBVIOUS
  <1>2. /\ InUse = U /\ IsFiniteSet(U) /\ OneKeeper(rx, U, K, L) /\ L \subseteq lost
        /\ Apart(rx, U, held \cup G) /\ rx.ref[p] = RefOf(rx, U, held \cup G, p)
    BY <1>1 DEF InPlace, Owns
  <1>3. p \in rx.mapped <=> Keeper(p)
    <2>1. rx.mapped = Ringed(rx) \cup Owned(rx, K) \cup L
      BY <1>2 DEF OneKeeper
    <2> QED  BY <1>1, <1>2, <2>1, KeeperIs
  <1>4. {i \in InUse : rx.buffer[i].page = p} = UsesOf(rx, U, p) /\ {b \in held \cup G : b[1] = p} = HeldOf(held \cup G, p)
    BY <1>2 DEF UsesOf, HeldOf
  <1>5. Cardinality(UsesOf(rx, U, p)) \in Nat
    BY <1>2, UsesFinite
  <1>6. IsFiniteSet(HeldOf(held \cup G, p)) /\ Cardinality(HeldOf(held \cup G, p)) \in Nat
    BY <1>2, HeldFinite DEF Apart
  <1>7. rx.ref[p] = Cardinality(UsesOf(rx, U, p)) + Cardinality(HeldOf(held \cup G, p)) + (IF Keeper(p) THEN 1 ELSE 0)
    BY <1>2, <1>3 DEF RefOf
  <1> QED  BY <1>3, <1>4, <1>5, <1>6, <1>7

LEMMA RefsSufficeFrom == IInv => RefsSuffice
  <1> SUFFICES ASSUME IInv, NEW p \in Pages, p \notin lost
               PROVE  /\ p \in rx.mapped <=> Keeper(p)
                      /\ rx.ref[p] >= Cardinality({i \in InUse : rx.buffer[i].page = p})
                                      + Cardinality({b \in held : b[1] = p})
                                      + (IF Keeper(p) THEN 1 ELSE 0)
    BY DEF RefsSuffice
  <1>1. PICK U, G, L : InPlace(U, G, L)
    BY AllInPlace
  <1>2. PICK A, B : A = {b \in held : b[1] = p} /\ B = {b \in held \cup G : b[1] = p}
    OBVIOUS
  <1>3. PICK u : u = Cardinality({i \in InUse : rx.buffer[i].page = p})
    OBVIOUS
  <1>4. PICK one : one = IF Keeper(p) THEN 1 ELSE 0
    OBVIOUS
  <1>5. /\ p \in rx.mapped <=> Keeper(p)
        /\ rx.ref[p] = u + Cardinality(B) + one
        /\ u \in Nat /\ IsFiniteSet(B) /\ Cardinality(B) \in Nat
    BY <1>1, <1>2, <1>3, <1>4, Account
  <1>6. A \subseteq B
    BY <1>2
  <1>7. Cardinality(A) \in Nat /\ Cardinality(A) <= Cardinality(B)
    BY <1>5, <1>6, FS_Subset, FS_CardinalityType
  <1>8. one \in Nat
    BY <1>4
  <1>9. rx.ref[p] >= u + Cardinality(A) + one
    BY <1>5, <1>7, <1>8
  <1> QED  BY <1>2, <1>3, <1>4, <1>5, <1>9

LEMMA RefsExactFrom ==
    ASSUME ~Switchdev
    PROVE  IInv => RefsExact
  <1> SUFFICES ASSUME IInv, NEW p \in Pages, p \notin lost
               PROVE  /\ p \in rx.mapped <=> Keeper(p)
                      /\ rx.ref[p] = Cardinality({i \in InUse : rx.buffer[i].page = p})
                                     + Cardinality({b \in held : b[1] = p})
                                     + (IF Keeper(p) THEN 1 ELSE 0)
    BY DEF RefsExact
  <1>1. PICK U, G, L : InPlace(U, G, L)
    BY AllInPlace
  <1>2. \A b \in G : b[1] # p
    BY <1>1 DEF InPlace
  <1>3. {b \in held \cup G : b[1] = p} = {b \in held : b[1] = p}
    BY <1>2
  <1> QED  BY <1>1, <1>3, Account

(* Every variable stays in its domain: no reference count goes below zero   *)
(* or beyond one for each buffer of the page and one for its keeper.        *)
THEOREM TypeCorrect == Spec => []TypeOK
BY Invariant, TypeOKFrom, PTL

(* No two buffers that are posted or in the pipeline are the same memory,   *)
(* and none of them is in the hands of the stack, however pages are         *)
(* recycled and reposted.                                                   *)
THEOREM Exclusively == Spec => []Exclusive
BY Invariant, ExclusiveFrom, PTL

(* The NIC has no posted buffer of an unmapped page, but those that were    *)
(* posted again on discard.                                                 *)
THEOREM PostedAreMapped == Spec => []PostedMapped
BY Invariant, PostedMappedFrom, PTL

(* When the queue is up and the NIC has no buffers left, the poll is yet to *)
(* end, or the delayed work or its event is on the way.                     *)
THEOREM RefillComes == Spec => []RefillDue
BY Invariant, RefillDueFrom, PTL

(* Of no page is a reference or the mapping given up too early, in          *)
(* switchdev mode either.                                                   *)
THEOREM NeverFreedEarly == Spec => []RefsSuffice
BY Invariant, RefsSufficeFrom, PTL

(* Outside switchdev mode, in which the further buffers of a dropped packet *)
(* are leaked, a page has exactly the references of its users and its       *)
(* keeper: none is leaked, over any number of stops and starts.             *)
THEOREM RefsCounted ==
    ASSUME ~Switchdev
    PROVE  Spec => []RefsExact
  <1>1. IInv => RefsExact
    BY RefsExactFrom
  <1> QED  BY Invariant, <1>1, PTL

=============================================================================
