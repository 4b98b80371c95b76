-------------------------- MODULE TxQueueProofs --------------------------
(***************************************************************************)
(* Proofs about TxQueue: the counters of a ring stay within the ring       *)
(* however they wrap, and the software ring, the DMA mappings and the NIC  *)
(* agree, as long as the queue of the stack was only woken at a fill level *)
(* that allows it.                                                         *)
(*                                                                         *)
(* The counters are taken modulo CountSpace and the places in a ring       *)
(* modulo Entries.  The first part is the arithmetic of remainders the     *)
(* rest needs; the second says what happens to one ring, as facts about    *)
(* constants; the third lifts them to the steps of the specification; the  *)
(* fourth follows what was inserted, written and announced to the NIC.     *)
(***************************************************************************)
EXTENDS TxQueue, FiniteSetTheorems, TLAPS

---------------------------------------------------------------------------
(* Remainders                                                               *)

LEMMA ModIs ==
    ASSUME NEW n \in Nat, n # 0, NEW r \in 0 .. n - 1, NEW k \in Int
    PROVE  (k * n + r) % n = r
OBVIOUS

LEMMA ModSmall ==
    ASSUME NEW n \in Nat, n # 0, NEW a \in 0 .. n - 1
    PROVE  a % n = a
OBVIOUS

LEMMA ModDef ==
    ASSUME NEW n \in Nat, n # 0, NEW a \in Int
    PROVE  /\ a % n \in 0 .. n - 1
           /\ \E k \in Int : a = k * n + (a % n)
  <1>1. a = (a \div n) * n + (a % n) /\ (a % n) \in 0 .. n - 1 /\ a \div n \in Int
    OBVIOUS
  <1> QED  BY <1>1

(* Multiples of the modulus do not count.                                   *)
LEMMA ModSame ==
    ASSUME NEW n \in Nat, n # 0, NEW a \in Int, NEW k \in Int
    PROVE  (a + k * n) % n = a % n
  <1> DEFINE r == a % n
  <1>1. r \in 0 .. n - 1
    BY ModDef
  <1>2. PICK j \in Int : a = j * n + r
    BY ModDef
  <1> HIDE DEF r
  <1>3. a + k * n = (j + k) * n + r /\ j + k \in Int
    BY <1>1, <1>2
  <1>4. ((j + k) * n + r) % n = r
    BY <1>1, ModIs
  <1> QED  BY <1>3, <1>4 DEF r

LEMMA ModMod ==
    ASSUME NEW n \in Nat, n # 0, NEW m \in Nat, m # 0, m % n = 0, NEW a \in Int
    PROVE  (a % m) % n = a % n
  <1> DEFINE b == a % m
  <1>1. b \in Int
    BY ModDef
  <1>2. PICK j \in Int : a = j * m + b
    BY ModDef
  <1>3. PICK i \in Int : m = i * n + 0
    BY ModDef
  <1> HIDE DEF b
  <1>4. a = b + (j * i) * n /\ j * i \in Int
    BY <1>1, <1>2, <1>3
  <1>5. (b + (j * i) * n) % n = b % n
    BY <1>1, <1>4, ModSame
  <1> QED  BY <1>4, <1>5 DEF b

(* A sum or a difference may be taken of remainders.                        *)
LEMMA ModAdd ==
    ASSUME NEW n \in Nat, n # 0, NEW a \in Int, NEW b \in Int
    PROVE  /\ ((a % n) + b) % n = (a + b) % n
           /\ (b - (a % n)) % n = (b - a) % n
  <1> DEFINE c == a % n
  <1>1. c \in Int
    BY ModDef
  <1>2. PICK j \in Int : a = j * n + c
    BY ModDef
  <1> HIDE DEF c
  <1>3. a + b = (c + b) + j * n /\ b - c = (b - a) + j * n
    BY <1>1, <1>2
  <1> DEFINE s == c + b  d == b - a
  <1>4. s \in Int /\ d \in Int
    BY <1>1
  <1> HIDE DEF s, d
  <1>5. (s + j * n) % n = s % n /\ (d + j * n) % n = d % n
    BY <1>4, ModSame
  <1> QED  BY <1>3, <1>5 DEF c, s, d

(* Different numbers less than the modulus apart have different remainders. *)
LEMMA ModEqual ==
    ASSUME NEW n \in Nat, n # 0, NEW a \in Int, NEW b \in Int, a % n = b % n, a - b < n, b - a < n
    PROVE  a = b
  <1> DEFINE r == a % n
  <1>1. PICK j \in Int : a = j * n + r
    BY ModDef
  <1>2. PICK k \in Int : b = k * n + r
    BY ModDef
  <1>3. r \in Int
    BY ModDef
  <1> HIDE DEF r
  <1>4. a - b = (j - k) * n
    BY <1>1, <1>2, <1>3
  <1>5. CASE j - k >= 1
    <2>1. (j - k - 1) * n >= 0
      BY <1>5
    <2>2. (j - k) * n = (j - k - 1) * n + n
      OBVIOUS
    <2> QED  BY <2>1, <2>2, <1>4
  <1>6. CASE k - j >= 1
    <2>1. (k - j - 1) * n >= 0
      BY <1>6
    <2>2. (j - k) * n = 0 - ((k - j - 1) * n + n)
      OBVIOUS
    <2> QED  BY <2>1, <2>2, <1>4
  <1>7. CASE j = k
    BY <1>7, <1>4
  <1> QED  BY <1>5, <1>6, <1>7

---------------------------------------------------------------------------
(* Counts and slots                                                         *)

(* The sizes, and that a ring divides the space of the counters.            *)
LEMMA Sizes ==
    /\ Entries \in Nat /\ Entries > 1
    /\ MaxDescs \in Nat /\ MaxDescs >= 1 /\ MaxDescs < Entries
    /\ CountSpace \in Nat /\ CountSpace # 0
    /\ CountSpace % Entries = 0
    /\ CountSpace >= 2 * Entries
    /\ CountSpace \div 2 \in Nat /\ CountSpace \div 2 >= 1
  <1>1. Entries \in Nat /\ Entries > 1 /\ 2 * Entries \in Nat /\ 2 * Entries # 0
    BY EntriesPos
  <1>2. CountSpace \in Nat /\ CountSpace # 0 /\ CountSpace % (2 * Entries) = 0
    BY CountsWrap
  <1>3. \E k \in Int : CountSpace = k * (2 * Entries) + 0
    <2> DEFINE pair == 2 * Entries  space == CountSpace
    <2>1. pair \in Nat /\ pair # 0 /\ space \in Int /\ space % pair = 0
      BY <1>1, <1>2
    <2> HIDE DEF pair, space
    <2>2. PICK k \in Int : space = k * pair + (space % pair)
      BY <2>1, ModDef
    <2>3. space = k * pair + 0
      BY <2>1, <2>2
    <2> QED  BY <2>3 DEF pair, space
  <1> PICK k \in Int : CountSpace = k * (2 * Entries) + 0
    BY <1>3
  <1>4. CountSpace = 0 + (k * 2) * Entries
    BY <1>1
  <1>5. CountSpace % Entries = 0 % Entries
    BY <1>1, <1>4, ModSame
  <1>6. CountSpace % Entries = 0
    BY <1>1, <1>5
  <1>7. CountSpace >= 2 * Entries
    <2>1. CASE k >= 1
      <3>1. (k - 1) * (2 * Entries) >= 0
        BY <1>1, <2>1
      <3>2. k * (2 * Entries) = (k - 1) * (2 * Entries) + 2 * Entries
        BY <1>1
      <3> QED  BY <1>1, <3>1, <3>2
    <2>2. CASE k <= 0
      <3>1. (0 - k) * (2 * Entries) >= 0
        BY <1>1, <2>2
      <3>2. k * (2 * Entries) = 0 - ((0 - k) * (2 * Entries))
        BY <1>1
      <3> QED  BY <1>1, <1>2, <3>1, <3>2
    <2> QED  BY <2>1, <2>2
  <1> QED  BY <1>1, <1>2, <1>6, <1>7, DescsFit

LEMMA CountRange ==
    ASSUME NEW a \in Int
    PROVE  a % CountSpace \in Counts /\ Slot(a) \in Slots
  <1>1. a % CountSpace \in 0 .. CountSpace - 1
    BY Sizes, ModDef
  <1>2. Entries \in Nat /\ Entries # 0
    BY Sizes
  <1>3. a % Entries \in 0 .. Entries - 1
    BY <1>2, ModDef
  <1> QED  BY <1>1, <1>3 DEF Counts, Slots, Slot

LEMMA IncrRange ==
    ASSUME NEW c \in Counts, NEW n \in Int
    PROVE  Incr(c, n) \in Counts
BY CountRange, Sizes DEF Incr, Counts

(* A count leads to a slot before or after it is wrapped.                   *)
LEMMA SlotOfCount ==
    ASSUME NEW a \in Int, NEW k \in Int
    PROVE  Slot((a % CountSpace) + k) = Slot(a + k)
  <1> DEFINE b == a % CountSpace
  <1>0. Entries \in Nat /\ Entries # 0 /\ CountSpace \in Nat /\ CountSpace # 0
    BY Sizes
  <1>1. b \in Int /\ b % Entries = a % Entries
    <2>1. b \in Int
      BY <1>0, ModDef
    <2>2. CountSpace % Entries = 0
      BY Sizes
    <2> QED  BY <2>1, <2>2, <1>0, ModMod
  <1> HIDE DEF b
  <1>2. (b + k) % Entries = ((b % Entries) + k) % Entries
    BY <1>1, <1>0, ModAdd
  <1>3. (a + k) % Entries = ((a % Entries) + k) % Entries
    BY <1>0, ModAdd
  <1> QED  BY <1>1, <1>2, <1>3 DEF Slot, b

LEMMA SlotIncr ==
    ASSUME NEW c \in Counts, NEW n \in Int
    PROVE  Slot(Incr(c, n)) = Slot(c + n)
  <1>1. c \in Int /\ c + n \in Int
    BY Sizes DEF Counts
  <1>2. (c + n) % CountSpace \in Int
    BY <1>1, Sizes, ModDef
  <1>3. Slot(((c + n) % CountSpace) + 0) = Slot((c + n) + 0)
    BY <1>1, SlotOfCount
  <1> QED  BY <1>1, <1>2, <1>3 DEF Incr

(* How far the count x is ahead of the count r.                             *)
Ahead(x, r) == (x - r) % CountSpace

LEMMA ModSub ==
    ASSUME NEW n \in Nat, n # 0, NEW a \in Int, NEW b \in Int, a % n >= b % n
    PROVE  (a - b) % n = (a % n) - (b % n)
  <1> DEFINE c == a % n  d == b % n
  <1>1. c \in 0 .. n - 1 /\ d \in 0 .. n - 1
    BY ModDef
  <1>2. (a - d) % n = (a - b) % n
    BY ModAdd
  <1>3. c >= d
    OBVIOUS
  <1>4. \A e \in Int : (c + e) % n = (a + e) % n
    BY ModAdd
  <1> HIDE DEF c, d
  <1>5. (c + (0 - d)) % n = (a + (0 - d)) % n
    BY <1>1, <1>4
  <1>6. c + (0 - d) = c - d /\ a + (0 - d) = a - d
    BY <1>1
  <1>7. c - d \in 0 .. n - 1
    BY <1>1, <1>3
  <1>8. (c - d) % n = c - d
    BY <1>7, ModSmall
  <1> QED  BY <1>2, <1>5, <1>6, <1>8 DEF c, d

LEMMA AheadRange ==
    ASSUME NEW x \in Counts, NEW r \in Counts
    PROVE  /\ x \in Int /\ r \in Int
           /\ Ahead(x, r) \in Int /\ Ahead(x, r) >= 0 /\ Ahead(x, r) < CountSpace
           /\ Ahead(x, x) = 0
  <1>1. x \in Int /\ r \in Int /\ x - r \in Int
    BY Sizes DEF Counts
  <1>2. CountSpace \in Nat /\ CountSpace # 0
    BY Sizes
  <1>3. (x - r) % CountSpace \in 0 .. CountSpace - 1
    BY <1>1, <1>2, ModDef
  <1>4. 0 % CountSpace = 0 /\ x - x = 0
    BY <1>1, <1>2
  <1> QED  BY <1>1, <1>2, <1>3, <1>4 DEF Ahead

(* Counts that differ have a difference.                                    *)
LEMMA AheadZero ==
    ASSUME NEW x \in Counts, NEW r \in Counts, Ahead(x, r) = 0
    PROVE  x = r
  <1>1. x \in Int /\ r \in Int /\ x - r \in Int /\ x - r < CountSpace /\ r - x < CountSpace
    BY Sizes DEF Counts
  <1>2. CountSpace \in Nat /\ CountSpace # 0 /\ 0 % CountSpace = 0
    BY Sizes
  <1>3. (x - r) % CountSpace = 0 % CountSpace
    BY <1>2 DEF Ahead
  <1>4. x - r = 0
    <2> DEFINE n == x - r
    <2>1. n - 0 < CountSpace /\ 0 - n < CountSpace /\ n \in Int /\ 0 \in Int
      BY <1>1
    <2>2. n % CountSpace = 0 % CountSpace
      BY <1>3
    <2> HIDE DEF n
    <2>3. n = 0
      BY <1>2, <2>1, <2>2, ModEqual
    <2> QED  BY <2>3 DEF n
  <1> QED  BY <1>1, <1>4

LEMMA AheadOf ==
    ASSUME NEW x \in Counts, NEW r \in Counts
    PROVE  Incr(r, Ahead(x, r)) = x
  <1>1. x \in Int /\ r \in Int /\ x - r \in Int /\ x \in 0 .. CountSpace - 1
    BY Sizes DEF Counts
  <1>2. CountSpace \in Nat /\ CountSpace # 0
    BY Sizes
  <1>3. (((x - r) % CountSpace) + r) % CountSpace = ((x - r) + r) % CountSpace
    BY <1>1, <1>2, ModAdd
  <1>4. (x - r) % CountSpace \in Int
    BY <1>1, <1>2, ModDef
  <1>5. (x - r) + r = x /\ ((x - r) % CountSpace) + r = r + ((x - r) % CountSpace)
    BY <1>1, <1>4
  <1>6. x % CountSpace = x
    BY <1>1, <1>2, ModSmall
  <1> QED  BY <1>3, <1>5, <1>6 DEF Ahead, Incr

(* The first count moves on by one.                                         *)
LEMMA AheadNext ==
    ASSUME NEW x \in Counts, NEW r \in Counts, Ahead(x, r) + 1 < CountSpace
    PROVE  Ahead(Incr(x, 1), r) = Ahead(x, r) + 1
  <1> DEFINE f == Ahead(x, r)
  <1>1. x \in Int /\ r \in Int /\ x - r \in Int /\ x + 1 \in Int /\ x + 1 - r \in Int
    BY Sizes DEF Counts
  <1>2. CountSpace \in Nat /\ CountSpace # 0
    BY Sizes
  <1>3. f \in Int /\ f >= 0 /\ f + 1 < CountSpace
    BY AheadRange
  <1>4. (((x + 1) % CountSpace) + (0 - r)) % CountSpace = ((x + 1) + (0 - r)) % CountSpace
    <2> DEFINE a == x + 1  b == 0 - r
    <2>1. a \in Int /\ b \in Int
      BY <1>1
    <2> HIDE DEF a, b
    <2>2. ((a % CountSpace) + b) % CountSpace = (a + b) % CountSpace
      BY <2>1, <1>2, ModAdd
    <2> QED  BY <2>2 DEF a, b
  <1>5. (f + 1) % CountSpace = ((x - r) + 1) % CountSpace
    <2> DEFINE a == x - r  b == 1
    <2>1. a \in Int /\ b \in Int
      BY <1>1
    <2> HIDE DEF a, b
    <2>2. ((a % CountSpace) + b) % CountSpace = (a + b) % CountSpace
      BY <2>1, <1>2, ModAdd
    <2> QED  BY <2>2 DEF a, b, Ahead
  <1>6. (x + 1) % CountSpace \in Int
    BY <1>1, <1>2, ModDef
  <1>7. ((x + 1) % CountSpace) + (0 - r) = ((x + 1) % CountSpace) - r /\ (x + 1) + (0 - r) = (x - r) + 1
    BY <1>1, <1>6
  <1>8. (f + 1) % CountSpace = f + 1
    BY <1>2, <1>3, ModSmall
  <1> QED  BY <1>4, <1>5, <1>7, <1>8 DEF Ahead, Incr

(* The second count moves on, not beyond the first.                         *)
LEMMA AheadMoved ==
    ASSUME NEW x \in Counts, NEW r \in Counts, NEW n \in 0 .. Ahead(x, r)
    PROVE  Ahead(x, Incr(r, n)) = Ahead(x, r) - n
  <1> DEFINE f == Ahead(x, r)
  <1>1. x \in Int /\ r \in Int /\ f \in Int /\ f < CountSpace /\ n \in Int /\ n >= 0 /\ n <= f
    BY AheadRange
  <1>2. CountSpace \in Nat /\ CountSpace # 0
    BY Sizes
  <1>3. (x - ((r + n) % CountSpace)) % CountSpace = (x - (r + n)) % CountSpace
    <2> DEFINE a == r + n
    <2>1. a \in Int
      BY <1>1
    <2> HIDE DEF a
    <2>2. (x - (a % CountSpace)) % CountSpace = (x - a) % CountSpace
      BY <2>1, <1>1, <1>2, ModAdd
    <2> QED  BY <2>2 DEF a
  <1>4. (((x - r) % CountSpace) + (0 - n)) % CountSpace = ((x - r) + (0 - n)) % CountSpace
    <2> DEFINE a == x - r  b == 0 - n
    <2>1. a \in Int /\ b \in Int
      BY <1>1
    <2> HIDE DEF a, b
    <2>2. ((a % CountSpace) + b) % CountSpace = (a + b) % CountSpace
      BY <2>1, <1>2, ModAdd
    <2> QED  BY <2>2 DEF a, b
  <1>5. ((x - r) % CountSpace) + (0 - n) = f - n /\ (x - r) + (0 - n) = x - (r + n)
    BY <1>1 DEF Ahead
  <1>6. (f - n) % CountSpace = f - n
    BY <1>1, <1>2, ModSmall
  <1> QED  BY <1>3, <1>4, <1>5, <1>6 DEF Ahead, Incr

(* Of two counts ahead of r, the first the farther.                         *)
LEMMA AheadBetween ==
    ASSUME NEW x \in Counts, NEW y \in Counts, NEW r \in Counts, Ahead(y, r) <= Ahead(x, r)
    PROVE  Ahead(x, y) = Ahead(x, r) - Ahead(y, r)
  <1>1. x \in Int /\ y \in Int /\ r \in Int /\ x - r \in Int /\ y - r \in Int
    BY Sizes DEF Counts
  <1>2. CountSpace \in Nat /\ CountSpace # 0
    BY Sizes
  <1>3. (x - r) % CountSpace >= (y - r) % CountSpace
    BY AheadRange DEF Ahead
  <1>4. ((x - r) - (y - r)) % CountSpace = ((x - r) % CountSpace) - ((y - r) % CountSpace)
    BY <1>1, <1>2, <1>3, ModSub
  <1>5. (x - r) - (y - r) = x - y
    BY <1>1
  <1> QED  BY <1>4, <1>5 DEF Ahead

(* The slots are as far apart as the counts.                                *)
LEMMA SlotsApart ==
    ASSUME NEW x \in Counts, NEW r \in Counts, Ahead(x, r) < Entries
    PROVE  (Slot(x) - Slot(r)) % Entries = Ahead(x, r)
  <1> DEFINE f == Ahead(x, r)
  <1>1. x \in Int /\ r \in Int /\ x - r \in Int /\ f \in Int /\ f >= 0 /\ f < Entries
    BY AheadRange
  <1>2. Entries \in Nat /\ Entries # 0 /\ CountSpace \in Nat /\ CountSpace # 0 /\ CountSpace % Entries = 0
    BY Sizes
  <1>3. f % Entries = (x - r) % Entries
    BY <1>1, <1>2, ModMod DEF Ahead
  <1>4. f % Entries = f
    BY <1>1, <1>2, ModSmall
  <1>5. (x % Entries) \in Int
    BY <1>1, <1>2, ModDef
  <1>6. ((x % Entries) - (r % Entries)) % Entries = ((x % Entries) - r) % Entries
    BY <1>1, <1>2, <1>5, ModAdd
  <1>7. ((x % Entries) + (0 - r)) % Entries = (x + (0 - r)) % Entries
    <2> DEFINE a == x  b == 0 - r
    <2>1. a \in Int /\ b \in Int
      BY <1>1
    <2> HIDE DEF a, b
    <2>2. ((a % Entries) + b) % Entries = (a + b) % Entries
      BY <2>1, <1>2, ModAdd
    <2> QED  BY <2>2 DEF a, b
  <1>8. (x % Entries) + (0 - r) = (x % Entries) - r /\ x + (0 - r) = x - r
    BY <1>1, <1>5
  <1> QED  BY <1>3, <1>4, <1>6, <1>7, <1>8 DEF Slot

---------------------------------------------------------------------------
(* Spans                                                                    *)

LEMMA SpanEmpty == \A c \in Int : Span(c, 0) = {}
BY DEF Span

LEMMA SpanOne == \A c \in Int : Span(c, 1) = {Slot(c)}
BY DEF Span

LEMMA SpanSlots ==
    ASSUME NEW c \in Counts, NEW n \in Int
    PROVE  Span(c, n) \subseteq Slots
  <1>1. c \in Int
    BY Sizes DEF Counts
  <1>2. \A k \in 0 .. n - 1 : c + k \in Int
    BY <1>1
  <1> QED  BY <1>2, CountRange DEF Span

LEMMA SpanHas ==
    ASSUME NEW c \in Counts, NEW n \in Int, NEW k \in 0 .. n - 1
    PROVE  Slot(c + k) \in Span(c, n)
BY DEF Span

(* A span of at most a ring consists of two parts without a common slot.    *)
LEMMA SpanSplit ==
    ASSUME NEW c \in Counts, NEW n \in 0 .. Entries, NEW m \in 0 .. n
    PROVE  /\ Span(c, n) = Span(c, m) \cup Span(Incr(c, m), n - m)
           /\ Span(c, m) \cap Span(Incr(c, m), n - m) = {}
  <1>1. c \in Int /\ m \in Int /\ n \in Int /\ Entries \in Nat /\ Entries # 0
    BY Sizes DEF Counts
  <1>2. \A k \in Int : Slot(Incr(c, m) + k) = Slot(c + m + k)
    BY <1>1, SlotOfCount DEF Incr
  <1>3. Span(Incr(c, m), n - m) = {Slot(c + m + k) : k \in 0 .. n - m - 1}
    <2>1. \A k \in 0 .. n - m - 1 : Slot(Incr(c, m) + k) = Slot(c + m + k)
      BY <1>1, <1>2
    <2> QED  BY <2>1 DEF Span
  <1>4. Span(c, n) = Span(c, m) \cup Span(Incr(c, m), n - m)
    <2>1. ASSUME NEW k \in 0 .. n - 1
          PROVE  Slot(c + k) \in Span(c, m) \cup Span(Incr(c, m), n - m)
      <3>1. CASE k < m
        BY <1>1, <3>1 DEF Span
      <3>2. CASE k >= m
        <4>1. k - m \in 0 .. n - m - 1 /\ c + m + (k - m) = c + k
          BY <1>1, <3>2
        <4> QED  BY <4>1, <1>3
      <3> QED  BY <1>1, <3>1, <3>2
    <2>2. ASSUME NEW k \in 0 .. m - 1  PROVE Slot(c + k) \in Span(c, n)
      BY <1>1 DEF Span
    <2>3. ASSUME NEW k \in 0 .. n - m - 1  PROVE Slot(c + m + k) \in Span(c, n)
      <3>1. m + k \in 0 .. n - 1 /\ c + m + k = c + (m + k)
        BY <1>1
      <3> QED  BY <3>1 DEF Span
    <2> QED  BY <2>1, <2>2, <2>3, <1>3 DEF Span
  <1>5. ASSUME NEW j \in 0 .. m - 1, NEW k \in 0 .. n - m - 1, Slot(c + j) = Slot(c + m + k)
        PROVE  FALSE
    <2> DEFINE a == c + j  b == c + m + k
    <2>1. a \in Int /\ b \in Int /\ a - b < Entries /\ b - a < Entries /\ a # b
      BY <1>1
    <2>2. a % Entries = b % Entries
      BY <1>5 DEF Slot
    <2> HIDE DEF a, b
    <2> QED  BY <1>1, <2>1, <2>2, ModEqual
  <1> QED  BY <1>3, <1>4, <1>5 DEF Span

---------------------------------------------------------------------------
(* One ring.  Its descriptors are, from the oldest to the newest: completed *)
(* up to r (read_count), announced up to b and reported up to d (places in  *)
(* the ring), written up to w (write_count), part of whole packets up to t, *)
(* and inserted up to i (insert_count).                                     *)

RingTypes(i, t, w, r, b, d, buf) ==
    /\ i \in Counts /\ t \in Counts /\ w \in Counts /\ r \in Counts
    /\ b \in Slots /\ d \in Slots
    /\ buf \in [Slots -> Kinds]

InOrder(i, t, w, r, b, d) ==
    /\ Ahead(i, r) < Entries
    /\ Ahead(t, r) <= Ahead(i, r)
    /\ Ahead(w, r) <= Ahead(t, r)
    /\ d = Slot(r)
    /\ (b - d) % Entries <= Ahead(w, r)

InUseExactly(buf, span) == \A x \in Slots : buf[x] # "free" <=> x \in span

EndsWhole(buf, t, r) == Ahead(t, r) > 0 => buf[Slot(t - 1)] \in Ends

RingOK(i, t, w, r, b, d, buf) ==
    /\ RingTypes(i, t, w, r, b, d, buf)
    /\ InOrder(i, t, w, r, b, d)
    /\ InUseExactly(buf, Span(r, Ahead(i, r)))
    /\ EndsWhole(buf, t, r)

Cleared(buf, span) == [x \in Slots |-> IF x \in span THEN "free" ELSE buf[x]]

LEMMA KindsApart == "free" \notin Ends /\ Ends \subseteq Kinds /\ "free" \in Kinds /\ "map" \in Kinds
BY DEF Ends, Kinds

(* The slots of a ring's counts, counted from r.                            *)
LEMMA SlotOf ==
    ASSUME NEW x \in Counts, NEW r \in Counts
    PROVE  /\ Slot(x) = Slot(r + Ahead(x, r))
           /\ Slot(x - 1) = Slot(r + (Ahead(x, r) - 1))
           /\ Slot(x) \in Slots /\ Slot(x - 1) \in Slots
  <1> DEFINE f == Ahead(x, r)
  <1>1. x \in Int /\ r \in Int /\ f \in Int
    BY AheadRange
  <1>2. Incr(r, f) = x
    BY AheadOf
  <1> HIDE DEF f
  <1>3. x = (r + f) % CountSpace
    BY <1>2 DEF Incr
  <1>4. Slot(((r + f) % CountSpace) + 0) = Slot((r + f) + 0)
    BY <1>1, SlotOfCount
  <1>5. Slot(((r + f) % CountSpace) + (0 - 1)) = Slot((r + f) + (0 - 1))
    BY <1>1, SlotOfCount
  <1>6. x + 0 = x /\ x + (0 - 1) = x - 1 /\ (r + f) + 0 = r + f /\ (r + f) + (0 - 1) = r + (f - 1)
    BY <1>1
  <1>7. x - 1 \in Int
    BY <1>1
  <1> QED  BY <1>1, <1>3, <1>4, <1>5, <1>6, <1>7, CountRange DEF f

(* The next buffer of a ring that is not full is free.                      *)
LEMMA NextFree ==
    ASSUME NEW i \in Counts, NEW r \in Counts, NEW buf \in [Slots -> Kinds],
           Ahead(i, r) < Entries, InUseExactly(buf, Span(r, Ahead(i, r)))
    PROVE  /\ buf[Slot(i)] = "free"
           /\ Span(r, Ahead(i, r) + 1) = Span(r, Ahead(i, r)) \cup {Slot(i)}
  <1> DEFINE f == Ahead(i, r)
  <1>1. i \in Int /\ r \in Int /\ f \in Int /\ f >= 0 /\ f < Entries /\ Entries \in Nat
    BY AheadRange, Sizes
  <1>2. f + 1 \in 0 .. Entries /\ f \in 0 .. f + 1 /\ (f + 1) - f = 1
    BY <1>1
  <1>3. Incr(r, f) = i
    BY AheadOf
  <1> HIDE DEF f
  <1>4. /\ Span(r, f + 1) = Span(r, f) \cup Span(i, 1)
        /\ Span(r, f) \cap Span(i, 1) = {}
    BY <1>2, <1>3, SpanSplit
  <1>5. Span(i, 1) = {Slot(i)}
    BY <1>1, SpanOne
  <1>6. Slot(i) \in Slots
    BY SlotOf
  <1> QED  BY <1>4, <1>5, <1>6 DEF f, InUseExactly

(* A descriptor is inserted: of a packet that goes on, or its last.         *)
LEMMA RingInsert ==
    ASSUME NEW i, NEW t, NEW w, NEW r, NEW b, NEW d, NEW buf, RingOK(i, t, w, r, b, d, buf),
           Ahead(i, r) + 1 < Entries, NEW kind \in Kinds, kind # "free"
    PROVE  LET put == [buf EXCEPT ![Slot(i)] = kind]
           IN  /\ buf[Slot(i)] = "free"
               /\ Ahead(Incr(i, 1), r) = Ahead(i, r) + 1
               /\ RingOK(Incr(i, 1), t, w, r, b, d, put)
               /\ kind \in Ends => RingOK(Incr(i, 1), Incr(i, 1), w, r, b, d, put)
  <1> DEFINE put == [buf EXCEPT ![Slot(i)] = kind]
             n == Incr(i, 1)
             f == Ahead(i, r)
  <1>1. RingTypes(i, t, w, r, b, d, buf) /\ InOrder(i, t, w, r, b, d)
        /\ InUseExactly(buf, Span(r, f)) /\ EndsWhole(buf, t, r)
    BY DEF RingOK
  <1>2. i \in Counts /\ t \in Counts /\ w \in Counts /\ r \in Counts /\ buf \in [Slots -> Kinds]
    BY <1>1 DEF RingTypes
  <1>3. f \in Int /\ f >= 0 /\ Ahead(t, r) \in Int /\ Ahead(t, r) >= 0 /\ Ahead(w, r) \in Int
        /\ i \in Int /\ t \in Int /\ r \in Int
    BY <1>2, AheadRange
  <1>4. f + 1 < CountSpace /\ f < Entries /\ Ahead(t, r) <= f
    BY <1>1, <1>3, Sizes DEF InOrder
  <1>5. n \in Counts /\ Ahead(n, r) = f + 1
    BY <1>2, <1>4, AheadNext, IncrRange
  <1>6. buf[Slot(i)] = "free" /\ Span(r, f + 1) = Span(r, f) \cup {Slot(i)} /\ Slot(i) \in Slots
    BY <1>1, <1>2, <1>4, NextFree, SlotOf
  <1>7. put \in [Slots -> Kinds] /\ put[Slot(i)] = kind
        /\ \A x \in Slots : x # Slot(i) => put[x] = buf[x]
    BY <1>2, <1>6
  <1>8. InUseExactly(put, Span(r, Ahead(n, r)))
    BY <1>1, <1>5, <1>6, <1>7 DEF InUseExactly
  <1>9. EndsWhole(put, t, r)
    <2>1. CASE Ahead(t, r) > 0
      <3>1. buf[Slot(t - 1)] \in Ends /\ Slot(t - 1) \in Slots
        BY <1>1, <1>2, <2>1, SlotOf DEF EndsWhole
      <3>2. Slot(t - 1) # Slot(i)
        BY <3>1, <1>6, KindsApart
      <3> QED  BY <3>1, <3>2, <1>7 DEF EndsWhole
    <2> QED  BY <2>1 DEF EndsWhole
  <1>10. Slot(n - 1) = Slot(i)
    <2>1. Slot(((i + 1) % CountSpace) + (0 - 1)) = Slot((i + 1) + (0 - 1))
      BY <1>3, SlotOfCount
    <2>2. n \in Int /\ n = (i + 1) % CountSpace
      BY <1>5, AheadRange DEF Incr
    <2>3. n + (0 - 1) = n - 1 /\ (i + 1) + (0 - 1) = i
      BY <1>3, <2>2
    <2> QED  BY <2>1, <2>2, <2>3
  <1> HIDE DEF put, n, f
  <1>11. RingTypes(n, t, w, r, b, d, put) /\ RingTypes(n, n, w, r, b, d, put)
    BY <1>1, <1>5, <1>7 DEF RingTypes
  <1>12. InOrder(n, t, w, r, b, d) /\ InOrder(n, n, w, r, b, d)
    BY <1>1, <1>3, <1>4, <1>5 DEF InOrder, f
  <1>13. kind \in Ends => EndsWhole(put, n, r)
    BY <1>10, <1>7 DEF EndsWhole
  <1> QED  BY <1>5, <1>6, <1>8, <1>9, <1>11, <1>12, <1>13 DEF RingOK, put, n, f

(* The descriptors of a packet that failed are taken back.                  *)
LEMMA RingUnwind ==
    ASSUME NEW i, NEW t, NEW w, NEW r, NEW b, NEW d, NEW buf, RingOK(i, t, w, r, b, d, buf)
    PROVE  LET span == Span(t, (i - t) % CountSpace)
           IN  span \subseteq Slots /\ RingOK(t, t, w, r, b, d, Cleared(buf, span))
  <1> DEFINE f == Ahead(i, r)  g == Ahead(t, r)  span == Span(t, (i - t) % CountSpace)
             out == Cleared(buf, span)
  <1>1. RingTypes(i, t, w, r, b, d, buf) /\ InOrder(i, t, w, r, b, d)
        /\ InUseExactly(buf, Span(r, f)) /\ EndsWhole(buf, t, r)
    BY DEF RingOK
  <1>2. i \in Counts /\ t \in Counts /\ w \in Counts /\ r \in Counts /\ buf \in [Slots -> Kinds]
    BY <1>1 DEF RingTypes
  <1>3. f \in Int /\ f >= 0 /\ g \in Int /\ g >= 0 /\ t \in Int /\ r \in Int /\ Entries \in Nat
    BY <1>2, AheadRange, Sizes
  <1>4. f < Entries /\ g <= f
    BY <1>1 DEF InOrder
  <1>5. (i - t) % CountSpace = f - g /\ Incr(r, g) = t
    BY <1>2, <1>4, AheadBetween, AheadOf DEF Ahead
  <1>6. f \in 0 .. Entries /\ g \in 0 .. f
    BY <1>3, <1>4
  <1>7. Span(r, f) = Span(r, g) \cup span /\ Span(r, g) \cap span = {}
    BY <1>2, <1>5, <1>6, SpanSplit
  <1>8. span \subseteq Slots
    BY <1>2, <1>3, <1>5, SpanSlots
  <1>9. out \in [Slots -> Kinds]
    BY <1>2, KindsApart DEF Cleared
  <1>10. InUseExactly(out, Span(r, g))
    BY <1>1, <1>7 DEF InUseExactly, Cleared
  <1>11. EndsWhole(out, t, r)
    <2>1. CASE g > 0
      <3>1. buf[Slot(t - 1)] \in Ends /\ Slot(t - 1) \in Slots
        BY <1>1, <1>2, <2>1, SlotOf DEF EndsWhole
      <3>2. Slot(t - 1) = Slot(r + (g - 1)) /\ g - 1 \in 0 .. g - 1
        BY <1>2, <1>3, <2>1, SlotOf
      <3>3. Slot(t - 1) \in Span(r, g)
        BY <1>2, <1>3, <3>2, SpanHas
      <3> QED  BY <3>1, <3>3, <1>7 DEF EndsWhole, Cleared
    <2> QED  BY <2>1 DEF EndsWhole
  <1> HIDE DEF out, span, f, g
  <1>12. RingTypes(t, t, w, r, b, d, out)
    BY <1>1, <1>9 DEF RingTypes
  <1>13. InOrder(t, t, w, r, b, d)
    BY <1>1, <1>3, <1>4 DEF InOrder, f, g
  <1> QED  BY <1>8, <1>10, <1>11, <1>12, <1>13 DEF RingOK, out, span, f, g

(* n descriptors complete, as many as were announced at most.               *)
LEMMA RingDequeue ==
    ASSUME NEW i, NEW t, NEW w, NEW r, NEW b, NEW d, NEW buf, RingOK(i, t, w, r, b, d, buf),
           NEW n \in 1 .. (b - d) % Entries
    PROVE  LET q == Incr(r, n)
           IN  /\ (d + n - r) % Entries = n
               /\ \A k \in 0 .. n - 1 : buf[Slot(r + k)] # "free"
               /\ Ahead(i, q) <= Ahead(i, r)
               /\ Ahead(t, q) <= Ahead(t, r)
               /\ RingOK(i, t, w, q, b, Slot(d + n), Cleared(buf, Span(r, n)))
  <1> DEFINE f == Ahead(i, r)  g == Ahead(t, r)  h == Ahead(w, r)
             q == Incr(r, n)  e == Slot(d + n)  out == Cleared(buf, Span(r, n))
  <1>1. RingTypes(i, t, w, r, b, d, buf) /\ InOrder(i, t, w, r, b, d)
        /\ InUseExactly(buf, Span(r, f)) /\ EndsWhole(buf, t, r)
    BY DEF RingOK
  <1>2. i \in Counts /\ t \in Counts /\ w \in Counts /\ r \in Counts /\ buf \in [Slots -> Kinds]
        /\ b \in Slots /\ d \in Slots
    BY <1>1 DEF RingTypes
  <1>3. f \in Int /\ g \in Int /\ h \in Int /\ r \in Int /\ Entries \in Nat /\ Entries # 0
        /\ b \in Int /\ d \in Int
    BY <1>2, AheadRange, Sizes DEF Slots
  <1>4. f < Entries /\ g <= f /\ h <= g /\ (b - d) % Entries <= h /\ d = Slot(r)
    BY <1>1 DEF InOrder
  <1> DEFINE gap == (b - d) % Entries
  <1>5. gap \in 0 .. Entries - 1
    <2> DEFINE a == b - d
    <2>1. a \in Int
      BY <1>3
    <2> HIDE DEF a
    <2>2. a % Entries \in 0 .. Entries - 1
      BY <2>1, <1>3, ModDef
    <2> QED  BY <2>2 DEF a
  <1>6. n \in Int /\ 1 <= n /\ n <= gap /\ n <= h /\ n <= g /\ n <= f /\ n < Entries
    BY <1>3, <1>4, <1>5
  <1>7. q \in Counts /\ Ahead(i, q) = f - n /\ Ahead(t, q) = g - n /\ Ahead(w, q) = h - n
    <2>1. n \in 0 .. f /\ n \in 0 .. g /\ n \in 0 .. h
      BY <1>3, <1>6
    <2> QED  BY <1>2, <1>6, <2>1, AheadMoved, IncrRange
  <1>8. (d + n - r) % Entries = n
    <2> DEFINE a == n - r
    <2>1. a \in Int
      BY <1>3, <1>6
    <2> HIDE DEF a
    <2>2. ((r % Entries) + a) % Entries = (r + a) % Entries
      BY <1>3, <2>1, ModAdd
    <2>3. r + a = n /\ d + a = d + n - r
      BY <1>3, <1>6 DEF a
    <2>4. n % Entries = n
      BY <1>3, <1>6, ModSmall
    <2> QED  BY <2>2, <2>3, <2>4, <1>4 DEF Slot
  <1>9. e = Slot(q)
    <2>1. ((r % Entries) + n) % Entries = (r + n) % Entries
      BY <1>3, <1>6, ModAdd
    <2>2. Slot(q) = Slot(r + n)
      BY <1>2, <1>6, SlotIncr
    <2> QED  BY <2>1, <2>2, <1>4 DEF Slot
  <1>10. f \in 0 .. Entries /\ n \in 0 .. f
    BY <1>3, <1>4, <1>6
  <1>11. Span(r, f) = Span(r, n) \cup Span(q, f - n) /\ Span(r, n) \cap Span(q, f - n) = {}
    BY <1>2, <1>10, SpanSplit
  <1>12. \A k \in 0 .. n - 1 : buf[Slot(r + k)] # "free"
    <2> SUFFICES ASSUME NEW k \in 0 .. n - 1  PROVE buf[Slot(r + k)] # "free"
      OBVIOUS
    <2>1. Slot(r + k) \in Span(r, n)
      BY <1>2, <1>6, SpanHas
    <2>2. Slot(r + k) \in Slots
      BY <1>2, <1>6, <2>1, SpanSlots
    <2> QED  BY <1>1, <1>11, <2>1, <2>2 DEF InUseExactly
  <1>13. out \in [Slots -> Kinds]
    BY <1>2, KindsApart DEF Cleared
  <1>14. InUseExactly(out, Span(q, f - n))
    BY <1>1, <1>11 DEF InUseExactly, Cleared
  <1>15. EndsWhole(out, t, q)
    <2>1. CASE g - n > 0
      <3>1. buf[Slot(t - 1)] \in Ends /\ Slot(t - 1) \in Slots
        BY <1>1, <1>2, <1>3, <1>6, <2>1, SlotOf DEF EndsWhole
      <3>2. Slot(t - 1) = Slot(q + ((g - n) - 1))
        BY <1>2, <1>7, SlotOf
      <3>3. (g - n) - 1 \in 0 .. (f - n) - 1 /\ f - n \in Int
        BY <1>3, <1>4, <1>6, <2>1
      <3>4. Slot(t - 1) \in Span(q, f - n)
        BY <1>7, <3>2, <3>3, SpanHas
      <3> QED  BY <3>1, <3>4, <1>11 DEF EndsWhole, Cleared
    <2> QED  BY <2>1, <1>7 DEF EndsWhole
  <1>16. (b - e) % Entries = gap - n
    <2> DEFINE a == b - d
    <2>1. a \in Int
      BY <1>3
    <2>2. (b - ((d + n) % Entries)) % Entries = (b - (d + n)) % Entries
      <3> DEFINE c == d + n
      <3>1. c \in Int
        BY <1>3, <1>6
      <3> HIDE DEF c
      <3>2. (b - (c % Entries)) % Entries = (b - c) % Entries
        BY <3>1, <1>3, ModAdd
      <3> QED  BY <3>2 DEF c
    <2>3. b - (d + n) = a - n
      BY <1>3, <1>6
    <2>4. n % Entries = n
      BY <1>3, <1>6, ModSmall
    <2>5. a % Entries >= n % Entries
      BY <2>4, <1>5, <1>6
    <2> HIDE DEF a
    <2>6. (a - n) % Entries = (a % Entries) - (n % Entries)
      BY <2>1, <2>5, <1>3, <1>6, ModSub
    <2> QED  BY <2>2, <2>3, <2>4, <2>6 DEF a, Slot
  <1>17. e \in Slots
    BY <1>7, <1>9, AheadRange, CountRange
  <1> HIDE DEF f, g, h, q, e, out, gap
  <1>18. RingTypes(i, t, w, q, b, e, out)
    BY <1>1, <1>7, <1>13, <1>17 DEF RingTypes
  <1>19. InOrder(i, t, w, q, b, e)
    <2>1. gap \in Int
      BY <1>5, <1>3
    <2> QED  BY <2>1, <1>3, <1>4, <1>6, <1>7, <1>9, <1>16 DEF InOrder, gap
  <1>20. Ahead(i, q) <= f /\ Ahead(t, q) <= g
    BY <1>3, <1>6, <1>7
  <1> QED  BY <1>7, <1>8, <1>12, <1>14, <1>15, <1>18, <1>19, <1>20 DEF RingOK, f, g, q, e, out

(* All that was inserted is written.                                        *)
LEMMA RingWrite ==
    ASSUME NEW i, NEW w, NEW r, NEW b, NEW d, NEW buf, RingOK(i, i, w, r, b, d, buf)
    PROVE  RingOK(i, i, i, r, b, d, buf)
  <1>1. i \in Counts /\ w \in Counts /\ r \in Counts /\ b \in Slots /\ d \in Slots
    BY DEF RingOK, RingTypes
  <1>2. Ahead(i, r) \in Int /\ Ahead(w, r) \in Int
    BY <1>1, AheadRange
  <1>3. (b - d) % Entries \in Int
    BY <1>1, Sizes DEF Slots
  <1> QED  BY <1>1, <1>2, <1>3 DEF RingOK, RingTypes, InOrder

(* All that was written is announced.                                       *)
LEMMA RingBell ==
    ASSUME NEW i, NEW t, NEW w, NEW r, NEW b, NEW d, NEW buf, RingOK(i, t, w, r, b, d, buf)
    PROVE  RingOK(i, t, w, r, Slot(w), d, buf)
  <1>1. i \in Counts /\ t \in Counts /\ w \in Counts /\ r \in Counts
    BY DEF RingOK, RingTypes
  <1>2. Ahead(i, r) \in Int /\ Ahead(t, r) \in Int /\ Ahead(w, r) \in Int
    BY <1>1, AheadRange
  <1>3. Ahead(w, r) < Entries /\ d = Slot(r)
    BY <1>2, Sizes DEF RingOK, InOrder
  <1>4. (Slot(w) - d) % Entries = Ahead(w, r)
    BY <1>1, <1>3, SlotsApart
  <1>5. Slot(w) \in Slots
    BY <1>1, SlotOf
  <1> QED  BY <1>2, <1>4, <1>5 DEF RingOK, RingTypes, InOrder

(* A ring without descriptors.                                              *)
LEMMA RingEmpty ==
    ASSUME NEW c \in Counts
    PROVE  RingOK(c, c, c, c, Slot(c), Slot(c), [x \in Slots |-> "free"])
  <1>1. Ahead(c, c) = 0 /\ c \in Int /\ Slot(c) \in Slots
    BY AheadRange, SlotOf
  <1>2. 0 < Entries
    BY Sizes
  <1>3. (Slot(c) - Slot(c)) % Entries = 0
    BY <1>1, <1>2, SlotsApart
  <1>4. Span(c, 0) = {}
    BY <1>1, SpanEmpty
  <1>5. [x \in Slots |-> "free"] \in [Slots -> Kinds]
    BY KindsApart
  <1> QED  BY <1>1, <1>2, <1>3, <1>4, <1>5
           DEF RingOK, RingTypes, InOrder, InUseExactly, EndsWhole

---------------------------------------------------------------------------
(* The inductive invariant                                                  *)

Stages     == {"idle", "map", "mapped", "stop", "recheck", "queued", "push", "holdoff"}
PollStages == {"idle", "events", "bells", "unsent", "subtract", "fill", "test"}

TxType   == [stage : Stages, q : Queues \cup {NoQueue}, from : Counts, left : 0 .. MaxDescs,
             more : BOOLEAN, ring : Queues \cup {NoQueue}]
PollType == [stage : PollStages, todo : SUBSET Queues, ring : Queues \cup {NoQueue}, low : BOOLEAN,
             unsent : Counts, read : Counts, differ : BOOLEAN]

InsertType  == insert_count \in [Queues -> Counts]
WriteType   == write_count \in [Queues -> Counts]
NotifyType  == notify_count \in [Queues -> Counts]
ReadType    == read_count \in [Queues -> Counts]
OldType     == old_write_count \in [Queues -> Counts]
PendingType == xmit_pending \in [Queues -> BOOLEAN]
EmptyType   == empty_read_count \in [Queues -> 0 .. CountSpace \div 2 - 1]
BufferType  == buffer \in [Queues -> [Slots -> Kinds]]
BellType    == doorbell \in [Queues -> Slots]
DoneType    == done \in [Queues -> Slots]
FlagType    == stopped \in BOOLEAN /\ holdoff \in BOOLEAN /\ coalesce \in BOOLEAN
HistType    == spurious \in BOOLEAN /\ overtaken \in BOOLEAN /\ unsaid \in BOOLEAN
SkbType     == skbs \in 0 .. MaxSkbs[coalesce]

Types ==
    /\ InsertType /\ WriteType /\ NotifyType /\ ReadType /\ OldType /\ PendingType /\ EmptyType
    /\ BufferType /\ BellType /\ DoneType /\ FlagType /\ HistType /\ SkbType
    /\ tx \in TxType
    /\ poll \in PollType
    /\ mapped \in Int

(* A packet on its way has a queue, and what it may still take.             *)
OnItsWay == {"map", "mapped", "stop", "recheck", "queued"}

TxOK ==
    /\ tx.stage \in OnItsWay \/ tx.left > 0 => tx.q \in Queues
    /\ tx.stage = "map" => tx.left > 0
    /\ tx.stage = "holdoff" => tx.ring \in Queues

(* A mapping may be lost, but none is undone twice.                         *)
MappedEnough == mapped >= Cardinality(Mappings)

(* Up to where the ring holds whole packets.                                *)
Top(q) == IF tx.stage = "map" /\ tx.q = q THEN tx.from ELSE insert_count[q]

Ring(q) == RingOK(insert_count[q], Top(q), write_count[q], read_count[q], doorbell[q], done[q],
                  buffer[q])

(* While the queue of the stack is not stopped, there is room for a whole   *)
(* packet on every ring, at the latest when the next one is handed over.    *)
Room ==
    stopped \/ tx.stage \in {"mapped", "stop"}
        \/ \A q \in Queues : Ahead(Top(q), read_count[q]) < txq_stop_thresh

(* What the packet may still take fits in the ring.                         *)
Fits == tx.q \in Queues => Ahead(insert_count[tx.q], read_count[tx.q]) + tx.left < Entries

Sound ==
    /\ \A q \in Queues : Ring(q)
    /\ Room
    /\ Fits
    /\ mapped = Cardinality(Mappings)
    /\ ~spurious

IInv == Types /\ TxOK /\ MappedEnough /\ (~overtaken => Sound)

---------------------------------------------------------------------------
(* Mappings                                                                 *)

LEMMA SlotsFinite == IsFiniteSet(Slots) /\ IsFiniteSet(Queues) /\ IsFiniteSet(Queues \X Slots)
  <1>1. IsFiniteSet(Slots)
    BY Sizes, FS_Interval DEF Slots
  <1>2. IsFiniteSet(Queues)
    BY QueuesNamed
  <1> QED  BY <1>1, <1>2, FS_Product

LEMMA MappingsFinite ==
    /\ IsFiniteSet(Mappings)
    /\ Cardinality(Mappings) \in Nat
  <1>1. Mappings \subseteq Queues \X Slots
    BY DEF Mappings
  <1> QED  BY <1>1, SlotsFinite, FS_Subset, FS_CardinalityType

(* Emptying a span takes its mappings away, and no others.                  *)
LEMMA EmptiedMappings ==
    ASSUME NEW q \in Queues, NEW span \in SUBSET Slots, BufferType, buffer' = Emptied(q, span)
    PROVE  /\ Cardinality(Mappings') = Cardinality(Mappings) - Mapped(q, span)
           /\ Mapped(q, span) \in Nat
           /\ BufferType'
           /\ buffer'[q] = Cleared(buffer[q], span)
           /\ \A p \in Queues : p # q => buffer'[p] = buffer[p]
  <1> DEFINE there == {i \in span : buffer[q][i] \in {"map", "skb"}}
             gone  == {q} \X there
  <1>1. /\ buffer'[q] = [i \in Slots |-> IF i \in span THEN "free" ELSE buffer[q][i]]
        /\ \A p \in Queues : p # q => buffer'[p] = buffer[p]
    BY DEF Emptied, BufferType
  <1>2. BufferType'
    BY <1>1, KindsApart DEF Emptied, BufferType
  <1>3. \A i \in Slots : buffer'[q][i] = IF i \in span THEN "free" ELSE buffer[q][i]
    BY <1>1
  <1>4. Mappings' \cup gone = Mappings /\ Mappings' \cap gone = {}
    <2>1. \A p \in Queues, i \in Slots :
             <<p, i>> \in Mappings' <=> <<p, i>> \in Mappings /\ ~(p = q /\ i \in span)
      BY <1>1, <1>3 DEF Mappings
    <2>2. \A p \in Queues, i \in Slots :
             <<p, i>> \in gone <=> <<p, i>> \in Mappings /\ p = q /\ i \in span
      BY DEF Mappings
    <2>3. Mappings' \subseteq Queues \X Slots /\ Mappings \subseteq Queues \X Slots
          /\ gone \subseteq Queues \X Slots
      BY DEF Mappings
    <2> QED  BY <2>1, <2>2, <2>3
  <1>5. IsFiniteSet(there)
    BY SlotsFinite, FS_Subset
  <1>6. Cardinality(gone) = Cardinality(there) /\ IsFiniteSet(gone) /\ Cardinality(there) \in Nat
    <2>1. IsFiniteSet({q}) /\ Cardinality({q}) = 1
      BY FS_Singleton
    <2>2. IsFiniteSet(gone) /\ Cardinality(gone) = Cardinality({q}) * Cardinality(there)
      BY <2>1, <1>5, FS_Product
    <2>3. Cardinality(there) \in Nat
      BY <1>5, FS_CardinalityType
    <2> QED  BY <2>1, <2>2, <2>3
  <1>7. IsFiniteSet(Mappings')
    BY <1>4, MappingsFinite, FS_Subset
  <1>8. Cardinality(Mappings' \cup gone) = Cardinality(Mappings') + Cardinality(gone)
    <2>1. Cardinality(Mappings' \cup gone)
             = Cardinality(Mappings') + Cardinality(gone) - Cardinality(Mappings' \cap gone)
      BY <1>6, <1>7, FS_Union
    <2>2. Cardinality(Mappings' \cap gone) = 0
      BY <1>4, FS_EmptySet
    <2>3. Cardinality(Mappings') \in Nat
      BY <1>7, FS_CardinalityType
    <2> QED  BY <2>1, <2>2, <2>3, <1>6
  <1>9. Cardinality(Mappings') \in Nat
    BY <1>7, FS_CardinalityType
  <1>10. Mapped(q, span) = Cardinality(there)
    BY DEF Mapped
  <1>11. Cardinality(Mappings) = Cardinality(Mappings') + Mapped(q, span)
    BY <1>4, <1>6, <1>8, <1>10
  <1>12. Mapped(q, span) \in Nat /\ Cardinality(Mappings') = Cardinality(Mappings) - Mapped(q, span)
    BY <1>6, <1>9, <1>10, <1>11
  <1>13. buffer'[q] = Cleared(buffer[q], span)
    BY <1>1 DEF Cleared
  <1> QED  BY <1>1, <1>2, <1>12, <1>13

LEMMA OneMore ==
    ASSUME NEW S, NEW s, IsFiniteSet(S)
    PROVE  /\ IsFiniteSet(S \cup {s})
           /\ Cardinality(S \cup {s}) <= Cardinality(S) + 1
           /\ s \notin S => Cardinality(S \cup {s}) = Cardinality(S) + 1
  <1>1. Cardinality(S) \in Nat
    BY FS_CardinalityType
  <1>2. CASE s \in S
    <2>1. S \cup {s} = S
      BY <1>2
    <2> QED  BY <1>1, <1>2, <2>1
  <1>3. CASE s \notin S
    <2>1. IsFiniteSet(S \cup {s}) /\ Cardinality(S \cup {s}) = Cardinality(S) + 1
      BY <1>3, FS_AddElement
    <2> QED  BY <1>1, <1>3, <2>1
  <1> QED  BY <1>2, <1>3

(* A buffer is filled: one mapping more at most, exactly one if it was free *)
(* and is mapped.                                                           *)
LEMMA FilledMappings ==
    ASSUME NEW q \in Queues, NEW x \in Slots, NEW kind \in Kinds, BufferType,
           buffer' = [buffer EXCEPT ![q][x] = kind]
    PROVE  /\ Cardinality(Mappings') <= Cardinality(Mappings) + 1
           /\ kind \notin {"map", "skb"} => Cardinality(Mappings') <= Cardinality(Mappings)
           /\ buffer[q][x] = "free" =>
                 Cardinality(Mappings')
                    = IF kind \in {"map", "skb"} THEN Cardinality(Mappings) + 1
                                                 ELSE Cardinality(Mappings)
           /\ Cardinality(Mappings') \in Nat
           /\ BufferType'
           /\ buffer'[q] = [buffer[q] EXCEPT ![x] = kind]
           /\ \A p \in Queues : p # q => buffer'[p] = buffer[p]
  <1> DEFINE s == <<q, x>>
  <1>1. /\ buffer'[q] = [buffer[q] EXCEPT ![x] = kind]
        /\ \A p \in Queues : p # q => buffer'[p] = buffer[p]
    BY DEF BufferType
  <1>2. BufferType'
    BY DEF BufferType
  <1>3. buffer'[q][x] = kind /\ \A y \in Slots : y # x => buffer'[q][y] = buffer[q][y]
    BY <1>1 DEF BufferType
  <1>4. Mappings' \subseteq Mappings \cup {s}
    BY <1>1, <1>3 DEF Mappings
  <1>5. kind \notin {"map", "skb"} => Mappings' \subseteq Mappings
    BY <1>1, <1>3 DEF Mappings
  <1>6. ASSUME buffer[q][x] = "free"
        PROVE  /\ s \notin Mappings
               /\ kind \in {"map", "skb"} => Mappings' = Mappings \cup {s}
               /\ kind \notin {"map", "skb"} => Mappings' = Mappings
    BY <1>1, <1>3, <1>6 DEF Mappings
  <1>7. IsFiniteSet(Mappings) /\ Cardinality(Mappings) \in Nat
    BY MappingsFinite
  <1>8. /\ IsFiniteSet(Mappings \cup {s})
        /\ Cardinality(Mappings \cup {s}) <= Cardinality(Mappings) + 1
        /\ s \notin Mappings => Cardinality(Mappings \cup {s}) = Cardinality(Mappings) + 1
    <2> HIDE DEF s
    <2> QED  BY <1>7, OneMore
  <1>9. IsFiniteSet(Mappings') /\ Cardinality(Mappings') <= Cardinality(Mappings \cup {s})
    BY <1>4, <1>8, FS_Subset
  <1>10. Cardinality(Mappings') \in Nat /\ Cardinality(Mappings \cup {s}) \in Nat
    BY <1>8, <1>9, FS_CardinalityType
  <1>11. kind \notin {"map", "skb"} => Cardinality(Mappings') <= Cardinality(Mappings)
    BY <1>5, <1>7, FS_Subset
  <1>12. Cardinality(Mappings') <= Cardinality(Mappings) + 1
    BY <1>7, <1>8, <1>9, <1>10
  <1>13. buffer[q][x] = "free" =>
            Cardinality(Mappings')
               = IF kind \in {"map", "skb"} THEN Cardinality(Mappings) + 1 ELSE Cardinality(Mappings)
    BY <1>6, <1>8
  <1> QED  BY <1>1, <1>2, <1>10, <1>11, <1>12, <1>13

---------------------------------------------------------------------------
(* Types                                                                    *)

(* What the steps of the two sides leave alone.                             *)
CountTypes == InsertType /\ WriteType /\ NotifyType /\ PendingType
DoneTypes  == ReadType /\ OldType /\ EmptyType

LEMMA TypesKept ==
    ASSUME Types
    PROVE  /\ UNCHANGED countVars => CountTypes'
           /\ UNCHANGED doneVars => DoneTypes'
           /\ UNCHANGED nicVars => BellType' /\ DoneType'
           /\ UNCHANGED flagVars => FlagType'
           /\ UNCHANGED buffer => BufferType'
           /\ UNCHANGED histVars => HistType'
           /\ UNCHANGED <<skbs, coalesce>> => SkbType'
           /\ UNCHANGED tx => (tx \in TxType)'
           /\ UNCHANGED poll => (poll \in PollType)'
           /\ UNCHANGED mapped => (mapped \in Int)'
  <1>1. UNCHANGED countVars => CountTypes'
    BY DEF Types, CountTypes, countVars, InsertType, WriteType, NotifyType, PendingType
  <1>2. UNCHANGED doneVars => DoneTypes'
    BY DEF Types, DoneTypes, doneVars, ReadType, OldType, EmptyType
  <1>3. UNCHANGED nicVars => BellType' /\ DoneType'
    BY DEF Types, nicVars, BellType, DoneType
  <1>4. UNCHANGED flagVars => FlagType'
    BY DEF Types, flagVars, FlagType
  <1>5. UNCHANGED buffer => BufferType'
    BY DEF Types, BufferType
  <1>6. UNCHANGED histVars => HistType'
    BY DEF Types, histVars, HistType
  <1>7. UNCHANGED <<skbs, coalesce>> => SkbType'
    BY DEF Types, SkbType
  <1> QED  BY <1>1, <1>2, <1>3, <1>4, <1>5, <1>6, <1>7 DEF Types

LEMMA NoTxType == NoTx \in TxType
BY Sizes DEF NoTx, TxType, Stages, Counts

(* The new state of the transmit path after a packet, or a segment.         *)
LEMMA Finished ==
    ASSUME tx \in TxType, InsertType', NEW left \in 0 .. MaxDescs, left > 0 => tx.q \in Queues,
           Finish(left)
    PROVE  /\ tx' \in TxType
           /\ TxOK'
           /\ \/ tx'.stage = "idle" /\ tx'.q = NoQueue
              \/ /\ tx'.stage = "map" /\ tx'.q = tx.q /\ tx'.left = left
                 /\ tx'.q \in Queues /\ tx'.from = insert_count'[tx.q]
  <1>1. NoTx \in TxType
    BY NoTxType
  <1>2. tx.more \in BOOLEAN
    BY DEF TxType
  <1>3. CASE tx' = [NoTx EXCEPT !.more = tx.more]
    <2>1. tx' \in TxType
      BY <1>1, <1>2, <1>3 DEF TxType
    <2>2. tx'.stage = "idle" /\ tx'.q = NoQueue /\ tx'.left = 0
      BY <1>3 DEF NoTx
    <2> QED  BY <2>1, <2>2 DEF TxOK, OnItsWay
  <1>4. CASE left > 0 /\ tx' = [tx EXCEPT !.stage = "map", !.from = insert_count'[tx.q], !.left = left]
    <2>1. insert_count'[tx.q] \in Counts /\ tx.q \in Queues
      BY <1>4 DEF InsertType
    <2>2. tx' \in TxType
      BY <1>4, <2>1 DEF TxType, Stages
    <2>3. tx'.stage = "map" /\ tx'.q = tx.q /\ tx'.left = left /\ tx'.from = insert_count'[tx.q]
      BY <1>4 DEF TxType
    <2> QED  BY <1>4, <2>1, <2>2, <2>3 DEF TxOK
  <1> QED  BY <1>3, <1>4 DEF Finish

LEMMA FailedFacts ==
    ASSUME tx \in TxType, TxOK, tx.stage = "map", InsertType', Failed
    PROVE  /\ tx' \in TxType
           /\ TxOK'
           /\ \/ tx'.stage = "idle" /\ tx'.q = NoQueue
              \/ /\ tx'.stage = "map" /\ tx'.q = tx.q /\ tx'.left = tx.left - 1
                 /\ tx'.q \in Queues /\ tx'.from = insert_count'[tx.q]
              \/ tx'.stage = "push" /\ tx'.q = tx.q /\ tx'.left = tx.left - 1
  <1>1. tx.left \in 0 .. MaxDescs /\ tx.left > 0 /\ tx.q \in Queues /\ MaxDescs \in Nat
    BY Sizes DEF TxType, TxOK, OnItsWay
  <1> DEFINE left == IF tx.left > 0 THEN tx.left - 1 ELSE 0
  <1>2. left = tx.left - 1 /\ left \in 0 .. MaxDescs
    BY <1>1
  <1>3. CASE tx.more
    <2>1. Finish(left)
      BY <1>3 DEF Failed
    <2> HIDE DEF left
    <2> QED  BY <1>1, <1>2, <2>1, Finished
  <1>4. CASE ~tx.more
    <2>1. tx' = [tx EXCEPT !.stage = "push", !.left = left]
      BY <1>4 DEF Failed
    <2> HIDE DEF left
    <2>2. tx' \in TxType
      BY <1>2, <2>1 DEF TxType, Stages
    <2>3. tx'.stage = "push" /\ tx'.q = tx.q /\ tx'.left = left
      BY <2>1 DEF TxType
    <2> QED  BY <1>1, <1>2, <2>2, <2>3 DEF TxOK, OnItsWay
  <1> QED  BY <1>3, <1>4

---------------------------------------------------------------------------
(* Steps of the transmit path that change the ring                          *)

(* The values of a ring, for the lemmas about one.                          *)
LEMMA RingTyped ==
    ASSUME Types, NEW q \in Queues
    PROVE  /\ insert_count[q] \in Counts /\ write_count[q] \in Counts /\ read_count[q] \in Counts
           /\ doorbell[q] \in Slots /\ done[q] \in Slots /\ buffer[q] \in [Slots -> Kinds]
           /\ Top(q) \in Counts
           /\ Ahead(insert_count[q], read_count[q]) \in Nat
           /\ Ahead(Top(q), read_count[q]) \in Nat
  <1>1. /\ insert_count[q] \in Counts /\ write_count[q] \in Counts /\ read_count[q] \in Counts
        /\ doorbell[q] \in Slots /\ done[q] \in Slots /\ buffer[q] \in [Slots -> Kinds]
    BY DEF Types, InsertType, WriteType, ReadType, BellType, DoneType, BufferType
  <1>2. Top(q) \in Counts
    BY <1>1 DEF Types, TxType, Top
  <1> QED  BY <1>1, <1>2, AheadRange

(* A ring on which nothing happens.                                         *)
LEMMA RingKept ==
    ASSUME NEW q \in Queues, Ring(q), Top(q)' = Top(q),
           insert_count'[q] = insert_count[q], write_count'[q] = write_count[q],
           read_count'[q] = read_count[q], doorbell'[q] = doorbell[q], done'[q] = done[q],
           buffer'[q] = buffer[q]
    PROVE  Ring(q)'
BY DEF Ring

(* A descriptor is added.                                                   *)
LEMMA InsertKeeps ==
    ASSUME IInv, tx.stage = "map", NEW kind \in Kinds \ {"free"}, kind # "map" \/ tx.left > 1,
           Insert(kind),
           mapped' = IF kind \in {"map", "skb"} THEN mapped + 1 ELSE mapped,
           UNCHANGED <<write_count, notify_count, xmit_pending, doneVars, nicVars, flagVars, poll,
                       skbs, histVars>>
    PROVE  IInv'
  <1>1. Types /\ TxOK /\ MappedEnough
    BY DEF IInv
  <1>0. PICK q \in Queues : q = tx.q
    BY <1>1 DEF TxOK, OnItsWay
  <1> DEFINE i == insert_count[q]  r == read_count[q]  w == write_count[q]
             b == doorbell[q]  d == done[q]  slot == Slot(i)
  <1>2. q = tx.q /\ tx.left > 0 /\ tx.left \in 0 .. MaxDescs /\ tx \in TxType
    BY <1>0, <1>1 DEF TxOK, Types, TxType
  <1>3. i \in Counts /\ slot \in Slots /\ r \in Counts
    BY <1>1, <1>2, RingTyped, SlotOf
  <1>4. /\ insert_count' = [insert_count EXCEPT ![q] = Incr(i, 1)]
        /\ buffer' = [buffer EXCEPT ![q][slot] = kind]
        /\ tx' = [tx EXCEPT !.left = tx.left - 1,
                            !.stage = IF kind \in Ends THEN "mapped" ELSE "map"]
    BY <1>0 DEF Insert
  <1>5. Incr(i, 1) \in Counts
    BY <1>3, IncrRange
  <1>6. insert_count'[q] = Incr(i, 1)
        /\ \A p \in Queues : p # q => insert_count'[p] = insert_count[p]
    BY <1>1, <1>2, <1>4 DEF Types, InsertType
  <1>7. /\ tx'.stage = IF kind \in Ends THEN "mapped" ELSE "map"
        /\ tx'.q = q /\ tx'.left = tx.left - 1 /\ tx'.from = tx.from
    BY <1>2, <1>4 DEF TxType
  <1>8. tx' \in TxType
    <2>1. tx.left - 1 \in 0 .. MaxDescs
      BY <1>2, Sizes
    <2> QED  BY <2>1, <1>2, <1>4 DEF TxType, Stages
  <1>9. BufferType
    BY <1>1 DEF Types
  <1>10. /\ Cardinality(Mappings') <= Cardinality(Mappings) + 1
         /\ kind \notin {"map", "skb"} => Cardinality(Mappings') <= Cardinality(Mappings)
         /\ buffer[q][slot] = "free" =>
               Cardinality(Mappings')
                  = IF kind \in {"map", "skb"} THEN Cardinality(Mappings) + 1
                                               ELSE Cardinality(Mappings)
         /\ Cardinality(Mappings') \in Nat
         /\ BufferType'
         /\ buffer'[q] = [buffer[q] EXCEPT ![slot] = kind]
         /\ \A p \in Queues : p # q => buffer'[p] = buffer[p]
    <2> HIDE DEF slot
    <2> QED  BY <1>3, <1>4, <1>9, FilledMappings
  <1>11. Types'
    <2>1. InsertType'
      BY <1>1, <1>2, <1>4, <1>5 DEF Types, InsertType
    <2>2. mapped' \in Int
      BY <1>1 DEF Types
    <2> QED  BY <2>1, <2>2, <1>1, <1>8, <1>10
             DEF Types, WriteType, NotifyType, PendingType, ReadType, OldType, EmptyType,
                 BellType, DoneType, FlagType, HistType, SkbType,
                 doneVars, nicVars, flagVars, histVars
  <1>12. TxOK'
    <2>1. kind \notin Ends => kind = "map"
      BY DEF Kinds
    <2> QED  BY <2>1, <1>2, <1>7 DEF TxOK, OnItsWay
  <1>13. MappedEnough'
    <2>1. mapped \in Int /\ Cardinality(Mappings) \in Nat /\ mapped >= Cardinality(Mappings)
      BY <1>1, MappingsFinite DEF Types, MappedEnough
    <2> QED  BY <2>1, <1>10 DEF MappedEnough
  <1>14. ASSUME ~overtaken'  PROVE Sound'
    <2>1. Sound
      BY <1>14 DEF IInv, histVars
    <2>2. /\ write_count' = write_count /\ read_count' = read_count /\ doorbell' = doorbell
          /\ done' = done /\ stopped' = stopped /\ spurious' = spurious
      BY DEF doneVars, nicVars, flagVars, histVars
    <2>3. Top(q) = tx.from
      BY <1>2 DEF Top
    <2>4. RingOK(i, tx.from, w, r, b, d, buffer[q])
      BY <2>1, <2>3, <1>2 DEF Sound, Ring
    <2>5. Ahead(i, r) + tx.left < Entries /\ Ahead(i, r) \in Nat
      BY <2>1, <1>1, <1>2, RingTyped DEF Sound, Fits
    <2>6. Ahead(i, r) + 1 < Entries
      BY <2>5, <1>2, Sizes
    <2> DEFINE put == [buffer[q] EXCEPT ![slot] = kind]  n == Incr(i, 1)
    <2>7. /\ buffer[q][slot] = "free"
          /\ Ahead(n, r) = Ahead(i, r) + 1
          /\ RingOK(n, tx.from, w, r, b, d, put)
          /\ kind \in Ends => RingOK(n, n, w, r, b, d, put)
      BY <2>4, <2>6, RingInsert
    <2>8. Ring(q)'
      <3>1. Top(q)' = IF kind \in Ends THEN n ELSE tx.from
        BY <1>6, <1>7 DEF Top
      <3> QED  BY <2>2, <2>7, <3>1, <1>6, <1>10 DEF Ring
    <2>9. \A p \in Queues : p # q => Top(p) = Top(p)'
      BY <1>2, <1>6, <1>7 DEF Top
    <2>10. \A p \in Queues : Ring(p)'
      <3>1. ASSUME NEW p \in Queues, p # q  PROVE Ring(p)'
        BY <3>1, <2>1, <2>2, <2>9, <1>6, <1>10, RingKept DEF Sound
      <3> QED  BY <3>1, <2>8
    <2>11. Room'
      <3>1. CASE kind \in Ends
        BY <3>1, <1>7 DEF Room
      <3>2. CASE kind \notin Ends
        <4>1. \A p \in Queues : Top(p)' = Top(p)
          BY <3>2, <2>3, <2>9, <1>7 DEF Top
        <4>2. stopped \/ \A p \in Queues : Ahead(Top(p), read_count[p]) < txq_stop_thresh
          BY <2>1 DEF Sound, Room
        <4> QED  BY <4>1, <4>2, <2>2 DEF Room
      <3> QED  BY <3>1, <3>2
    <2>12. Fits'
      <3>1. Ahead(n, r) + (tx.left - 1) < Entries
        BY <2>5, <2>7, <1>2, Sizes
      <3> QED  BY <3>1, <2>2, <1>6, <1>7 DEF Fits
    <2>13. (mapped = Cardinality(Mappings))'
      BY <2>1, <2>7, <1>10 DEF Sound
    <2> QED  BY <2>1, <2>2, <2>10, <2>11, <2>12, <2>13 DEF Sound
  <1> QED  BY <1>11, <1>12, <1>13, <1>14 DEF IInv

(* A packet fails, and what it had put on the ring is taken back.           *)
LEMMA UnwindKeeps ==
    ASSUME IInv, tx.stage = "map", NEW leaked \in Nat, Unwind(leaked), leaked = 0 \/ InUse,
           UNCHANGED <<write_count, notify_count, xmit_pending, doneVars, nicVars, flagVars, poll,
                       skbs, histVars>>
    PROVE  IInv'
  <1>1. Types /\ TxOK /\ MappedEnough
    BY DEF IInv
  <1>0. PICK q \in Queues : q = tx.q
    BY <1>1 DEF TxOK, OnItsWay
  <1> DEFINE i == insert_count[q]  t == tx.from  r == read_count[q]  w == write_count[q]
             b == doorbell[q]  d == done[q]  span == Span(t, (i - t) % CountSpace)
  <1>2. q = tx.q /\ tx.left > 0 /\ tx.left \in 0 .. MaxDescs /\ tx \in TxType
    BY <1>0, <1>1 DEF TxOK, Types, TxType
  <1>3. i \in Counts /\ t \in Counts /\ r \in Counts
    BY <1>1, <1>2, RingTyped DEF TxType
  <1>4. /\ insert_count' = [insert_count EXCEPT ![q] = t]
        /\ buffer' = Emptied(q, span)
        /\ mapped' = mapped - Mapped(q, span) + leaked
        /\ Failed
    BY <1>0 DEF Unwind, Inserted
  <1>5. span \in SUBSET Slots
    <2>1. (i - t) % CountSpace \in Int
      BY <1>3, AheadRange DEF Ahead
    <2> QED  BY <1>3, <2>1, SpanSlots
  <1>6. insert_count'[q] = t /\ InsertType'
        /\ \A p \in Queues : p # q => insert_count'[p] = insert_count[p]
    BY <1>1, <1>3, <1>4 DEF Types, InsertType
  <1>7. /\ tx' \in TxType
        /\ TxOK'
        /\ \/ tx'.stage = "idle" /\ tx'.q = NoQueue
           \/ tx'.stage = "map" /\ tx'.q = q /\ tx'.left = tx.left - 1 /\ tx'.from = t
           \/ tx'.stage = "push" /\ tx'.q = q /\ tx'.left = tx.left - 1
    BY <1>1, <1>2, <1>4, <1>6, FailedFacts
  <1>8. /\ Cardinality(Mappings') = Cardinality(Mappings) - Mapped(q, span)
        /\ Mapped(q, span) \in Nat
        /\ BufferType'
        /\ buffer'[q] = Cleared(buffer[q], span)
        /\ \A p \in Queues : p # q => buffer'[p] = buffer[p]
    <2> HIDE DEF span
    <2> QED  BY <1>1, <1>4, <1>5, EmptiedMappings DEF Types
  <1>9. mapped \in Int /\ Cardinality(Mappings) \in Nat
    BY <1>1, MappingsFinite DEF Types
  <1>10. Types'
    <2>1. mapped' \in Int
      BY <1>4, <1>8, <1>9
    <2> QED  BY <2>1, <1>1, <1>6, <1>7, <1>8
             DEF Types, WriteType, NotifyType, PendingType, ReadType, OldType, EmptyType,
                 BellType, DoneType, FlagType, HistType, SkbType,
                 doneVars, nicVars, flagVars, histVars
  <1>11. MappedEnough'
    BY <1>1, <1>4, <1>8, <1>9 DEF MappedEnough
  <1>12. ASSUME ~overtaken'  PROVE Sound'
    <2>1. Sound
      BY <1>12 DEF IInv, histVars
    <2>2. /\ write_count' = write_count /\ read_count' = read_count /\ doorbell' = doorbell
          /\ done' = done /\ stopped' = stopped /\ spurious' = spurious
      BY DEF doneVars, nicVars, flagVars, histVars
    <2>3. Top(q) = t /\ \A p \in Queues : p # q => Top(p) = insert_count[p]
      BY <1>2 DEF Top
    <2>4. RingOK(i, t, w, r, b, d, buffer[q])
      BY <2>1, <2>3, <1>2 DEF Sound, Ring
    <2>5. RingOK(t, t, w, r, b, d, Cleared(buffer[q], span))
      BY <2>4, RingUnwind
    <2>6. Ahead(t, r) <= Ahead(i, r) /\ Ahead(i, r) < Entries /\ Ahead(i, r) \in Nat
          /\ Ahead(t, r) \in Nat
      BY <2>4, <1>3, AheadRange DEF RingOK, InOrder
    <2>7. leaked = 0
      <3>1. buffer[q][Slot(i)] = "free"
        BY <2>4, <2>6, <1>1, RingTyped, NextFree DEF RingOK
      <3> QED  BY <3>1, <1>2 DEF InUse
    <2>8. \A p \in Queues : Top(p)' = Top(p)
      BY <2>3, <1>6, <1>7 DEF Top
    <2>9. Ring(q)'
      BY <2>2, <2>3, <2>5, <2>8, <1>6, <1>8 DEF Ring
    <2>10. \A p \in Queues : Ring(p)'
      <3>1. ASSUME NEW p \in Queues, p # q  PROVE Ring(p)'
        BY <3>1, <2>1, <2>2, <2>8, <1>6, <1>8, RingKept DEF Sound
      <3> QED  BY <3>1, <2>9
    <2>11. Room'
      <3>1. stopped \/ \A p \in Queues : Ahead(Top(p), read_count[p]) < txq_stop_thresh
        BY <2>1 DEF Sound, Room
      <3> QED  BY <3>1, <2>2, <2>8 DEF Room
    <2>12. Fits'
      <3>1. Ahead(i, r) + tx.left < Entries
        BY <2>1, <1>2 DEF Sound, Fits
      <3>2. Ahead(t, r) + (tx.left - 1) < Entries
        BY <3>1, <2>6, <1>2, Sizes
      <3> QED  BY <3>2, <2>2, <1>6, <1>7, QueuesNamed DEF Fits
    <2>13. (mapped = Cardinality(Mappings))'
      BY <2>1, <2>7, <1>4, <1>8, <1>9 DEF Sound
    <2> QED  BY <2>1, <2>2, <2>10, <2>11, <2>12, <2>13 DEF Sound
  <1> QED  BY <1>7, <1>10, <1>11, <1>12 DEF IInv

LEMMA MapStepKeeps ==
    ASSUME IInv, MapStep
    PROVE  IInv'
  <1>1. ASSUME NEW kind \in {"map", "skb"}, MapFragment(kind)  PROVE IInv'
    <2>1. kind \in Kinds \ {"free"} /\ (kind # "map" \/ tx.left > 1) /\ tx.stage = "map"
      BY <1>1 DEF MapFragment, Kinds, Ends
    <2>2. UNCHANGED <<write_count, notify_count, xmit_pending, doneVars, nicVars, flagVars, poll,
                      skbs, histVars>>
      BY <1>1 DEF MapFragment
    <2>3. CASE InUse
      <3>1. Unwind(1)
        BY <1>1, <2>3 DEF MapFragment
      <3> QED  BY <2>1, <2>2, <2>3, <3>1, UnwindKeeps
    <2>4. CASE ~InUse
      <3>1. Insert(kind) /\ mapped' = mapped + 1
        BY <1>1, <2>4 DEF MapFragment
      <3> QED  BY <1>1, <2>1, <2>2, <3>1, InsertKeeps
    <2> QED  BY <2>3, <2>4
  <1>2. CASE MapFails
    BY <1>2, UnwindKeeps DEF MapFails
  <1>3. CASE CopyPacket
    <2>1. "copy" \in Kinds \ {"free"} /\ "copy" \notin {"map", "skb"}
      BY DEF Kinds, Ends
    <2>2. mapped' = IF "copy" \in {"map", "skb"} THEN mapped + 1 ELSE mapped
      BY <1>3, <2>1 DEF CopyPacket
    <2>3. tx.stage = "map" /\ Insert("copy")
          /\ UNCHANGED <<write_count, notify_count, xmit_pending, doneVars, nicVars, flagVars, poll,
                         skbs, histVars>>
      BY <1>3 DEF CopyPacket
    <2> QED  BY <2>1, <2>2, <2>3, InsertKeeps
  <1>4. CASE PioPacket
    <2>1. "pio" \in Kinds \ {"free"} /\ "pio" \notin {"map", "skb"}
      BY DEF Kinds, Ends
    <2>2. mapped' = IF "pio" \in {"map", "skb"} THEN mapped + 1 ELSE mapped
      BY <1>4, <2>1 DEF PioPacket
    <2>3. tx.stage = "map" /\ Insert("pio")
          /\ UNCHANGED <<write_count, notify_count, xmit_pending, doneVars, nicVars, flagVars, poll,
                         skbs, histVars>>
      BY <1>4 DEF PioPacket
    <2> QED  BY <2>1, <2>2, <2>3, InsertKeeps
  <1> QED  BY <1>1, <1>2, <1>3, <1>4 DEF MapStep

---------------------------------------------------------------------------
(* Doorbells                                                                *)

(* A queue's descriptors are written, or a doorbell is rung: whichever of   *)
(* the two sides does it, the other things about the rings stay.            *)
LEMMA BellKeeps ==
    ASSUME IInv, NEW q \in Queues,
           \/ write_count' = write_count /\ UNCHANGED doorbell
           \/ write_count' = write_count /\ doorbell' = [doorbell EXCEPT ![q] = Slot(write_count[q])]
           \/ /\ tx.stage # "map"
              /\ write_count' = [write_count EXCEPT ![q] = insert_count[q]]
              /\ \/ UNCHANGED doorbell
                 \/ doorbell' = [doorbell EXCEPT ![q] = Slot(insert_count[q])],
           notify_count' \in [Queues -> Counts], xmit_pending' \in [Queues -> BOOLEAN],
           tx' \in TxType, TxOK', poll' \in PollType, unsaid' \in BOOLEAN,
           tx'.stage \notin {"mapped", "stop"} \/ UNCHANGED tx,
           tx.stage \notin {"mapped", "stop"} \/ UNCHANGED tx,
           tx.stage = "map" \/ tx'.stage = "map" => UNCHANGED tx,
           tx'.q = tx.q /\ tx'.left = tx.left,
           UNCHANGED <<insert_count, doneVars, done, flagVars, buffer, mapped, skbs, spurious,
                       overtaken>>
    PROVE  IInv'
  <1>1. Types /\ TxOK /\ MappedEnough
    BY DEF IInv
  <1>2. /\ insert_count[q] \in Counts /\ write_count[q] \in Counts
        /\ Slot(insert_count[q]) \in Slots /\ Slot(write_count[q]) \in Slots
    BY <1>1, RingTyped, SlotOf
  <1>3. WriteType' /\ BellType'
    BY <1>1, <1>2 DEF Types, WriteType, BellType
  <1>4. Types'
    BY <1>1, <1>3
       DEF Types, InsertType, NotifyType, PendingType, ReadType, OldType, EmptyType,
           BufferType, DoneType, FlagType, HistType, SkbType, doneVars, flagVars
  <1>5. MappedEnough'
    BY <1>1 DEF MappedEnough, Mappings
  <1>6. ASSUME ~overtaken'  PROVE Sound'
    <2>1. Sound
      BY <1>6 DEF IInv
    <2>2. /\ read_count' = read_count /\ done' = done /\ stopped' = stopped /\ spurious' = spurious
          /\ buffer' = buffer /\ insert_count' = insert_count /\ mapped' = mapped
      BY DEF doneVars, flagVars
    <2>3. \A p \in Queues : Top(p)' = Top(p)
      BY <2>2 DEF Top
    <2>4. \A p \in Queues : p # q => write_count'[p] = write_count[p] /\ doorbell'[p] = doorbell[p]
      BY <1>1 DEF Types, WriteType, BellType
    <2> DEFINE i == insert_count[q]  t == Top(q)  w == write_count[q]  r == read_count[q]
               d == done[q]  f == buffer[q]
    <2>5. RingOK(i, t, w, r, doorbell[q], d, f)
      BY <2>1 DEF Sound, Ring
    <2>6. RingOK(i, t, write_count'[q], r, doorbell'[q], d, f)
      <3>1. CASE write_count' = write_count /\ UNCHANGED doorbell
        BY <2>5, <3>1
      <3>2. CASE write_count' = write_count /\ doorbell' = [doorbell EXCEPT ![q] = Slot(write_count[q])]
        <4>1. doorbell'[q] = Slot(w) /\ write_count'[q] = w
          BY <1>1, <3>2 DEF Types, BellType
        <4> QED  BY <2>5, <4>1, RingBell
      <3>3. CASE /\ tx.stage # "map"
                 /\ write_count' = [write_count EXCEPT ![q] = insert_count[q]]
                 /\ \/ UNCHANGED doorbell
                    \/ doorbell' = [doorbell EXCEPT ![q] = Slot(insert_count[q])]
        <4>1. write_count'[q] = i /\ t = i
          BY <1>1, <3>3 DEF Types, WriteType, Top
        <4>2. RingOK(i, t, i, r, doorbell[q], d, f)
          BY <2>5, <4>1, RingWrite
        <4>3. RingOK(i, t, i, r, Slot(i), d, f)
          BY <4>2, RingBell
        <4>4. doorbell'[q] \in {doorbell[q], Slot(i)}
          BY <1>1, <1>2, <3>3 DEF Types, BellType
        <4> QED  BY <4>1, <4>2, <4>3, <4>4
      <3> QED  BY <3>1, <3>2, <3>3
    <2>7. \A p \in Queues : Ring(p)'
      <3>1. ASSUME NEW p \in Queues, p # q  PROVE Ring(p)'
        BY <3>1, <2>1, <2>2, <2>3, <2>4, RingKept DEF Sound
      <3>2. Ring(q)'
        BY <2>2, <2>3, <2>6 DEF Ring
      <3> QED  BY <3>1, <3>2
    <2>8. Room'
      BY <2>1, <2>2, <2>3 DEF Sound, Room
    <2>9. Fits'
      BY <2>1, <2>2 DEF Sound, Fits
    <2>10. Mappings' = Mappings
      BY <2>2 DEF Mappings
    <2> QED  BY <2>1, <2>2, <2>7, <2>8, <2>9, <2>10 DEF Sound
  <1> QED  BY <1>4, <1>5, <1>6 DEF IInv

LEMMA SendPendingKeeps ==
    ASSUME IInv, NEW q \in Queues, SendPending(q)
    PROVE  IInv'
  <1>1. Types /\ TxOK
    BY DEF IInv
  <1>2. insert_count[q] \in Counts
    BY <1>1, RingTyped
  <1>3. notify_count' \in [Queues -> Counts] /\ xmit_pending' \in [Queues -> BOOLEAN]
    BY <1>1, <1>2 DEF SendPending, Types, NotifyType, PendingType
  <1>4. tx.stage = "push" /\ tx \in TxType
    BY <1>1 DEF SendPending, Types
  <1>5. \/ UNCHANGED tx
        \/ tx' = [tx EXCEPT !.stage = "holdoff", !.ring = q]
    BY DEF SendPending
  <1>6. /\ tx' \in TxType /\ TxOK'
        /\ tx'.stage \in {"push", "holdoff"} /\ tx'.q = tx.q /\ tx'.left = tx.left
    <2>1. CASE UNCHANGED tx
      BY <2>1, <1>1, <1>4 DEF TxOK
    <2>2. CASE tx' = [tx EXCEPT !.stage = "holdoff", !.ring = q]
      <3>1. /\ tx' \in TxType /\ tx'.stage = "holdoff" /\ tx'.ring = q
            /\ tx'.q = tx.q /\ tx'.left = tx.left
        BY <2>2, <1>4 DEF TxType, Stages
      <3> QED  BY <3>1, <1>1 DEF TxOK, OnItsWay
    <2> QED  BY <2>1, <2>2, <1>5
  <1>7. /\ write_count' = [write_count EXCEPT ![q] = insert_count[q]]
        /\ \/ UNCHANGED doorbell
           \/ doorbell' = [doorbell EXCEPT ![q] = Slot(insert_count[q])]
        /\ UNCHANGED <<insert_count, doneVars, done, flagVars, buffer, poll, mapped, skbs, histVars>>
    BY DEF SendPending
  <1>8. poll' \in PollType /\ unsaid' \in BOOLEAN /\ UNCHANGED <<spurious, overtaken>>
    BY <1>1, <1>7 DEF Types, HistType, histVars
  <1> QED  BY <1>3, <1>4, <1>6, <1>7, <1>8, BellKeeps

LEMMA TestHoldoffKeeps ==
    ASSUME IInv, TestHoldoff
    PROVE  IInv'
  <1>1. Types /\ TxOK
    BY DEF IInv
  <1>2. tx.stage = "holdoff" /\ tx \in TxType
    BY <1>1 DEF TestHoldoff, Types
  <1>3. PICK q \in Queues : q = tx.ring
    BY <1>1, <1>2 DEF TxOK
  <1>4. write_count[q] \in Counts
    BY <1>1, RingTyped
  <1>5. notify_count' \in [Queues -> Counts] /\ xmit_pending' \in [Queues -> BOOLEAN]
    BY <1>1, <1>3, <1>4 DEF TestHoldoff, Types, NotifyType, PendingType
  <1>6. tx' = [tx EXCEPT !.stage = "push", !.ring = NoQueue]
    BY DEF TestHoldoff
  <1>7. /\ tx' \in TxType /\ tx'.stage = "push" /\ tx'.q = tx.q /\ tx'.left = tx.left
    BY <1>2, <1>6 DEF TxType, Stages
  <1>8. TxOK'
    BY <1>1, <1>7 DEF TxOK, OnItsWay
  <1>9. /\ \/ UNCHANGED doorbell
           \/ doorbell' = [doorbell EXCEPT ![q] = Slot(write_count[q])]
        /\ UNCHANGED <<insert_count, write_count, doneVars, done, flagVars, buffer, poll, mapped,
                       skbs, histVars>>
    BY <1>3 DEF TestHoldoff
  <1>10. poll' \in PollType /\ unsaid' \in BOOLEAN /\ UNCHANGED <<spurious, overtaken>>
    BY <1>1, <1>9 DEF Types, HistType, histVars
  <1> QED  BY <1>2, <1>5, <1>7, <1>8, <1>9, <1>10, BellKeeps

(* The poll rings, and notes that it did.                                   *)
LEMMA PollRingKeeps ==
    ASSUME IInv, (\E q \in Queues : PollRing(q)) \/ PollRang
    PROVE  IInv'
  <1>1. Types /\ TxOK /\ tx \in TxType /\ poll \in PollType
    BY DEF IInv, Types
  <1>2. ASSUME NEW q \in Queues, PollRing(q)  PROVE IInv'
    <2>1. /\ UNCHANGED <<insert_count, write_count, notify_count, xmit_pending, doneVars, done,
                         flagVars, buffer, tx, mapped, skbs, histVars>>
          /\ \/ UNCHANGED doorbell
             \/ doorbell' = [doorbell EXCEPT ![q] = Slot(write_count[q])]
          /\ \/ poll' = [poll EXCEPT !.ring = q]
             \/ poll' = [poll EXCEPT !.todo = poll.todo \ {q}]
      BY <1>2 DEF PollRing, countVars
    <2>2. poll' \in PollType
      BY <1>1, <2>1 DEF PollType
    <2>3. notify_count' \in [Queues -> Counts] /\ xmit_pending' \in [Queues -> BOOLEAN]
          /\ tx' \in TxType /\ TxOK' /\ unsaid' \in BOOLEAN /\ UNCHANGED <<spurious, overtaken>>
      BY <1>1, <2>1 DEF Types, NotifyType, PendingType, HistType, TxOK, histVars
    <2> QED  BY <2>1, <2>2, <2>3, BellKeeps
  <1>3. CASE PollRang
    <2>1. PICK q \in Queues : q = poll.ring
      BY <1>1, <1>3 DEF PollRang, PollType
    <2>2. write_count[q] \in Counts
      BY <1>1, RingTyped
    <2>3. /\ UNCHANGED <<insert_count, write_count, xmit_pending, doneVars, doorbell, done,
                         flagVars, buffer, tx, mapped, skbs, spurious, overtaken>>
          /\ notify_count' = [notify_count EXCEPT ![q] = write_count[q]]
          /\ unsaid' = (unsaid \/ doorbell[q] # Slot(write_count[q]))
          /\ poll' = [poll EXCEPT !.ring = NoQueue, !.todo = poll.todo \ {q}]
      BY <1>3, <2>1 DEF PollRang, nicVars
    <2>4. poll' \in PollType
      BY <1>1, <2>3 DEF PollType
    <2>5. notify_count' \in [Queues -> Counts] /\ xmit_pending' \in [Queues -> BOOLEAN]
      BY <1>1, <2>2, <2>3 DEF Types, NotifyType, PendingType
    <2>6. tx' \in TxType /\ TxOK'
      BY <1>1, <2>3 DEF TxOK
    <2>7. unsaid' \in BOOLEAN
      BY <2>3, Zenon
    <2> QED  BY <2>3, <2>4, <2>5, <2>6, <2>7, BellKeeps
  <1> QED  BY <1>2, <1>3

---------------------------------------------------------------------------
(* Completions                                                              *)

(* An event takes descriptors off a ring.                                   *)
LEMMA PollEventKeeps ==
    ASSUME IInv, NEW q \in Queues, NEW n, PollEvent(q, n)
    PROVE  IInv'
  <1> DEFINE i == insert_count[q]  t == Top(q)  w == write_count[q]  r == read_count[q]
             b == doorbell[q]  d == done[q]  f == buffer[q]
             count == (d + n - r) % Entries
  <1>1. Types /\ TxOK /\ MappedEnough
    BY DEF IInv
  <1>2. i \in Counts /\ w \in Counts /\ r \in Counts /\ b \in Slots /\ d \in Slots /\ r \in Int
        /\ b \in Int /\ d \in Int /\ Entries \in Nat /\ Entries # 0
    BY <1>1, RingTyped, Sizes DEF Counts, Slots
  <1>3. n \in 1 .. (b - d) % Entries
    BY DEF PollEvent, Reportable
  <1>4. count \in Int
    <2>1. d + n - r \in Int
      BY <1>2, <1>3
    <2> QED  BY <2>1, <1>2, ModDef
  <1>5. PICK taken \in 0 .. count :
           /\ \A k \in 0 .. taken - 1 : f[Slot(r + k)] # "free"
           /\ taken = count \/ ~(f[Slot(r + taken)] # "free")
           /\ spurious' = (spurious \/ taken # count)
           /\ Dequeue(q, taken)
    BY DEF PollEvent
  <1> DEFINE span == Span(r, taken)  read == Incr(r, taken)
  <1>6. /\ buffer' = Emptied(q, span)
        /\ mapped' = mapped - Mapped(q, span)
        /\ read_count' = [read_count EXCEPT ![q] = read]
        /\ CheckEmpty(q, read)
    BY <1>5 DEF Dequeue
  <1>7. /\ done' = [done EXCEPT ![q] = Slot(d + n)]
        /\ UNCHANGED <<countVars, doorbell, flagVars, tx, poll, skbs, overtaken, unsaid>>
    BY DEF PollEvent
  <1>8. taken \in Int /\ read \in Counts /\ span \in SUBSET Slots
    <2>1. taken \in Int
      BY <1>4, <1>5
    <2> QED  BY <2>1, <1>2, IncrRange, SpanSlots
  <1>9. Slot(d + n) \in Slots
    <2>1. d + n \in Int
      BY <1>2, <1>3
    <2> QED  BY <2>1, CountRange
  <1>10. ReadType' /\ DoneType' /\ read_count'[q] = read /\ done'[q] = Slot(d + n)
         /\ \A p \in Queues : p # q => read_count'[p] = read_count[p] /\ done'[p] = done[p]
    BY <1>1, <1>6, <1>7, <1>8, <1>9 DEF Types, ReadType, DoneType
  <1>11. OldType' /\ EmptyType'
    <2>1. read % (CountSpace \div 2) \in 0 .. CountSpace \div 2 - 1
      <3> DEFINE half == CountSpace \div 2
      <3>1. half \in Nat /\ half # 0 /\ read \in Int
        BY <1>8, Sizes DEF Counts
      <3> HIDE DEF half, read
      <3>2. read % half \in 0 .. half - 1
        BY <3>1, ModDef
      <3> QED  BY <3>2 DEF half
    <2> HIDE DEF read
    <2>2. OldType'
      BY <1>1, <1>2, <1>6 DEF CheckEmpty, Types, OldType
    <2>3. EmptyType'
      BY <1>1, <1>6, <2>1 DEF CheckEmpty, Types, EmptyType
    <2> QED  BY <2>2, <2>3
  <1>12. /\ Cardinality(Mappings') = Cardinality(Mappings) - Mapped(q, span)
         /\ Mapped(q, span) \in Nat
         /\ BufferType'
         /\ buffer'[q] = Cleared(f, span)
         /\ \A p \in Queues : p # q => buffer'[p] = buffer[p]
    <2> HIDE DEF span
    <2> QED  BY <1>1, <1>6, <1>8, EmptiedMappings DEF Types
  <1>13. mapped \in Int /\ Cardinality(Mappings) \in Nat
    BY <1>1, MappingsFinite DEF Types
  <1>14. spurious' \in BOOLEAN
    BY <1>5, Zenon
  <1>15. Types'
    <2>1. mapped' \in Int
      BY <1>6, <1>12, <1>13
    <2> QED  BY <2>1, <1>1, <1>7, <1>10, <1>11, <1>12, <1>14
             DEF Types, InsertType, WriteType, NotifyType, PendingType, BellType, FlagType,
                 HistType, SkbType, countVars, flagVars
  <1>16. TxOK'
    BY <1>1, <1>7 DEF TxOK
  <1>17. MappedEnough'
    BY <1>1, <1>6, <1>12, <1>13 DEF MappedEnough
  <1>18. ASSUME ~overtaken'  PROVE Sound'
    <2>1. Sound
      BY <1>7, <1>18 DEF IInv
    <2>2. RingOK(i, t, w, r, b, d, f)
      BY <2>1 DEF Sound, Ring
    <2>3. /\ count = n
          /\ \A k \in 0 .. n - 1 : f[Slot(r + k)] # "free"
          /\ Ahead(i, Incr(r, n)) <= Ahead(i, r)
          /\ Ahead(t, Incr(r, n)) <= Ahead(t, r)
          /\ RingOK(i, t, w, Incr(r, n), b, Slot(d + n), Cleared(f, Span(r, n)))
      BY <2>2, <1>3, RingDequeue
    <2>4. taken = n
      <3>1. taken # n => taken \in 0 .. n - 1
        BY <1>4, <1>5, <2>3
      <3> QED  BY <3>1, <1>5, <2>3
    <2>5. /\ RingOK(i, t, w, read, b, Slot(d + n), Cleared(f, span))
          /\ Ahead(i, read) <= Ahead(i, r) /\ Ahead(t, read) <= Ahead(t, r)
      BY <2>3, <2>4
    <2>6. ~spurious'
      BY <1>5, <2>1, <2>3, <2>4 DEF Sound
    <2>7. /\ insert_count' = insert_count /\ write_count' = write_count /\ tx' = tx
          /\ doorbell' = doorbell /\ stopped' = stopped
      BY <1>7 DEF countVars, flagVars
    <2>8. \A p \in Queues : Top(p)' = Top(p)
      BY <2>7 DEF Top
    <2>9. \A p \in Queues : Ring(p)'
      <3>1. ASSUME NEW p \in Queues, p # q  PROVE Ring(p)'
        BY <3>1, <2>1, <2>7, <2>8, <1>10, <1>12, RingKept DEF Sound
      <3>2. Ring(q)'
        BY <2>5, <2>7, <2>8, <1>10, <1>12 DEF Ring
      <3> QED  BY <3>1, <3>2
    <2>10. \A p \in Queues :
              /\ Ahead(Top(p), read_count[p])' <= Ahead(Top(p), read_count[p])
              /\ Ahead(insert_count[p], read_count[p])' <= Ahead(insert_count[p], read_count[p])
      <3> SUFFICES ASSUME NEW p \in Queues
                   PROVE  /\ Ahead(Top(p), read_count[p])' <= Ahead(Top(p), read_count[p])
                          /\ Ahead(insert_count[p], read_count[p])'
                                <= Ahead(insert_count[p], read_count[p])
        OBVIOUS
      <3>1. CASE p = q
        BY <3>1, <2>5, <2>7, <2>8, <1>10
      <3>2. CASE p # q
        BY <3>2, <2>7, <2>8, <1>1, <1>10, RingTyped
      <3> QED  BY <3>1, <3>2
    <2>11. \A p \in Queues :
              /\ Ahead(Top(p), read_count[p])' \in Nat /\ Ahead(Top(p), read_count[p]) \in Nat
              /\ Ahead(insert_count[p], read_count[p])' \in Nat
              /\ Ahead(insert_count[p], read_count[p]) \in Nat
      <3>1. \A p \in Queues :
               read_count'[p] \in Counts /\ insert_count'[p] \in Counts /\ Top(p)' \in Counts
        BY <1>1, <1>10, <2>7, <2>8, RingTyped DEF ReadType
      <3> QED  BY <3>1, <1>1, AheadRange, RingTyped
    <2>12. Room'
      BY <2>1, <2>7, <2>10, <2>11, Sizes DEF Sound, Room, txq_stop_thresh
    <2>13. Fits'
      <3>1. tx.left \in Int
        BY <1>1 DEF Types, TxType
      <3> QED  BY <3>1, <2>1, <2>7, <2>10, <2>11, Sizes DEF Sound, Fits
    <2>14. (mapped = Cardinality(Mappings))'
      BY <2>1, <1>6, <1>12 DEF Sound
    <2> QED  BY <2>6, <2>9, <2>12, <2>13, <2>14 DEF Sound
  <1> QED  BY <1>15, <1>16, <1>17, <1>18 DEF IInv

---------------------------------------------------------------------------
(* Steps that leave the rings alone                                         *)

LEMMA QuietKeeps ==
    ASSUME IInv,
           UNCHANGED <<insert_count, write_count, notify_count, doneVars, nicVars, buffer, coalesce,
                       mapped, spurious>>,
           xmit_pending' \in [Queues -> BOOLEAN], stopped' \in BOOLEAN, holdoff' \in BOOLEAN,
           overtaken' \in BOOLEAN, unsaid' \in BOOLEAN, SkbType', tx' \in TxType, TxOK', poll' \in PollType,
           \A q \in Queues : Top(q)' = Top(q),
           ~overtaken' => ~overtaken /\ (Sound => Room' /\ Fits')
    PROVE  IInv'
  <1>1. Types'
    BY DEF IInv, Types, InsertType, WriteType, NotifyType, PendingType, ReadType, OldType, EmptyType,
           BufferType, BellType, DoneType, FlagType, HistType, doneVars, nicVars
  <1>2. Mappings' = Mappings
    BY DEF Mappings
  <1>3. MappedEnough'
    BY <1>2 DEF IInv, MappedEnough
  <1>4. ASSUME ~overtaken'  PROVE Sound'
    <2>1. Sound /\ Room' /\ Fits'
      BY <1>4 DEF IInv
    <2>2. \A q \in Queues : Ring(q)'
      BY <2>1, RingKept DEF Sound, doneVars, nicVars
    <2> QED  BY <2>1, <2>2, <1>2 DEF Sound
  <1> QED  BY <1>1, <1>3, <1>4 DEF IInv

(* The types of what a step leaves alone, one variable at a time.           *)
LEMMA Typed ==
    ASSUME Types
    PROVE  /\ xmit_pending \in [Queues -> BOOLEAN]
           /\ stopped \in BOOLEAN /\ holdoff \in BOOLEAN /\ coalesce \in BOOLEAN
           /\ spurious \in BOOLEAN /\ overtaken \in BOOLEAN /\ unsaid \in BOOLEAN
           /\ tx \in TxType /\ poll \in PollType
           /\ UNCHANGED <<skbs, coalesce>> => SkbType'
BY DEF Types, PendingType, FlagType, HistType, SkbType

LEMMA StartKeeps ==
    ASSUME IInv, NextPacket \/ \E more \in BOOLEAN : StartPtpXmit(more)
    PROVE  IInv'
  <1>1. Types /\ TxOK
    BY DEF IInv
  <1>2. MaxSkbs[coalesce] \in Nat /\ skbs \in 0 .. MaxSkbs[coalesce]
    BY <1>1, Typed, SkbBound DEF Types, SkbType
  <1>3. ASSUME NEW more \in BOOLEAN, HandOver(more), UNCHANGED coalesce
        PROVE  SkbType'
    BY <1>2, <1>3 DEF HandOver, SkbType
  <1>4. ASSUME NEW q \in Queues, NEW more \in BOOLEAN, StartXmit(q, more)
        PROVE  IInv'
    <2>1. tx.stage = "idle" /\ ~stopped /\ HandOver(more)
          /\ tx' = [stage |-> "map", q |-> q, from |-> insert_count[q], left |-> MaxDescs,
                    more |-> more, ring |-> NoQueue]
          /\ UNCHANGED <<countVars, doneVars, nicVars, flagVars, buffer, poll, mapped, histVars>>
      BY <1>4 DEF StartXmit
    <2>2. insert_count[q] \in Counts
      BY <1>1, RingTyped
    <2>3. tx' \in TxType /\ TxOK'
      BY <2>1, <2>2, Sizes DEF TxType, Stages, TxOK
    <2>4. \A p \in Queues : Top(p) = insert_count[p] /\ Top(p)' = insert_count[p]
      BY <2>1 DEF Top, countVars
    <2>5. Sound => Room' /\ Fits'
      <3> SUFFICES ASSUME Sound  PROVE Room' /\ Fits'
        OBVIOUS
      <3>1. \A p \in Queues : Ahead(insert_count[p], read_count[p]) < txq_stop_thresh
        BY <2>1, <2>4 DEF Sound, Room
      <3>2. Room'
        BY <3>1, <2>1, <2>4 DEF Room, doneVars
      <3>3. Ahead(insert_count[q], read_count[q]) + MaxDescs < Entries
        BY <3>1, <1>1, RingTyped, Sizes DEF txq_stop_thresh
      <3>4. Fits'
        BY <3>3, <2>1 DEF Fits, countVars, doneVars
      <3> QED  BY <3>2, <3>4
    <2>6. SkbType'
      BY <2>1, <1>3 DEF flagVars
    <2> QED  BY <2>1, <2>3, <2>4, <2>5, <2>6, <1>1, Typed, QuietKeeps
             DEF countVars, flagVars, histVars
  <1>5. ASSUME NEW more \in BOOLEAN, StartPtpXmit(more)
        PROVE  IInv'
    <2>1. tx.stage = "idle" /\ HandOver(more)
          /\ tx' = [NoTx EXCEPT !.stage = "push", !.more = more]
          /\ UNCHANGED <<countVars, doneVars, nicVars, flagVars, buffer, poll, mapped, histVars>>
      BY <1>5 DEF StartPtpXmit
    <2>2. /\ tx' \in TxType
          /\ tx'.stage = "push" /\ tx'.q = NoQueue /\ tx'.left = 0
      <3>1. tx' \in TxType
        BY <2>1, NoTxType DEF TxType, Stages
      <3> QED  BY <3>1, <2>1 DEF NoTx
    <2>3. TxOK'
      BY <2>2 DEF TxOK, OnItsWay
    <2>4. \A p \in Queues : Top(p)' = Top(p)
      BY <2>1, <2>2 DEF Top, countVars
    <2>5. Sound => Room' /\ Fits'
      <3>1. Fits'
        BY <2>2, QueuesNamed DEF Fits
      <3>2. Sound => Room'
        BY <2>1, <2>2, <2>4 DEF Sound, Room, flagVars, doneVars
      <3> QED  BY <3>1, <3>2
    <2>6. SkbType'
      BY <2>1, <1>3 DEF flagVars
    <2> QED  BY <2>1, <2>2, <2>3, <2>4, <2>5, <2>6, <1>1, Typed, QuietKeeps
             DEF countVars, flagVars, histVars
  <1> QED  BY <1>4, <1>5 DEF NextPacket

(* The rings of a packet that moves from one stage to another.              *)
LEMMA Moved ==
    ASSUME IInv, tx.stage # "map", UNCHANGED <<insert_count, doneVars>>,
           tx'.stage # "map" \/ (tx'.q \in Queues /\ tx'.from = insert_count[tx'.q]),
           (tx'.q = tx.q /\ tx'.left <= tx.left) \/ tx'.q = NoQueue,
           tx' \in TxType
    PROVE  /\ \A q \in Queues : Top(q)' = Top(q) /\ Top(q) = insert_count[q]
           /\ Sound => Fits'
           /\ Sound /\ tx.stage \notin {"mapped", "stop"} /\ (stopped => stopped') => Room'
  <1>1. \A q \in Queues : Top(q)' = Top(q) /\ Top(q) = insert_count[q]
    BY DEF Top
  <1>2. Types /\ tx \in TxType
    BY DEF IInv, Types
  <1>3. ASSUME Sound  PROVE Fits'
    <2>1. CASE tx'.q = NoQueue
      BY <2>1, QueuesNamed DEF Fits
    <2>2. CASE tx'.q = tx.q /\ tx'.left <= tx.left /\ tx.q \in Queues
      <3>1. Ahead(insert_count[tx.q], read_count[tx.q]) + tx.left < Entries
        BY <1>3, <2>2 DEF Sound, Fits
      <3>2. Ahead(insert_count[tx.q], read_count[tx.q]) + tx'.left < Entries
        BY <3>1, <2>2, <1>2, RingTyped, Sizes DEF TxType
      <3> QED  BY <3>2, <2>2 DEF Fits, doneVars
    <2>3. CASE tx'.q = tx.q /\ tx.q \notin Queues
      BY <2>3 DEF Fits
    <2> QED  BY <2>1, <2>2, <2>3
  <1>4. ASSUME Sound, tx.stage \notin {"mapped", "stop"}, stopped => stopped'  PROVE Room'
    BY <1>4, <1>1 DEF Sound, Room, doneVars
  <1> QED  BY <1>1, <1>3, <1>4

LEMMA StopStepKeeps ==
    ASSUME IInv, StopStep
    PROVE  IInv'
  <1>1. Types /\ TxOK /\ tx \in TxType
    BY DEF IInv, Types
  <1>2. ASSUME NEW stage \in {"queued", "stop", "recheck", "push"}, Goto(stage),
               tx.stage \in {"mapped", "stop", "recheck", "queued"}
        PROVE  /\ tx' \in TxType /\ TxOK' /\ tx'.stage = stage /\ tx'.q = tx.q /\ tx'.left = tx.left
               /\ tx.stage # "map" /\ tx'.stage # "map"
    <2>1. tx' = [tx EXCEPT !.stage = stage]
      BY <1>2 DEF Goto
    <2>2. tx' \in TxType /\ tx'.stage = stage /\ tx'.q = tx.q /\ tx'.left = tx.left
      BY <2>1, <1>1 DEF TxType, Stages
    <2> QED  BY <2>2, <1>1, <1>2 DEF TxOK, OnItsWay
  <1> DEFINE below == \A q \in Queues : Ahead(insert_count[q], read_count[q]) < txq_stop_thresh
  <1>3. FillBelow(txq_stop_thresh) => below
    BY DEF FillBelow, Fill, Ahead
  <1>4. tx.left \in Int /\ tx.left <= tx.left
    BY <1>1, Sizes DEF TxType
  <1>5. CASE CheckFill
    <2>1. tx.stage = "mapped"
          /\ Goto(IF FillBelow(txq_stop_thresh) THEN "queued" ELSE "stop")
          /\ UNCHANGED <<countVars, doneVars, nicVars, flagVars, buffer, poll, mapped, skbs, histVars>>
      BY <1>5 DEF CheckFill
    <2>2. PICK stage \in {"queued", "stop"} :
             Goto(stage) /\ (stage = "queued" => FillBelow(txq_stop_thresh))
      BY <2>1
    <2>3. /\ tx' \in TxType /\ TxOK' /\ tx'.stage = stage /\ tx'.q = tx.q /\ tx'.left = tx.left
          /\ tx.stage # "map" /\ tx'.stage # "map"
      BY <2>1, <2>2, <1>2
    <2>4. /\ \A q \in Queues : Top(q)' = Top(q) /\ Top(q) = insert_count[q]
          /\ Sound => Fits'
      BY <2>1, <2>3, <1>4, Moved DEF countVars
    <2>5. Room'
      <3>1. CASE stage = "stop"
        BY <3>1, <2>3 DEF Room
      <3>2. CASE stage = "queued"
        BY <3>2, <2>1, <2>2, <2>4, <1>3 DEF Room, doneVars
      <3> QED  BY <3>1, <3>2
    <2> QED  BY <2>1, <2>3, <2>4, <2>5, <1>1, Typed, QuietKeeps DEF countVars, flagVars, histVars
  <1>6. CASE StopQueue
    <2>1. tx.stage = "stop" /\ stopped' = TRUE /\ Goto("recheck")
          /\ UNCHANGED <<countVars, doneVars, nicVars, holdoff, coalesce, buffer, poll, mapped, skbs,
                         histVars>>
      BY <1>6 DEF StopQueue
    <2>2. /\ tx' \in TxType /\ TxOK' /\ tx'.stage = "recheck" /\ tx'.q = tx.q /\ tx'.left = tx.left
          /\ tx.stage # "map" /\ tx'.stage # "map"
      BY <2>1, <1>2
    <2>3. /\ \A q \in Queues : Top(q)' = Top(q) /\ Top(q) = insert_count[q]
          /\ Sound => Fits'
      BY <2>1, <2>2, <1>4, Moved DEF countVars
    <2>4. Room'
      BY <2>1 DEF Room
    <2> QED  BY <2>1, <2>2, <2>3, <2>4, <1>1, Typed, QuietKeeps DEF countVars, histVars
  <1>7. CASE Recheck
    <2>1. tx.stage = "recheck" /\ stopped' = (stopped /\ ~FillBelow(txq_stop_thresh)) /\ Goto("queued")
          /\ UNCHANGED <<countVars, doneVars, nicVars, holdoff, coalesce, buffer, poll, mapped, skbs,
                         histVars>>
      BY <1>7 DEF Recheck
    <2>2. /\ tx' \in TxType /\ TxOK' /\ tx'.stage = "queued" /\ tx'.q = tx.q /\ tx'.left = tx.left
          /\ tx.stage # "map" /\ tx'.stage # "map"
      BY <2>1, <1>2
    <2>3. /\ \A q \in Queues : Top(q)' = Top(q) /\ Top(q) = insert_count[q]
          /\ Sound => Fits'
          /\ Sound /\ (stopped => stopped') => Room'
      BY <2>1, <2>2, <1>4, Moved DEF countVars
    <2>4. Sound => Room'
      <3>1. stopped /\ ~stopped' => below
        BY <2>1, <1>3
      <3>2. below => Room'
        BY <2>1, <2>3 DEF Room, doneVars
      <3> QED  BY <3>1, <3>2, <2>3
    <2>5. stopped' \in BOOLEAN
      BY <2>1, Zenon
    <2> QED  BY <2>1, <2>2, <2>3, <2>4, <2>5, <1>1, Typed, QuietKeeps DEF countVars, histVars
  <1>8. CASE Queued
    <2>1. /\ tx.stage = "queued"
          /\ xmit_pending' = [xmit_pending EXCEPT ![tx.q] = TRUE]
          /\ Finish(tx.left) \/ Goto("push")
          /\ UNCHANGED <<insert_count, write_count, notify_count, doneVars, nicVars, flagVars, buffer,
                         poll, mapped, skbs, histVars>>
      BY <1>8 DEF Queued
    <2>2. tx.q \in Queues /\ tx.left \in 0 .. MaxDescs /\ InsertType'
      BY <2>1, <1>1 DEF TxOK, OnItsWay, TxType, Types, InsertType
    <2>3. xmit_pending' \in [Queues -> BOOLEAN]
      BY <2>1, <2>2, <1>1, Typed
    <2>4. /\ tx' \in TxType /\ TxOK'
          /\ tx'.stage # "map" \/ (tx'.q \in Queues /\ tx'.from = insert_count[tx'.q])
          /\ (tx'.q = tx.q /\ tx'.left <= tx.left) \/ tx'.q = NoQueue
      <3>1. CASE Goto("push")
        BY <3>1, <2>1, <1>2, <1>4
      <3>2. CASE Finish(tx.left)
        <4>1. /\ tx' \in TxType
              /\ TxOK'
              /\ \/ tx'.stage = "idle" /\ tx'.q = NoQueue
                 \/ /\ tx'.stage = "map" /\ tx'.q = tx.q /\ tx'.left = tx.left
                    /\ tx'.q \in Queues /\ tx'.from = insert_count'[tx.q]
          BY <3>2, <2>2, <1>1, Finished
        <4> QED  BY <4>1, <2>1, <1>4
      <3> QED  BY <3>1, <3>2, <2>1
    <2>5. /\ \A q \in Queues : Top(q)' = Top(q) /\ Top(q) = insert_count[q]
          /\ Sound => Fits' /\ Room'
      BY <2>1, <2>4, Moved DEF flagVars
    <2> QED  BY <2>1, <2>3, <2>4, <2>5, <1>1, Typed, QuietKeeps DEF flagVars, histVars
  <1> QED  BY <1>5, <1>6, <1>7, <1>8 DEF StopStep

LEMMA EndPushKeeps ==
    ASSUME IInv, EndPush
    PROVE  IInv'
  <1>1. Types /\ TxOK /\ tx \in TxType
    BY DEF IInv, Types
  <1>2. tx.stage = "push" /\ Finish(tx.left)
        /\ UNCHANGED <<countVars, doneVars, nicVars, flagVars, buffer, poll, mapped, skbs, histVars>>
    BY DEF EndPush
  <1>3. tx.left \in 0 .. MaxDescs /\ (tx.left > 0 => tx.q \in Queues) /\ InsertType'
        /\ tx.left <= tx.left
    BY <1>1, <1>2, Sizes DEF TxType, TxOK, Types, InsertType, countVars
  <1>4. /\ tx' \in TxType
        /\ TxOK'
        /\ \/ tx'.stage = "idle" /\ tx'.q = NoQueue
           \/ /\ tx'.stage = "map" /\ tx'.q = tx.q /\ tx'.left = tx.left
              /\ tx'.q \in Queues /\ tx'.from = insert_count'[tx.q]
    BY <1>1, <1>2, <1>3, Finished
  <1>5. /\ tx'.stage # "map" \/ (tx'.q \in Queues /\ tx'.from = insert_count[tx'.q])
        /\ (tx'.q = tx.q /\ tx'.left <= tx.left) \/ tx'.q = NoQueue
    BY <1>2, <1>3, <1>4 DEF countVars
  <1>6. /\ \A q \in Queues : Top(q)' = Top(q) /\ Top(q) = insert_count[q]
        /\ Sound => Fits' /\ Room'
    BY <1>2, <1>4, <1>5, Moved DEF countVars, flagVars
  <1> QED  BY <1>1, <1>2, <1>4, <1>6, Typed, QuietKeeps DEF countVars, flagVars, histVars

(* The poll when it is between two loops.                                   *)
LEMMA NoPollType ==
    ASSUME NEW stage \in PollStages, NEW queues \in SUBSET Queues
    PROVE  /\ NoPoll \in PollType
           /\ [NoPoll EXCEPT !.stage = stage] \in PollType
           /\ [NoPoll EXCEPT !.stage = stage, !.todo = queues] \in PollType
  <1>1. 0 \in Counts
    BY Sizes DEF Counts
  <1> QED  BY <1>1 DEF NoPoll, PollType, PollStages

(* The differences are counts, and so is their sum.                         *)
LEMMA SubtractType ==
    ASSUME Types, NEW q \in Queues, PollSubtract(q)
    PROVE  poll' \in PollType
  <1> DEFINE difference == (poll.read - notify_count[q]) % CountSpace
             sum == Incr(poll.unsent, difference)
  <1>1. poll \in PollType /\ notify_count[q] \in Counts
    BY DEF Types, NotifyType
  <1>2. poll.read \in Counts /\ poll.unsent \in Counts /\ 0 \in Counts
    BY <1>1, Sizes DEF PollType, Counts
  <1>3. difference \in Int
    BY <1>1, <1>2, AheadRange DEF Ahead
  <1>4. sum \in Counts
    <2> DEFINE u == poll.unsent
    <2>1. u \in Counts
      BY <1>2
    <2> HIDE DEF difference, u
    <2>2. Incr(u, difference) \in Counts
      BY <2>1, <1>3, IncrRange
    <2> QED  BY <2>2 DEF u
  <1>5. (poll.differ \/ difference # 0) \in BOOLEAN
    OBVIOUS
  <1>6. poll' = [poll EXCEPT !.stage = "unsent", !.todo = poll.todo \ {q}, !.read = 0,
                             !.unsent = sum, !.differ = poll.differ \/ difference # 0]
    BY DEF PollSubtract
  <1> HIDE DEF difference, sum
  <1> QED  BY <1>1, <1>2, <1>4, <1>5, <1>6 DEF PollType, PollStages

(* The other steps of the poll.                                             *)
LEMMA PollQuietKeeps ==
    ASSUME IInv,
           \/ PollStart \/ PollEventsDone \/ PollBellsDone \/ PollUnsent \/ PollFill
           \/ \E q \in Queues : PollReadWritten(q) \/ PollSubtract(q)
    PROVE  IInv'
  <1>1. Types /\ TxOK /\ poll \in PollType /\ holdoff \in BOOLEAN /\ unsaid \in BOOLEAN
    BY Typed DEF IInv
  <1>2. FillBelow(txq_wake_thresh + 1) \in BOOLEAN
    BY DEF FillBelow
  <1>3. ReadFill \in PollType
    BY <1>1, <1>2 DEF ReadFill, PollType, PollStages
  <1>4. /\ UNCHANGED <<countVars, doneVars, nicVars, stopped, coalesce, buffer, tx, mapped, skbs,
                       spurious, overtaken>>
        /\ holdoff' \in BOOLEAN
        /\ unsaid' \in BOOLEAN
        /\ poll' \in PollType
    <2>1. CASE PollStart
      <3>1. poll' = [poll EXCEPT !.stage = "events"] /\ holdoff' = coalesce
            /\ UNCHANGED <<countVars, doneVars, nicVars, stopped, coalesce, buffer, tx, mapped, skbs,
                           histVars>>
        BY <2>1 DEF PollStart
      <3> QED  BY <3>1, <1>1, Typed DEF PollType, PollStages, histVars
    <2>2. CASE PollEventsDone
      <3>1. poll' \in {[poll EXCEPT !.stage = "bells", !.todo = Queues], ReadFill}
            /\ UNCHANGED <<countVars, doneVars, nicVars, flagVars, buffer, tx, mapped, skbs, histVars>>
        BY <2>2 DEF PollEventsDone
      <3>2. [poll EXCEPT !.stage = "bells", !.todo = Queues] \in PollType
        BY <1>1 DEF PollType, PollStages
      <3> QED  BY <3>1, <3>2, <1>1, <1>3 DEF flagVars, histVars
    <2>3. CASE PollBellsDone
      <3>1. poll' = [NoPoll EXCEPT !.stage = "unsent", !.todo = Queues] /\ holdoff' = FALSE
            /\ UNCHANGED <<countVars, doneVars, nicVars, stopped, coalesce, buffer, tx, mapped, skbs,
                           histVars>>
        BY <2>3 DEF PollBellsDone
      <3> QED  BY <3>1, <1>1, NoPollType DEF PollStages, histVars
    <2>4. CASE PollUnsent
      <3>1. /\ poll' \in {[NoPoll EXCEPT !.stage = "bells", !.todo = Queues],
                          [NoPoll EXCEPT !.stage = "fill"]}
            /\ holdoff' = (poll.unsent # 0)
            /\ unsaid' = (unsaid \/ (poll.unsent = 0 /\ poll.differ))
            /\ UNCHANGED <<countVars, doneVars, nicVars, stopped, coalesce, buffer, tx, mapped, skbs,
                           spurious, overtaken>>
        BY <2>4 DEF PollUnsent
      <3>2. holdoff' \in BOOLEAN /\ unsaid' \in BOOLEAN
        BY <3>1, Zenon
      <3>3. /\ [NoPoll EXCEPT !.stage = "bells", !.todo = Queues] \in PollType
            /\ [NoPoll EXCEPT !.stage = "fill"] \in PollType
        BY NoPollType DEF PollStages
      <3>4. poll' \in PollType
        BY <3>1, <3>3
      <3> QED  BY <3>1, <3>2, <3>4
    <2>5. CASE PollFill
      <3>1. poll' = ReadFill
            /\ UNCHANGED <<countVars, doneVars, nicVars, flagVars, buffer, tx, mapped, skbs, histVars>>
        BY <2>5 DEF PollFill
      <3> QED  BY <3>1, <1>1, <1>3 DEF flagVars, histVars
    <2>6. ASSUME NEW q \in Queues, PollReadWritten(q)
          PROVE  /\ UNCHANGED <<countVars, doneVars, nicVars, flagVars, buffer, tx, mapped, skbs,
                                histVars>>
                 /\ poll' \in PollType
      <3>1. poll' = [poll EXCEPT !.stage = "subtract", !.read = write_count[q]]
            /\ UNCHANGED <<countVars, doneVars, nicVars, flagVars, buffer, tx, mapped, skbs, histVars>>
        BY <2>6 DEF PollReadWritten
      <3>2. write_count[q] \in Counts
        BY <1>1 DEF Types, WriteType
      <3> QED  BY <3>1, <3>2, <1>1 DEF PollType, PollStages
    <2>7. ASSUME NEW q \in Queues, PollSubtract(q)
          PROVE  /\ UNCHANGED <<countVars, doneVars, nicVars, flagVars, buffer, tx, mapped, skbs,
                                histVars>>
                 /\ poll' \in PollType
      <3>1. UNCHANGED <<countVars, doneVars, nicVars, flagVars, buffer, tx, mapped, skbs, histVars>>
        BY <2>7 DEF PollSubtract
      <3> QED  BY <3>1, <2>7, <1>1, SubtractType
    <2>8. CASE \E q \in Queues : PollReadWritten(q) \/ PollSubtract(q)
      BY <2>8, <2>6, <2>7, <1>1 DEF flagVars, histVars
    <2> QED  BY <2>1, <2>2, <2>3, <2>4, <2>5, <2>8
  <1>5. \A q \in Queues : Top(q)' = Top(q)
    BY <1>4 DEF Top, countVars
  <1>6. Sound => Room' /\ Fits'
    BY <1>4, <1>5 DEF Sound, Room, Fits, countVars, doneVars
  <1>7. TxOK'
    BY <1>1, <1>4 DEF TxOK
  <1> QED  BY <1>1, <1>4, <1>5, <1>6, <1>7, Typed, QuietKeeps DEF countVars

(* The queue is woken: at a fill level that leaves room for a packet, or it *)
(* is noted that it was not.                                                *)
LEMMA PollWakeKeeps ==
    ASSUME IInv, PollWake
    PROVE  IInv'
  <1>1. Types /\ TxOK
    BY DEF IInv
  <1>2. /\ stopped' = (stopped /\ ~poll.low)
        /\ overtaken' = (overtaken \/ (stopped /\ poll.low /\ ~FillBelow(txq_wake_thresh + 1)))
        /\ poll' = NoPoll
        /\ UNCHANGED <<countVars, doneVars, nicVars, holdoff, coalesce, buffer, tx, mapped, skbs,
                       spurious, unsaid>>
    BY DEF PollWake
  <1>3. poll' \in PollType
    BY <1>2, NoPollType DEF PollStages
  <1>4. stopped' \in BOOLEAN /\ overtaken' \in BOOLEAN
    BY <1>2, Zenon
  <1>5. \A q \in Queues : Top(q)' = Top(q)
    BY <1>2 DEF Top, countVars
  <1>6. TxOK'
    BY <1>1, <1>2 DEF TxOK
  <1>7. ~overtaken' => ~overtaken
    BY <1>2
  <1>8. ASSUME ~overtaken', Sound  PROVE Room' /\ Fits'
    <2>1. Fits'
      BY <1>2, <1>8 DEF Sound, Fits, countVars, doneVars
    <2>2. CASE FillBelow(txq_wake_thresh + 1)
      <3>1. ASSUME NEW q \in Queues  PROVE Ahead(Top(q), read_count[q]) < txq_stop_thresh
        <4>1. Ahead(insert_count[q], read_count[q]) < txq_wake_thresh + 1
          BY <2>2 DEF FillBelow, Fill, Ahead
        <4>2. Ahead(Top(q), read_count[q]) <= Ahead(insert_count[q], read_count[q])
          BY <1>8 DEF Sound, Ring, RingOK, InOrder
        <4>3. txq_wake_thresh + 1 <= txq_stop_thresh /\ txq_wake_thresh \in Int /\ txq_stop_thresh \in Int
          BY Sizes DEF txq_wake_thresh, txq_stop_thresh
        <4> QED  BY <4>1, <4>2, <4>3, <1>1, RingTyped
      <3>2. Room'
        BY <3>1, <1>2, <1>5 DEF Room, doneVars
      <3> QED  BY <2>1, <3>2
    <2>3. CASE ~FillBelow(txq_wake_thresh + 1)
      <3>1. ~(stopped /\ poll.low)
        BY <2>3, <1>2, <1>8
      <3>2. stopped => stopped'
        BY <3>1, <1>2
      <3>3. Room'
        BY <3>2, <1>2, <1>5, <1>8 DEF Sound, Room, doneVars
      <3> QED  BY <2>1, <3>3
    <2> QED  BY <2>2, <2>3
  <1> QED  BY <1>1, <1>2, <1>3, <1>4, <1>5, <1>6, <1>7, <1>8, Typed, QuietKeeps DEF countVars

---------------------------------------------------------------------------
(* Restart, and the initial states                                          *)

(* Empty rings at the same counts satisfy all that is said of them.         *)
LEMMA EmptyRings ==
    ASSUME NEW c \in Counts, Types', TxOK', ~spurious',
           insert_count' = All(c), write_count' = All(c), read_count' = All(c),
           doorbell' = All(Slot(c)), done' = All(Slot(c)), tx'.stage = "idle", tx'.q = NoQueue,
           buffer' = All([x \in Slots |-> "free"]), mapped' = 0
    PROVE  MappedEnough' /\ Sound'
  <1>1. Ahead(c, c) = 0
    BY AheadRange
  <1>2. \A q \in Queues : /\ insert_count'[q] = c /\ write_count'[q] = c /\ read_count'[q] = c
                          /\ doorbell'[q] = Slot(c) /\ done'[q] = Slot(c)
                          /\ buffer'[q] = [x \in Slots |-> "free"] /\ Top(q)' = c
    BY DEF All, Top
  <1>3. \A q \in Queues : Ring(q)'
    BY <1>2, RingEmpty DEF Ring
  <1>4. Mappings' = {}
    BY <1>2 DEF Mappings
  <1>5. Cardinality(Mappings)' = 0
    BY <1>4, FS_EmptySet
  <1>6. Room'
    BY <1>1, <1>2, Sizes DEF Room, txq_stop_thresh
  <1>7. Fits'
    BY QueuesNamed DEF Fits
  <1> QED  BY <1>3, <1>5, <1>6, <1>7 DEF Sound, MappedEnough

LEMMA RestartKeeps ==
    ASSUME IInv, Restart
    PROVE  IInv'
  <1>1. Types /\ MappedEnough
    BY DEF IInv
  <1>2. /\ insert_count' = All(0) /\ write_count' = All(0) /\ notify_count' = All(0)
        /\ xmit_pending' = All(FALSE)
        /\ read_count' = All(0) /\ old_write_count' = All(0) /\ empty_read_count' = All(0)
        /\ doorbell' = All(0) /\ done' = All(0)
        /\ stopped' = FALSE
        /\ tx' = NoTx
        /\ UNCHANGED <<holdoff, coalesce, poll, skbs, histVars>>
    BY DEF Restart
  <1> DEFINE undone == {s \in Mappings : s[2] \in Span(read_count[s[1]], Fill(s[1]))}
  <1>3. /\ mapped' = mapped - Cardinality(undone)
        /\ buffer' = [q \in Queues |-> [i \in Slots |->
                         IF i \in Span(read_count[q], Fill(q)) THEN "free" ELSE buffer[q][i]]]
    BY DEF Restart
  <1>4. 0 \in Counts /\ 0 \in Slots /\ 0 \in 0 .. CountSpace \div 2 - 1 /\ Slot(0) = 0
    BY Sizes DEF Counts, Slots, Slot
  <1>5. tx' \in TxType /\ TxOK' /\ tx'.stage = "idle" /\ tx'.q = NoQueue
    BY <1>2, NoTxType DEF NoTx, TxOK, OnItsWay
  <1>6. BufferType'
    BY <1>1, <1>3, KindsApart DEF Types, BufferType
  <1>7. undone \subseteq Mappings /\ IsFiniteSet(undone) /\ Cardinality(undone) \in Nat
        /\ Cardinality(undone) <= Cardinality(Mappings)
    BY MappingsFinite, FS_Subset, FS_CardinalityType
  <1>8. mapped \in Int /\ Cardinality(Mappings) \in Nat
    BY <1>1, MappingsFinite DEF Types
  <1>9. Types'
    <2>1. mapped' \in Int
      BY <1>3, <1>7, <1>8
    <2>2. InsertType' /\ WriteType' /\ NotifyType' /\ PendingType' /\ ReadType' /\ OldType' /\ EmptyType'
      BY <1>2, <1>4 DEF InsertType, WriteType, NotifyType, PendingType, ReadType, OldType, EmptyType, All
    <2>3. BellType' /\ DoneType'
      BY <1>2, <1>4 DEF BellType, DoneType, All
    <2>4. SkbType'
      BY <1>1, <1>2, Typed
    <2>5. FlagType' /\ HistType' /\ poll' \in PollType
      BY <1>1, <1>2, Typed DEF FlagType, HistType, histVars
    <2> QED  BY <2>1, <2>2, <2>3, <2>4, <2>5, <1>5, <1>6 DEF Types
  <1>10. MappedEnough'
    <2>1. Mappings' \cup undone = Mappings /\ Mappings' \cap undone = {}
      <3>1. \A q \in Queues, i \in Slots :
               buffer'[q][i] = IF i \in Span(read_count[q], Fill(q)) THEN "free" ELSE buffer[q][i]
        BY <1>3
      <3>2. \A q \in Queues, i \in Slots :
               <<q, i>> \in Mappings' <=> <<q, i>> \in Mappings /\ <<q, i>> \notin undone
        BY <3>1 DEF Mappings
      <3>3. Mappings' \subseteq Queues \X Slots /\ Mappings \subseteq Queues \X Slots
        BY DEF Mappings
      <3> HIDE DEF undone
      <3> QED  BY <3>2, <3>3, <1>7
    <2> HIDE DEF undone
    <2>2. IsFiniteSet(Mappings')
      BY <2>1, MappingsFinite, FS_Subset
    <2>3. Cardinality(Mappings' \cup undone)
             = Cardinality(Mappings') + Cardinality(undone) - Cardinality(Mappings' \cap undone)
      BY <2>2, <1>7, FS_Union
    <2>4. Cardinality(Mappings' \cap undone) = 0
      BY <2>1, FS_EmptySet
    <2>5. Cardinality(Mappings') \in Nat
      BY <2>2, FS_CardinalityType
    <2>6. Cardinality(Mappings) = Cardinality(Mappings') + Cardinality(undone)
      <3>1. Cardinality(Mappings' \cup undone) = Cardinality(Mappings)
        BY <2>1
      <3>2. Cardinality(undone) \in Nat
        BY <1>7
      <3> QED  BY <3>1, <3>2, <2>3, <2>4, <2>5
    <2> QED  BY <2>5, <2>6, <1>1, <1>3, <1>7, <1>8 DEF MappedEnough
  <1>11. ASSUME ~overtaken'  PROVE Sound'
    <2>1. Sound
      BY <1>2, <1>11 DEF IInv, histVars
    <2>2. \A q \in Queues, i \in Slots :
             buffer[q][i] # "free" <=> i \in Span(read_count[q], Fill(q))
      BY <2>1 DEF Sound, Ring, RingOK, InUseExactly, Fill, Ahead
    <2>3. buffer' = All([x \in Slots |-> "free"])
      <3>1. \A q \in Queues :
               [i \in Slots |-> IF i \in Span(read_count[q], Fill(q)) THEN "free" ELSE buffer[q][i]]
                  = [x \in Slots |-> "free"]
        BY <2>2
      <3> QED  BY <3>1, <1>3 DEF All
    <2>4. undone = Mappings
      <3>1. ASSUME NEW s \in Mappings  PROVE s[2] \in Span(read_count[s[1]], Fill(s[1]))
        <4>1. s[1] \in Queues /\ s[2] \in Slots /\ buffer[s[1]][s[2]] # "free"
          BY DEF Mappings
        <4> QED  BY <4>1, <2>2
      <3> QED  BY <3>1
    <2>5. mapped' = 0
      <3>1. mapped' = mapped - Cardinality(undone)
        BY <1>3
      <3>2. mapped = Cardinality(Mappings)
        BY <2>1 DEF Sound
      <3> HIDE DEF undone
      <3> QED  BY <3>1, <3>2, <2>4, <1>8
    <2>6. ~spurious'
      BY <2>1, <1>2 DEF Sound, histVars
    <2> QED  BY <2>3, <2>5, <2>6, <1>2, <1>4, <1>5, <1>9, EmptyRings
  <1> QED  BY <1>5, <1>9, <1>10, <1>11 DEF IInv

LEMMA InitInv ==
    ASSUME Init
    PROVE  IInv
  <1>1. PICK c \in Starts :
           /\ insert_count = All(c) /\ write_count = All(c) /\ notify_count = All(c)
           /\ read_count = All(c) /\ old_write_count = All(c)
           /\ empty_read_count = All(c % (CountSpace \div 2))
           /\ doorbell = All(Slot(c)) /\ done = All(Slot(c))
    BY DEF Init
  <1>2. /\ xmit_pending = All(FALSE) /\ buffer = All([i \in Slots |-> "free"])
        /\ stopped = FALSE /\ holdoff = FALSE /\ coalesce \in BOOLEAN
        /\ tx = NoTx /\ poll = NoPoll /\ mapped = 0 /\ skbs = 0
        /\ spurious = FALSE /\ overtaken = FALSE /\ unsaid = FALSE
    BY DEF Init
  <1>3. c \in Counts /\ c \in Int /\ Slot(c) \in Slots
    BY StartCounts, Sizes, CountRange DEF Counts
  <1>4. c % (CountSpace \div 2) \in 0 .. CountSpace \div 2 - 1
    <2> DEFINE half == CountSpace \div 2
    <2>1. half \in Nat /\ half # 0
      BY Sizes
    <2> HIDE DEF half
    <2>2. c % half \in 0 .. half - 1
      BY <1>3, <2>1, ModDef
    <2> QED  BY <2>2 DEF half
  <1>5. Types
    <2>1. InsertType /\ WriteType /\ NotifyType /\ ReadType /\ OldType
      BY <1>1, <1>3 DEF InsertType, WriteType, NotifyType, ReadType, OldType, All
    <2>2. EmptyType /\ BellType /\ DoneType
      BY <1>1, <1>3, <1>4 DEF EmptyType, BellType, DoneType, All
    <2>3. PendingType /\ BufferType
      BY <1>2, KindsApart DEF PendingType, BufferType, All
    <2>4. FlagType /\ HistType
      BY <1>2 DEF FlagType, HistType
    <2>5. SkbType
      BY <1>2, SkbBound DEF SkbType
    <2>6. tx \in TxType /\ poll \in PollType /\ mapped \in Int
      <3>1. NoPoll \in PollType
        BY NoPollType DEF PollStages
      <3> QED  BY <3>1, <1>2, NoTxType
    <2> QED  BY <2>1, <2>2, <2>3, <2>4, <2>5, <2>6 DEF Types
  <1>6. tx.stage = "idle" /\ tx.q = NoQueue /\ tx.left = 0
    BY <1>2 DEF NoTx
  <1>7. TxOK
    BY <1>6 DEF TxOK, OnItsWay
  <1>8. \A q \in Queues : /\ insert_count[q] = c /\ write_count[q] = c /\ read_count[q] = c
                          /\ doorbell[q] = Slot(c) /\ done[q] = Slot(c)
                          /\ buffer[q] = [x \in Slots |-> "free"] /\ Top(q) = c
    BY <1>1, <1>2, <1>6 DEF All, Top
  <1>9. \A q \in Queues : Ring(q)
    BY <1>3, <1>8, RingEmpty DEF Ring
  <1>10. Cardinality(Mappings) = 0
    <2>1. Mappings = {}
      BY <1>8 DEF Mappings
    <2> QED  BY <2>1, FS_EmptySet
  <1>11. Room /\ Fits
    <2>1. Ahead(c, c) = 0
      BY <1>3, AheadRange
    <2>2. Room
      BY <2>1, <1>8, Sizes DEF Room, txq_stop_thresh
    <2> QED  BY <2>2, <1>6, QueuesNamed DEF Fits
  <1> QED  BY <1>2, <1>5, <1>7, <1>9, <1>10, <1>11 DEF IInv, Sound, MappedEnough

LEMMA StutterKeeps ==
    ASSUME IInv, UNCHANGED vars
    PROVE  IInv'
  <1>1. Types /\ TxOK
    BY DEF IInv
  <1>2. UNCHANGED <<countVars, doneVars, nicVars, flagVars, histVars, buffer, tx, poll, mapped, skbs>>
    BY DEF vars
  <1>3. \A q \in Queues : Top(q)' = Top(q)
    BY <1>2 DEF Top, countVars
  <1>4. Sound => Room' /\ Fits'
    BY <1>2, <1>3 DEF Sound, Room, Fits, countVars, doneVars, flagVars
  <1>5. TxOK'
    BY <1>1, <1>2 DEF TxOK
  <1> QED  BY <1>1, <1>2, <1>3, <1>4, <1>5, Typed, QuietKeeps DEF countVars, flagVars, histVars

---------------------------------------------------------------------------
(* What the NIC is told                                                     *)

(* The count up to which the packets of a queue are complete, which is what *)
(* the next write announces.                                                *)
Due(q) == IF tx.q = q /\ tx.stage \in OnItsWay THEN tx.from ELSE insert_count[q]

(* The doorbell is where notify_count says, unless the poll is between the  *)
(* two.                                                                     *)
Rung == \A q \in Queues : ~unsaid /\ poll.ring # q => doorbell[q] = Slot(notify_count[q])

(* What was inserted but not written is marked as pending ...               *)
Written == \A q \in Queues : xmit_pending[q] \/ write_count[q] = Due(q)

(* ... which it only is while packets are on their way or promised.         *)
Drained == tx.stage = "idle" /\ ~tx.more => \A q \in Queues : ~xmit_pending[q]

(* What was written but not announced is about to be: by the transmit path, *)
(* by the round of the poll that the doorbell was left to, or by the next:  *)
(* the poll has yet to find the difference, or found one, which another may *)
(* have cancelled.                                                          *)
Unseen(q) ==
    /\ poll.stage \in {"unsent", "subtract"}
    /\ \/ poll.differ
       \/ /\ q \in poll.todo
          /\ poll.stage = "subtract" /\ q = FirstOf(poll.todo) => poll.read = write_count[q]

Noted ==
    \A q \in Queues : \/ notify_count[q] = write_count[q]
                      \/ tx.stage = "holdoff" /\ tx.ring = q
                      \/ holdoff
                      \/ unsaid
                      \/ Unseen(q)

Held ==
    /\ holdoff => poll.stage \in {"events", "bells"}
    /\ poll.ring # NoQueue => poll.stage = "bells" /\ poll.ring \in poll.todo

Told == Rung /\ Written /\ Drained /\ Noted /\ Held

LEMMA NoSuchQueue == \A q \in Queues : q # NoQueue
BY QueuesNamed

(* A step that changes nothing but how far a packet is.                     *)
LEMMA DueKept ==
    ASSUME Told, UNCHANGED <<write_count, notify_count, xmit_pending, doorbell, holdoff, unsaid, poll>>,
           \A q \in Queues : Due(q)' = Due(q), Drained', tx.stage # "holdoff"
    PROVE  Told'
  <1>1. Rung'
    BY DEF Told, Rung
  <1>2. Written'
    BY DEF Told, Written
  <1>3. Noted'
    BY DEF Told, Noted, Unseen
  <1>4. Held'
    BY DEF Told, Held
  <1> QED  BY <1>1, <1>2, <1>3, <1>4 DEF Told

LEMMA InsertDue ==
    ASSUME Types, tx.stage = "map", NEW kind, Insert(kind)
    PROVE  /\ \A q \in Queues : Due(q)' = Due(q)
           /\ Drained'
  <1>1. tx \in TxType /\ insert_count \in [Queues -> Counts]
    BY DEF Types, InsertType
  <1>2. tx'.q = tx.q /\ tx'.from = tx.from /\ tx'.stage \in {"mapped", "map"}
    BY <1>1 DEF Insert, TxType
  <1>3. \A q \in Queues : tx.q # q => insert_count'[q] = insert_count[q]
    BY <1>1 DEF Insert, InsertType
  <1> QED  BY <1>2, <1>3 DEF Due, OnItsWay, Drained

LEMMA FinishDue ==
    ASSUME tx \in TxType, NEW left, Finish(left)
    PROVE  \/ tx'.stage = "idle" /\ tx'.q = NoQueue /\ tx'.more = tx.more
           \/ tx'.stage = "map" /\ tx'.q = tx.q /\ tx'.from = insert_count'[tx.q]
BY DEF Finish, NoTx, TxType

LEMMA UnwindDue ==
    ASSUME Types, TxOK, tx.stage = "map", NEW leaked, Unwind(leaked)
    PROVE  /\ \A q \in Queues : Due(q)' = Due(q)
           /\ Drained'
  <1>1. tx \in TxType /\ insert_count \in [Queues -> Counts] /\ tx.q \in Queues /\ Failed
        /\ insert_count' = [insert_count EXCEPT ![tx.q] = tx.from]
    BY DEF Types, InsertType, TxOK, OnItsWay, Unwind
  <1>2. \A q \in Queues : insert_count'[q] = IF q = tx.q THEN tx.from ELSE insert_count[q]
    BY <1>1 DEF InsertType
  <1>3. \/ tx.more /\ tx'.stage = "idle" /\ tx'.q = NoQueue /\ tx'.more = tx.more
        \/ tx'.stage = "map" /\ tx'.q = tx.q /\ tx'.from = insert_count'[tx.q]
        \/ tx'.stage = "push" /\ tx'.q = tx.q
    <2> DEFINE left == IF tx.left > 0 THEN tx.left - 1 ELSE 0
    <2>1. IF tx.more THEN Finish(left) ELSE tx' = [tx EXCEPT !.stage = "push", !.left = left]
      BY <1>1 DEF Failed
    <2> HIDE DEF left
    <2>2. CASE tx.more
      BY <2>1, <2>2, <1>1, FinishDue
    <2>3. CASE ~tx.more
      BY <2>1, <2>3, <1>1 DEF TxType
    <2> QED  BY <2>2, <2>3
  <1> QED  BY <1>1, <1>2, <1>3, NoSuchQueue DEF Due, OnItsWay, Drained

LEMMA MapStepTold ==
    ASSUME Types, TxOK, Told, MapStep
    PROVE  Told'
  <1>1. tx.stage = "map"
    BY DEF MapStep, MapFragment, MapFails, CopyPacket, PioPacket
  <1>2. UNCHANGED <<write_count, notify_count, xmit_pending, doorbell, holdoff, unsaid, poll>>
    BY DEF MapStep, MapFragment, MapFails, CopyPacket, PioPacket, nicVars, flagVars, histVars
  <1>3. (\E kind \in Kinds : Insert(kind)) \/ \E leaked \in Int : Unwind(leaked)
    <2>1. CASE \E kind \in {"map", "skb"} : MapFragment(kind)
      <3> PICK kind \in {"map", "skb"} : MapFragment(kind)
        BY <2>1
      <3>1. Unwind(1) \/ Insert(kind)
        BY DEF MapFragment
      <3> QED  BY <3>1 DEF Kinds, Ends
    <2>2. CASE MapFails
      BY <2>2 DEF MapFails
    <2>3. CASE CopyPacket \/ PioPacket
      BY <2>3 DEF CopyPacket, PioPacket, Kinds, Ends
    <2> QED  BY <2>1, <2>2, <2>3 DEF MapStep
  <1>4. ASSUME NEW kind \in Kinds, Insert(kind)
        PROVE  (\A q \in Queues : Due(q)' = Due(q)) /\ Drained'
    BY <1>1, <1>4, InsertDue
  <1>5. ASSUME NEW leaked \in Int, Unwind(leaked)
        PROVE  (\A q \in Queues : Due(q)' = Due(q)) /\ Drained'
    BY <1>1, <1>5, UnwindDue
  <1>6. (\A q \in Queues : Due(q)' = Due(q)) /\ Drained'
    BY <1>3, <1>4, <1>5
  <1> QED  BY <1>1, <1>2, <1>6, DueKept

LEMMA StartTold ==
    ASSUME Types, TxOK, Told, NextPacket \/ \E more \in BOOLEAN : StartPtpXmit(more)
    PROVE  Told'
  <1>1. tx.stage = "idle"
        /\ UNCHANGED <<insert_count, write_count, notify_count, xmit_pending, doorbell, holdoff, unsaid, poll>>
    BY DEF NextPacket, StartXmit, StartPtpXmit, countVars, nicVars, flagVars, histVars
  <1>2. \/ tx'.stage = "map" /\ tx'.from = insert_count[tx'.q]
        \/ tx'.stage = "push"
    <2>1. ASSUME NEW q \in Queues, NEW more \in BOOLEAN, StartXmit(q, more)
          PROVE  tx'.stage = "map" /\ tx'.from = insert_count[tx'.q]
      <3>1. tx' = [stage |-> "map", q |-> q, from |-> insert_count[q], left |-> MaxDescs,
                   more |-> more, ring |-> NoQueue]
        BY <2>1 DEF StartXmit
      <3> QED  BY <3>1
    <2>2. ASSUME NEW more \in BOOLEAN, StartPtpXmit(more)  PROVE tx'.stage = "push"
      <3>1. tx' = [NoTx EXCEPT !.stage = "push", !.more = more]
        BY <2>2 DEF StartPtpXmit
      <3> QED  BY <3>1 DEF NoTx
    <2> QED  BY <2>1, <2>2 DEF NextPacket
  <1>3. (\A q \in Queues : Due(q)' = Due(q)) /\ Drained'
    BY <1>1, <1>2 DEF Due, OnItsWay, Drained
  <1> QED  BY <1>1, <1>3, DueKept

(* The packet is marked before its queue counts as drained.                 *)
LEMMA StopStepTold ==
    ASSUME Types, TxOK, Told, StopStep
    PROVE  Told'
  <1>0. tx \in TxType /\ xmit_pending \in [Queues -> BOOLEAN]
    BY Typed
  <1>1. CASE CheckFill \/ StopQueue \/ Recheck
    <2>1. UNCHANGED <<insert_count, write_count, notify_count, xmit_pending, doorbell, holdoff, unsaid, poll>>
      BY <1>1 DEF CheckFill, StopQueue, Recheck, countVars, nicVars, flagVars, histVars
    <2>2. tx.stage \in {"mapped", "stop", "recheck"} /\ tx'.stage \in {"stop", "recheck", "queued"}
          /\ tx'.q = tx.q /\ tx'.from = tx.from
      BY <1>0, <1>1 DEF CheckFill, StopQueue, Recheck, Goto, TxType
    <2>3. (\A q \in Queues : Due(q)' = Due(q)) /\ Drained'
      BY <2>1, <2>2 DEF Due, OnItsWay, Drained
    <2> QED  BY <2>1, <2>2, <2>3, DueKept
  <1>2. CASE Queued
    <2>1. /\ tx.stage = "queued"
          /\ UNCHANGED <<insert_count, write_count, notify_count, doorbell, holdoff, unsaid, poll>>
          /\ xmit_pending' = [xmit_pending EXCEPT ![tx.q] = TRUE]
      BY <1>2 DEF Queued, nicVars, flagVars, histVars
    <2>2. tx.q \in Queues
      BY <2>1 DEF TxOK, OnItsWay
    <2>3. \A q \in Queues : xmit_pending'[q] = IF q = tx.q THEN TRUE ELSE xmit_pending[q]
      BY <1>0, <2>1, <2>2
    <2>4. \/ tx.more /\ tx'.stage = "idle" /\ tx'.q = NoQueue /\ tx'.more = tx.more
          \/ tx'.stage = "map" /\ tx'.q = tx.q /\ tx'.from = insert_count'[tx.q]
          \/ tx'.stage = "push" /\ tx'.q = tx.q
      <3>1. CASE tx.more /\ ~stopped
        BY <1>0, <1>2, <3>1, FinishDue DEF Queued
      <3>2. CASE ~(tx.more /\ ~stopped)
        BY <1>0, <1>2, <3>2 DEF Queued, Goto, TxType
      <3> QED  BY <3>1, <3>2
    <2>5. \A q \in Queues : q # tx.q => Due(q)' = Due(q)
      BY <2>1, <2>4, NoSuchQueue DEF Due, OnItsWay
    <2>6. Written'
      BY <2>1, <2>3, <2>5 DEF Told, Written
    <2>7. Drained'
      BY <2>4 DEF Drained
    <2>8. Rung' /\ Noted' /\ Held'
      BY <2>1 DEF Told, Rung, Noted, Unseen, Held
    <2> QED  BY <2>6, <2>7, <2>8 DEF Told
  <1> QED  BY <1>1, <1>2 DEF StopStep

LEMMA SendPendingTold ==
    ASSUME Types, TxOK, Told, NEW q \in Queues, SendPending(q)
    PROVE  Told'
  <1>1. /\ tx \in TxType /\ xmit_pending \in [Queues -> BOOLEAN]
        /\ write_count \in [Queues -> Counts] /\ notify_count \in [Queues -> Counts]
        /\ doorbell \in [Queues -> Slots]
    BY Typed DEF Types, WriteType, NotifyType, BellType
  <1>2. /\ tx.stage = "push"
        /\ UNCHANGED <<insert_count, holdoff, unsaid, poll>>
        /\ xmit_pending' = [xmit_pending EXCEPT ![q] = FALSE]
        /\ write_count' = [write_count EXCEPT ![q] = insert_count[q]]
    BY DEF SendPending, flagVars, histVars
  <1>3. \A r \in Queues : /\ xmit_pending'[r] = IF r = q THEN FALSE ELSE xmit_pending[r]
                          /\ write_count'[r] = IF r = q THEN insert_count[q] ELSE write_count[r]
    BY <1>1, <1>2
  <1>4. /\ tx'.q = tx.q /\ tx'.stage \in {"push", "holdoff"}
        /\ tx'.stage = "holdoff" => tx'.ring = q
    BY <1>1, <1>2 DEF SendPending, TxType
  <1>5. \A r \in Queues : Due(r) = insert_count[r] /\ Due(r)' = insert_count[r]
    BY <1>2, <1>4 DEF Due, OnItsWay
  <1>6. Written'
    BY <1>3, <1>5 DEF Told, Written
  <1>7. Drained'
    BY <1>4 DEF Drained
  <1>8. Held'
    BY <1>2 DEF Told, Held
  <1>9. CASE write_count[q] # insert_count[q] /\ PushAllowed(q)
    <2>1. /\ doorbell' = [doorbell EXCEPT ![q] = Slot(insert_count[q])]
          /\ notify_count' = [notify_count EXCEPT ![q] = insert_count[q]]
      BY <1>9 DEF SendPending
    <2>2. \A r \in Queues :
             /\ doorbell'[r] = IF r = q THEN Slot(insert_count[q]) ELSE doorbell[r]
             /\ notify_count'[r] = IF r = q THEN insert_count[q] ELSE notify_count[r]
      BY <1>1, <2>1
    <2>3. Rung'
      BY <1>2, <2>2 DEF Told, Rung
    <2>4. ASSUME NEW r \in Queues
          PROVE  notify_count'[r] = write_count'[r] \/ holdoff' \/ unsaid' \/ Unseen(r)'
      <3>1. CASE r = q
        BY <1>3, <2>2, <3>1
      <3>2. CASE r # q
        <4>1. notify_count'[r] = notify_count[r] /\ write_count'[r] = write_count[r]
          BY <1>3, <2>2, <3>2
        <4>2. notify_count[r] = write_count[r] \/ holdoff \/ unsaid \/ Unseen(r)
          BY <1>2 DEF Told, Noted
        <4>3. Unseen(r) => Unseen(r)'
          BY <1>2, <4>1 DEF Unseen
        <4> QED  BY <1>2, <4>1, <4>2, <4>3
      <3> QED  BY <3>1, <3>2
    <2>5. Noted'
      BY <2>4 DEF Noted
    <2> QED  BY <1>6, <1>7, <1>8, <2>3, <2>5 DEF Told
  <1>10. CASE ~(write_count[q] # insert_count[q] /\ PushAllowed(q))
    <2>1. UNCHANGED <<doorbell, notify_count>>
      BY <1>10 DEF SendPending
    <2>2. Rung'
      BY <1>2, <2>1 DEF Told, Rung
    <2>3. write_count[q] = insert_count[q] \/ (tx'.stage = "holdoff" /\ tx'.ring = q)
      BY <1>1, <1>10 DEF SendPending, TxType
    <2>4. ASSUME NEW r \in Queues
          PROVE  \/ notify_count'[r] = write_count'[r] \/ (tx'.stage = "holdoff" /\ tx'.ring = r)
                 \/ holdoff' \/ unsaid' \/ Unseen(r)'
      <3>1. CASE tx'.stage = "holdoff" /\ tx'.ring = r
        BY <3>1
      <3>2. CASE ~(tx'.stage = "holdoff" /\ tx'.ring = r)
        <4>1. notify_count'[r] = notify_count[r] /\ write_count'[r] = write_count[r]
          BY <1>3, <2>1, <2>3, <3>2
        <4>2. notify_count[r] = write_count[r] \/ holdoff \/ unsaid \/ Unseen(r)
          BY <1>2 DEF Told, Noted
        <4>3. Unseen(r) => Unseen(r)'
          BY <1>2, <4>1 DEF Unseen
        <4> QED  BY <1>2, <4>1, <4>2, <4>3
      <3> QED  BY <3>1, <3>2
    <2>5. Noted'
      BY <2>4 DEF Noted
    <2> QED  BY <1>6, <1>7, <1>8, <2>2, <2>5 DEF Told
  <1> QED  BY <1>9, <1>10

LEMMA TestHoldoffTold ==
    ASSUME Types, TxOK, Told, TestHoldoff
    PROVE  Told'
  <1>1. /\ tx \in TxType
        /\ notify_count \in [Queues -> Counts] /\ doorbell \in [Queues -> Slots]
    BY Typed DEF Types, NotifyType, BellType
  <1>2. /\ tx.stage = "holdoff"
        /\ UNCHANGED <<insert_count, write_count, xmit_pending, holdoff, unsaid, poll>>
        /\ tx' = [tx EXCEPT !.stage = "push", !.ring = NoQueue]
    BY DEF TestHoldoff, flagVars, histVars
  <1>3. tx'.q = tx.q /\ tx'.stage = "push" /\ tx.ring \in Queues
    BY <1>1, <1>2 DEF TxType, TxOK
  <1>4. \A r \in Queues : Due(r) = insert_count[r] /\ Due(r)' = insert_count[r]
    BY <1>2, <1>3 DEF Due, OnItsWay
  <1>5. Written' /\ Drained' /\ Held'
    BY <1>2, <1>3, <1>4 DEF Told, Written, Drained, Held
  <1>6. CASE holdoff
    <2>1. UNCHANGED <<doorbell, notify_count>>
      BY <1>6 DEF TestHoldoff
    <2>2. Rung' /\ Noted'
      BY <1>2, <1>6, <2>1 DEF Told, Rung, Noted, Unseen
    <2> QED  BY <1>5, <2>2 DEF Told
  <1>7. CASE ~holdoff
    <2>1. /\ doorbell' = [doorbell EXCEPT ![tx.ring] = Slot(write_count[tx.ring])]
          /\ notify_count' = [notify_count EXCEPT ![tx.ring] = write_count[tx.ring]]
      BY <1>7 DEF TestHoldoff
    <2>2. \A r \in Queues :
             /\ doorbell'[r] = IF r = tx.ring THEN Slot(write_count[r]) ELSE doorbell[r]
             /\ notify_count'[r] = IF r = tx.ring THEN write_count[r] ELSE notify_count[r]
      BY <1>1, <1>3, <2>1
    <2>3. Rung'
      BY <1>2, <2>2 DEF Told, Rung
    <2>4. Noted'
      BY <1>2, <1>7, <2>2 DEF Told, Noted, Unseen
    <2> QED  BY <1>5, <2>3, <2>4 DEF Told
  <1> QED  BY <1>6, <1>7

LEMMA EndPushTold ==
    ASSUME Types, TxOK, Told, EndPush
    PROVE  Told'
  <1>1. /\ tx \in TxType /\ tx.stage = "push" /\ Finish(tx.left)
        /\ \A q \in Queues : ~xmit_pending[q]
        /\ UNCHANGED <<insert_count, write_count, notify_count, xmit_pending, doorbell, holdoff, unsaid, poll>>
    BY Typed DEF EndPush, countVars, nicVars, flagVars, histVars
  <1>2. \/ tx'.stage = "idle" /\ tx'.q = NoQueue /\ tx'.more = tx.more
        \/ tx'.stage = "map" /\ tx'.q = tx.q /\ tx'.from = insert_count'[tx.q]
    BY <1>1, FinishDue
  <1>3. (\A q \in Queues : Due(q)' = Due(q)) /\ Drained'
    BY <1>1, <1>2 DEF Due, OnItsWay, Drained
  <1> QED  BY <1>1, <1>3, DueKept

(* The poll's steps leave the transmit path alone.                          *)
LEMMA PollTold ==
    ASSUME Told, UNCHANGED <<insert_count, write_count, xmit_pending, tx>>, Rung', Noted', Held'
    PROVE  Told'
BY DEF Told, Written, Drained, Due

LEMMA RingStepTold ==
    ASSUME Types, Told, RingStep
    PROVE  Told'
  <1>1. /\ poll \in PollType
        /\ notify_count \in [Queues -> Counts] /\ write_count \in [Queues -> Counts]
        /\ doorbell \in [Queues -> Slots]
    BY Typed DEF Types, NotifyType, WriteType, BellType
  <1>2. UNCHANGED <<insert_count, write_count, xmit_pending, tx>>
    BY DEF RingStep, PollRing, PollRang, PollBellsDone, PollReadWritten, PollSubtract, PollUnsent,
           countVars
  <1>3. CASE \E q \in Queues : PollRing(q)
    <2> PICK q \in Queues : PollRing(q)
      BY <1>3
    <2>1. /\ poll.stage = "bells" /\ poll.ring = NoQueue /\ q \in poll.todo
          /\ UNCHANGED <<notify_count, holdoff, unsaid>>
      BY DEF PollRing, countVars, flagVars, histVars
    <2>2. CASE notify_count[q] # write_count[q]
      <3>1. doorbell' = [doorbell EXCEPT ![q] = Slot(write_count[q])] /\ poll' = [poll EXCEPT !.ring = q]
        BY <2>2 DEF PollRing
      <3>2. poll'.ring = q /\ poll'.stage = "bells" /\ poll'.todo = poll.todo
            /\ \A r \in Queues : r # q => doorbell'[r] = doorbell[r]
        BY <1>1, <2>1, <3>1 DEF PollType
      <3>3. Rung' /\ Noted' /\ Held'
        BY <1>2, <2>1, <3>2, NoSuchQueue DEF Told, Rung, Noted, Unseen, Held
      <3> QED  BY <1>2, <3>3, PollTold
    <2>3. CASE notify_count[q] = write_count[q]
      <3>1. UNCHANGED doorbell /\ poll' = [poll EXCEPT !.todo = @ \ {q}]
        BY <2>3 DEF PollRing
      <3>2. poll'.ring = poll.ring /\ poll'.stage = poll.stage
        BY <1>1, <3>1 DEF PollType
      <3>3. Rung' /\ Noted' /\ Held'
        BY <1>2, <2>1, <3>1, <3>2 DEF Told, Rung, Noted, Unseen, Held
      <3> QED  BY <1>2, <3>3, PollTold
    <2> QED  BY <2>2, <2>3
  <1>4. CASE PollRang
    <2> PICK q : q = poll.ring
      OBVIOUS
    <2>1. /\ q # NoQueue
          /\ notify_count' = [notify_count EXCEPT ![q] = write_count[q]]
          /\ unsaid' = (unsaid \/ doorbell[q] # Slot(write_count[q]))
          /\ poll' = [poll EXCEPT !.ring = NoQueue, !.todo = @ \ {q}]
          /\ UNCHANGED <<doorbell, holdoff>>
      BY <1>4 DEF PollRang, nicVars, flagVars
    <2>2. q \in Queues /\ poll'.ring = NoQueue /\ poll'.stage = poll.stage
      BY <1>1, <2>1 DEF PollType
    <2>3. \A r \in Queues : notify_count'[r] = IF r = q THEN write_count[r] ELSE notify_count[r]
      BY <1>1, <2>1, <2>2
    <2>4. ASSUME NEW r \in Queues, ~unsaid'
          PROVE  doorbell'[r] = Slot(notify_count'[r])
      <3>1. CASE r = q
        BY <2>1, <2>3, <2>4, <3>1
      <3>2. CASE r # q
        BY <2>1, <2>3, <2>4, <3>2 DEF Told, Rung
      <3> QED  BY <3>1, <3>2
    <2>5. Rung'
      BY <2>4 DEF Rung
    <2>6. Noted' /\ Held'
      BY <1>2, <2>1, <2>2, <2>3 DEF Told, Noted, Unseen, Held
    <2> QED  BY <1>2, <2>5, <2>6, PollTold
  <1>5. CASE PollBellsDone
    <2>1. /\ poll.stage = "bells" /\ ~holdoff' /\ poll' = [NoPoll EXCEPT !.stage = "unsent", !.todo = Queues]
          /\ UNCHANGED <<notify_count, doorbell, unsaid>>
      BY <1>5 DEF PollBellsDone, countVars, nicVars, histVars
    <2>2. poll'.ring = NoQueue /\ poll'.stage = "unsent" /\ poll'.todo = Queues
      BY <2>1 DEF NoPoll
    <2>3. poll.ring = NoQueue
      BY <1>5 DEF PollBellsDone, Told, Held
    <2>4. Rung' /\ Held'
      BY <2>1, <2>2, <2>3 DEF Told, Rung, Held
    <2>5. Noted'
      BY <2>2 DEF Noted, Unseen
    <2> QED  BY <1>2, <2>4, <2>5, PollTold
  <1>6. CASE PollUnsent
    <2>1. /\ poll.stage = "unsent" /\ poll.todo = {} /\ UNCHANGED <<notify_count, doorbell>>
          /\ holdoff' = (poll.unsent # 0)
          /\ unsaid' = (unsaid \/ (poll.unsent = 0 /\ poll.differ))
          /\ poll' = IF poll.unsent # 0 THEN [NoPoll EXCEPT !.stage = "bells", !.todo = Queues]
                                        ELSE [NoPoll EXCEPT !.stage = "fill"]
      BY <1>6 DEF PollUnsent, countVars, nicVars
    <2>2. poll'.ring = NoQueue /\ poll.ring = NoQueue /\ (holdoff' => poll'.stage = "bells")
      BY <2>1 DEF NoPoll, Told, Held
    <2>3. Rung' /\ Held'
      BY <2>1, <2>2 DEF Told, Rung, Held
    <2>4. ASSUME NEW q \in Queues
          PROVE  \/ notify_count[q] = write_count[q] \/ (tx.stage = "holdoff" /\ tx.ring = q)
                 \/ holdoff' \/ unsaid'
      <3>1. ~holdoff
        BY <2>1 DEF Told, Held
      <3>2. Unseen(q) => poll.differ
        BY <2>1 DEF Unseen
      <3> QED  BY <2>1, <3>1, <3>2 DEF Told, Noted
    <2>5. Noted'
      BY <1>2, <2>1, <2>4 DEF Noted
    <2> QED  BY <1>2, <2>3, <2>5, PollTold
  <1>7. ASSUME NEW q \in Queues, PollReadWritten(q)  PROVE Told'
    <2>1. /\ poll.stage = "unsent" /\ q = FirstOf(poll.todo)
          /\ poll' = [poll EXCEPT !.stage = "subtract", !.read = write_count[q]]
          /\ UNCHANGED <<notify_count, doorbell, holdoff, unsaid>>
      BY <1>7 DEF PollReadWritten, countVars, nicVars, flagVars, histVars
    <2>2. /\ poll'.stage = "subtract" /\ poll'.read = write_count[q] /\ poll'.todo = poll.todo
          /\ poll'.ring = poll.ring /\ poll'.differ = poll.differ
      BY <1>1, <2>1 DEF PollType
    <2>3. Rung' /\ Held'
      BY <2>1, <2>2 DEF Told, Rung, Held
    <2>4. \A r \in Queues : Unseen(r) => Unseen(r)'
      BY <1>2, <2>1, <2>2 DEF Unseen
    <2>5. Noted'
      BY <1>2, <2>1, <2>4 DEF Told, Noted
    <2> QED  BY <1>2, <2>3, <2>5, PollTold
  <1>8. ASSUME NEW q \in Queues, PollSubtract(q)  PROVE Told'
    <2> DEFINE difference == (poll.read - notify_count[q]) % CountSpace
    <2>1. /\ poll.stage = "subtract" /\ q = FirstOf(poll.todo)
          /\ poll' = [poll EXCEPT !.stage = "unsent", !.todo = poll.todo \ {q}, !.read = 0,
                                  !.unsent = Incr(poll.unsent, difference),
                                  !.differ = poll.differ \/ difference # 0]
          /\ UNCHANGED <<notify_count, doorbell, holdoff, unsaid>>
      BY <1>8 DEF PollSubtract, countVars, nicVars, flagVars, histVars
    <2>2. difference = 0 => poll.read = notify_count[q]
      <3>1. poll.read \in Counts /\ notify_count[q] \in Counts
        BY <1>1 DEF PollType
      <3> QED  BY <3>1, AheadZero DEF Ahead
    <2> HIDE DEF difference
    <2>3. /\ poll'.stage = "unsent" /\ poll'.todo = poll.todo \ {q} /\ poll'.ring = poll.ring
          /\ poll'.differ = (poll.differ \/ difference # 0)
      BY <1>1, <2>1 DEF PollType
    <2>4. Rung' /\ Held'
      BY <2>1, <2>3 DEF Told, Rung, Held
    <2>5. ASSUME NEW r \in Queues
          PROVE  \/ notify_count[r] = write_count[r] \/ (tx.stage = "holdoff" /\ tx.ring = r)
                 \/ holdoff \/ unsaid \/ Unseen(r)'
      <3>1. \/ notify_count[r] = write_count[r] \/ (tx.stage = "holdoff" /\ tx.ring = r)
            \/ holdoff \/ unsaid \/ Unseen(r)
        BY DEF Told, Noted
      <3>2. CASE Unseen(r) /\ (r # q \/ poll.differ)
        BY <2>3, <3>2 DEF Unseen
      <3>3. CASE Unseen(r) /\ r = q /\ ~poll.differ
        <4>1. poll.read = write_count[q]
          BY <2>1, <3>3 DEF Unseen
        <4> QED  BY <2>2, <2>3, <3>3, <4>1 DEF Unseen
      <3> QED  BY <3>1, <3>2, <3>3
    <2>6. Noted'
      BY <1>2, <2>1, <2>5 DEF Noted
    <2> QED  BY <1>2, <2>4, <2>6, PollTold
  <1> QED  BY <1>3, <1>4, <1>5, <1>6, <1>7, <1>8 DEF RingStep

LEMMA PollStepTold ==
    ASSUME Types, Told, PollStart \/ PollStep
    PROVE  Told'
  <1>1. poll \in PollType
    BY Typed
  <1>2. UNCHANGED <<insert_count, write_count, xmit_pending, tx>>
    BY DEF PollStart, PollStep, EventOf, PollEvent, PollEventsDone, RingStep, PollRing, PollRang,
           PollBellsDone, PollReadWritten, PollSubtract, PollUnsent, PollFill, PollWake, countVars
  <1>3. CASE PollStart
    <2>1. /\ poll.stage = "idle" /\ poll' = [poll EXCEPT !.stage = "events"]
          /\ UNCHANGED <<notify_count, doorbell, unsaid>>
      BY <1>3 DEF PollStart, countVars, nicVars, histVars
    <2>2. poll.ring = NoQueue /\ ~holdoff
      BY <2>1 DEF Told, Held
    <2>3. poll'.stage = "events" /\ poll'.ring = NoQueue
      BY <1>1, <2>1, <2>2 DEF PollType
    <2>4. Rung' /\ Noted' /\ Held'
      BY <1>2, <2>1, <2>2, <2>3 DEF Told, Rung, Noted, Unseen, Held
    <2> QED  BY <1>2, <2>4, PollTold
  <1>4. CASE \E q \in Queues : EventOf(q)
    <2>1. UNCHANGED <<notify_count, doorbell, holdoff, unsaid, poll>>
      BY <1>4 DEF EventOf, PollEvent, countVars, flagVars
    <2>2. Rung' /\ Noted' /\ Held'
      BY <1>2, <2>1 DEF Told, Rung, Noted, Unseen, Held
    <2> QED  BY <1>2, <2>2, PollTold
  <1>5. CASE PollEventsDone
    <2>1. poll.stage = "events" /\ UNCHANGED <<notify_count, doorbell, holdoff, unsaid>>
      BY <1>5 DEF PollEventsDone, countVars, nicVars, flagVars, histVars
    <2>2. poll.ring = NoQueue
      BY <2>1 DEF Told, Held
    <2>3. poll'.ring = NoQueue /\ (holdoff => poll'.stage = "bells")
      BY <1>1, <1>5, <2>2 DEF PollEventsDone, ReadFill, PollType
    <2>4. Rung' /\ Noted' /\ Held'
      BY <1>2, <2>1, <2>2, <2>3 DEF Told, Rung, Noted, Unseen, Held
    <2> QED  BY <1>2, <2>4, PollTold
  <1>6. CASE PollFill \/ PollWake
    <2>1. poll.stage \in {"fill", "test"} /\ UNCHANGED <<notify_count, doorbell, holdoff, unsaid>>
      BY <1>6 DEF PollFill, PollWake, countVars, nicVars, flagVars, histVars
    <2>2. poll.ring = NoQueue /\ ~holdoff
      BY <2>1 DEF Told, Held
    <2>3. poll'.ring = NoQueue
      <3>1. CASE PollFill
        <4>1. poll' = ReadFill
          BY <3>1 DEF PollFill
        <4> QED  BY <1>1, <2>2, <4>1 DEF ReadFill, PollType
      <3>2. CASE PollWake
        BY <3>2 DEF PollWake, NoPoll
      <3> QED  BY <1>6, <3>1, <3>2
    <2>4. Rung' /\ Noted' /\ Held'
      BY <1>2, <2>1, <2>2, <2>3 DEF Told, Rung, Noted, Unseen, Held
    <2> QED  BY <1>2, <2>4, PollTold
  <1> QED  BY <1>3, <1>4, <1>5, <1>6, RingStepTold DEF PollStep

LEMMA RestartTold ==
    ASSUME Told, Restart
    PROVE  Told'
  <1>1. /\ poll.stage = "idle" /\ UNCHANGED <<holdoff, unsaid, poll>>
        /\ insert_count' = All(0) /\ write_count' = All(0) /\ notify_count' = All(0)
        /\ xmit_pending' = All(FALSE) /\ doorbell' = All(0) /\ tx' = NoTx
    BY DEF Restart, histVars
  <1>2. \A q \in Queues : /\ insert_count'[q] = 0 /\ write_count'[q] = 0 /\ notify_count'[q] = 0
                          /\ xmit_pending'[q] = FALSE /\ doorbell'[q] = 0
    BY <1>1 DEF All
  <1>3. Slot(0) = 0
    BY Sizes DEF Slot
  <1>4. tx'.stage = "idle"
    BY <1>1 DEF NoTx
  <1> QED  BY <1>1, <1>2, <1>3, <1>4 DEF Told, Rung, Written, Drained, Noted, Unseen, Held, Due, OnItsWay

LEMMA InitTold ==
    ASSUME Init
    PROVE  Told
  <1>1. PICK c \in Starts : /\ insert_count = All(c) /\ write_count = All(c) /\ notify_count = All(c)
                            /\ doorbell = All(Slot(c))
    BY DEF Init
  <1>2. \A q \in Queues : /\ insert_count[q] = c /\ write_count[q] = c /\ notify_count[q] = c
                          /\ doorbell[q] = Slot(c) /\ xmit_pending[q] = FALSE
    BY <1>1 DEF All, Init
  <1>3. tx.stage = "idle" /\ poll.ring = NoQueue /\ ~holdoff
    BY DEF Init, NoTx, NoPoll
  <1> QED  BY <1>2, <1>3 DEF Told, Rung, Written, Drained, Noted, Unseen, Held, Due, OnItsWay

---------------------------------------------------------------------------
(* Theorems                                                                 *)

(* The counters of a ring stay in order and within the ring, its buffers,   *)
(* mappings and announcements agree with them, there is room for a packet   *)
(* while the stack may hand one over, and no mapping is undone twice.       *)
THEOREM Invariant == Spec => []IInv
  <1>1. IInv /\ [Next]_vars => IInv'
    <2> SUFFICES ASSUME IInv, [Next]_vars  PROVE IInv'
      OBVIOUS
    <2>1. CASE NextPacket \/ \E more \in BOOLEAN : StartPtpXmit(more)
      BY <2>1, StartKeeps
    <2>2. CASE XmitStep
      <3>1. CASE MapStep
        BY <3>1, MapStepKeeps
      <3>2. CASE StopStep
        BY <3>2, StopStepKeeps
      <3>3. CASE PushStep
        <4>1. ASSUME NEW q \in Queues, SendPending(q)  PROVE IInv'
          BY <4>1, SendPendingKeeps
        <4> QED  BY <3>3, <4>1, TestHoldoffKeeps, EndPushKeeps DEF PushStep
      <3> QED  BY <2>2, <3>1, <3>2, <3>3 DEF XmitStep
    <2>3. CASE PollStart \/ PollStep
      <3>1. ASSUME NEW q \in Queues, EventOf(q)  PROVE IInv'
        BY <3>1, PollEventKeeps DEF EventOf
      <3>2. CASE RingStep
        BY <3>2, PollRingKeeps, PollQuietKeeps DEF RingStep
      <3> QED  BY <2>3, <3>1, <3>2, PollQuietKeeps, PollWakeKeeps DEF PollStep
    <2>4. CASE Restart
      BY <2>4, RestartKeeps
    <2>5. CASE UNCHANGED vars
      BY <2>5, StutterKeeps
    <2> QED  BY <2>1, <2>2, <2>3, <2>4, <2>5 DEF Next
  <1> QED  BY <1>1, InitInv, PTL DEF Spec

(* Every variable of the transmit path stays in its domain; in particular   *)
(* the driver never undoes more DMA mappings than it made.                  *)
THEOREM TypeCorrect == Spec => []TypeOK
  <1>1. ASSUME IInv  PROVE TypeOK
    <2>1. Types /\ MappedEnough
      BY <1>1 DEF IInv
    <2>2. mapped \in Nat
      BY <2>1, MappingsFinite DEF Types, MappedEnough
    <2>3. {insert_count, write_count, notify_count, read_count, old_write_count}
             \subseteq [Queues -> Counts]
      BY <2>1 DEF Types, InsertType, WriteType, NotifyType, ReadType, OldType
    <2>4. xmit_pending \in [Queues -> BOOLEAN] /\ empty_read_count \in [Queues -> 0 .. CountSpace \div 2 - 1]
          /\ buffer \in [Queues -> [Slots -> Kinds]] /\ {doorbell, done} \subseteq [Queues -> Slots]
          /\ skbs \in 0 .. MaxSkbs[coalesce]
      BY <2>1 DEF Types, PendingType, EmptyType, BufferType, BellType, DoneType, SkbType
    <2>5. {stopped, holdoff, coalesce, spurious, overtaken, unsaid} \subseteq BOOLEAN
      <3>1. /\ stopped \in BOOLEAN /\ holdoff \in BOOLEAN /\ coalesce \in BOOLEAN
            /\ spurious \in BOOLEAN /\ overtaken \in BOOLEAN /\ unsaid \in BOOLEAN
        BY <2>1, Typed
      <3> QED  BY <3>1, Zenon
    <2>6. tx \in TxType /\ poll \in PollType
      BY <2>1, Typed
    <2> QED  BY <2>2, <2>3, <2>4, <2>5, <2>6 DEF TypeOK, TxType, PollType, Stages, PollStages
  <1> QED  BY Invariant, <1>1, PTL

(* One descriptor of every ring stays empty (efx_common.c, where            *)
(* txq_stop_thresh is computed), whatever packets fail, complete or are     *)
(* sent in segments, as long as the queue of the stack was only woken at a  *)
(* fill level that allows it.                                               *)
THEOREM RingNeverFull == Spec => []OneEmptyUnlessOvertaken
  <1>1. ASSUME IInv  PROVE OneEmptyUnlessOvertaken
    BY <1>1 DEF IInv, Sound, Ring, RingOK, InOrder, OneEmptyUnlessOvertaken, OneDescriptorEmpty,
                Fill, Ahead
  <1> QED  BY Invariant, <1>1, PTL

(* The buffers in use are those between read_count and insert_count, they   *)
(* are those of whole packets but for the one being added, there are as     *)
(* many DMA mappings as buffers that will undo one, and no completion was   *)
(* spurious.                                                                *)
THEOREM MappingsExact == Spec => []MappingsOwned
  <1>1. ASSUME IInv  PROVE MappingsOwned
    <2> SUFFICES ASSUME ~overtaken
                 PROVE  /\ \A q \in Queues, i \in Slots :
                              (buffer[q][i] # "free") = (i \in Span(read_count[q], Fill(q)))
                        /\ \A q \in Queues :
                              Fill(q) > 0 /\ (tx.q # q \/ tx.stage # "map")
                                  => buffer[q][Slot(insert_count[q] - 1)] \in Ends
                        /\ mapped = Cardinality(Mappings)
                        /\ ~spurious
      BY DEF MappingsOwned
    <2>1. Sound
      BY <1>1 DEF IInv
    <2>2. \A q \in Queues, i \in Slots :
             buffer[q][i] # "free" <=> i \in Span(read_count[q], Fill(q))
      BY <2>1 DEF Sound, Ring, RingOK, InUseExactly, Fill, Ahead
    <2>3. ASSUME NEW q \in Queues, Fill(q) > 0, tx.q # q \/ tx.stage # "map"
          PROVE  buffer[q][Slot(insert_count[q] - 1)] \in Ends
      <3>1. Top(q) = insert_count[q]
        BY <2>3 DEF Top
      <3> QED  BY <2>1, <2>3, <3>1 DEF Sound, Ring, RingOK, EndsWhole, Fill, Ahead
    <2> QED  BY <2>1, <2>2, <2>3 DEF Sound
  <1> QED  BY Invariant, <1>1, PTL

(* Between two calls of the stack that promised nothing, and outside the    *)
(* poll, the NIC was told of every packet, whether the transmit path, a     *)
(* later packet, or the poll announced it, and on the queues of the channel *)
(* that were only waiting for the last packet (efx_tx_send_pending), unless *)
(* a doorbell was rung with a count that efx_ef10_notify_tx_desc then read  *)
(* again, or the differences the poll summed cancelled each other.          *)
THEOREM EveryPacketAnnounced == Spec => []AllAnnounced
  <1>1. Init => Told
    BY InitTold
  <1>2. ASSUME IInv, Told, [Next]_vars  PROVE Told'
    <2>1. Types /\ TxOK
      BY <1>2 DEF IInv
    <2>2. CASE NextPacket \/ \E more \in BOOLEAN : StartPtpXmit(more)
      BY <1>2, <2>1, <2>2, StartTold
    <2>3. CASE XmitStep
      <3>1. CASE MapStep
        BY <1>2, <2>1, <3>1, MapStepTold
      <3>2. CASE StopStep
        BY <1>2, <2>1, <3>2, StopStepTold
      <3>3. CASE PushStep
        BY <1>2, <2>1, <3>3, SendPendingTold, TestHoldoffTold, EndPushTold DEF PushStep
      <3> QED  BY <2>3, <3>1, <3>2, <3>3 DEF XmitStep
    <2>4. CASE PollStart \/ PollStep
      BY <1>2, <2>1, <2>4, PollStepTold
    <2>5. CASE Restart
      BY <1>2, <2>5, RestartTold
    <2>6. CASE UNCHANGED vars
      BY <1>2, <2>6 DEF vars, countVars, nicVars, flagVars, histVars, Told, Rung, Written, Drained,
                        Noted, Unseen, Held, Due
    <2> QED  BY <1>2, <2>2, <2>3, <2>4, <2>5, <2>6 DEF Next
  <1>3. ASSUME IInv, Told  PROVE AllAnnounced
    <2> SUFFICES ASSUME tx.stage = "idle", ~tx.more, poll.stage = "idle", ~unsaid, NEW q \in Queues
                 PROVE  doorbell[q] = Slot(insert_count[q])
      BY DEF AllAnnounced
    <2>1. poll.ring = NoQueue /\ ~holdoff
      BY <1>3 DEF Told, Held
    <2>2. ~xmit_pending[q] /\ write_count[q] = insert_count[q]
      BY <1>3 DEF Told, Drained, Written, Due, OnItsWay
    <2>3. notify_count[q] = write_count[q]
      BY <1>3, <2>1 DEF Told, Noted, Unseen
    <2> QED  BY <1>3, <2>1, <2>2, <2>3, NoSuchQueue DEF Told, Rung
  <1> QED  BY <1>1, <1>2, <1>3, Invariant, PTL DEF Spec

===========================================================================
