-------------------------- MODULE VirtQueueProofs --------------------------
(***************************************************************************)
(* For every queue size and every index width that it divides: the         *)
(* wrapping rings are sequences, every chain is in one place, none is      *)
(* forgotten, and the virtqueue implements RequestQueue.                   *)
(***************************************************************************)
EXTENDS VirtQueue, OrderLemmas

-----------------------------------------------------------------------------
(* Remainders.                                                             *)

\* A remainder is the only number below the divisor at a multiple's distance.
LEMMA RemainderUnique ==
  ASSUME NEW B \in Nat \ {0}, NEW x \in Int, NEW q \in Int, NEW r \in 0 .. B - 1,
         x = B * q + r
  PROVE  x % B = r
<1> DEFINE p == x \div B
           s == x % B
<1>1. p \in Int /\ s \in 0 .. B - 1 /\ x = B * p + s
  OBVIOUS
<1> HIDE DEF p, s
<1>2. PICK d \in Int : p = q + d
  <2>1. p - q \in Int /\ p = q + (p - q)
    BY <1>1
  <2> QED
    BY <2>1
<1>3. B * p = B * q + B * d /\ B * q \in Int /\ B * d \in Int
  BY <1>1, <1>2
<1>4. r = B * d + s
  BY <1>1, <1>3
<1>5. ASSUME d >= 1 PROVE FALSE
  <2>1. PICK e \in Nat : d = 1 + e
    <3>1. d - 1 \in Nat /\ d = 1 + (d - 1)
      BY <1>5
    <3> QED
      BY <3>1
  <2>2. B * d = B + B * e /\ B * e \in Nat
    BY <2>1
  <2> QED
    BY <1>1, <1>4, <2>2
<1>6. ASSUME d <= -1 PROVE FALSE
  <2>1. PICK e \in Nat : d = -1 - e
    <3>1. -1 - d \in Nat /\ d = -1 - (-1 - d)
      BY <1>6
    <3> QED
      BY <3>1
  <2>2. B * d = -B - B * e /\ B * e \in Nat
    BY <2>1
  <2> QED
    BY <1>1, <1>4, <2>2
<1>7. d = 0
  BY <1>5, <1>6
<1>8. r = s
  BY <1>1, <1>4, <1>7
<1> QED
  BY <1>8 DEF s

LEMMA Remainder ==
  ASSUME NEW B \in Nat \ {0}, NEW x \in Int
  PROVE  x % B \in 0 .. B - 1 /\ \E q \in Int : x = B * q + (x % B)
<1>1. x \div B \in Int /\ x % B \in 0 .. B - 1 /\ x = B * (x \div B) + (x % B)
  OBVIOUS
<1> QED
  BY <1>1

\* Numbers a multiple of B apart have the same remainder.
LEMMA SameRemainder ==
  ASSUME NEW B \in Nat \ {0}, NEW x \in Int, NEW y \in Int, NEW q \in Int, x = y + B * q
  PROVE  x % B = y % B
<1>1. PICK p \in Int : y = B * p + (y % B)
  BY Remainder
<1>2. B * (p + q) = B * p + B * q /\ B * p \in Int /\ B * q \in Int
  OBVIOUS
<1>3. y % B \in 0 .. B - 1
  BY Remainder
<1>4. x = B * (p + q) + (y % B) /\ p + q \in Int
  BY <1>1, <1>2, <1>3
<1> QED
  BY <1>3, <1>4, RemainderUnique

-----------------------------------------------------------------------------
(* Indexes and slots.                                                      *)

LEMMA Constants ==
  /\ Size \in Nat \ {0} /\ Modulus \in Nat \ {0} /\ Size < Modulus
  /\ \E c \in Int : Modulus = Size * c
<1>1. Size \in Nat \ {0} /\ Modulus \in Nat \ {0} /\ Size < Modulus
  BY QueueAssumption
<1>2. PICK c \in Int : Modulus = Size * c + (Modulus % Size)
  <2>1. Modulus \in Int
    BY <1>1
  <2> QED
    BY <1>1, <2>1, Remainder
<1>3. Modulus = Size * c
  BY <1>1, <1>2, QueueAssumption
<1> QED
  BY <1>1, <1>3

LEMMA IndexTypes ==
  ASSUME NEW x \in Int
  PROVE  Slot(x) \in Heads /\ Wrap(x) \in Indexes /\ Wrap(x) \in Nat /\ Slot(x) \in Nat
<1>1. x % Size \in 0 .. Size - 1 /\ x % Modulus \in 0 .. Modulus - 1
  BY Constants, Remainder
<1> QED
  BY <1>1 DEF Slot, Wrap, Heads, Indexes

LEMMA WrapSmall ==
  ASSUME NEW x \in Indexes
  PROVE  Wrap(x) = x
<1>1. x = Modulus * 0 + x /\ x \in 0 .. Modulus - 1 /\ x \in Int
  BY Constants DEF Indexes
<1> QED
  BY <1>1, Constants, RemainderUnique DEF Wrap

\* Wrapping an index does not change its slot, nor those after it.
LEMMA WrapSlot ==
  ASSUME NEW x \in Int, NEW y \in Int
  PROVE  Slot(Wrap(x) + y) = Slot(x + y) /\ Wrap(Wrap(x) + y) = Wrap(x + y)
<1>1. PICK c \in Int : Modulus = Size * c
  BY Constants
<1>2. PICK q \in Int : x = Modulus * q + (x % Modulus)
  BY Constants, Remainder
<1>3. x % Modulus \in Int
  BY Constants, Remainder
<1> DEFINE w == x % Modulus
<1> HIDE DEF w
<1>4. x = Modulus * q + w /\ w \in Int
  BY <1>2, <1>3 DEF w
<1>5. x + y = (w + y) + Modulus * q
  BY <1>4, Constants
<1>6. Modulus * q = Size * (c * q)
  <2>1. Size \in Int
    BY Constants
  <2>2. (Size * c) * q = Size * (c * q)
    BY <2>1
  <2> QED
    BY <1>1, <2>2
<1>7. x + y = (w + y) + Size * (c * q)
  BY <1>5, <1>6
<1>8. c * q \in Int /\ x + y \in Int /\ w + y \in Int
  BY <1>4
<1>9. (x + y) % Size = (w + y) % Size
  BY <1>7, <1>8, Constants, SameRemainder
<1>10. (x + y) % Modulus = (w + y) % Modulus
  BY <1>5, <1>8, Constants, SameRemainder
<1> QED
  BY <1>9, <1>10 DEF Slot, Wrap, w

\* Slots less than the size of the ring apart are different.
LEMMA SlotsApart ==
  ASSUME NEW x \in Int, NEW d \in 1 .. Size - 1
  PROVE  Slot(x + d) # Slot(x)
<1> SUFFICES ASSUME Slot(x + d) = Slot(x) PROVE FALSE
  OBVIOUS
<1> DEFINE r == Slot(x)
<1>1. PICK p \in Int : x = Size * p + r
  BY Constants, Remainder DEF Slot
<1>2. x + d \in Int /\ d \in 0 .. Size - 1 /\ d \in Int
  BY Constants
<1>3. PICK q \in Int : x + d = Size * q + r
  BY <1>2, Constants, Remainder DEF Slot
<1>4. r \in Int
  BY IndexTypes
<1> HIDE DEF r
<1>5. d = 0 + Size * (q - p)
  <2>1. Size \in Int
    BY Constants
  <2>2. Size * (q - p) = Size * q - Size * p /\ Size * q \in Int /\ Size * p \in Int
    BY <2>1
  <2> QED
    BY <1>1, <1>3, <1>4, <2>2
<1>6. d % Size = 0 % Size
  BY <1>2, <1>5, Constants, SameRemainder
<1>7. d % Size = d /\ 0 % Size = 0
  <2>1. d = Size * 0 + d /\ 0 = Size * 0 + 0 /\ 0 \in 0 .. Size - 1
    BY <1>2, Constants
  <2> QED
    BY <1>2, <2>1, Constants, RemainderUnique
<1> QED
  BY <1>6, <1>7

\* How far an index is behind another, both having been moved on from x.
LEMMA DistanceOf ==
  ASSUME NEW x \in Int, NEW k \in Int, NEW n \in Int, n - k \in 0 .. Modulus - 1
  PROVE  Distance(Wrap(x + k), Wrap(x + n)) = n - k
<1> DEFINE a == Wrap(x + k)
           b == Wrap(x + n)
<1>1. x + k \in Int /\ x + n \in Int
  OBVIOUS
<1>2. PICK p \in Int : x + k = Modulus * p + a
  BY <1>1, Constants, Remainder DEF Wrap
<1>3. PICK q \in Int : x + n = Modulus * q + b
  BY <1>1, Constants, Remainder DEF Wrap
<1>4. a \in Int /\ b \in Int
  BY <1>1, IndexTypes
<1> HIDE DEF a, b
<1>5. b - a = Modulus * (p - q) + (n - k)
  <2>1. Modulus \in Int
    BY Constants
  <2>2. Modulus * (p - q) = Modulus * p - Modulus * q
        /\ Modulus * q \in Int /\ Modulus * p \in Int
    BY <2>1
  <2> QED
    BY <1>2, <1>3, <1>4, <2>2
<1>6. b - a \in Int /\ p - q \in Int
  BY <1>4
<1>7. (b - a) % Modulus = n - k
  BY <1>5, <1>6, Constants, RemainderUnique
<1> QED
  BY <1>7 DEF Distance, a, b

LEMMA DistanceBack ==
  ASSUME NEW i \in Indexes, NEW j \in Indexes
  PROVE  /\ Distance(i, j) \in 0 .. Modulus - 1
         /\ j = Wrap(i + Distance(i, j))
<1>1. i \in Int /\ j \in Int /\ j - i \in Int
  BY Constants DEF Indexes
<1> DEFINE d == Distance(i, j)
<1>2. d \in 0 .. Modulus - 1
  BY <1>1, Constants, Remainder DEF Distance
<1>3. PICK q \in Int : j - i = Modulus * q + d
  BY <1>1, Constants, Remainder DEF Distance
<1> HIDE DEF d
<1>4. d \in Int /\ i + d \in Int
  BY <1>1, <1>2, Constants
<1>5. PICK p \in Int : p = 0 - q
  OBVIOUS
<1>6. PICK t \in Int : t = i + d
  BY <1>4
<1>7. t = j + Modulus * p
  <2>1. Modulus \in Int
    BY Constants
  <2>2. Modulus * p = 0 - Modulus * q /\ Modulus * q \in Int /\ Modulus * p \in Int
    BY <2>1, <1>5
  <2>3. j = i + (Modulus * q + d)
    BY <1>1, <1>3, <1>4, <2>2
  <2> QED
    BY <1>1, <1>6, <1>4, <2>2, <2>3
<1>8. t % Modulus = j % Modulus
  BY <1>1, <1>7, Constants, SameRemainder
<1>9. Wrap(i + d) = j
  BY <1>6, <1>8, WrapSmall DEF Wrap
<1> QED
  BY <1>2, <1>9 DEF d

\* The slot of x is as far behind y as x is.
LEMMA SlotDistance ==
  ASSUME NEW x \in Int, NEW y \in Int, NEW r \in 0 .. Size - 1, NEW q \in Int,
         x - y = Size * q + r
  PROVE  (Slot(x) - y) % Size = r
<1>1. PICK p \in Int : x = Size * p + Slot(x)
  BY Constants, Remainder DEF Slot
<1>2. Slot(x) \in Int
  BY IndexTypes
<1> DEFINE s == Slot(x)
<1> HIDE DEF s
<1>3. s - y = Size * (q - p) + r
  <2>1. Size \in Int
    BY Constants
  <2>2. Size * (q - p) = Size * q - Size * p /\ Size * q \in Int /\ Size * p \in Int
    BY <2>1
  <2>3. x = Size * p + s /\ s \in Int
    BY <1>1, <1>2 DEF s
  <2> QED
    BY <2>2, <2>3, Constants
<1>4. s - y \in Int /\ q - p \in Int
  BY <1>2 DEF s
<1> QED
  BY <1>3, <1>4, Constants, RemainderUnique DEF s

-----------------------------------------------------------------------------
(* A ring seen as a sequence: its n elements from index base on.           *)

Window(ring, base, n) == [j \in 1 .. n |-> ring[Slot(base + (j - 1))]]

LEMMA WindowType ==
  ASSUME NEW ring \in [Heads -> Heads], NEW base \in Indexes, NEW n \in Nat
  PROVE  /\ Window(ring, base, n) \in Seq(Heads) /\ Len(Window(ring, base, n)) = n
         /\ \A j \in 1 .. n : Window(ring, base, n)[j] = ring[Slot(base + (j - 1))]
<1>1. base \in Int
  BY Constants DEF Indexes
<1>2. ASSUME NEW j \in 1 .. n PROVE ring[Slot(base + (j - 1))] \in Heads
  <2>1. base + (j - 1) \in Int
    BY <1>1
  <2>2. Slot(base + (j - 1)) \in Heads
    BY <2>1, IndexTypes
  <2> QED
    BY <2>2
<1> DEFINE w == Window(ring, base, n)
<1>3. w \in [1 .. n -> Heads]
  BY <1>2 DEF Window
<1>4. \A j \in 1 .. n : w[j] = ring[Slot(base + (j - 1))]
  BY DEF Window
<1> HIDE DEF w
<1>5. w \in Seq(Heads) /\ Len(w) = n
  BY <1>3
<1> QED
  BY <1>4, <1>5 DEF w

\* Writing the slot after a window lengthens it.
LEMMA WindowAppend ==
  ASSUME NEW ring \in [Heads -> Heads], NEW base \in Indexes, NEW n \in 0 .. Size - 1,
         NEW h \in Heads
  PROVE  Window([ring EXCEPT ![Slot(Wrap(base + n))] = h], base, n + 1)
           = Append(Window(ring, base, n), h)
<1> DEFINE new == [ring EXCEPT ![Slot(Wrap(base + n))] = h]
           v == Window(new, base, n + 1)
           w == Window(ring, base, n)
<1>1. base \in Int /\ n \in Nat /\ n + 1 \in Nat /\ n < Size /\ base + n \in Int
  BY Constants DEF Indexes
<1>2. Slot(Wrap(base + n)) = Slot(base + n)
  <2>1. Slot(Wrap(base + n) + 0) = Slot((base + n) + 0)
    BY <1>1, WrapSlot
  <2>2. Wrap(base + n) + 0 = Wrap(base + n) /\ (base + n) + 0 = base + n
    BY <1>1, IndexTypes
  <2> QED
    BY <2>1, <2>2
<1>3. Slot(base + n) \in Heads
  BY <1>1, IndexTypes
<1>4. new \in [Heads -> Heads] /\ new[Slot(base + n)] = h
  BY <1>2, <1>3
<1>5. \A s \in Heads : s # Slot(base + n) => new[s] = ring[s]
  BY <1>2
<1> HIDE DEF new
<1>6. /\ v \in Seq(Heads) /\ Len(v) = n + 1
      /\ \A j \in 1 .. n + 1 : v[j] = new[Slot(base + (j - 1))]
  BY <1>1, <1>4, WindowType
<1>7. /\ w \in Seq(Heads) /\ Len(w) = n
      /\ \A j \in 1 .. n : w[j] = ring[Slot(base + (j - 1))]
  BY <1>1, WindowType
<1> HIDE DEF v, w
<1>8. /\ Append(w, h) \in Seq(Heads) /\ Len(Append(w, h)) = n + 1
      /\ \A j \in 1 .. n : Append(w, h)[j] = w[j]
      /\ Append(w, h)[n + 1] = h
  BY <1>7, AppendProperties
<1>9. ASSUME NEW j \in 1 .. n + 1 PROVE v[j] = Append(w, h)[j]
  <2>1. CASE j = n + 1
    <3>1. base + (j - 1) = base + n
      BY <1>1, <2>1
    <3>2. v[j] = new[Slot(base + (j - 1))]
      BY <1>6
    <3> QED
      BY <1>4, <1>8, <2>1, <3>1, <3>2
  <2>2. CASE j \in 1 .. n
    <3>1. base + (j - 1) \in Int /\ n - (j - 1) \in 1 .. Size - 1
          /\ (base + (j - 1)) + (n - (j - 1)) = base + n
      BY <1>1, <2>2, Constants
    <3>2. Slot(base + (j - 1)) # Slot(base + n)
      BY <3>1, SlotsApart
    <3>3. Slot(base + (j - 1)) \in Heads
      BY <3>1, IndexTypes
    <3>4. v[j] = new[Slot(base + (j - 1))]
      BY <1>6
    <3>5. w[j] = ring[Slot(base + (j - 1))] /\ Append(w, h)[j] = w[j]
      BY <1>7, <1>8, <2>2
    <3> QED
      BY <1>5, <3>2, <3>3, <3>4, <3>5
  <2>3. j = n + 1 \/ j \in 1 .. n
    BY ONLY <1>1, j \in 1 .. n + 1
  <2> QED
    BY <2>1, <2>2, <2>3
<1>10. v = Append(w, h)
  BY <1>6, <1>8, <1>9, SeqEqual
<1> QED
  BY <1>10 DEF v, w, new

\* Moving its base on shortens a window.
LEMMA WindowDrop ==
  ASSUME NEW ring \in [Heads -> Heads], NEW base \in Indexes, NEW n \in Nat,
         NEW k \in 0 .. n
  PROVE  Window(ring, Wrap(base + k), n - k) = SubSeq(Window(ring, base, n), k + 1, n)
<1> DEFINE v == Window(ring, Wrap(base + k), n - k)
           w == Window(ring, base, n)
<1>1. base \in Int /\ k \in Nat /\ n - k \in Nat /\ base + k \in Int /\ k <= n
  BY Constants DEF Indexes
<1>2. Wrap(base + k) \in Indexes
  BY <1>1, IndexTypes
<1>3. /\ v \in Seq(Heads) /\ Len(v) = n - k
      /\ \A j \in 1 .. n - k : v[j] = ring[Slot(Wrap(base + k) + (j - 1))]
  BY <1>1, <1>2, WindowType
<1>4. /\ w \in Seq(Heads) /\ Len(w) = n
      /\ \A j \in 1 .. n : w[j] = ring[Slot(base + (j - 1))]
  BY WindowType
<1> HIDE DEF v, w
<1>5. /\ SubSeq(w, k + 1, n) \in Seq(Heads) /\ Len(SubSeq(w, k + 1, n)) = n - k
      /\ \A j \in 1 .. n - k : SubSeq(w, k + 1, n)[j] = w[k + j]
  BY <1>4, Split
<1>6. ASSUME NEW j \in 1 .. n - k PROVE v[j] = SubSeq(w, k + 1, n)[j]
  <2>1. j - 1 \in Int /\ k + j \in 1 .. n /\ (base + k) + (j - 1) = base + ((k + j) - 1)
    BY <1>1
  <2>2. Slot(Wrap(base + k) + (j - 1)) = Slot((base + k) + (j - 1))
    BY <1>1, <2>1, WrapSlot
  <2>3. v[j] = ring[Slot(base + ((k + j) - 1))]
    BY <1>3, <2>1, <2>2
  <2>4. w[k + j] = ring[Slot(base + ((k + j) - 1))]
    BY <1>4, <2>1
  <2> QED
    BY <1>5, <2>3, <2>4
<1>7. v = SubSeq(w, k + 1, n)
  BY <1>3, <1>5, <1>6, SeqEqual
<1> QED
  BY <1>7 DEF v, w

\* complete_chain of m + k chains after the n that the driver has not seen: the
\* last k of them come from the front of the available ring, and nothing that
\* was there before is overwritten while all fit in the ring.
LEMMA PublishedSlots ==
  ASSUME NEW ring \in [Heads -> Heads], avail \in [Heads -> Heads],
         lastUsed \in Indexes, lastAvail \in Indexes,
         NEW n \in Nat, NEW m \in Nat, NEW k \in Nat, n + m + k <= Size,
         usedIdx = Wrap(lastUsed + n)
  PROVE  /\ Published(ring, m, k) \in [Heads -> Heads]
         /\ \A i \in 0 .. n + m - 1 :
              Published(ring, m, k)[Slot(lastUsed + i)] = ring[Slot(lastUsed + i)]
         /\ \A i \in 0 .. k - 1 :
              Published(ring, m, k)[Slot(lastUsed + (n + m + i))] = Available(i)
<1>1. /\ lastUsed \in Int /\ lastAvail \in Int /\ usedIdx \in Int /\ lastUsed + n \in Int
      /\ Size \in Nat \ {0}
  <2>1. lastUsed \in Int /\ lastAvail \in Int /\ lastUsed + n \in Int
    BY Constants DEF Indexes
  <2>2. usedIdx \in Int
    BY <2>1, IndexTypes
  <2> QED
    BY <2>1, <2>2, Constants
<1>2. PICK p \in Int : usedIdx = lastUsed + n + Size * p
  <2>1. PICK c \in Int : Modulus = Size * c
    BY Constants
  <2>2. PICK q \in Int : lastUsed + n = Modulus * q + usedIdx
    BY <1>1, Constants, Remainder DEF Wrap
  <2>3. PICK p \in Int : p = 0 - c * q
    <3>1. 0 - c * q \in Int
      OBVIOUS
    <3> QED
      BY <3>1
  <2>4. Modulus * q = 0 - Size * p /\ Modulus * q \in Int /\ Size * p \in Int
    <3>1. (Size * c) * q = Size * (c * q) /\ Size * (c * q) \in Int
      BY <1>1
    <3>2. Size * p = 0 - Size * (c * q)
      BY <1>1, <2>3
    <3> QED
      BY <2>1, <3>1, <3>2
  <2>5. PICK t \in Int : t = Size * p
    BY <2>4
  <2>6. PICK u \in Int : u = Modulus * q
    BY <2>4
  <2>7. usedIdx = lastUsed + n + t
    <3>1. u = 0 - t /\ lastUsed + n = u + usedIdx
      BY <2>2, <2>4, <2>5, <2>6
    <3> QED
      BY ONLY <1>1, <3>1, n \in Nat, t \in Int, u \in Int
  <2> QED
    BY <2>5, <2>7
<1> DEFINE P(s) == (s - usedIdx - m) % Size
           new == Published(ring, m, k)
<1>3. \A s \in Heads : new[s] = IF P(s) < k THEN Available(P(s)) ELSE ring[s]
  BY DEF Published
<1>4. new \in [Heads -> Heads]
  <2>1. ASSUME NEW s \in Heads, P(s) < k PROVE Available(P(s)) \in Heads
    <3>1. s - usedIdx - m \in Int
      BY <1>1 DEF Heads
    <3>2. P(s) \in Int
      BY <1>1, <3>1, Remainder
    <3>3. lastAvail + P(s) \in Int
      BY <1>1, <3>2
    <3> HIDE DEF P
    <3> QED
      BY <3>3, IndexTypes DEF Available
  <2> HIDE DEF P
  <2> QED
    BY <2>1 DEF Published, P
<1>5. ASSUME NEW x \in Int, NEW q \in Int, NEW r \in 0 .. Size - 1,
             x - (usedIdx + m) = Size * q + r
      PROVE  P(Slot(x)) = r
  <2>1. (Slot(x) - (usedIdx + m)) % Size = r
    BY <1>1, <1>5, SlotDistance
  <2>2. Slot(x) - (usedIdx + m) = Slot(x) - usedIdx - m
    BY <1>1, IndexTypes
  <2> QED
    BY <2>1, <2>2
<1>6. PICK t \in Int : t = Size * p
  BY <1>1
<1> HIDE DEF P, new
<1>7. ASSUME NEW i \in 0 .. n + m - 1
      PROVE  new[Slot(lastUsed + i)] = ring[Slot(lastUsed + i)]
  <2>1. PICK r \in Int : r = Size + i - n - m
    BY <1>1
  <2>2. r \in 0 .. Size - 1 /\ r >= k
    BY ONLY <1>1, <2>1, i \in 0 .. n + m - 1, n + m + k <= Size, n \in Nat, m \in Nat, k \in Nat
  <2>3. PICK q \in Int : q = 0 - p - 1
    OBVIOUS
  <2>4. Size * q = 0 - t - Size
    BY <1>1, <1>6, <2>3
  <2>5. lastUsed + i \in Int
    BY <1>1
  <2>6. (lastUsed + i) - (usedIdx + m) = Size * q + r
    BY <1>1, <1>2, <1>6, <2>1, <2>4
  <2>7. P(Slot(lastUsed + i)) = r
    BY <1>5, <2>2, <2>5, <2>6
  <2>8. Slot(lastUsed + i) \in Heads
    BY <2>5, IndexTypes
  <2>9. ~(r < k)
    BY <2>2
  <2> QED
    BY <1>3, <2>7, <2>8, <2>9
<1>8. ASSUME NEW i \in 0 .. k - 1
      PROVE  new[Slot(lastUsed + (n + m + i))] = Available(i)
  <2>1. i \in 0 .. Size - 1 /\ i < k
    BY ONLY <1>1, i \in 0 .. k - 1, n + m + k <= Size, n \in Nat, m \in Nat, k \in Nat
  <2>2. PICK q \in Int : q = 0 - p
    OBVIOUS
  <2>3. Size * q = 0 - t
    BY <1>1, <1>6, <2>2
  <2>4. lastUsed + (n + m + i) \in Int
    BY <1>1
  <2>5. (lastUsed + (n + m + i)) - (usedIdx + m) = Size * q + i
    <3>1. usedIdx = lastUsed + n + t
      BY <1>2, <1>6
    <3>2. i \in Int
      OBVIOUS
    <3>3. (lastUsed + (n + m + i)) - (usedIdx + m) = (0 - t) + i
      BY ONLY <1>1, <3>1, <3>2, n \in Nat, m \in Nat, t \in Int
    <3> QED
      BY <2>3, <3>3
  <2>6. P(Slot(lastUsed + (n + m + i))) = i
    BY <1>5, <2>1, <2>4, <2>5
  <2>7. Slot(lastUsed + (n + m + i)) \in Heads
    BY <2>4, IndexTypes
  <2> QED
    BY <1>3, <2>1, <2>6, <2>7
<1> QED
  BY <1>4, <1>7, <1>8 DEF new

LEMMA WindowPublish ==
  ASSUME NEW ring \in [Heads -> Heads], avail \in [Heads -> Heads],
         lastUsed \in Indexes, lastAvail \in Indexes,
         NEW n \in Nat, NEW m \in Nat, NEW W \in Nat, NEW k \in 0 .. W, n + m + k <= Size,
         usedIdx = Wrap(lastUsed + n)
  PROVE  Window(Published(ring, m, k), lastUsed, n + m + k)
           = Window(ring, lastUsed, n + m) \o SubSeq(Window(avail, lastAvail, W), 1, k)
<1> DEFINE new == Published(ring, m, k)
           l == n + m
           v == Window(new, lastUsed, l + k)
           a == Window(ring, lastUsed, l)
           w == Window(avail, lastAvail, W)
           b == SubSeq(w, 1, k)
<1>1. l \in Nat /\ k \in Nat /\ l + k \in Nat
  OBVIOUS
<1>2. /\ new \in [Heads -> Heads]
      /\ \A i \in 0 .. l - 1 : new[Slot(lastUsed + i)] = ring[Slot(lastUsed + i)]
      /\ \A i \in 0 .. k - 1 : new[Slot(lastUsed + (l + i))] = Available(i)
  BY <1>1, PublishedSlots
<1> HIDE DEF new, l
<1>3. /\ v \in Seq(Heads) /\ Len(v) = l + k
      /\ \A j \in 1 .. l + k : v[j] = new[Slot(lastUsed + (j - 1))]
  BY <1>1, <1>2, WindowType
<1>4. /\ a \in Seq(Heads) /\ Len(a) = l
      /\ \A j \in 1 .. l : a[j] = ring[Slot(lastUsed + (j - 1))]
  BY <1>1, WindowType
<1>5. /\ w \in Seq(Heads) /\ Len(w) = W
      /\ \A j \in 1 .. W : w[j] = avail[Slot(lastAvail + (j - 1))]
  BY WindowType
<1> HIDE DEF v, a, w
<1>6. b \in Seq(Heads) /\ Len(b) = k /\ \A j \in 1 .. k : b[j] = w[j]
  BY <1>5, Split
<1> HIDE DEF b
<1>7. /\ a \o b \in Seq(Heads) /\ Len(a \o b) = l + k
      /\ \A j \in 1 .. l + k : (a \o b)[j] = IF j <= l THEN a[j] ELSE b[j - l]
  BY <1>4, <1>6, ConcatProperties
<1>8. ASSUME NEW j \in 1 .. l + k PROVE v[j] = (a \o b)[j]
  <2>1. v[j] = new[Slot(lastUsed + (j - 1))]
    BY <1>3
  <2>2. CASE j <= l
    <3>1. j \in 1 .. l /\ j - 1 \in 0 .. l - 1
      BY <1>1, <2>2
    <3>2. a[j] = ring[Slot(lastUsed + (j - 1))]
      BY <1>4, <3>1
    <3>3. new[Slot(lastUsed + (j - 1))] = ring[Slot(lastUsed + (j - 1))]
      BY <1>2, <3>1
    <3> QED
      BY <1>7, <2>1, <2>2, <3>2, <3>3
  <2>3. CASE ~(j <= l)
    <3>1. PICK i \in 0 .. k - 1 : j - 1 = l + i /\ j - l = i + 1
      <4>1. j - l - 1 \in 0 .. k - 1 /\ j - 1 = l + (j - l - 1) /\ j - l = (j - l - 1) + 1
        BY <1>1, <2>3
      <4> QED
        BY <4>1
    <3>2. i + 1 \in 1 .. k /\ i + 1 \in 1 .. W /\ (i + 1) - 1 = i
      BY <1>1
    <3>3. v[j] = Available(i)
      BY <1>2, <2>1, <3>1
    <3>4. b[i + 1] = w[i + 1] /\ w[i + 1] = avail[Slot(lastAvail + ((i + 1) - 1))]
      BY <1>5, <1>6, <3>2
    <3>5. (a \o b)[j] = b[i + 1]
      BY <1>7, <2>3, <3>1
    <3>6. w[i + 1] = Available(i)
      BY <3>2, <3>4 DEF Available
    <3> QED
      BY <3>3, <3>4, <3>5, <3>6
  <2> QED
    BY <2>2, <2>3
<1>9. v = a \o b
  BY <1>3, <1>7, <1>8, SeqEqual
<1> QED
  BY <1>9 DEF v, a, b, w, new, l

-----------------------------------------------------------------------------
(* Every head is in one place.                                             *)

Members(s) == {s[i] : i \in DOMAIN s}
Distinct(s) == \A i, j \in DOMAIN s : i # j => s[i] # s[j]

\* The elements of s at the places i to j.
Part(s, i, j) == {s[l] : l \in i .. j}

LEMMA MembersAppend ==
  ASSUME NEW s \in Seq(Heads), NEW h \in Heads, Distinct(s), h \notin Members(s)
  PROVE  /\ Append(s, h) \in Seq(Heads) /\ Distinct(Append(s, h))
         /\ Members(Append(s, h)) = Members(s) \cup {h}
<1> DEFINE t == Append(s, h)
           m == Len(s) + 1
<1>1. /\ t \in Seq(Heads) /\ m \in DOMAIN t /\ t[m] = h
      /\ \A i \in DOMAIN s : i \in DOMAIN t /\ t[i] = s[i] /\ i < m
      /\ \A i \in DOMAIN t : i = m \/ i \in DOMAIN s
  BY AppendPlaces
<1> HIDE DEF t, m
<1>2. \A i \in DOMAIN s : s[i] # h
  BY DEF Members
<1>3. Distinct(t)
  BY <1>1, <1>2 DEF Distinct
<1>4. Members(t) = Members(s) \cup {h}
  BY <1>1 DEF Members
<1> QED
  BY <1>1, <1>3, <1>4 DEF t

LEMMA MembersConcat ==
  ASSUME NEW s \in Seq(Heads), NEW t \in Seq(Heads), Distinct(s), Distinct(t),
         Members(s) \cap Members(t) = {}
  PROVE  /\ s \o t \in Seq(Heads) /\ Distinct(s \o t)
         /\ Members(s \o t) = Members(s) \cup Members(t)
<1> DEFINE u == s \o t
           m == Len(s)
           n == Len(t)
<1>1. /\ u \in Seq(Heads) /\ Len(u) = m + n
      /\ \A i \in 1 .. m + n : u[i] = IF i <= m THEN s[i] ELSE t[i - m]
  BY ConcatProperties
<1>2. DOMAIN u = 1 .. m + n /\ DOMAIN s = 1 .. m /\ DOMAIN t = 1 .. n
  BY <1>1, LenProperties
<1>3. m \in Nat /\ n \in Nat
  BY LenProperties
<1> HIDE DEF u, m, n
<1>4. ASSUME NEW i \in DOMAIN u
      PROVE  \/ i \in DOMAIN s /\ u[i] = s[i]
             \/ i - m \in DOMAIN t /\ u[i] = t[i - m] /\ i = (i - m) + m
  <2>1. i \in 1 .. m + n
    BY <1>2
  <2>2. CASE i <= m
    <3>1. i \in 1 .. m
      BY <1>3, <2>1, <2>2
    <3> QED
      BY <1>1, <1>2, <2>1, <2>2, <3>1
  <2>3. CASE ~(i <= m)
    <3>1. i - m \in 1 .. n /\ i = (i - m) + m
      BY <1>3, <2>1, <2>3
    <3> QED
      BY <1>1, <1>2, <2>1, <2>3, <3>1
  <2> QED
    BY <2>2, <2>3
<1>5. ASSUME NEW i \in DOMAIN s PROVE i \in DOMAIN u /\ u[i] = s[i]
  <2>1. i \in 1 .. m + n /\ i <= m
    BY <1>2, <1>3
  <2> QED
    BY <1>1, <1>2, <2>1
<1>6. ASSUME NEW i \in DOMAIN t PROVE i + m \in DOMAIN u /\ u[i + m] = t[i]
  <2>1. i + m \in 1 .. m + n /\ ~(i + m <= m) /\ (i + m) - m = i
    BY <1>2, <1>3
  <2> QED
    BY <1>1, <1>2, <2>1
<1>7. \A i \in DOMAIN s, j \in DOMAIN t : s[i] # t[j]
  BY DEF Members
<1>8. Distinct(u)
  <2> SUFFICES ASSUME NEW i \in DOMAIN u, NEW j \in DOMAIN u, i # j PROVE u[i] # u[j]
    BY DEF Distinct
  <2>1. CASE i \in DOMAIN s /\ u[i] = s[i] /\ j \in DOMAIN s /\ u[j] = s[j]
    BY <2>1 DEF Distinct
  <2>2. CASE i \in DOMAIN s /\ u[i] = s[i] /\ j - m \in DOMAIN t /\ u[j] = t[j - m]
    BY <1>7, <2>2
  <2>3. CASE j \in DOMAIN s /\ u[j] = s[j] /\ i - m \in DOMAIN t /\ u[i] = t[i - m]
    BY <1>7, <2>3
  <2>4. CASE /\ i - m \in DOMAIN t /\ u[i] = t[i - m] /\ i = (i - m) + m
             /\ j - m \in DOMAIN t /\ u[j] = t[j - m] /\ j = (j - m) + m
    <3>1. i - m # j - m
      BY <2>4
    <3> QED
      BY <2>4, <3>1 DEF Distinct
  <2> QED
    BY <1>4, <2>1, <2>2, <2>3, <2>4
<1>9. Members(u) = Members(s) \cup Members(t)
  <2>1. \A x \in Members(u) : x \in Members(s) \cup Members(t)
    BY <1>4 DEF Members
  <2>2. \A x \in Members(s) \cup Members(t) : x \in Members(u)
    BY <1>5, <1>6 DEF Members
  <2> QED
    BY <2>1, <2>2
<1> QED
  BY <1>1, <1>8, <1>9 DEF u

LEMMA MembersSplit ==
  ASSUME NEW s \in Seq(Heads), Distinct(s), NEW k \in 0 .. Len(s)
  PROVE  /\ Distinct(SubSeq(s, 1, k)) /\ Members(SubSeq(s, 1, k)) = Part(s, 1, k)
         /\ Distinct(SubSeq(s, k + 1, Len(s)))
         /\ Members(SubSeq(s, k + 1, Len(s))) = Part(s, k + 1, Len(s))
<1> DEFINE a == SubSeq(s, 1, k)
           b == SubSeq(s, k + 1, Len(s))
           n == Len(s)
<1>1. /\ a \in Seq(Heads) /\ Len(a) = k /\ \A i \in 1 .. k : a[i] = s[i]
      /\ b \in Seq(Heads) /\ Len(b) = n - k /\ \A i \in 1 .. n - k : b[i] = s[k + i]
  BY Split
<1>2. n \in Nat /\ k \in Nat /\ k <= n /\ DOMAIN s = 1 .. n
  BY LenProperties
<1>3. DOMAIN a = 1 .. k /\ DOMAIN b = 1 .. n - k
  BY <1>1, LenProperties
<1> HIDE DEF a, b, n
<1>4. \A i \in 1 .. k : i \in 1 .. n
  BY <1>2
<1>5. \A i \in 1 .. n - k : k + i \in 1 .. n /\ k + i \in k + 1 .. n
  BY <1>2
<1>6. \A i \in k + 1 .. n : i - k \in 1 .. n - k /\ i = k + (i - k)
  BY <1>2
<1>7. Distinct(a)
  BY <1>1, <1>2, <1>3, <1>4 DEF Distinct
<1>8. Distinct(b)
  <2> SUFFICES ASSUME NEW i \in 1 .. n - k, NEW j \in 1 .. n - k, i # j PROVE b[i] # b[j]
    BY <1>3 DEF Distinct
  <2>1. k + i # k + j
    BY <1>2
  <2>2. s[k + i] # s[k + j]
    BY <1>2, <1>5, <2>1 DEF Distinct
  <2> QED
    BY <1>1, <2>2
<1>9. Members(a) = Part(s, 1, k)
  <2>1. \A i \in DOMAIN a : a[i] \in Part(s, 1, k)
    BY <1>1, <1>3 DEF Part
  <2>2. \A i \in 1 .. k : s[i] \in Members(a)
    BY <1>1, <1>3 DEF Members
  <2> QED
    BY <2>1, <2>2 DEF Members, Part
<1>10. Members(b) = Part(s, k + 1, n)
  <2>1. \A x \in Members(b) : x \in Part(s, k + 1, n)
    BY <1>1, <1>3, <1>5 DEF Members, Part
  <2>2. ASSUME NEW i \in k + 1 .. n PROVE s[i] \in Members(b)
    <3>1. PICK j \in 1 .. n - k : i = k + j
      BY <1>6
    <3>2. b[j] = s[i] /\ j \in DOMAIN b
      BY <1>1, <1>3, <3>1
    <3> QED
      BY <3>2 DEF Members
  <2> QED
    BY <2>1, <2>2 DEF Part
<1> QED
  BY <1>7, <1>8, <1>9, <1>10 DEF a, b, n

LEMMA MembersCount ==
  ASSUME NEW s \in Seq(Heads), Distinct(s)
  PROVE  IsFiniteSet(Members(s)) /\ Cardinality(Members(s)) = Len(s)
<1>1. Len(s) \in Nat /\ DOMAIN s = 1 .. Len(s)
  BY LenProperties
<1>2. s \in Bijection(1 .. Len(s), Members(s))
  <2>1. s \in [1 .. Len(s) -> Members(s)]
    <3>1. s \in [1 .. Len(s) -> Heads]
      OBVIOUS
    <3> QED
      BY <1>1, <3>1 DEF Members
  <2>2. \A x, y \in 1 .. Len(s) : s[x] = s[y] => x = y
    BY <1>1 DEF Distinct
  <2>3. \A t \in Members(s) : \E x \in 1 .. Len(s) : s[x] = t
    BY <1>1 DEF Members
  <2> QED
    BY <2>1, <2>2, <2>3 DEF Bijection, Injection, Surjection, IsInjective
<1>3. ExistsBijection(1 .. Len(s), Members(s))
  BY <1>2 DEF ExistsBijection
<1> QED
  BY <1>1, <1>3, FS_CountingElements, FS_NatBijection

\* The heads are free (f), waiting (w), parked (p), answered (a) or dropped (d).
Owned(f, w, p, a, d) ==
  /\ w \in Seq(Heads) /\ a \in Seq(Heads) /\ Distinct(w) /\ Distinct(a)
  /\ f \cap Members(w) = {} /\ f \cap p = {} /\ f \cap Members(a) = {} /\ f \cap d = {}
  /\ Members(w) \cap p = {} /\ Members(w) \cap Members(a) = {} /\ Members(w) \cap d = {}
  /\ p \cap Members(a) = {} /\ p \cap d = {} /\ Members(a) \cap d = {}
  /\ f \cup Members(w) \cup p \cup Members(a) \cup d = Heads

LEMMA OwnedCount ==
  ASSUME NEW f, NEW w, NEW p, NEW a, NEW d, Owned(f, w, p, a, d)
  PROVE  /\ Cardinality(f) + Len(w) + Cardinality(p) + Len(a) + Cardinality(d) = Size
         /\ Cardinality(f) \in Nat /\ Cardinality(p) \in Nat /\ Cardinality(d) \in Nat
         /\ Len(w) \in Nat /\ Len(a) \in Nat
         /\ f # {} => Cardinality(f) > 0
<1>1. IsFiniteSet(Heads) /\ Cardinality(Heads) = Size
  <2>1. 0 \in Int /\ Size - 1 \in Int /\ ~(0 > Size - 1) /\ (Size - 1) - 0 + 1 = Size
    BY Constants
  <2> QED
    BY <2>1, FS_Interval DEF Heads
<1>2. /\ IsFiniteSet(Members(w)) /\ Cardinality(Members(w)) = Len(w)
      /\ IsFiniteSet(Members(a)) /\ Cardinality(Members(a)) = Len(a)
  BY MembersCount DEF Owned
<1>3. IsFiniteSet(f) /\ IsFiniteSet(p) /\ IsFiniteSet(d)
  <2>1. f \in SUBSET Heads /\ p \in SUBSET Heads /\ d \in SUBSET Heads
    BY DEF Owned
  <2> QED
    BY <1>1, <2>1, FS_Subset
<1>4. /\ Cardinality(f) \in Nat /\ Cardinality(p) \in Nat /\ Cardinality(d) \in Nat
      /\ Len(w) \in Nat /\ Len(a) \in Nat
  BY <1>2, <1>3, FS_CardinalityType
<1>5. ASSUME NEW S, NEW T, IsFiniteSet(S), IsFiniteSet(T), S \cap T = {}
      PROVE  IsFiniteSet(S \cup T) /\ Cardinality(S \cup T) = Cardinality(S) + Cardinality(T)
  <2>1. /\ IsFiniteSet(S \cup T)
        /\ Cardinality(S \cup T) = Cardinality(S) + Cardinality(T) - Cardinality(S \cap T)
    BY <1>5, FS_Union
  <2>2. Cardinality(S \cap T) = 0
    BY <1>5, FS_EmptySet
  <2>3. Cardinality(S) \in Nat /\ Cardinality(T) \in Nat
    BY <1>5, FS_CardinalityType
  <2> QED
    BY <2>1, <2>2, <2>3
<1> DEFINE A == f \cup Members(w)
           B == A \cup p
           C == B \cup Members(a)
           D == C \cup d
<1>6. IsFiniteSet(A) /\ Cardinality(A) = Cardinality(f) + Len(w)
  BY <1>2, <1>3, <1>5 DEF Owned
<1>7. IsFiniteSet(B) /\ Cardinality(B) = Cardinality(A) + Cardinality(p)
  <2>1. A \cap p = {}
    BY DEF Owned
  <2> HIDE DEF A
  <2> QED
    BY <1>3, <1>5, <1>6, <2>1
<1>8. IsFiniteSet(C) /\ Cardinality(C) = Cardinality(B) + Len(a)
  <2>1. B \cap Members(a) = {}
    BY DEF Owned
  <2> HIDE DEF B
  <2>2. IsFiniteSet(C) /\ Cardinality(C) = Cardinality(B) + Cardinality(Members(a))
    <3>1. IsFiniteSet(Members(a))
      BY <1>2
    <3> QED
      BY <1>5, <1>7, <2>1, <3>1
  <2> QED
    BY <1>2, <2>2
<1>9. Cardinality(D) = Cardinality(C) + Cardinality(d)
  <2>1. C \cap d = {}
    BY DEF Owned
  <2> HIDE DEF C
  <2> QED
    BY <1>3, <1>5, <1>8, <2>1
<1>10. D = Heads
  BY DEF Owned
<1> HIDE DEF A, B, C, D
<1>11. Cardinality(f) + Len(w) + Cardinality(p) + Len(a) + Cardinality(d) = Size
  BY <1>1, <1>4, <1>6, <1>7, <1>8, <1>9, <1>10
<1>12. f # {} => Cardinality(f) > 0
  <2>1. Cardinality(f) = 0 <=> f = {}
    BY <1>3, FS_EmptySet
  <2> QED
    BY <1>4, <2>1
<1> QED
  BY <1>4, <1>11, <1>12

\* The moves: a submission, the answer to the parked chain, the answers to the
\* first k chains, the next chain parked or dropped, the oldest answer seen.
LEMMA OwnedSubmit ==
  ASSUME NEW f, NEW w, NEW p, NEW a, NEW d, Owned(f, w, p, a, d), NEW h \in f
  PROVE  Owned(f \ {h}, Append(w, h), p, a, d)
<1>1. h \in Heads /\ h \notin Members(w) /\ h \notin Members(a) /\ h \notin p /\ h \notin d
  BY DEF Owned
<1>2. /\ Append(w, h) \in Seq(Heads) /\ Distinct(Append(w, h))
      /\ Members(Append(w, h)) = Members(w) \cup {h}
  BY <1>1, MembersAppend DEF Owned
<1> QED
  BY <1>1, <1>2 DEF Owned

LEMMA OwnedAnswerParked ==
  ASSUME NEW f, NEW w, NEW h, NEW a, NEW d, Owned(f, w, {h}, a, d)
  PROVE  Owned(f, w, {}, Append(a, h), d)
<1>1. h \in Heads /\ h \notin Members(w) /\ h \notin Members(a) /\ h \notin f /\ h \notin d
  BY DEF Owned
<1>2. /\ Append(a, h) \in Seq(Heads) /\ Distinct(Append(a, h))
      /\ Members(Append(a, h)) = Members(a) \cup {h}
  BY <1>1, MembersAppend DEF Owned
<1> QED
  BY <1>1, <1>2 DEF Owned

LEMMA OwnedAnswer ==
  ASSUME NEW f, NEW w, NEW a, NEW d, Owned(f, w, {}, a, d), NEW k \in 0 .. Len(w)
  PROVE  Owned(f, SubSeq(w, k + 1, Len(w)), {}, a \o SubSeq(w, 1, k), d)
<1> DEFINE u == SubSeq(w, 1, k)
           v == SubSeq(w, k + 1, Len(w))
<1>1. w \in Seq(Heads) /\ Distinct(w) /\ a \in Seq(Heads) /\ Distinct(a)
  BY DEF Owned
<1>2. u \in Seq(Heads) /\ v \in Seq(Heads)
  BY <1>1, Split
<1>3. /\ Distinct(u) /\ Members(u) = Part(w, 1, k)
      /\ Distinct(v) /\ Members(v) = Part(w, k + 1, Len(w))
  BY <1>1, MembersSplit
<1> HIDE DEF u, v
<1>4. DOMAIN w = 1 .. Len(w) /\ Len(w) \in Nat
  BY <1>1, LenProperties
<1>5. Members(u) \cap Members(v) = {} /\ Members(u) \cup Members(v) = Members(w)
  <2>1. \A i \in 1 .. Len(w) : i \in 1 .. k \/ i \in k + 1 .. Len(w)
    BY <1>4
  <2>2. \A i \in 1 .. k, j \in k + 1 .. Len(w) :
           i \in 1 .. Len(w) /\ j \in 1 .. Len(w) /\ i # j
    BY <1>4
  <2>3. Members(u) \cap Members(v) = {}
    BY <1>1, <1>3, <1>4, <2>2 DEF Part, Distinct
  <2>4. \A i \in 1 .. k : i \in 1 .. Len(w)
    BY <1>4
  <2>5. \A j \in k + 1 .. Len(w) : j \in 1 .. Len(w)
    BY <1>4
  <2>6. Members(u) \cup Members(v) = Members(w)
    BY <1>3, <1>4, <2>1, <2>4, <2>5 DEF Part, Members
  <2> QED
    BY <2>3, <2>6
<1>6. Members(a) \cap Members(u) = {}
  BY <1>5 DEF Owned
<1>7. /\ a \o u \in Seq(Heads) /\ Distinct(a \o u)
      /\ Members(a \o u) = Members(a) \cup Members(u)
  BY <1>1, <1>2, <1>3, <1>6, MembersConcat
<1>8. Owned(f, v, {}, a \o u, d)
  BY <1>2, <1>3, <1>5, <1>7 DEF Owned
<1> QED
  BY <1>8 DEF u, v

LEMMA OwnedTake ==
  ASSUME NEW f, NEW w, NEW a, NEW d, Owned(f, w, {}, a, d), w # <<>>
  PROVE  /\ Owned(f, Tail(w), {Head(w)}, a, d)
         /\ Owned(f, Tail(w), {}, a, d \cup {Head(w)})
         /\ Head(w) \in Heads
<1>1. w \in Seq(Heads) /\ Distinct(w)
  BY DEF Owned
<1>2. /\ Tail(w) \in Seq(Heads) /\ Head(w) \in Heads /\ Head(w) = w[1] /\ 1 \in DOMAIN w
      /\ \A i \in DOMAIN Tail(w) : i + 1 \in DOMAIN w /\ Tail(w)[i] = w[i + 1]
                                   /\ i \in Nat /\ 1 < i + 1
      /\ \A i \in DOMAIN w : i = 1 \/ (i - 1 \in DOMAIN Tail(w) /\ (i - 1) + 1 = i)
  BY <1>1, TailPlaces
<1>3. Distinct(Tail(w))
  <2> SUFFICES ASSUME NEW i \in DOMAIN Tail(w), NEW j \in DOMAIN Tail(w), i # j
               PROVE  Tail(w)[i] # Tail(w)[j]
    BY DEF Distinct
  <2>1. i + 1 # j + 1
    BY <1>2
  <2> QED
    BY <1>1, <1>2, <2>1 DEF Distinct
<1>4. Members(Tail(w)) = Members(w) \ {Head(w)} /\ Head(w) \in Members(w)
  <2>1. ASSUME NEW i \in DOMAIN Tail(w)
        PROVE  Tail(w)[i] \in Members(w) /\ Tail(w)[i] # Head(w)
    <3>1. i + 1 \in DOMAIN w /\ Tail(w)[i] = w[i + 1] /\ i + 1 # 1
      BY <1>2
    <3> QED
      BY <1>1, <1>2, <3>1 DEF Distinct, Members
  <2>2. ASSUME NEW i \in DOMAIN w, w[i] # Head(w) PROVE w[i] \in Members(Tail(w))
    BY <1>2, <2>2 DEF Members
  <2>3. Head(w) \in Members(w)
    BY <1>2 DEF Members
  <2>4. \A x \in Members(Tail(w)) : x \in Members(w) \ {Head(w)}
    BY <2>1 DEF Members
  <2>5. \A x \in Members(w) \ {Head(w)} : x \in Members(Tail(w))
    BY <2>2 DEF Members
  <2> QED
    BY <2>3, <2>4, <2>5
<1> QED
  BY <1>2, <1>3, <1>4 DEF Owned

LEMMA OwnedCollect ==
  ASSUME NEW f, NEW w, NEW p, NEW a, NEW d, Owned(f, w, p, a, d), a # <<>>
  PROVE  Owned(f \cup {Head(a)}, w, p, Tail(a), d)
<1>1. Owned({}, a, {}, <<>>, Heads \ Members(a))
  <2>1. <<>> \in Seq(Heads) /\ Distinct(<<>>) /\ Members(<<>>) = {}
    BY DEF Distinct, Members
  <2>2. Members(a) \subseteq Heads
    BY DEF Owned
  <2> QED
    BY <2>1, <2>2 DEF Owned
<1>2. Owned({}, Tail(a), {Head(a)}, <<>>, Heads \ Members(a)) /\ Head(a) \in Heads
  BY <1>1, OwnedTake
<1>3. Members(<<>>) = {}
  BY DEF Members
<1>4. /\ Tail(a) \in Seq(Heads) /\ Distinct(Tail(a)) /\ Head(a) \notin Members(Tail(a))
      /\ Members(Tail(a)) \cap (Heads \ Members(a)) = {} /\ Members(Tail(a)) \subseteq Heads
      /\ Head(a) \notin Heads \ Members(a)
      /\ Members(Tail(a)) \cup {Head(a)} \cup (Heads \ Members(a)) = Heads
  BY <1>2, <1>3 DEF Owned
<1>5. Members(a) = Members(Tail(a)) \cup {Head(a)}
  <2>1. Members(a) \subseteq Heads
    BY DEF Owned
  <2> QED
    BY <1>2, <1>4, <2>1
<1> QED
  BY <1>2, <1>4, <1>5 DEF Owned

-----------------------------------------------------------------------------
(* The two queues of the virtqueue, and the moves of their indexes.        *)

WaitingSeq == Window(avail, lastAvail, Waiting)
AnswerSeq == Window(used, lastUsed, Unseen)

LEMMA BaseMoved ==
  ASSUME NEW base \in Indexes, NEW end \in Indexes, NEW k \in 0 .. Distance(base, end)
  PROVE  /\ Wrap(base + k) \in Indexes
         /\ Distance(Wrap(base + k), end) = Distance(base, end) - k
<1> DEFINE n == Distance(base, end)
<1>1. n \in 0 .. Modulus - 1 /\ end = Wrap(base + n)
  BY DistanceBack
<1>2. base \in Int
  BY Constants DEF Indexes
<1> HIDE DEF n
<1>3. k \in 0 .. n
  BY DEF n
<1>4. k \in Int /\ n \in Int /\ n - k \in 0 .. Modulus - 1 /\ base + k \in Int
  BY <1>1, <1>2, <1>3, Constants
<1>5. Distance(Wrap(base + k), Wrap(base + n)) = n - k
  BY <1>2, <1>4, DistanceOf
<1>6. Wrap(base + k) \in Indexes
  BY <1>4, IndexTypes
<1> QED
  BY <1>1, <1>5, <1>6 DEF n

LEMMA EndMoved ==
  ASSUME NEW base \in Indexes, NEW end \in Indexes, NEW k \in Nat,
         Distance(base, end) + k < Modulus
  PROVE  /\ Wrap(end + k) \in Indexes
         /\ Distance(base, Wrap(end + k)) = Distance(base, end) + k
<1> DEFINE n == Distance(base, end)
<1>1. n \in 0 .. Modulus - 1 /\ end = Wrap(base + n)
  BY DistanceBack
<1>2. base \in Int /\ end \in Int
  BY Constants DEF Indexes
<1>3. n + k < Modulus
  OBVIOUS
<1> HIDE DEF n
<1>4. /\ n \in Int /\ n + k \in Int /\ (n + k) - 0 \in 0 .. Modulus - 1 /\ (n + k) - 0 = n + k
      /\ base + n \in Int /\ end + k \in Int /\ base + 0 = base
  BY <1>1, <1>2, <1>3, Constants
<1>5. Wrap(end + k) = Wrap((base + n) + k)
  BY <1>1, <1>4, WrapSlot
<1>6. (base + n) + k = base + (n + k)
  BY <1>2, <1>4
<1>7. Distance(Wrap(base + 0), Wrap(base + (n + k))) = (n + k) - 0
  BY <1>2, <1>4, DistanceOf
<1>8. Wrap(base + 0) = base
  BY <1>4, WrapSmall
<1>9. Wrap(end + k) \in Indexes
  BY <1>4, IndexTypes
<1> QED
  BY <1>4, <1>5, <1>6, <1>7, <1>8, <1>9 DEF n

\* Positions of the two windows.
LEMMA Windows ==
  ASSUME avail \in [Heads -> Heads], used \in [Heads -> Heads],
         availIdx \in Indexes, usedIdx \in Indexes,
         lastUsed \in Indexes, lastAvail \in Indexes
  PROVE  /\ Waiting \in Nat /\ WaitingSeq \in Seq(Heads) /\ Len(WaitingSeq) = Waiting
         /\ \A j \in 0 .. Waiting - 1 : Available(j) = WaitingSeq[j + 1]
         /\ Unseen \in Nat /\ AnswerSeq \in Seq(Heads) /\ Len(AnswerSeq) = Unseen
         /\ \A j \in 0 .. Unseen - 1 : Answer(j) = AnswerSeq[j + 1]
         /\ usedIdx = Wrap(lastUsed + Unseen)
<1>1. Waiting \in Nat /\ Unseen \in Nat /\ usedIdx = Wrap(lastUsed + Unseen)
  BY DistanceBack, Constants DEF Waiting, Unseen
<1>2. /\ WaitingSeq \in Seq(Heads) /\ Len(WaitingSeq) = Waiting
      /\ \A j \in 1 .. Waiting : WaitingSeq[j] = avail[Slot(lastAvail + (j - 1))]
  BY <1>1, WindowType DEF WaitingSeq
<1>3. /\ AnswerSeq \in Seq(Heads) /\ Len(AnswerSeq) = Unseen
      /\ \A j \in 1 .. Unseen : AnswerSeq[j] = used[Slot(lastUsed + (j - 1))]
  BY <1>1, WindowType DEF AnswerSeq
<1>4. ASSUME NEW j \in 0 .. Waiting - 1 PROVE Available(j) = WaitingSeq[j + 1]
  <2>1. j + 1 \in 1 .. Waiting /\ (j + 1) - 1 = j
    BY <1>1
  <2> QED
    BY <1>2, <2>1 DEF Available
<1>5. ASSUME NEW j \in 0 .. Unseen - 1 PROVE Answer(j) = AnswerSeq[j + 1]
  <2>1. j + 1 \in 1 .. Unseen /\ (j + 1) - 1 = j
    BY <1>1
  <2> QED
    BY <1>3, <2>1 DEF Answer
<1> QED
  BY <1>1, <1>2, <1>3, <1>4, <1>5

\* What is left of a sequence after k elements, and after k + 1.
LEMMA RestOf ==
  ASSUME NEW w \in Seq(Heads), NEW k \in 0 .. Len(w) - 1
  PROVE  LET v == SubSeq(w, k + 1, Len(w))
         IN  v # <<>> /\ Head(v) = w[k + 1] /\ Tail(v) = SubSeq(w, (k + 1) + 1, Len(w))
<1> DEFINE v == SubSeq(w, k + 1, Len(w))
           u == SubSeq(w, (k + 1) + 1, Len(w))
           n == Len(w)
<1>1. n \in Nat /\ k \in 0 .. n /\ k + 1 \in 0 .. n /\ n - k > 0 /\ 1 \in 1 .. n - k
      /\ n - (k + 1) = (n - k) - 1
  BY LenProperties
<1>2. /\ v \in Seq(Heads) /\ Len(v) = n - k /\ \A i \in 1 .. n - k : v[i] = w[k + i]
  BY <1>1, Split
<1>3. /\ u \in Seq(Heads) /\ Len(u) = n - (k + 1)
      /\ \A i \in 1 .. n - (k + 1) : u[i] = w[(k + 1) + i]
  <2>1. PICK m : m = k + 1
    OBVIOUS
  <2>2. m \in 0 .. Len(w)
    BY <1>1, <2>1
  <2>3. /\ SubSeq(w, m + 1, Len(w)) \in Seq(Heads)
        /\ Len(SubSeq(w, m + 1, Len(w))) = Len(w) - m
        /\ \A i \in 1 .. Len(w) - m : SubSeq(w, m + 1, Len(w))[i] = w[m + i]
    BY ONLY w \in Seq(Heads), <2>2, Split
  <2> QED
    BY <2>1, <2>3
<1> HIDE DEF v, u, n
<1>4. v # <<>> /\ v[1] = w[k + 1]
  BY <1>1, <1>2, EmptySeq
<1>5. /\ Head(v) = v[1] /\ Tail(v) \in Seq(Heads) /\ Len(Tail(v)) = (n - k) - 1
      /\ \A i \in 1 .. (n - k) - 1 : Tail(v)[i] = v[i + 1]
  BY <1>2, <1>4, HeadTailProperties
<1>6. ASSUME NEW i \in 1 .. n - (k + 1) PROVE Tail(v)[i] = u[i]
  <2>1. i \in 1 .. (n - k) - 1 /\ i + 1 \in 1 .. n - k /\ k + (i + 1) = (k + 1) + i
    BY <1>1
  <2>2. Tail(v)[i] = w[k + (i + 1)]
    BY <1>2, <1>5, <2>1
  <2> QED
    BY <1>3, <2>1, <2>2
<1>7. Tail(v) = u
  BY <1>1, <1>3, <1>5, <1>6, SeqEqual
<1>8. Head(v) = w[k + 1]
  BY <1>4, <1>5
<1> QED
  BY <1>4, <1>7, <1>8 DEF v, u, n

RingInv ==
  /\ avail \in [Heads -> Heads] /\ used \in [Heads -> Heads] /\ kind \in [Heads -> Kinds]
  /\ availIdx \in Indexes /\ usedIdx \in Indexes
  /\ lastUsed \in Indexes /\ lastAvail \in Indexes

\* What the loop of notify leaves when the sequence of waiting chains was w and
\* the answers, with n completed before the loop, were b: k of w are answered,
\* and the next one is perhaps parked, refused or left.
Outcome(w, b, n, k) ==
  /\ used' \in [Heads -> Heads] /\ usedIdx' \in Indexes /\ lastAvail' \in Indexes
  /\ AnswerSeq' = b \o SubSeq(w, 1, k) /\ Unseen' = Unseen + n + k
  /\ isr' = (isr \/ n + k > 0)
  /\ \/ /\ k = Len(w) /\ Waiting' = 0 /\ WaitingSeq' = SubSeq(w, k + 1, Len(w))
        /\ parked' = {} /\ faulted' = FALSE /\ dropped' = dropped
     \/ /\ k < Len(w) /\ WaitingSeq' = SubSeq(w, (k + 1) + 1, Len(w))
        /\ parked' = {w[k + 1]} /\ faulted' = FALSE /\ dropped' = dropped
     \/ /\ k < Len(w) /\ WaitingSeq' = SubSeq(w, (k + 1) + 1, Len(w))
        /\ parked' = {} /\ faulted' = TRUE /\ dropped' = dropped \cup {w[k + 1]}
     \/ /\ k < Len(w) /\ WaitingSeq' = SubSeq(w, k + 1, Len(w))
        /\ parked' = {} /\ faulted' = TRUE /\ dropped' = dropped

LEMMA ServiceOutcome ==
  ASSUME RingInv, NEW ring \in [Heads -> Heads], NEW n \in Nat, Service(ring, n),
         Unseen + n + Waiting <= Size, UNCHANGED <<avail, availIdx, lastUsed>>
  PROVE  \E k \in 0 .. Len(WaitingSeq) :
           Outcome(WaitingSeq, Window(ring, lastUsed, Unseen + n), n, k)
<1> DEFINE w == WaitingSeq
           b == Window(ring, lastUsed, Unseen + n)
           W == Waiting
           U == Unseen
<1>1. /\ avail \in [Heads -> Heads] /\ used \in [Heads -> Heads] /\ availIdx \in Indexes
      /\ usedIdx \in Indexes /\ lastUsed \in Indexes /\ lastAvail \in Indexes
  BY DEF RingInv
<1>2. /\ W \in Nat /\ w \in Seq(Heads) /\ Len(w) = W
      /\ \A j \in 0 .. W - 1 : Available(j) = w[j + 1]
      /\ U \in Nat /\ usedIdx = Wrap(lastUsed + U)
  BY <1>1, Windows
<1>3. PICK k \in 0 .. W :
        /\ used' = Published(ring, n, k)
        /\ usedIdx' = Wrap(usedIdx + n + k)
        /\ isr' = (isr \/ n + k > 0)
        /\ \/ /\ k = W
              /\ lastAvail' = availIdx
              /\ parked' = {} /\ faulted' = FALSE /\ dropped' = dropped
           \/ /\ k < W
              /\ lastAvail' = Wrap(lastAvail + k + 1)
              /\ parked' = {Available(k)} /\ faulted' = FALSE /\ dropped' = dropped
           \/ /\ k < W
              /\ lastAvail' = Wrap(lastAvail + k + 1)
              /\ parked' = {} /\ faulted' = TRUE /\ dropped' = dropped \cup {Available(k)}
           \/ /\ k < W
              /\ lastAvail' = Wrap(lastAvail + k)
              /\ parked' = {} /\ faulted' = TRUE /\ dropped' = dropped
  BY DEF Service
<1>4. k \in Nat /\ U + n + W <= Size /\ Size < Modulus /\ U + n + k <= Size
      /\ U + (n + k) < Modulus /\ Size \in Nat /\ Modulus \in Nat
  <2>1. U + n + W <= Size /\ k <= W /\ k \in Nat
    BY <1>2
  <2> HIDE DEF U, W
  <2> QED
    BY <1>2, <2>1, Constants
<1>5. used' \in [Heads -> Heads]
  BY <1>1, <1>2, <1>3, <1>4, PublishedSlots
<1>6. usedIdx' \in Indexes /\ Unseen' = U + n + k
  <2>1. Distance(lastUsed, usedIdx) + (n + k) < Modulus
    BY <1>4 DEF Unseen
  <2>2. usedIdx + n + k = usedIdx + (n + k) /\ n + k \in Nat
    BY <1>1, <1>4, Constants DEF Indexes
  <2>3. /\ Wrap(usedIdx + (n + k)) \in Indexes
        /\ Distance(lastUsed, Wrap(usedIdx + (n + k))) = Distance(lastUsed, usedIdx) + (n + k)
    BY <1>1, <2>1, <2>2, EndMoved
  <2>4. Unseen' = Distance(lastUsed, usedIdx')
    BY DEF Unseen, Distance
  <2>5. Unseen' = U + (n + k)
    BY <1>3, <2>2, <2>3, <2>4 DEF Unseen
  <2>6. U + (n + k) = U + n + k
    BY <1>2, <1>4
  <2> QED
    BY <1>3, <2>2, <2>3, <2>5, <2>6
<1>7. AnswerSeq' = b \o SubSeq(w, 1, k)
  <2>1. AnswerSeq' = Window(used', lastUsed, U + n + k)
    BY <1>6 DEF AnswerSeq, Window
  <2>2. Window(Published(ring, n, k), lastUsed, U + n + k)
          = Window(ring, lastUsed, U + n) \o SubSeq(Window(avail, lastAvail, W), 1, k)
    <3>1. U \in Nat /\ W \in Nat /\ k \in 0 .. W /\ U + n + k <= Size
          /\ usedIdx = Wrap(lastUsed + U)
      BY <1>2, <1>4
    <3>2. ring \in [Heads -> Heads] /\ avail \in [Heads -> Heads]
          /\ lastUsed \in Indexes /\ lastAvail \in Indexes /\ n \in Nat
      BY <1>1
    <3> HIDE DEF U, W
    <3> QED
      BY ONLY <3>1, <3>2, k \in 0 .. W, WindowPublish, Zenon
  <2> QED
    BY <1>3, <2>1, <2>2 DEF WaitingSeq
<1>8. ASSUME NEW m \in 0 .. W, lastAvail' = Wrap(lastAvail + m)
      PROVE  /\ lastAvail' \in Indexes /\ Waiting' = W - m
             /\ WaitingSeq' = SubSeq(w, m + 1, Len(w))
  <2>1. lastAvail' \in Indexes /\ Distance(lastAvail', availIdx) = W - m
    BY <1>1, <1>8, BaseMoved DEF Waiting
  <2>2. Waiting' = W - m
    BY <2>1 DEF Waiting, Distance
  <2>3. WaitingSeq' = Window(avail, lastAvail', W - m)
    BY <2>2 DEF WaitingSeq, Window
  <2>4. Window(avail, Wrap(lastAvail + m), W - m) = SubSeq(Window(avail, lastAvail, W), m + 1, W)
    BY <1>1, <1>2, WindowDrop
  <2> QED
    BY <1>2, <1>8, <2>1, <2>2, <2>3, <2>4 DEF WaitingSeq
<1>9. availIdx = Wrap(lastAvail + W) /\ W \in 0 .. W /\ W - W = 0
  <2>1. availIdx = Wrap(lastAvail + W)
    BY <1>1, DistanceBack DEF Waiting
  <2>2. W \in 0 .. W /\ W - W = 0
    <3> HIDE DEF W
    <3> QED
      BY <1>2
  <2> QED
    BY <2>1, <2>2
<1>10. ASSUME k < W
       PROVE  /\ k + 1 \in 0 .. W /\ lastAvail + k + 1 = lastAvail + (k + 1)
              /\ Available(k) = w[k + 1] /\ k < Len(w)
  <2>1. k \in 0 .. W - 1 /\ k + 1 \in 0 .. W
    BY <1>2, <1>4, <1>10
  <2>2. lastAvail + k + 1 = lastAvail + (k + 1)
    BY <1>1, <1>4, Constants DEF Indexes
  <2> QED
    BY <1>2, <1>10, <2>1, <2>2
<1> HIDE DEF w, b, W, U
<1>11. Outcome(w, b, n, k)
  <2>1. CASE /\ k = W
             /\ lastAvail' = availIdx
             /\ parked' = {} /\ faulted' = FALSE /\ dropped' = dropped
    <3>1. lastAvail' \in Indexes /\ Waiting' = 0 /\ WaitingSeq' = SubSeq(w, k + 1, Len(w))
      BY <1>8, <1>9, <2>1
    <3> QED
      BY <1>2, <1>3, <1>5, <1>6, <1>7, <2>1, <3>1 DEF Outcome, U
  <2>2. ASSUME k < W, lastAvail' = Wrap(lastAvail + k + 1)
        PROVE  /\ lastAvail' \in Indexes /\ WaitingSeq' = SubSeq(w, (k + 1) + 1, Len(w))
               /\ Available(k) = w[k + 1] /\ k < Len(w)
    BY <1>8, <1>10, <2>2
  <2>3. CASE /\ k < W
             /\ lastAvail' = Wrap(lastAvail + k + 1)
             /\ parked' = {Available(k)} /\ faulted' = FALSE /\ dropped' = dropped
    BY <1>3, <1>5, <1>6, <1>7, <2>2, <2>3 DEF Outcome, U
  <2>4. CASE /\ k < W
             /\ lastAvail' = Wrap(lastAvail + k + 1)
             /\ parked' = {} /\ faulted' = TRUE /\ dropped' = dropped \cup {Available(k)}
    BY <1>3, <1>5, <1>6, <1>7, <2>2, <2>4 DEF Outcome, U
  <2>5. CASE /\ k < W
             /\ lastAvail' = Wrap(lastAvail + k)
             /\ parked' = {} /\ faulted' = TRUE /\ dropped' = dropped
    <3>1. lastAvail' \in Indexes /\ WaitingSeq' = SubSeq(w, k + 1, Len(w)) /\ k < Len(w)
      BY <1>8, <1>10, <2>5
    <3> QED
      BY <1>3, <1>5, <1>6, <1>7, <2>5, <3>1 DEF Outcome, U
  <2> QED
    BY <1>3, <2>1, <2>3, <2>4, <2>5
<1> QED
  BY <1>2, <1>11 DEF w, b

-----------------------------------------------------------------------------
(* The inductive invariant: the chains are owned as ChainsOwned says, with *)
(* distinct entries in each window of a ring instead of their number; a    *)
(* queue that is not set up is empty.                                      *)

FlagInv ==
  /\ up \in BOOLEAN /\ kick \in BOOLEAN /\ reaping \in BOOLEAN /\ isr \in BOOLEAN
  /\ faulted \in BOOLEAN

ParkedInv == parked = {} \/ \E h \in Heads : parked = {h}

OwnedNow == Owned(free, WaitingSeq, parked, AnswerSeq, dropped)

DownInv ==
  /\ Waiting = 0 /\ Unseen = 0 /\ parked = {} /\ free = {} /\ dropped = {}
  /\ ~isr /\ ~reaping /\ ~kick

QueueInv ==
  /\ RingInv /\ FlagInv /\ ParkedInv
  /\ up => OwnedNow
  /\ ~up => DownInv
  /\ NoneForgotten

LEMMA SequencesStay ==
  /\ UNCHANGED <<avail, availIdx, lastAvail>>
       => WaitingSeq' = WaitingSeq /\ Waiting' = Waiting
  /\ UNCHANGED <<used, usedIdx, lastUsed>> => AnswerSeq' = AnswerSeq /\ Unseen' = Unseen
<1>1. UNCHANGED <<avail, availIdx, lastAvail>> => Waiting' = Waiting
  BY DEF Waiting, Distance
<1>2. UNCHANGED <<used, usedIdx, lastUsed>> => Unseen' = Unseen
  BY DEF Unseen, Distance
<1> QED
  BY <1>1, <1>2 DEF WaitingSeq, AnswerSeq, Window

LEMMA EmptyWindow == \A ring, base : Window(ring, base, 0) = <<>>
<1>1. 1 .. 0 = {}
  OBVIOUS
<1> QED
  BY <1>1 DEF Window

\* A queue that has just been set up, or reset: nothing waits.
LEMMA EmptyQueue ==
  ASSUME Waiting = 0, Unseen = 0
  PROVE  /\ WaitingSeq = <<>> /\ AnswerSeq = <<>>
         /\ Owned(Heads, <<>>, {}, <<>>, {})
<1>1. WaitingSeq = <<>> /\ AnswerSeq = <<>>
  BY EmptyWindow DEF WaitingSeq, AnswerSeq
<1>2. <<>> \in Seq(Heads) /\ Distinct(<<>>) /\ Members(<<>>) = {}
  BY DEF Distinct, Members
<1> QED
  BY <1>1, <1>2 DEF Owned

LEMMA ZeroDistance ==
  0 \in Indexes /\ Distance(0, 0) = 0 /\ \A i \in Indexes : Distance(i, i) = 0
<1>1. 0 \in Indexes
  BY Constants DEF Indexes
<1>2. ASSUME NEW i \in Indexes PROVE Distance(i, i) = 0
  <2>1. i \in Int /\ i - i = Modulus * 0 + 0 /\ i - i \in Int /\ 0 \in 0 .. Modulus - 1
    BY Constants DEF Indexes
  <2>2. (i - i) % Modulus = 0
    BY <2>1, Constants, RemainderUnique
  <2> QED
    BY <2>2 DEF Distance
<1> QED
  BY <1>1, <1>2

LEMMA QueueInitially == Init => QueueInv
<1> SUFFICES ASSUME Init PROVE QueueInv
  OBVIOUS
<1>1. 0 \in Heads
  BY Constants DEF Heads
<1>2. RingInv
  BY <1>1, ZeroDistance, QueueAssumption DEF Init, RingInv
<1>3. Waiting = 0 /\ Unseen = 0
  BY ZeroDistance DEF Init, Waiting, Unseen
<1>4. DownInv /\ FlagInv /\ ParkedInv /\ ~up
  BY <1>3 DEF Init, DownInv, FlagInv, ParkedInv
<1>5. NoneForgotten
  BY <1>3 DEF NoneForgotten
<1> QED
  BY <1>2, <1>4, <1>5 DEF QueueInv

LEMMA OutcomeOwned ==
  ASSUME NEW w, NEW b, NEW n, NEW k \in 0 .. Len(w), Owned(free, w, {}, b, dropped),
         Outcome(w, b, n, k), UNCHANGED free
  PROVE  OwnedNow' /\ ParkedInv'
<1> DEFINE v == SubSeq(w, k + 1, Len(w))
           a == b \o SubSeq(w, 1, k)
<1>1. Owned(free, v, {}, a, dropped) /\ AnswerSeq' = a /\ w \in Seq(Heads)
  <2>1. Owned(free, v, {}, a, dropped)
    BY OwnedAnswer
  <2> QED
    BY <2>1 DEF Outcome, Owned
<1>2. Len(w) \in Nat
  BY <1>1, LenProperties
<1>3. ASSUME k < Len(w)
      PROVE  /\ Owned(free, SubSeq(w, (k + 1) + 1, Len(w)), {w[k + 1]}, a, dropped)
             /\ Owned(free, SubSeq(w, (k + 1) + 1, Len(w)), {}, a, dropped \cup {w[k + 1]})
             /\ w[k + 1] \in Heads
  <2>1. k \in 0 .. Len(w) - 1
    BY <1>2, <1>3
  <2>2. v # <<>> /\ Head(v) = w[k + 1] /\ Tail(v) = SubSeq(w, (k + 1) + 1, Len(w))
    BY <1>1, <2>1, RestOf
  <2> HIDE DEF v
  <2>3. /\ Owned(free, Tail(v), {Head(v)}, a, dropped)
        /\ Owned(free, Tail(v), {}, a, dropped \cup {Head(v)})
        /\ Head(v) \in Heads
    BY <1>1, <2>2, OwnedTake
  <2> QED
    BY <2>2, <2>3
<1> HIDE DEF a
<1>4. \/ WaitingSeq' = v /\ parked' = {} /\ dropped' = dropped
      \/ /\ k < Len(w) /\ WaitingSeq' = SubSeq(w, (k + 1) + 1, Len(w))
         /\ parked' = {w[k + 1]} /\ dropped' = dropped
      \/ /\ k < Len(w) /\ WaitingSeq' = SubSeq(w, (k + 1) + 1, Len(w))
         /\ parked' = {} /\ dropped' = dropped \cup {w[k + 1]}
  BY DEF Outcome
<1> QED
  BY <1>1, <1>3, <1>4 DEF OwnedNow, ParkedInv

\* The loop leaves no chain behind without a reason, and no answer unannounced.
LEMMA OutcomeForgetsNone ==
  ASSUME NEW w \in Seq(Heads), NEW b, NEW n \in Nat, NEW k \in 0 .. Len(w),
         Unseen \in Nat, Outcome(w, b, n, k), NoneForgotten, reaping' = reaping
  PROVE  NoneForgotten'
<1>1. Waiting' > 0 => parked' # {} \/ faulted'
  <2>1. ~(0 > 0)
    OBVIOUS
  <2> QED
    BY <2>1 DEF Outcome
<1>2. Unseen' > 0 => isr' \/ reaping'
  <2>1. CASE n + k > 0
    <3>1. isr' = TRUE
      BY <2>1 DEF Outcome
    <3> QED
      BY <3>1
  <2>2. CASE ~(n + k > 0)
    <3>1. Unseen' = Unseen
      <4>1. Unseen' = Unseen + n + k /\ k \in Nat
        BY LenProperties DEF Outcome
      <4> QED
        BY <2>2, <4>1
    <3>2. isr => isr'
      BY Zenon DEF Outcome
    <3> QED
      BY <3>1, <3>2 DEF NoneForgotten
  <2> QED
    BY <2>1, <2>2
<1> QED
  BY <1>1, <1>2 DEF NoneForgotten

-----------------------------------------------------------------------------
(* The sequence of the parked chain, as RequestQueue sees it.              *)

HeldOf(p) == [j \in 1 .. Cardinality(p) |-> CHOOSE h \in p : TRUE]
Held == HeldOf(parked)

LEMMA HeldIs == HeldOf({}) = <<>> /\ \A h : HeldOf({h}) = <<h>>
<1>1. Cardinality({}) = 0 /\ \A h : Cardinality({h}) = 1
  BY FS_EmptySet, FS_Singleton
<1>2. HeldOf({}) = <<>>
  <2>1. 1 .. 0 = {}
    OBVIOUS
  <2> QED
    BY <1>1, <2>1 DEF HeldOf
<1>3. ASSUME NEW h PROVE HeldOf({h}) = <<h>>
  <2>1. (CHOOSE x \in {h} : TRUE) = h
    OBVIOUS
  <2>2. HeldOf({h}) = [j \in 1 .. 1 |-> h]
    BY <1>1, <2>1 DEF HeldOf
  <2>3. 1 .. 1 = {1}
    OBVIOUS
  <2> QED
    BY <2>2, <2>3
<1> QED
  BY <1>2, <1>3

\* Notify and Resume, with the answers b before the loop: those of the rings and
\* of the parked chain.
LEMMA ServedBy ==
  ASSUME QueueInv, up, (Notify /\ parked = {}) \/ Resume
  PROVE  \E n \in Nat, k \in 0 .. Len(WaitingSeq) :
           /\ Outcome(WaitingSeq, AnswerSeq \o Held, n, k)
           /\ Owned(free, WaitingSeq, {}, AnswerSeq \o Held, dropped)
           /\ UNCHANGED <<avail, availIdx, kind, free, lastUsed, reaping, up>>
<1>1. RingInv /\ OwnedNow
  BY DEF QueueInv
<1>2. /\ avail \in [Heads -> Heads] /\ used \in [Heads -> Heads] /\ availIdx \in Indexes
      /\ usedIdx \in Indexes /\ lastUsed \in Indexes /\ lastAvail \in Indexes
  BY <1>1 DEF RingInv
<1>3. /\ Waiting \in Nat /\ Len(WaitingSeq) = Waiting /\ Unseen \in Nat
      /\ AnswerSeq \in Seq(Heads) /\ Len(AnswerSeq) = Unseen
      /\ usedIdx = Wrap(lastUsed + Unseen)
  BY <1>2, Windows
<1>4. /\ Cardinality(free) + Waiting + Cardinality(parked) + Unseen + Cardinality(dropped) = Size
      /\ Cardinality(free) \in Nat /\ Cardinality(parked) \in Nat /\ Cardinality(dropped) \in Nat
  BY <1>1, <1>3, OwnedCount DEF OwnedNow
<1>5. CASE Notify /\ parked = {}
  <2>1. Service(used, 0) /\ UNCHANGED <<avail, availIdx, kind, free, lastUsed, reaping, up>>
    BY <1>5 DEF Notify
  <2>2. AnswerSeq \o Held = AnswerSeq
    BY <1>3, <1>5, HeldIs, ConcatEmptySeq DEF Held
  <2>3. Unseen + 0 + Waiting <= Size /\ Unseen + 0 = Unseen /\ 0 \in Nat
    BY <1>3, <1>4
  <2>4. \E k \in 0 .. Len(WaitingSeq) :
          Outcome(WaitingSeq, Window(used, lastUsed, Unseen + 0), 0, k)
    BY <1>1, <1>2, <2>1, <2>3, ServiceOutcome
  <2>5. Window(used, lastUsed, Unseen + 0) = AnswerSeq
    BY <2>3 DEF AnswerSeq
  <2>6. Owned(free, WaitingSeq, {}, AnswerSeq, dropped)
    BY <1>1, <1>5 DEF OwnedNow
  <2> QED
    BY <2>1, <2>2, <2>3, <2>4, <2>5, <2>6
<1>6. CASE Resume
  <2>1. PICK h \in parked : /\ Service([used EXCEPT ![Slot(usedIdx)] = h], 1)
                            /\ UNCHANGED <<avail, availIdx, kind, driverVars, up>>
    BY <1>6 DEF Resume
  <2>2. parked = {h} /\ h \in Heads
    BY <2>1 DEF QueueInv, ParkedInv
  <2> DEFINE ring == [used EXCEPT ![Slot(usedIdx)] = h]
  <2>3. ring \in [Heads -> Heads]
    BY <1>2, <2>2
  <2>4. Cardinality(parked) = 1
    BY <2>2, FS_Singleton
  <2>5. Unseen + 1 + Waiting <= Size /\ 1 \in Nat /\ Unseen \in 0 .. Size - 1
    BY <1>3, <1>4, <2>4, Constants
  <2>6. UNCHANGED <<avail, availIdx, kind, free, lastUsed, reaping, up>>
    BY <2>1 DEF driverVars
  <2>7. \E k \in 0 .. Len(WaitingSeq) :
          Outcome(WaitingSeq, Window(ring, lastUsed, Unseen + 1), 1, k)
    <3>1. Service(ring, 1)
      BY <2>1
    <3> HIDE DEF ring
    <3> QED
      BY <1>1, <2>3, <2>5, <2>6, <3>1, ServiceOutcome
  <2>8. Window(ring, lastUsed, Unseen + 1) = Append(AnswerSeq, h)
    BY <1>2, <1>3, <2>2, <2>5, WindowAppend DEF AnswerSeq
  <2>9. AnswerSeq \o Held = Append(AnswerSeq, h)
    <3>1. Held = <<h>>
      BY <2>2, HeldIs DEF Held
    <3> QED
      BY <1>3, <2>2, <3>1, AppendIsConcat
  <2>10. Owned(free, WaitingSeq, {}, Append(AnswerSeq, h), dropped)
    BY <1>1, <2>2, OwnedAnswerParked DEF OwnedNow
  <2> QED
    BY <2>5, <2>6, <2>7, <2>8, <2>9, <2>10
<1> QED
  BY <1>5, <1>6

LEMMA SubmitAppends ==
  ASSUME QueueInv, NEW h \in Heads, NEW kd \in Kinds, Submit(h, kd)
  PROVE  /\ up /\ h \in free /\ WaitingSeq' = Append(WaitingSeq, h)
         /\ AnswerSeq' = AnswerSeq /\ Unseen' = Unseen /\ RingInv'
<1>1. /\ up /\ h \in free /\ RingInv /\ OwnedNow
      /\ avail' = [avail EXCEPT ![Slot(availIdx)] = h] /\ availIdx' = Wrap(availIdx + 1)
      /\ kind' = [kind EXCEPT ![h] = kd]
      /\ UNCHANGED <<used, usedIdx, lastUsed, lastAvail>>
  BY DEF QueueInv, Submit, deviceVars
<1>2. /\ avail \in [Heads -> Heads] /\ used \in [Heads -> Heads] /\ kind \in [Heads -> Kinds]
      /\ availIdx \in Indexes /\ usedIdx \in Indexes
      /\ lastUsed \in Indexes /\ lastAvail \in Indexes
  BY <1>1 DEF RingInv
<1>3. Waiting \in Nat /\ Len(WaitingSeq) = Waiting /\ Unseen \in Nat /\ Len(AnswerSeq) = Unseen
  BY <1>2, Windows
<1>4. Waiting \in 0 .. Size - 1
  <2>1. /\ Cardinality(free) + Waiting + Cardinality(parked) + Unseen + Cardinality(dropped)
             = Size
        /\ Cardinality(free) \in Nat /\ Cardinality(parked) \in Nat
        /\ Cardinality(dropped) \in Nat /\ Cardinality(free) > 0
    BY <1>1, <1>3, OwnedCount DEF OwnedNow
  <2> QED
    BY <1>3, <2>1
<1>5. availIdx' \in Indexes /\ Waiting' = Waiting + 1
  <2>1. Distance(lastAvail, availIdx) + 1 < Modulus
    BY <1>4, Constants DEF Waiting
  <2>2. /\ Wrap(availIdx + 1) \in Indexes
        /\ Distance(lastAvail, Wrap(availIdx + 1)) = Distance(lastAvail, availIdx) + 1
    BY <1>2, <2>1, EndMoved
  <2>3. Waiting' = Distance(lastAvail, availIdx')
    BY <1>1 DEF Waiting, Distance
  <2> QED
    BY <1>1, <2>2, <2>3 DEF Waiting
<1>6. WaitingSeq' = Append(WaitingSeq, h)
  <2>1. WaitingSeq' = Window(avail', lastAvail, Waiting + 1)
    BY <1>1, <1>5 DEF WaitingSeq, Window
  <2>2. availIdx = Wrap(lastAvail + Waiting)
    BY <1>2, DistanceBack DEF Waiting
  <2>3. Window([avail EXCEPT ![Slot(Wrap(lastAvail + Waiting))] = h], lastAvail, Waiting + 1)
          = Append(Window(avail, lastAvail, Waiting), h)
    BY <1>2, <1>4, WindowAppend
  <2> QED
    BY <1>1, <2>1, <2>2, <2>3 DEF WaitingSeq
<1>7. avail' \in [Heads -> Heads] /\ kind' \in [Heads -> Kinds]
  BY <1>1, <1>2
<1>8. RingInv'
  BY <1>1, <1>2, <1>5, <1>7 DEF RingInv
<1> QED
  BY <1>1, <1>6, <1>8, SequencesStay

LEMMA ReapCollects ==
  ASSUME QueueInv, Reap
  PROVE  /\ up /\ AnswerSeq # <<>> /\ free' = free \cup {Head(AnswerSeq)}
         /\ AnswerSeq' = Tail(AnswerSeq)
         /\ WaitingSeq' = WaitingSeq /\ Waiting' = Waiting /\ RingInv'
<1>1. /\ reaping /\ lastUsed # usedIdx /\ RingInv
      /\ free' = free \cup {Answer(0)} /\ lastUsed' = Wrap(lastUsed + 1)
      /\ UNCHANGED <<avail, availIdx, used, usedIdx, kind, lastAvail>>
  BY DEF QueueInv, Reap, ringVars, deviceVars
<1>2. /\ avail \in [Heads -> Heads] /\ used \in [Heads -> Heads]
      /\ availIdx \in Indexes /\ usedIdx \in Indexes
      /\ lastUsed \in Indexes /\ lastAvail \in Indexes
  BY <1>1 DEF RingInv
<1>3. /\ Unseen \in Nat /\ AnswerSeq \in Seq(Heads) /\ Len(AnswerSeq) = Unseen
      /\ \A j \in 0 .. Unseen - 1 : Answer(j) = AnswerSeq[j + 1]
      /\ usedIdx = Wrap(lastUsed + Unseen)
  BY <1>2, Windows
<1>4. Unseen > 0
  <2>1. CASE Unseen = 0
    <3>1. lastUsed + 0 = lastUsed
      BY <1>2, Constants DEF Indexes
    <3> QED
      BY <1>1, <1>2, <1>3, <2>1, <3>1, WrapSmall
  <2> QED
    BY <1>3, <2>1
<1>5. up
  BY <1>1 DEF QueueInv, DownInv, FlagInv
<1>6. AnswerSeq # <<>> /\ Answer(0) = AnswerSeq[1] /\ Head(AnswerSeq) = AnswerSeq[1]
  <2>1. 0 \in 0 .. Unseen - 1 /\ 0 + 1 = 1
    BY <1>3, <1>4
  <2>2. AnswerSeq # <<>>
    BY <1>3, <1>4, EmptySeq
  <2> QED
    BY <1>3, <2>1, <2>2, TailPlaces
<1>7. lastUsed' \in Indexes /\ Unseen' = Unseen - 1
  <2>1. 1 \in 0 .. Distance(lastUsed, usedIdx)
    BY <1>3, <1>4 DEF Unseen
  <2>2. /\ Wrap(lastUsed + 1) \in Indexes
        /\ Distance(Wrap(lastUsed + 1), usedIdx) = Distance(lastUsed, usedIdx) - 1
    BY <1>2, <2>1, BaseMoved
  <2>3. Unseen' = Distance(lastUsed', usedIdx)
    BY <1>1 DEF Unseen, Distance
  <2> QED
    BY <1>1, <2>2, <2>3 DEF Unseen
<1>8. AnswerSeq' = Tail(AnswerSeq)
  <2>1. AnswerSeq' = Window(used, lastUsed', Unseen - 1)
    BY <1>1, <1>7 DEF AnswerSeq, Window
  <2>2. Window(used, Wrap(lastUsed + 1), Unseen - 1)
          = SubSeq(Window(used, lastUsed, Unseen), 1 + 1, Unseen)
    <3>1. 1 \in 0 .. Unseen
      BY <1>3, <1>4
    <3> QED
      BY <1>2, <1>3, <3>1, WindowDrop
  <2>3. Tail(AnswerSeq) = SubSeq(AnswerSeq, 1 + 1, Unseen)
    <3>1. Tail(AnswerSeq) = SubSeq(AnswerSeq, 2, Len(AnswerSeq)) /\ 1 + 1 = 2
      BY <1>3, <1>6, TailIsSubSeq
    <3> QED
      BY <1>3, <3>1
  <2> QED
    BY <1>1, <2>1, <2>2, <2>3 DEF AnswerSeq
<1>9. RingInv'
  BY <1>1, <1>7 DEF RingInv
<1> QED
  BY <1>1, <1>5, <1>6, <1>8, <1>9, SequencesStay

LEMMA QueueInductive == QueueInv /\ [Next]_vars => QueueInv'
<1> SUFFICES ASSUME QueueInv, [Next]_vars PROVE QueueInv'
  OBVIOUS
<1> USE DEF QueueInv
<1>1. CASE Setup
  <2>1. /\ ~up /\ up' = TRUE /\ free' = Heads
        /\ UNCHANGED <<ringVars, lastUsed, kick, reaping, lastAvail, isr, parked, historyVars>>
    BY <1>1 DEF Setup
  <2>2. DownInv
    BY <2>1
  <2>3. /\ WaitingSeq' = WaitingSeq /\ Waiting' = Waiting
        /\ AnswerSeq' = AnswerSeq /\ Unseen' = Unseen
    BY <2>1, SequencesStay DEF ringVars
  <2>4. RingInv' /\ FlagInv' /\ ParkedInv'
    BY <2>1 DEF RingInv, FlagInv, ParkedInv, ringVars, historyVars
  <2>5. OwnedNow'
    BY <2>1, <2>2, <2>3, EmptyQueue DEF OwnedNow, DownInv, historyVars
  <2>6. NoneForgotten'
    BY <2>2, <2>3 DEF NoneForgotten, DownInv
  <2> QED
    BY <2>1, <2>4, <2>5, <2>6
<1>2. CASE Reset
  <2>1. /\ up' = FALSE /\ lastAvail' = 0 /\ isr' = FALSE /\ parked' = {}
        /\ free' = {} /\ kick' = FALSE /\ reaping' = FALSE
        /\ faulted' = FALSE /\ dropped' = {}
        /\ availIdx' = 0 /\ usedIdx' = 0 /\ lastUsed' = 0
        /\ UNCHANGED <<avail, used, kind>>
    BY <1>2 DEF Reset
  <2>2. Waiting' = 0 /\ Unseen' = 0
    BY <2>1, ZeroDistance DEF Waiting, Unseen, Distance
  <2>3. RingInv' /\ FlagInv' /\ ParkedInv'
    BY <2>1, ZeroDistance DEF RingInv, FlagInv, ParkedInv
  <2>4. DownInv'
    BY <2>1, <2>2 DEF DownInv
  <2>5. NoneForgotten'
    BY <2>2 DEF NoneForgotten
  <2> QED
    BY <2>1, <2>3, <2>4, <2>5
<1>3. ASSUME NEW h \in Heads, NEW kd \in Kinds, Submit(h, kd) PROVE QueueInv'
  <2>1. /\ up /\ h \in free /\ WaitingSeq' = Append(WaitingSeq, h)
        /\ AnswerSeq' = AnswerSeq /\ Unseen' = Unseen /\ RingInv'
    BY <1>3, SubmitAppends
  <2>2. free' = free \ {h} /\ kick' = TRUE /\ UNCHANGED <<reaping, deviceVars, historyVars>>
    BY <1>3 DEF Submit
  <2>3. OwnedNow'
    BY <2>1, <2>2, OwnedSubmit DEF OwnedNow, deviceVars, historyVars
  <2>4. FlagInv' /\ ParkedInv'
    BY <2>2 DEF FlagInv, ParkedInv, deviceVars, historyVars
  <2>5. NoneForgotten'
    BY <2>1, <2>2 DEF NoneForgotten, deviceVars
  <2> QED
    BY <2>1, <2>2, <2>3, <2>4, <2>5 DEF deviceVars
<1>4. CASE Notify /\ parked # {}
  <2>1. /\ up /\ kick' = FALSE
        /\ UNCHANGED <<used, usedIdx, isr, lastAvail, parked, historyVars,
                       avail, availIdx, kind, free, lastUsed, reaping, up>>
    BY <1>4 DEF Notify
  <2>2. /\ WaitingSeq' = WaitingSeq /\ Waiting' = Waiting
        /\ AnswerSeq' = AnswerSeq /\ Unseen' = Unseen
    BY <2>1, SequencesStay
  <2>3. RingInv' /\ FlagInv' /\ ParkedInv' /\ OwnedNow'
    BY <2>1, <2>2 DEF RingInv, FlagInv, ParkedInv, OwnedNow, historyVars
  <2>4. NoneForgotten'
    BY <1>4, <2>1, <2>2 DEF NoneForgotten
  <2> QED
    BY <2>1, <2>3, <2>4
<1>5. CASE (Notify /\ parked = {}) \/ Resume
  <2>1. up
    BY <1>5 DEF Notify, Resume, DownInv
  <2>2. PICK n \in Nat, k \in 0 .. Len(WaitingSeq) :
          /\ Outcome(WaitingSeq, AnswerSeq \o Held, n, k)
          /\ Owned(free, WaitingSeq, {}, AnswerSeq \o Held, dropped)
          /\ UNCHANGED <<avail, availIdx, kind, free, lastUsed, reaping, up>>
    BY <1>5, <2>1, ServedBy
  <2>3. OwnedNow' /\ ParkedInv'
    BY <2>2, OutcomeOwned
  <2>4. WaitingSeq \in Seq(Heads) /\ Unseen \in Nat
    BY Windows DEF RingInv
  <2>5. NoneForgotten'
    BY <2>2, <2>4, OutcomeForgetsNone
  <2>6. RingInv'
    BY <2>2 DEF RingInv, Outcome
  <2>7. FlagInv'
    <3>1. kick' \in BOOLEAN
      BY <1>5 DEF Notify, Resume, driverVars, FlagInv
    <3>2. isr' \in BOOLEAN /\ faulted' \in BOOLEAN
      BY <2>2 DEF Outcome
    <3> QED
      BY <2>2, <3>1, <3>2 DEF FlagInv
  <2> QED
    BY <2>1, <2>2, <2>3, <2>5, <2>6, <2>7
<1>6. CASE Interrupt
  <2>1. /\ isr /\ isr' = FALSE /\ reaping' = TRUE
        /\ UNCHANGED <<ringVars, free, lastUsed, kick, up, lastAvail, parked, historyVars>>
    BY <1>6 DEF Interrupt
  <2>2. up
    BY <2>1 DEF DownInv
  <2>3. /\ WaitingSeq' = WaitingSeq /\ Waiting' = Waiting
        /\ AnswerSeq' = AnswerSeq /\ Unseen' = Unseen
    BY <2>1, SequencesStay DEF ringVars
  <2>4. RingInv' /\ FlagInv' /\ ParkedInv' /\ OwnedNow'
    BY <2>1, <2>2, <2>3 DEF RingInv, FlagInv, ParkedInv, OwnedNow, ringVars, historyVars
  <2>5. NoneForgotten'
    BY <2>1, <2>3 DEF NoneForgotten, historyVars
  <2> QED
    BY <2>1, <2>2, <2>4, <2>5
<1>7. CASE Reap
  <2>1. /\ up /\ AnswerSeq # <<>> /\ free' = free \cup {Head(AnswerSeq)}
        /\ AnswerSeq' = Tail(AnswerSeq)
        /\ WaitingSeq' = WaitingSeq /\ Waiting' = Waiting /\ RingInv'
    BY <1>7, ReapCollects
  <2>2. reaping /\ UNCHANGED <<kick, reaping, deviceVars, historyVars>>
    BY <1>7 DEF Reap
  <2>3. OwnedNow'
    BY <2>1, <2>2, OwnedCollect DEF OwnedNow, deviceVars, historyVars
  <2>4. FlagInv' /\ ParkedInv'
    BY <2>2 DEF FlagInv, ParkedInv, deviceVars, historyVars
  <2>5. NoneForgotten'
    BY <2>1, <2>2 DEF NoneForgotten, deviceVars, historyVars
  <2> QED
    BY <2>1, <2>2, <2>3, <2>4, <2>5 DEF deviceVars
<1>8. CASE ReapDone
  <2>1. /\ lastUsed = usedIdx /\ reaping /\ reaping' = FALSE
        /\ UNCHANGED <<ringVars, free, lastUsed, kick, deviceVars, historyVars>>
    BY <1>8 DEF ReapDone
  <2>2. up
    BY <2>1 DEF DownInv
  <2>3. /\ WaitingSeq' = WaitingSeq /\ Waiting' = Waiting
        /\ AnswerSeq' = AnswerSeq /\ Unseen' = Unseen
    BY <2>1, SequencesStay DEF ringVars, deviceVars
  <2>4. Unseen = 0
    BY <2>1, ZeroDistance DEF Unseen, RingInv
  <2>5. RingInv' /\ FlagInv' /\ ParkedInv' /\ OwnedNow'
    BY <2>1, <2>2, <2>3 DEF RingInv, FlagInv, ParkedInv, OwnedNow, ringVars, deviceVars,
       historyVars
  <2>6. NoneForgotten'
    BY <2>1, <2>3, <2>4 DEF NoneForgotten, deviceVars, historyVars
  <2> QED
    BY <2>1, <2>2, <2>5, <2>6 DEF deviceVars
<1>9. CASE UNCHANGED vars
  <2>1. UNCHANGED <<ringVars, driverVars, deviceVars, historyVars>>
    BY <1>9 DEF vars
  <2>2. /\ WaitingSeq' = WaitingSeq /\ Waiting' = Waiting
        /\ AnswerSeq' = AnswerSeq /\ Unseen' = Unseen
    BY <2>1, SequencesStay DEF ringVars, driverVars, deviceVars
  <2>3. RingInv' /\ FlagInv' /\ ParkedInv' /\ (up' => OwnedNow') /\ (~up' => DownInv')
    BY <2>1, <2>2 DEF RingInv, FlagInv, ParkedInv, OwnedNow, DownInv, ringVars, driverVars,
       deviceVars, historyVars
  <2>4. NoneForgotten'
    BY <2>1, <2>2 DEF NoneForgotten, driverVars, deviceVars, historyVars
  <2> QED
    BY <2>3, <2>4
<1> QED
  BY <1>1, <1>2, <1>3, <1>4, <1>5, <1>6, <1>7, <1>8, <1>9 DEF Next

-----------------------------------------------------------------------------
(* Theorems.                                                               *)

LEMMA QueueOwned == QueueInv => ChainsAccounted
<1> SUFFICES ASSUME QueueInv PROVE ChainsAccounted
  OBVIOUS
<1>1. /\ Waiting \in Nat /\ WaitingSeq \in Seq(Heads) /\ Len(WaitingSeq) = Waiting
      /\ \A j \in 0 .. Waiting - 1 : Available(j) = WaitingSeq[j + 1]
      /\ Unseen \in Nat /\ AnswerSeq \in Seq(Heads) /\ Len(AnswerSeq) = Unseen
      /\ \A j \in 0 .. Unseen - 1 : Answer(j) = AnswerSeq[j + 1]
  BY Windows DEF QueueInv, RingInv
<1>2. \A n \in Nat : /\ \A j \in 0 .. n - 1 : j + 1 \in 1 .. n
                     /\ \A i \in 1 .. n : i - 1 \in 0 .. n - 1 /\ (i - 1) + 1 = i
  OBVIOUS
<1>3. {Available(j) : j \in 0 .. Waiting - 1} = Members(WaitingSeq)
  <2>1. DOMAIN WaitingSeq = 1 .. Waiting
    BY <1>1, LenProperties
  <2>2. \A j \in 0 .. Waiting - 1 : Available(j) \in Members(WaitingSeq)
    BY <1>1, <1>2, <2>1 DEF Members
  <2>3. ASSUME NEW i \in 1 .. Waiting
        PROVE  WaitingSeq[i] \in {Available(j) : j \in 0 .. Waiting - 1}
    <3>1. i - 1 \in 0 .. Waiting - 1 /\ WaitingSeq[i] = Available(i - 1)
      BY <1>1, <1>2
    <3> QED
      BY <3>1
  <2> QED
    BY <2>1, <2>2, <2>3 DEF Members
<1>4. {Answer(j) : j \in 0 .. Unseen - 1} = Members(AnswerSeq)
  <2>1. DOMAIN AnswerSeq = 1 .. Unseen
    BY <1>1, LenProperties
  <2>2. \A j \in 0 .. Unseen - 1 : Answer(j) \in Members(AnswerSeq)
    BY <1>1, <1>2, <2>1 DEF Members
  <2>3. ASSUME NEW i \in 1 .. Unseen
        PROVE  AnswerSeq[i] \in {Answer(j) : j \in 0 .. Unseen - 1}
    <3>1. i - 1 \in 0 .. Unseen - 1 /\ AnswerSeq[i] = Answer(i - 1)
      BY <1>1, <1>2
    <3> QED
      BY <3>1
  <2> QED
    BY <2>1, <2>2, <2>3 DEF Members
<1>5. Places = <<free, Members(WaitingSeq), parked, Members(AnswerSeq), dropped>>
  BY <1>3, <1>4 DEF Places
<1>6. DOMAIN Places = {1, 2, 3, 4, 5}
  BY <1>5
<1>7. ASSUME up PROVE ChainsOwned
  <2>1. Owned(free, WaitingSeq, parked, AnswerSeq, dropped)
    BY <1>7 DEF QueueInv, OwnedNow
  <2>2. Cardinality(free) + Waiting + Cardinality(parked) + Unseen + Cardinality(dropped) = Size
    BY <1>1, <2>1, OwnedCount
  <2>3. /\ Places[1] = free /\ Places[2] = Members(WaitingSeq) /\ Places[3] = parked
        /\ Places[4] = Members(AnswerSeq) /\ Places[5] = dropped
    BY <1>5
  <2> HIDE DEF Places
  <2>4. \A p, q \in DOMAIN Places : p # q => Places[p] \cap Places[q] = {}
    <3> SUFFICES ASSUME NEW p \in {1, 2, 3, 4, 5}, NEW q \in {1, 2, 3, 4, 5}, p # q
                 PROVE  Places[p] \cap Places[q] = {}
      BY <1>6
    <3>1. CASE p = 1
      BY <2>1, <2>3, <3>1 DEF Owned
    <3>2. CASE p = 2
      BY <2>1, <2>3, <3>2 DEF Owned
    <3>3. CASE p = 3
      BY <2>1, <2>3, <3>3 DEF Owned
    <3>4. CASE p = 4
      BY <2>1, <2>3, <3>4 DEF Owned
    <3>5. CASE p = 5
      BY <2>1, <2>3, <3>5 DEF Owned
    <3> QED
      BY <3>1, <3>2, <3>3, <3>4, <3>5
  <2>5. UNION {Places[p] : p \in DOMAIN Places} = Heads
    <3>1. UNION {Places[p] : p \in DOMAIN Places}
            = Places[1] \cup Places[2] \cup Places[3] \cup Places[4] \cup Places[5]
      BY <1>6
    <3> QED
      BY <2>1, <2>3, <3>1 DEF Owned
  <2> QED
    BY <2>2, <2>4, <2>5 DEF ChainsOwned
<1>8. ChainsOwned
  BY <1>7 DEF ChainsOwned
<1> QED
  BY <1>8 DEF QueueInv, ChainsAccounted

LEMMA QueueTypes == QueueInv => QueueTypeOK
<1> SUFFICES ASSUME QueueInv PROVE QueueTypeOK
  OBVIOUS
<1>1. free \subseteq Heads /\ dropped \subseteq Heads
  BY DEF QueueInv, OwnedNow, Owned, DownInv, FlagInv
<1>2. parked \subseteq Heads /\ Cardinality(parked) <= 1
  <2>1. CASE parked = {}
    BY <2>1, FS_EmptySet
  <2>2. ASSUME NEW h \in Heads, parked = {h} PROVE Cardinality(parked) = 1 /\ parked \subseteq Heads
    BY <2>2, FS_Singleton
  <2> QED
    BY <2>1, <2>2 DEF QueueInv, ParkedInv
<1> QED
  BY <1>1, <1>2 DEF QueueInv, RingInv, FlagInv, QueueTypeOK

\* The variables of RequestQueue are the sequences above.
LEMMA MappedSteps ==
  /\ UNCHANGED <<WaitingSeq, Held, AnswerSeq, free>> => UNCHANGED Requested!vars
  /\ \A r : /\ r \in free /\ free' = free \ {r} /\ WaitingSeq' = Append(WaitingSeq, r)
            /\ UNCHANGED <<Held, AnswerSeq>>
            => Requested!Submit(r)
  /\ \A n : /\ AnswerSeq' = AnswerSeq \o Held \o SubSeq(WaitingSeq, 1, n)
            /\ \E taken \in {n, n + 1} \cap 0 .. Len(WaitingSeq) :
                 /\ WaitingSeq' = SubSeq(WaitingSeq, taken + 1, Len(WaitingSeq))
                 /\ Held' \in {<<>>, SubSeq(WaitingSeq, n + 1, taken)}
            /\ free' = free
            => Requested!Serve(n)
  /\ /\ AnswerSeq # <<>> /\ free' = free \cup {Head(AnswerSeq)} /\ AnswerSeq' = Tail(AnswerSeq)
     /\ UNCHANGED <<WaitingSeq, Held>>
     => Requested!Collect
  /\ WaitingSeq' = <<>> /\ Held' = <<>> /\ AnswerSeq' = <<>> /\ free' = {} => Requested!Forget
  /\ /\ WaitingSeq = <<>> /\ Held = <<>> /\ AnswerSeq = <<>> /\ free = {} /\ free' = Heads
     /\ UNCHANGED <<WaitingSeq, Held, AnswerSeq>>
     => Requested!Start
  /\ WaitingSeq = <<>> /\ Held = <<>> /\ AnswerSeq = <<>> /\ free = {} => Requested!Init
<1> USE DEF WaitingSeq, AnswerSeq, Held, HeldOf, Window, Available, Answer
<1>1. UNCHANGED <<WaitingSeq, Held, AnswerSeq, free>> => UNCHANGED Requested!vars
  BY DEF Requested!vars
<1>2. ASSUME NEW r, r \in free, free' = free \ {r}, WaitingSeq' = Append(WaitingSeq, r),
             UNCHANGED <<Held, AnswerSeq>>
      PROVE  Requested!Submit(r)
  BY <1>2 DEF Requested!Submit
<1>3. ASSUME NEW n, AnswerSeq' = AnswerSeq \o Held \o SubSeq(WaitingSeq, 1, n),
             \E taken \in {n, n + 1} \cap 0 .. Len(WaitingSeq) :
               /\ WaitingSeq' = SubSeq(WaitingSeq, taken + 1, Len(WaitingSeq))
               /\ Held' \in {<<>>, SubSeq(WaitingSeq, n + 1, taken)},
             free' = free
      PROVE  Requested!Serve(n)
  BY <1>3 DEF Requested!Serve
<1>4. ASSUME AnswerSeq # <<>>, free' = free \cup {Head(AnswerSeq)},
             AnswerSeq' = Tail(AnswerSeq), UNCHANGED <<WaitingSeq, Held>>
      PROVE  Requested!Collect
  BY <1>4 DEF Requested!Collect
<1>5. ASSUME WaitingSeq' = <<>>, Held' = <<>>, AnswerSeq' = <<>>, free' = {}
      PROVE  Requested!Forget
  BY <1>5 DEF Requested!Forget
<1>6. ASSUME WaitingSeq = <<>>, Held = <<>>, AnswerSeq = <<>>, free = {}, free' = Heads,
             UNCHANGED <<WaitingSeq, Held, AnswerSeq>>
      PROVE  Requested!Start
  BY <1>6 DEF Requested!Start
<1>7. ASSUME WaitingSeq = <<>>, Held = <<>>, AnswerSeq = <<>>, free = {}
      PROVE  Requested!Init
  BY <1>7 DEF Requested!Init
<1> HIDE DEF WaitingSeq, AnswerSeq, Held, HeldOf, Window, Available, Answer
<1> QED
  BY <1>1, <1>2, <1>3, <1>4, <1>5, <1>6, <1>7

LEMMA MappedNext ==
  /\ \A r \in Heads : Requested!Submit(r) => Requested!Next
  /\ \A n \in 0 .. Len(WaitingSeq) : Requested!Serve(n) => Requested!Next
  /\ Requested!Collect => Requested!Next
  /\ Requested!Forget => Requested!Next
  /\ Requested!Start => Requested!Next
<1>1. ASSUME NEW n \in 0 .. Len(WaitingSeq), Requested!Serve(n) PROVE Requested!Next
  BY <1>1 DEF Requested!Next, WaitingSeq, Window, Available
<1> QED
  BY <1>1 DEF Requested!Next

LEMMA OneOf ==
  ASSUME NEW S, NEW w \in Seq(S), NEW i \in 1 .. Len(w)
  PROVE  SubSeq(w, i, i) = <<w[i]>>
<1>1. SubSeq(w, i, i) = [j \in 1 .. 1 |-> w[i + j - 1]]
  BY LenProperties
<1>2. [j \in 1 .. 1 |-> w[i + j - 1]] = <<w[i]>>
  BY LenProperties
<1> QED
  BY <1>1, <1>2

\* A loop of notify serves requests in order and may hold the next one.
LEMMA ServesMapped ==
  ASSUME QueueInv, up, (Notify /\ parked = {}) \/ Resume
  PROVE  Requested!Next
<1>1. PICK n \in Nat, k \in 0 .. Len(WaitingSeq) :
        /\ Outcome(WaitingSeq, AnswerSeq \o Held, n, k)
        /\ UNCHANGED <<avail, availIdx, kind, free, lastUsed, reaping, up>>
  BY ServedBy
<1>2. WaitingSeq \in Seq(Heads) /\ Len(WaitingSeq) \in Nat
  BY Windows, LenProperties DEF QueueInv, RingInv
<1>3. AnswerSeq' = AnswerSeq \o Held \o SubSeq(WaitingSeq, 1, k)
  BY <1>1 DEF Outcome
<1>4. /\ parked' = {} => Held' = <<>>
      /\ \A h : parked' = {h} => Held' = <<h>>
  BY HeldIs DEF Held
<1>5. \E taken \in {k, k + 1} \cap 0 .. Len(WaitingSeq) :
        /\ WaitingSeq' = SubSeq(WaitingSeq, taken + 1, Len(WaitingSeq))
        /\ Held' \in {<<>>, SubSeq(WaitingSeq, k + 1, taken)}
  <2>1. CASE /\ k < Len(WaitingSeq)
             /\ WaitingSeq' = SubSeq(WaitingSeq, (k + 1) + 1, Len(WaitingSeq))
             /\ parked' = {} \/ parked' = {WaitingSeq[k + 1]}
    <3>1. k + 1 \in {k, k + 1} \cap 0 .. Len(WaitingSeq) /\ k + 1 \in 1 .. Len(WaitingSeq)
      BY <1>2, <2>1
    <3>2. SubSeq(WaitingSeq, k + 1, k + 1) = <<WaitingSeq[k + 1]>>
      BY <1>2, <3>1, OneOf
    <3>3. Held' \in {<<>>, SubSeq(WaitingSeq, k + 1, k + 1)}
      BY <1>4, <2>1, <3>2
    <3> QED
      BY <2>1, <3>1, <3>3
  <2>2. CASE /\ WaitingSeq' = SubSeq(WaitingSeq, k + 1, Len(WaitingSeq)) /\ parked' = {}
    <3>1. k \in {k, k + 1} \cap 0 .. Len(WaitingSeq)
      OBVIOUS
    <3> QED
      BY <1>4, <2>2, <3>1
  <2> QED
    BY <1>1, <2>1, <2>2 DEF Outcome
<1>6. Requested!Serve(k)
  BY <1>1, <1>3, <1>5, MappedSteps
<1> QED
  BY <1>6, MappedNext

\* Every step of the rings is a step of the queue of requests or leaves it alone.
LEMMA QueueStepsMap == QueueInv /\ [Next]_vars => [Requested!Next]_(Requested!vars)
<1> SUFFICES ASSUME QueueInv, [Next]_vars PROVE Requested!Next \/ UNCHANGED Requested!vars
  OBVIOUS
<1>1. parked' = parked => Held' = Held
  BY DEF Held
<1>2. CASE Setup
  <2>1. /\ DownInv /\ free' = Heads
        /\ UNCHANGED <<ringVars, lastUsed, lastAvail, parked>>
    BY <1>2 DEF Setup, QueueInv
  <2>2. WaitingSeq' = WaitingSeq /\ AnswerSeq' = AnswerSeq
    BY <2>1, SequencesStay DEF ringVars
  <2>3. WaitingSeq = <<>> /\ AnswerSeq = <<>> /\ Held = <<>> /\ free = {}
    BY <2>1, EmptyQueue, HeldIs DEF DownInv, Held
  <2>4. Requested!Start
    BY <1>1, <2>1, <2>2, <2>3, MappedSteps
  <2> QED
    BY <2>4, MappedNext
<1>3. CASE Reset
  <2>1. /\ lastAvail' = 0 /\ availIdx' = 0 /\ usedIdx' = 0 /\ lastUsed' = 0
        /\ parked' = {} /\ free' = {}
    BY <1>3 DEF Reset
  <2>2. Waiting' = 0 /\ Unseen' = 0
    BY <2>1, ZeroDistance DEF Waiting, Unseen, Distance
  <2>3. WaitingSeq' = <<>> /\ AnswerSeq' = <<>>
    BY <2>2, EmptyWindow DEF WaitingSeq, AnswerSeq
  <2>4. Held' = <<>>
    BY <2>1, HeldIs DEF Held
  <2>5. Requested!Forget
    BY <2>1, <2>2, <2>3, <2>4, MappedSteps
  <2> QED
    BY <2>5, MappedNext
<1>4. ASSUME NEW h \in Heads, NEW kd \in Kinds, Submit(h, kd) PROVE Requested!Next
  <2>1. h \in free /\ WaitingSeq' = Append(WaitingSeq, h) /\ AnswerSeq' = AnswerSeq
    BY <1>4, SubmitAppends
  <2>2. free' = free \ {h} /\ parked' = parked
    BY <1>4 DEF Submit, deviceVars
  <2>3. Requested!Submit(h)
    BY <1>1, <2>1, <2>2, MappedSteps
  <2> QED
    BY <2>3, MappedNext
<1>5. CASE (Notify /\ parked = {}) \/ Resume
  <2>1. up
    BY <1>5 DEF Notify, Resume, QueueInv, DownInv
  <2> QED
    BY <1>5, <2>1, ServesMapped
<1>6. CASE Reap
  <2>1. /\ AnswerSeq # <<>> /\ free' = free \cup {Head(AnswerSeq)}
        /\ AnswerSeq' = Tail(AnswerSeq) /\ WaitingSeq' = WaitingSeq
    BY <1>6, ReapCollects
  <2>2. parked' = parked
    BY <1>6 DEF Reap, deviceVars
  <2>3. Requested!Collect
    BY <1>1, <2>1, <2>2, MappedSteps
  <2> QED
    BY <2>3, MappedNext
<1>7. CASE (Notify /\ parked # {}) \/ Interrupt \/ ReapDone \/ UNCHANGED vars
  <2>1. UNCHANGED <<avail, availIdx, lastAvail, used, usedIdx, lastUsed, free, parked>>
    BY <1>7 DEF Notify, Interrupt, ReapDone, vars, ringVars, driverVars, deviceVars
  <2>2. UNCHANGED <<WaitingSeq, Held, AnswerSeq, free>>
    BY <1>1, <2>1, SequencesStay
  <2> QED
    BY <2>2, MappedSteps
<1> QED
  BY <1>2, <1>3, <1>4, <1>5, <1>6, <1>7 DEF Next

\* The rings, the parked chain and the flags keep the invariant in every
\* behaviour of driver and device, for every size of the queue.
THEOREM QueueInvariant == Spec => []QueueInv
<1>1. Init => QueueInv
  BY QueueInitially
<1>2. QueueInv /\ [Next]_vars => QueueInv'
  BY QueueInductive
<1> QED
  BY <1>1, <1>2, PTL DEF Spec

\* Indexes stay below 2^16 and ring entries name heads (next_chain and
\* complete_chain never index a ring outside its size).
THEOREM QueueTypesAlways == Spec => []QueueTypeOK
<1>1. QueueInv => QueueTypeOK
  BY QueueTypes
<1> QED
  BY <1>1, QueueInvariant, PTL

\* No chain is lost, doubled or left waiting: next_chain, complete_chain, the
\* loop of BlockDevice::notify, resume and reset keep each head in one place.
THEOREM ChainsAccountedAlways == Spec => []ChainsAccounted
<1>1. QueueInv => ChainsAccounted
  BY QueueOwned
<1> QED
  BY <1>1, QueueInvariant, PTL

\* The rings implement a queue of requests: answers are published in the order
\* of submission, each at most once, wherever the wrapping indexes are.
THEOREM QueueImplemented == Spec => ImplementsQueue
<1>1. Init => Requested!Init
  <2> SUFFICES ASSUME Init PROVE Requested!Init
    OBVIOUS
  <2>1. Waiting = 0 /\ Unseen = 0 /\ parked = {} /\ free = {}
    BY ZeroDistance DEF Init, Waiting, Unseen
  <2>2. WaitingSeq = <<>> /\ AnswerSeq = <<>> /\ Held = <<>>
    BY <2>1, EmptyQueue, HeldIs DEF Held
  <2> QED
    BY <2>1, <2>2, MappedSteps
<1>2. QueueInv /\ [Next]_vars => [Requested!Next]_(Requested!vars)
  BY QueueStepsMap
<1> QED
  BY <1>1, <1>2, QueueInvariant, PTL DEF Spec, ImplementsQueue, Requested!Spec

=============================================================================
