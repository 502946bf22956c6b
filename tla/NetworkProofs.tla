--------------------------- MODULE NetworkProofs ----------------------------
(***************************************************************************)
(* For every limit on frames, bytes, buffers and reports, and every set of *)
(* sockets: the counters of both receive queues are exact, frames arrive   *)
(* in order, none waits for a buffer that is there, and the state of the   *)
(* link travels from the socket to the driver without being lost.          *)
(***************************************************************************)
EXTENDS WebSocketNetwork, OrderLemmas

-----------------------------------------------------------------------------
(* Sums.                                                                   *)

\* The running sums of a sequence of numbers.
Sums(f, s) ==
  /\ f \in [0 .. Len(s) -> Int]
  /\ f[0] = 0
  /\ \A i \in 1 .. Len(s) : f[i] = f[i - 1] + s[i]

\* Running sums are determined by the sequence.
LEMMA SumsUnique ==
  ASSUME NEW s \in Seq(Nat), NEW f, NEW g, Sums(f, s), Sums(g, s)
  PROVE  f[Len(s)] = g[Len(s)]
<1> DEFINE T == {i \in 0 .. Len(s) : f[i] = g[i]}
<1>1. Len(s) \in Nat
  OBVIOUS
<1>2. 0 \in T
  BY <1>1 DEF Sums
<1>3. ASSUME NEW i \in 0 .. Len(s) - 1, i \in T
      PROVE  i + 1 \in T
  <2>1. i + 1 \in 1 .. Len(s) /\ (i + 1) - 1 = i
    BY <1>1
  <2>2. f[i + 1] = f[i] + s[i + 1] /\ g[i + 1] = g[i] + s[i + 1]
    BY <2>1 DEF Sums
  <2> QED
    BY <1>3, <2>1, <2>2
<1> HIDE DEF T
<1>4. \A i \in 0 .. Len(s) : i \in T
  BY <1>1, <1>2, <1>3, InductionUpTo
<1> USE DEF T
<1> QED
  BY <1>1, <1>4

\* Total is the last of the running sums.
LEMMA TotalSums ==
  ASSUME NEW s \in Seq(Nat)
  PROVE  \E f : Sums(f, s) /\ Total(s) = f[Len(s)]
<1> DEFINE n == Len(s)
           step == [i \in 1 .. n |-> [x \in Int |-> x + s[i]]]
           Solves(g) == g = [i \in 0 .. n |-> IF i = 0 THEN 0 ELSE g[i - 1] + s[i]]
           sum == CHOOSE g : Solves(g)
<1>1. n \in Nat
  OBVIOUS
<1>2. step \in [1 .. n -> [Int -> Int]]
  <2>1. \A i \in 1 .. n : s[i] \in Int
    OBVIOUS
  <2> QED
    BY <2>1
<1>3. PICK f : Follows(f, n, Int, 0, step)
  <2>1. 0 \in Int
    OBVIOUS
  <2> HIDE DEF step, n
  <2> QED
    BY <1>1, <1>2, <2>1, Recursion, Zenon
<1>4. Solves(f)
  <2>1. ASSUME NEW i \in 1 .. n
        PROVE  f[i - 1] \in Int /\ f[i] = f[i - 1] + s[i]
    <3>1. f[i - 1] \in Int
      BY <1>1, <1>3 DEF Follows
    <3>2. step[i] = [x \in Int |-> x + s[i]]
      OBVIOUS
    <3>3. step[i][f[i - 1]] = f[i - 1] + s[i]
      BY <3>1, <3>2
    <3> QED
      BY <1>3, <3>1, <3>3 DEF Follows
  <2> QED
    BY <1>1, <1>3, <2>1 DEF Follows
<1>5. Solves(sum)
  <2> HIDE DEF Solves
  <2> QED
    BY <1>4, Zenon
<1> HIDE DEF sum
<1>6. sum[0] = 0 /\ \A i \in 1 .. n : sum[i] = sum[i - 1] + s[i]
  BY <1>1, <1>5
<1> DEFINE T == {i \in 0 .. n : sum[i] \in Int}
<1>7. 0 \in T
  BY <1>1, <1>6
<1>8. ASSUME NEW i \in 0 .. n - 1, i \in T
      PROVE  i + 1 \in T
  <2>1. i + 1 \in 1 .. n /\ (i + 1) - 1 = i
    BY <1>1
  <2> QED
    BY <1>6, <1>8, <2>1
<1> HIDE DEF T
<1>9. \A i \in 0 .. n : i \in T
  BY <1>1, <1>7, <1>8, InductionUpTo
<1> USE DEF T
<1>10. sum \in [0 .. n -> Int]
  BY <1>5, <1>9
<1>11. Sums(sum, s)
  BY <1>6, <1>10 DEF Sums
<1>12. Total(s) = sum[n]
  BY DEF Total, sum
<1> QED
  BY <1>11, <1>12

\* Running sums end with the total.
LEMMA TotalIs ==
  ASSUME NEW s \in Seq(Nat), NEW f, Sums(f, s)
  PROVE  Total(s) = f[Len(s)]
  BY TotalSums, SumsUnique

LEMMA TotalEmpty == Total(<<>>) = 0
<1> DEFINE f == [i \in 0 .. 0 |-> 0]
<1>1. Sums(f, <<>>)
  BY DEF Sums
<1>2. <<>> \in Seq(Nat) /\ Len(<<>>) = 0
  OBVIOUS
<1> HIDE DEF f
<1>3. Total(<<>>) = f[0]
  BY <1>1, <1>2, TotalIs
<1> QED
  BY <1>1, <1>3 DEF Sums

\* One more number.
LEMMA TotalAppend ==
  ASSUME NEW s \in Seq(Nat), NEW x \in Nat
  PROVE  Total(Append(s, x)) = Total(s) + x
<1> DEFINE n == Len(s)
           t == Append(s, x)
<1>1. PICK f : Sums(f, s) /\ Total(s) = f[n]
  BY TotalSums
<1> DEFINE g == [i \in 0 .. n + 1 |-> IF i = n + 1 THEN f[n] + x ELSE f[i]]
<1>2. n \in Nat /\ t \in Seq(Nat) /\ Len(t) = n + 1
  OBVIOUS
<1>3. f \in [0 .. n -> Int] /\ f[0] = 0 /\ f[n] \in Int
  BY <1>1, <1>2 DEF Sums
<1>4. g \in [0 .. n + 1 -> Int] /\ g[0] = 0 /\ g[n + 1] = f[n] + x
  BY <1>2, <1>3
<1>5. ASSUME NEW i \in 1 .. n + 1
      PROVE  g[i] = g[i - 1] + t[i]
  <2>1. g[i - 1] = f[i - 1]
    BY <1>2
  <2>2. CASE i = n + 1
    <3>1. t[i] = x
      BY <2>2
    <3> QED
      BY <1>2, <1>4, <2>1, <2>2, <3>1
  <2>3. CASE i # n + 1
    <3>1. i \in 1 .. n /\ g[i] = f[i] /\ t[i] = s[i]
      BY <1>2, <2>3
    <3> QED
      BY <1>1, <2>1, <3>1 DEF Sums
  <2> QED
    BY <2>2, <2>3
<1> HIDE DEF g
<1>6. Sums(g, t)
  BY <1>2, <1>4, <1>5 DEF Sums
<1> HIDE DEF t
<1>7. Total(t) = g[Len(t)]
  BY <1>2, <1>6, TotalIs
<1> QED
  BY <1>1, <1>2, <1>4, <1>7 DEF t

\* The first k numbers and the others.
LEMMA TotalSplit ==
  ASSUME NEW s \in Seq(Nat), NEW k \in 0 .. Len(s)
  PROVE  Total(s) = Total(SubSeq(s, 1, k)) + Total(SubSeq(s, k + 1, Len(s)))
<1> DEFINE n == Len(s)
           a == SubSeq(s, 1, k)
           b == SubSeq(s, k + 1, Len(s))
<1>1. PICK f : Sums(f, s) /\ Total(s) = f[n]
  BY TotalSums
<1> DEFINE g == [i \in 0 .. k |-> f[i]]
           h == [i \in 0 .. n - k |-> f[k + i] - f[k]]
<1>2. n \in Nat /\ k \in Nat /\ k <= n
  OBVIOUS
<1>3. /\ f \in [0 .. n -> Int] /\ f[0] = 0
      /\ \A i \in 1 .. n : f[i] = f[i - 1] + s[i]
      /\ \A i \in 0 .. n : f[i] \in Int
  BY <1>1 DEF Sums
<1>4. /\ a \in Seq(Nat) /\ Len(a) = k /\ \A i \in 1 .. k : a[i] = s[i]
      /\ b \in Seq(Nat) /\ Len(b) = n - k /\ \A i \in 1 .. n - k : b[i] = s[k + i]
  BY Split, Zenon
<1> HIDE DEF a, b
<1>5. Sums(g, a)
  <2>1. g \in [0 .. k -> Int] /\ g[0] = 0
    <3>1. \A i \in 0 .. k : i \in 0 .. n /\ f[i] \in Int
      BY <1>2, <1>3
    <3> QED
      BY <1>2, <1>3, <3>1
  <2>2. ASSUME NEW i \in 1 .. k PROVE g[i] = g[i - 1] + a[i]
    BY <1>2, <1>3, <1>4
  <2> QED
    BY <1>4, <2>1, <2>2 DEF Sums
<1>6. Sums(h, b)
  <2>1. h \in [0 .. n - k -> Int] /\ h[0] = 0
    BY <1>2, <1>3
  <2>2. ASSUME NEW i \in 1 .. n - k PROVE h[i] = h[i - 1] + b[i]
    <3>1. k + i \in 1 .. n /\ (k + i) - 1 = k + (i - 1) /\ b[i] = s[k + i]
      BY <1>2, <1>4
    <3>2. f[k + i] = f[k + (i - 1)] + s[k + i]
      BY <1>3, <3>1
    <3>3. h[i] = f[k + i] - f[k] /\ h[i - 1] = f[k + (i - 1)] - f[k]
      BY <1>2
    <3>4. f[k] \in Int /\ f[k + (i - 1)] \in Int /\ s[k + i] \in Int
      <4>1. k \in 0 .. n /\ k + (i - 1) \in 0 .. n
        BY <1>2
      <4>2. s[k + i] \in Nat
        BY <3>1
      <4> QED
        BY <1>3, <4>1, <4>2
    <3> QED
      BY <3>1, <3>2, <3>3, <3>4
  <2> QED
    BY <1>4, <2>1, <2>2 DEF Sums
<1>7. g[k] = f[k] /\ h[n - k] = f[n] - f[k] /\ f[k] \in Int /\ f[n] \in Int
  BY <1>2, <1>3
<1> HIDE DEF g, h
<1>8. Total(a) = f[k] /\ Total(b) = f[n] - f[k]
  BY <1>4, <1>5, <1>6, <1>7, TotalIs
<1> QED
  BY <1>1, <1>7, <1>8 DEF a, b

LEMMA TotalNatural ==
  ASSUME NEW s \in Seq(Nat)
  PROVE  Total(s) \in Nat
<1>1. PICK f : Sums(f, s) /\ Total(s) = f[Len(s)]
  BY TotalSums
<1> DEFINE T == {i \in 0 .. Len(s) : f[i] \in Nat}
<1>2. Len(s) \in Nat /\ 0 \in T
  BY <1>1 DEF Sums
<1>3. ASSUME NEW i \in 0 .. Len(s) - 1, i \in T
      PROVE  i + 1 \in T
  <2>1. i + 1 \in 1 .. Len(s) /\ (i + 1) - 1 = i /\ s[i + 1] \in Nat
    BY <1>2
  <2>2. f[i + 1] = f[i] + s[i + 1]
    BY <1>1, <2>1 DEF Sums
  <2> QED
    BY <1>3, <2>1, <2>2
<1> HIDE DEF T
<1>4. \A i \in 0 .. Len(s) : i \in T
  BY <1>2, <1>3, InductionUpTo
<1> QED
  BY <1>1, <1>2, <1>4 DEF T

-----------------------------------------------------------------------------
(* Weights of the elements of a queue.                                     *)

Weighing(S) == [S -> Nat]
Weights(w, q) == [i \in DOMAIN q |-> w[q[i]]]
Load(w, q) == Total(Weights(w, q))

LEMMA WeightsSeq ==
  ASSUME NEW S, NEW w \in Weighing(S), NEW q \in Seq(S)
  PROVE  /\ Weights(w, q) \in Seq(Nat) /\ Len(Weights(w, q)) = Len(q)
         /\ \A i \in 1 .. Len(q) : Weights(w, q)[i] = w[q[i]]
         /\ Load(w, q) \in Nat
<1>1. Len(q) \in Nat /\ DOMAIN q = 1 .. Len(q) /\ \A i \in 1 .. Len(q) : w[q[i]] \in Nat
  BY DEF Weighing
<1>2. Weights(w, q) \in [1 .. Len(q) -> Nat]
  BY <1>1 DEF Weights
<1>3. Weights(w, q) \in Seq(Nat) /\ Len(Weights(w, q)) = Len(q)
  BY <1>1, <1>2
<1> QED
  BY <1>1, <1>3, TotalNatural DEF Weights, Load

LEMMA LoadEmpty ==
  ASSUME NEW w
  PROVE  Load(w, <<>>) = 0
<1>1. Weights(w, <<>>) = <<>>
  BY DEF Weights
<1> QED
  BY <1>1, TotalEmpty DEF Load

LEMMA LoadAppend ==
  ASSUME NEW S, NEW w \in Weighing(S), NEW q \in Seq(S), NEW x \in S
  PROVE  Load(w, Append(q, x)) = Load(w, q) + w[x]
<1> DEFINE t == Append(q, x)
           u == Append(Weights(w, q), w[x])
<1>1. t \in Seq(S) /\ Len(t) = Len(q) + 1 /\ t[Len(q) + 1] = x
      /\ \A i \in 1 .. Len(q) : t[i] = q[i]
  BY AppendProperties
<1>2. /\ Weights(w, q) \in Seq(Nat) /\ Len(Weights(w, q)) = Len(q)
      /\ \A i \in 1 .. Len(q) : Weights(w, q)[i] = w[q[i]]
  BY WeightsSeq
<1>3. w[x] \in Nat /\ Len(q) \in Nat
  BY DEF Weighing
<1>4. /\ u \in Seq(Nat) /\ Len(u) = Len(q) + 1 /\ u[Len(q) + 1] = w[x]
      /\ \A i \in 1 .. Len(q) : u[i] = w[q[i]]
  BY <1>2, <1>3, AppendProperties
<1> HIDE DEF t, u
<1>5. /\ Weights(w, t) \in Seq(Nat) /\ Len(Weights(w, t)) = Len(t)
      /\ \A i \in 1 .. Len(t) : Weights(w, t)[i] = w[t[i]]
  <2>1. t \in Seq(S)
    BY <1>1
  <2> QED
    BY ONLY <2>1, w \in Weighing(S), WeightsSeq
<1>6. ASSUME NEW i \in 1 .. Len(t)
      PROVE  Weights(w, t)[i] = u[i]
  <2>1. CASE i = Len(q) + 1
    BY <1>1, <1>4, <1>5, <2>1
  <2>2. CASE i \in 1 .. Len(q)
    BY <1>1, <1>4, <1>5, <2>2
  <2> QED
    BY <1>1, <1>3, <2>1, <2>2
<1>7. Weights(w, t) = u
  BY <1>1, <1>4, <1>5, <1>6, SeqEqual
<1> QED
  BY <1>2, <1>3, <1>7, TotalAppend DEF t, u, Load

LEMMA LoadSplit ==
  ASSUME NEW S, NEW w \in Weighing(S), NEW q \in Seq(S), NEW k \in 0 .. Len(q)
  PROVE  Load(w, q) = Load(w, SubSeq(q, 1, k)) + Load(w, SubSeq(q, k + 1, Len(q)))
<1> DEFINE a == SubSeq(q, 1, k)
           b == SubSeq(q, k + 1, Len(q))
           u == Weights(w, q)
           c == SubSeq(u, 1, k)
           d == SubSeq(u, k + 1, Len(u))
<1>1. /\ a \in Seq(S) /\ Len(a) = k /\ \A i \in 1 .. k : a[i] = q[i]
      /\ b \in Seq(S) /\ Len(b) = Len(q) - k /\ \A i \in 1 .. Len(q) - k : b[i] = q[k + i]
  BY Split, Zenon
<1>2. u \in Seq(Nat) /\ Len(u) = Len(q) /\ \A i \in 1 .. Len(q) : u[i] = w[q[i]]
  BY WeightsSeq
<1>3. Len(q) \in Nat /\ k \in Nat /\ k <= Len(q)
  OBVIOUS
<1> HIDE DEF a, b, u
<1>4. /\ c \in Seq(Nat) /\ Len(c) = k /\ \A i \in 1 .. k : c[i] = u[i]
      /\ d \in Seq(Nat) /\ Len(d) = Len(u) - k /\ \A i \in 1 .. Len(u) - k : d[i] = u[k + i]
  <2>1. k \in 0 .. Len(u)
    BY <1>2
  <2> QED
    BY <1>2, <2>1, Split, Zenon
<1>5. Total(u) = Total(c) + Total(d)
  BY <1>2, TotalSplit
<1> HIDE DEF c, d
<1>6. Weights(w, a) = c
  <2>1. /\ Weights(w, a) \in Seq(Nat) /\ Len(Weights(w, a)) = Len(a)
        /\ \A i \in 1 .. Len(a) : Weights(w, a)[i] = w[a[i]]
    <3>1. a \in Seq(S)
      BY <1>1
    <3> QED
      BY ONLY <3>1, w \in Weighing(S), WeightsSeq
  <2>2. ASSUME NEW i \in 1 .. k PROVE Weights(w, a)[i] = c[i]
    <3>1. i \in 1 .. Len(q)
      BY <1>3
    <3> QED
      BY <1>1, <1>2, <1>4, <2>1, <3>1
  <2> QED
    BY <1>1, <1>4, <2>1, <2>2, SeqEqual
<1>7. Weights(w, b) = d
  <2>1. /\ Weights(w, b) \in Seq(Nat) /\ Len(Weights(w, b)) = Len(b)
        /\ \A i \in 1 .. Len(b) : Weights(w, b)[i] = w[b[i]]
    <3>1. b \in Seq(S)
      BY <1>1
    <3> QED
      BY ONLY <3>1, w \in Weighing(S), WeightsSeq
  <2>2. ASSUME NEW i \in 1 .. Len(q) - k PROVE Weights(w, b)[i] = d[i]
    <3>1. k + i \in 1 .. Len(q)
      BY <1>3
    <3> QED
      BY <1>1, <1>2, <1>4, <2>1, <3>1
  <2> QED
    BY <1>1, <1>2, <1>4, <2>1, <2>2, SeqEqual
<1> QED
  BY <1>5, <1>6, <1>7 DEF Load, a, b, u

-----------------------------------------------------------------------------
(* The queues.                                                             *)

AFrame == [n : 0 .. MaxFrames, size : 1 .. MaxFrameSize]
Event == {Report(up) : up \in BOOLEAN} \cup {Packet(f) : f \in AFrame}

SizeWeight == [f \in AFrame |-> f.size]
CountWeight == [e \in Event |-> IF IsPacket(e) THEN 1 ELSE 0]
BytesWeight == [e \in Event |-> IF IsPacket(e) THEN e.frame.size ELSE 0]

LEMMA EventFacts ==
  /\ \A e \in Event : IsPacket(e) => e.frame \in AFrame /\ e = Packet(e.frame)
  /\ \A e \in Event : ~IsPacket(e) => e.kind = "carrier" /\ e.up \in BOOLEAN
  /\ \A e \in Event : e.kind = "carrier" => ~IsPacket(e)
  /\ \A f \in AFrame : Packet(f) \in Event /\ IsPacket(Packet(f)) /\ Packet(f).frame = f
  /\ \A up \in BOOLEAN : Report(up) \in Event /\ ~IsPacket(Report(up)) /\ Report(up).up = up
<1>1. ASSUME NEW f \in AFrame
      PROVE  Packet(f) \in Event /\ IsPacket(Packet(f)) /\ Packet(f).frame = f
             /\ Packet(f).kind # "carrier"
  BY DEF Event, Packet, IsPacket
<1>2. ASSUME NEW up \in BOOLEAN
      PROVE  Report(up) \in Event /\ ~IsPacket(Report(up)) /\ Report(up).up = up
             /\ Report(up).kind = "carrier"
  BY DEF Event, Report, IsPacket
<1>3. \A e \in Event : (\E f \in AFrame : e = Packet(f)) \/ (\E up \in BOOLEAN : e = Report(up))
  BY DEF Event
<1> QED
  BY <1>1, <1>2, <1>3

LEMMA WeightTypes ==
  /\ SizeWeight \in Weighing(AFrame)
  /\ CountWeight \in Weighing(Event)
  /\ BytesWeight \in Weighing(Event)
<1>1. \A f \in AFrame : f.size \in Nat
  BY PathAssumption DEF AFrame
<1> QED
  BY <1>1, EventFacts DEF SizeWeight, CountWeight, BytesWeight, Weighing

LEMMA SizesAreLoads ==
  /\ \A q \in Seq(AFrame) : SizeOf(q) = Load(SizeWeight, q)
  /\ \A q \in Seq(Event) : PacketCount(q) = Load(CountWeight, q)
  /\ \A q \in Seq(Event) : PacketBytes(q) = Load(BytesWeight, q)
<1>1. ASSUME NEW q \in Seq(AFrame) PROVE SizeOf(q) = Load(SizeWeight, q)
  <2>1. \A i \in DOMAIN q : q[i] \in AFrame
    OBVIOUS
  <2> QED
    BY <2>1 DEF SizeOf, Load, Weights, SizeWeight
<1>2. ASSUME NEW q \in Seq(Event)
      PROVE  PacketCount(q) = Load(CountWeight, q) /\ PacketBytes(q) = Load(BytesWeight, q)
  <2>1. \A i \in DOMAIN q : q[i] \in Event
    OBVIOUS
  <2> QED
    BY <2>1 DEF PacketCount, PacketBytes, Load, Weights, CountWeight, BytesWeight
<1> QED
  BY <1>1, <1>2

\* What becomes of the counts of the boundary queue when an event is added, when
\* its first event is taken, and when it is emptied.
LEMMA QueueCounts ==
  /\ PacketCount(<<>>) = 0 /\ PacketBytes(<<>>) = 0 /\ SizeOf(<<>>) = 0
  /\ \A q \in Seq(Event), e \in Event :
       /\ PacketCount(Append(q, e)) = PacketCount(q) + (IF IsPacket(e) THEN 1 ELSE 0)
       /\ PacketBytes(Append(q, e)) = PacketBytes(q) + (IF IsPacket(e) THEN e.frame.size ELSE 0)
  /\ \A q \in Seq(Event) : q # <<>> =>
       /\ PacketCount(q) = PacketCount(Tail(q)) + (IF IsPacket(Head(q)) THEN 1 ELSE 0)
       /\ PacketBytes(q) = PacketBytes(Tail(q))
                           + (IF IsPacket(Head(q)) THEN Head(q).frame.size ELSE 0)
  /\ \A q \in Seq(Event) : PacketCount(q) \in Nat /\ PacketBytes(q) \in Nat
<1>1. <<>> \in Seq(Event) /\ <<>> \in Seq(AFrame)
  OBVIOUS
<1>2. PacketCount(<<>>) = 0 /\ PacketBytes(<<>>) = 0 /\ SizeOf(<<>>) = 0
  BY <1>1, SizesAreLoads, LoadEmpty
<1>3. ASSUME NEW q \in Seq(Event), NEW e \in Event
      PROVE  /\ PacketCount(Append(q, e)) = PacketCount(q) + (IF IsPacket(e) THEN 1 ELSE 0)
             /\ PacketBytes(Append(q, e))
                  = PacketBytes(q) + (IF IsPacket(e) THEN e.frame.size ELSE 0)
  <2>1. Append(q, e) \in Seq(Event)
    OBVIOUS
  <2>2. /\ Load(CountWeight, Append(q, e)) = Load(CountWeight, q) + CountWeight[e]
        /\ Load(BytesWeight, Append(q, e)) = Load(BytesWeight, q) + BytesWeight[e]
    BY WeightTypes, LoadAppend
  <2> QED
    BY <2>1, <2>2, SizesAreLoads DEF CountWeight, BytesWeight
<1>4. ASSUME NEW q \in Seq(Event)
      PROVE  PacketCount(q) \in Nat /\ PacketBytes(q) \in Nat
  BY WeightTypes, SizesAreLoads, WeightsSeq
<1>5. ASSUME NEW q \in Seq(Event), q # <<>>
      PROVE  /\ PacketCount(q) = PacketCount(Tail(q)) + (IF IsPacket(Head(q)) THEN 1 ELSE 0)
             /\ PacketBytes(q) = PacketBytes(Tail(q))
                                 + (IF IsPacket(Head(q)) THEN Head(q).frame.size ELSE 0)
  <2> DEFINE e == Head(q)
             one == SubSeq(q, 1, 1)
  <2>1. 1 \in 0 .. Len(q) /\ e \in Event /\ e = q[1]
    BY <1>5
  <2>2. one \in Seq(Event) /\ Len(one) = 1 /\ one[1] = e
    BY <2>1, Split
  <2>3. one = Append(<<>>, e)
    <3> DEFINE a == Append(<<>>, e)
    <3>1. a \in Seq(Event) /\ Len(a) = 1 /\ a[1] = e
      BY <2>1
    <3> HIDE DEF a, one
    <3>2. \A i \in 1 .. Len(one) : one[i] = a[i]
      BY <2>2, <3>1
    <3> QED
      BY <2>2, <3>1, <3>2, SeqEqual DEF a
  <2>4. Tail(q) = SubSeq(q, 1 + 1, Len(q)) /\ Tail(q) \in Seq(Event)
    BY <1>5, TailIsSubSeq
  <2>5. /\ Load(CountWeight, q) = Load(CountWeight, one) + Load(CountWeight, Tail(q))
        /\ Load(BytesWeight, q) = Load(BytesWeight, one) + Load(BytesWeight, Tail(q))
    BY <2>1, <2>4, WeightTypes, LoadSplit
  <2>6. /\ PacketCount(q) = PacketCount(one) + PacketCount(Tail(q))
        /\ PacketBytes(q) = PacketBytes(one) + PacketBytes(Tail(q))
    BY <2>2, <2>4, <2>5, SizesAreLoads
  <2>7. /\ PacketCount(one) = IF IsPacket(e) THEN 1 ELSE 0
        /\ PacketBytes(one) = IF IsPacket(e) THEN e.frame.size ELSE 0
    <3>1. IsPacket(e) => e.frame.size \in Nat
      BY <2>1, EventFacts, PathAssumption DEF AFrame
    <3> QED
      <4> DEFINE c == IF IsPacket(e) THEN 1 ELSE 0
                 b == IF IsPacket(e) THEN e.frame.size ELSE 0
      <4>1. c \in Nat /\ b \in Nat
        BY <3>1
      <4>2. PacketCount(one) = PacketCount(<<>>) + c /\ PacketBytes(one) = PacketBytes(<<>>) + b
        BY <1>1, <1>3, <2>1, <2>3
      <4> HIDE DEF c, b
      <4>3. PacketCount(one) = c /\ PacketBytes(one) = b
        BY <1>2, <4>1, <4>2
      <4> QED
        BY <4>3 DEF c, b
  <2>8. PacketCount(Tail(q)) \in Nat /\ PacketBytes(Tail(q)) \in Nat
        /\ PacketCount(one) \in Nat /\ PacketBytes(one) \in Nat
    BY <1>4, <2>2, <2>4
  <2> HIDE DEF e, one
  <2>9. /\ PacketCount(q) = PacketCount(Tail(q)) + PacketCount(one)
        /\ PacketBytes(q) = PacketBytes(Tail(q)) + PacketBytes(one)
    BY <2>6, <2>8
  <2> QED
    BY <2>7, <2>9 DEF e
<1> QED
  BY <1>2, <1>3, <1>4, <1>5

-----------------------------------------------------------------------------
(* drain_receive.                                                          *)

Number == 0 .. MaxFrames
Elements(s) == {s[i] : i \in DOMAIN s}
Ascending(s) == \A i, j \in DOMAIN s : i < j => s[i] < s[j]
FramesAscend(q) == \A i, j \in DOMAIN q : i < j => q[i].n < q[j].n
NumbersOf(q) == {q[i].n : i \in DOMAIN q}

LEMMA AscendingAppend ==
  ASSUME NEW s \in Seq(Number), NEW x \in Number, Ascending(s),
         \A y \in Elements(s) : y < x
  PROVE  /\ Append(s, x) \in Seq(Number)
         /\ Ascending(Append(s, x))
         /\ Elements(Append(s, x)) = Elements(s) \cup {x}
<1> DEFINE t == Append(s, x)
<1>1. /\ t \in Seq(Number) /\ Len(t) = Len(s) + 1 /\ t[Len(s) + 1] = x
      /\ \A i \in 1 .. Len(s) : t[i] = s[i]
  BY AppendProperties
<1>2. Len(s) \in Nat /\ DOMAIN s = 1 .. Len(s) /\ DOMAIN t = 1 .. Len(s) + 1
  BY <1>1
<1> HIDE DEF t
<1>3. ASSUME NEW i \in DOMAIN t, NEW j \in DOMAIN t, i < j
      PROVE  t[i] < t[j]
  <2>1. i \in 1 .. Len(s)
    BY <1>2, <1>3
  <2>2. CASE j = Len(s) + 1
    BY <1>1, <1>2, <2>1, <2>2 DEF Elements
  <2>3. CASE j \in 1 .. Len(s)
    BY <1>1, <1>2, <1>3, <2>1, <2>3 DEF Ascending
  <2> QED
    BY <1>2, <2>2, <2>3
<1>4. Elements(t) = Elements(s) \cup {x}
  <2>1. \A i \in DOMAIN t : i = Len(s) + 1 \/ i \in DOMAIN s
    BY <1>2
  <2>2. Len(s) + 1 \in DOMAIN t /\ \A i \in DOMAIN s : i \in DOMAIN t
    BY <1>2
  <2> QED
    BY <1>1, <1>2, <2>1, <2>2 DEF Elements
<1> QED
  BY <1>1, <1>3, <1>4 DEF t, Ascending

\* The loop hands frames on in their order, after those handed on before.
LEMMA HandedInOrder ==
  ASSUME NEW q \in Seq(AFrame), NEW given \in Seq(Nat), NEW k \in 0 .. Len(q),
         got \in Seq(Number), Ascending(got), FramesAscend(q),
         \A x \in Elements(got), y \in NumbersOf(q) : x < y
  PROVE  /\ Handed(q, given, k) \in Seq(Number)
         /\ Ascending(Handed(q, given, k))
         /\ Elements(Handed(q, given, k)) \subseteq Elements(got) \cup {q[i].n : i \in 1 .. k}
<1> DEFINE step == [i \in 1 .. k |-> [x \in Seq(Number) |->
                      IF q[i].size <= given[i] THEN Append(x, q[i].n) ELSE x]]
           Value(g, i) == IF i = 0 THEN got
                          ELSE IF q[i].size <= given[i] THEN Append(g[i - 1], q[i].n)
                          ELSE g[i - 1]
           Solves(g) == g = [i \in 0 .. k |-> Value(g, i)]
           f == CHOOSE g : Solves(g)
<1>1. k \in Nat /\ DOMAIN q = 1 .. Len(q) /\ Len(q) \in Nat /\ k <= Len(q)
  OBVIOUS
<1>2. \A i \in 1 .. k : q[i].n \in Number
  <2>1. \A i \in 1 .. k : q[i] \in AFrame
    BY <1>1
  <2> QED
    BY <2>1 DEF AFrame, Number
<1>3. step \in [1 .. k -> [Seq(Number) -> Seq(Number)]]
  <2>1. ASSUME NEW i \in 1 .. k, NEW x \in Seq(Number)
        PROVE  (IF q[i].size <= given[i] THEN Append(x, q[i].n) ELSE x) \in Seq(Number)
    BY <1>2, AppendProperties
  <2> QED
    BY <2>1
<1>4. PICK h : Follows(h, k, Seq(Number), got, step)
  <2> HIDE DEF step
  <2> QED
    BY <1>1, <1>3, Recursion
<1>5. Solves(h)
  <2>1. ASSUME NEW i \in 1 .. k
        PROVE  h[i] = IF q[i].size <= given[i] THEN Append(h[i - 1], q[i].n) ELSE h[i - 1]
    <3>1. h[i - 1] \in Seq(Number)
      BY <1>1, <1>4 DEF Follows
    <3>2. h[i] = step[i][h[i - 1]]
      BY <1>4 DEF Follows
    <3> QED
      BY <3>1, <3>2
  <2>2. h[0] = got /\ h = [i \in 0 .. k |-> h[i]]
    BY <1>4 DEF Follows
  <2>3. ASSUME NEW i \in 0 .. k PROVE h[i] = Value(h, i)
    <3>1. CASE i = 0
      BY <2>2, <3>1
    <3>2. CASE i \in 1 .. k
      BY <2>1, <3>2
    <3> QED
      BY <1>1, <3>1, <3>2
  <2> HIDE DEF Value
  <2> QED
    BY <2>2, <2>3
<1>6. Solves(f)
  <2> HIDE DEF Solves
  <2> QED
    BY <1>5, Zenon
<1> HIDE DEF f, step
<1>7. /\ f[0] = got
      /\ \A i \in 1 .. k :
           f[i] = IF q[i].size <= given[i] THEN Append(f[i - 1], q[i].n) ELSE f[i - 1]
  <2>1. \A i \in 0 .. k : f[i] = Value(f, i)
    <3> HIDE DEF Value
    <3> QED
      BY <1>6
  <2> QED
    BY <1>1, <2>1
<1> DEFINE Before(i) == Elements(got) \cup {q[j].n : j \in 1 .. i}
           T == {i \in 0 .. k : /\ f[i] \in Seq(Number) /\ Ascending(f[i])
                                /\ Elements(f[i]) \subseteq Before(i)}
<1>8. 0 \in T
  BY <1>1, <1>7
<1>9. ASSUME NEW i \in 0 .. k - 1, i \in T
      PROVE  i + 1 \in T
  <2> DEFINE x == q[i + 1].n
  <2>1. i + 1 \in 1 .. k /\ i + 1 \in DOMAIN q /\ (i + 1) - 1 = i /\ x \in Number
    BY <1>1, <1>2
  <2>2. f[i] \in Seq(Number) /\ Ascending(f[i]) /\ Elements(f[i]) \subseteq Before(i)
    BY <1>9
  <2>3. \A y \in Before(i) : y < x
    <3>1. ASSUME NEW j \in 1 .. i PROVE q[j].n < x
      <4>1. j \in DOMAIN q /\ j < i + 1
        BY <1>1
      <4> QED
        BY <2>1, <4>1 DEF FramesAscend
    <3>2. \A y \in Elements(got) : y < x
      BY <2>1 DEF NumbersOf
    <3> QED
      BY <3>1, <3>2
  <2>4. Before(i) \cup {x} \subseteq Before(i + 1) /\ Before(i) \subseteq Before(i + 1)
    <3>1. \A j \in 1 .. i : j \in 1 .. i + 1
      OBVIOUS
    <3>2. i + 1 \in 1 .. i + 1
      OBVIOUS
    <3> QED
      BY <3>1, <3>2
  <2>5. \A y \in Elements(f[i]) : y < x
    BY <2>2, <2>3
  <2> HIDE DEF Before, x
  <2>6. CASE q[i + 1].size <= given[i + 1]
    <3>1. f[i + 1] = Append(f[i], x)
      BY <1>7, <2>1, <2>6 DEF x
    <3>2. /\ Append(f[i], x) \in Seq(Number) /\ Ascending(Append(f[i], x))
          /\ Elements(Append(f[i], x)) = Elements(f[i]) \cup {x}
      BY <2>1, <2>2, <2>5, AscendingAppend
    <3>3. f[i + 1] \in Seq(Number) /\ Ascending(f[i + 1])
      BY <3>1, <3>2
    <3>4. Elements(f[i + 1]) \subseteq Before(i + 1)
      BY <2>2, <2>4, <3>1, <3>2
    <3>5. i + 1 \in 0 .. k
      BY <2>1
    <3> QED
      BY <3>3, <3>4, <3>5
  <2>7. CASE ~(q[i + 1].size <= given[i + 1])
    <3>1. f[i + 1] = f[i]
      BY <1>7, <2>1, <2>7
    <3> QED
      BY <2>1, <2>2, <2>4, <3>1
  <2> QED
    BY <2>6, <2>7
<1> HIDE DEF T
<1>10. \A i \in 0 .. k : i \in T
  BY <1>1, <1>8, <1>9, InductionUpTo
<1>11. k \in T
  BY <1>1, <1>10
<1>12. Handed(q, given, k) = f[k]
  BY DEF Handed, f
<1> QED
  BY <1>11, <1>12 DEF T

\* The sizes of a receive queue: when a frame is added, and when it is split.
LEMMA ReceiveSizes ==
  ASSUME NEW q \in Seq(AFrame)
  PROVE  /\ SizeOf(q) \in Nat
         /\ \A f \in AFrame : SizeOf(Append(q, f)) = SizeOf(q) + f.size
         /\ \A k \in 0 .. Len(q) :
              SizeOf(q) = SizeOf(SubSeq(q, 1, k)) + SizeOf(SubSeq(q, k + 1, Len(q)))
<1>1. SizeOf(q) \in Nat
  BY WeightTypes, SizesAreLoads, WeightsSeq
<1>2. ASSUME NEW f \in AFrame PROVE SizeOf(Append(q, f)) = SizeOf(q) + f.size
  <2>1. Append(q, f) \in Seq(AFrame) /\ SizeWeight[f] = f.size
    BY DEF SizeWeight
  <2>2. Load(SizeWeight, Append(q, f)) = Load(SizeWeight, q) + SizeWeight[f]
    BY WeightTypes, LoadAppend
  <2> QED
    BY <2>1, <2>2, SizesAreLoads
<1>3. ASSUME NEW k \in 0 .. Len(q)
      PROVE  SizeOf(q) = SizeOf(SubSeq(q, 1, k)) + SizeOf(SubSeq(q, k + 1, Len(q)))
  <2>1. SubSeq(q, 1, k) \in Seq(AFrame) /\ SubSeq(q, k + 1, Len(q)) \in Seq(AFrame)
    BY Split
  <2>2. Load(SizeWeight, q)
          = Load(SizeWeight, SubSeq(q, 1, k)) + Load(SizeWeight, SubSeq(q, k + 1, Len(q)))
    BY WeightTypes, LoadSplit
  <2> QED
    BY <2>1, <2>2, SizesAreLoads
<1> QED
  BY <1>1, <1>2, <1>3

\* After drain_receive the count of bytes is that of the frames left, frames or
\* buffers are used up, and what the guest got is in order and before what is
\* left.
LEMMA DrainedKeeps ==
  ASSUME NEW q \in Seq(AFrame), NEW given \in Seq(BufferSizes), NEW total, total = SizeOf(q),
         got \in Seq(Number), Ascending(got), FramesAscend(q),
         \A x \in Elements(got), y \in NumbersOf(q) : x < y,
         Drained(q, total, given)
  PROVE  /\ receive' \in Seq(AFrame) /\ buffers' \in Seq(BufferSizes)
         /\ receive' = <<>> \/ buffers' = <<>>
         /\ waiting' = SizeOf(receive') /\ waiting' <= total /\ Len(receive') <= Len(q)
         /\ got' \in Seq(Number) /\ Ascending(got') /\ FramesAscend(receive')
         /\ \A x \in Elements(got'), y \in NumbersOf(receive') : x < y
         /\ Elements(got') \cup NumbersOf(receive') \subseteq Elements(got) \cup NumbersOf(q)
<1>1. Len(q) \in Nat /\ Len(given) \in Nat
  OBVIOUS
<1>2. DOMAIN q = 1 .. Len(q)
  OBVIOUS
<1>3. PICK k \in Nat : k = IF Len(q) <= Len(given) THEN Len(q) ELSE Len(given)
  BY <1>1
<1> DEFINE b == SubSeq(q, k + 1, Len(q))
           c == SubSeq(given, k + 1, Len(given))
<1>4. /\ k <= Len(q) /\ k <= Len(given)
      /\ k = Len(q) \/ k = Len(given)
      /\ k \in 0 .. Len(q) /\ k \in 0 .. Len(given)
  BY ONLY <1>1, <1>3
<1>5. /\ receive' = b /\ buffers' = c
      /\ waiting' = total - SizeOf(SubSeq(q, 1, k))
      /\ got' = Handed(q, given, k)
  BY <1>3 DEF Drained, Take
<1>6. /\ b \in Seq(AFrame) /\ Len(b) = Len(q) - k
      /\ \A i \in 1 .. Len(q) - k : b[i] = q[k + i]
      /\ SubSeq(q, 1, k) \in Seq(AFrame)
  BY <1>4, Split
<1>7. c \in Seq(BufferSizes) /\ Len(c) = Len(given) - k
  BY <1>4, Split
<1>8. SizeOf(q) = SizeOf(SubSeq(q, 1, k)) + SizeOf(b)
      /\ SizeOf(q) \in Nat /\ SizeOf(SubSeq(q, 1, k)) \in Nat /\ SizeOf(b) \in Nat
  BY <1>4, <1>6, ReceiveSizes
<1> HIDE DEF b, c
<1>9. receive' = <<>> \/ buffers' = <<>>
  <2>1. Len(b) = 0 \/ Len(c) = 0
    BY <1>1, <1>4, <1>6, <1>7
  <2>2. b = <<>> \/ c = <<>>
    BY <1>6, <1>7, <2>1, EmptySeq
  <2> QED
    BY <1>5, <2>2
<1>10. waiting' = SizeOf(receive') /\ waiting' <= total /\ Len(receive') <= Len(q)
  <2>1. waiting' = SizeOf(b) /\ waiting' <= total
    BY <1>5, <1>8
  <2>2. Len(b) <= Len(q)
    <3>1. Len(b) = Len(q) - k
      BY <1>6
    <3> QED
      BY ONLY <1>1, <1>4, <3>1, k \in Nat
  <2> QED
    BY <1>5, <2>1, <2>2
<1>11. /\ Handed(q, given, k) \in Seq(Number) /\ Ascending(Handed(q, given, k))
      /\ Elements(Handed(q, given, k)) \subseteq Elements(got) \cup {q[i].n : i \in 1 .. k}
  <2>1. given \in Seq(Nat)
    BY PathAssumption, SeqMonotonic
  <2> QED
    BY <1>4, <2>1, HandedInOrder
<1>12. DOMAIN b = 1 .. Len(q) - k
  BY <1>6, LenProperties
<1>13. ASSUME NEW i \in DOMAIN b
       PROVE  k + i \in DOMAIN q /\ b[i] = q[k + i] /\ i \in Nat /\ i > 0
  <2>1. i \in 1 .. Len(q) - k
    BY <1>12
  <2>2. k + i \in 1 .. Len(q)
    BY ONLY <1>1, <1>4, <2>1, k \in Nat
  <2> QED
    BY <1>2, <1>6, <2>1, <2>2
<1>14. FramesAscend(b)
  <2> SUFFICES ASSUME NEW i \in DOMAIN b, NEW j \in DOMAIN b, i < j
               PROVE  b[i].n < b[j].n
    BY DEF FramesAscend
  <2>1. k + i < k + j
    BY <1>13
  <2> QED
    BY <1>13, <2>1 DEF FramesAscend
<1>15. NumbersOf(b) \subseteq NumbersOf(q)
  BY <1>13 DEF NumbersOf
<1>16. ASSUME NEW i \in 1 .. k PROVE i \in DOMAIN q
  <2>1. i \in 1 .. Len(q)
    BY ONLY <1>1, <1>4, k \in Nat, i \in 1 .. k
  <2> QED
    BY <1>2, <2>1
<1>17. Elements(got') \subseteq Elements(got) \cup NumbersOf(q)
  BY <1>5, <1>11, <1>16 DEF NumbersOf
<1>18. ASSUME NEW x \in Elements(got'), NEW y \in NumbersOf(b) PROVE x < y
  <2>1. CASE x \in Elements(got)
    BY <1>15, <2>1
  <2>2. CASE x \notin Elements(got)
    <3>1. PICK i \in 1 .. k : x = q[i].n
      BY <1>5, <1>11, <2>2
    <3>2. PICK j \in DOMAIN b : y = q[k + j].n
      BY <1>13 DEF NumbersOf
    <3>3. i \in DOMAIN q /\ k + j \in DOMAIN q /\ i < k + j
      <4>1. j \in Nat /\ j > 0 /\ k + j \in DOMAIN q
        BY <1>13
      <4> QED
        BY <1>16, <4>1
    <3> QED
      BY <3>1, <3>2, <3>3 DEF FramesAscend
  <2> QED
    BY <2>1, <2>2
<1> QED
  BY <1>5, <1>6, <1>7, <1>9, <1>10, <1>11, <1>14, <1>15, <1>17, <1>18

-----------------------------------------------------------------------------
(* The queue at the boundary.                                              *)

EventsAscend(q) ==
  \A i, j \in DOMAIN q :
    i < j /\ IsPacket(q[i]) /\ IsPacket(q[j]) => q[i].frame.n < q[j].frame.n
PacketNumbers(q) == {q[i].frame.n : i \in {j \in DOMAIN q : IsPacket(q[j])}}

\* The last report in a queue is r; there is none.
Told(q, r) ==
  \A i \in DOMAIN q :
    ~IsPacket(q[i]) /\ (\A j \in DOMAIN q : i < j => IsPacket(q[j])) => q[i].up = r
Quiet(q) == \A i \in DOMAIN q : IsPacket(q[i])

\* What push_packet and push_carrier do to the order of a queue and to what it
\* tells of the carrier.
LEMMA EventsAppend ==
  ASSUME NEW q \in Seq(Event), NEW e \in Event, EventsAscend(q),
         IsPacket(e) => \A x \in PacketNumbers(q) : x < e.frame.n
  PROVE  /\ Append(q, e) \in Seq(Event) /\ EventsAscend(Append(q, e))
         /\ \A x \in PacketNumbers(Append(q, e)) :
              x \in PacketNumbers(q) \/ (IsPacket(e) /\ x = e.frame.n)
         /\ ~IsPacket(e) => Told(Append(q, e), e.up) /\ ~Quiet(Append(q, e))
         /\ IsPacket(e) => \A r : Told(q, r) => Told(Append(q, e), r)
         /\ Quiet(Append(q, e)) => Quiet(q)
<1> DEFINE t == Append(q, e)
           m == Len(q) + 1
<1>1. /\ t \in Seq(Event) /\ m \in DOMAIN t /\ t[m] = e
      /\ \A i \in DOMAIN q : i \in DOMAIN t /\ t[i] = q[i] /\ i < m /\ ~(m < i)
      /\ \A i \in DOMAIN t : i = m \/ i \in DOMAIN q
      /\ ~(m < m)
  BY AppendPlaces
<1> HIDE DEF t, m
<1>2. EventsAscend(t)
  <2> SUFFICES ASSUME NEW i \in DOMAIN t, NEW j \in DOMAIN t, i < j,
                      IsPacket(t[i]), IsPacket(t[j])
               PROVE  t[i].frame.n < t[j].frame.n
    BY DEF EventsAscend
  <2>1. i \in DOMAIN q /\ t[i] = q[i]
    BY <1>1
  <2>2. CASE j = m
    BY <1>1, <2>1, <2>2 DEF PacketNumbers
  <2>3. CASE j \in DOMAIN q
    BY <1>1, <2>1, <2>3 DEF EventsAscend
  <2> QED
    BY <1>1, <2>2, <2>3
<1>3. \A x \in PacketNumbers(t) : x \in PacketNumbers(q) \/ (IsPacket(e) /\ x = e.frame.n)
  BY <1>1 DEF PacketNumbers
<1>4. ASSUME ~IsPacket(e) PROVE Told(t, e.up) /\ ~Quiet(t)
  BY <1>1, <1>4 DEF Told, Quiet
<1>5. ASSUME IsPacket(e), NEW r, Told(q, r) PROVE Told(t, r)
  BY <1>1, <1>5 DEF Told
<1>6. Quiet(t) => Quiet(q)
  BY <1>1 DEF Quiet
<1> QED
  BY <1>1, <1>2, <1>3, <1>4, <1>5, <1>6 DEF t

\* What taking the oldest event leaves.
LEMMA EventsTail ==
  ASSUME NEW q \in Seq(Event), q # <<>>, EventsAscend(q)
  PROVE  /\ Tail(q) \in Seq(Event) /\ Head(q) \in Event /\ EventsAscend(Tail(q))
         /\ PacketNumbers(Tail(q)) \subseteq PacketNumbers(q)
         /\ IsPacket(Head(q)) => /\ Head(q).frame.n \in PacketNumbers(q)
                                 /\ \A x \in PacketNumbers(Tail(q)) : Head(q).frame.n < x
         /\ \A r : Told(q, r) => Told(Tail(q), r)
         /\ \A r : Told(q, r) /\ Quiet(Tail(q)) /\ ~IsPacket(Head(q)) => Head(q).up = r
         /\ IsPacket(Head(q)) /\ Quiet(Tail(q)) => Quiet(q)
<1> DEFINE t == Tail(q)
<1>1. /\ t \in Seq(Event) /\ Head(q) \in Event /\ Head(q) = q[1] /\ 1 \in DOMAIN q
      /\ \A i \in DOMAIN t : i + 1 \in DOMAIN q /\ t[i] = q[i + 1] /\ i \in Nat /\ 1 < i + 1
      /\ \A i \in DOMAIN q : i = 1 \/ (i - 1 \in DOMAIN t /\ (i - 1) + 1 = i)
  BY TailPlaces
<1>2. \A i \in DOMAIN q : i = 1 \/ \E j \in DOMAIN t : i = j + 1 /\ t[j] = q[i]
  BY <1>1
<1> HIDE DEF t
<1>3. \A i, j \in DOMAIN t : i + 1 < j + 1 <=> i < j
  BY <1>1
<1>4. EventsAscend(t)
  BY <1>1, <1>3 DEF EventsAscend
<1>5. PacketNumbers(t) \subseteq PacketNumbers(q)
  BY <1>1 DEF PacketNumbers
<1>6. ASSUME IsPacket(Head(q))
      PROVE  /\ Head(q).frame.n \in PacketNumbers(q)
             /\ \A x \in PacketNumbers(t) : Head(q).frame.n < x
             /\ Quiet(t) => Quiet(q)
  <2>1. Head(q).frame.n \in PacketNumbers(q)
    BY <1>1, <1>6 DEF PacketNumbers
  <2>2. ASSUME NEW i \in DOMAIN t, IsPacket(t[i]) PROVE Head(q).frame.n < t[i].frame.n
    BY <1>1, <1>6, <2>2 DEF EventsAscend
  <2>3. Quiet(t) => Quiet(q)
    BY <1>1, <1>2, <1>6 DEF Quiet
  <2> QED
    BY <2>1, <2>2, <2>3 DEF PacketNumbers
<1>7. ASSUME NEW r, Told(q, r) PROVE Told(t, r)
  <2> SUFFICES ASSUME NEW i \in DOMAIN t, ~IsPacket(t[i]),
                      \A j \in DOMAIN t : i < j => IsPacket(t[j])
               PROVE  t[i].up = r
    BY DEF Told
  <2>1. ASSUME NEW j \in DOMAIN q, i + 1 < j PROVE IsPacket(q[j])
    <3>1. j # 1
      BY <1>1, <2>1
    <3>2. PICK k \in DOMAIN t : j = k + 1 /\ t[k] = q[j]
      BY <1>2, <3>1
    <3>3. i < k
      BY <1>3, <2>1, <3>2
    <3> QED
      BY <3>2, <3>3
  <2> QED
    BY <1>1, <1>7, <2>1 DEF Told
<1>8. ASSUME NEW r, Told(q, r), Quiet(t), ~IsPacket(Head(q)) PROVE Head(q).up = r
  <2>1. ASSUME NEW j \in DOMAIN q, 1 < j PROVE IsPacket(q[j])
    BY <1>2, <1>8, <2>1 DEF Quiet
  <2> QED
    BY <1>1, <1>8, <2>1 DEF Told
<1> QED
  BY <1>1, <1>4, <1>5, <1>6, <1>7, <1>8 DEF t

LEMMA FramesAppend ==
  ASSUME NEW q \in Seq(AFrame), NEW f \in AFrame, FramesAscend(q),
         \A x \in NumbersOf(q) : x < f.n
  PROVE  /\ Append(q, f) \in Seq(AFrame) /\ Len(Append(q, f)) = Len(q) + 1
         /\ FramesAscend(Append(q, f))
         /\ \A x \in NumbersOf(Append(q, f)) : x \in NumbersOf(q) \/ x = f.n
<1> DEFINE t == Append(q, f)
           m == Len(q) + 1
<1>1. /\ t \in Seq(AFrame) /\ Len(t) = m /\ m \in DOMAIN t /\ t[m] = f
      /\ \A i \in DOMAIN q : i \in DOMAIN t /\ t[i] = q[i] /\ i < m /\ ~(m < i)
      /\ \A i \in DOMAIN t : i = m \/ i \in DOMAIN q
      /\ ~(m < m)
  BY AppendPlaces
<1> HIDE DEF t, m
<1>2. ASSUME NEW i \in DOMAIN t, NEW j \in DOMAIN t, i < j PROVE t[i].n < t[j].n
  <2>1. i \in DOMAIN q /\ t[i] = q[i]
    BY <1>1, <1>2
  <2>2. CASE j = m
    BY <1>1, <2>1, <2>2 DEF NumbersOf
  <2>3. CASE j \in DOMAIN q
    BY <1>1, <1>2, <2>1, <2>3 DEF FramesAscend
  <2> QED
    BY <1>1, <2>2, <2>3
<1>3. \A x \in NumbersOf(t) : x \in NumbersOf(q) \/ x = f.n
  BY <1>1 DEF NumbersOf
<1> QED
  BY <1>1, <1>2, <1>3 DEF t, m, FramesAscend

-----------------------------------------------------------------------------
(* The inductive invariant of the path.  What NetworkPath states of each   *)
(* stage needs, besides: the numbers of all frames lie between the last    *)
(* boot and the next frame, so that a new one is after them; a driver that *)
(* is not ready has no buffers, so that none meets the frames kept for it; *)
(* and the carrier is known from the queued reports, or without any from   *)
(* the device.                                                             *)

ModeInv ==
  /\ vm \in {"halted", "running", "empty"}
  /\ phase \in {"idle", "deliver", "guest"}
  /\ phase # "idle" => vm = "running"
  /\ phase = "guest" => events = <<>>
  /\ next \in 0 .. MaxFrames /\ boot \in 0 .. next

FlagInv ==
  /\ carrier \in BOOLEAN /\ driver \in BOOLEAN /\ kick \in BOOLEAN /\ irq \in BOOLEAN
  /\ link \in BOOLEAN /\ reported \in BOOLEAN /\ lost \in BOOLEAN

BoundaryInv ==
  /\ events \in Seq(Event) /\ EventsAscend(events)
  /\ frames = PacketCount(events) /\ bytes = PacketBytes(events)
  /\ frames <= FrameLimit /\ bytes <= ByteLimit
  /\ \A x \in PacketNumbers(events) : boot <= x /\ x < next

DeviceInv ==
  /\ receive \in Seq(AFrame) /\ FramesAscend(receive)
  /\ waiting = SizeOf(receive)
  /\ Len(receive) <= FrameLimit /\ waiting <= ByteLimit
  /\ buffers \in Seq(BufferSizes)
  /\ driver /\ ~kick => receive = <<>> \/ buffers = <<>>
  /\ ~driver => buffers = <<>> /\ ~kick
  /\ \A x \in NumbersOf(receive) : boot <= x /\ x < next

OrderInv ==
  /\ got \in Seq(Number) /\ Ascending(got)
  /\ \A x \in Elements(got) : boot <= x /\ x < next
  /\ \A x \in Elements(got), y \in NumbersOf(receive) : x < y
  /\ \A x \in Elements(got), y \in PacketNumbers(events) : x < y
  /\ \A x \in NumbersOf(receive), y \in PacketNumbers(events) : x < y

CarrierInv ==
  /\ Told(events, reported)
  /\ Quiet(events) /\ ~lost => carrier = reported
  /\ driver /\ ~irq => link = carrier

PathInv == ModeInv /\ FlagInv /\ BoundaryInv /\ DeviceInv /\ OrderInv /\ CarrierInv

\* Empty queues.
LEMMA Nothing ==
  /\ \A S : <<>> \in Seq(S)
  /\ EventsAscend(<<>>) /\ PacketNumbers(<<>>) = {} /\ Quiet(<<>>) /\ \A r : Told(<<>>, r)
  /\ FramesAscend(<<>>) /\ NumbersOf(<<>>) = {} /\ Ascending(<<>>) /\ Elements(<<>>) = {}
  /\ Len(<<>>) = 0
<1>1. DOMAIN <<>> = {} /\ Len(<<>>) = 0
  OBVIOUS
<1>2. \A S : <<>> \in Seq(S)
  OBVIOUS
<1> QED
  BY <1>1, <1>2 DEF EventsAscend, PacketNumbers, Quiet, Told, FramesAscend, NumbersOf,
     Ascending, Elements

LEMMA PathInitially == PathInit => PathInv
<1> SUFFICES ASSUME PathInit PROVE PathInv
  OBVIOUS
<1>1. ModeInv /\ FlagInv
  <2>1. 0 \in 0 .. MaxFrames /\ 0 \in 0 .. 0
    BY PathAssumption
  <2>2. ModeInv
    BY <2>1 DEF PathInit, ModeInv
  <2>3. FlagInv
    BY DEF PathInit, FlagInv
  <2> QED
    BY <2>2, <2>3
<1>2. BoundaryInv
  BY PathAssumption, Nothing, QueueCounts DEF PathInit, BoundaryInv
<1>3. DeviceInv
  BY PathAssumption, Nothing, QueueCounts DEF PathInit, DeviceInv
<1>4. OrderInv
  BY Nothing DEF PathInit, OrderInv
<1>5. CarrierInv
  BY Nothing DEF PathInit, CarrierInv
<1> QED
  BY <1>1, <1>2, <1>3, <1>4, <1>5 DEF PathInv

\* A part of the invariant stays when what it speaks of does.
LEMMA PartsStay ==
  /\ BoundaryInv /\ UNCHANGED <<queueVars, next, boot>> => BoundaryInv'
  /\ DeviceInv /\ UNCHANGED <<receive, waiting, driver, buffers, kick, next, boot>>
       => DeviceInv'
  /\ OrderInv /\ UNCHANGED <<events, receive, got, next, boot>> => OrderInv'
  /\ CarrierInv /\ UNCHANGED <<events, carrier, driver, irq, link, reported, lost>>
       => CarrierInv'
  /\ FlagInv /\ UNCHANGED <<carrier, driver, kick, irq, link, reported, lost>> => FlagInv'
<1>1. BoundaryInv /\ UNCHANGED <<queueVars, next, boot>> => BoundaryInv'
  BY DEF BoundaryInv, queueVars
<1>2. DeviceInv /\ UNCHANGED <<receive, waiting, driver, buffers, kick, next, boot>>
        => DeviceInv'
  BY DEF DeviceInv
<1>3. OrderInv /\ UNCHANGED <<events, receive, got, next, boot>> => OrderInv'
  BY DEF OrderInv
<1>4. CarrierInv /\ UNCHANGED <<events, carrier, driver, irq, link, reported, lost>>
        => CarrierInv'
  BY DEF CarrierInv
<1>5. FlagInv /\ UNCHANGED <<carrier, driver, kick, irq, link, reported, lost>> => FlagInv'
  BY DEF FlagInv
<1> QED
  BY <1>1, <1>2, <1>3, <1>4, <1>5

\* Frames have natural numbers.
LEMMA NumberTypes ==
  /\ \A q \in Seq(AFrame) : NumbersOf(q) \subseteq Nat
  /\ \A q \in Seq(Event) : PacketNumbers(q) \subseteq Nat
  /\ \A s \in Seq(Number) : Elements(s) \subseteq Nat
<1>1. \A f \in AFrame : f.n \in Nat
  BY PathAssumption DEF AFrame
<1>2. ASSUME NEW q \in Seq(AFrame) PROVE NumbersOf(q) \subseteq Nat
  <2>1. \A i \in DOMAIN q : q[i] \in AFrame
    OBVIOUS
  <2> QED
    BY <1>1, <2>1 DEF NumbersOf
<1>3. ASSUME NEW q \in Seq(Event) PROVE PacketNumbers(q) \subseteq Nat
  <2>1. \A i \in DOMAIN q : q[i] \in Event
    OBVIOUS
  <2> QED
    BY <1>1, <2>1, EventFacts DEF PacketNumbers
<1>4. ASSUME NEW s \in Seq(Number) PROVE Elements(s) \subseteq Nat
  BY PathAssumption DEF Elements, Number
<1> QED
  BY <1>2, <1>3, <1>4

\* networkInput: a new frame is after every other.
LEMMA InputKeeps ==
  ASSUME PathInv, NEW size \in Nat, phase = "idle", NetworkInput(size)
  PROVE  PathInv'
<1> USE DEF PathInv
<1>1. next \in Nat /\ boot \in Nat /\ next < MaxFrames /\ next' = next + 1 /\ boot <= next
  BY PathAssumption DEF ModeInv, NetworkInput
<1>2. ModeInv'
  <2>1. next' \in 0 .. MaxFrames /\ boot \in 0 .. next'
    BY <1>1, PathAssumption
  <2> QED
    BY <2>1 DEF ModeInv, NetworkInput
<1>3. UNCHANGED <<boot, got, deviceVars, guestVars, reported, lost>>
  BY DEF NetworkInput
<1>4. FlagInv'
  BY <1>3, PartsStay DEF deviceVars, guestVars
<1>5. DeviceInv'
  <2>1. \A x \in NumbersOf(receive) : x < next + 1
    <3>1. \A x \in NumbersOf(receive) : x \in Nat /\ x < next
      BY NumberTypes DEF DeviceInv
    <3> QED
      BY <1>1, <3>1
  <2> QED
    BY <1>1, <1>3, <2>1 DEF DeviceInv, deviceVars, guestVars
<1>6. CASE Fits(size, frames, bytes)
  <2> DEFINE f == [n |-> next, size |-> size]
             e == Packet(f)
  <2>1. f \in AFrame /\ f.n = next /\ f.size = size
    BY <1>1, <1>6, PathAssumption DEF Fits, AFrame
  <2>2. e \in Event /\ IsPacket(e) /\ e.frame = f
    BY <2>1, EventFacts
  <2>3. events' = Append(events, e) /\ frames' = frames + 1 /\ bytes' = bytes + size
    BY <1>6 DEF NetworkInput
  <2> HIDE DEF f, e
  <2>4. /\ events \in Seq(Event) /\ EventsAscend(events)
        /\ \A x \in PacketNumbers(events) : x < e.frame.n
    BY <2>1, <2>2 DEF BoundaryInv
  <2>5. /\ events' \in Seq(Event) /\ EventsAscend(events')
        /\ \A x \in PacketNumbers(events') : x \in PacketNumbers(events) \/ x = next
        /\ \A r : Told(events, r) => Told(events', r)
        /\ Quiet(events') => Quiet(events)
    BY <2>1, <2>2, <2>3, <2>4, EventsAppend
  <2>6. frames' = PacketCount(events') /\ bytes' = PacketBytes(events')
    <3>1. PacketCount(events') = PacketCount(events) + 1
      BY <2>2, <2>3, <2>4, QueueCounts
    <3>2. PacketBytes(events') = PacketBytes(events) + size
      BY <2>1, <2>2, <2>3, <2>4, QueueCounts
    <3> QED
      BY <2>3, <3>1, <3>2 DEF BoundaryInv
  <2>7. frames' <= FrameLimit /\ bytes' <= ByteLimit
    <3>1. frames \in Nat
      BY QueueCounts DEF BoundaryInv
    <3> QED
      BY <1>6, <2>3, <3>1, PathAssumption DEF Fits
  <2>8. \A x \in PacketNumbers(events') : boot' <= x /\ x < next'
    <3>1. \A x \in PacketNumbers(events) : x \in Nat /\ boot <= x /\ x < next
      BY NumberTypes DEF BoundaryInv
    <3> QED
      BY <1>1, <1>3, <2>5, <3>1
  <2>9. BoundaryInv'
    BY <2>5, <2>6, <2>7, <2>8 DEF BoundaryInv
  <2>10. OrderInv'
    <3>1. receive' = receive /\ got' = got /\ boot' = boot
      BY <1>3 DEF deviceVars
    <3>2. \A x \in Elements(got) : x \in Nat /\ boot <= x /\ x < next
      BY NumberTypes DEF OrderInv
    <3>3. \A x \in NumbersOf(receive) : x < next
      BY DEF DeviceInv
    <3>4. /\ \A x \in Elements(got), y \in PacketNumbers(events') : x < y
          /\ \A x \in NumbersOf(receive), y \in PacketNumbers(events') : x < y
      BY <2>5, <3>2, <3>3 DEF OrderInv
    <3>5. \A x \in Elements(got) : boot <= x /\ x < next + 1
      BY <1>1, <3>2
    <3> QED
      BY <1>1, <3>1, <3>4, <3>5 DEF OrderInv
  <2>11. CarrierInv'
    BY <1>3, <2>5 DEF CarrierInv, deviceVars, guestVars
  <2> QED
    BY <1>2, <1>4, <1>5, <2>9, <2>10, <2>11
<1>7. CASE ~Fits(size, frames, bytes)
  <2>1. UNCHANGED queueVars
    BY <1>7 DEF NetworkInput
  <2>2. BoundaryInv'
    <3>1. \A x \in PacketNumbers(events) : x \in Nat /\ boot <= x /\ x < next
      BY NumberTypes DEF BoundaryInv
    <3>2. \A x \in PacketNumbers(events) : boot <= x /\ x < next + 1
      BY <1>1, <3>1
    <3> QED
      BY <1>1, <1>3, <2>1, <3>2 DEF BoundaryInv, queueVars
  <2>3. OrderInv'
    <3>1. \A x \in Elements(got) : x \in Nat /\ boot <= x /\ x < next
      BY NumberTypes DEF OrderInv
    <3>2. \A x \in Elements(got) : boot <= x /\ x < next + 1
      BY <1>1, <3>1
    <3> QED
      BY <1>1, <1>3, <2>1, <3>2 DEF OrderInv, queueVars, deviceVars
  <2>4. CarrierInv'
    BY <1>3, <2>1, PartsStay DEF queueVars, deviceVars, guestVars
  <2> QED
    BY <1>2, <1>4, <1>5, <2>2, <2>3, <2>4
<1> QED
  BY <1>6, <1>7

\* networkCarrier: what is queued last is what was reported last.
LEMMA ReportKeeps ==
  ASSUME PathInv, NEW up \in BOOLEAN, phase = "idle", NetworkCarrier(up)
  PROVE  PathInv'
<1> USE DEF PathInv
<1> DEFINE e == Report(up)
<1>1. e \in Event /\ ~IsPacket(e) /\ e.up = up
  BY EventFacts
<1>2. /\ events' = Append(events, e) /\ reported' = up /\ lost' = FALSE
      /\ UNCHANGED <<vm, phase, frames, bytes, deviceVars, guestVars, next, got, boot>>
  BY DEF NetworkCarrier
<1> HIDE DEF e
<1>3. events \in Seq(Event) /\ EventsAscend(events)
  BY DEF BoundaryInv
<1>4. /\ events' \in Seq(Event) /\ EventsAscend(events')
      /\ \A x \in PacketNumbers(events') : x \in PacketNumbers(events)
      /\ Told(events', up) /\ ~Quiet(events')
  BY <1>1, <1>2, <1>3, EventsAppend
<1>5. ModeInv'
  BY <1>2 DEF ModeInv
<1>6. FlagInv'
  BY <1>2 DEF FlagInv, deviceVars, guestVars
<1>7. BoundaryInv'
  <2>1. PacketCount(events') = PacketCount(events) + 0
        /\ PacketBytes(events') = PacketBytes(events) + 0
    BY <1>1, <1>2, <1>3, QueueCounts
  <2>2. PacketCount(events) \in Nat /\ PacketBytes(events) \in Nat
    BY <1>3, QueueCounts
  <2>3. PacketCount(events') = PacketCount(events) /\ PacketBytes(events') = PacketBytes(events)
    BY <2>1, <2>2
  <2> QED
    BY <1>2, <1>4, <2>3 DEF BoundaryInv
<1>8. DeviceInv'
  BY <1>2, PartsStay DEF deviceVars, guestVars
<1>9. OrderInv'
  BY <1>2, <1>4 DEF OrderInv, deviceVars
<1>10. CarrierInv'
  BY <1>2, <1>4 DEF CarrierInv, deviceVars, guestVars
<1> QED
  BY <1>5, <1>6, <1>7, <1>8, <1>9, <1>10

\* The lifecycle empties both queues.
LEMMA ClearedKeeps ==
  ASSUME PathInv, ClearQueue, UNCHANGED <<next, reported>>
  PROVE  /\ events' = <<>> /\ BoundaryInv' /\ lost' \in BOOLEAN
         /\ Told(events', reported') /\ (~lost' => carrier = reported)
<1> USE DEF PathInv
<1>1. events' = <<>> /\ frames' = 0 /\ bytes' = 0
  BY DEF ClearQueue
<1>2. BoundaryInv'
  BY <1>1, Nothing, QueueCounts, PathAssumption DEF BoundaryInv
<1>3. lost' \in BOOLEAN
  BY DEF ClearQueue
<1>4. ASSUME ~lost' PROVE carrier = reported
  <2>1. ~lost /\ \A i \in DOMAIN events : events[i].kind # "carrier"
    BY <1>4 DEF ClearQueue
  <2>2. \A i \in DOMAIN events : events[i] \in Event
    BY DEF BoundaryInv
  <2>3. Quiet(events)
    BY <2>1, <2>2, EventFacts DEF Quiet
  <2> QED
    BY <2>1, <2>3 DEF CarrierInv
<1> QED
  BY <1>1, <1>2, <1>3, <1>4, Nothing

LEMMA ResetKeeps ==
  ASSUME PathInv, ResetDevice
  PROVE  /\ DeviceInv' /\ receive' = <<>> /\ UNCHANGED <<carrier, link>>
         /\ driver' = FALSE /\ kick' = FALSE /\ irq' = FALSE
<1>1. /\ receive' = <<>> /\ waiting' = 0 /\ driver' = FALSE /\ buffers' = <<>>
      /\ irq' = FALSE /\ kick' = FALSE /\ UNCHANGED <<carrier, link>>
  BY DEF ResetDevice
<1>2. DeviceInv'
  BY <1>1, Nothing, QueueCounts, PathAssumption DEF DeviceInv
<1> QED
  BY <1>1, <1>2

LEMMA HaltKeeps ==
  ASSUME PathInv, Halt
  PROVE  PathInv'
<1> USE DEF PathInv
<1>1. ClearQueue /\ ResetDevice /\ UNCHANGED <<next, got, boot, reported>>
      /\ vm' = "halted" /\ phase' = "idle"
  BY DEF Halt
<1>2. /\ events' = <<>> /\ BoundaryInv' /\ lost' \in BOOLEAN
      /\ Told(events', reported') /\ (~lost' => carrier = reported)
  BY <1>1, ClearedKeeps
<1>3. /\ DeviceInv' /\ receive' = <<>> /\ UNCHANGED <<carrier, link>>
      /\ driver' = FALSE /\ kick' = FALSE /\ irq' = FALSE
  BY <1>1, ResetKeeps
<1>4. ModeInv'
  BY <1>1 DEF ModeInv
<1>5. FlagInv'
  BY <1>1, <1>2, <1>3 DEF FlagInv
<1>6. OrderInv'
  BY <1>1, <1>2, <1>3, Nothing DEF OrderInv
<1>7. CarrierInv'
  BY <1>1, <1>2, <1>3 DEF CarrierInv
<1> QED
  BY <1>2, <1>3, <1>4, <1>5, <1>6, <1>7

LEMMA RestartKeeps ==
  ASSUME PathInv, Restart
  PROVE  PathInv'
<1> USE DEF PathInv
<1>1. ClearQueue /\ ResetDevice /\ UNCHANGED <<next, reported>>
      /\ vm' = "running" /\ phase' = "idle" /\ got' = <<>> /\ boot' = next
  BY DEF Restart
<1>2. /\ events' = <<>> /\ BoundaryInv' /\ lost' \in BOOLEAN
      /\ Told(events', reported') /\ (~lost' => carrier = reported)
  BY <1>1, ClearedKeeps
<1>3. /\ DeviceInv' /\ receive' = <<>> /\ UNCHANGED <<carrier, link>>
      /\ driver' = FALSE /\ kick' = FALSE /\ irq' = FALSE
  BY <1>1, ResetKeeps
<1>4. ModeInv'
  <2>1. next \in 0 .. next
    BY PathAssumption DEF ModeInv
  <2> QED
    BY <1>1, <2>1 DEF ModeInv
<1>5. FlagInv'
  BY <1>1, <1>2, <1>3 DEF FlagInv
<1>6. OrderInv'
  BY <1>1, <1>2, <1>3, Nothing DEF OrderInv
<1>7. CarrierInv'
  BY <1>1, <1>2, <1>3 DEF CarrierInv
<1> QED
  BY <1>2, <1>3, <1>4, <1>5, <1>6, <1>7

LEMMA DestroyKeeps ==
  ASSUME PathInv, Destroy
  PROVE  PathInv'
<1> USE DEF PathInv
<1>1. /\ ClearQueue /\ vm' = "empty" /\ phase = "idle"
      /\ UNCHANGED <<phase, deviceVars, guestVars, next, got, boot, reported>>
  BY DEF Destroy
<1>2. /\ events' = <<>> /\ BoundaryInv' /\ lost' \in BOOLEAN
      /\ Told(events', reported') /\ (~lost' => carrier = reported)
  BY <1>1, ClearedKeeps
<1>3. ModeInv'
  BY <1>1 DEF ModeInv
<1>4. FlagInv'
  BY <1>1, <1>2 DEF FlagInv, deviceVars, guestVars
<1>5. DeviceInv'
  BY <1>1, PartsStay DEF deviceVars, guestVars
<1>6. OrderInv'
  BY <1>1, <1>2, Nothing DEF OrderInv, deviceVars
<1>7. CarrierInv'
  BY <1>1, <1>2 DEF CarrierInv, deviceVars, guestVars
<1> QED
  BY <1>2, <1>3, <1>4, <1>5, <1>6, <1>7

\* A CPU run takes a report: the interrupt says that the carrier changed.
LEMMA CarrierDelivered ==
  ASSUME PathInv, DeliverCarrier
  PROVE  PathInv'
<1> USE DEF PathInv
<1> DEFINE e == Head(events)
<1>1. /\ phase = "deliver" /\ events # <<>> /\ e.kind = "carrier" /\ events' = Tail(events)
      /\ carrier' = e.up /\ irq' = (irq \/ carrier # e.up)
      /\ UNCHANGED <<vm, phase, frames, bytes, receive, waiting, driver, buffers,
                     guestVars, historyVars>>
  BY DEF DeliverCarrier
<1>2. events \in Seq(Event) /\ EventsAscend(events) /\ Told(events, reported)
  BY DEF BoundaryInv, CarrierInv
<1>3. /\ events' \in Seq(Event) /\ e \in Event /\ EventsAscend(events')
      /\ PacketNumbers(events') \subseteq PacketNumbers(events)
      /\ Told(events', reported)
      /\ Quiet(events') /\ ~IsPacket(e) => e.up = reported
  BY <1>1, <1>2, EventsTail
<1>4. ~IsPacket(e) /\ e.up \in BOOLEAN
  BY <1>1, <1>3, EventFacts
<1>5. frames = PacketCount(events') /\ bytes = PacketBytes(events')
  <2>1. /\ PacketCount(events) = PacketCount(events') + 0
        /\ PacketBytes(events) = PacketBytes(events') + 0
    BY <1>1, <1>2, <1>4, QueueCounts
  <2>2. PacketCount(events') \in Nat /\ PacketBytes(events') \in Nat
    BY <1>3, QueueCounts
  <2> QED
    BY <2>1, <2>2 DEF BoundaryInv
<1> HIDE DEF e
<1>6. ModeInv'
  BY <1>1 DEF ModeInv, historyVars
<1>7. FlagInv'
  BY <1>1, <1>4 DEF FlagInv, guestVars, historyVars
<1>8. BoundaryInv'
  BY <1>1, <1>3, <1>5 DEF BoundaryInv, historyVars
<1>9. DeviceInv'
  BY <1>1, PartsStay DEF guestVars, historyVars
<1>10. OrderInv'
  BY <1>1, <1>3 DEF OrderInv, historyVars
<1>11. CarrierInv'
  <2>1. reported' = reported /\ driver' = driver /\ link' = link
    BY <1>1 DEF guestVars, historyVars
  <2>2. Quiet(events') => carrier' = reported'
    BY <1>1, <1>3, <1>4, <2>1
  <2>3. ASSUME driver', ~irq' PROVE link' = carrier'
    <3>1. irq' = (irq \/ carrier # e.up)
      BY <1>1
    <3>2. ~irq /\ carrier = e.up
      BY <2>3, <3>1, Zenon
    <3>3. link = carrier
      BY <2>1, <2>3, <3>2 DEF CarrierInv
    <3> QED
      BY <1>1, <2>1, <3>2, <3>3
  <2> QED
    BY <1>3, <2>1, <2>2, <2>3 DEF CarrierInv
<1> QED
  BY <1>6, <1>7, <1>8, <1>9, <1>10, <1>11

\* A CPU run takes a frame: dropped, kept, or handed on with those before it.
LEMMA PacketDelivered ==
  ASSUME PathInv, DeliverPacket
  PROVE  PathInv'
<1> USE DEF PathInv
<1> DEFINE e == Head(events)
           f == Head(events).frame
           q == Append(receive, f)
<1>1. /\ phase = "deliver" /\ events # <<>> /\ IsPacket(e) /\ events' = Tail(events)
      /\ frames' = frames - 1 /\ bytes' = bytes - f.size
      /\ UNCHANGED <<vm, phase, carrier, driver, irq, guestVars, next, boot, reported, lost>>
  BY DEF DeliverPacket, IsPacket
<1>2. \/ ~Fits(f.size, Len(receive), waiting) /\ UNCHANGED <<receive, waiting, buffers, got>>
      \/ /\ Fits(f.size, Len(receive), waiting) /\ ~driver
         /\ receive' = q /\ waiting' = waiting + f.size /\ UNCHANGED <<buffers, got>>
      \/ /\ Fits(f.size, Len(receive), waiting) /\ driver
         /\ Drained(q, waiting + f.size, buffers)
  BY DEF DeliverPacket
<1>3. events \in Seq(Event) /\ EventsAscend(events) /\ Told(events, reported)
  BY DEF BoundaryInv, CarrierInv
<1>4. /\ events' \in Seq(Event) /\ e \in Event /\ EventsAscend(events')
      /\ PacketNumbers(events') \subseteq PacketNumbers(events)
      /\ f.n \in PacketNumbers(events) /\ \A x \in PacketNumbers(events') : f.n < x
      /\ Told(events', reported)
      /\ Quiet(events') => Quiet(events)
  BY <1>1, <1>3, EventsTail
<1>5. f \in AFrame /\ f.size \in Nat
  <2>1. f \in AFrame
    BY <1>1, <1>4, EventFacts
  <2> QED
    BY <2>1, PathAssumption DEF AFrame
<1>6. /\ PacketCount(events) = PacketCount(events') + 1
      /\ PacketBytes(events) = PacketBytes(events') + f.size
      /\ PacketCount(events') \in Nat /\ PacketBytes(events') \in Nat
  BY <1>1, <1>3, <1>4, QueueCounts
<1> HIDE DEF e, f
<1>7. ModeInv'
  BY <1>1 DEF ModeInv
<1>8. BoundaryInv'
  <2>1. /\ frames' = PacketCount(events') /\ bytes' = PacketBytes(events')
        /\ frames' <= FrameLimit /\ bytes' <= ByteLimit
    BY <1>1, <1>5, <1>6, PathAssumption DEF BoundaryInv
  <2> QED
    BY <1>1, <1>4, <2>1 DEF BoundaryInv
<1>9. CarrierInv'
  BY <1>1, <1>4 DEF CarrierInv, guestVars
<1>10. FlagInv'
  BY <1>1, PartsStay DEF guestVars
<1>11. /\ receive \in Seq(AFrame) /\ waiting \in Nat /\ Len(receive) \in Nat
       /\ q \in Seq(AFrame) /\ Len(q) = Len(receive) + 1 /\ FramesAscend(q)
       /\ \A x \in NumbersOf(q) : x \in NumbersOf(receive) \/ x = f.n
       /\ SizeOf(q) = waiting + f.size
  <2>1. receive \in Seq(AFrame) /\ FramesAscend(receive) /\ waiting = SizeOf(receive)
    BY DEF DeviceInv
  <2>2. \A x \in NumbersOf(receive) : x < f.n
    BY <1>4 DEF OrderInv
  <2> QED
    BY <1>5, <2>1, <2>2, FramesAppend, ReceiveSizes
<1>12. boot <= f.n /\ f.n < next
  BY <1>4 DEF BoundaryInv
<1>13. /\ \A x \in NumbersOf(q) : boot <= x /\ x < next
       /\ \A x \in NumbersOf(q), y \in PacketNumbers(events') : x < y
       /\ \A x \in Elements(got), y \in NumbersOf(q) : x < y
  BY <1>4, <1>11, <1>12 DEF DeviceInv, OrderInv
<1>14. ASSUME Fits(f.size, Len(receive), waiting)
       PROVE  Len(q) <= FrameLimit /\ waiting + f.size <= ByteLimit
  BY <1>11, <1>14, PathAssumption DEF Fits
<1> HIDE DEF q
<1>15. CASE UNCHANGED <<receive, waiting, buffers, got>>
  <2>1. DeviceInv'
    BY <1>1, <1>15, PartsStay DEF guestVars
  <2>2. OrderInv'
    BY <1>1, <1>4, <1>15 DEF OrderInv
  <2> QED
    BY <1>7, <1>8, <1>9, <1>10, <2>1, <2>2
<1>16. CASE /\ Fits(f.size, Len(receive), waiting) /\ ~driver
            /\ receive' = q /\ waiting' = waiting + f.size /\ UNCHANGED <<buffers, got>>
  <2>1. DeviceInv'
    BY <1>1, <1>11, <1>13, <1>14, <1>16 DEF DeviceInv, guestVars
  <2>2. OrderInv'
    BY <1>1, <1>4, <1>13, <1>16 DEF OrderInv
  <2> QED
    BY <1>7, <1>8, <1>9, <1>10, <2>1, <2>2
<1>17. CASE /\ Fits(f.size, Len(receive), waiting) /\ driver
            /\ Drained(q, waiting + f.size, buffers)
  <2>1. got \in Seq(Number) /\ Ascending(got) /\ buffers \in Seq(BufferSizes)
    BY DEF OrderInv, DeviceInv
  <2>2. /\ receive' \in Seq(AFrame) /\ buffers' \in Seq(BufferSizes)
        /\ receive' = <<>> \/ buffers' = <<>>
        /\ waiting' = SizeOf(receive') /\ waiting' <= waiting + f.size
        /\ Len(receive') <= Len(q)
        /\ got' \in Seq(Number) /\ Ascending(got') /\ FramesAscend(receive')
        /\ \A x \in Elements(got'), y \in NumbersOf(receive') : x < y
        /\ Elements(got') \cup NumbersOf(receive') \subseteq Elements(got) \cup NumbersOf(q)
    BY <1>11, <1>13, <1>17, <2>1, DrainedKeeps
  <2>3. /\ \A x \in Elements(got) \cup NumbersOf(q) : boot <= x /\ x < next
        /\ \A x \in Elements(got) \cup NumbersOf(q), y \in PacketNumbers(events') : x < y
    BY <1>4, <1>13 DEF OrderInv
  <2>4. Len(receive') <= FrameLimit /\ waiting' <= ByteLimit
    <3>1. Len(receive') \in Nat /\ waiting' \in Nat /\ Len(q) \in Nat
      BY <1>11, <2>2, ReceiveSizes, LenProperties
    <3> QED
      BY <1>5, <1>11, <1>14, <1>17, <2>2, <3>1, PathAssumption
  <2>5. DeviceInv'
    BY <1>1, <1>17, <2>2, <2>3, <2>4 DEF DeviceInv, guestVars
  <2>6. OrderInv'
    BY <1>1, <2>2, <2>3 DEF OrderInv
  <2> QED
    BY <1>7, <1>8, <1>9, <1>10, <2>5, <2>6
<1> QED
  BY <1>2, <1>15, <1>16, <1>17 DEF q

\* The steps that move no frame and no report.
LEMMA PhaseKeeps ==
  ASSUME PathInv, StartRun \/ DeliverDone \/ GuestYield
  PROVE  PathInv'
<1> USE DEF PathInv
<1>1. UNCHANGED <<vm, queueVars, deviceVars, guestVars, historyVars>>
  BY DEF StartRun, DeliverDone, GuestYield
<1>2. ModeInv'
  BY <1>1 DEF ModeInv, StartRun, DeliverDone, GuestYield, queueVars, historyVars
<1>3. BoundaryInv' /\ DeviceInv' /\ OrderInv' /\ CarrierInv' /\ FlagInv'
  BY <1>1, PartsStay DEF queueVars, deviceVars, guestVars, historyVars
<1> QED
  BY <1>2, <1>3

LEMMA GuestKeeps ==
  ASSUME PathInv,
         \/ GuestProbe \/ GuestInterrupt \/ GuestResetsDevice
         \/ \E room \in BufferSizes : GuestAddBuffer(room)
  PROVE  PathInv'
<1> USE DEF PathInv
<1>1. CASE GuestProbe
  <2>1. /\ ~driver /\ driver' = TRUE /\ link' = carrier
        /\ UNCHANGED <<vm, phase, queueVars, receive, waiting, carrier, buffers, irq, kick,
                       historyVars>>
    BY <1>1 DEF GuestProbe
  <2>2. ModeInv' /\ BoundaryInv' /\ OrderInv'
    BY <2>1, PartsStay DEF ModeInv, queueVars, historyVars
  <2>3. FlagInv'
    BY <2>1 DEF FlagInv, historyVars
  <2>4. DeviceInv'
    BY <2>1 DEF DeviceInv, historyVars
  <2>5. CarrierInv'
    BY <2>1 DEF CarrierInv, queueVars, historyVars
  <2> QED
    BY <2>2, <2>3, <2>4, <2>5
<1>2. CASE GuestInterrupt
  <2>1. /\ irq' = FALSE /\ link' = carrier
        /\ UNCHANGED <<vm, phase, queueVars, receive, waiting, carrier, driver, buffers, kick,
                       historyVars>>
    BY <1>2 DEF GuestInterrupt
  <2>2. ModeInv' /\ BoundaryInv' /\ OrderInv' /\ DeviceInv'
    BY <2>1, PartsStay DEF ModeInv, queueVars, historyVars
  <2>3. FlagInv'
    BY <2>1 DEF FlagInv, historyVars
  <2>4. CarrierInv'
    BY <2>1 DEF CarrierInv, queueVars, historyVars
  <2> QED
    BY <2>2, <2>3, <2>4
<1>3. CASE GuestResetsDevice
  <2>1. ResetDevice /\ UNCHANGED <<vm, phase, queueVars, historyVars>>
    BY <1>3 DEF GuestResetsDevice
  <2>2. /\ DeviceInv' /\ receive' = <<>> /\ UNCHANGED <<carrier, link>>
        /\ driver' = FALSE /\ kick' = FALSE /\ irq' = FALSE
    BY <2>1, ResetKeeps
  <2>3. ModeInv' /\ BoundaryInv'
    BY <2>1, PartsStay DEF ModeInv, queueVars, historyVars
  <2>4. FlagInv'
    BY <2>1, <2>2 DEF FlagInv, historyVars
  <2>5. OrderInv'
    BY <2>1, <2>2, Nothing DEF OrderInv, queueVars, historyVars
  <2>6. CarrierInv'
    BY <2>1, <2>2 DEF CarrierInv, queueVars, historyVars
  <2> QED
    BY <2>2, <2>3, <2>4, <2>5, <2>6
<1>4. ASSUME NEW room \in BufferSizes, GuestAddBuffer(room) PROVE PathInv'
  <2>1. /\ driver /\ buffers' = Append(buffers, room) /\ kick' = TRUE
        /\ UNCHANGED <<vm, phase, queueVars, receive, waiting, carrier, driver, irq, link,
                       historyVars>>
    BY <1>4 DEF GuestAddBuffer
  <2>2. ModeInv' /\ BoundaryInv' /\ OrderInv' /\ CarrierInv'
    BY <2>1, PartsStay DEF ModeInv, queueVars, historyVars
  <2>3. FlagInv'
    BY <2>1 DEF FlagInv, historyVars
  <2>4. buffers' \in Seq(BufferSizes)
    BY <2>1 DEF DeviceInv
  <2>5. DeviceInv'
    BY <2>1, <2>4 DEF DeviceInv, historyVars
  <2> QED
    BY <2>2, <2>3, <2>5
<1> QED
  BY <1>1, <1>2, <1>3, <1>4

LEMMA NotifyKeeps ==
  ASSUME PathInv, GuestNotify
  PROVE  PathInv'
<1> USE DEF PathInv
<1>1. /\ driver /\ kick' = FALSE /\ Drained(receive, waiting, buffers)
      /\ UNCHANGED <<vm, phase, queueVars, carrier, driver, irq, link, next, boot, reported,
                     lost>>
  BY DEF GuestNotify
<1>2. /\ got \in Seq(Number) /\ Ascending(got) /\ buffers \in Seq(BufferSizes)
      /\ receive \in Seq(AFrame) /\ FramesAscend(receive) /\ waiting = SizeOf(receive)
      /\ \A x \in Elements(got), y \in NumbersOf(receive) : x < y
  BY DEF OrderInv, DeviceInv
<1>3. /\ receive' \in Seq(AFrame) /\ buffers' \in Seq(BufferSizes)
      /\ receive' = <<>> \/ buffers' = <<>>
      /\ waiting' = SizeOf(receive') /\ waiting' <= waiting /\ Len(receive') <= Len(receive)
      /\ got' \in Seq(Number) /\ Ascending(got') /\ FramesAscend(receive')
      /\ \A x \in Elements(got'), y \in NumbersOf(receive') : x < y
      /\ Elements(got') \cup NumbersOf(receive') \subseteq Elements(got) \cup NumbersOf(receive)
  BY <1>1, <1>2, DrainedKeeps
<1>4. ModeInv' /\ BoundaryInv' /\ CarrierInv'
  BY <1>1, PartsStay DEF ModeInv, queueVars
<1>5. FlagInv'
  BY <1>1 DEF FlagInv
<1>6. Len(receive') <= FrameLimit /\ waiting' <= ByteLimit
  <2>1. /\ Len(receive') \in Nat /\ waiting' \in Nat /\ Len(receive) \in Nat /\ waiting \in Nat
        /\ Len(receive) <= FrameLimit /\ waiting <= ByteLimit
    BY <1>2, <1>3, ReceiveSizes, LenProperties DEF DeviceInv
  <2> QED
    BY <1>3, <2>1, PathAssumption
<1>7. /\ \A x \in Elements(got) \cup NumbersOf(receive) : boot <= x /\ x < next
      /\ \A x \in Elements(got) \cup NumbersOf(receive), y \in PacketNumbers(events) : x < y
  BY DEF OrderInv, DeviceInv
<1>8. DeviceInv'
  BY <1>1, <1>3, <1>6, <1>7 DEF DeviceInv
<1>9. OrderInv'
  BY <1>1, <1>3, <1>7 DEF OrderInv, queueVars
<1> QED
  BY <1>4, <1>5, <1>8, <1>9

LEMMA PathInductive == PathInv /\ [PathNext]_pathVars => PathInv'
<1> SUFFICES ASSUME PathInv, [PathNext]_pathVars PROVE PathInv'
  OBVIOUS
<1>1. CASE MachineStep
  <2>1. CASE StartRun \/ DeliverDone \/ GuestYield
    BY <2>1, PhaseKeeps
  <2>2. CASE \/ GuestProbe \/ GuestInterrupt \/ GuestResetsDevice
             \/ \E room \in BufferSizes : GuestAddBuffer(room)
    BY <2>2, GuestKeeps
  <2>3. CASE GuestPoweroff \/ HostHalt \/ ColdReset
    BY <2>3, HaltKeeps DEF GuestPoweroff, HostHalt, ColdReset
  <2>4. CASE GuestReboot \/ HostReset \/ Boot
    BY <2>4, RestartKeeps DEF GuestReboot, HostReset, Boot
  <2> QED
    BY <1>1, <2>1, <2>2, <2>3, <2>4, CarrierDelivered, PacketDelivered, NotifyKeeps,
       DestroyKeeps DEF MachineStep
<1>2. ASSUME NEW size \in 0 .. MaxFrameSize + 1, phase = "idle", NetworkInput(size)
      PROVE  PathInv'
  BY <1>2, InputKeeps
<1>3. ASSUME NEW up \in BOOLEAN, phase = "idle", NetworkCarrier(up)
      PROVE  PathInv'
  BY <1>3, ReportKeeps
<1>4. CASE UNCHANGED pathVars
  <2>1. UNCHANGED <<vm, phase, queueVars, deviceVars, guestVars, historyVars>>
    BY <1>4 DEF pathVars
  <2>2. ModeInv'
    BY <2>1 DEF PathInv, ModeInv, queueVars, historyVars
  <2> QED
    BY <2>1, <2>2, PartsStay DEF PathInv, queueVars, deviceVars, guestVars, historyVars
<1> QED
  BY <1>1, <1>2, <1>3, <1>4 DEF PathNext

-----------------------------------------------------------------------------
(* The client.  Its steps are steps of the path with some page, so that    *)
(* what holds of the path for every page holds here.                       *)

LEMMA ClientIsAPage == [Next]_vars => [PathNext]_pathVars
<1> SUFFICES ASSUME [Next]_vars PROVE [PathNext]_pathVars
  OBVIOUS
<1>1. TRUE \in BOOLEAN /\ FALSE \in BOOLEAN
  OBVIOUS
<1>2. \A up \in BOOLEAN : phase = "idle" /\ NetworkCarrier(up) => PathNext
  BY DEF PathNext
<1>3. CASE MachineStep /\ UNCHANGED clientVars
  BY <1>3 DEF PathNext
<1>4. CASE Attach \/ Close
  BY <1>1, <1>2, <1>4 DEF Attach, Close, Task
<1>5. CASE Connect \/ ReconnectTimer
  BY <1>5 DEF Connect, ReconnectTimer
<1>6. ASSUME NEW s \in Sockets, SocketEvent(s) PROVE [PathNext]_pathVars
  <2>1. CASE OnFrame(s)
    <3>1. PICK size \in 1 .. MaxFrameSize : phase = "idle" /\ NetworkInput(size)
      BY <2>1 DEF OnFrame, Task
    <3>2. size \in 0 .. MaxFrameSize + 1
      BY PathAssumption
    <3> QED
      BY <3>1, <3>2 DEF PathNext
  <2>2. CASE OnOpen(s)
    BY <1>1, <1>2, <2>2 DEF OnOpen, Task
  <2>3. CASE OnBadMessage(s)
    BY <1>1, <1>2, <2>3 DEF OnBadMessage, Task
  <2>4. CASE OnError(s)
    BY <1>1, <1>2, <2>4 DEF OnError, Task
  <2>5. CASE OnClose(s)
    BY <1>1, <1>2, <2>5 DEF OnClose, Task
  <2> QED
    BY <1>6, <2>1, <2>2, <2>3, <2>4, <2>5 DEF SocketEvent
<1>7. CASE UNCHANGED vars
  BY <1>7 DEF vars
<1> QED
  BY <1>3, <1>4, <1>5, <1>6, <1>7 DEF Next

ReadyStates == {"connecting", "open", "closing", "failed", "closed"}
ClientInv ==
  /\ socket \in Sockets \cup {None}
  /\ ready \in [Sockets -> ReadyStates]
  /\ attached \in BOOLEAN /\ stopped \in BOOLEAN /\ timer \in BOOLEAN
  /\ ~attached => stopped
  /\ UpWhileOpen /\ KeepsTrying

\* A destroyed machine stays destroyed; the machine reports nothing by itself.
LEMMA MachineSilent ==
  /\ ModeInv /\ [PathNext]_pathVars => (Alive' => Alive)
  /\ MachineStep => reported' = reported
  /\ \A up : NetworkCarrier(up) => reported' = up /\ Alive /\ Alive'
  /\ \A size : NetworkInput(size) => reported' = reported /\ vm' = vm
<1>1. MachineStep => reported' = reported
  <2>1. Halt \/ Restart => reported' = reported
    BY DEF Halt, Restart
  <2> QED
    BY <2>1 DEF MachineStep, StartRun, DeliverCarrier, DeliverPacket, DeliverDone, GuestProbe,
       GuestNotify, GuestInterrupt, GuestResetsDevice, GuestAddBuffer, GuestYield,
       GuestPoweroff, GuestReboot, HostHalt, HostReset, Boot, ColdReset, Destroy, historyVars
<1>2. ASSUME ModeInv, MachineStep, Alive' PROVE Alive
  <2>1. Halt \/ Restart \/ Destroy \/ vm' = vm
    BY <1>2 DEF MachineStep, StartRun, DeliverCarrier, DeliverPacket, DeliverDone, GuestProbe,
       GuestNotify, GuestInterrupt, GuestResetsDevice, GuestAddBuffer, GuestYield,
       GuestPoweroff, GuestReboot, HostHalt, HostReset, Boot, ColdReset
  <2>2. CASE vm' = vm
    BY <1>2, <2>2 DEF Alive
  <2>3. CASE Destroy
    BY <2>3 DEF Destroy, Alive
  <2>4. ASSUME GuestPoweroff \/ GuestReboot \/ HostHalt \/ HostReset \/ Boot \/ ColdReset
        PROVE  Alive
    BY <1>2, <2>4 DEF ModeInv, Alive, GuestPoweroff, GuestReboot, HostHalt, HostReset, Boot,
       ColdReset
  <2>5. \/ GuestPoweroff \/ GuestReboot \/ HostHalt \/ HostReset \/ Boot \/ ColdReset
        \/ Destroy \/ vm' = vm
    BY <1>2 DEF MachineStep, StartRun, DeliverCarrier, DeliverPacket, DeliverDone, GuestProbe,
       GuestNotify, GuestInterrupt, GuestResetsDevice, GuestAddBuffer, GuestYield
  <2> QED
    BY <2>2, <2>3, <2>4, <2>5
<1>3. \A up : NetworkCarrier(up) => reported' = up /\ vm' = vm /\ Alive /\ Alive'
  BY DEF NetworkCarrier, Alive
<1>4. \A size : NetworkInput(size) => reported' = reported /\ vm' = vm
  BY DEF NetworkInput
<1>5. UNCHANGED pathVars => vm' = vm
  BY DEF pathVars
<1>6. vm' = vm => (Alive' => Alive)
  BY DEF Alive
<1> QED
  BY <1>1, <1>2, <1>3, <1>4, <1>5, <1>6 DEF PathNext

LEMMA ClientInitially == Init => ClientInv
  BY SocketAssumption DEF Init, PathInit, ClientInv, ReadyStates, UpWhileOpen, KeepsTrying, Alive

\* A step that leaves the client and the report alone.
LEMMA ClientStays ==
  ASSUME ClientInv, UNCHANGED clientVars, reported' = reported, Alive' => Alive
  PROVE  ClientInv'
  BY DEF ClientInv, clientVars, UpWhileOpen, KeepsTrying

\* The steps of openSocket: a client that opens a socket had none.
LEMMA OpenKeeps ==
  ASSUME ClientInv, socket = None, ~stopped', stopped' \in BOOLEAN,
         attached, UNCHANGED attached,
         NEW set \in BOOLEAN, ~set, OpenSocket(set), reported' = reported, Alive' => Alive
  PROVE  ClientInv'
<1>1. CASE NotOpened
  BY <1>1 DEF NotOpened, ClientInv, UpWhileOpen, KeepsTrying
<1>2. ASSUME NEW s \in Sockets, Opened(s, set) PROVE ClientInv'
  <2>1. /\ socket' = s /\ timer' = set /\ ready[s] = "closed"
        /\ ready' = [ready EXCEPT ![s] = "connecting"]
    BY <1>2 DEF Opened
  <2>2. ready' \in [Sockets -> ReadyStates] /\ ready'[s] = "connecting"
        /\ \A t \in Sockets \ {s} : ready'[t] = ready[t]
    BY <2>1 DEF ClientInv, ReadyStates
  <2>3. socket' \in Sockets /\ socket' # None
    BY <2>1, SocketAssumption
  <2>4. UpWhileOpen'
    BY <2>1, <2>2, <2>3 DEF ClientInv, UpWhileOpen
  <2>5. KeepsTrying'
    <3>1. ASSUME Alive', NEW t \in Sockets \ {socket'}
          PROVE  ready'[t] \notin {"connecting", "open"}
      <4>1. t \in Sockets \ {socket} /\ t # s
        BY <2>1, SocketAssumption
      <4> QED
        BY <2>2, <3>1, <4>1 DEF ClientInv, KeepsTrying
    <3>2. ~timer'
      BY <2>1
    <3> QED
      BY <2>3, <3>1, <3>2 DEF KeepsTrying
  <2> QED
    BY <2>1, <2>2, <2>3, <2>4, <2>5 DEF ClientInv
<1> QED
  BY <1>1, <1>2 DEF OpenSocket

\* An event that sets the state of socket s: of the current one together with
\* the report that goes with it, of another one to a state without connection.
LEMMA SocketKeeps ==
  ASSUME ClientInv, NEW s \in Sockets, NEW state \in ReadyStates,
         ready' = [ready EXCEPT ![s] = state], Alive' => Alive,
         UNCHANGED <<attached, socket, stopped, timer>>,
         socket # s => reported' = reported /\ (Alive' => state \notin {"connecting", "open"}),
         socket = s => (Alive' => (reported' <=> state = "open"))
  PROVE  ClientInv'
<1>1. /\ ready' \in [Sockets -> ReadyStates] /\ ready'[s] = state
      /\ \A t \in Sockets \ {s} : ready'[t] = ready[t]
  BY DEF ClientInv
<1>2. UpWhileOpen'
  <2> SUFFICES ASSUME Alive' PROVE (reported <=> socket # None /\ ready[socket] = "open")'
    BY DEF UpWhileOpen
  <2>1. CASE socket = s
    <3>1. socket' = s /\ s # None
      BY <2>1, SocketAssumption
    <3> QED
      BY <1>1, <2>1, <3>1
  <2>2. CASE socket # s
    <3>1. socket # None => ready'[socket] = ready[socket]
      BY <1>1, <2>2 DEF ClientInv
    <3> QED
      BY <2>2, <3>1 DEF ClientInv, UpWhileOpen
  <2> QED
    BY <2>1, <2>2
<1>3. KeepsTrying'
  <2>1. ASSUME Alive', NEW t \in Sockets \ {socket}
        PROVE  ready'[t] \notin {"connecting", "open"}
    BY <1>1, <2>1 DEF ClientInv, KeepsTrying
  <2> QED
    BY <2>1 DEF ClientInv, KeepsTrying
<1> QED
  BY <1>1, <1>2, <1>3 DEF ClientInv

\* close(), by each of its ends.
LEMMA CloseKeeps ==
  ASSUME ClientInv, Close, Alive' => Alive
  PROVE  ClientInv'
<1>1. stopped' = TRUE /\ timer' = FALSE /\ socket' = None /\ UNCHANGED attached
  BY DEF Close
<1>2. /\ Closing(socket) \in [Sockets -> ReadyStates]
      /\ \A t \in Sockets \ {socket} : Closing(socket)[t] = ready[t]
      /\ socket # None => Closing(socket)[socket] \notin {"connecting", "open"}
  <2>1. CASE socket # None /\ ready[socket] \in {"connecting", "open"}
    BY <2>1 DEF ClientInv, Closing, ReadyStates
  <2>2. CASE ~(socket # None /\ ready[socket] \in {"connecting", "open"})
    BY <2>2 DEF ClientInv, Closing
  <2> QED
    BY <2>1, <2>2
<1>3. CASE ~Alive
  <2>1. ready' \in [Sockets -> ReadyStates]
    BY <1>2 DEF Close, ClientInv
  <2> QED
    BY <1>1, <1>3, <2>1 DEF ClientInv, UpWhileOpen, KeepsTrying
<1>4. CASE ready' = Closing(socket) /\ ~reported'
  <2>1. ASSUME NEW t \in Sockets, Alive PROVE ready'[t] \notin {"connecting", "open"}
    BY <1>2, <1>4, <2>1, SocketAssumption DEF ClientInv, KeepsTrying
  <2> QED
    BY <1>1, <1>2, <1>4, <2>1 DEF ClientInv, UpWhileOpen, KeepsTrying
<1>5. ASSUME Alive PROVE ready' = Closing(socket) /\ ~reported'
  <2>1. CASE attached
    BY <1>5, <2>1, MachineSilent DEF Close
  <2>2. CASE ~attached
    <3>1. ready' = Closing(socket) /\ reported' = reported
      BY <2>2 DEF Close, pathVars, historyVars
    <3>2. ~reported
      BY <1>5, <2>2 DEF ClientInv, UpWhileOpen, KeepsTrying
    <3> QED
      BY <3>1, <3>2
  <2> QED
    BY <2>1, <2>2
<1> QED
  BY <1>3, <1>4, <1>5

LEMMA ClosedKeeps ==
  ASSUME ClientInv, NEW s \in Sockets, OnClose(s), Alive' => Alive
  PROVE  ClientInv'
<1>1. ready' = [ready EXCEPT ![s] = "closed"] /\ UNCHANGED <<attached, stopped>>
  BY DEF OnClose
<1>2. CASE socket # s
  <2>1. UNCHANGED <<pathVars, socket, timer>>
    BY <1>2 DEF OnClose
  <2>2. reported' = reported
    BY <2>1 DEF pathVars, historyVars
  <2>3. "closed" \in ReadyStates
    BY DEF ReadyStates
  <2> QED
    BY <1>1, <1>2, <2>1, <2>2, <2>3, SocketKeeps
<1>3. CASE socket = s
  <2>1. socket' = None /\ socket # None /\ ~timer /\ ~stopped
    BY <1>3, SocketAssumption DEF OnClose, ClientInv, KeepsTrying
  <2>2. /\ ready' \in [Sockets -> ReadyStates] /\ ready'[s] = "closed"
        /\ \A t \in Sockets \ {s} : ready'[t] = ready[t]
    BY <1>1 DEF ClientInv, ReadyStates
  <2>3. \A t \in Sockets : Alive => ready'[t] \notin {"connecting", "open"}
    BY <1>3, <2>2 DEF ClientInv, KeepsTrying
  <2>4. timer' \in BOOLEAN
    BY <2>1, <1>3 DEF OnClose, ScheduleReconnect, ClientInv
  <2>5. Alive => timer' = TRUE /\ ~reported'
    BY <1>3, <2>1, MachineSilent DEF OnClose, ScheduleReconnect
  <2> QED
    BY <1>1, <2>1, <2>2, <2>3, <2>4, <2>5 DEF ClientInv, UpWhileOpen, KeepsTrying
<1> QED
  BY <1>2, <1>3

LEMMA ClientInductive == ModeInv /\ ClientInv /\ [Next]_vars => ClientInv'
<1> SUFFICES ASSUME ModeInv, ClientInv, [Next]_vars PROVE ClientInv'
  OBVIOUS
<1>1. Alive' => Alive
  BY ClientIsAPage, MachineSilent
<1>2. UNCHANGED pathVars => reported' = reported /\ vm' = vm
  BY DEF pathVars, historyVars
<1>3. CASE MachineStep /\ UNCHANGED clientVars
  BY <1>1, <1>3, MachineSilent, ClientStays
<1>4. CASE UNCHANGED vars
  BY <1>1, <1>2, <1>4, ClientStays DEF vars
<1>5. CASE Attach
  <2>1. /\ ~attached /\ attached' = TRUE /\ UNCHANGED <<socket, ready, stopped, timer>>
        /\ NetworkCarrier(FALSE) \/ ~Alive
    BY <1>5 DEF Attach
  <2>2. stopped /\ socket = None
    BY <2>1 DEF ClientInv, KeepsTrying
  <2>3. Alive => ~reported'
    BY <2>1, MachineSilent
  <2> QED
    BY <1>1, <2>1, <2>2, <2>3 DEF ClientInv, UpWhileOpen, KeepsTrying
<1>6. CASE Connect
  <2>1. /\ attached /\ socket = None /\ stopped /\ stopped' = FALSE /\ OpenSocket(timer)
        /\ UNCHANGED <<pathVars, attached>>
    BY <1>6 DEF Connect
  <2>2. ~timer /\ timer \in BOOLEAN
    BY <2>1 DEF ClientInv, KeepsTrying
  <2> QED
    BY <1>1, <1>2, <2>1, <2>2, OpenKeeps
<1>7. CASE Close
  BY <1>1, <1>7, CloseKeeps
<1>8. CASE ReconnectTimer
  <2>1. /\ timer /\ UNCHANGED <<pathVars, attached, stopped>>
        /\ ~stopped => OpenSocket(FALSE)
    BY <1>8 DEF ReconnectTimer
  <2>2. ~stopped /\ socket = None /\ attached
    BY <2>1 DEF ClientInv, KeepsTrying
  <2>3. stopped' \in BOOLEAN /\ ~stopped'
    BY <2>1, <2>2 DEF ClientInv
  <2> QED
    BY <1>1, <1>2, <2>1, <2>2, <2>3, OpenKeeps
<1>9. ASSUME NEW s \in Sockets, SocketEvent(s) PROVE ClientInv'
  <2>1. {"open", "closing", "failed"} \subseteq ReadyStates
    BY DEF ReadyStates
  <2>2. Hears(s) <=> socket = s
    BY SocketAssumption DEF Hears, ClientInv, KeepsTrying
  <2>3. CASE OnOpen(s)
    <3>1. /\ ready[s] = "connecting" /\ ready' = [ready EXCEPT ![s] = "open"]
          /\ UNCHANGED <<attached, socket, stopped, timer>>
          /\ socket = s => NetworkCarrier(TRUE) \/ ~Alive
          /\ socket # s => UNCHANGED pathVars
      BY <2>2, <2>3 DEF OnOpen
    <3>2. socket # s => ~Alive'
      BY <1>1, <3>1 DEF ClientInv, KeepsTrying
    <3>3. socket = s => (Alive' => reported' = TRUE)
      BY <1>1, <3>1, MachineSilent
    <3>4. socket # s => reported' = reported
      BY <1>2, <3>1
    <3> QED
      BY <1>1, <2>1, <3>1, <3>2, <3>3, <3>4, SocketKeeps
  <2>4. CASE OnFrame(s)
    <3>1. reported' = reported /\ UNCHANGED clientVars
      BY <2>4, MachineSilent DEF OnFrame
    <3> QED
      BY <1>1, <3>1, ClientStays
  <2>5. CASE OnBadMessage(s)
    <3>1. /\ socket = s /\ UNCHANGED <<attached, socket, stopped, timer>>
          /\ \/ NetworkCarrier(FALSE) /\ ready' = [ready EXCEPT ![s] = "closing"]
             \/ ~Alive /\ UNCHANGED <<pathVars, ready>>
      BY <2>2, <2>5 DEF OnBadMessage
    <3>2. CASE NetworkCarrier(FALSE) /\ ready' = [ready EXCEPT ![s] = "closing"]
      <4>1. reported' = FALSE
        BY <3>2, MachineSilent
      <4> QED
        BY <1>1, <2>1, <3>1, <3>2, <4>1, SocketKeeps
    <3>3. CASE UNCHANGED <<pathVars, ready>>
      BY <1>1, <1>2, <3>1, <3>3, ClientStays DEF clientVars
    <3> QED
      BY <3>1, <3>2, <3>3
  <2>6. CASE OnError(s)
    <3>1. /\ ready' = [ready EXCEPT ![s] = "failed"]
          /\ UNCHANGED <<attached, socket, stopped, timer>>
          /\ socket = s => NetworkCarrier(FALSE) \/ ~Alive
          /\ socket # s => UNCHANGED pathVars
      BY <2>2, <2>6 DEF OnError
    <3>2. socket = s => (Alive' => reported' = FALSE)
      BY <1>1, <3>1, MachineSilent
    <3>3. socket # s => reported' = reported
      BY <1>2, <3>1
    <3> QED
      BY <1>1, <2>1, <3>1, <3>2, <3>3, SocketKeeps
  <2>7. CASE OnClose(s)
    BY <1>1, <2>7, ClosedKeeps
  <2> QED
    BY <1>9, <2>3, <2>4, <2>5, <2>6, <2>7 DEF SocketEvent
<1> QED
  BY <1>3, <1>4, <1>5, <1>6, <1>7, <1>8, <1>9 DEF Next

-----------------------------------------------------------------------------
(* Theorems.                                                               *)

LEMMA ClientTypes == PathInv /\ ClientInv => ClientTypeOK
<1> SUFFICES ASSUME PathInv, ClientInv PROVE ClientTypeOK
  OBVIOUS
<1>1. \A i \in DOMAIN events : events[i] \in Event
  BY DEF PathInv, BoundaryInv
<1>2. PathTypeOK
  BY <1>1 DEF PathInv, ModeInv, FlagInv, DeviceInv, PathTypeOK, Event, AFrame
<1> QED
  BY <1>2 DEF ClientInv, ClientTypeOK, ReadyStates

LEMMA PathOrdered == PathInv => FramesOrdered
<1> SUFFICES ASSUME PathInv PROVE FramesOrdered
  OBVIOUS
<1>1. /\ Received = Elements(got) /\ Waiting = NumbersOf(receive)
      /\ Queued = PacketNumbers(events)
  BY DEF Received, Waiting, Queued, Elements, NumbersOf, PacketNumbers
<1>2. Elements(got) \subseteq Nat /\ NumbersOf(receive) \subseteq Nat
      /\ PacketNumbers(events) \subseteq Nat /\ boot \in Nat
  BY NumberTypes DEF PathInv, OrderInv, DeviceInv, BoundaryInv, ModeInv
<1>3. Ascending(got) /\ FramesAscend(receive) /\ EventsAscend(events)
  BY DEF PathInv, OrderInv, DeviceInv, BoundaryInv
<1>4. \A x \in Elements(got) \cup NumbersOf(receive) \cup PacketNumbers(events) : boot <= x
  BY DEF PathInv, OrderInv, DeviceInv, BoundaryInv
<1>5. \A x \in Elements(got) \cup NumbersOf(receive) \cup PacketNumbers(events) : x >= boot
  BY <1>2, <1>4
<1>6. /\ \A x \in Elements(got), y \in NumbersOf(receive) \cup PacketNumbers(events) : x < y
      /\ \A x \in NumbersOf(receive), y \in PacketNumbers(events) : x < y
  BY DEF PathInv, OrderInv
<1> QED
  BY <1>1, <1>3, <1>5, <1>6 DEF FramesOrdered, Ascending, FramesAscend, EventsAscend

\* The invariant holds of the path with any page: frames of any size, reports
\* in any order.
THEOREM PathInvariant == PathSpec => []PathInv
  BY PathInitially, PathInductive, PTL DEF PathSpec

\* The WebSocket client is such a page: every behaviour of the client with a
\* machine is one of the path.
THEOREM ClientImplementsPage == Spec => PathSpec
<1>1. Init => PathInit
  BY DEF Init
<1> QED
  BY <1>1, ClientIsAPage, PTL DEF Spec, PathSpec

\* Sockets, client, both queues, device and driver keep their invariants
\* together: what the path needs of a page the client gives it.
THEOREM NetworkInvariant == Spec => [](PathInv /\ ClientInv)
<1>1. PathInv => ModeInv
  BY DEF PathInv
<1> QED
  BY <1>1, PathInvariant, ClientImplementsPage, ClientInitially, ClientInductive, PTL DEF Spec

\* Every field of the queues, the device and the client has its type.
THEOREM NetworkTypes == Spec => []ClientTypeOK
  BY NetworkInvariant, ClientTypes, PTL

\* FramesKept, for every limit: the counters of both queues are exact, the
\* limits hold, and no frame waits for a buffer that is there.
THEOREM FramesKeptAlways == Spec => []FramesKept
<1>1. PathInv => FramesKept
  BY DEF PathInv, BoundaryInv, DeviceInv, FramesKept, Accounted, NoFrameWaits
<1> QED
  BY <1>1, NetworkInvariant, PTL

\* FramesOrdered: frames reach the guest in the order of networkInput, none
\* twice, none from before the boot.
THEOREM FramesOrderedAlways == Spec => []FramesOrdered
  BY NetworkInvariant, PathOrdered, PTL

\* LinkTruthful: the client's report, the device's carrier and the driver's
\* link each follow the stage before.
THEOREM LinkTruthfulAlways == Spec => []LinkTruthful
<1>1. PathInv => CarrierFollows
  BY Nothing DEF PathInv, ModeInv, CarrierInv, CarrierFollows
<1>2. ClientInv => UpWhileOpen
  BY DEF ClientInv
<1> QED
  BY <1>1, <1>2, NetworkInvariant, PTL DEF LinkTruthful

\* KeepsTrying: a client that was not closed has a socket or an attempt
\* scheduled, never both, and no other connection.
THEOREM KeepsTryingAlways == Spec => []KeepsTrying
<1>1. ClientInv => KeepsTrying
  BY DEF ClientInv
<1> QED
  BY <1>1, NetworkInvariant, PTL

=============================================================================
