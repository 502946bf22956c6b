------------------------- MODULE BlockServiceProofs -------------------------
(***************************************************************************)
(* Proofs about reads of an HTTP disk, for disks, caches, prefetch lists   *)
(* and bounds of every size.                                               *)
(*                                                                         *)
(* First the store by itself (HttpBlockStore): its invariants and its      *)
(* refinement of SectorDisk.  Then the service around it (BlockService):   *)
(* it implements the store's specification, every fetch the store waits    *)
(* for is heard, no reader is stranded, and nothing answered is            *)
(* remembered.                                                             *)
(***************************************************************************)
EXTENDS BlockService, OrderLemmas, SequenceTheorems

-----------------------------------------------------------------------------
(* Geometry.                                                               *)

\* A sector lies in a block of the disk, at its offset in that block.
LEMMA SectorPlace ==
  ASSUME NEW s \in Sectors
  PROVE  /\ BlockOf(s) \in Blocks
         /\ (BlockOf(s) * BlockSectors) + (s % BlockSectors) = s
<1>1. BlockCount \in Nat \ {0} /\ BlockSectors \in Nat \ {0}
  BY StoreAssumption
<1>2. Capacity \in Nat /\ s \in Nat /\ s < BlockCount * BlockSectors
  BY <1>1 DEF Sectors, Capacity
<1>3. /\ s \div BlockSectors \in Nat
      /\ s % BlockSectors \in 0 .. BlockSectors - 1
      /\ s = BlockSectors * (s \div BlockSectors) + (s % BlockSectors)
  BY <1>1, <1>2, DivMod
<1>4. s \div BlockSectors < BlockCount
  BY <1>1, <1>2, <1>3, QuotientBound
<1>5. BlockSectors * (s \div BlockSectors) = (s \div BlockSectors) * BlockSectors
  BY <1>1, <1>3
<1> QED
  BY <1>1, <1>3, <1>4, <1>5 DEF BlockOf, Blocks

\* The sectors of a valid range are sectors of the disk.
LEMMA SpanInDisk ==
  ASSUME NEW first \in Nat, NEW n \in Nat, InRange(first, n)
  PROVE  Span(first, n) \subseteq Sectors
<1>1. Capacity \in Nat
  BY StoreAssumption DEF Capacity
<1> QED
  BY <1>1 DEF InRange, Span, Sectors

\* The blocks are finitely many numbers, and so is every set of them.
LEMMA BlocksFinite ==
  /\ Blocks \subseteq Nat
  /\ IsFiniteSet(Blocks)
  /\ \A S \in SUBSET Blocks : IsFiniteSet(S) /\ Cardinality(S) \in Nat
<1>1. Blocks \subseteq Nat
  BY StoreAssumption DEF Blocks
<1>2. IsFiniteSet(Blocks)
  BY StoreAssumption, FS_Interval DEF Blocks
<1> QED
  BY <1>1, <1>2, FS_Subset, FS_CardinalityType

-----------------------------------------------------------------------------
(* The LRU order.  Ranks are meaningful if the resident blocks that are    *)
(* not being used had distinct ranks before.                               *)

Ranked(S, T) ==
  /\ S \subseteq Blocks
  /\ age \in [Blocks -> Nat]
  /\ \A b, c \in S \ T : age[b] = age[c] => b = c

\* UsedBefore is a strict total order.
LEMMA UsedBeforeOrder ==
  ASSUME NEW S, NEW T, Ranked(S, T)
  PROVE  /\ \A b \in S : ~UsedBefore(b, b, T)
         /\ \A b, c \in S : b # c => UsedBefore(b, c, T) \/ UsedBefore(c, b, T)
         /\ \A b, c, d \in S :
              UsedBefore(b, c, T) /\ UsedBefore(c, d, T) => UsedBefore(b, d, T)
<1>1. \A b \in S : b \in Nat /\ age[b] \in Nat
  BY BlocksFinite DEF Ranked
<1>2. \A b, c \in S \ T : age[b] = age[c] => b = c
  BY DEF Ranked
<1>3. \A b \in S : ~UsedBefore(b, b, T)
  BY <1>1 DEF UsedBefore
<1>4. ASSUME NEW b \in S, NEW c \in S, b # c
      PROVE  UsedBefore(b, c, T) \/ UsedBefore(c, b, T)
  BY <1>1, <1>2, <1>4 DEF UsedBefore
<1>5. ASSUME NEW b \in S, NEW c \in S, NEW d \in S,
             UsedBefore(b, c, T), UsedBefore(c, d, T)
      PROVE  UsedBefore(b, d, T)
  BY <1>1, <1>5 DEF UsedBefore
<1> QED
  BY <1>3, <1>4, <1>5

\* AgesAfter is a numbering that follows that order.
LEMMA RanksFollowUse ==
  ASSUME NEW S, NEW T, Ranked(S, T)
  PROVE  /\ AgesAfter(S, T) \in [Blocks -> Nat]
         /\ \A b, c \in S :
              UsedBefore(b, c, T) => AgesAfter(S, T)[b] < AgesAfter(S, T)[c]
         /\ \A b, c \in S : AgesAfter(S, T)[b] = AgesAfter(S, T)[c] => b = c
<1> DEFINE L(b) == {c \in S : UsedBefore(c, b, T)}
<1>0. S \subseteq Blocks
  BY DEF Ranked
<1>1. \A b : L(b) \in SUBSET S /\ IsFiniteSet(L(b)) /\ Cardinality(L(b)) \in Nat
  BY <1>0, BlocksFinite
<1>2. AgesAfter(S, T) = [b \in Blocks |-> IF b \in S THEN Cardinality(L(b)) ELSE 0]
  BY DEF AgesAfter
<1>3. \A b \in S : AgesAfter(S, T)[b] = Cardinality(L(b))
  BY <1>0, <1>2
<1>4. AgesAfter(S, T) \in [Blocks -> Nat]
  BY <1>1, <1>2
<1>5. ASSUME NEW b \in S, NEW c \in S, UsedBefore(b, c, T)
      PROVE  Cardinality(L(b)) < Cardinality(L(c))
  <2>1. L(b) \subseteq L(c)
    BY <1>5, UsedBeforeOrder
  <2>2. b \in L(c) /\ b \notin L(b)
    BY <1>5, UsedBeforeOrder
  <2>3. L(b) # L(c)
    BY <2>2
  <2> HIDE DEF L
  <2>4. /\ Cardinality(L(b)) <= Cardinality(L(c))
        /\ Cardinality(L(c)) = Cardinality(L(b)) => L(c) = L(b)
    BY <1>1, <2>1, FS_Subset
  <2> QED
    BY <1>1, <2>3, <2>4
<1>6. \A b, c \in S :
        UsedBefore(b, c, T) => AgesAfter(S, T)[b] < AgesAfter(S, T)[c]
  BY <1>3, <1>5
<1>7. ASSUME NEW b \in S, NEW c \in S, AgesAfter(S, T)[b] = AgesAfter(S, T)[c]
      PROVE  b = c
  <2>1. AgesAfter(S, T)[b] \in Nat /\ AgesAfter(S, T)[c] \in Nat
    BY <1>0, <1>4
  <2> QED
    BY <2>1, <1>6, <1>7, UsedBeforeOrder
<1> QED
  BY <1>4, <1>6, <1>7

\* trim_cache finds a block, and nothing was used before it.
LEMMA OldestExists ==
  ASSUME NEW S, S # {}, NEW ages, \A b \in S : ages[b] \in Nat
  PROVE  /\ Oldest(S, ages) \in S
         /\ \A c \in S : ages[Oldest(S, ages)] <= ages[c]
<1>1. PICK x \in {ages[b] : b \in S} : \A y \in {ages[b] : b \in S} : x <= y
  BY LeastNatural
<1>2. \E b \in S : \A c \in S : ages[b] <= ages[c]
  BY <1>1
<1> QED
  BY <1>2 DEF Oldest

-----------------------------------------------------------------------------
(* The inductive invariant: none of its parts is preserved alone.  Keeping *)
(* the cache faithful needs the identifiers to be unambiguous, and that    *)
(* needs a block to be fetched once at a time.                             *)

StoreInv ==
  /\ TypeOK
  /\ Deduplicated
  /\ FetchesTracked
  /\ HandedOverOnce
  /\ CacheFaithful
  /\ CacheBounded

\* Every answer an operation gives is well formed.
LEMMA ReplyTypes ==
  /\ \A k \in {"none", "missing", "failed", "range", "discarded"} :
       reply' = Answer(k) => ReplyOK'
  /\ \A k \in {"data", "written"}, S \in SUBSET Sectors : \A d \in [S -> Data] :
       reply' = [kind |-> k, data |-> d] => ReplyOK'
<1>1. DOMAIN <<>> = {} /\ <<>> \in [{} -> Data]
  OBVIOUS
<1>2. ASSUME NEW k \in {"none", "missing", "failed", "range", "discarded"},
             reply' = Answer(k)
      PROVE  ReplyOK'
  <2>1. reply'.kind = k /\ reply'.data = <<>>
    BY <1>2 DEF Answer
  <2>2. DOMAIN reply'.data \subseteq Sectors /\ reply'.data \in [DOMAIN reply'.data -> Data]
    BY <1>1, <2>1
  <2> QED
    BY <2>1, <2>2 DEF ReplyOK
<1>3. ASSUME NEW k \in {"data", "written"}, NEW S \in SUBSET Sectors, NEW d \in [S -> Data],
             reply' = [kind |-> k, data |-> d]
      PROVE  ReplyOK'
  <2>1. reply'.kind = k /\ reply'.data = d
    BY <1>3
  <2>2. DOMAIN reply'.data = S /\ reply'.data \in [S -> Data]
    BY <2>1
  <2> QED
    BY <2>1, <2>2 DEF ReplyOK
<1> QED
  BY <1>2, <1>3

\* from_manifest establishes the invariant, its prefetches included.
LEMMA StoreInitInv ==
  StoreInit => StoreInv
<1> SUFFICES ASSUME StoreInit
             PROVE  StoreInv
  OBVIOUS
<1> DEFINE N == Len(Prefetch)
<1>1. /\ N \in Nat
      /\ \A i \in 1 .. N : Prefetch[i] \in Blocks /\ i \in RequestIds
      /\ \A i, j \in 1 .. N : Prefetch[i] = Prefetch[j] => i = j
  BY StoreAssumption
<1>2. pending \subseteq PendingChunk
  <2>1. ASSUME NEW i \in 1 .. N
        PROVE  [id |-> i, block |-> Prefetch[i], demanded |-> FALSE] \in PendingChunk
    <3>1. i \in RequestIds /\ Prefetch[i] \in Blocks
      BY <1>1
    <3> QED
      BY <3>1 DEF PendingChunk
  <2> QED
    BY <2>1 DEF StoreInit
<1>3. outgoing \in [1 .. N -> Fetch] /\ DOMAIN outgoing = 1 .. N
  BY <1>1 DEF StoreInit, Fetch
<1>4. outgoing \in Seq(Fetch)
  BY <1>1, <1>3, SeqDef
<1>5. ReplyOK
  <2>1. DOMAIN <<>> = {} /\ <<>> \in [{} -> Data]
    OBVIOUS
  <2> QED
    BY <2>1 DEF StoreInit, Answer, ReplyOK
<1>6. bytes \in [Sectors -> Data] /\ content \in [Blocks -> Blocks] /\ age \in [Blocks -> Nat]
  BY StoreAssumption DEF StoreInit
<1>7. TypeOK
  BY <1>2, <1>4, <1>5, <1>6, StoreAssumption DEF StoreInit, TypeOK
<1>8. Deduplicated
  <2>1. ASSUME NEW p \in pending, NEW q \in pending, p.id = q.id \/ p.block = q.block
        PROVE  p = q
    <3>1. PICK i \in 1 .. N : p = [id |-> i, block |-> Prefetch[i], demanded |-> FALSE]
      BY DEF StoreInit
    <3>2. PICK j \in 1 .. N : q = [id |-> j, block |-> Prefetch[j], demanded |-> FALSE]
      BY DEF StoreInit
    <3>3. i = j
      BY <1>1, <2>1, <3>1, <3>2
    <3> QED
      BY <3>1, <3>2, <3>3
  <2> QED
    BY <2>1 DEF StoreInit, Deduplicated
<1>9. \A i \in 1 .. N : outgoing[i] = [id |-> i, block |-> Prefetch[i]]
  BY DEF StoreInit
<1>10. FetchesTracked
  <2> SUFFICES ASSUME NEW p \in pending
               PROVE  LET own == [id |-> p.id, block |-> p.block]
                      IN  /\ own \in Queued \cup host
                          /\ \A f \in Queued \cup host : f.id = p.id => f = own
    BY DEF FetchesTracked
  <2>1. PICK i \in 1 .. N : p = [id |-> i, block |-> Prefetch[i], demanded |-> FALSE]
    BY DEF StoreInit
  <2>2. p.id = i /\ p.block = Prefetch[i]
    BY <2>1
  <2>3. outgoing[i] = [id |-> p.id, block |-> p.block] /\ outgoing[i] \in Queued
    BY <1>3, <1>9, <2>2 DEF Queued
  <2>4. ASSUME NEW f \in Queued \cup host, f.id = p.id
        PROVE  f = outgoing[i]
    <3>1. PICK j \in 1 .. N : f = outgoing[j]
      BY <1>3 DEF Queued, StoreInit
    <3>2. outgoing[j] = [id |-> j, block |-> Prefetch[j]]
      BY <1>9
    <3>3. f.id = j
      BY <3>1, <3>2
    <3> QED
      BY <2>2, <2>4, <3>1, <3>3
  <2> QED
    BY <2>3, <2>4
<1>11. HandedOverOnce
  BY <1>3, <1>9 DEF StoreInit, HandedOverOnce
<1>12. CacheFaithful /\ CacheBounded
  BY FS_EmptySet, StoreAssumption DEF StoreInit, CacheFaithful, CacheBounded
<1> QED
  BY <1>7, <1>8, <1>10, <1>11, <1>12 DEF StoreInv

\* A read, however far it gets, renumbers the resident blocks and may raise
\* the limit.
LEMMA UseKeepsRanks ==
  ASSUME StoreInv, NEW T, age' = AgesAfter(cached, T), cached' = cached
  PROVE  /\ age' \in [Blocks -> Nat]
         /\ \A b, c \in cached' : age'[b] = age'[c] => b = c
<1>1. Ranked(cached, T)
  BY DEF StoreInv, TypeOK, Ranked
<1> QED
  BY <1>1, RanksFollowUse

\* retain_working_set never lowers the limit.
LEMMA LimitGrows ==
  ASSUME StoreInv, NEW first \in Nat, NEW n \in Nat, InRange(first, n),
         RetainWorkingSet(first, n)
  PROVE  limit' \in Nat \ {0} /\ limit <= limit'
<1>1. first + n - 1 \in Sectors /\ first \in Sectors
  BY StoreAssumption DEF InRange, Sectors, Capacity
<1>2. BlockOf(first + n - 1) \in Int /\ BlockOf(first) \in Int
  <2>1. BlockOf(first + n - 1) \in Blocks
    BY <1>1, SectorPlace
  <2>2. BlockOf(first) \in Blocks
    BY <1>1, SectorPlace
  <2>3. \A b \in Blocks : b \in Int
    BY BlocksFinite
  <2> QED
    BY <2>1, <2>2, <2>3
<1>3. limit \in Nat \ {0}
  BY DEF StoreInv, TypeOK
<1> QED
  BY <1>2, <1>3 DEF RetainWorkingSet, WorkingSet

\* What a successful read copies.
LEMMA ReadDataFaithful ==
  ASSUME StoreInv, NEW first \in Nat, NEW n \in Nat, InRange(first, n),
         Stops(first, n) = {}
  PROVE  /\ ReadData(first, n) \in [Span(first, n) -> Data]
         /\ \A s \in Span(first, n) :
              ReadData(first, n)[s] = IF s \in dirty THEN bytes[s] ELSE Base[s]
<1>1. ASSUME NEW s \in Span(first, n)
      PROVE  /\ s \in Sectors
             /\ s \notin dirty => CachedSector(s) = Base[s]
  <2>1. s \in Sectors
    BY SpanInDisk
  <2>2. ASSUME s \notin dirty
        PROVE  CachedSector(s) = Base[s]
    <3>1. BlockOf(s) \in cached
      BY <2>2 DEF Stops
    <3>2. content[BlockOf(s)] = BlockOf(s)
      BY <3>1 DEF StoreInv, CacheFaithful
    <3> QED
      BY <2>1, <3>2, SectorPlace DEF CachedSector
  <2> QED
    BY <2>1, <2>2
<1>2. \A s \in Sectors : Base[s] \in Data /\ bytes[s] \in Data
  BY StoreAssumption DEF StoreInv, TypeOK
<1> QED
  BY <1>1, <1>2 DEF ReadData

\* A read that requests nothing keeps the invariant: it is out of range,
\* complete, or stopped by a failed block.
LEMMA ReadStoppedInv ==
  ASSUME StoreInv, NEW first \in Nat, NEW n \in Nat,
         ReadOutOfRange(first, n) \/ ReadComplete(first, n) \/ ReadFailed(first, n)
  PROVE  StoreInv'
<1>1. /\ UNCHANGED <<cached, content, dirty, bytes, failed, pending, outgoing, host>>
      /\ \/ UNCHANGED <<age, limit>>
         \/ /\ InRange(first, n)
            /\ RetainWorkingSet(first, n)
            /\ \E T : age' = AgesAfter(cached, T)
  BY DEF ReadOutOfRange, ReadComplete, ReadFailed, cacheVars, overlayVars, fetchVars
<1>2. /\ age' \in [Blocks -> Nat]
      /\ \A b, c \in cached' : age'[b] = age'[c] => b = c
  BY <1>1, UseKeepsRanks DEF StoreInv, TypeOK
<1>3. limit' \in Nat \ {0} /\ limit <= limit'
  BY <1>1, LimitGrows DEF StoreInv, TypeOK
<1>4. ReplyOK'
  <2>1. CASE ReadComplete(first, n)
    <3>1. Span(first, n) \in SUBSET Sectors
      BY <2>1, SpanInDisk DEF ReadComplete
    <3>2. ReadData(first, n) \in [Span(first, n) -> Data]
      BY <2>1, ReadDataFaithful DEF ReadComplete
    <3> QED
      BY <2>1, <3>1, <3>2, ReplyTypes DEF ReadComplete
  <2>2. CASE ReadOutOfRange(first, n) \/ ReadFailed(first, n)
    BY <2>2, ReplyTypes DEF ReadOutOfRange, ReadFailed
  <2> QED
    BY <2>1, <2>2
<1>5. TypeOK'
  BY <1>1, <1>2, <1>3, <1>4 DEF StoreInv, TypeOK
<1>6. Deduplicated' /\ FetchesTracked' /\ HandedOverOnce' /\ CacheFaithful'
  BY <1>1 DEF StoreInv, Deduplicated, FetchesTracked, HandedOverOnce, CacheFaithful, Queued
<1>7. CacheBounded'
  <2>1. Cardinality(cached) \in Nat
    BY BlocksFinite DEF StoreInv, TypeOK
  <2> QED
    BY <1>1, <1>3, <2>1 DEF StoreInv, CacheBounded, TypeOK
<1> QED
  BY <1>5, <1>6, <1>7 DEF StoreInv

\* The first stop of a read that stops.
LEMMA FirstStopExists ==
  ASSUME StoreInv, NEW first \in Nat, NEW n \in Nat, InRange(first, n),
         Stops(first, n) # {}
  PROVE  /\ FirstStop(first, n) \in Stops(first, n)
         /\ BlockOf(FirstStop(first, n)) \in Blocks
<1>1. Stops(first, n) \subseteq Sectors
  BY SpanInDisk DEF Stops
<1>2. Sectors \subseteq Nat
  BY StoreAssumption DEF Sectors
<1>3. Stops(first, n) \in SUBSET Nat
  BY <1>1, <1>2
<1>4. \E s \in Stops(first, n) : \A t \in Stops(first, n) : s <= t
  BY <1>3, LeastNatural
<1>5. FirstStop(first, n) \in Stops(first, n)
  BY <1>4 DEF FirstStop
<1> QED
  BY <1>1, <1>5, SectorPlace

\* Appending to the queue, and taking from it.
LEMMA QueueAppend ==
  ASSUME outgoing \in Seq(Fetch), NEW f \in Fetch, outgoing' = Append(outgoing, f)
  PROVE  /\ outgoing' \in Seq(Fetch)
         /\ Queued' = Queued \cup {f}
         /\ HandedOverOnce /\ (\A g \in Queued \cup host : g.id # f.id)
              /\ host' = host => HandedOverOnce'
<1>1. /\ outgoing' \in Seq(Fetch)
      /\ Len(outgoing) \in Nat
      /\ DOMAIN outgoing = 1 .. Len(outgoing)
      /\ DOMAIN outgoing' = 1 .. Len(outgoing) + 1
      /\ \A i \in 1 .. Len(outgoing) : outgoing'[i] = outgoing[i]
      /\ outgoing'[Len(outgoing) + 1] = f
  BY AppendProperties, LenProperties
<1>2. Queued' = Queued \cup {f}
  BY <1>1 DEF Queued
<1>3. ASSUME HandedOverOnce, \A g \in Queued \cup host : g.id # f.id, host' = host
      PROVE  HandedOverOnce'
  BY <1>1, <1>3 DEF HandedOverOnce, Queued
<1> QED
  BY <1>1, <1>2, <1>3

\* next_request takes the oldest request and keeps the others' identifiers apart.
LEMMA QueueTail ==
  ASSUME outgoing \in Seq(Fetch), outgoing # <<>>, outgoing' = Tail(outgoing)
  PROVE  /\ outgoing' \in Seq(Fetch)
         /\ Head(outgoing) \in Fetch
         /\ Queued = Queued' \cup {Head(outgoing)}
         /\ HandedOverOnce /\ host' = host \cup {Head(outgoing)} => HandedOverOnce'
<1>1. /\ outgoing' \in Seq(Fetch)
      /\ Head(outgoing) \in Fetch
      /\ Len(outgoing) \in Nat \ {0}
      /\ DOMAIN outgoing = 1 .. Len(outgoing)
      /\ DOMAIN outgoing' = 1 .. Len(outgoing) - 1
      /\ \A i \in 1 .. Len(outgoing) - 1 : outgoing'[i] = outgoing[i + 1]
      /\ outgoing[1] = Head(outgoing)
  BY HeadTailProperties, LenProperties, EmptySeq
<1>2. Queued = Queued' \cup {Head(outgoing)}
  <2>1. ASSUME NEW i \in DOMAIN outgoing
        PROVE  outgoing[i] \in Queued' \cup {Head(outgoing)}
    <3>1. CASE i = 1
      BY <1>1, <3>1
    <3>2. CASE i # 1
      <4>1. i - 1 \in 1 .. Len(outgoing) - 1 /\ outgoing'[i - 1] = outgoing[i]
        BY <1>1, <3>2
      <4> QED
        BY <4>1, <1>1 DEF Queued
    <3> QED
      BY <3>1, <3>2
  <2>2. ASSUME NEW i \in DOMAIN outgoing'
        PROVE  outgoing'[i] \in Queued
    BY <1>1 DEF Queued
  <2>3. Head(outgoing) \in Queued
    BY <1>1 DEF Queued
  <2> QED
    BY <2>1, <2>2, <2>3 DEF Queued
<1>3. ASSUME HandedOverOnce, host' = host \cup {Head(outgoing)}
      PROVE  HandedOverOnce'
  <2>1. \A i, j \in DOMAIN outgoing' : outgoing'[i].id = outgoing'[j].id => i = j
    BY <1>1, <1>3 DEF HandedOverOnce
  <2>2. ASSUME NEW i \in DOMAIN outgoing', NEW f \in host'
        PROVE  f.id # outgoing'[i].id
    <3>1. i + 1 \in DOMAIN outgoing /\ outgoing'[i] = outgoing[i + 1] /\ i + 1 # 1
      BY <1>1
    <3>2. CASE f \in host
      BY <3>1, <3>2, <1>3 DEF HandedOverOnce
    <3>3. CASE f = Head(outgoing)
      BY <3>1, <3>3, <1>1, <1>3 DEF HandedOverOnce
    <3> QED
      BY <3>2, <3>3, <1>3
  <2> QED
    BY <2>1, <2>2 DEF HandedOverOnce
<1> QED
  BY <1>1, <1>2, <1>3

\* request_block for a block that is neither resident nor failed.
LEMMA RequestBlockInv ==
  ASSUME StoreInv, NEW b \in Blocks, b \notin cached \cup failed,
         RequestBlock(b, TRUE),
         UNCHANGED <<cached, failed, host>>
  PROVE  /\ pending' \subseteq PendingChunk
         /\ outgoing' \in Seq(Fetch)
         /\ Deduplicated'
         /\ FetchesTracked'
         /\ HandedOverOnce'
<1>1. CASE JoinFetch(b, TRUE)
  <2> DEFINE J(p) == IF p.block = b THEN [p EXCEPT !.demanded = @ \/ TRUE] ELSE p
  <2>1. pending' = {J(p) : p \in pending} /\ outgoing' = outgoing
    BY <1>1 DEF JoinFetch
  <2>2. \A p \in PendingChunk :
          J(p) \in PendingChunk /\ J(p).id = p.id /\ J(p).block = p.block
    BY DEF PendingChunk
  <2>3. pending \subseteq PendingChunk
    BY DEF StoreInv, TypeOK
  <2> HIDE DEF J
  <2>4. pending' \subseteq PendingChunk /\ outgoing' \in Seq(Fetch)
    BY <2>1, <2>2, <2>3 DEF StoreInv, TypeOK
  <2>5. Deduplicated'
    BY <2>1, <2>2, <2>3 DEF StoreInv, Deduplicated
  <2>6. FetchesTracked' /\ HandedOverOnce'
    BY <2>1, <2>2, <2>3 DEF StoreInv, FetchesTracked, HandedOverOnce, Queued
  <2> QED
    BY <2>4, <2>5, <2>6
<1>2. CASE QueueFetch(b, TRUE)
  <2>1. PICK id \in RequestIds :
          /\ id \notin UsedIds
          /\ pending' = pending \cup {[id |-> id, block |-> b, demanded |-> TRUE]}
          /\ outgoing' = Append(outgoing, [id |-> id, block |-> b])
    BY <1>2 DEF QueueFetch, FreshId
  <2> DEFINE f == [id |-> id, block |-> b]
             q == [id |-> id, block |-> b, demanded |-> TRUE]
  <2>2. f \in Fetch /\ f.id = id /\ q \in PendingChunk /\ q.id = id /\ q.block = b
    BY DEF Fetch, PendingChunk
  <2>3. \A g \in pending \cup Queued \cup host : g.id # id
    BY <2>1 DEF UsedIds
  <2>4. outgoing \in Seq(Fetch) /\ HandedOverOnce
    BY DEF StoreInv, TypeOK
  <2> HIDE DEF f, q
  <2>5. /\ outgoing' \in Seq(Fetch)
        /\ Queued' = Queued \cup {f}
        /\ HandedOverOnce'
    BY <2>1, <2>2, <2>3, <2>4, QueueAppend DEF f
  <2>6. pending' = pending \cup {q} /\ pending' \subseteq PendingChunk
    BY <2>1, <2>2 DEF StoreInv, TypeOK, q
  <2>7. \A p \in pending : p.block # b
    BY <1>2 DEF QueueFetch
  <2>8. Deduplicated'
    BY <2>2, <2>3, <2>6, <2>7 DEF StoreInv, Deduplicated
  <2>9. FetchesTracked'
    <3> SUFFICES ASSUME NEW p \in pending'
                 PROVE  /\ [id |-> p.id, block |-> p.block] \in Queued' \cup host'
                        /\ \A g \in Queued' \cup host' :
                             g.id = p.id => g = [id |-> p.id, block |-> p.block]
      BY DEF FetchesTracked
    <3>1. CASE p = q
      BY <2>2, <2>3, <2>5, <3>1 DEF f
    <3>2. CASE p \in pending
      <4>1. p.id # f.id
        BY <2>2, <2>3, <3>2
      <4> QED
        BY <2>5, <3>2, <4>1 DEF StoreInv, FetchesTracked
    <3> QED
      BY <2>6, <3>1, <3>2
  <2> QED
    BY <2>5, <2>6, <2>8, <2>9
<1> QED
  BY <1>1, <1>2 DEF RequestBlock

\* A read that misses a block keeps the invariant.
LEMMA ReadMissingInv ==
  ASSUME StoreInv, NEW first \in Nat, NEW n \in Nat, ReadMissing(first, n)
  PROVE  StoreInv'
<1> DEFINE b == BlockOf(FirstStop(first, n))
<1>1. /\ InRange(first, n) /\ Stops(first, n) # {} /\ b \notin failed
      /\ RetainWorkingSet(first, n)
      /\ age' = AgesAfter(cached, BlocksUsed(first, FirstStop(first, n)))
      /\ RequestBlock(b, TRUE)
      /\ reply' = Answer("missing")
      /\ UNCHANGED <<cached, content, dirty, bytes, failed, host>>
  BY DEF ReadMissing, overlayVars
<1>2. FirstStop(first, n) \in Stops(first, n) /\ b \in Blocks
  BY <1>1, FirstStopExists
<1>3. b \notin cached
  BY <1>1, <1>2 DEF Stops
<1> HIDE DEF b
<1>4. /\ pending' \subseteq PendingChunk /\ outgoing' \in Seq(Fetch)
      /\ Deduplicated' /\ FetchesTracked' /\ HandedOverOnce'
  BY <1>1, <1>2, <1>3, RequestBlockInv
<1>5. /\ age' \in [Blocks -> Nat]
      /\ \A c, d \in cached' : age'[c] = age'[d] => c = d
  BY <1>1, UseKeepsRanks
<1>6. limit' \in Nat \ {0} /\ limit <= limit'
  BY <1>1, LimitGrows
<1>7. ReplyOK'
  BY <1>1, ReplyTypes
<1>8. TypeOK'
  BY <1>1, <1>4, <1>5, <1>6, <1>7 DEF StoreInv, TypeOK
<1>9. CacheFaithful'
  BY <1>1 DEF StoreInv, CacheFaithful
<1>10. CacheBounded'
  <2>1. Cardinality(cached) \in Nat
    BY BlocksFinite DEF StoreInv, TypeOK
  <2> QED
    BY <1>1, <1>6, <2>1 DEF StoreInv, CacheBounded, TypeOK
<1> QED
  BY <1>4, <1>8, <1>9, <1>10 DEF StoreInv

\* A write keeps the invariant: it touches the overlay alone.
LEMMA WriteInv ==
  ASSUME StoreInv, NEW first \in Nat, NEW n \in Nat,
         NEW new \in [Span(first, n) -> Written], WriteSectors(first, n, new)
  PROVE  StoreInv'
<1>1. UNCHANGED <<cached, content, age, limit, failed, pending, outgoing, host>>
  BY DEF WriteSectors, cacheVars, fetchVars
<1>2. /\ dirty' \subseteq Sectors
      /\ bytes' \in [Sectors -> Data]
      /\ ReplyOK'
  <2>1. CASE InRange(first, n)
    <3>1. Span(first, n) \in SUBSET Sectors
      BY <2>1, SpanInDisk
    <3>2. new \in [Span(first, n) -> Data]
      BY StoreAssumption
    <3>3. reply' = [kind |-> "written", data |-> new]
      BY <2>1 DEF WriteSectors
    <3>4. ReplyOK'
      BY <3>1, <3>2, <3>3, ReplyTypes
    <3>5. dirty' \subseteq Sectors
      BY <2>1, <3>1 DEF WriteSectors, StoreInv, TypeOK
    <3>6. bytes' \in [Sectors -> Data]
      BY <2>1, <3>1, <3>2 DEF WriteSectors, StoreInv, TypeOK
    <3> QED
      BY <3>4, <3>5, <3>6
  <2>2. CASE ~InRange(first, n)
    <3>1. reply' = Answer("range") /\ UNCHANGED <<dirty, bytes>>
      BY <2>2 DEF WriteSectors, overlayVars
    <3> QED
      BY <3>1, ReplyTypes DEF StoreInv, TypeOK
  <2> QED
    BY <2>1, <2>2
<1>3. TypeOK'
  BY <1>1, <1>2 DEF StoreInv, TypeOK
<1>4. /\ Deduplicated' /\ FetchesTracked' /\ HandedOverOnce'
      /\ CacheFaithful' /\ CacheBounded'
  BY <1>1 DEF StoreInv, Deduplicated, FetchesTracked, HandedOverOnce, Queued,
              CacheFaithful, CacheBounded
<1> QED
  BY <1>3, <1>4 DEF StoreInv

\* Handing a request to the host keeps the invariant.
LEMMA NextRequestInv ==
  ASSUME StoreInv, NextRequest
  PROVE  StoreInv'
<1>1. /\ outgoing # <<>> /\ outgoing' = Tail(outgoing)
      /\ host' = host \cup {Head(outgoing)}
      /\ reply' = Answer("none")
      /\ UNCHANGED <<cached, content, age, limit, dirty, bytes, failed, pending>>
  BY DEF NextRequest, cacheVars, overlayVars
<1>2. outgoing \in Seq(Fetch) /\ HandedOverOnce
  BY DEF StoreInv, TypeOK
<1>3. /\ outgoing' \in Seq(Fetch) /\ Head(outgoing) \in Fetch
      /\ Queued = Queued' \cup {Head(outgoing)} /\ HandedOverOnce'
  BY <1>1, <1>2, QueueTail
<1>4. TypeOK'
  BY <1>1, <1>3, ReplyTypes DEF StoreInv, TypeOK
<1>5. Queued' \cup host' = Queued \cup host
  BY <1>1, <1>3
<1>6. FetchesTracked'
  BY <1>1, <1>5 DEF StoreInv, FetchesTracked
<1>7. Deduplicated' /\ CacheFaithful' /\ CacheBounded'
  BY <1>1 DEF StoreInv, Deduplicated, CacheFaithful, CacheBounded
<1> QED
  BY <1>3, <1>4, <1>6, <1>7 DEF StoreInv

\* A response removes its fetch; the other pending fetches keep theirs.
LEMMA ResponseFetches ==
  ASSUME StoreInv, NEW f \in host, NEW p \in pending, p.id = f.id,
         pending' = pending \ {p}, host' = host \ {f}, outgoing' = outgoing
  PROVE  /\ f.block = p.block
         /\ FetchesTracked'
         /\ HandedOverOnce'
<1>1. f = [id |-> p.id, block |-> p.block]
  BY DEF StoreInv, FetchesTracked
<1>2. ASSUME NEW q \in pending'
      PROVE  q \in pending /\ q.id # f.id
  BY DEF StoreInv, Deduplicated
<1>3. Queued' = Queued
  BY DEF Queued
<1>4. FetchesTracked'
  <2>1. ASSUME NEW q \in pending'
        PROVE  /\ [id |-> q.id, block |-> q.block] \in Queued \cup host'
               /\ \A g \in Queued \cup host' :
                    g.id = q.id => g = [id |-> q.id, block |-> q.block]
    <3>1. q \in pending /\ q.id # f.id
      BY <1>2
    <3>2. /\ [id |-> q.id, block |-> q.block] \in Queued \cup host
          /\ \A g \in Queued \cup host : g.id = q.id => g = [id |-> q.id, block |-> q.block]
      BY <3>1 DEF StoreInv, FetchesTracked
    <3>3. [id |-> q.id, block |-> q.block] # f
      BY <3>1
    <3> QED
      BY <3>2, <3>3
  <2> QED
    BY <1>3, <2>1 DEF FetchesTracked
<1>5. HandedOverOnce'
  BY DEF StoreInv, HandedOverOnce
<1> QED
  BY <1>1, <1>4, <1>5

\* What trim_cache leaves: within the limit, and without the least recently
\* used block only.
LEMMA TrimmedCache ==
  ASSUME StoreInv, NEW b \in Blocks, b \notin cached
  PROVE  LET all  == cached \cup {b}
             ages == AgesAfter(all, {b})
             kept == Trimmed(all, ages)
         IN  /\ kept \subseteq all
             /\ Cardinality(kept) <= limit
             /\ Ranked(kept, {b})
             /\ \A gone \in all \ kept : \A c \in kept : UsedBefore(gone, c, {b})
<1> DEFINE all == cached \cup {b}
           ages == AgesAfter(all, {b})
           kept == Trimmed(all, ages)
<1>1. /\ cached \subseteq Blocks /\ all \subseteq Blocks
      /\ Cardinality(cached) \in Nat /\ limit \in Nat \ {0}
      /\ Cardinality(cached) <= limit
  BY BlocksFinite DEF StoreInv, TypeOK, CacheBounded
<1>2. IsFiniteSet(all) /\ Cardinality(all) = Cardinality(cached) + 1
  BY <1>1, BlocksFinite, FS_AddElement
<1>3. Ranked(all, {b})
  BY <1>1 DEF Ranked, StoreInv, TypeOK
<1>4. /\ ages \in [Blocks -> Nat]
      /\ \A c, d \in all : UsedBefore(c, d, {b}) => ages[c] < ages[d]
  BY <1>3, RanksFollowUse
<1> HIDE DEF ages
<1>5. /\ Oldest(all, ages) \in all
      /\ \A c \in all : ages[Oldest(all, ages)] <= ages[c]
  BY <1>1, <1>4, OldestExists
<1>6. CASE Cardinality(all) > limit
  <2>1. kept = all \ {Oldest(all, ages)}
    BY <1>6 DEF Trimmed
  <2>2. Cardinality(kept) = Cardinality(all) - 1
    BY <1>2, <1>5, <2>1, FS_RemoveElement
  <2>3. Cardinality(kept) <= limit
    BY <1>1, <1>2, <2>2
  <2>4. Ranked(kept, {b})
    BY <1>3, <2>1 DEF Ranked
  <2>5. ASSUME NEW c \in kept
        PROVE  UsedBefore(Oldest(all, ages), c, {b})
    <3>1. c \in all /\ c # Oldest(all, ages)
      BY <2>1
    <3>2. ~UsedBefore(c, Oldest(all, ages), {b})
      <4>1. ages[c] \in Nat /\ ages[Oldest(all, ages)] \in Nat
        BY <1>1, <1>4, <1>5, <3>1
      <4> QED
        BY <1>4, <1>5, <3>1, <4>1
    <3> QED
      BY <1>3, <1>5, <3>1, <3>2, UsedBeforeOrder
  <2>6. \A gone \in all \ kept : \A c \in kept : UsedBefore(gone, c, {b})
    BY <2>1, <2>5
  <2>7. kept \subseteq all
    BY <2>1
  <2> QED
    BY <2>3, <2>4, <2>6, <2>7 DEF ages
<1>7. CASE ~(Cardinality(all) > limit)
  <2>1. kept = all
    BY <1>7 DEF Trimmed
  <2>2. Cardinality(kept) <= limit
    BY <1>1, <1>2, <1>7, <2>1
  <2> QED
    BY <1>3, <2>1, <2>2 DEF ages
<1> QED
  BY <1>6, <1>7

\* A response that brings a block keeps the invariant, eviction included.
LEMMA CompleteInv ==
  ASSUME StoreInv, NEW f \in host, Complete(f)
  PROVE  StoreInv'
<1>1. PICK p \in pending :
        /\ p.id = f.id
        /\ pending' = pending \ {p}
        /\ host' = host \ {f}
        /\ cached' = Trimmed(cached \cup {p.block},
                             AgesAfter(cached \cup {p.block}, {p.block}))
        /\ age' = AgesAfter(Trimmed(cached \cup {p.block},
                             AgesAfter(cached \cup {p.block}, {p.block})), {p.block})
        /\ content' = [content EXCEPT ![p.block] = f.block]
        /\ reply' = Answer("none")
        /\ UNCHANGED <<limit, dirty, bytes, failed, outgoing>>
  BY DEF Complete, overlayVars
<1> DEFINE b == p.block
<1>2. p \in PendingChunk /\ b \in Blocks /\ b \notin cached /\ b \notin failed
  BY DEF StoreInv, TypeOK, PendingChunk, Deduplicated
<1>3. f.block = b /\ FetchesTracked' /\ HandedOverOnce'
  BY <1>1, ResponseFetches
<1>4. age' = AgesAfter(cached', {b})
  BY <1>1
<1>5. /\ cached' \subseteq cached \cup {b}
      /\ Cardinality(cached') <= limit
      /\ Ranked(cached', {b})
  BY <1>1, <1>2, TrimmedCache
<1>6. /\ age' \in [Blocks -> Nat]
      /\ \A c, d \in cached' : age'[c] = age'[d] => c = d
  BY <1>4, <1>5, RanksFollowUse
<1>7. /\ content' \in [Blocks -> Blocks]
      /\ content'[b] = b
      /\ \A c \in Blocks \ {b} : content'[c] = content[c]
  BY <1>1, <1>2, <1>3 DEF StoreInv, TypeOK
<1>8. cached' \subseteq Blocks /\ pending' \subseteq PendingChunk /\ host' \subseteq Fetch
  BY <1>1, <1>2, <1>5 DEF StoreInv, TypeOK
<1>9. TypeOK'
  BY <1>1, <1>6, <1>7, <1>8, ReplyTypes DEF StoreInv, TypeOK
<1>10. CacheFaithful'
  BY <1>2, <1>5, <1>7 DEF StoreInv, CacheFaithful, TypeOK
<1>11. CacheBounded'
  BY <1>1, <1>5 DEF CacheBounded
<1>12. Deduplicated'
  <2>1. \A q \in pending' : q.block # b
    BY <1>1 DEF StoreInv, Deduplicated
  <2> QED
    BY <1>1, <1>2, <1>5, <2>1 DEF StoreInv, Deduplicated
<1> QED
  BY <1>3, <1>9, <1>10, <1>11, <1>12 DEF StoreInv

\* A failed response keeps the invariant.
LEMMA FailInv ==
  ASSUME StoreInv, NEW f \in host, Fail(f)
  PROVE  StoreInv'
<1>1. PICK p \in pending :
        /\ p.id = f.id
        /\ pending' = pending \ {p}
        /\ host' = host \ {f}
        /\ failed' \subseteq failed \cup {p.block}
        /\ reply' = Answer("none")
        /\ UNCHANGED <<cached, content, age, limit, dirty, bytes, outgoing>>
  BY DEF Fail, cacheVars, overlayVars
<1>2. p.block \in Blocks /\ p.block \notin cached
  BY DEF StoreInv, TypeOK, PendingChunk, Deduplicated
<1>3. FetchesTracked' /\ HandedOverOnce'
  BY <1>1, ResponseFetches
<1>4. TypeOK'
  BY <1>1, <1>2, ReplyTypes DEF StoreInv, TypeOK
<1>5. Deduplicated'
  <2>1. \A q \in pending' : q.block # p.block
    BY <1>1 DEF StoreInv, Deduplicated
  <2> QED
    BY <1>1, <1>2, <2>1 DEF StoreInv, Deduplicated
<1>6. CacheFaithful' /\ CacheBounded'
  BY <1>1 DEF StoreInv, CacheFaithful, CacheBounded
<1> QED
  BY <1>3, <1>4, <1>5, <1>6 DEF StoreInv

\* A response nobody waits for keeps the invariant.
LEMMA CompleteUnknownInv ==
  ASSUME StoreInv, NEW f \in host, CompleteUnknown(f)
  PROVE  StoreInv'
<1>1. /\ \A p \in pending : p.id # f.id
      /\ host' = host \ {f}
      /\ reply' = Answer("none")
      /\ UNCHANGED <<cached, content, age, limit, dirty, bytes, failed, pending, outgoing>>
  BY DEF CompleteUnknown, Unknown, cacheVars, overlayVars
<1>2. TypeOK'
  BY <1>1, ReplyTypes DEF StoreInv, TypeOK
<1>3. Queued' = Queued
  BY <1>1 DEF Queued
<1>4. FetchesTracked'
  <2>1. ASSUME NEW q \in pending
        PROVE  /\ [id |-> q.id, block |-> q.block] \in Queued \cup host'
               /\ \A g \in Queued \cup host' :
                    g.id = q.id => g = [id |-> q.id, block |-> q.block]
    <3>1. /\ [id |-> q.id, block |-> q.block] \in Queued \cup host
          /\ \A g \in Queued \cup host : g.id = q.id => g = [id |-> q.id, block |-> q.block]
      BY DEF StoreInv, FetchesTracked
    <3>2. [id |-> q.id, block |-> q.block] # f
      BY <1>1
    <3> QED
      BY <1>1, <3>1, <3>2
  <2> QED
    BY <1>1, <1>3, <2>1 DEF FetchesTracked
<1>5. HandedOverOnce' /\ Deduplicated' /\ CacheFaithful' /\ CacheBounded'
  BY <1>1 DEF StoreInv, HandedOverOnce, Deduplicated, CacheFaithful, CacheBounded
<1> QED
  BY <1>2, <1>4, <1>5 DEF StoreInv

\* clear_errors, reset_requests and discard_changes.
LEMMA RetirementInv ==
  ASSUME StoreInv,
         ClearErrors \/ (\E lost \in SUBSET host : ResetRequests(lost)) \/ DiscardChanges
  PROVE  StoreInv'
<1>1. /\ UNCHANGED <<cached, content, age, limit>>
      /\ failed' = {}
      /\ host' \subseteq host
      /\ \/ host' = host /\ UNCHANGED <<pending, outgoing>>
         \/ pending' = {} /\ outgoing' = <<>>
      /\ UNCHANGED <<dirty, bytes>> \/ (dirty' = {} /\ bytes' = [s \in Sectors |-> Zero])
      /\ reply' = Answer("none") \/ reply' = Answer("discarded")
  BY DEF ClearErrors, ResetRequests, DiscardChanges, cacheVars, overlayVars
<1>2. outgoing' \in Seq(Fetch) /\ pending' \subseteq PendingChunk /\ host' \subseteq Fetch
  <2>1. outgoing \in Seq(Fetch) /\ pending \subseteq PendingChunk /\ host \subseteq Fetch
    BY DEF StoreInv, TypeOK
  <2>2. <<>> \in Seq(Fetch)
    OBVIOUS
  <2>3. outgoing' \in Seq(Fetch)
    BY <1>1, <2>1, <2>2
  <2>4. pending' \subseteq PendingChunk
    BY <1>1, <2>1
  <2> QED
    BY <1>1, <2>1, <2>3, <2>4
<1>3. bytes' \in [Sectors -> Data] /\ dirty' \subseteq Sectors
  BY <1>1, StoreAssumption DEF StoreInv, TypeOK
<1>4. TypeOK'
  BY <1>1, <1>2, <1>3, ReplyTypes DEF StoreInv, TypeOK
<1>5. FetchesTracked' /\ HandedOverOnce' /\ Deduplicated'
  BY <1>1 DEF StoreInv, FetchesTracked, HandedOverOnce, Deduplicated, Queued
<1>6. CacheFaithful' /\ CacheBounded'
  BY <1>1 DEF StoreInv, CacheFaithful, CacheBounded
<1> QED
  BY <1>4, <1>5, <1>6 DEF StoreInv

\* Every step of the store keeps the invariant.
LEMMA StoreNextInv ==
  StoreInv /\ [StoreNext]_storeVars => StoreInv'
<1> SUFFICES ASSUME StoreInv, [StoreNext]_storeVars
             PROVE  StoreInv'
  OBVIOUS
<1>1. ASSUME NEW first \in 0 .. Capacity, NEW n \in 0 .. MaxCount,
             ReadSectors(first, n)
      PROVE  StoreInv'
  <2>1. first \in Nat /\ n \in Nat
    BY StoreAssumption DEF Capacity
  <2> QED
    BY <1>1, <2>1, ReadStoppedInv, ReadMissingInv DEF ReadSectors
<1>2. ASSUME NEW first \in 0 .. Capacity, NEW n \in 0 .. MaxCount,
             NEW new \in [Span(first, n) -> Written], WriteSectors(first, n, new)
      PROVE  StoreInv'
  <2>1. first \in Nat /\ n \in Nat
    BY StoreAssumption DEF Capacity
  <2> QED
    BY <1>2, <2>1, WriteInv
<1>3. CASE NextRequest
  BY <1>3, NextRequestInv
<1>4. ASSUME NEW f \in host, Respond(f)
      PROVE  StoreInv'
  BY <1>4, CompleteInv, FailInv, CompleteUnknownInv DEF Respond
<1>5. CASE ClearErrors \/ (\E lost \in SUBSET host : ResetRequests(lost)) \/ DiscardChanges
  BY <1>5, RetirementInv
<1>6. CASE UNCHANGED storeVars
  <2>1. UNCHANGED <<cached, content, age, limit, dirty, bytes, failed, pending,
                    outgoing, host, reply>>
    BY <1>6 DEF storeVars, cacheVars, overlayVars, fetchVars
  <2>2. TypeOK' /\ CacheFaithful' /\ CacheBounded'
    BY <2>1 DEF StoreInv, TypeOK, ReplyOK, CacheFaithful, CacheBounded
  <2>3. Deduplicated' /\ FetchesTracked' /\ HandedOverOnce'
    BY <2>1 DEF StoreInv, Deduplicated, FetchesTracked, HandedOverOnce, Queued
  <2> QED
    BY <2>2, <2>3 DEF StoreInv
<1> QED
  BY <1>1, <1>2, <1>3, <1>4, <1>5, <1>6 DEF StoreNext

\* The inductive invariant holds of every state of the store.
THEOREM StoreInvariant == StoreSpec => []StoreInv
<1>1. StoreInit => StoreInv
  BY StoreInitInv
<1>2. StoreInv /\ [StoreNext]_storeVars => StoreInv'
  BY StoreNextInv
<1> QED
  BY <1>1, <1>2, PTL DEF StoreSpec

\* The store's fields keep their types, and resident blocks distinct ranks,
\* through every read, write, response and retirement.
THEOREM StoreTypes == StoreSpec => []TypeOK
<1>1. StoreInv => TypeOK
  BY DEF StoreInv
<1> QED
  BY <1>1, StoreInvariant, PTL

\* request_block never has two fetches of one block, nor a fetch of a block
\* that is resident or marked failed.
THEOREM StoreDeduplicates == StoreSpec => []Deduplicated
<1>1. StoreInv => Deduplicated
  BY DEF StoreInv
<1> QED
  BY <1>1, StoreInvariant, PTL

\* No fetch the store waits for is lost, and no retired one is mistaken for it.
THEOREM StoreTracksFetches == StoreSpec => [](FetchesTracked /\ HandedOverOnce)
<1>1. StoreInv => FetchesTracked /\ HandedOverOnce
  BY DEF StoreInv
<1> QED
  BY <1>1, StoreInvariant, PTL

\* After every call the cache is within its limit and holds what the server has.
THEOREM StoreCacheSound == StoreSpec => [](CacheBounded /\ CacheFaithful)
<1>1. StoreInv => CacheBounded /\ CacheFaithful
  BY DEF StoreInv
<1> QED
  BY <1>1, StoreInvariant, PTL

-----------------------------------------------------------------------------
(* Eviction.                                                               *)

\* Blocks leave the cache only when trim_cache makes room for a response, and
\* then in the order of their last use.
THEOREM EvictionOrder == StoreSpec => LeastRecentOut
<1> DEFINE InOrder ==
      \A gone \in cached \ cached' :
        /\ cached' \ cached # {}
        /\ \A kept \in cached \cap cached' : age[gone] < age[kept]
<1>1. ASSUME StoreInv, [StoreNext]_storeVars
      PROVE  InOrder
  <2>1. CASE cached' = cached
    BY <2>1
  <2>2. ASSUME NEW f \in host, Complete(f)
        PROVE  InOrder
    <3>1. PICK p \in pending :
            cached' = Trimmed(cached \cup {p.block},
                              AgesAfter(cached \cup {p.block}, {p.block}))
      BY <2>2 DEF Complete
    <3> DEFINE b == p.block
    <3>2. b \in Blocks /\ b \notin cached
      BY <1>1 DEF StoreInv, TypeOK, PendingChunk, Deduplicated
    <3>3. /\ cached' \subseteq cached \cup {b}
          /\ \A gone \in (cached \cup {b}) \ cached' : \A c \in cached' :
               UsedBefore(gone, c, {b})
      BY <1>1, <3>1, <3>2, TrimmedCache
    <3> SUFFICES ASSUME NEW gone \in cached \ cached'
                 PROVE  /\ cached' \ cached # {}
                        /\ \A kept \in cached \cap cached' : age[gone] < age[kept]
      OBVIOUS
    <3>4. \A kept \in cached \cap cached' : age[gone] < age[kept]
      BY <3>2, <3>3 DEF UsedBefore
    <3>5. b \in cached'
      <4>1. CASE b \notin cached'
        <5>1. \A c \in cached' : UsedBefore(b, c, {b})
          BY <3>3, <4>1
        <5>2. \A c \in cached' : c \in cached /\ c # b
          BY <3>3, <4>1
        <5>3. cached' = {}
          BY <5>1, <5>2 DEF UsedBefore
        <5>4. Cardinality(cached \cup {b}) > limit
          BY <3>1, <4>1 DEF Trimmed
        <5>5. cached' = (cached \cup {b}) \ {Oldest(cached \cup {b}, AgesAfter(cached \cup {b}, {b}))}
          BY <3>1, <5>4 DEF Trimmed
        <5>6. FALSE
          BY <3>2, <4>1, <5>3, <5>5
        <5> QED
          BY <5>6
      <4> QED
        BY <4>1
    <3> QED
      BY <3>2, <3>4, <3>5
  <2>3. CASE StoreNext /\ ~(\E f \in host : Complete(f))
    <3>1. cached' = cached
      BY <2>3 DEF StoreNext, ReadSectors, ReadOutOfRange, ReadComplete, ReadFailed,
        ReadMissing, WriteSectors, NextRequest, Respond, CompleteUnknown, Fail,
        ClearErrors, ResetRequests, DiscardChanges, cacheVars
    <3> QED
      BY <3>1
  <2>4. CASE UNCHANGED storeVars
    BY <2>4, <2>1 DEF storeVars, cacheVars
  <2> QED
    BY <1>1, <2>2, <2>3, <2>4
<1> QED
  BY <1>1, StoreInvariant, PTL DEF StoreSpec, LeastRecentOut

-----------------------------------------------------------------------------
(* Refinement.                                                             *)

\* A successful read of the store is one of the plain disk; writes and
\* discards change the disk as they should, and nothing else changes it.
THEOREM StoreImplementsDisk == StoreSpec => ImplementsDisk
<1> DEFINE D == [s \in Sectors |-> IF s \in dirty THEN bytes[s] ELSE Base[s]]
<1>1. StoreInit => Disk!Init
  BY StoreAssumption DEF StoreInit, Answer, Disk!Init
<1>2. ASSUME StoreInv, [StoreNext]_storeVars
      PROVE  [Disk!Next]_(Disk!vars)
  <2>1. ASSUME UNCHANGED <<dirty, bytes>>,
               reply'.kind \in {"none", "missing", "failed", "range"}
        PROVE  Disk!Next
    BY <2>1 DEF Disk!Next, Disk!Decline, Disk!Declined
  <2>2. ASSUME NEW first \in 0 .. Capacity, NEW n \in 0 .. MaxCount,
               ReadComplete(first, n)
        PROVE  Disk!Next
    <3>1. first \in Nat /\ n \in Nat
      BY StoreAssumption DEF Capacity
    <3>2. /\ InRange(first, n) /\ Stops(first, n) = {}
          /\ reply' = [kind |-> "data", data |-> ReadData(first, n)]
          /\ UNCHANGED <<dirty, bytes>>
      BY <2>2 DEF ReadComplete, overlayVars
    <3>3. Span(first, n) \subseteq Sectors
      BY <3>1, <3>2, SpanInDisk
    <3>4. /\ ReadData(first, n) \in [Span(first, n) -> Data]
          /\ \A s \in Span(first, n) :
               ReadData(first, n)[s] = IF s \in dirty THEN bytes[s] ELSE Base[s]
      BY <1>2, <3>1, <3>2, ReadDataFaithful
    <3>5. reply'.kind = "data" /\ reply'.data = ReadData(first, n)
      BY <3>2
    <3>6. DOMAIN reply'.data = Span(first, n)
      BY <3>4, <3>5
    <3>7. \A s \in DOMAIN reply'.data : reply'.data[s] = D[s]
      BY <3>3, <3>4, <3>5, <3>6
    <3>8. UNCHANGED D
      BY <3>2
    <3>9. Disk!Transfers(reply'.data)
      BY <3>3, <3>4, <3>5, <3>6 DEF Disk!Transfers
    <3> QED
      BY <3>5, <3>7, <3>8, <3>9 DEF Disk!Next, Disk!Read
  <2>3. ASSUME NEW first \in 0 .. Capacity, NEW n \in 0 .. MaxCount,
               NEW new \in [Span(first, n) -> Written], WriteSectors(first, n, new),
               InRange(first, n)
        PROVE  Disk!Next
    <3>1. first \in Nat /\ n \in Nat
      BY StoreAssumption DEF Capacity
    <3>2. Span(first, n) \subseteq Sectors
      BY <2>3, <3>1, SpanInDisk
    <3>3. new \in [Span(first, n) -> Data] /\ DOMAIN new = Span(first, n)
      BY StoreAssumption
    <3>4. /\ reply'.kind = "written" /\ reply'.data = new
          /\ dirty' = dirty \cup Span(first, n)
          /\ bytes' = [s \in Sectors |-> IF s \in Span(first, n) THEN new[s] ELSE bytes[s]]
      BY <2>3 DEF WriteSectors
    <3>5. D' = [s \in Sectors |-> IF s \in Span(first, n) THEN new[s] ELSE D[s]]
      BY <3>2, <3>4
    <3>6. Disk!Transfers(reply'.data)
      BY <3>2, <3>3, <3>4 DEF Disk!Transfers
    <3> QED
      BY <3>3, <3>4, <3>5, <3>6 DEF Disk!Next, Disk!Write
  <2>4. CASE DiscardChanges
    <3>1. D' = Base /\ reply' = [kind |-> "discarded", data |-> <<>>]
      BY <2>4, StoreAssumption DEF DiscardChanges, Answer
    <3> QED
      BY <3>1 DEF Disk!Next, Disk!Discard
  <2>5. CASE UNCHANGED storeVars
    BY <2>5 DEF storeVars, overlayVars, Disk!vars
  <2>6. ASSUME NEW first \in 0 .. Capacity, NEW n \in 0 .. MaxCount,
               \/ ReadOutOfRange(first, n) \/ ReadFailed(first, n) \/ ReadMissing(first, n)
               \/ \E new \in [Span(first, n) -> Written] :
                    WriteSectors(first, n, new) /\ ~InRange(first, n)
        PROVE  Disk!Next
    <3>1. /\ \E k \in {"range", "failed", "missing"} : reply' = Answer(k)
          /\ UNCHANGED <<dirty, bytes>>
      BY <2>6 DEF ReadOutOfRange, ReadFailed, ReadMissing, WriteSectors, overlayVars
    <3> QED
      BY <2>1, <3>1 DEF Answer
  <2>7. CASE \/ NextRequest \/ ClearErrors
             \/ \E lost \in SUBSET host : ResetRequests(lost)
             \/ \E f \in host : Respond(f)
    <3>1. reply' = Answer("none") /\ UNCHANGED <<dirty, bytes>>
      BY <2>7 DEF NextRequest, ClearErrors, ResetRequests, Respond, Complete, Fail,
                  CompleteUnknown, overlayVars
    <3> QED
      BY <2>1, <3>1 DEF Answer
  <2> QED
    <3>1. ASSUME NEW first \in 0 .. Capacity, NEW n \in 0 .. MaxCount,
                 ReadSectors(first, n)
          PROVE  Disk!Next
      BY <2>2, <2>6, <3>1 DEF ReadSectors
    <3>2. ASSUME NEW first \in 0 .. Capacity, NEW n \in 0 .. MaxCount,
                 NEW new \in [Span(first, n) -> Written], WriteSectors(first, n, new)
          PROVE  Disk!Next
      BY <2>3, <2>6, <3>2
    <3>3. CASE \E first \in 0 .. Capacity, n \in 0 .. MaxCount :
                 \/ ReadSectors(first, n)
                 \/ \E new \in [Span(first, n) -> Written] : WriteSectors(first, n, new)
      BY <3>1, <3>2, <3>3
    <3>4. CASE StoreNext
      BY <3>3, <3>4, <2>4, <2>7 DEF StoreNext
    <3> QED
      BY <1>2, <2>5, <3>4
<1> QED
  BY <1>1, <1>2, StoreInvariant, PTL DEF StoreSpec, ImplementsDisk, Disk!Spec

-----------------------------------------------------------------------------
(* The stacks a task goes through.                                         *)

sFirst == <<"first">>
sDrain == <<"drain">>
sPumpDrain == <<"pump", "drain">>
sPoll == <<"poll">>
sPollDrain == <<"poll", "drain">>
sPumpPoll == <<"pump", "poll", "drain">>
sResume == <<"resume", "pump", "drain">>
sNotifyPump == <<"notify", "pump", "drain">>
sClearPump == <<"clear", "notify", "pump", "drain">>
sGuest == <<"guest">>
sNotify == <<"notify", "guest">>
sClear == <<"clear", "notify", "guest">>
sPumpHalt == <<"pump", "halt", "drain">>
sHalt == <<"halt", "drain">>
sPumpReset == <<"pump", "reset", "drain">>
sReset == <<"reset", "drain">>

Draining == {sDrain, sPumpDrain}
Polling == {sPoll, sPollDrain, sPumpPoll}
Resuming == {sResume, sNotifyPump, sClearPump}
InQuantum == {sGuest, sNotify, sClear}
Clearing == {sClearPump, sClear}
Stopping == {sPumpHalt, sHalt, sPumpReset, sReset}
Running == Resuming \cup InQuantum \cup Stopping
Stacks == {<<>>, sFirst} \cup Draining \cup Polling \cup Running

\* Stacks with which the store's queue may hold requests, and the runtime's
\* queue actions: something below will pump, and something below will drain.
WillPump == {sPumpDrain, sPumpPoll, sPumpHalt, sPumpReset} \cup Resuming \cup InQuantum
WillDrain == (Draining \cup Polling \cup Resuming \cup Stopping) \ {sPoll}

\* Only a machine that runs has a guest.
StackInv ==
  /\ stack \in Stacks
  /\ vm \in {"halted", "running", "empty"}
  /\ stack \in Running => vm = "running"
  /\ stack = sFirst \/ stack \in Polling => vm = "halted"
  /\ outgoing # <<>> => stack \in WillPump
  /\ actions # <<>> => stack \in WillDrain
  /\ serviced \in BOOLEAN
  /\ serviced => stack \in WillDrain \ Running

-----------------------------------------------------------------------------
(* Fetches.                                                                *)

Own(p) == [id |-> p.id, block |-> p.block]
Ids(S) == {f.id : f \in S}
Requests(a) == {i \in DOMAIN a : a[i].kind = "request"}
Asked(a) == {a[i].fetch : i \in Requests(a)}
Action == {Request(f) : f \in Fetch} \cup {Lifecycle(e) : e \in {"halted", "reset"}}

ActionsOK ==
  /\ actions \in Seq(Action)
  /\ \A i, j \in Requests(actions) : actions[i].fetch = actions[j].fetch => i = j

\* What the host has of the store is queued as an action or in flight, and
\* its identifiers are exactly those that the runtime knows.
HostInv ==
  /\ host = flying \cup Asked(actions)
  /\ flying \cap Asked(actions) = {}
  /\ stale \subseteq flying
  /\ \A f, g \in host : f.id = g.id => f = g
  /\ registered \cup retired = Ids(host)
  /\ rejected = FALSE

\* A fetch that is waited for is neither retired nor stale, once it is handed
\* over; a halt or a reset that the adapter has not seen leaves none.
HeardInv ==
  /\ \A p \in pending : Own(p) \in host => p.id \in registered \ retired /\ Own(p) \notin stale
  /\ Requests(actions) # DOMAIN actions => stack = sDrain /\ pending = {}

FetchInv == ActionsOK /\ HostInv /\ HeardInv

-----------------------------------------------------------------------------
(* Readers.                                                                *)

Elems(s) == {s[i] : i \in DOMAIN s}

\* Waits, of a range r and explicit collections: resident blocks c, dirty
\* sectors d, failed blocks e and pending fetches P.
StopsAt(c, d, e, r) ==
  {s \in Span(r.first, r.n) : s \notin d /\ (BlockOf(s) \in e \/ BlockOf(s) \notin c)}
StopBlock(c, d, e, r) ==
  BlockOf(CHOOSE s \in StopsAt(c, d, e, r) : \A t \in StopsAt(c, d, e, r) : s <= t)
WaitsFor(c, d, e, P, r) ==
  /\ StopsAt(c, d, e, r) # {}
  /\ \E p \in P : p.block = StopBlock(c, d, e, r) /\ p.demanded

\* The promises given out are the reads that the core remembers, but for the
\* read being made, and for those a poll is about to find gone.
PromiseInv ==
  /\ DOMAIN reads \subseteq ReadIds
  /\ \A id \in DOMAIN reads : reads[id] \in Extent
  /\ promises \in Seq(ReadIds) /\ todo \in Seq(ReadIds)
  /\ \A i, j \in DOMAIN promises : promises[i] = promises[j] => i = j
  /\ \A i, j \in DOMAIN todo : todo[i] = todo[j] => i = j
  /\ vm # "halted" => reads = <<>> /\ promises = <<>>
  /\ stack = sFirst =>
       \E id \in DOMAIN reads : todo = <<id>> /\ Elems(promises) = DOMAIN reads \ {id}
  /\ stack \in Polling =>
       /\ Elems(todo) \subseteq Elems(promises)
       /\ DOMAIN reads \subseteq Elems(promises)
       /\ Elems(promises) \subseteq DOMAIN reads \cup Elems(todo)
  /\ stack = sPoll => reads = <<>>
  /\ stack # sFirst /\ stack \notin Polling =>
       todo = <<>> /\ Elems(promises) = DOMAIN reads

\* A read of the host waits, unless it is being made or will be polled.
ReadInv ==
  \A id \in DOMAIN reads :
    \/ WaitsFor(cached, dirty, failed, pending, reads[id])
    \/ stack = sFirst /\ todo = <<id>>
    \/ stack \in Polling /\ id \in Elems(todo)
    \/ stack \in Draining /\ ~serviced

\* A request of the guest waits, unless it is being resumed; the store then
\* waits for nothing but what the request waits for; and an error is that of
\* the request being resumed.
GuestInv ==
  /\ posted \in Seq(GuestRequest) /\ parked \subseteq GuestRequest
  /\ vm # "running" => parked = {}
  /\ vm = "running" =>
       /\ \A p, q \in pending : p = q
       /\ parked = {} => pending = {}
       /\ stack # sResume =>
            \A q \in parked : WaitsFor(cached, dirty, failed, pending, q.extent)
       /\ stack = sResume =>
            /\ parked # {} /\ pending = {}
            /\ failed # {} =>
                 \A q \in parked :
                   /\ StopsAt(cached, dirty, failed, q.extent) # {}
                   /\ StopBlock(cached, dirty, failed, q.extent) \in failed
       /\ stack \in Clearing => parked = {}
       /\ failed # {} => stack \in {sResume} \cup Clearing

ServiceInv == StoreInv /\ StackInv /\ FetchInv /\ PromiseInv /\ ReadInv /\ GuestInv

-----------------------------------------------------------------------------
(* Stacks.                                                                 *)

LEMMA JoinedAs ==
  ASSUME NEW S, NEW u \in Seq(S), NEW v \in Seq(S), NEW w \in Seq(S), Len(w) = Len(u) + Len(v),
         \A i \in 1 .. Len(u) : w[i] = u[i],
         \A i \in 1 .. Len(v) : w[Len(u) + i] = v[i]
  PROVE  u \o v = w
<1>1. /\ u \o v \in Seq(S) /\ Len(u \o v) = Len(u) + Len(v)
      /\ \A i \in 1 .. Len(u) : (u \o v)[i] = u[i]
      /\ \A i \in 1 .. Len(v) : (u \o v)[Len(u) + i] = v[i]
  BY ConcatProperties
<1>2. Len(u) \in Nat /\ Len(v) \in Nat
  BY LenProperties
<1>3. ASSUME NEW i \in 1 .. Len(w) PROVE (u \o v)[i] = w[i]
  <2>1. CASE i \in 1 .. Len(u)
    BY <1>1, <2>1
  <2>2. CASE i - Len(u) \in 1 .. Len(v)
    <3>1. i = Len(u) + (i - Len(u))
      BY <1>2
    <3> QED
      BY <1>1, <2>2, <3>1
  <2> QED
    BY <1>2, <2>1, <2>2
<1> QED
  BY <1>1, <1>3, SeqEqual

LEMMA OneOne ==
  ASSUME NEW S, NEW u \in Seq(S), NEW v \in Seq(S), NEW w \in Seq(S),
         Len(u) = 1, Len(v) = 1, Len(w) = 2, u[1] = w[1], v[1] = w[2]
  PROVE  u \o v = w
<1>1. Len(w) = Len(u) + Len(v)
  OBVIOUS
<1>2. \A i \in 1 .. Len(u) : w[i] = u[i]
  OBVIOUS
<1>3. \A i \in 1 .. Len(v) : w[Len(u) + i] = v[i]
  OBVIOUS
<1> QED
  BY <1>1, <1>2, <1>3, JoinedAs

LEMMA OneTwo ==
  ASSUME NEW S, NEW u \in Seq(S), NEW v \in Seq(S), NEW w \in Seq(S),
         Len(u) = 1, Len(v) = 2, Len(w) = 3, u[1] = w[1], v[1] = w[2], v[2] = w[3]
  PROVE  u \o v = w
<1>1. Len(w) = Len(u) + Len(v)
  OBVIOUS
<1>2. \A i \in 1 .. Len(u) : w[i] = u[i]
  OBVIOUS
<1>3. \A i \in 1 .. Len(v) : w[Len(u) + i] = v[i]
  OBVIOUS
<1> QED
  BY <1>1, <1>2, <1>3, JoinedAs

LEMMA TwoOne ==
  ASSUME NEW S, NEW u \in Seq(S), NEW v \in Seq(S), NEW w \in Seq(S),
         Len(u) = 2, Len(v) = 1, Len(w) = 3, u[1] = w[1], u[2] = w[2], v[1] = w[3]
  PROVE  u \o v = w
<1>1. Len(w) = Len(u) + Len(v)
  OBVIOUS
<1>2. \A i \in 1 .. Len(u) : w[i] = u[i]
  OBVIOUS
<1>3. \A i \in 1 .. Len(v) : w[Len(u) + i] = v[i]
  OBVIOUS
<1> QED
  BY <1>1, <1>2, <1>3, JoinedAs

LEMMA TwoTwo ==
  ASSUME NEW S, NEW u \in Seq(S), NEW v \in Seq(S), NEW w \in Seq(S),
         Len(u) = 2, Len(v) = 2, Len(w) = 4, u[1] = w[1], u[2] = w[2], v[1] = w[3], v[2] = w[4]
  PROVE  u \o v = w
<1>1. Len(w) = Len(u) + Len(v)
  OBVIOUS
<1>2. \A i \in 1 .. Len(u) : w[i] = u[i]
  OBVIOUS
<1>3. \A i \in 1 .. Len(v) : w[Len(u) + i] = v[i]
  OBVIOUS
<1> QED
  BY <1>1, <1>2, <1>3, JoinedAs

LEMMA Joined ==
  \A a, b, c, d :
    /\ <<a>> \o <<b>> = <<a, b>>
    /\ <<a>> \o <<b, c>> = <<a, b, c>>
    /\ <<a, b>> \o <<c>> = <<a, b, c>>
    /\ <<a, b>> \o <<c, d>> = <<a, b, c, d>>
<1> TAKE a, b, c, d
<1> PICK S : S = {a, b, c, d}
  OBVIOUS
<1>1. /\ <<a>> \in Seq(S) /\ <<b>> \in Seq(S) /\ <<c>> \in Seq(S)
      /\ <<a, b>> \in Seq(S) /\ <<b, c>> \in Seq(S) /\ <<c, d>> \in Seq(S)
      /\ <<a, b, c>> \in Seq(S) /\ <<a, b, c, d>> \in Seq(S)
  OBVIOUS
<1>2. <<a>> \o <<b>> = <<a, b>>
  <2>1. <<a>> \in Seq(S) /\ <<b>> \in Seq(S) /\ <<a, b>> \in Seq(S)
    BY <1>1
  <2> QED
    BY ONLY <2>1, OneOne
<1>3. <<a>> \o <<b, c>> = <<a, b, c>>
  BY <1>1, OneTwo
<1>4. <<a, b>> \o <<c>> = <<a, b, c>>
  BY <1>1, TwoOne
<1>5. <<a, b>> \o <<c, d>> = <<a, b, c, d>>
  BY <1>1, TwoTwo
<1> QED
  BY <1>2, <1>3, <1>4, <1>5

\* Each stack by its top and by what is below.
LEMMA StackTable ==
  /\ sFirst # <<>> /\ Head(sFirst) = "first" /\ Tail(sFirst) = <<>>
  /\ sDrain # <<>> /\ Head(sDrain) = "drain" /\ Tail(sDrain) = <<>>
  /\ sPumpDrain # <<>> /\ Head(sPumpDrain) = "pump" /\ Tail(sPumpDrain) = sDrain
  /\ sPoll # <<>> /\ Head(sPoll) = "poll" /\ Tail(sPoll) = <<>>
  /\ sPollDrain # <<>> /\ Head(sPollDrain) = "poll" /\ Tail(sPollDrain) = sDrain
  /\ sPumpPoll # <<>> /\ Head(sPumpPoll) = "pump" /\ Tail(sPumpPoll) = sPollDrain
  /\ sResume # <<>> /\ Head(sResume) = "resume" /\ Tail(sResume) = sPumpDrain
  /\ sNotifyPump # <<>> /\ Head(sNotifyPump) = "notify" /\ Tail(sNotifyPump) = sPumpDrain
  /\ sClearPump # <<>> /\ Head(sClearPump) = "clear" /\ Tail(sClearPump) = sNotifyPump
  /\ sGuest # <<>> /\ Head(sGuest) = "guest" /\ Tail(sGuest) = <<>>
  /\ sNotify # <<>> /\ Head(sNotify) = "notify" /\ Tail(sNotify) = sGuest
  /\ sClear # <<>> /\ Head(sClear) = "clear" /\ Tail(sClear) = sNotify
  /\ sPumpHalt # <<>> /\ Head(sPumpHalt) = "pump" /\ Tail(sPumpHalt) = sHalt
  /\ sHalt # <<>> /\ Head(sHalt) = "halt" /\ Tail(sHalt) = sDrain
  /\ sPumpReset # <<>> /\ Head(sPumpReset) = "pump" /\ Tail(sPumpReset) = sReset
  /\ sReset # <<>> /\ Head(sReset) = "reset" /\ Tail(sReset) = sDrain
  BY DEF sFirst, sDrain, sPumpDrain, sPoll, sPollDrain, sPumpPoll, sResume, sNotifyPump,
     sClearPump, sGuest, sNotify, sClear, sPumpHalt, sHalt, sPumpReset, sReset

\* Which stacks are of which kind.
Kinds(s, draining, polling, clearing, running, pumps, drains) ==
  /\ s \in Stacks
  /\ s \in Draining <=> draining
  /\ s \in Polling <=> polling
  /\ s \in Clearing <=> clearing
  /\ s \in Running <=> running
  /\ s \in WillPump <=> pumps
  /\ s \in WillDrain <=> drains

LEMMA StackKinds ==
  /\ Kinds(<<>>,       FALSE, FALSE, FALSE, FALSE, FALSE, FALSE)
  /\ Kinds(sFirst,     FALSE, FALSE, FALSE, FALSE, FALSE, FALSE)
  /\ Kinds(sDrain,     TRUE,  FALSE, FALSE, FALSE, FALSE, TRUE)
  /\ Kinds(sPumpDrain, TRUE,  FALSE, FALSE, FALSE, TRUE,  TRUE)
  /\ Kinds(sPoll,      FALSE, TRUE,  FALSE, FALSE, FALSE, FALSE)
  /\ Kinds(sPollDrain, FALSE, TRUE,  FALSE, FALSE, FALSE, TRUE)
  /\ Kinds(sPumpPoll,  FALSE, TRUE,  FALSE, FALSE, TRUE,  TRUE)
  /\ Kinds(sResume,    FALSE, FALSE, FALSE, TRUE,  TRUE,  TRUE)
  /\ Kinds(sNotifyPump,FALSE, FALSE, FALSE, TRUE,  TRUE,  TRUE)
  /\ Kinds(sClearPump, FALSE, FALSE, TRUE,  TRUE,  TRUE,  TRUE)
  /\ Kinds(sGuest,     FALSE, FALSE, FALSE, TRUE,  TRUE,  FALSE)
  /\ Kinds(sNotify,    FALSE, FALSE, FALSE, TRUE,  TRUE,  FALSE)
  /\ Kinds(sClear,     FALSE, FALSE, TRUE,  TRUE,  TRUE,  FALSE)
  /\ Kinds(sPumpHalt,  FALSE, FALSE, FALSE, TRUE,  TRUE,  TRUE)
  /\ Kinds(sHalt,      FALSE, FALSE, FALSE, TRUE,  FALSE, TRUE)
  /\ Kinds(sPumpReset, FALSE, FALSE, FALSE, TRUE,  TRUE,  TRUE)
  /\ Kinds(sReset,     FALSE, FALSE, FALSE, TRUE,  FALSE, TRUE)
  BY StackTable DEF Kinds, Stacks, Draining, Polling, Running, Resuming, InQuantum, Stopping,
     Clearing, WillPump, WillDrain

\* Each stack by what is pushed on which.
LEMMA StackPushes ==
  /\ <<"pump">> \o sPollDrain = sPumpPoll
  /\ <<"poll">> \o sDrain = sPollDrain
  /\ <<"notify">> \o sGuest = sNotify
  /\ <<"notify">> \o sPumpDrain = sNotifyPump
  /\ <<"clear", "notify">> \o sGuest = sClear
  /\ <<"clear", "notify">> \o sPumpDrain = sClearPump
  /\ <<"pump", "drain">> \o <<>> = sPumpDrain
  /\ <<"pump", "halt", "drain">> \o <<>> = sPumpHalt
  /\ <<"pump", "reset", "drain">> \o <<>> = sPumpReset
  BY Joined DEF sDrain, sPumpDrain, sPollDrain, sPumpPoll, sNotifyPump, sClearPump, sGuest,
     sNotify, sClear, sPumpHalt, sPumpReset

\* What the top of the stack says about the rest.
LEMMA Tops ==
  ASSUME stack \in Stacks
  PROVE  /\ Idle => stack = <<>>
         /\ At("first") => stack = sFirst
         /\ At("guest") => stack = sGuest
         /\ At("drain") => stack = sDrain
         /\ At("halt") => stack = sHalt
         /\ At("reset") => stack = sReset
         /\ At("resume") => stack = sResume
         /\ At("poll") => stack \in {sPoll, sPollDrain}
         /\ At("clear") => stack \in Clearing
         /\ At("notify") => stack \in {sNotify, sNotifyPump}
         /\ At("pump") => stack \in {sPumpDrain, sPumpPoll, sPumpHalt, sPumpReset}
  BY StackTable DEF Stacks, At, Idle, Draining, Polling, Running, Resuming, InQuantum, Stopping,
     Clearing

-----------------------------------------------------------------------------
(* What the operations of the store do to the fetches and to the readers.  *)

\* Every fetch of P is still there in Q, and at least as demanded.
Grows(P, Q) == \A p \in P : \E q \in Q : q.block = p.block /\ (p.demanded => q.demanded)

\* Every fetch of Q is one of P, or has an identifier that the host h has not.
ComesFrom(P, Q, h) == \A q \in Q : (\E p \in P : Own(p) = Own(q)) \/ q.id \notin Ids(h)

LEMMA WaitsGrow ==
  \A c, d, e, P, Q, r : WaitsFor(c, d, e, P, r) /\ Grows(P, Q) => WaitsFor(c, d, e, Q, r)
  BY DEF WaitsFor, Grows

LEMMA WaitsDefined ==
  ASSUME NEW r
  PROVE  /\ StopsAt(cached, dirty, failed, r) = Stops(r.first, r.n)
         /\ StopBlock(cached, dirty, failed, r) = BlockOf(FirstStop(r.first, r.n))
         /\ WaitsFor(cached, dirty, failed, pending, r) <=> Waits(r)
<1>1. StopsAt(cached, dirty, failed, r) = Stops(r.first, r.n)
  BY DEF StopsAt, Stops
<1>2. StopBlock(cached, dirty, failed, r) = BlockOf(FirstStop(r.first, r.n))
  BY <1>1 DEF StopBlock, FirstStop
<1> QED
  BY <1>1, <1>2 DEF WaitsFor, Waits

LEMMA ExtentIs ==
  ASSUME NEW r \in Extent
  PROVE  /\ r.first \in 0 .. Capacity /\ r.n \in 0 .. MaxCount
         /\ r.first \in Nat /\ r.n \in Nat /\ InRange(r.first, r.n)
<1>1. Capacity \in Nat /\ MaxCount \in Nat
  BY StoreAssumption DEF Capacity
<1> QED
  BY <1>1 DEF Extent, Sectors

LEMMA StoreStays ==
  ASSUME StoreInv, UNCHANGED storeVars
  PROVE  /\ UNCHANGED <<cached, content, age, limit, dirty, bytes, failed, pending, outgoing,
                        host, reply>>
         /\ StoreInv'
<1>1. UNCHANGED <<cached, content, age, limit, dirty, bytes, failed, pending, outgoing, host,
                  reply>>
  BY DEF storeVars, cacheVars, overlayVars, fetchVars
<1>2. StoreInv'
  BY StoreNextInv
<1> QED
  BY <1>1, <1>2

LEMMA StopBlockIs ==
  ASSUME StoreInv, NEW r \in Extent, StopsAt(cached, dirty, failed, r) # {}
  PROVE  StopBlock(cached, dirty, failed, r) \in Blocks
<1>1. Stops(r.first, r.n) # {} /\ StopBlock(cached, dirty, failed, r) = BlockOf(FirstStop(r.first, r.n))
  BY WaitsDefined
<1> QED
  BY <1>1, ExtentIs, FirstStopExists DEF StoreInv

\* read_sectors leaves everything but the ages, the limit and the fetches; it
\* asks for a block if and only if it says "missing".
LEMMA ReadEffect ==
  ASSUME StoreInv, NEW r \in Extent, ReadStep(r)
  PROVE  /\ StoreInv' /\ StoreNext
         /\ UNCHANGED <<cached, dirty, failed, host>>
         /\ \/ /\ reply'.kind = "data" /\ UNCHANGED <<pending, outgoing>>
               /\ StopsAt(cached, dirty, failed, r) = {}
            \/ /\ reply'.kind = "failed" /\ UNCHANGED <<pending, outgoing>>
               /\ StopsAt(cached, dirty, failed, r) # {}
               /\ StopBlock(cached, dirty, failed, r) \in failed
            \/ /\ reply'.kind = "missing"
               /\ StopsAt(cached, dirty, failed, r) # {}
               /\ StopBlock(cached, dirty, failed, r) \notin failed
               /\ RequestBlock(StopBlock(cached, dirty, failed, r), TRUE)
<1>1. ReadSectors(r.first, r.n)
  BY DEF ReadStep
<1>2. StoreNext
  BY <1>1, ExtentIs DEF StoreNext
<1>3. StoreInv'
  BY <1>2, StoreNextInv
<1>4. ~ReadOutOfRange(r.first, r.n)
  BY ExtentIs DEF ReadOutOfRange
<1>5. CASE ReadComplete(r.first, r.n)
  <2>1. reply'.kind = "data" /\ UNCHANGED <<cached, overlayVars, fetchVars>> /\ Stops(r.first, r.n) = {}
    BY <1>5 DEF ReadComplete
  <2> QED
    BY <1>2, <1>3, <2>1, WaitsDefined DEF overlayVars, fetchVars
<1>6. CASE ReadFailed(r.first, r.n)
  <2>1. /\ reply'.kind = "failed" /\ UNCHANGED <<cached, overlayVars, fetchVars>>
        /\ Stops(r.first, r.n) # {} /\ BlockOf(FirstStop(r.first, r.n)) \in failed
    BY <1>6 DEF ReadFailed, Answer
  <2> QED
    BY <1>2, <1>3, <2>1, WaitsDefined DEF overlayVars, fetchVars
<1>7. CASE ReadMissing(r.first, r.n)
  <2>1. /\ reply'.kind = "missing" /\ UNCHANGED <<cached, overlayVars, failed, host>>
        /\ Stops(r.first, r.n) # {} /\ BlockOf(FirstStop(r.first, r.n)) \notin failed
        /\ RequestBlock(BlockOf(FirstStop(r.first, r.n)), TRUE)
    BY <1>7 DEF ReadMissing, Answer
  <2> QED
    BY <1>2, <1>3, <2>1, WaitsDefined DEF overlayVars
<1> QED
  BY <1>1, <1>4, <1>5, <1>6, <1>7 DEF ReadSectors

\* request_block: whoever waits goes on waiting, and the reader waits too.
LEMMA RequestEffect ==
  ASSUME StoreInv, NEW b \in Blocks, RequestBlock(b, TRUE)
  PROVE  /\ Grows(pending, pending') /\ ComesFrom(pending, pending', host)
         /\ \E q \in pending' : q.block = b /\ q.demanded
         /\ pending = {} => \A p, q \in pending' : p = q
<1>1. pending \subseteq PendingChunk
  BY DEF StoreInv, TypeOK
<1>2. CASE JoinFetch(b, TRUE)
  <2> DEFINE J(p) == IF p.block = b THEN [p EXCEPT !.demanded = @ \/ TRUE] ELSE p
  <2>1. pending' = {J(p) : p \in pending} /\ \E p \in pending : p.block = b
    BY <1>2 DEF JoinFetch
  <2>2. ASSUME NEW p \in pending
        PROVE  /\ J(p).block = p.block /\ J(p).id = p.id /\ (p.demanded => J(p).demanded)
               /\ (p.block = b => J(p).demanded)
    BY <1>1 DEF PendingChunk
  <2> HIDE DEF J
  <2>3. Grows(pending, pending')
    BY <2>1, <2>2 DEF Grows
  <2>4. ComesFrom(pending, pending', host)
    BY <2>1, <2>2 DEF ComesFrom, Own
  <2>5. \E q \in pending' : q.block = b /\ q.demanded
    BY <2>1, <2>2
  <2> QED
    BY <2>1, <2>3, <2>4, <2>5
<1>3. CASE QueueFetch(b, TRUE)
  <2>1. PICK id \in RequestIds :
          /\ FreshId(id)
          /\ pending' = pending \cup {[id |-> id, block |-> b, demanded |-> TRUE]}
    BY <1>3 DEF QueueFetch
  <2>2. id \notin Ids(host)
    BY <2>1 DEF FreshId, UsedIds, Ids
  <2>3. Grows(pending, pending')
    BY <2>1 DEF Grows
  <2>4. ComesFrom(pending, pending', host)
    BY <2>1, <2>2 DEF ComesFrom
  <2>5. \E q \in pending' : q.block = b /\ q.demanded
    <3> DEFINE n == [id |-> id, block |-> b, demanded |-> TRUE]
    <3>1. n.block = b /\ n.demanded
      OBVIOUS
    <3>2. n \in pending'
      BY <2>1
    <3> HIDE DEF n
    <3> QED
      BY <3>1, <3>2
  <2>6. pending = {} => \A p, q \in pending' : p = q
    BY <2>1
  <2> QED
    BY <2>3, <2>4, <2>5, <2>6
<1> QED
  BY <1>2, <1>3 DEF RequestBlock

\* A read, as the fetches and the readers see it.
LEMMA ReadSeen ==
  ASSUME StoreInv, NEW r \in Extent, ReadStep(r)
  PROVE  /\ Grows(pending, pending') /\ ComesFrom(pending, pending', host)
         /\ reply'.kind = "missing" =>
              /\ WaitsFor(cached, dirty, failed, pending', r)
              /\ pending = {} => \A p, q \in pending' : p = q
         /\ reply'.kind # "missing" => UNCHANGED <<pending, outgoing>>
<1>1. UNCHANGED pending => Grows(pending, pending') /\ ComesFrom(pending, pending', host)
  BY DEF Grows, ComesFrom
<1>2. CASE reply'.kind # "missing"
  BY <1>1, <1>2, ReadEffect
<1>3. CASE reply'.kind = "missing"
  <2>1. /\ StopsAt(cached, dirty, failed, r) # {}
        /\ RequestBlock(StopBlock(cached, dirty, failed, r), TRUE)
    BY <1>3, ReadEffect
  <2>2. StopBlock(cached, dirty, failed, r) \in Blocks
    BY <2>1, StopBlockIs
  <2>3. /\ Grows(pending, pending') /\ ComesFrom(pending, pending', host)
        /\ \E q \in pending' : q.block = StopBlock(cached, dirty, failed, r) /\ q.demanded
        /\ pending = {} => \A p, q \in pending' : p = q
    BY <2>1, <2>2, RequestEffect
  <2> QED
    BY <1>3, <2>1, <2>3 DEF WaitsFor
<1> QED
  BY <1>2, <1>3

-----------------------------------------------------------------------------
(* The fetches, when a step leaves the runtime and the adapter alone.      *)

LEMMA NoLifecycle ==
  ASSUME FetchInv, stack # sDrain \/ actions = <<>>
  PROVE  Requests(actions) = DOMAIN actions
<1>1. actions = <<>> => Requests(actions) = DOMAIN actions
  BY DEF Requests
<1> QED
  BY <1>1 DEF FetchInv, HeardInv

LEMMA FetchesStay ==
  ASSUME FetchInv, stack # sDrain \/ actions = <<>>, UNCHANGED <<httpVars, host>>,
         ComesFrom(pending, pending', host)
  PROVE  FetchInv'
<1>1. UNCHANGED <<registered, retired, actions, flying, stale, rejected, host>>
  BY DEF httpVars
<1>2. Requests(actions') = DOMAIN actions'
  BY <1>1, NoLifecycle
<1>3. ActionsOK'
  BY <1>1 DEF FetchInv, ActionsOK
<1>4. HostInv'
  BY <1>1 DEF FetchInv, HostInv
<1>5. ASSUME NEW q \in pending', Own(q) \in host
      PROVE  q.id \in registered \ retired /\ Own(q) \notin stale
  <2>1. q.id \in Ids(host)
    BY <1>5 DEF Ids, Own
  <2>2. PICK p \in pending : Own(p) = Own(q)
    BY <2>1 DEF ComesFrom
  <2>3. p.id = q.id
    BY <2>2 DEF Own
  <2> QED
    BY <1>5, <2>2, <2>3 DEF FetchInv, HeardInv
<1>6. HeardInv'
  BY <1>1, <1>2, <1>5 DEF HeardInv
<1> QED
  BY <1>3, <1>4, <1>6 DEF FetchInv

-----------------------------------------------------------------------------
(* Steps that only move the stack.                                         *)

LEMMA PumpDoneKeeps ==
  ASSUME ServiceInv, PumpDone
  PROVE  ServiceInv'
<1> USE DEF ServiceInv
<1>1. /\ At("pump") /\ outgoing = <<>> /\ stack' = Tail(stack)
      /\ UNCHANGED <<storeVars, vm, hostVars, httpVars, guestVars>>
  BY DEF PumpDone, Return
<1>2. /\ StoreInv' /\ UNCHANGED <<cached, dirty, failed, pending, outgoing, host>>
  BY <1>1, StoreStays
<1>3. UNCHANGED <<reads, promises, todo, serviced, posted, parked, actions>>
  BY <1>1 DEF hostVars, guestVars, httpVars
<1>4. \/ stack = sPumpDrain /\ stack' = sDrain
      \/ stack = sPumpPoll /\ stack' = sPollDrain
      \/ stack = sPumpHalt /\ stack' = sHalt
      \/ stack = sPumpReset /\ stack' = sReset
  BY <1>1, Tops, StackTable DEF StackInv
<1>5. FetchInv'
  <2>1. stack # sDrain /\ ComesFrom(pending, pending', host)
    BY <1>2, <1>4, StackTable DEF ComesFrom
  <2> QED
    BY <1>1, <1>2, <2>1, FetchesStay
<1>6. StackInv'
  BY <1>1, <1>2, <1>3, <1>4, StackKinds DEF Kinds, StackInv
<1>7. PromiseInv'
  BY <1>1, <1>3, <1>4, StackTable, StackKinds DEF Kinds, PromiseInv
<1>8. ReadInv'
  BY <1>2, <1>3, <1>4, StackTable, StackKinds DEF Kinds, ReadInv
<1>9. GuestInv'
  BY <1>1, <1>2, <1>3, <1>4, StackTable, StackKinds DEF Kinds, GuestInv
<1> QED
  BY <1>2, <1>5, <1>6, <1>7, <1>8, <1>9

LEMMA PollDoneKeeps ==
  ASSUME ServiceInv, PollDone
  PROVE  ServiceInv'
<1> USE DEF ServiceInv
<1>1. /\ At("poll") /\ todo = <<>> /\ stack' = Tail(stack)
      /\ UNCHANGED <<storeVars, vm, hostVars, httpVars, guestVars>>
  BY DEF PollDone, Return
<1>2. /\ StoreInv' /\ UNCHANGED <<cached, dirty, failed, pending, outgoing, host>>
  BY <1>1, StoreStays
<1>3. UNCHANGED <<reads, promises, todo, serviced, posted, parked, actions>>
  BY <1>1 DEF hostVars, guestVars, httpVars
<1>4. \/ stack = sPoll /\ stack' = <<>>
      \/ stack = sPollDrain /\ stack' = sDrain
  BY <1>1, Tops, StackTable DEF StackInv
<1>5. FetchInv'
  <2>1. stack # sDrain /\ ComesFrom(pending, pending', host)
    BY <1>2, <1>4, StackTable DEF ComesFrom
  <2> QED
    BY <1>1, <1>2, <2>1, FetchesStay
<1>6. StackInv'
  BY <1>1, <1>2, <1>3, <1>4, StackKinds DEF Kinds, StackInv
<1>7. Elems(todo) = {}
  BY <1>1 DEF Elems
<1>8. PromiseInv'
  BY <1>1, <1>3, <1>4, <1>7, StackTable, StackKinds DEF Kinds, PromiseInv
<1>9. ReadInv'
  BY <1>2, <1>3, <1>4, <1>7, StackTable, StackKinds DEF Kinds, ReadInv
<1>10. GuestInv'
  BY <1>1, <1>2, <1>3, <1>4, StackTable, StackKinds DEF Kinds, GuestInv
<1> QED
  BY <1>2, <1>5, <1>6, <1>8, <1>9, <1>10

LEMMA DrainServiceKeeps ==
  ASSUME ServiceInv, DrainService
  PROVE  ServiceInv'
<1> USE DEF ServiceInv
<1>1. /\ At("drain") /\ actions = <<>> /\ promises # <<>> /\ serviced' = TRUE /\ todo' = promises
      /\ stack' = <<"poll">> \o stack
      /\ UNCHANGED <<storeVars, vm, reads, promises, httpVars, guestVars>>
  BY DEF DrainService
<1>2. /\ StoreInv' /\ UNCHANGED <<cached, dirty, failed, pending, outgoing, host>>
  BY <1>1, StoreStays
<1>3. UNCHANGED <<posted, parked, actions>>
  BY <1>1 DEF guestVars, httpVars
<1>4. stack = sDrain /\ stack' = sPollDrain
  BY <1>1, Tops, StackPushes DEF StackInv
<1>5. FetchInv'
  <2>1. ComesFrom(pending, pending', host)
    BY <1>2 DEF ComesFrom
  <2> QED
    BY <1>1, <1>2, <2>1, FetchesStay
<1>6. vm = "halted"
  BY <1>1 DEF PromiseInv
<1>7. StackInv'
  BY <1>1, <1>2, <1>3, <1>4, <1>6, StackKinds DEF Kinds, StackInv
<1>8. PromiseInv'
  BY <1>1, <1>3, <1>4, <1>6, StackTable, StackKinds DEF Kinds, PromiseInv
<1>9. ReadInv'
  BY <1>1, <1>2, <1>3, <1>4, StackTable, StackKinds DEF Kinds, ReadInv, PromiseInv
<1>10. GuestInv'
  BY <1>1, <1>2, <1>3, <1>4, <1>6 DEF GuestInv
<1> QED
  BY <1>2, <1>5, <1>7, <1>8, <1>9, <1>10

LEMMA DrainDoneKeeps ==
  ASSUME ServiceInv, DrainDone
  PROVE  ServiceInv'
<1> USE DEF ServiceInv
<1>1. /\ At("drain") /\ actions = <<>> /\ (promises = <<>> \/ serviced) /\ serviced' = FALSE
      /\ stack' = Tail(stack)
      /\ UNCHANGED <<storeVars, vm, reads, promises, todo, httpVars, guestVars>>
  BY DEF DrainDone, Return
<1>2. /\ StoreInv' /\ UNCHANGED <<cached, dirty, failed, pending, outgoing, host>>
  BY <1>1, StoreStays
<1>3. UNCHANGED <<posted, parked, actions>>
  BY <1>1 DEF guestVars, httpVars
<1>4. stack = sDrain /\ stack' = <<>>
  BY <1>1, Tops, StackTable DEF StackInv
<1>5. FetchInv'
  <2>1. ComesFrom(pending, pending', host)
    BY <1>2 DEF ComesFrom
  <2> QED
    BY <1>1, <1>2, <2>1, FetchesStay
<1>6. StackInv'
  <2>1. outgoing = <<>>
    BY <1>4, StackKinds DEF Kinds, StackInv
  <2> QED
    BY <1>1, <1>2, <1>3, <1>4, <2>1, StackKinds, StackTable DEF Kinds, StackInv
<1>7. PromiseInv'
  BY <1>1, <1>3, <1>4, StackTable, StackKinds DEF Kinds, PromiseInv
<1>8. serviced \/ DOMAIN reads = {}
  <2>1. Elems(promises) = DOMAIN reads
    BY <1>4, StackTable, StackKinds DEF Kinds, PromiseInv
  <2>2. promises = <<>> => Elems(promises) = {}
    BY DEF Elems
  <2> QED
    BY <1>1, <2>1, <2>2
<1>9. ReadInv'
  BY <1>1, <1>2, <1>3, <1>4, <1>8, StackTable, StackKinds DEF Kinds, ReadInv
<1>10. GuestInv'
  BY <1>1, <1>2, <1>3, <1>4, StackTable, StackKinds DEF Kinds, GuestInv
<1> QED
  BY <1>2, <1>5, <1>6, <1>7, <1>9, <1>10

\* The guest runs, and only the stack or its queue changes.
LEMMA GuestMoves ==
  ASSUME ServiceInv, vm = "running", UNCHANGED <<storeVars, vm, hostVars, httpVars, parked>>,
         posted' \in Seq(GuestRequest),
         \/ stack = <<>> /\ stack' = sGuest
         \/ stack = sGuest /\ stack' \in {sNotify, sPumpDrain, sPumpHalt, sPumpReset}
         \/ stack = sNotify /\ stack' = sGuest
         \/ stack = sNotifyPump /\ stack' = sPumpDrain
  PROVE  ServiceInv'
<1> USE DEF ServiceInv
<1>1. /\ StoreInv' /\ UNCHANGED <<cached, dirty, failed, pending, outgoing, host>>
  BY StoreStays
<1>2. UNCHANGED <<reads, promises, todo, serviced, actions>>
  BY DEF hostVars, httpVars
<1>3. FetchInv'
  <2>1. stack # sDrain /\ ComesFrom(pending, pending', host)
    BY <1>1, StackTable DEF ComesFrom
  <2> QED
    BY <1>1, <2>1, FetchesStay
<1>4. StackInv'
  BY <1>1, <1>2, StackKinds DEF Kinds, StackInv
<1>5. PromiseInv'
  BY <1>2, StackTable, StackKinds DEF Kinds, PromiseInv
<1>6. ReadInv'
  <2>1. reads' = <<>>
    BY <1>2 DEF PromiseInv
  <2> QED
    BY <2>1 DEF ReadInv
<1>7. GuestInv'
  BY <1>1, StackTable, StackKinds DEF Kinds, GuestInv
<1> QED
  BY <1>1, <1>3, <1>4, <1>5, <1>6, <1>7

LEMMA QuantumKeeps ==
  ASSUME ServiceInv, Quantum
  PROVE  ServiceInv'
<1>1. /\ vm = "running" /\ stack = <<>> /\ stack' = sGuest
      /\ UNCHANGED <<storeVars, vm, hostVars, httpVars, guestVars>>
  BY DEF Quantum, Idle, sGuest
<1>2. UNCHANGED parked /\ posted' \in Seq(GuestRequest)
  BY <1>1 DEF guestVars, ServiceInv, GuestInv
<1> QED
  BY <1>1, <1>2, GuestMoves

LEMMA GuestSubmitKeeps ==
  ASSUME ServiceInv, NEW q \in GuestRequest, GuestSubmit(q)
  PROVE  ServiceInv'
<1>1. /\ At("guest") /\ posted' = Append(posted, q) /\ stack' = <<"notify">> \o stack
      /\ UNCHANGED <<storeVars, vm, hostVars, httpVars, parked>>
  BY DEF GuestSubmit
<1>2. stack = sGuest /\ stack' = sNotify /\ vm = "running"
  BY <1>1, Tops, StackPushes, StackKinds DEF Kinds, ServiceInv, StackInv
<1>3. posted' \in Seq(GuestRequest)
  BY <1>1, AppendPlaces DEF ServiceInv, GuestInv
<1> QED
  BY <1>1, <1>2, <1>3, GuestMoves

LEMMA GuestEndKeeps ==
  ASSUME ServiceInv, GuestYield \/ GuestPoweroff \/ GuestReboot
  PROVE  ServiceInv'
<1>1. /\ At("guest") /\ UNCHANGED <<storeVars, vm, hostVars, httpVars, guestVars>>
      /\ \E way \in {<<"pump", "drain">>, <<"pump", "halt", "drain">>, <<"pump", "reset", "drain">>} :
           stack' = way \o Tail(stack)
  BY DEF GuestYield, GuestPoweroff, GuestReboot, GuestEnd, Become
<1>2. stack = sGuest /\ Tail(stack) = <<>> /\ vm = "running"
  BY <1>1, Tops, StackTable, StackKinds DEF Kinds, ServiceInv, StackInv
<1>3. stack' \in {sPumpDrain, sPumpHalt, sPumpReset}
  BY <1>1, <1>2, StackPushes
<1>4. UNCHANGED parked /\ posted' \in Seq(GuestRequest)
  BY <1>1 DEF guestVars, ServiceInv, GuestInv
<1> QED
  BY <1>1, <1>2, <1>3, <1>4, GuestMoves

LEMMA NotifyDoneKeeps ==
  ASSUME ServiceInv, NotifyDone
  PROVE  ServiceInv'
<1>1. /\ At("notify") /\ stack' = Tail(stack)
      /\ UNCHANGED <<storeVars, vm, hostVars, httpVars, guestVars>>
  BY DEF NotifyDone, Return
<1>2. /\ vm = "running"
      /\ \/ stack = sNotify /\ stack' = sGuest
         \/ stack = sNotifyPump /\ stack' = sPumpDrain
  BY <1>1, Tops, StackTable, StackKinds DEF Kinds, ServiceInv, StackInv
<1>3. UNCHANGED parked /\ posted' \in Seq(GuestRequest)
  BY <1>1 DEF guestVars, ServiceInv, GuestInv
<1> QED
  BY <1>1, <1>2, <1>3, GuestMoves

-----------------------------------------------------------------------------
(* The reads of the host.                                                  *)

LEMMA RemovedPlaces ==
  ASSUME NEW S, NEW s \in Seq(S), NEW k \in 1 .. Len(s)
  PROVE  /\ Without(s, k) \in Seq(S) /\ Len(Without(s, k)) = Len(s) - 1
         /\ \A i \in 1 .. k - 1 : Without(s, k)[i] = s[i]
         /\ \A i \in 1 .. Len(s) - k : Without(s, k)[(k - 1) + i] = s[k + i]
<1>1. Len(s) \in Nat /\ k - 1 \in 0 .. Len(s) /\ k \in 0 .. Len(s) /\ k \in Nat
  BY LenProperties
<1>2. PICK u \in Seq(S) :
        u = SubSeq(s, 1, k - 1) /\ Len(u) = k - 1 /\ \A i \in 1 .. k - 1 : u[i] = s[i]
  <2> DEFINE u == SubSeq(s, 1, k - 1)
  <2>1. u \in Seq(S) /\ Len(u) = k - 1 /\ \A i \in 1 .. k - 1 : u[i] = s[i]
    BY <1>1, Split
  <2> HIDE DEF u
  <2>2. \E x \in Seq(S) : x = u /\ Len(x) = k - 1 /\ \A i \in 1 .. k - 1 : x[i] = s[i]
    BY <2>1
  <2> QED
    BY <2>2 DEF u
<1>3. PICK v \in Seq(S) :
        /\ v = SubSeq(s, k + 1, Len(s)) /\ Len(v) = Len(s) - k
        /\ \A i \in 1 .. Len(s) - k : v[i] = s[k + i]
  <2> DEFINE v == SubSeq(s, k + 1, Len(s))
  <2>1. /\ v \in Seq(S) /\ Len(v) = Len(s) - k
        /\ \A i \in 1 .. Len(s) - k : v[i] = s[k + i]
    BY <1>1, Split
  <2> HIDE DEF v
  <2>2. \E x \in Seq(S) : /\ x = v /\ Len(x) = Len(s) - k
                          /\ \A i \in 1 .. Len(s) - k : x[i] = s[k + i]
    BY <2>1
  <2> QED
    BY <2>2 DEF v
<1>4. Without(s, k) = u \o v
  BY <1>2, <1>3 DEF Without
<1>5. /\ Without(s, k) \in Seq(S) /\ Len(Without(s, k)) = Len(u) + Len(v)
      /\ \A i \in 1 .. Len(u) : Without(s, k)[i] = u[i]
      /\ \A i \in 1 .. Len(v) : Without(s, k)[Len(u) + i] = v[i]
  BY ONLY u \in Seq(S), v \in Seq(S), <1>4, ConcatProperties
<1>6. Len(Without(s, k)) = Len(s) - 1
  <2>1. Len(u) = k - 1 /\ Len(v) = Len(s) - k /\ Len(Without(s, k)) = Len(u) + Len(v)
    BY <1>2, <1>3, <1>5
  <2> QED
    BY ONLY <1>1, <2>1
<1>7. \A i \in 1 .. k - 1 : Without(s, k)[i] = s[i]
  BY <1>2, <1>5
<1>8. \A i \in 1 .. Len(s) - k : Without(s, k)[(k - 1) + i] = s[k + i]
  BY <1>2, <1>3, <1>5
<1> QED
  BY <1>5, <1>6, <1>7, <1>8

\* What is left of a sequence without repetitions when one place is removed.
LEMMA Removed ==
  ASSUME NEW S, NEW s \in Seq(S), \A i, j \in DOMAIN s : s[i] = s[j] => i = j,
         NEW k \in DOMAIN s
  PROVE  /\ Without(s, k) \in Seq(S) /\ Elems(Without(s, k)) = Elems(s) \ {s[k]}
         /\ \A i, j \in DOMAIN Without(s, k) : Without(s, k)[i] = Without(s, k)[j] => i = j
<1>1. Len(s) \in Nat /\ DOMAIN s = 1 .. Len(s) /\ k \in Int /\ 1 <= k /\ k <= Len(s)
  BY LenProperties
<1>2. PICK m \in Nat : k = m + 1 /\ k - 1 = m
  <2>1. k - 1 \in Nat /\ k = (k - 1) + 1
    BY <1>1
  <2> QED
    BY <2>1
<1>3. PICK n \in Nat : n = Len(s)
  BY <1>1
<1> DEFINE t == Without(s, k)
<1>4. /\ t \in Seq(S) /\ Len(t) = n - 1
      /\ \A i \in 1 .. m : t[i] = s[i]
      /\ \A i \in 1 .. n - (m + 1) : t[m + i] = s[(m + 1) + i]
  <2>1. k \in 1 .. Len(s)
    BY <1>1
  <2>2. /\ t \in Seq(S) /\ Len(t) = Len(s) - 1
        /\ \A i \in 1 .. k - 1 : t[i] = s[i]
        /\ \A i \in 1 .. Len(s) - k : t[(k - 1) + i] = s[k + i]
    BY <2>1, RemovedPlaces
  <2> HIDE DEF t
  <2> QED
    BY <1>2, <1>3, <2>2
<1> HIDE DEF t
<1>5. DOMAIN t = 1 .. n - 1
  BY <1>1, <1>3, <1>4, LenProperties
<1>6. ASSUME NEW i \in 1 .. n - 1
      PROVE  \/ i <= m /\ t[i] = s[i] /\ i \in 1 .. n
             \/ i > m /\ t[i] = s[i + 1] /\ i + 1 \in 1 .. n
  <2>1. CASE i <= m
    <3>1. i \in 1 .. m /\ i \in 1 .. n
      BY <2>1
    <3> QED
      BY <1>4, <2>1, <3>1
  <2>2. CASE i > m
    <3>1. PICK j \in Nat : j = i - m
      BY <2>2
    <3>2. j \in 1 .. n - (m + 1) /\ i = m + j /\ i + 1 = (m + 1) + j /\ i + 1 \in 1 .. n
      BY ONLY <3>1, <2>2, i \in 1 .. n - 1, m \in Nat, n \in Nat
    <3>3. t[m + j] = s[(m + 1) + j]
      BY <1>4, <3>2
    <3> QED
      BY <2>2, <3>2, <3>3
  <2>3. i <= m \/ i > m
    OBVIOUS
  <2> QED
    BY <2>1, <2>2, <2>3
<1>7. ASSUME NEW i \in 1 .. n - 1, NEW j \in 1 .. n - 1, t[i] = t[j] PROVE i = j
  <2>1. PICK a \in 1 .. n : t[i] = s[a] /\ ((i <= m /\ a = i) \/ (i > m /\ a = i + 1))
    BY <1>6
  <2>2. PICK b \in 1 .. n : t[j] = s[b] /\ ((j <= m /\ b = j) \/ (j > m /\ b = j + 1))
    BY <1>6
  <2>3. a = b
    BY <1>1, <1>3, <1>7, <2>1, <2>2
  <2> QED
    BY <2>1, <2>2, <2>3
<1>8. ASSUME NEW i \in 1 .. n - 1 PROVE t[i] \in Elems(s) \ {s[k]}
  <2>1. PICK a \in 1 .. n : t[i] = s[a] /\ ((i <= m /\ a = i) \/ (i > m /\ a = i + 1))
    BY <1>6
  <2>2. a # k
    BY <1>2, <2>1
  <2> QED
    BY <1>1, <1>3, <2>1, <2>2 DEF Elems
<1>9. ASSUME NEW a \in 1 .. n, a # k PROVE s[a] \in Elems(t)
  <2>1. CASE a <= m
    <3>1. a \in 1 .. n - 1 /\ a \in 1 .. m
      BY <1>1, <1>2, <1>3, <2>1
    <3> QED
      BY <1>4, <1>5, <3>1 DEF Elems
  <2>2. CASE a > m
    <3>1. PICK j \in Nat : a = (m + 1) + j
      <4>1. a - (m + 1) \in Nat /\ a = (m + 1) + (a - (m + 1))
        BY <1>2, <1>9, <2>2
      <4> QED
        BY <4>1
    <3>2. j \in 1 .. n - (m + 1) /\ m + j \in 1 .. n - 1
      BY <1>2, <1>9, <3>1
    <3>3. t[m + j] = s[a]
      BY <1>4, <3>1, <3>2
    <3> QED
      BY <1>5, <3>2, <3>3 DEF Elems
  <2> QED
    BY <2>1, <2>2
<1>10. Elems(t) \subseteq Elems(s) \ {s[k]}
  BY <1>5, <1>8 DEF Elems
<1>11. Elems(s) \ {s[k]} \subseteq Elems(t)
  BY <1>1, <1>3, <1>9 DEF Elems
<1> QED
  BY <1>4, <1>5, <1>7, <1>10, <1>11 DEF t

LEMMA TailOnce ==
  ASSUME NEW S, NEW s \in Seq(S), s # <<>>, \A i, j \in DOMAIN s : s[i] = s[j] => i = j
  PROVE  /\ Tail(s) \in Seq(S) /\ Head(s) \in Elems(s) /\ Head(s) \in S
         /\ Elems(Tail(s)) = Elems(s) \ {Head(s)}
         /\ \A i, j \in DOMAIN Tail(s) : Tail(s)[i] = Tail(s)[j] => i = j
<1> DEFINE t == Tail(s)
<1>1. /\ t \in Seq(S) /\ Head(s) \in S /\ Head(s) = s[1] /\ 1 \in DOMAIN s
      /\ \A i \in DOMAIN t : /\ i + 1 \in DOMAIN s /\ t[i] = s[i + 1]
                             /\ i \in Nat /\ 1 < i + 1
      /\ \A i \in DOMAIN s : i = 1 \/ (i - 1 \in DOMAIN t /\ (i - 1) + 1 = i)
  BY TailPlaces
<1> HIDE DEF t
<1>2. ASSUME NEW i \in DOMAIN t, NEW j \in DOMAIN t, t[i] = t[j] PROVE i = j
  <2>1. i + 1 = j + 1
    BY <1>1, <1>2
  <2> QED
    BY <1>1, <2>1
<1>3. ASSUME NEW i \in DOMAIN t PROVE t[i] \in Elems(s) /\ t[i] # s[1]
  BY <1>1 DEF Elems
<1>4. ASSUME NEW i \in DOMAIN s, i # 1 PROVE s[i] \in Elems(t)
  <2>1. i - 1 \in DOMAIN t /\ (i - 1) + 1 = i
    BY <1>1, <1>4
  <2>2. t[i - 1] = s[i]
    BY <1>1, <2>1
  <2> QED
    BY <2>1, <2>2 DEF Elems
<1>5. Elems(t) = Elems(s) \ {s[1]}
  <2>1. Elems(t) \subseteq Elems(s) \ {s[1]}
    BY <1>3 DEF Elems
  <2>2. ASSUME NEW x \in Elems(s), x # s[1] PROVE x \in Elems(t)
    <3>1. PICK i \in DOMAIN s : x = s[i]
      BY DEF Elems
    <3> QED
      BY <1>4, <2>2, <3>1
  <2> QED
    BY <2>1, <2>2
<1>6. s[1] \in Elems(s)
  BY <1>1 DEF Elems
<1> QED
  BY <1>1, <1>2, <1>5, <1>6 DEF t

LEMMA SettleEffect ==
  ASSUME PromiseInv, NEW id, Settle(id)
  PROVE  /\ promises' \in Seq(ReadIds) /\ Elems(promises') = Elems(promises) \ {id}
         /\ \A i, j \in DOMAIN promises' : promises'[i] = promises'[j] => i = j
<1>1. PICK k \in DOMAIN promises : promises[k] = id /\ promises' = Without(promises, k)
  BY DEF Settle
<1>2. promises \in Seq(ReadIds) /\ \A i, j \in DOMAIN promises : promises[i] = promises[j] => i = j
  BY DEF PromiseInv
<1>3. /\ Without(promises, k) \in Seq(ReadIds)
      /\ Elems(Without(promises, k)) = Elems(promises) \ {promises[k]}
      /\ \A i, j \in DOMAIN Without(promises, k) :
           Without(promises, k)[i] = Without(promises, k)[j] => i = j
  BY <1>1, <1>2, Removed
<1> QED
  BY <1>1, <1>3

\* Between tasks nothing is queued.
LEMMA IdleIs ==
  ASSUME ServiceInv, Idle
  PROVE  /\ stack = <<>> /\ outgoing = <<>> /\ actions = <<>> /\ serviced = FALSE /\ todo = <<>>
         /\ Elems(promises) = DOMAIN reads
         /\ \A id \in DOMAIN reads : WaitsFor(cached, dirty, failed, pending, reads[id])
<1>1. stack = <<>>
  BY DEF Idle
<1>2. outgoing = <<>> /\ actions = <<>> /\ serviced = FALSE
  BY <1>1, StackKinds DEF Kinds, ServiceInv, StackInv
<1>3. todo = <<>> /\ Elems(promises) = DOMAIN reads
  BY <1>1, StackTable, StackKinds DEF Kinds, ServiceInv, PromiseInv
<1>4. \A id \in DOMAIN reads : WaitsFor(cached, dirty, failed, pending, reads[id])
  BY <1>1, StackTable, StackKinds DEF Kinds, ServiceInv, ReadInv
<1> QED
  BY <1>1, <1>2, <1>3, <1>4

LEMMA HostReadKeeps ==
  ASSUME ServiceInv, NEW id \in ReadIds, NEW r \in Extent, HostRead(id, r)
  PROVE  ServiceInv'
<1> USE DEF ServiceInv
<1>1. /\ Idle /\ vm = "halted" /\ id \notin DOMAIN reads /\ todo' = <<id>> /\ stack' = sFirst
      /\ reads' = [i \in DOMAIN reads \cup {id} |-> IF i = id THEN r ELSE reads[i]]
      /\ IF reads = <<>> THEN ClearErrors ELSE UNCHANGED storeVars
      /\ UNCHANGED <<vm, promises, serviced, httpVars, guestVars>>
  BY DEF HostRead, sFirst
<1>2. /\ stack = <<>> /\ outgoing = <<>> /\ actions = <<>> /\ serviced = FALSE
      /\ Elems(promises) = DOMAIN reads
      /\ \A i \in DOMAIN reads : WaitsFor(cached, dirty, failed, pending, reads[i])
  BY <1>1, IdleIs
<1>3. /\ StoreInv' /\ UNCHANGED <<cached, dirty, pending, outgoing, host>>
      /\ DOMAIN reads = {} \/ failed' = failed
  <2>1. CASE ClearErrors /\ reads = <<>>
    <3>1. StoreInv'
      BY <2>1, StoreNextInv DEF StoreNext
    <3> QED
      BY <2>1, <3>1 DEF ClearErrors, cacheVars, overlayVars
  <2>2. CASE UNCHANGED storeVars
    BY <2>2, StoreStays
  <2> QED
    BY <1>1, <2>1, <2>2
<1>4. FetchInv'
  <2>1. ComesFrom(pending, pending', host)
    BY <1>3 DEF ComesFrom
  <2> QED
    BY <1>1, <1>2, <1>3, <2>1, FetchesStay
<1>5. UNCHANGED <<posted, parked, actions>>
  BY <1>1 DEF guestVars, httpVars
<1>6. StackInv'
  BY <1>1, <1>2, <1>3, <1>5, StackKinds DEF Kinds, StackInv
<1>7. /\ DOMAIN reads' = DOMAIN reads \cup {id} /\ reads'[id] = r
      /\ \A i \in DOMAIN reads : reads'[i] = reads[i]
  BY <1>1
<1>8. PromiseInv'
  <2>1. \A i \in DOMAIN reads' : reads'[i] \in Extent
    BY <1>7 DEF PromiseInv
  <2>2. todo' \in Seq(ReadIds) /\ \A i, j \in DOMAIN todo' : todo'[i] = todo'[j] => i = j
    BY <1>1
  <2>3. Elems(promises') = DOMAIN reads' \ {id} /\ id \in DOMAIN reads'
    BY <1>1, <1>2, <1>7
  <2> QED
    BY <1>1, <1>7, <2>1, <2>2, <2>3, StackTable, StackKinds DEF Kinds, PromiseInv
<1>9. ReadInv'
  BY <1>1, <1>2, <1>3, <1>7 DEF ReadInv
<1>10. GuestInv'
  BY <1>1, <1>5 DEF GuestInv
<1> QED
  BY <1>3, <1>4, <1>6, <1>8, <1>9, <1>10

LEMMA AppendOnce ==
  ASSUME NEW S, NEW s \in Seq(S), NEW e \in S,
         \A i, j \in DOMAIN s : s[i] = s[j] => i = j, e \notin Elems(s)
  PROVE  /\ Append(s, e) \in Seq(S) /\ Elems(Append(s, e)) = Elems(s) \cup {e}
         /\ \A i, j \in DOMAIN Append(s, e) : Append(s, e)[i] = Append(s, e)[j] => i = j
<1> DEFINE t == Append(s, e)
<1>1. PICK n : n = Len(s) + 1
  OBVIOUS
<1>2. /\ t \in Seq(S) /\ n \in DOMAIN t /\ t[n] = e
      /\ \A i \in DOMAIN s : i \in DOMAIN t /\ t[i] = s[i]
      /\ \A i \in DOMAIN t : i = n \/ i \in DOMAIN s
  BY <1>1, AppendPlaces
<1> HIDE DEF t
<1>3. \A i \in DOMAIN s : s[i] \in Elems(s)
  BY DEF Elems
<1>4. ASSUME NEW i \in DOMAIN t, NEW j \in DOMAIN t, t[i] = t[j] PROVE i = j
  BY <1>2, <1>3, <1>4
<1>5. Elems(t) \subseteq Elems(s) \cup {e}
  BY <1>2, <1>3 DEF Elems
<1>6. Elems(s) \cup {e} \subseteq Elems(t)
  BY <1>2 DEF Elems
<1> QED
  BY <1>2, <1>4, <1>5, <1>6 DEF t

LEMMA ForgetEffect ==
  ASSUME NEW id, Forget(id)
  PROVE  /\ DOMAIN reads' = DOMAIN reads \ {id}
         /\ \A i \in DOMAIN reads' : reads'[i] = reads[i]
  BY DEF Forget

LEMMA FirstAttemptKeeps ==
  ASSUME ServiceInv, FirstAttempt
  PROVE  ServiceInv'
<1> USE DEF ServiceInv
<1>1. /\ At("first") /\ ReadStep(reads[Head(todo)]) /\ todo' = <<>>
      /\ UNCHANGED <<vm, serviced, httpVars, guestVars>>
  BY DEF FirstAttempt
<1>2. stack = sFirst
  BY <1>1, Tops DEF StackInv
<1>3. /\ vm = "halted" /\ outgoing = <<>> /\ actions = <<>> /\ serviced = FALSE
  BY <1>2, StackKinds DEF Kinds, StackInv
<1>4. PICK id \in DOMAIN reads : todo = <<id>> /\ Elems(promises) = DOMAIN reads \ {id}
  BY <1>2 DEF PromiseInv
<1>5. Head(todo) = id /\ reads[id] \in Extent /\ id \in ReadIds
  BY <1>4 DEF PromiseInv
<1>6. /\ StoreInv' /\ UNCHANGED <<cached, dirty, failed, host>>
      /\ Grows(pending, pending') /\ ComesFrom(pending, pending', host)
      /\ reply'.kind = "missing" => WaitsFor(cached, dirty, failed, pending', reads[id])
      /\ reply'.kind # "missing" => UNCHANGED <<pending, outgoing>>
  BY <1>1, <1>5, ReadEffect, ReadSeen
<1>7. UNCHANGED <<posted, parked, actions>>
  BY <1>1 DEF guestVars, httpVars
<1>8. FetchInv'
  BY <1>1, <1>3, <1>6, FetchesStay
<1>9. GuestInv'
  BY <1>1, <1>3, <1>7 DEF GuestInv
<1>10. ASSUME NEW i \in DOMAIN reads, i # id
       PROVE  WaitsFor(cached', dirty', failed', pending', reads[i])
  <2>1. WaitsFor(cached, dirty, failed, pending, reads[i])
    BY <1>2, <1>4, <1>10, StackTable, StackKinds DEF Kinds, ReadInv
  <2> QED
    BY <1>6, <2>1, WaitsGrow
<1>11. CASE /\ reply'.kind = "missing" /\ promises' = Append(promises, Head(todo))
            /\ stack' = sPumpDrain /\ UNCHANGED reads
  <2>1. StackInv'
    BY <1>1, <1>3, <1>7, <1>11, StackKinds, StackTable DEF Kinds, StackInv
  <2>2. /\ promises' \in Seq(ReadIds) /\ Elems(promises') = Elems(promises) \cup {id}
        /\ \A i, j \in DOMAIN promises' : promises'[i] = promises'[j] => i = j
    BY <1>4, <1>5, <1>11, AppendOnce DEF PromiseInv
  <2>3. Elems(promises') = DOMAIN reads'
    BY <1>4, <1>11, <2>2
  <2>4. PromiseInv'
    <3>1. /\ stack' # sFirst /\ stack' \notin Polling /\ stack' # sPoll
      BY <1>11, StackTable, StackKinds DEF Kinds
    <3>2. /\ DOMAIN reads' \subseteq ReadIds /\ \A i \in DOMAIN reads' : reads'[i] \in Extent
      BY <1>11 DEF PromiseInv
    <3>3. todo' \in Seq(ReadIds) /\ \A i, j \in DOMAIN todo' : todo'[i] = todo'[j] => i = j
      BY <1>1
    <3> QED
      BY <1>1, <1>3, <2>2, <2>3, <3>1, <3>2, <3>3 DEF PromiseInv
  <2>5. ReadInv'
    BY <1>6, <1>10, <1>11 DEF ReadInv
  <2> QED
    BY <1>6, <1>8, <1>9, <2>1, <2>4, <2>5
<1>12. CASE /\ reply'.kind # "missing" /\ Forget(Head(todo)) /\ stack' = <<>>
            /\ UNCHANGED promises
  <2>1. StackInv'
    BY <1>1, <1>3, <1>6, <1>7, <1>12, StackKinds, StackTable DEF Kinds, StackInv
  <2>2. DOMAIN reads' = DOMAIN reads \ {id} /\ \A i \in DOMAIN reads' : reads'[i] = reads[i]
    BY <1>5, <1>12, ForgetEffect
  <2>3. PromiseInv'
    BY <1>1, <1>3, <1>4, <1>12, <2>2, StackTable, StackKinds DEF Kinds, PromiseInv
  <2>4. ReadInv'
    BY <1>10, <2>2 DEF ReadInv
  <2> QED
    BY <1>6, <1>8, <1>9, <2>1, <2>3, <2>4
<1> QED
  BY <1>11, <1>12 DEF FirstAttempt, sPumpDrain

LEMMA PollRetiredKeeps ==
  ASSUME ServiceInv, PollRetired
  PROVE  ServiceInv'
<1> USE DEF ServiceInv
<1>1. /\ At("poll") /\ todo # <<>> /\ Head(todo) \notin DOMAIN reads /\ Settle(Head(todo))
      /\ todo' = Tail(todo)
      /\ UNCHANGED <<storeVars, vm, stack, reads, serviced, httpVars, guestVars>>
  BY DEF PollRetired
<1>2. stack \in {sPoll, sPollDrain} /\ stack \in Polling /\ stack # sDrain /\ stack # sFirst
  BY <1>1, Tops, StackTable DEF StackInv, Polling
<1>3. /\ StoreInv' /\ UNCHANGED <<cached, dirty, failed, pending, outgoing, host>>
  BY <1>1, StoreStays
<1>4. UNCHANGED <<posted, parked, actions>>
  BY <1>1 DEF guestVars, httpVars
<1>5. FetchInv'
  <2>1. ComesFrom(pending, pending', host)
    BY <1>3 DEF ComesFrom
  <2> QED
    BY <1>1, <1>2, <1>3, <2>1, FetchesStay
<1>6. StackInv'
  BY <1>1, <1>3, <1>4 DEF StackInv
<1>7. /\ promises' \in Seq(ReadIds) /\ Elems(promises') = Elems(promises) \ {Head(todo)}
      /\ \A i, j \in DOMAIN promises' : promises'[i] = promises'[j] => i = j
  BY <1>1, SettleEffect
<1>8. /\ todo' \in Seq(ReadIds) /\ Elems(todo') = Elems(todo) \ {Head(todo)}
      /\ \A i, j \in DOMAIN todo' : todo'[i] = todo'[j] => i = j
  <2>1. /\ todo \in Seq(ReadIds) /\ \A i, j \in DOMAIN todo : todo[i] = todo[j] => i = j
    BY DEF PromiseInv
  <2> QED
    BY <1>1, <2>1, TailOnce
<1>9. vm = "halted"
  BY <1>2 DEF StackInv
<1>10. PromiseInv'
  BY <1>1, <1>2, <1>7, <1>8, <1>9 DEF PromiseInv
<1>11. ReadInv'
  BY <1>1, <1>2, <1>3, <1>8 DEF ReadInv
<1>12. GuestInv'
  BY <1>1, <1>4, <1>9 DEF GuestInv
<1> QED
  BY <1>3, <1>5, <1>6, <1>10, <1>11, <1>12

LEMMA PollReadKeeps ==
  ASSUME ServiceInv, PollRead
  PROVE  ServiceInv'
<1> USE DEF ServiceInv
<1> DEFINE id == Head(todo)
<1>1. /\ At("poll") /\ todo # <<>> /\ id \in DOMAIN reads /\ ReadStep(reads[id])
      /\ \/ reply'.kind = "missing" /\ UNCHANGED <<reads, promises>>
         \/ reply'.kind # "missing" /\ Forget(id) /\ Settle(id)
      /\ todo' = Tail(todo) /\ stack' = <<"pump">> \o stack
      /\ UNCHANGED <<vm, serviced, httpVars, guestVars>>
  BY DEF PollRead
<1> HIDE DEF id
<1>2. stack = sPollDrain /\ stack' = sPumpPoll
  <2>1. reads = <<>> => DOMAIN reads = {}
    OBVIOUS
  <2> QED
    BY <1>1, <2>1, Tops, StackPushes DEF StackInv, PromiseInv
<1>3. /\ stack \in Polling /\ stack' \in Polling /\ stack # sDrain /\ stack' # sFirst
      /\ stack # sFirst /\ stack \notin Draining
  BY <1>2, StackTable DEF Polling, Draining
<1>4. vm = "halted" /\ reads[id] \in Extent
  BY <1>1, <1>3 DEF StackInv, PromiseInv
<1>5. /\ StoreInv' /\ UNCHANGED <<cached, dirty, failed, host>>
      /\ Grows(pending, pending') /\ ComesFrom(pending, pending', host)
      /\ reply'.kind = "missing" => WaitsFor(cached, dirty, failed, pending', reads[id])
  BY <1>1, <1>4, ReadEffect, ReadSeen
<1>6. UNCHANGED <<posted, parked, actions>>
  BY <1>1 DEF guestVars, httpVars
<1>7. FetchInv'
  BY <1>1, <1>3, <1>5, FetchesStay
<1>8. GuestInv'
  BY <1>1, <1>4, <1>6 DEF GuestInv
<1>9. StackInv'
  BY <1>1, <1>2, <1>4, <1>6, StackKinds, StackTable DEF Kinds, StackInv
<1>10. /\ todo' \in Seq(ReadIds) /\ Elems(todo') = Elems(todo) \ {id}
       /\ \A i, j \in DOMAIN todo' : todo'[i] = todo'[j] => i = j
  <2>1. /\ todo \in Seq(ReadIds) /\ \A i, j \in DOMAIN todo : todo[i] = todo[j] => i = j
    BY DEF PromiseInv
  <2> QED
    BY <1>1, <2>1, TailOnce DEF id
<1>11. ASSUME NEW i \in DOMAIN reads, i # id
       PROVE  WaitsFor(cached', dirty', failed', pending', reads[i]) \/ i \in Elems(todo')
  <2>1. WaitsFor(cached, dirty, failed, pending, reads[i]) \/ i \in Elems(todo)
    BY <1>3 DEF ReadInv
  <2> QED
    BY <1>5, <1>10, <1>11, <2>1, WaitsGrow
<1>12. /\ Elems(todo) \subseteq Elems(promises) /\ DOMAIN reads \subseteq Elems(promises)
       /\ Elems(promises) \subseteq DOMAIN reads \cup Elems(todo)
  BY <1>3 DEF PromiseInv
<1>13. stack' # sPoll
  BY <1>2, StackTable
<1>14. CASE reply'.kind = "missing" /\ UNCHANGED <<reads, promises>>
  <2>1. /\ Elems(todo') \subseteq Elems(promises') /\ DOMAIN reads' \subseteq Elems(promises')
        /\ Elems(promises') \subseteq DOMAIN reads' \cup Elems(todo')
    BY <1>1, <1>10, <1>12, <1>14
  <2>2. PromiseInv'
    BY <1>1, <1>3, <1>4, <1>10, <1>13, <1>14, <2>1 DEF PromiseInv
  <2>3. ReadInv'
    BY <1>3, <1>5, <1>11, <1>14 DEF ReadInv
  <2> QED
    BY <1>5, <1>7, <1>8, <1>9, <2>2, <2>3
<1>15. CASE reply'.kind # "missing" /\ Forget(id) /\ Settle(id)
  <2>1. DOMAIN reads' = DOMAIN reads \ {id} /\ \A i \in DOMAIN reads' : reads'[i] = reads[i]
    BY <1>15, ForgetEffect
  <2>2. /\ promises' \in Seq(ReadIds) /\ Elems(promises') = Elems(promises) \ {id}
        /\ \A i, j \in DOMAIN promises' : promises'[i] = promises'[j] => i = j
    BY <1>15, SettleEffect
  <2>3. PromiseInv'
    BY <1>1, <1>3, <1>4, <1>10, <1>12, <1>13, <2>1, <2>2 DEF PromiseInv
  <2>4. ReadInv'
    BY <1>3, <1>11, <2>1 DEF ReadInv
  <2> QED
    BY <1>5, <1>7, <1>8, <1>9, <2>3, <2>4
<1> QED
  BY <1>1, <1>14, <1>15

LEMMA HostWriteKeeps ==
  ASSUME ServiceInv, NEW r \in Extent, HostWrite(r)
  PROVE  ServiceInv'
<1> USE DEF ServiceInv
<1>1. /\ Idle /\ vm = "halted" /\ WriteStep(r) /\ stack' = sDrain
      /\ UNCHANGED <<vm, hostVars, httpVars, guestVars>>
  BY DEF HostWrite, sDrain
<1>2. /\ stack = <<>> /\ outgoing = <<>> /\ actions = <<>> /\ serviced = FALSE
      /\ todo = <<>> /\ Elems(promises) = DOMAIN reads
  BY <1>1, IdleIs
<1>3. PICK new \in [Span(r.first, r.n) -> Written] : WriteSectors(r.first, r.n, new)
  BY <1>1 DEF WriteStep
<1>4. /\ StoreInv' /\ UNCHANGED <<failed, pending, outgoing, host>>
  BY <1>3, ExtentIs, WriteInv DEF WriteSectors, fetchVars
<1>5. UNCHANGED <<posted, parked, actions, reads, promises, todo, serviced>>
  BY <1>1 DEF guestVars, httpVars, hostVars
<1>6. FetchInv'
  <2>1. ComesFrom(pending, pending', host)
    BY <1>4 DEF ComesFrom
  <2> QED
    BY <1>1, <1>2, <1>4, <2>1, FetchesStay
<1>7. StackInv'
  BY <1>1, <1>2, <1>4, <1>5, StackKinds, StackTable DEF Kinds, StackInv
<1>8. PromiseInv'
  BY <1>1, <1>2, <1>5, StackTable, StackKinds DEF Kinds, PromiseInv
<1>9. ReadInv'
  BY <1>1, <1>2, <1>5, StackKinds DEF Kinds, ReadInv
<1>10. GuestInv'
  BY <1>1, <1>5 DEF GuestInv
<1> QED
  BY <1>4, <1>6, <1>7, <1>8, <1>9, <1>10

-----------------------------------------------------------------------------
(* The queue of actions: pumping fills it, draining empties it.            *)

Once(a) == \A i, j \in Requests(a) : a[i].fetch = a[j].fetch => i = j

LEMMA ActionIs ==
  ASSUME NEW a \in Action
  PROVE  /\ a.kind \in {"request", "halted", "reset"}
         /\ a.kind = "request" => a.fetch \in Fetch
  BY DEF Action, Request, Lifecycle

LEMMA AskedAppend ==
  ASSUME NEW a \in Seq(Action), NEW e \in Action, Once(a)
  PROVE  /\ Append(a, e) \in Seq(Action) /\ Append(a, e) # <<>>
         /\ e.kind # "request" => Asked(Append(a, e)) = Asked(a) /\ Once(Append(a, e))
         /\ e.kind = "request" /\ e.fetch \notin Asked(a) =>
              /\ Asked(Append(a, e)) = Asked(a) \cup {e.fetch} /\ Once(Append(a, e))
              /\ Requests(a) = DOMAIN a => Requests(Append(a, e)) = DOMAIN Append(a, e)
<1> DEFINE t == Append(a, e)
<1>1. PICK n : n = Len(a) + 1
  OBVIOUS
<1>2. /\ t \in Seq(Action) /\ n \in DOMAIN t /\ t[n] = e
      /\ \A i \in DOMAIN a : i \in DOMAIN t /\ t[i] = a[i]
      /\ \A i \in DOMAIN t : i = n \/ i \in DOMAIN a
      /\ n \notin DOMAIN a
  BY <1>1, AppendPlaces
<1> HIDE DEF t
<1>3. t # <<>>
  BY <1>2
<1>4. ASSUME e.kind # "request" PROVE Asked(t) = Asked(a) /\ Once(t)
  <2>1. Requests(t) = Requests(a)
    BY <1>2, <1>4 DEF Requests
  <2>2. \A i \in Requests(a) : t[i] = a[i]
    BY <1>2 DEF Requests
  <2> QED
    BY <2>1, <2>2 DEF Asked, Once
<1>5. ASSUME e.kind = "request", e.fetch \notin Asked(a)
      PROVE  /\ Asked(t) = Asked(a) \cup {e.fetch} /\ Once(t)
             /\ Requests(a) = DOMAIN a => Requests(t) = DOMAIN t
  <2>1. Requests(t) = Requests(a) \cup {n}
    BY <1>2, <1>5 DEF Requests
  <2>2. /\ \A i \in Requests(a) : t[i] = a[i] /\ a[i].fetch \in Asked(a)
        /\ t[n].fetch = e.fetch
    BY <1>2 DEF Requests, Asked
  <2>3. Asked(t) = Asked(a) \cup {e.fetch}
    BY <2>1, <2>2 DEF Asked
  <2>4. Once(t)
    BY <1>5, <2>1, <2>2 DEF Once
  <2> QED
    BY <1>2, <2>1, <2>3, <2>4
<1> QED
  BY <1>2, <1>3, <1>4, <1>5 DEF t

LEMMA AskedTail ==
  ASSUME NEW a \in Seq(Action), a # <<>>, Once(a)
  PROVE  /\ Tail(a) \in Seq(Action) /\ Once(Tail(a))
         /\ Requests(a) = DOMAIN a => Requests(Tail(a)) = DOMAIN Tail(a)
         /\ Head(a).kind # "request" => Asked(Tail(a)) = Asked(a) /\ Requests(a) # DOMAIN a
         /\ Head(a).kind = "request" =>
              /\ Asked(Tail(a)) = Asked(a) \ {Head(a).fetch}
              /\ Head(a).fetch \in Asked(a)
<1> DEFINE t == Tail(a)
<1>1. /\ t \in Seq(Action) /\ Head(a) = a[1] /\ 1 \in DOMAIN a
      /\ \A i \in DOMAIN t : i + 1 \in DOMAIN a /\ t[i] = a[i + 1] /\ i \in Nat /\ 1 < i + 1
      /\ \A i \in DOMAIN a : i = 1 \/ (i - 1 \in DOMAIN t /\ (i - 1) + 1 = i)
  BY TailPlaces
<1> HIDE DEF t
<1>2. \A i \in Requests(t) : i + 1 \in Requests(a) /\ t[i] = a[i + 1] /\ i \in Nat /\ i + 1 # 1
  BY <1>1 DEF Requests
<1>3. ASSUME NEW i \in Requests(a), i # 1
      PROVE  i - 1 \in Requests(t) /\ t[i - 1] = a[i]
  <2>1. i - 1 \in DOMAIN t /\ (i - 1) + 1 = i /\ a[i].kind = "request"
    BY <1>1, <1>3 DEF Requests
  <2>2. t[i - 1] = a[i]
    BY <1>1, <2>1
  <2> QED
    BY <2>1, <2>2 DEF Requests
<1>4. ASSUME NEW i \in Requests(t), NEW j \in Requests(t), t[i].fetch = t[j].fetch
      PROVE  i = j
  <2>1. i + 1 = j + 1
    BY <1>2, <1>4 DEF Once
  <2> QED
    BY <1>2, <2>1
<1>5. Requests(a) = DOMAIN a => Requests(t) = DOMAIN t
  BY <1>1 DEF Requests
<1>6. Asked(t) \subseteq Asked(a)
  BY <1>2 DEF Asked
<1>7. ASSUME NEW f \in Asked(a), f # a[1].fetch \/ a[1].kind # "request"
      PROVE  f \in Asked(t)
  <2>1. PICK i \in Requests(a) : f = a[i].fetch
    BY DEF Asked
  <2>2. i # 1
    BY <1>7, <2>1 DEF Requests
  <2> QED
    BY <1>3, <2>1, <2>2 DEF Asked
<1>8. ASSUME a[1].kind = "request" PROVE a[1].fetch \in Asked(a) /\ a[1].fetch \notin Asked(t)
  <2>1. 1 \in Requests(a)
    BY <1>1, <1>8 DEF Requests
  <2>2. \A i \in Requests(t) : t[i].fetch # a[1].fetch
    BY <1>2, <2>1 DEF Once
  <2> QED
    BY <2>1, <2>2 DEF Asked
<1>9. a[1].kind # "request" => Requests(a) # DOMAIN a
  BY <1>1 DEF Requests
<1>10. Once(t)
  BY <1>4 DEF Once
<1>11. a[1].kind # "request" => Asked(t) = Asked(a)
  BY <1>6, <1>7
<1>12. a[1].kind = "request" => Asked(t) = Asked(a) \ {a[1].fetch} /\ a[1].fetch \in Asked(a)
  BY <1>6, <1>7, <1>8
<1> QED
  BY <1>1, <1>5, <1>9, <1>10, <1>11, <1>12 DEF t

LEMMA PumpKeeps ==
  ASSUME ServiceInv, Pump
  PROVE  ServiceInv'
<1> USE DEF ServiceInv
<1> DEFINE f == Head(outgoing)
<1>1. /\ At("pump") /\ NextRequest /\ registered' = registered \cup {f.id}
      /\ actions' = Append(actions, Request(f))
      /\ UNCHANGED <<vm, stack, hostVars, retired, flying, stale, rejected, guestVars>>
  BY DEF Pump
<1>2. /\ outgoing # <<>> /\ host' = host \cup {f} /\ outgoing' = Tail(outgoing)
      /\ UNCHANGED <<cached, dirty, failed, pending>>
  BY <1>1 DEF NextRequest, cacheVars, overlayVars
<1>3. StoreInv'
  BY <1>1, NextRequestInv
<1>4. f \in Fetch /\ \A g \in host : g.id # f.id
  <2>1. outgoing \in Seq(Fetch) /\ HandedOverOnce
    BY DEF StoreInv, TypeOK
  <2>2. Head(outgoing) \in Fetch /\ Head(outgoing) = outgoing[1] /\ 1 \in DOMAIN outgoing
    BY <1>2, <2>1, TailPlaces
  <2> QED
    BY <2>1, <2>2 DEF HandedOverOnce
<1> HIDE DEF f
<1>5. stack \in {sPumpDrain, sPumpPoll, sPumpHalt, sPumpReset}
  BY <1>1, Tops DEF StackInv
<1>6. stack # sDrain /\ stack \in WillPump /\ stack \in WillDrain
  BY <1>5, StackTable, StackKinds DEF Kinds
<1>7. UNCHANGED <<reads, promises, todo, serviced, posted, parked>>
  BY <1>1 DEF hostVars, guestVars
<1>8. f \notin host /\ f \notin Asked(actions) /\ f \notin flying /\ f \notin stale
      /\ f.id \notin Ids(host) /\ f.id \notin retired
  <2>1. f \notin host /\ f.id \notin Ids(host)
    BY <1>4 DEF Ids
  <2> QED
    BY <2>1 DEF FetchInv, HostInv
<1>9. Request(f) \in Action /\ Request(f).kind = "request" /\ Request(f).fetch = f
  BY <1>4 DEF Action, Request
<1>10. /\ actions' \in Seq(Action) /\ Once(actions') /\ actions' # <<>>
       /\ Asked(actions') = Asked(actions) \cup {f} /\ Requests(actions') = DOMAIN actions'
  <2>1. actions \in Seq(Action) /\ Once(actions) /\ Requests(actions) = DOMAIN actions
    BY <1>6, NoLifecycle DEF FetchInv, ActionsOK, Once
  <2>2. PICK e \in Action : e = Request(f) /\ e.kind = "request" /\ e.fetch = f
    BY <1>9
  <2> QED
    BY <1>1, <1>8, <2>1, <2>2, AskedAppend
<1>11. FetchInv'
  <2>1. ActionsOK'
    BY <1>10 DEF ActionsOK, Once
  <2>2. Ids(host') = Ids(host) \cup {f.id}
    BY <1>2 DEF Ids
  <2>3. HostInv'
    BY <1>1, <1>2, <1>4, <1>8, <1>10, <2>2 DEF FetchInv, HostInv
  <2>4. ASSUME NEW p \in pending', Own(p) \in host'
        PROVE  p.id \in registered' \ retired' /\ Own(p) \notin stale'
    <3>1. CASE Own(p) \in host
      BY <1>1, <1>2, <3>1 DEF FetchInv, HeardInv
    <3>2. CASE Own(p) = f
      <4>1. p.id = f.id
        BY <3>2 DEF Own
      <4> QED
        BY <1>1, <1>8, <3>2, <4>1
    <3> QED
      BY <1>2, <2>4, <3>1, <3>2
  <2>5. HeardInv'
    BY <1>10, <2>4 DEF HeardInv
  <2> QED
    BY <2>1, <2>3, <2>5 DEF FetchInv
<1>12. StackInv'
  BY <1>1, <1>6, <1>7 DEF StackInv
<1>13. PromiseInv'
  BY <1>1, <1>7 DEF PromiseInv
<1>14. ReadInv'
  BY <1>1, <1>2, <1>7 DEF ReadInv
<1>15. GuestInv'
  BY <1>1, <1>2, <1>7 DEF GuestInv
<1> QED
  BY <1>3, <1>11, <1>12, <1>13, <1>14, <1>15

\* Draining one action; the reads will be polled again.
LEMMA DrainedKeeps ==
  ASSUME ServiceInv, At("drain"), actions # <<>>, actions' = Tail(actions), serviced' = FALSE,
         UNCHANGED <<storeVars, vm, stack, reads, promises, todo, guestVars>>, FetchInv'
  PROVE  ServiceInv'
<1> USE DEF ServiceInv
<1>1. stack = sDrain /\ stack \in WillDrain /\ stack \in Draining
  BY Tops, StackKinds DEF Kinds, StackInv
<1>2. /\ StoreInv' /\ UNCHANGED <<cached, dirty, failed, pending, outgoing, host>>
  BY StoreStays
<1>3. StackInv'
  BY <1>1, <1>2 DEF StackInv
<1>4. PromiseInv'
  BY DEF PromiseInv
<1>5. ReadInv'
  BY <1>1 DEF ReadInv
<1>6. GuestInv'
  BY <1>2 DEF GuestInv, guestVars
<1> QED
  BY <1>2, <1>3, <1>4, <1>5, <1>6

LEMMA DrainRequestKeeps ==
  ASSUME ServiceInv, DrainRequest
  PROVE  ServiceInv'
<1> USE DEF ServiceInv
<1> DEFINE f == Head(actions).fetch
<1>1. /\ At("drain") /\ actions # <<>> /\ Head(actions).kind = "request"
      /\ flying' = flying \cup {f} /\ actions' = Tail(actions) /\ serviced' = FALSE
      /\ UNCHANGED <<storeVars, vm, stack, reads, promises, todo, registered, retired,
                     stale, rejected, guestVars>>
  BY DEF DrainRequest
<1>2. /\ actions' \in Seq(Action) /\ Once(actions') /\ Asked(actions') = Asked(actions) \ {f}
      /\ f \in Asked(actions)
      /\ Requests(actions) = DOMAIN actions => Requests(actions') = DOMAIN actions'
  <2>1. actions \in Seq(Action) /\ Once(actions)
    BY DEF FetchInv, ActionsOK, Once
  <2> QED
    BY <1>1, <2>1, AskedTail
<1> HIDE DEF f
<1>3. UNCHANGED <<pending, host>>
  BY <1>1, StoreStays
<1>4. FetchInv'
  <2>1. ActionsOK'
    BY <1>2 DEF ActionsOK, Once
  <2>2. HostInv'
    <3>1. flying' \cup Asked(actions') = flying \cup Asked(actions)
      BY <1>1, <1>2
    <3>2. flying' \cap Asked(actions') = {}
      BY <1>1, <1>2 DEF FetchInv, HostInv
    <3>3. stale' \subseteq flying'
      BY <1>1 DEF FetchInv, HostInv
    <3>4. UNCHANGED <<registered, retired, rejected>>
      BY <1>1
    <3> QED
      BY <1>3, <3>1, <3>2, <3>3, <3>4 DEF FetchInv, HostInv
  <2>3. HeardInv'
    BY <1>1, <1>2, <1>3 DEF FetchInv, HeardInv
  <2> QED
    BY <2>1, <2>2, <2>3 DEF FetchInv
<1> QED
  BY <1>1, <1>4, DrainedKeeps

LEMMA DrainLifecycleKeeps ==
  ASSUME ServiceInv, DrainLifecycle
  PROVE  ServiceInv'
<1> USE DEF ServiceInv
<1>1. /\ At("drain") /\ actions # <<>> /\ Head(actions).kind # "request"
      /\ stale' = flying /\ actions' = Tail(actions) /\ serviced' = FALSE
      /\ UNCHANGED <<storeVars, vm, stack, reads, promises, todo, registered, retired,
                     flying, rejected, guestVars>>
  BY DEF DrainLifecycle
<1>2. /\ actions' \in Seq(Action) /\ Once(actions') /\ Asked(actions') = Asked(actions)
      /\ Requests(actions) # DOMAIN actions
  <2>1. actions \in Seq(Action) /\ Once(actions)
    BY DEF FetchInv, ActionsOK, Once
  <2> QED
    BY <1>1, <2>1, AskedTail
<1>3. UNCHANGED <<pending, host>>
  BY <1>1, StoreStays
<1>4. pending = {} /\ stack = sDrain
  BY <1>2 DEF FetchInv, HeardInv
<1>5. FetchInv'
  <2>1. ActionsOK'
    BY <1>2 DEF ActionsOK, Once
  <2>2. HostInv'
    BY <1>1, <1>2, <1>3 DEF FetchInv, HostInv
  <2>3. HeardInv'
    BY <1>1, <1>3, <1>4 DEF HeardInv
  <2> QED
    BY <2>1, <2>2, <2>3 DEF FetchInv
<1> QED
  BY <1>1, <1>5, DrainedKeeps

-----------------------------------------------------------------------------
(* The guest's requests.                                                   *)

\* A step of the running machine that leaves the runtime, the adapter and the
\* host's reads alone: what is left to show concerns the guest.
LEMMA GuestSteps ==
  ASSUME ServiceInv, StoreInv', vm = "running", UNCHANGED <<vm, hostVars, httpVars, host>>,
         ComesFrom(pending, pending', host), GuestInv',
         \/ stack \in InQuantum /\ stack' \in InQuantum
         \/ stack \in Resuming /\ stack' \in Resuming \cup {sPumpDrain}
  PROVE  ServiceInv'
<1> USE DEF ServiceInv
<1>1. UNCHANGED <<reads, promises, todo, serviced, actions>>
  BY DEF hostVars, httpVars
<1>2. /\ stack' # sFirst /\ stack' \notin Polling /\ stack' # sPoll
      /\ stack # sFirst /\ stack \notin Polling /\ stack # sDrain
  BY StackTable, StackKinds DEF Kinds, Resuming, InQuantum
<1>3. FetchInv'
  BY <1>2, FetchesStay
<1>4. reads' = <<>>
  BY <1>1 DEF PromiseInv
<1>5. PromiseInv'
  BY <1>1, <1>2 DEF PromiseInv
<1>6. ReadInv'
  BY <1>4 DEF ReadInv
<1>7. StackInv'
  <2>1. serviced = FALSE
    BY DEF StackInv, Running
  <2>2. stack' \in WillPump /\ stack' \in Stacks
    BY StackKinds DEF Kinds, Resuming, InQuantum
  <2>3. actions # <<>> => stack' \in WillDrain
    <3>1. actions # <<>> => stack \in WillDrain
      BY DEF StackInv
    <3>2. stack \in InQuantum => stack \notin WillDrain
      BY StackKinds DEF Kinds, InQuantum
    <3>3. stack' \in Resuming \cup {sPumpDrain} => stack' \in WillDrain
      BY StackKinds DEF Kinds, Resuming
    <3> QED
      BY <3>1, <3>2, <3>3
  <2> QED
    BY <1>1, <1>2, <2>1, <2>2, <2>3 DEF StackInv
<1> QED
  BY <1>3, <1>5, <1>6, <1>7

\* The read of a guest's request, the first or a later attempt.
LEMMA AttemptKeeps ==
  ASSUME ServiceInv, vm = "running", stack \in {sNotify, sNotifyPump, sResume}, pending = {},
         NEW q \in GuestRequest, ReadStep(q.extent), AfterRead(q),
         failed # {} => /\ stack = sResume /\ StopsAt(cached, dirty, failed, q.extent) # {}
                        /\ StopBlock(cached, dirty, failed, q.extent) \in failed,
         posted' \in Seq(GuestRequest), UNCHANGED <<vm, hostVars, httpVars>>
  PROVE  ServiceInv'
<1> USE DEF ServiceInv
<1>1. q.extent \in Extent
  BY DEF GuestRequest
<1>2. /\ StoreInv' /\ UNCHANGED <<cached, dirty, failed, host>>
      /\ ComesFrom(pending, pending', host)
      /\ reply'.kind = "missing" =>
           /\ WaitsFor(cached, dirty, failed, pending', q.extent)
           /\ \A o, p \in pending' : o = p
      /\ reply'.kind # "missing" => UNCHANGED <<pending, outgoing>>
  BY <1>1, ReadEffect, ReadSeen
<1>3. /\ reply'.kind \in {"missing", "data"} => failed = {}
      /\ reply'.kind = "failed" => failed # {}
  BY <1>1, ReadEffect
<1>4. CASE reply'.kind = "missing" /\ parked' = {q} /\ Return
  <2>1. \/ stack = sNotify /\ stack' = sGuest
        \/ stack \in {sNotifyPump, sResume} /\ stack' = sPumpDrain
    BY <1>4, StackTable DEF Return
  <2>2. stack' # sResume /\ stack' \notin Clearing
    BY <2>1, StackTable, StackKinds DEF Kinds
  <2>3. GuestInv'
    BY <1>2, <1>3, <1>4, <2>2 DEF GuestInv
  <2> QED
    BY <1>2, <2>1, <2>3, GuestSteps DEF InQuantum, Resuming
<1>5. CASE reply'.kind = "failed" /\ parked' = {} /\ Become(<<"clear", "notify">>)
  <2>1. \/ stack = sNotify /\ stack' = sClear
        \/ stack \in {sNotifyPump, sResume} /\ stack' = sClearPump
    BY <1>5, StackTable, StackPushes DEF Become
  <2>2. stack' # sResume /\ stack' \in Clearing
    BY <2>1, StackTable, StackKinds DEF Kinds
  <2>3. GuestInv'
    BY <1>2, <1>5, <2>2 DEF GuestInv
  <2> QED
    BY <1>2, <2>1, <2>3, GuestSteps DEF InQuantum, Resuming
<1>6. CASE reply'.kind = "data" /\ parked' = {} /\ Become(<<"notify">>)
  <2>1. \/ stack = sNotify /\ stack' = sNotify
        \/ stack \in {sNotifyPump, sResume} /\ stack' = sNotifyPump
    BY <1>6, StackTable, StackPushes DEF Become
  <2>2. stack' # sResume /\ stack' \notin Clearing
    BY <2>1, StackTable, StackKinds DEF Kinds
  <2>3. GuestInv'
    BY <1>2, <1>3, <1>6, <2>2 DEF GuestInv
  <2> QED
    BY <1>2, <2>1, <2>3, GuestSteps DEF InQuantum, Resuming
<1> QED
  BY <1>4, <1>5, <1>6 DEF AfterRead

\* The device looks at its queue only with nothing parked, so that the store
\* waits for nothing and remembers no error.
LEMMA NotifyIs ==
  ASSUME ServiceInv, At("notify"), posted # <<>>, parked = {}
  PROVE  /\ stack \in {sNotify, sNotifyPump} /\ vm = "running" /\ pending = {} /\ failed = {}
         /\ Head(posted) \in GuestRequest /\ Tail(posted) \in Seq(GuestRequest)
<1> USE DEF ServiceInv
<1>1. stack \in {sNotify, sNotifyPump}
  BY Tops DEF StackInv
<1>2. vm = "running" /\ stack # sResume /\ stack \notin Clearing
  BY <1>1, StackTable, StackKinds DEF Kinds, StackInv
<1>3. pending = {} /\ failed = {}
  BY <1>2 DEF GuestInv
<1>4. Head(posted) \in GuestRequest /\ Tail(posted) \in Seq(GuestRequest)
  BY TailPlaces DEF GuestInv
<1> QED
  BY <1>1, <1>2, <1>3, <1>4

LEMMA NotifyReadKeeps ==
  ASSUME ServiceInv, NotifyRead
  PROVE  ServiceInv'
<1>1. /\ At("notify") /\ posted # <<>> /\ parked = {} /\ posted' = Tail(posted)
      /\ ReadStep(Head(posted).extent) /\ AfterRead(Head(posted))
      /\ UNCHANGED <<vm, hostVars, httpVars>>
  BY DEF NotifyRead
<1>2. PICK q \in GuestRequest : q = Head(posted)
  BY <1>1, NotifyIs
<1>3. ReadStep(q.extent) /\ AfterRead(q)
  BY <1>1, <1>2
<1> QED
  BY <1>1, <1>3, NotifyIs, AttemptKeeps

LEMMA NotifyWriteKeeps ==
  ASSUME ServiceInv, NotifyWrite
  PROVE  ServiceInv'
<1> USE DEF ServiceInv
<1>1. /\ At("notify") /\ posted # <<>> /\ parked = {} /\ posted' = Tail(posted)
      /\ WriteStep(Head(posted).extent) /\ UNCHANGED <<vm, stack, hostVars, httpVars, parked>>
  BY DEF NotifyWrite
<1>2. /\ stack \in {sNotify, sNotifyPump} /\ vm = "running" /\ pending = {} /\ failed = {}
      /\ Head(posted) \in GuestRequest /\ Tail(posted) \in Seq(GuestRequest)
  BY <1>1, NotifyIs
<1>3. PICK r \in Extent : WriteStep(r)
  BY <1>1, <1>2 DEF GuestRequest
<1>4. PICK new \in [Span(r.first, r.n) -> Written] : WriteSectors(r.first, r.n, new)
  BY <1>3 DEF WriteStep
<1>5. /\ StoreInv' /\ UNCHANGED <<failed, pending, outgoing, host>>
  BY <1>4, ExtentIs, WriteInv DEF WriteSectors, fetchVars
<1>6. ComesFrom(pending, pending', host)
  BY <1>2, <1>5 DEF ComesFrom
<1>7. GuestInv'
  <2>1. stack' # sResume
    BY <1>1, <1>2, StackTable
  <2> QED
    BY <1>1, <1>2, <1>5, <2>1 DEF GuestInv
<1> QED
  BY <1>1, <1>2, <1>5, <1>6, <1>7, GuestSteps DEF InQuantum, Resuming

LEMMA ResumeKeeps ==
  ASSUME ServiceInv, Resume
  PROVE  ServiceInv'
<1> USE DEF ServiceInv
<1>1. /\ At("resume") /\ UNCHANGED <<vm, hostVars, httpVars, posted>>
  BY DEF Resume
<1>2. PICK q \in parked : ReadStep(q.extent) /\ AfterRead(q)
  BY DEF Resume
<1>3. stack = sResume /\ vm = "running"
  BY <1>1, Tops, StackKinds DEF Kinds, StackInv
<1>4. /\ pending = {} /\ q \in GuestRequest /\ posted' \in Seq(GuestRequest)
      /\ failed # {} => /\ StopsAt(cached, dirty, failed, q.extent) # {}
                        /\ StopBlock(cached, dirty, failed, q.extent) \in failed
  BY <1>1, <1>3 DEF GuestInv
<1> QED
  BY <1>1, <1>2, <1>3, <1>4, AttemptKeeps

LEMMA ClearAfterFailureKeeps ==
  ASSUME ServiceInv, ClearAfterFailure
  PROVE  ServiceInv'
<1> USE DEF ServiceInv
<1>1. /\ At("clear") /\ ClearErrors /\ stack' = Tail(stack)
      /\ UNCHANGED <<vm, hostVars, httpVars, guestVars>>
  BY DEF ClearAfterFailure, Return
<1>2. /\ stack \in Clearing
      /\ \/ stack = sClear /\ stack' = sNotify
         \/ stack = sClearPump /\ stack' = sNotifyPump
  BY <1>1, Tops, StackTable DEF StackInv, Clearing
<1>3. vm = "running" /\ stack' # sResume /\ stack' \notin Clearing
  BY <1>2, StackTable, StackKinds DEF Kinds, StackInv
<1>4. failed' = {} /\ UNCHANGED <<pending, host>>
  BY <1>1 DEF ClearErrors
<1>5. StoreInv'
  BY <1>1, RetirementInv
<1>6. ComesFrom(pending, pending', host)
  BY <1>4 DEF ComesFrom
<1>7. UNCHANGED <<posted, parked>>
  BY <1>1 DEF guestVars
<1>8. GuestInv'
  BY <1>1, <1>2, <1>3, <1>4, <1>7 DEF GuestInv
<1> QED
  BY <1>1, <1>2, <1>3, <1>4, <1>5, <1>6, <1>8, GuestSteps DEF InQuantum, Resuming

LEMMA GuestDeviceResetKeeps ==
  ASSUME ServiceInv, GuestDeviceReset
  PROVE  ServiceInv'
<1> USE DEF ServiceInv
<1>1. /\ At("guest") /\ ResetRequests({}) /\ posted' = <<>> /\ parked' = {}
      /\ UNCHANGED <<vm, stack, hostVars, httpVars>>
  BY DEF GuestDeviceReset
<1>2. stack = sGuest
  BY <1>1, Tops DEF StackInv
<1>3. vm = "running" /\ stack' # sResume /\ stack' \notin Clearing
  BY <1>1, <1>2, StackTable, StackKinds DEF Kinds, StackInv
<1>4. failed' = {} /\ pending' = {} /\ host' = host
  BY <1>1 DEF ResetRequests
<1>5. StoreInv'
  <2>1. {} \in SUBSET host
    OBVIOUS
  <2> QED
    BY <1>1, <2>1, RetirementInv
<1>6. ComesFrom(pending, pending', host)
  BY <1>4 DEF ComesFrom
<1>7. GuestInv'
  BY <1>1, <1>3, <1>4 DEF GuestInv
<1> QED
  BY <1>1, <1>2, <1>3, <1>4, <1>5, <1>6, <1>7, GuestSteps DEF InQuantum

-----------------------------------------------------------------------------
(* Lifecycle.                                                              *)

\* Whatever retires the runtime's fetches makes the store forget them too.
LEMMA RetireKeeps ==
  ASSUME FetchInv, pending' = {}, host' = host, RetireAll, stale' \in {stale, flying},
         UNCHANGED <<flying, rejected>>,
         \/ actions' = actions /\ actions = <<>>
         \/ actions' = Append(actions, Lifecycle("reset")) /\ stack' = sDrain
  PROVE  FetchInv'
<1>1. actions' \in Seq(Action) /\ Once(actions') /\ Asked(actions') = Asked(actions)
  <2>1. actions \in Seq(Action) /\ Once(actions)
    BY DEF FetchInv, ActionsOK, Once
  <2>2. CASE actions' = actions
    BY <2>1, <2>2
  <2>3. CASE actions' = Append(actions, Lifecycle("reset"))
    <3>1. PICK e \in Action : e = Lifecycle("reset") /\ e.kind # "request"
      BY DEF Action, Lifecycle
    <3> QED
      BY <2>1, <2>3, <3>1, AskedAppend
  <2> QED
    BY <2>2, <2>3
<1>2. ActionsOK'
  BY <1>1 DEF ActionsOK, Once
<1>3. HostInv'
  <2>1. registered' \cup retired' = registered \cup retired
    BY DEF RetireAll
  <2>2. stale' \subseteq flying'
    BY DEF FetchInv, HostInv
  <2> QED
    BY <1>1, <2>1, <2>2 DEF FetchInv, HostInv
<1>4. HeardInv'
  <2>1. actions = <<>> => Requests(actions) = DOMAIN actions
    BY DEF Requests
  <2> QED
    BY <2>1 DEF HeardInv
<1> QED
  BY <1>2, <1>3, <1>4 DEF FetchInv

LEMMA HostStopsKeeps ==
  ASSUME ServiceInv, Idle, vm = "halted", StoreInv', pending' = {}, outgoing' = <<>>,
         host' = host, RetireAll, reads' = <<>>, todo' = promises, stack' \in {sPoll, sPollDrain},
         stale' \in {stale, flying},
         UNCHANGED <<vm, promises, serviced, actions, flying, rejected, guestVars>>
  PROVE  ServiceInv'
<1> USE DEF ServiceInv
<1>1. /\ stack = <<>> /\ actions = <<>> /\ serviced = FALSE
      /\ Elems(promises) = DOMAIN reads
  BY IdleIs
<1>2. FetchInv'
  BY <1>1, RetireKeeps
<1>3. UNCHANGED <<posted, parked>>
  BY DEF guestVars
<1>4. stack' \in Polling /\ stack' # sFirst /\ stack' \in Stacks /\ stack' \notin Running
  BY StackTable, StackKinds DEF Kinds
<1>5. StackInv'
  BY <1>1, <1>4 DEF StackInv
<1>6. DOMAIN reads' = {}
  OBVIOUS
<1>7. PromiseInv'
  BY <1>4, <1>6 DEF PromiseInv
<1>8. ReadInv'
  BY <1>6 DEF ReadInv
<1>9. GuestInv'
  BY <1>3 DEF GuestInv
<1> QED
  BY <1>2, <1>5, <1>7, <1>8, <1>9

LEMMA HostDiscardKeeps ==
  ASSUME ServiceInv, HostDiscard
  PROVE  ServiceInv'
<1>1. /\ Idle /\ vm = "halted" /\ DiscardChanges /\ RetireAll /\ reads' = <<>>
      /\ todo' = promises /\ stack' = sPoll
      /\ UNCHANGED <<vm, promises, serviced, actions, flying, stale, rejected, guestVars>>
  BY DEF HostDiscard, sPoll
<1>2. pending' = {} /\ outgoing' = <<>> /\ host' = host
  BY <1>1 DEF DiscardChanges
<1>3. StoreInv'
  BY <1>1, RetirementInv DEF ServiceInv
<1> QED
  BY <1>1, <1>2, <1>3, HostStopsKeeps

LEMMA ResetNone ==
  ASSUME StoreInv, ResetRequests({})
  PROVE  StoreInv' /\ pending' = {} /\ outgoing' = <<>> /\ host' = host /\ failed' = {}
<1>1. {} \in SUBSET host
  OBVIOUS
<1>2. StoreInv'
  BY <1>1, RetirementInv
<1> QED
  BY <1>2 DEF ResetRequests

LEMMA ColdResetKeeps ==
  ASSUME ServiceInv, ColdReset
  PROVE  ServiceInv'
<1>1. /\ Idle /\ vm = "halted" /\ ResetRequests({}) /\ RetireAll /\ reads' = <<>>
      /\ todo' = promises /\ stack' = sPollDrain /\ stale' = flying
      /\ UNCHANGED <<vm, promises, serviced, actions, flying, rejected, guestVars>>
  BY DEF ColdReset, sPollDrain
<1>2. StoreInv' /\ pending' = {} /\ outgoing' = <<>> /\ host' = host
  BY <1>1, ResetNone DEF ServiceInv
<1> QED
  BY <1>1, <1>2, HostStopsKeeps

LEMMA DestroyKeeps ==
  ASSUME ServiceInv, Destroy
  PROVE  ServiceInv'
<1> USE DEF ServiceInv
<1>1. /\ Idle /\ vm = "halted" /\ ResetRequests({}) /\ RetireAll /\ reads' = <<>>
      /\ promises' = <<>> /\ stale' = flying /\ actions' = <<>> /\ vm' = "empty"
      /\ UNCHANGED <<stack, todo, serviced, flying, rejected, guestVars>>
  BY DEF Destroy
<1>2. StoreInv' /\ pending' = {} /\ outgoing' = <<>> /\ host' = host
  BY <1>1, ResetNone
<1>3. stack = <<>> /\ actions = <<>> /\ serviced = FALSE /\ todo = <<>>
  BY <1>1, IdleIs
<1>4. FetchInv'
  BY <1>1, <1>2, <1>3, RetireKeeps
<1>5. parked' = {} /\ posted' \in Seq(GuestRequest)
  BY <1>1 DEF GuestInv, guestVars
<1>6. StackInv'
  BY <1>1, <1>2, <1>3, StackTable, StackKinds DEF Kinds, StackInv
<1>7. DOMAIN reads' = {} /\ Elems(promises') = {}
  BY <1>1 DEF Elems
<1>8. PromiseInv'
  BY <1>1, <1>3, <1>7, StackTable, StackKinds DEF Kinds, PromiseInv
<1>9. ReadInv'
  BY <1>7 DEF ReadInv
<1>10. GuestInv'
  BY <1>1, <1>5 DEF GuestInv
<1> QED
  BY <1>2, <1>4, <1>6, <1>8, <1>9, <1>10

\* The machine stops or starts again, with nothing but the lifecycle's action
\* to be drained; no read of the host is pending.
LEMMA LifecycleKeeps ==
  ASSUME ServiceInv, StoreInv', FetchInv', stack \in {<<>>, sHalt, sReset}, stack' = sDrain,
         vm = "running" \/ reads = <<>>, pending' = {}, outgoing' = <<>>, failed' = {},
         posted' = <<>>, parked' = {}, vm' \in {"halted", "running"}, UNCHANGED hostVars
  PROVE  ServiceInv'
<1> USE DEF ServiceInv
<1>1. UNCHANGED <<reads, promises, todo, serviced>>
  BY DEF hostVars
<1>2. /\ stack # sFirst /\ stack \notin Polling /\ stack # sPoll
      /\ stack' # sFirst /\ stack' \notin Polling /\ stack' # sPoll
      /\ stack' \in Stacks /\ stack' \notin Running /\ stack' \in WillDrain
      /\ stack' # sResume
  BY StackTable, StackKinds DEF Kinds
<1>3. serviced = FALSE
  BY StackKinds DEF Kinds, StackInv
<1>4. StackInv'
  BY <1>1, <1>2, <1>3 DEF StackInv
<1>5. reads = <<>> /\ promises = <<>>
  <2>1. CASE vm = "running"
    BY <2>1 DEF PromiseInv
  <2>2. CASE reads = <<>>
    <3>1. Elems(promises) = {}
      BY <1>2, <2>2 DEF PromiseInv
    <3>2. promises # <<>> => Head(promises) \in Elems(promises)
      BY TailOnce DEF PromiseInv
    <3> QED
      BY <2>2, <3>1, <3>2
  <2> QED
    BY <2>1, <2>2
<1>6. PromiseInv'
  BY <1>1, <1>2, <1>5 DEF PromiseInv
<1>7. ReadInv'
  BY <1>1, <1>5 DEF ReadInv
<1>8. GuestInv'
  BY <1>2, StackKinds DEF Kinds, GuestInv
<1> QED
  BY <1>4, <1>6, <1>7, <1>8

LEMMA ResetMachineKeeps ==
  ASSUME ServiceInv, ResetMachine, stack \in {<<>>, sReset}, stack' = sDrain,
         vm = "running" \/ reads = <<>>
  PROVE  ServiceInv'
<1>1. /\ ResetRequests({}) /\ RetireAll /\ actions' = Append(actions, Lifecycle("reset"))
      /\ posted' = <<>> /\ parked' = {} /\ vm' = "running"
      /\ UNCHANGED <<hostVars, flying, stale, rejected>>
  BY DEF ResetMachine
<1>2. StoreInv' /\ pending' = {} /\ outgoing' = <<>> /\ host' = host /\ failed' = {}
  BY <1>1, ResetNone DEF ServiceInv
<1>3. FetchInv'
  BY <1>1, <1>2, RetireKeeps DEF ServiceInv
<1> QED
  BY <1>1, <1>2, <1>3, LifecycleKeeps

LEMMA EnterHaltedKeeps ==
  ASSUME ServiceInv, EnterHalted, stack \in {<<>>, sHalt}, stack' = sDrain, vm = "running"
  PROVE  ServiceInv'
<1> USE DEF ServiceInv
<1>1. /\ ResetRequests(Undrained)
      /\ retired' = (retired \cup registered) \ {f.id : f \in Undrained}
      /\ registered' = {} /\ actions' = <<Lifecycle("halted")>>
      /\ posted' = <<>> /\ parked' = {} /\ vm' = "halted"
      /\ UNCHANGED <<hostVars, flying, stale, rejected>>
  BY DEF EnterHalted
<1>2. Undrained = Asked(actions)
  BY DEF Undrained, Asked, Requests
<1>3. Asked(actions) \in SUBSET host
  BY DEF FetchInv, HostInv
<1>4. StoreInv'
  BY <1>1, <1>2, <1>3, RetirementInv
<1>5. /\ pending' = {} /\ outgoing' = <<>> /\ failed' = {} /\ host' = host \ Asked(actions)
  BY <1>1, <1>2 DEF ResetRequests
<1>6. FetchInv'
  <2>1. Lifecycle("halted") \in Action /\ Lifecycle("halted").kind # "request"
    BY DEF Action, Lifecycle
  <2>2. actions' \in Seq(Action) /\ Requests(actions') = {}
    BY <1>1, <2>1 DEF Requests
  <2>3. ActionsOK' /\ Asked(actions') = {}
    BY <2>2 DEF ActionsOK, Asked
  <2>4. host' = flying
    BY <1>5 DEF FetchInv, HostInv
  <2>5. registered' \cup retired' = Ids(host')
    <3>1. registered' \cup retired' = Ids(host) \ Ids(Asked(actions))
      BY <1>1, <1>2 DEF FetchInv, HostInv, Ids
    <3>2. \A f \in host \ Asked(actions), g \in Asked(actions) : f.id # g.id
      BY <1>3 DEF FetchInv, HostInv
    <3>3. Ids(host) \ Ids(Asked(actions)) = Ids(host \ Asked(actions))
      BY <3>2 DEF Ids
    <3> QED
      BY <1>5, <3>1, <3>3
  <2>6. HostInv'
    BY <1>1, <2>3, <2>4, <2>5 DEF FetchInv, HostInv
  <2>7. HeardInv'
    BY <1>5 DEF HeardInv
  <2> QED
    BY <2>3, <2>6, <2>7 DEF FetchInv
<1> QED
  BY <1>1, <1>4, <1>5, <1>6, LifecycleKeeps

LEMMA LifecycleStepsKeep ==
  ASSUME ServiceInv, GuestHalts \/ GuestResets \/ HostHalt \/ HostReset \/ Boot
  PROVE  ServiceInv'
<1> USE DEF ServiceInv
<1>1. CASE GuestHalts
  <2>1. At("halt") /\ EnterHalted /\ stack' = Tail(stack)
    BY <1>1 DEF GuestHalts, Return
  <2>2. stack = sHalt /\ stack' = sDrain /\ vm = "running"
    BY <2>1, Tops, StackTable, StackKinds DEF Kinds, StackInv
  <2> QED
    BY <2>1, <2>2, EnterHaltedKeeps
<1>2. CASE GuestResets
  <2>1. At("reset") /\ ResetMachine /\ stack' = Tail(stack)
    BY <1>2 DEF GuestResets, Return
  <2>2. stack = sReset /\ stack' = sDrain /\ vm = "running"
    BY <2>1, Tops, StackTable, StackKinds DEF Kinds, StackInv
  <2> QED
    BY <2>1, <2>2, ResetMachineKeeps
<1>3. CASE HostHalt
  <2>1. EnterHalted /\ stack = <<>> /\ vm = "running" /\ stack' = sDrain
    BY <1>3 DEF HostHalt, Idle, sDrain
  <2> QED
    BY <2>1, EnterHaltedKeeps
<1>4. CASE HostReset \/ Boot
  <2>1. ResetMachine /\ stack = <<>> /\ (vm = "running" \/ reads = <<>>) /\ stack' = sDrain
    BY <1>4 DEF HostReset, Boot, Idle, sDrain
  <2> QED
    BY <2>1, ResetMachineKeeps
<1> QED
  BY <1>1, <1>2, <1>3, <1>4

-----------------------------------------------------------------------------
(* Responses.                                                              *)

\* Between tasks, the host has nothing of the store but what is in flight, and
\* a fetch in flight that the store waits for is the one it waits for.
LEMMA FlightIs ==
  ASSUME ServiceInv, Idle, NEW f \in flying
  PROVE  /\ f \in host /\ host = flying
         /\ \A p \in pending : p.id = f.id => /\ Own(p) = f /\ f \notin stale
                                              /\ f.id \in registered \ retired
<1> USE DEF ServiceInv
<1>1. actions = <<>> /\ outgoing = <<>>
  BY IdleIs
<1>2. Asked(actions) = {}
  BY <1>1 DEF Asked, Requests
<1>3. host = flying
  BY <1>2 DEF FetchInv, HostInv
<1>4. ASSUME NEW p \in pending, p.id = f.id
      PROVE  Own(p) = f /\ f \notin stale /\ f.id \in registered \ retired
  <2>1. f = Own(p)
    BY <1>3, <1>4 DEF StoreInv, FetchesTracked, Own
  <2> QED
    BY <1>3, <1>4, <2>1 DEF FetchInv, HeardInv
<1> QED
  BY <1>3, <1>4

LEMMA LandFetches ==
  ASSUME ServiceInv, NEW f, Land(f), host' = host \ {f}, pending' \subseteq pending,
         \A p \in pending' : p.id # f.id, rejected' = FALSE
  PROVE  FetchInv'
<1> USE DEF ServiceInv
<1>1. /\ Idle /\ f \in flying /\ flying' = flying \ {f} /\ stale' = stale \ {f}
      /\ retired' = retired \ {f.id} /\ registered' = registered \ {f.id}
      /\ UNCHANGED actions
  BY DEF Land
<1>2. actions = <<>> /\ host = flying
  BY <1>1, IdleIs, FlightIs
<1>3. ActionsOK'
  BY <1>1 DEF FetchInv, ActionsOK
<1>4. Asked(actions') = {} /\ Requests(actions') = DOMAIN actions'
  BY <1>1, <1>2 DEF Asked, Requests
<1>5. Ids(host') = Ids(host) \ {f.id}
  <2>1. \A g \in host : g.id = f.id => g = f
    BY <1>1, <1>2 DEF FetchInv, HostInv
  <2> QED
    BY <2>1 DEF Ids
<1>6. HostInv'
  BY <1>1, <1>2, <1>4, <1>5 DEF FetchInv, HostInv
<1>7. HeardInv'
  BY <1>1, <1>4 DEF FetchInv, HeardInv
<1> QED
  BY <1>3, <1>6, <1>7 DEF FetchInv

\* A response that the store is not told of, or does not know, changes nothing
\* that anyone waits for.
LEMMA UnheardKeeps ==
  ASSUME ServiceInv, NEW f, Land(f), StoreInv', host' = host \ {f}, Unknown(f),
         UNCHANGED <<cached, dirty, failed, pending, outgoing>>, rejected' = FALSE,
         stack' \in {<<>>, sDrain, sPumpDrain}
  PROVE  ServiceInv'
<1> USE DEF ServiceInv
<1>1. /\ Idle /\ UNCHANGED <<vm, reads, promises, todo, serviced, actions, posted, parked>>
  BY DEF Land, hostVars, guestVars
<1>2. /\ stack = <<>> /\ outgoing = <<>> /\ actions = <<>> /\ serviced = FALSE /\ todo = <<>>
      /\ Elems(promises) = DOMAIN reads
      /\ \A id \in DOMAIN reads : WaitsFor(cached, dirty, failed, pending, reads[id])
  BY <1>1, IdleIs
<1>3. FetchInv'
  BY LandFetches DEF Unknown
<1>4. /\ stack' \in Stacks /\ stack' \notin Running /\ stack' # sFirst /\ stack' \notin Polling
      /\ stack' # sPoll /\ stack' # sResume /\ stack' \notin Clearing
      /\ stack # sResume /\ stack \notin Clearing
  BY <1>2, StackTable, StackKinds DEF Kinds
<1>5. StackInv'
  BY <1>1, <1>2, <1>4 DEF StackInv
<1>6. PromiseInv'
  BY <1>1, <1>2, <1>4 DEF PromiseInv
<1>7. ReadInv'
  BY <1>1, <1>2 DEF ReadInv
<1>8. GuestInv'
  BY <1>1, <1>4 DEF GuestInv
<1> QED
  BY <1>3, <1>5, <1>6, <1>7, <1>8

\* The response of a retired or stale request is not one the store waits for,
\* so that dropping it is what the store would have done.
LEMMA DroppedKeeps ==
  ASSUME ServiceInv, NEW f \in flying, ResponseDropped(f) \/ ResponseIgnored(f)
  PROVE  ServiceInv' /\ CompleteUnknown(f) /\ f \in host
<1> USE DEF ServiceInv
<1>1. Land(f) /\ Idle /\ Unheard(f) /\ (f \in stale \/ f.id \notin registered \ retired)
  BY DEF ResponseDropped, ResponseIgnored, Land
<1>2. Unknown(f) /\ f \in host
  BY <1>1, FlightIs DEF Unknown
<1>3. CompleteUnknown(f)
  BY <1>1, <1>2 DEF Unheard, CompleteUnknown
<1>4. StoreInv' /\ host' = host \ {f} /\ UNCHANGED <<cached, dirty, failed, pending, outgoing>>
  BY <1>2, <1>3, CompleteUnknownInv DEF CompleteUnknown, cacheVars, overlayVars
<1>5. f.id \in registered \cup retired
  BY <1>2 DEF FetchInv, HostInv, Ids
<1>6. stack' \in {<<>>, sDrain} /\ rejected' = FALSE
  <2>1. CASE ResponseDropped(f)
    BY <1>1, <2>1 DEF ResponseDropped, Idle, FetchInv, HostInv
  <2>2. CASE ResponseIgnored(f)
    <3>1. f.id \in retired
      BY <1>5, <2>2 DEF ResponseIgnored
    <3> QED
      BY <2>2, <3>1 DEF ResponseIgnored, FetchInv, HostInv, sDrain
  <2> QED
    BY <2>1, <2>2
<1> QED
  BY <1>1, <1>2, <1>3, <1>4, <1>6, UnheardKeeps

\* The failure of the block a request waits for is where its next attempt stops.
LEMMA FailureMet ==
  ASSUME NEW c, NEW d, NEW P, NEW p \in P, NEW r, WaitsFor(c, d, {}, P, r),
         \A q \in P : q = p, p.block \notin c
  PROVE  /\ StopsAt(c, d, {p.block}, r) # {}
         /\ StopBlock(c, d, {p.block}, r) \in {p.block}
<1>1. StopsAt(c, d, {}, r) # {} /\ p.block = StopBlock(c, d, {}, r)
  BY DEF WaitsFor
<1>2. StopsAt(c, d, {p.block}, r) = StopsAt(c, d, {}, r)
  BY DEF StopsAt
<1>3. StopBlock(c, d, {p.block}, r) = StopBlock(c, d, {}, r)
  BY <1>2 DEF StopBlock
<1> QED
  BY <1>1, <1>2, <1>3

\* The response of a fetch that the store waits for.
LEMMA HeardKeeps ==
  ASSUME ServiceInv, NEW f \in flying, NEW p \in pending, p.id = f.id, Land(f), StoreInv',
         pending' = pending \ {p}, host' = host \ {f}, UNCHANGED <<dirty, outgoing, rejected>>,
         \/ failed' = failed
         \/ failed' = failed \cup {p.block} /\ cached' = cached,
         stack' = IF vm = "running" THEN sResume ELSE sPumpDrain
  PROVE  ServiceInv'
<1> USE DEF ServiceInv
<1>1. /\ Idle /\ UNCHANGED <<vm, reads, promises, todo, serviced, actions, posted, parked>>
  BY DEF Land, hostVars, guestVars
<1>2. /\ stack = <<>> /\ outgoing = <<>> /\ actions = <<>> /\ serviced = FALSE /\ todo = <<>>
      /\ Elems(promises) = DOMAIN reads
  BY <1>1, IdleIs
<1>3. FetchInv'
  <2>1. \A q \in pending' : q.id # f.id
    BY DEF StoreInv, Deduplicated
  <2>2. rejected' = FALSE
    BY DEF FetchInv, HostInv
  <2> QED
    BY <2>1, <2>2, LandFetches
<1>4. /\ stack' \in Stacks /\ stack' # sFirst /\ stack' \notin Polling /\ stack' # sPoll
      /\ stack' \notin Clearing /\ (stack' \in Running => vm = "running")
  BY StackTable, StackKinds DEF Kinds
<1>5. StackInv'
  BY <1>1, <1>2, <1>4 DEF StackInv
<1>6. PromiseInv'
  BY <1>1, <1>2, <1>4 DEF PromiseInv
<1>7. CASE vm = "running"
  <2>1. reads = <<>>
    BY <1>7 DEF PromiseInv
  <2>2. ReadInv'
    BY <1>1, <2>1 DEF ReadInv
  <2>3. stack # sResume /\ stack \notin Clearing /\ stack' = sResume
    BY <1>2, <1>7, StackTable, StackKinds DEF Kinds
  <2>4. /\ failed = {} /\ parked # {} /\ \A q \in pending : q = p
        /\ \A q \in parked : WaitsFor(cached, dirty, failed, pending, q.extent)
    BY <1>7, <2>3 DEF GuestInv
  <2>5. pending' = {}
    BY <2>4
  <2>6. ASSUME failed' # {}, NEW q \in parked
        PROVE  /\ StopsAt(cached', dirty', failed', q.extent) # {}
               /\ StopBlock(cached', dirty', failed', q.extent) \in failed'
    <3>1. failed' = {p.block} /\ cached' = cached /\ p.block \notin cached
      BY <2>4, <2>6 DEF StoreInv, Deduplicated
    <3>2. WaitsFor(cached, dirty, {}, pending, q.extent)
      BY <2>4
    <3>3. /\ StopsAt(cached, dirty, {p.block}, q.extent) # {}
          /\ StopBlock(cached, dirty, {p.block}, q.extent) \in {p.block}
      BY <2>4, <3>1, <3>2, FailureMet
    <3> QED
      BY <3>1, <3>3
  <2>7. GuestInv'
    BY <1>1, <1>4, <1>7, <2>3, <2>4, <2>5, <2>6 DEF GuestInv
  <2> QED
    BY <1>3, <1>5, <1>6, <2>2, <2>7
<1>8. CASE vm # "running"
  <2>1. stack' \in Draining
    BY <1>8, StackKinds DEF Kinds
  <2>2. ReadInv'
    BY <1>1, <1>2, <2>1 DEF ReadInv
  <2>3. GuestInv'
    BY <1>1, <1>8 DEF GuestInv
  <2> QED
    BY <1>3, <1>5, <1>6, <2>2, <2>3
<1> QED
  BY <1>7, <1>8

LEMMA AcceptedKeeps ==
  ASSUME ServiceInv, NEW f \in flying, ResponseAccepted(f)
  PROVE  ServiceInv' /\ Respond(f) /\ f \in host
<1> USE DEF ServiceInv
<1>1. /\ Land(f) /\ Idle /\ Respond(f) /\ UNCHANGED rejected
      /\ stack' = IF vm = "running" /\ ~Unknown(f) THEN sResume ELSE sPumpDrain
  BY DEF ResponseAccepted, Land, sResume, sPumpDrain
<1>2. f \in host
  BY <1>1, FlightIs
<1>3. StoreInv'
  <2>1. StoreNext
    BY <1>1, <1>2 DEF StoreNext
  <2> QED
    BY <2>1, StoreNextInv
<1>4. CASE CompleteUnknown(f)
  <2>1. /\ Unknown(f) /\ host' = host \ {f}
        /\ UNCHANGED <<cached, dirty, failed, pending, outgoing>>
    BY <1>4 DEF CompleteUnknown, cacheVars, overlayVars
  <2>2. rejected' = FALSE /\ stack' = sPumpDrain
    BY <1>1, <2>1 DEF FetchInv, HostInv
  <2> QED
    BY <1>1, <1>2, <1>3, <2>1, <2>2, UnheardKeeps
<1>5. CASE Complete(f)
  <2>1. PICK p \in pending :
          /\ p.id = f.id /\ pending' = pending \ {p} /\ host' = host \ {f}
          /\ UNCHANGED <<overlayVars, failed, outgoing>>
    BY <1>5 DEF Complete
  <2>2. stack' = IF vm = "running" THEN sResume ELSE sPumpDrain
    BY <1>1, <2>1 DEF Unknown
  <2> QED
    BY <1>1, <1>2, <1>3, <2>1, <2>2, HeardKeeps DEF overlayVars
<1>6. CASE Fail(f)
  <2>1. PICK p \in pending :
          /\ p.id = f.id /\ pending' = pending \ {p} /\ host' = host \ {f}
          /\ failed' = IF p.demanded THEN failed \cup {p.block} ELSE failed
          /\ UNCHANGED <<cacheVars, overlayVars, outgoing>>
    BY <1>6 DEF Fail
  <2>2. stack' = IF vm = "running" THEN sResume ELSE sPumpDrain
    BY <1>1, <2>1 DEF Unknown
  <2> QED
    BY <1>1, <1>2, <1>3, <2>1, <2>2, HeardKeeps DEF cacheVars, overlayVars
<1> QED
  BY <1>1, <1>4, <1>5, <1>6 DEF Respond

-----------------------------------------------------------------------------
(* The invariant, and the step of the store in every step of the service.  *)

LEMMA ServiceInit ==
  Init => ServiceInv
<1> SUFFICES ASSUME Init
             PROVE  ServiceInv
  OBVIOUS
<1>1. /\ StoreInit /\ vm = "halted" /\ stack = sPumpDrain
      /\ reads = <<>> /\ promises = <<>> /\ todo = <<>> /\ serviced = FALSE
      /\ registered = {} /\ retired = {} /\ actions = <<>>
      /\ flying = {} /\ stale = {} /\ rejected = FALSE /\ posted = <<>> /\ parked = {}
  BY DEF Init, sPumpDrain
<1>2. host = {}
  BY <1>1 DEF StoreInit
<1>3. StoreInv
  BY <1>1, StoreInitInv
<1>4. StackInv
  BY <1>1, StackTable, StackKinds DEF Kinds, StackInv
<1>5. Requests(actions) = {} /\ Asked(actions) = {} /\ DOMAIN actions = {} /\ Ids(host) = {}
  BY <1>1, <1>2 DEF Requests, Asked, Ids
<1>6. ActionsOK /\ HostInv /\ HeardInv
  BY <1>1, <1>2, <1>5 DEF ActionsOK, HostInv, HeardInv
<1>7. PromiseInv
  <2>1. Elems(promises) = {} /\ DOMAIN reads = {}
    BY <1>1 DEF Elems
  <2> QED
    BY <1>1, <2>1, StackTable, StackKinds DEF Kinds, PromiseInv
<1>8. ReadInv
  BY <1>1 DEF ReadInv
<1>9. GuestInv
  BY <1>1 DEF GuestInv
<1> QED
  BY <1>3, <1>4, <1>6, <1>7, <1>8, <1>9 DEF ServiceInv, FetchInv

LEMMA ServiceStutters ==
  ASSUME ServiceInv, UNCHANGED vars
  PROVE  ServiceInv'
<1> USE DEF ServiceInv
<1>1. /\ StoreInv' /\ UNCHANGED <<cached, dirty, failed, pending, outgoing, host>>
  BY StoreStays DEF vars
<1>2. UNCHANGED <<vm, stack, reads, promises, todo, serviced, registered, retired, actions,
                  flying, stale, rejected, posted, parked>>
  BY DEF vars, serviceVars, hostVars, httpVars, guestVars
<1>3. StackInv'
  BY <1>1, <1>2 DEF StackInv
<1>4. FetchInv'
  BY <1>1, <1>2 DEF FetchInv, ActionsOK, HostInv, HeardInv
<1>5. PromiseInv'
  BY <1>2 DEF PromiseInv
<1>6. ReadInv'
  BY <1>1, <1>2 DEF ReadInv
<1>7. GuestInv'
  BY <1>1, <1>2 DEF GuestInv
<1> QED
  BY <1>1, <1>3, <1>4, <1>5, <1>6, <1>7

LEMMA CallKeeps ==
  ASSUME ServiceInv, Call
  PROVE  ServiceInv'
  BY HostReadKeeps, HostWriteKeeps, HostDiscardKeeps, LifecycleStepsKeep, ColdResetKeeps,
     DestroyKeeps DEF Call

LEMMA GuestKeeps ==
  ASSUME ServiceInv, Guest
  PROVE  ServiceInv'
  BY GuestSubmitKeeps, GuestDeviceResetKeeps, GuestEndKeeps DEF Guest

LEMMA ProceedKeeps ==
  ASSUME ServiceInv, Proceed
  PROVE  ServiceInv'
<1>1. CASE FirstAttempt \/ PollRetired \/ PollRead \/ PollDone \/ Pump \/ PumpDone
  BY <1>1, FirstAttemptKeeps, PollRetiredKeeps, PollReadKeeps, PollDoneKeeps, PumpKeeps,
     PumpDoneKeeps
<1>2. CASE DrainRequest \/ DrainLifecycle \/ DrainService \/ DrainDone
  BY <1>2, DrainRequestKeeps, DrainLifecycleKeeps, DrainServiceKeeps, DrainDoneKeeps
<1>3. CASE NotifyDone \/ NotifyRead \/ NotifyWrite \/ Resume \/ ClearAfterFailure
  BY <1>3, NotifyDoneKeeps, NotifyReadKeeps, NotifyWriteKeeps, ResumeKeeps,
     ClearAfterFailureKeeps
<1>4. CASE GuestHalts \/ GuestResets
  BY <1>4, LifecycleStepsKeep
<1> QED
  BY <1>1, <1>2, <1>3, <1>4 DEF Proceed

LEMMA ServiceInductive ==
  ServiceInv /\ [Next]_vars => ServiceInv'
<1> SUFFICES ASSUME ServiceInv, [Next]_vars
             PROVE  ServiceInv'
  OBVIOUS
<1>1. ASSUME NEW f \in flying, Response(f) PROVE ServiceInv'
  BY <1>1, DroppedKeeps, AcceptedKeeps DEF Response
<1> QED
  BY <1>1, CallKeeps, QuantumKeeps, GuestKeeps, ProceedKeeps, ServiceStutters DEF Next

\* A read or a write of a range that the service makes is a call of the store.
LEMMA RangeSteps ==
  ASSUME NEW r \in Extent, ReadStep(r) \/ WriteStep(r)
  PROVE  StoreNext
<1>1. r.first \in 0 .. Capacity /\ r.n \in 0 .. MaxCount
  BY ExtentIs
<1> QED
  BY <1>1 DEF ReadStep, WriteStep, StoreNext

LEMMA ResetSteps ==
  ASSUME ResetRequests({})
  PROVE  StoreNext
<1>1. {} \in SUBSET host
  OBVIOUS
<1> QED
  BY <1>1 DEF StoreNext

LEMMA CallSteps ==
  ASSUME ServiceInv, Call
  PROVE  StoreNext \/ UNCHANGED storeVars
<1>1. ASSUME NEW id \in ReadIds, NEW r \in Extent, HostRead(id, r)
      PROVE  StoreNext \/ UNCHANGED storeVars
  BY <1>1 DEF HostRead, StoreNext
<1>2. ASSUME NEW r \in Extent, HostWrite(r) PROVE StoreNext
  BY <1>2, RangeSteps DEF HostWrite
<1>3. CASE HostDiscard
  BY <1>3 DEF HostDiscard, StoreNext
<1>4. CASE HostHalt
  <2>1. Undrained = Asked(actions)
    BY DEF Undrained, Asked, Requests
  <2>2. Undrained \in SUBSET host
    BY <2>1 DEF ServiceInv, FetchInv, HostInv
  <2> QED
    BY <1>4, <2>2 DEF HostHalt, EnterHalted, StoreNext
<1>5. CASE HostReset \/ Boot \/ ColdReset \/ Destroy
  BY <1>5, ResetSteps DEF HostReset, Boot, ResetMachine, ColdReset, Destroy
<1> QED
  BY <1>1, <1>2, <1>3, <1>4, <1>5 DEF Call

LEMMA GuestReads ==
  ASSUME ServiceInv
  PROVE  /\ NotifyRead \/ NotifyWrite => StoreNext
         /\ Resume => StoreNext
<1>1. CASE NotifyRead \/ NotifyWrite
  <2>1. /\ At("notify") /\ posted # <<>> /\ parked = {}
        /\ ReadStep(Head(posted).extent) \/ WriteStep(Head(posted).extent)
    BY <1>1 DEF NotifyRead, NotifyWrite
  <2>2. Head(posted).extent \in Extent
    BY <2>1, NotifyIs DEF GuestRequest
  <2>3. PICK r \in Extent : ReadStep(r) \/ WriteStep(r)
    BY <2>1, <2>2
  <2> QED
    BY <1>1, <2>3, RangeSteps
<1>2. CASE Resume
  <2>1. PICK q \in parked : ReadStep(q.extent)
    BY <1>2 DEF Resume
  <2>2. q.extent \in Extent
    BY DEF ServiceInv, GuestInv, GuestRequest
  <2>3. PICK r \in Extent : ReadStep(r)
    BY <2>1, <2>2
  <2> QED
    BY <2>3, RangeSteps
<1> QED
  BY <1>1, <1>2

LEMMA HostReads ==
  ASSUME ServiceInv, FirstAttempt \/ PollRead
  PROVE  StoreNext
<1>1. ReadStep(reads[Head(todo)]) /\ (At("first") \/ Head(todo) \in DOMAIN reads)
  BY DEF FirstAttempt, PollRead
<1>2. Head(todo) \in DOMAIN reads
  <2>1. CASE At("first")
    <3>1. stack = sFirst
      BY <2>1, Tops DEF ServiceInv, StackInv
    <3> QED
      BY <3>1 DEF ServiceInv, PromiseInv
  <2> QED
    BY <1>1, <2>1
<1>3. reads[Head(todo)] \in Extent
  BY <1>2 DEF ServiceInv, PromiseInv
<1>4. PICK r \in Extent : ReadStep(r)
  BY <1>1, <1>3
<1> QED
  BY <1>4, RangeSteps

LEMMA ProceedSteps ==
  ASSUME ServiceInv, Proceed
  PROVE  StoreNext \/ UNCHANGED storeVars
<1>1. CASE FirstAttempt \/ PollRead \/ NotifyRead \/ NotifyWrite \/ Resume
  BY <1>1, HostReads, GuestReads
<1>2. CASE PollRetired \/ PollDone \/ PumpDone \/ DrainRequest \/ DrainLifecycle \/ DrainService
           \/ DrainDone \/ NotifyDone
  BY <1>2 DEF PollRetired, PollDone, PumpDone, DrainRequest, DrainLifecycle, DrainService,
     DrainDone, NotifyDone
<1>3. CASE Pump \/ ClearAfterFailure
  BY <1>3 DEF Pump, ClearAfterFailure, StoreNext
<1>4. CASE GuestHalts
  <2>1. Undrained = Asked(actions)
    BY DEF Undrained, Asked, Requests
  <2>2. Undrained \in SUBSET host
    BY <2>1 DEF ServiceInv, FetchInv, HostInv
  <2> QED
    BY <1>4, <2>2 DEF GuestHalts, EnterHalted, StoreNext
<1>5. CASE GuestResets
  BY <1>5, ResetSteps DEF GuestResets, ResetMachine
<1> QED
  BY <1>1, <1>2, <1>3, <1>4, <1>5 DEF Proceed

LEMMA GuestStepsStore ==
  ASSUME Guest
  PROVE  StoreNext \/ UNCHANGED storeVars
<1>1. CASE GuestDeviceReset
  BY <1>1, ResetSteps DEF GuestDeviceReset
<1>2. ASSUME NEW q \in GuestRequest, GuestSubmit(q) PROVE UNCHANGED storeVars
  BY <1>2 DEF GuestSubmit
<1>3. CASE GuestYield \/ GuestPoweroff \/ GuestReboot
  BY <1>3 DEF GuestYield, GuestPoweroff, GuestReboot, GuestEnd
<1> QED
  BY <1>1, <1>2, <1>3 DEF Guest

LEMMA ServiceSteps ==
  ServiceInv /\ [Next]_vars => [StoreNext]_storeVars
<1> SUFFICES ASSUME ServiceInv, [Next]_vars
             PROVE  StoreNext \/ UNCHANGED storeVars
  OBVIOUS
<1>1. ASSUME NEW f \in flying, Response(f) PROVE StoreNext
  <2>1. Respond(f) /\ f \in host
    BY <1>1, DroppedKeeps, AcceptedKeeps DEF Response, Respond
  <2> QED
    BY <2>1 DEF StoreNext
<1>2. CASE Quantum
  BY <1>2 DEF Quantum
<1>3. CASE UNCHANGED vars
  BY <1>3 DEF vars
<1> QED
  BY <1>1, <1>2, <1>3, CallSteps, GuestStepsStore, ProceedSteps DEF Next

-----------------------------------------------------------------------------
(* What follows for every execution.                                       *)

\* The invariant that carries the proofs: the stacks a task goes through, what
\* the runtime and the adapter know of each fetch, and who waits for it.
THEOREM ServiceInvariant == Spec => []ServiceInv
<1>1. Init => ServiceInv
  BY ServiceInit
<1>2. ServiceInv /\ [Next]_vars => ServiceInv'
  BY ServiceInductive
<1> QED
  BY <1>1, <1>2, PTL DEF Spec

\* Runtime, adapter, facade and device together use the store only as its own
\* specification allows, so that all its theorems hold of the service; in
\* particular a response that adapter or runtime drops is one that the store
\* would have answered with UnknownRequest.
THEOREM ServiceImplementsStore == Spec => StoreSpec
<1>1. Init => StoreInit
  BY DEF Init
<1>2. ServiceInv /\ [Next]_vars => [StoreNext]_storeVars
  BY ServiceSteps
<1> QED
  BY <1>1, <1>2, ServiceInvariant, PTL DEF Spec, StoreSpec

\* Seen from the guest and from the page the disk is a plain one, whatever is
\* fetched, evicted, failed, retired or dropped on the way.
THEOREM ServiceImplementsDisk == Spec => ImplementsDisk
  BY ServiceImplementsStore, StoreImplementsDisk, PTL

\* The tables hold what they are declared to hold, and BlockDevice::resume
\* always finds a parked request.
THEOREM ServiceTypes == Spec => []ServiceTypeOK
<1>1. ASSUME ServiceInv PROVE ServiceTypeOK
  <2> USE <1>1 DEF ServiceInv
  <2>1. TypeOK
    BY DEF StoreInv
  <2>2. At("resume") => parked # {}
    BY Tops, StackKinds DEF Kinds, StackInv, GuestInv
  <2>3. flying \subseteq host /\ stale \subseteq flying /\ rejected \in BOOLEAN
    BY DEF FetchInv, HostInv
  <2>4. registered \subseteq RequestIds /\ retired \subseteq RequestIds
    BY <2>1 DEF FetchInv, HostInv, Ids, TypeOK, Fetch
  <2>5. /\ vm \in {"halted", "running", "empty"} /\ serviced \in BOOLEAN
    BY DEF StackInv
  <2>6. /\ DOMAIN reads \subseteq ReadIds /\ \A id \in DOMAIN reads : reads[id] \in Extent
        /\ promises \in Seq(ReadIds) /\ todo \in Seq(ReadIds)
    BY DEF PromiseInv
  <2>7. posted \in Seq(GuestRequest) /\ parked \subseteq GuestRequest
    BY DEF GuestInv
  <2>8. flying \subseteq Fetch
    BY <2>1, <2>3 DEF TypeOK
  <2> QED
    BY <2>1, <2>2, <2>3, <2>4, <2>5, <2>6, <2>7, <2>8 DEF ServiceTypeOK
<1> QED
  BY <1>1, ServiceInvariant, PTL

\* Between tasks every fetch the store waits for is performed under the current
\* generation and registered, and complete_http has refused none.
THEOREM FetchesHeardAlways == Spec => []FetchesHeard
<1>1. ASSUME ServiceInv PROVE FetchesHeard
  <2> USE <1>1 DEF ServiceInv
  <2>1. ASSUME Idle, NEW p \in pending
        PROVE  /\ [id |-> p.id, block |-> p.block] \in flying \ stale
               /\ p.id \in registered \ retired
    <3>1. outgoing = <<>> /\ actions = <<>>
      BY <2>1, IdleIs
    <3>2. Queued = {} /\ Asked(actions) = {}
      BY <3>1 DEF Queued, Asked, Requests
    <3>3. Own(p) \in host /\ host = flying
      BY <3>2 DEF StoreInv, FetchesTracked, Own, FetchInv, HostInv
    <3> QED
      BY <3>3 DEF FetchInv, HeardInv, Own
  <2>2. NeverRejected
    BY DEF FetchInv, HostInv, NeverRejected
  <2> QED
    BY <2>1, <2>2 DEF FetchesHeard, FetchesAlive
<1> QED
  BY <1>1, ServiceInvariant, PTL

\* Between tasks every reader that waits, guest or host, waits for a demanded
\* fetch of the first sector it lacks; with FetchesHeardAlways it is woken.
THEOREM NoneStrandedAlways == Spec => []NoneStranded
<1>1. ASSUME ServiceInv PROVE NoneStranded
  <2> USE <1>1 DEF ServiceInv
  <2>1. ASSUME Idle, NEW id \in DOMAIN reads PROVE Waits(reads[id])
    BY <2>1, IdleIs, WaitsDefined
  <2>2. ASSUME Idle, NEW q \in parked PROVE Waits(q.extent)
    <3>1. stack # sResume /\ vm = "running"
      BY <2>2, StackTable DEF Idle, GuestInv
    <3>2. WaitsFor(cached, dirty, failed, pending, q.extent)
      BY <3>1 DEF GuestInv
    <3> QED
      BY <3>2, WaitsDefined
  <2> QED
    BY <2>1, <2>2 DEF NoneStranded
<1> QED
  BY <1>1, ServiceInvariant, PTL

\* Between tasks the promises given out are the reads that the core remembers,
\* and no error outlives the guest's request that it answers.
THEOREM AnswersForgottenAlways == Spec => []AnswersForgotten
<1>1. ASSUME ServiceInv PROVE AnswersForgotten
  <2> USE <1>1 DEF ServiceInv
  <2>1. ASSUME Idle
        PROVE  /\ {promises[i] : i \in DOMAIN promises} = DOMAIN reads
               /\ vm # "halted" => reads = <<>>
    BY <2>1, IdleIs DEF Elems, PromiseInv
  <2>2. ASSUME Idle, vm = "running" PROVE failed = {}
    <3>1. stack # sResume /\ stack \notin Clearing
      BY <2>2, StackTable, StackKinds DEF Kinds, Idle
    <3> QED
      BY <2>2, <3>1 DEF GuestInv
  <2> QED
    BY <2>1, <2>2 DEF AnswersForgotten, PromisesKept, ErrorsConsumed
<1> QED
  BY <1>1, ServiceInvariant, PTL

=============================================================================
