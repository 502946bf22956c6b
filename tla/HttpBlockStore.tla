--------------------------- MODULE HttpBlockStore ---------------------------
(***************************************************************************)
(* A disk whose image lives on a web server (src/block_storage.rs,         *)
(* HttpBlockStore and HttpQueue).  Sectors written by the guest or by the  *)
(* host go to an overlay; all others are read from blocks fetched over     *)
(* HTTP, of which a bounded number is kept, the least recently used one    *)
(* being dropped first.  A read never waits: it copies resident sectors,   *)
(* or queues a fetch of the first block it misses and says so, and its     *)
(* caller tries again once a response has come.                            *)
(*                                                                         *)
(* Two abstractions of data.  The overlay's 4 KiB clusters with one dirty  *)
(* bit per sector are flattened to a set of dirty sectors and a function   *)
(* of their bytes (a cluster is allocated zeroed, hence Zero).  The LRU    *)
(* clock is reduced to the order it induces: age[b] is the number of       *)
(* resident blocks used less recently than b.                              *)
(***************************************************************************)
EXTENDS Integers, Sequences, FiniteSets

CONSTANTS
  BlockCount,    \* n_block of the manifest
  BlockSectors,  \* sectors in a block, block_size / 512
  CacheLimit,    \* blocks that fit the initial cache_limit
  Prefetch,      \* the manifest's prefetch array, without repetitions
  Data,          \* contents of a sector
  Written,       \* those that users write
  Base,          \* the image on the server
  Zero,          \* content of a sector of a fresh overlay cluster
  RequestIds,    \* request identifiers; see FreshId
  MaxCount       \* bound on the sectors of one call

Blocks == 0 .. BlockCount - 1
Capacity == BlockCount * BlockSectors
Sectors == 0 .. Capacity - 1

ASSUME StoreAssumption ==
  /\ BlockCount \in Nat \ {0}
  /\ BlockSectors \in Nat \ {0}
  /\ CacheLimit \in Nat \ {0}
  /\ Prefetch \in Seq(Blocks)
  /\ \A i, j \in 1 .. Len(Prefetch) : Prefetch[i] = Prefetch[j] => i = j
  /\ Base \in [Sectors -> Data]
  /\ Zero \in Data
  /\ Written \subseteq Data
  /\ RequestIds \subseteq Nat
  /\ 1 .. Len(Prefetch) \subseteq RequestIds
  /\ MaxCount \in Nat

VARIABLES
  cached,    \* the resident blocks
  content,   \* content[b]: the block whose bytes are kept for resident b
  age,       \* age[b]: how many resident blocks were used before b
  limit,     \* cache_limit, in blocks
  dirty,     \* the sectors the overlay overrides
  bytes,     \* the overlay's bytes
  failed,    \* blocks whose demanded fetch failed
  pending,   \* fetches the store waits for
  outgoing,  \* fetches not yet handed to the host, oldest first
  host,      \* fetches the host performs; retired ones are among them
  reply      \* the answer to the last call

cacheVars == <<cached, content, age, limit>>
overlayVars == <<dirty, bytes>>
fetchVars == <<failed, pending, outgoing, host>>
storeVars == <<cacheVars, overlayVars, fetchVars, reply>>

Fetch == [id : RequestIds, block : Blocks]
PendingChunk == [id : RequestIds, block : Blocks, demanded : BOOLEAN]

Answer(kind) == [kind |-> kind, data |-> <<>>]

-----------------------------------------------------------------------------
(* Geometry and the content of the disk.                                   *)

BlockOf(s) == s \div BlockSectors
Span(first, n) == first .. first + n - 1

\* validate_range
InRange(first, n) == n > 0 /\ first + n <= Capacity

\* Fault: the offset within the block is left out.
CachedSector_NoOffset(s) == Base[content[BlockOf(s)] * BlockSectors]

\* The bytes a clean read copies for s: those kept for its block.
CachedSector(s) ==
  Base[(content[BlockOf(s)] * BlockSectors) + (s % BlockSectors)]

-----------------------------------------------------------------------------
(* The cache.                                                              *)

\* c was used before d, once the blocks of T have been used in ascending order.
UsedBefore(c, d, T) ==
  \/ c \notin T /\ d \in T
  \/ c \in T /\ d \in T /\ c < d
  \/ c \notin T /\ d \notin T /\ age[c] < age[d]

\* The ages of the blocks of S after the blocks of T have been used.
AgesAfter(S, T) ==
  [b \in Blocks |->
     IF b \in S THEN Cardinality({c \in S : UsedBefore(c, b, T)}) ELSE 0]

\* Fault: the first key of the map is evicted, whenever it was used.
Oldest_FirstKey(S, ages) == CHOOSE b \in S : \A c \in S : b <= c

Oldest(S, ages) == CHOOSE b \in S : \A c \in S : ages[b] <= ages[c]

\* Fault: the cache may exceed its limit by one block.
Trimmed_OffByOne(S, ages) ==
  IF Cardinality(S) > limit + 1 THEN S \ {Oldest(S, ages)} ELSE S

\* trim_cache.  The loop runs at most once: the cache was within the limit
\* before one block was added, and the limit never shrinks (CacheBounded).
Trimmed(S, ages) ==
  IF Cardinality(S) > limit THEN S \ {Oldest(S, ages)} ELSE S

\* retain_working_set: one read must fit the cache, however long it is.
WorkingSet(first, n) == BlockOf(first + n - 1) - BlockOf(first) + 1
RetainWorkingSet_Fixed(first, n) == UNCHANGED limit  \* Fault: it need not.
RetainWorkingSet(first, n) ==
  limit' = IF WorkingSet(first, n) > limit THEN WorkingSet(first, n) ELSE limit

-----------------------------------------------------------------------------
(* Fetches.                                                                *)

\* The u32 counter of HttpQueue never repeats an identifier that anyone still
\* holds, short of 2^32 requests; the model reuses the released ones.
Queued == {outgoing[i] : i \in DOMAIN outgoing}
UsedIds == {f.id : f \in pending \cup Queued \cup host}
FreshId(id) ==
  /\ id \in RequestIds \ UsedIds
  /\ \A j \in RequestIds \ UsedIds : id <= j

\* Fault: a prefetch that a read joins stays undemanded.
JoinFetch_StaysPrefetch(b, demand) ==
  /\ \E p \in pending : p.block = b
  /\ UNCHANGED <<pending, outgoing>>

\* request_block for a block that is not resident: join the fetch under way,
\* or queue one.
JoinFetch(b, demand) ==
  /\ \E p \in pending : p.block = b
  /\ pending' = {IF p.block = b THEN [p EXCEPT !.demanded = @ \/ demand] ELSE p
                  : p \in pending}
  /\ UNCHANGED outgoing

QueueFetch(b, demand) ==
  /\ \A p \in pending : p.block # b
  /\ \E id \in RequestIds :
       /\ FreshId(id)
       /\ pending' = pending \cup {[id |-> id, block |-> b, demanded |-> demand]}
       /\ outgoing' = Append(outgoing, [id |-> id, block |-> b])

\* Fault: a fetch is queued although one is under way.
RequestBlock_Twice(b, demand) ==
  \E id \in RequestIds :
    /\ FreshId(id)
    /\ pending' = pending \cup {[id |-> id, block |-> b, demanded |-> demand]}
    /\ outgoing' = Append(outgoing, [id |-> id, block |-> b])

RequestBlock(b, demand) == JoinFetch(b, demand) \/ QueueFetch(b, demand)

\* HttpQueue::next_request: the runtime takes the oldest request.
NextRequest ==
  /\ outgoing # <<>>
  /\ outgoing' = Tail(outgoing)
  /\ host' = host \cup {Head(outgoing)}
  /\ reply' = Answer("none")
  /\ UNCHANGED <<cacheVars, overlayVars, failed, pending>>

-----------------------------------------------------------------------------
(* Reads and writes.                                                       *)

\* The sectors at which a read of the range cannot go on, and the first one.
Stops(first, n) ==
  {s \in Span(first, n) :
     s \notin dirty /\ (BlockOf(s) \in failed \/ BlockOf(s) \notin cached)}
FirstStop(first, n) ==
  CHOOSE s \in Stops(first, n) : \A t \in Stops(first, n) : s <= t

\* The blocks a read uses before it stops at sector stop.
BlocksUsed(first, stop) == {BlockOf(s) : s \in (first .. stop - 1) \ dirty}

\* What read_sectors copies: every sector again from the start, on each try.
ReadData(first, n) ==
  [s \in Span(first, n) |-> IF s \in dirty THEN bytes[s] ELSE CachedSector(s)]

ReadOutOfRange(first, n) ==
  /\ ~InRange(first, n)
  /\ reply' = Answer("range")
  /\ UNCHANGED <<cacheVars, overlayVars, fetchVars>>

ReadComplete(first, n) ==
  /\ InRange(first, n)
  /\ Stops(first, n) = {}
  /\ RetainWorkingSet(first, n)
  /\ age' = AgesAfter(cached, BlocksUsed(first, first + n))
  /\ reply' = [kind |-> "data", data |-> ReadData(first, n)]
  /\ UNCHANGED <<cached, content, overlayVars, fetchVars>>

ReadFailed(first, n) ==
  /\ InRange(first, n)
  /\ Stops(first, n) # {}
  /\ BlockOf(FirstStop(first, n)) \in failed
  /\ RetainWorkingSet(first, n)
  /\ age' = AgesAfter(cached, BlocksUsed(first, FirstStop(first, n)))
  /\ reply' = Answer("failed")
  /\ UNCHANGED <<cached, content, overlayVars, fetchVars>>

ReadMissing(first, n) ==
  /\ InRange(first, n)
  /\ Stops(first, n) # {}
  /\ BlockOf(FirstStop(first, n)) \notin failed
  /\ RetainWorkingSet(first, n)
  /\ age' = AgesAfter(cached, BlocksUsed(first, FirstStop(first, n)))
  /\ RequestBlock(BlockOf(FirstStop(first, n)), TRUE)
  /\ reply' = Answer("missing")
  /\ UNCHANGED <<cached, content, overlayVars, failed, host>>

ReadSectors(first, n) ==
  \/ ReadOutOfRange(first, n)
  \/ ReadComplete(first, n)
  \/ ReadFailed(first, n)
  \/ ReadMissing(first, n)

WriteSectors(first, n, new) ==
  /\ IF InRange(first, n)
       THEN /\ dirty' = dirty \cup Span(first, n)
            /\ bytes' = [s \in Sectors |->
                           IF s \in Span(first, n) THEN new[s] ELSE bytes[s]]
            /\ reply' = [kind |-> "written", data |-> new]
       ELSE /\ reply' = Answer("range")
            /\ UNCHANGED overlayVars
  /\ UNCHANGED <<cacheVars, fetchVars>>

-----------------------------------------------------------------------------
(* Responses.  f is a fetch of the host; its bytes are those of f.block,   *)
(* the block its URL names.                                                *)

\* A request the store no longer waits for: StorageError::UnknownRequest.
Unknown(f) == \A p \in pending : p.id # f.id

CompleteUnknown(f) ==
  /\ Unknown(f)
  /\ host' = host \ {f}
  /\ reply' = Answer("none")
  /\ UNCHANGED <<cacheVars, overlayVars, failed, pending, outgoing>>

Complete(f) ==
  \E p \in pending :
    /\ p.id = f.id
    /\ pending' = pending \ {p}
    /\ host' = host \ {f}
    /\ LET all == cached \cup {p.block}
           kept == Trimmed(all, AgesAfter(all, {p.block}))
       IN /\ cached' = kept
          /\ age' = AgesAfter(kept, {p.block})
    /\ content' = [content EXCEPT ![p.block] = f.block]
    /\ reply' = Answer("none")
    /\ UNCHANGED <<limit, overlayVars, failed, outgoing>>

\* fail, and complete with a response of the wrong length.
Fail(f) ==
  \E p \in pending :
    /\ p.id = f.id
    /\ pending' = pending \ {p}
    /\ host' = host \ {f}
    /\ failed' = IF p.demanded THEN failed \cup {p.block} ELSE failed
    /\ reply' = Answer("none")
    /\ UNCHANGED <<cacheVars, overlayVars, outgoing>>

Respond(f) == CompleteUnknown(f) \/ Complete(f) \/ Fail(f)

-----------------------------------------------------------------------------
(* Retirement.                                                             *)

ClearErrors ==
  /\ failed' = {}
  /\ reply' = Answer("none")
  /\ UNCHANGED <<cacheVars, overlayVars, pending, outgoing, host>>

\* Fault: the queue is emptied, but the store still waits for its fetches.
ResetRequests_KeepPending(lost) ==
  /\ outgoing' = <<>>
  /\ failed' = {}
  /\ host' = host \ lost
  /\ reply' = Answer("none")
  /\ UNCHANGED <<cacheVars, overlayVars, pending>>

\* The host keeps performing the fetches that are retired here, but those of
\* lost, which it was given and had not started.
ResetRequests(lost) ==
  /\ pending' = {}
  /\ outgoing' = <<>>
  /\ failed' = {}
  /\ host' = host \ lost
  /\ reply' = Answer("none")
  /\ UNCHANGED <<cacheVars, overlayVars>>

DiscardChanges ==
  /\ pending' = {}
  /\ outgoing' = <<>>
  /\ failed' = {}
  /\ dirty' = {}
  /\ bytes' = [s \in Sectors |-> Zero]
  /\ reply' = Answer("discarded")
  /\ UNCHANGED <<cacheVars, host>>

-----------------------------------------------------------------------------
(* from_manifest: the prefetch array is requested without demand.          *)
StoreInit ==
  /\ cached = {}
  /\ content = [b \in Blocks |-> b]
  /\ age = [b \in Blocks |-> 0]
  /\ limit = CacheLimit
  /\ dirty = {}
  /\ bytes = [s \in Sectors |-> Zero]
  /\ failed = {}
  /\ pending = {[id |-> i, block |-> Prefetch[i], demanded |-> FALSE]
                  : i \in 1 .. Len(Prefetch)}
  /\ outgoing = [i \in 1 .. Len(Prefetch) |-> [id |-> i, block |-> Prefetch[i]]]
  /\ host = {}
  /\ reply = Answer("none")

\* The calls of a user that may read and write any range, the empty one and
\* those beyond the end included, and a host that answers in any order.
StoreNext ==
  \/ \E first \in 0 .. Capacity, n \in 0 .. MaxCount :
       \/ ReadSectors(first, n)
       \/ \E new \in [Span(first, n) -> Written] : WriteSectors(first, n, new)
  \/ NextRequest
  \/ \E f \in host : Respond(f)
  \/ ClearErrors
  \/ \E lost \in SUBSET host : ResetRequests(lost)
  \/ DiscardChanges

StoreSpec == StoreInit /\ [][StoreNext]_storeVars

-----------------------------------------------------------------------------
(* Properties.                                                             *)

ReplyOK ==
  /\ reply.kind \in {"none", "missing", "failed", "range", "discarded", "data", "written"}
  /\ DOMAIN reply.data \subseteq Sectors
  /\ reply.data \in [DOMAIN reply.data -> Data]
  /\ reply.kind \notin {"data", "written"} => reply.data = <<>>

\* The types of the store's fields; the ranks of the resident blocks are a
\* numbering, so that trim_cache always finds one oldest block.
TypeOK ==
  /\ cached \subseteq Blocks
  /\ content \in [Blocks -> Blocks]
  /\ age \in [Blocks -> Nat]
  /\ \A b, c \in cached : age[b] = age[c] => b = c
  /\ limit \in Nat \ {0}
  /\ dirty \subseteq Sectors
  /\ bytes \in [Sectors -> Data]
  /\ failed \subseteq Blocks
  /\ pending \subseteq PendingChunk
  /\ outgoing \in Seq(Fetch)
  /\ host \subseteq Fetch
  /\ ReplyOK

\* "HTTP reads are deduplicated" (API.md): a block is fetched once at a time,
\* and a block being fetched is neither resident nor marked failed.  It is
\* request_block's two early returns, read_sectors' test of failed before it
\* asks, and complete's and fail's removal of the pending entry together that
\* keep the three collections apart.
Deduplicated ==
  /\ \A p, q \in pending : p.id = q.id \/ p.block = q.block => p = q
  /\ \A p \in pending : p.block \notin cached \cup failed
  /\ cached \cap failed = {}

\* A fetch the store waits for is on its way, under the same identifier and
\* for the same block: still queued, or with the host.  Hence a reader that
\* was told "missing" is woken, and the response that a retired request
\* (reset_requests, discard_changes) left with the host is never taken for
\* the answer to a newer one.
FetchesTracked ==
  \A p \in pending :
    LET own == [id |-> p.id, block |-> p.block]
    IN /\ own \in Queued \cup host
       /\ \A f \in Queued \cup host : f.id = p.id => f = own

\* A request is queued at most once, and never after the host has it.
HandedOverOnce ==
  /\ \A i, j \in DOMAIN outgoing : outgoing[i].id = outgoing[j].id => i = j
  /\ \A i \in DOMAIN outgoing : \A f \in host : f.id # outgoing[i].id

\* The bytes kept for a resident block are that block's.
CacheFaithful == \A b \in cached : content[b] = b

\* "... and cache bounded" (API.md): after every call the cache is within
\* the limit, which is why one eviction per response is enough.
CacheBounded == Cardinality(cached) <= limit

\* Only the arrival of another block evicts, and what it evicts was used
\* before everything that stays; so a reader that retries after each response
\* keeps what it has gathered as long as its range fits the limit.
LeastRecentOut ==
  [][\A gone \in cached \ cached' :
       /\ cached' \ cached # {}
       /\ \A kept \in cached \cap cached' : age[gone] < age[kept]]_storeVars

\* The store implements a plain disk: whatever is resident, evicted, pending,
\* failed or retired, a read that succeeds returns the last write of every
\* sector, or the image's bytes.
Disk ==
  INSTANCE SectorDisk WITH
    disk <- [s \in Sectors |-> IF s \in dirty THEN bytes[s] ELSE Base[s]]
ImplementsDisk == Disk!Spec

=============================================================================
