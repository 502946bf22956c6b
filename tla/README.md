# riscbox in TLA+

riscbox runs a RISC-V machine inside a browser tab.  A C core executes
instructions; a Rust runtime owns the machine, its devices and its storage and is
compiled to WebAssembly; a JavaScript facade performs fetches, schedules CPU
quanta and exposes the VM to the embedding page.  Everything runs on one
JavaScript thread, so there are no data races; what interleaves are *tasks* (a
call of the page, a quantum, the response to a fetch, a socket callback), and
what is hard is the state that survives from one task to the next: fetches in
flight while the VM is halted, reset, discarded or destroyed; requests parked in
a device; events queued for a guest that is rebooted before it sees them;
interrupts raised between two CPU runs.  Below them lies sequential code whose
difficulty is in its cases: the instructions, their floating point library and the
translation of addresses; and one of the programs the demo runs, the game
Adventure, is a state machine of its own.

This directory holds the modules that describe those parts, the TLC
configurations that check them on small instances, and TLAPS proofs about seven of
them for every value of their constants: the block store, the service around it, the
network with its client, the virtqueue, the interrupt controller, the hart with the
runtime that runs it, and the 9P tree with its sessions.  Paths below are relative to the repository, as in the other
documents of the project.

## 1. Inventory

| Part | State it keeps | Operations | Module |
|---|---|---|---|
| HTTP block store, `src/block_storage.rs` | block cache, LRU stamps, cache limit, overlay, failed blocks, pending and outgoing fetches | read, write, complete/fail a fetch, next request, clear errors, reset requests, discard | `HttpBlockStore` |
| Block device, host reads, HTTP plumbing: `src/virtio_devices.rs` (BlockDevice), `src/block_abi.rs`, `js/storage.ts` (DiskHandle), `src/browser_runtime.rs`, `js/riscbox.js` | parked guest request, waiting host reads and their promises, registered and retired request ids, host actions, running fetches and their generation | notify, resume, device reset; read, write, discard, poll; pump, drain, complete_http; boot, halt, reset, cold reset, destroy | `BlockService` |
| Network input: `src/browser_input.rs`, `src/virtio_devices.rs` (NetworkDevice) | bounded event queue, bounded receive queue, carrier, configuration interrupt | frame and carrier input, delivery, buffer notification, device reset, lifecycle | `NetworkPath` |
| WebSocket client, `js/network/index.ts` | socket, stop flag, reconnect timer | attach, connect, close, socket events, timer | `WebSocketNetwork` |
| Interrupts: `src/platform.rs` (Plic), `src/machine.rs`, `tinyemu-core/` | lines, level, pending, claimed, priorities, enables, thresholds, `mip`, `mie`, WFI flag | raise, lower, claim, complete, configure, start and end a run, WFI, reset | `Plic` |
| VirtIO queues, `src/virtio.rs` | ring indexes, interrupt status, parked chain | set up, notify, resume, publish, reset | `VirtQueue` |
| 9P namespace, `src/ninep.rs` | inodes, entries with their cookies and reverse links, fid references, quotas, byte-range locks, change records, generation | insert, link, rename, remove, resize, clear, reset, retain and release, lock and unlock | `Namespace` |
| 9P sessions and the host's file calls: `src/ninep_protocol.rs`, `src/filesystem_abi.rs`, `js/storage.ts` (FilesystemHandle) | fid tables, generations, negotiated version, failed endpoints; listeners and their microtasks | version, attach, walk, open, create, write, setattr, readdir, lock, clunk, ...; host edits, subscribe, poll | `NineP` |
| Preparation and lifecycle of the runtime, `src/browser_runtime.rs` | `State::Config`, `Loading`, `Halted`, `Running` | load configuration and assets, fail, finish loading | planned; the states after loading are in the modules above |
| CPU instructions, `tinyemu-core/riscv_cpu_template.h`, `riscv_cpu_fp_template.h`, `softfp*`, `riscv_cpu.c` | registers, floating point state, reservation, memory | every instruction that is built: integer, compressed, atomic, load, store, branch, floating point | `IntegerOps`, `Compressed`, `SoftFloat`, `FloatUnit`, `Interpreter` |
| CPU modes and translation, `tinyemu-core/riscv_cpu.c`, `riscv_cpu_priv.h`, `iomem.c` | privilege, control registers, TLBs, page tables, dirty bits | traps, returns, CSR accesses, fences, WFI, page walks | `Mmu`, `Hart` |
| Quantum, guest clock, timers: `src/browser_runtime.rs`, `src/machine.rs`, `src/platform.rs` (Aclint), `tinyemu-core/bridge.c` | clock floor, active quantum, compare registers, wakeup | begin, run, finish, abort a quantum; timer and software interrupts; reboot | `HartRuntime` |
| Adventure, `demo/bsd-games-3.3/adventure/` | rooms, objects, dwarves, clocks, saved game | motions, verbs, the turn, save and restore | `AdventureMap`, `AdventureWorld`, `AdventureVerbs`, `Adventure` |
| Console, input, entropy devices, UART, RTC | FIFOs, alarms | I/O, drain into guest buffers | planned; in `Plic` they are the devices that raise lines |
| Bus, boot images, configuration parser | memory map | decoding, parsing | not modelled, see section 8 |

How the parts meet.  The guest notifies a device from inside a quantum; the
device reads the disk at once or parks the request; the store queues fetches,
which the runtime *pumps* into host actions at the end of the task and the facade
*drains* into `fetch` calls.  A response re-enters through
`riscbox_http_complete`, fills the store, resumes the guest's device and lets the
facade poll the host's waiting reads.  The page may call the facade between any
two tasks.  Network frames and carrier reports enter through a queue that is
emptied when a CPU run begins.  Devices raise lines; the bus passes the lines to
the PLIC after each access and at the start of a run; the PLIC sets the CPU's
pending bits.  The guest's 9P mounts and the page edit one resident file tree; each
request or call finishes inside one activation, and what it changed is copied out
to listeners when control is back in JavaScript.  A quantum is a sequence of CPU
runs, each limited to the cycle at which the next timer is due; between runs the
runtime shows the guest its clock and the devices' lines, and a hart that sleeps
ends the quantum with the wakeup it asks of the page.

What makes each part correct:

* *store*: a read that completes returns what was last written to each sector, or
  the image; each block is fetched at most once at a time; a late response is
  never taken for another fetch; the cache stays within its limit, which grows so
  that one read always fits;
* *service*: no reader is left waiting for something that will not come; no
  promise stays open; no response is refused;
* *network*: the guest receives frames in order, at most once, only of its own
  boot; the counters that guard the queues are exact; the link state is current;
* *interrupts*: no request is lost or served twice, and no sleep ignores one;
* *queues*: every descriptor chain has one owner; answers come in order, once,
  and are signalled;
* *files*: names, link counts, fid references and byte counts describe one tree
  without cycles, and an inode lives exactly as long as a name or a fid leads to
  it; a lock covers each byte it was asked for and no other; a listener that obeys
  the notifications knows the tree;
* *instructions*: results are those of the manual and of IEEE 754 with their flags,
  memory is moved byte for byte, an instruction that traps has done nothing;
* *hart*: a cached translation is the one the page tables give; no store to a
  tracked page escapes the host; a mode changes only what belongs to it;
* *quantum*: a run ends at the next timer, the guest's clock never steps back, a
  sleeper with an armed timer wakes;
* *Adventure*: counters and places agree through death, robbery and the closing of
  the cave; the bridge is not crossed for nothing; the prompt comes back.

The hazards these properties are for are listed, each at its line of the source,
under `hazards` in `PROJECT.json`.

## 2. Modules and how they correspond to the code

`map` in `PROJECT.json` gives the source lines of every definition.

**SectorDisk** is what a disk promises: a function from sectors to contents;
reads answer from it or not yet; writes and discards change it.  It knows nothing
of blocks, caches or fetches.

**HttpBlockStore** is the store.  One action per public operation:
`ReadSectors` is the whole read, with its early stops (out of range, a failed
block, a missing block that it requests) and its side effects (growing the limit
for the working set, stamping the blocks it has copied before it stops);
`Complete` includes trimming the cache.  The overlay's clusters with dirty bits are
flattened to a set of dirty sectors and their bytes.  The LRU clock is reduced to
the order it induces: `age[b]` counts the resident blocks used less recently than
`b`.  Only that order is read by the code, and the reduction makes the state
space finite.  `host` holds the fetches that are still to be answered, also the
ones the store has given up; `FreshId` says that an id is not reused while
somebody can still answer it (the code counts up a `u32`).

**BlockService** extends the store with its users.  `stack` holds the rest of the
current task, so that calls nest as they do in the code: a response is
`complete_http`, then the guest's `resume`, then `pump`, then `drainActions`, then
the poll of host reads, and each of these changes what the next one sees.
Actions whose guard is `Idle` begin a task: a call of the page (`Call`), a
quantum, a response.  `Proceed` is the rest.  Each step performs at most one
store operation and otherwise leaves the store alone, which is why the property
`StoreSpec` can be checked of the composition.

**NetworkPath** has the boundary queue, the device and the guest's driver (the
driver is external and behaves as the VirtIO specification asks).  The loop that
moves frames into buffers is one step: `Take` pairs the first `k` frames with the
first `k` buffers, and `Handed` is what the guest has after them, a frame that is
longer than its buffer being dropped with it.
**WebSocketNetwork** extends it with the client; browser sockets are external:
`connecting`, `open`, `closing`, `closed`, with callbacks of abandoned sockets
still to come.

**InterruptGateway** is what an interrupt controller promises about one source:
at rest, pending, or served by one context; **Plic** is the controller with the
bus's `update_device_irqs`, the CPU bits and WFI.  A notification that fails half
way returns before `update_device_irqs` (`FailedNotify`).  `Enableable` is `{1}`:
the mask with which the core accepts writes to `mie` has no bit for the machine
external interrupt, so only the supervisor context can be enabled.

**RequestQueue** is a queue that answers requests in order and at most once;
**VirtQueue** is a split ring with wrapping indexes and slots, the service loop
that may park a chain, and the driver.  Walking a descriptor chain is abstracted to
its three outcomes: it can be served (`good`), it is taken and then refused with
an error (`refused`), or it cannot be walked and is not taken (`broken`).

**Namespace** has the file tree as one record `fs`; each method of `Filesystem`
that changes it is an operator from record to record, each refusal a guard
(`MayInsert`, `MayMove`, ...), as the code checks everything before it changes
anything.  Entries of all directories are one function from directory and name to
inode; the reverse links, the link counts and the counters are kept beside it as
in the code, since that they agree is what is to be shown.  A file is its size.
`Cleared` unlinks one entry after another whose inode has no entries below it (`Leaves`),
which is what the reverse preorder of `clear` amounts to.  `Climb` is the walk along reverse links that finds the path for a notification.
`Renumbered` is the rule for cookies: an entry keeps its own within its directory and
takes a new one elsewhere.
**NineP** has the sessions, the host and one listener around it, one action per
request.  A refused request changes nothing and is a stuttering step; a malformed
one closes the endpoint until its device is reset (`Malformed`).  `Service` is the
poll that copies change records out of the tree, `Deliver` one microtask.
Microtasks run only when no JavaScript is active, so after the poll that ends a
quantum's slice; hence the guard `fs.changes = <<>>`.  The listener is external: it
keeps a list of paths in the way `STORAGE-ABI.md` describes, reading the tree again
where a notification tells it to.  `Readdir` gives the entries after a cookie; the
variable `listing` is the guest that asks for them piece by piece, with how often it was
told of each inode and which of these meanwhile had no name there, or several
(`Strayed`).  This guest asks with room for one entry or for two.  A count too small for
the next entry is answered by the code with an empty reply, as at the end of the
directory (`ninep_protocol.rs:904`); `ListingExact` says nothing of a guest that asks so.  Cookies are kept only in behaviours that
list directories (`Remembered`), as nothing else reads them.  **ByteLocks** is what record locks promise: at
most one lock per byte and owner, and writers exclude everyone else.

**MCNineP** gives the workloads of the run `ninep`.  A behaviour draws one of them
at the start and keeps to its operations.  The workloads separate what hardly
interacts (links, sizes, notifications, locks, listings), so that the state space is the sum
of theirs instead of their product.

**IntegerOps** is the integer arithmetic on bit patterns.  The width of a byte is
the constant `Byte` and everything scales with it: halfword, word and register have
2, 4 and 8 bytes as in the code, where `Byte` is 8.  **Compressed** decodes the
16-bit encodings.  **SoftFloat** is the floating point template for any width of
exponent and mantissa, as the C template is for 32 and 64 bits: the same steps of
unpacking, aligning with a sticky bit, normalising and rounding.  **FloatUnit** has
it twice, for singles in a word and doubles in a register, with the boxing of
singles.  **Interpreter** executes decoded instructions on a record `cpu`, one action
per instruction, through the slow paths of loads and stores (split accesses,
devices, faults).  **FloatRounding** and **InterpreterChecks** state what is
expected: products and quotients by the laws they satisfy, shifts bit by bit, a
floating point result as the neighbour of the exact value that the rounding mode
names.  They share no algorithm with the model.  **MCInterpreter** has programs of
one to three instructions, each started from the operands that exercise it.

**Mmu** is the page walk with its permission and update rules, the three TLBs and
the dirty bits of RAM; a word of RAM can be read as a page table entry, so a store
may change a table.  **Hart** adds modes, traps, returns, interrupts, control
registers and memory protection registers; both are operators from a hart's record
to the next.  **HartRuntime** has the actions: the interpreter's loop by blocks (an
interrupt is taken between blocks, cycles are counted per run), the runtime's
quantum, the page's clock and the host's accesses to RAM.  The variable `stale`
notes that a page table was stored to and not fenced, `changed` the tracked frames
written since the host last asked.  **MCHart** has seven workloads (paging, access
for another mode, drawing, interrupts, timers, trapping of the supervisor,
protection entries); a guest executes any sequence of its workload's instructions.
A workload is a constant: `WorkloadAssumption` says that its instructions have operands
of the right kind (`InsnOk`) and that its hart starts with empty TLBs, time 0 and MPRV
off below M mode (`StartOk`); TLC evaluates it on the seven.

**AdventureMap** is the table of rooms; **AdventureWorld** the objects, movement
and death; **AdventureVerbs** what the verbs do; **Adventure** the turn with its
dwarves, pirate and clocks, and the saved game.  A C function is an operator from the
record of globals to the next one, or to a set of them where it draws a number or
asks the player.  `turn` is split where it waits for the player.  **MCAdventure**
has 19 plans, games in progress where much can go wrong with the words their player
uses, and counts the rounds of the program's loop between prompts.

**MCBlockService** gives the disk images for TLC: every sector has its own content,
so that data from a wrong block or offset shows.
**OrderLemmas** has the facts about naturals, division, sequences and folds over finite
sets that the proofs share; **BlockServiceProofs** (on `HttpBlockStore` and
`BlockService`), **NetworkProofs**, **VirtQueueProofs**, **PlicProofs**, **HartProofs**,
**NinePProofs** and **ViewProofs** hold the theorems.

Operators with an underscore in their name, marked *Fault*, are plausible bugs.
Each property is paired with one of them in `PROJECT.json` (`mutants`); putting
it in the place of the definition it imitates makes TLC find the property
violated.  No specification uses them.

## 3. Runs

| Run | Configuration | What it shows |
|---|---|---|
| `service` | 2 blocks of 2 sectors, cache of 1 block, 3 ids, calls of up to 2 sectors, 1 host read, 1 guest request, 1 abandoned fetch, at most one dirty sector | A disk and all its users under all lifecycle calls.  Fetches are deduplicated, tracked and never confused; the cache is bounded; `FetchesHeard`, `NoneStranded`, `AnswersForgotten`; every step is a step of the store (`StoreSpec`), which implements a sector disk (`ImplementsDisk`). |
| `service_fair` | 3 blocks of 1 sector, cache of 1, 3 ids, 1 host read, 2 guest requests, 1 abandoned fetch, no writes | `HostReadsSettle` and `ParkedResumes` under fairness: readers that evict each other's blocks still finish, across failures, device resets, reboots and late responses; eviction is LRU. |
| `network` | 2 sockets, frames of size 1 and 2, 2 frames and 3 bytes per queue, 2 buffers of size 1 or 2 | The client on top of the path; both sets of invariants. |
| `plic` | 2 sources, priorities 0 and 1 | Safety, the refinement of `InterruptGateway`, and `AllServed` under fairness. |
| `virtqueue` | size 2, indexes modulo 4, all kinds of chains | Ownership, signalling, the refinement of `RequestQueue`, and `ChainsReturn` under fairness. |
| `ninep` | 2 names, 4 inodes of 5 ever, 3 entries, files of 2 bytes, trees of 3, 2 change records, lock offsets 0..2, cookies below 5, 2 sessions with 2 fids; seven workloads | Names, links, references, quotas and locks under guest requests, host calls and lifecycle; `ViewsExact`, `FreshIdentities`; the refinement of `ByteLocks`. |
| `interpreter` | bytes of 2 bits, so registers of 16 and words of 8; singles with 5 bits of exponent and 2 of mantissa, doubles with 6 and 9; RAM of 64 bytes and a device | Every instruction form against its definition, from the edges of its operands, in every rounding mode; the unary operations over all 256 singles; all 49152 compressed encodings. |
| `hart` | page tables of 2 levels with 2 entries, TLBs of 2, 4 frames, guest ticks and cycles 2:3, quanta of 3 cycles, overshoot 1, a host clock of 2 ms, 1 fault; seven workloads | `TlbCurrent`, `DirtyTracked`, `DeadlineKept`, `Confined`, `GuestTimeMonotone`; `SleeperWakes` under fairness. |
| `adventure` | the whole map and all objects; 19 plans of 4 to 90 commands, four of them with saves and restores | `ThingsAccounted`, `TollExacted`, `PromptReturns` for every draw of the dice and every answer of the player. |
| `network_boot`, `websocket_close`, `float_boxing` | as `network`, smaller; as `interpreter` | The three findings of section 7, as counterexamples. |

Several properties are conjunctions of named parts about one piece of state, each
of which has its own fault among the mutants:

| Property | Parts |
|---|---|
| `FetchesHeard` | `FetchesAlive`: every fetch the store waits for is performed and registered; `NeverRejected`: no response is refused |
| `AnswersForgotten` | `PromisesKept`: the promises given out are the reads remembered; `ErrorsConsumed`: no error outlives the request it answers |
| `FramesKept` | `Accounted`: the counters of both queues are exact; `NoFrameWaits`: no frame waits while a buffer is free |
| `LinkTruthful` | `UpWhileOpen`: the carrier is reported up exactly while the socket is open; `CarrierFollows`: the guest sees the last report |
| `ChainsAccounted` | `ChainsOwned`: each chain has one owner; `NoneForgotten`: neither driver nor device waits for the other |
| `NamespaceSound` | `LinksAgree`, `ArenaExact`, `TreeSound`, `QuotaExact` |
| `ViewsExact` | `MirrorExact`, `ListingExact` |
| `IntegersExact` | `IntegerResults`, `CompressedImmediates` |
| `FloatsExact` | `RoundedCorrectly`, `ConversionsRounded`, `OrderRespected` |
| `MemoryExact` | `MemoryByBytes`, `AtomicsExact` |
| `DeadlineKept` | `RunsToDeadline`: the limit of a run is the cycle of the next timer; `NeverStalled`: the runtime's "no progress" error cannot occur |
| `ThingsAccounted` | `CarriedExactly`, `UnseenCounted`, and a score within 0..350 |

Why the bounds are enough to meet the interesting cases.  A cache of one block
with reads that span two makes every read of two blocks grow the limit, and every
read of a third block evict.  Two-sector blocks and calls of two sectors
give reads that begin and end inside blocks and mix dirty and clean sectors.
Three ids with one block on the prefetch list let a prefetch, a demanded fetch and an
abandoned fetch be in flight together.  One abandoned fetch is enough for a late
response to meet a new fetch of the same block.  The network queue's byte limit
(3) lies below its frame limit times the largest frame (4), so that each limit can
be the one that refuses.  A buffer of size 1 is too small for a frame of size 2.
Two sources suffice for a tie between priorities and for two contexts claiming at
once.  Indexes modulo 4 in a ring of 2 wrap at different times than slots, so that
full and empty rings occur at every position.  In the tree, three inodes besides the
root give a directory that is renamed below another, a file with two names and one
that is open without a name; every quota is small enough to be the one that refuses
(a tree of 3 bytes cannot hold two files of 2, three entries are fewer than the
links that could be made).  Two change records overflow at the third.  Two entries and a
directory to move them through are enough for an entry to be renamed, to get a second
name, to leave and to come back between two pieces of a listing, and for cookies to run out.  Three lock
offsets are enough to split a range in the middle and to tell a range that ends at
the last byte from one without an end; one workload has two owners, another one
owner in two sessions.  A single of 8 bits still has subnormals, an exponent range
wide enough for overflow in both directions, a mantissa that rounds to even both ways
and integers it cannot hold; a register of 16 bits holds a product of words and its
high half.  Compressed encodings do not depend on the width and are all tried.  Two TLB
entries for five pages collide; two levels give a pointer, a leaf, a large page and a
contiguous mapping.  The rates 2:3 have no common factor, so that a deadline falls
inside a cycle; one fault is a step back of the host's clock, an aborted quantum or a
reboot, between any two steps of a quantum.  A plan of Adventure begins next to the
object it is about and gives its player a few more commands than the shortest way to
the end of the episode; leaving the game counts as a command.  The constants that only bound the
model are `MaxCount`, `RequestIds`, `ReadIds`, `QueueSize`, `MaxRetired`, the
constraint `FewWrites`, `MaxFrames`, `MaxEvents`, `MaxBuffers`, `LastInode`, `MaxWalk`,
`MaxDepth`, `MaxTasks`, a workload's `last`, `MaxWall`, `MaxFaults`, `Overshoot` and the
turns of a plan; `MostRounds` is part of the property `PromptReturns`.  The limits of the code that are made small are
`MaxFileBytes`, `MaxTreeBytes`, `MaxInodes`, `MaxEntries`, `MaxChanges` (1024) and
`LastByte` (2^64 - 1).

Deadlock is checked in `plic`, `virtqueue`, `ninep` and `interpreter`.  It is switched
off where the system may stop: a destroyed VM, a bounded number of frames in the
network, the end of the bounded clock in `hart`, and a game that is over.

## 4. Refinement

* `HttpBlockStore` implements `SectorDisk` (`ImplementsDisk`): the disk's content
  is the overlay where a sector is dirty and the image elsewhere; the cache does
  not occur in the mapping.  So neither eviction, nor a late response, nor a
  failure can change what a reader may see.
* `BlockService` implements `HttpBlockStore` (`StoreSpec`, with identical
  variables): what is proved of the store holds in the composed system.
* `Plic` implements `InterruptGateway` for each source.
* `VirtQueue` implements `RequestQueue`, the two rings being mapped to sequences.
* `NineP` implements `ByteLocks` (`LocksImplemented`): a list of ranges is mapped to
  the bytes it covers.  Converting part of a range, unlocking its middle, and the end
  of one of two sessions an owner uses are then steps on single bytes.

`HaltedSessionsClosed` shows why replacing the tree is safe: it is allowed only
while the VM is halted, and halting has closed every fid and lock.  It also shows
that the branch of `sync_generation` which forgets fids of an earlier generation is
a second line of defence: no running session ever takes it.

## 5. Fairness

* *BlockService*: a task that has begun runs to its end (`Proceed`) and a quantum
  ends (`GuestYield`: it has a budget): weak fairness.  Every fetch settles and
  the event loop runs its callback: strong fairness per id, because a response
  is disabled while another task runs.  Nothing makes the page call or the guest
  ask for anything.  The liveness properties assume that the page stops calling
  at some time (`Quiet`); a page that keeps reading other blocks can starve a read
  that needs the whole cache.
* *Plic*: the runtime keeps scheduling CPU runs and each ends (weak).  The guest's
  interrupt handlers claim, quieten the device, and complete (strong, as a run may
  end between any two accesses).  `AllServed` is stated for devices that stop
  asking, a guest that stops reconfiguring and handlers that do not execute WFI.
* *VirtQueue*: the driver notifies, takes interrupts and reaps; the fetch a parked
  chain waits for is answered, which `ParkedResumes` shows of the block service.
* *HartRuntime*: the page runs its callbacks and its timers fire, so a quantum that
  is due begins (`Wakeup`), proceeds and finishes, and time goes on (`Tick`): weak.
  Nothing is assumed of the guest's instructions, of input (`EarlyWakeup`) or of the
  devices.
* The network runs, `ninep` and `interpreter` check safety only.  Adventure waits for
  its player and assumes nothing of him; that it returns to the prompt is bounded
  (`PromptReturns`) instead of left to fairness.

## 6. Proofs

Checked by TLAPS for every value of the constants that satisfies the named
assumptions:

| Assumption | Says |
|---|---|
| `StoreAssumption` | at least one block, one sector per block, room for one block, an image that covers the disk, a prefetch list of blocks without repetition whose ids exist |
| `ServiceAssumption` | the bounds on queued requests and abandoned fetches are numbers |
| `PathAssumption`, `SocketAssumption` | limits and sizes are numbers; no socket is called `None` |
| `QueueAssumption` | the indexes count modulo a multiple of the queue size that is larger than it (65536 and a power of two in the code) |
| `PlicAssumption` | sources among 1..31, thresholds among the priorities |
| `MmuAssumption`, `HartAssumption` | at least one level, one entry per table and one TLB slot; ranges of contiguous pages are powers of two; frames are numbers and the device's is none of them; no deadline is called `Never` |
| `RuntimeAssumption` | rates, budget and longest wakeup are positive |
| `WorkloadAssumption` | operands have their types, RAM is written within a frame, devices raise lines they have, and the hart starts with empty TLBs, at time 0 and without MPRV below M mode |
| `NamespaceAssumption`, `NinePAssumption` | there is an inode number and room for the root; limits and bounds are numbers; finitely many sessions and fid numbers (32 bits in the code); access modes are not empty |
| `WorkloadsAssumption` | a workload's names, sessions, fid numbers and owners are among those of the instance |

*Store.*  The inductive invariant `StoreInv` is the conjunction of `TypeOK`,
`Deduplicated`, `FetchesTracked`, `HandedOverOnce`, `CacheFaithful` and
`CacheBounded`; none of them is inductive alone.  That a response fills the right
block (`CacheFaithful`) needs that a pending id has one meaning (`FetchesTracked`);
this needs that an id is handed over once; that ages stay a ranking needs that a
block which arrives is not resident (`Deduplicated`).  `StoreNextInv` has one lemma
per operation.  Four pieces of mathematics carry the argument: the sectors
of a disk and their blocks (`SectorPlace`, on `DivMod`); the block to evict exists
(`OldestExists`, a least element of a non-empty set of naturals); ages after use are
again the ranks of a total order (`UsedBeforeOrder`, `RanksFollowUse`), so that
distinct blocks have distinct ages; and trimming leaves at most `limit` blocks
(`TrimmedCache`).  From the invariant follow `StoreTypes`, `StoreDeduplicates`,
`StoreTracksFetches`, `StoreCacheSound`, the action property `EvictionOrder`, and
`StoreImplementsDisk`, whose core is that a completed read returns overlay and
image contents only (`ReadDataFaithful`).

*Service.*  The properties of the service speak of the moments between tasks; what
makes them inductive is what holds inside one.  `ServiceInv` adds to `StoreInv`:

* `StackInv`: the rest of a task is one of seventeen stacks, and which of them it is
  decides whether the VM runs and whether fetches may still have to be pumped or
  actions drained.  Nothing is therefore left in a queue when a task ends.
* `FetchInv`: what the host has of the store is either an action not yet drained or in
  flight, the runtime's registered and retired ids are exactly those (`HostInv`), and a
  fetch the store waits for is neither retired nor of an earlier generation
  (`HeardInv`).  The one exception is a halt the adapter has not drained, and then
  nothing is pending.
* `PromiseInv`: the promises are the reads the core remembers, except for the read being
  made and those the current poll has still to visit.
* `ReadInv` and `GuestInv`: a reader waits for a demanded fetch of the first sector it
  lacks, or the rest of the task visits it.  With the guest running, the only pending
  fetch is the one its parked request waits for; this is what makes clearing the errors
  after a resume harmless.

`ServiceSteps` shows for each action that its effect on the store is one operation of
the store or none, from which `ServiceImplementsStore`, and with the store's own
theorem `ServiceImplementsDisk`, follow.  A response that is dropped because its id is
retired, or of an earlier generation, is the store's `CompleteUnknown`: `FetchInv` says
that the store has nothing pending under that id.  `FetchesHeardAlways`,
`NoneStrandedAlways` and `AnswersForgottenAlways` are `ServiceInv` at an empty stack.

*Network.*  `PathInv` relates the two queues to their counters (`BoundaryInv`,
`DeviceInv`) and orders frame numbers across what the guest has, the device's queue and
the boundary's (`OrderInv`): frames of an earlier boot lie below `boot`, so that a new
frame is behind everything queued.  `CarrierInv` says what the queued reports will make
of the carrier.  The counters are sums over sequences, defined by recursive functions;
their laws (`Total` of an appended, shortened or cut sequence, `Handed` as a subsequence)
come from `InductionUpTo` and `Recursion` in `OrderLemmas`, induction stated over sets
instead of predicates, which the provers can use.  `ClientImplementsPage` shows that the
client and its sockets use the path only as its own specification lets a page, so the
path's invariant carries over to the composition; `ClientInv` needs besides that a client
without a VM is stopped.

*Virtqueue.*  `QueueInv` reads each ring as the window between its two indexes
(`WaitingSeq`, `AnswerSeq`) and says that free, waiting, parked, answered and dropped
chains are a partition of the heads, with distinct entries in each window.  The modular
arithmetic is in a few lemmas: a distance grows by what is published and shrinks by what
is taken, and as no more than `Size` entries are ever outstanding, publishing overwrites
no slot of the window (`WindowPublish`).  `ServiceOutcome` sums up the device's loop; from it
`QueueImplemented` maps a notification to the several answers it gives.

*PLIC.*  `PlicInv` is `PlicTypeOK`, `Exclusive`, `NotLost` and `Signalled`.
`Exclusive` is what makes `NotLost` inductive: completing a claim must not touch a
source that the other context serves.  `PlicLosesNothing` and `PlicSignals` follow,
and `PlicImplementsGateway` maps each step of bus, guest, host and CPU to a step of
the gateways or to none.

*Hart.*  `HartInv` holds in every state of guest, interpreter, runtime and host; it needs
more than the five properties that follow from it:

* `TlbInv` for `TlbCurrent` and `DirtyTracked`: besides the currency of what is cached,
  every tracked frame in the write TLB is marked dirty (`WriteMarked`), since a store that
  hits marks nothing, and MPRV is on in M mode only, since entries filled under MPRV are
  not of the mode the hart is in.  The mathematics is the walk: `WalkUnfolds` opens the
  recursion level by level, and `WalkAgain` shows, by induction over the levels, that a
  walk which succeeded finds the same frame after other walks have set A and D bits in
  the tables, whatever tables share a frame.  Register writes, traps and returns then
  either change nothing the walk reads or flush (`TlbKept`).
* `OnTime` for `DeadlineKept`: the supervisor's pending bit says exactly whether its
  comparator has passed (`TimerExact`); hence a step that changes neither comparator
  changes no deadline (`SameDeadline`), and one that does asks for the host.
  `CyclesExact` is the arithmetic of `cycles_until_deadline`: rounding up gives the first
  cycle whose tick is due, for any ratio of the two clocks.
* `Progress` and `InQuantum`, for the no-progress error: a run without a cycle has only
  found the hart asleep; the hart is then either still asleep, which ends the quantum, or
  awake, and the next run makes a step before it can stop.
* `TimeBehind` for `GuestTimeMonotone`: the hart's time is not ahead of the quantum's nor,
  between two quanta, of the floor.

`Confined` is an action property and needs of the invariant only the types: `Confines` is
shown for each instruction from the fields it may change.  For every operator of `Mmu` and
`Hart` one lemma says which fields it may change and what holds of them; the thirteen
actions of the interpreter that count as progress then have one shape (`RanStep`), the
others another (`MoveStep`).

*9P.*  `SessionsSound` is inductive.  It says of the tree (`Sound`) that entries lead from
directories that have a name to inodes that exist, that the reverse links are the
entries read backwards and the link counts their number (`SoundLinks`), that a named
directory has one name, in its parent (`SoundDirs`), and that the directories have no
loop (`NoLoop`); that the byte counter is the sum of the sizes (`SoundBytes`), that locks
are on files, and that nothing exists without a name or a reference (`SoundLive`).  It says
of the sessions that each inode has as many references as there are fids on it
(`Accounted`), and it contains `HaltedSessionsClosed`.  `NamespaceSound` alone is not
inductive: it says nothing of where a directory's parent leads.  The argument has four
layers.

* Finite sums and counts.  The byte counter is a sum over the arena and a link count a
  cardinality, both by the library's folds.  `FoldRecursion` (in `OrderLemmas`) shows
  that a function defined by removing one chosen element after another exists;
  `SumTakes`, `SumSame`, `CountTakes` say what a sum and a count become when one element
  changes.
* One lemma per method of `Filesystem`: what it keeps, from `RetainKeeps` and
  `ReclaimKeeps` to `InsertKeeps`, `UnlinkKeeps`, `LinkKeeps`, `MoveKeeps`, `ClearKeeps`.
  A loop is stated as a set of directories that contains the parent of each of its
  members: `NoLoop` says there is none.  A rename checks that the directory it moves is not
  above its new place; `AncestorsClimb` and `AncestorsClosed` show that what is found by
  the bounded climb is closed under parents, hence that no such set can arise.
* References.  A table of fids is a set of triples of inode, session and fid number; a
  fid that is opened, replaced, clunked or walked adds and removes triples
  (`InstallAccounted`, `ClunkAccounted`).  The end of a session (`ReleasedKeeps`) and a
  device reset (`ResetKeeps`) are folds over fids and over sessions.
* One lemma per request and host call (`AttachStep` to `UnlockStep`), with a second
  conclusion: `Proceeds` says that a step evolves the tree (numbers are not used again, an
  inode keeps its kind, locks go only with their file or session), or locks or unlocks one
  range, or replaces a tree that has no locks.

`NamespaceSoundAlways` and `HaltedSessionsClosedAlways` follow from the invariant,
`IdentitiesFresh` from `Proceeds`.  `LocksImplementedAlways` maps each of its cases to a step of
`ByteLocks`: dropping ranges is `Forget`, and the bytes of `Subtracted` are the bytes
before without those of the request (`SubtractedIs`), whose core is that the remainders
of a range cover it except for the request (`RemainderIs`).

*Views.*  `ViewsKept` adds to `SessionsSound` what makes `ViewsExact` inductive.
`MirrorExact` speaks of the moments at which no record is under way; in between,
`MirrorKept` says, path by path, what the listener's list and the queued records together
mean (`Tells`): where no record touches a path the list is right about it, and the last record
that touches a path fits what the path leads to now, or makes the listener read the tree.
`ListingKept` says of the reader (`Charted`) that an inode it knows and that has not strayed
was told once and has its one name at or before the reader's cookie, and that every name
there is known.  One relation says of each operation what both need (`Seen`):

* `Told`: a listener that is right about the tree before, with the records queued then, is
  right about the tree afterwards, with the records queued now.  It is transitive, so that
  truncating and creating, or clearing a whole tree, is the sequence of its parts.
  The record names one path, hence the core is which paths an operation changes:
  a directory is reached by one path (`SoundDirs`, `NoLoop`), that path is the one `Climb`
  finds, and it is no longer than the tree has inodes.  `MoveTold` is the hard case: what
  a moved directory holds goes along, and everything else stays.  Overflow is a
  rescan, which stands for any change.
* `Lists`: what is in a directory after an operation was there with its cookie (`Stays`), or
  has a cookie beyond every one given there and leaves its inode, if that had a name
  there already, with a second one (`Joins`).

`AdvanceKeepsMirror` and `ChartedFurther` carry the two parts of the invariant over every
step of that kind, `DeliverKeeps` over the delivery of one record, although the
tree the listener reads then is younger than the record, and `AnswerCharted` over one
`Treaddir`.

`HandedOverOnce`, `CacheFaithful`, `Exclusive` and `PlicTypeOK` are parts of these
invariants that only the proofs check; the runs check what follows from them.

*Only model-checked.*  Liveness (`HostReadsSettle`, `ParkedResumes`, `AllServed`,
`ChainsReturn`, `SleeperWakes`), which is outside what the prover does; and the safety of
`Interpreter` and `Adventure`.  The floating point algorithms shift and compare in loops
and the integer operations are bitwise: both are out of the prover's reach.  Adventure's
properties hold of the concrete map and games its plans start from, which TLC enumerates.

## 7. Where code and documents disagree

* `API.md:255` and `HOWTO.md:302` say that the page may report the carrier while
  the VM is halted so that a transport can attach before boot.  `riscbox_reset`,
  which `boot()` calls, replaces the input queue (`src/browser_abi.rs:119`), so the
  report is dropped and the guest boots with the link down (run `network_boot`).
  `CarrierFollows` in the run `network` shows that this is the only way to lose a
  report: the guest's carrier is the one reported last unless a queue was cleared.
* `API.md:336` says that `close()` closes the socket.  After `destroy()` it does
  not: it reports the carrier first and the facade throws
  (`js/network/index.ts:67`, run `websocket_close`).

* `fsgnjn.s` and `fsgnjx.s` combine the register's 64 bits with `FSIGN_MASK32`, a
  negative `int` that widens to ones in the upper half (`tinyemu-core/softfp.h:69`,
  `riscv_cpu_fp_template.h:84`), so two boxed singles give one that is not boxed and
  reads as a NaN next (run `float_boxing`); `tests/tinyemu_architecture.rs:728` asks
  that results are boxed.

Behaviour met while modelling that is kept as it is in the model:

* *CPU.*  A data TLB entry filled under `MPRV` outlives a change of `MPP`
  (`TlbCurrent` speaks of data entries only while `MPRV` is off).  A device store that
  asks for the host ends an atomic instruction before it writes `rd`.  The previous
  enable bit of a trap is taken from the mode that was interrupted, and the mode 2 of
  `MPP` is stored.  Among pending interrupts the lowest number wins.  Writes of `sie`
  and `mie` take effect at the next block.  A write of `menvcfg` that changes the
  supervisor's timer together with the walk asks for the host without ending the block
  (`RunsToDeadline` excludes a pending request).  A store through the slow path does
  not look at the read-only flag of RAM.  The supervisor may execute user pages under
  `SUM`.  A store that crosses a page may have written its first bytes when the second
  page faults.
* *Adventure.*  LOOK in a room of forced moves repeats that LOOK for ever
  (`PromptReturns` excepts it).  A game saved after `fixed[]` or `knfloc` became 255 is
  refused by `verify_locations`.  LOOK moves the player to no room for an instant, and
  a dwarf that blocks him then leaves him there.  In that instant every object that is
  nowhere, or has no second place, is at hand: a game that a signal saves there with the
  lamp lit is restored with the 35 slots without a name and most treasures seen, so that
  `tally` passes below zero, a cave that was open never closes, and the score has 30
  points for the slots (`UnnamedPoints`), with which it could pass the 350 above which
  `save_score` drops an entry; a pirate who robs him there takes 15 of the slots to his
  chest.  The plans *looking*, *glancing* and *hoarding* go through this.  SOUTH in room
  61 has the condition 100, which `dotrav` always takes and `goback` never (`NotBack`).  When the cave closes on a full bottle
  the count of things carried passes below zero (`CarriedExactly` speaks of a cave that
  is not closed).  The pirate looks at `loc` where the text around it uses `newloc`.

## 8. Not modelled

* Fields of 32-bit instruction words: instructions are given decoded (the compressed
  ones are decoded by the model).  Counter values, scratch, cause and value registers,
  the floating point status of `mstatus`, fetches that cross a page and addresses of the
  upper half are left out of `Hart`.  Half precision, and the multiplication without a
  128-bit type, are not built.
* The estimates of speed, budget and skew that the runtime makes in floating point:
  rates and budget are constants of a run.
* The bus's address decoding, the device tree and the boot image layout are sequential
  byte work; the configuration parser likewise.
* Bytes of the WebAssembly boundary (pointers, lengths, encodings) and errors of
  malformed calls; the page is assumed to go through the facade.
* Transmission of frames, which is one synchronous call of the page.
* Wrapping of the `u32` request counter; freshness of ids is an assumption of the
  model (`FreshId`).
* Of 9P: times, modes, owners, QID versions and file contents; the
  requests that only read, `Treaddir` apart; the wire format and reply sizes, so that
  every `Treaddir` has room for an entry; the limit
  of 65536 fids per session.
* Of Adventure: the parser, messages and hints, the score file, and the globals that only
  choose a message.  What is read past the end of a table is any value of it.
* The other games of the demo, benchmarks, packaging and vendored code.

## 9. Plan

Done: the store, the block service, the network path and client, the PLIC, the
virtqueue, modes, translation, timers and the quantum, and the 9P tree, its sessions and
the host's side of it, each with its proofs; the CPU's instructions and floating point;
Adventure.  Next, in this order:

1. Preparation of the runtime (`Config`, `Loading`, failures, late responses of
   assets), with two assets.
2. Console and input devices over `VirtQueue`; key and pointer events in
   `NetworkPath`'s queue; UART FIFO and RTC alarm as sources of `Plic`.
