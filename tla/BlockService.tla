---------------------------- MODULE BlockService ----------------------------
(***************************************************************************)
(* One HTTP disk with everyone who uses it: the guest's VirtIO block       *)
(* device (virtio_devices.rs, BlockDevice), the host's disk facade         *)
(* (block_abi.rs and DiskHandle of js/storage.ts), the runtime that        *)
(* registers fetches (browser_runtime.rs) and the JavaScript adapter that  *)
(* performs them (js/riscbox.js).                                          *)
(*                                                                         *)
(* All of it runs on one JavaScript thread.  What interleaves are tasks: a *)
(* call of the embedding page, a CPU quantum, the response to a fetch.     *)
(* Inside a task, calls nest and run to their end; the variable stack      *)
(* holds what is left to do, topmost first, and is empty between tasks.    *)
(* Each step performs one operation of HttpBlockStore or none, so that     *)
(* this module implements StoreSpec.                                       *)
(***************************************************************************)
EXTENDS HttpBlockStore

CONSTANTS
  ReadIds,    \* names of host reads; more reads than names do not coexist
  QueueSize,  \* bound on the requests the guest has posted and not seen used
  MaxRetired  \* bound on the abandoned fetches that are still in flight

\* With an identifier for every block and every abandoned fetch, a task never
\* lacks one (FreshId).
ASSUME ServiceAssumption ==
  /\ QueueSize \in Nat
  /\ MaxRetired \in Nat

VARIABLES
  vm,         \* the runtime's State: "halted", "running", or "empty"
  stack,      \* the rest of the current task
  reads,      \* BlockAbi.pending: the range of every waiting host read
  promises,   \* DiskHandle.pending, oldest first
  todo,       \* the reads poll has still to try
  serviced,   \* drainActions' flag
  registered, \* pending_http, and ...
  retired,    \* ... retired_http, as the identifiers of fetches
  actions,    \* the runtime's queue of host actions
  flying,     \* fetches the adapter has started and not seen settle
  stale,      \* those of them started under an older httpGeneration
  rejected,   \* complete_http answered UnexpectedResponse
  posted,     \* requests in the guest's queue, oldest first
  parked      \* BlockDevice.pending: at most one request

hostVars == <<reads, promises, todo, serviced>>
httpVars == <<registered, retired, actions, flying, stale, rejected>>
guestVars == <<posted, parked>>
serviceVars == <<vm, stack, hostVars, httpVars, guestVars>>
vars == <<storeVars, serviceVars>>

Idle == stack = <<>>
At(frame) == stack # <<>> /\ Head(stack) = frame
Return == stack' = Tail(stack)
Become(frames) == stack' = frames \o Tail(stack)

Extent == {r \in [first : Sectors, n : 1 .. MaxCount] : InRange(r.first, r.n)}
GuestRequest == [op : {"read", "write"}, extent : Extent]
Request(f) == [kind |-> "request", fetch |-> f]
Lifecycle(event) == [kind |-> event]

ReadStep(r) == ReadSectors(r.first, r.n)
WriteStep(r) ==
  \E new \in [Span(r.first, r.n) -> Written] : WriteSectors(r.first, r.n, new)

\* The bound on abandoned fetches; extra counts those about to be pumped.
MayRetire(extra) == Cardinality(host) + extra <= MaxRetired

\* Fault: the identifiers are forgotten instead of retired.
RetireAll_Forget ==
  /\ registered' = {}
  /\ UNCHANGED retired

\* Every identifier of pending_http moves to retired_http.
RetireAll ==
  /\ retired' = retired \cup registered
  /\ registered' = {}

-----------------------------------------------------------------------------
(* pump_http_requests: register what the store has queued.                 *)

Pump ==
  /\ At("pump")
  /\ NextRequest
  /\ registered' = registered \cup {Head(outgoing).id}
  /\ actions' = Append(actions, Request(Head(outgoing)))
  /\ UNCHANGED <<vm, stack, hostVars, retired, flying, stale, rejected, guestVars>>

PumpDone ==
  /\ At("pump")
  /\ outgoing = <<>>
  /\ Return
  /\ UNCHANGED <<storeVars, vm, hostVars, httpVars, guestVars>>

-----------------------------------------------------------------------------
(* The host's disk facade; every operation requires a halted machine.      *)

\* DiskHandle.read and BlockAbi::read up to the first attempt.  Errors are
\* forgotten unless another read is still waiting for its own.
HostRead(id, r) ==
  /\ Idle /\ vm = "halted"
  /\ id \notin DOMAIN reads
  /\ IF reads = <<>> THEN ClearErrors ELSE UNCHANGED storeVars
  /\ reads' = [i \in DOMAIN reads \cup {id} |-> IF i = id THEN r ELSE reads[i]]
  /\ todo' = <<id>>
  /\ stack' = <<"first">>
  /\ UNCHANGED <<vm, promises, serviced, httpVars, guestVars>>

Forget(id) == reads' = [i \in DOMAIN reads \ {id} |-> reads[i]]

\* A resident or failing read is answered at once, without draining actions.
FirstAttempt ==
  /\ At("first")
  /\ ReadStep(reads[Head(todo)])
  /\ \/ /\ reply'.kind = "missing"
        /\ promises' = Append(promises, Head(todo))
        /\ stack' = <<"pump", "drain">>
        /\ UNCHANGED reads
     \/ /\ reply'.kind # "missing"
        /\ Forget(Head(todo))
        /\ stack' = <<>>
        /\ UNCHANGED promises
  /\ todo' = <<>>
  /\ UNCHANGED <<vm, serviced, httpVars, guestVars>>

\* Fault: the adapter does not drain after a write.
HostWrite_NoDrain(r) ==
  /\ Idle /\ vm = "halted"
  /\ WriteStep(r)
  /\ UNCHANGED serviceVars

HostWrite(r) ==
  /\ Idle /\ vm = "halted"
  /\ WriteStep(r)
  /\ stack' = <<"drain">>
  /\ UNCHANGED <<vm, hostVars, httpVars, guestVars>>

\* Fault: the facade does not poll after a discard.
HostDiscard_NoPoll ==
  /\ Idle /\ vm = "halted" /\ MayRetire(0)
  /\ DiscardChanges
  /\ RetireAll
  /\ reads' = <<>>
  /\ UNCHANGED <<vm, stack, promises, todo, serviced, actions, flying, stale, rejected,
                 guestVars>>

\* DiskHandle.reset: discard, retire the disk's fetches and reads, then poll,
\* which finds the retired reads gone.  Nothing is drained.
HostDiscard ==
  /\ Idle /\ vm = "halted" /\ MayRetire(0)
  /\ DiscardChanges
  /\ RetireAll
  /\ reads' = <<>>
  /\ todo' = promises
  /\ stack' = <<"poll">>
  /\ UNCHANGED <<vm, promises, serviced, actions, flying, stale, rejected, guestVars>>

\* DiskHandle.poll takes the waiting reads in the order they were made.
Without(s, i) == SubSeq(s, 1, i - 1) \o SubSeq(s, i + 1, Len(s))
Settle(id) == \E i \in DOMAIN promises : promises[i] = id /\ promises' = Without(promises, i)

PollRetired ==   \* ESTALE
  /\ At("poll") /\ todo # <<>>
  /\ Head(todo) \notin DOMAIN reads
  /\ Settle(Head(todo))
  /\ todo' = Tail(todo)
  /\ UNCHANGED <<storeVars, vm, stack, reads, serviced, httpVars, guestVars>>

PollRead ==
  /\ At("poll") /\ todo # <<>>
  /\ Head(todo) \in DOMAIN reads
  /\ ReadStep(reads[Head(todo)])
  /\ \/ /\ reply'.kind = "missing"
        /\ UNCHANGED <<reads, promises>>
     \/ /\ reply'.kind # "missing"
        /\ Forget(Head(todo))
        /\ Settle(Head(todo))
  /\ todo' = Tail(todo)
  /\ stack' = <<"pump">> \o stack
  /\ UNCHANGED <<vm, serviced, httpVars, guestVars>>

PollDone ==
  /\ At("poll") /\ todo = <<>>
  /\ Return
  /\ UNCHANGED <<storeVars, vm, hostVars, httpVars, guestVars>>

-----------------------------------------------------------------------------
(* The adapter: drainActions and the responses of its fetches.             *)

DrainRequest ==
  /\ At("drain") /\ actions # <<>>
  /\ Head(actions).kind = "request"
  /\ flying' = flying \cup {Head(actions).fetch}
  /\ actions' = Tail(actions)
  /\ serviced' = FALSE
  /\ UNCHANGED <<storeVars, vm, stack, reads, promises, todo, registered, retired,
                 stale, rejected, guestVars>>

\* Halted and Reset start a new httpGeneration.
DrainLifecycle ==
  /\ At("drain") /\ actions # <<>>
  /\ Head(actions).kind \in {"halted", "reset"}
  /\ stale' = flying
  /\ actions' = Tail(actions)
  /\ serviced' = FALSE
  /\ UNCHANGED <<storeVars, vm, stack, reads, promises, todo, registered, retired,
                 flying, rejected, guestVars>>

\* With no action left, waiting reads are polled once; a poll that queues
\* new actions is followed by another.
DrainService ==
  /\ At("drain") /\ actions = <<>>
  /\ promises # <<>> /\ ~serviced
  /\ serviced' = TRUE
  /\ todo' = promises
  /\ stack' = <<"poll">> \o stack
  /\ UNCHANGED <<storeVars, vm, reads, promises, httpVars, guestVars>>

DrainDone ==
  /\ At("drain") /\ actions = <<>>
  /\ promises = <<>> \/ serviced
  /\ serviced' = FALSE
  /\ Return
  /\ UNCHANGED <<storeVars, vm, reads, promises, todo, httpVars, guestVars>>

\* The fetch settles.  Its identifier is free again once no one can present
\* it; retired_http keeps it if the response is dropped, which matters only
\* after 2^32 requests.
Land(f) ==
  /\ Idle
  /\ f \in flying
  /\ flying' = flying \ {f}
  /\ stale' = stale \ {f}
  /\ retired' = retired \ {f.id}
  /\ registered' = registered \ {f.id}
  /\ UNCHANGED <<vm, hostVars, actions, guestVars>>

Unheard(f) ==
  /\ host' = host \ {f}
  /\ reply' = Answer("none")
  /\ UNCHANGED <<cacheVars, overlayVars, failed, pending, outgoing>>

\* The adapter drops the response of an older generation; the runtime, that
\* of a retired request.
ResponseDropped(f) ==
  /\ Land(f)
  /\ f \in stale
  /\ Unheard(f)
  /\ UNCHANGED <<stack, rejected>>

ResponseIgnored(f) ==   \* retired, or else UnexpectedResponse
  /\ Land(f)
  /\ f \notin stale
  /\ f.id \notin registered \ retired
  /\ Unheard(f)
  /\ stack' = IF f.id \in retired THEN <<"drain">> ELSE <<>>
  /\ rejected' = (rejected \/ f.id \notin retired)

\* Fault: a failed fetch does not wake the guest's reader.
ResponseAccepted_SilentFailure(f) ==
  /\ Land(f)
  /\ f \notin stale
  /\ f.id \in registered \ retired
  /\ Respond(f)
  /\ stack' = IF vm = "running" /\ ~Unknown(f) /\ failed' = failed
                THEN <<"resume", "pump", "drain">>
                ELSE <<"pump", "drain">>
  /\ UNCHANGED rejected

\* complete_http and complete_http_block_request: a request the store does
\* not know is ignored; any other wakes the guest's reader if it runs.
ResponseAccepted(f) ==
  /\ Land(f)
  /\ f \notin stale
  /\ f.id \in registered \ retired
  /\ Respond(f)
  /\ stack' = IF vm = "running" /\ ~Unknown(f)
                THEN <<"resume", "pump", "drain">>
                ELSE <<"pump", "drain">>
  /\ UNCHANGED rejected

Response(f) ==
  \/ ResponseDropped(f)
  \/ ResponseIgnored(f)
  \/ ResponseAccepted(f)

-----------------------------------------------------------------------------
(* The guest's block device.                                               *)

\* A CPU quantum starts; in it the guest posts requests and notifies the
\* device, resets it, or ends the quantum in one of three ways.
Quantum ==
  /\ Idle /\ vm = "running"
  /\ stack' = <<"guest">>
  /\ UNCHANGED <<storeVars, vm, hostVars, httpVars, guestVars>>

GuestSubmit(q) ==
  /\ At("guest")
  /\ Len(posted) + Cardinality(parked) < QueueSize
  /\ posted' = Append(posted, q)
  /\ stack' = <<"notify">> \o stack
  /\ UNCHANGED <<storeVars, vm, hostVars, httpVars, parked>>

\* VirtioMmioDevice::write of a zero status: BlockDevice::reset, and the
\* transport forgets its queue.  The runtime is not told.
GuestDeviceReset ==
  /\ At("guest") /\ MayRetire(0)
  /\ ResetRequests({})
  /\ posted' = <<>>
  /\ parked' = {}
  /\ UNCHANGED <<vm, stack, hostVars, httpVars>>

GuestEnd(way) ==
  /\ At("guest")
  /\ Become(way)
  /\ UNCHANGED <<storeVars, vm, hostVars, httpVars, guestVars>>

GuestYield == GuestEnd(<<"pump", "drain">>)
GuestPoweroff == MayRetire(0) /\ GuestEnd(<<"pump", "halt", "drain">>)
GuestReboot == MayRetire(Len(outgoing)) /\ GuestEnd(<<"pump", "reset", "drain">>)

\* BlockDevice::notify.  A read that misses parks the device; one that fails
\* clears the errors and is completed with VIRTIO_BLK_S_IOERR.
NotifyDone ==
  /\ At("notify")
  /\ posted = <<>> \/ parked # {}
  /\ Return
  /\ UNCHANGED <<storeVars, vm, hostVars, httpVars, guestVars>>

\* Fault: the errors of a failed request are not cleared.
AfterRead_KeepErrors(q) ==
  \/ /\ reply'.kind = "missing"
     /\ parked' = {q}
     /\ Return
  \/ /\ reply'.kind \in {"failed", "data"}
     /\ parked' = {}
     /\ Become(<<"notify">>)

AfterRead(q) ==
  \/ /\ reply'.kind = "missing"
     /\ parked' = {q}
     /\ Return
  \/ /\ reply'.kind = "failed"
     /\ parked' = {}
     /\ Become(<<"clear", "notify">>)
  \/ /\ reply'.kind = "data"
     /\ parked' = {}
     /\ Become(<<"notify">>)

NotifyRead ==
  /\ At("notify")
  /\ posted # <<>> /\ parked = {}
  /\ Head(posted).op = "read"
  /\ posted' = Tail(posted)
  /\ ReadStep(Head(posted).extent)
  /\ AfterRead(Head(posted))
  /\ UNCHANGED <<vm, hostVars, httpVars>>

NotifyWrite ==
  /\ At("notify")
  /\ posted # <<>> /\ parked = {}
  /\ Head(posted).op = "write"
  /\ posted' = Tail(posted)
  /\ WriteStep(Head(posted).extent)
  /\ UNCHANGED <<vm, stack, hostVars, httpVars, parked>>

\* BlockDevice::resume: try the parked request again, from its first sector.
\* Its early return for a device with nothing parked is never taken: every
\* other way of dropping the request also makes the store forget the fetch
\* (ServiceTypeOK).
Resume ==
  /\ At("resume")
  /\ \E q \in parked :
       /\ ReadStep(q.extent)
       /\ AfterRead(q)
  /\ UNCHANGED <<vm, hostVars, httpVars, posted>>

ClearAfterFailure ==
  /\ At("clear")
  /\ ClearErrors
  /\ Return
  /\ UNCHANGED <<vm, hostVars, httpVars, guestVars>>

-----------------------------------------------------------------------------
(* Lifecycle.                                                              *)

\* enter_halted drops the actions that have not been drained, fetches among
\* them; they will never be performed.
Undrained ==
  {actions[i].fetch : i \in {j \in DOMAIN actions : actions[j].kind = "request"}}

EnterHalted ==
  /\ ResetRequests(Undrained)
  /\ retired' = (retired \cup registered) \ {f.id : f \in Undrained}
  /\ registered' = {}
  /\ actions' = <<Lifecycle("halted")>>
  /\ posted' = <<>> /\ parked' = {}
  /\ vm' = "halted"
  /\ UNCHANGED <<hostVars, flying, stale, rejected>>

\* Fault: the runtime retires its fetches, the store is not told.
ResetMachine_KeepRequests ==
  /\ RetireAll
  /\ actions' = Append(actions, Lifecycle("reset"))
  /\ posted' = <<>> /\ parked' = {}
  /\ vm' = "running"
  /\ UNCHANGED <<storeVars, hostVars, flying, stale, rejected>>

ResetMachine ==
  /\ ResetRequests({})
  /\ RetireAll
  /\ actions' = Append(actions, Lifecycle("reset"))
  /\ posted' = <<>> /\ parked' = {}
  /\ vm' = "running"
  /\ UNCHANGED <<hostVars, flying, stale, rejected>>

GuestHalts == At("halt") /\ EnterHalted /\ Return
GuestResets == At("reset") /\ ResetMachine /\ Return

HostHalt ==
  /\ Idle /\ vm = "running" /\ MayRetire(0)
  /\ EnterHalted
  /\ stack' = <<"drain">>

HostReset ==
  /\ Idle /\ vm = "running" /\ MayRetire(0)
  /\ ResetMachine
  /\ stack' = <<"drain">>

\* riscbox_reset refuses to boot while host reads are pending.
Boot ==
  /\ Idle /\ vm = "halted" /\ MayRetire(0)
  /\ reads = <<>>
  /\ ResetMachine
  /\ stack' = <<"drain">>

\* Fault: a cold reset does not reach the store.
ColdReset_KeepRequests ==
  /\ Idle /\ vm = "halted" /\ MayRetire(0)
  /\ RetireAll
  /\ reads' = <<>>
  /\ stale' = flying
  /\ todo' = promises
  /\ stack' = <<"poll", "drain">>
  /\ UNCHANGED <<storeVars, vm, promises, serviced, actions, flying, rejected, guestVars>>

ColdReset ==
  /\ Idle /\ vm = "halted" /\ MayRetire(0)
  /\ ResetRequests({})
  /\ RetireAll
  /\ reads' = <<>>
  /\ stale' = flying
  /\ todo' = promises
  /\ stack' = <<"poll", "drain">>
  /\ UNCHANGED <<vm, promises, serviced, actions, flying, rejected, guestVars>>

\* The store goes with the machine; the facade rejects what is waiting.
Destroy ==
  /\ Idle /\ vm = "halted" /\ MayRetire(0)
  /\ ResetRequests({})
  /\ RetireAll
  /\ reads' = <<>> /\ promises' = <<>>
  /\ stale' = flying
  /\ actions' = <<>>
  /\ vm' = "empty"
  /\ UNCHANGED <<stack, todo, serviced, flying, rejected, guestVars>>

-----------------------------------------------------------------------------

\* finish_loading prepares a halted machine and pumps the prefetches.
Init ==
  /\ StoreInit
  /\ vm = "halted"
  /\ stack = <<"pump", "drain">>
  /\ reads = <<>> /\ promises = <<>> /\ todo = <<>> /\ serviced = FALSE
  /\ registered = {} /\ retired = {} /\ actions = <<>>
  /\ flying = {} /\ stale = {} /\ rejected = FALSE
  /\ posted = <<>> /\ parked = {}

\* What the embedding page may ask for between two tasks.
Call ==
  \/ \E id \in ReadIds, r \in Extent : HostRead(id, r)
  \/ \E r \in Extent : HostWrite(r)
  \/ HostDiscard
  \/ HostHalt
  \/ HostReset
  \/ Boot
  \/ ColdReset
  \/ Destroy

\* What the guest may do in a quantum.
Guest ==
  \/ \E q \in GuestRequest : GuestSubmit(q)
  \/ GuestDeviceReset
  \/ GuestYield
  \/ GuestPoweroff
  \/ GuestReboot

\* The steps that finish a task once it has begun.
Proceed ==
  \/ FirstAttempt \/ PollRetired \/ PollRead \/ PollDone
  \/ Pump \/ PumpDone
  \/ DrainRequest \/ DrainLifecycle \/ DrainService \/ DrainDone
  \/ NotifyDone \/ NotifyRead \/ NotifyWrite
  \/ Resume \/ ClearAfterFailure
  \/ GuestHalts \/ GuestResets

Next ==
  \/ Call
  \/ Quantum
  \/ Guest
  \/ Proceed
  \/ \E f \in flying : Response(f)

Spec == Init /\ [][Next]_vars

\* A task runs to its end, a quantum is bounded by its budget, and every fetch
\* settles: fetch resolves or rejects, and the event loop runs its callback.
Fairness ==
  /\ WF_vars(Proceed)
  /\ WF_vars(GuestYield)
  /\ \A i \in RequestIds : SF_vars(\E f \in flying : f.id = i /\ Response(f))

FairSpec == Spec /\ Fairness

-----------------------------------------------------------------------------
(* Properties.                                                             *)

\* The tables of runtime, facade, adapter and device hold what they are
\* declared to hold, and a response that wakes the device finds a request.
ServiceTypeOK ==
  /\ TypeOK
  /\ At("resume") => parked # {}
  /\ vm \in {"halted", "running", "empty"}
  /\ DOMAIN reads \subseteq ReadIds
  /\ \A id \in DOMAIN reads : reads[id] \in Extent
  /\ promises \in Seq(ReadIds) /\ todo \in Seq(ReadIds)
  /\ serviced \in BOOLEAN /\ rejected \in BOOLEAN
  /\ registered \subseteq RequestIds /\ retired \subseteq RequestIds
  /\ flying \subseteq Fetch /\ stale \subseteq flying
  /\ posted \in Seq(GuestRequest) /\ parked \subseteq GuestRequest

\* Between tasks, every fetch the store waits for is one that will be heard:
\* the adapter performs it under the current generation and the runtime has
\* it registered.  A stale or retired one here would be joined by later
\* readers of its block (request_block), and none of them would ever wake.
FetchesAlive ==
  Idle => \A p \in pending :
            /\ [id |-> p.id, block |-> p.block] \in flying \ stale
            /\ p.id \in registered \ retired

\* The range lacks a sector, and its block is being fetched on demand.
Waits(r) ==
  /\ Stops(r.first, r.n) # {}
  /\ \E p \in pending :
       p.block = BlockOf(FirstStop(r.first, r.n)) /\ p.demanded

\* Between tasks, a reader that waits, guest or host, does wait for the fetch
\* of the first sector it lacks: no wake-up is missed by a response, a write
\* that makes sectors resident, an eviction or a failure.
NoneStranded ==
  Idle => /\ \A id \in DOMAIN reads : Waits(reads[id])
          /\ \A q \in parked : Waits(q.extent)

\* riscbox_http_complete never refuses a response the adapter passes on,
\* whatever halts, resets, discards and device resets came before it.
NeverRejected == ~rejected

\* Between tasks, every fetch waited for is heard when it settles, and none is
\* refused (pump_http_requests, complete_http, drainActions).
FetchesHeard == FetchesAlive /\ NeverRejected

\* Between tasks the promises given out are exactly the reads the core
\* remembers, so none is left unsettled by discard, cold reset, or destroy;
\* and a machine that runs shares its disk with no host read.
PromisesKept ==
  Idle => /\ {promises[i] : i \in DOMAIN promises} = DOMAIN reads
          /\ vm # "halted" => reads = <<>>

\* While the guest runs no error outlives the request it answers, so that a
\* later request for the block fetches it again.
ErrorsConsumed == Idle /\ vm = "running" => failed = {}

\* Between tasks nothing that was answered is remembered, neither a read of the
\* host nor an error of the guest (BlockAbi, BlockDevice::notify, DiskHandle).
AnswersForgotten == PromisesKept /\ ErrorsConsumed

\* The page stops making calls at some time.
Quiet == <>[][~Call]_vars

\* Once the page stops making calls, every promise of DiskHandle.read
\* settles.  (A page that keeps reading other blocks can starve a read that
\* needs the whole cache.)
HostReadsSettle ==
  Quiet => \A id \in ReadIds : id \in DOMAIN reads ~> id \notin DOMAIN reads

\* Under the same condition a parked guest request is answered.
ParkedResumes == Quiet => (parked # {} ~> parked = {})

=============================================================================
