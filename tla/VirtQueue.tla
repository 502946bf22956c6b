----------------------------- MODULE VirtQueue ------------------------------
(***************************************************************************)
(* A split virtqueue: the rings in guest memory, the device side of        *)
(* virtio.rs (next_chain, complete_chain, reset, interrupt status) with    *)
(* the service loop of BlockDevice (notify, resume), which parks a chain   *)
(* while its data is fetched; devices that never park behave as one that   *)
(* happens not to.  Ring indexes wrap at Modulus, slots at Size.           *)
(*                                                                         *)
(* The guest's driver is external: it submits chains, notifies,            *)
(* acknowledges interrupts and reaps used elements as the VirtIO           *)
(* specification says.  A chain is named by its head and takes one         *)
(* descriptor, so that the rings can be full.                              *)
(***************************************************************************)
EXTENDS Integers, FiniteSets

CONSTANTS
  Size,      \* VirtQueue.size
  Modulus,   \* 2^16
  Kinds      \* the kinds of chains the driver submits

ASSUME QueueAssumption ==
  /\ Size \in Nat \ {0}
  /\ Modulus \in Nat
  /\ Modulus % Size = 0
  /\ Size < Modulus
  /\ "good" \in Kinds /\ Kinds \subseteq {"good", "refused", "broken"}

Heads == 0 .. Size - 1
Indexes == 0 .. Modulus - 1

VARIABLES
  avail, availIdx,   \* the available ring, written by the driver
  used, usedIdx,     \* the used ring, written by the device
  kind,              \* what the descriptors of a head describe
  free,              \* heads the driver may use
  lastUsed,          \* the driver's index into the used ring
  kick,              \* the driver has submitted and not notified yet
  reaping,           \* the driver is handling an interrupt
  up,                \* ready and DRIVER_OK are set
  lastAvail,         \* VirtQueue.last_avail
  isr,               \* bit 0 of interrupt_status
  parked,            \* BlockDevice.pending: {} or the head of its chain
  faulted,           \* the last service loop ended with an error  (history)
  dropped            \* heads of the chains refused                (history)

ringVars == <<avail, availIdx, used, usedIdx, kind>>
driverVars == <<free, lastUsed, kick, reaping>>
deviceVars == <<up, lastAvail, isr, parked>>
historyVars == <<faulted, dropped>>
vars == <<ringVars, driverVars, deviceVars, historyVars>>

\* wrapping_add of the ring indexes, and the slot that an index means.
Wrap(i) == i % Modulus
Slot(i) == i % Size
Distance(i, j) == (j - i) % Modulus
Waiting == Distance(lastAvail, availIdx)
Unseen == Distance(lastUsed, usedIdx)
Available(j) == avail[Slot(lastAvail + j)]
Answer(j) == used[Slot(lastUsed + j)]

-----------------------------------------------------------------------------
(* The device.                                                             *)

\* Fault: the slot is not taken modulo the size of the ring but of the index.
Published_NoWrap(ring, n, k) ==
  [s \in Heads |->
     LET j == (s - usedIdx - n) % Modulus
     IN IF j < k THEN Available(j) ELSE ring[s]]

\* complete_chain of the first k available chains, after n earlier ones: the
\* slots of the used ring that they take.
Published(ring, n, k) ==
  [s \in Heads |->
     LET j == (s - usedIdx - n) % Size
     IN IF j < k THEN Available(j) ELSE ring[s]]

\* A chain is "good", or "refused" by the device that has taken it
\* (InvalidRequest), or "broken", so that it cannot even be taken
\* (InvalidDescriptor, DescriptorLoop, UnsupportedIndirect ...).

\* The loop of BlockDevice::notify, after n chains have been completed into
\* ring: the next k chains are served at once, then no chain is left, or the
\* next one is parked, refused, or cannot be taken.
Service(ring, n) ==
  \E k \in 0 .. Waiting :
    /\ \A j \in 0 .. k - 1 : kind[Available(j)] = "good"
    /\ used' = Published(ring, n, k)
    /\ usedIdx' = Wrap(usedIdx + n + k)
    /\ isr' = (isr \/ n + k > 0)
    /\ \/ /\ k = Waiting
          /\ lastAvail' = availIdx
          /\ parked' = {} /\ faulted' = FALSE /\ dropped' = dropped
       \/ /\ k < Waiting /\ kind[Available(k)] = "good"
          /\ lastAvail' = Wrap(lastAvail + k + 1)
          /\ parked' = {Available(k)} /\ faulted' = FALSE /\ dropped' = dropped
       \/ /\ k < Waiting /\ kind[Available(k)] = "refused"
          /\ lastAvail' = Wrap(lastAvail + k + 1)
          /\ parked' = {} /\ faulted' = TRUE /\ dropped' = dropped \cup {Available(k)}
       \/ /\ k < Waiting /\ kind[Available(k)] = "broken"
          /\ lastAvail' = Wrap(lastAvail + k)
          /\ parked' = {} /\ faulted' = TRUE /\ dropped' = dropped

\* A write to QueueNotify; nothing happens while a chain is parked.
Notify ==
  /\ up /\ kick
  /\ kick' = FALSE
  /\ IF parked # {}
     THEN UNCHANGED <<used, usedIdx, isr, lastAvail, parked, historyVars>>
     ELSE Service(used, 0)
  /\ UNCHANGED <<avail, availIdx, kind, free, lastUsed, reaping, up>>

\* Faults: the chain is served without an interrupt; the chains behind it
\* are not looked at.
Resume_Silent ==
  \E h \in parked :
    /\ used' = [used EXCEPT ![Slot(usedIdx)] = h]
    /\ usedIdx' = Wrap(usedIdx + 1)
    /\ parked' = {}
    /\ UNCHANGED <<avail, availIdx, kind, driverVars, up, isr, lastAvail, historyVars>>
Resume_NoLoop ==
  \E h \in parked :
    /\ used' = [used EXCEPT ![Slot(usedIdx)] = h]
    /\ usedIdx' = Wrap(usedIdx + 1)
    /\ parked' = {} /\ isr' = TRUE
    /\ UNCHANGED <<avail, availIdx, kind, driverVars, up, lastAvail, historyVars>>

\* BlockDevice::resume, when the host has answered some fetch: the parked
\* chain is tried again, and if it is served the loop goes on.  (If its data
\* is still missing it stays parked: nothing changes.)
Resume ==
  \E h \in parked :
    /\ Service([used EXCEPT ![Slot(usedIdx)] = h], 1)
    /\ UNCHANGED <<avail, availIdx, kind, driverVars, up>>

\* Fault: BlockDevice::reset is not called.
Reset_KeepParked ==
  /\ up
  /\ up' = FALSE /\ lastAvail' = 0 /\ isr' = FALSE
  /\ free' = {} /\ kick' = FALSE /\ reaping' = FALSE
  /\ faulted' = FALSE /\ dropped' = {}
  /\ availIdx' = 0 /\ usedIdx' = 0 /\ lastUsed' = 0
  /\ UNCHANGED <<avail, used, kind, parked>>

\* Status 0 or a reset of the machine: BlockDevice::reset, then
\* VirtioTransport::reset.  The driver abandons its rings; those it sets the
\* queue up with again are cleared.
Reset ==
  /\ up
  /\ up' = FALSE /\ lastAvail' = 0 /\ isr' = FALSE /\ parked' = {}
  /\ free' = {} /\ kick' = FALSE /\ reaping' = FALSE
  /\ faulted' = FALSE /\ dropped' = {}
  /\ availIdx' = 0 /\ usedIdx' = 0 /\ lastUsed' = 0
  /\ UNCHANGED <<avail, used, kind>>

-----------------------------------------------------------------------------
(* The driver.                                                             *)

\* The driver gives the device the rings and sets DRIVER_OK.
Setup ==
  /\ ~up
  /\ up' = TRUE
  /\ free' = Heads
  /\ UNCHANGED <<ringVars, lastUsed, kick, reaping, lastAvail, isr, parked, historyVars>>

Submit(h, kd) ==
  /\ up /\ h \in free
  /\ avail' = [avail EXCEPT ![Slot(availIdx)] = h]
  /\ availIdx' = Wrap(availIdx + 1)
  /\ kind' = [kind EXCEPT ![h] = kd]
  /\ free' = free \ {h}
  /\ kick' = TRUE
  /\ UNCHANGED <<used, usedIdx, lastUsed, reaping, deviceVars, historyVars>>

\* The interrupt handler acknowledges what it reads in InterruptStatus.
Interrupt ==
  /\ isr
  /\ isr' = FALSE
  /\ reaping' = TRUE
  /\ UNCHANGED <<ringVars, free, lastUsed, kick, up, lastAvail, parked, historyVars>>

Reap ==
  /\ reaping /\ lastUsed # usedIdx
  /\ free' = free \cup {Answer(0)}
  /\ lastUsed' = Wrap(lastUsed + 1)
  /\ UNCHANGED <<ringVars, kick, reaping, deviceVars, historyVars>>

ReapDone ==
  /\ reaping /\ lastUsed = usedIdx
  /\ reaping' = FALSE
  /\ UNCHANGED <<ringVars, free, lastUsed, kick, deviceVars, historyVars>>

-----------------------------------------------------------------------------

Init ==
  /\ avail = [s \in Heads |-> 0] /\ availIdx = 0
  /\ used = [s \in Heads |-> 0] /\ usedIdx = 0
  /\ kind = [h \in Heads |-> "good"]
  /\ free = {} /\ lastUsed = 0 /\ kick = FALSE /\ reaping = FALSE
  /\ up = FALSE /\ lastAvail = 0 /\ isr = FALSE /\ parked = {}
  /\ faulted = FALSE /\ dropped = {}

Next ==
  \/ Setup \/ Reset
  \/ \E h \in Heads, kd \in Kinds : Submit(h, kd)
  \/ Notify \/ Resume
  \/ Interrupt \/ Reap \/ ReapDone

Spec == Init /\ [][Next]_vars

\* The host answers every fetch in the end, and the guest runs.
Fairness ==
  /\ WF_vars(Notify) /\ WF_vars(Resume)
  /\ WF_vars(Interrupt) /\ WF_vars(Reap) /\ WF_vars(ReapDone)
FairSpec == Spec /\ Fairness

-----------------------------------------------------------------------------
(* Properties.                                                             *)

\* Indexes stay below the modulus, ring entries name heads, and the device
\* parks at most one chain.
QueueTypeOK ==
  /\ avail \in [Heads -> Heads] /\ used \in [Heads -> Heads]
  /\ {availIdx, usedIdx, lastUsed, lastAvail} \subseteq Indexes
  /\ kind \in [Heads -> Kinds]
  /\ free \subseteq Heads /\ dropped \subseteq Heads
  /\ parked \subseteq Heads /\ Cardinality(parked) <= 1
  /\ {kick, reaping, up, isr, faulted} \subseteq BOOLEAN

\* Every chain is in one place: free, waiting in the available ring, parked,
\* unseen in the used ring, or refused.  So no chain is served or answered
\* twice, and no ring entry is overwritten before it is read.
Places ==
  <<free, {Available(j) : j \in 0 .. Waiting - 1}, parked,
    {Answer(j) : j \in 0 .. Unseen - 1}, dropped>>
ChainsOwned ==
  up =>
    /\ Cardinality(free) + Waiting + Cardinality(parked) + Unseen + Cardinality(dropped) = Size
    /\ \A p, q \in DOMAIN Places : p # q => Places[p] \cap Places[q] = {}
    /\ UNION {Places[p] : p \in DOMAIN Places} = Heads

\* Neither side is left waiting for the other.  A chain the driver has
\* notified of waits only behind a parked one, or because the last loop met
\* one it could not serve; an unseen answer has an interrupt, although
\* answers are published while the driver handles the last one.
NoneForgotten ==
  /\ up /\ Waiting > 0 => kick \/ parked # {} \/ faulted
  /\ Unseen > 0 => isr \/ reaping

\* No chain is lost, doubled or left waiting (pop, publish, notify, resume).
ChainsAccounted == ChainsOwned /\ NoneForgotten

\* The rings are sequences of requests and of answers.
Requested ==
  INSTANCE RequestQueue WITH
    Requests <- Heads,
    waiting <- [j \in 1 .. Waiting |-> Available(j - 1)],
    held <- [j \in 1 .. Cardinality(parked) |-> CHOOSE h \in parked : TRUE],
    answers <- [j \in 1 .. Unseen |-> Answer(j - 1)],
    idle <- free

\* A virtqueue answers requests in the order of their submission, each at
\* most once, whatever the positions of its wrapping indexes.
ImplementsQueue == Requested!Spec

\* A driver that submits only chains the device can serve gets each of them
\* back, unless it resets the device.
Orderly == [](\A h \in Heads : kind[h] = "good")
ChainsReturn ==
  Orderly => \A h \in Heads : (up /\ h \notin free) ~> (~up \/ h \in free)

=============================================================================
