---------------------------- MODULE NetworkPath ----------------------------
(***************************************************************************)
(* The way of Ethernet frames and of the carrier into the guest: the       *)
(* bounded queue at the WebAssembly boundary (browser_input.rs), which the *)
(* runtime empties at the start of every CPU run (run_cpu_once), and the   *)
(* VirtIO network device (virtio_devices.rs, NetworkDevice) with its own   *)
(* bounded queue, filled receive buffers and configuration interrupt.      *)
(*                                                                         *)
(* A frame is its number, given in the order of networkInput, and its      *)
(* size; NET_HEADER_LEN is left out of sizes.  Key and pointer events      *)
(* share the queue and are left out.  The guest's driver is external: it   *)
(* gives buffers, notifies, acknowledges interrupts and reads the link     *)
(* status, as the VirtIO specification asks of it.                         *)
(***************************************************************************)
EXTENDS Integers, Sequences, FiniteSets

CONSTANTS
  MaxFrameSize,   \* MAX_NETWORK_FRAME_SIZE
  FrameLimit,     \* MAX_PENDING_NETWORK_FRAMES
  ByteLimit,      \* MAX_PENDING_NETWORK_BYTES
  BufferSizes,    \* sizes of the receive buffers the guest posts
  MaxBuffers,     \* bound on the posted buffers, the queue's size
  MaxFrames,      \* bound on the frames offered
  MaxEvents       \* bound on the queued carrier reports

ASSUME PathAssumption ==
  /\ MaxFrameSize \in Nat /\ FrameLimit \in Nat /\ ByteLimit \in Nat
  /\ BufferSizes \subseteq Nat
  /\ MaxBuffers \in Nat /\ MaxFrames \in Nat /\ MaxEvents \in Nat

VARIABLES
  vm,         \* the runtime's State: "halted", "running" or "empty"
  phase,      \* between tasks "idle"; in a CPU run "deliver", then "guest"
  events,     \* BrowserInputQueue.events, oldest first
  frames,     \* network_frames
  bytes,      \* network_bytes
  receive,    \* NetworkDevice.receive
  waiting,    \* receive_bytes
  carrier,    \* carrier_up
  driver,     \* DRIVER_OK is set in the device's status
  buffers,    \* receive chains the guest has made available
  kick,       \* the guest has added buffers and not notified yet
  irq,        \* the configuration interrupt is raised
  link,       \* what the guest's driver believes of the link
  next,       \* number of the next frame            (history)
  got,        \* numbers of the frames received since the boot  (history)
  boot,       \* value of next at the last boot      (history)
  reported,   \* the carrier the page reported last  (history)
  lost        \* a queued report was dropped, none followed     (history)

queueVars == <<events, frames, bytes>>
deviceVars == <<receive, waiting, carrier, driver, buffers, irq>>
guestVars == <<kick, link>>
historyVars == <<next, got, boot, reported, lost>>
pathVars == <<vm, phase, queueVars, deviceVars, guestVars, historyVars>>

Frame == [n : Nat, size : Nat]
Report(up) == [kind |-> "carrier", up |-> up]
Packet(f) == [kind |-> "packet", frame |-> f]

IsPacket(e) == e.kind = "packet"

\* The sum of a sequence of numbers, and what it counts in queues.
Total(numbers) ==
  LET sum[i \in 0 .. Len(numbers)] == IF i = 0 THEN 0 ELSE sum[i - 1] + numbers[i]
  IN sum[Len(numbers)]
SizeOf(queue) == Total([i \in DOMAIN queue |-> queue[i].size])
PacketCount(queue) == Total([i \in DOMAIN queue |-> IF IsPacket(queue[i]) THEN 1 ELSE 0])
PacketBytes(queue) ==
  Total([i \in DOMAIN queue |-> IF IsPacket(queue[i]) THEN queue[i].frame.size ELSE 0])

-----------------------------------------------------------------------------
(* What the page may call.                                                 *)

\* The test that BrowserInputQueue and NetworkDevice share.
Fits(size, count, total) ==
  /\ size \in 1 .. MaxFrameSize
  /\ count < FrameLimit
  /\ total + size <= ByteLimit

\* network_packet of a running machine; the facade drops frames otherwise.
NetworkInput(size) ==
  /\ vm = "running"
  /\ next < MaxFrames
  /\ next' = next + 1
  /\ IF Fits(size, frames, bytes)
       THEN /\ events' = Append(events, Packet([n |-> next, size |-> size]))
            /\ frames' = frames + 1
            /\ bytes' = bytes + size
       ELSE UNCHANGED queueVars
  /\ UNCHANGED <<vm, phase, deviceVars, guestVars, got, boot, reported, lost>>

\* network_carrier of a machine that exists; on any other the facade throws.
NetworkCarrier(up) ==
  /\ vm # "empty"
  /\ Cardinality({i \in DOMAIN events : events[i].kind = "carrier"}) < MaxEvents
  /\ events' = Append(events, Report(up))
  /\ reported' = up
  /\ lost' = FALSE
  /\ UNCHANGED <<vm, phase, frames, bytes, deviceVars, guestVars, next, got, boot>>

-----------------------------------------------------------------------------
(* A CPU run: every queued event is delivered, then the guest executes.    *)

\* The loop of drain_receive over k frames of the queue and as many buffers:
\* the numbers received.  A frame its buffer cannot hold is dropped, the buffer
\* returned empty.
Handed(queue, given, k) ==
  LET numbers[i \in 0 .. k] ==
        IF i = 0 THEN got
        ELSE IF queue[i].size <= given[i] THEN Append(numbers[i - 1], queue[i].n)
        ELSE numbers[i - 1]
  IN numbers[k]
Take(queue, total, given, k) ==
  /\ receive' = SubSeq(queue, k + 1, Len(queue))
  /\ buffers' = SubSeq(given, k + 1, Len(given))
  /\ waiting' = total - SizeOf(SubSeq(queue, 1, k))
  /\ got' = Handed(queue, given, k)

\* Fault: only one frame is moved at a time.
Drained_One(queue, total, given) ==
  Take(queue, total, given, IF queue = <<>> \/ given = <<>> THEN 0 ELSE 1)

\* drain_receive of a queue of total bytes: frames meet buffers in order, until
\* one or the other is used up.
Drained(queue, total, given) ==
  Take(queue, total, given, IF Len(queue) <= Len(given) THEN Len(queue) ELSE Len(given))

StartRun ==
  /\ vm = "running" /\ phase = "idle"
  /\ phase' = "deliver"
  /\ UNCHANGED <<vm, queueVars, deviceVars, guestVars, historyVars>>

\* Fault: the configuration interrupt is raised for carrier up alone.
DeliverCarrier_UpOnly ==
  /\ phase = "deliver" /\ events # <<>>
  /\ Head(events).kind = "carrier"
  /\ events' = Tail(events)
  /\ carrier' = Head(events).up
  /\ irq' = (irq \/ Head(events).up)
  /\ UNCHANGED <<vm, phase, frames, bytes, receive, waiting, driver, buffers,
                 guestVars, historyVars>>

DeliverCarrier ==
  /\ phase = "deliver" /\ events # <<>>
  /\ Head(events).kind = "carrier"
  /\ events' = Tail(events)
  /\ carrier' = Head(events).up
  /\ irq' = (irq \/ carrier # Head(events).up)
  /\ UNCHANGED <<vm, phase, frames, bytes, receive, waiting, driver, buffers,
                 guestVars, historyVars>>

\* receive_packet: the device may drop what the boundary accepted, and hands
\* frames on only to a driver that is ready.
DeliverPacket ==
  /\ phase = "deliver" /\ events # <<>>
  /\ Head(events).kind = "packet"
  /\ LET f == Head(events).frame IN
       /\ events' = Tail(events)
       /\ frames' = frames - 1
       /\ bytes' = bytes - f.size
       /\ \/ /\ ~Fits(f.size, Len(receive), waiting)
             /\ UNCHANGED <<receive, waiting, buffers, got>>
          \/ /\ Fits(f.size, Len(receive), waiting) /\ ~driver
             /\ receive' = Append(receive, f)
             /\ waiting' = waiting + f.size
             /\ UNCHANGED <<buffers, got>>
          \/ /\ Fits(f.size, Len(receive), waiting) /\ driver
             /\ Drained(Append(receive, f), waiting + f.size, buffers)
  /\ UNCHANGED <<vm, phase, carrier, driver, irq, guestVars, next, boot, reported, lost>>

DeliverDone ==
  /\ phase = "deliver" /\ events = <<>>
  /\ phase' = "guest"
  /\ UNCHANGED <<vm, queueVars, deviceVars, guestVars, historyVars>>

-----------------------------------------------------------------------------
(* The guest's driver.                                                     *)

\* The driver sets DRIVER_OK and reads the link status.
GuestProbe ==
  /\ phase = "guest" /\ ~driver
  /\ driver' = TRUE
  /\ link' = carrier
  /\ UNCHANGED <<vm, phase, queueVars, receive, waiting, carrier, buffers, irq, kick,
                 historyVars>>

GuestAddBuffer(room) ==
  /\ phase = "guest" /\ driver
  /\ Len(buffers) < MaxBuffers
  /\ buffers' = Append(buffers, room)
  /\ kick' = TRUE
  /\ UNCHANGED <<vm, phase, queueVars, receive, waiting, carrier, driver, irq, link,
                 historyVars>>

\* notify of queue 0.
GuestNotify ==
  /\ phase = "guest" /\ driver /\ kick
  /\ kick' = FALSE
  /\ Drained(receive, waiting, buffers)
  /\ UNCHANGED <<vm, phase, queueVars, carrier, driver, irq, link, next, boot, reported,
                 lost>>

\* The interrupt handler acknowledges, then reads the status.
GuestInterrupt ==
  /\ phase = "guest" /\ driver /\ irq
  /\ irq' = FALSE
  /\ link' = carrier
  /\ UNCHANGED <<vm, phase, queueVars, receive, waiting, carrier, driver, buffers, kick,
                 historyVars>>

\* Faults: frames outlive the reset; the byte count outlives it.
ResetDevice_KeepFrames ==
  /\ driver' = FALSE /\ buffers' = <<>> /\ irq' = FALSE
  /\ kick' = FALSE
  /\ UNCHANGED <<receive, waiting, carrier, link>>
ResetDevice_KeepCount ==
  /\ receive' = <<>>
  /\ driver' = FALSE /\ buffers' = <<>> /\ irq' = FALSE
  /\ kick' = FALSE
  /\ UNCHANGED <<waiting, carrier, link>>

\* NetworkDevice::reset and VirtioTransport::reset: the carrier stays.
ResetDevice ==
  /\ receive' = <<>> /\ waiting' = 0
  /\ driver' = FALSE /\ buffers' = <<>> /\ irq' = FALSE
  /\ kick' = FALSE
  /\ UNCHANGED <<carrier, link>>

GuestResetsDevice ==
  /\ phase = "guest" /\ driver
  /\ ResetDevice
  /\ UNCHANGED <<vm, phase, queueVars, historyVars>>

GuestYield ==
  /\ phase = "guest"
  /\ phase' = "idle"
  /\ UNCHANGED <<vm, queueVars, deviceVars, guestVars, historyVars>>

-----------------------------------------------------------------------------
(* Lifecycle.  Halting retires the queue (retire_guest_work); a boot, a    *)
(* reset and a cold reset replace it.  Either way no queued event          *)
(* survives; what halting keeps, the flag network_carrier, nobody reads.   *)

ClearQueue ==
  /\ events' = <<>> /\ frames' = 0 /\ bytes' = 0
  /\ lost' = (lost \/ \E i \in DOMAIN events : events[i].kind = "carrier")

Halt ==
  /\ ClearQueue
  /\ ResetDevice
  /\ vm' = "halted"
  /\ phase' = "idle"
  /\ UNCHANGED <<next, got, boot, reported>>

Restart ==
  /\ ClearQueue
  /\ ResetDevice
  /\ vm' = "running"
  /\ phase' = "idle"
  /\ got' = <<>> /\ boot' = next
  /\ UNCHANGED <<next, reported>>

HostHalt == phase = "idle" /\ vm = "running" /\ Halt
HostReset == phase = "idle" /\ vm = "running" /\ Restart
Boot == phase = "idle" /\ vm = "halted" /\ Restart
GuestPoweroff == phase = "guest" /\ Halt
GuestReboot == phase = "guest" /\ Restart
ColdReset == phase = "idle" /\ vm = "halted" /\ Halt

Destroy ==
  /\ phase = "idle" /\ vm = "halted"
  /\ ClearQueue
  /\ vm' = "empty"
  /\ UNCHANGED <<phase, deviceVars, guestVars, next, got, boot, reported>>

-----------------------------------------------------------------------------

PathInit ==
  /\ vm = "halted" /\ phase = "idle"
  /\ events = <<>> /\ frames = 0 /\ bytes = 0
  /\ receive = <<>> /\ waiting = 0 /\ carrier = FALSE
  /\ driver = FALSE /\ buffers = <<>> /\ irq = FALSE
  /\ kick = FALSE /\ link = FALSE
  /\ next = 0 /\ got = <<>> /\ boot = 0
  /\ reported = FALSE /\ lost = FALSE

\* The steps that do not depend on who reports frames and the carrier.
MachineStep ==
  \/ StartRun \/ DeliverCarrier \/ DeliverPacket \/ DeliverDone
  \/ GuestProbe \/ GuestNotify \/ GuestInterrupt \/ GuestResetsDevice
  \/ \E room \in BufferSizes : GuestAddBuffer(room)
  \/ GuestYield \/ GuestPoweroff \/ GuestReboot
  \/ HostHalt \/ HostReset \/ Boot \/ ColdReset \/ Destroy

\* Any page: frames of any size, the empty and the oversized ones included.
PathNext ==
  \/ MachineStep
  \/ phase = "idle" /\ \E size \in 0 .. MaxFrameSize + 1 : NetworkInput(size)
  \/ phase = "idle" /\ \E up \in BOOLEAN : NetworkCarrier(up)

PathSpec == PathInit /\ [][PathNext]_pathVars

-----------------------------------------------------------------------------
(* Properties.                                                             *)

\* Every queued frame has a size a frame may have; a CPU run is under way in
\* a running machine only.
PathTypeOK ==
  /\ vm \in {"halted", "running", "empty"}
  /\ phase \in {"idle", "deliver", "guest"}
  /\ phase # "idle" => vm = "running"
  /\ \A i \in DOMAIN events :
       events[i] \in {Report(up) : up \in BOOLEAN} \cup {Packet(f) : f \in [n : 0 .. MaxFrames, size : 1 .. MaxFrameSize]}
  /\ receive \in Seq([n : 0 .. MaxFrames, size : 1 .. MaxFrameSize])
  /\ buffers \in Seq(BufferSizes)
  /\ {carrier, driver, kick, irq, link, reported, lost} \subseteq BOOLEAN

\* The counters that guard both queues say what is in them, through overflow,
\* drops, resets and reboots; so the limits hold and no subtraction wraps.
Accounted ==
  /\ frames = PacketCount(events) /\ bytes = PacketBytes(events)
  /\ waiting = SizeOf(receive)
  /\ frames <= FrameLimit /\ bytes <= ByteLimit
  /\ Len(receive) <= FrameLimit /\ waiting <= ByteLimit

\* The numbers of the frames the guest has received and of those on their way.
Received == {got[i] : i \in DOMAIN got}
Waiting == {receive[i].n : i \in DOMAIN receive}
Queued == {events[i].frame.n : i \in {j \in DOMAIN events : IsPacket(events[j])}}

\* The guest receives frames in the order of networkInput, none twice, and
\* none from before its boot, whatever is dropped on the way: each stage is in
\* order and before the next one.
FramesOrdered ==
  /\ \A i, j \in DOMAIN got : i < j => got[i] < got[j]
  /\ \A i, j \in DOMAIN receive : i < j => receive[i].n < receive[j].n
  /\ \A i, j \in DOMAIN events :
       i < j /\ IsPacket(events[i]) /\ IsPacket(events[j])
         => events[i].frame.n < events[j].frame.n
  /\ \A x \in Received, y \in Waiting \cup Queued : x < y
  /\ \A x \in Waiting, y \in Queued : x < y
  /\ vm = "running" => \A x \in Received \cup Waiting \cup Queued : x >= boot

\* No frame waits for a buffer that is there: of the frames' arrival and the
\* buffers' notification, whichever comes last moves them.
NoFrameWaits ==
  driver /\ ~kick => receive = <<>> \/ buffers = <<>>

\* No frame is lost count of, and none waits in vain (network_packet,
\* receive_packet, drain_receive).
FramesKept == Accounted /\ NoFrameWaits

\* The guest knows the carrier that was reported last: once a CPU run has
\* delivered its events it is the device's, unless a lifecycle operation
\* dropped that very report, and a driver without a pending configuration
\* interrupt has read it.
CarrierFollows ==
  /\ phase = "guest" /\ ~lost => carrier = reported
  /\ driver /\ ~irq => link = carrier

\* "accepted while halted or running so a transport can attach before boot"
\* (API.md): what a transport reported before the boot is the carrier the
\* guest finds.
CarrierSurvivesBoot == phase = "guest" => carrier = reported

=============================================================================
