-------------------------------- MODULE Plic --------------------------------
(***************************************************************************)
(* Interrupts from the devices to the CPU: the interrupt lines, the        *)
(* platform-level interrupt controller (platform.rs, Plic), the bus that   *)
(* passes the lines on after every access (machine.rs, update_device_irqs) *)
(* and the CPU's pending bits and WFI sleep (bridge.c, riscv_cpu.c).       *)
(*                                                                         *)
(* Context 0 is machine mode, context 1 supervisor mode; mip and mie are   *)
(* the contexts whose external interrupt is pending and enabled in the     *)
(* CPU.  What devices do to raise their lines is left to their modules.    *)
(* The guest's handlers are external: they claim what the CPU signals,     *)
(* quieten the device and complete.  Timers and software interrupts, which *)
(* bypass the controller, are left out.                                    *)
(***************************************************************************)
EXTENDS Integers, FiniteSets

CONSTANTS
  Sources,       \* interrupt sources in use, among 1 .. 31
  MaxPriority,   \* 7 in the code
  Thresholds     \* the thresholds the guest writes

Contexts == {0, 1}
Priorities == 0 .. MaxPriority

ASSUME PlicAssumption ==
  /\ Sources \subseteq 1 .. 31
  /\ MaxPriority \in Nat
  /\ Thresholds \subseteq 0 .. MaxPriority

VARIABLES
  line,       \* sources whose device asserts its interrupt
  level,      \* Plic.level
  pending,    \* Plic.pending
  claimed,    \* Plic.claimed
  priority,   \* Plic.priority
  enable,     \* Plic.enable
  threshold,  \* Plic.threshold
  mip, mie,   \* the CPU's external interrupt bits
  sleeping,   \* power_down_flag
  executing   \* a CPU run is under way

plicVars == <<level, pending, claimed>>
configVars == <<priority, enable, threshold>>
cpuVars == <<mip, mie, sleeping, executing>>
vars == <<line, plicVars, configVars, cpuVars>>

Served(cl) == cl[0] \cup cl[1]

-----------------------------------------------------------------------------
(* The controller.                                                         *)

\* The sources a context may claim, and best_irq: the highest priority first,
\* the lowest number among equals; 0 if there is none.
Candidates(c, pend) == {i \in pend \cap enable[c] : priority[i] > threshold[c]}
Best(c, pend) ==
  LET cand == Candidates(c, pend)
  IN IF cand = {} THEN 0
     ELSE CHOOSE i \in cand :
            \A j \in cand : priority[j] < priority[i] \/ (priority[j] = priority[i] /\ i <= j)

\* Faults of set_irq: a disabled source does not become pending; a low level
\* withdraws the request.
UpdateDeviceIrqs_OnlyEnabled(lines, pend, cl) ==
  /\ level' = lines
  /\ pending' = pend \cup ((lines \cap (enable[0] \cup enable[1])) \ Served(cl))
  /\ claimed' = cl
UpdateDeviceIrqs_Withdraw(lines, pend, cl) ==
  /\ level' = lines
  /\ pending' = (pend \cap lines) \cup (lines \ Served(cl))
  /\ claimed' = cl

\* set_irq of every source, from a state with pend pending and cl claimed.
UpdateDeviceIrqs(lines, pend, cl) ==
  /\ level' = lines
  /\ pending' = pend \cup (lines \ Served(cl))
  /\ claimed' = cl

\* Fault: the CPU is told before the lines are passed on.
CpuInterrupts_Before ==
  {c \in Contexts : \E i \in pending : i \in enable'[c] /\ priority'[i] > threshold'[c]}

\* sync_interrupts: cpu_interrupts of the new state goes to the CPU, which
\* wakes if it is enabled there.
CpuInterrupts ==
  {c \in Contexts : \E i \in pending' : i \in enable'[c] /\ priority'[i] > threshold'[c]}
SyncInterrupts ==
  /\ mip' = CpuInterrupts
  /\ sleeping' = (sleeping /\ mip' \cap mie = {})

-----------------------------------------------------------------------------
(* Between CPU runs.                                                       *)

\* The host delivers an event or a response and the device asks for
\* attention: the controller learns of it, the CPU only at its next run.
HostRaises(i) ==
  /\ ~executing
  /\ line' = line \cup {i}
  /\ UpdateDeviceIrqs(line', pending, claimed)
  /\ UNCHANGED <<configVars, cpuVars>>

\* Fault: present_guest_clocks does not pass the lines on.
StartRun_NoUpdate ==
  /\ ~executing
  /\ UNCHANGED <<line, plicVars, configVars, mie>>
  /\ SyncInterrupts
  /\ executing' = ~sleeping'

\* present_guest_clocks and the beginning of run_cpu.
StartRun ==
  /\ ~executing
  /\ UpdateDeviceIrqs(line, pending, claimed)
  /\ UNCHANGED <<line, configVars, mie>>
  /\ SyncInterrupts
  /\ executing' = ~sleeping'

EndRun ==
  /\ executing
  /\ executing' = FALSE
  /\ UNCHANGED plicVars
  /\ UNCHANGED <<line, configVars, mie>>
  /\ SyncInterrupts

\* reset_devices, by a halt, a reset or a reboot; the CPU starts anew.
Reset ==
  /\ line' = {}
  /\ level' = {} /\ pending' = {} /\ claimed' = [c \in Contexts |-> {}]
  /\ priority' = [i \in Sources |-> 0]
  /\ enable' = [c \in Contexts |-> {}]
  /\ threshold' = [c \in Contexts |-> 0]
  /\ mip' = {} /\ mie' = {} /\ sleeping' = FALSE
  /\ executing' = FALSE

-----------------------------------------------------------------------------
(* What the guest does in a CPU run.  Every access to a device or to the   *)
(* controller ends with update_device_irqs, then with sync_interrupts.     *)

\* An access by which the device raises (a notification that completes at
\* once) or lowers its line (an acknowledgement).
GuestRaises(i) ==
  /\ executing
  /\ line' = line \cup {i}
  /\ UpdateDeviceIrqs(line', pending, claimed)
  /\ UNCHANGED <<configVars, mie, executing>>
  /\ SyncInterrupts

GuestLowers(i) ==
  /\ executing /\ i \in line
  /\ line' = line \ {i}
  /\ UpdateDeviceIrqs(line', pending, claimed)
  /\ UNCHANGED <<configVars, mie, executing>>
  /\ SyncInterrupts

\* A notification that raises the line and then fails: write_mmio returns
\* before it passes the lines on.
FailedNotify(i) ==
  /\ executing
  /\ line' = line \cup {i}
  /\ UNCHANGED plicVars
  /\ UNCHANGED <<configVars, mie, executing>>
  /\ SyncInterrupts

\* Plic::claim, Plic::complete and the configuration registers.
Claim(c) ==
  /\ executing
  /\ Best(c, pending) # 0
  /\ UpdateDeviceIrqs(line, pending \ {Best(c, pending)},
                      [claimed EXCEPT ![c] = @ \cup {Best(c, pending)}])
  /\ UNCHANGED <<line, configVars, mie, executing>>
  /\ SyncInterrupts

Complete(c, i) ==
  /\ executing
  /\ i \in claimed[c]
  /\ UpdateDeviceIrqs(line, IF i \in level THEN pending \cup {i} ELSE pending,
                      [claimed EXCEPT ![c] = @ \ {i}])
  /\ UNCHANGED <<line, configVars, mie, executing>>
  /\ SyncInterrupts

\* Any access that changes no register: the lines are passed on all the same.
Access ==
  /\ executing
  /\ UpdateDeviceIrqs(line, pending, claimed)
  /\ UNCHANGED <<line, configVars, mie, executing>>
  /\ SyncInterrupts

Configured ==
  /\ executing
  /\ UpdateDeviceIrqs(line, pending, claimed)
  /\ UNCHANGED <<line, mie, executing>>
  /\ SyncInterrupts

SetPriority(i, p) ==
  /\ priority' = [priority EXCEPT ![i] = p]
  /\ UNCHANGED <<enable, threshold>>
  /\ Configured
SetEnable(c, S) ==
  /\ enable' = [enable EXCEPT ![c] = S]
  /\ UNCHANGED <<priority, threshold>>
  /\ Configured
SetThreshold(c, p) ==
  /\ threshold' = [threshold EXCEPT ![c] = p]
  /\ UNCHANGED <<priority, enable>>
  /\ Configured

\* The CPU's mie has no bit for machine mode's external interrupt.
Enableable == {1}
SetMie(S) ==
  /\ executing
  /\ mie' = S
  /\ UNCHANGED <<line, plicVars, configVars, mip, sleeping, executing>>

\* The CPU sleeps unless an enabled interrupt is pending; the run ends.
Wfi ==
  /\ executing
  /\ mip \cap mie = {}
  /\ sleeping' = TRUE
  /\ executing' = FALSE
  /\ UNCHANGED <<line, plicVars, configVars, mip, mie>>

-----------------------------------------------------------------------------

Init ==
  /\ line = {}
  /\ level = {} /\ pending = {} /\ claimed = [c \in Contexts |-> {}]
  /\ priority = [i \in Sources |-> 0]
  /\ enable = [c \in Contexts |-> {}]
  /\ threshold = [c \in Contexts |-> 0]
  /\ mip = {} /\ mie = {} /\ sleeping = FALSE
  /\ executing = FALSE

Raise == \E i \in Sources : HostRaises(i) \/ GuestRaises(i) \/ FailedNotify(i)

Configure ==
  \/ \E i \in Sources, p \in Priorities : SetPriority(i, p)
  \/ \E c \in Contexts :
       \/ \E S \in SUBSET Sources : SetEnable(c, S)
       \/ \E p \in Thresholds : SetThreshold(c, p)
  \/ \E S \in SUBSET Enableable : SetMie(S)

Next ==
  \/ Raise
  \/ Configure
  \/ StartRun \/ EndRun \/ Access \/ Wfi \/ Reset
  \/ \E i \in Sources : GuestLowers(i)
  \/ \E c \in Contexts : Claim(c) \/ \E i \in Sources : Complete(c, i)

Spec == Init /\ [][Next]_vars

\* The runtime schedules CPU runs for ever, each with a bounded number of
\* cycles.  The guest's handlers: a context that is interrupted claims, and
\* what it has claimed it quietens, then completes.  Strong fairness, because
\* a run may end at any moment.
Handle(c, i) == Complete(c, i) /\ i \notin line
Fairness ==
  /\ WF_vars(StartRun) /\ WF_vars(EndRun)
  /\ SF_vars(\E c \in mip \cap mie : Claim(c))
  /\ SF_vars(\E i \in Served(claimed) : GuestLowers(i))
  /\ SF_vars(\E c \in Contexts, i \in Sources : Handle(c, i))

FairSpec == Spec /\ Fairness

-----------------------------------------------------------------------------
(* Properties.                                                             *)

\* The registers hold sources, contexts and priorities; a sleeping CPU
\* executes nothing.
PlicTypeOK ==
  /\ line \subseteq Sources /\ level \subseteq Sources /\ pending \subseteq Sources
  /\ claimed \in [Contexts -> SUBSET Sources]
  /\ priority \in [Sources -> Priorities]
  /\ enable \in [Contexts -> SUBSET Sources]
  /\ threshold \in [Contexts -> Priorities]
  /\ mip \subseteq Contexts /\ mie \subseteq Enableable
  /\ sleeping \in BOOLEAN /\ executing \in BOOLEAN
  /\ ~(sleeping /\ executing)

\* A source is served by one context at a time, and is not pending
\* meanwhile, although complete looks at its own context's claims only.
Exclusive ==
  /\ claimed[0] \cap claimed[1] = {}
  /\ pending \cap Served(claimed) = {}

\* No request is lost: a source whose level is high is pending or served,
\* also if the device asks again between the acknowledgement and complete.
NotLost == level \subseteq pending \cup Served(claimed)

\* While the guest executes, the CPU sees a pending interrupt for every
\* context that is to serve an asserted line; so WFI never sleeps through one.
Signalled ==
  executing =>
    \A c \in Contexts, i \in (line \cap level) \ Served(claimed) :
      i \in enable[c] /\ priority[i] > threshold[c] => c \in mip

\* The state of a source's gateway.
SourceState(i) ==
  IF i \in claimed[0] THEN 0
  ELSE IF i \in claimed[1] THEN 1
  ELSE IF i \in pending THEN 3 ELSE 2
Gateway ==
  INSTANCE InterruptGateway WITH
    Rest <- 2, Pending <- 3, asked <- level, state <- [i \in Sources |-> SourceState(i)]

\* What Plic does to its registers, whatever else the bus, the guest and the
\* CPU do, are steps of the gateways.
ImplementsGateway == Gateway!Spec

\* Devices stop asking and the guest stops reconfiguring; the guest's handlers
\* never wait for an interrupt themselves.
Disciplined == [](sleeping => Served(claimed) = {})
Settled == <>[][~(Raise \/ Configure \/ Reset)]_vars
Deliverable(i) ==
  \E c \in mie : i \in enable[c] /\ priority[i] > threshold[c]

\* Once devices stop asking and the guest stops reconfiguring, every asserted
\* line that an enabled context is to serve is served until it is low: no
\* sleep, late host event or failed notification leaves the guest waiting.
AllServed ==
  Settled /\ Disciplined =>
    \A i \in Sources : (i \in line /\ Deliverable(i)) ~> (i \notin line \/ ~Deliverable(i))

=============================================================================
