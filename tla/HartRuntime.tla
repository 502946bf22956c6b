---------------------------- MODULE HartRuntime ----------------------------
(***************************************************************************)
(* The hart of Hart.tla run by the browser runtime: quanta, the guest      *)
(* clock, timers and the wakeup asked of the page (browser_runtime.rs,     *)
(* machine.rs), around the interpreter's loop (riscv_cpu_interp and the    *)
(* block structure of riscv_cpu_interp_x64).                               *)
(*                                                                         *)
(* The guest is a workload: a set of instructions from which it executes   *)
(* any sequence, started where its firmware has set things up.  Cycles are *)
(* counted per CPU run, not per instruction, and only for workloads that   *)
(* use timers.                                                             *)
(***************************************************************************)
EXTENDS Hart

CONSTANTS Workloads,       \* a sequence of records [start, insns, timers, irqs, dma]
          GuestTickRate,   \* guest ticks and cycles of the same host time
          CycleRate,
          TicksPerMs,      \* guest ticks in a millisecond of the host
          Budget,          \* cycles of a quantum
          Overshoot,       \* cycles by which a block may pass its limit
          MaxWakeDelay,    \* MAX_WFI_WAKE_DELAY_GUEST_TICKS
          MaxWall,         \* milliseconds that the host clock may show
          MaxFaults        \* clock steps, aborts and reboots together

ASSUME RuntimeAssumption ==
    /\ {GuestTickRate, CycleRate, TicksPerMs, Budget, MaxWakeDelay} \subseteq Nat \ {0}
    /\ {Overshoot, MaxWall, MaxFaults} \subseteq Nat

\* What an instruction may write to a register; the other registers take the
\* bits they have of any value.
Csrs == {"time", "cycle", "instret", "sstatus", "sie", "sip", "stvec", "sepc", "scounteren",
         "senvcfg", "stimecmp", "satp", "mstatus", "mie", "mip", "mtvec", "mepc", "medeleg", "mideleg",
         "mcounteren", "menvcfg", "pmpcfg", "pmpaddr", "mhartid"}
CsrTakes(csr, val) ==
    /\ csr \in {"sstatus", "mstatus"} => val \in [flags : SUBSET MstatusFlags, mpp : PRV_U .. PRV_M]
    /\ csr \in {"stvec", "mtvec", "sepc", "mepc"} => val \in Nat
    /\ csr = "stimecmp" => val \in Nat \union {Never}
    /\ csr = "satp" => val.ppn \in Nat
    /\ csr = "pmpcfg" =>
         val \in [PmpEntries -> [lock : BOOLEAN, a : PmpModes, rwx : SUBSET {"R", "W", "X"}]]
    /\ csr = "pmpaddr" => val \in [entry : PmpEntries, addr : Nat]
DeviceTakes(io) ==
    /\ io.reg \in {"msip", "mtimecmp", "finisher", "notify"}
    /\ io.reg = "mtimecmp" => io.val \in Nat \union {Never}
    /\ io.reg \in {"msip", "notify"} => io.val \in BOOLEAN

\* An instruction has the operands that its action reads.
InsnOk(i) ==
    /\ i.op = "csr" => i.csr \in Csrs /\ i.write \in BOOLEAN /\ (i.write => CsrTakes(i.csr, i.val))
    /\ i.op \in {"load", "store", "jump", "scfail", "cbo"} => i.v \in Nat
    /\ i.op \in {"store", "cbo"} => i.i \in 0 .. Span - 1
    /\ i.op = "store" => i.w \in Words /\ DeviceTakes(i.io)

\* Firmware hands over a hart with no translation cached, before the first tick.
StartOk(t) ==
    /\ t \in Harts
    /\ t.tlb = tlb_init /\ t.ticks = 0
    /\ "MPRV" \in t.flags => t.priv = PRV_M

ASSUME WorkloadAssumption ==
    \A l \in DOMAIN Workloads :
        LET w == Workloads[l]
        IN  /\ StartOk(w.start)
            /\ w.timers \in BOOLEAN /\ w.irqs \subseteq ExternalIrqs
            /\ \A k \in DOMAIN w.insns : InsnOk(w.insns[k])
            /\ \A d \in w.dma : d.frame \in Frames /\ d.i \in 0 .. Span - 1 /\ d.w \in Words

VARIABLES s,         \* the hart with its RAM
          mode,      \* where the interpreter is, or "host" outside it
          bus,       \* lines of the PLIC, the ACLINT and the finisher
          clock,     \* host time, guest clock floor, requested wakeup
          quantum,   \* the active quantum
          load,      \* the workload of this behaviour
          stale,     \* a page table word was stored since the last flush
          changed    \* tracked frames written since the host took the bits

vars == <<s, mode, bus, clock, quantum, load, stale, changed>>

NoQuantum == [start |-> -1]
Running == quantum # NoQuantum

Guest == Workloads[load]
Insns == DOMAIN Guest.insns

Init ==
    /\ load \in DOMAIN Workloads
    /\ s = Workloads[load].start
    /\ mode = "host"
    /\ bus = [lines |-> {}, msip |-> FALSE, mtimecmp |-> Never, reset |-> FALSE]
    /\ clock = [wall |-> 0, floor |-> 0, wake |-> 0, faults |-> 0]
    /\ quantum = NoQuantum
    /\ stale = FALSE
    /\ changed = {}

\* What a step that ends with the hart t means for the two history variables.
Noted(t, wrote) ==
    /\ s' = t
    /\ stale' = (t.tlb # tlb_init /\ (stale \/ wrote))
    /\ changed' = changed \union {f \in Tracked : t.mem[f] # s.mem[f]}

----------------------------------------------------------------------------
(* Machine: interrupt lines and timers.                                    *)

TimerInterrupt(b, now) == b.mtimecmp # Never /\ now >= b.mtimecmp
interrupt_mask(b, now) ==
    b.lines \union (IF b.msip THEN {MIP_MSIP} ELSE {})
            \union (IF TimerInterrupt(b, now) THEN {MIP_MTIP} ELSE {})

present_guest_clocks(t, now) == set_guest_timer_ticks(set_interrupts(t, interrupt_mask(bus, now)), now)

\* The next deadline, or Never.
Deadlines(t, b, now) == {d \in {b.mtimecmp, stimecmp(t)} \ {Never} : d > now}
next_timer(t, b, now) == IF Deadlines(t, b, now) = {} THEN Never ELSE Min(Deadlines(t, b, now))

\* A store to a device register: [s, bus].
write_device(t, io) ==
    LET b == CASE io.reg = "msip" -> [bus EXCEPT !.msip = io.val]
               [] io.reg = "mtimecmp" -> [bus EXCEPT !.mtimecmp = io.val]
               [] io.reg = "finisher" -> [bus EXCEPT !.reset = TRUE]
               [] io.reg = "notify" -> bus
        serve == io.reg \in {"mtimecmp", "finisher"} \/ (io.reg = "notify" /\ io.val)
        u == set_interrupts(t, interrupt_mask(b, t.ticks))
    IN  [s |-> [u EXCEPT !.service = @ \/ serve, !.reprogrammed = @ \/ io.reg = "mtimecmp"],
         bus |-> b]

----------------------------------------------------------------------------
(* The interpreter.                                                        *)

Goto(m) == mode' = m /\ UNCHANGED <<bus, clock, load>>
Ran == quantum' = [quantum EXCEPT !.ran = TRUE]

\* The loop of riscv_cpu_interp, and an interrupt on entry.
LeaveLoop ==
    /\ mode = "loop"
    /\ s.power_down \/ s.service
    /\ Goto("exit")
    /\ UNCHANGED <<s, quantum, stale, changed>>
CyclesSpent ==
    /\ mode \in {"loop", "block"}
    /\ quantum.ran
    /\ mode = "loop" => ~s.power_down /\ ~s.service
    /\ quantum' = [quantum EXCEPT !.exhausted = TRUE]
    /\ Goto("exit")
    /\ UNCHANGED <<s, stale, changed>>
EnterInterp ==
    /\ mode = "loop"
    /\ ~s.power_down /\ ~s.service
    /\ get_pending_irq_mask(s) = {}
    /\ Goto("block")
    /\ UNCHANGED <<s, quantum, stale, changed>>
TakeInterrupt ==
    /\ mode \in {"loop", "block"}
    /\ mode = "loop" => ~s.power_down /\ ~s.service
    /\ get_pending_irq_mask(s) # {}
    /\ Noted(raise_interrupt(s), FALSE)
    /\ Ran
    /\ Goto("loop")

\* A new block: its first instruction is fetched.
FetchBlock ==
    LET t == target_read_insn(s, s.pc)
    IN  /\ mode = "block"
        /\ get_pending_irq_mask(s) = {}
        /\ IF t.res = "ok"
           THEN Noted(t.s, FALSE) /\ Goto("insn") /\ UNCHANGED quantum
           ELSE Noted(Trap(t.s, FaultCause("x", t.res)).s, FALSE) /\ Goto("loop") /\ Ran

\* An instruction with the result r = [s, then].
Executed(r, wrote) ==
    /\ mode = "insn"
    /\ Noted(r.s, wrote)
    /\ Ran
    /\ Goto(r.then)

CsrInsn == \E k \in Insns : LET i == Guest.insns[k] IN i.op = "csr" /\ Executed(Csr(s, i), FALSE)
EcallInsn == \E k \in Insns : LET i == Guest.insns[k] IN i.op = "ecall" /\ Executed(Ecall(s), FALSE)
SretInsn == \E k \in Insns : LET i == Guest.insns[k] IN i.op = "sret" /\ Executed(Sret(s), FALSE)
MretInsn == \E k \in Insns : LET i == Guest.insns[k] IN i.op = "mret" /\ Executed(Mret(s), FALSE)
WfiInsn == \E k \in Insns : LET i == Guest.insns[k] IN i.op = "wfi" /\ Executed(Wfi(s), FALSE)
SfenceInsn == \E k \in Insns : LET i == Guest.insns[k] IN i.op = "sfence" /\ Executed(SfenceVma(s), FALSE)
JumpInsn == \E k \in Insns : LET i == Guest.insns[k] IN i.op = "jump" /\ Executed(Jumped(s, i.v), FALSE)
CboInsn == \E k \in Insns : LET i == Guest.insns[k] IN i.op = "cbo" /\ Executed(Cbo(s, i), Cbo(s, i).s.mem # s.mem)

\* A store conditional without its reservation.
ScFailInsn ==
    \E k \in Insns :
        LET i == Guest.insns[k]
            t == target_write_check(s, i.v)
        IN  /\ i.op = "scfail"
            /\ Executed(IF t.res = "ok" THEN Proceed(t.s) ELSE Trap(t.s, FaultCause("w", t.res)), FALSE)

\* Reading a device updates the interrupt lines and nothing else here.
LoadInsn ==
    \E k \in Insns :
        LET i == Guest.insns[k]
            t == target_read(s, i.v)
        IN  /\ i.op = "load"
            /\ Executed(CASE t.res = "ok" -> Proceed(t.s)
                          [] t.res = "io" -> Proceed(set_interrupts(t.s, interrupt_mask(bus, s.ticks)))
                          [] t.res \in {"page", "access"} -> Trap(t.s, FaultCause("r", t.res)), FALSE)

\* STORE_INSN: the slow path exits when the host was asked for something.
StoreInsn ==
    \E k \in Insns :
        LET i == Guest.insns[k]
            t == target_write(s, i.v, i.i, i.w)
            slow == ~TlbHit(s, "w", i.v)
            r == [s |-> t.s, then |-> IF slow /\ t.s.service THEN "loop" ELSE "insn"]
        IN  /\ i.op = "store"
            /\ t.res # "io"
            /\ IF t.res = "ok" THEN Executed(r, TRUE)
               ELSE Executed(Trap(t.s, FaultCause("w", t.res)), FALSE)
DeviceStoreInsn ==
    \E k \in Insns :
        LET i == Guest.insns[k]
            t == target_write(s, i.v, i.i, i.w)
            d == write_device(t.s, i.io)
        IN  /\ i.op = "store" /\ mode = "insn"
            /\ t.res = "io"
            /\ d.bus.reset => clock.faults < MaxFaults
            /\ Noted(d.s, FALSE) /\ bus' = d.bus /\ Ran
            /\ mode' = IF d.s.service THEN "loop" ELSE "insn"
            /\ clock' = [clock EXCEPT !.faults = @ + (IF d.bus.reset THEN 1 ELSE 0)]
            /\ UNCHANGED load

Instruction ==
    \/ CsrInsn \/ EcallInsn \/ SretInsn \/ MretInsn \/ WfiInsn \/ SfenceInsn \/ JumpInsn
    \/ CboInsn \/ ScFailInsn \/ LoadInsn \/ StoreInsn \/ DeviceStoreInsn

----------------------------------------------------------------------------
(* Quanta.                                                                 *)

guest_ticks(q) == q.start + ((q.consumed * GuestTickRate) \div CycleRate)

\* The first cycle whose guest tick is due, at least one cycle away.
\* Fault: the division rounds down and stops before the tick.
cycles_until_deadline_Floor(q, remaining) ==
    LET target == ((guest_ticks(q) - q.start + remaining) * CycleRate) \div GuestTickRate
    IN  Max({1, target - q.consumed})
cycles_until_deadline(q, remaining) ==
    LET offset == guest_ticks(q) - q.start + remaining
        target == (offset * CycleRate + GuestTickRate - 1) \div GuestTickRate
    IN  Max({1, target - q.consumed})

\* Fault: guest time starts from the host clock, which may have stepped back.
start_guest_ticks_HostTime == clock.wall * TicksPerMs
start_guest_ticks == Max({clock.wall * TicksPerMs, clock.floor})

Begin ==
    /\ mode = "host" /\ ~Running
    /\ clock.floor <= MaxWall * TicksPerMs
    /\ quantum' = [start |-> start_guest_ticks, consumed |-> 0, limit |-> 0, deadline |-> Never,
                   ran |-> FALSE, exhausted |-> FALSE, stalled |-> 0, term |-> "none", delay |-> 0]
    /\ UNCHANGED <<s, mode, bus, clock, load, stale, changed>>
\* The page's timer is due; or input made the page call earlier.
Wakeup == clock.wall >= clock.wake /\ Begin
EarlyWakeup == clock.wall < clock.wake /\ Begin

\* Fault: a request that was served stays and ends the next run at once.
RunCpu_KeepsRequest(t) == [t EXCEPT !.reprogrammed = FALSE]
RunCpu(t) == [t EXCEPT !.service = FALSE, !.reprogrammed = FALSE]

\* run_active_quantum up to the interpreter.
StartRun ==
    LET now == guest_ticks(quantum)
        t == present_guest_clocks(s, now)
        due == next_timer(t, bus, now)
        rest == Budget - quantum.consumed
        limit == IF due = Never THEN rest ELSE Min({rest, cycles_until_deadline(quantum, due - now)})
    IN  /\ mode = "host" /\ Running /\ quantum.term = "none" /\ rest > 0
        /\ Noted(RunCpu(t), FALSE)
        /\ quantum' = [quantum EXCEPT !.limit = limit, !.deadline = due, !.ran = FALSE,
                                      !.exhausted = FALSE]
        /\ mode' = "loop"
        /\ UNCHANGED <<bus, clock, load>>

\* The cycles that a run which is over may have taken.
Consumed ==
    (IF quantum.exhausted THEN quantum.limit ELSE IF quantum.ran THEN 1 ELSE 0)
    .. (IF quantum.ran THEN quantum.limit + Overshoot ELSE 0)
Reason ==
    CASE s.reprogrammed -> "reprogrammed"
      [] ~s.reprogrammed /\ s.service -> "service"
      [] ~s.reprogrammed /\ ~s.service /\ s.power_down -> "wfi"
      [] ~s.reprogrammed /\ ~s.service /\ ~s.power_down -> "limit"

Counted(n) == IF Guest.timers THEN n ELSE 0

\* machine.reset and the devices' reset; boot images are loaded again.
BusReset == [lines |-> {}, msip |-> FALSE, mtimecmp |-> Never, reset |-> FALSE]
HartReset(t) == [ResetHart(t.mem) EXCEPT !.ticks = t.ticks, !.dirty = t.dirty]

\* What a CPU run of n cycles leaves behind, and what the quantum makes of it.
EndRun(n) ==
    LET b == IF bus.reset THEN BusReset ELSE bus
        u == set_interrupts(IF bus.reset THEN HartReset(s) ELSE s, interrupt_mask(b, s.ticks))
        q == [quantum EXCEPT !.consumed = @ + Counted(n), !.stalled = IF n = 0 THEN @ + 1 ELSE 0]
        now == guest_ticks(q)
        t == IF Reason = "wfi" THEN present_guest_clocks(u, now) ELSE u
        due == next_timer(t, bus, now)
        asleep == Reason = "wfi" /\ t.power_down
        delay == IF due = Never THEN MaxWakeDelay ELSE Min({due - now, MaxWakeDelay})
        term == IF asleep THEN "wfi" ELSE IF q.consumed >= Budget THEN "budget" ELSE "none"
    IN  /\ Noted(t, FALSE)
        /\ bus' = b
        /\ mode' = IF q.stalled > 1 \/ (Reason = "limit" /\ n = 0) THEN "failed" ELSE "host"
        /\ quantum' = [q EXCEPT !.term = term, !.delay = IF asleep THEN delay ELSE 0]
        /\ UNCHANGED <<clock, load>>
RunEnds == mode = "exit" /\ \E n \in Consumed : EndRun(n)

CeilDiv(a, b) == (a + b - 1) \div b

finish_quantum ==
    LET floor == guest_ticks(quantum)
        due == floor + quantum.delay - clock.wall * TicksPerMs
        request == IF quantum.term = "wfi" /\ due > 0 THEN CeilDiv(due, TicksPerMs) ELSE 0
    IN  /\ mode = "host" /\ Running /\ quantum.term # "none"
        /\ clock' = [clock EXCEPT !.floor = floor, !.wake = clock.wall + request]
        /\ quantum' = NoQuantum
        /\ UNCHANGED <<s, mode, bus, load, stale, changed>>

abort_quantum ==
    /\ Guest.timers /\ mode = "host" /\ Running /\ clock.faults < MaxFaults
    /\ clock' = [clock EXCEPT !.floor = Max({@, guest_ticks(quantum)}), !.wake = clock.wall,
                              !.faults = @ + 1]
    /\ quantum' = NoQuantum
    /\ UNCHANGED <<s, mode, bus, load, stale, changed>>

----------------------------------------------------------------------------
(* The world: the host clock, devices, and the host's reads of RAM.        *)

Tick ==
    /\ Guest.timers /\ clock.wall < MaxWall
    /\ clock' = [clock EXCEPT !.wall = @ + 1]
    /\ UNCHANGED <<s, mode, bus, quantum, load, stale, changed>>
StepBack ==
    /\ Guest.timers /\ clock.wall > 0 /\ clock.faults < MaxFaults
    /\ clock' = [clock EXCEPT !.wall = @ - 1, !.faults = @ + 1]
    /\ UNCHANGED <<s, mode, bus, quantum, load, stale, changed>>
DeviceLines ==
    /\ mode = "host"
    /\ \E lines \in SUBSET Guest.irqs :
          lines # bus.lines /\ bus' = [bus EXCEPT !.lines = lines]
    /\ UNCHANGED <<s, mode, clock, quantum, load, stale, changed>>
TakeDirty ==
    /\ mode = "host" /\ Guest.dma # {}
    /\ s' = take_dirty(s) /\ changed' = {} /\ stale' = (stale /\ s'.tlb # tlb_init)
    /\ UNCHANGED <<mode, bus, clock, quantum, load>>
ClearDirty ==
    /\ mode = "host" /\ Guest.dma # {}
    /\ \E f \in Tracked :
          /\ s' = clear_dirty(s, f) /\ changed' = changed \ {f}
          /\ stale' = (stale /\ s'.tlb # tlb_init)
    /\ UNCHANGED <<mode, bus, clock, quantum, load>>
HostWrite ==
    /\ mode = "host"
    /\ \E d \in Guest.dma : Noted(host_write(s, d.frame, d.i, d.w), TRUE)
    /\ UNCHANGED <<mode, bus, clock, quantum, load>>

Interpreter == LeaveLoop \/ CyclesSpent \/ EnterInterp \/ TakeInterrupt \/ FetchBlock \/ Instruction
Runtime == Wakeup \/ EarlyWakeup \/ StartRun \/ RunEnds \/ finish_quantum \/ abort_quantum
World == Tick \/ StepBack \/ DeviceLines \/ TakeDirty \/ ClearDirty \/ HostWrite
Next == Interpreter \/ Runtime \/ World

Spec == Init /\ [][Next]_vars

\* The page runs its callbacks and its timers fire; time goes on.  Nothing is
\* assumed of the guest's instructions, of input or of the devices.
FairSpec ==
    /\ Spec
    /\ WF_vars(Wakeup) /\ WF_vars(StartRun) /\ WF_vars(LeaveLoop) /\ WF_vars(RunEnds)
    /\ WF_vars(finish_quantum) /\ WF_vars(Tick)

----------------------------------------------------------------------------
(* Properties.                                                             *)

\* A cached translation is the one that the page tables and the present
\* registers give, for code always and for data while MPRV is off, unless a
\* page table was stored to and not yet fenced; and MPRV is on in M mode only.
\* (set_priv, set_mstatus, csr_write of satp and menvcfg, tlb_flush_all)
TlbCurrent ==
    /\ "MPRV" \in s.flags => s.priv = PRV_M
    /\ ~stale =>
        \A t \in Tlbs, i \in 0 .. TlbSize - 1 :
            LET e == s.tlb[t][i]
                walk == get_phys_addr(s, e.v, t)
            IN  e # NoEntry /\ (t = "x" \/ "MPRV" \notin s.flags) =>
                    walk.res = "ok" /\ walk.frame = e.frame

\* Every tracked frame that changed since the host took the dirty bits is
\* marked, although a store that hits the TLB does not mark it.
\* (target_write_slow, phys_write_pte, default_get_dirty_bits)
DirtyTracked == changed \subseteq s.dirty

\* What belongs to a mode.
MachineState(t) ==
    <<t.flags \ SstatusFlags, t.mpp, t.mie \ t.mideleg, t.mideleg, t.medeleg, t.mtvec, t.mepc,
      t.menvcfg, t.mcounteren, t.pmp>>
SupervisorState(t) ==
    <<t.flags, t.mie, t.satp, t.stvec, t.sepc, t.scounteren, t.senvcfg, t.stimecmp>>

\* An instruction that does not trap changes nothing that belongs to a more
\* privileged mode; the supervisor changes its timer and its page table only
\* with the machine's leave; a locked memory protection entry, and the bound
\* below it, change in a reset only.  (csr_read, csr_write, set_pmpaddr)
Confined ==
    [][/\ mode = "insn" /\ s.priv < PRV_M /\ s'.priv < PRV_M => MachineState(s') = MachineState(s)
       /\ mode = "insn" /\ s.priv = PRV_U /\ s'.priv = PRV_U => SupervisorState(s') = SupervisorState(s)
       /\ mode = "insn" /\ s.priv = PRV_S =>
            /\ s'.stimecmp # s.stimecmp => "STCE" \in s.menvcfg /\ 1 \in s.mcounteren
            /\ s'.satp # s.satp => "TVM" \notin s.flags
       /\ mode # "exit" =>
            \A e \in PmpEntries :
                /\ s.pmp[e].lock => s'.pmp[e] = s.pmp[e]
                /\ s.pmp[e].lock /\ s.pmp[e].a = "tor" /\ e - 1 \in PmpEntries =>
                       s'.pmp[e - 1].addr = s.pmp[e - 1].addr]_vars

\* While the guest runs, the deadline that limits the run is the next one of
\* its timers, and the limit ends at the first cycle that reaches it.
\* (run_active_quantum, cycles_until_deadline, csr_write of stimecmp)
RunsToDeadline ==
    mode \in {"block", "insn"} /\ ~s.service =>
        /\ quantum.deadline = next_timer(s, bus, s.ticks)
        /\ quantum.limit < Budget - quantum.consumed =>
            LET at(n) == guest_ticks([quantum EXCEPT !.consumed = @ + n])
            IN  /\ at(quantum.limit) >= quantum.deadline
                /\ quantum.limit > 1 => at(quantum.limit - 1) < quantum.deadline

\* The guest never sees its clock go back, whatever the host's clock does,
\* across quanta, aborted quanta and reboots.  (begin_quantum, finish_quantum)
GuestTimeMonotone == [][s'.ticks >= s.ticks]_vars

\* The runtime's "CPU made no progress" error cannot occur: two runs in a row
\* never end without a cycle.  (run_active_quantum, run_cpu, set_interrupts)
NeverStalled == mode # "failed"

\* A run is as long as it may be: it ends at the next deadline, and always
\* makes progress towards it.  (run_active_quantum)
DeadlineKept == RunsToDeadline /\ NeverStalled

\* A hart that sleeps with an armed and selected timer is woken by it: the
\* wakeup asked of the page comes no later than needed.  (finish_quantum)
SleeperWakes ==
    s.power_down /\ \/ MIP_STIP \in s.mie /\ "STCE" \in s.menvcfg /\ s.stimecmp # Never
                    \/ MIP_MTIP \in s.mie /\ bus.mtimecmp # Never
      ~> ~s.power_down
=============================================================================
