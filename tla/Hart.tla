-------------------------------- MODULE Hart -------------------------------
(***************************************************************************)
(* The privileged side of the CPU core: modes, traps and returns, the      *)
(* control and status registers that change what the machine does,         *)
(* interrupts, WFI and the supervisor timer (riscv_cpu.c, the SYSTEM       *)
(* opcode of riscv_cpu_template.h, bridge.c).                              *)
(*                                                                         *)
(* Operators take the hart's record s and return the record after the      *)
(* call; HartRuntime has the actions.  mstatus is the set of its flags     *)
(* with MPP apart, an interrupt mask a set of numbers.  Values of general  *)
(* registers are left out: an instruction is a record with its operands.   *)
(***************************************************************************)
EXTENDS Mmu, FiniteSetsExt

CONSTANTS Never,        \* a timer that is off (UINT64_MAX)
          PmpEntries    \* numbers of the memory protection entries (16)

ASSUME HartAssumption == Never \notin Nat /\ PmpEntries \subseteq Nat

MIP_SSIP == 1
MIP_MSIP == 3
MIP_STIP == 5
MIP_MTIP == 7
MIP_SEIP == 9
MIP_MEIP == 11
Irqs == {MIP_SSIP, MIP_MSIP, MIP_STIP, MIP_MTIP, MIP_SEIP, MIP_MEIP}
DelegableIrqs == {MIP_SSIP, MIP_STIP, MIP_SEIP}
ExternalIrqs == {MIP_MSIP, MIP_MTIP, MIP_MEIP, MIP_SEIP}

\* Exceptions by what raised them.
Causes == {"illegal", "breakpoint", "ecall0", "ecall1", "ecall3",
           "r-page", "w-page", "x-page", "r-access", "w-access", "x-access"}
EcallOf(p) == CASE p = PRV_U -> "ecall0" [] p = PRV_S -> "ecall1" [] p = PRV_M -> "ecall3"
FaultCause(access, res) ==
    CASE access = "r" -> IF res = "page" THEN "r-page" ELSE "r-access"
      [] access = "w" -> IF res = "page" THEN "w-page" ELSE "w-access"
      [] access = "x" -> IF res = "page" THEN "x-page" ELSE "x-access"

SstatusFlags == {"UIE", "SIE", "SPIE", "SPP", "SUM", "MXR"}
MstatusFlags == SstatusFlags \union {"MIE", "MPIE", "MPRV", "TVM", "TW", "TSR"}
EnvcfgCbo == {"CBIE", "CBCFE", "CBZE"}
PmpModes == {"off", "tor", "na4", "napot"}
MenvcfgFlags == EnvcfgCbo \union {"ADUE", "PBMTE", "STCE"}

\* The states of a hart with its RAM.
Harts ==
    [pc : Nat, priv : PRV_U .. PRV_M, flags : SUBSET MstatusFlags, mpp : PRV_U .. PRV_M,
     mie : SUBSET Irqs, mip : SUBSET Irqs, mideleg : SUBSET DelegableIrqs, medeleg : SUBSET Causes,
     mtvec : Nat, stvec : Nat, mepc : Nat, sepc : Nat,
     satp : [mode : {"bare", "sv39"}, ppn : Nat],
     menvcfg : SUBSET MenvcfgFlags, senvcfg : SUBSET EnvcfgCbo,
     mcounteren : SUBSET (0 .. 2), scounteren : SUBSET (0 .. 2), stimecmp : Nat \union {Never},
     pmp : [PmpEntries -> [lock : BOOLEAN, a : PmpModes, rwx : SUBSET {"R", "W", "X"}, addr : Nat]],
     power_down : BOOLEAN, service : BOOLEAN, reprogrammed : BOOLEAN, ticks : Nat,
     tlb : [Tlbs -> [0 .. TlbSize - 1 -> TlbEntries]], mem : [Frames -> [0 .. Span - 1 -> Words]],
     dirty : SUBSET Tracked]

\* riscv_cpu_init, with the RAM as it is.
ResetHart(mem) ==
    [pc |-> 0, priv |-> PRV_M, flags |-> {}, mpp |-> PRV_U, mie |-> {}, mip |-> {}, mideleg |-> {},
     medeleg |-> {}, mtvec |-> 0, stvec |-> 0, mepc |-> 0, sepc |-> 0,
     satp |-> [mode |-> "bare", ppn |-> 0], menvcfg |-> {}, senvcfg |-> {}, mcounteren |-> {},
     scounteren |-> {}, stimecmp |-> Never,
     pmp |-> [e \in PmpEntries |-> [lock |-> FALSE, a |-> "off", rwx |-> {}, addr |-> 0]],
     power_down |-> FALSE, service |-> FALSE, reprogrammed |-> FALSE, ticks |-> 0,
     tlb |-> tlb_init, mem |-> mem, dirty |-> {}]

----------------------------------------------------------------------------
(* Modes, traps and returns.                                               *)

Flag(s, f, on) == [s EXCEPT !.flags = IF on THEN @ \union {f} ELSE @ \ {f}]

set_priv(s, p) == IF s.priv # p THEN [tlb_flush_all(s) EXCEPT !.priv = p] ELSE s

\* The enable bit of a mode, which is bit priv of mstatus.
EnableOf(p) == CASE p = PRV_U -> "UIE" [] p = PRV_S -> "SIE" [] p = PRV_M -> "MIE"

\* raise_exception2 for a cause that is delegated to the supervisor or not.
raise_exception(s, delegated) ==
    LET deleg == s.priv <= PRV_S /\ delegated
        was == EnableOf(s.priv) \in s.flags
    IN  IF deleg
        THEN [set_priv(Flag(Flag(Flag(s, "SPIE", was), "SPP", s.priv = PRV_S), "SIE", FALSE), PRV_S)
              EXCEPT !.sepc = s.pc, !.pc = s.stvec]
        ELSE [set_priv([Flag(Flag(s, "MPIE", was), "MIE", FALSE) EXCEPT !.mpp = s.priv], PRV_M)
              EXCEPT !.mepc = s.pc, !.pc = s.mtvec]

handle_sret(s) ==
    LET back == IF "SPP" \in s.flags THEN PRV_S ELSE PRV_U
        t == Flag(Flag(Flag(Flag(s, "SIE", "SPIE" \in s.flags), "SPIE", TRUE), "SPP", FALSE),
                  "MPRV", FALSE)
    IN  [set_priv(t, back) EXCEPT !.pc = s.sepc]

handle_mret(s) ==
    LET t == Flag(Flag(s, "MIE", "MPIE" \in s.flags), "MPIE", TRUE)
        u == IF s.mpp < PRV_M THEN Flag(t, "MPRV", FALSE) ELSE t
    IN  [set_priv([u EXCEPT !.mpp = PRV_U], s.mpp) EXCEPT !.pc = s.mepc]

----------------------------------------------------------------------------
(* Interrupts and the supervisor timer.                                    *)

EnabledIrqs(s) ==
    CASE s.priv = PRV_M -> IF "MIE" \in s.flags THEN Irqs \ s.mideleg ELSE {}
      [] s.priv = PRV_S -> IF "SIE" \in s.flags THEN Irqs ELSE Irqs \ s.mideleg
      [] s.priv = PRV_U -> Irqs
get_pending_irq_mask(s) == s.mip \intersect s.mie \intersect EnabledIrqs(s)
raise_interrupt(s) == raise_exception(s, Min(get_pending_irq_mask(s)) \in s.mideleg)

\* An interrupt that mie selects ends a sleep, enabled by mstatus or not.
Woken(s) == IF s.mip \intersect s.mie # {} THEN [s EXCEPT !.power_down = FALSE] ELSE s
set_mip(s, mask) == Woken([s EXCEPT !.mip = @ \union mask])
set_interrupts(s, mask) ==
    set_mip([s EXCEPT !.mip = @ \ ExternalIrqs], mask \intersect ExternalIrqs)

\* Fault: the timer becomes pending without ending the sleep.
riscv_cpu_update_time_NoWake(s, time) ==
    IF "STCE" \notin s.menvcfg THEN s
    ELSE [s EXCEPT !.mip = IF s.stimecmp # Never /\ time >= s.stimecmp
                           THEN @ \union {MIP_STIP} ELSE @ \ {MIP_STIP}]
riscv_cpu_update_time(s, time) ==
    IF "STCE" \notin s.menvcfg THEN s
    ELSE IF s.stimecmp # Never /\ time >= s.stimecmp THEN set_mip(s, {MIP_STIP})
    ELSE [s EXCEPT !.mip = @ \ {MIP_STIP}]
update_stimecmp_irq(s) == riscv_cpu_update_time(s, s.ticks)
set_guest_timer_ticks(s, time) == riscv_cpu_update_time([s EXCEPT !.ticks = time], time)

\* What the host may wait for.
stimecmp(s) == IF MIP_STIP \in s.mip \/ "STCE" \notin s.menvcfg THEN Never ELSE s.stimecmp

----------------------------------------------------------------------------
(* Control and status registers.  A write is [s, then], where then says    *)
(* whether the block goes on, a new one starts or the interpreter exits.   *)

Proceed(s) == [s |-> s, then |-> "insn"]
FlushTlb(s) == [s |-> tlb_flush_all(s), then |-> "block"]
Interrupt(s) == [s |-> s, then |-> "loop"]

\* Fault: a change of SUM or MXR leaves what was cached under the old one.
set_mstatus_OnlyMprv(s, val) ==
    LET changed == (s.flags \ val.flags) \union (val.flags \ s.flags)
        t == IF "MPRV" \in changed THEN tlb_flush_all(s) ELSE s
    IN  [t EXCEPT !.flags = val.flags, !.mpp = val.mpp]
set_mstatus(s, val) ==
    LET changed == (s.flags \ val.flags) \union (val.flags \ s.flags)
        t == IF changed \intersect {"MPRV", "SUM", "MXR"} # {}
                \/ ("MPRV" \in s.flags /\ val.mpp # s.mpp)
             THEN tlb_flush_all(s) ELSE s
    IN  [t EXCEPT !.flags = val.flags, !.mpp = val.mpp]

\* Enabling a mode's interrupts stops the block when one is waiting.
WriteStatus(s, val, enable, irqs) ==
    LET t == set_mstatus(s, val)
    IN  IF enable \notin s.flags /\ enable \in t.flags /\ s.mip \intersect s.mie \intersect irqs # {}
        THEN Interrupt(t) ELSE Proceed(t)

\* Locked entries ignore a write; W without R is dropped.
Legal(cfg) == [cfg EXCEPT !.rwx = IF "W" \in @ /\ "R" \notin @ THEN @ \ {"W"} ELSE @]
set_pmpcfg(s, cfgs) ==
    [s EXCEPT !.pmp = [e \in PmpEntries |->
        IF @[e].lock THEN @[e]
        ELSE LET c == Legal(cfgs[e]) IN [@[e] EXCEPT !.lock = c.lock, !.a = c.a, !.rwx = c.rwx]]]

\* The address below a locked range of the TOR kind is locked with it.
\* Fault: only the entry's own lock is asked.
set_pmpaddr_OwnLock(s, e, addr) == IF s.pmp[e].lock THEN s ELSE [s EXCEPT !.pmp[e].addr = addr]
set_pmpaddr(s, e, addr) ==
    IF s.pmp[e].lock \/ (e + 1 \in PmpEntries /\ s.pmp[e + 1].lock /\ s.pmp[e + 1].a = "tor")
    THEN s ELSE [s EXCEPT !.pmp[e].addr = addr]

WritePmp(s, t) == IF t.pmp = s.pmp THEN Proceed(s) ELSE FlushTlb(t)

CsrPriv(csr) ==
    CASE csr \in {"time", "cycle", "instret"} -> PRV_U
      [] csr \in {"sstatus", "sie", "sip", "stvec", "sepc", "scounteren", "senvcfg", "stimecmp",
                  "satp"} -> PRV_S
      [] csr \in {"mstatus", "mie", "mip", "mtvec", "mepc", "medeleg", "mideleg", "mcounteren",
                  "menvcfg", "pmpcfg", "pmpaddr", "mhartid"} -> PRV_M
ReadOnlyCsrs == {"time", "cycle", "instret", "mhartid"}
CounterOf(csr) == CASE csr = "cycle" -> 0 [] csr = "time" -> 1 [] csr = "instret" -> 2

counter_access_enabled(s, c) ==
    s.priv = PRV_M \/ (c \in s.mcounteren /\ (s.priv = PRV_U => c \in s.scounteren))

\* The checks of csr_read, which every access makes first.
CsrAllowed(s, csr, write) ==
    /\ write => csr \notin ReadOnlyCsrs
    /\ s.priv >= CsrPriv(csr)
    /\ csr = "satp" => ~(s.priv = PRV_S /\ "TVM" \in s.flags)
    /\ csr = "stimecmp" => s.priv = PRV_M \/ ("STCE" \in s.menvcfg /\ 1 \in s.mcounteren)
    /\ csr \in {"time", "cycle", "instret"} => counter_access_enabled(s, CounterOf(csr))

\* With Sstc the timer owns its pending bit.
TimerOwnedIp(s) == IF "STCE" \in s.menvcfg THEN {MIP_STIP} ELSE {}
Masked(old, val, mask) == (old \ mask) \union (val \intersect mask)

\* Writing menvcfg: the timer may start or stop, the walk may change.
WriteMenvcfg(s, val) ==
    LET t == [s EXCEPT !.menvcfg = val]
        changed == (s.menvcfg \ val) \union (val \ s.menvcfg)
        u == IF "STCE" \in val THEN update_stimecmp_irq(t) ELSE [t EXCEPT !.mip = @ \ {MIP_STIP}]
        r == IF "STCE" \in changed THEN [u EXCEPT !.service = TRUE, !.reprogrammed = TRUE] ELSE u
    IN  IF changed = {} THEN Proceed(s)
        ELSE IF changed \intersect {"ADUE", "PBMTE"} # {} THEN FlushTlb(r)
        ELSE Interrupt(r)

WriteStimecmp(s, val) ==
    Interrupt([update_stimecmp_irq([s EXCEPT !.stimecmp = val])
               EXCEPT !.service = TRUE, !.reprogrammed = TRUE])

\* The registers that only hold what was written, within a mask.
Keep(s, csr, val) ==
    CASE csr = "stvec" -> [s EXCEPT !.stvec = val]
      [] csr = "mtvec" -> [s EXCEPT !.mtvec = val]
      [] csr = "sepc" -> [s EXCEPT !.sepc = val]
      [] csr = "mepc" -> [s EXCEPT !.mepc = val]
      [] csr = "scounteren" -> [s EXCEPT !.scounteren = val \intersect (0 .. 2)]
      [] csr = "mcounteren" -> [s EXCEPT !.mcounteren = val \intersect (0 .. 2)]
      [] csr = "senvcfg" -> [s EXCEPT !.senvcfg = val \intersect EnvcfgCbo]
      [] csr = "medeleg" -> [s EXCEPT !.medeleg = val \intersect Causes]
      [] csr = "mideleg" -> [s EXCEPT !.mideleg = val \intersect DelegableIrqs]
      [] csr = "mie" -> [s EXCEPT !.mie = Masked(@, val, Irqs \ {MIP_MEIP})]
      [] csr = "sie" -> [s EXCEPT !.mie = Masked(@, val, s.mideleg)]
      [] csr = "mip" -> [s EXCEPT !.mip = Masked(@, val, {MIP_SSIP, MIP_STIP} \ TimerOwnedIp(s))]
      [] csr = "sip" -> [s EXCEPT !.mip = Masked(@, val, s.mideleg \ TimerOwnedIp(s))]

csr_write(s, csr, val) ==
    CASE csr = "sstatus" ->
           WriteStatus(s, [flags |-> Masked(s.flags, val.flags, SstatusFlags), mpp |-> s.mpp], "SIE",
                       s.mideleg)
      [] csr = "mstatus" -> WriteStatus(s, val, "MIE", Irqs \ s.mideleg)
      [] csr = "stimecmp" -> WriteStimecmp(s, val)
      [] csr = "satp" ->
           FlushTlb([s EXCEPT !.satp = [mode |-> IF val.mode \in {"bare", "sv39"} THEN val.mode ELSE @.mode,
                                        ppn |-> val.ppn]])
      [] csr = "menvcfg" -> WriteMenvcfg(s, val \intersect MenvcfgFlags)
      [] csr = "pmpcfg" -> WritePmp(s, set_pmpcfg(s, val))
      [] csr = "pmpaddr" -> WritePmp(s, set_pmpaddr(s, val.entry, val.addr))
      [] csr \in {"stvec", "mtvec", "sepc", "mepc", "scounteren", "mcounteren", "senvcfg", "medeleg",
                  "mideleg", "mie", "sie", "mip", "sip"} -> Proceed(Keep(s, csr, val))

----------------------------------------------------------------------------
(* Instructions: [s, then] as above.  A trap leaves the interpreter's      *)
(* block, and the loop starts again at the handler.                        *)

Trap(s, cause) == [s |-> raise_exception(s, cause \in s.medeleg), then |-> "loop"]
Illegal(s) == Trap(s, "illegal")
Jumped(s, pc) == [s |-> [s EXCEPT !.pc = pc], then |-> "block"]

Csr(s, i) ==
    IF ~CsrAllowed(s, i.csr, i.write) THEN Illegal(s)
    ELSE IF i.write THEN csr_write(s, i.csr, i.val) ELSE Proceed(s)

Ecall(s) == Trap(s, EcallOf(s.priv))
Sret(s) ==
    IF s.priv < PRV_S \/ (s.priv = PRV_S /\ "TSR" \in s.flags) THEN Illegal(s)
    ELSE Interrupt(handle_sret(s))
Mret(s) == IF s.priv < PRV_M THEN Illegal(s) ELSE Interrupt(handle_mret(s))

Wfi(s) ==
    IF s.priv = PRV_U \/ (s.priv < PRV_M /\ "TW" \in s.flags) THEN Illegal(s)
    ELSE IF s.mip \intersect s.mie = {} THEN Interrupt([s EXCEPT !.power_down = TRUE])
    ELSE Proceed(s)

SfenceVma(s) ==
    IF s.priv = PRV_U \/ (s.priv = PRV_S /\ "TVM" \in s.flags) THEN Illegal(s)
    ELSE FlushTlb(s)

\* Below M mode menvcfg, and in U mode senvcfg too, must allow the operation.
Cbo(s, i) ==
    LET t == CacheBlock(s, i.v, i.i, i.kind = "CBZE")
    IN  IF \/ s.priv # PRV_M /\ i.kind \notin s.menvcfg
           \/ s.priv = PRV_U /\ i.kind \notin s.senvcfg
        THEN Illegal(s)
        ELSE IF t.res = "ok" THEN Proceed(t.s)
        ELSE Trap(t.s, FaultCause("w", t.res))
=============================================================================
