------------------------------- MODULE MCHart ------------------------------
(***************************************************************************)
(* Guests for HartRuntime: RAM of four frames with a two-level page table. *)
(* Frame 0 is code, 1 the root table, 2 the second table, 3 is tracked.    *)
(* Pages 0 and 1 are the user's, 2 and 3 one large page of the supervisor, *)
(* which shows it the second table (page 2) and the tracked frame (3).     *)
(***************************************************************************)
EXTENDS HartRuntime

Pte(xwr, u, ad, ppn) ==
    [ZeroWord EXCEPT !.V = TRUE, !.xwr = xwr, !.U = u, !.A = ad, !.D = ad, !.ppn = ppn]
UserCode == Pte({"r", "x"}, TRUE, TRUE, 0)
UserData == Pte({"r", "w"}, TRUE, FALSE, 3)
UserOther == Pte({"x"}, TRUE, TRUE, 0)
Contiguous == [Pte({"r", "w"}, TRUE, TRUE, 3) EXCEPT !.N = TRUE]

MCMem == [f \in Frames |->
            CASE f = 1 -> [i \in 0 .. Span - 1 |->
                            IF i = 0 THEN Pte({}, FALSE, FALSE, 2) ELSE Pte({"r", "w", "x"}, FALSE, TRUE, 2)]
              [] f = 2 -> [i \in 0 .. Span - 1 |-> IF i = 0 THEN UserCode ELSE UserData]
              [] f \notin {1, 2} -> [i \in 0 .. Span - 1 |-> ZeroWord]]

\* Firmware has delegated everything but its own calls.
Booted ==
    [ResetHart(MCMem) EXCEPT !.medeleg = Causes \ {"ecall1", "ecall3"}, !.mideleg = DelegableIrqs,
                             !.stvec = 2, !.mtvec = 0, !.mepc = 2, !.menvcfg = {"ADUE"}, !.mpp = PRV_S]
Sv39 == [mode |-> "sv39", ppn |-> 1]
Kernel == [Booted EXCEPT !.priv = PRV_S, !.pc = 2, !.satp = Sv39, !.mpp = PRV_U]

Plain(op) == [op |-> op]
Write(csr, val) == [op |-> "csr", csr |-> csr, write |-> TRUE, val |-> val]
Read(csr) == [op |-> "csr", csr |-> csr, write |-> FALSE, val |-> 0]
LoadFrom(v) == [op |-> "load", v |-> v]
NoIo == [reg |-> "notify", val |-> FALSE]
StoreTo(v, i, w) == [op |-> "store", v |-> v, i |-> i, w |-> w, io |-> NoIo]
StoreIo(v, reg, val) == [op |-> "store", v |-> v, i |-> 0, w |-> ZeroWord, io |-> [reg |-> reg, val |-> val]]
Jump(v) == [op |-> "jump", v |-> v]
Cache(kind, v) == [op |-> "cbo", kind |-> kind, v |-> v, i |-> 0]
Status(flags, mpp) == [flags |-> flags, mpp |-> mpp]

\* The supervisor and its user share pages, edit a page table, fence or not.
Paging ==
    [start |-> [Kernel EXCEPT !.medeleg = Causes], timers |-> FALSE, irqs |-> {}, dma |-> {},
     insns |-> <<Plain("ecall"), Plain("sret"), Plain("sfence"), LoadFrom(0), LoadFrom(1), LoadFrom(4),
                Jump(0), StoreTo(1, 0, UserCode), StoreTo(2, 1, UserOther), StoreTo(2, 1, Contiguous),
                Write("satp", Sv39), Write("sstatus", Status({}, 0)), Write("sstatus", Status({"SUM"}, 0)),
                Write("sstatus", Status({"SUM", "MXR"}, 0))>>]

\* The machine mode accesses memory for others, and changes what a walk means.
Mprv ==
    [start |-> [Booted EXCEPT !.satp = Sv39], timers |-> FALSE, irqs |-> {}, dma |-> {},
     insns |-> <<Plain("ecall"), Plain("mret"), LoadFrom(1), StoreTo(1, 0, UserCode),
                Write("menvcfg", {}), Write("menvcfg", {"ADUE"}),
                Write("mstatus", Status({}, PRV_S)), Write("mstatus", Status({"MPRV"}, PRV_U)),
                Write("mstatus", Status({"MPRV"}, PRV_S)), Write("mstatus", Status({"MPRV", "SUM"}, PRV_S)),
                Write("mstatus", Status({"MPRV"}, PRV_M)), Write("mstatus", Status({"TVM"}, PRV_S)),
                Write("satp", Sv39)>>]

\* The framebuffer is drawn through the TLB while the host takes its bits.
Drawing ==
    [start |-> [Kernel EXCEPT !.flags = {"SUM"}, !.menvcfg = {"ADUE", "CBZE"}, !.senvcfg = {"CBZE"}],
     timers |-> FALSE, irqs |-> {}, dma |-> {[frame |-> 3, i |-> 1, w |-> UserOther]},
     insns |-> <<StoreTo(1, 0, UserCode), StoreTo(3, 0, ZeroWord), StoreTo(3, 1, ZeroWord), LoadFrom(1),
                Cache("CBZE", 3), Cache("CBIE", 3), [op |-> "scfail", v |-> 1],
                StoreIo(4, "notify", TRUE), Plain("sfence"),
                Write("satp", Sv39), Write("satp", [mode |-> "bare", ppn |-> 1]),
                Write("satp", [mode |-> "sv39", ppn |-> 3])>>]

\* Interrupts of both modes, masked and delegated in several ways.
Interrupts ==
    [start |-> [Booted EXCEPT !.mepc = 0, !.stvec = 0], timers |-> FALSE,
     irqs |-> {MIP_SEIP}, dma |-> {},
     insns |-> <<Plain("ecall"), Plain("sret"), Plain("mret"), Plain("wfi"), StoreIo(4, "msip", TRUE),
                LoadFrom(4), Write("sip", {MIP_SSIP, MIP_MSIP}), Write("sie", Irqs), Write("mie", {MIP_MSIP, MIP_MEIP}),
                Write("sstatus", Status({"SIE"}, PRV_M)), Write("mstatus", Status({"MIE"}, PRV_S))>>]

\* Timers of the supervisor and of the machine, and sleeping until they fire.
Timers ==
    [start |-> [Booted EXCEPT !.mepc = 0, !.stvec = 0, !.priv = PRV_S, !.mie = {MIP_STIP, MIP_MTIP},
                              !.menvcfg = {"STCE"}, !.mcounteren = {1}],
     timers |-> TRUE, irqs |-> {}, dma |-> {},
     insns |-> <<Plain("wfi"), Plain("mret"), Write("stimecmp", 3), StoreIo(4, "mtimecmp", 4), StoreIo(4, "finisher", TRUE),
                Write("menvcfg", {})>>]

\* What the machine may trap of the supervisor.
Trapping ==
    [start |-> [Booted EXCEPT !.mepc = 0, !.stvec = 0], timers |-> FALSE, irqs |-> {}, dma |-> {},
     insns |-> <<Plain("mret"), Plain("ecall"), Plain("sret"), Plain("wfi"), Write("mideleg", {MIP_SSIP}),
                Write("mie", {MIP_STIP}), Write("stimecmp", 3), Write("satp", [mode |-> "bare", ppn |-> 1]),
                Write("mstatus", Status({"TW", "TSR", "TVM"}, PRV_S)), Write("mip", {MIP_STIP})>>]

\* The second of two entries is locked or not.
Entries(lock, a, rwx) == [e \in PmpEntries |-> [lock |-> lock /\ e = 1, a |-> a, rwx |-> rwx]]

\* Memory protection entries and their locks, and the counters.
Protection ==
    [start |-> [Booted EXCEPT !.mepc = 0, !.stvec = 0, !.scounteren = {0, 2}], timers |-> FALSE,
     irqs |-> {}, dma |-> {},
     insns |-> <<Write("pmpaddr", [entry |-> 0, addr |-> 1]), Write("pmpaddr", [entry |-> 0, addr |-> 2]),
                Write("pmpaddr", [entry |-> 1, addr |-> 1]), Write("pmpcfg", Entries(FALSE, "tor", {"W"})),
                Write("pmpcfg", Entries(TRUE, "tor", {"R", "X"})),
                Write("pmpcfg", Entries(TRUE, "napot", {"R", "W"})),
                Plain("mret"), Plain("ecall"), Read("cycle"), Read("time"), Read("mhartid"),
                Write("mcounteren", {0}), Write("senvcfg", {"CBZE"}), Write("mtvec", 0)>>]

MCWorkloads == <<Paging, Mprv, Drawing, Interrupts, Timers, Trapping, Protection>>
=============================================================================
