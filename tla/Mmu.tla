-------------------------------- MODULE Mmu --------------------------------
(***************************************************************************)
(* Address translation of riscv_cpu.c: the Sv39 walk, the three software   *)
(* TLBs, and RAM with the dirty bits that the host reads (iomem.c).        *)
(*                                                                         *)
(* Addresses are page numbers.  A hart is one record s, as the C code has  *)
(* one struct; the operators return the record after the call.  RAM is a   *)
(* set of frames of Span words, and every word can be read as a page table *)
(* entry, so that a store may change a page table.                         *)
(***************************************************************************)
EXTENDS Integers, FiniteSets

CONSTANTS Levels,      \* levels of a page table (3 in Sv39)
          Span,        \* entries of a table (512 in Sv39)
          NapotSpan,   \* pages of a contiguous mapping (16 in Svnapot)
          TlbSize,     \* entries of a TLB (256)
          Frames,      \* RAM, as frame numbers
          Rom,         \* the frames of Frames that are read-only
          Tracked,     \* the frames with dirty bits (the framebuffer)
          DevFrame     \* the frame of the device registers

ASSUME MmuAssumption ==
    /\ Levels \in Nat \ {0} /\ Span \in Nat \ {0} /\ TlbSize \in Nat \ {0}
    /\ NapotSpan \in {2^n : n \in 1 .. 9}
    /\ Frames \subseteq Nat /\ Rom \subseteq Frames /\ Tracked \subseteq Frames
    /\ DevFrame \in Nat \ Frames

PRV_U == 0
PRV_S == 1
PRV_M == 3

\* The kinds of access; an entry's xwr lists the ones it permits.
Access == {"r", "w", "x"}

NoEntry == [v |-> -1, frame |-> -1]
TlbEntries == [v : Nat, frame : Frames] \union {NoEntry}
Tlbs == {"r", "w", "x"}
tlb_init == [t \in Tlbs |-> [i \in 0 .. TlbSize - 1 |-> NoEntry]]

\* A word of RAM, read as a page table entry.
Words == [V : BOOLEAN, xwr : SUBSET Access, U : BOOLEAN, A : BOOLEAN, D : BOOLEAN, ppn : Nat,
          pbmt : 0 .. 3, N : BOOLEAN, rsv : BOOLEAN]

\* A word of zeroes, which is also an entry that is not valid.
ZeroWord == [V |-> FALSE, xwr |-> {}, U |-> FALSE, A |-> FALSE, D |-> FALSE, ppn |-> 0,
             pbmt |-> 0, N |-> FALSE, rsv |-> FALSE]

----------------------------------------------------------------------------
(* TLBs.                                                                   *)

TlbIndex(v) == v % TlbSize
tlb_flush_all(s) == [s EXCEPT !.tlb = tlb_init]
TlbHit(s, t, v) == s.tlb[t][TlbIndex(v)].v = v
TlbFill(s, t, v, frame) == [s EXCEPT !.tlb[t][TlbIndex(v)] = [v |-> v, frame |-> frame]]

\* riscv_cpu_flush_tlb_write_range_ram: forget the write entries of F.
FlushWriteRange(s, F) ==
    [s EXCEPT !.tlb["w"] = [i \in DOMAIN @ |-> IF @[i].frame \in F THEN NoEntry ELSE @[i]]]

----------------------------------------------------------------------------
(* RAM and its dirty bits.                                                 *)

phys_mem_set_dirty_bit(s, f) == [s EXCEPT !.dirty = @ \union ({f} \intersect Tracked)]
PutWord(s, f, i, w) == [s EXCEPT !.mem[f][i] = w]

\* take_dirty: the host gets the bits, and they start again from nothing.
\* Fault: the cached write entries stay, so later stores are not marked.
take_dirty_NoFlush(s) == [s EXCEPT !.dirty = {}]
take_dirty(s) ==
    [(IF s.dirty # {} THEN FlushWriteRange(s, Tracked) ELSE s) EXCEPT !.dirty = {}]

clear_dirty(s, f) ==
    IF f \in s.dirty THEN [FlushWriteRange(s, {f}) EXCEPT !.dirty = @ \ {f}] ELSE s

\* The host writes guest memory through ram_range, which refuses ROM.
host_write(s, f, i, w) == PutWord(phys_mem_set_dirty_bit(s, f), f, i, w)

----------------------------------------------------------------------------
(* The walk.                                                               *)

\* Loads and stores in M mode may act for the mode in MPP.
get_effective_priv(s, access) ==
    IF "MPRV" \in s.flags /\ access # "x" THEN s.mpp ELSE s.priv

PageFault(s) == [res |-> "page", frame |-> -1, s |-> s]
AccessFault(s) == [res |-> "access", frame |-> -1, s |-> s]
Translated(s, frame) == [res |-> "ok", frame |-> frame, s |-> s]

\* The pages below k levels of tables, and below one entry of level i.
PagesBelow[k \in 0 .. Levels] == IF k = 0 THEN 1 ELSE Span * PagesBelow[k - 1]
PagesOf(i) == PagesBelow[Levels - 1 - i]
PteIndex(v, i) == (v \div PagesOf(i)) % Span
Canonical(v) == v < PagesBelow[Levels]

\* The checks of a leaf, in an order that does not matter: each one faults.
LeafPermits(s, pte, v, i, access) ==
    LET priv == get_effective_priv(s, access)
        xwr == pte.xwr \union (IF "MXR" \in s.flags /\ "x" \in pte.xwr THEN {"r"} ELSE {})
    IN  /\ pte.pbmt = 0 \/ (pte.pbmt # 3 /\ "PBMTE" \in s.menvcfg)
        /\ pte.N => i = Levels - 1 /\ pte.ppn % NapotSpan = NapotSpan \div 2
        /\ pte.xwr # {"w"} /\ pte.xwr # {"w", "x"}
        /\ ~pte.N => pte.ppn % PagesOf(i) = 0
        /\ IF priv = PRV_S THEN pte.U => "SUM" \in s.flags ELSE pte.U
        /\ access \in xwr

\* A contiguous mapping takes its low bits from the address.
LeafFrame(pte, v, i) ==
    IF pte.N THEN pte.ppn - (pte.ppn % NapotSpan) + (v % NapotSpan)
    ELSE pte.ppn + (v % PagesOf(i))

NeedWrite(pte, access) == ~pte.A \/ (~pte.D /\ access = "w")

\* A leaf that permits the access: set A and D when the guest asks for it.
UseLeaf(s, table, pte, v, i, access) ==
    IF ~NeedWrite(pte, access) THEN Translated(s, LeafFrame(pte, v, i))
    ELSE IF "ADUE" \notin s.menvcfg THEN PageFault(s)
    ELSE IF table \in Rom THEN AccessFault(s)
    ELSE Translated(PutWord(phys_mem_set_dirty_bit(s, table), table, PteIndex(v, i),
                            [pte EXCEPT !.A = TRUE, !.D = @ \/ access = "w"]),
                    LeafFrame(pte, v, i))

PointerOk(pte) == ~pte.U /\ ~pte.A /\ ~pte.D /\ pte.pbmt = 0 /\ ~pte.N

\* A table is a frame of RAM; -1 stands for one outside RAM.
Tables == Frames \union {-1}
TableAt(ppn) == IF ppn \in Frames THEN ppn ELSE -1

\* What the tables of level i lead to, given what those below them lead to.
WalkLevel(s, v, access, i, below) ==
    [table \in Tables |->
        IF table = -1 THEN AccessFault(s)
        ELSE LET pte == s.mem[table][PteIndex(v, i)]
             IN  CASE ~pte.V \/ pte.rsv -> PageFault(s)
                   [] pte.V /\ ~pte.rsv /\ pte.xwr # {} ->
                        IF LeafPermits(s, pte, v, i, access)
                        THEN UseLeaf(s, table, pte, v, i, access) ELSE PageFault(s)
                   [] pte.V /\ ~pte.rsv /\ pte.xwr = {} ->
                        IF PointerOk(pte) THEN below[TableAt(pte.ppn)] ELSE PageFault(s)]

\* The walk from the root; no level is left below a pointer of the last one.
get_phys_addr(s, v, access) ==
    LET walk[left \in 0 .. Levels] ==
            IF left = 0 THEN [table \in Tables |-> PageFault(s)]
            ELSE WalkLevel(s, v, access, Levels - left, walk[left - 1])
    IN  CASE get_effective_priv(s, access) = PRV_M \/ s.satp.mode = "bare" -> Translated(s, v)
          [] get_effective_priv(s, access) # PRV_M /\ s.satp.mode # "bare" ->
               IF Canonical(v) THEN walk[Levels][TableAt(s.satp.ppn)] ELSE PageFault(s)

----------------------------------------------------------------------------
(* Data accesses.  The result says whether the access was done ("ok"), or  *)
(* which fault it met; a device access is left to the caller ("io").       *)

\* target_read_u*: a hit in the read TLB asks nobody.
target_read(s, v) ==
    LET t == get_phys_addr(s, v, "r")
    IN  CASE TlbHit(s, "r", v) -> Translated(s, s.tlb["r"][TlbIndex(v)].frame)
          [] ~TlbHit(s, "r", v) /\ t.res # "ok" -> t
          [] ~TlbHit(s, "r", v) /\ t.res = "ok" /\ t.frame \in Frames ->
               [t EXCEPT !.s = TlbFill(t.s, "r", v, t.frame)]
          [] ~TlbHit(s, "r", v) /\ t.res = "ok" /\ t.frame = DevFrame -> [t EXCEPT !.res = "io"]
          [] ~TlbHit(s, "r", v) /\ t.res = "ok" /\ t.frame \notin Frames \union {DevFrame} ->
               AccessFault(t.s)

\* target_write_u*: only the slow path sets the dirty bit.
target_write(s, v, i, w) ==
    LET t == get_phys_addr(s, v, "w")
        f == s.tlb["w"][TlbIndex(v)].frame
    IN  CASE TlbHit(s, "w", v) -> Translated(PutWord(s, f, i, w), f)
          [] ~TlbHit(s, "w", v) /\ t.res # "ok" -> t
          [] ~TlbHit(s, "w", v) /\ t.res = "ok" /\ t.frame \in Frames ->
               [t EXCEPT !.s = PutWord(TlbFill(phys_mem_set_dirty_bit(t.s, t.frame),
                                               "w", v, t.frame), t.frame, i, w)]
          [] ~TlbHit(s, "w", v) /\ t.res = "ok" /\ t.frame = DevFrame -> [t EXCEPT !.res = "io"]
          [] ~TlbHit(s, "w", v) /\ t.res = "ok" /\ t.frame \notin Frames \union {DevFrame} ->
               AccessFault(t.s)

\* A store conditional that fails still asks whether it might have stored.
target_write_check(s, v) == get_phys_addr(s, v, "w")

\* The fetch of a block: code runs from RAM only.
target_read_insn(s, v) ==
    LET t == get_phys_addr(s, v, "x")
    IN  CASE TlbHit(s, "x", v) -> Translated(s, s.tlb["x"][TlbIndex(v)].frame)
          [] ~TlbHit(s, "x", v) /\ t.res # "ok" -> t
          [] ~TlbHit(s, "x", v) /\ t.res = "ok" /\ t.frame \in Frames ->
               [t EXCEPT !.s = TlbFill(t.s, "x", v, t.frame)]
          [] ~TlbHit(s, "x", v) /\ t.res = "ok" /\ t.frame \notin Frames -> AccessFault(t.s)

\* cbo.zero and the other cache block operations walk without a TLB.
CacheBlock(s, v, i, zero) ==
    LET t == get_phys_addr(s, v, IF zero THEN "w" ELSE "r")
    IN  IF t.res # "ok" THEN t
        ELSE IF t.frame \notin Frames \/ (zero /\ t.frame \in Rom) THEN AccessFault(t.s)
        ELSE IF ~zero THEN t
        ELSE [t EXCEPT !.s = PutWord(phys_mem_set_dirty_bit(t.s, t.frame), t.frame, i, ZeroWord)]
=============================================================================
