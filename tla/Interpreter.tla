---------------------------- MODULE Interpreter ----------------------------
(***************************************************************************)
(* The instruction loop of riscv_cpu_template.h on the user-visible state: *)
(* pc, registers, floating point state, the reservation of LR/SC, RAM and  *)
(* one device behind the accessors of riscv_cpu_priv.h.  The address space *)
(* is not translated here (Mmu has the TLBs and page tables, Hart the      *)
(* privileged state): RAM is one page at 0, a device register pair lies at *)
(* DevBase.  A behaviour runs one short program; last holds the state      *)
(* before the latest instruction.                                          *)
(***************************************************************************)
EXTENDS FloatUnit, Compressed

CONSTANTS RamSize,    \* bytes of RAM
          DevBase,    \* the address of a device with two word registers
          Programs,   \* sequences of instructions
          Starts(_)   \* the states in which a program may start

VARIABLES cpu, code, last

vars == <<cpu, code, last>>

Regs == 0 .. 31
NoTrap == [cause |-> -1, tval |-> 0]
NoLast == [i |-> [f |-> "none"], cpu |-> <<>>]

CAUSE_ILLEGAL_INSTRUCTION == 2
CAUSE_BREAKPOINT == 3
CAUSE_MISALIGNED_LOAD == 4
CAUSE_FAULT_LOAD == 5
CAUSE_MISALIGNED_STORE == 6
CAUSE_FAULT_STORE == 7

----------------------------------------------------------------------------
(* Memory.  A read is [err, val, tval], a write is [err, cpu, tval] with   *)
(* err -1 for a fault and 1 when a slow write met a host service request.  *)

InRam(a) == a < RamSize
InDev(a) == a >= DevBase /\ a < DevBase + 8
Addr(a) == a % 2^XLEN
Aligned(a, size) == a % size = 0

RamValue(c, a, size) ==
    LET term(i) == c.mem[a + i] * 2^(Byte * i) IN MapThenSumSet(term, 0 .. size - 1)
ReadFault(a) == [err |-> -1, val |-> 0, tval |-> a]
ReadOk(v) == [err |-> 0, val |-> v, tval |-> 0]

\* The device takes word accesses; a double access becomes two of them.
ReadAligned(c, a, size) ==
    CASE InRam(a) -> ReadOk(RamValue(c, a, size))
      [] InDev(a) /\ size = 4 -> ReadOk(c.dev[a - DevBase])
      [] InDev(a) /\ size = 8 -> ReadOk(c.dev[0] + c.dev[4] * 2^WLEN)
      [] OTHER -> ReadFault(a)

\* target_read_slow: a halfword that is not aligned is read by bytes, a larger
\* one as two aligned reads of the same size.
\* Fault: the second part is shifted by the offset instead of the rest.
target_read_WrongCarry(c, a, size) ==
    LET al == a % size
        low == ReadAligned(c, a - al, size)
        high == ReadAligned(c, Addr(a - al + size), size)
    IN  IF al = 0 THEN ReadAligned(c, a, size)
        ELSE IF low.err < 0 THEN low
        ELSE IF high.err < 0 THEN high
        ELSE ReadOk((low.val \div 2^(Byte * al)) | Left(high.val, Byte * al, Byte * size))
target_read(c, a, size) ==
    LET al == a % size
        low == IF size = 2 THEN ReadAligned(c, a, 1) ELSE ReadAligned(c, a - al, size)
        high == IF size = 2 THEN ReadAligned(c, Addr(a + 1), 1)
                ELSE ReadAligned(c, Addr(a - al + size), size)
        shift == IF size = 2 THEN 0 ELSE Byte * al
        carry == IF size = 2 THEN Byte ELSE Byte * (size - al)
    IN  IF al = 0 THEN ReadAligned(c, a, size)
        ELSE IF low.err < 0 THEN low
        ELSE IF high.err < 0 THEN high
        ELSE ReadOk((low.val \div 2^shift) | Left(high.val, carry, Byte * size))

PutRam(c, a, v, n) ==
    [c EXCEPT !.mem = [b \in DOMAIN @ |-> IF b >= a /\ b < a + n THEN ByteOf(v, b - a) ELSE @[b]],
              !.wtlb = TRUE]
WriteFault(c, a) == [err |-> -1, cpu |-> c, tval |-> a]
WriteDone(c) == [err |-> IF c.service THEN 1 ELSE 0, cpu |-> c, tval |-> 0]

\* A write of the device's first register asks for service by the host.
PutDev(c, offset, v) ==
    [c EXCEPT !.dev[offset] = Zext(v, WLEN), !.service = @ \/ offset = 0]

WriteAligned(c, a, v, size) ==
    CASE InRam(a) -> WriteDone(PutRam(c, a, v, size))
      [] InDev(a) /\ size = 4 -> WriteDone(PutDev(c, a - DevBase, v))
      [] InDev(a) /\ size = 8 -> WriteDone(PutDev(PutDev(c, 0, v), 4, v \div 2^WLEN))
      [] OTHER -> WriteFault(c, a)

\* target_write_slow writes what is not aligned byte by byte, so the bytes
\* before a fault stay written.  A hit in the write TLB never asks to stop.
target_write(c, a, v, size) ==
    LET bad == {i \in 0 .. size - 1 : ~InRam(Addr(a + i))}
        done == IF bad = {} THEN size ELSE Min(bad)
        \* the first bytes, which may wrap around the address space
        put == [c EXCEPT !.mem = [b \in DOMAIN @ |->
                                     LET i == Addr(b - a) IN IF i < done THEN ByteOf(v, i) ELSE @[b]],
                         !.wtlb = @ \/ done > 0]
    IN  IF Aligned(a, size)
        THEN IF c.wtlb /\ InRam(a) THEN [err |-> 0, cpu |-> PutRam(c, a, v, size), tval |-> 0]
             ELSE WriteAligned(c, a, v, size)
        ELSE IF bad # {} THEN WriteFault(put, Addr(a + done))
        ELSE WriteDone(put)

----------------------------------------------------------------------------
(* Retirement.                                                             *)

Set(c, rd, v) == IF rd = 0 THEN c ELSE [c EXCEPT !.reg[rd] = v]
SetFp(c, rd, v) == [c EXCEPT !.fp_reg[rd] = v, !.fs = 3]
Retire(c, len) == [c EXCEPT !.pc = Addr(@ + len)]
Jump(c, target) == [c EXCEPT !.pc = Addr(target)]
Trap(c, cause, tval) == [c EXCEPT !.trap = [cause |-> cause, tval |-> tval]]
IllegalInsn(c) == Trap(c, CAUSE_ILLEGAL_INSTRUCTION, 0)

\* STORE_INSN: w is the finished write and done the hart after the rest of the
\* instruction, which is skipped when the interpreter stops for the host.
Stored(w, done, len) ==
    CASE w.err < 0 -> Trap(w.cpu, CAUSE_FAULT_STORE, w.tval)
      [] w.err > 0 -> [Retire(w.cpu, len) EXCEPT !.stop = TRUE]
      [] w.err = 0 -> Retire(done, len)

----------------------------------------------------------------------------
(* Integer instructions.                                                   *)

ExecAlu(c, i, len) ==
    LET b == IF i.f = "reg" THEN c.reg[i.rs2] ELSE Reg(i.imm)
    IN  Retire(Set(c, i.rd, Alu(i.op, c.reg[i.rs1], b)), len)

\* lui, auipc, jumps and branches.
ExecControl(c, i, len) ==
    CASE i.f = "lui" -> Retire(Set(c, i.rd, Reg(i.imm)), len)
      [] i.f = "auipc" -> Retire(Set(c, i.rd, Reg(c.pc + i.imm)), len)
      [] i.f = "jal" -> Jump(Set(c, i.rd, Addr(c.pc + len)), c.pc + i.imm)
      [] i.f = "jalr" -> LET t == Reg(c.reg[i.rs1] + i.imm)
                         IN  Jump(Set(c, i.rd, Addr(c.pc + len)), t - (t % 2))
      [] i.f = "branch" -> IF Taken(i.op, c.reg[i.rs1], c.reg[i.rs2])
                           THEN Jump(c, c.pc + i.imm) ELSE Retire(c, len)
      [] i.f = "nop" -> Retire(c, len)
      [] i.f = "ebreak" -> Trap(c, CAUSE_BREAKPOINT, 0)
      [] i.f = "illegal" -> IllegalInsn(c)

Target(c, i) == Reg(c.reg[i.rs1] + i.imm)

ExecLoad(c, i, len) ==
    LET r == target_read(c, Target(c, i), i.size)
        v == IF i.sgn THEN Sext(r.val, Byte * i.size) ELSE r.val
    IN  IF r.err < 0 THEN Trap(c, CAUSE_FAULT_LOAD, r.tval) ELSE Retire(Set(c, i.rd, v), len)

ExecStore(c, i, len) ==
    LET w == target_write(c, Target(c, i), c.reg[i.rs2], i.size) IN Stored(w, w.cpu, len)

\* A single is boxed when it is loaded.
\* Fault: the floating point state is dirty before the read has succeeded.
ExecFpLoad_EarlyDirty(c, i, len) ==
    LET r == target_read(c, Target(c, i), i.size)
        v == IF i.size = 4 THEN Held("S", r.val) ELSE r.val
    IN  IF c.fs = 0 THEN IllegalInsn(c)
        ELSE IF r.err < 0 THEN Trap([c EXCEPT !.fs = 3], CAUSE_FAULT_LOAD, r.tval)
        ELSE Retire(SetFp(c, i.rd, v), len)
ExecFpLoad(c, i, len) ==
    LET r == target_read(c, Target(c, i), i.size)
        v == IF i.size = 4 THEN Held("S", r.val) ELSE r.val
    IN  IF c.fs = 0 THEN IllegalInsn(c)
        ELSE IF r.err < 0 THEN Trap(c, CAUSE_FAULT_LOAD, r.tval)
        ELSE Retire(SetFp(c, i.rd, v), len)

ExecFpStore(c, i, len) ==
    LET w == target_write(c, Target(c, i), c.fp_reg[i.rs2], i.size)
    IN  IF c.fs = 0 THEN IllegalInsn(c) ELSE Stored(w, w.cpu, len)

----------------------------------------------------------------------------
(* OP_A.                                                                   *)

LoadReserved(c, i, a, r) ==
    [Set(c, i.rd, Sext(r.val, Byte * i.size)) EXCEPT
        !.res = [valid |-> TRUE, addr |-> a, size |-> i.size]]

\* The reservation is by address and size; it falls with the SC.  A failing SC
\* asks for the translation of its address, which always succeeds here.
\* Fault: the width of the reservation is not compared.
StoreConditional_AnyWidth(c, i, a) ==
    LET holds == c.res.valid /\ c.res.addr = a
        w == target_write(c, a, c.reg[i.rs2], i.size)
        told(d, v) == [Set(d, i.rd, v) EXCEPT !.res.valid = FALSE]
    IN  IF holds THEN Stored(w, told(w.cpu, 0), 4) ELSE Retire(told(c, 1), 4)
StoreConditional(c, i, a) ==
    LET holds == c.res.valid /\ c.res.addr = a /\ c.res.size = i.size
        w == target_write(c, a, c.reg[i.rs2], i.size)
        told(d, v) == [Set(d, i.rd, v) EXCEPT !.res.valid = FALSE]
    IN  IF holds THEN Stored(w, told(w.cpu, 0), 4) ELSE Retire(told(c, 1), 4)

ExecAtomic(c, i) ==
    LET a == c.reg[i.rs1]
        n == Byte * i.size
        r == target_read(c, a, i.size)
        w == target_write(c, a, Amo(i.op, r.val, c.reg[i.rs2], n), i.size)
    IN  IF ~Aligned(a, i.size)
        THEN Trap(c, IF i.op = "lr" THEN CAUSE_MISALIGNED_LOAD ELSE CAUSE_MISALIGNED_STORE, a)
        ELSE IF i.op = "sc" THEN StoreConditional(c, i, a)
        ELSE IF r.err < 0 THEN Trap(c, CAUSE_FAULT_LOAD, r.tval)
        ELSE IF i.op = "lr" THEN Retire(LoadReserved(c, i, a, r), 4)
        ELSE Stored(w, Set(w.cpu, i.rd, Sext(r.val, n)), 4)

----------------------------------------------------------------------------
(* Floating point.                                                         *)

\* A result that goes to rd of the floating point file, or to an integer one.
FpResult(c, i, fmt, r) ==
    Retire([SetFp(c, i.rd, Held(fmt, r.val)) EXCEPT !.fflags = @ \union r.fl], 4)
IntResult(c, i, v, fl) ==
    Retire([Set(c, i.rd, v) EXCEPT !.fflags = @ \union fl, !.fs = 3], 4)

\* The forms whose rm field is a rounding mode.
RoundedForms == {"fused", "farith", "ftoint", "ffromint", "fcvt"}

ExecRounded(c, i, rm) ==
    LET x(r) == Operand(i.fmt, c.fp_reg[r])
        n == ToIntCall(i.fmt, i.op, x(i.rs1), rm)
    IN  CASE i.f = "farith" ->
                 FpResult(c, i, i.fmt, ArithmeticCall(i.fmt, i.op, x(i.rs1), x(i.rs2), rm))
          [] i.f = "fused" ->
                 FpResult(c, i, i.fmt,
                          FusedCall(i.fmt, i.op, x(i.rs1), x(i.rs2), x(i.rs3), rm))
          [] i.f = "ftoint" -> IntResult(c, i, Sext(n.val, Width(i.op)), n.fl)
          [] i.f = "ffromint" ->
                 FpResult(c, i, i.fmt, FromIntCall(i.fmt, i.op, c.reg[i.rs1], rm))
          [] i.f = "fcvt" /\ i.fmt = "S" ->
                 FpResult(c, i, "S", cvt_sf64_sf32(c.fp_reg[i.rs1], rm))
          [] i.f = "fcvt" /\ i.fmt = "D" ->
                 FpResult(c, i, "D", cvt_sf32_sf64(Operand("S", c.fp_reg[i.rs1])))

\* fmv.x and fclass leave fs alone.
ExecUnrounded(c, i) ==
    LET x(r) == Operand(i.fmt, c.fp_reg[r])
        n == CompareCall(i.fmt, i.op, x(i.rs1), x(i.rs2))
    IN  CASE i.f = "fsgn" ->
                 Retire(SetFp(c, i.rd, SignCall(i.fmt, i.op, c.fp_reg[i.rs1], c.fp_reg[i.rs2])), 4)
          [] i.f = "fminmax" ->
                 FpResult(c, i, i.fmt, MinMaxCall(i.fmt, i.op, x(i.rs1), x(i.rs2)))
          [] i.f = "fcmp" -> IntResult(c, i, n.val, n.fl)
          [] i.f = "fmvx" ->
                 Retire(Set(c, i.rd, IF i.fmt = "S" THEN Sext(c.fp_reg[i.rs1], WLEN)
                                     ELSE c.fp_reg[i.rs1]), 4)
          [] i.f = "fclass" -> Retire(Set(c, i.rd, Reg(fclass(i.fmt, x(i.rs1)))), 4)
          [] i.f = "fmvf" ->
                 Retire(SetFp(c, i.rd, IF i.fmt = "S" THEN Held("S", Zext(c.reg[i.rs1], WLEN))
                                       ELSE c.reg[i.rs1]), 4)

ExecFp(c, i) ==
    LET rm == get_insn_rm(c.frm, i.rm)
    IN  IF c.fs = 0 THEN IllegalInsn(c)
        ELSE IF i.f \in RoundedForms
        THEN IF rm < 0 THEN IllegalInsn(c) ELSE ExecRounded(c, i, rm)
        ELSE ExecUnrounded(c, i)

----------------------------------------------------------------------------
(* The loop.                                                               *)

FpForms == RoundedForms \union {"fsgn", "fminmax", "fcmp", "fmvx", "fclass", "fmvf"}
AluForms == {"reg", "imm"}
ControlForms == {"lui", "auipc", "jal", "jalr", "branch", "nop", "ebreak", "illegal"}

Exec(c, i, len) ==
    CASE i.f \in AluForms -> ExecAlu(c, i, len)
      [] i.f \in ControlForms -> ExecControl(c, i, len)
      [] i.f = "load" -> ExecLoad(c, i, len)
      [] i.f = "store" -> ExecStore(c, i, len)
      [] i.f = "fload" -> ExecFpLoad(c, i, len)
      [] i.f = "fstore" -> ExecFpStore(c, i, len)
      [] i.f = "amo" -> ExecAtomic(c, i)
      [] i.f \in FpForms -> ExecFp(c, i)

Running == code # <<>> /\ cpu.trap = NoTrap /\ ~cpu.stop

Init ==
    /\ code \in Programs
    /\ cpu \in Starts(code)
    /\ last = NoLast

Execute(i, len) ==
    /\ cpu' = Exec(cpu, i, len)
    /\ code' = Tail(code)
    /\ last' = [i |-> Head(code), cpu |-> cpu]

\* An instruction of 32 bits.
Step == Running /\ Head(code).f # "c16" /\ Execute(Head(code), 4)

\* An instruction of 16 bits.
CompressedStep == Running /\ Head(code).f = "c16" /\ Execute(Decode(Head(code).bits).i, 2)

\* tinyemu_core_run_cpu clears the request before it enters the interpreter
\* again.
HostService ==
    /\ cpu.stop
    /\ cpu' = [cpu EXCEPT !.service = FALSE, !.stop = FALSE]
    /\ last' = NoLast
    /\ UNCHANGED code

\* The program ends in a jump to itself, a trap in its handler.
Halted == ~Running /\ ~cpu.stop /\ UNCHANGED vars

Next == Step \/ CompressedStep \/ HostService \/ Halted

Spec == Init /\ [][Next]_vars
=============================================================================
