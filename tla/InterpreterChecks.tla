------------------------- MODULE InterpreterChecks -------------------------
(***************************************************************************)
(* What each instruction must leave behind, stated from the architecture   *)
(* and from IEEE 754 rather than from the code: products and quotients by  *)
(* the laws they satisfy, shifts bit by bit, immediates by the layouts of  *)
(* the manual, floating point results as neighbours of the exact result.   *)
(***************************************************************************)
EXTENDS Interpreter

LOCAL RS == INSTANCE FloatRounding WITH EXP_SIZE <- SExp, MANT_SIZE <- SMant
LOCAL RD == INSTANCE FloatRounding WITH EXP_SIZE <- DExp, MANT_SIZE <- DMant

\* The latest instruction, the state before it, and whether it retired with
\* all its effects.
Insn == last.i
Before == last.cpu
Retired(forms) == Insn.f \in forms /\ cpu.trap = NoTrap /\ ~cpu.stop

----------------------------------------------------------------------------
(* Integer results.                                                        *)

Bit(x, i) == (x \div 2^i) % 2
SameBits(r, n, f(_)) == \A i \in 0 .. n - 1 : Bit(r, i) = f(i)
Clamp(i, n) == IF i >= n THEN n - 1 ELSE i

\* floor(x * y / 2^XLEN) without a product of two full registers.
HighHalf(x, y) ==
    LET half == 2^(XLEN \div 2) IN (x * (y \div half) + (x * (y % half)) \div half) \div half

MagnitudeOf(x) == IF x < 0 THEN -x ELSE x
TruncatedQuotient(x, y, q, min) ==
    IF y = 0 THEN q = -1
    ELSE IF x = min /\ y = -1 THEN q = x
    ELSE LET r == x - y * q IN MagnitudeOf(r) < MagnitudeOf(y) /\ (r = 0 \/ (r < 0) = (x < 0))
TruncatedRemainder(x, y, r) ==
    IF y = 0 THEN r = x
    ELSE /\ MagnitudeOf(r) < MagnitudeOf(y) /\ (r = 0 \/ (r < 0) = (x < 0))
         /\ (x - r) % MagnitudeOf(y) = 0

ProductLaw(op, a, b, r) ==
    LET x == Signed(a, XLEN)
        y == Signed(b, XLEN)
    IN  CASE op = "mulh" -> Signed(r, XLEN) = (x * y) \div 2^XLEN
          [] op = "mulhu" -> r = HighHalf(a, b)
          [] op = "mulhsu" -> Signed(r, XLEN) = HighHalf(x, b)
          [] op = "div" -> TruncatedQuotient(x, y, Signed(r, XLEN), -2^(XLEN - 1))
          [] op = "rem" -> TruncatedRemainder(x, y, Signed(r, XLEN))
          [] op = "divu" -> IF b = 0 THEN r = Ones ELSE r = a \div b
          [] op = "remu" -> TruncatedRemainder(a, b, r)
          [] OTHER -> TRUE

WordLaw(op, a, b, r) ==
    LET x == Signed(a, WLEN)
        y == Signed(b, WLEN)
        s == Signed(r, XLEN)
    IN  CASE op = "mulw" -> (s - x * y) % 2^WLEN = 0
          [] op = "divw" -> TruncatedQuotient(x, y, s, -2^(WLEN - 1))
          [] op = "remw" -> TruncatedRemainder(x, y, s)
          [] op = "divuw" -> LET u == Zext(b, WLEN)
                             IN  s = IF u = 0 THEN -1 ELSE Signed(Zext(a, WLEN) \div u, WLEN)
          [] op = "remuw" -> TruncatedRemainder(Zext(a, WLEN), Zext(b, WLEN), Zext(r, WLEN))

\* A word result is sign extended, whatever the operation.
IsWord(r) == r = Sext(r, WLEN)

ShiftLaw(op, a, b, r) ==
    LET w == op \in ShiftWordOps
        n == IF w THEN WLEN ELSE XLEN
        s == b % n
        sll(i) == IF i < s THEN 0 ELSE Bit(a, i - s)
        srl(i) == IF i + s < n THEN Bit(a, i + s) ELSE 0
        sra(i) == Bit(a, Clamp(i + s, n))
        rotl(i) == Bit(a, (i - s) % n)
        rotr(i) == Bit(a, (i + s) % n)
        one(v) == LET f(i) == IF i = s THEN v ELSE Bit(a, i) IN SameBits(r, n, f)
    IN  /\ w => IsWord(r)
        /\ CASE op \in {"sll", "sllw"} -> SameBits(r, n, sll)
             [] op \in {"srl", "srlw"} -> SameBits(r, n, srl)
             [] op \in {"sra", "sraw"} -> SameBits(r, n, sra)
             [] op \in {"rol", "rolw"} -> SameBits(r, n, rotl)
             [] op \in {"ror", "rorw"} -> SameBits(r, n, rotr)
             [] op = "bset" -> one(1)
             [] op = "bclr" -> one(0)
             [] op = "binv" -> one(1 - Bit(a, s))
             [] op = "bext" -> r = Bit(a, s)

UnaryLaw(op, a, r) ==
    LET n == IF op \in {"clzw", "ctzw", "cpopw"} THEN WLEN ELSE XLEN
        byte(i) == i \div Byte
        any(k) == \E i \in 0 .. XLEN - 1 : byte(i) = k /\ Bit(a, i) = 1
        orc(i) == Truth(any(byte(i)))
        rev(i) == Bit(a, (7 - byte(i)) * Byte + (i % Byte))
    IN  CASE op \in {"clz", "clzw"} -> Zext(a, n) < 2^(n - r) /\ (r = n \/ Zext(a, n) >= 2^(n - r - 1))
          [] op \in {"ctz", "ctzw"} -> Zext(a, n) % 2^r = 0 /\ (r = n \/ Bit(a, r) = 1)
          [] op = "orc.b" -> SameBits(r, XLEN, orc)
          [] op = "rev8" -> SameBits(r, XLEN, rev)
          [] OTHER -> TRUE

\* Multiplication, division, shifts, rotations and bit counts return what the
\* architecture defines for every operand: the high half of the exact product,
\* quotients that truncate with their two exceptions, each bit in its place
\* (riscv_cpu_template.h, OP, OP-IMM, OP-32 and the helpers div64 .. mulhsu64).
IntegerResults ==
    Retired(AluForms) /\ Insn.rd # 0 =>
        LET a == Before.reg[Insn.rs1]
            b == IF Insn.f = "reg" THEN Before.reg[Insn.rs2] ELSE Reg(Insn.imm)
            r == cpu.reg[Insn.rd]
        IN  CASE Insn.op \in MulDivOps -> ProductLaw(Insn.op, a, b, r)
              [] Insn.op \in MulDivWordOps -> IsWord(r) /\ WordLaw(Insn.op, a, b, r)
              [] Insn.op \in ShiftOps \union ShiftWordOps -> ShiftLaw(Insn.op, a, b, r)
              [] Insn.op \in UnaryOps -> UnaryLaw(Insn.op, a, r)
              [] OTHER -> TRUE

----------------------------------------------------------------------------
(* Compressed immediates.                                                  *)

\* Where the manual puts the bits of the immediate: two runs of instruction
\* bits, downwards from bit 12 and from bit low, and the sign bit, if any.
Runs(high, low, bits, sgn) == [high |-> high, low |-> low, bits |-> bits, sgn |-> sgn]
Layout(name) ==
    CASE name = "c.addi4spn" -> Runs(<<5, 4, 9, 8, 7, 6, 2, 3>>, 2, <<>>, -1)
      [] name \in {"c.lw", "c.sw"} -> Runs(<<5, 4, 3>>, 6, <<2, 6>>, -1)
      [] name \in {"c.ld", "c.sd", "c.fld", "c.fsd"} -> Runs(<<5, 4, 3>>, 6, <<7, 6>>, -1)
      [] name \in {"c.lbu", "c.sb"} -> Runs(<<>>, 6, <<0, 1>>, -1)
      [] name \in {"c.lh", "c.sh"} -> Runs(<<>>, 5, <<1>>, -1)
      [] name \in {"c.addi", "c.addiw", "c.li", "c.andi"} -> Runs(<<5>>, 6, <<4, 3, 2, 1, 0>>, 5)
      [] name \in {"c.srli", "c.srai", "c.slli"} -> Runs(<<5>>, 6, <<4, 3, 2, 1, 0>>, -1)
      [] name = "c.addi16sp" -> Runs(<<9>>, 6, <<4, 6, 8, 7, 5>>, 9)
      [] name = "c.lui" -> Runs(<<17>>, 6, <<16, 15, 14, 13, 12>>, 17)
      [] name = "c.j" -> Runs(<<11, 4, 9, 8, 10, 6, 7, 3, 2, 1, 5>>, 2, <<>>, 11)
      [] name \in {"c.beqz", "c.bnez"} -> Runs(<<8, 4, 3>>, 6, <<7, 6, 2, 1, 5>>, 8)
      [] name = "c.lwsp" -> Runs(<<5>>, 6, <<4, 3, 2, 7, 6>>, -1)
      [] name \in {"c.ldsp", "c.fldsp"} -> Runs(<<5>>, 6, <<4, 3, 8, 7, 6>>, -1)
      [] name = "c.swsp" -> Runs(<<5, 4, 3, 2, 7, 6>>, 2, <<>>, -1)
      [] name \in {"c.sdsp", "c.fsdsp"} -> Runs(<<5, 4, 3, 8, 7, 6>>, 2, <<>>, -1)
      [] OTHER -> Runs(<<>>, 2, <<>>, -1)

ManualImmediate(insn, l) ==
    LET weight(b) == IF b = l.sgn THEN -2^b ELSE 2^b
        hi(k) == Bit(insn, 13 - k) * weight(l.high[k])
        lo(k) == Bit(insn, l.low + 1 - k) * weight(l.bits[k])
    IN  MapThenSumSet(hi, DOMAIN l.high) + MapThenSumSet(lo, DOMAIN l.bits)

\* Each of the 16 bit encodings that is accepted yields the immediate whose
\* bits the manual lists for it, sign included (the get_field1 sums of
\* riscv_cpu_template.h).
CompressedImmediates ==
    Insn.f = "c16" =>
        LET d == Decode(Insn.bits)
        IN  "imm" \in DOMAIN d.i => d.i.imm = ManualImmediate(Insn.bits, Layout(d.name))

----------------------------------------------------------------------------
(* Floating point.                                                         *)

FpValue(fmt, w) == IF fmt = "S" THEN Zext(w, WLEN) ELSE w
FpGot == [val |-> FpValue(Insn.fmt, cpu.fp_reg[Insn.rd]), fl |-> cpu.fflags]
Mode == get_insn_rm(Before.frm, Insn.rm)
Arg(r) == Operand(Insn.fmt, Before.fp_reg[r])
Negated(fmt, a) == IF fmt = "S" THEN (a + 2^(WLEN - 1)) % 2^WLEN ELSE Reg(a + 2^(XLEN - 1))

ArithmeticOk(a, b) ==
    LET nb == Negated(Insn.fmt, b)
    IN  IF Insn.fmt = "S"
        THEN CASE Insn.op = "add" -> RS!SumOk(a, b, Mode, FpGot)
               [] Insn.op = "sub" -> RS!SumOk(a, nb, Mode, FpGot)
               [] Insn.op = "mul" -> RS!ProductOk(a, b, Mode, FpGot)
               [] Insn.op = "div" -> RS!QuotientOk(a, b, Mode, FpGot)
               [] Insn.op = "sqrt" -> RS!RootOk(a, Mode, FpGot)
        ELSE CASE Insn.op = "add" -> RD!SumOk(a, b, Mode, FpGot)
               [] Insn.op = "sub" -> RD!SumOk(a, nb, Mode, FpGot)
               [] Insn.op = "mul" -> RD!ProductOk(a, b, Mode, FpGot)
               [] Insn.op = "div" -> RD!QuotientOk(a, b, Mode, FpGot)
               [] Insn.op = "sqrt" -> RD!RootOk(a, Mode, FpGot)

\* fmadd is a*b + c, fmsub a*b - c, fnmsub -(a*b) + c, fnmadd -(a*b) - c.
FusedResultOk(a, b, c) ==
    LET x == IF Insn.op \in {"fnmsub", "fnmadd"} THEN Negated(Insn.fmt, a) ELSE a
        z == IF Insn.op \in {"fmsub", "fnmadd"} THEN Negated(Insn.fmt, c) ELSE c
    IN  IF Insn.fmt = "S" THEN RS!FusedOk(x, b, z, Mode, FpGot)
        ELSE RD!FusedOk(x, b, z, Mode, FpGot)

\* Every sum, product, quotient, root and fused product is the neighbour of
\* the exact result that the rounding mode names, through subnormals, overflow
\* and cancellation, and raises exactly the flags of IEEE 754
\* (softfp_template.h, round_pack_sf and its callers).
RoundedCorrectly ==
    (Retired({"farith", "fused"}) /\ Before.fflags = {}) =>
        IF Insn.f = "farith" THEN ArithmeticOk(Arg(Insn.rs1), Arg(Insn.rs2))
        ELSE FusedResultOk(Arg(Insn.rs1), Arg(Insn.rs2), Arg(Insn.rs3))

LowerBound(kind) == IF IsUnsigned(kind) THEN 0 ELSE -2^(Width(kind) - 1)
UpperBound(kind) == IF IsUnsigned(kind) THEN 2^Width(kind) - 1 ELSE 2^(Width(kind) - 1) - 1

\* The integer that ended in rd: a narrow one is sign extended there.
ToIntOk ==
    LET k == Insn.op
        r == cpu.reg[Insn.rd]
        n == IntegerOf(k, r)
    IN  /\ r = Sext(r, Width(k))
        /\ IF Insn.fmt = "S"
           THEN RS!ToIntegerOk(Arg(Insn.rs1), Mode, LowerBound(k), UpperBound(k), n, cpu.fflags)
           ELSE RD!ToIntegerOk(Arg(Insn.rs1), Mode, LowerBound(k), UpperBound(k), n, cpu.fflags)

FromIntOk ==
    LET t == [m |-> IntegerOf(Insn.op, Before.reg[Insn.rs1]), e |-> 0]
    IN  IF Insn.fmt = "S" THEN RS!RoundedSum(<<t>>, 0, Mode, FpGot)
        ELSE RD!RoundedSum(<<t>>, 0, Mode, FpGot)

\* Between the formats: the value of the other format, rounded to this one.
BetweenOk ==
    LET d == Before.fp_reg[Insn.rs1]
        s == Operand("S", d)
        special(nan, snan, inf, sign) ==
            IF Insn.fmt = "S"
            THEN IF nan THEN FpGot = S!Ret(S!F_QNAN, S!Flag(snan, "NV")) ELSE RS!InfResult(sign, FpGot)
            ELSE IF nan THEN FpGot = D!Ret(D!F_QNAN, D!Flag(snan, "NV")) ELSE RD!InfResult(sign, FpGot)
    IN  IF Insn.fmt = "S"
        THEN IF D!Exp(d) = D!EXP_MASK
             THEN special(D!isnan_sf(d), D!issignan_sf(d), RD!Inf(d), D!Sign(d))
             ELSE RS!RoundedSum(<<RD!Term(d)>>, D!Sign(d), Mode, FpGot)
        ELSE IF S!Exp(s) = S!EXP_MASK
             THEN special(S!isnan_sf(s), S!issignan_sf(s), RS!Inf(s), S!Sign(s))
             ELSE RD!RoundedSum(<<RS!Term(s)>>, S!Sign(s), Mode, FpGot) /\ cpu.fflags = {}

\* Conversions to an integer round once and clamp, with NV and never NX when
\* they clamp; conversions from an integer and between the formats round the
\* exact value (softfp_template_icvt.h, cvt_sf32_sf64, cvt_sf64_sf32).
ConversionsRounded ==
    (Retired({"ftoint", "ffromint", "fcvt"}) /\ Before.fflags = {}) =>
        CASE Insn.f = "ftoint" -> Insn.rd # 0 => ToIntOk
          [] Insn.f = "ffromint" -> FromIntOk
          [] Insn.f = "fcvt" -> BetweenOk

Ordered(a, b, nan, snan, less, same, key) ==
    LET r == cpu.reg[Insn.rd]
    IN  CASE Insn.f = "fcmp" /\ Insn.op = "eq" ->
                 r = Truth(~nan /\ same) /\ cpu.fflags = IF snan THEN {"NV"} ELSE {}
          [] Insn.f = "fcmp" /\ Insn.op # "eq" ->
                 /\ r = Truth(~nan /\ (less \/ (Insn.op = "le" /\ same)))
                 /\ cpu.fflags = IF nan THEN {"NV"} ELSE {}
          [] Insn.f = "fminmax" /\ ~nan ->
                 /\ FpGot.fl = {}
                 /\ FpGot.val = IF key = (Insn.op = "min") THEN a ELSE b
          [] OTHER -> FpGot.fl = IF snan THEN {"NV"} ELSE {}

\* Comparisons follow the order of the numbers, with -0 equal to +0 and NaN
\* unordered; minimum and maximum put -0 below +0 and prefer a number to a
\* NaN; only le and lt signal for a quiet NaN (min_sf .. lt_sf).
OrderRespected ==
    (Retired({"fcmp", "fminmax"}) /\ Before.fflags = {}) =>
        LET a == Arg(Insn.rs1)
            b == Arg(Insn.rs2)
            x == IF Insn.fmt = "S" THEN RS!Key(a) ELSE RD!Key(a)
            y == IF Insn.fmt = "S" THEN RS!Key(b) ELSE RD!Key(b)
            isnan(v) == IF Insn.fmt = "S" THEN S!isnan_sf(v) ELSE D!isnan_sf(v)
            issnan(v) == IF Insn.fmt = "S" THEN S!issignan_sf(v) ELSE D!issignan_sf(v)
            qnan == IF Insn.fmt = "S" THEN S!F_QNAN ELSE D!F_QNAN
            nan == isnan(a) \/ isnan(b)
        IN  /\ Ordered(a, b, nan, issnan(a) \/ issnan(b), x < y, x = y,
                       x < y \/ (x = y /\ a > b))
            /\ (Insn.f = "fminmax" /\ nan) =>
                   FpGot.val = IF ~isnan(a) THEN a ELSE IF ~isnan(b) THEN b ELSE qnan

----------------------------------------------------------------------------
(* Memory and traps.                                                       *)

SpanInRam(a, size) == \A i \in 0 .. size - 1 : InRam(Addr(a + i))
Bytes(c, a, size) ==
    LET term(i) == c.mem[Addr(a + i)] * 2^(Byte * i) IN MapThenSumSet(term, 0 .. size - 1)
\* Nothing but the named bytes changed.
OnlyWrote(a, size) ==
    \A b \in DOMAIN cpu.mem : Addr(b - a) >= size => cpu.mem[b] = Before.mem[b]

\* Loads and stores move whole little endian values at any alignment: a load
\* that target_read_slow puts together from two reads returns the bytes at the
\* address, a store that target_write_slow splits writes those bytes only.
MemoryByBytes ==
    LET a == Target(Before, Insn)
        wide(v) == IF Insn.f = "fload" THEN (IF Insn.size = 4 THEN v + F32_HIGH ELSE v)
                   ELSE IF Insn.sgn THEN Sext(v, Byte * Insn.size) ELSE v
        got == IF Insn.f = "fload" THEN cpu.fp_reg[Insn.rd] ELSE cpu.reg[Insn.rd]
        sent == IF Insn.f = "fstore" THEN Before.fp_reg[Insn.rs2] ELSE Before.reg[Insn.rs2]
    IN  /\ (/\ Retired({"load", "fload"}) /\ SpanInRam(a, Insn.size)
            /\ (Insn.f = "load" => Insn.rd # 0)) => got = wide(Bytes(Before, a, Insn.size))
        /\ (Insn.f \in {"store", "fstore"} /\ cpu.trap = NoTrap /\ SpanInRam(a, Insn.size)) =>
               OnlyWrote(a, Insn.size) /\ Bytes(cpu, a, Insn.size) = Zext(sent, Byte * Insn.size)

AtomicLaw(op, n, old, x, new) ==
    LET signed == op \in {"min", "max"}
        v(y) == IF signed THEN Signed(y, n) ELSE Zext(y, n)
    IN  CASE op = "swap" -> new = Zext(x, n)
          [] op = "add" -> (new - old - x) % 2^n = 0
          [] op \in {"min", "minu"} -> v(new) = Min({v(old), v(x)})
          [] op \in {"max", "maxu"} -> v(new) = Max({v(old), v(x)})
          [] op \in {"xor", "and", "or"} ->
                 \A i \in 0 .. n - 1 :
                     LET b == Bit(old, i) + Bit(x, i)
                     IN  Bit(new, i) = CASE op = "xor" -> b % 2
                                         [] op = "and" -> b \div 2
                                         [] op = "or" -> (b + 1) \div 2

\* An atomic returns the old value and leaves the new one; a store conditional
\* succeeds exactly under the reservation of its own address and width, and
\* either way consumes it, unless the interpreter stopped for the host
\* (riscv_cpu_template.h, OP_A).
AtomicsExact ==
    Retired({"amo"}) /\ InRam(Before.reg[Insn.rs1]) =>
        LET a == Before.reg[Insn.rs1]
            n == Byte * Insn.size
            old == Bytes(Before, a, Insn.size)
            new == Bytes(cpu, a, Insn.size)
            mine == Before.res = [valid |-> TRUE, addr |-> a, size |-> Insn.size]
            loaded == Insn.rd # 0 => cpu.reg[Insn.rd] = Sext(old, n)
        IN  /\ OnlyWrote(a, Insn.size)
            /\ CASE Insn.op = "lr" ->
                        loaded /\ new = old /\ cpu.res = [valid |-> TRUE, addr |-> a, size |-> Insn.size]
                 [] Insn.op = "sc" ->
                        /\ ~cpu.res.valid
                        /\ new = IF mine THEN Zext(Before.reg[Insn.rs2], n) ELSE old
                        /\ Insn.rd # 0 => cpu.reg[Insn.rd] = Truth(~mine)
                 [] OTHER -> loaded /\ AtomicLaw(Insn.op, n, old, Before.reg[Insn.rs2], new)

\* An instruction that traps leaves the state as it was, so that it can run
\* again after the handler: registers, floating point state, reservation and
\* pc.  Only a store that crosses a page may have written its first bytes.
TrapsHaveNoEffect ==
    cpu.trap # NoTrap /\ last # NoLast =>
        /\ [cpu EXCEPT !.trap = NoTrap, !.mem = <<>>, !.wtlb = FALSE]
             = [Before EXCEPT !.mem = <<>>, !.wtlb = FALSE]
        /\ cpu.mem = Before.mem \/ (Insn.f \in {"c16", "store", "fstore"}
                                    /\ cpu.trap.cause = CAUSE_FAULT_STORE /\ cpu.trap.tval = RamSize)

\* Integer instructions, their compressed forms included, do what the manual
\* says (riscv_cpu_template.h).
IntegersExact == IntegerResults /\ CompressedImmediates

\* Floating point instructions return what IEEE 754 asks, value and flags
\* (softfp_template.h, softfp_template_icvt.h, riscv_cpu_fp_template.h).
FloatsExact == RoundedCorrectly /\ ConversionsRounded /\ OrderRespected

\* Memory is read and written byte for byte, by plain and by atomic accesses,
\* at any alignment (target_read_slow, target_write_slow, OP_A).
MemoryExact == MemoryByBytes /\ AtomicsExact

\* Each instruction that leaves a single leaves it boxed, so that the next one
\* can read it (riscv_cpu_fp_template.h).
SinglesStayBoxed ==
    (Retired({"farith", "fused", "fsgn", "fminmax"}) /\ Insn.fmt = "S") =>
        Boxed(cpu.fp_reg[Insn.rd])
=============================================================================
