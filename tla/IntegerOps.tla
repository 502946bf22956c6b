----------------------------- MODULE IntegerOps -----------------------------
(***************************************************************************)
(* The integer arithmetic of riscv_cpu_template.h.  A byte has Byte bits   *)
(* and everything else scales with it: halfwords, words and registers have *)
(* two, four and eight bytes, as in the code, where Byte is 8.  Values are *)
(* bit patterns, 0 .. 2^XLEN - 1.                                          *)
(***************************************************************************)
EXTENDS Integers, FiniteSetsExt, Bitwise

CONSTANT Byte  \* bits of a byte

\* Shift amounts are masked with XLEN - 1.
ASSUME ByteAssumption == Byte \in {2^i : i \in 0 .. 3}

HLEN == 2 * Byte
WLEN == 4 * Byte
XLEN == 8 * Byte

Reg(x) == x % 2^XLEN
Ones == 2^XLEN - 1
Complement(a) == Ones - a
\* The low n bits, read as signed; the casts (intN_t)x and (uintN_t)x.
Signed(x, n) == LET u == x % 2^n IN IF u >= 2^(n - 1) THEN u - 2^n ELSE u
Sext(x, n) == Reg(Signed(x, n))
Zext(x, n) == x % 2^n
Truth(b) == IF b THEN 1 ELSE 0

----------------------------------------------------------------------------
(* Multiplication and division.                                            *)

\* mulhu64 without a wide product: four products of halves.
mulhu(a, b) ==
    LET half == 2^(XLEN \div 2)
        a0 == a % half
        a1 == a \div half
        b0 == b % half
        b1 == b \div half
        first == a1 * b0 + (a0 * b0) \div half
        second == a0 * b1 + (first % half)
    IN  a1 * b1 + first \div half + second \div half

mulh(a, b) ==
    Reg(mulhu(a, b) - (IF Signed(a, XLEN) < 0 THEN b ELSE 0)
                    - (IF Signed(b, XLEN) < 0 THEN a ELSE 0))

\* Fault: the second operand is taken as signed too.
mulhsu_BothSigned(a, b) == mulh(a, b)
mulhsu(a, b) == Reg(mulhu(a, b) - (IF Signed(a, XLEN) < 0 THEN b ELSE 0))

\* C division truncates; TLA+ division rounds down.
Quotient(a, b) ==
    LET abs(x) == IF x < 0 THEN -x ELSE x
        q == abs(a) \div abs(b)
    IN  IF (a < 0) # (b < 0) THEN -q ELSE q

\* div64 and div32: n is the width.
div(a, b, n) ==
    LET x == Signed(a, n)
        y == Signed(b, n)
    IN  CASE y = 0 -> -1
          [] x = -2^(n - 1) /\ y = -1 -> x
          [] OTHER -> Quotient(x, y)

divu(a, b, n) ==
    IF Zext(b, n) = 0 THEN 2^n - 1 ELSE Zext(a, n) \div Zext(b, n)

rem(a, b, n) ==
    LET x == Signed(a, n)
        y == Signed(b, n)
    IN  CASE y = 0 -> x
          [] x = -2^(n - 1) /\ y = -1 -> 0
          [] OTHER -> x - y * Quotient(x, y)

remu(a, b, n) ==
    IF Zext(b, n) = 0 THEN Zext(a, n) ELSE Zext(a, n) % Zext(b, n)

MulDiv(op, a, b) ==
    Reg(CASE op = "mul" -> Signed(a, XLEN) * Signed(b, XLEN)
          [] op = "mulh" -> mulh(a, b)
          [] op = "mulhsu" -> mulhsu(a, b)
          [] op = "mulhu" -> mulhu(a, b)
          [] op = "div" -> div(a, b, XLEN)
          [] op = "divu" -> divu(a, b, XLEN)
          [] op = "rem" -> rem(a, b, XLEN)
          [] op = "remu" -> remu(a, b, XLEN))

MulDivWord(op, a, b) ==
    Sext(CASE op = "mulw" -> Zext(a, WLEN) * Zext(b, WLEN)
           [] op = "divw" -> div(a, b, WLEN)
           [] op = "divuw" -> divu(a, b, WLEN)
           [] op = "remw" -> rem(a, b, WLEN)
           [] op = "remuw" -> remu(a, b, WLEN), WLEN)

----------------------------------------------------------------------------
(* Shifts and bits.                                                        *)

\* The amount of a shift of n bits; -s & (n - 1) for the other half of a
\* rotation, which is 0 when s is.
Amount(b, n) == b % n
Left(a, s, n) == (a * 2^s) % 2^n
rol(a, s, n) == Left(a, s, n) | (Zext(a, n) \div 2^((-s) % n))
ror(a, s, n) == (Zext(a, n) \div 2^s) | Left(a, (-s) % n, n)

Shift(op, a, b) ==
    LET s == Amount(b, XLEN)
    IN  CASE op = "sll" -> Left(a, s, XLEN)
          [] op = "srl" -> a \div 2^s
          [] op = "sra" -> Reg(Signed(a, XLEN) \div 2^s)
          [] op = "rol" -> rol(a, s, XLEN)
          [] op = "ror" -> ror(a, s, XLEN)
          [] op = "bset" -> a | (2^s)
          [] op = "bclr" -> a & Complement(2^s)
          [] op = "binv" -> a ^^ (2^s)
          [] op = "bext" -> (a \div 2^s) % 2

ShiftWord(op, a, b) ==
    LET s == Amount(b, WLEN)
    IN  Sext(CASE op = "sllw" -> Left(Zext(a, WLEN), s, WLEN)
               [] op = "srlw" -> Zext(a, WLEN) \div 2^s
               [] op = "sraw" -> Signed(a, WLEN) \div 2^s
               [] op = "rolw" -> rol(Zext(a, WLEN), s, WLEN)
               [] op = "rorw" -> ror(Zext(a, WLEN), s, WLEN), WLEN)

BitsOf(a, n) == {i \in 0 .. n - 1 : (a \div 2^i) % 2 = 1}
clz(a, n) == IF BitsOf(a, n) = {} THEN n ELSE n - 1 - Max(BitsOf(a, n))
ctz(a, n) == IF BitsOf(a, n) = {} THEN n ELSE Min(BitsOf(a, n))
cpop(a, n) == Cardinality(BitsOf(a, n))

ByteOf(a, i) == (a \div 2^(Byte * i)) % 2^Byte
FromBytes(f(_)) == LET term(i) == f(i) * 2^(Byte * i) IN MapThenSumSet(term, 0 .. 7)
orc_b(a) == LET f(i) == IF ByteOf(a, i) # 0 THEN 2^Byte - 1 ELSE 0 IN FromBytes(f)
rev8(a) == LET f(i) == ByteOf(a, 7 - i) IN FromBytes(f)

Unary(op, a) ==
    CASE op = "clz" -> clz(a, XLEN)
      [] op = "ctz" -> ctz(a, XLEN)
      [] op = "cpop" -> cpop(a, XLEN)
      [] op = "sext.b" -> Sext(a, Byte)
      [] op = "sext.h" -> Sext(a, HLEN)
      [] op = "zext.b" -> Zext(a, Byte)
      [] op = "zext.h" -> Zext(a, HLEN)
      [] op = "zext.w" -> Zext(a, WLEN)
      [] op = "not" -> Complement(a)
      [] op = "orc.b" -> orc_b(a)
      [] op = "rev8" -> rev8(a)
      [] op = "clzw" -> clz(Zext(a, WLEN), WLEN)
      [] op = "ctzw" -> ctz(Zext(a, WLEN), WLEN)
      [] op = "cpopw" -> cpop(Zext(a, WLEN), WLEN)

----------------------------------------------------------------------------
(* Sums, logic, comparisons and selections.                                *)

Sum(op, a, b) ==
    CASE op = "add" -> Reg(a + b)
      [] op = "sub" -> Reg(a - b)
      [] op = "addw" -> Sext(a + b, WLEN)
      [] op = "subw" -> Sext(a - b, WLEN)
      [] op = "add.uw" -> Reg(Zext(a, WLEN) + b)
      [] op = "slli.uw" -> Left(Zext(a, WLEN), Amount(b, XLEN), XLEN)
      [] op = "sh1add" -> Reg(b + a * 2)
      [] op = "sh2add" -> Reg(b + a * 4)
      [] op = "sh3add" -> Reg(b + a * 8)
      [] op = "sh1add.uw" -> Reg(b + Zext(a, WLEN) * 2)
      [] op = "sh2add.uw" -> Reg(b + Zext(a, WLEN) * 4)
      [] op = "sh3add.uw" -> Reg(b + Zext(a, WLEN) * 8)

Logic(op, a, b) ==
    CASE op = "and" -> a & b
      [] op = "or" -> a | b
      [] op = "xor" -> a ^^ b
      [] op = "andn" -> a & Complement(b)
      [] op = "orn" -> a | Complement(b)
      [] op = "xnor" -> Complement(a ^^ b)

Less(a, b) == Signed(a, XLEN) < Signed(b, XLEN)
Select(op, a, b) ==
    CASE op = "slt" -> Truth(Less(a, b))
      [] op = "sltu" -> Truth(a < b)
      [] op = "min" -> IF Less(a, b) THEN a ELSE b
      [] op = "minu" -> IF a < b THEN a ELSE b
      [] op = "max" -> IF Less(b, a) THEN a ELSE b
      [] op = "maxu" -> IF a > b THEN a ELSE b
      [] op = "czero.eqz" -> IF b = 0 THEN 0 ELSE a
      [] op = "czero.nez" -> IF b # 0 THEN 0 ELSE a

MulDivOps == {"mul", "mulh", "mulhsu", "mulhu", "div", "divu", "rem", "remu"}
MulDivWordOps == {"mulw", "divw", "divuw", "remw", "remuw"}
ShiftOps == {"sll", "srl", "sra", "rol", "ror", "bset", "bclr", "binv", "bext"}
ShiftWordOps == {"sllw", "srlw", "sraw", "rolw", "rorw"}
UnaryOps == {"clz", "ctz", "cpop", "sext.b", "sext.h", "zext.b", "zext.h", "zext.w", "not",
             "orc.b", "rev8", "clzw", "ctzw", "cpopw"}
SumOps == {"add", "sub", "addw", "subw", "add.uw", "slli.uw", "sh1add", "sh2add", "sh3add",
           "sh1add.uw", "sh2add.uw", "sh3add.uw"}
LogicOps == {"and", "or", "xor", "andn", "orn", "xnor"}
SelectOps == {"slt", "sltu", "min", "minu", "max", "maxu", "czero.eqz", "czero.nez"}
AluOps == MulDivOps \union MulDivWordOps \union ShiftOps \union ShiftWordOps \union UnaryOps
          \union SumOps \union LogicOps \union SelectOps

\* What OP, OP-IMM and their word forms leave in rd: b is the register rs2 or
\* the immediate.
Alu(op, a, b) ==
    CASE op \in MulDivOps -> MulDiv(op, a, b)
      [] op \in MulDivWordOps -> MulDivWord(op, a, b)
      [] op \in ShiftOps -> Shift(op, a, b)
      [] op \in ShiftWordOps -> ShiftWord(op, a, b)
      [] op \in UnaryOps -> Unary(op, a)
      [] op \in SumOps -> Sum(op, a, b)
      [] op \in LogicOps -> Logic(op, a, b)
      [] op \in SelectOps -> Select(op, a, b)

----------------------------------------------------------------------------
(* Atomic updates: what an AMO of n bits stores, v being the old value.    *)

AmoOps == {"swap", "add", "xor", "and", "or", "min", "max", "minu", "maxu"}
Amo(op, v, x, n) ==
    LET u == Zext(v, n)
        w == Zext(x, n)
    IN  CASE op = "swap" -> w
          [] op = "add" -> Zext(u + w, n)
          [] op = "xor" -> u ^^ w
          [] op = "and" -> u & w
          [] op = "or" -> u | w
          [] op = "min" -> IF Signed(u, n) < Signed(w, n) THEN u ELSE w
          [] op = "max" -> IF Signed(u, n) > Signed(w, n) THEN u ELSE w
          [] op = "minu" -> IF u < w THEN u ELSE w
          [] op = "maxu" -> IF u > w THEN u ELSE w

\* The conditions of the branches.
BranchOps == {"beq", "bne", "blt", "bge", "bltu", "bgeu"}
Taken(op, a, b) ==
    CASE op = "beq" -> a = b
      [] op = "bne" -> a # b
      [] op = "blt" -> Less(a, b)
      [] op = "bge" -> ~Less(a, b)
      [] op = "bltu" -> a < b
      [] op = "bgeu" -> ~(a < b)
=============================================================================
