----------------------------- MODULE FloatUnit -----------------------------
(***************************************************************************)
(* What the floating point instructions (riscv_cpu_fp_template.h and the   *)
(* fused cases of riscv_cpu_template.h) compute from their operands.       *)
(* Singles have the format S, of a word, and doubles the format D, of a    *)
(* register.  Operands and results are bit patterns; see SoftFloat.        *)
(***************************************************************************)
EXTENDS IntegerOps, Sequences

CONSTANTS SExp, DExp  \* the width of the exponents of the two formats

SMant == WLEN - 1 - SExp
DMant == XLEN - 1 - DExp
S == INSTANCE SoftFloat WITH EXP_SIZE <- SExp, MANT_SIZE <- SMant
D == INSTANCE SoftFloat WITH EXP_SIZE <- DExp, MANT_SIZE <- DMant

\* add_sf needs three guard bits and a carry above the mantissa, and
\* cvt_sf64_sf32 shifts the mantissa of D right into a word of S.
ASSUME FormatAssumption ==
    /\ SExp \in 5 .. 11 /\ DExp \in 5 .. 11 /\ SMant >= 2
    /\ DMant >= WLEN - 2 /\ DExp > SExp

F32_HIGH == 2^XLEN - 2^WLEN
Boxed(w) == w >= F32_HIGH

\* F_READ: a single that is not boxed reads as the canonical NaN; what is read
\* still has the high bits of the register.
F_READ(fmt, w) == IF fmt = "D" \/ Boxed(w) THEN w ELSE S!F_QNAN
Operand(fmt, w) == IF fmt = "S" THEN Zext(F_READ(fmt, w), WLEN) ELSE w
\* | F_HIGH on a result.
Held(fmt, v) == IF fmt = "S" THEN v + F32_HIGH ELSE v

\* -1 stands for a rounding mode that is not valid.
get_insn_rm(frm, rm) ==
    LET r == IF rm = 7 THEN frm ELSE rm IN IF r >= 5 THEN -1 ELSE r

----------------------------------------------------------------------------
(* The calls of the library for either format.                             *)

ArithmeticCall(fmt, op, a, b, rm) ==
    IF fmt = "S"
    THEN CASE op = "add" -> S!add_sf(a, b, rm)
           [] op = "sub" -> S!sub_sf(a, b, rm)
           [] op = "mul" -> S!mul_sf(a, b, rm)
           [] op = "div" -> S!div_sf(a, b, rm)
           [] op = "sqrt" -> S!sqrt_sf(a, rm)
    ELSE CASE op = "add" -> D!add_sf(a, b, rm)
           [] op = "sub" -> D!sub_sf(a, b, rm)
           [] op = "mul" -> D!mul_sf(a, b, rm)
           [] op = "div" -> D!div_sf(a, b, rm)
           [] op = "sqrt" -> D!sqrt_sf(a, rm)

Flip(fmt, a) ==
    IF fmt = "S" THEN S!Word(a + S!SIGN_MASK) ELSE D!Word(a + D!SIGN_MASK)

\* fmadd, fmsub, fnmsub and fnmadd are one call with signs flipped.
FusedOps == {"fmadd", "fmsub", "fnmsub", "fnmadd"}
FusedCall(fmt, op, a, b, c, rm) ==
    LET x == IF op \in {"fnmsub", "fnmadd"} THEN Flip(fmt, a) ELSE a
        z == IF op \in {"fmsub", "fnmadd"} THEN Flip(fmt, c) ELSE c
    IN  IF fmt = "S" THEN S!fma_sf(x, b, z, rm) ELSE D!fma_sf(x, b, z, rm)

MinMaxCall(fmt, op, a, b) ==
    IF fmt = "S" THEN IF op = "min" THEN S!min_sf(a, b) ELSE S!max_sf(a, b)
    ELSE IF op = "min" THEN D!min_sf(a, b) ELSE D!max_sf(a, b)

CompareCall(fmt, op, a, b) ==
    IF fmt = "S"
    THEN CASE op = "le" -> S!le_sf(a, b) [] op = "lt" -> S!lt_sf(a, b)
           [] op = "eq" -> S!eq_quiet_sf(a, b)
    ELSE CASE op = "le" -> D!le_sf(a, b) [] op = "lt" -> D!lt_sf(a, b)
           [] op = "eq" -> D!eq_quiet_sf(a, b)

\* cvt_sf32_sf: every single is a normal double, so nothing is rounded.
cvt_sf32_sf64(a) ==
    LET n == S!Normal(a)
    IN  IF S!isnan_sf(a) THEN D!Ret(D!F_QNAN, D!Flag(S!issignan_sf(a), "NV"))
        ELSE IF S!Exp(a) = S!EXP_MASK THEN D!Ret(D!pack_sf(S!Sign(a), D!EXP_MASK, 0), {})
        ELSE IF S!iszero(a) THEN D!Ret(D!pack_sf(S!Sign(a), 0, 0), {})
        ELSE D!Ret(D!pack_sf(S!Sign(a), n.exp - S!EXP_MASK \div 2 + D!EXP_MASK \div 2,
                             n.mant * 2^(DMant - SMant)), {})

\* cvt_sf64_sf32: for a subnormal double only the exponent is normalized.
cvt_sf64_sf32(a, rm) ==
    LET sub == D!Exp(a) = 0
        e == D!Normal(a).exp - D!EXP_MASK \div 2 + S!EXP_MASK \div 2
        m == IF sub THEN D!Mant(a) ELSE D!Mant(a) + 2^DMant
    IN  IF D!isnan_sf(a) THEN S!Ret(S!F_QNAN, S!Flag(D!issignan_sf(a), "NV"))
        ELSE IF D!Exp(a) = D!EXP_MASK THEN S!Ret(S!pack_sf(D!Sign(a), S!EXP_MASK, 0), {})
        ELSE IF D!iszero(a) THEN S!Ret(S!pack_sf(D!Sign(a), 0, 0), {})
        ELSE S!normalize_sf(D!Sign(a), e, D!rshift_rnd(m, DMant - (S!F_SIZE - 2)), rm)

\* The integer of a conversion is a word or a register, signed or not.
IntKinds == {"w", "wu", "l", "lu"}
Width(kind) == IF kind \in {"w", "wu"} THEN WLEN ELSE XLEN
IsUnsigned(kind) == kind \in {"wu", "lu"}
IntegerOf(kind, x) == IF IsUnsigned(kind) THEN Zext(x, Width(kind)) ELSE Signed(x, Width(kind))

ToIntCall(fmt, kind, a, rm) ==
    IF fmt = "S" THEN S!internal_cvt_sf_i(a, rm, IsUnsigned(kind), Width(kind))
    ELSE D!internal_cvt_sf_i(a, rm, IsUnsigned(kind), Width(kind))
FromIntCall(fmt, kind, x, rm) ==
    IF fmt = "S" THEN S!internal_cvt_i_sf(Zext(x, Width(kind)), rm, IsUnsigned(kind), Width(kind))
    ELSE D!internal_cvt_i_sf(Zext(x, Width(kind)), rm, IsUnsigned(kind), Width(kind))

\* FSIGN_MASK32 is the int 1 << 31: widened to the register, the mask of the
\* singles has every high bit set and its complement has none.
SignMask(fmt) == 2^XLEN - 2^((IF fmt = "S" THEN WLEN ELSE XLEN) - 1)
SignCall(fmt, op, v, w) ==
    LET mask == SignMask(fmt)
        x == F_READ(fmt, v)
        y == F_READ(fmt, w) & mask
    IN  CASE op = "fsgnj" -> (x & Complement(mask)) | y
          [] op = "fsgnjn" -> (x & Complement(mask)) | (y ^^ mask)
          [] op = "fsgnjx" -> x ^^ y

fclass(fmt, a) == IF fmt = "S" THEN 2^S!fclass_sf(a) ELSE 2^D!fclass_sf(a)
=============================================================================
