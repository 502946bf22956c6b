----------------------------- MODULE SoftFloat -----------------------------
(***************************************************************************)
(* The floating point library of tinyemu-core/softfp_template.h for one    *)
(* format.  The template is compiled for 32 and 64 bits; here the width of *)
(* the exponent and of the mantissa are parameters, so that TLC can run    *)
(* the same algorithm over every value of a small format.  A value is the  *)
(* number its bits spell; a result is [val, fl] with fl the set of         *)
(* exception flags that the call adds to *pfflags.                         *)
(***************************************************************************)
EXTENDS Integers, FiniteSetsExt

CONSTANTS EXP_SIZE, MANT_SIZE

F_SIZE == 1 + EXP_SIZE + MANT_SIZE
EXP_MASK == 2^EXP_SIZE - 1
MANT_MASK == 2^MANT_SIZE - 1
SIGN_MASK == 2^(F_SIZE - 1)
IMANT_SIZE == F_SIZE - 2
RND_SIZE == IMANT_SIZE - MANT_SIZE
QNAN_MASK == 2^(MANT_SIZE - 1)
F_QNAN == EXP_MASK * 2^MANT_SIZE + QNAN_MASK
F_UINT == 0 .. 2^F_SIZE - 1

\* RoundingModeEnum and the flags that an operation can add.
RM_RNE == 0
RM_RTZ == 1
RM_RDN == 2
RM_RUP == 3
RM_RMM == 4
RoundingModes == RM_RNE .. RM_RMM

----------------------------------------------------------------------------
(* Words and flags.                                                        *)

Word(x) == x % 2^F_SIZE
OrBit(x, b) == IF b /\ x % 2 = 0 THEN x + 1 ELSE x
Flag(b, f) == IF b THEN {f} ELSE {}
Ret(v, fl) == [val |-> v, fl |-> fl]
Sign(a) == a \div SIGN_MASK
Exp(a) == (a \div 2^MANT_SIZE) % 2^EXP_SIZE
Mant(a) == a % 2^MANT_SIZE
Xor(s, t) == (s + t) % 2
clz(a) == F_SIZE - Cardinality({i \in 0 .. F_SIZE - 1 : 2^i <= a})

pack_sf(a_sign, a_exp, a_mant) ==
    a_sign * SIGN_MASK + a_exp * 2^MANT_SIZE + (a_mant % 2^MANT_SIZE)

\* Shift right; the bits that leave are kept as one sticky bit.
\* Fault: a shift by the whole word loses the sticky bit.
rshift_rnd_NoSticky(a, d) == IF d >= F_SIZE THEN 0 ELSE OrBit(a \div 2^d, a % 2^d # 0)
rshift_rnd(a, d) ==
    IF d >= F_SIZE THEN (IF a # 0 THEN 1 ELSE 0)
    ELSE OrBit(a \div 2^d, a % 2^d # 0)

issignan_sf(a) == Exp(a) = EXP_MASK /\ Mant(a) # 0 /\ Mant(a) < QNAN_MASK
isnan_sf(a) == Exp(a) = EXP_MASK /\ Mant(a) # 0
iszero(a) == a % SIGN_MASK = 0

----------------------------------------------------------------------------
(* Rounding.                                                               *)

\* What is added below the last mantissa bit before it is truncated.
Addend(a_sign, rm) ==
    CASE rm \in {RM_RNE, RM_RMM} -> 2^(RND_SIZE - 1)
      [] rm = RM_RTZ -> 0
      [] OTHER -> IF Xor(a_sign, rm % 2) = 1 THEN 2^RND_SIZE - 1 ELSE 0

\* Truncation after the addend; on a tie RNE clears the last bit.
RoundMant(m, addend, rm) ==
    LET r == Word(m + addend) \div 2^RND_SIZE
    IN  IF rm = RM_RNE /\ m % 2^RND_SIZE = 2^(RND_SIZE - 1) THEN r - (r % 2) ELSE r

\* a_mant has its most significant bit at F_SIZE - 2.
round_pack_sf(a_sign, a_exp, a_mant, rm) ==
    LET addend == Addend(a_sign, rm)
        low == a_exp <= 0
        is_subnormal == a_exp < 0 \/ a_mant + addend < 2^(F_SIZE - 1)
        m == IF low THEN rshift_rnd(a_mant, 1 - a_exp) ELSE a_mant
        inexact == m % 2^RND_SIZE # 0
        r == RoundMant(m, addend, rm)
        e == (IF low THEN 1 ELSE a_exp) + r \div 2^(MANT_SIZE + 1)
        fl == Flag(low /\ is_subnormal /\ inexact, "UF") \union Flag(inexact, "NX")
    IN  IF r <= MANT_MASK THEN Ret(pack_sf(a_sign, 0, r), fl)
        ELSE IF e >= EXP_MASK
        THEN Ret(IF addend = 0 THEN pack_sf(a_sign, EXP_MASK - 1, MANT_MASK)
                               ELSE pack_sf(a_sign, EXP_MASK, 0),
                 fl \union {"OF", "NX"})
        ELSE Ret(pack_sf(a_sign, e, r), fl)

\* a_mant has at most F_SIZE - 1 bits.
normalize_sf(a_sign, a_exp, a_mant, rm) ==
    LET shift == clz(a_mant) - (F_SIZE - 1 - IMANT_SIZE)
    IN  round_pack_sf(a_sign, a_exp - shift, Word(a_mant * 2^shift), rm)

\* The same for a mantissa of two words.
normalize2_sf(a_sign, a_exp, a_mant1, a_mant0, rm) ==
    LET l == IF a_mant1 = 0 THEN F_SIZE + clz(a_mant0) ELSE clz(a_mant1)
        shift == l - (F_SIZE - 1 - IMANT_SIZE)
        m == IF shift < F_SIZE
             THEN OrBit(Word(a_mant1 * 2^shift) + a_mant0 \div 2^(F_SIZE - shift),
                        Word(a_mant0 * 2^shift) # 0)
             ELSE Word(a_mant0 * 2^(shift - F_SIZE))
    IN  round_pack_sf(a_sign, a_exp - shift, m, rm)

\* The exponent and the mantissa of a finite value that is not zero, with the
\* leading bit at MANT_SIZE (normalize_subnormal_sf for the subnormals).
Normal(a) ==
    LET shift == MANT_SIZE - (F_SIZE - 1 - clz(Mant(a)))
    IN  IF Exp(a) = 0 THEN [exp |-> 1 - shift, mant |-> Mant(a) * 2^shift]
        ELSE [exp |-> Exp(a), mant |-> Mant(a) + 2^MANT_SIZE]

----------------------------------------------------------------------------
(* Addition.                                                               *)

\* abs(a) >= abs(b).
AddOrdered(a, b, rm) ==
    LET Guarded(x) == IF Exp(x) = 0 THEN Mant(x) * 8 ELSE (Mant(x) + 2^MANT_SIZE) * 8
        ea == Max({Exp(a), 1})
        mb == rshift_rnd(Guarded(b), ea - Max({Exp(b), 1}))
        same == Sign(a) = Sign(b)
        m == IF same THEN Guarded(a) + mb ELSE Guarded(a) - mb
        sign == IF ~same /\ m = 0 THEN (IF rm = RM_RDN THEN 1 ELSE 0) ELSE Sign(a)
    IN  CASE isnan_sf(a) -> Ret(F_QNAN, Flag(issignan_sf(a) \/ issignan_sf(b), "NV"))
          [] ~isnan_sf(a) /\ Exp(a) = EXP_MASK /\ Exp(b) = EXP_MASK /\ ~same ->
                 Ret(F_QNAN, {"NV"})
          [] ~isnan_sf(a) /\ Exp(a) = EXP_MASK /\ (Exp(b) # EXP_MASK \/ same) -> Ret(a, {})
          [] OTHER -> normalize_sf(sign, ea + RND_SIZE - 3, m, rm)

add_sf(a, b, rm) ==
    IF a % SIGN_MASK < b % SIGN_MASK THEN AddOrdered(b, a, rm) ELSE AddOrdered(a, b, rm)

sub_sf(a, b, rm) == add_sf(a, (b + SIGN_MASK) % 2^F_SIZE, rm)

----------------------------------------------------------------------------
(* Multiplication and the fused form.                                      *)

\* The product of two words as two words, from the products of their halves.
FH_SIZE == F_SIZE \div 2
mul_u(a, b) ==
    LET lo(x) == x % 2^FH_SIZE
        hi(x) == x \div 2^FH_SIZE
        r01 == lo(a) * hi(b)
        r10 == hi(a) * lo(b)
        r11 == hi(a) * hi(b)
        c1 == hi(lo(a) * lo(b)) + lo(r01) + lo(r10)
        c2 == hi(c1) + hi(r01) + hi(r10) + lo(r11)
    IN  [high |-> lo(hi(c2) + hi(r11)) * 2^FH_SIZE + lo(c2),
         low |-> lo(c1) * 2^FH_SIZE + lo(lo(a) * lo(b))]

mul_sf(a, b, rm) ==
    LET sign == Xor(Sign(a), Sign(b))
        inf(x) == Exp(x) = EXP_MASK
        na == Normal(a)
        nb == Normal(b)
        p == mul_u(na.mant * 2^RND_SIZE, nb.mant * 2^(RND_SIZE + 1))
    IN  IF isnan_sf(a) \/ isnan_sf(b)
        THEN Ret(F_QNAN, Flag(issignan_sf(a) \/ issignan_sf(b), "NV"))
        ELSE IF inf(a) \/ inf(b)
        THEN IF iszero(a) \/ iszero(b) THEN Ret(F_QNAN, {"NV"})
             ELSE Ret(pack_sf(sign, EXP_MASK, 0), {})
        ELSE IF iszero(a) \/ iszero(b) THEN Ret(pack_sf(sign, 0, 0), {})
        ELSE normalize_sf(sign, na.exp + nb.exp - 2^(EXP_SIZE - 1) + 2,
                          OrBit(p.high, p.low # 0), rm)

\* c_mant shifted right by the difference of the exponents, over two words.
AlignPair(m1, m0, shift) ==
    CASE shift >= 2 * F_SIZE -> [m1 |-> 0, m0 |-> IF m0 + m1 # 0 THEN 1 ELSE 0]
      [] shift > F_SIZE /\ shift < 2 * F_SIZE ->
             [m1 |-> 0, m0 |-> rshift_rnd(m1, shift - F_SIZE)]
      [] shift = F_SIZE -> [m1 |-> 0, m0 |-> OrBit(m1, m0 # 0)]
      [] shift \in 1 .. F_SIZE - 1 ->
             [m1 |-> m1 \div 2^shift,
              m0 |-> OrBit(Word(m1 * 2^(F_SIZE - shift)) + m0 \div 2^shift, m0 % 2^shift # 0)]
      [] OTHER -> [m1 |-> m1, m0 |-> m0]

\* The sum of the larger r and the aligned c, both [sign, exp, m1, m0].
FusedSum(r, c, rm) ==
    LET s == AlignPair(c.m1, c.m0, r.exp - c.exp)
        same == r.sign = c.sign
        m0 == Word(IF same THEN r.m0 + s.m0 ELSE r.m0 - s.m0)
        m1 == Word(IF same THEN r.m1 + s.m1 + (IF m0 < s.m0 THEN 1 ELSE 0)
                   ELSE r.m1 - s.m1 - (IF m0 > r.m0 THEN 1 ELSE 0))
        sign == IF ~same /\ m0 = 0 /\ m1 = 0 THEN (IF rm = RM_RDN THEN 1 ELSE 0) ELSE r.sign
    IN  normalize2_sf(sign, r.exp, m1, m0, rm)

\* The product of two finite values that are not zero, leading bit at F_SIZE - 3.
FusedProduct(a, b) ==
    LET na == Normal(a)
        nb == Normal(b)
        p == mul_u(na.mant * 2^RND_SIZE, nb.mant * 2^RND_SIZE)
        e == na.exp + nb.exp - 2^(EXP_SIZE - 1) + 3
        s == Xor(Sign(a), Sign(b))
    IN  IF p.high < 2^(F_SIZE - 3)
        THEN [sign |-> s, exp |-> e - 1, m1 |-> p.high * 2 + p.low \div 2^(F_SIZE - 1),
              m0 |-> Word(p.low * 2)]
        ELSE [sign |-> s, exp |-> e, m1 |-> p.high, m0 |-> p.low]

FusedFinite(a, b, c, rm) ==
    LET r == FusedProduct(a, b)
        nc == Normal(c)
        cc == [sign |-> Sign(c), exp |-> nc.exp + 1, m1 |-> nc.mant * 2^(RND_SIZE - 1), m0 |-> 0]
    IN  IF iszero(c) THEN normalize_sf(r.sign, r.exp, OrBit(r.m1, r.m0 # 0), rm)
        ELSE IF r.exp > cc.exp \/ (r.exp = cc.exp /\ r.m1 >= cc.m1)
        THEN FusedSum(r, cc, rm) ELSE FusedSum(cc, r, rm)

fma_sf(a, b, c, rm) ==
    LET sign == Xor(Sign(a), Sign(b))
        inf(x) == Exp(x) = EXP_MASK
        p_inf == inf(a) \/ inf(b)
        p_zero == iszero(a) \/ iszero(b)
    IN  IF \E x \in {a, b, c} : isnan_sf(x)
        THEN Ret(F_QNAN, Flag(\E x \in {a, b, c} : issignan_sf(x), "NV"))
        ELSE IF p_inf /\ (p_zero \/ (inf(c) /\ sign # Sign(c))) THEN Ret(F_QNAN, {"NV"})
        ELSE IF inf(c) THEN Ret(pack_sf(Sign(c), EXP_MASK, 0), {})
        ELSE IF p_inf THEN Ret(pack_sf(sign, EXP_MASK, 0), {})
        ELSE IF p_zero /\ iszero(c)
        THEN Ret(pack_sf(IF Sign(c) = sign THEN sign ELSE IF rm = RM_RDN THEN 1 ELSE 0, 0, 0), {})
        ELSE IF p_zero THEN Ret(c, {})
        ELSE FusedFinite(a, b, c, rm)

----------------------------------------------------------------------------
(* Division and square root.                                               *)

divrem_u(a, b) == [q |-> (a * 2^F_SIZE) \div b, r |-> (a * 2^F_SIZE) % b]

div_sf(a, b, rm) ==
    LET sign == Xor(Sign(a), Sign(b))
        inf(x) == Exp(x) = EXP_MASK
        na == Normal(a)
        nb == Normal(b)
        d == divrem_u(na.mant, nb.mant * 4)
    IN  IF isnan_sf(a) \/ isnan_sf(b)
        THEN Ret(F_QNAN, Flag(issignan_sf(a) \/ issignan_sf(b), "NV"))
        ELSE IF inf(a) THEN IF inf(b) THEN Ret(F_QNAN, {"NV"})
                            ELSE Ret(pack_sf(sign, EXP_MASK, 0), {})
        ELSE IF inf(b) THEN Ret(pack_sf(sign, 0, 0), {})
        ELSE IF iszero(b) THEN IF iszero(a) THEN Ret(F_QNAN, {"NV"})
                               ELSE Ret(pack_sf(sign, EXP_MASK, 0), {"DZ"})
        ELSE IF iszero(a) THEN Ret(pack_sf(sign, 0, 0), {})
        ELSE normalize_sf(sign, na.exp - nb.exp + 2^(EXP_SIZE - 1) - 1,
                          OrBit(d.q, d.r # 0), rm)

\* Newton's iteration from above, as sqrtrem_u runs it: it stops when the
\* next estimate no longer falls.
Newton[a \in Nat, s \in Nat] ==
    LET u == (a \div s + s) \div 2 IN IF u >= s THEN s ELSE Newton[a, u]

\* The first estimate is a power of two not below the root.
sqrtrem_u(a) ==
    LET l == CHOOSE i \in 0 .. 2 * F_SIZE : 2^i >= a /\ \A j \in 0 .. i - 1 : 2^j < a
        s == Newton[a, 2^((l + 1) \div 2)]
    IN  [root |-> s, inexact |-> s * s # a]

sqrt_sf(a, rm) ==
    LET n == Normal(a)
        e == n.exp - EXP_MASK \div 2
        even == IF e % 2 = 0 THEN [e |-> e, m |-> n.mant] ELSE [e |-> e - 1, m |-> n.mant * 2]
        q == sqrtrem_u(even.m * 2^(F_SIZE - 4 - MANT_SIZE) * 2^F_SIZE)
    IN  IF isnan_sf(a) THEN Ret(F_QNAN, Flag(issignan_sf(a), "NV"))
        ELSE IF iszero(a) THEN Ret(a, {})
        ELSE IF Sign(a) = 1 THEN Ret(F_QNAN, {"NV"})
        ELSE IF Exp(a) = EXP_MASK THEN Ret(a, {})
        ELSE normalize_sf(0, even.e \div 2 + EXP_MASK \div 2, OrBit(q.root, q.inexact), rm)

----------------------------------------------------------------------------
(* Comparisons.                                                            *)

\* minmax_type is FMINMAX_IEEE754_201X in every call: a number beats a NaN.
min_max_nan_sf(a, b) ==
    Ret(IF ~isnan_sf(a) THEN a ELSE IF ~isnan_sf(b) THEN b ELSE F_QNAN,
        Flag(issignan_sf(a) \/ issignan_sf(b), "NV"))

\* (a < b) ^ a_sign on the bit patterns.
\* Fault: the sign does not turn the order around.
Below_BitOrder(a, b) == IF Sign(a) # Sign(b) THEN Sign(a) = 1 ELSE a < b
Below(a, b) == IF Sign(a) # Sign(b) THEN Sign(a) = 1 ELSE (a < b) # (Sign(a) = 1)

min_sf(a, b) ==
    IF isnan_sf(a) \/ isnan_sf(b) THEN min_max_nan_sf(a, b)
    ELSE Ret(IF Below(a, b) THEN a ELSE b, {})

max_sf(a, b) ==
    IF isnan_sf(a) \/ isnan_sf(b) THEN min_max_nan_sf(a, b)
    ELSE Ret(IF Below(a, b) THEN b ELSE a, {})

eq_quiet_sf(a, b) ==
    IF isnan_sf(a) \/ isnan_sf(b) THEN Ret(0, Flag(issignan_sf(a) \/ issignan_sf(b), "NV"))
    ELSE Ret(IF (iszero(a) /\ iszero(b)) \/ a = b THEN 1 ELSE 0, {})

le_sf(a, b) ==
    LET yes == IF Sign(a) # Sign(b) THEN Sign(a) = 1 \/ (iszero(a) /\ iszero(b))
               ELSE IF Sign(a) = 1 THEN a >= b ELSE a <= b
    IN  IF isnan_sf(a) \/ isnan_sf(b) THEN Ret(0, {"NV"}) ELSE Ret(IF yes THEN 1 ELSE 0, {})

lt_sf(a, b) ==
    LET yes == IF Sign(a) # Sign(b) THEN Sign(a) = 1 /\ ~(iszero(a) /\ iszero(b))
               ELSE IF Sign(a) = 1 THEN a > b ELSE a < b
    IN  IF isnan_sf(a) \/ isnan_sf(b) THEN Ret(0, {"NV"}) ELSE Ret(IF yes THEN 1 ELSE 0, {})

\* The bit number of FCLASS_x.
fclass_sf(a) ==
    LET side(neg, pos) == IF Sign(a) = 1 THEN neg ELSE pos
    IN  IF isnan_sf(a) THEN IF issignan_sf(a) THEN 8 ELSE 9
        ELSE IF Exp(a) = EXP_MASK THEN side(0, 7)
        ELSE IF iszero(a) THEN side(3, 4)
        ELSE IF Exp(a) = 0 THEN side(2, 5)
        ELSE side(1, 6)

----------------------------------------------------------------------------
(* Conversions with integers of ICVT_SIZE = n bits.                        *)

\* internal_cvt_sf_i: the bit pattern of the integer.
\* Fault: the rounded value is clamped after the inexact flag is raised.
internal_cvt_sf_i_ClampLate(a, rm, is_unsigned, n) ==
    LET sign == IF isnan_sf(a) THEN 0 ELSE Sign(a)
        mant == IF Exp(a) = 0 THEN Mant(a) ELSE Mant(a) + 2^MANT_SIZE
        e == Max({Exp(a), 1}) - EXP_MASK \div 2 - MANT_SIZE
        r_max == IF is_unsigned THEN (sign - 1) % 2^n ELSE 2^(n - 1) - (1 - sign)
        m == rshift_rnd(mant * 2^RND_SIZE, -e)
        r == IF e >= 0 THEN mant * 2^e ELSE RoundMant(m, Addend(sign, rm), rm)
        fl == Flag(e < 0 /\ m % 2^RND_SIZE # 0, "NX")
    IN  IF (e >= 0 /\ e > n - 1 - MANT_SIZE) \/ r > r_max THEN Ret(r_max, fl \union {"NV"})
        ELSE Ret(IF sign = 1 THEN (-r) % 2^n ELSE r, fl)
internal_cvt_sf_i(a, rm, is_unsigned, n) ==
    LET sign == IF isnan_sf(a) THEN 0 ELSE Sign(a)
        mant == IF Exp(a) = 0 THEN Mant(a) ELSE Mant(a) + 2^MANT_SIZE
        e == Max({Exp(a), 1}) - EXP_MASK \div 2 - MANT_SIZE
        r_max == IF is_unsigned THEN (sign - 1) % 2^n ELSE 2^(n - 1) - (1 - sign)
        m == rshift_rnd(mant * 2^RND_SIZE, -e)
        r == IF e >= 0 THEN mant * 2^e ELSE RoundMant(m, Addend(sign, rm), rm)
    IN  IF (e >= 0 /\ e > n - 1 - MANT_SIZE) \/ r > r_max THEN Ret(r_max, {"NV"})
        ELSE Ret(IF sign = 1 THEN (-r) % 2^n ELSE r,
                 Flag(e < 0 /\ m % 2^RND_SIZE # 0, "NX"))

\* internal_cvt_i_sf: a is the bit pattern of the integer.
internal_cvt_i_sf(a, rm, is_unsigned, n) ==
    LET sign == IF ~is_unsigned /\ a >= 2^(n - 1) THEN 1 ELSE 0
        r == IF sign = 1 THEN (-a) % 2^n ELSE a
        bits == Cardinality({i \in 0 .. n - 1 : 2^i <= r})
        l == Max({bits - (F_SIZE - 1), 0})
    IN  normalize_sf(sign, EXP_MASK \div 2 + F_SIZE - 2 + l, OrBit(r \div 2^l, r % 2^l # 0), rm)
============================================================================
