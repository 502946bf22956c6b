--------------------------- MODULE FloatRounding ---------------------------
(***************************************************************************)
(* What IEEE 754 asks of an operation, stated without computing it: the    *)
(* returned pattern is the neighbour of the exact real result that the     *)
(* rounding mode names, and the flags are the ones that the exact result   *)
(* calls for.  Reals never appear: an exact value is a sum of integers     *)
(* times powers of two, and only the sign of such sums is needed.          *)
(***************************************************************************)
EXTENDS Integers, Sequences, SequencesExt

CONSTANTS EXP_SIZE, MANT_SIZE

LOCAL F == INSTANCE SoftFloat

\* Magnitudes in order: pattern k stands for the value m * 2^e; the pattern
\* of infinity stands for the power of two above the largest finite value.
KInf == F!EXP_MASK * 2^MANT_SIZE
KMin == 2^MANT_SIZE
Bias == F!EXP_MASK \div 2
Magnitude(a) == a % F!SIGN_MASK

\* Quarter steps: position 4k is pattern k, 4k + 2 the middle between k and k + 1.
Place(q) ==
    LET k == q \div 4
        e == Max({k \div 2^MANT_SIZE, 1})
        m == IF k < KMin THEN k ELSE (k % 2^MANT_SIZE) + 2^MANT_SIZE
    IN  [m |-> 4 * m + (q % 4), e |-> e - Bias - MANT_SIZE - 2]

\* The exact value of a finite pattern.
Term(a) ==
    LET p == Place(4 * Magnitude(a)) IN [m |-> IF F!Sign(a) = 1 THEN -p.m ELSE p.m, e |-> p.e]

Neg(t) == [m |-> -t.m, e |-> t.e]
Abs(x) == IF x < 0 THEN -x ELSE x
Signum(x) == IF x < 0 THEN -1 ELSE IF x = 0 THEN 0 ELSE 1

\* Beyond this the terms that are still to come cannot change the sign.
Large == 2^28
Shifted(acc, gap) ==
    IF acc = 0 THEN 0
    ELSE IF gap > 28 \/ Abs(acc) >= Large \div 2^gap THEN Signum(acc) * Large
    ELSE acc * 2^gap

\* The sign of a sum of terms, from the largest exponent to the smallest.
SumSign(terms) ==
    LET Larger(s, t) == s.e > t.e
        sorted == SortSeq(terms, Larger)
        Step(acc, t) == [sum |-> Shifted(acc.sum, acc.e - t.e) + t.m, e |-> t.e]
    IN  IF terms = <<>> THEN 0
        ELSE Signum(FoldLeft(Step, [sum |-> 0, e |-> sorted[1].e], sorted).sum)

(***************************************************************************)
(* cmp(q) is the sign of |x| minus the value at position q, for the exact  *)
(* result x, which is not zero and has sign bit sign.                      *)
(***************************************************************************)
Toward(sign, rm) == rm = F!RM_RTZ \/ (rm = F!RM_RDN /\ sign = 0) \/ (rm = F!RM_RUP /\ sign = 1)
Nearest(rm) == rm \in {F!RM_RNE, F!RM_RMM}

Neighbour(cmp(_), sign, rm, k) ==
    /\ k <= KInf
    /\ IF Toward(sign, rm)
       THEN k < KInf /\ cmp(4 * k) >= 0 /\ (k = KInf - 1 \/ cmp(4 * k + 4) < 0)
       ELSE IF Nearest(rm)
       THEN LET keep == IF rm = F!RM_RNE /\ k % 2 = 0 THEN 0 ELSE 1
                take == IF rm = F!RM_RMM THEN 0 ELSE keep
            IN  /\ k = 0 \/ cmp(4 * k - 2) >= take
                /\ k = KInf \/ cmp(4 * k + 2) <= -keep
       ELSE k > 0 /\ cmp(4 * k - 4) > 0 /\ (k = KInf \/ cmp(4 * k) <= 0)

\* Tiny: rounded as if the exponent were unbounded, x is below the normals.
Tiny(cmp(_), sign, rm) ==
    IF Toward(sign, rm) THEN cmp(4 * KMin) < 0
    ELSE IF Nearest(rm) THEN cmp(4 * KMin - 1) < 0
    ELSE cmp(4 * KMin - 2) <= 0

Flags(cmp(_), sign, rm, k) ==
    LET inexact == k = KInf \/ cmp(4 * k) # 0
    IN  F!Flag(inexact, "NX")
        \union F!Flag(k = KInf \/ (k = KInf - 1 /\ cmp(4 * KInf) >= 0), "OF")
        \union F!Flag(inexact /\ Tiny(cmp, sign, rm), "UF")

Rounds(cmp(_), sign, rm, res) ==
    LET k == Magnitude(res.val)
        \* infinity in place of the largest value overflowed, so it is inexact
        fl == Flags(cmp, sign, rm, k)
    IN  /\ F!Sign(res.val) = sign
        /\ Neighbour(cmp, sign, rm, k)
        /\ res.fl = IF "OF" \in fl THEN fl \union {"NX"} ELSE fl

\* The exact sum of the terms, rounded; a sum that is zero has the sign zsign.
RoundedSum(terms, zsign, rm, res) ==
    LET s == SumSign(terms)
        sign == IF s < 0 THEN 1 ELSE 0
        size == IF s < 0 THEN [i \in DOMAIN terms |-> Neg(terms[i])] ELSE terms
        cmp(q) == SumSign(Append(size, Neg(Place(q))))
    IN  IF s = 0 THEN res = F!Ret(zsign * F!SIGN_MASK, {})
        ELSE Rounds(cmp, sign, rm, res)

Product(s, t) == [m |-> s.m * t.m, e |-> s.e + t.e]

\* num / den, both positive terms.
RoundedQuotient(num, den, sign, rm, res) ==
    LET cmp(q) == SumSign(<<num, Neg(Product(Place(q), den))>>)
    IN  Rounds(cmp, sign, rm, res)

RoundedRoot(t, rm, res) ==
    LET cmp(q) == SumSign(<<t, Neg(Product(Place(q), Place(q)))>>)
    IN  Rounds(cmp, 0, rm, res)

----------------------------------------------------------------------------
(* The operations.  zsign is the sign of an exact zero.                    *)

Inf(a) == F!Exp(a) = F!EXP_MASK /\ F!Mant(a) = 0
Zero(a) == F!iszero(a)
ZeroSign(s, t, rm) == IF s = t THEN s ELSE IF rm = F!RM_RDN THEN 1 ELSE 0
Signs(a, b) == F!Xor(F!Sign(a), F!Sign(b))

\* The result when an operand is a NaN, or when the operation is invalid.
NanCase(args) == \E a \in args : F!isnan_sf(a)
NanResult(args, res) ==
    res = F!Ret(F!F_QNAN, F!Flag(\E a \in args : F!issignan_sf(a), "NV"))
InvalidResult(res) == res = F!Ret(F!F_QNAN, {"NV"})
InfResult(sign, res) == res = F!Ret(sign * F!SIGN_MASK + KInf, {})

SumOk(a, b, rm, res) ==
    IF NanCase({a, b}) THEN NanResult({a, b}, res)
    ELSE IF Inf(a) /\ Inf(b) /\ a # b THEN InvalidResult(res)
    ELSE IF Inf(a) \/ Inf(b) THEN InfResult(F!Sign(IF Inf(a) THEN a ELSE b), res)
    ELSE RoundedSum(<<Term(a), Term(b)>>, ZeroSign(F!Sign(a), F!Sign(b), rm), rm, res)

ProductOk(a, b, rm, res) ==
    IF NanCase({a, b}) THEN NanResult({a, b}, res)
    ELSE IF (Inf(a) /\ Zero(b)) \/ (Zero(a) /\ Inf(b)) THEN InvalidResult(res)
    ELSE IF Inf(a) \/ Inf(b) THEN InfResult(Signs(a, b), res)
    ELSE RoundedSum(<<Product(Term(a), Term(b))>>, Signs(a, b), rm, res)

FusedOk(a, b, c, rm, res) ==
    LET p == Inf(a) \/ Inf(b)
    IN  IF NanCase({a, b, c}) THEN NanResult({a, b, c}, res)
        ELSE IF \/ (Inf(a) /\ Zero(b)) \/ (Zero(a) /\ Inf(b))
                \/ (p /\ Inf(c) /\ Signs(a, b) # F!Sign(c)) THEN InvalidResult(res)
        ELSE IF p \/ Inf(c) THEN InfResult(IF p THEN Signs(a, b) ELSE F!Sign(c), res)
        ELSE RoundedSum(<<Product(Term(a), Term(b)), Term(c)>>,
                        ZeroSign(Signs(a, b), F!Sign(c), rm), rm, res)

QuotientOk(a, b, rm, res) ==
    IF NanCase({a, b}) THEN NanResult({a, b}, res)
    ELSE IF (Inf(a) /\ Inf(b)) \/ (Zero(a) /\ Zero(b)) THEN InvalidResult(res)
    ELSE IF Inf(a) THEN InfResult(Signs(a, b), res)
    ELSE IF Zero(b) THEN res = F!Ret(Signs(a, b) * F!SIGN_MASK + KInf, {"DZ"})
    ELSE IF Inf(b) \/ Zero(a) THEN res = F!Ret(Signs(a, b) * F!SIGN_MASK, {})
    ELSE RoundedQuotient(Term(Magnitude(a)), Term(Magnitude(b)), Signs(a, b), rm, res)

RootOk(a, rm, res) ==
    IF NanCase({a}) THEN NanResult({a}, res)
    ELSE IF Zero(a) THEN res = F!Ret(a, {})
    ELSE IF F!Sign(a) = 1 THEN InvalidResult(res)
    ELSE IF Inf(a) THEN InfResult(0, res)
    ELSE RoundedRoot(Term(a), rm, res)

----------------------------------------------------------------------------
(* Order and integers.                                                     *)

\* The order of the numbers, in which -0 equals +0.
Key(a) == IF F!Sign(a) = 1 THEN -Magnitude(a) ELSE Magnitude(a)

\* n is x rounded to an integer: HalfSteps(k) is the sign of x - k / 2.
Integral(t, n, rm) ==
    LET HalfSteps(k) == SumSign(<<t, [m |-> -k, e |-> -1]>>)
        down == HalfSteps(2 * n) >= 0 /\ HalfSteps(2 * n + 2) < 0
        up == HalfSteps(2 * n) <= 0 /\ HalfSteps(2 * n - 2) > 0
        low == HalfSteps(2 * n - 1)
        high == HalfSteps(2 * n + 1)
    IN  CASE rm = F!RM_RDN -> down
          [] rm = F!RM_RUP -> up
          [] rm = F!RM_RTZ -> IF t.m >= 0 THEN down ELSE up
          [] rm = F!RM_RNE -> low >= 0 /\ high <= 0 /\ (n % 2 = 0 \/ (low > 0 /\ high < 0))
          [] rm = F!RM_RMM -> IF t.m >= 0 THEN (low >= 0 \/ n = 0) /\ high < 0
                              ELSE low > 0 /\ high <= 0

\* The conversion to an integer between lo and hi.
ToIntegerOk(a, rm, lo, hi, n, fl) ==
    LET t == Term(a)
        side(k) == SumSign(<<t, [m |-> -k, e |-> 0]>>)
        above == (Inf(a) /\ F!Sign(a) = 0) \/ (~Inf(a) /\ side(hi) > 0 /\ ~Integral(t, hi, rm))
        below == (Inf(a) /\ F!Sign(a) = 1) \/ (~Inf(a) /\ side(lo) < 0 /\ ~Integral(t, lo, rm))
    IN  IF F!isnan_sf(a) \/ above THEN n = hi /\ fl = {"NV"}
        ELSE IF below THEN n = lo /\ fl = {"NV"}
        ELSE Integral(t, n, rm) /\ fl = F!Flag(side(n) # 0, "NX")
============================================================================
