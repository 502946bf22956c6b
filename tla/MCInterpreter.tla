--------------------------- MODULE MCInterpreter ---------------------------
(***************************************************************************)
(* Programs of one to three instructions, each started from the operands   *)
(* that exercise it: bytes of two bits, so registers of 16, singles of 8   *)
(* bits with a mantissa of 2 and doubles of 16 with a mantissa of 9.       *)
(***************************************************************************)
EXTENDS InterpreterChecks

\* Boundary values of a register: around 0, byte, word and sign.
MCValues ==
    {0, 1, 2, 3, 5, 15, 127, 128, 129, 255, 256, 21845, 32767, 32768, 33023, 65408, 65534, 65535}

\* Around zero, the subnormals, the smallest normals, one, the powers of two
\* that fit in no integer, the largest value, infinity and the NaNs.
MCMagnitudes == {0, 1, 2, 3, 4, 5, 7, 8, 13, 32, 59, 60, 61, 63, 66, 76, 90, 120, 122, 123,
                 124, 125, 126}
MCSingles == {m + s * 128 : m \in MCMagnitudes, s \in {0, 1}}
MCFused == {0, 1, 3, 5, 33, 60, 61, 90, 123, 124, 129, 133, 188, 189, 251, 252, 126}
MCDoubles == {0, 1, 511, 512, 513, 1023, 15872, 15873, 16127, 20000, 31743, 32255, 32256, 32700,
              32768, 33280, 48640, 64511, 65024, 65300}
\* Doubles around the edges of the singles: a single's exponent e is the
\* double's e + 16.
MCNarrowed ==
    {e * 512 + m : e \in {0, 1, 12, 13, 14, 15, 16, 17, 18, 31, 46, 47, 62, 63},
                   m \in {0, 1, 63, 64, 65, 127, 128, 129, 192, 256, 447, 448, 511}}

Modes == 0 .. 4
Boxing(s) == s + F32_HIGH

\* Plain programs.
Fp(f, op, fmt, rm) ==
    [f |-> f, op |-> op, fmt |-> fmt, rd |-> 4, rs1 |-> 1, rs2 |-> 2, rs3 |-> 3, rm |-> rm]
Atomic(op, size, rd) == [f |-> "amo", op |-> op, size |-> size, rd |-> rd, rs1 |-> 10, rs2 |-> 6]
AluPrograms ==
    {<<OpReg(op, 7, 5, 6)>> : op \in AluOps}
    \union {<<OpImm(op, rd, 5, -1)>> : op \in {"add", "and", "sra", "ror", "addw"}, rd \in {0, 7}}
ControlPrograms ==
    {<<Branch(op, 5, 6, -8)>> : op \in BranchOps}
    \union {<<Jal(1, 2046), Jalr(rd, rs1, -1)>> : rd \in {0, 1}, rs1 \in {1, 5}}
    \union {<<Lui(7, -4096), [f |-> "auipc", rd |-> 7, imm |-> 4096], Nop, Ebreak>>}
MemoryPrograms ==
    {<<Load(size, sgn, 7, 10, imm)>> : size \in {1, 2, 4, 8}, sgn \in BOOLEAN, imm \in {0, -1}}
    \union {<<Store(size, 6, 10, imm), Load(8, TRUE, 7, 10, 0)>> :
               size \in {1, 2, 4, 8}, imm \in {0, -1}}
    \union {<<FpLoad(size, 4, 10, 0), FpStore(size, 4, 10, 2)>> : size \in {4, 8}}
AtomicPrograms ==
    {<<Atomic(op, size, rd)>> : op \in AmoOps \union {"lr", "sc"}, size \in {4, 8}, rd \in {0, 7}}
    \union {<<Atomic("lr", s, 8), Atomic("sc", t, 7), Atomic("sc", t, 9)>> : s, t \in {4, 8}}
FpPrograms ==
    {<<Fp("farith", op, fmt, rm)>> : op \in {"add", "sub", "mul", "div", "sqrt"}, fmt \in {"S", "D"},
                                     rm \in Modes}
    \union {<<Fp("fused", op, "S", rm)>> : op \in FusedOps, rm \in Modes}
    \union {<<Fp("fused", op, "D", rm)>> : op \in FusedOps, rm \in {0}}
    \union {<<Fp("ftoint", k, fmt, rm)>> : k \in IntKinds, fmt \in {"S", "D"}, rm \in Modes}
    \union {<<Fp("ffromint", k, fmt, rm)>> : k \in IntKinds, fmt \in {"S", "D"}, rm \in Modes}
    \union {<<Fp("fcvt", "", fmt, rm)>> : fmt \in {"S", "D"}, rm \in Modes}
    \union {<<Fp("fminmax", op, fmt, 0)>> : op \in {"min", "max"}, fmt \in {"S", "D"}}
    \union {<<Fp("fcmp", op, fmt, 0)>> : op \in {"le", "lt", "eq"}, fmt \in {"S", "D"}}
    \union {<<Fp(f, "", fmt, 0)>> : f \in {"fmvx", "fclass", "fmvf"}, fmt \in {"S", "D"}}
    \union {<<Fp("fsgn", op, fmt, 0)>> : op \in {"fsgnj", "fsgnjn", "fsgnjx"}, fmt \in {"S", "D"}}
    \union {<<Fp("farith", "add", "S", rm)>> : rm \in {5, 7}}
CompressedPrograms == {<<[f |-> "c16", bits |-> n]>> : n \in {m \in 0 .. 65535 : m % 4 # 3}}

MCPrograms ==
    AluPrograms \union ControlPrograms \union MemoryPrograms \union AtomicPrograms
    \union FpPrograms \union CompressedPrograms

----------------------------------------------------------------------------
(* Where they start.                                                       *)

Base ==
    [pc |-> 32, reg |-> [r \in Regs |-> 4 * r - (r % 3)], fp_reg |-> [r \in Regs |-> Boxing(60 + r)],
     fflags |-> {}, frm |-> 3, fs |-> 1, mem |-> [a \in 0 .. RamSize - 1 |-> (3 * a + a \div 4) % 4],
     dev |-> [a \in {0, 4} |-> 85 + a], res |-> [valid |-> FALSE, addr |-> 0, size |-> 4],
     trap |-> NoTrap, service |-> FALSE, stop |-> FALSE, wtlb |-> FALSE]

Pair(a, b) == [Base EXCEPT !.reg[0] = 0, !.reg[5] = a, !.reg[6] = b]
Pairs(V) == {Pair(a, b) : a, b \in V}
FpPair(a, b, c) ==
    [Base EXCEPT !.reg[0] = 0, !.fp_reg[1] = a, !.fp_reg[2] = b, !.fp_reg[3] = c]
\* Aligned, misaligned, across the end of RAM, around the address space, and
\* the two registers of the device.
Addresses == {0, 1, 3, 6, 8, 61, 62, 63, 64, DevBase, DevBase + 4, 65535}

StartsOfFp(i) ==
    IF i.f = "ffromint" \/ i.f = "fmvf" THEN {[Pair(a, 0) EXCEPT !.reg[1] = a] : a \in MCValues}
    ELSE IF i.f = "fused"
    THEN IF i.fmt = "S" THEN {FpPair(Boxing(a), Boxing(b), Boxing(c)) : a, b, c \in MCFused}
         ELSE {FpPair(a, b, c) : a, b, c \in {1, 513, 15873, 32255, 48640, 65024}}
    ELSE IF i.f = "fcvt" /\ i.fmt = "S"
    THEN {FpPair(d + s * 32768, 0, 0) : d \in MCNarrowed, s \in {0, 1}}
    ELSE IF i.f \in {"ftoint", "fcvt", "fmvx", "fclass"} \/ i.op = "sqrt"
    THEN IF i.fmt = "S" \/ i.f = "fcvt"
         THEN {FpPair(Boxing(s), 0, 0) : s \in 0 .. 255} \union {FpPair(60, 0, 0)}
         ELSE {FpPair(d, 0, 0) : d \in MCDoubles}
    ELSE IF i.rm > 4
    THEN {[FpPair(Boxing(60), Boxing(1), 0) EXCEPT !.fs = x, !.frm = m] : x \in {0, 3}, m \in 3 .. 6}
    ELSE IF i.fmt = "S"
    THEN {FpPair(Boxing(a), Boxing(b), 0) : a, b \in MCSingles}
         \union {FpPair(60, Boxing(b), 0) : b \in {60, 188}}
    ELSE {FpPair(a, b, 0) : a, b \in MCDoubles}

\* Memory: with and without a request already pending, an entry in the write
\* TLB, the floating point unit and a reservation.
StartsOfMemory ==
    {[Base EXCEPT !.reg[0] = 0, !.reg[10] = a, !.reg[6] = v, !.service = s, !.wtlb = w,
                  !.fs = IF s THEN 0 ELSE 1, !.res = [valid |-> w, addr |-> 8, size |-> 4]] :
        a \in Addresses, v \in {0, 1, 33023, 65535}, s, w \in BOOLEAN}

MCStarts(program) ==
    LET i == Head(program)
    IN  IF i.f \in FpForms THEN StartsOfFp(i)
        ELSE IF i.f \in {"reg", "imm", "branch"} THEN Pairs(MCValues)
        ELSE IF i.f = "c16"
        THEN {[Base EXCEPT !.reg[0] = 0]}
        ELSE IF i.f \in {"load", "store", "fload", "amo"} THEN StartsOfMemory
        ELSE {Pair(a, 0) : a \in {0, 7, 65535}}
=============================================================================
