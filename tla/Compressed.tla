----------------------------- MODULE Compressed -----------------------------
(***************************************************************************)
(* The forms of instruction that the interpreter executes, and the decoder *)
(* of the 16 bit encodings (the C_QUADRANT cases of riscv_cpu_template.h). *)
(* A decoded instruction is [name, i] with i one of the forms below; an    *)
(* encoding that the interpreter rejects decodes to Illegal.               *)
(***************************************************************************)
EXTENDS Integers

\* Integer forms: the operation is one of AluOps, b is rs2 or imm.
OpReg(op, rd, rs1, rs2) == [f |-> "reg", op |-> op, rd |-> rd, rs1 |-> rs1, rs2 |-> rs2]
OpImm(op, rd, rs1, imm) == [f |-> "imm", op |-> op, rd |-> rd, rs1 |-> rs1, imm |-> imm]
\* size is a number of bytes.
Load(size, sgn, rd, rs1, imm) ==
    [f |-> "load", size |-> size, sgn |-> sgn, rd |-> rd, rs1 |-> rs1, imm |-> imm]
Store(size, rs2, rs1, imm) ==
    [f |-> "store", size |-> size, rs2 |-> rs2, rs1 |-> rs1, imm |-> imm]
FpLoad(size, rd, rs1, imm) == [f |-> "fload", size |-> size, rd |-> rd, rs1 |-> rs1, imm |-> imm]
FpStore(size, rs2, rs1, imm) ==
    [f |-> "fstore", size |-> size, rs2 |-> rs2, rs1 |-> rs1, imm |-> imm]
Branch(op, rs1, rs2, imm) == [f |-> "branch", op |-> op, rs1 |-> rs1, rs2 |-> rs2, imm |-> imm]
Jal(rd, imm) == [f |-> "jal", rd |-> rd, imm |-> imm]
Jalr(rd, rs1, imm) == [f |-> "jalr", rd |-> rd, rs1 |-> rs1, imm |-> imm]
Lui(rd, imm) == [f |-> "lui", rd |-> rd, imm |-> imm]
Nop == [f |-> "nop"]
Ebreak == [f |-> "ebreak"]
IllegalForm == [f |-> "illegal"]

Is(name, i) == [name |-> name, i |-> i]
Illegal == Is("illegal", IllegalForm)

----------------------------------------------------------------------------
(* Fields.                                                                 *)

get_field1(val, src_pos, dst_pos, dst_pos_max) ==
    ((val \div 2^src_pos) % 2^(dst_pos_max - dst_pos + 1)) * 2^dst_pos

sext(val, n) == LET u == val % 2^n IN IF u >= 2^(n - 1) THEN u - 2^n ELSE u

Field(insn, pos, bits) == (insn \div 2^pos) % 2^bits
\* A register of three bits is one of x8 .. x15.
Short(insn, pos) == Field(insn, pos, 3) + 8

\* The immediates that several encodings share.
Imm6(insn) == sext(get_field1(insn, 12, 5, 5) + get_field1(insn, 2, 0, 4), 6)
Shamt(insn) == get_field1(insn, 12, 5, 5) + get_field1(insn, 2, 0, 4)
WordOffset(insn) ==
    get_field1(insn, 10, 3, 5) + get_field1(insn, 6, 2, 2) + get_field1(insn, 5, 6, 6)
DoubleOffset(insn) == get_field1(insn, 10, 3, 5) + get_field1(insn, 5, 6, 7)
BranchOffset(insn) ==
    sext(get_field1(insn, 12, 8, 8) + get_field1(insn, 10, 3, 4) + get_field1(insn, 5, 6, 7)
         + get_field1(insn, 3, 1, 2) + get_field1(insn, 2, 5, 5), 9)

\* c.j, c.addi4spn, c.addi16sp and c.lui.
\* Fault: bits 6 and 7 of the offset change places.
JumpOffset_Swapped(insn) ==
    sext(get_field1(insn, 12, 11, 11) + get_field1(insn, 11, 4, 4) + get_field1(insn, 9, 8, 9)
         + get_field1(insn, 8, 10, 10) + get_field1(insn, 6, 6, 7)
         + get_field1(insn, 3, 1, 3) + get_field1(insn, 2, 5, 5), 12)
JumpOffset(insn) ==
    sext(get_field1(insn, 12, 11, 11) + get_field1(insn, 11, 4, 4) + get_field1(insn, 9, 8, 9)
         + get_field1(insn, 8, 10, 10) + get_field1(insn, 7, 6, 6) + get_field1(insn, 6, 7, 7)
         + get_field1(insn, 3, 1, 3) + get_field1(insn, 2, 5, 5), 12)
Addi4spn(insn) ==
    get_field1(insn, 11, 4, 5) + get_field1(insn, 7, 6, 9) + get_field1(insn, 6, 2, 2)
    + get_field1(insn, 5, 3, 3)
Addi16sp(insn) ==
    sext(get_field1(insn, 12, 9, 9) + get_field1(insn, 6, 4, 4) + get_field1(insn, 5, 6, 6)
         + get_field1(insn, 3, 7, 8) + get_field1(insn, 2, 5, 5), 10)
LuiImm(insn) == sext(get_field1(insn, 12, 17, 17) + get_field1(insn, 2, 12, 16), 18)

\* Offsets from the stack pointer.
LoadWordSp(insn) ==
    get_field1(insn, 12, 5, 5) + get_field1(insn, 4, 2, 4) + get_field1(insn, 2, 6, 7)
LoadDoubleSp(insn) ==
    get_field1(insn, 12, 5, 5) + get_field1(insn, 5, 3, 4) + get_field1(insn, 2, 6, 8)
StoreWordSp(insn) == get_field1(insn, 9, 2, 5) + get_field1(insn, 7, 6, 7)
StoreDoubleSp(insn) == get_field1(insn, 10, 3, 5) + get_field1(insn, 7, 6, 8)

----------------------------------------------------------------------------
(* The three quadrants.                                                    *)

\* Zcb loads and stores; halfwords ignore bit 6 of the offset.
ZcbMemory(insn) ==
    LET rd == Short(insn, 2)
        rs1 == Short(insn, 7)
        imm == get_field1(insn, 6, 0, 0) + get_field1(insn, 5, 1, 1)
        half == get_field1(insn, 5, 1, 1)
        kind == Field(insn, 10, 3)
    IN  CASE kind = 0 -> Is("c.lbu", Load(1, FALSE, rd, rs1, imm))
          [] kind = 1 -> Is("c.lh", Load(2, Field(insn, 6, 1) = 1, rd, rs1, half))
          [] kind = 2 -> Is("c.sb", Store(1, rd, rs1, imm))
          [] kind = 3 /\ Field(insn, 6, 1) = 0 -> Is("c.sh", Store(2, rd, rs1, half))
          [] OTHER -> Illegal

Quadrant0(insn) ==
    LET rd == Short(insn, 2)
        rs1 == Short(insn, 7)
        funct3 == Field(insn, 13, 3)
    IN  CASE funct3 = 0 -> IF Addi4spn(insn) = 0 THEN Illegal
                           ELSE Is("c.addi4spn", OpImm("add", rd, 2, Addi4spn(insn)))
          [] funct3 = 1 -> Is("c.fld", FpLoad(8, rd, rs1, DoubleOffset(insn)))
          [] funct3 = 2 -> Is("c.lw", Load(4, TRUE, rd, rs1, WordOffset(insn)))
          [] funct3 = 3 -> Is("c.ld", Load(8, TRUE, rd, rs1, DoubleOffset(insn)))
          [] funct3 = 4 -> ZcbMemory(insn)
          [] funct3 = 5 -> Is("c.fsd", FpStore(8, rd, rs1, DoubleOffset(insn)))
          [] funct3 = 6 -> Is("c.sw", Store(4, rd, rs1, WordOffset(insn)))
          [] funct3 = 7 -> Is("c.sd", Store(8, rd, rs1, DoubleOffset(insn)))

\* rd = 0 is a hint; c.lui with a zero immediate is c.mop.n or reserved.
StackOrLui(insn) ==
    LET rd == Field(insn, 7, 5)
    IN  CASE rd = 2 -> IF Addi16sp(insn) = 0 THEN Illegal
                       ELSE Is("c.addi16sp", OpImm("add", 2, 2, Addi16sp(insn)))
          [] rd = 0 -> Is("c.nop", Nop)
          [] OTHER -> IF LuiImm(insn) # 0 THEN Is("c.lui", Lui(rd, LuiImm(insn)))
                      ELSE IF rd % 2 = 0 \/ rd > 15 THEN Illegal ELSE Is("c.mop", Nop)

ArithmeticOps == <<"sub", "xor", "or", "and", "subw", "addw", "mul">>
ZcbUnary == <<"zext.b", "sext.b", "zext.h", "sext.h", "zext.w", "not">>

Arithmetic(insn) ==
    LET rd == Short(insn, 7)
        kind == Field(insn, 10, 2)
        op == Field(insn, 5, 2) + 4 * Field(insn, 12, 1)
        unary == Field(insn, 2, 3)
    IN  CASE kind = 0 -> Is("c.srli", OpImm("srl", rd, rd, Shamt(insn)))
          [] kind = 1 -> Is("c.srai", OpImm("sra", rd, rd, Shamt(insn)))
          [] kind = 2 -> Is("c.andi", OpImm("and", rd, rd, Imm6(insn)))
          [] kind = 3 /\ op < 7 ->
                 Is("c.op", OpReg(ArithmeticOps[op + 1], rd, rd, Short(insn, 2)))
          [] kind = 3 /\ op = 7 ->
                 IF unary > 5 THEN Illegal
                 ELSE Is("c.unary", OpImm(ZcbUnary[unary + 1], rd, rd, 0))

\* addi, addiw and li to x0 do nothing.
Quadrant1(insn) ==
    LET rd == Field(insn, 7, 5)
        funct3 == Field(insn, 13, 3)
        unless0(c) == IF rd = 0 THEN Is("c.nop", Nop) ELSE c
    IN  CASE funct3 = 0 -> unless0(Is("c.addi", OpImm("add", rd, rd, Imm6(insn))))
          [] funct3 = 1 -> unless0(Is("c.addiw", OpImm("addw", rd, rd, Imm6(insn))))
          [] funct3 = 2 -> unless0(Is("c.li", OpImm("add", rd, 0, Imm6(insn))))
          [] funct3 = 3 -> StackOrLui(insn)
          [] funct3 = 4 -> Arithmetic(insn)
          [] funct3 = 5 -> Is("c.j", Jal(0, JumpOffset(insn)))
          [] funct3 = 6 -> Is("c.beqz", Branch("beq", Short(insn, 7), 0, BranchOffset(insn)))
          [] funct3 = 7 -> Is("c.bnez", Branch("bne", Short(insn, 7), 0, BranchOffset(insn)))

\* funct3 = 4: c.jr, c.mv, c.ebreak, c.jalr and c.add.
JumpOrMove(insn) ==
    LET rd == Field(insn, 7, 5)
        rs2 == Field(insn, 2, 5)
        link == Field(insn, 12, 1) = 1
    IN  CASE rs2 = 0 /\ rd = 0 -> IF link THEN Is("c.ebreak", Ebreak) ELSE Illegal
          [] rs2 = 0 /\ rd # 0 -> Is("c.jr", Jalr(IF link THEN 1 ELSE 0, rd, 0))
          [] OTHER -> Is("c.mv", OpReg("add", rd, IF link THEN rd ELSE 0, rs2))

Quadrant2(insn) ==
    LET rd == Field(insn, 7, 5)
        rs2 == Field(insn, 2, 5)
        funct3 == Field(insn, 13, 3)
    IN  CASE funct3 = 0 -> Is("c.slli", OpImm("sll", rd, rd, Shamt(insn)))
          [] funct3 = 1 -> Is("c.fldsp", FpLoad(8, rd, 2, LoadDoubleSp(insn)))
          [] funct3 = 2 -> Is("c.lwsp", Load(4, TRUE, rd, 2, LoadWordSp(insn)))
          [] funct3 = 3 -> Is("c.ldsp", Load(8, TRUE, rd, 2, LoadDoubleSp(insn)))
          [] funct3 = 4 -> JumpOrMove(insn)
          [] funct3 = 5 -> Is("c.fsdsp", FpStore(8, rs2, 2, StoreDoubleSp(insn)))
          [] funct3 = 6 -> Is("c.swsp", Store(4, rs2, 2, StoreWordSp(insn)))
          [] funct3 = 7 -> Is("c.sdsp", Store(8, rs2, 2, StoreDoubleSp(insn)))

Decode(insn) ==
    CASE insn % 4 = 0 -> Quadrant0(insn)
      [] insn % 4 = 1 -> Quadrant1(insn)
      [] insn % 4 = 2 -> Quadrant2(insn)
=============================================================================
