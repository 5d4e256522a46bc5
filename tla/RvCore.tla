-------------------------------- MODULE RvCore --------------------------------
(***************************************************************************)
(* The interpreter: address translation, fetch, execution, vm_step, the    *)
(* memory calls ECALL handlers use, and the ECALL router.                  *)
(*                                                                         *)
(* Registers are XLEN bits wide (32 in the code) and a word is four bytes  *)
(* of ByteBits = XLEN \div 4 bits (8 in the code); the address split and   *)
(* the alignment rules scale with it. Memory holds real bytes, since       *)
(* decoding is modelled in full: a load sees the low ByteBits of each.     *)
(***************************************************************************)
EXTENDS Bitwise, FiniteSets, Integers, Sequences

-----------------------------------------------------------------------------
(***************************************************************************)
(* Decoding of RV32IMC: the encoders mk_*, the field and immediate         *)
(* extractors, the expander of 16-bit instructions and the decoding        *)
(* switch of execute_one. A 32-bit word is the record of its R-type        *)
(* fields (7+5+5+3+5+7 bits), which says exactly as much as the            *)
(* number: no bit is abstracted.                                           *)
(***************************************************************************)

\* (c >> lo) & (2^width - 1); also of a negative number, taken as two's complement.
Fld(c, lo, width) == (c \div 2^lo) % 2^width

sign_extend(v, bits) == IF v >= 2^(bits - 1) THEN v - 2^bits ELSE v

-----------------------------------------------------------------------------
\* Encoders.

mk_r(f7, rs2, rs1, f3, rd, op) ==
    [f7 |-> f7, rs2 |-> rs2, rs1 |-> rs1, f3 |-> f3, rd |-> rd, op |-> op]

mk_i(imm12, rs1, f3, rd, op) ==
    mk_r(Fld(imm12, 5, 7), Fld(imm12, 0, 5), rs1, f3, rd, op)

mk_s(imm12, rs2, rs1, f3, op) ==
    mk_r(Fld(imm12, 5, 7), rs2, rs1, f3, Fld(imm12, 0, 5), op)

mk_b(imm, rs2, rs1, f3, op) ==
    mk_r(Fld(imm, 12, 1) * 64 + Fld(imm, 5, 6), rs2, rs1, f3,
         Fld(imm, 1, 4) * 2 + Fld(imm, 11, 1), op)

mk_u(imm, rd, op) ==
    mk_r(Fld(imm, 25, 7), Fld(imm, 20, 5), Fld(imm, 15, 5), Fld(imm, 12, 3), rd, op)

mk_j(imm, rd, op) ==
    mk_r(Fld(imm, 20, 1) * 64 + Fld(imm, 5, 6), Fld(imm, 1, 4) * 2 + Fld(imm, 11, 1),
         Fld(imm, 15, 5), Fld(imm, 12, 3), rd, op)

-----------------------------------------------------------------------------
\* Immediates of a word. imm_u is the upper 20 bits; the low 12 are zero.

imm_i(w) == sign_extend(w.f7 * 32 + w.rs2, 12)
imm_s(w) == sign_extend(w.f7 * 32 + w.rd, 12)

imm_b(w) ==
    sign_extend(Fld(w.f7, 6, 1) * 2^12 + Fld(w.rd, 0, 1) * 2^11
                + Fld(w.f7, 0, 6) * 2^5 + Fld(w.rd, 1, 4) * 2, 13)

imm_j(w) ==
    sign_extend(Fld(w.f7, 6, 1) * 2^20 + (w.rs1 * 8 + w.f3) * 2^12
                + Fld(w.rs2, 0, 1) * 2^11 + Fld(w.f7, 0, 6) * 2^5 + Fld(w.rs2, 1, 4) * 2, 21)

imm_u(w) == sign_extend(((w.f7 * 32 + w.rs2) * 32 + w.rs1) * 8 + w.f3, 20)

-----------------------------------------------------------------------------
\* The expander. Illegal is the word 0, which no encoding below can be.

Illegal == mk_r(0, 0, 0, 0, 0, 0)
OrIllegal(legal, w) == IF legal THEN w ELSE Illegal
creg(f3) == f3 + 8

Rd(c)  == Fld(c, 7, 5)
Rs2(c) == Fld(c, 2, 5)
RdP(c) == creg(Fld(c, 2, 3))      \* rd' and rs2' of quadrant 0, rs2' of quadrant 1
RsP(c) == creg(Fld(c, 7, 3))      \* rs1', and rd' of quadrant 1

LwImm(c) == Fld(c, 10, 3) * 2^3 + Fld(c, 6, 1) * 2^2 + Fld(c, 5, 1) * 2^6
CiImm(c) == Fld(c, 12, 1) * 2^5 + Fld(c, 2, 5)

\* A mutant: the sign bit of a jump offset is dropped on the way.
CjImm_NoSign(c) ==
    Fld(c, 12, 1) * 2^11 + Fld(c, 11, 1) * 2^4 + Fld(c, 9, 2) * 2^8
    + Fld(c, 8, 1) * 2^10 + Fld(c, 7, 1) * 2^6 + Fld(c, 6, 1) * 2^7
    + Fld(c, 3, 3) * 2 + Fld(c, 2, 1) * 2^5

CjImm(c) ==
    sign_extend(Fld(c, 12, 1) * 2^11 + Fld(c, 11, 1) * 2^4 + Fld(c, 9, 2) * 2^8
                + Fld(c, 8, 1) * 2^10 + Fld(c, 7, 1) * 2^6 + Fld(c, 6, 1) * 2^7
                + Fld(c, 3, 3) * 2 + Fld(c, 2, 1) * 2^5, 12)

Quadrant0(c) ==
    LET addi4spn == Fld(c, 11, 2) * 2^4 + Fld(c, 7, 4) * 2^6
                    + Fld(c, 6, 1) * 2^2 + Fld(c, 5, 1) * 2^3
    IN CASE Fld(c, 13, 3) = 0 -> OrIllegal(addi4spn # 0, mk_i(addi4spn, 2, 0, RdP(c), 19))
         [] Fld(c, 13, 3) = 2 -> mk_i(LwImm(c), RsP(c), 2, RdP(c), 3)
         [] Fld(c, 13, 3) = 6 -> mk_s(LwImm(c), RdP(c), RsP(c), 2, 35)
         [] OTHER -> Illegal

AddiSpOrLui(c) ==
    LET sp == Fld(c, 12, 1) * 2^9 + Fld(c, 6, 1) * 2^4 + Fld(c, 5, 1) * 2^6
              + Fld(c, 3, 2) * 2^7 + Fld(c, 2, 1) * 2^5
        up == Fld(c, 12, 1) * 2^17 + Fld(c, 2, 5) * 2^12
    IN IF Rd(c) = 2
       THEN OrIllegal(sp # 0, mk_i(sign_extend(sp, 10), 2, 0, 2, 19))
       ELSE OrIllegal(Rd(c) # 0 /\ up # 0, mk_u(sign_extend(up, 18), Rd(c), 55))

Arith(c) ==
    LET sub == Fld(c, 10, 2)
        alu == <<mk_r(32, RdP(c), RsP(c), 0, RsP(c), 51), mk_r(0, RdP(c), RsP(c), 4, RsP(c), 51),
                 mk_r(0, RdP(c), RsP(c), 6, RsP(c), 51), mk_r(0, RdP(c), RsP(c), 7, RsP(c), 51)>>
    IN CASE sub \in {0, 1} ->
                OrIllegal(Fld(c, 12, 1) = 0,
                          mk_i((IF sub = 1 THEN 32 ELSE 0) * 32 + Rs2(c), RsP(c), 5, RsP(c), 19))
         [] sub = 2 -> mk_i(sign_extend(CiImm(c), 6), RsP(c), 7, RsP(c), 19)
         [] OTHER   -> OrIllegal(Fld(c, 12, 1) = 0, alu[Fld(c, 5, 2) + 1])

BranchZero(c) ==
    LET imm == Fld(c, 12, 1) * 2^8 + Fld(c, 10, 2) * 2^3 + Fld(c, 5, 2) * 2^6
               + Fld(c, 3, 2) * 2 + Fld(c, 2, 1) * 2^5
    IN mk_b(sign_extend(imm, 9), 0, RsP(c), Fld(c, 13, 3) - 6, 99)

Quadrant1(c) ==
    LET f3 == Fld(c, 13, 3)
    IN CASE f3 = 0 -> mk_i(sign_extend(CiImm(c), 6), Rd(c), 0, Rd(c), 19)
         [] f3 = 1 -> mk_j(CjImm(c), 1, 111)
         [] f3 = 2 -> mk_i(sign_extend(CiImm(c), 6), 0, 0, Rd(c), 19)
         [] f3 = 3 -> AddiSpOrLui(c)
         [] f3 = 4 -> Arith(c)
         [] f3 = 5 -> mk_j(CjImm(c), 0, 111)
         [] OTHER  -> BranchZero(c)

JumpMoveAdd(c) ==
    LET bit12 == Fld(c, 12, 1)
    IN CASE bit12 = 0 /\ Rs2(c) = 0 -> OrIllegal(Rd(c) # 0, mk_i(0, Rd(c), 0, 0, 103))
         [] bit12 = 0 /\ Rs2(c) # 0 -> mk_r(0, Rs2(c), 0, 0, Rd(c), 51)
         [] bit12 = 1 /\ Rs2(c) = 0 ->
                IF Rd(c) = 0 THEN mk_i(1, 0, 0, 0, 115) ELSE mk_i(0, Rd(c), 0, 1, 103)
         [] OTHER -> OrIllegal(Rd(c) # 0, mk_r(0, Rs2(c), Rd(c), 0, Rd(c), 51))

Quadrant2(c) ==
    LET lwsp == Fld(c, 12, 1) * 2^5 + Fld(c, 4, 3) * 2^2 + Fld(c, 2, 2) * 2^6
        swsp == Fld(c, 9, 4) * 2^2 + Fld(c, 7, 2) * 2^6
    IN CASE Fld(c, 13, 3) = 0 -> OrIllegal(Fld(c, 12, 1) = 0, mk_i(Rs2(c), Rd(c), 1, Rd(c), 19))
         [] Fld(c, 13, 3) = 2 -> OrIllegal(Rd(c) # 0, mk_i(lwsp, 2, 2, Rd(c), 3))
         [] Fld(c, 13, 3) = 4 -> JumpMoveAdd(c)
         [] Fld(c, 13, 3) = 6 -> mk_s(swsp, Rs2(c), 2, 2, 35)
         [] OTHER -> Illegal

expand_compressed(c) ==
    CASE Fld(c, 0, 2) = 0 -> Quadrant0(c)
      [] Fld(c, 0, 2) = 1 -> Quadrant1(c)
      [] OTHER            -> Quadrant2(c)

-----------------------------------------------------------------------------
\* The switches of execute_one: the instruction a word stands for.

OpImm(w) ==
    CASE w.f3 = 1 -> IF w.f7 = 0 THEN "slli" ELSE "illegal"
      [] w.f3 = 5 -> CASE w.f7 = 0 -> "srli" [] w.f7 = 32 -> "srai" [] OTHER -> "illegal"
      [] OTHER    -> <<"addi", "", "slti", "sltiu", "xori", "", "ori", "andi">>[w.f3 + 1]

OpM(w) == <<"mul", "mulh", "mulhsu", "mulhu", "div", "divu", "rem", "remu">>[w.f3 + 1]

OpReg(w) ==
    CASE w.f7 = 1  -> OpM(w)
      [] w.f7 = 0  -> <<"add", "sll", "slt", "sltu", "xor", "srl", "or", "and">>[w.f3 + 1]
      [] w.f7 = 32 -> CASE w.f3 = 0 -> "sub" [] w.f3 = 5 -> "sra" [] OTHER -> "illegal"
      [] OTHER     -> "illegal"

OpLoad(w) == <<"lb", "lh", "lw", "illegal", "lbu", "lhu", "illegal", "illegal">>[w.f3 + 1]
OpStore(w) == IF w.f3 > 2 THEN "illegal" ELSE <<"sb", "sh", "sw">>[w.f3 + 1]
OpBranch(w) == <<"beq", "bne", "illegal", "illegal", "blt", "bge", "bltu", "bgeu">>[w.f3 + 1]

OpSystem(w) ==
    CASE w.f3 = 0 /\ w.f7 * 32 + w.rs2 = 0 -> "ecall"
      [] w.f3 = 0 /\ w.f7 * 32 + w.rs2 = 1 -> "ebreak"
      [] w.f3 % 4 # 0 -> "csr"
      [] OTHER -> "illegal"

Decode(w) ==
    CASE w.op = 19  -> OpImm(w)    [] w.op = 51 -> OpReg(w)
      [] w.op = 55  -> "lui"       [] w.op = 23 -> "auipc"
      [] w.op = 3   -> OpLoad(w)   [] w.op = 35 -> OpStore(w)
      [] w.op = 99  -> OpBranch(w) [] w.op = 111 -> "jal"
      [] w.op = 103 /\ w.f3 = 0 -> "jalr"
      [] w.op = 15 /\ w.f3 \in {0, 1} -> "fence"
      [] w.op = 115 -> OpSystem(w)
      [] OTHER -> "illegal"

-----------------------------------------------------------------------------
(***************************************************************************)
(* Reference: the tables of the C extension. An immediate is given by the  *)
(* position each bit c[12], c[11], ... of the halfword has in it (-1: the  *)
(* bit is not part of it), so nothing is shared with the expander above.   *)
(***************************************************************************)
Layout == [
    ciw |-> <<5, 4, 9, 8, 7, 6, 2, 3, -1, -1, -1>>,
    cl  |-> <<5, 4, 3, -1, -1, -1, 2, 6, -1, -1, -1>>,
    ci  |-> <<5, -1, -1, -1, -1, -1, 4, 3, 2, 1, 0>>,
    csp |-> <<9, -1, -1, -1, -1, -1, 4, 6, 8, 7, 5>>,
    cj  |-> <<11, 4, 9, 8, 10, 6, 7, 3, 2, 1, 5>>,
    cb  |-> <<8, 4, 3, -1, -1, -1, 7, 6, 2, 1, 5>>,
    clw |-> <<5, -1, -1, -1, -1, -1, 4, 3, 2, 7, 6>>,
    css |-> <<5, 4, 3, 2, 7, 6, -1, -1, -1, -1, -1>>]

RefBits(c, l, i) == IF l[i] = -1 THEN 0 ELSE ((c \div 2^(13 - i)) % 2) * 2^l[i]
RefU(c, f) ==
    LET l == Layout[f] IN
    RefBits(c, l, 1) + RefBits(c, l, 2) + RefBits(c, l, 3) + RefBits(c, l, 4)
    + RefBits(c, l, 5) + RefBits(c, l, 6) + RefBits(c, l, 7) + RefBits(c, l, 8)
    + RefBits(c, l, 9) + RefBits(c, l, 10) + RefBits(c, l, 11)
RefS(c, f) == LET top == Layout[f][1] IN RefU(c, f) - 2 * 2^top * ((c \div 4096) % 2)

Ins(mn, rd, rs1, rs2, imm) == [mn |-> mn, rd |-> rd, rs1 |-> rs1, rs2 |-> rs2, imm |-> imm]
NoIns == Ins("illegal", 0, 0, 0, 0)

RefExpand(c) ==
    LET q   == c % 4
        f   == c \div 8192
        b12 == (c \div 4096) % 2
        r   == (c \div 128) % 32
        s   == (c \div 4) % 32
        rp  == creg((c \div 128) % 8)
        sp  == creg((c \div 4) % 8)
        two == (c \div 32) % 4
        k   == (c \div 1024) % 4
        If(g, i) == IF g THEN i ELSE NoIns
    IN CASE q = 0 /\ f = 0 -> If(RefU(c, "ciw") # 0, Ins("addi", sp, 2, 0, RefU(c, "ciw")))
         [] q = 0 /\ f = 2 -> Ins("lw", sp, rp, 0, RefU(c, "cl"))
         [] q = 0 /\ f = 6 -> Ins("sw", 0, rp, sp, RefU(c, "cl"))
         [] q = 1 /\ f = 0 -> Ins("addi", r, r, 0, RefS(c, "ci"))
         [] q = 1 /\ f = 1 -> Ins("jal", 1, 0, 0, RefS(c, "cj"))
         [] q = 1 /\ f = 2 -> Ins("addi", r, 0, 0, RefS(c, "ci"))
         [] q = 1 /\ f = 3 /\ r = 2 -> If(RefU(c, "csp") # 0, Ins("addi", 2, 2, 0, RefS(c, "csp")))
         [] q = 1 /\ f = 3 /\ r # 2 -> If(r # 0 /\ RefU(c, "ci") # 0, Ins("lui", r, 0, 0, RefS(c, "ci")))
         [] q = 1 /\ f = 4 /\ k < 2 ->
                If(b12 = 0, Ins(<<"srli", "srai">>[k + 1], rp, rp, 0, s))
         [] q = 1 /\ f = 4 /\ k = 2 -> Ins("andi", rp, rp, 0, RefS(c, "ci"))
         [] q = 1 /\ f = 4 /\ k = 3 ->
                If(b12 = 0, Ins(<<"sub", "xor", "or", "and">>[two + 1], rp, rp, sp, 0))
         [] q = 1 /\ f = 5 -> Ins("jal", 0, 0, 0, RefS(c, "cj"))
         [] q = 1 /\ f = 6 -> Ins("beq", 0, rp, 0, RefS(c, "cb"))
         [] q = 1 /\ f = 7 -> Ins("bne", 0, rp, 0, RefS(c, "cb"))
         [] q = 2 /\ f = 0 -> If(b12 = 0, Ins("slli", r, r, 0, s))
         [] q = 2 /\ f = 2 -> If(r # 0, Ins("lw", r, 2, 0, RefU(c, "clw")))
         [] q = 2 /\ f = 4 /\ b12 = 0 /\ s = 0 -> If(r # 0, Ins("jalr", 0, r, 0, 0))
         [] q = 2 /\ f = 4 /\ b12 = 0 /\ s # 0 -> Ins("add", r, 0, s, 0)
         [] q = 2 /\ f = 4 /\ b12 = 1 /\ s = 0 ->
                IF r = 0 THEN Ins("ebreak", 0, 0, 0, 0) ELSE Ins("jalr", 1, r, 0, 0)
         [] q = 2 /\ f = 4 /\ b12 = 1 /\ s # 0 -> If(r # 0, Ins("add", r, r, s, 0))
         [] q = 2 /\ f = 6 -> Ins("sw", 0, 2, s, RefU(c, "css"))
         [] OTHER -> NoIns

\* What a word means, in the terms of the reference: only the fields its format has.
Meaning(w) ==
    LET mn == Decode(w)
    IN CASE mn = "illegal" -> NoIns
         [] w.op = 51 -> Ins(mn, w.rd, w.rs1, w.rs2, 0)
         [] mn \in {"slli", "srli", "srai"} -> Ins(mn, w.rd, w.rs1, 0, w.rs2)
         [] w.op \in {19, 3, 103} -> Ins(mn, w.rd, w.rs1, 0, imm_i(w))
         [] w.op = 35 -> Ins(mn, 0, w.rs1, w.rs2, imm_s(w))
         [] w.op = 99 -> Ins(mn, 0, w.rs1, w.rs2, imm_b(w))
         [] w.op = 111 -> Ins(mn, w.rd, 0, 0, imm_j(w))
         [] w.op \in {55, 23} -> Ins(mn, w.rd, 0, 0, imm_u(w))
         [] OTHER -> Ins(mn, w.rd, w.rs1, 0, 0)

-----------------------------------------------------------------------------
CONSTANTS
    XLEN,         \* register width: 32 in the code
    UShift,       \* position of the upper immediate: 12 in the code
    RegionLen,         \* bytes of each region: code, rodata, data, shared, l2
    Writable,     \* the regions with the writable flag
    VmId,         \* value of mhartid
    Calls,        \* system call numbers a router has a slot for
    Handlers,     \* registered handlers
    Budgets       \* instruction budgets vm_step is called with

VARIABLES
    regs, pc, mem,
    trap,         \* trap_cause, trap_pc, trap_addr
    retired, ecalls, traps,
    halted,
    run,          \* "idle", "running", or the result of the last vm_step
    steps, budget,
    acc,          \* the last access resolved to host memory
    slots, fallback

rvvars == <<regs, pc, mem, trap, retired, ecalls, traps, halted, run, steps, budget, acc,
            slots, fallback>>

Regions == {"code", "rodata", "data", "shared", "l2"}
ByteBits == XLEN \div 4
Word == 2^XLEN
Wrap(v) == v % Word
Signed(v) == sign_extend(v, XLEN)
NoTrap == [cause |-> "none", pc |-> 0, addr |-> 0]
NoAcc == [region |-> "none", off |-> 0, size |-> 0, write |-> FALSE]
A0 == 10
A7 == 17

ASSUME WidthAssumption == XLEN % 4 = 0 /\ XLEN >= 8 /\ XLEN <= 12 /\ Writable \subseteq Regions

-----------------------------------------------------------------------------
\* Address translation.

xlat_pick(addr) ==
    LET top == addr \div 2^(XLEN - 2)
        half == (addr \div 2^(XLEN - 3)) % 2
    IN IF top = 3
       THEN [region |-> IF half = 1 THEN "l2" ELSE "shared", off |-> addr % 2^(XLEN - 3)]
       ELSE [region |-> <<"code", "rodata", "data">>[top + 1], off |-> addr % 2^(XLEN - 2)]

\* The bounds test, written so that nothing can wrap.
Fits(addr, size) ==
    LET x == xlat_pick(addr)
    IN RegionLen[x.region] # 0 /\ x.off <= RegionLen[x.region] /\ size <= RegionLen[x.region] - x.off

xlat_read(addr, size, cause) == IF Fits(addr, size) THEN "none" ELSE cause

xlat_write(addr, size) ==
    CASE ~Fits(addr, size) -> "store_fault"
      [] xlat_pick(addr).region \notin Writable -> "store_ro"
      [] OTHER -> "none"

Acc(addr, size, write) ==
    [region |-> xlat_pick(addr).region, off |-> xlat_pick(addr).off, size |-> size, write |-> write]
Byte(addr, i) == LET x == xlat_pick(addr) IN mem[x.region][x.off + i]
Trapped(cause, addr) == [cause |-> cause, pc |-> pc, addr |-> addr]

LoadValue(addr, n) ==
    LET B(i) == IF i < n THEN (Byte(addr, i) % 2^ByteBits) * 2^(ByteBits * i) ELSE 0
    IN B(0) + B(1) + B(2) + B(3)
Stored(addr, n, v) ==
    LET x == xlat_pick(addr)
    IN [mem EXCEPT ![x.region] = [o \in DOMAIN @ |->
            IF o \in x.off .. x.off + n - 1 THEN Fld(v, ByteBits * (o - x.off), ByteBits) ELSE @[o]]]

-----------------------------------------------------------------------------
\* The arithmetic of OP and OP-IMM on XLEN-bit values.

sra32(v, shift) ==
    LET s == shift % XLEN
        r == v \div 2^s
    IN IF v >= Word \div 2 /\ s # 0 THEN r | (Word - 2^(XLEN - s)) ELSE r

\* C division truncates; \div rounds down.
Quot(a, b) == LET q == (IF a < 0 THEN -a ELSE a) \div (IF b < 0 THEN -b ELSE b)
              IN IF (a < 0) = (b < 0) THEN q ELSE -q
Overflow(a, b) == a = Word \div 2 /\ b = Word - 1
Rem(a, b) == a - b * Quot(a, b)

DivS(a, b) ==
    CASE b = 0 -> Word - 1 [] Overflow(a, b) -> Word \div 2
      [] OTHER -> Wrap(Quot(Signed(a), Signed(b)))
RemS(a, b) ==
    CASE b = 0 -> a [] Overflow(a, b) -> 0
      [] OTHER -> Wrap(Rem(Signed(a), Signed(b)))

AluM(mn, a, b) ==
    CASE mn = "mul"    -> Wrap(a * b)
      [] mn = "mulh"   -> Wrap((Signed(a) * Signed(b)) \div Word)
      [] mn = "mulhsu" -> Wrap((Signed(a) * b) \div Word)
      [] mn = "mulhu"  -> (a * b) \div Word
      [] mn = "div"    -> DivS(a, b)
      [] mn = "divu"   -> IF b = 0 THEN Word - 1 ELSE a \div b
      [] mn = "rem"    -> RemS(a, b)
      [] mn = "remu"   -> IF b = 0 THEN a ELSE a % b

MOps == {"mul", "mulh", "mulhsu", "mulhu", "div", "divu", "rem", "remu"}

Alu(mn, a, b) ==
    CASE mn \in {"add", "addi"}   -> Wrap(a + b)
      [] mn = "sub"               -> Wrap(a - b)
      [] mn \in {"sll", "slli"}   -> Wrap(a * 2^(b % XLEN))
      [] mn \in {"slt", "slti"}   -> IF Signed(a) < Signed(b) THEN 1 ELSE 0
      [] mn \in {"sltu", "sltiu"} -> IF a < b THEN 1 ELSE 0
      [] mn \in {"xor", "xori"}   -> a ^^ b
      [] mn \in {"srl", "srli"}   -> a \div 2^(b % XLEN)
      [] mn \in {"sra", "srai"}   -> sra32(a, b)
      [] mn \in {"or", "ori"}     -> a | b
      [] mn \in {"and", "andi"}   -> a & b
      [] OTHER                    -> AluM(mn, a, b)

Taken(mn, a, b) ==
    CASE mn = "beq" -> a = b [] mn = "bne" -> a # b
      [] mn = "blt" -> Signed(a) < Signed(b) [] mn = "bge" -> Signed(a) >= Signed(b)
      [] mn = "bltu" -> a < b [] mn = "bgeu" -> a >= b

\* The counters are the only CSRs with a value that changes; 3072, 3074 and 3860 are
\* cycle, instret and mhartid. The high halves stay 0 at these bounds. Writes are ignored.
csr_read(csr) == CASE csr \in {3072, 3074} -> Wrap(retired) [] csr = 3860 -> VmId [] OTHER -> 0

-----------------------------------------------------------------------------
(***************************************************************************)
(* One instruction. Faults(..) is the cause it traps with, if any; then    *)
(* nothing but the trap state changes (and, for ECALL, the pc).            *)
(***************************************************************************)
Fetch ==
    LET c1 == IF pc % 2 = 1 THEN "instr_misaligned" ELSE xlat_read(pc, 2, "fetch_fault")
        lo == Byte(pc, 0) + 256 * Byte(pc, 1)
        c2 == xlat_read(Wrap(pc + 2), 2, "fetch_fault")
        hi == Byte(Wrap(pc + 2), 0) + 256 * Byte(Wrap(pc + 2), 1)
    IN CASE c1 # "none" -> [cause |-> c1, at |-> pc]
         [] c1 = "none" /\ lo % 4 # 3 ->
                [cause |-> IF expand_compressed(lo) = Illegal THEN "illegal" ELSE "none",
                 at |-> 0, w |-> expand_compressed(lo), size |-> 2]
         [] OTHER -> IF c2 # "none" THEN [cause |-> c2, at |-> Wrap(pc + 2)]
                     ELSE [cause |-> "none", at |-> 0, size |-> 4,
                           w |-> mk_r(hi \div 512, Fld(hi, 4, 5), (hi % 16) * 2 + lo \div 2^15,
                                      Fld(lo, 12, 3), Fld(lo, 7, 5), lo % 128)]

Addr(w) == Wrap(regs[w.rs1] + (IF w.op = 35 THEN imm_s(w) ELSE imm_i(w)))
Size(mn) == CASE mn \in {"lb", "lbu", "sb"} -> 1 [] mn \in {"lh", "lhu", "sh"} -> 2 [] OTHER -> 4
Loads == {"lb", "lh", "lw", "lbu", "lhu"}
Stores == {"sb", "sh", "sw"}
Branches == {"beq", "bne", "blt", "bge", "bltu", "bgeu"}

Faults(w, mn) ==
    CASE mn = "illegal" -> "illegal"
      [] mn = "ecall"   -> "ecall"
      [] mn = "ebreak"  -> "breakpoint"
      [] mn \in Loads   -> IF Addr(w) % Size(mn) # 0 THEN "load_misaligned"
                           ELSE xlat_read(Addr(w), Size(mn), "load_fault")
      [] mn \in Stores  -> IF Addr(w) % Size(mn) # 0 THEN "store_misaligned"
                           ELSE xlat_write(Addr(w), Size(mn))
      [] OTHER          -> "none"

Result(w, mn, size) ==
    LET upper == Wrap(imm_u(w) * 2^UShift)
    IN CASE w.op = 51 -> Alu(mn, regs[w.rs1], regs[w.rs2])
         [] w.op = 19 -> Alu(mn, regs[w.rs1],
                             IF mn \in {"slli", "srli", "srai"} THEN w.rs2 ELSE Wrap(imm_i(w)))
         [] mn = "lui"   -> upper
         [] mn = "auipc" -> Wrap(pc + upper)
         [] mn \in {"lb", "lh"} ->
                Wrap(sign_extend(LoadValue(Addr(w), Size(mn)), ByteBits * Size(mn)))
         [] mn \in Loads -> LoadValue(Addr(w), Size(mn))
         [] mn \in {"jal", "jalr"} -> Wrap(pc + size)
         [] mn = "csr" -> csr_read(w.f7 * 32 + w.rs2)

NextPc(w, mn, size) ==
    CASE mn = "jal"  -> Wrap(pc + imm_j(w))
      [] mn = "jalr" -> LET t == Addr(w) IN t - (t % 2)
      [] mn \in Branches -> Wrap(pc + (IF Taken(mn, regs[w.rs1], regs[w.rs2])
                                       THEN imm_b(w) ELSE size))
      [] OTHER -> Wrap(pc + size)

\* execute_one writes regs[rd] also when rd is x0; step_once clears x0 again.
Written(w, mn, size) ==
    IF mn \in Stores \cup Branches \cup {"fence"} THEN regs
    ELSE [[regs EXCEPT ![w.rd] = Result(w, mn, size)] EXCEPT ![0] = 0]

\* vm_step's result when step_once fails.
StopsWith(cause) ==
    /\ run' = IF cause = "ecall" THEN "ecall" ELSE "trapped"
    /\ ecalls' = ecalls + (IF cause = "ecall" THEN 1 ELSE 0)
    /\ traps' = traps + (IF cause = "ecall" THEN 0 ELSE 1)
    /\ UNCHANGED <<regs, mem, retired, halted, steps, budget, slots, fallback>>

FetchFault ==
    /\ run = "running" /\ steps < budget
    /\ Fetch.cause # "none"
    /\ trap' = Trapped(Fetch.cause, Fetch.at)
    /\ StopsWith(Fetch.cause)
    /\ UNCHANGED <<pc, acc>>

ExecFault ==
    /\ run = "running" /\ steps < budget
    /\ Fetch.cause = "none"
    /\ LET w == Fetch.w  mn == Decode(w)  cause == Faults(w, mn)
       IN /\ cause # "none"
          /\ trap' = Trapped(cause, IF mn \in Loads \cup Stores THEN Addr(w) ELSE 0)
          /\ pc' = IF cause = "ecall" THEN Wrap(pc + Fetch.size) ELSE pc
          /\ StopsWith(cause)
    /\ acc' = Acc(pc, Fetch.size, FALSE)

Retire ==
    /\ run = "running" /\ steps < budget
    /\ Fetch.cause = "none"
    /\ LET w == Fetch.w  mn == Decode(w)
       IN /\ Faults(w, mn) = "none"
          /\ regs' = Written(w, mn, Fetch.size)
          /\ pc' = NextPc(w, mn, Fetch.size)
          /\ mem' = IF mn \in Stores THEN Stored(Addr(w), Size(mn), regs[w.rs2]) ELSE mem
          /\ acc' = IF mn \in Loads \cup Stores THEN Acc(Addr(w), Size(mn), mn \in Stores)
                    ELSE Acc(pc, Fetch.size, FALSE)
    /\ retired' = retired + 1 /\ steps' = steps + 1
    /\ UNCHANGED <<trap, ecalls, traps, halted, run, budget, slots, fallback>>

QuantumExpired ==
    /\ run = "running" /\ steps = budget
    /\ run' = "expired"
    /\ UNCHANGED <<regs, pc, mem, trap, retired, ecalls, traps, halted, steps, budget, acc,
                   slots, fallback>>

\* vm_step is entered: a halted VM returns at once, the trap state is cleared.
vm_step ==
    /\ run \notin {"running", "ecall"}
    /\ \E b \in Budgets :
        /\ IF halted THEN run' = "halted" /\ steps' = 0 /\ UNCHANGED <<trap, budget>>
           ELSE run' = "running" /\ steps' = 0 /\ budget' = b /\ trap' = NoTrap
    /\ UNCHANGED <<regs, pc, mem, retired, ecalls, traps, halted, acc, slots, fallback>>

-----------------------------------------------------------------------------
\* Memory calls of handlers and tests, between two vm_steps. A failure sets the trap
\* state, which the next vm_step clears.

HostSets(cause, addr, size, write, new) ==
    /\ run \in {"idle", "trapped", "expired"}
    /\ trap' = IF cause = "none" THEN trap ELSE Trapped(cause, addr)
    /\ acc' = IF cause = "none" THEN Acc(addr, size, write) ELSE acc
    /\ mem' = IF cause = "none" THEN new ELSE mem
    /\ UNCHANGED <<regs, pc, retired, ecalls, traps, halted, run, steps, budget, slots, fallback>>

vm_read_u32(addr) ==
    HostSets(IF addr % 4 # 0 THEN "load_misaligned" ELSE xlat_read(addr, 4, "load_fault"),
             addr, 4, FALSE, mem)
vm_write_u32(addr, v) ==
    HostSets(IF addr % 4 # 0 THEN "store_misaligned" ELSE xlat_write(addr, 4),
             addr, 4, TRUE, Stored(addr, 4, v))

\* vm_translate_read and vm_translate_write resolve the same way; a size of 0 is refused
\* without touching the trap state.
vm_copy_from_guest(addr, n) ==
    n # 0 /\ HostSets(xlat_read(addr, n, "load_fault"), addr, n, FALSE, mem)
vm_copy_to_guest(addr, n, v) ==
    n # 0 /\ HostSets(xlat_write(addr, n), addr, n, TRUE, Stored(addr, n, v))

\* regs, counters and trap state are cleared; the regions and the id are kept.
vm_reset ==
    /\ run \notin {"running", "idle"}
    /\ regs' = [r \in 0 .. 31 |-> 0] /\ pc' = 0 /\ trap' = NoTrap
    /\ retired' = 0 /\ ecalls' = 0 /\ traps' = 0 /\ halted' = FALSE /\ run' = "idle"
    /\ UNCHANGED <<mem, steps, budget, acc, slots, fallback>>

-----------------------------------------------------------------------------
\* The ECALL router. A number outside both ranges has no slot.

slot_for(num) == IF num \in Calls THEN slots[num] ELSE "none"

vm_ecall_register(num, h) ==
    /\ num \in Calls /\ slots[num] = "none"
    /\ slots' = [slots EXCEPT ![num] = h]
    /\ UNCHANGED <<regs, pc, mem, trap, retired, ecalls, traps, halted, run, steps, budget, acc, fallback>>

vm_ecall_unregister(num) ==
    /\ num \in Calls /\ slots[num] # "none"
    /\ slots' = [slots EXCEPT ![num] = "none"]
    /\ UNCHANGED <<regs, pc, mem, trap, retired, ecalls, traps, halted, run, steps, budget, acc, fallback>>

vm_ecall_set_fallback(h) ==
    /\ fallback' = IF h = "none" THEN "enosys" ELSE h
    /\ UNCHANGED <<regs, pc, mem, trap, retired, ecalls, traps, halted, run, steps, budget, acc, slots>>

\* The handlers of this model: exit halts the VM, put writes memory for the guest, and
\* the default answers -ENOSYS (38).
default_fallback == [regs EXCEPT ![A0] = Wrap(-38)]

vm_ecall_dispatch ==
    /\ run = "ecall"
    /\ LET h == IF slot_for(regs[A7]) # "none" THEN slot_for(regs[A7]) ELSE fallback
       IN /\ halted' = (h = "exit")
          /\ regs' = IF h = "enosys" THEN default_fallback ELSE regs
          /\ LET ok == xlat_write(regs[11], 4) = "none"
             IN IF h # "put" THEN UNCHANGED <<mem, trap, acc>>
                ELSE /\ mem' = IF ok THEN Stored(regs[11], 4, 1) ELSE mem
                     /\ trap' = IF ok THEN trap ELSE Trapped(xlat_write(regs[11], 4), regs[11])
                     /\ acc' = IF ok THEN Acc(regs[11], 4, TRUE) ELSE acc
    /\ run' = "idle"
    /\ UNCHANGED <<pc, retired, ecalls, traps, steps, budget, slots, fallback>>

-----------------------------------------------------------------------------
\* Every access that reaches host memory is inside its region, to the last byte, and
\* writes only where the region is writable: whatever address, size and width of
\* offset arithmetic (xlat_read and xlat_write, which everything goes through).
AccessInBounds ==
    acc # NoAcc =>
        /\ acc.off + acc.size <= RegionLen[acc.region]
        /\ acc.write => acc.region \in Writable

\* Arithmetic against its definition over the integers: shifts and high products
\* round down, division truncates and agrees with the remainder, the two exceptional
\* divisions have the results RV32M prescribes, and x0 is zero after every step.
AluIsRv32(a, b) ==
    LET sa == Signed(a)  sb == Signed(b)  s == b % XLEN
        q == Signed(Alu("div", a, b))  r == Signed(Alu("rem", a, b))
        Abs(x) == IF x < 0 THEN -x ELSE x
    IN /\ Signed(Alu("sra", a, b)) * 2^s <= sa /\ sa < (Signed(Alu("sra", a, b)) + 1) * 2^s
       /\ Alu("srl", a, b) * 2^s <= a /\ a < (Alu("srl", a, b) + 1) * 2^s
       /\ Signed(Alu("mulh", a, b)) * Word + Alu("mul", a, b) = sa * sb
       /\ Signed(Alu("mulhsu", a, b)) * Word + Alu("mul", a, b) = sa * b
       /\ Alu("mulhu", a, b) * Word + Alu("mul", a, b) = a * b
       /\ Alu("xor", a, b) + 2 * Alu("and", a, b) = a + b
       /\ Alu("or", a, b) + Alu("and", a, b) = a + b
       /\ Alu("slt", a, b) = 1 <=> sa < sb
       /\ b = 0 => q = -1 /\ r = sa
       /\ Overflow(a, b) => q = sa /\ r = 0
       /\ b # 0 /\ ~Overflow(a, b) =>
              q * sb + r = sa /\ Abs(r) < Abs(sb) /\ (r = 0 \/ (r < 0) = (sa < 0))
==============================================================================
