-------------------------------- MODULE Isa --------------------------------
(***************************************************************************)
(* The instruction set both cores implement, at the level the control      *)
(* logic sees it: a decoded instruction is a record of the fields the      *)
(* decoder extracts, and the data path (ALU functions, branch comparisons, *)
(* byte lanes of a load or a store) is a handful of constant operators.    *)
(* riscv_core.sv and riscv_core_single_cycle.sv hold the same decoder and  *)
(* the same ALU text; the "map" names the pipelined core's copy.           *)
(***************************************************************************)
EXTENDS Integers

CONSTANTS
  MaxWord,            \* largest register value: 2^32 - 1 in the RTL
  Regs,               \* register numbers, 0 is x0
  Lines,              \* word lines of the data memory
  LineOf(_),          \* address -> line, as the memory decodes it
  Fns,                \* funct3/funct7 selections
  Alu(_, _, _),       \* (fn, operand 1, operand 2) -> word
  Cond(_, _, _),      \* (fn, rs1 value, rs2 value) -> branch condition
  LoadVal(_, _, _),   \* (fn, byte offset, memory word) -> loaded value
  StoreVal(_, _, _, _), \* (fn, byte offset, old word, rs2 value) -> new word
  BitOr(_, _),           \* bitwise or, for csrrs
  BitAndNot(_, _)        \* bitwise a & ~b, for csrrc

Word == 0 .. MaxWord

Csrs == {"mstatus", "mie", "mtvec", "mscratch", "mepc", "mcause", "mtval", "mip"}

Ops == {"reg", "imm", "lui", "auipc", "jal", "jalr", "branch", "load", "store",
        "csr", "csri", "ecall", "ebreak", "mret", "none"}

\* A decoded instruction. "csr" holds the csr_addr field: one of the eight
\* implemented registers, or "other" (misa, mhartid, unimplemented).
Instr == [op : Ops, fn : Fns, rd : Regs, rs1 : Regs, rs2 : Regs, imm : Word,
          csr : Csrs \cup {"other"}]

\* The all-zero control word of a bubble; it writes nothing and flushes nothing.
Nop == [op |-> "none", fn |-> CHOOSE f \in Fns : TRUE, rd |-> 0, rs1 |-> 0,
        rs2 |-> 0, imm |-> 0, csr |-> "other"]

-----------------------------------------------------------------------------
\* mstatus is word 2^8 wide at least; MaxWord + 1 is a power of two in the RTL.
ASSUME WordAssumption == /\ MaxWord \in Nat
                         /\ \E k \in 1 .. MaxWord : MaxWord = 256 * k - 1
ASSUME RegAssumption  == 0 \in Regs /\ Regs \subseteq Nat
ASSUME FnAssumption   == Fns # {}
ASSUME LineAssumption == \A a \in Word : LineOf(a) \in Lines
ASSUME AluAssumption  == \A f \in Fns, a, b \in Word : Alu(f, a, b) \in Word
ASSUME CondAssumption == \A f \in Fns, a, b \in Word : Cond(f, a, b) \in BOOLEAN
ASSUME CsrAssumption  == \A a, b \in Word : BitOr(a, b) \in Word /\ BitAndNot(a, b) \in Word
ASSUME LoadAssumption == \A f \in Fns, o \in 0 .. 3, m \in Word : LoadVal(f, o, m) \in Word
\* A store overwrites the byte lanes it selects and keeps the others, so
\* repeating it on a memory word changes nothing.
ASSUME StoreAssumption ==
  \A f \in Fns, o \in 0 .. 3, m, v \in Word :
    LET w == StoreVal(f, o, m, v) IN w \in Word /\ StoreVal(f, o, w, v) = w

-----------------------------------------------------------------------------
(* Register use, as rs1_valid / rs2_valid / rd_valid decide it.            *)

ReadsRs1(i) == i.op \in {"reg", "imm", "jalr", "branch", "load", "store", "csr"}
ReadsRs2(i) == i.op \in {"reg", "branch", "store"}
RdValid(i)  == i.op \in {"reg", "imm", "lui", "auipc", "jal", "jalr", "load",
                         "csr", "csri"}
WrEn(i)     == RdValid(i) /\ i.rd # 0
IsCsr(i)    == i.op \in {"csr", "csri"}
Reads(i, r) == /\ r # 0
               /\ \/ ReadsRs1(i) /\ i.rs1 = r
                  \/ ReadsRs2(i) /\ i.rs2 = r

Read(rf, r) == IF r = 0 THEN 0 ELSE rf[r]

-----------------------------------------------------------------------------
(* The data path.                                                          *)

\* Mutant: a sum that does not wrap at the word size.
AddUnwrapped(a, b) == a + b

Add(a, b) == (a + b) % (MaxWord + 1)

Result(i, s1, s2, at) ==
  CASE i.op = "reg"             -> Alu(i.fn, s1, s2)
    [] i.op = "imm"             -> Alu(i.fn, s1, i.imm)
    [] i.op = "lui"             -> i.imm
    [] i.op = "auipc"           -> Add(at, i.imm)
    [] i.op \in {"jal", "jalr"} -> Add(at, 4)
    [] i.op \in {"load", "store"} -> Add(s1, i.imm)
    [] OTHER                    -> 0

TakenBr(i, s1, s2) == i.op = "branch" /\ Cond(i.fn, s1, s2)

\* csr_new_val: 00 = RW, 01 = RS, anything else = RC.
CsrNewVal(fn, old, v) ==
  CASE fn = "rw" -> v
    [] fn = "rs" -> BitOr(old, v)
    [] OTHER     -> BitAndNot(old, v)

MIE  == 8     \* mstatus bit 3
MPIE == 128   \* mstatus bit 7
MTIE == 128   \* mie bit 7

Bit(w, m)       == (w \div m) % 2
SetBit(w, m, b) == w - m * Bit(w, m) + m * b

\* csrrs and csrrc are bitwise: one sets no bit that neither operand has, the
\* other sets none at all.
ASSUME MaskAssumption ==
  \A a, b \in Word :
    /\ Bit(BitOr(a, b), MIE) = 1 => Bit(a, MIE) = 1 \/ Bit(b, MIE) = 1
    /\ Bit(BitAndNot(a, b), MIE) = 1 => Bit(a, MIE) = 1

\* mstatus on trap entry (MPIE <- MIE, MIE <- 0) and on MRET (MIE <- MPIE, MPIE <- 1).
TrapEntry(w)  == SetBit(SetBit(w, MPIE, Bit(w, MIE)), MIE, 0)
TrapReturn(w) == SetBit(SetBit(w, MIE, Bit(w, MPIE)), MPIE, 1)

CauseEcall  == 11
CauseEbreak == 3
CauseTimer  == (MaxWord + 1) \div 2 + 7   \* interrupt bit, cause 7
=============================================================================
