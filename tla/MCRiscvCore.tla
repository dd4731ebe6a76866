---------------------------- MODULE MCRiscvCore ----------------------------
(***************************************************************************)
(* A small machine for TLC: 8-bit words (the narrowest that hold the       *)
(* mstatus bits the core uses), a byte lane of two bits, three registers,  *)
(* a two-word memory, and every program of a given length over a pool of   *)
(* instructions, followed by self-loops.                                   *)
(***************************************************************************)
EXTENDS RiscvCoreProps, Sequences, Bitwise

MCFns == {"add", "sltu", "eq", "ltu", "word", "byte", "rw", "rs", "rc"}

MCAlu(f, a, b)  == CASE f = "sltu" -> (IF a < b THEN 1 ELSE 0)
                     [] OTHER      -> (a + b) % 256
MCCond(f, a, b) == IF f = "ltu" THEN a < b ELSE a = b

MCBitOr(a, b)     == a | b
MCBitAndNot(a, b) == a & (255 - b)

Lane(o) == <<1, 4, 16, 64>>[o + 1]
MCLoadVal(f, o, m) == IF f = "byte" THEN (m \div Lane(o)) % 4 ELSE m
MCStoreVal(f, o, m, v) ==
  IF f = "byte" THEN m - Lane(o) * ((m \div Lane(o)) % 4) + Lane(o) * (v % 4)
                ELSE (v * Lane(o)) % 256

MCLineOf(a) == (a \div 4) % 2

-----------------------------------------------------------------------------
I(op, fn, rd, rs1, rs2, imm) ==
  [op |-> op, fn |-> fn, rd |-> rd, rs1 |-> rs1, rs2 |-> rs2, imm |-> imm,
   csr |-> "other"]
C(op, fn, rd, rs1, imm, csr_addr) ==
  [op |-> op, fn |-> fn, rd |-> rd, rs1 |-> rs1, rs2 |-> 0, imm |-> imm,
   csr |-> csr_addr]
Priv(op) == [Nop EXCEPT !.op = op]

Loop == I("jal", "add", 0, 0, 0, 0)

\* A program is a sequence of instructions; every address past its end loops.
MCFetch(p, a) == LET n == a \div 4 + 1 IN IF n <= Len(p) THEN p[n] ELSE Loop

\* Arithmetic, memory and control flow with every register dependency.
DataPool == {
  I("imm", "add", 1, 2, 0, 5),          \* addi x1, x2, 5
  I("imm", "add", 2, 1, 0, 255),        \* addi x2, x1, -1
  I("reg", "sltu", 1, 2, 1, 0),         \* sltu x1, x2, x1
  I("load", "word", 1, 2, 0, 0),        \* lw x1, 0(x2)
  I("load", "byte", 2, 1, 0, 1),        \* lb x2, 1(x1)
  I("store", "word", 0, 1, 2, 0),       \* sw x2, 0(x1)
  I("store", "byte", 0, 2, 1, 2),       \* sb x1, 2(x2)
  I("branch", "eq", 0, 1, 2, 8),        \* beq x1, x2, +8
  I("branch", "ltu", 0, 2, 1, 252),     \* bltu x2, x1, -4
  I("jal", "add", 2, 0, 0, 8),          \* jal x2, +8
  I("jalr", "add", 1, 2, 0, 4),         \* jalr x1, 4(x2)
  I("auipc", "add", 1, 0, 0, 16) }      \* auipc x1, 16

ZeroCsrs == [a \in Csrs |-> 0]
MCRegs == {0, 1, 2}
MCInitRegs == { [r \in MCRegs |-> 0], [r \in MCRegs |-> 4 * r] }
MCInitMems == { [l \in {0, 1} |-> 9 + l] }

DataPrograms == DataPool \X DataPool \X DataPool

-----------------------------------------------------------------------------
\* CSR instructions and traps. The handler advances mepc past the trapping
\* instruction and returns, as test_trap.asm's does.
TrapPool == {
  I("imm", "add", 1, 2, 0, 20),         \* addi x1, x2, 20
  I("store", "word", 0, 0, 2, 0),       \* sw x2, 0(x0)
  I("load", "word", 2, 0, 0, 4),        \* lw x2, 4(x0)
  C("csr", "rw", 2, 1, 0, "mscratch"),  \* csrrw x2, mscratch, x1
  C("csr", "rs", 1, 2, 0, "mscratch"),  \* csrrs x1, mscratch, x2
  C("csri", "rc", 1, 0, 6, "mscratch"), \* csrrci x1, mscratch, 6
  C("csri", "rw", 2, 0, 24, "mtvec"),   \* csrrwi x2, mtvec, 24
  C("csr", "rw", 0, 1, 0, "mtvec"),     \* csrrw x0, mtvec, x1
  C("csr", "rs", 1, 0, 0, "other"),     \* csrr x1, mhartid
  C("csr", "rw", 2, 1, 0, "mepc"),      \* csrrw x2, mepc, x1
  C("csri", "rw", 1, 0, 5, "mcause"),   \* csrrwi x1, mcause, 5
  C("csri", "rs", 0, 0, 8, "mstatus"),  \* csrrsi x0, mstatus, 8
  I("branch", "eq", 0, 1, 2, 8),        \* beq x1, x2, +8
  Priv("ecall"), Priv("ebreak") }

Handler == <<
  Loop,                                 \* address 12
  Loop,
  C("csr", "rs", 1, 0, 0, "mcause"),    \* address 20: csrr x1, mcause
  C("csr", "rs", 2, 0, 0, "mepc"),      \* address 24: csrr x2, mepc
  I("imm", "add", 2, 2, 0, 4),          \* addi x2, x2, 4
  C("csr", "rw", 0, 2, 0, "mepc"),      \* csrw mepc, x2
  Priv("mret") >>

\* Of the programs that write what a trap writes, those that keep it apart.
TrapPrograms ==
  { p \in { q \o Handler : q \in TrapPool \X TrapPool \X TrapPool } : Apart(p) }

TrapCsrs == { [ZeroCsrs EXCEPT !["mtvec"] = 20, !["mstatus"] = m] : m \in {0, 8} }

CorePrograms == DataPrograms \cup TrapPrograms

\* Programs whose jumps all go forward and whose traps return.
ForwardPool == (DataPool \ { I("branch", "ltu", 0, 2, 1, 252), I("jalr", "add", 1, 2, 0, 4) })
  \cup { C("csr", "rw", 2, 1, 0, "mscratch"), C("csri", "rw", 1, 0, 20, "mtvec"), Priv("ecall") }

ForwardPrograms == { p \o Handler : p \in ForwardPool \X ForwardPool \X {Loop} }
                     \cup ForwardPool \X ForwardPool \X {Loop}

=============================================================================
