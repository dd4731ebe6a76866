--------------------------- MODULE RiscvCoreProps ---------------------------
(***************************************************************************)
(* What the pipelined core promises: the invariants of its interlock and   *)
(* its flush logic, and the refinement of the single-cycle core.           *)
(***************************************************************************)
EXTENDS RiscvCore

\* Every valid stage register holds the word its own pc addresses, the front
\* of the pipeline is one run of consecutive addresses ending at the fetch
\* address, and a bubble carries the all-zero control word.  It is about the
\* hold and squash branches of the always_ff blocks of pc, IF/ID and ID/EX:
\* a redirect lost to a stall, or a slot held without its pc, breaks it.
FetchOrder ==
  /\ if_id.valid => if_id.ins = Fetch(prog, if_id.pc) /\ pc = Add(if_id.pc, 4)
  /\ id_ex.valid => /\ if_id.valid
                    /\ id_ex.ins = Fetch(prog, id_ex.pc)
                    /\ if_id.pc = Add(id_ex.pc, 4)
  /\ ~if_id.valid => if_id.ins = Nop
  /\ ~id_ex.valid => id_ex.ins = Nop

\* An instruction that reaches EX holds operands that are the register file's
\* and that no older instruction still in MEM or WB is going to change: the
\* stall-only interlock (id_stall) has waited long enough, whatever halts and
\* memory waits came in between.
OperandsFresh ==
  id_ex.valid =>
    /\ \A r \in Regs : Reads(id_ex.ins, r) =>
         /\ ~(ex_mem.valid /\ WrEn(ex_mem.ins) /\ ex_mem.ins.rd = r)
         /\ ~(mem_wb.valid /\ WrEn(mem_wb.ins) /\ mem_wb.ins.rd = r)
    /\ ReadsRs1(id_ex.ins) => id_ex.src1 = Read(regfile, id_ex.ins.rs1)
    /\ ReadsRs2(id_ex.ins) => id_ex.src2 = Read(regfile, id_ex.ins.rs2)
    /\ id_ex.ins.op = "csr" => id_ex.src2 = Read(regfile, id_ex.ins.rs1)
    /\ id_ex.ins.op = "csri" => id_ex.src2 = id_ex.ins.imm

\* A CSR instruction on register a is ahead of EX.
CsrAhead(a) ==
  \/ ex_mem.valid /\ IsCsr(ex_mem.ins) /\ ex_mem.ins.csr = a
  \/ mem_wb.valid /\ IsCsr(mem_wb.ins) /\ mem_wb.ins.csr = a

\* An ECALL, EBREAK or MRET in EX reads its target past the WB-stage CSR path,
\* so no older write to the mtvec or mepc it reads may still be in flight
\* (riscv_core.sv:247-252).
VectorFresh ==
  /\ id_ex.ins.op \in {"ecall", "ebreak"} => ~CsrAhead("mtvec")
  /\ id_ex.ins.op = "mret" => ~CsrAhead("mepc")

-----------------------------------------------------------------------------
(* The refinement mapping.  An instruction takes effect, architecturally,  *)
(* at the edge on which it leaves EX: what ex_mem and mem_wb still have to *)
(* commit is laid over the register file, the CSRs and data memory.        *)

\* pc of the oldest instruction that has not left EX.
AbsPc == IF id_ex.valid THEN id_ex.pc ELSE IF if_id.valid THEN if_id.pc ELSE pc

AbsCsr ==
  LET c == CsrAfterWb(FALSE) IN
  IF ex_mem.valid /\ IsCsr(ex_mem.ins) /\ ex_mem.ins.csr \in Csrs
  THEN [c EXCEPT ![ex_mem.ins.csr] = CsrNewVal(ex_mem.ins.fn, @, ex_mem.src2)]
  ELSE c

\* The value the instruction in MEM will write to rd: a CSR instruction reads
\* its CSR only when it reaches WB.
MemResult ==
  IF IsCsr(ex_mem.ins)
  THEN IF ex_mem.ins.csr \in Csrs THEN CsrAfterWb(FALSE)[ex_mem.ins.csr] ELSE 0
  ELSE mem_wr_data

AbsReg ==
  IF ex_mem.valid /\ WrEn(ex_mem.ins)
  THEN [RegAfterWb(FALSE) EXCEPT ![ex_mem.ins.rd] = MemResult]
  ELSE RegAfterWb(FALSE)

AbsMem == MemAfterPort

SC == INSTANCE SingleCycleCore
         WITH pc <- AbsPc, regfile <- AbsReg, csr <- AbsCsr, dmem <- AbsMem,
              StacksMstatus <- TRUE

\* docs/04_pipeline_plan.md Sec. 7: the pipeline computes what the single-cycle
\* core computes.  Stronger than the end-state comparison of test_diff.py: every
\* step of the pipeline is one instruction of the single-cycle core or none,
\* with every register, CSR and memory line equal after each one.
ImplementsSingleCycle == SC!Spec

\* docs/01_architecture.md:71-72, 90-93: an ECALL or EBREAK saves its pc in mepc
\* and its cause in mcause and disables interrupts, with every older instruction
\* taken into account: none of them that is still in the pipeline undoes it.
\* riscv_core.sv:875-877 has the trap win over a CSR instruction that is in WB
\* at the edge on which it leaves EX; one in MEM commits after it.
TrapStands ==
  [][\A dmem_vld \in BOOLEAN, timer_irq \in IrqLevels :
       Flush(dmem_vld, timer_irq) /\ id_ex.ins.op \in {"ecall", "ebreak"} =>
         /\ AbsCsr'["mepc"] = id_ex.pc
         /\ AbsCsr'["mcause"] = IF id_ex.ins.op = "ecall" THEN CauseEcall ELSE CauseEbreak
         /\ Bit(AbsCsr'["mstatus"], MIE) = 0]_vars

\* What a trap or MRET writes.  (MRET reads mepc, and waits for it.)
TrapWritten(op) == {"mstatus", "mcause"} \cup (IF op = "mret" THEN {} ELSE {"mepc"})

\* The programs whose traps find none of that in flight: no CSR instruction right
\* before a trap or MRET is on a register that it writes, and no CSR instruction
\* two before one is on mstatus.  Nothing in the core enforces it beyond VectorFresh.
Apart(p) ==
  \A a \in Word :
    IsCsr(Fetch(p, a)) =>
      LET next  == Fetch(p, Add(a, 4)).op
          later == Fetch(p, Add(Add(a, 4), 4)).op
      IN /\ next \in {"ecall", "ebreak", "mret"} => Fetch(p, a).csr \notin TrapWritten(next)
         /\ later \in {"ecall", "ebreak", "mret"} => Fetch(p, a).csr # "mstatus"

-----------------------------------------------------------------------------
\* The self-loop every test program ends in (`loop: jal x0, loop`).
Parked == LET i == Fetch(prog, AbsPc) IN i.op = "jal" /\ i.rd = 0 /\ i.imm = 0
=============================================================================
