-------------------------- MODULE SingleCycleCore --------------------------
(***************************************************************************)
(* riscv_core_single_cycle.sv: the golden reference of the differential    *)
(* tests.  One instruction executes in each cycle in which both memories   *)
(* have answered.  The module is the abstract specification that the       *)
(* pipelined core of RiscvCore.tla is shown to implement.                  *)
(*                                                                         *)
(* Instruction memory is read-only here (test_diff.py gives each core its  *)
(* own imem): Fetch(prog, a) is the word at address a of program prog.     *)
(***************************************************************************)
EXTENDS Isa

CONSTANTS
  Programs, Fetch(_, _),
  InitRegs,       \* register files the core may power up with (no reset)
  InitMems,       \* data memories the core may start on
  InitCsrs,       \* CSR files the core may power up with (no reset)
  StacksMstatus   \* FALSE: the golden core as it is. TRUE: with the mstatus
                  \* stacking only the pipelined core has (test_diff.py:494)

VARIABLES
  prog,      \* the program in instruction memory
  pc, regfile, csr, dmem

scVars == <<prog, pc, regfile, csr, dmem>>

-----------------------------------------------------------------------------
instr == Fetch(prog, pc)
src1  == Read(regfile, instr.rs1)
src2  == Read(regfile, instr.rs2)
result == Result(instr, src1, src2, pc)

csr_rdata == IF instr.csr \in Csrs THEN csr[instr.csr] ELSE 0
op_val    == IF instr.op = "csri" THEN instr.imm ELSE src1

next_pc ==
  CASE TakenBr(instr, src1, src2) \/ instr.op = "jal" -> Add(pc, instr.imm)
    [] instr.op = "jalr"               -> Add(src1, instr.imm)
    [] instr.op \in {"ecall", "ebreak"} -> csr["mtvec"]
    [] instr.op = "mret"               -> csr["mepc"]
    [] OTHER                           -> Add(pc, 4)

wr_data ==
  CASE IsCsr(instr)       -> csr_rdata
    [] instr.op = "load"  -> LoadVal(instr.fn, result % 4, dmem[LineOf(result)])
    [] OTHER              -> result

\* The write port of data memory, asserted whenever the instruction is a store.
Stored ==
  IF instr.op = "store"
  THEN [dmem EXCEPT ![LineOf(result)] = StoreVal(instr.fn, result % 4, @, src2)]
  ELSE dmem

Mstatus(new) == IF StacksMstatus THEN new ELSE csr["mstatus"]

csr_next ==
  CASE IsCsr(instr) /\ instr.csr \in Csrs ->
         [csr EXCEPT ![instr.csr] = CsrNewVal(instr.fn, csr_rdata, op_val)]
    [] instr.op \in {"ecall", "ebreak"} ->
         [csr EXCEPT !["mepc"] = pc,
                     !["mcause"] = IF instr.op = "ecall" THEN CauseEcall ELSE CauseEbreak,
                     !["mstatus"] = Mstatus(TrapEntry(@))]
    [] instr.op = "mret" -> [csr EXCEPT !["mstatus"] = Mstatus(TrapReturn(@))]
    [] OTHER -> csr

-----------------------------------------------------------------------------
Init ==
  /\ prog \in Programs
  /\ pc = 0
  /\ regfile \in InitRegs
  /\ csr \in InitCsrs
  /\ dmem \in InitMems

\* Not halted, both memories answered: pc, register file, CSRs and memory commit.
Execute ==
  /\ pc' = next_pc
  /\ regfile' = IF WrEn(instr) THEN [regfile EXCEPT ![instr.rd] = wr_data] ELSE regfile
  /\ csr' = csr_next
  /\ dmem' = Stored
  /\ UNCHANGED prog

\* Halted, or a memory has not answered: everything holds but the write port
\* of data memory, which nothing gates.
Stall ==
  /\ dmem' = Stored
  /\ UNCHANGED <<prog, pc, regfile, csr>>

Next == Execute \/ Stall

Spec == Init /\ [][Next]_scVars
=============================================================================
