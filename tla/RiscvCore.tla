----------------------------- MODULE RiscvCore -----------------------------
(***************************************************************************)
(* riscv_core.sv: the five-stage pipelined core.  One step of the module   *)
(* is one clock edge.  The stage registers are records; a bubble is an     *)
(* invalid record holding the all-zero control word Nop.  Which of the     *)
(* actions a clock edge is follows the priority every stage register's     *)
(* always_ff block uses:                                                   *)
(*                                                                         *)
(*     rst  >  halt  >  mem_wait  >  ex_flush  >  front_stall  >  advance  *)
(*                                                                         *)
(* The environment drives rst, halt, imem_vld, dmem_vld and timer_irq.     *)
(***************************************************************************)
EXTENDS Isa

CONSTANTS
  Programs, Fetch(_, _),        \* instruction memory: Fetch(prog, address)
  InitRegs, InitMems, InitCsrs, \* power-up contents (nothing resets them)
  IrqLevels                     \* levels timer_irq may take

ASSUME CoreAssumption ==
  /\ \A p \in Programs, a \in Word : Fetch(p, a) \in Instr
  /\ InitRegs \subseteq [Regs -> Word]
  /\ InitMems \subseteq [Lines -> Word]
  /\ InitCsrs \subseteq [Csrs -> Word]
  /\ IrqLevels \subseteq BOOLEAN

VARIABLES
  prog,      \* the program in instruction memory
  pc,        \* fetch address
  if_id,     \* [valid, pc, ins]
  id_ex,     \* [valid, pc, ins, src1, src2]; src2 holds op_val for a CSR op
  ex_mem,    \* [valid, ins, result, src2]
  mem_wb,    \* [valid, ins, data, op_val]
  regfile, csr, dmem

pipe == <<if_id, id_ex, ex_mem, mem_wb>>
vars == <<prog, pc, if_id, id_ex, ex_mem, mem_wb, regfile, csr, dmem>>

IfIdBubble  == [valid |-> FALSE, pc |-> 0, ins |-> Nop]
IdExBubble  == [valid |-> FALSE, pc |-> 0, ins |-> Nop, src1 |-> 0, src2 |-> 0]
ExMemBubble == [valid |-> FALSE, ins |-> Nop, result |-> 0, src2 |-> 0]
MemWbBubble == [valid |-> FALSE, ins |-> Nop, data |-> 0, op_val |-> 0]

TypeOK ==
  /\ prog \in Programs
  /\ pc \in Word
  /\ if_id  \in [valid : BOOLEAN, pc : Word, ins : Instr]
  /\ id_ex  \in [valid : BOOLEAN, pc : Word, ins : Instr, src1 : Word, src2 : Word]
  /\ ex_mem \in [valid : BOOLEAN, ins : Instr, result : Word, src2 : Word]
  /\ mem_wb \in [valid : BOOLEAN, ins : Instr, data : Word, op_val : Word]
  /\ regfile \in [Regs -> Word]
  /\ csr \in [Csrs -> Word]
  /\ dmem \in [Lines -> Word]

Init ==
  /\ prog \in Programs
  /\ pc = 0
  /\ if_id = IfIdBubble
  /\ id_ex = IdExBubble
  /\ ex_mem = ExMemBubble
  /\ mem_wb = MemWbBubble
  /\ regfile \in InitRegs
  /\ csr \in InitCsrs
  /\ dmem \in InitMems

-----------------------------------------------------------------------------
(* Write-back: the register file and the CSRs commit here.                 *)

\* mip bit 7 mirrors timer_irq.
CsrRead(a, timer_irq) ==
  CASE a = "mip"   -> SetBit(csr[a], MTIE, IF timer_irq THEN 1 ELSE 0)
    [] a = "other" -> 0
    [] OTHER       -> csr[a]

wr_data(timer_irq) ==
  IF IsCsr(mem_wb.ins) THEN CsrRead(mem_wb.ins.csr, timer_irq) ELSE mem_wb.data

RegAfterWb(timer_irq) ==
  IF mem_wb.valid /\ WrEn(mem_wb.ins)
  THEN [regfile EXCEPT ![mem_wb.ins.rd] = wr_data(timer_irq)]
  ELSE regfile

CsrAfterWb(timer_irq) ==
  IF mem_wb.valid /\ IsCsr(mem_wb.ins) /\ mem_wb.ins.csr \in Csrs
  THEN [csr EXCEPT ![mem_wb.ins.csr] =
          CsrNewVal(mem_wb.ins.fn, CsrRead(mem_wb.ins.csr, timer_irq), mem_wb.op_val)]
  ELSE csr

-----------------------------------------------------------------------------
(* Memory access.                                                          *)

dmem_we  == ex_mem.valid /\ ex_mem.ins.op = "store"
dmem_re  == ex_mem.valid /\ ex_mem.ins.op = "load"
dmem_req == dmem_we \/ dmem_re

\* Data memory after this edge. The write port is gated by neither halt,
\* mem_wait nor rst: a store held in MEM writes again in every cycle.
MemAfterPort ==
  IF dmem_we
  THEN [dmem EXCEPT ![LineOf(ex_mem.result)] =
          StoreVal(ex_mem.ins.fn, ex_mem.result % 4, @, ex_mem.src2)]
  ELSE dmem

mem_wr_data ==
  IF ex_mem.ins.op = "load"
  THEN LoadVal(ex_mem.ins.fn, ex_mem.result % 4, dmem[LineOf(ex_mem.result)])
  ELSE ex_mem.result

FromMem == [valid |-> ex_mem.valid, ins |-> ex_mem.ins,
            data |-> mem_wr_data, op_val |-> ex_mem.src2]

-----------------------------------------------------------------------------
(* Execute: the ALU, the redirects and the traps.                          *)

ex_taken_br == TakenBr(id_ex.ins, id_ex.src1, id_ex.src2)

ex_flush_base == ex_taken_br \/ id_ex.ins.op \in {"jal", "jalr", "ecall", "ebreak", "mret"}

\* Mutant: an interrupt waits for an instruction in EX that does not redirect.
IrqNeedsPlainInstr(timer_irq) ==
  /\ Bit(csr["mstatus"], MIE) = 1
  /\ Bit(csr["mie"], MTIE) = 1
  /\ timer_irq
  /\ id_ex.valid /\ ~ex_flush_base

irq_taken(timer_irq) ==
  /\ Bit(csr["mstatus"], MIE) = 1
  /\ Bit(csr["mie"], MTIE) = 1
  /\ timer_irq
  /\ id_ex.ins.op \notin {"ecall", "ebreak", "mret"}

ex_flush(timer_irq) == ex_flush_base \/ irq_taken(timer_irq)

next_pc(timer_irq) ==
  IF irq_taken(timer_irq) THEN csr["mtvec"]
  ELSE CASE ex_taken_br \/ id_ex.ins.op = "jal"   -> Add(id_ex.pc, id_ex.ins.imm)
         [] id_ex.ins.op = "jalr"                 -> Add(id_ex.src1, id_ex.ins.imm)
         [] id_ex.ins.op \in {"ecall", "ebreak"}  -> csr["mtvec"]
         [] id_ex.ins.op = "mret"                 -> csr["mepc"]
         [] OTHER                                 -> Add(pc, 4)

FromEx == [valid |-> id_ex.valid, ins |-> id_ex.ins,
           result |-> Result(id_ex.ins, id_ex.src1, id_ex.src2, id_ex.pc),
           src2 |-> id_ex.src2]

\* Mutant: the CSR instruction in WB commits over the trap.
TrapLosesToWb(timer_irq) ==
  LET c == CsrAfterWb(timer_irq)
      committed(a) == mem_wb.valid /\ IsCsr(mem_wb.ins) /\ mem_wb.ins.csr = a
      entered == [csr EXCEPT !["mepc"] = id_ex.pc,
                             !["mcause"] = IF irq_taken(timer_irq) THEN CauseTimer
                                           ELSE IF id_ex.ins.op = "ecall" THEN CauseEcall
                                           ELSE CauseEbreak,
                             !["mstatus"] = TrapEntry(@)]
  IN CASE id_ex.ins.op \in {"ecall", "ebreak"} \/ irq_taken(timer_irq) ->
            [a \in Csrs |-> IF committed(a) THEN c[a] ELSE entered[a]]
       [] id_ex.ins.op = "mret" -> [c EXCEPT !["mstatus"] = TrapReturn(@)]
       [] OTHER -> c

\* A trap or MRET in EX writes mepc, mcause and mstatus at the edge on which it
\* leaves EX, over whatever the CSR instruction in WB writes at the same edge.
CsrAfterTrap(timer_irq) ==
  LET c == CsrAfterWb(timer_irq) IN
  CASE id_ex.ins.op \in {"ecall", "ebreak"} \/ irq_taken(timer_irq) ->
         [c EXCEPT !["mepc"] = id_ex.pc,
                   !["mcause"] = IF irq_taken(timer_irq) THEN CauseTimer
                                 ELSE IF id_ex.ins.op = "ecall" THEN CauseEcall
                                 ELSE CauseEbreak,
                   \* only bits 3 and 7 are assigned, from the old mstatus
                   !["mstatus"] = SetBit(SetBit(@, MPIE, Bit(csr["mstatus"], MIE)), MIE, 0)]
    [] id_ex.ins.op = "mret" ->
         [c EXCEPT !["mstatus"] =
            SetBit(SetBit(@, MIE, Bit(csr["mstatus"], MPIE)), MPIE, 1)]
    [] OTHER -> c

-----------------------------------------------------------------------------
(* Decode: register read and the interlock.                                *)

\* Mutant: the interlock forgets the instruction in WB.
InFlightNotWb(r) ==
  \/ id_ex.valid  /\ WrEn(id_ex.ins)  /\ id_ex.ins.rd = r
  \/ ex_mem.valid /\ WrEn(ex_mem.ins) /\ ex_mem.ins.rd = r

InFlight(r) ==
  \/ id_ex.valid  /\ WrEn(id_ex.ins)  /\ id_ex.ins.rd = r
  \/ ex_mem.valid /\ WrEn(ex_mem.ins) /\ ex_mem.ins.rd = r
  \/ mem_wb.valid /\ WrEn(mem_wb.ins) /\ mem_wb.ins.rd = r

CsrInFlight(a) ==
  \/ id_ex.valid  /\ IsCsr(id_ex.ins)  /\ id_ex.ins.csr = a
  \/ ex_mem.valid /\ IsCsr(ex_mem.ins) /\ ex_mem.ins.csr = a
  \/ mem_wb.valid /\ IsCsr(mem_wb.ins) /\ mem_wb.ins.csr = a

\* Mutant: MRET is interlocked on mtvec, as ECALL and EBREAK are.
PrivCsrMtvec == "mtvec"

priv_csr_addr == IF if_id.ins.op = "mret" THEN "mepc" ELSE "mtvec"

priv_hazard(timer_irq) ==
  /\ if_id.ins.op \in {"ecall", "ebreak", "mret"} \/ irq_taken(timer_irq)
  /\ CsrInFlight(priv_csr_addr)

id_stall(timer_irq) ==
  /\ if_id.valid
  /\ ~ex_flush(timer_irq)
  /\ \/ priv_hazard(timer_irq)
     \/ \E r \in Regs : Reads(if_id.ins, r) /\ InFlight(r)

FromId == [valid |-> if_id.valid, pc |-> if_id.pc, ins |-> if_id.ins,
           src1 |-> Read(regfile, if_id.ins.rs1),
           src2 |-> IF if_id.ins.op = "csri" THEN if_id.ins.imm
                    ELSE IF if_id.ins.op = "csr" THEN Read(regfile, if_id.ins.rs1)
                    ELSE Read(regfile, if_id.ins.rs2)]

-----------------------------------------------------------------------------
(* One clock edge.                                                         *)

\* Mutant: rst leaves ID/EX alone.
ResetKeepsIdEx(halt, dmem_vld, timer_irq) ==
  /\ pc' = 0
  /\ if_id' = IfIdBubble /\ ex_mem' = ExMemBubble /\ mem_wb' = MemWbBubble
  /\ dmem' = MemAfterPort
  /\ UNCHANGED <<prog, id_ex, regfile, csr>>

\* rst clears pc and the stage registers; the register file, the CSRs and data
\* memory are not reset and commit what WB, EX and MEM held.
Reset(halt, dmem_vld, timer_irq) ==
  /\ pc' = 0
  /\ if_id' = IfIdBubble
  /\ id_ex' = IdExBubble
  /\ ex_mem' = ExMemBubble
  /\ mem_wb' = MemWbBubble
  /\ regfile' = IF halt THEN regfile ELSE RegAfterWb(timer_irq)
  /\ csr' = CASE halt -> csr
              [] ~halt /\ dmem_req /\ ~dmem_vld -> CsrAfterWb(timer_irq)
              [] OTHER -> CsrAfterTrap(timer_irq)
  /\ dmem' = MemAfterPort
  /\ UNCHANGED prog

\* halt: every register holds, but a store in MEM keeps writing.
Halted ==
  /\ dmem' = MemAfterPort
  /\ UNCHANGED <<prog, pc, if_id, id_ex, ex_mem, mem_wb, regfile, csr>>

\* Mutant: a trap writes its CSRs while EX is held, not when it leaves.
MemWaitTraps(dmem_vld, timer_irq) ==
  /\ dmem_req /\ ~dmem_vld
  /\ mem_wb' = MemWbBubble
  /\ regfile' = RegAfterWb(timer_irq)
  /\ csr' = CsrAfterTrap(timer_irq)
  /\ dmem' = MemAfterPort
  /\ UNCHANGED <<prog, pc, if_id, id_ex, ex_mem>>

\* The access of the instruction in MEM has not been answered: everything up
\* to EX/MEM holds, WB commits and gets a bubble.
MemWait(dmem_vld, timer_irq) ==
  /\ dmem_req /\ ~dmem_vld
  /\ mem_wb' = MemWbBubble
  /\ regfile' = RegAfterWb(timer_irq)
  /\ csr' = CsrAfterWb(timer_irq)
  /\ dmem' = MemAfterPort
  /\ UNCHANGED <<prog, pc, if_id, id_ex, ex_mem>>

\* What every cycle that is neither halted nor waiting for data memory does:
\* EX, MEM and WB move on.
BackEnd(dmem_vld, timer_irq) ==
  /\ ~dmem_req \/ dmem_vld
  /\ ex_mem' = FromEx
  /\ mem_wb' = FromMem
  /\ regfile' = RegAfterWb(timer_irq)
  /\ csr' = CsrAfterTrap(timer_irq)
  /\ dmem' = MemAfterPort
  /\ UNCHANGED prog

\* A redirect resolves in EX: fetch goes to the target, IF/ID and ID/EX become
\* bubbles, whatever the fetch side is waiting for.
Flush(dmem_vld, timer_irq) ==
  /\ BackEnd(dmem_vld, timer_irq)
  /\ ex_flush(timer_irq)
  /\ pc' = next_pc(timer_irq)
  /\ if_id' = IfIdBubble
  /\ id_ex' = IdExBubble

\* Mutant: an interlock freezes the whole pipeline.
StallFreezesAll(imem_vld, dmem_vld, timer_irq) ==
  /\ ~dmem_req \/ dmem_vld
  /\ ~ex_flush(timer_irq)
  /\ id_stall(timer_irq) \/ ~imem_vld
  /\ UNCHANGED vars

\* An interlock, or a fetch that has not been answered: pc and IF/ID hold and
\* EX gets a bubble.
FrontStall(imem_vld, dmem_vld, timer_irq) ==
  /\ BackEnd(dmem_vld, timer_irq)
  /\ ~ex_flush(timer_irq)
  /\ id_stall(timer_irq) \/ ~imem_vld
  /\ id_ex' = IdExBubble
  /\ UNCHANGED <<pc, if_id>>

Advance(imem_vld, dmem_vld, timer_irq) ==
  /\ BackEnd(dmem_vld, timer_irq)
  /\ ~ex_flush(timer_irq)
  /\ ~id_stall(timer_irq) /\ imem_vld
  /\ pc' = next_pc(timer_irq)
  /\ if_id' = [valid |-> TRUE, pc |-> pc, ins |-> Fetch(prog, pc)]
  /\ id_ex' = FromId

Running(imem_vld, dmem_vld, timer_irq) ==
  \/ MemWait(dmem_vld, timer_irq)
  \/ Flush(dmem_vld, timer_irq)
  \/ FrontStall(imem_vld, dmem_vld, timer_irq)
  \/ Advance(imem_vld, dmem_vld, timer_irq)

\* One clock edge with rst released, and with rst in mid-run as well.
Cycle ==
  \/ Halted
  \/ \E timer_irq \in IrqLevels, dmem_vld, imem_vld \in BOOLEAN :
       Running(imem_vld, dmem_vld, timer_irq)

Next ==
  \/ Cycle
  \/ \E timer_irq \in IrqLevels, dmem_vld, halt \in BOOLEAN :
       Reset(halt, dmem_vld, timer_irq)

Spec == Init /\ [][Next]_vars

\* Reset at power-up only.
NoResetSpec == Init /\ [][Cycle]_vars
=============================================================================
