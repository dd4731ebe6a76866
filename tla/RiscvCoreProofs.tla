-------------------------- MODULE RiscvCoreProofs --------------------------
(***************************************************************************)
(* Machine-checked proofs about the pipelined core, for every word width,  *)
(* register count, program, memory and data path that satisfies the        *)
(* assumptions of Isa.tla and RiscvCore.tla.                               *)
(***************************************************************************)
EXTENDS RiscvCoreProps, TLAPS

LEMMA WordFacts ==
  /\ MaxWord \in Nat
  /\ MaxWord >= 255
  /\ \A n \in 0 .. 255 : n \in Word
BY WordAssumption DEF Word

LEMMA AddType == ASSUME NEW a \in Word, NEW b \in Word PROVE Add(a, b) \in Word
BY WordFacts DEF Word, Add

LEMMA NopType == Nop \in Instr
BY FnAssumption, RegAssumption, WordFacts DEF Nop, Instr, Ops

\* A bit of mask 8 or 128 can be set or cleared within a word, because words
\* are whole bytes.
LEMMA SetBitType ==
  ASSUME NEW w \in Word, NEW m \in {8, 128}, NEW b \in {0, 1}
  PROVE  SetBit(w, m, b) \in Word
<1>1. PICK k \in 1 .. MaxWord : MaxWord = 256 * k - 1
  BY WordAssumption
<1>2. k \in Nat /\ w \in Nat /\ w <= 256 * k - 1 /\ MaxWord \in Nat
  BY <1>1, WordAssumption DEF Word
<1>3. CASE m = 8
  <2>1. SetBit(w, 8, b) = w - 8 * ((w \div 8) % 2) + 8 * b
    BY DEF SetBit, Bit
  <2>2. 0 <= w - 8 * ((w \div 8) % 2) /\ w - 8 * ((w \div 8) % 2) + 8 <= 256 * k - 1
    BY <1>2
  <2> QED BY <1>1, <1>2, <1>3, <2>1, <2>2 DEF Word
<1>4. CASE m = 128
  <2>1. SetBit(w, 128, b) = w - 128 * ((w \div 128) % 2) + 128 * b
    BY DEF SetBit, Bit
  <2>2. 0 <= w - 128 * ((w \div 128) % 2) /\ w - 128 * ((w \div 128) % 2) + 128 <= 256 * k - 1
    BY <1>2
  <2> QED BY <1>1, <1>2, <1>4, <2>1, <2>2 DEF Word
<1> QED BY <1>3, <1>4

LEMMA BitType == ASSUME NEW w \in Word, NEW m \in {8, 128} PROVE Bit(w, m) \in {0, 1}
BY WordFacts DEF Word, Bit

LEMMA ResultType ==
  ASSUME NEW i \in Instr, NEW s1 \in Word, NEW s2 \in Word, NEW at \in Word
  PROVE  Result(i, s1, s2, at) \in Word
BY AluAssumption, AddType, WordFacts DEF Result, Instr

LEMMA ReadType ==
  ASSUME NEW rf \in [Regs -> Word], NEW r \in Regs PROVE Read(rf, r) \in Word
BY WordFacts DEF Read

LEMMA CsrNewValType ==
  ASSUME NEW fn, NEW old \in Word, NEW v \in Word PROVE CsrNewVal(fn, old, v) \in Word
BY CsrAssumption DEF CsrNewVal

LEMMA CsrReadType ==
  ASSUME TypeOK, NEW a \in Csrs \cup {"other"}, NEW irq \in BOOLEAN
  PROVE  CsrRead(a, irq) \in Word
<1>1. \A x \in Csrs : csr[x] \in Word
  BY DEF TypeOK
<1>2. "mip" \in Csrs
  BY DEF Csrs
<1>3. SetBit(csr["mip"], MTIE, IF irq THEN 1 ELSE 0) \in Word
  BY <1>1, <1>2, SetBitType DEF MTIE
<1> QED BY <1>1, <1>3, WordFacts DEF CsrRead

LEMMA RegAfterWbType ==
  ASSUME TypeOK, NEW irq \in BOOLEAN PROVE RegAfterWb(irq) \in [Regs -> Word]
<1>1. wr_data(irq) \in Word
  BY CsrReadType DEF wr_data, TypeOK, Instr
<1> QED BY <1>1 DEF RegAfterWb, TypeOK, Instr

LEMMA CsrAfterWbType ==
  ASSUME TypeOK, NEW irq \in BOOLEAN PROVE CsrAfterWb(irq) \in [Csrs -> Word]
<1>1. mem_wb.ins.csr \in Csrs \cup {"other"} /\ mem_wb.op_val \in Word
  BY DEF TypeOK, Instr
<1>2. CsrNewVal(mem_wb.ins.fn, CsrRead(mem_wb.ins.csr, irq), mem_wb.op_val) \in Word
  BY <1>1, CsrReadType, CsrNewValType
<1> QED BY <1>2 DEF CsrAfterWb, TypeOK

LEMMA MemAfterPortType == ASSUME TypeOK PROVE MemAfterPort \in [Lines -> Word]
<1>1. ex_mem.result \in Word /\ ex_mem.src2 \in Word /\ ex_mem.ins.fn \in Fns
  BY DEF TypeOK, Instr
<1>2. LineOf(ex_mem.result) \in Lines
  BY <1>1, LineAssumption
<1>3. ex_mem.result % 4 \in 0 .. 3
  BY <1>1, WordFacts DEF Word
<1>4. dmem[LineOf(ex_mem.result)] \in Word
  BY <1>2 DEF TypeOK
<1>5. StoreVal(ex_mem.ins.fn, ex_mem.result % 4, dmem[LineOf(ex_mem.result)], ex_mem.src2) \in Word
  BY <1>1, <1>3, <1>4, StoreAssumption
<1> QED BY <1>5 DEF MemAfterPort, TypeOK

LEMMA CsrAfterTrapType ==
  ASSUME TypeOK, NEW irq \in BOOLEAN PROVE CsrAfterTrap(irq) \in [Csrs -> Word]
<1> DEFINE c == CsrAfterWb(irq)
           cause == IF irq_taken(irq) THEN CauseTimer
                    ELSE IF id_ex.ins.op = "ecall" THEN CauseEcall ELSE CauseEbreak
           entry == SetBit(SetBit(c["mstatus"], MPIE, Bit(csr["mstatus"], MIE)), MIE, 0)
           return == SetBit(SetBit(c["mstatus"], MIE, Bit(csr["mstatus"], MPIE)), MPIE, 1)
<1>1. c \in [Csrs -> Word] /\ "mstatus" \in Csrs
  BY CsrAfterWbType DEF Csrs
<1>2. id_ex.pc \in Word
  BY DEF TypeOK
<1>3. cause \in Word
  <2>1. CauseTimer \in Word
    BY WordFacts DEF CauseTimer, Word
  <2>2. CauseEcall \in Word /\ CauseEbreak \in Word
    BY WordFacts DEF CauseEcall, CauseEbreak
  <2> QED BY <2>1, <2>2
<1>4. /\ Bit(csr["mstatus"], MIE) \in {0, 1}
      /\ Bit(csr["mstatus"], MPIE) \in {0, 1}
  BY <1>1, BitType DEF TypeOK, MIE, MPIE
<1>5. entry \in Word
  BY <1>1, <1>4, SetBitType DEF MIE, MPIE
<1>6. return \in Word
  BY <1>1, <1>4, SetBitType DEF MIE, MPIE
<1>7. CsrAfterTrap(irq) =
        CASE id_ex.ins.op \in {"ecall", "ebreak"} \/ irq_taken(irq) ->
               [c EXCEPT !["mepc"] = id_ex.pc, !["mcause"] = cause, !["mstatus"] = entry]
          [] id_ex.ins.op = "mret" -> [c EXCEPT !["mstatus"] = return]
          [] OTHER -> c
  BY <1>1 DEF CsrAfterTrap
<1> HIDE DEF c, cause, entry, return
<1> QED BY <1>1, <1>2, <1>3, <1>5, <1>6, <1>7

LEMMA NextPcType == ASSUME TypeOK, NEW irq \in BOOLEAN PROVE next_pc(irq) \in Word
<1>1. csr["mtvec"] \in Word /\ csr["mepc"] \in Word
  BY DEF TypeOK, Csrs
<1>2. id_ex.pc \in Word /\ id_ex.src1 \in Word /\ id_ex.ins.imm \in Word /\ pc \in Word
  BY DEF TypeOK, Instr
<1>3. /\ Add(id_ex.pc, id_ex.ins.imm) \in Word
      /\ Add(id_ex.src1, id_ex.ins.imm) \in Word
      /\ Add(pc, 4) \in Word
  BY <1>2, AddType, WordFacts
<1> QED BY <1>1, <1>3 DEF next_pc

\* What the stage registers take over on an edge is well typed.
LEMMA StageTypes ==
  ASSUME TypeOK
  PROVE  /\ IfIdBubble \in [valid : BOOLEAN, pc : Word, ins : Instr]
         /\ IdExBubble \in [valid : BOOLEAN, pc : Word, ins : Instr, src1 : Word, src2 : Word]
         /\ MemWbBubble \in [valid : BOOLEAN, ins : Instr, data : Word, op_val : Word]
         /\ ExMemBubble \in [valid : BOOLEAN, ins : Instr, result : Word, src2 : Word]
         /\ FromId \in [valid : BOOLEAN, pc : Word, ins : Instr, src1 : Word, src2 : Word]
         /\ FromEx \in [valid : BOOLEAN, ins : Instr, result : Word, src2 : Word]
         /\ FromMem \in [valid : BOOLEAN, ins : Instr, data : Word, op_val : Word]
<1>1. 0 \in Word
  BY WordFacts
<1>2. Read(regfile, if_id.ins.rs1) \in Word /\ Read(regfile, if_id.ins.rs2) \in Word
  BY ReadType DEF TypeOK, Instr
<1>3. Result(id_ex.ins, id_ex.src1, id_ex.src2, id_ex.pc) \in Word
  BY ResultType DEF TypeOK
<1>4. mem_wr_data \in Word
  <2>1. ex_mem.result \in Word /\ ex_mem.ins.fn \in Fns
    BY DEF TypeOK, Instr
  <2>2. dmem[LineOf(ex_mem.result)] \in Word
    BY <2>1, LineAssumption DEF TypeOK
  <2>3. ex_mem.result % 4 \in 0 .. 3
    BY <2>1, WordFacts DEF Word
  <2> QED BY <2>1, <2>2, <2>3, LoadAssumption DEF mem_wr_data
<1>5. FromId \in [valid : BOOLEAN, pc : Word, ins : Instr, src1 : Word, src2 : Word]
  BY <1>2 DEF FromId, TypeOK, Instr
<1>6. FromEx \in [valid : BOOLEAN, ins : Instr, result : Word, src2 : Word]
  BY <1>3 DEF FromEx, TypeOK
<1>7. FromMem \in [valid : BOOLEAN, ins : Instr, data : Word, op_val : Word]
  BY <1>4 DEF FromMem, TypeOK
<1> QED
  BY <1>1, <1>5, <1>6, <1>7, NopType DEF IfIdBubble, IdExBubble, ExMemBubble, MemWbBubble

LEMMA TypeInit == Init => TypeOK
<1> SUFFICES ASSUME Init PROVE TypeOK
  OBVIOUS
<1>1. 0 \in Word
  BY WordFacts
<1> QED
  BY <1>1, NopType, CoreAssumption
  DEF Init, TypeOK, IfIdBubble, IdExBubble, ExMemBubble, MemWbBubble

LEMMA BackEndType ==
  ASSUME TypeOK, NEW dv \in BOOLEAN, NEW irq \in BOOLEAN, BackEnd(dv, irq)
  PROVE  /\ prog' \in Programs
         /\ ex_mem' \in [valid : BOOLEAN, ins : Instr, result : Word, src2 : Word]
         /\ mem_wb' \in [valid : BOOLEAN, ins : Instr, data : Word, op_val : Word]
         /\ regfile' \in [Regs -> Word]
         /\ csr' \in [Csrs -> Word]
         /\ dmem' \in [Lines -> Word]
BY StageTypes, RegAfterWbType, CsrAfterTrapType, MemAfterPortType DEF BackEnd, TypeOK

\* The type invariant is preserved by every edge.
LEMMA TypeStep == TypeOK /\ [Next]_vars => TypeOK'
<1> SUFFICES ASSUME TypeOK, [Next]_vars PROVE TypeOK'
  OBVIOUS
<1>0. 0 \in Word /\ IrqLevels \subseteq BOOLEAN
  BY WordFacts, CoreAssumption
<1>1. CASE Halted
  BY <1>1, MemAfterPortType DEF Halted, TypeOK
<1>2. ASSUME NEW halt \in BOOLEAN, NEW dv \in BOOLEAN, NEW irq \in IrqLevels,
             Reset(halt, dv, irq)
      PROVE  TypeOK'
  <2>1. regfile' \in [Regs -> Word]
    BY <1>0, <1>2, RegAfterWbType DEF Reset, TypeOK
  <2>2. csr' \in [Csrs -> Word]
    BY <1>0, <1>2, CsrAfterWbType, CsrAfterTrapType DEF Reset, TypeOK
  <2> QED BY <1>0, <1>2, <2>1, <2>2, StageTypes, MemAfterPortType DEF Reset, TypeOK
<1>3. ASSUME NEW dv \in BOOLEAN, NEW irq \in IrqLevels, MemWait(dv, irq)
      PROVE  TypeOK'
  BY <1>0, <1>3, StageTypes, RegAfterWbType, CsrAfterWbType, MemAfterPortType
  DEF MemWait, TypeOK
<1>4. ASSUME NEW dv \in BOOLEAN, NEW irq \in IrqLevels, Flush(dv, irq)
      PROVE  TypeOK'
  <2>1. pc' \in Word
    BY <1>0, <1>4, NextPcType DEF Flush
  <2> QED BY <1>0, <1>4, <2>1, StageTypes, BackEndType DEF Flush, TypeOK
<1>5. ASSUME NEW iv \in BOOLEAN, NEW dv \in BOOLEAN, NEW irq \in IrqLevels,
             FrontStall(iv, dv, irq)
      PROVE  TypeOK'
  BY <1>0, <1>5, StageTypes, BackEndType DEF FrontStall, TypeOK
<1>6. ASSUME NEW iv \in BOOLEAN, NEW dv \in BOOLEAN, NEW irq \in IrqLevels,
             Advance(iv, dv, irq)
      PROVE  TypeOK'
  <2>1. pc' \in Word
    BY <1>0, <1>6, NextPcType DEF Advance
  <2>2. if_id' \in [valid : BOOLEAN, pc : Word, ins : Instr]
    BY <1>6, CoreAssumption DEF Advance, TypeOK
  <2> QED BY <1>0, <1>6, <2>1, <2>2, StageTypes, BackEndType DEF Advance, TypeOK
<1>7. CASE UNCHANGED vars
  BY <1>7 DEF vars, TypeOK
<1> QED BY <1>1, <1>2, <1>3, <1>4, <1>5, <1>6, <1>7 DEF Next, Cycle, Running

\* Every reachable state of the core is well typed, whatever the halts, resets,
\* memory waits and interrupts.
THEOREM TypeCorrect == Spec => []TypeOK
BY TypeInit, TypeStep, PTL DEF Spec

-----------------------------------------------------------------------------
(* The interlock and the flush logic.                                      *)

LEMMA BubbleFacts ==
  /\ ~IfIdBubble.valid /\ IfIdBubble.ins = Nop
  /\ ~IdExBubble.valid /\ IdExBubble.ins = Nop
  /\ ~MemWbBubble.valid /\ ~ExMemBubble.valid
  /\ Nop.op = "none"
BY DEF IfIdBubble, IdExBubble, ExMemBubble, MemWbBubble, Nop

\* A register no instruction in WB writes keeps its value.
LEMMA RegKept ==
  ASSUME TypeOK, NEW irq \in BOOLEAN, NEW r \in Regs,
         ~(mem_wb.valid /\ WrEn(mem_wb.ins) /\ mem_wb.ins.rd = r)
  PROVE  RegAfterWb(irq)[r] = regfile[r]
BY DEF RegAfterWb, TypeOK, Instr

LEMMA FetchOrderStep == TypeOK /\ FetchOrder /\ [Next]_vars => FetchOrder'
<1> SUFFICES ASSUME TypeOK, FetchOrder, [Next]_vars PROVE FetchOrder'
  OBVIOUS
<1>1. CASE Halted
  BY <1>1 DEF Halted, FetchOrder
<1>2. ASSUME NEW halt \in BOOLEAN, NEW dv \in BOOLEAN, NEW irq \in IrqLevels,
             Reset(halt, dv, irq)
      PROVE  FetchOrder'
  BY <1>2, BubbleFacts DEF Reset, FetchOrder
<1>3. ASSUME NEW dv \in BOOLEAN, NEW irq \in IrqLevels, MemWait(dv, irq)
      PROVE  FetchOrder'
  BY <1>3 DEF MemWait, FetchOrder
<1>4. ASSUME NEW dv \in BOOLEAN, NEW irq \in IrqLevels, Flush(dv, irq)
      PROVE  FetchOrder'
  BY <1>4, BubbleFacts DEF Flush, FetchOrder
<1>5. ASSUME NEW iv \in BOOLEAN, NEW dv \in BOOLEAN, NEW irq \in IrqLevels,
             FrontStall(iv, dv, irq)
      PROVE  FetchOrder'
  BY <1>5, BubbleFacts DEF FrontStall, BackEnd, FetchOrder
<1>6. ASSUME NEW iv \in BOOLEAN, NEW dv \in BOOLEAN, NEW irq \in IrqLevels,
             Advance(iv, dv, irq)
      PROVE  FetchOrder'
  <2>1. ~ex_flush_base /\ ~irq_taken(irq) /\ prog' = prog
    BY <1>6 DEF Advance, BackEnd, ex_flush
  <2>2. next_pc(irq) = Add(pc, 4)
    BY <2>1 DEF next_pc, ex_flush_base
  <2>3. /\ if_id'.valid /\ if_id'.pc = pc /\ if_id'.ins = Fetch(prog, pc)
        /\ pc' = Add(pc, 4)
    BY <1>6, <2>2 DEF Advance
  <2>4. /\ id_ex'.valid = if_id.valid /\ id_ex'.pc = if_id.pc
        /\ id_ex'.ins = if_id.ins
    BY <1>6 DEF Advance, FromId
  <2> QED BY <2>1, <2>3, <2>4 DEF FetchOrder
<1>7. CASE UNCHANGED vars
  BY <1>7 DEF vars, FetchOrder
<1> QED BY <1>1, <1>2, <1>3, <1>4, <1>5, <1>6, <1>7 DEF Next, Cycle, Running

\* In every reachable state the front of the pipeline holds one run of
\* consecutive addresses, each with the word fetched from it.
THEOREM FetchInOrder == Spec => []FetchOrder
<1>1. Init => FetchOrder
  BY BubbleFacts DEF Init, FetchOrder
<1> QED BY <1>1, FetchOrderStep, TypeCorrect, PTL DEF Spec

LEMMA OperandsStep == TypeOK /\ OperandsFresh /\ [Next]_vars => OperandsFresh'
<1> SUFFICES ASSUME TypeOK, OperandsFresh, [Next]_vars PROVE OperandsFresh'
  OBVIOUS
<1>0. IrqLevels \subseteq BOOLEAN
  BY CoreAssumption
<1>1. CASE Halted
  BY <1>1 DEF Halted, OperandsFresh
<1>2. ASSUME NEW halt \in BOOLEAN, NEW dv \in BOOLEAN, NEW irq \in IrqLevels,
             Reset(halt, dv, irq)
      PROVE  OperandsFresh'
  BY <1>2, BubbleFacts DEF Reset, OperandsFresh
<1>3. ASSUME NEW dv \in BOOLEAN, NEW irq \in IrqLevels, MemWait(dv, irq)
      PROVE  OperandsFresh'
  <2>1. id_ex' = id_ex /\ ex_mem' = ex_mem /\ ~mem_wb'.valid /\ regfile' = RegAfterWb(irq)
    BY <1>3, BubbleFacts DEF MemWait
  <2>2. ASSUME NEW r \in Regs, ~(mem_wb.valid /\ WrEn(mem_wb.ins) /\ mem_wb.ins.rd = r)
        PROVE  Read(regfile', r) = Read(regfile, r)
    BY <1>0, <2>1, <2>2, RegKept DEF Read
  <2>3. SUFFICES ASSUME id_ex.valid PROVE OperandsFresh'
    BY <2>1 DEF OperandsFresh
  <2>4. ASSUME NEW r \in Regs, r = 0 \/ Reads(id_ex.ins, r)
        PROVE  Read(regfile', r) = Read(regfile, r)
    BY <2>2, <2>3, <2>4 DEF OperandsFresh, Read
  <2>5. id_ex.ins.rs1 \in Regs /\ id_ex.ins.rs2 \in Regs
    BY DEF TypeOK, Instr
  <2>6. /\ ReadsRs1(id_ex.ins) => Read(regfile', id_ex.ins.rs1) = Read(regfile, id_ex.ins.rs1)
        /\ ReadsRs2(id_ex.ins) => Read(regfile', id_ex.ins.rs2) = Read(regfile, id_ex.ins.rs2)
    BY <2>4, <2>5 DEF Reads
  <2>7. id_ex.ins.op = "csr" => ReadsRs1(id_ex.ins)
    BY DEF ReadsRs1
  <2> QED BY <2>1, <2>3, <2>6, <2>7 DEF OperandsFresh
<1>4. ASSUME NEW dv \in BOOLEAN, NEW irq \in IrqLevels, Flush(dv, irq)
      PROVE  OperandsFresh'
  BY <1>4, BubbleFacts DEF Flush, OperandsFresh
<1>5. ASSUME NEW iv \in BOOLEAN, NEW dv \in BOOLEAN, NEW irq \in IrqLevels,
             FrontStall(iv, dv, irq)
      PROVE  OperandsFresh'
  BY <1>5, BubbleFacts DEF FrontStall, OperandsFresh
<1>6. ASSUME NEW iv \in BOOLEAN, NEW dv \in BOOLEAN, NEW irq \in IrqLevels,
             Advance(iv, dv, irq)
      PROVE  OperandsFresh'
  <2>1. /\ id_ex' = FromId /\ ex_mem' = FromEx /\ mem_wb' = FromMem
        /\ regfile' = RegAfterWb(irq)
        /\ ~id_stall(irq) /\ ~ex_flush(irq)
    BY <1>6 DEF Advance, BackEnd
  <2>2. SUFFICES ASSUME if_id.valid PROVE OperandsFresh'
    BY <2>1 DEF OperandsFresh, FromId
  <2>3. \A r \in Regs : Reads(if_id.ins, r) => ~InFlight(r)
    BY <2>1, <2>2 DEF id_stall
  <2>4. ASSUME NEW r \in Regs, r = 0 \/ Reads(if_id.ins, r)
        PROVE  Read(regfile', r) = Read(regfile, r)
    BY <1>0, <2>1, <2>3, <2>4, RegKept DEF InFlight, Read
  <2>5. if_id.ins.rs1 \in Regs /\ if_id.ins.rs2 \in Regs
    BY DEF TypeOK, Instr
  <2>6. /\ ReadsRs1(if_id.ins) => Read(regfile', if_id.ins.rs1) = Read(regfile, if_id.ins.rs1)
        /\ ReadsRs2(if_id.ins) => Read(regfile', if_id.ins.rs2) = Read(regfile, if_id.ins.rs2)
    BY <2>4, <2>5 DEF Reads
  <2>7. /\ if_id.ins.op = "csr" => ReadsRs1(if_id.ins)
        /\ ReadsRs2(if_id.ins) => if_id.ins.op \notin {"csr", "csri"}
    BY DEF ReadsRs1, ReadsRs2
  <2>8. /\ ReadsRs1(id_ex'.ins) => id_ex'.src1 = Read(regfile', id_ex'.ins.rs1)
        /\ ReadsRs2(id_ex'.ins) => id_ex'.src2 = Read(regfile', id_ex'.ins.rs2)
        /\ id_ex'.ins.op = "csr" => id_ex'.src2 = Read(regfile', id_ex'.ins.rs1)
        /\ id_ex'.ins.op = "csri" => id_ex'.src2 = id_ex'.ins.imm
    BY <2>1, <2>6, <2>7 DEF FromId
  <2>9. ASSUME NEW r \in Regs, Reads(id_ex'.ins, r)
        PROVE  /\ ~(ex_mem'.valid /\ WrEn(ex_mem'.ins) /\ ex_mem'.ins.rd = r)
               /\ ~(mem_wb'.valid /\ WrEn(mem_wb'.ins) /\ mem_wb'.ins.rd = r)
    BY <2>1, <2>3, <2>9 DEF InFlight, FromId, FromEx, FromMem
  <2> QED BY <2>8, <2>9 DEF OperandsFresh
<1>7. CASE UNCHANGED vars
  BY <1>7 DEF vars, OperandsFresh
<1> QED BY <1>1, <1>2, <1>3, <1>4, <1>5, <1>6, <1>7 DEF Next, Cycle, Running

\* The interlock: operands in EX are current and stay so until they are used.
THEOREM InterlockCorrect == Spec => []OperandsFresh
<1>1. Init => OperandsFresh
  BY BubbleFacts DEF Init, OperandsFresh
<1> QED BY <1>1, OperandsStep, TypeCorrect, PTL DEF Spec

LEMMA VectorStep == FetchOrder /\ VectorFresh /\ [Next]_vars => VectorFresh'
<1> SUFFICES ASSUME FetchOrder, VectorFresh, [Next]_vars PROVE VectorFresh'
  OBVIOUS
<1>1. CASE Halted
  BY <1>1 DEF Halted, VectorFresh, CsrAhead
<1>2. ASSUME NEW halt \in BOOLEAN, NEW dv \in BOOLEAN, NEW irq \in IrqLevels,
             Reset(halt, dv, irq)
      PROVE  VectorFresh'
  BY <1>2, BubbleFacts DEF Reset, VectorFresh
<1>3. ASSUME NEW dv \in BOOLEAN, NEW irq \in IrqLevels, MemWait(dv, irq)
      PROVE  VectorFresh'
  BY <1>3, BubbleFacts DEF MemWait, VectorFresh, CsrAhead
<1>4. ASSUME NEW dv \in BOOLEAN, NEW irq \in IrqLevels, Flush(dv, irq)
      PROVE  VectorFresh'
  BY <1>4, BubbleFacts DEF Flush, VectorFresh
<1>5. ASSUME NEW iv \in BOOLEAN, NEW dv \in BOOLEAN, NEW irq \in IrqLevels,
             FrontStall(iv, dv, irq)
      PROVE  VectorFresh'
  BY <1>5, BubbleFacts DEF FrontStall, VectorFresh
<1>6. ASSUME NEW iv \in BOOLEAN, NEW dv \in BOOLEAN, NEW irq \in IrqLevels,
             Advance(iv, dv, irq)
      PROVE  VectorFresh'
  <2>1. /\ id_ex' = FromId /\ ex_mem' = FromEx /\ mem_wb' = FromMem
        /\ ~id_stall(irq) /\ ~ex_flush(irq)
    BY <1>6 DEF Advance, BackEnd
  <2>2. if_id.ins.op \in {"ecall", "ebreak", "mret"} =>
          if_id.valid /\ ~CsrInFlight(priv_csr_addr)
    BY <2>1, BubbleFacts DEF id_stall, priv_hazard, FetchOrder
  <2>3. id_ex'.ins = if_id.ins
    BY <2>1 DEF FromId
  <2> QED BY <2>1, <2>2, <2>3
          DEF VectorFresh, CsrAhead, CsrInFlight, priv_csr_addr, FromEx, FromMem
<1>7. CASE UNCHANGED vars
  BY <1>7 DEF vars, VectorFresh, CsrAhead
<1> QED BY <1>1, <1>2, <1>3, <1>4, <1>5, <1>6, <1>7 DEF Next, Cycle, Running

\* The trap interlock: the target a trap or MRET reads is never stale.
THEOREM VectorCorrect == Spec => []VectorFresh
<1>1. Init => VectorFresh
  BY BubbleFacts DEF Init, VectorFresh
<1> QED BY <1>1, VectorStep, FetchInOrder, PTL DEF Spec

-----------------------------------------------------------------------------
(* What is ahead of a trap in EX.  A redirect leaves two bubbles behind it, *)
(* so an instruction in EX never has anything ahead of it but the two       *)
(* instructions before it in memory.                                        *)

ExMemBefore ==
  if_id.valid /\ ex_mem.valid =>
    \E a \in Word : ex_mem.ins = Fetch(prog, a) /\ AbsPc = Add(a, 4)

MemWbBefore ==
  id_ex.valid /\ mem_wb.valid =>
    \E a \in Word : mem_wb.ins = Fetch(prog, a) /\ id_ex.pc \in {Add(a, 4), Add(Add(a, 4), 4)}

Before == ExMemBefore /\ MemWbBefore

LEMMA BeforeStep == TypeOK /\ FetchOrder /\ Before /\ [Next]_vars => Before'
<1> SUFFICES ASSUME TypeOK, FetchOrder, Before, [Next]_vars PROVE Before'
  OBVIOUS
<1>1. CASE Halted
  BY <1>1 DEF Halted, Before, ExMemBefore, MemWbBefore, AbsPc
<1>2. ASSUME NEW halt \in BOOLEAN, NEW dv \in BOOLEAN, NEW irq \in IrqLevels,
             Reset(halt, dv, irq)
      PROVE  Before'
  BY <1>2, BubbleFacts DEF Reset, Before, ExMemBefore, MemWbBefore
<1>3. ASSUME NEW dv \in BOOLEAN, NEW irq \in IrqLevels, MemWait(dv, irq)
      PROVE  Before'
  BY <1>3, BubbleFacts DEF MemWait, Before, ExMemBefore, MemWbBefore, AbsPc
<1>4. ASSUME NEW dv \in BOOLEAN, NEW irq \in IrqLevels, Flush(dv, irq)
      PROVE  Before'
  BY <1>4, BubbleFacts DEF Flush, Before, ExMemBefore, MemWbBefore
<1>5. ASSUME NEW iv \in BOOLEAN, NEW dv \in BOOLEAN, NEW irq \in IrqLevels,
             FrontStall(iv, dv, irq)
      PROVE  Before'
  <2>1. /\ ~id_ex'.valid /\ if_id' = if_id /\ prog' = prog
        /\ ex_mem'.valid = id_ex.valid /\ ex_mem'.ins = id_ex.ins
    BY <1>5, BubbleFacts DEF FrontStall, BackEnd, FromEx
  <2>2. CASE if_id.valid /\ id_ex.valid
    <3>1. AbsPc' = Add(id_ex.pc, 4) /\ ex_mem'.ins = Fetch(prog, id_ex.pc) /\ id_ex.pc \in Word
      BY <2>1, <2>2 DEF AbsPc, FetchOrder, TypeOK
    <3> QED
      BY <2>1, <3>1 DEF Before, ExMemBefore, MemWbBefore
  <2>3. CASE ~(if_id.valid /\ id_ex.valid)
    BY <2>1, <2>3 DEF Before, ExMemBefore, MemWbBefore
  <2> QED
    BY <2>2, <2>3
<1>6. ASSUME NEW iv \in BOOLEAN, NEW dv \in BOOLEAN, NEW irq \in IrqLevels,
             Advance(iv, dv, irq)
      PROVE  Before'
  <2>1. /\ id_ex'.valid = if_id.valid /\ id_ex'.pc = if_id.pc /\ prog' = prog
        /\ ex_mem'.valid = id_ex.valid /\ ex_mem'.ins = id_ex.ins
        /\ mem_wb'.valid = ex_mem.valid /\ mem_wb'.ins = ex_mem.ins
    BY <1>6 DEF Advance, BackEnd, FromId, FromEx, FromMem
  <2>2. ExMemBefore'
    <3>1. SUFFICES ASSUME id_ex.valid
                   PROVE  \E a \in Word : ex_mem'.ins = Fetch(prog', a) /\ AbsPc' = Add(a, 4)
      BY <2>1 DEF ExMemBefore
    <3>2. id_ex.ins = Fetch(prog, id_ex.pc) /\ AbsPc' = Add(id_ex.pc, 4) /\ id_ex.pc \in Word
      BY <2>1, <3>1 DEF AbsPc, FetchOrder, TypeOK
    <3> QED
      BY <2>1, <3>2
  <2>3. MemWbBefore'
    <3>1. SUFFICES ASSUME if_id.valid, ex_mem.valid
                   PROVE  \E a \in Word : mem_wb'.ins = Fetch(prog', a)
                                        /\ id_ex'.pc \in {Add(a, 4), Add(Add(a, 4), 4)}
      BY <2>1 DEF MemWbBefore
    <3>2. PICK a \in Word : ex_mem.ins = Fetch(prog, a) /\ AbsPc = Add(a, 4)
      BY <3>1 DEF Before, ExMemBefore
    <3>3. id_ex'.pc \in {AbsPc, Add(AbsPc, 4)}
      BY <2>1, <3>1 DEF AbsPc, FetchOrder, TypeOK
    <3> QED
      BY <2>1, <3>2, <3>3
  <2> QED
    BY <2>2, <2>3 DEF Before
<1>7. CASE UNCHANGED vars
  BY <1>7 DEF vars, Before, ExMemBefore, MemWbBefore, AbsPc
<1> QED BY <1>1, <1>2, <1>3, <1>4, <1>5, <1>6, <1>7 DEF Next, Cycle, Running

\* When a trap or MRET is in EX, no CSR instruction on a register that it writes
\* is ahead of it.  (A CSR instruction in WB commits at the same edge, before the
\* trap's own writes, so mepc and mcause may be in WB; the trap's mstatus is
\* computed from the old one.)
TrapDrained ==
  id_ex.ins.op \in {"ecall", "ebreak", "mret"} =>
    /\ ~CsrAhead("mstatus")
    /\ ex_mem.valid /\ IsCsr(ex_mem.ins) => ex_mem.ins.csr \notin {"mepc", "mcause"}

TrapsApart == \A p \in Programs : Apart(p)

LEMMA ApartIsDrained ==
  ASSUME TrapsApart, TypeOK, FetchOrder, VectorFresh, Before PROVE TrapDrained
<1>1. SUFFICES ASSUME id_ex.ins.op \in {"ecall", "ebreak", "mret"}
               PROVE  /\ ~CsrAhead("mstatus")
                      /\ ex_mem.valid /\ IsCsr(ex_mem.ins) => ex_mem.ins.csr \notin {"mepc", "mcause"}
  BY DEF TrapDrained
<1>2. /\ id_ex.valid /\ if_id.valid /\ AbsPc = id_ex.pc
      /\ id_ex.ins = Fetch(prog, id_ex.pc) /\ prog \in Programs
  BY <1>1, BubbleFacts DEF FetchOrder, AbsPc, TypeOK
<1>3. ASSUME ex_mem.valid, IsCsr(ex_mem.ins)
      PROVE  ex_mem.ins.csr \notin TrapWritten(id_ex.ins.op)
  <2>1. PICK a \in Word : ex_mem.ins = Fetch(prog, a) /\ id_ex.pc = Add(a, 4)
    BY <1>2, <1>3 DEF Before, ExMemBefore
  <2> QED
    BY <1>1, <1>2, <1>3, <2>1 DEF TrapsApart, Apart
<1>4. ASSUME mem_wb.valid, IsCsr(mem_wb.ins) PROVE mem_wb.ins.csr # "mstatus"
  <2>1. PICK a \in Word : /\ mem_wb.ins = Fetch(prog, a)
                          /\ id_ex.pc \in {Add(a, 4), Add(Add(a, 4), 4)}
    BY <1>2, <1>4 DEF Before, MemWbBefore
  <2> QED
    BY <1>1, <1>2, <1>4, <2>1 DEF TrapsApart, Apart, TrapWritten
<1>5. ex_mem.valid /\ IsCsr(ex_mem.ins) /\ id_ex.ins.op = "mret" => ex_mem.ins.csr # "mepc"
  BY DEF VectorFresh, CsrAhead
<1> QED
  BY <1>1, <1>3, <1>4, <1>5 DEF CsrAhead, TrapWritten

\* TrapDrained is a property of the program text: in every program whose traps
\* keep two instructions' distance from CSR accesses to what they write, no
\* trap or MRET ever meets such an access in the pipeline, whatever the jumps,
\* interrupts, stalls and resets that lead to it.
THEOREM TrapsDrained == TrapsApart => (Spec => []TrapDrained)
<1> SUFFICES ASSUME TrapsApart PROVE Spec => []TrapDrained
  OBVIOUS
<1>1. Init => Before
  BY BubbleFacts DEF Init, Before, ExMemBefore, MemWbBefore
<1>2. TypeOK /\ FetchOrder /\ VectorFresh /\ Before => TrapDrained
  BY ApartIsDrained
<1> QED
  BY <1>1, <1>2, BeforeStep, TypeCorrect, FetchInOrder, VectorCorrect, PTL DEF Spec

-----------------------------------------------------------------------------
(* The pipelined core implements the single-cycle core: for every program  *)
(* without accesses to mip, with the timer interrupt and mid-run resets    *)
(* out of the picture, every behaviour in which TrapDrained always holds   *)
(* is a behaviour of SingleCycleCore under the refinement mapping.         *)

\* The scope of the theorem, besides NoResetSpec: no timer interrupt (the
\* single-cycle core has none), no access to mip (whose bit 7 is a level on the
\* pipelined core and storage on the single-cycle one).
Comparable ==
  /\ IrqLevels = {FALSE}
  /\ \A p \in Programs, a \in Word : Fetch(p, a).csr # "mip"

NoMip ==
  /\ ex_mem.ins.csr # "mip"
  /\ mem_wb.ins.csr # "mip"

IInv == TypeOK /\ FetchOrder /\ OperandsFresh /\ VectorFresh /\ NoMip

LEMMA NopCsr == Nop.csr = "other"
BY DEF Nop

LEMMA IdExCsr == ASSUME Comparable, TypeOK, FetchOrder PROVE id_ex.ins.csr # "mip"
<1>1. CASE id_ex.valid
  BY <1>1 DEF Comparable, TypeOK, FetchOrder
<1>2. CASE ~id_ex.valid
  BY <1>2, NopCsr DEF FetchOrder
<1> QED BY <1>1, <1>2 DEF TypeOK

LEMMA NoMipStep ==
  ASSUME Comparable, TypeOK, FetchOrder, NoMip, [Next]_vars PROVE NoMip'
<1>0. MemWbBubble.ins = Nop /\ ExMemBubble.ins = Nop
  BY DEF MemWbBubble, ExMemBubble
<1>1. CASE Halted
  BY <1>1 DEF Halted, NoMip
<1>2. ASSUME NEW halt \in BOOLEAN, NEW dv \in BOOLEAN, NEW irq \in IrqLevels,
             Reset(halt, dv, irq)
      PROVE  NoMip'
  BY <1>0, <1>2, NopCsr DEF Reset, NoMip
<1>3. ASSUME NEW dv \in BOOLEAN, NEW irq \in IrqLevels, MemWait(dv, irq)
      PROVE  NoMip'
  BY <1>0, <1>3, NopCsr DEF MemWait, NoMip
<1>4. ASSUME NEW dv \in BOOLEAN, NEW irq \in IrqLevels, BackEnd(dv, irq)
      PROVE  NoMip'
  BY <1>4, IdExCsr DEF BackEnd, FromEx, FromMem, NoMip
<1>5. CASE UNCHANGED vars
  BY <1>5 DEF vars, NoMip
<1> QED BY <1>1, <1>2, <1>3, <1>4, <1>5 DEF Next, Cycle, Running, Flush, FrontStall, Advance

LEMMA NoResetIsSpec == NoResetSpec => Spec
<1>1. [Cycle]_vars => [Next]_vars
  BY DEF Next
<1> QED BY <1>1, PTL DEF NoResetSpec, Spec

LEMMA Invariance == Comparable => (Spec => []IInv)
<1> SUFFICES ASSUME Comparable PROVE Spec => []IInv
  OBVIOUS
<1>1. Init => NoMip
  BY NopCsr DEF Init, NoMip, ExMemBubble, MemWbBubble
<1>2. TypeOK /\ FetchOrder /\ NoMip /\ [Next]_vars => NoMip'
  BY NoMipStep
<1>3. Spec => []NoMip
  BY <1>1, <1>2, TypeCorrect, FetchInOrder, PTL DEF Spec
<1> QED
  BY <1>3, TypeCorrect, FetchInOrder, InterlockCorrect, VectorCorrect, PTL DEF IInv

-----------------------------------------------------------------------------
(* What the mapping does on one edge.                                      *)

\* Repeating the store of a held MEM stage changes nothing.
LEMMA StoreRepeats ==
  ASSUME TypeOK, ex_mem' = ex_mem, dmem' = MemAfterPort
  PROVE  MemAfterPort' = MemAfterPort
<1>1. CASE dmem_we
  <2> DEFINE l == LineOf(ex_mem.result)
             S(m) == StoreVal(ex_mem.ins.fn, ex_mem.result % 4, m, ex_mem.src2)
  <2>1. /\ ex_mem.result \in Word /\ ex_mem.src2 \in Word /\ ex_mem.ins.fn \in Fns
        /\ ex_mem.result % 4 \in 0 .. 3
    BY WordFacts DEF TypeOK, Instr, Word
  <2>2. l \in Lines /\ dmem[l] \in Word /\ dmem \in [Lines -> Word]
    BY <2>1, LineAssumption DEF TypeOK
  <2>3. S(S(dmem[l])) = S(dmem[l])
    BY <2>1, <2>2, StoreAssumption
  <2>4. dmem' = [dmem EXCEPT ![l] = S(dmem[l])]
    BY <1>1 DEF MemAfterPort
  <2>5. MemAfterPort' = [dmem' EXCEPT ![l] = S(dmem'[l])]
    BY <1>1 DEF MemAfterPort, dmem_we
  <2> HIDE DEF l, S
  <2> QED BY <2>2, <2>3, <2>4, <2>5
<1>2. CASE ~dmem_we
  BY <1>2 DEF MemAfterPort, dmem_we
<1> QED BY <1>1, <1>2

\* A cycle in which EX holds moves nothing architecturally.
LEMMA HoldStutters ==
  ASSUME TypeOK,
         UNCHANGED <<prog, pc, if_id, id_ex, ex_mem>>, dmem' = MemAfterPort,
         \/ UNCHANGED <<mem_wb, regfile, csr>>
         \/ /\ mem_wb' = MemWbBubble
            /\ regfile' = RegAfterWb(FALSE) /\ csr' = CsrAfterWb(FALSE)
  PROVE  UNCHANGED <<prog, AbsPc, AbsReg, AbsCsr, AbsMem>>
<1>1. AbsMem' = AbsMem
  BY StoreRepeats DEF AbsMem
<1>2. RegAfterWb(FALSE)' = RegAfterWb(FALSE) /\ CsrAfterWb(FALSE)' = CsrAfterWb(FALSE)
  BY BubbleFacts DEF RegAfterWb, CsrAfterWb, wr_data, CsrRead
<1>3. ex_mem.valid => mem_wr_data' = mem_wr_data
  BY DEF mem_wr_data, MemAfterPort, dmem_we
<1>4. ex_mem.valid => MemResult' = MemResult
  BY <1>2, <1>3 DEF MemResult
<1> QED BY <1>1, <1>2, <1>4 DEF AbsPc, AbsReg, AbsCsr

PrivOps == {"ecall", "ebreak", "mret"}

LEMMA NoIrq == ~irq_taken(FALSE)
BY DEF irq_taken

LEMMA NoTrapKeepsCsr ==
  ASSUME id_ex.ins.op \notin PrivOps PROVE CsrAfterTrap(FALSE) = CsrAfterWb(FALSE)
BY NoIrq DEF CsrAfterTrap, PrivOps

\* A trap leaves every CSR alone but the three it writes.
LEMMA TrapKeepsOthers ==
  ASSUME TypeOK, NEW a \in Csrs, a \notin {"mepc", "mcause", "mstatus"}
  PROVE  CsrAfterTrap(FALSE)[a] = CsrAfterWb(FALSE)[a]
BY CsrAfterWbType, NoIrq DEF CsrAfterTrap

\* The CSR that the instruction in MEM accesses is the same before and after a
\* trap leaves EX: this is what TrapDrained is for.
LEMMA MemCsrKept ==
  ASSUME TypeOK, TrapDrained, NEW dv \in BOOLEAN, BackEnd(dv, FALSE),
         ex_mem.valid, IsCsr(ex_mem.ins), ex_mem.ins.csr \in Csrs
  PROVE  csr'[ex_mem.ins.csr] = CsrAfterWb(FALSE)[ex_mem.ins.csr]
<1>1. csr' = CsrAfterTrap(FALSE)
  BY DEF BackEnd
<1>2. CASE id_ex.ins.op \in PrivOps
  <2>1. ex_mem.ins.csr \notin {"mepc", "mcause", "mstatus"}
    BY <1>2 DEF TrapDrained, PrivOps, CsrAhead
  <2> QED BY <1>1, <2>1, TrapKeepsOthers
<1>3. CASE id_ex.ins.op \notin PrivOps
  BY <1>1, <1>3, NoTrapKeepsCsr
<1> QED BY <1>2, <1>3

\* When MEM moves to WB, the register file that WB is about to write is the
\* one the mapping had laid out.
LEMMA RegMovesOn ==
  ASSUME TypeOK, NoMip, TrapDrained, NEW dv \in BOOLEAN, BackEnd(dv, FALSE)
  PROVE  RegAfterWb(FALSE)' = AbsReg
<1>1. mem_wb' = FromMem /\ regfile' = RegAfterWb(FALSE)
  BY DEF BackEnd
<1>2. CASE ex_mem.valid /\ WrEn(ex_mem.ins)
  <2>1. wr_data(FALSE)' = MemResult
    <3>1. CASE IsCsr(ex_mem.ins)
      <4>1. ex_mem.ins.csr \in Csrs \cup {"other"} /\ ex_mem.ins.csr # "mip"
        BY DEF TypeOK, Instr, NoMip
      <4>2. CASE ex_mem.ins.csr = "other"
        <5>1. "other" \notin Csrs
          BY DEF Csrs
        <5> QED BY <1>1, <3>1, <4>2, <5>1 DEF wr_data, FromMem, CsrRead, MemResult
      <4>3. CASE ex_mem.ins.csr \in Csrs /\ ex_mem.ins.csr # "other"
        <5>1. csr'[ex_mem.ins.csr] = CsrAfterWb(FALSE)[ex_mem.ins.csr]
          BY <1>2, <3>1, <4>3, MemCsrKept
        <5> QED BY <1>1, <3>1, <4>1, <4>3, <5>1 DEF wr_data, FromMem, CsrRead, MemResult
      <4> QED BY <4>1, <4>2, <4>3
    <3>2. CASE ~IsCsr(ex_mem.ins)
      BY <1>1, <3>2 DEF wr_data, FromMem, MemResult
    <3> QED BY <3>1, <3>2
  <2> QED BY <1>1, <1>2, <2>1 DEF RegAfterWb, AbsReg, FromMem
<1>3. CASE ~(ex_mem.valid /\ WrEn(ex_mem.ins))
  BY <1>1, <1>3 DEF RegAfterWb, AbsReg, FromMem
<1> QED BY <1>2, <1>3

\* The same for the CSRs when no trap leaves EX.
LEMMA CsrMovesOn ==
  ASSUME TypeOK, NoMip, NEW dv \in BOOLEAN, BackEnd(dv, FALSE),
         id_ex.ins.op \notin PrivOps
  PROVE  CsrAfterWb(FALSE)' = AbsCsr
<1>1. mem_wb' = FromMem /\ csr' = CsrAfterWb(FALSE)
  BY NoTrapKeepsCsr DEF BackEnd
<1>2. CASE ex_mem.valid /\ IsCsr(ex_mem.ins) /\ ex_mem.ins.csr \in Csrs
  <2>1. ex_mem.ins.csr # "mip" /\ ex_mem.ins.csr # "other"
    BY <1>2 DEF NoMip, Csrs
  <2>2. CsrAfterWb(FALSE)' =
          [csr' EXCEPT ![ex_mem.ins.csr] =
             CsrNewVal(ex_mem.ins.fn, csr'[ex_mem.ins.csr], ex_mem.src2)]
    BY <1>1, <1>2, <2>1 DEF CsrAfterWb, FromMem, CsrRead
  <2>3. AbsCsr = [CsrAfterWb(FALSE) EXCEPT ![ex_mem.ins.csr] =
             CsrNewVal(ex_mem.ins.fn, CsrAfterWb(FALSE)[ex_mem.ins.csr], ex_mem.src2)]
    BY <1>2 DEF AbsCsr
  <2> QED BY <1>1, <2>2, <2>3
<1>3. CASE ~(ex_mem.valid /\ IsCsr(ex_mem.ins) /\ ex_mem.ins.csr \in Csrs)
  BY <1>1, <1>3 DEF CsrAfterWb, AbsCsr, FromMem
<1> QED BY <1>2, <1>3

\* With a trap in EX that TrapDrained covers, the CSRs move on with the trap's
\* writes added to those the mapping had laid out.
TrapWrites(c) ==
  IF id_ex.ins.op = "mret" THEN [c EXCEPT !["mstatus"] = TrapReturn(@)]
  ELSE [c EXCEPT !["mepc"] = id_ex.pc,
                 !["mcause"] = IF id_ex.ins.op = "ecall" THEN CauseEcall ELSE CauseEbreak,
                 !["mstatus"] = TrapEntry(@)]

LEMMA TrapMovesOn ==
  ASSUME TypeOK, NoMip, TrapDrained, NEW dv \in BOOLEAN, BackEnd(dv, FALSE),
         id_ex.ins.op \in PrivOps
  PROVE  CsrAfterWb(FALSE)' = TrapWrites(AbsCsr)
<1> DEFINE c == CsrAfterWb(FALSE)
           x == ex_mem.ins.csr
           N(v) == CsrNewVal(ex_mem.ins.fn, v, ex_mem.src2)
<1>1. mem_wb' = FromMem /\ csr' = CsrAfterTrap(FALSE)
  BY DEF BackEnd
<1>2. c \in [Csrs -> Word] /\ csr \in [Csrs -> Word]
  BY CsrAfterWbType DEF TypeOK
<1>3. /\ {"mstatus", "mepc", "mcause"} \subseteq Csrs
      /\ ~CsrAhead("mstatus")
      /\ ex_mem.valid /\ IsCsr(ex_mem.ins) => x \notin {"mstatus", "mepc", "mcause"}
  BY DEF TrapDrained, PrivOps, Csrs, CsrAhead
<1>4. c["mstatus"] = csr["mstatus"]
  BY <1>2, <1>3 DEF CsrAfterWb, CsrAhead
<1>5. csr' = TrapWrites(c)
  BY <1>1, <1>2, <1>3, <1>4, NoIrq
  DEF CsrAfterTrap, TrapWrites, TrapEntry, TrapReturn, PrivOps
<1>6. CASE ex_mem.valid /\ IsCsr(ex_mem.ins) /\ x \in Csrs
  <2>1. x # "mip" /\ x # "other"
    BY <1>6 DEF NoMip, Csrs
  <2>2. CsrAfterWb(FALSE)' = [csr' EXCEPT ![x] = N(csr'[x])]
    BY <1>1, <1>6, <2>1 DEF CsrAfterWb, FromMem, CsrRead
  <2>3. AbsCsr = [c EXCEPT ![x] = N(c[x])]
    BY <1>6 DEF AbsCsr
  <2>4. csr'[x] = c[x]
    BY <1>2, <1>3, <1>5, <1>6 DEF TrapWrites
  <2>5. AbsCsr["mstatus"] = c["mstatus"]
    BY <1>2, <1>3, <1>6, <2>3
  <2> HIDE DEF c, x, N
  <2>6. [TrapWrites(c) EXCEPT ![x] = N(c[x])] = TrapWrites([c EXCEPT ![x] = N(c[x])])
    BY <1>2, <1>3, <1>6 DEF TrapWrites
  <2> QED BY <1>5, <2>2, <2>3, <2>4, <2>6
<1>7. CASE ~(ex_mem.valid /\ IsCsr(ex_mem.ins) /\ x \in Csrs)
  <2>1. CsrAfterWb(FALSE)' = csr'
    BY <1>1, <1>7 DEF CsrAfterWb, FromMem
  <2>2. AbsCsr = c
    BY <1>7 DEF AbsCsr
  <2> QED BY <1>5, <2>1, <2>2
<1> QED BY <1>6, <1>7

-----------------------------------------------------------------------------
(* The instruction that leaves EX is the one the single-cycle core executes *)
(* in the mapped state, with the same operands and the same results.       *)

\* SingleCycleCore extends Isa too: its copies of the helpers are the same.
LEMMA SharedIsa ==
  /\ \A rf, r : SC!Read(rf, r) = Read(rf, r)
  /\ \A a, b : SC!Add(a, b) = Add(a, b)
  /\ \A i, s1, s2, at : SC!Result(i, s1, s2, at) = Result(i, s1, s2, at)
  /\ \A i, s1, s2 : SC!TakenBr(i, s1, s2) = TakenBr(i, s1, s2)
  /\ \A i : SC!IsCsr(i) = IsCsr(i) /\ SC!WrEn(i) = WrEn(i)
  /\ \A fn, old, v : SC!CsrNewVal(fn, old, v) = CsrNewVal(fn, old, v)
  /\ \A w : SC!TrapEntry(w) = TrapEntry(w) /\ SC!TrapReturn(w) = TrapReturn(w)
  /\ SC!Csrs = Csrs /\ SC!CauseEcall = CauseEcall /\ SC!CauseEbreak = CauseEbreak
<1>1. \A a, b : SC!Add(a, b) = Add(a, b)
  BY DEF SC!Add, Add
<1>2. \A i, s1, s2, at : SC!Result(i, s1, s2, at) = Result(i, s1, s2, at)
  BY <1>1 DEF SC!Result, Result
<1>3. \A i, s1, s2 : SC!TakenBr(i, s1, s2) = TakenBr(i, s1, s2)
  BY DEF SC!TakenBr, TakenBr
<1>4. \A rf, r : SC!Read(rf, r) = Read(rf, r)
  BY DEF SC!Read, Read
<1>5. \A i : SC!IsCsr(i) = IsCsr(i) /\ SC!WrEn(i) = WrEn(i)
  BY DEF SC!IsCsr, IsCsr, SC!WrEn, WrEn, SC!RdValid, RdValid
<1>6. \A fn, old, v : SC!CsrNewVal(fn, old, v) = CsrNewVal(fn, old, v)
  BY DEF SC!CsrNewVal, CsrNewVal
<1>7. \A w : SC!TrapEntry(w) = TrapEntry(w) /\ SC!TrapReturn(w) = TrapReturn(w)
  BY DEF SC!TrapEntry, TrapEntry, SC!TrapReturn, TrapReturn, SC!SetBit, SetBit,
         SC!Bit, Bit, SC!MIE, MIE, SC!MPIE, MPIE
<1>8. SC!Csrs = Csrs /\ SC!CauseEcall = CauseEcall /\ SC!CauseEbreak = CauseEbreak
  BY DEF SC!Csrs, Csrs, SC!CauseEcall, CauseEcall, SC!CauseEbreak, CauseEbreak
<1> QED BY <1>1, <1>2, <1>3, <1>4, <1>5, <1>6, <1>7, <1>8

LEMMA SameInstr == ASSUME IInv, id_ex.valid PROVE SC!instr = id_ex.ins /\ AbsPc = id_ex.pc
BY DEF IInv, FetchOrder, SC!instr, AbsPc

LEMMA AbsRegKept ==
  ASSUME IInv, id_ex.valid, NEW r \in Regs, r = 0 \/ Reads(id_ex.ins, r)
  PROVE  Read(AbsReg, r) = Read(regfile, r)
<1>1. CASE r = 0
  BY <1>1 DEF Read
<1>2. CASE r # 0
  <2>1. /\ ~(ex_mem.valid /\ WrEn(ex_mem.ins) /\ ex_mem.ins.rd = r)
        /\ ~(mem_wb.valid /\ WrEn(mem_wb.ins) /\ mem_wb.ins.rd = r)
    BY <1>2 DEF IInv, OperandsFresh
  <2>2. RegAfterWb(FALSE) \in [Regs -> Word] /\ RegAfterWb(FALSE)[r] = regfile[r]
    BY <2>1, RegAfterWbType, RegKept DEF IInv
  <2>3. AbsReg[r] = RegAfterWb(FALSE)[r]
    BY <2>1, <2>2 DEF AbsReg
  <2> QED BY <1>2, <2>2, <2>3 DEF Read
<1> QED BY <1>1, <1>2

LEMMA SameOperands ==
  ASSUME IInv, id_ex.valid
  PROVE  /\ ReadsRs1(id_ex.ins) => SC!src1 = id_ex.src1
         /\ ReadsRs2(id_ex.ins) => SC!src2 = id_ex.src2
         /\ IsCsr(id_ex.ins) => SC!op_val = id_ex.src2
<1>1. id_ex.ins.rs1 \in Regs /\ id_ex.ins.rs2 \in Regs
  BY DEF IInv, TypeOK, Instr
<1>2. /\ ReadsRs1(id_ex.ins) => Read(AbsReg, id_ex.ins.rs1) = Read(regfile, id_ex.ins.rs1)
      /\ ReadsRs2(id_ex.ins) => Read(AbsReg, id_ex.ins.rs2) = Read(regfile, id_ex.ins.rs2)
  BY <1>1, AbsRegKept DEF Reads
<1>3. id_ex.ins.op = "csr" => ReadsRs1(id_ex.ins)
  BY DEF ReadsRs1
<1> QED BY <1>2, <1>3, SameInstr, SharedIsa
        DEF IInv, OperandsFresh, SC!src1, SC!src2, SC!op_val, IsCsr

ExResult == Result(id_ex.ins, id_ex.src1, id_ex.src2, id_ex.pc)

LEMMA SameResult ==
  ASSUME IInv, id_ex.valid
  PROVE  /\ SC!result = ExResult
         /\ TakenBr(id_ex.ins, SC!src1, SC!src2) <=> ex_taken_br
<1>1. SC!result = Result(id_ex.ins, SC!src1, SC!src2, id_ex.pc)
  BY SameInstr, SharedIsa DEF SC!result
<1>2. /\ ReadsRs1(id_ex.ins) => SC!src1 = id_ex.src1
      /\ ReadsRs2(id_ex.ins) => SC!src2 = id_ex.src2
  BY SameOperands
<1>3. TakenBr(id_ex.ins, SC!src1, SC!src2) <=> ex_taken_br
  BY <1>2 DEF TakenBr, ex_taken_br, ReadsRs1, ReadsRs2
<1>4. Result(id_ex.ins, SC!src1, SC!src2, id_ex.pc) = ExResult
  BY <1>2 DEF ExResult, Result, ReadsRs1, ReadsRs2
<1> QED BY <1>1, <1>3, <1>4

LEMMA ExecutePc ==
  ASSUME IInv, id_ex.valid, NEW iv \in BOOLEAN, NEW dv \in BOOLEAN,
         Flush(dv, FALSE) \/ FrontStall(iv, dv, FALSE) \/ Advance(iv, dv, FALSE)
  PROVE  AbsPc' = SC!next_pc
<1>1. ~irq_taken(FALSE)
  BY NoIrq
<1>2. if_id.valid /\ if_id.pc = Add(id_ex.pc, 4)
  BY DEF IInv, FetchOrder
<1>3. id_ex.ins.op = "jalr" => SC!src1 = id_ex.src1
  BY SameOperands DEF ReadsRs1
<1>4. /\ id_ex.ins.op \in {"ecall", "ebreak"} => AbsCsr["mtvec"] = csr["mtvec"]
      /\ id_ex.ins.op = "mret" => AbsCsr["mepc"] = csr["mepc"]
  <2>1. ASSUME NEW a \in Csrs, ~CsrAhead(a) PROVE AbsCsr[a] = csr[a]
    <3>1. CsrAfterWb(FALSE) \in [Csrs -> Word] /\ csr \in [Csrs -> Word]
      BY CsrAfterWbType DEF IInv, TypeOK
    <3>2. CsrAfterWb(FALSE)[a] = csr[a]
      BY <2>1, <3>1 DEF CsrAfterWb, CsrAhead
    <3> QED BY <2>1, <3>1, <3>2 DEF AbsCsr, CsrAhead
  <2>2. "mtvec" \in Csrs /\ "mepc" \in Csrs
    BY DEF Csrs
  <2> QED BY <2>1, <2>2 DEF IInv, VectorFresh
<1>5. SC!next_pc =
        CASE ex_taken_br \/ id_ex.ins.op = "jal"  -> Add(id_ex.pc, id_ex.ins.imm)
          [] id_ex.ins.op = "jalr"                -> Add(id_ex.src1, id_ex.ins.imm)
          [] id_ex.ins.op \in {"ecall", "ebreak"} -> csr["mtvec"]
          [] id_ex.ins.op = "mret"                -> csr["mepc"]
          [] OTHER                                -> Add(id_ex.pc, 4)
  <2>1. SC!instr = id_ex.ins /\ AbsPc = id_ex.pc
    BY SameInstr
  <2>2. TakenBr(id_ex.ins, SC!src1, SC!src2) <=> ex_taken_br
    BY SameResult
  <2> QED BY <1>3, <1>4, <2>1, <2>2, SharedIsa DEF SC!next_pc
<1>6. CASE Flush(dv, FALSE)
  <2>1. AbsPc' = next_pc(FALSE) /\ ex_flush_base
    BY <1>1, <1>6, BubbleFacts DEF Flush, AbsPc, ex_flush
  <2> QED BY <1>1, <1>5, <2>1 DEF next_pc, ex_flush_base
<1>7. CASE FrontStall(iv, dv, FALSE) \/ Advance(iv, dv, FALSE)
  <2>1. AbsPc' = Add(id_ex.pc, 4)
    <3>1. CASE FrontStall(iv, dv, FALSE)
      BY <1>2, <3>1, BubbleFacts DEF FrontStall, AbsPc
    <3>2. CASE Advance(iv, dv, FALSE)
      <4>1. id_ex'.valid = if_id.valid /\ id_ex'.pc = if_id.pc
        BY <3>2 DEF Advance, FromId
      <4> QED BY <1>2, <4>1 DEF AbsPc
    <3> QED BY <1>7, <3>1, <3>2
  <2>2. ~ex_taken_br /\ id_ex.ins.op \notin {"jal", "jalr", "ecall", "ebreak", "mret"}
    BY <1>7 DEF FrontStall, Advance, ex_flush, ex_flush_base
  <2> QED BY <1>5, <2>1, <2>2
<1> QED BY <1>6, <1>7

\* Data memory: the store that leaves EX is laid over data memory.
LEMMA ExecuteMem ==
  ASSUME IInv, id_ex.valid, NEW dv \in BOOLEAN, BackEnd(dv, FALSE)
  PROVE  AbsMem' = SC!Stored
<1>1. ex_mem' = FromEx /\ dmem' = AbsMem
  BY DEF BackEnd, AbsMem
<1>2. SC!instr = id_ex.ins /\ SC!result = ExResult
  BY SameInstr, SameResult
<1>3. id_ex.ins.op = "store" => SC!src2 = id_ex.src2
  BY SameOperands DEF ReadsRs2
<1>4. /\ ex_mem'.valid /\ ex_mem'.ins = id_ex.ins /\ ex_mem'.result = ExResult
      /\ ex_mem'.src2 = id_ex.src2
  BY <1>1 DEF FromEx, ExResult
<1>5. CASE id_ex.ins.op = "store"
  <2>1. AbsMem' = [dmem' EXCEPT ![LineOf(ExResult)] =
                     StoreVal(id_ex.ins.fn, ExResult % 4, dmem'[LineOf(ExResult)], id_ex.src2)]
    BY <1>4, <1>5 DEF AbsMem, MemAfterPort, dmem_we
  <2>2. SC!Stored = [AbsMem EXCEPT ![LineOf(ExResult)] =
                     StoreVal(id_ex.ins.fn, ExResult % 4, AbsMem[LineOf(ExResult)], id_ex.src2)]
    BY <1>2, <1>3, <1>5 DEF SC!Stored
  <2> QED BY <1>1, <2>1, <2>2
<1>6. CASE id_ex.ins.op # "store"
  BY <1>1, <1>2, <1>4, <1>6 DEF AbsMem, MemAfterPort, dmem_we, SC!Stored
<1> QED BY <1>5, <1>6

\* CSRs: the CSR instruction or the trap that leaves EX is laid over them.
LEMMA ExecuteCsr ==
  ASSUME IInv, TrapDrained, id_ex.valid, Comparable,
         NEW dv \in BOOLEAN, BackEnd(dv, FALSE)
  PROVE  AbsCsr' = SC!csr_next
<1>1. SC!instr = id_ex.ins /\ AbsPc = id_ex.pc
  BY SameInstr
<1>2. /\ ex_mem'.valid /\ ex_mem'.ins = id_ex.ins /\ ex_mem'.src2 = id_ex.src2
  BY DEF BackEnd, FromEx
<1>3. TypeOK /\ NoMip /\ FetchOrder
  BY DEF IInv
<1>4. CASE IsCsr(id_ex.ins)
  <2>1. id_ex.ins.op \notin PrivOps
    BY <1>4 DEF IsCsr, PrivOps
  <2>2. CsrAfterWb(FALSE)' = AbsCsr
    BY <1>3, <2>1, CsrMovesOn
  <2>3. SC!op_val = id_ex.src2
    BY <1>4, SameOperands
  <2>4. CASE id_ex.ins.csr \in Csrs
    <3>1. AbsCsr' = [AbsCsr EXCEPT ![id_ex.ins.csr] =
                       CsrNewVal(id_ex.ins.fn, AbsCsr[id_ex.ins.csr], id_ex.src2)]
      BY <1>2, <1>4, <2>2, <2>4 DEF AbsCsr
    <3>2. SC!csr_next = [AbsCsr EXCEPT ![id_ex.ins.csr] =
                       CsrNewVal(id_ex.ins.fn, AbsCsr[id_ex.ins.csr], id_ex.src2)]
      <4>1. /\ SC!IsCsr(SC!instr) /\ SC!instr.csr \in SC!Csrs
            /\ SC!instr.op \notin {"ecall", "ebreak", "mret"}
        BY <1>1, <1>4, <2>1, <2>4, SharedIsa DEF PrivOps
      <4>2. SC!csr_next = [AbsCsr EXCEPT ![SC!instr.csr] =
                             SC!CsrNewVal(SC!instr.fn, SC!csr_rdata, SC!op_val)]
        BY <4>1 DEF SC!csr_next
      <4>3. SC!csr_rdata = AbsCsr[id_ex.ins.csr]
        BY <1>1, <4>1 DEF SC!csr_rdata
      <4> QED BY <1>1, <2>3, <4>2, <4>3, SharedIsa
    <3> QED BY <3>1, <3>2
  <2>5. CASE id_ex.ins.csr \notin Csrs
    <3>1. AbsCsr' = AbsCsr
      BY <1>2, <2>2, <2>5 DEF AbsCsr
    <3>2. SC!csr_next = AbsCsr
      BY <1>1, <2>1, <2>5, SharedIsa DEF SC!csr_next, PrivOps
    <3> QED BY <3>1, <3>2
  <2> QED BY <2>4, <2>5
<1>5. CASE ~IsCsr(id_ex.ins)
  <2>1. AbsCsr' = CsrAfterWb(FALSE)'
    BY <1>2, <1>5 DEF AbsCsr
  <2>2. CASE id_ex.ins.op \in PrivOps
    <3>1. AbsCsr' = TrapWrites(AbsCsr)
      BY <1>3, <2>1, <2>2, TrapMovesOn
    <3>2. SC!csr_next = TrapWrites(AbsCsr)
      BY <1>1, <1>5, <2>2, SharedIsa DEF SC!csr_next, SC!Mstatus, TrapWrites, PrivOps
    <3> QED BY <3>1, <3>2
  <2>3. CASE id_ex.ins.op \notin PrivOps
    <3>1. AbsCsr' = AbsCsr
      BY <1>3, <2>1, <2>3, CsrMovesOn
    <3>2. SC!csr_next = AbsCsr
      BY <1>1, <1>5, <2>3, SharedIsa DEF SC!csr_next, PrivOps
    <3> QED BY <3>1, <3>2
  <2> QED BY <2>2, <2>3
<1> QED BY <1>4, <1>5

\* The register file: the result of the instruction that leaves EX is laid over it.
LEMMA ExecuteReg ==
  ASSUME IInv, TrapDrained, id_ex.valid, Comparable,
         NEW dv \in BOOLEAN, BackEnd(dv, FALSE)
  PROVE  AbsReg' = IF SC!WrEn(SC!instr)
                   THEN [AbsReg EXCEPT ![SC!instr.rd] = SC!wr_data] ELSE AbsReg
<1>1. SC!instr = id_ex.ins /\ SC!result = ExResult
  BY SameInstr, SameResult
<1>2. /\ ex_mem'.valid /\ ex_mem'.ins = id_ex.ins /\ ex_mem'.result = ExResult
      /\ dmem' = AbsMem
  BY DEF BackEnd, FromEx, ExResult, AbsMem
<1>3. TypeOK /\ NoMip
  BY DEF IInv
<1>4. RegAfterWb(FALSE)' = AbsReg
  BY <1>3, RegMovesOn
<1>5. CASE WrEn(id_ex.ins)
  <2>1. MemResult' = SC!wr_data
    <3>1. CASE IsCsr(id_ex.ins)
      <4>1. CsrAfterWb(FALSE)' = AbsCsr
        BY <1>3, <3>1, CsrMovesOn DEF IsCsr, PrivOps
      <4>2. MemResult' = IF id_ex.ins.csr \in Csrs THEN AbsCsr[id_ex.ins.csr] ELSE 0
        BY <1>2, <3>1, <4>1 DEF MemResult
      <4>3. SC!IsCsr(SC!instr) /\ SC!instr.op # "load"
        BY <1>1, <3>1, SharedIsa DEF IsCsr
      <4>4. SC!wr_data = SC!csr_rdata
        BY <4>3 DEF SC!wr_data
      <4> QED BY <1>1, <4>2, <4>4, SharedIsa DEF SC!csr_rdata
    <3>2. CASE ~IsCsr(id_ex.ins) /\ id_ex.ins.op = "load"
      BY <1>1, <1>2, <3>2, SharedIsa DEF MemResult, mem_wr_data, SC!wr_data
    <3>3. CASE ~IsCsr(id_ex.ins) /\ id_ex.ins.op # "load"
      BY <1>1, <1>2, <3>3, SharedIsa DEF MemResult, mem_wr_data, SC!wr_data
    <3> QED BY <3>1, <3>2, <3>3
  <2>2. AbsReg' = [AbsReg EXCEPT ![id_ex.ins.rd] = MemResult']
    BY <1>2, <1>4, <1>5 DEF AbsReg
  <2> QED BY <1>1, <1>5, <2>1, <2>2, SharedIsa
<1>6. CASE ~WrEn(id_ex.ins)
  BY <1>1, <1>2, <1>4, <1>6, SharedIsa DEF AbsReg
<1> QED BY <1>5, <1>6

\* A bubble in EX moves nothing architecturally.
LEMMA BubbleStutters ==
  ASSUME IInv, TrapDrained, Comparable, ~id_ex.valid,
         NEW iv \in BOOLEAN, NEW dv \in BOOLEAN,
         Flush(dv, FALSE) \/ FrontStall(iv, dv, FALSE) \/ Advance(iv, dv, FALSE)
  PROVE  UNCHANGED <<prog, AbsPc, AbsReg, AbsCsr, AbsMem>>
<1>1. BackEnd(dv, FALSE) /\ id_ex.ins = Nop /\ TypeOK /\ NoMip
  BY DEF Flush, FrontStall, Advance, IInv, FetchOrder
<1>2. ~ex_mem'.valid /\ prog' = prog /\ dmem' = AbsMem
  BY <1>1 DEF BackEnd, FromEx, AbsMem
<1>3. id_ex.ins.op \notin PrivOps /\ ~ex_flush(FALSE)
  BY <1>1, BubbleFacts, NoIrq DEF PrivOps, ex_flush, ex_flush_base, ex_taken_br, TakenBr
<1>4. AbsReg' = AbsReg
  BY <1>1, <1>2, RegMovesOn DEF AbsReg
<1>5. AbsCsr' = AbsCsr
  BY <1>1, <1>2, <1>3, CsrMovesOn DEF AbsCsr
<1>6. AbsMem' = AbsMem
  BY <1>2 DEF AbsMem, MemAfterPort, dmem_we
<1>7. AbsPc' = AbsPc
  <2>1. CASE FrontStall(iv, dv, FALSE)
    BY <2>1, BubbleFacts DEF FrontStall, AbsPc
  <2>2. CASE Advance(iv, dv, FALSE)
    <3>1. /\ id_ex'.valid = if_id.valid /\ id_ex'.pc = if_id.pc
          /\ if_id'.valid /\ if_id'.pc = pc
      BY <2>2 DEF Advance, FromId
    <3> QED BY <3>1 DEF AbsPc, IInv, TypeOK
  <2>3. ~Flush(dv, FALSE)
    BY <1>3 DEF Flush
  <2> QED BY <2>1, <2>2, <2>3
<1> QED BY <1>2, <1>4, <1>5, <1>6, <1>7

-----------------------------------------------------------------------------
LEMMA RefinementInit == Init => SC!Init
<1> SUFFICES ASSUME Init PROVE SC!Init
  OBVIOUS
<1>1. /\ AbsPc = pc /\ AbsReg = regfile /\ AbsCsr = csr /\ AbsMem = dmem
  BY BubbleFacts DEF Init, AbsPc, AbsReg, AbsCsr, AbsMem, RegAfterWb, CsrAfterWb,
                     MemAfterPort, dmem_we
<1> QED BY <1>1 DEF Init, SC!Init

\* Every edge is one instruction of the single-cycle core or none.
LEMMA RefinementStep ==
  ASSUME Comparable, IInv, TrapDrained, [Cycle]_vars PROVE [SC!Next]_(SC!scVars)
<1>0. TypeOK
  BY DEF IInv
<1> SUFFICES SC!Execute \/ UNCHANGED <<prog, AbsPc, AbsReg, AbsCsr, AbsMem>>
  BY DEF SC!Next, SC!scVars
<1>1. CASE Halted
  BY <1>0, <1>1, HoldStutters DEF Halted
<1>2. ASSUME NEW dv \in BOOLEAN, MemWait(dv, FALSE)
      PROVE  UNCHANGED <<prog, AbsPc, AbsReg, AbsCsr, AbsMem>>
  BY <1>0, <1>2, HoldStutters DEF MemWait
<1>3. ASSUME NEW iv \in BOOLEAN, NEW dv \in BOOLEAN,
             Flush(dv, FALSE) \/ FrontStall(iv, dv, FALSE) \/ Advance(iv, dv, FALSE)
      PROVE  SC!Execute \/ UNCHANGED <<prog, AbsPc, AbsReg, AbsCsr, AbsMem>>
  <2>1. CASE ~id_ex.valid
    BY <1>3, <2>1, BubbleStutters
  <2>2. CASE id_ex.valid
    <3>1. BackEnd(dv, FALSE) /\ prog' = prog
      BY <1>3 DEF Flush, FrontStall, Advance, BackEnd
    <3>2. AbsPc' = SC!next_pc
      BY <1>3, <2>2, ExecutePc
    <3>3. AbsReg' = IF SC!WrEn(SC!instr)
                    THEN [AbsReg EXCEPT ![SC!instr.rd] = SC!wr_data] ELSE AbsReg
      BY <2>2, <3>1, ExecuteReg
    <3>4. AbsCsr' = SC!csr_next
      BY <2>2, <3>1, ExecuteCsr
    <3>5. AbsMem' = SC!Stored
      BY <2>2, <3>1, ExecuteMem
    <3> QED BY <3>1, <3>2, <3>3, <3>4, <3>5 DEF SC!Execute
  <2>3. id_ex.valid \in BOOLEAN
    BY <1>0 DEF TypeOK
  <2> QED BY <2>1, <2>2, <2>3
<1>4. CASE UNCHANGED vars
  BY <1>4 DEF vars, AbsPc, AbsReg, AbsCsr, AbsMem, MemResult, RegAfterWb, CsrAfterWb,
              wr_data, CsrRead, mem_wr_data, MemAfterPort, dmem_we
<1>5. IrqLevels = {FALSE}
  BY DEF Comparable
<1> QED BY <1>1, <1>2, <1>3, <1>4, <1>5 DEF Cycle, Running

\* docs/04_pipeline_plan.md Sec. 7, for every program: as long as no trap or
\* MRET meets an older CSR access to a register it writes, the pipelined core
\* executes exactly the instructions the single-cycle core executes, with the
\* same effects, whatever its memories' answer times and the debugger's halts.
THEOREM PipelineImplementsSingleCycle ==
  Comparable => (NoResetSpec /\ []TrapDrained => ImplementsSingleCycle)
<1> SUFFICES ASSUME Comparable PROVE NoResetSpec /\ []TrapDrained => SC!Spec
  BY DEF ImplementsSingleCycle
<1>1. Init => SC!Init
  BY RefinementInit
<1>2. IInv /\ TrapDrained /\ [Cycle]_vars => [SC!Next]_(SC!scVars)
  BY RefinementStep
<1>3. NoResetSpec => []IInv
  BY Invariance, NoResetIsSpec
<1> QED BY <1>1, <1>2, <1>3, PTL DEF NoResetSpec, SC!Spec

\* The same for every program text that keeps its traps apart from CSR accesses
\* to the registers they write: nothing is assumed of the behaviour.
THEOREM ApartImplementsSingleCycle ==
  Comparable /\ TrapsApart => (NoResetSpec => ImplementsSingleCycle)
BY PipelineImplementsSingleCycle, TrapsDrained, NoResetIsSpec, PTL
-----------------------------------------------------------------------------
(* What a trap saves.                                                      *)

LEMMA ClearedBit == ASSUME NEW w \in Word PROVE Bit(SetBit(w, 8, 0), 8) = 0
<1>1. PICK q \in Nat, r \in 0 .. 7 : w \div 8 = q /\ w = 8 * q + r
  BY WordFacts DEF Word
<1>2. PICK h \in Nat, e \in 0 .. 1 : q % 2 = e /\ q = 2 * h + e
  OBVIOUS
<1>3. SetBit(w, 8, 0) = 8 * (2 * h) + r
  BY <1>1, <1>2 DEF SetBit, Bit
<1>4. (8 * (2 * h) + r) \div 8 = 2 * h
  OBVIOUS
<1>5. (2 * h) % 2 = 0
  OBVIOUS
<1> QED BY <1>3, <1>4, <1>5 DEF Bit

\* A trap clears mstatus.MIE, over whatever commits in WB at the same edge.
LEMMA TrapMasks ==
  ASSUME TypeOK, NEW irq \in BOOLEAN,
         id_ex.ins.op \in {"ecall", "ebreak"} \/ irq_taken(irq)
  PROVE  Bit(CsrAfterTrap(irq)["mstatus"], MIE) = 0
<1> DEFINE c == CsrAfterWb(irq)
           cause == IF irq_taken(irq) THEN CauseTimer
                    ELSE IF id_ex.ins.op = "ecall" THEN CauseEcall ELSE CauseEbreak
           stacked == SetBit(c["mstatus"], MPIE, Bit(csr["mstatus"], MIE))
           entry == SetBit(stacked, MIE, 0)
           return == SetBit(SetBit(c["mstatus"], MIE, Bit(csr["mstatus"], MPIE)), MPIE, 1)
<1>1. c \in [Csrs -> Word] /\ "mstatus" \in Csrs /\ csr["mstatus"] \in Word
  BY CsrAfterWbType DEF Csrs, TypeOK
<1>2. stacked \in Word
  BY <1>1, BitType, SetBitType DEF MIE, MPIE
<1>3. CsrAfterTrap(irq) =
        CASE id_ex.ins.op \in {"ecall", "ebreak"} \/ irq_taken(irq) ->
               [c EXCEPT !["mepc"] = id_ex.pc, !["mcause"] = cause, !["mstatus"] = entry]
          [] id_ex.ins.op = "mret" -> [c EXCEPT !["mstatus"] = return]
          [] OTHER -> c
  BY <1>1 DEF CsrAfterTrap
<1>4. id_ex.ins.op # "mret"
  BY DEF irq_taken
<1>5. Bit(entry, MIE) = 0
  BY <1>2, ClearedBit DEF MIE
<1> HIDE DEF c, cause, stacked, entry, return
<1>6. CsrAfterTrap(irq)["mstatus"] = entry
  BY <1>1, <1>3, <1>4
<1> QED BY <1>5, <1>6

\* No CSR instruction on what an ECALL or EBREAK saves is right in front of it.
\* It may be two in front: TrapStands needs less than the refinement.
SavedApart ==
  \A p \in Programs, a \in Word :
    IsCsr(Fetch(p, a)) /\ Fetch(p, Add(a, 4)).op \in {"ecall", "ebreak"} =>
      Fetch(p, a).csr \notin {"mepc", "mcause", "mstatus"}

LEMMA TrapSaves ==
  ASSUME SavedApart, TypeOK, FetchOrder, Before, NEW dv \in BOOLEAN, NEW irq \in IrqLevels,
         Flush(dv, irq), id_ex.ins.op \in {"ecall", "ebreak"}
  PROVE  /\ AbsCsr'["mepc"] = id_ex.pc
         /\ AbsCsr'["mcause"] = IF id_ex.ins.op = "ecall" THEN CauseEcall ELSE CauseEbreak
         /\ Bit(AbsCsr'["mstatus"], MIE) = 0
<1> DEFINE saved == {"mepc", "mcause", "mstatus"}
<1>1. irq \in BOOLEAN /\ ~irq_taken(irq)
  BY CoreAssumption DEF irq_taken
<1>2. csr' = CsrAfterTrap(irq) /\ mem_wb' = FromMem /\ ex_mem' = FromEx
  BY DEF Flush, BackEnd
<1>3. ex_mem.valid /\ IsCsr(ex_mem.ins) => ex_mem.ins.csr \notin saved
  <2>1. SUFFICES ASSUME ex_mem.valid, IsCsr(ex_mem.ins) PROVE ex_mem.ins.csr \notin saved
    OBVIOUS
  <2>2. /\ id_ex.valid /\ if_id.valid /\ AbsPc = id_ex.pc
        /\ id_ex.ins = Fetch(prog, id_ex.pc) /\ prog \in Programs
    BY BubbleFacts DEF FetchOrder, AbsPc, TypeOK
  <2>3. PICK a \in Word : ex_mem.ins = Fetch(prog, a) /\ id_ex.pc = Add(a, 4)
    BY <2>1, <2>2 DEF Before, ExMemBefore
  <2> QED
    BY <2>1, <2>2, <2>3 DEF SavedApart
<1>4. CsrAfterWb(irq) \in [Csrs -> Word] /\ saved \subseteq Csrs
  BY <1>1, CsrAfterWbType DEF Csrs
<1>5. \A a \in saved : AbsCsr'[a] = csr'[a]
  <2>0. csr' = [a \in Csrs |-> csr'[a]]
    BY <1>1, <1>2, <1>4 DEF CsrAfterTrap
  <2>1. AbsCsr' = CsrAfterWb(FALSE)'
    BY <1>2 DEF AbsCsr, FromEx, IsCsr
  <2>2. \A a \in saved : CsrAfterWb(FALSE)'[a] = csr'[a]
    <3>1. mem_wb'.valid = ex_mem.valid /\ mem_wb'.ins = ex_mem.ins
      BY <1>2 DEF FromMem
    <3>2. CASE mem_wb'.valid /\ IsCsr(mem_wb'.ins) /\ mem_wb'.ins.csr \in Csrs
      <4> DEFINE new == CsrNewVal(mem_wb.ins.fn, CsrRead(mem_wb.ins.csr, FALSE), mem_wb.op_val)
      <4>1. CsrAfterWb(FALSE)' = [csr' EXCEPT ![mem_wb'.ins.csr] = new']
        BY <3>2 DEF CsrAfterWb, IsCsr
      <4> HIDE DEF new
      <4>2. mem_wb'.ins.csr \notin saved
        BY <1>3, <3>1, <3>2
      <4> QED BY <1>4, <2>0, <4>1, <4>2
    <3>3. CASE ~(mem_wb'.valid /\ IsCsr(mem_wb'.ins) /\ mem_wb'.ins.csr \in Csrs)
      BY <3>3 DEF CsrAfterWb, IsCsr
    <3> QED BY <3>2, <3>3
  <2> QED BY <2>1, <2>2
<1>6. /\ csr'["mepc"] = id_ex.pc
      /\ csr'["mcause"] = IF id_ex.ins.op = "ecall" THEN CauseEcall ELSE CauseEbreak
  BY <1>1, <1>2, <1>4 DEF CsrAfterTrap
<1>7. Bit(csr'["mstatus"], MIE) = 0
  BY <1>1, <1>2, TrapMasks
<1> QED BY <1>5, <1>6, <1>7

\* In every program with no such write right in front of a trap, what the trap
\* saves stands: whatever the jumps, interrupts, halts, waits and resets, the
\* older instructions still in the pipeline leave it alone.
THEOREM TrapsStand == SavedApart => (Spec => TrapStands)
<1> SUFFICES ASSUME SavedApart PROVE Spec => TrapStands
  OBVIOUS
<1>1. Init => Before
  BY BubbleFacts DEF Init, Before, ExMemBefore, MemWbBefore
<1>2. TypeOK /\ FetchOrder /\ Before /\ [Next]_vars =>
        [\A dmem_vld \in BOOLEAN, timer_irq \in IrqLevels :
           Flush(dmem_vld, timer_irq) /\ id_ex.ins.op \in {"ecall", "ebreak"} =>
             /\ AbsCsr'["mepc"] = id_ex.pc
             /\ AbsCsr'["mcause"] = IF id_ex.ins.op = "ecall" THEN CauseEcall ELSE CauseEbreak
             /\ Bit(AbsCsr'["mstatus"], MIE) = 0]_vars
  BY TrapSaves
<1> QED
  BY <1>1, <1>2, BeforeStep, TypeCorrect, FetchInOrder, PTL DEF Spec, TrapStands
=============================================================================
