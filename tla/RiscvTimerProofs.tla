-------------------------- MODULE RiscvTimerProofs --------------------------
(***************************************************************************)
(* Machine-checked proofs about the core with its timer: when a handler    *)
(* can be interrupted, and what becomes of each tick, for every program,   *)
(* word width and timing of the memories, the debugger and the reset key.  *)
(***************************************************************************)
EXTENDS RiscvTimer, RiscvCoreProofs

\* The core alone sees its own next-state relation: the timer is its timer_irq.
LEMMA TimerIsCore ==
  ASSUME pending \in BOOLEAN, [TimerNext]_timerVars PROVE [Next]_vars
<1>1. pending \in IrqLevels
  BY TimerAssumption
<1>2. CASE HaltedClock
  BY <1>2 DEF HaltedClock, Next, Cycle
<1>3. ASSUME NEW iv \in BOOLEAN, NEW dv \in BOOLEAN, RunningClock(iv, dv)
      PROVE  Next
  BY <1>1, <1>3 DEF RunningClock, Next, Cycle
<1>4. ASSUME NEW halt \in BOOLEAN, NEW dv \in BOOLEAN, ResetClock(halt, dv)
      PROVE  Next
  BY <1>1, <1>4 DEF ResetClock, Next
<1>5. CASE UNCHANGED timerVars
  BY <1>5 DEF timerVars
<1> QED BY <1>2, <1>3, <1>4, <1>5 DEF TimerNext

-----------------------------------------------------------------------------
(* The tick the timer announces.                                           *)

TimerTypeOK ==
  /\ pending \in BOOLEAN
  /\ in_handler \in BOOLEAN
  /\ tick \in {"none", "new", "served"}

LEMMA TimerTypeInit == TimerInit => TimerTypeOK
BY DEF TimerInit, TimerTypeOK, T!Init

LEMMA TimerTypeStep == TimerTypeOK /\ [TimerNext]_timerVars => TimerTypeOK'
<1> SUFFICES ASSUME TimerTypeOK, [TimerNext]_timerVars PROVE TimerTypeOK'
  OBVIOUS
<1>1. CASE HaltedClock
  BY <1>1 DEF HaltedClock, TimerTypeOK, TimerClock, T!Clock, T!PendingAfter, T!Underflows, Ticks
<1>2. ASSUME NEW iv \in BOOLEAN, NEW dv \in BOOLEAN, RunningClock(iv, dv)
      PROVE  TimerTypeOK'
  <2>1. pending' \in BOOLEAN
    BY <1>2 DEF RunningClock, TimerClock, T!Clock, T!PendingAfter, T!Underflows
  <2>2. tick' \in {"none", "new", "served"}
    BY <1>2 DEF RunningClock, TimerTypeOK, Ticks
  <2>3. in_handler' \in BOOLEAN
    BY <1>2 DEF RunningClock, TimerTypeOK, HandlerEntered
  <2> QED BY <2>1, <2>2, <2>3 DEF TimerTypeOK
<1>3. ASSUME NEW halt \in BOOLEAN, NEW dv \in BOOLEAN, ResetClock(halt, dv)
      PROVE  TimerTypeOK'
  BY <1>3 DEF ResetClock, T!Reset, TimerTypeOK
<1>4. CASE UNCHANGED timerVars
  BY <1>4 DEF timerVars, timer, TimerTypeOK
<1> QED BY <1>1, <1>2, <1>3, <1>4 DEF TimerNext

\* In every reachable state the timer's tick is none, new or served, and its
\* pending interrupt and the core's in-handler flag are Boolean.
THEOREM TimerTypeCorrect == TimerSpec => []TimerTypeOK
BY TimerTypeInit, TimerTypeStep, PTL DEF TimerSpec

\* Everything proved of the core alone holds of the core with its timer.
THEOREM TimerRunsCore == TimerSpec => Spec
<1>1. TimerInit => Init
  BY DEF TimerInit
<1>2. TimerTypeOK /\ [TimerNext]_timerVars => [Next]_vars
  BY TimerIsCore DEF TimerTypeOK
<1> QED BY <1>1, <1>2, TimerTypeCorrect, PTL DEF TimerSpec, Spec

\* A tick for which no interrupt has been taken keeps the timer's line up, and
\* the line is up for a tick only.
TickInv == (tick = "new" => pending) /\ (pending => tick # "none")

acking == T!Acks(timer_we, timer_reg, ex_mem.src2)

LEMMA TicksStep ==
  ASSUME TickInv, TimerTypeOK, NEW taken \in BOOLEAN, NEW moves \in BOOLEAN,
         TimerClock, Ticks(taken, moves)
  PROVE  TickInv'
<1>1. pending' = (T!Underflows \/ (pending /\ ~acking))
  BY DEF TimerClock, T!Clock, T!PendingAfter, acking
<1>2. CASE taken
  BY <1>2 DEF Ticks, TickInv
<1>3. CASE ~taken /\ acking /\ moves
  BY <1>1, <1>3 DEF Ticks, TickInv, acking
<1>4. CASE ~taken /\ acking /\ ~moves
  BY <1>4 DEF Ticks, TickInv, acking
<1>5. CASE ~taken /\ ~acking
  BY <1>1, <1>5 DEF Ticks, TickInv, TimerTypeOK, acking
<1> QED BY <1>2, <1>3, <1>4, <1>5

LEMMA TickStep == TimerTypeOK /\ TickInv /\ [TimerNext]_timerVars => TickInv'
<1> SUFFICES ASSUME TimerTypeOK, TickInv, [TimerNext]_timerVars PROVE TickInv'
  OBVIOUS
<1>1. CASE HaltedClock
  BY <1>1, TicksStep DEF HaltedClock
<1>2. ASSUME NEW iv \in BOOLEAN, NEW dv \in BOOLEAN, RunningClock(iv, dv)
      PROVE  TickInv'
  <2>1. MemMoves(dv) \in BOOLEAN /\ (irq_taken(pending) /\ MemMoves(dv)) \in BOOLEAN
    BY DEF MemMoves
  <2> QED BY <1>2, <2>1, TicksStep DEF RunningClock
<1>3. ASSUME NEW halt \in BOOLEAN, NEW dv \in BOOLEAN, ResetClock(halt, dv)
      PROVE  TickInv'
  BY <1>3 DEF ResetClock, T!Reset, TickInv
<1>4. CASE UNCHANGED timerVars
  BY <1>4 DEF timerVars, timer, TickInv
<1> QED BY <1>1, <1>2, <1>3, <1>4 DEF TimerNext

\* No acknowledgement that races an underflow, no halt and no memory wait loses
\* a tick: the line stays up until its interrupt is taken or the program
\* acknowledges the tick unasked.  (The second half of OneIrqPerTick, for every
\* program.)
THEOREM NoTickLost == TimerSpec => [](tick = "new" => pending)
<1>1. TimerInit => TickInv
  BY DEF TimerInit, TickInv, T!Init
<1>2. TickInv => (tick = "new" => pending)
  BY DEF TickInv
<1> QED BY <1>1, <1>2, TickStep, TimerTypeCorrect, PTL DEF TimerSpec

-----------------------------------------------------------------------------
(* The mask: mstatus.MIE is clear from the trap to its MRET.               *)

\* A CSR instruction is about to set mstatus.MIE.
SetsMie(i, v) == /\ IsCsr(i) /\ i.csr = "mstatus" /\ i.fn \in {"rw", "rs"}
                 /\ Bit(v, MIE) = 1

MieCommit == mem_wb.valid /\ SetsMie(mem_wb.ins, mem_wb.op_val)

\* What a handler must not do: no instruction of its own, and none that was in
\* MEM or WB when it was entered, sets mstatus.MIE before its MRET.  (One in WB at
\* the very edge of the entry is overwritten by it.)
HandlerKeepsMask == in_handler => ~MieCommit

Masked == in_handler => Bit(csr["mstatus"], MIE) = 0

\* A CSR instruction in WB that does not set mstatus.MIE leaves it clear.
LEMMA WbKeepsMask ==
  ASSUME TypeOK, NEW irq \in BOOLEAN, ~MieCommit, Bit(csr["mstatus"], MIE) = 0
  PROVE  Bit(CsrAfterWb(irq)["mstatus"], MIE) = 0
<1>1. "mstatus" \in Csrs /\ csr \in [Csrs -> Word] /\ csr["mstatus"] \in Word
  BY DEF TypeOK, Csrs
<1>2. CASE mem_wb.valid /\ IsCsr(mem_wb.ins) /\ mem_wb.ins.csr = "mstatus"
  <2> DEFINE new == CsrNewVal(mem_wb.ins.fn, csr["mstatus"], mem_wb.op_val)
  <2>1. CsrAfterWb(irq)["mstatus"] = new
    BY <1>1, <1>2 DEF CsrAfterWb, CsrRead
  <2>2. mem_wb.op_val \in Word
    BY DEF TypeOK
  <2>3. new \in Word
    BY <1>1, <2>2, CsrNewValType
  <2>4. Bit(new, MIE) # 1
    <3>1. CASE mem_wb.ins.fn = "rw"
      BY <1>2, <3>1 DEF CsrNewVal, MieCommit, SetsMie
    <3>2. CASE mem_wb.ins.fn = "rs"
      BY <1>1, <1>2, <2>2, <3>2, MaskAssumption DEF CsrNewVal, MieCommit, SetsMie
    <3>3. CASE mem_wb.ins.fn \notin {"rw", "rs"}
      BY <1>1, <2>2, <3>3, MaskAssumption DEF CsrNewVal
    <3> QED BY <3>1, <3>2, <3>3
  <2> QED BY <2>1, <2>3, <2>4, BitType DEF MIE
<1>3. CASE ~(mem_wb.valid /\ IsCsr(mem_wb.ins) /\ mem_wb.ins.csr = "mstatus")
  BY <1>1, <1>3 DEF CsrAfterWb
<1> QED BY <1>2, <1>3

LEMMA MaskedStep ==
  TypeOK /\ TimerTypeOK /\ HandlerKeepsMask /\ Masked /\ [TimerNext]_timerVars => Masked'
<1> SUFFICES ASSUME TypeOK, TimerTypeOK, HandlerKeepsMask, Masked, [TimerNext]_timerVars
             PROVE  Masked'
  OBVIOUS
<1>0. pending \in BOOLEAN
  BY DEF TimerTypeOK
<1>1. CASE HaltedClock
  BY <1>1 DEF HaltedClock, Halted, Masked
<1>2. ASSUME NEW iv \in BOOLEAN, NEW dv \in BOOLEAN, RunningClock(iv, dv)
      PROVE  Masked'
  <2>1. CASE MemWait(dv, pending)
    <3>1. in_handler' = in_handler /\ csr' = CsrAfterWb(pending)
      BY <1>2, <2>1 DEF RunningClock, MemWait, MemMoves
    <3> QED BY <1>0, <3>1, WbKeepsMask DEF Masked, HandlerKeepsMask
  <2>2. CASE BackEnd(dv, pending)
    <3>1. HandlerEntered(irq_taken(pending)) /\ csr' = CsrAfterTrap(pending)
      BY <1>2, <2>2 DEF RunningClock, BackEnd, MemMoves
    <3>2. CASE id_ex.ins.op \in {"ecall", "ebreak"} \/ irq_taken(pending)
      BY <1>0, <3>1, <3>2, TrapMasks DEF Masked
    <3>3. CASE id_ex.ins.op = "mret" /\ ~irq_taken(pending)
      BY <3>1, <3>3 DEF HandlerEntered, Masked
    <3>4. CASE id_ex.ins.op \notin {"ecall", "ebreak", "mret"} /\ ~irq_taken(pending)
      <4>1. csr' = CsrAfterWb(pending) /\ in_handler' = in_handler
        BY <3>1, <3>4 DEF CsrAfterTrap, HandlerEntered, TimerTypeOK
      <4> QED BY <1>0, <4>1, WbKeepsMask DEF Masked, HandlerKeepsMask
    <3> QED BY <3>2, <3>3, <3>4
  <2> QED BY <1>2, <2>1, <2>2 DEF RunningClock, Running, Flush, FrontStall, Advance
<1>3. ASSUME NEW halt \in BOOLEAN, NEW dv \in BOOLEAN, ResetClock(halt, dv)
      PROVE  Masked'
  BY <1>3 DEF ResetClock, Masked
<1>4. CASE UNCHANGED timerVars
  BY <1>4 DEF timerVars, vars, Masked
<1> QED BY <1>1, <1>2, <1>3, <1>4 DEF TimerNext

\* A handler that keeps the mask is not interrupted before its MRET, whatever
\* the ticks, the trap it came from, the stalls and the resets.
THEOREM MaskedNotNested == TimerSpec /\ []HandlerKeepsMask => NotNested
<1>1. TimerInit => Masked
  BY DEF TimerInit, Masked
<1>2. Masked => [TakesTick => ~in_handler]_timerVars
  BY DEF Masked, TakesTick, irq_taken
<1>3. TimerSpec => []TypeOK
  BY TimerRunsCore, TypeCorrect, PTL
<1> QED
  BY <1>1, <1>2, <1>3, MaskedStep, TimerTypeCorrect, PTL DEF TimerSpec, NotNested

-----------------------------------------------------------------------------
(* Programs that enable interrupts: what they must keep to.                *)

\* A CSR instruction that may set mstatus.MIE, whatever the register file holds.
MaySetMie(i) ==
  /\ IsCsr(i) /\ i.csr = "mstatus" /\ i.fn \in {"rw", "rs"}
  /\ IF i.op = "csri" THEN Bit(i.imm, MIE) = 1 ELSE i.rs1 # 0

\* The program text: behind an instruction that enables interrupts there is no
\* ECALL or EBREAK, and no other access to mstatus is one or two before it.
EnablesApart ==
  \A p \in Programs, a \in Word :
    LET i     == Fetch(p, a)
        next  == Fetch(p, Add(a, 4))
        later == Fetch(p, Add(Add(a, 4), 4))
    IN /\ MaySetMie(i) => next.op \notin {"ecall", "ebreak"}
       /\ IsCsr(i) /\ i.csr = "mstatus" => ~MaySetMie(next) /\ ~MaySetMie(later)

\* The program in execution: interrupts are enabled only where they are disabled,
\* all older instructions taken into account, and not by a handler.
EnablesWhileOff ==
  id_ex.valid /\ SetsMie(id_ex.ins, id_ex.src2) =>
    Bit(AbsCsr["mstatus"], MIE) = 0 /\ ~in_handler

MemSetsMie == ex_mem.valid /\ SetsMie(ex_mem.ins, ex_mem.src2)

\* An instruction that sets MIE passes MEM with interrupts off and no handler
\* entered, and commits in WB before a handler is entered.
EnableInv ==
  /\ MemSetsMie => Bit(csr["mstatus"], MIE) = 0 /\ ~in_handler
  /\ MieCommit => ~in_handler

LEMMA SetsIsMaySet ==
  ASSUME TypeOK, OperandsFresh, id_ex.valid, SetsMie(id_ex.ins, id_ex.src2)
  PROVE  MaySetMie(id_ex.ins)
<1>1. /\ IsCsr(id_ex.ins) /\ id_ex.ins.csr = "mstatus" /\ id_ex.ins.fn \in {"rw", "rs"}
      /\ Bit(id_ex.src2, MIE) = 1
  BY DEF SetsMie
<1>2. CASE id_ex.ins.op = "csri"
  BY <1>1, <1>2 DEF OperandsFresh, MaySetMie
<1>3. CASE id_ex.ins.op = "csr"
  <2>1. id_ex.src2 = Read(regfile, id_ex.ins.rs1)
    BY <1>3 DEF OperandsFresh
  <2>2. Bit(0, MIE) # 1
    BY DEF Bit, MIE
  <2> QED BY <1>1, <1>3, <2>1, <2>2 DEF MaySetMie, Read
<1> QED BY <1>1, <1>2, <1>3 DEF IsCsr

\* The text seen from EX: what is in MEM or WB stands right before it or two before.
LEMMA AloneInEx ==
  ASSUME EnablesApart, TypeOK, FetchOrder, Before, id_ex.valid, MaySetMie(id_ex.ins)
  PROVE  ~CsrAhead("mstatus")
<1>1. /\ if_id.valid /\ AbsPc = id_ex.pc
      /\ id_ex.ins = Fetch(prog, id_ex.pc) /\ prog \in Programs
  BY DEF FetchOrder, AbsPc, TypeOK
<1>2. ASSUME ex_mem.valid, IsCsr(ex_mem.ins) PROVE ex_mem.ins.csr # "mstatus"
  <2>1. PICK a \in Word : ex_mem.ins = Fetch(prog, a) /\ id_ex.pc = Add(a, 4)
    BY <1>1, <1>2 DEF Before, ExMemBefore
  <2> QED BY <1>1, <1>2, <2>1 DEF EnablesApart
<1>3. ASSUME mem_wb.valid, IsCsr(mem_wb.ins) PROVE mem_wb.ins.csr # "mstatus"
  <2>1. PICK a \in Word : /\ mem_wb.ins = Fetch(prog, a)
                          /\ id_ex.pc \in {Add(a, 4), Add(Add(a, 4), 4)}
    BY <1>1, <1>3 DEF Before, MemWbBefore
  <2> QED BY <1>1, <1>3, <2>1 DEF EnablesApart
<1> QED BY <1>2, <1>3 DEF CsrAhead

\* No trap is right behind an instruction that enables interrupts.
LEMMA NoTrapBehind ==
  ASSUME EnablesApart, TypeOK, FetchOrder, Before, ex_mem.valid, MaySetMie(ex_mem.ins)
  PROVE  id_ex.ins.op \notin {"ecall", "ebreak"}
<1>1. SUFFICES ASSUME id_ex.ins.op \in {"ecall", "ebreak"} PROVE FALSE
  OBVIOUS
<1>2. /\ if_id.valid /\ AbsPc = id_ex.pc
      /\ id_ex.ins = Fetch(prog, id_ex.pc) /\ prog \in Programs
  BY <1>1, BubbleFacts DEF FetchOrder, AbsPc, TypeOK
<1>3. PICK a \in Word : ex_mem.ins = Fetch(prog, a) /\ id_ex.pc = Add(a, 4)
  BY <1>2 DEF Before, ExMemBefore
<1> QED BY <1>1, <1>2, <1>3 DEF EnablesApart

\* That an instruction in MEM which sets MIE is one of those the text speaks of.
MemMaySet == MemSetsMie => MaySetMie(ex_mem.ins)

LEMMA MaySetStep ==
  TypeOK /\ OperandsFresh /\ MemMaySet /\ [Next]_vars => MemMaySet'
<1> SUFFICES ASSUME TypeOK, OperandsFresh, MemMaySet, [Next]_vars PROVE MemMaySet'
  OBVIOUS
<1>1. CASE ex_mem' = ex_mem
  BY <1>1 DEF MemMaySet, MemSetsMie
<1>2. CASE ex_mem' = ExMemBubble
  BY <1>2, BubbleFacts DEF MemMaySet, MemSetsMie
<1>3. CASE ex_mem' = FromEx
  <2>1. ex_mem'.valid = id_ex.valid /\ ex_mem'.ins = id_ex.ins /\ ex_mem'.src2 = id_ex.src2
    BY <1>3 DEF FromEx
  <2> QED BY <2>1, SetsIsMaySet DEF MemMaySet, MemSetsMie
<1> QED BY <1>1, <1>2, <1>3 DEF Next, Cycle, Running, Halted, Reset, MemWait, BackEnd, Flush,
                                FrontStall, Advance, vars

LEMMA EnableBackEnd ==
  ASSUME EnablesApart, TypeOK, FetchOrder, OperandsFresh, Before, MemMaySet, EnablesWhileOff,
         EnableInv, NEW dv \in BOOLEAN, pending \in BOOLEAN, in_handler \in BOOLEAN,
         BackEnd(dv, pending), HandlerEntered(irq_taken(pending))
  PROVE  EnableInv'
<1>1. /\ ex_mem'.valid = id_ex.valid /\ ex_mem'.ins = id_ex.ins /\ ex_mem'.src2 = id_ex.src2
      /\ mem_wb'.valid = ex_mem.valid /\ mem_wb'.ins = ex_mem.ins /\ mem_wb'.op_val = ex_mem.src2
      /\ csr' = CsrAfterTrap(pending)
  BY DEF BackEnd, FromEx, FromMem
<1>2. ASSUME MemSetsMie' PROVE Bit(csr'["mstatus"], MIE) = 0 /\ ~in_handler'
  <2>1. id_ex.valid /\ SetsMie(id_ex.ins, id_ex.src2) /\ IsCsr(id_ex.ins)
    BY <1>1, <1>2 DEF MemSetsMie, SetsMie
  <2>2. ~CsrAhead("mstatus")
    BY <2>1, SetsIsMaySet, AloneInEx
  <2>3. \A irq \in BOOLEAN : CsrAfterWb(irq)["mstatus"] = csr["mstatus"]
    BY <2>2 DEF CsrAfterWb, CsrAhead, TypeOK, Csrs
  <2>4. AbsCsr["mstatus"] = CsrAfterWb(FALSE)["mstatus"]
    <3>1. CsrAfterWb(FALSE) \in [Csrs -> Word]
      BY CsrAfterWbType
    <3> QED BY <2>2, <3>1 DEF AbsCsr, CsrAhead, Csrs
  <2>5. Bit(csr["mstatus"], MIE) = 0 /\ ~in_handler
    BY <2>1, <2>3, <2>4 DEF EnablesWhileOff
  <2>6. ~irq_taken(pending)
    BY <2>5 DEF irq_taken
  <2>7. id_ex.ins.op \notin {"ecall", "ebreak", "mret"}
    BY <2>1 DEF IsCsr
  <2>8. csr' = CsrAfterWb(pending) /\ ~in_handler'
    BY <1>1, <2>5, <2>6, <2>7 DEF CsrAfterTrap, HandlerEntered
  <2> QED BY <2>3, <2>5, <2>8
<1>3. ASSUME MieCommit' PROVE ~in_handler'
  <2>1. MemSetsMie
    BY <1>1, <1>3 DEF MieCommit, MemSetsMie
  <2>2. Bit(csr["mstatus"], MIE) = 0 /\ ~in_handler
    BY <2>1 DEF EnableInv
  <2>3. id_ex.ins.op \notin {"ecall", "ebreak"}
    BY <2>1, NoTrapBehind DEF MemMaySet, MemSetsMie
  <2>4. ~irq_taken(pending)
    BY <2>2 DEF irq_taken
  <2> QED BY <2>2, <2>3, <2>4 DEF HandlerEntered
<1> QED BY <1>2, <1>3 DEF EnableInv

LEMMA EnableStep ==
  ASSUME EnablesApart
  PROVE  TypeOK /\ TimerTypeOK /\ FetchOrder /\ OperandsFresh /\ Before /\ MemMaySet
           /\ EnablesWhileOff /\ EnableInv /\ [TimerNext]_timerVars => EnableInv'
<1> SUFFICES ASSUME TypeOK, TimerTypeOK, FetchOrder, OperandsFresh, Before, MemMaySet,
                    EnablesWhileOff, EnableInv, [TimerNext]_timerVars
             PROVE  EnableInv'
  OBVIOUS
<1>1. CASE HaltedClock
  BY <1>1 DEF HaltedClock, Halted, EnableInv, MemSetsMie, MieCommit
<1>2. ASSUME NEW iv \in BOOLEAN, NEW dv \in BOOLEAN, RunningClock(iv, dv)
      PROVE  EnableInv'
  <2>1. CASE MemWait(dv, pending)
    <3>1. ex_mem' = ex_mem /\ ~IsCsr(ex_mem.ins) /\ mem_wb' = MemWbBubble
      BY <2>1 DEF MemWait, dmem_req, dmem_we, dmem_re, IsCsr
    <3> QED BY <3>1, BubbleFacts DEF EnableInv, MemSetsMie, MieCommit, SetsMie
  <2>2. CASE BackEnd(dv, pending)
    <3>1. HandlerEntered(irq_taken(pending))
      BY <1>2, <2>2 DEF RunningClock, BackEnd, MemMoves
    <3> QED BY <2>2, <3>1, EnableBackEnd DEF TimerTypeOK
  <2> QED BY <1>2, <2>1, <2>2 DEF RunningClock, Running, Flush, FrontStall, Advance
<1>3. ASSUME NEW halt \in BOOLEAN, NEW dv \in BOOLEAN, ResetClock(halt, dv)
      PROVE  EnableInv'
  BY <1>3, BubbleFacts DEF ResetClock, Reset, EnableInv, MemSetsMie, MieCommit
<1>4. CASE UNCHANGED timerVars
  BY <1>4 DEF timerVars, vars, EnableInv, MemSetsMie, MieCommit
<1> QED BY <1>1, <1>2, <1>3, <1>4 DEF TimerNext

\* A program that enables interrupts only where they are off, and keeps that
\* apart from other accesses to mstatus and from traps, never has a handler
\* interrupted before its MRET: although the instruction that enables them commits
\* two stages behind the one the interrupt is taken against.
THEOREM NeverNested ==
  EnablesApart => (TimerSpec /\ []EnablesWhileOff => NotNested)
<1> SUFFICES ASSUME EnablesApart PROVE TimerSpec /\ []EnablesWhileOff => NotNested
  OBVIOUS
<1>1. TimerInit => EnableInv
  BY BubbleFacts DEF TimerInit, Init, EnableInv, MemSetsMie, MieCommit
<1>2. Init => Before /\ MemMaySet
  BY BubbleFacts DEF Init, Before, ExMemBefore, MemWbBefore, MemMaySet, MemSetsMie
<1>3. Spec => [](TypeOK /\ FetchOrder /\ OperandsFresh /\ Before /\ MemMaySet)
  BY <1>2, BeforeStep, MaySetStep, TypeCorrect, FetchInOrder, InterlockCorrect, PTL DEF Spec
<1>4. EnableInv => HandlerKeepsMask
  BY DEF EnableInv, HandlerKeepsMask
<1>5. TypeOK /\ TimerTypeOK /\ FetchOrder /\ OperandsFresh /\ Before /\ MemMaySet
        /\ EnablesWhileOff /\ EnableInv /\ [TimerNext]_timerVars => EnableInv'
  BY EnableStep
<1>6. TimerSpec /\ []EnablesWhileOff => []HandlerKeepsMask
  BY <1>1, <1>3, <1>4, <1>5, TimerRunsCore, TimerTypeCorrect, PTL DEF TimerSpec
<1> QED BY <1>6, MaskedNotNested, PTL

-----------------------------------------------------------------------------
(* One interrupt for each tick.                                            *)

\* What the handler of test_timer_irq.asm does: the tick is acknowledged in the
\* handler only, and no MRET reaches EX before the acknowledgement of the tick
\* that was served has at least reached MEM.
AcksInHandler   == acking => in_handler
AcksBeforeMret  == id_ex.ins.op = "mret" /\ tick = "served" => acking
HandlerServes   == HandlerKeepsMask /\ AcksInHandler /\ AcksBeforeMret

ServedInv == tick = "served" => in_handler

LEMMA ServedStep ==
  TimerTypeOK /\ HandlerServes /\ ServedInv /\ [TimerNext]_timerVars => ServedInv'
<1> SUFFICES ASSUME TimerTypeOK, HandlerServes, ServedInv, [TimerNext]_timerVars
             PROVE  ServedInv'
  OBVIOUS
<1>1. CASE HaltedClock
  BY <1>1 DEF HaltedClock, Ticks, HandlerServes, AcksInHandler, ServedInv, acking
<1>2. ASSUME NEW iv \in BOOLEAN, NEW dv \in BOOLEAN, RunningClock(iv, dv)
      PROVE  ServedInv'
  <2> DEFINE taken == irq_taken(pending)
             moves == MemMoves(dv)
  <2>0. taken \in BOOLEAN /\ moves \in BOOLEAN
    BY DEF irq_taken, MemMoves
  <2>1. /\ Ticks(taken /\ moves, moves)
        /\ moves => HandlerEntered(taken)
        /\ ~moves => in_handler' = in_handler
    BY <1>2 DEF RunningClock
  <2> HIDE DEF taken, moves
  <2>2. CASE taken /\ moves
    BY <2>1, <2>2 DEF HandlerEntered, ServedInv
  <2>3. CASE ~(taken /\ moves) /\ acking
    <3>1. tick' = "served" => ~moves
      BY <2>0, <2>1, <2>3 DEF Ticks, acking
    <3>2. in_handler
      BY <2>3 DEF HandlerServes, AcksInHandler
    <3> QED BY <2>1, <3>1, <3>2 DEF ServedInv
  <2>4. CASE ~(taken /\ moves) /\ ~acking
    <3>1. tick' = "served" => tick = "served"
      BY <2>0, <2>1, <2>4 DEF Ticks, acking
    <3>2. tick = "served" => in_handler /\ id_ex.ins.op # "mret"
      BY <2>4 DEF HandlerServes, AcksBeforeMret, ServedInv
    <3>3. tick = "served" => in_handler'
      <4>1. CASE moves
        BY <2>1, <3>2, <4>1 DEF HandlerEntered
      <4>2. CASE ~moves
        BY <2>1, <3>2, <4>2
      <4> QED BY <2>0, <4>1, <4>2
    <3> QED BY <3>1, <3>3 DEF ServedInv
  <2> QED BY <2>2, <2>3, <2>4
<1>3. ASSUME NEW halt \in BOOLEAN, NEW dv \in BOOLEAN, ResetClock(halt, dv)
      PROVE  ServedInv'
  BY <1>3 DEF ResetClock, ServedInv
<1>4. CASE UNCHANGED timerVars
  BY <1>4 DEF timerVars, ServedInv
<1> QED BY <1>1, <1>2, <1>3, <1>4 DEF TimerNext

\* Under that discipline no tick is lost and each one is taken once: not twice,
\* with the MRET right behind an acknowledgement that waits in MEM, and not when
\* the timer underflows in the clock of the acknowledgement.
THEOREM OneInterruptPerTick == TimerSpec /\ []HandlerServes => OneIrqPerTick
<1>1. TimerInit => TickInv /\ ServedInv
  BY DEF TimerInit, TickInv, ServedInv, T!Init
<1>2. TimerTypeOK /\ TickInv /\ ServedInv /\ [TakesTick => ~in_handler]_timerVars =>
        [(TakesTick => tick = "new") /\ (tick = "new" => pending)]_timerVars
  <2>1. TakesTick => pending
    BY DEF TakesTick, irq_taken
  <2> QED BY <2>1 DEF TimerTypeOK, TickInv, ServedInv
<1>3. HandlerServes => HandlerKeepsMask
  BY DEF HandlerServes
<1> QED
  BY <1>1, <1>2, <1>3, TickStep, ServedStep, TimerTypeCorrect, MaskedNotNested, PTL
  DEF TimerSpec, NotNested, OneIrqPerTick
=============================================================================
