----------------------------- MODULE RiscvTimer -----------------------------
(***************************************************************************)
(* riscv_core.sv with timer.sv behind it, as riscv_top.sv wires them: the  *)
(* timer's irq is the core's timer_irq, a store in MEM to the timer's page *)
(* writes it in every clock it is there, and the timer counts whether or   *)
(* not the core is halted.  The programs only store to the timer; LineOf   *)
(* sends its page to a line that none of them loads from.                  *)
(***************************************************************************)
EXTENDS RiscvCoreProps

CONSTANTS
  TimerSel(_), TimerReg(_),   \* the address decode of riscv_top.sv
  MaxResets                   \* bound: presses of the reset key in mid-run

\* The core takes whatever level the timer drives.
ASSUME TimerAssumption == IrqLevels = BOOLEAN /\ MaxResets \in Nat

VARIABLES
  reload_val, en, pending, count,
  resets,
  tick,        \* history: what became of the last tick of the timer (see Ticks)
  in_handler   \* history: a trap or an interrupt was entered, its MRET not executed

timer     == <<reload_val, en, pending, count>>
timerVars == <<vars, timer, resets, tick, in_handler>>

T == INSTANCE Timer

timer_we  == dmem_we /\ TimerSel(ex_mem.result)
timer_reg == TimerReg(ex_mem.result)

TimerClock == T!Clock(timer_we, timer_reg, ex_mem.src2)

\* The instruction in MEM, if any, leaves it.
MemMoves(dmem_vld) == ~dmem_req \/ dmem_vld

-----------------------------------------------------------------------------
\* "new": pending announces a tick for which no interrupt has been taken;
\* "served": one has, and the tick is not acknowledged, or the program is
\* acknowledging it (an ECALL's handler does so unasked); "none": neither.  An
\* acknowledgement ends when its store leaves MEM: a tick of the clocks before
\* is acknowledged with the one it came on top of.
Ticks(taken, moves) ==
  LET acking == T!Acks(timer_we, timer_reg, ex_mem.src2) IN
  tick' = CASE taken -> "served"
            [] ~taken /\ acking /\ moves -> IF T!Underflows THEN "new" ELSE "none"
            [] ~taken /\ acking /\ ~moves -> "served"
            [] OTHER -> IF T!Underflows /\ tick = "none" THEN "new" ELSE tick

HandlerEntered(taken) == in_handler' =
  \/ taken
  \/ id_ex.ins.op \in {"ecall", "ebreak"}
  \/ id_ex.ins.op # "mret" /\ in_handler

HaltedClock ==
  /\ Halted /\ TimerClock /\ Ticks(FALSE, FALSE)
  /\ UNCHANGED <<resets, in_handler>>

RunningClock(imem_vld, dmem_vld) ==
  /\ Running(imem_vld, dmem_vld, pending)
  /\ TimerClock
  /\ Ticks(irq_taken(pending) /\ MemMoves(dmem_vld), MemMoves(dmem_vld))
  /\ IF MemMoves(dmem_vld) THEN HandlerEntered(irq_taken(pending)) ELSE UNCHANGED in_handler
  /\ UNCHANGED resets

ResetClock(halt, dmem_vld) ==
  /\ resets < MaxResets
  /\ resets' = resets + 1
  /\ Reset(halt, dmem_vld, pending)
  /\ T!Reset
  /\ tick' = "none"
  /\ in_handler' = FALSE

TimerInit == Init /\ T!Init /\ resets = 0 /\ tick = "none" /\ in_handler = FALSE

TimerNext ==
  \/ HaltedClock
  \/ \E imem_vld, dmem_vld \in BOOLEAN : RunningClock(imem_vld, dmem_vld)
  \/ \E halt, dmem_vld \in BOOLEAN : ResetClock(halt, dmem_vld)

\* The debugger does not halt the core for ever, and each memory answers an
\* access that stays asked for; the two need not answer in the same clock.
DataAnswered  == \E v \in BOOLEAN : RunningClock(v, TRUE)
FetchAnswered == \E v \in BOOLEAN : RunningClock(TRUE, v)

Fairness == WF_timerVars(DataAnswered) /\ WF_timerVars(FetchAnswered)

TimerSpec == TimerInit /\ [][TimerNext]_timerVars /\ Fairness

-----------------------------------------------------------------------------
IrqEnabled == Bit(csr["mstatus"], MIE) = 1 /\ Bit(csr["mie"], MTIE) = 1

\* The edge on which an interrupt is taken.
TakesTick == \E dmem_vld \in BOOLEAN : Flush(dmem_vld, pending) /\ irq_taken(pending)

\* riscv_core.sv:218-222: with interrupts enabled and the timer running, the
\* interrupt is taken even while the program spins in a self-loop whose jump
\* redirects every time it reaches EX, unless the program turns interrupts off or
\* a reset stops the timer first.
IrqReached ==
  IrqEnabled /\ (en \/ pending) ~>
    csr["mcause"] = CauseTimer \/ ~(en \/ pending) \/ ~IrqEnabled

\* Every program whose jumps go forward parks on its final loop when no
\* interrupt is enabled (docs/04 Sec. 7, the convergence the differential
\* harness waits for): no interlock, wait, redirect or mid-run reset holds the
\* pipeline for ever or loses a fetch, even with the timer's line up.
Converges == csr["mie"] = 0 => <>[]Parked

\* timer.sv:67-79: a handler that acknowledges the tick and returns is entered
\* once for it, even with MRET right behind the store and the store waiting in
\* MEM, and no tick that comes after the acknowledgement, or in its last clock,
\* is lost before its interrupt.
OneIrqPerTick ==
  [][(TakesTick => tick = "new") /\ (tick = "new" => pending)]_timerVars

\* docs/01_architecture.md:90-93: a handler cannot be interrupted again until
\* it executes MRET, whatever CSR instructions are in flight when it is entered
\* and however many ticks come meanwhile.  One that sets mstatus.MIE breaks it
\* if it is in MEM at the entry; EnablesApart and EnablesWhileOff of
\* RiscvTimerProofs are what a program keeps to so that none is.
NotNested == [][TakesTick => ~in_handler]_timerVars

\* riscv_core.sv:868-871 and test_timer_irq.asm:17-20: an interrupt saves the
\* pc of the oldest instruction that has not left EX, and that instruction
\* does not complete, so that MRET can retry it.
PreciseInterrupt ==
  [][TakesTick => csr'["mepc"] = AbsPc /\ ~ex_mem'.valid]_timerVars
=============================================================================
