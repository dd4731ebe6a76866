---------------------------- MODULE MCRiscvTimer ----------------------------
(***************************************************************************)
(* The machine of MCRiscvCore with a timer at address 64.                  *)
(***************************************************************************)
EXTENDS RiscvTimer, MCRiscvCore

MCTimerSel(a) == a \in 64 .. 79
MCTimerReg(a) == (a \div 4) % 4
MCTimerLineOf(a) == IF MCTimerSel(a) THEN 2 ELSE MCLineOf(a)
MCTimerMems == { [l \in 0..2 |-> 9 + l] }

Set(reg, v) == <<I("imm", "add", 1, 0, 0, v), I("store", "word", 0, 0, 1, 64 + 4 * reg)>>

-----------------------------------------------------------------------------
\* Interrupts on. The timer is started with a period of R + 1 clocks, and the
\* program does one thing of its own. The handler, at address 28, acknowledges
\* the tick and returns at once, a little later, or after it stopped the timer
\* as test_timer_irq.asm does.
Reloads == {0, 2, 9}
TickHandlers == {
  Set(2, 1) \o <<Priv("mret")>>,
  Set(2, 1) \o <<I("load", "word", 2, 0, 0, 4), Priv("mret")>>,
  Set(2, 1) \o <<I("store", "word", 0, 0, 0, 68), Priv("mret")>> }
TickPool == {
  I("imm", "add", 1, 2, 0, 5),
  I("load", "word", 2, 1, 0, 4),
  C("csri", "rc", 1, 0, 8, "mstatus"),  \* csrrci x1, mstatus, 8
  C("csri", "rw", 2, 0, 28, "mtvec"),   \* csrrwi x2, mtvec, 28
  C("csr", "rs", 2, 0, 0, "mstatus"),   \* csrr x2, mstatus
  Priv("ecall"),
  Loop }

TickProgram(r, i, h) == Set(0, r) \o Set(1, 1) \o <<i, Loop, Loop>> \o h

\* As test_timer_irq.asm, the program enables interrupts with the timer running.
\* It disables them first: after a reset in mid-run the CSRs are as they were.
EnableProgram(h) ==
  <<C("csri", "rc", 0, 0, 8, "mstatus")>> \o Set(1, 1)
    \o <<C("csri", "rs", 0, 0, 8, "mstatus"), Loop, Loop, Loop>> \o h

TickPrograms ==
  { TickProgram(r, i, h) : r \in Reloads, i \in TickPool, h \in TickHandlers }
    \cup { EnableProgram(h) : h \in TickHandlers }

OneTickProgram ==
  { TickProgram(0, I("imm", "add", 1, 2, 0, 5), Set(2, 1) \o <<Priv("mret")>>) }

\* Interrupts off: the forward programs, alone and with the timer's line up.
LivePrograms == TickPrograms \cup ForwardPrograms
  \cup { Set(1, 1) \o p \o Handler : p \in ForwardPool \X {Priv("ecall"), Loop} \X {Loop} }

LiveRegs == { [r \in MCRegs |-> 4 * r] }

LiveCsrs ==
  { [ZeroCsrs EXCEPT !["mtvec"] = 28, !["mstatus"] = 8, !["mie"] = m] : m \in {0, 128} }
    \cup { [ZeroCsrs EXCEPT !["mtvec"] = 20] }

\* Only the programs whose handler acknowledges the tick enable its interrupt.
LiveInit == TimerInit /\ (csr["mie"] = 128 <=> prog \in TickPrograms)
LiveSpec == LiveInit /\ [][TimerNext]_timerVars /\ Fairness
=============================================================================
