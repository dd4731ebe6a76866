------------------------------ MODULE DebugUart ------------------------------
(***************************************************************************)
(* The hardware debugger, src/src/peripherals/debug_uart.sv: a command     *)
(* interpreter clocked with the core.  One step of this module is one      *)
(* rising clock edge; its input is the byte UART_RX reports in that clock  *)
(* (rx_done), or NoByte.                                                   *)
(*                                                                         *)
(* Words are abstracted to where they come from: cur_word is a source      *)
(* ("reg", "pc", "csr", "mem", "mmio") and the address it is read at.      *)
(* Addresses and write data are the byte sequences the host sent.          *)
(* UART_TX is the counter tx_left: busy for TxCycles clocks after tx_en.   *)
(* Bound: rx_timeout_cnt stops at TimeoutCycles, which the code only ever  *)
(* compares it with (the register is 32 bits wide and free-runs).          *)
(***************************************************************************)
EXTENDS Naturals, Sequences

CONSTANTS
  Byte,           \* the bytes that can arrive on the wire
  NoByte,         \* no rx_done in this clock
  NumRegs,        \* registers of the file (32)
  WordBytes,      \* bytes of a word (4)
  CsrBytes,       \* bytes of READ_CSR's argument (2)
  TimeoutCycles,  \* clk_per_bit * TIMEOUT_BIT_PERIODS
  TxCycles        \* clocks UART_TX is busy with one frame

ASSUME DebugUartAssumption ==
  /\ Byte \subseteq Nat
  /\ NoByte \notin Byte
  /\ {NumRegs, WordBytes, CsrBytes, TimeoutCycles, TxCycles} \subseteq Nat \ {0}

CMD_HALT      == 1
CMD_RESUME    == 2
CMD_STEP      == 3
CMD_READ_REG  == 4
CMD_READ_PC   == 5
CMD_READ_ALL  == 6
CMD_WRITE_MEM == 7
CMD_READ_MEM  == 8
CMD_READ_CSR  == 9
CMD_READ_MMIO == 10

VARIABLES
  state, halt,
  word_sel, word_count, byte_sel, cur_word, reading_csr,   \* the reply
  mem_addr, mem_wdata, rx_byte_idx, mem_is_write,          \* the argument
  csr_addr_pending, csr_byte_idx, mmio_addr,
  rx_timeout_cnt,
  tx_en, tx_data, tx_left                                  \* UART_TX

replyVars == <<word_sel, word_count, byte_sel, cur_word, reading_csr>>
memVars   == <<mem_addr, mem_wdata, rx_byte_idx, mem_is_write, mmio_addr>>
csrVars   == <<csr_addr_pending, csr_byte_idx>>
argVars   == <<memVars, csrVars>>
txVars    == <<tx_en, tx_data, tx_left>>
uartVars  == <<state, halt, replyVars, argVars, rx_timeout_cnt, txVars>>

\* States that hold a command whose argument is still arriving.
WaitStates == {"WAIT_ARG", "WAIT_ARG_CSR", "RECV_MEM_ADDR", "RECV_MEM_DATA",
               "RECV_MMIO_ADDR"}
MemStates  == {"MEM_WRITE_PULSE", "MEM_READ_WAIT", "MEM_READ_LATCH"}
MmioStates == {"MMIO_READ_WAIT", "MMIO_READ_LATCH"}
SendStates == {"SEND_LOAD", "SEND_BYTE_START", "SEND_BYTE_WAIT_BUSY",
               "SEND_BYTE_WAIT_DONE"}
States     == {"CMD_IDLE", "STEP_ASSERT", "STEP_DEASSERT"}
                \cup WaitStates \cup MemStates \cup MmioStates \cup SendStates

\* The outputs that take port B and the peripheral decoder from the core.
dbg_mem_valid  == state \in MemStates
dbg_mem_we     == state = "MEM_WRITE_PULSE"
dbg_mmio_valid == state \in MmioStates

tx_busy == tx_left > 0

Zeroes(n)       == [i \in 1..n |-> 0]
Origin(s, at)   == [src |-> s, at |-> at]
Put(word, i, b) == [word EXCEPT ![i + 1] = b]   \* word[8*i +: 8] <= b

-----------------------------------------------------------------------------
(* Reset: the core comes up halted, whatever it was doing. *)
Init ==
  /\ state = "CMD_IDLE" /\ halt = TRUE
  /\ word_sel = 0 /\ word_count = 0 /\ byte_sel = 0
  /\ cur_word = Origin("zero", <<>>) /\ reading_csr = FALSE
  /\ mem_addr = Zeroes(WordBytes) /\ mem_wdata = Zeroes(WordBytes)
  /\ rx_byte_idx = 0 /\ mem_is_write = FALSE /\ mmio_addr = Zeroes(WordBytes)
  /\ csr_addr_pending = Zeroes(CsrBytes) /\ csr_byte_idx = 0
  /\ rx_timeout_cnt = 0 /\ tx_en = FALSE /\ tx_left = 0
  /\ tx_data = <<cur_word, 0>>

Reset ==
  /\ state' = "CMD_IDLE" /\ halt' = TRUE
  /\ word_sel' = 0 /\ word_count' = 0 /\ byte_sel' = 0
  /\ cur_word' = Origin("zero", <<>>) /\ reading_csr' = FALSE
  /\ mem_addr' = Zeroes(WordBytes) /\ mem_wdata' = Zeroes(WordBytes)
  /\ rx_byte_idx' = 0 /\ mem_is_write' = FALSE /\ mmio_addr' = Zeroes(WordBytes)
  /\ csr_addr_pending' = Zeroes(CsrBytes) /\ csr_byte_idx' = 0
  /\ rx_timeout_cnt' = 0 /\ tx_en' = FALSE /\ tx_left' = 0
  /\ UNCHANGED tx_data

-----------------------------------------------------------------------------
(* What every clock does besides its state's arm. *)
Transmit ==
  tx_left' = IF tx_left > 0 THEN tx_left - 1
             ELSE IF tx_en THEN TxCycles ELSE 0

FreeRun == rx_timeout_cnt' = IF rx_timeout_cnt < TimeoutCycles
                             THEN rx_timeout_cnt + 1 ELSE rx_timeout_cnt
\* Mutant: a byte that arrives does not restart the timeout.
RunsOn  == FreeRun
Restart == rx_timeout_cnt' = 0

Quiet == Transmit /\ tx_en' = FALSE /\ UNCHANGED tx_data

Goto(s) == state' = s

-----------------------------------------------------------------------------
(* CMD_IDLE: one action per command byte. *)
Command(rx, byte) == state = "CMD_IDLE" /\ rx = byte

Halt(rx) ==
  /\ Command(rx, CMD_HALT)
  /\ halt' = TRUE
  /\ FreeRun /\ Quiet /\ UNCHANGED <<state, replyVars, argVars>>

Resume(rx) ==
  /\ Command(rx, CMD_RESUME)
  /\ halt' = FALSE
  /\ FreeRun /\ Quiet /\ UNCHANGED <<state, replyVars, argVars>>

Step(rx) ==
  /\ Command(rx, CMD_STEP)
  /\ Goto("STEP_ASSERT")
  /\ FreeRun /\ Quiet /\ UNCHANGED <<halt, replyVars, argVars>>

ReadReg(rx) ==
  /\ Command(rx, CMD_READ_REG)
  /\ Goto("WAIT_ARG") /\ Restart
  /\ Quiet /\ UNCHANGED <<halt, replyVars, argVars>>

\* READ_PC replies with one word, READ_ALL with every register and the pc.
ReadCore(rx) ==
  /\ \/ Command(rx, CMD_READ_PC)  /\ word_sel' = NumRegs /\ word_count' = 1
     \/ Command(rx, CMD_READ_ALL) /\ word_sel' = 0 /\ word_count' = NumRegs + 1
  /\ reading_csr' = FALSE
  /\ Goto("SEND_LOAD")
  /\ FreeRun /\ Quiet /\ UNCHANGED <<halt, byte_sel, cur_word, argVars>>

ReadCsr(rx) ==
  /\ Command(rx, CMD_READ_CSR)
  /\ csr_byte_idx' = 0
  /\ Goto("WAIT_ARG_CSR") /\ Restart
  /\ Quiet /\ UNCHANGED <<halt, replyVars, memVars, csr_addr_pending>>

\* Mutant: the halt test of the memory commands is missing.
AlwaysAccepts == TRUE
Accepts == halt

\* WRITE_MEM and READ_MEM are ignored unless the core is halted.
AccessMem(rx) ==
  /\ Command(rx, CMD_WRITE_MEM) \/ Command(rx, CMD_READ_MEM)
  /\ Accepts
  /\ mem_is_write' = (rx = CMD_WRITE_MEM)
  /\ rx_byte_idx' = 0
  /\ Goto("RECV_MEM_ADDR") /\ Restart
  /\ Quiet /\ UNCHANGED <<halt, replyVars, mem_addr, mem_wdata, mmio_addr, csrVars>>

ReadMmio(rx) ==
  /\ Command(rx, CMD_READ_MMIO)
  /\ Accepts
  /\ rx_byte_idx' = 0
  /\ Goto("RECV_MMIO_ADDR") /\ Restart
  /\ Quiet
  /\ UNCHANGED <<halt, replyVars, mem_addr, mem_wdata, mem_is_write, mmio_addr, csrVars>>

HaltedOnly == {CMD_WRITE_MEM, CMD_READ_MEM, CMD_READ_MMIO}

\* No byte, an unknown byte, or a halted-only command while running.
Ignore(rx) ==
  /\ state = "CMD_IDLE"
  /\ rx \notin CMD_HALT..CMD_READ_MMIO \/ (rx \in HaltedOnly /\ ~Accepts)
  /\ FreeRun /\ Quiet /\ UNCHANGED <<state, halt, replyVars, argVars>>

-----------------------------------------------------------------------------
(* Arguments, one byte at a time; a byte wins over the timeout. *)
TakeRegIndex(rx) ==
  /\ state = "WAIT_ARG" /\ rx \in Byte
  /\ word_sel' = rx % NumRegs /\ word_count' = 1 /\ reading_csr' = FALSE
  /\ Goto("SEND_LOAD")
  /\ FreeRun /\ Quiet /\ UNCHANGED <<halt, byte_sel, cur_word, argVars>>

TakeCsrByte(rx) ==
  /\ state = "WAIT_ARG_CSR" /\ rx \in Byte
  /\ csr_addr_pending' = Put(csr_addr_pending, csr_byte_idx, rx)
  /\ \/ /\ csr_byte_idx = CsrBytes - 1
        /\ word_count' = 1 /\ reading_csr' = TRUE
        /\ Goto("SEND_LOAD") /\ UNCHANGED csr_byte_idx
     \/ /\ csr_byte_idx # CsrBytes - 1
        /\ csr_byte_idx' = csr_byte_idx + 1
        /\ UNCHANGED <<state, word_count, reading_csr>>
  /\ Restart /\ Quiet
  /\ UNCHANGED <<halt, word_sel, byte_sel, cur_word, memVars>>

\* Mutant: the byte counter is not cleared after the last byte.
NoClear(next) ==
  \/ /\ rx_byte_idx = WordBytes - 1
     /\ rx_byte_idx' = rx_byte_idx + 1 /\ Goto(next)
  \/ /\ rx_byte_idx # WordBytes - 1
     /\ rx_byte_idx' = rx_byte_idx + 1 /\ UNCHANGED state

\* The byte counter all three 4-byte arguments share; `next` follows the last.
Advance(next) ==
  \/ /\ rx_byte_idx = WordBytes - 1
     /\ rx_byte_idx' = 0 /\ Goto(next)
  \/ /\ rx_byte_idx # WordBytes - 1
     /\ rx_byte_idx' = rx_byte_idx + 1 /\ UNCHANGED state

TakeMemAddr(rx) ==
  /\ state = "RECV_MEM_ADDR" /\ rx \in Byte
  /\ mem_addr' = Put(mem_addr, rx_byte_idx, rx)
  /\ Advance(IF mem_is_write THEN "RECV_MEM_DATA" ELSE "MEM_READ_WAIT")
  /\ Restart /\ Quiet
  /\ UNCHANGED <<halt, replyVars, mem_wdata, mem_is_write, mmio_addr, csrVars>>

TakeMemData(rx) ==
  /\ state = "RECV_MEM_DATA" /\ rx \in Byte
  /\ mem_wdata' = Put(mem_wdata, rx_byte_idx, rx)
  /\ Advance("MEM_WRITE_PULSE")
  /\ Restart /\ Quiet
  /\ UNCHANGED <<halt, replyVars, mem_addr, mem_is_write, mmio_addr, csrVars>>

TakeMmioAddr(rx) ==
  /\ state = "RECV_MMIO_ADDR" /\ rx \in Byte
  /\ mmio_addr' = Put(mmio_addr, rx_byte_idx, rx)
  /\ Advance("MMIO_READ_WAIT")
  /\ Restart /\ Quiet
  /\ UNCHANGED <<halt, replyVars, mem_addr, mem_wdata, mem_is_write, csrVars>>

\* Mutant: no timeout.
NeverTimesOut == FALSE
TimedOut      == rx_timeout_cnt >= TimeoutCycles

\* No byte: keep waiting, or give up once the counter has reached the limit.
AwaitByte(rx) ==
  /\ state \in WaitStates /\ rx = NoByte
  /\ \/ TimedOut /\ Goto("CMD_IDLE")
     \/ ~TimedOut /\ UNCHANGED state
  /\ FreeRun /\ Quiet /\ UNCHANGED <<halt, replyVars, argVars>>

-----------------------------------------------------------------------------
(* The remaining states do not look at rx_done: a byte that arrives is lost. *)
StepAssert ==
  /\ state = "STEP_ASSERT" /\ halt' = FALSE /\ Goto("STEP_DEASSERT")
  /\ FreeRun /\ Quiet /\ UNCHANGED <<replyVars, argVars>>

StepDeassert ==
  /\ state = "STEP_DEASSERT" /\ halt' = TRUE /\ Goto("CMD_IDLE")
  /\ FreeRun /\ Quiet /\ UNCHANGED <<replyVars, argVars>>

MemWritePulse ==
  /\ state = "MEM_WRITE_PULSE" /\ Goto("CMD_IDLE")
  /\ FreeRun /\ Quiet /\ UNCHANGED <<halt, replyVars, argVars>>

\* Mutant: the reply starts without waiting for the read data.
SkipsLatch ==
  /\ state \in {"MEM_READ_WAIT", "MMIO_READ_WAIT"} /\ Goto("SEND_BYTE_START")
  /\ word_count' = 1 /\ byte_sel' = 0
  /\ FreeRun /\ Quiet /\ UNCHANGED <<halt, word_sel, cur_word, reading_csr, argVars>>

\* One clock for the read latency.
ReadWait ==
  /\ \/ state = "MEM_READ_WAIT"  /\ Goto("MEM_READ_LATCH")
     \/ state = "MMIO_READ_WAIT" /\ Goto("MMIO_READ_LATCH")
  /\ FreeRun /\ Quiet /\ UNCHANGED <<halt, replyVars, argVars>>

ReadLatch ==
  /\ \/ /\ state = "MEM_READ_LATCH" /\ cur_word' = Origin("mem", mem_addr)
        /\ UNCHANGED reading_csr
     \/ /\ state = "MMIO_READ_LATCH" /\ cur_word' = Origin("mmio", mmio_addr)
        /\ reading_csr' = FALSE
  /\ word_count' = 1 /\ byte_sel' = 0
  /\ Goto("SEND_BYTE_START")
  /\ FreeRun /\ Quiet /\ UNCHANGED <<halt, word_sel, argVars>>

SendLoad ==
  /\ state = "SEND_LOAD"
  /\ cur_word' = IF reading_csr THEN Origin("csr", csr_addr_pending)
                 ELSE IF word_sel < NumRegs THEN Origin("reg", <<word_sel>>)
                 ELSE Origin("pc", <<>>)
  /\ byte_sel' = 0
  /\ Goto("SEND_BYTE_START")
  /\ FreeRun /\ Quiet /\ UNCHANGED <<halt, word_sel, word_count, reading_csr, argVars>>

SendByteStart ==
  /\ state = "SEND_BYTE_START"
  /\ \/ /\ ~tx_busy
        /\ tx_data' = <<cur_word, byte_sel>> /\ tx_en' = TRUE
        /\ Goto("SEND_BYTE_WAIT_BUSY")
     \/ tx_busy /\ tx_en' = FALSE /\ UNCHANGED <<state, tx_data>>
  /\ FreeRun /\ Transmit /\ UNCHANGED <<halt, replyVars, argVars>>

SendByteWaitBusy ==
  /\ state = "SEND_BYTE_WAIT_BUSY"
  /\ state' = IF tx_busy THEN "SEND_BYTE_WAIT_DONE" ELSE state
  /\ FreeRun /\ Quiet /\ UNCHANGED <<halt, replyVars, argVars>>

\* Mutant: the reply ends when no word is left, one word too late.
NoneLeft == word_count = 0
LastWord == word_count = 1

\* Next byte, next word, or back to CMD_IDLE after the last one.
SendByteWaitDone ==
  /\ state = "SEND_BYTE_WAIT_DONE"
  /\ \/ tx_busy /\ UNCHANGED <<state, word_sel, word_count, byte_sel>>
     \/ /\ ~tx_busy /\ byte_sel # WordBytes - 1
        /\ byte_sel' = byte_sel + 1
        /\ Goto("SEND_BYTE_START") /\ UNCHANGED <<word_sel, word_count>>
     \/ /\ ~tx_busy /\ byte_sel = WordBytes - 1 /\ LastWord
        /\ Goto("CMD_IDLE") /\ UNCHANGED <<word_sel, word_count, byte_sel>>
     \/ /\ ~tx_busy /\ byte_sel = WordBytes - 1 /\ ~LastWord
        /\ word_sel' = word_sel + 1 /\ word_count' = word_count - 1
        /\ Goto("SEND_LOAD") /\ UNCHANGED byte_sel
  /\ FreeRun /\ Quiet /\ UNCHANGED <<halt, cur_word, reading_csr, argVars>>

-----------------------------------------------------------------------------
Idle(rx) ==
  \/ Halt(rx) \/ Resume(rx) \/ Step(rx) \/ ReadReg(rx) \/ ReadCore(rx)
  \/ ReadCsr(rx) \/ AccessMem(rx) \/ ReadMmio(rx) \/ Ignore(rx)

Argument(rx) ==
  \/ TakeRegIndex(rx) \/ TakeCsrByte(rx) \/ TakeMemAddr(rx) \/ TakeMemData(rx)
  \/ TakeMmioAddr(rx) \/ AwaitByte(rx)

Execute == StepAssert \/ StepDeassert \/ MemWritePulse \/ ReadWait \/ ReadLatch

Reply == SendLoad \/ SendByteStart \/ SendByteWaitBusy \/ SendByteWaitDone

Clock(rx) == Idle(rx) \/ Argument(rx) \/ Execute \/ Reply

\* Any byte in any clock, and the reset button at any time.
Next == Reset \/ \E rx \in Byte \cup {NoByte} : Clock(rx)

Spec == Init /\ [][Next]_uartVars

\* The clock never stops; no byte need ever arrive.
Fairness == WF_uartVars(Clock(NoByte))
FairSpec == Spec /\ Fairness

-----------------------------------------------------------------------------
FlagsTyped ==
  /\ state \in States /\ halt \in BOOLEAN /\ reading_csr \in BOOLEAN
  /\ mem_is_write \in BOOLEAN /\ tx_en \in BOOLEAN

CountsTyped ==
  /\ word_sel \in 0..NumRegs /\ word_count \in 0..(NumRegs + 1)
  /\ byte_sel \in 0..(WordBytes - 1) /\ rx_byte_idx \in 0..(WordBytes - 1)
  /\ csr_byte_idx \in 0..(CsrBytes - 1)
  /\ rx_timeout_cnt \in 0..TimeoutCycles /\ tx_left \in 0..TxCycles

ArgsTyped ==
  /\ mem_addr \in [1..WordBytes -> Byte \cup {0}]
  /\ mem_wdata \in [1..WordBytes -> Byte \cup {0}]
  /\ mmio_addr \in [1..WordBytes -> Byte \cup {0}]
  /\ csr_addr_pending \in [1..CsrBytes -> Byte \cup {0}]

TypeOK == FlagsTyped /\ CountsTyped /\ ArgsTyped

\* riscv_top.sv gives port B and the peripheral decoder to the debugger on
\* the argument that it asks for them only while it holds the core halted,
\* although halt is tested when the command byte arrives and the access
\* happens many bytes later.
MemOnlyWhileHalted == dbg_mem_valid \/ dbg_mmio_valid => halt

\* A reply never runs past the pc: whatever commands came before and whatever
\* word_sel they left, a reply of more than one word has exactly as many words
\* to go as there are registers and the pc from word_sel on.
ReplyEndsAtPc ==
  state \in SendStates =>
    /\ word_count >= 1
    /\ word_count # 1 => word_sel + word_count = NumRegs + 1

\* A command never wedges the debugger: whatever the host sends or fails to
\* send, and whenever it stops, the interpreter returns to CMD_IDLE.
NeverWedged == []<>(state = "CMD_IDLE")

\* The debugger implements the port riscv_top.sv is built around: it starts an
\* access only while it holds the core, holds it until the access is over, and
\* uses port B for exactly one clock per write and two per read; only rst ends
\* an access early.
Phase == IF state \in MemStates \cup MmioStates THEN state ELSE "NONE"

Port == INSTANCE DebugPort WITH
  Addr <- [1..WordBytes -> Byte \cup {0}], Data <- [1..WordBytes -> Byte \cup {0}],
  NoAddr <- <<>>, NoData <- <<>>,
  phase <- Phase,
  addr  <- IF dbg_mem_valid THEN mem_addr ELSE IF dbg_mmio_valid THEN mmio_addr ELSE <<>>,
  wdata <- IF dbg_mem_we THEN mem_wdata ELSE <<>>

ImplementsPort == Port!PortSpec /\ [][Reset \/ Port!PortClock]_uartVars
=============================================================================
