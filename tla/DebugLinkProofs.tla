--------------------------- MODULE DebugLinkProofs ---------------------------
(***************************************************************************)
(* The debugger, and the host at the other end of its line, for every set  *)
(* of bytes, word size, register count, timeout, session and spacing of    *)
(* the bytes.                                                              *)
(*                                                                         *)
(* First debug_uart.sv alone, with any bytes: Inv adds to the type         *)
(* invariant the two facts that make each other inductive, what the states *)
(* in progress imply about halt and about the words left to send.          *)
(*                                                                         *)
(* Then a session of DebugLink.  SafeInv is inductive on every line: where *)
(* the host is in its script, how long the line may have been silent in    *)
(* each state of the debugger, and that a command begun after a pause is   *)
(* in step.  TrackInv adds, for a session without a fault, that host and   *)
(* debugger are at the same byte of the same call, and that log and told   *)
(* are what the calls so far promise.                                      *)
(***************************************************************************)
EXTENDS DebugLink, SequenceTheorems, WellFoundedInduction, TLAPS

\* The states between a halted-only command and the end of its access.
HeldStates == {"RECV_MEM_ADDR", "RECV_MEM_DATA", "RECV_MMIO_ADDR"} \cup MemStates \cup MmioStates

HaltHeld == state \in HeldStates => halt

Inv == TypeOK /\ ReplyEndsAtPc /\ HaltHeld

LEMMA Sizes ==
  /\ NumRegs \in Nat /\ NumRegs >= 1
  /\ WordBytes \in Nat /\ WordBytes >= 1
  /\ CsrBytes \in Nat /\ CsrBytes >= 1
  /\ TimeoutCycles \in Nat /\ TxCycles \in Nat
  /\ NoByte \notin Byte /\ Byte \subseteq Nat
  BY DebugUartAssumption

USE Sizes

LEMMA ZeroesTyped == ASSUME NEW n \in Nat PROVE Zeroes(n) \in [1..n -> Byte \cup {0}]
  BY DEF Zeroes

LEMMA InitInv == Init => Inv
<1> SUFFICES ASSUME Init PROVE Inv
  OBVIOUS
<1>1. FlagsTyped
  BY DEF Init, FlagsTyped, States
<1>2. CountsTyped
  BY DEF Init, CountsTyped
<1>3. ArgsTyped
  BY ZeroesTyped DEF Init, ArgsTyped
<1>4. ReplyEndsAtPc /\ HaltHeld
  BY DEF Init, ReplyEndsAtPc, HaltHeld, SendStates, HeldStates, MemStates, MmioStates
<1> QED
  BY <1>1, <1>2, <1>3, <1>4 DEF Inv, TypeOK

\* Writing one byte of an argument leaves a word of bytes.
LEMMA PutTyped ==
  ASSUME NEW n \in Nat, NEW w \in [1..n -> Byte \cup {0}], NEW i \in 0..(n - 1), NEW b \in Byte
  PROVE  Put(w, i, b) \in [1..n -> Byte \cup {0}]
  BY DEF Put

\* The transmitter and the timeout counter stay in range in every clock.
LEMMA TickTyped ==
  ASSUME TypeOK
  PROVE  /\ Transmit => tx_left' \in 0..TxCycles
         /\ FreeRun => rx_timeout_cnt' \in 0..TimeoutCycles
         /\ Restart => rx_timeout_cnt' \in 0..TimeoutCycles
  BY DEF TypeOK, CountsTyped, Transmit, FreeRun, Restart

(* A clock in CMD_IDLE: the only way into a state that needs the core halted *)
(* is past the halt test.                                                   *)
LEMMA IdleInv ==
  ASSUME Inv, NEW rx \in Byte \cup {NoByte}, Idle(rx)
  PROVE  Inv'
<1> USE DEF Inv, TypeOK, Goto, Quiet, replyVars, argVars, memVars, csrVars
<1> USE DEF Command
<1>1. CASE Halt(rx)
  <2>1. FlagsTyped'
    BY <1>1 DEF Halt, FlagsTyped, States, WaitStates, MemStates, MmioStates, SendStates
  <2>2. CountsTyped'
    BY <1>1, TickTyped DEF Halt, CountsTyped
  <2>3. ArgsTyped'
    BY <1>1 DEF Halt, ArgsTyped
  <2>4. ReplyEndsAtPc' /\ HaltHeld'
    BY <1>1 DEF Halt, CountsTyped, ReplyEndsAtPc, HaltHeld, WaitStates, HeldStates, MemStates, MmioStates, SendStates
  <2> QED
    BY <2>1, <2>2, <2>3, <2>4
<1>2. CASE Resume(rx)
  <2>1. FlagsTyped'
    BY <1>2 DEF Resume, FlagsTyped, States, WaitStates, MemStates, MmioStates, SendStates
  <2>2. CountsTyped'
    BY <1>2, TickTyped DEF Resume, CountsTyped
  <2>3. ArgsTyped'
    BY <1>2 DEF Resume, ArgsTyped
  <2>4. ReplyEndsAtPc' /\ HaltHeld'
    BY <1>2 DEF Resume, CountsTyped, ReplyEndsAtPc, HaltHeld, WaitStates, HeldStates, MemStates, MmioStates, SendStates
  <2> QED
    BY <2>1, <2>2, <2>3, <2>4
<1>3. CASE Step(rx)
  <2>1. FlagsTyped'
    BY <1>3 DEF Step, FlagsTyped, States, WaitStates, MemStates, MmioStates, SendStates
  <2>2. CountsTyped'
    BY <1>3, TickTyped DEF Step, CountsTyped
  <2>3. ArgsTyped'
    BY <1>3 DEF Step, ArgsTyped
  <2>4. ReplyEndsAtPc' /\ HaltHeld'
    BY <1>3 DEF Step, CountsTyped, ReplyEndsAtPc, HaltHeld, WaitStates, HeldStates, MemStates, MmioStates, SendStates
  <2> QED
    BY <2>1, <2>2, <2>3, <2>4
<1>4. CASE ReadReg(rx)
  <2>1. FlagsTyped'
    BY <1>4 DEF ReadReg, FlagsTyped, States, WaitStates, MemStates, MmioStates, SendStates
  <2>2. CountsTyped'
    BY <1>4, TickTyped DEF ReadReg, CountsTyped
  <2>3. ArgsTyped'
    BY <1>4 DEF ReadReg, ArgsTyped
  <2>4. ReplyEndsAtPc' /\ HaltHeld'
    BY <1>4 DEF ReadReg, CountsTyped, ReplyEndsAtPc, HaltHeld, WaitStates, HeldStates, MemStates, MmioStates, SendStates
  <2> QED
    BY <2>1, <2>2, <2>3, <2>4
<1>5. CASE ReadCore(rx)
  <2>1. FlagsTyped'
    BY <1>5 DEF ReadCore, FlagsTyped, States, WaitStates, MemStates, MmioStates, SendStates
  <2>2. CountsTyped'
    BY <1>5, TickTyped DEF ReadCore, CountsTyped
  <2>3. ArgsTyped'
    BY <1>5 DEF ReadCore, ArgsTyped
  <2>4. ReplyEndsAtPc' /\ HaltHeld'
    BY <1>5 DEF ReadCore, CountsTyped, ReplyEndsAtPc, HaltHeld, WaitStates, HeldStates, MemStates, MmioStates, SendStates
  <2> QED
    BY <2>1, <2>2, <2>3, <2>4
<1>6. CASE ReadCsr(rx)
  <2>1. FlagsTyped'
    BY <1>6 DEF ReadCsr, FlagsTyped, States, WaitStates, MemStates, MmioStates, SendStates
  <2>2. CountsTyped'
    BY <1>6, TickTyped DEF ReadCsr, CountsTyped
  <2>3. ArgsTyped'
    BY <1>6 DEF ReadCsr, ArgsTyped
  <2>4. ReplyEndsAtPc' /\ HaltHeld'
    BY <1>6 DEF ReadCsr, CountsTyped, ReplyEndsAtPc, HaltHeld, WaitStates, HeldStates, MemStates, MmioStates, SendStates
  <2> QED
    BY <2>1, <2>2, <2>3, <2>4
<1>7. CASE AccessMem(rx)
  <2>1. FlagsTyped'
    BY <1>7 DEF AccessMem, Accepts, FlagsTyped, States, WaitStates, MemStates, MmioStates, SendStates
  <2>2. CountsTyped'
    BY <1>7, TickTyped DEF AccessMem, Accepts, CountsTyped
  <2>3. ArgsTyped'
    BY <1>7 DEF AccessMem, Accepts, ArgsTyped
  <2>4. ReplyEndsAtPc' /\ HaltHeld'
    BY <1>7 DEF AccessMem, Accepts, CountsTyped, ReplyEndsAtPc, HaltHeld, WaitStates, HeldStates, MemStates, MmioStates, SendStates
  <2> QED
    BY <2>1, <2>2, <2>3, <2>4
<1>8. CASE ReadMmio(rx)
  <2>1. FlagsTyped'
    BY <1>8 DEF ReadMmio, Accepts, FlagsTyped, States, WaitStates, MemStates, MmioStates, SendStates
  <2>2. CountsTyped'
    BY <1>8, TickTyped DEF ReadMmio, Accepts, CountsTyped
  <2>3. ArgsTyped'
    BY <1>8 DEF ReadMmio, Accepts, ArgsTyped
  <2>4. ReplyEndsAtPc' /\ HaltHeld'
    BY <1>8 DEF ReadMmio, Accepts, CountsTyped, ReplyEndsAtPc, HaltHeld, WaitStates, HeldStates, MemStates, MmioStates, SendStates
  <2> QED
    BY <2>1, <2>2, <2>3, <2>4
<1>9. CASE Ignore(rx)
  <2>1. FlagsTyped'
    BY <1>9 DEF Ignore, FlagsTyped, States, WaitStates, MemStates, MmioStates, SendStates
  <2>2. CountsTyped'
    BY <1>9, TickTyped DEF Ignore, CountsTyped
  <2>3. ArgsTyped'
    BY <1>9 DEF Ignore, ArgsTyped
  <2>4. ReplyEndsAtPc' /\ HaltHeld'
    BY <1>9 DEF Ignore, CountsTyped, ReplyEndsAtPc, HaltHeld, WaitStates, HeldStates, MemStates, MmioStates, SendStates
  <2> QED
    BY <2>1, <2>2, <2>3, <2>4
<1> QED
  BY <1>1, <1>2, <1>3, <1>4, <1>5, <1>6, <1>7, <1>8, <1>9, Idle(rx) DEF Idle

(* A clock that waits for an argument byte or takes one. *)
LEMMA ArgumentInv ==
  ASSUME Inv, NEW rx \in Byte \cup {NoByte}, Argument(rx)
  PROVE  Inv'
<1> USE DEF Inv, TypeOK, Goto, Quiet, replyVars, argVars, memVars, csrVars
<1>1. CASE TakeRegIndex(rx)
  <2>1. FlagsTyped'
    BY <1>1 DEF TakeRegIndex, FlagsTyped, States, WaitStates, MemStates, MmioStates, SendStates
  <2>2. CountsTyped'
    <3>1. rx % NumRegs \in 0..NumRegs
      BY <1>1 DEF TakeRegIndex
    <3> QED
      BY <1>1, <3>1, TickTyped DEF TakeRegIndex, CountsTyped
  <2>3. ArgsTyped'
    BY <1>1 DEF TakeRegIndex, ArgsTyped
  <2>4. ReplyEndsAtPc' /\ HaltHeld'
    BY <1>1 DEF TakeRegIndex, CountsTyped, ReplyEndsAtPc, HaltHeld, WaitStates, HeldStates, MemStates, MmioStates, SendStates
  <2> QED
    BY <2>1, <2>2, <2>3, <2>4
<1>2. CASE TakeCsrByte(rx)
  <2>1. FlagsTyped'
    BY <1>2 DEF TakeCsrByte, FlagsTyped, States, WaitStates, MemStates, MmioStates, SendStates
  <2>2. CountsTyped'
    BY <1>2, TickTyped DEF TakeCsrByte, CountsTyped
  <2>3. ArgsTyped'
    <3>1. Put(csr_addr_pending, csr_byte_idx, rx) \in [1..CsrBytes -> Byte \cup {0}]
      BY <1>2, PutTyped DEF TakeCsrByte, ArgsTyped, CountsTyped
    <3> QED
      BY <1>2, <3>1 DEF TakeCsrByte, ArgsTyped
  <2>4. ReplyEndsAtPc' /\ HaltHeld'
    BY <1>2 DEF TakeCsrByte, CountsTyped, ReplyEndsAtPc, HaltHeld, WaitStates, HeldStates, MemStates, MmioStates, SendStates
  <2> QED
    BY <2>1, <2>2, <2>3, <2>4
<1>3. CASE TakeMemAddr(rx)
  <2>1. FlagsTyped'
    BY <1>3 DEF TakeMemAddr, Advance, FlagsTyped, States, WaitStates, MemStates, MmioStates, SendStates
  <2>2. CountsTyped'
    BY <1>3, TickTyped DEF TakeMemAddr, Advance, CountsTyped
  <2>3. ArgsTyped'
    <3>1. Put(mem_addr, rx_byte_idx, rx) \in [1..WordBytes -> Byte \cup {0}]
      BY <1>3, PutTyped DEF TakeMemAddr, ArgsTyped, CountsTyped
    <3> QED
      BY <1>3, <3>1 DEF TakeMemAddr, ArgsTyped
  <2>4. ReplyEndsAtPc' /\ HaltHeld'
    BY <1>3 DEF TakeMemAddr, Advance, CountsTyped, ReplyEndsAtPc, HaltHeld, WaitStates, HeldStates, MemStates, MmioStates, SendStates
  <2> QED
    BY <2>1, <2>2, <2>3, <2>4
<1>4. CASE TakeMemData(rx)
  <2>1. FlagsTyped'
    BY <1>4 DEF TakeMemData, Advance, FlagsTyped, States, WaitStates, MemStates, MmioStates, SendStates
  <2>2. CountsTyped'
    BY <1>4, TickTyped DEF TakeMemData, Advance, CountsTyped
  <2>3. ArgsTyped'
    <3>1. Put(mem_wdata, rx_byte_idx, rx) \in [1..WordBytes -> Byte \cup {0}]
      BY <1>4, PutTyped DEF TakeMemData, ArgsTyped, CountsTyped
    <3> QED
      BY <1>4, <3>1 DEF TakeMemData, ArgsTyped
  <2>4. ReplyEndsAtPc' /\ HaltHeld'
    BY <1>4 DEF TakeMemData, Advance, CountsTyped, ReplyEndsAtPc, HaltHeld, WaitStates, HeldStates, MemStates, MmioStates, SendStates
  <2> QED
    BY <2>1, <2>2, <2>3, <2>4
<1>5. CASE TakeMmioAddr(rx)
  <2>1. FlagsTyped'
    BY <1>5 DEF TakeMmioAddr, Advance, FlagsTyped, States, WaitStates, MemStates, MmioStates, SendStates
  <2>2. CountsTyped'
    BY <1>5, TickTyped DEF TakeMmioAddr, Advance, CountsTyped
  <2>3. ArgsTyped'
    <3>1. Put(mmio_addr, rx_byte_idx, rx) \in [1..WordBytes -> Byte \cup {0}]
      BY <1>5, PutTyped DEF TakeMmioAddr, ArgsTyped, CountsTyped
    <3> QED
      BY <1>5, <3>1 DEF TakeMmioAddr, ArgsTyped
  <2>4. ReplyEndsAtPc' /\ HaltHeld'
    BY <1>5 DEF TakeMmioAddr, Advance, CountsTyped, ReplyEndsAtPc, HaltHeld, WaitStates, HeldStates, MemStates, MmioStates, SendStates
  <2> QED
    BY <2>1, <2>2, <2>3, <2>4
<1>6. CASE AwaitByte(rx)
  <2>1. FlagsTyped'
    BY <1>6 DEF AwaitByte, FlagsTyped, States, WaitStates, MemStates, MmioStates, SendStates
  <2>2. CountsTyped'
    BY <1>6, TickTyped DEF AwaitByte, CountsTyped
  <2>3. ArgsTyped'
    BY <1>6 DEF AwaitByte, ArgsTyped
  <2>4. ReplyEndsAtPc' /\ HaltHeld'
    BY <1>6 DEF AwaitByte, CountsTyped, ReplyEndsAtPc, HaltHeld, WaitStates, HeldStates, MemStates, MmioStates, SendStates
  <2> QED
    BY <2>1, <2>2, <2>3, <2>4
<1> QED
  BY <1>1, <1>2, <1>3, <1>4, <1>5, <1>6, Argument(rx) DEF Argument

(* STEP, the memory accesses and their latch. *)
LEMMA ExecuteInv == ASSUME Inv, Execute PROVE Inv'
<1> USE DEF Inv, TypeOK, Goto, Quiet, replyVars, argVars, memVars, csrVars
<1>1. CASE StepAssert
  <2>1. FlagsTyped'
    BY <1>1 DEF StepAssert, FlagsTyped, States, WaitStates, MemStates, MmioStates, SendStates
  <2>2. CountsTyped'
    BY <1>1, TickTyped DEF StepAssert, CountsTyped
  <2>3. ArgsTyped'
    BY <1>1 DEF StepAssert, ArgsTyped
  <2>4. ReplyEndsAtPc' /\ HaltHeld'
    BY <1>1 DEF StepAssert, CountsTyped, ReplyEndsAtPc, HaltHeld, WaitStates, HeldStates, MemStates, MmioStates, SendStates
  <2> QED
    BY <2>1, <2>2, <2>3, <2>4
<1>2. CASE StepDeassert
  <2>1. FlagsTyped'
    BY <1>2 DEF StepDeassert, FlagsTyped, States, WaitStates, MemStates, MmioStates, SendStates
  <2>2. CountsTyped'
    BY <1>2, TickTyped DEF StepDeassert, CountsTyped
  <2>3. ArgsTyped'
    BY <1>2 DEF StepDeassert, ArgsTyped
  <2>4. ReplyEndsAtPc' /\ HaltHeld'
    BY <1>2 DEF StepDeassert, CountsTyped, ReplyEndsAtPc, HaltHeld, WaitStates, HeldStates, MemStates, MmioStates, SendStates
  <2> QED
    BY <2>1, <2>2, <2>3, <2>4
<1>3. CASE MemWritePulse
  <2>1. FlagsTyped'
    BY <1>3 DEF MemWritePulse, FlagsTyped, States, WaitStates, MemStates, MmioStates, SendStates
  <2>2. CountsTyped'
    BY <1>3, TickTyped DEF MemWritePulse, CountsTyped
  <2>3. ArgsTyped'
    BY <1>3 DEF MemWritePulse, ArgsTyped
  <2>4. ReplyEndsAtPc' /\ HaltHeld'
    BY <1>3 DEF MemWritePulse, CountsTyped, ReplyEndsAtPc, HaltHeld, WaitStates, HeldStates, MemStates, MmioStates, SendStates
  <2> QED
    BY <2>1, <2>2, <2>3, <2>4
<1>4. CASE ReadWait
  <2>1. FlagsTyped'
    BY <1>4 DEF ReadWait, FlagsTyped, States, WaitStates, MemStates, MmioStates, SendStates
  <2>2. CountsTyped'
    BY <1>4, TickTyped DEF ReadWait, CountsTyped
  <2>3. ArgsTyped'
    BY <1>4 DEF ReadWait, ArgsTyped
  <2>4. ReplyEndsAtPc' /\ HaltHeld'
    BY <1>4 DEF ReadWait, CountsTyped, ReplyEndsAtPc, HaltHeld, WaitStates, HeldStates, MemStates, MmioStates, SendStates
  <2> QED
    BY <2>1, <2>2, <2>3, <2>4
<1>5. CASE ReadLatch
  <2>1. FlagsTyped'
    BY <1>5 DEF ReadLatch, FlagsTyped, States, WaitStates, MemStates, MmioStates, SendStates
  <2>2. CountsTyped'
    BY <1>5, TickTyped DEF ReadLatch, CountsTyped
  <2>3. ArgsTyped'
    BY <1>5 DEF ReadLatch, ArgsTyped
  <2>4. ReplyEndsAtPc' /\ HaltHeld'
    BY <1>5 DEF ReadLatch, CountsTyped, ReplyEndsAtPc, HaltHeld, WaitStates, HeldStates, MemStates, MmioStates, SendStates
  <2> QED
    BY <2>1, <2>2, <2>3, <2>4
<1> QED
  BY <1>1, <1>2, <1>3, <1>4, <1>5, Execute DEF Execute

(* The reply: only the last byte of a word moves word_sel and word_count. *)
LEMMA ReplyInv == ASSUME Inv, Reply PROVE Inv'
<1> USE DEF Inv, TypeOK, Goto, Quiet, replyVars, argVars, memVars, csrVars
<1>1. CASE SendLoad
  <2>1. FlagsTyped'
    BY <1>1 DEF SendLoad, FlagsTyped, States, WaitStates, MemStates, MmioStates, SendStates
  <2>2. CountsTyped'
    BY <1>1, TickTyped DEF SendLoad, CountsTyped
  <2>3. ArgsTyped'
    BY <1>1 DEF SendLoad, ArgsTyped
  <2>4. ReplyEndsAtPc' /\ HaltHeld'
    BY <1>1 DEF SendLoad, CountsTyped, ReplyEndsAtPc, HaltHeld, WaitStates, HeldStates, MemStates, MmioStates, SendStates
  <2> QED
    BY <2>1, <2>2, <2>3, <2>4
<1>2. CASE SendByteStart
  <2>1. FlagsTyped'
    BY <1>2 DEF SendByteStart, FlagsTyped, States, WaitStates, MemStates, MmioStates, SendStates
  <2>2. CountsTyped'
    BY <1>2, TickTyped DEF SendByteStart, CountsTyped
  <2>3. ArgsTyped'
    BY <1>2 DEF SendByteStart, ArgsTyped
  <2>4. ReplyEndsAtPc' /\ HaltHeld'
    BY <1>2 DEF SendByteStart, CountsTyped, ReplyEndsAtPc, HaltHeld, WaitStates, HeldStates, MemStates, MmioStates, SendStates
  <2> QED
    BY <2>1, <2>2, <2>3, <2>4
<1>3. CASE SendByteWaitBusy
  <2>1. FlagsTyped'
    BY <1>3 DEF SendByteWaitBusy, FlagsTyped, States, WaitStates, MemStates, MmioStates, SendStates
  <2>2. CountsTyped'
    BY <1>3, TickTyped DEF SendByteWaitBusy, CountsTyped
  <2>3. ArgsTyped'
    BY <1>3 DEF SendByteWaitBusy, ArgsTyped
  <2>4. ReplyEndsAtPc' /\ HaltHeld'
    BY <1>3 DEF SendByteWaitBusy, CountsTyped, ReplyEndsAtPc, HaltHeld, WaitStates, HeldStates, MemStates, MmioStates, SendStates
  <2> QED
    BY <2>1, <2>2, <2>3, <2>4
<1>4. CASE SendByteWaitDone
  <2>1. FlagsTyped'
    BY <1>4 DEF SendByteWaitDone, LastWord, FlagsTyped, States, WaitStates, MemStates, MmioStates, SendStates
  <2>2. CountsTyped'
    BY <1>4, TickTyped DEF SendByteWaitDone, LastWord, CountsTyped, ReplyEndsAtPc, SendStates
  <2>3. ArgsTyped'
    BY <1>4 DEF SendByteWaitDone, LastWord, ArgsTyped
  <2>4. ReplyEndsAtPc' /\ HaltHeld'
    BY <1>4 DEF SendByteWaitDone, LastWord, CountsTyped, ReplyEndsAtPc, HaltHeld, WaitStates, HeldStates, MemStates, MmioStates, SendStates
  <2> QED
    BY <2>1, <2>2, <2>3, <2>4
<1> QED
  BY <1>1, <1>2, <1>3, <1>4, Reply DEF Reply

LEMMA ResetInv == ASSUME Reset PROVE Inv'
<1>1. FlagsTyped'
  BY DEF Reset, FlagsTyped, States
<1>2. CountsTyped'
  BY DEF Reset, CountsTyped
<1>3. ArgsTyped'
  BY ZeroesTyped DEF Reset, ArgsTyped
<1>4. (ReplyEndsAtPc /\ HaltHeld)'
  BY DEF Reset, ReplyEndsAtPc, HaltHeld, SendStates, HeldStates, MemStates, MmioStates
<1> QED
  BY <1>1, <1>2, <1>3, <1>4 DEF Inv, TypeOK

LEMMA StutterInv == ASSUME Inv, UNCHANGED uartVars PROVE Inv'
  BY DEF Inv, TypeOK, FlagsTyped, CountsTyped, ArgsTyped, ReplyEndsAtPc, HaltHeld, uartVars, replyVars, argVars,
         memVars, csrVars, txVars

\* Every reachable state of DebugUart satisfies the inductive invariant: what
\* HALT, a reply and an argument in progress promise holds through every step.
THEOREM InvHolds == Spec => []Inv
<1>1. Inv /\ [Next]_uartVars => Inv'
  <2> SUFFICES ASSUME Inv, [Next]_uartVars PROVE Inv'
    OBVIOUS
  <2>1. CASE Reset
    BY <2>1, ResetInv
  <2>2. ASSUME NEW rx \in Byte \cup {NoByte}, Clock(rx) PROVE Inv'
    BY <2>2, IdleInv, ArgumentInv, ExecuteInv, ReplyInv DEF Clock
  <2>3. CASE UNCHANGED uartVars
    BY <2>3, StutterInv
  <2> QED
    BY <2>1, <2>2, <2>3 DEF Next
<1> QED
  BY InitInv, <1>1, PTL DEF Spec

\* Every register of the debugger stays in range, in particular the register
\* index, whatever the host sends.
THEOREM TypeCorrect == Spec => []TypeOK
<1>1. Inv => TypeOK
  BY DEF Inv
<1> QED
  BY InvHolds, <1>1, PTL

\* riscv_top.sv may hand port B and the peripheral decoder to the debugger:
\* while it asks for them it is holding the core halted.
THEOREM MemoryAccessIsHalted == Spec => []MemOnlyWhileHalted
<1>1. Inv => MemOnlyWhileHalted
  BY DEF Inv, HaltHeld, HeldStates, MemOnlyWhileHalted, dbg_mem_valid, dbg_mmio_valid
<1> QED
  BY InvHolds, <1>1, PTL

\* A reply has no more words than the registers and the pc.
THEOREM RepliesEnd == Spec => []ReplyEndsAtPc
<1>1. Inv => ReplyEndsAtPc
  BY DEF Inv
<1> QED
  BY InvHolds, <1>1, PTL

-----------------------------------------------------------------------------
(* The debugger implements the port SocBus is built around.  Outside an      *)
(* access every clock is one in which the port at most changes halt; inside  *)
(* one, mem_addr, mem_wdata and mmio_addr hold still, and HaltHeld gives the *)
(* port's own guard in the clock the last argument byte arrives.             *)

InAccess == MemStates \cup MmioStates

LEMMA InvStep == ASSUME Inv, NEW rx \in Byte \cup {NoByte}, Clock(rx) PROVE Inv'
  BY IdleInv, ArgumentInv, ExecuteInv, ReplyInv DEF Clock

LEMMA OutsideAccess ==
  ASSUME Inv', state \notin InAccess, state' \notin InAccess
  PROVE  Port!SetHalt
  BY DEF Port!SetHalt, Port!Idle, Phase, InAccess, MemStates, MmioStates, dbg_mem_valid,
         dbg_mmio_valid, dbg_mem_we, Inv, TypeOK, FlagsTyped

LEMMA IdleStep == ASSUME NEW rx, Idle(rx) PROVE state \notin InAccess /\ state' \notin InAccess
<1> USE DEF Command, Goto, InAccess, MemStates, MmioStates
<1>1. CASE Halt(rx) \/ Resume(rx) \/ Step(rx)
  BY <1>1 DEF Halt, Resume, Step
<1>2. CASE ReadReg(rx) \/ ReadCore(rx) \/ ReadCsr(rx)
  BY <1>2 DEF ReadReg, ReadCore, ReadCsr
<1>3. CASE AccessMem(rx) \/ ReadMmio(rx) \/ Ignore(rx)
  BY <1>3 DEF AccessMem, ReadMmio, Ignore
<1> QED
  BY <1>1, <1>2, <1>3 DEF Idle

LEMMA ReplyStep == ASSUME Reply PROVE state \notin InAccess /\ state' \notin InAccess
  BY DEF Reply, SendLoad, SendByteStart, SendByteWaitBusy, SendByteWaitDone, Goto, InAccess,
         MemStates, MmioStates

\* The last byte of an argument starts an access, the others do not.
LEMMA ArgumentStep ==
  ASSUME Inv, Inv', NEW rx \in Byte \cup {NoByte}, Argument(rx)
  PROVE  Port!PortClock
<1> USE DEF Goto, InAccess, MemStates, MmioStates
<1> DEFINE Starts == Port!StartWrite \/ Port!StartRead
<1>1. state \notin InAccess
  BY DEF Argument, TakeRegIndex, TakeCsrByte, TakeMemAddr, TakeMemData, TakeMmioAddr, AwaitByte, WaitStates
<1>2. SUFFICES ASSUME state' \in InAccess PROVE Starts
  BY <1>1, OutsideAccess DEF Port!PortClock
<1>3. CASE TakeRegIndex(rx) \/ TakeCsrByte(rx) \/ AwaitByte(rx)
  BY <1>1, <1>2, <1>3 DEF TakeRegIndex, TakeCsrByte, AwaitByte
<1> USE DEF Port!MayStart, Port!Idle, Phase, dbg_mem_valid, dbg_mmio_valid, dbg_mem_we
<1>4. CASE TakeMemAddr(rx)
  <2>1. state = "RECV_MEM_ADDR" /\ state' = "MEM_READ_WAIT" /\ halt /\ halt' = halt
    BY <1>2, <1>4 DEF TakeMemAddr, Advance, Inv, HaltHeld, HeldStates
  <2>2. mem_addr' \in [1..WordBytes -> Byte \cup {0}]
    BY DEF Inv, TypeOK, ArgsTyped
  <2> QED
    BY <2>1, <2>2 DEF Port!StartRead
<1>5. CASE TakeMemData(rx)
  <2>1. state = "RECV_MEM_DATA" /\ state' = "MEM_WRITE_PULSE" /\ halt /\ halt' = halt
    BY <1>2, <1>5 DEF TakeMemData, Advance, Inv, HaltHeld, HeldStates
  <2>2. /\ mem_addr' \in [1..WordBytes -> Byte \cup {0}]
        /\ mem_wdata' \in [1..WordBytes -> Byte \cup {0}]
    BY DEF Inv, TypeOK, ArgsTyped
  <2> QED
    BY <2>1, <2>2 DEF Port!StartWrite
<1>6. CASE TakeMmioAddr(rx)
  <2>1. state = "RECV_MMIO_ADDR" /\ state' = "MMIO_READ_WAIT" /\ halt /\ halt' = halt
    BY <1>2, <1>6 DEF TakeMmioAddr, Advance, Inv, HaltHeld, HeldStates
  <2>2. mmio_addr' \in [1..WordBytes -> Byte \cup {0}]
    BY DEF Inv, TypeOK, ArgsTyped
  <2> QED
    BY <2>1, <2>2 DEF Port!StartRead
<1> QED
  BY <1>3, <1>4, <1>5, <1>6 DEF Argument

\* The address and the data of an access hold still until it is over.
LEMMA ExecuteStep == ASSUME Inv', Execute PROVE Port!PortClock
<1> USE DEF Goto, Phase, MemStates, MmioStates, dbg_mem_valid, dbg_mmio_valid, dbg_mem_we, argVars, memVars
<1>1. CASE StepAssert \/ StepDeassert
  BY <1>1, OutsideAccess DEF StepAssert, StepDeassert, InAccess, Port!PortClock
<1>2. CASE MemWritePulse
  BY <1>2 DEF MemWritePulse, Port!Finish, Port!Writing, Port!PortClock
<1>3. CASE ReadWait
  BY <1>3 DEF ReadWait, Port!Wait, Port!PortClock
<1>4. CASE ReadLatch
  BY <1>4 DEF ReadLatch, Port!Finish, Port!Latching, Port!PortClock
<1> QED
  BY <1>1, <1>2, <1>3, <1>4 DEF Execute

\* What SocBus assumes of the debugger is what the debugger does.
THEOREM PortImplemented == Spec => ImplementsPort
<1>1. Init => Port!PortInit
  BY DEF Init, Port!PortInit, Phase, MemStates, MmioStates, dbg_mem_valid, dbg_mmio_valid, dbg_mem_we
<1>2. ASSUME Inv, Next PROVE Reset \/ Port!PortClock
  <2>1. ASSUME NEW rx \in Byte \cup {NoByte}, Clock(rx) PROVE Port!PortClock
    <3>1. Inv'
      BY <1>2, <2>1, InvStep
    <3> QED
      BY <1>2, <2>1, <3>1, IdleStep, ReplyStep, OutsideAccess, ArgumentStep, ExecuteStep
         DEF Clock, Port!PortClock
  <2> QED
    BY <1>2, <2>1 DEF Next
<1>3. Inv /\ [Next]_uartVars => [Port!PortClock \/ Port!PortReset]_(Port!portVars)
  <2>1. Reset => Port!PortReset
    BY DEF Reset, Port!PortReset, Phase, MemStates, MmioStates, dbg_mem_valid, dbg_mmio_valid, dbg_mem_we
  <2>2. UNCHANGED uartVars => UNCHANGED Port!portVars
    BY DEF uartVars, argVars, memVars, Port!portVars, Phase, dbg_mem_valid, dbg_mmio_valid, dbg_mem_we
  <2> QED
    BY <1>2, <2>1, <2>2
<1>4. Inv /\ [Next]_uartVars => [Reset \/ Port!PortClock]_uartVars
  BY <1>2
<1> QED
  BY InvHolds, <1>1, <1>3, <1>4, PTL DEF Spec, ImplementsPort, Port!PortSpec

-----------------------------------------------------------------------------
(* The line: what the host and the debugger know of each other.             *)
Source == [src : {"zero", "reg", "pc", "csr", "mem", "mmio"}, at : Seq(Nat)]
RxByte == Source \X Nat
Event  == {<<"halt">>, <<"resume">>, <<"step">>}
            \cup ({"write"} \X Seq(Nat) \X Seq(Nat)) \cup ({"reply"} \X Source \X Nat)
Errors == {"IOError"} \cup UNION {UNION {{Plans[n][u][i].err : i \in DOMAIN Plans[n][u]} :
                                         u \in DOMAIN Plans[n]} : n \in DOMAIN Sessions}
Said   == [to : Nat, said : Seq(Errors) \cup Seq(RxByte)]

HostTyped ==
  /\ session \in DOMAIN Sessions /\ user \in 1 .. Len(Todo) + 1
  /\ call \in Nat /\ byte \in Nat /\ gap \in Nat /\ awaiting \in Nat
  /\ idle \in 0..PauseCycles /\ lost \in Nat
  /\ inbox \in Seq(RxByte) /\ told \in Seq(Said) /\ log \in Seq(Event)
  /\ cur_word \in Source /\ tx_data \in RxByte

\* Where the host is in its script: a call that reads has sent all of its bytes.
Placed ==
  /\ ~Sent => call \in DOMAIN Plan /\ (Here.err = "none" => byte \in 1 .. Len(Wire(Here)))
  /\ awaiting > 0 => /\ ~Sent /\ Here.err = "none" /\ byte = Len(Wire(Here))
                     /\ awaiting <= WordsAwaited(Here)

Silent == ~tx_en /\ tx_left = 0

\* UART_TX is busy only with a byte of a reply.
TxInv ==
  /\ tx_en => state = "SEND_BYTE_WAIT_BUSY" /\ tx_left = 0
  /\ state = "SEND_BYTE_WAIT_BUSY" => tx_en \/ tx_left = TxCycles
  /\ tx_left > 0 => state \in {"SEND_BYTE_WAIT_BUSY", "SEND_BYTE_WAIT_DONE"}

\* The line is never silent for long while the debugger is in a command.
IdleBound ==
  /\ state \in WaitStates => idle <= rx_timeout_cnt
  /\ state \in {"STEP_ASSERT", "MEM_WRITE_PULSE", "MEM_READ_WAIT", "MMIO_READ_WAIT",
                "SEND_BYTE_WAIT_DONE"} => idle = 0
  /\ state \in {"STEP_DEASSERT", "MEM_READ_LATCH", "MMIO_READ_LATCH", "SEND_LOAD"} => idle <= 1
  /\ state = "SEND_BYTE_START" => idle <= 2
  /\ state = "SEND_BYTE_WAIT_BUSY" => idle <= 3

-----------------------------------------------------------------------------
(* The call c under way, when it was begun on a line without a fault.       *)
\* Its first byte - 1 bytes are in the debugger.
Receiving(c) ==
  /\ awaiting = 0 /\ byte \in 2 .. Len(Wire(c)) /\ inbox = <<>> /\ Silent
  /\ rx_timeout_cnt + gap <= TimeoutCycles
  /\ \/ c.op = CMD_READ_REG /\ state = "WAIT_ARG"
     \/ /\ c.op = CMD_READ_CSR /\ state = "WAIT_ARG_CSR" /\ csr_byte_idx = byte - 2
        /\ \A i \in 1 .. byte - 2 : csr_addr_pending[i] = c.arg[i]
     \/ /\ c.op \in {CMD_READ_MEM, CMD_WRITE_MEM} /\ state = "RECV_MEM_ADDR"
        /\ mem_is_write = (c.op = CMD_WRITE_MEM) /\ rx_byte_idx = byte - 2
        /\ \A i \in 1 .. byte - 2 : mem_addr[i] = c.arg[i]
     \/ /\ c.op = CMD_WRITE_MEM /\ state = "RECV_MEM_DATA" /\ rx_byte_idx = byte - 2 - WordBytes
        /\ mem_addr = SubSeq(c.arg, 1, WordBytes)
        /\ \A i \in 1 .. byte - 2 - WordBytes : mem_wdata[i] = c.arg[WordBytes + i]
     \/ /\ c.op = CMD_READ_MMIO /\ state = "RECV_MMIO_ADDR" /\ rx_byte_idx = byte - 2
        /\ \A i \in 1 .. byte - 2 : mmio_addr[i] = c.arg[i]

\* What SEND_LOAD loads; whether the host has the byte being sent.
ToLoad == IF reading_csr THEN Origin("csr", csr_addr_pending)
          ELSE IF word_sel < NumRegs THEN Origin("reg", <<word_sel>>) ELSE Origin("pc", <<>>)
Seen   == state = "SEND_BYTE_WAIT_DONE" /\ tx_left < HostSees
Taken  == IF state = "SEND_LOAD" THEN 0 ELSE IF Seen THEN byte_sel + 1 ELSE byte_sel
LastSeen == Seen /\ byte_sel = WordBytes - 1

\* The debugger sends the word that is word_count from the end, and the host
\* has each byte and each word once it is sent.
Replying(c) ==
  LET w == Wanted(c)[Len(Wanted(c)) + 1 - word_count]
  IN  /\ state \in SendStates /\ word_count \in 1 .. Len(Wanted(c))
      /\ c.op = CMD_READ_ALL => ~reading_csr /\ word_sel = NumRegs + 1 - word_count
      /\ IF state = "SEND_LOAD" THEN ToLoad = w ELSE cur_word = w
      /\ state \in {"SEND_BYTE_WAIT_BUSY", "SEND_BYTE_WAIT_DONE"} => tx_data = <<cur_word, byte_sel>>
      /\ IF LastSeen THEN awaiting = word_count - 1 /\ inbox = <<>>
         ELSE awaiting = word_count /\ inbox = [i \in 1..Taken |-> <<cur_word, i - 1>>]

Fetching(c) ==
  /\ awaiting = 1 /\ Silent /\ inbox = <<>>
  /\ \/ c.op = CMD_READ_MEM /\ state \in {"MEM_READ_WAIT", "MEM_READ_LATCH"} /\ mem_addr = c.arg
     \/ c.op = CMD_READ_MMIO /\ state \in {"MMIO_READ_WAIT", "MMIO_READ_LATCH"} /\ mmio_addr = c.arg

Answering(c) == awaiting > 0 /\ gap >= HostSees /\ (Fetching(c) \/ Replying(c))

\* The bytes of the reply that have been sent.
Replied(c) ==
  IF state \notin SendStates THEN 0
  ELSE WordBytes * (Len(Wanted(c)) - word_count)
         + (IF state = "SEND_LOAD" THEN 0
            ELSE IF state = "SEND_BYTE_START" \/ tx_en THEN byte_sel ELSE byte_sel + 1)

-----------------------------------------------------------------------------
(* A faultless session.                                                     *)
\* What was promised of the calls before the one under way.
Acc == IF Sent THEN Promised ELSE AfterCalls(session, user, AfterCommands(session)[user - 1])[call - 1]

\* What the debugger still does of the last call.
Pending == IF state = "STEP_ASSERT" THEN <<<<"step">>>>
           ELSE IF state = "MEM_WRITE_PULSE" THEN <<<<"write", mem_addr, mem_wdata>>>> ELSE <<>>

\* The debugger is back in CMD_IDLE before the next byte.
Ready ==
  \/ state = "CMD_IDLE" /\ Silent
  \/ state = "STEP_ASSERT" /\ Silent /\ gap >= 2
  \/ state \in {"STEP_DEASSERT", "MEM_WRITE_PULSE"} /\ Silent /\ gap >= 1
  \/ LastSeen /\ word_count = 1 /\ gap > tx_left

Between ==
  /\ awaiting = 0 /\ byte = 1 /\ inbox = <<>> /\ Ready
  /\ told = Acc.told /\ log \o Pending = Acc.log
  /\ Acc.halted = (halt \/ state \in {"STEP_ASSERT", "STEP_DEASSERT"})

\* A command the running core's debugger takes no notice of.
Ignoring(c) ==
  /\ c.op \in HaltedOnly /\ ~halt /\ state = "CMD_IDLE" /\ Silent /\ inbox = <<>>
  /\ \/ awaiting = 0 /\ byte \in 2 .. Len(Wire(c))
     \/ awaiting = Len(Wanted(c)) /\ awaiting > 0

Shown(c) == [i \in DOMAIN Answers(c) |-> Says(user, Answers(c)[i])]

During(c) ==
  /\ c.err = "none" /\ Acc.halted = halt
  /\ \/ /\ Receiving(c) \/ Ignoring(c)
        /\ c.op \in HaltedOnly /\ state # "CMD_IDLE" => halt
        /\ log = Acc.log /\ told = Acc.told
     \/ /\ Answering(c) /\ (c.op \in HaltedOnly => halt)
        /\ log = Acc.log \o SubSeq(Effect(c), 1, Replied(c))
        /\ told = Acc.told \o SubSeq(Shown(c), 1, Len(Wanted(c)) - awaiting)

InCall  == ~Sent /\ \E c \in {Here} : During(c)
OnTrack == (~Sent => ~Acc.over /\ Acc.skip < user) /\ (Between \/ InCall)

InStep == Faultless => OnTrack

\* A command the command line begins after a pause.
FreshCall ==
  /\ ~Sent /\ Tool = "cli" /\ Todo[user].fresh /\ Len(Plan) = 1
  /\ Here.err = "none" /\ Here.op \notin HaltedOnly

FreshInStep == FreshCall /\ (byte > 1 \/ awaiting > 0) => Receiving(Here) \/ Answering(Here)

\* The last command of the user is a HALT after a pause.
LastHalts == LET u == Len(Todo) IN u > 0 /\ Todo[u].cmd = "halt" /\ Todo[u].fresh /\ StaysOpen
Halted ==
  LastHalts => /\ user = Len(Todo) => call = 1 /\ byte = 1 /\ awaiting = 0
               /\ Sent => state = "CMD_IDLE" /\ halt /\ log # <<>> /\ Last(log) = <<"halt">>

\* The assumptions on the line, in numbers.
LEMMA LinkSizes ==
  /\ HostSees \in Nat /\ HostSees >= 1 /\ HostSees <= TxCycles
  /\ Gaps \subseteq Nat
  /\ \A g \in Gaps : g > 2 /\ g > HostSees /\ g <= TimeoutCycles + 1
  /\ PauseCycles \in Nat /\ PauseCycles > TimeoutCycles + 1 /\ PauseCycles > 3
  /\ ByteBase \in Nat /\ ByteBase > 10 /\ Byte = 0 .. ByteBase - 1 /\ CsrBytes = 2
  BY DebugLinkAssumption, Sizes DEF CMD_READ_MMIO

\* The sessions: each command makes a sequence of calls, each a well-formed one.
LEMMA TodoTyped ==
  ASSUME NEW n \in DOMAIN Sessions
  PROVE  /\ Len(Sessions[n].todo) \in Nat
         /\ DOMAIN Sessions[n].todo = 1 .. Len(Sessions[n].todo)
         /\ Sessions[n].lose \in Nat
<1> DEFINE todo == Sessions[n].todo
<1>1. todo \in Seq({todo[u] : u \in DOMAIN todo}) /\ Sessions[n].lose \in Nat
  BY DebugLinkAssumption
<1> HIDE DEF todo
<1>2. Len(todo) \in Nat /\ DOMAIN todo = 1 .. Len(todo)
  BY <1>1
<1> QED
  BY <1>1, <1>2 DEF todo

\* A session has one plan for each command of the user.
LEMMA PlansAre ==
  ASSUME NEW n \in DOMAIN Sessions
  PROVE  /\ Plans[n] = [u \in 1 .. Len(Sessions[n].todo) |->
                          Tools!Calls(Sessions[n].tool, Sessions[n].todo[u])]
         /\ Len(Plans[n]) = Len(Sessions[n].todo) /\ DOMAIN Plans[n] = 1 .. Len(Sessions[n].todo)
<1>1. Plans[n] = [u \in DOMAIN Sessions[n].todo |-> Tools!Calls(Sessions[n].tool, Sessions[n].todo[u])]
  BY Zenon DEF Plans, Map
<1> DEFINE N == Len(Sessions[n].todo)
<1>2. N \in Nat /\ DOMAIN Sessions[n].todo = 1..N
  BY TodoTyped
<1> HIDE DEF N
<1>3. Plans[n] = [u \in 1..N |-> Tools!Calls(Sessions[n].tool, Sessions[n].todo[u])]
  BY <1>1, <1>2
<1>4. Len(Plans[n]) = N /\ DOMAIN Plans[n] = 1..N
  BY <1>2, <1>3
<1> QED
  BY <1>3, <1>4 DEF N

\* A plan is a nonempty sequence of well-formed calls.
LEMMA PlanTyped ==
  ASSUME NEW n \in DOMAIN Sessions, NEW u \in 1 .. Len(Sessions[n].todo)
  PROVE  /\ Len(Plans[n][u]) \in Nat /\ Len(Plans[n][u]) > 0
         /\ DOMAIN Plans[n][u] = 1 .. Len(Plans[n][u])
         /\ \A i \in 1 .. Len(Plans[n][u]) : WellFormed(Plans[n][u][i])
<1> DEFINE plan == Plans[n][u]
<1>1. u \in DOMAIN Sessions[n].todo
  BY TodoTyped
<1>2. /\ plan \in Seq({plan[i] : i \in DOMAIN plan}) /\ plan # <<>>
      /\ \A i \in DOMAIN plan : WellFormed(plan[i])
  BY <1>1, DebugLinkAssumption
<1> HIDE DEF plan
<1>3. Len(plan) \in Nat /\ Len(plan) > 0 /\ DOMAIN plan = 1 .. Len(plan)
  BY <1>2
<1> QED
  BY <1>2, <1>3 DEF plan

-----------------------------------------------------------------------------
(* One clock of the debugger, by its state.                                 *)
LEMMA ClockAt ==
  ASSUME NEW rx, Clock(rx)
  PROVE  /\ state = "CMD_IDLE" => Idle(rx)
         /\ state \in WaitStates => Argument(rx)
         /\ state = "STEP_ASSERT" => StepAssert
         /\ state = "STEP_DEASSERT" => StepDeassert
         /\ state = "MEM_WRITE_PULSE" => MemWritePulse
         /\ state \in {"MEM_READ_WAIT", "MMIO_READ_WAIT"} => ReadWait
         /\ state \in {"MEM_READ_LATCH", "MMIO_READ_LATCH"} => ReadLatch
         /\ state = "SEND_LOAD" => SendLoad
         /\ state = "SEND_BYTE_START" => SendByteStart
         /\ state = "SEND_BYTE_WAIT_BUSY" => SendByteWaitBusy
         /\ state = "SEND_BYTE_WAIT_DONE" => SendByteWaitDone
<1>1. CASE Idle(rx)
  <2>1. state = "CMD_IDLE"
    BY <1>1 DEF Idle, Halt, Resume, Step, ReadReg, ReadCore, ReadCsr, AccessMem, ReadMmio, Ignore, Command
  <2> QED
    BY <1>1, <2>1 DEF WaitStates
<1>2. CASE Argument(rx)
  <2>1. state \in WaitStates
    BY <1>2 DEF Argument, TakeRegIndex, TakeCsrByte, TakeMemAddr, TakeMemData, TakeMmioAddr, AwaitByte, WaitStates
  <2> QED
    BY <1>2, <2>1 DEF WaitStates
<1>3. CASE Execute
  BY <1>3 DEF Execute, StepAssert, StepDeassert, MemWritePulse, ReadWait, ReadLatch, WaitStates
<1>4. CASE Reply
  BY <1>4 DEF Reply, SendLoad, SendByteStart, SendByteWaitBusy, SendByteWaitDone, WaitStates
<1> QED
  BY <1>1, <1>2, <1>3, <1>4 DEF Clock

\* In a state that waits for an argument: what a byte, or none, does.
LEMMA WaitAt ==
  ASSUME NEW rx, Argument(rx)
  PROVE  /\ rx = NoByte => AwaitByte(rx)
         /\ rx # NoByte => /\ state = "WAIT_ARG" => TakeRegIndex(rx)
                           /\ state = "WAIT_ARG_CSR" => TakeCsrByte(rx)
                           /\ state = "RECV_MEM_ADDR" => TakeMemAddr(rx)
                           /\ state = "RECV_MEM_DATA" => TakeMemData(rx)
                           /\ state = "RECV_MMIO_ADDR" => TakeMmioAddr(rx)
  BY DEF Argument, TakeRegIndex, TakeCsrByte, TakeMemAddr, TakeMemData, TakeMmioAddr, AwaitByte

\* In CMD_IDLE: what each command byte does.
LEMMA IdleAt ==
  ASSUME NEW rx \in Byte \cup {NoByte}, Idle(rx)
  PROVE  /\ rx = CMD_HALT => Halt(rx)
         /\ rx = CMD_RESUME => Resume(rx)
         /\ rx = CMD_STEP => Step(rx)
         /\ rx = CMD_READ_REG => ReadReg(rx)
         /\ rx \in {CMD_READ_PC, CMD_READ_ALL} => ReadCore(rx)
         /\ rx = CMD_READ_CSR => ReadCsr(rx)
         /\ rx \in {CMD_READ_MEM, CMD_WRITE_MEM} /\ halt => AccessMem(rx)
         /\ rx = CMD_READ_MMIO /\ halt => ReadMmio(rx)
         /\ rx \notin CMD_HALT..CMD_READ_MMIO \/ (rx \in HaltedOnly /\ ~halt) => Ignore(rx)
<1> USE DEF CMD_HALT, CMD_RESUME, CMD_STEP, CMD_READ_REG, CMD_READ_PC, CMD_READ_ALL, CMD_WRITE_MEM,
            CMD_READ_MEM, CMD_READ_CSR, CMD_READ_MMIO, HaltedOnly, Command, Accepts
<1>1. Halt(rx) => rx = 1
  BY DEF Halt
<1>2. Resume(rx) => rx = 2
  BY DEF Resume
<1>3. Step(rx) => rx = 3
  BY DEF Step
<1>4. ReadReg(rx) => rx = 4
  BY DEF ReadReg
<1>5. ReadCore(rx) => rx \in {5, 6}
  BY DEF ReadCore
<1>6. ReadCsr(rx) => rx = 9
  BY DEF ReadCsr
<1>7. AccessMem(rx) => rx \in {7, 8} /\ halt
  BY DEF AccessMem
<1>8. ReadMmio(rx) => rx = 10 /\ halt
  BY DEF ReadMmio
<1>9. Ignore(rx) => rx \notin 1..10 \/ (rx \in {7, 8, 10} /\ ~halt)
  BY DEF Ignore
<1>10. \A k \in {1, 2, 3, 4, 5, 6, 7, 8, 9, 10} : k \in 1..10
  OBVIOUS
<1> QED
  BY <1>1, <1>2, <1>3, <1>4, <1>5, <1>6, <1>7, <1>8, <1>9, <1>10 DEF Idle

\* Without a byte CMD_IDLE stays.
LEMMA NoByteIgnored == ASSUME NEW rx, rx = NoByte, Idle(rx) PROVE Ignore(rx)
<1>1. rx \notin CMD_HALT..CMD_READ_MMIO
  <2>1. \A k \in CMD_HALT..CMD_READ_MMIO : k \in Byte
    BY LinkSizes DEF CMD_HALT, CMD_READ_MMIO
  <2> QED
    BY <2>1
<1> QED
  BY <1>1, IdleAt DEF Idle

\* Only SEND_BYTE_START starts a frame, and every clock takes part in the one under way.
LEMMA ClockTx ==
  ASSUME NEW rx, Clock(rx)
  PROVE  /\ Transmit
         /\ state # "SEND_BYTE_START" => tx_en' = FALSE /\ tx_data' = tx_data
         /\ state' = "SEND_BYTE_WAIT_BUSY" => state \in {"SEND_BYTE_START", "SEND_BYTE_WAIT_BUSY"}
<1> USE DEF Quiet, Goto
<1>1. CASE Idle(rx)
  BY <1>1 DEF Idle, Halt, Resume, Step, ReadReg, ReadCore, ReadCsr, AccessMem, ReadMmio, Ignore, Command
<1>2. CASE Argument(rx)
  BY <1>2 DEF Argument, TakeRegIndex, TakeCsrByte, TakeMemAddr, TakeMemData, TakeMmioAddr, AwaitByte, WaitStates, Advance
<1>3. CASE Execute
  BY <1>3 DEF Execute, StepAssert, StepDeassert, MemWritePulse, ReadWait, ReadLatch
<1>4. CASE Reply
  BY <1>4 DEF Reply, SendLoad, SendByteStart, SendByteWaitBusy, SendByteWaitDone
<1> QED
  BY <1>1, <1>2, <1>3, <1>4 DEF Clock

\* UART_TX stays busy only with bytes of replies.
LEMMA TxStep == ASSUME Inv, TxInv, NEW rx, Clock(rx) PROVE TxInv'
<1>1. tx_left \in 0..TxCycles /\ TxCycles >= 1 /\ state \in States
  BY DebugUartAssumption DEF Inv, TypeOK, CountsTyped, FlagsTyped
<1>2. CASE state = "SEND_BYTE_START"
  <2>1. SendByteStart
    BY <1>2, ClockAt
  <2> QED
    BY <1>1, <1>2, <2>1 DEF SendByteStart, Transmit, TxInv, Goto, tx_busy
<1>3. CASE state = "SEND_BYTE_WAIT_BUSY"
  <2>1. SendByteWaitBusy
    BY <1>3, ClockAt
  <2> QED
    BY <1>1, <1>3, <2>1 DEF SendByteWaitBusy, Transmit, TxInv, Quiet, tx_busy
<1>4. CASE state = "SEND_BYTE_WAIT_DONE"
  <2>1. SendByteWaitDone
    BY <1>4, ClockAt
  <2> QED
    BY <1>1, <1>4, <2>1 DEF SendByteWaitDone, Transmit, TxInv, Quiet, tx_busy, Goto
<1>5. CASE state \notin {"SEND_BYTE_START", "SEND_BYTE_WAIT_BUSY", "SEND_BYTE_WAIT_DONE"}
  <2>1. tx_en' = FALSE /\ state' # "SEND_BYTE_WAIT_BUSY" /\ Transmit
    BY <1>5, ClockTx
  <2>2. tx_left' = 0
    BY <1>1, <1>5, <2>1 DEF Transmit, TxInv
  <2> QED
    BY <2>1, <2>2 DEF TxInv
<1> QED
  BY <1>2, <1>3, <1>4, <1>5

-----------------------------------------------------------------------------
(* The host.                                                                *)
LEMMA Divides ==
  ASSUME NEW L \in Nat, NEW n \in Nat
  PROVE  /\ L \div WordBytes \in Nat /\ WordBytes * (L \div WordBytes) <= L
         /\ n * WordBytes > L => L \div WordBytes < n
         /\ n * WordBytes \in Nat
  OBVIOUS

\* Words of a box, and what is left in it.
Words(box, k) == [i \in 1..k |-> Says(user, SubSeq(box, WordBytes * (i - 1) + 1, WordBytes * i))]

\* What is taken from a box is words, and what is left in it is bytes.
LEMMA WordsTyped ==
  ASSUME NEW box \in Seq(RxByte), NEW k \in Nat, WordBytes * k <= Len(box), user \in Nat
  PROVE  /\ Words(box, k) \in Seq(Said) /\ Len(Words(box, k)) = k
         /\ SubSeq(box, WordBytes * k + 1, Len(box)) \in Seq(RxByte)
<1>1. ASSUME NEW i \in 1..k
      PROVE  Says(user, SubSeq(box, WordBytes * (i - 1) + 1, WordBytes * i)) \in Said
  <2>1. WordBytes * (i - 1) \in Nat /\ WordBytes * i \in Nat
    OBVIOUS
  <2>2. WordBytes * i <= WordBytes * k
    OBVIOUS
  <2>3. \A j \in WordBytes * (i - 1) + 1 .. WordBytes * i : box[j] \in RxByte
    BY <2>1, <2>2
  <2>4. SubSeq(box, WordBytes * (i - 1) + 1, WordBytes * i) \in Seq(RxByte)
    BY <2>1, <2>3, SubSeqProperties
  <2> QED
    BY <2>4 DEF Says, Said
<1>2. Words(box, k) \in [1..k -> Said]
  BY <1>1 DEF Words
<1>3. WordBytes * k \in Nat
  OBVIOUS
<1>4. SubSeq(box, WordBytes * k + 1, Len(box)) \in Seq(RxByte)
  <2>1. \A j \in WordBytes * k + 1 .. Len(box) : box[j] \in RxByte
    BY <1>3
  <2> QED
    BY <1>3, <2>1, SubSeqProperties
<1> QED
  BY <1>2, <1>4

\* _read_word takes whole words, and the call is over when it has them all.
LEMMA ReadStep ==
  ASSUME NEW box \in Seq(RxByte), NEW n \in Nat, Read(box, n), user \in Nat, told \in Seq(Said)
  PROVE  /\ inbox' \in Seq(RxByte) /\ told' \in Seq(Said)
         /\ awaiting' \in Nat /\ awaiting' <= n
         /\ awaiting' = 0 => NextCall
         /\ awaiting' > 0 => n > 0 /\ UNCHANGED <<user, call, byte>>
         /\ \E k \in 0..n : /\ WordBytes * k <= Len(box) /\ awaiting' = n - k
                            /\ told' = told \o Words(box, k)
                            /\ inbox' = SubSeq(box, WordBytes * k + 1, Len(box))
<1> DEFINE k == IF n * WordBytes <= Len(box) THEN n ELSE Len(box) \div WordBytes
<1>1. k \in 0..n /\ WordBytes * k <= Len(box)
  BY Divides
<1>2. /\ inbox' = SubSeq(box, k * WordBytes + 1, Len(box)) /\ awaiting' = n - k
      /\ told' = told \o Words(box, k)
      /\ IF k = n THEN NextCall ELSE UNCHANGED <<user, call, byte>>
  BY Zenon DEF Read, Words
<1> HIDE DEF k
<1>3. k * WordBytes = WordBytes * k
  BY <1>1
<1>4. Words(box, k) \in Seq(Said) /\ inbox' \in Seq(RxByte)
  BY <1>1, <1>2, <1>3, WordsTyped
<1>5. told' \in Seq(Said)
  BY <1>2, <1>4
<1> QED
  BY <1>1, <1>2, <1>3, <1>4, <1>5

\* Every clock of the host but an exception.
LEMMA Boxes ==
  ASSUME inbox \in Seq(RxByte), tx_data \in RxByte
  PROVE  /\ inbox \o Arrived \in Seq(RxByte) /\ Opened \o Arrived \in Seq(RxByte)
         /\ Arrived \in Seq(RxByte)
<1>1. Arrived \in Seq(RxByte) /\ Opened \in Seq(RxByte)
  BY DEF Arrived, Opened
<1> QED
  BY <1>1

\* The frames on the line, by the host.
LEMMA HostIdle ==
  ASSUME NEW rx, Host(rx), idle \in 0..PauseCycles
  PROVE  /\ idle' \in 0..PauseCycles
         /\ \/ idle' = 0
            \/ rx = NoByte /\ ~LineBusy /\ ~Paused /\ idle' = idle + 1
            \/ rx = NoByte /\ Paused /\ idle' = idle
<1>1. Deliver(rx) => idle' = 0
  BY DEF Deliver
<1>2. Listen => \/ idle' = 0
                \/ ~LineBusy /\ ~Paused /\ idle' = idle + 1
                \/ Paused /\ idle' = idle
  BY DEF Listen
<1>3. Silence(rx) \/ Reject(rx) => rx = NoByte /\ Listen
  BY DEF Silence, Reject
<1>4. ReadTimeout(rx) => rx = NoByte /\ Paused /\ idle' = idle
  BY DEF ReadTimeout
<1>5. idle + 1 \in 0..PauseCycles \/ Paused
  BY LinkSizes DEF Paused
<1>6. 0 \in 0..PauseCycles
  BY LinkSizes
<1> QED
  BY <1>1, <1>2, <1>3, <1>4, <1>5, <1>6 DEF Host

\* After a pause the debugger is in CMD_IDLE, whatever went before.
LEMMA PausedIdle == ASSUME Inv, TxInv, IdleBound, Paused PROVE state = "CMD_IDLE" /\ Silent
<1>1. rx_timeout_cnt \in 0..TimeoutCycles /\ tx_left \in 0..TxCycles /\ state \in States /\ tx_en \in BOOLEAN
  BY DEF Inv, TypeOK, CountsTyped, FlagsTyped
<1>2. idle \in Nat /\ idle > TimeoutCycles /\ idle > 3
  BY LinkSizes DEF Paused
<1>3. state = "CMD_IDLE"
  BY <1>1, <1>2 DEF IdleBound, States, WaitStates, MemStates, MmioStates, SendStates
<1> QED
  BY <1>1, <1>3 DEF TxInv, Silent

\* The line is never silent for long while the debugger is in a command.
LEMMA IdleBoundStep ==
  ASSUME Inv, Inv', TxInv, IdleBound, idle \in 0..PauseCycles,
         NEW rx \in Byte \cup {NoByte}, Host(rx), Clock(rx)
  PROVE  IdleBound'
<1> USE DEF IdleBound, Goto, WaitStates
<1>1. /\ rx_timeout_cnt \in 0..TimeoutCycles /\ tx_left \in 0..TxCycles /\ state \in States /\ tx_en \in BOOLEAN
      /\ rx_timeout_cnt' \in 0..TimeoutCycles /\ idle \in Nat
  BY DEF Inv, TypeOK, CountsTyped, FlagsTyped
<1>2. \/ idle' = 0
      \/ rx = NoByte /\ ~LineBusy /\ ~Paused /\ idle' = idle + 1
      \/ rx = NoByte /\ Paused /\ idle' = idle
  BY HostIdle
<1>3. CASE idle' = 0
  BY <1>1, <1>3
<1>4. CASE rx = NoByte /\ Paused
  <2>1. state = "CMD_IDLE" /\ Ignore(rx)
    BY <1>4, PausedIdle, ClockAt, NoByteIgnored
  <2> QED
    BY <2>1 DEF Ignore
<1>5. CASE rx = NoByte /\ ~LineBusy /\ idle' = idle + 1
  <2>1. CASE state = "CMD_IDLE"
    <3>1. state' = "CMD_IDLE"
      BY <1>5, <2>1, ClockAt, NoByteIgnored DEF Ignore
    <3> QED
      BY <3>1
  <2>2. CASE state \in WaitStates
    <3>1. AwaitByte(rx)
      BY <1>5, <2>2, ClockAt, WaitAt
    <3>2. state' = "CMD_IDLE" \/ (state' = state /\ rx_timeout_cnt' = rx_timeout_cnt + 1)
      BY <1>1, <3>1 DEF AwaitByte, TimedOut, FreeRun
    <3> QED
      BY <1>1, <1>5, <2>2, <3>2
  <2>3. CASE state \in {"STEP_ASSERT", "STEP_DEASSERT", "MEM_WRITE_PULSE", "MEM_READ_WAIT", "MMIO_READ_WAIT",
                        "MEM_READ_LATCH", "MMIO_READ_LATCH"}
    <3>1. StepAssert \/ StepDeassert \/ MemWritePulse \/ ReadWait \/ ReadLatch
      BY <2>3, ClockAt
    <3> QED
      BY <1>1, <1>5, <2>3, <3>1 DEF StepAssert, StepDeassert, MemWritePulse, ReadWait, ReadLatch
  <2>4. CASE state = "SEND_LOAD"
    BY <1>1, <1>5, <2>4, ClockAt DEF SendLoad
  <2>5. CASE state = "SEND_BYTE_START"
    <3>1. SendByteStart
      BY <2>5, ClockAt
    <3>2. state' = "SEND_BYTE_WAIT_BUSY" \/ (state' = "SEND_BYTE_START" /\ tx_left > 0)
      BY <2>5, <3>1 DEF SendByteStart, tx_busy
    <3>3. ~(tx_left > 0)
      BY <2>5 DEF TxInv
    <3> QED
      BY <1>1, <1>5, <2>5, <3>2, <3>3
  <2>6. CASE state = "SEND_BYTE_WAIT_BUSY"
    BY <1>1, <1>5, <2>6, LinkSizes DEF TxInv, LineBusy
  <2>7. CASE state = "SEND_BYTE_WAIT_DONE"
    BY <1>1, <1>5, <2>7, ClockAt DEF SendByteWaitDone, LineBusy, tx_busy
  <2> QED
    BY <1>1, <2>1, <2>2, <2>3, <2>4, <2>5, <2>6, <2>7 DEF States, MemStates, MmioStates, SendStates
<1> QED
  BY <1>2, <1>3, <1>4, <1>5

-----------------------------------------------------------------------------
(* A call. *)
Ops == CMD_HALT..CMD_READ_MMIO

\* The command codes are ten distinct bytes.
LEMMA OpsAre ==
  /\ Ops = {1, 2, 3, 4, 5, 6, 7, 8, 9, 10} /\ Ops \subseteq Byte
  /\ CMD_HALT = 1 /\ CMD_RESUME = 2 /\ CMD_STEP = 3 /\ CMD_READ_REG = 4 /\ CMD_READ_PC = 5
  /\ CMD_READ_ALL = 6 /\ CMD_WRITE_MEM = 7 /\ CMD_READ_MEM = 8 /\ CMD_READ_CSR = 9 /\ CMD_READ_MMIO = 10
<1>1. /\ CMD_HALT = 1 /\ CMD_RESUME = 2 /\ CMD_STEP = 3 /\ CMD_READ_REG = 4 /\ CMD_READ_PC = 5
      /\ CMD_READ_ALL = 6 /\ CMD_WRITE_MEM = 7 /\ CMD_READ_MEM = 8 /\ CMD_READ_CSR = 9 /\ CMD_READ_MMIO = 10
  BY DEF CMD_HALT, CMD_RESUME, CMD_STEP, CMD_READ_REG, CMD_READ_PC, CMD_READ_ALL, CMD_WRITE_MEM,
         CMD_READ_MEM, CMD_READ_CSR, CMD_READ_MMIO
<1>2. Ops = 1..10
  BY <1>1 DEF Ops
<1>3. Ops \subseteq Byte
  BY <1>2, LinkSizes
<1>4. Ops = {1, 2, 3, 4, 5, 6, 7, 8, 9, 10}
  BY <1>2
<1> QED
  BY <1>1, <1>3, <1>4

\* The words each command is answered with.
LEMMA WantedIs ==
  ASSUME NEW c
  PROVE  /\ c.op = CMD_READ_ALL =>
              /\ Len(Wanted(c)) = NumRegs + 1 /\ DOMAIN Wanted(c) = 1 .. NumRegs + 1
              /\ \A i \in 1 .. NumRegs + 1 :
                   Wanted(c)[i] = IF i <= NumRegs THEN Origin("reg", <<i - 1>>) ELSE Origin("pc", <<>>)
         /\ c.op \in {CMD_READ_REG, CMD_READ_PC, CMD_READ_CSR, CMD_READ_MEM, CMD_READ_MMIO} =>
              Len(Wanted(c)) = 1 /\ DOMAIN Wanted(c) = 1..1
         /\ c.op = CMD_READ_REG  => Wanted(c)[1] = Origin("reg", <<c.arg[1] % NumRegs>>)
         /\ c.op = CMD_READ_PC   => Wanted(c)[1] = Origin("pc", <<>>)
         /\ c.op = CMD_READ_CSR  => Wanted(c)[1] = Origin("csr", c.arg)
         /\ c.op = CMD_READ_MEM  => Wanted(c)[1] = Origin("mem", c.arg)
         /\ c.op = CMD_READ_MMIO => Wanted(c)[1] = Origin("mmio", c.arg)
         /\ c.op \in {CMD_HALT, CMD_RESUME, CMD_STEP, CMD_WRITE_MEM} => Wanted(c) = <<>>
<1> USE OpsAre
<1>1. CASE c.op = CMD_READ_ALL
  <2>1. Wanted(c) = [i \in 1 .. NumRegs + 1 |->
                       IF i <= NumRegs THEN Origin("reg", <<i - 1>>) ELSE Origin("pc", <<>>)]
    BY <1>1 DEF Wanted
  <2>2. NumRegs + 1 \in Nat
    OBVIOUS
  <2> QED
    BY <1>1, <2>1, <2>2
<1>2. CASE c.op \in {CMD_READ_REG, CMD_READ_PC, CMD_READ_CSR, CMD_READ_MEM, CMD_READ_MMIO}
  <2>1. /\ c.op = CMD_READ_REG  => Wanted(c) = <<Origin("reg", <<c.arg[1] % NumRegs>>)>>
        /\ c.op = CMD_READ_PC   => Wanted(c) = <<Origin("pc", <<>>)>>
        /\ c.op = CMD_READ_CSR  => Wanted(c) = <<Origin("csr", c.arg)>>
        /\ c.op = CMD_READ_MEM  => Wanted(c) = <<Origin("mem", c.arg)>>
        /\ c.op = CMD_READ_MMIO => Wanted(c) = <<Origin("mmio", c.arg)>>
    <3>1. c.op = CMD_READ_REG => Wanted(c) = <<Origin("reg", <<c.arg[1] % NumRegs>>)>>
      BY DEF Wanted
    <3>2. c.op = CMD_READ_PC => Wanted(c) = <<Origin("pc", <<>>)>>
      BY DEF Wanted
    <3>3. c.op = CMD_READ_CSR => Wanted(c) = <<Origin("csr", c.arg)>>
      BY DEF Wanted
    <3>4. c.op = CMD_READ_MEM => Wanted(c) = <<Origin("mem", c.arg)>>
      BY DEF Wanted
    <3>5. c.op = CMD_READ_MMIO => Wanted(c) = <<Origin("mmio", c.arg)>>
      BY DEF Wanted
    <3> QED
      BY <3>1, <3>2, <3>3, <3>4, <3>5
  <2>2. \A o : Len(<<o>>) = 1 /\ DOMAIN <<o>> = 1..1 /\ <<o>>[1] = o
    OBVIOUS
  <2> QED
    BY <1>2, <2>1, <2>2
<1>3. c.op \in {CMD_HALT, CMD_RESUME, CMD_STEP, CMD_WRITE_MEM} => Wanted(c) = <<>>
  <2>1. c.op = CMD_HALT => Wanted(c) = <<>>
    BY DEF Wanted
  <2>2. c.op = CMD_RESUME => Wanted(c) = <<>>
    BY DEF Wanted
  <2>3. c.op = CMD_STEP => Wanted(c) = <<>>
    BY DEF Wanted
  <2>4. c.op = CMD_WRITE_MEM => Wanted(c) = <<>>
    BY DEF Wanted
  <2> QED
    BY <2>1, <2>2, <2>3, <2>4
<1> QED
  BY <1>1, <1>2, <1>3

\* Their number.
LEMMA WantedLen ==
  ASSUME NEW c
  PROVE  /\ c.op = CMD_READ_ALL => Len(Wanted(c)) = NumRegs + 1
         /\ c.op \in {CMD_READ_REG, CMD_READ_PC, CMD_READ_CSR, CMD_READ_MEM, CMD_READ_MMIO} =>
              Len(Wanted(c)) = 1
         /\ c.op \in {CMD_HALT, CMD_RESUME, CMD_STEP, CMD_WRITE_MEM} => Len(Wanted(c)) = 0
<1>1. Len(<<>>) = 0
  OBVIOUS
<1> QED
  BY <1>1, WantedIs, Zenon

\* The bytes of a well-formed call; the host awaits as many words as are sent.
LEMMA CallTyped ==
  ASSUME NEW c, WellFormed(c), c.err = "none"
  PROVE  /\ c.op \in Ops /\ c.arg \in Seq(Byte) /\ Len(c.arg) = ArgLen(c.op)
         /\ Len(Wire(c)) = 1 + Len(c.arg) /\ Wire(c)[1] = c.op
         /\ \A i \in 2 .. Len(Wire(c)) : Wire(c)[i] = c.arg[i - 1] /\ Wire(c)[i] \in Byte
         /\ WordsAwaited(c) = Len(Wanted(c)) /\ WordsAwaited(c) \in Nat
<1>1. c.op \in Ops /\ c.arg \in [1..ArgLen(c.op) -> Byte]
  BY DEF WellFormed, Ops
<1>2. ArgLen(c.op) \in Nat
  BY LinkSizes DEF ArgLen
<1>3. c.arg \in Seq(Byte) /\ Len(c.arg) = ArgLen(c.op)
  BY <1>1, <1>2
<1>4. <<c.op>> \in Seq(Byte)
  BY <1>1, OpsAre
<1>5. /\ Len(Wire(c)) = 1 + Len(c.arg) /\ Wire(c)[1] = c.op
      /\ \A i \in 2 .. Len(Wire(c)) : Wire(c)[i] = c.arg[i - 1]
  BY <1>3, <1>4 DEF Wire
<1>6. \A i \in 2 .. Len(Wire(c)) : c.arg[i - 1] \in Byte
  BY <1>3, <1>5
<1>7. WordsAwaited(c) = Len(Wanted(c)) /\ WordsAwaited(c) \in Nat
  <2>1. CASE c.op = CMD_READ_ALL
    <3>1. WordsAwaited(c) = NumRegs + 1
      BY <2>1, OpsAre DEF WordsAwaited
    <3> QED
      BY <2>1, <3>1, WantedLen
  <2>2. CASE c.op \in {CMD_READ_REG, CMD_READ_PC, CMD_READ_CSR, CMD_READ_MEM, CMD_READ_MMIO}
    <3>1. WordsAwaited(c) = 1
      BY <2>2, OpsAre DEF WordsAwaited
    <3> QED
      BY <2>2, <3>1, WantedLen
  <2>3. CASE c.op \in {CMD_HALT, CMD_RESUME, CMD_STEP, CMD_WRITE_MEM}
    <3>1. WordsAwaited(c) = 0
      BY <2>3, OpsAre DEF WordsAwaited
    <3> QED
      BY <2>3, <3>1, WantedLen
  <2> QED
    BY <1>1, <2>1, <2>2, <2>3, OpsAre
<1> QED
  BY <1>1, <1>3, <1>5, <1>6, <1>7

-----------------------------------------------------------------------------
(* The host stays in its script.                                            *)
\* A position in the script.
At(n, u, k, b) ==
  u <= Len(Sessions[n].todo) =>
    /\ k \in DOMAIN Plans[n][u]
    /\ Plans[n][u][k].err = "none" => b \in 1 .. Len(Wire(Plans[n][u][k]))

\* The beginning of a command's plan is a position in the script.
LEMMA Starts ==
  ASSUME NEW n \in DOMAIN Sessions, NEW u \in Nat, u >= 1 PROVE At(n, u, 1, 1)
<1> SUFFICES ASSUME u <= Len(Sessions[n].todo)
             PROVE  /\ 1 \in DOMAIN Plans[n][u]
                    /\ Plans[n][u][1].err = "none" => 1 \in 1 .. Len(Wire(Plans[n][u][1]))
  BY DEF At
<1>1. u \in 1 .. Len(Sessions[n].todo)
  BY TodoTyped
<1>2. 1 \in DOMAIN Plans[n][u] /\ WellFormed(Plans[n][u][1])
  <2>1. /\ Len(Plans[n][u]) \in Nat /\ Len(Plans[n][u]) > 0 /\ DOMAIN Plans[n][u] = 1 .. Len(Plans[n][u])
        /\ \A i \in 1 .. Len(Plans[n][u]) : WellFormed(Plans[n][u][i])
    BY <1>1, PlanTyped
  <2>2. 1 \in 1 .. Len(Plans[n][u])
    BY <2>1
  <2> QED
    BY <2>1, <2>2
<1> DEFINE c == Plans[n][u][1]
<1>3. c.err = "none" => Len(c.arg) \in Nat /\ Len(Wire(c)) = 1 + Len(c.arg)
  <2> HIDE DEF c
  <2> QED
    BY <1>2, CallTyped DEF c
<1> QED
  BY <1>2, <1>3

\* ... and so is the first byte of each of its calls.
LEMMA Continues ==
  ASSUME NEW n \in DOMAIN Sessions, NEW u \in 1 .. Len(Sessions[n].todo), NEW k \in 1 .. Len(Plans[n][u])
  PROVE  At(n, u, k, 1)
<1>1. k \in DOMAIN Plans[n][u] /\ WellFormed(Plans[n][u][k])
  BY PlanTyped
<1> DEFINE c == Plans[n][u][k]
<1>2. c.err = "none" => Len(c.arg) \in Nat /\ Len(Wire(c)) = 1 + Len(c.arg)
  <2> HIDE DEF c
  <2> QED
    BY <1>1, CallTyped DEF c
<1> QED
  BY <1>1, <1>2 DEF At

\* What HostTyped and Placed say of the call under way.
LEMMA HereTyped ==
  ASSUME HostTyped, Placed, ~Sent
  PROVE  /\ session \in DOMAIN Sessions /\ user \in 1 .. Len(Todo) /\ Len(Todo) \in Nat
         /\ Len(Plan) \in Nat /\ Len(Plan) > 0 /\ call \in 1 .. Len(Plan) /\ WellFormed(Here)
         /\ Here.err = "none" => byte \in 1 .. Len(Wire(Here))
<1>1. session \in DOMAIN Sessions /\ Len(Todo) \in Nat
  BY TodoTyped DEF HostTyped, Todo
<1>2. user \in 1 .. Len(Todo)
  BY <1>1 DEF HostTyped, Sent
<1>3. call \in DOMAIN Plan /\ (Here.err = "none" => byte \in 1 .. Len(Wire(Here)))
  BY DEF Placed
<1>4. /\ Len(Plan) \in Nat /\ Len(Plan) > 0 /\ DOMAIN Plan = 1 .. Len(Plan)
      /\ \A i \in 1 .. Len(Plan) : WellFormed(Plan[i])
  BY <1>1, <1>2, PlanTyped DEF Plan, Todo
<1> QED
  BY <1>1, <1>2, <1>3, <1>4 DEF Here

\* The next call is a position in the script, or the script is at its end.
LEMMA NextCallAt ==
  ASSUME HostTyped, Placed, ~Sent, NextCall
  PROVE  /\ At(session, user', call', byte') /\ user' \in 1 .. Len(Todo) + 1
         /\ call' \in Nat /\ byte' \in Nat
<1>1. CASE call < Len(Plan)
  <2>1. byte' = 1 /\ call' = call + 1 /\ user' = user /\ call + 1 \in 1 .. Len(Plan)
    BY <1>1, HereTyped DEF NextCall
  <2> QED
    BY <2>1, HereTyped, Continues DEF Plan, Todo
<1>2. CASE ~(call < Len(Plan))
  <2>1. byte' = 1 /\ call' = 1 /\ user' = user + 1
    BY <1>2 DEF NextCall
  <2> QED
    BY <2>1, HereTyped, Starts DEF Todo
<1> QED
  BY <1>1, <1>2

\* A sequence of one element.
LEMMA Single == ASSUME NEW S, NEW x \in S PROVE <<x>> \in Seq(S)
  OBVIOUS

\* So is where the host goes on after an exception.
LEMMA RaiseAt ==
  ASSUME HostTyped, Placed, ~Sent, NEW e, Raise(e), e \in Errors
  PROVE  /\ At(session, user', call', byte') /\ user' \in 1 .. Len(Todo) + 1
         /\ call' \in Nat /\ byte' \in Nat /\ told' \in Seq(Said)
<1>1. /\ call' = 1 /\ byte' = 1 /\ user' = (IF Tools!EndsSession(Tool, e) THEN Len(Todo) + 1 ELSE user + 1)
      /\ told' = Append(told, Says(user, <<e>>))
  BY DEF Raise
<1>2. user' \in 1 .. Len(Todo) + 1 /\ user' >= 1 /\ user' \in Nat
  BY <1>1, HereTyped
<1>3. Says(user, <<e>>) \in Said
  <2>1. <<e>> \in Seq(Errors)
    BY Single
  <2> QED
    BY <2>1, HereTyped DEF Says, Said
<1>4. told' \in Seq(Said)
  BY <1>1, <1>3 DEF HostTyped
<1> QED
  BY <1>1, <1>2, <1>4, HereTyped, Starts

\* The host waits for words only after the last byte of a call that has some.
Waits(n, u, k, b, a) ==
  a > 0 => /\ u <= Len(Sessions[n].todo) /\ Plans[n][u][k].err = "none"
           /\ b = Len(Wire(Plans[n][u][k])) /\ a <= WordsAwaited(Plans[n][u][k])

\* Placed says where the host is and that it waits only after a last byte.
LEMMA PlacedIs ==
  ASSUME HostTyped
  PROVE  Placed <=> At(session, user, call, byte) /\ Waits(session, user, call, byte, awaiting)
<1>1. user \in Nat /\ Len(Sessions[session].todo) \in Nat
  BY TodoTyped DEF HostTyped, Todo
<1> QED
  BY <1>1 DEF Placed, At, Waits, Sent, Todo, Plan, Here

\* The elements of a sequence.
LEMMA AtSeq == ASSUME NEW S, NEW s \in Seq(S), NEW i \in 1 .. Len(s) PROVE s[i] \in S
  OBVIOUS

\* A function on 1..n is a sequence.
LEMMA WordSeq == ASSUME NEW S, NEW n \in Nat, NEW f \in [1..n -> S] PROVE f \in Seq(S)
  OBVIOUS

\* The argument registers hold sequences of numbers.
LEMMA ArgsAre ==
  ASSUME TypeOK
  PROVE  mem_addr \in Seq(Nat) /\ mem_wdata \in Seq(Nat) /\ mmio_addr \in Seq(Nat) /\ csr_addr_pending \in Seq(Nat)
<1>1. Byte \cup {0} \subseteq Nat
  BY LinkSizes
<1>2. /\ mem_addr \in [1..WordBytes -> Nat] /\ mem_wdata \in [1..WordBytes -> Nat]
      /\ mmio_addr \in [1..WordBytes -> Nat] /\ csr_addr_pending \in [1..CsrBytes -> Nat]
  BY <1>1 DEF TypeOK, ArgsTyped
<1> QED
  BY <1>2, WordSeq

\* A source of words.
LEMMA OriginTyped == ASSUME NEW s \in {"zero", "reg", "pc", "csr", "mem", "mmio"}, NEW a \in Seq(Nat) PROVE Origin(s, a) \in Source
  BY DEF Origin, Source

\* cur_word and tx_data stay a source and a byte of one.
LEMMA WordsKept ==
  ASSUME Inv, cur_word \in Source, tx_data \in RxByte, NEW rx, Clock(rx)
  PROVE  cur_word' \in Source /\ tx_data' \in RxByte
<1>1. tx_data' \in RxByte
  <2>1. CASE state = "SEND_BYTE_START"
    <3>1. SendByteStart
      BY <2>1, ClockAt
    <3>2. byte_sel \in Nat
      BY DEF Inv, TypeOK, CountsTyped
    <3> QED
      BY <3>1, <3>2 DEF SendByteStart, RxByte
  <2> QED
    BY <2>1, ClockTx
<1>2. cur_word' \in Source
  <2>1. CASE state \in {"MEM_READ_LATCH", "MMIO_READ_LATCH"}
    <3>1. ReadLatch
      BY <2>1, ClockAt
    <3>2. Origin("mem", mem_addr) \in Source /\ Origin("mmio", mmio_addr) \in Source
      <4>1. {"mem", "mmio"} \subseteq {"zero", "reg", "pc", "csr", "mem", "mmio"}
        OBVIOUS
      <4>2. mem_addr \in Seq(Nat) /\ mmio_addr \in Seq(Nat)
        BY ArgsAre DEF Inv
      <4> QED
        BY <4>1, <4>2, OriginTyped
    <3> QED
      BY <3>1, <3>2 DEF ReadLatch
  <2>2. CASE state = "SEND_LOAD"
    <3>1. SendLoad
      BY <2>2, ClockAt
    <3>2. <<word_sel>> \in Seq(Nat)
      <4>1. word_sel \in Nat
        BY DEF Inv, TypeOK, CountsTyped
      <4> QED
        BY <4>1, Single
    <3>3. /\ Origin("csr", csr_addr_pending) \in Source /\ Origin("reg", <<word_sel>>) \in Source
          /\ Origin("pc", <<>>) \in Source
      <4>1. {"csr", "reg", "pc"} \subseteq {"zero", "reg", "pc", "csr", "mem", "mmio"}
        OBVIOUS
      <4>3. <<>> \in Seq(Nat)
        OBVIOUS
      <4>2. csr_addr_pending \in Seq(Nat)
        BY ArgsAre DEF Inv
      <4> QED
        BY <3>2, <4>1, <4>2, <4>3, OriginTyped
    <3> QED
      BY <3>1, <3>3 DEF SendLoad
  <2>3. CASE state \notin {"MEM_READ_LATCH", "MMIO_READ_LATCH", "SEND_LOAD"}
    <3> USE <2>3
    <3>1. CASE Idle(rx)
      BY <3>1 DEF Idle, Halt, Resume, Step, ReadReg, ReadCore, ReadCsr, AccessMem, ReadMmio, Ignore, replyVars
    <3>2. CASE Argument(rx)
      BY <3>2 DEF Argument, TakeRegIndex, TakeCsrByte, TakeMemAddr, TakeMemData, TakeMmioAddr, AwaitByte, replyVars
    <3>3. CASE Execute
      BY <3>3 DEF Execute, StepAssert, StepDeassert, MemWritePulse, ReadWait, ReadLatch, replyVars
    <3>4. CASE Reply
      BY <3>4 DEF Reply, SendLoad, SendByteStart, SendByteWaitBusy, SendByteWaitDone, replyVars
    <3> QED
      BY <3>1, <3>2, <3>3, <3>4 DEF Clock
  <2> QED
    BY <2>1, <2>2, <2>3
<1> QED
  BY <1>1, <1>2

\* What the debugger does in a clock is a sequence of events.
LEMMA DidTyped ==
  ASSUME Inv, tx_data \in RxByte, NEW rx
  PROVE  Did(rx) \in Seq(Event)
<1>1. <<"halt">> \in Event /\ <<"resume">> \in Event /\ <<"step">> \in Event
  BY DEF Event
<1>2. <<"write", mem_addr, mem_wdata>> \in Event
  BY ArgsAre DEF Event, Inv
<1>3. <<"reply", tx_data[1], tx_data[2]>> \in Event
  BY DEF Event, RxByte
<1>4. /\ <<<<"halt">>>> \in Seq(Event) /\ <<<<"resume">>>> \in Seq(Event) /\ <<<<"step">>>> \in Seq(Event)
      /\ <<<<"write", mem_addr, mem_wdata>>>> \in Seq(Event)
      /\ <<<<"reply", tx_data[1], tx_data[2]>>>> \in Seq(Event)
  BY <1>1, <1>2, <1>3, Single
<1>5. <<>> \in Seq(Event)
  OBVIOUS
<1> QED
  BY <1>4, <1>5, Zenon DEF Did

\* What a host action keeps.
HostKept ==
  /\ session' = session /\ user' \in 1 .. Len(Todo) + 1 /\ call' \in Nat /\ byte' \in Nat
  /\ gap' \in Nat /\ awaiting' \in Nat /\ lost' \in Nat
  /\ inbox' \in Seq(RxByte) /\ told' \in Seq(Said)
  /\ At(session, user', call', byte') /\ Waits(session, user', call', byte', awaiting')

\* Reading keeps the host in its script.
LEMMA ReadKept ==
  ASSUME HostTyped, Placed, ~Sent, Here.err = "none", byte = Len(Wire(Here)),
         NEW box \in Seq(RxByte), NEW n \in Nat, n <= WordsAwaited(Here), Read(box, n)
  PROVE  /\ user' \in 1 .. Len(Todo) + 1 /\ call' \in Nat /\ byte' \in Nat /\ awaiting' \in Nat
         /\ inbox' \in Seq(RxByte) /\ told' \in Seq(Said)
         /\ At(session, user', call', byte') /\ Waits(session, user', call', byte', awaiting')
<1>1. user \in Nat /\ told \in Seq(Said) /\ user \in 1 .. Len(Todo) + 1 /\ call \in Nat /\ byte \in Nat
  BY HereTyped DEF HostTyped
<1>2. /\ inbox' \in Seq(RxByte) /\ told' \in Seq(Said)
      /\ awaiting' \in Nat /\ awaiting' <= n
      /\ awaiting' = 0 => NextCall
      /\ awaiting' > 0 => UNCHANGED <<user, call, byte>>
  BY <1>1, ReadStep
<1>3. CASE awaiting' = 0
  BY <1>2, <1>3, NextCallAt DEF Waits
<1>4. CASE awaiting' > 0
  <2>1. At(session, user', call', byte')
    BY <1>2, <1>4, PlacedIs
  <2>2. awaiting' <= WordsAwaited(Here) /\ user <= Len(Todo)
    BY <1>2, HereTyped, CallTyped
  <2> QED
    BY <1>1, <1>2, <1>4, <2>1, <2>2 DEF Waits, Here, Plan, Todo
<1> QED
  BY <1>2, <1>3, <1>4

\* A gap is at least one clock.
LEMMA GapLeft == ASSUME gap' \in {g - 1 : g \in Gaps} PROVE gap' \in Nat
<1>1. PICK g \in Gaps : gap' = g - 1
  OBVIOUS
<1> QED
  BY <1>1, LinkSizes

\* Each action of the host keeps it in its script: a byte,
LEMMA DeliverKept == ASSUME HostTyped, Placed, NEW rx, Deliver(rx) PROVE HostKept
<1>1. ~Sent /\ awaiting = 0 /\ Here.err = "none" /\ session' = session /\ gap' \in {g - 1 : g \in Gaps}
  BY DEF Deliver, MaySend
<1>2. gap' \in Nat
  BY <1>1, GapLeft
<1>3. lost' \in Nat
  BY DEF Deliver, HostTyped
<1>4. Opened \o Arrived \in Seq(RxByte)
  BY Boxes DEF HostTyped
<1>5. CASE byte = Len(Wire(Here))
  <2>1. Read(Opened \o Arrived, WordsAwaited(Here))
    BY <1>5, Zenon DEF Deliver
  <2>2. WordsAwaited(Here) \in Nat
    BY <1>1, HereTyped, CallTyped
  <2>3. WordsAwaited(Here) <= WordsAwaited(Here)
    BY <2>2
  <2>4. /\ user' \in 1 .. Len(Todo) + 1 /\ call' \in Nat /\ byte' \in Nat /\ awaiting' \in Nat
        /\ inbox' \in Seq(RxByte) /\ told' \in Seq(Said)
        /\ At(session, user', call', byte') /\ Waits(session, user', call', byte', awaiting')
    BY <1>1, <1>4, <1>5, <2>1, <2>2, <2>3, ReadKept
  <2> QED
    BY <1>1, <1>2, <1>3, <2>4 DEF HostKept
<1>6. CASE byte # Len(Wire(Here))
  <2>1. byte' = byte + 1 /\ inbox' = Opened \o Arrived /\ UNCHANGED <<user, call, awaiting, told>>
    BY <1>6, Zenon DEF Deliver
  <2>2. byte + 1 \in 1 .. Len(Wire(Here))
    BY <1>1, <1>6, HereTyped, CallTyped
  <2>3. At(session, user', call', byte')
    BY <2>1, <2>2, PlacedIs DEF At, Here, Plan
  <2>4. Waits(session, user', call', byte', awaiting')
    BY <1>1, <2>1 DEF Waits
  <2> QED
    BY <1>1, <1>2, <1>3, <1>4, <2>1, <2>3, <2>4 DEF HostKept, HostTyped
<1> QED
  BY <1>5, <1>6

\* ... none,
LEMMA SilenceKept == ASSUME HostTyped, Placed, NEW rx, Silence(rx) PROVE HostKept
<1>1. session' = session /\ lost' = lost /\ ~(MaySend /\ gap = 0) /\ gap' = (IF MaySend THEN gap - 1 ELSE gap)
  BY DEF Silence
<1>2. gap' \in Nat
  BY <1>1 DEF HostTyped
<1>3. inbox \o Arrived \in Seq(RxByte)
  BY Boxes DEF HostTyped
<1>4. CASE awaiting > 0
  <2>1. Read(inbox \o Arrived, awaiting)
    BY <1>4, Zenon DEF Silence
  <2>2. ~Sent /\ Here.err = "none" /\ byte = Len(Wire(Here)) /\ awaiting <= WordsAwaited(Here) /\ awaiting \in Nat
    BY <1>4 DEF Placed, HostTyped
  <2> QED
    BY <1>1, <1>2, <1>3, <2>1, <2>2, ReadKept DEF HostKept, HostTyped
<1>5. CASE ~(awaiting > 0)
  <2>1. inbox' = inbox \o Arrived /\ UNCHANGED <<user, call, byte, awaiting, told>>
    BY <1>5, Zenon DEF Silence
  <2> QED
    BY <1>1, <1>2, <1>3, <1>5, <2>1, PlacedIs DEF HostKept, HostTyped
<1> QED
  BY <1>4, <1>5

\* ... an argument that is rejected,
LEMMA RejectKept == ASSUME HostTyped, Placed, NEW rx, Reject(rx) PROVE HostKept
<1>1. ~Sent /\ awaiting = 0 /\ Raise(Here.err) /\ inbox' = inbox \o Arrived
      /\ UNCHANGED <<session, gap, awaiting, lost>>
  BY DEF Reject, Raising
<1>2. Here.err \in Errors
  <2>1. session \in DOMAIN Sessions /\ user \in DOMAIN Plans[session] /\ call \in DOMAIN Plans[session][user]
    BY <1>1, HereTyped, PlansAre, PlanTyped DEF Plan, Todo
  <2> QED
    BY <2>1 DEF Errors, Here, Plan
<1>3. inbox \o Arrived \in Seq(RxByte)
  BY Boxes DEF HostTyped
<1>4. /\ At(session, user', call', byte') /\ user' \in 1 .. Len(Todo) + 1
      /\ call' \in Nat /\ byte' \in Nat /\ told' \in Seq(Said)
  BY <1>1, <1>2, RaiseAt
<1>5. Waits(session, user', call', byte', awaiting')
  BY <1>1 DEF Waits
<1> QED
  BY <1>1, <1>3, <1>4, <1>5 DEF HostKept, HostTyped

\* ... and a read that times out.
LEMMA ReadTimeoutKept == ASSUME HostTyped, Placed, NEW rx, ReadTimeout(rx) PROVE HostKept
<1>1. awaiting > 0 /\ Raise("IOError") /\ inbox' = <<>> /\ awaiting' = 0
      /\ UNCHANGED <<session, gap, idle, lost>>
  BY DEF ReadTimeout
<1>2. "IOError" \in Errors
  BY DEF Errors
<1>6. ~Sent
  BY <1>1 DEF Placed
<1>3. /\ At(session, user', call', byte') /\ user' \in 1 .. Len(Todo) + 1
      /\ call' \in Nat /\ byte' \in Nat /\ told' \in Seq(Said)
  BY <1>1, <1>2, <1>6, RaiseAt
<1>4. Waits(session, user', call', byte', awaiting')
  BY <1>1 DEF Waits
<1>5. <<>> \in Seq(RxByte)
  OBVIOUS
<1> QED
  BY <1>1, <1>3, <1>4, <1>5 DEF HostKept, HostTyped

\* Every clock keeps the types of the host and its place in the script.
LEMMA PlacedStep ==
  ASSUME Inv, HostTyped, Placed, NEW rx \in Byte \cup {NoByte}, Host(rx), Clock(rx), log' = log \o Did(rx)
  PROVE  HostTyped' /\ Placed'
<1>1. HostKept
  BY DeliverKept, SilenceKept, RejectKept, ReadTimeoutKept DEF Host
<1>2. idle' \in 0..PauseCycles
  BY HostIdle DEF HostTyped
<1>3. cur_word' \in Source /\ tx_data' \in RxByte
  BY WordsKept DEF HostTyped
<1>4. log' \in Seq(Event)
  <2>1. Did(rx) \in Seq(Event)
    BY DidTyped DEF HostTyped
  <2> QED
    BY <2>1 DEF HostTyped
<1>5. HostTyped'
  <2>1. session' \in DOMAIN Sessions /\ user' \in 1 .. Len(Sessions[session'].todo) + 1
    BY <1>1 DEF HostKept, HostTyped, Todo
  <2> QED
    BY <1>1, <1>2, <1>3, <1>4, <2>1 DEF HostKept, HostTyped, Todo
<1>6. At(session', user', call', byte') /\ Waits(session', user', call', byte', awaiting')
  BY <1>1 DEF HostKept
<1>7. user' \in Nat /\ Len(Sessions[session'].todo) \in Nat
  BY <1>5, TodoTyped DEF HostTyped, Todo
<1>8. Placed'
  BY <1>6, <1>7 DEF Placed, At, Waits, Sent, Todo, Plan, Here
<1> QED
  BY <1>5, <1>8

-----------------------------------------------------------------------------
(* A HALT after a pause.                                                    *)
LEMMA HaltPlan ==
  ASSUME NEW n \in DOMAIN Sessions, NEW u \in 1 .. Len(Sessions[n].todo), Sessions[n].todo[u].cmd = "halt"
  PROVE  /\ Len(Plans[n][u]) = 1 /\ Plans[n][u][1].op = CMD_HALT
         /\ Plans[n][u][1].arg = <<>> /\ Plans[n][u][1].err = "none"
<1>1. Sessions[n].tool \in {"cli", "shell", "web"}
  BY DebugLinkAssumption
<1> DEFINE t == Sessions[n].tool
           v == Sessions[n].todo[u]
<1>2. Plans[n][u] = Tools!Calls(t, v)
  <2>1. Plans[n] = [w \in 1 .. Len(Sessions[n].todo) |-> Tools!Calls(Sessions[n].tool, Sessions[n].todo[w])]
    BY PlansAre
  <2> QED
    BY <2>1, Zenon
<1> HIDE DEF t, v
<1>3. Tools!Calls(t, v) = Tools!halt
  <2>1. v.cmd = "halt"
    BY DEF v
  <2>2. CASE t = "cli"
    BY <2>1, <2>2 DEF Tools!Calls, Tools!cli
  <2>3. CASE t = "shell"
    BY <2>1, <2>3 DEF Tools!Calls, Tools!shell
  <2>4. CASE t = "web"
    BY <2>1, <2>4 DEF Tools!Calls, Tools!web
  <2> QED
    BY <1>1, <2>2, <2>3, <2>4 DEF t
<1>4. Tools!halt = <<[op |-> 1, arg |-> <<>>, err |-> "none"]>>
  BY DEF Tools!halt, Tools!Sends, Tools!CMD
<1> QED
  BY <1>2, <1>3, <1>4, OpsAre

\* What the debugger does in a clock.
LEMMA DidAt ==
  ASSUME Inv, TxInv, NEW rx
  PROVE  /\ state = "CMD_IDLE" /\ rx = CMD_HALT => Did(rx) = <<<<"halt">>>>
         /\ state = "CMD_IDLE" /\ rx = CMD_RESUME => Did(rx) = <<<<"resume">>>>
         /\ state = "CMD_IDLE" /\ rx \notin {CMD_HALT, CMD_RESUME} => Did(rx) = <<>>
         /\ state = "STEP_ASSERT" => Did(rx) = <<<<"step">>>>
         /\ state = "MEM_WRITE_PULSE" => Did(rx) = <<<<"write", mem_addr, mem_wdata>>>>
         /\ state = "SEND_BYTE_WAIT_BUSY" /\ tx_en => Did(rx) = <<<<"reply", tx_data[1], tx_data[2]>>>>
         /\ state \notin {"CMD_IDLE", "STEP_ASSERT", "MEM_WRITE_PULSE"} /\ ~tx_en => Did(rx) = <<>>
<1>1. CMD_HALT # CMD_RESUME
  BY OpsAre
<1>2. tx_en => state = "SEND_BYTE_WAIT_BUSY" /\ ~tx_busy
  BY DEF TxInv, tx_busy
<1>3. state = "CMD_IDLE" /\ rx = CMD_HALT => Did(rx) = <<<<"halt">>>>
  BY <1>1, <1>2 DEF Did, dbg_mem_we
<1>4. state = "CMD_IDLE" /\ rx = CMD_RESUME => Did(rx) = <<<<"resume">>>>
  BY <1>1, <1>2 DEF Did, dbg_mem_we
<1>5. state = "CMD_IDLE" /\ rx \notin {CMD_HALT, CMD_RESUME} => Did(rx) = <<>>
  BY <1>1, <1>2 DEF Did, dbg_mem_we
<1>6. state = "STEP_ASSERT" => Did(rx) = <<<<"step">>>>
  BY <1>1, <1>2 DEF Did, dbg_mem_we
<1>7. state = "MEM_WRITE_PULSE" => Did(rx) = <<<<"write", mem_addr, mem_wdata>>>>
  BY <1>1, <1>2 DEF Did, dbg_mem_we
<1>8. state = "SEND_BYTE_WAIT_BUSY" /\ tx_en => Did(rx) = <<<<"reply", tx_data[1], tx_data[2]>>>>
  BY <1>1, <1>2 DEF Did, dbg_mem_we
<1>9. state \notin {"CMD_IDLE", "STEP_ASSERT", "MEM_WRITE_PULSE"} /\ ~tx_en => Did(rx) = <<>>
  BY <1>1, <1>2 DEF Did, dbg_mem_we
<1> QED
  BY <1>3, <1>4, <1>5, <1>6, <1>7, <1>8, <1>9

\* With nothing on the wire an idle debugger does nothing.
LEMMA StaysIdle ==
  ASSUME Inv, TxInv, HostTyped, state = "CMD_IDLE", NEW rx, rx = NoByte, Clock(rx), log' = log \o Did(rx)
  PROVE  /\ state' = "CMD_IDLE" /\ halt' = halt /\ log' = log /\ Did(rx) = <<>>
         /\ UNCHANGED <<replyVars, argVars>> /\ tx_en' = FALSE /\ Transmit
<1>1. Ignore(rx)
  BY ClockAt, NoByteIgnored
<1>2. Did(rx) = <<>>
  <2>1. rx # CMD_HALT /\ rx # CMD_RESUME
    BY OpsAre, DebugUartAssumption
  <2> QED
    BY <2>1, DidAt
<1>3. log \o <<>> = log
  BY DEF HostTyped
<1> QED
  BY <1>1, <1>2, <1>3 DEF Ignore, Quiet

\* The command under way ends, if nothing ends the session, with the next one.
LEMMA NextUser ==
  ASSUME HostTyped, Placed, ~Sent, StaysOpen, NEW rx, Host(rx)
  PROVE  \/ user' = user
         \/ user' = user + 1 /\ call' = 1 /\ byte' = 1 /\ awaiting' = 0
<1>1. ASSUME NEW box \in Seq(RxByte), NEW n \in Nat, Read(box, n)
      PROVE  \/ user' = user
             \/ user' = user + 1 /\ call' = 1 /\ byte' = 1 /\ awaiting' = 0
  <2>1. /\ awaiting' \in Nat /\ (awaiting' = 0 => NextCall) /\ (awaiting' > 0 => UNCHANGED <<user, call, byte>>)
    BY <1>1, ReadStep, HereTyped DEF HostTyped
  <2> QED
    BY <2>1 DEF NextCall
<1>2. ASSUME NEW e, Raise(e), ~Tools!EndsSession(Tool, e) PROVE user' = user + 1 /\ call' = 1 /\ byte' = 1
  BY <1>2 DEF Raise
<1>3. Opened \o Arrived \in Seq(RxByte) /\ inbox \o Arrived \in Seq(RxByte)
  BY Boxes DEF HostTyped
<1>4. CASE Deliver(rx)
  <2>1. \/ Read(Opened \o Arrived, WordsAwaited(Here))
        \/ user' = user
    BY <1>4, Zenon DEF Deliver
  <2>2. WordsAwaited(Here) \in Nat
    BY <1>4, HereTyped, CallTyped DEF Deliver, MaySend
  <2> QED
    BY <1>1, <1>3, <2>1, <2>2
<1>5. CASE Silence(rx)
  <2>1. Read(inbox \o Arrived, awaiting) \/ user' = user
    BY <1>5, Zenon DEF Silence
  <2> QED
    BY <1>1, <1>3, <2>1 DEF HostTyped
<1>6. CASE Reject(rx)
  <2>1. Raise(Here.err) /\ awaiting = 0 /\ awaiting' = awaiting
    BY <1>6 DEF Reject, Raising
  <2>2. ~Tools!EndsSession(Tool, Here.err)
    <3>1. user \in DOMAIN Plans[session] /\ call \in DOMAIN Plans[session][user]
      BY HereTyped, PlansAre, PlanTyped DEF Plan, Todo
    <3> QED
      BY <3>1 DEF StaysOpen, Here, Plan
  <2> QED
    BY <1>2, <2>1, <2>2
<1>7. CASE ReadTimeout(rx)
  <2>1. Raise("IOError") /\ awaiting' = 0
    BY <1>7 DEF ReadTimeout
  <2>2. ~Tools!EndsSession(Tool, "IOError")
    BY DEF Tools!EndsSession
  <2> QED
    BY <1>2, <2>1, <2>2
<1> QED
  BY <1>4, <1>5, <1>6, <1>7 DEF Host

\* A HALT after a pause finds CMD_IDLE, and nothing comes after it.
LEMMA HaltedStep ==
  ASSUME Inv, TxInv, IdleBound, HostTyped, Placed, Halted,
         NEW rx \in Byte \cup {NoByte}, Host(rx), Clock(rx), log' = log \o Did(rx)
  PROVE  Halted'
<1> DEFINE L == Len(Todo)
<1>1. session' = session
  BY DEF Host, Deliver, Silence, Reject, ReadTimeout
<1>2. Todo' = Todo /\ StaysOpen' = StaysOpen /\ L' = L
  BY <1>1 DEF Todo, StaysOpen, Tool
<1> SUFFICES ASSUME LastHalts
             PROVE  /\ user' = L => call' = 1 /\ byte' = 1 /\ awaiting' = 0
                    /\ user' > L => state' = "CMD_IDLE" /\ halt' /\ log' # <<>> /\ Last(log)' = <<"halt">>
  BY <1>2 DEF Halted, LastHalts, Sent
<1>3. L \in Nat /\ L > 0 /\ user \in 1 .. L + 1 /\ Todo[L].cmd = "halt" /\ Todo[L].fresh /\ StaysOpen
  BY TodoTyped DEF LastHalts, HostTyped, Todo
<1>4. CASE Sent
  <2>1. state = "CMD_IDLE" /\ halt /\ log # <<>> /\ Last(log) = <<"halt">>
    BY <1>4 DEF Halted
  <2>2. awaiting = 0
    BY <1>4 DEF Placed, HostTyped
  <2>3. Silence(rx) /\ ~(awaiting > 0)
    BY <1>4, <2>2 DEF Host, Deliver, Reject, ReadTimeout, MaySend, Raising
  <2>4. rx = NoByte /\ user' = user
    BY <2>3, Zenon DEF Silence
  <2>5. state' = "CMD_IDLE" /\ halt' = halt /\ log' = log
    BY <2>1, <2>4, StaysIdle
  <2> QED
    BY <1>3, <1>4, <2>1, <2>4, <2>5 DEF Sent, Last
<1>5. CASE ~Sent /\ user # L
  <2>1. user < L
    BY <1>3, <1>5 DEF Sent
  <2>2. \/ user' = user
        \/ user' = user + 1 /\ call' = 1 /\ byte' = 1 /\ awaiting' = 0
    BY <1>3, <1>5, NextUser
  <2> QED
    BY <1>3, <2>1, <2>2
<1>6. CASE ~Sent /\ user = L
  <2>1. call = 1 /\ byte = 1 /\ awaiting = 0
    BY <1>6 DEF Halted
  <2>2. Len(Plan) = 1 /\ Here.op = CMD_HALT /\ Here.arg = <<>> /\ Here.err = "none"
    BY <1>3, <1>6, <2>1, HaltPlan DEF HostTyped, Plan, Here, Todo
  <2>3. Deliver(rx) \/ Silence(rx)
    BY <2>1, <2>2 DEF Host, Reject, Raising, ReadTimeout
  <2>4. CASE Silence(rx)
    <3>1. ~(awaiting > 0)
      BY <2>1
    <3>2. UNCHANGED <<user, call, byte, awaiting>>
      BY <2>4, <3>1, Zenon DEF Silence
    <3> QED
      BY <1>3, <1>6, <2>1, <3>2
  <2>5. CASE Deliver(rx)
    <3>1. Paused
      BY <1>3, <1>6, <2>1, <2>5 DEF Deliver, MaySend, Begins
    <3>2. state = "CMD_IDLE"
      BY <3>1, PausedIdle
    <3>3. Len(Wire(Here)) = 1 /\ Wire(Here)[1] = CMD_HALT /\ WordsAwaited(Here) = 0
      BY <2>2, OpsAre DEF Wire, WordsAwaited
    <3>4. rx = CMD_HALT
      BY <1>3, <1>6, <2>1, <2>5, <3>3, Zenon DEF Deliver
    <3>5. Halt(rx)
      BY <3>2, <3>4, ClockAt, IdleAt
    <3>6. Did(rx) = <<<<"halt">>>>
      BY <3>2, <3>4, DidAt
    <3>7. log' = Append(log, <<"halt">>)
      BY <3>6 DEF HostTyped
    <3>8. log' # <<>> /\ Last(log)' = <<"halt">>
      <4>1. log \in Seq(Event)
        BY DEF HostTyped
      <4> QED
        BY <3>7, <4>1 DEF Last
    <3>9. user' = user + 1
      <4>1. byte = Len(Wire(Here))
        BY <2>1, <3>3
      <4>2. Read(Opened \o Arrived, WordsAwaited(Here))
        BY <2>5, <4>1, Zenon DEF Deliver
      <4>3. Opened \o Arrived \in Seq(RxByte)
        BY Boxes DEF HostTyped
      <4>4. awaiting' \in Nat /\ awaiting' <= 0 /\ (awaiting' = 0 => NextCall)
        <5>1. Read(Opened \o Arrived, 0) /\ 0 \in Nat /\ user \in Nat /\ told \in Seq(Said)
          BY <1>3, <3>3, <4>2 DEF HostTyped
        <5> QED
          BY <4>3, <5>1, ReadStep
      <4>5. NextCall
        BY <4>4
      <4> QED
        BY <2>1, <2>2, <4>5 DEF NextCall
    <3> QED
      BY <1>3, <1>6, <3>2, <3>5, <3>8, <3>9 DEF Halt
  <2> QED
    BY <2>3, <2>4, <2>5
<1> QED
  BY <1>4, <1>5, <1>6

-----------------------------------------------------------------------------
(* What the host reads, by what it holds.                                   *)
LEMMA AppendIs == ASSUME NEW S, NEW s \in Seq(S), NEW e \in S PROVE s \o <<e>> = Append(s, e)
  OBVIOUS

\* Less than a word is left in the box.
LEMMA ShortRead ==
  ASSUME NEW box \in Seq(RxByte), Len(box) < WordBytes, NEW n \in Nat, n > 0, Read(box, n),
         user \in Nat, told \in Seq(Said)
  PROVE  inbox' = box /\ awaiting' = n /\ told' = told /\ UNCHANGED <<user, call, byte>>
<1>1. PICK k \in 0..n : /\ WordBytes * k <= Len(box) /\ awaiting' = n - k
                        /\ told' = told \o Words(box, k)
                        /\ inbox' = SubSeq(box, WordBytes * k + 1, Len(box))
  BY ReadStep
<1>2. k = 0
  <2>1. k \in Nat /\ Len(box) \in Nat /\ WordBytes * k <= Len(box)
    BY <1>1
  <2>2. k >= 1 => WordBytes * k >= WordBytes
    BY <2>1
  <2>3. WordBytes * k \in Nat
    BY <2>1
  <2>4. ~(WordBytes * k >= WordBytes)
    BY <2>1, <2>3
  <2> QED
    BY <2>1, <2>2, <2>4
<1>3. Words(box, 0) = <<>>
  BY DEF Words
<1>4. inbox' = box /\ awaiting' = n /\ told' = told
  BY <1>1, <1>2, <1>3
<1> QED
  BY <1>4, ReadStep

\* Nothing is read from an empty box.
LEMMA EmptyRead ==
  ASSUME NEW box \in Seq(RxByte), Len(box) = 0, NEW n \in Nat, Read(box, n), user \in Nat, told \in Seq(Said)
  PROVE  /\ inbox' = <<>> /\ awaiting' = n /\ told' = told
         /\ n = 0 => NextCall
         /\ n > 0 => UNCHANGED <<user, call, byte>>
<1>1. inbox' = box => inbox' = <<>>
  OBVIOUS
<1>2. CASE n > 0
  <2>1. Len(box) < WordBytes
    OBVIOUS
  <2>2. inbox' = box /\ awaiting' = n /\ told' = told /\ UNCHANGED <<user, call, byte>>
    BY <1>2, <2>1, ShortRead
  <2>3. n # 0
    BY <1>2
  <2> QED
    BY <1>1, <2>2, <2>3
<1>3. CASE n = 0
  <2>1. PICK k \in 0..n : /\ awaiting' = n - k /\ told' = told \o Words(box, k)
                          /\ inbox' = SubSeq(box, WordBytes * k + 1, Len(box))
    BY ReadStep
  <2>2. k = 0 /\ awaiting' = 0
    <3>1. k \in Nat /\ k <= 0 /\ awaiting' = 0 - k
      BY <1>3, <2>1
    <3> QED
      BY <3>1
  <2>3. Words(box, 0) = <<>>
    BY DEF Words
  <2>4. told' = told /\ inbox' = <<>>
    BY <1>1, <2>1, <2>2, <2>3
  <2>5. NextCall
    BY <2>2, ReadStep
  <2> QED
    BY <1>3, <2>2, <2>4, <2>5
<1> QED
  BY <1>2, <1>3

\* A box of one word is read whole.
LEMMA WordRead ==
  ASSUME NEW box \in Seq(RxByte), Len(box) = WordBytes, NEW n \in Nat, n > 0, Read(box, n),
         user \in Nat, told \in Seq(Said)
  PROVE  /\ inbox' = <<>> /\ awaiting' = n - 1 /\ told' = Append(told, Says(user, box))
         /\ n = 1 => NextCall
         /\ n > 1 => UNCHANGED <<user, call, byte>>
<1> DEFINE k == IF n * WordBytes <= Len(box) THEN n ELSE Len(box) \div WordBytes
<1>1. k = 1
  <2>1. WordBytes \div WordBytes = 1
    BY Sizes
  <2>2. n > 1 => ~(n * WordBytes <= WordBytes)
    BY Sizes
  <2>3. n = 1 => n * WordBytes <= WordBytes
    BY Sizes
  <2> QED
    BY <2>1, <2>2, <2>3
<1>2. /\ inbox' = SubSeq(box, k * WordBytes + 1, Len(box)) /\ awaiting' = n - k
      /\ told' = told \o Words(box, k)
      /\ IF k = n THEN NextCall ELSE UNCHANGED <<user, call, byte>>
  BY Zenon DEF Read, Words
<1> HIDE DEF k
<1>3. Words(box, 1) = <<Says(user, box)>>
  <2>1. SubSeq(box, WordBytes * (1 - 1) + 1, WordBytes * 1) = box
    <3>1. WordBytes * (1 - 1) + 1 = 1 /\ WordBytes * 1 = Len(box)
      OBVIOUS
    <3>2. SubSeq(box, 1, Len(box)) = box
      OBVIOUS
    <3> QED
      BY <3>1, <3>2
  <2>2. Words(box, 1) = [i \in 1..1 |-> Says(user, box)]
    <3>1. \A i \in 1..1 : i = 1
      OBVIOUS
    <3> QED
      BY <2>1, <3>1 DEF Words
  <2>3. [i \in 1..1 |-> Says(user, box)] = <<Says(user, box)>>
    OBVIOUS
  <2> QED
    BY <2>2, <2>3
<1>4. told' = Append(told, Says(user, box))
  <2>1. Says(user, box) \in Said
    BY DEF Says, Said
  <2>2. told \o <<Says(user, box)>> = Append(told, Says(user, box))
    BY <2>1, AppendIs
  <2> QED
    BY <1>1, <1>2, <1>3, <2>2
<1>5. inbox' = <<>>
  <2>1. 1 * WordBytes + 1 > Len(box)
    OBVIOUS
  <2> QED
    BY <1>1, <1>2, <2>1
<1> QED
  BY <1>1, <1>2, <1>4, <1>5

-----------------------------------------------------------------------------
(* A call under way: each byte of it, each clock of its reply.              *)
\* The host sends a byte and holds nothing.
LEMMA DeliverHost ==
  ASSUME HostTyped, Placed, NEW c, Here = c, NEW rx, Deliver(rx), Len(Opened \o Arrived) = 0
  PROVE  /\ inbox' = <<>> /\ told' = told /\ session' = session /\ awaiting = 0 /\ ~Sent
         /\ c.err = "none" /\ WellFormed(c) /\ byte \in 1 .. Len(Wire(c))
         /\ gap' \in Nat /\ gap' >= 2 /\ gap' >= HostSees /\ gap' <= TimeoutCycles
         /\ byte # Len(Wire(c)) => byte' = byte + 1 /\ awaiting' = 0 /\ UNCHANGED <<user, call>>
         /\ byte = Len(Wire(c)) => /\ awaiting' = WordsAwaited(c)
                                   /\ WordsAwaited(c) = 0 => NextCall
                                   /\ WordsAwaited(c) > 0 => UNCHANGED <<user, call, byte>>
<1>1. ~Sent /\ awaiting = 0 /\ c.err = "none" /\ session' = session /\ gap' \in {g - 1 : g \in Gaps}
  BY DEF Deliver, MaySend
<1>2. WellFormed(c) /\ byte \in 1 .. Len(Wire(c)) /\ user \in Nat /\ told \in Seq(Said)
  BY <1>1, HereTyped DEF HostTyped
<1>3. gap' \in Nat /\ gap' >= 2 /\ gap' >= HostSees /\ gap' <= TimeoutCycles
  <2>1. PICK g \in Gaps : gap' = g - 1
    BY <1>1
  <2> QED
    BY <2>1, LinkSizes
<1>4. Opened \o Arrived \in Seq(RxByte)
  BY Boxes DEF HostTyped
<1>5. CASE byte = Len(Wire(c))
  <2>1. Read(Opened \o Arrived, WordsAwaited(c))
    BY <1>5, Zenon DEF Deliver
  <2>2. WordsAwaited(c) \in Nat
    BY <1>1, <1>2, CallTyped
  <2>3. /\ inbox' = <<>> /\ awaiting' = WordsAwaited(c) /\ told' = told
        /\ WordsAwaited(c) = 0 => NextCall
        /\ WordsAwaited(c) > 0 => UNCHANGED <<user, call, byte>>
    BY <1>2, <1>4, <2>1, <2>2, EmptyRead
  <2> QED
    BY <1>1, <1>2, <1>3, <1>5, <2>3
<1>6. CASE byte # Len(Wire(c))
  <2>1. byte' = byte + 1 /\ inbox' = Opened \o Arrived /\ UNCHANGED <<user, call, awaiting, told>>
    BY <1>6, Zenon DEF Deliver
  <2>2. inbox' = <<>>
    BY <1>4, <2>1
  <2> QED
    BY <1>1, <1>2, <1>3, <1>6, <2>1, <2>2
<1> QED
  BY <1>5, <1>6

\* A silent transmitter puts nothing in the box.
LEMMA NothingArrives ==
  ASSUME Silent
  PROVE  /\ Arrived = <<>> /\ (inbox = <<>> => Len(inbox \o Arrived) = 0 /\ Len(Opened \o Arrived) = 0)
         /\ Opened = <<>> => Len(Opened \o Arrived) = 0
<1>1. Arrived = <<>>
  BY LinkSizes DEF Arrived, Silent
<1>2. inbox = <<>> => Opened = <<>>
  BY DEF Opened
<1>3. <<>> \o <<>> = <<>> /\ Len(<<>>) = 0
  OBVIOUS
<1> QED
  BY <1>1, <1>2, <1>3

\* It stays silent when no frame is started.
LEMMA StaysSilent == ASSUME Silent, Quiet PROVE Silent'
  BY DEF Silent, Quiet, Transmit

\* The argument of each command.
LEMMA ArgLenIs ==
  /\ ArgLen(CMD_READ_REG) = 1 /\ ArgLen(CMD_READ_CSR) = 2 /\ ArgLen(CMD_WRITE_MEM) = 2 * WordBytes
  /\ ArgLen(CMD_READ_MEM) = WordBytes /\ ArgLen(CMD_READ_MMIO) = WordBytes
  /\ \A op \in {CMD_HALT, CMD_RESUME, CMD_STEP, CMD_READ_PC, CMD_READ_ALL} : ArgLen(op) = 0
<1> USE OpsAre
<1>1. ArgLen(CMD_READ_REG) = 1
  BY DEF ArgLen
<1>2. ArgLen(CMD_READ_CSR) = 2
  BY LinkSizes DEF ArgLen
<1>3. ArgLen(CMD_WRITE_MEM) = 2 * WordBytes
  BY DEF ArgLen
<1>4. ArgLen(CMD_READ_MEM) = WordBytes
  BY DEF ArgLen
<1>5. ArgLen(CMD_READ_MMIO) = WordBytes
  BY DEF ArgLen
<1>6. \A op \in {1, 2, 3, 5, 6} : ArgLen(op) = 0
  BY DEF ArgLen
<1> QED
  BY <1>1, <1>2, <1>3, <1>4, <1>5, <1>6

\* Arithmetic of the timeout.
LEMMA SumWithin == ASSUME NEW a, NEW b \in Nat, NEW m, a = 0, b <= m PROVE a + b <= m
  OBVIOUS

\* The first byte of a call that the idle debugger takes: what it goes on to.
LEMMA FirstByte ==
  ASSUME Inv, TxInv, HostTyped, Placed, NEW c, Here = c, NEW rx \in Byte \cup {NoByte}, Deliver(rx), Clock(rx), rx = c.op,
         state = "CMD_IDLE", Silent, byte = 1, Len(Opened \o Arrived) = 0, c.op \in HaltedOnly => halt
  PROVE  /\ Silent' /\ inbox' = <<>> /\ told' = told /\ gap' \in Nat /\ gap' >= 2
         /\ c.op \in {CMD_HALT, CMD_RESUME, CMD_STEP} => NextCall /\ awaiting' = 0
         /\ c.op \in {CMD_HALT, CMD_RESUME} =>
              state' = "CMD_IDLE" /\ halt' = (c.op = CMD_HALT) /\ Did(rx) = Effect(c)
         /\ c.op = CMD_STEP => state' = "STEP_ASSERT" /\ halt' = halt /\ Did(rx) = <<>>
         /\ c.op \in {CMD_READ_PC, CMD_READ_ALL} =>
              /\ Answering(c)' /\ Replied(c)' = 0 /\ awaiting' = Len(Wanted(c))
              /\ halt' = halt /\ Did(rx) = <<>> /\ UNCHANGED <<user, call, byte>>
         /\ c.op \notin {CMD_HALT, CMD_RESUME, CMD_STEP, CMD_READ_PC, CMD_READ_ALL} =>
              /\ Receiving(c)' /\ state' # "CMD_IDLE" /\ halt' = halt /\ Did(rx) = <<>>
              /\ UNCHANGED <<user, call>>
<1>1. /\ inbox' = <<>> /\ told' = told /\ session' = session /\ awaiting = 0
      /\ c.err = "none" /\ WellFormed(c)
      /\ gap' \in Nat /\ gap' >= 2 /\ gap' >= HostSees /\ gap' <= TimeoutCycles
      /\ 1 # Len(Wire(c)) => byte' = 2 /\ awaiting' = 0 /\ UNCHANGED <<user, call>>
      /\ 1 = Len(Wire(c)) => /\ awaiting' = WordsAwaited(c)
                             /\ WordsAwaited(c) = 0 => NextCall
                             /\ WordsAwaited(c) > 0 => UNCHANGED <<user, call, byte>>
  BY DeliverHost
<1>2. /\ c.op \in Ops /\ Len(c.arg) = ArgLen(c.op) /\ Len(Wire(c)) = 1 + Len(c.arg)
      /\ WordsAwaited(c) = Len(Wanted(c)) /\ WordsAwaited(c) \in Nat
  BY <1>1, CallTyped
<1>3. CASE c.op \in {CMD_HALT, CMD_RESUME}
  <2>1. NextCall /\ awaiting' = 0
    BY <1>1, <1>2, <1>3, WantedLen, ArgLenIs
  <2>2. state' = "CMD_IDLE" /\ halt' = (c.op = CMD_HALT) /\ Quiet
    BY <1>3, OpsAre, ClockAt, IdleAt DEF Halt, Resume
  <2>3. Did(rx) = Effect(c)
    <3>1. CASE c.op = CMD_HALT
      <4>1. Effect(c) = <<<<"halt">>>>
        BY <3>1, OpsAre DEF Effect
      <4> QED
        BY <3>1, <4>1, DidAt
    <3>2. CASE c.op = CMD_RESUME
      <4>1. Effect(c) = <<<<"resume">>>>
        BY <3>2, OpsAre DEF Effect
      <4> QED
        BY <3>2, <4>1, DidAt
    <3> QED
      BY <1>3, <3>1, <3>2
  <2> QED
    BY <1>1, <1>3, <2>1, <2>2, <2>3, OpsAre, StaysSilent
<1>4. CASE c.op = CMD_STEP
  <2>1. NextCall /\ awaiting' = 0
    BY <1>1, <1>2, <1>4, WantedLen, ArgLenIs
  <2>2. state' = "STEP_ASSERT" /\ halt' = halt /\ Quiet
    BY <1>4, OpsAre, ClockAt, IdleAt DEF Step, Goto
  <2>3. Did(rx) = <<>>
    BY <1>4, DidAt, OpsAre
  <2> QED
    BY <1>1, <1>4, <2>1, <2>2, <2>3, OpsAre, StaysSilent
<1>5. CASE c.op \in {CMD_READ_PC, CMD_READ_ALL}
  <2>1. awaiting' = Len(Wanted(c)) /\ Len(Wanted(c)) > 0 /\ UNCHANGED <<user, call, byte>>
    <3>1. ArgLen(c.op) = 0 /\ Len(Wire(c)) = 1
      BY <1>2, <1>5, ArgLenIs
    <3>2. Len(Wanted(c)) > 0
      BY <1>5, WantedLen
    <3> QED
      BY <1>1, <1>2, <3>1, <3>2
  <2>2. ReadCore(rx)
    BY <1>5, OpsAre, ClockAt, IdleAt
  <2>3. Did(rx) = <<>>
    BY <1>5, DidAt, OpsAre
  <2>4. word_count' = Len(Wanted(c)) /\ ToLoad' = Wanted(c)[1] /\ word_count' \in 1 .. Len(Wanted(c))
    <3>1. word_count' = Len(Wanted(c))
      BY <1>5, <2>2, WantedLen, OpsAre DEF ReadCore, Command
    <3>2. CASE c.op = CMD_READ_PC
      <4>1. reading_csr' = FALSE /\ word_sel' = NumRegs
        BY <2>2, <3>2, OpsAre DEF ReadCore, Command
      <4>2. ToLoad' = Origin("pc", <<>>)
        BY <4>1 DEF ToLoad
      <4>3. Wanted(c)[1] = Origin("pc", <<>>) /\ Len(Wanted(c)) = 1
        BY <3>2, WantedIs
      <4> QED
        BY <3>1, <4>2, <4>3
    <3>3. CASE c.op = CMD_READ_ALL
      <4>1. reading_csr' = FALSE /\ word_sel' = 0
        BY <2>2, <3>3, OpsAre DEF ReadCore, Command
      <4>2. ToLoad' = Origin("reg", <<0>>)
        BY <4>1 DEF ToLoad
      <4>3. Wanted(c)[1] = Origin("reg", <<1 - 1>>)
        <5>1. 1 \in 1 .. NumRegs + 1 /\ 1 <= NumRegs
          OBVIOUS
        <5> QED
          BY <3>3, <5>1, WantedIs
      <4> QED
        BY <2>1, <3>1, <4>2, <4>3
    <3> QED
      BY <1>5, <2>1, <3>1, <3>2, <3>3
  <2>5. Replying(c)'
    <3>1. state' = "SEND_LOAD" /\ reading_csr' = FALSE
      BY <2>2 DEF ReadCore, Goto
    <3>2. c.op = CMD_READ_ALL => word_sel' = NumRegs + 1 - word_count'
      BY <2>2, OpsAre DEF ReadCore, Command
    <3>3. inbox' = [i \in 1..0 |-> <<cur_word', i - 1>>]
      BY <1>1
    <3>4. Len(Wanted(c)) + 1 - word_count' = 1
      BY <1>2, <2>4
    <3> QED
      BY <2>1, <2>4, <3>1, <3>2, <3>3, <3>4 DEF Replying, SendStates, Taken, LastSeen, Seen
  <2>6. Answering(c)' /\ Replied(c)' = 0
    <3>1. state' = "SEND_LOAD"
      BY <2>2 DEF ReadCore, Goto
    <3>2. Replied(c)' = 0
      BY <1>2, <2>4, <3>1 DEF Replied, SendStates
    <3> QED
      BY <1>1, <2>1, <2>5, <3>2 DEF Answering
  <2>7. Silent' /\ halt' = halt
    BY <2>2, StaysSilent DEF ReadCore
  <2> QED
    BY <1>1, <1>5, <2>1, <2>3, <2>6, <2>7, OpsAre
<1>6. CASE c.op \in {CMD_READ_REG, CMD_READ_CSR, CMD_READ_MEM, CMD_WRITE_MEM, CMD_READ_MMIO}
  <2>1. byte' = 2 /\ awaiting' = 0 /\ UNCHANGED <<user, call>> /\ 2 <= Len(Wire(c))
    BY <1>1, <1>2, <1>6, ArgLenIs
  <2>2. Did(rx) = <<>>
    BY <1>6, DidAt, OpsAre
  <2>3. Restart /\ Quiet /\ halt' = halt /\ state' # "CMD_IDLE"
        /\ \/ c.op = CMD_READ_REG /\ state' = "WAIT_ARG"
           \/ c.op = CMD_READ_CSR /\ state' = "WAIT_ARG_CSR" /\ csr_byte_idx' = 0
           \/ /\ c.op \in {CMD_READ_MEM, CMD_WRITE_MEM} /\ state' = "RECV_MEM_ADDR"
              /\ mem_is_write' = (c.op = CMD_WRITE_MEM) /\ rx_byte_idx' = 0
           \/ c.op = CMD_READ_MMIO /\ state' = "RECV_MMIO_ADDR" /\ rx_byte_idx' = 0
    <3>1. CASE c.op = CMD_READ_REG
      BY <3>1, ClockAt, IdleAt DEF ReadReg, Goto
    <3>2. CASE c.op = CMD_READ_CSR
      BY <3>2, ClockAt, IdleAt DEF ReadCsr, Goto
    <3>3. CASE c.op \in {CMD_READ_MEM, CMD_WRITE_MEM}
      BY <3>3, ClockAt, IdleAt DEF AccessMem, Goto, HaltedOnly
    <3>4. CASE c.op = CMD_READ_MMIO
      BY <3>4, ClockAt, IdleAt DEF ReadMmio, Goto, HaltedOnly
    <3> QED
      BY <1>6, <3>1, <3>2, <3>3, <3>4
  <2>4. rx_timeout_cnt' + gap' <= TimeoutCycles
    <3>1. rx_timeout_cnt' = 0
      BY <2>3 DEF Restart
    <3>2. gap' \in Nat /\ gap' <= TimeoutCycles
      BY <1>1
    <3> QED
      BY <3>1, <3>2, SumWithin
  <2>5. Silent'
    BY <2>3, StaysSilent
  <2>6. Receiving(c)'
    <3>1. 2 - 2 = 0 /\ 1..0 = {} /\ byte' \in 2 .. Len(Wire(c))
      BY <1>2, <2>1
    <3> QED
      BY <1>1, <2>1, <2>3, <2>4, <2>5, <3>1 DEF Receiving
  <2> QED
    BY <1>1, <1>6, <2>1, <2>2, <2>3, <2>5, <2>6, OpsAre
<1> QED
  BY <1>2, <1>3, <1>4, <1>5, <1>6, OpsAre

\* A byte of an argument is put after those that are there.
LEMMA SameWord ==
  ASSUME NEW n \in Nat, NEW S, NEW f \in [1..n -> S], NEW T, NEW g \in Seq(T), Len(g) = n,
         \A i \in 1..n : f[i] = g[i]
  PROVE  f = g
<1>1. g \in [1..n -> T] /\ DOMAIN f = 1..n /\ DOMAIN g = 1..n
  OBVIOUS
<1> QED
  BY <1>1

\* Put extends the part of an argument that is there by one byte.
LEMMA PutNext ==
  ASSUME NEW n \in Nat, NEW f, DOMAIN f = 1..n, NEW k \in 0 .. n - 1, NEW b,
         NEW g, \A i \in 1..k : f[i] = g[i], b = g[k + 1]
  PROVE  \A i \in 1 .. k + 1 : Put(f, k, b)[i] = g[i]
<1>1. ASSUME NEW i \in 1 .. k + 1 PROVE Put(f, k, b)[i] = g[i]
  <2>1. i \in 1..n /\ k + 1 \in 1..n
    OBVIOUS
  <2>2. CASE i = k + 1
    BY <2>1, <2>2 DEF Put
  <2>3. CASE i # k + 1
    <3>1. i \in 1..k
      BY <2>3
    <3> QED
      BY <2>1, <2>3, <3>1 DEF Put
  <2> QED
    BY <2>2, <2>3
<1> QED
  BY <1>1

\* One more byte of an argument: what the host knows and what it does.
OneMore(c) ==
  /\ inbox' = <<>> /\ told' = told /\ awaiting = 0 /\ WellFormed(c) /\ c.err = "none"
  /\ byte \in 2 .. Len(Wire(c)) /\ gap' \in Nat /\ gap' >= 2 /\ gap' >= HostSees /\ gap' <= TimeoutCycles
  /\ byte # Len(Wire(c)) => byte' = byte + 1 /\ awaiting' = 0 /\ UNCHANGED <<user, call>>
  /\ byte = Len(Wire(c)) => /\ awaiting' = Len(Wanted(c))
                            /\ Len(Wanted(c)) = 0 => NextCall
                            /\ Len(Wanted(c)) > 0 => UNCHANGED <<user, call, byte>>

Taking(c) ==
  /\ halt' = halt
  /\ \/ byte < Len(Wire(c)) /\ Receiving(c)' /\ UNCHANGED <<user, call>> /\ state' # "CMD_IDLE"
     \/ /\ c.op # CMD_WRITE_MEM /\ Answering(c)' /\ Replied(c)' = 0 /\ awaiting' = Len(Wanted(c))
        /\ UNCHANGED <<user, call, byte>>
     \/ /\ c.op = CMD_WRITE_MEM /\ NextCall /\ awaiting' = 0 /\ state' = "MEM_WRITE_PULSE" /\ Silent'
        /\ mem_addr' = SubSeq(c.arg, 1, WordBytes)
        /\ mem_wdata' = SubSeq(c.arg, WordBytes + 1, 2 * WordBytes)

\* A one-word reply is about to start.
LEMMA OneWord ==
  ASSUME NEW c, OneMore(c), byte = Len(Wire(c)), Len(Wanted(c)) = 1, c.op # CMD_READ_ALL,
         state' = "SEND_LOAD", word_count' = 1, ToLoad' = Wanted(c)[1]
  PROVE  Answering(c)' /\ Replied(c)' = 0 /\ awaiting' = Len(Wanted(c)) /\ UNCHANGED <<user, call, byte>>
<1>1. awaiting' = 1 /\ UNCHANGED <<user, call, byte>> /\ gap' >= HostSees /\ inbox' = <<>>
  BY DEF OneMore
<1>2. Replied(c)' = 0
  <2>1. WordBytes * (1 - 1) + 0 = 0
    OBVIOUS
  <2> QED
    BY <2>1 DEF Replied, SendStates
<1>3. Replying(c)'
  <2>1. inbox' = [i \in 1..0 |-> <<cur_word', i - 1>>]
    BY <1>1
  <2>2. 1 + 1 - 1 = 1 /\ 1 \in 1..1
    OBVIOUS
  <2> QED
    BY <1>1, <2>1, <2>2 DEF Replying, SendStates, Taken, LastSeen, Seen
<1> QED
  BY <1>1, <1>2, <1>3 DEF Answering

\* The byte is one of the argument.
LEMMA OneMoreArg ==
  ASSUME NEW c, OneMore(c)
  PROVE  /\ c.arg \in Seq(Byte) /\ Len(Wire(c)) = 1 + Len(c.arg) /\ Len(c.arg) \in Nat
         /\ byte \in 2 .. Len(Wire(c))
         /\ c.op = CMD_READ_REG => Len(c.arg) = 1 /\ Len(Wanted(c)) = 1
         /\ c.op = CMD_READ_CSR => Len(c.arg) = 2 /\ Len(Wanted(c)) = 1
         /\ c.op \in {CMD_READ_MEM, CMD_READ_MMIO} => Len(c.arg) = WordBytes /\ Len(Wanted(c)) = 1
         /\ c.op = CMD_WRITE_MEM => Len(c.arg) = 2 * WordBytes /\ Len(Wanted(c)) = 0
<1>1. WellFormed(c) /\ c.err = "none" /\ byte \in 2 .. Len(Wire(c))
  BY DEF OneMore
<1>2. c.arg \in Seq(Byte) /\ Len(Wire(c)) = 1 + Len(c.arg) /\ Len(c.arg) = ArgLen(c.op) /\ Len(c.arg) \in Nat
  BY <1>1, CallTyped
<1>3. /\ c.op = CMD_READ_REG => Len(c.arg) = 1
      /\ c.op = CMD_READ_CSR => Len(c.arg) = 2
      /\ c.op \in {CMD_READ_MEM, CMD_READ_MMIO} => Len(c.arg) = WordBytes
      /\ c.op = CMD_WRITE_MEM => Len(c.arg) = 2 * WordBytes
  BY <1>2, ArgLenIs
<1>4. /\ c.op \in {CMD_READ_REG, CMD_READ_CSR, CMD_READ_MEM, CMD_READ_MMIO} => Len(Wanted(c)) = 1
      /\ c.op = CMD_WRITE_MEM => Len(Wanted(c)) = 0
  BY WantedLen
<1> QED
  BY <1>1, <1>2, <1>3, <1>4

\* Each argument state takes the byte and goes on to the next or to the answer: the
\* index of READ_REG,
LEMMA TakingReg ==
  ASSUME Inv, NEW c, OneMore(c), NEW rx, rx = c.arg[byte - 1], c.op = CMD_READ_REG, TakeRegIndex(rx)
  PROVE  Taking(c)
<1>1. Len(c.arg) = 1 /\ Len(Wire(c)) = 2 /\ byte = 2
  <2>1. Len(c.arg) = 1 /\ Len(Wire(c)) = 1 + Len(c.arg) /\ byte \in 2 .. Len(Wire(c))
    BY OneMoreArg
  <2> QED
    BY <2>1
<1>2. word_sel' = rx % NumRegs /\ word_count' = 1 /\ reading_csr' = FALSE /\ state' = "SEND_LOAD" /\ halt' = halt
  BY DEF TakeRegIndex, Goto
<1>3. rx = c.arg[1] /\ rx \in Nat
  BY <1>1 DEF TakeRegIndex
<1>4. ToLoad' = Wanted(c)[1]
  <2>1. word_sel' < NumRegs
    BY <1>2, <1>3
  <2>2. ToLoad' = Origin("reg", <<word_sel'>>)
    BY <1>2, <2>1 DEF ToLoad
  <2>3. Wanted(c)[1] = Origin("reg", <<c.arg[1] % NumRegs>>)
    BY WantedIs
  <2> QED
    BY <1>2, <1>3, <2>2, <2>3
<1>5. Answering(c)' /\ Replied(c)' = 0 /\ awaiting' = Len(Wanted(c)) /\ UNCHANGED <<user, call, byte>>
  BY <1>1, <1>2, <1>4, WantedLen, OpsAre, OneWord
<1> QED
  BY <1>2, <1>5, OpsAre DEF Taking

\* Every byte but the last of an argument restarts the timeout.
LEMMA StillReceiving ==
  ASSUME NEW c, OneMore(c), Restart, Silent, Quiet, byte # Len(Wire(c)), halt' = halt, state' # "CMD_IDLE",
         \/ c.op = CMD_READ_REG /\ state' = "WAIT_ARG"
         \/ /\ c.op = CMD_READ_CSR /\ state' = "WAIT_ARG_CSR" /\ csr_byte_idx' = byte - 1
            /\ \A i \in 1 .. byte - 1 : csr_addr_pending'[i] = c.arg[i]
         \/ /\ c.op \in {CMD_READ_MEM, CMD_WRITE_MEM} /\ state' = "RECV_MEM_ADDR"
            /\ mem_is_write' = (c.op = CMD_WRITE_MEM) /\ rx_byte_idx' = byte - 1
            /\ \A i \in 1 .. byte - 1 : mem_addr'[i] = c.arg[i]
         \/ /\ c.op = CMD_WRITE_MEM /\ state' = "RECV_MEM_DATA" /\ rx_byte_idx' = byte - 1 - WordBytes
            /\ mem_addr' = SubSeq(c.arg, 1, WordBytes)
            /\ \A i \in 1 .. byte - 1 - WordBytes : mem_wdata'[i] = c.arg[WordBytes + i]
         \/ /\ c.op = CMD_READ_MMIO /\ state' = "RECV_MMIO_ADDR" /\ rx_byte_idx' = byte - 1
            /\ \A i \in 1 .. byte - 1 : mmio_addr'[i] = c.arg[i]
  PROVE  Taking(c)
<1>1. byte' = byte + 1 /\ awaiting' = 0 /\ UNCHANGED <<user, call>> /\ inbox' = <<>>
  BY DEF OneMore
<1>2. Len(Wire(c)) \in Nat /\ byte \in 2 .. Len(Wire(c))
  BY CallTyped DEF OneMore
<1>3. byte < Len(Wire(c)) /\ byte' \in 2 .. Len(Wire(c)) /\ byte' - 2 = byte - 1
  BY <1>1, <1>2
<1>4. rx_timeout_cnt' + gap' <= TimeoutCycles
  <2>1. rx_timeout_cnt' = 0 /\ gap' \in Nat /\ gap' <= TimeoutCycles
    BY DEF Restart, OneMore
  <2> QED
    BY <2>1, SumWithin
<1>5. Silent'
  BY StaysSilent
<1>6. Receiving(c)'
  BY <1>1, <1>3, <1>4, <1>5 DEF Receiving
<1> QED
  BY <1>1, <1>3, <1>6 DEF Taking

\* ... the address of READ_CSR,
LEMMA TakingCsr ==
  ASSUME Inv, NEW c, OneMore(c), NEW rx, rx = c.arg[byte - 1], c.op = CMD_READ_CSR, TakeCsrByte(rx), Silent,
         csr_byte_idx = byte - 2, \A i \in 1 .. byte - 2 : csr_addr_pending[i] = c.arg[i]
  PROVE  Taking(c)
<1>1. Len(c.arg) = 2 /\ Len(Wire(c)) = 3 /\ byte \in 2..3 /\ c.arg \in Seq(Byte)
  <2>1. Len(c.arg) = 2 /\ Len(Wire(c)) = 1 + Len(c.arg) /\ c.arg \in Seq(Byte) /\ byte \in 2 .. Len(Wire(c))
    BY OneMoreArg
  <2> QED
    BY <2>1
<1>2. csr_addr_pending \in [1..CsrBytes -> Byte \cup {0}] /\ csr_byte_idx \in 0 .. CsrBytes - 1 /\ CsrBytes = 2
  BY LinkSizes DEF Inv, TypeOK, ArgsTyped, CountsTyped
<1>3. Restart /\ Quiet /\ halt' = halt /\ csr_addr_pending' = Put(csr_addr_pending, csr_byte_idx, rx)
  BY DEF TakeCsrByte
<1>4. (byte - 2) + 1 = byte - 1 /\ byte - 2 \in 0 .. CsrBytes - 1
  BY <1>1, <1>2
<1>5. \A i \in 1 .. byte - 1 : csr_addr_pending'[i] = c.arg[i]
  <2> DEFINE k == byte - 2
  <2>1. k + 1 = byte - 1 /\ k \in 0 .. CsrBytes - 1 /\ rx = c.arg[k + 1] /\ \A i \in 1..k : csr_addr_pending[i] = c.arg[i]
    BY <1>4
  <2>2. DOMAIN csr_addr_pending = 1..CsrBytes
    BY <1>2
  <2>3. csr_addr_pending' = Put(csr_addr_pending, k, rx)
    BY <1>3
  <2> HIDE DEF k
  <2>4. \A i \in 1 .. k + 1 : Put(csr_addr_pending, k, rx)[i] = c.arg[i]
    <3>1. PICK g : g = c.arg
      OBVIOUS
    <3>2. /\ k \in 0 .. CsrBytes - 1 /\ rx = g[k + 1]
          /\ \A i \in 1..k : csr_addr_pending[i] = g[i]
      BY <2>1, <3>1
    <3>3. \A i \in 1 .. k + 1 : Put(csr_addr_pending, k, rx)[i] = g[i]
      BY <2>2, <3>2, PutNext
    <3> QED
      BY <3>1, <3>3
  <2> QED
    BY <2>1, <2>3, <2>4
<1>6. CASE byte = 3
  <2>1. word_count' = 1 /\ reading_csr' = TRUE /\ state' = "SEND_LOAD"
    BY <1>2, <1>6 DEF TakeCsrByte, Goto
  <2>2. csr_addr_pending' = c.arg
    <3>1. csr_addr_pending' \in [1..2 -> Byte \cup {0, rx}]
      BY <1>2, <1>3 DEF Put
    <3>2. \A i \in 1..2 : csr_addr_pending'[i] = c.arg[i]
      BY <1>5, <1>6
    <3> QED
      BY <1>1, <3>1, <3>2, SameWord
  <2>3. ToLoad' = Wanted(c)[1]
    <3>1. Wanted(c)[1] = Origin("csr", c.arg)
      BY WantedIs
    <3> QED
      BY <2>1, <2>2, <3>1 DEF ToLoad
  <2>4. Answering(c)' /\ Replied(c)' = 0 /\ awaiting' = Len(Wanted(c)) /\ UNCHANGED <<user, call, byte>>
    BY <1>1, <1>6, <2>1, <2>3, WantedLen, OpsAre, OneWord
  <2> QED
    BY <1>3, <2>4, OpsAre DEF Taking
<1>7. CASE byte = 2
  <2>1. state' = "WAIT_ARG_CSR" /\ csr_byte_idx' = byte - 1
    BY <1>2, <1>7 DEF TakeCsrByte
  <2> QED
    <3>1. byte # Len(Wire(c)) /\ state' # "CMD_IDLE"
      BY <1>1, <1>7, <2>1
    <3> QED
      BY <1>3, <1>5, <2>1, <3>1, StillReceiving
<1> QED
  BY <1>1, <1>6, <1>7

\* ... the address of READ_MEM and WRITE_MEM,
LEMMA TakingMemAddr ==
  ASSUME Inv, NEW c, OneMore(c), NEW rx, rx = c.arg[byte - 1], c.op \in {CMD_READ_MEM, CMD_WRITE_MEM},
         TakeMemAddr(rx), Silent, mem_is_write = (c.op = CMD_WRITE_MEM), rx_byte_idx = byte - 2,
         \A i \in 1 .. byte - 2 : mem_addr[i] = c.arg[i]
  PROVE  Taking(c)
<1>1. /\ Len(c.arg) = (IF c.op = CMD_WRITE_MEM THEN 2 * WordBytes ELSE WordBytes)
      /\ Len(Wire(c)) = 1 + Len(c.arg) /\ c.arg \in Seq(Byte) /\ byte \in 2 .. Len(Wire(c))
  BY OneMoreArg, OpsAre
<1>2. mem_addr \in [1..WordBytes -> Byte \cup {0}] /\ rx_byte_idx \in 0 .. WordBytes - 1
  BY DEF Inv, TypeOK, ArgsTyped, CountsTyped
<1>3. /\ Restart /\ Quiet /\ halt' = halt /\ mem_addr' = Put(mem_addr, rx_byte_idx, rx)
      /\ mem_is_write' = mem_is_write
      /\ Advance(IF mem_is_write THEN "RECV_MEM_DATA" ELSE "MEM_READ_WAIT")
  BY DEF TakeMemAddr
<1>4. (byte - 2) + 1 = byte - 1 /\ byte - 2 \in 0 .. WordBytes - 1
  BY <1>1, <1>2
<1>5. \A i \in 1 .. byte - 1 : mem_addr'[i] = c.arg[i]
  <2> DEFINE k == byte - 2
  <2>1. k + 1 = byte - 1 /\ k \in 0 .. WordBytes - 1 /\ rx = c.arg[k + 1] /\ \A i \in 1..k : mem_addr[i] = c.arg[i]
    BY <1>4
  <2>2. DOMAIN mem_addr = 1..WordBytes
    BY <1>2
  <2>3. mem_addr' = Put(mem_addr, k, rx)
    BY <1>3
  <2> HIDE DEF k
  <2>4. \A i \in 1 .. k + 1 : Put(mem_addr, k, rx)[i] = c.arg[i]
    <3>1. PICK g : g = c.arg
      OBVIOUS
    <3>2. /\ k \in 0 .. WordBytes - 1 /\ rx = g[k + 1]
          /\ \A i \in 1..k : mem_addr[i] = g[i]
      BY <2>1, <3>1
    <3>3. \A i \in 1 .. k + 1 : Put(mem_addr, k, rx)[i] = g[i]
      BY <2>2, <3>2, PutNext
    <3> QED
      BY <3>1, <3>3
  <2> QED
    BY <2>1, <2>3, <2>4
<1>6. CASE byte - 2 = WordBytes - 1
  <2>1. mem_addr' \in [1..WordBytes -> Byte \cup {0, rx}]
    BY <1>2, <1>3 DEF Put
  <2>2. CASE c.op = CMD_READ_MEM
    <3>1. Len(c.arg) = WordBytes /\ byte = Len(Wire(c))
      BY <1>1, <1>6, <2>2, OpsAre
    <3>2. mem_addr' = c.arg
      <4>1. byte - 1 = WordBytes
        BY <1>1, <1>6
      <4>2. \A i \in 1..WordBytes : mem_addr'[i] = c.arg[i]
        BY <1>5, <4>1
      <4>3. PICK g \in Seq(Byte) : g = c.arg
        BY <1>1
      <4>4. mem_addr' = g
        BY <2>1, <3>1, <4>2, <4>3, SameWord
      <4> QED
        BY <4>3, <4>4
    <3>3. state' = "MEM_READ_WAIT"
      <4>1. c.op # CMD_WRITE_MEM
        BY <2>2, OpsAre
      <4>2. rx_byte_idx = WordBytes - 1
        BY <1>6
      <4> QED
        BY <1>3, <4>1, <4>2 DEF Advance, Goto
    <3>4. awaiting' = 1 /\ Len(Wanted(c)) = 1 /\ UNCHANGED <<user, call, byte>> /\ inbox' = <<>> /\ gap' >= HostSees
      <4>1. Len(Wanted(c)) = 1
        BY <2>2, OneMoreArg
      <4> QED
        BY <3>1, <4>1 DEF OneMore
    <3>5. Silent'
      BY <1>3, StaysSilent
    <3>6. Replied(c)' = 0
      BY <3>3 DEF Replied, SendStates
    <3> QED
      BY <1>3, <2>2, <3>2, <3>3, <3>4, <3>5, <3>6, OpsAre DEF Taking, Answering, Fetching
  <2>3. CASE c.op = CMD_WRITE_MEM
    <3>1. Len(c.arg) = 2 * WordBytes /\ byte # Len(Wire(c))
      BY <1>1, <1>6, <2>3
    <3>2. mem_addr' = SubSeq(c.arg, 1, WordBytes)
      <4>1. /\ SubSeq(c.arg, 1, WordBytes) \in Seq(Byte) /\ Len(SubSeq(c.arg, 1, WordBytes)) = WordBytes
            /\ \A i \in 1..WordBytes : SubSeq(c.arg, 1, WordBytes)[i] = c.arg[i]
        BY <1>1, <3>1
      <4>2. \A i \in 1..WordBytes : mem_addr'[i] = SubSeq(c.arg, 1, WordBytes)[i]
        <5>1. byte - 1 = WordBytes
          BY <1>1, <1>6
        <5> QED
          BY <1>5, <4>1, <5>1
      <4> QED
        BY <2>1, <4>1, <4>2, SameWord
    <3>3. state' = "RECV_MEM_DATA" /\ rx_byte_idx' = 0
      BY <1>3, <1>6, <2>3, OpsAre DEF Advance, Goto
    <3>4. byte - 1 - WordBytes = 0
      BY <1>1, <1>6
    <3> QED
      BY <1>3, <2>3, <3>1, <3>2, <3>3, <3>4, StillReceiving
  <2> QED
    BY <2>2, <2>3
<1>7. CASE byte - 2 # WordBytes - 1
  <2>1. state' = "RECV_MEM_ADDR" /\ rx_byte_idx' = byte - 1
    BY <1>3, <1>4, <1>7 DEF Advance, TakeMemAddr
  <2>2. byte # Len(Wire(c))
    <3>1. Len(c.arg) >= WordBytes /\ Len(Wire(c)) = 1 + Len(c.arg)
      BY <1>1, OpsAre
    <3>2. byte - 2 < WordBytes - 1
      BY <1>1, <1>4, <1>7
    <3> QED
      BY <1>1, <3>1, <3>2
  <2> QED
    BY <1>3, <1>5, <2>1, <2>2, StillReceiving
<1> QED
  BY <1>6, <1>7

\* ... the data of WRITE_MEM,
LEMMA TakingMemData ==
  ASSUME Inv, NEW c, OneMore(c), NEW rx, rx = c.arg[byte - 1], c.op = CMD_WRITE_MEM,
         TakeMemData(rx), Silent, rx_byte_idx = byte - 2 - WordBytes, mem_addr = SubSeq(c.arg, 1, WordBytes),
         \A i \in 1 .. byte - 2 - WordBytes : mem_wdata[i] = c.arg[WordBytes + i]
  PROVE  Taking(c)
<1>1. /\ Len(c.arg) = 2 * WordBytes
      /\ Len(Wire(c)) = 1 + Len(c.arg) /\ c.arg \in Seq(Byte) /\ byte \in 2 .. Len(Wire(c))
  BY OneMoreArg, OpsAre
<1>2. mem_wdata \in [1..WordBytes -> Byte \cup {0}] /\ rx_byte_idx \in 0 .. WordBytes - 1
  BY DEF Inv, TypeOK, ArgsTyped, CountsTyped
<1>3. /\ Restart /\ Quiet /\ halt' = halt /\ mem_wdata' = Put(mem_wdata, rx_byte_idx, rx)
      /\ mem_addr' = mem_addr /\ Advance("MEM_WRITE_PULSE")
  BY DEF TakeMemData
<1> DEFINE data == SubSeq(c.arg, WordBytes + 1, 2 * WordBytes)
           k    == byte - 2 - WordBytes
<1>4. /\ data \in Seq(Byte) /\ Len(data) = WordBytes
      /\ \A i \in 1..WordBytes : data[i] = c.arg[WordBytes + i]
  <2>1. 2 * WordBytes - (WordBytes + 1) + 1 = WordBytes /\ WordBytes + 1 <= 2 * WordBytes
    OBVIOUS
  <2>2. \A i \in WordBytes + 1 .. 2 * WordBytes : c.arg[i] \in Byte
    BY <1>1
  <2>3. /\ data \in Seq(Byte) /\ Len(data) = WordBytes
        /\ \A i \in 1 .. 2 * WordBytes - (WordBytes + 1) + 1 : data[i] = c.arg[(WordBytes + 1) + i - 1]
    BY <1>1, <2>1, <2>2, SubSeqProperties
  <2>4. \A i \in 1..WordBytes : (WordBytes + 1) + i - 1 = WordBytes + i
    OBVIOUS
  <2> HIDE DEF data
  <2> QED
    BY <2>1, <2>3, <2>4
<1>5. k \in 0 .. WordBytes - 1 /\ k + 1 = byte - 1 - WordBytes /\ WordBytes + (k + 1) = byte - 1
  BY <1>1, <1>2
<1> HIDE DEF data
<1>6. \A i \in 1 .. k + 1 : mem_wdata'[i] = data[i]
  <2>1. \A i \in 1..k : mem_wdata[i] = data[i]
    BY <1>4, <1>5
  <2>2. rx = data[k + 1]
    BY <1>4, <1>5
  <2>3. rx_byte_idx = k
    OBVIOUS
  <2> HIDE DEF k
  <2>4. \A i \in 1 .. k + 1 : Put(mem_wdata, k, rx)[i] = data[i]
    <3>1. DOMAIN mem_wdata = 1..WordBytes
      BY <1>2
    <3> QED
      BY <1>5, <2>1, <2>2, <3>1, PutNext
  <2> QED
    BY <1>3, <2>3, <2>4
<1>7. CASE k = WordBytes - 1
  <2>1. mem_wdata' \in [1..WordBytes -> Byte \cup {0, rx}]
    BY <1>2, <1>3 DEF Put
  <2>2. mem_wdata' = data
    BY <1>4, <1>6, <1>7, <2>1, SameWord
  <2>3. byte = Len(Wire(c))
    BY <1>1, <1>7
  <2>4. NextCall /\ awaiting' = 0
    BY <2>3, WantedLen DEF OneMore
  <2>5. state' = "MEM_WRITE_PULSE"
    BY <1>3, <1>7 DEF Advance, Goto
  <2>6. Silent'
    BY <1>3, StaysSilent
  <2> QED
    BY <1>3, <2>2, <2>4, <2>5, <2>6 DEF Taking, data
<1>8. CASE k # WordBytes - 1
  <2>1. state' = "RECV_MEM_DATA" /\ rx_byte_idx' = byte - 1 - WordBytes
    BY <1>3, <1>5, <1>8 DEF Advance, TakeMemData
  <2>2. byte # Len(Wire(c))
    BY <1>1, <1>5, <1>8
  <2>3. \A i \in 1 .. byte - 1 - WordBytes : mem_wdata'[i] = c.arg[WordBytes + i]
    BY <1>4, <1>5, <1>6
  <2> QED
    BY <1>3, <2>1, <2>2, <2>3, StillReceiving
<1> QED
  BY <1>7, <1>8

\* ... the address of READ_MMIO.
LEMMA TakingMmio ==
  ASSUME Inv, NEW c, OneMore(c), NEW rx, rx = c.arg[byte - 1], c.op = CMD_READ_MMIO,
         TakeMmioAddr(rx), Silent, rx_byte_idx = byte - 2,
         \A i \in 1 .. byte - 2 : mmio_addr[i] = c.arg[i]
  PROVE  Taking(c)
<1>1. /\ Len(c.arg) = WordBytes
      /\ Len(Wire(c)) = 1 + Len(c.arg) /\ c.arg \in Seq(Byte) /\ byte \in 2 .. Len(Wire(c))
  BY OneMoreArg, OpsAre
<1>2. mmio_addr \in [1..WordBytes -> Byte \cup {0}] /\ rx_byte_idx \in 0 .. WordBytes - 1
  BY DEF Inv, TypeOK, ArgsTyped, CountsTyped
<1>3. /\ Restart /\ Quiet /\ halt' = halt /\ mmio_addr' = Put(mmio_addr, rx_byte_idx, rx)
      /\ Advance("MMIO_READ_WAIT")
  BY DEF TakeMmioAddr
<1>4. (byte - 2) + 1 = byte - 1 /\ byte - 2 \in 0 .. WordBytes - 1
  BY <1>1, <1>2
<1>5. \A i \in 1 .. byte - 1 : mmio_addr'[i] = c.arg[i]
  <2> DEFINE k == byte - 2
  <2>1. k + 1 = byte - 1 /\ k \in 0 .. WordBytes - 1 /\ rx = c.arg[k + 1] /\ \A i \in 1..k : mmio_addr[i] = c.arg[i]
    BY <1>4
  <2>2. DOMAIN mmio_addr = 1..WordBytes
    BY <1>2
  <2>3. mmio_addr' = Put(mmio_addr, k, rx)
    BY <1>3
  <2> HIDE DEF k
  <2>4. \A i \in 1 .. k + 1 : Put(mmio_addr, k, rx)[i] = c.arg[i]
    <3>1. PICK g : g = c.arg
      OBVIOUS
    <3>2. /\ k \in 0 .. WordBytes - 1 /\ rx = g[k + 1]
          /\ \A i \in 1..k : mmio_addr[i] = g[i]
      BY <2>1, <3>1
    <3>3. \A i \in 1 .. k + 1 : Put(mmio_addr, k, rx)[i] = g[i]
      BY <2>2, <3>2, PutNext
    <3> QED
      BY <3>1, <3>3
  <2> QED
    BY <2>1, <2>3, <2>4
<1>6. CASE byte - 2 = WordBytes - 1
  <2>1. mmio_addr' \in [1..WordBytes -> Byte \cup {0, rx}]
    BY <1>2, <1>3 DEF Put
  <2>2. byte = Len(Wire(c))
    BY <1>1, <1>6
  <2>3. mmio_addr' = c.arg
    BY <1>1, <1>5, <1>6, <2>1, SameWord
  <2>4. state' = "MMIO_READ_WAIT"
    BY <1>3, <1>6 DEF Advance, Goto
  <2>5. awaiting' = 1 /\ Len(Wanted(c)) = 1 /\ UNCHANGED <<user, call, byte>> /\ inbox' = <<>> /\ gap' >= HostSees
    <3>1. Len(Wanted(c)) = 1
      BY OneMoreArg
    <3> QED
      BY <2>2, <3>1 DEF OneMore
  <2>6. Silent'
    BY <1>3, StaysSilent
  <2>7. Replied(c)' = 0
    BY <2>4 DEF Replied, SendStates
  <2> QED
    BY <1>3, <2>3, <2>4, <2>5, <2>6, <2>7, OpsAre DEF Taking, Answering, Fetching
<1>7. CASE byte - 2 # WordBytes - 1
  <2>1. state' = "RECV_MMIO_ADDR" /\ rx_byte_idx' = byte - 1
    BY <1>3, <1>4, <1>7 DEF Advance, TakeMmioAddr
  <2>2. byte # Len(Wire(c))
    BY <1>1, <1>4, <1>7
  <2> QED
    BY <1>3, <1>5, <2>1, <2>2, StillReceiving
<1> QED
  BY <1>6, <1>7

\* A byte of a call's argument arrives.
LEMMA ReceivingByte ==
  ASSUME Inv, TxInv, HostTyped, Placed, NEW c, Here = c, NEW rx \in Byte \cup {NoByte}, Deliver(rx), Clock(rx),
         rx = Wire(c)[byte], Receiving(c)
  PROVE  Taking(c) /\ OneMore(c) /\ Did(rx) = <<>>
<1>1. inbox = <<>> /\ Silent /\ byte \in 2 .. Len(Wire(c))
  BY DEF Receiving
<1>2. OneMore(c)
  <2>1. Len(Opened \o Arrived) = 0
    BY <1>1, NothingArrives
  <2>2. /\ inbox' = <<>> /\ told' = told /\ awaiting = 0 /\ c.err = "none" /\ WellFormed(c)
        /\ gap' \in Nat /\ gap' >= 2 /\ gap' >= HostSees /\ gap' <= TimeoutCycles
        /\ byte # Len(Wire(c)) => byte' = byte + 1 /\ awaiting' = 0 /\ UNCHANGED <<user, call>>
        /\ byte = Len(Wire(c)) => /\ awaiting' = WordsAwaited(c)
                                  /\ WordsAwaited(c) = 0 => NextCall
                                  /\ WordsAwaited(c) > 0 => UNCHANGED <<user, call, byte>>
    BY <2>1, DeliverHost
  <2>3. WordsAwaited(c) = Len(Wanted(c))
    BY <2>2, CallTyped
  <2> QED
    BY <1>1, <2>2, <2>3 DEF OneMore
<1>3. rx = c.arg[byte - 1] /\ rx \in Byte /\ rx # NoByte
  <2>1. WellFormed(c) /\ c.err = "none"
    BY <1>2 DEF OneMore
  <2>2. \A i \in 2 .. Len(Wire(c)) : Wire(c)[i] = c.arg[i - 1] /\ Wire(c)[i] \in Byte
    BY <2>1, CallTyped
  <2> QED
    BY <1>1, <2>2
<1>4. state \in WaitStates
  BY DEF Receiving, WaitStates
<1>5. Did(rx) = <<>>
  BY <1>1, <1>4, DidAt DEF WaitStates, Silent
<1>6. Taking(c)
  <2>1. Argument(rx)
    BY <1>4, ClockAt
  <2>2. CASE c.op = CMD_READ_REG /\ state = "WAIT_ARG"
    BY <1>2, <1>3, <2>1, <2>2, WaitAt, TakingReg
  <2>3. CASE /\ c.op = CMD_READ_CSR /\ state = "WAIT_ARG_CSR" /\ csr_byte_idx = byte - 2
             /\ \A i \in 1 .. byte - 2 : csr_addr_pending[i] = c.arg[i]
    <3>1. TakeCsrByte(rx)
      BY <1>3, <2>1, <2>3, WaitAt
    <3> QED
      BY <1>1, <1>2, <1>3, <2>3, <3>1, TakingCsr
  <2>4. CASE /\ c.op \in {CMD_READ_MEM, CMD_WRITE_MEM} /\ state = "RECV_MEM_ADDR"
             /\ mem_is_write = (c.op = CMD_WRITE_MEM) /\ rx_byte_idx = byte - 2
             /\ \A i \in 1 .. byte - 2 : mem_addr[i] = c.arg[i]
    <3>1. TakeMemAddr(rx)
      BY <1>3, <2>1, <2>4, WaitAt
    <3> QED
      BY <1>1, <1>2, <1>3, <2>4, <3>1, TakingMemAddr
  <2>5. CASE /\ c.op = CMD_WRITE_MEM /\ state = "RECV_MEM_DATA" /\ rx_byte_idx = byte - 2 - WordBytes
             /\ mem_addr = SubSeq(c.arg, 1, WordBytes)
             /\ \A i \in 1 .. byte - 2 - WordBytes : mem_wdata[i] = c.arg[WordBytes + i]
    <3>1. TakeMemData(rx)
      BY <1>3, <2>1, <2>5, WaitAt
    <3> QED
      BY <1>1, <1>2, <1>3, <2>5, <3>1, TakingMemData
  <2>6. CASE /\ c.op = CMD_READ_MMIO /\ state = "RECV_MMIO_ADDR" /\ rx_byte_idx = byte - 2
             /\ \A i \in 1 .. byte - 2 : mmio_addr[i] = c.arg[i]
    <3>1. TakeMmioAddr(rx)
      BY <1>3, <2>1, <2>6, WaitAt
    <3> QED
      BY <1>1, <1>2, <1>3, <2>6, <3>1, TakingMmio
  <2> QED
    BY <2>2, <2>3, <2>4, <2>5, <2>6 DEF Receiving
<1> QED
  BY <1>2, <1>5, <1>6

\* No byte yet: the debugger waits on, because the next comes in time.
LEMMA ReceivingSilence ==
  ASSUME Inv, TxInv, HostTyped, Placed, NEW c, Here = c, c.err = "none", ~Sent, NEW rx, Silence(rx), Clock(rx), Receiving(c)
  PROVE  /\ Receiving(c)' /\ UNCHANGED <<user, call, byte, awaiting, told, halt, state>> /\ Did(rx) = <<>>
<1>1. inbox = <<>> /\ Silent /\ byte \in 2 .. Len(Wire(c)) /\ awaiting = 0 /\ rx_timeout_cnt + gap <= TimeoutCycles
  BY DEF Receiving
<1>2. MaySend
  BY <1>1 DEF MaySend, Begins
<1>3. rx = NoByte /\ gap # 0 /\ gap' = gap - 1 /\ session' = session
  BY <1>2 DEF Silence
<1>4. inbox' = <<>> /\ UNCHANGED <<user, call, byte, awaiting, told>>
  <2>1. ~(awaiting > 0)
    BY <1>1
  <2>2. inbox' = inbox \o Arrived /\ UNCHANGED <<user, call, byte, awaiting, told>>
    BY <2>1, Zenon DEF Silence
  <2>3. inbox \o Arrived = <<>>
    <3>1. <<>> \o <<>> = <<>>
      OBVIOUS
    <3> QED
      BY <1>1, <3>1, NothingArrives
  <2> QED
    BY <2>2, <2>3
<1>5. state \in WaitStates
  BY DEF Receiving, WaitStates
<1>6. AwaitByte(rx)
  BY <1>3, <1>5, ClockAt, WaitAt
<1>7. /\ UNCHANGED state /\ rx_timeout_cnt' = rx_timeout_cnt + 1 /\ Quiet
      /\ UNCHANGED <<halt, replyVars, argVars>>
  <2>1. gap \in Nat /\ gap >= 1 /\ rx_timeout_cnt \in Nat
    BY <1>3 DEF HostTyped, Inv, TypeOK, CountsTyped
  <2>2. rx_timeout_cnt < TimeoutCycles
    BY <1>1, <2>1
  <2> QED
    BY <1>6, <2>1, <2>2 DEF AwaitByte, TimedOut, FreeRun
<1>8. rx_timeout_cnt' + gap' = rx_timeout_cnt + gap
  <2>1. gap \in Nat /\ rx_timeout_cnt \in Nat
    BY DEF HostTyped, Inv, TypeOK, CountsTyped
  <2> QED
    BY <1>3, <1>7, <2>1
<1>9. Silent'
  BY <1>1, <1>7, StaysSilent
<1>10. Receiving(c)'
  BY <1>1, <1>4, <1>7, <1>8, <1>9 DEF Receiving, argVars, memVars, csrVars
<1>11. Did(rx) = <<>>
  BY <1>1, <1>5, DidAt DEF WaitStates, Silent
<1> QED
  BY <1>4, <1>7, <1>10, <1>11

-----------------------------------------------------------------------------
(* An answer, clock by clock.                                               *)
LEMMA DivMod ==
  ASSUME NEW q \in Nat, NEW b \in 0 .. WordBytes - 1
  PROVE  /\ WordBytes * q + b \in Nat
         /\ (WordBytes * q + b) \div WordBytes = q /\ (WordBytes * q + b) % WordBytes = b
<1>1. WordBytes * q \in Nat
  OBVIOUS
<1>2. (WordBytes * q) \div WordBytes = q /\ (WordBytes * q) % WordBytes = 0
  OBVIOUS
<1> QED
  BY <1>1, <1>2

\* The bytes of a reply, by word and byte.
LEMMA ReplyBound ==
  ASSUME NEW n \in Nat, NEW k \in 1..n, NEW b \in 0..WordBytes
  PROVE  WordBytes * (n - k) + b \in 0 .. WordBytes * n
<1>1. n - k \in Nat /\ n - k <= n - 1
  OBVIOUS
<1>2. WordBytes * (n - k) \in Nat /\ WordBytes * (n - k) <= WordBytes * (n - 1)
  BY <1>1
<1>3. WordBytes * (n - 1) + WordBytes = WordBytes * n
  OBVIOUS
<1>4. WordBytes * (n - k) + b <= WordBytes * (n - 1) + WordBytes
  BY <1>1, <1>2
<1> QED
  BY <1>2, <1>3, <1>4

\* The effect of a call that is answered is the bytes of its reply.
LEMMA EffectIs ==
  ASSUME NEW c, WellFormed(c), c.err = "none", Len(Wanted(c)) > 0
  PROVE  /\ Len(Wanted(c)) \in Nat
         /\ c.op \in {CMD_READ_REG, CMD_READ_PC, CMD_READ_ALL, CMD_READ_CSR, CMD_READ_MEM, CMD_READ_MMIO}
         /\ Effect(c) = [i \in 1 .. WordBytes * Len(Wanted(c)) |->
                           <<"reply", Wanted(c)[1 + ((i - 1) \div WordBytes)], (i - 1) % WordBytes>>]
<1>1. c.op \in Ops /\ Len(Wanted(c)) \in Nat
  BY CallTyped
<1>2. c.op \in {CMD_READ_REG, CMD_READ_PC, CMD_READ_ALL, CMD_READ_CSR, CMD_READ_MEM, CMD_READ_MMIO}
  BY <1>1, OpsAre, WantedLen
<1>3. c.op \notin {CMD_HALT, CMD_RESUME, CMD_STEP, CMD_WRITE_MEM}
  BY <1>2, OpsAre
<1>4. Effect(c) = [i \in 1 .. WordBytes * Len(Wanted(c)) |->
                           <<"reply", Wanted(c)[1 + ((i - 1) \div WordBytes)], (i - 1) % WordBytes>>]
  BY <1>3 DEF Effect
<1> QED
  BY <1>1, <1>2, <1>4

\* Byte b of the word that is k from the end.
LEMMA EffectAt ==
  ASSUME NEW c, WellFormed(c), c.err = "none", Len(Wanted(c)) > 0,
         NEW k \in 1 .. Len(Wanted(c)), NEW b \in 0 .. WordBytes - 1
  PROVE  Effect(c)[WordBytes * (Len(Wanted(c)) - k) + b + 1] = <<"reply", Wanted(c)[Len(Wanted(c)) + 1 - k], b>>
<1> DEFINE n == Len(Wanted(c))
           i == WordBytes * (n - k) + b + 1
<1>1. n \in Nat
  BY EffectIs
<1>2. n - k \in Nat /\ 1 + (n - k) = n + 1 - k
  BY <1>1
<1>3. (i - 1) \div WordBytes = n - k /\ (i - 1) % WordBytes = b
  <2> DEFINE q == n - k
  <2>1. q \in Nat
    BY <1>2
  <2> HIDE DEF q
  <2>2. WordBytes * q + b \in Nat /\ (WordBytes * q + b) \div WordBytes = q /\ (WordBytes * q + b) % WordBytes = b
    BY <2>1, DivMod
  <2>3. (WordBytes * q + b + 1) - 1 = WordBytes * q + b
    BY <2>2
  <2> QED
    BY <2>2, <2>3 DEF q
<1>4. i \in 1 .. WordBytes * n
  <2>1. b + 1 \in 0..WordBytes
    OBVIOUS
  <2>2. WordBytes * (n - k) + (b + 1) \in 0 .. WordBytes * n
    BY <1>1, <2>1, ReplyBound
  <2>3. WordBytes * (n - k) \in Nat
    BY <1>2
  <2> QED
    BY <2>2, <2>3
<1>5. Effect(c)[i] = <<"reply", Wanted(c)[1 + ((i - 1) \div WordBytes)], (i - 1) % WordBytes>>
  BY <1>4, EffectIs
<1> QED
  BY <1>2, <1>3, <1>5

\* What one clock does to an answer.
AnswerStep(c, rx) ==
  /\ halt' = halt /\ gap' = gap
  /\ Replied(c) \in 0 .. WordBytes * Len(Wanted(c)) /\ Replied(c)' \in 0 .. WordBytes * Len(Wanted(c))
  /\ \/ Replied(c)' = Replied(c) /\ Did(rx) = <<>>
     \/ Replied(c)' = Replied(c) + 1 /\ Did(rx) = <<Effect(c)[Replied(c)']>>
  /\ \/ Answering(c)' /\ told' = told /\ awaiting' = awaiting /\ UNCHANGED <<user, call, byte>>
     \/ /\ awaiting' = awaiting - 1
        /\ told' = Append(told, Says(user, Answers(c)[Len(Wanted(c)) - awaiting']))
        /\ \/ Answering(c)' /\ UNCHANGED <<user, call, byte>>
           \/ /\ awaiting' = 0 /\ NextCall /\ LastSeen' /\ word_count' = 1 /\ gap' > tx_left' /\ inbox' = <<>>
              /\ Replied(c)' = WordBytes * Len(Wanted(c))

\* While the host waits for words it sends nothing.
LEMMA AnswerHost ==
  ASSUME HostTyped, Placed, NEW c, Here = c, awaiting > 0, NEW rx, Silence(rx)
  PROVE  /\ rx = NoByte /\ gap' = gap /\ session' = session
         /\ inbox \o Arrived \in Seq(RxByte) /\ Read(inbox \o Arrived, awaiting)
         /\ user \in Nat /\ told \in Seq(Said) /\ awaiting \in Nat /\ gap \in Nat
         /\ WellFormed(c) /\ c.err = "none" /\ awaiting <= Len(Wanted(c)) /\ Len(Wanted(c)) \in Nat
<1>1. rx = NoByte /\ gap' = gap /\ session' = session
  BY DEF Silence, MaySend, HostTyped
<1>2. inbox \o Arrived \in Seq(RxByte)
  BY Boxes DEF HostTyped
<1>3. Read(inbox \o Arrived, awaiting)
  BY Zenon DEF Silence
<1>4. ~Sent /\ c.err = "none" /\ awaiting <= WordsAwaited(c)
  BY DEF Placed
<1>5. WellFormed(c) /\ user \in Nat /\ told \in Seq(Said) /\ awaiting \in Nat /\ gap \in Nat
  BY <1>4, HereTyped DEF HostTyped
<1>6. WordsAwaited(c) = Len(Wanted(c)) /\ WordsAwaited(c) \in Nat
  BY <1>4, <1>5, CallTyped
<1> QED
  BY <1>1, <1>2, <1>3, <1>4, <1>5, <1>6

\* Less than a word is there.
LEMMA AnswerWaits ==
  ASSUME HostTyped, Placed, NEW c, Here = c, awaiting > 0, NEW rx, Silence(rx), Len(inbox \o Arrived) < WordBytes
  PROVE  inbox' = inbox \o Arrived /\ told' = told /\ awaiting' = awaiting /\ UNCHANGED <<user, call, byte>>
  BY AnswerHost, ShortRead

\* The access of READ_MEM or READ_MMIO goes on, or its word is about to be sent.
LEMMA AnswerFetching ==
  ASSUME Inv, TxInv, HostTyped, Placed, NEW c, Here = c, NEW rx, Silence(rx), Clock(rx), Answering(c), Fetching(c)
  PROVE  AnswerStep(c, rx)
<1>1. awaiting = 1 /\ Silent /\ inbox = <<>> /\ gap >= HostSees /\ c.op \in {CMD_READ_MEM, CMD_READ_MMIO}
  BY DEF Answering, Fetching
<1>2. Len(Wanted(c)) = 1
  BY <1>1, WantedLen
<1>3. /\ rx = NoByte /\ gap' = gap /\ told' = told /\ awaiting' = awaiting /\ UNCHANGED <<user, call, byte>>
      /\ inbox' = <<>>
  <2>1. Len(inbox \o Arrived) < WordBytes /\ inbox \o Arrived = <<>>
    <3>1. <<>> \o <<>> = <<>> /\ Len(<<>>) = 0
      OBVIOUS
    <3> QED
      BY <1>1, <3>1, NothingArrives
  <2> QED
    BY <1>1, <2>1, AnswerHost, AnswerWaits
<1>4. Did(rx) = <<>> /\ Replied(c) = 0
  <2>1. state \in {"MEM_READ_WAIT", "MEM_READ_LATCH", "MMIO_READ_WAIT", "MMIO_READ_LATCH"}
    BY DEF Fetching
  <2> QED
    BY <1>1, <2>1, DidAt DEF Silent, Replied, SendStates
<1>5. Answering(c)' /\ Replied(c)' = 0 /\ halt' = halt
  <2>1. CASE state \in {"MEM_READ_WAIT", "MMIO_READ_WAIT"}
    <3>1. ReadWait
      BY <2>1, ClockAt
    <3>2. Silent'
      BY <1>1, <3>1, StaysSilent DEF ReadWait
    <3>3. state' \in {"MEM_READ_LATCH", "MMIO_READ_LATCH"}
      BY <3>1 DEF ReadWait, Goto
    <3>4. Fetching(c)'
      BY <1>1, <1>3, <2>1, <3>1, <3>2 DEF Fetching, ReadWait, Goto, argVars, memVars
    <3>5. Replied(c)' = 0
      BY <3>3 DEF Replied, SendStates
    <3> QED
      BY <1>1, <1>3, <3>1, <3>4, <3>5 DEF Answering, ReadWait
  <2>2. CASE state \in {"MEM_READ_LATCH", "MMIO_READ_LATCH"}
    <3>1. ReadLatch
      BY <2>2, ClockAt
    <3>2. word_count' = 1 /\ byte_sel' = 0 /\ state' = "SEND_BYTE_START" /\ halt' = halt
      BY <3>1 DEF ReadLatch, Goto
    <3>3. cur_word' = Wanted(c)[1]
      <4>1. CASE state = "MEM_READ_LATCH"
        <5>1. c.op = CMD_READ_MEM /\ mem_addr = c.arg
          BY <4>1 DEF Fetching
        <5> QED
          BY <3>1, <4>1, <5>1, WantedIs DEF ReadLatch
      <4>2. CASE state = "MMIO_READ_LATCH"
        <5>1. c.op = CMD_READ_MMIO /\ mmio_addr = c.arg
          BY <4>2 DEF Fetching
        <5> QED
          BY <3>1, <4>2, <5>1, WantedIs DEF ReadLatch
      <4> QED
        BY <2>2, <4>1, <4>2
    <3>4. Replied(c)' = 0
      <4>1. WordBytes * (1 - 1) + 0 = 0
        OBVIOUS
      <4> QED
        BY <1>2, <3>2, <4>1 DEF Replied, SendStates
    <3>5. Replying(c)'
      <4>1. inbox' = [i \in 1..0 |-> <<cur_word', i - 1>>]
        BY <1>3
      <4>2. 1 + 1 - 1 = 1 /\ 1 \in 1..1 /\ c.op # CMD_READ_ALL
        BY <1>1, OpsAre
      <4> QED
        BY <1>1, <1>2, <1>3, <3>2, <3>3, <4>1, <4>2 DEF Replying, SendStates, Taken, LastSeen, Seen
    <3> QED
      BY <1>1, <1>3, <3>2, <3>4, <3>5 DEF Answering
  <2> QED
    BY <2>1, <2>2 DEF Fetching
<1>6. 0 \in 0 .. WordBytes * Len(Wanted(c))
  BY <1>2
<1> QED
  BY <1>3, <1>4, <1>5, <1>6 DEF AnswerStep

\* The bytes that have been sent, by the state of the reply.
LEMMA RepliedIs ==
  ASSUME NEW c, Replying(c), WellFormed(c), c.err = "none", byte_sel \in 0 .. WordBytes - 1
  PROVE  /\ word_count \in 1 .. Len(Wanted(c)) /\ Len(Wanted(c)) \in Nat /\ Len(Wanted(c)) > 0
         /\ state = "SEND_LOAD" => Replied(c) = WordBytes * (Len(Wanted(c)) - word_count)
         /\ state = "SEND_BYTE_START" \/ (state \in SendStates \ {"SEND_LOAD"} /\ tx_en) =>
              Replied(c) = WordBytes * (Len(Wanted(c)) - word_count) + byte_sel
         /\ state \in {"SEND_BYTE_WAIT_BUSY", "SEND_BYTE_WAIT_DONE"} /\ ~tx_en =>
              Replied(c) = WordBytes * (Len(Wanted(c)) - word_count) + (byte_sel + 1)
         /\ Replied(c) \in 0 .. WordBytes * Len(Wanted(c))
<1>1. word_count \in 1 .. Len(Wanted(c)) /\ Len(Wanted(c)) \in Nat /\ Len(Wanted(c)) > 0 /\ state \in SendStates
  <2>1. Len(Wanted(c)) \in Nat
    BY CallTyped
  <2> QED
    BY <2>1 DEF Replying
<1> DEFINE r == WordBytes * (Len(Wanted(c)) - word_count)
<1>2. /\ r + 0 \in 0 .. WordBytes * Len(Wanted(c)) /\ r + byte_sel \in 0 .. WordBytes * Len(Wanted(c))
      /\ r + (byte_sel + 1) \in 0 .. WordBytes * Len(Wanted(c)) /\ r + 0 = r
  <2>1. 0 \in 0..WordBytes /\ byte_sel \in 0..WordBytes /\ byte_sel + 1 \in 0..WordBytes
    OBVIOUS
  <2>2. Len(Wanted(c)) - word_count \in Nat
    BY <1>1
  <2>3. r \in Nat
    BY <2>2
  <2> QED
    BY <1>1, <2>1, <2>3, ReplyBound
<1>3. Replied(c) = r + (IF state = "SEND_LOAD" THEN 0
                        ELSE IF state = "SEND_BYTE_START" \/ tx_en THEN byte_sel ELSE byte_sel + 1)
  BY <1>1 DEF Replied
<1> HIDE DEF r
<1>4. /\ state = "SEND_LOAD" => Replied(c) = r
      /\ state = "SEND_BYTE_START" \/ (state \in SendStates \ {"SEND_LOAD"} /\ tx_en) => Replied(c) = r + byte_sel
      /\ state \in {"SEND_BYTE_WAIT_BUSY", "SEND_BYTE_WAIT_DONE"} /\ ~tx_en => Replied(c) = r + (byte_sel + 1)
  BY <1>2, <1>3 DEF SendStates
<1>5. Replied(c) \in 0 .. WordBytes * Len(Wanted(c))
  BY <1>2, <1>3
<1> QED
  BY <1>1, <1>4, <1>5 DEF r

\* The next state of an answer of which the host has read no more words.
LEMMA StillReplying ==
  ASSUME NEW c, awaiting > 0, gap >= HostSees, gap' = gap, awaiting' = awaiting, Replying(c)'
  PROVE  Answering(c)'
  BY DEF Answering

\* A clock in each of the states of a reply: a word is loaded,
LEMMA AnswerLoad ==
  ASSUME Inv, TxInv, HostTyped, Placed, NEW c, Here = c, NEW rx, Silence(rx), Clock(rx), Answering(c), Replying(c),
         state = "SEND_LOAD"
  PROVE  AnswerStep(c, rx)
<1>1. /\ tx_left = 0 /\ ~tx_en /\ byte_sel \in 0 .. WordBytes - 1
  BY DEF TxInv, Inv, TypeOK, CountsTyped, FlagsTyped
<1>2. awaiting > 0 /\ gap >= HostSees /\ inbox = [i \in 1..0 |-> <<cur_word, i - 1>>] /\ awaiting = word_count
  BY DEF Answering, Replying, Taken, LastSeen, Seen
<1>3. inbox = <<>>
  BY <1>2
<1>4. /\ rx = NoByte /\ gap' = gap /\ told' = told /\ awaiting' = awaiting /\ UNCHANGED <<user, call, byte>>
      /\ inbox' = <<>>
  <2>1. Len(inbox \o Arrived) < WordBytes /\ inbox \o Arrived = <<>>
    <3>1. <<>> \o <<>> = <<>> /\ Len(<<>>) = 0
      OBVIOUS
    <3> QED
      BY <1>1, <1>3, <3>1, NothingArrives DEF Silent
  <2> QED
    BY <1>2, <2>1, AnswerHost, AnswerWaits
<1>5. SendLoad
  BY ClockAt
<1>6. /\ state' = "SEND_BYTE_START" /\ byte_sel' = 0 /\ halt' = halt
      /\ cur_word' = ToLoad /\ UNCHANGED <<word_sel, word_count, reading_csr>>
  BY <1>5 DEF SendLoad, Goto, ToLoad
<1>7. Replying(c)'
  <2>1. inbox' = [i \in 1..0 |-> <<cur_word', i - 1>>]
    BY <1>4
  <2> QED
    BY <1>2, <1>4, <1>6, <2>1 DEF Replying, SendStates, Taken, LastSeen, Seen
<1>8. WellFormed(c) /\ c.err = "none"
  BY <1>2, AnswerHost
<1>9. Replied(c)' = Replied(c) /\ Replied(c) \in 0 .. WordBytes * Len(Wanted(c))
  <2>1. Replied(c) = WordBytes * (Len(Wanted(c)) - word_count) /\ Replied(c) \in 0 .. WordBytes * Len(Wanted(c))
    BY <1>1, <1>8, RepliedIs
  <2>2. Replied(c)' = WordBytes * (Len(Wanted(c)) - word_count) + 0
    BY <1>6 DEF Replied, SendStates
  <2> QED
    BY <2>1, <2>2
<1>10. Did(rx) = <<>>
  BY <1>1, DidAt
<1>11. Answering(c)'
  BY <1>2, <1>4, <1>7, StillReplying
<1> QED
  BY <1>4, <1>6, <1>9, <1>10, <1>11 DEF AnswerStep

\* Less than a word is in the box while byte_sel bytes of it are.
LEMMA BoxOf ==
  ASSUME NEW w, NEW k \in Nat
  PROVE  Len([i \in 1..k |-> <<w, i - 1>>]) = k
  OBVIOUS

\* ... a frame is started,
LEMMA AnswerStart ==
  ASSUME Inv, TxInv, HostTyped, Placed, NEW c, Here = c, NEW rx, Silence(rx), Clock(rx), Answering(c), Replying(c),
         state = "SEND_BYTE_START"
  PROVE  AnswerStep(c, rx)
<1>1. /\ tx_left = 0 /\ ~tx_en /\ byte_sel \in 0 .. WordBytes - 1
  BY DEF TxInv, Inv, TypeOK, CountsTyped, FlagsTyped
<1>2. awaiting > 0 /\ gap >= HostSees /\ inbox = [i \in 1..byte_sel |-> <<cur_word, i - 1>>] /\ awaiting = word_count
  BY DEF Answering, Replying, Taken, LastSeen, Seen
<1>3. Len(inbox) < WordBytes
  BY <1>1, <1>2, BoxOf
<1>4. /\ rx = NoByte /\ gap' = gap /\ told' = told /\ awaiting' = awaiting /\ UNCHANGED <<user, call, byte>>
      /\ inbox' = inbox
  <2>1. inbox \o Arrived = inbox
    <3>1. Arrived = <<>>
      BY <1>1, NothingArrives DEF Silent
    <3> QED
      BY <3>1 DEF HostTyped
  <2> QED
    <3>1. Len(inbox \o Arrived) < WordBytes
      BY <1>3, <2>1
    <3>2. inbox' = inbox \o Arrived /\ told' = told /\ awaiting' = awaiting /\ UNCHANGED <<user, call, byte>>
      BY <1>2, <3>1, AnswerWaits
    <3> QED
      BY <1>2, <2>1, <3>2, AnswerHost
<1>5. SendByteStart
  BY ClockAt
<1>6. /\ state' = "SEND_BYTE_WAIT_BUSY" /\ tx_en' = TRUE /\ tx_data' = <<cur_word, byte_sel>> /\ halt' = halt
      /\ UNCHANGED <<word_sel, word_count, reading_csr, cur_word, byte_sel>>
  BY <1>1, <1>5 DEF SendByteStart, Goto, tx_busy, replyVars
<1>7. Replying(c)'
  BY <1>2, <1>4, <1>6 DEF Replying, SendStates, Taken, LastSeen, Seen
<1>8. WellFormed(c) /\ c.err = "none"
  BY <1>2, AnswerHost
<1>9. Replied(c)' = Replied(c) /\ Replied(c) \in 0 .. WordBytes * Len(Wanted(c))
  <2>1. Replied(c) = WordBytes * (Len(Wanted(c)) - word_count) + byte_sel /\ Replied(c) \in 0 .. WordBytes * Len(Wanted(c))
    BY <1>1, <1>8, RepliedIs
  <2>2. Replied(c)' = WordBytes * (Len(Wanted(c)) - word_count) + byte_sel
    BY <1>6 DEF Replied, SendStates
  <2> QED
    BY <2>1, <2>2
<1>10. Did(rx) = <<>>
  BY <1>1, DidAt
<1>11. Answering(c)'
  BY <1>2, <1>4, <1>7, StillReplying
<1> QED
  BY <1>4, <1>6, <1>9, <1>10, <1>11 DEF AnswerStep

\* One more byte of a word in the box.
LEMMA BoxMore ==
  ASSUME NEW w \in Source, NEW k \in Nat
  PROVE  [i \in 1..k |-> <<w, i - 1>>] \o <<<<w, k>>>> = [i \in 1 .. k + 1 |-> <<w, i - 1>>]
<1> DEFINE s == [i \in 1..k |-> <<w, i - 1>>]
<1>1. s \in Seq(RxByte) /\ Len(s) = k
  <2>1. \A i \in 1..k : <<w, i - 1>> \in RxByte
    BY DEF RxByte
  <2> QED
    BY <2>1
<1>2. \A i \in 1..k : s[i] = <<w, i - 1>>
  OBVIOUS
<1>3. <<w, k>> \in RxByte
  BY DEF RxByte
<1> HIDE DEF s
<1>4. s \o <<<<w, k>>>> = Append(s, <<w, k>>)
  BY <1>1, <1>3, AppendIs
<1>5. Append(s, <<w, k>>) = [i \in 1 .. k + 1 |-> IF i <= k THEN s[i] ELSE <<w, k>>]
  BY <1>1, <1>3
<1>6. ASSUME NEW i \in 1 .. k + 1 PROVE (IF i <= k THEN s[i] ELSE <<w, k>>) = <<w, i - 1>>
  <2>1. CASE i <= k
    BY <1>2, <2>1
  <2>2. CASE ~(i <= k)
    <3>1. i - 1 = k
      BY <2>2
    <3> QED
      BY <2>2, <3>1
  <2> QED
    BY <2>1, <2>2
<1> QED
  BY <1>4, <1>5, <1>6 DEF s

\* The answers of a call, by the words that are left.
LEMMA AnswersAt ==
  ASSUME NEW c, WellFormed(c), c.err = "none", NEW k \in 1 .. Len(Wanted(c))
  PROVE  /\ Len(Wanted(c)) + 1 - k \in DOMAIN Answers(c)
         /\ Answers(c)[Len(Wanted(c)) + 1 - k] = Answer(Wanted(c)[Len(Wanted(c)) + 1 - k])
<1>1. Len(Wanted(c)) \in Nat /\ DOMAIN Wanted(c) = 1 .. Len(Wanted(c))
  <2>1. Len(Wanted(c)) \in Nat /\ Len(Wanted(c)) > 0
    BY CallTyped
  <2> QED
    BY <2>1, EffectIs, WantedIs, OpsAre
<1>2. Len(Wanted(c)) + 1 - k \in DOMAIN Wanted(c)
  BY <1>1
<1> QED
  BY <1>2 DEF Answers

\* A clock in the middle of a frame.
LEMMA AnswerFrame ==
  ASSUME Inv, TxInv, HostTyped, Placed, NEW c, Here = c, NEW rx, Silence(rx), Answering(c), Replying(c),
         state \in {"SEND_BYTE_WAIT_BUSY", "SEND_BYTE_WAIT_DONE"}, state = "SEND_BYTE_WAIT_BUSY" => tx_left = TxCycles,
         ~tx_en, tx_left > 0,
         state' = "SEND_BYTE_WAIT_DONE", tx_left' = tx_left - 1, tx_en' = FALSE, halt' = halt,
         UNCHANGED <<tx_data, word_sel, word_count, byte_sel, cur_word, reading_csr>>
  PROVE  AnswerStep(c, rx)
<1> DEFINE n == Len(Wanted(c))
           b == byte_sel
<1>1. /\ tx_left \in Nat /\ b \in 0 .. WordBytes - 1 /\ cur_word \in Source /\ inbox \in Seq(RxByte)
      /\ HostSees \in Nat /\ HostSees >= 1 /\ HostSees <= TxCycles
  BY LinkSizes DEF Inv, TypeOK, CountsTyped, HostTyped
<1>2. awaiting > 0 /\ gap >= HostSees /\ tx_data = <<cur_word, b>>
  BY DEF Answering, Replying
<1>3. /\ rx = NoByte /\ gap' = gap /\ WellFormed(c) /\ c.err = "none" /\ n \in Nat
      /\ Read(inbox \o Arrived, awaiting) /\ inbox \o Arrived \in Seq(RxByte)
      /\ user \in Nat /\ told \in Seq(Said) /\ awaiting \in Nat /\ gap \in Nat
  BY <1>2, AnswerHost
<1>4. word_count \in 1..n /\ cur_word = Wanted(c)[n + 1 - word_count]
  BY <1>3, RepliedIs DEF Replying
<1>5. Replied(c)' = Replied(c) /\ Replied(c) \in 0 .. WordBytes * n
      /\ Replied(c) = WordBytes * (n - word_count) + (b + 1)
  <2>1. Replied(c) = WordBytes * (n - word_count) + (b + 1) /\ Replied(c) \in 0 .. WordBytes * n
    BY <1>1, <1>3, RepliedIs
  <2>2. Replied(c)' = WordBytes * (n - word_count) + (b + 1)
    BY DEF Replied, SendStates
  <2> QED
    BY <2>1, <2>2
<1>6. Did(rx) = <<>>
  BY DidAt
<1>7. Arrived = (IF tx_left = HostSees THEN <<tx_data>> ELSE <<>>)
  BY DEF Arrived
\* What Replying asks of the next state.
<1>8. ASSUME IF LastSeen' THEN awaiting' = word_count - 1 /\ inbox' = <<>>
             ELSE awaiting' = word_count /\ inbox' = [i \in 1..Taken' |-> <<cur_word, i - 1>>]
      PROVE  Replying(c)'
  BY <1>2, <1>4, <1>8 DEF Replying, SendStates
<1>9. CASE tx_left # HostSees
  <2>1. inbox \o Arrived = inbox
    <3>1. inbox \o <<>> = inbox
      BY <1>1
    <3> QED
      BY <1>7, <1>9, <3>1
  <2>2. LastSeen' = LastSeen /\ Taken' = Taken
    <3>1. Seen' = (tx_left - 1 < HostSees)
      BY DEF Seen
    <3>2. Seen = (tx_left < HostSees)
      BY <1>1 DEF Seen
    <3>3. (tx_left - 1 < HostSees) = (tx_left < HostSees)
      BY <1>1, <1>9
    <3>4. Seen' = Seen
      BY <3>1, <3>2, <3>3
    <3>5. Taken = IF Seen THEN b + 1 ELSE b
      BY DEF Taken
    <3>6. Taken' = IF Seen' THEN b + 1 ELSE b
      BY DEF Taken
    <3> QED
      BY <3>4, <3>5, <3>6 DEF LastSeen
  <2>3. Len(inbox) < WordBytes
    <3>1. CASE LastSeen
      <4>1. inbox = <<>>
        BY <3>1 DEF Replying
      <4> QED
        BY <4>1
    <3>2. CASE ~LastSeen
      <4>1. inbox = [i \in 1..Taken |-> <<cur_word, i - 1>>]
        BY <3>2 DEF Replying
      <4>2. Taken \in Nat /\ Taken < WordBytes
        BY <1>1, <3>2 DEF Taken, LastSeen
      <4> QED
        BY <4>1, <4>2, BoxOf
    <3> QED
      BY <3>1, <3>2
  <2>4. inbox' = inbox /\ told' = told /\ awaiting' = awaiting /\ UNCHANGED <<user, call, byte>>
    <3>1. Len(inbox \o Arrived) < WordBytes
      BY <2>1, <2>3
    <3>2. inbox' = inbox \o Arrived /\ told' = told /\ awaiting' = awaiting /\ UNCHANGED <<user, call, byte>>
      BY <1>2, <3>1, AnswerWaits
    <3> QED
      BY <2>1, <3>2
  <2>5. Replying(c)'
    BY <1>8, <2>2, <2>4 DEF Replying
  <2>6. Answering(c)'
    BY <1>2, <1>3, <2>4, <2>5, StillReplying
  <2> QED
    BY <1>3, <1>5, <1>6, <2>4, <2>6 DEF AnswerStep
<1>10. CASE tx_left = HostSees
  <2>1. ~Seen /\ Seen' /\ ~LastSeen /\ LastSeen' = (b = WordBytes - 1) /\ Taken = b /\ Taken' = b + 1
    <3>1. Seen' = (tx_left - 1 < HostSees) /\ Seen = (state = "SEND_BYTE_WAIT_DONE" /\ tx_left < HostSees)
      BY DEF Seen
    <3>2. Seen' = TRUE /\ Seen = FALSE
      <4>1. tx_left - 1 < HostSees /\ ~(tx_left < HostSees)
        BY <1>1, <1>10
      <4> QED
        BY <3>1, <4>1
    <3> QED
      BY <3>2 DEF LastSeen, Taken
  <2>2. awaiting = word_count /\ inbox = [i \in 1..b |-> <<cur_word, i - 1>>]
    BY <2>1 DEF Replying
  <2>3. inbox \o Arrived = [i \in 1 .. b + 1 |-> <<cur_word, i - 1>>]
    <3>1. Arrived = <<<<cur_word, b>>>>
      BY <1>2, <1>7, <1>10
    <3>2. b \in Nat
      BY <1>1
    <3>3. [i \in 1..b |-> <<cur_word, i - 1>>] \o <<<<cur_word, b>>>> = [i \in 1 .. b + 1 |-> <<cur_word, i - 1>>]
      BY <1>1, <3>2, BoxMore
    <3> QED
      BY <2>2, <3>1, <3>3, Zenon
  <2>4. Len(inbox \o Arrived) = b + 1
    BY <1>1, <2>3, BoxOf
  <2>5. CASE b # WordBytes - 1
    <3>1. Len(inbox \o Arrived) < WordBytes
      BY <1>1, <2>4, <2>5
    <3>2. inbox' = inbox \o Arrived /\ told' = told /\ awaiting' = awaiting /\ UNCHANGED <<user, call, byte>>
      BY <1>2, <3>1, AnswerWaits
    <3>3. Replying(c)'
      BY <1>8, <2>1, <2>2, <2>3, <2>5, <3>2
    <3>4. Answering(c)'
      BY <1>2, <1>3, <3>2, <3>3, StillReplying
    <3> QED
      BY <1>3, <1>5, <1>6, <3>2, <3>4 DEF AnswerStep
  <2>6. CASE b = WordBytes - 1
    <3>1. Len(inbox \o Arrived) = WordBytes
      BY <1>1, <2>4, <2>6
    <3>2. /\ inbox' = <<>> /\ awaiting' = awaiting - 1 /\ told' = Append(told, Says(user, inbox \o Arrived))
          /\ awaiting = 1 => NextCall
          /\ awaiting > 1 => UNCHANGED <<user, call, byte>>
      BY <1>2, <1>3, <3>1, WordRead
    <3>3. inbox \o Arrived = Answers(c)[n - awaiting']
      <4>1. Answers(c)[n + 1 - word_count] = Answer(Wanted(c)[n + 1 - word_count])
        BY <1>3, <1>4, AnswersAt
      <4>2. n - awaiting' = n + 1 - word_count
        BY <1>3, <1>4, <2>2, <3>2
      <4>3. b + 1 = WordBytes
        BY <1>1, <2>6
      <4> QED
        BY <1>4, <2>3, <4>1, <4>2, <4>3 DEF Answer
    <3>4. told' = Append(told, Says(user, Answers(c)[n - awaiting']))
      BY <3>2, <3>3
    <3>5. LastSeen' /\ word_count' = word_count
      BY <2>1, <2>6
    <3>6. CASE awaiting = 1
      <4>1. gap' > tx_left'
        BY <1>1, <1>2, <1>3, <1>10
      <4>2. Replied(c)' = WordBytes * n
        <5>1. WordBytes * (n - 1) + WordBytes = WordBytes * n
          BY <1>3
        <5>2. b + 1 = WordBytes /\ word_count = 1
          BY <1>1, <2>2, <2>6, <3>6
        <5> QED
          BY <1>5, <5>1, <5>2
      <4>3. awaiting' = 0 /\ NextCall /\ word_count' = 1 /\ inbox' = <<>>
        BY <2>2, <3>2, <3>6
      <4> QED
        BY <1>3, <1>5, <1>6, <3>2, <3>4, <3>5, <4>1, <4>2, <4>3 DEF AnswerStep
    <3>7. CASE awaiting # 1
      <4>1. awaiting > 1 /\ awaiting' > 0
        BY <1>2, <1>3, <3>2, <3>7
      <4>2. Replying(c)'
        BY <1>8, <2>2, <3>2, <3>5
      <4>3. Answering(c)'
        BY <1>2, <1>3, <4>1, <4>2 DEF Answering
      <4> QED
        BY <1>3, <1>5, <1>6, <3>2, <3>4, <4>1, <4>3 DEF AnswerStep
    <3> QED
      BY <3>6, <3>7
  <2> QED
    BY <2>5, <2>6
<1> QED
  BY <1>9, <1>10

\* ... UART_TX takes it,
LEMMA AnswerBusy ==
  ASSUME Inv, TxInv, HostTyped, Placed, NEW c, Here = c, NEW rx, Silence(rx), Clock(rx), Answering(c), Replying(c),
         state = "SEND_BYTE_WAIT_BUSY"
  PROVE  AnswerStep(c, rx)
<1>1. SendByteWaitBusy
  BY ClockAt
<1>2. /\ tx_en' = FALSE /\ Transmit /\ halt' = halt
      /\ UNCHANGED <<tx_data, word_sel, word_count, byte_sel, cur_word, reading_csr>>
      /\ state' = IF tx_busy THEN "SEND_BYTE_WAIT_DONE" ELSE state
  BY <1>1 DEF SendByteWaitBusy, Quiet, replyVars
<1>3. tx_left \in Nat /\ TxCycles \in Nat /\ TxCycles >= 1 /\ tx_en \in BOOLEAN /\ byte_sel \in 0 .. WordBytes - 1
  BY LinkSizes DEF Inv, TypeOK, CountsTyped, FlagsTyped
<1>4. CASE ~tx_en
  <2>1. tx_left = TxCycles /\ tx_left > 0
    BY <1>3, <1>4 DEF TxInv
  <2>2. state' = "SEND_BYTE_WAIT_DONE" /\ tx_left' = tx_left - 1
    BY <1>2, <2>1 DEF tx_busy, Transmit
  <2> QED
    BY <1>2, <1>4, <2>1, <2>2, AnswerFrame
<1>5. CASE tx_en
  <2>1. tx_left = 0 /\ state' = state
    BY <1>2, <1>3, <1>5 DEF TxInv, tx_busy
  <2>2. awaiting > 0 /\ gap >= HostSees /\ inbox = [i \in 1..byte_sel |-> <<cur_word, i - 1>>]
        /\ awaiting = word_count /\ tx_data = <<cur_word, byte_sel>>
    BY DEF Answering, Replying, Taken, LastSeen, Seen
  <2>3. Len(inbox) < WordBytes
    BY <1>3, <2>2, BoxOf
  <2>4. /\ rx = NoByte /\ gap' = gap /\ told' = told /\ awaiting' = awaiting /\ UNCHANGED <<user, call, byte>>
        /\ inbox' = inbox /\ WellFormed(c) /\ c.err = "none"
    <3>1. inbox \o Arrived = inbox
      <4>1. Arrived = <<>>
        BY <2>1, LinkSizes DEF Arrived
      <4> QED
        BY <4>1 DEF HostTyped
    <3>2. Len(inbox \o Arrived) < WordBytes
      BY <2>3, <3>1
    <3>3. inbox' = inbox \o Arrived /\ told' = told /\ awaiting' = awaiting /\ UNCHANGED <<user, call, byte>>
      BY <2>2, <3>2, AnswerWaits
    <3> QED
      BY <2>2, <3>1, <3>3, AnswerHost
  <2>5. Replying(c)'
    BY <1>2, <2>1, <2>2, <2>4 DEF Replying, SendStates, Taken, LastSeen, Seen
  <2>6. Answering(c)'
    BY <2>2, <2>4, <2>5, StillReplying
  <2> DEFINE n == Len(Wanted(c))
             r == WordBytes * (n - word_count)
  <2>7. /\ word_count \in 1..n /\ n > 0 /\ Replied(c) = r + byte_sel /\ Replied(c) \in 0 .. WordBytes * n
        /\ n \in Nat
    BY <1>3, <1>5, <2>4, RepliedIs DEF SendStates
  <2>8. Replied(c)' = r + (byte_sel + 1)
    BY <1>2, <2>1 DEF Replied, SendStates
  <2>9. r \in Nat /\ r + (byte_sel + 1) \in 0 .. WordBytes * n /\ r + (byte_sel + 1) = r + byte_sel + 1
    <3>1. n - word_count \in Nat
      BY <2>7
    <3>2. r \in Nat
      BY <3>1
    <3>3. byte_sel + 1 \in 0..WordBytes
      BY <1>3
    <3> QED
      BY <1>3, <2>7, <3>2, <3>3, ReplyBound
  <2>10. Effect(c)[r + byte_sel + 1] = <<"reply", cur_word, byte_sel>>
    <3>1. cur_word = Wanted(c)[n + 1 - word_count]
      BY DEF Replying
    <3> QED
      BY <1>3, <2>4, <2>7, <3>1, EffectAt
  <2>11. Did(rx) = <<<<"reply", cur_word, byte_sel>>>>
    BY <1>5, <2>2, DidAt
  <2> HIDE DEF r
  <2>12. Replied(c)' = Replied(c) + 1 /\ Replied(c)' \in 0 .. WordBytes * n
    BY <1>3, <2>7, <2>8, <2>9
  <2>13. Did(rx) = <<Effect(c)[Replied(c)']>>
    BY <2>8, <2>9, <2>10, <2>11
  <2> QED
    BY <1>2, <2>4, <2>6, <2>7, <2>12, <2>13 DEF AnswerStep
<1> QED
  BY <1>4, <1>5

\* Arithmetic of byte_sel.
LEMMA Successor == ASSUME NEW a \in Nat, NEW m \in Nat PROVE (a + 1 <= m <=> a < m) /\ (a + 1) - 1 = a
  OBVIOUS

\* ... and the frame goes on, is over, or was the last.
LEMMA AnswerDone ==
  ASSUME Inv, TxInv, HostTyped, Placed, NEW c, Here = c, NEW rx, Silence(rx), Clock(rx), Answering(c), Replying(c),
         state = "SEND_BYTE_WAIT_DONE"
  PROVE  AnswerStep(c, rx)
<1> DEFINE n == Len(Wanted(c))
<1>1. SendByteWaitDone
  BY ClockAt
<1>2. /\ tx_en' = FALSE /\ Transmit /\ halt' = halt
      /\ UNCHANGED <<tx_data, cur_word, reading_csr>> /\ ~tx_en
  BY <1>1 DEF SendByteWaitDone, Quiet, TxInv
<1>3. /\ tx_left \in Nat /\ byte_sel \in 0 .. WordBytes - 1 /\ word_sel \in Nat /\ HostSees >= 1 /\ HostSees \in Nat
      /\ inbox \in Seq(RxByte)
  BY LinkSizes DEF Inv, TypeOK, CountsTyped, HostTyped
<1>4. CASE tx_left > 0
  <2>1. state' = state /\ UNCHANGED <<word_sel, word_count, byte_sel>>
    BY <1>1, <1>4 DEF SendByteWaitDone, tx_busy
  <2>2. tx_left' = tx_left - 1
    BY <1>2, <1>4 DEF Transmit
  <2> QED
    BY <1>2, <1>4, <2>1, <2>2, AnswerFrame
<1>5. CASE tx_left = 0
  <2>1. Seen /\ ~tx_busy /\ Arrived = <<>>
    BY <1>3, <1>5 DEF Seen, tx_busy, Arrived
  <2>2. awaiting > 0 /\ gap >= HostSees
    BY DEF Answering
  <2>3. /\ rx = NoByte /\ gap' = gap /\ WellFormed(c) /\ c.err = "none" /\ n \in Nat /\ awaiting \in Nat
        /\ inbox \o Arrived = inbox
    <3>1. inbox \o <<>> = inbox
      BY <1>3
    <3> QED
      BY <2>1, <2>2, <3>1, AnswerHost
  <2>4. word_count \in 1..n /\ Replied(c) = WordBytes * (n - word_count) + (byte_sel + 1)
        /\ Replied(c) \in 0 .. WordBytes * n
    BY <1>2, <1>3, <2>3, RepliedIs
  <2>5. Did(rx) = <<>>
    BY <1>2, DidAt
  <2>6. CASE byte_sel # WordBytes - 1
    <3>1. byte_sel' = byte_sel + 1 /\ state' = "SEND_BYTE_START" /\ UNCHANGED <<word_sel, word_count>>
      BY <1>1, <2>1, <2>6 DEF SendByteWaitDone, Goto
    <3>2. awaiting = word_count /\ inbox = [i \in 1 .. byte_sel + 1 |-> <<cur_word, i - 1>>]
      BY <2>1, <2>6 DEF Replying, LastSeen, Taken, Seen
    <3>3. Len(inbox \o Arrived) < WordBytes
      <4>1. byte_sel + 1 \in Nat /\ byte_sel + 1 < WordBytes
        BY <1>3, <2>6
      <4> QED
        BY <2>3, <3>2, <4>1, BoxOf
    <3>4. inbox' = inbox \o Arrived /\ told' = told /\ awaiting' = awaiting /\ UNCHANGED <<user, call, byte>>
      BY <2>2, <3>3, AnswerWaits
    <3>5. Replying(c)'
      <4>1. inbox' = inbox
        BY <2>3, <3>4
      <4> QED
        BY <1>2, <3>1, <3>2, <3>4, <4>1 DEF Replying, SendStates, Taken, LastSeen, Seen
    <3>6. Answering(c)'
      BY <2>2, <2>3, <3>4, <3>5, StillReplying
    <3>7. Replied(c)' = Replied(c)
      <4>1. Replied(c)' = WordBytes * (n - word_count) + (byte_sel + 1)
        BY <3>1 DEF Replied, SendStates
      <4> QED
        BY <2>4, <4>1
    <3> QED
      BY <1>2, <2>3, <2>4, <2>5, <3>4, <3>6, <3>7 DEF AnswerStep
  <2>7. CASE byte_sel = WordBytes - 1
    <3>1. awaiting = word_count - 1 /\ inbox = <<>>
      BY <2>1, <2>7 DEF Replying, LastSeen, Seen
    <3>2. word_count # 1 /\ word_count \in Nat
      BY <2>2, <2>3, <2>4, <3>1
    <3>3. /\ state' = "SEND_LOAD" /\ word_sel' = word_sel + 1 /\ word_count' = word_count - 1 /\ byte_sel' = byte_sel
      BY <1>1, <2>1, <2>7, <3>2 DEF SendByteWaitDone, Goto, LastWord
    <3>4. inbox' = <<>> /\ told' = told /\ awaiting' = awaiting /\ UNCHANGED <<user, call, byte>>
      <4>1. Len(inbox \o Arrived) < WordBytes
        BY <2>3, <3>1
      <4>2. inbox' = inbox \o Arrived /\ told' = told /\ awaiting' = awaiting /\ UNCHANGED <<user, call, byte>>
        BY <2>2, <4>1, AnswerWaits
      <4> QED
        BY <2>3, <3>1, <4>2
    <3>5. c.op = CMD_READ_ALL /\ n = NumRegs + 1
      <4>1. c.op \in {CMD_READ_REG, CMD_READ_PC, CMD_READ_ALL, CMD_READ_CSR, CMD_READ_MEM, CMD_READ_MMIO}
        BY <2>3, <2>4, EffectIs
      <4>2. n # 1
        <5>1. n \in Nat /\ word_count \in 1..n /\ word_count # 1
          BY <2>3, <2>4, <3>2
        <5> HIDE DEF n
        <5> QED
          BY <5>1
      <4> QED
        BY <4>1, <4>2, WantedLen
    <3>6. ~reading_csr /\ word_sel = NumRegs + 1 - word_count
      BY <3>5 DEF Replying
    <3>7. word_sel' = NumRegs + 1 - word_count' /\ word_sel' \in Nat /\ word_count' \in 1..n
          /\ n + 1 - word_count' = word_sel' + 1 /\ word_sel' + 1 \in 1 .. NumRegs + 1
      BY <1>3, <2>3, <2>4, <3>2, <3>3, <3>5, <3>6
    <3>8. ToLoad' = Wanted(c)[n + 1 - word_count']
      <4>1. Wanted(c)[word_sel' + 1] = IF word_sel' + 1 <= NumRegs THEN Origin("reg", <<(word_sel' + 1) - 1>>)
                                       ELSE Origin("pc", <<>>)
        BY <3>5, <3>7, WantedIs
      <4>2. (word_sel' + 1 <= NumRegs <=> word_sel' < NumRegs) /\ (word_sel' + 1) - 1 = word_sel'
        <5>1. word_sel' \in Nat
          BY <3>7
        <5> QED
          BY <5>1, Successor
      <4>3. ToLoad' = IF word_sel' < NumRegs THEN Origin("reg", <<word_sel'>>) ELSE Origin("pc", <<>>)
        BY <1>2, <3>6 DEF ToLoad
      <4> QED
        BY <3>7, <4>1, <4>2, <4>3
    <3>9. Replying(c)'
      <4>1. inbox' = [i \in 1..0 |-> <<cur_word', i - 1>>]
        BY <3>4
      <4>2. awaiting' = word_count'
        BY <3>1, <3>3, <3>4
      <4> QED
        BY <1>2, <3>3, <3>6, <3>7, <3>8, <4>1, <4>2 DEF Replying, SendStates, Taken, LastSeen, Seen
    <3>10. Answering(c)'
      BY <2>2, <2>3, <3>4, <3>9, StillReplying
    <3>11. Replied(c)' = Replied(c)
      <4>1. Replied(c)' = WordBytes * (n - word_count') + 0
        BY <3>3 DEF Replied, SendStates
      <4>2. n - word_count' = (n - word_count) + 1 /\ n - word_count \in Nat /\ byte_sel + 1 = WordBytes
        BY <2>3, <2>4, <2>7, <3>2, <3>3
      <4> DEFINE q == n - word_count
      <4>3. q \in Nat
        BY <4>2
      <4> HIDE DEF q
      <4>4. WordBytes * (q + 1) + 0 = WordBytes * q + WordBytes
        BY <4>3
      <4> QED
        BY <2>4, <4>1, <4>2, <4>4 DEF q
    <3> QED
      BY <1>2, <2>3, <2>4, <2>5, <3>4, <3>10, <3>11 DEF AnswerStep
  <2> QED
    BY <2>6, <2>7
<1> QED
  BY <1>3, <1>4, <1>5

\* An answer under way is never given up: it is never silent for as long as a pause.
LEMMA AnswerClock ==
  ASSUME Inv, TxInv, IdleBound, HostTyped, Placed, NEW c, Here = c, NEW rx \in Byte \cup {NoByte}, Host(rx), Clock(rx), Answering(c)
  PROVE  AnswerStep(c, rx)
<1>1. awaiting > 0 /\ state # "CMD_IDLE"
  BY DEF Answering, Fetching, Replying, SendStates
<1>2. ~Paused
  BY <1>1, PausedIdle
<1>3. Silence(rx)
  BY <1>1, <1>2 DEF Host, Deliver, MaySend, Reject, Raising, ReadTimeout
<1>4. CASE Fetching(c)
  BY <1>3, <1>4, AnswerFetching
<1>5. CASE Replying(c)
  <2>1. state \in SendStates
    BY <1>5 DEF Replying
  <2> QED
    BY <1>3, <1>5, <2>1, AnswerLoad, AnswerStart, AnswerBusy, AnswerDone DEF SendStates
<1> QED
  BY <1>4, <1>5 DEF Answering

-----------------------------------------------------------------------------
(* A command the command line begins after a pause.                         *)
\* The host leaves a call only to begin another one.
LEMMA Moves ==
  ASSUME HostTyped, Placed, NEW rx, Host(rx)
  PROVE  /\ session' = session
         /\ UNCHANGED <<user, call>> \/ (byte' = 1 /\ awaiting' = 0)
<1>1. session' = session
  BY DEF Host, Deliver, Silence, Reject, ReadTimeout
<1>2. NextCall => byte' = 1
  BY DEF NextCall
<1>3. ASSUME NEW box \in Seq(RxByte), NEW n \in Nat, Read(box, n), ~Sent
      PROVE  UNCHANGED <<user, call>> \/ (byte' = 1 /\ awaiting' = 0)
  <2>1. /\ awaiting' \in Nat /\ (awaiting' = 0 => NextCall) /\ (awaiting' > 0 => UNCHANGED <<user, call, byte>>)
    BY <1>3, ReadStep, HereTyped DEF HostTyped
  <2> QED
    BY <1>2, <2>1
<1>4. Opened \o Arrived \in Seq(RxByte) /\ inbox \o Arrived \in Seq(RxByte)
  BY Boxes DEF HostTyped
<1>5. CASE Deliver(rx)
  <2>1. ~Sent /\ (Read(Opened \o Arrived, WordsAwaited(Here)) \/ UNCHANGED <<user, call>>)
    BY <1>5, Zenon DEF Deliver, MaySend
  <2>2. WordsAwaited(Here) \in Nat
    BY <1>5, <2>1, HereTyped, CallTyped DEF Deliver, MaySend
  <2> QED
    BY <1>1, <1>3, <1>4, <2>1, <2>2
<1>6. CASE Silence(rx)
  <2>1. (awaiting > 0 /\ Read(inbox \o Arrived, awaiting)) \/ UNCHANGED <<user, call>>
    BY <1>6, Zenon DEF Silence
  <2>2. awaiting > 0 => ~Sent
    BY DEF Placed
  <2> QED
    BY <1>1, <1>3, <1>4, <2>1, <2>2 DEF HostTyped
<1>7. CASE Reject(rx) \/ ReadTimeout(rx)
  BY <1>1, <1>7 DEF Reject, ReadTimeout, Raise, Raising
<1> QED
  BY <1>1, <1>5, <1>6, <1>7 DEF Host

\* What is told is kept, and what is new is told of the command under way.
Grown == \A i \in DOMAIN told' : (i \in DOMAIN told /\ told'[i] = told[i]) \/ (~Sent /\ told'[i].to = user)

\* What is added at the end is told of the command under way.
LEMMA Added ==
  ASSUME NEW s \in Seq(Said), NEW w \in Seq(Said), NEW t, t = s \o w, NEW u, \A i \in 1 .. Len(w) : w[i].to = u
  PROVE  \A i \in DOMAIN t : (i \in DOMAIN s /\ t[i] = s[i]) \/ t[i].to = u
<1>1. DOMAIN t = 1 .. Len(s) + Len(w) /\ DOMAIN s = 1 .. Len(s) /\ Len(s) \in Nat /\ Len(w) \in Nat
  OBVIOUS
<1>2. ASSUME NEW i \in 1 .. Len(s) PROVE t[i] = s[i]
  BY <1>2
<1>3. ASSUME NEW i \in 1 .. Len(s) + Len(w), ~(i \in 1 .. Len(s)) PROVE t[i].to = u
  <2>1. i - Len(s) \in 1 .. Len(w)
    BY <1>1, <1>3
  <2>2. t[i] = w[i - Len(s)]
    BY <1>1, <1>3
  <2> QED
    BY <2>1, <2>2
<1> QED
  BY <1>1, <1>2, <1>3

\* What the user was told is never taken back.
LEMMA ToldGrows ==
  ASSUME HostTyped, Placed, NEW rx, Host(rx), told' \in Seq(Said)
  PROVE  Grown
<1>1. told \in Seq(Said) /\ user \in Nat
  BY HereTyped DEF HostTyped
<1>2. told' = told => Grown
  BY DEF Grown
<1>3. ASSUME NEW e, told' = Append(told, Says(user, <<e>>)), ~Sent PROVE Grown
  <2>1. /\ DOMAIN told' = 1 .. Len(told) + 1 /\ told'[Len(told) + 1] = Says(user, <<e>>)
        /\ \A i \in 1 .. Len(told) : told'[i] = told[i]
    BY <1>1, <1>3
  <2>2. told'[Len(told) + 1].to = user
    BY <2>1 DEF Says
  <2>3. \A i \in 1 .. Len(told) + 1 : i \in 1 .. Len(told) \/ i = Len(told) + 1
    BY <1>1
  <2>4. DOMAIN told = 1 .. Len(told)
    BY <1>1
  <2> QED
    BY <1>3, <2>1, <2>2, <2>3, <2>4 DEF Grown
<1>4. ASSUME NEW box \in Seq(RxByte), NEW n \in Nat, Read(box, n), ~Sent
      PROVE  Grown
  <2>1. PICK k \in 0..n : WordBytes * k <= Len(box) /\ told' = told \o Words(box, k)
    BY <1>1, <1>4, ReadStep
  <2>2. Words(box, k) \in Seq(Said) /\ Len(Words(box, k)) = k
    BY <1>1, <2>1, WordsTyped
  <2>3. \A i \in 1 .. Len(Words(box, k)) : Words(box, k)[i].to = user
    BY <2>2 DEF Words, Says
  <2>4. \A i \in DOMAIN told' : (i \in DOMAIN told /\ told'[i] = told[i]) \/ told'[i].to = user
    BY <1>1, <2>1, <2>2, <2>3, Added
  <2> QED
    BY <1>4, <2>4 DEF Grown
<1>5. Opened \o Arrived \in Seq(RxByte) /\ inbox \o Arrived \in Seq(RxByte)
  BY Boxes DEF HostTyped
<1>6. CASE Deliver(rx)
  <2>1. ~Sent /\ (Read(Opened \o Arrived, WordsAwaited(Here)) \/ told' = told)
    BY <1>6, Zenon DEF Deliver, MaySend
  <2>2. WordsAwaited(Here) \in Nat
    BY <1>6, <2>1, HereTyped, CallTyped DEF Deliver, MaySend
  <2> QED
    BY <1>2, <1>4, <1>5, <2>1, <2>2
<1>7. CASE Silence(rx)
  <2>1. (awaiting > 0 /\ Read(inbox \o Arrived, awaiting)) \/ told' = told
    BY <1>7, Zenon DEF Silence
  <2>2. awaiting > 0 => ~Sent
    BY DEF Placed
  <2> QED
    BY <1>2, <1>4, <1>5, <2>1, <2>2 DEF HostTyped
<1>8. CASE Reject(rx) \/ ReadTimeout(rx)
  <2>1. awaiting > 0 => ~Sent
    BY DEF Placed
  <2>2. ~Sent /\ (Raise(Here.err) \/ Raise("IOError"))
    BY <1>8, <2>1 DEF Reject, ReadTimeout, Raising
  <2> QED
    BY <1>3, <2>2 DEF Raise
<1> QED
  BY <1>6, <1>7, <1>8 DEF Host

\* Such a command goes on as it should, or is over.
LEMMA FreshStep ==
  ASSUME Inv, TxInv, IdleBound, HostTyped, Placed, FreshCall, FreshInStep, NEW c, Here = c,
         NEW rx \in Byte \cup {NoByte}, Host(rx), Clock(rx)
  PROVE  /\ told' = told \/ \E k \in DOMAIN Answers(c) : told' = Append(told, Says(user, Answers(c)[k]))
         /\ \/ UNCHANGED <<user, call>> /\ (byte' > 1 \/ awaiting' > 0 => Receiving(c)' \/ Answering(c)')
            \/ byte' = 1 /\ awaiting' = 0
<1>1. /\ ~Sent /\ Tool = "cli" /\ Todo[user].fresh /\ Len(Plan) = 1 /\ c.err = "none" /\ c.op \notin HaltedOnly
  BY DEF FreshCall
<1>2. /\ WellFormed(c) /\ byte \in 1 .. Len(Wire(c)) /\ call = 1 /\ awaiting \in Nat /\ user \in Nat
      /\ Len(Wire(c)) = 1 + Len(c.arg) /\ Len(c.arg) \in Nat /\ Wire(c)[1] = c.op
  <2>1. WellFormed(c) /\ byte \in 1 .. Len(Wire(c)) /\ call \in 1 .. Len(Plan)
    BY <1>1, HereTyped
  <2>2. Len(Wire(c)) = 1 + Len(c.arg) /\ c.arg \in Seq(Byte) /\ Wire(c)[1] = c.op
    BY <1>1, <2>1, CallTyped
  <2> QED
    BY <1>1, <2>1, <2>2 DEF HostTyped
<1>3. NextCall => byte' = 1
  BY DEF NextCall
<1>4. Deliver(rx) => rx = Wire(c)[byte]
  BY <1>1 DEF Deliver
<1>5. CASE Answering(c)
  <2>1. AnswerStep(c, rx) /\ awaiting > 0
    BY <1>5, AnswerClock DEF Answering
  <2>2. CASE Answering(c)' /\ told' = told /\ UNCHANGED <<user, call>>
    BY <2>2
  <2>3. CASE /\ awaiting' = awaiting - 1 /\ told' = Append(told, Says(user, Answers(c)[Len(Wanted(c)) - awaiting']))
             /\ \/ Answering(c)' /\ UNCHANGED <<user, call, byte>>
                \/ awaiting' = 0 /\ NextCall
    <3>1. awaiting <= Len(Wanted(c)) /\ Len(Wanted(c)) \in Nat
      <4>1. awaiting <= WordsAwaited(c)
        BY <2>1 DEF Placed
      <4>2. WordsAwaited(c) = Len(Wanted(c)) /\ WordsAwaited(c) \in Nat
        BY <1>1, <1>2, CallTyped
      <4> QED
        BY <4>1, <4>2
    <3>2. awaiting \in 1 .. Len(Wanted(c)) /\ Len(Wanted(c)) - awaiting' = Len(Wanted(c)) + 1 - awaiting
      BY <1>2, <2>1, <2>3, <3>1
    <3>3. Len(Wanted(c)) - awaiting' \in DOMAIN Answers(c)
      BY <1>1, <1>2, <3>2, AnswersAt
    <3> QED
      BY <1>3, <2>3, <3>3
  <2> QED
    BY <2>1, <2>2, <2>3 DEF AnswerStep
<1>6. CASE Receiving(c)
  <2>1. awaiting = 0
    BY <1>6 DEF Receiving
  <2>2. Deliver(rx) \/ Silence(rx)
    BY <1>1, <2>1 DEF Host, Reject, Raising, ReadTimeout
  <2>3. CASE Deliver(rx)
    <3>1. Taking(c) /\ OneMore(c)
      BY <1>4, <1>6, <2>3, ReceivingByte
    <3> QED
      BY <1>3, <3>1 DEF Taking, OneMore
  <2>4. CASE Silence(rx)
    BY <1>1, <1>6, <2>4, ReceivingSilence
  <2> QED
    BY <2>2, <2>3, <2>4
<1>7. CASE byte = 1 /\ awaiting = 0
  <2>1. Deliver(rx) \/ Silence(rx)
    BY <1>1, <1>7 DEF Host, Reject, Raising, ReadTimeout
  <2>2. CASE Silence(rx)
    <3>1. ~(awaiting > 0)
      BY <1>7
    <3>2. UNCHANGED <<user, call, byte, awaiting, told>>
      BY <2>2, <3>1, Zenon DEF Silence
    <3> QED
      BY <1>7, <3>2
  <2>3. CASE Deliver(rx)
    <3>1. Begins
      BY <1>2, <1>7 DEF Begins
    <3>2. state = "CMD_IDLE" /\ Silent
      BY <1>1, <2>3, <3>1, PausedIdle DEF Deliver, MaySend
    <3>3. Opened = <<>>
      BY <1>1, <3>1 DEF Opened, Tools!OwnProcess
    <3>4. Len(Opened \o Arrived) = 0 /\ rx = c.op
      BY <1>2, <1>4, <1>7, <2>3, <3>2, <3>3, NothingArrives
    <3>5. /\ told' = told
          /\ c.op \in {CMD_HALT, CMD_RESUME, CMD_STEP} => NextCall /\ awaiting' = 0
          /\ c.op \in {CMD_READ_PC, CMD_READ_ALL} => Answering(c)' /\ UNCHANGED <<user, call, byte>>
          /\ c.op \notin {CMD_HALT, CMD_RESUME, CMD_STEP, CMD_READ_PC, CMD_READ_ALL} =>
               Receiving(c)' /\ UNCHANGED <<user, call>>
      BY <1>1, <1>7, <2>3, <3>2, <3>4, FirstByte
    <3> QED
      BY <1>3, <3>5
  <2> QED
    BY <2>1, <2>2, <2>3
<1>8. (byte > 1 \/ awaiting > 0) \/ (byte = 1 /\ awaiting = 0)
  BY <1>2
<1> QED
  BY <1>5, <1>6, <1>7, <1>8 DEF FreshInStep

\* ... so one that was begun in step stays in step.
LEMMA FreshInStepStep ==
  ASSUME Inv, TxInv, IdleBound, HostTyped, Placed, FreshInStep, NEW rx \in Byte \cup {NoByte}, Host(rx), Clock(rx)
  PROVE  FreshInStep'
<1>1. session' = session
  BY Moves
<1>2. CASE byte' = 1 /\ awaiting' = 0
  BY <1>2 DEF FreshInStep
<1>3. CASE UNCHANGED <<user, call>> /\ ~(byte' = 1 /\ awaiting' = 0)
  <2>1. FreshCall' = FreshCall
    BY <1>1, <1>3 DEF FreshCall, Sent, Todo, Tool, Plan, Here
  <2>2. CASE FreshCall
    <3>1. PICK c : c = Here
      OBVIOUS
    <3>2. Here' = c
      BY <1>1, <1>3, <3>1 DEF Here, Plan
    <3>3. (byte' > 1 \/ awaiting' > 0) => Receiving(c)' \/ Answering(c)'
      BY <1>3, <2>2, <3>1, FreshStep
    <3>4. Receiving(c)' => Receiving(Here)'
      BY <3>2 DEF Receiving
    <3>5. Answering(c)' => Answering(Here)'
      BY <3>2 DEF Answering, Fetching, Replying
    <3> QED
      BY <3>3, <3>4, <3>5 DEF FreshInStep
  <2> QED
    BY <2>1, <2>2 DEF FreshInStep
<1> QED
  BY <1>2, <1>3, Moves

\* ... and what is told of it is its answer.
LEMMA FreshAnswersStep ==
  ASSUME Inv, TxInv, IdleBound, HostTyped, HostTyped', Placed, FreshInStep, FreshAnswers,
         NEW rx \in Byte \cup {NoByte}, Host(rx), Clock(rx)
  PROVE  FreshAnswers'
<1>1. session' = session
  BY Moves
<1>2. SUFFICES ASSUME NEW i \in DOMAIN told',
                      LET u == told'[i].to  plan == Plans[session][u]
                      IN  Tool = "cli" /\ Todo[u].fresh /\ Len(plan) = 1
                            /\ plan[1].err = "none" /\ plan[1].op \notin HaltedOnly
               PROVE  LET u == told'[i].to  plan == Plans[session][u]
                      IN  \E k \in DOMAIN Answers(plan[1]) : told'[i] = Says(u, Answers(plan[1])[k])
  BY <1>1 DEF FreshAnswers, Tool, Todo
<1>3. CASE i \in DOMAIN told /\ told'[i] = told[i]
  BY <1>2, <1>3 DEF FreshAnswers
<1>4. CASE ~(i \in DOMAIN told /\ told'[i] = told[i])
  <2>1. ~Sent /\ told'[i].to = user
    BY <1>4, ToldGrows DEF HostTyped, Grown
  <2>2. /\ Tool = "cli" /\ Todo[user].fresh /\ Len(Plan) = 1
        /\ Plan[1].err = "none" /\ Plan[1].op \notin HaltedOnly
    BY <1>2, <2>1 DEF Plan
  <2>3. call = 1
    BY <2>1, <2>2, HereTyped
  <2>4. FreshCall
    BY <2>1, <2>2, <2>3 DEF FreshCall, Here
  <2>5. PICK c : c = Here
    OBVIOUS
  <2>6. told' = told \/ \E k \in DOMAIN Answers(c) : told' = Append(told, Says(user, Answers(c)[k]))
    BY <2>4, <2>5, FreshStep
  <2>7. PICK k \in DOMAIN Answers(c) : told' = Append(told, Says(user, Answers(c)[k]))
    BY <1>4, <2>6
  <2>8. told'[i] = Says(user, Answers(c)[k])
    <3>1. told \in Seq(Said)
      BY DEF HostTyped
    <3>2. i \in 1 .. Len(told) + 1 /\ \A j \in 1 .. Len(told) : told'[j] = told[j]
      BY <2>7, <3>1
    <3>3. i = Len(told) + 1
      BY <1>4, <3>1, <3>2
    <3> QED
      BY <2>7, <3>1, <3>3
  <2>9. c = Plans[session][user][1]
    BY <2>3, <2>5 DEF Here, Plan
  <2> QED
    BY <2>1, <2>8, <2>9
<1> QED
  BY <1>3, <1>4

-----------------------------------------------------------------------------
(* What every session keeps, on whatever line.                              *)
SafeInv ==
  /\ Inv /\ HostTyped /\ Placed /\ TxInv /\ IdleBound
  /\ Halted /\ FreshInStep /\ FreshAnswers

\* The invariant holds of a session about to begin.
LEMMA SafeInit == LinkInit => SafeInv
<1> SUFFICES ASSUME LinkInit PROVE SafeInv
  OBVIOUS
<1>1. Inv
  BY InitInv DEF LinkInit
<1>2. /\ session \in DOMAIN Sessions /\ user = 1 /\ call = 1 /\ byte = 1 /\ gap = 0 /\ inbox = <<>>
      /\ awaiting = 0 /\ idle = 0 /\ lost = 0 /\ log = <<>> /\ told = <<>>
  BY DEF LinkInit
<1>3. /\ state = "CMD_IDLE" /\ tx_en = FALSE /\ tx_left = 0
      /\ cur_word = Origin("zero", <<>>) /\ tx_data = <<cur_word, 0>>
  BY DEF LinkInit, Init
<1>4. /\ Len(Todo) \in Nat
      /\ Len(Todo) > 0 => /\ Len(Plan) > 0 /\ Len(Plan) \in Nat /\ DOMAIN Plan = 1 .. Len(Plan)
                          /\ WellFormed(Plan[1])
  <2>1. Len(Todo) \in Nat
    BY <1>2, TodoTyped DEF Todo
  <2>2. Len(Todo) > 0 => 1 \in 1 .. Len(Sessions[session].todo)
    BY <2>1 DEF Todo
  <2>3. Len(Todo) > 0 => Len(Plans[session][1]) \in Nat /\ Len(Plans[session][1]) > 0
                          /\ DOMAIN Plans[session][1] = 1 .. Len(Plans[session][1])
                          /\ \A i \in 1 .. Len(Plans[session][1]) : WellFormed(Plans[session][1][i])
    BY <1>2, <2>2, PlanTyped
  <2> QED
    BY <1>2, <2>1, <2>3 DEF Plan
<1>5. HostTyped
  <2>1. cur_word \in Source /\ tx_data \in RxByte
    <3>1. <<>> \in Seq(Nat)
      OBVIOUS
    <3>2. cur_word \in Source
      BY <1>3, <3>1 DEF Source, Origin
    <3>3. tx_data = <<cur_word, 0>> /\ 0 \in Nat
      BY <1>3
    <3> QED
      BY <3>2, <3>3 DEF RxByte
  <2>2. inbox \in Seq(RxByte) /\ told \in Seq(Said) /\ log \in Seq(Event)
    BY <1>2
  <2>3. idle \in 0..PauseCycles
    BY <1>2, LinkSizes
  <2>4. user \in 1 .. Len(Todo) + 1
    BY <1>2, <1>4
  <2> QED
    BY <1>2, <2>1, <2>2, <2>3, <2>4 DEF HostTyped
<1>6. Placed
  <2>1. ~Sent => call \in DOMAIN Plan /\ WellFormed(Here)
    BY <1>2, <1>4 DEF Sent, Here
  <2>2. ~Sent /\ Here.err = "none" => 1 \in 1 .. Len(Wire(Here))
    <3> SUFFICES ASSUME ~Sent, Here.err = "none" PROVE 1 \in 1 .. Len(Wire(Here))
      OBVIOUS
    <3>1. PICK c : c = Here
      OBVIOUS
    <3>2. Len(Wire(c)) = 1 + Len(c.arg) /\ c.arg \in Seq(Byte)
      BY <2>1, <3>1, CallTyped
    <3> QED
      BY <3>1, <3>2
  <2> QED
    BY <1>2, <2>1, <2>2 DEF Placed
<1>7. TxInv /\ IdleBound
  BY <1>2, <1>3 DEF TxInv, IdleBound, WaitStates
<1>8. Halted
  BY <1>2, <1>4 DEF Halted, LastHalts, Sent
<1>9. FreshInStep /\ FreshAnswers
  BY <1>2 DEF FreshInStep, FreshAnswers
<1> QED
  BY <1>1, <1>5, <1>6, <1>7, <1>8, <1>9 DEF SafeInv

\* Every clock of the host and the debugger keeps it.
LEMMA SafeStep == SafeInv /\ [LinkNext]_vars => SafeInv'
<1> SUFFICES ASSUME SafeInv, [LinkNext]_vars PROVE SafeInv'
  OBVIOUS
<1>1. CASE LinkNext
  <2>1. PICK rx \in Byte \cup {NoByte} : Host(rx) /\ Clock(rx) /\ log' = log \o Did(rx)
    BY <1>1, Zenon DEF LinkNext
  <2> USE DEF SafeInv
  <2>2. Inv'
    BY <2>1, IdleInv, ArgumentInv, ExecuteInv, ReplyInv DEF Clock
  <2>3. HostTyped' /\ Placed'
    BY <2>1, PlacedStep
  <2>4. TxInv'
    BY <2>1, TxStep
  <2>5. IdleBound'
    <3>1. idle \in 0..PauseCycles
      BY DEF HostTyped
    <3> QED
      BY <2>1, <2>2, <3>1, IdleBoundStep
  <2>6. Halted'
    BY <2>1, HaltedStep
  <2>7. FreshInStep'
    BY <2>1, FreshInStepStep
  <2>8. FreshAnswers'
    BY <2>1, <2>3, FreshAnswersStep
  <2> QED
    BY <2>2, <2>3, <2>4, <2>5, <2>6, <2>7, <2>8
<1>2. CASE UNCHANGED vars
  <2>1. UNCHANGED uartVars /\ UNCHANGED hostVars /\ log' = log
    BY <1>2 DEF vars
  <2>2. Inv'
    BY <2>1, StutterInv DEF SafeInv
  <2>3. UNCHANGED <<state, halt, word_sel, word_count, byte_sel, cur_word, reading_csr,
                    mem_addr, mem_wdata, rx_byte_idx, mem_is_write, mmio_addr,
                    csr_addr_pending, csr_byte_idx, rx_timeout_cnt, tx_en, tx_data, tx_left>>
    BY <2>1 DEF uartVars, replyVars, argVars, memVars, csrVars, txVars
  <2>4. UNCHANGED <<session, user, call, byte, gap, inbox, awaiting, idle, lost, told>>
    BY <2>1 DEF hostVars
  <2>5. Todo' = Todo /\ Tool' = Tool /\ Plan' = Plan /\ Here' = Here /\ Sent' = Sent
    BY <2>4 DEF Todo, Tool, Plan, Here, Sent
  <2>6. HostTyped' /\ Placed'
    BY <2>1, <2>3, <2>4, <2>5 DEF SafeInv, HostTyped, Placed
  <2>7. TxInv' /\ IdleBound'
    BY <2>3, <2>4 DEF SafeInv, TxInv, IdleBound
  <2>8. Halted'
    BY <2>1, <2>3, <2>4, <2>5 DEF SafeInv, Halted, LastHalts, StaysOpen
  <2>9. FreshInStep'
    <3>1. PICK c : c = Here
      OBVIOUS
    <3>2. FreshCall' = FreshCall
      BY <2>4, <2>5 DEF FreshCall
    <3>3. Silent' = Silent
      BY <2>3 DEF Silent
    <3>4. Receiving(c)' = Receiving(c)
      BY <2>3, <2>4, <3>3 DEF Receiving
    <3>5. Answering(c)' = Answering(c)
      <4>1. Fetching(c)' = Fetching(c)
        BY <2>3, <2>4, <3>3 DEF Fetching
      <4>2. ToLoad' = ToLoad /\ LastSeen' = LastSeen /\ Taken' = Taken
        BY <2>3 DEF ToLoad, LastSeen, Taken, Seen
      <4>3. Replying(c)' = Replying(c)
        BY <2>3, <2>4, <4>2 DEF Replying
      <4> QED
        BY <2>4, <4>1, <4>3 DEF Answering
    <3>6. /\ Receiving(Here)' = Receiving(c)' /\ Answering(Here)' = Answering(c)'
          /\ Receiving(Here) = Receiving(c) /\ Answering(Here) = Answering(c)
      <4>1. Here' = c
        BY <2>5, <3>1
      <4> QED
        BY <3>1, <4>1 DEF Receiving, Answering, Fetching, Replying
    <3> QED
      BY <2>4, <3>2, <3>4, <3>5, <3>6 DEF SafeInv, FreshInStep
  <2>10. FreshAnswers'
    BY <2>4, <2>5 DEF SafeInv, FreshAnswers
  <2> QED
    BY <2>2, <2>6, <2>7, <2>8, <2>9, <2>10 DEF SafeInv
<1> QED
  BY <1>1, <1>2

\* Host and debugger keep to their types and places, the line is never silent for
\* long within a command, and a fresh command is in step, in every session.
THEOREM SafeHolds == LinkSpec => []SafeInv
  BY SafeInit, SafeStep, PTL DEF LinkSpec

\* Whatever was lost before it, and whatever a running core made of commands for a
\* halted one, a HALT sent after a pause halts the core: FreshHaltWorks, for every
\* session, spacing, timeout and word size.
THEOREM FreshHaltProved == LinkSpec => []FreshHaltWorks
<1>1. SafeInv => FreshHaltWorks
  BY DEF SafeInv, Halted, LastHalts, FreshHaltWorks
<1> QED
  BY <1>1, SafeHolds, PTL

\* A command line begun after a pause shows the answer to its own command and never
\* what an earlier process left unread: FreshAnswers, for every session.
THEOREM FreshAnswersProved == LinkSpec => []FreshAnswers
<1>1. SafeInv => FreshAnswers
  BY DEF SafeInv
<1> QED
  BY <1>1, SafeHolds, PTL

-----------------------------------------------------------------------------
(* Induction and recursion. *)
Less == OpToRel(<, Nat)

\* Induction, over a set of numbers.
LEMMA NatInduct ==
  ASSUME NEW S, 0 \in S, \A n \in Nat : n \in S => n + 1 \in S
  PROVE  Nat \subseteq S
<1> DEFINE T == Nat \ S
<1> SUFFICES ASSUME T # {} PROVE FALSE
  OBVIOUS
<1>1. IsWellFoundedOn(Less, Nat)
  BY NatLessThanWellFounded, Zenon DEF Less
<1>2. PICK x \in T : \A y \in T : ~ (<<y, x>> \in Less)
  BY <1>1, WFMin
<1>3. x # 0 /\ x - 1 \in Nat
  BY <1>2
<1>4. <<x - 1, x>> \in Less
  <2>1. x - 1 < x
    BY <1>3
  <2> QED
    BY <1>3, <2>1, Zenon DEF Less, OpToRel
<1>5. x - 1 \notin T
  BY <1>2, <1>4
<1> QED
  BY <1>2, <1>3, <1>5

\* x starts with c and goes on with st, which is given the last value and the
\* number of the next.
Iterates(x, V, c, N, st) ==
  x \in [0..N -> V] /\ x[0] = c /\ \A n \in 1..N : x[n] = st[<<x[n - 1], n>>]

\* ... and such a function exists.
LEMMA Recursion ==
  ASSUME NEW V, NEW c \in V, NEW N \in Nat, NEW st \in [V \X (1..N) -> V]
  PROVE  \E x : Iterates(x, V, c, N, st)
<1> DEFINE Good(f, m) == f[0] = c /\ \A i \in 1..m : f[i] = st[<<f[i - 1], i>>]
           S == {m \in Nat : m <= N => \E f \in [0..m -> V] : Good(f, m)}
<1>1. 0 \in S
  <2>1. Good([n \in 0..0 |-> c], 0)
    OBVIOUS
  <2> QED
    BY <2>1
<1>2. ASSUME NEW m \in Nat, m \in S PROVE m + 1 \in S
  <2> SUFFICES ASSUME m + 1 <= N PROVE \E f \in [0..(m + 1) -> V] : Good(f, m + 1)
    OBVIOUS
  <2>1. PICK f \in [0..m -> V] : Good(f, m)
    BY <1>2
  <2> DEFINE g == [n \in 0..(m + 1) |-> IF n <= m THEN f[n] ELSE st[<<f[m], m + 1>>]]
  <2>2. st[<<f[m], m + 1>>] \in V
    OBVIOUS
  <2>3. g \in [0..(m + 1) -> V]
    BY <2>2
  <2>4. g[0] = c
    BY <2>1
  <2>5. ASSUME NEW i \in 1..(m + 1) PROVE g[i] = st[<<g[i - 1], i>>]
    <3>1. CASE i <= m
      <4>1. g[i] = f[i] /\ g[i - 1] = f[i - 1] /\ i \in 1..m
        BY <3>1
      <4> QED
        BY <4>1, <2>1
    <3>2. CASE i = m + 1
      <4>1. g[i] = st[<<f[m], m + 1>>] /\ g[i - 1] = f[m]
        BY <3>2
      <4> QED
        BY <3>2, <4>1
    <3> QED
      BY <3>1, <3>2
  <2> QED
    BY <2>3, <2>4, <2>5
<1>3. N \in S
  <2> HIDE DEF S
  <2> QED
    BY <1>1, <1>2, NatInduct
<1> QED
  BY <1>3 DEF Iterates

\* Two functions that start alike and go on alike are one.
Follows(x, y, N) == \A n \in 1..N : x[n - 1] = y[n - 1] => x[n] = y[n]

\* ... at every number.
LEMMA SameRun ==
  ASSUME NEW N \in Nat, NEW x, NEW y, x[0] = y[0], Follows(x, y, N)
  PROVE  \A n \in 0..N : x[n] = y[n]
<1> DEFINE S == {n \in Nat : n <= N => x[n] = y[n]}
<1>1. 0 \in S
  OBVIOUS
<1>2. ASSUME NEW n \in Nat, n \in S PROVE n + 1 \in S
  <2> SUFFICES ASSUME n + 1 <= N PROVE x[n + 1] = y[n + 1]
    OBVIOUS
  <2>1. n + 1 \in 1..N /\ (n + 1) - 1 = n /\ x[n] = y[n]
    BY <1>2
  <2> QED
    BY <2>1 DEF Follows
<1>3. Nat \subseteq S
  <2> HIDE DEF S
  <2> QED
    BY <1>1, <1>2, NatInduct
<1> QED
  BY <1>3

-----------------------------------------------------------------------------
(* What a session promises.                                                 *)
Accs == [log : Seq(Event), told : Seq(Said), halted : BOOLEAN, sound : BOOLEAN, skip : Nat, over : BOOLEAN]

\* The events.
LEMMA EventsAre ==
  /\ <<"halt">> \in Event /\ <<"resume">> \in Event /\ <<"step">> \in Event
  /\ \A a \in Seq(Nat), d \in Seq(Nat) : <<"write", a, d>> \in Event
  /\ \A w \in Source, b \in Nat : <<"reply", w, b>> \in Event
  BY DEF Event

\* A call is answered with words,
LEMMA WantedTyped ==
  ASSUME NEW c, WellFormed(c), c.err = "none"
  PROVE  Wanted(c) \in Seq(Source) /\ \A k \in 1 .. Len(Wanted(c)) : Wanted(c)[k] \in Source
<1> USE OpsAre
<1>1. c.op \in Ops /\ c.arg \in Seq(Byte) /\ Len(c.arg) = ArgLen(c.op)
  BY CallTyped
<1>2. c.arg \in Seq(Nat)
  BY <1>1, LinkSizes
<1>3. <<>> \in Seq(Source) /\ <<>> \in Seq(Nat)
  OBVIOUS
<1>4. Origin("csr", c.arg) \in Source /\ Origin("mem", c.arg) \in Source /\ Origin("mmio", c.arg) \in Source
      /\ Origin("pc", <<>>) \in Source /\ \A i \in Nat : Origin("reg", <<i>>) \in Source
  <2>1. \A i \in Nat : <<i>> \in Seq(Nat)
    BY Single
  <2>2. {"csr", "mem", "mmio", "pc", "reg"} \subseteq {"zero", "reg", "pc", "csr", "mem", "mmio"}
    OBVIOUS
  <2> QED
    BY <1>2, <1>3, <2>1, <2>2, OriginTyped
<1>5. CASE c.op = CMD_READ_ALL
  <2>1. \A i \in 1 .. NumRegs + 1 : (IF i <= NumRegs THEN Origin("reg", <<i - 1>>) ELSE Origin("pc", <<>>)) \in Source
    BY <1>4
  <2>2. Wanted(c) = [i \in 1 .. NumRegs + 1 |->
                       IF i <= NumRegs THEN Origin("reg", <<i - 1>>) ELSE Origin("pc", <<>>)]
    BY <1>5 DEF Wanted
  <2>3. Wanted(c) \in [1 .. NumRegs + 1 -> Source] /\ NumRegs + 1 \in Nat
    BY <2>1, <2>2
  <2> QED
    BY <2>3, WordSeq
<1>6. CASE c.op = CMD_READ_REG
  <2>1. Wanted(c) = <<Origin("reg", <<c.arg[1] % NumRegs>>)>>
    BY <1>6 DEF Wanted
  <2>2. c.arg[1] % NumRegs \in Nat
    <3>1. Len(c.arg) = 1
      BY <1>1, <1>6, ArgLenIs
    <3>2. c.arg[1] \in Nat
      BY <1>2, <3>1
    <3> QED
      BY <3>2
  <2>3. Origin("reg", <<c.arg[1] % NumRegs>>) \in Source
    BY <1>4, <2>2
  <2> QED
    BY <2>1, <2>3
<1>7. CASE c.op \notin {CMD_READ_ALL, CMD_READ_REG}
  <2>1. c.op \in {CMD_HALT, CMD_RESUME, CMD_STEP, CMD_WRITE_MEM} => Wanted(c) = <<>>
    BY WantedIs
  <2>2. c.op = CMD_READ_PC => Wanted(c) = <<Origin("pc", <<>>)>>
    BY DEF Wanted
  <2>3. c.op = CMD_READ_CSR => Wanted(c) = <<Origin("csr", c.arg)>>
    BY DEF Wanted
  <2>4. c.op = CMD_READ_MEM => Wanted(c) = <<Origin("mem", c.arg)>>
    BY DEF Wanted
  <2>5. c.op = CMD_READ_MMIO => Wanted(c) = <<Origin("mmio", c.arg)>>
    BY DEF Wanted
  <2>6. \A o \in Source : <<o>> \in Seq(Source)
    BY Single
  <2>7. c.op \in {CMD_HALT, CMD_RESUME, CMD_STEP, CMD_WRITE_MEM, CMD_READ_PC, CMD_READ_CSR, CMD_READ_MEM, CMD_READ_MMIO}
    BY <1>1, <1>7
  <2>8. Wanted(c) \in Seq(Source)
    BY <1>3, <1>4, <2>1, <2>2, <2>3, <2>4, <2>5, <2>6, <2>7
  <2> QED
    BY <2>8
<1> QED
  BY <1>5, <1>6, <1>7

\* ... WRITE_MEM has the effect of one write,
LEMMA WriteEffect ==
  ASSUME NEW c, c.op = CMD_WRITE_MEM
  PROVE  Effect(c) = <<<<"write", SubSeq(c.arg, 1, WordBytes), SubSeq(c.arg, WordBytes + 1, 2 * WordBytes)>>>>
<1>1. c.op \notin {CMD_HALT, CMD_RESUME, CMD_STEP}
  BY OpsAre
<1> QED
  BY <1>1, Zenon DEF Effect

\* A remainder is a number.
LEMMA Remainder == ASSUME NEW n \in Nat PROVE n % WordBytes \in Nat
  OBVIOUS

\* ... and every call has a sequence of events as its effect.
LEMMA EffectTyped ==
  ASSUME NEW c, WellFormed(c), c.err = "none"
  PROVE  Effect(c) \in Seq(Event)
<1> USE OpsAre
<1>1. c.op \in Ops /\ c.arg \in Seq(Byte) /\ Len(c.arg) = ArgLen(c.op)
  BY CallTyped
<1>2. c.arg \in Seq(Nat)
  BY <1>1, LinkSizes
<1>3. CASE c.op \in {CMD_HALT, CMD_RESUME, CMD_STEP}
  <2>1. Effect(c) \in {<<<<"halt">>>>, <<<<"resume">>>>, <<<<"step">>>>}
    <3>1. CASE c.op = CMD_HALT
      BY <3>1 DEF Effect
    <3>2. CASE c.op = CMD_RESUME
      BY <3>2 DEF Effect
    <3>3. CASE c.op = CMD_STEP
      BY <3>3 DEF Effect
    <3> QED
      BY <1>3, <3>1, <3>2, <3>3
  <2>2. <<<<"halt">>>> \in Seq(Event) /\ <<<<"resume">>>> \in Seq(Event) /\ <<<<"step">>>> \in Seq(Event)
    BY EventsAre, Single
  <2> QED
    BY <2>1, <2>2
<1>4. CASE c.op = CMD_WRITE_MEM
  <2> DEFINE a == SubSeq(c.arg, 1, WordBytes)
             d == SubSeq(c.arg, WordBytes + 1, 2 * WordBytes)
  <2>1. Effect(c) = <<<<"write", a, d>>>>
    BY <1>4, WriteEffect
  <2>2. a \in Seq(Nat) /\ d \in Seq(Nat)
    <3>1. Len(c.arg) = 2 * WordBytes
      BY <1>1, <1>4, ArgLenIs
    <3>2. 1 \in Nat /\ WordBytes \in Nat /\ WordBytes + 1 \in Nat /\ 2 * WordBytes \in Nat /\ WordBytes <= Len(c.arg)
      BY <3>1, Sizes
    <3>3. ASSUME NEW i \in 1 .. WordBytes PROVE c.arg[i] \in Nat
      <4>1. i \in 1 .. Len(c.arg)
        BY <3>2
      <4> QED
        BY <1>2, <4>1, AtSeq
    <3>4. ASSUME NEW i \in WordBytes + 1 .. 2 * WordBytes PROVE c.arg[i] \in Nat
      <4>1. i \in 1 .. Len(c.arg)
        BY <3>1, Sizes
      <4> QED
        BY <1>2, <4>1, AtSeq
    <3>5. a \in Seq(Nat)
      BY <3>2, <3>3, SubSeqProperties
    <3>6. d \in Seq(Nat)
      BY <3>2, <3>4, SubSeqProperties
    <3> QED
      BY <3>5, <3>6
  <2>3. <<"write", a, d>> \in Event
    BY <2>2, EventsAre
  <2> QED
    BY <2>1, <2>3, Single
<1>5. CASE c.op \notin {CMD_HALT, CMD_RESUME, CMD_STEP, CMD_WRITE_MEM}
  <2> DEFINE N == WordBytes * Len(Wanted(c))
             f == [i \in 1..N |-> <<"reply", Wanted(c)[1 + ((i - 1) \div WordBytes)], (i - 1) % WordBytes>>]
  <2>1. Effect(c) = f
    BY <1>1, <1>5 DEF Effect
  <2>2. Len(Wanted(c)) \in Nat /\ N \in Nat
    BY WantedTyped, CallTyped
  <2>3. ASSUME NEW i \in 1..N PROVE f[i] \in Event
    <3>1. 1 + ((i - 1) \div WordBytes) \in 1 .. Len(Wanted(c)) /\ (i - 1) % WordBytes \in Nat
      <4>1. i - 1 \in Nat /\ Len(Wanted(c)) * WordBytes > i - 1
        BY <2>2
      <4> QED
        BY <2>2, <4>1, Divides, Remainder
    <3>2. Wanted(c)[1 + ((i - 1) \div WordBytes)] \in Source
      BY <3>1, WantedTyped
    <3> QED
      BY <3>1, <3>2, EventsAre
  <2>4. f \in [1..N -> Event]
    BY <2>3
  <2> HIDE DEF f, N
  <2> QED
    BY <2>1, <2>2, <2>4, WordSeq
<1> QED
  BY <1>1, <1>3, <1>4, <1>5

\* What the call tells the user.
Tells(u, c) == [i \in DOMAIN Answers(c) |-> Says(u, Answers(c)[i])]

\* It tells as much as it is answered.
LEMMA TellsTyped ==
  ASSUME NEW c, WellFormed(c), c.err = "none", NEW u \in Nat
  PROVE  Tells(u, c) \in Seq(Said) /\ Len(Tells(u, c)) = Len(Wanted(c))
<1>1. Wanted(c) \in Seq(Source)
  BY WantedTyped
<1> DEFINE N == Len(Wanted(c))
<1>2. N \in Nat /\ DOMAIN Answers(c) = 1..N /\ \A k \in 1..N : Wanted(c)[k] \in Source
  BY <1>1 DEF Answers
<1>3. ASSUME NEW w \in Source PROVE Answer(w) \in Seq(RxByte)
  <2>1. \A i \in 1..WordBytes : <<w, i - 1>> \in RxByte
    BY Sizes DEF RxByte
  <2>2. Answer(w) \in [1..WordBytes -> RxByte]
    BY <2>1 DEF Answer
  <2> QED
    BY <2>2, WordSeq
<1>4. ASSUME NEW k \in 1..N PROVE Says(u, Answers(c)[k]) \in Said
  <2>1. Answers(c)[k] = Answer(Wanted(c)[k])
    BY <1>2 DEF Answers
  <2>2. Answers(c)[k] \in Seq(RxByte)
    BY <1>2, <1>3, <2>1
  <2> QED
    BY <2>2 DEF Says, Said
<1> HIDE DEF N
<1>5. Tells(u, c) \in [1..N -> Said]
  BY <1>2, <1>4 DEF Tells
<1>6. Tells(u, c) \in Seq(Said) /\ Len(Tells(u, c)) = N
  BY <1>2, <1>5, WordSeq
<1> QED
  BY <1>6 DEF N

\* Every error of a plan is one of Errors.
LEMMA ErrsAre ==
  ASSUME NEW n \in DOMAIN Sessions, NEW u \in 1 .. Len(Sessions[n].todo), NEW i \in 1 .. Len(Plans[n][u])
  PROVE  Plans[n][u][i].err \in Errors /\ WellFormed(Plans[n][u][i])
<1>1. u \in DOMAIN Plans[n]
  BY PlansAre
<1>2. i \in DOMAIN Plans[n][u] /\ WellFormed(Plans[n][u][i])
  BY PlanTyped
<1>3. Plans[n][u][i].err \in {Plans[n][u][j].err : j \in DOMAIN Plans[n][u]}
  BY <1>2
<1>4. {Plans[n][u][j].err : j \in DOMAIN Plans[n][u]} \in
        {{Plans[n][v][j].err : j \in DOMAIN Plans[n][v]} : v \in DOMAIN Plans[n]}
  BY <1>1
<1> DEFINE F(m) == UNION {{Plans[m][v][j].err : j \in DOMAIN Plans[m][v]} : v \in DOMAIN Plans[m]}
<1>5. Plans[n][u][i].err \in F(n)
  BY <1>3, <1>4
<1>6. F(n) \in {F(m) : m \in DOMAIN Sessions}
  <2> HIDE DEF F
  <2> QED
    OBVIOUS
<1>7. Errors = {"IOError"} \cup UNION {F(m) : m \in DOMAIN Sessions}
  BY DEF Errors
<1> HIDE DEF F
<1> QED
  BY <1>2, <1>5, <1>6, <1>7

\* One is the other's beginning.
Starting(s, t) == Len(s) <= Len(t) /\ \A i \in 1 .. Len(s) : t[i] = s[i]

\* A sequence is the beginning of it and more.
LEMMA StartingJoin == ASSUME NEW S, NEW s \in Seq(S), NEW t \in Seq(S) PROVE s \o t \in Seq(S) /\ Starting(s, s \o t)
<1>1. Len(s) \in Nat /\ Len(t) \in Nat /\ Len(s \o t) = Len(s) + Len(t) /\ \A i \in 1 .. Len(s) : (s \o t)[i] = s[i]
  OBVIOUS
<1> QED
  BY <1>1 DEF Starting

\* A beginning of a beginning.
LEMMA StartingTwice ==
  ASSUME NEW S, NEW s \in Seq(S), NEW t \in Seq(S), NEW r \in Seq(S), Starting(s, t), Starting(t, r)
  PROVE  Starting(s, r)
<1>1. Len(s) \in Nat /\ Len(t) \in Nat /\ Len(r) \in Nat
  OBVIOUS
<1>2. \A i \in 1 .. Len(s) : i \in 1 .. Len(t)
  BY <1>1 DEF Starting
<1> QED
  BY <1>1, <1>2 DEF Starting

\* The beginning of a sequence is a prefix of it.
LEMMA StartingPrefix ==
  ASSUME NEW S, NEW s \in Seq(S), NEW t \in Seq(S), Starting(s, t)
  PROVE  IsPrefix(s, t)
<1> DEFINE L == Len(s)
           a == SubSeq(t, 1, L)
           b == SubSeq(s, 1, L)
<1>1. L \in Nat /\ Len(t) \in Nat /\ L <= Len(t)
  BY DEF Starting
<1>2. /\ a \in Seq(S) /\ Len(a) = L /\ \A i \in 1..L : a[i] = t[i]
  <2>1. 1 \in Int /\ L \in Int /\ \A i \in 1..L : t[i] \in S
    BY <1>1
  <2>2. /\ a \in Seq(S) /\ Len(a) = (IF 1 <= L THEN L - 1 + 1 ELSE 0)
        /\ \A i \in 1 .. L - 1 + 1 : a[i] = t[1 + i - 1]
    BY <2>1, SubSeqProperties
  <2> HIDE DEF L, a
  <2> QED
    BY <1>1, <2>2
<1>3. /\ b \in Seq(S) /\ Len(b) = L /\ \A i \in 1..L : b[i] = s[i]
  <2>1. 1 \in Int /\ L \in Int /\ \A i \in 1..L : s[i] \in S
    BY <1>1
  <2>2. /\ b \in Seq(S) /\ Len(b) = (IF 1 <= L THEN L - 1 + 1 ELSE 0)
        /\ \A i \in 1 .. L - 1 + 1 : b[i] = s[1 + i - 1]
    BY <2>1, SubSeqProperties
  <2> HIDE DEF L, b
  <2> QED
    BY <1>1, <2>2
<1>4. \A i \in 1..L : a[i] = b[i]
  BY <1>1, <1>2, <1>3 DEF Starting
<1>5. a = b
  <2> HIDE DEF L, a, b
  <2> QED
    BY <1>1, <1>2, <1>3, <1>4
<1> QED
  BY <1>1, <1>5 DEF IsPrefix

\* An account only grows, and is sound only if it was.
Grows(a, b) == Starting(a.log, b.log) /\ Starting(a.told, b.told) /\ (b.sound => a.sound)

\* Growing is transitive
LEMMA GrowsTwice ==
  ASSUME NEW a \in Accs, NEW b \in Accs, NEW c \in Accs, Grows(a, b), Grows(b, c)
  PROVE  Grows(a, c)
<1>1. /\ a.log \in Seq(Event) /\ b.log \in Seq(Event) /\ c.log \in Seq(Event)
      /\ a.told \in Seq(Said) /\ b.told \in Seq(Said) /\ c.told \in Seq(Said)
  BY DEF Accs
<1> QED
  BY <1>1, StartingTwice DEF Grows

\* ... and reflexive,
LEMMA GrowsNot == ASSUME NEW a \in Accs PROVE Grows(a, a)
  BY DEF Grows, Starting, Accs

\* ... so that every account in a chain grows to the last.
LEMMA GrowRun ==
  ASSUME NEW N \in Nat, NEW x \in [0..N -> Accs], \A n \in 1..N : Grows(x[n - 1], x[n])
  PROVE  \A n \in 0..N : Grows(x[n], x[N])
<1> DEFINE S == {n \in Nat : n <= N => Grows(x[N - n], x[N])}
<1>1. 0 \in S
  <2>1. N - 0 = N /\ x[N] \in Accs
    OBVIOUS
  <2> QED
    BY <2>1, GrowsNot
<1>2. ASSUME NEW n \in Nat, n \in S PROVE n + 1 \in S
  <2> SUFFICES ASSUME n + 1 <= N PROVE Grows(x[N - (n + 1)], x[N])
    OBVIOUS
  <2>1. Grows(x[N - n], x[N])
    BY <1>2
  <2>2. N - n \in 1..N /\ N - (n + 1) = (N - n) - 1 /\ N - n - 1 \in 0..N
    OBVIOUS
  <2>3. Grows(x[N - (n + 1)], x[N - n]) /\ x[N - n] \in Accs /\ x[N - (n + 1)] \in Accs /\ x[N] \in Accs
    BY <2>2
  <2> QED
    BY <2>1, <2>3, GrowsTwice
<1>3. Nat \subseteq S
  <2> HIDE DEF S
  <2> QED
    BY <1>1, <1>2, NatInduct
<1> SUFFICES ASSUME NEW n \in 0..N PROVE Grows(x[n], x[N])
  OBVIOUS
<1>4. N - n \in Nat /\ N - n <= N /\ N - (N - n) = n
  OBVIOUS
<1>5. N - n \in S
  BY <1>3, <1>4
<1> QED
  BY <1>4, <1>5

-----------------------------------------------------------------------------
(* What a call adds to an account.                                          *)
Ignored(c, acc) == c.op \in HaltedOnly /\ ~acc.halted

\* Extend, case by case: the command is skipped, its argument is rejected, it is
\* ignored and nothing or something was awaited, it is carried out.
Skips(u, acc) == acc.over \/ acc.skip = u

Rejected(tool, u, c, acc) == [acc EXCEPT !.told = Append(@, Says(u, <<c.err>>)), !.skip = u,
                                         !.over = Tools!EndsSession(tool, c.err)]
Passed(c, acc)      == [acc EXCEPT !.sound = @ /\ Harmless(c)]
GaveUp(u, c, acc) == [acc EXCEPT !.told = Append(@, Says(u, <<"IOError">>)), !.skip = u,
                                   !.sound = @ /\ Harmless(c)]
Done(u, c, acc)     == [acc EXCEPT !.log = @ \o Effect(c), !.halted = HaltedAfter(c, @),
                                   !.told = @ \o Tells(u, c)]

\* These are the cases of Extend.
LEMMA ExtendIs ==
  ASSUME NEW tool, NEW u, NEW c, NEW acc
  PROVE  /\ Skips(u, acc) => Extend(tool, u, c, acc) = acc
         /\ ~Skips(u, acc) /\ c.err # "none" => Extend(tool, u, c, acc) = Rejected(tool, u, c, acc)
         /\ ~Skips(u, acc) /\ c.err = "none" /\ Ignored(c, acc) /\ Wanted(c) = <<>> =>
              Extend(tool, u, c, acc) = Passed(c, acc)
         /\ ~Skips(u, acc) /\ c.err = "none" /\ Ignored(c, acc) /\ Wanted(c) # <<>> =>
              Extend(tool, u, c, acc) = GaveUp(u, c, acc)
         /\ ~Skips(u, acc) /\ c.err = "none" /\ ~Ignored(c, acc) => Extend(tool, u, c, acc) = Done(u, c, acc)
  BY DEF Extend, Fail, Skips, Ignored, Tells, Rejected, Passed, GaveUp, Done

\* An error is told after what was told.
LEMMA ErrorTold ==
  ASSUME NEW u \in Nat, NEW e \in Errors, NEW t \in Seq(Said)
  PROVE  Append(t, Says(u, <<e>>)) \in Seq(Said) /\ Starting(t, Append(t, Says(u, <<e>>)))
<1>1. <<e>> \in Seq(Errors)
  BY Single
<1>2. Says(u, <<e>>) \in Said
  BY <1>1 DEF Says, Said
<1>3. Append(t, Says(u, <<e>>)) = t \o <<Says(u, <<e>>)>> /\ <<Says(u, <<e>>)>> \in Seq(Said)
  BY <1>2, AppendIs, Single
<1> QED
  BY <1>3, StartingJoin

\* An account stays one, and grows, with every call.
LEMMA ExtendTyped ==
  ASSUME NEW tool, NEW u \in Nat, NEW c, WellFormed(c), c.err \in Errors, NEW acc \in Accs
  PROVE  Extend(tool, u, c, acc) \in Accs /\ Grows(acc, Extend(tool, u, c, acc))
<1> DEFINE ext == Extend(tool, u, c, acc)
<1>1. /\ acc.log \in Seq(Event) /\ acc.told \in Seq(Said) /\ acc.halted \in BOOLEAN /\ acc.sound \in BOOLEAN
      /\ acc.skip \in Nat /\ acc.over \in BOOLEAN
  BY DEF Accs
<1>2. "IOError" \in Errors
  BY DEF Errors
<1>3. Starting(acc.log, acc.log) /\ Starting(acc.told, acc.told)
  BY <1>1 DEF Starting
<1>4. Tools!EndsSession(tool, c.err) \in BOOLEAN /\ Harmless(c) \in BOOLEAN
  BY DEF Tools!EndsSession, Harmless
<1>5. CASE Skips(u, acc)
  <2>1. ext = acc
    BY <1>5, ExtendIs
  <2> QED
    BY <2>1, GrowsNot
<1>6. CASE ~Skips(u, acc) /\ c.err # "none"
  <2>1. ext = Rejected(tool, u, c, acc)
    BY <1>6, ExtendIs
  <2>2. Append(acc.told, Says(u, <<c.err>>)) \in Seq(Said) /\ Starting(acc.told, Append(acc.told, Says(u, <<c.err>>)))
    BY <1>1, ErrorTold
  <2> QED
    BY <1>1, <1>3, <1>4, <2>1, <2>2 DEF Accs, Grows, Rejected, GaveUp
<1>7. CASE ~Skips(u, acc) /\ c.err = "none" /\ Ignored(c, acc) /\ Wanted(c) = <<>>
  <2>1. ext = Passed(c, acc)
    BY <1>7, ExtendIs
  <2> QED
    BY <1>1, <1>3, <1>4, <2>1 DEF Accs, Grows, Passed
<1>8. CASE ~Skips(u, acc) /\ c.err = "none" /\ Ignored(c, acc) /\ Wanted(c) # <<>>
  <2>1. ext = GaveUp(u, c, acc)
    BY <1>8, ExtendIs
  <2>2. Append(acc.told, Says(u, <<"IOError">>)) \in Seq(Said) /\ Starting(acc.told, Append(acc.told, Says(u, <<"IOError">>)))
    BY <1>1, <1>2, ErrorTold
  <2> QED
    BY <1>1, <1>3, <1>4, <2>1, <2>2 DEF Accs, Grows, Rejected, GaveUp
<1>9. CASE ~Skips(u, acc) /\ c.err = "none" /\ ~Ignored(c, acc)
  <2>1. ext = Done(u, c, acc)
    BY <1>9, ExtendIs
  <2>2. Effect(c) \in Seq(Event) /\ Tells(u, c) \in Seq(Said)
    BY <1>9, EffectTyped, TellsTyped
  <2>3. /\ acc.log \o Effect(c) \in Seq(Event) /\ Starting(acc.log, acc.log \o Effect(c))
        /\ acc.told \o Tells(u, c) \in Seq(Said) /\ Starting(acc.told, acc.told \o Tells(u, c))
    BY <1>1, <2>2, StartingJoin
  <2>4. HaltedAfter(c, acc.halted) \in BOOLEAN
    BY <1>1 DEF HaltedAfter
  <2> QED
    BY <1>1, <2>1, <2>3, <2>4 DEF Accs, Grows, Done
<1> QED
  BY <1>5, <1>6, <1>7, <1>8, <1>9

\* What the recursive functions compute.
LEMMA AfterCallsDef ==
  ASSUME NEW n \in DOMAIN Sessions, NEW u \in 1 .. Len(Sessions[n].todo), NEW acc \in Accs
  PROVE  /\ AfterCalls(n, u, acc) \in [0 .. Len(Plans[n][u]) -> Accs]
         /\ AfterCalls(n, u, acc)[0] = acc
         /\ \A i \in 1 .. Len(Plans[n][u]) :
              AfterCalls(n, u, acc)[i] = Extend(Sessions[n].tool, u, Plans[n][u][i], AfterCalls(n, u, acc)[i - 1])
<1> DEFINE N == Len(Plans[n][u])
           Add(a, i) == Extend(Sessions[n].tool, u, Plans[n][u][i], a)
           st == [p \in Accs \X (1..N) |-> Add(p[1], p[2])]
           Eq(x) == x = [i \in 0..N |-> IF i = 0 THEN acc ELSE Add(x[i - 1], i)]
<1>1. N \in Nat
  BY PlanTyped
<1>2. ASSUME NEW a \in Accs, NEW i \in 1..N PROVE Add(a, i) \in Accs
  <2>1. u \in Nat
    BY TodoTyped
  <2>2. WellFormed(Plans[n][u][i]) /\ Plans[n][u][i].err \in Errors
    BY ErrsAre
  <2> QED
    BY <2>1, <2>2, ExtendTyped
<1>3. AfterCalls(n, u, acc) = CHOOSE x : Eq(x)
  BY DEF AfterCalls
<1> HIDE DEF N, Add
<1>4. st \in [Accs \X (1..N) -> Accs]
  <2>1. \A p \in Accs \X (1..N) : p[1] \in Accs /\ p[2] \in 1..N
    OBVIOUS
  <2> QED
    BY <1>2, <2>1
<1>5. PICK x : Iterates(x, Accs, acc, N, st)
  <2> HIDE DEF st
  <2> QED
    BY <1>1, <1>4, Recursion
<1>6. \A i \in 1..N : x[i] = Add(x[i - 1], i)
  <2> SUFFICES ASSUME NEW i \in 1..N PROVE x[i] = Add(x[i - 1], i)
    OBVIOUS
  <2>1. <<x[i - 1], i>> \in Accs \X (1..N)
    <3> HIDE DEF st
    <3> QED
      BY <1>1, <1>5 DEF Iterates
  <2>2. st[<<x[i - 1], i>>] = Add(x[i - 1], i)
    BY <2>1
  <2> HIDE DEF st
  <2> QED
    BY <1>5, <2>2 DEF Iterates
<1>7. Eq(x)
  <2>1. x \in [0..N -> Accs] /\ x[0] = acc
    BY <1>5 DEF Iterates
  <2> HIDE DEF st
  <2>2. \A i \in 0..N : x[i] = IF i = 0 THEN acc ELSE Add(x[i - 1], i)
    BY <1>1, <1>6, <2>1
  <2> QED
    BY <2>1, <2>2
<1>8. ASSUME NEW y, Eq(y) PROVE y = x
  <2>1. \A i \in 0..N : y[i] = x[i]
    <3>1. y[0] = x[0] /\ \A i \in 1..N : y[i - 1] = x[i - 1] => y[i] = x[i]
      BY <1>1, <1>7, <1>8
    <3>2. Follows(y, x, N)
      BY <3>1 DEF Follows
    <3> HIDE DEF Eq, st
    <3> QED
      BY <1>1, <3>1, <3>2, SameRun
  <2> QED
    BY <1>7, <1>8, <2>1
<1>9. AfterCalls(n, u, acc) = x
  BY <1>3, <1>7, <1>8
<1>10. x \in [0..N -> Accs] /\ x[0] = acc
  BY <1>5 DEF Iterates
<1> QED
  BY <1>6, <1>9, <1>10 DEF N, Add

\* Nothing is an account.
LEMMA NothingTyped == Nothing \in Accs
  BY DEF Nothing, Accs

\* What one call adds to those before it.
LEMMA AfterCallsAt ==
  ASSUME NEW n \in DOMAIN Sessions, NEW u \in 1 .. Len(Sessions[n].todo), NEW acc \in Accs,
         NEW i \in 1 .. Len(Plans[n][u])
  PROVE  AfterCalls(n, u, acc)[i] = Extend(Sessions[n].tool, u, Plans[n][u][i], AfterCalls(n, u, acc)[i - 1])
<1>1. \A k \in 1 .. Len(Plans[n][u]) :
        AfterCalls(n, u, acc)[k] = Extend(Sessions[n].tool, u, Plans[n][u][k], AfterCalls(n, u, acc)[k - 1])
  BY AfterCallsDef
<1> QED
  BY <1>1

\* A command's calls add to the account.
LEMMA CallsGrow ==
  ASSUME NEW n \in DOMAIN Sessions, NEW u \in 1 .. Len(Sessions[n].todo), NEW acc \in Accs
  PROVE  \A i \in 0 .. Len(Plans[n][u]) : Grows(AfterCalls(n, u, acc)[i], AfterCalls(n, u, acc)[Len(Plans[n][u])])
<1> DEFINE N == Len(Plans[n][u])
           x == AfterCalls(n, u, acc)
<1>1. N \in Nat /\ x \in [0..N -> Accs] /\ u \in Nat
  <2>1. N \in Nat
    BY PlanTyped
  <2>2. x \in [0..N -> Accs]
    BY AfterCallsDef
  <2>3. u \in Nat
    BY TodoTyped
  <2> QED
    BY <2>1, <2>2, <2>3
<1>2. ASSUME NEW i \in 1..N PROVE Grows(x[i - 1], x[i])
  <2>1. x[i] = Extend(Sessions[n].tool, u, Plans[n][u][i], x[i - 1])
    BY AfterCallsAt
  <2>2. WellFormed(Plans[n][u][i]) /\ Plans[n][u][i].err \in Errors
    BY ErrsAre
  <2> HIDE DEF x, N
  <2>3. x[i - 1] \in Accs
    BY <1>1
  <2> QED
    BY <1>1, <2>1, <2>2, <2>3, ExtendTyped
<1> HIDE DEF x, N
<1>3. \A i \in 0..N : Grows(x[i], x[N])
  BY <1>1, <1>2, GrowRun
<1> QED
  BY <1>3 DEF x, N

\* The same for the commands of a session.
LEMMA AfterCommandsDef ==
  ASSUME NEW n \in DOMAIN Sessions
  PROVE  /\ AfterCommands(n) \in [0 .. Len(Sessions[n].todo) -> Accs]
         /\ AfterCommands(n)[0] = Nothing
         /\ \A u \in 1 .. Len(Sessions[n].todo) :
              AfterCommands(n)[u] = AfterCalls(n, u, AfterCommands(n)[u - 1])[Len(Plans[n][u])]
<1> DEFINE N == Len(Plans[n])
           Add(a, u) == AfterCalls(n, u, a)[Len(Plans[n][u])]
           st == [p \in Accs \X (1..N) |-> Add(p[1], p[2])]
           Eq(x) == x = [u \in 0..N |-> IF u = 0 THEN Nothing ELSE Add(x[u - 1], u)]
<1>1. N \in Nat /\ N = Len(Sessions[n].todo)
  BY PlansAre, TodoTyped
<1>2. ASSUME NEW a \in Accs, NEW u \in 1..N PROVE Add(a, u) \in Accs
  <2>1. Len(Plans[n][u]) \in Nat /\ u \in 1 .. Len(Sessions[n].todo)
    BY <1>1, PlanTyped
  <2> QED
    BY <2>1, AfterCallsDef
<1>3. AfterCommands(n) = CHOOSE x : Eq(x)
  BY DEF AfterCommands
<1> HIDE DEF N, Add
<1>4. st \in [Accs \X (1..N) -> Accs]
  <2>1. \A p \in Accs \X (1..N) : p[1] \in Accs /\ p[2] \in 1..N
    OBVIOUS
  <2> QED
    BY <1>2, <2>1
<1>5. PICK x : Iterates(x, Accs, Nothing, N, st)
  <2> HIDE DEF st
  <2> QED
    BY <1>1, <1>4, NothingTyped, Recursion
<1>6. \A u \in 1..N : x[u] = Add(x[u - 1], u)
  <2> SUFFICES ASSUME NEW u \in 1..N PROVE x[u] = Add(x[u - 1], u)
    OBVIOUS
  <2>1. <<x[u - 1], u>> \in Accs \X (1..N)
    <3>1. x \in [0..N -> Accs]
      BY <1>5 DEF Iterates
    <3>2. u - 1 \in 0..N
      BY <1>1
    <3> HIDE DEF st
    <3> QED
      BY <3>1, <3>2
  <2>2. st[<<x[u - 1], u>>] = Add(x[u - 1], u)
    BY <2>1
  <2> HIDE DEF st
  <2> QED
    BY <1>5, <2>2 DEF Iterates
<1>7. Eq(x)
  <2>1. x \in [0..N -> Accs] /\ x[0] = Nothing
    BY <1>5 DEF Iterates
  <2> HIDE DEF st
  <2>2. \A u \in 0..N : x[u] = IF u = 0 THEN Nothing ELSE Add(x[u - 1], u)
    BY <1>1, <1>6, <2>1
  <2> QED
    BY <2>1, <2>2
<1>8. ASSUME NEW y, Eq(y) PROVE y = x
  <2>1. \A u \in 0..N : y[u] = x[u]
    <3>1. y[0] = x[0] /\ \A u \in 1..N : y[u - 1] = x[u - 1] => y[u] = x[u]
      <4> HIDE DEF st
      <4>1. y[0] = x[0]
        BY <1>1, <1>7, <1>8
      <4>2. ASSUME NEW u \in 1..N, y[u - 1] = x[u - 1] PROVE y[u] = x[u]
        <5>1. u \in 0..N /\ u # 0
          BY <1>1
        <5>2. y[u] = Add(y[u - 1], u) /\ x[u] = Add(x[u - 1], u)
          BY <1>7, <1>8, <5>1
        <5> QED
          BY <4>2, <5>2
      <4> QED
        BY <4>1, <4>2
    <3>2. Follows(y, x, N)
      BY <3>1 DEF Follows
    <3> HIDE DEF Eq, st
    <3> QED
      BY <1>1, <3>1, <3>2, SameRun
  <2> QED
    BY <1>7, <1>8, <2>1
<1>9. AfterCommands(n) = x
  BY <1>3, <1>7, <1>8
<1>10. x \in [0..N -> Accs] /\ x[0] = Nothing
  BY <1>5 DEF Iterates
<1> QED
  BY <1>1, <1>6, <1>9, <1>10 DEF Add

\* What is promised is the account of the last command, and every other grows to it.
LEMMA PromisedIs ==
  ASSUME session \in DOMAIN Sessions
  PROVE  /\ Promised = AfterCommands(session)[Len(Todo)] /\ Promised \in Accs /\ Len(Todo) \in Nat
         /\ \A u \in 0 .. Len(Todo) : /\ AfterCommands(session)[u] \in Accs
                                      /\ Grows(AfterCommands(session)[u], Promised)
<1> DEFINE N == Len(Todo)
           x == AfterCommands(session)
<1>1. N \in Nat /\ x \in [0..N -> Accs] /\ Len(Plans[session]) = N
  BY TodoTyped, AfterCommandsDef, PlansAre DEF Todo
<1>2. Promised = x[N]
  BY <1>1 DEF Promised, Promises
<1>3. ASSUME NEW u \in 1..N PROVE Grows(x[u - 1], x[u])
  <2>1. u \in 1 .. Len(Sessions[session].todo) /\ Len(Plans[session][u]) \in Nat
    BY PlanTyped DEF Todo
  <2>2. x[u] = AfterCalls(session, u, x[u - 1])[Len(Plans[session][u])]
    BY <2>1, AfterCommandsDef
  <2> HIDE DEF x, N
  <2>3. x[u - 1] \in Accs
    BY <1>1
  <2>4. PICK a \in Accs : a = x[u - 1]
    BY <2>3
  <2>5. AfterCalls(session, u, a)[0] = a
    BY <2>1, AfterCallsDef
  <2>6. 0 \in 0 .. Len(Plans[session][u])
    BY <2>1
  <2>7. Grows(AfterCalls(session, u, a)[0], AfterCalls(session, u, a)[Len(Plans[session][u])])
    BY <2>1, <2>6, CallsGrow
  <2> QED
    BY <2>2, <2>4, <2>5, <2>7
<1> HIDE DEF x, N
<1>4. \A u \in 0..N : Grows(x[u], x[N])
  BY <1>1, <1>3, GrowRun
<1> QED
  BY <1>1, <1>2, <1>4 DEF x, N

-----------------------------------------------------------------------------
(* What is promised of the next call.                                       *)
LEMMA StaysPut ==
  ASSUME NEW N \in Nat, NEW x, NEW k \in 0..N, \A i \in k + 1 .. N : x[i - 1] = x[k] => x[i] = x[k]
  PROVE  x[N] = x[k]
<1> DEFINE S == {i \in Nat : k + i <= N => x[k + i] = x[k]}
<1>1. 0 \in S
  <2>1. k + 0 = k
    OBVIOUS
  <2> QED
    BY <2>1
<1>2. ASSUME NEW i \in Nat, i \in S PROVE i + 1 \in S
  <2> SUFFICES ASSUME k + (i + 1) <= N PROVE x[k + (i + 1)] = x[k]
    OBVIOUS
  <2>1. x[k + i] = x[k] /\ k + (i + 1) \in k + 1 .. N /\ k + (i + 1) - 1 = k + i
    BY <1>2
  <2> QED
    BY <2>1
<1>3. N - k \in S
  <2>1. N - k \in Nat
    OBVIOUS
  <2>2. Nat \subseteq S
    <3> HIDE DEF S
    <3> QED
      BY <1>1, <1>2, NatInduct
  <2> HIDE DEF S
  <2> QED
    BY <2>1, <2>2
<1>4. k + (N - k) = N
  OBVIOUS
<1> QED
  BY <1>3, <1>4

\* A command that raised, or a session that is over, adds nothing more.
LEMMA SkipsRest ==
  ASSUME NEW n \in DOMAIN Sessions, NEW u \in 1 .. Len(Sessions[n].todo), NEW acc \in Accs,
         NEW k \in 0 .. Len(Plans[n][u]), Skips(u, AfterCalls(n, u, acc)[k])
  PROVE  AfterCalls(n, u, acc)[Len(Plans[n][u])] = AfterCalls(n, u, acc)[k]
<1> DEFINE N == Len(Plans[n][u])
           x == AfterCalls(n, u, acc)
<1>1. N \in Nat
  BY PlanTyped
<1>2. ASSUME NEW i \in k + 1 .. N, x[i - 1] = x[k] PROVE x[i] = x[k]
  <2>1. i \in 1..N
    BY <1>1
  <2>2. x[i] = Extend(Sessions[n].tool, u, Plans[n][u][i], x[i - 1])
    BY <2>1, AfterCallsAt
  <2> HIDE DEF x, N
  <2>3. Extend(Sessions[n].tool, u, Plans[n][u][i], x[k]) = x[k]
    BY ExtendIs DEF x
  <2> QED
    BY <1>2, <2>2, <2>3
<1> HIDE DEF x, N
<1>3. k \in 0..N
  BY DEF N
<1>4. x[N] = x[k]
  BY <1>1, <1>2, <1>3, StaysPut
<1> QED
  BY <1>4 DEF x, N

\* ... and a session that is over has nothing more to promise.
LEMMA OverRest ==
  ASSUME session \in DOMAIN Sessions, NEW u \in 0 .. Len(Todo), AfterCommands(session)[u].over
  PROVE  Promised = AfterCommands(session)[u]
<1> DEFINE N == Len(Todo)
           x == AfterCommands(session)
<1>1. N \in Nat /\ Promised = x[N]
  BY PromisedIs
<1>2. ASSUME NEW i \in u + 1 .. N, x[i - 1] = x[u] PROVE x[i] = x[u]
  <2>1. i \in 1 .. Len(Sessions[session].todo) /\ i - 1 \in 0 .. Len(Todo) /\ Len(Plans[session][i]) \in Nat
    <3>1. i \in 1 .. Len(Sessions[session].todo) /\ i - 1 \in 0 .. Len(Todo)
      BY <1>1 DEF Todo
    <3> QED
      BY <3>1, PlanTyped
  <2>2. x[i] = AfterCalls(session, i, x[i - 1])[Len(Plans[session][i])]
    BY <2>1, AfterCommandsDef
  <2>3. x[i - 1] \in Accs
    BY <2>1, PromisedIs
  <2> HIDE DEF x, N
  <2>4. PICK a \in Accs : a = x[i - 1]
    BY <2>3
  <2>5. AfterCalls(session, i, a)[0] = a /\ 0 \in 0 .. Len(Plans[session][i])
    <3>1. AfterCalls(session, i, a)[0] = a
      BY <2>1, AfterCallsDef
    <3> QED
      BY <2>1, <3>1
  <2>6. Skips(i, a)
    BY <1>2, <2>4 DEF Skips, x
  <2>7. Skips(i, AfterCalls(session, i, a)[0])
    BY <2>5, <2>6
  <2>8. AfterCalls(session, i, a)[Len(Plans[session][i])] = a
    BY <2>1, <2>5, <2>7, SkipsRest
  <2> QED
    BY <1>2, <2>2, <2>4, <2>8
<1> HIDE DEF x, N
<1>3. u \in 0..N
  BY DEF N
<1>4. x[N] = x[u]
  BY <1>1, <1>2, <1>3, StaysPut
<1> QED
  BY <1>1, <1>4 DEF x

After == Extend(Tool, user, Here, Acc)

\* The calls of the command under way.
Run == AfterCalls(session, user, AfterCommands(session)[user - 1])

\* Where the call under way is in them.
LEMMA RunIs ==
  ASSUME HostTyped, Placed, ~Sent
  PROVE  /\ session \in DOMAIN Sessions /\ user \in 1 .. Len(Sessions[session].todo) /\ user - 1 \in 0 .. Len(Todo)
         /\ AfterCommands(session)[user - 1] \in Accs
         /\ Len(Plan) \in Nat /\ call \in 1 .. Len(Plan) /\ Plan = Plans[session][user]
         /\ Run \in [0 .. Len(Plan) -> Accs] /\ Acc = Run[call - 1] /\ Run[call] = After
         /\ Run[0] = AfterCommands(session)[user - 1] /\ Run[Len(Plan)] = AfterCommands(session)[user]
<1>1. /\ session \in DOMAIN Sessions /\ user \in 1 .. Len(Todo) /\ Len(Todo) \in Nat
      /\ Len(Plan) \in Nat /\ call \in 1 .. Len(Plan) /\ Plan = Plans[session][user]
  BY HereTyped DEF Plan
<1>2. user \in 1 .. Len(Sessions[session].todo) /\ user - 1 \in 0 .. Len(Todo)
  BY <1>1 DEF Todo
<1>3. AfterCommands(session)[user - 1] \in Accs
  BY <1>1, <1>2, PromisedIs
<1>4. /\ Run \in [0 .. Len(Plan) -> Accs] /\ Run[0] = AfterCommands(session)[user - 1]
      /\ \A i \in 1 .. Len(Plan) : Run[i] = Extend(Tool, user, Plan[i], Run[i - 1])
  <2>1. PICK acc \in Accs : acc = AfterCommands(session)[user - 1]
    BY <1>3
  <2> DEFINE x == AfterCalls(session, user, acc)
  <2>2. /\ x \in [0 .. Len(Plans[session][user]) -> Accs] /\ x[0] = acc
        /\ \A i \in 1 .. Len(Plans[session][user]) :
             x[i] = Extend(Sessions[session].tool, user, Plans[session][user][i], x[i - 1])
    BY <1>1, <1>2, AfterCallsDef
  <2>3. Run = x
    BY <2>1 DEF Run
  <2> HIDE DEF x
  <2> QED
    BY <1>1, <2>1, <2>2, <2>3 DEF Tool
<1>5. Acc = Run[call - 1]
  BY DEF Acc, Run
<1>6. Run[call] = After
  BY <1>1, <1>4, <1>5 DEF After, Here
<1>7. Run[Len(Plan)] = AfterCommands(session)[user]
  BY <1>1, <1>2, AfterCommandsDef DEF Run
<1> QED
  BY <1>1, <1>2, <1>3, <1>4, <1>5, <1>6, <1>7

\* What a call adds is part of what is promised.
LEMMA AccIs ==
  ASSUME HostTyped, Placed, ~Sent
  PROVE  Acc \in Accs /\ After \in Accs /\ Grows(Acc, After) /\ Grows(After, Promised) /\ Promised \in Accs
<1>1. call - 1 \in 0 .. Len(Plan) /\ call \in 0 .. Len(Plan) /\ Len(Plan) \in 0 .. Len(Plan) /\ user \in 0 .. Len(Todo)
  BY RunIs DEF Todo
<1>2. Acc \in Accs /\ After \in Accs /\ Run[Len(Plan)] \in Accs /\ Promised \in Accs
  BY <1>1, RunIs, PromisedIs
<1>3. Grows(Acc, After)
  <2>1. WellFormed(Here) /\ Here.err \in Errors /\ user \in Nat
    <3>1. user \in Nat /\ WellFormed(Here)
      BY HereTyped
    <3>2. Here.err \in Errors
      BY RunIs, ErrsAre DEF Here
    <3> QED
      BY <3>1, <3>2
  <2> QED
    BY <1>2, <2>1, ExtendTyped DEF After
<1>4. Grows(Run[call], Run[Len(Plan)])
  BY <1>1, RunIs, CallsGrow DEF Run
<1>5. Grows(Run[Len(Plan)], Promised)
  BY <1>1, RunIs, PromisedIs
<1>6. Grows(After, Promised)
  BY <1>2, <1>4, <1>5, RunIs, GrowsTwice
<1> QED
  BY <1>2, <1>3, <1>6

\* The next call begins with what this one has added.
LEMMA NextAcc ==
  ASSUME HostTyped, Placed, ~Sent, NextCall, session' = session
  PROVE  Acc' = After
<1>1. CASE call < Len(Plan)
  <2>1. call' = call + 1 /\ user' = user
    BY <1>1 DEF NextCall
  <2>2. Sent' = Sent /\ call' - 1 = call
    BY <2>1, RunIs DEF Sent, Todo
  <2>3. Acc' = Run[call]
    BY <2>1, <2>2 DEF Acc, Run
  <2> QED
    BY <2>3, RunIs
<1>2. CASE ~(call < Len(Plan))
  <2>1. call' = 1 /\ user' = user + 1 /\ call = Len(Plan) /\ call' - 1 = 0 /\ user' - 1 = user
    BY <1>2, RunIs DEF NextCall
  <2>2. AfterCommands(session)[user] = After
    BY <2>1, RunIs
  <2>3. CASE Sent'
    <3>1. user = Len(Todo)
      BY <2>1, <2>3, RunIs, HereTyped DEF Sent, Todo
    <3>2. Promised' = Promised
      BY DEF Promised
    <3>3. Promised = AfterCommands(session)[Len(Todo)]
      BY RunIs, PromisedIs
    <3> QED
      BY <2>2, <2>3, <3>1, <3>2, <3>3 DEF Acc
  <2>4. CASE ~Sent'
    <3>1. Acc' = AfterCalls(session, user + 1, After)[0]
      BY <2>1, <2>2, <2>4 DEF Acc
    <3>2. user + 1 \in 1 .. Len(Sessions[session].todo)
      BY <2>1, <2>4, RunIs, HereTyped DEF Sent, Todo
    <3>3. PICK a \in Accs : a = After
      BY AccIs
    <3>4. AfterCalls(session, user + 1, a)[0] = a
      BY <3>2, RunIs, AfterCallsDef
    <3> QED
      BY <3>1, <3>3, <3>4
  <2> QED
    BY <2>3, <2>4
<1> QED
  BY <1>1, <1>2

\* So does the command after one that raised.
LEMMA RaiseAcc ==
  ASSUME HostTyped, Placed, ~Sent, NEW e, Raise(e), session' = session,
         After.skip = user, After.over = Tools!EndsSession(Tool, e)
  PROVE  Acc' = After
<1>1. /\ call' = 1 /\ call' - 1 = 0
      /\ user' = IF Tools!EndsSession(Tool, e) THEN Len(Todo) + 1 ELSE user + 1
  BY DEF Raise
<1>2. AfterCommands(session)[user] = After
  <2>1. PICK acc \in Accs : acc = AfterCommands(session)[user - 1]
    BY RunIs
  <2>2. Skips(user, AfterCalls(session, user, acc)[call])
    BY <2>1, RunIs DEF Skips, Run
  <2>3. call \in 0 .. Len(Plans[session][user])
    BY RunIs
  <2>4. AfterCalls(session, user, acc)[Len(Plans[session][user])] = AfterCalls(session, user, acc)[call]
    BY <2>2, <2>3, RunIs, SkipsRest
  <2> QED
    BY <2>1, <2>4, RunIs DEF Run
<1>3. Promised' = Promised
  BY DEF Promised
<1>4. user \in 1 .. Len(Todo) /\ Len(Todo) \in Nat
  BY HereTyped
<1>5. CASE Tools!EndsSession(Tool, e)
  <2>1. Sent'
    BY <1>1, <1>4, <1>5 DEF Sent, Todo
  <2>2. Promised = After
    <3>1. AfterCommands(session)[user].over
      BY <1>2, <1>5
    <3>2. user \in 0 .. Len(Todo) /\ session \in DOMAIN Sessions
      BY <1>4, RunIs
    <3>3. Promised = AfterCommands(session)[user]
      BY <3>1, <3>2, OverRest
    <3> QED
      BY <1>2, <3>3
  <2> QED
    BY <1>3, <2>1, <2>2 DEF Acc
<1>6. CASE ~Tools!EndsSession(Tool, e)
  <2>1. user' = user + 1 /\ user' - 1 = user
    BY <1>1, <1>4, <1>6
  <2>3. CASE Sent'
    <3>1. user = Len(Todo)
      BY <1>4, <2>1, <2>3 DEF Sent, Todo
    <3>3. Promised = AfterCommands(session)[Len(Todo)]
      BY RunIs, PromisedIs
    <3> QED
      BY <1>2, <1>3, <2>3, <3>1, <3>3 DEF Acc
  <2>4. CASE ~Sent'
    <3>1. Acc' = AfterCalls(session, user + 1, After)[0]
      BY <1>1, <1>2, <2>1, <2>4 DEF Acc
    <3>2. user + 1 \in 1 .. Len(Sessions[session].todo)
      BY <1>4, <2>1, <2>4 DEF Sent, Todo
    <3>3. PICK a \in Accs : a = After
      BY AccIs
    <3>4. AfterCalls(session, user + 1, a)[0] = a
      BY <3>2, RunIs, AfterCallsDef
    <3> QED
      BY <3>1, <3>3, <3>4
  <2> QED
    BY <2>3, <2>4
<1> QED
  BY <1>5, <1>6

-----------------------------------------------------------------------------
(* Between two calls.                                                       *)
Resting == halt \/ state \in {"STEP_ASSERT", "STEP_DEASSERT"}

\* Nothing added.
LEMMA EmptyAdds == ASSUME NEW s \in Seq(Event) PROVE s \o <<>> = s
  OBVIOUS

\* The debugger does the rest of the last call while no byte comes.
LEMMA ReadyStep ==
  ASSUME Inv, TxInv, HostTyped, Ready, NEW rx, rx = NoByte, Clock(rx), log' = log \o Did(rx),
         gap' \in Nat, gap' = gap \/ (gap > 0 /\ gap' = gap - 1)
  PROVE  Ready' /\ log' \o Pending' = log \o Pending /\ Resting' = Resting
<1>1. /\ tx_left \in Nat /\ gap \in Nat /\ log \in Seq(Event) /\ log \o <<>> = log /\ HostSees \in Nat
      /\ tx_en \in BOOLEAN /\ halt \in BOOLEAN /\ Did(rx) \in Seq(Event)
  <2>1. tx_left \in Nat /\ gap \in Nat /\ log \in Seq(Event) /\ tx_data \in RxByte
    BY DEF Inv, TypeOK, CountsTyped, HostTyped
  <2>2. log \o <<>> = log
    BY <2>1, EmptyAdds
  <2>3. tx_en \in BOOLEAN /\ halt \in BOOLEAN
    BY DEF Inv, TypeOK, FlagsTyped
  <2> QED
    BY <2>1, <2>2, <2>3, DidTyped, LinkSizes
<1>2. log' \in Seq(Event) /\ log' \o <<>> = log'
  <2>1. log' \in Seq(Event)
    BY <1>1
  <2> QED
    BY <2>1, EmptyAdds
<1>3. CASE state = "CMD_IDLE" /\ Silent
  <2>1. state' = "CMD_IDLE" /\ halt' = halt /\ log' = log /\ tx_en' = FALSE /\ Transmit
    BY <1>3, StaysIdle
  <2>2. Silent'
    BY <1>3, <2>1 DEF Silent, Transmit
  <2>3. Pending' = <<>> /\ Pending = <<>>
    BY <1>3, <2>1 DEF Pending
  <2> QED
    BY <1>1, <1>3, <2>1, <2>2, <2>3 DEF Ready, Resting
<1>4. CASE state = "STEP_ASSERT" /\ Silent /\ gap >= 2
  <2>1. state' = "STEP_DEASSERT" /\ halt' = FALSE /\ Silent'
    <3>1. StepAssert
      BY <1>4, ClockAt
    <3> QED
      BY <1>4, <3>1, StaysSilent DEF StepAssert, Goto
  <2>2. Did(rx) = <<<<"step">>>> /\ Pending = <<<<"step">>>> /\ Pending' = <<>>
    BY <1>4, <2>1, DidAt DEF Pending
  <2>3. gap' >= 1
    BY <1>1, <1>4
  <2> QED
    BY <1>2, <1>4, <2>1, <2>2, <2>3 DEF Ready, Resting
<1>5. CASE state = "STEP_DEASSERT" /\ Silent /\ gap >= 1
  <2>1. state' = "CMD_IDLE" /\ halt' = TRUE /\ Silent'
    <3>1. StepDeassert
      BY <1>5, ClockAt
    <3> QED
      BY <1>5, <3>1, StaysSilent DEF StepDeassert, Goto
  <2>2. Did(rx) = <<>> /\ Pending = <<>> /\ Pending' = <<>>
    <3>1. ~tx_en
      BY <1>5 DEF Silent
    <3> QED
      BY <1>5, <2>1, <3>1, DidAt DEF Pending
  <2> QED
    BY <1>1, <1>5, <2>1, <2>2 DEF Ready, Resting
<1>6. CASE state = "MEM_WRITE_PULSE" /\ Silent /\ gap >= 1
  <2>1. state' = "CMD_IDLE" /\ halt' = halt /\ Silent'
    <3>1. MemWritePulse
      BY <1>6, ClockAt
    <3> QED
      BY <1>6, <3>1, StaysSilent DEF MemWritePulse, Goto
  <2>2. Did(rx) = <<<<"write", mem_addr, mem_wdata>>>> /\ Pending = <<<<"write", mem_addr, mem_wdata>>>> /\ Pending' = <<>>
    BY <1>6, <2>1, DidAt DEF Pending
  <2> QED
    BY <1>2, <1>6, <2>1, <2>2 DEF Ready, Resting
<1>7. CASE LastSeen /\ word_count = 1 /\ gap > tx_left
  <2>1. state = "SEND_BYTE_WAIT_DONE" /\ tx_left < HostSees /\ byte_sel = WordBytes - 1
    BY <1>7 DEF LastSeen, Seen
  <2>2. SendByteWaitDone
    BY <2>1, ClockAt
  <2>3. ~tx_en
    BY <2>1 DEF TxInv
  <2>4. Did(rx) = <<>> /\ Pending = <<>>
    BY <2>1, <2>3, DidAt DEF Pending
  <2>5. Transmit /\ tx_en' = FALSE /\ halt' = halt
    BY <2>2 DEF SendByteWaitDone, Quiet
  <2>6. CASE tx_left > 0
    <3>1. state' = state /\ UNCHANGED <<word_count, byte_sel>>
      BY <2>2, <2>6 DEF SendByteWaitDone, tx_busy
    <3>2. tx_left' = tx_left - 1
      BY <2>3, <2>5, <2>6 DEF Transmit
    <3>3. tx_left' < HostSees /\ gap' > tx_left'
      BY <1>1, <1>7, <2>1, <2>6, <3>2
    <3>4. LastSeen' /\ word_count' = 1
      BY <1>7, <2>1, <3>1, <3>3 DEF LastSeen, Seen
    <3>5. Pending' = <<>>
      BY <2>1, <3>1 DEF Pending
    <3> QED
      BY <1>1, <2>1, <2>4, <2>5, <3>1, <3>3, <3>4, <3>5 DEF Ready, Resting
  <2>7. CASE ~(tx_left > 0)
    <3>1. state' = "CMD_IDLE"
      BY <1>7, <2>1, <2>2, <2>7 DEF SendByteWaitDone, tx_busy, LastWord, Goto
    <3>2. Silent'
      BY <1>1, <2>3, <2>5, <2>7 DEF Silent, Transmit
    <3>3. Pending' = <<>>
      BY <3>1 DEF Pending
    <3> QED
      BY <1>1, <2>1, <2>4, <2>5, <3>1, <3>2, <3>3 DEF Ready, Resting
  <2> QED
    BY <2>6, <2>7
<1> QED
  BY <1>3, <1>4, <1>5, <1>6, <1>7 DEF Ready

\* No byte of a reply is still to come.
LEMMA ReadyArrived == ASSUME Ready PROVE Arrived = <<>>
<1>1. HostSees >= 1 /\ (tx_left = 0 \/ tx_left < HostSees)
  BY LinkSizes DEF Ready, Silent, LastSeen, Seen
<1>2. tx_left # HostSees
  BY <1>1, LinkSizes
<1> QED
  BY <1>2 DEF Arrived

\* A clock without a byte while the host is between two calls.
LEMMA BetweenSilence ==
  ASSUME Inv, TxInv, HostTyped, Placed, Between, NEW rx, Silence(rx), Clock(rx), log' = log \o Did(rx)
  PROVE  Between' /\ UNCHANGED <<user, call>> /\ Acc' = Acc
<1>1. awaiting = 0 /\ byte = 1 /\ inbox = <<>> /\ Ready
  BY DEF Between
<1>2. /\ rx = NoByte /\ session' = session /\ UNCHANGED <<user, call, byte, awaiting, told>>
      /\ inbox' = inbox \o Arrived /\ gap' = (IF MaySend THEN gap - 1 ELSE gap) /\ ~(MaySend /\ gap = 0)
  <2>1. ~(awaiting > 0)
    BY <1>1
  <2>2. /\ rx = NoByte /\ session' = session /\ UNCHANGED <<user, call, byte, awaiting, told>>
        /\ inbox' = inbox \o Arrived
    BY <2>1, Zenon DEF Silence
  <2> QED
    BY <2>2 DEF Silence
<1>3. gap' \in Nat /\ (gap' = gap \/ (gap > 0 /\ gap' = gap - 1))
  BY <1>2 DEF HostTyped
<1>4. inbox' = <<>>
  BY <1>1, <1>2, ReadyArrived
<1>5. Ready' /\ log' \o Pending' = log \o Pending /\ Resting' = Resting
  BY <1>1, <1>2, <1>3, ReadyStep
<1>6. Sent' = Sent /\ Acc' = Acc
  BY <1>2 DEF Sent, Todo, Acc, Promised
<1>7. Acc.halted = Resting
  BY DEF Between, Resting
<1> QED
  BY <1>1, <1>2, <1>4, <1>5, <1>6, <1>7 DEF Between, Resting

\* ... and while the host rejects what it was given.
LEMMA BetweenReject ==
  ASSUME Inv, TxInv, HostTyped, Placed, Between, ~Acc.over, Acc.skip < user,
         NEW rx, Reject(rx), Clock(rx), log' = log \o Did(rx)
  PROVE  Between' /\ (~Sent' => ~Acc'.over /\ Acc'.skip < user')
<1>1. awaiting = 0 /\ byte = 1 /\ inbox = <<>> /\ Ready /\ told = Acc.told
  BY DEF Between
<1>2. /\ rx = NoByte /\ ~Sent /\ Here.err # "none" /\ Raise(Here.err) /\ inbox' = inbox \o Arrived
      /\ session' = session /\ gap' = gap /\ awaiting' = awaiting
  BY DEF Reject, Raising
<1>3. user \in Nat /\ Acc \in Accs /\ Acc.skip \in Nat
  BY <1>2, HereTyped, AccIs DEF Accs
<1>4. ~Skips(user, Acc)
  BY <1>3 DEF Skips
<1>5. After = Rejected(Tool, user, Here, Acc)
  BY <1>2, <1>4, ExtendIs DEF After
<1>6. /\ After.told = Append(Acc.told, Says(user, <<Here.err>>)) /\ After.skip = user
      /\ After.over = Tools!EndsSession(Tool, Here.err) /\ After.log = Acc.log /\ After.halted = Acc.halted
  BY <1>3, <1>5 DEF Rejected, Accs
<1>7. Acc' = After
  BY <1>2, <1>6, RaiseAcc
<1>8. byte' = 1 /\ told' = After.told
  BY <1>1, <1>2, <1>6 DEF Raise
<1>9. gap' \in Nat
  BY <1>2 DEF HostTyped
<1>10. Ready' /\ log' \o Pending' = log \o Pending /\ Resting' = Resting
  BY <1>1, <1>2, <1>9, ReadyStep
<1>11. inbox' = <<>>
  BY <1>1, <1>2, ReadyArrived
<1>12. Acc.halted = Resting /\ log \o Pending = Acc.log
  BY DEF Between, Resting
<1>13. Between'
  BY <1>1, <1>2, <1>6, <1>7, <1>8, <1>10, <1>11, <1>12 DEF Between, Resting
<1>14. ~Sent' => ~After.over /\ After.skip < user'
  <2>1. user' = IF Tools!EndsSession(Tool, Here.err) THEN Len(Todo) + 1 ELSE user + 1
    BY <1>2 DEF Raise
  <2>2. Todo' = Todo /\ Len(Todo) \in Nat
    BY <1>2, HereTyped DEF Todo
  <2> QED
    BY <1>3, <1>6, <2>1, <2>2 DEF Sent
<1> QED
  BY <1>7, <1>13, <1>14

-----------------------------------------------------------------------------
(* The first byte of a call.                                                *)
LEMMA Carried ==
  ASSUME HostTyped, Placed, ~Sent, ~Acc.over, Acc.skip < user,
         NEW c, Here = c, c.err = "none", c.op \in HaltedOnly => Acc.halted
  PROVE  /\ After.log = Acc.log \o Effect(c) /\ After.told = Acc.told \o Shown(c)
         /\ After.halted = HaltedAfter(c, Acc.halted) /\ ~After.over /\ After.skip < user
         /\ Acc.log \in Seq(Event) /\ Acc.told \in Seq(Said)
         /\ Effect(c) \in Seq(Event) /\ Shown(c) \in Seq(Said) /\ Len(Shown(c)) = Len(Wanted(c)) /\ WellFormed(c)
<1>1. user \in Nat /\ Acc \in Accs /\ Acc.skip \in Nat /\ WellFormed(c)
  BY HereTyped, AccIs DEF Accs
<1>2. ~Skips(user, Acc) /\ ~Ignored(c, Acc)
  BY <1>1 DEF Skips, Ignored
<1>3. After = Done(user, c, Acc)
  BY <1>2, ExtendIs DEF After
<1>4. Shown(c) = Tells(user, c)
  BY DEF Shown, Tells
<1>5. Effect(c) \in Seq(Event) /\ Shown(c) \in Seq(Said) /\ Len(Shown(c)) = Len(Wanted(c))
  BY <1>1, <1>4, EffectTyped, TellsTyped
<1> QED
  BY <1>1, <1>3, <1>4, <1>5 DEF Done, Accs

\* A call that neither raised nor ended the session is followed by another.
LEMMA Onward ==
  ASSUME HostTyped, Placed, ~Sent, ~After.over, After.skip < user, NextCall, session' = session
  PROVE  Acc' = After /\ ~Acc'.over /\ Acc'.skip < user'
<1>1. Acc' = After
  BY NextAcc
<1>2. user' \in {user, user + 1} /\ user \in Nat /\ After.skip \in Nat
  BY HereTyped, AccIs DEF NextCall, Accs
<1> QED
  BY <1>1, <1>2

\* The host has nothing to look at: the same call goes on.
LEMMA SameCall ==
  ASSUME session' = session, UNCHANGED <<user, call>>
  PROVE  Acc' = Acc /\ Sent' = Sent /\ Here' = Here /\ Todo' = Todo
  BY DEF Acc, Sent, Here, Plan, Todo, Promised

\* The first byte of a call that finds the debugger ready.
LEMMA BetweenDeliver ==
  ASSUME Inv, TxInv, HostTyped, Placed, Between, ~Acc.over, Acc.skip < user,
         NEW c, Here = c, NEW rx \in Byte \cup {NoByte}, Deliver(rx), rx = Wire(c)[byte], Clock(rx), log' = log \o Did(rx)
  PROVE  OnTrack'
<1>1. awaiting = 0 /\ byte = 1 /\ inbox = <<>> /\ Ready /\ told = Acc.told /\ log \o Pending = Acc.log
      /\ Acc.halted = Resting
  BY DEF Between, Resting
<1>2. ~Sent /\ c.err = "none" /\ gap = 0 /\ session' = session
  BY DEF Deliver, MaySend
<1>3. WellFormed(c) /\ user \in Nat /\ Acc \in Accs /\ log \in Seq(Event) /\ halt \in BOOLEAN
  BY <1>2, HereTyped, AccIs DEF HostTyped, Inv, TypeOK, FlagsTyped
<1>4. c.op \in Ops /\ Len(c.arg) = ArgLen(c.op) /\ Len(Wire(c)) = 1 + Len(c.arg) /\ rx = c.op
  BY <1>1, <1>2, <1>3, CallTyped
<1>5. state = "CMD_IDLE" /\ Silent
  <2>1. tx_left \in Nat
    BY DEF Inv, TypeOK, CountsTyped
  <2> QED
    BY <1>1, <1>2, <2>1 DEF Ready
<1>6. Pending = <<>> /\ log = Acc.log /\ Acc.halted = halt
  <2>1. Pending = <<>>
    BY <1>5 DEF Pending
  <2> QED
    BY <1>1, <1>3, <1>5, <2>1, EmptyAdds DEF Resting
<1>7. Len(Opened \o Arrived) = 0
  BY <1>1, <1>5, NothingArrives
<1>8. CASE c.op \in HaltedOnly /\ ~halt
  <2>1. Ignore(rx)
    BY <1>4, <1>5, <1>8, ClockAt, IdleAt
  <2>2. state' = "CMD_IDLE" /\ halt' = halt /\ Silent'
    BY <1>5, <2>1, StaysSilent DEF Ignore
  <2>3. Did(rx) = <<>>
    <3>1. rx \notin {CMD_HALT, CMD_RESUME}
      BY <1>4, <1>8, OpsAre DEF HaltedOnly
    <3> QED
      BY <1>5, <3>1, DidAt
  <2>4. Len(Wire(c)) \in Nat /\ Len(Wire(c)) >= 2
    BY <1>4, <1>8, Sizes, ArgLenIs DEF HaltedOnly
  <2>5. /\ inbox' = <<>> /\ told' = told /\ byte' = 2 /\ awaiting' = 0 /\ UNCHANGED <<user, call>>
    <3>1. byte # Len(Wire(c)) /\ 1 + 1 = 2
      <4>1. \A l \in Nat : l >= 2 => l # 1
        OBVIOUS
      <4>2. Len(Wire(c)) # 1
        BY <2>4, <4>1
      <4> QED
        BY <1>1, <4>2
    <3>2. /\ inbox' = <<>> /\ told' = told
          /\ byte # Len(Wire(c)) => byte' = byte + 1 /\ awaiting' = 0 /\ UNCHANGED <<user, call>>
      BY <1>7, DeliverHost
    <3> QED
      BY <1>1, <3>1, <3>2
  <2>6. Acc' = Acc /\ Sent' = Sent /\ Here' = c
    BY <1>2, <2>5, SameCall
  <2>7. Ignoring(c)'
    BY <1>8, <2>2, <2>4, <2>5 DEF Ignoring
  <2>8. log' = Acc'.log
    BY <1>3, <1>6, <2>3, <2>6, EmptyAdds
  <2>9. During(c)'
    BY <1>1, <1>2, <1>6, <2>2, <2>5, <2>6, <2>7, <2>8 DEF During
  <2> QED
    BY <1>2, <2>5, <2>6, <2>9 DEF OnTrack, InCall
<1>9. CASE c.op \in HaltedOnly => halt
  <2>1. /\ Silent' /\ inbox' = <<>> /\ told' = told /\ gap' \in Nat /\ gap' >= 2
        /\ c.op \in {CMD_HALT, CMD_RESUME, CMD_STEP} => NextCall /\ awaiting' = 0
        /\ c.op \in {CMD_HALT, CMD_RESUME} =>
             state' = "CMD_IDLE" /\ halt' = (c.op = CMD_HALT) /\ Did(rx) = Effect(c)
        /\ c.op = CMD_STEP => state' = "STEP_ASSERT" /\ halt' = halt /\ Did(rx) = <<>>
        /\ c.op \in {CMD_READ_PC, CMD_READ_ALL} =>
             /\ Answering(c)' /\ Replied(c)' = 0 /\ awaiting' = Len(Wanted(c))
             /\ halt' = halt /\ Did(rx) = <<>> /\ UNCHANGED <<user, call, byte>>
        /\ c.op \notin {CMD_HALT, CMD_RESUME, CMD_STEP, CMD_READ_PC, CMD_READ_ALL} =>
             /\ Receiving(c)' /\ state' # "CMD_IDLE" /\ halt' = halt /\ Did(rx) = <<>>
             /\ UNCHANGED <<user, call>>
    BY <1>1, <1>4, <1>5, <1>7, <1>9, FirstByte
  <2>2. /\ After.log = Acc.log \o Effect(c) /\ After.told = Acc.told \o Shown(c)
        /\ After.halted = HaltedAfter(c, Acc.halted) /\ ~After.over /\ After.skip < user
        /\ Acc.log \in Seq(Event) /\ Acc.told \in Seq(Said)
        /\ Effect(c) \in Seq(Event) /\ Shown(c) \in Seq(Said) /\ Len(Shown(c)) = Len(Wanted(c))
    BY <1>2, <1>6, <1>9, Carried
  <2>3. CASE c.op \in {CMD_HALT, CMD_RESUME, CMD_STEP}
    <3>1. Acc' = After /\ ~Acc'.over /\ Acc'.skip < user' /\ byte' = 1
      BY <1>2, <2>1, <2>2, <2>3, Onward DEF NextCall
    <3>2. After.told = Acc.told
      <4>1. Len(Wanted(c)) = 0
        BY <2>3, WantedLen
      <4>2. Shown(c) = <<>>
        BY <2>2, <4>1
      <4> QED
        BY <2>2, <4>2
    <3>3. Ready'
      BY <2>1, <2>3 DEF Ready
    <3>4. log' \o Pending' = After.log
      <4>1. CASE c.op \in {CMD_HALT, CMD_RESUME}
        <5>1. Pending' = <<>> /\ log' = Acc.log \o Effect(c)
          BY <1>6, <2>1, <4>1 DEF Pending
        <5>2. log' \in Seq(Event)
          BY <2>2, <5>1
        <5> QED
          BY <2>2, <5>1, <5>2, EmptyAdds
      <4>2. CASE c.op = CMD_STEP
        <5>1. Pending' = <<<<"step">>>> /\ log' = log
          BY <1>3, <2>1, <4>2, EmptyAdds DEF Pending
        <5>2. Effect(c) = <<<<"step">>>>
          <6>1. c.op \notin {CMD_HALT, CMD_RESUME}
            BY <4>2, OpsAre
          <6> QED
            BY <4>2, <6>1, OpsAre DEF Effect
        <5> QED
          BY <1>6, <2>2, <5>1, <5>2
      <4> QED
        BY <2>3, <4>1, <4>2
    <3>5. After.halted = Resting'
      <4>1. CASE c.op = CMD_HALT
        <5>1. HaltedAfter(c, Acc.halted) = TRUE
          BY <4>1, OpsAre DEF HaltedAfter
        <5> QED
          BY <2>1, <2>2, <4>1, <5>1 DEF Resting
      <4>2. CASE c.op = CMD_RESUME
        <5>1. HaltedAfter(c, Acc.halted) = FALSE
          BY <4>2, OpsAre DEF HaltedAfter
        <5>2. halt' = FALSE /\ state' = "CMD_IDLE"
          BY <2>1, <4>2, OpsAre
        <5> QED
          BY <2>2, <5>1, <5>2 DEF Resting
      <4>3. CASE c.op = CMD_STEP
        <5>1. HaltedAfter(c, Acc.halted) = TRUE
          BY <4>3, OpsAre DEF HaltedAfter
        <5> QED
          BY <2>1, <2>2, <4>3, <5>1 DEF Resting
      <4> QED
        BY <2>3, <4>1, <4>2, <4>3
    <3>6. Between'
      BY <1>1, <2>1, <2>3, <3>1, <3>2, <3>3, <3>4, <3>5 DEF Between, Resting
    <3> QED
      BY <3>1, <3>6 DEF OnTrack
  <2>4. CASE c.op \in {CMD_READ_PC, CMD_READ_ALL}
    <3>1. /\ Answering(c)' /\ Replied(c)' = 0 /\ awaiting' = Len(Wanted(c))
          /\ halt' = halt /\ Did(rx) = <<>> /\ UNCHANGED <<user, call>>
      BY <2>1, <2>4
    <3>2. Acc' = Acc /\ Sent' = Sent /\ Here' = c
      BY <1>2, <3>1, SameCall
    <3>3. log' = Acc'.log \o SubSeq(Effect(c), 1, Replied(c)')
      <4>1. SubSeq(Effect(c), 1, 0) = <<>>
        BY <2>2
      <4> QED
        BY <1>3, <1>6, <3>1, <3>2, <4>1, EmptyAdds
    <3>4. told' = Acc'.told \o SubSeq(Shown(c)', 1, Len(Wanted(c)) - awaiting')
      <4>1. Shown(c)' = Shown(c)
        BY <3>1 DEF Shown
      <4>2. Len(Wanted(c)) - awaiting' = 0
        BY <2>2, <3>1
      <4>3. SubSeq(Shown(c), 1, 0) = <<>>
        BY <2>2
      <4>4. told' = told \o <<>>
        BY <1>1, <2>1, <2>2
      <4> QED
        BY <1>1, <3>2, <4>1, <4>2, <4>3, <4>4
    <3>5. During(c)'
      BY <1>2, <1>6, <1>9, <3>1, <3>2, <3>3, <3>4 DEF During
    <3> QED
      BY <1>2, <3>1, <3>2, <3>5 DEF OnTrack, InCall
  <2>5. CASE c.op \notin {CMD_HALT, CMD_RESUME, CMD_STEP, CMD_READ_PC, CMD_READ_ALL}
    <3>1. Receiving(c)' /\ state' # "CMD_IDLE" /\ halt' = halt /\ Did(rx) = <<>> /\ UNCHANGED <<user, call>>
      BY <2>1, <2>5
    <3>2. Acc' = Acc /\ Sent' = Sent /\ Here' = c
      BY <1>2, <3>1, SameCall
    <3>3. log' = Acc'.log /\ told' = Acc'.told
      BY <1>1, <1>3, <1>6, <2>1, <3>1, <3>2, EmptyAdds
    <3>4. During(c)'
      BY <1>2, <1>6, <1>9, <3>1, <3>2, <3>3 DEF During
    <3> QED
      BY <1>2, <3>1, <3>2, <3>4 DEF OnTrack, InCall
  <2> QED
    BY <2>3, <2>4, <2>5
<1> QED
  BY <1>8, <1>9

-----------------------------------------------------------------------------
(* The bytes of a call, and its answer.                                     *)
LEMMA JoinIs ==
  ASSUME NEW S, NEW a \in Seq(S), NEW e \in S, NEW b \in Seq(S), Len(b) = Len(a) + 1,
         \A i \in 1 .. Len(a) : b[i] = a[i], b[Len(a) + 1] = e
  PROVE  a \o <<e>> = b
<1> DEFINE t == a \o <<e>>
           N == Len(a) + 1
<1>1. t \in Seq(S) /\ Len(t) = N /\ N \in Nat
  OBVIOUS
<1>2. ASSUME NEW i \in 1..N PROVE t[i] = b[i]
  <2>1. CASE i \in 1 .. Len(a)
    BY <2>1
  <2>2. CASE i = Len(a) + 1
    BY <2>2
  <2> QED
    BY <2>1, <2>2
<1> HIDE DEF t
<1>3. \A i \in 1 .. Len(t) : t[i] = b[i]
  BY <1>1, <1>2
<1>4. Len(t) = Len(b)
  BY <1>1
<1>5. t = b
  BY <1>1, <1>3, <1>4
<1> QED
  BY <1>5 DEF t

\* One more element of what is to come.
LEMMA OneMoreOf ==
  ASSUME NEW S, NEW base \in Seq(S), NEW s \in Seq(S), NEW k \in Nat, k < Len(s)
  PROVE  (base \o SubSeq(s, 1, k)) \o <<s[k + 1]>> = base \o SubSeq(s, 1, k + 1)
<1> DEFINE a == SubSeq(s, 1, k)
           b == SubSeq(s, 1, k + 1)
<1>1. a \in Seq(S) /\ Len(a) = k /\ \A i \in 1..k : a[i] = s[i]
  <2>1. \A i \in 1..k : s[i] \in S
    OBVIOUS
  <2>2. /\ a \in Seq(S) /\ Len(a) = (IF 1 <= k THEN k - 1 + 1 ELSE 0)
        /\ \A i \in 1 .. k - 1 + 1 : a[i] = s[1 + i - 1]
    BY <2>1, SubSeqProperties
  <2> HIDE DEF a
  <2> QED
    BY <2>2
<1>2. b \in Seq(S) /\ Len(b) = k + 1 /\ \A i \in 1 .. k + 1 : b[i] = s[i]
  <2>1. \A i \in 1 .. k + 1 : s[i] \in S
    OBVIOUS
  <2>2. /\ b \in Seq(S) /\ Len(b) = (IF 1 <= k + 1 THEN k + 1 - 1 + 1 ELSE 0)
        /\ \A i \in 1 .. k + 1 - 1 + 1 : b[i] = s[1 + i - 1]
    BY <2>1, SubSeqProperties
  <2> HIDE DEF b
  <2> QED
    BY <2>2
<1>3. s[k + 1] \in S /\ Len(base) \in Nat
  OBVIOUS
<1> HIDE DEF a, b
<1>4. a \o <<s[k + 1]>> = b
  <2>1. b[k + 1] = s[k + 1] /\ \A i \in 1..k : b[i] = a[i]
    BY <1>1, <1>2
  <2> QED
    BY <1>1, <1>2, <1>3, <2>1, JoinIs
<1>5. \A e \in S : (base \o a) \o <<e>> = base \o (a \o <<e>>)
  BY <1>1
<1> QED
  BY <1>3, <1>4, <1>5 DEF a, b

\* All of a sequence.
LEMMA AllOf == ASSUME NEW S, NEW s \in Seq(S) PROVE SubSeq(s, 1, Len(s)) = s
<1> DEFINE a == SubSeq(s, 1, Len(s))
           N == Len(s)
<1>1. N \in Nat /\ \A i \in 1..N : s[i] \in S
  OBVIOUS
<1>2. /\ a \in Seq(S) /\ Len(a) = (IF 1 <= N THEN N - 1 + 1 ELSE 0)
      /\ \A i \in 1 .. N - 1 + 1 : a[i] = s[1 + i - 1]
  BY <1>1, SubSeqProperties
<1> HIDE DEF a, N
<1>3. Len(a) = N /\ \A i \in 1..N : a[i] = s[i]
  BY <1>1, <1>2
<1> QED
  BY <1>1, <1>2, <1>3 DEF a, N

\* Starting to answer.
LEMMA AnswerBegins ==
  ASSUME HostTyped, Placed, ~Sent, NEW c, Here = c, During(c), ~Acc.over, Acc.skip < user,
         log = Acc.log, told = Acc.told, c.op \in HaltedOnly => halt, session' = session,
         Answering(c)', Replied(c)' = 0, awaiting' = Len(Wanted(c)), halt' = halt, log' = log, told' = told,
         UNCHANGED <<user, call>>
  PROVE  OnTrack'
<1>1. c.err = "none" /\ Acc.halted = halt
  BY DEF During
<1>2. Acc' = Acc /\ Sent' = Sent /\ Here' = c
  BY SameCall
<1>3. /\ Acc.log \in Seq(Event) /\ Acc.told \in Seq(Said) /\ Effect(c) \in Seq(Event)
      /\ Shown(c) \in Seq(Said) /\ Len(Shown(c)) = Len(Wanted(c))
  BY <1>1, Carried
<1>4. log' = Acc'.log \o SubSeq(Effect(c), 1, Replied(c)')
  <2>1. SubSeq(Effect(c), 1, 0) = <<>>
    BY <1>3
  <2> QED
    BY <1>2, <1>3, <2>1, EmptyAdds
<1>5. told' = Acc'.told \o SubSeq(Shown(c)', 1, Len(Wanted(c)) - awaiting')
  <2>1. Shown(c)' = Shown(c)
    BY DEF Shown
  <2>2. Len(Wanted(c)) - awaiting' = 0
    BY <1>3
  <2>3. SubSeq(Shown(c), 1, 0) = <<>>
    BY <1>3
  <2>4. told = told \o <<>>
    BY <1>3
  <2> QED
    BY <1>2, <2>1, <2>2, <2>3, <2>4
<1>6. During(c)'
  BY <1>1, <1>2, <1>4, <1>5 DEF During
<1> QED
  BY <1>2, <1>6 DEF OnTrack, InCall

\* A clock of a call whose bytes are being sent,
LEMMA ReceivingStep ==
  ASSUME Inv, TxInv, HostTyped, Placed, ~Sent, NEW c, Here = c, During(c), Receiving(c), ~Acc.over, Acc.skip < user,
         NEW rx \in Byte \cup {NoByte}, (Deliver(rx) /\ rx = Wire(c)[byte]) \/ Silence(rx), Clock(rx), log' = log \o Did(rx)
  PROVE  OnTrack'
<1>1. /\ c.err = "none" /\ Acc.halted = halt /\ awaiting = 0 /\ state # "CMD_IDLE" /\ log \in Seq(Event)
  BY DEF During, Receiving, HostTyped
<1>2. (c.op \in HaltedOnly => halt) /\ log = Acc.log /\ told = Acc.told
  BY <1>1 DEF During, Answering
<1>3. session' = session
  BY DEF Deliver, Silence
<1>4. CASE Silence(rx)
  <2>1. /\ Receiving(c)' /\ UNCHANGED <<user, call, byte, awaiting, told, halt, state>> /\ Did(rx) = <<>>
    BY <1>1, <1>4, ReceivingSilence
  <2>2. Acc' = Acc /\ Sent' = Sent /\ Here' = c
    BY <1>3, <2>1, SameCall
  <2>3. log' = log
    BY <1>1, <2>1, EmptyAdds
  <2>4. During(c)'
    BY <1>1, <1>2, <2>1, <2>2, <2>3 DEF During
  <2> QED
    BY <2>1, <2>2, <2>4 DEF OnTrack, InCall
<1>5. CASE Deliver(rx) /\ rx = Wire(c)[byte]
  <2>1. Taking(c) /\ OneMore(c) /\ Did(rx) = <<>>
    BY <1>5, ReceivingByte
  <2>2. log' = log /\ told' = told /\ halt' = halt
    BY <1>1, <2>1, EmptyAdds DEF OneMore, Taking
  <2>3. CASE Receiving(c)' /\ UNCHANGED <<user, call>> /\ state' # "CMD_IDLE"
    <3>1. Acc' = Acc /\ Sent' = Sent /\ Here' = c
      BY <1>3, <2>3, SameCall
    <3>2. During(c)'
      BY <1>1, <1>2, <2>2, <2>3, <3>1 DEF During
    <3> QED
      BY <2>3, <3>1, <3>2 DEF OnTrack, InCall
  <2>4. CASE Answering(c)' /\ Replied(c)' = 0 /\ awaiting' = Len(Wanted(c)) /\ UNCHANGED <<user, call, byte>>
    BY <1>2, <1>3, <2>2, <2>4, AnswerBegins
  <2>5. CASE /\ c.op = CMD_WRITE_MEM /\ NextCall /\ awaiting' = 0 /\ state' = "MEM_WRITE_PULSE" /\ Silent'
             /\ mem_addr' = SubSeq(c.arg, 1, WordBytes)
             /\ mem_wdata' = SubSeq(c.arg, WordBytes + 1, 2 * WordBytes)
    <3>1. /\ After.log = Acc.log \o Effect(c) /\ After.told = Acc.told \o Shown(c)
          /\ After.halted = HaltedAfter(c, Acc.halted) /\ ~After.over /\ After.skip < user
          /\ Acc.told \in Seq(Said) /\ Shown(c) \in Seq(Said) /\ Len(Shown(c)) = Len(Wanted(c))
      BY <1>1, <1>2, Carried
    <3>2. Acc' = After /\ ~Acc'.over /\ Acc'.skip < user' /\ byte' = 1
      BY <1>3, <2>5, <3>1, Onward DEF NextCall
    <3>3. After.told = Acc.told
      <4>1. Len(Wanted(c)) = 0
        BY <2>5, WantedLen
      <4>2. Shown(c) = <<>>
        BY <3>1, <4>1
      <4> QED
        BY <3>1, <4>2
    <3>4. inbox' = <<>> /\ gap' \in Nat /\ gap' >= 2
      BY <2>1 DEF OneMore
    <3>5. gap' >= 1
      BY <3>4
    <3>6. Ready'
      BY <2>5, <3>5 DEF Ready
    <3>7. log' \o Pending' = After.log
      <4>1. Pending' = Effect(c)
        BY <2>5, WriteEffect DEF Pending
      <4> QED
        BY <1>2, <2>2, <3>1, <4>1
    <3>8. After.halted = Resting'
      <4>1. HaltedAfter(c, Acc.halted) = Acc.halted
        BY <2>5, OpsAre DEF HaltedAfter
      <4>2. halt
        BY <1>2, <2>5 DEF HaltedOnly
      <4> QED
        BY <1>1, <2>2, <3>1, <4>1, <4>2 DEF Resting
    <3>9. Between'
      BY <1>2, <2>2, <2>5, <3>2, <3>3, <3>4, <3>6, <3>7, <3>8 DEF Between, Resting
    <3> QED
      BY <3>2, <3>9 DEF OnTrack
  <2> QED
    BY <2>1, <2>3, <2>4, <2>5 DEF Taking
<1> QED
  BY <1>4, <1>5

\* ... of one whose answer is being sent,
LEMMA AnsweringStep ==
  ASSUME Inv, TxInv, IdleBound, HostTyped, Placed, ~Sent, NEW c, Here = c, During(c), Answering(c),
         ~Acc.over, Acc.skip < user,
         NEW rx \in Byte \cup {NoByte}, Host(rx), Clock(rx), log' = log \o Did(rx)
  PROVE  OnTrack'
<1> DEFINE n == Len(Wanted(c))
           r == Replied(c)
<1>1. /\ c.err = "none" /\ Acc.halted = halt /\ awaiting > 0 /\ awaiting \in Nat /\ session' = session
  BY Moves DEF During, Answering, HostTyped
<1>2. /\ c.op \in HaltedOnly => halt
      /\ log = Acc.log \o SubSeq(Effect(c), 1, r)
      /\ told = Acc.told \o SubSeq(Shown(c), 1, n - awaiting)
  BY <1>1 DEF During, Receiving, Ignoring, Answering, Fetching, Replying, SendStates
<1>3. AnswerStep(c, rx)
  BY AnswerClock
<1>4. /\ After.log = Acc.log \o Effect(c) /\ After.told = Acc.told \o Shown(c)
      /\ After.halted = HaltedAfter(c, Acc.halted) /\ ~After.over /\ After.skip < user
      /\ Acc.log \in Seq(Event) /\ Acc.told \in Seq(Said)
      /\ Effect(c) \in Seq(Event) /\ Shown(c) \in Seq(Said) /\ Len(Shown(c)) = n /\ WellFormed(c)
  BY <1>1, <1>2, Carried
<1>5. awaiting <= n /\ n \in Nat /\ n > 0 /\ user \in Nat
  <2>1. awaiting <= WordsAwaited(c)
    BY <1>1 DEF Placed
  <2>2. WordsAwaited(c) = n /\ n \in Nat
    BY <1>1, <1>4, CallTyped
  <2>3. user \in Nat
    BY HereTyped
  <2> QED
    BY <1>1, <2>1, <2>2, <2>3
<1>6. /\ Len(Effect(c)) = WordBytes * n /\ DOMAIN Answers(c) = 1..n
      /\ c.op \in {CMD_READ_REG, CMD_READ_PC, CMD_READ_ALL, CMD_READ_CSR, CMD_READ_MEM, CMD_READ_MMIO}
  <2>1. Effect(c) = [i \in 1 .. WordBytes * n |->
                       <<"reply", Wanted(c)[1 + ((i - 1) \div WordBytes)], (i - 1) % WordBytes>>]
    BY <1>1, <1>4, <1>5, EffectIs
  <2>2. WordBytes * n \in Nat
    BY <1>5, Sizes
  <2>3. DOMAIN Effect(c) = 1 .. WordBytes * n
    BY <2>1
  <2>4. Len(Effect(c)) = WordBytes * n
    BY <1>4, <2>2, <2>3
  <2>5. Wanted(c) \in Seq(Source)
    BY <1>1, <1>4, WantedTyped
  <2>6. DOMAIN Answers(c) = 1..n
    BY <2>5 DEF Answers
  <2> QED
    BY <1>1, <1>4, <1>5, <2>4, <2>6, EffectIs
<1>7. Shown(c)' = Shown(c) \/ user' # user
  BY DEF Shown
<1> HIDE DEF n, r
<1>8. log' = Acc.log \o SubSeq(Effect(c), 1, Replied(c)')
  <2>1. r \in Nat /\ Replied(c)' \in 0 .. Len(Effect(c))
    BY <1>3, <1>6 DEF AnswerStep, n, r
  <2>2. CASE Replied(c)' = r /\ Did(rx) = <<>>
    <3>1. log \in Seq(Event)
      BY DEF HostTyped
    <3> QED
      BY <1>2, <2>2, <3>1, EmptyAdds
  <2>3. CASE Replied(c)' = r + 1 /\ Did(rx) = <<Effect(c)[Replied(c)']>>
    <3>1. r < Len(Effect(c))
      BY <1>4, <2>1, <2>3
    <3>2. (Acc.log \o SubSeq(Effect(c), 1, r)) \o <<Effect(c)[r + 1]>> = Acc.log \o SubSeq(Effect(c), 1, r + 1)
      BY <1>4, <2>1, <3>1, OneMoreOf
    <3> QED
      BY <1>2, <2>3, <3>2
  <2> QED
    BY <1>3, <2>2, <2>3 DEF AnswerStep, r
<1>9. CASE Answering(c)' /\ told' = told /\ awaiting' = awaiting /\ UNCHANGED <<user, call, byte>>
  <2>1. Acc' = Acc /\ Sent' = Sent /\ Here' = c
    BY <1>1, <1>9, SameCall
  <2>2. halt' = halt /\ Shown(c)' = Shown(c)
    BY <1>3, <1>7, <1>9 DEF AnswerStep
  <2>3. During(c)'
    BY <1>1, <1>2, <1>8, <1>9, <2>1, <2>2 DEF During, n
  <2> QED
    BY <1>9, <2>1, <2>3 DEF OnTrack, InCall
<1>10. ASSUME awaiting' = awaiting - 1, told' = Append(told, Says(user, Answers(c)[n - awaiting']))
       PROVE  told' = Acc.told \o SubSeq(Shown(c), 1, n - awaiting')
  <2>1. n - awaiting \in Nat /\ n - awaiting' = (n - awaiting) + 1 /\ n - awaiting < Len(Shown(c))
        /\ n - awaiting' \in 1..n
    BY <1>1, <1>4, <1>5, <1>10 DEF n
  <2>2. Shown(c)[n - awaiting'] = Says(user, Answers(c)[n - awaiting'])
    BY <1>6, <2>1 DEF Shown
  <2>3. (Acc.told \o SubSeq(Shown(c), 1, n - awaiting)) \o <<Shown(c)[(n - awaiting) + 1]>>
          = Acc.told \o SubSeq(Shown(c), 1, (n - awaiting) + 1)
    BY <1>4, <2>1, OneMoreOf
  <2>4. told' = told \o <<Shown(c)[n - awaiting']>>
    <3>1. Shown(c)[n - awaiting'] \in Said
      BY <1>4, <2>1 DEF n
    <3>2. told \in Seq(Said)
      BY DEF HostTyped
    <3> QED
      BY <1>10, <2>2, <3>1, <3>2, AppendIs
  <2> QED
    BY <1>2, <2>1, <2>3, <2>4
<1>11. CASE /\ awaiting' = awaiting - 1 /\ told' = Append(told, Says(user, Answers(c)[n - awaiting']))
            /\ Answering(c)' /\ UNCHANGED <<user, call, byte>>
  <2>1. Acc' = Acc /\ Sent' = Sent /\ Here' = c
    BY <1>1, <1>11, SameCall
  <2>2. halt' = halt /\ Shown(c)' = Shown(c)
    BY <1>3, <1>7, <1>11 DEF AnswerStep
  <2>3. During(c)'
    BY <1>1, <1>2, <1>8, <1>10, <1>11, <2>1, <2>2 DEF During, n
  <2> QED
    BY <1>11, <2>1, <2>3 DEF OnTrack, InCall
<1>12. CASE /\ awaiting' = awaiting - 1 /\ told' = Append(told, Says(user, Answers(c)[n - awaiting']))
            /\ awaiting' = 0 /\ NextCall /\ LastSeen' /\ word_count' = 1 /\ gap' > tx_left' /\ inbox' = <<>>
            /\ Replied(c)' = WordBytes * n
  <2>1. Acc' = After /\ ~Acc'.over /\ Acc'.skip < user' /\ byte' = 1
    BY <1>1, <1>4, <1>12, Onward DEF NextCall
  <2>2. log' = After.log
    BY <1>4, <1>6, <1>8, <1>12, AllOf
  <2>3. told' = After.told
    <3>1. n - awaiting' = Len(Shown(c))
      BY <1>4, <1>5, <1>12 DEF n
    <3> QED
      BY <1>4, <1>10, <1>12, <3>1, AllOf
  <2>4. state' = "SEND_BYTE_WAIT_DONE"
    BY <1>12 DEF LastSeen, Seen
  <2>5. log' \o Pending' = After.log
    <3>1. Pending' = <<>>
      BY <2>4 DEF Pending
    <3>2. log' \in Seq(Event)
      BY <1>4, <2>2, AccIs DEF Accs
    <3> QED
      BY <2>2, <3>1, <3>2, EmptyAdds
  <2>6. After.halted = Resting'
    <3>1. HaltedAfter(c, Acc.halted) = Acc.halted
      <4>1. c.op \notin {CMD_HALT, CMD_RESUME, CMD_STEP}
        BY <1>6, OpsAre
      <4> QED
        BY <4>1 DEF HaltedAfter
    <3>2. halt' = halt /\ halt \in BOOLEAN
      BY <1>3 DEF AnswerStep, Inv, TypeOK, FlagsTyped
    <3> QED
      BY <1>1, <1>4, <2>4, <3>1, <3>2 DEF Resting
  <2>7. Ready'
    BY <1>12 DEF Ready
  <2>8. Between'
    BY <1>12, <2>1, <2>3, <2>5, <2>6, <2>7 DEF Between, Resting
  <2> QED
    BY <2>1, <2>8 DEF OnTrack
<1> QED
  BY <1>3, <1>9, <1>11, <1>12 DEF AnswerStep, n

-----------------------------------------------------------------------------
(* A part of a reply is a beginning of it.                                  *)
LEMMA PartOf ==
  ASSUME NEW S, NEW base \in Seq(S), NEW s \in Seq(S), NEW k \in 0 .. Len(s)
  PROVE  Starting(base \o SubSeq(s, 1, k), base \o s)
<1> DEFINE a == SubSeq(s, 1, k)
           N == Len(s)
           B == Len(base)
<1>1. N \in Nat /\ B \in Nat /\ k \in Nat /\ k <= N /\ \A i \in 1..N : s[i] \in S
  OBVIOUS
<1>2. a \in Seq(S) /\ Len(a) = k /\ \A i \in 1..k : a[i] = s[i]
  <2>1. \A i \in 1..k : s[i] \in S
    BY <1>1
  <2>2. /\ a \in Seq(S) /\ Len(a) = (IF 1 <= k THEN k - 1 + 1 ELSE 0)
        /\ \A i \in 1 .. k - 1 + 1 : a[i] = s[1 + i - 1]
    BY <2>1, SubSeqProperties
  <2> HIDE DEF a
  <2> QED
    BY <1>1, <2>2
<1> HIDE DEF a
<1>3. Len(base \o a) = B + k /\ Len(base \o s) = B + N
  BY <1>2
<1>4. ASSUME NEW i \in 1 .. B + k PROVE (base \o s)[i] = (base \o a)[i]
  <2>1. CASE i <= B
    BY <1>2, <2>1
  <2>2. CASE i > B
    <3>1. i - B \in 1..k /\ i - B \in 1..N
      BY <1>1, <2>2
    <3>2. (base \o s)[i] = s[i - B]
      BY <1>1, <2>2, <3>1
    <3>3. (base \o a)[i] = a[i - B]
      BY <1>2, <2>2, <3>1
    <3> QED
      BY <1>2, <3>1, <3>2, <3>3
  <2>3. i <= B \/ i > B
    BY <1>1
  <2> QED
    BY <2>1, <2>2, <2>3
<1>5. B + k <= B + N
  BY <1>1
<1> QED
  BY <1>3, <1>4, <1>5 DEF Starting, a

\* A reply is so many words long.
LEMMA ReplyLen ==
  ASSUME NEW c, WellFormed(c), c.err = "none", Len(Wanted(c)) \in Nat, Len(Wanted(c)) > 0
  PROVE  Len(Effect(c)) = WordBytes * Len(Wanted(c))
<1>1. Effect(c) = [i \in 1 .. WordBytes * Len(Wanted(c)) |->
                     <<"reply", Wanted(c)[1 + ((i - 1) \div WordBytes)], (i - 1) % WordBytes>>]
  BY EffectIs
<1>2. WordBytes * Len(Wanted(c)) \in Nat
  BY Sizes
<1>3. DOMAIN Effect(c) = 1 .. WordBytes * Len(Wanted(c)) /\ Effect(c) \in Seq(Event)
  BY <1>1, EffectTyped
<1> QED
  BY <1>2, <1>3

-----------------------------------------------------------------------------
(* A call the running core's debugger takes no notice of.                   *)
LEMMA HarmlessIs ==
  ASSUME HostTyped, Placed, ~Sent, NEW c, Here = c, During(c), Ignoring(c), ~Acc.over, Acc.skip < user, Promised.sound
  PROVE  /\ Harmless(c) /\ WellFormed(c) /\ user \in Nat /\ Acc \in Accs /\ Acc.skip \in Nat
         /\ Wanted(c) = <<>> => After = Passed(c, Acc)
         /\ Wanted(c) # <<>> => After = GaveUp(user, c, Acc)
<1>1. user \in Nat /\ Acc \in Accs /\ Acc.skip \in Nat /\ WellFormed(c) /\ Acc.sound \in BOOLEAN
  BY HereTyped, AccIs DEF Accs
<1>2. c.err = "none" /\ ~Skips(user, Acc) /\ Ignored(c, Acc)
  BY <1>1 DEF During, Ignoring, Skips, Ignored
<1>3. After.sound
  BY AccIs DEF Grows
<1>4. Wanted(c) = <<>> => After = Passed(c, Acc)
  BY <1>2, ExtendIs DEF After
<1>5. Wanted(c) # <<>> => After = GaveUp(user, c, Acc)
  BY <1>2, ExtendIs DEF After
<1>6. After.sound = (Acc.sound /\ Harmless(c))
  BY <1>1, <1>4, <1>5 DEF Passed, GaveUp, Accs
<1>7. Harmless(c)
  BY <1>3, <1>6
<1> QED
  BY <1>1, <1>4, <1>5, <1>7

\* Its bytes are ignored one by one,
LEMMA IgnoringDeliver ==
  ASSUME Inv, TxInv, HostTyped, Placed, ~Sent, NEW c, Here = c, During(c), Ignoring(c), ~Acc.over, Acc.skip < user,
         Promised.sound, NEW rx \in Byte \cup {NoByte}, Deliver(rx), rx = Wire(c)[byte], Clock(rx), log' = log \o Did(rx)
  PROVE  OnTrack'
<1>1. /\ c.err = "none" /\ Acc.halted = halt /\ ~halt /\ c.op \in HaltedOnly /\ state = "CMD_IDLE" /\ Silent
      /\ inbox = <<>> /\ awaiting = 0 /\ byte \in 2 .. Len(Wire(c)) /\ log = Acc.log /\ told = Acc.told
      /\ session' = session /\ log \in Seq(Event)
  BY DEF During, Ignoring, Answering, Fetching, Replying, SendStates, Deliver, MaySend, HostTyped
<1>2. Harmless(c) /\ WellFormed(c) /\ user \in Nat /\ Acc \in Accs /\ Acc.skip \in Nat
  BY HarmlessIs
<1>3. Wire(c)[byte] = c.arg[byte - 1] /\ byte - 1 \in DOMAIN c.arg /\ Len(Wire(c)) \in Nat /\ byte \in Nat
      /\ WordsAwaited(c) = Len(Wanted(c)) /\ Len(Wanted(c)) \in Nat
  <2>1. /\ c.arg \in Seq(Byte) /\ Len(Wire(c)) = 1 + Len(c.arg)
        /\ \A i \in 2 .. Len(Wire(c)) : Wire(c)[i] = c.arg[i - 1] /\ Wire(c)[i] \in Byte
        /\ WordsAwaited(c) = Len(Wanted(c)) /\ WordsAwaited(c) \in Nat
    BY <1>1, <1>2, CallTyped
  <2>2. Len(c.arg) \in Nat /\ DOMAIN c.arg = 1 .. Len(c.arg)
    BY <2>1
  <2>3. byte - 1 \in 1 .. Len(c.arg)
    BY <1>1, <2>1, <2>2
  <2> QED
    BY <1>1, <2>1, <2>2, <2>3
<1>4. rx \notin CMD_HALT..CMD_READ_MMIO
  BY <1>2, <1>3 DEF Harmless
<1>5. Ignore(rx)
  BY <1>1, <1>4, ClockAt, IdleAt
<1>6. state' = "CMD_IDLE" /\ halt' = halt /\ Silent'
  BY <1>1, <1>5, StaysSilent DEF Ignore
<1>7. Did(rx) = <<>> /\ log' = log
  <2>1. rx \notin {CMD_HALT, CMD_RESUME}
    BY <1>4, OpsAre DEF Ops
  <2>2. Did(rx) = <<>>
    BY <1>1, <2>1, DidAt
  <2> QED
    BY <1>1, <2>2, EmptyAdds
<1>8. Len(Opened \o Arrived) = 0
  BY <1>1, NothingArrives
<1>9. /\ inbox' = <<>> /\ told' = told /\ gap' \in Nat
      /\ byte # Len(Wire(c)) => byte' = byte + 1 /\ awaiting' = 0 /\ UNCHANGED <<user, call>>
      /\ byte = Len(Wire(c)) => /\ awaiting' = WordsAwaited(c)
                                /\ WordsAwaited(c) = 0 => NextCall
                                /\ WordsAwaited(c) > 0 => UNCHANGED <<user, call, byte>>
  BY <1>8, DeliverHost
<1>10. ASSUME Ignoring(c)', UNCHANGED <<user, call>> PROVE OnTrack'
  <2>1. Acc' = Acc /\ Sent' = Sent /\ Here' = c
    BY <1>1, <1>10, SameCall
  <2>2. During(c)'
    BY <1>1, <1>6, <1>7, <1>9, <1>10, <2>1 DEF During
  <2> QED
    BY <1>10, <2>1, <2>2 DEF OnTrack, InCall
<1>11. CASE byte # Len(Wire(c))
  <2>1. byte + 1 \in 2 .. Len(Wire(c))
    BY <1>1, <1>3, <1>11
  <2>2. Ignoring(c)'
    BY <1>1, <1>6, <1>9, <1>11, <2>1 DEF Ignoring
  <2> QED
    BY <1>9, <1>10, <1>11, <2>2
<1>12. CASE byte = Len(Wire(c)) /\ Len(Wanted(c)) > 0
  <2>1. awaiting' = Len(Wanted(c)) /\ awaiting' > 0 /\ UNCHANGED <<user, call>>
    BY <1>3, <1>9, <1>12
  <2>2. Ignoring(c)'
    BY <1>1, <1>6, <1>9, <2>1 DEF Ignoring
  <2> QED
    BY <1>10, <2>1, <2>2
<1>13. CASE byte = Len(Wire(c)) /\ Len(Wanted(c)) = 0
  <2>1. awaiting' = 0 /\ NextCall
    BY <1>3, <1>9, <1>13
  <2>2. Wanted(c) = <<>>
    <3>1. Wanted(c) \in Seq(Source)
      BY <1>1, <1>2, WantedTyped
    <3> QED
      BY <1>13, <3>1
  <2>3. After = Passed(c, Acc)
    BY <2>2, HarmlessIs
  <2>4. /\ After.log = Acc.log /\ After.told = Acc.told /\ After.halted = Acc.halted
        /\ ~After.over /\ After.skip < user
    BY <1>2, <2>3 DEF Passed, Accs
  <2>5. Acc' = After /\ ~Acc'.over /\ Acc'.skip < user' /\ byte' = 1
    BY <1>1, <2>1, <2>4, Onward DEF NextCall
  <2>6. Ready' /\ Pending' = <<>>
    BY <1>6 DEF Ready, Pending
  <2>7. log' \o Pending' = After.log
    BY <1>1, <1>7, <2>4, <2>6, EmptyAdds
  <2>8. After.halted = Resting'
    <3>1. halt \in BOOLEAN
      BY DEF Inv, TypeOK, FlagsTyped
    <3> QED
      BY <1>1, <1>6, <2>4, <3>1 DEF Resting
  <2>9. Between'
    BY <1>1, <1>9, <2>1, <2>4, <2>5, <2>6, <2>7, <2>8 DEF Between, Resting
  <2> QED
    BY <2>5, <2>9 DEF OnTrack
<1> QED
  BY <1>3, <1>11, <1>12, <1>13

\* ... it waits for an answer,
LEMMA IgnoringSilence ==
  ASSUME Inv, TxInv, HostTyped, Placed, ~Sent, NEW c, Here = c, During(c), Ignoring(c), ~Acc.over, Acc.skip < user,
         NEW rx, Silence(rx), Clock(rx), log' = log \o Did(rx)
  PROVE  OnTrack'
<1>1. /\ c.err = "none" /\ Acc.halted = halt /\ ~halt /\ c.op \in HaltedOnly /\ state = "CMD_IDLE" /\ Silent
      /\ inbox = <<>> /\ log = Acc.log /\ told = Acc.told
      /\ session' = session /\ rx = NoByte
  BY DEF During, Ignoring, Answering, Fetching, Replying, SendStates, Silence
<1>2. user \in Nat /\ told \in Seq(Said) /\ awaiting \in Nat
  BY HereTyped DEF HostTyped
<1>3. /\ state' = "CMD_IDLE" /\ halt' = halt /\ log' = log /\ Silent'
  <2>1. state' = "CMD_IDLE" /\ halt' = halt /\ log' = log /\ tx_en' = FALSE /\ Transmit
    BY <1>1, StaysIdle
  <2> QED
    BY <1>1, <2>1 DEF Silent, Transmit
<1>4. Len(inbox \o Arrived) = 0 /\ Arrived = <<>> /\ inbox \o Arrived \in Seq(RxByte)
  BY <1>1, NothingArrives, Boxes DEF HostTyped
<1>5. inbox' = <<>> /\ UNCHANGED <<user, call, byte, awaiting, told>>
  <2>1. CASE awaiting > 0
    <3>1. Read(inbox \o Arrived, awaiting)
      BY <2>1 DEF Silence
    <3> QED
      BY <1>2, <1>4, <2>1, <3>1, EmptyRead
  <2>2. CASE ~(awaiting > 0)
    <3>1. inbox' = inbox \o Arrived /\ UNCHANGED <<user, call, byte, awaiting, told>>
      BY <2>2, Zenon DEF Silence
    <3>2. <<>> \o <<>> = <<>>
      OBVIOUS
    <3> QED
      BY <1>1, <1>4, <3>1, <3>2
  <2> QED
    BY <2>1, <2>2
<1>6. Acc' = Acc /\ Sent' = Sent /\ Here' = c
  BY <1>1, <1>5, SameCall
<1>7. Ignoring(c)'
  BY <1>1, <1>3, <1>5 DEF Ignoring
<1>8. During(c)'
  BY <1>1, <1>3, <1>5, <1>6, <1>7 DEF During
<1> QED
  BY <1>5, <1>6, <1>8 DEF OnTrack, InCall

\* ... and raises when none comes.
LEMMA IgnoringTimeout ==
  ASSUME Inv, TxInv, HostTyped, Placed, ~Sent, NEW c, Here = c, During(c), Ignoring(c), ~Acc.over, Acc.skip < user,
         Promised.sound, NEW rx, ReadTimeout(rx), Clock(rx), log' = log \o Did(rx)
  PROVE  OnTrack'
<1>1. /\ c.err = "none" /\ Acc.halted = halt /\ ~halt /\ state = "CMD_IDLE" /\ Silent
      /\ awaiting = Len(Wanted(c)) /\ awaiting > 0 /\ log = Acc.log /\ told = Acc.told /\ log \in Seq(Event)
      /\ session' = session /\ rx = NoByte /\ Raise("IOError") /\ inbox' = <<>> /\ awaiting' = 0
  BY DEF During, Ignoring, Answering, Fetching, Replying, SendStates, ReadTimeout, HostTyped
<1>2. WellFormed(c) /\ user \in Nat /\ Acc \in Accs /\ Acc.skip \in Nat
  BY HarmlessIs
<1>3. /\ state' = "CMD_IDLE" /\ halt' = halt /\ log' = log /\ Silent'
  <2>1. state' = "CMD_IDLE" /\ halt' = halt /\ log' = log /\ tx_en' = FALSE /\ Transmit
    BY <1>1, StaysIdle
  <2> QED
    BY <1>1, <2>1 DEF Silent, Transmit
<1>4. After = GaveUp(user, c, Acc)
  <2>1. Wanted(c) # <<>>
    BY <1>1
  <2> QED
    BY <2>1, HarmlessIs
<1>5. /\ After.log = Acc.log /\ After.told = Append(Acc.told, Says(user, <<"IOError">>))
      /\ After.halted = Acc.halted /\ ~After.over /\ After.skip = user /\ After.over \in BOOLEAN
  BY <1>2, <1>4 DEF GaveUp, Accs
<1>6. ~Tools!EndsSession(Tool, "IOError") /\ Tools!EndsSession(Tool, "IOError") \in BOOLEAN
  BY DEF Tools!EndsSession
<1>7. Acc' = After
  <2>1. After.over = Tools!EndsSession(Tool, "IOError")
    BY <1>5, <1>6
  <2> QED
    BY <1>1, <1>5, <2>1, RaiseAcc
<1>8. byte' = 1 /\ told' = After.told /\ user' = user + 1
  BY <1>1, <1>5, <1>6 DEF Raise
<1>9. Ready' /\ Pending' = <<>>
  BY <1>3 DEF Ready, Pending
<1>10. log' \o Pending' = After.log
  BY <1>1, <1>3, <1>5, <1>9, EmptyAdds
<1>11. After.halted = Resting'
  <2>1. halt \in BOOLEAN
    BY DEF Inv, TypeOK, FlagsTyped
  <2> QED
    BY <1>1, <1>3, <1>5, <2>1 DEF Resting
<1>12. Between'
  BY <1>1, <1>7, <1>8, <1>9, <1>10, <1>11 DEF Between, Resting
<1> QED
  BY <1>2, <1>5, <1>7, <1>8, <1>12 DEF OnTrack

-----------------------------------------------------------------------------
(* A session without a fault.                                               *)
LEMMA OnTrackStep ==
  ASSUME Inv, TxInv, IdleBound, HostTyped, Placed, OnTrack, Promised.sound, lost = 0, lost' = 0,
         NEW rx \in Byte \cup {NoByte}, Host(rx), Clock(rx), log' = log \o Did(rx)
  PROVE  OnTrack'
<1>1. PICK c : c = Here
  OBVIOUS
<1>2. Deliver(rx) => rx = Wire(c)[byte] /\ ~Sent /\ c.err = "none"
  BY <1>1 DEF Deliver, MaySend
<1>3. CASE Between
  <2>1. ~(awaiting > 0)
    BY <1>3 DEF Between
  <2>2. CASE Deliver(rx)
    BY <1>1, <1>2, <1>3, <2>2, BetweenDeliver DEF OnTrack
  <2>3. CASE Silence(rx)
    <3>1. Between' /\ UNCHANGED <<user, call>> /\ Acc' = Acc
      BY <1>3, <2>3, BetweenSilence
    <3>2. Sent' = Sent
      BY <2>3, <3>1 DEF Silence, Sent, Todo
    <3> QED
      BY <3>1, <3>2 DEF OnTrack
  <2>4. CASE Reject(rx)
    <3>1. ~Sent
      BY <2>4 DEF Reject, Raising
    <3>2. Between' /\ (~Sent' => ~Acc'.over /\ Acc'.skip < user')
      BY <1>3, <2>4, <3>1, BetweenReject DEF OnTrack
    <3> QED
      BY <3>2 DEF OnTrack
  <2> QED
    BY <2>1, <2>2, <2>3, <2>4 DEF Host, ReadTimeout
<1>4. CASE InCall
  <2>1. ~Sent /\ During(c) /\ c.err = "none" /\ ~Acc.over /\ Acc.skip < user
    BY <1>1, <1>4 DEF InCall, OnTrack, During
  <2>2. ~Reject(rx)
    BY <1>1, <2>1 DEF Reject, Raising
  <2>3. CASE Receiving(c)
    <3>1. Deliver(rx) \/ Silence(rx)
      BY <2>2, <2>3 DEF Host, ReadTimeout, Receiving
    <3> QED
      BY <1>1, <1>2, <2>1, <2>3, <3>1, ReceivingStep
  <2>4. CASE Answering(c)
    BY <1>1, <2>1, <2>4, AnsweringStep
  <2>5. CASE Ignoring(c)
    <3>1. CASE Deliver(rx)
      BY <1>1, <1>2, <2>1, <2>5, <3>1, IgnoringDeliver
    <3>2. CASE Silence(rx)
      BY <1>1, <2>1, <2>5, <3>2, IgnoringSilence
    <3>3. CASE ReadTimeout(rx)
      BY <1>1, <2>1, <2>5, <3>3, IgnoringTimeout
    <3> QED
      BY <2>2, <3>1, <3>2, <3>3 DEF Host
  <2> QED
    BY <2>1, <2>3, <2>4, <2>5 DEF During
<1> QED
  BY <1>3, <1>4 DEF OnTrack

\* In step, what was done and told is the beginning of what was promised.
LEMMA OnTrackPrefix ==
  ASSUME Inv, HostTyped, Placed, OnTrack
  PROVE  Starting(log, Promised.log) /\ Starting(told, Promised.told) /\ Promised \in Accs
<1>1. /\ session \in DOMAIN Sessions /\ log \in Seq(Event) /\ told \in Seq(Said)
  BY DEF HostTyped
<1>2. Promised \in Accs /\ Promised.log \in Seq(Event) /\ Promised.told \in Seq(Said)
  BY <1>1, PromisedIs DEF Accs
<1>3. Acc \in Accs /\ Grows(Acc, Promised)
  <2>1. CASE Sent
    BY <1>2, <2>1, GrowsNot DEF Acc
  <2>2. CASE ~Sent
    BY <2>2, AccIs, GrowsTwice
  <2> QED
    BY <2>1, <2>2
<1>4. Acc.log \in Seq(Event) /\ Acc.told \in Seq(Said)
  BY <1>3 DEF Accs
<1>5. CASE Between
  <2>1. told = Acc.told /\ log \o Pending = Acc.log
    BY <1>5 DEF Between
  <2>2. Starting(log, log \o Pending)
    <3>1. Len(log) \in Nat /\ Pending \in {<<>>, <<<<"step">>>>, <<<<"write", mem_addr, mem_wdata>>>>}
      BY <1>1 DEF Pending
    <3>2. CASE Pending = <<>>
      <4>1. log \o Pending = log
        BY <1>1, <3>2, EmptyAdds
      <4> QED
        BY <1>1, <3>1, <4>1 DEF Starting
    <3>3. ASSUME NEW e, Pending = <<e>> PROVE Starting(log, log \o Pending)
      <4>1. \E S : log \in Seq(S) /\ Pending \in Seq(S)
        <5>1. log \in Seq(Event \cup {e}) /\ <<e>> \in Seq(Event \cup {e})
          BY <1>1
        <5> QED
          BY <3>3, <5>1
      <4> QED
        BY <4>1, StartingJoin
    <3> QED
      BY <3>1, <3>2, <3>3
  <2>3. Starting(log, Acc.log)
    BY <2>1, <2>2
  <2> QED
    BY <1>1, <1>2, <1>3, <1>4, <2>1, <2>3, StartingTwice DEF Grows
<1>6. CASE InCall
  <2>1. PICK c : c = Here
    OBVIOUS
  <2>2. ~Sent /\ During(c) /\ c.err = "none" /\ ~Acc.over /\ Acc.skip < user
    BY <1>6, <2>1 DEF InCall, OnTrack, During
  <2>3. CASE log = Acc.log /\ told = Acc.told
    BY <1>2, <1>3, <2>3 DEF Grows
  <2>4. CASE /\ Answering(c) /\ (c.op \in HaltedOnly => halt)
             /\ log = Acc.log \o SubSeq(Effect(c), 1, Replied(c))
             /\ told = Acc.told \o SubSeq(Shown(c), 1, Len(Wanted(c)) - awaiting)
    <3>1. Acc.halted = halt
      BY <2>2 DEF During
    <3>2. /\ After.log = Acc.log \o Effect(c) /\ After.told = Acc.told \o Shown(c)
          /\ Effect(c) \in Seq(Event) /\ Shown(c) \in Seq(Said) /\ Len(Shown(c)) = Len(Wanted(c)) /\ WellFormed(c)
      BY <2>1, <2>2, <2>4, <3>1, Carried
    <3>3. After \in Accs /\ Grows(After, Promised)
      BY <2>2, AccIs
    <3>4. awaiting \in Nat /\ awaiting > 0 /\ Len(Wanted(c)) \in Nat /\ awaiting <= Len(Wanted(c))
      <4>1. awaiting \in Nat /\ awaiting > 0
        BY <2>4 DEF Answering, HostTyped
      <4>2. awaiting <= WordsAwaited(c)
        BY <2>1, <4>1 DEF Placed
      <4>3. WordsAwaited(c) = Len(Wanted(c)) /\ Len(Wanted(c)) \in Nat
        BY <2>2, <3>2, CallTyped
      <4> QED
        BY <4>1, <4>2, <4>3
    <3>5. Starting(told, After.told)
      <4>1. Len(Wanted(c)) - awaiting \in 0 .. Len(Shown(c))
        BY <3>2, <3>4
      <4> QED
        BY <1>4, <2>4, <3>2, <4>1, PartOf
    <3>6. Starting(log, After.log)
      <4>1. Replied(c) \in 0 .. Len(Effect(c))
        <5>1. Len(Effect(c)) = WordBytes * Len(Wanted(c))
          BY <2>2, <3>2, <3>4, ReplyLen
        <5>2. Fetching(c) \/ Replying(c)
          BY <2>4 DEF Answering
        <5>3. CASE Fetching(c)
          <6>1. Replied(c) = 0
            BY <5>3 DEF Fetching, Replied, SendStates
          <6>2. WordBytes * Len(Wanted(c)) \in Nat
            BY <3>4, Divides
          <6> QED
            BY <5>1, <6>1, <6>2
        <5>4. CASE Replying(c)
          <6>1. byte_sel \in 0 .. WordBytes - 1
            BY DEF Inv, TypeOK, CountsTyped
          <6> QED
            BY <2>2, <3>2, <5>1, <5>4, <6>1, RepliedIs
        <5> QED
          BY <5>1, <5>2, <5>3, <5>4
      <4> QED
        BY <1>4, <2>4, <3>2, <4>1, PartOf
    <3>7. After.log \in Seq(Event) /\ After.told \in Seq(Said)
      BY <3>3 DEF Accs
    <3> QED
      BY <1>1, <1>2, <3>3, <3>5, <3>6, <3>7, StartingTwice DEF Grows
  <2> QED
    BY <2>2, <2>3, <2>4 DEF During
<1> QED
  BY <1>5, <1>6 DEF OnTrack

-----------------------------------------------------------------------------
(* Every session, faultless or not.                                         *)
TrackInv == SafeInv /\ InStep

\* Every session begins in step,
LEMMA TrackInit == LinkInit => TrackInv
<1> SUFFICES ASSUME LinkInit PROVE TrackInv
  OBVIOUS
<1>1. SafeInv
  BY SafeInit
<1>2. HostTyped /\ Placed /\ Inv
  BY <1>1 DEF SafeInv
<1>3. /\ session \in DOMAIN Sessions /\ user = 1 /\ call = 1 /\ byte = 1 /\ gap = 0 /\ inbox = <<>>
      /\ awaiting = 0 /\ log = <<>> /\ told = <<>>
  BY DEF LinkInit
<1>4. state = "CMD_IDLE" /\ halt = TRUE /\ Silent
  BY DEF LinkInit, Init, Silent
<1>5. Acc = Nothing
  <2>1. CASE Sent
    <3>1. Len(Todo) = 0
      BY <1>3, <2>1, PromisedIs DEF Sent
    <3> QED
      BY <1>3, <2>1, <3>1, PromisedIs, AfterCommandsDef DEF Acc
  <2>2. CASE ~Sent
    <3>1. Acc = Run[call - 1] /\ Run[0] = AfterCommands(session)[user - 1]
      BY <1>2, <2>2, RunIs
    <3>2. call - 1 = 0 /\ user - 1 = 0
      BY <1>3
    <3> QED
      BY <1>3, <3>1, <3>2, AfterCommandsDef
  <2> QED
    BY <2>1, <2>2
<1>6. Ready /\ Pending = <<>>
  BY <1>4 DEF Ready, Pending
<1>7. log \o Pending = Acc.log
  BY <1>3, <1>5, <1>6 DEF Nothing
<1>8. Between
  BY <1>3, <1>4, <1>5, <1>6, <1>7 DEF Between, Nothing
<1>9. ~Acc.over /\ Acc.skip < user
  BY <1>3, <1>5 DEF Nothing
<1> QED
  BY <1>1, <1>8, <1>9 DEF TrackInv, InStep, OnTrack

\* A byte is lost once and for all, and only in Deliver.
LEMMA LostStays ==
  ASSUME HostTyped, NEW rx, Host(rx), lost' = 0
  PROVE  lost = 0 /\ session' = session /\ (Deliver(rx) => rx = Wire(Here)[byte])
<1>1. lost \in Nat
  BY DEF HostTyped
<1>2. lost + 1 # 0
  BY <1>1
<1> QED
  BY <1>2 DEF Host, Deliver, Silence, Reject, ReadTimeout

\* ... and stays so as long as it is faultless.
LEMMA TrackStep == TrackInv /\ [LinkNext]_vars => TrackInv'
<1> SUFFICES ASSUME TrackInv, [LinkNext]_vars PROVE TrackInv'
  OBVIOUS
<1>1. SafeInv /\ SafeInv'
  BY SafeStep DEF TrackInv
<1>2. Inv /\ HostTyped /\ Placed /\ TxInv /\ IdleBound
  BY <1>1 DEF SafeInv
<1> SUFFICES ASSUME Faultless' PROVE OnTrack'
  BY <1>1 DEF TrackInv, InStep
<1>3. CASE LinkNext
  <2>1. PICK rx \in Byte \cup {NoByte} : Host(rx) /\ Clock(rx) /\ log' = log \o Did(rx)
    BY <1>3, Zenon DEF LinkNext
  <2>2. lost' = 0 /\ lost = 0 /\ session' = session
    <3>1. lost' = 0
      BY DEF Faultless
    <3> QED
      BY <1>2, <2>1, <3>1, LostStays
  <2>3. Promised.sound
    BY <2>2 DEF Faultless, Promised
  <2>4. OnTrack
    BY <2>2, <2>3 DEF TrackInv, InStep, Faultless
  <2> QED
    BY <1>2, <2>1, <2>2, <2>3, <2>4, OnTrackStep
<1>4. CASE UNCHANGED vars
  <2>1. UNCHANGED uartVars /\ UNCHANGED hostVars /\ log' = log
    BY <1>4 DEF vars
  <2>2. UNCHANGED <<session, user, call, byte, gap, inbox, awaiting, idle, lost, told>>
    BY <2>1 DEF hostVars
  <2>3. UNCHANGED <<state, halt, word_sel, word_count, byte_sel, cur_word, reading_csr,
                    mem_addr, mem_wdata, rx_byte_idx, mem_is_write, mmio_addr,
                    csr_addr_pending, csr_byte_idx, rx_timeout_cnt, tx_en, tx_data, tx_left>>
    BY <2>1 DEF uartVars, replyVars, argVars, memVars, csrVars, txVars
  <2>4. OnTrack
    BY <2>2 DEF TrackInv, InStep, Faultless, Promised
  <2>5. Acc' = Acc /\ Sent' = Sent /\ Here' = Here
    BY <2>2, SameCall
  <2>6. Silent' = Silent /\ LastSeen' = LastSeen /\ ToLoad' = ToLoad /\ Taken' = Taken /\ Pending' = Pending
    BY <2>3 DEF Silent, LastSeen, ToLoad, Taken, Seen, Pending
  <2>7. Between => Between'
    <3>1. Ready' = Ready
      BY <2>2, <2>3, <2>6 DEF Ready
    <3> QED
      BY <2>1, <2>2, <2>3, <2>5, <2>6, <3>1 DEF Between
  <2>8. InCall => InCall'
    <3> SUFFICES ASSUME InCall PROVE InCall'
      OBVIOUS
    <3>1. PICK c : c = Here
      OBVIOUS
    <3>2. During(c) /\ ~Sent
      BY <3>1 DEF InCall
    <3>3. /\ Receiving(c)' = Receiving(c) /\ Fetching(c)' = Fetching(c) /\ Ignoring(c)' = Ignoring(c)
          /\ Replied(c)' = Replied(c)
      BY <2>2, <2>3, <2>6 DEF Receiving, Fetching, Ignoring, Replied
    <3>4. Replying(c)' = Replying(c)
      BY <2>2, <2>3, <2>6 DEF Replying
    <3>5. Answering(c)' = Answering(c) /\ Shown(c)' = Shown(c)
      BY <2>2, <3>3, <3>4 DEF Answering, Shown
    <3>6. During(c)'
      BY <2>1, <2>2, <2>3, <2>5, <3>2, <3>3, <3>5 DEF During
    <3> QED
      BY <2>5, <3>1, <3>2, <3>6 DEF InCall
  <2> QED
    BY <2>2, <2>4, <2>5, <2>7, <2>8 DEF OnTrack
<1> QED
  BY <1>3, <1>4

\* On a line that lost nothing debugger and host are in step, in every session.
THEOREM TrackHolds == LinkSpec => []TrackInv
<1>1. LinkInit => TrackInv
  BY TrackInit
<1>2. TrackInv /\ [LinkNext]_vars => TrackInv'
  BY TrackStep
<1> QED
  BY <1>1, <1>2, PTL DEF LinkSpec

\* A session in step has done and told a beginning of what it promised.
LEMMA TrackFollows == TrackInv => LogFollowsScript /\ AnswersMatch
<1> SUFFICES ASSUME TrackInv, Faultless PROVE IsPrefix(log, Promised.log) /\ IsPrefix(told, Promised.told)
  BY DEF LogFollowsScript, AnswersMatch
<1>1. Starting(log, Promised.log) /\ Starting(told, Promised.told) /\ Promised \in Accs
  BY OnTrackPrefix DEF TrackInv, InStep, SafeInv
<1>2. log \in Seq(Event) /\ told \in Seq(Said) /\ Promised.log \in Seq(Event) /\ Promised.told \in Seq(Said)
  BY <1>1 DEF TrackInv, SafeInv, HostTyped, Accs
<1> QED
  BY <1>1, <1>2, StartingPrefix

\* On a line that loses nothing the debugger does what the session says, in order, with
\* nothing added, dropped or cut off: LogFollowsScript, for every session, every
\* spacing of the bytes, every word size, register count and timeout.
THEOREM LogFollowsScriptProved == LinkSpec => []LogFollowsScript
<1>1. TrackInv => LogFollowsScript
  BY TrackFollows
<1> QED
  BY <1>1, TrackHolds, PTL

\* ... and the user is shown what was asked for, never the answer to another command:
\* AnswersMatch, for every session.
THEOREM AnswersMatchProved == LinkSpec => []AnswersMatch
<1>1. TrackInv => AnswersMatch
  BY TrackFollows
<1> QED
  BY <1>1, TrackHolds, PTL
=============================================================================
