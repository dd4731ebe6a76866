---------------------------- MODULE SocBusProofs ----------------------------
(***************************************************************************)
(* The memory port is shared safely in every clock in which KEY[1] is      *)
(* released, for any number of words and addresses.  A load that completes *)
(* finds its own address in the memory's address register, because         *)
(*   - the debugger keeps halt set for the whole of an access (HeldByPort),*)
(*   - in the first clock after it that the core may complete something,   *)
(*     the register has followed the core's address again (Registered).    *)
(***************************************************************************)
EXTENDS SocBus, TLAPS

PhaseOK == phase \in {"NONE", "MEM_WRITE_PULSE", "MEM_READ_WAIT", "MEM_READ_LATCH",
                      "MMIO_READ_WAIT", "MMIO_READ_LATCH"}

HeldByPort == phase # "NONE" => halt

\* The address register follows the core unless the core is held.
Registered == ~halt /\ acc.addr = dmem_addr_prev => address_b_r = acc.addr.word

\* One clock into a READ_MEM the register holds the debugger's address.
ReadRegistered == phase = "MEM_READ_LATCH" => address_b_r = addr.word

Inv == PhaseOK /\ HeldByPort /\ Registered /\ ReadRegistered

LEMMA InitInv == Init => Inv
  BY DEF Init, PortInit, Inv, PhaseOK, HeldByPort, Registered, ReadRegistered, Bubble

\* The debugger lets go of the core only in a clock in which it uses nothing.
LEMMA PortClockStep ==
  ASSUME PhaseOK, HeldByPort, PortClock
  PROVE  /\ PhaseOK' /\ HeldByPort'
         /\ UsesMem => halt'
         /\ phase' = "MEM_READ_LATCH" => phase = "MEM_READ_WAIT" /\ addr' = addr
<1> USE DEF PhaseOK, HeldByPort, UsesMem
<1>1. CASE SetHalt
  BY <1>1 DEF SetHalt, Idle
<1>2. CASE StartWrite
  BY <1>2 DEF StartWrite, MayStart, Idle
<1>3. CASE StartRead
  BY <1>3 DEF StartRead, MayStart, Idle
<1>4. CASE Wait
  BY <1>4 DEF Wait
<1>5. CASE Finish
  BY <1>5 DEF Finish, Writing, Latching
<1> QED
  BY <1>1, <1>2, <1>3, <1>4, <1>5 DEF PortClock

LEMMA ClockInv == ASSUME Inv, Clock PROVE Inv'
<1>1. PhaseOK' /\ HeldByPort'
  BY PortClockStep DEF Clock, Inv
<1>2. Registered'
  <2> SUFFICES ASSUME ~halt', acc'.addr = dmem_addr_prev'
               PROVE  address_b_r' = acc'.addr.word
    BY DEF Registered
  <2>1. ~UsesMem
    BY PortClockStep DEF Clock, Inv
  <2> QED
    BY <2>1 DEF Clock, CoreClock, MemoryClock, bram_addr_b
<1>3. ReadRegistered'
  <2> SUFFICES ASSUME phase' = "MEM_READ_LATCH"
               PROVE  address_b_r' = addr'.word
    BY DEF ReadRegistered
  <2>1. UsesMem /\ addr' = addr
    BY PortClockStep DEF Clock, Inv, UsesMem
  <2> QED
    BY <2>1 DEF Clock, MemoryClock, bram_addr_b
<1> QED
  BY <1>1, <1>2, <1>3 DEF Inv

LEMMA ResetInv == ASSUME Inv, Reset PROVE Inv'
  BY DEF Reset, PortReset, Inv, PhaseOK, HeldByPort, Registered, ReadRegistered

\* Every reachable state of SocBus satisfies the inductive invariant: the phase
\* of an access, what the port holds for it and what a read registered agree.
THEOREM InvHolds == Spec => []Inv
<1>1. Inv /\ [Next]_vars => Inv'
  <2> SUFFICES ASSUME Inv, [Next]_vars PROVE Inv'
    OBVIOUS
  <2>1. CASE Clock
    BY <2>1, ClockInv
  <2>2. CASE Reset
    BY <2>2, ResetInv
  <2>3. CASE UNCHANGED vars
    BY <2>3 DEF Inv, PhaseOK, HeldByPort, Registered, ReadRegistered, vars, portVars, busVars
  <2> QED
    BY <2>1, <2>2, <2>3 DEF Next
<1> QED
  BY InitInv, <1>1, PTL DEF Spec

\* A load completes only in a clock in which the memory's output is the word
\* at the load's address, unless KEY[1] lets the core run under the debugger.
THEOREM LoadsAreFresh == Spec => []LoadFresh
<1>1. Inv => LoadFresh
  BY DEF Inv, LoadFresh, Completes, CoreHalt, dmem_req, dmem_rvalid, Registered, q_b
<1> QED
  BY InvHolds, <1>1, PTL

\* READ_MEM latches the word at its address.
THEOREM DebugReadsAreFresh == Spec => []DebugReadFresh
<1>1. Inv => DebugReadFresh
  BY DEF Inv, ReadRegistered, DebugReadFresh, q_b
<1> QED
  BY InvHolds, <1>1, PTL

-----------------------------------------------------------------------------
(* Types.  The debugger's address and data are typed while an access is in  *)
(* progress.                                                                *)

PortTyped ==
  /\ PhaseOK /\ halt \in BOOLEAN
  /\ phase # "NONE" => addr \in Addr
  /\ Writing => wdata \in Data

TypeInv == TypeOK /\ PortTyped

LEMMA AddrFacts == ASSUME NEW a \in Addr PROVE a.word \in Words
  BY SocBusAssumption

LEMMA AccessFacts ==
  ASSUME NEW a \in Accesses
  PROVE  a.addr \in Addr /\ a.data \in Data /\ a.addr.word \in Words
<1>1. a.addr \in Addr /\ a.data \in Data
  BY SocBusAssumption DEF Accesses
<1> QED
  BY <1>1, AddrFacts

LEMMA BubbleFacts == Bubble \in Accesses /\ Bubble.addr.word = 0 /\ 0 \in Words
<1>1. Bubble \in Accesses
  BY SocBusAssumption DEF Bubble, Accesses
<1>2. Bubble.addr.word = 0
  BY DEF Bubble
<1> QED
  BY <1>1, <1>2, AccessFacts

LEMMA InitTyped == Init => TypeInv
<1> SUFFICES ASSUME Init PROVE TypeInv
  OBVIOUS
<1>1. mem \in [Words -> Data]
  BY SocBusAssumption DEF Init
<1>2. tx_left \in 0..TxCycles
  BY SocBusAssumption DEF Init
<1> QED
  BY <1>1, <1>2, BubbleFacts, AccessFacts, SocBusAssumption
     DEF Init, PortInit, TypeInv, TypeOK, PortTyped, PhaseOK, Writing

LEMMA PortTypedStep == ASSUME PortTyped, PortClock PROVE PortTyped'
<1> USE DEF PortTyped, PhaseOK, Writing
<1>1. CASE SetHalt
  BY <1>1 DEF SetHalt, Idle
<1>2. CASE StartWrite
  BY <1>2 DEF StartWrite, MayStart, Idle
<1>3. CASE StartRead
  BY <1>3 DEF StartRead, MayStart, Idle
<1>4. CASE Wait
  BY <1>4 DEF Wait
<1>5. CASE Finish
  BY <1>5 DEF Finish
<1> QED
  BY <1>1, <1>2, <1>3, <1>4, <1>5 DEF PortClock

\* Port B is always driven with an address of the memory, and with data when
\* it writes.
LEMMA PortBTyped ==
  ASSUME TypeInv
  PROVE  bram_addr_b.word \in Words /\ (bram_we_b => bram_data_b \in Data)
<1>1. CASE UsesMem
  <2>1. addr \in Addr /\ (Writing => wdata \in Data)
    BY <1>1 DEF TypeInv, PortTyped, UsesMem
  <2> QED
    BY <1>1, <2>1, AddrFacts DEF bram_addr_b, bram_we_b, bram_data_b
<1>2. CASE ~UsesMem
  BY <1>2, AccessFacts DEF bram_addr_b, bram_we_b, bram_data_b, TypeInv, TypeOK
<1> QED
  BY <1>1, <1>2

LEMMA MemoryTyped ==
  ASSUME TypeInv, MemoryClock PROVE mem' \in [Words -> Data] /\ address_b_r' \in Words
  BY PortBTyped DEF MemoryClock, TypeInv, TypeOK

LEMMA ClockTyped == ASSUME TypeInv, Clock PROVE TypeInv'
<1>1. PortTyped'
  BY PortTypedStep DEF Clock, TypeInv
<1>2. acc' \in Accesses /\ dmem_addr_prev' \in Addr
  BY AccessFacts DEF Clock, CoreClock, TypeInv, TypeOK
<1>3. mem' \in [Words -> Data] /\ address_b_r' \in Words
  BY MemoryTyped DEF Clock
<1>4. imem_addr' \in Words /\ imem_addr_prev' \in Words /\ imem_rdata' \in Data
  BY <1>3 DEF Clock, FetchClock, Fetch, TypeInv, TypeOK
<1>5. tx_left' \in 0..TxCycles
  BY SocBusAssumption DEF Clock, Transmit, TypeInv, TypeOK
<1>6. sent' \in BOOLEAN /\ held' \in BOOLEAN
  BY DEF Clock, History, TypeInv, TypeOK
<1>7. key' \in BOOLEAN
  BY DEF Clock, KeyClock, TypeInv, TypeOK
<1> QED
  BY <1>1, <1>2, <1>3, <1>4, <1>5, <1>6, <1>7 DEF TypeInv, TypeOK, PortTyped

LEMMA ResetTyped == ASSUME TypeInv, Reset PROVE TypeInv'
<1>1. PortTyped'
  BY DEF Reset, PortReset, PortTyped, PhaseOK, Writing
<1>2. acc' \in Accesses /\ dmem_addr_prev' \in Addr
  BY AccessFacts, BubbleFacts DEF Reset, TypeInv, TypeOK
<1>3. mem' \in [Words -> Data] /\ address_b_r' \in Words
  BY MemoryTyped DEF Reset
<1>4. tx_left' \in 0..TxCycles
  BY SocBusAssumption DEF Reset
<1>6. imem_addr' \in Words /\ imem_addr_prev' \in Words /\ imem_rdata' \in Data
  BY <1>3, BubbleFacts DEF Reset, Fetch, TypeInv, TypeOK
<1>5. sent' \in BOOLEAN /\ held' \in BOOLEAN /\ key' \in BOOLEAN
  BY DEF Reset, TypeInv, TypeOK
<1> QED
  BY <1>1, <1>2, <1>3, <1>4, <1>5, <1>6 DEF TypeInv, TypeOK, PortTyped

\* The state of the bus stays within its types.
THEOREM TypeCorrect == Spec => []TypeOK
<1>1. TypeInv /\ [Next]_vars => TypeInv'
  <2> SUFFICES ASSUME TypeInv, [Next]_vars PROVE TypeInv'
    OBVIOUS
  <2>1. CASE Clock
    BY <2>1, ClockTyped
  <2>2. CASE Reset
    BY <2>2, ResetTyped
  <2>3. CASE UNCHANGED vars
    BY <2>3 DEF TypeInv, TypeOK, PortTyped, PhaseOK, Writing, vars, portVars, busVars, fetchVars
  <2> QED
    BY <2>1, <2>2, <2>3 DEF Next
<1>2. TypeInv => TypeOK
  BY DEF TypeInv
<1> QED
  BY InitTyped, <1>1, <1>2, PTL DEF Spec

-----------------------------------------------------------------------------
\* A store that completes is in memory after the clock in which it does, unless
\* KEY[1] lets the core run under the debugger.
THEOREM StoresLand == Spec => StoreLands
<1>1. Inv /\ TypeOK /\ [Next]_vars
        => [Clock /\ key /\ Completes /\ dmem_we /\ bram_sel => mem'[acc.addr.word] = acc.data]_vars
  <2> SUFFICES ASSUME Inv, TypeOK, Clock, key, Completes, dmem_we, bram_sel
               PROVE  mem'[acc.addr.word] = acc.data
    OBVIOUS
  <2>1. ~UsesMem
    BY DEF Inv, Completes, CoreHalt, HeldByPort, UsesMem
  <2>2. mem \in [Words -> Data] /\ acc.addr.word \in Words
    BY AccessFacts DEF TypeOK
  <2> QED
    BY <2>1, <2>2 DEF Clock, MemoryClock, bram_we_b, bram_addr_b, bram_data_b
<1> QED
  BY InvHolds, TypeCorrect, <1>1, PTL DEF Spec, StoreLands

-----------------------------------------------------------------------------
(* Fetches. *)

\* What port A answers is what memory holds, unless port B wrote the word on the
\* edge on which it was read: then a store of the core did, or the debugger,
\* which still holds the core.
Answered == imem_rdata = mem[imem_addr_prev] \/ imem_addr_prev \in stored \/ halt

LEMMA AnsweredStep == ASSUME TypeOK, Inv, Answered, [Next]_vars PROVE Answered'
<1>1. CASE Clock
  <2> SUFFICES ASSUME ~halt', imem_rdata' # mem'[imem_addr_prev'] PROVE imem_addr_prev' \in stored'
    BY DEF Answered
  <2>1. imem_addr_prev' = imem_addr /\ mem[imem_addr] # mem'[imem_addr]
    BY <1>1 DEF Clock, FetchClock, Fetch
  <2>2. ~UsesMem
    BY <1>1, PortClockStep DEF Clock, Inv
  <2>3. bram_we_b /\ bram_addr_b.word = imem_addr
    BY <1>1, <2>1 DEF Clock, MemoryClock, TypeOK
  <2> QED
    BY <1>1, <2>1, <2>2, <2>3 DEF Clock, History, bram_addr_b
<1>2. CASE Reset
  BY <1>2 DEF Reset, PortReset, Answered
<1>3. CASE UNCHANGED vars
  BY <1>3 DEF vars, portVars, busVars, fetchVars, Answered
<1> QED
  BY <1>1, <1>2, <1>3 DEF Next

\* The core never takes an instruction that a WRITE_MEM has replaced, nor one of
\* another address: what it takes is the word at its pc, unless a store of its
\* own wrote that word in the clock before.
THEOREM FetchesAreFresh == Spec => []FetchFresh
<1>1. Init => Answered
  BY DEF Init, Answered
<1>2. Answered => FetchFresh
  BY DEF Answered, FetchFresh, Completes, CoreHalt, imem_rvalid
<1>3. TypeOK /\ Inv /\ Answered /\ [Next]_vars => Answered'
  BY AnsweredStep
<1> QED
  BY TypeCorrect, InvHolds, <1>1, <1>2, <1>3, PTL DEF Spec

-----------------------------------------------------------------------------
(* The UART. *)

\* A frame started by an access that was never halted was started in the clock
\* before: UART_TX is busy with it, and the access completes in this clock.
FrameLasts == sent /\ ~held => tx_left > 0 /\ acc.addr = dmem_addr_prev

LEMMA FrameStep == ASSUME TypeOK, FrameLasts, [Next]_vars PROVE FrameLasts'
<1>1. CASE Clock
  <2> SUFFICES ASSUME sent', ~held' PROVE tx_left' > 0 /\ acc'.addr = dmem_addr_prev'
    BY DEF FrameLasts
  <2>1. ~Completes /\ ~CoreHalt /\ ~held /\ (sent \/ StartsFrame)
    BY <1>1 DEF Clock, History, TypeOK
  <2>2. acc.addr # dmem_addr_prev
    BY <2>1 DEF Completes, dmem_rvalid
  <2>3. StartsFrame
    BY <2>1, <2>2 DEF FrameLasts
  <2>4. tx_left' = TxCycles
    BY <1>1, <2>3 DEF Clock, Transmit
  <2>5. acc' = acc /\ dmem_addr_prev' = acc.addr
    BY <1>1, <2>1 DEF Clock, CoreClock
  <2> QED
    BY <2>4, <2>5, SocBusAssumption
<1>2. CASE Reset
  BY <1>2 DEF Reset, FrameLasts
<1>3. CASE UNCHANGED vars
  BY <1>3 DEF vars, busVars, FrameLasts
<1> QED
  BY <1>1, <1>2, <1>3 DEF Next

\* A store to the UART that was never halted sends its byte once, in however
\* many clocks it asks UART_TX to (riscv_top.sv:272-284).
THEOREM StoresSendOnce == Spec => []SendsOnce
<1>1. Init => FrameLasts
  BY DEF Init, FrameLasts
<1>2. FrameLasts /\ TypeOK => SendsOnce
  BY DEF FrameLasts, SendsOnce, StartsFrame, TypeOK
<1>3. TypeOK /\ FrameLasts /\ [Next]_vars => FrameLasts'
  BY FrameStep
<1> QED
  BY TypeCorrect, <1>1, <1>2, <1>3, PTL DEF Spec
=============================================================================
