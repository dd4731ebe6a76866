------------------------------- MODULE SocBus -------------------------------
(***************************************************************************)
(* The buses of src/fpga/riscv_top.sv: one clock is one step.  The         *)
(* pipelined core fetches through port A of the memory.  Its MEM stage     *)
(* holds an access until dmem_rvalid and while it is halted; the debugger  *)
(* (DebugPort) shares port B and the peripheral decoder with it.           *)
(*                                                                         *)
(* An address is a page (addr[31:16], addr[31:4] for the UART) and a word  *)
(* (addr[13:2] for the memory, addr[3:2] for a register).  The memory      *)
(* registers its read address (dp_ram_model.sv, REGISTERED_ADDR; the same  *)
(* as dp_ram.v on the board, but for a fetch of a word port B writes in    *)
(* the same clock: see FetchClock).  Accesses are whole words.             *)
(***************************************************************************)
EXTENDS DebugPort, Naturals

CONSTANTS
  Words,      \* the words of the memory and the registers of the peripherals
  TxCycles    \* clocks UART_TX takes for a frame

ASSUME SocBusAssumption ==
  /\ Addr \subseteq [page : {"bram", "uart", "timer", "none"}, word : Words]
  /\ [page |-> "bram", word |-> 0] \in Addr
  /\ 0 \in Data /\ TxCycles \in Nat /\ TxCycles > 1

VARIABLES
  acc,              \* EX/MEM: [kind, addr, data]; addr is the ALU result
  dmem_addr_prev,   \* the address of the clock before
  mem, address_b_r, \* the memory and its read address register
  key,              \* KEY[1]: TRUE when released; pressed, it overrides halt
  imem_addr,        \* the word the core fetches, from its pc
  imem_addr_prev,   \* the same in the clock before
  imem_rdata,       \* port A's answer
  tx_left,          \* UART_TX, as in DebugUart
  sent, held,       \* history: the access in MEM has started a frame, was halted
  stored,           \* history: the word a store wrote in the clock before
  written           \* history: the words WRITE_MEM wrote since the core halted

busVars == <<acc, dmem_addr_prev, mem, address_b_r, key, tx_left>>
fetchVars == <<imem_addr, imem_addr_prev, imem_rdata, stored>>
vars == <<portVars, busVars, fetchVars, sent, held, written>>

TX_DATA == 0     \* register 0 of the UART page

Accesses == [kind : {"none", "load"}, addr : Addr, data : {0}]
              \cup [kind : {"store"}, addr : Addr, data : Data]

-----------------------------------------------------------------------------
(* The bus, as combinational functions of the state. *)
dmem_we  == acc.kind = "store"
dmem_req == acc.kind \in {"load", "store"}

\* Mutant: any access is answered in the clock after another one.
AnswersAnyReq == dmem_req
dmem_rvalid   == dmem_req /\ acc.addr = dmem_addr_prev

CoreHalt  == halt /\ key
Completes == ~CoreHalt /\ (dmem_req => dmem_rvalid)

bram_sel    == acc.addr.page = "bram"
periph_addr == IF UsesMmio THEN addr ELSE acc.addr
uart_sel    == periph_addr.page = "uart"

\* Mutant: port B is steered to the debugger for writes only.
SteersOnWrite == IF Writing THEN addr ELSE acc.addr

\* Port B: the debugger's while it asks for it, the core's otherwise.
bram_addr_b == IF UsesMem THEN addr ELSE acc.addr
bram_we_b   == IF UsesMem THEN Writing ELSE dmem_we /\ bram_sel
bram_data_b == IF UsesMem THEN wdata ELSE acc.data
q_b         == mem[address_b_r]

\* The write decode looks at the core's address, the select at periph_addr.
uart_tx_en == uart_sel /\ dmem_we /\ acc.addr.word = TX_DATA

\* Mutant: UART_TX starts over when asked to send while it is sending.
StartsAnyway == uart_tx_en
StartsFrame  == uart_tx_en /\ tx_left = 0

-----------------------------------------------------------------------------
(* One clock of everything but the debugger. *)

\* The access in MEM leaves when it completes; any other may follow it.
CoreClock ==
  /\ IF Completes THEN acc' \in Accesses ELSE UNCHANGED acc
  /\ dmem_addr_prev' = acc.addr

\* Mutant: imem_rvalid hardwired, as it once was (riscv_top.sv:192).
AlwaysValid == TRUE
imem_rvalid == imem_addr = imem_addr_prev

\* Port A reads at the edge the word of the address of the clock that ends.  If
\* port B writes that word on the same edge, dp_ram.v answers with the old one
\* (OLD_DATA, mixed ports) and dp_ram_model.sv with the new one.
Fetch(a) == imem_addr_prev' = a /\ imem_rdata' \in {mem[a], mem'[a]}

\* Of the pc only the word matters; it stands still while the core is
\* halted or waits for data; a fetch wait does not keep a redirect from moving it.
FetchClock ==
  /\ IF Completes THEN imem_addr' \in Words ELSE UNCHANGED imem_addr
  /\ Fetch(imem_addr)

MemoryClock ==
  /\ address_b_r' = bram_addr_b.word
  /\ mem' = IF bram_we_b THEN [mem EXCEPT ![bram_addr_b.word] = bram_data_b] ELSE mem

\* Mutant: the frame counter does not stop at zero.
TicksPastZero == tx_left' = IF StartsFrame THEN TxCycles ELSE tx_left - 1
Transmit ==
  tx_left' = IF StartsFrame THEN TxCycles ELSE IF tx_left > 0 THEN tx_left - 1 ELSE 0

KeyClock == key' \in BOOLEAN

History ==
  /\ sent' = (~Completes /\ (sent \/ StartsFrame))
  /\ held' = (~Completes /\ (held \/ CoreHalt))
  /\ stored' = IF bram_we_b /\ ~UsesMem THEN {acc.addr.word} ELSE {}
  /\ written' = CASE ~CoreHalt -> {}
                  [] CoreHalt /\ Writing -> written \cup {addr.word}
                  [] OTHER -> written

\* The bubble reset leaves in EX/MEM drives address 0.
Bubble == [kind |-> "none", addr |-> [page |-> "bram", word |-> 0], data |-> 0]

Init ==
  /\ PortInit
  /\ acc = Bubble
  /\ dmem_addr_prev = acc.addr /\ address_b_r = acc.addr.word
  /\ mem = [w \in Words |-> 0] /\ key = TRUE
  /\ tx_left = 0
  /\ imem_addr = 0 /\ imem_addr_prev = 0 /\ imem_rdata = mem[0]
  /\ sent = FALSE /\ held = FALSE /\ stored = {} /\ written = {}

Clock == PortClock /\ CoreClock /\ MemoryClock /\ FetchClock /\ Transmit /\ KeyClock /\ History

\* rst clears the stage registers and the peripherals; the memory and the
\* address tracking are clocked as ever, so a store in MEM still writes.  The
\* reset of the pc is asynchronous: on this edge it is already 0.
Reset ==
  /\ PortReset
  /\ acc' = Bubble /\ dmem_addr_prev' = acc.addr
  /\ MemoryClock /\ imem_addr' = 0 /\ Fetch(0)
  /\ tx_left' = 0 /\ UNCHANGED key
  /\ sent' = FALSE /\ held' = FALSE /\ stored' = {} /\ written' = {}

Next == Clock \/ Reset

Spec == Init /\ [][Next]_vars

-----------------------------------------------------------------------------
TypeOK ==
  /\ acc \in Accesses /\ dmem_addr_prev \in Addr
  /\ mem \in [Words -> Data] /\ address_b_r \in Words
  /\ halt \in BOOLEAN /\ key \in BOOLEAN
  /\ imem_addr \in Words /\ imem_addr_prev \in Words /\ imem_rdata \in Data
  /\ tx_left \in 0..TxCycles /\ sent \in BOOLEAN /\ held \in BOOLEAN

\* A load that completes returns what memory holds at its address, however
\* the accesses before it, halts in the middle of it and the debugger's own
\* use of port B moved the memory's registered address.  This and StoreLands
\* are about clocks in which KEY[1] is released, whatever it was before.
LoadFresh ==
  key /\ Completes /\ acc.kind = "load" /\ bram_sel => q_b = mem[acc.addr.word]

\* An instruction the core takes is the word memory holds at its pc, after jumps
\* back to back, halts, and whatever WRITE_MEM did to the word under the pc
\* while the core was held: there is a clock between its write and the release.
\* Only a store of the core's own in the clock before may still be missed.
FetchFresh ==
  key /\ Completes /\ imem_rvalid => imem_rdata = mem[imem_addr] \/ imem_addr \in stored

\* A store that completes is in memory: no clock in which it was accepted
\* lost it to the debugger.
StoreLands ==
  [][Clock /\ key /\ Completes /\ dmem_we /\ bram_sel => mem'[acc.addr.word] = acc.data]_vars

\* What READ_MEM latches is the word at its address, whatever the core does.
DebugReadFresh == phase = "MEM_READ_LATCH" => q_b = mem[addr.word]

\* A store to the UART that was never halted sends its byte once, although it
\* asks UART_TX to send in each of the clocks it spends in MEM.
SendsOnce == sent /\ StartsFrame => held \/ CoreHalt

\* debug_uart.sv: "Writes data32 to dmem/imem BRAM at addr32" -- while the
\* core stays halted the word stays as WRITE_MEM wrote it.  What the core has in
\* MEM then was there when it was halted (CoreHalt holds acc).
DebugWriteSticks ==
  [][Clock /\ CoreHalt /\ ~Writing => \A w \in written : mem'[w] = mem[w]]_vars
=============================================================================
