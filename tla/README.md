# System-From-Scratch: TLA+ models and proofs

This directory verifies the control logic of the RV32IM system-on-chip in this
repository: the pipelined core, the hardware debugger, the bus they share, the
VGA framebuffer, the bootloader, and the host tools that talk to them. The
RTL, the assembly and the Python tools are the reference. File and line
numbers are paths from the repository root.

## The system

Everything but the VGA runs in one clock domain (`clk`, `CLOCK_50` divided by
two).  A "step" below is one clock unless something else is said.

| Component | State | Operations | Interacts with |
|---|---|---|---|
| Pipelined core `src/riscv_core/riscv_core.sv` | pc, IF/ID, ID/EX, EX/MEM, MEM/WB, register file, CSRs | one clock: reset, halt, data wait, redirect, interlock, advance | memories (req/vld), timer (`timer_irq`), debugger (`halt`) |
| Single-cycle core `src/riscv_core/riscv_core_single_cycle.sv` | pc, register file, CSRs | one instruction | golden reference of `test/testbench/test_diff.py` |
| Top level `fpga/riscv_top.sv`, `fpga/dp_ram.v` | memory and its address registers, `dmem_addr_prev`, `imem_addr_prev` | port B multiplexing, address decode, `rvalid` | everything |
| Debugger `src/peripherals/debug_uart.sv` | command FSM, halt, assembled arguments, reply counters, timeout | ten byte commands, argument bytes, replies | core (`halt`, register peek), port B, peripheral reads, its own UART |
| UART `src/peripherals/uart.sv` | shifters and bit timers of UART_TX and UART_RX | send or receive a frame | core (polled), debugger, host |
| Timer `src/peripherals/timer.sv` | RELOAD, EN, pending, count | count down, underflow, register writes | core (`irq`, loads and stores) |
| VGA `src/peripherals/vga_framebuffer.sv`, `dp_ram_sync_read.sv` | beam, control bits, two buffers, read pipeline | draw, request a swap, flip, scan out, read STATUS | core (stores and loads seen from `clk50`) |
| Bootloader `src/bootloader/bootloader.asm`, host `tools/uart_loader.py` | counters, load pointer, checksum | download a program | UART |
| Host debugger `tools/reg_debugger.py`, `reg_debugger_shell.py` | the serial port, its input buffer | commands of a process each or of one shell, word replies with a timeout, loading of files | debugger's UART |
| Program images `src/bootloader/bin2mif.py`, `parse_mif`, `load_words_from_file`, `_bytes_to_words` | – | bytes and `.mif` lines to the words that are sent | host debugger, web debugger |
| Web debugger `tools/webdbg/server.py`, `static/` | handle, lock, clients, running flag | handlers, builds, poll thread | reg_debugger |
| C port and apps, scripts, `hex_display.sv`, unused `vga.sv`, `vga_spi.sv`, testbenches | – | – | – |

What is hard in it, and what makes each part correct:

* **Core.**  Four instructions are in flight and every register holds under a
  different condition (`halt`, `mem_wait`, `front_stall`, `ex_flush`), some of
  them at once.  Operands are read in ID, CSRs in WB, trap vectors in EX;
  architectural state is written in MEM (memory), WB (registers, CSRs) and EX
  (trap CSRs).  Correct: it computes what the single-cycle core computes, step
  by step; every wait ends; interrupts are taken, not nested, and resume where
  they interrupted.
* **Debugger.**  Two UARTs' worth of latency, eight argument bytes that may be
  lost, a timeout, a halt flag tested long before it matters.  Correct: memory
  is touched only while the core is held, a session on a sound line is carried
  out exactly, a lost byte never wedges it.
* **Host tools.**  A reply is the next four bytes the driver holds, whatever
  asked for them; a running core takes arguments for commands; a file is padded,
  trimmed, and a `.mif` has gaps and repetitions.  Correct: each value shown is
  the one asked for, a loaded program is its file, an exception ends its
  command and no other.
* **Timer.**  The acknowledgement is a store that stays in MEM for two clocks,
  with MRET behind it and the next underflow anywhere.  Correct: one interrupt
  for a tick, and no tick after an acknowledgement lost.
* **Bus.**  The memory registers its address, so data answers the clock before;
  two masters share port B; `dmem_we` is combinational and ungated.  Correct:
  fetches, loads and READ_MEM are fresh, stores land, a store to the UART sends once.
* **VGA.**  The beam, the core's clock and the program are unsynchronised.
  Correct: no torn screen, a completed poll means the flip was made.
* **Bootloader.**  It polls a `RX_done` that is high for one clock, so bytes get
  lost; it restarts on a timeout while the host may still be sending.  Correct:
  a program reported as loaded is the one in memory; an upload that went wrong
  does not spoil the next; it never waits for ever.
* **Web debugger.**  Threads look the handle up in one critical section and use
  it in another, while others connect and disconnect, and exceptions end them
  anywhere.  Correct: a flash reaches
  the board in one piece, no port is leaked, every message is dealt with.

PROJECT.json lists the hazards at their lines and the property that covers
each one.

## Modules

| Module | What it models |
|---|---|
| `Isa` | decoded instructions, CSR numbers and bits, results of an instruction; ALU functions, comparisons and byte lanes are constant operators |
| `SingleCycleCore` | `riscv_core_single_cycle.sv`: one instruction per step (the abstract specification) |
| `RiscvCore` | `riscv_core.sv`: one clock edge per step |
| `RiscvCoreProps` | invariants of the pipeline, the refinement mapping |
| `Timer` | `timer.sv`: one clock edge per step |
| `RiscvTimer` | the core with the timer behind it, halts and resets; interrupts, fairness and liveness |
| `MCRiscvCore`, `MCRiscvTimer` | a small machine and its programs for TLC |
| `RiscvCoreProofs` | theorems about `RiscvCore`, and that it implements `SingleCycleCore` |
| `RiscvTimerProofs` | theorems about `RiscvTimer` |
| `Uart` | `uart.sv`: UART_RX and UART_TX, one clock per step |
| `ByteChannel` | what the board assumes of a serial line: bytes arrive once, unchanged, one at a time (abstract specification) |
| `UartLink`, `MCUartLink` | UART_RX with UART_TX or a host with a clock of its own at the other end, and resets |
| `UartLinkProofs` | that `UartLink` implements the safety of `ByteChannel` |
| `DebugUart` | `debug_uart.sv`: one clock per step, any byte or none arriving |
| `DebugPort` | what the rest of the board sees of the debugger: `halt` and its accesses (abstract specification) |
| `ProgramImage` | files and the words they become: `bin2mif.py`, `parse_mif`, `load_words_from_file` and the server's copies, as functions |
| `DebugTools` | the calls each command of `reg_debugger.py`, of its shell and of the web server makes, and the exceptions they raise |
| `DebugLink`, `MCDebugLink` | `DebugUart` with these tools at the other end of a line that may lose bytes |
| `DebugLinkProofs` | theorems about `DebugUart`, that it implements `DebugPort`, and about the sessions of `DebugLink` |
| `SocBus`, `MCSocBus` | `riscv_top.sv`: port B, address decode and the MEM stage, with `DebugPort` as the debugger |
| `SocBusProofs` | theorems about `SocBus` |
| `VgaFramebuffer` | `vga_framebuffer.sv` with the documented draw loop |
| `VgaFramebufferProofs` | theorems about `VgaFramebuffer` |
| `Bootloader` | `bootloader.asm`: one action per byte |
| `BootLink`, `MCBootLink` | `Bootloader` with `uart_loader.py` at the other end of a line that may miss bytes |
| `BootLinkProofs` | theorems about `BootLink` |
| `WebDebugger` | the threads of `webdbg/server.py` |
| `WebDebuggerProofs` | theorems about `WebDebugger` |

`SocBus` extends `DebugPort` instead of `DebugUart`, and `DebugUart` is shown to
implement `DebugPort` (run `debug_uart`, theorem `PortImplemented`): what is
shown about the bus for every behaviour of the port holds for the debugger.
The core is composed with the bus the same way round: in `RiscvCore` the
answers of the memories (`dmem_vld`, `imem_vld`), `halt` and `timer_irq` are
inputs that may be anything in any clock, and `SocBus` lets any access follow
any other in MEM.  `RiscvTimer` puts `Timer` in the place of the free
`timer_irq`.  `Uart` is abstracted in the same way: `UartLink` implements
`ByteChannel`, and `DebugUart`, `SocBus` and `Bootloader` use bytes and the
length of a frame instead of bits.  `DebugLink` instantiates `DebugTools`, which extends
`ProgramImage`; `WebDebugger` counts the writes of a command, whose meaning on
the wire `DebugTools` gives.

### The core

The variables of `RiscvCore` are the registers of the RTL: `pc`, `if_id`,
`id_ex`, `ex_mem`, `mem_wb` (records, named as their prefixes), `regfile`,
`csr`, with `dmem` for the memory and `prog` for the program; `Fetch(prog, a)`
is the word at address `a`, so a program does not change while it runs. `Next`
has one disjunct per way the `always_ff` blocks can go: `Reset`, `Halted`,
`MemWait`, and, with the back end advancing, `Flush`, `FrontStall`, `Advance`
(`Cycle` is all of them but `Reset`, and `NoResetSpec` the core that is reset
at power-up only). Each takes the inputs of the clock from `\E`. Helper
operators keep the names of the wires (`ex_flush`, `id_stall`, `priv_hazard`,
`irq_taken`, `next_pc`, `dmem_we`, ...).

Abstracted: instruction encodings (a decoded record), the ALU's arithmetic, the
multiplier and divider (constant operators with the few laws the proofs need),
the word size (`MaxWord`), programs that change.

`ImplementsSingleCycle` maps an instruction to the edge on which it leaves EX.
What MEM and WB still have to commit is laid over registers, CSRs and memory
(`AbsReg`, `AbsCsr`, `AbsMem`); the pc is that of the oldest instruction that
has not left EX.  It is stronger than `test_diff.py`, which compares the end
states only.  `StacksMstatus` covers the one intended difference of the two
cores: the single-cycle core does not stack `mstatus` on traps.

### The timer and the core

`Timer` has the four registers of `timer.sv`; `Clock` takes the store of the
clock, if there is one.  Its next state reads `en` and `reload_val` as they were
before the store, and an underflow wins over a write of 1 to STATUS, being
assigned later in the block.  `RiscvTimer` steps it in every clock of the core,
halted ones too (the timer does not know of `halt`), writes it in every clock a
store to its page is in MEM (`dmem_we` is ungated), and resets both at once,
`MaxResets` times.  `tick` is a history variable: `new` while an interrupt is
owed for a tick, `served` from the interrupt to its acknowledgement.  Ticks that
come before the acknowledgement leaves MEM are acknowledged with it, as
`pending` is one bit: `OneIrqPerTick` says nothing of them.  `in_handler` is set
by a trap or an interrupt and cleared by its MRET.

### The serial line

`rx` and `tx` of `Uart` are the registers of UART_RX and UART_TX, with an action
per state of each machine; the two registers of the synchroniser run under reset
too, as in the code.  In `UartLink` the sender is UART_TX on the receiver's
clock, or a host.  The host is external: edge k of its frame comes within `Skew`
clocks of k bits after its start bit, which covers a wrong baud rate, jitter and
a first synchroniser stage that catches an edge or not, and its next frame may
begin as early as `Skew` clocks before the last one's time is over.  Reset hits the receiver
anywhere in a frame, and the host does not know.  `pending` is the byte on the
line; after a reset it counts again from when nobody has sent for the time of a
frame (`synced`).  `ByteChannel` has `RX_done` as its strobe, so a byte received
twice, or one nobody sent, is not among its steps.

### The debugger, its line and its port

`DebugUart` has one action per command byte, per argument state and per
execution state, with reset.  A reply's words are the source they are read from,
not their value.  `rx` is the byte UART_RX hands over in this clock, or none.
UART_TX is the number of clocks its frame still takes.

`DebugTools` turns what a user types or clicks into the calls of `RegDebugger`
it makes (`cli`, `shell`, `web`); a call writes a command to the wire and reads
words, or raises.  A session of `DebugLink` is a front end and a list of such
commands.  The command under way is at a call and a byte of it (`user`, `call`,
`byte`); bytes go out at distances `Gaps` and are lost up to the number the
session names; `inbox` is what the driver has received, and `_read_word` takes
the next `WordBytes` of it, or raises at its timeout (`Read`, `ReadTimeout`).
The command line opens the port for each command, which empties the driver
(`Opened`); the shell and the server never do.  What leaves the debugger is a
byte of a source (a register, the pc, a word of memory), so an answer to
another question is told apart.  Two histories record the session: `log`, what
the board did (halts, steps, writes with address and data, reply bytes), and
`told`, what each command returned or raised.  `Promised` computes both from the
documents' words, call by call (`Extend`, `AfterCalls`, `AfterCommands`): a command for a halted core is ignored while it runs, an
exception ends its command, replies come in the order asked.  The promise is
kept to only when it is `sound`: no command with command codes in its arguments
was sent to a running core.

`DebugPort` is six actions: set `halt`, start a write or a read, wait, finish,
reset.  The refinement maps the memory and MMIO states to its phases.

### The bus

`acc` is EX/MEM's access.  An address is a page and a word.  The model has the
registered read address (`address_b_r`), `dmem_addr_prev` and `dmem_rvalid`,
steering by the debugger of port B and of `periph_addr`, KEY[1] (which overrides
`halt`, `riscv_top.sv:453`), the UART's write decode, and reset.  The fetch side
is the word of the pc (`imem_addr`), the same a clock ago, and port A's answer:
`FetchClock` moves the pc anywhere whenever the core neither is halted nor waits
for data, as redirects and plain fetches together can.  A read of port A on the
edge on which port B writes the word has two outcomes, the board's old word and
the simulation's new one (`Fetch`).  `stored` and `written` are history.

### The VGA

One step is one edge of `clk50`.  The core's clock is every second edge, with
either phase at the start; its edge and that of `clk50` are not ordered, so a
load takes `rdata` as before or after the edge.  The program enables double
buffering, then draws a frame row by row, stores SWAP, polls SWAP_PENDING,
repeats, with gaps of any length in `Gaps` between accesses.  A reset may come on
any edge: beam, control bits and program start again, the buffers keep what was
drawn.  A buffer in which no frame was finished since power-up or a reset
(`finished` holds those in which one was) may hold half a frame, and the screen
shows it: until the first swap, and also after it, when a SWAP store that
requests twice (below) brings that buffer back.  The program is the one `docs/01_architecture.md:44-45` prescribes; no program of
this kind is in the repository.  A word of a buffer is a row and holds the
number of the frame it was drawn for, so tearing is two numbers on one screen.

### The bootloader

`Bootloader` has an action per kind of byte it receives (`GetSize`, `GetData`,
`GetChecksum`), one for the bytes it sends, the timeout's restart and the
board's reset.  `BootLink` adds `uart_loader.py`: the port's opening, the wait
for 0xAA, its writes in chunks, the response, and an end at any point.  The line
delivers the oldest byte or misses it, `MaxLost` times in an upload; a byte that
comes while the bootloader is not polling is always missed.  A timeout is taken
with nothing on the line (2,000,000 polls are most of a second, a byte is 0.1
ms), so after a loader that stopped, paused or was cut short.  A file fits in
the program memory (`BootLinkAssumption`): neither side checks it, see *Runs*.

### The web debugger

Each thread of `WebDebugger` has a place (`pc`), the handle it holds
(`active`) and how many writes it has made to the board; `dbg_lock` and
`clients_lock` are their holders. A client's thread registers, sends the
status, receives commands; a command looks up the handle, takes the lock,
writes; connect and disconnect open, swap and close ports; a build fails in one
of its stages, is answered, or goes on as a flash; the poll thread sleeps, looks
up, reads, broadcasts. An exception no handler catches ends a client's thread:
in a message (`Misread`), in the middle of a command's writes (`PackError`), in
pyserial (`Crash`). Critical sections in which nothing waits are one step, and
so is a build, whose files nobody shares. Serial ports fail at any time.
`streak` is a history variable: who made the last writes to the board, and how
many in a row.

## Runs

| Run | Checks | Shows |
|---|---|---|
| `core` | `TypeOK`, `OperandsFresh`, `VectorFresh`, `TrapStands`, `ImplementsSingleCycle` | for each of 4,903 programs, under every pattern of halts and waits: interlock, flush and trap entry are right, no older instruction overwrites what a trap saves, and the pipeline is the single-cycle core step by step |
| `core_live` | `FetchOrder`, `Converges`, `IrqReached`, `OneIrqPerTick`, `NotNested` | the core with its timer: programs whose jumps go forward park, also after a reset and with the interrupt line up; an enabled interrupt is taken even from a self-loop; a handler is entered once for a tick, none is lost after its acknowledgement, and it is not interrupted before its MRET, with CSR writes, ECALL, jumps and loads under the interrupt |
| `uart` | `ImplementsChannel` | bytes back to back, from UART_TX or from a host whose edges are off by almost half a bit, resets in mid-frame: each is received once and unchanged before the next begins |
| `debug_uart` | `TypeOK`, `MemOnlyWhileHalted`, `ReplyEndsAtPc`, `NeverWedged`, `ImplementsPort` | any bytes at any time: memory only while held, replies end, no wedge, refinement of `DebugPort` |
| `debug_link` | `LogFollowsScript`, `AnswersMatch`, `FreshHaltWorks`, `FreshAnswers`, `ImageLoaded`, `Delivered` | eleven sessions of the three front ends: on a sound line the board does what was asked and every value shown is the right one, at every spacing the timeout tolerates, whatever raises in between; a loaded file is in memory; with bytes lost, or arguments misread by a running core, the tools end, a HALT after a pause halts, and the next process of the command line shows no value left over |
| `bus` | `TypeOK`, `LoadFresh`, `FetchFresh`, `DebugReadFresh`, `SendsOnce`, `StoreLands` | any fetches and accesses, the debugger in between, KEY[1] at any time |
| `vga` | `TypeOK`, `WholeFrames`, `ShowsLastFrame`, `SwapDone` | with resets anywhere in a frame, in a buffer that has had a frame finished in it: no torn screen; polls end; after a poll the finished frame is shown (but for the store below) |
| `boot` | `TypeOK`, `OkMeansLoaded`, `RejectsOnlyLosses`, `NeverHangs` | uploads one after another, with losses, pauses and resets: an OK to an upload that arrived whole means it is in memory, a refusal means a loss, no wait for ever |
| `web` | `TypeOK`, `FlashIsWhole`, `PortsAccounted`, `Answered` | two clients and the poll thread, with threads ended by exceptions: nothing gets between the writes of a flash, no port is leaked, every message and poll is dealt with |

Three runs look for something the repository says and the code does not do, and
find it.

| Run | Statement | What happens |
|---|---|---|
| `irq_precise` | `test/asm_programs/test_timer_irq.asm:17-19`: the instruction an interrupt lands on is not completed, MRET retries it; `riscv_core.sv:869-870`: `id_ex_pc` is the pc of the instruction in EX | it completes, and MRET runs it again; and when EX holds a bubble the saved pc is 0 |
| `bus_parked` | `debug_uart.sv:23`: WRITE_MEM writes the word | a store parked in MEM by the halt is written again in every halted clock and undoes the WRITE_MEM; KEY[1] is never pressed, the core never runs in between |
| `vga_swap` | `docs/01_architecture.md:40-45`: SWAP requests a swap, the flip is applied, SWAP_PENDING clears | the store is on the bus for four edges of `clk50`; if its swap is applied in one of them, a later one requests a second swap, and a frame later the buffers flip back |

Other disagreements, seen while modelling and not made into runs:

* A CSR write to `mepc`, `mcause` or `mstatus` that is in MEM when an ECALL
  leaves EX commits after the trap and overwrites what it saved:
  `riscv_core.sv:254` interlocks the vectors only, against
  `docs/04_pipeline_plan.md:284` (same end state as the single-cycle core) and
  `docs/01_architecture.md:71-72`. With `csrrwi x0, mepc, 12` right before an ECALL
  TLC finds `TrapStands` violated; the programs of run `core` keep the two apart, and
  `TrapsStand` is proved of those that do.
* An interrupt does not wait for a CSR write to `mtvec` in flight:
  `priv_hazard` has a term for it, but `id_stall` requires `!ex_flush`, which
  contains `irq_taken` (`riscv_core.sv:231-272`).  It goes to the old vector.
* A `csrrs mstatus` that sets MIE and is in MEM when an interrupt is taken
  commits after trap entry and enables interrupts in the handler, against
  `docs/01_architecture.md:91-93` and `riscv_core.sv:877-878`. With
  `csrrsi x0, mstatus, 8` where interrupts are enabled already TLC finds `NotNested`
  violated: the tick still pending interrupts the handler before its first instruction.
  A program that enables them only where they are disabled, as that of run `core_live`
  does, is safe; `NeverNested` is proved of such programs.
* `docs/dev_log.md:35-43` says waiting half a bit in UART_RX's DONE was what
  bytes sent back to back needed.  A received frame still takes ten bits and one
  or two clocks (IDLE takes a clock of its own, and half a bit is rounded), so
  with one stop bit the next frame begins before the last one is received
  (`uart` fails with `StopBits` 1 even when `Skew` is 0), and the receiver falls
  behind by as much in every frame: half a bit of 217 clocks after 54 of them.  The two stop bits of
  lines 54-63 are what makes it right.
* WRITE_MEM, READ_MEM and READ_MMIO sent to a running core are not "ignored"
  (`debug_uart.sv:21-22`): the command byte is, and its argument bytes are then
  taken as commands; a data byte 0x01 halts the core.  After a lost byte, too,
  argument bytes become commands.
* `read_mem` to a running core need not "time out waiting" (`reg_debugger.py:151`,
  `reg_debugger_shell.py`'s `rmem`): an address with a command code in it is
  answered as that command. `rmem 0x1004` reads a register, and a byte 06 makes a
  READ_ALL of 132 bytes of which four are read. The shell and the server keep
  the port open and empty nothing, so every later value is one of an older
  question; `FreshAnswers` is what the command line, which reopens the port,
  guarantees.
* The last data byte of a WRITE_MEM to a running core may be a command that waits
  for an argument (04), and takes the HALT sent right after it;
  `FreshHaltWorks` is about a HALT sent after a pause.
* `struct.error` (an address or a word beyond 32 bits) is neither `IOError` nor
  `ValueError`: it ends the shell with its port open, and a client's thread of
  the server, in the middle of a `load_program` after its HALT and some writes.
* The server trims trailing zero words of every image (`server.py:143-155`) and
  has no `--no-trim`: memory behind a shorter program keeps what it held.
* `timer.sv:9-10` says the counter reloads "on enable"; it does not (lines 11-15
  say so), so the first tick after reset comes in the first enabled clock
  whatever RELOAD holds.  Writing RELOAD does not set the count either.
* A tick in the first of the two clocks a STATUS store spends in MEM is cleared by
  the second.
* A fetch on the edge on which port B writes the word gets the old word on the
  board (`dp_ram.v:126`, mixed ports OLD_DATA) and the new one in simulation:
  `dp_ram_model.sv:57-59` registers the address only and calls that OLD_DATA.
  It matters to a program that jumps to a word in the clock after it stores it;
  `FetchFresh` names the case.
* A VGA read takes two edges of `clk50` after its address and select, and
  `dmem_rvalid` waits a clock only when the address changes: a load of VGA_STATUS
  right behind an instruction whose result is the same address completes in one
  clock, with `rdata` as it was (0: no swap pending) or as it becomes.
* KEY[1] releases the core while the debugger holds it halted and uses port B
  (`riscv_top.sv:453` against the comment at 315-317).  `LoadFresh`, `FetchFresh` and
  `StoreLands` are stated for clocks in which it is released.
* READ_MMIO steers `uart_sel` and `timer_sel` while a store may be parked in MEM
  (`riscv_top.sv:173`); the register it reads may be written with that store's
  data although `debug_uart.sv:47` calls it read-only.
* A store to the UART, timer or VGA parked by a halt repeats for as long as the
  halt lasts, as in `bus_parked`; a UART byte is sent again after each frame.
* `bram_sel` decodes 64 KB for a memory of 16 KB (`riscv_top.sv:175`, whose
  comment says 0x3FFF).
* STEP clears `halt` for one clock, not for one instruction.
* With two bytes of an upload missed, the bootloader may take a whole upload for
  an empty one and acknowledge it, and `uart_loader.py:130` reports a program as
  loaded.  The checksum cannot tell; `OkMeansLoaded` is stated for uploads
  that arrived whole.
* A second 0xAA (a reset, or a loader paused beyond RX_TIMEOUT) is read as the
  response (`uart_loader.py:123`): a failure is reported of an upload that may
  still run.
* The bootloader checks no upper limit of the size; an upload above 12 KB goes
  round the 16 KB memory and overwrites the bootloader.
* `poll_loop` catches `IOError` only (`server.py:255`); a port another client
  closes in the middle of its read makes pyserial raise a `TypeError`, the
  thread ends, and `webdbg/README.md:70-71` ("update live") no longer holds
  (`Crash`).
* Two clients' `conn_status` broadcasts may come in the other order than their
  changes (`server.py:297,305`).

### Bounds

* `core`, `core_live`: words of 8 bits, the fewest that contain
  every `mstatus` bit the core uses (`mstatus` 3 and 7, `mie` 7); three
  registers, so that an instruction can read and write the same and two
  different ones beside x0; two memory lines, so that accesses can hit and
  miss each other; a byte lane of two bits. Three-instruction programs: all over
  a pool of twelve (loads, stores, jumps, arithmetic), and those over one of
  fifteen (CSR accesses and traps, with writes to `mepc`, `mcause` and `mstatus`)
  that keep such a write apart from a trap (`Apart`: not right before it, and
  `mstatus` not two before; the others do not have the single-cycle core's end
  state). Three is the number of instructions between ID and WB,
  so every pair and triple of hazards at each distance occurs; a fourth is in
  the pipeline from the tail every program ends in (`jal x0, 0`). `core` has
  two register contents, so branches go both ways. The traps' handler is that
  of `test_trap.asm`. `core_live` takes smaller pools, aimed at the interrupt.
* `core_live`: the timer at address 64, with periods of 1, 3 and 10 clocks: one
  that ticks in every clock, one shorter than a handler, so that ticks meet the
  acknowledgement at every distance, and one longer. Handlers that return right
  behind the acknowledgement, a load later, and after stopping the timer, as
  `test_timer_irq.asm`'s. One reset in mid-run; a second one starts from states
  the first has reached. Only the programs whose handler acknowledges the tick
  enable its interrupt (`LiveSpec`). What they interrupt is a self-loop with one
  of seven instructions before it, or with the `csrrsi` behind the start of the
  timer that enables the interrupt, as in `test_timer_irq.asm` (such a program
  disables it first: the CSRs survive a reset in mid-run); halts and waits shift it against the timer,
  so the interrupt meets it in every stage. `FetchOrder` and `OperandsFresh` are
  proved for an interrupt at any level in any clock.
* `uart`: seven and eight clocks per bit (the board's 217 is odd, and half a bit
  is rounded), bytes of three bits. A tolerance of half a bit less one clock is
  the most there is: one clock more and a bit is sampled before it begins. With
  this tolerance five clocks a bit leave the receiver's latency no room in the
  second stop bit, six do: `LinkAssumption`, under which the channel is proved.
* `debug_uart`: words of one byte, one register (a READ_ALL of two words), a
  timeout of one clock, a frame of two.  The bytes are the commands (without
  READ_PC and READ_MEM, which share their actions with READ_ALL and
  WRITE_MEM), and each is an argument as well.  The control depends on the
  lengths only through "last byte" and "last word", which occur at every index
  the bounds allow; `debug_link` has the real widths of words (4 bytes) and CSR
  numbers (2), and the proofs cover all sizes.
* `debug_link`: one clock per bit, where the board has 217.  Fewer
  clocks between bytes is the harder case for the interpreter: it has
  the less time to come back to a state that takes the next byte.  The timeout
  is 20 bit periods as in the code; gaps are a frame and the longest the
  timeout is meant to tolerate, a pause is longer than it (the theorems are
  about every gap between these, and about shorter ones). A byte has twelve
  values: the ten command codes, zero and one that is neither; an address of
  four such bytes carries and overflows as one of four real ones. Two registers
  make a READ_ALL of three words, `Depth` four words a `.mif`. The eleven
  sessions (`MCDebugLink`) use every command of every front end between them,
  some of them with bytes to lose (`lose`, at most two: one puts every later
  byte in a wrong place, the second may put it right again), files of all kinds
  (incomplete last word, trailing zeros, a `.mif` out of order with a gap and a
  repetition, a missing file), addresses that carry and one that does not fit,
  and commands for a halted core sent to a running one.
* `bus`: two words, two data values, a frame of three clocks (a store is in MEM
  for two).  An address register can then be right or wrong, and a word can be
  old or new.
* `vga`: a screen of 2 by 4 counts with two visible rows, `CLK_DIV` 2 as in the
  top level.  An access is in MEM for two core clocks, the
  time `dmem_rvalid` takes after a change of address, and gaps are one to three
  clocks, so that a SWAP store can be applied while it is still on the bus and
  be met by a reset.  A frame is 16 edges and the period of the draw loop is no
  multiple of it, so every alignment of the two is reached.
* `boot`: bytes of four bits, words of two, two files.  Both need padding; the
  longer one has, behind its first chunk, the size and data of a shorter upload
  with the same checksum, so that a restart in the middle meets an upload inside
  the upload.  One missed byte puts every later one in a wrong place.  The
  driver holds two replies: one to be skipped
  and one to be read.
* `web`: two clients (a third would only be another one in the way; the theorems
  are about any number), two handles in use at a time (the old and the new one),
  a flash of one word (a HALT, a WRITE_MEM and perhaps a RESUME), and commands
  of up to two writes.

No run cuts behaviours with a state constraint.  Numbers wrap as in the
hardware (words of the core, frame numbers, beam counts) or stop at their limit
(the timeout counter, which the code compares with `>=`).

### Fairness

* `core_live`: whenever the pipeline waits for data, or for a fetch, the answer
  eventually comes in a clock in which the core is neither halted nor reset
  (`DataAnswered`, `FetchAnswered`).  Resets end (`MaxResets`).  `riscv_top.sv:208,225` answers one clock
  after the address stops changing, and the core holds the address; a halt that
  lasts for ever is the debugger's choice and not the pipeline's to break.
* `uart`: the clock runs, with rst released often enough for a step.
* `debug_uart`: infinitely many clocks bring no byte.  A byte takes at least
  eleven bit periods on the line, so most clocks do.  `debug_link`: the clock
  and the host run.
* `boot`: the receiver and the bootloader run.  Nobody is obliged to upload, and
  a loader may stop at any point.
* `web`: a thread that can run does. Every serial read ends (it has a
  timeout), and so does every send: the browser reads or its connection fails
  (one that stays open and never reads would keep `clients_lock` held). A lock
  that is released time and again is got in the end (strong fairness): whoever
  holds one does bounded work, and the poll thread sleeps 100 ms between its
  turns.
* `vga`: the clock runs.  Nothing is assumed of the program but that it runs; a poll may
  also end because a reset starts the program again.

## Theorems

All are proved for every value of the constants under the named `ASSUME`s
(`Isa`, `RiscvCore`, `RiscvTimer`, `DebugUart`, `DebugPort`, `DebugLink`, `SocBus`,
`VgaFramebuffer`, `UartLink`, `WebDebugger`, `Bootloader`, `BootLink`): the sets
are what their names say, addresses line up with words, a file that is uploaded
fits in the memory and the memory in the byte counter, the bitwise CSR operations set no bit of MIE that
neither operand has (`MaskAssumption`), a core access to the VGA takes more than
one clock, and for the core `StoreAssumption`, that storing the same value twice
is storing it once.

**Core** (`RiscvCoreProofs`).  `TypeCorrect`, `FetchInOrder`,
`InterlockCorrect`, `VectorCorrect` are invariants of the runs `core` and
`core_live`, proved of `Spec`, interrupts and resets included.  `FetchOrder` is inductive given types.
`OperandsFresh` needs `FetchOrder` (what is in ID/EX came from IF/ID with
its operands read then), and the step is a case per branch: the instruction that
enters EX is one `id_stall` let pass, so no older writer of its operands is in
EX, MEM or WB.  `VectorFresh` follows in the same way from `priv_hazard`.
`TrapsDrained`: that no CSR write to a register a trap or MRET writes is in
flight ahead of it (`TrapDrained`) is no invariant of every program, but it is one of
every program text with `TrapsApart`: an instruction in front of a trap is no
CSR access to what the trap writes, and the one before that none to `mstatus`.
That instructions in EX, MEM and WB are neighbours in the text, or that a
redirect's bubbles are between them, is `FetchOrder` and, beyond its reach,
`Before`.  `TrapsStand`: what an ECALL or EBREAK saves stands (`TrapStands`) in
every program that has no such access right in front of one (`SavedApart`), with
interrupts and resets.  This asks less of the program than the refinement: a write
two in front commits in WB at the edge of the trap, whose own writes win.
The disagreement in *Runs* is a program that breaks it.

**Refinement** (`RiscvCoreProofs`). `PipelineImplementsSingleCycle`:
if the machine has no interrupts and no access to `mip` (`Comparable`; the
single-cycle core has neither), then `NoResetSpec /\ []TrapDrained =>
ImplementsSingleCycle`. The hypothesis `TrapDrained` says that when a trap or
MRET is in EX no CSR write to a register the trap writes is in flight ahead of
it. Nothing in the core enforces it (see *Runs*), software must.
`ApartImplementsSingleCycle` puts the condition on the program's text in its place:
`Comparable /\ TrapsApart => (NoResetSpec => ImplementsSingleCycle)`; the programs of
run `core` meet it. The inductive invariant is `IInv`: the four
invariants above, and that no in-flight instruction accesses `mip`. The
argument is one lemma per kind of edge: a hold (halt, data wait, interlock, or
a bubble in EX) leaves the mapped state alone, because commits of MEM and WB
only move between its two layers; an edge on which an instruction leaves EX is
one step of the single-cycle core, because its operands are those of the
mapped state (`OperandsFresh`) and its pc is the mapped pc (`FetchOrder`).

**Timer** (`RiscvTimerProofs`).  `TimerRunsCore`: a clock of the core with its
timer is a clock of the core with some interrupt line, so all the above holds of
it too.  `NoTickLost`, for any program: a tick whose interrupt is still to come
is pending, because an underflow wins over an acknowledgement in the same clock
and the pipeline takes no interrupt for a tick that is not.  `MaskedNotNested`:
while the instruction that commits its CSR write inside a handler never sets MIE
(`HandlerKeepsMask`), MIE is clear from trap to MRET (`Masked`) and `NotNested`
holds.  It needs `[]HandlerKeepsMask` of the behaviour because a write from before the
interrupt may commit in the handler (see *Runs*).  `NeverNested` puts conditions
on the program in its place, and admits programs that enable interrupts with
`csrrs`, as `test_timer_irq.asm` does.  Its text (`EnablesApart`): no ECALL or EBREAK
right behind an instruction that may set MIE, and no other access to `mstatus` one or
two before it.  Its execution (`EnablesWhileOff`): when such an instruction is in EX,
MIE is clear with all older instructions counted, and no handler is running.  Neither
mentions an interrupt meeting it.  The invariant (`EnableInv`): while it is in MEM,
MIE is clear in the register, so no interrupt is taken against the instruction
behind it; and when it commits, the core is in no handler and enters none at that edge.
`test_timer_irq.asm`, run once after power-up, satisfies both; a program that may be
reset in mid-run must disable interrupts first, as CSRs survive a reset.
`OneInterruptPerTick`: if in addition only
handlers acknowledge (`AcksInHandler`), and an MRET is not in EX before the
acknowledgement is in MEM (`AcksBeforeMret`), every tick is taken once and none
is lost; the invariant (`ServedInv`) is that while a tick was taken and not yet
acknowledged the core is in its handler.  All three conditions of
`HandlerServes`, and `EnablesWhileOff`, are invariants of the behaviours of run
`core_live`, and `EnablesApart` holds of its programs.

**Serial line** (`UartLinkProofs`).  `LinkDelivers`: `Spec => Channel!Safe`,
`ByteChannel` without its fairness, for bytes of any width, two stop bits or
more, every rate from six clocks a bit and every skew up to the middle of a bit,
with either sender and with resets anywhere.  The senders are reduced to one
clock of the frame on the line (`Time`) and one fact: in clock u the line shows
a bit whose edges are within the skew of u (`Carries`), so in its middle it
shows that bit (`MiddleIsBit`), and from the second half of the first stop bit
on it is 1 (`LateIsOne`).  The receiver counts as well (`Spent`); the inductive
invariant is that while a line is up the two counts differ by the four clocks of
the synchroniser and IDLE, and what has been shifted in is what was sent
(`Following`).  It takes bit i in the clock `MiddleIsBit` is about, and its byte is
received in clock `ReceivedAt`, before the earliest end of the second stop bit
(`QuietLine`).  While the line is down nothing is known of the receiver but that
it has spent no less time than the line has been idle (`DownInv`), so within a
frame's time it is in IDLE (`QuietLongEnough`).

**VGA** (`VgaFramebufferProofs`). `TypeCorrect`, `NoTearing`, `LastFrameShown`,
for any raster, divider of the pixel clock, access time of two clocks or more,
gaps of the program and alignment of its clock with the beam, and with resets on
any edge. A screen is whole because every register on the way from memory to
the pins holds the frame of the buffer that is shown, once that buffer has had a
frame finished in it (`ScanInv`): the program draws only into the other one, and
a flip waits for the start of a frame, when no visible row is in those
registers. That the other one is finished at a flip is `BufferInv`, and for the
second half of `LastFrameInv` the poll has to be followed edge by edge
(`PollInv`): a STATUS that reads clear was sampled when no swap was pending. The
store of SWAP is on the bus for several edges, so what holds during it depends
on whether its request has been applied already (`applied`), and what holds
after it on whether it was then made again (`repeated`).

**Debugger** (`DebugLinkProofs`). Of `DebugUart` alone, with any byte or none in
any clock: `TypeCorrect`, `MemoryAccessIsHalted`,
`RepliesEnd`: the inductive invariant is `TypeOK`, `ReplyEndsAtPc` and
`HaltHeld`, that every state between a halted-only command and the end of its
access has `halt` set. It holds because `halt` is tested on entry and changed
only in CMD_IDLE and by STEP, which are not among these states.
`PortImplemented`: every step is one of `DebugPort`'s or a stutter of it,
again from `HaltHeld`.

Of the sessions of `DebugLink`: `FreshHaltProved`, `FreshAnswersProved`,
`LogFollowsScriptProved`, `AnswersMatchProved`, for every list of sessions, every
spacing the code tolerates, every timeout, pause, word size, register count and
moment in which the host samples a reply byte. The assumptions on a line say
what that is: a byte comes at least three clocks after the one before it (a STEP
takes two), later than the rest of a reply's last frame takes, and no later than
`TIMEOUT_BIT_PERIODS` allows; a pause is longer than that. A frame of eleven bits
is far longer than three clocks. And every command of a front end makes at least
one call, which either is rejected or is a command code with as many argument
bytes as it takes (`WellFormed`).

`SafeInv` is inductive whatever the line loses. It says where the host is in its
script (`Placed`), that UART_TX is busy only with a byte of a reply (`TxInv`),
and how long the line may have been silent in each state of the debugger
(`IdleBound`): in the states that wait for an argument no longer than the
timeout counter shows, in those of a reply at most three clocks. So after a
pause the debugger is in CMD_IDLE and silent (`PausedIdle`), which is what a
fresh HALT needs (`Halted`) and where a fresh command begins in step
(`FreshInStep`). `TrackInv` adds what a faultless session is at (`OnTrack`).
Between two calls (`Between`) the driver holds nothing, what was told is what the
calls so far promise, what was done is that up to the STEP or the write
still to be carried out (`Pending`), and the debugger will be in CMD_IDLE before
the next byte (`Ready`). Within a call (`During`) the debugger has the bytes
that were sent of it (`Receiving`), or is answering (`Answering`): the word it
sends is the one the host waits for, and what the driver holds are the
bytes of that word that have been sent; or the core runs and the debugger
takes no notice (`Ignoring`). `AnswerClock` is its heart: one clock of a reply,
in each state of a frame, for a word in the middle of the reply and for its last.
`OnTrackPrefix` ends it: what is promised after a call is a beginning of what
the session promises in the end (`PromisedIs`, from the recursive functions
`AfterCallsDef` and `AfterCommandsDef`).

**Bus** (`SocBusProofs`). `TypeCorrect`, `LoadsAreFresh`, `FetchesAreFresh`,
`DebugReadsAreFresh`, `StoresLand`, `StoresSendOnce`. The inductive invariant:
the debugger keeps `halt` for the whole of an access (`HeldByPort`); while the
core is not halted and its address is that of the clock before, the memory's
register holds it (`Registered`); in MEM_READ_LATCH it holds the debugger's
(`ReadRegistered`). A load completes under `Registered`; a fetch under
`Answered`: port A's answer is what memory holds at its address unless port B
wrote the word on the same edge, and then a store of the core did or the
debugger still holds the core. A store completes only when `halt` is clear, so
the debugger is not using port B. For the UART (`FrameLasts`): an access that
was never halted and has started a frame started it in the clock before, so
UART_TX is still busy, for any frame of at least one clock, and the access
completes with the address of the clock before.

**Bootloader** (`BootLinkProofs`). `Typed`, `OkProved`, `RejectsProved`, for
every set of files that fit, every size of a byte, a word, a chunk and the
memory, every operation on bytes in the place of XOR, and any number of bytes
missed. The data comes first: what the recursive functions of the model are
(`RunningDef`, `WeightDef`, `OfLastDef`), that the size comes out of the shifts
of `GetSize` as it went into `struct.pack` (`ValueOfSize`), that a padded file
is whole words (`PadTyped`), and that the loader's writes, one after another,
are the size, the file and the checksum (`WriteAt`: each carries on where the
one before it ended). The inductive invariant (`IInv`) says of an upload no
byte of which was missed that either the bootloader is exactly where the bytes
that are off the line bring it (`BootAt`: the bytes of the word so far, the
address, the counter, the checksum, the words in memory) and the line holds what
follows them; or it started again in the midst, and the first reply the loader
will read is the 0xAA it sends then; or the first reply is the OK and the
program is in memory (`Clean`). `ReceiveFollows` is its heart: the next byte of
the upload takes the bootloader to the next place. It needs that nothing else is
under way when the loader reads 0xAA: the line is empty, and a bootloader that
has sent it waits for the first byte of a size (`ReadyInv`). That the address
stays in the memory although nothing checks it is a count: between two starts
come no more bytes than those of one upload (`Count`), also if bytes are missed
and the rest of an upload is read as the start of another.

**Web debugger** (`WebDebuggerProofs`).  `TypeCorrect`, `FlashesAreWhole`,
`NoPortLost`, for any number of browsers, handles and words.  A flash is whole
because a thread that writes holds `dbg_lock` (`Exclusive`), and the types of
the counters follow from `FlashIsWhole` itself.  For the ports: a thread between
opening a port, or taking the current one out, and closing it has its handle for
itself (`Owned`), and a thread that is neither there nor in a command has none
(`Empty`), or a disconnect would install it.

Model-checked only: everything about liveness (`Converges`, `IrqReached`,
`NeverWedged`, `Delivered`, `SwapDone`, `NeverHangs`, `Answered`, the fairness
of `ByteChannel` in `ImplementsChannel`), as neither fairness nor `ENABLED` is
within the prover's reach; and `ImageLoaded`, which is about the sessions of its
run: the words of a file come from folds of the community modules (recursive
operators, which the provers do not see through), and a session that writes to a
program it has loaded would change it.  That each front end's calls are well-formed
is an assumption of the theorems that TLC evaluates for every command of the
run.  Recursive functions are
within reach, although the library states induction for an operator, which the
provers cannot be given: `NatInduct` in `BootLinkProofs` and `DebugLinkProofs`
states it for a set, from the fact that every set of numbers has a least one.

## Not modelled, and why

UART parity, which is never instantiated, and TXdone, which nothing reads, are left out. The
program is constant in `RiscvCore`, whose `imem_vld` is an input: what port A
answers is in `SocBus`, with any pc. Left out of the VGA:
single-buffer drawing, reading back pixels, a SWAP store that completes in one
clock, halts. Left out of the web debugger: `core_running`, which nothing
reads, and the contents of messages. Left out of the tools: the wording and
layout of what they print, the parsing of their command lines, and `--dry-run`,
which has no board. Left out for good: instruction encodings and ALU arithmetic (data
without control, covered by the tests), `hex_display.sv`, `vga.sv` and
`vga_spi.sv` (not instantiated), build scripts, libc stubs, the browser page,
testbenches, `crit_path_estimate.py` (a report on the RTL's text).

## Plan

In the order of what would cost most if wrong:

1. `RiscvCore` with `SocBus`'s answers in place of arbitrary ones.
2. The VGA with single-buffer drawing and read-back.
3. The order of the web server's `conn_status` broadcasts.

Proofs to come: that every command of `DebugTools` makes well-formed calls, and
that the words of a file are written where `ImageLoaded` finds them, with
recursive functions in the place of the folds of `ProgramImage`.
