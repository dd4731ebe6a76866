------------------------------ MODULE DebugPort ------------------------------
(***************************************************************************)
(* What the debugger promises the rest of the board (riscv_top.sv relies   *)
(* on it, DebugUart implements it): it holds the core halted or lets it    *)
(* run, and only while it holds the core it takes port B of the memory or  *)
(* the peripheral decoder, for one clock to write and for two to read.     *)
(* One step is one clock.                                                  *)
(***************************************************************************)
CONSTANTS Addr, Data, NoAddr, NoData

VARIABLES
  halt,    \* the debugger's halt output
  phase,   \* "NONE", or the access in progress
  addr,    \* dbg_mem_addr or dbg_mmio_addr, while an access is in progress
  wdata    \* dbg_mem_wdata, while writing

portVars == <<halt, phase, addr, wdata>>

Writing  == phase = "MEM_WRITE_PULSE"
UsesMem  == phase \in {"MEM_WRITE_PULSE", "MEM_READ_WAIT", "MEM_READ_LATCH"}
UsesMmio == phase \in {"MMIO_READ_WAIT", "MMIO_READ_LATCH"}
Latching == phase \in {"MEM_READ_LATCH", "MMIO_READ_LATCH"}

Idle == phase = "NONE"

PortInit == halt = TRUE /\ phase = "NONE" /\ addr = NoAddr /\ wdata = NoData

\* HALT, RESUME and the two halves of STEP; also every clock without effect.
SetHalt == Idle /\ halt' \in BOOLEAN /\ UNCHANGED <<phase, addr, wdata>>

\* Mutant: an access may start while the core runs.
StartsRunning == Idle
MayStart      == Idle /\ halt

StartWrite ==
  /\ MayStart
  /\ phase' = "MEM_WRITE_PULSE" /\ addr' \in Addr /\ wdata' \in Data
  /\ UNCHANGED halt

StartRead ==
  /\ MayStart
  /\ phase' \in {"MEM_READ_WAIT", "MMIO_READ_WAIT"} /\ addr' \in Addr
  /\ UNCHANGED <<halt, wdata>>

Wait ==
  /\ \/ phase = "MEM_READ_WAIT"  /\ phase' = "MEM_READ_LATCH"
     \/ phase = "MMIO_READ_WAIT" /\ phase' = "MMIO_READ_LATCH"
  /\ UNCHANGED <<halt, addr, wdata>>

Finish ==
  /\ Writing \/ Latching
  /\ phase' = "NONE" /\ addr' = NoAddr /\ wdata' = NoData
  /\ UNCHANGED halt

PortReset == halt' = TRUE /\ phase' = "NONE" /\ addr' = NoAddr /\ wdata' = NoData

PortClock == SetHalt \/ StartWrite \/ StartRead \/ Wait \/ Finish

PortSpec == PortInit /\ [][PortClock \/ PortReset]_portVars
=============================================================================
