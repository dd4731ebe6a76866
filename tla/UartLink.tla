------------------------------ MODULE UartLink ------------------------------
(***************************************************************************)
(* A serial line into UART_RX.  At its other end is either UART_TX on the  *)
(* same clock (wire = "loop", as tb_uart.sv wires it, and as one board to  *)
(* another) or a host (wire = "host") whose clock is its own: each edge of *)
(* its frame may come up to Skew clocks early or late, which stands for    *)
(* its baud rate, its jitter and the first synchroniser stage catching an  *)
(* edge or not.  Either may send a frame right behind the last.            *)
(*                                                                         *)
(* rst clears the receiver, in mid-frame when the host is sending; the     *)
(* line is up again when it has been idle for the time of a frame.         *)
(***************************************************************************)
EXTENDS Uart

CONSTANTS
  Rates,        \* values of clk_per_bit
  Skew(_),      \* clocks a host's edge may be off at a value of clk_per_bit
  None

VARIABLES
  wire,         \* who sends
  host,         \* the host's frame (<<>> when idle), its bit k, its clock t
  synced,       \* history: the line is up
  idle,         \* history: clocks nobody has been sending, until the line is up
  pending       \* history: the byte put on a line that is up, not yet received

linkVars == <<clk_per_bit, rx, tx, wire, host, synced, idle, pending>>

Bytes == [0 .. DataWidth - 1 -> {0, 1}]

HostIdle == [frame |-> <<>>, k |-> 0, t |-> 0]

Line == CASE wire = "loop" -> tx.out
          [] wire = "host" /\ host = HostIdle -> 1
          [] OTHER -> host.frame[host.k]

\* Two stop bits, as the board has them, and bits long enough that the receiver is
\* ready again before the earliest frame that may follow.  An edge off by half a
\* bit would be sampled on the wrong side.
ASSUME LinkAssumption ==
  /\ DataWidth \in Nat \ {0} /\ StopBits \in Nat /\ StopBits >= 2
  /\ Rates \subseteq Nat
  /\ \A r \in Rates : r >= 6 /\ Skew(r) \in 0 .. r \div 2 - 1
  /\ None \notin Bytes

FrameClocks == (1 + DataWidth + StopBits) * clk_per_bit

-----------------------------------------------------------------------------
\* The host.
HostStarts(b) == host' = [frame |-> Packet(b), k |-> 1, t |-> 1]

\* The bit may end, or must have ended, after t clocks of the frame.
BitMayEnd  == host.t >= host.k * clk_per_bit - Skew(clk_per_bit)
BitMustEnd == host.t >= host.k * clk_per_bit + Skew(clk_per_bit)

HostHolds ==
  \/ host = HostIdle /\ UNCHANGED host
  \/ host # HostIdle /\ ~BitMustEnd /\ host' = [host EXCEPT !.t = @ + 1]

HostNextBit ==
  /\ host # HostIdle /\ BitMayEnd /\ host.k < Len(host.frame)
  /\ host' = [host EXCEPT !.k = @ + 1, !.t = @ + 1]

FrameOver == host = HostIdle \/ (host.k = Len(host.frame) /\ BitMayEnd)

HostEnds == host # HostIdle /\ FrameOver /\ host' = HostIdle

HostGoesOn == HostHolds \/ HostNextBit \/ HostEnds

HostBegins(b) == FrameOver /\ HostStarts(b)

-----------------------------------------------------------------------------
Sending == host # HostIdle \/ tx.busy

\* What the line carries.  sent is the byte whose frame begins, or None.
Watch(sent) ==
  /\ idle' = IF synced \/ Sending \/ sent # None THEN 0 ELSE idle + 1
  /\ synced' = (synced \/ (idle = FrameClocks /\ sent = None))
  /\ pending' = CASE synced /\ sent # None -> sent
                  [] synced /\ sent = None /\ Finishes -> None
                  [] OTHER -> pending

HostClock ==
  /\ wire = "host"
  /\ UNCHANGED tx
  /\ \/ HostGoesOn /\ Watch(None)
     \/ \E b \in Bytes : HostBegins(b) /\ Watch(b)

LoopClock ==
  /\ wire = "loop"
  /\ UNCHANGED host
  /\ \E TXen \in BOOLEAN, b \in Bytes :
       TxClock(TXen, b) /\ Watch(IF Accepts(TXen) THEN b ELSE None)

Clock ==
  /\ RxClock(Line)
  /\ HostClock \/ LoopClock
  /\ UNCHANGED <<clk_per_bit, wire>>

Reset ==
  /\ RxReset(Line) /\ TxReset
  /\ \/ wire = "loop" /\ UNCHANGED host
     \/ wire = "host" /\ (HostGoesOn \/ \E b \in Bytes : HostBegins(b))
  /\ synced' = FALSE /\ idle' = 0 /\ pending' = None
  /\ UNCHANGED <<clk_per_bit, wire>>

Init ==
  /\ clk_per_bit \in Rates /\ wire \in {"host", "loop"}
  /\ RxInit /\ TxInit
  /\ host = HostIdle
  /\ synced = TRUE /\ idle = 0 /\ pending = None

Next == Clock \/ Reset

Spec == Init /\ [][Next]_linkVars /\ WF_linkVars(Clock)

-----------------------------------------------------------------------------
Channel == INSTANCE ByteChannel
             WITH up <- synced, inflight <- pending, got <- rx.out, strobe <- rx.done

\* docs/dev_log.md:35-43 and 54-63: bytes sent back-to-back arrive, all of them
\* and unchanged, at any rate and with the host's clock off by as much as the
\* middle of a bit allows; after a reset in mid-frame they do again once the
\* line has been idle for a frame.
ImplementsChannel == Channel!Spec
=============================================================================
