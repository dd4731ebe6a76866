-------------------------------- MODULE Uart --------------------------------
(***************************************************************************)
(* uart.sv without parity, as the board instantiates it: UART_RX and       *)
(* UART_TX, one step per clock of each.  rx.done is RXdone (dataDone) and  *)
(* rx.out is RXout.  TXdone is left out, nothing on the board reads it.    *)
(***************************************************************************)
EXTENDS Integers, Sequences

CONSTANTS
  DataWidth,   \* bits of a byte
  StopBits

VARIABLES clk_per_bit, rx, tx

-----------------------------------------------------------------------------
\* UART_RX.
Zeros == [i \in 0 .. DataWidth - 1 |-> 0]

\* After power-up, with the line idle.
RxInit == rx = [regInMeta |-> 1, regIn |-> 1, state |-> "IDLE", clkCount |-> 0,
                index |-> 0, dataOut |-> Zeros, done |-> FALSE, out |-> Zeros]

\* The synchroniser samples the line in every clock, rst or not.
Sampled(line) == [rx EXCEPT !.regInMeta = line, !.regIn = rx.regInMeta]

RxReset(line) ==
  rx' = [Sampled(line) EXCEPT !.state = "IDLE", !.index = 0, !.clkCount = 0,
                              !.dataOut = Zeros, !.done = FALSE]

RxIdle(line) ==
  /\ rx.state = "IDLE"
  /\ rx' = [Sampled(line) EXCEPT
              !.state = IF rx.regIn = 0 THEN "START" ELSE "IDLE",
              !.clkCount = 0, !.index = 0, !.dataOut = Zeros, !.done = FALSE]

\* Mutant: a bit is sampled where it begins.
HalfBitIsNone == 0

\* Half a bit, rounded down.
HalfBit == (clk_per_bit - 1) \div 2

RxStart(line) ==
  /\ rx.state = "START"
  /\ rx' = IF rx.clkCount = HalfBit
           THEN [Sampled(line) EXCEPT !.clkCount = 0, !.state = "RECEIVE"]
           ELSE [Sampled(line) EXCEPT !.clkCount = @ + 1]

RxReceive(line) ==
  /\ rx.state = "RECEIVE"
  /\ rx' = CASE rx.clkCount < clk_per_bit - 1 -> [Sampled(line) EXCEPT !.clkCount = @ + 1]
             [] rx.clkCount >= clk_per_bit - 1 /\ rx.index < DataWidth ->
                  [Sampled(line) EXCEPT !.clkCount = 0, !.index = @ + 1,
                                        !.dataOut[rx.index] = rx.regIn]
             [] OTHER -> [Sampled(line) EXCEPT !.clkCount = 0, !.state = "DONE"]

\* Mutant: waits a whole bit after the middle of the stop bit.
FinishesWholeBit == rx.state = "DONE" /\ rx.clkCount = clk_per_bit - 1

Finishes == rx.state = "DONE" /\ rx.clkCount = HalfBit

RxDone(line) ==
  /\ rx.state = "DONE"
  /\ rx' = IF Finishes
           THEN [Sampled(line) EXCEPT !.clkCount = 0, !.state = "IDLE", !.done = TRUE,
                                      !.index = 0, !.out = rx.dataOut]
           ELSE [Sampled(line) EXCEPT !.clkCount = @ + 1]

RxClock(line) == RxIdle(line) \/ RxStart(line) \/ RxReceive(line) \/ RxDone(line)

-----------------------------------------------------------------------------
\* UART_TX.

\* Start bit, data from bit 0 upwards, stop bits.
Packet(b) == <<0>> \o [i \in 1 .. DataWidth |-> b[i - 1]] \o [i \in 1 .. StopBits |-> 1]

TxReady == [out |-> 1, state |-> "IDLE", busy |-> FALSE, index |-> 0, clkCount |-> 0,
            packet |-> <<>>]

TxInit == tx = TxReady

\* packet is not reset, and is not read before the next byte is accepted.
TxReset == tx' = TxReady

Accepts(TXen) == tx.state = "IDLE" /\ TXen

TxIdle(TXen, dataIn) ==
  /\ tx.state = "IDLE"
  /\ tx' = IF TXen THEN [TxReady EXCEPT !.state = "TRANSMIT", !.busy = TRUE,
                                        !.packet = Packet(dataIn)]
           ELSE TxReady

TxTransmit ==
  /\ tx.state = "TRANSMIT"
  /\ LET driven == [tx EXCEPT !.out = tx.packet[tx.index + 1]] IN
     tx' = CASE tx.clkCount < clk_per_bit - 1 -> [driven EXCEPT !.clkCount = @ + 1]
             [] tx.clkCount >= clk_per_bit - 1 /\ tx.index < Len(tx.packet) - 1 ->
                  [driven EXCEPT !.clkCount = 0, !.index = @ + 1]
             [] OTHER -> [driven EXCEPT !.clkCount = 0, !.state = "DONE"]

TxDone ==
  /\ tx.state = "DONE"
  /\ tx' = [tx EXCEPT !.state = "IDLE", !.busy = FALSE, !.index = 0, !.clkCount = 0]

TxClock(TXen, dataIn) == TxIdle(TXen, dataIn) \/ TxTransmit \/ TxDone
=============================================================================
