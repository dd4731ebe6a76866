--------------------------- MODULE UartLinkProofs ---------------------------
(***************************************************************************)
(* For bytes of any width, any number of stop bits from two, every rate    *)
(* and every skew of the host's clock up to the middle of a bit: what is   *)
(* put on a line that is up is received, once and unchanged, and no frame  *)
(* begins before the last one is received.                                 *)
(***************************************************************************)
EXTENDS UartLink, SequenceTheorems, TLAPS

Bits == 1 + DataWidth + StopBits

\* The frame on the line and its clock, whoever sends it.
Frame == IF wire = "host" THEN host.frame ELSE tx.packet

Time == CASE wire = "host" -> host.t
          [] wire = "loop" /\ tx.state = "DONE" -> Bits * clk_per_bit
          [] OTHER -> tx.index * clk_per_bit + tx.clkCount

\* v is what a line that carries f may show in clock u of it: bit k, with its
\* edges off by no more than the skew, and 1 before its start bit.
Carries(f, u, v) ==
  IF u <= 0 THEN v = 1
  ELSE \E k \in 1 .. Bits :
         /\ v = f[k]
         /\ (k - 1) * clk_per_bit - Skew(clk_per_bit) < u
         /\ u <= k * clk_per_bit + Skew(clk_per_bit)

-----------------------------------------------------------------------------
(* The inductive invariant.                                                *)

RxRecord == [regInMeta : {0, 1}, regIn : {0, 1},
             state : {"IDLE", "START", "RECEIVE", "DONE"}, clkCount : Nat,
             index : 0 .. DataWidth, dataOut : Bytes, done : BOOLEAN, out : Bytes]

RxTypeOK ==
  /\ rx \in RxRecord
  /\ rx.state = "START" => rx.index = 0
  /\ rx.state \in {"START", "DONE"} => rx.clkCount <= HalfBit
  /\ rx.state = "RECEIVE" => rx.clkCount <= clk_per_bit - 1
  /\ rx.done => rx.state = "IDLE"

LinkTypeOK ==
  /\ clk_per_bit \in Rates /\ wire \in {"host", "loop"}
  /\ synced \in BOOLEAN /\ idle \in Nat /\ pending \in Bytes \cup {None}

Frames == {Packet(b) : b \in Bytes}

HostInv ==
  /\ host \in [frame : {<<>>} \cup Frames, k : Nat, t : Nat]
  /\ wire = "loop" => host = HostIdle
  /\ host # HostIdle =>
       /\ host.frame \in Frames /\ host.k \in 1 .. Bits /\ host.t > 0
       /\ (host.k - 1) * clk_per_bit - Skew(clk_per_bit) < host.t
       /\ host.t <= host.k * clk_per_bit + Skew(clk_per_bit)

TxInv ==
  /\ tx \in [out : {0, 1}, state : {"IDLE", "TRANSMIT", "DONE"}, busy : BOOLEAN,
             index : 0 .. Bits - 1, clkCount : 0 .. clk_per_bit - 1,
             packet : {<<>>} \cup Frames]
  /\ wire = "host" => tx = TxReady
  /\ tx.busy <=> tx.state # "IDLE"
  /\ tx.state = "IDLE" => tx.out = 1
  /\ wire = "loop" /\ tx.state # "IDLE" => tx.packet \in Frames /\ Carries(tx.packet, Time, tx.out)

\* Clocks since the receiver saw the start bit.
Spent ==
  CASE rx.state = "START"   -> rx.clkCount
    [] rx.state = "RECEIVE" -> HalfBit + 1 + rx.index * clk_per_bit + rx.clkCount
    [] rx.state = "DONE"    -> HalfBit + 1 + (DataWidth + 1) * clk_per_bit + rx.clkCount
    [] OTHER                -> 0

\* The clock of the frame in which its byte is received.
ReceivedAt == 2 * HalfBit + 5 + (DataWidth + 1) * clk_per_bit

\* The receiver is where clock t of the frame of byte b puts it.
Tracks(b, t) ==
  /\ rx.state = "IDLE" => \/ t <= 3 /\ pending = b
                          \/ t > ReceivedAt /\ pending = None
  /\ rx.state # "IDLE" => t = Spent + 4 /\ pending = b
  /\ rx.state = "RECEIVE" => \A i \in 0 .. rx.index - 1 : rx.dataOut[i] = b[i]
  /\ rx.state = "DONE" => rx.dataOut = b

Following(b) ==
  /\ Frame = Packet(b)
  /\ Carries(Frame, Time - 1, rx.regInMeta)
  /\ Carries(Frame, Time - 2, rx.regIn)
  /\ Tracks(b, Time)

UpInv ==
  synced =>
    /\ Sending => \E b \in Bytes : Following(b)
    /\ ~Sending => /\ rx.state = "IDLE" /\ rx.regInMeta = 1 /\ rx.regIn = 1
                   /\ pending = None

\* While the line is down nothing is known of the receiver, but it runs out of
\* what it takes for a frame before the line has been idle for one.
DownInv ==
  ~synced =>
    /\ pending = None
    /\ idle > 0 => ~Sending /\ rx.regInMeta = 1
    /\ idle > 1 => rx.regIn = 1
    /\ rx.state # "IDLE" => idle <= Spent + 2

IInv == LinkTypeOK /\ RxTypeOK /\ HostInv /\ TxInv /\ UpInv /\ DownInv

-----------------------------------------------------------------------------
(* Arithmetic of the bits of a frame.                                      *)

LEMMA RateFacts ==
  ASSUME clk_per_bit \in Rates
  PROVE  /\ clk_per_bit \in Nat /\ clk_per_bit >= 6
         /\ HalfBit \in Nat /\ Skew(clk_per_bit) \in Nat
         /\ Skew(clk_per_bit) <= HalfBit /\ 2 * HalfBit + 1 <= clk_per_bit
         /\ HalfBit + Skew(clk_per_bit) + 2 <= clk_per_bit
         /\ 2 * Skew(clk_per_bit) + 2 <= clk_per_bit
         /\ 2 * HalfBit + Skew(clk_per_bit) + 5 < 2 * clk_per_bit
<1>1. clk_per_bit \in Nat /\ clk_per_bit >= 6
      /\ Skew(clk_per_bit) \in 0 .. clk_per_bit \div 2 - 1
  BY LinkAssumption
<1> QED BY <1>1 DEF HalfBit

LEMMA WidthFacts ==
  /\ DataWidth \in Nat /\ StopBits \in Nat /\ StopBits >= 2
  /\ Bits \in Nat /\ Bits = DataWidth + 1 + StopBits
BY LinkAssumption DEF Bits

LEMMA Products ==
  ASSUME NEW c \in Nat, NEW i \in Int, NEW j \in Int, i < j
  PROVE  /\ i * c \in Int /\ j * c \in Int /\ (i + 1) * c = i * c + c
         /\ i * c + c <= j * c
<1>1. PICK d \in Nat : j = i + 1 + d
  BY j - i - 1 \in Nat
<1>2. d * c \in Nat
  OBVIOUS
<1>3. (i + 1 + d) * c = i * c + c + d * c
  OBVIOUS
<1> QED BY <1>1, <1>2, <1>3

LEMMA ConcatBits ==
  ASSUME NEW s1 \in Seq({0, 1}), NEW s2 \in Seq({0, 1}), NEW m \in Nat, NEW n \in Nat,
         Len(s1) = m, Len(s2) = n
  PROVE  /\ s1 \o s2 \in Seq({0, 1}) /\ Len(s1 \o s2) = m + n
         /\ \A i \in 1 .. m : (s1 \o s2)[i] = s1[i]
         /\ \A i \in m + 1 .. m + n : (s1 \o s2)[i] = s2[i - m]
<1>1. /\ s1 \o s2 \in Seq({0, 1}) /\ Len(s1 \o s2) = Len(s1) + Len(s2)
      /\ \A i \in 1 .. Len(s1) + Len(s2) : (s1 \o s2)[i] =
           IF i <= Len(s1) THEN s1[i] ELSE s2[i - Len(s1)]
  BY ConcatProperties
<1> QED BY <1>1

LEMMA PacketBits ==
  ASSUME NEW b \in Bytes
  PROVE  /\ Len(Packet(b)) = Bits
         /\ Packet(b) # <<>>
         /\ Packet(b)[1] = 0
         /\ \A i \in 0 .. DataWidth - 1 : Packet(b)[i + 2] = b[i]
         /\ \A k \in DataWidth + 2 .. Bits : Packet(b)[k] = 1
         /\ \A k \in 1 .. Bits : Packet(b)[k] \in {0, 1}
<1> DEFINE data == [i \in 1 .. DataWidth |-> b[i - 1]]
           stop == [i \in 1 .. StopBits |-> 1]
           head == <<0>> \o data
<1>1. \A i \in 0 .. DataWidth - 1 : b[i] \in {0, 1}
  BY DEF Bytes
<1>2. data \in Seq({0, 1}) /\ Len(data) = DataWidth
  BY <1>1, WidthFacts
<1>3. stop \in Seq({0, 1}) /\ Len(stop) = StopBits
  BY WidthFacts
<1>4. <<0>> \in Seq({0, 1}) /\ Len(<<0>>) = 1
  OBVIOUS
<1> HIDE DEF data, stop
<1>5. /\ head \in Seq({0, 1}) /\ Len(head) = 1 + DataWidth
      /\ \A k \in 1 .. 1 : head[k] = <<0>>[k]
      /\ \A k \in 2 .. 1 + DataWidth : head[k] = data[k - 1]
  BY <1>2, <1>4, ConcatBits, WidthFacts
<1> HIDE DEF head
<1>6. /\ head \o stop \in Seq({0, 1}) /\ Len(head \o stop) = 1 + DataWidth + StopBits
      /\ \A k \in 1 .. 1 + DataWidth : (head \o stop)[k] = head[k]
      /\ \A k \in DataWidth + 2 .. Bits : (head \o stop)[k] = stop[k - (1 + DataWidth)]
  BY <1>3, <1>5, ConcatBits, WidthFacts DEF Bits
<1>7. Packet(b) = head \o stop
  BY DEF Packet, head, data, stop
<1>8. head[1] = 0
  BY <1>5
<1>9. ASSUME NEW i \in 0 .. DataWidth - 1 PROVE head[i + 2] = b[i]
  <2>1. /\ i \in Int /\ i + 2 \in 2 .. 1 + DataWidth /\ i + 1 \in 1 .. DataWidth
        /\ (i + 2) - 1 = i + 1 /\ (i + 1) - 1 = i
    BY WidthFacts
  <2>2. head[i + 2] = data[i + 1]
    BY <1>5, <2>1
  <2>3. data[i + 1] = b[i]
    BY <2>1 DEF data
  <2> QED BY <2>2, <2>3
<1>10. \A k \in DataWidth + 2 .. Bits : stop[k - (1 + DataWidth)] = 1
  BY WidthFacts DEF stop
<1> DEFINE packet == head \o stop
<1>11. /\ packet \in Seq({0, 1}) /\ Len(packet) = Bits
       /\ \A k \in 1 .. 1 + DataWidth : packet[k] = head[k]
       /\ \A k \in DataWidth + 2 .. Bits : packet[k] = 1
  <2>1. packet \in Seq({0, 1}) /\ Len(packet) = Bits
    BY <1>6 DEF Bits
  <2>2. \A k \in 1 .. 1 + DataWidth : packet[k] = head[k]
    BY <1>6
  <2>3. ASSUME NEW k \in DataWidth + 2 .. Bits PROVE packet[k] = 1
    <3>1. packet[k] = stop[k - (1 + DataWidth)]
      BY <1>6
    <3>2. stop[k - (1 + DataWidth)] = 1
      BY <1>10
    <3> QED BY <3>1, <3>2
  <2> QED BY <2>1, <2>2, <2>3
<1> HIDE DEF packet
<1>12. \A k \in 1 .. Bits : packet[k] \in {0, 1}
  BY <1>11, WidthFacts
<1>13. packet # <<>>
  <2>1. Len(packet) # 0
    BY <1>11, WidthFacts
  <2> QED BY <2>1, EmptySeq
<1>14. packet[1] = 0
  BY <1>8, <1>11, WidthFacts
<1>15. \A i \in 0 .. DataWidth - 1 : packet[i + 2] = b[i]
  BY <1>9, <1>11, WidthFacts
<1> QED BY <1>7, <1>11, <1>12, <1>13, <1>14, <1>15 DEF packet

\* From half a bit before the middle of the first stop bit, the line is up.
LEMMA LateIsOne ==
  ASSUME clk_per_bit \in Rates, NEW f \in Frames, NEW u \in Int, NEW v,
         u > (DataWidth + 1) * clk_per_bit + Skew(clk_per_bit), Carries(f, u, v)
  PROVE  v = 1
<1> DEFINE c == clk_per_bit
           S == Skew(clk_per_bit)
<1>1. c \in Nat /\ S \in Nat /\ DataWidth \in Nat /\ Bits \in Nat
  BY RateFacts, WidthFacts
<1>2. (DataWidth + 1) * c \in Nat
  BY <1>1
<1>3. PICK k \in 1 .. Bits : v = f[k] /\ u <= k * c + S
  BY <1>1, <1>2 DEF Carries
<1>4. k >= DataWidth + 2
  <2>1. SUFFICES ASSUME k < DataWidth + 2 PROVE FALSE
    BY <1>1
  <2>2. k * c <= (DataWidth + 1) * c
    <3>1. CASE k = DataWidth + 1
      BY <1>1, <3>1
    <3>2. CASE k < DataWidth + 1
      BY <1>1, <3>2, Products
    <3> QED BY <1>1, <2>1, <3>1, <3>2
  <2> QED BY <1>1, <1>2, <1>3, <2>2
<1> QED BY <1>1, <1>3, <1>4, PacketBits DEF Frames

\* In the middle of bit i of the byte, which the receiver sees two clocks later.
LEMMA MiddleIsBit ==
  ASSUME clk_per_bit \in Rates, NEW b \in Bytes, NEW i \in 0 .. DataWidth - 1, NEW v,
         Carries(Packet(b), HalfBit + 2 + (i + 1) * clk_per_bit, v)
  PROVE  v = b[i]
<1> DEFINE c == clk_per_bit
           S == Skew(clk_per_bit)
           H == HalfBit
<1>1. /\ c \in Nat /\ S \in Nat /\ H \in Nat /\ DataWidth \in Nat /\ Bits \in Nat
      /\ H + S + 2 <= c /\ S <= H
  BY RateFacts, WidthFacts
<1>2. (i + 1) * c \in Nat
  BY <1>1
<1>3. PICK k \in 1 .. Bits : /\ v = Packet(b)[k]
                             /\ (k - 1) * c - S < H + 2 + (i + 1) * c
                             /\ H + 2 + (i + 1) * c <= k * c + S
  BY <1>1, <1>2 DEF Carries
<1> HIDE DEF c, S, H
<1>4. ~(k < i + 2)
  <2>1. SUFFICES ASSUME k < i + 2 PROVE FALSE
    OBVIOUS
  <2>2. k * c <= (i + 1) * c
    <3>1. CASE k < i + 1
      BY <1>1, <3>1, Products
    <3> QED BY <1>1, <2>1, <3>1
  <2> QED BY <1>1, <1>2, <1>3, <2>2
<1>5. ~(k > i + 2)
  <2>1. SUFFICES ASSUME i + 1 < k - 1 PROVE FALSE
    BY <1>1
  <2>2. (i + 1) * c + c <= (k - 1) * c
    BY <1>1, <2>1, Products
  <2> QED BY <1>1, <1>2, <1>3, <2>2
<1>6. k = i + 2
  BY <1>1, <1>4, <1>5
<1> QED BY <1>3, <1>6, PacketBits

\* The first clock of the start bit that the receiver can see.
LEMMA FirstIsZero ==
  ASSUME clk_per_bit \in Rates, NEW b \in Bytes, NEW v, Carries(Packet(b), 1, v)
  PROVE  v = 0
<1> DEFINE c == clk_per_bit
           S == Skew(clk_per_bit)
<1>1. c \in Nat /\ S \in Nat /\ S + 2 <= c /\ Bits \in Nat
  BY RateFacts, WidthFacts
<1>2. PICK k \in 1 .. Bits : v = Packet(b)[k] /\ (k - 1) * c - S < 1
  BY DEF Carries
<1> HIDE DEF c, S
<1>3. ~(k > 1)
  <2>1. SUFFICES ASSUME 0 < k - 1 PROVE FALSE
    BY <1>1
  <2>2. c <= (k - 1) * c
    BY <1>1, <2>1, Products
  <2> QED BY <1>1, <1>2, <2>2
<1> QED BY <1>2, <1>3, PacketBits

-----------------------------------------------------------------------------
(* The senders, as the receiver sees them.                                 *)

SenderInv == LinkTypeOK /\ HostInv /\ TxInv

FrameDone == Time >= Bits * clk_per_bit - Skew(clk_per_bit)

Begins(b) == /\ Sending => FrameDone
             /\ Sending' /\ Frame' = Packet(b) /\ Time' \in {0, 1}
Continues == Sending /\ Sending' /\ Frame' = Frame /\ Time' = Time + 1
Ends      == Sending /\ FrameDone /\ ~Sending'
Rests     == ~Sending /\ ~Sending'

LEMMA FrameFacts ==
  ASSUME NEW f \in Frames
  PROVE  /\ f # <<>> /\ Len(f) = Bits /\ \A k \in 1 .. Bits : f[k] \in {0, 1}
         /\ [frame |-> f, k |-> 1, t |-> 1] # HostIdle
BY PacketBits DEF Frames, HostIdle

LEMMA LineFacts ==
  ASSUME SenderInv
  PROVE  /\ Line \in {0, 1}
         /\ ~Sending => Line = 1
         /\ Sending => Frame \in Frames /\ Time \in Nat /\ Carries(Frame, Time, Line)
<1>1. CASE wire = "host" /\ host = HostIdle
  BY <1>1 DEF SenderInv, TxInv, TxReady, Line, Sending
<1>2. CASE wire = "host" /\ host # HostIdle
  <2>1. /\ host.frame \in Frames /\ host.k \in 1 .. Bits /\ host.t \in Nat /\ host.t > 0
        /\ (host.k - 1) * clk_per_bit - Skew(clk_per_bit) < host.t
        /\ host.t <= host.k * clk_per_bit + Skew(clk_per_bit)
    BY <1>2 DEF SenderInv, HostInv
  <2>2. Line = host.frame[host.k] /\ Frame = host.frame /\ Time = host.t /\ Sending
    BY <1>2 DEF Line, Frame, Time, Sending
  <2>3. Carries(Frame, Time, Line)
    BY <2>1, <2>2 DEF Carries
  <2> QED BY <2>1, <2>2, <2>3, FrameFacts
<1>3. CASE wire = "loop"
  <2>1. /\ host = HostIdle /\ Line = tx.out /\ Frame = tx.packet /\ (Sending <=> tx.busy)
        /\ tx.out \in {0, 1} /\ (tx.busy <=> tx.state # "IDLE")
    BY <1>3 DEF SenderInv, HostInv, TxInv, Line, Frame, Sending
  <2>2. Time \in Nat
    <3>1. clk_per_bit \in Nat /\ Bits \in Nat /\ tx.index \in Nat /\ tx.clkCount \in Nat
      BY RateFacts, WidthFacts DEF SenderInv, LinkTypeOK, TxInv
    <3>2. Bits * clk_per_bit \in Nat /\ tx.index * clk_per_bit + tx.clkCount \in Nat
      BY <3>1
    <3> QED BY <1>3, <3>2 DEF Time
  <2> QED BY <1>3, <2>1, <2>2 DEF SenderInv, TxInv
<1> QED BY <1>1, <1>2, <1>3 DEF SenderInv, LinkTypeOK

LEMMA HostBeginsStep ==
  ASSUME SenderInv, wire = "host", UNCHANGED <<clk_per_bit, wire, tx>>,
         NEW b \in Bytes, HostBegins(b)
  PROVE  HostInv' /\ TxInv' /\ Begins(b)
<1>1. host' = [frame |-> Packet(b), k |-> 1, t |-> 1] /\ FrameOver
  BY DEF HostBegins, HostStarts
<1>2. /\ clk_per_bit \in Nat /\ clk_per_bit >= 6 /\ Skew(clk_per_bit) \in Nat
      /\ Bits \in Nat /\ 1 \in 1 .. Bits
      /\ (1 - 1) * clk_per_bit = 0 /\ 1 * clk_per_bit = clk_per_bit
  BY RateFacts, WidthFacts DEF SenderInv, LinkTypeOK
<1>3. Packet(b) \in Frames /\ host' # HostIdle
  BY <1>1, FrameFacts DEF Frames
<1>4. HostInv'
  BY <1>1, <1>2, <1>3 DEF HostInv
<1>5. TxInv' /\ tx = TxReady
  BY DEF SenderInv, TxInv, Time
<1>6. Sending' /\ Frame' = Packet(b) /\ Time' = 1
  BY <1>1, <1>3 DEF Sending, Frame, Time
<1>7. Sending => FrameDone
  <2>1. SUFFICES ASSUME host # HostIdle PROVE FrameDone
    BY <1>5 DEF Sending, TxReady
  <2>2. host.k = Bits /\ host.t >= host.k * clk_per_bit - Skew(clk_per_bit)
    BY <1>1, <2>1, FrameFacts DEF FrameOver, BitMayEnd, SenderInv, HostInv
  <2> QED BY <2>2 DEF FrameDone, Time
<1> QED BY <1>4, <1>5, <1>6, <1>7 DEF Begins

LEMMA HostGoesOnStep ==
  ASSUME SenderInv, wire = "host", UNCHANGED <<clk_per_bit, wire, tx>>, HostGoesOn
  PROVE  HostInv' /\ TxInv' /\ (Continues \/ Ends \/ Rests)
<1>1. TxInv' /\ ~tx.busy
  BY DEF SenderInv, TxInv, Time, TxReady
<1>2. CASE host = HostIdle /\ UNCHANGED host
  BY <1>1, <1>2 DEF SenderInv, HostInv, HostIdle, Rests, Sending
<1>3. ASSUME host # HostIdle
      PROVE  /\ host \in [frame : Frames, k : 1 .. Bits, t : Nat \ {0}]
             /\ clk_per_bit \in Nat /\ Skew(clk_per_bit) \in Nat /\ Bits \in Nat
             /\ (host.k - 1) * clk_per_bit \in Int /\ host.k * clk_per_bit \in Int
             /\ (host.k - 1) * clk_per_bit - Skew(clk_per_bit) < host.t
             /\ host.t <= host.k * clk_per_bit + Skew(clk_per_bit)
             /\ Sending /\ Frame = host.frame /\ Time = host.t
  <2>1. clk_per_bit \in Nat /\ Skew(clk_per_bit) \in Nat /\ Bits \in Nat
    BY RateFacts, WidthFacts DEF SenderInv, LinkTypeOK
  <2>2. host \in [frame : Frames, k : 1 .. Bits, t : Nat \ {0}]
    BY <1>3 DEF SenderInv, HostInv
  <2>3. (host.k - 1) * clk_per_bit \in Int /\ host.k * clk_per_bit \in Int
    BY <2>1, <2>2
  <2> QED BY <1>3, <2>1, <2>2, <2>3 DEF SenderInv, HostInv, Sending, Frame, Time
<1>4. CASE host # HostIdle /\ ~BitMustEnd /\ host' = [host EXCEPT !.t = @ + 1]
  <2>1. host.t < host.k * clk_per_bit + Skew(clk_per_bit)
    BY <1>3, <1>4 DEF BitMustEnd
  <2>2. host' = [frame |-> host.frame, k |-> host.k, t |-> host.t + 1]
    BY <1>3, <1>4
  <2>3. host' # HostIdle
    BY <1>3, <1>4, <2>2, FrameFacts DEF HostIdle
  <2>4. HostInv'
    BY <1>3, <1>4, <2>1, <2>2 DEF HostInv
  <2>5. Sending' /\ Frame' = Frame /\ Time' = Time + 1
    BY <1>3, <1>4, <2>2, <2>3 DEF Sending, Frame, Time
  <2> QED BY <1>1, <1>3, <1>4, <2>4, <2>5 DEF Continues
<1>5. CASE HostNextBit
  <2>1. /\ host.t >= host.k * clk_per_bit - Skew(clk_per_bit) /\ host.k < Bits
        /\ host' = [frame |-> host.frame, k |-> host.k + 1, t |-> host.t + 1]
    BY <1>3, <1>5, FrameFacts DEF HostNextBit, BitMayEnd
  <2>2. host' # HostIdle
    BY <1>3, <1>5, <2>1, FrameFacts DEF HostIdle, HostNextBit
  <2>3. /\ host.k \in Int /\ host.t \in Int /\ clk_per_bit \in Nat /\ Skew(clk_per_bit) \in Nat
        /\ host.k * clk_per_bit \in Int
        /\ host.t <= host.k * clk_per_bit + Skew(clk_per_bit)
    BY <1>3, <1>5 DEF HostNextBit
  <2>4. host.k + 1 \in Int /\ (host.k + 1) - 1 = host.k /\ host.k < host.k + 1
    BY <2>3
  <2>5. (host.k + 1) * clk_per_bit = host.k * clk_per_bit + clk_per_bit
    BY <2>3, <2>4, Products
  <2>6. 2 * Skew(clk_per_bit) + 2 <= clk_per_bit
    BY RateFacts DEF SenderInv, LinkTypeOK
  <2>7. host.t + 1 <= (host.k + 1) * clk_per_bit + Skew(clk_per_bit)
    BY <2>3, <2>5, <2>6
  <2>8. host.k * clk_per_bit - Skew(clk_per_bit) < host.t + 1
    BY <1>3, <1>5, <2>1 DEF HostNextBit
  <2>9. HostInv'
    <3>1. /\ host' \in [frame : Frames, k : 1 .. Bits, t : Nat \ {0}]
          /\ host'.k = host.k + 1 /\ host'.t = host.t + 1
          /\ host'.frame = host.frame
      BY <1>3, <1>5, <2>1 DEF HostNextBit
    <3>2. (host'.k - 1) * clk_per_bit - Skew(clk_per_bit) < host'.t
      BY <2>4, <2>8, <3>1
    <3>3. host'.t <= host'.k * clk_per_bit + Skew(clk_per_bit)
      BY <2>7, <3>1
    <3>4. host' \in [frame : {<<>>} \cup Frames, k : Nat, t : Nat]
      BY <1>3, <1>5, <2>1 DEF HostNextBit
    <3> QED BY <3>1, <3>2, <3>3, <3>4 DEF HostInv
  <2>10. Sending' /\ Frame' = Frame /\ Time' = Time + 1
    BY <1>3, <1>5, <2>1, <2>2 DEF Sending, Frame, Time, HostNextBit
  <2> QED BY <1>1, <1>3, <1>5, <2>9, <2>10 DEF Continues, HostNextBit
<1>6. CASE HostEnds
  <2>1. host # HostIdle /\ FrameOver /\ host' = HostIdle
    BY <1>6 DEF HostEnds
  <2>2. HostInv'
    BY <2>1 DEF HostInv, HostIdle
  <2>3. FrameDone
    BY <1>3, <2>1, FrameFacts DEF FrameOver, BitMayEnd, FrameDone
  <2>4. ~Sending'
    BY <1>1, <2>1 DEF Sending
  <2> QED BY <1>1, <1>3, <2>1, <2>2, <2>3, <2>4 DEF Ends
<1> QED BY <1>2, <1>4, <1>5, <1>6 DEF HostGoesOn, HostHolds

LEMMA BitsFacts ==
  ASSUME clk_per_bit \in Rates
  PROVE  /\ Bits * clk_per_bit \in Nat /\ (DataWidth + 1) * clk_per_bit \in Nat
         /\ (DataWidth + 1) * clk_per_bit + 2 * clk_per_bit <= Bits * clk_per_bit
         /\ (Bits - 1) * clk_per_bit + clk_per_bit = Bits * clk_per_bit
<1>1. /\ clk_per_bit \in Nat /\ DataWidth \in Nat /\ StopBits \in Nat /\ StopBits >= 2
      /\ Bits \in Nat /\ Bits = DataWidth + 1 + StopBits
  BY RateFacts, WidthFacts
<1>2. /\ DataWidth + 1 \in Int /\ DataWidth + 2 \in Int /\ DataWidth + 1 < DataWidth + 2
      /\ DataWidth + 2 < Bits
      /\ Bits - 1 \in Int /\ Bits - 1 < Bits /\ (Bits - 1) + 1 = Bits
  BY <1>1
<1>3. (DataWidth + 1) * clk_per_bit + clk_per_bit <= (DataWidth + 2) * clk_per_bit
  BY <1>1, <1>2, Products
<1>4. (DataWidth + 2) * clk_per_bit + clk_per_bit <= Bits * clk_per_bit
  BY <1>1, <1>2, Products
<1>5. (Bits - 1) * clk_per_bit + clk_per_bit = Bits * clk_per_bit
  BY <1>1, <1>2, Products
<1>6. /\ Bits * clk_per_bit \in Nat /\ (DataWidth + 1) * clk_per_bit \in Nat
      /\ (DataWidth + 2) * clk_per_bit \in Nat
  BY <1>1
<1> QED BY <1>1, <1>3, <1>4, <1>5, <1>6

LEMMA LoopIdleStep ==
  ASSUME SenderInv, wire = "loop", UNCHANGED <<clk_per_bit, wire, host>>,
         NEW TXen \in BOOLEAN, NEW b \in Bytes, TxIdle(TXen, b)
  PROVE  TxInv' /\ IF TXen THEN Begins(b) ELSE Rests
<1>1. /\ clk_per_bit \in Nat /\ clk_per_bit >= 6 /\ 0 \in 0 .. Bits - 1 /\ 0 \in 0 .. clk_per_bit - 1
      /\ 0 * clk_per_bit + 0 = 0
  BY RateFacts, WidthFacts DEF SenderInv, LinkTypeOK
<1>2. host = HostIdle /\ host' = HostIdle /\ tx.state = "IDLE" /\ ~tx.busy /\ ~Sending
  BY DEF SenderInv, HostInv, TxInv, TxIdle, Sending
<1>3. CASE TXen
  <2>1. tx' = [out |-> 1, state |-> "TRANSMIT", busy |-> TRUE, index |-> 0, clkCount |-> 0,
               packet |-> Packet(b)]
    BY <1>3 DEF TxIdle, TxReady
  <2>2. Time' = 0
    BY <1>1, <2>1 DEF Time
  <2>3. Carries(Packet(b), 0, 1)'
    BY DEF Carries
  <2>4. TxInv'
    BY <1>1, <2>1, <2>2, <2>3 DEF TxInv, Frames
  <2> QED BY <1>2, <1>3, <2>1, <2>2, <2>4 DEF Begins, Sending, Frame
<1>4. CASE ~TXen
  BY <1>1, <1>2, <1>4 DEF TxIdle, TxReady, TxInv, Rests, Sending
<1> QED BY <1>3, <1>4

LEMMA LoopTransmitStep ==
  ASSUME SenderInv, wire = "loop", UNCHANGED <<clk_per_bit, wire, host>>, TxTransmit
  PROVE  TxInv' /\ Continues
<1> DEFINE i == tx.index
           n == tx.clkCount
           f == tx.packet
<1>1. /\ clk_per_bit \in Nat /\ clk_per_bit >= 6 /\ Skew(clk_per_bit) \in Nat /\ Bits \in Nat
      /\ i \in 0 .. Bits - 1 /\ n \in 0 .. clk_per_bit - 1 /\ tx.busy /\ tx.state = "TRANSMIT"
      /\ f \in Frames /\ Time = i * clk_per_bit + n /\ Sending
  BY RateFacts, WidthFacts
  DEF SenderInv, LinkTypeOK, TxInv, TxTransmit, Time, Sending
<1>2. i * clk_per_bit \in Nat /\ (i + 1) * clk_per_bit = i * clk_per_bit + clk_per_bit
  <2>1. i \in Int /\ i + 1 \in Int /\ i < i + 1
    BY <1>1
  <2>2. i * clk_per_bit \in Nat
    BY <1>1
  <2> QED BY <1>1, <2>1, <2>2, Products
<1>3. Carries(f, Time + 1, f[i + 1])
  <2>1. i + 1 \in 1 .. Bits /\ (i + 1) - 1 = i
    BY <1>1
  <2>2. /\ i * clk_per_bit - Skew(clk_per_bit) < Time + 1
        /\ Time + 1 <= (i + 1) * clk_per_bit + Skew(clk_per_bit)
    BY <1>1, <1>2
  <2>3. ~(Time + 1 <= 0)
    BY <1>1, <1>2
  <2> QED BY <2>1, <2>2, <2>3 DEF Carries
<1>4. f[i + 1] \in {0, 1} /\ Len(f) = Bits
  BY <1>1, FrameFacts
<1> DEFINE driven == [out |-> f[i + 1], state |-> "TRANSMIT", busy |-> tx.busy, index |-> i,
                      clkCount |-> n, packet |-> f]
<1>5. /\ n < clk_per_bit - 1 =>
           tx' = [out |-> f[i + 1], state |-> "TRANSMIT", busy |-> tx.busy, index |-> i,
                  clkCount |-> n + 1, packet |-> f]
      /\ n >= clk_per_bit - 1 /\ i < Bits - 1 =>
           tx' = [out |-> f[i + 1], state |-> "TRANSMIT", busy |-> tx.busy, index |-> i + 1,
                  clkCount |-> 0, packet |-> f]
      /\ n >= clk_per_bit - 1 /\ ~(i < Bits - 1) =>
           tx' = [out |-> f[i + 1], state |-> "DONE", busy |-> tx.busy, index |-> i,
                  clkCount |-> 0, packet |-> f]
  <2>1. /\ tx \in [out : {0, 1}, state : {"IDLE", "TRANSMIT", "DONE"}, busy : BOOLEAN,
                    index : 0 .. Bits - 1, clkCount : 0 .. clk_per_bit - 1,
                    packet : {<<>>} \cup Frames]
        /\ tx.state = "TRANSMIT"
    BY <1>1 DEF SenderInv, TxInv
  <2>2. [tx EXCEPT !.out = f[i + 1]] = driven
    BY <2>1
  <2> DEFINE reset == [out |-> f[i + 1], state |-> "TRANSMIT", busy |-> tx.busy, index |-> i,
                       clkCount |-> 0, packet |-> f]
             next == [out |-> f[i + 1], state |-> "TRANSMIT", busy |-> tx.busy, index |-> i + 1,
                      clkCount |-> 0, packet |-> f]
             last == [out |-> f[i + 1], state |-> "DONE", busy |-> tx.busy, index |-> i,
                      clkCount |-> 0, packet |-> f]
             wait == [out |-> f[i + 1], state |-> "TRANSMIT", busy |-> tx.busy, index |-> i,
                      clkCount |-> n + 1, packet |-> f]
  <2>3. driven.clkCount = n /\ driven.index = i
    OBVIOUS
  <2>4. [driven EXCEPT !.clkCount = n + 1] = wait
    OBVIOUS
  <2>5. [driven EXCEPT !.clkCount = 0] = reset
    OBVIOUS
  <2>6. [reset EXCEPT !.index = i + 1] = next
    OBVIOUS
  <2>7. [reset EXCEPT !.state = "DONE"] = last
    OBVIOUS
  <2> HIDE DEF driven, reset, next, last, wait
  <2>8. /\ [driven EXCEPT !.clkCount = 0, !.index = i + 1] =
             [[driven EXCEPT !.clkCount = 0] EXCEPT !.index = i + 1]
        /\ [driven EXCEPT !.clkCount = 0, !.state = "DONE"] =
             [[driven EXCEPT !.clkCount = 0] EXCEPT !.state = "DONE"]
    OBVIOUS
  <2>9. /\ driven.clkCount = n /\ driven.index = i
        /\ [driven EXCEPT !.clkCount = n + 1] = wait
        /\ [driven EXCEPT !.clkCount = 0, !.index = i + 1] = next
        /\ [driven EXCEPT !.clkCount = 0, !.state = "DONE"] = last
    BY <2>3, <2>4, <2>5, <2>6, <2>7, <2>8
  <2>10. tx' = CASE n < clk_per_bit - 1 -> [driven EXCEPT !.clkCount = driven.clkCount + 1]
                [] n >= clk_per_bit - 1 /\ i < Len(f) - 1 ->
                     [driven EXCEPT !.clkCount = 0, !.index = driven.index + 1]
                [] OTHER -> [driven EXCEPT !.clkCount = 0, !.state = "DONE"]
    BY <2>2 DEF TxTransmit
  <2>11. n \in Int /\ clk_per_bit \in Int /\ i \in Int /\ Bits \in Int /\ Len(f) = Bits
    BY <1>1, <1>4
  <2>12. CASE n < clk_per_bit - 1
    BY <2>9, <2>10, <2>11, <2>12 DEF wait, next, last
  <2>13. CASE n >= clk_per_bit - 1 /\ i < Bits - 1
    BY <2>9, <2>10, <2>11, <2>13 DEF wait, next, last
  <2>14. CASE n >= clk_per_bit - 1 /\ ~(i < Bits - 1)
    BY <2>9, <2>10, <2>11, <2>14 DEF wait, next, last
  <2> QED BY <2>11, <2>12, <2>13, <2>14 DEF wait, next, last
<1>6. /\ tx' \in [out : {0, 1}, state : {"TRANSMIT", "DONE"}, busy : BOOLEAN,
                  index : 0 .. Bits - 1, clkCount : 0 .. clk_per_bit - 1, packet : Frames]
      /\ tx'.out = f[i + 1] /\ tx'.packet = f /\ tx'.busy
      /\ Time' = Time + 1
  <2>1. CASE n < clk_per_bit - 1
    <3>1. tx' = [out |-> f[i + 1], state |-> "TRANSMIT", busy |-> tx.busy, index |-> i,
                 clkCount |-> n + 1, packet |-> f]
      BY <1>5, <2>1
    <3>2. Time' = i * clk_per_bit + (n + 1)
      BY <3>1 DEF Time
    <3>3. Time' = Time + 1
      BY <1>1, <1>2, <3>2
    <3> QED BY <1>1, <1>4, <2>1, <3>1, <3>3
  <2>2. CASE n >= clk_per_bit - 1 /\ i < Bits - 1
    <3>1. tx' = [out |-> f[i + 1], state |-> "TRANSMIT", busy |-> tx.busy, index |-> i + 1,
                 clkCount |-> 0, packet |-> f]
      BY <1>1, <1>5, <2>2
    <3>2. Time' = (i + 1) * clk_per_bit + 0
      BY <3>1 DEF Time
    <3>3. Time' = Time + 1
      BY <1>1, <1>2, <2>2, <3>2
    <3> QED BY <1>1, <1>4, <2>2, <3>1, <3>3
  <2>3. CASE n >= clk_per_bit - 1 /\ ~(i < Bits - 1)
    <3>1. tx' = [out |-> f[i + 1], state |-> "DONE", busy |-> tx.busy, index |-> i,
                 clkCount |-> 0, packet |-> f]
      BY <1>1, <1>5, <2>3
    <3>2. Time' = Bits * clk_per_bit
      BY <3>1 DEF Time
    <3>3. i + 1 = Bits
      BY <1>1, <2>3
    <3>4. Time' = Time + 1
      BY <1>1, <1>2, <2>3, <3>2, <3>3
    <3> QED BY <1>1, <1>4, <2>3, <3>1, <3>4
  <2> QED BY <1>1, <2>1, <2>2, <2>3
<1>7. Carries(tx.packet, Time, tx.out)'
  BY <1>3, <1>6 DEF Carries
<1>8. TxInv'
  BY <1>6, <1>7 DEF TxInv
<1> QED BY <1>1, <1>6, <1>8 DEF Continues, Sending, Frame

LEMMA LoopDoneStep ==
  ASSUME SenderInv, wire = "loop", UNCHANGED <<clk_per_bit, wire, host>>, TxDone
  PROVE  TxInv' /\ Ends
<1>1. /\ clk_per_bit \in Rates /\ clk_per_bit \in Nat /\ clk_per_bit >= 6
      /\ Skew(clk_per_bit) \in Nat /\ 2 * Skew(clk_per_bit) + 2 <= clk_per_bit
  BY RateFacts DEF SenderInv, LinkTypeOK
<1>2. /\ tx.state = "DONE" /\ tx.busy /\ tx.packet \in Frames /\ Time = Bits * clk_per_bit
      /\ Carries(tx.packet, Time, tx.out)
  BY DEF SenderInv, TxInv, TxDone, Time
<1>3. /\ Time \in Nat /\ Time > (DataWidth + 1) * clk_per_bit + Skew(clk_per_bit)
      /\ Time >= Bits * clk_per_bit - Skew(clk_per_bit)
  BY <1>1, <1>2, BitsFacts
<1>4. tx.out = 1
  BY <1>1, <1>2, <1>3, LateIsOne
<1>5. tx' = [out |-> 1, state |-> "IDLE", busy |-> FALSE, index |-> 0, clkCount |-> 0,
             packet |-> tx.packet]
  BY <1>4 DEF TxDone, SenderInv, TxInv
<1>6. 0 \in 0 .. Bits - 1 /\ 0 \in 0 .. clk_per_bit - 1
  BY <1>1, WidthFacts
<1>7. TxInv'
  BY <1>2, <1>5, <1>6 DEF TxInv
<1>8. host' = HostIdle
  BY DEF SenderInv, HostInv
<1> QED BY <1>2, <1>3, <1>5, <1>7, <1>8 DEF Ends, FrameDone, Sending

-----------------------------------------------------------------------------
(* The receiver.                                                           *)

LEMMA SampledFacts ==
  ASSUME RxTypeOK, NEW line \in {0, 1}
  PROVE  /\ Sampled(line) \in RxRecord
         /\ Sampled(line).regInMeta = line /\ Sampled(line).regIn = rx.regInMeta
         /\ Sampled(line).state = rx.state /\ Sampled(line).clkCount = rx.clkCount
         /\ Sampled(line).index = rx.index /\ Sampled(line).dataOut = rx.dataOut
         /\ Sampled(line).done = rx.done /\ Sampled(line).out = rx.out
BY DEF RxTypeOK, RxRecord, Sampled

LEMMA ZerosType == Zeros \in Bytes
BY DEF Zeros, Bytes

LEMMA RxIdleStep ==
  ASSUME LinkTypeOK, RxTypeOK, clk_per_bit' = clk_per_bit, NEW line \in {0, 1}, RxIdle(line)
  PROVE  /\ RxTypeOK' /\ rx'.regInMeta = line /\ rx'.regIn = rx.regInMeta
         /\ rx'.state = IF rx.regIn = 0 THEN "START" ELSE "IDLE"
         /\ Spent' = 0 /\ ~rx'.done /\ rx'.out = rx.out
<1>1. /\ rx' = [Sampled(line) EXCEPT
                  !.state = IF rx.regIn = 0 THEN "START" ELSE "IDLE",
                  !.clkCount = 0, !.index = 0, !.dataOut = Zeros, !.done = FALSE]
  BY DEF RxIdle
<1>2. 0 \in 0 .. DataWidth /\ HalfBit \in Nat
  BY WidthFacts, RateFacts DEF LinkTypeOK
<1>3. /\ rx' \in RxRecord
      /\ rx'.regInMeta = line /\ rx'.regIn = rx.regInMeta /\ rx'.out = rx.out
      /\ rx'.state = (IF rx.regIn = 0 THEN "START" ELSE "IDLE")
      /\ rx'.clkCount = 0 /\ rx'.index = 0 /\ rx'.done = FALSE
  BY <1>1, <1>2, SampledFacts, ZerosType DEF RxRecord
<1>4. HalfBit' = HalfBit
  BY DEF HalfBit
<1>5. RxTypeOK'
  BY <1>2, <1>3, <1>4 DEF RxTypeOK, RxRecord
<1> QED BY <1>3, <1>5 DEF Spent

LEMMA RxStartStep ==
  ASSUME LinkTypeOK, RxTypeOK, clk_per_bit' = clk_per_bit, NEW line \in {0, 1}, RxStart(line)
  PROVE  /\ RxTypeOK' /\ rx'.regInMeta = line /\ rx'.regIn = rx.regInMeta
         /\ rx'.state \in {"START", "RECEIVE"} /\ rx'.index = 0
         /\ Spent' = Spent + 1 /\ ~rx.done /\ ~rx'.done /\ rx'.out = rx.out
<1>1. /\ rx.state = "START" /\ rx.index = 0 /\ rx.done = FALSE
      /\ rx.clkCount \in Nat /\ rx.clkCount <= HalfBit
  BY DEF RxStart, RxTypeOK, RxRecord
<1>2. HalfBit \in Nat /\ HalfBit' = HalfBit /\ clk_per_bit \in Nat /\ clk_per_bit >= 6
  BY RateFacts DEF LinkTypeOK, HalfBit
<1>3. CASE rx.clkCount = HalfBit
  <2>1. rx' = [Sampled(line) EXCEPT !.clkCount = 0, !.state = "RECEIVE"]
    BY <1>3 DEF RxStart
  <2>2. /\ rx' \in RxRecord
        /\ rx'.regInMeta = line /\ rx'.regIn = rx.regInMeta /\ rx'.out = rx.out
        /\ rx'.state = "RECEIVE" /\ rx'.clkCount = 0 /\ rx'.index = 0 /\ rx'.done = FALSE
    BY <1>1, <2>1, SampledFacts DEF RxRecord
  <2>3. RxTypeOK'
    BY <1>2, <2>2 DEF RxTypeOK
  <2>4. Spent = HalfBit
    BY <1>1, <1>3 DEF Spent
  <2>5. Spent' = HalfBit + 1 + 0 * clk_per_bit + 0
    BY <1>2, <2>2 DEF Spent
  <2> QED BY <1>1, <1>2, <2>2, <2>3, <2>4, <2>5
<1>4. CASE rx.clkCount # HalfBit
  <2>1. rx' = [Sampled(line) EXCEPT !.clkCount = rx.clkCount + 1]
    BY <1>4, SampledFacts DEF RxStart
  <2>2. /\ rx' \in RxRecord
        /\ rx'.regInMeta = line /\ rx'.regIn = rx.regInMeta /\ rx'.out = rx.out
        /\ rx'.state = "START" /\ rx'.clkCount = rx.clkCount + 1
        /\ rx'.index = 0 /\ rx'.done = FALSE
    BY <1>1, <2>1, SampledFacts DEF RxRecord
  <2>3. RxTypeOK'
    BY <1>1, <1>2, <1>4, <2>2 DEF RxTypeOK
  <2> QED BY <1>1, <2>2, <2>3 DEF Spent
<1> QED BY <1>3, <1>4

LEMMA RxReceiveStep ==
  ASSUME LinkTypeOK, RxTypeOK, clk_per_bit' = clk_per_bit, NEW line \in {0, 1}, RxReceive(line)
  PROVE  /\ RxTypeOK' /\ rx'.regInMeta = line /\ rx'.regIn = rx.regInMeta
         /\ rx'.state \in {"RECEIVE", "DONE"}
         /\ Spent' = Spent + 1 /\ ~rx.done /\ ~rx'.done /\ rx'.out = rx.out
         /\ \/ rx'.index = rx.index /\ rx'.dataOut = rx.dataOut
               /\ (rx'.state = "DONE" => rx.index = DataWidth)
            \/ /\ rx.index < DataWidth /\ rx'.state = "RECEIVE"
               /\ Spent = HalfBit + (rx.index + 1) * clk_per_bit
               /\ rx'.index = rx.index + 1
               /\ rx'.dataOut = [rx.dataOut EXCEPT ![rx.index] = rx.regIn]
<1>1. /\ rx.state = "RECEIVE" /\ rx.done = FALSE
      /\ rx.index \in 0 .. DataWidth /\ rx.dataOut \in Bytes /\ rx.regIn \in {0, 1}
      /\ rx.clkCount \in Nat /\ rx.clkCount <= clk_per_bit - 1
      /\ Spent = HalfBit + 1 + rx.index * clk_per_bit + rx.clkCount
  BY DEF RxReceive, RxTypeOK, RxRecord, Spent
<1>2. /\ HalfBit \in Nat /\ HalfBit' = HalfBit /\ clk_per_bit \in Nat /\ clk_per_bit >= 6
      /\ DataWidth \in Nat
  BY RateFacts, WidthFacts DEF LinkTypeOK, HalfBit
<1>3. /\ rx.index * clk_per_bit \in Nat
      /\ (rx.index + 1) * clk_per_bit = rx.index * clk_per_bit + clk_per_bit
  <2>1. rx.index \in Int /\ rx.index + 1 \in Int /\ rx.index < rx.index + 1
    BY <1>1, <1>2
  <2>2. rx.index * clk_per_bit \in Nat
    BY <1>1, <1>2
  <2> QED BY <1>2, <2>1, <2>2, Products
<1>4. rx' = CASE rx.clkCount < clk_per_bit - 1 -> [Sampled(line) EXCEPT !.clkCount = @ + 1]
              [] rx.clkCount >= clk_per_bit - 1 /\ rx.index < DataWidth ->
                   [Sampled(line) EXCEPT !.clkCount = 0, !.index = @ + 1,
                                         !.dataOut[rx.index] = rx.regIn]
              [] OTHER -> [Sampled(line) EXCEPT !.clkCount = 0, !.state = "DONE"]
  BY DEF RxReceive
<1>5. CASE rx.clkCount < clk_per_bit - 1
  <2>1. rx' = [Sampled(line) EXCEPT !.clkCount = rx.clkCount + 1]
    BY <1>1, <1>2, <1>5, <1>4, SampledFacts
  <2>2. /\ rx' \in RxRecord
        /\ rx'.regInMeta = line /\ rx'.regIn = rx.regInMeta /\ rx'.out = rx.out
        /\ rx'.state = "RECEIVE" /\ rx'.clkCount = rx.clkCount + 1
        /\ rx'.index = rx.index /\ rx'.dataOut = rx.dataOut /\ rx'.done = FALSE
    BY <1>1, <2>1, SampledFacts DEF RxRecord
  <2>3. RxTypeOK'
    BY <1>1, <1>2, <1>5, <2>2 DEF RxTypeOK
  <2>4. Spent' = HalfBit + 1 + rx.index * clk_per_bit + (rx.clkCount + 1)
    BY <1>2, <2>2 DEF Spent
  <2>5. Spent' = Spent + 1
    BY <1>1, <1>2, <1>3, <2>4
  <2> QED BY <1>1, <2>2, <2>3, <2>5
<1>6. CASE rx.clkCount >= clk_per_bit - 1 /\ rx.index < DataWidth
  <2>1. rx' = [Sampled(line) EXCEPT !.clkCount = 0, !.index = @ + 1,
                                    !.dataOut[rx.index] = rx.regIn]
    BY <1>1, <1>2, <1>6, <1>4
  <2>2. [rx.dataOut EXCEPT ![rx.index] = rx.regIn] \in Bytes
    BY <1>1 DEF Bytes
  <2>3. rx.index + 1 \in 0 .. DataWidth
    BY <1>1, <1>2, <1>6
  <2>4. /\ rx' \in RxRecord
        /\ rx'.regInMeta = line /\ rx'.regIn = rx.regInMeta /\ rx'.out = rx.out
        /\ rx'.state = "RECEIVE" /\ rx'.clkCount = 0 /\ rx'.index = rx.index + 1
        /\ rx'.dataOut = [rx.dataOut EXCEPT ![rx.index] = rx.regIn] /\ rx'.done = FALSE
    BY <1>1, <2>1, <2>2, <2>3, SampledFacts DEF RxRecord
  <2>5. RxTypeOK'
    BY <1>2, <2>4 DEF RxTypeOK
  <2>6. Spent' = HalfBit + 1 + (rx.index + 1) * clk_per_bit + 0
    BY <1>2, <2>4 DEF Spent
  <2>7. Spent = HalfBit + (rx.index + 1) * clk_per_bit /\ Spent' = Spent + 1
    BY <1>1, <1>2, <1>3, <1>6, <2>6
  <2> QED BY <1>1, <1>6, <2>4, <2>5, <2>7
<1>7. CASE rx.clkCount >= clk_per_bit - 1 /\ ~(rx.index < DataWidth)
  <2>1. rx' = [Sampled(line) EXCEPT !.clkCount = 0, !.state = "DONE"]
    BY <1>1, <1>2, <1>7, <1>4
  <2>2. /\ rx' \in RxRecord
        /\ rx'.regInMeta = line /\ rx'.regIn = rx.regInMeta /\ rx'.out = rx.out
        /\ rx'.state = "DONE" /\ rx'.clkCount = 0
        /\ rx'.index = rx.index /\ rx'.dataOut = rx.dataOut /\ rx'.done = FALSE
    BY <1>1, <2>1, SampledFacts DEF RxRecord
  <2>3. RxTypeOK'
    BY <1>1, <1>2, <2>2 DEF RxTypeOK
  <2>4. Spent' = HalfBit + 1 + (DataWidth + 1) * clk_per_bit + 0
    BY <1>2, <2>2 DEF Spent
  <2>5. rx.index = DataWidth
    <3>1. rx.index \in 0 .. DataWidth /\ DataWidth \in Nat
      BY <1>1, <1>2
    <3> QED BY <1>7, <3>1
  <2>6. Spent = HalfBit + 1 + DataWidth * clk_per_bit + rx.clkCount
    BY <1>1, <2>5
  <2>7. /\ DataWidth * clk_per_bit \in Nat
        /\ (DataWidth + 1) * clk_per_bit = DataWidth * clk_per_bit + clk_per_bit
    BY <1>3, <2>5
  <2>8. Spent' = Spent + 1
    BY <1>1, <1>2, <1>7, <2>4, <2>6, <2>7
  <2> QED BY <1>1, <2>2, <2>3, <2>5, <2>8
<1> QED BY <1>1, <1>2, <1>5, <1>6, <1>7

LEMMA RxDoneStep ==
  ASSUME LinkTypeOK, RxTypeOK, clk_per_bit' = clk_per_bit, NEW line \in {0, 1}, RxDone(line)
  PROVE  /\ RxTypeOK' /\ rx'.regInMeta = line /\ rx'.regIn = rx.regInMeta /\ ~rx.done
         /\ Finishes => /\ rx'.state = "IDLE" /\ rx'.done /\ rx'.out = rx.dataOut
                        /\ Spent + 4 = ReceivedAt
         /\ ~Finishes => /\ rx'.state = "DONE" /\ ~rx'.done /\ rx'.out = rx.out
                         /\ rx'.dataOut = rx.dataOut /\ Spent' = Spent + 1
<1>1. /\ rx.state = "DONE" /\ rx.done = FALSE /\ rx.dataOut \in Bytes
      /\ rx.clkCount \in Nat /\ rx.clkCount <= HalfBit
      /\ Spent = HalfBit + 1 + (DataWidth + 1) * clk_per_bit + rx.clkCount
  BY DEF RxDone, RxTypeOK, RxRecord, Spent
<1>2. /\ HalfBit \in Nat /\ HalfBit' = HalfBit /\ clk_per_bit \in Nat
      /\ (DataWidth + 1) * clk_per_bit \in Nat /\ 0 \in 0 .. DataWidth
  BY RateFacts, BitsFacts, WidthFacts DEF LinkTypeOK, HalfBit
<1>3. CASE Finishes
  <2>1. rx' = [Sampled(line) EXCEPT !.clkCount = 0, !.state = "IDLE", !.done = TRUE,
                                    !.index = 0, !.out = rx.dataOut]
    BY <1>3 DEF RxDone
  <2>2. /\ rx' \in RxRecord
        /\ rx'.regInMeta = line /\ rx'.regIn = rx.regInMeta /\ rx'.out = rx.dataOut
        /\ rx'.state = "IDLE" /\ rx'.index = 0 /\ rx'.done = TRUE
    BY <1>1, <1>2, <2>1, SampledFacts DEF RxRecord
  <2>3. RxTypeOK'
    BY <2>2 DEF RxTypeOK
  <2>4. Spent + 4 = ReceivedAt
    BY <1>1, <1>2, <1>3 DEF Finishes, ReceivedAt
  <2> QED BY <1>1, <1>3, <2>2, <2>3, <2>4
<1>4. CASE ~Finishes
  <2>1. rx' = [Sampled(line) EXCEPT !.clkCount = rx.clkCount + 1]
    BY <1>4, SampledFacts DEF RxDone
  <2>2. /\ rx' \in RxRecord
        /\ rx'.regInMeta = line /\ rx'.regIn = rx.regInMeta /\ rx'.out = rx.out
        /\ rx'.state = "DONE" /\ rx'.clkCount = rx.clkCount + 1
        /\ rx'.dataOut = rx.dataOut /\ rx'.done = FALSE
    BY <1>1, <2>1, SampledFacts DEF RxRecord
  <2>3. rx.clkCount + 1 <= HalfBit
    BY <1>1, <1>2, <1>4 DEF Finishes
  <2>4. RxTypeOK'
    BY <1>2, <2>2, <2>3 DEF RxTypeOK
  <2>5. Spent' = HalfBit + 1 + (DataWidth + 1) * clk_per_bit + (rx.clkCount + 1)
    BY <1>2, <2>2 DEF Spent
  <2>6. Spent' = Spent + 1
    BY <1>1, <1>2, <2>5
  <2> QED BY <1>1, <1>4, <2>2, <2>4, <2>6
<1> QED BY <1>3, <1>4

LEMMA RxClockStep ==
  ASSUME LinkTypeOK, RxTypeOK, clk_per_bit' = clk_per_bit, NEW line \in {0, 1}, RxClock(line)
  PROVE  /\ RxTypeOK' /\ rx'.regInMeta = line /\ rx'.regIn = rx.regInMeta
         /\ Finishes => rx'.state = "IDLE" /\ rx'.done /\ rx'.out = rx.dataOut /\ ~rx.done
         /\ ~Finishes => ~rx'.done /\ rx'.out = rx.out
         /\ rx.state = "IDLE" => /\ rx'.state = IF rx.regIn = 0 THEN "START" ELSE "IDLE"
                                 /\ Spent' = 0
         /\ rx.state # "IDLE" /\ ~Finishes => rx'.state # "IDLE" /\ Spent' = Spent + 1
<1>1. CASE RxIdle(line)
  BY <1>1, RxIdleStep DEF RxIdle, Finishes
<1>2. CASE RxStart(line)
  BY <1>2, RxStartStep DEF RxStart, Finishes
<1>3. CASE RxReceive(line)
  BY <1>3, RxReceiveStep DEF RxReceive, Finishes
<1>4. CASE RxDone(line)
  BY <1>4, RxDoneStep DEF RxDone, Finishes
<1> QED BY <1>1, <1>2, <1>3, <1>4 DEF RxClock

LEMMA SpentBound ==
  ASSUME LinkTypeOK, RxTypeOK
  PROVE  Spent \in Nat /\ ReceivedAt \in Nat /\ Spent + 4 <= ReceivedAt
<1>1. /\ clk_per_bit \in Nat /\ HalfBit \in Nat /\ DataWidth \in Nat
      /\ (DataWidth + 1) * clk_per_bit \in Nat
  BY RateFacts, WidthFacts, BitsFacts DEF LinkTypeOK
<1>2. rx.clkCount \in Nat /\ rx.index \in 0 .. DataWidth
  BY DEF RxTypeOK, RxRecord
<1>3. ReceivedAt \in Nat
  BY <1>1 DEF ReceivedAt
<1>4. CASE rx.state = "START"
  BY <1>1, <1>2, <1>4 DEF Spent, ReceivedAt, RxTypeOK
<1>5. CASE rx.state = "RECEIVE"
  <2>1. Spent = HalfBit + 1 + rx.index * clk_per_bit + rx.clkCount
    BY <1>5 DEF Spent
  <2>2. rx.clkCount <= clk_per_bit - 1
    BY <1>5 DEF RxTypeOK
  <2>3. rx.index \in Int /\ DataWidth + 1 \in Int /\ rx.index < DataWidth + 1
    BY <1>1, <1>2
  <2>4. rx.index * clk_per_bit \in Nat
    BY <1>1, <1>2
  <2>5. rx.index * clk_per_bit + clk_per_bit <= (DataWidth + 1) * clk_per_bit
    BY <1>1, <2>3, Products
  <2> QED BY <1>1, <1>2, <1>3, <2>1, <2>2, <2>4, <2>5 DEF ReceivedAt
<1>6. CASE rx.state = "DONE"
  BY <1>1, <1>2, <1>6 DEF Spent, ReceivedAt, RxTypeOK
<1>7. CASE rx.state = "IDLE"
  BY <1>1, <1>7 DEF Spent, ReceivedAt
<1> QED BY <1>3, <1>4, <1>5, <1>6, <1>7 DEF RxTypeOK, RxRecord

-----------------------------------------------------------------------------
(* The senders' steps together.                                            *)

LEMMA SenderClockStep ==
  ASSUME SenderInv, UNCHANGED <<clk_per_bit, wire>>, HostClock \/ LoopClock
  PROVE  /\ HostInv' /\ TxInv'
         /\ \/ \E b \in Bytes : Begins(b) /\ Watch(b)
            \/ (Continues \/ Ends \/ Rests) /\ Watch(None)
<1>1. ASSUME wire = "host", UNCHANGED tx, HostGoesOn, Watch(None)
      PROVE  HostInv' /\ TxInv' /\ (Continues \/ Ends \/ Rests) /\ Watch(None)
  BY <1>1, HostGoesOnStep
<1>2. ASSUME wire = "host", UNCHANGED tx, NEW b \in Bytes, HostBegins(b), Watch(b)
      PROVE  HostInv' /\ TxInv' /\ Begins(b) /\ Watch(b)
  BY <1>2, HostBeginsStep
<1>3. ASSUME wire = "loop", UNCHANGED host, NEW TXen \in BOOLEAN, NEW b \in Bytes,
             TxClock(TXen, b), Watch(IF Accepts(TXen) THEN b ELSE None)
      PROVE  /\ HostInv' /\ TxInv'
             /\ \/ Begins(b) /\ Watch(b)
                \/ (Continues \/ Ends \/ Rests) /\ Watch(None)
  <2>1. HostInv'
    BY <1>3 DEF SenderInv, HostInv, HostIdle
  <2>2. CASE TxIdle(TXen, b)
    <3>1. TxInv' /\ IF TXen THEN Begins(b) ELSE Rests
      BY <1>3, <2>2, LoopIdleStep
    <3>2. Accepts(TXen) <=> TXen
      BY <2>2 DEF Accepts, TxIdle
    <3>3. Watch(IF TXen THEN b ELSE None)
      BY <1>3, <3>2
    <3>4. CASE TXen
      BY <2>1, <3>1, <3>3, <3>4
    <3>5. CASE ~TXen
      BY <2>1, <3>1, <3>3, <3>5
    <3> QED BY <3>4, <3>5
  <2>3. CASE TxTransmit
    <3>1. ~Accepts(TXen)
      BY <2>3 DEF Accepts, TxTransmit
    <3>2. Watch(None)
      BY <1>3, <3>1
    <3>3. TxInv' /\ Continues
      BY <1>3, <2>3, LoopTransmitStep
    <3> QED BY <2>1, <3>2, <3>3
  <2>4. CASE TxDone
    <3>1. ~Accepts(TXen)
      BY <2>4 DEF Accepts, TxDone
    <3>2. Watch(None)
      BY <1>3, <3>1
    <3>3. TxInv' /\ Ends
      BY <1>3, <2>4, LoopDoneStep
    <3> QED BY <2>1, <3>2, <3>3
  <2> QED BY <1>3, <2>2, <2>3, <2>4 DEF TxClock
<1>4. CASE HostClock
  BY <1>1, <1>2, <1>4 DEF HostClock
<1>5. CASE LoopClock
  BY <1>3, <1>5 DEF LoopClock
<1> QED BY <1>4, <1>5

LEMMA SenderResetStep ==
  ASSUME SenderInv, Reset
  PROVE  HostInv' /\ TxInv'
<1>1. UNCHANGED <<clk_per_bit, wire>> /\ tx' = TxReady /\ wire \in {"host", "loop"}
  BY DEF Reset, TxReset, SenderInv, LinkTypeOK
<1>2. CASE wire = "loop"
  <2>1. host = HostIdle /\ host' = HostIdle
    BY <1>2 DEF Reset, SenderInv, HostInv
  <2>2. HostInv'
    BY <2>1 DEF HostInv, HostIdle
  <2>3. 0 \in 0 .. Bits - 1 /\ 0 \in 0 .. clk_per_bit - 1
    BY RateFacts, WidthFacts DEF SenderInv, LinkTypeOK
  <2>4. TxInv'
    BY <1>1, <1>2, <2>3 DEF TxInv, TxReady
  <2> QED BY <2>2, <2>4
<1>3. CASE wire = "host"
  <2>1. UNCHANGED <<clk_per_bit, wire, tx>>
    BY <1>1, <1>3 DEF SenderInv, TxInv
  <2>2. CASE HostGoesOn
    BY <1>3, <2>1, <2>2, HostGoesOnStep
  <2>3. ASSUME NEW b \in Bytes, HostBegins(b) PROVE HostInv' /\ TxInv'
    BY <1>3, <2>1, <2>3, HostBeginsStep
  <2> QED BY <1>3, <2>2, <2>3 DEF Reset
<1> QED BY <1>1, <1>2, <1>3

-----------------------------------------------------------------------------
(* The line that is up.                                                    *)

LEMMA CarriedIsBit ==
  ASSUME NEW f \in Frames, NEW u, NEW v, Carries(f, u, v)
  PROVE  v \in {0, 1}
BY FrameFacts DEF Carries

\* By the end of a frame its byte has been received, and the receiver sees the line idle.
LEMMA QuietLine ==
  ASSUME IInv, synced, Sending => FrameDone
  PROVE  /\ rx.state = "IDLE" /\ pending = None
         /\ Line = 1 /\ rx.regInMeta = 1 /\ rx.regIn = 1
<1>1. SenderInv /\ LinkTypeOK /\ RxTypeOK
  BY DEF IInv, SenderInv
<1>2. CASE ~Sending
  BY <1>1, <1>2, LineFacts DEF IInv, UpInv
<1>3. CASE Sending
  <2>1. PICK b \in Bytes : Following(b)
    BY <1>3 DEF IInv, UpInv
  <2>2. /\ clk_per_bit \in Rates /\ clk_per_bit \in Nat /\ HalfBit \in Nat
        /\ Skew(clk_per_bit) \in Nat
        /\ 2 * Skew(clk_per_bit) + 2 <= clk_per_bit
        /\ 2 * HalfBit + Skew(clk_per_bit) + 5 < 2 * clk_per_bit
    BY <1>1, RateFacts DEF LinkTypeOK
  <2>3. /\ Bits * clk_per_bit \in Nat /\ (DataWidth + 1) * clk_per_bit \in Nat
        /\ (DataWidth + 1) * clk_per_bit + 2 * clk_per_bit <= Bits * clk_per_bit
    BY <2>2, BitsFacts
  <2>4. Frame \in Frames /\ Time \in Nat /\ Carries(Frame, Time, Line)
    BY <1>1, <1>3, LineFacts
  <2>5. Time >= Bits * clk_per_bit - Skew(clk_per_bit)
    BY <1>3 DEF FrameDone
  <2>6. /\ Time > ReceivedAt /\ Time > 3 /\ Time - 1 \in Int /\ Time - 2 \in Int
        /\ Time - 2 > (DataWidth + 1) * clk_per_bit + Skew(clk_per_bit)
        /\ Time - 1 > (DataWidth + 1) * clk_per_bit + Skew(clk_per_bit)
        /\ Time > (DataWidth + 1) * clk_per_bit + Skew(clk_per_bit)
    BY <2>2, <2>3, <2>4, <2>5 DEF ReceivedAt
  <2>7. Line = 1
    BY <2>2, <2>4, <2>6, LateIsOne
  <2>8. rx.regInMeta = 1
    BY <2>1, <2>2, <2>4, <2>6, LateIsOne DEF Following
  <2>9. rx.regIn = 1
    BY <2>1, <2>2, <2>4, <2>6, LateIsOne DEF Following
  <2>10. Spent \in Nat /\ ReceivedAt \in Nat /\ Spent + 4 <= ReceivedAt
    BY <1>1, SpentBound
  <2>11. rx.state = "IDLE"
    BY <2>1, <2>4, <2>6, <2>10 DEF Following, Tracks
  <2>12. pending = None
    BY <2>1, <2>4, <2>6, <2>11 DEF Following, Tracks
  <2> QED BY <2>7, <2>8, <2>9, <2>11, <2>12
<1> QED BY <1>2, <1>3

\* One more clock of the frame, and the receiver one clock on.
LEMMA TracksStep ==
  ASSUME LinkTypeOK, RxTypeOK, clk_per_bit' = clk_per_bit, NEW line \in {0, 1},
         RxClock(line), NEW b \in Bytes, NEW t \in Nat,
         Carries(Packet(b), t - 2, rx.regIn), Tracks(b, t),
         pending' = IF Finishes THEN None ELSE pending
  PROVE  Tracks(b, t + 1)'
<1>1. /\ clk_per_bit \in Rates /\ clk_per_bit \in Nat /\ HalfBit \in Nat
      /\ Skew(clk_per_bit) \in Nat /\ Skew(clk_per_bit) <= HalfBit
      /\ DataWidth \in Nat /\ (DataWidth + 1) * clk_per_bit \in Nat
  BY RateFacts, WidthFacts, BitsFacts DEF LinkTypeOK
<1>2. ReceivedAt' = ReceivedAt /\ ReceivedAt \in Nat /\ Spent \in Nat
  BY SpentBound DEF ReceivedAt, HalfBit
<1>3. Packet(b) \in Frames
  BY DEF Frames
<1>4. CASE rx.state = "IDLE"
  <2>1. /\ rx'.state = (IF rx.regIn = 0 THEN "START" ELSE "IDLE") /\ Spent' = 0
        /\ ~Finishes /\ pending' = pending
    BY <1>4, RxClockStep DEF Finishes
  <2>2. CASE t <= 3 /\ pending = b
    <3>1. t < 3 => rx.regIn = 1
      BY <2>2 DEF Carries
    <3>2. t = 3 => rx.regIn = 0
      <4>1. t = 3 => t - 2 = 1
        OBVIOUS
      <4> QED BY <1>1, <4>1, FirstIsZero
    <3> QED BY <2>1, <2>2, <3>1, <3>2 DEF Tracks
  <2>3. CASE t > ReceivedAt /\ pending = None
    <3>1. t - 2 \in Int /\ t - 2 > (DataWidth + 1) * clk_per_bit + Skew(clk_per_bit)
      BY <1>1, <2>3 DEF ReceivedAt
    <3>2. rx.regIn = 1
      BY <1>1, <1>3, <3>1, LateIsOne
    <3> QED BY <1>2, <2>1, <2>3, <3>2 DEF Tracks
  <2> QED BY <1>4, <2>2, <2>3 DEF Tracks
<1>5. CASE rx.state = "START"
  <2>1. RxStart(line)
    BY <1>5 DEF RxClock, RxIdle, RxReceive, RxDone
  <2>2. /\ rx'.state \in {"START", "RECEIVE"} /\ rx'.index = 0 /\ Spent' = Spent + 1
        /\ pending' = pending
    BY <1>5, <2>1, RxStartStep DEF Finishes
  <2>3. t = Spent + 4 /\ pending = b
    BY <1>5 DEF Tracks
  <2> QED BY <1>2, <2>2, <2>3 DEF Tracks
<1>6. CASE rx.state = "RECEIVE"
  <2>1. RxReceive(line)
    BY <1>6 DEF RxClock, RxIdle, RxStart, RxDone
  <2>2. /\ rx'.state \in {"RECEIVE", "DONE"} /\ Spent' = Spent + 1 /\ pending' = pending
    BY <1>6, <2>1, RxReceiveStep DEF Finishes
  <2>3. /\ t = Spent + 4 /\ pending = b /\ \A i \in 0 .. rx.index - 1 : rx.dataOut[i] = b[i]
    BY <1>6 DEF Tracks
  <2>4. rx.index \in 0 .. DataWidth /\ rx.dataOut \in Bytes
    BY DEF RxTypeOK, RxRecord
  <2>5. CASE rx'.index = rx.index /\ rx'.dataOut = rx.dataOut /\ rx'.state = "RECEIVE"
    BY <1>2, <2>2, <2>3, <2>5 DEF Tracks
  <2>6. CASE rx'.dataOut = rx.dataOut /\ rx'.state = "DONE" /\ rx.index = DataWidth
    <3>1. rx.dataOut = b
      BY <2>3, <2>4, <2>6 DEF Bytes
    <3> QED BY <1>2, <2>2, <2>3, <2>6, <3>1 DEF Tracks
  <2>7. CASE /\ rx.index < DataWidth /\ rx'.state = "RECEIVE"
             /\ Spent = HalfBit + (rx.index + 1) * clk_per_bit
             /\ rx'.index = rx.index + 1
             /\ rx'.dataOut = [rx.dataOut EXCEPT ![rx.index] = rx.regIn]
    <3>1. rx.index \in 0 .. DataWidth - 1 /\ (rx.index + 1) * clk_per_bit \in Nat
      BY <1>1, <2>4, <2>7
    <3>2. t - 2 = HalfBit + 2 + (rx.index + 1) * clk_per_bit
      BY <1>1, <2>3, <2>7, <3>1
    <3>3. rx.regIn = b[rx.index]
      BY <1>1, <3>1, <3>2, MiddleIsBit
    <3>4. ASSUME NEW i \in 0 .. rx'.index - 1 PROVE rx'.dataOut[i] = b[i]
      <4>1. rx'.index = rx.index + 1 /\ rx.index \in 0 .. DataWidth - 1 /\ DataWidth \in Nat
        BY <1>1, <2>7, <3>1
      <4>2. i \in 0 .. DataWidth - 1 /\ (i = rx.index \/ i \in 0 .. rx.index - 1)
        BY <4>1
      <4> QED BY <2>3, <2>4, <2>7, <3>3, <4>2 DEF Bytes
    <3> QED BY <1>2, <2>2, <2>3, <2>7, <3>4 DEF Tracks
  <2> QED BY <2>1, <2>2, <2>5, <2>6, <2>7, RxReceiveStep
<1>7. CASE rx.state = "DONE"
  <2>1. RxDone(line)
    BY <1>7 DEF RxClock, RxIdle, RxStart, RxReceive
  <2>2. t = Spent + 4 /\ pending = b /\ rx.dataOut = b
    BY <1>7 DEF Tracks
  <2>3. CASE Finishes
    <3>1. rx'.state = "IDLE" /\ Spent + 4 = ReceivedAt /\ pending' = None
      BY <2>1, <2>3, RxDoneStep
    <3> QED BY <1>2, <2>2, <3>1 DEF Tracks
  <2>4. CASE ~Finishes
    <3>1. rx'.state = "DONE" /\ rx'.dataOut = rx.dataOut /\ Spent' = Spent + 1 /\ pending' = pending
      BY <2>1, <2>4, RxDoneStep
    <3> QED BY <1>2, <2>2, <3>1 DEF Tracks
  <2> QED BY <2>3, <2>4
<1> QED BY <1>4, <1>5, <1>6, <1>7 DEF RxTypeOK, RxRecord

-----------------------------------------------------------------------------
(* The inductive invariant holds.                                          *)

LEMMA InitInv == Init => IInv
<1> SUFFICES ASSUME Init PROVE IInv
  OBVIOUS
<1>1. /\ clk_per_bit \in Rates /\ wire \in {"host", "loop"} /\ host = HostIdle /\ tx = TxReady
      /\ synced = TRUE /\ idle = 0 /\ pending = None
      /\ rx = [regInMeta |-> 1, regIn |-> 1, state |-> "IDLE", clkCount |-> 0,
               index |-> 0, dataOut |-> Zeros, done |-> FALSE, out |-> Zeros]
  BY DEF Init, RxInit, TxInit
<1>2. 0 \in 0 .. DataWidth /\ 0 \in 0 .. Bits - 1 /\ 0 \in 0 .. clk_per_bit - 1
  BY <1>1, RateFacts, WidthFacts
<1>3. LinkTypeOK
  BY <1>1 DEF LinkTypeOK
<1>4. RxTypeOK
  BY <1>1, <1>2, ZerosType DEF RxTypeOK, RxRecord
<1>5. HostInv
  BY <1>1 DEF HostInv, HostIdle
<1>6. TxInv
  BY <1>1, <1>2 DEF TxInv, TxReady
<1>7. UpInv /\ DownInv
  BY <1>1 DEF UpInv, DownInv, Sending, TxReady
<1> QED BY <1>3, <1>4, <1>5, <1>6, <1>7 DEF IInv

LEMMA WatchType ==
  ASSUME LinkTypeOK, UNCHANGED <<clk_per_bit, wire>>, NEW sent \in Bytes \cup {None}, Watch(sent)
  PROVE  LinkTypeOK'
BY DEF LinkTypeOK, Watch

\* A line that is up stays up, and what is sent on it is being received.
LEMMA UpStep ==
  ASSUME IInv, synced, Clock
  PROVE  UpInv' /\ synced'
<1>1. SenderInv /\ LinkTypeOK /\ RxTypeOK /\ UNCHANGED <<clk_per_bit, wire>>
  BY DEF IInv, SenderInv, Clock
<1>2. Line \in {0, 1} /\ RxClock(Line)
  BY <1>1, LineFacts DEF Clock
<1>3. rx'.regInMeta = Line /\ rx'.regIn = rx.regInMeta
  BY <1>1, <1>2, RxClockStep
<1>4. ASSUME Sending => FrameDone
      PROVE  /\ rx'.state = "IDLE" /\ rx'.regInMeta = 1 /\ rx'.regIn = 1
             /\ ~Finishes /\ pending = None
  <2>1. /\ rx.state = "IDLE" /\ pending = None
        /\ Line = 1 /\ rx.regInMeta = 1 /\ rx.regIn = 1
    BY <1>4, QuietLine
  <2> QED BY <1>1, <1>2, <1>3, <2>1, RxClockStep DEF Finishes
<1>5. ASSUME NEW b \in Bytes, Begins(b), Watch(b) PROVE UpInv' /\ synced'
  <2>1. /\ rx'.state = "IDLE" /\ rx'.regInMeta = 1 /\ rx'.regIn = 1
    BY <1>4, <1>5 DEF Begins
  <2>2. synced' /\ pending' = b
    BY <1>5, LinkAssumption DEF Watch
  <2>3. Sending' /\ Frame' = Packet(b) /\ Time' \in {0, 1}
    BY <1>5 DEF Begins
  <2>4. Time' - 1 <= 0 /\ Time' - 2 <= 0
    <3>1. \A t \in {0, 1} : t - 1 <= 0 /\ t - 2 <= 0
      OBVIOUS
    <3> QED BY <2>3, <3>1
  <2>5. Carries(Frame, Time - 1, rx.regInMeta)' /\ Carries(Frame, Time - 2, rx.regIn)'
    BY <2>1, <2>4 DEF Carries
  <2>6. Tracks(b, Time)'
    BY <2>1, <2>2, <2>3 DEF Tracks
  <2> QED BY <2>2, <2>3, <2>5, <2>6 DEF UpInv, Following
<1>6. ASSUME Continues, Watch(None) PROVE UpInv' /\ synced'
  <2>1. Sending /\ Sending' /\ Frame' = Frame /\ Time' = Time + 1
    BY <1>6 DEF Continues
  <2>2. Frame \in Frames /\ Time \in Nat /\ Carries(Frame, Time, Line)
    BY <1>1, <2>1, LineFacts
  <2>3. PICK b \in Bytes : Following(b)
    BY <2>1 DEF IInv, UpInv
  <2>4. synced' /\ pending' = IF Finishes THEN None ELSE pending
    BY <1>6 DEF Watch
  <2>5. PICK t \in Nat : t = Time
    BY <2>2
  <2>6. Carries(Packet(b), t - 2, rx.regIn) /\ Tracks(b, t)
    BY <2>3, <2>5 DEF Following
  <2>7. Tracks(b, t + 1)'
    BY <1>1, <1>2, <2>4, <2>6, TracksStep
  <2>8. Tracks(b, Time)'
    BY <2>1, <2>5, <2>7 DEF Tracks
  <2>9. Frame' = Packet(b) /\ Time' = t + 1 /\ Time' - 1 = t /\ Time' - 2 = t - 1
    BY <2>1, <2>3, <2>5 DEF Following
  <2>10. Carries(Packet(b), t, Line) /\ Carries(Packet(b), t - 1, rx.regInMeta)
    BY <2>1, <2>2, <2>3, <2>5, <2>9 DEF Following
  <2>11. Carries(Frame, Time - 1, rx.regInMeta)'
    BY <1>1, <1>3, <2>9, <2>10 DEF Carries
  <2>12. Carries(Frame, Time - 2, rx.regIn)'
    BY <1>1, <1>3, <2>9, <2>10 DEF Carries
  <2> QED BY <2>1, <2>4, <2>8, <2>9, <2>11, <2>12 DEF UpInv, Following
<1>7. ASSUME Ends \/ Rests, Watch(None) PROVE UpInv' /\ synced'
  <2>1. (Sending => FrameDone) /\ ~Sending'
    BY <1>7 DEF Ends, Rests
  <2>2. /\ rx'.state = "IDLE" /\ rx'.regInMeta = 1 /\ rx'.regIn = 1
        /\ ~Finishes /\ pending = None
    BY <1>4, <2>1
  <2>3. synced' /\ pending' = None
    BY <1>7, <2>2 DEF Watch
  <2> QED BY <2>1, <2>2, <2>3 DEF UpInv
<1> QED BY <1>1, <1>5, <1>6, <1>7, SenderClockStep DEF Clock

\* Any frame being received when the line went quiet is over before a frame's time is.
LEMMA QuietLongEnough ==
  ASSUME IInv, ~synced, idle = FrameClocks
  PROVE  /\ ~Sending /\ rx.state = "IDLE" /\ pending = None
         /\ Line = 1 /\ rx.regInMeta = 1 /\ rx.regIn = 1
<1>1. SenderInv /\ LinkTypeOK /\ RxTypeOK /\ DownInv
  BY DEF IInv, SenderInv
<1>2. /\ clk_per_bit \in Rates /\ clk_per_bit \in Nat /\ clk_per_bit >= 6 /\ HalfBit \in Nat
      /\ 2 * HalfBit + 1 <= clk_per_bit
  BY <1>1, RateFacts DEF LinkTypeOK
<1>3. /\ Bits * clk_per_bit \in Nat /\ (DataWidth + 1) * clk_per_bit \in Nat
      /\ (DataWidth + 1) * clk_per_bit + 2 * clk_per_bit <= Bits * clk_per_bit
  BY <1>2, BitsFacts
<1>4. idle = Bits * clk_per_bit
  BY DEF FrameClocks, Bits
<1>5. Spent \in Nat /\ ReceivedAt \in Nat /\ Spent + 4 <= ReceivedAt
  BY <1>1, SpentBound
<1>6. ReceivedAt < idle + 2 /\ idle > 1
  BY <1>2, <1>3, <1>4 DEF ReceivedAt
<1>7. idle \in Nat /\ ~(idle <= Spent + 2)
  BY <1>1, <1>5, <1>6 DEF LinkTypeOK
<1>8. rx.state = "IDLE" /\ ~Sending /\ pending = None /\ rx.regInMeta = 1 /\ rx.regIn = 1
  BY <1>1, <1>6, <1>7 DEF DownInv
<1> QED BY <1>1, <1>8, LineFacts

LEMMA DownStep ==
  ASSUME IInv, ~synced, Clock
  PROVE  UpInv' /\ DownInv'
<1>1. SenderInv /\ LinkTypeOK /\ RxTypeOK /\ DownInv /\ UNCHANGED <<clk_per_bit, wire>>
  BY DEF IInv, SenderInv, Clock
<1>2. Line \in {0, 1} /\ RxClock(Line) /\ (~Sending => Line = 1)
  BY <1>1, LineFacts DEF Clock
<1>3. /\ rx'.regInMeta = Line /\ rx'.regIn = rx.regInMeta
      /\ ~Finishes => ~rx'.done /\ rx'.out = rx.out
      /\ Finishes => rx'.state = "IDLE"
      /\ rx.state = "IDLE" => /\ rx'.state = IF rx.regIn = 0 THEN "START" ELSE "IDLE"
                              /\ Spent' = 0
      /\ rx.state # "IDLE" /\ ~Finishes => rx'.state # "IDLE" /\ Spent' = Spent + 1
  BY <1>1, <1>2, RxClockStep
<1>4. idle \in Nat /\ Spent \in Nat
  BY <1>1, SpentBound DEF LinkTypeOK
<1>5. LinkTypeOK' /\ (RxTypeOK' /\ LinkTypeOK' => Spent' \in Nat)
  <2>1. (RxTypeOK /\ LinkTypeOK => Spent \in Nat)'
    BY SpentBound, PTL
  <2>2. LinkTypeOK'
    BY <1>1, SenderClockStep, WatchType DEF Clock
  <2> QED BY <2>1, <2>2
<1>6. RxTypeOK' /\ Spent' \in Nat
  BY <1>1, <1>2, <1>5, RxClockStep
<1>7. ASSUME NEW b \in Bytes, Begins(b), Watch(b) PROVE UpInv' /\ DownInv'
  <2>1. ~synced' /\ pending' = None /\ idle' = 0
    BY <1>1, <1>7, LinkAssumption DEF Watch, DownInv
  <2>2. idle' <= Spent' + 2 /\ ~(idle' > 0) /\ ~(idle' > 1)
    <3>1. \A s \in Nat : 0 <= s + 2 /\ ~(0 > 0) /\ ~(0 > 1)
      OBVIOUS
    <3> QED BY <1>6, <2>1, <3>1
  <2> QED BY <2>1, <2>2 DEF UpInv, DownInv
<1>8. ASSUME Continues \/ Ends \/ Rests, Watch(None) PROVE UpInv' /\ DownInv'
  <2>1. pending' = None /\ (synced' <=> idle = FrameClocks)
        /\ idle' = IF Sending THEN 0 ELSE idle + 1
    BY <1>1, <1>8 DEF Watch, DownInv
  <2>2. CASE idle = FrameClocks
    <3>1. /\ ~Sending /\ rx.state = "IDLE" /\ Line = 1 /\ rx.regInMeta = 1 /\ rx.regIn = 1
      BY <2>2, QuietLongEnough
    <3>2. ~Sending'
      BY <1>8, <3>1 DEF Continues, Ends, Rests
    <3> QED BY <1>3, <2>1, <2>2, <3>1, <3>2 DEF UpInv, DownInv
  <2>3. CASE idle # FrameClocks
    <3>1. ~synced'
      BY <2>1, <2>3
    <3>2. idle' > 0 => ~Sending' /\ rx'.regInMeta = 1
      BY <1>2, <1>3, <1>8, <2>1 DEF Continues, Ends, Rests
    <3>3. idle' > 1 => rx'.regIn = 1
      BY <1>1, <1>3, <1>4, <2>1 DEF DownInv
    <3>4. rx'.state # "IDLE" => idle' <= Spent' + 2
      <4>1. SUFFICES ASSUME rx'.state # "IDLE", idle' = idle + 1 PROVE idle' <= Spent' + 2
        BY <1>6, <2>1
      <4>2. CASE rx.state = "IDLE"
        <5>1. rx.regIn # 1 /\ Spent' = 0
          BY <1>3, <4>1, <4>2
        <5>2. ~(idle > 1)
          BY <1>1, <5>1 DEF DownInv
        <5> QED BY <1>4, <4>1, <5>1, <5>2
      <4>3. CASE rx.state # "IDLE"
        <5>1. idle <= Spent + 2
          BY <1>1, <4>3 DEF DownInv
        <5>2. Spent' = Spent + 1
          BY <1>3, <4>1, <4>3
        <5> QED BY <1>4, <4>1, <5>1, <5>2
      <4> QED BY <4>2, <4>3
    <3> QED BY <2>1, <3>1, <3>2, <3>3, <3>4 DEF UpInv, DownInv
  <2> QED BY <2>2, <2>3
<1> QED BY <1>1, <1>7, <1>8, SenderClockStep DEF Clock

LEMMA ResetStep ==
  ASSUME IInv, Reset
  PROVE  IInv' /\ ~synced' /\ pending' = None
<1>1. SenderInv /\ LinkTypeOK /\ RxTypeOK
  BY DEF IInv, SenderInv
<1>2. Line \in {0, 1}
  BY <1>1, LineFacts
<1>3. /\ RxReset(Line) /\ UNCHANGED <<clk_per_bit, wire>>
      /\ synced' = FALSE /\ idle' = 0 /\ pending' = None
  BY DEF Reset
<1>4. rx' \in RxRecord /\ rx'.state = "IDLE" /\ rx'.done = FALSE
  <2>1. Sampled(Line) \in RxRecord
    BY <1>1, <1>2, SampledFacts
  <2>2. 0 \in 0 .. DataWidth
    BY WidthFacts
  <2> QED BY <1>3, <2>1, <2>2, ZerosType DEF RxReset, RxRecord
<1>5. RxTypeOK'
  BY <1>4 DEF RxTypeOK
<1>6. LinkTypeOK'
  BY <1>1, <1>3 DEF LinkTypeOK
<1>7. UpInv' /\ DownInv'
  BY <1>3, <1>4 DEF UpInv, DownInv
<1> QED BY <1>1, <1>3, <1>5, <1>6, <1>7, SenderResetStep DEF IInv

LEMMA InvStep == IInv /\ [Next]_linkVars => IInv'
<1> SUFFICES ASSUME IInv, [Next]_linkVars PROVE IInv'
  OBVIOUS
<1>1. SenderInv /\ LinkTypeOK /\ RxTypeOK
  BY DEF IInv, SenderInv
<1>2. CASE Clock
  <2>1. Line \in {0, 1} /\ RxClock(Line) /\ UNCHANGED <<clk_per_bit, wire>>
    BY <1>1, <1>2, LineFacts DEF Clock
  <2>2. RxTypeOK'
    BY <1>1, <2>1, RxClockStep
  <2>3. HostInv' /\ TxInv' /\ LinkTypeOK'
    BY <1>1, <1>2, <2>1, SenderClockStep, WatchType DEF Clock
  <2>4. UpInv' /\ DownInv'
    <3>1. CASE synced
      BY <1>2, <3>1, UpStep DEF DownInv
    <3>2. CASE ~synced
      BY <1>2, <3>2, DownStep
    <3> QED BY <3>1, <3>2
  <2> QED BY <2>2, <2>3, <2>4 DEF IInv
<1>3. CASE Reset
  BY <1>3, ResetStep
<1>4. CASE UNCHANGED linkVars
  <2>1. UNCHANGED <<clk_per_bit, rx, tx, wire, host, synced, idle, pending>>
    BY <1>4 DEF linkVars
  <2>2. LinkTypeOK' /\ RxTypeOK'
    BY <1>1, <2>1 DEF LinkTypeOK, RxTypeOK, HalfBit
  <2>3. HostInv' /\ TxInv' /\ UpInv' /\ DownInv'
    BY <2>1 DEF IInv, HostInv, TxInv, UpInv, DownInv, Carries, Time, Frame, Sending,
                Following, Tracks, Spent, ReceivedAt, HalfBit
  <2> QED BY <2>2, <2>3 DEF IInv
<1> QED BY <1>2, <1>3, <1>4 DEF Next

-----------------------------------------------------------------------------
(* The line implements the channel.                                        *)

LEMMA ChannelInit == Init => Channel!Init
BY ZerosType DEF Init, RxInit, Channel!Init

LEMMA ChannelStep ==
  ASSUME IInv, [Next]_linkVars
  PROVE  [Channel!Next]_(Channel!chanVars)
<1>1. /\ SenderInv /\ LinkTypeOK /\ RxTypeOK /\ rx \in RxRecord /\ synced \in BOOLEAN
      /\ rx.done => rx.state = "IDLE"
  BY DEF IInv, SenderInv, RxTypeOK, LinkTypeOK
<1>2. RxTypeOK' /\ LinkTypeOK' /\ rx'.out \in Bytes /\ rx'.done \in BOOLEAN /\ synced' \in BOOLEAN
  BY InvStep DEF IInv, RxTypeOK, RxRecord, LinkTypeOK
<1>3. CASE Reset
  <2>1. ~synced' /\ pending' = None
    BY <1>3, ResetStep
  <2> QED BY <1>2, <2>1 DEF Channel!Next, Channel!Down
<1>4. CASE UNCHANGED linkVars
  BY <1>4 DEF linkVars, Channel!chanVars
<1>5. ASSUME Clock PROVE [Channel!Next]_(Channel!chanVars)
  <2>1. /\ Line \in {0, 1} /\ RxClock(Line) /\ UNCHANGED <<clk_per_bit, wire>>
    BY <1>1, <1>5, LineFacts DEF Clock
  <2>2. /\ Finishes => rx'.done /\ rx'.out = rx.dataOut /\ ~rx.done
        /\ ~Finishes => ~rx'.done /\ rx'.out = rx.out
    BY <1>1, <2>1, RxClockStep
  <2>3. ASSUME synced, NEW b \in Bytes, Begins(b), Watch(b) PROVE Channel!Send
    <3>1. rx.state = "IDLE" /\ pending = None
      BY <2>3, QuietLine DEF Begins
    <3>2. synced' = synced /\ pending' = b
      BY <1>1, <1>2, <2>3, LinkAssumption DEF Watch
    <3>3. rx'.done = FALSE /\ rx'.out = rx.out
      BY <1>2, <2>2, <3>1 DEF Finishes
    <3> QED BY <2>3, <3>1, <3>2, <3>3 DEF Channel!Send
  <2>4. ASSUME synced, Watch(None) PROVE [Channel!Next]_(Channel!chanVars)
    <3>1. synced' = synced /\ pending' = IF Finishes THEN None ELSE pending
      BY <1>1, <1>2, <2>4 DEF Watch
    <3>2. CASE Finishes
      <4>1. rx.state = "DONE"
        BY <3>2 DEF Finishes
      <4>2. PICK b \in Bytes : Following(b)
        BY <2>4, <4>1 DEF IInv, UpInv
      <4>3. pending = b /\ rx.dataOut = b /\ b # None
        BY <4>1, <4>2, LinkAssumption DEF Following, Tracks
      <4>4. rx'.done = TRUE /\ rx'.out = b /\ ~rx.done
        BY <1>2, <2>2, <3>2, <4>3
      <4> QED BY <2>4, <3>1, <3>2, <4>3, <4>4 DEF Channel!Next, Channel!Receive
    <3>3. CASE ~Finishes
      <4>1. rx'.done = FALSE /\ rx'.out = rx.out /\ pending' = pending
        BY <1>2, <2>2, <3>1, <3>3
      <4>2. CASE rx.done
        BY <2>4, <3>1, <4>1, <4>2 DEF Channel!Next, Channel!Clear
      <4>3. CASE ~rx.done
        <5>1. rx.done = FALSE
          BY <1>1, <4>3 DEF RxRecord
        <5> QED BY <3>1, <4>1, <5>1 DEF Channel!chanVars
      <4> QED BY <4>2, <4>3
    <3> QED BY <3>2, <3>3
  <2>5. CASE ~synced /\ ~synced'
    <3>1. pending' = None
      BY <1>5, <2>5, InvStep DEF IInv, DownInv
    <3> QED BY <1>2, <2>5, <3>1 DEF Channel!Next, Channel!Down
  <2>6. CASE ~synced /\ synced'
    <3>1. idle = FrameClocks /\ pending' = pending
      BY <1>1, <1>5, <2>1, <2>6, SenderClockStep DEF Watch, Clock
    <3>2. rx.state = "IDLE" /\ pending = None
      BY <2>6, <3>1, QuietLongEnough
    <3>3. ~rx'.done /\ rx'.out = rx.out
      BY <2>2, <3>2 DEF Finishes
    <3> QED BY <2>6, <3>1, <3>2, <3>3 DEF Channel!Next, Channel!Up
  <2>7. CASE synced
    BY <1>1, <1>5, <2>1, <2>3, <2>4, <2>7, SenderClockStep DEF Clock, Channel!Next
  <2> QED BY <2>5, <2>6, <2>7
<1> QED BY <1>3, <1>4, <1>5 DEF Next

\* The inductive invariant.
LEMMA LinkInv == Spec => []IInv
<1>1. Init => IInv
  BY InitInv
<1>2. IInv /\ [Next]_linkVars => IInv'
  BY InvStep
<1> QED BY <1>1, <1>2, PTL DEF Spec

\* While the line is up, UART_RX receives what UART_TX or a host puts on it: every
\* byte once and unchanged, in order and before the next one begins, and nothing
\* else; and a reset in mid-frame costs no more than the bytes sent until the line
\* has been idle for a frame (uart.sv:9-306).
THEOREM LinkDelivers == Spec => Channel!Safe
<1>1. Init => Channel!Init
  BY ChannelInit
<1>2. IInv /\ [Next]_linkVars => [Channel!Next]_(Channel!chanVars)
  BY ChannelStep
<1> QED BY <1>1, <1>2, LinkInv, PTL DEF Spec, Channel!Safe
=============================================================================
