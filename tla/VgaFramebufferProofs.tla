------------------------ MODULE VgaFramebufferProofs ------------------------
(***************************************************************************)
(* Type correctness, WholeFrames and ShowsLastFrame for every screen,      *)
(* every number of clocks an access takes (from two on) and every timing   *)
(* of the program.                                                         *)
(*                                                                         *)
(* The argument: a poll that returns clear was sampled after SWAP_PENDING  *)
(* fell (PollInv), so nothing is pending while the program draws           *)
(* (ProgramInv), the buffers stay as they are until the next request, and  *)
(* the drawing goes to the other buffer than the screen's.  What is        *)
(* finished is therefore one frame whenever it can come to the screen      *)
(* (BufferInv), and the pipeline of the scanout, a read and a register     *)
(* behind the beam, is refilled while the beam is outside the window,      *)
(* where all flips are (ScanInv).                                          *)
(***************************************************************************)
EXTENDS VgaFramebuffer, TLAPS

-----------------------------------------------------------------------------
(* The inductive invariant. *)

Holds(b, f) == \A r \in Rows : buf[b][r] = f

\* Nothing is requested or pending until the store of SWAP, and all the drawing is done in double-buffer mode.
ProgramInv ==
  /\ access # None => access = [op |-> stage, word |-> word, frame |-> frame]
  /\ stage # "enable" => double_buf_en
  /\ stage \in {"enable", "draw"} \/ (stage = "swap" /\ access = None) => ~swap_pending
  /\ stage = "enable" => finished = {} /\ word = 0
  /\ applied => access.op = "swap"

\* Edges of clk50 until the access in MEM is over.
EdgesLeft == 2 * clks - clk_phase

\* One edge into a poll the read is decoded; two edges into it, a STATUS that
\* reads clear is clear.
PollInv ==
  access.op = "poll" =>
    /\ EdgesLeft <= 2 * AccessClks
    /\ EdgesLeft < 2 * AccessClks => status_d
    /\ EdgesLeft < 2 * AccessClks - 1 /\ ~rdata => ~swap_pending

\* The rows drawn so far; what is finished and may be flipped to is one frame.
BufferInv ==
  /\ stage = "draw" => \A r \in Rows : r < word => buf[1 - front_buf][r] = frame
  /\ stage \in {"swap", "poll"} => \A b \in finished : \E f \in Frames : Holds(b, f)

\* Every register of the scanout holds the frame of the buffer on the screen.
ScanInv ==
  front_buf \in finished =>
    /\ Holds(front_buf, scan_dout[front_buf])
    /\ mono_pixel # Blank => mono_pixel = scan_dout[front_buf]
    /\ shown # Blank => shown = scan_dout[front_buf]

\* The swap asked for has been made.
Flipped == IF stage = "swap" THEN applied ELSE ~swap_pending

LastFrameInv ==
  ~repeated =>
    /\ stage = "draw" /\ finished # {} => Holds(front_buf, (frame + 2) % 3)
    /\ stage \in {"swap", "poll"} =>
         /\ Holds(IF Flipped THEN front_buf ELSE 1 - front_buf, frame)
         /\ (IF Flipped THEN front_buf ELSE 1 - front_buf) \in finished

IInv == TypeOK /\ ProgramInv /\ PollInv /\ BufferInv /\ ScanInv /\ LastFrameInv

-----------------------------------------------------------------------------
LEMMA Positive ==
  /\ HCount \in Nat \ {0} /\ VCount \in Nat \ {0}
  /\ ClkDiv \in Nat \ {0} /\ AccessClks \in Nat \ {0}
  /\ Gaps \subseteq Nat \ {0}
BY VgaAssumption, Zenon

LEMMA Remainder == ASSUME NEW i \in Nat, NEW n \in Nat \ {0} PROVE i % n \in 0..(n - 1)
OBVIOUS

(* The rows of the screen and the word under the beam. *)

LEMMA FirstRowIsFirst ==
  \E first, last \in Nat : first <= last /\ VActive = first..last /\ FirstRow = first
<1>1. PICK first \in 1..(VCount - 1), last \in 1..(VCount - 1) :
        first <= last /\ VActive = first..last
  BY VgaAssumption
<1>2. first \in VActive /\ \A w \in VActive : first <= w
  BY <1>1, VgaAssumption
<1>3. FirstRow \in VActive /\ \A w \in VActive : FirstRow <= w
  BY <1>2, Zenon DEF FirstRow
<1> QED
  BY <1>1, <1>2, <1>3, VgaAssumption

LEMMA RowsFromZero == \E last \in Nat : Rows = 0..last
<1>1. PICK first, last \in Nat : first <= last /\ VActive = first..last /\ FirstRow = first
  BY FirstRowIsFirst
<1>2. Rows = {v - first : v \in first..last}
  BY <1>1 DEF Rows
<1>3. last - first \in Nat
  BY <1>1
<1>4. ASSUME NEW r \in 0..(last - first) PROVE r \in Rows
  <2>1. r + first \in first..last /\ r = (r + first) - first
    BY <1>1
  <2> QED
    BY <1>2, <2>1
<1>5. Rows \subseteq 0..(last - first)
  BY <1>1, <1>2
<1> QED
  BY <1>3, <1>4, <1>5

LEMMA RowsAreNat == Rows \subseteq Nat
BY RowsFromZero

LEMMA ScanInRows == scan_word_addr \in Rows
<1>1. 0 \in Rows
  BY RowsFromZero
<1> QED
  BY <1>1 DEF scan_word_addr, Rows, active

\* No pixel is drawn in a clock in which the buffers may flip.
LEMMA FlipsOutsideWindow == ASSUME Flips PROVE ~active
BY VgaAssumption DEF Flips, frame_start, active

-----------------------------------------------------------------------------
(* What an edge of the core's clock does to the program. *)

Going == UNCHANGED <<access, clks, stage, word, frame>>

Waits == clks > 1 /\ clks' = clks - 1 /\ UNCHANGED <<access, stage, word, frame>>

Begins ==
  /\ clks = 1 /\ access = None
  /\ access' = [op |-> stage, word |-> word, frame |-> frame] /\ clks' = AccessClks
  /\ UNCHANGED <<stage, word, frame>>

Ends(pending) ==
  /\ clks = 1 /\ access # None
  /\ access' = None /\ clks' \in Gaps
  /\ AfterAccess(pending)

LEMMA CoreCases ==
  ASSUME Core
  PROVE  /\ clk_phase' = 1 - clk_phase
         /\ \/ clk_phase = 0 /\ Going
            \/ clk_phase = 1 /\ (Waits \/ Begins \/ \E pending \in {rdata, rdata'} : Ends(pending))
BY DEF Core, CoreEdge, Going, Waits, Begins, Ends

LEMMA AfterAccessCases ==
  ASSUME TypeOK, NEW pending \in BOOLEAN, AfterAccess(pending)
  PROVE  \/ stage = "enable" /\ stage' = "draw" /\ UNCHANGED <<word, frame>>
         \/ stage = "draw" /\ word + 1 \in Rows /\ word' = word + 1 /\ UNCHANGED <<stage, frame>>
         \/ stage = "draw" /\ word + 1 \notin Rows /\ stage' = "swap" /\ UNCHANGED <<word, frame>>
         \/ stage = "swap" /\ stage' = "poll" /\ UNCHANGED <<word, frame>>
         \/ stage = "poll" /\ pending /\ UNCHANGED <<stage, word, frame>>
         \/ stage = "poll" /\ ~pending /\ stage' = "draw" /\ word' = 0 /\ frame' = (frame + 1) % 3
<1>1. stage \in {"enable", "draw", "swap", "poll"}
  BY DEF TypeOK, Stages
<1>2. CASE stage = "enable"
  BY <1>2 DEF AfterAccess
<1>3. CASE stage = "draw"
  BY <1>3 DEF AfterAccess
<1>4. CASE stage = "swap"
  BY <1>4 DEF AfterAccess
<1>5. CASE stage = "poll"
  BY <1>5 DEF AfterAccess
<1> QED
  BY <1>1, <1>2, <1>3, <1>4, <1>5

-----------------------------------------------------------------------------
(* Type correctness. *)

LEMMA InitType == ASSUME Init PROVE TypeOK
<1>1. 0 \in Rows
  BY RowsFromZero
<1>2. /\ clk_div_count \in 0..(ClkDiv - 1)
      /\ h_count \in 0..(HCount - 1) /\ v_count \in 0..(VCount - 1)
  BY Positive DEF Init
<1>3. /\ pixel_en \in BOOLEAN
      /\ double_buf_en \in BOOLEAN /\ front_buf \in Buffers /\ swap_pending \in BOOLEAN
      /\ mono_pixel \in Frames \cup {Blank} /\ shown \in Frames \cup {Blank}
      /\ status_d \in BOOLEAN /\ rdata \in BOOLEAN
      /\ applied \in BOOLEAN /\ repeated \in BOOLEAN /\ finished \subseteq Buffers
  BY Zenon DEF Init, Buffers, Blank
<1>4. buf \in [Buffers -> [Rows -> Frames]] /\ scan_dout \in [Buffers -> Frames]
  BY DEF Init, Frames
<1>5. access \in [op : Stages \cup {"none"}, word : Rows, frame : Frames]
  BY <1>1 DEF Init, None, Frames
<1>6. /\ clk_phase \in {0, 1} /\ clks \in Nat \ {0}
      /\ stage \in Stages /\ word \in Rows /\ frame \in Frames
  BY <1>1, Positive DEF Init, Stages, Frames
<1> QED
  BY <1>2, <1>3, <1>4, <1>5, <1>6 DEF TypeOK

LEMMA DrawType == ASSUME TypeOK, Draw PROVE buf' \in [Buffers -> [Rows -> Frames]]
<1>1. draw_buf_sel \in Buffers
  BY DEF TypeOK, Buffers, draw_buf_sel
<1>2. access.word \in Rows /\ access.frame \in Frames
  BY DEF TypeOK
<1> QED
  BY <1>1, <1>2 DEF TypeOK, Draw

LEMMA ScanType == ASSUME TypeOK, ScanRead PROVE scan_dout' \in [Buffers -> Frames]
BY ScanInRows DEF TypeOK, ScanRead

LEMMA ClockType == ASSUME TypeOK, Clock PROVE TypeOK'
<1>1. pixel_en' \in BOOLEAN /\ clk_div_count' \in 0..(ClkDiv - 1)
  <2>1. clk_div_count + 1 \in Nat
    BY DEF TypeOK
  <2> QED
    BY <2>1, Positive, Remainder DEF TypeOK, Clock, PixelClock
<1>2. h_count' \in 0..(HCount - 1) /\ v_count' \in 0..(VCount - 1)
  <2>1. h_count + 1 \in Nat /\ v_count + 1 \in Nat
    BY DEF TypeOK
  <2> QED
    BY <2>1, Positive, Remainder DEF TypeOK, Clock, Beam
<1>3. double_buf_en' \in BOOLEAN /\ front_buf' \in Buffers /\ swap_pending' \in BOOLEAN
  BY DEF TypeOK, Clock, Control, Buffers, writes_ctrl, Requests, Flips, frame_start
<1>4. buf' \in [Buffers -> [Rows -> Frames]]
  BY DrawType DEF Clock
<1>5. scan_dout' \in [Buffers -> Frames]
  BY ScanType DEF Clock, Scanout
<1>6. mono_pixel' \in Frames \cup {Blank}
  BY DEF TypeOK, Clock, Scanout
<1>7. shown' \in Frames \cup {Blank}
  BY DEF TypeOK, Clock, History
<1>8. status_d' \in BOOLEAN /\ rdata' \in BOOLEAN
  BY DEF TypeOK, Clock, ReadPipeline
<1>9. /\ access' \in [op : Stages \cup {"none"}, word : Rows, frame : Frames]
      /\ clk_phase' \in {0, 1} /\ clks' \in Nat \ {0}
      /\ stage' \in Stages /\ word' \in Rows /\ frame' \in Frames
  <2>1. clk_phase' \in {0, 1}
    BY CoreCases DEF TypeOK, Clock
  <2>2. CASE Going
    BY <2>1, <2>2 DEF TypeOK, Going
  <2>3. CASE Waits
    BY <2>1, <2>3 DEF TypeOK, Waits
  <2>4. CASE Begins
    BY <2>1, <2>4, Positive DEF TypeOK, Begins
  <2>5. ASSUME NEW pending \in {rdata, rdata'}, Ends(pending)
        PROVE  /\ access' \in [op : Stages \cup {"none"}, word : Rows, frame : Frames]
               /\ clks' \in Nat \ {0}
               /\ stage' \in Stages /\ word' \in Rows /\ frame' \in Frames
    <3>1. pending \in BOOLEAN
      BY <1>8, <2>5 DEF TypeOK
    <3>2. 0 \in Rows
      BY RowsFromZero
    <3>3. access' \in [op : Stages \cup {"none"}, word : Rows, frame : Frames]
      BY <2>5, <3>2 DEF Ends, None, Frames
    <3>4. clks' \in Nat \ {0}
      BY <2>5, Positive DEF Ends
    <3>5. AfterAccess(pending)
      BY <2>5 DEF Ends
    <3>6. stage' \in Stages /\ word' \in Rows /\ frame' \in Frames
      <4>1. (frame + 1) % 3 \in Frames
        BY DEF TypeOK, Frames
      <4>2. /\ stage' \in {stage, "draw", "swap", "poll"}
            /\ word' \in {word, 0} \/ word' \in Rows
            /\ frame' \in {frame, (frame + 1) % 3}
        BY <3>1, <3>5, AfterAccessCases
      <4> QED
        BY <3>2, <4>1, <4>2 DEF TypeOK, Stages
    <3> QED
      BY <3>3, <3>4, <3>6
  <2> QED
    BY <2>1, <2>2, <2>3, <2>4, <2>5, CoreCases DEF Clock
<1>10. applied' \in BOOLEAN /\ repeated' \in BOOLEAN
  BY DEF TypeOK, Clock, History, Flips, Requests, frame_start
<1>11. finished' \subseteq Buffers
  BY DEF TypeOK, Clock, History, Buffers, draw_buf_sel
<1> QED
  BY <1>1, <1>2, <1>3, <1>4, <1>5, <1>6, <1>7, <1>8, <1>9, <1>10, <1>11 DEF TypeOK

LEMMA ResetType == ASSUME TypeOK, Reset PROVE TypeOK'
<1>1. buf' \in [Buffers -> [Rows -> Frames]] /\ scan_dout' \in [Buffers -> Frames]
  BY DrawType, ScanType DEF Reset
<1>2. 0 \in Rows
  BY RowsFromZero
<1>3. clk_div_count' \in 0..(ClkDiv - 1)
  BY Positive DEF Reset
<1>4. h_count' \in 0..(HCount - 1) /\ v_count' \in 0..(VCount - 1)
  BY Positive DEF Reset
<1>5. double_buf_en' \in BOOLEAN /\ front_buf' \in Buffers /\ swap_pending' \in BOOLEAN
  BY DEF Reset, ControlReset, Buffers
<1>6. access' \in [op : Stages \cup {"none"}, word : Rows, frame : Frames]
  BY <1>2 DEF Reset, None, Frames
<1>7. clk_phase' \in {0, 1} /\ clks' \in Nat \ {0}
  BY Positive DEF Reset, TypeOK
<1>8. stage' \in Stages /\ word' \in Rows /\ frame' \in Frames
  BY <1>2 DEF Reset, Stages, Frames
<1>9. /\ pixel_en' \in BOOLEAN
      /\ mono_pixel' \in Frames \cup {Blank} /\ shown' \in Frames \cup {Blank}
      /\ status_d' \in BOOLEAN /\ rdata' \in BOOLEAN
      /\ applied' \in BOOLEAN /\ repeated' \in BOOLEAN /\ finished' \subseteq Buffers
  BY Zenon DEF Reset, Blank
<1> QED
  BY <1>1, <1>3, <1>4, <1>5, <1>6, <1>7, <1>8, <1>9 DEF TypeOK

\* Every register of the framebuffer and of the core's access keeps its type,
\* on every screen and at every timing of the program.
THEOREM TypeCorrect == Spec => []TypeOK
<1>1. Init => TypeOK
  BY InitType
<1>2. TypeOK /\ [Next]_vars => TypeOK'
  <2>1. ASSUME TypeOK, UNCHANGED vars PROVE TypeOK'
    BY <2>1 DEF vars, timing, control, memory, core, history, TypeOK
  <2> QED
    BY <2>1, ClockType, ResetType DEF Next
<1> QED
  BY <1>1, <1>2, PTL DEF Spec

-----------------------------------------------------------------------------
(* The program and its polls. *)

\* A poll that returns clear leaves nothing pending.
LEMMA ClearMeansClear ==
  ASSUME IInv, Clock, NEW pending \in {rdata, rdata'}, Ends(pending),
         clk_phase = 1, stage = "poll", ~pending
  PROVE  ~swap_pending /\ ~swap_pending'
<1>1. access.op = "poll" /\ clks = 1 /\ EdgesLeft = 1 /\ AccessClks \in Nat /\ AccessClks > 1
  BY VgaAssumption, Positive DEF IInv, ProgramInv, Ends, EdgesLeft
<1>2. status_d /\ (~rdata => ~swap_pending)
  BY <1>1 DEF IInv, PollInv
<1>3. ~swap_pending
  BY <1>2 DEF IInv, TypeOK, Clock, ReadPipeline
<1> QED
  BY <1>1, <1>3 DEF Clock, Control, Requests

LEMMA ProgramStep == ASSUME IInv, Clock PROVE ProgramInv'
<1> USE DEF IInv, TypeOK, ProgramInv
<1>1. \/ Going
      \/ clk_phase = 1 /\ (Waits \/ Begins \/ \E pending \in {rdata, rdata'} : Ends(pending))
  BY CoreCases DEF Clock
<1>2. ~Requests /\ ~swap_pending => ~swap_pending'
  BY DEF Clock, Control
<1>3. Requests => access # None /\ stage = "swap"
  BY DEF Requests, None
<1>4. applied' => access' = access /\ access.op = "swap"
  BY DEF Clock, History
<1>5. double_buf_en => double_buf_en'
  BY DEF Clock, Control
<1>6. finished' # finished => stage = "draw" /\ stage' = "swap"
  BY DEF Clock, History
<1>7. CASE Going
  BY <1>2, <1>3, <1>4, <1>5, <1>6, <1>7 DEF Going
<1>8. CASE Waits
  BY <1>2, <1>3, <1>4, <1>5, <1>6, <1>8 DEF Waits
<1>9. CASE Begins
  BY <1>2, <1>3, <1>4, <1>5, <1>6, <1>9 DEF Begins
<1>10. ASSUME clk_phase = 1, NEW pending \in {rdata, rdata'}, Ends(pending) PROVE ProgramInv'
  <2>1. pending \in BOOLEAN /\ AfterAccess(pending)
    BY <1>10, ClockType DEF Ends
  <2>2. access # None /\ access' = None /\ access.op = stage
    BY <1>10 DEF Ends
  <2>3. stage = "enable" => double_buf_en'
    BY <2>2 DEF Clock, Control, writes_ctrl
  <2>4. stage = "poll" /\ ~pending => ~swap_pending'
    BY <1>10, ClearMeansClear
  <2>5. ~applied'
    BY <1>4, <2>2
  <2> QED
    BY <1>2, <1>3, <1>5, <1>6, <2>1, <2>2, <2>3, <2>4, <2>5, AfterAccessCases
<1> QED
  BY <1>1, <1>7, <1>8, <1>9, <1>10

LEMMA PollStep == ASSUME IInv, Clock PROVE PollInv'
<1> USE DEF IInv, TypeOK, PollInv, EdgesLeft
<1>1. SUFFICES ASSUME access'.op = "poll" PROVE PollInv'
  OBVIOUS
<1>2. clk_phase \in {0, 1} /\ clk_phase' = 1 - clk_phase /\ AccessClks \in Nat /\ AccessClks > 1
  BY CoreCases, VgaAssumption, Positive DEF Clock
<1>3. \/ clk_phase = 0 /\ Going
      \/ clk_phase = 1 /\ Waits
      \/ clk_phase = 1 /\ Begins
  <2>1. access' # None
    BY <1>1 DEF None
  <2> QED
    BY <2>1, CoreCases DEF Clock, Ends
<1>4. CASE clk_phase = 1 /\ Begins
  BY <1>2, <1>4 DEF Begins
<1>5. CASE (clk_phase = 0 /\ Going) \/ (clk_phase = 1 /\ Waits)
  <2>1. access' = access /\ access.op = "poll"
    BY <1>1, <1>5 DEF Going, Waits
  <2>2. clks \in Nat \ {0} /\ clks' \in Nat
    BY ClockType
  <2>3. EdgesLeft' = EdgesLeft - 1 /\ EdgesLeft \in Nat
    <3>1. CASE clk_phase = 0 /\ Going
      BY <1>2, <2>2, <3>1 DEF Going
    <3>2. CASE clk_phase = 1 /\ Waits
      BY <1>2, <2>2, <3>2 DEF Waits
    <3> QED
      BY <1>5, <3>1, <3>2
  <2>4. status_d' /\ (rdata' <=> status_d /\ swap_pending)
    BY <2>1 DEF Clock, ReadPipeline
  <2>5. swap_pending' => swap_pending
    BY <2>1 DEF Clock, Control, Requests
  <2> QED
    BY <1>2, <2>1, <2>3, <2>4, <2>5
<1> QED
  BY <1>3, <1>4, <1>5

-----------------------------------------------------------------------------
(* The buffers. *)

\* Nothing is flipped while the program draws or has not begun to.
LEMMA FlipsInTurn ==
  ASSUME IInv, Clock
  PROVE  /\ Flips => stage \in {"swap", "poll"} /\ ~is_draw_write /\ buf' = buf /\ front_buf' = 1 - front_buf
         /\ ~Flips => front_buf' = front_buf
<1>1. Flips => stage \in {"swap", "poll"}
  BY DEF IInv, TypeOK, Stages, ProgramInv, Flips
<1>2. is_draw_write => stage = "draw"
  BY DEF IInv, ProgramInv, is_draw_write, None
<1> QED
  BY <1>1, <1>2 DEF Clock, Control, Draw

\* The program draws behind the screen.
LEMMA DrawsBehind ==
  ASSUME IInv, Clock
  PROVE  /\ ~is_draw_write => buf' = buf
         /\ is_draw_write =>
              /\ stage = "draw" /\ draw_buf_sel = 1 - front_buf /\ front_buf' = front_buf
              /\ buf'[front_buf] = buf[front_buf]
              /\ \A r \in Rows : buf'[1 - front_buf][r] = IF r = word THEN frame ELSE buf[1 - front_buf][r]
<1>1. ~is_draw_write => buf' = buf
  BY DEF Clock, Draw
<1>2. ASSUME is_draw_write
      PROVE  /\ stage = "draw" /\ draw_buf_sel = 1 - front_buf /\ front_buf' = front_buf
             /\ access.word = word /\ access.frame = frame
  <2>1. access # None /\ access = [op |-> stage, word |-> word, frame |-> frame]
    BY <1>2 DEF IInv, ProgramInv, is_draw_write, None
  <2>2. stage = "draw" /\ access.word = word /\ access.frame = frame
    BY <1>2, <2>1 DEF is_draw_write
  <2>3. front_buf' = front_buf
    BY <2>2, FlipsInTurn
  <2> QED
    BY <2>2, <2>3 DEF IInv, ProgramInv, draw_buf_sel
<1>3. ASSUME is_draw_write
      PROVE  /\ buf'[front_buf] = buf[front_buf]
             /\ \A r \in Rows : buf'[1 - front_buf][r] = IF r = word THEN frame ELSE buf[1 - front_buf][r]
  <2>1. buf' = [buf EXCEPT ![1 - front_buf][word] = frame]
    BY <1>2, <1>3 DEF Clock, Draw
  <2>2. front_buf \in Buffers /\ 1 - front_buf \in Buffers /\ front_buf # 1 - front_buf
    BY DEF IInv, TypeOK, Buffers
  <2> QED
    BY <2>1, <2>2 DEF IInv, TypeOK
<1> QED
  BY <1>1, <1>2, <1>3

\* When the drawing of a frame is over, all of it is in the back buffer.
LEMMA DrawnWhole ==
  ASSUME IInv, Clock, stage = "draw", stage' = "swap"
  PROVE  /\ front_buf' = front_buf /\ frame' = frame
         /\ \A r \in Rows : buf'[1 - front_buf][r] = frame /\ buf'[front_buf][r] = buf[front_buf][r]
         /\ finished' = finished \cup {1 - front_buf}
<1>1. PICK pending \in {rdata, rdata'} : Ends(pending)
  BY CoreCases DEF Clock, Going, Waits, Begins
<1>2. pending \in BOOLEAN
  BY ClockType DEF IInv, TypeOK
<1>3. access # None /\ word + 1 \notin Rows /\ frame' = frame
  BY <1>1, <1>2, AfterAccessCases DEF IInv, Ends
<1>4. is_draw_write
  BY <1>3 DEF IInv, ProgramInv, is_draw_write
<1>5. \A r \in Rows : r <= word
  BY <1>3, RowsFromZero DEF IInv, TypeOK
<1>6. \A r \in Rows : r < word => buf[1 - front_buf][r] = frame
  BY DEF IInv, BufferInv
<1>7. \A r \in Rows : r = word \/ r < word
  BY <1>5, RowsAreNat DEF IInv, TypeOK
<1> QED
  BY <1>3, <1>4, <1>6, <1>7, DrawsBehind DEF Clock, History

LEMMA BufferStep == ASSUME IInv, Clock PROVE BufferInv'
<1> USE DEF IInv, TypeOK
<1>1. \/ stage' = stage /\ word' = word /\ frame' = frame
      \/ \E pending \in {rdata, rdata'} : Ends(pending)
  BY CoreCases DEF Clock, Going, Waits, Begins
<1>2. ASSUME stage' = "draw", NEW r \in Rows, r < word' PROVE buf'[1 - front_buf'][r] = frame'
  <2>1. CASE stage' = stage /\ word' = word /\ frame' = frame
    <3>1. buf[1 - front_buf][r] = frame
      BY <1>2, <2>1 DEF BufferInv
    <3> QED
      BY <1>2, <2>1, <3>1, FlipsInTurn, DrawsBehind
  <2>2. ASSUME NEW pending \in {rdata, rdata'}, Ends(pending) PROVE buf'[1 - front_buf'][r] = frame'
    <3>1. pending \in BOOLEAN /\ AfterAccess(pending) /\ access # None
      BY <2>2, ClockType DEF Ends
    <3>2. \/ stage = "draw" /\ word' = word + 1 /\ frame' = frame
          \/ word' = 0
          \/ UNCHANGED <<stage, word, frame>>
      BY <1>2, <3>1, AfterAccessCases DEF ProgramInv
    <3>3. CASE word' = 0
      BY <1>2, <3>3, RowsAreNat
    <3>4. CASE stage = "draw" /\ word' = word + 1 /\ frame' = frame
      <4>1. is_draw_write
        BY <3>1, <3>4 DEF ProgramInv, is_draw_write
      <4>2. r = word \/ r < word
        BY <1>2, <3>4, RowsAreNat
      <4> QED
        BY <3>4, <4>1, <4>2, DrawsBehind DEF BufferInv
    <3> QED
      BY <2>1, <3>2, <3>3, <3>4
  <2> QED
    BY <1>1, <2>1, <2>2
<1>3. \/ stage' \in {"enable", "draw"}
      \/ stage \in {"swap", "poll"}
      \/ stage = "draw" /\ stage' = "swap"
  <2>1. ASSUME NEW pending \in {rdata, rdata'}, Ends(pending)
        PROVE  \/ stage' \in {"enable", "draw"}
               \/ stage \in {"swap", "poll"}
               \/ stage = "draw" /\ stage' = "swap"
    <3>1. pending \in BOOLEAN /\ AfterAccess(pending)
      BY <2>1, ClockType DEF Ends
    <3> QED
      BY <3>1, AfterAccessCases
  <2> QED
    BY <1>1, <2>1 DEF Stages
<1>4. ASSUME stage' \in {"swap", "poll"}, NEW b \in finished'
      PROVE  \E f \in Frames : \A r \in Rows : buf'[b][r] = f
  <2>1. CASE stage \in {"swap", "poll"}
    BY <2>1, DrawsBehind DEF Clock, History, BufferInv, Holds
  <2>2. CASE stage = "draw" /\ stage' = "swap"
    <3>1. CASE b = 1 - front_buf
      <4>1. \A r \in Rows : buf'[b][r] = frame
        BY <2>2, <3>1, DrawnWhole
      <4> QED
        BY <4>1
    <3>2. CASE b = front_buf /\ b \in finished
      <4>1. \A r \in Rows : buf'[b][r] = scan_dout[b]
        BY <2>2, <3>2, DrawnWhole DEF ScanInv, Holds
      <4>2. scan_dout[b] \in Frames
        BY <3>2
      <4> QED
        BY <4>1, <4>2
    <3> QED
      <4>1. b \in finished \cup {1 - front_buf}
        BY <1>4, <2>2, DrawnWhole
      <4>2. \A c \in Buffers : c = front_buf \/ c = 1 - front_buf
        BY DEF Buffers
      <4> QED
        BY <3>1, <3>2, <4>1, <4>2
  <2> QED
    BY <1>3, <1>4, <2>1, <2>2
<1> QED
  BY <1>2, <1>4 DEF BufferInv, Holds

-----------------------------------------------------------------------------
(* The scanout. *)

LEMMA ScanStep == ASSUME IInv, Clock PROVE ScanInv'
<1> USE DEF IInv, TypeOK, ScanInv, Holds
<1>1. SUFFICES ASSUME front_buf' \in finished' PROVE ScanInv'
  OBVIOUS
<1>2. front_buf' \in Buffers /\ scan_word_addr \in Rows
  BY ClockType, ScanInRows
<1>3. scan_dout'[front_buf'] = buf[front_buf'][scan_word_addr]
  BY <1>2 DEF Clock, Scanout, ScanRead
<1>4. CASE Flips
  <2>1. /\ stage \in {"swap", "poll"} /\ finished' = finished /\ buf' = buf
        /\ frame_start /\ ~active
    BY <1>4, FlipsInTurn, FlipsOutsideWindow DEF Clock, History, Flips
  <2>2. \A r \in Rows : buf'[front_buf'][r] = scan_dout'[front_buf']
    BY <1>1, <1>2, <1>3, <2>1 DEF BufferInv
  <2>3. mono_pixel' = Blank /\ shown' = Blank
    BY <2>1 DEF Clock, Scanout, History
  <2> QED
    BY <2>2, <2>3
<1>5. CASE ~Flips
  <2>1. front_buf' = front_buf /\ front_buf \in finished
    <3>1. front_buf' = front_buf
      BY <1>5, FlipsInTurn
    <3>2. finished' = finished \/ finished' = finished \cup {1 - front_buf}
      BY DrawnWhole DEF Clock, History
    <3> QED
      BY <1>1, <3>1, <3>2 DEF Buffers
  <2>2. buf'[front_buf] = buf[front_buf]
    BY DrawsBehind
  <2>3. scan_dout'[front_buf'] = scan_dout[front_buf]
    BY <1>2, <1>3, <2>1
  <2>4. mono_pixel' \in {Blank, scan_dout[front_buf]}
    BY <2>1 DEF Clock, Scanout
  <2>5. shown' \in {Blank, shown, mono_pixel}
    BY DEF Clock, History
  <2> QED
    BY <2>1, <2>2, <2>3, <2>4, <2>5
<1> QED
  BY <1>4, <1>5

-----------------------------------------------------------------------------
(* What is on the screen when the program goes on. *)

LEMMA NextButTwo == ASSUME NEW f \in Frames PROVE (((f + 1) % 3) + 2) % 3 = f
<1>1. CASE f = 0
  BY <1>1
<1>2. CASE f = 1
  BY <1>2
<1>3. CASE f = 2
  BY <1>3
<1> QED
  BY <1>1, <1>2, <1>3 DEF Frames

\* The buffer with the frame the program has finished last, while it waits
\* for the swap.
LastDrawn == IF Flipped THEN front_buf ELSE 1 - front_buf

LEMMA LastFrameStep == ASSUME IInv, Clock PROVE LastFrameInv'
<1> USE DEF IInv, TypeOK, LastFrameInv, Holds
<1>1. SUFFICES ASSUME ~repeated' PROVE LastFrameInv'
  OBVIOUS
<1>2. ~repeated /\ ~(applied /\ Requests)
  BY <1>1 DEF Clock, History
<1>3. ~applied
  BY <1>2 DEF ProgramInv, Requests
<1>4. \/ UNCHANGED <<stage, word, frame>> /\ (access = None \/ access' = access)
      \/ \E pending \in {rdata, rdata'} : Ends(pending) /\ clk_phase = 1
  BY CoreCases DEF Clock, Going, Waits, Begins
<1>5. CASE stage \in {"enable", "draw"} /\ UNCHANGED <<stage, word, frame>>
  BY <1>2, <1>5, FlipsInTurn, DrawsBehind DEF Clock, History, ProgramInv
<1>6. CASE stage \in {"swap", "poll"} /\ UNCHANGED <<stage, word, frame>> /\ (access = None \/ access' = access)
  <2>1. buf' = buf /\ finished' = finished
    BY <1>6, DrawsBehind DEF Clock, History
  <2>2. LastDrawn' = LastDrawn
    <3>1. CASE stage = "swap" /\ Flips
      <4>1. access' = access /\ access.op = "swap"
        BY <1>6, <3>1 DEF ProgramInv, Flips
      <4>2. applied'
        BY <3>1, <4>1 DEF Clock, History
      <4> QED
        BY <1>3, <1>6, <3>1, <4>2, FlipsInTurn DEF LastDrawn, Flipped
    <3>2. CASE stage = "swap" /\ ~Flips
      <4>1. ~applied'
        BY <1>3, <3>2 DEF Clock, History
      <4> QED
        BY <1>3, <1>6, <3>2, <4>1, FlipsInTurn DEF LastDrawn, Flipped
    <3>3. CASE stage = "poll"
      <4>1. ~Requests
        BY <3>3 DEF Requests, ProgramInv, None
      <4> QED
        BY <1>6, <3>3, <4>1, FlipsInTurn DEF LastDrawn, Flipped, Flips, Clock, Control
    <3> QED
      BY <1>6, <3>1, <3>2, <3>3
  <2>3. Holds(LastDrawn, frame) /\ LastDrawn \in finished
    BY <1>2, <1>6 DEF LastDrawn
  <2> QED
    BY <1>6, <2>1, <2>2, <2>3 DEF LastDrawn
<1>7. ASSUME clk_phase = 1, NEW pending \in {rdata, rdata'}, Ends(pending) PROVE LastFrameInv'
  <2>1. pending \in BOOLEAN /\ AfterAccess(pending) /\ access # None
    BY <1>7, ClockType DEF Ends
  <2>2. CASE stage = "enable"
    BY <2>1, <2>2, AfterAccessCases DEF ProgramInv, Clock, History
  <2>3. CASE stage = "draw" /\ stage' = "draw" /\ frame' = frame
    BY <1>2, <2>3, FlipsInTurn, DrawsBehind DEF Clock, History
  <2>4. CASE stage = "draw" /\ stage' = "swap"
    <3>1. ~applied'
      BY <2>4 DEF Clock, History, ProgramInv, None
    <3> QED
      BY <2>4, <3>1, DrawnWhole DEF Flipped
  <2>5. CASE stage = "swap" /\ stage' = "poll" /\ frame' = frame
    <3>1. Holds(1 - front_buf, frame) /\ 1 - front_buf \in finished
      BY <1>2, <1>3, <2>5 DEF Flipped
    <3>2. buf' = buf /\ finished' = finished
      BY <2>5, DrawsBehind DEF Clock, History
    <3>3. Requests
      BY <2>1, <2>5 DEF ProgramInv, Requests
    <3>4. LastDrawn' = 1 - front_buf
      BY <2>5, <3>3, FlipsInTurn DEF LastDrawn, Flipped, Clock, Control
    <3> QED
      BY <2>5, <3>1, <3>2, <3>4 DEF LastDrawn
  <2>6. CASE stage = "poll" /\ pending /\ UNCHANGED <<stage, word, frame>>
    <3>1. buf' = buf /\ finished' = finished
      BY <2>6, DrawsBehind DEF Clock, History
    <3>2. ~Requests
      BY <2>6 DEF Requests, ProgramInv, None
    <3>3. LastDrawn' = LastDrawn
      BY <2>6, <3>2, FlipsInTurn DEF LastDrawn, Flipped, Flips, Clock, Control
    <3>4. Holds(LastDrawn, frame) /\ LastDrawn \in finished
      BY <1>2, <2>6 DEF LastDrawn
    <3> QED
      BY <2>6, <3>1, <3>3, <3>4 DEF LastDrawn
  <2>7. CASE stage = "poll" /\ ~pending /\ stage' = "draw" /\ frame' = (frame + 1) % 3
    <3>1. ~swap_pending
      BY <1>7, <2>7, ClearMeansClear
    <3>2. buf' = buf /\ front_buf' = front_buf
      BY <2>7, <3>1, FlipsInTurn, DrawsBehind DEF Flips
    <3>3. Holds(front_buf, frame)
      BY <1>2, <2>7, <3>1 DEF Flipped
    <3>4. (frame' + 2) % 3 = frame
      BY <2>7, NextButTwo
    <3> QED
      BY <2>7, <3>2, <3>3, <3>4
  <2> QED
    BY <2>1, <2>2, <2>3, <2>4, <2>5, <2>6, <2>7, AfterAccessCases
<1> QED
  BY <1>4, <1>5, <1>6, <1>7 DEF Stages

-----------------------------------------------------------------------------
(* The theorems. *)

LEMMA InitInv == ASSUME Init PROVE IInv
<1>1. ProgramInv /\ PollInv
  BY DEF Init, ProgramInv, PollInv, None
<1>2. BufferInv /\ ScanInv /\ LastFrameInv
  BY DEF Init, BufferInv, ScanInv, LastFrameInv
<1> QED
  BY <1>1, <1>2, InitType DEF IInv

LEMMA ResetInv == ASSUME IInv, Reset PROVE IInv'
<1>1. ProgramInv' /\ PollInv'
  BY DEF Reset, ControlReset, ProgramInv, PollInv, None
<1>2. BufferInv' /\ ScanInv' /\ LastFrameInv'
  BY DEF Reset, BufferInv, ScanInv, LastFrameInv
<1> QED
  BY <1>1, <1>2, ResetType DEF IInv

LEMMA Inductive == Spec => []IInv
<1>1. Init => IInv
  BY InitInv
<1>2. IInv /\ [Next]_vars => IInv'
  <2>1. ASSUME IInv, Clock PROVE IInv'
    <3>1. TypeOK'
      BY <2>1, ClockType DEF IInv
    <3> QED
      BY <2>1, <3>1, ProgramStep, PollStep, BufferStep, ScanStep, LastFrameStep DEF IInv
  <2>2. ASSUME IInv, UNCHANGED vars PROVE IInv'
    BY <2>2 DEF vars, timing, control, memory, core, history, IInv, TypeOK, ProgramInv, PollInv,
                EdgesLeft, BufferInv, Holds, ScanInv, LastFrameInv, Flipped
  <2> QED
    BY <2>1, <2>2, ResetInv DEF Next
<1> QED
  BY <1>1, <1>2, PTL DEF Spec

\* No screen shows two frames, for every screen, every divider of the pixel
\* clock, every number of clocks from two on that an access takes, every
\* timing of the program and every alignment of its clock with the beam.
THEOREM NoTearing == Spec => []WholeFrames
<1>1. IInv => WholeFrames
  BY DEF IInv, ScanInv, WholeFrames
<1> QED
  BY <1>1, Inductive, PTL

\* A program that reads SWAP_PENDING clear and goes on has its last frame on
\* the screen, unless a store has requested twice.
THEOREM LastFrameShown == Spec => []ShowsLastFrame
<1>1. IInv => ShowsLastFrame
  BY DEF IInv, LastFrameInv, ShowsLastFrame, Displays, Holds
<1> QED
  BY <1>1, Inductive, PTL
=============================================================================
