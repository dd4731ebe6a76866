--------------------------- MODULE VgaFramebuffer ---------------------------
(***************************************************************************)
(* src/src/peripherals/vga_framebuffer.sv, with the draw loop              *)
(* docs/01_architecture.md prescribes running on the core: draw a frame    *)
(* into the back buffer, write SWAP, poll SWAP_PENDING until it clears.    *)
(*                                                                         *)
(* One step is one edge of clk50.  The core's clock is clk50 divided by    *)
(* two, so a store is seen in every edge of the clocks it spends in MEM.   *)
(* A buffer word holds the number (modulo 3) of the frame it was drawn     *)
(* for; one word is one row of the screen.                                 *)
(***************************************************************************)
EXTENDS Naturals

CONSTANTS
  HCount, VCount,       \* H_COUNT_MAX, V_COUNT_MAX
  HActive, VActive,     \* the counts inside the active window
  ClkDiv,               \* CLK_DIV
  AccessClks,           \* core clocks an access spends in MEM
  Gaps                  \* core clocks from one access to the next

ASSUME VgaAssumption ==
  /\ {HCount, VCount, ClkDiv, AccessClks} \cup Gaps \subseteq Nat \ {0}
  /\ HActive \subseteq 1..(HCount - 1)
  /\ \E first, last \in 1..(VCount - 1) : first <= last /\ VActive = first..last
  /\ AccessClks > 1

VARIABLES
  pixel_en, clk_div_count, h_count, v_count,       \* timing
  double_buf_en, front_buf, swap_pending,          \* control
  buf, scan_dout, mono_pixel,                      \* buffers and scanout
  status_d, rdata,                                 \* read pipeline
  clk_phase,                                       \* edges into the core's clock
  access, clks,                                    \* MEM: what, clocks left
  stage, word, frame,                              \* the program
  \* History: the frame this screen began with; the request of the store in
  \* MEM has been applied; some store has requested again after that; the
  \* buffers the program has finished a frame in since power-up or a reset.
  shown, applied, repeated, finished

timing   == <<pixel_en, clk_div_count, h_count, v_count>>
control  == <<double_buf_en, front_buf, swap_pending>>
memory   == <<buf, scan_dout, mono_pixel, status_d, rdata>>
core     == <<clk_phase, access, clks, stage, word, frame>>
history  == <<shown, applied, repeated, finished>>
vars     == <<timing, control, memory, core, history>>

Buffers == {0, 1}
Frames  == 0..2
Blank   == 3        \* mono_pixel outside the active window

-----------------------------------------------------------------------------
(* Timing. *)

\* Mutant: the divider compares with CLK_DIV instead of CLK_DIV - 1.
DividesLate ==
  /\ clk_div_count' = IF clk_div_count = ClkDiv THEN 0 ELSE clk_div_count + 1
  /\ pixel_en' = (clk_div_count = ClkDiv)

PixelClock ==
  /\ clk_div_count' = (clk_div_count + 1) % ClkDiv
  /\ pixel_en' = (clk_div_count = ClkDiv - 1)

Beam ==
  /\ h_count' = IF pixel_en THEN (h_count + 1) % HCount ELSE h_count
  /\ v_count' = IF pixel_en /\ h_count = HCount - 1 THEN (v_count + 1) % VCount ELSE v_count

active == h_count \in HActive /\ v_count \in VActive

\* The word under the beam; outside the window screen_x and screen_y are 0.
FirstRow       == CHOOSE v \in VActive : \A w \in VActive : v <= w
scan_word_addr == IF active THEN v_count - FirstRow ELSE 0
Rows           == {v - FirstRow : v \in VActive}

\* Mutant: frame_start compares with a count that is never reached.
NeverStarts == h_count = HCount /\ v_count = 0
frame_start == h_count = 0 /\ v_count = 0

-----------------------------------------------------------------------------
(* The bus, in the clock domain of clk50. *)
writes_ctrl   == access.op \in {"enable", "swap"}
is_draw_write == access.op = "draw"

Requests == access.op = "swap"        \* wdata[1] && wdata[0]

\* Mutant: a swap is applied as soon as it is pending.
FlipsAtOnce == swap_pending
Flips       == frame_start /\ swap_pending

\* Mutant: a request in the clock of a flip wins over it.
RequestWins ==
  /\ double_buf_en' = (writes_ctrl \/ double_buf_en)
  /\ front_buf' = IF Flips THEN 1 - front_buf ELSE front_buf
  /\ swap_pending' = (Requests \/ (~Flips /\ swap_pending))

\* A flip in the clock of a request wins over it.
Control ==
  /\ double_buf_en' = (writes_ctrl \/ double_buf_en)
  /\ front_buf' = IF Flips THEN 1 - front_buf ELSE front_buf
  /\ swap_pending' = (~Flips /\ (Requests \/ swap_pending))

draw_buf_sel == IF double_buf_en THEN 1 - front_buf ELSE front_buf

Draw ==
  buf' = IF is_draw_write THEN [buf EXCEPT ![draw_buf_sel][access.word] = access.frame] ELSE buf

\* STATUS goes through the two registers every read goes through.
ReadPipeline == status_d' = (access.op = "poll") /\ rdata' = (status_d /\ swap_pending)

ScanRead == scan_dout' = [b \in Buffers |-> buf[b][scan_word_addr]]

Scanout == ScanRead /\ mono_pixel' = IF active THEN scan_dout[front_buf] ELSE Blank

-----------------------------------------------------------------------------
(* The core and its program: enable double buffering, then draw, swap, poll. *)
None == [op |-> "none", word |-> 0, frame |-> 0]

\* What follows when the access of this stage is done; `pending` is what a
\* load of STATUS returned.
AfterAccess(pending) ==
  CASE stage = "enable" -> stage' = "draw" /\ UNCHANGED <<word, frame>>
    [] stage = "draw" /\ word + 1 \in Rows -> word' = word + 1 /\ UNCHANGED <<stage, frame>>
    [] stage = "draw" /\ word + 1 \notin Rows -> stage' = "swap" /\ UNCHANGED <<word, frame>>
    [] stage = "swap" -> stage' = "poll" /\ UNCHANGED <<word, frame>>
    [] stage = "poll" /\ pending -> UNCHANGED <<stage, word, frame>>
    [] stage = "poll" /\ ~pending -> stage' = "draw" /\ word' = 0 /\ frame' = (frame + 1) % 3

\* The core's edge follows every second edge of clk50, with no constraint
\* between the two: a load samples rdata as it was or as it becomes.
CoreEdge(pending) ==
  \/ /\ clks > 1 /\ clks' = clks - 1
     /\ UNCHANGED <<access, stage, word, frame>>
  \/ /\ clks = 1 /\ access = None
     /\ access' = [op |-> stage, word |-> word, frame |-> frame] /\ clks' = AccessClks
     /\ UNCHANGED <<stage, word, frame>>
  \/ /\ clks = 1 /\ access # None
     /\ access' = None /\ clks' \in Gaps
     /\ AfterAccess(pending)

Core ==
  /\ clk_phase' = 1 - clk_phase
  /\ \/ clk_phase = 1 /\ \E pending \in {rdata, rdata'} : CoreEdge(pending)
     \/ clk_phase = 0 /\ UNCHANGED <<access, clks, stage, word, frame>>

History ==
  /\ shown' = IF frame_start THEN Blank ELSE IF shown = Blank THEN mono_pixel ELSE shown
  /\ applied' = (access.op = "swap" /\ access' = access /\ (applied \/ Flips))
  /\ repeated' = (repeated \/ (applied /\ Requests))
  /\ finished' = IF stage = "draw" /\ stage' = "swap" THEN finished \cup {draw_buf_sel} ELSE finished

Init ==
  /\ pixel_en = FALSE /\ clk_div_count = 0 /\ h_count = 0 /\ v_count = 0
  /\ double_buf_en = FALSE /\ front_buf = 0 /\ swap_pending = FALSE
  /\ buf = [b \in Buffers |-> [r \in Rows |-> 0]]
  /\ scan_dout = [b \in Buffers |-> 0] /\ mono_pixel = Blank
  /\ status_d = FALSE /\ rdata = FALSE
  /\ clk_phase \in {0, 1} /\ access = None /\ clks \in Gaps
  /\ stage = "enable" /\ word = 0 /\ frame = 1
  /\ shown = Blank /\ applied = FALSE /\ repeated = FALSE /\ finished = {}

Clock == PixelClock /\ Beam /\ Control /\ Draw /\ ReadPipeline /\ Scanout /\ Core /\ History

ControlReset == double_buf_en' = FALSE /\ front_buf' = 0 /\ swap_pending' = FALSE

\* rst in mid-frame, of the core and its program as well.  The buffers and the
\* divider of the core's clock have no reset, and a store in MEM is still
\* written on this edge.
Reset ==
  /\ pixel_en' = FALSE /\ clk_div_count' = 0 /\ h_count' = 0 /\ v_count' = 0
  /\ ControlReset /\ Draw /\ ScanRead
  /\ mono_pixel' = Blank /\ status_d' = FALSE /\ rdata' = FALSE
  /\ clk_phase' = 1 - clk_phase /\ access' = None /\ clks' \in Gaps
  /\ stage' = "enable" /\ word' = 0 /\ frame' = 1
  /\ shown' = Blank /\ applied' = FALSE /\ repeated' = FALSE /\ finished' = {}

Next == Clock \/ Reset

Spec == Init /\ [][Next]_vars /\ WF_vars(Clock)

-----------------------------------------------------------------------------
Stages == {"enable", "draw", "swap", "poll"}

TypeOK ==
  /\ pixel_en \in BOOLEAN /\ clk_div_count \in 0..(ClkDiv - 1)
  /\ h_count \in 0..(HCount - 1) /\ v_count \in 0..(VCount - 1)
  /\ double_buf_en \in BOOLEAN /\ front_buf \in Buffers /\ swap_pending \in BOOLEAN
  /\ buf \in [Buffers -> [Rows -> Frames]] /\ scan_dout \in [Buffers -> Frames]
  /\ mono_pixel \in Frames \cup {Blank} /\ shown \in Frames \cup {Blank}
  /\ status_d \in BOOLEAN /\ rdata \in BOOLEAN
  /\ access \in [op : Stages \cup {"none"}, word : Rows, frame : Frames]
  /\ clk_phase \in {0, 1} /\ clks \in Nat \ {0}
  /\ stage \in Stages /\ word \in Rows /\ frame \in Frames
  /\ applied \in BOOLEAN /\ repeated \in BOOLEAN /\ finished \subseteq Buffers

\* vga_framebuffer.sv:136-138: "tear-free by construction".  All the pixels
\* of one screen come from one frame, whatever the alignment of program and
\* beam: the program never draws into the buffer on the screen, although it
\* runs unsynchronised with the beam, and no flip comes between two rows.
\* (A buffer no frame was finished in since power-up or a reset may hold half
\* of one; it is on the screen until the first swap, and again after a store
\* that requests twice.)
WholeFrames ==
  front_buf \in finished /\ mono_pixel # Blank /\ shown # Blank => mono_pixel = shown

Displays(f) == \A r \in Rows : buf[front_buf][r] = f

\* docs/01_architecture.md:42-46: when SWAP_PENDING reads clear the flip has
\* been made, so a program that goes on to draw has the frame it finished
\* before on the screen.  Not so after a store of SWAP that was still in MEM
\* when the swap it asked for was applied.
ShowsLastFrame == stage = "draw" /\ finished # {} /\ ~repeated => Displays((frame + 2) % 3)

\* The same without the exception.
SwapMeansFlip == stage = "draw" /\ finished # {} => Displays((frame + 2) % 3)

\* Every poll of SWAP_PENDING ends, whichever edges the requests, the polls
\* and the start of a frame fall on, if no reset starts the program again.
SwapDone == stage = "poll" ~> stage \in {"draw", "enable"}
=============================================================================
