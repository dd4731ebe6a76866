------------------------------ MODULE DebugLink ------------------------------
(***************************************************************************)
(* The debugger at work: a user's session with one of DebugTools' front    *)
(* ends, through src/tools/reg_debugger.py's RegDebugger, against          *)
(* debug_uart.sv over a serial line that may lose bytes.  RegDebugger      *)
(* writes each command in one go and, after a command that is answered,    *)
(* waits in _read_word until a whole word is there or its read times out;  *)
(* it never waits for anything else, and it takes whatever bytes the       *)
(* driver holds for the answer.                                            *)
(*                                                                         *)
(* A frame takes ByteCycles (one start, eight data, two stop bits), so     *)
(* bytes arrive at least that far apart; the host's driver may leave the   *)
(* line idle longer between two bytes of one write.  Gaps is the set of    *)
(* spacings explored.  Bounds: Gaps, the sessions and the bytes each loses.*)
(***************************************************************************)
EXTENDS DebugUart, SequencesExt

CONSTANTS
  ByteBase,  \* values of a byte
  Depth,     \* words of a .mif that bin2mif.py makes
  Sessions,  \* a sequence of sessions: the tool, the user's commands `todo`,
             \* and how many bytes the line may lose
  Gaps,      \* clocks from one byte to the next
  HostSees,  \* value of tx_left at which the host has sampled a reply byte
  PauseCycles \* silence that makes a pause: longer than the argument timeout

Tools == INSTANCE DebugTools

\* What each session sends: for each command of the user the calls it makes.
Map(Op(_), s) == [i \in DOMAIN s |-> Op(s[i])]

Plans == Map(LAMBDA s : Map(LAMBDA u : Tools!Calls(s.tool, u), s.todo), Sessions)

\* The bytes of a command's argument.
ArgLen(op) ==
  CASE op = CMD_READ_REG -> 1
    [] op = CMD_READ_CSR -> CsrBytes
    [] op \in {CMD_READ_MEM, CMD_READ_MMIO} -> WordBytes
    [] op = CMD_WRITE_MEM -> 2 * WordBytes
    [] OTHER -> 0

WellFormed(c) ==
  c.err = "none" => c.op \in CMD_HALT..CMD_READ_MMIO /\ c.arg \in [1..ArgLen(c.op) -> Byte]

\* A byte arrives later than a STEP takes and than a reply's last byte takes
\* from the host's sample on, and no later than the argument timeout allows.
\* The commands are those a front end has, and each makes at least one call.
ASSUME DebugLinkAssumption ==
  /\ Gaps \subseteq Nat /\ HostSees \in 1..TxCycles
  /\ \A g \in Gaps : g > 2 /\ g > HostSees /\ g <= TimeoutCycles + 1
  /\ PauseCycles \in Nat /\ PauseCycles > TimeoutCycles + 1 /\ PauseCycles > 3
  /\ ByteBase \in Nat /\ ByteBase > CMD_READ_MMIO /\ Byte = 0 .. ByteBase - 1
  /\ Depth \in Nat /\ CsrBytes = 2
  /\ \A n \in DOMAIN Sessions :
       LET todo == Sessions[n].todo
       IN  /\ Sessions[n].tool \in {"cli", "shell", "web"} /\ Sessions[n].lose \in Nat
           /\ todo \in Seq({todo[u] : u \in DOMAIN todo})
           /\ \A u \in DOMAIN todo :
                LET plan == Plans[n][u]
                IN  /\ plan \in Seq({plan[i] : i \in DOMAIN plan}) /\ plan # <<>>
                    /\ \A i \in DOMAIN plan : WellFormed(plan[i])

VARIABLES
  session,          \* the session, by its number
  user, call, byte, \* the byte to send: of the user-th command, its call-th call
  gap,       \* clocks until that byte can arrive
  inbox,     \* reply bytes the driver holds
  awaiting,  \* words the call still has to read
  idle,      \* clocks since the line last carried a frame, either way
  lost,      \* bytes lost so far
  log,       \* history: what the debugger did
  told       \* history: what the user was told

hostVars == <<session, user, call, byte, gap, inbox, awaiting, idle, lost, told>>
vars == <<uartVars, hostVars, log>>

Tool == Sessions[session].tool
Todo == Sessions[session].todo
Sent == user > Len(Todo)
Plan == Plans[session][user]
Here == Plan[call]

-----------------------------------------------------------------------------
(* What a session promises: the protocol of the header comments, and of     *)
(* "only accepted while halted -- silently ignored otherwise".             *)
Wanted(c) ==
  CASE c.op = CMD_READ_REG  -> <<Origin("reg", <<c.arg[1] % NumRegs>>)>>
    [] c.op = CMD_READ_PC   -> <<Origin("pc", <<>>)>>
    [] c.op = CMD_READ_ALL  -> [i \in 1 .. NumRegs + 1 |->
                                  IF i <= NumRegs THEN Origin("reg", <<i - 1>>) ELSE Origin("pc", <<>>)]
    [] c.op = CMD_READ_CSR  -> <<Origin("csr", c.arg)>>
    [] c.op = CMD_READ_MEM  -> <<Origin("mem", c.arg)>>
    [] c.op = CMD_READ_MMIO -> <<Origin("mmio", c.arg)>>
    [] OTHER -> <<>>

Answer(o) == [i \in 1..WordBytes |-> <<o, i - 1>>]
Answers(c) == [i \in DOMAIN Wanted(c) |-> Answer(Wanted(c)[i])]

Effect(c) ==
  CASE c.op = CMD_HALT      -> <<<<"halt">>>>
    [] c.op = CMD_RESUME    -> <<<<"resume">>>>
    [] c.op = CMD_STEP      -> <<<<"step">>>>
    [] c.op = CMD_WRITE_MEM ->
         <<<<"write", SubSeq(c.arg, 1, WordBytes), SubSeq(c.arg, WordBytes + 1, 2 * WordBytes)>>>>
    [] OTHER -> [i \in 1 .. WordBytes * Len(Wanted(c)) |->
                   <<"reply", Wanted(c)[1 + ((i - 1) \div WordBytes)], (i - 1) % WordBytes>>]

\* The core is halted after reset, HALT and STEP, and running after RESUME.
HaltedAfter(c, halted) ==
  CASE c.op = CMD_RESUME -> FALSE
    [] c.op \in {CMD_HALT, CMD_STEP} -> TRUE
    [] OTHER -> halted

\* Commands ignored while the core runs, with arguments it ignores as well.
Harmless(c) == \A i \in DOMAIN c.arg : c.arg[i] \notin CMD_HALT..CMD_READ_MMIO

Says(u, what) == [to |-> u, said |-> what]

\* log and told as promised; `sound` while nothing was asked of a running core
\* that is not harmless; `skip` is the command that raised, after `over` no
\* command is run.
Nothing == [log |-> <<>>, told |-> <<>>, halted |-> TRUE, sound |-> TRUE,
            skip |-> 0, over |-> FALSE]

Fail(acc, u, e) == [acc EXCEPT !.told = Append(@, Says(u, <<e>>)), !.skip = u]

\* What the call c of the command u adds to it.
Extend(tool, u, c, acc) ==
  LET ignored == c.op \in HaltedOnly /\ ~acc.halted
  IN  IF acc.over \/ acc.skip = u THEN acc
      ELSE IF c.err # "none"
        THEN [Fail(acc, u, c.err) EXCEPT !.over = Tools!EndsSession(tool, c.err)]
      ELSE IF ignored
        THEN [(IF Wanted(c) # <<>> THEN Fail(acc, u, "IOError") ELSE acc)
                EXCEPT !.sound = @ /\ Harmless(c)]
      ELSE [acc EXCEPT !.log = @ \o Effect(c), !.halted = HaltedAfter(c, @),
                       !.told = @ \o [i \in DOMAIN Answers(c) |-> Says(u, Answers(c)[i])]]

\* After each of a command's calls, and after each of a session's commands.
AfterCalls(n, u, acc) ==
  LET after[i \in 0 .. Len(Plans[n][u])] ==
        IF i = 0 THEN acc ELSE Extend(Sessions[n].tool, u, Plans[n][u][i], after[i - 1])
  IN  after

AfterCommands(n) ==
  LET after[u \in 0 .. Len(Plans[n])] ==
        IF u = 0 THEN Nothing ELSE AfterCalls(n, u, after[u - 1])[Len(Plans[n][u])]
  IN  after

Promises == [n \in DOMAIN Sessions |-> AfterCommands(n)[Len(Plans[n])]]
Promised == Promises[session]

\* The session was one the documents cover, on a line that lost nothing.
Faultless == lost = 0 /\ Promised.sound

-----------------------------------------------------------------------------
(* The host. *)
\* Mutant: read_all forgets that the pc comes last.
RegsOnly(c) == IF c.op = CMD_READ_ALL THEN NumRegs ELSE Len(Wanted(c))
WordsAwaited(c) ==
  CASE c.op = CMD_READ_ALL -> NumRegs + 1
    [] c.op \in {CMD_READ_REG, CMD_READ_PC, CMD_READ_MEM, CMD_READ_CSR, CMD_READ_MMIO} -> 1
    [] OTHER -> 0

Wire(c) == <<c.op>> \o c.arg

\* Seconds for the host's read timeout and for an operator, so that nothing
\* the debugger does takes as long; a few bit times more than its own timeout
\* are all a pause needs.
Paused == idle = PauseCycles
LineBusy == tx_en \/ tx_left > 0

\* A `fresh` command is one the user issues after a pause.
Begins  == call = 1 /\ byte = 1
MaySend == /\ ~Sent /\ awaiting = 0 /\ Here.err = "none"
           /\ Todo[user].fresh /\ Begins => Paused

\* Mutant: opening the port leaves what the driver has received.
KeepsOld == inbox
Opened   == IF Tools!OwnProcess(Tool) /\ Begins THEN <<>> ELSE inbox
Arrived  == IF tx_left = HostSees THEN <<tx_data>> ELSE <<>>

NextCall ==
  /\ byte' = 1
  /\ IF call < Len(Plan) THEN call' = call + 1 /\ UNCHANGED user
                         ELSE call' = 1 /\ user' = user + 1

\* The call has n words to read: it takes those that are in `box`, and is over
\* when it has them all.
Read(box, n) ==
  LET k == IF n * WordBytes <= Len(box) THEN n ELSE Len(box) \div WordBytes
  IN  /\ inbox' = SubSeq(box, k * WordBytes + 1, Len(box))
      /\ awaiting' = n - k
      /\ told' = told \o [i \in 1..k |->
                    Says(user, SubSeq(box, WordBytes * (i - 1) + 1, WordBytes * i))]
      /\ IF k = n THEN NextCall ELSE UNCHANGED <<user, call, byte>>

\* An exception: what is left of the command is not run.
Raise(e) ==
  /\ told' = Append(told, Says(user, <<e>>))
  /\ user' = IF Tools!EndsSession(Tool, e) THEN Len(Todo) + 1 ELSE user + 1
  /\ call' = 1 /\ byte' = 1

\* The byte under way reaches the debugger, or is lost.
Deliver(rx) ==
  /\ MaySend /\ gap = 0
  /\ \/ rx = Wire(Here)[byte] /\ UNCHANGED lost
     \/ /\ rx = NoByte /\ lost < Sessions[session].lose /\ ~Todo[user].fresh
        /\ lost' = lost + 1
  /\ LET box == Opened \o Arrived
     IN  IF byte = Len(Wire(Here)) THEN Read(box, WordsAwaited(Here))
         ELSE /\ byte' = byte + 1 /\ inbox' = box
              /\ UNCHANGED <<user, call, awaiting, told>>
  /\ gap' \in {g - 1 : g \in Gaps}
  /\ idle' = 0
  /\ UNCHANGED session

Listen == idle' = IF LineBusy THEN 0 ELSE IF Paused THEN idle ELSE idle + 1

Raising == ~Sent /\ awaiting = 0 /\ Here.err # "none"

\* No byte in this clock; a reply byte may come in.
Silence(rx) ==
  /\ rx = NoByte
  /\ ~(MaySend /\ gap = 0) /\ ~Raising /\ ~(awaiting > 0 /\ Paused)
  /\ gap' = IF MaySend THEN gap - 1 ELSE gap
  /\ Listen
  /\ IF awaiting > 0 THEN Read(inbox \o Arrived, awaiting)
     ELSE inbox' = inbox \o Arrived /\ UNCHANGED <<user, call, byte, awaiting, told>>
  /\ UNCHANGED <<session, lost>>

\* RegDebugger rejects what it was given.
Reject(rx) ==
  /\ rx = NoByte /\ Raising
  /\ Raise(Here.err)
  /\ Listen /\ inbox' = inbox \o Arrived
  /\ UNCHANGED <<session, gap, awaiting, lost>>

\* Mutant: _read_word waits for as long as it takes.
WaitsForever(rx) == FALSE

\* _read_word raises; the bytes it has read are gone.
ReadTimeout(rx) ==
  /\ rx = NoByte /\ awaiting > 0 /\ Paused
  /\ Raise("IOError")
  /\ inbox' = <<>> /\ awaiting' = 0
  /\ UNCHANGED <<session, gap, idle, lost>>

Host(rx) == Deliver(rx) \/ Silence(rx) \/ Reject(rx) \/ ReadTimeout(rx)

\* What the debugger does in this clock, for the history.
Did(rx) ==
  CASE state = "CMD_IDLE" /\ rx = CMD_HALT   -> <<<<"halt">>>>
    [] state = "CMD_IDLE" /\ rx = CMD_RESUME -> <<<<"resume">>>>
    [] state = "STEP_ASSERT"                 -> <<<<"step">>>>
    [] dbg_mem_we                            -> <<<<"write", mem_addr, mem_wdata>>>>
    [] tx_en /\ ~tx_busy                     -> <<<<"reply", tx_data[1], tx_data[2]>>>>
    [] OTHER                                 -> <<>>

-----------------------------------------------------------------------------
LinkInit ==
  /\ Init
  /\ session \in DOMAIN Sessions /\ user = 1 /\ call = 1 /\ byte = 1
  /\ gap = 0 /\ inbox = <<>> /\ awaiting = 0 /\ idle = 0 /\ lost = 0
  /\ log = <<>> /\ told = <<>>

LinkNext ==
  \E rx \in Byte \cup {NoByte} : Host(rx) /\ Clock(rx) /\ log' = log \o Did(rx)

LinkSpec == LinkInit /\ [][LinkNext]_vars /\ WF_vars(LinkNext)

-----------------------------------------------------------------------------
\* On a line that loses nothing the debugger does what the session says, in
\* order, with nothing added: no command is dropped because a reply or an
\* access was still going on, none is cut off by the argument timeout, no
\* argument byte is taken for a command, and each word goes out whole, its
\* bytes in order and all from one source.
LogFollowsScript == Faultless => IsPrefix(log, Promised.log)

\* ... and every value a front end shows is the one that was asked for:
\* replies and commands never get out of step, whatever raises in between.
AnswersMatch == Faultless => IsPrefix(told, Promised.told)

\* ... and all of it: every command is carried out, every reply and every
\* error reaches the user; and whatever is lost, and whatever is asked of a
\* running core, the host is never left waiting.
Delivered ==
  <>[](Sent /\ (Faultless => log = Promised.log /\ told = Promised.told))

\* No exception ends the session before its last command.
StaysOpen ==
  \A u \in DOMAIN Plans[session] : \A i \in DOMAIN Plans[session][u] :
    ~Tools!EndsSession(Tool, Plans[session][u][i].err)

\* Whatever was lost before it, and whatever a running core made of commands
\* meant for a halted one, a HALT sent after a pause halts the core: the
\* timeouts always bring the interpreter back to a command boundary.
FreshHaltWorks ==
  LET u == Len(Todo)
  IN  Sent /\ u > 0 /\ Todo[u].cmd = "halt" /\ Todo[u].fresh /\ StaysOpen
        => halt /\ log # <<>> /\ Last(log) = <<"halt">>

\* The same for answers, with the command line: a value that one process of
\* reg_debugger.py leaves unread is never shown by a later one.  (The shell and
\* the server keep the port open, and shift every later answer.)
FreshAnswers ==
  \A i \in DOMAIN told :
    LET u == told[i].to  plan == Plans[session][u]
    IN  Tool = "cli" /\ Todo[u].fresh /\ Len(plan) = 1
          /\ plan[1].err = "none" /\ plan[1].op \notin HaltedOnly
          => \E k \in DOMAIN Answers(plan[1]) : told[i] = Says(u, Answers(plan[1])[k])

\* A program that was loaded is in memory as its file says: each word at its
\* address, its bytes in the file's order, what is past the end of the file
\* zero, and what was not sent zeros at its end.
ByteAt(file, n) == IF n < Len(file.bytes) THEN file.bytes[n + 1] ELSE 0

Kept(u)  == Todo[u].cmd = "load" /\ Todo[u].no_trim
Loads(u) == Todo[u].cmd \in {"load", "flash", "build"} /\ \A i \in DOMAIN told : told[i].to # u

ImageLoaded ==
  Sent /\ Paused /\ Faultless =>
    \A u \in {v \in DOMAIN Todo : Loads(v)} :
      \A n \in 0 .. Len(Todo[u].file.bytes) - 1 :
        LET w  == n - (n % WordBytes)
            at == Tools!Pack(Todo[u].addr + w, WordBytes)
            k  == SelectLastInSeq(log, LAMBDA e : e[1] = "write" /\ e[2] = at)
        IN  IF k = 0 THEN ~Kept(u) /\ ByteAt(Todo[u].file, n) = 0
            ELSE \A i \in 1..WordBytes : log[k][3][i] = ByteAt(Todo[u].file, w + i - 1)
=============================================================================
