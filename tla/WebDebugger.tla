----------------------------- MODULE WebDebugger -----------------------------
(***************************************************************************)
(* The threads of src/tools/webdbg/server.py: one per WebSocket client and *)
(* the poll thread, around the debugger's handle dbg.  A command looks up  *)
(* the handle in one critical section of dbg_lock and uses it in another;  *)
(* a port is opened and closed outside of both.  clients_lock is held      *)
(* while a broadcast sends.                                                *)
(*                                                                         *)
(* Left out: core_running, which nothing reads, and the contents of        *)
(* messages.  Bounds: Client, Port (handles in use at a time), FlashWords. *)
(***************************************************************************)
EXTENDS Naturals

CONSTANTS
  Client,      \* browsers
  Poll,        \* the poll thread
  Port,        \* handles of RegDebugger
  None,
  FlashWords   \* words of a program

ASSUME WebDebuggerAssumption ==
  Poll \notin Client /\ None \notin Client \cup {Poll} \cup Port /\ FlashWords \in Nat

Thread == Client \cup {Poll}

VARIABLES
  dbg,            \* the handle everybody uses, or None
  dbg_lock,       \* its holder, or None
  clients,        \* the registered clients
  clients_lock,   \* its holder, or None
  pc, op, active, step, todo,  \* of a thread: where it is, its command, its
                  \* handle, the writes it has done, the clients left to send to
  alive,          \* the browser is at the other end of the WebSocket
  open,           \* external: the handles whose serial port is open
  streak          \* history: who wrote last to the board under the lock, and how
                  \* many writes in a row

vars == <<dbg, dbg_lock, clients, clients_lock, pc, op, active, step, todo, alive, open, streak>>
locks == <<dbg_lock, clients_lock>>

\* "other" is answered without the board: list_ports, or no JSON object.
Commands == {"command", "flash", "connect", "disconnect", "other"}

\* Writes to the serial port.  load_program is a HALT and a WRITE_MEM for each
\* word, and a RESUME may follow; the poll's read_all is one; step and read_mem
\* are as many as the message asks for, the other commands one.
MinWrites(t, o) == IF t = Poll THEN 1 ELSE IF o = "flash" THEN FlashWords + 1 ELSE 0
MaxWrites(t, o) == IF t = Poll THEN 1 ELSE IF o = "flash" THEN FlashWords + 2 ELSE FlashWords + 1

Goto(t, label) == pc' = [pc EXCEPT ![t] = label]
Hold(t, h)     == active' = [active EXCEPT ![t] = h]

\* Handles no thread will use again.
Fresh == {h \in Port \ (open \cup {dbg}) : \A t \in Thread : active[t] # h}

\* A command is over: where the thread goes, and what it need not keep.
Report(t) == Goto(t, IF t = Poll THEN "broadcast" ELSE "reply")
Idle(t)   == Goto(t, IF t = Poll THEN "sleep" ELSE "receive")
Over(t)   == op' = [op EXCEPT ![t] = "command"]

\* main connects before it starts the poll thread, if it is given a port.
Init ==
  /\ dbg \in Port \cup {None} /\ open = {dbg} \ {None} /\ dbg_lock = None
  /\ clients = {} /\ clients_lock = None
  /\ pc = [t \in Thread |-> IF t = Poll THEN "sleep" ELSE "gone"]
  /\ op = [t \in Thread |-> "command"] /\ active = [t \in Thread |-> None]
  /\ step = [t \in Thread |-> 0] /\ todo = [t \in Thread |-> {}]
  /\ alive = [c \in Client |-> FALSE]
  /\ streak = [by |-> None, n |-> 0]

-----------------------------------------------------------------------------
(* A WebSocket.  A client that comes back is not told apart from a dead     *)
(* entry its last WebSocket left in clients.                               *)
Enter(c) ==
  /\ pc[c] = "gone" /\ clients_lock = None
  /\ clients' = clients \cup {c} /\ alive' = [alive EXCEPT ![c] = TRUE]
  /\ Goto(c, "status")
  /\ UNCHANGED <<dbg, locks, op, active, step, todo, open, streak>>

\* The first conn_status is sent before the try whose finally unregisters.
Status(c) ==
  /\ pc[c] = "status" /\ dbg_lock = None
  /\ Goto(c, IF alive[c] THEN "receive" ELSE "gone")
  /\ UNCHANGED <<dbg, locks, clients, op, active, step, todo, alive, open, streak>>

Start(o) == CASE o = "connect" -> "open" [] o = "disconnect" -> "swap"
              [] o = "other" -> "reply" [] OTHER -> "lookup"

Receive(c) ==
  /\ pc[c] = "receive" /\ alive[c]
  /\ \E o \in Commands : op' = [op EXCEPT ![c] = o] /\ Goto(c, Start(o))
  /\ UNCHANGED <<dbg, locks, clients, active, step, todo, alive, open, streak>>

\* A build runs as, ld, objcopy and objdump one after another, on files of its
\* own; the first that is missing or fails is what it answers.
BuildError(c) ==
  /\ pc[c] = "receive" /\ alive[c]
  /\ Goto(c, "reply")
  /\ UNCHANGED <<dbg, locks, clients, op, active, step, todo, alive, open, streak>>

\* A build that succeeds is answered with its listing, or flashed first.
Built(c) ==
  /\ pc[c] = "receive" /\ alive[c]
  /\ \/ Goto(c, "reply") /\ UNCHANGED op
     \/ Goto(c, "lookup") /\ op' = [op EXCEPT ![c] = "flash"]
  /\ UNCHANGED <<dbg, locks, clients, active, step, todo, alive, open, streak>>

\* A build without its source, or an argument int() does not take, raises what
\* no handler catches.  It ends the thread.
Misread(c) ==
  /\ pc[c] = "receive" /\ alive[c]
  /\ Goto(c, "quit")
  /\ UNCHANGED <<dbg, locks, clients, op, active, step, todo, alive, open, streak>>

\* An answer to a browser that has gone raises, and ends the thread.
Reply(c) ==
  /\ pc[c] = "reply"
  /\ Goto(c, IF ~alive[c] THEN "quit"
             ELSE IF op[c] \in {"connect", "disconnect"} THEN "broadcast" ELSE "receive")
  /\ Over(c)
  /\ UNCHANGED <<dbg, locks, clients, active, step, todo, alive, open, streak>>

Quit(c) ==
  /\ pc[c] = "quit" \/ (pc[c] = "receive" /\ ~alive[c])
  /\ clients_lock = None /\ clients' = clients \ {c}
  /\ Goto(c, "gone") /\ Over(c) /\ alive' = [alive EXCEPT ![c] = FALSE]
  /\ UNCHANGED <<dbg, locks, active, step, todo, open, streak>>

BrowserCloses(c) ==
  /\ alive[c] /\ alive' = [alive EXCEPT ![c] = FALSE]
  /\ UNCHANGED <<dbg, locks, clients, pc, op, active, step, todo, open, streak>>

-----------------------------------------------------------------------------
(* connect and disconnect. *)
OpenPort(c) ==
  /\ pc[c] = "open"
  /\ \/ \E h \in Fresh : open' = open \cup {h} /\ Hold(c, h) /\ Goto(c, "swap") /\ UNCHANGED op
     \/ Goto(c, "reply") /\ op' = [op EXCEPT ![c] = "refused"] /\ UNCHANGED <<active, open>>
  /\ UNCHANGED <<dbg, locks, clients, step, todo, alive, streak>>

\* Mutant: a connect forgets the handle it replaces.
ForgetsOld(c) ==
  /\ pc[c] = "swap" /\ dbg_lock = None
  /\ dbg' = active[c] /\ Hold(c, None)
  /\ Goto(c, "close")
  /\ UNCHANGED <<locks, clients, op, step, todo, alive, open, streak>>
Swap(c) ==
  /\ pc[c] = "swap" /\ dbg_lock = None
  /\ dbg' = active[c] /\ Hold(c, dbg)
  /\ Goto(c, "close")
  /\ UNCHANGED <<locks, clients, op, step, todo, alive, open, streak>>

ClosePort(c) ==
  /\ pc[c] = "close"
  /\ open' = open \ {active[c]} /\ Hold(c, None)
  /\ Goto(c, "reply")
  /\ UNCHANGED <<dbg, locks, clients, op, step, todo, alive, streak>>

-----------------------------------------------------------------------------
(* A command, or the poll thread's read_all. *)
Lookup(t) ==
  /\ pc[t] = "lookup" /\ dbg_lock = None
  /\ \/ dbg # None /\ Hold(t, dbg) /\ Goto(t, "lock")
     \/ dbg = None /\ t = Poll /\ Goto(t, "sleep") /\ UNCHANGED active
     \* not connected, an unknown command, or an argument is missing
     \/ t # Poll /\ Goto(t, "reply") /\ UNCHANGED active
  /\ UNCHANGED <<dbg, locks, clients, op, step, todo, alive, open, streak>>

\* Mutant: only a flash takes the lock.
LocksForFlash(t) ==
  /\ pc[t] = "lock"
  /\ \/ op[t] = "flash" /\ dbg_lock = None /\ dbg_lock' = t
     \/ op[t] # "flash" /\ UNCHANGED dbg_lock
  /\ step' = [step EXCEPT ![t] = 0]
  /\ Goto(t, "work")
  /\ UNCHANGED <<dbg, clients, clients_lock, op, active, todo, alive, open, streak>>
Lock(t) ==
  /\ pc[t] = "lock" /\ dbg_lock = None
  /\ dbg_lock' = t /\ step' = [step EXCEPT ![t] = 0]
  /\ Goto(t, "work")
  /\ UNCHANGED <<dbg, clients, clients_lock, op, active, todo, alive, open, streak>>

\* Mutant: one word too many is written.
WritesTooMuch(t) ==
  /\ pc[t] = "work" /\ active[t] \in open /\ step[t] <= MaxWrites(t, op[t])
  /\ step' = [step EXCEPT ![t] = @ + 1]
  /\ streak' = [by |-> t, n |-> IF streak.by = t /\ step[t] > 0 THEN streak.n + 1 ELSE 1]
  /\ UNCHANGED <<dbg, locks, clients, pc, op, active, todo, alive, open>>
WriteCommand(t) ==
  /\ pc[t] = "work" /\ active[t] \in open /\ step[t] < MaxWrites(t, op[t])
  /\ step' = [step EXCEPT ![t] = @ + 1]
  /\ streak' = [by |-> t, n |-> IF streak.by = t /\ step[t] > 0 THEN streak.n + 1 ELSE 1]
  /\ UNCHANGED <<dbg, locks, clients, pc, op, active, todo, alive, open>>

\* Mutant: the lock is acquired and not released.
LeavesLocked(t) ==
  /\ UNCHANGED dbg_lock /\ Hold(t, None) /\ step' = [step EXCEPT ![t] = 0]
  /\ streak' = [by |-> None, n |-> 0]
\* The critical section is left.
Leave(t) ==
  /\ dbg_lock' = None /\ Hold(t, None) /\ step' = [step EXCEPT ![t] = 0]
  /\ streak' = [by |-> None, n |-> 0]

Finish(t) ==
  /\ pc[t] = "work" /\ step[t] \in MinWrites(t, op[t]) .. MaxWrites(t, op[t])
  /\ t = Poll => active[t] \in open    \* read_all needs its answer
  /\ Leave(t) /\ Report(t)
  /\ UNCHANGED <<dbg, clients, clients_lock, op, todo, alive, open>>

\* IOError: no answer in time, an unplugged cable, or a port that is closed.
Fail(t) ==
  /\ pc[t] = "work"
  /\ Leave(t) /\ Report(t)
  /\ UNCHANGED <<dbg, clients, clients_lock, op, todo, alive, open>>

\* An address or a word that does not fit its field raises struct.error, after
\* the writes before it: not an IOError.  It ends the thread.
PackError(c) ==
  /\ pc[c] = "work" /\ step[c] < MaxWrites(c, op[c])
  /\ op[c] = "flash" => step[c] \in 1 .. FlashWords
  /\ Leave(c) /\ Goto(c, "quit")
  /\ UNCHANGED <<dbg, clients, clients_lock, op, todo, alive, open>>

\* External: a port closed while pyserial is in the middle of using it raises
\* a TypeError, which no handler here catches.  It ends the thread.
Crash(t) ==
  /\ pc[t] = "work" /\ step[t] > 0 /\ active[t] \notin open
  /\ Leave(t) /\ Goto(t, IF t = Poll THEN "dead" ELSE "quit")
  /\ UNCHANGED <<dbg, clients, clients_lock, op, todo, alive, open>>

-----------------------------------------------------------------------------
Wake ==
  /\ pc[Poll] = "sleep" /\ clients_lock = None /\ clients # {}
  /\ Goto(Poll, "lookup")
  /\ UNCHANGED <<dbg, locks, clients, op, active, step, todo, alive, open, streak>>

Broadcast(t) ==
  /\ pc[t] = "broadcast" /\ clients_lock = None
  /\ clients_lock' = t /\ todo' = [todo EXCEPT ![t] = clients]
  /\ Goto(t, "send")
  /\ UNCHANGED <<dbg, dbg_lock, clients, op, active, step, alive, open, streak>>

\* A client that cannot be sent to is discarded before the lock is released.
Send(t) ==
  /\ pc[t] = "send"
  /\ \E c \in todo[t] :
       /\ todo' = [todo EXCEPT ![t] = @ \ {c}]
       /\ clients' = IF alive[c] THEN clients ELSE clients \ {c}
  /\ UNCHANGED <<dbg, locks, pc, op, active, step, alive, open, streak>>

Sent(t) ==
  /\ pc[t] = "send" /\ todo[t] = {}
  /\ clients_lock' = None /\ Idle(t)
  /\ UNCHANGED <<dbg, dbg_lock, clients, op, active, step, todo, alive, open, streak>>

-----------------------------------------------------------------------------
\* The steps of a thread that wait for nobody, and those that take a lock.
Runs(t) ==
  \/ t \in Client /\ (Reply(t) \/ OpenPort(t) \/ ClosePort(t) \/ PackError(t))
  \/ WriteCommand(t) \/ Finish(t) \/ Fail(t) \/ Crash(t) \/ Send(t) \/ Sent(t)

Waits(t) ==
  \/ t \in Client /\ (Status(t) \/ Swap(t) \/ Quit(t))
  \/ Lookup(t) \/ Lock(t) \/ Broadcast(t)

Next ==
  \/ \E c \in Client : Enter(c) \/ Receive(c) \/ BuildError(c) \/ Built(c) \/ Misread(c) \/ BrowserCloses(c)
  \/ \E t \in Thread : Runs(t) \/ Waits(t)
  \/ Wake

\* A thread that can run does, every send and read ends, and a lock that is
\* released time and again is got: the poll thread sleeps between its turns.
Fairness == \A t \in Thread : WF_vars(Runs(t)) /\ SF_vars(Waits(t))

Spec == Init /\ [][Next]_vars /\ Fairness

-----------------------------------------------------------------------------
Labels == {"gone", "status", "receive", "reply", "quit", "open", "swap", "close",
           "lookup", "lock", "work", "broadcast", "send", "sleep", "dead"}

TypeOK ==
  /\ dbg \in Port \cup {None} /\ open \subseteq Port
  /\ dbg_lock \in Thread \cup {None} /\ clients_lock \in Thread \cup {None}
  /\ clients \subseteq Client /\ alive \in [Client -> BOOLEAN]
  /\ pc \in [Thread -> Labels] /\ op \in [Thread -> Commands \cup {"refused"}]
  /\ active \in [Thread -> Port \cup {None}] /\ step \in [Thread -> 0 .. FlashWords + 2]
  /\ todo \in [Thread -> SUBSET Client]
  /\ streak \in [by : Thread \cup {None}, n : 0 .. FlashWords + 2]

\* load_program reaches the board in one piece: from its HALT on, no other
\* client's command and no poll gets between its writes, though ports are
\* replaced and commands hold handles looked up before.
FlashIsWhole ==
  \A t \in Thread : pc[t] = "work" /\ step[t] > 0 => streak = [by |-> t, n |-> step[t]]

\* No port is lost: one that is open is the current one or in the hands of
\* a thread that will install or close it, and the current one is open.
PortsAccounted ==
  /\ dbg # None => dbg \in open
  /\ \A h \in open \ {dbg} : \E c \in Client : pc[c] \in {"swap", "close"} /\ active[c] = h

\* Every message is dealt with, every poll comes to an end: no lock is kept,
\* and no two threads wait for each other.
Answered ==
  /\ \A c \in Client : pc[c] \notin {"receive", "gone"} ~> pc[c] \in {"receive", "gone"}
  /\ pc[Poll] # "sleep" ~> pc[Poll] \in {"sleep", "dead"}
=============================================================================
