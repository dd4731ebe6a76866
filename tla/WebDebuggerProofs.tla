-------------------------- MODULE WebDebuggerProofs --------------------------
(***************************************************************************)
(* For any number of browsers, handles and words of a program: a flash     *)
(* reaches the board in one piece and no port is lost.  The first holds    *)
(* because whoever works on the board holds dbg_lock (Exclusive); the      *)
(* second because a thread between opening a port, or taking the current   *)
(* one out, and closing it is the only one with that handle (Owned), and   *)
(* a thread that does neither has none to install (Empty).                 *)
(***************************************************************************)
EXTENDS WebDebugger, TLAPS

Exclusive == \A t \in Thread : pc[t] = "work" => dbg_lock = t

Moving(c) == pc[c] \in {"swap", "close"}

Empty == \A t \in Thread : pc[t] \notin {"lock", "work", "swap", "close"} => active[t] = None

Owned ==
  \A c \in Client : Moving(c) /\ active[c] # None =>
    /\ active[c] \in open /\ active[c] # dbg
    /\ \A d \in Client : Moving(d) /\ active[d] = active[c] => d = c

BoardInv == TypeOK /\ Exclusive /\ FlashIsWhole
PortInv  == Empty /\ Owned /\ PortsAccounted
Inv      == BoardInv /\ PortInv

LEMMA InitInv == ASSUME Init PROVE Inv
<1> USE WebDebuggerAssumption DEF Init, Thread
<1>1. TypeOK
  BY DEF TypeOK, Labels, Commands
<1>2. Exclusive /\ FlashIsWhole
  BY DEF Exclusive, FlashIsWhole
<1>3. Empty /\ Owned /\ PortsAccounted
  BY DEF Empty, Owned, Moving, PortsAccounted
<1> QED
  BY <1>1, <1>2, <1>3 DEF Inv, BoardInv, PortInv

-----------------------------------------------------------------------------
(* Who works on the board. *)

LEMMA BoardStep == ASSUME BoardInv, [Next]_vars PROVE BoardInv'
<1> USE WebDebuggerAssumption DEF BoardInv, TypeOK, Exclusive, FlashIsWhole, Thread, Goto, Hold, locks,
        Labels, Commands, MinWrites, MaxWrites
<1>1. ASSUME NEW c \in Client, Enter(c) PROVE BoardInv'
  BY <1>1 DEF Enter
<1>2. ASSUME NEW c \in Client, Receive(c) PROVE BoardInv'
  BY <1>2 DEF Receive, Start, Commands
<1>3. ASSUME NEW c \in Client, BuildError(c) PROVE BoardInv'
  BY <1>3 DEF BuildError
<1>4. ASSUME NEW c \in Client, Built(c) PROVE BoardInv'
  BY <1>4 DEF Built
<1>5. ASSUME NEW c \in Client, Misread(c) PROVE BoardInv'
  BY <1>5 DEF Misread
<1>6. ASSUME NEW c \in Client, BrowserCloses(c) PROVE BoardInv'
  BY <1>6 DEF BrowserCloses
<1>7. ASSUME NEW c \in Client, Status(c) PROVE BoardInv'
  BY <1>7 DEF Status
<1>8. ASSUME NEW c \in Client, Reply(c) PROVE BoardInv'
  BY <1>8 DEF Reply, Over
<1>9. ASSUME NEW c \in Client, Quit(c) PROVE BoardInv'
  BY <1>9 DEF Quit, Over
<1>10. ASSUME NEW c \in Client, OpenPort(c) PROVE BoardInv'
  BY <1>10 DEF OpenPort, Fresh
<1>11. ASSUME NEW c \in Client, Swap(c) PROVE BoardInv'
  BY <1>11 DEF Swap
<1>12. ASSUME NEW c \in Client, ClosePort(c) PROVE BoardInv'
  BY <1>12 DEF ClosePort
<1>13. ASSUME NEW c \in Client, PackError(c) PROVE BoardInv'
  BY <1>13 DEF PackError, Leave
<1>14. ASSUME NEW t \in Thread, WriteCommand(t) PROVE BoardInv'
  BY <1>14 DEF WriteCommand
<1>15. ASSUME NEW t \in Thread, Finish(t) PROVE BoardInv'
  BY <1>15 DEF Finish, Leave, Report
<1>16. ASSUME NEW t \in Thread, Fail(t) PROVE BoardInv'
  BY <1>16 DEF Fail, Leave, Report
<1>17. ASSUME NEW t \in Thread, Crash(t) PROVE BoardInv'
  BY <1>17 DEF Crash, Leave
<1>18. ASSUME NEW t \in Thread, Send(t) PROVE BoardInv'
  BY <1>18 DEF Send
<1>19. ASSUME NEW t \in Thread, Sent(t) PROVE BoardInv'
  BY <1>19 DEF Sent, Idle
<1>20. ASSUME NEW t \in Thread, Lookup(t) PROVE BoardInv'
  BY <1>20 DEF Lookup
<1>21. ASSUME NEW t \in Thread, Lock(t) PROVE BoardInv'
  BY <1>21 DEF Lock
<1>22. ASSUME NEW t \in Thread, Broadcast(t) PROVE BoardInv'
  BY <1>22 DEF Broadcast
<1>23. CASE Wake
  BY <1>23 DEF Wake
<1>24. CASE UNCHANGED vars
  BY <1>24 DEF vars
<1> QED
  BY <1>1, <1>2, <1>3, <1>4, <1>5, <1>6, <1>7, <1>8, <1>9, <1>10, <1>11, <1>12, <1>13, <1>14, <1>15, <1>16, <1>17, <1>18, <1>19, <1>20, <1>21, <1>22, <1>23, <1>24 DEF Next, Runs, Waits

-----------------------------------------------------------------------------
(* Who has which port. *)

LEMMA PortStep == ASSUME Inv, [Next]_vars PROVE PortInv'
<1> USE WebDebuggerAssumption DEF Inv, BoardInv, TypeOK, PortInv, Empty, Owned, Moving, PortsAccounted, Thread, Goto, Hold,
        locks, Labels
<1>1. ASSUME NEW c \in Client, Enter(c) PROVE PortInv'
  BY <1>1 DEF Enter
<1>2. ASSUME NEW c \in Client, Receive(c) PROVE PortInv'
  BY <1>2 DEF Receive, Start, Commands
<1>3. ASSUME NEW c \in Client, BuildError(c) PROVE PortInv'
  BY <1>3 DEF BuildError
<1>4. ASSUME NEW c \in Client, Built(c) PROVE PortInv'
  BY <1>4 DEF Built
<1>5. ASSUME NEW c \in Client, Misread(c) PROVE PortInv'
  BY <1>5 DEF Misread
<1>6. ASSUME NEW c \in Client, BrowserCloses(c) PROVE PortInv'
  BY <1>6 DEF BrowserCloses
<1>7. ASSUME NEW c \in Client, Status(c) PROVE PortInv'
  BY <1>7 DEF Status
<1>8. ASSUME NEW c \in Client, Reply(c) PROVE PortInv'
  BY <1>8 DEF Reply, Over
<1>9. ASSUME NEW c \in Client, Quit(c) PROVE PortInv'
  BY <1>9 DEF Quit, Over
<1>10. ASSUME NEW c \in Client, OpenPort(c) PROVE PortInv'
  BY <1>10 DEF OpenPort, Fresh
<1>11. ASSUME NEW c \in Client, Swap(c) PROVE PortInv'
  BY <1>11 DEF Swap
<1>12. ASSUME NEW c \in Client, ClosePort(c) PROVE PortInv'
  BY <1>12 DEF ClosePort
<1>13. ASSUME NEW c \in Client, PackError(c) PROVE PortInv'
  BY <1>13 DEF PackError, Leave
<1>14. ASSUME NEW t \in Thread, WriteCommand(t) PROVE PortInv'
  BY <1>14 DEF WriteCommand
<1>15. ASSUME NEW t \in Thread, Finish(t) PROVE PortInv'
  BY <1>15 DEF Finish, Leave, Report
<1>16. ASSUME NEW t \in Thread, Fail(t) PROVE PortInv'
  BY <1>16 DEF Fail, Leave, Report
<1>17. ASSUME NEW t \in Thread, Crash(t) PROVE PortInv'
  BY <1>17 DEF Crash, Leave
<1>18. ASSUME NEW t \in Thread, Send(t) PROVE PortInv'
  BY <1>18 DEF Send
<1>19. ASSUME NEW t \in Thread, Sent(t) PROVE PortInv'
  BY <1>19 DEF Sent, Idle
<1>20. ASSUME NEW t \in Thread, Lookup(t) PROVE PortInv'
  BY <1>20 DEF Lookup
<1>21. ASSUME NEW t \in Thread, Lock(t) PROVE PortInv'
  BY <1>21 DEF Lock
<1>22. ASSUME NEW t \in Thread, Broadcast(t) PROVE PortInv'
  BY <1>22 DEF Broadcast
<1>23. CASE Wake
  BY <1>23 DEF Wake
<1>24. CASE UNCHANGED vars
  BY <1>24 DEF vars
<1> QED
  BY <1>1, <1>2, <1>3, <1>4, <1>5, <1>6, <1>7, <1>8, <1>9, <1>10, <1>11, <1>12, <1>13, <1>14, <1>15, <1>16, <1>17, <1>18, <1>19, <1>20, <1>21, <1>22, <1>23, <1>24 DEF Next, Runs, Waits

-----------------------------------------------------------------------------
LEMMA InvHolds == Spec => []Inv
<1>1. Inv /\ [Next]_vars => Inv'
  BY BoardStep, PortStep DEF Inv
<1> QED
  BY InitInv, <1>1, PTL DEF Spec

\* The server's state keeps its types: among others, no command writes more
\* to the board than it consists of.
THEOREM TypeCorrect == Spec => []TypeOK
<1>1. Inv => TypeOK
  BY DEF Inv, BoardInv
<1> QED
  BY InvHolds, <1>1, PTL

\* Whatever the other browsers and the poll thread do, nothing reaches the
\* board between the writes of a load_program (server.py:409-413).
THEOREM FlashesAreWhole == Spec => []FlashIsWhole
<1>1. Inv => FlashIsWhole
  BY DEF Inv, BoardInv
<1> QED
  BY InvHolds, <1>1, PTL

\* Connects and disconnects in any order never lose an open serial port
\* (server.py:112-136).
THEOREM NoPortLost == Spec => []PortsAccounted
<1>1. Inv => PortsAccounted
  BY DEF Inv, PortInv
<1> QED
  BY InvHolds, <1>1, PTL
=============================================================================
