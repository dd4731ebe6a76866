------------------------------ MODULE BootLink ------------------------------
(***************************************************************************)
(* An upload: tools/uart_loader.py, run as often as its user likes, the    *)
(* line, and the bootloader.                                               *)
(*                                                                         *)
(* uart.sv's receiver holds RX_done for the one clock in which it is back  *)
(* in IDLE, and the bootloader reads it once in its polling loop of six    *)
(* instructions, so that a byte is seen only if the poll meets the clock:  *)
(* the line delivers a byte or misses it, MaxLost times in an upload.      *)
(* What arrives while the bootloader does not poll is missed in any case.  *)
(***************************************************************************)
EXTENDS Bootloader, FiniteSetsExt

CONSTANTS
  Binaries,   \* files to upload
  ChunkSize,  \* bytes the loader writes in one call
  MaxLost,    \* bytes missed of an upload
  Backlog     \* replies the loader's driver holds

VARIABLES
  loader,   \* what uart_loader.py does
  binary,   \* the file it was given
  out,      \* its writes still to be made
  line,     \* bytes written that have not reached the receiver
  replies,  \* bytes from the bootloader that it has not read
  lost      \* bytes of this upload missed

linkVars == <<loader, binary, out, line, replies, lost>>
vars == <<bootVars, linkVars>>

-----------------------------------------------------------------------------
PadToWord(data) ==
  LET short == (WordBytes - (Len(data) % WordBytes)) % WordBytes
  IN  data \o [i \in 1..short |-> 0]

\* Of the first n bytes, and of all.
Running(data) ==
  LET x[n \in 0 .. Len(data)] == IF n = 0 THEN 0 ELSE ByteXor(x[n - 1], data[n])
  IN  x

Checksum(data) == Running(data)[Len(data)]

SizeBytes(n) == [k \in 1..WordBytes |-> (n \div Weight[k - 1]) % Radix]

Chunks(data) ==
  [k \in 1 .. (Len(data) + ChunkSize - 1) \div ChunkSize |->
     SubSeq(data, (k - 1) * ChunkSize + 1, Min({k * ChunkSize, Len(data)}))]

\* The loader's calls of write: the size, the chunks, the checksum.
Writes(data) == <<SizeBytes(Len(data))>> \o Chunks(data) \o <<<<Checksum(data)>>>>

\* Every file fits in the program memory, which neither side checks.
ASSUME BootLinkAssumption ==
  /\ Binaries \subseteq Seq(Byte)
  /\ \A b \in Binaries : Len(PadToWord(b)) <= WordBytes * MemWords
  /\ WordBytes * MemWords < WordMax
  /\ ChunkSize \in Nat \ {0} /\ MaxLost \in Nat \ {0} /\ Backlog \in Nat \ {0}

-----------------------------------------------------------------------------
(* uart_loader.py.  Opening the port drops what came in before; closing it *)
(* waits until what was written is out.                                    *)
Open ==
  /\ loader = "closed" /\ line = <<>>
  /\ loader' = "await_ready" /\ binary' \in Binaries
  /\ replies' = <<>> /\ lost' = 0
  /\ UNCHANGED <<bootVars, out, line>>

\* Any byte but 0xAA is skipped.
ReadReady ==
  /\ loader = "await_ready" /\ replies # <<>>
  /\ replies' = Tail(replies)
  /\ \/ /\ Head(replies) = "ready"
        /\ loader' = "write" /\ out' = Writes(PadToWord(binary))
     \/ Head(replies) # "ready" /\ UNCHANGED <<loader, out>>
  /\ UNCHANGED <<bootVars, binary, line, lost>>

Write ==
  /\ loader = "write"
  /\ line' = line \o Head(out) /\ out' = Tail(out)
  /\ loader' = IF out' = <<>> THEN "await_response" ELSE "write"
  /\ UNCHANGED <<bootVars, binary, replies, lost>>

Close == loader' = "closed" /\ out' = <<>> /\ replies' = <<>>

\* The loader reports what the first reply to the upload says.
Reports(reply) ==
  /\ loader = "await_response" /\ replies # <<>> /\ Head(replies) = reply
  /\ Close /\ UNCHANGED <<bootVars, binary, line, lost>>

Report == \E reply \in Sending : Reports(reply)

\* A read that timed out, a port that failed, or the user.
GiveUp ==
  /\ loader # "closed"
  /\ Close /\ UNCHANGED <<bootVars, binary, line, lost>>

-----------------------------------------------------------------------------
(* The line. *)
Deliver ==
  /\ line # <<>> /\ Receive(Head(line)) /\ line' = Tail(line)
  /\ UNCHANGED <<loader, binary, out, replies, lost>>

Miss ==
  /\ line # <<>> /\ line' = Tail(line)
  /\ \/ pc \in Receiving /\ lost < MaxLost /\ lost' = lost + 1
     \/ pc \notin Receiving /\ lost' = IF lost < MaxLost THEN lost + 1 ELSE lost
  /\ UNCHANGED <<bootVars, loader, binary, out, replies>>

\* The driver keeps nothing while no loader has the port open.
Reply ==
  /\ Send
  /\ \/ loader = "closed" /\ UNCHANGED replies
     \/ loader # "closed" /\ Len(replies) < Backlog /\ replies' = Append(replies, pc)
  /\ UNCHANGED <<loader, binary, out, line, lost>>

\* RX_TIMEOUT polls take most of a second, a byte on the line 0.1 ms: only a
\* loader that has stopped writing lets the bootloader wait that long.
Timeout == line = <<>> /\ RxTimeout /\ UNCHANGED linkVars

KeyReset == BoardReset /\ UNCHANGED linkVars

Init ==
  /\ BootInit
  /\ loader = "closed" /\ binary \in Binaries /\ out = <<>>
  /\ line = <<>> /\ replies = <<>> /\ lost = 0

Next ==
  \/ Open \/ ReadReady \/ Write \/ Report \/ GiveUp
  \/ Deliver \/ Miss \/ Reply \/ Timeout \/ KeyReset

\* The receiver and the bootloader run; nobody is obliged to upload.
Spec == Init /\ [][Next]_vars /\ WF_vars(Deliver \/ Miss) /\ WF_vars(Reply) /\ WF_vars(Timeout)

-----------------------------------------------------------------------------
TypeOK ==
  /\ BootTypeOK
  /\ loader \in {"closed", "await_ready", "write", "await_response"}
  /\ binary \in Binaries /\ line \in Seq(Byte) /\ lost \in 0..MaxLost
  /\ replies \in Seq(Sending) /\ Len(replies) <= Backlog

Loaded ==
  LET data == PadToWord(binary)
  IN  \A i \in 0 .. Len(data) \div WordBytes - 1 :
        mem[i] = SubSeq(data, WordBytes * i + 1, WordBytes * (i + 1))

\* uart_loader.py:129-130: "Program loaded successfully, CPU is running!" is
\* said only when the program is in memory, if no byte of this upload was
\* missed: a pause of the loader that makes the bootloader start again, a
\* reset in the middle, uploads broken off before and the memory they left
\* are all told apart by the ready byte between.
OkMeansLoaded == [][Reports("ok") /\ lost = 0 => Loaded]_vars

\* uart_loader.py:131-132: a checksum mismatch is reported only for an upload
\* that lost bytes, never because of one that came before it.
RejectsOnlyLosses == [][Reports("error") => lost > 0]_vars

\* bootloader.asm:126-128: whatever the loader and the line do, the bootloader
\* does not hang in an upload; it runs the program, refuses it or asks again.
NeverHangs == pc \in Receiving ~> pc \notin Receiving
=============================================================================
