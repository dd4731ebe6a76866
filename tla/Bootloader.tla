----------------------------- MODULE Bootloader -----------------------------
(***************************************************************************)
(* src/bootloader/bootloader.asm: one action per byte it sends or receives *)
(* with all it computes before the next.  It runs alone on the core, so    *)
(* what counts of its timing is when it polls the receiver, which the line *)
(* of BootLink decides.                                                    *)
(*                                                                         *)
(* A byte is a number below Radix (256), a word its WordBytes (4) bytes,   *)
(* lowest first.  mem is the memory from 0x1000 on; MemWords must exceed   *)
(* what an upload can store, since the code checks no limit.               *)
(***************************************************************************)
EXTENDS Naturals, Sequences

CONSTANTS
  Radix,      \* the number of bytes
  WordBytes,  \* bytes of a word
  MemWords,   \* words of program memory
  ByteXor(_, _)   \* of two bytes

ASSUME BootloaderAssumption ==
  /\ Radix \in Nat /\ Radix > 1 /\ WordBytes \in Nat /\ WordBytes > 1 /\ MemWords \in Nat \ {0}
  /\ \A a, b \in 0 .. Radix - 1 : ByteXor(a, b) \in 0 .. Radix - 1

VARIABLES
  pc,     \* what the program does next
  word,   \* x20 in the size, x24 in the data: the bytes read so far
  left,   \* x22, the bytes still to come
  dest,   \* x21, as a word of mem
  acc,    \* x23, the checksum
  mem

bootVars == <<pc, word, left, dest, acc, mem>>

Byte == 0 .. Radix - 1
Word == [1..WordBytes -> Byte]

\* What a byte is worth that k bytes come before: the shifts by 8, 16 and 24.
Weight ==
  LET w[k \in 0..WordBytes] == IF k = 0 THEN 1 ELSE Radix * w[k - 1]
  IN  w

WordMax == Weight[WordBytes]    \* 2^32: the counter wraps there

Receiving == {"size", "data", "checksum"}
Sending   == {"ready", "ok", "error"}
Done      == {"run", "hang"}

\* The number that the last k bytes make, little endian, and that all make.
OfLast(w) ==
  LET v[k \in 0 .. Len(w)] == IF k = 0 THEN 0 ELSE w[Len(w) - k + 1] + Radix * v[k - 1]
  IN  v

Value(w) == OfLast(w)[Len(w)]

\* recv_loop: another word, or the checksum.
Loop(n) == IF n = 0 THEN "checksum" ELSE "data"

BootInit ==
  /\ pc = "ready" /\ word = <<>> /\ left = 0 /\ dest = 0 /\ acc = 0
  /\ mem = [i \in 0 .. MemWords - 1 |-> [k \in 1..WordBytes |-> 0]]

-----------------------------------------------------------------------------
\* Reading a word: the bytes before its last one.
\* Mutant: the last byte is taken for one of the others.
CollectsOneMore(b) ==
  /\ Len(word) < WordBytes
  /\ word' = Append(word, b)
  /\ UNCHANGED <<pc, left, dest>>
Collect(b) ==
  /\ Len(word) < WordBytes - 1
  /\ word' = Append(word, b)
  /\ UNCHANGED <<pc, left, dest>>

Completed(b) ==
  /\ Len(word) = WordBytes - 1
  /\ word' = <<>>

\* Mutant: the checksum of an upload that was broken off is kept.
KeepsChecksum(b) ==
  /\ pc = "size"
  /\ \/ Collect(b)
     \/ /\ Completed(b)
        /\ left' = Value(Append(word, b)) /\ dest' = 0
        /\ pc' = Loop(left')
  /\ UNCHANGED <<acc, mem>>
GetSize(b) ==
  /\ pc = "size"
  /\ \/ Collect(b) /\ UNCHANGED acc
     \/ /\ Completed(b)
        /\ left' = Value(Append(word, b)) /\ dest' = 0 /\ acc' = 0
        /\ pc' = Loop(left')
  /\ UNCHANGED mem

GetData(b) ==
  /\ pc = "data"
  /\ acc' = ByteXor(acc, b)
  /\ \/ Collect(b) /\ UNCHANGED mem
     \/ /\ Completed(b)
        /\ mem' = [mem EXCEPT ![dest] = Append(word, b)]
        /\ dest' = dest + 1
        /\ left' = (left + WordMax - WordBytes) % WordMax
        /\ pc' = Loop(left')

GetChecksum(b) ==
  /\ pc = "checksum"
  /\ pc' = IF b = acc THEN "ok" ELSE "error"
  /\ UNCHANGED <<word, left, dest, acc, mem>>

Receive(b) == GetSize(b) \/ GetData(b) \/ GetChecksum(b)

\* A byte goes out: 0xAA, 0xBB or 0xEE, and the program moves on.
Send ==
  /\ pc \in Sending
  /\ pc' = CASE pc = "ready" -> "size" [] pc = "ok" -> "run" [] pc = "error" -> "hang"
  /\ UNCHANGED <<word, left, dest, acc, mem>>

\* Back to _start.  The size and the address are set before they are read
\* again, so their old values are dropped; the checksum's is kept.
Restart == pc' = "ready" /\ word' = <<>> /\ left' = 0 /\ dest' = 0 /\ UNCHANGED <<acc, mem>>

\* Mutant: only the wait for a size times out.
SizeTimesOut == pc = "size" /\ Restart
\* Mutant: after a timeout the next upload is awaited without a ready byte.
RestartsSilently ==
  pc \in Receiving /\ pc' = "size" /\ word' = <<>> /\ left' = 0 /\ dest' = 0 /\ UNCHANGED <<acc, mem>>
\* RX_TIMEOUT polls without a byte.
RxTimeout == pc \in Receiving /\ Restart

\* The board's reset: neither the registers nor the memory are cleared.
BoardReset == Restart

-----------------------------------------------------------------------------
BootTypeOK ==
  /\ pc \in Receiving \cup Sending \cup Done
  /\ word \in UNION {[1..n -> Byte] : n \in 0 .. WordBytes - 1}
  /\ left \in 0 .. WordMax - 1 /\ dest \in 0 .. MemWords /\ acc \in Byte
  /\ mem \in [0 .. MemWords - 1 -> Word]
=============================================================================
