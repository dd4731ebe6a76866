---------------------------- MODULE MCDebugLink ----------------------------
(***************************************************************************)
(* Instances of DebugLink with one clock per bit: a frame is 11 clocks,    *)
(* the argument timeout 20, UART_TX busy for 12.  The board's 217 clocks   *)
(* per bit leave the interpreter more time between two bytes, never less.  *)
(* A byte has twelve values, so that carries and values too large to pack  *)
(* happen at small numbers.                                                *)
(***************************************************************************)
EXTENDS DebugLink

MCByte == 0..11

\* A number whose bytes, the least significant first, are these.
Num(a, b, c, d) == Tools!Unpack(<<a, b, c, d>>)

\* Addresses and data whose bytes are command codes themselves.
A == Num(6, 2, 3, 1)
D == Num(1, 10, 7, 2)

Do(c)     == [cmd |-> c, fresh |-> FALSE]
At(c, a)  == [cmd |-> c, fresh |-> FALSE, addr |-> a]
Put2(c, a, d) == [cmd |-> c, fresh |-> FALSE, addr |-> a, data |-> d]
Span(c, a, n) == [cmd |-> c, fresh |-> FALSE, addr |-> a, n |-> n]
Reg(c, i) == [cmd |-> c, fresh |-> FALSE, idx |-> i]
Steps(n)  == [cmd |-> "step", fresh |-> FALSE, n |-> n]
LoadFile(f, a, keep, go) == [cmd |-> "load", fresh |-> FALSE, file |-> f, addr |-> a,
                             no_trim |-> keep, resume |-> go]
Flash(c, f, a, go) == [cmd |-> c, fresh |-> FALSE, file |-> f, addr |-> a, resume |-> go]
Fresh(u)  == [u EXCEPT !.fresh = TRUE]

\* Files: a raw image whose last word is not complete, the .mif made of one,
\* and a .mif written by hand: out of order, with a gap and a line repeated.
Raw(b)   == [kind |-> "bin", bytes |-> b, lines |-> <<>>]
Made(b)  == [kind |-> "mif", bytes |-> b, lines |-> Tools!bin2mif(b)]
ByHand   == [kind |-> "mif", bytes |-> <<9, 0, 0, 0, 0, 0, 0, 0, 7, 1, 0, 0>>,
             lines |-> <<Tools!Line(2, 5), Tools!Line(0, 9), Tools!Line(2, Num(7, 1, 0, 0)), Tools!Line(3, 0)>>]
NoFile   == [kind |-> "missing", bytes |-> <<>>, lines |-> <<>>]
Ranges   == [kind |-> "mif", bytes |-> <<>>,
             lines |-> <<[Tools!Line(0, 1) EXCEPT !.int = FALSE]>>]

Image == <<4, 0, 7, 1, 0, 0, 0, 0, 3, 10>>

Session(t, l, todo) == [tool |-> t, lose |-> l, todo |-> todo]

\* What people do: load a word, look at everything, single-step, run, look
\* again; at the end the user pauses and sends HALT, or reads the pc.
Documented == <<
  Session("cli", 2, << Do("halt"), Put2("write-mem", A, D), Put2("write-mem", D, A),
     At("read-mem", A), At("read-mmio", D), Fresh(Do("halt")), Fresh(Do("read-pc")) >>),
  Session("shell", 2, << Steps(2), Reg("reg", 1), Do("dump"), Reg("reg", NumRegs),
     Span("hexdump", 8, 2), Do("pc"), Fresh(Do("halt")) >>),
  Session("web", 2, << Do("resume"), Do("poll"), At("read_csr", Num(6, 6, 0, 0)),
     At("read_mmio", 0), Steps(1), Put2("write_mem", A, D), Do("poll"), Fresh(Do("halt")) >>),
  Session("cli", 1, << Do("resume"), Do("dump"), At("read-csr", Num(9, 3, 0, 0)),
     Reg("read-reg", 0), Span("hexdump", 0, 2), Steps(1), Fresh(Do("read-pc")) >>) >>

\* Programs loaded, each way there is; addresses that carry, and one that
\* does not fit.
Loading == <<
  Session("shell", 0, << Do("resume"), LoadFile(Made(Image), 4, FALSE, FALSE),
     At("rmem", 12), LoadFile(NoFile, 0, FALSE, FALSE), Fresh(Do("halt")) >>),
  Session("cli", 0, << LoadFile(ByHand, 0, TRUE, TRUE), LoadFile(Ranges, 0, TRUE, TRUE),
     Do("read-pc"), LoadFile(Raw(Image), 140, FALSE, FALSE), Span("hexdump", 140, 2) >>),
  Session("web", 0, << Flash("flash", Made(Image), 8, TRUE), Do("poll"),
     Flash("build", Raw(<<1, 0, 0, 0, 0, 0, 0, 0>>), 0, FALSE),
     Span("read_mem", 0, 2), Fresh(Do("halt")) >>),
  Session("shell", 0, << LoadFile(Raw(Image), ByteBase^WordBytes - 4, FALSE, TRUE),
     Do("pc") >>) >>

\* Commands for a halted core sent to one that runs, with command codes in
\* their arguments.
Misused == <<
  Session("shell", 0, << Do("resume"), At("rmem", Num(4, 1, 0, 0)), Put2("wmem", D, A), Do("pc"),
     At("rmem", A), Do("pc"), Fresh(Do("halt")) >>),
  Session("cli", 0, << Do("resume"), At("read-mem", A), Put2("write-mem", A, Num(0, 0, 0, 4)),
     Do("halt"), Fresh(Do("read-pc")), Fresh(Do("halt")) >>),
  Session("web", 0, << Do("resume"), Flash("flash", Raw(Image), 0, FALSE), Do("resume"),
     Put2("write_mem", A, Num(0, 0, 0, 4)), Flash("flash", Raw(Image), 8, FALSE),
     Fresh(Do("halt")) >>) >>

MCSessions == Documented \o Loading \o Misused

\* Back to back, and the longest spacing the timeout is meant to tolerate.
MCGaps == {11, TimeoutCycles + 1}

=============================================================================
