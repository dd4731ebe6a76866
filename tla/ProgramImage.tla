---------------------------- MODULE ProgramImage ----------------------------
(***************************************************************************)
(* Program images on their way to the board: src/bootloader/bin2mif.py     *)
(* writes a .mif, src/tools/reg_debugger.py and src/tools/webdbg/server.py *)
(* read a .mif or a raw binary into the list of words they then send.      *)
(*                                                                         *)
(* A byte is a number below ByteBase, a word a number of WordBytes bytes,  *)
(* the least significant first.  A .mif is the sequence of its "addr :     *)
(* data" lines; the text around them, and the radixes, are left out.       *)
(***************************************************************************)
EXTENDS Integers, SequencesExt

CONSTANTS ByteBase, WordBytes, Depth   \* 256, 4, and bin2mif's 4096

\* struct.pack: what does not fit raises struct.error.
Fits(v, n) == v \in 0 .. ByteBase^n - 1
Pack(v, n) == [i \in 1..n |-> (v \div ByteBase^(i - 1)) % ByteBase]
Unpack(bytes) == FoldRight(LAMBDA b, v : b + ByteBase * v, bytes, 0)

Pad(raw) == IF Len(raw) % WordBytes = 0 THEN raw
            ELSE raw \o [i \in 1 .. WordBytes - (Len(raw) % WordBytes) |-> 0]

\* Mutant: a last word that is not complete is left out.
WholeWordsOnly(raw) ==
  [i \in 1 .. Len(raw) \div WordBytes |->
     Unpack(SubSeq(raw, WordBytes * (i - 1) + 1, WordBytes * i))]
WordsOf(raw) ==
  LET padded == Pad(raw)
  IN  [i \in 1 .. Len(padded) \div WordBytes |->
         Unpack(SubSeq(padded, WordBytes * (i - 1) + 1, WordBytes * i))]

Trim(words) == SubSeq(words, 1, SelectLastInSeq(words, LAMBDA w : w # 0))

-----------------------------------------------------------------------------
\* A line of a .mif; `int` is false when int() cannot read it, as in a range.
Line(a, w) == [addr |-> a, data |-> w, int |-> TRUE]

\* Every word of the file, however many, then zeros up to the depth.
bin2mif(raw) ==
  LET words == WordsOf(raw)
      More  == IF Len(words) < Depth THEN Depth - Len(words) ELSE 0
      all   == words \o [i \in 1..More |-> 0]
  IN  [i \in DOMAIN all |-> Line(i - 1, all[i])]

\* An image is the words and the exception reading it raised, if any.
Words(ws) == [words |-> ws, err |-> "none"]
Error(e)  == [words |-> <<>>, err |-> e]

\* A later line for an address replaces an earlier one; a gap reads as zero.
parse_mif(lines) ==
  LET At(a) == SelectLastInSeq(lines, LAMBDA l : l.addr = a)
      top   == FoldLeft(LAMBDA m, l : IF l.addr >= m THEN l.addr + 1 ELSE m, 0, lines)
  IN  IF \E i \in DOMAIN lines : ~lines[i].int THEN Error("ValueError")
      ELSE Words([i \in 1..top |-> IF At(i - 1) = 0 THEN 0 ELSE lines[At(i - 1)].data])

-----------------------------------------------------------------------------
\* A file: its kind is its extension, or "missing"; a .mif holds lines, any
\* other file bytes.
load_words_from_file(file, trim) ==
  LET image == CASE file.kind = "missing" -> Error("IOError")
                 [] file.kind = "mif"     -> parse_mif(file.lines)
                 [] OTHER                 -> Words(WordsOf(file.bytes))
  IN  IF trim THEN [image EXCEPT !.words = Trim(@)] ELSE image

\* The server is given the contents, never a path, and always trims.
_bytes_to_words(raw)      == Words(Trim(WordsOf(raw)))
_mif_bytes_to_words(text) == [parse_mif(text) EXCEPT !.words = Trim(@)]

=============================================================================
