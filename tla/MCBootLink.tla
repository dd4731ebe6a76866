----------------------------- MODULE MCBootLink -----------------------------
(***************************************************************************)
(* Bytes of four bits, words of two bytes.  The longer file has, behind    *)
(* its first chunk, the size and the data of a shorter upload whose        *)
(* checksum is the same as its own; both files need padding.               *)
(***************************************************************************)
EXTENDS BootLink, Bitwise

MCXor(a, b) == a ^^ b
MCBinaries == { <<5>>, <<3, 1, 2, 0, 9>> }
=============================================================================
