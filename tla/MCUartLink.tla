----------------------------- MODULE MCUartLink -----------------------------
(***************************************************************************)
(* Bytes of three bits.  The rates are odd, as the board's 217, and even.  *)
(***************************************************************************)
EXTENDS UartLink

\* As far from the middle of a bit as an edge may come.
MCSkew(rate) == rate \div 2 - 1
=============================================================================
