----------------------------- MODULE ByteChannel -----------------------------
(***************************************************************************)
(* What the rest of the board assumes of a serial line: while it is up, a  *)
(* byte put on it is received, once and unchanged, before the next one is  *)
(* put on it.  got and strobe are the receiver's outputs: strobe is set    *)
(* when a byte is received.  While the line is down they may be anything.  *)
(***************************************************************************)
CONSTANTS Bytes, None

VARIABLES up, inflight, got, strobe

chanVars == <<up, inflight, got, strobe>>

Init == up \in BOOLEAN /\ inflight = None /\ got \in Bytes /\ strobe = FALSE

Send ==
  /\ up /\ inflight = None
  /\ inflight' \in Bytes
  /\ strobe' \in {FALSE, strobe}
  /\ UNCHANGED <<up, got>>

Receive ==
  /\ up /\ inflight # None /\ ~strobe
  /\ got' = inflight /\ strobe' = TRUE
  /\ inflight' = None
  /\ UNCHANGED up

Clear == up /\ strobe /\ strobe' = FALSE /\ UNCHANGED <<up, inflight, got>>

Down == ~up' /\ inflight' = None /\ got' \in Bytes /\ strobe' \in BOOLEAN

Up == ~up /\ up' /\ inflight' = None /\ ~strobe' /\ UNCHANGED got

Next == Send \/ Receive \/ Clear \/ Down \/ Up

\* What may happen to a byte, and that what is put on a line that is up does arrive.
Safe == Init /\ [][Next]_chanVars

Spec == Safe /\ WF_chanVars(Receive)
=============================================================================
