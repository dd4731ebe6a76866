------------------------------ MODULE MCSocBus ------------------------------
EXTENDS SocBus

A(p, w) == [page |-> p, word |-> w]

\* Two memory words, the UART's data and status registers.
MCAddr == {A("bram", 0), A("bram", 1), A("uart", 0), A("uart", 1)}

\* KEY[1] is never pressed.
KeyReleasedSpec == Init /\ [][Next /\ key']_vars
=============================================================================
