------------------------------- MODULE Timer -------------------------------
(***************************************************************************)
(* timer.sv: a down-counter that reloads itself and raises irq until       *)
(* software writes 1 to STATUS.  One step is one clock edge.               *)
(***************************************************************************)
EXTENDS Naturals

VARIABLES
  reload_val,
  en,
  pending,     \* drives irq
  count

vars == <<reload_val, en, pending, count>>

RELOAD == 0
CTRL   == 1
STATUS == 2

\* What rst leaves. The program sets the reload value before it enables.
Init ==
  /\ reload_val = 0 /\ count = 0
  /\ en = FALSE /\ pending = FALSE

Underflows == en /\ count = 0

\* A write of 1 to STATUS.
Acks(we, reg, wdata) == we /\ reg = STATUS /\ wdata % 2 = 1

\* Mutant: the acknowledgement wins over an underflow of the same clock.
AckWins(we, reg, wdata) == (pending \/ Underflows) /\ ~Acks(we, reg, wdata)

\* Both assign pending; the underflow's is the later one in the block.
PendingAfter(we, reg, wdata) == Underflows \/ (pending /\ ~Acks(we, reg, wdata))

\* The write of the same clock is seen by neither the enable nor the reload.
Clock(we, reg, wdata) ==
  /\ reload_val' = IF we /\ reg = RELOAD THEN wdata ELSE reload_val
  /\ en' = IF we /\ reg = CTRL THEN wdata % 2 = 1 ELSE en
  /\ pending' = PendingAfter(we, reg, wdata)
  /\ count' = IF Underflows THEN reload_val ELSE IF en THEN count - 1 ELSE count

Reset ==
  /\ reload_val' = 0 /\ count' = 0
  /\ en' = FALSE /\ pending' = FALSE
=============================================================================
