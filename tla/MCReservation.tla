---- MODULE MCReservation ----
EXTENDS Reservation, TLC

\* A per-minute and a per-day limit, scaled down: one request in any two
\* seconds and two in any four.
TwoCaps == {[window |-> 1, limit |-> 1], [window |-> 4, limit |-> 2]}
PairCap == {[window |-> 2, limit |-> 2]}

TxSymmetry == Permutations(Tx)
====
