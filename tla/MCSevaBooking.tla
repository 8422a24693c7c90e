--------------------------- MODULE MCSevaBooking ---------------------------
(***************************************************************************)
(* Instances of SevaBooking for TLC.  One digit of padding in base 3: the  *)
(* numbers 1 and 2 are padded, 3 outgrows the padding.                     *)
(***************************************************************************)
EXTENDS SevaBooking, TLC

CONSTANTS r1, r2, r3, abhishekam, d1, m1

MCCaps == {0, 1}
MCOldNumbers == {1}

Ask(k) == [kind |-> k, seva |-> abhishekam, date |-> d1, mobile |-> m1]

MCAsks == (r1 :> {Ask("ONLINE")}) @@ (r2 :> {Ask("ONLINE"), Ask("COUNTER")}) @@ (r3 :> {Ask("COUNTER")})
=============================================================================
