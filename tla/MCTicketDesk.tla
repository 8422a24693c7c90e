---------------------------- MODULE MCTicketDesk ----------------------------
(***************************************************************************)
(* An instance of TicketDesk for TLC: a ticket that is booked or issued,   *)
(* and that two clerks work on while it may be deleted, and another one,   *)
(* for a later day, that only shares the runs of the cron job with it.     *)
(***************************************************************************)
EXTENDS TicketDesk, TLC

CONSTANTS issue1, issue2, clerk1, clerk2, t1, t2

MCAsks == (issue1 :> Issues) @@ (issue2 :> {"ONLINE"}) @@ (clerk1 :> {"COLLECT", "DELETE"})
          @@ (clerk2 :> {"COLLECT", "SCAN", "DELETE"})
MCFor == (issue2 :> t2) @@ [r \in {issue1, clerk1, clerk2} |-> t1]
MCSevaDay == (t1 :> 0) @@ (t2 :> 1)
=============================================================================
