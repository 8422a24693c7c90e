-------------------------------- MODULE Columns --------------------------------
(***************************************************************************)
(* What SQLAlchemy writes of a row that a handler loaded, changed in       *)
(* memory and commits.                                                     *)
(***************************************************************************)

\* Mutant: the whole row is written back.
WholeRow(now, saw, new) == new

\* The UPDATE names the columns in which the copy "new" differs from what was
\* loaded, "saw"; the others keep what they hold "now".
Written(now, saw, new) == [c \in DOMAIN now |-> IF new[c] = saw[c] THEN now[c] ELSE new[c]]
=============================================================================
