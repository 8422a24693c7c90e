-------------------------------- MODULE MCMoney --------------------------------
(***************************************************************************)
(* An instance of Money for TLC.  Its parts share no state, so that the    *)
(* interleavings of one with another show nothing: a behaviour opens one   *)
(* of the books and stays with it.                                         *)
(***************************************************************************)
EXTENDS Money, TLC

CONSTANTS g1, cash, upi
VARIABLE book

\* The forms of a gift: entered, corrected, deleted, and its receipt issued.
Blank == [op |-> "create", gift |-> g1, amount |-> 1, mode |-> cash, set |-> {}]
AskedOfGifts ==
    {Blank, [Blank EXCEPT !.amount = 2]}
      \union {[Blank EXCEPT !.op = "update", !.set = {"amount"}, !.amount = a] : a \in 1..2}
      \union {[Blank EXCEPT !.op = "update", !.set = s, !.mode = upi] : s \in {{"mode"}, {"amount", "mode"}}}
      \union {[Blank EXCEPT !.op = o, !.gift = g] : o \in {"delete", "issue"}, g \in Gifts}

\* Two gifts there are from the start: g1 and another.
RecordedGifts ==
    LET other == CHOOSE g \in Gifts \ {g1} : TRUE
    IN [g \in {g1, other} |-> [amount |-> 1, mode |-> cash]]

EnteredAmounts == <<5, 3, 8>>
Budgets == [POOJA |-> 4]

MCInit == Init /\ book \in {"expenses", "donations", "ledger"}
MCNext == /\ \/ book = "expenses" /\ Spend
             \/ book = "donations" /\ Give
             \/ book = "ledger" /\ Enter
          /\ UNCHANGED book
MCSpec == MCInit /\ [][MCNext]_<<book, moneyVars>>
Symmetry == Permutations(Clerks) \union Permutations(Donors)
=============================================================================
