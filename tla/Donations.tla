------------------------------- MODULE Donations -------------------------------
(***************************************************************************)
(* Gifts, their entries in the ledger and their receipts: DonationService  *)
(* in services/donor_service.py.                                           *)
(*                                                                         *)
(* A handler loads the gift, then its ledger entry, and commits what it    *)
(* changed of both; nothing locks them in between.  A receipt takes the    *)
(* number after the highest one and is tried again when another gift got   *)
(* that number first.  A request that fails or dies stays where it is.     *)
(*                                                                         *)
(* "amount" stands for the amount and the date, which a receipt freezes,   *)
(* and "mode" for the mode of payment, which it does not.  All receipts    *)
(* are issued in one year.  Left out: purposes and occasions; the archive  *)
(* of the PDF, which nothing reads; a manual ledger entry that names a     *)
(* gift's reference.                                                       *)
(***************************************************************************)
EXTENDS Naturals, FiniteSets, Columns

CONSTANTS Requests, Gifts, Amounts, Modes,
          Forms,        \* the forms that are submitted
          Recorded,     \* the entries of the gifts there are from the start
          MaxTries,     \* 5 in the code
          LastNumber,   \* bound: receipt numbers
          NoRow

Ops == {"create", "update", "delete", "issue"}
Form == [op : Ops, gift : Gifts, amount : Amounts, mode : Modes, set : SUBSET {"amount", "mode"}]

\* The columns shared with the ledger entry, and the receipt's number, 0 for None.
Entry == [amount : Amounts, mode : Modes]
Row == [amount : Amounts, mode : Modes, receipt : Nat]

DonationsAssumption == /\ Forms \subseteq Form
                       /\ DOMAIN Recorded \subseteq Gifts /\ \A g \in DOMAIN Recorded : Recorded[g] \in Entry
                       /\ NoRow \notin Row /\ NoRow \notin Entry
                       /\ MaxTries \in Nat \ {0} /\ LastNumber \in Nat

VARIABLES
    active,   \* donors.is_active of the one donor
    gift,     \* the rows of donations
    income,   \* the ledger entry of each gift
    request,  \* where each request is, with what it has loaded
    issued,   \* history: every <<number, gift, amount>> that a receipt was issued for
    gone,     \* history: gifts deleted
    raced     \* history: gifts changed by a request that had loaded something else, or
              \* given a receipt after they had one

donationsVars == <<active, gift, income, request, issued, gone, raced>>

Idle == [step |-> "idle"]
Busy == [step : {"loaded", "found", "numbered", "again", "done", "refused"}, form : Form,
         saw : Row \union {NoRow}, entry : Entry \union {NoRow}, tries : Nat, number : Nat]

Init == /\ active = TRUE
        /\ gift = [g \in Gifts |->
                     IF g \in DOMAIN Recorded
                     THEN [amount |-> Recorded[g].amount, mode |-> Recorded[g].mode, receipt |-> 0]
                     ELSE NoRow]
        /\ income = [g \in Gifts |-> IF g \in DOMAIN Recorded THEN Recorded[g] ELSE NoRow]
        /\ request = [r \in Requests |-> Idle]
        /\ issued = {} /\ gone = {} /\ raced = {}

To(r, fields) == request' = [request EXCEPT ![r] = fields]
NothingWritten == UNCHANGED <<active, gift, income, issued, gone, raced>>
At(r, step, op) == request[r].step = step /\ request[r].form.op = op
-----------------------------------------------------------------------------
(* update_donor and delete_donor, as far as a new gift reads them *)
SetDonor == /\ active' = ~active
            /\ UNCHANGED <<gift, income, request, issued, gone, raced>>

\* Mutant: a gift with a receipt is still edited.
EditsReceipted(f, row) == f.op = "delete" => row.receipt = 0

\* The checks of update and delete: a receipt freezes the amount and the gift.
Allowed(f, row) == /\ f.op = "update" /\ "amount" \in f.set => row.receipt = 0
                   /\ f.op = "delete" => row.receipt = 0

\* get, or the load of the donor in create.
Load(r) == \E f \in Forms :
    LET row == gift[f.gift]
        ok == IF f.op = "create" THEN active ELSE Allowed(f, row)
    IN /\ request[r] = Idle
       /\ f.op = "create" \/ row # NoRow
       /\ To(r, [step |-> IF ~ok THEN "refused"
                          ELSE IF f.op = "issue" /\ row.receipt # 0 THEN "done" ELSE "loaded",
                 form |-> f, saw |-> IF f.op = "create" THEN NoRow ELSE row, entry |-> NoRow,
                 tries |-> 0, number |-> 0])
       /\ NothingWritten

\* _linked_income
FindIncome(r) ==
    LET q == request[r]
    IN /\ At(r, "loaded", "update") \/ At(r, "loaded", "delete")
       /\ To(r, [q EXCEPT !.step = "found", !.entry = income[q.form.gift]])
       /\ NothingWritten

\* The gift and its ledger entry, in one transaction.  Bound: a gift takes an id of
\* Gifts that no gift ever had.
Create(r) == \E g \in Gifts :
    LET q == request[r]
        f == q.form
    IN /\ At(r, "loaded", "create") /\ gift[g] = NoRow /\ g \notin gone
       /\ gift' = [gift EXCEPT ![g] = [amount |-> f.amount, mode |-> f.mode, receipt |-> 0]]
       /\ income' = [income EXCEPT ![g] = [amount |-> f.amount, mode |-> f.mode]]
       /\ To(r, [q EXCEPT !.step = "done", !.form = [f EXCEPT !.gift = g]])
       /\ UNCHANGED <<active, issued, gone, raced>>

\* Mutant: the ledger entry is left as it is.
FieldsOfGift(f, entry) == entry

\* The columns of a form laid over a row or an entry.
Laid(f, row) == [c \in DOMAIN row |-> IF c \in f.set THEN f[c] ELSE row[c]]
\* The ledger entry follows the fields that the form sends.
Followed(f, entry) == Laid(f, entry)

Overtaken(q) == gift[q.form.gift] # q.saw \/ income[q.form.gift] # q.entry
RacedBy(q) == IF Overtaken(q) THEN raced \union {q.form.gift} ELSE raced

\* The commit of update: only the columns that differ from what each row held when it
\* was loaded; a row that is gone fails the whole commit.
CommitUpdate(r) ==
    LET q == request[r]
        g == q.form.gift
    IN /\ At(r, "found", "update") /\ gift[g] # NoRow /\ q.entry # NoRow
       /\ gift' = [gift EXCEPT ![g] = Written(gift[g], q.saw, Laid(q.form, q.saw))]
       /\ income' = [income EXCEPT ![g] = Written(income[g], q.entry, Followed(q.form, q.entry))]
       /\ raced' = RacedBy(q)
       /\ To(r, [q EXCEPT !.step = "done"])
       /\ UNCHANGED <<active, issued, gone>>

\* A DELETE that finds no row is no error.
CommitDelete(r) ==
    LET q == request[r]
        g == q.form.gift
    IN /\ At(r, "found", "delete")
       /\ gift' = [gift EXCEPT ![g] = NoRow]
       /\ income' = IF q.entry # NoRow THEN [income EXCEPT ![g] = NoRow] ELSE income
       /\ gone' = gone \union {g}
       /\ raced' = RacedBy(q)
       /\ To(r, [q EXCEPT !.step = "done"])
       /\ UNCHANGED <<active, issued>>

\* An UPDATE that finds no row is an error, rolled back.
FindGone(r) ==
    LET q == request[r]
    IN /\ At(r, "found", "update") \/ q.step \in {"numbered", "again"}
       /\ gift[q.form.gift] = NoRow
       /\ To(r, [q EXCEPT !.step = "refused"])
       /\ NothingWritten
-----------------------------------------------------------------------------
(* issue_receipt *)
Numbers == {gift[g].receipt : g \in {h \in Gifts : gift[h] # NoRow}} \ {0}

\* last_receipt_number, plus one.
NextNumber == IF Numbers = {} THEN 1 ELSE 1 + CHOOSE n \in Numbers : \A k \in Numbers : k <= n

TakeNumber(r) ==
    LET q == request[r]
    IN /\ At(r, "loaded", "issue") /\ NextNumber <= LastNumber
       /\ To(r, [q EXCEPT !.step = "numbered", !.number = NextNumber])
       /\ NothingWritten

\* The unique constraint of receipt_number.
Free(n, g) == \A h \in Gifts \ {g} : gift[h] # NoRow => gift[h].receipt # n

CommitReceipt(r) ==
    LET q == request[r]
        g == q.form.gift
    IN /\ q.step = "numbered" /\ gift[g] # NoRow /\ Free(q.number, g)
       /\ gift' = [gift EXCEPT ![g] = Written(gift[g], q.saw, [q.saw EXCEPT !.receipt = q.number])]
       /\ issued' = issued \union {<<q.number, g, gift[g].amount>>}
       /\ raced' = IF gift[g] = q.saw /\ q.saw.receipt = 0 THEN raced ELSE raced \union {g}
       /\ To(r, [q EXCEPT !.step = "done"])
       /\ UNCHANGED <<active, income, gone>>

\* Another gift has the number: rolled back and, but for the last time, tried again
\* with the gift loaded anew and not looked at.
NumberTaken(r) ==
    LET q == request[r]
    IN /\ q.step = "numbered" /\ gift[q.form.gift] # NoRow /\ ~Free(q.number, q.form.gift)
       /\ To(r, [q EXCEPT !.tries = @ + 1, !.step = "again"])
       /\ NothingWritten

Retry(r) ==
    LET q == request[r]
    IN /\ q.step = "again" /\ gift[q.form.gift] # NoRow
       /\ To(r, [q EXCEPT !.saw = gift[q.form.gift],
                          !.step = IF q.tries < MaxTries THEN "loaded" ELSE "refused"])
       /\ NothingWritten

Serve(r) == \/ Load(r) \/ FindIncome(r) \/ Create(r) \/ CommitUpdate(r) \/ CommitDelete(r)
            \/ FindGone(r) \/ TakeNumber(r) \/ CommitReceipt(r) \/ NumberTaken(r) \/ Retry(r)
Next == SetDonor \/ \E r \in Requests : Serve(r)
Spec == Init /\ [][Next]_donationsVars
-----------------------------------------------------------------------------
(* Properties *)

\* Every variable has the values its columns can hold.
TypeOK ==
    /\ active \in BOOLEAN
    /\ gift \in [Gifts -> Row \union {NoRow}]
    /\ income \in [Gifts -> Entry \union {NoRow}]
    /\ request \in [Requests -> {Idle} \union Busy]
    /\ issued \subseteq Nat \X Gifts \X Amounts
    /\ gone \subseteq Gifts /\ raced \subseteq Gifts

Given == {g \in Gifts : gift[g] # NoRow}

\* A gift and its ledger entry are stored together or not at all, and the entry says
\* what the gift says (donor_service.py:109): the latter where no request was overtaken
\* between its loads and its commit.
LedgerInSync ==
    /\ \A g \in Gifts : gift[g] = NoRow <=> income[g] = NoRow
    /\ \A g \in Given \ raced : income[g] = [amount |-> gift[g].amount, mode |-> gift[g].mode]

\* A receipt that was issued keeps its gift, number and amount, and no other gift gets
\* its number.  Where no request was overtaken.
ReceiptStands == \A t \in issued : t[2] \notin raced =>
    /\ t[2] \in Given /\ gift[t[2]].receipt = t[1] /\ gift[t[2]].amount = t[3]
    /\ \A u \in issued : u[1] = t[1] /\ u[2] \notin raced => u[2] = t[2]
=============================================================================
