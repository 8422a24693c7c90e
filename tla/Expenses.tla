------------------------------- MODULE Expenses -------------------------------
(***************************************************************************)
(* The life of an expense: ExpenseService in services/expense_service.py.  *)
(* An approver's expense is approved on entry; anybody else's is pending   *)
(* until an approver approves or rejects it.  A wrong one is corrected or  *)
(* voided.  Only approved expenses count where money is totalled.          *)
(*                                                                         *)
(* A handler loads the row, checks its status and commits the columns it   *)
(* changed; nothing locks the row in between.  A request that fails or     *)
(* dies stays where it is.  Left out: texts, bills, festivals and dates.   *)
(***************************************************************************)
EXTENDS Naturals, Columns

CONSTANTS Requests, Expenses, Users,
          Approvers,   \* the users with FINANCE_WRITE; the others have EXPENSES_SUBMIT
          Amounts,
          NoExpense, Nobody

ExpensesAssumption ==
    /\ Approvers \subseteq Users /\ Nobody \notin Users
    /\ NoExpense \notin [amount : Amounts, status : {"PENDING", "APPROVED", "REJECTED", "VOID"},
                         submitted : Users, approved : Users \union {Nobody},
                         reason : BOOLEAN, voided : Users \union {Nobody}]

Ops == {"create", "update", "approve", "reject", "void"}
Form == [op : Ops, expense : Expenses, user : Users, amount : Amounts, reason : BOOLEAN]

\* "reason" is whether there is a rejection_reason.
Row == [amount : Amounts, status : {"PENDING", "APPROVED", "REJECTED", "VOID"}, submitted : Users,
        approved : Users \union {Nobody}, reason : BOOLEAN, voided : Users \union {Nobody}]

VARIABLES
    expense,   \* the rows of expense_transactions
    request,   \* where each request is, with the row it has loaded
    accepted,  \* history: the amount an approver last entered or approved, having seen it
    raced      \* history: expenses changed by a request that had loaded another row

expensesVars == <<expense, request, accepted, raced>>

Idle == [step |-> "idle"]
Busy == [step : {"loaded", "done", "refused"}, form : Form, saw : Row \union {NoExpense}]

Init == /\ expense = [e \in Expenses |-> NoExpense]
        /\ request = [r \in Requests |-> Idle]
        /\ accepted = [e \in Expenses |-> NoExpense]
        /\ raced = {}
-----------------------------------------------------------------------------
\* Mutant: whatever is not yet void may be voided.
VoidsAnything(f, row) ==
    CASE f.op = "update" -> \/ row.status = "PENDING" /\ (f.user \in Approvers \/ f.user = row.submitted)
                            \/ row.status = "APPROVED" /\ f.user \in Approvers /\ f.reason
      [] f.op \in {"approve", "reject"} -> f.user \in Approvers /\ row.status # "VOID"
      [] f.op = "void" -> f.user \in Approvers

\* Mutant: who submitted an expense may still change it when it is approved.
OwnersCorrect(f, row) ==
    CASE f.op = "update" -> \/ row.status = "PENDING" /\ (f.user \in Approvers \/ f.user = row.submitted)
                            \/ row.status = "APPROVED" /\ (f.user \in Approvers \/ f.user = row.submitted)
      [] f.op \in {"approve", "reject"} -> f.user \in Approvers /\ row.status = "PENDING"
      [] f.op = "void" -> f.user \in Approvers /\ row.status \in {"APPROVED", "PENDING"}

\* The checks of update, _pending and void, and the permissions of their routes.
Allowed(f, row) ==
    CASE f.op = "update" -> \/ row.status = "PENDING" /\ (f.user \in Approvers \/ f.user = row.submitted)
                            \/ row.status = "APPROVED" /\ f.user \in Approvers /\ f.reason
      [] f.op \in {"approve", "reject"} -> f.user \in Approvers /\ row.status = "PENDING"
      [] f.op = "void" -> f.user \in Approvers /\ row.status \in {"APPROVED", "PENDING"}

Load(r) == \E f \in Form :
    LET row == expense[f.expense]
    IN /\ request[r] = Idle
       /\ f.op = "create" \/ row # NoExpense
       /\ request' = [request EXCEPT ![r] =
            [step |-> IF f.op = "create" \/ Allowed(f, row) THEN "loaded" ELSE "refused",
             form |-> f, saw |-> IF f.op = "create" THEN NoExpense ELSE row]]
       /\ UNCHANGED <<expense, accepted, raced>>

\* build: the row of a new expense.
Built(f) ==
    LET can == f.user \in Approvers
    IN [amount |-> f.amount, status |-> IF can THEN "APPROVED" ELSE "PENDING", submitted |-> f.user,
        approved |-> IF can THEN f.user ELSE Nobody, reason |-> FALSE, voided |-> Nobody]

\* Bound: a new expense takes an id of Expenses.
Create(r) == \E e \in Expenses :
    LET q == request[r]
    IN /\ q.step = "loaded" /\ q.form.op = "create" /\ expense[e] = NoExpense
       /\ expense' = [expense EXCEPT ![e] = Built(q.form)]
       /\ accepted' = [accepted EXCEPT ![e] = IF q.form.user \in Approvers THEN q.form.amount ELSE NoExpense]
       /\ request' = [request EXCEPT ![r].step = "done"]
       /\ UNCHANGED raced

\* The commit of a loaded row: "new" is its copy in memory.
Commit(r, new, accepts) ==
    LET q == request[r]
        e == q.form.expense
    IN /\ expense' = [expense EXCEPT ![e] = Written(expense[e], q.saw, new)]
       /\ accepted' = IF accepts THEN [accepted EXCEPT ![e] = new.amount] ELSE accepted
       /\ raced' = IF expense[e] = q.saw THEN raced ELSE raced \union {e}
       /\ request' = [request EXCEPT ![r].step = "done"]

Loaded(r, op) == request[r].step = "loaded" /\ request[r].form.op = op

Update(r) == LET q == request[r]
             IN /\ Loaded(r, "update")
                /\ Commit(r, [q.saw EXCEPT !.amount = q.form.amount],
                          q.form.user \in Approvers /\ q.saw.status = "APPROVED")

Approve(r) == LET q == request[r]
              IN /\ Loaded(r, "approve")
                 /\ Commit(r, [q.saw EXCEPT !.status = "APPROVED", !.approved = q.form.user], TRUE)

\* Mutant: the reason goes to the column of the approver.
RejectSwapped(r) == LET q == request[r]
                    IN /\ Loaded(r, "reject")
                       /\ Commit(r, [q.saw EXCEPT !.status = "REJECTED", !.approved = TRUE], FALSE)

Reject(r) == LET q == request[r]
             IN /\ Loaded(r, "reject")
                /\ Commit(r, [q.saw EXCEPT !.status = "REJECTED", !.approved = q.form.user, !.reason = TRUE],
                          FALSE)

Void(r) == LET q == request[r]
           IN /\ Loaded(r, "void")
              /\ Commit(r, [q.saw EXCEPT !.status = "VOID", !.voided = q.form.user], FALSE)

Serve(r) == Load(r) \/ Create(r) \/ Update(r) \/ Approve(r) \/ Reject(r) \/ Void(r)
Next == \E r \in Requests : Serve(r)
Spec == Init /\ [][Next]_expensesVars
-----------------------------------------------------------------------------
(* Properties *)

\* Every variable has the values its columns can hold.
TypeOK ==
    /\ expense \in [Expenses -> Row \union {NoExpense}]
    /\ request \in [Requests -> {Idle} \union Busy]
    /\ accepted \in [Expenses -> Amounts \union {NoExpense}]
    /\ raced \subseteq Expenses

Entered == {e \in Expenses : expense[e] # NoExpense}

\* The amount of an expense that counts is one that an approver entered, corrected or
\* saw when approving it.  Where no request was overtaken between load and commit.
CountedWasAccepted == \A e \in Entered \ raced :
    expense[e].status = "APPROVED" => expense[e].amount = accepted[e]

\* Rejected and void are final, and an approved expense is never pending or rejected
\* again: the life of an expense in services/expense_service.py:3.  Where no request
\* was overtaken.
DecisionsStand == [][\A e \in Entered \ raced' :
    LET was == expense[e].status
        is == expense'[e].status
    IN \/ is = was
       \/ was = "PENDING"
       \/ was = "APPROVED" /\ is = "VOID"]_expensesVars

=============================================================================
