------------------------------ MODULE MoneyProofs ------------------------------
(***************************************************************************)
(* Theorems about Money: expenses, donations with their receipts and the   *)
(* tables of the finance pages, for every set of people, rows and amounts  *)
(* that satisfies MoneyAssumption, whatever interleaves with what.         *)
(*                                                                         *)
(* Each part has an inductive invariant of its own.  A behaviour of Money, *)
(* seen from one part, is a behaviour of that part that stutters while the *)
(* others move; the invariants carry over by that.                         *)
(***************************************************************************)
EXTENDS Money, Sequences, FiniteSetTheorems, FunctionTheorems, TLAPS

-----------------------------------------------------------------------------
(* EXPENSES.  A commit of an expense that its request was not overtaken on *)
(* is made of the very row that was loaded and checked: CommitOfLoaded.    *)

\* What a request has loaded passed its checks, and rows are never deleted.
SpendingServed(q) == q.form.op # "create" =>
    /\ q.saw \in Spending!Row /\ Spending!Allowed(q.form, q.saw)
    /\ expense[q.form.expense] # NoRow
SpendingRequestsServed == \A r \in Clerks : clerk[r].step = "loaded" => SpendingServed(clerk[r])

\* The inductive invariant.
SpendingInv == Spending!TypeOK /\ SpendingRequestsServed /\ Spending!CountedWasAccepted
-----------------------------------------------------------------------------
(* What a commit does *)

\* The marks are no rows and no users.
LEMMA SpendingMarks ==
    ASSUME Spending!ExpensesAssumption
    PROVE  NoRow \notin Spending!Row /\ Nobody \notin Users /\ Approvers \subseteq Users
BY DEF Spending!ExpensesAssumption, Spending!Row

LEMMA SpendingLoading ==
    ASSUME Spending!TypeOK, NEW r \in Clerks, clerk[r].step = "loaded"
    PROVE  /\ clerk[r] \in Spending!Busy /\ clerk[r].form \in Spending!Form /\ clerk[r].form.expense \in ExpenseIds
           /\ clerk[r].form.user \in Users /\ clerk[r].form.amount \in Amounts
BY DEF Spending!TypeOK, Spending!Busy, Spending!Form, Spending!Idle

\* The UPDATE of a row leaves a row, and the new one where nothing has changed.
LEMMA SpendingWrittenRow ==
    ASSUME NEW now \in Spending!Row, NEW saw \in Spending!Row, NEW new \in Spending!Row
    PROVE  /\ Spending!Written(now, saw, new) \in Spending!Row
           /\ now = saw => Spending!Written(now, saw, new) = new
<1>1. Spending!Written(now, saw, new) \in Spending!Row
  BY DEF Spending!Written, Spending!Row
<1>2. ASSUME now = saw PROVE Spending!Written(now, saw, new) = new
  BY <1>2 DEF Spending!Written, Spending!Row
<1> QED BY <1>1, <1>2

\* What each operation makes of the row it has loaded, and what it notes as accepted.
SpendingMakes(f, saw, new, accepts) ==
    \/ /\ f.op = "update" /\ new = [saw EXCEPT !.amount = f.amount]
       /\ accepts <=> f.user \in Approvers /\ saw.status = "APPROVED"
    \/ f.op = "approve" /\ new = [saw EXCEPT !.status = "APPROVED", !.approved = f.user] /\ accepts
    \/ /\ f.op = "reject" /\ ~accepts
       /\ new = [saw EXCEPT !.status = "REJECTED", !.approved = f.user, !.reason = TRUE]
    \/ f.op = "void" /\ new = [saw EXCEPT !.status = "VOID", !.voided = f.user] /\ ~accepts

LEMMA MadeRow ==
    ASSUME Spending!ExpensesAssumption, NEW f \in Spending!Form, NEW saw \in Spending!Row, NEW new,
           NEW accepts \in BOOLEAN,
           SpendingMakes(f, saw, new, accepts), Spending!Allowed(f, saw)
    PROVE  /\ new \in Spending!Row
           /\ \/ new.status = saw.status
              \/ saw.status = "PENDING"
              \/ saw.status = "APPROVED" /\ new.status = "VOID"
           /\ new.status = "APPROVED" => accepts
<1>1. CASE f.op = "update"
  <2>1. new = [saw EXCEPT !.amount = f.amount] /\ (accepts <=> f.user \in Approvers /\ saw.status = "APPROVED")
    BY <1>1 DEF SpendingMakes
  <2>2. new \in Spending!Row /\ new.status = saw.status
    BY <2>1 DEF Spending!Row, Spending!Form
  <2>3. saw.status = "APPROVED" => f.user \in Approvers
    BY <1>1 DEF Spending!Allowed
  <2> QED BY <2>1, <2>2, <2>3
<1>2. CASE f.op \in {"approve", "reject"}
  <2>1. saw.status = "PENDING"
    BY <1>2 DEF Spending!Allowed
  <2>2. new \in Spending!Row /\ new.status \in {"APPROVED", "REJECTED"} /\ (new.status = "APPROVED" => accepts)
    BY <1>2, SpendingMarks DEF SpendingMakes, Spending!Row, Spending!Form
  <2> QED BY <2>1, <2>2
<1>3. CASE f.op = "void"
  <2>1. saw.status \in {"APPROVED", "PENDING"}
    BY <1>3 DEF Spending!Allowed
  <2>2. new \in Spending!Row /\ new.status = "VOID"
    BY <1>3, SpendingMarks DEF SpendingMakes, Spending!Row, Spending!Form
  <2> QED BY <2>1, <2>2
<1> QED BY <1>1, <1>2, <1>3 DEF SpendingMakes

\* A commit of request r to expense e: the row, what is accepted and who was overtaken.
SpendingCommitted(r, e) ==
    \E new \in Spending!Row, row \in Spending!Row, accepts \in BOOLEAN :
        /\ e \in ExpenseIds /\ expense[e] \in Spending!Row
        /\ expense' = [expense EXCEPT ![e] = row]
        /\ accepted' = IF accepts THEN [accepted EXCEPT ![e] = new.amount] ELSE accepted
        /\ overrun' \in {overrun, overrun \union {e}}
        /\ clerk' = [clerk EXCEPT ![r].step = "done"]
        /\ new.status = "APPROVED" => accepts
        /\ e \notin overrun' => /\ row = new
                                /\ \/ new.status = expense[e].status
                                   \/ expense[e].status = "PENDING"
                                   \/ expense[e].status = "APPROVED" /\ new.status = "VOID"

LEMMA CommitOfLoaded ==
    ASSUME Spending!ExpensesAssumption, SpendingInv, NEW r \in Clerks,
           Spending!Update(r) \/ Spending!Approve(r) \/ Spending!Reject(r) \/ Spending!Void(r)
    PROVE  \E e \in ExpenseIds : SpendingCommitted(r, e)
<1> DEFINE q == clerk[r]
           f == q.form
           e == f.expense
<1>1. q.step = "loaded" /\ f.op # "create"
  BY DEF Spending!Update, Spending!Approve, Spending!Reject, Spending!Void, Spending!Loaded
<1>2. f \in Spending!Form /\ e \in ExpenseIds /\ f.user \in Users /\ f.amount \in Amounts
  BY <1>1, SpendingLoading DEF SpendingInv
<1>3. q.saw \in Spending!Row /\ Spending!Allowed(f, q.saw) /\ expense[e] # NoRow
  BY <1>1 DEF SpendingInv, SpendingRequestsServed, SpendingServed
<1>4. expense[e] \in Spending!Row
  BY <1>2, <1>3 DEF SpendingInv, Spending!TypeOK
<1>5. \E new, accepts :
        accepts \in BOOLEAN /\ SpendingMakes(f, q.saw, new, accepts) /\ Spending!Commit(r, new, accepts)
  <2>1. CASE Spending!Update(r)
    BY <2>1 DEF Spending!Update, Spending!Loaded, SpendingMakes
  <2>2. CASE Spending!Approve(r)
    BY <2>2 DEF Spending!Approve, Spending!Loaded, SpendingMakes
  <2>3. CASE Spending!Reject(r)
    BY <2>3 DEF Spending!Reject, Spending!Loaded, SpendingMakes
  <2>4. CASE Spending!Void(r)
    BY <2>4 DEF Spending!Void, Spending!Loaded, SpendingMakes
  <2> QED BY <2>1, <2>2, <2>3, <2>4
<1>6. PICK new,
  accepts : accepts \in BOOLEAN /\ SpendingMakes(f, q.saw, new, accepts) /\ Spending!Commit(r, new, accepts)
  BY <1>5
<1>7. /\ new \in Spending!Row /\ (new.status = "APPROVED" => accepts)
      /\ \/ new.status = q.saw.status
         \/ q.saw.status = "PENDING"
         \/ q.saw.status = "APPROVED" /\ new.status = "VOID"
  BY <1>2, <1>3, <1>6, MadeRow
<1>8. PICK row \in Spending!Row : row = Spending!Written(expense[e], q.saw, new) /\ (expense[e] = q.saw => row = new)
  BY <1>3, <1>4, <1>7, SpendingWrittenRow
<1>9. /\ expense' = [expense EXCEPT ![e] = row]
      /\ accepted' = IF accepts THEN [accepted EXCEPT ![e] = new.amount] ELSE accepted
      /\ overrun' = IF expense[e] = q.saw THEN overrun ELSE overrun \union {e}
      /\ clerk' = [clerk EXCEPT ![r].step = "done"]
  BY <1>6, <1>8 DEF Spending!Commit
<1>10. e \notin overrun' => row = new /\ expense[e] = q.saw
  BY <1>8, <1>9
<1> HIDE DEF q, f, e
<1> QED BY <1>2, <1>4, <1>6, <1>7, <1>8, <1>9, <1>10 DEF SpendingCommitted
-----------------------------------------------------------------------------
(* The inductive invariant *)

LEMMA InitSpendingInv == ASSUME Spending!ExpensesAssumption, Spending!Init PROVE SpendingInv
BY DEF Spending!Init, SpendingInv, Spending!TypeOK, SpendingRequestsServed, Spending!CountedWasAccepted,
   Spending!Entered, Spending!Idle

LEMMA SpendingLoadStep ==
    ASSUME Spending!ExpensesAssumption, SpendingInv, NEW r \in Clerks, Spending!Load(r)
    PROVE  SpendingInv'
<1>1. PICK f \in Spending!Form : Spending!Load(r)!(f)
  BY DEF Spending!Load
<1> DEFINE row == expense[f.expense]
           step == IF f.op = "create" \/ Spending!Allowed(f, row) THEN "loaded" ELSE "refused"
           saw == IF f.op = "create" THEN NoRow ELSE row
           q == [step |-> step, form |-> f, saw |-> saw]
<1>2. /\ f.op = "create" \/ row # NoRow
      /\ clerk' = [clerk EXCEPT ![r] = q]
      /\ UNCHANGED <<expense, accepted, overrun>>
  BY <1>1
<1>3. row \in Spending!Row \union {NoRow}
  BY DEF SpendingInv, Spending!TypeOK, Spending!Form
<1>4. q \in Spending!Busy
  BY <1>3 DEF Spending!Busy
<1>5. step = "loaded" /\ f.op # "create" => saw \in Spending!Row /\ Spending!Allowed(f, saw) /\ row # NoRow
  BY <1>2, <1>3
<1>6. Spending!TypeOK'
  BY <1>2, <1>4 DEF SpendingInv, Spending!TypeOK
<1>7. SpendingRequestsServed'
  <2> SUFFICES ASSUME NEW s \in Clerks, clerk'[s].step = "loaded" PROVE SpendingServed(clerk[s])'
    BY DEF SpendingRequestsServed
  <2>1. CASE s = r
    <3>1. clerk'[s] = q
      BY <1>2, <2>1 DEF SpendingInv, Spending!TypeOK
    <3> QED BY <1>2, <1>5, <2>1, <3>1 DEF SpendingServed
  <2>2. CASE s # r
    <3>1. clerk'[s] = clerk[s]
      BY <1>2, <2>2 DEF SpendingInv, Spending!TypeOK
    <3> QED BY <1>2, <3>1 DEF SpendingInv, SpendingRequestsServed, SpendingServed
  <2> QED BY <2>1, <2>2
<1>8. Spending!CountedWasAccepted'
  BY <1>2 DEF SpendingInv, Spending!CountedWasAccepted, Spending!Entered
<1> QED BY <1>6, <1>7, <1>8 DEF SpendingInv

\* What is known of the other requests when r ends its own and no row is deleted.
LEMMA SpendingOthersServed ==
    ASSUME SpendingInv, NEW r \in Clerks, clerk[r].step = "loaded",
           clerk' = [clerk EXCEPT ![r].step = "done"],
           \A e \in ExpenseIds : expense[e] # NoRow => expense'[e] # NoRow
    PROVE  SpendingRequestsServed' /\ clerk' \in [Clerks -> {Spending!Idle} \union Spending!Busy]
<1>1. clerk[r] \in Spending!Busy /\ Spending!TypeOK
  BY SpendingLoading DEF SpendingInv
<1>2. [clerk[r] EXCEPT !.step = "done"] \in Spending!Busy
  BY <1>1 DEF Spending!Busy
<1>3. clerk' \in [Clerks -> {Spending!Idle} \union Spending!Busy]
  BY <1>1, <1>2 DEF Spending!TypeOK
<1> SUFFICES ASSUME NEW s \in Clerks, clerk'[s].step = "loaded" PROVE SpendingServed(clerk[s])'
  BY <1>3 DEF SpendingRequestsServed
<1>4. s # r
  BY <1>1, <1>2 DEF Spending!TypeOK, Spending!Busy
<1>5. clerk'[s] = clerk[s] /\ clerk[s].step = "loaded"
  BY <1>1, <1>4 DEF Spending!TypeOK
<1>6. clerk[s].form.expense \in ExpenseIds /\ SpendingServed(clerk[s])
  BY <1>1, <1>5, SpendingLoading DEF SpendingInv, SpendingRequestsServed
<1> QED BY <1>5, <1>6 DEF SpendingServed

LEMMA SpendingCreateStep ==
    ASSUME Spending!ExpensesAssumption, SpendingInv, NEW r \in Clerks, Spending!Create(r)
    PROVE  /\ SpendingInv'
           /\ \A e \in Spending!Entered : expense'[e] = expense[e]
<1> DEFINE q == clerk[r]
           f == q.form
<1>1. PICK e \in ExpenseIds : Spending!Create(r)!(e)
  BY DEF Spending!Create
<1>2. /\ q.step = "loaded" /\ f.op = "create" /\ expense[e] = NoRow
      /\ expense' = [expense EXCEPT ![e] = Spending!Built(f)]
      /\ accepted' = [accepted EXCEPT ![e] = IF f.user \in Approvers THEN f.amount ELSE NoRow]
      /\ clerk' = [clerk EXCEPT ![r].step = "done"]
      /\ UNCHANGED overrun
  BY <1>1
<1>3. f \in Spending!Form /\ f.user \in Users /\ f.amount \in Amounts
  BY <1>2, SpendingLoading DEF SpendingInv
<1>4. /\ Spending!Built(f) \in Spending!Row /\ Spending!Built(f).amount = f.amount
      /\ Spending!Built(f).status = "APPROVED" => f.user \in Approvers
  BY <1>3 DEF Spending!Built, Spending!Row
<1>5. \A k \in ExpenseIds : expense'[k] = IF k = e THEN Spending!Built(f) ELSE expense[k]
  BY <1>2 DEF SpendingInv, Spending!TypeOK
<1>6. \A k \in ExpenseIds : expense[k] # NoRow => expense'[k] = expense[k]
  BY <1>2, <1>5
<1>7. SpendingRequestsServed' /\ clerk' \in [Clerks -> {Spending!Idle} \union Spending!Busy]
  BY <1>2, <1>6, SpendingOthersServed
<1>8. Spending!TypeOK'
  BY <1>2, <1>3, <1>4, <1>7 DEF SpendingInv, Spending!TypeOK
<1>9. Spending!CountedWasAccepted'
  <2> SUFFICES ASSUME NEW k \in Spending!Entered' \ overrun', expense'[k].status = "APPROVED"
               PROVE  expense'[k].amount = accepted'[k]
    BY DEF Spending!CountedWasAccepted
  <2>1. CASE k = e
    BY <1>2, <1>4, <1>5, <2>1 DEF Spending!Entered, SpendingInv, Spending!TypeOK
  <2>2. CASE k # e
    <3>1. k \in Spending!Entered \ overrun /\ expense'[k] = expense[k] /\ accepted'[k] = accepted[k]
      BY <1>2, <1>5, <2>2 DEF Spending!Entered, SpendingInv, Spending!TypeOK
    <3> QED BY <3>1 DEF SpendingInv, Spending!CountedWasAccepted
  <2> QED BY <2>1, <2>2
<1>10. \A k \in Spending!Entered : expense'[k] = expense[k]
  BY <1>6 DEF Spending!Entered
<1> QED BY <1>7, <1>8, <1>9, <1>10 DEF SpendingInv

LEMMA SpendingCommitStep ==
    ASSUME Spending!ExpensesAssumption, SpendingInv, NEW r \in Clerks, clerk[r].step = "loaded",
           NEW e \in ExpenseIds, SpendingCommitted(r, e)
    PROVE  /\ SpendingInv'
           /\ \A k \in Spending!Entered \ overrun' : \/ expense'[k].status = expense[k].status
                                                     \/ expense[k].status = "PENDING"
                                                     \/ expense[k].status = "APPROVED" /\ expense'[k].status = "VOID"
<1>1. PICK new \in Spending!Row, row \in Spending!Row, accepts \in BOOLEAN :
        /\ e \in ExpenseIds /\ expense[e] \in Spending!Row
        /\ expense' = [expense EXCEPT ![e] = row]
        /\ accepted' = IF accepts THEN [accepted EXCEPT ![e] = new.amount] ELSE accepted
        /\ overrun' \in {overrun, overrun \union {e}}
        /\ clerk' = [clerk EXCEPT ![r].step = "done"]
        /\ new.status = "APPROVED" => accepts
        /\ e \notin overrun' => /\ row = new
                                /\ \/ new.status = expense[e].status
                                   \/ expense[e].status = "PENDING"
                                   \/ expense[e].status = "APPROVED" /\ new.status = "VOID"
  BY DEF SpendingCommitted
<1>2. \A k \in ExpenseIds : expense'[k] = IF k = e THEN row ELSE expense[k]
  BY <1>1 DEF SpendingInv, Spending!TypeOK
<1>3. SpendingRequestsServed' /\ clerk' \in [Clerks -> {Spending!Idle} \union Spending!Busy]
  BY <1>1, <1>2, SpendingMarks, SpendingOthersServed
<1>4. new.amount \in Amounts
  BY DEF Spending!Row
<1>5. Spending!TypeOK'
  BY <1>1, <1>3, <1>4 DEF SpendingInv, Spending!TypeOK
<1>6. \A k \in ExpenseIds : k # e => accepted'[k] = accepted[k]
  BY <1>1 DEF SpendingInv, Spending!TypeOK
<1>7. accepts => accepted'[e] = new.amount
  BY <1>1 DEF SpendingInv, Spending!TypeOK
<1>8. Spending!CountedWasAccepted'
  <2> SUFFICES ASSUME NEW k \in Spending!Entered' \ overrun', expense'[k].status = "APPROVED"
               PROVE  expense'[k].amount = accepted'[k]
    BY DEF Spending!CountedWasAccepted
  <2>1. k \in ExpenseIds /\ k \notin overrun
    BY <1>1 DEF Spending!Entered
  <2>2. CASE k = e
    BY <1>1, <1>2, <1>7, <2>1, <2>2
  <2>3. CASE k # e
    <3>1. k \in Spending!Entered /\ expense'[k] = expense[k]
      BY <1>2, <2>1, <2>3 DEF Spending!Entered
    <3> QED BY <1>6, <2>1, <2>3, <3>1 DEF SpendingInv, Spending!CountedWasAccepted
  <2> QED BY <2>2, <2>3
<1>9. \A k \in Spending!Entered \ overrun' : \/ expense'[k].status = expense[k].status
                                             \/ expense[k].status = "PENDING"
                                             \/ expense[k].status = "APPROVED" /\ expense'[k].status = "VOID"
  BY <1>1, <1>2 DEF Spending!Entered
<1> QED BY <1>3, <1>5, <1>8, <1>9 DEF SpendingInv

LEMMA SpendingSteps ==
    ASSUME Spending!ExpensesAssumption, SpendingInv, Spending!Next
    PROVE  /\ SpendingInv'
           /\ \A k \in Spending!Entered \ overrun' : \/ expense'[k].status = expense[k].status
                                                     \/ expense[k].status = "PENDING"
                                                     \/ expense[k].status = "APPROVED" /\ expense'[k].status = "VOID"
<1>1. PICK r \in Clerks : Spending!Serve(r)
  BY DEF Spending!Next
<1>2. CASE Spending!Load(r)
  <2>1. UNCHANGED expense
    BY <1>2 DEF Spending!Load
  <2> QED BY <1>2, <2>1, SpendingLoadStep
<1>3. CASE Spending!Create(r)
  BY <1>3, SpendingCreateStep
<1>4. CASE Spending!Update(r) \/ Spending!Approve(r) \/ Spending!Reject(r) \/ Spending!Void(r)
  <2>1. clerk[r].step = "loaded"
    BY <1>4 DEF Spending!Update, Spending!Approve, Spending!Reject, Spending!Void, Spending!Loaded
  <2>2. PICK e \in ExpenseIds : SpendingCommitted(r, e)
    BY <1>4, CommitOfLoaded
  <2> QED BY <2>1, <2>2, SpendingCommitStep
<1> QED BY <1>1, <1>2, <1>3, <1>4 DEF Spending!Serve

LEMMA StepSpendingInv ==
    ASSUME Spending!ExpensesAssumption, SpendingInv, [Spending!Next]_(Spending!expensesVars)
    PROVE  SpendingInv'
<1>1. CASE Spending!Next
  BY <1>1, SpendingSteps
<1>2. CASE UNCHANGED Spending!expensesVars
  BY <1>2 DEF Spending!expensesVars, SpendingInv, Spending!TypeOK, SpendingRequestsServed, SpendingServed,
     Spending!CountedWasAccepted, Spending!Entered
<1> QED BY <1>1, <1>2
-----------------------------------------------------------------------------
(* DONATIONS.  Whether an action only moves its request, ends it, or writes  *)
(* a gift decides what has to be shown of it.                              *)

\* A deleted gift never comes back.
GivingGoneForGood == \A g \in gone : gift[g] = NoRow

\* Numbers are handed out up to the bound, starting with 1.
GivingNumbersInBounds == /\ \A g \in Giving!Given : gift[g].receipt <= LastNumber
                         /\ \A t \in issued : t[1] # 0

\* What a request has loaded passed its checks; a gift or an entry that it misses is
\* deleted.
GivingServed(q) ==
    /\ q.step \in {"loaded", "found", "numbered", "again"} /\ q.form.op # "create" =>
          /\ q.saw \in Giving!Row /\ Giving!Allowed(q.form, q.saw)
          /\ gift[q.form.gift] # NoRow \/ q.form.gift \in gone
    /\ q.step = "found" => /\ q.form.op \in {"update", "delete"}
                           /\ q.entry = NoRow => q.form.gift \in gone
    /\ q.step \in {"numbered", "again"} => q.form.op = "issue"
    /\ q.step = "numbered" => q.number \in 1..LastNumber
GivingRequestsServed == \A r \in Donors : desk[r] # Giving!Idle => GivingServed(desk[r])

\* The inductive invariant.
GivingInv == /\ Giving!TypeOK /\ GivingGoneForGood /\ GivingNumbersInBounds /\ GivingRequestsServed
             /\ Giving!LedgerInSync /\ Giving!ReceiptStands
-----------------------------------------------------------------------------
(* What a request writes *)

\* It goes on without writing.
GivingHandled(r) == /\ \E q \in Giving!Busy : desk' = [desk EXCEPT ![r] = q] /\ GivingServed(q)
                    /\ Giving!NothingWritten

\* It is answered.
GivingEnds(r) == /\ \E q \in Giving!Busy : desk' = [desk EXCEPT ![r] = q] /\ q.step = "done"
                 /\ UNCHANGED active

GivingCreated(r, g) ==
    /\ GivingEnds(r) /\ g \in Gifts /\ gift[g] = NoRow /\ g \notin gone
    /\ \E row \in Giving!Row, entry \in Giving!Entry :
          /\ entry = [amount |-> row.amount, mode |-> row.mode] /\ row.receipt = 0
          /\ gift' = [gift EXCEPT ![g] = row]
          /\ income' = [income EXCEPT ![g] = entry]
    /\ UNCHANGED <<issued, gone, raced>>

GivingUpdated(r, g) ==
    /\ GivingEnds(r) /\ g \in Gifts /\ gift[g] \in Giving!Row
    /\ raced' \in {raced, raced \union {g}}
    /\ \E row \in Giving!Row, entry \in Giving!Entry :
          /\ gift' = [gift EXCEPT ![g] = row]
          /\ income' = [income EXCEPT ![g] = entry]
          /\ row.receipt = gift[g].receipt
          /\ g \notin raced' => /\ entry = [amount |-> row.amount, mode |-> row.mode]
                                /\ gift[g].receipt # 0 => row.amount = gift[g].amount
    /\ UNCHANGED <<issued, gone>>

GivingDeleted(r, g) ==
    /\ GivingEnds(r) /\ g \in Gifts
    /\ raced' \in {raced, raced \union {g}}
    /\ gift' = [gift EXCEPT ![g] = NoRow]
    /\ income' = [income EXCEPT ![g] = NoRow]
    /\ g \notin raced' => gift[g] \in Giving!Row /\ gift[g].receipt = 0
    /\ gone' = gone \union {g}
    /\ UNCHANGED issued

GivingReceipted(r, g) ==
    /\ GivingEnds(r) /\ g \in Gifts /\ gift[g] \in Giving!Row
    /\ raced' \in {raced, raced \union {g}}
    /\ \E n \in 1..LastNumber, row \in Giving!Row :
          /\ Giving!Free(n, g)
          /\ gift' = [gift EXCEPT ![g] = row]
          /\ row.amount = gift[g].amount /\ row.mode = gift[g].mode
          /\ row.receipt \in {n, gift[g].receipt}
          /\ g \notin raced' => gift[g].receipt = 0 /\ row.receipt = n
          /\ issued' = issued \union {<<n, g, gift[g].amount>>}
    /\ UNCHANGED <<income, gone>>
-----------------------------------------------------------------------------
(* Rows and numbers *)

LEMMA GivingMarks ==
    ASSUME Giving!DonationsAssumption
    PROVE  NoRow \notin Giving!Row /\ NoRow \notin Giving!Entry /\ LastNumber \in Nat
BY DEF Giving!DonationsAssumption

LEMMA GivingWrittenRow ==
    ASSUME NEW now \in Giving!Row, NEW saw \in Giving!Row, NEW new \in Giving!Row
    PROVE  /\ Giving!Written(now, saw, new) \in Giving!Row
           /\ now = saw => Giving!Written(now, saw, new) = new
           /\ Giving!Written(now, saw, new).receipt = IF new.receipt = saw.receipt THEN now.receipt ELSE new.receipt
           /\ new.amount = saw.amount => Giving!Written(now, saw, new).amount = now.amount
           /\ new.mode = saw.mode => Giving!Written(now, saw, new).mode = now.mode
<1>1. ASSUME now = saw PROVE Giving!Written(now, saw, new) = new
  BY <1>1 DEF Giving!Written, Giving!Row
<1> QED BY <1>1 DEF Giving!Written, Giving!Row

LEMMA GivingWrittenEntry ==
    ASSUME NEW now \in Giving!Entry, NEW saw \in Giving!Entry, NEW new \in Giving!Entry
    PROVE  /\ Giving!Written(now, saw, new) \in Giving!Entry
           /\ now = saw => Giving!Written(now, saw, new) = new
<1>1. ASSUME now = saw PROVE Giving!Written(now, saw, new) = new
  BY <1>1 DEF Giving!Written, Giving!Entry
<1> QED BY <1>1 DEF Giving!Written, Giving!Entry

\* A finite set of numbers has a greatest: the smallest of the sets of those that are
\* no less than one of them.
LEMMA GivingGreatest ==
    ASSUME NEW S \in SUBSET Nat, IsFiniteSet(S), S # {}
    PROVE  \E n \in S : \A k \in S : k <= n
<1> DEFINE Up(m) == {j \in S : j >= m}
           T == {Up(n) : n \in S}
           R == StrictSubsetOrdering(S)
<1>1. IsWellFoundedOn(R, FiniteSubsetsOf(S))
  BY FS_StrictSubsetOrderingWellFounded
<1>2. \A n \in S : Up(n) \in FiniteSubsetsOf(S)
  BY FS_Subset DEF FiniteSubsetsOf
<1>3. T \subseteq FiniteSubsetsOf(S) /\ T # {}
  BY <1>2
<1>4. \E U \in T : \A V \in T : <<V, U>> \notin R
  <2> HIDE DEF T, R
  <2> QED BY <1>1, <1>3, WFMin
<1>5. PICK n \in S : \A k \in S : <<Up(k), Up(n)>> \notin R
  BY <1>4
<1>6. ASSUME NEW k \in S, k > n PROVE FALSE
  <2>1. Up(k) \subseteq Up(n) /\ n \in Up(n) /\ n \notin Up(k)
    <3>1. k \in Nat /\ n \in Nat /\ \A j \in S : j \in Nat
      OBVIOUS
    <3>2. \A j \in S : j >= k => j >= n
      BY <1>6, <3>1
    <3>3. n >= n /\ ~(n >= k)
      BY <1>6, <3>1
    <3> QED BY <3>2, <3>3
  <2>2. <<Up(k), Up(n)>> \in R
    <3>1. Up(k) \in SUBSET S /\ Up(n) \in SUBSET S /\ Up(k) # Up(n)
      BY <2>1
    <3> HIDE DEF Up
    <3> QED BY <2>1, <3>1 DEF StrictSubsetOrdering
  <2> QED BY <1>5, <2>2
<1> QED BY <1>6

\* The number after the highest one.
LEMMA GivingNextNumberType == ASSUME Giving!DonationsAssumption, GivingInv PROVE Giving!NextNumber \in Nat \ {0}
<1>1. Giving!Numbers \in SUBSET Nat /\ \A n \in Giving!Numbers : n <= LastNumber
  BY GivingMarks DEF GivingInv, Giving!TypeOK, GivingNumbersInBounds, Giving!Numbers, Giving!Given, Giving!Row
<1>2. IsFiniteSet(Giving!Numbers)
  BY <1>1, GivingMarks, FS_BoundedSetOfNaturals
<1>3. CASE Giving!Numbers = {}
  BY <1>3 DEF Giving!NextNumber
<1>4. CASE Giving!Numbers # {}
  <2> DEFINE top == CHOOSE n \in Giving!Numbers : \A k \in Giving!Numbers : k <= n
  <2>1. \E m \in Giving!Numbers : \A k \in Giving!Numbers : k <= m
    BY <1>1, <1>2, <1>4, GivingGreatest
  <2>2. top \in Giving!Numbers
    BY <2>1
  <2>3. Giving!NextNumber = 1 + top
    BY <1>4 DEF Giving!NextNumber
  <2>4. top \in Nat
    BY <1>1, <2>2
  <2> HIDE DEF top
  <2> QED BY <2>3, <2>4
<1> QED BY <1>3, <1>4

LEMMA GivingWaiting ==
    ASSUME GivingInv, NEW r \in Donors,
           desk[r].step \in {"loaded", "found", "numbered", "again"}
    PROVE  /\ desk[r] \in Giving!Busy /\ GivingServed(desk[r])
           /\ desk[r].form \in Giving!Form /\ desk[r].form.gift \in Gifts
<1>1. desk[r] # Giving!Idle
  BY DEF Giving!Idle
<1>2. desk[r] \in Giving!Busy /\ GivingServed(desk[r])
  BY <1>1 DEF GivingInv, Giving!TypeOK, GivingRequestsServed
<1> QED BY <1>2 DEF Giving!Busy, Giving!Form

LEMMA GivingLoadEffect ==
    ASSUME Giving!DonationsAssumption, GivingInv, NEW r \in Donors, Giving!Load(r)
    PROVE  GivingHandled(r)
<1>1. PICK f \in GiftForms : Giving!Load(r)!(f)
  BY DEF Giving!Load
<1> DEFINE row == gift[f.gift]
           ok == IF f.op = "create" THEN active ELSE Giving!Allowed(f, row)
           step == IF ~ok THEN "refused" ELSE IF f.op = "issue" /\ row.receipt # 0 THEN "done" ELSE "loaded"
           saw == IF f.op = "create" THEN NoRow ELSE row
           q == [step |-> step, form |-> f, saw |-> saw, entry |-> NoRow, tries |-> 0, number |-> 0]
<1>2. /\ f.op = "create" \/ row # NoRow
      /\ desk' = [desk EXCEPT ![r] = q] /\ Giving!NothingWritten
  BY <1>1 DEF Giving!To
<1>3. f \in Giving!Form /\ f.gift \in Gifts
  BY DEF Giving!DonationsAssumption, Giving!Form
<1>4. row \in Giving!Row \union {NoRow}
  BY <1>3 DEF GivingInv, Giving!TypeOK
<1>5. saw \in Giving!Row \union {NoRow} /\ step \in {"refused", "done", "loaded"}
  BY <1>4
<1>6. step = "loaded" /\ f.op # "create" => saw \in Giving!Row /\ Giving!Allowed(f, saw) /\ row # NoRow
  BY <1>2, <1>4
<1> HIDE DEF step, saw
<1>7. q \in Giving!Busy
  BY <1>3, <1>5 DEF Giving!Busy
<1>8. GivingServed(q)
  BY <1>5, <1>6 DEF GivingServed
<1> QED BY <1>2, <1>7, <1>8 DEF GivingHandled

LEMMA GivingFindEffect ==
    ASSUME Giving!DonationsAssumption, GivingInv, NEW r \in Donors, Giving!FindIncome(r)
    PROVE  GivingHandled(r)
<1> DEFINE q == desk[r]
           entry == income[q.form.gift]
           p == [q EXCEPT !.step = "found", !.entry = entry]
<1>1. /\ q.step = "loaded" /\ q.form.op \in {"update", "delete"}
      /\ desk' = [desk EXCEPT ![r] = p] /\ Giving!NothingWritten
  BY DEF Giving!FindIncome, Giving!At, Giving!To
<1>2. q \in Giving!Busy /\ GivingServed(q) /\ q.form.gift \in Gifts
  BY <1>1, GivingWaiting
<1>3. entry \in Giving!Entry \union {NoRow}
  BY <1>2 DEF GivingInv, Giving!TypeOK
<1>4. entry = NoRow => q.form.gift \in gone
  <2>1. entry = NoRow => gift[q.form.gift] = NoRow
    BY <1>2 DEF GivingInv, Giving!LedgerInSync
  <2> QED BY <1>1, <1>2, <2>1 DEF GivingServed
<1> HIDE DEF q, entry
<1>5. p \in Giving!Busy /\ p.step = "found" /\ p.form = q.form /\ p.saw = q.saw /\ p.entry = entry
  BY <1>2, <1>3 DEF Giving!Busy
<1> HIDE DEF p
<1>6. GivingServed(p)
  BY <1>1, <1>2, <1>4, <1>5 DEF GivingServed
<1> QED BY <1>1, <1>5, <1>6 DEF GivingHandled

LEMMA GivingNumberEffect ==
    ASSUME Giving!DonationsAssumption, GivingInv, NEW r \in Donors, Giving!TakeNumber(r)
    PROVE  GivingHandled(r)
<1> DEFINE q == desk[r]
           n == Giving!NextNumber
           p == [q EXCEPT !.step = "numbered", !.number = n]
<1>1. /\ q.step = "loaded" /\ q.form.op = "issue" /\ n <= LastNumber
      /\ desk' = [desk EXCEPT ![r] = p] /\ Giving!NothingWritten
  BY DEF Giving!TakeNumber, Giving!At, Giving!To
<1>2. q \in Giving!Busy /\ GivingServed(q)
  BY <1>1, GivingWaiting
<1>3. n \in 1..LastNumber /\ n \in Nat
  BY <1>1, GivingMarks, GivingNextNumberType
<1> HIDE DEF q, n
<1>4. p \in Giving!Busy /\ p.step = "numbered" /\ p.form = q.form /\ p.saw = q.saw /\ p.number = n
  BY <1>2, <1>3 DEF Giving!Busy
<1> HIDE DEF p
<1>5. GivingServed(p)
  BY <1>1, <1>2, <1>3, <1>4 DEF GivingServed
<1> QED BY <1>1, <1>4, <1>5 DEF GivingHandled

LEMMA GivingAgainEffect ==
    ASSUME Giving!DonationsAssumption, GivingInv, NEW r \in Donors,
           Giving!NumberTaken(r) \/ Giving!FindGone(r) \/ Giving!Retry(r)
    PROVE  GivingHandled(r)
<1> DEFINE q == desk[r]
<1>1. q.step \in {"found", "numbered", "again"} /\ Giving!NothingWritten
  BY DEF Giving!NumberTaken, Giving!FindGone, Giving!Retry, Giving!At
<1>2. q \in Giving!Busy /\ GivingServed(q) /\ q.form \in Giving!Form /\ q.form.gift \in Gifts
  BY <1>1, GivingWaiting
<1>3. CASE Giving!NumberTaken(r)
  <2> DEFINE n == q.tries + 1
             p == [q EXCEPT !.tries = n, !.step = "again"]
  <2>1. desk' = [desk EXCEPT ![r] = p] /\ q.step = "numbered"
    BY <1>3 DEF Giving!NumberTaken, Giving!To
  <2>2. n \in Nat
    BY <1>2 DEF Giving!Busy
  <2> HIDE DEF q, n
  <2>3. p \in Giving!Busy /\ p.step = "again" /\ p.form = q.form /\ p.saw = q.saw
    BY <1>2, <2>2 DEF Giving!Busy
  <2> HIDE DEF p
  <2>4. GivingServed(p)
    BY <1>2, <2>1, <2>3 DEF GivingServed
  <2> QED BY <1>1, <2>1, <2>3, <2>4 DEF GivingHandled
<1>4. CASE Giving!FindGone(r)
  <2> DEFINE p == [q EXCEPT !.step = "refused"]
  <2>1. desk' = [desk EXCEPT ![r] = p]
    BY <1>4 DEF Giving!FindGone, Giving!To
  <2> HIDE DEF q
  <2>2. p \in Giving!Busy /\ p.step = "refused"
    BY <1>2 DEF Giving!Busy
  <2> HIDE DEF p
  <2>3. GivingServed(p)
    BY <2>2 DEF GivingServed
  <2> QED BY <1>1, <2>1, <2>2, <2>3 DEF GivingHandled
<1>5. CASE Giving!Retry(r)
  <2> DEFINE row == gift[q.form.gift]
             step == IF q.tries < MaxTries THEN "loaded" ELSE "refused"
             p == [q EXCEPT !.saw = row, !.step = step]
  <2>1. desk' = [desk EXCEPT ![r] = p] /\ q.step = "again" /\ row # NoRow
    BY <1>5 DEF Giving!Retry, Giving!To
  <2>2. row \in Giving!Row
    BY <1>2, <2>1 DEF GivingInv, Giving!TypeOK
  <2>3. q.form.op = "issue" /\ Giving!Allowed(q.form, row)
    BY <1>2, <2>1 DEF GivingServed, Giving!Allowed
  <2>4. step \in {"loaded", "refused"}
    OBVIOUS
  <2> HIDE DEF q, step
  <2>5. p \in Giving!Busy /\ p.step = step /\ p.form = q.form /\ p.saw = row
    BY <1>2, <2>2, <2>4 DEF Giving!Busy
  <2> HIDE DEF p
  <2>6. GivingServed(p)
    BY <2>1, <2>2, <2>3, <2>4, <2>5 DEF GivingServed
  <2> QED BY <1>1, <2>1, <2>5, <2>6 DEF GivingHandled
<1> QED BY <1>3, <1>4, <1>5

\* A commit answers its request.
LEMMA GivingAnswers ==
    ASSUME GivingInv, NEW r \in Donors, desk[r].step \in {"found", "numbered"},
           Giving!To(r, [desk[r] EXCEPT !.step = "done"]), UNCHANGED active
    PROVE  GivingEnds(r)
<1> DEFINE q == desk[r]
           p == [q EXCEPT !.step = "done"]
<1>1. q \in Giving!Busy /\ desk' = [desk EXCEPT ![r] = p]
  BY GivingWaiting DEF Giving!To
<1> HIDE DEF q
<1>2. p \in Giving!Busy /\ p.step = "done"
  BY <1>1 DEF Giving!Busy
<1> QED BY <1>1, <1>2 DEF GivingEnds

LEMMA GivingCreateEffect ==
    ASSUME Giving!DonationsAssumption, GivingInv, NEW r \in Donors, Giving!Create(r)
    PROVE  \E g \in Gifts : GivingCreated(r, g)
<1>1. PICK g \in Gifts : Giving!Create(r)!(g)
  BY DEF Giving!Create
<1> DEFINE q == desk[r]
           f == q.form
           h == [f EXCEPT !.gift = g]
           p == [q EXCEPT !.step = "done", !.form = h]
           row == [amount |-> f.amount, mode |-> f.mode, receipt |-> 0]
           entry == [amount |-> f.amount, mode |-> f.mode]
<1>2. /\ q.step = "loaded" /\ gift[g] = NoRow /\ g \notin gone
      /\ gift' = [gift EXCEPT ![g] = row]
      /\ income' = [income EXCEPT ![g] = entry]
      /\ desk' = [desk EXCEPT ![r] = p]
      /\ UNCHANGED <<active, issued, gone, raced>>
  BY <1>1 DEF Giving!To, Giving!At
<1>3. q \in Giving!Busy /\ f \in Giving!Form /\ f.amount \in Amounts /\ f.mode \in Modes
  BY <1>2, GivingWaiting DEF Giving!Form
<1>4. /\ row \in Giving!Row /\ entry \in Giving!Entry /\ row.receipt = 0
      /\ entry = [amount |-> row.amount, mode |-> row.mode]
  BY <1>3 DEF Giving!Row, Giving!Entry
<1>5. GivingEnds(r)
  <2> HIDE DEF q
  <2>1. h \in Giving!Form
    BY <1>3 DEF Giving!Form
  <2> HIDE DEF h
  <2>2. p \in Giving!Busy /\ p.step = "done"
    BY <1>3, <2>1 DEF Giving!Busy
  <2> QED BY <1>2, <2>2 DEF GivingEnds
<1> HIDE DEF row, entry
<1> QED BY <1>2, <1>4, <1>5 DEF GivingCreated

\* Fields laid over a row.
LEMMA GivingLaidRow ==
    ASSUME NEW f \in Giving!Form, NEW row \in Giving!Row
    PROVE  /\ Giving!Laid(f, row) \in Giving!Row /\ Giving!Laid(f, row).receipt = row.receipt
           /\ Giving!Laid(f, row).amount = IF "amount" \in f.set THEN f.amount ELSE row.amount
           /\ Giving!Laid(f, row).mode = IF "mode" \in f.set THEN f.mode ELSE row.mode
<1>1. f.set \subseteq {"amount", "mode"} /\ f.amount \in Amounts /\ f.mode \in Modes
  BY DEF Giving!Form
<1> QED BY <1>1 DEF Giving!Laid, Giving!Row

LEMMA GivingLaidEntry ==
    ASSUME NEW f \in Giving!Form, NEW entry \in Giving!Entry
    PROVE  /\ Giving!Followed(f, entry) \in Giving!Entry
           /\ Giving!Followed(f, entry).amount = IF "amount" \in f.set THEN f.amount ELSE entry.amount
           /\ Giving!Followed(f, entry).mode = IF "mode" \in f.set THEN f.mode ELSE entry.mode
<1>1. f.set \subseteq {"amount", "mode"} /\ f.amount \in Amounts /\ f.mode \in Modes
  BY DEF Giving!Form
<1> QED BY <1>1 DEF Giving!Followed, Giving!Laid, Giving!Entry

LEMMA GivingUpdateEffect ==
    ASSUME Giving!DonationsAssumption, GivingInv, NEW r \in Donors, Giving!CommitUpdate(r)
    PROVE  \E g \in Gifts : GivingUpdated(r, g)
<1> DEFINE q == desk[r]
           f == q.form
           g == f.gift
           new == Giving!Laid(f, q.saw)
           newEntry == Giving!Followed(f, q.entry)
           row == Giving!Written(gift[g], q.saw, new)
           entry == Giving!Written(income[g], q.entry, newEntry)
<1>1. /\ q.step = "found" /\ f.op = "update" /\ gift[g] # NoRow /\ q.entry # NoRow
      /\ gift' = [gift EXCEPT ![g] = row]
      /\ income' = [income EXCEPT ![g] = entry]
      /\ raced' = IF gift[g] # q.saw \/ income[g] # q.entry THEN raced \union {g} ELSE raced
      /\ Giving!To(r, [q EXCEPT !.step = "done"])
      /\ UNCHANGED <<active, issued, gone>>
  BY DEF Giving!CommitUpdate, Giving!At, Giving!RacedBy, Giving!Overtaken
<1>2. q \in Giving!Busy /\ GivingServed(q) /\ f \in Giving!Form /\ g \in Gifts
  BY <1>1, GivingWaiting
<1>3. q.saw \in Giving!Row /\ Giving!Allowed(f, q.saw) /\ q.entry \in Giving!Entry
  <2>1. q.entry \in Giving!Entry \union {NoRow}
    BY <1>2 DEF Giving!Busy
  <2> QED BY <1>1, <1>2, <2>1 DEF GivingServed
<1>4. gift[g] \in Giving!Row /\ income[g] \in Giving!Entry
  BY <1>1, <1>2 DEF GivingInv, Giving!TypeOK, Giving!LedgerInSync
<1>5. /\ new \in Giving!Row /\ new.receipt = q.saw.receipt
      /\ new.amount = IF "amount" \in f.set THEN f.amount ELSE q.saw.amount
      /\ new.mode = IF "mode" \in f.set THEN f.mode ELSE q.saw.mode
  BY <1>2, <1>3, GivingLaidRow
<1>6. /\ newEntry \in Giving!Entry
      /\ newEntry.amount = IF "amount" \in f.set THEN f.amount ELSE q.entry.amount
      /\ newEntry.mode = IF "mode" \in f.set THEN f.mode ELSE q.entry.mode
  BY <1>2, <1>3, GivingLaidEntry
<1>7. "amount" \in f.set => q.saw.receipt = 0
  BY <1>1, <1>3 DEF Giving!Allowed
<1>8. GivingEnds(r)
  BY <1>1, GivingAnswers
<1> HIDE DEF new, newEntry, q, f, g
<1>9. row \in Giving!Row /\ row.receipt = gift[g].receipt /\ (gift[g] = q.saw => row = new)
  BY <1>3, <1>4, <1>5, GivingWrittenRow
<1>10. entry \in Giving!Entry /\ (income[g] = q.entry => entry = newEntry)
  BY <1>3, <1>4, <1>6, GivingWrittenEntry
<1> HIDE DEF row, entry
<1>11. ASSUME g \notin raced'
       PROVE  /\ entry = [amount |-> row.amount, mode |-> row.mode]
              /\ gift[g].receipt # 0 => row.amount = gift[g].amount
  <2>1. gift[g] = q.saw /\ income[g] = q.entry /\ row = new /\ entry = newEntry /\ g \notin raced
    BY <1>1, <1>9, <1>10, <1>11
  <2>2. q.entry = [amount |-> q.saw.amount, mode |-> q.saw.mode]
    BY <1>1, <1>2, <2>1 DEF GivingInv, Giving!LedgerInSync, Giving!Given
  <2>3. entry.amount = row.amount /\ entry.mode = row.mode
    BY <1>5, <1>6, <2>1, <2>2
  <2>4. entry = [amount |-> row.amount, mode |-> row.mode]
    BY <1>6, <2>1, <2>3 DEF Giving!Entry
  <2> QED BY <1>5, <1>7, <2>1, <2>4
<1>12. raced' \in {raced, raced \union {g}}
  BY <1>1
<1> QED BY <1>1, <1>2, <1>4, <1>8, <1>9, <1>10, <1>11, <1>12 DEF GivingUpdated

LEMMA GivingDeleteEffect ==
    ASSUME Giving!DonationsAssumption, GivingInv, NEW r \in Donors, Giving!CommitDelete(r)
    PROVE  \E g \in Gifts : GivingDeleted(r, g)
<1> DEFINE q == desk[r]
           f == q.form
           g == f.gift
<1>1. /\ q.step = "found" /\ f.op = "delete"
      /\ gift' = [gift EXCEPT ![g] = NoRow]
      /\ income' = IF q.entry # NoRow THEN [income EXCEPT ![g] = NoRow] ELSE income
      /\ raced' = IF gift[g] # q.saw \/ income[g] # q.entry THEN raced \union {g} ELSE raced
      /\ gone' = gone \union {g}
      /\ Giving!To(r, [q EXCEPT !.step = "done"])
      /\ UNCHANGED <<active, issued>>
  BY DEF Giving!CommitDelete, Giving!At, Giving!RacedBy, Giving!Overtaken
<1>2. q \in Giving!Busy /\ GivingServed(q) /\ f \in Giving!Form /\ g \in Gifts
  BY <1>1, GivingWaiting
<1>3. q.saw \in Giving!Row /\ Giving!Allowed(f, q.saw)
  BY <1>1, <1>2 DEF GivingServed
<1>4. income' = [income EXCEPT ![g] = NoRow]
  <2>1. CASE q.entry # NoRow
    BY <1>1, <2>1
  <2>2. CASE q.entry = NoRow
    <3>1. g \in gone
      BY <1>1, <1>2, <2>2 DEF GivingServed
    <3>2. income[g] = NoRow
      BY <1>2, <3>1 DEF GivingInv, GivingGoneForGood, Giving!LedgerInSync
    <3>3. income = [income EXCEPT ![g] = NoRow]
      BY <1>2, <3>2 DEF GivingInv, Giving!TypeOK
    <3> QED BY <1>1, <2>2, <3>3
  <2> QED BY <2>1, <2>2
<1>5. g \notin raced' => gift[g] \in Giving!Row /\ gift[g].receipt = 0
  BY <1>1, <1>3 DEF Giving!Allowed
<1>6. GivingEnds(r)
  BY <1>1, GivingAnswers
<1>7. raced' \in {raced, raced \union {g}}
  BY <1>1
<1> HIDE DEF q, f, g
<1> QED BY <1>1, <1>2, <1>4, <1>5, <1>6, <1>7 DEF GivingDeleted

LEMMA GivingReceiptEffect ==
    ASSUME Giving!DonationsAssumption, GivingInv, NEW r \in Donors, Giving!CommitReceipt(r)
    PROVE  \E g \in Gifts : GivingReceipted(r, g)
<1> DEFINE q == desk[r]
           g == q.form.gift
           n == q.number
           new == [q.saw EXCEPT !.receipt = n]
           row == Giving!Written(gift[g], q.saw, new)
<1>1. /\ q.step = "numbered" /\ gift[g] # NoRow /\ Giving!Free(n, g)
      /\ gift' = [gift EXCEPT ![g] = row]
      /\ issued' = issued \union {<<n, g, gift[g].amount>>}
      /\ raced' = IF gift[g] = q.saw /\ q.saw.receipt = 0 THEN raced ELSE raced \union {g}
      /\ Giving!To(r, [q EXCEPT !.step = "done"])
      /\ UNCHANGED <<active, income, gone>>
  BY DEF Giving!CommitReceipt
<1>2. q \in Giving!Busy /\ GivingServed(q) /\ g \in Gifts
  BY <1>1, GivingWaiting
<1>3. n \in 1..LastNumber /\ q.saw \in Giving!Row
  BY <1>1, <1>2 DEF GivingServed
<1>4. gift[g] \in Giving!Row
  BY <1>1, <1>2 DEF GivingInv, Giving!TypeOK
<1>5. GivingEnds(r)
  BY <1>1, GivingAnswers
<1>6. n \in Nat /\ n # 0
  BY <1>3, GivingMarks
<1> HIDE DEF q, g, n
<1>7. new \in Giving!Row /\ new.receipt = n /\ new.amount = q.saw.amount /\ new.mode = q.saw.mode
  BY <1>3, <1>6 DEF Giving!Row
<1> HIDE DEF new
<1>8. /\ row \in Giving!Row /\ row.amount = gift[g].amount /\ row.mode = gift[g].mode
      /\ row.receipt = IF n = q.saw.receipt THEN gift[g].receipt ELSE n
  BY <1>3, <1>4, <1>7, GivingWrittenRow
<1> HIDE DEF row
<1>9. g \notin raced' => gift[g].receipt = 0 /\ row.receipt = n
  BY <1>1, <1>6, <1>8
<1>10. raced' \in {raced, raced \union {g}} /\ row.receipt \in {n, gift[g].receipt}
  BY <1>1, <1>8
<1> QED BY <1>1, <1>2, <1>3, <1>4, <1>5, <1>8, <1>9, <1>10 DEF GivingReceipted

LEMMA GivingSteps ==
    ASSUME Giving!DonationsAssumption, GivingInv, Giving!Next
    PROVE  \/ Giving!SetDonor
           \/ \E r \in Donors : \/ GivingHandled(r)
                                \/ \E g \in Gifts : GivingCreated(r, g)
                                \/ \E g \in Gifts : GivingUpdated(r, g)
                                \/ \E g \in Gifts : GivingDeleted(r, g)
                                \/ \E g \in Gifts : GivingReceipted(r, g)
<1>1. CASE Giving!SetDonor
  BY <1>1
<1>2. ASSUME NEW r \in Donors, Giving!Serve(r)
      PROVE  \/ GivingHandled(r)
             \/ \E g \in Gifts : GivingCreated(r, g)
             \/ \E g \in Gifts : GivingUpdated(r, g)
             \/ \E g \in Gifts : GivingDeleted(r, g)
             \/ \E g \in Gifts : GivingReceipted(r, g)
  BY <1>2, GivingLoadEffect, GivingFindEffect, GivingNumberEffect, GivingAgainEffect, GivingCreateEffect,
     GivingUpdateEffect, GivingDeleteEffect,
     GivingReceiptEffect DEF Giving!Serve
<1> QED BY <1>1, <1>2 DEF Giving!Next
-----------------------------------------------------------------------------
(* The parts of the invariant *)

\* What is loaded stays good: a gift never comes back and never changes its id.
LEMMA GivingKeptServed ==
    ASSUME GivingInv, NEW r \in Donors, NEW q \in Giving!Busy, desk' = [desk EXCEPT ![r] = q], GivingServed(q)',
           gone \subseteq gone',
           \A g \in Gifts : gift[g] # NoRow => gift'[g] # NoRow \/ g \in gone'
    PROVE  GivingRequestsServed'
<1> SUFFICES ASSUME NEW s \in Donors, desk'[s] # Giving!Idle PROVE GivingServed(desk[s])'
  BY DEF GivingRequestsServed
<1>1. CASE s = r
  <2>1. desk'[s] = q
    BY <1>1 DEF GivingInv, Giving!TypeOK
  <2> QED BY <2>1
<1>2. CASE s # r
  <2>1. desk'[s] = desk[s]
    BY <1>2 DEF GivingInv, Giving!TypeOK
  <2>2. GivingServed(desk[s]) /\ desk[s] \in Giving!Busy
    BY <2>1 DEF GivingInv, Giving!TypeOK, GivingRequestsServed
  <2>3. desk[s].form.gift \in Gifts
    BY <2>2 DEF Giving!Busy, Giving!Form
  <2> QED BY <2>1, <2>2, <2>3 DEF GivingServed
<1> QED BY <1>1, <1>2

LEMMA GivingHandledStep == ASSUME GivingInv, NEW r \in Donors, GivingHandled(r) PROVE GivingInv'
<1>1. PICK q \in Giving!Busy : desk' = [desk EXCEPT ![r] = q] /\ GivingServed(q)
  BY DEF GivingHandled
<1>2. UNCHANGED <<active, gift, income, issued, gone, raced>>
  BY DEF GivingHandled, Giving!NothingWritten
<1>3. GivingRequestsServed'
  <2>1. GivingServed(q)'
    BY <1>1, <1>2 DEF GivingServed
  <2> QED BY <1>1, <1>2, <2>1, GivingKeptServed
<1>4. Giving!TypeOK'
  BY <1>1, <1>2 DEF GivingInv, Giving!TypeOK
<1>5. GivingGoneForGood' /\ GivingNumbersInBounds'
  BY <1>2 DEF GivingInv, GivingGoneForGood, GivingNumbersInBounds, Giving!Given
<1>6. Giving!LedgerInSync' /\ Giving!ReceiptStands'
  BY <1>2 DEF GivingInv, Giving!LedgerInSync, Giving!ReceiptStands, Giving!Given
<1> QED BY <1>3, <1>4, <1>5, <1>6 DEF GivingInv

LEMMA GivingEndsStep ==
    ASSUME GivingInv, NEW r \in Donors, GivingEnds(r), gone \subseteq gone',
           \A g \in Gifts : gift[g] # NoRow => gift'[g] # NoRow \/ g \in gone'
    PROVE  /\ GivingRequestsServed' /\ desk' \in [Donors -> {Giving!Idle} \union Giving!Busy]
           /\ active' \in BOOLEAN
<1>1. PICK q \in Giving!Busy : desk' = [desk EXCEPT ![r] = q] /\ q.step = "done"
  BY DEF GivingEnds
<1>2. GivingServed(q)'
  BY <1>1 DEF GivingServed
<1>3. GivingRequestsServed'
  BY <1>1, <1>2, GivingKeptServed
<1> QED BY <1>1, <1>3 DEF GivingInv, Giving!TypeOK, GivingEnds

LEMMA GivingCreatedStep ==
    ASSUME Giving!DonationsAssumption, GivingInv, NEW r \in Donors, NEW g \in Gifts,
           GivingCreated(r, g) PROVE GivingInv'
<1>1. PICK row \in Giving!Row, entry \in Giving!Entry :
         /\ entry = [amount |-> row.amount, mode |-> row.mode] /\ row.receipt = 0
         /\ gift' = [gift EXCEPT ![g] = row]
         /\ income' = [income EXCEPT ![g] = entry]
  BY DEF GivingCreated
<1>2. GivingEnds(r) /\ gift[g] = NoRow /\ g \notin gone /\ UNCHANGED <<issued, gone, raced>>
  BY DEF GivingCreated
<1>3. gift'[g] = row /\ income'[g] = entry /\ row # NoRow /\ entry # NoRow
  BY <1>1, GivingMarks DEF GivingInv, Giving!TypeOK
<1>4. \A h \in Gifts : h # g => gift'[h] = gift[h] /\ income'[h] = income[h]
  BY <1>1 DEF GivingInv, Giving!TypeOK
<1>5. GivingRequestsServed' /\ desk' \in [Donors -> {Giving!Idle} \union Giving!Busy] /\ active' \in BOOLEAN
  BY <1>2, <1>3, <1>4, GivingEndsStep
<1>6. Giving!TypeOK'
  BY <1>1, <1>2, <1>5 DEF GivingInv, Giving!TypeOK
<1>7. GivingGoneForGood'
  BY <1>2, <1>4 DEF GivingInv, Giving!TypeOK, GivingGoneForGood
<1>8. GivingNumbersInBounds'
  <2>1. row.receipt <= LastNumber
    BY <1>1, GivingMarks
  <2> QED BY <1>2, <1>3, <1>4, <2>1 DEF GivingInv, GivingNumbersInBounds, Giving!Given
<1>9. Giving!LedgerInSync'
  BY <1>1, <1>2, <1>3, <1>4 DEF GivingInv, Giving!LedgerInSync, Giving!Given
<1>10. Giving!ReceiptStands'
  BY <1>2, <1>4 DEF GivingInv, Giving!ReceiptStands, Giving!Given
<1> QED BY <1>5, <1>6, <1>7, <1>8, <1>9, <1>10 DEF GivingInv

LEMMA GivingUpdatedStep ==
    ASSUME Giving!DonationsAssumption, GivingInv, NEW r \in Donors, NEW g \in Gifts,
           GivingUpdated(r, g) PROVE GivingInv'
<1>1. PICK row \in Giving!Row, entry \in Giving!Entry :
         /\ gift' = [gift EXCEPT ![g] = row]
         /\ income' = [income EXCEPT ![g] = entry]
         /\ row.receipt = gift[g].receipt
         /\ g \notin raced' => /\ entry = [amount |-> row.amount, mode |-> row.mode]
                               /\ gift[g].receipt # 0 => row.amount = gift[g].amount
  BY DEF GivingUpdated
<1>2. GivingEnds(r) /\ gift[g] \in Giving!Row /\ raced' \in {raced, raced \union {g}} /\ UNCHANGED <<issued,
  gone>>
  BY DEF GivingUpdated
<1>3. gift'[g] = row /\ income'[g] = entry /\ row # NoRow /\ entry # NoRow /\ gift[g] # NoRow
  BY <1>1, <1>2, GivingMarks DEF GivingInv, Giving!TypeOK
<1>4. \A h \in Gifts : h # g => gift'[h] = gift[h] /\ income'[h] = income[h]
  BY <1>1 DEF GivingInv, Giving!TypeOK
<1>5. GivingRequestsServed' /\ desk' \in [Donors -> {Giving!Idle} \union Giving!Busy] /\ active' \in BOOLEAN
  BY <1>2, <1>3, <1>4, GivingEndsStep
<1>6. Giving!TypeOK'
  BY <1>1, <1>2, <1>5 DEF GivingInv, Giving!TypeOK
<1>7. GivingGoneForGood'
  BY <1>2, <1>3, <1>4 DEF GivingInv, Giving!TypeOK, GivingGoneForGood
<1>8. GivingNumbersInBounds'
  BY <1>1, <1>2, <1>3, <1>4 DEF GivingInv, GivingNumbersInBounds, Giving!Given
<1>9. Giving!LedgerInSync'
  BY <1>1, <1>2, <1>3, <1>4 DEF GivingInv, Giving!LedgerInSync, Giving!Given
<1>10. Giving!ReceiptStands'
  <2> SUFFICES ASSUME NEW t \in issued, t[2] \notin raced'
               PROVE  /\ t[2] \in Giving!Given' /\ gift'[t[2]].receipt = t[1] /\ gift'[t[2]].amount = t[3]
                      /\ \A u \in issued : u[1] = t[1] /\ u[2] \notin raced' => u[2] = t[2]
    BY <1>2 DEF Giving!ReceiptStands
  <2>1. raced \subseteq raced' /\ t[2] \in Gifts /\ t[1] # 0
    BY <1>2 DEF GivingInv, Giving!TypeOK, GivingNumbersInBounds
  <2>2. /\ t[2] \in Giving!Given /\ gift[t[2]].receipt = t[1] /\ gift[t[2]].amount = t[3]
        /\ \A u \in issued : u[1] = t[1] /\ u[2] \notin raced => u[2] = t[2]
    BY <2>1 DEF GivingInv, Giving!ReceiptStands
  <2>3. gift'[t[2]].receipt = t[1] /\ gift'[t[2]].amount = t[3] /\ gift'[t[2]] # NoRow
    BY <1>1, <1>3, <1>4, <2>1, <2>2 DEF Giving!Given
  <2> QED BY <2>1, <2>2, <2>3 DEF Giving!Given
<1> QED BY <1>5, <1>6, <1>7, <1>8, <1>9, <1>10 DEF GivingInv

LEMMA GivingDeletedStep ==
    ASSUME Giving!DonationsAssumption, GivingInv, NEW r \in Donors, NEW g \in Gifts,
           GivingDeleted(r, g) PROVE GivingInv'
<1>1. /\ GivingEnds(r) /\ raced' \in {raced, raced \union {g}}
      /\ gift' = [gift EXCEPT ![g] = NoRow]
      /\ income' = [income EXCEPT ![g] = NoRow]
      /\ g \notin raced' => gift[g] \in Giving!Row /\ gift[g].receipt = 0
      /\ gone' = gone \union {g} /\ UNCHANGED issued
  BY DEF GivingDeleted
<1>2. gift'[g] = NoRow /\ income'[g] = NoRow
  BY <1>1 DEF GivingInv, Giving!TypeOK
<1>3. \A h \in Gifts : h # g => gift'[h] = gift[h] /\ income'[h] = income[h]
  BY <1>1 DEF GivingInv, Giving!TypeOK
<1>4. GivingRequestsServed' /\ desk' \in [Donors -> {Giving!Idle} \union Giving!Busy] /\ active' \in BOOLEAN
  BY <1>1, <1>3, GivingEndsStep
<1>5. Giving!TypeOK'
  BY <1>1, <1>4 DEF GivingInv, Giving!TypeOK
<1>6. GivingGoneForGood'
  BY <1>1, <1>2, <1>3 DEF GivingInv, Giving!TypeOK, GivingGoneForGood
<1>7. GivingNumbersInBounds'
  BY <1>1, <1>2, <1>3 DEF GivingInv, GivingNumbersInBounds, Giving!Given
<1>8. Giving!LedgerInSync'
  BY <1>1, <1>2, <1>3 DEF GivingInv, Giving!LedgerInSync, Giving!Given
<1>9. Giving!ReceiptStands'
  <2> SUFFICES ASSUME NEW t \in issued, t[2] \notin raced'
               PROVE  /\ t[2] \in Giving!Given' /\ gift'[t[2]].receipt = t[1] /\ gift'[t[2]].amount = t[3]
                      /\ \A u \in issued : u[1] = t[1] /\ u[2] \notin raced' => u[2] = t[2]
    BY <1>1 DEF Giving!ReceiptStands
  <2>1. raced \subseteq raced' /\ t[2] \in Gifts /\ t[1] # 0
    BY <1>1 DEF GivingInv, Giving!TypeOK, GivingNumbersInBounds
  <2>2. /\ t[2] \in Giving!Given /\ gift[t[2]].receipt = t[1] /\ gift[t[2]].amount = t[3]
        /\ \A u \in issued : u[1] = t[1] /\ u[2] \notin raced => u[2] = t[2]
    BY <2>1 DEF GivingInv, Giving!ReceiptStands
  <2>3. t[2] # g
    BY <1>1, <2>1, <2>2
  <2> QED BY <1>3, <2>1, <2>2, <2>3 DEF Giving!Given
<1> QED BY <1>4, <1>5, <1>6, <1>7, <1>8, <1>9 DEF GivingInv

LEMMA GivingReceiptedStep ==
    ASSUME Giving!DonationsAssumption, GivingInv, NEW r \in Donors, NEW g \in Gifts,
           GivingReceipted(r, g) PROVE GivingInv'
<1>1. PICK n \in 1..LastNumber, row \in Giving!Row :
         /\ Giving!Free(n, g)
         /\ gift' = [gift EXCEPT ![g] = row]
         /\ row.amount = gift[g].amount /\ row.mode = gift[g].mode
         /\ row.receipt \in {n, gift[g].receipt}
         /\ g \notin raced' => gift[g].receipt = 0 /\ row.receipt = n
         /\ issued' = issued \union {<<n, g, gift[g].amount>>}
  BY DEF GivingReceipted
<1>2. GivingEnds(r) /\ gift[g] \in Giving!Row /\ raced' \in {raced, raced \union {g}} /\ UNCHANGED <<income,
  gone>>
  BY DEF GivingReceipted
<1>3. gift'[g] = row /\ row # NoRow /\ gift[g] # NoRow
  BY <1>1, <1>2, GivingMarks DEF GivingInv, Giving!TypeOK
<1>4. \A h \in Gifts : h # g => gift'[h] = gift[h]
  BY <1>1 DEF GivingInv, Giving!TypeOK
<1>5. GivingRequestsServed' /\ desk' \in [Donors -> {Giving!Idle} \union Giving!Busy] /\ active' \in BOOLEAN
  BY <1>2, <1>3, <1>4, GivingEndsStep
<1>6. n \in Nat /\ n # 0 /\ n <= LastNumber /\ gift[g].amount \in Amounts
  BY <1>1, <1>2, GivingMarks DEF Giving!Row
<1>7. Giving!TypeOK'
  BY <1>1, <1>2, <1>5, <1>6 DEF GivingInv, Giving!TypeOK
<1>8. GivingGoneForGood'
  BY <1>2, <1>3, <1>4 DEF GivingInv, Giving!TypeOK, GivingGoneForGood
<1>9. GivingNumbersInBounds'
  <2>1. row.receipt <= LastNumber
    BY <1>1, <1>3, <1>6 DEF GivingInv, GivingNumbersInBounds, Giving!Given
  <2>2. \A h \in Giving!Given' : gift'[h].receipt <= LastNumber
    BY <1>3, <1>4, <2>1 DEF GivingInv, GivingNumbersInBounds, Giving!Given
  <2>3. \A t \in issued' : t[1] # 0
    BY <1>1, <1>6 DEF GivingInv, GivingNumbersInBounds
  <2> QED BY <2>2, <2>3 DEF GivingNumbersInBounds
<1>10. Giving!LedgerInSync'
  BY <1>1, <1>2, <1>3, <1>4 DEF GivingInv, Giving!LedgerInSync, Giving!Given
<1>11. Giving!ReceiptStands'
  <2> DEFINE new == <<n, g, gift[g].amount>>
  <2>1. raced \subseteq raced' /\ \A t \in issued : t[2] \in Gifts
    BY <1>2 DEF GivingInv, Giving!TypeOK
  <2>2. \A t \in issued : t[2] \notin raced' =>
            t[2] \in Giving!Given /\ gift[t[2]].receipt = t[1] /\ gift[t[2]].amount = t[3]
    BY <2>1 DEF GivingInv, Giving!ReceiptStands
  <2>3. \A t \in issued : t[2] \notin raced' => t[1] # 0
    BY DEF GivingInv, GivingNumbersInBounds
  <2>4. \A t \in issued : t[2] \notin raced' => t[2] # g /\ t[1] # n
    BY <1>1, <2>1, <2>2, <2>3 DEF Giving!Free, Giving!Given
  <2>5. \A t \in issued : t[2] \notin raced' =>
           /\ t[2] \in Giving!Given' /\ gift'[t[2]].receipt = t[1] /\ gift'[t[2]].amount = t[3]
    BY <1>4, <2>1, <2>2, <2>4 DEF Giving!Given
  <2>6. g \notin raced' => g \in Giving!Given' /\ gift'[g].receipt = n /\ gift'[g].amount = gift[g].amount
    BY <1>1, <1>3 DEF Giving!Given
  <2>7. \A t \in issued, u \in issued : t[2] \notin raced' /\ u[1] = t[1] /\ u[2] \notin raced' => u[2] = t[2]
    BY <2>1 DEF GivingInv, Giving!ReceiptStands
  <2>8. issued' = issued \union {new} /\ new[1] = n /\ new[2] = g /\ new[3] = gift[g].amount
    BY <1>1
  <2> HIDE DEF new
  <2> QED BY <2>4, <2>5, <2>6, <2>7, <2>8 DEF Giving!ReceiptStands
<1> QED BY <1>5, <1>7, <1>8, <1>9, <1>10, <1>11 DEF GivingInv
-----------------------------------------------------------------------------
(* The theorems *)

LEMMA InitGivingInv == ASSUME Giving!DonationsAssumption, Giving!Init PROVE GivingInv
<1>1. \A g \in Gifts : g \in DOMAIN Recorded => Recorded[g].amount \in Amounts /\ Recorded[g].mode \in Modes
  BY DEF Giving!DonationsAssumption, Giving!Entry
<1>2. \A g \in Gifts : gift[g] = IF g \in DOMAIN Recorded
                                THEN [amount |-> Recorded[g].amount, mode |-> Recorded[g].mode, receipt |-> 0]
                                ELSE NoRow
  BY DEF Giving!Init
<1>3. \A g \in Gifts : g \in DOMAIN Recorded =>
        /\ gift[g] \in Giving!Row /\ gift[g].receipt = 0
        /\ gift[g].amount = Recorded[g].amount /\ gift[g].mode = Recorded[g].mode
  <2> SUFFICES ASSUME NEW g \in Gifts, g \in DOMAIN Recorded
               PROVE  /\ gift[g] \in Giving!Row /\ gift[g].receipt = 0
                      /\ gift[g].amount = Recorded[g].amount /\ gift[g].mode = Recorded[g].mode
    OBVIOUS
  <2>1. gift[g] = [amount |-> Recorded[g].amount, mode |-> Recorded[g].mode, receipt |-> 0]
    BY <1>2
  <2> QED BY <1>1, <2>1 DEF Giving!Row
<1>4. Giving!TypeOK
  <2>1. gift \in [Gifts -> Giving!Row \union {NoRow}]
    BY <1>2, <1>3 DEF Giving!Init
  <2>2. income \in [Gifts -> Giving!Entry \union {NoRow}]
    BY DEF Giving!Init, Giving!DonationsAssumption
  <2> QED BY <2>1, <2>2 DEF Giving!Init, Giving!TypeOK
<1>5. Giving!LedgerInSync
  <2>1. \A g \in Gifts : income[g] = IF g \in DOMAIN Recorded THEN Recorded[g] ELSE NoRow
    BY DEF Giving!Init
  <2>2. \A g \in DOMAIN Recorded : Recorded[g] = [amount |-> Recorded[g].amount, mode |-> Recorded[g].mode]
    BY DEF Giving!DonationsAssumption, Giving!Entry
  <2>3. \A g \in DOMAIN Recorded : Recorded[g] # NoRow
    BY DEF Giving!DonationsAssumption
  <2>4. \A g \in Gifts : gift[g] = NoRow <=> g \notin DOMAIN Recorded
    BY <1>2, <1>3, GivingMarks
  <2>5. \A g \in Gifts : g \in DOMAIN Recorded =>
          income[g] = Recorded[g] /\ gift[g].amount = Recorded[g].amount /\ gift[g].mode = Recorded[g].mode
    BY <1>3, <2>1
  <2>6. \A g \in Gifts : gift[g] = NoRow <=> income[g] = NoRow
    BY <2>1, <2>3, <2>4
  <2>7. \A g \in Giving!Given : income[g] = [amount |-> gift[g].amount, mode |-> gift[g].mode]
    <3> SUFFICES ASSUME NEW g \in Gifts, g \in DOMAIN Recorded
                 PROVE  income[g] = [amount |-> gift[g].amount, mode |-> gift[g].mode]
      BY <2>4 DEF Giving!Given
    <3> QED BY <2>2, <2>5
  <2> QED BY <2>6, <2>7 DEF Giving!LedgerInSync
<1>6. GivingNumbersInBounds
  BY <1>2, <1>3, GivingMarks DEF Giving!Init, GivingNumbersInBounds, Giving!Given
<1> QED BY <1>4, <1>5, <1>6 DEF Giving!Init, GivingInv, GivingGoneForGood, GivingRequestsServed,
           Giving!ReceiptStands

LEMMA StepGivingInv ==
    ASSUME Giving!DonationsAssumption, GivingInv, [Giving!Next]_(Giving!donationsVars)
    PROVE  GivingInv'
<1>1. CASE UNCHANGED Giving!donationsVars
  BY <1>1 DEF Giving!donationsVars, GivingInv, Giving!TypeOK, GivingGoneForGood, GivingNumbersInBounds,
     GivingRequestsServed, GivingServed, Giving!LedgerInSync,
              Giving!ReceiptStands, Giving!Given
<1>2. CASE Giving!SetDonor
  <2>1. active' \in BOOLEAN /\ UNCHANGED <<gift, income, desk, issued, gone, raced>>
    BY <1>2 DEF Giving!SetDonor, GivingInv, Giving!TypeOK
  <2> QED BY <2>1 DEF GivingInv, Giving!TypeOK, GivingGoneForGood, GivingNumbersInBounds,
             GivingRequestsServed, GivingServed, Giving!LedgerInSync,
                      Giving!ReceiptStands, Giving!Given
<1>3. ASSUME NEW r \in Donors, GivingHandled(r) PROVE GivingInv'
  BY <1>3, GivingHandledStep
<1>4. ASSUME NEW r \in Donors, NEW g \in Gifts,
             GivingCreated(r, g) \/ GivingUpdated(r, g) \/ GivingDeleted(r, g) \/ GivingReceipted(r, g)
      PROVE  GivingInv'
  BY <1>4, GivingCreatedStep, GivingUpdatedStep, GivingDeletedStep, GivingReceiptedStep
<1> QED BY <1>1, <1>2, <1>3, <1>4, GivingSteps
-----------------------------------------------------------------------------
(* LEDGER *)

LEMMA InitTables == ASSUME Pages!Init PROVE Pages!TypeOK
BY DEF Pages!Init, Pages!TypeOK

LEMMA StepTables == ASSUME Pages!LedgerAssumption, Pages!TypeOK, [Pages!Next]_(Pages!ledgerVars) PROVE Pages!TypeOK'
<1>1. CASE Pages!AddIncome
  <2>1. PICK i \in Pages!Unused, d \in Days, t \in Times :
            /\ incomes' = incomes \union {[id |-> i, day |-> d, time |-> t, amount |-> AmountOf[i]]}
            /\ UNCHANGED expenses
    BY <1>1 DEF Pages!AddIncome
  <2>2. i \in EntryIds /\ AmountOf[i] \in Nat /\ \A y \in incomes \union expenses : y.id # i
    BY DEF Pages!Unused, Pages!LedgerAssumption
  <2> QED BY <2>1, <2>2 DEF Pages!TypeOK, Pages!Income
<1>2. CASE Pages!AddExpense
  <2>1. PICK i \in Pages!Unused, d \in Days, c \in Categories, s \in {"PENDING", "APPROVED"} :
            /\ expenses' = expenses \union
                   {[id |-> i, day |-> d, category |-> c, status |-> s, amount |-> AmountOf[i]]}
            /\ UNCHANGED incomes
    BY <1>2 DEF Pages!AddExpense
  <2>2. i \in EntryIds /\ AmountOf[i] \in Nat /\ \A y \in incomes \union expenses : y.id # i
    BY DEF Pages!Unused, Pages!LedgerAssumption
  <2> QED BY <2>1, <2>2 DEF Pages!TypeOK, Pages!Expense, Pages!Statuses
<1>3. CASE Pages!VoidExpense
  <2>1. PICK e \in expenses : /\ expenses' = (expenses \ {e}) \union {[e EXCEPT !.status = "VOID"]}
                              /\ UNCHANGED incomes
    BY <1>3 DEF Pages!VoidExpense
  <2> DEFINE void == [e EXCEPT !.status = "VOID"]
  <2>2. void \in Pages!Expense /\ void.id = e.id
    BY DEF Pages!TypeOK, Pages!Expense, Pages!Statuses
  <2>3. void \in Pages!Expense /\ void.id = e.id /\ e \in expenses
        /\ expenses' = (expenses \ {e}) \union {void} /\ incomes' = incomes
    BY <2>1, <2>2
  <2> HIDE DEF void
  <2>4. expenses' \subseteq Pages!Expense /\ incomes' \subseteq Pages!Income
    BY <2>3 DEF Pages!TypeOK
  <2>5. ASSUME NEW y \in incomes \union (expenses \ {e}) PROVE y.id # void.id
    <3>1. e \notin incomes
      BY <2>3 DEF Pages!TypeOK, Pages!Income, Pages!Expense
    <3> QED BY <2>3, <2>5, <3>1 DEF Pages!TypeOK
  <2>6. ASSUME NEW y \in incomes' \union expenses', NEW z \in incomes' \union expenses', y.id = z.id
        PROVE  y = z
    <3>1. CASE y = void
      BY <2>3, <2>5, <2>6, <3>1
    <3>2. CASE z = void
      BY <2>3, <2>5, <2>6, <3>2
    <3>3. CASE y # void /\ z # void
      BY <2>3, <2>6, <3>3 DEF Pages!TypeOK
    <3> QED BY <3>1, <3>2, <3>3
  <2> QED BY <2>4, <2>6 DEF Pages!TypeOK
<1>4. CASE UNCHANGED Pages!ledgerVars
  BY <1>4 DEF Pages!ledgerVars, Pages!TypeOK
<1> QED BY <1>1, <1>2, <1>3, <1>4 DEF Pages!Next
-----------------------------------------------------------------------------
(* LEDGER: rows in order.  before[x] are the rows of S that come before x.  *)
(* In a total order the number of those before a row is its place.          *)

TotalOrder(S, before) ==
    /\ before \in [S -> SUBSET S]
    /\ \A x \in S : x \notin before[x]
    /\ \A x, y \in S : y \in before[x] => before[y] \subseteq before[x]
    /\ \A x, y \in S : x = y \/ y \in before[x] \/ x \in before[y]

Sorted(q, S, before) ==
    /\ q \in [1..Cardinality(S) -> S]
    /\ \A k \in 1..Cardinality(S) : Cardinality(before[q[k]]) = k - 1

\* Whoever comes before a row has fewer rows before it.
LEMMA FewerBefore ==
    ASSUME NEW S, IsFiniteSet(S), NEW before, TotalOrder(S, before), NEW x \in S
    PROVE  /\ IsFiniteSet(before[x]) /\ Cardinality(before[x]) \in Nat /\ Cardinality(before[x]) < Cardinality(S)
           /\ \A y \in before[x] : Cardinality(before[y]) < Cardinality(before[x])
<1>1. ASSUME NEW T, NEW U, IsFiniteSet(U), T \subseteq U, T # U
      PROVE  IsFiniteSet(T) /\ Cardinality(T) \in Nat /\ Cardinality(T) < Cardinality(U)
  BY <1>1, FS_Subset, FS_CardinalityType
<1>2. before[x] \subseteq S /\ before[x] # S
  BY DEF TotalOrder
<1>3. IsFiniteSet(before[x]) /\ Cardinality(before[x]) \in Nat /\ Cardinality(before[x]) < Cardinality(S)
  BY <1>1, <1>2
<1>4. ASSUME NEW y \in before[x] PROVE Cardinality(before[y]) < Cardinality(before[x])
  <2>1. before[y] \subseteq before[x] /\ y \notin before[y]
    BY <1>2 DEF TotalOrder
  <2> QED BY <1>1, <1>3, <2>1
<1> QED BY <1>3, <1>4

\* No two rows have one place, and every place is taken.
LEMMA PlacesTaken ==
    ASSUME NEW S, IsFiniteSet(S), NEW before, TotalOrder(S, before)
    PROVE  /\ \A x, y \in S : Cardinality(before[x]) = Cardinality(before[y]) => x = y
           /\ \A k \in 1..Cardinality(S) : \E x \in S : Cardinality(before[x]) = k - 1
<1> DEFINE place == [x \in S |-> Cardinality(before[x]) + 1]
           N == Cardinality(S)
<1>1. ASSUME NEW x \in S, NEW y \in S, Cardinality(before[x]) = Cardinality(before[y]) PROVE x = y
  BY <1>1, FewerBefore DEF TotalOrder
<1>2. N \in Nat /\ IsFiniteSet(1..N) /\ Cardinality(1..N) = N
  <2>1. N \in Nat
    BY FS_CardinalityType
  <2> QED BY <2>1, FS_Interval
<1>3. \A x \in S : place[x] \in 1..N
  BY <1>2, FewerBefore
<1>4. place \in [S -> 1..N]
  BY <1>3
<1>5. \A x, y \in S : place[x] = place[y] => x = y
  <2> SUFFICES ASSUME NEW x \in S, NEW y \in S, place[x] = place[y] PROVE x = y
    OBVIOUS
  <2>1. Cardinality(before[x]) = Cardinality(before[y])
    BY FewerBefore
  <2> QED BY <1>1, <2>1
<1>6. place \in Injection(S, 1..N)
  <2> HIDE DEF place
  <2> QED BY <1>4, <1>5, Fun_IsInj
<1>7. place \in Surjection(S, 1..N)
  <2> HIDE DEF place
  <2> QED BY <1>2, <1>6, FS_Injection
<1>8. ASSUME NEW k \in 1..N PROVE \E x \in S : Cardinality(before[x]) = k - 1
  <2>1. PICK x \in S : place[x] = k
    <3> HIDE DEF place, N
    <3>1. \A m \in 1..N : \E x \in S : place[x] = m
      BY <1>7, Fun_SurjectionProperties
    <3> QED BY <3>1
  <2>2. Cardinality(before[x]) + 1 = k
    BY <2>1
  <2>3. Cardinality(before[x]) = k - 1
    BY <2>2, FewerBefore
  <2> QED BY <2>3
<1> QED BY <1>1, <1>8

\* A row stands at its place.
LEMMA RowAtPlace ==
    ASSUME NEW S, IsFiniteSet(S), NEW before, TotalOrder(S, before), NEW q, Sorted(q, S, before), NEW x \in S
    PROVE  Cardinality(before[x]) + 1 \in 1..Cardinality(S) /\ q[Cardinality(before[x]) + 1] = x
<1>1. Cardinality(before[x]) \in Nat /\ Cardinality(S) \in Nat /\ Cardinality(before[x]) < Cardinality(S)
  BY FewerBefore, FS_CardinalityType
<1> DEFINE k == Cardinality(before[x]) + 1
<1>2. k \in 1..Cardinality(S) /\ k - 1 = Cardinality(before[x])
  BY <1>1
<1> HIDE DEF k
<1>3. q[k] \in S /\ Cardinality(before[q[k]]) = Cardinality(before[x])
  BY <1>2 DEF Sorted
<1>4. q[k] = x
  BY <1>3, PlacesTaken
<1> QED BY <1>2, <1>4 DEF k

\* A part of the rows that has the first n of them has them in the first n places.
LEMMA SameBeginning ==
    ASSUME NEW S, IsFiniteSet(S), NEW before, TotalOrder(S, before), NEW q, Sorted(q, S, before),
           NEW T \in SUBSET S, NEW among \in [T -> SUBSET T], \A x \in T : among[x] = before[x] \cap T,
           NEW r, Sorted(r, T, among),
           NEW n \in Nat, \A x \in S : Cardinality(before[x]) < n => x \in T
    PROVE  /\ n <= Cardinality(T) \/ T = S
           /\ \A k \in 1..Cardinality(S) : k <= n => k <= Cardinality(T) /\ r[k] = q[k]
<1>1. IsFiniteSet(T) /\ Cardinality(T) \in Nat /\ Cardinality(S) \in Nat
  BY FS_Subset, FS_CardinalityType
<1>2. TotalOrder(T, among)
  BY DEF TotalOrder
<1>3. ASSUME NEW k \in 1..Cardinality(S), k <= n PROVE k <= Cardinality(T) /\ r[k] = q[k]
  <2>1. q[k] \in S /\ Cardinality(before[q[k]]) = k - 1
    BY DEF Sorted
  <2>2. q[k] \in T
    BY <1>1, <1>3, <2>1
  <2>3. before[q[k]] \subseteq T
    <3> SUFFICES ASSUME NEW y \in before[q[k]] PROVE y \in T
      OBVIOUS
    <3>1. y \in S /\ Cardinality(before[y]) \in Nat /\ Cardinality(before[y]) < k - 1
      BY <2>1, FewerBefore DEF TotalOrder
    <3> QED BY <1>1, <1>3, <3>1
  <2>4. Cardinality(among[q[k]]) + 1 = k
    <3>1. among[q[k]] = before[q[k]]
      BY <2>2, <2>3
    <3> QED BY <1>1, <2>1, <3>1
  <2>5. Cardinality(among[q[k]]) + 1 \in 1..Cardinality(T) /\ r[Cardinality(among[q[k]]) + 1] = q[k]
    BY <1>1, <1>2, <2>2, RowAtPlace
  <2> QED BY <1>1, <2>4, <2>5
<1>4. n <= Cardinality(T) \/ T = S
  <2>1. CASE n = 0
    BY <1>1, <2>1
  <2>2. CASE n \in 1..Cardinality(S)
    BY <1>1, <1>3, <2>2
  <2>3. CASE n > Cardinality(S)
    <3>1. ASSUME NEW x \in S PROVE x \in T
      BY <1>1, <2>3, FewerBefore
    <3> QED BY <3>1
  <2> QED BY <1>1, <2>1, <2>2, <2>3
<1> QED BY <1>3, <1>4
-----------------------------------------------------------------------------
(* LEDGER: the three orders *)

\* Each table's rows, and merged entries, with the ids that break ties.
TableIncomes(S) == S \subseteq Pages!Income /\ IsFiniteSet(S) /\ \A x, y \in S : x.id = y.id => x = y
TableExpenses(S) == S \subseteq Pages!Expense /\ IsFiniteSet(S) /\ \A x, y \in S : x.id = y.id => x = y
TableEntries(S) == /\ S \subseteq Nat \X Nat \X Nat \X Int /\ IsFiniteSet(S)
                   /\ \A x, y \in S : x[3] = y[3] => x = y

LEMMA IncomesOrdered ==
    ASSUME Pages!LedgerAssumption, NEW S, TableIncomes(S)
    PROVE  TotalOrder(S, Pages!NewerIncomes(S))
<1>1. \A x \in S : x.day \in Nat /\ x.time \in Nat /\ x.id \in Nat
  BY DEF TableIncomes, Pages!Income, Pages!LedgerAssumption
<1> DEFINE newer == Pages!NewerIncomes(S)
<1>2. newer \in [S -> SUBSET S] /\ \A x \in S : x \notin newer[x]
  BY <1>1 DEF Pages!NewerIncomes
<1>3. \A x, y \in S : y \in newer[x] => newer[y] \subseteq newer[x]
  BY <1>1 DEF Pages!NewerIncomes
<1>4. \A x, y \in S : x = y \/ y \in newer[x] \/ x \in newer[y]
  BY <1>1 DEF Pages!NewerIncomes, TableIncomes
<1> QED BY <1>2, <1>3, <1>4 DEF TotalOrder

LEMMA ExpensesOrdered ==
    ASSUME Pages!LedgerAssumption, NEW S, TableExpenses(S)
    PROVE  TotalOrder(S, Pages!NewerExpenses(S))
<1>1. \A x \in S : x.day \in Nat /\ x.id \in Nat
  BY DEF TableExpenses, Pages!Expense, Pages!LedgerAssumption
<1> DEFINE newer == Pages!NewerExpenses(S)
<1>2. newer \in [S -> SUBSET S] /\ \A x \in S : x \notin newer[x]
  BY <1>1 DEF Pages!NewerExpenses
<1>3. \A x, y \in S : y \in newer[x] => newer[y] \subseteq newer[x]
  BY <1>1 DEF Pages!NewerExpenses
<1>4. \A x, y \in S : x = y \/ y \in newer[x] \/ x \in newer[y]
  BY <1>1 DEF Pages!NewerExpenses, TableExpenses
<1> QED BY <1>2, <1>3, <1>4 DEF TotalOrder

LEMMA EntriesOrdered ==
    ASSUME NEW S, TableEntries(S)
    PROVE  TotalOrder(S, Pages!NewerEntries(S))
<1>1. \A x \in S : x[1] \in Nat /\ x[2] \in Nat /\ x[3] \in Nat
  BY DEF TableEntries
<1> DEFINE newer == Pages!NewerEntries(S)
<1>2. newer \in [S -> SUBSET S] /\ \A x \in S : x \notin newer[x]
  BY <1>1 DEF Pages!NewerEntries
<1>3. \A x, y \in S : y \in newer[x] => newer[y] \subseteq newer[x]
  BY <1>1 DEF Pages!NewerEntries
<1>4. \A x, y \in S : x = y \/ y \in newer[x] \/ x \in newer[y]
  BY <1>1 DEF Pages!NewerEntries, TableEntries
<1> QED BY <1>2, <1>3, <1>4 DEF TotalOrder

\* The instances count as this module does.
LEMMA CountingTables == \A S : Pages!Cardinality(S) = Cardinality(S) /\ Pages!IsFiniteSet(S) = IsFiniteSet(S)
BY DEF Pages!Cardinality, Cardinality, Pages!IsFiniteSet, IsFiniteSet

\* Sorting puts each row at its place.
LEMMA SortedInPlace ==
    ASSUME NEW S, IsFiniteSet(S), NEW before, TotalOrder(S, before)
    PROVE  Sorted(Pages!InOrder(before), S, before)
<1> DEFINE q == Pages!InOrder(before)
<1>1. q = [k \in 1..Pages!Cardinality(S) |-> CHOOSE x \in S : Pages!Cardinality(before[x]) = k - 1]
  BY DEF Pages!InOrder, TotalOrder
<1> HIDE DEF q
<1>2. ASSUME NEW k \in 1..Cardinality(S) PROVE q[k] \in S /\ Cardinality(before[q[k]]) = k - 1
  <2>1. \E x \in S : Pages!Cardinality(before[x]) = k - 1
    BY PlacesTaken, CountingTables
  <2>2. q[k] = CHOOSE x \in S : Pages!Cardinality(before[x]) = k - 1
    BY <1>1, CountingTables
  <2> QED BY <2>1, <2>2, CountingTables
<1>3. q \in [1..Cardinality(S) -> S]
  BY <1>1, <1>2, CountingTables
<1> QED BY <1>2, <1>3 DEF Sorted, q
-----------------------------------------------------------------------------
(* LEDGER: merging the first rows of each table *)

\* The rows of a query, and those that LIMIT leaves.
LEMMA RowsOfQuery ==
    ASSUME NEW S, IsFiniteSet(S), NEW before, TotalOrder(S, before), NEW q, Sorted(q, S, before), NEW w \in Nat
    PROVE  /\ Pages!ToSet(q) = S
           /\ Pages!ToSet(Pages!Limit(q, w)) \subseteq S
           /\ \A x \in S : Cardinality(before[x]) < w => x \in Pages!ToSet(Pages!Limit(q, w))
<1> DEFINE m == IF w < Len(q) THEN w ELSE Len(q)
           page == Pages!Limit(q, w)
<1>1. Cardinality(S) \in Nat /\ q \in Seq(S) /\ Len(q) = Cardinality(S) /\ DOMAIN q = 1..Cardinality(S)
  BY FS_CardinalityType DEF Sorted
<1>2. m \in Nat /\ m <= Len(q) /\ (m = Len(q) \/ m = w)
  BY <1>1
<1>3. page = SubSeq(q, 1, m)
  BY DEF Pages!Limit
<1> HIDE DEF m, page
<1>4. DOMAIN page = 1..m /\ \A k \in 1..m : page[k] = q[k]
  BY <1>1, <1>2, <1>3
<1>5. \A x \in S : \E k \in 1..Cardinality(S) : k = Cardinality(before[x]) + 1 /\ q[k] = x
  BY RowAtPlace
<1>6. Pages!ToSet(q) = S
  BY <1>1, <1>5 DEF Pages!ToSet, Sorted
<1>7. Pages!ToSet(page) \subseteq S
  BY <1>1, <1>2, <1>4 DEF Pages!ToSet, Sorted
<1>8. ASSUME NEW x \in S, Cardinality(before[x]) < w PROVE x \in Pages!ToSet(page)
  <2>1. PICK k \in 1..Cardinality(S) : k = Cardinality(before[x]) + 1 /\ q[k] = x
    BY <1>5
  <2>2. k \in 1..m
    BY <1>1, <1>2, <1>8, <2>1, FewerBefore
  <2> QED BY <1>4, <2>1, <2>2 DEF Pages!ToSet
<1> QED BY <1>6, <1>7, <1>8 DEF page

\* An expense comes after every income of its day.
LEMMA EndOfDayType == ASSUME Pages!LedgerAssumption PROVE Pages!EndOfDay \in Nat
<1>1. IsFiniteSet(Times) /\ Times # {} /\ Times \subseteq Nat
  BY CountingTables DEF Pages!LedgerAssumption
<1>2. PICK t \in Times : \A u \in Times : u <= t
  BY <1>1, GivingGreatest
<1>3. \E t1 \in Times : \A u \in Times : t1 >= u
  BY <1>1, <1>2
<1>4. Pages!Max(Times) \in Times
  BY <1>3 DEF Pages!Max
<1>5. Pages!Max(Times) \in Nat
  BY <1>1, <1>4
<1> QED BY <1>5 DEF Pages!EndOfDay

\* The entries of a set of incomes and a set of expenses.
EntriesOf(I, E) == {Pages!IncomeEntry(i) : i \in I} \union {Pages!ExpenseEntry(x) : x \in E}
DistinctIds(I, E) == \A i \in I, x \in E : i.id # x.id

LEMMA EntriesAreRows ==
    ASSUME Pages!LedgerAssumption, NEW I, TableIncomes(I), NEW E, TableExpenses(E), DistinctIds(I, E)
    PROVE  TableEntries(EntriesOf(I, E))
<1> DEFINE inEntries == {Pages!IncomeEntry(i) : i \in I}
           outEntries == {Pages!ExpenseEntry(x) : x \in E}
           fi == [i \in I |-> Pages!IncomeEntry(i)]
           fe == [x \in E |-> Pages!ExpenseEntry(x)]
<1>1. IsFiniteSet(inEntries)
  <2>1. fi \in [I -> inEntries] /\ \A t \in inEntries : \E i \in I : fi[i] = t
    OBVIOUS
  <2> HIDE DEF fi, inEntries
  <2>2. fi \in Surjection(I, inEntries)
    BY <2>1, Fun_IsSurj
  <2> QED BY <2>2, FS_Surjection DEF TableIncomes
<1>2. IsFiniteSet(outEntries)
  <2>1. fe \in [E -> outEntries] /\ \A t \in outEntries : \E x \in E : fe[x] = t
    OBVIOUS
  <2> HIDE DEF fe, outEntries
  <2>2. fe \in Surjection(E, outEntries)
    BY <2>1, Fun_IsSurj
  <2> QED BY <2>2, FS_Surjection DEF TableExpenses
<1>3. IsFiniteSet(EntriesOf(I, E))
  BY <1>1, <1>2, FS_Union DEF EntriesOf
<1>4. \A i \in I : Pages!IncomeEntry(i) \in Nat \X Nat \X Nat \X Int /\ Pages!IncomeEntry(i)[3] = i.id
  <2> SUFFICES ASSUME NEW i \in I
               PROVE  Pages!IncomeEntry(i) \in Nat \X Nat \X Nat \X Int /\ Pages!IncomeEntry(i)[3] = i.id
    OBVIOUS
  <2>1. i.day \in Nat /\ i.time \in Nat /\ i.id \in Nat /\ i.amount \in Nat
    BY DEF TableIncomes, Pages!Income, Pages!LedgerAssumption
  <2> QED BY <2>1 DEF Pages!IncomeEntry
<1>5. \A x \in E : Pages!ExpenseEntry(x) \in Nat \X Nat \X Nat \X Int /\ Pages!ExpenseEntry(x)[3] = x.id
  <2> SUFFICES ASSUME NEW x \in E
               PROVE  Pages!ExpenseEntry(x) \in Nat \X Nat \X Nat \X Int /\ Pages!ExpenseEntry(x)[3] = x.id
    OBVIOUS
  <2>1. x.day \in Nat /\ x.id \in Nat /\ x.amount \in Nat /\ Pages!EndOfDay \in Nat
    BY EndOfDayType DEF TableExpenses, Pages!Expense, Pages!LedgerAssumption
  <2> QED BY <2>1 DEF Pages!ExpenseEntry
<1>6. EntriesOf(I, E) \subseteq Nat \X Nat \X Nat \X Int
  BY <1>4, <1>5 DEF EntriesOf
<1>7. ASSUME NEW a \in EntriesOf(I, E), NEW b \in EntriesOf(I, E), a[3] = b[3] PROVE a = b
  <2>1. \A i \in I : Pages!IncomeEntry(i)[3] = i.id
    BY <1>4
  <2>2. \A x \in E : Pages!ExpenseEntry(x)[3] = x.id
    BY <1>5
  <2>3. \/ \E i \in I : a = Pages!IncomeEntry(i)
        \/ \E x \in E : a = Pages!ExpenseEntry(x)
    BY DEF EntriesOf
  <2>4. \/ \E i \in I : b = Pages!IncomeEntry(i)
        \/ \E x \in E : b = Pages!ExpenseEntry(x)
    BY DEF EntriesOf
  <2> QED BY <1>7, <2>1, <2>2, <2>3, <2>4 DEF TableIncomes, TableExpenses, DistinctIds
<1> QED BY <1>3, <1>6, <1>7 DEF TableEntries

\* Merging puts no row nearer to the top than it was in its own table.
LEMMA IncomesNotHigher ==
    ASSUME Pages!LedgerAssumption, NEW I, TableIncomes(I), NEW E, TableExpenses(E), DistinctIds(I, E), NEW i \in I
    PROVE  LET entries == EntriesOf(I, E)
           IN Cardinality(Pages!NewerIncomes(I)[i])
                <= Cardinality(Pages!NewerEntries(entries)[Pages!IncomeEntry(i)])
<1> DEFINE U == EntriesOf(I, E)
           A == Pages!NewerIncomes(I)[i]
           B == Pages!NewerEntries(U)[Pages!IncomeEntry(i)]
           f == [j \in A |-> Pages!IncomeEntry(j)]
<1>1. Pages!IncomeEntry(i) \in U
  BY DEF EntriesOf
<1>2. IsFiniteSet(B)
  BY <1>1, EntriesAreRows, EntriesOrdered, FewerBefore DEF TableEntries
<1>3. \A j \in I : /\ j.day \in Nat /\ j.time \in Nat /\ j.id \in Nat
                   /\ Pages!IncomeEntry(j) = <<j.day, j.time, j.id, j.amount>>
  BY DEF TableIncomes, Pages!Income, Pages!LedgerAssumption, Pages!IncomeEntry
<1>4. ASSUME NEW j \in A PROVE j \in I /\ Pages!IncomeEntry(j) \in B
  <2>1. j \in I
    BY DEF Pages!NewerIncomes
  <2>2. Pages!IncomeEntry(j) \in U
    BY <2>1 DEF EntriesOf
  <2> HIDE DEF U
  <2> QED BY <1>1, <1>3, <2>1, <2>2 DEF Pages!NewerIncomes, Pages!NewerEntries
<1>5. \A j, k \in A : Pages!IncomeEntry(j) = Pages!IncomeEntry(k) => j = k
  BY <1>3, <1>4 DEF TableIncomes
<1>6. f \in [A -> B] /\ \A j, k \in A : f[j] = f[k] => j = k
  BY <1>4, <1>5
<1> HIDE DEF f, A, B
<1>7. f \in Injection(A, B)
  BY <1>6, Fun_IsInj
<1>8. Cardinality(A) <= Cardinality(B)
  BY <1>2, <1>7, FS_Injection
<1> QED BY <1>8 DEF A, B

LEMMA ExpensesNotHigher ==
    ASSUME Pages!LedgerAssumption, NEW I, TableIncomes(I), NEW E, TableExpenses(E), DistinctIds(I, E), NEW x \in E
    PROVE  LET entries == EntriesOf(I, E)
           IN Cardinality(Pages!NewerExpenses(E)[x])
                <= Cardinality(Pages!NewerEntries(entries)[Pages!ExpenseEntry(x)])
<1> DEFINE U == EntriesOf(I, E)
           A == Pages!NewerExpenses(E)[x]
           B == Pages!NewerEntries(U)[Pages!ExpenseEntry(x)]
           f == [j \in A |-> Pages!ExpenseEntry(j)]
<1>1. Pages!ExpenseEntry(x) \in U
  BY DEF EntriesOf
<1>2. IsFiniteSet(B)
  BY <1>1, EntriesAreRows, EntriesOrdered, FewerBefore DEF TableEntries
<1>3. \A j \in E : /\ j.day \in Nat /\ Pages!EndOfDay \in Nat /\ j.id \in Nat
                   /\ Pages!ExpenseEntry(j) = <<j.day, Pages!EndOfDay, j.id, -j.amount>>
  BY EndOfDayType DEF TableExpenses, Pages!Expense, Pages!LedgerAssumption, Pages!ExpenseEntry
<1>4. ASSUME NEW j \in A PROVE j \in E /\ Pages!ExpenseEntry(j) \in B
  <2>1. j \in E
    BY DEF Pages!NewerExpenses
  <2>2. Pages!ExpenseEntry(j) \in U
    BY <2>1 DEF EntriesOf
  <2> HIDE DEF U
  <2> QED BY <1>1, <1>3, <2>1, <2>2 DEF Pages!NewerExpenses, Pages!NewerEntries
<1>5. \A j, k \in A : Pages!ExpenseEntry(j) = Pages!ExpenseEntry(k) => j = k
  BY <1>3, <1>4 DEF TableExpenses
<1>6. f \in [A -> B] /\ \A j, k \in A : f[j] = f[k] => j = k
  BY <1>4, <1>5
<1> HIDE DEF f, A, B
<1>7. f \in Injection(A, B)
  BY <1>6, Fun_IsInj
<1>8. Cardinality(A) <= Cardinality(B)
  BY <1>2, <1>7, FS_Injection
<1> QED BY <1>8 DEF A, B

\* What _entries makes of a set of incomes and a set of expenses.
MergedOf(I, E) == Pages!InOrder(Pages!NewerEntries(EntriesOf(I, E)))

\* What the first rows of each table merge to begins as the whole does.
LEMMA MergedBeginning ==
    ASSUME Pages!LedgerAssumption, NEW I, TableIncomes(I), NEW E, TableExpenses(E), DistinctIds(I, E),
           NEW w \in Nat,
           NEW I1 \in SUBSET I, \A i \in I : Cardinality(Pages!NewerIncomes(I)[i]) < w => i \in I1,
           NEW E1 \in SUBSET E, \A x \in E : Cardinality(Pages!NewerExpenses(E)[x]) < w => x \in E1
    PROVE  LET all == MergedOf(I, E)
               merged == MergedOf(I1, E1)
           IN /\ \E n \in Nat : all \in [1..n -> EntriesOf(I, E)]
              /\ \E n \in Nat : merged \in [1..n -> EntriesOf(I, E)]
              /\ Len(merged) <= Len(all)
              /\ w <= Len(merged) \/ merged = all
              /\ \A k \in 1..Len(all) : k <= w => k <= Len(merged) /\ merged[k] = all[k]
<1> DEFINE all == MergedOf(I, E)
           merged == MergedOf(I1, E1)
           S == EntriesOf(I, E)
           T == EntriesOf(I1, E1)
           before == Pages!NewerEntries(S)
           among == Pages!NewerEntries(T)
<1>1. TableIncomes(I1) /\ TableExpenses(E1) /\ DistinctIds(I1, E1)
  <2>1. IsFiniteSet(I1) /\ IsFiniteSet(E1)
    BY FS_Subset DEF TableIncomes, TableExpenses
  <2> QED BY <2>1 DEF TableIncomes, TableExpenses, DistinctIds
<1>2. TableEntries(S) /\ TableEntries(T)
  BY <1>1, EntriesAreRows
<1>3. T \in SUBSET S
  BY DEF EntriesOf
<1>4. TotalOrder(S, before) /\ Sorted(all, S, before) /\ Sorted(merged, T, among)
  BY <1>2, EntriesOrdered, SortedInPlace DEF TableEntries, MergedOf
<1>5. among \in [T -> SUBSET T] /\ \A a \in T : among[a] = before[a] \cap T
  BY <1>3 DEF Pages!NewerEntries
<1>6. ASSUME NEW a \in S, Cardinality(before[a]) < w PROVE a \in T
  <2>1. Cardinality(before[a]) \in Nat
    BY <1>2, <1>4, FewerBefore DEF TableEntries
  <2>2. ASSUME NEW i \in I, a = Pages!IncomeEntry(i) PROVE a \in T
    <3>1. Cardinality(Pages!NewerIncomes(I)[i]) \in Nat
      BY IncomesOrdered, FewerBefore DEF TableIncomes
    <3>2. Cardinality(Pages!NewerIncomes(I)[i]) <= Cardinality(before[a])
      BY <2>2, IncomesNotHigher
    <3>3. i \in I1
      BY <1>6, <2>1, <3>1, <3>2
    <3> QED BY <2>2, <3>3 DEF EntriesOf
  <2>3. ASSUME NEW x \in E, a = Pages!ExpenseEntry(x) PROVE a \in T
    <3>1. Cardinality(Pages!NewerExpenses(E)[x]) \in Nat
      BY ExpensesOrdered, FewerBefore DEF TableExpenses
    <3>2. Cardinality(Pages!NewerExpenses(E)[x]) <= Cardinality(before[a])
      BY <2>3, ExpensesNotHigher
    <3>3. x \in E1
      BY <1>6, <2>1, <3>1, <3>2
    <3> QED BY <2>3, <3>3 DEF EntriesOf
  <2> QED BY <2>2, <2>3 DEF EntriesOf
<1>7. IsFiniteSet(S) /\ IsFiniteSet(T)
  BY <1>2 DEF TableEntries
<1>12. T = S => merged = all
  BY DEF MergedOf
<1> HIDE DEF S, T, before, among, all, merged
<1>8. /\ w <= Cardinality(T) \/ T = S
      /\ \A k \in 1..Cardinality(S) : k <= w => k <= Cardinality(T) /\ merged[k] = all[k]
  BY <1>3, <1>4, <1>5, <1>6, <1>7, SameBeginning
<1>9. Cardinality(S) \in Nat /\ Cardinality(T) \in Nat /\ Cardinality(T) <= Cardinality(S)
  BY <1>3, <1>7, FS_CardinalityType, FS_Subset
<1>10. all \in [1..Cardinality(S) -> S] /\ merged \in [1..Cardinality(T) -> S]
  BY <1>3, <1>4 DEF Sorted
<1>11. Len(all) = Cardinality(S) /\ Len(merged) = Cardinality(T)
  BY <1>9, <1>10
<1> QED BY <1>8, <1>9, <1>10, <1>11, <1>12 DEF S, all, merged

\* A page of two lists with one beginning is the same of both.
LEMMA SamePage ==
    ASSUME NEW S, NEW n \in Nat, NEW all \in [1..n -> S], NEW m \in Nat, NEW merged \in [1..m -> S],
           m <= n, NEW offset \in Nat, NEW w \in Nat, w <= m \/ merged = all,
           \A k \in 1..n : k <= w => k <= m /\ merged[k] = all[k]
    PROVE  SubSeq(merged, offset + 1, IF w < Len(merged) THEN w ELSE Len(merged))
             = SubSeq(all, offset + 1, IF w < Len(all) THEN w ELSE Len(all))
<1>1. all \in Seq(S) /\ Len(all) = n /\ merged \in Seq(S) /\ Len(merged) = m
  OBVIOUS
<1>2. CASE merged = all
  BY <1>2
<1>3. CASE w <= m
  <2>1. (IF w < Len(merged) THEN w ELSE Len(merged)) = w /\ (IF w < Len(all) THEN w ELSE Len(all)) = w
    BY <1>1, <1>3
  <2>2. SubSeq(merged, offset + 1, w) = [k \in 1..(w - offset) |-> merged[k + offset]]
    BY <1>1, <1>3
  <2>3. SubSeq(all, offset + 1, w) = [k \in 1..(w - offset) |-> all[k + offset]]
    BY <1>1, <1>3
  <2>4. \A k \in 1..(w - offset) : merged[k + offset] = all[k + offset]
    <3> SUFFICES ASSUME NEW k \in 1..(w - offset) PROVE merged[k + offset] = all[k + offset]
      OBVIOUS
    <3>1. k + offset \in 1..n /\ k + offset <= w
      BY <1>3
    <3> QED BY <3>1
  <2> QED BY <2>1, <2>2, <2>3, <2>4
<1> QED BY <1>2, <1>3

\* The inductive invariant of the two tables.
TablesInv == Pages!TypeOK /\ IsFiniteSet(incomes) /\ IsFiniteSet(expenses)

\* The rows of a period, as the queries return them.
LEMMA RowsOfPeriod ==
    ASSUME Pages!LedgerAssumption, TablesInv, NEW s, NEW e
    PROVE  LET I == Pages!IncomeIn(s, e)
               E == Pages!ExpensesIn(s, e)
           IN /\ TableIncomes(I) /\ TableExpenses(E) /\ DistinctIds(I, E)
              /\ TotalOrder(I, Pages!NewerIncomes(I)) /\ Sorted(Pages!IncomeQuery(s, e), I, Pages!NewerIncomes(I))
              /\ TotalOrder(E, Pages!NewerExpenses(E)) /\ Sorted(Pages!ExpenseQuery(s, e), E, Pages!NewerExpenses(E))
<1> DEFINE I == Pages!IncomeIn(s, e)
           E == Pages!ExpensesIn(s, e)
<1>1. TableIncomes(I) /\ TableExpenses(E) /\ DistinctIds(I, E)
  <2>1. I \subseteq incomes /\ E \subseteq expenses
    BY DEF Pages!IncomeIn, Pages!ExpensesIn, Pages!Counted
  <2>2. IsFiniteSet(I) /\ IsFiniteSet(E)
    <3> HIDE DEF I, E
    <3> QED BY <2>1, FS_Subset DEF TablesInv
  <2>3. incomes \subseteq Pages!Income /\ expenses \subseteq Pages!Expense
        /\ \A x, y \in incomes \union expenses : x.id = y.id => x = y
    BY DEF TablesInv, Pages!TypeOK
  <2> HIDE DEF I, E
  <2>4. TableIncomes(I) /\ TableExpenses(E)
    BY <2>1, <2>2, <2>3 DEF TableIncomes, TableExpenses
  <2>5. ASSUME NEW i \in I, NEW x \in E PROVE i.id # x.id
    <3>1. i # x
      BY <2>1, <2>3 DEF Pages!Income, Pages!Expense
    <3> QED BY <2>1, <2>3, <3>1
  <2> QED BY <2>4, <2>5 DEF DistinctIds
<1>2. /\ TotalOrder(I, Pages!NewerIncomes(I)) /\ Sorted(Pages!IncomeQuery(s, e), I, Pages!NewerIncomes(I))
      /\ TotalOrder(E, Pages!NewerExpenses(E)) /\ Sorted(Pages!ExpenseQuery(s, e), E, Pages!NewerExpenses(E))
  BY <1>1, IncomesOrdered, ExpensesOrdered, SortedInPlace
     DEF Pages!IncomeQuery, Pages!ExpenseQuery, TableIncomes, TableExpenses
<1> QED BY <1>1, <1>2

LEMMA PageIsPart ==
    ASSUME Pages!LedgerAssumption, TablesInv, NEW s, NEW e, NEW offset \in Nat, NEW size \in Nat
    PROVE  LET all == Pages!WholeLedger(s, e)
               end == IF offset + size < Len(all) THEN offset + size ELSE Len(all)
           IN Pages!LedgerPage(s, e, offset, size) = SubSeq(all, offset + 1, end)
<1> DEFINE I == Pages!IncomeIn(s, e)
           E == Pages!ExpensesIn(s, e)
           w == offset + size
           I1 == Pages!ToSet(Pages!Limit(Pages!IncomeQuery(s, e), w))
           E1 == Pages!ToSet(Pages!Limit(Pages!ExpenseQuery(s, e), w))
           all == MergedOf(I, E)
           merged == MergedOf(I1, E1)
<1>1. w \in Nat
  OBVIOUS
<1>2. TableIncomes(I) /\ TableExpenses(E) /\ DistinctIds(I, E)
  BY RowsOfPeriod
<1>3. /\ TotalOrder(I, Pages!NewerIncomes(I)) /\ Sorted(Pages!IncomeQuery(s, e), I, Pages!NewerIncomes(I))
      /\ TotalOrder(E, Pages!NewerExpenses(E)) /\ Sorted(Pages!ExpenseQuery(s, e), E, Pages!NewerExpenses(E))
  BY RowsOfPeriod
<1>4. IsFiniteSet(I) /\ IsFiniteSet(E)
  BY <1>2 DEF TableIncomes, TableExpenses
<1>5. /\ Pages!ToSet(Pages!IncomeQuery(s, e)) = I
      /\ I1 \subseteq I /\ \A i \in I : Cardinality(Pages!NewerIncomes(I)[i]) < w => i \in I1
  <2> HIDE DEF I, w
  <2> QED BY <1>1, <1>3, <1>4, RowsOfQuery
<1>6. /\ Pages!ToSet(Pages!ExpenseQuery(s, e)) = E
      /\ E1 \subseteq E /\ \A x \in E : Cardinality(Pages!NewerExpenses(E)[x]) < w => x \in E1
  <2> HIDE DEF E, w
  <2> QED BY <1>1, <1>3, <1>4, RowsOfQuery
<1>7. Pages!WholeLedger(s, e) = all
  <2> HIDE DEF I, E
  <2> QED BY <1>5, <1>6 DEF Pages!WholeLedger, Pages!Entries, Pages!Merged, EntriesOf, MergedOf
<1>8. Pages!LedgerPage(s, e, offset, size)
        = SubSeq(merged, offset + 1, IF w < Len(merged) THEN w ELSE Len(merged))
  BY DEF Pages!LedgerPage, Pages!Window, Pages!Entries, Pages!Merged, EntriesOf, MergedOf
<1> HIDE DEF I, E, w, I1, E1, all, merged
<1>9. /\ \E n \in Nat : all \in [1..n -> EntriesOf(I, E)]
      /\ \E n \in Nat : merged \in [1..n -> EntriesOf(I, E)]
      /\ Len(merged) <= Len(all)
      /\ w <= Len(merged) \/ merged = all
      /\ \A k \in 1..Len(all) : k <= w => k <= Len(merged) /\ merged[k] = all[k]
  <2>1. I1 \in SUBSET I /\ \A i \in I : Cardinality(Pages!NewerIncomes(I)[i]) < w => i \in I1
    BY <1>5
  <2>2. E1 \in SUBSET E /\ \A x \in E : Cardinality(Pages!NewerExpenses(E)[x]) < w => x \in E1
    BY <1>6
  <2> QED BY <1>1, <1>2, <2>1, <2>2, MergedBeginning DEF all, merged
<1>10. SubSeq(merged, offset + 1, IF w < Len(merged) THEN w ELSE Len(merged))
         = SubSeq(all, offset + 1, IF w < Len(all) THEN w ELSE Len(all))
  <2>1. PICK n \in Nat : all \in [1..n -> EntriesOf(I, E)]
    BY <1>9
  <2>2. PICK m \in Nat : merged \in [1..m -> EntriesOf(I, E)]
    BY <1>9
  <2>3. Len(all) = n /\ Len(merged) = m
    BY <2>1, <2>2
  <2> QED BY <1>1, <1>9, <2>1, <2>2, <2>3, SamePage
<1> QED BY <1>7, <1>8, <1>10 DEF w

LEMMA InitTablesInv == ASSUME Pages!Init PROVE TablesInv
BY InitTables, FS_EmptySet DEF Pages!Init, TablesInv

LEMMA StepTablesInv ==
    ASSUME Pages!LedgerAssumption, TablesInv, [Pages!Next]_(Pages!ledgerVars)
    PROVE  TablesInv'
<1>1. Pages!TypeOK'
  BY StepTables DEF TablesInv
<1>2. IsFiniteSet(incomes') /\ IsFiniteSet(expenses')
  <2>1. CASE Pages!AddIncome
    <3>1. \E x : incomes' = incomes \union {x} /\ expenses' = expenses
      BY <2>1 DEF Pages!AddIncome
    <3> QED BY <3>1, FS_AddElement DEF TablesInv
  <2>2. CASE Pages!AddExpense
    <3>1. \E x : expenses' = expenses \union {x} /\ incomes' = incomes
      BY <2>2 DEF Pages!AddExpense
    <3> QED BY <3>1, FS_AddElement DEF TablesInv
  <2>3. CASE Pages!VoidExpense
    <3>1. PICK e, x : expenses' = (expenses \ {e}) \union {x} /\ incomes' = incomes
      BY <2>3 DEF Pages!VoidExpense
    <3>2. IsFiniteSet(expenses \ {e})
      BY FS_RemoveElement DEF TablesInv
    <3> QED BY <3>1, <3>2, FS_AddElement DEF TablesInv
  <2>4. CASE UNCHANGED Pages!ledgerVars
    BY <2>4 DEF Pages!ledgerVars, TablesInv
  <2> QED BY <2>1, <2>2, <2>3, <2>4 DEF Pages!Next
<1> QED BY <1>1, <1>2 DEF TablesInv

LEMMA EveryPageIsPart == ASSUME Pages!LedgerAssumption, TablesInv PROVE PagesMakeTheLedger
<1>1. Pages!Whole \in Nat
  <2>1. IsFiniteSet(Pages!Counted)
    BY FS_Subset DEF TablesInv, Pages!Counted
  <2>2. IsFiniteSet(incomes \union Pages!Counted)
    BY <2>1, FS_Union DEF TablesInv
  <2> QED BY <2>2, FS_CardinalityType, CountingTables DEF Pages!Whole
<1>2. \A offset \in 0..Pages!Whole : offset \in Nat
  BY <1>1
<1>3. \A size \in 1..(Pages!Whole + 1) : size \in Nat
  BY <1>1
<1> QED BY <1>2, <1>3, PageIsPart DEF PagesMakeTheLedger, Pages!PagesMakeTheLedger
-----------------------------------------------------------------------------
(* LEDGER: sums.  The sum of v over s is the number of its units, the pairs *)
(* of an x in s with one of 1..v[x]: facts about sums are facts about       *)
(* finite sets, and no order of adding is involved.                         *)

UnitsOf(v, s) == {u \in s \X Nat : 1 <= u[2] /\ u[2] <= v[u[1]]}
Total(v, s) == Cardinality(UnitsOf(v, s))

LEMMA TotalOfOne ==
    ASSUME NEW S, NEW v \in [S -> Nat], NEW x \in S
    PROVE  IsFiniteSet(UnitsOf(v, {x})) /\ Total(v, {x}) = v[x]
<1> DEFINE n == v[x]
           f == [k \in 1..n |-> <<x, k>>]
<1>1. n \in Nat /\ IsFiniteSet(1..n) /\ Cardinality(1..n) = n
  <2>1. n \in Nat
    OBVIOUS
  <2> QED BY <2>1, FS_Interval
<1>2. UnitsOf(v, {x}) = {<<x, k>> : k \in 1..n}
  BY <1>1 DEF UnitsOf
<1>3. f \in Bijection(1..n, UnitsOf(v, {x}))
  BY <1>2 DEF Bijection, Injection, Surjection, IsInjective
<1>4. ExistsBijection(1..n, UnitsOf(v, {x}))
  BY <1>3 DEF ExistsBijection
<1> HIDE DEF n
<1>5. IsFiniteSet(UnitsOf(v, {x})) /\ Cardinality(UnitsOf(v, {x})) = Cardinality(1..n)
  BY <1>1, <1>4, FS_Bijection
<1> QED BY <1>1, <1>5 DEF Total, n

LEMMA FiniteUnits ==
    ASSUME NEW S, IsFiniteSet(S), NEW v \in [S -> Nat], NEW s \in SUBSET S
    PROVE  IsFiniteSet(UnitsOf(v, s)) /\ Total(v, s) \in Nat
<1> DEFINE f == [x \in S |-> UnitsOf(v, {x})]
           R == {f[x] : x \in S}
<1>1. f \in Surjection(S, R)
  BY DEF Surjection
<1>2. IsFiniteSet(R) /\ \A T \in R : IsFiniteSet(T)
  <2>1. IsFiniteSet(R)
    <3> HIDE DEF f, R
    <3> QED BY <1>1, FS_Surjection
  <2>2. ASSUME NEW x \in S PROVE IsFiniteSet(f[x])
    <3>1. IsFiniteSet(UnitsOf(v, {x}))
      BY TotalOfOne
    <3> QED BY <3>1
  <2> QED BY <2>1, <2>2
<1>3. IsFiniteSet(UNION R)
  <2> HIDE DEF R
  <2> QED BY <1>2, FS_UNION
<1>4. UnitsOf(v, s) \subseteq UNION R
  <2> SUFFICES ASSUME NEW u \in UnitsOf(v, s) PROVE u \in UNION R
    OBVIOUS
  <2>1. u[1] \in S /\ u \in UnitsOf(v, {u[1]})
    BY DEF UnitsOf
  <2> QED BY <2>1
<1> QED BY <1>3, <1>4, FS_Subset, FS_CardinalityType DEF Total

LEMMA TotalOfNone == ASSUME NEW v PROVE Total(v, {}) = 0
BY FS_EmptySet DEF Total, UnitsOf

\* The total of two disjoint sets.
LEMMA TotalOfBoth ==
    ASSUME NEW S, IsFiniteSet(S), NEW v \in [S -> Nat], NEW s \in SUBSET S, NEW t \in SUBSET S, s \cap t = {}
    PROVE  Total(v, s \union t) = Total(v, s) + Total(v, t)
<1>1. UnitsOf(v, s \union t) = UnitsOf(v, s) \union UnitsOf(v, t) /\ UnitsOf(v, s) \cap UnitsOf(v, t) = {}
  BY DEF UnitsOf
<1>2. IsFiniteSet(UnitsOf(v, s)) /\ IsFiniteSet(UnitsOf(v, t)) /\ Total(v, s) \in Nat /\ Total(v, t) \in Nat
  BY FiniteUnits
<1>3. Cardinality(UnitsOf(v, s) \union UnitsOf(v, t)) = Total(v, s) + Total(v, t) - Cardinality({})
  BY <1>1, <1>2, FS_Union DEF Total
<1>4. Cardinality(UnitsOf(v, s) \union UnitsOf(v, t)) = Total(v, s) + Total(v, t)
  BY <1>2, <1>3, FS_EmptySet
<1>5. Total(v, s \union t) = Cardinality(UnitsOf(v, s) \union UnitsOf(v, t))
  BY <1>1 DEF Total
<1> QED BY <1>4, <1>5

\* Only the values on s count.
LEMMA TotalOfSame ==
    ASSUME NEW v, NEW w, NEW s, \A x \in s : v[x] = w[x]
    PROVE  Total(v, s) = Total(w, s)
BY DEF Total, UnitsOf

\* An injection f from S to T carries the values of v to those of w, and misses only zeros.
Carries(f, S, v, T, w) ==
    /\ v \in [S -> Nat] /\ w \in [T -> Nat] /\ f \in [S -> T]
    /\ \A x, y \in S : f[x] = f[y] => x = y
    /\ \A x \in S : w[f[x]] = v[x]
    /\ \A y \in T : w[y] # 0 => \E x \in S : f[x] = y

LEMMA TotalThrough ==
    ASSUME NEW S, IsFiniteSet(S), NEW T, NEW v, NEW w, NEW f, Carries(f, S, v, T, w)
    PROVE  Total(v, S) = Total(w, T)
<1> USE DEF Carries
<1> DEFINE h == [u \in UnitsOf(v, S) |-> <<f[u[1]], u[2]>>]
<1>1. h \in [UnitsOf(v, S) -> UnitsOf(w, T)]
  BY DEF UnitsOf
<1>2. \A u, z \in UnitsOf(v, S) : h[u] = h[z] => u = z
  BY DEF UnitsOf
<1>3. \A z \in UnitsOf(w, T) : \E u \in UnitsOf(v, S) : h[u] = z
  <2> SUFFICES ASSUME NEW z \in UnitsOf(w, T) PROVE \E u \in UnitsOf(v, S) : h[u] = z
    OBVIOUS
  <2>1. z[1] \in T /\ z[2] \in Nat /\ 1 <= z[2] /\ z[2] <= w[z[1]] /\ z = <<z[1], z[2]>>
    BY DEF UnitsOf
  <2>2. PICK x \in S : f[x] = z[1]
    BY <2>1
  <2>3. <<x, z[2]>> \in UnitsOf(v, S)
    BY <2>1, <2>2 DEF UnitsOf
  <2>4. h[<<x, z[2]>>] = z
    BY <2>1, <2>2, <2>3
  <2> QED BY <2>3, <2>4
<1>4. ExistsBijection(UnitsOf(v, S), UnitsOf(w, T))
  <2> HIDE DEF h
  <2> QED BY <1>1, <1>2, <1>3 DEF ExistsBijection, Bijection, Injection, Surjection, IsInjective
<1>5. IsFiniteSet(UnitsOf(v, S))
  BY FiniteUnits
<1> QED BY <1>4, <1>5, FS_Bijection DEF Total

\* The total by classes is the total.
LEMMA TotalByClass ==
    ASSUME NEW S, IsFiniteSet(S), NEW v \in [S -> Nat], NEW C, IsFiniteSet(C), NEW w \in [C -> Nat],
           NEW g \in [S -> C], \A c \in C : w[c] = Total(v, {x \in S : g[x] = c})
    PROVE  Total(w, C) = Total(v, S)
<1> DEFINE In(c) == {x \in S : g[x] = c}
           b == [c \in C |-> CHOOSE h : h \in Bijection(1..w[c], UnitsOf(v, In(c)))]
           F == [u \in UnitsOf(w, C) |-> b[u[1]][u[2]]]
<1>1. \A c \in C : In(c) \in SUBSET S /\ w[c] = Total(v, In(c))
  OBVIOUS
<1>2. \A c \in C : b[c] \in Bijection(1..w[c], UnitsOf(v, In(c)))
  <2> SUFFICES ASSUME NEW c \in C PROVE b[c] \in Bijection(1..w[c], UnitsOf(v, In(c)))
    OBVIOUS
  <2>1. IsFiniteSet(UnitsOf(v, In(c))) /\ w[c] = Cardinality(UnitsOf(v, In(c)))
    <3> HIDE DEF In
    <3> QED BY <1>1, FiniteUnits DEF Total
  <2>2. \E h : h \in Bijection(1..w[c], UnitsOf(v, In(c)))
    <3> HIDE DEF In
    <3> QED BY <2>1, FS_CardinalityType DEF ExistsBijection
  <2> HIDE DEF In
  <2> QED BY <2>2
<1>3. \A c \in C : \A x : x \in In(c) <=> x \in S /\ g[x] = c
  OBVIOUS
<1> HIDE DEF b, In
<1>4. ASSUME NEW u \in UnitsOf(w, C)
      PROVE  /\ u[1] \in C /\ u[2] \in 1..w[u[1]] /\ F[u] = b[u[1]][u[2]]
             /\ F[u] \in UnitsOf(v, S) /\ g[F[u][1]] = u[1]
  <2>1. u[1] \in C /\ u[2] \in 1..w[u[1]] /\ F[u] = b[u[1]][u[2]]
    BY DEF UnitsOf
  <2>2. F[u] \in UnitsOf(v, In(u[1]))
    BY <1>2, <2>1 DEF Bijection, Injection
  <2> HIDE DEF F
  <2> QED BY <1>3, <2>1, <2>2 DEF UnitsOf
<1>5. ASSUME NEW u \in UnitsOf(w, C), NEW z \in UnitsOf(w, C), F[u] = F[z] PROVE u = z
  <2>1. u[1] = z[1] /\ b[u[1]][u[2]] = b[u[1]][z[2]] /\ u[2] \in 1..w[u[1]] /\ z[2] \in 1..w[u[1]] /\ u[1] \in C
    <3> HIDE DEF F
    <3> QED BY <1>4, <1>5
  <2>2. u[2] = z[2]
    BY <1>2, <2>1 DEF Bijection, Injection, IsInjective
  <2> QED BY <2>1, <2>2 DEF UnitsOf
<1>6. ASSUME NEW z \in UnitsOf(v, S) PROVE \E u \in UnitsOf(w, C) : F[u] = z
  <2> DEFINE c == g[z[1]]
  <2>1. c \in C /\ z \in UnitsOf(v, In(c))
    BY <1>3 DEF UnitsOf
  <2> HIDE DEF c
  <2>2. PICK n \in 1..w[c] : b[c][n] = z
    BY <1>2, <2>1 DEF Bijection, Surjection
  <2>3. <<c, n>> \in UnitsOf(w, C)
    BY <2>1, <2>2 DEF UnitsOf
  <2>4. F[<<c, n>>] = z
    BY <2>2, <2>3
  <2> QED BY <2>3, <2>4
<1>7. ExistsBijection(UnitsOf(w, C), UnitsOf(v, S))
  <2>1. F \in [UnitsOf(w, C) -> UnitsOf(v, S)]
    BY <1>4
  <2> HIDE DEF F
  <2> QED BY <2>1, <1>5, <1>6 DEF ExistsBijection, Bijection, Injection, Surjection, IsInjective
<1>8. IsFiniteSet(UnitsOf(w, C))
  BY FiniteUnits
<1> QED BY <1>7, <1>8, FS_Bijection DEF Total
-----------------------------------------------------------------------------
(* LEDGER: adding up.  What a fold over a set returns is the total. *)

Adds(v, S, iter) ==
    iter = [s \in SUBSET S |-> IF s = {} THEN 0 ELSE LET x == CHOOSE x \in s : TRUE IN v[x] + iter[s \ {x}]]

LEMMA OneMore ==
    ASSUME NEW S, IsFiniteSet(S), NEW v \in [S -> Nat], NEW s \in SUBSET S, NEW x \in s
    PROVE  Total(v, s) = v[x] + Total(v, s \ {x})
<1>1. {x} \union (s \ {x}) = s /\ {x} \cap (s \ {x}) = {} /\ {x} \in SUBSET S /\ s \ {x} \in SUBSET S /\ x \in S
  OBVIOUS
<1>2. Total(v, {x} \union (s \ {x})) = Total(v, {x}) + Total(v, s \ {x})
  BY <1>1, TotalOfBoth
<1> QED BY <1>1, <1>2, TotalOfOne

\* The total of v over any part of S, one row at a time.
Splits(v, S) == \A s \in SUBSET S : \A x \in s : Total(v, s) = v[x] + Total(v, s \ {x})

LEMMA TotalSplits == ASSUME NEW S, IsFiniteSet(S), NEW v \in [S -> Nat] PROVE Splits(v, S)
  BY OneMore DEF Splits

LEMMA AddingUp ==
    ASSUME NEW S, IsFiniteSet(S), NEW v \in [S -> Nat]
    PROVE  (CHOOSE iter : Adds(v, S, iter))[S] = Total(v, S)
<1> DEFINE w == [s \in SUBSET S |-> Total(v, s)]
           it == CHOOSE iter : Adds(v, S, iter)
<1>1. Adds(v, S, w)
  <2>1. ASSUME NEW s \in SUBSET S, s # {}
        PROVE  LET x == CHOOSE x \in s : TRUE IN w[s] = v[x] + w[s \ {x}]
    <3> DEFINE x == CHOOSE x \in s : TRUE
    <3>1. x \in s
      BY <2>1
    <3> HIDE DEF x
    <3>2. Total(v, s) = v[x] + Total(v, s \ {x}) /\ s \ {x} \in SUBSET S
      BY <3>1, OneMore
    <3>3. w[s] = v[x] + w[s \ {x}]
      BY <3>2
    <3> QED BY <3>3 DEF x
  <2>2. w[{}] = 0
    BY TotalOfNone
  <2>3. \A s \in SUBSET S : w[s] = IF s = {} THEN 0 ELSE LET x == CHOOSE x \in s : TRUE IN v[x] + w[s \ {x}]
    BY <2>1, <2>2
  <2>4. w = [s \in SUBSET S |-> w[s]]
    OBVIOUS
  <2> HIDE DEF w
  <2> QED BY <2>3, <2>4 DEF Adds
<1>2. Adds(v, S, it)
  <2> HIDE DEF w
  <2> QED BY <1>1
<1> HIDE DEF it
<1> DEFINE Wrong == {s \in SUBSET S : it[s] # w[s]}
<1>3. CASE Wrong # {}
  <2>1. IsWellFoundedOn(StrictSubsetOrdering(S), SUBSET S)
    BY FS_StrictSubsetOrderingWellFounded, FS_FiniteSubsetsOfFinite
  <2>2. \E s \in Wrong : \A t \in Wrong : <<t, s>> \notin StrictSubsetOrdering(S)
    <3>1. Wrong \subseteq SUBSET S
      OBVIOUS
    <3> HIDE DEF Wrong
    <3> QED BY <1>3, <2>1, <3>1, WFMin
  <2>3. PICK s \in Wrong : \A t \in Wrong : <<t, s>> \notin StrictSubsetOrdering(S)
    BY <2>2
  <2>4. s \in SUBSET S /\ it[s] # w[s]
    OBVIOUS
  <2> HIDE DEF w, Wrong
  <2>5. s # {}
    BY <1>1, <1>2, <2>4 DEF Adds
  <2> DEFINE x == CHOOSE x \in s : TRUE
  <2>6. x \in s
    BY <2>5
  <2>7. it[s] = v[x] + it[s \ {x}] /\ w[s] = v[x] + w[s \ {x}]
    BY <1>1, <1>2, <2>4, <2>5 DEF Adds
  <2> HIDE DEF x
  <2>8. s \ {x} \in SUBSET S /\ it[s \ {x}] # w[s \ {x}]
    BY <2>4, <2>7
  <2>9. s \ {x} \in Wrong /\ <<s \ {x}, s>> \in StrictSubsetOrdering(S)
    BY <2>4, <2>6, <2>8 DEF Wrong, StrictSubsetOrdering
  <2> QED BY <2>3, <2>9
<1>4. CASE Wrong = {}
  BY <1>4 DEF it
<1> QED BY <1>3, <1>4

LEMMA SumIsTotal ==
    ASSUME NEW v, IsFiniteSet(DOMAIN v), v \in [DOMAIN v -> Nat]
    PROVE  Pages!SumFunction(v) = Total(v, DOMAIN v)
<1>1. Pages!SumFunction(v) = (CHOOSE iter : Adds(v, DOMAIN v, iter))[DOMAIN v]
  BY DEF Pages!SumFunction, Pages!SumFunctionOnSet, Pages!FoldFunctionOnSet, Pages!MapThenFoldSet, Adds
<1> QED BY <1>1, AddingUp

AmountsIn(S) == [x \in S |-> x.amount]

LEMMA SumOfIsTotal ==
    ASSUME NEW S, IsFiniteSet(S), \A x \in S : x.amount \in Nat
    PROVE  /\ AmountsIn(S) \in [S -> Nat]
           /\ Pages!SumOf(S) = Total(AmountsIn(S), S) /\ Pages!SumOf(S) \in Nat
<1>1. AmountsIn(S) \in [S -> Nat] /\ DOMAIN AmountsIn(S) = S
  BY DEF AmountsIn
<1>2. Pages!SumOf(S) = Pages!SumFunction(AmountsIn(S))
  BY DEF Pages!SumOf, AmountsIn
<1>3. Pages!SumOf(S) = Total(AmountsIn(S), S)
  BY <1>1, <1>2, SumIsTotal
<1> QED BY <1>1, <1>3, FiniteUnits

\* The sum of two disjoint sets of rows.
LEMMA SumOfBoth ==
    ASSUME NEW S, NEW T, IsFiniteSet(S), IsFiniteSet(T), S \cap T = {},
           \A x \in S \union T : x.amount \in Nat
    PROVE  Pages!SumOf(S \union T) = Pages!SumOf(S) + Pages!SumOf(T)
<1> DEFINE U == S \union T
<1>1. IsFiniteSet(U) /\ S \in SUBSET U /\ T \in SUBSET U
  BY FS_Union
<1>2. /\ AmountsIn(U) \in [U -> Nat] /\ Pages!SumOf(U) = Total(AmountsIn(U), U)
      /\ Pages!SumOf(S) = Total(AmountsIn(S), S) /\ Pages!SumOf(T) = Total(AmountsIn(T), T)
  <2>1. (\A x \in U : x.amount \in Nat) /\ (\A x \in S : x.amount \in Nat) /\ (\A x \in T : x.amount \in Nat)
    OBVIOUS
  <2> HIDE DEF U
  <2> QED BY <1>1, <2>1, SumOfIsTotal
<1>3. Total(AmountsIn(U), S) = Total(AmountsIn(S), S) /\ Total(AmountsIn(U), T) = Total(AmountsIn(T), T)
  <2>1. (\A x \in S : AmountsIn(U)[x] = AmountsIn(S)[x]) /\ (\A x \in T : AmountsIn(U)[x] = AmountsIn(T)[x])
    BY DEF AmountsIn
  <2> QED BY <2>1, TotalOfSame
<1>4. Total(AmountsIn(U), S \union T) = Total(AmountsIn(U), S) + Total(AmountsIn(U), T)
  <2> HIDE DEF U
  <2> QED BY <1>1, <1>2, TotalOfBoth
<1> QED BY <1>2, <1>3, <1>4

LEMMA SumOfNone == Pages!SumOf({}) = 0
BY SumOfIsTotal, TotalOfNone, FS_EmptySet
-----------------------------------------------------------------------------
(* LEDGER: the running balance.  Rows are <<day, credit, debit>>. *)

Column(rows, c) == [k \in 1..Len(rows) |-> rows[k][c]]
Runs(opening, rows, b) ==
    b = [k \in 0..Len(rows) |-> IF k = 0 THEN opening ELSE b[k - 1] + rows[k][2] - rows[k][3]]

LEMMA OneMorePlace ==
    ASSUME NEW n \in Nat, NEW col \in [1..n -> Nat], NEW k \in 1..n
    PROVE  Total(col, 1..k) = col[k] + Total(col, 1..(k - 1)) /\ Total(col, 1..(k - 1)) \in Nat
<1> DEFINE N == 1..n
           K == 1..k
           before == 1..(k - 1)
<1>1. IsFiniteSet(N)
  BY FS_Interval
<1>2. K \in SUBSET N /\ before \in SUBSET N /\ k \in K
  OBVIOUS
<1>3. K \ {k} = before
  OBVIOUS
<1> HIDE DEF N, K, before
<1>4. col \in [N -> Nat]
  BY DEF N
<1>5. Splits(col, N)
  BY <1>1, <1>4, TotalSplits
<1>6. Total(col, K) = col[k] + Total(col, K \ {k})
  BY <1>2, <1>5 DEF Splits
<1>7. Total(col, before) \in Nat
  BY <1>1, <1>2, <1>4, FiniteUnits
<1> QED BY <1>3, <1>6, <1>7 DEF K, before

LEMMA RunningBalance ==
    ASSUME NEW opening \in Int, NEW rows, NEW n \in Nat, Len(rows) = n,
           Column(rows, 2) \in [1..n -> Nat], Column(rows, 3) \in [1..n -> Nat]
    PROVE  \A k \in 0..n : (CHOOSE b : Runs(opening, rows, b))[k]
                              = opening + Total(Column(rows, 2), 1..k) - Total(Column(rows, 3), 1..k)
<1> DEFINE cr == Column(rows, 2)
           db == Column(rows, 3)
           w == [k \in 0..n |-> opening + Total(cr, 1..k) - Total(db, 1..k)]
           b == CHOOSE b : Runs(opening, rows, b)
<1>1. ASSUME NEW col \in [1..n -> Nat], NEW k \in 1..n
      PROVE  Total(col, 1..k) = col[k] + Total(col, 1..(k - 1)) /\ Total(col, 1..(k - 1)) \in Nat
  BY OneMorePlace
<1>2. cr \in [1..n -> Nat] /\ db \in [1..n -> Nat]
      /\ \A k \in 1..n : cr[k] = rows[k][2] /\ db[k] = rows[k][3] /\ cr[k] \in Nat /\ db[k] \in Nat
  BY DEF Column
<1> HIDE DEF cr, db
<1>3. w[0] = opening
  <2>1. 1..0 = {}
    OBVIOUS
  <2> QED BY <2>1, TotalOfNone
<1>4. \A k \in 1..n : w[k] = w[k - 1] + rows[k][2] - rows[k][3]
  <2> SUFFICES ASSUME NEW k \in 1..n PROVE w[k] = w[k - 1] + cr[k] - db[k]
    BY <1>2
  <2>1. k \in 0..n /\ k - 1 \in 0..n
    OBVIOUS
  <2>2. /\ Total(cr, 1..k) = cr[k] + Total(cr, 1..(k - 1)) /\ Total(cr, 1..(k - 1)) \in Nat
        /\ Total(db, 1..k) = db[k] + Total(db, 1..(k - 1)) /\ Total(db, 1..(k - 1)) \in Nat
    BY <1>1, <1>2
  <2>3. cr[k] \in Nat /\ db[k] \in Nat
    BY <1>2
  <2> QED BY <2>1, <2>2, <2>3
<1>5. w = [k \in 0..n |-> w[k]]
  OBVIOUS
<1> HIDE DEF w
<1>6. Runs(opening, rows, b)
  <2>1. \A k \in 0..n : w[k] = IF k = 0 THEN opening ELSE w[k - 1] + rows[k][2] - rows[k][3]
    BY <1>3, <1>4
  <2>2. Runs(opening, rows, w)
    BY <1>5, <2>1 DEF Runs
  <2> QED BY <2>2
<1> HIDE DEF b
<1> DEFINE Right == {k \in 0..n : \A j \in 0..k : b[j] = w[j]}
<1>7. b[0] = opening /\ \A k \in 1..n : b[k] = b[k - 1] + rows[k][2] - rows[k][3]
  <2>1. \A k \in 0..n : b[k] = IF k = 0 THEN opening ELSE b[k - 1] + rows[k][2] - rows[k][3]
    BY <1>6 DEF Runs
  <2> QED BY <2>1
<1>8. 0 \in Right
  BY <1>3, <1>7
<1>9. PICK k \in Right : \A j \in Right : j <= k
  <2>1. Right \in SUBSET Nat
    OBVIOUS
  <2>2. IsFiniteSet(Right)
    <3>1. Right \in SUBSET (0..n) /\ IsFiniteSet(0..n)
      BY FS_Interval
    <3> HIDE DEF Right
    <3> QED BY <3>1, FS_Subset
  <2> HIDE DEF Right
  <2> QED BY <1>8, <2>1, <2>2, GivingGreatest
<1> SUFFICES \A j \in 0..n : b[j] = w[j]
  BY DEF b, w, cr, db
<1>10. CASE k < n
  <2>1. k + 1 \in 1..n /\ k \in 0..n /\ \A j \in 0..k : b[j] = w[j]
    BY <1>10
  <2>2. b[k + 1] = w[k + 1]
    <3>1. (k + 1) - 1 = k /\ b[k] = w[k]
      BY <2>1
    <3> QED BY <1>4, <1>7, <2>1, <3>1
  <2>3. \A j \in 0..(k + 1) : j \in 0..k \/ j = k + 1
    BY <2>1
  <2>4. k + 1 \in Right
    BY <2>1, <2>2, <2>3
  <2> HIDE DEF Right
  <2>5. k + 1 <= k
    BY <1>9, <2>4
  <2> QED BY <2>1, <2>5
<1>11. CASE k = n
  BY <1>11
<1>12. k \in 0..n
  OBVIOUS
<1> QED BY <1>10, <1>11, <1>12

\* The opening row, and after it the n rows, each with what they have run up to.
Balanced(ledger, s, opening, rows, n) ==
    /\ Len(ledger) = n + 1 /\ ledger[1] = <<s, 0, 0, opening>>
    /\ \A k \in 1..n : ledger[k + 1][1] = rows[k][1]
    /\ \A k \in 0..n :
         ledger[k + 1][4] = opening + Total(Column(rows, 2), 1..k) - Total(Column(rows, 3), 1..k)

LEMMA LedgerRows ==
    ASSUME NEW s, NEW e, Pages!Opening(s) \in Int, NEW n \in Nat, Len(Pages!Rows(s, e)) = n,
           Column(Pages!Rows(s, e), 2) \in [1..n -> Nat], Column(Pages!Rows(s, e), 3) \in [1..n -> Nat]
    PROVE  Balanced(Pages!GenerateLedger(s, e), s, Pages!Opening(s), Pages!Rows(s, e), n)
<1> DEFINE rows == Pages!Rows(s, e)
           ledger == Pages!GenerateLedger(s, e)
           opening == Pages!Opening(s)
           b == CHOOSE b : Runs(opening, rows, b)
           first == <<s, 0, 0, opening>>
           rest == [k \in 1..n |-> <<rows[k][1], rows[k][2], rows[k][3], b[k]>>]
           R == {rest[k] : k \in 1..n}
<1>1. ledger = <<first>> \o rest
  BY DEF Pages!GenerateLedger, Runs
<1>2. \A k \in 0..n : b[k] = opening + Total(Column(rows, 2), 1..k) - Total(Column(rows, 3), 1..k)
  BY RunningBalance
<1> HIDE DEF rows, ledger, opening, b
<1>3. rest \in [1..n -> R] /\ \A k \in 1..n : rest[k][1] = rows[k][1] /\ rest[k][4] = b[k]
  OBVIOUS
<1>4. first[4] = opening
  OBVIOUS
<1> HIDE DEF R, rest
<1>5. rest \in Seq(R) /\ Len(rest) = n
  BY <1>3
<1>6. Len(ledger) = n + 1 /\ ledger[1] = first /\ \A k \in 1..n : ledger[k + 1] = rest[k]
  <2> HIDE DEF first
  <2> QED BY <1>1, <1>5
<1>7. ledger[0 + 1][4] = opening + Total(Column(rows, 2), 1..0) - Total(Column(rows, 3), 1..0)
  <2>1. Total(Column(rows, 2), 1..0) = 0 /\ Total(Column(rows, 3), 1..0) = 0
    <3>1. 1..0 = {}
      OBVIOUS
    <3> QED BY <3>1, TotalOfNone
  <2>2. opening \in Int /\ 0 + 1 = 1
    BY DEF opening
  <2> QED BY <1>4, <1>6, <2>1, <2>2
<1>8. \A k \in 1..n : ledger[k + 1][4] = opening + Total(Column(rows, 2), 1..k) - Total(Column(rows, 3), 1..k)
  <2> SUFFICES ASSUME NEW k \in 1..n
               PROVE  ledger[k + 1][4] = opening + Total(Column(rows, 2), 1..k) - Total(Column(rows, 3), 1..k)
    OBVIOUS
  <2>1. ledger[k + 1][4] = b[k]
    BY <1>3, <1>6
  <2>2. k \in 0..n
    OBVIOUS
  <2> QED BY <1>2, <2>1, <2>2
<1>9. \A k \in 0..n : k = 0 \/ k \in 1..n
  OBVIOUS
<1> QED BY <1>3, <1>6, <1>7, <1>8, <1>9 DEF Balanced, rows, ledger, opening
-----------------------------------------------------------------------------
(* LEDGER: what the rows of a period add up to *)

\* A column of n listed rows holds, from some place on, the amounts of a sorted table of
\* so many rows, at their days, and zeros elsewhere.
Holds(listed, days, n, from, q, rows) ==
    /\ n \in Nat /\ from \in Nat /\ listed \in [1..n -> Nat]
    /\ \A m \in 1..rows : from + m \in 1..n /\ listed[from + m] = q[m].amount /\ days[from + m] = q[m].day
    /\ \A j \in 1..n : listed[j] # 0 => \E m \in 1..rows : j = from + m

InThatOrder(listed, n, order) == [k \in 1..n |-> listed[order[k]]]
UpTo(S, d) == {x \in S : x.day <= d}

\* In an order that has the rows up to a day in the first places, these add up to the sum
\* of that table up to that day.
LEMMA ColumnOfTable ==
    ASSUME NEW S, IsFiniteSet(S), \A x \in S : x.amount \in Nat,
           NEW before, TotalOrder(S, before), NEW q, Sorted(q, S, before),
           NEW n, NEW earlier, TotalOrder(1..n, earlier), NEW order, Sorted(order, 1..n, earlier),
           NEW listed, NEW days, NEW from, Holds(listed, days, n, from, q, Cardinality(S)),
           NEW d, NEW last \in 0..n, \A k \in 1..n : k <= last <=> days[order[k]] <= d
    PROVE  Total(InThatOrder(listed, n, order), 1..last) = Pages!SumOf(UpTo(S, d))
<1> DEFINE N == 1..n
           at(x) == from + (Cardinality(before[x]) + 1)
           f == [x \in S |-> Cardinality(earlier[at(x)]) + 1]
           col == [k \in N |-> listed[order[k]]]
<1> USE DEF Holds
<1>1. IsFiniteSet(N) /\ Cardinality(N) = n /\ TotalOrder(N, earlier) /\ Sorted(order, N, earlier)
  BY FS_Interval
<1>2. order \in [N -> N]
  BY <1>1 DEF Sorted
<1>3. col \in [N -> Nat] /\ \A k \in N : col[k] = listed[order[k]]
  BY <1>2
<1>4. ASSUME NEW x \in S
      PROVE  at(x) \in N /\ f[x] \in N /\ order[f[x]] = at(x) /\ listed[at(x)] = x.amount /\ days[at(x)] = x.day
  <2>1. Cardinality(before[x]) + 1 \in 1..Cardinality(S) /\ q[Cardinality(before[x]) + 1] = x
    BY RowAtPlace
  <2>2. at(x) \in N /\ listed[at(x)] = x.amount /\ days[at(x)] = x.day
    BY <2>1
  <2> HIDE DEF at, N
  <2>3. Cardinality(earlier[at(x)]) + 1 \in 1..Cardinality(N) /\ order[Cardinality(earlier[at(x)]) + 1] = at(x)
    BY <1>1, <2>2, RowAtPlace
  <2> QED BY <1>1, <2>2, <2>3 DEF N
<1>5. ASSUME NEW x \in S, NEW y \in S, f[x] = f[y] PROVE x = y
  <2>1. Cardinality(before[x]) \in Nat /\ Cardinality(before[y]) \in Nat
    BY FewerBefore
  <2>2. at(x) = at(y)
    <3> HIDE DEF f, at
    <3> QED BY <1>4, <1>5
  <2>3. Cardinality(before[x]) = Cardinality(before[y])
    BY <2>1, <2>2
  <2> QED BY <2>3, PlacesTaken
<1>6. ASSUME NEW k \in N, col[k] # 0 PROVE \E x \in S : f[x] = k
  <2>1. order[k] \in N /\ Cardinality(earlier[order[k]]) = k - 1 /\ listed[order[k]] # 0
    BY <1>1, <1>2, <1>6 DEF Sorted
  <2>2. PICK m \in 1..Cardinality(S) : order[k] = from + m
    BY <2>1
  <2>3. q[m] \in S /\ Cardinality(before[q[m]]) = m - 1
    BY DEF Sorted
  <2>4. at(q[m]) = order[k]
    BY <2>2, <2>3
  <2> HIDE DEF at
  <2>5. f[q[m]] = k
    BY <2>1, <2>3, <2>4
  <2> QED BY <2>3, <2>5
<1> DEFINE T == {x \in S : x.day <= d}
           M == 1..last
           g == [x \in T |-> f[x]]
           w == [k \in M |-> col[k]]
<1>7. T \in SUBSET S /\ M \in SUBSET N /\ IsFiniteSet(M) /\ IsFiniteSet(T)
  <2>1. T \in SUBSET S /\ M \in SUBSET N
    OBVIOUS
  <2> HIDE DEF T, M, N
  <2> QED BY <1>1, <2>1, FS_Subset
<1>8. AmountsIn(T) \in [T -> Nat] /\ Pages!SumOf(T) = Total(AmountsIn(T), T)
  <2>1. \A x \in T : x.amount \in Nat
    OBVIOUS
  <2> HIDE DEF T
  <2> QED BY <1>7, <2>1, SumOfIsTotal
<1>9. \A x \in T : g[x] = f[x] /\ g[x] \in M
  <2> SUFFICES ASSUME NEW x \in T PROVE f[x] \in M
    OBVIOUS
  <2>1. f[x] \in N /\ days[order[f[x]]] <= d
    BY <1>4
  <2> HIDE DEF f
  <2> QED BY <2>1
<1>10. ASSUME NEW k \in M, w[k] # 0 PROVE \E x \in T : g[x] = k
  <2>1. k \in N /\ col[k] # 0 /\ days[order[k]] <= d
    BY <1>10
  <2> HIDE DEF f, col
  <2>2. PICK x \in S : f[x] = k
    BY <1>6, <2>1
  <2>3. x.day <= d
    BY <1>4, <2>1, <2>2
  <2> QED BY <2>2, <2>3
<1>11. Carries(g, T, AmountsIn(T), M, w)
  <2>1. w \in [M -> Nat] /\ g \in [T -> M]
    BY <1>3, <1>7, <1>9
  <2>2. \A x, y \in T : g[x] = g[y] => x = y
    BY <1>5, <1>7, <1>9
  <2>3. \A x \in T : w[g[x]] = AmountsIn(T)[x]
    <3> SUFFICES ASSUME NEW x \in T PROVE w[g[x]] = AmountsIn(T)[x]
      OBVIOUS
    <3>1. x \in S /\ f[x] \in M /\ g[x] = f[x] /\ w[f[x]] = col[f[x]]
      BY <1>7, <1>9
    <3>2. col[f[x]] = x.amount
      <4> HIDE DEF f, col
      <4> QED BY <1>3, <1>4, <3>1
    <3>3. AmountsIn(T)[x] = x.amount
      BY DEF AmountsIn
    <3> QED BY <3>1, <3>2, <3>3
  <2>4. \A k \in M : w[k] # 0 => \E x \in T : g[x] = k
    BY <1>10
  <2> HIDE DEF T, M, g, w
  <2> QED BY <1>8, <2>1, <2>2, <2>3, <2>4 DEF Carries
<1>12. Total(AmountsIn(T), T) = Total(w, M)
  <2> HIDE DEF T, M, g, w
  <2> QED BY <1>7, <1>11, TotalThrough
<1>13. Total(w, M) = Total(col, M)
  <2>1. \A k \in M : w[k] = col[k]
    OBVIOUS
  <2> HIDE DEF w, M
  <2> QED BY <2>1, TotalOfSame
<1> HIDE DEF T, w
<1>14. Total(col, M) = Pages!SumOf(T)
  BY <1>8, <1>12, <1>13
<1> QED BY <1>14 DEF N, M, T, col, InThatOrder, UpTo

\* Rows of one day stay in the order they were listed, and no two have one place.
LEMMA EarlierOrdered ==
    ASSUME NEW n \in Nat, NEW listed, DOMAIN listed = 1..n, \A k \in 1..n : listed[k][1] \in Int
    PROVE  TotalOrder(1..n, Pages!Earlier(listed))
<1> DEFINE earlier == Pages!Earlier(listed)
<1>1. earlier \in [1..n -> SUBSET (1..n)]
  BY DEF Pages!Earlier
<1>2. \A k \in 1..n : k \notin earlier[k]
  BY DEF Pages!Earlier
<1>3. \A k, j \in 1..n : j \in earlier[k] => earlier[j] \subseteq earlier[k]
  BY DEF Pages!Earlier
<1>4. \A k, j \in 1..n : k = j \/ j \in earlier[k] \/ k \in earlier[j]
  BY DEF Pages!Earlier
<1> QED BY <1>1, <1>2, <1>3, <1>4 DEF TotalOrder

\* A ledger has its rows by day, days of the period, and after the last row up to a day it
\* stands at what the period opened with, and what came in up to that day, less what was spent.
LEMMA LedgerOfPeriod ==
    ASSUME Pages!LedgerAssumption, TablesInv, NEW s \in Int, NEW e \in Int, Pages!Opening(s) \in Int
    PROVE  LET rows == Pages!Rows(s, e)
               ledger == Pages!GenerateLedger(s, e)
               n == Len(rows)
           IN /\ n \in Nat /\ Len(ledger) = n + 1 /\ ledger[1][1] = s
              /\ \A k \in 1..n : /\ rows[k][1] \in Nat /\ s <= rows[k][1] /\ rows[k][1] <= e
                                 /\ ledger[k + 1][1] = rows[k][1]
              /\ \A j, k \in 1..n : j < k => rows[j][1] <= rows[k][1]
              /\ \A d : \A last \in 0..n : (\A k \in 1..n : k <= last <=> rows[k][1] <= d)
                   => ledger[last + 1][4] = Pages!Opening(s) + Pages!SumOf(UpTo(Pages!IncomeIn(s, e), d))
                                              - Pages!SumOf(UpTo(Pages!ExpensesIn(s, e), d))
<1> DEFINE I == Pages!IncomeIn(s, e)
           E == Pages!ExpensesIn(s, e)
           qi == Pages!IncomeQuery(s, e)
           qe == Pages!ExpenseQuery(s, e)
           a == Cardinality(I)
           n == Cardinality(I) + Cardinality(E)
           listed == Pages!Listed(s, e)
           earlier == Pages!Earlier(listed)
           order == Pages!InOrder(earlier)
           rows == Pages!Rows(s, e)
           days == [k \in 1..n |-> listed[k][1]]
           credits == [k \in 1..n |-> listed[k][2]]
           debits == [k \in 1..n |-> listed[k][3]]
<1>1. /\ TableIncomes(I) /\ TableExpenses(E)
      /\ TotalOrder(I, Pages!NewerIncomes(I)) /\ Sorted(qi, I, Pages!NewerIncomes(I))
      /\ TotalOrder(E, Pages!NewerExpenses(E)) /\ Sorted(qe, E, Pages!NewerExpenses(E))
  BY RowsOfPeriod
<1>2. IsFiniteSet(I) /\ IsFiniteSet(E) /\ Cardinality(I) \in Nat /\ Cardinality(E) \in Nat
      /\ (\A i \in I : i.day \in Nat /\ i.amount \in Nat) /\ (\A x \in E : x.day \in Nat /\ x.amount \in Nat)
  <2> HIDE DEF I, E
  <2> QED BY <1>1, FS_CardinalityType DEF TableIncomes, TableExpenses, Pages!Income, Pages!Expense,
             Pages!LedgerAssumption
<1> DEFINE Inside(x) == s <= x.day /\ x.day < e + 1
<1>21. (\A i \in I : Inside(i)) /\ (\A x \in E : Inside(x))
  <2>1. (\A i \in I : s <= i.day /\ i.day < e + 1) /\ (\A x \in E : s <= x.day /\ x.day <= e)
    BY DEF Pages!IncomeIn, Pages!ExpensesIn
  <2> HIDE DEF I, E
  <2> QED BY <1>2, <2>1
<1> HIDE DEF Inside
<1>3. listed = [k \in 1..Len(qi) |-> <<qi[k].day, qi[k].amount, 0>>]
                 \o [k \in 1..Len(qe) |-> <<qe[k].day, 0, qe[k].amount>>]
  BY DEF Pages!Listed
<1>4. rows = [k \in DOMAIN order |-> listed[order[k]]]
  BY DEF Pages!Rows
<1> HIDE DEF I, E, qi, qe, listed, rows
<1>5. /\ Len(qi) = a /\ Len(qe) = Cardinality(E)
      /\ \A k \in 1..a : qi[k] \in I
      /\ \A k \in 1..Cardinality(E) : qe[k] \in E
  <2>1. (\A k \in 1..a : qi[k] \in I) /\ \A k \in 1..Cardinality(E) : qe[k] \in E
    BY <1>1 DEF Sorted
  <2>2. Len(qi) = a /\ Len(qe) = Cardinality(E)
    BY <1>1, <1>2 DEF Sorted
  <2> QED BY <2>1, <2>2
<1>6. /\ DOMAIN listed = 1..n
      /\ \A k \in 1..a : listed[k] = <<qi[k].day, qi[k].amount, 0>>
      /\ \A k \in 1..Cardinality(E) : listed[a + k] = <<qe[k].day, 0, qe[k].amount>>
  <2> DEFINE ri == [k \in 1..a |-> <<qi[k].day, qi[k].amount, 0>>]
             re == [k \in 1..Cardinality(E) |-> <<qe[k].day, 0, qe[k].amount>>]
             T == Nat \X Nat \X Nat
  <2>1. ri \in [1..a -> T] /\ re \in [1..Cardinality(E) -> T]
    BY <1>2, <1>5
  <2>2. listed = ri \o re
    BY <1>3, <1>5
  <2>3. /\ \A k \in 1..a : ri[k] = <<qi[k].day, qi[k].amount, 0>>
        /\ \A k \in 1..Cardinality(E) : re[k] = <<qe[k].day, 0, qe[k].amount>>
    OBVIOUS
  <2> HIDE DEF ri, re, T
  <2>4. ri \in Seq(T) /\ re \in Seq(T) /\ Len(ri) = a /\ Len(re) = Cardinality(E)
    BY <1>2, <2>1
  <2>5. DOMAIN listed = 1..n /\ (\A k \in 1..a : listed[k] = ri[k])
        /\ \A k \in 1..Cardinality(E) : listed[a + k] = re[k]
    BY <1>2, <2>2, <2>4
  <2> QED BY <2>3, <2>5
<1>7. n \in Nat /\ \A j \in 1..n : j \in 1..a \/ \E m \in 1..Cardinality(E) : j = a + m
  <2>1. \A j \in 1..n : j \in 1..a \/ (j - a \in 1..Cardinality(E) /\ j = a + (j - a))
    BY <1>2
  <2> QED BY <1>2, <2>1
<1>8. \A j \in 1..n : /\ listed[j][1] \in Nat /\ listed[j][2] \in Nat /\ listed[j][3] \in Nat
                      /\ s <= listed[j][1] /\ listed[j][1] <= e
  <2>1. ASSUME NEW j \in 1..a
        PROVE  /\ listed[j][1] \in Nat /\ listed[j][2] \in Nat /\ listed[j][3] \in Nat
               /\ s <= listed[j][1] /\ listed[j][1] <= e
    <3>1. qi[j] \in I /\ listed[j] = <<qi[j].day, qi[j].amount, 0>>
      BY <1>5, <1>6
    <3> QED BY <1>2, <1>21, <3>1 DEF Inside
  <2>2. ASSUME NEW m \in 1..Cardinality(E)
        PROVE  /\ listed[a + m][1] \in Nat /\ listed[a + m][2] \in Nat /\ listed[a + m][3] \in Nat
               /\ s <= listed[a + m][1] /\ listed[a + m][1] <= e
    <3>1. qe[m] \in E /\ listed[a + m] = <<qe[m].day, 0, qe[m].amount>>
      BY <1>5, <1>6
    <3> QED BY <1>2, <1>21, <3>1 DEF Inside
  <2> QED BY <1>7, <2>1, <2>2
<1>9. TotalOrder(1..n, earlier) /\ Sorted(order, 1..n, earlier) /\ IsFiniteSet(1..n) /\ Cardinality(1..n) = n
  <2>1. TotalOrder(1..n, earlier)
    <3> HIDE DEF n
    <3> QED BY <1>6, <1>7, <1>8, EarlierOrdered
  <2>2. IsFiniteSet(1..n) /\ Cardinality(1..n) = n
    BY <1>7, FS_Interval
  <2> QED BY <2>1, <2>2, SortedInPlace
<1> HIDE DEF n, a, earlier, order
<1>10. order \in [1..n -> 1..n] /\ DOMAIN order = 1..n
  BY <1>9 DEF Sorted
<1>11. Len(rows) = n /\ \A k \in 1..n : rows[k] = listed[order[k]]
  BY <1>4, <1>7, <1>10
<1>12. /\ Column(rows, 2) = InThatOrder(credits, n, order) /\ Column(rows, 2) \in [1..n -> Nat]
       /\ Column(rows, 3) = InThatOrder(debits, n, order) /\ Column(rows, 3) \in [1..n -> Nat]
  BY <1>8, <1>10, <1>11 DEF Column, InThatOrder
<1>13. \A k \in 1..n : /\ rows[k][1] = days[order[k]] /\ rows[k][1] \in Nat
                        /\ s <= rows[k][1] /\ rows[k][1] <= e
  BY <1>8, <1>10, <1>11
<1> HIDE DEF days
<1>14. ASSUME NEW j \in 1..n, NEW k \in 1..n, j < k PROVE rows[j][1] <= rows[k][1]
  <2>1. CASE rows[k][1] < rows[j][1]
    <3>1. order[j] \in 1..n /\ order[k] \in 1..n /\ listed[order[k]][1] < listed[order[j]][1]
      BY <1>10, <1>11, <2>1
    <3>2. order[k] \in earlier[order[j]]
      BY <1>6, <3>1 DEF earlier, Pages!Earlier
    <3>3. Cardinality(earlier[order[k]]) < Cardinality(earlier[order[j]])
      BY <1>9, <3>1, <3>2, FewerBefore
    <3>4. Cardinality(earlier[order[k]]) = k - 1 /\ Cardinality(earlier[order[j]]) = j - 1
      BY <1>9 DEF Sorted
    <3>5. j \in Int /\ k \in Int
      BY <1>7
    <3> QED BY <1>14, <3>3, <3>4, <3>5
  <2>2. rows[j][1] \in Int /\ rows[k][1] \in Int
    BY <1>13
  <2> QED BY <2>1, <2>2
<1>15. PICK from \in Nat : from = 0
  OBVIOUS
<1>16. Holds(credits, days, n, from, qi, Cardinality(I))
  <2>1. credits \in [1..n -> Nat]
    BY <1>8
  <2>2. ASSUME NEW m \in 1..Cardinality(I)
        PROVE  from + m \in 1..n /\ credits[from + m] = qi[m].amount /\ days[from + m] = qi[m].day
    <3>1. m \in 1..n /\ listed[m] = <<qi[m].day, qi[m].amount, 0>>
      BY <1>2, <1>6 DEF a, n
    <3>2. from + m = m
      BY <1>2, <1>15
    <3> QED BY <3>1, <3>2 DEF days
  <2>3. ASSUME NEW j \in 1..n, credits[j] # 0 PROVE \E m \in 1..Cardinality(I) : j = from + m
    <3>1. CASE j \in 1..a
      <4>1. j = from + j
        BY <1>2, <1>15, <3>1 DEF a
      <4> QED BY <3>1, <4>1 DEF a
    <3>2. ASSUME NEW m \in 1..Cardinality(E), j = a + m PROVE FALSE
      <4>1. listed[j][2] = 0
        BY <1>6, <3>2
      <4> QED BY <2>3, <4>1
    <3> QED BY <1>7, <3>1, <3>2
  <2> QED BY <1>7, <2>1, <2>2, <2>3 DEF Holds
<1>17. Holds(debits, days, n, a, qe, Cardinality(E))
  <2>1. debits \in [1..n -> Nat] /\ a \in Nat
    BY <1>2, <1>8 DEF a
  <2>2. ASSUME NEW m \in 1..Cardinality(E)
        PROVE  a + m \in 1..n /\ debits[a + m] = qe[m].amount /\ days[a + m] = qe[m].day
    <3>1. a + m \in 1..n /\ listed[a + m] = <<qe[m].day, 0, qe[m].amount>>
      BY <1>2, <1>6 DEF a, n
    <3> QED BY <3>1 DEF days
  <2>3. \A j \in 1..n : debits[j] # 0 => \E m \in 1..Cardinality(E) : j = a + m
    BY <1>6, <1>7
  <2> QED BY <1>7, <2>1, <2>2, <2>3 DEF Holds
<1>18. Balanced(Pages!GenerateLedger(s, e), s, Pages!Opening(s), rows, n)
  <2>1. n \in Nat /\ Len(Pages!Rows(s, e)) = n
    BY <1>7, <1>11 DEF rows
  <2>2. Column(Pages!Rows(s, e), 2) \in [1..n -> Nat] /\ Column(Pages!Rows(s, e), 3) \in [1..n -> Nat]
    BY <1>12 DEF rows
  <2> HIDE DEF credits, debits
  <2> QED BY <2>1, <2>2, LedgerRows DEF rows
<1>19. ASSUME NEW d, NEW last \in 0..n, \A k \in 1..n : k <= last <=> rows[k][1] <= d
       PROVE  Pages!GenerateLedger(s, e)[last + 1][4]
                = Pages!Opening(s) + Pages!SumOf(UpTo(I, d)) - Pages!SumOf(UpTo(E, d))
  <2>1. \A k \in 1..n : k <= last <=> days[order[k]] <= d
    BY <1>13, <1>19
  <2>2. (\A x \in I : x.amount \in Nat) /\ (\A x \in E : x.amount \in Nat)
    BY <1>2
  <2> HIDE DEF credits, debits
  <2>3. Total(InThatOrder(credits, n, order), 1..last) = Pages!SumOf(UpTo(I, d))
    BY <1>1, <1>2, <1>9, <1>16, <2>1, <2>2, ColumnOfTable
  <2>4. Total(InThatOrder(debits, n, order), 1..last) = Pages!SumOf(UpTo(E, d))
    BY <1>1, <1>2, <1>9, <1>17, <2>1, <2>2, ColumnOfTable
  <2> QED BY <1>12, <1>18, <2>3, <2>4 DEF Balanced
<1>20. Pages!GenerateLedger(s, e)[1][1] = s
  BY <1>18 DEF Balanced
<1> QED BY <1>7, <1>11, <1>13, <1>14, <1>18, <1>19, <1>20 DEF Balanced, rows, I, E

\* A period closes at what it opens with, and what came in, less what was spent.
LEMMA PeriodCloses ==
    ASSUME Pages!LedgerAssumption, TablesInv, NEW s \in Int, NEW e \in Int, Pages!Opening(s) \in Int
    PROVE  Pages!Closing(s, e) = Pages!Opening(s) + Pages!SumOf(Pages!IncomeIn(s, e))
                                   - Pages!SumOf(Pages!ExpensesIn(s, e))
<1> DEFINE rows == Pages!Rows(s, e)
           ledger == Pages!GenerateLedger(s, e)
           n == Len(rows)
<1>1. /\ n \in Nat /\ Len(ledger) = n + 1
      /\ \A k \in 1..n : rows[k][1] \in Nat /\ rows[k][1] <= e
      /\ \A d : \A last \in 0..n : (\A k \in 1..n : k <= last <=> rows[k][1] <= d)
            => ledger[last + 1][4] = Pages!Opening(s) + Pages!SumOf(UpTo(Pages!IncomeIn(s, e), d))
                                       - Pages!SumOf(UpTo(Pages!ExpensesIn(s, e), d))
  BY LedgerOfPeriod
<1>2. UpTo(Pages!IncomeIn(s, e), e) = Pages!IncomeIn(s, e) /\ UpTo(Pages!ExpensesIn(s, e), e) = Pages!ExpensesIn(s, e)
  <2>1. \A i \in incomes : i.day \in Nat
    BY DEF TablesInv, Pages!TypeOK, Pages!Income, Pages!LedgerAssumption
  <2> QED BY <2>1 DEF UpTo, Pages!IncomeIn, Pages!ExpensesIn
<1>3. Pages!Closing(s, e) = ledger[n + 1][4]
  BY <1>1 DEF Pages!Closing, Pages!Last
<1> HIDE DEF rows, ledger, n
<1>4. n \in 0..n /\ \A k \in 1..n : k <= n <=> rows[k][1] <= e
  BY <1>1
<1> QED BY <1>1, <1>2, <1>3, <1>4

\* What is counted up to a day.
LEMMA Openings ==
    ASSUME Pages!LedgerAssumption, TablesInv
    PROVE  \A s \in Int :
             /\ Pages!IncomeBefore(s) \in Nat /\ Pages!ExpensesBefore(s) \in Nat /\ Pages!Opening(s) \in Int
             /\ \A e \in Int :
                  /\ Pages!SumOf(Pages!IncomeIn(s, e)) \in Nat /\ Pages!SumOf(Pages!ExpensesIn(s, e)) \in Nat
                  /\ s <= e + 1 =>
                       /\ Pages!IncomeBefore(e + 1) = Pages!IncomeBefore(s) + Pages!SumOf(Pages!IncomeIn(s, e))
                       /\ Pages!ExpensesBefore(e + 1)
                            = Pages!ExpensesBefore(s) + Pages!SumOf(Pages!ExpensesIn(s, e))
<1>1. /\ IsFiniteSet(incomes) /\ \A i \in incomes : i.day \in Nat /\ i.amount \in Nat
      /\ IsFiniteSet(Pages!Counted) /\ \A x \in Pages!Counted : x.day \in Nat /\ x.amount \in Nat
  <2>1. IsFiniteSet(Pages!Counted)
    BY FS_Subset DEF TablesInv, Pages!Counted
  <2> QED BY <2>1 DEF TablesInv, Pages!TypeOK, Pages!Income, Pages!Expense, Pages!Counted, Pages!LedgerAssumption
<1>2. ASSUME NEW S, IsFiniteSet(S), \A x \in S : x.amount \in Nat, NEW T \in SUBSET S
      PROVE  IsFiniteSet(T) /\ (\A x \in T : x.amount \in Nat) /\ Pages!SumOf(T) \in Nat
  <2>1. IsFiniteSet(T) /\ \A x \in T : x.amount \in Nat
    BY <1>2, FS_Subset
  <2> QED BY <2>1, SumOfIsTotal
<1> TAKE s \in Int
<1> DEFINE iB == {i \in incomes : i.day < s}
           xB == {x \in Pages!Counted : x.day < s}
<1>3. iB \in SUBSET incomes /\ xB \in SUBSET Pages!Counted
      /\ Pages!IncomeBefore(s) = Pages!SumOf(iB) /\ Pages!ExpensesBefore(s) = Pages!SumOf(xB)
  BY DEF Pages!IncomeBefore, Pages!ExpensesBefore
<1>4. Pages!IncomeBefore(s) \in Nat /\ Pages!ExpensesBefore(s) \in Nat
  <2> HIDE DEF iB, xB
  <2> QED BY <1>1, <1>2, <1>3
<1>5. Pages!Opening(s) \in Int
  BY <1>4 DEF Pages!Opening
<1>6. ASSUME NEW e \in Int
      PROVE  /\ Pages!SumOf(Pages!IncomeIn(s, e)) \in Nat /\ Pages!SumOf(Pages!ExpensesIn(s, e)) \in Nat
             /\ s <= e + 1 =>
                  /\ Pages!IncomeBefore(e + 1) = Pages!IncomeBefore(s) + Pages!SumOf(Pages!IncomeIn(s, e))
                  /\ Pages!ExpensesBefore(e + 1) = Pages!ExpensesBefore(s) + Pages!SumOf(Pages!ExpensesIn(s, e))
  <2> DEFINE I == Pages!IncomeIn(s, e)
             E == Pages!ExpensesIn(s, e)
             iE == {i \in incomes : i.day < e + 1}
             xE == {x \in Pages!Counted : x.day < e + 1}
  <2>1. I \in SUBSET incomes /\ E \in SUBSET Pages!Counted
        /\ Pages!IncomeBefore(e + 1) = Pages!SumOf(iE) /\ Pages!ExpensesBefore(e + 1) = Pages!SumOf(xE)
    BY DEF Pages!IncomeIn, Pages!ExpensesIn, Pages!IncomeBefore, Pages!ExpensesBefore
  <2>2. ASSUME s <= e + 1 PROVE iE = iB \union I /\ iB \cap I = {} /\ xE = xB \union E /\ xB \cap E = {}
    BY <1>1, <2>2 DEF Pages!IncomeIn, Pages!ExpensesIn
  <2> HIDE DEF I, E, iB, xB, iE, xE
  <2>3. /\ IsFiniteSet(I) /\ IsFiniteSet(E) /\ Pages!SumOf(I) \in Nat /\ Pages!SumOf(E) \in Nat
        /\ IsFiniteSet(iB) /\ IsFiniteSet(xB)
        /\ (\A x \in iB \union I : x.amount \in Nat) /\ (\A x \in xB \union E : x.amount \in Nat)
    BY <1>1, <1>2, <1>3, <2>1
  <2>4. ASSUME s <= e + 1
        PROVE  /\ Pages!SumOf(iB \union I) = Pages!SumOf(iB) + Pages!SumOf(I)
               /\ Pages!SumOf(xB \union E) = Pages!SumOf(xB) + Pages!SumOf(E)
    <3>1. iB \cap I = {} /\ xB \cap E = {}
      BY <2>2, <2>4
    <3> QED BY <2>3, <3>1, SumOfBoth
  <2> QED BY <1>3, <2>1, <2>2, <2>3, <2>4 DEF I, E
<1> QED BY <1>4, <1>5, <1>6

\* The first and the last day there are.
LEMMA FirstAndLast ==
    ASSUME Pages!LedgerAssumption
    PROVE  /\ Pages!FirstDay \in Nat /\ Pages!LastDay \in Nat
           /\ \A d \in Days : d \in Nat /\ Pages!FirstDay <= d /\ d <= Pages!LastDay
<1>1. IsFiniteSet(Days) /\ Days # {} /\ Days \in SUBSET Nat
  BY CountingTables DEF Pages!LedgerAssumption
<1>2. PICK l \in Days : \A d \in Days : d <= l
  BY <1>1, GivingGreatest
<1>3. \E f \in Days : \A d \in Days : f <= d
  <2> DEFINE T == {k \in 0..l : l - k \in Days}
  <2>1. l \in Nat /\ T \in SUBSET (0..l) /\ T \in SUBSET Nat /\ 0 \in T
    BY <1>1
  <2>2. IsFiniteSet(T)
    <3>1. IsFiniteSet(0..l)
      BY <2>1, FS_Interval
    <3> HIDE DEF T
    <3> QED BY <2>1, <3>1, FS_Subset
  <2>3. PICK k \in T : \A j \in T : j <= k
    <3> HIDE DEF T
    <3> QED BY <2>1, <2>2, GivingGreatest
  <2>4. l - k \in Days /\ k \in Nat
    BY <2>1
  <2>5. ASSUME NEW d \in Days PROVE l - k <= d
    <3>1. d \in Nat /\ d <= l /\ l - d \in 0..l /\ l - (l - d) = d
      BY <1>1, <1>2, <2>1
    <3>2. l - d \in T
      BY <3>1
    <3> HIDE DEF T
    <3>3. l - d <= k
      BY <2>3, <3>2
    <3> QED BY <2>1, <2>4, <3>1, <3>3
  <2> QED BY <2>4, <2>5
<1>4. Pages!FirstDay \in Days /\ \A d \in Days : Pages!FirstDay <= d
  BY <1>3 DEF Pages!FirstDay, Pages!Min
<1>5. Pages!LastDay \in Days /\ \A d \in Days : Pages!LastDay >= d
  <2>1. \E x \in Days : \A d \in Days : x >= d
    BY <1>1, <1>2
  <2> QED BY <2>1 DEF Pages!LastDay, Pages!Max
<1> QED BY <1>1, <1>4, <1>5

\* After the last row of a day, the ledger stands where the next day opens.
LEMMA EveryDayEndsRight ==
    ASSUME Pages!LedgerAssumption, TablesInv, NEW s \in Int, NEW e \in Int, s <= e
    PROVE  Pages!DaysEndRight(s, e)
<1> DEFINE rows == Pages!Rows(s, e)
           ledger == Pages!GenerateLedger(s, e)
           n == Len(rows)
<1>1. Pages!Opening(s) \in Int
  BY Openings
<1>2. /\ n \in Nat /\ Len(ledger) = n + 1 /\ ledger[1][1] = s
      /\ \A k \in 1..n : /\ rows[k][1] \in Nat /\ s <= rows[k][1] /\ rows[k][1] <= e
                         /\ ledger[k + 1][1] = rows[k][1]
      /\ \A j, k \in 1..n : j < k => rows[j][1] <= rows[k][1]
      /\ \A d : \A last \in 0..n : (\A k \in 1..n : k <= last <=> rows[k][1] <= d)
           => ledger[last + 1][4] = Pages!Opening(s) + Pages!SumOf(UpTo(Pages!IncomeIn(s, e), d))
                                      - Pages!SumOf(UpTo(Pages!ExpensesIn(s, e), d))
  BY <1>1, LedgerOfPeriod
<1> SUFFICES ASSUME NEW k \in 1..Len(ledger), k < Len(ledger) => ledger[k][1] < ledger[k + 1][1]
             PROVE  ledger[k][4] = Pages!Opening(ledger[k][1] + 1)
  BY DEF Pages!DaysEndRight
<1> HIDE DEF rows, ledger, n
<1> DEFINE last == k - 1
           d == ledger[k][1]
<1>3. last \in 0..n /\ k = last + 1 /\ d \in Int /\ s <= d /\ d <= e /\ (k = 1 => d = s)
  <2>1. last \in 0..n /\ k = last + 1
    BY <1>2
  <2>2. CASE k = 1
    BY <1>2, <2>1, <2>2
  <2>3. CASE k # 1
    <3>1. last \in 1..n /\ d = rows[last][1]
      BY <1>2, <2>1, <2>3
    <3> HIDE DEF d, last
    <3> QED BY <1>2, <2>1, <2>3, <3>1
  <2> QED BY <2>2, <2>1, <2>3
<1>4. last # 0 => last \in 1..n /\ d = rows[last][1]
  BY <1>2, <1>3
<1>5. last < n => d < rows[last + 1][1]
  <2>1. ASSUME last < n PROVE d < rows[last + 1][1]
    <3>1. k \in 1..n /\ k < Len(ledger)
      BY <1>2, <1>3, <2>1
    <3>2. ledger[k + 1][1] = rows[k][1]
      BY <1>2, <3>1
    <3> QED BY <1>3, <3>1, <3>2
  <2> QED BY <2>1
<1> HIDE DEF last, d
<1>6. ASSUME NEW j \in 1..n PROVE j <= last <=> rows[j][1] <= d
  <2>1. j \in Int /\ last \in Int /\ rows[j][1] \in Int /\ n \in Int
    BY <1>2, <1>3
  <2>2. CASE j <= last
    <3>1. last \in 1..n /\ d = rows[last][1]
      BY <1>3, <1>4, <2>1, <2>2
    <3>2. j = last \/ rows[j][1] <= rows[last][1]
      BY <1>2, <2>1, <2>2, <3>1
    <3> QED BY <2>1, <2>2, <3>1, <3>2
  <2>3. CASE j > last
    <3>1. last < n /\ last + 1 \in 1..n
      BY <1>3, <2>1, <2>3
    <3>2. j = last + 1 \/ rows[last + 1][1] <= rows[j][1]
      BY <1>2, <2>1, <2>3, <3>1
    <3>3. rows[last + 1][1] \in Int
      BY <1>2, <3>1
    <3>4. d < rows[j][1]
      BY <1>3, <1>5, <2>1, <3>1, <3>2, <3>3
    <3> QED BY <1>3, <2>1, <2>3, <3>4
  <2> QED BY <2>1, <2>2, <2>3
<1>7. ledger[k][4] = Pages!Opening(s) + Pages!SumOf(UpTo(Pages!IncomeIn(s, e), d))
                       - Pages!SumOf(UpTo(Pages!ExpensesIn(s, e), d))
  BY <1>2, <1>3, <1>6
<1>8. /\ UpTo(Pages!IncomeIn(s, e), d) = Pages!IncomeIn(s, d)
      /\ UpTo(Pages!ExpensesIn(s, e), d) = Pages!ExpensesIn(s, d)
  <2>1. (\A i \in incomes : i.day \in Nat) /\ \A x \in Pages!Counted : x.day \in Nat
    BY DEF TablesInv, Pages!TypeOK, Pages!Income, Pages!Expense, Pages!Counted, Pages!LedgerAssumption
  <2> QED BY <1>3, <2>1 DEF UpTo, Pages!IncomeIn, Pages!ExpensesIn
<1>9. Pages!Opening(d + 1) = Pages!Opening(s) + Pages!SumOf(Pages!IncomeIn(s, d)) - Pages!SumOf(Pages!ExpensesIn(s, d))
  <2>1. /\ Pages!IncomeBefore(s) \in Nat /\ Pages!ExpensesBefore(s) \in Nat
        /\ Pages!SumOf(Pages!IncomeIn(s, d)) \in Nat /\ Pages!SumOf(Pages!ExpensesIn(s, d)) \in Nat
        /\ Pages!IncomeBefore(d + 1) = Pages!IncomeBefore(s) + Pages!SumOf(Pages!IncomeIn(s, d))
        /\ Pages!ExpensesBefore(d + 1) = Pages!ExpensesBefore(s) + Pages!SumOf(Pages!ExpensesIn(s, d))
    <3>1. s <= d + 1
      BY <1>3
    <3> QED BY <1>3, <3>1, Openings
  <2> QED BY <2>1 DEF Pages!Opening
<1> QED BY <1>7, <1>8, <1>9 DEF d

\* What the lines of a month's budget page say was spent is what that month's report says.
LEMMA BudgetsAddUp ==
    ASSUME Pages!LedgerAssumption, TablesInv, NEW m
    PROVE  Pages!TotalSpent(m) = Pages!SumOf(Pages!ExpensesIn(Pages!MonthStart(m), Pages!MonthEnd(m)))
<1> DEFINE s == Pages!MonthStart(m)
           e == Pages!MonthEnd(m)
           outs == Pages!ExpensesIn(s, e)
           Of(c) == {x \in outs : x.category = c}
           lines == Pages!BudgetLines(m)
           v == AmountsIn(outs)
           w == [c \in Categories |-> Pages!SumOf(Of(c))]
           class == [x \in outs |-> x.category]
           spent == [c \in lines |-> Pages!BudgetLine(m, c).spent]
<1>1. /\ IsFiniteSet(outs) /\ \A x \in outs : x.amount \in Nat /\ x.category \in Categories
      /\ IsFiniteSet(Categories)
  <2>1. TableExpenses(outs)
    BY RowsOfPeriod
  <2>2. IsFiniteSet(Categories)
    BY CountingTables DEF Pages!LedgerAssumption
  <2> HIDE DEF outs
  <2> QED BY <2>1, <2>2 DEF TableExpenses, Pages!Expense
<1>2. ASSUME NEW c
      PROVE  /\ Pages!BudgetLine(m, c).spent = Pages!SumOf(Of(c))
             /\ c \in lines <=> c \in Categories /\ \/ Pages!BudgetLine(m, c).budget >= 0
                                                    \/ Pages!BudgetLine(m, c).spent > 0
                                                    \/ Pages!BudgetLine(m, c).pending > 0
  <2>1. {x \in {y \in expenses : s <= y.day /\ y.day <= e /\ y.category = c} : x.status = "APPROVED"} = Of(c)
    BY DEF Pages!ExpensesIn, Pages!Counted
  <2>2. Pages!BudgetLine(m, c).spent
          = Pages!SumOf({x \in {y \in expenses : s <= y.day /\ y.day <= e /\ y.category = c} : x.status = "APPROVED"})
    BY DEF Pages!BudgetLine
  <2>3. c \in lines <=> c \in Categories /\ \/ Pages!BudgetLine(m, c).budget >= 0
                                            \/ Pages!BudgetLine(m, c).spent > 0
                                            \/ Pages!BudgetLine(m, c).pending > 0
    BY DEF Pages!BudgetLines
  <2> HIDE DEF s, e, Of, lines
  <2> QED BY <2>1, <2>2, <2>3
<1> HIDE DEF outs, lines
<1>3. /\ v \in [outs -> Nat] /\ Pages!SumOf(outs) = Total(v, outs)
      /\ \A c : Pages!SumOf(Of(c)) = Total(v, Of(c)) /\ Pages!SumOf(Of(c)) \in Nat
  <2>1. v \in [outs -> Nat] /\ Pages!SumOf(outs) = Total(v, outs)
    BY <1>1, SumOfIsTotal
  <2>2. ASSUME NEW c PROVE Pages!SumOf(Of(c)) = Total(v, Of(c)) /\ Pages!SumOf(Of(c)) \in Nat
    <3>1. Of(c) \in SUBSET outs /\ \A x \in Of(c) : x.amount \in Nat /\ v[x] = AmountsIn(Of(c))[x]
      BY <1>1 DEF AmountsIn
    <3> HIDE DEF Of, v
    <3>2. IsFiniteSet(Of(c)) /\ \A x \in Of(c) : x.amount \in Nat
      BY <1>1, <3>1, FS_Subset
    <3>3. Pages!SumOf(Of(c)) = Total(AmountsIn(Of(c)), Of(c)) /\ Pages!SumOf(Of(c)) \in Nat
      BY <3>2, SumOfIsTotal
    <3>4. Total(v, Of(c)) = Total(AmountsIn(Of(c)), Of(c))
      BY <3>1, TotalOfSame
    <3> QED BY <3>3, <3>4
  <2> QED BY <2>1, <2>2
<1>4. Total(w, Categories) = Pages!SumOf(outs)
  <2>1. w \in [Categories -> Nat] /\ class \in [outs -> Categories]
    BY <1>1, <1>3
  <2>2. \A c \in Categories : w[c] = Total(v, {x \in outs : class[x] = c})
    <3> SUFFICES ASSUME NEW c \in Categories PROVE w[c] = Total(v, {x \in outs : class[x] = c})
      OBVIOUS
    <3>1. {x \in outs : class[x] = c} = Of(c)
      OBVIOUS
    <3>2. w[c] = Total(v, Of(c))
      BY <1>3
    <3> QED BY <3>1, <3>2
  <2> HIDE DEF w, class, v
  <2> QED BY <1>1, <1>3, <2>1, <2>2, TotalByClass
<1>5. Pages!TotalSpent(m) = Total(spent, lines)
  <2>1. lines \in SUBSET Categories /\ \A c \in lines : spent[c] \in Nat
    BY <1>2, <1>3
  <2>2. IsFiniteSet(lines)
    BY <1>1, <2>1, FS_Subset
  <2>3. DOMAIN spent = lines /\ spent \in [lines -> Nat]
    BY <2>1
  <2>4. Pages!TotalSpent(m) = Pages!SumFunction(spent)
    BY DEF Pages!TotalSpent, lines
  <2> HIDE DEF spent
  <2> QED BY <2>2, <2>3, <2>4, SumIsTotal
<1>6. (\A c : Pages!BudgetLine(m, c).spent \in Nat) /\ \A c \in Categories : w[c] = Pages!BudgetLine(m, c).spent
  <2>1. \A c \in Categories : w[c] = Pages!SumOf(Of(c))
    OBVIOUS
  <2> HIDE DEF Of, w
  <2> QED BY <1>2, <1>3, <2>1
<1>7. Total(spent, lines) = Total(w, Categories)
  <2> DEFINE f == [c \in lines |-> c]
  <2>1. lines \in SUBSET Categories
    BY <1>2
  <2>2. spent \in [lines -> Nat] /\ w \in [Categories -> Nat] /\ f \in [lines -> Categories]
    <3> HIDE DEF Of
    <3>1. w \in [Categories -> Nat]
      BY <1>3
    <3> HIDE DEF w
    <3> QED BY <1>6, <2>1, <3>1
  <2>3. \A c \in lines : w[f[c]] = spent[c]
    <3> HIDE DEF w
    <3> QED BY <1>6, <2>1
  <2>4. \A c \in Categories : w[c] # 0 => \E l \in lines : f[l] = c
    <3> SUFFICES ASSUME NEW c \in Categories, w[c] # 0 PROVE c \in lines
      OBVIOUS
    <3> HIDE DEF w
    <3>1. Pages!BudgetLine(m, c).spent \in Nat /\ Pages!BudgetLine(m, c).spent # 0
      BY <1>6
    <3>2. Pages!BudgetLine(m, c).spent > 0
      BY <3>1
    <3> HIDE DEF Of
    <3> QED BY <1>2, <3>2
  <2>5. Carries(f, lines, spent, Categories, w)
    <3>1. \A c, l \in lines : f[c] = f[l] => c = l
      OBVIOUS
    <3> HIDE DEF f, w, spent
    <3> QED BY <2>2, <2>3, <2>4, <3>1 DEF Carries
  <2>6. IsFiniteSet(lines)
    BY <1>1, <2>1, FS_Subset
  <2> HIDE DEF f, w, spent
  <2> QED BY <1>1, <2>5, <2>6, TotalThrough
<1> QED BY <1>4, <1>5, <1>7 DEF outs

LEMMA EveryBookAgrees == ASSUME Pages!LedgerAssumption, TablesInv PROVE BooksAgree
<1>1. ASSUME NEW s \in Int, NEW e \in Int
      PROVE  /\ Pages!Closing(s, e) \in Int /\ Pages!Opening(s) \in Int
             /\ Pages!SumOf(Pages!IncomeIn(s, e)) \in Nat /\ Pages!SumOf(Pages!ExpensesIn(s, e)) \in Nat
             /\ Pages!Closing(s, e) - Pages!Opening(s)
                  = Pages!SumOf(Pages!IncomeIn(s, e)) - Pages!SumOf(Pages!ExpensesIn(s, e))
             /\ s <= e + 1 => Pages!Closing(s, e) = Pages!Opening(e + 1)
  <2>1. /\ Pages!IncomeBefore(s) \in Nat /\ Pages!ExpensesBefore(s) \in Nat /\ Pages!Opening(s) \in Int
        /\ Pages!SumOf(Pages!IncomeIn(s, e)) \in Nat /\ Pages!SumOf(Pages!ExpensesIn(s, e)) \in Nat
        /\ s <= e + 1 =>
             /\ Pages!IncomeBefore(e + 1) = Pages!IncomeBefore(s) + Pages!SumOf(Pages!IncomeIn(s, e))
             /\ Pages!ExpensesBefore(e + 1) = Pages!ExpensesBefore(s) + Pages!SumOf(Pages!ExpensesIn(s, e))
    BY Openings
  <2>2. Pages!Closing(s, e) = Pages!Opening(s) + Pages!SumOf(Pages!IncomeIn(s, e))
                                - Pages!SumOf(Pages!ExpensesIn(s, e))
    BY <2>1, PeriodCloses
  <2>3. /\ Pages!Opening(s) = Pages!IncomeBefore(s) - Pages!ExpensesBefore(s)
        /\ Pages!Opening(e + 1) = Pages!IncomeBefore(e + 1) - Pages!ExpensesBefore(e + 1)
    BY DEF Pages!Opening
  <2> QED BY <2>1, <2>2, <2>3
<1>2. ASSUME NEW p \in Pages!Periods
      PROVE  Pages!Closing(p[1], p[2]) = Pages!Opening(p[2] + 1) /\ Pages!DaysEndRight(p[1], p[2])
  <2>1. p[1] \in Int /\ p[2] \in Int /\ p[1] <= p[2] /\ p[1] <= p[2] + 1
    BY FirstAndLast DEF Pages!Periods
  <2> QED BY <1>1, <2>1, EveryDayEndsRight
<1>3. Pages!Closing(Pages!FirstDay, Pages!LastDay) = Pages!Summary.balance
  <2> DEFINE f == Pages!FirstDay
             l == Pages!LastDay
  <2>1. f \in Nat /\ l \in Nat /\ \A d \in Days : d \in Nat /\ f <= d /\ d <= l
    BY FirstAndLast
  <2>2. (\A i \in incomes : i.day \in Days) /\ \A x \in Pages!Counted : x.day \in Days
    BY DEF TablesInv, Pages!TypeOK, Pages!Income, Pages!Expense, Pages!Counted
  <2> HIDE DEF f, l
  <2>3. /\ Pages!IncomeIn(f, l) = incomes /\ Pages!ExpensesIn(f, l) = Pages!Counted
        /\ {i \in incomes : i.day < f} = {} /\ {x \in Pages!Counted : x.day < f} = {}
    BY <2>1, <2>2 DEF Pages!IncomeIn, Pages!ExpensesIn
  <2>4. Pages!Opening(f) = 0
    BY <2>3, SumOfNone DEF Pages!Opening, Pages!IncomeBefore, Pages!ExpensesBefore
  <2>5. /\ Pages!Closing(f, l) - Pages!Opening(f) = Pages!SumOf(incomes) - Pages!SumOf(Pages!Counted)
        /\ Pages!Closing(f, l) \in Int
    BY <1>1, <2>1, <2>3
  <2>6. Pages!Summary.balance = Pages!SumOf(incomes) - Pages!SumOf(Pages!Counted)
    BY DEF Pages!Summary
  <2> QED BY <2>4, <2>5, <2>6 DEF f, l
<1>4. ASSUME NEW m \in {Pages!Month(d) : d \in Days}
      PROVE  /\ Pages!Monthly(m).net = Pages!Closing(Pages!MonthStart(m), Pages!MonthEnd(m))
                                         - Pages!Opening(Pages!MonthStart(m))
             /\ Pages!Monthly(m).expenses = Pages!TotalSpent(m)
  <2> DEFINE s == Pages!MonthStart(m)
             e == Pages!MonthEnd(m)
  <2>1. s \in Int /\ e \in Int
    <3>1. PICK d \in Days : m = (d - 1) \div MonthLength
      BY DEF Pages!Month
    <3>2. d \in Int /\ MonthLength \in Int /\ MonthLength > 0
      BY FirstAndLast DEF Pages!LedgerAssumption
    <3>3. m \in Int
      BY <3>1, <3>2
    <3> QED BY <3>2, <3>3 DEF Pages!MonthStart, Pages!MonthEnd
  <2>2. /\ Pages!Monthly(m).net = Pages!SumOf(Pages!IncomeIn(s, e)) - Pages!SumOf(Pages!ExpensesIn(s, e))
        /\ Pages!Monthly(m).expenses = Pages!SumOf(Pages!ExpensesIn(s, e))
    BY DEF Pages!Monthly
  <2>3. Pages!TotalSpent(m) = Pages!SumOf(Pages!ExpensesIn(s, e))
    BY BudgetsAddUp
  <2> HIDE DEF s, e
  <2>4. Pages!Closing(s, e) - Pages!Opening(s)
          = Pages!SumOf(Pages!IncomeIn(s, e)) - Pages!SumOf(Pages!ExpensesIn(s, e))
    BY <1>1, <2>1
  <2> QED BY <2>2, <2>3, <2>4 DEF s, e
<1> QED BY <1>2, <1>3, <1>4 DEF BooksAgree, Pages!BooksAgree
-----------------------------------------------------------------------------
(* MONEY: from one part, the steps of the others are stuttering *)

LEMMA SpendingRuns == Spec => Spending!Spec
<1>1. Init => Spending!Init
  BY DEF Init
<1>2. [Next]_moneyVars => [Spending!Next]_(Spending!expensesVars)
  BY DEF Next, Spend, Give, Enter, moneyVars, spendingVars, Spending!expensesVars
<1> QED BY <1>1, <1>2, PTL DEF Spec, Spending!Spec

LEMMA GivingRuns == Spec => Giving!Spec
<1>1. Init => Giving!Init
  BY DEF Init
<1>2. [Next]_moneyVars => [Giving!Next]_(Giving!donationsVars)
  BY DEF Next, Spend, Give, Enter, moneyVars, givingVars, Giving!donationsVars
<1> QED BY <1>1, <1>2, PTL DEF Spec, Giving!Spec

LEMMA TablesRun == Spec => Pages!Spec
<1>1. Init => Pages!Init
  BY DEF Init
<1>2. [Next]_moneyVars => [Pages!Next]_(Pages!ledgerVars)
  BY DEF Next, Spend, Give, Enter, moneyVars, ledgerVars, Pages!ledgerVars
<1> QED BY <1>1, <1>2, PTL DEF Spec, Pages!Spec
-----------------------------------------------------------------------------
(* Theorems *)

\* The inductive invariant of the expenses holds in every behaviour of ExpenseService.
THEOREM ExpensesInvariance == Spec => []SpendingInv
<1>1. Spending!Init => SpendingInv
  BY InitSpendingInv, MoneyAssumption
<1>2. SpendingInv /\ [Spending!Next]_(Spending!expensesVars) => SpendingInv'
  BY StepSpendingInv, MoneyAssumption
<1> QED BY <1>1, <1>2, SpendingRuns, PTL DEF Spending!Spec

\* The inductive invariant of the donations holds in every behaviour of DonationService.
THEOREM DonationsInvariance == Spec => []GivingInv
<1>1. Giving!Init => GivingInv
  BY InitGivingInv, MoneyAssumption
<1>2. GivingInv /\ [Giving!Next]_(Giving!donationsVars) => GivingInv'
  BY StepGivingInv, MoneyAssumption
<1> QED BY <1>1, <1>2, GivingRuns, PTL DEF Giving!Spec

\* The inductive invariant of the tables of the finance pages: rows with ids of their own,
\* finitely many.
THEOREM TablesInvariance == Spec => []TablesInv
<1>1. Pages!Init => TablesInv
  BY InitTablesInv
<1>2. TablesInv /\ [Pages!Next]_(Pages!ledgerVars) => TablesInv'
  BY StepTablesInv, MoneyAssumption
<1> QED BY <1>1, <1>2, TablesRun, PTL DEF Pages!Spec

\* Rows stay rows whatever the services commit over what.
THEOREM TypeCorrect == Spec => []TypeOK
<1>1. SpendingInv /\ GivingInv /\ TablesInv => TypeOK
  BY DEF SpendingInv, GivingInv, TablesInv, TypeOK
<1> QED BY <1>1, ExpensesInvariance, DonationsInvariance, TablesInvariance, PTL

\* What counts is an amount that an approver entered, corrected or saw when approving it
\* (build, update and approve), unless an overtaken request was committed to it.
THEOREM AcceptedAmountsCount == Spec => []CountedWasAccepted
<1>1. SpendingInv => CountedWasAccepted
  BY DEF SpendingInv, CountedWasAccepted
<1> QED BY <1>1, ExpensesInvariance, PTL

\* A decision about an expense stands (the checks of update, _pending and void), unless an
\* overtaken request is committed to it.
THEOREM DecisionsAreFinal == Spec => DecisionsStand
<1> DEFINE Stands == \A e \in Spending!Entered \ overrun' :
                        LET was == expense[e].status
                            is == expense'[e].status
                        IN \/ is = was
                           \/ was = "PENDING"
                           \/ was = "APPROVED" /\ is = "VOID"
<1>1. SpendingInv /\ [Spending!Next]_(Spending!expensesVars) => [Stands]_(Spending!expensesVars)
  BY SpendingSteps, MoneyAssumption
<1> QED BY <1>1, SpendingRuns, ExpensesInvariance, PTL DEF Spending!Spec, DecisionsStand, Spending!DecisionsStand

\* A gift and its ledger entry come and go together, and they say the same except where
\* two requests crossed on one gift.
THEOREM EntriesFollowGifts == Spec => []LedgerInSync
<1>1. GivingInv => LedgerInSync
  BY DEF GivingInv, LedgerInSync
<1> QED BY <1>1, DonationsInvariance, PTL

\* A receipt keeps its gift, its number and its amount, and its number stays its own,
\* except where two requests crossed on one gift.
THEOREM ReceiptsAreKept == Spec => []ReceiptStands
<1>1. GivingInv => ReceiptStands
  BY DEF GivingInv, ReceiptStands
<1> QED BY <1>1, DonationsInvariance, PTL

\* A page of the ledger, for which get_ledger_page reads no more than the first rows of each
\* table, is that part of the merged ledger of get_ledger.
THEOREM PagesArePartsOfTheLedger == Spec => []PagesMakeTheLedger
<1>1. TablesInv => PagesMakeTheLedger
  BY EveryPageIsPart, MoneyAssumption
<1> QED BY <1>1, TablesInvariance, PTL

\* The books agree: each ledger closes, and stands at the end of each of its days, where
\* the next day opens, the ledger of all days closes at the balance of the summary, and a
\* month's report says what its ledger and the lines of its budget page say.
THEOREM BooksBalance == Spec => []BooksAgree
<1>1. TablesInv => BooksAgree
  BY EveryBookAgrees, MoneyAssumption
<1> QED BY <1>1, TablesInvariance, PTL
=============================================================================
