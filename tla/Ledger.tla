-------------------------------- MODULE Ledger --------------------------------
(***************************************************************************)
(* The finance pages: what FinanceService, LedgerService,                  *)
(* FinanceReportService and the budgets of ExpenseService compute from the *)
(* same two tables, each in its own way.  The state is the two tables; the *)
(* pages are operators.                                                    *)
(*                                                                         *)
(* An income has a day and a time of that day, an expense only a day.  Ids *)
(* are UUIDs: their order is arbitrary, and the same in PostgreSQL and in  *)
(* Python.  A month is a run of days.  Left out: sources and modes of      *)
(* payment, CSV and PDF, the rounded percentage of a budget.               *)
(***************************************************************************)
EXTENDS Integers, FiniteSets, SequencesExt, FiniteSetsExt

CONSTANTS Ids, Days, Times, Categories,
          AmountOf,    \* the amount entered under each id
          BudgetOf,    \* the budget of each category that has one, each month
          MonthLength  \* days in a month

\* Days, times of a day and categories are values of finite types.
LedgerAssumption == /\ Ids \subseteq Nat
                    /\ Days \subseteq Nat \ {0} /\ IsFiniteSet(Days) /\ Days # {}
                    /\ Times \subseteq Nat /\ IsFiniteSet(Times) /\ Times # {}
                    /\ IsFiniteSet(Categories)
                    /\ AmountOf \in [Ids -> Nat \ {0}]
                    /\ DOMAIN BudgetOf \subseteq Categories
                    /\ MonthLength \in Nat \ {0}

Statuses == {"PENDING", "APPROVED", "REJECTED", "VOID"}
Income == [id : Ids, day : Days, time : Times, amount : Nat]
Expense == [id : Ids, day : Days, category : Categories, status : Statuses, amount : Nat]

VARIABLES incomes, expenses
ledgerVars == <<incomes, expenses>>

Unused == Ids \ {x.id : x \in incomes \union expenses}

Init == incomes = {} /\ expenses = {}

AddIncome == \E i \in Unused, d \in Days, t \in Times :
    /\ incomes' = incomes \union {[id |-> i, day |-> d, time |-> t, amount |-> AmountOf[i]]}
    /\ UNCHANGED expenses

AddExpense == \E i \in Unused, d \in Days, c \in Categories, s \in {"PENDING", "APPROVED"} :
    /\ expenses' = expenses \union {[id |-> i, day |-> d, category |-> c, status |-> s, amount |-> AmountOf[i]]}
    /\ UNCHANGED incomes

VoidExpense == \E e \in expenses :
    /\ e.status # "VOID"
    /\ expenses' = (expenses \ {e}) \union {[e EXCEPT !.status = "VOID"]}
    /\ UNCHANGED incomes

Next == AddIncome \/ AddExpense \/ VoidExpense
Spec == Init /\ [][Next]_ledgerVars
-----------------------------------------------------------------------------
(* FinanceRepository *)
SumOf(S) == SumFunction([x \in S |-> x.amount])
FirstDay == Min(Days)
LastDay == Max(Days)

\* Mutant: the end of a period is its last midnight.
EndsAtMidnight(s, e) == {i \in incomes : s <= i.day /\ (i.day < e \/ (i.day = e /\ i.time = 0))}

\* _start and _end_exclusive: from the first midnight to the one after the last day.
IncomeIn(s, e) == {i \in incomes : s <= i.day /\ i.day < e + 1}

Counted == {e \in expenses : e.status = "APPROVED"}
ExpensesIn(s, e) == {x \in Counted : s <= x.day /\ x.day <= e}

\* Rows sorted, by a query or in Python, in a total order: before[x] are the rows that come
\* before x, and the k-th row is the one that k - 1 others come before.
InOrder(before) ==
    [k \in 1..Cardinality(DOMAIN before) |-> CHOOSE x \in DOMAIN before : Cardinality(before[x]) = k - 1]

\* Newest first, ids breaking ties: the rows of S that each query puts before x.
NewerIncomes(S) == [x \in S |-> {y \in S : \/ y.day > x.day
                                           \/ y.day = x.day /\ y.time > x.time
                                           \/ y.day = x.day /\ y.time = x.time /\ y.id > x.id}]
NewerExpenses(S) == [x \in S |-> {y \in S : y.day > x.day \/ (y.day = x.day /\ y.id > x.id)}]
IncomeQuery(s, e) == InOrder(NewerIncomes(IncomeIn(s, e)))
ExpenseQuery(s, e) == InOrder(NewerExpenses(ExpensesIn(s, e)))

IncomeBefore(d) == SumOf({i \in incomes : i.day < d})
ExpensesBefore(d) == SumOf({x \in Counted : x.day < d})
-----------------------------------------------------------------------------
(* FinanceService *)
Limit(seq, n) == SubSeq(seq, 1, IF n < Len(seq) THEN n ELSE Len(seq))
EndOfDay == Max(Times) + 1

\* _as_datetime: an expense comes at the end of its day.
ExpenseEntry(x) == <<x.day, EndOfDay, x.id, -x.amount>>

IncomeEntry(i) == <<i.day, i.time, i.id, i.amount>>

\* _entries: <<day, time, id, signed amount>>, sorted by (date, id), newest first.
NewerEntries(S) == [x \in S |-> {y \in S : \/ y[1] > x[1]
                                           \/ y[1] = x[1] /\ y[2] > x[2]
                                           \/ y[1] = x[1] /\ y[2] = x[2] /\ y[3] > x[3]}]
Merged(ins, outs) == {IncomeEntry(i) : i \in ToSet(ins)} \union {ExpenseEntry(x) : x \in ToSet(outs)}
Entries(ins, outs) == InOrder(NewerEntries(Merged(ins, outs)))

WholeLedger(s, e) == Entries(IncomeQuery(s, e), ExpenseQuery(s, e))

\* Mutant: each source gives a page's worth of rows, wherever the page starts.
ShortWindow(offset, size) == size

\* get_ledger_page: so many rows of each source are merged.
Window(offset, size) == offset + size
LedgerPage(s, e, offset, size) ==
    LET window == Window(offset, size)
        merged == Entries(Limit(IncomeQuery(s, e), window), Limit(ExpenseQuery(s, e), window))
    IN SubSeq(merged, offset + 1, IF offset + size < Len(merged) THEN offset + size ELSE Len(merged))

Summary == [income |-> SumOf(incomes), expenses |-> SumOf(Counted),
            balance |-> SumOf(incomes) - SumOf(Counted)]
-----------------------------------------------------------------------------
(* LedgerService: <<day, credit, debit, balance>>, the opening balance first. *)
Opening(s) == IncomeBefore(s) - ExpensesBefore(s)

\* The rows as they are merged: first the incomes, then the expenses, each newest first.
Listed(s, e) ==
    [k \in 1..Len(IncomeQuery(s, e)) |-> <<IncomeQuery(s, e)[k].day, IncomeQuery(s, e)[k].amount, 0>>]
      \o [k \in 1..Len(ExpenseQuery(s, e)) |-> <<ExpenseQuery(s, e)[k].day, 0, ExpenseQuery(s, e)[k].amount>>]

\* Python's sort is stable: rows of one day stay in the order they were listed.
Earlier(listed) == [k \in DOMAIN listed |-> {j \in DOMAIN listed : \/ listed[j][1] < listed[k][1]
                                                                   \/ listed[j][1] = listed[k][1] /\ j < k}]
Rows(s, e) == LET order == InOrder(Earlier(Listed(s, e)))
              IN [k \in DOMAIN order |-> Listed(s, e)[order[k]]]

\* The running balance.
GenerateLedger(s, e) ==
    LET rows == Rows(s, e)
        balance[k \in 0..Len(rows)] ==
            IF k = 0 THEN Opening(s) ELSE balance[k - 1] + rows[k][2] - rows[k][3]
    IN <<<<s, 0, 0, Opening(s)>>>>
         \o [k \in 1..Len(rows) |-> <<rows[k][1], rows[k][2], rows[k][3], balance[k]>>]

Closing(s, e) == Last(GenerateLedger(s, e))[4]
-----------------------------------------------------------------------------
(* FinanceReportService and ExpenseService.budget_status *)
Month(d) == (d - 1) \div MonthLength
MonthStart(m) == m * MonthLength + 1
MonthEnd(m) == (m + 1) * MonthLength

Monthly(m) ==
    LET ins == IncomeIn(MonthStart(m), MonthEnd(m))
        outs == ExpensesIn(MonthStart(m), MonthEnd(m))
        cats == {x.category : x \in outs}
    IN [income |-> SumOf(ins), expenses |-> SumOf(outs), net |-> SumOf(ins) - SumOf(outs),
        breakdown |-> [c \in cats |-> SumOf({x \in outs : x.category = c})]]

BudgetLine(m, c) ==
    LET in == {x \in expenses : MonthStart(m) <= x.day /\ x.day <= MonthEnd(m) /\ x.category = c}
        spent == SumOf({x \in in : x.status = "APPROVED"})
        budget == IF c \in DOMAIN BudgetOf THEN BudgetOf[c] ELSE -1
    IN [spent |-> spent, pending |-> SumOf({x \in in : x.status = "PENDING"}), budget |-> budget,
        over |-> budget >= 0 /\ spent > budget]

\* A category with neither a budget nor an expense has no line.
BudgetLines(m) == {c \in Categories : LET l == BudgetLine(m, c)
                                      IN l.budget >= 0 \/ l.spent > 0 \/ l.pending > 0}
TotalSpent(m) == SumFunction([c \in BudgetLines(m) |-> BudgetLine(m, c).spent])
-----------------------------------------------------------------------------
(* Properties *)

Periods == {p \in Days \X Days : p[1] <= p[2]}
Whole == Cardinality(incomes \union Counted)

\* The tables hold rows with distinct ids.
TypeOK == /\ incomes \subseteq Income /\ expenses \subseteq Expense
          /\ \A x, y \in incomes \union expenses : x.id = y.id => x = y

\* A page, merged from the first rows of each table, is that part of the whole merged
\* ledger, wherever it starts and however long it is.
PagesMakeTheLedger == \A p \in Periods, offset \in 0..Whole, size \in 1..(Whole + 1) :
    LET all == WholeLedger(p[1], p[2])
        end == IF offset + size < Len(all) THEN offset + size ELSE Len(all)
    IN LedgerPage(p[1], p[2], offset, size) = SubSeq(all, offset + 1, end)

\* The ledger of a period closes where that of the next day opens, and so it stands after
\* the last row of each day; the ledger of all days closes at the balance of the summary;
\* and each month's net is the difference of its opening and closing balances, its
\* expenses what the budget page says was spent.
DaysEndRight(s, e) ==
    LET ledger == GenerateLedger(s, e)
    IN \A k \in 1..Len(ledger) : (k < Len(ledger) => ledger[k][1] < ledger[k + 1][1])
                                    => ledger[k][4] = Opening(ledger[k][1] + 1)
BooksAgree ==
    /\ \A p \in Periods : Closing(p[1], p[2]) = Opening(p[2] + 1) /\ DaysEndRight(p[1], p[2])
    /\ Closing(FirstDay, LastDay) = Summary.balance
    /\ \A m \in {Month(d) : d \in Days} :
         /\ Monthly(m).net = Closing(MonthStart(m), MonthEnd(m)) - Opening(MonthStart(m))
         /\ Monthly(m).expenses = TotalSpent(m)
=============================================================================
