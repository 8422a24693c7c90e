------------------------------- MODULE Inventory -------------------------------
(***************************************************************************)
(* Stock and valuables: InventoryService in services/inventory_service.py. *)
(* A movement (purchase, donation in kind, usage, stock-take, write-off)   *)
(* changes the quantity of an item and records the balance it leaves.      *)
(*                                                                         *)
(* A handler loads the item, computes in Python from what it loaded and    *)
(* commits: an UPDATE of the columns it changed in its copy, which waits   *)
(* for the row's lock, then an INSERT, so movements of one item get their  *)
(* ids in the order of their commits.  Nothing locks the item from its     *)
(* load to its UPDATE.  A request that fails or dies before its commit     *)
(* leaves nothing; it is a request that stays where it is.                 *)
(*                                                                         *)
(* Quantities and unit costs count the last decimal place of their columns *)
(* and a value counts their product.  Left out: the columns that are only  *)
(* text; the expense of a purchase, inserted by the same commit (module    *)
(* Expenses); whether the seva and festival of a usage exist.              *)
(***************************************************************************)
EXTENDS Integers, FiniteSets, Columns

CONSTANTS Requests, Items, Names,
          Forms,       \* the forms that are submitted
          Stocked,     \* the forms of the items there are from the start
          YearLength,  \* days in a year
          MaxTries,    \* 3 in the code
          NoItem, NoForm

Kinds == {"CONSUMABLE", "ASSET"}
Conditions == {"GOOD", "DAMAGED"}
Ops == {"create", "update", "delete", "verify",
        "purchase", "donation", "usage", "adjustment", "writeoff"}
MoveOps == {"purchase", "donation", "usage", "adjustment", "writeoff"}

\* What a form says, whatever its operation: "quantity" is the opening stock of a
\* new item and the counted stock of a stock-take, "worth" a total cost or value.
\* "set" the fields an update sends.  A new item's id is found when it is inserted.
Form == [op : Ops, item : Items, name : Names, kind : Kinds, active : BOOLEAN,
         quantity : Nat, worth : Nat, day : Nat \ {0}, condition : Conditions,
         set : SUBSET {"name", "active", "condition"}]

\* The numbers a schema lets through: only a count and an opening stock may be 0.
Accepted(f) == f.op \in MoveOps \ {"adjustment"} => f.quantity > 0

ASSUME InventoryAssumption ==
    /\ Forms \subseteq Form /\ \A f \in Forms : Accepted(f)
    /\ Stocked \subseteq {f \in Form : f.op = "create"}
    /\ \A f, g \in Stocked : f.item = g.item => f = g
    /\ YearLength \in Nat \ {0} /\ MaxTries \in Nat \ {0}
    /\ IsFiniteSet(Requests) /\ IsFiniteSet(Items)

Row == [name : Names, kind : Kinds, active : BOOLEAN, quantity : Nat, avg : Nat,
        verified : Nat, condition : Conditions]
Movement == [id : Nat, item : Items, type : {"PURCHASE", "DONATION_IN", "USAGE", "ADJUSTMENT", "WRITE_OFF"},
             quantity : Int, balance : Nat, cost : Nat, day : Nat, receipt : Nat, by : Requests \union {NoForm}]
Check == [item : Items, day : Nat, condition : Conditions, by : Requests]

ASSUME InventoryMarks == NoItem \notin Row /\ NoForm \notin Form /\ NoForm \notin Requests

VARIABLES
    item,       \* the rows of inventory_items; verified 0 stands for None
    movements,  \* stock_movements; receipt 0 stands for None
    lastId,     \* their sequence
    checks,     \* asset_verifications
    request,    \* where each request is, with what it has loaded
    gone,       \* history: items deleted
    raced,      \* history: items moved by a request that had loaded another quantity
    lost        \* history: receipts deleted with their item, by year

inventoryVars == <<item, movements, lastId, checks, request, gone, raced, lost>>

Idle == [step |-> "idle"]
Busy == [step : {"loaded", "named", "looked", "numbered", "again", "done", "refused"}, form : Form,
         saw : Row \union {NoItem}, tries : Nat, number : Nat]

HalfUp(n, d) == (2 * n + d) \div (2 * d)
YearOf(day) == day \div YearLength
Receipts(y) == {m \in movements : m.receipt # 0 /\ YearOf(m.day) = y}
Of(i) == {m \in movements : m.item = i}

\* Mutant: the opening stock has no movement.
Unrecorded(f, i, id, r) == {}

\* A row as create_item makes it, and its opening movement.
Made(f) == [name |-> f.name, kind |-> f.kind, active |-> TRUE, quantity |-> f.quantity,
            avg |-> IF f.quantity > 0 THEN f.worth ELSE 0, verified |-> 0, condition |-> f.condition]
Opening(f, i, id, r) ==
    IF f.quantity = 0 THEN {}
    ELSE {[id |-> id, item |-> i, type |-> "ADJUSTMENT", quantity |-> f.quantity,
           balance |-> f.quantity, cost |-> f.worth, day |-> f.day, receipt |-> 0, by |-> r]}

Init ==
    /\ item = [i \in Items |-> IF \E f \in Stocked : f.item = i
                               THEN Made(CHOOSE f \in Stocked : f.item = i) ELSE NoItem]
    /\ movements = UNION {Opening(f, f.item, 0, NoForm) : f \in Stocked}
    /\ lastId = 0 /\ checks = {}
    /\ request = [r \in Requests |-> Idle]
    /\ gone = {} /\ raced = {} /\ lost = [y \in {YearOf(f.day) : f \in Forms} |-> 0]
-----------------------------------------------------------------------------
(* Requests up to their commit *)

\* _unique_name: an active item of that kind has the name.
Clash(name, kind) == \E i \in Items : item[i] # NoItem /\ item[i].active
                                      /\ item[i].name = name /\ item[i].kind = kind

\* Mutant: a usage does not look at what is in stock.
EnoughForOthers(f, row) ==
    CASE f.op \in {"purchase", "donation", "usage"} -> row.active
      [] f.op = "adjustment" -> row.active /\ f.quantity # row.quantity
      [] f.op = "writeoff" -> row.active /\ f.quantity <= row.quantity
      [] f.op = "verify" -> row.kind = "ASSET"
      [] OTHER -> TRUE

\* The checks of _active, _enough and of each operation, on the row as loaded.
Allowed(f, row) ==
    CASE f.op \in {"purchase", "donation"} -> row.active
      [] f.op = "usage" -> row.active /\ row.kind # "ASSET" /\ f.quantity <= row.quantity
      [] f.op = "adjustment" -> row.active /\ f.quantity # row.quantity
      [] f.op = "writeoff" -> row.active /\ f.quantity <= row.quantity
      [] f.op = "verify" -> row.kind = "ASSET"
      [] OTHER -> TRUE

To(r, fields) == request' = [request EXCEPT ![r] = fields]
NothingWritten == UNCHANGED <<item, movements, lastId, checks, gone, raced, lost>>

\* get_item, or the _unique_name of create_item.
Load(r) == \E f \in Forms :
    LET row == item[f.item]
        ok == IF f.op = "create" THEN ~Clash(f.name, f.kind)
              ELSE row # NoItem /\ Allowed(f, row)
    IN /\ request[r] = Idle
       /\ To(r, [step |-> IF ok THEN "loaded" ELSE "refused", form |-> f,
                 saw |-> IF f.op = "create" THEN NoItem ELSE row, tries |-> 0, number |-> 0])
       /\ NothingWritten

\* update_item looks for the name when it is a new one.
CheckName(r) ==
    LET q == request[r]
    IN /\ q.step = "loaded" /\ q.form.op = "update"
       /\ To(r, [q EXCEPT !.step = IF /\ "name" \in q.form.set /\ q.form.name # q.saw.name
                                      /\ Clash(q.form.name, q.saw.kind)
                                   THEN "refused" ELSE "named"])
       /\ NothingWritten

\* delete_item looks for a movement.
LookForHistory(r) ==
    LET q == request[r]
    IN /\ q.step = "loaded" /\ q.form.op = "delete"
       /\ To(r, [q EXCEPT !.step = IF Of(q.form.item) = {} THEN "looked" ELSE "refused"])
       /\ NothingWritten

\* Mutant: the bump counts twice.
FarReceipt(y, bump) == Cardinality(Receipts(y)) + 1 + 2 * bump

\* _next_receipt_number
NextReceipt(y, bump) == Cardinality(Receipts(y)) + 1 + bump

NumberReceipt(r) ==
    LET q == request[r]
    IN /\ q.step = "loaded" /\ q.form.op = "donation"
       /\ To(r, [q EXCEPT !.step = "numbered", !.number = NextReceipt(YearOf(q.form.day), q.tries)])
       /\ NothingWritten

\* Mutant: the movement of the lost attempt is kept, without a receipt.
ReceiptTakenKept(r) ==
    LET q == request[r]
        f == q.form
    IN /\ q.step = "numbered" /\ item[f.item] # NoItem
       /\ \E m \in Receipts(YearOf(f.day)) : m.receipt = q.number
       /\ To(r, [q EXCEPT !.tries = @ + 1, !.step = "again"])
       /\ movements' = movements \union
            {[id |-> lastId + 1, item |-> f.item, type |-> "DONATION_IN", quantity |-> f.quantity,
              balance |-> q.saw.quantity + f.quantity, cost |-> 0, day |-> f.day, receipt |-> 0, by |-> r]}
       /\ lastId' = lastId + 1
       /\ UNCHANGED <<item, checks, gone, raced, lost>>

\* The commit met the unique receipt_number: rolled back, and tried again with the
\* item loaded anew, unless that was the last attempt.
ReceiptTaken(r) ==
    LET q == request[r]
    IN /\ q.step = "numbered" /\ item[q.form.item] # NoItem
       /\ \E m \in Receipts(YearOf(q.form.day)) : m.receipt = q.number
       /\ To(r, [q EXCEPT !.tries = @ + 1, !.step = "again"])
       /\ NothingWritten

Reload(r) ==
    LET q == request[r]
        row == item[q.form.item]
    IN /\ q.step = "again"
       /\ To(r, [q EXCEPT !.saw = row,
                          !.step = IF row # NoItem /\ Allowed(q.form, row) /\ q.tries < MaxTries
                                   THEN "loaded" ELSE "refused"])
       /\ NothingWritten
-----------------------------------------------------------------------------
(* Commits *)

\* Bound: a new item takes an id of Items that no item ever had.
CommitCreate(r) == \E i \in Items :
    LET q == request[r]
        f == q.form
    IN /\ q.step = "loaded" /\ f.op = "create" /\ item[i] = NoItem /\ i \notin gone
       /\ item' = [item EXCEPT ![i] = Made(f)]
       /\ movements' = movements \union Opening(f, i, lastId + 1, r)
       /\ lastId' = lastId + 1
       /\ To(r, [q EXCEPT !.step = "done", !.form = [f EXCEPT !.item = i]])
       /\ UNCHANGED <<checks, gone, raced, lost>>

CommitUpdate(r) ==
    LET q == request[r]
        i == q.form.item
        new == [c \in DOMAIN q.saw |-> IF c \in q.form.set THEN q.form[c] ELSE q.saw[c]]
    IN /\ q.step = "named" /\ item[i] # NoItem
       /\ item' = [item EXCEPT ![i] = Written(item[i], q.saw, new)]
       /\ To(r, [q EXCEPT !.step = "done"])
       /\ UNCHANGED <<movements, lastId, checks, gone, raced, lost>>

\* The ORM and the foreign keys delete whatever movements and verifications there
\* are by now.
CommitDelete(r) ==
    LET q == request[r]
        i == q.form.item
    IN /\ q.step = "looked" /\ item[i] # NoItem
       /\ item' = [item EXCEPT ![i] = NoItem]
       /\ movements' = movements \ Of(i)
       /\ checks' = {c \in checks : c.item # i}
       /\ gone' = gone \union {i}
       /\ lost' = [y \in DOMAIN lost |-> lost[y] + Cardinality(Receipts(y) \intersect Of(i))]
       /\ To(r, [q EXCEPT !.step = "done"])
       /\ UNCHANGED <<lastId, raced>>

CommitVerify(r) ==
    LET q == request[r]
        f == q.form
        new == [q.saw EXCEPT !.condition = f.condition,
                             !.verified = IF @ = 0 \/ f.day >= @ THEN f.day ELSE @]
    IN /\ q.step = "loaded" /\ f.op = "verify" /\ item[f.item] # NoItem
       /\ item' = [item EXCEPT ![f.item] = Written(item[f.item], q.saw, new)]
       /\ checks' = checks \union {[item |-> f.item, day |-> f.day, condition |-> f.condition, by |-> r]}
       /\ To(r, [q EXCEPT !.step = "done"])
       /\ UNCHANGED <<movements, lastId, gone, raced, lost>>

\* _reaverage, in the copy.
Average(row, quantity, worth) == HalfUp(row.quantity * row.avg + worth, row.quantity + quantity)

\* _move, in the copy and in the new row of stock_movements, and the UPDATE and the
\* INSERT of the commit.
Move(r, type, quantity, cost, avg, active) ==
    LET q == request[r]
        i == q.form.item
        new == [q.saw EXCEPT !.quantity = @ + quantity, !.avg = avg, !.active = active]
    IN /\ item[i] # NoItem
       /\ item' = [item EXCEPT ![i] = Written(item[i], q.saw, new)]
       /\ movements' = movements \union
            {[id |-> lastId + 1, item |-> i, type |-> type, quantity |-> quantity,
              balance |-> new.quantity, cost |-> cost, day |-> q.form.day, receipt |-> q.number, by |-> r]}
       /\ lastId' = lastId + 1
       /\ raced' = IF item[i].quantity = q.saw.quantity THEN raced ELSE raced \union {i}
       /\ To(r, [q EXCEPT !.step = "done"])
       /\ UNCHANGED <<checks, gone, lost>>

CommitPurchase(r) ==
    LET q == request[r]
        f == q.form
    IN /\ q.step = "loaded" /\ f.op = "purchase"
       /\ Move(r, "PURCHASE", f.quantity, HalfUp(f.worth, f.quantity),
               Average(q.saw, f.quantity, f.worth), q.saw.active)

\* The insertion under a free receipt number.
CommitDonation(r) ==
    LET q == request[r]
        f == q.form
    IN /\ q.step = "numbered"
       /\ \A m \in Receipts(YearOf(f.day)) : m.receipt # q.number
       /\ Move(r, "DONATION_IN", f.quantity, HalfUp(f.worth, f.quantity),
               IF f.worth > 0 THEN Average(q.saw, f.quantity, f.worth) ELSE q.saw.avg, q.saw.active)

CommitUsage(r) ==
    LET q == request[r]
    IN /\ q.step = "loaded" /\ q.form.op = "usage"
       /\ Move(r, "USAGE", -q.form.quantity, q.saw.avg, q.saw.avg, q.saw.active)

CommitAdjustment(r) ==
    LET q == request[r]
    IN /\ q.step = "loaded" /\ q.form.op = "adjustment"
       /\ Move(r, "ADJUSTMENT", q.form.quantity - q.saw.quantity, q.saw.avg, q.saw.avg, q.saw.active)

CommitWriteOff(r) ==
    LET q == request[r]
        last == q.saw.kind = "ASSET" /\ q.saw.quantity = q.form.quantity
    IN /\ q.step = "loaded" /\ q.form.op = "writeoff"
       /\ Move(r, "WRITE_OFF", -q.form.quantity, q.saw.avg, q.saw.avg, q.saw.active /\ ~last)

\* The UPDATE or DELETE finds no row: an error, rolled back.
FindGone(r) ==
    LET q == request[r]
    IN /\ q.step \in {"loaded", "named", "looked", "numbered"} /\ q.form.op # "create"
       /\ item[q.form.item] = NoItem
       /\ To(r, [q EXCEPT !.step = "refused"])
       /\ NothingWritten

Serve(r) == \/ Load(r) \/ CheckName(r) \/ LookForHistory(r) \/ NumberReceipt(r)
            \/ ReceiptTaken(r) \/ Reload(r) \/ FindGone(r)
            \/ CommitCreate(r) \/ CommitUpdate(r) \/ CommitDelete(r) \/ CommitVerify(r)
            \/ CommitPurchase(r) \/ CommitDonation(r) \/ CommitUsage(r)
            \/ CommitAdjustment(r) \/ CommitWriteOff(r)

Next == \E r \in Requests : Serve(r)
Spec == Init /\ [][Next]_inventoryVars
-----------------------------------------------------------------------------
(* Properties *)

\* Every variable has the values its columns can hold.
TypeOK ==
    /\ item \in [Items -> Row \union {NoItem}]
    /\ movements \subseteq Movement
    /\ lastId \in Nat
    /\ checks \subseteq Check
    /\ request \in [Requests -> {Idle} \union Busy]
    /\ gone \subseteq Items /\ raced \subseteq Items
    /\ lost \in [{YearOf(f.day) : f \in Forms} -> Nat]

Existing == {i \in Items : item[i] # NoItem}
Last(i, m) == m \in Of(i) /\ \A n \in Of(i) : n.id <= m.id

\* However movements interleave, the stock of an item is the balance its last movement
\* left; without a movement nothing is in stock.
StockIsLastBalance == \A i \in Existing :
    /\ \A m \in Of(i) : Last(i, m) => m.balance = item[i].quantity
    /\ Of(i) = {} => item[i].quantity = 0

\* The movements of an item, in the order of their ids, each start from the balance the
\* one before it left: they add up to the stock.  Where no request was overtaken by
\* another between its load and its commit.
AddsUp(i) == \A m \in Of(i) :
    \/ /\ \A n \in Of(i) : n.id >= m.id
       /\ m.balance = m.quantity
    \/ \E n \in Of(i) : /\ n.id < m.id /\ m.balance = n.balance + m.quantity
                        /\ \A k \in Of(i) : k.id <= n.id \/ k.id >= m.id
HistoryAddsUp == \A i \in Existing \ raced : AddsUp(i)

\* What services/inventory_service.py:3 says, races or not.
HistoryAlwaysAddsUp == \A i \in Existing : AddsUp(i)

\* The numbers of a year's receipts never run further ahead of their count than the
\* attempts of one donation reach, but for receipts deleted with an item: a donation
\* that nobody races finds a free number.
ReceiptWithinReach == \A y \in DOMAIN lost : \A m \in Receipts(y) :
    m.receipt <= Cardinality(Receipts(y)) + lost[y] + MaxTries - 1

\* A request answered with success made exactly one movement, whatever its retries, unless
\* the item was deleted since, movements and all; one that was refused made none.
AnsweredOnce == \A r \in Requests :
    LET made == {m \in movements : m.by = r}
        q == request[r]
    IN IF q.step = "done" /\ q.form.op \in MoveOps
       THEN q.form.item \in gone \/ Cardinality(made) = 1
       ELSE q.step # "done" => made = {}
-----------------------------------------------------------------------------
(* The inductive invariant behind the properties above *)

\* Movements are numbered in the order of their commits, an item's in a row that has
\* an end; an item that is gone has none.
MovementsInOrder ==
    /\ IsFiniteSet(movements)
    /\ \A m \in movements : m.id <= lastId
    /\ \A i \in Items : /\ item[i] = NoItem => Of(i) = {}
                        /\ Of(i) # {} => \E m \in Of(i) : Last(i, m)
                        /\ \A m, n \in Of(i) : m.id = n.id => m = n

\* What a request has loaded passed its checks, and how far its number may reach.
Served(q) ==
    /\ Accepted(q.form) /\ YearOf(q.form.day) \in DOMAIN lost
    /\ q.form.op # "donation" => q.number = 0
    /\ q.step = "named" => q.form.op = "update"
    /\ q.step = "looked" => q.form.op = "delete"
    /\ q.step \in {"numbered", "again"} => q.form.op = "donation"
    /\ q.step \in {"loaded", "named", "looked", "numbered"} /\ q.form.op # "create" =>
           q.saw \in Row /\ Allowed(q.form, q.saw)
    /\ q.step \in {"loaded", "numbered"} => q.tries < MaxTries
    /\ q.step = "numbered" =>
           LET y == YearOf(q.form.day)
           IN q.number # 0 /\ q.number <= Cardinality(Receipts(y)) + lost[y] + 1 + q.tries
RequestsServed == \A r \in Requests : request[r] # Idle => Served(request[r])

\* The movements of a request are of the item it asked for.
MovedAsAsked == \A m \in movements : m.by # NoForm =>
    request[m.by] # Idle /\ m.item = request[m.by].form.item

IInv == /\ TypeOK /\ MovementsInOrder /\ RequestsServed /\ MovedAsAsked
        /\ StockIsLastBalance /\ HistoryAddsUp /\ ReceiptWithinReach /\ AnsweredOnce
=============================================================================
