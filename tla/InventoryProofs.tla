--------------------------- MODULE InventoryProofs ---------------------------
(***************************************************************************)
(* Theorems about Inventory, for every set of requests, items and forms,   *)
(* every length of a year and every number of attempts.                    *)
(*                                                                         *)
(* First what a request writes: each action is one of five shapes.  Then   *)
(* one lemma for each part of the inductive invariant; then the theorems.  *)
(***************************************************************************)
EXTENDS Inventory, FiniteSetTheorems, TLAPS

\* The receipts of a year, those deleted with their items included.
Issued(y) == Cardinality(Receipts(y)) + lost[y]

\* Request r gets to q; what is asked of an answered one is of item i.
Goes(r, q) == /\ request[r] # Idle /\ request[r] \in Busy /\ request[r].step # "done"
              /\ q \in Busy /\ q.step = "done" /\ Served(q)
              /\ request' = [request EXCEPT ![r] = q]

\* It goes on without writing.
Handled(r) == /\ request[r] # Idle => request[r].step # "done"
              /\ \E q \in Busy : /\ request' = [request EXCEPT ![r] = q]
                                 /\ q.step # "done" /\ Served(q)
              /\ UNCHANGED <<item, movements, lastId, checks, gone, raced, lost>>

\* It makes an item, with its opening movement.
Created(r, i) ==
    \E q \in Busy, row \in Row :
        /\ Goes(r, q) /\ q.form.op = "create" /\ q.form.item = i
        /\ i \in Items /\ item[i] = NoItem /\ i \notin gone
        /\ item' = [item EXCEPT ![i] = row]
        /\ lastId' = lastId + 1
        /\ \/ row.quantity = 0 /\ UNCHANGED movements
           \/ \E m \in Movement : /\ m.id = lastId + 1 /\ m.item = i /\ m.by = r /\ m.receipt = 0
                                  /\ m.quantity = row.quantity /\ m.balance = row.quantity
                                  /\ movements' = movements \union {m}
        /\ UNCHANGED <<checks, gone, raced, lost>>

\* It changes an item otherwise than in its quantity.
Edited(r, i) ==
    \E q \in Busy, row \in Row :
        /\ Goes(r, q) /\ q.form.op \notin MoveOps
        /\ i \in Items /\ item[i] # NoItem
        /\ item' = [item EXCEPT ![i] = row] /\ row.quantity = item[i].quantity
        /\ checks' \subseteq Check
        /\ UNCHANGED <<movements, lastId, gone, raced, lost>>

\* It deletes an item and its movements.
Removed(r, i) ==
    \E q \in Busy :
        /\ Goes(r, q) /\ q.form.op = "delete"
        /\ i \in Items /\ item[i] # NoItem
        /\ item' = [item EXCEPT ![i] = NoItem]
        /\ movements' = movements \ Of(i)
        /\ checks' \subseteq Check
        /\ gone' = gone \union {i}
        /\ lost' = [y \in DOMAIN lost |-> lost[y] + Cardinality(Receipts(y) \intersect Of(i))]
        /\ UNCHANGED <<lastId, raced>>

\* It moves stock: the item keeps the balance of the movement.
Moved(r, i) ==
    \E q \in Busy, row \in Row, m \in Movement :
        /\ Goes(r, q) /\ q.form.op \in MoveOps /\ q.form.item = i
        /\ i \in Items /\ item[i] # NoItem
        /\ m.id = lastId + 1 /\ m.item = i /\ m.by = r /\ m.balance = row.quantity
        /\ m.receipt # 0 => /\ YearOf(m.day) \in DOMAIN lost
                            /\ m.receipt <= Issued(YearOf(m.day)) + MaxTries
        /\ item' = [item EXCEPT ![i] = row]
        /\ movements' = movements \union {m}
        /\ lastId' = lastId + 1
        /\ raced' \in {raced, raced \union {i}}
        /\ i \notin raced' => m.balance = item[i].quantity + m.quantity
        /\ UNCHANGED <<checks, gone, lost>>
-----------------------------------------------------------------------------
(* Arithmetic and rows *)

\* Rounding half up gives a natural number.
LEMMA HalfUpType == ASSUME NEW n \in Nat, NEW d \in Nat \ {0} PROVE HalfUp(n, d) \in Nat
<1> DEFINE a == 2 * n + d
           b == 2 * d
<1>1. a \in Nat /\ b \in Nat \ {0}
  OBVIOUS
<1> HIDE DEF a, b
<1>2. a \div b \in Nat
  BY <1>1
<1> QED BY <1>2 DEF HalfUp, a, b

\* The UPDATE of a row leaves a row, with the new quantity if there is one.
LEMMA WrittenRow ==
    ASSUME NEW now \in Row, NEW saw \in Row, NEW new \in Row
    PROVE  /\ Written(now, saw, new) \in Row
           /\ Written(now, saw, new).quantity =
                  IF new.quantity = saw.quantity THEN now.quantity ELSE new.quantity
BY DEF Written, Row

\* Counting receipts gives natural numbers.
LEMMA IssuedType ==
    ASSUME IInv, NEW y
    PROVE  /\ IsFiniteSet(Receipts(y)) /\ Cardinality(Receipts(y)) \in Nat
           /\ y \in DOMAIN lost => lost[y] \in Nat /\ Issued(y) \in Nat
<1>1. IsFiniteSet(movements) /\ lost \in [DOMAIN lost -> Nat]
  BY DEF IInv, MovementsInOrder, TypeOK
<1>2. IsFiniteSet(Receipts(y))
  BY <1>1, FS_Subset DEF Receipts
<1>3. Cardinality(Receipts(y)) \in Nat
  BY <1>2, FS_CardinalityType
<1> QED BY <1>1, <1>2, <1>3 DEF Issued

\* What is known of a request that is on its way.
LEMMA Waiting ==
    ASSUME IInv, NEW r \in Requests, request[r] # Idle
    PROVE  /\ request[r] \in Busy /\ Served(request[r])
           /\ request[r].form \in Form /\ request[r].form.item \in Items
BY DEF IInv, TypeOK, RequestsServed, Busy, Form

\* A request that stands at a step is not idle.
LEMMA Standing ==
    ASSUME NEW r, request[r].step \in {"loaded", "named", "looked", "numbered", "again"}
    PROVE  request[r] # Idle
BY DEF Idle
-----------------------------------------------------------------------------
(* What a request writes *)

LEMMA LoadEffect == ASSUME IInv, NEW r \in Requests, Load(r) PROVE Handled(r)
<1>1. PICK f \in Forms : Load(r)!(f)
  BY DEF Load
<1> DEFINE row == item[f.item]
           ok == IF f.op = "create" THEN ~Clash(f.name, f.kind) ELSE row # NoItem /\ Allowed(f, row)
           saw == IF f.op = "create" THEN NoItem ELSE row
           q == [step |-> IF ok THEN "loaded" ELSE "refused", form |-> f, saw |-> saw, tries |-> 0, number |-> 0]
<1>2. f \in Form /\ Accepted(f) /\ f.item \in Items
  BY InventoryAssumption DEF InventoryAssumption, Form
<1>3. saw \in Row \union {NoItem}
  BY <1>2 DEF IInv, TypeOK
<1>4. YearOf(f.day) \in DOMAIN lost
  BY DEF IInv, TypeOK
<1>5. 0 < MaxTries
  BY InventoryAssumption DEF InventoryAssumption
<1>6. q \in Busy /\ q.step # "done"
  BY <1>2, <1>3 DEF Busy
<1>7. q.step = "loaded" /\ f.op # "create" => saw \in Row /\ Allowed(f, saw)
  BY <1>3
<1>8. Served(q)
  <2> HIDE DEF ok, saw, row
  <2> QED BY <1>2, <1>4, <1>5, <1>7 DEF Served
<1>9. request' = [request EXCEPT ![r] = q] /\ request[r] = Idle
  BY <1>1 DEF To
<1> QED BY <1>1, <1>6, <1>8, <1>9 DEF Handled, NothingWritten

\* A request that goes on from q to p, with what it has loaded and asked for.
LEMMA GoesOn ==
    ASSUME IInv, NEW r \in Requests,
           request[r].step \in {"loaded", "named", "looked", "numbered", "again"},
           NEW p \in Busy, p.step # "done", Served(p), To(r, p), NothingWritten
    PROVE  Handled(r)
BY DEF Handled, To, NothingWritten

LEMMA LookEffect ==
    ASSUME IInv, NEW r \in Requests, CheckName(r) \/ LookForHistory(r) \/ FindGone(r)
    PROVE  Handled(r)
<1> DEFINE q == request[r]
<1>1. /\ q.step \in {"loaded", "named", "looked", "numbered"}
      /\ NothingWritten
      /\ \E s \in {"named", "looked", "refused"} :
            /\ To(r, [q EXCEPT !.step = s])
            /\ s = "named" => q.form.op = "update" /\ q.step = "loaded"
            /\ s = "looked" => q.form.op = "delete" /\ q.step = "loaded"
  BY DEF CheckName, LookForHistory, FindGone
<1>2. PICK s \in {"named", "looked", "refused"} :
            /\ To(r, [q EXCEPT !.step = s])
            /\ s = "named" => q.form.op = "update" /\ q.step = "loaded"
            /\ s = "looked" => q.form.op = "delete" /\ q.step = "loaded"
  BY <1>1
<1>3. q \in Busy /\ Served(q)
  BY <1>1, Standing, Waiting
<1> DEFINE p == [q EXCEPT !.step = s]
<1> HIDE DEF q
<1>4. p \in Busy /\ p.step = s /\ p.form = q.form /\ p.saw = q.saw /\ p.tries = q.tries /\ p.number = q.number
  BY <1>3 DEF Busy
<1> HIDE DEF p
<1>5. Served(p)
  BY <1>2, <1>3, <1>4 DEF Served
<1> USE DEF q, p
<1> QED BY <1>1, <1>2, <1>4, <1>5, GoesOn

LEMMA NumberEffect == ASSUME IInv, NEW r \in Requests, NumberReceipt(r) PROVE Handled(r)
<1> DEFINE q == request[r]
           y == YearOf(q.form.day)
           n == NextReceipt(y, q.tries)
           p == [q EXCEPT !.step = "numbered", !.number = n]
<1>1. q.step = "loaded" /\ q.form.op = "donation" /\ To(r, p) /\ NothingWritten
  BY DEF NumberReceipt
<1>2. q \in Busy /\ Served(q)
  BY <1>1, Standing, Waiting
<1> HIDE DEF q
<1>3. q.tries \in Nat /\ y \in DOMAIN lost
  BY <1>2 DEF Busy, Served
<1>4. Cardinality(Receipts(y)) \in Nat /\ lost[y] \in Nat
  BY <1>3, IssuedType
<1>5. n \in Nat \ {0} /\ n <= Cardinality(Receipts(y)) + lost[y] + 1 + q.tries
  BY <1>3, <1>4 DEF NextReceipt
<1> HIDE DEF n
<1>6. p \in Busy /\ p.step = "numbered" /\ p.form = q.form /\ p.saw = q.saw /\ p.tries = q.tries /\ p.number = n
  BY <1>2, <1>5 DEF Busy
<1> HIDE DEF p
<1>7. Served(p)
  BY <1>1, <1>2, <1>5, <1>6 DEF Served
<1> USE DEF q
<1> QED BY <1>1, <1>6, <1>7, GoesOn

LEMMA AgainEffect == ASSUME IInv, NEW r \in Requests, ReceiptTaken(r) \/ Reload(r) PROVE Handled(r)
<1> DEFINE q == request[r]
           row == item[q.form.item]
<1>1. q.step \in {"numbered", "again"} /\ NothingWritten
  BY DEF ReceiptTaken, Reload
<1>2. q \in Busy /\ Served(q) /\ q.form \in Form /\ q.form.item \in Items
  BY <1>1, Standing, Waiting
<1>3. row \in Row \union {NoItem}
  BY <1>2 DEF IInv, TypeOK
<1>4. CASE ReceiptTaken(r)
  <2> DEFINE n == q.tries + 1
             p == [q EXCEPT !.tries = n, !.step = "again"]
  <2>1. To(r, p) /\ q.step = "numbered"
    BY <1>4 DEF ReceiptTaken
  <2>2. n \in Nat
    BY <1>2 DEF Busy
  <2> HIDE DEF q, n
  <2>3. p \in Busy /\ p.step = "again" /\ p.form = q.form /\ p.saw = q.saw /\ p.number = q.number
    BY <1>2, <2>2 DEF Busy
  <2> HIDE DEF p
  <2>4. Served(p)
    BY <1>2, <2>1, <2>3 DEF Served
  <2> USE DEF q
  <2> QED BY <1>1, <2>1, <2>3, <2>4, GoesOn
<1>5. CASE Reload(r)
  <2> DEFINE ok == row # NoItem /\ Allowed(q.form, row) /\ q.tries < MaxTries
             p == [q EXCEPT !.saw = row, !.step = IF ok THEN "loaded" ELSE "refused"]
  <2>1. To(r, p) /\ q.step = "again"
    BY <1>5 DEF Reload
  <2>2. ok => row \in Row /\ Allowed(q.form, row) /\ q.tries < MaxTries
    BY <1>3
  <2> HIDE DEF q, row, ok
  <2>3. p \in Busy /\ p.step \in {"loaded", "refused"} /\ p.form = q.form /\ p.saw = row /\ p.tries = q.tries
           /\ p.number = q.number /\ (p.step = "loaded" => ok)
    BY <1>2, <1>3 DEF Busy
  <2> HIDE DEF p
  <2>4. Served(p)
    BY <1>2, <2>1, <2>2, <2>3 DEF Served
  <2> USE DEF q
  <2> QED BY <1>1, <2>1, <2>3, <2>4, GoesOn
<1> QED BY <1>4, <1>5

\* A commit answers its request.
LEMMA Answers ==
    ASSUME IInv, NEW r \in Requests, request[r].step \in {"loaded", "named", "looked", "numbered"},
           NEW p, p = [request[r] EXCEPT !.step = "done"], To(r, p)
    PROVE  Goes(r, p) /\ p.form = request[r].form
<1> DEFINE q == request[r]
<1>1. q # Idle /\ q \in Busy /\ Served(q) /\ q.step # "done"
  BY Standing, Waiting
<1>2. p = [q EXCEPT !.step = "done"] /\ request' = [request EXCEPT ![r] = p]
  BY DEF To
<1> HIDE DEF q
<1>3. p \in Busy /\ p.step = "done" /\ p.form = q.form /\ p.number = q.number
  BY <1>1, <1>2 DEF Busy
<1>4. Served(p)
  BY <1>1, <1>3 DEF Served
<1> USE DEF q
<1> QED BY <1>1, <1>2, <1>3, <1>4 DEF Goes

LEMMA MadeRow ==
    ASSUME NEW f \in Form, NEW i \in Items, NEW id \in Nat, NEW r \in Requests \union {NoForm}
    PROVE  /\ Made(f) \in Row /\ Made(f).quantity = f.quantity
           /\ f.quantity = 0 => Opening(f, i, id, r) = {}
           /\ f.quantity # 0 => \E m \in Movement :
                 /\ Opening(f, i, id, r) = {m} /\ m.id = id /\ m.item = i /\ m.by = r /\ m.receipt = 0
                 /\ m.quantity = f.quantity /\ m.balance = f.quantity
<1>1. Made(f) \in Row /\ Made(f).quantity = f.quantity
  BY DEF Made, Row, Form
<1> DEFINE m == [id |-> id, item |-> i, type |-> "ADJUSTMENT", quantity |-> f.quantity,
                 balance |-> f.quantity, cost |-> f.worth, day |-> f.day, receipt |-> 0, by |-> r]
<1>2. m \in Movement
  BY DEF Movement, Form
<1> QED BY <1>1, <1>2 DEF Opening

LEMMA CreateEffect ==
    ASSUME IInv, NEW r \in Requests, CommitCreate(r)
    PROVE  \E i \in Items : Created(r, i)
<1>1. PICK i \in Items : CommitCreate(r)!(i)
  BY DEF CommitCreate
<1> DEFINE q == request[r]
           f == q.form
           g == [f EXCEPT !.item = i]
           p == [q EXCEPT !.step = "done", !.form = g]
<1>2. /\ q.step = "loaded" /\ f.op = "create" /\ item[i] = NoItem /\ i \notin gone
      /\ item' = [item EXCEPT ![i] = Made(f)]
      /\ movements' = movements \union Opening(f, i, lastId + 1, r)
      /\ lastId' = lastId + 1
      /\ request' = [request EXCEPT ![r] = p]
      /\ UNCHANGED <<checks, gone, raced, lost>>
  BY <1>1 DEF To
<1>3. q # Idle /\ q \in Busy /\ Served(q) /\ f \in Form
  BY <1>2, Standing, Waiting
<1>4. Made(f) \in Row /\ Made(f).quantity = f.quantity
  BY <1>3, MadeRow
<1>5. \/ f.quantity = 0 /\ UNCHANGED movements
      \/ \E m \in Movement : /\ m.id = lastId + 1 /\ m.item = i /\ m.by = r /\ m.receipt = 0
                             /\ m.quantity = f.quantity /\ m.balance = f.quantity
                             /\ movements' = movements \union {m}
  <2>1. lastId + 1 \in Nat
    BY DEF IInv, TypeOK
  <2>2. CASE f.quantity = 0
    BY <1>2, <1>3, <2>1, <2>2, MadeRow
  <2>3. CASE f.quantity # 0
    BY <1>2, <1>3, <2>1, <2>3, MadeRow
  <2> QED BY <2>2, <2>3
<1>6. Goes(r, p) /\ p.form.op = "create" /\ p.form.item = i
  <2> HIDE DEF q
  <2>1. g \in Form /\ g.op = f.op /\ g.item = i /\ g.quantity = f.quantity /\ g.day = f.day
    BY <1>3 DEF Form
  <2> HIDE DEF g
  <2>2. p \in Busy /\ p.step = "done" /\ p.form = g /\ p.number = q.number
    BY <1>3, <2>1 DEF Busy
  <2> HIDE DEF p
  <2>3. Served(p)
    BY <1>2, <1>3, <2>1, <2>2 DEF Served, Accepted, MoveOps
  <2> USE DEF q, f
  <2> QED BY <1>2, <1>3, <2>1, <2>2, <2>3 DEF Goes
<1> HIDE DEF p, q, f
<1>7. Created(r, i)
  <2>1. PICK row \in Row : row = Made(f)
    BY <1>4
  <2>2. p \in Busy
    BY <1>6 DEF Goes
  <2> QED BY <1>2, <1>4, <1>5, <1>6, <2>1, <2>2 DEF Created
<1> QED BY <1>7

LEMMA EditEffect ==
    ASSUME IInv, NEW r \in Requests, CommitUpdate(r) \/ CommitVerify(r)
    PROVE  \E i \in Items : Edited(r, i)
<1> DEFINE q == request[r]
           i == q.form.item
           p == [q EXCEPT !.step = "done"]
<1>1. /\ q.step \in {"loaded", "named"} /\ q.form.op \in {"update", "verify"} /\ item[i] # NoItem
      /\ To(r, p)
      /\ UNCHANGED <<movements, lastId, gone, raced, lost>>
  <2>1. CASE CommitUpdate(r)
    <3>1. q.step = "named"
      BY <2>1 DEF CommitUpdate
    <3>2. Served(q)
      BY <3>1, Standing, Waiting
    <3> QED BY <2>1, <3>1, <3>2 DEF CommitUpdate, Served
  <2>2. CASE CommitVerify(r)
    BY <2>2 DEF CommitVerify
  <2> QED BY <2>1, <2>2
<1>2. q # Idle /\ q \in Busy /\ Served(q) /\ q.form \in Form /\ i \in Items
  BY <1>1, Standing, Waiting
<1>3. Goes(r, p) /\ p.form = q.form
  BY <1>1, Answers
<1>4. q.saw \in Row /\ item[i] \in Row
  <2>1. q.saw \in Row
    BY <1>1, <1>2 DEF Served
  <2>2. item[i] \in Row \union {NoItem}
    BY <1>2 DEF IInv, TypeOK
  <2> QED BY <1>1, <2>1, <2>2
<1>5. \E new \in Row : new.quantity = q.saw.quantity /\ item' = [item EXCEPT ![i] = Written(item[i], q.saw, new)]
  <2>1. CASE CommitUpdate(r)
    <3> DEFINE new == [c \in DOMAIN q.saw |-> IF c \in q.form.set THEN q.form[c] ELSE q.saw[c]]
    <3>1. item' = [item EXCEPT ![i] = Written(item[i], q.saw, new)]
      BY <2>1 DEF CommitUpdate
    <3>2. q.form.set \subseteq {"name", "active", "condition"}
      BY <1>2 DEF Form
    <3>3. new \in Row /\ new.quantity = q.saw.quantity
      <4> HIDE DEF q
      <4> QED BY <1>2, <1>4, <3>2 DEF Row, Form
    <3> QED BY <3>1, <3>3
  <2>2. CASE CommitVerify(r)
    <3> DEFINE v == IF q.saw.verified = 0 \/ q.form.day >= q.saw.verified THEN q.form.day ELSE q.saw.verified
               new == [q.saw EXCEPT !.condition = q.form.condition, !.verified = v]
    <3>1. item' = [item EXCEPT ![i] = Written(item[i], q.saw, new)]
      BY <2>2 DEF CommitVerify
    <3>2. v \in Nat
      BY <1>2, <1>4 DEF Row, Form
    <3>3. new \in Row /\ new.quantity = q.saw.quantity
      <4> HIDE DEF q, v
      <4> QED BY <1>2, <1>4, <3>2 DEF Row, Form
    <3> QED BY <3>1, <3>3
  <2> QED BY <2>1, <2>2
<1>6. checks' \subseteq Check
  <2>1. checks \subseteq Check
    BY DEF IInv, TypeOK
  <2>2. CASE CommitUpdate(r)
    BY <2>1, <2>2 DEF CommitUpdate
  <2>3. CASE CommitVerify(r)
    <3>1. checks' = checks \union {[item |-> i, day |-> q.form.day, condition |-> q.form.condition, by |-> r]}
      BY <2>3 DEF CommitVerify
    <3> QED BY <1>2, <2>1, <3>1 DEF Check, Form
  <2> QED BY <2>2, <2>3
<1> HIDE DEF p, q, i
<1>7. PICK new \in Row : new.quantity = q.saw.quantity /\ item' = [item EXCEPT ![i] = Written(item[i], q.saw, new)]
  BY <1>5
<1>8. PICK row \in Row : row = Written(item[i], q.saw, new) /\ row.quantity = item[i].quantity
  BY <1>4, <1>7, WrittenRow
<1> QED BY <1>1, <1>2, <1>3, <1>6, <1>7, <1>8 DEF Edited, Goes, MoveOps

LEMMA DeleteEffect ==
    ASSUME IInv, NEW r \in Requests, CommitDelete(r)
    PROVE  \E i \in Items : Removed(r, i)
<1> DEFINE q == request[r]
           i == q.form.item
           p == [q EXCEPT !.step = "done"]
<1>1. q.step = "looked" /\ item[i] # NoItem /\ To(r, p)
  BY DEF CommitDelete
<1>2. q # Idle /\ Served(q) /\ i \in Items
  BY <1>1, Standing, Waiting
<1>3. Goes(r, p) /\ p.form = q.form
  BY <1>1, Answers
<1>4. checks' \subseteq Check
  BY DEF IInv, TypeOK, CommitDelete
<1>5. q.form.op = "delete"
  BY <1>1, <1>2 DEF Served
<1>6. /\ item' = [item EXCEPT ![i] = NoItem] /\ movements' = movements \ Of(i) /\ gone' = gone \union {i}
      /\ lost' = [y \in DOMAIN lost |-> lost[y] + Cardinality(Receipts(y) \intersect Of(i))]
      /\ UNCHANGED <<lastId, raced>>
  BY DEF CommitDelete
<1> HIDE DEF q, i, p
<1> QED BY <1>1, <1>2, <1>3, <1>4, <1>5, <1>6 DEF Removed, Goes

\* What a request has loaded for a movement.
LEMMA LoadedToMove ==
    ASSUME IInv, NEW r \in Requests, request[r].step \in {"loaded", "numbered"}, request[r].form.op \in MoveOps
    PROVE  /\ request[r] # Idle /\ request[r] \in Busy /\ Served(request[r])
           /\ request[r].form \in Form /\ request[r].form.item \in Items
           /\ request[r].saw \in Row /\ Allowed(request[r].form, request[r].saw)
           /\ request[r].form.op # "adjustment" => request[r].form.quantity > 0
           /\ request[r].saw.quantity \in Nat /\ request[r].saw.avg \in Nat /\ request[r].saw.active \in BOOLEAN
           /\ request[r].form.quantity \in Nat /\ request[r].form.worth \in Nat
<1> DEFINE q == request[r]
<1>1. q # Idle /\ q \in Busy /\ Served(q) /\ q.form \in Form /\ q.form.item \in Items
  BY Standing, Waiting
<1>2. q.form.op # "create" /\ (q.form.op # "adjustment" => q.form.op \in MoveOps \ {"adjustment"})
  BY DEF MoveOps
<1>3. q.saw \in Row /\ Allowed(q.form, q.saw)
  BY <1>1, <1>2 DEF Served
<1>4. q.form.op # "adjustment" => q.form.quantity > 0
  BY <1>1, <1>2 DEF Served, Accepted
<1> HIDE DEF q
<1>5. q.saw.quantity \in Nat /\ q.saw.avg \in Nat /\ q.saw.active \in BOOLEAN
  BY <1>3 DEF Row
<1>6. q.form.quantity \in Nat /\ q.form.worth \in Nat
  BY <1>1 DEF Form
<1> USE DEF q
<1> QED BY <1>1, <1>3, <1>4, <1>5, <1>6

LEMMA MoveEffect ==
    ASSUME IInv, NEW r \in Requests, request[r].step \in {"loaded", "numbered"}, request[r].form.op \in MoveOps,
           request[r].step = "loaded" => request[r].form.op # "donation",
           NEW type \in {"PURCHASE", "DONATION_IN", "USAGE", "ADJUSTMENT", "WRITE_OFF"},
           NEW quantity \in Int \ {0}, request[r].saw.quantity + quantity \in Nat,
           NEW cost \in Nat, NEW avg \in Nat, NEW active \in BOOLEAN,
           Move(r, type, quantity, cost, avg, active)
    PROVE  \E i \in Items : Moved(r, i)
<1> DEFINE q == request[r]
           i == q.form.item
           p == [q EXCEPT !.step = "done"]
           balance == q.saw.quantity + quantity
           new == [q.saw EXCEPT !.quantity = balance, !.avg = avg, !.active = active]
           m == [id |-> lastId + 1, item |-> i, type |-> type, quantity |-> quantity,
                 balance |-> new.quantity, cost |-> cost, day |-> q.form.day, receipt |-> q.number, by |-> r]
<1>1. /\ item[i] # NoItem /\ To(r, p)
      /\ item' = [item EXCEPT ![i] = Written(item[i], q.saw, new)]
      /\ movements' = movements \union {m}
      /\ lastId' = lastId + 1
      /\ raced' = IF item[i].quantity = q.saw.quantity THEN raced ELSE raced \union {i}
      /\ UNCHANGED <<checks, gone, lost>>
  BY DEF Move
<1>2. /\ q # Idle /\ q \in Busy /\ Served(q) /\ q.form \in Form /\ i \in Items
      /\ q.saw \in Row /\ q.saw.quantity \in Nat
  BY LoadedToMove
<1>3. Goes(r, p) /\ p.form = q.form /\ p \in Busy
  BY <1>1, Answers DEF Goes
<1>4. item[i] \in Row
  BY <1>1, <1>2 DEF IInv, TypeOK
<1>5. balance \in Nat /\ balance # q.saw.quantity /\ balance = q.saw.quantity + quantity
  BY <1>2
<1>6. new \in Row /\ new.quantity = balance
  <2> HIDE DEF q, balance
  <2> QED BY <1>2, <1>5 DEF Row
<1>7. \E row \in Row : row = Written(item[i], q.saw, new) /\ row.quantity = balance
  <2> HIDE DEF q, new, balance
  <2> QED BY <1>2, <1>4, <1>5, <1>6, WrittenRow
<1>8. /\ m \in Movement /\ m.id = lastId + 1 /\ m.item = i /\ m.by = r /\ m.balance = balance
      /\ m.quantity = quantity /\ m.receipt = q.number /\ m.day = q.form.day
  <2>1. lastId + 1 \in Nat /\ q.number \in Nat /\ q.form.day \in Nat
    BY <1>2 DEF IInv, TypeOK, Busy, Form
  <2> HIDE DEF q, i, new
  <2> QED BY <1>2, <1>5, <1>6, <2>1 DEF Movement
<1>9. q.number # 0 => /\ YearOf(q.form.day) \in DOMAIN lost
                      /\ q.number <= Issued(YearOf(q.form.day)) + MaxTries
  <2> SUFFICES ASSUME q.number # 0
               PROVE  /\ YearOf(q.form.day) \in DOMAIN lost
                      /\ q.number <= Issued(YearOf(q.form.day)) + MaxTries
    OBVIOUS
  <2> DEFINE y == YearOf(q.form.day)
  <2>1. q.step = "numbered"
    BY <1>2 DEF Served
  <2>2. y \in DOMAIN lost /\ q.tries < MaxTries /\ q.number <= Cardinality(Receipts(y)) + lost[y] + 1 + q.tries
    BY <1>2, <2>1 DEF Served
  <2>3. Cardinality(Receipts(y)) \in Nat /\ lost[y] \in Nat
    BY <2>2, IssuedType
  <2>4. q.tries \in Nat /\ q.number \in Nat /\ MaxTries \in Nat
    BY <1>2, InventoryAssumption DEF InventoryAssumption, Busy
  <2> HIDE DEF q, y
  <2>5. q.number <= Issued(y) + MaxTries
    BY <2>2, <2>3, <2>4 DEF Issued
  <2> QED BY <2>2, <2>5 DEF y
<1>10. raced' \in {raced, raced \union {i}} /\ (i \notin raced' => balance = item[i].quantity + quantity)
  BY <1>1, <1>5
<1> HIDE DEF q, i, p, m, new, balance
<1>11. p.form.op \in MoveOps /\ p.form.item = i
  BY <1>3 DEF q, i
<1> QED BY <1>1, <1>2, <1>3, <1>7, <1>8, <1>9, <1>10, <1>11 DEF Moved

LEMMA AverageType ==
    ASSUME NEW row \in Row, NEW quantity \in Nat \ {0}, NEW worth \in Nat
    PROVE  Average(row, quantity, worth) \in Nat
<1>1. row.quantity \in Nat /\ row.avg \in Nat
  BY DEF Row
<1>2. row.quantity * row.avg \in Nat
  BY <1>1
<1>3. row.quantity * row.avg + worth \in Nat /\ row.quantity + quantity \in Nat \ {0}
  BY <1>1, <1>2
<1> QED BY <1>3, HalfUpType DEF Average

LEMMA PurchaseEffect ==
    ASSUME IInv, NEW r \in Requests, CommitPurchase(r) \/ CommitDonation(r)
    PROVE  \E i \in Items : Moved(r, i)
<1> DEFINE q == request[r]
           f == q.form
           cost == HalfUp(f.worth, f.quantity)
           average == Average(q.saw, f.quantity, f.worth)
<1>1. /\ q.step \in {"loaded", "numbered"} /\ f.op \in {"purchase", "donation"}
      /\ q.step = "loaded" => f.op # "donation"
  <2>1. CASE CommitPurchase(r)
    BY <2>1 DEF CommitPurchase
  <2>2. CASE CommitDonation(r)
    <3>1. q.step = "numbered"
      BY <2>2 DEF CommitDonation
    <3> QED BY <3>1, Standing, Waiting DEF Served
  <2> QED BY <2>1, <2>2
<1>2. /\ q.saw \in Row /\ q.saw.quantity \in Nat /\ q.saw.avg \in Nat /\ q.saw.active \in BOOLEAN
      /\ f.quantity \in Nat \ {0} /\ f.worth \in Nat
  BY <1>1, LoadedToMove DEF MoveOps
<1>3. cost \in Nat /\ average \in Nat
  BY <1>2, HalfUpType, AverageType
<1>4. f.quantity \in Int \ {0} /\ q.saw.quantity + f.quantity \in Nat /\ f.op \in MoveOps
  BY <1>1, <1>2 DEF MoveOps
<1>5. \E type \in {"PURCHASE", "DONATION_IN"}, avg \in Nat : Move(r, type, f.quantity, cost, avg, q.saw.active)
  <2>1. CASE CommitPurchase(r)
    BY <1>3, <2>1 DEF CommitPurchase
  <2>2. CASE CommitDonation(r)
    <3> DEFINE avg == IF f.worth > 0 THEN average ELSE q.saw.avg
    <3>1. avg \in Nat
      BY <1>2, <1>3
    <3>2. Move(r, "DONATION_IN", f.quantity, cost, avg, q.saw.active)
      BY <2>2 DEF CommitDonation
    <3> QED BY <3>1, <3>2
  <2> QED BY <2>1, <2>2
<1>6. PICK type \in {"PURCHASE", "DONATION_IN"}, avg \in Nat : Move(r, type, f.quantity, cost, avg, q.saw.active)
  BY <1>5
<1> HIDE DEF cost
<1>7. type \in {"PURCHASE", "DONATION_IN", "USAGE", "ADJUSTMENT", "WRITE_OFF"}
  OBVIOUS
<1> QED BY <1>1, <1>2, <1>3, <1>4, <1>6, <1>7, MoveEffect

LEMMA UsageEffect ==
    ASSUME IInv, NEW r \in Requests, CommitUsage(r) \/ CommitAdjustment(r) \/ CommitWriteOff(r)
    PROVE  \E i \in Items : Moved(r, i)
<1> DEFINE q == request[r]
           f == q.form
<1>1. /\ q.step = "loaded" /\ f.op \in {"usage", "adjustment", "writeoff"} /\ f.op \in MoveOps
      /\ f.op # "donation"
  BY DEF CommitUsage, CommitAdjustment, CommitWriteOff, MoveOps
<1>2. /\ q.saw \in Row /\ q.saw.quantity \in Nat /\ q.saw.avg \in Nat /\ q.saw.active \in BOOLEAN
      /\ f.quantity \in Nat /\ (f.op # "adjustment" => f.quantity > 0)
      /\ Allowed(f, q.saw)
  BY <1>1, LoadedToMove
<1>3. CASE CommitUsage(r)
  <2>1. Move(r, "USAGE", -f.quantity, q.saw.avg, q.saw.avg, q.saw.active) /\ f.op = "usage"
    BY <1>3 DEF CommitUsage
  <2>2. f.quantity <= q.saw.quantity
    BY <1>2, <2>1 DEF Allowed
  <2>3. -f.quantity \in Int \ {0} /\ q.saw.quantity + (-f.quantity) \in Nat
    BY <1>2, <2>1, <2>2
  <2> QED BY <1>1, <1>2, <2>1, <2>3, MoveEffect
<1>4. CASE CommitAdjustment(r)
  <2>1. Move(r, "ADJUSTMENT", f.quantity - q.saw.quantity, q.saw.avg, q.saw.avg, q.saw.active) /\ f.op = "adjustment"
    BY <1>4 DEF CommitAdjustment
  <2>2. f.quantity # q.saw.quantity
    BY <1>2, <2>1 DEF Allowed
  <2>3. /\ f.quantity - q.saw.quantity \in Int \ {0}
        /\ q.saw.quantity + (f.quantity - q.saw.quantity) \in Nat
    BY <1>2, <2>2
  <2> QED BY <1>1, <1>2, <2>1, <2>3, MoveEffect
<1>5. CASE CommitWriteOff(r)
  <2> DEFINE last == q.saw.kind = "ASSET" /\ q.saw.quantity = f.quantity
             active == q.saw.active /\ ~last
  <2>1. Move(r, "WRITE_OFF", -f.quantity, q.saw.avg, q.saw.avg, active) /\ f.op = "writeoff"
    BY <1>5 DEF CommitWriteOff
  <2>2. f.quantity <= q.saw.quantity
    BY <1>2, <2>1 DEF Allowed
  <2>3. -f.quantity \in Int \ {0} /\ q.saw.quantity + (-f.quantity) \in Nat
    BY <1>2, <2>1, <2>2
  <2>4. active \in BOOLEAN
    OBVIOUS
  <2> HIDE DEF active
  <2> QED BY <1>1, <1>2, <2>1, <2>3, <2>4, MoveEffect
<1> QED BY <1>3, <1>4, <1>5

LEMMA Steps ==
    ASSUME IInv, Next
    PROVE  \E r \in Requests : \/ Handled(r)
                               \/ \E i \in Items : Created(r, i)
                               \/ \E i \in Items : Edited(r, i)
                               \/ \E i \in Items : Removed(r, i)
                               \/ \E i \in Items : Moved(r, i)
<1>1. PICK r \in Requests : Serve(r)
  BY DEF Next
<1>2. CASE Load(r)
  BY <1>2, LoadEffect
<1>3. CASE CheckName(r) \/ LookForHistory(r) \/ FindGone(r)
  BY <1>3, LookEffect
<1>4. CASE NumberReceipt(r)
  BY <1>4, NumberEffect
<1>5. CASE ReceiptTaken(r) \/ Reload(r)
  BY <1>5, AgainEffect
<1>6. CASE CommitCreate(r)
  BY <1>6, CreateEffect
<1>7. CASE CommitUpdate(r) \/ CommitVerify(r)
  BY <1>7, EditEffect
<1>8. CASE CommitDelete(r)
  BY <1>8, DeleteEffect
<1>9. CASE CommitPurchase(r) \/ CommitDonation(r)
  BY <1>9, PurchaseEffect
<1>10. CASE CommitUsage(r) \/ CommitAdjustment(r) \/ CommitWriteOff(r)
  BY <1>10, UsageEffect
<1> QED BY <1>1, <1>2, <1>3, <1>4, <1>5, <1>6, <1>7, <1>8, <1>9, <1>10 DEF Serve
-----------------------------------------------------------------------------
(* The inductive invariant, part by part *)

\* Every step keeps the types.
LEMMA TypeStep == ASSUME IInv, Next PROVE TypeOK'
<1>1. TypeOK /\ IsFiniteSet(movements)
  BY DEF IInv, MovementsInOrder
<1>2. PICK r \in Requests : \/ Handled(r)
                            \/ \E i \in Items : Created(r, i)
                            \/ \E i \in Items : Edited(r, i)
                            \/ \E i \in Items : Removed(r, i)
                            \/ \E i \in Items : Moved(r, i)
  BY Steps
<1>3. CASE Handled(r)
  BY <1>1, <1>3 DEF Handled, TypeOK
<1>4. ASSUME NEW i \in Items, Created(r, i) PROVE TypeOK'
  BY <1>1, <1>4 DEF Created, Goes, TypeOK
<1>5. ASSUME NEW i \in Items, Edited(r, i) PROVE TypeOK'
  BY <1>1, <1>5 DEF Edited, Goes, TypeOK
<1>6. ASSUME NEW i \in Items, Removed(r, i) PROVE TypeOK'
  <2>1. lost' \in [{YearOf(f.day) : f \in Forms} -> Nat]
    <3> DEFINE D == {YearOf(f.day) : f \in Forms}
    <3>1. lost \in [D -> Nat]
      BY <1>1 DEF TypeOK
    <3> HIDE DEF D
    <3>2. \A y \in D : Cardinality(Receipts(y) \intersect Of(i)) \in Nat
      BY <1>1, FS_Subset, FS_CardinalityType DEF Receipts
    <3>3. lost' = [y \in DOMAIN lost |-> lost[y] + Cardinality(Receipts(y) \intersect Of(i))]
      BY <1>6 DEF Removed
    <3>4. lost' \in [D -> Nat]
      BY <3>1, <3>2, <3>3
    <3> QED BY <3>4 DEF D
  <2>2. movements' \subseteq movements /\ checks' \subseteq Check /\ gone' = gone \union {i}
        /\ item' = [item EXCEPT ![i] = NoItem] /\ lastId' = lastId /\ raced' = raced
        /\ \E q \in Busy : request' = [request EXCEPT ![r] = q]
    BY <1>6 DEF Removed, Goes
  <2> QED BY <1>1, <2>1, <2>2 DEF TypeOK
<1>7. ASSUME NEW i \in Items, Moved(r, i) PROVE TypeOK'
  BY <1>1, <1>7 DEF Moved, Goes, TypeOK
<1> QED BY <1>2, <1>3, <1>4, <1>5, <1>6, <1>7

\* What is known of the identifiers.
LEMMA Ids ==
    ASSUME IInv
    PROVE  /\ lastId \in Nat
           /\ \A m \in movements : m.id \in Nat /\ m.id <= lastId /\ m.balance \in Nat /\ m.quantity \in Int
BY DEF IInv, TypeOK, MovementsInOrder, Movement

\* A new movement is the last of its item, and of no other.
LEMMA NewIsLast ==
    ASSUME IInv, NEW i \in Items, NEW m \in Movement, m.id = lastId + 1, m.item = i,
           movements' = movements \union {m}
    PROVE  /\ Of(i)' = Of(i) \union {m}
           /\ m \notin movements /\ \A n \in Of(i) : n.id < m.id
           /\ \A n : Last(i, n)' <=> n = m
           /\ \A k \in Items \ {i} : Of(k)' = Of(k)
<1>1. Of(i)' = Of(i) \union {m}
  BY DEF Of
<1>2. m \notin movements /\ \A n \in Of(i) : n.id < m.id
  BY Ids DEF Of
<1>3. \A n : Last(i, n)' <=> n = m
  <2>1. lastId + 1 \in Nat
    BY Ids
  <2>2. \A n \in Of(i)' : n.id <= m.id
    BY <1>1, <1>2, Ids, <2>1 DEF Of
  <2>3. Last(i, m)'
    BY <1>1, <2>2 DEF Last
  <2>4. \A n : Last(i, n)' => n = m
    BY <1>1, <1>2, Ids, <2>1 DEF Last, Of
  <2> QED BY <2>3, <2>4
<1>4. \A k \in Items \ {i} : Of(k)' = Of(k)
  BY DEF Of
<1> QED BY <1>1, <1>2, <1>3, <1>4

\* A deletion takes the movements of its item and leaves those of the others.
LEMMA OthersKept ==
    ASSUME NEW i \in Items, movements' = movements \ Of(i)
    PROVE  Of(i)' = {} /\ \A k \in Items \ {i} : Of(k)' = Of(k)
BY DEF Of

LEMMA OrderStep == ASSUME IInv, Next PROVE MovementsInOrder'
<1>1. MovementsInOrder /\ TypeOK
  BY DEF IInv
<1>2. PICK r \in Requests : \/ Handled(r)
                            \/ \E i \in Items : Created(r, i)
                            \/ \E i \in Items : Edited(r, i)
                            \/ \E i \in Items : Removed(r, i)
                            \/ \E i \in Items : Moved(r, i)
  BY Steps
<1>3. CASE Handled(r)
  BY <1>1, <1>3 DEF Handled, MovementsInOrder, Of, Last
<1>4. ASSUME NEW i \in Items, NEW m \in Movement, m.id = lastId + 1, m.item = i, lastId' = lastId + 1,
             movements' = movements \union {m},
             item'[i] # NoItem, \A k \in Items \ {i} : item'[k] = item[k]
      PROVE  MovementsInOrder'
  <2>1. IsFiniteSet(movements') /\ \A n \in movements' : n.id <= lastId'
    BY <1>1, <1>4, Ids, FS_AddElement DEF MovementsInOrder
  <2>2. ASSUME NEW k \in Items
        PROVE  /\ item'[k] = NoItem => Of(k)' = {}
               /\ Of(k)' # {} => \E n \in Of(k)' : Last(k, n)'
               /\ \A n, o \in Of(k)' : n.id = o.id => n = o
    <3>1. CASE k = i
      <4>1. Of(k)' = Of(k) \union {m} /\ Last(k, m)' /\ \A n \in Of(k) : n.id < m.id
        BY <1>4, <3>1, NewIsLast
      <4>2. \A n \in Of(k) : n.id \in Nat
        BY Ids DEF Of
      <4> QED BY <1>1, <1>4, <3>1, <4>1, <4>2, Ids DEF MovementsInOrder
    <3>2. CASE k # i
      <4>1. Of(k)' = Of(k) /\ item'[k] = item[k]
        BY <1>4, <3>2, NewIsLast
      <4> QED BY <1>1, <4>1 DEF MovementsInOrder, Last
    <3> QED BY <3>1, <3>2
  <2> QED BY <2>1, <2>2 DEF MovementsInOrder
<1>5. ASSUME NEW i \in Items, Created(r, i) PROVE MovementsInOrder'
  <2>1. item'[i] # NoItem /\ lastId' = lastId + 1 /\ \A k \in Items \ {i} : item'[k] = item[k]
    BY <1>1, <1>5, InventoryMarks DEF Created, TypeOK, InventoryMarks
  <2>2. CASE UNCHANGED movements
    <3>1. \A k \in Items : item'[k] = NoItem => item[k] = NoItem
      BY <2>1
    <3>2. \A m \in movements' : m.id <= lastId'
      BY <2>1, <2>2, Ids
    <3> QED BY <1>1, <2>2, <3>1, <3>2 DEF MovementsInOrder, Of, Last
  <2>3. CASE \E m \in Movement : m.id = lastId + 1 /\ m.item = i /\ movements' = movements \union {m}
    BY <1>4, <2>1, <2>3
  <2> QED BY <1>5, <2>2, <2>3 DEF Created
<1>6. ASSUME NEW i \in Items, Edited(r, i) PROVE MovementsInOrder'
  <2>1. /\ UNCHANGED <<movements, lastId>>
        /\ \A k \in Items : item'[k] = NoItem => item[k] = NoItem
    BY <1>1, <1>6, InventoryMarks DEF Edited, TypeOK, InventoryMarks
  <2> QED BY <1>1, <2>1 DEF MovementsInOrder, Of, Last
<1>7. ASSUME NEW i \in Items, Removed(r, i) PROVE MovementsInOrder'
  <2>1. /\ movements' = movements \ Of(i) /\ UNCHANGED lastId
        /\ \A k \in Items \ {i} : item'[k] = item[k]
    BY <1>1, <1>7 DEF Removed, TypeOK
  <2>2. IsFiniteSet(movements') /\ \A n \in movements' : n.id <= lastId'
    BY <1>1, <2>1, FS_Subset DEF MovementsInOrder
  <2>3. ASSUME NEW k \in Items
        PROVE  /\ item'[k] = NoItem => Of(k)' = {}
               /\ Of(k)' # {} => \E n \in Of(k)' : Last(k, n)'
               /\ \A n, o \in Of(k)' : n.id = o.id => n = o
    <3>1. CASE k = i
      BY <2>1, <3>1, OthersKept
    <3>2. CASE k # i
      <4>1. Of(k)' = Of(k) /\ item'[k] = item[k]
        BY <2>1, <3>2, OthersKept
      <4> QED BY <1>1, <4>1 DEF MovementsInOrder, Last
    <3> QED BY <3>1, <3>2
  <2> QED BY <2>2, <2>3 DEF MovementsInOrder
<1>8. ASSUME NEW i \in Items, Moved(r, i) PROVE MovementsInOrder'
  <2>1. item'[i] # NoItem /\ lastId' = lastId + 1 /\ \A k \in Items \ {i} : item'[k] = item[k]
    BY <1>1, <1>8, InventoryMarks DEF Moved, TypeOK, InventoryMarks
  <2>2. \E m \in Movement : m.id = lastId + 1 /\ m.item = i /\ movements' = movements \union {m}
    BY <1>8 DEF Moved
  <2> QED BY <1>4, <2>1, <2>2
<1> QED BY <1>2, <1>3, <1>5, <1>6, <1>7, <1>8

\* What a step does to an item that is there afterwards: it stays, or it is new and has
\* its opening movement if any, or it has moved.
LEMMA ItemSteps ==
    ASSUME IInv, Next, NEW i \in Existing'
    PROVE  /\ i \in Items
           /\ \/ /\ item[i] # NoItem /\ item'[i].quantity = item[i].quantity
                 /\ Of(i)' = Of(i) /\ (i \in raced => i \in raced')
              \/ /\ item'[i].quantity = 0 /\ Of(i)' = {}
              \/ \E m \in Movement :
                    /\ m.id = lastId + 1 /\ m.item = i /\ movements' = movements \union {m}
                    /\ m.balance = item'[i].quantity
                    /\ \/ Of(i) = {} /\ m.balance = m.quantity
                       \/ /\ item[i] # NoItem
                          /\ i \notin raced' => i \notin raced /\ m.balance = item[i].quantity + m.quantity
<1>1. TypeOK /\ MovementsInOrder
  BY DEF IInv
<1>2. i \in Items /\ item'[i] # NoItem
  BY DEF Existing
<1>3. PICK r \in Requests : \/ Handled(r)
                            \/ \E k \in Items : Created(r, k)
                            \/ \E k \in Items : Edited(r, k)
                            \/ \E k \in Items : Removed(r, k)
                            \/ \E k \in Items : Moved(r, k)
  BY Steps
<1>4. CASE Handled(r)
  BY <1>2, <1>4 DEF Handled, Of
<1>5. ASSUME NEW k \in Items, Created(r, k), k # i \/ UNCHANGED movements
      PROVE  \/ /\ item[i] # NoItem /\ item'[i].quantity = item[i].quantity
                /\ Of(i)' = Of(i) /\ (i \in raced => i \in raced')
             \/ /\ item'[i].quantity = 0 /\ Of(i)' = {}
  <2>1. CASE k = i
    <3>1. Of(i) = {} /\ UNCHANGED movements
      BY <1>1, <1>5, <2>1 DEF Created, MovementsInOrder
    <3>2. PICK row \in Row : /\ item' = [item EXCEPT ![k] = row]
                             /\ \/ row.quantity = 0
                                \/ \E m \in Movement : m.id = lastId + 1 /\ movements' = movements \union {m}
      BY <1>5 DEF Created
    <3>3. row.quantity = 0
      <4> SUFFICES ASSUME NEW m \in Movement, m.id = lastId + 1, movements' = movements \union {m} PROVE FALSE
        BY <3>2
      <4>1. m \in movements
        BY <3>1
      <4> QED BY <4>1, Ids
    <3> QED BY <1>1, <2>1, <3>1, <3>2, <3>3 DEF Of, TypeOK
  <2>2. CASE k # i
    <3>1. item'[i] = item[i] /\ raced' = raced
      BY <1>1, <1>2, <1>5, <2>2 DEF Created, TypeOK
    <3>2. Of(i)' = Of(i)
      BY <1>5, <2>2 DEF Created, Of
    <3> QED BY <1>2, <3>1, <3>2
  <2> QED BY <2>1, <2>2
<1>6. ASSUME NEW k \in Items, Created(r, k), k = i, movements' # movements
      PROVE  \E m \in Movement :
                    /\ m.id = lastId + 1 /\ m.item = i /\ movements' = movements \union {m}
                    /\ m.balance = item'[i].quantity
                    /\ Of(i) = {} /\ m.balance = m.quantity
  <2>1. Of(i) = {}
    BY <1>1, <1>6 DEF Created, MovementsInOrder
  <2>2. PICK row \in Row : /\ item' = [item EXCEPT ![k] = row]
                           /\ \E m \in Movement : /\ m.id = lastId + 1 /\ m.item = k
                                                  /\ m.quantity = row.quantity /\ m.balance = row.quantity
                                                  /\ movements' = movements \union {m}
    BY <1>6 DEF Created
  <2>3. item'[i] = row
    BY <1>1, <1>6, <2>2 DEF TypeOK
  <2> QED BY <1>6, <2>1, <2>2, <2>3
<1>7. ASSUME NEW k \in Items, Edited(r, k)
      PROVE  /\ item[i] # NoItem /\ item'[i].quantity = item[i].quantity
             /\ Of(i)' = Of(i) /\ (i \in raced => i \in raced')
  BY <1>1, <1>2, <1>7 DEF Edited, TypeOK, Of
<1>8. ASSUME NEW k \in Items, Removed(r, k)
      PROVE  /\ item[i] # NoItem /\ item'[i].quantity = item[i].quantity
             /\ Of(i)' = Of(i) /\ (i \in raced => i \in raced')
  <2>1. k # i /\ item'[i] = item[i] /\ raced' = raced /\ movements' = movements \ Of(k)
    BY <1>1, <1>2, <1>8 DEF Removed, TypeOK
  <2> QED BY <1>2, <2>1, OthersKept
<1>9. ASSUME NEW k \in Items, Moved(r, k), k # i
      PROVE  /\ item[i] # NoItem /\ item'[i].quantity = item[i].quantity
             /\ Of(i)' = Of(i) /\ (i \in raced => i \in raced')
  <2>1. item'[i] = item[i] /\ (i \in raced => i \in raced')
    BY <1>1, <1>2, <1>9 DEF Moved, TypeOK
  <2>2. Of(i)' = Of(i)
    BY <1>9 DEF Moved, Of
  <2> QED BY <1>2, <2>1, <2>2
<1>10. ASSUME NEW k \in Items, Moved(r, k), k = i
       PROVE  \E m \in Movement :
                 /\ m.id = lastId + 1 /\ m.item = i /\ movements' = movements \union {m}
                 /\ m.balance = item'[i].quantity
                 /\ item[i] # NoItem
                 /\ i \notin raced' => i \notin raced /\ m.balance = item[i].quantity + m.quantity
  <2>1. PICK row \in Row, m \in Movement :
             /\ item[i] # NoItem
             /\ m.id = lastId + 1 /\ m.item = i /\ m.balance = row.quantity
             /\ item' = [item EXCEPT ![i] = row]
             /\ movements' = movements \union {m}
             /\ raced' \in {raced, raced \union {i}}
             /\ i \notin raced' => m.balance = item[i].quantity + m.quantity
    BY <1>10 DEF Moved
  <2>2. item'[i] = row
    BY <1>1, <1>2, <2>1 DEF TypeOK
  <2> QED BY <2>1, <2>2
<1> QED BY <1>2, <1>3, <1>4, <1>5, <1>6, <1>7, <1>8, <1>9, <1>10

LEMMA StockStep == ASSUME IInv, Next PROVE StockIsLastBalance'
<1>1. StockIsLastBalance /\ MovementsInOrder
  BY DEF IInv
<1> SUFFICES ASSUME NEW i \in Existing'
             PROVE  /\ \A m \in Of(i)' : Last(i, m)' => m.balance = item'[i].quantity
                    /\ Of(i)' = {} => item'[i].quantity = 0
  BY DEF StockIsLastBalance
<1>2. i \in Items
  BY ItemSteps
<1>3. CASE item[i] # NoItem /\ item'[i].quantity = item[i].quantity /\ Of(i)' = Of(i)
  <2>1. i \in Existing /\ \A m : Last(i, m)' <=> Last(i, m)
    BY <1>2, <1>3 DEF Existing, Last
  <2> QED BY <1>1, <1>3, <2>1 DEF StockIsLastBalance
<1>4. CASE item'[i].quantity = 0 /\ Of(i)' = {}
  BY <1>4
<1>5. ASSUME NEW m \in Movement, m.id = lastId + 1, m.item = i, movements' = movements \union {m},
             m.balance = item'[i].quantity
      PROVE  /\ \A n \in Of(i)' : Last(i, n)' => n.balance = item'[i].quantity
             /\ Of(i)' = {} => item'[i].quantity = 0
  BY <1>2, <1>5, NewIsLast
<1> QED BY <1>3, <1>4, <1>5, ItemSteps

LEMMA HistoryStep == ASSUME IInv, Next PROVE HistoryAddsUp'
<1>1. StockIsLastBalance /\ MovementsInOrder /\ HistoryAddsUp
  BY DEF IInv
<1> SUFFICES ASSUME NEW i \in Existing', i \notin raced' PROVE AddsUp(i)'
  BY DEF HistoryAddsUp
<1>2. i \in Items
  BY ItemSteps
<1>3. CASE item[i] # NoItem /\ Of(i)' = Of(i) /\ i \notin raced
  BY <1>1, <1>2, <1>3 DEF HistoryAddsUp, AddsUp, Existing
<1>4. CASE Of(i)' = {}
  BY <1>4 DEF AddsUp
<1>5. ASSUME NEW m \in Movement, m.id = lastId + 1, m.item = i, movements' = movements \union {m},
             \/ Of(i) = {} /\ m.balance = m.quantity
             \/ item[i] # NoItem /\ i \notin raced /\ m.balance = item[i].quantity + m.quantity
      PROVE  AddsUp(i)'
  <2>1. /\ Of(i)' = Of(i) \union {m} /\ \A n \in Of(i) : n.id < m.id
        /\ m.id \in Nat /\ m.quantity \in Int /\ \A n \in Of(i) : n.id \in Nat
    BY <1>2, <1>5, NewIsLast, Ids DEF Movement, Of
  <2>2. CASE Of(i) = {} /\ m.balance = m.quantity
    BY <2>1, <2>2 DEF AddsUp
  <2>3. CASE item[i] # NoItem /\ i \notin raced /\ m.balance = item[i].quantity + m.quantity
    <3>1. i \in Existing /\ AddsUp(i)
      BY <1>1, <1>2, <2>3 DEF HistoryAddsUp, Existing
    <3>2. ASSUME NEW n \in Of(i)
          PROVE  \/ /\ \A o \in Of(i)' : o.id >= n.id
                    /\ n.balance = n.quantity
                 \/ \E o \in Of(i)' : /\ o.id < n.id /\ n.balance = o.balance + n.quantity
                                      /\ \A k \in Of(i)' : k.id <= o.id \/ k.id >= n.id
      <4>1. m.id >= n.id
        BY <2>1
      <4>2. \/ (\A o \in Of(i) : o.id >= n.id) /\ n.balance = n.quantity
            \/ \E o \in Of(i) : /\ o.id < n.id /\ n.balance = o.balance + n.quantity
                                /\ \A k \in Of(i) : k.id <= o.id \/ k.id >= n.id
        BY <3>1 DEF AddsUp
      <4> QED BY <2>1, <4>1, <4>2
    <3>3. \/ /\ \A o \in Of(i)' : o.id >= m.id
             /\ m.balance = m.quantity
          \/ \E o \in Of(i)' : /\ o.id < m.id /\ m.balance = o.balance + m.quantity
                               /\ \A k \in Of(i)' : k.id <= o.id \/ k.id >= m.id
      <4>1. CASE Of(i) = {}
        <5>1. item[i].quantity = 0
          BY <1>1, <3>1, <4>1 DEF StockIsLastBalance
        <5> QED BY <2>1, <2>3, <4>1, <5>1
      <4>2. CASE Of(i) # {}
        <5>1. PICK o \in Of(i) : Last(i, o)
          BY <1>1, <1>2, <4>2 DEF MovementsInOrder
        <5>2. o.balance = item[i].quantity /\ \A k \in Of(i) : k.id <= o.id
          BY <1>1, <3>1, <5>1 DEF StockIsLastBalance, Last
        <5> QED BY <2>1, <2>3, <5>1, <5>2
      <4> QED BY <4>1, <4>2
    <3> QED BY <2>1, <3>2, <3>3 DEF AddsUp
  <2> QED BY <1>5, <2>2, <2>3
<1> QED BY <1>3, <1>4, <1>5, ItemSteps

\* A new movement is one more receipt of its year, if it has one.
LEMMA OneMoreReceipt ==
    ASSUME IInv, NEW m \in Movement, m.id = lastId + 1, movements' = movements \union {m}, UNCHANGED lost,
           NEW y \in DOMAIN lost
    PROVE  /\ Issued(y)' \in Nat
           /\ m.receipt # 0 /\ YearOf(m.day) = y => Issued(y)' = Issued(y) + 1
           /\ ~(m.receipt # 0 /\ YearOf(m.day) = y) => Issued(y)' = Issued(y)
<1>1. IsFiniteSet(Receipts(y)) /\ Cardinality(Receipts(y)) \in Nat /\ lost[y] \in Nat /\ Issued(y) \in Nat
  BY IssuedType
<1>2. m \notin Receipts(y)
  BY Ids DEF Receipts
<1>3. CASE m.receipt # 0 /\ YearOf(m.day) = y
  <2>1. Receipts(y)' = Receipts(y) \union {m}
    BY <1>3 DEF Receipts
  <2>2. Cardinality(Receipts(y)') = Cardinality(Receipts(y)) + 1
    BY <1>1, <1>2, <2>1, FS_AddElement
  <2> QED BY <1>1, <1>3, <2>2 DEF Issued
<1>4. CASE ~(m.receipt # 0 /\ YearOf(m.day) = y)
  <2>1. Receipts(y)' = Receipts(y)
    BY <1>4 DEF Receipts
  <2> QED BY <1>1, <1>4, <2>1 DEF Issued
<1> QED BY <1>3, <1>4

\* What is deleted is counted as lost.
LEMMA LostIsCounted ==
    ASSUME IInv, NEW i \in Items, movements' = movements \ Of(i),
           lost' = [y \in DOMAIN lost |-> lost[y] + Cardinality(Receipts(y) \intersect Of(i))],
           NEW y \in DOMAIN lost
    PROVE  Issued(y)' = Issued(y) /\ Receipts(y)' \subseteq Receipts(y)
<1>1. IsFiniteSet(Receipts(y)) /\ Cardinality(Receipts(y)) \in Nat /\ lost[y] \in Nat
  BY IssuedType
<1>2. Receipts(y)' = Receipts(y) \ Of(i)
  BY DEF Receipts
<1>3. Cardinality(Receipts(y) \ Of(i)) = Cardinality(Receipts(y)) - Cardinality(Receipts(y) \intersect Of(i))
  BY <1>1, FS_Difference
<1>4. Cardinality(Receipts(y) \intersect Of(i)) \in Nat
  BY <1>1, FS_Subset, FS_CardinalityType
<1>5. lost'[y] = lost[y] + Cardinality(Receipts(y) \intersect Of(i))
  OBVIOUS
<1>6. Issued(y)' = Cardinality(Receipts(y)') + lost'[y]
  BY DEF Issued
<1>7. Issued(y)' = Cardinality(Receipts(y)) + lost[y]
  BY <1>1, <1>2, <1>3, <1>4, <1>5, <1>6
<1> QED BY <1>2, <1>7 DEF Issued

\* A year's count never shrinks, lost receipts included, and a receipt that is added is
\* within the reach of the count before.
LEMMA IssuedSteps ==
    ASSUME IInv, Next
    PROVE  /\ DOMAIN lost' = DOMAIN lost
           /\ \A y \in DOMAIN lost :
                 /\ Issued(y) \in Nat /\ Issued(y)' \in Nat /\ Issued(y)' >= Issued(y)
                 /\ \A m \in Receipts(y)' :
                       m \in Receipts(y) \/ m.receipt <= Issued(y)' + MaxTries - 1
<1>1. PICK r \in Requests : \/ Handled(r)
                            \/ \E i \in Items : Created(r, i)
                            \/ \E i \in Items : Edited(r, i)
                            \/ \E i \in Items : Removed(r, i)
                            \/ \E i \in Items : Moved(r, i)
  BY Steps
<1>2. \A y \in DOMAIN lost : Issued(y) \in Nat
  BY IssuedType
<1>3. MaxTries \in Nat
  BY InventoryAssumption DEF InventoryAssumption
<1>4. CASE UNCHANGED <<movements, lost>>
  BY <1>2, <1>4 DEF Issued, Receipts
<1>5. ASSUME NEW m \in Movement, m.id = lastId + 1, movements' = movements \union {m}, UNCHANGED lost,
             m.receipt # 0 => m.receipt <= Issued(YearOf(m.day)) + MaxTries
      PROVE  /\ DOMAIN lost' = DOMAIN lost
             /\ \A y \in DOMAIN lost :
                 /\ Issued(y) \in Nat /\ Issued(y)' \in Nat /\ Issued(y)' >= Issued(y)
                 /\ \A n \in Receipts(y)' :
                       n \in Receipts(y) \/ n.receipt <= Issued(y)' + MaxTries - 1
  <2> SUFFICES ASSUME NEW y \in DOMAIN lost
               PROVE  /\ Issued(y)' \in Nat /\ Issued(y)' >= Issued(y)
                      /\ \A n \in Receipts(y)' : n \in Receipts(y) \/ n.receipt <= Issued(y)' + MaxTries - 1
    BY <1>2, <1>5
  <2>1. /\ Issued(y)' \in Nat
        /\ m.receipt # 0 /\ YearOf(m.day) = y => Issued(y)' = Issued(y) + 1
        /\ ~(m.receipt # 0 /\ YearOf(m.day) = y) => Issued(y)' = Issued(y)
    BY <1>5, OneMoreReceipt
  <2>2. Issued(y)' >= Issued(y)
    BY <1>2, <2>1
  <2>3. ASSUME NEW n \in Receipts(y)', n \notin Receipts(y) PROVE n.receipt <= Issued(y)' + MaxTries - 1
    <3>1. n = m /\ m.receipt # 0 /\ YearOf(m.day) = y
      BY <1>5, <2>3 DEF Receipts
    <3>2. m.receipt \in Nat
      BY DEF Movement
    <3> QED BY <1>2, <1>3, <1>5, <2>1, <3>1, <3>2
  <2> QED BY <2>1, <2>2, <2>3
<1>6. ASSUME NEW i \in Items, Created(r, i), movements' # movements
      PROVE  \E m \in Movement : /\ m.id = lastId + 1 /\ movements' = movements \union {m} /\ UNCHANGED lost
                                 /\ m.receipt # 0 => m.receipt <= Issued(YearOf(m.day)) + MaxTries
  BY <1>6 DEF Created
<1>7. ASSUME NEW i \in Items, Moved(r, i)
      PROVE  \E m \in Movement : /\ m.id = lastId + 1 /\ movements' = movements \union {m} /\ UNCHANGED lost
                                 /\ m.receipt # 0 => m.receipt <= Issued(YearOf(m.day)) + MaxTries
  BY <1>7 DEF Moved
<1>8. ASSUME NEW i \in Items, Removed(r, i)
      PROVE  /\ DOMAIN lost' = DOMAIN lost
             /\ \A y \in DOMAIN lost : Issued(y)' = Issued(y) /\ Receipts(y)' \subseteq Receipts(y)
  <2>1. /\ movements' = movements \ Of(i)
        /\ lost' = [y \in DOMAIN lost |-> lost[y] + Cardinality(Receipts(y) \intersect Of(i))]
    BY <1>8 DEF Removed
  <2>2. DOMAIN lost' = DOMAIN lost
    BY <2>1
  <2> QED BY <2>1, <2>2, LostIsCounted
<1>9. Handled(r) \/ (\E i \in Items : Edited(r, i)) => UNCHANGED <<movements, lost>>
  BY DEF Handled, Edited
<1>10. \A i \in Items : Created(r, i) => UNCHANGED lost
  BY DEF Created
<1>11. CASE \E i \in Items : Removed(r, i)
  BY <1>2, <1>8, <1>11
<1>12. CASE \E i \in Items : Created(r, i) \/ Moved(r, i)
  BY <1>4, <1>5, <1>6, <1>7, <1>10, <1>12
<1> QED BY <1>1, <1>4, <1>9, <1>11, <1>12

LEMMA ReceiptStep == ASSUME IInv, Next PROVE ReceiptWithinReach'
<1>1. ReceiptWithinReach
  BY DEF IInv
<1> SUFFICES ASSUME NEW y \in DOMAIN lost', NEW m \in Receipts(y)'
             PROVE  m.receipt <= Issued(y)' + MaxTries - 1
  BY DEF ReceiptWithinReach, Issued
<1>2. y \in DOMAIN lost /\ Issued(y) \in Nat /\ Issued(y)' \in Nat /\ Issued(y)' >= Issued(y)
  BY IssuedSteps
<1>3. CASE m \in Receipts(y)
  <2>1. m.receipt <= Issued(y) + MaxTries - 1
    BY <1>1, <1>2, <1>3 DEF ReceiptWithinReach, Issued
  <2>2. m.receipt \in Nat /\ MaxTries \in Nat
    BY <1>3, InventoryAssumption DEF InventoryAssumption, IInv, TypeOK, Receipts, Movement
  <2> QED BY <1>2, <2>1, <2>2
<1>4. CASE m \notin Receipts(y)
  BY <1>2, <1>4, IssuedSteps
<1> QED BY <1>3, <1>4

\* One request takes a step, and it was not answered before.
LEMMA RequestSteps ==
    ASSUME IInv, Next
    PROVE  \E r \in Requests : \E q \in Busy :
              /\ request' = [request EXCEPT ![r] = q] /\ Served(q)
              /\ request[r] # Idle => request[r].step # "done"
<1>1. PICK r \in Requests : \/ Handled(r)
                            \/ \E i \in Items : Created(r, i)
                            \/ \E i \in Items : Edited(r, i)
                            \/ \E i \in Items : Removed(r, i)
                            \/ \E i \in Items : Moved(r, i)
  BY Steps
<1>2. CASE Handled(r)
  BY <1>2 DEF Handled
<1>3. (\E q \in Busy : Goes(r, q)) => \E q \in Busy :
              /\ request' = [request EXCEPT ![r] = q] /\ Served(q)
              /\ request[r] # Idle => request[r].step # "done"
  BY DEF Goes
<1>4. CASE \E i \in Items : Created(r, i) \/ Edited(r, i) \/ Removed(r, i) \/ Moved(r, i)
  <2>1. \E q \in Busy : Goes(r, q)
    BY <1>4 DEF Created, Edited, Removed, Moved
  <2> QED BY <1>3, <2>1
<1> QED BY <1>1, <1>2, <1>4

LEMMA ServedStep == ASSUME IInv, Next PROVE RequestsServed'
<1>1. RequestsServed /\ TypeOK
  BY DEF IInv
<1>2. ASSUME NEW q \in Busy, Served(q) PROVE Served(q)'
  <2>1. YearOf(q.form.day) \in DOMAIN lost /\ DOMAIN lost' = DOMAIN lost
    BY <1>2, IssuedSteps DEF Served
  <2> DEFINE y == YearOf(q.form.day)
  <2>2. Issued(y) \in Nat /\ Issued(y)' \in Nat /\ Issued(y)' >= Issued(y)
    BY <2>1, IssuedSteps
  <2>3. q.number \in Nat /\ q.tries \in Nat
    BY DEF Busy
  <2>4. q.step = "numbered" => q.number # 0 /\ q.number <= Issued(y)' + 1 + q.tries
    BY <1>2, <2>2, <2>3 DEF Served, Issued
  <2>5. Issued(y)' = Cardinality(Receipts(y)') + lost'[y]
    BY DEF Issued
  <2>6. q.step = "numbered" => q.number <= Cardinality(Receipts(y)') + lost'[y] + 1 + q.tries
    BY <2>4, <2>5
  <2> QED BY <1>2, <2>1, <2>4, <2>6 DEF Served
<1>3. PICK r \in Requests, q \in Busy : request' = [request EXCEPT ![r] = q] /\ Served(q)
  BY RequestSteps
<1>4. \A s \in Requests : request'[s] = IF s = r THEN q ELSE request[s]
  BY <1>1, <1>3 DEF TypeOK
<1>5. ASSUME NEW s \in Requests, request'[s] # Idle PROVE Served(request[s])'
  <2>1. CASE s = r
    <3>1. Served(q)' /\ request'[s] = q
      BY <1>2, <1>3, <1>4, <2>1
    <3> QED BY <3>1 DEF Served
  <2>2. CASE s # r
    <3>1. request'[s] = request[s] /\ request[s] # Idle
      BY <1>4, <1>5, <2>2
    <3>2. PICK p \in Busy : p = request[s]
      BY <1>1, <3>1 DEF TypeOK
    <3>3. Served(p)
      BY <1>1, <3>1, <3>2 DEF RequestsServed
    <3>4. Served(p)' /\ request'[s] = p
      BY <1>2, <3>1, <3>2, <3>3
    <3> QED BY <3>4 DEF Served
  <2> QED BY <2>1, <2>2
<1> QED BY <1>5 DEF RequestsServed

LEMMA AnsweredStep == ASSUME IInv, Next PROVE AnsweredOnce'
<1>1. AnsweredOnce /\ TypeOK /\ MovedAsAsked /\ RequestsServed
  BY DEF IInv
<1>2. PICK r \in Requests : \/ Handled(r)
                            \/ \E i \in Items : Created(r, i)
                            \/ \E i \in Items : Edited(r, i)
                            \/ \E i \in Items : Removed(r, i)
                            \/ \E i \in Items : Moved(r, i)
  BY Steps
<1> DEFINE MadeBy(s) == {m \in movements : m.by = s}
           Fine(s) == IF request[s].step = "done" /\ request[s].form.op \in MoveOps
                      THEN request[s].form.item \in gone \/ Cardinality(MadeBy(s)) = 1
                      ELSE request[s].step # "done" => MadeBy(s) = {}
<1>3. AnsweredOnce <=> \A s \in Requests : Fine(s)
  BY DEF AnsweredOnce
<1>4. AnsweredOnce' <=> \A s \in Requests : Fine(s)'
  BY DEF AnsweredOnce
<1> SUFFICES ASSUME NEW s \in Requests PROVE Fine(s)'
  BY <1>4
<1>5. Fine(s)
  BY <1>1, <1>3
<1>6. ASSUME request[r] # Idle => request[r].step # "done" PROVE MadeBy(r) = {}
  <2>1. request[r].step # "done"
    BY <1>6 DEF Idle
  <2> QED BY <1>1, <1>3, <2>1
<1>7. CASE Handled(r)
  <2>1. PICK q \in Busy : request' = [request EXCEPT ![r] = q] /\ q.step # "done"
    BY <1>7 DEF Handled
  <2>2. MadeBy(s)' = MadeBy(s) /\ gone' = gone
    BY <1>7 DEF Handled
  <2>3. CASE s = r
    <3>1. request'[s] = q /\ MadeBy(s) = {}
      BY <1>1, <1>6, <1>7, <2>1, <2>3 DEF TypeOK, Handled
    <3> QED BY <2>1, <2>2, <3>1
  <2>4. CASE s # r
    <3>1. request'[s] = request[s]
      BY <1>1, <2>1, <2>4 DEF TypeOK
    <3> HIDE DEF MadeBy
    <3> QED BY <1>5, <2>2, <3>1
  <2> QED BY <2>3, <2>4
<1>8. ASSUME NEW q \in Busy, Goes(r, q), q.form.op \notin MoveOps, s = r PROVE Fine(s)'
  <2>1. request'[s] = q /\ q.step = "done"
    BY <1>1, <1>8 DEF Goes, TypeOK
  <2> QED BY <1>8, <2>1
<1>9. ASSUME NEW q \in Busy, Goes(r, q), s # r, MadeBy(s)' = MadeBy(s), gone' = gone PROVE Fine(s)'
  <2>1. request'[s] = request[s]
    BY <1>1, <1>9 DEF Goes, TypeOK
  <2> HIDE DEF MadeBy
  <2> QED BY <1>5, <1>9, <2>1
<1>10. ASSUME NEW i \in Items, Created(r, i) PROVE Fine(s)'
  <2>1. PICK q \in Busy : Goes(r, q) /\ q.form.op = "create"
    BY <1>10 DEF Created
  <2>2. s # r => MadeBy(s)' = MadeBy(s) /\ gone' = gone
    BY <1>10 DEF Created
  <2>3. q.form.op \notin MoveOps
    BY <2>1 DEF MoveOps
  <2> HIDE DEF Fine, MadeBy
  <2> QED BY <1>8, <1>9, <2>1, <2>2, <2>3
<1>11. ASSUME NEW i \in Items, Edited(r, i) PROVE Fine(s)'
  <2>1. PICK q \in Busy : Goes(r, q) /\ q.form.op \notin MoveOps
    BY <1>11 DEF Edited
  <2>2. MadeBy(s)' = MadeBy(s) /\ gone' = gone
    BY <1>11 DEF Edited
  <2> HIDE DEF Fine, MadeBy
  <2> QED BY <1>8, <1>9, <2>1, <2>2
<1>12. ASSUME NEW i \in Items, Removed(r, i) PROVE Fine(s)'
  <2>1. PICK q \in Busy : Goes(r, q) /\ q.form.op = "delete"
    BY <1>12 DEF Removed
  <2>2. q.form.op \notin MoveOps
    BY <2>1 DEF MoveOps
  <2>3. movements' = movements \ Of(i) /\ gone' = gone \union {i}
    BY <1>12 DEF Removed
  <2>4. CASE s # r
    <3>1. request'[s] = request[s]
      BY <1>1, <2>1, <2>4 DEF Goes, TypeOK
    <3>2. MadeBy(s)' \subseteq MadeBy(s)
      BY <2>3
    <3>3. CASE request[s].step = "done" /\ request[s].form.op \in MoveOps /\ request[s].form.item # i
      <4>1. \A m \in MadeBy(s) : m.item # i
        BY <1>1, <3>3, InventoryMarks DEF MovedAsAsked, InventoryMarks
      <4>2. MadeBy(s)' = MadeBy(s)
        BY <2>3, <4>1 DEF Of
      <4> HIDE DEF MadeBy
      <4> QED BY <1>5, <2>3, <3>1, <3>3, <4>2
    <3>4. CASE ~(request[s].step = "done" /\ request[s].form.op \in MoveOps /\ request[s].form.item # i)
      <4> HIDE DEF MadeBy
      <4> QED BY <1>5, <2>3, <3>1, <3>2, <3>4
    <3> QED BY <3>3, <3>4
  <2> HIDE DEF Fine, MadeBy
  <2> QED BY <1>8, <2>1, <2>2, <2>4
<1>13. ASSUME NEW i \in Items, Moved(r, i) PROVE Fine(s)'
  <2>1. PICK q \in Busy, m \in Movement : Goes(r, q) /\ m.by = r /\ movements' = movements \union {m} /\ gone' = gone
    BY <1>13 DEF Moved
  <2>2. CASE s # r
    <3>1. MadeBy(s)' = MadeBy(s)
      BY <2>1, <2>2
    <3> HIDE DEF Fine, MadeBy
    <3> QED BY <1>9, <2>1, <2>2, <3>1
  <2>3. CASE s = r
    <3>1. MadeBy(r) = {}
      BY <1>6, <2>1 DEF Goes
    <3>2. MadeBy(r)' = {m}
      BY <2>1, <3>1
    <3>3. Cardinality(MadeBy(r)') = 1
      BY <3>2, FS_Singleton
    <3>4. request'[r].step = "done"
      BY <1>1, <2>1 DEF Goes, TypeOK
    <3> HIDE DEF MadeBy
    <3> QED BY <2>3, <3>3, <3>4
  <2> QED BY <2>2, <2>3
<1> HIDE DEF Fine
<1> QED BY <1>2, <1>7, <1>10, <1>11, <1>12, <1>13

LEMMA AskedStep == ASSUME IInv, Next PROVE MovedAsAsked'
<1>1. AnsweredOnce /\ TypeOK /\ MovedAsAsked
  BY DEF IInv
<1>2. PICK r \in Requests : \/ Handled(r)
                            \/ \E i \in Items : Created(r, i)
                            \/ \E i \in Items : Edited(r, i)
                            \/ \E i \in Items : Removed(r, i)
                            \/ \E i \in Items : Moved(r, i)
  BY Steps
<1>3. ASSUME NEW q \in Busy, request' = [request EXCEPT ![r] = q], request[r] # Idle => request[r].step # "done",
             NEW m \in movements, m.by # NoForm
      PROVE  request'[m.by] # Idle /\ m.item = request'[m.by].form.item
  <2>1. request[r].step # "done"
    BY <1>3 DEF Idle
  <2>2. m.by # r
    BY <1>1, <2>1 DEF AnsweredOnce
  <2>3. m.by \in Requests
    BY <1>1, <1>3 DEF TypeOK, Movement
  <2>4. request'[m.by] = request[m.by]
    BY <1>1, <1>3, <2>2, <2>3 DEF TypeOK
  <2> QED BY <1>1, <1>3, <2>4 DEF MovedAsAsked
<1>4. ASSUME NEW q \in Busy, Goes(r, q), NEW m, m.by = r, m.item = q.form.item
      PROVE  request'[m.by] # Idle /\ m.item = request'[m.by].form.item
  <2>1. request'[r] = q
    BY <1>1, <1>4 DEF Goes, TypeOK
  <2>2. q # Idle
    BY <1>4 DEF Goes, Idle
  <2> QED BY <1>4, <2>1, <2>2
<1>5. CASE Handled(r)
  <2>1. PICK q \in Busy : request' = [request EXCEPT ![r] = q]
    BY <1>5 DEF Handled
  <2>2. movements' = movements /\ (request[r] # Idle => request[r].step # "done")
    BY <1>5 DEF Handled
  <2> QED BY <1>3, <2>1, <2>2 DEF MovedAsAsked
<1>6. ASSUME NEW q \in Busy, Goes(r, q), movements' \subseteq movements PROVE MovedAsAsked'
  BY <1>3, <1>6 DEF MovedAsAsked, Goes
<1>7. ASSUME NEW q \in Busy, Goes(r, q), NEW m, m.by = r, m.item = q.form.item, movements' = movements \union {m}
      PROVE  MovedAsAsked'
  BY <1>3, <1>4, <1>7 DEF MovedAsAsked, Goes
<1>8. ASSUME NEW i \in Items, Created(r, i) PROVE MovedAsAsked'
  <2>1. PICK q \in Busy : /\ Goes(r, q) /\ q.form.item = i
                          /\ movements' # movements =>
                                \E m \in Movement : m.item = i /\ m.by = r /\ movements' = movements \union {m}
    BY <1>8 DEF Created
  <2> QED BY <1>6, <1>7, <2>1
<1>9. ASSUME NEW i \in Items, Edited(r, i) \/ Removed(r, i) PROVE MovedAsAsked'
  <2>1. movements' \subseteq movements /\ \E q \in Busy : Goes(r, q)
    BY <1>9 DEF Edited, Removed
  <2> QED BY <1>6, <2>1
<1>10. ASSUME NEW i \in Items, Moved(r, i) PROVE MovedAsAsked'
  <2>1. PICK q \in Busy, m \in Movement : Goes(r, q) /\ q.form.item = i /\ m.item = i /\ m.by = r
                                          /\ movements' = movements \union {m}
    BY <1>10 DEF Moved
  <2> QED BY <1>7, <2>1
<1> QED BY <1>2, <1>5, <1>8, <1>9, <1>10

\* The stock there is from the start.
LEMMA InitIInv == Init => IInv
<1> SUFFICES ASSUME Init PROVE IInv
  OBVIOUS
<1> DEFINE M(f) == [id |-> 0, item |-> f.item, type |-> "ADJUSTMENT", quantity |-> f.quantity,
                    balance |-> f.quantity, cost |-> f.worth, day |-> f.day, receipt |-> 0, by |-> NoForm]
           S == {f \in Stocked : f.quantity # 0}
<1>1. \A f \in Stocked : f \in Form /\ f.item \in Items /\ f.quantity \in Nat
  BY InventoryAssumption DEF InventoryAssumption, Form
<1>2. \A f, g \in Stocked : f.item = g.item => f = g
  BY InventoryAssumption DEF InventoryAssumption
<1>3. \A f \in Stocked : Opening(f, f.item, 0, NoForm) = IF f.quantity = 0 THEN {} ELSE {M(f)}
  BY DEF Opening
<1>4. movements = {M(f) : f \in S}
  <2>1. movements = UNION {Opening(f, f.item, 0, NoForm) : f \in Stocked}
    BY DEF Init
  <2>2. \A m : m \in movements <=> \E f \in Stocked : m \in Opening(f, f.item, 0, NoForm)
    BY <2>1
  <2> HIDE DEF M
  <2>3. ASSUME NEW m \in movements PROVE \E f \in S : m = M(f)
    <3>1. PICK f \in Stocked : m \in Opening(f, f.item, 0, NoForm)
      BY <2>2
    <3>2. m \in IF f.quantity = 0 THEN {} ELSE {M(f)}
      BY <1>3, <3>1
    <3> QED BY <3>2
  <2>4. ASSUME NEW f \in S PROVE M(f) \in movements
    <3>1. M(f) \in Opening(f, f.item, 0, NoForm)
      BY <1>3
    <3> QED BY <2>2, <3>1
  <2> QED BY <2>3, <2>4
<1>5. IsFiniteSet(movements)
  <2> DEFINE g == [f \in S |-> f.item]
             h == [f \in S |-> M(f)]
  <2>1. g \in Injection(S, Items) /\ IsFiniteSet(Items)
    BY <1>1, <1>2, InventoryAssumption DEF InventoryAssumption, Injection, IsInjective
  <2>2. IsFiniteSet(S)
    BY <2>1, FS_Injection
  <2>3. h \in Surjection(S, movements)
    <3> HIDE DEF M
    <3> QED BY <1>4 DEF Surjection
  <2> QED BY <2>2, <2>3, FS_Surjection
<1>6. \A f \in S : M(f) \in Movement
  BY <1>1 DEF Movement, Form
<1>7. \A i \in Items : \/ item[i] = NoItem /\ \A f \in Stocked : f.item # i
                       \/ \E f \in Stocked : f.item = i /\ item[i] = Made(f)
  BY DEF Init
<1>8. \A f \in Stocked : Made(f) \in Row /\ Made(f).quantity = f.quantity
  BY <1>1, MadeRow
<1>9. TypeOK
  <2>1. item \in [Items -> Row \union {NoItem}]
    <3>1. \A i \in Items : item[i] \in Row \union {NoItem}
      BY <1>7, <1>8
    <3> QED BY <3>1 DEF Init
  <2>2. movements \subseteq Movement
    BY <1>4, <1>6
  <2> QED BY <2>1, <2>2 DEF TypeOK, Init
<1>10. \A m \in movements : m.id = 0 /\ m.receipt = 0 /\ m.by = NoForm /\ m.balance = m.quantity
  BY <1>4
<1>11. \A i \in Items : \A m \in Of(i) : /\ item[i] # NoItem /\ item[i].quantity = m.balance
                                         /\ \A n \in Of(i) : n = m
  <2> SUFFICES ASSUME NEW i \in Items, NEW m \in Of(i)
               PROVE  /\ item[i] # NoItem /\ item[i].quantity = m.balance
                      /\ \A n \in Of(i) : n = m
    OBVIOUS
  <2>1. PICK f \in S : m = M(f) /\ f.item = i /\ m.balance = f.quantity
    BY <1>4 DEF Of
  <2>2. \A n \in Of(i) : n = m
    <3> SUFFICES ASSUME NEW n \in Of(i) PROVE n = m
      OBVIOUS
    <3>1. PICK g \in S : n = M(g) /\ g.item = i
      BY <1>4 DEF Of
    <3> QED BY <1>2, <2>1, <3>1
  <2>3. PICK g \in Stocked : g.item = i /\ item[i] = Made(g)
    BY <1>7, <2>1
  <2>4. g = f
    BY <1>2, <2>1, <2>3
  <2>5. item[i] # NoItem
    BY <1>8, <2>3, InventoryMarks DEF InventoryMarks
  <2> QED BY <1>8, <2>1, <2>2, <2>3, <2>4, <2>5
<1>12. \A i \in Items : item[i] # NoItem /\ Of(i) = {} => item[i].quantity = 0
  <2> SUFFICES ASSUME NEW i \in Items, item[i] # NoItem, Of(i) = {} PROVE item[i].quantity = 0
    OBVIOUS
  <2>1. PICK f \in Stocked : f.item = i /\ item[i] = Made(f)
    BY <1>7
  <2>2. f \notin S
    <3> SUFFICES ASSUME f \in S PROVE FALSE
      OBVIOUS
    <3>1. M(f) \in movements /\ M(f).item = i
      BY <1>4, <2>1
    <3> QED BY <3>1 DEF Of
  <2> QED BY <1>8, <2>1, <2>2
<1> HIDE DEF M, S
<1>13. MovementsInOrder
  BY <1>5, <1>10, <1>11 DEF MovementsInOrder, Last, Init, Of
<1>14. RequestsServed /\ MovedAsAsked
  BY <1>10 DEF RequestsServed, MovedAsAsked, Init
<1>15. StockIsLastBalance
  BY <1>11, <1>12 DEF StockIsLastBalance, Existing
<1>16. HistoryAddsUp
  <2>1. \A i \in Items : \A m \in Of(i) : m.balance = m.quantity /\ \A n \in Of(i) : n.id >= m.id
    BY <1>10 DEF Of
  <2> QED BY <2>1 DEF HistoryAddsUp, AddsUp, Existing
<1>17. ReceiptWithinReach
  BY <1>10 DEF ReceiptWithinReach, Receipts
<1>18. AnsweredOnce
  BY <1>10, InventoryMarks DEF AnsweredOnce, InventoryMarks, Init, Idle
<1> QED BY <1>9, <1>13, <1>14, <1>15, <1>16, <1>17, <1>18 DEF IInv

LEMMA StepIInv == IInv /\ [Next]_inventoryVars => IInv'
<1> SUFFICES ASSUME IInv, [Next]_inventoryVars PROVE IInv'
  OBVIOUS
<1>1. CASE Next
  BY <1>1, TypeStep, OrderStep, ServedStep, AskedStep, StockStep, HistoryStep, ReceiptStep, AnsweredStep DEF IInv
<1>2. CASE UNCHANGED inventoryVars
  <2> USE <1>2 DEF inventoryVars, IInv
  <2>1. \A y : Receipts(y)' = Receipts(y)
    BY DEF Receipts
  <2>2. \A i : Of(i)' = Of(i)
    BY DEF Of
  <2>3. \A i, m : Last(i, m)' <=> Last(i, m)
    BY <2>2 DEF Last
  <2>4. Existing' = Existing
    BY DEF Existing
  <2>5. TypeOK'
    BY DEF TypeOK
  <2>6. MovementsInOrder'
    BY <2>2, <2>3 DEF MovementsInOrder
  <2>7. \A q : Served(q)' <=> Served(q)
    BY <2>1 DEF Served
  <2>8. RequestsServed'
    BY <2>1 DEF RequestsServed, Served
  <2>9. MovedAsAsked'
    BY DEF MovedAsAsked
  <2>10. StockIsLastBalance'
    BY <2>2, <2>3, <2>4 DEF StockIsLastBalance
  <2>11. HistoryAddsUp'
    BY <2>2, <2>4 DEF HistoryAddsUp, AddsUp
  <2>12. ReceiptWithinReach'
    BY <2>1 DEF ReceiptWithinReach
  <2>13. AnsweredOnce'
    BY DEF AnsweredOnce
  <2> QED BY <2>5, <2>6, <2>8, <2>9, <2>10, <2>11, <2>12, <2>13
<1> QED BY <1>1, <1>2
-----------------------------------------------------------------------------
(* Theorems *)

\* The inductive invariant holds in every behaviour.
THEOREM Invariance == Spec => []IInv
<1>1. Init => IInv
  BY InitIInv
<1>2. IInv /\ [Next]_inventoryVars => IInv'
  BY StepIInv
<1> QED BY <1>1, <1>2, PTL DEF Spec

\* Quantities never become negative and averages stay numbers, whatever is lost
\* (_enough, _move and _reaverage of InventoryService).
THEOREM TypeCorrect == Spec => []TypeOK
<1>1. IInv => TypeOK
  BY DEF IInv
<1> QED BY <1>1, Invariance, PTL

\* However requests interleave, an item's stock is the balance of its last movement
\* (the commit of _move).
THEOREM StockFollowsMovements == Spec => []StockIsLastBalance
<1>1. IInv => StockIsLastBalance
  BY DEF IInv
<1> QED BY <1>1, Invariance, PTL

\* The history of an item that no request was overtaken on adds up to its stock (_move).
THEOREM HistoriesAddUp == Spec => []HistoryAddsUp
<1>1. IInv => HistoryAddsUp
  BY DEF IInv
<1> QED BY <1>1, Invariance, PTL

\* Receipt numbers stay within reach of the attempts of a donation in kind
\* (_next_receipt_number and the loop of record_donation).
THEOREM NumbersWithinReach == Spec => []ReceiptWithinReach
<1>1. IInv => ReceiptWithinReach
  BY DEF IInv
<1> QED BY <1>1, Invariance, PTL

\* A request answered with success has moved stock exactly once, unless the item was deleted
\* since, a refused one not at all, whatever its retries (the commits of InventoryService).
THEOREM OneMovementEach == Spec => []AnsweredOnce
<1>1. IInv => AnsweredOnce
  BY DEF IInv
<1> QED BY <1>1, Invariance, PTL
=============================================================================
