------------------------------ MODULE AccessProofs ------------------------------
(***************************************************************************)
(* Theorems about who gets into Site: the one-time codes, the limiters and *)
(* the accounts with their sessions, for every set of people, requests and *)
(* limits that satisfies SiteAssumption, whatever interleaves with what.   *)
(*                                                                         *)
(* Each part has an inductive invariant of its own.  A behaviour of Site,  *)
(* seen from one part, is a behaviour of that part that stutters while the *)
(* others move; the invariants carry over by that.                         *)
(***************************************************************************)
EXTENDS Site, FiniteSetTheorems, WellFoundedInduction, TLAPS

-----------------------------------------------------------------------------
(* CODES.  Ids are given in order; a window of time holds what its last    *)
(* code was counted for, and one more.                                     *)

LEMMA CountingCodes == \A S : Codes!Cardinality(S) = Cardinality(S)
BY DEF Codes!Cardinality, Cardinality

\* Ids are given in order, so a new one was never guessed at.
CodesRowsInOrder == /\ \E n \in Nat : Codes!Rows = 1..n
                    /\ \A i \in Codes!Ids \ Codes!Rows : guessed[i] = 0 /\ accepted[i] = 0

\* What a request has counted or loaded passed its check, and its row is there.
CodesServed(q, table) ==
    /\ q.step = "counted" => q.count < MaxCodes
    /\ q.step = "sending" => q.count \in table
    /\ q.step \in {"wrong", "right"} => q.id \in table /\ ~q.saw.used /\ q.saw.attempts < MaxAttempts
CodesRequestsServed == \A r \in Requests : CodesServed(verifying[r], Codes!Rows)

\* The codes of a window that begins at any time.
CodesMade(p, t) == {i \in Codes!Rows : codes[i].purpose = p /\ codes[i].created \in t..(t + CodeWindow)}
CodesEveryWindow == overrun \/ \A p \in Purposes, t \in Nat : Cardinality(CodesMade(p, t)) <= MaxCodes

\* The inductive invariant.
CodesInv == Codes!TypeOK /\ CodesRowsInOrder /\ CodesRequestsServed /\ Codes!CodeWorksOnce /\ CodesEveryWindow
-----------------------------------------------------------------------------
(* Rows and requests *)

LEMMA CodesLimits ==
    ASSUME Codes!OneTimeCodesAssumption
    PROVE  /\ MaxAttempts \in Nat \ {0} /\ MaxCodes \in Nat \ {0} /\ CodeWindow \in Nat
           /\ LastCode \in Nat /\ LastTime \in Nat /\ \A i \in Codes!Ids : i \in Nat
BY DEF Codes!OneTimeCodesAssumption, Codes!Ids

LEMMA CodesRowsFinite ==
    ASSUME CodesRowsInOrder
    PROVE  IsFiniteSet(Codes!Rows) /\ \A n \in Nat : Codes!Rows = 1..n => Cardinality(Codes!Rows) = n
<1>1. \A n \in Nat : IsFiniteSet(1..n) /\ Cardinality(1..n) = n
  BY FS_Interval
<1> QED BY <1>1 DEF CodesRowsInOrder

LEMMA CodesWaiting ==
    ASSUME Codes!TypeOK, NEW r \in Requests
    PROVE  /\ verifying[r].step \in {"counted", "sending"} => verifying[r] \in Codes!Asking
           /\ verifying[r].step \in {"wrong", "right"} => verifying[r] \in Codes!Entering
BY DEF Codes!TypeOK, Codes!Idle, Codes!Over, Codes!Asking, Codes!Entering

\* A request moves; nothing is taken from what the others rely on.
LEMMA CodesOthersServed ==
    ASSUME CodesInv, NEW r \in Requests,
           NEW q \in {Codes!Idle, Codes!Over} \union Codes!Asking \union Codes!Entering,
           Codes!To(r, q), CodesServed(q, Codes!Rows'), Codes!Rows \subseteq Codes!Rows'
    PROVE  /\ CodesRequestsServed'
           /\ verifying' \in [Requests -> {Codes!Idle, Codes!Over} \union Codes!Asking \union Codes!Entering]
<1>1. verifying' \in [Requests -> {Codes!Idle, Codes!Over} \union Codes!Asking \union Codes!Entering]
  BY DEF Codes!To, CodesInv, Codes!TypeOK
<1>2. ASSUME NEW s \in Requests PROVE CodesServed(verifying'[s], Codes!Rows')
  <2>1. CASE s = r
    <3>1. verifying'[s] = q
      BY <2>1 DEF Codes!To, CodesInv, Codes!TypeOK
    <3> QED BY <3>1
  <2>2. CASE s # r
    <3>1. verifying'[s] = verifying[s] /\ CodesServed(verifying[s], Codes!Rows)
      BY <2>2 DEF Codes!To, CodesInv, Codes!TypeOK, CodesRequestsServed
    <3> QED BY <3>1 DEF CodesServed
  <2> QED BY <2>1, <2>2
<1> QED BY <1>1, <1>2 DEF CodesRequestsServed

\* Steps that touch no row.
LEMMA CodesSameRows ==
    ASSUME CodesInv, UNCHANGED <<codes, guessed, accepted, raced, overrun>>
    PROVE  CodesRowsInOrder' /\ Codes!CodeWorksOnce' /\ CodesEveryWindow'
BY DEF CodesInv, CodesRowsInOrder, Codes!CodeWorksOnce, CodesEveryWindow, CodesMade, Codes!Rows
-----------------------------------------------------------------------------
(* The actions *)

LEMMA CodesTickStep == ASSUME Codes!OneTimeCodesAssumption, CodesInv, Codes!Tick PROVE CodesInv'
<1>1. clock' = clock + 1 /\ clock < LastTime /\ UNCHANGED <<codes, verifying, mailbox, guessed, accepted,
  raced, overrun>>
  BY DEF Codes!Tick
<1>2. Codes!TypeOK'
  BY <1>1, CodesLimits DEF CodesInv, Codes!TypeOK, Codes!Rows
<1>3. CodesRequestsServed'
  BY <1>1 DEF CodesInv, CodesRequestsServed, CodesServed, Codes!Rows
<1> QED BY <1>1, <1>2, <1>3, CodesSameRows DEF CodesInv

LEMMA CodesCountStep ==
    ASSUME Codes!OneTimeCodesAssumption, CodesInv, NEW r \in Requests, Codes!CountRecent(r)
    PROVE  CodesInv'
<1>1. PICK p \in Purposes : Codes!CountRecent(r)!(p)
  BY DEF Codes!CountRecent
<1> DEFINE count == Cardinality(Codes!Recent(p, clock))
           q == IF count >= MaxCodes THEN Codes!Over
                ELSE [step |-> "counted", purpose |-> p, at |-> clock, count |-> count]
<1>2. Codes!To(r, q) /\ UNCHANGED <<clock, codes, mailbox, guessed, accepted, raced, overrun>>
  BY <1>1, CountingCodes
<1>3. count \in Nat
  <2>1. Codes!Recent(p, clock) \subseteq Codes!Rows /\ IsFiniteSet(Codes!Rows)
    BY CodesRowsFinite DEF Codes!Recent, CodesInv
  <2> QED BY <2>1, FS_Subset, FS_CardinalityType
<1>4. clock \in Nat
  BY CodesLimits DEF CodesInv, Codes!TypeOK
<1> HIDE DEF count
<1>5. q \in {Codes!Idle, Codes!Over} \union Codes!Asking
  BY <1>3, <1>4 DEF Codes!Asking
<1>6. CodesServed(q, Codes!Rows')
  BY <1>3, CodesLimits DEF CodesServed, Codes!Over
<1> HIDE DEF q
<1>7. /\ CodesRequestsServed'
      /\ verifying' \in [Requests -> {Codes!Idle, Codes!Over} \union Codes!Asking \union Codes!Entering]
  BY <1>2, <1>5, <1>6, CodesOthersServed DEF Codes!Rows
<1>8. Codes!TypeOK'
  BY <1>2, <1>7 DEF CodesInv, Codes!TypeOK, Codes!Rows
<1> QED BY <1>2, <1>7, <1>8, CodesSameRows DEF CodesInv

LEMMA CodesMailStep ==
    ASSUME Codes!OneTimeCodesAssumption, CodesInv, NEW r \in Requests, Codes!MailCode(r)
    PROVE  CodesInv'
<1>1. PICK sent \in BOOLEAN : Codes!MailCode(r)!(sent)
  BY DEF Codes!MailCode
<1>2. /\ verifying[r].step = "sending" /\ Codes!To(r, Codes!Over)
      /\ mailbox' = IF sent THEN mailbox \union {verifying[r].count} ELSE mailbox
      /\ UNCHANGED <<clock, codes, guessed, accepted, raced, overrun>>
  BY <1>1
<1>3. verifying[r].count \in Codes!Rows
  BY <1>2 DEF CodesInv, CodesRequestsServed, CodesServed
<1>4. CodesServed(Codes!Over, Codes!Rows')
  BY DEF CodesServed, Codes!Over
<1>5. /\ CodesRequestsServed'
      /\ verifying' \in [Requests -> {Codes!Idle, Codes!Over} \union Codes!Asking \union Codes!Entering]
  BY <1>2, <1>4, CodesOthersServed DEF Codes!Rows
<1>6. Codes!TypeOK'
  BY <1>2, <1>3, <1>5 DEF CodesInv, Codes!TypeOK, Codes!Rows
<1> QED BY <1>2, <1>5, <1>6, CodesSameRows DEF CodesInv

LEMMA CodesLoadStep ==
    ASSUME Codes!OneTimeCodesAssumption, CodesInv, NEW r \in Requests, Codes!LoadCode(r)
    PROVE  CodesInv'
<1>1. PICK p \in Purposes, typed \in Codes!Ids \union {0} : Codes!LoadCode(r)!(p, typed)
  BY DEF Codes!LoadCode
<1> DEFINE L == Codes!Latest(p, clock)
           i == CHOOSE j \in L : TRUE
           step == IF typed = i THEN "right" ELSE "wrong"
           q == [step |-> step, id |-> i, saw |-> codes[i]]
           to == IF \E j \in L : ~Codes!Spent(codes[j]) THEN q ELSE Codes!Over
<1>2. Codes!To(r, to) /\ UNCHANGED <<clock, codes, mailbox, guessed, accepted, raced, overrun>>
  BY <1>1
<1>3. \A j \in L : j \in Codes!Rows /\ ~codes[j].used /\ codes[j] \in Codes!Row /\ j \in Codes!Ids
  BY DEF Codes!Latest, CodesInv, Codes!TypeOK
<1>4. \A j, k \in L : j = k
  <2>1. \A j, k \in L : j <= k /\ k <= j
    BY DEF Codes!Latest
  <2> QED BY <1>3, <2>1, CodesLimits
<1>5. ASSUME \E j \in L : ~Codes!Spent(codes[j])
      PROVE  q \in Codes!Entering /\ CodesServed(q, Codes!Rows')
  <2>1. i \in L /\ ~Codes!Spent(codes[i])
    BY <1>4, <1>5
  <2>2. i \in Codes!Rows /\ i \in Codes!Ids /\ codes[i] \in Codes!Row /\ ~codes[i].used /\ step \in {"right", "wrong"}
    BY <1>3, <2>1
  <2>3. codes[i].attempts < MaxAttempts
    BY <2>1, <2>2, CodesLimits DEF Codes!Spent, Codes!Row
  <2> HIDE DEF i, step
  <2>4. q \in Codes!Entering
    BY <2>2 DEF Codes!Entering
  <2>5. Codes!Rows' = Codes!Rows
    BY <1>2 DEF Codes!Rows
  <2> QED BY <2>2, <2>3, <2>4, <2>5 DEF CodesServed
<1>6. to \in {Codes!Over} \union Codes!Entering
  BY <1>5
<1>7. CodesServed(to, Codes!Rows')
  <2>1. CodesServed(Codes!Over, Codes!Rows')
    BY DEF CodesServed, Codes!Over
  <2>2. CASE \E j \in L : ~Codes!Spent(codes[j])
    <3>1. to = q
      BY <2>2
    <3> HIDE DEF to, q
    <3> QED BY <1>5, <2>2, <3>1
  <2>3. CASE ~\E j \in L : ~Codes!Spent(codes[j])
    BY <2>1, <2>3
  <2> QED BY <2>2, <2>3
<1> HIDE DEF to
<1>8. /\ CodesRequestsServed'
      /\ verifying' \in [Requests -> {Codes!Idle, Codes!Over} \union Codes!Asking \union Codes!Entering]
  BY <1>2, <1>6, <1>7, CodesOthersServed DEF Codes!Rows
<1>9. Codes!TypeOK'
  BY <1>2, <1>8 DEF CodesInv, Codes!TypeOK, Codes!Rows
<1> QED BY <1>2, <1>8, <1>9, CodesSameRows DEF CodesInv

\* The insertion: the new row is the only one that can fill a window, and the count that
\* was made says it does not.
LEMMA CodesCreateStep ==
    ASSUME Codes!OneTimeCodesAssumption, CodesInv, NEW r \in Requests, Codes!CreateCode(r)
    PROVE  CodesInv'
<1> DEFINE q == verifying[r]
           id == Cardinality(Codes!Rows) + 1
           row == [purpose |-> q.purpose, created |-> q.at, used |-> FALSE, attempts |-> 0]
           to == [q EXCEPT !.step = "sending", !.count = id]
<1>1. /\ q.step = "counted" /\ id \in Codes!Ids
      /\ codes' = [i \in Codes!Rows \union {id} |-> IF i \in Codes!Rows THEN codes[i] ELSE row]
      /\ overrun' = (overrun \/ Cardinality(Codes!Recent(q.purpose, q.at)) # q.count)
      /\ Codes!To(r, to)
      /\ UNCHANGED <<clock, mailbox, guessed, accepted, raced>>
  BY CountingCodes DEF Codes!CreateCode
<1>2. q \in Codes!Asking /\ q.count < MaxCodes /\ q.purpose \in Purposes /\ q.at \in Nat /\ q.count \in Nat
  BY <1>1, CodesWaiting DEF CodesInv, CodesRequestsServed, CodesServed, Codes!Asking
<1>3. PICK n \in Nat : Codes!Rows = 1..n
  BY DEF CodesInv, CodesRowsInOrder
<1>4. id = n + 1 /\ IsFiniteSet(Codes!Rows)
  BY <1>3, CodesRowsFinite DEF CodesInv
<1>5. id \notin Codes!Rows /\ Codes!Rows \union {id} = 1..(n + 1)
  BY <1>3, <1>4
<1>6. Codes!Rows' = Codes!Rows \union {id}
  BY <1>1 DEF Codes!Rows
<1>7. codes'[id] = row /\ \A i \in Codes!Rows : codes'[i] = codes[i]
  BY <1>1, <1>5
<1>8. row \in Codes!Row /\ row.purpose = q.purpose /\ row.created = q.at /\ ~row.used /\ row.attempts = 0
  BY <1>2 DEF Codes!Row
<1>9. to \in Codes!Asking /\ to.step = "sending" /\ to.count = id
  <2>1. id \in Nat
    BY <1>1, CodesLimits
  <2> HIDE DEF q, id
  <2> QED BY <1>2, <2>1 DEF Codes!Asking
<1> HIDE DEF to, row, id
<1>10. CodesServed(to, Codes!Rows')
  BY <1>6, <1>9 DEF CodesServed
<1>11. /\ CodesRequestsServed'
       /\ verifying' \in [Requests -> {Codes!Idle, Codes!Over} \union Codes!Asking \union Codes!Entering]
  BY <1>1, <1>6, <1>9, <1>10, CodesOthersServed
<1>12. Codes!TypeOK'
  <2>1. Codes!Rows' \subseteq Codes!Ids /\ \A i \in Codes!Rows' : codes'[i] \in Codes!Row
    BY <1>1, <1>6, <1>7, <1>8 DEF CodesInv, Codes!TypeOK
  <2>2. mailbox' \subseteq Codes!Rows' /\ raced' \subseteq Codes!Rows' /\ overrun' \in BOOLEAN
    BY <1>1, <1>6 DEF CodesInv, Codes!TypeOK
  <2> QED BY <1>1, <1>11, <2>1, <2>2 DEF CodesInv, Codes!TypeOK
<1>13. CodesRowsInOrder'
  <2>1. Codes!Rows' = 1..(n + 1) /\ n + 1 \in Nat
    BY <1>5, <1>6
  <2>2. \A i \in Codes!Ids \ Codes!Rows' : guessed'[i] = 0 /\ accepted'[i] = 0
    BY <1>1, <1>6 DEF CodesInv, CodesRowsInOrder
  <2> QED BY <2>1, <2>2 DEF CodesRowsInOrder
<1>14. Codes!CodeWorksOnce'
  <2>1. guessed[id] = 0 /\ accepted[id] = 0
    BY <1>1, <1>5 DEF CodesInv, CodesRowsInOrder
  <2>2. 0 <= MaxAttempts
    BY CodesLimits
  <2> QED BY <1>1, <1>6, <1>7, <1>8, <2>1, <2>2 DEF CodesInv, Codes!CodeWorksOnce
<1>15. CodesEveryWindow'
  <2> SUFFICES ASSUME ~overrun', NEW p \in Purposes, NEW t \in Nat
               PROVE  Cardinality(CodesMade(p, t)') <= MaxCodes
    BY DEF CodesEveryWindow
  <2>1. ~overrun /\ Cardinality(Codes!Recent(q.purpose, q.at)) = q.count
    BY <1>1 DEF CodesInv, Codes!TypeOK
  <2>2. CodesMade(p, t)' = {i \in Codes!Rows' : codes'[i].purpose = p /\ codes'[i].created \in t..(t + CodeWindow)}
    BY DEF CodesMade
  <2>3. CASE p = q.purpose /\ q.at \in t..(t + CodeWindow)
    <3>1. Codes!Recent(p, q.at) \subseteq Codes!Rows
      BY DEF Codes!Recent
    <3>2. IsFiniteSet(Codes!Recent(p, q.at)) /\ id \notin Codes!Recent(p, q.at)
      BY <1>4, <1>5, <3>1, FS_Subset
    <3>3. /\ IsFiniteSet(Codes!Recent(p, q.at) \union {id})
          /\ Cardinality(Codes!Recent(p, q.at) \union {id}) = q.count + 1
      BY <2>1, <2>3, <3>2, FS_AddElement
    <3>4. ASSUME NEW i \in CodesMade(p, t)', i # id PROVE i \in Codes!Recent(p, q.at)
      <4>1. i \in Codes!Rows /\ codes[i].purpose = p /\ codes[i].created \in t..(t + CodeWindow)
        BY <1>6, <1>7, <2>2, <3>4
      <4>2. codes[i].created + CodeWindow >= q.at
        BY <1>2, <2>3, <4>1, CodesLimits
      <4> QED BY <4>1, <4>2 DEF Codes!Recent
    <3>5. CodesMade(p, t)' \subseteq Codes!Recent(p, q.at) \union {id}
      BY <3>4
    <3>6. Cardinality(CodesMade(p, t)') <= q.count + 1 /\ Cardinality(CodesMade(p, t)') \in Nat
      BY <3>3, <3>5, FS_Subset, FS_CardinalityType
    <3> HIDE DEF q
    <3> QED BY <1>2, <3>6, CodesLimits
  <2>4. CASE ~(p = q.purpose /\ q.at \in t..(t + CodeWindow))
    <3>1. CodesMade(p, t)' = CodesMade(p, t)
      BY <1>6, <1>7, <1>8, <2>2, <2>4 DEF CodesMade
    <3> QED BY <2>1, <3>1 DEF CodesInv, CodesEveryWindow
  <2> QED BY <2>3, <2>4
<1> QED BY <1>11, <1>12, <1>13, <1>14, <1>15 DEF CodesInv

\* What a commit leaves of a row.
LEMMA CodesWrittenRow ==
    ASSUME NEW row \in Codes!Row, NEW saw \in Codes!Row, NEW new \in Codes!Row, new.purpose = saw.purpose,
           new.created = saw.created
    PROVE  /\ Codes!Written(row, saw, new) \in Codes!Row
           /\ Codes!Written(row, saw, new).purpose = row.purpose /\ Codes!Written(row, saw, new).created = row.created
           /\ row = saw => Codes!Written(row, saw, new) = new
<1>1. ASSUME row = saw PROVE Codes!Written(row, saw, new) = new
  BY <1>1 DEF Codes!Written, Codes!Row
<1> QED BY <1>1 DEF Codes!Written, Codes!Row

\* A code entered changes neither what a row is for nor when it was made.
LEMMA CodesAnswerEffect ==
    ASSUME Codes!OneTimeCodesAssumption, CodesInv, NEW r \in Requests, verifying[r].step \in {"wrong", "right"},
           NEW new \in Codes!Row, new.purpose = verifying[r].saw.purpose,
             new.created = verifying[r].saw.created,
           Codes!Answer(r, new)
    PROVE  /\ /\ CodesRequestsServed'
           /\ verifying' \in [Requests -> {Codes!Idle, Codes!Over} \union Codes!Asking \union Codes!Entering]
           /\ verifying[r].id \in Codes!Rows /\ verifying[r].saw \in Codes!Row
           /\ Codes!Rows' = Codes!Rows /\ \A i \in Codes!Rows : codes'[i] \in Codes!Row
           /\ \A i \in Codes!Rows \ {verifying[r].id} : codes'[i] = codes[i]
           /\ raced \subseteq raced' /\ raced' \subseteq Codes!Rows
           /\ verifying[r].id \notin raced' =>
                 codes[verifying[r].id] = verifying[r].saw /\ codes'[verifying[r].id] = new
           /\ CodesEveryWindow'
           /\ UNCHANGED <<clock, mailbox, overrun>>
<1> DEFINE q == verifying[r]
           row == Codes!Written(codes[q.id], q.saw, new)
<1>1. /\ codes' = [codes EXCEPT ![q.id] = row]
      /\ raced' = IF codes[q.id] = q.saw THEN raced ELSE raced \union {q.id}
      /\ Codes!To(r, Codes!Over)
      /\ UNCHANGED <<clock, mailbox, overrun>>
  BY DEF Codes!Answer
<1>2. q.id \in Codes!Rows /\ q.saw \in Codes!Row
  BY CodesWaiting DEF CodesInv, CodesRequestsServed, CodesServed, Codes!Entering
<1>3. codes[q.id] \in Codes!Row
  BY <1>2 DEF CodesInv, Codes!TypeOK
<1>4. /\ row \in Codes!Row /\ row.purpose = codes[q.id].purpose /\ row.created = codes[q.id].created
      /\ codes[q.id] = q.saw => row = new
  BY <1>2, <1>3, CodesWrittenRow
<1> HIDE DEF row
<1>5. Codes!Rows' = Codes!Rows /\ codes'[q.id] = row /\ \A i \in Codes!Rows \ {q.id} : codes'[i] = codes[i]
  BY <1>1, <1>2 DEF Codes!Rows
<1>6. /\ CodesRequestsServed'
      /\ verifying' \in [Requests -> {Codes!Idle, Codes!Over} \union Codes!Asking \union Codes!Entering]
  <2>1. CodesServed(Codes!Over, Codes!Rows')
    BY DEF CodesServed, Codes!Over
  <2> QED BY <1>1, <1>5, <2>1, CodesOthersServed
<1>7. \A i \in Codes!Rows : codes'[i] \in Codes!Row
  BY <1>4, <1>5 DEF CodesInv, Codes!TypeOK
<1>8. CodesEveryWindow'
  <2>1. \A i \in Codes!Rows : codes'[i].purpose = codes[i].purpose /\ codes'[i].created = codes[i].created
    BY <1>4, <1>5
  <2>2. ASSUME NEW p, NEW t PROVE CodesMade(p, t)' = CodesMade(p, t)
    BY <1>5, <2>1 DEF CodesMade
  <2> QED BY <1>1, <2>2 DEF CodesInv, CodesEveryWindow
<1>9. raced \subseteq raced' /\ raced' \subseteq Codes!Rows
  BY <1>1, <1>2 DEF CodesInv, Codes!TypeOK
<1>10. q.id \notin raced' => codes[q.id] = q.saw /\ codes'[q.id] = new
  BY <1>1, <1>4, <1>5
<1> QED BY <1>1, <1>2, <1>5, <1>6, <1>7, <1>8, <1>9, <1>10

LEMMA CodesWrongStep ==
    ASSUME Codes!OneTimeCodesAssumption, CodesInv, NEW r \in Requests, Codes!WrongCode(r)
    PROVE  CodesInv'
<1> DEFINE q == verifying[r]
           more == q.saw.attempts + 1
           new == [q.saw EXCEPT !.attempts = more]
<1>1. /\ q.step = "wrong" /\ Codes!Answer(r, new)
      /\ guessed' = [guessed EXCEPT ![q.id] = @ + 1] /\ UNCHANGED accepted
  BY DEF Codes!WrongCode
<1>2. q.id \in Codes!Rows /\ q.saw \in Codes!Row /\ ~q.saw.used /\ q.saw.attempts < MaxAttempts
  BY <1>1, CodesWaiting DEF CodesInv, CodesRequestsServed, CodesServed, Codes!Entering
<1>3. more \in Nat
  BY <1>2 DEF Codes!Row
<1>4. /\ new \in Codes!Row /\ new.purpose = q.saw.purpose /\ new.created = q.saw.created
      /\ new.used = q.saw.used /\ new.attempts = more
  <2> HIDE DEF q, more
  <2> QED BY <1>2, <1>3 DEF Codes!Row
<1>5. Codes!Answer(r, new) /\ q.step \in {"wrong", "right"}
  BY <1>1
<1> HIDE DEF new
<1>6. /\ /\ CodesRequestsServed'
      /\ verifying' \in [Requests -> {Codes!Idle, Codes!Over} \union Codes!Asking \union Codes!Entering]
      /\ Codes!Rows' = Codes!Rows /\ \A i \in Codes!Rows : codes'[i] \in Codes!Row
      /\ \A i \in Codes!Rows \ {q.id} : codes'[i] = codes[i]
      /\ raced \subseteq raced' /\ raced' \subseteq Codes!Rows
      /\ q.id \notin raced' => codes[q.id] = q.saw /\ codes'[q.id] = new
      /\ CodesEveryWindow' /\ UNCHANGED <<clock, mailbox, overrun>>
  BY <1>4, <1>5, CodesAnswerEffect
<1>7. /\ guessed' \in [Codes!Ids -> Nat] /\ guessed'[q.id] = guessed[q.id] + 1
      /\ \A i \in Codes!Ids \ {q.id} : guessed'[i] = guessed[i]
  BY <1>1, <1>2 DEF CodesInv, Codes!TypeOK
<1>8. Codes!TypeOK'
  BY <1>1, <1>6, <1>7 DEF CodesInv, Codes!TypeOK
<1>9. CodesRowsInOrder'
  BY <1>1, <1>2, <1>6, <1>7 DEF CodesInv, CodesRowsInOrder
<1>10. Codes!CodeWorksOnce'
  <2> SUFFICES ASSUME NEW i \in Codes!Rows, i \notin raced'
               PROVE  /\ accepted[i] <= 1
                      /\ accepted[i] = 1 <=> codes'[i].used
                      /\ guessed'[i] = codes'[i].attempts /\ guessed'[i] <= MaxAttempts
    BY <1>1, <1>6 DEF Codes!CodeWorksOnce
  <2>1. /\ accepted[i] <= 1 /\ (accepted[i] = 1 <=> codes[i].used)
        /\ guessed[i] = codes[i].attempts /\ guessed[i] <= MaxAttempts /\ i \in Codes!Ids
    BY <1>6 DEF CodesInv, Codes!CodeWorksOnce, Codes!TypeOK
  <2>2. CASE i # q.id
    BY <1>6, <1>7, <2>1, <2>2
  <2>3. CASE i = q.id
    <3>1. codes[i] = q.saw /\ codes'[i] = new
      BY <1>6, <2>3
    <3>2. guessed'[i] = more
      BY <1>7, <2>1, <2>3, <3>1
    <3>3. more <= MaxAttempts
      BY <1>2, CodesLimits DEF Codes!Row
    <3> QED BY <1>4, <2>1, <3>1, <3>2, <3>3
  <2> QED BY <2>2, <2>3
<1> QED BY <1>6, <1>8, <1>9, <1>10 DEF CodesInv

LEMMA CodesAcceptStep ==
    ASSUME Codes!OneTimeCodesAssumption, CodesInv, NEW r \in Requests, Codes!AcceptCode(r)
    PROVE  CodesInv'
<1> DEFINE q == verifying[r]
           new == [q.saw EXCEPT !.used = TRUE]
<1>1. /\ q.step = "right" /\ Codes!Answer(r, new)
      /\ accepted' = [accepted EXCEPT ![q.id] = @ + 1] /\ UNCHANGED guessed
  BY DEF Codes!AcceptCode
<1>2. q.id \in Codes!Rows /\ q.saw \in Codes!Row /\ ~q.saw.used
  BY <1>1, CodesWaiting DEF CodesInv, CodesRequestsServed, CodesServed, Codes!Entering
<1>3. /\ new \in Codes!Row /\ new.purpose = q.saw.purpose /\ new.created = q.saw.created
      /\ new.used /\ new.attempts = q.saw.attempts
  <2> HIDE DEF q
  <2> QED BY <1>2 DEF Codes!Row
<1>4. Codes!Answer(r, new) /\ q.step \in {"wrong", "right"}
  BY <1>1
<1> HIDE DEF new
<1>5. /\ /\ CodesRequestsServed'
      /\ verifying' \in [Requests -> {Codes!Idle, Codes!Over} \union Codes!Asking \union Codes!Entering]
      /\ Codes!Rows' = Codes!Rows /\ \A i \in Codes!Rows : codes'[i] \in Codes!Row
      /\ \A i \in Codes!Rows \ {q.id} : codes'[i] = codes[i]
      /\ raced \subseteq raced' /\ raced' \subseteq Codes!Rows
      /\ q.id \notin raced' => codes[q.id] = q.saw /\ codes'[q.id] = new
      /\ CodesEveryWindow' /\ UNCHANGED <<clock, mailbox, overrun>>
  BY <1>3, <1>4, CodesAnswerEffect
<1>6. /\ accepted' \in [Codes!Ids -> Nat] /\ accepted'[q.id] = accepted[q.id] + 1
      /\ \A i \in Codes!Ids \ {q.id} : accepted'[i] = accepted[i]
  BY <1>1, <1>2 DEF CodesInv, Codes!TypeOK
<1>7. Codes!TypeOK'
  BY <1>1, <1>5, <1>6 DEF CodesInv, Codes!TypeOK
<1>8. CodesRowsInOrder'
  BY <1>1, <1>2, <1>5, <1>6 DEF CodesInv, CodesRowsInOrder
<1>9. Codes!CodeWorksOnce'
  <2> SUFFICES ASSUME NEW i \in Codes!Rows, i \notin raced'
               PROVE  /\ accepted'[i] <= 1
                      /\ accepted'[i] = 1 <=> codes'[i].used
                      /\ guessed[i] = codes'[i].attempts /\ guessed[i] <= MaxAttempts
    BY <1>1, <1>5 DEF Codes!CodeWorksOnce
  <2>1. /\ accepted[i] <= 1 /\ (accepted[i] = 1 <=> codes[i].used)
        /\ guessed[i] = codes[i].attempts /\ guessed[i] <= MaxAttempts /\ i \in Codes!Ids
    BY <1>5 DEF CodesInv, Codes!CodeWorksOnce, Codes!TypeOK
  <2>2. CASE i # q.id
    BY <1>5, <1>6, <2>1, <2>2
  <2>3. CASE i = q.id
    <3>1. codes[i] = q.saw /\ codes'[i] = new
      BY <1>5, <2>3
    <3>2. accepted[i] = 0
      <4>1. accepted[i] \in Nat
        BY <2>1 DEF CodesInv, Codes!TypeOK
      <4> QED BY <1>2, <2>1, <3>1, <4>1
    <3> QED BY <1>3, <1>6, <2>1, <2>3, <3>1, <3>2
  <2> QED BY <2>2, <2>3
<1> QED BY <1>5, <1>7, <1>8, <1>9 DEF CodesInv
-----------------------------------------------------------------------------
(* The theorems *)

LEMMA InitCodesInv == ASSUME Codes!OneTimeCodesAssumption, Codes!Init PROVE CodesInv
<1>1. Codes!Rows = {}
  BY DEF Codes!Init, Codes!Rows
<1>2. Codes!Rows = 1..0
  BY <1>1
<1>3. Codes!TypeOK
  <2>1. /\ clock \in 0..LastTime
        /\ verifying \in [Requests -> {Codes!Idle, Codes!Over} \union Codes!Asking \union Codes!Entering]
        /\ guessed \in [Codes!Ids -> Nat] /\ accepted \in [Codes!Ids -> Nat]
    BY CodesLimits DEF Codes!Init
  <2>2. mailbox = {} /\ raced = {} /\ overrun \in BOOLEAN
    BY DEF Codes!Init
  <2>3. Codes!Rows \subseteq Codes!Ids /\ \A i \in Codes!Rows : codes[i] \in Codes!Row
    BY <1>1
  <2> QED BY <2>1, <2>2, <2>3 DEF Codes!TypeOK
<1>4. CodesRowsInOrder
  BY <1>2 DEF Codes!Init, CodesRowsInOrder
<1>5. CodesRequestsServed
  <2>1. CodesServed(Codes!Idle, Codes!Rows)
    BY DEF CodesServed, Codes!Idle
  <2> QED BY <2>1 DEF Codes!Init, CodesRequestsServed
<1>6. Codes!CodeWorksOnce
  BY <1>1 DEF Codes!CodeWorksOnce
<1>7. CodesEveryWindow
  <2>1. ASSUME NEW p, NEW t PROVE CodesMade(p, t) = {}
    BY <1>1 DEF CodesMade
  <2> QED BY <2>1, FS_EmptySet, CodesLimits DEF CodesEveryWindow
<1> QED BY <1>3, <1>4, <1>5, <1>6, <1>7 DEF CodesInv

LEMMA StepCodesInv ==
    ASSUME Codes!OneTimeCodesAssumption, CodesInv, [Codes!Next]_(Codes!codesVars)
    PROVE  CodesInv'
<1>1. CASE UNCHANGED Codes!codesVars
  <2>1. UNCHANGED <<clock, codes, verifying, mailbox, guessed, accepted, raced, overrun>>
    BY <1>1 DEF Codes!codesVars
  <2>2. Codes!TypeOK' /\ CodesRequestsServed'
    BY <2>1 DEF CodesInv, Codes!TypeOK, CodesRequestsServed, CodesServed, Codes!Rows
  <2> QED BY <2>1, <2>2, CodesSameRows DEF CodesInv
<1>2. CASE Codes!Tick
  BY <1>2, CodesTickStep
<1>3. ASSUME NEW r \in Requests, Codes!Serve(r) PROVE CodesInv'
  BY <1>3, CodesCountStep, CodesCreateStep, CodesMailStep, CodesLoadStep, CodesWrongStep,
     CodesAcceptStep DEF Codes!Serve
<1> QED BY <1>1, <1>2, <1>3 DEF Codes!Next
-----------------------------------------------------------------------------
(* LIMITS.  A hit that is not in the table any more is older than a window *)
(* of now; the hits of a key are as many as its calls in any window that   *)
(* the next call can fall into.                                            *)

LimitsWindow(log, c, from, length) ==
    {i \in DOMAIN log : log[i].client = c /\ log[i].at \in from..(from + length - 1)}

\* A request that passed the middleware is in its table or older than a period; one that
\* the limiter admitted likewise, where the client is never late.
PassedAreHits == \A i \in DOMAIN passed :
    \/ passed[i].at + Period <= tick
    \/ /\ passed[i].client \in DOMAIN clients
       /\ [number |-> i, at |-> passed[i].at] \in clients[passed[i].client]
AdmittedAreHits == \A i \in DOMAIN admitted : admitted[i].client \notin late =>
    \/ admitted[i].at + WindowSeconds <= latest
    \/ /\ admitted[i].client \in DOMAIN requests
       /\ [number |-> i, at |-> admitted[i].at] \in requests[admitted[i].client]

\* The hits of a key are few, old, and in order where the client is never late.
HitsAreFinite == /\ \A k \in DOMAIN clients : IsFiniteSet(clients[k])
                 /\ \A k \in DOMAIN requests : IsFiniteSet(requests[k])
HitsAreKnown == \A k \in DOMAIN requests : \A h \in requests[k] : h.number <= Len(admitted) /\ h.at <= latest
HitsInOrder == \A k \in DOMAIN requests \ late : \A g, h \in requests[k] : g.number <= h.number => g.at <= h.at

\* The inductive invariant.
LimitsInv == /\ Limits!TypeOK /\ PassedAreHits /\ AdmittedAreHits /\ HitsAreFinite /\ HitsAreKnown /\ HitsInOrder
             /\ Limits!WindowHolds
-----------------------------------------------------------------------------
(* Addresses and windows *)

LEMMA CountingLimits == \A S : Limits!Cardinality(S) = Cardinality(S)
BY DEF Limits!Cardinality, Cardinality

LEMMA LimitsBounds ==
    ASSUME Limits!RateLimiterAssumption
    PROVE  /\ MaxRequests \in Nat \ {0} /\ WindowSeconds \in Nat \ {0} /\ Calls \in Nat \ {0}
           /\ Period \in Nat \ {0} /\ LastTime \in Nat
BY DEF Limits!RateLimiterAssumption

\* Whatever a client puts before it, the address is the one the first proxy was called from.
LEMMA AddressOfClient ==
    ASSUME Limits!RateLimiterAssumption, NEW c \in Clients, NEW p \in Prefixes
    PROVE  Limits!ClientAddress(c, p) = c
<1> DEFINE U == {p[i] : i \in DOMAIN p} \union {c} \union {Proxies[i] : i \in DOMAIN Proxies}
<1>1. p \in Seq(U) /\ Proxies \in Seq(U) /\ <<c>> \in Seq(U) /\ TrustedHops = Len(Proxies)
  <2>1. p \in Seq({p[i] : i \in DOMAIN p}) /\ Proxies \in Seq({Proxies[i] : i \in DOMAIN Proxies})
        /\ TrustedHops = Len(Proxies)
    BY DEF Limits!RateLimiterAssumption, Limits!IsList
  <2>2. p \in Seq(U)
    BY <2>1
  <2>3. Proxies \in Seq(U)
    BY <2>1
  <2> QED BY <2>1, <2>2, <2>3
<1> HIDE DEF U
<1>2. CASE Proxies = <<>>
  BY <1>1, <1>2 DEF Limits!ClientAddress, Limits!Peer
<1>3. CASE Proxies # <<>>
  <2> DEFINE n == Len(Proxies)
             rest == SubSeq(Proxies, 1, n - 1)
             start == p \o <<c>>
             parts == start \o rest
  <2>1. n \in Nat \ {0} /\ Len(p) \in Nat
    BY <1>1, <1>3
  <2>2. rest \in Seq(U) /\ Len(rest) = n - 1
    BY <1>1, <2>1
  <2>3. start \in Seq(U) /\ Len(start) = Len(p) + 1 /\ start[Len(p) + 1] = c
    BY <1>1, <2>1
  <2> HIDE DEF rest, start
  <2>4. parts \in Seq(U) /\ Len(parts) = Len(p) + n /\ parts[Len(p) + 1] = c
    BY <2>1, <2>2, <2>3
  <2>5. Limits!Header(c, p) = parts
    BY <1>3 DEF Limits!Header, start, rest
  <2> HIDE DEF parts
  <2>6. Limits!ClientAddress(c, p) = parts[Len(parts) - n + 1]
    BY <1>1, <2>1, <2>4, <2>5 DEF Limits!ClientAddress
  <2> QED BY <2>1, <2>4, <2>6
<1> QED BY <1>2, <1>3

LEMMA LimitsWithin ==
    ASSUME NEW log, NEW c, NEW t, NEW length
    PROVE  Limits!Within(log, c, t, length) = Cardinality(LimitsWindow(log, c, t, length))
BY CountingLimits DEF Limits!Within, LimitsWindow

\* A window takes one more call where the hits that are left were fewer than it may hold.
LEMMA WindowTakesOne ==
    ASSUME NEW log \in Seq(Limits!Call), NEW e \in Limits!Call, NEW c \in Clients, NEW t \in Nat,
           NEW length \in Nat, NEW most \in Nat, NEW hits, IsFiniteSet(hits), Cardinality(hits) < most,
           Cardinality(LimitsWindow(log, c, t, length)) <= most, LastTime \in Nat,
           e.client = c => \A i \in DOMAIN log : log[i].client = c /\ log[i].at + length > e.at =>
                                                     [number |-> i, at |-> log[i].at] \in hits
    PROVE  Cardinality(LimitsWindow(Append(log, e), c, t, length)) <= most
<1> DEFINE old == LimitsWindow(log, c, t, length)
           new == LimitsWindow(Append(log, e), c, t, length)
           id == Len(log) + 1
<1>1. /\ DOMAIN log = 1..Len(log) /\ Len(log) \in Nat /\ DOMAIN Append(log, e) = 1..id
      /\ \A i \in DOMAIN log : Append(log, e)[i] = log[i]
      /\ Append(log, e)[id] = e
  OBVIOUS
<1>2. \A i \in DOMAIN log : log[i].at \in Nat
  <2>1. \A i \in DOMAIN log : log[i] \in Limits!Call
    OBVIOUS
  <2> QED BY <2>1 DEF Limits!Call
<1>3. e.at \in Nat
  BY DEF Limits!Call
<1>4. CASE e.client = c /\ e.at \in t..(t + length - 1)
  <2> DEFINE f == [i \in old |-> [number |-> i, at |-> log[i].at]]
  <2>1. ASSUME NEW i \in old PROVE f[i] \in hits
    <3>1. i \in DOMAIN log /\ log[i].client = c /\ log[i].at \in t..(t + length - 1)
      BY <2>1 DEF LimitsWindow
    <3>2. log[i].at + length > e.at
      BY <1>2, <1>3, <1>4, <3>1
    <3> QED BY <1>4, <2>1, <3>1, <3>2
  <2>2. f \in [old -> hits]
    BY <2>1
  <2>3. \A i, j \in old : f[i] = f[j] => i = j
    OBVIOUS
  <2>4. f \in Injection(old, hits)
    BY <2>2, <2>3 DEF Injection, IsInjective
  <2>5. IsFiniteSet(old) /\ Cardinality(old) <= Cardinality(hits)
    BY <2>4, FS_Injection
  <2>6. new = old \union {id}
    BY <1>1, <1>4 DEF LimitsWindow
  <2> HIDE DEF old, new, f, id
  <2>7. Cardinality(old) \in Nat /\ Cardinality(hits) \in Nat
    BY <2>5, FS_CardinalityType
  <2>8. Cardinality(new) = Cardinality(old) \/ Cardinality(new) = Cardinality(old) + 1
    BY <2>5, <2>6, FS_AddElement
  <2> QED BY <2>5, <2>7, <2>8 DEF new
<1>5. CASE ~(e.client = c /\ e.at \in t..(t + length - 1))
  <2>1. new = old
    BY <1>1, <1>5 DEF LimitsWindow
  <2> QED BY <2>1
<1> QED BY <1>4, <1>5
-----------------------------------------------------------------------------
(* Steps of the limiters *)

LEMMA TickStep ==
    ASSUME Limits!RateLimiterAssumption, LimitsInv, Limits!Tick
    PROVE  LimitsInv'
<1>1. /\ tick \in Nat /\ tick' = tick + 1 /\ tick' \in 0..LastTime
      /\ UNCHANGED <<clients, passed, requests, calls, inside, admitted, latest, late>>
  BY LimitsBounds DEF Limits!Tick, LimitsInv, Limits!TypeOK
<1>2. Limits!TypeOK'
  BY <1>1 DEF LimitsInv, Limits!TypeOK
<1>3. PassedAreHits'
  <2>1. \A i \in DOMAIN passed : passed[i] \in Limits!Call
    BY DEF LimitsInv, Limits!TypeOK
  <2>2. \A i \in DOMAIN passed : passed[i].at \in Nat
    BY <2>1, LimitsBounds DEF Limits!Call
  <2> QED BY <1>1, <2>2, LimitsBounds DEF LimitsInv, PassedAreHits
<1>4. AdmittedAreHits' /\ HitsAreFinite' /\ HitsAreKnown' /\ HitsInOrder'
  BY <1>1 DEF LimitsInv, AdmittedAreHits, HitsAreFinite, HitsAreKnown, HitsInOrder
<1>5. Limits!WindowHolds'
  BY <1>1 DEF LimitsInv, Limits!WindowHolds, Limits!Within
<1> QED BY <1>2, <1>3, <1>4, <1>5 DEF LimitsInv

LEMMA ReadStep ==
    ASSUME Limits!RateLimiterAssumption, LimitsInv, NEW r \in Callers, Limits!ReadClock(r)
    PROVE  LimitsInv'
<1> DEFINE q == inside[r]
           p == [q EXCEPT !.step = "read", !.at = tick]
<1>1. /\ q.step = "passed" /\ inside' = [inside EXCEPT ![r].step = "read", ![r].at = tick]
      /\ UNCHANGED <<tick, clients, passed, requests, calls, admitted, latest, late>>
  BY DEF Limits!ReadClock
<1>2. q \in Limits!Waiting
  BY <1>1 DEF LimitsInv, Limits!TypeOK, Limits!Idle
<1>3. p \in Limits!Waiting
  BY <1>2 DEF LimitsInv, Limits!TypeOK, Limits!Waiting
<1>4. inside' = [inside EXCEPT ![r] = p]
  BY <1>1 DEF LimitsInv, Limits!TypeOK
<1> HIDE DEF p
<1>5. Limits!TypeOK'
  BY <1>1, <1>3, <1>4 DEF LimitsInv, Limits!TypeOK
<1>6. PassedAreHits' /\ AdmittedAreHits' /\ HitsAreFinite' /\ HitsAreKnown' /\ HitsInOrder' /\ Limits!WindowHolds'
  BY <1>1 DEF LimitsInv, PassedAreHits, AdmittedAreHits, HitsAreFinite, HitsAreKnown, HitsInOrder,
              Limits!WindowHolds, Limits!Within
<1> QED BY <1>5, <1>6 DEF LimitsInv

\* What cleaning the table of the middleware leaves.
LEMMA CleanedTable ==
    ASSUME Limits!RateLimiterAssumption, LimitsInv
    PROVE  LET table == Limits!Cleaned(tick)
           IN /\ DOMAIN table \subseteq DOMAIN clients
              /\ \A k \in DOMAIN table : table[k] = clients[k]
              /\ \A k \in DOMAIN clients : \A h \in clients[k] :
                    h.at + Period <= tick \/ k \in DOMAIN table
<1> DEFINE kept == {a \in DOMAIN clients : Limits!Recent(clients[a], Period, tick) # {}}
<1>1. Limits!Cleaned(tick) = [k \in kept |-> clients[k]]
  BY DEF Limits!Cleaned
<1>2. ASSUME NEW k \in DOMAIN clients, NEW h \in clients[k], ~(h.at + Period <= tick) PROVE k \in kept
  <2>1. h.at \in Nat /\ tick \in Nat
    BY LimitsBounds DEF LimitsInv, Limits!TypeOK, Limits!Hit
  <2>2. h \in Limits!Recent(clients[k], Period, tick)
    BY <1>2, <2>1, LimitsBounds DEF Limits!Recent
  <2> QED BY <2>2
<1> QED BY <1>1, <1>2

LEMMA DispatchStep ==
    ASSUME Limits!RateLimiterAssumption, LimitsInv, NEW r \in Callers, Limits!Dispatch(r)
    PROVE  LimitsInv'
<1>1. PICK c \in Clients, p \in Prefixes : Limits!Dispatch(r)!(c, p)
  BY DEF Limits!Dispatch
<1> DEFINE table == Limits!Cleaned(tick)
           recent == IF c \in DOMAIN table THEN Limits!Recent(table[c], Period, tick) ELSE {}
           ok == Cardinality(recent) < Calls
           hit == [number |-> Len(passed) + 1, at |-> tick]
           call == [client |-> c, at |-> tick]
           q == [step |-> "passed", client |-> c, prefix |-> p, at |-> tick]
<1>2. /\ clients' = [k \in DOMAIN table \union {c} |->
                        IF k # c THEN table[k] ELSE IF ok THEN recent \union {hit} ELSE table[c]]
      /\ passed' = (IF ok THEN Append(passed, call) ELSE passed)
      /\ inside' = (IF ok THEN [inside EXCEPT ![r] = q] ELSE inside)
      /\ UNCHANGED <<tick, requests, calls, admitted, latest, late>>
  BY <1>1, AddressOfClient, CountingLimits
<1>3. /\ DOMAIN table \subseteq DOMAIN clients
      /\ \A k \in DOMAIN table : table[k] = clients[k]
      /\ \A k \in DOMAIN clients : \A h \in clients[k] : h.at + Period <= tick \/ k \in DOMAIN table
  BY CleanedTable
<1>4. recent \subseteq Limits!Hit /\ IsFiniteSet(recent)
  <2>1. CASE c \in DOMAIN table
    <3>1. recent \subseteq clients[c] /\ IsFiniteSet(clients[c]) /\ clients[c] \subseteq Limits!Hit
      BY <1>3, <2>1 DEF Limits!Recent, LimitsInv, HitsAreFinite, Limits!TypeOK
    <3> QED BY <3>1, FS_Subset
  <2>2. CASE c \notin DOMAIN table
    BY <2>2, FS_EmptySet
  <2> QED BY <2>1, <2>2
<1>5. c \in DOMAIN table => recent = {h \in clients[c] : h.at + Period > tick}
  BY <1>3 DEF Limits!Recent
<1>6. ~ok => c \in DOMAIN table
  BY FS_EmptySet, LimitsBounds
<1>7. /\ passed \in Seq(Limits!Call) /\ Len(passed) \in Nat /\ DOMAIN passed = 1..Len(passed)
      /\ tick \in 0..LastTime /\ tick \in Nat
      /\ call \in Limits!Call /\ hit \in Limits!Hit /\ call.at = tick /\ call.client = c
      /\ q \in Limits!Waiting
  BY LimitsBounds DEF LimitsInv, Limits!TypeOK, Limits!Call, Limits!Hit, Limits!Waiting
<1>8. /\ passed' \in Seq(Limits!Call) /\ Len(passed) <= Len(passed')
      /\ \A i \in DOMAIN passed : i \in DOMAIN passed' /\ passed'[i] = passed[i]
      /\ \A i \in DOMAIN passed' \ DOMAIN passed : ok /\ i = Len(passed) + 1 /\ passed'[i] = call
  BY <1>2, <1>7
<1>9. \A i \in DOMAIN passed : /\ passed[i].at \in Nat /\ passed[i].client \in Clients
  <2>1. \A i \in DOMAIN passed : passed[i] \in Limits!Call
    BY <1>7
  <2> QED BY <2>1, LimitsBounds DEF Limits!Call
\* A young hit stays.
<1>10. ASSUME NEW k \in DOMAIN clients, NEW h \in clients[k], h.at + Period > tick
       PROVE  k \in DOMAIN clients' /\ h \in clients'[k]
  <2>1. h.at \in Nat
    BY LimitsBounds DEF LimitsInv, Limits!TypeOK, Limits!Hit
  <2>2. k \in DOMAIN table
    BY <1>3, <1>7, <1>10, <2>1, LimitsBounds
  <2>3. k = c => h \in recent
    BY <1>5, <1>10, <2>2
  <2> HIDE DEF table, recent, ok, hit
  <2> QED BY <1>2, <1>3, <1>10, <2>2, <2>3
<1>11. PassedAreHits'
  <2> SUFFICES ASSUME NEW i \in DOMAIN passed', ~(passed'[i].at + Period <= tick')
               PROVE  /\ passed'[i].client \in DOMAIN clients'
                      /\ [number |-> i, at |-> passed'[i].at] \in clients'[passed'[i].client]
    BY DEF PassedAreHits
  <2>1. CASE i \in DOMAIN passed
    <3>1. passed'[i] = passed[i] /\ tick' = tick /\ passed[i].at + Period > tick
      BY <1>2, <1>7, <1>8, <1>9, <2>1, LimitsBounds
    <3>2. /\ passed[i].client \in DOMAIN clients
          /\ [number |-> i, at |-> passed[i].at] \in clients[passed[i].client]
      BY <1>7, <1>9, <2>1, <3>1, LimitsBounds DEF LimitsInv, PassedAreHits
    <3> QED BY <1>10, <3>1, <3>2
  <2>2. CASE i \notin DOMAIN passed
    <3>1. ok /\ i = Len(passed) + 1 /\ passed'[i] = call
      BY <1>8, <2>2
    <3>2. hit \in clients'[c] /\ c \in DOMAIN clients'
      BY <1>2, <3>1
    <3> QED BY <3>1, <3>2
  <2> QED BY <2>1, <2>2
<1>12. ASSUME NEW k \in DOMAIN clients' PROVE IsFiniteSet(clients'[k]) /\ clients'[k] \subseteq Limits!Hit
  <2> HIDE DEF table, hit
  <2>1. CASE k = c /\ ok
    <3>1. clients'[k] = recent \union {hit}
      BY <1>2, <2>1
    <3> HIDE DEF recent
    <3> QED BY <1>4, <1>7, <3>1, FS_AddElement
  <2>2. CASE ~(k = c /\ ok)
    <3>1. k \in DOMAIN clients /\ clients'[k] = clients[k]
      BY <1>2, <1>3, <1>6, <2>2
    <3> QED BY <3>1 DEF LimitsInv, HitsAreFinite, Limits!TypeOK
  <2> QED BY <2>1, <2>2
<1>13. Limits!TypeOK'
  <2>1. inside' \in [Callers -> {Limits!Idle} \union Limits!Waiting]
    <3> HIDE DEF q, ok
    <3> QED BY <1>2, <1>7 DEF LimitsInv, Limits!TypeOK
  <2> QED BY <1>2, <1>8, <1>12, <2>1 DEF LimitsInv, Limits!TypeOK
<1>14. Limits!WindowHolds'
  <2> SUFFICES ASSUME NEW d \in Clients, NEW t \in 0..LastTime
               PROVE  Limits!Within(passed', d, t, Period) <= Calls
    BY <1>2 DEF LimitsInv, Limits!WindowHolds, Limits!Within
  <2>1. Limits!Within(passed, d, t, Period) <= Calls
    BY DEF LimitsInv, Limits!WindowHolds
  <2>2. CASE ~ok
    BY <1>2, <2>1, <2>2
  <2>3. CASE ok
    <3>1. ASSUME c = d, NEW i \in DOMAIN passed, passed[i].client = d, passed[i].at + Period > tick
          PROVE  [number |-> i, at |-> passed[i].at] \in recent
      <4>1. c \in DOMAIN clients /\ [number |-> i, at |-> passed[i].at] \in clients[c]
        BY <1>7, <1>9, <3>1, LimitsBounds DEF LimitsInv, PassedAreHits
      <4>2. c \in DOMAIN table
        BY <1>3, <1>7, <1>9, <3>1, <4>1, LimitsBounds
      <4> QED BY <1>5, <3>1, <4>1, <4>2
    <3>2. passed' = Append(passed, call)
      BY <1>2, <2>3
    <3>3. Cardinality(recent) < Calls /\ Calls \in Nat /\ Period \in Nat /\ t \in Nat /\ LastTime \in Nat
      BY <2>3, LimitsBounds
    <3>4. Cardinality(LimitsWindow(passed, d, t, Period)) <= Calls
      BY <2>1, LimitsWithin
    <3>5. call.client = d => \A i \in DOMAIN passed : passed[i].client = d /\ passed[i].at + Period > call.at =>
                                                      [number |-> i, at |-> passed[i].at] \in recent
      BY <1>7, <3>1
    <3> HIDE DEF recent, table, call
    <3>6. Cardinality(LimitsWindow(Append(passed, call), d, t, Period)) <= Calls
      BY <1>4, <1>7, <3>3, <3>4, <3>5, WindowTakesOne
    <3> QED BY <3>2, <3>6, LimitsWithin
  <2> QED BY <2>2, <2>3
<1>15. HitsAreFinite' /\ AdmittedAreHits' /\ HitsAreKnown' /\ HitsInOrder'
  BY <1>2, <1>12 DEF LimitsInv, AdmittedAreHits, HitsAreFinite, HitsAreKnown, HitsInOrder
<1> QED BY <1>11, <1>13, <1>14, <1>15 DEF LimitsInv

\* A key that has hits has a last one: the one with the smallest set of hits that are no
\* earlier than it.
LEMMA LastHit ==
    ASSUME NEW hits \in SUBSET Limits!Hit, IsFiniteSet(hits), hits # {}
    PROVE  \E h \in hits : Limits!IsLast(h, hits)
<1> DEFINE Up(h) == {g \in hits : g.number >= h.number}
           T == {Up(h) : h \in hits}
           R == StrictSubsetOrdering(hits)
<1>1. IsWellFoundedOn(R, FiniteSubsetsOf(hits))
  BY FS_StrictSubsetOrderingWellFounded
<1>2. \A h \in hits : Up(h) \in FiniteSubsetsOf(hits)
  BY FS_Subset DEF FiniteSubsetsOf
<1>3. T \subseteq FiniteSubsetsOf(hits) /\ T # {}
  BY <1>2
<1>4. \E U \in T : \A V \in T : <<V, U>> \notin R
  <2> HIDE DEF T, R
  <2> QED BY <1>1, <1>3, WFMin
<1>5. PICK h \in hits : \A g \in hits : <<Up(g), Up(h)>> \notin R
  BY <1>4
<1>6. \A g \in hits : g.number \in Nat
  BY DEF Limits!Hit
<1>7. ASSUME NEW g \in hits, g.number > h.number PROVE FALSE
  <2>1. Up(g) \subseteq Up(h) /\ h \in Up(h) /\ h \notin Up(g)
    <3>1. \A j \in hits : j.number >= g.number => j.number >= h.number
      BY <1>6, <1>7
    <3>2. h.number >= h.number /\ ~(h.number >= g.number)
      BY <1>6, <1>7
    <3> QED BY <3>1, <3>2
  <2>2. <<Up(g), Up(h)>> \in R
    <3>1. Up(g) \in SUBSET hits /\ Up(h) \in SUBSET hits /\ Up(g) # Up(h)
      BY <2>1
    <3> HIDE DEF Up
    <3> QED BY <2>1, <3>1 DEF StrictSubsetOrdering
  <2> QED BY <1>5, <2>2
<1>8. \A g \in hits : g.number <= h.number
  BY <1>6, <1>7
<1> QED BY <1>8 DEF Limits!IsLast

\* What a sweep leaves of the table of the limiter.
LEMMA SweptTable ==
    ASSUME Limits!RateLimiterAssumption, LimitsInv, NEW t \in Nat
    PROVE  LET table == Limits!Swept(t)
           IN /\ DOMAIN table \subseteq DOMAIN requests
              /\ \A k \in DOMAIN table : table[k] = requests[k]
              /\ \A k \in DOMAIN requests \ late : \A h \in requests[k] :
                    h.at + WindowSeconds <= t \/ k \in DOMAIN table
<1> DEFINE stale == {k \in DOMAIN requests :
                        \A h \in requests[k] : Limits!IsLast(h, requests[k]) => h.at + WindowSeconds <= t}
<1>1. Limits!Swept(t) = [k \in DOMAIN requests \ stale |-> requests[k]]
  BY DEF Limits!Swept
<1>2. ASSUME NEW k \in DOMAIN requests \ late, NEW h \in requests[k], k \in stale PROVE h.at + WindowSeconds <= t
  <2>1. requests[k] \subseteq Limits!Hit /\ IsFiniteSet(requests[k])
    BY DEF LimitsInv, Limits!TypeOK, HitsAreFinite
  <2>2. PICK last \in requests[k] : Limits!IsLast(last, requests[k])
    BY <1>2, <2>1, LastHit
  <2>3. h.at <= last.at
    BY <1>2, <2>2 DEF LimitsInv, HitsInOrder, Limits!IsLast
  <2>4. last.at + WindowSeconds <= t
    BY <1>2, <2>2
  <2>5. h.at \in Nat /\ last.at \in Nat
    BY <1>2, <2>1, <2>2, LimitsBounds DEF Limits!Hit
  <2> QED BY <2>3, <2>4, <2>5, LimitsBounds
<1> HIDE DEF stale
<1> QED BY <1>1, <1>2

LEMMA EnterStep ==
    ASSUME Limits!RateLimiterAssumption, LimitsInv, NEW r \in Callers, Limits!Enter(r)
    PROVE  LimitsInv'
<1> DEFINE q == inside[r]
           c == q.client
           t == q.at
           table == IF (calls + 1) % SweepEvery = 0 THEN Limits!Swept(t) ELSE requests
           recent == IF c \in DOMAIN table THEN Limits!Recent(table[c], WindowSeconds, t) ELSE {}
           allowed == Cardinality(recent) < MaxRequests
           hit == [number |-> Len(admitted) + 1, at |-> t]
           call == [client |-> c, at |-> t]
<1>1. q.step = "read"
  BY DEF Limits!Enter
<1>2. q \in Limits!Waiting /\ c \in Clients /\ q.prefix \in Prefixes /\ t \in 0..LastTime /\ t \in Nat
  BY <1>1, LimitsBounds DEF LimitsInv, Limits!TypeOK, Limits!Idle, Limits!Waiting
<1>3. Limits!ClientAddress(c, q.prefix) = c
  BY <1>2, AddressOfClient
<1>4. /\ calls' = calls + 1
      /\ requests' = [k \in DOMAIN table \union {c} |->
                         IF k # c THEN table[k] ELSE IF allowed THEN recent \union {hit} ELSE recent]
      /\ inside' = [inside EXCEPT ![r] = Limits!Idle]
      /\ admitted' = (IF allowed THEN Append(admitted, call) ELSE admitted)
      /\ latest' = (IF t > latest THEN t ELSE latest)
      /\ late' = (IF t < latest THEN late \union {c} ELSE late)
      /\ UNCHANGED <<tick, clients, passed>>
  BY <1>3, CountingLimits DEF Limits!Enter
<1>5. /\ DOMAIN table \subseteq DOMAIN requests
      /\ \A k \in DOMAIN table : table[k] = requests[k]
      /\ \A k \in DOMAIN requests \ late : \A h \in requests[k] :
            h.at + WindowSeconds <= t \/ k \in DOMAIN table
  BY <1>2, SweptTable
<1>6. /\ admitted \in Seq(Limits!Call) /\ Len(admitted) \in Nat /\ DOMAIN admitted = 1..Len(admitted)
      /\ latest \in 0..LastTime /\ latest \in Nat /\ late \subseteq Clients
      /\ call \in Limits!Call /\ hit \in Limits!Hit /\ hit.at = t /\ hit.number = Len(admitted) + 1
      /\ call.at = t /\ call.client = c
  BY <1>2, LimitsBounds DEF LimitsInv, Limits!TypeOK, Limits!Call, Limits!Hit
<1>7. /\ recent \subseteq Limits!Hit /\ IsFiniteSet(recent) /\ Cardinality(recent) \in Nat
      /\ Cardinality(recent) <= MaxRequests
  <2>1. CASE c \in DOMAIN table
    <3>1. /\ recent \subseteq requests[c] /\ IsFiniteSet(requests[c]) /\ requests[c] \subseteq Limits!Hit
          /\ Cardinality(requests[c]) <= MaxRequests
      BY <1>5, <2>1, CountingLimits DEF Limits!Recent, LimitsInv, HitsAreFinite, Limits!TypeOK
    <3> HIDE DEF recent
    <3>2. /\ IsFiniteSet(recent) /\ Cardinality(recent) <= Cardinality(requests[c])
          /\ Cardinality(recent) \in Nat /\ Cardinality(requests[c]) \in Nat
      BY <3>1, FS_Subset, FS_CardinalityType
    <3> QED BY <3>1, <3>2, LimitsBounds
  <2>2. CASE c \notin DOMAIN table
    BY <2>2, FS_EmptySet, LimitsBounds
  <2> QED BY <2>1, <2>2
<1>8. c \in DOMAIN table => recent = {h \in requests[c] : h.at + WindowSeconds > t}
  BY <1>5 DEF Limits!Recent
<1>9. recent # {} => c \in DOMAIN requests /\ recent \subseteq requests[c]
  BY <1>5 DEF Limits!Recent
<1>10. /\ admitted' \in Seq(Limits!Call)
       /\ Len(admitted') = (IF allowed THEN Len(admitted) + 1 ELSE Len(admitted))
       /\ \A i \in DOMAIN admitted : i \in DOMAIN admitted' /\ admitted'[i] = admitted[i]
       /\ \A i \in DOMAIN admitted' \ DOMAIN admitted : allowed /\ i = Len(admitted) + 1 /\ admitted'[i] = call
  BY <1>4, <1>6
<1>11. \A i \in DOMAIN admitted : admitted[i].at \in Nat /\ admitted[i].client \in Clients
  <2>1. \A i \in DOMAIN admitted : admitted[i] \in Limits!Call
    BY <1>6
  <2> QED BY <2>1, LimitsBounds DEF Limits!Call
<1>12. latest' \in 0..LastTime /\ latest' \in Nat /\ latest <= latest' /\ t <= latest' /\ late \subseteq late'
       /\ late' \subseteq Clients /\ (c \notin late' => latest <= t)
  BY <1>2, <1>4, <1>6
<1>13. ASSUME NEW k \in DOMAIN requests, NEW h \in requests[k]
       PROVE  h \in Limits!Hit /\ h.at \in Nat /\ h.number \in Nat /\ h.number <= Len(admitted) /\ h.at <= latest
  BY LimitsBounds DEF LimitsInv, Limits!TypeOK, HitsAreKnown, Limits!Hit
\* Where the hits of a key come from.
<1>14. ASSUME NEW k \in DOMAIN requests'
       PROVE  \/ k \in DOMAIN requests /\ requests'[k] \subseteq requests[k]
              \/ k = c /\ requests'[k] \subseteq recent \union {hit}
  BY <1>4, <1>5, <1>9
<1>15. requests'[c] = (IF allowed THEN recent \union {hit} ELSE recent) /\ c \in DOMAIN requests'
  BY <1>4
<1>16. \A k \in DOMAIN requests' \ {c} : k \in DOMAIN requests /\ requests'[k] = requests[k]
  BY <1>4, <1>5
\* A hit that is younger than the window, of a client that is never late, stays.
<1>17. ASSUME NEW k \in DOMAIN requests \ late', NEW h \in requests[k], h.at + WindowSeconds > latest'
       PROVE  k \in DOMAIN table /\ (k = c => h \in recent) /\ k \in DOMAIN requests' /\ h \in requests'[k]
  <2>1. h.at + WindowSeconds > t
    BY <1>2, <1>12, <1>13, <1>17, LimitsBounds
  <2>2. k \in DOMAIN table
    BY <1>2, <1>5, <1>12, <1>13, <1>17, <2>1, LimitsBounds
  <2>3. k = c => h \in recent
    BY <1>8, <1>17, <2>1, <2>2
  <2> HIDE DEF table, recent, allowed, hit, c
  <2> QED BY <1>4, <1>5, <2>2, <2>3
<1> HIDE DEF table, recent, allowed, hit, call, c, t, q
<1>18. AdmittedAreHits'
  <2> SUFFICES ASSUME NEW i \in DOMAIN admitted', admitted'[i].client \notin late',
                      ~(admitted'[i].at + WindowSeconds <= latest')
               PROVE  /\ admitted'[i].client \in DOMAIN requests'
                      /\ [number |-> i, at |-> admitted'[i].at] \in requests'[admitted'[i].client]
    BY DEF AdmittedAreHits
  <2>1. CASE i \in DOMAIN admitted
    <3>1. admitted'[i] = admitted[i] /\ admitted[i].at + WindowSeconds > latest' /\ admitted[i].client \notin late'
      BY <1>10, <1>11, <1>12, <2>1, LimitsBounds
    <3>2. /\ admitted[i].client \in DOMAIN requests
          /\ [number |-> i, at |-> admitted[i].at] \in requests[admitted[i].client]
      BY <1>6, <1>11, <1>12, <2>1, <3>1, LimitsBounds DEF LimitsInv, AdmittedAreHits
    <3> QED BY <1>17, <3>1, <3>2
  <2>2. CASE i \notin DOMAIN admitted
    <3>1. allowed /\ i = Len(admitted) + 1 /\ admitted'[i] = call
      BY <1>10, <2>2
    <3> QED BY <1>6, <1>15, <3>1 DEF hit
  <2> QED BY <2>1, <2>2
<1>19. HitsAreKnown'
  <2> SUFFICES ASSUME NEW k \in DOMAIN requests', NEW h \in requests'[k]
               PROVE  h.number <= Len(admitted') /\ h.at <= latest'
    BY DEF HitsAreKnown
  <2>1. CASE h = hit /\ allowed
    BY <1>2, <1>6, <1>10, <1>12, <2>1
  <2>2. CASE k \in DOMAIN requests /\ h \in requests[k]
    BY <1>6, <1>10, <1>12, <1>13, <2>2
  <2> QED BY <1>9, <1>15, <1>16, <2>1, <2>2
<1>20. HitsInOrder'
  <2> SUFFICES ASSUME NEW k \in DOMAIN requests' \ late', NEW g \in requests'[k], NEW h \in requests'[k],
                      g.number <= h.number
               PROVE  g.at <= h.at
    BY DEF HitsInOrder
  <2>1. CASE k \in DOMAIN requests /\ g \in requests[k] /\ h \in requests[k]
    BY <1>12, <2>1 DEF LimitsInv, HitsInOrder
  <2>2. CASE k = c /\ h = hit
    <3>1. g = hit \/ (k \in DOMAIN requests /\ g \in requests[k])
      BY <1>9, <1>15, <2>2
    <3> QED BY <1>2, <1>6, <1>12, <1>13, <2>2, <3>1
  <2>3. CASE k = c /\ g = hit /\ h # hit
    <3>1. k \in DOMAIN requests /\ h \in requests[k]
      BY <1>9, <1>15, <2>3
    <3> QED BY <1>6, <1>13, <2>3, <3>1
  <2> QED BY <1>9, <1>15, <1>16, <2>1, <2>2, <2>3
<1>21. ASSUME NEW k \in DOMAIN requests'
       PROVE  /\ IsFiniteSet(requests'[k]) /\ requests'[k] \subseteq Limits!Hit
              /\ Cardinality(requests'[k]) <= MaxRequests
  <2>1. CASE k = c /\ allowed
    <3>1. requests'[k] = recent \union {hit}
      BY <1>15, <2>1
    <3>2. Cardinality(recent) < MaxRequests
      BY <2>1 DEF allowed
    <3>3. /\ IsFiniteSet(recent \union {hit})
          /\ \/ Cardinality(recent \union {hit}) = Cardinality(recent)
             \/ Cardinality(recent \union {hit}) = Cardinality(recent) + 1
      BY <1>7, FS_AddElement
    <3> QED BY <1>6, <1>7, <3>1, <3>2, <3>3, LimitsBounds
  <2>2. CASE k = c /\ ~allowed
    BY <1>7, <1>15, <2>2
  <2>3. CASE k # c
    BY <1>16, <2>3, CountingLimits DEF LimitsInv, HitsAreFinite, Limits!TypeOK
  <2> QED BY <2>1, <2>2, <2>3
<1>22. Limits!TypeOK'
  <2>1. inside' \in [Callers -> {Limits!Idle} \union Limits!Waiting] /\ calls' \in Nat
    BY <1>4 DEF LimitsInv, Limits!TypeOK
  <2> QED BY <1>4, <1>10, <1>12, <1>21, <2>1, CountingLimits DEF LimitsInv, Limits!TypeOK
<1>23. Limits!WindowHolds'
  <2> SUFFICES ASSUME NEW d \in Clients, NEW s \in 0..LastTime, d \notin late'
               PROVE  Limits!Within(admitted', d, s, WindowSeconds) <= MaxRequests
    BY <1>4 DEF LimitsInv, Limits!WindowHolds, Limits!Within
  <2>1. Limits!Within(admitted, d, s, WindowSeconds) <= MaxRequests
    BY <1>12 DEF LimitsInv, Limits!WindowHolds
  <2>2. CASE ~allowed
    BY <1>4, <2>1, <2>2
  <2>3. CASE allowed
    <3>1. ASSUME c = d, NEW i \in DOMAIN admitted, admitted[i].client = d, admitted[i].at + WindowSeconds > t
          PROVE  [number |-> i, at |-> admitted[i].at] \in recent
      <4>1. latest' = t
        BY <1>2, <1>4, <1>6, <1>12, <3>1
      <4>2. c \in DOMAIN requests /\ [number |-> i, at |-> admitted[i].at] \in requests[c]
        BY <1>2, <1>6, <1>11, <1>12, <3>1, LimitsBounds DEF LimitsInv, AdmittedAreHits
      <4> QED BY <1>17, <3>1, <4>1, <4>2
    <3>2. admitted' = Append(admitted, call)
      BY <1>4, <2>3
    <3>3. /\ Cardinality(recent) < MaxRequests /\ MaxRequests \in Nat /\ WindowSeconds \in Nat /\ s \in Nat
          /\ LastTime \in Nat
      BY <2>3, LimitsBounds DEF allowed
    <3>4. Cardinality(LimitsWindow(admitted, d, s, WindowSeconds)) <= MaxRequests
      BY <2>1, LimitsWithin
    <3>5. call.client = d => \A i \in DOMAIN admitted :
              admitted[i].client = d /\ admitted[i].at + WindowSeconds > call.at =>
                  [number |-> i, at |-> admitted[i].at] \in recent
      BY <1>6, <3>1
    <3>6. Cardinality(LimitsWindow(Append(admitted, call), d, s, WindowSeconds)) <= MaxRequests
      BY <1>6, <1>7, <3>3, <3>4, <3>5, WindowTakesOne
    <3> QED BY <3>2, <3>6, LimitsWithin
  <2> QED BY <2>2, <2>3
<1>24. PassedAreHits' /\ HitsAreFinite'
  BY <1>4, <1>21 DEF LimitsInv, PassedAreHits, HitsAreFinite
<1> QED BY <1>18, <1>19, <1>20, <1>22, <1>23, <1>24 DEF LimitsInv

LEMMA InitLimitsInv ==
    ASSUME Limits!RateLimiterAssumption, Limits!Init
    PROVE  LimitsInv
<1>1. /\ tick = 0 /\ clients = <<>> /\ passed = <<>> /\ requests = <<>> /\ calls = 0
      /\ inside = [r \in Callers |-> Limits!Idle] /\ admitted = <<>> /\ latest = 0 /\ late = {}
  BY DEF Limits!Init
<1>2. DOMAIN clients = {} /\ DOMAIN requests = {} /\ DOMAIN passed = {} /\ DOMAIN admitted = {}
  BY <1>1
<1>3. Limits!TypeOK
  BY <1>1, <1>2, LimitsBounds DEF Limits!TypeOK
<1>4. PassedAreHits /\ AdmittedAreHits /\ HitsAreFinite /\ HitsAreKnown /\ HitsInOrder
  BY <1>2 DEF PassedAreHits, AdmittedAreHits, HitsAreFinite, HitsAreKnown, HitsInOrder
<1>5. ASSUME NEW log, DOMAIN log = {}, NEW c, NEW t, NEW length PROVE Limits!Within(log, c, t, length) = 0
  <2>1. LimitsWindow(log, c, t, length) = {}
    BY <1>5 DEF LimitsWindow
  <2> QED BY <2>1, LimitsWithin, FS_EmptySet
<1>6. Limits!WindowHolds
  BY <1>2, <1>5, LimitsBounds DEF Limits!WindowHolds
<1> QED BY <1>3, <1>4, <1>6 DEF LimitsInv

LEMMA StepLimitsInv ==
    ASSUME Limits!RateLimiterAssumption, LimitsInv, [Limits!Next]_(Limits!limiterVars)
    PROVE  LimitsInv'
<1>1. CASE UNCHANGED Limits!limiterVars
  BY <1>1 DEF Limits!limiterVars, LimitsInv, Limits!TypeOK, PassedAreHits, AdmittedAreHits, HitsAreFinite,
              HitsAreKnown, HitsInOrder, Limits!WindowHolds, Limits!Within
<1>2. CASE Limits!Tick
  BY <1>2, TickStep
<1>3. CASE \E r \in Callers : Limits!Dispatch(r) \/ Limits!ReadClock(r) \/ Limits!Enter(r)
  BY <1>3, DispatchStep, ReadStep, EnterStep
<1> QED BY <1>1, <1>2, <1>3 DEF Limits!Next
-----------------------------------------------------------------------------
(* PEOPLE.  The version of an account is the number of times its sessions  *)
(* were ended, and a token has the version of its era; a link that set a   *)
(* password is used or gone.                                               *)

\* What a request has loaded passed its checks; a refresh hands out the version of its era.
PeopleServed(q, ended) ==
    /\ q.form.op # "register" => q.me \in People!Row /\ q.saw \in People!Row
    /\ q.step = "target" => q.form.op \in {"update", "delete"}
    /\ q.step = "loaded" =>
          /\ q.form.op = "refresh" => q.form.user \in ended \/ q.saw.version = q.era
          /\ q.form.op = "reset" => q.link \in ResetLinks /\ q.state \in People!Link /\ ~q.state.used
          /\ q.form.op = "delete_me" => q.saw.role = "GENERAL_USER"
          /\ q.form.op \in {"update", "delete"} /\ q.saw.role = "SUPER_ADMIN" /\ People!Removes(q.form, q.saw) =>
                q.count > 1
VisitsServed == \A r \in Requests : visit[r] \in People!Busy => PeopleServed(visit[r], collided)

\* An account's version counts the ends of its sessions, from its insertion on.
VersionsCountEnds ==
    /\ \A u \in Users \ collided : account[u] # NoRow => account[u].version = era[u]
    /\ \A u \in Users \ gone : account[u] = NoRow => era[u] = 0
TokensKnowTheirEra == \A t \in tokens : t.user \in collided \/ t.ver = t.era

\* A link that set a password is used, or it went with its account.
LinksAreUsedUp == \A l \in ResetLinks : uses[l] # 0 =>
    /\ uses[l] = 1
    /\ IF links[l] = None THEN l \in gone ELSE links[l].used

\* The inductive invariant.
PeopleInv == /\ People!TypeOK /\ VisitsServed /\ VersionsCountEnds /\ TokensKnowTheirEra
             /\ LinksAreUsedUp /\ People!SomeoneInCharge
-----------------------------------------------------------------------------
(* Visits *)

PeopleSteps == {People!Idle, People!Over} \union People!Busy

LEMMA FiniteHere == \A S : People!IsFiniteSet(S) = IsFiniteSet(S)
BY DEF People!IsFiniteSet, IsFiniteSet

LEMMA CountingPeople == \A S : People!Cardinality(S) = Cardinality(S)
BY DEF People!Cardinality, Cardinality

LEMMA PeopleMarks ==
    ASSUME People!AccountsAssumption
    PROVE  /\ NoRow \notin People!Row /\ None \notin People!Link /\ None \notin ResetLinks
           /\ AccountForms \subseteq People!Form /\ IsFiniteSet(Users)
BY FiniteHere DEF People!AccountsAssumption

LEMMA PeopleBusy ==
    ASSUME PeopleInv, NEW r \in Requests,
           visit[r].step \in {"signed", "target", "loaded", "accepted", "issuing", "listed", "linking"}
    PROVE  /\ visit[r] \in People!Busy /\ PeopleServed(visit[r], collided)
           /\ visit[r].form \in People!Form /\ visit[r].form.user \in Users /\ visit[r].form.target \in Users
BY DEF PeopleInv, VisitsServed, People!TypeOK, People!Idle, People!Over, People!Busy, People!Form

\* A request moves; nothing is taken from what the others rely on.
LEMMA PeopleMoves ==
    ASSUME PeopleInv, NEW r \in Requests, NEW q \in PeopleSteps, People!To(r, q),
           q \in People!Busy => PeopleServed(q, collided'), collided \subseteq collided'
    PROVE  visit' \in [Requests -> PeopleSteps] /\ VisitsServed'
<1>1. visit \in [Requests -> PeopleSteps] /\ visit' = [visit EXCEPT ![r] = q]
  BY DEF People!To, PeopleInv, People!TypeOK, PeopleSteps
<1>2. visit' \in [Requests -> PeopleSteps]
  BY <1>1
<1>3. ASSUME NEW s \in Requests, visit'[s] \in People!Busy PROVE PeopleServed(visit'[s], collided')
  <2>1. CASE s = r
    BY <1>1, <1>3, <2>1
  <2>2. CASE s # r
    <3>1. visit'[s] = visit[s] /\ PeopleServed(visit[s], collided)
      BY <1>1, <1>3, <2>2 DEF PeopleInv, VisitsServed
    <3> QED BY <3>1 DEF PeopleServed
  <2> QED BY <2>1, <2>2
<1> QED BY <1>2, <1>3 DEF VisitsServed

LEMMA OverServed == People!Over \in PeopleSteps /\ People!Over \notin People!Busy
BY DEF PeopleSteps, People!Over, People!Busy

\* Only a request has moved, or a code was mailed.
LEMMA PeopleRest ==
    ASSUME PeopleInv, NEW r \in Requests, NEW q \in PeopleSteps, People!To(r, q),
           q \in People!Busy => PeopleServed(q, collided), mailed' \subseteq Users,
           UNCHANGED <<account, tokens, links, gone, era, collided, crossed, uses>>
    PROVE  PeopleInv'
<1>1. visit' \in [Requests -> PeopleSteps] /\ VisitsServed'
  BY PeopleMoves
<1>2. People!TypeOK'
  BY <1>1 DEF PeopleInv, People!TypeOK, PeopleSteps
<1>3. VersionsCountEnds' /\ TokensKnowTheirEra' /\ LinksAreUsedUp' /\ People!SomeoneInCharge'
  BY DEF PeopleInv, VersionsCountEnds, TokensKnowTheirEra, LinksAreUsedUp, People!SomeoneInCharge,
         People!InCharge, People!Existing
<1> QED BY <1>1, <1>2, <1>3 DEF PeopleInv

\* What a request loads first.
LEMMA PeopleFresh ==
    ASSUME PeopleInv, NEW f \in People!Form, f.op = "register" \/ account[f.user] # NoRow,
           NEW step \in {"signed", "target", "loaded", "accepted", "issuing", "listed", "linking"},
           People!AccountsAssumption
    PROVE  LET q == People!Fresh(f, step)
           IN /\ q \in People!Busy /\ q.form = f /\ q.step = step /\ q.era = era[f.user] /\ q.count = 0
              /\ f.op # "register" => /\ q.me = account[f.user] /\ q.saw = account[f.user]
                                      /\ account[f.user] \in People!Row
              /\ q.link = None /\ q.state = None
<1>1. f.user \in Users /\ account[f.user] \in People!Row \union {NoRow} /\ era[f.user] \in Nat
  BY DEF People!Form, PeopleInv, People!TypeOK
<1>2. People!Fresh(f, step) =
         [step |-> step, form |-> f,
          me |-> IF f.op = "register" THEN NoRow ELSE account[f.user],
          saw |-> IF f.op = "register" THEN NoRow ELSE account[f.user], era |-> era[f.user],
          count |-> 0, list |-> {}, link |-> None, state |-> None]
  BY DEF People!Fresh
<1>3. People!Fresh(f, step) \in People!Busy
  BY <1>1, <1>2 DEF People!Busy
<1> QED BY <1>1, <1>2, <1>3

LEMMA PeopleAdmitted ==
    ASSUME NEW f \in People!Form, People!Admitted(f)
    PROVE  /\ f.op = "register" \/ account[f.user] # NoRow
           /\ f.op \notin {"verify_otp", "forgot", "reset"}
           /\ f.op = "delete_me" => account[f.user].role = "GENERAL_USER"
<1>1. f.op \in People!Ops
  BY DEF People!Form
<1>2. CASE f.op = "login"
  BY <1>2 DEF People!Admitted, People!Existing, People!OwnOps, People!AdminOps
<1>3. CASE f.op = "delete_me"
  BY <1>3 DEF People!Admitted, People!Authenticated, People!Existing, People!OwnOps, People!AdminOps
<1>4. CASE f.op \in People!OwnOps \ {"delete_me"}
  BY <1>4 DEF People!Admitted, People!Authenticated, People!Existing, People!OwnOps, People!AdminOps
<1>5. CASE f.op \in People!AdminOps
  BY <1>5 DEF People!Admitted, People!Authenticated, People!Existing, People!OwnOps, People!AdminOps
<1>6. CASE f.op = "register"
  BY <1>6
<1>7. CASE f.op \in {"verify_otp", "forgot", "reset"}
  BY <1>7 DEF People!Admitted, People!OwnOps, People!AdminOps
<1> QED BY <1>1, <1>2, <1>3, <1>4, <1>5, <1>6, <1>7 DEF People!Ops

LEMMA ArriveStep ==
    ASSUME People!AccountsAssumption, PeopleInv, NEW r \in Requests, People!Arrive(r)
    PROVE  PeopleInv'
<1>1. PICK f \in AccountForms : People!Arrive(r)!(f)
  BY DEF People!Arrive
<1> DEFINE step == IF f.op \in {"update", "delete", "purge"} THEN "signed" ELSE "loaded"
           q == People!Fresh(f, step)
<1>2. f \in People!Form /\ People!Admitted(f) /\ People!To(r, q) /\ People!NothingWritten
  BY <1>1, PeopleMarks
<1>3. /\ f.op = "register" \/ account[f.user] # NoRow
      /\ f.op \notin {"verify_otp", "forgot", "reset"}
      /\ f.op = "delete_me" => account[f.user].role = "GENERAL_USER"
  BY <1>2, PeopleAdmitted
<1>4. /\ q \in People!Busy /\ q.form = f /\ q.step = step /\ q.era = era[f.user]
      /\ f.op # "register" => /\ q.me = account[f.user] /\ q.saw = account[f.user]
                              /\ account[f.user] \in People!Row
  BY <1>2, <1>3, PeopleFresh
<1>5. f.op = "refresh" => f.user \in collided \/ account[f.user].version = era[f.user]
  BY <1>2, <1>3 DEF PeopleInv, VersionsCountEnds, People!Form
<1> HIDE DEF q
<1>6. PeopleServed(q, collided)
  BY <1>3, <1>4, <1>5 DEF PeopleServed
<1> QED BY <1>2, <1>4, <1>6, PeopleRest DEF People!NothingWritten, PeopleSteps, PeopleInv, People!TypeOK

LEMMA ForgotStep ==
    ASSUME People!AccountsAssumption, PeopleInv, NEW r \in Requests, People!Forgot(r)
    PROVE  PeopleInv'
<1>1. PICK f \in AccountForms : People!Forgot(r)!(f)
  BY DEF People!Forgot
<1> DEFINE q == People!Fresh(f, "linking")
<1>2. f \in People!Form /\ f.op = "forgot" /\ account[f.user] # NoRow /\ People!To(r, q) /\ People!NothingWritten
  BY <1>1, PeopleMarks DEF People!Existing
<1>3. /\ q \in People!Busy /\ q.form = f /\ q.step = "linking"
      /\ q.me \in People!Row /\ q.saw \in People!Row
  BY <1>2, PeopleFresh
<1> HIDE DEF q
<1>4. PeopleServed(q, collided)
  BY <1>3 DEF PeopleServed
<1> QED BY <1>2, <1>3, <1>4, PeopleRest DEF People!NothingWritten, PeopleSteps, PeopleInv, People!TypeOK

LEMMA AcceptCodeStep ==
    ASSUME People!AccountsAssumption, PeopleInv, NEW r \in Requests, People!AcceptCode(r)
    PROVE  PeopleInv'
<1>1. PICK f \in AccountForms : People!AcceptCode(r)!(f)
  BY DEF People!AcceptCode
<1> DEFINE q == People!Fresh(f, "accepted")
<1>2. /\ f \in People!Form /\ f.op = "verify_otp" /\ account[f.user] # NoRow /\ People!To(r, q)
      /\ mailed' = mailed \ {f.user}
      /\ UNCHANGED <<account, tokens, links, gone, era, collided, crossed, uses>>
  BY <1>1, PeopleMarks DEF People!Existing
<1>3. /\ q \in People!Busy /\ q.form = f /\ q.step = "accepted"
      /\ q.me \in People!Row /\ q.saw \in People!Row
  BY <1>2, PeopleFresh
<1> HIDE DEF q
<1>4. PeopleServed(q, collided)
  BY <1>3 DEF PeopleServed
<1>5. mailed' \subseteq Users
  BY <1>2 DEF PeopleInv, People!TypeOK
<1> QED BY <1>2, <1>3, <1>4, <1>5, PeopleRest DEF PeopleSteps

LEMMA OpenLinkStep ==
    ASSUME People!AccountsAssumption, PeopleInv, NEW r \in Requests, People!OpenLink(r)
    PROVE  PeopleInv'
<1>1. PICK f \in AccountForms, l \in ResetLinks : People!OpenLink(r)!(f, l)
  BY DEF People!OpenLink
<1> DEFINE g == [f EXCEPT !.user = links[l].user]
           p == People!Fresh(g, "loaded")
           q == [p EXCEPT !.link = l, !.state = links[l]]
<1>2. /\ f \in People!Form /\ f.op = "reset" /\ links[l] # None /\ ~links[l].used
      /\ account[links[l].user] # NoRow /\ People!To(r, q) /\ People!NothingWritten
  BY <1>1, PeopleMarks DEF People!Existing
<1>3. links[l] \in People!Link /\ links[l].user \in Users
  BY <1>2 DEF PeopleInv, People!TypeOK, People!Link
<1>4. g \in People!Form /\ g.op = "reset" /\ g.user = links[l].user
  BY <1>2, <1>3 DEF People!Form
<1> HIDE DEF g
<1>5. /\ p \in People!Busy /\ p.form = g /\ p.step = "loaded"
      /\ p.me \in People!Row /\ p.saw \in People!Row
  BY <1>2, <1>4, PeopleFresh
<1> HIDE DEF p
<1>6. /\ q \in People!Busy /\ q.form = g /\ q.step = "loaded" /\ q.me = p.me /\ q.saw = p.saw
      /\ q.link = l /\ q.state = links[l]
  BY <1>3, <1>5 DEF People!Busy
<1> HIDE DEF q
<1>7. PeopleServed(q, collided)
  BY <1>2, <1>3, <1>4, <1>5, <1>6 DEF PeopleServed
<1> QED BY <1>2, <1>6, <1>7, PeopleRest DEF People!NothingWritten, PeopleSteps, PeopleInv, People!TypeOK

LEMMA LoadTargetStep ==
    ASSUME PeopleInv, NEW r \in Requests, People!LoadTarget(r)
    PROVE  PeopleInv'
<1> DEFINE q == visit[r]
           row == account[q.form.target]
           p == [q EXCEPT !.step = "target", !.saw = row]
<1>1. /\ q.step = "signed" /\ q.form.op \in {"update", "delete"} /\ People!NothingWritten
      /\ People!To(r, IF row = NoRow THEN People!Over ELSE p)
  BY DEF People!LoadTarget
<1>2. q \in People!Busy /\ PeopleServed(q, collided) /\ q.form.target \in Users
  BY <1>1, PeopleBusy
<1> HIDE DEF q
<1>3. row \in People!Row \union {NoRow}
  BY <1>2 DEF PeopleInv, People!TypeOK
<1> HIDE DEF row
<1>4. CASE row = NoRow
  BY <1>1, <1>4, OverServed, PeopleRest DEF People!NothingWritten, PeopleInv, People!TypeOK
<1>5. CASE row # NoRow
  <2>1. p \in People!Busy /\ p.step = "target" /\ p.form = q.form /\ p.saw = row /\ p.me = q.me
    BY <1>2, <1>3 DEF People!Busy
  <2> HIDE DEF p
  <2>2. PeopleServed(p, collided)
    BY <1>1, <1>2, <1>3, <1>5, <2>1 DEF PeopleServed
  <2> QED BY <1>1, <1>5, <2>1, <2>2, PeopleRest DEF People!NothingWritten, PeopleSteps, PeopleInv, People!TypeOK
<1> QED BY <1>4, <1>5

LEMMA CheckTargetStep ==
    ASSUME People!AccountsAssumption, PeopleInv, NEW r \in Requests, People!CheckTarget(r)
    PROVE  PeopleInv'
<1> DEFINE q == visit[r]
           f == q.form
           guarded == q.saw.role = "SUPER_ADMIN" /\ People!Removes(f, q.saw)
           ok == (People!Removes(f, q.saw) => f.target # f.user) /\ (guarded => People!EnoughLeft(q))
           n == IF guarded THEN Cardinality(People!Supers(q)) ELSE 0
           p == [q EXCEPT !.step = "loaded", !.count = n]
<1>1. q.step = "target" /\ People!NothingWritten /\ People!To(r, IF ok THEN p ELSE People!Over)
  BY CountingPeople DEF People!CheckTarget
<1>2. q \in People!Busy /\ PeopleServed(q, collided)
  BY <1>1, PeopleBusy
<1>3. n \in Nat
  <2>1. People!Supers(q) \subseteq Users
    BY DEF People!Supers, People!Existing
  <2> QED BY <2>1, PeopleMarks, FS_Subset, FS_CardinalityType
<1>4. ok /\ guarded => n > 1
  BY CountingPeople DEF People!EnoughLeft
<1>5. CASE ~ok
  BY <1>1, <1>5, OverServed, PeopleRest DEF People!NothingWritten, PeopleInv, People!TypeOK
<1>6. CASE ok
  <2>1. p \in People!Busy /\ p.step = "loaded" /\ p.form = f /\ p.saw = q.saw /\ p.me = q.me /\ p.count = n
    <3> HIDE DEF n, q
    <3> QED BY <1>2, <1>3 DEF People!Busy
  <2> HIDE DEF p, n
  <2>2. PeopleServed(p, collided)
    BY <1>1, <1>2, <1>4, <1>6, <2>1 DEF PeopleServed
  <2> QED BY <1>1, <1>6, <2>1, <2>2, PeopleRest DEF People!NothingWritten, PeopleSteps, PeopleInv, People!TypeOK
<1> QED BY <1>5, <1>6

LEMMA ListStep ==
    ASSUME PeopleInv, NEW r \in Requests, People!ListUnverified(r)
    PROVE  PeopleInv'
<1> DEFINE q == visit[r]
           found == {u \in Unproven \intersect People!Existing :
                        ~account[u].known /\ account[u].role = "GENERAL_USER"}
           p == [q EXCEPT !.step = "listed", !.list = found]
<1>1. q.step = "signed" /\ People!NothingWritten /\ People!To(r, p)
  BY DEF People!ListUnverified
<1>2. q \in People!Busy /\ PeopleServed(q, collided)
  BY <1>1, PeopleBusy
<1>3. found \subseteq Users
  BY DEF People!Existing
<1> HIDE DEF found, q
<1>4. p \in People!Busy /\ p.step = "listed" /\ p.form = q.form /\ p.saw = q.saw /\ p.me = q.me
  BY <1>2, <1>3 DEF People!Busy
<1> HIDE DEF p
<1>5. PeopleServed(p, collided)
  BY <1>2, <1>4 DEF PeopleServed
<1> QED BY <1>1, <1>4, <1>5, PeopleRest DEF People!NothingWritten, PeopleSteps, PeopleInv, People!TypeOK

LEMMA EndStep ==
    ASSUME PeopleInv, NEW r \in Requests, People!PurgeEnds(r) \/ People!FindGone(r)
    PROVE  PeopleInv'
<1>1. People!NothingWritten /\ People!To(r, People!Over)
  BY DEF People!PurgeEnds, People!FindGone
<1> QED BY <1>1, OverServed, PeopleRest DEF People!NothingWritten, PeopleInv, People!TypeOK
-----------------------------------------------------------------------------
(* Commits to an account *)

LEMMA PeopleWrittenRow ==
    ASSUME NEW now \in People!Row, NEW saw \in People!Row, NEW new \in People!Row
    PROVE  LET row == People!Written(now, saw, new)
           IN /\ row \in People!Row
              /\ row.role = (IF new.role = saw.role THEN now.role ELSE new.role)
              /\ row.active = (IF new.active = saw.active THEN now.active ELSE new.active)
              /\ row.version = (IF new.version = saw.version THEN now.version ELSE new.version)
BY DEF People!Written, People!Row

\* A commit that ends the sessions counts the version up with the era, but for a collision.
LEMMA PeopleStored ==
    ASSUME PeopleInv, NEW u \in Users, account[u] # NoRow,
           NEW saw \in People!Row, NEW new \in People!Row, NEW revokes \in BOOLEAN,
           new.version = (IF revokes THEN saw.version + 1 ELSE saw.version),
           People!Store(u, saw, new, revokes), UNCHANGED <<tokens, gone>>, People!AccountsAssumption
    PROVE  /\ account' \in [Users -> People!Row \union {NoRow}] /\ era' \in [Users -> Nat]
           /\ collided' \subseteq Users /\ collided \subseteq collided'
           /\ VersionsCountEnds' /\ TokensKnowTheirEra'
           /\ account'[u] = People!Written(account[u], saw, new)
           /\ \A v \in Users \ {u} : account'[v] = account[v]
<1> DEFINE row == People!Written(account[u], saw, new)
<1>1. /\ account \in [Users -> People!Row \union {NoRow}] /\ era \in [Users -> Nat] /\ collided \subseteq Users
      /\ account[u] \in People!Row /\ account[u].version \in Nat /\ saw.version \in Nat
  BY DEF PeopleInv, People!TypeOK, People!Row
<1>2. /\ row \in People!Row
      /\ row.version = (IF new.version = saw.version THEN account[u].version ELSE new.version)
  BY <1>1, PeopleWrittenRow
<1>3. /\ account' = [account EXCEPT ![u] = row]
      /\ era' = IF revokes THEN [era EXCEPT ![u] = @ + 1] ELSE era
      /\ collided' = IF revokes /\ account[u].version # saw.version THEN collided \union {u} ELSE collided
  BY DEF People!Store
<1> HIDE DEF row
<1>4. account' \in [Users -> People!Row \union {NoRow}] /\ era' \in [Users -> Nat]
  BY <1>1, <1>2, <1>3
<1>5. collided' \subseteq Users /\ collided \subseteq collided'
  BY <1>1, <1>3
<1>6. account'[u] = row /\ \A v \in Users \ {u} : account'[v] = account[v]
  BY <1>1, <1>3
<1>7. row # NoRow
  BY <1>2, PeopleMarks
<1>8. VersionsCountEnds'
  <2>1. ASSUME NEW v \in Users \ collided', account'[v] # NoRow PROVE account'[v].version = era'[v]
    <3>1. CASE v = u
      <4>1. account[u].version = era[u]
        BY <1>1, <1>5, <2>1, <3>1, PeopleMarks DEF PeopleInv, VersionsCountEnds
      <4>2. CASE revokes
        BY <1>1, <1>2, <1>3, <1>6, <2>1, <3>1, <4>1, <4>2
      <4>3. CASE ~revokes
        BY <1>1, <1>2, <1>3, <1>6, <2>1, <3>1, <4>1, <4>3
      <4> QED BY <4>2, <4>3
    <3>2. CASE v # u
      <4>1. era'[v] = era[v] /\ account'[v] = account[v] /\ v \notin collided
        BY <1>1, <1>3, <1>5, <1>6, <2>1, <3>2
      <4> QED BY <2>1, <4>1 DEF PeopleInv, VersionsCountEnds
    <3> QED BY <3>1, <3>2
  <2>2. ASSUME NEW v \in Users \ gone', account'[v] = NoRow PROVE era'[v] = 0
    <3>1. v # u /\ account[v] = NoRow /\ v \notin gone
      BY <1>6, <1>7, <2>2
    <3>2. era'[v] = era[v]
      BY <1>1, <1>3, <3>1
    <3> QED BY <3>1, <3>2 DEF PeopleInv, VersionsCountEnds
  <2> QED BY <2>1, <2>2 DEF VersionsCountEnds
<1>9. TokensKnowTheirEra'
  BY <1>5 DEF PeopleInv, TokensKnowTheirEra
<1> QED BY <1>4, <1>5, <1>6, <1>8, <1>9 DEF row

\* Where role and activity of the row stay, the same super admins are in charge.
LEMMA PeopleSameCharge ==
    ASSUME PeopleInv, crossed' = crossed, NEW u \in Users, account[u] # NoRow, account'[u] # NoRow,
           account'[u].role = account[u].role, account'[u].active = account[u].active,
           \A v \in Users \ {u} : account'[v] = account[v]
    PROVE  People!SomeoneInCharge'
<1>1. People!InCharge' = People!InCharge
  BY DEF People!InCharge, People!Existing
<1> QED BY <1>1 DEF PeopleInv, People!SomeoneInCharge

\* A copy in which the sessions may have ended, and nothing else that matters has changed.
LEMMA PeopleKeepsCharge ==
    ASSUME PeopleInv, NEW u \in Users, account[u] # NoRow, crossed' = crossed,
           NEW saw \in People!Row, NEW new \in People!Row, NEW revokes \in BOOLEAN,
           new.version = (IF revokes THEN saw.version + 1 ELSE saw.version),
           new.role = saw.role, new.active = saw.active,
           People!Store(u, saw, new, revokes), UNCHANGED <<tokens, gone>>, People!AccountsAssumption
    PROVE  /\ account' \in [Users -> People!Row \union {NoRow}] /\ era' \in [Users -> Nat]
           /\ collided' \subseteq Users /\ collided \subseteq collided'
           /\ VersionsCountEnds' /\ TokensKnowTheirEra' /\ People!SomeoneInCharge'
<1>1. /\ account' \in [Users -> People!Row \union {NoRow}] /\ era' \in [Users -> Nat]
      /\ collided' \subseteq Users /\ collided \subseteq collided'
      /\ VersionsCountEnds' /\ TokensKnowTheirEra'
      /\ account'[u] = People!Written(account[u], saw, new)
      /\ \A v \in Users \ {u} : account'[v] = account[v]
  BY PeopleStored
<1>2. account[u] \in People!Row
  BY DEF PeopleInv, People!TypeOK
<1>3. account'[u] \in People!Row /\ account'[u].role = account[u].role /\ account'[u].active = account[u].active
  BY <1>1, <1>2, PeopleWrittenRow
<1> QED BY <1>1, <1>3, PeopleSameCharge, PeopleMarks

LEMMA LoginStep ==
    ASSUME People!AccountsAssumption, PeopleInv, NEW r \in Requests, People!Login(r)
    PROVE  PeopleInv'
<1> DEFINE q == visit[r]
           u == q.form.user
           new == [q.saw EXCEPT !.known = TRUE]
           p == IF u \in WithEmail THEN People!Over ELSE [q EXCEPT !.step = "issuing"]
<1>1. /\ q.step = "loaded" /\ q.form.op = "login" /\ account[u] # NoRow
      /\ People!Store(u, q.saw, new, FALSE) /\ People!To(r, p)
      /\ mailed' = (IF u \in WithEmail THEN mailed \union {u} ELSE mailed)
      /\ UNCHANGED <<tokens, links, gone, crossed, uses>>
  BY DEF People!Login
<1>2. q \in People!Busy /\ PeopleServed(q, collided) /\ u \in Users
  BY <1>1, PeopleBusy
<1>3. q.saw \in People!Row
  BY <1>1, <1>2 DEF PeopleServed
<1>4. new \in People!Row /\ new.role = q.saw.role /\ new.active = q.saw.active /\ new.version = q.saw.version
  BY <1>3 DEF People!Row
<1> HIDE DEF new
<1>5. /\ account' \in [Users -> People!Row \union {NoRow}] /\ era' \in [Users -> Nat]
      /\ collided' \subseteq Users /\ collided \subseteq collided'
      /\ VersionsCountEnds' /\ TokensKnowTheirEra' /\ People!SomeoneInCharge'
  BY <1>1, <1>2, <1>3, <1>4, PeopleKeepsCharge
<1>6. p \in PeopleSteps /\ (p \in People!Busy => PeopleServed(p, collided'))
  <2>1. CASE u \in WithEmail
    BY <2>1, OverServed
  <2>2. CASE u \notin WithEmail
    <3> DEFINE i == [q EXCEPT !.step = "issuing"]
    <3>1. i \in People!Busy /\ i.step = "issuing" /\ i.form = q.form /\ i.saw = q.saw /\ i.me = q.me
      BY <1>2 DEF People!Busy
    <3>2. p = i
      BY <2>2
    <3> HIDE DEF i, p, q
    <3> QED BY <1>2, <3>1, <3>2 DEF PeopleServed, PeopleSteps
  <2> QED BY <2>1, <2>2
<1>7. visit' \in [Requests -> PeopleSteps] /\ VisitsServed'
  BY <1>1, <1>5, <1>6, PeopleMoves
<1>8. LinksAreUsedUp'
  BY <1>1 DEF PeopleInv, LinksAreUsedUp
<1>9. People!TypeOK'
  BY <1>1, <1>2, <1>5, <1>7 DEF PeopleInv, People!TypeOK, PeopleSteps
<1> QED BY <1>5, <1>7, <1>8, <1>9 DEF PeopleInv

\* A request goes on to hand out a token or a link.
LEMMA PeopleGoesOn ==
    ASSUME NEW q \in People!Busy, NEW ended, PeopleServed(q, ended), NEW step \in {"issuing", "linking"}
    PROVE  LET p == [q EXCEPT !.step = step]
           IN p \in People!Busy /\ p \in PeopleSteps /\ \A more : PeopleServed(p, more)
<1> DEFINE p == [q EXCEPT !.step = step]
<1>1. p \in People!Busy /\ p.step = step /\ p.form = q.form /\ p.saw = q.saw /\ p.me = q.me
  BY DEF People!Busy
<1> HIDE DEF p
<1>2. \A more : PeopleServed(p, more)
  BY <1>1 DEF PeopleServed
<1>3. p \in PeopleSteps
  BY <1>1 DEF PeopleSteps
<1> QED BY <1>1, <1>2, <1>3 DEF p

LEMMA MarkStep ==
    ASSUME People!AccountsAssumption, PeopleInv, NEW r \in Requests, People!MarkVerified(r)
    PROVE  PeopleInv'
<1> DEFINE q == visit[r]
           u == q.form.user
           row == [account[u] EXCEPT !.known = TRUE]
           p == [q EXCEPT !.step = "issuing"]
<1>1. /\ q.step = "accepted" /\ account[u] # NoRow /\ People!To(r, p)
      /\ account' = [account EXCEPT ![u].known = TRUE]
      /\ UNCHANGED <<tokens, mailed, links, gone, era, collided, crossed, uses>>
  BY DEF People!MarkVerified
<1>2. q \in People!Busy /\ PeopleServed(q, collided) /\ u \in Users
  BY <1>1, PeopleBusy
<1>3. p \in PeopleSteps /\ PeopleServed(p, collided')
  BY <1>2, PeopleGoesOn
<1> HIDE DEF p
<1>4. visit' \in [Requests -> PeopleSteps] /\ VisitsServed'
  BY <1>1, <1>3, PeopleMoves
<1>5. account[u] \in People!Row
  BY <1>1, <1>2 DEF PeopleInv, People!TypeOK
<1>6. /\ row \in People!Row /\ row.role = account[u].role /\ row.active = account[u].active
      /\ row.version = account[u].version
  BY <1>5 DEF People!Row
<1>7. account' = [account EXCEPT ![u] = row]
  BY <1>1
<1> HIDE DEF row, q
<1>8. /\ account' \in [Users -> People!Row \union {NoRow}] /\ account'[u] = row
      /\ \A v \in Users \ {u} : account'[v] = account[v]
  BY <1>2, <1>6, <1>7 DEF PeopleInv, People!TypeOK
<1>9. row # NoRow
  BY <1>6, PeopleMarks
<1>10. VersionsCountEnds'
  BY <1>1, <1>2, <1>6, <1>8, <1>9 DEF PeopleInv, VersionsCountEnds
<1>11. TokensKnowTheirEra' /\ LinksAreUsedUp'
  BY <1>1 DEF PeopleInv, TokensKnowTheirEra, LinksAreUsedUp
<1>12. People!SomeoneInCharge'
  BY <1>1, <1>2, <1>6, <1>8, <1>9, PeopleSameCharge
<1>13. People!TypeOK'
  BY <1>1, <1>4, <1>8 DEF PeopleInv, People!TypeOK, PeopleSteps
<1> QED BY <1>4, <1>10, <1>11, <1>12, <1>13 DEF PeopleInv

\* A token of the right era is handed out.
LEMMA PeopleHandsOut ==
    ASSUME PeopleInv, NEW r \in Requests, People!To(r, People!Over), NEW u \in Users, NEW version \in Nat,
           NEW e \in Nat, u \in collided \/ version = e,
           tokens' = tokens \union {People!Token(u, version, e)},
           UNCHANGED <<account, mailed, links, gone, era, collided, crossed, uses>>
    PROVE  PeopleInv'
<1>1. visit' \in [Requests -> PeopleSteps] /\ VisitsServed'
  BY OverServed, PeopleMoves
<1>2. People!TypeOK'
  BY <1>1 DEF PeopleInv, People!TypeOK, PeopleSteps, People!Token
<1>3. TokensKnowTheirEra'
  BY DEF PeopleInv, TokensKnowTheirEra, People!Token
<1>4. VersionsCountEnds' /\ LinksAreUsedUp' /\ People!SomeoneInCharge'
  BY DEF PeopleInv, VersionsCountEnds, LinksAreUsedUp, People!SomeoneInCharge, People!InCharge, People!Existing
<1> QED BY <1>1, <1>2, <1>3, <1>4 DEF PeopleInv

LEMMA StartStep ==
    ASSUME People!AccountsAssumption, PeopleInv, NEW r \in Requests, People!StartSession(r)
    PROVE  PeopleInv'
<1> DEFINE u == visit[r].form.user
<1>1. /\ visit[r].step = "issuing" /\ account[u] # NoRow /\ People!To(r, People!Over)
      /\ tokens' = tokens \union {People!Token(u, account[u].version, era[u])}
      /\ UNCHANGED <<account, mailed, links, gone, era, collided, crossed, uses>>
  BY DEF People!StartSession
<1>2. u \in Users
  BY <1>1, PeopleBusy
<1> HIDE DEF u
<1>3. account[u].version \in Nat /\ era[u] \in Nat
  BY <1>1, <1>2 DEF PeopleInv, People!TypeOK, People!Row
<1>4. u \in collided \/ account[u].version = era[u]
  BY <1>1, <1>2 DEF PeopleInv, VersionsCountEnds
<1> QED BY <1>1, <1>2, <1>3, <1>4, PeopleHandsOut

LEMMA RefreshStep ==
    ASSUME PeopleInv, NEW r \in Requests, People!Refresh(r)
    PROVE  PeopleInv'
<1> DEFINE q == visit[r]
<1>1. /\ q.step = "loaded" /\ q.form.op = "refresh" /\ People!To(r, People!Over)
      /\ tokens' = tokens \union {People!Token(q.form.user, q.saw.version, q.era)}
      /\ UNCHANGED <<account, mailed, links, gone, era, collided, crossed, uses>>
  BY DEF People!Refresh
<1>2. q \in People!Busy /\ PeopleServed(q, collided) /\ q.form.user \in Users
  BY <1>1, PeopleBusy
<1>3. q.saw.version \in Nat /\ q.era \in Nat /\ (q.form.user \in collided \/ q.saw.version = q.era)
  BY <1>1, <1>2 DEF PeopleServed, People!Busy, People!Row
<1> HIDE DEF q
<1> QED BY <1>1, <1>2, <1>3, PeopleHandsOut

LEMMA PeopleRevoked ==
    ASSUME NEW row \in People!Row
    PROVE  /\ People!Revoked(row) \in People!Row /\ People!Revoked(row).version = row.version + 1
           /\ People!Revoked(row).role = row.role /\ People!Revoked(row).active = row.active
BY DEF People!Revoked, People!Row

\* The owner's own ends of sessions.
LEMMA LogoutStep ==
    ASSUME People!AccountsAssumption, PeopleInv, NEW r \in Requests, People!Logout(r) \/ People!ChangePassword(r)
    PROVE  PeopleInv'
<1> DEFINE q == visit[r]
           u == q.form.user
<1>1. PICK p \in {People!Over, [q EXCEPT !.step = "issuing"]} :
         /\ q.step = "loaded" /\ q.form.op \in {"logout", "change_password"} /\ account[u] # NoRow
         /\ People!Store(u, q.saw, People!Revoked(q.saw), TRUE) /\ People!To(r, p)
         /\ UNCHANGED <<tokens, mailed, links, gone, crossed, uses>>
  BY DEF People!Logout, People!ChangePassword
<1>2. q \in People!Busy /\ PeopleServed(q, collided) /\ u \in Users
  BY <1>1, PeopleBusy
<1>3. q.saw \in People!Row
  BY <1>1, <1>2 DEF PeopleServed
<1>4. /\ account' \in [Users -> People!Row \union {NoRow}] /\ era' \in [Users -> Nat]
      /\ collided' \subseteq Users /\ collided \subseteq collided'
      /\ VersionsCountEnds' /\ TokensKnowTheirEra' /\ People!SomeoneInCharge'
  BY <1>1, <1>2, <1>3, PeopleKeepsCharge, PeopleRevoked
<1>5. p \in PeopleSteps /\ (p \in People!Busy => PeopleServed(p, collided'))
  BY <1>1, <1>2, OverServed, PeopleGoesOn
<1>6. visit' \in [Requests -> PeopleSteps] /\ VisitsServed'
  BY <1>1, <1>4, <1>5, PeopleMoves
<1>7. LinksAreUsedUp'
  BY <1>1 DEF PeopleInv, LinksAreUsedUp
<1>8. People!TypeOK'
  BY <1>1, <1>2, <1>4, <1>6 DEF PeopleInv, People!TypeOK, PeopleSteps
<1> QED BY <1>4, <1>6, <1>7, <1>8 DEF PeopleInv

\* A link counts as one use where it is as it was loaded, unused; it is used after that.
LEMMA ResetStep ==
    ASSUME People!AccountsAssumption, PeopleInv, NEW r \in Requests, People!ResetPassword(r)
    PROVE  PeopleInv'
<1> DEFINE q == visit[r]
           u == q.form.user
           l == q.link
<1>1. /\ q.step = "loaded" /\ q.form.op = "reset" /\ account[u] # NoRow /\ links[l] # None
      /\ People!Store(u, q.saw, People!Revoked(q.saw), TRUE) /\ People!To(r, People!Over)
      /\ links' = [links EXCEPT ![l].used = TRUE]
      /\ uses' = (IF links[l] = q.state THEN [uses EXCEPT ![l] = @ + 1] ELSE uses)
      /\ UNCHANGED <<tokens, mailed, gone, crossed>>
  BY DEF People!ResetPassword
<1>2. q \in People!Busy /\ PeopleServed(q, collided) /\ u \in Users
  BY <1>1, PeopleBusy
<1>3. q.saw \in People!Row /\ l \in ResetLinks /\ ~q.state.used
  BY <1>1, <1>2 DEF PeopleServed
<1>4. /\ account' \in [Users -> People!Row \union {NoRow}] /\ era' \in [Users -> Nat]
      /\ collided' \subseteq Users /\ collided \subseteq collided'
      /\ VersionsCountEnds' /\ TokensKnowTheirEra' /\ People!SomeoneInCharge'
  BY <1>1, <1>2, <1>3, PeopleKeepsCharge, PeopleRevoked
<1>5. visit' \in [Requests -> PeopleSteps] /\ VisitsServed'
  BY <1>1, <1>4, OverServed, PeopleMoves
<1> DEFINE link == [links[l] EXCEPT !.used = TRUE]
<1>6. links[l] \in People!Link /\ link \in People!Link /\ link.used
  BY <1>1, <1>3 DEF PeopleInv, People!TypeOK, People!Link
<1>7. links' = [links EXCEPT ![l] = link]
  BY <1>1
<1> HIDE DEF link
<1>8. links' \in [ResetLinks -> People!Link \union {None}] /\ links'[l] = link
      /\ \A k \in ResetLinks \ {l} : links'[k] = links[k]
  BY <1>3, <1>6, <1>7 DEF PeopleInv, People!TypeOK
<1>9. uses' \in [ResetLinks -> Nat] /\ \A k \in ResetLinks \ {l} : uses'[k] = uses[k]
  BY <1>1, <1>3 DEF PeopleInv, People!TypeOK
<1>10. uses'[l] # 0 => uses'[l] = 1
  <2>1. CASE links[l] = q.state
    <3>1. uses[l] = 0
      BY <1>1, <1>3, <2>1 DEF PeopleInv, LinksAreUsedUp
    <3> QED BY <1>1, <1>3, <2>1, <3>1 DEF PeopleInv, People!TypeOK
  <2>2. CASE links[l] # q.state
    BY <1>1, <1>3, <2>2 DEF PeopleInv, LinksAreUsedUp
  <2> QED BY <2>1, <2>2
<1>11. link # None
  BY <1>6, PeopleMarks
<1> HIDE DEF l, q
<1>12. LinksAreUsedUp'
  BY <1>1, <1>6, <1>8, <1>9, <1>10, <1>11 DEF PeopleInv, LinksAreUsedUp
<1>13. People!TypeOK'
  BY <1>1, <1>4, <1>5, <1>8, <1>9 DEF PeopleInv, People!TypeOK, PeopleSteps
<1> QED BY <1>4, <1>5, <1>12, <1>13 DEF PeopleInv
-----------------------------------------------------------------------------
(* Changes of accounts by their super admins *)

\* Whoever is removed, one of several stays.
LEMMA PeopleOneStays ==
    ASSUME Cardinality(People!InCharge) > 1, NEW u
    PROVE  People!InCharge \ {u} # {}
<1> SUFFICES ASSUME People!InCharge \ {u} = {} PROVE FALSE
  OBVIOUS
<1>1. People!InCharge \subseteq {u} /\ IsFiniteSet({u}) /\ Cardinality({u}) = 1
  BY FS_Singleton
<1> QED BY <1>1, FS_Subset, FS_CardinalityType

\* What a change was decided on, where the rows are still so.
LEMMA PeopleDecided ==
    ASSUME PeopleInv, NEW r \in Requests, visit[r].step = "loaded", visit[r].form.op \in {"update", "delete"},
           ~People!Outdated(visit[r])
    PROVE  LET q == visit[r]
               t == q.form.target
           IN /\ account[t].role = q.saw.role /\ account[t].active = q.saw.active
              /\ q.saw.role = "SUPER_ADMIN" /\ People!Removes(q.form, q.saw) => People!InCharge \ {t} # {}
<1> DEFINE q == visit[r]
<1>1. PeopleServed(q, collided)
  BY PeopleBusy
<1>2. /\ account[q.form.target].role = q.saw.role /\ account[q.form.target].active = q.saw.active
      /\ q.count # 0 => q.count = Cardinality(People!InCharge)
  BY CountingPeople DEF People!Outdated, People!InCharge
<1>3. q.saw.role = "SUPER_ADMIN" /\ People!Removes(q.form, q.saw) => q.count > 1
  BY <1>1 DEF PeopleServed
<1> QED BY <1>2, <1>3, PeopleOneStays

LEMMA UpdateStep ==
    ASSUME People!AccountsAssumption, PeopleInv, NEW r \in Requests, People!UpdateUser(r)
    PROVE  PeopleInv'
<1> DEFINE q == visit[r]
           f == q.form
           t == f.target
           new == [q.saw EXCEPT !.role = IF "role" \in f.set THEN f.role ELSE @,
                                !.active = IF "active" \in f.set THEN f.active ELSE @]
           revokes == People!Deactivates(f) \/ "password" \in f.set
           row == IF revokes THEN People!Revoked(new) ELSE new
           p == IF "password" \in f.set /\ t \in WithEmail THEN [q EXCEPT !.step = "linking"] ELSE People!Over
<1>1. /\ q.step = "loaded" /\ f.op = "update" /\ account[t] # NoRow
      /\ People!Store(t, q.saw, row, revokes)
      /\ crossed' = (crossed \/ People!Outdated(q)) /\ People!To(r, p)
      /\ UNCHANGED <<tokens, mailed, links, gone, uses>>
  BY DEF People!UpdateUser
<1>2. q \in People!Busy /\ PeopleServed(q, collided) /\ f \in People!Form /\ t \in Users
  BY <1>1, PeopleBusy
<1>3. q.saw \in People!Row
  BY <1>1, <1>2 DEF PeopleServed
<1>4. /\ new \in People!Row /\ new.version = q.saw.version
      /\ new.role = (IF "role" \in f.set THEN f.role ELSE q.saw.role)
      /\ new.active = (IF "active" \in f.set THEN f.active ELSE q.saw.active)
  BY <1>2, <1>3 DEF People!Row, People!Form
<1> HIDE DEF new
<1>5. /\ row \in People!Row /\ row.version = (IF revokes THEN q.saw.version + 1 ELSE q.saw.version)
      /\ row.role = new.role /\ row.active = new.active
  BY <1>4, PeopleRevoked
<1>6. revokes \in BOOLEAN
  BY DEF People!Deactivates
<1> HIDE DEF row, revokes
<1>7. /\ account' \in [Users -> People!Row \union {NoRow}] /\ era' \in [Users -> Nat]
      /\ collided' \subseteq Users /\ collided \subseteq collided'
      /\ VersionsCountEnds' /\ TokensKnowTheirEra'
      /\ account'[t] = People!Written(account[t], q.saw, row)
      /\ \A v \in Users \ {t} : account'[v] = account[v]
  BY <1>1, <1>2, <1>3, <1>5, <1>6, PeopleStored
<1>8. p \in PeopleSteps /\ (p \in People!Busy => PeopleServed(p, collided'))
  BY <1>2, OverServed, PeopleGoesOn
<1>9. visit' \in [Requests -> PeopleSteps] /\ VisitsServed'
  BY <1>1, <1>7, <1>8, PeopleMoves
<1>10. LinksAreUsedUp'
  BY <1>1 DEF PeopleInv, LinksAreUsedUp
<1>11. crossed' \in BOOLEAN
  BY <1>1 DEF PeopleInv, People!TypeOK, People!Outdated
<1>12. People!TypeOK'
  BY <1>1, <1>2, <1>7, <1>9, <1>11 DEF PeopleInv, People!TypeOK, PeopleSteps
<1>13. People!SomeoneInCharge'
  <2> SUFFICES ASSUME ~crossed' PROVE People!InCharge' # {}
    BY DEF People!SomeoneInCharge
  <2>1. ~crossed /\ ~People!Outdated(q) /\ People!InCharge # {}
    BY <1>1 DEF PeopleInv, People!SomeoneInCharge, People!TypeOK
  <2>2. /\ account[t].role = q.saw.role /\ account[t].active = q.saw.active
        /\ q.saw.role = "SUPER_ADMIN" /\ People!Removes(f, q.saw) => People!InCharge \ {t} # {}
    BY <1>1, <2>1, PeopleDecided
  <2>3. account[t] \in People!Row
    BY <1>1, <1>2 DEF PeopleInv, People!TypeOK
  <2>4. account'[t] \in People!Row /\ account'[t].role = new.role /\ account'[t].active = new.active
    BY <1>3, <1>5, <1>7, <2>2, <2>3, PeopleWrittenRow
  <2>5. People!InCharge \ {t} \subseteq People!InCharge'
    BY <1>7 DEF People!InCharge, People!Existing
  <2>6. CASE t \notin People!InCharge
    BY <2>1, <2>5, <2>6
  <2>7. CASE t \in People!InCharge /\ People!Removes(f, q.saw)
    BY <2>2, <2>5, <2>7 DEF People!InCharge
  <2>8. CASE t \in People!InCharge /\ ~People!Removes(f, q.saw)
    <3>1. account[t].active /\ account[t].role = "SUPER_ADMIN"
      BY <2>8 DEF People!InCharge
    <3>2. account'[t].active /\ account'[t].role = "SUPER_ADMIN" /\ account'[t] # NoRow
      BY <1>1, <1>4, <2>2, <2>4, <2>8, <3>1, PeopleMarks
         DEF People!Removes, People!Deactivates, People!Demotes
    <3>3. t \in People!InCharge'
      BY <1>2, <3>2 DEF People!InCharge, People!Existing
    <3> QED BY <3>3
  <2> QED BY <2>6, <2>7, <2>8
<1> QED BY <1>7, <1>9, <1>10, <1>12, <1>13 DEF PeopleInv

\* An account goes with its links.
LEMMA PeopleRemoved ==
    ASSUME PeopleInv, NEW u \in Users, People!Remove(u), People!AccountsAssumption
    PROVE  /\ account' \in [Users -> People!Row \union {NoRow}]
           /\ links' \in [ResetLinks -> People!Link \union {None}]
           /\ gone' \subseteq Users \union ResetLinks
           /\ UNCHANGED <<tokens, mailed, era, collided, uses>>
           /\ VersionsCountEnds' /\ TokensKnowTheirEra' /\ LinksAreUsedUp'
           /\ People!InCharge' = People!InCharge \ {u}
<1>1. /\ account' = [account EXCEPT ![u] = NoRow]
      /\ links' = [l \in ResetLinks |-> IF l \in People!LinksOf(u) THEN None ELSE links[l]]
      /\ gone' = gone \union {u} \union People!LinksOf(u)
      /\ UNCHANGED <<tokens, mailed, era, collided, uses>>
  BY DEF People!Remove
<1>2. /\ account' \in [Users -> People!Row \union {NoRow}] /\ account'[u] = NoRow
      /\ \A v \in Users \ {u} : account'[v] = account[v]
  BY <1>1 DEF PeopleInv, People!TypeOK
<1>3. /\ links' \in [ResetLinks -> People!Link \union {None}]
      /\ \A l \in ResetLinks : links'[l] = IF l \in People!LinksOf(u) THEN None ELSE links[l]
  BY <1>1 DEF PeopleInv, People!TypeOK
<1>4. gone' \subseteq Users \union ResetLinks
  BY <1>1 DEF PeopleInv, People!TypeOK, People!LinksOf
<1>5. VersionsCountEnds'
  BY <1>1, <1>2 DEF PeopleInv, VersionsCountEnds
<1>6. TokensKnowTheirEra'
  BY <1>1 DEF PeopleInv, TokensKnowTheirEra
<1>7. LinksAreUsedUp'
  BY <1>1, <1>3 DEF PeopleInv, LinksAreUsedUp
<1>8. People!InCharge' = People!InCharge \ {u}
  BY <1>2 DEF People!InCharge, People!Existing
<1> QED BY <1>1, <1>2, <1>3, <1>4, <1>5, <1>6, <1>7, <1>8

LEMMA DeleteStep ==
    ASSUME People!AccountsAssumption, PeopleInv, NEW r \in Requests, NEW op \in {"delete", "delete_me"},
           People!Delete(r, op)
    PROVE  PeopleInv'
<1> DEFINE q == visit[r]
           t == q.form.target
<1>1. /\ q.step = "loaded" /\ q.form.op = op /\ account[t] # NoRow /\ People!Remove(t)
      /\ crossed' = (crossed \/ People!Outdated(q)) /\ People!To(r, People!Over)
  BY DEF People!Delete
<1>2. PeopleServed(q, collided) /\ t \in Users
  BY <1>1, PeopleBusy
<1>3. /\ account' \in [Users -> People!Row \union {NoRow}]
      /\ links' \in [ResetLinks -> People!Link \union {None}]
      /\ gone' \subseteq Users \union ResetLinks
      /\ UNCHANGED <<tokens, mailed, era, collided, uses>>
      /\ VersionsCountEnds' /\ TokensKnowTheirEra' /\ LinksAreUsedUp'
      /\ People!InCharge' = People!InCharge \ {t}
  BY <1>1, <1>2, PeopleRemoved
<1>4. visit' \in [Requests -> PeopleSteps] /\ VisitsServed'
  BY <1>1, <1>3, OverServed, PeopleMoves
<1>5. crossed' \in BOOLEAN
  BY <1>1 DEF PeopleInv, People!TypeOK, People!Outdated
<1>6. People!TypeOK'
  BY <1>3, <1>4, <1>5 DEF PeopleInv, People!TypeOK, PeopleSteps
<1>7. People!SomeoneInCharge'
  <2> SUFFICES ASSUME ~crossed' PROVE People!InCharge \ {t} # {}
    BY <1>3 DEF People!SomeoneInCharge
  <2>1. ~crossed /\ ~People!Outdated(q) /\ People!InCharge # {}
    BY <1>1 DEF PeopleInv, People!SomeoneInCharge, People!TypeOK
  <2>2. CASE t \notin People!InCharge
    BY <2>1, <2>2
  <2>3. CASE t \in People!InCharge
    <3>1. account[t].role = "SUPER_ADMIN" /\ account[t].role = q.saw.role
      BY <2>1, <2>3 DEF People!InCharge, People!Outdated
    <3>2. op = "delete" /\ People!Removes(q.form, q.saw)
      BY <1>1, <1>2, <3>1 DEF PeopleServed, People!Removes
    <3> QED BY <1>1, <2>1, <3>1, <3>2, PeopleDecided
  <2> QED BY <2>2, <2>3
<1> QED BY <1>3, <1>4, <1>6, <1>7 DEF PeopleInv

LEMMA PurgeStep ==
    ASSUME People!AccountsAssumption, PeopleInv, NEW r \in Requests, People!PurgeOne(r)
    PROVE  PeopleInv'
<1> DEFINE q == visit[r]
<1>1. PICK u \in Users :
         /\ q.step = "listed" /\ u \in q.list /\ account[u] # NoRow /\ People!Remove(u)
         /\ crossed' = (crossed \/ account[u].role # "GENERAL_USER")
         /\ People!To(r, [q EXCEPT !.list = @ \ {u}])
  BY DEF People!PurgeOne
<1> DEFINE p == [q EXCEPT !.list = @ \ {u}]
<1>2. q \in People!Busy /\ PeopleServed(q, collided)
  BY <1>1, PeopleBusy
<1>3. p \in People!Busy /\ p.step = "listed" /\ p.form = q.form /\ p.saw = q.saw /\ p.me = q.me
  BY <1>1, <1>2 DEF People!Busy
<1>4. People!To(r, p)
  BY <1>1
<1> HIDE DEF p
<1>5. /\ account' \in [Users -> People!Row \union {NoRow}]
      /\ links' \in [ResetLinks -> People!Link \union {None}]
      /\ gone' \subseteq Users \union ResetLinks
      /\ UNCHANGED <<tokens, mailed, era, collided, uses>>
      /\ VersionsCountEnds' /\ TokensKnowTheirEra' /\ LinksAreUsedUp'
      /\ People!InCharge' = People!InCharge \ {u}
  BY <1>1, PeopleRemoved
<1>6. PeopleServed(p, collided')
  BY <1>2, <1>3 DEF PeopleServed
<1>7. visit' \in [Requests -> PeopleSteps] /\ VisitsServed'
  BY <1>3, <1>4, <1>5, <1>6, PeopleMoves DEF PeopleSteps
<1>8. People!TypeOK'
  BY <1>1, <1>5, <1>7 DEF PeopleInv, People!TypeOK, PeopleSteps
<1>9. People!SomeoneInCharge'
  BY <1>1, <1>5 DEF PeopleInv, People!SomeoneInCharge, People!TypeOK, People!InCharge
<1> QED BY <1>5, <1>7, <1>8, <1>9 DEF PeopleInv
-----------------------------------------------------------------------------
(* Insertions *)

LEMMA PeopleInserted ==
    ASSUME People!AccountsAssumption, PeopleInv, NEW r \in Requests, NEW u \in Users, NEW row \in People!Row,
           row.version = 0, NEW q \in PeopleSteps, q \in People!Busy => PeopleServed(q, collided),
           People!Insert(r, u, row, q)
    PROVE  PeopleInv'
<1>1. /\ account[u] = NoRow /\ u \notin gone /\ account' = [account EXCEPT ![u] = row] /\ People!To(r, q)
      /\ UNCHANGED <<tokens, mailed, links, gone, era, collided, crossed, uses>>
  BY DEF People!Insert
<1>2. visit' \in [Requests -> PeopleSteps] /\ VisitsServed'
  BY <1>1, PeopleMoves
<1>3. /\ account' \in [Users -> People!Row \union {NoRow}] /\ account'[u] = row
      /\ \A v \in Users \ {u} : account'[v] = account[v]
  BY <1>1 DEF PeopleInv, People!TypeOK
<1>4. row # NoRow
  BY PeopleMarks
<1>5. VersionsCountEnds'
  BY <1>1, <1>3, <1>4 DEF PeopleInv, VersionsCountEnds
<1>6. TokensKnowTheirEra' /\ LinksAreUsedUp'
  BY <1>1 DEF PeopleInv, TokensKnowTheirEra, LinksAreUsedUp
<1>7. People!InCharge \subseteq People!InCharge'
  BY <1>1, <1>3 DEF People!InCharge, People!Existing
<1>8. People!SomeoneInCharge'
  BY <1>1, <1>7 DEF PeopleInv, People!SomeoneInCharge
<1>9. People!TypeOK'
  BY <1>1, <1>2, <1>3 DEF PeopleInv, People!TypeOK, PeopleSteps
<1> QED BY <1>2, <1>5, <1>6, <1>8, <1>9 DEF PeopleInv

LEMMA CreateStep ==
    ASSUME People!AccountsAssumption, PeopleInv, NEW r \in Requests, People!CreateUser(r)
    PROVE  PeopleInv'
<1> DEFINE q == visit[r]
           row == [role |-> q.form.role, active |-> TRUE, version |-> 0, known |-> FALSE]
<1>1. PICK u \in Users :
         /\ q.step = "loaded" /\ q.form.op = "create"
         /\ People!Insert(r, u, row, IF u \in WithEmail THEN [q EXCEPT !.step = "linking", !.form.target = u]
                                     ELSE People!Over)
  BY DEF People!CreateUser
<1>2. q \in People!Busy /\ PeopleServed(q, collided) /\ q.form \in People!Form
  BY <1>1, PeopleBusy
<1>3. row \in People!Row /\ row.version = 0
  BY <1>2 DEF People!Row, People!Form
<1> DEFINE g == [q.form EXCEPT !.target = u]
           p == [q EXCEPT !.step = "linking", !.form = g]
<1>4. [q EXCEPT !.step = "linking", !.form.target = u] = p
  BY <1>2 DEF People!Busy, People!Form
<1>5. g \in People!Form /\ g.op = "create"
  BY <1>1, <1>2 DEF People!Form
<1> HIDE DEF g
<1>6. p \in People!Busy /\ p.step = "linking" /\ p.form = g /\ p.saw = q.saw /\ p.me = q.me
  BY <1>2, <1>5 DEF People!Busy
<1> HIDE DEF p, row
<1>7. PeopleServed(p, collided)
  BY <1>1, <1>2, <1>5, <1>6 DEF PeopleServed
<1> QED BY <1>1, <1>3, <1>4, <1>6, <1>7, OverServed, PeopleInserted DEF PeopleSteps

LEMMA RegisterStep ==
    ASSUME People!AccountsAssumption, PeopleInv, NEW r \in Requests, People!Register(r)
    PROVE  PeopleInv'
<1> DEFINE q == visit[r]
           row == [role |-> "GENERAL_USER", active |-> TRUE, version |-> 0, known |-> TRUE]
<1>1. PICK u \in Users :
         /\ q.step = "loaded" /\ q.form.op = "register"
         /\ People!Insert(r, u, row, [q EXCEPT !.step = "issuing", !.form.user = u])
  BY DEF People!Register
<1>2. q \in People!Busy /\ PeopleServed(q, collided) /\ q.form \in People!Form
  BY <1>1, PeopleBusy
<1>3. row \in People!Row /\ row.version = 0
  BY DEF People!Row, People!Roles
<1> DEFINE g == [q.form EXCEPT !.user = u]
           p == [q EXCEPT !.step = "issuing", !.form = g]
<1>4. [q EXCEPT !.step = "issuing", !.form.user = u] = p
  BY <1>2 DEF People!Busy, People!Form
<1>5. g \in People!Form /\ g.op = "register"
  BY <1>1, <1>2 DEF People!Form
<1> HIDE DEF g
<1>6. p \in People!Busy /\ p.step = "issuing" /\ p.form = g
  BY <1>2, <1>5 DEF People!Busy
<1> HIDE DEF p, row
<1>7. PeopleServed(p, collided)
  BY <1>5, <1>6 DEF PeopleServed
<1> QED BY <1>1, <1>3, <1>4, <1>6, <1>7, PeopleInserted DEF PeopleSteps

\* The number of a new link is no number of a link that was.
LEMMA IssueStep ==
    ASSUME People!AccountsAssumption, PeopleInv, NEW r \in Requests, People!IssueLink(r)
    PROVE  PeopleInv'
<1> DEFINE q == visit[r]
           u == IF q.form.op = "forgot" THEN q.form.user ELSE q.form.target
           link == [user |-> u, used |-> FALSE]
<1>1. PICK l \in ResetLinks :
         /\ q.step = "linking" /\ links[l] = None /\ l \notin gone
         /\ links' = [links EXCEPT ![l] = link] /\ People!To(r, People!Over)
         /\ UNCHANGED <<account, tokens, mailed, gone, era, collided, crossed, uses>>
  BY DEF People!IssueLink
<1>2. link \in People!Link
  BY <1>1, PeopleBusy DEF People!Link
<1> HIDE DEF link
<1>3. /\ links' \in [ResetLinks -> People!Link \union {None}]
      /\ \A k \in ResetLinks \ {l} : links'[k] = links[k]
  BY <1>1, <1>2 DEF PeopleInv, People!TypeOK
<1>4. visit' \in [Requests -> PeopleSteps] /\ VisitsServed'
  BY <1>1, OverServed, PeopleMoves
<1>5. uses[l] = 0
  BY <1>1 DEF PeopleInv, LinksAreUsedUp
<1>6. LinksAreUsedUp'
  BY <1>1, <1>3, <1>5 DEF PeopleInv, LinksAreUsedUp
<1>7. VersionsCountEnds' /\ TokensKnowTheirEra' /\ People!SomeoneInCharge'
  BY <1>1 DEF PeopleInv, VersionsCountEnds, TokensKnowTheirEra, People!SomeoneInCharge, People!InCharge,
              People!Existing
<1>8. People!TypeOK'
  BY <1>1, <1>3, <1>4 DEF PeopleInv, People!TypeOK, PeopleSteps
<1> QED BY <1>4, <1>6, <1>7, <1>8 DEF PeopleInv
-----------------------------------------------------------------------------
(* Every step *)

LEMMA InitPeopleInv == ASSUME People!AccountsAssumption, People!Init PROVE PeopleInv
<1>1. /\ account = [u \in Users |-> IF u \in DOMAIN Staff
            THEN [role |-> Staff[u], active |-> TRUE, version |-> 0, known |-> u \notin Unproven]
            ELSE NoRow]
      /\ tokens = {[user |-> u, ver |-> 0, era |-> 0] : u \in DOMAIN Staff \ Unproven}
      /\ mailed = {} /\ links = [l \in ResetLinks |-> None] /\ visit = [r \in Requests |-> People!Idle]
      /\ gone = {} /\ era = [u \in Users |-> 0] /\ collided = {} /\ crossed = FALSE
      /\ uses = [l \in ResetLinks |-> 0]
  BY DEF People!Init
<1>2. /\ DOMAIN Staff \subseteq Users /\ \A u \in DOMAIN Staff : Staff[u] \in People!Roles
      /\ \E u \in DOMAIN Staff : Staff[u] = "SUPER_ADMIN"
  BY DEF People!AccountsAssumption
<1>3. account \in [Users -> People!Row \union {NoRow}]
  <2>1. ASSUME NEW u \in Users PROVE account[u] \in People!Row \union {NoRow}
    <3>1. CASE u \in DOMAIN Staff
      <4> DEFINE known == u \notin Unproven
      <4>1. account[u] = [role |-> Staff[u], active |-> TRUE, version |-> 0, known |-> known] /\ known \in BOOLEAN
        BY <1>1, <3>1
      <4> HIDE DEF known
      <4> QED BY <1>2, <3>1, <4>1 DEF People!Row
    <3>2. CASE u \notin DOMAIN Staff
      BY <1>1, <3>2
    <3> QED BY <3>1, <3>2
  <2> QED BY <1>1, <2>1
<1>4. People!TypeOK
  <2>1. tokens \subseteq [user : Users, ver : Nat, era : Nat]
    BY <1>1, <1>2
  <2>2. /\ mailed \subseteq Users /\ links \in [ResetLinks -> People!Link \union {None}]
        /\ visit \in [Requests -> {People!Idle, People!Over} \union People!Busy]
        /\ gone \subseteq Users \union ResetLinks /\ era \in [Users -> Nat]
        /\ collided \subseteq Users /\ crossed \in BOOLEAN /\ uses \in [ResetLinks -> Nat]
    BY <1>1
  <2> QED BY <1>3, <2>1, <2>2 DEF People!TypeOK
<1>5. VisitsServed
  BY <1>1 DEF VisitsServed, People!Idle, People!Busy
<1>6. VersionsCountEnds /\ TokensKnowTheirEra /\ LinksAreUsedUp
  BY <1>1 DEF VersionsCountEnds, TokensKnowTheirEra, LinksAreUsedUp
<1>7. People!SomeoneInCharge
  <2>1. PICK u \in DOMAIN Staff : Staff[u] = "SUPER_ADMIN"
    BY <1>2
  <2>2. /\ account[u] = [role |-> "SUPER_ADMIN", active |-> TRUE, version |-> 0, known |-> u \notin Unproven]
        /\ account[u] \in People!Row /\ u \in Users
    BY <1>1, <1>2, <2>1 DEF People!Row, People!Roles
  <2>3. u \in People!InCharge
    BY <2>2, PeopleMarks DEF People!InCharge, People!Existing
  <2> QED BY <2>3 DEF People!SomeoneInCharge
<1> QED BY <1>4, <1>5, <1>6, <1>7 DEF PeopleInv

LEMMA StepPeopleInv ==
    ASSUME People!AccountsAssumption, PeopleInv, [People!Next]_(People!accountsVars)
    PROVE  PeopleInv'
<1>1. CASE UNCHANGED People!accountsVars
  BY <1>1 DEF People!accountsVars, PeopleInv, People!TypeOK, VisitsServed, VersionsCountEnds, TokensKnowTheirEra,
              LinksAreUsedUp, People!SomeoneInCharge, People!InCharge, People!Existing
<1>2. ASSUME NEW r \in Requests, People!Serve(r) PROVE PeopleInv'
  BY <1>2, ArriveStep, ForgotStep, AcceptCodeStep, OpenLinkStep, LoadTargetStep, CheckTargetStep, ListStep,
     LoginStep, MarkStep, StartStep, RefreshStep, LogoutStep, ResetStep, UpdateStep, DeleteStep, PurgeStep,
     EndStep, CreateStep, RegisterStep, IssueStep
     DEF People!Serve, People!DeleteUser, People!DeleteOwnAccount
<1> QED BY <1>1, <1>2 DEF People!Next
-----------------------------------------------------------------------------
(* SITE: from one part, the steps of the others are stuttering *)

LEMMA CodesRun == Spec => Codes!Spec
<1>1. Init => Codes!Init
  BY DEF Init
<1>2. [Next]_siteVars => [Codes!Next]_(Codes!codesVars)
  BY DEF Next, Visit, Verify, Limit, Publish, Audit, Review, Answer, Sign, siteVars, codesVars, Codes!codesVars
<1> QED BY <1>1, <1>2, PTL DEF Spec, Codes!Spec

LEMMA LimitsRun == Spec => Limits!Spec
<1>1. Init => Limits!Init
  BY DEF Init
<1>2. [Next]_siteVars => [Limits!Next]_(Limits!limiterVars)
  BY DEF Next, Visit, Verify, Limit, Publish, Audit, Review, Answer, Sign, siteVars, limiterVars, Limits!limiterVars
<1> QED BY <1>1, <1>2, PTL DEF Spec, Limits!Spec

LEMMA PeopleRun == Spec => People!Spec
<1>1. Init => People!Init
  BY DEF Init
<1>2. [Next]_siteVars => [People!Next]_(People!accountsVars)
  BY DEF Next, Visit, Verify, Limit, Publish, Audit, Review, Answer, Sign, siteVars, accountsVars,
         People!accountsVars
<1> QED BY <1>1, <1>2, PTL DEF Spec, People!Spec
-----------------------------------------------------------------------------
(* Theorems *)

\* What otp_service relies on between its reads and its commits holds throughout.
THEOREM CodesInvariance == Spec => []CodesInv
<1>1. Codes!Init => CodesInv
  BY InitCodesInv, SiteAssumption DEF SiteAssumption
<1>2. CodesInv /\ [Codes!Next]_(Codes!codesVars) => CodesInv'
  BY StepCodesInv, SiteAssumption DEF SiteAssumption
<1> QED BY <1>1, <1>2, CodesRun, PTL DEF Codes!Spec

\* A code is accepted once and takes no more wrong guesses than it may (_consume_code),
\* where no request answered from an outdated row.
THEOREM CodesWorkOnce == Spec => []Codes!CodeWorksOnce
<1>1. CodesInv => Codes!CodeWorksOnce
  BY DEF CodesInv
<1> QED BY <1>1, CodesInvariance, PTL

\* No window of time holds more codes of an address than it may (_create_code), where no
\* two were counted for at once.
THEOREM FewCodes == Spec => []Codes!WithinLimit
<1>1. CodesInv => Codes!WithinLimit
  <2>1. Codes!TypeOK => \A t \in 0..clock : t \in Nat
    BY DEF Codes!TypeOK
  <2> QED BY <2>1, CountingCodes DEF CodesInv, CodesEveryWindow, Codes!WithinLimit, CodesMade
<1> QED BY <1>1, CodesInvariance, PTL

\* What the two limiters find in their tables is what they let through, throughout.
THEOREM LimitsInvariance == Spec => []LimitsInv
<1>1. Limits!Init => LimitsInv
  BY InitLimitsInv, SiteAssumption DEF SiteAssumption
<1>2. LimitsInv /\ [Limits!Next]_(Limits!limiterVars) => LimitsInv'
  BY StepLimitsInv, SiteAssumption DEF SiteAssumption
<1> QED BY <1>1, <1>2, LimitsRun, PTL DEF Limits!Spec

\* No client gets past RateLimitMiddleware more than Calls times in any period, nor past
\* SimpleRateLimiter more than MaxRequests times in any window, whatever it writes into the
\* header and whatever is swept; past the limiter, where none of its calls entered late.
THEOREM LimitersHold == Spec => []WindowHolds
<1>1. LimitsInv => WindowHolds
  BY DEF LimitsInv, WindowHolds
<1> QED BY <1>1, LimitsInvariance, PTL

\* What auth_service relies on between its reads and its commits holds throughout.
THEOREM PeopleInvariance == Spec => []PeopleInv
<1>1. People!Init => PeopleInv
  BY InitPeopleInv, SiteAssumption DEF SiteAssumption
<1>2. PeopleInv /\ [People!Next]_(People!accountsVars) => PeopleInv'
  BY StepPeopleInv, SiteAssumption DEF SiteAssumption
<1> QED BY <1>1, <1>2, PeopleRun, PTL DEF People!Spec

\* Super admins who edit, deactivate and delete each other (_ensure_not_last_super_admin) and
\* who purge the others leave one of them active, where no change was decided on rows that
\* had changed.
THEOREM OneRemains == Spec => []SomeoneInCharge
<1>1. PeopleInv => SomeoneInCharge
  BY DEF PeopleInv, SomeoneInCharge
<1> QED BY <1>1, PeopleInvariance, PTL

\* A token from before a sign-out, a new password or a deactivation never has the version
\* of its account again (revoke_sessions), where no two ended the sessions from one version.
THEOREM RevokedTokensAreRefused == Spec => []RevokedStaysOut
<1>1. PeopleInv => RevokedStaysOut
  <2> SUFFICES ASSUME PeopleInv, NEW t \in tokens, t.user \in People!Existing \ collided, t.era < era[t.user]
               PROVE  t.ver # account[t.user].version
    BY DEF RevokedStaysOut, People!RevokedStaysOut
  <2>1. t.user \in Users /\ account[t.user].version = era[t.user] /\ t.ver = t.era
    BY DEF PeopleInv, VersionsCountEnds, TokensKnowTheirEra, People!Existing
  <2>2. t.era \in Nat /\ era[t.user] \in Nat
    BY <2>1 DEF PeopleInv, People!TypeOK
  <2> QED BY <2>1, <2>2
<1> QED BY <1>1, PeopleInvariance, PTL

\* A mailed secret serves once: the link of reset_password, where no two requests opened it
\* at once, and the code of _consume_code; and an address gets no more of them than it may.
THEOREM SecretsServeOnce == Spec => []SecretsWorkOnce
<1>1. PeopleInv => People!LinkWorksOnce
  BY DEF PeopleInv, LinksAreUsedUp, People!LinkWorksOnce
<1>2. People!LinkWorksOnce /\ Codes!CodeWorksOnce /\ Codes!WithinLimit => SecretsWorkOnce
  BY DEF SecretsWorkOnce
<1> QED BY <1>1, <1>2, PeopleInvariance, CodesWorkOnce, FewCodes, PTL
=============================================================================
