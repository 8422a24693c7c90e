-------------------------- MODULE TicketDeskProofs --------------------------
(***************************************************************************)
(* Proofs about TicketDesk, for every set of requests and tickets, every   *)
(* window and every day.                                                   *)
(***************************************************************************)
EXTENDS TicketDesk, TLAPS

-----------------------------------------------------------------------------
(* Types *)

\* The rows keep their type when a column of one of them is written.
LEMMA RowsWritten ==
    ASSUME rows \in [Tickets -> Row \union {NoRow}], NEW t \in Tickets, Exists(t)
    PROVE  /\ [rows EXCEPT ![t] = [rows[t] EXCEPT !.payment = "PAID"]] \in [Tickets -> Row \union {NoRow}]
           /\ [rows EXCEPT ![t] = [rows[t] EXCEPT !.status = "USED"]] \in [Tickets -> Row \union {NoRow}]
           /\ \A b \in BOOLEAN :
                 [rows EXCEPT ![t] = [rows[t] EXCEPT !.greeted = b]] \in [Tickets -> Row \union {NoRow}]
<1>1. rows[t] \in Row
  BY DEF Exists
<1>2. /\ [rows[t] EXCEPT !.payment = "PAID"] \in Row
      /\ [rows[t] EXCEPT !.status = "USED"] \in Row
      /\ \A b \in BOOLEAN : [rows[t] EXCEPT !.greeted = b] \in Row
  BY <1>1 DEF Row
<1> QED
  BY <1>2

\* So does the history of the greetings.
LEMMA MailWritten ==
    ASSUME mail \in [Tickets -> Mail], NEW t \in Tickets, NEW b \in BOOLEAN
    PROVE  /\ [mail EXCEPT ![t].owed = b] \in [Tickets -> Mail]
           /\ [mail EXCEPT ![t].trouble = b] \in [Tickets -> Mail]
  BY DEF Mail

\* Days are numbers.
LEMMA DaysAreNat ==
    ASSUME day \in Days
    PROVE  /\ day \in Nat /\ Window \in Nat
           /\ \A t \in Tickets : SevaDay[t] \in Nat
  BY DeskAssumption DEF DeskAssumption, Days

\* The window of a seva is a condition, true or false.
LEMMA InWindowIsBoolean == \A t, d : InWindow(t, d) \in BOOLEAN
  BY DEF InWindow

\* Every step keeps the types.
LEMMA TypeStep == TypeOK /\ [Next]_deskVars => TypeOK'
<1> SUFFICES ASSUME TypeOK, [Next]_deskVars PROVE TypeOK'
  OBVIOUS
<1> USE DeskAssumption DEF DeskAssumption, TypeOK, Workers, Goto, Working, Ended
<1>1. ASSUME NEW r \in Requests, IssueOnline(r) PROVE TypeOK'
  <2>1. rows' \in [Tickets -> Row \union {NoRow}]
    BY <1>1 DEF IssueOnline, Row, Write, NowSettled, InWindow
  <2>2. mail' \in [Tickets -> Mail]
    <3>1. [mail EXCEPT ![For[r]].owed = InWindow(For[r], day)] \in [Tickets -> Mail]
      BY MailWritten, InWindowIsBoolean
    <3> QED
      BY <1>1, <3>1 DEF IssueOnline, NowSettled
  <2>3. pc' \in [Workers -> {"idle"} \union Working \union Ended]
    BY <1>1 DEF IssueOnline, Write, NowSettled, InWindow
  <2>4. /\ income' \subseteq Requests /\ entry' \in [Requests -> Requests \union {NoEntry}]
        /\ todo' \in [Workers -> SUBSET Tickets] /\ day' \in Days
    BY <1>1 DEF IssueOnline, Write, NowSettled, InWindow
  <2>5. /\ mailing' \in [Workers -> Tickets \union {NoTicket}]
        /\ \A v \in Workers : pc'[v] \in {"send", "release"} <=> mailing'[v] # NoTicket
    BY <1>1 DEF IssueOnline, Write, NowSettled, InWindow
  <2> QED
    BY <2>1, <2>2, <2>3, <2>4, <2>5
<1>2. ASSUME NEW r \in Requests, IssueCounter(r) PROVE TypeOK'
  <2>1. rows' \in [Tickets -> Row \union {NoRow}]
    BY <1>2 DEF IssueCounter, Row, Write, NowSettled, InWindow
  <2>2. mail' \in [Tickets -> Mail]
    <3>1. [mail EXCEPT ![For[r]].owed = InWindow(For[r], day)] \in [Tickets -> Mail]
      BY MailWritten, InWindowIsBoolean
    <3> QED
      BY <1>2, <3>1 DEF IssueCounter, NowSettled
  <2>3. pc' \in [Workers -> {"idle"} \union Working \union Ended]
    BY <1>2 DEF IssueCounter, Write, NowSettled, InWindow
  <2>4. /\ income' \subseteq Requests /\ entry' \in [Requests -> Requests \union {NoEntry}]
        /\ todo' \in [Workers -> SUBSET Tickets] /\ day' \in Days
    BY <1>2 DEF IssueCounter, Write, NowSettled, InWindow
  <2>5. /\ mailing' \in [Workers -> Tickets \union {NoTicket}]
        /\ \A v \in Workers : pc'[v] \in {"send", "release"} <=> mailing'[v] # NoTicket
    BY <1>2 DEF IssueCounter, Write, NowSettled, InWindow
  <2> QED
    BY <2>1, <2>2, <2>3, <2>4, <2>5
<1>3. ASSUME NEW r \in Requests, PostIncome(r) PROVE TypeOK'
  BY <1>3 DEF PostIncome
<1>4. ASSUME NEW r \in Requests, LoadPending(r) PROVE TypeOK'
  BY <1>4 DEF LoadPending
<1>5. ASSUME NEW r \in Requests, TakePayment(r) PROVE TypeOK'
  <2>1. rows' \in [Tickets -> Row \union {NoRow}]
    <3>1. Exists(For[r]) => [rows EXCEPT ![For[r]] = [rows[For[r]] EXCEPT !.payment = "PAID"]]
                            \in [Tickets -> Row \union {NoRow}]
      BY RowsWritten
    <3> QED
      BY <1>5, <3>1 DEF TakePayment, Write
  <2>2. mail' \in [Tickets -> Mail]
    <3>1. [mail EXCEPT ![For[r]].owed = InWindow(For[r], day)] \in [Tickets -> Mail]
      BY MailWritten, InWindowIsBoolean
    <3>2. mail' = mail \/ mail' = [mail EXCEPT ![For[r]].owed = InWindow(For[r], day)]
      BY <1>5 DEF TakePayment, NowSettled
    <3> QED
      BY <3>1, <3>2
  <2>3. pc' \in [Workers -> {"idle"} \union Working \union Ended]
    BY <1>5 DEF TakePayment, Write, Exists, NowSettled, InWindow
  <2>4. /\ income' \subseteq Requests /\ entry' \in [Requests -> Requests \union {NoEntry}]
        /\ todo' \in [Workers -> SUBSET Tickets] /\ day' \in Days
    BY <1>5 DEF TakePayment, Write, Exists, NowSettled, InWindow
  <2>5. /\ mailing' \in [Workers -> Tickets \union {NoTicket}]
        /\ \A v \in Workers : pc'[v] \in {"send", "release"} <=> mailing'[v] # NoTicket
    BY <1>5 DEF TakePayment, Write, Exists, NowSettled, InWindow
  <2> QED
    BY <2>1, <2>2, <2>3, <2>4, <2>5
<1>6. ASSUME NEW r \in Requests, LoadForScan(r) PROVE TypeOK'
  BY <1>6 DEF LoadForScan
<1>7. ASSUME NEW r \in Requests, MarkUsed(r) PROVE TypeOK'
  <2>1. rows' \in [Tickets -> Row \union {NoRow}]
    <3>1. Exists(For[r]) => [rows EXCEPT ![For[r]] = [rows[For[r]] EXCEPT !.status = "USED"]]
                            \in [Tickets -> Row \union {NoRow}]
      BY RowsWritten
    <3> QED
      BY <1>7, <3>1 DEF MarkUsed, Write
  <2>2. mail' \in [Tickets -> Mail]
    BY <1>7 DEF MarkUsed, Write, Exists
  <2>3. pc' \in [Workers -> {"idle"} \union Working \union Ended]
    BY <1>7 DEF MarkUsed, Write, Exists
  <2>4. /\ income' \subseteq Requests /\ entry' \in [Requests -> Requests \union {NoEntry}]
        /\ todo' \in [Workers -> SUBSET Tickets] /\ day' \in Days
    BY <1>7 DEF MarkUsed, Write, Exists
  <2>5. /\ mailing' \in [Workers -> Tickets \union {NoTicket}]
        /\ \A v \in Workers : pc'[v] \in {"send", "release"} <=> mailing'[v] # NoTicket
    BY <1>7 DEF MarkUsed, Write, Exists
  <2> QED
    BY <2>1, <2>2, <2>3, <2>4, <2>5
<1>8. ASSUME NEW r \in Requests, LoadForDelete(r) PROVE TypeOK'
  BY <1>8 DEF LoadForDelete
<1>9. ASSUME NEW r \in Requests, FindEntry(r) PROVE TypeOK'
  BY <1>9 DEF FindEntry, Entries
<1>10. ASSUME NEW r \in Requests, RemoveEntry(r) PROVE TypeOK'
  BY <1>10 DEF RemoveEntry
<1>11. ASSUME NEW r \in Requests, RemoveTicket(r) PROVE TypeOK'
  BY <1>11 DEF RemoveTicket, Write
<1>12. ASSUME NEW r \in Requests, DueCheck(r) PROVE TypeOK'
  <2>1. rows' \in [Tickets -> Row \union {NoRow}]
    BY <1>12 DEF DueCheck, Owed, InWindow, Settled, Exists
  <2>2. mail' \in [Tickets -> Mail]
    <3>1. Owed(For[r], mail[For[r]].owed) \in BOOLEAN
      BY InWindowIsBoolean DEF Owed, Settled, Exists, Mail
    <3>2. [mail EXCEPT ![For[r]].owed = Owed(For[r], mail[For[r]].owed)] \in [Tickets -> Mail]
      BY <3>1, MailWritten
    <3> QED
      BY <1>12, <3>2 DEF DueCheck
  <2>3. pc' \in [Workers -> {"idle"} \union Working \union Ended]
    BY <1>12 DEF DueCheck, Owed, InWindow, Settled, Exists
  <2>4. /\ income' \subseteq Requests /\ entry' \in [Requests -> Requests \union {NoEntry}]
        /\ todo' \in [Workers -> SUBSET Tickets] /\ day' \in Days
    BY <1>12 DEF DueCheck, Owed, InWindow, Settled, Exists
  <2>5. /\ mailing' \in [Workers -> Tickets \union {NoTicket}]
        /\ \A v \in Workers : pc'[v] \in {"send", "release"} <=> mailing'[v] # NoTicket
    BY <1>12 DEF DueCheck, Owed, InWindow, Settled, Exists
  <2> QED
    BY <2>1, <2>2, <2>3, <2>4, <2>5
<1>13. ASSUME NEW d \in CronDays, ListDue(d) PROVE TypeOK'
  BY <1>13, InWindowIsBoolean DEF ListDue, Mail, Settled, Exists
<1>14. ASSUME NEW w \in Workers, Claim(w) PROVE TypeOK'
  <2>1. rows' \in [Tickets -> Row \union {NoRow}]
    <3>1. PICK t \in Tickets : Claim(w)!(t)
      BY <1>14 DEF Claim
    <3>2. [rows EXCEPT ![t] = [rows[t] EXCEPT !.greeted = TRUE]] \in [Tickets -> Row \union {NoRow}]
      BY <3>1, RowsWritten
    <3> QED
      BY <3>1, <3>2 DEF Write
  <2>2. mail' \in [Tickets -> Mail]
    BY <1>14 DEF Claim, Write, Exists, GoOn
  <2>3. pc' \in [Workers -> {"idle"} \union Working \union Ended]
    BY <1>14 DEF Claim, Write, Exists, GoOn
  <2>4. /\ income' \subseteq Requests /\ entry' \in [Requests -> Requests \union {NoEntry}]
        /\ todo' \in [Workers -> SUBSET Tickets] /\ day' \in Days
    BY <1>14 DEF Claim, Write, Exists, GoOn
  <2>5. /\ mailing' \in [Workers -> Tickets \union {NoTicket}]
        /\ \A v \in Workers : pc'[v] \in {"send", "release"} <=> mailing'[v] # NoTicket
    BY <1>14 DEF Claim, Write, Exists, GoOn
  <2> QED
    BY <2>1, <2>2, <2>3, <2>4, <2>5
<1>15. ASSUME NEW w \in Workers, ClaimGone(w) PROVE TypeOK'
  <2>1. rows' \in [Tickets -> Row \union {NoRow}]
    BY <1>15 DEF ClaimGone, GoOn
  <2>2. mail' \in [Tickets -> Mail]
    BY <1>15 DEF ClaimGone, GoOn
  <2>3. pc' \in [Workers -> {"idle"} \union Working \union Ended]
    BY <1>15 DEF ClaimGone, GoOn
  <2>4. /\ income' \subseteq Requests /\ entry' \in [Requests -> Requests \union {NoEntry}]
        /\ todo' \in [Workers -> SUBSET Tickets] /\ day' \in Days
    BY <1>15 DEF ClaimGone, GoOn
  <2>5. /\ mailing' \in [Workers -> Tickets \union {NoTicket}]
        /\ \A v \in Workers : pc'[v] \in {"send", "release"} <=> mailing'[v] # NoTicket
    BY <1>15 DEF ClaimGone, GoOn
  <2> QED
    BY <2>1, <2>2, <2>3, <2>4, <2>5
<1>16. ASSUME NEW w \in Workers, SendAccepted(w) PROVE TypeOK'
  BY <1>16 DEF SendAccepted, Mail, AfterMail, GoOn
<1>17. ASSUME NEW w \in Workers, SendFailed(w) PROVE TypeOK'
  <2>1. mailing[w] \in Tickets
    BY <1>17 DEF SendFailed
  <2>2. [mail EXCEPT ![mailing[w]].trouble = TRUE] \in [Tickets -> Mail]
    BY <2>1, MailWritten
  <2> QED
    BY <1>17, <2>2 DEF SendFailed
<1>18. ASSUME NEW w \in Workers, Release(w) PROVE TypeOK'
  <2>1. rows' \in [Tickets -> Row \union {NoRow}]
    BY <1>18, RowsWritten DEF Release, Write, Exists
  <2>2. mail' \in [Tickets -> Mail]
    BY <1>18 DEF Release, AfterMail, GoOn, Write, Exists
  <2>3. pc' \in [Workers -> {"idle"} \union Working \union Ended]
    BY <1>18 DEF Release, AfterMail, GoOn, Write, Exists
  <2>4. /\ income' \subseteq Requests /\ entry' \in [Requests -> Requests \union {NoEntry}]
        /\ todo' \in [Workers -> SUBSET Tickets] /\ day' \in Days
    BY <1>18 DEF Release, AfterMail, GoOn, Write, Exists
  <2>5. /\ mailing' \in [Workers -> Tickets \union {NoTicket}]
        /\ \A v \in Workers : pc'[v] \in {"send", "release"} <=> mailing'[v] # NoTicket
    BY <1>18 DEF Release, AfterMail, GoOn, Write, Exists
  <2> QED
    BY <2>1, <2>2, <2>3, <2>4, <2>5
<1>19. CASE Midnight
  BY <1>19 DEF Midnight, Days
<1>20. CASE UNCHANGED deskVars
  BY <1>20 DEF deskVars
<1> QED
  BY <1>1, <1>2, <1>3, <1>4, <1>5, <1>6, <1>7, <1>8, <1>9, <1>10, <1>11, <1>12, <1>13,
     <1>14, <1>15, <1>16, <1>17, <1>18, <1>19, <1>20 DEF Next, Issue, Collect, Scan, Delete, Greet

-----------------------------------------------------------------------------
(* What the actions do to each ticket *)

\* Only the ticket of the request is issued, to be paid, greeted or settled as it says.
LEMMA IssueEffect ==
    ASSUME TypeOK, NEW r \in Requests, IssueOnline(r) \/ IssueCounter(r)
    PROVE  /\ pc[r] = "idle" /\ Asks[r] \cap Issues # {}
           /\ rows' = [rows EXCEPT ![For[r]] = rows'[For[r]]]
           /\ rows'[For[r]] \in Row
           /\ rows'[For[r]].status = "ACTIVE" /\ ~rows'[For[r]].greeted
           /\ \A t \in Tickets \ {For[r]} : mail'[t] = mail[t]
           /\ mail'[For[r]].heard = mail[For[r]].heard
           /\ mail'[For[r]].trouble = mail[For[r]].trouble
           /\ mail'[For[r]].owed => \/ mail[For[r]].owed
                                   \/ /\ InWindow(For[r], day)
                                      /\ rows'[For[r]].payment # "PENDING"
                                      /\ pc'[r] \in {"post", "booked", "due"}
           /\ pc' = [pc EXCEPT ![r] = pc'[r]]
           /\ pc'[r] \in {"post", "booked", "due", "done"}
           /\ pc'[r] = "booked" => rows'[For[r]].payment = "FREE"
           /\ pc'[r] = "post" <=> rows'[For[r]].payment = "PAID"
           /\ UNCHANGED <<income, day, entry, todo, mailing>>
<1> USE DeskAssumption DEF DeskAssumption, TypeOK, Workers, Issues, Goto, Write, NowSettled
<1>1. CASE IssueOnline(r)
  <2>1. PICK p \in {"FREE", "PENDING"} : IssueOnline(r)!(p)
    BY <1>1 DEF IssueOnline
  <2>2. /\ rows' = [rows EXCEPT ![For[r]] = rows'[For[r]]]
        /\ rows'[For[r]] = [payment |-> p, status |-> "ACTIVE", greeted |-> FALSE]
    BY <2>1
  <2>3. \/ mail' = mail
        \/ /\ mail' = [mail EXCEPT ![For[r]].owed = InWindow(For[r], day)]
           /\ p # "PENDING" /\ pc'[r] \in {"post", "booked", "due"}
    <3>1. CASE p = "PENDING"
      BY <2>1, <3>1
    <3>2. CASE p # "PENDING"
      <4>1. mail' = [mail EXCEPT ![For[r]].owed = InWindow(For[r], day)]
        BY <2>1, <3>2
      <4>2. pc'[r] \in {"post", "booked", "due"}
        BY <2>1, <3>2
      <4> QED
        BY <4>1, <4>2, <3>2
    <3> QED
      BY <3>1, <3>2
  <2>4. /\ \A t \in Tickets \ {For[r]} : mail'[t] = mail[t]
        /\ mail'[For[r]].heard = mail[For[r]].heard
        /\ mail'[For[r]].trouble = mail[For[r]].trouble
        /\ mail'[For[r]].owed => \/ mail[For[r]].owed
                                \/ /\ InWindow(For[r], day) /\ p # "PENDING"
                                   /\ pc'[r] \in {"post", "booked", "due"}
    BY <2>3 DEF Mail
  <2>5. rows'[For[r]] \in Row
    BY <2>2 DEF Row
  <2>6. /\ pc[r] = "idle" /\ Asks[r] \cap Issues # {}
        /\ pc' = [pc EXCEPT ![r] = pc'[r]]
        /\ pc'[r] \in {"post", "booked", "due", "done"}
        /\ pc'[r] = "booked" => p = "FREE"
        /\ pc'[r] = "post" <=> p = "PAID"
        /\ UNCHANGED <<income, day, entry, todo, mailing>>
    BY <2>1
  <2> QED
    BY <2>2, <2>4, <2>5, <2>6
<1>2. CASE IssueCounter(r)
  <2>1. PICK p \in {"FREE", "PENDING", "PAID"} : IssueCounter(r)!(p)
    BY <1>2 DEF IssueCounter
  <2>2. /\ rows' = [rows EXCEPT ![For[r]] = rows'[For[r]]]
        /\ rows'[For[r]] = [payment |-> p, status |-> "ACTIVE", greeted |-> FALSE]
    BY <2>1
  <2>3. \/ mail' = mail
        \/ /\ mail' = [mail EXCEPT ![For[r]].owed = InWindow(For[r], day)]
           /\ p # "PENDING" /\ pc'[r] \in {"post", "booked", "due"}
    <3>1. CASE p = "PENDING"
      BY <2>1, <3>1
    <3>2. CASE p # "PENDING"
      <4>1. mail' = [mail EXCEPT ![For[r]].owed = InWindow(For[r], day)]
        BY <2>1, <3>2
      <4>2. pc'[r] \in {"post", "booked", "due"}
        BY <2>1, <3>2
      <4> QED
        BY <4>1, <4>2, <3>2
    <3> QED
      BY <3>1, <3>2
  <2>4. /\ \A t \in Tickets \ {For[r]} : mail'[t] = mail[t]
        /\ mail'[For[r]].heard = mail[For[r]].heard
        /\ mail'[For[r]].trouble = mail[For[r]].trouble
        /\ mail'[For[r]].owed => \/ mail[For[r]].owed
                                \/ /\ InWindow(For[r], day) /\ p # "PENDING"
                                   /\ pc'[r] \in {"post", "booked", "due"}
    BY <2>3 DEF Mail
  <2>5. rows'[For[r]] \in Row
    BY <2>2 DEF Row
  <2>6. /\ pc[r] = "idle" /\ Asks[r] \cap Issues # {}
        /\ pc' = [pc EXCEPT ![r] = pc'[r]]
        /\ pc'[r] \in {"post", "booked", "due", "done"}
        /\ pc'[r] = "booked" => p = "FREE"
        /\ pc'[r] = "post" <=> p = "PAID"
        /\ UNCHANGED <<income, day, entry, todo, mailing>>
    BY <2>1
  <2> QED
    BY <2>2, <2>4, <2>5, <2>6
<1> QED
  BY <1>1, <1>2

\* A payment of a row that is still there marks it paid and posts its income.
LEMMA TakeEffect ==
    ASSUME TypeOK, NEW r \in Requests, TakePayment(r)
    PROVE  /\ pc[r] = "take"
           /\ \/ /\ Exists(For[r])
                 /\ rows' = [rows EXCEPT ![For[r]] = rows'[For[r]]]
                 /\ rows'[For[r]] \in Row
                 /\ rows'[For[r]].payment = "PAID"
                 /\ rows'[For[r]].status = rows[For[r]].status
                 /\ rows'[For[r]].greeted = rows[For[r]].greeted
                 /\ mail'[For[r]].owed => mail[For[r]].owed \/ InWindow(For[r], day)
                 /\ pc' = [pc EXCEPT ![r] = "due"]
                 /\ income' = income \union {r}
              \/ ~Exists(For[r]) /\ pc' = [pc EXCEPT ![r] = "failed"] /\ UNCHANGED <<rows, mail, income>>
           /\ \A t \in Tickets \ {For[r]} : mail'[t] = mail[t]
           /\ mail'[For[r]].heard = mail[For[r]].heard
           /\ mail'[For[r]].trouble = mail[For[r]].trouble
           /\ UNCHANGED <<day, entry, todo, mailing>>
<1> USE DeskAssumption DEF DeskAssumption, TypeOK, Workers, Goto, Write, NowSettled
<1>1. CASE Exists(For[r])
  <2>1. rows[For[r]] \in Row
    BY <1>1 DEF Exists
  <2>2. rows' = [rows EXCEPT ![For[r]] = [rows[For[r]] EXCEPT !.payment = "PAID"]]
    BY <1>1 DEF TakePayment
  <2>3. /\ rows'[For[r]] \in Row /\ rows'[For[r]].payment = "PAID"
        /\ rows'[For[r]].status = rows[For[r]].status
        /\ rows'[For[r]].greeted = rows[For[r]].greeted
    BY <2>1, <2>2 DEF Row
  <2>4. mail' = mail \/ mail' = [mail EXCEPT ![For[r]].owed = InWindow(For[r], day)]
    BY <1>1 DEF TakePayment
  <2>5. /\ \A t \in Tickets \ {For[r]} : mail'[t] = mail[t]
        /\ mail'[For[r]].heard = mail[For[r]].heard
        /\ mail'[For[r]].trouble = mail[For[r]].trouble
        /\ mail'[For[r]].owed => mail[For[r]].owed \/ InWindow(For[r], day)
    BY <2>4 DEF Mail
  <2> QED
    BY <1>1, <2>2, <2>3, <2>5 DEF TakePayment
<1>2. CASE ~Exists(For[r])
  BY <1>2 DEF TakePayment
<1> QED
  BY <1>1, <1>2

\* A scan changes nothing but the status of its ticket.
LEMMA UseEffect ==
    ASSUME TypeOK, NEW r \in Requests, MarkUsed(r)
    PROVE  /\ pc[r] = "use"
           /\ \A t \in Tickets : rows'[t] # NoRow => /\ rows[t] # NoRow
                                                  /\ rows'[t].payment = rows[t].payment
                                                  /\ rows'[t].greeted = rows[t].greeted
           /\ \A t \in Tickets \ {For[r]} : rows'[t] = rows[t]
           /\ pc' = [pc EXCEPT ![r] = pc'[r]] /\ pc'[r] \in {"done", "failed"}
           /\ UNCHANGED <<income, day, entry, todo, mailing, mail>>
  BY DeskAssumption DEF DeskAssumption, TypeOK, Workers, Goto, Write, Exists, MarkUsed, Row

\* The look at a ticket's due date lists the ticket, or does not, and settles what
\* it is owed, and nothing else.
LEMMA DueEffect ==
    ASSUME TypeOK, NEW r \in Requests, DueCheck(r)
    PROVE  /\ pc[r] \in {"due", "booked"}
           /\ \/ /\ pc' = [pc EXCEPT ![r] = "claim"]
                 /\ todo' = [todo EXCEPT ![r] = {For[r]}]
                 /\ pc[r] = "due" => Settled(For[r])
                 /\ InWindow(For[r], day)
              \/ /\ pc' = [pc EXCEPT ![r] = "done"]
                 /\ todo' = [todo EXCEPT ![r] = {}]
                 /\ pc[r] = "due" => ~Due(For[r], day)
                 /\ pc[r] = "booked" => ~(For[r] \in Greetable /\ InWindow(For[r], day))
           /\ \A t \in Tickets \ {For[r]} : mail'[t] = mail[t]
           /\ mail'[For[r]].heard = mail[For[r]].heard
           /\ mail'[For[r]].trouble = mail[For[r]].trouble
           /\ mail'[For[r]].owed <=> /\ day < SevaDay[For[r]] + Window
                                   /\ \/ mail[For[r]].owed
                                      \/ Settled(For[r]) /\ InWindow(For[r], day)
           /\ UNCHANGED <<rows, income, day, entry, mailing>>
<1>1. /\ \A t \in Tickets \ {For[r]} : mail'[t] = mail[t]
      /\ mail'[For[r]].heard = mail[For[r]].heard
      /\ mail'[For[r]].trouble = mail[For[r]].trouble
      /\ mail'[For[r]].owed <=> /\ day < SevaDay[For[r]] + Window
                              /\ \/ mail[For[r]].owed
                                 \/ Settled(For[r]) /\ InWindow(For[r], day)
  <2>1. /\ mail' = [mail EXCEPT ![For[r]].owed = Owed(For[r], mail[For[r]].owed)]
        /\ For[r] \in Tickets /\ mail[For[r]] \in Mail
    BY DeskAssumption DEF DeskAssumption, TypeOK, DueCheck
  <2>2. /\ \A t \in Tickets \ {For[r]} : mail'[t] = mail[t]
        /\ mail'[For[r]].heard = mail[For[r]].heard
        /\ mail'[For[r]].trouble = mail[For[r]].trouble
        /\ mail'[For[r]].owed = Owed(For[r], mail[For[r]].owed)
    BY <2>1 DEF TypeOK, Mail
  <2>3. Owed(For[r], mail[For[r]].owed) <=> /\ day < SevaDay[For[r]] + Window
                                           /\ \/ mail[For[r]].owed
                                              \/ Settled(For[r]) /\ InWindow(For[r], day)
    <3>1. day \in Nat /\ SevaDay[For[r]] \in Nat /\ Window \in Nat
      BY <2>1, DaysAreNat DEF TypeOK
    <3>2. CASE day >= SevaDay[For[r]] + Window
      BY <3>1, <3>2 DEF Owed
    <3>3. CASE day < SevaDay[For[r]] + Window
      BY <3>1, <3>3 DEF Owed
    <3> QED
      BY <3>1, <3>2, <3>3
  <2> QED
    BY <2>2, <2>3
<1>2. CASE pc[r] = "booked"
  BY <1>1, <1>2 DEF DueCheck, Goto
<1>3. CASE pc[r] = "due"
  BY <1>1, <1>3 DEF DueCheck, Goto, Due
<1> QED
  BY <1>2, <1>3 DEF DueCheck

\* A run of the cron job lists the tickets due and notes those that are owed a
\* greeting, and nothing else.
LEMMA ListEffect ==
    ASSUME TypeOK, NEW d \in CronDays, ListDue(d)
    PROVE  /\ pc[d] = "idle"
           /\ pc' = [pc EXCEPT ![d] = pc'[d]] /\ pc'[d] \in {"done", "claim"}
           /\ todo' = [todo EXCEPT ![d] = {t \in Tickets : Due(t, day)}]
           /\ todo'[d] # {} => pc'[d] = "claim"
           /\ \A t \in Tickets :
                 /\ mail'[t].heard = mail[t].heard
                 /\ mail'[t].trouble = mail[t].trouble
                 /\ mail'[t].owed <=> mail[t].owed \/ (Settled(t) /\ InWindow(t, day))
           /\ UNCHANGED <<rows, income, day, entry, mailing>>
<1>1. \A t \in Tickets :
        /\ mail'[t].heard = mail[t].heard
        /\ mail'[t].trouble = mail[t].trouble
        /\ mail'[t].owed <=> mail[t].owed \/ (Settled(t) /\ InWindow(t, day))
  BY DEF TypeOK, ListDue, Mail
<1>2. pc' = [pc EXCEPT ![d] = pc'[d]] /\ pc'[d] \in {"done", "claim"}
  BY DEF TypeOK, ListDue, Goto, Workers
<1>3. todo'[d] # {} => pc'[d] = "claim"
  BY DEF TypeOK, ListDue, Goto, Workers
<1> QED
  BY <1>1, <1>2, <1>3 DEF ListDue

\* A claim takes a listed ticket, and marks the row unless another one has.
LEMMA ClaimEffect ==
    ASSUME TypeOK, NEW w \in Workers, Claim(w)
    PROVE  \E t \in todo[w] :
              /\ pc[w] \in {"claim", "again"} /\ Exists(t)
              /\ todo' = [todo EXCEPT ![w] = @ \ {t}]
              /\ pc' = [pc EXCEPT ![w] = pc'[w]]
              /\ \/ /\ rows[t].greeted /\ UNCHANGED <<rows, mailing>>
                    /\ pc'[w] = GoOn(todo[w] \ {t})
                 \/ /\ ~rows[t].greeted
                    /\ rows' = [rows EXCEPT ![t] = rows'[t]] /\ rows'[t] # NoRow
                    /\ rows'[t].payment = rows[t].payment
                    /\ rows'[t].status = rows[t].status /\ rows'[t].greeted
                    /\ mailing' = [mailing EXCEPT ![w] = t]
                    /\ pc'[w] = "send"
              /\ UNCHANGED <<income, day, entry, mail>>
<1>1. PICK t \in todo[w] : Claim(w)!(t)
  BY DEF Claim
<1>2. t \in Tickets /\ rows[t] \in Row
  BY <1>1 DEF TypeOK, Exists
<1>3. Write(t, [rows[t] EXCEPT !.greeted = TRUE]) =>
         /\ rows' = [rows EXCEPT ![t] = rows'[t]] /\ rows'[t] # NoRow
         /\ rows'[t].payment = rows[t].payment
         /\ rows'[t].status = rows[t].status /\ rows'[t].greeted
  <2> SUFFICES ASSUME rows' = [rows EXCEPT ![t] = [rows[t] EXCEPT !.greeted = TRUE]]
               PROVE  /\ rows' = [rows EXCEPT ![t] = rows'[t]] /\ rows'[t] # NoRow
                      /\ rows'[t].payment = rows[t].payment
                      /\ rows'[t].status = rows[t].status /\ rows'[t].greeted
    BY DEF Write
  <2>1. rows'[t] = [rows[t] EXCEPT !.greeted = TRUE]
    BY <1>2 DEF TypeOK
  <2>2. rows'[t] \in Row
    BY <2>1, <1>2 DEF Row
  <2> QED
    BY <1>2, <2>1, <2>2, DeskAssumption DEF DeskAssumption, Row
<1>4. pc' = [pc EXCEPT ![w] = pc'[w]]
  BY <1>1 DEF Goto, TypeOK
<1> QED
  BY <1>1, <1>3, <1>4 DEF Goto, TypeOK

\* An acknowledged mail is counted for its ticket, and its worker goes on or fails.
LEMMA SendEffect ==
    ASSUME TypeOK, NEW w \in Workers, SendAccepted(w)
    PROVE  /\ pc[w] = "send" /\ mailing[w] \in Tickets
           /\ \A t \in Tickets \ {mailing[w]} : mail'[t] = mail[t]
           /\ mail'[mailing[w]].heard = mail[mailing[w]].heard + 1
           /\ mail'[mailing[w]].trouble = mail[mailing[w]].trouble
           /\ mail'[mailing[w]].owed = mail[mailing[w]].owed
           /\ mailing' = [mailing EXCEPT ![w] = NoTicket]
           /\ pc' = [pc EXCEPT ![w] = pc'[w]]
           /\ pc'[w] = "failed" \/ pc'[w] = GoOn(todo[w])
           /\ UNCHANGED <<rows, income, day, entry, todo>>
<1>1. mailing[w] \in Tickets
  BY DEF TypeOK, SendAccepted
<1>2. /\ \A t \in Tickets \ {mailing[w]} : mail'[t] = mail[t]
      /\ mail'[mailing[w]].heard = mail[mailing[w]].heard + 1
      /\ mail'[mailing[w]].trouble = mail[mailing[w]].trouble
      /\ mail'[mailing[w]].owed = mail[mailing[w]].owed
  BY <1>1 DEF TypeOK, SendAccepted, Mail
<1>3. /\ pc' = [pc EXCEPT ![w] = pc'[w]]
      /\ pc'[w] = "failed" \/ pc'[w] = GoOn(todo[w])
  BY DEF TypeOK, SendAccepted, AfterMail, Goto
<1> QED
  BY <1>1, <1>2, <1>3 DEF SendAccepted

\* A failed mail is noted for its ticket.
LEMMA FailEffect ==
    ASSUME TypeOK, NEW w \in Workers, SendFailed(w)
    PROVE  /\ pc[w] = "send" /\ mailing[w] \in Tickets
           /\ \A t \in Tickets \ {mailing[w]} : mail'[t] = mail[t]
           /\ mail'[mailing[w]].heard = mail[mailing[w]].heard
           /\ mail'[mailing[w]].trouble
           /\ mail'[mailing[w]].owed = mail[mailing[w]].owed
           /\ pc' = [pc EXCEPT ![w] = "release"]
           /\ UNCHANGED <<rows, income, day, entry, todo, mailing>>
<1>1. mailing[w] \in Tickets
  BY DEF TypeOK, SendFailed
<1>2. /\ \A t \in Tickets \ {mailing[w]} : mail'[t] = mail[t]
      /\ mail'[mailing[w]].heard = mail[mailing[w]].heard
      /\ mail'[mailing[w]].trouble
      /\ mail'[mailing[w]].owed = mail[mailing[w]].owed
  BY <1>1 DEF TypeOK, SendFailed, Mail
<1> QED
  BY <1>1, <1>2 DEF SendFailed, Goto

\* A release gives the claim of its ticket back, and changes no other column.
LEMMA ReleaseEffect ==
    ASSUME TypeOK, NEW w \in Workers, Release(w)
    PROVE  /\ pc[w] = "release" /\ mailing[w] \in Tickets
           /\ \A t \in Tickets \ {mailing[w]} : rows'[t] = rows[t]
           /\ \/ /\ Exists(mailing[w])
                 /\ rows'[mailing[w]] # NoRow
                 /\ rows'[mailing[w]].payment = rows[mailing[w]].payment
                 /\ rows'[mailing[w]].status = rows[mailing[w]].status
                 /\ ~rows'[mailing[w]].greeted
              \/ ~Exists(mailing[w]) /\ rows'[mailing[w]] = NoRow
           /\ mailing' = [mailing EXCEPT ![w] = NoTicket]
           /\ pc' = [pc EXCEPT ![w] = pc'[w]]
           /\ pc'[w] = "failed" \/ pc'[w] = GoOn(todo[w])
           /\ UNCHANGED <<income, day, entry, todo, mail>>
<1>1. mailing[w] \in Tickets
  BY DEF TypeOK, Release
<1>2. /\ \A t \in Tickets \ {mailing[w]} : rows'[t] = rows[t]
      /\ \/ /\ Exists(mailing[w])
            /\ rows'[mailing[w]] # NoRow
            /\ rows'[mailing[w]].payment = rows[mailing[w]].payment
            /\ rows'[mailing[w]].status = rows[mailing[w]].status
            /\ ~rows'[mailing[w]].greeted
         \/ ~Exists(mailing[w]) /\ rows'[mailing[w]] = NoRow
  <2>1. CASE Exists(mailing[w])
    <3>1. rows[mailing[w]] \in Row
      BY <1>1, <2>1 DEF TypeOK, Exists
    <3>2. rows' = [rows EXCEPT ![mailing[w]] = [rows[mailing[w]] EXCEPT !.greeted = FALSE]]
      BY <2>1 DEF Release, Write
    <3>3. rows'[mailing[w]] = [rows[mailing[w]] EXCEPT !.greeted = FALSE]
      BY <1>1, <3>2 DEF TypeOK
    <3>4. rows'[mailing[w]] \in Row
      BY <3>1, <3>3 DEF Row
    <3>5. /\ rows'[mailing[w]].payment = rows[mailing[w]].payment
          /\ rows'[mailing[w]].status = rows[mailing[w]].status
          /\ ~rows'[mailing[w]].greeted
      BY <3>1, <3>3 DEF Row
    <3>6. rows'[mailing[w]] # NoRow /\ \A t \in Tickets \ {mailing[w]} : rows'[t] = rows[t]
      BY <1>1, <3>2, <3>4, DeskAssumption DEF DeskAssumption, TypeOK
    <3> QED
      BY <2>1, <3>5, <3>6
  <2>2. CASE ~Exists(mailing[w])
    BY <1>1, <2>2 DEF Release, Exists
  <2> QED
    BY <2>1, <2>2
<1>3. /\ pc' = [pc EXCEPT ![w] = pc'[w]]
      /\ pc'[w] = "failed" \/ pc'[w] = GoOn(todo[w])
  BY DEF TypeOK, Release, AfterMail, Goto
<1> QED
  BY <1>1, <1>2, <1>3 DEF Release

\* No step makes a worker idle again.
LEMMA IdleBefore ==
    ASSUME TypeOK, [Next]_deskVars, NEW w \in Workers, pc'[w] = "idle"
    PROVE  pc[w] = "idle"
<1> USE DeskAssumption DEF DeskAssumption, TypeOK, Workers, Goto
<1>1. ASSUME NEW r \in Requests, Issue(r) \/ Collect(r) \/ Scan(r) \/ Delete(r) \/ DueCheck(r)
      PROVE  pc[w] = "idle"
  BY <1>1 DEF Issue, Collect, Scan, Delete, DueCheck, IssueOnline, IssueCounter, PostIncome, LoadPending,
              TakePayment, LoadForScan, MarkUsed, LoadForDelete, FindEntry, RemoveEntry, RemoveTicket
<1>2. ASSUME NEW d \in CronDays, ListDue(d) PROVE pc[w] = "idle"
  BY <1>2 DEF ListDue
<1>3. ASSUME NEW v \in Workers, Greet(v) PROVE pc[w] = "idle"
  <2>1. CASE Claim(v)
    BY <2>1, ClaimEffect DEF GoOn
  <2>4. CASE ClaimGone(v)
    <3>1. PICK x \in {"failed", "done", "again"} : pc' = [pc EXCEPT ![v] = x]
      BY <2>4 DEF ClaimGone, GoOn
    <3> QED
      BY <3>1
  <2>2. CASE SendAccepted(v) \/ SendFailed(v)
    BY <2>2 DEF SendAccepted, SendFailed, AfterMail, GoOn
  <2>3. CASE Release(v)
    <3>1. PICK x \in {"failed", "done", "again"} : pc' = [pc EXCEPT ![v] = x]
      BY <2>3 DEF Release, AfterMail, GoOn
    <3> QED
      BY <3>1
  <2> QED
    BY <1>3, <2>1, <2>2, <2>3, <2>4 DEF Greet
<1>4. CASE Midnight \/ UNCHANGED deskVars
  BY <1>4 DEF Midnight, deskVars
<1> QED
  BY <1>1, <1>2, <1>3, <1>4 DEF Next

-----------------------------------------------------------------------------
(* Each part of the invariant is preserved *)

\* Nobody does anything for a ticket that was not issued: what it takes is a row.
LEMMA NothingBeforeIssueStep == IInv /\ [Next]_deskVars => NothingBeforeIssue'
<1> SUFFICES ASSUME IInv, [Next]_deskVars, NEW q \in Requests,
                    pc'[q] = "idle", Asks[q] \cap Issues # {}
             PROVE  (Untouched(q))'
  BY DEF NothingBeforeIssue, Untouched
<1>0. pc[q] = "idle" /\ Untouched(q)
  BY IdleBefore DEF IInv, NothingBeforeIssue, Untouched, Workers
<1>t. TypeOK /\ TypeOK'
  BY TypeStep DEF IInv
<1> USE <1>0, <1>t, DeskAssumption DEF DeskAssumption, TypeOK, Workers, Untouched, Exists,
    Entries, Tried, Open, Settled, InWindow
<1>1. ASSUME NEW r \in Requests, IssueOnline(r) \/ IssueCounter(r) PROVE (Untouched(q))'
  BY <1>1, IssueEffect
<1>2. ASSUME NEW r \in Requests, PostIncome(r) PROVE (Untouched(q))'
  BY <1>2 DEF PostIncome, Goto
<1>3. ASSUME NEW r \in Requests, LoadPending(r) PROVE (Untouched(q))'
  BY <1>3 DEF LoadPending, Goto
<1>4. ASSUME NEW r \in Requests, TakePayment(r) PROVE (Untouched(q))'
  BY <1>4, TakeEffect
<1>5. ASSUME NEW r \in Requests, LoadForScan(r) PROVE (Untouched(q))'
  BY <1>5 DEF LoadForScan, Goto
<1>6. ASSUME NEW r \in Requests, MarkUsed(r) PROVE (Untouched(q))'
  BY <1>6, UseEffect
<1>7. ASSUME NEW r \in Requests, LoadForDelete(r) PROVE (Untouched(q))'
  BY <1>7 DEF LoadForDelete, Goto
<1>8. ASSUME NEW r \in Requests, FindEntry(r) PROVE (Untouched(q))'
  BY <1>8 DEF FindEntry, Goto
<1>9. ASSUME NEW r \in Requests, RemoveEntry(r) PROVE (Untouched(q))'
  BY <1>9 DEF RemoveEntry, Goto
<1>10. ASSUME NEW r \in Requests, RemoveTicket(r) PROVE (Untouched(q))'
  BY <1>10 DEF RemoveTicket, Write, Goto
<1>11. ASSUME NEW r \in Requests, DueCheck(r) PROVE (Untouched(q))'
  BY <1>11, DueEffect DEF Due
<1>12. ASSUME NEW d \in CronDays, ListDue(d) PROVE (Untouched(q))'
  <2>1. ~Due(For[q], day)
    BY DEF Due
  <2>2. /\ \A v \in Workers : For[q] \notin todo'[v]
        /\ \A v \in Requests : pc'[v] = pc[v]
    BY <1>12, <2>1, ListEffect
  <2> QED
    BY <1>12, <2>2, ListEffect
<1>13. ASSUME NEW w \in Workers, Claim(w) PROVE (Untouched(q))'
  BY <1>13, ClaimEffect DEF GoOn
<1>14. ASSUME NEW w \in Workers, ClaimGone(w) PROVE (Untouched(q))'
  BY <1>14 DEF ClaimGone, Goto, GoOn
<1>15. ASSUME NEW w \in Workers, SendAccepted(w) PROVE (Untouched(q))'
  BY <1>15, SendEffect DEF GoOn
<1>16. ASSUME NEW w \in Workers, SendFailed(w) PROVE (Untouched(q))'
  BY <1>16, FailEffect
<1>17. ASSUME NEW w \in Workers, Release(w) PROVE (Untouched(q))'
  BY <1>17, ReleaseEffect DEF GoOn
<1>18. CASE Midnight
  BY <1>18 DEF Midnight
<1>19. CASE UNCHANGED deskVars
  BY <1>19 DEF deskVars
<1> QED
  BY <1>1, <1>2, <1>3, <1>4, <1>5, <1>6, <1>7, <1>8, <1>9, <1>10, <1>11, <1>12, <1>13, <1>14,
      <1>15, <1>16, <1>17, <1>18, <1>19 DEF Next, Issue, Collect, Scan, Delete, Greet

\* A settled ticket stays settled, and a ledger entry stays linked to its ticket.
LEMMA DecisionsHoldStep == IInv /\ [Next]_deskVars => DecisionsHold'
<1> SUFFICES ASSUME IInv, [Next]_deskVars, NEW q \in Requests PROVE (Decided(q))'
  BY DEF DecisionsHold, Decided
<1>0. Decided(q) /\ NothingBeforeIssue
  BY DEF IInv, DecisionsHold, Decided
<1>t. TypeOK /\ TypeOK'
  BY TypeStep DEF IInv
<1> USE <1>0, <1>t, DeskAssumption DEF DeskAssumption, TypeOK, Workers, Decided,
    NothingBeforeIssue, Untouched, Open, Exists, Settled, Entries
<1>1. ASSUME NEW r \in Requests, IssueOnline(r) \/ IssueCounter(r) PROVE (Decided(q))'
  BY <1>1, IssueEffect
<1>2. ASSUME NEW r \in Requests, PostIncome(r) PROVE (Decided(q))'
  BY <1>2 DEF PostIncome, Goto
<1>3. ASSUME NEW r \in Requests, LoadPending(r) PROVE (Decided(q))'
  BY <1>3 DEF LoadPending, Goto
<1>4. ASSUME NEW r \in Requests, TakePayment(r) PROVE (Decided(q))'
  BY <1>4, TakeEffect
<1>5. ASSUME NEW r \in Requests, LoadForScan(r) PROVE (Decided(q))'
  BY <1>5 DEF LoadForScan, Goto
<1>6. ASSUME NEW r \in Requests, MarkUsed(r) PROVE (Decided(q))'
  BY <1>6, UseEffect
<1>7. ASSUME NEW r \in Requests, LoadForDelete(r) PROVE (Decided(q))'
  BY <1>7 DEF LoadForDelete, Goto
<1>8. ASSUME NEW r \in Requests, FindEntry(r) PROVE (Decided(q))'
  BY <1>8 DEF FindEntry, Goto
<1>9. ASSUME NEW r \in Requests, RemoveEntry(r) PROVE (Decided(q))'
  BY <1>9 DEF RemoveEntry, Goto
<1>10. ASSUME NEW r \in Requests, RemoveTicket(r) PROVE (Decided(q))'
  BY <1>10 DEF RemoveTicket, Write, Goto
<1>11. ASSUME NEW r \in Requests, DueCheck(r) PROVE (Decided(q))'
  BY <1>11, DueEffect DEF Due
<1>12. ASSUME NEW d \in CronDays, ListDue(d) PROVE (Decided(q))'
  BY <1>12, ListEffect DEF Due
<1>13. ASSUME NEW w \in Workers, Claim(w) PROVE (Decided(q))'
  BY <1>13, ClaimEffect DEF GoOn
<1>14. ASSUME NEW w \in Workers, ClaimGone(w) PROVE (Decided(q))'
  BY <1>14 DEF ClaimGone, Goto, GoOn
<1>15. ASSUME NEW w \in Workers, SendAccepted(w) PROVE (Decided(q))'
  BY <1>15, SendEffect DEF GoOn
<1>16. ASSUME NEW w \in Workers, SendFailed(w) PROVE (Decided(q))'
  BY <1>16, FailEffect
<1>17. ASSUME NEW w \in Workers, Release(w) PROVE (Decided(q))'
  BY <1>17, ReleaseEffect DEF GoOn
<1>18. CASE Midnight
  BY <1>18 DEF Midnight
<1>19. CASE UNCHANGED deskVars
  BY <1>19 DEF deskVars
<1> QED
  BY <1>1, <1>2, <1>3, <1>4, <1>5, <1>6, <1>7, <1>8, <1>9, <1>10, <1>11, <1>12, <1>13, <1>14,
      <1>15, <1>16, <1>17, <1>18, <1>19 DEF Next, Issue, Collect, Scan, Delete, Greet

\* A ticket is marked used only after its payment, which no step takes back.
LEMMA PaidBeforeUseStep == IInv /\ [Next]_deskVars => PaidBeforeUse'
<1> DEFINE PaidIfUsed(u) == Exists(u) /\ rows[u].status = "USED" => rows[u].payment # "PENDING"
<1> SUFFICES ASSUME IInv, [Next]_deskVars, NEW t \in Tickets PROVE PaidIfUsed(t)'
  BY DEF PaidBeforeUse
<1>0. PaidIfUsed(t) /\ NothingBeforeIssue /\ DecisionsHold
  BY DEF IInv, PaidBeforeUse
<1>t. TypeOK /\ TypeOK'
  BY TypeStep DEF IInv
<1> USE <1>0, <1>t, DeskAssumption DEF DeskAssumption, TypeOK, Workers, NothingBeforeIssue,
    Untouched, DecisionsHold, Decided, Exists, Settled
<1>1. ASSUME NEW r \in Requests, IssueOnline(r) \/ IssueCounter(r) PROVE PaidIfUsed(t)'
  BY <1>1, IssueEffect
<1>2. ASSUME NEW r \in Requests, PostIncome(r) PROVE PaidIfUsed(t)'
  BY <1>2 DEF PostIncome, Goto
<1>3. ASSUME NEW r \in Requests, LoadPending(r) PROVE PaidIfUsed(t)'
  BY <1>3 DEF LoadPending, Goto
<1>4. ASSUME NEW r \in Requests, TakePayment(r) PROVE PaidIfUsed(t)'
  BY <1>4, TakeEffect
<1>5. ASSUME NEW r \in Requests, LoadForScan(r) PROVE PaidIfUsed(t)'
  BY <1>5 DEF LoadForScan, Goto
<1>6. ASSUME NEW r \in Requests, MarkUsed(r) PROVE PaidIfUsed(t)'
  BY <1>6, UseEffect
<1>7. ASSUME NEW r \in Requests, LoadForDelete(r) PROVE PaidIfUsed(t)'
  BY <1>7 DEF LoadForDelete, Goto
<1>8. ASSUME NEW r \in Requests, FindEntry(r) PROVE PaidIfUsed(t)'
  BY <1>8 DEF FindEntry, Goto
<1>9. ASSUME NEW r \in Requests, RemoveEntry(r) PROVE PaidIfUsed(t)'
  BY <1>9 DEF RemoveEntry, Goto
<1>10. ASSUME NEW r \in Requests, RemoveTicket(r) PROVE PaidIfUsed(t)'
  BY <1>10 DEF RemoveTicket, Write, Goto
<1>11. ASSUME NEW r \in Requests, DueCheck(r) PROVE PaidIfUsed(t)'
  BY <1>11, DueEffect DEF Due
<1>12. ASSUME NEW d \in CronDays, ListDue(d) PROVE PaidIfUsed(t)'
  BY <1>12, ListEffect DEF Due
<1>13. ASSUME NEW w \in Workers, Claim(w) PROVE PaidIfUsed(t)'
  BY <1>13, ClaimEffect DEF GoOn
<1>14. ASSUME NEW w \in Workers, ClaimGone(w) PROVE PaidIfUsed(t)'
  BY <1>14 DEF ClaimGone, Goto, GoOn
<1>15. ASSUME NEW w \in Workers, SendAccepted(w) PROVE PaidIfUsed(t)'
  BY <1>15, SendEffect DEF GoOn
<1>16. ASSUME NEW w \in Workers, SendFailed(w) PROVE PaidIfUsed(t)'
  BY <1>16, FailEffect
<1>17. ASSUME NEW w \in Workers, Release(w) PROVE PaidIfUsed(t)'
  BY <1>17, ReleaseEffect DEF GoOn
<1>18. CASE Midnight
  BY <1>18 DEF Midnight
<1>19. CASE UNCHANGED deskVars
  BY <1>19 DEF deskVars
<1> QED
  BY <1>1, <1>2, <1>3, <1>4, <1>5, <1>6, <1>7, <1>8, <1>9, <1>10, <1>11, <1>12, <1>13, <1>14,
      <1>15, <1>16, <1>17, <1>18, <1>19 DEF Next, Issue, Collect, Scan, Delete, Greet

\* A ticket becomes paid together with its entry, or on the way to it; an entry goes
\* on the way to the ticket's deletion.
LEMMA LedgerAgreesStep == IInv /\ [Next]_deskVars => LedgerAgrees'
<1> DEFINE Agrees(u) == Exists(u) => EntryAsPaid(u)
<1> SUFFICES ASSUME IInv, [Next]_deskVars, NEW t \in Tickets PROVE Agrees(t)'
  BY DEF LedgerAgrees
<1>0. Agrees(t) /\ NothingBeforeIssue /\ DecisionsHold
  BY DEF IInv, LedgerAgrees
<1>t. TypeOK /\ TypeOK'
  BY TypeStep DEF IInv
<1> USE <1>0, <1>t, DeskAssumption DEF DeskAssumption, TypeOK, Workers, EntryAsPaid,
    NothingBeforeIssue, Untouched, Open, DecisionsHold, Decided, Exists, Entries
<1>1. ASSUME NEW r \in Requests, IssueOnline(r) \/ IssueCounter(r) PROVE Agrees(t)'
  <2>1. CASE t = For[r]
    <3>1. Untouched(r)
      BY <1>1, <2>1, IssueEffect
    <3>2. Entries(t)' = {}
      BY <1>1, <2>1, <3>1, IssueEffect
    <3>3. rows'[t].payment = "PAID" => pc'[r] = "post"
      BY <1>1, <2>1, IssueEffect
    <3> QED
      BY <2>1, <3>2, <3>3
  <2>2. CASE t # For[r]
    BY <1>1, <2>2, IssueEffect
  <2> QED
    BY <2>1, <2>2
<1>2. ASSUME NEW r \in Requests, PostIncome(r) PROVE Agrees(t)'
  BY <1>2 DEF PostIncome, Goto
<1>3. ASSUME NEW r \in Requests, LoadPending(r) PROVE Agrees(t)'
  BY <1>3 DEF LoadPending, Goto
<1>4. ASSUME NEW r \in Requests, TakePayment(r) PROVE Agrees(t)'
  BY <1>4, TakeEffect
<1>5. ASSUME NEW r \in Requests, LoadForScan(r) PROVE Agrees(t)'
  BY <1>5 DEF LoadForScan, Goto
<1>6. ASSUME NEW r \in Requests, MarkUsed(r) PROVE Agrees(t)'
  BY <1>6, UseEffect
<1>7. ASSUME NEW r \in Requests, LoadForDelete(r) PROVE Agrees(t)'
  BY <1>7 DEF LoadForDelete, Goto
<1>8. ASSUME NEW r \in Requests, FindEntry(r) PROVE Agrees(t)'
  BY <1>8 DEF FindEntry, Goto
<1>9. ASSUME NEW r \in Requests, RemoveEntry(r) PROVE Agrees(t)'
  BY <1>9 DEF RemoveEntry, Goto
<1>10. ASSUME NEW r \in Requests, RemoveTicket(r) PROVE Agrees(t)'
  BY <1>10 DEF RemoveTicket, Write, Goto
<1>11. ASSUME NEW r \in Requests, DueCheck(r) PROVE Agrees(t)'
  BY <1>11, DueEffect DEF Due
<1>12. ASSUME NEW d \in CronDays, ListDue(d) PROVE Agrees(t)'
  BY <1>12, ListEffect DEF Due
<1>13. ASSUME NEW w \in Workers, Claim(w) PROVE Agrees(t)'
  BY <1>13, ClaimEffect DEF GoOn
<1>14. ASSUME NEW w \in Workers, ClaimGone(w) PROVE Agrees(t)'
  BY <1>14 DEF ClaimGone, Goto, GoOn
<1>15. ASSUME NEW w \in Workers, SendAccepted(w) PROVE Agrees(t)'
  BY <1>15, SendEffect DEF GoOn
<1>16. ASSUME NEW w \in Workers, SendFailed(w) PROVE Agrees(t)'
  BY <1>16, FailEffect
<1>17. ASSUME NEW w \in Workers, Release(w) PROVE Agrees(t)'
  BY <1>17, ReleaseEffect DEF GoOn
<1>18. CASE Midnight
  BY <1>18 DEF Midnight
<1>19. CASE UNCHANGED deskVars
  BY <1>19 DEF deskVars
<1> QED
  BY <1>1, <1>2, <1>3, <1>4, <1>5, <1>6, <1>7, <1>8, <1>9, <1>10, <1>11, <1>12, <1>13, <1>14,
      <1>15, <1>16, <1>17, <1>18, <1>19 DEF Next, Issue, Collect, Scan, Delete, Greet

\* A claim needs a row that is not marked, and marks it.
LEMMA OneSenderStep == IInv /\ [Next]_deskVars => OneSender'
<1> SUFFICES ASSUME IInv, [Next]_deskVars PROVE OneSender'
  OBVIOUS
<1>0. OneSender /\ NothingBeforeIssue
  BY DEF IInv
<1>t. TypeOK /\ TypeOK'
  BY TypeStep DEF IInv
<1> USE <1>0, <1>t, DeskAssumption DEF DeskAssumption, TypeOK, Workers, OneSender,
    NothingBeforeIssue, Untouched, Exists
<1>1. ASSUME NEW r \in Requests, IssueOnline(r) \/ IssueCounter(r) PROVE OneSender'
  BY <1>1, IssueEffect
<1>2. ASSUME NEW r \in Requests, PostIncome(r) PROVE OneSender'
  BY <1>2 DEF PostIncome, Goto
<1>3. ASSUME NEW r \in Requests, LoadPending(r) PROVE OneSender'
  BY <1>3 DEF LoadPending, Goto
<1>4. ASSUME NEW r \in Requests, TakePayment(r) PROVE OneSender'
  BY <1>4, TakeEffect
<1>5. ASSUME NEW r \in Requests, LoadForScan(r) PROVE OneSender'
  BY <1>5 DEF LoadForScan, Goto
<1>6. ASSUME NEW r \in Requests, MarkUsed(r) PROVE OneSender'
  BY <1>6, UseEffect
<1>7. ASSUME NEW r \in Requests, LoadForDelete(r) PROVE OneSender'
  BY <1>7 DEF LoadForDelete, Goto
<1>8. ASSUME NEW r \in Requests, FindEntry(r) PROVE OneSender'
  BY <1>8 DEF FindEntry, Goto
<1>9. ASSUME NEW r \in Requests, RemoveEntry(r) PROVE OneSender'
  BY <1>9 DEF RemoveEntry, Goto
<1>10. ASSUME NEW r \in Requests, RemoveTicket(r) PROVE OneSender'
  BY <1>10 DEF RemoveTicket, Write, Goto
<1>11. ASSUME NEW r \in Requests, DueCheck(r) PROVE OneSender'
  BY <1>11, DueEffect DEF Due
<1>12. ASSUME NEW d \in CronDays, ListDue(d) PROVE OneSender'
  BY <1>12, ListEffect DEF Due
<1>13. ASSUME NEW w \in Workers, Claim(w) PROVE OneSender'
  BY <1>13, ClaimEffect DEF GoOn
<1>14. ASSUME NEW w \in Workers, ClaimGone(w) PROVE OneSender'
  BY <1>14 DEF ClaimGone, Goto, GoOn
<1>15. ASSUME NEW w \in Workers, SendAccepted(w) PROVE OneSender'
  BY <1>15, SendEffect DEF GoOn
<1>16. ASSUME NEW w \in Workers, SendFailed(w) PROVE OneSender'
  BY <1>16, FailEffect
<1>17. ASSUME NEW w \in Workers, Release(w) PROVE OneSender'
  BY <1>17, ReleaseEffect DEF GoOn
<1>18. CASE Midnight
  BY <1>18 DEF Midnight
<1>19. CASE UNCHANGED deskVars
  BY <1>19 DEF deskVars
<1> QED
  BY <1>1, <1>2, <1>3, <1>4, <1>5, <1>6, <1>7, <1>8, <1>9, <1>10, <1>11, <1>12, <1>13, <1>14,
      <1>15, <1>16, <1>17, <1>18, <1>19 DEF Next, Issue, Collect, Scan, Delete, Greet

\* An acknowledged mail ends the claim it was sent under, and leaves the row marked.
LEMMA GreetedOnceStep == IInv /\ [Next]_deskVars => GreetedOnce'
<1> SUFFICES ASSUME IInv, [Next]_deskVars, NEW t \in Tickets PROVE (AtMostOnce(t))'
  BY DEF GreetedOnce
<1>0. AtMostOnce(t) /\ NothingBeforeIssue /\ OneSender /\ mail[t].heard \in Nat
  BY DEF IInv, TypeOK, Mail, GreetedOnce
<1>t. TypeOK /\ TypeOK'
  BY TypeStep DEF IInv
<1> USE <1>0, <1>t, DeskAssumption DEF DeskAssumption, TypeOK, Workers, AtMostOnce,
    NothingBeforeIssue, Untouched, Tried, OneSender, Exists
<1>1. ASSUME NEW r \in Requests, IssueOnline(r) \/ IssueCounter(r) PROVE (AtMostOnce(t))'
  BY <1>1, IssueEffect
<1>2. ASSUME NEW r \in Requests, PostIncome(r) PROVE (AtMostOnce(t))'
  BY <1>2 DEF PostIncome, Goto
<1>3. ASSUME NEW r \in Requests, LoadPending(r) PROVE (AtMostOnce(t))'
  BY <1>3 DEF LoadPending, Goto
<1>4. ASSUME NEW r \in Requests, TakePayment(r) PROVE (AtMostOnce(t))'
  BY <1>4, TakeEffect
<1>5. ASSUME NEW r \in Requests, LoadForScan(r) PROVE (AtMostOnce(t))'
  BY <1>5 DEF LoadForScan, Goto
<1>6. ASSUME NEW r \in Requests, MarkUsed(r) PROVE (AtMostOnce(t))'
  BY <1>6, UseEffect
<1>7. ASSUME NEW r \in Requests, LoadForDelete(r) PROVE (AtMostOnce(t))'
  BY <1>7 DEF LoadForDelete, Goto
<1>8. ASSUME NEW r \in Requests, FindEntry(r) PROVE (AtMostOnce(t))'
  BY <1>8 DEF FindEntry, Goto
<1>9. ASSUME NEW r \in Requests, RemoveEntry(r) PROVE (AtMostOnce(t))'
  BY <1>9 DEF RemoveEntry, Goto
<1>10. ASSUME NEW r \in Requests, RemoveTicket(r) PROVE (AtMostOnce(t))'
  BY <1>10 DEF RemoveTicket, Write, Goto
<1>11. ASSUME NEW r \in Requests, DueCheck(r) PROVE (AtMostOnce(t))'
  BY <1>11, DueEffect DEF Due
<1>12. ASSUME NEW d \in CronDays, ListDue(d) PROVE (AtMostOnce(t))'
  BY <1>12, ListEffect DEF Due
<1>13. ASSUME NEW w \in Workers, Claim(w) PROVE (AtMostOnce(t))'
  BY <1>13, ClaimEffect DEF GoOn
<1>14. ASSUME NEW w \in Workers, ClaimGone(w) PROVE (AtMostOnce(t))'
  BY <1>14 DEF ClaimGone, Goto, GoOn
<1>15. ASSUME NEW w \in Workers, SendAccepted(w) PROVE (AtMostOnce(t))'
  BY <1>15, SendEffect DEF GoOn
<1>16. ASSUME NEW w \in Workers, SendFailed(w) PROVE (AtMostOnce(t))'
  BY <1>16, FailEffect
<1>17. ASSUME NEW w \in Workers, Release(w) PROVE (AtMostOnce(t))'
  BY <1>17, ReleaseEffect DEF GoOn
<1>18. CASE Midnight
  BY <1>18 DEF Midnight
<1>19. CASE UNCHANGED deskVars
  BY <1>19 DEF deskVars
<1> QED
  BY <1>1, <1>2, <1>3, <1>4, <1>5, <1>6, <1>7, <1>8, <1>9, <1>10, <1>11, <1>12, <1>13, <1>14,
      <1>15, <1>16, <1>17, <1>18, <1>19 DEF Next, Issue, Collect, Scan, Delete, Greet

\* Who lists, sends or owes a greeting looked at the day and at the payment.
LEMMA ListedInTimeStep == IInv /\ [Next]_deskVars => ListedInTime'
<1> DEFINE InTime(u) == mail[u].owed \/ (\E w \in Workers : u \in todo[w] \/ mailing[w] = u) =>
    Timely(u)
<1> SUFFICES ASSUME IInv, [Next]_deskVars, NEW t \in Tickets PROVE InTime(t)'
  BY DEF ListedInTime
<1>0. InTime(t) /\ NothingBeforeIssue /\ DecisionsHold
  BY DEF IInv, ListedInTime
<1>t. TypeOK /\ TypeOK'
  BY TypeStep DEF IInv
<1> USE <1>0, <1>t, DeskAssumption DEF DeskAssumption, TypeOK, Workers, Timely,
    NothingBeforeIssue, Untouched, DecisionsHold, Decided, Exists, Settled, InWindow
<1>1. ASSUME NEW r \in Requests, IssueOnline(r) \/ IssueCounter(r) PROVE InTime(t)'
  <2>1. CASE t = For[r]
    <3>1. Untouched(r) /\ rows'[t] \in Row
      BY <1>1, <2>1, IssueEffect
    <3>2. mail'[t].owed => SevaDay[t] <= day /\ Settled(t)'
      BY <1>1, <2>1, <3>1, IssueEffect DEF Row
    <3> QED
      BY <1>1, <2>1, <3>1, <3>2, IssueEffect
  <2>2. CASE t # For[r]
    BY <1>1, <2>2, IssueEffect
  <2> QED
    BY <2>1, <2>2
<1>2. ASSUME NEW r \in Requests, PostIncome(r) PROVE InTime(t)'
  BY <1>2 DEF PostIncome, Goto
<1>3. ASSUME NEW r \in Requests, LoadPending(r) PROVE InTime(t)'
  BY <1>3 DEF LoadPending, Goto
<1>4. ASSUME NEW r \in Requests, TakePayment(r) PROVE InTime(t)'
  BY <1>4, TakeEffect
<1>5. ASSUME NEW r \in Requests, LoadForScan(r) PROVE InTime(t)'
  BY <1>5 DEF LoadForScan, Goto
<1>6. ASSUME NEW r \in Requests, MarkUsed(r) PROVE InTime(t)'
  BY <1>6, UseEffect
<1>7. ASSUME NEW r \in Requests, LoadForDelete(r) PROVE InTime(t)'
  BY <1>7 DEF LoadForDelete, Goto
<1>8. ASSUME NEW r \in Requests, FindEntry(r) PROVE InTime(t)'
  BY <1>8 DEF FindEntry, Goto
<1>9. ASSUME NEW r \in Requests, RemoveEntry(r) PROVE InTime(t)'
  BY <1>9 DEF RemoveEntry, Goto
<1>10. ASSUME NEW r \in Requests, RemoveTicket(r) PROVE InTime(t)'
  BY <1>10 DEF RemoveTicket, Write, Goto
<1>11. ASSUME NEW r \in Requests, DueCheck(r) PROVE InTime(t)'
  BY <1>11, DueEffect DEF Due
<1>12. ASSUME NEW d \in CronDays, ListDue(d) PROVE InTime(t)'
  BY <1>12, ListEffect DEF Due
<1>13. ASSUME NEW w \in Workers, Claim(w) PROVE InTime(t)'
  BY <1>13, ClaimEffect DEF GoOn
<1>14. ASSUME NEW w \in Workers, ClaimGone(w) PROVE InTime(t)'
  BY <1>14 DEF ClaimGone, Goto, GoOn
<1>15. ASSUME NEW w \in Workers, SendAccepted(w) PROVE InTime(t)'
  BY <1>15, SendEffect DEF GoOn
<1>16. ASSUME NEW w \in Workers, SendFailed(w) PROVE InTime(t)'
  BY <1>16, FailEffect
<1>17. ASSUME NEW w \in Workers, Release(w) PROVE InTime(t)'
  BY <1>17, ReleaseEffect DEF GoOn
<1>18. CASE Midnight
  BY <1>18 DEF Midnight
<1>19. CASE UNCHANGED deskVars
  BY <1>19 DEF deskVars
<1> QED
  BY <1>1, <1>2, <1>3, <1>4, <1>5, <1>6, <1>7, <1>8, <1>9, <1>10, <1>11, <1>12, <1>13, <1>14,
      <1>15, <1>16, <1>17, <1>18, <1>19 DEF Next, Issue, Collect, Scan, Delete, Greet

\* A greeting is tried for a ticket that is claimed, and so in time.
LEMMA NeverTooEarlyStep == IInv /\ [Next]_deskVars => NeverTooEarly'
<1> DEFINE NotEarly(u) == Tried(u) => SevaDay[u] <= day /\ (Exists(u) => Settled(u))
<1> SUFFICES ASSUME IInv, [Next]_deskVars, NEW t \in Tickets PROVE NotEarly(t)'
  BY DEF NeverTooEarly
<1>0. NotEarly(t) /\ NothingBeforeIssue /\ ListedInTime /\ mail[t].heard \in Nat
  BY DEF IInv, TypeOK, Mail, NeverTooEarly
<1>t. TypeOK /\ TypeOK'
  BY TypeStep DEF IInv
<1> USE <1>0, <1>t, DeskAssumption DEF DeskAssumption, TypeOK, Workers, NothingBeforeIssue,
    Untouched, Timely, ListedInTime, Tried, Exists, Settled
<1>1. ASSUME NEW r \in Requests, IssueOnline(r) \/ IssueCounter(r) PROVE NotEarly(t)'
  BY <1>1, IssueEffect
<1>2. ASSUME NEW r \in Requests, PostIncome(r) PROVE NotEarly(t)'
  BY <1>2 DEF PostIncome, Goto
<1>3. ASSUME NEW r \in Requests, LoadPending(r) PROVE NotEarly(t)'
  BY <1>3 DEF LoadPending, Goto
<1>4. ASSUME NEW r \in Requests, TakePayment(r) PROVE NotEarly(t)'
  BY <1>4, TakeEffect
<1>5. ASSUME NEW r \in Requests, LoadForScan(r) PROVE NotEarly(t)'
  BY <1>5 DEF LoadForScan, Goto
<1>6. ASSUME NEW r \in Requests, MarkUsed(r) PROVE NotEarly(t)'
  BY <1>6, UseEffect
<1>7. ASSUME NEW r \in Requests, LoadForDelete(r) PROVE NotEarly(t)'
  BY <1>7 DEF LoadForDelete, Goto
<1>8. ASSUME NEW r \in Requests, FindEntry(r) PROVE NotEarly(t)'
  BY <1>8 DEF FindEntry, Goto
<1>9. ASSUME NEW r \in Requests, RemoveEntry(r) PROVE NotEarly(t)'
  BY <1>9 DEF RemoveEntry, Goto
<1>10. ASSUME NEW r \in Requests, RemoveTicket(r) PROVE NotEarly(t)'
  BY <1>10 DEF RemoveTicket, Write, Goto
<1>11. ASSUME NEW r \in Requests, DueCheck(r) PROVE NotEarly(t)'
  BY <1>11, DueEffect DEF Due
<1>12. ASSUME NEW d \in CronDays, ListDue(d) PROVE NotEarly(t)'
  BY <1>12, ListEffect DEF Due
<1>13. ASSUME NEW w \in Workers, Claim(w) PROVE NotEarly(t)'
  BY <1>13, ClaimEffect DEF GoOn
<1>14. ASSUME NEW w \in Workers, ClaimGone(w) PROVE NotEarly(t)'
  BY <1>14 DEF ClaimGone, Goto, GoOn
<1>15. ASSUME NEW w \in Workers, SendAccepted(w) PROVE NotEarly(t)'
  BY <1>15, SendEffect DEF GoOn
<1>16. ASSUME NEW w \in Workers, SendFailed(w) PROVE NotEarly(t)'
  BY <1>16, FailEffect
<1>17. ASSUME NEW w \in Workers, Release(w) PROVE NotEarly(t)'
  BY <1>17, ReleaseEffect DEF GoOn
<1>18. CASE Midnight
  BY <1>18 DEF Midnight
<1>19. CASE UNCHANGED deskVars
  BY <1>19 DEF deskVars
<1> QED
  BY <1>1, <1>2, <1>3, <1>4, <1>5, <1>6, <1>7, <1>8, <1>9, <1>10, <1>11, <1>12, <1>13, <1>14,
      <1>15, <1>16, <1>17, <1>18, <1>19 DEF Next, Issue, Collect, Scan, Delete, Greet

\* A worker lists tickets when it turns to greeting, and releases after a failure.
LEMMA StandsByMailStep == IInv /\ [Next]_deskVars => StandsByMail'
<1> DEFINE Standing(v) == /\ pc[v] \in {"idle", "post", "booked", "take", "due"} => todo[v] = {}
                          /\ pc[v] = "release" => mail[mailing[v]].trouble
<1> SUFFICES ASSUME IInv, [Next]_deskVars, NEW u \in Workers PROVE Standing(u)'
  BY DEF StandsByMail
<1>0. \A v \in Workers : Standing(v)
  BY DEF IInv, StandsByMail
<1>t. TypeOK /\ TypeOK'
  BY TypeStep DEF IInv
<1> USE <1>0, <1>t, DeskAssumption DEF DeskAssumption, TypeOK, Workers
<1>1. ASSUME NEW r \in Requests, IssueOnline(r) \/ IssueCounter(r) PROVE Standing(u)'
  BY <1>1, IssueEffect
<1>2. ASSUME NEW r \in Requests, PostIncome(r) PROVE Standing(u)'
  BY <1>2 DEF PostIncome, Goto
<1>3. ASSUME NEW r \in Requests, LoadPending(r) PROVE Standing(u)'
  BY <1>3 DEF LoadPending, Goto
<1>4. ASSUME NEW r \in Requests, TakePayment(r) PROVE Standing(u)'
  BY <1>4, TakeEffect
<1>5. ASSUME NEW r \in Requests, LoadForScan(r) PROVE Standing(u)'
  BY <1>5 DEF LoadForScan, Goto
<1>6. ASSUME NEW r \in Requests, MarkUsed(r) PROVE Standing(u)'
  BY <1>6, UseEffect
<1>7. ASSUME NEW r \in Requests, LoadForDelete(r) PROVE Standing(u)'
  BY <1>7 DEF LoadForDelete, Goto
<1>8. ASSUME NEW r \in Requests, FindEntry(r) PROVE Standing(u)'
  BY <1>8 DEF FindEntry, Goto
<1>9. ASSUME NEW r \in Requests, RemoveEntry(r) PROVE Standing(u)'
  BY <1>9 DEF RemoveEntry, Goto
<1>10. ASSUME NEW r \in Requests, RemoveTicket(r) PROVE Standing(u)'
  BY <1>10 DEF RemoveTicket, Write, Goto
<1>11. ASSUME NEW r \in Requests, DueCheck(r) PROVE Standing(u)'
  BY <1>11, DueEffect DEF Due
<1>12. ASSUME NEW d \in CronDays, ListDue(d) PROVE Standing(u)'
  BY <1>12, ListEffect DEF Due
<1>13. ASSUME NEW w \in Workers, Claim(w) PROVE Standing(u)'
  BY <1>13, ClaimEffect DEF GoOn
<1>14. ASSUME NEW w \in Workers, ClaimGone(w) PROVE Standing(u)'
  BY <1>14 DEF ClaimGone, Goto, GoOn
<1>15. ASSUME NEW w \in Workers, SendAccepted(w) PROVE Standing(u)'
  BY <1>15, SendEffect DEF GoOn
<1>16. ASSUME NEW w \in Workers, SendFailed(w) PROVE Standing(u)'
  BY <1>16, FailEffect
<1>17. ASSUME NEW w \in Workers, Release(w) PROVE Standing(u)'
  BY <1>17, ReleaseEffect DEF GoOn
<1>18. CASE Midnight
  BY <1>18 DEF Midnight
<1>19. CASE UNCHANGED deskVars
  BY <1>19 DEF deskVars
<1> QED
  BY <1>1, <1>2, <1>3, <1>4, <1>5, <1>6, <1>7, <1>8, <1>9, <1>10, <1>11, <1>12, <1>13, <1>14,
      <1>15, <1>16, <1>17, <1>18, <1>19 DEF Next, Issue, Collect, Scan, Delete, Greet

\* A row is marked by a claim, and the mark outlives the claim only after a mail.
LEMMA GreetedIsTrueStep == IInv /\ [Next]_deskVars => GreetedIsTrue'
<1> DEFINE TrulyGreeted(u) == Exists(u) /\ rows[u].greeted => mail[u].heard > 0 \/ \E w \in
    Workers : mailing[w] = u
<1> SUFFICES ASSUME IInv, [Next]_deskVars, NEW t \in Tickets PROVE TrulyGreeted(t)'
  BY DEF GreetedIsTrue
<1>0. TrulyGreeted(t) /\ mail[t].heard \in Nat
  BY DEF IInv, TypeOK, Mail, GreetedIsTrue
<1>t. TypeOK /\ TypeOK'
  BY TypeStep DEF IInv
<1> USE <1>0, <1>t, DeskAssumption DEF DeskAssumption, TypeOK, Workers, Exists
<1>1. ASSUME NEW r \in Requests, IssueOnline(r) \/ IssueCounter(r) PROVE TrulyGreeted(t)'
  BY <1>1, IssueEffect
<1>2. ASSUME NEW r \in Requests, PostIncome(r) PROVE TrulyGreeted(t)'
  BY <1>2 DEF PostIncome, Goto
<1>3. ASSUME NEW r \in Requests, LoadPending(r) PROVE TrulyGreeted(t)'
  BY <1>3 DEF LoadPending, Goto
<1>4. ASSUME NEW r \in Requests, TakePayment(r) PROVE TrulyGreeted(t)'
  BY <1>4, TakeEffect
<1>5. ASSUME NEW r \in Requests, LoadForScan(r) PROVE TrulyGreeted(t)'
  BY <1>5 DEF LoadForScan, Goto
<1>6. ASSUME NEW r \in Requests, MarkUsed(r) PROVE TrulyGreeted(t)'
  BY <1>6, UseEffect
<1>7. ASSUME NEW r \in Requests, LoadForDelete(r) PROVE TrulyGreeted(t)'
  BY <1>7 DEF LoadForDelete, Goto
<1>8. ASSUME NEW r \in Requests, FindEntry(r) PROVE TrulyGreeted(t)'
  BY <1>8 DEF FindEntry, Goto
<1>9. ASSUME NEW r \in Requests, RemoveEntry(r) PROVE TrulyGreeted(t)'
  BY <1>9 DEF RemoveEntry, Goto
<1>10. ASSUME NEW r \in Requests, RemoveTicket(r) PROVE TrulyGreeted(t)'
  BY <1>10 DEF RemoveTicket, Write, Goto
<1>11. ASSUME NEW r \in Requests, DueCheck(r) PROVE TrulyGreeted(t)'
  BY <1>11, DueEffect DEF Due
<1>12. ASSUME NEW d \in CronDays, ListDue(d) PROVE TrulyGreeted(t)'
  BY <1>12, ListEffect DEF Due
<1>13. ASSUME NEW w \in Workers, Claim(w) PROVE TrulyGreeted(t)'
  BY <1>13, ClaimEffect DEF GoOn
<1>14. ASSUME NEW w \in Workers, ClaimGone(w) PROVE TrulyGreeted(t)'
  BY <1>14 DEF ClaimGone, Goto, GoOn
<1>15. ASSUME NEW w \in Workers, SendAccepted(w) PROVE TrulyGreeted(t)'
  BY <1>15, SendEffect DEF GoOn
<1>16. ASSUME NEW w \in Workers, SendFailed(w) PROVE TrulyGreeted(t)'
  BY <1>16, FailEffect
<1>17. ASSUME NEW w \in Workers, Release(w) PROVE TrulyGreeted(t)'
  BY <1>17, ReleaseEffect DEF GoOn
<1>18. CASE Midnight
  BY <1>18 DEF Midnight
<1>19. CASE UNCHANGED deskVars
  BY <1>19 DEF deskVars
<1> QED
  BY <1>1, <1>2, <1>3, <1>4, <1>5, <1>6, <1>7, <1>8, <1>9, <1>10, <1>11, <1>12, <1>13, <1>14,
      <1>15, <1>16, <1>17, <1>18, <1>19 DEF Next, Issue, Collect, Scan, Delete, Greet

\* Who finds a ticket owed a greeting lists it, or finds it marked.
LEMMA NoGreetingMissedStep == IInv /\ [Next]_deskVars => NoGreetingMissed'
<1> DEFINE NotMissed(u) == Exists(u) /\ mail[u].owed => Tried(u) \/ Pending(u)
<1> SUFFICES ASSUME IInv, [Next]_deskVars, NEW t \in Greetable PROVE NotMissed(t)'
  BY DEF NoGreetingMissed
<1>0. NotMissed(t) /\ NothingBeforeIssue /\ ListedInTime /\ StandsByMail /\ GreetedIsTrue
  BY DEF IInv, NoGreetingMissed
<1>t. TypeOK /\ TypeOK'
  BY TypeStep DEF IInv
<1>m. t \in Tickets /\ mail[t].heard \in Nat
  BY <1>t, DeskAssumption DEF DeskAssumption, TypeOK, Mail
<1> USE <1>m
<1> USE <1>0, <1>t, DeskAssumption DEF DeskAssumption, TypeOK, Workers, Pending,
    NothingBeforeIssue, Untouched, Timely, ListedInTime, StandsByMail, GreetedIsTrue, Tried,
    Exists, Settled, InWindow
<1>1. ASSUME NEW r \in Requests, IssueOnline(r) \/ IssueCounter(r) PROVE NotMissed(t)'
  <2>1. CASE t = For[r]
    BY <1>1, IssueEffect, <2>1
  <2>2. CASE t # For[r]
    BY <1>1, IssueEffect, <2>2
  <2> QED
    BY <2>1, <2>2
<1>2. ASSUME NEW r \in Requests, PostIncome(r) PROVE NotMissed(t)'
  BY <1>2 DEF PostIncome, Goto
<1>3. ASSUME NEW r \in Requests, LoadPending(r) PROVE NotMissed(t)'
  BY <1>3 DEF LoadPending, Goto
<1>4. ASSUME NEW r \in Requests, TakePayment(r) PROVE NotMissed(t)'
  BY <1>4, TakeEffect
<1>5. ASSUME NEW r \in Requests, LoadForScan(r) PROVE NotMissed(t)'
  BY <1>5 DEF LoadForScan, Goto
<1>6. ASSUME NEW r \in Requests, MarkUsed(r) PROVE NotMissed(t)'
  BY <1>6, UseEffect
<1>7. ASSUME NEW r \in Requests, LoadForDelete(r) PROVE NotMissed(t)'
  BY <1>7 DEF LoadForDelete, Goto
<1>8. ASSUME NEW r \in Requests, FindEntry(r) PROVE NotMissed(t)'
  BY <1>8 DEF FindEntry, Goto
<1>9. ASSUME NEW r \in Requests, RemoveEntry(r) PROVE NotMissed(t)'
  BY <1>9 DEF RemoveEntry, Goto
<1>10. ASSUME NEW r \in Requests, RemoveTicket(r) PROVE NotMissed(t)'
  BY <1>10 DEF RemoveTicket, Write, Goto
<1>11. ASSUME NEW r \in Requests, DueCheck(r) PROVE NotMissed(t)'
  BY <1>11, DueEffect DEF Due
<1>12. ASSUME NEW d \in CronDays, ListDue(d) PROVE NotMissed(t)'
  BY <1>12, ListEffect DEF Due
<1>13. ASSUME NEW w \in Workers, Claim(w) PROVE NotMissed(t)'
  BY <1>13, ClaimEffect DEF GoOn
<1>14. ASSUME NEW w \in Workers, ClaimGone(w) PROVE NotMissed(t)'
  BY <1>14 DEF ClaimGone, Goto, GoOn
<1>15. ASSUME NEW w \in Workers, SendAccepted(w) PROVE NotMissed(t)'
  BY <1>15, SendEffect DEF GoOn
<1>16. ASSUME NEW w \in Workers, SendFailed(w) PROVE NotMissed(t)'
  BY <1>16, FailEffect
<1>17. ASSUME NEW w \in Workers, Release(w) PROVE NotMissed(t)'
  BY <1>17, ReleaseEffect DEF GoOn
<1>18. CASE Midnight
  BY <1>18 DEF Midnight
<1>19. CASE UNCHANGED deskVars
  BY <1>19 DEF deskVars
<1> QED
  BY <1>1, <1>2, <1>3, <1>4, <1>5, <1>6, <1>7, <1>8, <1>9, <1>10, <1>11, <1>12, <1>13, <1>14,
      <1>15, <1>16, <1>17, <1>18, <1>19 DEF Next, Issue, Collect, Scan, Delete, Greet

-----------------------------------------------------------------------------
(* Theorems *)

\* The invariant holds at the start.
LEMMA InitHolds == Init => IInv
<1> SUFFICES ASSUME Init PROVE IInv
  OBVIOUS
<1> USE DeskAssumption DEF DeskAssumption, Init
<1>1. TypeOK
  BY DEF TypeOK, Mail, Days, Workers
<1>2. NothingBeforeIssue /\ DecisionsHold
  BY DEF NothingBeforeIssue, Untouched, DecisionsHold, Decided, Exists, Entries, Tried, Open, Workers
<1>3. PaidBeforeUse /\ LedgerAgrees /\ GreetedIsTrue
  BY DEF PaidBeforeUse, LedgerAgrees, GreetedIsTrue, Exists
<1>4. OneSender /\ GreetedOnce /\ ListedInTime /\ NeverTooEarly
  BY DEF OneSender, GreetedOnce, AtMostOnce, ListedInTime, NeverTooEarly, Tried, Exists
<1>5. StandsByMail /\ NoGreetingMissed
  BY DEF StandsByMail, NoGreetingMissed, Exists, Workers
<1> QED
  BY <1>1, <1>2, <1>3, <1>4, <1>5 DEF IInv

\* The invariant is inductive: every step of every handler preserves all of it.
THEOREM Invariance == Spec => []IInv
<1>1. IInv /\ [Next]_deskVars => IInv'
  BY TypeStep, NothingBeforeIssueStep, DecisionsHoldStep, PaidBeforeUseStep, LedgerAgreesStep,
     OneSenderStep, GreetedOnceStep, ListedInTimeStep, NeverTooEarlyStep, StandsByMailStep,
     GreetedIsTrueStep, NoGreetingMissedStep DEF IInv
<1> QED
  BY InitHolds, <1>1, PTL DEF Spec

\* Every variable keeps its type in every reachable state.
THEOREM TypeCorrect == Spec => []TypeOK
<1>1. IInv => TypeOK
  BY DEF IInv
<1> QED
  BY Invariance, <1>1, PTL

\* No used ticket owes its fee, whoever pays, scans and deletes at once.
THEOREM NobodyUsesUnpaid == Spec => []PaidBeforeUse
<1>1. IInv => PaidBeforeUse
  BY DEF IInv
<1> QED
  BY Invariance, <1>1, PTL

\* The ledger tells of every payment, and of nothing else, for the tickets there are.
THEOREM LedgerTellsOfPayments == Spec => []LedgerAgrees
<1>1. IInv => LedgerAgrees
  BY DEF IInv
<1> QED
  BY Invariance, <1>1, PTL

\* At most one worker is sending a ticket its greeting.
THEOREM OneSenderAtATime == Spec => []OneSender
<1>1. IInv => OneSender
  BY DEF IInv
<1> QED
  BY Invariance, <1>1, PTL

\* SES acknowledges at most one greeting of a ticket, and none is sent after it.
THEOREM NeverGreetedTwice == Spec => []GreetedOnce
<1>1. IInv => GreetedOnce
  BY DEF IInv
<1> QED
  BY Invariance, <1>1, PTL

\* No greeting goes out before its day or before the fee is paid.
THEOREM GreetedInTime == Spec => []NeverTooEarly
<1>1. IInv => NeverTooEarly
  BY DEF IInv
<1> QED
  BY Invariance, <1>1, PTL

\* No greeting falls between the payment and the cron job.
THEOREM NobodyForgotten == Spec => []NoGreetingMissed
<1>1. IInv => NoGreetingMissed
  BY DEF IInv
<1> QED
  BY Invariance, <1>1, PTL
=============================================================================
