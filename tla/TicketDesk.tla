----------------------------- MODULE TicketDesk -----------------------------
(***************************************************************************)
(* The life of a seva ticket after its booking: the payment of its fee,    *)
(* its income entry in the ledger, its scan at the temple, its deletion,   *)
(* and the one blessing mail its devotee is sent for an occasion.          *)
(*                                                                         *)
(* SevaTicketService.create_counter_ticket, collect_payment, scan_ticket   *)
(* and delete_ticket, with their handlers in api/v1/seva_tickets.py, and   *)
(* OccasionGreetingService, which the handlers call last and the daily     *)
(* cron job calls for every ticket that is due.  A handler loads the       *)
(* ticket, decides, and commits: nothing locks the ticket in between, so   *)
(* a step here is one read or one commit.  An UPDATE writes the columns    *)
(* the handler changed and fails when the row is gone.  A worker may stop  *)
(* for good after any step (a crash, a lost connection): nothing here      *)
(* makes one go on, and what it committed stays.                           *)
(*                                                                         *)
(* Left out: the audit entries and the other mails (best effort, read by   *)
(* no operation here), the status CANCELLED, which no operation sets, and  *)
(* sevas and slots (SevaBooking).                                          *)
(***************************************************************************)
EXTENDS Naturals, FiniteSets

CONSTANTS Requests,   \* HTTP requests, each sent at most once
          Tickets,    \* the tickets they issue or work on
          Asks,       \* Asks[r]: what r may be: a booking "ONLINE", a ticket issued at
                      \* the "COUNTER", a "COLLECT", a "SCAN" or a "DELETE"
          For,        \* For[r]: the ticket of request r
          SevaDay,    \* SevaDay[t]: day of the seva
          Greetable,  \* the tickets booked with an occasion and an email
          Window,     \* GREETING_WINDOW_DAYS, 7 in the code
          LastDay,    \* bound: the days go from 0 to LastDay
          CronDays,   \* the days on which the cron job is run
          NoTicket, NoRow, NoEntry

Row == [payment : {"FREE", "PENDING", "PAID"}, status : {"ACTIVE", "USED"}, greeted : BOOLEAN]
Mail == [heard : Nat, trouble : BOOLEAN, owed : BOOLEAN]

Days == 0 .. LastDay
Issues == {"ONLINE", "COUNTER"}

ASSUME DeskAssumption ==
    /\ Asks \in [Requests -> SUBSET (Issues \union {"COLLECT", "SCAN", "DELETE"})]
    /\ For \in [Requests -> Tickets]
    /\ \A q, r \in Requests :
          Asks[q] \cap Issues # {} /\ Asks[r] \cap Issues # {} /\ For[q] = For[r] => q = r
    /\ SevaDay \in [Tickets -> Nat]
    /\ Greetable \subseteq Tickets
    /\ Window \in Nat \ {0} /\ LastDay \in Nat /\ CronDays \subseteq Days
    /\ Requests \cap Days = {}
    /\ NoTicket \notin Tickets /\ NoRow \notin Row /\ NoEntry \notin Requests

\* The cron run of a day is named by the day.
Workers == Requests \union CronDays

VARIABLES
    rows,   \* the row of each ticket in seva_tickets
    income, \* the ledger's entries for tickets, named by the request that posted each
    day,    \* date.today()
    pc,     \* where each worker stands
    entry,  \* the ledger entry a deletion has found
    todo,   \* the tickets each worker has still to greet
    mailing,\* the ticket whose greeting each worker has claimed
    mail    \* history of each ticket's greeting: mails SES acknowledged, whether
            \* a try failed, and whether someone had to greet it in its window

deskVars == <<rows, income, day, pc, entry, todo, mailing, mail>>

Exists(t) == rows[t] # NoRow
Settled(t) == Exists(t) /\ rows[t].payment \in {"FREE", "PAID"}
Entries(t) == {r \in income : For[r] = t}

\* The window in which a greeting may go out: from the seva's day on.
InWindow(t, d) == SevaDay[t] <= d /\ d < SevaDay[t] + Window

\* Mutant: a ticket that still owes its fee is greeted.
DueUnpaid(t, d) == t \in Greetable /\ Exists(t) /\ ~rows[t].greeted /\ InWindow(t, d)

\* Mutant: the day of the seva is not yet in the window.
DueFromTomorrow(t, d) == /\ t \in Greetable /\ Settled(t) /\ ~rows[t].greeted
                         /\ SevaDay[t] < d /\ d < SevaDay[t] + Window

\* seva_due, on the row as it is stored.
Due(t, d) == t \in Greetable /\ Settled(t) /\ ~rows[t].greeted /\ InWindow(t, d)

Init == /\ rows = [t \in Tickets |-> NoRow]
        /\ income = {}
        /\ day = 0
        /\ pc = [w \in Workers |-> "idle"]
        /\ entry = [r \in Requests |-> NoEntry]
        /\ todo = [w \in Workers |-> {}]
        /\ mailing = [w \in Workers |-> NoTicket]
        /\ mail = [t \in Tickets |-> [heard |-> 0, trouble |-> FALSE, owed |-> FALSE]]

-----------------------------------------------------------------------------
(* Helpers *)

Goto(w, step) == pc' = [pc EXCEPT ![w] = step]
Write(t, row) == rows' = [rows EXCEPT ![t] = row]
\* The ticket of r is settled: it is owed a greeting if its window is open.
NowSettled(r) == mail' = [mail EXCEPT ![For[r]].owed = InWindow(For[r], day)]

Working == {"booked", "post", "due", "take", "use", "find", "unpost", "remove",
            "claim", "again", "send", "release"}
Ended == {"done", "failed"}

-----------------------------------------------------------------------------
(* Issuing a ticket *)

\* An online booking: the ticket of a paid seva owes its fee.  A past date is refused.
IssueOnline(r) == \E p \in {"FREE", "PENDING"} :
    /\ pc[r] = "idle" /\ "ONLINE" \in Asks[r]
    /\ day <= SevaDay[For[r]]
    /\ Write(For[r], [payment |-> p, status |-> "ACTIVE", greeted |-> FALSE])
    /\ IF p = "FREE" THEN NowSettled(r) /\ Goto(r, "booked")
       ELSE Goto(r, "done") /\ UNCHANGED mail
    /\ UNCHANGED <<income, day, entry, todo, mailing>>

\* A counter ticket, with whatever payment staff record; it is committed first.
\* (One marked paid with no amount goes the way of a free one.)
IssueCounter(r) == \E p \in {"FREE", "PENDING", "PAID"} :
    /\ pc[r] = "idle" /\ "COUNTER" \in Asks[r]
    /\ Write(For[r], [payment |-> p, status |-> "ACTIVE", greeted |-> FALSE])
    /\ IF p = "PENDING" THEN UNCHANGED mail ELSE NowSettled(r)
    /\ Goto(r, IF p = "PAID" THEN "post" ELSE "due")
    /\ UNCHANGED <<income, day, entry, todo, mailing>>

\* Its income entry is committed after it, whatever has become of the ticket.
PostIncome(r) ==
    /\ pc[r] = "post"
    /\ income' = income \union {r}
    /\ Goto(r, "due")
    /\ UNCHANGED <<rows, day, entry, todo, mailing, mail>>

-----------------------------------------------------------------------------
(* collect_payment *)

LoadPending(r) ==
    /\ pc[r] = "idle" /\ "COLLECT" \in Asks[r]
    /\ Goto(r, IF Exists(For[r]) /\ rows[For[r]].payment = "PENDING" THEN "take" ELSE "failed")
    /\ UNCHANGED <<rows, income, day, entry, todo, mailing, mail>>

\* Mutant: the ticket is marked paid in a commit of its own.
TakePaymentUnposted(r) ==
    /\ pc[r] = "take"
    /\ IF Exists(For[r])
       THEN /\ Write(For[r], [rows[For[r]] EXCEPT !.payment = "PAID"])
            /\ IF Settled(For[r]) THEN UNCHANGED mail ELSE NowSettled(r)
            /\ Goto(r, "due")
       ELSE Goto(r, "failed") /\ UNCHANGED <<rows, mail>>
    /\ UNCHANGED <<income, day, entry, todo, mailing>>

\* The ticket is marked paid and the income posted in one transaction.
TakePayment(r) ==
    /\ pc[r] = "take"
    /\ IF Exists(For[r])
       THEN /\ Write(For[r], [rows[For[r]] EXCEPT !.payment = "PAID"])
            /\ income' = income \union {r}
            /\ IF Settled(For[r]) THEN UNCHANGED mail ELSE NowSettled(r)
            /\ Goto(r, "due")
       ELSE Goto(r, "failed") /\ UNCHANGED <<rows, income, mail>>
    /\ UNCHANGED <<day, entry, todo, mailing>>

-----------------------------------------------------------------------------
(* scan_ticket *)

\* Mutant: the payment is not looked at.
LoadUnpaidForScan(r) ==
    /\ pc[r] = "idle" /\ "SCAN" \in Asks[r]
    /\ Goto(r, IF Exists(For[r]) /\ rows[For[r]].status = "ACTIVE" THEN "use" ELSE "failed")
    /\ UNCHANGED <<rows, income, day, entry, todo, mailing, mail>>

LoadForScan(r) ==
    /\ pc[r] = "idle" /\ "SCAN" \in Asks[r]
    /\ Goto(r, IF Settled(For[r]) /\ rows[For[r]].status = "ACTIVE" THEN "use" ELSE "failed")
    /\ UNCHANGED <<rows, income, day, entry, todo, mailing, mail>>

MarkUsed(r) ==
    /\ pc[r] = "use"
    /\ IF Exists(For[r])
       THEN Write(For[r], [rows[For[r]] EXCEPT !.status = "USED"]) /\ Goto(r, "done")
       ELSE Goto(r, "failed") /\ UNCHANGED rows
    /\ UNCHANGED <<income, day, entry, todo, mailing, mail>>

-----------------------------------------------------------------------------
(* delete_ticket *)

LoadForDelete(r) ==
    /\ pc[r] = "idle" /\ "DELETE" \in Asks[r]
    /\ Goto(r, IF Exists(For[r]) THEN "find" ELSE "failed")
    /\ UNCHANGED <<rows, income, day, entry, todo, mailing, mail>>

\* .first(): one entry of the ledger linked to the ticket, if there is any.
FindEntry(r) ==
    /\ pc[r] = "find"
    /\ IF Entries(For[r]) = {} THEN Goto(r, "remove") /\ UNCHANGED entry
       ELSE /\ \E e \in Entries(For[r]) : entry' = [entry EXCEPT ![r] = e]
            /\ Goto(r, "unpost")
    /\ UNCHANGED <<rows, income, day, todo, mailing, mail>>

\* The entry's deletion is committed before the ticket's.
RemoveEntry(r) ==
    /\ pc[r] = "unpost"
    /\ income' = income \ {entry[r]}
    /\ entry' = [entry EXCEPT ![r] = NoEntry]
    /\ Goto(r, "remove")
    /\ UNCHANGED <<rows, day, todo, mailing, mail>>

RemoveTicket(r) ==
    /\ pc[r] = "remove"
    /\ Write(For[r], NoRow)
    /\ Goto(r, "done")
    /\ UNCHANGED <<income, day, entry, todo, mailing, mail>>

-----------------------------------------------------------------------------
(* Greetings *)

\* Who looks at a settled ticket owes it a greeting in its window, none after it.
Owed(t, owed) == IF day >= SevaDay[t] + Window THEN FALSE
                 ELSE owed \/ (Settled(t) /\ InWindow(t, day))

\* The last thing a handler that settled a ticket does: greet now if the seva's
\* day has come.  A row deleted meanwhile fails the reload.  An online booking
\* ("booked") still holds the row as it wrote it, free and not greeted.
DueCheck(r) ==
    /\ pc[r] \in {"due", "booked"}
    /\ LET t == For[r]
           due == IF pc[r] = "booked" THEN t \in Greetable /\ InWindow(t, day) ELSE Due(t, day)
       IN /\ todo' = [todo EXCEPT ![r] = IF due THEN {t} ELSE {}]
          /\ Goto(r, IF due THEN "claim" ELSE "done")
          /\ mail' = [mail EXCEPT ![t].owed = Owed(t, @)]
    /\ UNCHANGED <<rows, income, day, entry, mailing>>

\* send_due: the cron job of a day lists the tickets due as of that day.
ListDue(d) ==
    /\ pc[d] = "idle" /\ day = d
    /\ todo' = [todo EXCEPT ![d] = {t \in Tickets : Due(t, day)}]
    /\ Goto(d, IF todo'[d] = {} THEN "done" ELSE "claim")
    /\ mail' = [t \in Tickets |-> [mail[t] EXCEPT !.owed = @ \/ (Settled(t) /\ InWindow(t, day))]]
    /\ UNCHANGED <<rows, income, day, entry, mailing>>

\* What follows a ticket, when these are left.
GoOn(left) == IF left = {} THEN "done" ELSE "again"

\* The UPDATE of greeting_sent_at where it is still NULL.  From its first commit
\* on ("again") a run reloads each ticket before it claims it.
Claim(w) == \E t \in todo[w] :
    /\ pc[w] \in {"claim", "again"}
    /\ Exists(t)
    /\ todo' = [todo EXCEPT ![w] = @ \ {t}]
    /\ IF rows[t].greeted THEN Goto(w, GoOn(todo[w] \ {t})) /\ UNCHANGED <<rows, mailing>>
       ELSE /\ Write(t, [rows[t] EXCEPT !.greeted = TRUE])
            /\ mailing' = [mailing EXCEPT ![w] = t]
            /\ Goto(w, "send")
    /\ UNCHANGED <<income, day, entry, mail>>

\* A ticket deleted since it was listed: its claim finds no row, or its reload
\* fails and ends the run.
ClaimGone(w) == \E t \in todo[w] :
    /\ pc[w] \in {"claim", "again"}
    /\ ~Exists(t)
    /\ \/ todo' = [todo EXCEPT ![w] = @ \ {t}] /\ Goto(w, GoOn(todo[w] \ {t}))
       \/ pc[w] = "again" /\ Goto(w, "failed") /\ UNCHANGED todo
    /\ UNCHANGED <<rows, income, day, entry, mailing, mail>>

\* After a mail the ticket is refreshed: that fails when its row is gone.
AfterMail(w, t) == Goto(w, IF ~Exists(t) THEN "failed" ELSE GoOn(todo[w]))

\* Mutant: the worker forgets nothing when its mail is out.
SendAcceptedAndHold(w) ==
    /\ pc[w] = "send"
    /\ mail' = [mail EXCEPT ![mailing[w]].heard = @ + 1]
    /\ AfterMail(w, mailing[w])
    /\ UNCHANGED <<rows, income, day, entry, todo, mailing>>

\* Mutant: the claim is released whether the mail was accepted or not.
SendAcceptedAndRelease(w) ==
    /\ pc[w] = "send"
    /\ mail' = [mail EXCEPT ![mailing[w]].heard = @ + 1]
    /\ Goto(w, "release")
    /\ UNCHANGED <<rows, income, day, entry, todo, mailing>>

\* SES takes the mail and says so.
SendAccepted(w) ==
    /\ pc[w] = "send"
    /\ mail' = [mail EXCEPT ![mailing[w]].heard = @ + 1]
    /\ mailing' = [mailing EXCEPT ![w] = NoTicket]
    /\ AfterMail(w, mailing[w])
    /\ UNCHANGED <<rows, income, day, entry, todo>>

\* The call to SES fails: the mail was refused, or taken and the answer lost.
SendFailed(w) ==
    /\ pc[w] = "send"
    /\ mail' = [mail EXCEPT ![mailing[w]].trouble = TRUE]
    /\ Goto(w, "release")
    /\ UNCHANGED <<rows, income, day, entry, todo, mailing>>

\* The claim is released, for the next run of the cron job to try again.
Release(w) ==
    /\ pc[w] = "release"
    /\ LET t == mailing[w]
       IN /\ IF Exists(t) THEN Write(t, [rows[t] EXCEPT !.greeted = FALSE]) ELSE UNCHANGED rows
          /\ AfterMail(w, t)
    /\ mailing' = [mailing EXCEPT ![w] = NoTicket]
    /\ UNCHANGED <<income, day, entry, todo, mail>>

-----------------------------------------------------------------------------
(* The world *)

Midnight ==
    /\ day < LastDay
    /\ day' = day + 1
    /\ UNCHANGED <<rows, income, pc, entry, todo, mailing, mail>>

Issue(r) == IssueOnline(r) \/ IssueCounter(r) \/ PostIncome(r)
Collect(r) == LoadPending(r) \/ TakePayment(r)
Scan(r) == LoadForScan(r) \/ MarkUsed(r)
Delete(r) == LoadForDelete(r) \/ FindEntry(r) \/ RemoveEntry(r) \/ RemoveTicket(r)
Greet(w) == \/ Claim(w) \/ ClaimGone(w) \/ SendAccepted(w) \/ SendFailed(w) \/ Release(w)

Next == \/ \E r \in Requests : Issue(r) \/ Collect(r) \/ Scan(r) \/ Delete(r) \/ DueCheck(r)
        \/ \E d \in CronDays : ListDue(d)
        \/ \E w \in Workers : Greet(w)
        \/ Midnight

Spec == Init /\ [][Next]_deskVars
-----------------------------------------------------------------------------
(* Invariants *)

\* Every variable keeps its type, and who is mailing has a ticket to mail for.
TypeOK ==
    /\ rows \in [Tickets -> Row \union {NoRow}]
    /\ income \subseteq Requests
    /\ day \in Days
    /\ pc \in [Workers -> {"idle"} \union Working \union Ended]
    /\ entry \in [Requests -> Requests \union {NoEntry}]
    /\ todo \in [Workers -> SUBSET Tickets]
    /\ mailing \in [Workers -> Tickets \union {NoTicket}]
    /\ \A w \in Workers : pc[w] \in {"send", "release"} <=> mailing[w] # NoTicket
    /\ mail \in [Tickets -> Mail]

\* "nobody receives the seva without paying": a scan decides on the row as it was
\* when loaded, and still no used ticket owes its fee.
PaidBeforeUse == \A t \in Tickets :
    Exists(t) /\ rows[t].status = "USED" => rows[t].payment # "PENDING"

\* The ledger has an entry for a paid ticket, unless the ticket's issue or a deletion
\* of it stands, or died, between two commits, and none for any other ticket.
EntryAsPaid(t) ==
    IF rows[t].payment = "PAID"
    THEN Entries(t) # {} \/ \E r \in Requests : For[r] = t /\ pc[r] \in {"post", "remove"}
    ELSE Entries(t) = {}

\* The ledger and the tickets agree on who has paid, whoever collects, deletes or
\* dies when.
LedgerAgrees == \A t \in Tickets : Exists(t) => EntryAsPaid(t)

\* A greeting is claimed by one worker at a time, and the row says so.
OneSender ==
    /\ \A v, w \in Workers : mailing[v] # NoTicket /\ mailing[v] = mailing[w] => v = w
    /\ \A w \in Workers : mailing[w] # NoTicket /\ Exists(mailing[w]) => rows[mailing[w]].greeted

\* After an acknowledged mail nobody has a claim on the ticket, nor can get one.
AtMostOnce(t) ==
    /\ mail[t].heard <= 1
    /\ mail[t].heard = 1 => /\ \A w \in Workers : mailing[w] # t
                            /\ Exists(t) => rows[t].greeted

\* Once SES has acknowledged a ticket's greeting no other is sent, by a payment,
\* the cron job or a second run of it ("a greeting is only sent once").
GreetedOnce == \A t \in Tickets : AtMostOnce(t)

\* A greeting was tried: SES acknowledged it, or an attempt failed.
Tried(t) == mail[t].heard > 0 \/ mail[t].trouble

\* No devotee is greeted before the day of the seva, or before the fee is paid.
NeverTooEarly == \A t \in Tickets :
    Tried(t) => SevaDay[t] <= day /\ (Exists(t) => Settled(t))

\* Someone is to send the ticket's greeting, or to look whether it is due.
Pending(t) == \/ \E w \in Workers : mailing[w] = t \/ t \in todo[w]
              \/ \E r \in Requests : For[r] = t /\ pc[r] \in {"post", "booked", "due"}

\* The payment and the cron job never leave a greeting to each other: a ticket that
\* was settled, or seen by a run of the cron job, in its window gets its mail,
\* unless a try failed, or the worker whose turn it is has not gone on or failed.
NoGreetingMissed == \A t \in Greetable :
    Exists(t) /\ mail[t].owed => Tried(t) \/ Pending(t)

-----------------------------------------------------------------------------
(* The inductive invariant behind the invariants above *)

Open == {"idle", "done", "failed"}

\* Before its ticket is issued nobody has done anything for it.
Untouched(r) ==
    /\ ~Exists(For[r]) /\ Entries(For[r]) = {}
    /\ ~Tried(For[r]) /\ ~mail[For[r]].owed
    /\ \A q \in Requests : For[q] = For[r] => pc[q] \in Open
    /\ \A w \in Workers : mailing[w] # For[r] /\ For[r] \notin todo[w]
NothingBeforeIssue == \A r \in Requests :
    pc[r] = "idle" /\ Asks[r] \cap Issues # {} => Untouched(r)

\* What a request decided on still holds of the ticket, as long as there is one.
Decided(r) ==
    /\ pc[r] \in {"use", "booked"} /\ Exists(For[r]) => Settled(For[r])
    /\ pc[r] = "post" /\ Exists(For[r]) => rows[For[r]].payment = "PAID"
    /\ pc[r] = "unpost" => entry[r] \in Requests /\ For[entry[r]] = For[r]
DecisionsHold == \A r \in Requests : Decided(r)

\* A greeting is listed, sent or owed from the day of the seva on, for a settled ticket.
Timely(t) == SevaDay[t] <= day /\ (Exists(t) => Settled(t))
ListedInTime == \A t \in Tickets :
    mail[t].owed \/ (\E w \in Workers : t \in todo[w] \/ mailing[w] = t) => Timely(t)

\* Where a worker stands, and what it has left to do.
StandsByMail == \A w \in Workers :
    /\ pc[w] \in {"idle", "post", "booked", "take", "due"} => todo[w] = {}
    /\ pc[w] = "release" => mail[mailing[w]].trouble

\* A row says that it was greeted only when it was, or is being.
GreetedIsTrue == \A t \in Tickets : Exists(t) /\ rows[t].greeted =>
    mail[t].heard > 0 \/ \E w \in Workers : mailing[w] = t

IInv == /\ TypeOK /\ NothingBeforeIssue /\ DecisionsHold /\ PaidBeforeUse /\ LedgerAgrees
        /\ OneSender /\ GreetedOnce /\ ListedInTime /\ NeverTooEarly
        /\ StandsByMail /\ GreetedIsTrue /\ NoGreetingMissed

-----------------------------------------------------------------------------
(* What the repository says and the code does not do *)

\* tests/test_collect_payment.py:71, the ledger after a second collection of a
\* fee: "count() == 1".
CollectedOnce == \A t \in Tickets : Cardinality(Entries(t)) <= 1

\* seva_ticket_service.py:218 "otherwise the ledger would keep showing income for
\* a ticket that no longer exists".
NoOrphanIncome == \A t \in Tickets : Entries(t) # {} => Exists(t)
=============================================================================
