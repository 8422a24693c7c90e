---------------------------- MODULE SevaBooking ----------------------------
(***************************************************************************)
(* Booking a seva: SevaTicketService.book_ticket (online) and              *)
(* create_counter_ticket (staff) up to the commit of the ticket, the       *)
(* repositories they call, and the staff operations that change what they  *)
(* read: editing or retiring a seva and deleting a ticket.                 *)
(*                                                                         *)
(* FastAPI runs the handlers in a pool of threads, each with a database    *)
(* session of its own, so requests interleave at every SQL statement; the  *)
(* database is PostgreSQL at READ COMMITTED.  One step of a request here   *)
(* is one statement: a SELECT reads the tickets committed at that moment,  *)
(* SELECT ... FOR UPDATE waits for the row lock of the seva and holds it   *)
(* until the transaction ends, and the INSERT of a ticket first takes its  *)
(* number in the unique index, then a KEY SHARE lock on the seva's row     *)
(* (the foreign key seva_id), and is committed.                            *)
(*                                                                         *)
(* Left out: dates in the past and blessing photos (refused before         *)
(* anything is written), and the status of a ticket, since no operation    *)
(* ever sets CANCELLED, the only status the booking looks for.             *)
(***************************************************************************)
EXTENDS Integers, FiniteSets

CONSTANTS Requests,    \* HTTP requests that book a seva; each is sent at most once
          Sevas, Dates, Mobiles,
          Asks,         \* the bookings a request may ask for
          Caps,        \* the values daily_slot_cap takes; 0 stands for None
          MaxAttempts, \* 5 in the code
          PadLimit,    \* first sequence number that outgrows its padding: 10^6
          Radix,       \* 10
          OldNumbers,  \* this year's numbers of tickets no request here touches
          NoOne        \* holder of a lock that is free

Unlimited == 0

Jobs == [kind : {"ONLINE", "COUNTER"}, seva : Sevas, date : Dates, mobile : Mobiles]
NoJob == [kind |-> "NONE"]

ASSUME BookingAssumption ==
    /\ \A r \in Requests : Asks[r] \subseteq Jobs
    /\ Caps \subseteq Nat
    /\ NoOne \notin Requests
    /\ MaxAttempts \in Nat \ {0}
    /\ PadLimit \in Nat /\ Radix \in Nat \ {0}
    /\ OldNumbers \subseteq Nat /\ IsFiniteSet(OldNumbers)

VARIABLES
    slotCap,  \* pooja.daily_slot_cap of each seva
    active,   \* pooja.is_active of each seva
    lock,     \* who holds the FOR UPDATE lock of each seva's row
    tickets,  \* the committed rows of seva_tickets
    pc,       \* where each request stands
    job,      \* what each request asks for
    cap,      \* the daily_slot_cap each request has loaded
    num,      \* the sequence number each request has generated
    tries,    \* insertions of each request that met a number already taken
    ceiling   \* history: the loosest cap each seva has had

request == <<pc, job, cap, num, tries>>
vars == <<slotCap, active, lock, tickets, request, ceiling>>

Ticket == [num : Nat, seva : Sevas, date : Dates, mobile : Mobiles, by : Requests]

Working  == {"check", "attempt", "count", "number", "insert", "commit", "reload"}
Answered == {"booked", "refused", "full", "unavailable", "deadlock", "died"}

SlotTickets(s, d) == {t \in tickets : t.seva = s /\ t.date = d}
Booked(s, d) == Cardinality(SlotTickets(s, d))
Numbers == OldNumbers \union {t.num : t \in tickets}

Init == /\ slotCap \in [Sevas -> Caps]
        /\ active = [s \in Sevas |-> TRUE]
        /\ lock = [s \in Sevas |-> NoOne]
        /\ tickets = {}
        /\ pc = [r \in Requests |-> "idle"]
        /\ job = [r \in Requests |-> NoJob]
        /\ cap = [r \in Requests |-> Unlimited]
        /\ num = [r \in Requests |-> 0]
        /\ tries = [r \in Requests |-> 0]
        /\ ceiling = slotCap

-----------------------------------------------------------------------------
(* Helpers *)

Goto(r, step) == pc' = [pc EXCEPT ![r] = step]

\* The end of r's transaction, whichever way it ends, frees the lock it holds.
Unlock(r) == lock' = [s \in Sevas |-> IF lock[s] = r THEN NoOne ELSE lock[s]]

\* Ticket numbers are compared as text.  "SVVD-2026-1000000" sorts below
\* "SVVD-2026-999999": a number with a digit more than the padding sorts by its
\* leading digits.  TextRank orders the sequence numbers as that text is ordered.
TextRank(n) == IF n < PadLimit THEN 2 * Radix * n ELSE 2 * n + 1

\* One more than the number that is last in text order, 1 when there is none.
NextNumbers ==
    IF Numbers = {} THEN {1}
    ELSE {n + 1 : n \in {m \in Numbers : \A k \in Numbers : TextRank(k) <= TextRank(m)}}

\* r waits for q to end its transaction: its insertion for the number q has
\* inserted and not yet committed, its foreign key check for the row q has locked.
WaitsForNumber(r, q) == pc[r] = "insert" /\ pc[q] = "commit" /\ num[r] = num[q] /\ r # q
WaitsForRow(r, q) == pc[r] = "commit" /\ lock[job[r].seva] = q /\ q # r
WaitsFor(r, q) == WaitsForNumber(r, q) \/ WaitsForRow(r, q)

-----------------------------------------------------------------------------
(* The steps of a booking request *)

\* The seva is loaded: an online booking of an inactive one is refused, a
\* counter ticket goes ahead.  The cap loaded here is the one of the first attempt.
Begin(r) == \E j \in Asks[r] :
    /\ pc[r] = "idle"
    /\ job' = [job EXCEPT ![r] = j]
    /\ cap' = [cap EXCEPT ![r] = slotCap[j.seva]]
    /\ Goto(r, IF j.kind = "COUNTER" THEN "attempt"
               ELSE IF active[j.seva] THEN "check" ELSE "refused")
    /\ UNCHANGED <<slotCap, active, lock, tickets, num, tries, ceiling>>

\* An online booking is refused when its mobile number has a ticket for the slot.
CheckDuplicate(r) ==
    /\ pc[r] = "check"
    /\ Goto(r, IF \E t \in SlotTickets(job[r].seva, job[r].date) : t.mobile = job[r].mobile
               THEN "refused" ELSE "attempt")
    /\ UNCHANGED <<slotCap, active, lock, tickets, job, cap, num, tries, ceiling>>

\* "if cap": without one, no lock and no count.
SkipCount(r) ==
    /\ pc[r] = "attempt" /\ cap[r] = Unlimited
    /\ Goto(r, "number")
    /\ UNCHANGED <<slotCap, active, lock, tickets, job, cap, num, tries, ceiling>>

\* Mutant: the tickets are counted without the lock.
CountUnlocked(r) ==
    /\ pc[r] = "attempt" /\ cap[r] # Unlimited
    /\ Goto(r, "count")
    /\ UNCHANGED <<slotCap, active, lock, tickets, job, cap, num, tries, ceiling>>

LockSeva(r) ==
    /\ pc[r] = "attempt" /\ cap[r] # Unlimited
    /\ lock[job[r].seva] = NoOne
    /\ lock' = [lock EXCEPT ![job[r].seva] = r]
    /\ Goto(r, "count")
    /\ UNCHANGED <<slotCap, active, tickets, job, cap, num, tries, ceiling>>

CountSlots(r) ==
    /\ pc[r] = "count"
    /\ IF Booked(job[r].seva, job[r].date) >= cap[r]
       THEN Goto(r, "full") /\ Unlock(r)
       ELSE Goto(r, "number") /\ UNCHANGED lock
    /\ UNCHANGED <<slotCap, active, tickets, job, cap, num, tries, ceiling>>

\* Mutant: a retry keeps the number it has lost.
GenerateNumberOnce(r) ==
    /\ pc[r] = "number"
    /\ IF tries[r] = 0 THEN \E n \in NextNumbers : num' = [num EXCEPT ![r] = n] ELSE UNCHANGED num
    /\ Goto(r, "insert")
    /\ UNCHANGED <<slotCap, active, lock, tickets, job, cap, tries, ceiling>>

GenerateNumber(r) ==
    /\ pc[r] = "number"
    /\ \E n \in NextNumbers : num' = [num EXCEPT ![r] = n]
    /\ Goto(r, "insert")
    /\ UNCHANGED <<slotCap, active, lock, tickets, job, cap, tries, ceiling>>

\* The row enters the unique index, uncommitted.
InsertTicket(r) ==
    /\ pc[r] = "insert"
    /\ num[r] \notin Numbers
    /\ \A q \in Requests : ~WaitsForNumber(r, q)
    /\ Goto(r, "commit")
    /\ UNCHANGED <<slotCap, active, lock, tickets, job, cap, num, tries, ceiling>>

\* IntegrityError: roll back and try again, or answer 503 after the last attempt.
NumberTaken(r) ==
    /\ pc[r] = "insert"
    /\ num[r] \in Numbers
    /\ tries' = [tries EXCEPT ![r] = @ + 1]
    /\ Goto(r, IF tries[r] + 1 = MaxAttempts THEN "unavailable" ELSE "reload")
    /\ Unlock(r)
    /\ UNCHANGED <<slotCap, active, tickets, job, cap, num, ceiling>>

\* Mutant: a committed request goes round the loop once more.
CommitAndRetry(r) ==
    /\ pc[r] = "commit"
    /\ lock[job[r].seva] \in {NoOne, r}
    /\ tickets' = tickets \union {[num |-> num[r], seva |-> job[r].seva, date |-> job[r].date,
                                   mobile |-> job[r].mobile, by |-> r]}
    /\ Goto(r, IF tries[r] = 0 THEN "booked" ELSE "reload")
    /\ Unlock(r)
    /\ UNCHANGED <<slotCap, active, job, cap, num, tries, ceiling>>

\* The foreign key check gets its KEY SHARE lock and the transaction commits.
CommitTicket(r) ==
    /\ pc[r] = "commit"
    /\ lock[job[r].seva] \in {NoOne, r}
    /\ tickets' = tickets \union {[num |-> num[r], seva |-> job[r].seva, date |-> job[r].date,
                                   mobile |-> job[r].mobile, by |-> r]}
    /\ Goto(r, "booked")
    /\ Unlock(r)
    /\ UNCHANGED <<slotCap, active, job, cap, num, tries, ceiling>>

\* Mutant: a retry leaves the slot it has just lost out of the cap it reloads.
ReloadSevaLessOne(r) ==
    /\ pc[r] = "reload"
    /\ cap' = [cap EXCEPT ![r] = slotCap[job[r].seva] - 1]
    /\ Goto(r, "attempt")
    /\ UNCHANGED <<slotCap, active, lock, tickets, job, num, tries, ceiling>>

\* The rollback expired the loaded seva: the next attempt reads its cap again.
ReloadSeva(r) ==
    /\ pc[r] = "reload"
    /\ cap' = [cap EXCEPT ![r] = slotCap[job[r].seva]]
    /\ Goto(r, "attempt")
    /\ UNCHANGED <<slotCap, active, lock, tickets, job, num, tries, ceiling>>

\* Mutant: nothing breaks a wait cycle.
NoVictim(r) == FALSE /\ UNCHANGED vars

\* PostgreSQL aborts one member of a cycle of waiting transactions.  The error is
\* no IntegrityError: the loop does not catch it, and the request ends in a 500.
DeadlockVictim(r) ==
    /\ \E C \in SUBSET Requests :
          /\ r \in C
          /\ \A q \in C : /\ \E w \in C : WaitsFor(q, w)
                          /\ \E w \in C : WaitsFor(w, q)
    /\ Goto(r, "deadlock")
    /\ Unlock(r)
    /\ UNCHANGED <<slotCap, active, tickets, job, cap, num, tries, ceiling>>

\* The request ends before its answer: the process dies or the connection is
\* lost.  The database rolls its transaction back.
Die(r) ==
    /\ pc[r] \in Working
    /\ Goto(r, "died")
    /\ Unlock(r)
    /\ UNCHANGED <<slotCap, active, tickets, job, cap, num, tries, ceiling>>

Step(r) == \/ CheckDuplicate(r) \/ SkipCount(r) \/ LockSeva(r) \/ CountSlots(r)
           \/ GenerateNumber(r) \/ InsertTicket(r) \/ NumberTaken(r)
           \/ CommitTicket(r) \/ ReloadSeva(r) \/ DeadlockVictim(r)

-----------------------------------------------------------------------------
(* Staff operations on what the requests read *)

Looser(a, b) == IF a = Unlimited \/ b = Unlimited THEN Unlimited ELSE IF a < b THEN b ELSE a

\* update_pooja: the UPDATE waits for a row locked FOR UPDATE.
EditSeva(s) == \E c \in Caps, a \in BOOLEAN :
    /\ lock[s] = NoOne
    /\ slotCap' = [slotCap EXCEPT ![s] = c]
    /\ active' = [active EXCEPT ![s] = a]
    /\ ceiling' = [ceiling EXCEPT ![s] = Looser(@, c)]
    /\ UNCHANGED <<lock, tickets, request>>

\* delete_pooja only clears the flag.
RetireSeva(s) ==
    /\ lock[s] = NoOne
    /\ active' = [active EXCEPT ![s] = FALSE]
    /\ UNCHANGED <<slotCap, lock, tickets, request, ceiling>>

DeleteTicket == \E t \in tickets :
    /\ tickets' = tickets \ {t}
    /\ UNCHANGED <<slotCap, active, lock, request, ceiling>>

Next == \/ \E r \in Requests : Begin(r) \/ Step(r) \/ Die(r)
        \/ \E s \in Sevas : EditSeva(s) \/ RetireSeva(s)
        \/ DeleteTicket

Spec == Init /\ [][Next]_vars

\* A thread of the pool goes on, and the database serves the statement it waits
\* for; nobody has to send a request, edit a seva or delete a ticket.
Fairness == \A r \in Requests : WF_vars(Step(r))
FairSpec == Spec /\ Fairness
-----------------------------------------------------------------------------
(* Invariants *)

\* Every variable keeps its type, and a request that has begun has a job.
TypeOK ==
    /\ slotCap \in [Sevas -> Caps]
    /\ active \in [Sevas -> BOOLEAN]
    /\ lock \in [Sevas -> Requests \union {NoOne}]
    /\ tickets \subseteq Ticket
    /\ IsFiniteSet(tickets)
    /\ pc \in [Requests -> {"idle"} \union Working \union Answered]
    /\ job \in [Requests -> Jobs \union {NoJob}]
    /\ \A r \in Requests : pc[r] # "idle" => job[r] \in Jobs
    /\ cap \in [Requests -> Caps \union {Unlimited}]
    /\ num \in [Requests -> Nat]
    /\ tries \in [Requests -> Nat]
    /\ ceiling \in [Sevas -> Caps]

\* The lock of a seva is held exactly by the request that is counting or
\* inserting under a cap for it: no answer, no retry and no failure leaves it
\* behind (a lock left behind would stop every later booking of the seva).
LockDiscipline == \A s \in Sevas, r \in Requests :
    lock[s] = r <=> /\ pc[r] \in {"count", "number", "insert", "commit"}
                    /\ cap[r] # Unlimited
                    /\ job[r].seva = s

\* What a request counted still holds when it inserts: the slot has room until
\* its own ticket is in, whoever else books, with or without a cap, whatever
\* staff edit or delete ("two devotees can't both take the last slot").
CountStillHolds == \A r \in Requests :
    pc[r] \in {"number", "insert", "commit"} /\ cap[r] # Unlimited
        => Booked(job[r].seva, job[r].date) < cap[r]

\* A slot never holds more tickets than the loosest cap its seva has had.
NoOverbooking == \A s \in Sevas, d \in Dates :
    ceiling[s] # Unlimited => Booked(s, d) <= ceiling[s]

\* No cap in force or loaded by a request is looser than the ceiling of its seva.
Within(c, s) == ceiling[s] = Unlimited \/ (c # Unlimited /\ c <= ceiling[s])
CapsWithinCeiling ==
    /\ \A s \in Sevas : Within(slotCap[s], s)
    /\ \A r \in Requests : pc[r] # "idle" => Within(cap[r], job[r].seva)

\* A ticket belongs to a request that ended in it, and to no other request.
OneTicketEach ==
    /\ \A t \in tickets : pc[t.by] = "booked"
    /\ \A t, u \in tickets : t.by = u.by => t = u

\* The inductive invariant behind NoOverbooking and the refinement.
IInv == TypeOK /\ LockDiscipline /\ CountStillHolds /\ CapsWithinCeiling
        /\ NoOverbooking /\ OneTicketEach

\* A number that outgrew its padding was issued.
Outgrown == \/ \E n \in OldNumbers : n >= PadLimit
            \/ \E q \in Requests : pc[q] = "booked" /\ num[q] >= PadLimit

\* "retry if two bookings race for the same number": every failed attempt of a
\* request was beaten by another request's booking, until the year's numbers
\* outgrow their padding (after that the next number is always a taken one).
RetriesAreLostRaces == \A r \in Requests :
    tries[r] > Cardinality({q \in Requests \ {r} : pc[q] = "booked"}) => Outgrown

-----------------------------------------------------------------------------
(* Refinement and liveness *)

\* The refinement mapping: who holds a slot, and who has been served.
Holders(s, d) == {t.by : t \in SlotTickets(s, d)}
BookedSlots == [slot \in Sevas \X Dates |-> Holders(slot[1], slot[2])]
Served == {r \in Requests : pc[r] = "booked"}

Register == INSTANCE SlotRegister WITH
    Limits <- Caps, booked <- BookedSlots, served <- Served

\* Bookings appear atomic and happen once: a request that retried took one slot,
\* in one step, while the slot had room, and only deletion gives a slot back.
ImplementsRegister == Register!Spec

\* Every request is answered, however often it waits, loses a race or is aborted.
EveryRequestAnswered == \A r \in Requests : pc[r] \in Working ~> pc[r] \in Answered

-----------------------------------------------------------------------------
(* What the repository's comments say and the code does not do *)

\* seva_ticket_service.py:63 "retry if two bookings race for the same number":
\* no race for a number ends a request in a database error.
RaceIsRetried == \A r \in Requests : pc[r] # "deadlock"
=============================================================================
