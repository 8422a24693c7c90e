# Verification of the temple backend

TLA+ models of the backend of a temple's web site (`backend/app`: FastAPI,
SQLAlchemy, PostgreSQL), model-checked with TLC and proved with TLAPS. Paths
below are relative to `backend/app` of the repository unless they say otherwise.

## The system

Visitors and devotees (the Next.js frontend) and staff send HTTP requests.
FastAPI runs a handler in a thread of a pool, with a database session of its
own (`core/database.py`: `autocommit=False`, `autoflush=False`), so requests
interleave at every SQL statement, in one worker or in several. PostgreSQL runs at
READ COMMITTED: a SELECT sees what is committed at that moment, an UPDATE
writes the columns the session changed and waits for the row's lock, and
nothing orders a read before the write that is decided on it unless the code
takes a lock. Only `services/seva_ticket_service.py` and
`services/occasion_greeting_service.py` take measures of that kind (a
`FOR UPDATE` lock, a conditional UPDATE); unique columns catch some of the rest.
A cron job runs the scripts of `cli/`. In production the site is one uvicorn worker
(`docker-compose.prod.yml:45`) behind proxies, with a cache and limiters in its memory.

### Inventory

| Component | State | Operations | Interacts with | Hard behaviour | What makes it correct | Module |
|---|---|---|---|---|---|---|
| Seva booking (`seva_ticket_service`, `pooja_service`) | `seva_tickets`, `poojas.daily_slot_cap`, `is_active` | `book_ticket`, `create_counter_ticket`, `update_pooja`, `delete_pooja`, `delete_ticket` | row lock of the seva, unique ticket number, foreign key | concurrent bookings, a lost race for a number and its retries, deadlock, a dying worker, a changing cap | no slot is overbooked; one ticket a request, entered atomically; every request is answered | `SevaBooking`, `SlotRegister` |
| Ticket desk (same service) | `payment_status`, `status`, `greeting_sent_at`, `income_transactions` | issue, `collect_payment`, `scan_ticket`, `delete_ticket` | ledger, greetings | two commits in one handler, reads that are decided on later | ledger and tickets agree; nobody is admitted without paying | `TicketDesk` |
| Occasion greetings (`occasion_greeting_service`, `cli/send_occasion_greetings`) | `greeting_sent_at` | `send_due`, `send_if_due` | the desk, SES | handlers and cron runs at once, a failed mail, midnight, a deleted ticket | at most one acknowledged mail, not too early, none forgotten | `TicketDesk` |
| Letters (`letter_service`) | letter status, signatory slots, reference number | create, update, send, recall, sign, decline, mark on paper, issue, revoke | members, unique reference | signing, recalling and issuing at once | an issued letter carries the answers to its own text; one number a letter | `Letters` |
| Signatures on file (`letter_service`, `auth_service`) | `letter_images`, `members.user_id` | upload, remove, link and unlink a login, delete a login, sign | users, letters | a link moved while an image is stored or placed; a deleted login | a signature serves the login it was put on file for | `Signatures` |
| Inventory (`inventory_service`) | item quantity, average cost, movements, receipts, verifications | create, update, delete, purchase, donation in, usage, adjustment, write-off, verify | unique receipt number, expenses | quantity read and written back with no lock | an item's movements add up to its quantity | `Inventory` |
| Expenses and budgets (`expense_service`) | expense status and amount, budgets | create, update, approve, reject, void, set and copy budgets | ledger | two people decide one expense | one decision; only approved money counts | `Expenses`, `Ledger` |
| Donations (`donor_service`) | donation, its income entry, receipt | create, update, delete, issue receipt | ledger, unique receipt number | edit or delete while the receipt is issued | a receipt agrees with its donation | `Donations` |
| Ledger (`ledger_service`, `finance_service`, `finance_report_service`) | none of its own | paged ledger, balances, summary, monthly report, budget page | income, expenses | merge of sources, pages, boundaries | pages partition the entries; balances chain | `Ledger` |
| Accounts (`auth_service`, `utils/dependencies`) | users, token version, reset tokens | sign in, sign out, refresh, create, update, delete, purge, change and reset a password | every authenticated handler | two demotions, a token used twice, two sign-outs from one version | a super admin remains; a revoked session is refused; a link works once | `Accounts` |
| One-time codes (`otp_service`) | `email_otps` | create, consume | mail | guesses at once, two uses, expiry | a few guesses, one use | `OneTimeCodes` |
| Rate limiter (`utils/rate_limiter`, `core/middleware`) | hits per key | `is_allowed`, sweep, middleware | proxies | the window's edge, the client's own header | at most the limit in a window | `RateLimiter` |
| Public pages and their cache (`core/cache`, sevas, festivals, announcements, timings, profile, gallery, members) | the tables, a dictionary per worker | read, create, update, delete, daily job | cron, staff | a page computed before an edit and stored after it; partial updates; two runs of the job | a page is never older than the editor's answer; windows in order; one announcement a festival | `PublicPages` |
| Blessing photos (`blessing_service`, `storage_service`) | approval, objects in S3 | upload, approve, reject, delete | S3 | two reviewers, a failing S3 call | no public copy of what was not approved | `BlessingReview` |
| Audit (`audit_service`) | `audit_logs` | record, count, alert | every staff handler | alert at the exact count | a burst of deletions is reported once | `AuditAlert` |
| Contact form (`contact_service`) | messages, notes | submit, update, delete | mail | two staff answer one message | the sender is told of a closing once | `FrontDesk` |
| Migrations and start (`alembic`, `legacy_stamp`, `entrypoint.sh`) | the schema, `alembic_version` | upgrade, restamp, downgrade, deploy | docker | a crash in the middle, a database of the squashed history, a downgrade | every database comes up, with its rows | `Schema`, `Revisions`, `Deployment` |
| Panchang, analytics, frontend, PDFs, mail texts | none | | | | see *What is left out* | |

`PROJECT.json` lists every component with its sources and status, and under
`hazards` the places where the code is hard to test, each with the properties
that go wrong with it; a hazard whose very race is excepted by the properties near
it lists none and says so (*What the properties except*).

### Reading the models

A request is a record in a function from requests to where they stand and what
they have loaded. An action is one read, one commit or one call to another
system; a commit writes the columns that the handler changed in its own copy of the
row (`Columns.tla`: SQLAlchemy leaves an unchanged attribute out of the UPDATE).
A request that fails, or whose process dies, stays where it is, unless the
module says otherwise.

Outside the booking and the greetings nothing orders a commit after what it
overtakes, so most of what one would say of these components is false in some
interleaving of two handlers. Where that is a disagreement with what the
repository says, a run shows it (*Findings*). The other properties say exactly how
far they reach: each of these modules keeps a history variable (`overtaken`, `raced`,
`crossed`, `collided`, `late`, `interfered`, ...) of the rows to which a request was
committed although what it had loaded had changed, and the property exempts
those. What it leaves is still open to every interleaving in which each
commit finds what its request had loaded, to failures, and to races that the
unique columns decide.

## What is modelled

### SevaBooking (with SlotRegister, MCSevaBooking, SevaBookingProofs)

One variable per piece of state the bookings share: `slotCap` and `active` (the
columns of `poojas`), `lock` (the holder of the row's `FOR UPDATE` lock),
`tickets` (the committed rows). Each request has a program counter and the
locals of the handler: `job` (what it asks), `cap`, `num`, `tries`. `ceiling` is
history: the loosest cap a seva has had.

One action is one SQL statement of `_create_booking` and its callers:

| Action | Code |
|---|---|
| `Begin` | the seva is loaded, an inactive one refused online (`book_ticket`, `create_counter_ticket`) |
| `CheckDuplicate` | `check_duplicate`, online only |
| `SkipCount`, `LockSeva`, `CountSlots` | `if cap:`, `pooja_repo.lock`, `count_booked`; a full slot ends the transaction |
| `GenerateNumber` | one more than the last number *as text* (`TextRank`) |
| `InsertTicket`, `NumberTaken` | the insertion in the unique index, or `IntegrityError`, rollback and the next attempt, at most `MaxAttempts` |
| `CommitTicket` | the foreign key's `KEY SHARE` lock and the commit |
| `ReloadSeva` | the expired seva is loaded again by the next attempt |
| `DeadlockVictim`, `Die` | PostgreSQL aborts a member of a wait cycle; a worker or its connection is lost |
| `EditSeva`, `RetireSeva`, `DeleteTicket` | staff operations on what the requests read |

A waiting statement is an action that is not enabled; a wait for a number that
another request has inserted and not committed is `WaitsForNumber`, a wait for
the row is `WaitsForRow`.

`SlotRegister` is the promise: a register of slots in which a request is
entered by one atomic step, at most once, while the slot has room. SevaBooking
implements it under the mapping "a slot's holders are the requests of its
committed tickets, served are the requests that stand at *booked*".

### TicketDesk (with MCTicketDesk, TicketDeskProofs)

The life of a ticket after its booking. `rows` holds the columns the handlers
decide on (payment, status, whether `greeting_sent_at` is set), `income` the
ledger's entries, each named by the request that posted it, `day` the date.
A worker is a request or the cron run of a day; `todo` and `mailing` are the
list and the claim of its greetings, `entry` the income entry a deletion has
found, `mail` the history of each greeting.

One action is one read or one commit. `IssueCounter` and `PostIncome` are the
two commits of a counter ticket, `LoadPending` and `TakePayment` a collection,
`LoadForScan` and `MarkUsed` a scan, `LoadForDelete`, `FindEntry`, `RemoveEntry`
and `RemoveTicket` a deletion. `DueCheck` is the end of a handler that settled a
ticket, `ListDue` the query of `send_due`, `Claim` the conditional UPDATE,
`SendAccepted` and `SendFailed` the two answers of SES, `Release` the UPDATE
that gives the claim back, `ClaimGone` and `AfterMail` what becomes of a run
whose ticket was deleted (a failed refresh ends it). A worker may stop after any
step: no fairness is assumed, so a crash is a worker that takes no further step.

### Letters (with MCLetters, LettersProofs)

`rows` and `slots` are the tables `official_letters` and `letter_signatories`
(status, reference number and a version of the text; for each member the version
of the letter that put it there, the text it was put there with, and the answer),
`edition` counts the writings of a letter, `req` holds the request each worker
serves and what it has loaded. Histories: `used`, every number issued to a letter,
and `overtaken`, the letters to which a request was committed although what it
had checked no longer held.

`ReadLetter` and `ReadSlots` are the two SELECTs of `LetterService.get` and the
checks of the operation. One action per operation commits: `Create`, `Update`,
`Delete`, `Send`, `Recall`, `Sign`, `Decline`, `MarkPaper`, `Revoke`, and for an
issue `TakeNumber` (`_next_reference`), then `Issue`, or `NumberTaken` (the unique
column) and `Reload`. A commit writes only the columns that the handler changed,
of the rows that it loaded; one whose rows are gone fails (`Abandon`, which is also
a refused check and a dead process). Workers serve one request after the other.

### Signatures (in Site, SiteProofs)

`holder` is `user_id` of each member, `logins` the logins that exist, `images` the
table `letter_images` (owner, retired or not; the login it was stored for is
history). `LoadToSign`, `LoadToStore` and `LoadToLink` load the member and make the
checks; `Find` is the query for the current image, or the UPDATE that retires it;
`CommitSign`, `CommitStore` and `CommitLink` commit. `Remove` and `DeleteLogin`
(`auth_service._unlink_and_delete`) are one step each. The histories `interfered`
and `severed` name the members for whom a commit came after a change of what it had
loaded, and those whose login was deleted while a signature was on file.

### Inventory (with MCInventory, InventoryProofs)

`item`, `movements` and `checks` are the tables of the same names. A request loads
the item (`Load`), for a donation in kind counts the receipts of the year, and
commits: the UPDATE of the quantity, average cost and last verification it has
computed from what it loaded, and the INSERT of a movement with the balance
it believes in. A receipt number that is taken is tried again after a rollback,
which loads the item anew and checks nothing again; a deletion looks for
movements first and cascades to those it did not see.

### Expenses, Donations, Ledger (in Money, MCMoney, MoneyProofs)

`Expenses` is the life of an expense: pending or approved on entry, approved,
rejected, corrected, voided, with the rules about who may do what. `Donations` has
each gift with its ledger entry, loaded one after the other and committed
together, and the receipt with its number (one more than the highest of the
year), its retries, and what it freezes. `Ledger` has the two tables as state and
each page of the finance section as an operator written from its own service: the
merged and paged ledger, the ledger with balances, the summary, the month, the
budget page. The ledger with balances follows `generate_ledger` step by step: the rows listed
as the two queries return them (`Listed`), put in the order of their days by a stable sort
(`Earlier`, `Rows`), and the balance carried from row to row. Within a day the rows are in no
order of time, so the balance between two of them means little; after the last row of a day it is
what the next day opens with (`DaysEndRight`). The two properties compare these pages with each other and with
one merged list, for all periods, offsets and page sizes of all tables in the bounds.

### Accounts, OneTimeCodes, RateLimiter (in Site, MCSite, AccessProofs)

`Accounts`: rows of `users` with role, activity and token version; the sessions
handed out; reset links; every operation, from the load of a row to the
commit, with the check of the last super admin (`EnoughLeft`), the version that a
commit raises from the one it loaded (`Revoked`), and the purge of unproven sign-ups. A
token of a link is drawn at random and never drawn again: one that went with its
account stays in `gone` and is not issued anew.
`OneTimeCodes`: the rows of `email_otps` with attempts and use, asked for and entered
by several requests around the end of a code's life. `RateLimiter`: the
middleware's table, the limiter's table with its sweep, the clock that is read before
the lock, and the client address counted from the right of the proxies' header
(`ClientAddress`), against clients that write what they like to the left of it. The list of
times the code keeps for a key is here the set of its hits, numbered in the order of the list.

### PublicPages, AuditAlert, BlessingReview, FrontDesk (in Site, MCSite, SiteProofs)

`PublicPages`: seven tables, one row type, the rules of each table, the query behind
each cache key (`Page`) and the cache of each worker. An edit is load, check of
the merged columns, commit, answer with its invalidation; a reader is look-up,
computation, store; the daily job fills the calendar and announces, row by row, from
the copy of the festival it looked at. A form that arrives has passed its schema.
A behaviour takes one of eight agendas (a few rows and the requests about them).
`AuditAlert`: the entry of a deletion is a commit of its own after the deletion's, and
the count of recent ones another; the alert goes out at exactly the third.
`BlessingReview`: the row and two keys of the bucket, changed one after the other;
each call of the bucket may fail, in the ways `storage_service` reports. `FrontDesk`:
an update of a message, its answer, and the mail decided on the status read again.

### Schema, Revisions, Deployment (in Hosting, MCSite, DeploymentProofs)

`Revisions` has the thirty revisions of `alembic/versions`, up and down, as steps over
the elements of a schema (`Schema`): tables, columns, types, labels, indexes, and the rows
a later revision depends on. A step is refused where PostgreSQL would refuse it.
`Deployment` brings a database up as `entrypoint.sh`, `legacy_stamp.py` and
`env.py` do (all pending revisions in one transaction), lets the container die
anywhere, and lets an operator deploy older and newer releases and take the
database back with the site stopped. Its section *One revision at a time* leaves all of this out: from what a first
start finds it goes one revision up or down at a time, or lets a release record a row, until nothing new comes
(`Met`, 823 databases with their versions and the rows they must have; 2 rounds for each revision are enough). `RevisionsAssumption` says
that no revision fails on any of them and that nothing is missing from any of them; TLC evaluates it at the start of the runs of `MCSite`.

### How they fit together

Booking and desk share the tickets, but no property needs both at once: booking
never reads payment, status or greeting, and the desk never reads caps, locks or
numbers. `DeleteTicket` of SevaBooking is the one commit `RemoveTicket` of
TicketDesk, seen from the slots. A gift and a ticket's fee meet in the ledger's table,
which `Ledger` fills with any entries. `DeleteLogin` of Signatures is `Remove` of
Accounts, seen from the members.

`Money` composes `Expenses`, `Donations` and `Ledger`, and `Site` everything around the bookings
(`Accounts`, `OneTimeCodes`, `RateLimiter`, `PublicPages`, `AuditAlert`, `BlessingReview`, `FrontDesk`, `Signatures`),
for any values of their constants: each part is an instance with variables of its own, and a step of
one leaves the others alone. The proofs are about these modules. `MCMoney` and `MCSite` extend them with
values for TLC. As the parts share no row, their interleavings show nothing new, so there a behaviour stays in one part and the
state space is the sum of theirs. `Deployment`, which runs before the site serves, is no part of `Site`: `Hosting` instantiates it
for any databases and releases, `MCSite` extends both, and `DeploymentProofs` is about `Hosting`.

## What is checked

| Run | Question | Result |
|---|---|---|
| `booking` | Is a slot ever overbooked, is a retry harmless, does the booking implement the register, is every request answered? | holds |
| `booking_race` | Is every race for a number retried (`seva_ticket_service.py:63`)? | violated |
| `desk` | Do ledger, scan and greeting agree with the ticket, whatever interleaves and whoever stops? | holds |
| `desk_twice` | Is a fee collected once (`tests/test_collect_payment.py:71`)? | violated |
| `desk_orphan` | Does no income outlive its ticket (`seva_ticket_service.py:218`)? | violated |
| `letters` | Do signatures, numbers and revocations stand under concurrent requests, except where an overtaken commit disturbed them? | holds |
| `letters_unsigned` | Is a letter issued only once everyone has signed (`models/letter.py:5`)? | violated |
| `stock` | Is the stock what the last movement left, and do histories that nobody overtook add up? | holds |
| `stock_lost_update` | Does every history add up (`inventory_service.py:4`)? | violated |
| `money` | Do decisions, ledger entries and receipts stand, and do all finance pages tell the same story? | holds |
| `site` | Do the parts around the bookings keep their promises? | holds |
| `signatures_inherited` | Does nobody sign with a signature put on file for someone else (`letter_service.py:301`)? | violated |

Each property is stated above its definition, and each has a mutant in
`PROJECT.json`: a plausible bug in one definition that makes TLC find it violated.

* `booking`: `NoOverbooking`; `RetriesAreLostRaces` (every
  failed attempt was beaten by another booking, until the numbers outgrow their
  six digits: from then on text order keeps the last padded number last, and every
  booking of the year fails); `ImplementsRegister`; `EveryRequestAnswered`.
* `desk`: `PaidBeforeUse`; `LedgerAgrees`; `GreetedOnce`; `NeverTooEarly`;
  `NoGreetingMissed` (the payment and the cron job never leave a greeting to each
  other, whenever midnight falls).
* `letters`: `SlotsMatchText` (whoever is on a letter was put there with the text it
  has); `IssuedIsSigned`; `NumbersAreFinal`; `LastAttemptIsFree` (numbers are a count
  plus the failed attempts, which leaves gaps, but never so that an issue nobody
  races exhausts its attempts); `RevokedIsFinal`.
* `stock`: `StockIsLastBalance` holds in every interleaving, lost updates included:
  what is lost is in the history, not in the stock; `HistoryAddsUp`;
  `ReceiptWithinReach`; `AnsweredOnce` (one movement for one success, whatever the
  retries).
* `money`: `CountedWasAccepted` (what counts is an amount an approver has seen);
  `DecisionsStand`; `LedgerInSync`; `ReceiptStands`; `PagesMakeTheLedger`; `BooksAgree`
  (ledger, summary, monthly report and budget page, each with its own query, boundaries and sums, say the same).
* `site`: `SomeoneInCharge`; `RevokedStaysOut` (a session that was ended stays ended,
  whatever refreshes and sign-outs interleave); `SecretsWorkOnce`; `WindowHolds`;
  `FreshAfterEdit`; `RowsInOrder`; `MailedOnce`; `PhotoFollowsDecision`;
  `SignaturesFollowLogins` (one signature, one login, however the links move);
  `UpgradesWork` (no revision is ever refused, a serving site has the schema it
  declares, and the rows of an older schema are still there).

### Bounds

`booking`: three requests for one slot of one seva (one online, one counter, one
either), caps none and 1, staff edits and deletions at any time. Three requests
are needed for a cycle of two waiters that a third sets up, and for a retry
that loses to two others. `MaxAttempts` is 2 instead of 5: one retry and one last
attempt. The padding is one digit in base 3 (`Radix` 3, `PadLimit` 3) with one
old number, so that the third ticket outgrows it as the millionth does in the
code. One seva, one date and one mobile number: a request touches one slot, and
requests for different sevas share only the ticket number, which the proofs
cover for any number of sevas. About 194,000 states.

`desk`: two tickets, four requests (one that issues, online or at the counter,
two clerks that collect, scan or delete, and the other ticket's booking), cron
runs on days 1 and 2, a window of 2 days (7 in the code) and days 0 to 2: a
payment before, on and after the day of the seva, at midnight, and after the
window. Day 0 has no cron run: there a greeting has the payment alone to rely
on. About 1.1 million states.

`letters`: two requests at a time, one after the other, on two letters: anything but
marking on paper may be done to `l1`, which has one or two signatories, and `l2` is
signed on paper and goes straight to its number, so that it can win or lose it. A
letter is written at most twice (`LastEdition`: one edit, the least that changes a
text), the attempts are 2 (5 in the code: one retry and one last attempt), and no
request takes a number beyond 3 (`LastNumber`: both letters, and one more for a
second issue). Two workers suffice for each request to be overtaken by any sequence of
others, as a worker serves many. About 2 million states.

`stock`: four requests on a consumable in stock, a valuable, and room for a new
item, with amounts 1 to 3, two prices that round, two days of different years for
receipts, and three attempts (`MaxTries`): enough for two movements that overtake a
third, and for a donation that loses its number twice. About 220,000 states.

`money`: three clerks (two approvers and one who is not) on one expense with two
amounts; three requests on three gifts, two of them already entered, with two modes and
amounts, two attempts and numbers up to 3; and every ledger of at most three entries
over three days, two times of day, two categories, and months of two days, against
every period, offset and page size. About 95,000 states.

`site`: two or three requests at once on each part. Accounts: two super admins, a devotee
and a name not taken, one reset link at a time of two. Codes: one wrong guess (5 in the
code), a code a window, four ticks of the clock. Limiters: one call in a window of two
ticks, two proxies. Pages: eight agendas on four ids and three days. The alert: at the
second deletion (the third in the code). One ticket with a photo uploaded twice; two
messages; one committee member, two logins, two images. Databases: an empty one and two of the
squashed history; releases 3, 14, 17 and 30; one crash and two operations. About 630,000
states.

Workers, clerks and requests are interchangeable where a `Symmetry` says so; no run with
symmetry checks liveness. In all runs but `booking` the requests end or a worker may find
nothing to do, so these do not check for deadlock; `booking` does, its staff may
go on forever.

### Fairness

`booking` assumes weak fairness of each request's steps and nothing else: a
thread of the pool goes on, and the database serves or aborts the statement it
waits for. Nobody has to send a request, edit a seva or delete a ticket, and a
request may die instead of going on. Weak fairness is enough because a free row
lock is contended by finitely many requests, each with finitely many attempts,
and staff hold it for no longer than one statement. The other runs assume no
fairness: a request there may stop anywhere, which is how a crash is modelled, and
nothing in the code resumes one. What must happen eventually is stated there as
safety: where every request has come to its end, nothing is missing (`NoGreetingMissed`,
`MailedOnce`, `AnsweredOnce`, `PhotoFollowsDecision`).

## What is proved

TLAPS checks, for every value of the constants that satisfies the assumption of the
module (`BookingAssumption`, `DeskAssumption`, `LettersAssumption`, `InventoryAssumption`,
and `MoneyAssumption`, `SiteAssumption` and `HostingAssumption`, which join those of the modules they compose:
any set of requests, sevas, dates, tickets, members, items, people, gifts and logins, any
cap, limit or window, any number of attempts), that every behaviour of the specification
has the property. Each theorem about `Money` or `Site` is about all parts running at once
(`Spec`): a step of another part is a stuttering step of this one, so the invariants
of the parts carry over (lemmas `SpendingRuns`, `CodesRun` and the like).

Each proof is an inductive invariant, a lemma for each action or shape of action, and a
theorem `...Invariance` from which the listed properties follow.

* `SevaBookingProofs`: `TypeCorrect`, `LockHeldWhileNeeded` and `LastSlotTakenOnce`
  (invariants that no run checks on their own), `NeverOverbooked` and `BookingImplementsRegister`.
  The inductive invariant `IInv` adds two parts to the checked ones:
  `CapsWithinCeiling` (a cap loaded once is bounded by the history of caps, or
  `NoOverbooking` would not follow from `CountStillHolds`) and `OneTicketEach` (a
  ticket belongs to a request that ended in it, which makes a commit a step of
  the register). The argument: under the lock, the count can only shrink until
  the holder's own commit, because every other insertion waits for the row
  (`PastCount`, `CountStep`); a commit therefore finds room (`RoomAtCommit`); so
  it is `Book` of the register, a deletion is `Free`, an edit is `Loosen`, and
  everything else stutters.
  `RetriesAreLostRaces` has an invariant of its own, `RacesInv`: a number that was generated is above
  every number there is, as long as all have their padding (`NextIsFree`), so a request that finds it taken
  was overtaken by a booking it had not lost to before (`AttemptsLost`). The attempt to prove it showed that the
  exempted case must include old tickets: a year that starts a run with numbers past their padding loses attempts to nobody.
* `TicketDeskProofs`: all invariants of `desk` and `OneSenderAtATime`, from its `IInv`, which adds
  `NothingBeforeIssue` (no trace of a ticket before its issue), `DecisionsHold`
  (what a request decided on a loaded row still holds of the row, as payments
  are never taken back), `ListedInTime`, `StandsByMail` and `GreetedIsTrue`
  (a row says greeted only if it was, or is being). Effect lemmas state what a
  step does to each row, list and mail; one lemma per part of the invariant then
  goes through the actions. `NoGreetingMissed` needs all of them: when a claim is
  lost it takes `GreetedIsTrue` to see that the winner still mails.
* `LettersProofs`: all properties of `letters`, `RevokedIsFinal` as an action
  property. First each action is shown to be one of six shapes (a request moves on;
  a letter is created, edited, deleted, turned over, issued: lemma `Steps`), then
  each part of `IInv` is carried over the shapes. `IInv` adds `RequestsServed` (what a request has loaded
  and how far its number may reach), `NothingBeforeCreation`, `NumbersAreIssued`,
  `AwaitingHasSlots`, `DraftsHaveNoNumber` and `NumbersInReach`. A number is at
  most the count of numbers issued plus the attempts (`TakenAreUsed`, `ReachStep`),
  and without overtaken commits all of these are on their letters (`AllAreTaken`):
  so the number of the last attempt is free. In an issue that is not
  overtaken the letter has no number yet (`IssueOfUnnumbered`), so the unique
  column decides.
* `InventoryProofs`: all invariants of `stock`. Each action is one of five shapes (a
  request moves on; an item is created, edited, removed, moved), and each part of `IInv` is
  carried over them. `IInv` adds `MovementsInOrder` (each movement has an id of its own, none
  above the last one given, so a new movement is the last of its item), `RequestsServed` (what a request
  loaded could be the item, and its numbers stay below what was issued plus what it lost) and `MovedAsAsked`
  (a movement is of the item its request asked for). The quantity
  written equals the balance inserted, but a commit writes only what differs from what was loaded:
  that the two still agree needs that a movement always changes the quantity. A receipt number
  is at most the receipts of the year plus the attempts lost to others, and neither
  ever shrinks.
* `MoneyProofs`, expenses: `CountedWasAccepted` and the action property `DecisionsStand`. A
  commit whose request loaded the row as it is was allowed by what the row says; every other
  commit is recorded in the history the two properties exempt.
* `MoneyProofs`, gifts: `LedgerInSync` and `ReceiptStands`; with the expenses and the ledger's
  tables, `TypeOK`. The invariant adds that a deleted gift
  never comes back (so a request that misses an entry misses the gift too),
  bounds of the numbers, and what requests loaded. That the next number is one more than an existing
  greatest is by descent over the sets of larger numbers; that no other gift has it is the
  unique column (`Free`), not the count.
* `MoneyProofs`, ledger: `PagesMakeTheLedger`, for any tables, period, offset and size. `TablesInv`
  says that the tables are finite and their ids distinct, which makes the three orders (of each query
  and of the merged entries) total. In a total order the number of rows before a row is its place, no
  two rows have one place and every place is taken (`PlacesTaken`, an injection of a finite set into a
  set of its size), so that sorting needs no induction. A row has at least as many rows before it in
  the merged list as in its own table (`IncomesNotHigher`, `ExpensesNotHigher`), so the first rows of
  the merged list are among the first of their tables, which is all that a page reads
  (`SameBeginning`, `SamePage`).
* `MoneyProofs`, sums: `BooksAgree`. The model adds up a table with the fold of the community modules,
  whose recursive function the provers see as some function that satisfies its equation. That this fixes
  it needs an induction over the subsets of the table, written as a descent: of the subsets on which two
  such functions differ take one with the fewest rows. To know the value without an order of adding, a sum is shown to be a count
  (`SumIsTotal`): the `UnitsOf` a table are the pairs of a row and a number from 1 to its amount, so
  the cardinalities of disjoint unions give all laws of sums that the pages need (`TotalOfBoth`;
  by days, `SumOfBoth`; by categories, `TotalByClass`). The balance after k rows is then the opening
  balance plus the credits minus the debits of the first k (`RunningBalance`), by descent from the smallest k
  where it is not. The rows of a period are its incomes and counted expenses, each once, and those up to the last of
  a day are those of the days up to it, as the sort is by day (`LedgerRows`, `ColumnOfTable`, `EarlierOrdered`,
  `EveryDayEndsRight`). `LedgerAssumption` says that days, times of a day and categories are finite types, which
  makes each table, and each sum, finite. The proof found a fault of the model: the balance was once a
  fold over the sequence, whose order the community modules do not promise, and the rows came out last to first;
  only totals were compared then, so no property saw it. It is now a recursive function over the rows, and
  `DaysEndRight` sees their order.
* `AccessProofs`, codes: `CodeWorksOnce` and `WithinLimit`. `CodesInv` adds that ids are
  given in order (`CodesRowsInOrder`: a new code was never guessed at), that what a request counted
  or loaded passed its check, and the limit for every window instead of those up to now
  (`CodesEveryWindow`). A new row can fill only windows that contain it, and all other rows of
  such a window were counted: the query bounds the time from below only.
* `AccessProofs`, limiters: `WindowHolds`. Whatever precedes it in the header, the address a
  limiter uses is the client's (`AddressOfClient`): the entries are counted from the right, and each
  trusted proxy appended one. `LimitsInv` ties the tables to the history: whoever passed is
  a hit in the table or older than the window (`PassedAreHits`, `AdmittedAreHits`), and the hits of
  a client that was never late are in the order of their times (`HitsInOrder`), which is why
  a sweep that judges a key by its last hit drops nothing that still counts (`SweptTable`). A call is served
  only if fewer than the limit are in the table, so any window it falls into has room (`OverServed`).
* `AccessProofs`, accounts: `SomeoneInCharge`, `RevokedStaysOut` and, with the codes, all of `SecretsWorkOnce`.
  `PeopleInv` adds `VersionsCountEnds` (where no two ends of sessions collided, the version of an account
  is the number of times its sessions were ended, from its insertion on), `TokensKnowTheirEra`
  (a token carries the version of its era), `LinksAreUsedUp` and `VisitsServed` (a request that loaded a
  link found it unused; one that removes a super admin counted more than one). So a token of an earlier era has another
  version than the row and is refused; and two removals of super admins that overlap
  are exactly what `crossed` records.
* `SiteProofs`, signatures: `SignaturesFollowLogins`. `HandsInv` adds `HandsOnFileServes` (what is on file
  of an undisturbed member is for the login they have now or was stored for nobody, and whoever
  signed with it has that login) and `HandsOwnImages`. A link that leaves a login leaves nothing on
  file; a link from nobody changes nothing, because nobody has signed.
* `SiteProofs`, audit and contact form: `MailedOnce`. `TrailInv` says that the deletions of an undisturbed actor
  are counted one by one in the order of their times, so that the count that reaches the threshold is met by one of them
  (`TrailAlerts`, `TrailMails`), and that whoever had to be told by then was told or is about to be (`TrailReported`):
  two mails to one person about one burst would be about two deletions with the same count. `DeskInv` says
  that a request which updated a message knows whether it closed it, and that no two such requests
  are under way unless they overlapped.
* `SiteProofs`, blessings: `PhotoFollowsDecision`. The row and the two objects of the bucket change in separate calls,
  of which any may fail, so the invariant speaks of what is under way: `PhotoShown` says when the public copy is
  there in terms of the row and of the requests that copied it or took it back, as long as none of those under way has
  loaded outdated keys (`PhotoLost`); such a request can only end in a disturbed decision (`PhotoSeen`).
* `SiteProofs`, pages: `FreshAfterEdit` and `RowsInOrder`, and with the other parts `TypeOK` of `Site`. `PagesInv` says of
  what each request carries at which commit it was so (`PagesServed`, `PagesRead`), and what a row can become since
  (`PagesPast`: only timings and photos are deleted, ids are never given again and the table never changes).
  A reader whose page was not dropped since it looked holds the page of some commit after the last answer (`PagesSound`), because
  the prefixes an answer drops cover the keys of its table (`PagesPrefixes`). The rules of the tables go
  through a partial UPDATE because it keeps the table and the source of a row and writes the checked copy where nothing had
  changed (`PagesWritten`). That the lookup of the profile misses none is by the smallest id there is (`PagesSmallest`).
* `DeploymentProofs`: `UpgradesWork`, for any number of crashes, deployments and downgrades and any releases. What single
  revisions do to single databases is a computation, which `RevisionsAssumption` (a part of `HostingAssumption`) leaves to TLC; what is proved is that
  it is enough. `DeploymentInv` says that what is committed (`DatabaseStands`) and what the open transaction has made
  so far (`WorkStands`) are both in `Met`. So no revision fails, a crash leaves what was committed, and an image that finds
  a newer database leaves it alone. Of the rows that must be there, a descent of several revisions in one
  transaction leaves what the same descent would leave revision by revision (`KeptBelow`), and an ascent leaves all
  (`KeptAbove`). In the run one crash and two operations of four releases are tried; the theorem has no such bound, and the assumption does not speak of
  them: `Met` has every version, whichever images exist.

Only model-checked, and why:

* `EveryRequestAnswered` is liveness.
* `RevisionsAssumption`: what thirty given revisions, each a fold over its steps, make of each of the databases they
  meet. TLC computes it for an empty database and two of the squashed history; the provers
  would have to be led through every step on every one. A revision that drops the table of bookings which are
  still there, for example, makes it false.
* The properties of the violated runs are false.

## Findings

1. `booking_race`: one booking holds the row lock and waits for a number that
   an uncapped booking of the same seva has inserted; that one waits for the row
   with its foreign key. PostgreSQL aborts one, and the error is not the
   `IntegrityError` the loop retries.
2. `desk_twice`: `collect_payment` checks and writes with neither a lock nor a
   condition, and two income entries are posted.
3. `desk_orphan`: a deletion that has looked for the income entry before a
   collection posts it leaves it in the ledger.
4. `letters_unsigned`: an issue that has passed its checks commits after a recall
   that cleared the answers. The retry after a lost number widens the window: it
   reloads the letter and does not check it again.
5. `stock_lost_update`: of two movements that load the same quantity the second
   overwrites the first in the stock; both stay in the history, whose balances do
   not add up any more.
6. `signatures_inherited`: no race is needed. Deleting a login unlinks the member and
   leaves the signature on file; a link made from *no login* retires nothing; the next
   login signs with it.

### What the properties except

Where the repository makes no promise for a race that the code loses, no run is violated;
the properties around it except that race by name, and it stays as an observation. The
right column is what the model then does.

| Property | Excepts | What happens there |
|---|---|---|
| `NoOverbooking` | a cap lowered after it was read (`ceiling`) | a booking is admitted under the old cap (`seva_ticket_service.py:68`) |
| `RetriesAreLostRaces` | numbers past their padding (`Outgrown`) | the next number is always a taken one, every booking of the year fails (`seva_ticket_repo.py:85`) |
| `LedgerAgrees`, `NoGreetingMissed` | a request that stands between two commits | one that dies there leaves a paid ticket without income, and not looked at for its greeting (`seva_ticket_service.py:165`, `:229`) |
| `PaidBeforeUse` | nothing; it speaks of the fee alone | two scans that both read ACTIVE both admit, and the row cannot tell (`seva_ticket_service.py:250`) |
| `GreetedOnce` | mails SES took without an answer | such a mail is sent again by the next run (`occasion_greeting_service.py:95`) |
| `NoGreetingMissed` | a worker that holds a claim, and what a run that failed had left to do | a claim of a dead worker is never released; a run whose ticket was deleted sends no more, and a later run lists the rest while their window is open (`:94`, `:100`) |
| `HistoryAddsUp`, `AnsweredOnce` | items moved from an outdated quantity (`raced`), or deleted (`gone`) | a lost update (`stock_lost_update`); a first movement deleted with its item (`inventory_service.py:136`) |
| `SlotsMatchText`, `IssuedIsSigned`, `NumbersAreFinal`, `RevokedIsFinal` | letters committed to from outdated rows (`overtaken`) | a signature on another text, a letter issued again under a second number, or after its revocation (`letter_service.py:172`, `:233`) |
| `CountedWasAccepted`, `DecisionsStand` | expenses committed to from outdated rows (`raced`) | approved and rejected at once: the later commit stands; approved with an amount edited meanwhile (`expense_service.py:274`, `:136`) |
| `LedgerInSync`, `ReceiptStands` | gifts committed to from outdated rows (`raced`) | entry and gift differ; of two numbers issued for one gift the later replaces the one handed out, although line 170 calls the method idempotent (`donor_service.py:126`, `:189`) |
| `SecretsWorkOnce` | answers from outdated rows (`raced`, `overrun`) | guesses at once count as one, a code or a link used twice at once works twice (`otp_service.py:69`, `:73`, `auth_service.py:338`) |
| `SomeoneInCharge` | removals decided on outdated rows (`crossed`) | two super admins who remove each other at once both count two (`auth_service.py:161`) |
| `RevokedStaysOut` | two ends of sessions from one version (`collided`) | a session made between them survives the second (`auth_service.py:43`) |
| `WindowHolds`, limiter | clients with a call that entered behind a later one (`late`) | a sweep may drop hits that still count (`rate_limiter.py:40`) |
| `FreshAfterEdit` | pages stored after a drop their reader had not seen (`late`) | the old page is served until it expires (`core/cache.py:34`) |
| `RowsInOrder` | rows edited from an outdated copy (`overtaken`), created twice (`doubled`) | a window that ends before it starts, two announcements of one festival |
| `MailedOnce` | deletions not counted one by one (`disturbed`), requests for a message that overlap (`overlapped`) | an alert skipped or sent twice, two mails for one closing (`audit_service.py:95`) |
| `PhotoFollowsDecision` | decisions on outdated rows, calls of the bucket that failed (`disturbed`); it speaks of the public copy only | a rejected photo that stays public; a private object uploaded after a decision stays in the bucket (`blessing_service.py:180`) |
| `SignaturesFollowLogins` | members linked or signed for at once (`interfered`), whose login was deleted (`severed`) | a signature of one login serves another (`letter_service.py:175`; `signatures_inherited`) |

## What is left out

* Booking: dates in the past and blessing photos are refused before anything is written.
  The status CANCELLED is read by the code and set by no operation. A ticket marked
  paid at the counter with no amount posts no income and is modelled with the free
  ones. A mail that SES took and whose answer was lost counts as failed, as it does
  for the program.
* Letters: passwords and placeholders refuse requests and nothing else; the deletion of a
  member empties a slot's `member_id` and an image's; all letters are dated in one year,
  each year counts its own numbers. The texts are abstracted to versions.
* Budgets are a constant of `Ledger`: setting and copying them writes no other table, and
  only the budget page reads it. Two copies into one month at once may leave categories of
  both (`services/expense_service.py:265` deletes what it sees); no property says so. The
  expense that a purchase inserts in its own commit is a row of `Expenses`, entered like
  any other.
* Donations: receipts of one year; the archive of a PDF, which nothing reads back.
* Accounts: the lifetime of tokens, password hashes, texts; Turnstile, which only refuses.
* Panchang: astronomy in floating point over the dates of a year. Analytics: read-only
  aggregates. The frontend: a client of the API, its requests are the inputs here. PDFs,
  QR images, mail texts, response schemas: they change nothing that a modelled operation
  reads. The backup and setup scripts of `deploy/`.

## Plan

Done: all modules above, and the proofs of every invariant and action property of the passing runs.

Next: a history of admissions, which would let `TicketDesk` speak of the double scan; more kinds of databases of the
squashed history.
