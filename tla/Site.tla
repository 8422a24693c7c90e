---------------------------------- MODULE Site ----------------------------------
(***************************************************************************)
(* The site around bookings, letters, stock and money: accounts, one-time  *)
(* codes, the limiters, the public pages, the audit alert, the review of   *)
(* blessings, the contact form and the signatures on file.  Requests for   *)
(* any of them interleave freely; each module has its own tables, so a     *)
(* step of one leaves the others alone.  The deletion of a login, which    *)
(* the accounts and the signatures share, is an action of both.            *)
(***************************************************************************)
EXTENDS Integers, Sequences

CONSTANTS Requests, NoRow, None,
    Users, Staff, ResetLinks, Unproven, WithEmail, AccountForms, MaxResets,               \* of Accounts
    Purposes, MaxAttempts, MaxCodes, TimeToLive, CodeWindow, LastCode,                    \* of OneTimeCodes
    Callers, Clients, Prefixes, Proxies, TrustedHops, MaxRequests, WindowSeconds, SweepEvery,
    Calls, Period, LastCall, LastTime,                                                    \* of RateLimiter
    Workers, Names, PageIds, Days, Today, Lead, Calendar, Agendas,                        \* of PublicPages
    Actors, Threshold, AlertWindow, Recipients, LastHour,                                 \* of AuditAlert
    Tickets, WithPhoto, ShowsName, Settled, SevaDay, VisibleDays, LastDate, MaxUploads,   \* of BlessingReview
    Messages, Unanswered, Notes, Updates,                                                 \* of FrontDesk
    Members, Logins, MaxImages, Seal                                                      \* of Signatures

VARIABLES
    account, tokens, mailed, links, visit, gone, era, collided, crossed, uses,
    clock, codes, verifying, mailbox, guessed, accepted, raced, overrun,
    tick, clients, passed, requests, calls, inside, admitted, latest, late,
    agenda, rows, cache, edit, past, answered, dropped, tardy, overtaken, doubled,
    time, entries, auditing, mails, disturbed,
    ticket, private, public, uploads, today, reviewing, decided, unsettled,
    messages, answering, held, closings, told, overlapped,
    holder, logins, images, signing, signings, interfered, severed

accountsVars == <<account, tokens, mailed, links, visit, gone, era, collided, crossed, uses>>
codesVars == <<clock, codes, verifying, mailbox, guessed, accepted, raced, overrun>>
limiterVars == <<tick, clients, passed, requests, calls, inside, admitted, latest, late>>
pagesVars == <<agenda, rows, cache, edit, past, answered, dropped, tardy, overtaken, doubled>>
auditVars == <<time, entries, auditing, mails, disturbed>>
blessingVars == <<ticket, private, public, uploads, today, reviewing, decided, unsettled>>
deskVars == <<messages, answering, held, closings, told, overlapped>>
signaturesVars == <<holder, logins, images, signing, signings, interfered, severed>>
siteVars == <<accountsVars, codesVars, limiterVars, pagesVars, auditVars, blessingVars, deskVars, signaturesVars>>

People == INSTANCE Accounts
    WITH Links <- ResetLinks, Forms <- AccountForms, NoUser <- NoRow, NoLink <- None, request <- visit
Codes == INSTANCE OneTimeCodes
    WITH LastId <- LastCode, now <- clock, request <- verifying, mailed <- mailbox
Limits == INSTANCE RateLimiter WITH Requests <- Callers, now <- tick
Content == INSTANCE PublicPages WITH Ids <- PageIds, request <- edit, late <- tardy
Trail == INSTANCE AuditAlert WITH LastTime <- LastHour, now <- time, request <- auditing
Blessings == INSTANCE BlessingReview
    WITH LastDay <- LastDate, NoTicket <- NoRow, request <- reviewing, disturbed <- unsettled
Desk == INSTANCE FrontDesk WITH Waiting <- Unanswered, request <- answering
Hands == INSTANCE Signatures WITH Nobody <- None, request <- signing

ASSUME SiteAssumption ==
    /\ People!AccountsAssumption /\ Codes!OneTimeCodesAssumption /\ Limits!RateLimiterAssumption
    /\ Content!PublicPagesAssumption /\ Trail!AuditAlertAssumption /\ Blessings!BlessingReviewAssumption
    /\ Desk!FrontDeskAssumption /\ Hands!SignaturesAssumption
-----------------------------------------------------------------------------
Init == /\ People!Init /\ Codes!Init /\ Limits!Init /\ Content!Init
        /\ Trail!Init /\ Blessings!Init /\ Desk!Init /\ Hands!Init

Visit == /\ People!Next
         /\ UNCHANGED <<codesVars, limiterVars, pagesVars, auditVars, blessingVars, deskVars, signaturesVars>>
Verify == /\ Codes!Next
          /\ UNCHANGED <<accountsVars, limiterVars, pagesVars, auditVars, blessingVars, deskVars, signaturesVars>>
Limit == /\ Limits!Next
         /\ UNCHANGED <<accountsVars, codesVars, pagesVars, auditVars, blessingVars, deskVars, signaturesVars>>
Publish == /\ Content!Next
           /\ UNCHANGED <<accountsVars, codesVars, limiterVars, auditVars, blessingVars, deskVars, signaturesVars>>
Audit == /\ Trail!Next
         /\ UNCHANGED <<accountsVars, codesVars, limiterVars, pagesVars, blessingVars, deskVars, signaturesVars>>
Review == /\ Blessings!Next
          /\ UNCHANGED <<accountsVars, codesVars, limiterVars, pagesVars, auditVars, deskVars, signaturesVars>>
Answer == /\ Desk!Next
          /\ UNCHANGED <<accountsVars, codesVars, limiterVars, pagesVars, auditVars, blessingVars, signaturesVars>>
Sign == /\ Hands!Next
        /\ UNCHANGED <<accountsVars, codesVars, limiterVars, pagesVars, auditVars, blessingVars, deskVars>>

Next == Visit \/ Verify \/ Limit \/ Publish \/ Audit \/ Review \/ Answer \/ Sign
Spec == Init /\ [][Next]_siteVars
-----------------------------------------------------------------------------
(* The properties of the modules, under one name each; the modules say in which races *)
(* they hold *)

\* Every variable has the values its columns can hold.
TypeOK == /\ People!TypeOK /\ Codes!TypeOK /\ Limits!TypeOK /\ Content!TypeOK
          /\ Trail!TypeOK /\ Blessings!TypeOK /\ Desk!TypeOK /\ Hands!TypeOK

\* An active super admin remains, and a session that was ended is over.
SomeoneInCharge == People!SomeoneInCharge
RevokedStaysOut == People!RevokedStaysOut

\* A code, and a link to reset a password, is good for one use.
SecretsWorkOnce == People!LinkWorksOnce /\ Codes!CodeWorksOnce /\ Codes!WithinLimit

\* No client gets past a limiter more often than it may.
WindowHolds == Limits!WindowHolds

\* A worker serves what its editors were told is published, and the tables keep their rules.
FreshAfterEdit == Content!FreshAfterEdit
RowsInOrder == Content!RowsInOrder

\* The alert about deletions, and the answer to a message of the form, are mailed once.
MailedOnce == Trail!AlertOnce /\ Desk!ClosingToldOnce

\* No photo is public but of what was approved last.
PhotoFollowsDecision == Blessings!PhotoFollowsDecision

\* A signature on file serves the login it was stored for; "a new login can never
\* sign with the predecessor's signature".
SignaturesFollowLogins == Hands!SignaturesFollowLogins
SignsWithOwnSignature == Hands!SignsWithOwnSignature
=============================================================================
