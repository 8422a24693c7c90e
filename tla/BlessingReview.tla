----------------------------- MODULE BlessingReview -----------------------------
(***************************************************************************)
(* The photo a devotee adds to a booking, and what the site shows of it:   *)
(* services/blessing_service.py with services/storage_service.py.          *)
(*                                                                         *)
(* The browser uploads to a private key of the bucket.  Staff approve: the *)
(* object is copied to a public key, the private one deleted, the ticket   *)
(* committed; or reject: both objects are deleted as far as possible and   *)
(* the ticket is committed.  The bucket and the row are changed one after  *)
(* the other, without a lock.  A request that dies stays where it is.      *)
(* Left out: texts, types and sizes of files, a bucket that is not         *)
(* configured (nothing has a photo then), and the counts of the calendar.  *)
(***************************************************************************)
EXTENDS Naturals, FiniteSets, Columns

CONSTANTS Requests, Tickets,
          WithPhoto, ShowsName,  \* tickets booked with a photo, with a public blessing
          Settled,               \* tickets that are paid for, or free
          SevaDay, VisibleDays,  \* the day of the sevas, BLESSING_VISIBLE_DAYS
          LastDay,               \* bound: days
          MaxUploads,            \* bound: uploads to a presigned key
          NoTicket

Row == [review : {"PENDING", "APPROVED", "REJECTED"}, key : BOOLEAN, url : BOOLEAN, show : BOOLEAN]

BlessingReviewAssumption ==
    /\ WithPhoto \union ShowsName = Tickets /\ Settled \subseteq Tickets
    /\ MaxUploads \in Nat /\ NoTicket \notin Row
    /\ SevaDay \in Nat /\ VisibleDays \in Nat \ {0} /\ LastDay \in Nat

VARIABLES
    ticket,    \* the rows
    private,   \* tickets with an object under their private key
    public,    \* tickets with an object under their public key
    uploads,   \* how often the browser of a ticket has uploaded
    today,     \* the calendar
    request,   \* where each request is, with what it has loaded
    decided,   \* history: the last decision committed
    disturbed  \* history: tickets decided on an outdated row, or with a failure of the bucket

blessingVars == <<ticket, private, public, uploads, today, request, decided, disturbed>>

Idle == [step |-> "idle"]
Over == [step |-> "over"]
Busy == [step : {"loaded", "copied", "published"}, approve : BOOLEAN, of : Tickets, saw : Row,
         left : SUBSET {"private", "public"}, url : BOOLEAN]

Init ==
    /\ ticket = [t \in Tickets |-> [review |-> "PENDING", key |-> t \in WithPhoto, url |-> FALSE, show |-> t \in ShowsName]]
    /\ private = {} /\ public = {} /\ uploads = [t \in Tickets |-> 0] /\ today = 0
    /\ request = [r \in Requests |-> Idle]
    /\ decided = [t \in Tickets |-> "none"] /\ disturbed = {}
-----------------------------------------------------------------------------
To(r, fields) == request' = [request EXCEPT ![r] = fields]
Existing == {t \in Tickets : ticket[t] # NoTicket}

\* approved, blessing_status, day and personal: what a page tells of a ticket.
Approved(t) == ticket[t].review = "APPROVED"
Status(day) == IF day < SevaDay THEN "upcoming"
               ELSE IF day <= SevaDay + VisibleDays - 1 THEN "active" ELSE "archived"
Listed(t) == t \in Existing /\ ticket[t].show /\ t \in Settled /\ Approved(t)
PhotoOfDay(t) == Listed(t) /\ ticket[t].url /\ Status(today) = "active"
PhotoOfPage(t) == t \in Existing /\ t \in Settled /\ Status(today) = "active" /\ Approved(t) /\ ticket[t].url

PassDay == /\ today < LastDay /\ today' = today + 1
           /\ UNCHANGED <<ticket, private, public, uploads, request, decided, disturbed>>

\* A presigned upload is good for five minutes, before and after the booking.
Upload(t) ==
    /\ t \in WithPhoto /\ uploads[t] < MaxUploads
    /\ private' = private \union {t} /\ uploads' = [uploads EXCEPT ![t] = @ + 1]
    /\ UNCHANGED <<ticket, public, today, request, decided, disturbed>>

\* review: what staff decide on is loaded.
Load(r) == \E t \in Existing, approve \in BOOLEAN :
    LET row == ticket[t]
        keys == {k \in {"private", "public"} : IF k = "private" THEN row.key ELSE row.url}
    IN /\ request[r] = Idle
       /\ To(r, [step |-> IF approve /\ ~row.key THEN "published" ELSE "loaded", approve |-> approve, of |-> t,
                 saw |-> row, left |-> IF approve THEN {} ELSE keys, url |-> row.url])
       /\ UNCHANGED <<ticket, private, public, uploads, today, decided, disturbed>>

NoDecision == UNCHANGED <<ticket, uploads, today, decided>>

\* publish: the copy.  What was never uploaded, or is gone, is approved without photo.
CopyPhoto(r) ==
    LET q == request[r]
        there == q.of \in private
    IN /\ q.step = "loaded" /\ q.approve
       /\ public' = IF there THEN public \union {q.of} ELSE public
       /\ To(r, [q EXCEPT !.step = IF there THEN "copied" ELSE "published", !.url = FALSE])
       /\ UNCHANGED <<private, disturbed>> /\ NoDecision

\* publish: the private object.
DeletePrivate(r) ==
    LET q == request[r]
    IN /\ q.step = "copied"
       /\ private' = private \ {q.of}
       /\ To(r, [q EXCEPT !.step = "published", !.url = TRUE])
       /\ UNCHANGED <<public, disturbed>> /\ NoDecision

\* Any other answer of the bucket: 503.
BucketFails(r) ==
    LET q == request[r]
    IN /\ q.step \in {"loaded", "copied"} /\ q.approve
       /\ disturbed' = disturbed \union {q.of}
       /\ To(r, Over)
       /\ UNCHANGED <<private, public>> /\ NoDecision

\* Mutant: only the object that waits for its review.
PrivateOnly(q) == q.left \intersect {"private"}

\* The objects a rejection deletes: photo_key, and the key of photo_url.
ToDelete(q) == q.left

\* _reject: one object after the other; a failure is logged.
Clean(r) == \E done \in BOOLEAN :
    LET q == request[r]
        first == IF "private" \in ToDelete(q) THEN "private" ELSE "public"
    IN /\ q.step = "loaded" /\ ~q.approve /\ ToDelete(q) # {}
       /\ private' = IF done /\ first = "private" THEN private \ {q.of} ELSE private
       /\ public' = IF done /\ first = "public" THEN public \ {q.of} ELSE public
       /\ disturbed' = IF done THEN disturbed ELSE disturbed \union {q.of}
       /\ To(r, [q EXCEPT !.left = @ \ {first}])
       /\ NoDecision

\* The commit of what was decided, in the columns that differ from the copy.
Commit(r, new, decision) ==
    LET q == request[r]
    IN /\ ticket[q.of] # NoTicket
       /\ ticket' = [ticket EXCEPT ![q.of] = Written(ticket[q.of], q.saw, new)]
       /\ decided' = [decided EXCEPT ![q.of] = decision]
       /\ disturbed' = IF ticket[q.of] = q.saw THEN disturbed ELSE disturbed \union {q.of}
       /\ To(r, Over)
       /\ UNCHANGED <<private, public, uploads, today>>

Approve(r) ==
    LET q == request[r]
    IN /\ q.step = "published"
       /\ Commit(r, [q.saw EXCEPT !.review = "APPROVED", !.key = FALSE, !.url = q.url], "approve")

Reject(r) ==
    LET q == request[r]
    IN /\ q.step = "loaded" /\ ~q.approve /\ ToDelete(q) = {}
       /\ Commit(r, [review |-> "REJECTED", key |-> FALSE, url |-> FALSE, show |-> FALSE], "reject")

\* delete_ticket leaves the objects where they are.
DeleteTicket(t) ==
    /\ t \in Existing
    /\ ticket' = [ticket EXCEPT ![t] = NoTicket]
    /\ UNCHANGED <<private, public, uploads, today, request, decided, disturbed>>

\* The row of a decision is gone: an error.
FindGone(r) ==
    /\ request[r].step \in {"loaded", "published"} /\ ticket[request[r].of] = NoTicket
    /\ To(r, Over)
    /\ UNCHANGED <<private, public, disturbed>> /\ NoDecision

Review(r) == Load(r) \/ CopyPhoto(r) \/ DeletePrivate(r) \/ BucketFails(r) \/ Clean(r)
             \/ Approve(r) \/ Reject(r) \/ FindGone(r)
Next == \/ PassDay \/ \E t \in Tickets : Upload(t) \/ DeleteTicket(t)
        \/ \E r \in Requests : Review(r)
Spec == Init /\ [][Next]_blessingVars
-----------------------------------------------------------------------------
(* Properties *)

\* Every variable has the values its columns and the bucket can hold.
TypeOK ==
    /\ ticket \in [Tickets -> Row \union {NoTicket}]
    /\ private \subseteq WithPhoto /\ public \subseteq WithPhoto /\ uploads \in [Tickets -> 0..MaxUploads]
    /\ today \in 0..LastDay /\ request \in [Requests -> {Idle, Over} \union Busy]
    /\ decided \in [Tickets -> {"none", "approve", "reject"}] /\ disturbed \subseteq Tickets

Underway(t) == \E r \in Requests : request[r] \notin {Idle, Over} /\ request[r].of = t

\* The site shows a photo only of what was approved last.  Once no review of a ticket is
\* under way, the bucket has a public copy exactly when the row has its address, and of
\* nothing but what was approved last; however often it was reviewed, by how many, and whenever
\* its photo was uploaded, where every decision was made on the row as it was and the bucket
\* did what it was asked to.  (Of private objects nothing is said: an upload may put one
\* back after any decision, and no operation looks for it then.)
PhotoFollowsDecision == \A t \in Existing \ disturbed :
    /\ PhotoOfDay(t) \/ PhotoOfPage(t) => decided[t] = "approve"
    /\ ~Underway(t) => (t \in public <=> ticket[t].url) /\ (t \in public => decided[t] = "approve")
=============================================================================
