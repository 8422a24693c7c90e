------------------------------- MODULE AuditAlert -------------------------------
(***************************************************************************)
(* The audit trail and its alert: services/audit_service.py.               *)
(*                                                                         *)
(* A handler commits its change; the entry about it is a transaction of    *)
(* its own, begun by the refresh before it, which gives it its time.  A    *)
(* deletion is then counted: the third of an actor in a while is reported  *)
(* to the super admins.  Nothing of this fails the request: an error is    *)
(* rolled back and logged.  A request that dies stays where it is.         *)
(***************************************************************************)
EXTENDS Naturals, FiniteSets, Sequences

CONSTANTS Requests, Actors,
          Threshold,   \* _REPEAT_DELETE_THRESHOLD, 3
          AlertWindow, \* _REPEAT_DELETE_WINDOW, 10 minutes
          Recipients,  \* the active super admins with an email
          LastTime     \* bound: ticks of the clock

AuditAlertAssumption ==
    Threshold \in Nat \ {0} /\ AlertWindow \in Nat /\ LastTime \in Nat /\ Recipients # {}

Actions == {"DELETE", "UPDATE"}

VARIABLES
    now,       \* the clock
    entries,   \* audit_logs, in the order of its ids
    request,   \* where each request is
    mails,     \* history: the alerts sent, [actor, to, upto]; upto is the entry that was counted
    disturbed  \* history: actors of whom an entry or alert failed, or was not counted at once

auditVars == <<now, entries, request, mails, disturbed>>

Idle == [step |-> "idle"]
Over == [step |-> "over"]
Entry == [actor : Actors, action : Actions, at : 0..LastTime]
Busy == [step : {"changed", "recorded", "alerting"}, entry : Entry, id : Nat, left : SUBSET Recipients]

Init == /\ now = 0 /\ entries = <<>> /\ mails = {} /\ disturbed = {}
        /\ request = [r \in Requests |-> Idle]
-----------------------------------------------------------------------------
To(r, fields) == request' = [request EXCEPT ![r] = fields]
Deletions(a) == {i \in DOMAIN entries : entries[i].actor = a /\ entries[i].action = "DELETE"}
Disturb(a) == disturbed' = disturbed \union {a}

Tick == /\ now < LastTime /\ now' = now + 1
        /\ UNCHANGED <<entries, request, mails, disturbed>>

\* A handler's own commit, and the transaction that its refresh begins.
Change(r) == \E a \in Actors, action \in Actions :
    /\ request[r] = Idle
    /\ To(r, [step |-> "changed", entry |-> [actor |-> a, action |-> action, at |-> now], id |-> 0, left |-> {}])
    /\ UNCHANGED <<now, entries, mails, disturbed>>

\* record.  Two deletions of one actor of which the first is not counted yet disturb each other.
Record(r) ==
    LET q == request[r]
        others == {p \in Requests \ {r} : request[p].step = "recorded" /\ request[p].entry.actor = q.entry.actor}
        older == \E i \in Deletions(q.entry.actor) : entries[i].at > q.entry.at
    IN /\ q.step = "changed"
       /\ entries' = Append(entries, q.entry)
       /\ To(r, IF q.entry.action = "DELETE" THEN [q EXCEPT !.step = "recorded", !.id = Len(entries) + 1] ELSE Over)
       /\ IF q.entry.action = "DELETE" /\ (others # {} \/ older) THEN Disturb(q.entry.actor) ELSE UNCHANGED disturbed
       /\ UNCHANGED <<now, mails>>

\* Mutant: at the threshold and beyond.
AtLeast(count) == count >= Threshold

Exactly(count) == count = Threshold

\* _maybe_alert_on_repeated_deletions
Count(r) ==
    LET q == request[r]
        a == q.entry.actor
        recent == {i \in Deletions(a) : entries[i].at + AlertWindow >= now}
    IN /\ q.step = "recorded"
       /\ To(r, IF Exactly(Cardinality(recent)) THEN [q EXCEPT !.step = "alerting", !.left = Recipients] ELSE Over)
       /\ IF q.entry.at # now THEN Disturb(a) ELSE UNCHANGED disturbed
       /\ UNCHANGED <<now, entries, mails>>

\* One super admin after the other; a send reports its failure and goes on.
Alert(r) == \E to \in Recipients, sent \in BOOLEAN :
    LET q == request[r]
        left == q.left \ {to}
    IN /\ q.step = "alerting" /\ to \in q.left
       /\ mails' = IF sent THEN mails \union {[actor |-> q.entry.actor, to |-> to, upto |-> q.id]} ELSE mails
       /\ IF sent THEN UNCHANGED disturbed ELSE Disturb(q.entry.actor)
       /\ To(r, IF left = {} THEN Over ELSE [q EXCEPT !.left = left])
       /\ UNCHANGED <<now, entries>>

\* An error in between: rolled back, logged, and the request goes on.
Fail(r) ==
    /\ request[r].step \in {"changed", "recorded", "alerting"}
    /\ Disturb(request[r].entry.actor)
    /\ To(r, Over)
    /\ UNCHANGED <<now, entries, mails>>

Next == Tick \/ \E r \in Requests : Change(r) \/ Record(r) \/ Count(r) \/ Alert(r) \/ Fail(r)
Spec == Init /\ [][Next]_auditVars
-----------------------------------------------------------------------------
(* Properties *)

\* Every variable has the values its columns can hold.
TypeOK ==
    /\ now \in 0..LastTime /\ entries \in Seq(Entry)
    /\ request \in [Requests -> {Idle, Over} \union Busy]
    /\ mails \subseteq [actor : Actors, to : Recipients, upto : 1..Len(entries)]
    /\ disturbed \subseteq Actors

Quiet(a) == \A r \in Requests :
    request[r].step \in {"changed", "recorded", "alerting"} => request[r].entry.actor # a \/ request[r].step = "changed"
Within(a, t) == {i \in Deletions(a) : entries[i].at \in t..(t + AlertWindow)}
AboutTo(a, to) == {m \in mails : m.actor = a /\ m.to = to}

\* A burst of deletions is reported to every super admin, and to each of them once,
\* where the actor's deletions were recorded and counted one after the other.
AlertOnce == \A a \in Actors \ disturbed, to \in Recipients :
    /\ Quiet(a) /\ (\E t \in 0..now : Cardinality(Within(a, t)) >= Threshold) => AboutTo(a, to) # {}
    /\ (\E t \in 0..now : Deletions(a) = Within(a, t)) => Cardinality(AboutTo(a, to)) <= 1
    /\ \A m \in AboutTo(a, to) : Cardinality({i \in Deletions(a) : i <= m.upto}) >= Threshold
=============================================================================
