------------------------------- MODULE FrontDesk -------------------------------
(***************************************************************************)
(* Messages of the contact form and the staff who answer them:             *)
(* api/v1/contact.py, services/contact_service.py.                         *)
(*                                                                         *)
(* An update loads the message, commits what it was sent, leaves an audit  *)
(* entry, which expires the row, reads its status again and writes to the  *)
(* sender when the message is final now and was not when it was loaded.    *)
(* Requests run side by side and may die between any two of these steps.   *)
(* Left out: the texts, the mail to the office, and the limiter and the    *)
(* captcha before the form.                                                *)
(***************************************************************************)
EXTENDS Naturals, FiniteSets, Columns

CONSTANTS Requests,
          Messages,   \* bound: contact_messages
          Waiting,    \* those there at the start
          Notes,      \* texts of admin_notes
          Updates,    \* bound: what staff send, fields they leave out are None
          NoRow, None

Statuses == {"PENDING", "IN_PROGRESS", "RESOLVED", "REJECTED"}
Final == {"RESOLVED", "REJECTED"}
Row == [status : Statuses, notes : Notes \union {None}]
ContactUpdate == [status : Statuses \union {None}, notes : Notes \union {None}]

FrontDeskAssumption == /\ Waiting \subseteq Messages /\ Updates \subseteq ContactUpdate
                       /\ NoRow \notin Row /\ None \notin Statuses \union Notes

VARIABLES
    messages,   \* the table
    request,    \* where each request is
    held,       \* history: the statuses each message has had
    closings,   \* history: how often each message was closed
    told,       \* history: the mails to each sender, by the status they name
    overlapped  \* history: messages committed to while another request for it was under way

deskVars == <<messages, request, held, closings, told, overlapped>>

Idle == [step |-> "idle"]
Over == [step |-> "over"]
Loaded == [step : {"loaded"}, message : Messages, saw : Row, form : ContactUpdate]
Removing == [step : {"removing"}, message : Messages]
Updated == [step : {"updated"}, message : Messages, wasFinal : BOOLEAN, closed : BOOLEAN]

Pending == [status |-> "PENDING", notes |-> None]

Init == /\ messages = [m \in Messages |-> IF m \in Waiting THEN Pending ELSE NoRow] /\ request = [r \in Requests |-> Idle]
        /\ held = [m \in Messages |-> IF m \in Waiting THEN {"PENDING"} ELSE {}] /\ closings = [m \in Messages |-> 0]
        /\ told = [m \in Messages |-> [s \in Final |-> 0]] /\ overlapped = {}
-----------------------------------------------------------------------------
To(r, fields) == request' = [request EXCEPT ![r] = fields]
Others(r, m) == {p \in Requests \ {r} : request[p].step \notin {"idle", "over"} /\ request[p].message = m}
NoteOverlap(r, m) == overlapped' = overlapped \union {x \in {m} : Others(r, m) # {}}

\* The form: a post that fills the honeypot is thanked and stores nothing.
Submit(r) == \E m \in Messages, bot \in BOOLEAN :
    /\ request[r] = Idle /\ held[m] = {}
    /\ IF bot THEN UNCHANGED <<messages, held>>
       ELSE /\ messages' = [messages EXCEPT ![m] = Pending]
            /\ held' = [held EXCEPT ![m] = {"PENDING"}]
    /\ To(r, Over)
    /\ UNCHANGED <<closings, told, overlapped>>

\* get_message_details
Load(r) == \E m \in Messages, form \in Updates :
    /\ request[r] = Idle /\ messages[m] # NoRow
    /\ To(r, [step |-> "loaded", message |-> m, saw |-> messages[m], form |-> form])
    /\ UNCHANGED <<messages, held, closings, told, overlapped>>

\* Mutant: what was not sent is written too.
Replaced(row, form) == form

Merged(row, form) == [status |-> IF form.status = None THEN row.status ELSE form.status,
                      notes  |-> IF form.notes = None THEN row.notes ELSE form.notes]

WasFinal(row) == row.status \in Final

\* update_message: a row that is gone fails the request.
Commit(r) ==
    LET q == request[r]
        m == q.message
        row == Written(messages[m], q.saw, Merged(q.saw, q.form))
        closed == row.status \in Final /\ messages[m].status \notin Final
    IN /\ q.step = "loaded" /\ messages[m] # NoRow
       /\ messages' = [messages EXCEPT ![m] = row]
       /\ held' = [held EXCEPT ![m] = @ \union {row.status}]
       /\ closings' = [closings EXCEPT ![m] = IF closed THEN @ + 1 ELSE @]
       /\ To(r, [step |-> "updated", message |-> m, wasFinal |-> WasFinal(q.saw), closed |-> closed])
       /\ NoteOverlap(r, m)
       /\ UNCHANGED told

\* The status after the audit entry decides about the mail.
Answer(r) ==
    LET q == request[r]
        m == q.message
    IN /\ q.step = "updated" /\ messages[m] # NoRow
       /\ told' = IF messages[m].status \in Final /\ ~q.wasFinal
                  THEN [told EXCEPT ![m][messages[m].status] = @ + 1] ELSE told
       /\ To(r, Over)
       /\ UNCHANGED <<messages, held, closings, overlapped>>

\* delete_message: to delete a row that is gone already is no error.
LoadToDelete(r) == \E m \in Messages :
    /\ request[r] = Idle /\ messages[m] # NoRow
    /\ To(r, [step |-> "removing", message |-> m])
    /\ UNCHANGED <<messages, held, closings, told, overlapped>>

Delete(r) ==
    /\ request[r].step = "removing"
    /\ messages' = [messages EXCEPT ![request[r].message] = NoRow]
    /\ NoteOverlap(r, request[r].message)
    /\ To(r, Over)
    /\ UNCHANGED <<held, closings, told>>

FindGone(r) ==
    /\ request[r].step \in {"loaded", "updated"} /\ messages[request[r].message] = NoRow
    /\ To(r, Over)
    /\ UNCHANGED <<messages, held, closings, told, overlapped>>

Next == \E r \in Requests :
    Submit(r) \/ Load(r) \/ Commit(r) \/ Answer(r) \/ LoadToDelete(r) \/ Delete(r) \/ FindGone(r)
Spec == Init /\ [][Next]_deskVars
-----------------------------------------------------------------------------
(* Properties *)

\* Every variable has the values its columns can hold.
TypeOK ==
    /\ messages \in [Messages -> Row \union {NoRow}]
    /\ request \in [Requests -> {Idle, Over} \union Loaded \union Removing \union Updated]
    /\ held \in [Messages -> SUBSET Statuses] /\ closings \in [Messages -> Nat]
    /\ told \in [Messages -> [Final -> Nat]] /\ overlapped \subseteq Messages

Mails(m) == told[m]["RESOLVED"] + told[m]["REJECTED"]
AboutToTell(m) == {r \in Requests : request[r].step = "updated" /\ request[r].message = m /\ request[r].closed}

\* A sender is told of each closing of the message once, where the staff's requests
\* for it did not overlap, and in no case of a closing that never was.
ClosingToldOnce == \A m \in Messages :
    /\ m \notin overlapped => Mails(m) + Cardinality(AboutToTell(m)) = closings[m]
    /\ \A s \in Final : told[m][s] > 0 => s \in held[m]
=============================================================================
