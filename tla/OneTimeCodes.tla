------------------------------ MODULE OneTimeCodes ------------------------------
(***************************************************************************)
(* The codes mailed to one address: services/otp_service.py.  A code is    *)
(* for one purpose, lives for a while, takes a few wrong guesses and works *)
(* once; an address gets a few of them in a window of time.                *)
(*                                                                         *)
(* Asking for a code counts, inserts and mails; entering one loads the     *)
(* latest row that is unused and alive and commits what came of it.  The   *)
(* rows are never locked.  A request that dies stays where it is.  A code  *)
(* is its row's number, so no two are equal: the code's own randomness and *)
(* its hash are left out, and so is Turnstile, which only refuses.         *)
(***************************************************************************)
EXTENDS Naturals, FiniteSets, Columns

CONSTANTS Requests, Purposes,
          MaxAttempts,  \* MAX_ATTEMPTS, 5
          MaxCodes,     \* MAX_CODES_PER_EMAIL, 5
          TimeToLive,   \* OTP_TTL
          CodeWindow,   \* CODE_WINDOW
          LastId,       \* bound: codes
          LastTime      \* bound: ticks of the clock

OneTimeCodesAssumption ==
    /\ MaxAttempts \in Nat \ {0} /\ MaxCodes \in Nat \ {0} /\ TimeToLive \in Nat /\ CodeWindow \in Nat
    /\ LastId \in Nat /\ LastTime \in Nat

VARIABLES
    now,      \* the clock
    codes,    \* the rows of email_otps, by id
    request,  \* where each request is, with what it has loaded
    mailed,   \* the codes that reached the mailbox
    guessed,  \* history: wrong guesses made at a code
    accepted, \* history: times a code was accepted, from a row as it was
    raced,    \* history: codes answered from a row that had changed
    overrun   \* history: a code was made on a count that had changed

codesVars == <<now, codes, request, mailed, guessed, accepted, raced, overrun>>

Ids == 1..LastId
Row == [purpose : Purposes, created : Nat, used : BOOLEAN, attempts : Nat]
Idle == [step |-> "idle"]
Over == [step |-> "over"]
Asking == [step : {"counted", "sending"}, purpose : Purposes, at : Nat, count : Nat]
Entering == [step : {"wrong", "right"}, id : Ids, saw : Row]

Init == /\ now = 0 /\ codes = <<>> /\ request = [r \in Requests |-> Idle]
        /\ mailed = {} /\ guessed = [i \in Ids |-> 0] /\ accepted = [i \in Ids |-> 0]
        /\ raced = {} /\ overrun = FALSE
-----------------------------------------------------------------------------
To(r, fields) == request' = [request EXCEPT ![r] = fields]
Rows == DOMAIN codes

\* Those of a purpose made since the window began.
Recent(p, t) == {i \in Rows : codes[i].purpose = p /\ codes[i].created + CodeWindow >= t}

Tick == /\ now < LastTime /\ now' = now + 1
        /\ UNCHANGED <<codes, request, mailed, guessed, accepted, raced, overrun>>

\* _create_code up to its count.
CountRecent(r) == \E p \in Purposes :
    LET count == Cardinality(Recent(p, now))
    IN /\ request[r] = Idle
       /\ To(r, IF count >= MaxCodes THEN Over ELSE [step |-> "counted", purpose |-> p, at |-> now, count |-> count])
       /\ UNCHANGED <<now, codes, mailed, guessed, accepted, raced, overrun>>

\* The insertion: created_at is when the transaction began.
CreateCode(r) ==
    LET q == request[r]
        id == Cardinality(Rows) + 1
    IN /\ q.step = "counted" /\ id \in Ids
       /\ codes' = [i \in Rows \union {id} |-> IF i \in Rows THEN codes[i]
                        ELSE [purpose |-> q.purpose, created |-> q.at, used |-> FALSE, attempts |-> 0]]
       /\ overrun' = (overrun \/ Cardinality(Recent(q.purpose, q.at)) # q.count)
       /\ To(r, [q EXCEPT !.step = "sending", !.count = id])
       /\ UNCHANGED <<now, mailed, guessed, accepted, raced>>

\* The row of a mail that SES does not take stays where it is.
MailCode(r) == \E sent \in BOOLEAN :
    /\ request[r].step = "sending"
    /\ mailed' = IF sent THEN mailed \union {request[r].count} ELSE mailed
    /\ To(r, Over)
    /\ UNCHANGED <<now, codes, guessed, accepted, raced, overrun>>

Alive(i, t) == codes[i].created + TimeToLive >= t

\* The rows the query may answer with, the latest one.
Latest(p, t) ==
    LET open == {i \in Rows : codes[i].purpose = p /\ ~codes[i].used /\ Alive(i, t)}
    IN {i \in open : \A j \in open : j <= i}

\* Mutant: one guess too many.
HasOneMore(row) == row.attempts > MaxAttempts

Spent(row) == row.attempts >= MaxAttempts

\* _consume_code up to its commit: what is typed is a code from the mails, or none.
LoadCode(r) == \E p \in Purposes, typed \in Ids \union {0} :
    /\ request[r] = Idle /\ typed \in mailed \union {0}
    /\ To(r, IF \E i \in Latest(p, now) : ~Spent(codes[i])
             THEN LET i == CHOOSE j \in Latest(p, now) : TRUE
                  IN [step |-> IF typed = i THEN "right" ELSE "wrong", id |-> i, saw |-> codes[i]]
             ELSE Over)
    /\ UNCHANGED <<now, codes, mailed, guessed, accepted, raced, overrun>>

Answer(r, new) ==
    LET q == request[r]
    IN /\ codes' = [codes EXCEPT ![q.id] = Written(codes[q.id], q.saw, new)]
       /\ raced' = IF codes[q.id] = q.saw THEN raced ELSE raced \union {q.id}
       /\ To(r, Over)
       /\ UNCHANGED <<now, mailed, overrun>>

WrongCode(r) ==
    LET q == request[r]
    IN /\ q.step = "wrong"
       /\ Answer(r, [q.saw EXCEPT !.attempts = @ + 1])
       /\ guessed' = [guessed EXCEPT ![q.id] = @ + 1]
       /\ UNCHANGED accepted

AcceptCode(r) ==
    LET q == request[r]
    IN /\ q.step = "right"
       /\ Answer(r, [q.saw EXCEPT !.used = TRUE])
       /\ accepted' = [accepted EXCEPT ![q.id] = @ + 1]
       /\ UNCHANGED guessed

Serve(r) == CountRecent(r) \/ CreateCode(r) \/ MailCode(r) \/ LoadCode(r) \/ WrongCode(r) \/ AcceptCode(r)
Next == Tick \/ \E r \in Requests : Serve(r)
Spec == Init /\ [][Next]_codesVars
-----------------------------------------------------------------------------
(* Properties *)

\* Every variable has the values its columns can hold.
TypeOK ==
    /\ now \in 0..LastTime
    /\ Rows \subseteq Ids /\ \A i \in Rows : codes[i] \in Row
    /\ request \in [Requests -> {Idle, Over} \union Asking \union Entering]
    /\ mailed \subseteq Rows /\ raced \subseteq Rows /\ overrun \in BOOLEAN
    /\ guessed \in [Ids -> Nat] /\ accepted \in [Ids -> Nat]

\* A code is accepted at most once and survives no more wrong guesses than it may,
\* however requests interleave, where none answered from an outdated row; the wrong
\* guesses are then those the row counts.
CodeWorksOnce == \A i \in Rows \ raced :
    /\ accepted[i] <= 1
    /\ accepted[i] = 1 <=> codes[i].used
    /\ guessed[i] = codes[i].attempts /\ guessed[i] <= MaxAttempts

\* One address gets no more codes in a window than it may, where no two were counted
\* for at once.
WithinLimit == overrun \/ \A p \in Purposes, t \in 0..now :
    Cardinality({i \in Rows : codes[i].purpose = p /\ codes[i].created \in t..(t + CodeWindow)}) <= MaxCodes
=============================================================================
