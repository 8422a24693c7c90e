-------------------------------- MODULE Accounts --------------------------------
(***************************************************************************)
(* Accounts and sessions: services/auth_service.py behind api/v1/auth.py   *)
(* and authenticate in utils/dependencies.py.                              *)
(*                                                                         *)
(* A session token carries the token_version its account had; a sign-out,  *)
(* a new password and a deactivation add one to it, which ends every       *)
(* session.  Super admins manage the accounts, and one must remain.        *)
(*                                                                         *)
(* A handler loads rows, checks them in Python and commits the columns it  *)
(* changed; nothing locks a row in between.  A request that fails or dies  *)
(* stays where it is.  Left out: texts and passwords, the lifetime of a    *)
(* token (it only ends a session sooner), the hour of a reset link, mails, *)
(* and attempts that are refused at once, which leave an audit entry.      *)
(***************************************************************************)
EXTENDS Naturals, FiniteSets, Columns

CONSTANTS Requests, Users, Links,
          Staff,       \* the accounts there are from the start, with their role
          Unproven,    \* those of them that never signed in nor proved their address
          WithEmail,   \* the accounts with an email on file
          Forms,       \* what is asked for
          MaxResets,   \* links an account is mailed in an hour
          NoUser, NoLink

Roles == {"SUPER_ADMIN", "STAFF", "GENERAL_USER"}
OwnOps == {"refresh", "logout", "change_password", "delete_me"}
AdminOps == {"create", "update", "delete", "purge"}
Ops == {"login", "verify_otp", "register", "forgot", "reset"} \union OwnOps \union AdminOps

\* "user" signs in or asks, "target" is whom it is about; "set" the fields of an update.
Form == [op : Ops, user : Users, target : Users, set : SUBSET {"role", "active", "password"},
         role : Roles, active : BOOLEAN]
Row == [role : Roles, active : BOOLEAN, version : Nat, known : BOOLEAN]
Link == [user : Users, used : BOOLEAN]

AccountsAssumption ==
    /\ IsFiniteSet(Users) /\ DOMAIN Staff \subseteq Users /\ \A u \in DOMAIN Staff : Staff[u] \in Roles
    /\ \E u \in DOMAIN Staff : Staff[u] = "SUPER_ADMIN"
    /\ Unproven \subseteq {u \in DOMAIN Staff : Staff[u] = "GENERAL_USER"}
    /\ WithEmail \subseteq Users /\ Forms \subseteq Form /\ MaxResets \in Nat
    /\ NoUser \notin Row /\ NoUser \notin Users /\ NoLink \notin Link /\ NoLink \notin Links

VARIABLES
    account,   \* the rows of users; "known" is email_verified_at or last_login
    tokens,    \* the session tokens handed out, each with the era it was made in
    mailed,    \* accounts with a sign-in code in their mail
    links,     \* password_reset_tokens
    request,   \* where each request is, with what it has loaded
    gone,      \* history: accounts and links deleted
    era,       \* history: how often the sessions of an account were ended
    collided,  \* history: accounts whose sessions were ended from an outdated version
    crossed,   \* history: an account was changed or removed on outdated rows
    uses       \* history: how often a link set a password on an up-to-date row

accountsVars == <<account, tokens, mailed, links, request, gone, era, collided, crossed, uses>>

Idle == [step |-> "idle"]
Over == [step |-> "over"]
Busy == [step : {"signed", "target", "loaded", "accepted", "issuing", "listed", "linking"},
         form : Form, me : Row \union {NoUser}, saw : Row \union {NoUser}, era : Nat, count : Nat,
         list : SUBSET Users, link : Links \union {NoLink}, state : Link \union {NoLink}]

Init ==
    /\ account = [u \in Users |-> IF u \in DOMAIN Staff
            THEN [role |-> Staff[u], active |-> TRUE, version |-> 0, known |-> u \notin Unproven]
            ELSE NoUser]
    /\ tokens = {[user |-> u, ver |-> 0, era |-> 0] : u \in DOMAIN Staff \ Unproven}
    /\ mailed = {} /\ links = [l \in Links |-> NoLink]
    /\ request = [r \in Requests |-> Idle]
    /\ gone = {} /\ era = [u \in Users |-> 0] /\ collided = {} /\ crossed = FALSE
    /\ uses = [l \in Links |-> 0]
-----------------------------------------------------------------------------
Existing == {u \in Users : account[u] # NoUser}
LinksOf(u) == {l \in Links : links[l] # NoLink /\ links[l].user = u}

\* USERS_MANAGE is a permission of SUPER_ADMIN alone.
MayManage(row) == row.role = "SUPER_ADMIN"

\* authenticate: a token of that version, for a row that is there and active.
Authenticated(u) == /\ u \in Existing /\ account[u].active
                    /\ \E t \in tokens : t.user = u /\ t.ver = account[u].version

\* What the route and the first lines of the service ask for.
Admitted(f) ==
    CASE f.op = "login" -> f.user \in Existing /\ account[f.user].active
      [] f.op = "delete_me" -> Authenticated(f.user) /\ account[f.user].role = "GENERAL_USER"
      [] f.op \in OwnOps \ {"delete_me"} -> Authenticated(f.user)
      [] f.op \in AdminOps -> Authenticated(f.user) /\ MayManage(account[f.user])
      [] f.op = "register" -> TRUE
      [] f.op \in {"verify_otp", "forgot", "reset"} -> FALSE

To(r, fields) == request' = [request EXCEPT ![r] = fields]
NothingWritten == UNCHANGED <<account, tokens, mailed, links, gone, era, collided, crossed, uses>>
Fresh(f, step) == [step |-> step, form |-> f,
                   me |-> IF f.op = "register" THEN NoUser ELSE account[f.user],
                   saw |-> IF f.op = "register" THEN NoUser ELSE account[f.user], era |-> era[f.user],
                   count |-> 0, list |-> {}, link |-> NoLink, state |-> NoLink]

\* The request's own account is loaded, and most checks are made on it.
Arrive(r) == \E f \in Forms :
    /\ request[r] = Idle /\ Admitted(f)
    /\ To(r, Fresh(f, IF f.op \in {"update", "delete", "purge"} THEN "signed" ELSE "loaded"))
    /\ NothingWritten

\* request_password_reset up to its insertion: an active account with few recent links.
Forgot(r) == \E f \in Forms :
    /\ request[r] = Idle /\ f.op = "forgot"
    /\ f.user \in Existing /\ account[f.user].active /\ Cardinality(LinksOf(f.user)) < MaxResets
    /\ To(r, Fresh(f, "linking"))
    /\ NothingWritten

\* The code is used up by a commit of its own (module OneTimeCodes).
AcceptCode(r) == \E f \in Forms :
    /\ request[r] = Idle /\ f.op = "verify_otp"
    /\ f.user \in Existing /\ f.user \in mailed
    /\ To(r, Fresh(f, "accepted"))
    /\ mailed' = mailed \ {f.user}
    /\ UNCHANGED <<account, tokens, links, gone, era, collided, crossed, uses>>

\* Mutant: a used link is as good as a new one.
OpenAnyLink(r) == \E f \in Forms, l \in Links :
    /\ request[r] = Idle /\ f.op = "reset" /\ links[l] # NoLink
    /\ links[l].user \in Existing /\ account[links[l].user].active
    /\ To(r, [Fresh([f EXCEPT !.user = links[l].user], "loaded") EXCEPT !.link = l, !.state = links[l]])
    /\ NothingWritten

\* reset_password up to its checks.
OpenLink(r) == \E f \in Forms, l \in Links :
    /\ request[r] = Idle /\ f.op = "reset" /\ links[l] # NoLink /\ ~links[l].used
    /\ links[l].user \in Existing /\ account[links[l].user].active
    /\ To(r, [Fresh([f EXCEPT !.user = links[l].user], "loaded") EXCEPT !.link = l, !.state = links[l]])
    /\ NothingWritten

LoadTarget(r) ==
    LET q == request[r]
        row == account[q.form.target]
    IN /\ q.step = "signed" /\ q.form.op \in {"update", "delete"}
       /\ To(r, IF row = NoUser THEN Over ELSE [q EXCEPT !.step = "target", !.saw = row])
       /\ NothingWritten

Deactivates(f) == f.op = "update" /\ "active" \in f.set /\ ~f.active
Demotes(f, row) == f.op = "update" /\ "role" \in f.set /\ f.role # "SUPER_ADMIN" /\ row.role = "SUPER_ADMIN"
Removes(f, row) == f.op = "delete" \/ Deactivates(f) \/ Demotes(f, row)

\* count_active_super_admins: which rows are active is asked of the database, the
\* roles of the two rows loaded before are still those of their copies.
Supers(q) == {u \in Existing : /\ account[u].active
                               /\ \/ u = q.form.user /\ q.me.role = "SUPER_ADMIN"
                                  \/ u = q.form.target /\ q.saw.role = "SUPER_ADMIN"
                                  \/ u \notin {q.form.user, q.form.target} /\ account[u].role = "SUPER_ADMIN"}

\* Mutant: the account that is removed counts as one that remains.
EnoughWithThisOne(q) == Cardinality(Supers(q)) >= 1

EnoughLeft(q) == Cardinality(Supers(q)) > 1

CheckTarget(r) ==
    LET q == request[r]
        f == q.form
        guarded == q.saw.role = "SUPER_ADMIN" /\ Removes(f, q.saw)
        ok == /\ Removes(f, q.saw) => f.target # f.user
              /\ guarded => EnoughLeft(q)
    IN /\ q.step = "target"
       /\ To(r, IF ok THEN [q EXCEPT !.step = "loaded", !.count = IF guarded THEN Cardinality(Supers(q)) ELSE 0]
                ELSE Over)
       /\ NothingWritten

\* unverified_signups, long after the accounts were made.
ListUnverified(r) ==
    LET q == request[r]
    IN /\ q.step = "signed" /\ q.form.op = "purge"
       /\ To(r, [q EXCEPT !.step = "listed",
                    !.list = {u \in Unproven \intersect Existing :
                                 ~account[u].known /\ account[u].role = "GENERAL_USER"}])
       /\ NothingWritten
-----------------------------------------------------------------------------
(* Commits *)

\* A commit to u of the copy "new", with the end of its sessions where "revokes".
Store(u, saw, new, revokes) ==
    /\ account' = [account EXCEPT ![u] = Written(account[u], saw, new)]
    /\ era' = IF revokes THEN [era EXCEPT ![u] = @ + 1] ELSE era
    /\ collided' = IF revokes /\ account[u].version # saw.version THEN collided \union {u} ELSE collided

\* Mutant: sessions go on.
SessionsGoOn(row) == row

\* revoke_sessions, in the copy.
Revoked(row) == [row EXCEPT !.version = @ + 1]

Login(r) ==
    LET q == request[r]
        u == q.form.user
    IN /\ q.step = "loaded" /\ q.form.op = "login" /\ account[u] # NoUser
       /\ Store(u, q.saw, [q.saw EXCEPT !.known = TRUE], FALSE)
       /\ mailed' = IF u \in WithEmail THEN mailed \union {u} ELSE mailed
       /\ To(r, IF u \in WithEmail THEN Over ELSE [q EXCEPT !.step = "issuing"])
       /\ UNCHANGED <<tokens, links, gone, crossed, uses>>

\* mark_email_verified: the row is loaded again after the commit of the code.
MarkVerified(r) ==
    LET q == request[r]
        u == q.form.user
    IN /\ q.step = "accepted" /\ account[u] # NoUser
       /\ account' = [account EXCEPT ![u].known = TRUE]
       /\ To(r, [q EXCEPT !.step = "issuing"])
       /\ UNCHANGED <<tokens, mailed, links, gone, era, collided, crossed, uses>>

\* issue_session_token
Token(u, version, e) == [user |-> u, ver |-> version, era |-> e]

\* _start_session after a commit: the version is read from the row anew.
StartSession(r) ==
    LET q == request[r]
        u == q.form.user
    IN /\ q.step = "issuing" /\ account[u] # NoUser
       /\ tokens' = tokens \union {Token(u, account[u].version, era[u])}
       /\ To(r, Over)
       /\ UNCHANGED <<account, mailed, links, gone, era, collided, crossed, uses>>

\* A refresh commits nothing: the version is the one that was loaded.
Refresh(r) ==
    LET q == request[r]
    IN /\ q.step = "loaded" /\ q.form.op = "refresh"
       /\ tokens' = tokens \union {Token(q.form.user, q.saw.version, q.era)}
       /\ To(r, Over)
       /\ UNCHANGED <<account, mailed, links, gone, era, collided, crossed, uses>>

Logout(r) ==
    LET q == request[r]
        u == q.form.user
    IN /\ q.step = "loaded" /\ q.form.op = "logout" /\ account[u] # NoUser
       /\ Store(u, q.saw, Revoked(q.saw), TRUE)
       /\ To(r, Over)
       /\ UNCHANGED <<tokens, mailed, links, gone, crossed, uses>>

ChangePassword(r) ==
    LET q == request[r]
        u == q.form.user
    IN /\ q.step = "loaded" /\ q.form.op = "change_password" /\ account[u] # NoUser
       /\ Store(u, q.saw, Revoked(q.saw), TRUE)
       /\ To(r, [q EXCEPT !.step = "issuing"])
       /\ UNCHANGED <<tokens, mailed, links, gone, crossed, uses>>

\* The link and the row are loaded and committed together.
ResetPassword(r) ==
    LET q == request[r]
        u == q.form.user
    IN /\ q.step = "loaded" /\ q.form.op = "reset" /\ account[u] # NoUser /\ links[q.link] # NoLink
       /\ Store(u, q.saw, Revoked(q.saw), TRUE)
       /\ links' = [links EXCEPT ![q.link].used = TRUE]
       /\ uses' = IF links[q.link] = q.state THEN [uses EXCEPT ![q.link] = @ + 1] ELSE uses
       /\ To(r, Over)
       /\ UNCHANGED <<tokens, mailed, gone, crossed>>

\* The rows a change of an account was decided on are not those of its commit.
Outdated(q) ==
    \/ account[q.form.target].role # q.saw.role \/ account[q.form.target].active # q.saw.active
    \/ q.count # 0 /\ q.count # Cardinality({u \in Existing : account[u].active /\ account[u].role = "SUPER_ADMIN"})

UpdateUser(r) ==
    LET q == request[r]
        f == q.form
        t == f.target
        new == [q.saw EXCEPT !.role = IF "role" \in f.set THEN f.role ELSE @,
                             !.active = IF "active" \in f.set THEN f.active ELSE @]
        revokes == Deactivates(f) \/ "password" \in f.set
    IN /\ q.step = "loaded" /\ f.op = "update" /\ account[t] # NoUser
       /\ Store(t, q.saw, IF revokes THEN Revoked(new) ELSE new, revokes)
       /\ crossed' = (crossed \/ Outdated(q))
       /\ To(r, IF "password" \in f.set /\ t \in WithEmail THEN [q EXCEPT !.step = "linking"] ELSE Over)
       /\ UNCHANGED <<tokens, mailed, links, gone, uses>>

\* _unlink_and_delete
Remove(u) ==
    /\ account' = [account EXCEPT ![u] = NoUser]
    /\ links' = [l \in Links |-> IF l \in LinksOf(u) THEN NoLink ELSE links[l]]
    /\ gone' = gone \union {u} \union LinksOf(u)
    /\ UNCHANGED <<tokens, mailed, era, collided, uses>>

Delete(r, op) ==
    LET q == request[r]
    IN /\ q.step = "loaded" /\ q.form.op = op /\ account[q.form.target] # NoUser
       /\ Remove(q.form.target)
       /\ crossed' = (crossed \/ Outdated(q))
       /\ To(r, Over)

DeleteUser(r) == Delete(r, "delete")
DeleteOwnAccount(r) == Delete(r, "delete_me")

\* One account of the list after the other, each with a commit of its own.
PurgeOne(r) == \E u \in Users :
    LET q == request[r]
    IN /\ q.step = "listed" /\ u \in q.list /\ account[u] # NoUser
       /\ Remove(u)
       /\ crossed' = (crossed \/ account[u].role # "GENERAL_USER")
       /\ To(r, [q EXCEPT !.list = @ \ {u}])

\* The copies of the list expire at every commit; one that is gone ends the purge.
PurgeEnds(r) ==
    LET q == request[r]
    IN /\ q.step = "listed"
       /\ q.list = {} \/ \E u \in q.list : account[u] = NoUser
       /\ To(r, Over)
       /\ NothingWritten

\* An insertion.  Bound: an id of Users nobody had.
Insert(r, u, row, fields) ==
    /\ account[u] = NoUser /\ u \notin gone
    /\ account' = [account EXCEPT ![u] = row]
    /\ To(r, fields)
    /\ UNCHANGED <<tokens, mailed, links, gone, era, collided, crossed, uses>>

CreateUser(r) == \E u \in Users :
    LET q == request[r]
    IN /\ q.step = "loaded" /\ q.form.op = "create"
       /\ Insert(r, u, [role |-> q.form.role, active |-> TRUE, version |-> 0, known |-> FALSE],
                 IF u \in WithEmail THEN [q EXCEPT !.step = "linking", !.form.target = u] ELSE Over)

Register(r) == \E u \in Users :
    LET q == request[r]
    IN /\ q.step = "loaded" /\ q.form.op = "register"
       /\ Insert(r, u, [role |-> "GENERAL_USER", active |-> TRUE, version |-> 0, known |-> TRUE],
                 [q EXCEPT !.step = "issuing", !.form.user = u])

\* _issue_reset_token, for whoever asked or was created or got a new password.  Bound: a
\* number of Links no link had.
IssueLink(r) == \E l \in Links :
    LET q == request[r]
        u == IF q.form.op = "forgot" THEN q.form.user ELSE q.form.target
    IN /\ q.step = "linking" /\ links[l] = NoLink /\ l \notin gone /\ account[u] # NoUser
       /\ links' = [links EXCEPT ![l] = [user |-> u, used |-> FALSE]]
       /\ To(r, Over)
       /\ UNCHANGED <<account, tokens, mailed, gone, era, collided, crossed, uses>>

\* A row the request changes or reads again is gone: an error, rolled back.
FindGone(r) ==
    LET q == request[r]
        u == IF q.form.op \in {"create", "update", "delete"} THEN q.form.target ELSE q.form.user
    IN /\ \/ q.step \in {"loaded", "accepted"} /\ q.form.op \notin {"create", "register", "refresh"}
          \/ q.step \in {"issuing", "linking"}
       /\ account[u] = NoUser
       /\ To(r, Over)
       /\ NothingWritten

Serve(r) == \/ Arrive(r) \/ Forgot(r) \/ AcceptCode(r) \/ OpenLink(r) \/ LoadTarget(r) \/ CheckTarget(r)
            \/ ListUnverified(r) \/ Login(r) \/ MarkVerified(r) \/ StartSession(r) \/ Refresh(r)
            \/ Logout(r) \/ ChangePassword(r) \/ ResetPassword(r) \/ UpdateUser(r) \/ DeleteUser(r)
            \/ DeleteOwnAccount(r) \/ PurgeOne(r) \/ PurgeEnds(r)
            \/ CreateUser(r) \/ Register(r) \/ IssueLink(r) \/ FindGone(r)
Next == \E r \in Requests : Serve(r)
Spec == Init /\ [][Next]_accountsVars
-----------------------------------------------------------------------------
(* Properties *)

\* Every variable has the values its columns can hold.
TypeOK ==
    /\ account \in [Users -> Row \union {NoUser}]
    /\ tokens \subseteq [user : Users, ver : Nat, era : Nat]
    /\ mailed \subseteq Users
    /\ links \in [Links -> Link \union {NoLink}]
    /\ request \in [Requests -> {Idle, Over} \union Busy]
    /\ gone \subseteq Users \union Links /\ era \in [Users -> Nat]
    /\ collided \subseteq Users /\ crossed \in BOOLEAN /\ uses \in [Links -> Nat]

InCharge == {u \in Existing : account[u].active /\ account[u].role = "SUPER_ADMIN"}

\* However accounts are edited, deactivated, deleted and purged at once, an active super
\* admin remains, where no change was decided on rows that had changed by its commit.
SomeoneInCharge == crossed \/ InCharge # {}

\* A session made before the sessions of its account were ended is never good again,
\* whatever sign-outs, new passwords, deactivations and refreshes went on at once, where
\* no two of them ended the sessions from the same version.
RevokedStaysOut == \A t \in tokens :
    t.user \in Existing \ collided /\ t.era < era[t.user] => t.ver # account[t.user].version

\* A mailed link sets a password once, where no two requests opened it at once.
LinkWorksOnce == \A l \in Links : uses[l] <= 1
=============================================================================
