--------------------------------- MODULE MCSite ---------------------------------
(***************************************************************************)
(* An instance of Site for TLC, with the deployment of the site beside it. *)
(* The parts share no state, so that the interleavings of one with another *)
(* show nothing: a behaviour stays in one part, the others rest, and the   *)
(* state space is the sum of theirs.                                       *)
(***************************************************************************)
EXTENDS Site, Hosting, TLC

CONSTANTS r1, r2, r3,
          u1, u2, u3, u4,              \* users: two super admins, a devotee, a name not taken yet
          p1, p2, x,                   \* the proxies, and an address that a client makes up
          k1, k2,                      \* keys of the festival calendar
          n1                           \* a note

VARIABLE part
-----------------------------------------------------------------------------
(* Accounts: who signs in, and what the two super admins do to each other and to the devotee *)

Ask(op, u) == [op |-> op, user |-> u, target |-> u, set |-> {}, role |-> "STAFF", active |-> FALSE]
On(op, u, v) == [Ask(op, u) EXCEPT !.target = v]
AskedOfAccounts ==
    {Ask("login", u) : u \in {u2, u3}} \union {Ask(op, u3) : op \in {"verify_otp", "delete_me", "forgot", "reset"}}
      \union {Ask(op, u2) : op \in {"logout", "refresh", "change_password"}} \union {Ask("purge", u1)}
      \union {On(op, u1, u4) : op \in {"create", "register"}} \union {On("delete", u1, u2), On("delete", u2, u3)}
      \union {[On("update", u, v) EXCEPT !.set = s] : u \in {u1, u2}, v \in {u1, u2}, s \in {{"role"}, {"active"}}}
      \union {[On("update", u1, u2) EXCEPT !.set = {"active"}, !.active = TRUE],
              [On("update", u1, u3) EXCEPT !.set = {"role"}, !.role = "SUPER_ADMIN"],
              [On("update", u1, u3) EXCEPT !.set = {"password"}]}

OfAccounts == {f \in AskedOfAccounts : f.op # "update" \/ f.user # f.target}
StaffAtFirst == u1 :> "SUPER_ADMIN" @@ u2 :> "SUPER_ADMIN" @@ u3 :> "GENERAL_USER"

\* Clients that send no header, one they made up, and the address of another client behind it.
MadeUp == {<<>>, <<x>>, <<x, u2>>}
OnTheWay == <<p1, p2>>
-----------------------------------------------------------------------------
(* Public pages: eight agendas of a few rows and the requests about them *)

Blank == [table |-> "poojas", name |-> u1, start |-> None, end |-> None, paid |-> FALSE, priced |-> FALSE,
          active |-> TRUE, flag |-> FALSE, source |-> None]
In(table) == [Blank EXCEPT !.table = table]
Span(table, from, to) == [In(table) EXCEPT !.start = from, !.end = to]
Form(op, row) == [op |-> op, cron |-> FALSE, id |-> 1, set |-> {}, row |-> row, key |-> "poojas:list"]
Put(row, fields) == [Form("update", row) EXCEPT !.set = fields]
Read(key) == [Form("read", Blank) EXCEPT !.key = key]
Run(op) == [Form(op, Blank) EXCEPT !.cron = TRUE]
Stored(first, second) == <<first, second, NoRow, NoRow>>
Named(row) == [row EXCEPT !.name = u2]
Windows(table) == {Put(Span(table, 1, 2), {"end"}), Put(Span(table, 3, 2), {"start"}),
                   Put(Span(table, 3, 3), {"start", "end"})}

EditedAgendas ==
  LET festival == [Span("festivals", 1, 3) EXCEPT !.flag = TRUE] IN
  {[rows |-> Stored(Span("poojas", 1, 3), Named(In("poojas"))),
    forms |-> {Read("poojas:list"), Form("create", Named(Blank)), Form("delete", Blank), Put(Named(Blank), {"name"}),
               Put([Blank EXCEPT !.paid = TRUE], {"paid"}), Put([Blank EXCEPT !.priced = TRUE], {"priced"}),
               Put(Span("poojas", 3, 3), {"start"}), Put(Span("poojas", 1, 1), {"end"})}],
   [rows |-> Stored(Span("timings", 1, 3), NoRow),
    forms |-> Windows("timings")
                \union {Read("temple:timings"), Form("create", Span("timings", 2, 3)), Form("delete", In("timings"))}],
   [rows |-> Stored(NoRow, NoRow),
    forms |-> {Read("temple:profile"), Read("temple:hundi_qr_print"), Put(In("temple"), {"name"}),
               Put(Named(In("temple")), {"name"}), Put([In("temple") EXCEPT !.flag = TRUE], {"flag"})}],
   [rows |-> Stored(In("gallery"), NoRow),
    forms |-> {Read("gallery:list"), Form("create", In("gallery")), Form("delete", In("gallery")),
               Put(Named(In("gallery")), {"name"})}],
   [rows |-> Stored(In("members"), NoRow),
    forms |-> {Form("create", In("members")), Form("delete", In("members")),
               Put([In("members") EXCEPT !.flag = TRUE], {"flag"})}],
   [rows |-> Stored(Span("announcements", 1, 3), NoRow),
    forms |-> Windows("announcements") \union {Read("announcements:list"), Form("create", Span("announcements", 1, 1)),
                                               Form("delete", In("announcements"))}],
   [rows |-> Stored(festival, NoRow),
    forms |-> Windows("festivals")
                \union {Read("festivals:list:upcoming"), Form("create", Named(In("festivals"))),
                        Form("delete", In("festivals")), Put(Named(In("festivals")), {"name"}), Run("announce")}],
   [rows |-> Stored(NoRow, NoRow),
    forms |-> {Read("festivals:list:all"), Form("delete", In("festivals")), Form("fill", Blank),
               Run("fill"), Run("announce")}]}

FestivalCalendar == k1 :> [Span("festivals", 2, 3) EXCEPT !.flag = TRUE, !.source = k1]
                 @@ k2 :> [Named(Span("festivals", 3, None)) EXCEPT !.source = k2]

-----------------------------------------------------------------------------
Reply(status, notes) == [status |-> status, notes |-> notes]
Replies == {Reply("IN_PROGRESS", None), Reply("RESOLVED", n1), Reply("REJECTED", None), Reply("PENDING", None),
            Reply(None, n1)}

\* An empty database, and two of the squashed history: one with gifts on its donors, and tables that lack columns.
Old == INSTANCE Schema
Legacy == [db |-> UNION {Old!Table(table) : table \in {"users", "members", "donors", "announcements"}}
                    \union Old!Of("donors", {"amount"}), at |-> -1]
OldLegacy == [Legacy EXCEPT !.db = @ \union Old!Of("donors", {"gifts"})
                              \union {<<"poojas">>, <<"temples">>, <<"festivals">>}]

FirstFound == {[db |-> {}, at |-> 0], Legacy, OldLegacy}
-----------------------------------------------------------------------------
(* The site *)

Resting == /\ part = "signatures" \/ \A m \in Members : holder[m] = None
           /\ part = "pages" \/ agenda = (CHOOSE a \in Agendas : TRUE).forms
           /\ part = "deployment" \/ (db = {} /\ release = 3)

MCInit ==
    /\ part \in {"accounts", "codes", "limiters", "pages", "audit", "blessings", "contact", "signatures", "deployment"}
    /\ Init /\ Boot!Init /\ Resting

InSite == \/ part = "accounts" /\ Visit
          \/ part = "codes" /\ Verify
          \/ part = "limiters" /\ Limit
          \/ part = "pages" /\ Publish
          \/ part = "audit" /\ Audit
          \/ part = "blessings" /\ Review
          \/ part = "contact" /\ Answer
          \/ part = "signatures" /\ Sign

MCNext == /\ \/ InSite /\ UNCHANGED deploymentVars
             \/ part = "deployment" /\ Boot!Next /\ UNCHANGED siteVars
          /\ UNCHANGED part
MCSpec == MCInit /\ [][MCNext]_<<part, siteVars, deploymentVars>>
Symmetry == Permutations(Requests)
=============================================================================
