------------------------------ MODULE PublicPages ------------------------------
(***************************************************************************)
(* What the public site shows: the tables staff edit (sevas, festivals,    *)
(* announcements, timings, the temple's profile, photos, members), the     *)
(* cache of core/cache.py in front of them, and the daily job that fills   *)
(* the festival calendar and announces festivals.                          *)
(*                                                                         *)
(* An edit loads a row, checks the merged columns, commits those it was    *)
(* sent, leaves an audit entry and drops its pages from the cache of its   *)
(* own worker; the job runs beside the workers and drops nothing.  A       *)
(* reader looks into the cache, computes what is missing and stores it.    *)
(* Each of these is a step of its own.  A request that fails or dies stays *)
(* where it is.  Left out: texts, the order and the limit of a list, the   *)
(* QR image, mails, and the pages that are never cached.                   *)
(***************************************************************************)
EXTENDS Naturals, FiniteSets, Sequences, Columns

CONSTANTS Requests, Workers, Names,
          Ids,        \* bound: rows
          Days,       \* days, or hours of a day
          Today,
          Lead,       \* announce_days_before
          Calendar,   \* what the calendar computes: source keys, with the rows they stand for
          Agendas,    \* bound: rows there are and what is asked for, in one behaviour
          NoRow, None

Tables == {"poojas", "festivals", "announcements", "timings", "temple", "gallery", "members"}

Row == [table : Tables, name : Names, start : Days \union {None}, end : Days \union {None},
        paid : BOOLEAN, priced : BOOLEAN, active : BOOLEAN,
        flag : BOOLEAN,    \* auto_announce of a festival, show_on_website of a member
        source : Ids \union DOMAIN Calendar \union {None}]   \* source_key, source_festival_id
Fields == {"name", "start", "end", "paid", "priced", "active", "flag"}

Keys == {"poojas:list", "festivals:list:all", "festivals:list:upcoming", "announcements:list", "gallery:list",
         "temple:profile", "temple:hundi_qr", "temple:hundi_qr_print", "temple:timings"}
Form == [op : {"read", "create", "update", "delete", "fill", "announce"}, cron : BOOLEAN,
         id : Ids, set : SUBSET Fields, row : Row, key : Keys]

(* The rules of the tables *)

Before(x, y) == x # None /\ y # None /\ x < y

PoojaValid(row) ==
    /\ row.start # None /\ row.end # None => row.start < row.end
    /\ row.paid => row.priced
FestivalValid(row) == ~Before(row.end, row.start)
AnnouncementValid(row) == ~Before(row.end, row.start)
TimingValid(row) == row.start < row.end
Valid(row) == /\ row.table = "poojas" => PoojaValid(row)
              /\ row.table = "festivals" => FestivalValid(row)
              /\ row.table = "announcements" => AnnouncementValid(row)
              /\ row.table = "timings" => TimingValid(row)

Announces(row, festival) == row # NoRow /\ row.table = "announcements" /\ row.source = festival
IsProfile(row) == row # NoRow /\ row.table = "temple" /\ row.active

\* The rows there are keep the rules; a festival has one announcement, and there is one profile.
InOrder(all) ==
    /\ \A i \in Ids : all[i] # NoRow => Valid(all[i])
    /\ \A i, j, f \in Ids : Announces(all[i], f) /\ Announces(all[j], f) => i = j
    /\ \A i, j \in Ids : IsProfile(all[i]) /\ IsProfile(all[j]) => i = j

\* The calendar keeps the rules too; no form names the source of a row.
PublicPagesAssumption ==
    /\ Today \in Days /\ Days \subseteq Nat /\ Lead \in Nat /\ Ids \subseteq Nat \ {0}
    /\ \A k \in DOMAIN Calendar :
           k \notin Ids /\ Calendar[k] \in Row /\ Calendar[k].table = "festivals" /\ Valid(Calendar[k])
    /\ \A a \in Agendas : /\ a.rows \in [Ids -> Row \union {NoRow}] /\ InOrder(a.rows)
                          /\ a.forms \subseteq Form /\ \A f \in a.forms : f.row.source = None
    /\ NoRow \notin Row /\ None \notin Days \union Ids \union DOMAIN Calendar
-----------------------------------------------------------------------------
VARIABLES
    agenda,    \* what this behaviour is about
    rows,      \* the rows of the tables
    cache,     \* the cache of each worker
    request,   \* where each request is, with what it has loaded
    past,      \* history: the tables after each commit
    answered,  \* history: the last commit to a page whose editor this worker has answered
    dropped,   \* history: how often a page was dropped on a worker
    late,      \* history: pages stored after a drop their reader had not seen
    overtaken, \* history: rows changed by an edit that had loaded them otherwise
    doubled    \* history: what was created by two that had both found nothing

pagesVars == <<agenda, rows, cache, request, past, answered, dropped, late, overtaken, doubled>>

Idle == [step |-> "idle"]
Over == [step |-> "over"]
Busy == [step : {"loaded", "checked", "committed", "filling", "listed", "due", "computing", "storing"},
         form : Form, worker : Workers, saw : Row \union {NoRow}, drops : Nat, page : SUBSET (Ids \X Row),
         list : [Ids -> Row \union {NoRow}], keys : SUBSET DOMAIN Calendar, id : Ids \union {None}, commit : Nat]

Init == \E a \in Agendas :
    /\ agenda = a.forms /\ rows = a.rows /\ past = <<a.rows>>
    /\ cache = [w \in Workers |-> <<>>] /\ request = [r \in Requests |-> Idle]
    /\ answered = [w \in Workers |-> [k \in Keys |-> 1]] /\ dropped = [w \in Workers |-> [k \in Keys |-> 0]]
    /\ late = {} /\ overtaken = {} /\ doubled = {}
-----------------------------------------------------------------------------
(* The rows and the pages *)

RowsOf(table, name) == {i \in Ids : rows[i] # NoRow /\ rows[i].table = table /\ rows[i].name = name}
Profile == 0   \* stands for the profile in doubled
\* The pages: what the query behind each key returns.
Shown(all, table) == {<<i, all[i]>> : i \in {j \in Ids : all[j] # NoRow /\ all[j].table = table /\ all[j].active}}
Upcoming(row) == row.start = None \/ (row.end # None /\ row.end >= Today) \/ row.start >= Today
Published(row) == (row.start = None \/ row.start <= Today) /\ (row.end = None \/ row.end >= Today)
Active(all) == {x \in Shown(all, "temple") : \A y \in Shown(all, "temple") : x[1] <= y[1]}

Page(key, all) ==
    CASE key = "poojas:list" -> Shown(all, "poojas")
      [] key = "festivals:list:all" -> Shown(all, "festivals")
      [] key = "festivals:list:upcoming" -> {x \in Shown(all, "festivals") : Upcoming(x[2])}
      [] key = "announcements:list" -> {x \in Shown(all, "announcements") : Published(x[2])}
      [] key = "gallery:list" -> Shown(all, "gallery")
      [] key = "temple:timings" -> Shown(all, "timings")
      [] key \in {"temple:profile", "temple:hundi_qr", "temple:hundi_qr_print"} -> Active(all)

KeysOf(table) ==
    CASE table = "poojas" -> {"poojas:list"}
      [] table = "festivals" -> {"festivals:list:all", "festivals:list:upcoming"}
      [] table = "announcements" -> {"announcements:list"}
      [] table = "gallery" -> {"gallery:list"}
      [] table = "timings" -> {"temple:timings"}
      [] table = "temple" -> {"temple:profile", "temple:hundi_qr", "temple:hundi_qr_print"}
      [] table = "members" -> {}

\* Mutant: the key itself, without the longer ones it begins.
Exactly(prefix) == IF prefix \in Keys THEN {prefix} ELSE KeysOf("festivals")

\* The keys that start with a prefix.
Under(prefix) ==
    CASE prefix = "festivals:" -> KeysOf("festivals")
      [] prefix = "announcements:" -> KeysOf("announcements")
      [] prefix = "poojas:" -> KeysOf("poojas")
      [] prefix = "gallery:" -> KeysOf("gallery")
      [] prefix = "temple:hundi_qr" -> {"temple:hundi_qr", "temple:hundi_qr_print"}
      [] prefix \in Keys \ {"temple:hundi_qr"} -> {prefix}
-----------------------------------------------------------------------------
To(r, fields) == request' = [request EXCEPT ![r] = fields]
Fresh(f, w, step) == [step |-> step, form |-> f, worker |-> w, saw |-> NoRow, drops |-> 0, page |-> {},
                      list |-> [i \in Ids |-> NoRow], keys |-> {}, id |-> None, commit |-> 0]
Unseen == UNCHANGED <<agenda, rows, past, answered, dropped, overtaken, doubled>>

(* Readers *)

\* cached, up to the first unlock: a page that is there is served.
LookUp(r) == \E f \in agenda, w \in Workers :
    /\ request[r] = Idle /\ f.op = "read"
    /\ To(r, IF f.key \in DOMAIN cache[w] THEN Over
             ELSE [Fresh(f, w, "computing") EXCEPT !.drops = dropped[w][f.key]])
    /\ UNCHANGED <<cache, late>> /\ Unseen

Compute(r) ==
    LET q == request[r]
    IN /\ q.step = "computing"
       /\ To(r, [q EXCEPT !.step = "storing", !.page = Page(q.form.key, rows)])
       /\ UNCHANGED <<cache, late>> /\ Unseen

Store(r) ==
    LET q == request[r]
        w == q.worker
        key == q.form.key
    IN /\ q.step = "storing"
       /\ cache' = [cache EXCEPT ![w] = [k \in DOMAIN cache[w] \union {key} |->
                        IF k = key THEN q.page ELSE cache[w][k]]]
       /\ late' = IF q.drops = dropped[w][key] THEN late \ {<<w, key>>} ELSE late \union {<<w, key>>}
       /\ To(r, Over) /\ Unseen

\* An entry is 45 seconds old, or one too many.
Expire == \E w \in Workers : \E key \in DOMAIN cache[w] :
    /\ cache' = [cache EXCEPT ![w] = [k \in DOMAIN cache[w] \ {key} |-> cache[w][k]]]
    /\ UNCHANGED <<request, late>> /\ Unseen
-----------------------------------------------------------------------------
(* Editors *)

NoEdit == UNCHANGED <<agenda, rows, cache, past, answered, dropped, late, overtaken, doubled>>

\* A form that its schema accepts arrives, and the row of an edit is loaded.  The profile is
\* the active row, if there is one.
Load(r) == \E f \in agenda, w \in Workers :
    LET active == {x[1] : x \in Active(rows)}
        id == IF f.row.table = "temple" /\ active # {} THEN CHOOSE i \in active : TRUE ELSE f.id
        found == /\ rows[id] # NoRow /\ rows[id].table = f.row.table
                 /\ f.row.table = "temple" => rows[id].active
    IN /\ request[r] = Idle /\ f.op \in {"create", "update", "delete"} /\ (f.op = "create" => Valid(f.row))
       /\ To(r, IF f.op = "create" \/ found \/ f.row.table = "temple"
                THEN [Fresh([f EXCEPT !.id = id], w, IF f.row.table \in {"poojas", "festivals"} THEN "loaded" ELSE "checked")
                         EXCEPT !.saw = IF f.op # "create" /\ found THEN rows[id] ELSE NoRow]
                ELSE Over)
       /\ NoEdit

\* get_by_name, where a name is new.
CheckName(r) ==
    LET q == request[r]
        f == q.form
        new == f.op = "create" \/ (f.op = "update" /\ "name" \in f.set /\ f.row.name # q.saw.name)
    IN /\ q.step = "loaded"
       /\ To(r, IF new /\ RowsOf(f.row.table, f.row.name) # {} THEN Over ELSE [q EXCEPT !.step = "checked"])
       /\ NoEdit

\* The copy of the row with the fields that were sent.
Merged(saw, f) == [c \in DOMAIN saw |-> IF c \in f.set THEN f.row[c] ELSE saw[c]]

\* Mutant: the row is checked as it was loaded.
AsLoaded(saw, f) == saw

\* What an edit checks is the merged copy.
Checked(saw, f) == Merged(saw, f)

Committed(r, all) ==
    /\ rows' = all /\ past' = Append(past, all)
    /\ To(r, [request[r] EXCEPT !.step = "committed", !.commit = Len(past) + 1])
    /\ UNCHANGED <<agenda, cache, answered, dropped, late>>

\* The sequence of the ids gives each number once.
Unused(i) == \A v \in DOMAIN past : past[v][i] = NoRow
NewId(i) == Unused(i) /\ \A j \in Ids : j < i => ~Unused(j)

\* A new row.  Bound: an id of Ids.
Insert(r, row) == \E i \in Ids :
    /\ NewId(i)
    /\ Committed(r, [rows EXCEPT ![i] = row])
    /\ UNCHANGED overtaken

\* The UPDATE of a row.
Change(r, new) ==
    LET q == request[r]
    IN /\ rows[q.form.id] # NoRow
       /\ Committed(r, [rows EXCEPT ![q.form.id] = Written(rows[q.form.id], q.saw, new)])
       /\ overtaken' = IF rows[q.form.id] = q.saw THEN overtaken ELSE overtaken \union {q.form.id}
       /\ UNCHANGED doubled

\* The DELETE of a row, which may be gone already.
Erase(r) ==
    /\ Committed(r, [rows EXCEPT ![request[r].form.id] = NoRow])
    /\ UNCHANGED <<overtaken, doubled>>

Asked(r, table, op) == request[r].step = "checked" /\ request[r].form.op = op /\ request[r].form.row.table = table
Create(r, table) == Asked(r, table, "create") /\ Insert(r, request[r].form.row) /\ UNCHANGED doubled
Update(r, table) ==
    LET saw == request[r].saw
        f == request[r].form
    IN Asked(r, table, "update") /\ Valid(Checked(saw, f)) /\ Change(r, Merged(saw, f))
Hide(r, table) == Asked(r, table, "delete") /\ Change(r, [request[r].saw EXCEPT !.active = FALSE])

CommitPooja(r) ==
    /\ \/ Create(r, "poojas") \/ Update(r, "poojas") \/ Hide(r, "poojas")
    /\ LET poojas == {i \in Ids : rows'[i] # NoRow /\ rows'[i].table = "poojas"}
       IN Cardinality({rows'[i].name : i \in poojas}) = Cardinality(poojas)      \* the name is unique
CommitFestival(r) == Create(r, "festivals") \/ Update(r, "festivals") \/ Hide(r, "festivals")
CommitAnnouncement(r) == Create(r, "announcements") \/ Update(r, "announcements") \/ Hide(r, "announcements")
CommitTiming(r) == Create(r, "timings") \/ Update(r, "timings") \/ (Asked(r, "timings", "delete") /\ Erase(r))
CommitPhoto(r) == Create(r, "gallery") \/ Update(r, "gallery") \/ (Asked(r, "gallery", "delete") /\ Erase(r))
CommitMember(r) ==
    \/ Create(r, "members") \/ Update(r, "members")
    \/ Asked(r, "members", "delete") /\ Change(r, [request[r].saw EXCEPT !.active = FALSE, !.flag = FALSE])

\* The profile is one row: it is created where there was none.
CommitProfile(r) ==
    LET q == request[r]
    IN /\ Asked(r, "temple", "update")
       /\ \/ q.saw # NoRow /\ Update(r, "temple")
          \/ /\ q.saw = NoRow /\ "name" \in q.form.set
             /\ Insert(r, [q.form.row EXCEPT !.active = TRUE])
             /\ doubled' = IF Active(rows) = {} THEN doubled ELSE doubled \union {Profile}

\* A merged copy that is not valid, a name or a row that another edit took.
Refused(r) ==
    LET q == request[r]
        f == q.form
    IN /\ q.step = "checked"
       /\ \/ f.op = "update" /\ (IF q.saw = NoRow THEN "name" \notin f.set ELSE ~Valid(Checked(q.saw, f)))
          \/ f.op # "create" /\ q.saw # NoRow /\ rows[f.id] = NoRow /\ ~(f.op = "delete" /\ f.row.table \in {"timings", "gallery"})
          \/ /\ f.row.table = "poojas" /\ f.op # "delete"
             /\ f.op = "create" \/ ("name" \in f.set /\ f.row.name # q.saw.name)
             /\ RowsOf("poojas", f.row.name) \ (IF f.op = "create" THEN {} ELSE {f.id}) # {}
       /\ To(r, Over) /\ NoEdit

\* The row that was changed is gone when it is loaded again.
FindGone(r) ==
    LET q == request[r]
    IN /\ q.step = "committed" /\ q.form.op = "update" /\ rows[q.form.id] = NoRow
       /\ To(r, Over) /\ NoEdit

\* invalidate, for one prefix after the other, and the answer.
Answer(r, table, prefixes) ==
    LET q == request[r]
        w == q.worker
        keys == UNION {Under(p) : p \in prefixes}
    IN /\ q.step = "committed" /\ ~q.form.cron
       /\ table = (IF q.form.op = "fill" THEN "festivals" ELSE q.form.row.table)
       /\ cache' = [cache EXCEPT ![w] = [k \in DOMAIN cache[w] \ keys |-> cache[w][k]]]
       /\ dropped' = [dropped EXCEPT ![w] = [k \in Keys |-> IF k \in keys THEN @[k] + 1 ELSE @[k]]]
       /\ answered' = [answered EXCEPT ![w] = [k \in Keys |->
                           IF k \in KeysOf(table) /\ q.commit > @[k] THEN q.commit ELSE @[k]]]
       /\ To(r, Over)
       /\ UNCHANGED <<agenda, rows, past, late, overtaken, doubled>>

AnswerPooja(r) == Answer(r, "poojas", {"poojas:"})
AnswerFestival(r) == Answer(r, "festivals", {"festivals:"})
AnswerAnnouncement(r) == Answer(r, "announcements", {"announcements:"})
AnswerTiming(r) == Answer(r, "timings", {"temple:timings"})
AnswerProfile(r) == Answer(r, "temple", {"temple:profile", "temple:hundi_qr"})
AnswerPhoto(r) == Answer(r, "gallery", {"gallery:"})
AnswerMember(r) == Answer(r, "members", {})
-----------------------------------------------------------------------------
(* The festival calendar and its announcements *)

SourceKeys == {rows[i].source : i \in {j \in Ids : rows[j] # NoRow /\ rows[j].table = "festivals"}}
Announced(i) == \E j \in Ids : Announces(rows[j], i)

\* fill, by the job or by a member of staff: the keys that are missing.
ListMissing(r) == \E f \in agenda, w \in Workers :
    /\ request[r] = Idle /\ f.op = "fill"
    /\ To(r, [Fresh(f, w, "filling") EXCEPT !.keys = DOMAIN Calendar \ SourceKeys])
    /\ NoEdit

\* One row after the other, each with a commit of its own; the key is unique.
AddFestival(r) == \E k \in DOMAIN Calendar, i \in Ids :
    LET q == request[r]
        all == [rows EXCEPT ![i] = Calendar[k]]
    IN /\ q.step = "filling" /\ k \in q.keys /\ k \notin SourceKeys
       /\ NewId(i)
       /\ rows' = all /\ past' = Append(past, all)
       /\ To(r, [q EXCEPT !.keys = @ \ {k}, !.commit = Len(past) + 1])
       /\ UNCHANGED <<agenda, cache, answered, dropped, late, overtaken, doubled>>

\* A key that another run has added ends this one with an error.
EndFill(r) ==
    LET q == request[r]
    IN /\ q.step = "filling" /\ (q.keys = {} \/ q.keys \intersect SourceKeys # {})
       /\ To(r, IF q.keys = {} /\ q.commit # 0 /\ ~q.form.cron THEN [q EXCEPT !.step = "committed"] ELSE Over)
       /\ NoEdit

\* query_auto_announce_candidates
ListFestivals(r) == \E f \in agenda, w \in Workers :
    LET due == {i \in Ids : /\ rows[i] # NoRow /\ rows[i].table = "festivals"
                            /\ rows[i].active /\ rows[i].flag /\ rows[i].start # None}
    IN /\ request[r] = Idle /\ f.op = "announce"
       /\ To(r, [Fresh(f, w, "listed") EXCEPT !.list = [i \in Ids |-> IF i \in due THEN rows[i] ELSE NoRow]])
       /\ NoEdit

LastDay(festival) == IF festival.end # None THEN festival.end ELSE festival.start
IsDue(festival) == festival.start # None /\ festival.start <= Today + Lead /\ Today <= LastDay(festival)

\* get_by_source_festival finds nothing.
Missing(i) == ~Announced(i)

\* A commit of the run makes the copies of the list expire; each is read again when it is
\* looked at, and stays so until the next commit.
CheckFestival(r) == \E i \in Ids :
    LET q == request[r]
        festival == IF q.commit = 0 THEN q.list[i] ELSE rows[i]
    IN /\ q.step = "listed" /\ q.list[i] # NoRow
       /\ To(r, IF IsDue(festival) /\ Missing(i)
                THEN [q EXCEPT !.step = "due", !.id = i, !.list = [@ EXCEPT ![i] = festival],
                               !.saw = IF Announced(i) THEN NoRow ELSE festival]
                ELSE [q EXCEPT !.list = [@ EXCEPT ![i] = NoRow]])
       /\ NoEdit

Announce(r) == \E j \in Ids :
    LET q == request[r]
        i == q.id
        festival == q.list[i]
        all == [rows EXCEPT ![j] = [table |-> "announcements", name |-> festival.name, start |-> Today,
                    end |-> LastDay(festival), paid |-> FALSE, priced |-> FALSE, active |-> TRUE,
                    flag |-> FALSE, source |-> i]]
    IN /\ q.step = "due"
       /\ NewId(j)
       /\ rows' = all /\ past' = Append(past, all)
       /\ doubled' = IF q.saw # NoRow /\ Announced(i) THEN doubled \union {i} ELSE doubled
       /\ To(r, [q EXCEPT !.step = "listed", !.id = None, !.commit = Len(past) + 1,
                    !.list = [@ EXCEPT ![i] = NoRow]])
       /\ UNCHANGED <<agenda, cache, answered, dropped, late, overtaken>>

Serve(r) ==
    \/ LookUp(r) \/ Compute(r) \/ Store(r) \/ Load(r) \/ CheckName(r) \/ Refused(r) \/ FindGone(r)
    \/ CommitPooja(r) \/ CommitFestival(r) \/ CommitAnnouncement(r) \/ CommitTiming(r) \/ CommitPhoto(r)
    \/ CommitMember(r) \/ CommitProfile(r)
    \/ AnswerPooja(r) \/ AnswerFestival(r) \/ AnswerAnnouncement(r) \/ AnswerTiming(r) \/ AnswerPhoto(r)
    \/ AnswerMember(r) \/ AnswerProfile(r)
    \/ ListMissing(r) \/ AddFestival(r) \/ EndFill(r) \/ ListFestivals(r) \/ CheckFestival(r) \/ Announce(r)
Next == Expire \/ \E r \in Requests : Serve(r)
Spec == Init /\ [][Next]_pagesVars
-----------------------------------------------------------------------------
(* Properties *)

\* Every variable has the values its columns can hold.
TypeOK ==
    /\ agenda \subseteq Form /\ rows \in [Ids -> Row \union {NoRow}]
    /\ DOMAIN cache = Workers
    /\ \A w \in Workers : DOMAIN cache[w] \subseteq Keys /\ \A k \in DOMAIN cache[w] : cache[w][k] \subseteq Ids \X Row
    /\ request \in [Requests -> {Idle, Over} \union Busy]
    /\ past \in Seq([Ids -> Row \union {NoRow}])
    /\ answered \in [Workers -> [Keys -> Nat]] /\ dropped \in [Workers -> [Keys -> Nat]]
    /\ late \subseteq Workers \X Keys /\ overtaken \subseteq Ids /\ doubled \subseteq Ids \union {Profile}

\* A worker that has answered an editor serves the page as it has been at some moment
\* since that edit, never an older one, whatever readers, other edits and the daily job
\* do at once, where no reader stored a page it had begun before the edit dropped it.
FreshAfterEdit == \A w \in Workers : \A k \in DOMAIN cache[w] :
    <<w, k>> \in late \/ \E v \in answered[w][k]..Len(past) : cache[w][k] = Page(k, past[v])

\* A window never ends before it starts and a fee is never without amount, though edits
\* send only some of the columns, where no edit was committed to a row that had changed.
\* A festival has one announcement, whatever runs of the job there were, and the profile
\* is one row, where no two created it at once.
RowsInOrder ==
    /\ \A i \in Ids \ overtaken : rows[i] # NoRow => Valid(rows[i])
    /\ \A i \in Ids \ doubled : Cardinality({j \in Ids : Announces(rows[j], i)}) <= 1
    /\ Cardinality(Shown(rows, "temple")) <= 1 \/ Profile \in doubled
=============================================================================
