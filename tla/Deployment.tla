------------------------------- MODULE Deployment -------------------------------
(***************************************************************************)
(* How the site comes up over its database: entrypoint.sh, legacy_stamp.py,*)
(* alembic (env.py: all pending revisions in one transaction), the checks  *)
(* of the start, and docker's "restart: always".                           *)
(*                                                                         *)
(* The container may die anywhere.  Between two starts an operator may     *)
(* deploy another release or take the database back some revisions with    *)
(* the scripts of the one deployed.  While it serves, a release of the     *)
(* past records rows that later revisions have to carry over.              *)
(***************************************************************************)
EXTENDS Integers, Revisions

CONSTANTS Databases,     \* what a first start finds: [db, at]
          Releases,      \* the releases, by the last revision in their image
          MaxCrashes,    \* bound
          MaxOperations  \* bound: deployments and downgrades

LEGACY == -1             \* a revision of the history that was squashed into 001
DeploymentAssumption ==
    /\ Releases \subseteq 1..Latest /\ MaxCrashes \in Nat /\ MaxOperations \in Nat
    /\ \A d \in Databases : d.at \in {LEGACY} \union 0..Latest

VARIABLES
    db, at,     \* the schema and alembic_version, as committed
    release,    \* what is deployed
    phase,      \* how far the container is
    work,       \* the transaction of a migration, [db, at]
    target,     \* the revision it goes to
    crashes, operations,
    kept        \* history: rows that must not be lost

deploymentVars == <<db, at, release, phase, work, target, crashes, operations, kept>>

Phases == {"stopped", "stamped", "upgrading", "downgrading", "migrated", "serving", "refused"}
NoWork == [db |-> {}, at |-> 0]

OldRows == {<<"members">>, <<"donors", "gifts">>}
Bookings == Of("abhishekams", {"bookings"})

Init == /\ \E d \in Databases : db = d.db /\ at = d.at /\ kept = d.db \intersect OldRows
        /\ release \in Releases /\ phase = "stopped" /\ work = NoWork /\ target = 0
        /\ crashes = 0 /\ operations = 0
-----------------------------------------------------------------------------
Upgraded(d, v) == Applied(d, Revisions[v + 1].up)
Downgraded(d, v) == Applied(d, Revisions[v].down)

\* Mutant: the old history is taken for all of the new one.
StampAsLatest == Latest

Baseline == 1

\* legacy_stamp, a transaction of its own
Restamp == /\ phase = "stopped"
           /\ at' = IF at = LEGACY THEN Baseline ELSE at
           /\ phase' = "stamped"
           /\ UNCHANGED <<db, release, work, target, crashes, operations, kept>>

\* A revision that the image does not know ends the start ("set -e"), and docker tries again.
CannotLocate == /\ phase = "stamped" /\ at > release
                /\ phase' = "stopped"
                /\ UNCHANGED <<db, at, release, work, target, crashes, operations, kept>>

BeginUpgrade == /\ phase = "stamped" /\ at <= release
                /\ phase' = "upgrading" /\ work' = [db |-> db, at |-> at] /\ target' = release
                /\ UNCHANGED <<db, at, release, crashes, operations, kept>>

BeginDowngrade == \E v \in 1..Latest :
    /\ phase \in {"stopped", "serving"} /\ operations < MaxOperations /\ v < at /\ at <= release
    /\ phase' = "downgrading" /\ work' = [db |-> db, at |-> at] /\ target' = v
    /\ operations' = operations + 1
    /\ UNCHANGED <<db, at, release, crashes, kept>>

\* One revision; an error rolls all of them back and ends the entrypoint, at every start again.
Migrate ==
    LET up == phase = "upgrading"
        next == IF up THEN Upgraded(work.db, work.at) ELSE Downgraded(work.db, work.at)
    IN /\ phase \in {"upgrading", "downgrading"} /\ work.at # target
       /\ IF next = Failed THEN phase' = "refused" /\ work' = NoWork
          ELSE /\ work' = [db |-> next, at |-> IF up THEN work.at + 1 ELSE work.at - 1]
               /\ UNCHANGED phase
       /\ UNCHANGED <<db, at, release, target, crashes, operations, kept>>

\* Bookings of the standalone Abhishekam go with its table, below the revision that made it.
StillKept(k, v) == IF v < 14 THEN k \ Bookings ELSE k

Commit == /\ phase \in {"upgrading", "downgrading"} /\ work.at = target
          /\ db' = work.db /\ at' = work.at /\ work' = NoWork
          /\ kept' = StillKept(kept, target)
          /\ phase' = IF phase = "upgrading" THEN "migrated" ELSE "stopped"
          /\ UNCHANGED <<release, target, crashes, operations>>

\* check_migrations_on_startup: a single head is all it asks for.
Start == /\ phase = "migrated" /\ phase' = "serving"
         /\ UNCHANGED <<db, at, release, work, target, crashes, operations, kept>>

\* Mutant: what was done so far stays.
HalfDone(d, w) == IF w = NoWork THEN d ELSE w.db

RolledBack(d, w) == d

Crash == /\ phase # "stopped" /\ crashes < MaxCrashes
         /\ phase' = "stopped" /\ crashes' = crashes + 1
         /\ db' = RolledBack(db, work) /\ work' = NoWork
         /\ UNCHANGED <<at, release, target, operations, kept>>

\* deploy.sh, or the checkout of an older tag
Deploy == \E r \in Releases \ {release} :
    /\ phase \in {"stopped", "serving"} /\ operations < MaxOperations
    /\ release' = r /\ phase' = "stopped" /\ operations' = operations + 1
    /\ UNCHANGED <<db, at, work, target, crashes, kept>>

\* A gift with its donor before revision 004, a booking of the standalone Abhishekam in 014 to 017.
Recorded(r) == IF r < 4 THEN Of("donors", {"gifts"})
               ELSE IF r = 14 THEN Of("occasion_blessings", {"bookings"})
               ELSE IF r \in 15..17 THEN Of("abhishekams", {"bookings"}) ELSE {}

Promised(r) == IF r < 4 THEN Of("donors", {"gifts"}) ELSE Bookings

Record == /\ phase = "serving" /\ ~ Recorded(release) \subseteq db
          /\ db' = db \union Recorded(release)
          /\ kept' = kept \union Promised(release)
          /\ UNCHANGED <<at, release, phase, work, target, crashes, operations>>

Boot == Restamp \/ CannotLocate \/ BeginUpgrade \/ Migrate \/ Commit \/ Start
Next == Boot \/ BeginDowngrade \/ Crash \/ Deploy \/ Record

Spec == Init /\ [][Next]_deploymentVars
-----------------------------------------------------------------------------
(* Properties *)

\* What devotees gave and booked under an older schema is still there under a newer one.
Carried(d, v, k) ==
    /\ <<"members">> \in k /\ v >= 3 => <<"temple_members", "legacy rows">> \in d
    /\ <<"donors", "gifts">> \in k /\ v >= 4 => <<"donations", "legacy gifts">> \in d
    /\ Bookings \subseteq k => Bookings \subseteq d \/ Of("occasion_blessings", {"bookings"}) \subseteq d
RowsKept == Carried(db, at, kept)

\* The versions are revisions, and a transaction is open only while a migration runs.
TypeOK ==
    /\ at \in {LEGACY} \union 0..Latest /\ release \in Releases /\ phase \in Phases
    /\ target \in 0..Latest /\ crashes \in 0..MaxCrashes /\ operations \in 0..MaxOperations
    /\ (phase \notin {"upgrading", "downgrading"}) => work = NoWork
    /\ Sound(db)
    /\ kept \subseteq OldRows \union Bookings

\* A site that serves is at the revision of its image, and the current one finds
\* every table, column and label its models declare, whatever database it came from.
SchemaComplete == phase = "serving" => at = release /\ (release = Latest => Declared \subseteq db)

\* No revision ever meets a database it cannot be applied to or taken back from:
\* an upgrade after a downgrade works, from every revision ("so a downgrade + re-upgrade still works").
RevisionsApply == phase # "refused"

\* Every database comes up with its rows: each revision applies to it, a site that
\* serves finds the schema its image declares, and what refers to a table finds it.
UpgradesWork == TypeOK /\ RevisionsApply /\ SchemaComplete /\ RowsKept
-----------------------------------------------------------------------------
(* One revision at a time *)

\* What there is between two transactions of one revision each: a database, its version and
\* what it must not have lost.  First a start finds it; then a revision is applied to it or
\* taken back, or its release records something.
Between(d, v, k) == [db |-> d, at |-> v, kept |-> k]
Found == {Between(d.db, IF d.at = LEGACY THEN 1 ELSE d.at, d.db \intersect OldRows) : d \in Databases}
After(s) ==
    (IF s.at < Latest THEN {Between(Upgraded(s.db, s.at), s.at + 1, s.kept)} ELSE {})
      \union (IF s.at > 1 THEN {Between(Downgraded(s.db, s.at), s.at - 1, StillKept(s.kept, s.at - 1))} ELSE {})
      \union (IF s.at \in 1..Latest /\ ~ Recorded(s.at) \subseteq s.db
              THEN {Between(s.db \union Recorded(s.at), s.at, s.kept \union Promised(s.at))} ELSE {})

\* Up through all revisions and down again: twice their number of rounds reaches everything.
Round[n \in Nat] ==
    IF n = 0 THEN [all |-> Found, new |-> Found]
    ELSE LET before == Round[n - 1]
             new == UNION {After(s) : s \in before.new} \ before.all
         IN [all |-> before.all \union new, new |-> new]
Met == Round[2 * Latest].all

\* No revision fails on anything there can be, and nothing is ever missing from it.
Unharmed(s) == /\ s.db # Failed /\ Sound(s.db) /\ (s.at = Latest => Declared \subseteq s.db)
               /\ s.kept \subseteq OldRows \union Bookings /\ s.kept = StillKept(s.kept, s.at)
               /\ Carried(s.db, s.at, s.kept)
RevisionsAssumption == /\ Found \union UNION {After(s) : s \in Met} \subseteq Met
                       /\ \A s \in Met : Unharmed(s)
=============================================================================
