---------------------------- MODULE DeploymentProofs ----------------------------
(***************************************************************************)
(* Theorems about the deployment, for any number of crashes, deployments *)
(* and downgrades, and any set of releases.  That no single revision fails *)
(* on what it can meet is a computation (RevisionsAssumption, which TLC    *)
(* carries out); that therefore no start ever fails, whatever was rolled   *)
(* back, deployed, taken back or recorded before it, is proved here.       *)
(***************************************************************************)
EXTENDS Integers, Hosting, TLAPS

-----------------------------------------------------------------------------
(* The inductive invariant *)

Migrating == phase \in {"upgrading", "downgrading"}

\* The squashed history counts as the first revision of the new one.
Version == IF at = Boot!LEGACY THEN 1 ELSE at

\* What is committed is one of the databases there can be, and so is what the transaction
\* has made of it so far.
DatabaseStands == Boot!Between(db, Version, kept) \in Boot!Met
WorkStands == Migrating => Boot!Between(work.db, work.at, Boot!StillKept(kept, work.at)) \in Boot!Met

\* A transaction goes from the committed version to its target, revision by revision.
OnItsWay ==
    /\ phase = "upgrading" => work.at \in at..target /\ target = release
    /\ phase = "downgrading" => target \in 1..at /\ work.at \in target..at

\* Only a start restamps, and only a finished upgrade serves.
StartedInOrder ==
    /\ at = Boot!LEGACY => phase = "stopped"
    /\ phase \in {"migrated", "serving"} => at = release

VersionsOK ==
    /\ at \in {Boot!LEGACY} \union 0..Boot!Latest /\ release \in Releases /\ phase \in Boot!Phases \ {"refused"}
    /\ target \in 0..Boot!Latest /\ crashes \in 0..MaxCrashes /\ operations \in 0..MaxOperations
    /\ ~ Migrating => work = Boot!NoWork

DeploymentInv == VersionsOK /\ StartedInOrder /\ OnItsWay /\ DatabaseStands /\ WorkStands
-----------------------------------------------------------------------------
(* One revision *)

LEMMA LatestIsNat == Boot!Latest \in Nat /\ 1 <= Boot!Latest
<1>1. Boot!Latest = 30
  BY DEF Boot!Latest, Boot!Revisions
<1> QED BY <1>1

LEMMA BetweenFields ==
    ASSUME NEW d, NEW v, NEW k
    PROVE  Boot!Between(d, v, k).db = d /\ Boot!Between(d, v, k).at = v /\ Boot!Between(d, v, k).kept = k
  BY DEF Boot!Between

LEMMA NothingHarmed ==
    ASSUME NEW d, NEW v, NEW k, Boot!Between(d, v, k) \in Boot!Met
    PROVE  /\ d # Boot!Failed /\ Boot!Sound(d) /\ (v = Boot!Latest => Boot!Declared \subseteq d)
           /\ k \subseteq Boot!OldRows \union Boot!Bookings /\ k = Boot!StillKept(k, v) /\ Boot!Carried(d, v, k)
<1>1. Boot!Unharmed(Boot!Between(d, v, k))
  BY HostingAssumption DEF Boot!RevisionsAssumption
<1> QED BY <1>1, BetweenFields DEF Boot!Unharmed

LEMMA AfterIsMet ==
    ASSUME NEW s \in Boot!Met, NEW x \in Boot!After(s)
    PROVE  x \in Boot!Met
  BY HostingAssumption DEF Boot!RevisionsAssumption

LEMMA OneUp ==
    ASSUME NEW d, NEW v \in Nat, NEW k, Boot!Between(d, v, k) \in Boot!Met, v < Boot!Latest
    PROVE  Boot!Between(Boot!Upgraded(d, v), v + 1, k) \in Boot!Met
<1>1. Boot!Between(Boot!Upgraded(d, v), v + 1, k) \in Boot!After(Boot!Between(d, v, k))
  BY BetweenFields DEF Boot!After
<1> QED BY <1>1, AfterIsMet

LEMMA OneDown ==
    ASSUME NEW d, NEW v \in Nat, NEW k, Boot!Between(d, v, k) \in Boot!Met, v > 1
    PROVE  Boot!Between(Boot!Downgraded(d, v), v - 1, Boot!StillKept(k, v - 1)) \in Boot!Met
<1>1. Boot!Between(Boot!Downgraded(d, v), v - 1, Boot!StillKept(k, v - 1)) \in Boot!After(Boot!Between(d, v, k))
  BY BetweenFields DEF Boot!After
<1> QED BY <1>1, AfterIsMet

LEMMA OneRecord ==
    ASSUME NEW d, NEW v \in 1..Boot!Latest, NEW k, Boot!Between(d, v, k) \in Boot!Met, ~ Boot!Recorded(v) \subseteq d
    PROVE  Boot!Between(d \union Boot!Recorded(v), v, k \union Boot!Promised(v)) \in Boot!Met
<1> DEFINE s == Boot!Between(d, v, k)
           x == Boot!Between(d \union Boot!Recorded(v), v, k \union Boot!Promised(v))
<1>1. s.db = d /\ s.at = v /\ s.kept = k
  BY BetweenFields
<1>2. x = Boot!Between(s.db \union Boot!Recorded(s.at), s.at, s.kept \union Boot!Promised(s.at))
  BY <1>1
<1>3. s.at \in 1..Boot!Latest /\ ~ Boot!Recorded(s.at) \subseteq s.db
  BY <1>1
<1> HIDE DEF s, x
<1>4. x \in Boot!After(s)
  BY <1>2, <1>3 DEF Boot!After
<1> QED BY <1>4, AfterIsMet DEF s, x

\* What is kept at a version is kept above it; what a descent leaves of it does not depend
\* on the steps it takes.
LEMMA KeptAbove ==
    ASSUME NEW k, NEW v \in Nat, NEW w \in Nat, v <= w, k = Boot!StillKept(k, v)
    PROVE  Boot!StillKept(k, w) = k
  BY DEF Boot!StillKept

LEMMA KeptBelow ==
    ASSUME NEW k, NEW v \in Nat, NEW w \in Nat, w <= v
    PROVE  Boot!StillKept(Boot!StillKept(k, v), w) = Boot!StillKept(k, w)
  BY DEF Boot!StillKept
-----------------------------------------------------------------------------
(* The steps of a start *)

LEMMA InitDeploymentInv == ASSUME Boot!Init PROVE DeploymentInv
<1> USE DEF Boot!Init
<1>1. VersionsOK /\ StartedInOrder /\ OnItsWay /\ WorkStands
  BY LatestIsNat, HostingAssumption DEF Boot!DeploymentAssumption, VersionsOK, StartedInOrder, OnItsWay,
                                         WorkStands, Migrating, Boot!Phases
<1>2. DatabaseStands
  <2>1. PICK d \in Databases : db = d.db /\ at = d.at /\ kept = d.db \intersect Boot!OldRows
    OBVIOUS
  <2>2. Boot!Between(d.db, IF d.at = Boot!LEGACY THEN 1 ELSE d.at, d.db \intersect Boot!OldRows) \in Boot!Met
    BY HostingAssumption DEF Boot!RevisionsAssumption, Boot!Found
  <2> QED BY <2>1, <2>2 DEF DatabaseStands, Version
<1> QED BY <1>1, <1>2 DEF DeploymentInv

LEMMA RestampKeeps == ASSUME DeploymentInv, Boot!Restamp PROVE DeploymentInv'
<1> USE DEF DeploymentInv, Boot!Restamp
<1>1. VersionsOK' /\ StartedInOrder' /\ OnItsWay' /\ WorkStands'
  BY LatestIsNat DEF VersionsOK, StartedInOrder, OnItsWay, WorkStands, Migrating, Boot!Phases, Boot!Baseline, Boot!LEGACY
<1>2. Version' = Version
  BY DEF Version, Boot!Baseline
<1> QED BY <1>1, <1>2 DEF DatabaseStands

LEMMA CannotLocateKeeps == ASSUME DeploymentInv, Boot!CannotLocate PROVE DeploymentInv'
<1> USE DEF DeploymentInv, Boot!CannotLocate
<1>1. VersionsOK' /\ StartedInOrder' /\ OnItsWay' /\ WorkStands'
  BY DEF VersionsOK, StartedInOrder, OnItsWay, WorkStands, Migrating, Boot!Phases
<1> QED BY <1>1 DEF DatabaseStands, Version

\* A transaction begins with what is committed.
LEMMA BeginUpgradeKeeps == ASSUME DeploymentInv, Boot!BeginUpgrade PROVE DeploymentInv'
<1> USE DEF DeploymentInv, Boot!BeginUpgrade
<1>1. at \in 0..Boot!Latest /\ Version = at /\ release \in 0..Boot!Latest
  BY LatestIsNat, HostingAssumption DEF VersionsOK, StartedInOrder, Version, Boot!LEGACY, Boot!DeploymentAssumption
<1>2. VersionsOK' /\ StartedInOrder' /\ OnItsWay'
  BY <1>1 DEF VersionsOK, StartedInOrder, OnItsWay, Migrating, Boot!Phases, Boot!LEGACY
<1>3. Boot!Between(db, at, kept) \in Boot!Met /\ Boot!StillKept(kept, at) = kept
  BY <1>1, NothingHarmed DEF DatabaseStands
<1>4. DatabaseStands' /\ WorkStands'
  BY <1>3 DEF DatabaseStands, Version, WorkStands
<1> QED BY <1>2, <1>4

LEMMA BeginDowngradeKeeps == ASSUME DeploymentInv, Boot!BeginDowngrade PROVE DeploymentInv'
<1>1. PICK v \in 1..Boot!Latest :
        /\ phase \in {"stopped", "serving"} /\ operations < MaxOperations /\ v < at /\ at <= release
        /\ phase' = "downgrading" /\ work' = [db |-> db, at |-> at] /\ target' = v
        /\ operations' = operations + 1
        /\ UNCHANGED <<db, at, release, crashes, kept>>
  BY DEF Boot!BeginDowngrade
<1> USE DEF DeploymentInv
<1>2. at \in 0..Boot!Latest /\ Version = at
  BY <1>1, LatestIsNat DEF VersionsOK, Version, Boot!LEGACY
<1>3. VersionsOK' /\ StartedInOrder' /\ OnItsWay'
  BY <1>1, <1>2, LatestIsNat, HostingAssumption DEF VersionsOK, StartedInOrder, OnItsWay, Migrating,
                                                     Boot!Phases, Boot!LEGACY, Boot!DeploymentAssumption
<1>4. Boot!Between(db, at, kept) \in Boot!Met /\ Boot!StillKept(kept, at) = kept
  BY <1>2, NothingHarmed DEF DatabaseStands
<1>5. DatabaseStands' /\ WorkStands'
  BY <1>1, <1>2, <1>4 DEF DatabaseStands, Version, WorkStands
<1> QED BY <1>3, <1>5

\* One revision of the transaction applies, as what it has made so far is something there can be.
LEMMA MigrateKeeps == ASSUME DeploymentInv, Boot!Migrate PROVE DeploymentInv'
<1> USE DEF DeploymentInv
<1> DEFINE made == IF phase = "upgrading" THEN Boot!Upgraded(work.db, work.at) ELSE Boot!Downgraded(work.db, work.at)
           next == IF phase = "upgrading" THEN work.at + 1 ELSE work.at - 1
<1>1. /\ Migrating /\ work.at # target
      /\ (IF made = Boot!Failed THEN phase' = "refused" /\ work' = Boot!NoWork
          ELSE work' = [db |-> made, at |-> next] /\ UNCHANGED phase)
      /\ UNCHANGED <<db, at, release, target, crashes, operations, kept>>
  BY DEF Boot!Migrate, Migrating
<1>2. at \in 0..Boot!Latest /\ Version = at /\ work.at \in 0..Boot!Latest /\ target \in 0..Boot!Latest
  BY <1>1, LatestIsNat DEF VersionsOK, StartedInOrder, OnItsWay, Migrating, Version, Boot!LEGACY
<1>3. Boot!Between(work.db, work.at, Boot!StillKept(kept, work.at)) \in Boot!Met
  BY <1>1 DEF WorkStands
<1>4. kept = Boot!StillKept(kept, at)
  BY <1>2, NothingHarmed DEF DatabaseStands
<1>5. Boot!Between(made, next, Boot!StillKept(kept, next)) \in Boot!Met
  <2>1. CASE phase = "upgrading"
    <3>1. work.at < Boot!Latest /\ at <= work.at /\ work.at \in Nat
      BY <1>1, <1>2, <2>1, LatestIsNat DEF OnItsWay
    <3>2. Boot!StillKept(kept, work.at) = kept /\ Boot!StillKept(kept, work.at + 1) = kept
      BY <1>2, <1>4, <3>1, KeptAbove
    <3>3. Boot!Between(Boot!Upgraded(work.db, work.at), work.at + 1, kept) \in Boot!Met
      BY <1>3, <3>1, <3>2, OneUp
    <3> QED BY <2>1, <3>2, <3>3
  <2>2. CASE phase # "upgrading"
    <3>1. work.at > 1 /\ work.at \in Nat /\ work.at - 1 \in Nat
      BY <1>1, <1>2, <2>2 DEF OnItsWay, Migrating
    <3>2. Boot!StillKept(Boot!StillKept(kept, work.at), work.at - 1) = Boot!StillKept(kept, work.at - 1)
      BY <3>1, KeptBelow
    <3>3. Boot!Between(Boot!Downgraded(work.db, work.at), work.at - 1,
                       Boot!StillKept(Boot!StillKept(kept, work.at), work.at - 1)) \in Boot!Met
      BY <1>3, <3>1, OneDown
    <3> QED BY <2>2, <3>2, <3>3
  <2> QED BY <2>1, <2>2
<1>6. made # Boot!Failed
  BY <1>5, NothingHarmed
<1>7. work' = [db |-> made, at |-> next] /\ phase' = phase
  BY <1>1, <1>6
<1> HIDE DEF made
<1>8. VersionsOK' /\ StartedInOrder' /\ OnItsWay'
  BY <1>1, <1>2, <1>7 DEF VersionsOK, StartedInOrder, OnItsWay, Migrating
<1>9. DatabaseStands' /\ WorkStands'
  BY <1>1, <1>5, <1>7 DEF DatabaseStands, Version, WorkStands
<1> QED BY <1>8, <1>9

LEMMA CommitKeeps == ASSUME DeploymentInv, Boot!Commit PROVE DeploymentInv'
<1> USE DEF DeploymentInv, Boot!Commit
<1>1. at \in 0..Boot!Latest /\ work.at = target /\ target \in 0..Boot!Latest
  BY LatestIsNat DEF VersionsOK, StartedInOrder, Boot!LEGACY
<1>2. VersionsOK' /\ StartedInOrder' /\ OnItsWay' /\ WorkStands'
  BY <1>1, LatestIsNat DEF VersionsOK, StartedInOrder, OnItsWay, WorkStands, Migrating, Boot!Phases, Boot!LEGACY
<1>3. Boot!Between(work.db, target, Boot!StillKept(kept, target)) \in Boot!Met
  BY <1>1 DEF WorkStands, Migrating
<1>4. db' = work.db /\ Version' = target /\ kept' = Boot!StillKept(kept, target)
  BY <1>1 DEF Version, Boot!LEGACY
<1> QED BY <1>2, <1>3, <1>4 DEF DatabaseStands

LEMMA StartKeeps == ASSUME DeploymentInv, Boot!Start PROVE DeploymentInv'
<1> USE DEF DeploymentInv, Boot!Start
<1>1. VersionsOK' /\ StartedInOrder' /\ OnItsWay' /\ WorkStands'
  BY DEF VersionsOK, StartedInOrder, OnItsWay, WorkStands, Migrating, Boot!Phases
<1> QED BY <1>1 DEF DatabaseStands, Version
-----------------------------------------------------------------------------
(* Crashes, deployments, and what a site records *)

\* What a container leaves behind is what was committed.
LEMMA CrashKeeps == ASSUME DeploymentInv, Boot!Crash PROVE DeploymentInv'
<1> USE DEF DeploymentInv, Boot!Crash, Boot!RolledBack
<1>1. VersionsOK' /\ StartedInOrder' /\ OnItsWay' /\ WorkStands'
  BY HostingAssumption DEF VersionsOK, StartedInOrder, OnItsWay, WorkStands, Migrating, Boot!Phases,
                            Boot!DeploymentAssumption
<1> QED BY <1>1 DEF DatabaseStands, Version

LEMMA DeployKeeps == ASSUME DeploymentInv, Boot!Deploy PROVE DeploymentInv'
<1> USE DEF DeploymentInv, Boot!Deploy
<1>1. VersionsOK' /\ StartedInOrder' /\ OnItsWay' /\ WorkStands'
  BY HostingAssumption DEF VersionsOK, StartedInOrder, OnItsWay, WorkStands, Migrating, Boot!Phases,
                            Boot!DeploymentAssumption
<1> QED BY <1>1 DEF DatabaseStands, Version

LEMMA RecordKeeps == ASSUME DeploymentInv, Boot!Record PROVE DeploymentInv'
<1> USE DEF DeploymentInv, Boot!Record
<1>1. at = release /\ at \in 1..Boot!Latest /\ Version = at /\ Version' = at
  BY HostingAssumption DEF StartedInOrder, VersionsOK, Version, Boot!LEGACY, Boot!DeploymentAssumption
<1>2. VersionsOK' /\ StartedInOrder' /\ OnItsWay' /\ WorkStands'
  BY DEF VersionsOK, StartedInOrder, OnItsWay, WorkStands, Migrating
<1>3. Boot!Between(db, at, kept) \in Boot!Met
  BY <1>1 DEF DatabaseStands
<1>4. Boot!Between(db \union Boot!Recorded(at), at, kept \union Boot!Promised(at)) \in Boot!Met
  BY <1>1, <1>3, OneRecord
<1> QED BY <1>1, <1>2, <1>4 DEF DatabaseStands

LEMMA StepDeploymentInv == ASSUME DeploymentInv, [Boot!Next]_(Boot!deploymentVars) PROVE DeploymentInv'
<1>1. CASE UNCHANGED Boot!deploymentVars
  BY <1>1 DEF Boot!deploymentVars, DeploymentInv, VersionsOK, StartedInOrder, OnItsWay, DatabaseStands, WorkStands,
              Version, Migrating
<1>2. CASE Boot!Boot
  BY <1>2, RestampKeeps, CannotLocateKeeps, BeginUpgradeKeeps, MigrateKeeps, CommitKeeps, StartKeeps DEF Boot!Boot
<1>3. CASE Boot!BeginDowngrade \/ Boot!Crash \/ Boot!Deploy \/ Boot!Record
  BY <1>3, BeginDowngradeKeeps, CrashKeeps, DeployKeeps, RecordKeeps
<1> QED BY <1>1, <1>2, <1>3 DEF Boot!Next

\* What the invariant says of every database there can be.
LEMMA NothingMissing == ASSUME DeploymentInv PROVE UpgradesWork
<1> USE DEF DeploymentInv
<1>1. /\ Boot!Sound(db) /\ (Version = Boot!Latest => Boot!Declared \subseteq db)
      /\ kept \subseteq Boot!OldRows \union Boot!Bookings /\ Boot!Carried(db, Version, kept)
  BY NothingHarmed DEF DatabaseStands
<1>2. Boot!TypeOK
  BY <1>1 DEF Boot!TypeOK, VersionsOK, Migrating
<1>3. Boot!RevisionsApply
  BY DEF VersionsOK, Boot!RevisionsApply
<1>4. Boot!SchemaComplete
  BY <1>1 DEF Boot!SchemaComplete, StartedInOrder, Version
<1>5. Boot!RowsKept
  <2>1. at \in Nat => Version = at
    BY DEF Version, Boot!LEGACY
  <2>2. CASE at = Boot!LEGACY
    <3>1. ~ at >= 3 /\ ~ at >= 4
      BY <2>2 DEF Boot!LEGACY
    <3> QED BY <1>1, <3>1 DEF Boot!RowsKept, Boot!Carried
  <2>3. CASE at \in 0..Boot!Latest
    BY <1>1, <2>1, <2>3 DEF Boot!RowsKept
  <2> QED BY <2>2, <2>3 DEF VersionsOK
<1> QED BY <1>2, <1>3, <1>4, <1>5 DEF UpgradesWork, Boot!UpgradesWork
-----------------------------------------------------------------------------
(* Theorem *)

\* Every database comes up with its rows, however often the site is started, stopped,
\* deployed and taken back and wherever the container dies (entrypoint.sh, legacy_stamp and
\* the one transaction of env.py), given that each revision applies to what it can meet.
THEOREM EveryDatabaseComesUp == Boot!Spec => []UpgradesWork
<1>1. Boot!Init => DeploymentInv
  BY InitDeploymentInv
<1>2. DeploymentInv /\ [Boot!Next]_(Boot!deploymentVars) => DeploymentInv'
  BY StepDeploymentInv
<1>3. DeploymentInv => UpgradesWork
  BY NothingMissing
<1> QED BY <1>1, <1>2, <1>3, PTL DEF Boot!Spec
=============================================================================
