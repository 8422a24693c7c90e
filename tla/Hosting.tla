--------------------------------- MODULE Hosting ---------------------------------
(***************************************************************************)
(* The deployment of the site, for any databases a first start may find    *)
(* and any releases: what a model of the site puts beside its parts.       *)
(***************************************************************************)
CONSTANTS Databases, Releases, MaxCrashes, MaxOperations

VARIABLES db, at, release, phase, work, target, crashes, operations, kept

deploymentVars == <<db, at, release, phase, work, target, crashes, operations, kept>>

Boot == INSTANCE Deployment

\* Each revision applies to whatever it can meet: a computation.
ASSUME HostingAssumption == Boot!DeploymentAssumption /\ Boot!RevisionsAssumption
-----------------------------------------------------------------------------
(* Property *)

\* Every database comes up with its rows, however the site is started, stopped, deployed and
\* taken back: each revision applies to it, a site that serves finds the schema its image
\* declares, and what refers to a table finds it.
UpgradesWork == Boot!UpgradesWork
=============================================================================
