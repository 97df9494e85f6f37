------------------------------ MODULE MCWebWork ------------------------------
(* The pages of fc-web that begin work of the server and wait for its end,  *)
(* for TLC.  A browser tab shows one page at a time, and what a page keeps  *)
(* in its components is gone when it is left; so a behaviour stays on the   *)
(* page it begins on.                                                       *)
EXTENDS Naturals, FiniteSets, Sequences

CONSTANTS
  Routes,
  Sources, NoSource, Keys, Endings, MaxOpens, MaxJobs,        \* ReconcileFlow
  Conflicts, NoConflict, Fields, Changes, MaxForeign,         \* ConflictResolution
  Credentials, Blank, Home, Tables, MaxOut,                   \* ImportWizard
  NumFeatures, Edited, PageSize, Matching, MaxVersion, MaxRowWrites,\* FeatureTable
  Dialogs, MaxContent, MaxBuilds                              \* BundleDownload

ASSUME WebWorkAssumption ==
  /\ NoSource \notin Sources /\ {MaxOpens, MaxJobs} \subseteq Nat
  /\ Endings \subseteq {"success", "partial", "failed", "cancelled"}
  /\ Keys \intersect {"close", "apply", "cancel", "force", "log", "closeLog"} = {}
  /\ NoConflict \notin Conflicts /\ Conflicts \subseteq Nat /\ MaxForeign \in Nat
  /\ Blank \notin Credentials /\ Home \in Credentials
  /\ Matching \union Edited \subseteq 1..NumFeatures /\ {NumFeatures, MaxRowWrites} \subseteq Nat
  /\ {PageSize, MaxVersion, MaxContent} \subseteq Nat \ {0} /\ MaxBuilds \in Nat

VARIABLES
  route,
  flow, opens, previewing, applying, forces, jobs,
  facts, ruled, listed, listing, tab, merge, resolving, told, foreign,
  wiz, form, run, requests, profiles, job,
  changed, written, summary, viewer, table, rows, bulk, rowWrites, late, detail,
  bundle, content, filed, hot, locks, builds

reconcileVars == <<flow, opens, previewing, applying, forces, jobs>>
conflictVars  == <<facts, ruled, listed, listing, tab, merge, resolving, told,
                   foreign>>
importVars    == <<wiz, form, run, requests, profiles, job>>
featureVars   == <<changed, written, summary, viewer, table, rows, bulk, rowWrites,
                   late, detail>>
bundleVars    == <<bundle, content, filed, hot, locks, builds>>
vars == <<route, reconcileVars, conflictVars, importVars, featureVars, bundleVars>>

Reconcile == INSTANCE ReconcileFlow
Conflict  == INSTANCE ConflictResolution
Import    == INSTANCE ImportWizard
Feature   == INSTANCE FeatureTable WITH MaxOut <- MaxRowWrites
Bundle    == INSTANCE BundleDownload

(* Data of a page that is not shown is not varied. *)
Init ==
  /\ Reconcile!Init /\ Conflict!Init /\ Import!Init /\ Feature!Init /\ Bundle!Init
  /\ route # "conflicts" =>
       \A c \in Conflicts : facts[c] = [disputed |-> Fields, change |-> "updated"]
  /\ route # "import" => profiles = {}
  /\ route # "features" => \A f \in 1..NumFeatures : changed[f] = 0

Next ==
  \/ /\ Reconcile!Next
     /\ UNCHANGED <<conflictVars, importVars, featureVars, bundleVars>>
  \/ /\ Conflict!Next
     /\ UNCHANGED <<reconcileVars, importVars, featureVars, bundleVars>>
  \/ /\ Import!Next
     /\ UNCHANGED <<reconcileVars, conflictVars, featureVars, bundleVars>>
  \/ /\ Feature!Next
     /\ UNCHANGED <<reconcileVars, conflictVars, importVars, bundleVars>>
  \/ /\ Bundle!Next
     /\ UNCHANGED <<reconcileVars, conflictVars, importVars, featureVars>>

Spec ==
  /\ Init /\ [][Next]_vars
  /\ Reconcile!Fairness /\ Conflict!Fairness /\ Bundle!Fairness

-----------------------------------------------------------------------------
(* The properties of the modules, by their names. *)

(* Every variable of the page that is shown stays in its range. *)
TypeOK ==
  /\ route = "reconcile" => Reconcile!TypeOK
  /\ route = "conflicts" => Conflict!TypeOK
  /\ route = "import" => Import!TypeOK
  /\ route = "features" => Feature!TypeOK
  /\ route = "bundle" => Bundle!TypeOK

(* ReconcileFlowModal.tsx: the job a dialog follows is of its source. *)
JobIsOfTheSource == Reconcile!JobIsOfTheSource

(* StepRun.tsx: a table that is submitted has a complete configuration. *)
SubmittedIsConfigured == Import!SubmittedIsConfigured

(* LayerFeatureDrawer.tsx: what the drawer calls written back is. *)
SaidWritten == Feature!SaidWritten

(* useBundleDownload.ts: the bundle that is offered is the one asked for. *)
OfferedIsCurrent == Bundle!OfferedIsCurrent

(* ReconcileFlowModal.tsx: a dialog comes to show how its job ended. *)
RunsAreTold == Reconcile!RunsAreTold

(* LayerConflictsTab.tsx: a conflict that was ruled on leaves the screen. *)
RuledLeaves == Conflict!RuledLeaves

(* useBundleDownload.ts: a dialog that is busy comes to an end. *)
BusyEnds == Bundle!BusyEnds
=============================================================================
