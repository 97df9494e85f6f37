------------------------------ MODULE ImportWizard ------------------------------
(***************************************************************************)
(* The wizard that imports tables of a database as layers, in the field    *)
(* collector's web console.                                                *)
(*                                                                         *)
(*   apps/fc-web/src/components/import-wizard/ImportWizard.tsx and its     *)
(*   five steps: StepConnect, StepDiscover, StepConfigure, StepReview,     *)
(*   StepRun                                                               *)
(*                                                                         *)
(* Only the active step is mounted; what the wizard itself keeps survives  *)
(* going back and forth, what a step keeps does not.  An answer that comes *)
(* after its step is gone still updates the wizard.  A connection is known *)
(* by the credentials it stands for; a saved profile has one of them.  Of  *)
(* a table's configuration only the completeness is kept, that is, whether *)
(* it has a layer name and an id column.  The server's job is its status.  *)
(***************************************************************************)
EXTENDS Naturals, FiniteSets

CONSTANTS
  Routes,
  Credentials,
  Blank,         \* the empty connection form, and no profile
  Home,          \* the credentials of the server's own database
  Tables,
  MaxOut         \* bound: requests of steps 1 and 2 out at a time

VARIABLES
  route,
  wiz,           \* state of ImportWizard
  form,          \* state of StepConnect while it is mounted
  run,           \* state of StepRun while it is mounted
  requests,      \* requests that are out
  profiles,      \* credentials there is a saved profile of
  job            \* the server's import job

wizardVars == <<wiz, form, run, requests, profiles, job>>
vars == <<route, wizardVars>>

Refs == [kind : {"inline", "profile"}, of : Credentials \union {Blank}]
NoRef == [kind |-> "none", of |-> Blank]
Ended == {"success", "partial", "failed"}
JobStates == {"none", "pending", "running"} \union Ended
Config == {"none", "incomplete", "complete"}

(* StepConnect as it is mounted. *)
BlankForm(ref) ==
  [mode |-> IF ref = NoRef /\ profiles # {} THEN "saved" ELSE "new",
   inline |-> IF ref.kind = "inline" THEN ref.of ELSE Blank,
   profile |-> IF ref.kind = "profile" THEN ref.of
               ELSE IF ref = NoRef /\ profiles # {} THEN CHOOSE p \in profiles : TRUE
               ELSE Blank,
   prompt |-> FALSE]
Fresh == [step |-> 1, connection |-> NoRef, tested |-> FALSE, discovered |-> {},
          selected |-> {}, configs |-> [t \in Tables |-> "none"], mode |-> "link",
          job |-> "none"]
NoRun == [seen |-> "none", polling |-> FALSE]

Init ==
  /\ route \in Routes
  /\ profiles \in {{}, Credentials}
  /\ wiz = Fresh
  /\ form = BlankForm(NoRef) /\ run = NoRun
  /\ requests = {}
  /\ job = [status |-> "none", tables |-> {}]

-----------------------------------------------------------------------------
(* What the wizard offers. *)

Chosen == wiz.discovered \intersect wiz.selected   \* the tables handed to steps 3 to 5

(* Step 3: each selected table has a layer name and an id column. *)
Configured_Shown == \A t \in Chosen : wiz.configs[t] = "complete"
Configured == \A t \in wiz.selected : wiz.configs[t] = "complete"

CanProceed ==
  CASE wiz.step = 1 -> wiz.connection # NoRef /\ wiz.tested
    [] wiz.step = 2 -> wiz.selected # {}
    [] wiz.step = 3 -> Configured
    [] wiz.step = 4 -> TRUE
    [] wiz.step = 5 -> wiz.job \in Ended
    [] OTHER -> FALSE

Out(kind) == \E q \in requests : q.kind = kind
BuildRef ==
  IF form.mode = "saved" /\ form.profile # Blank
  THEN [kind |-> "profile", of |-> form.profile]
  ELSE [kind |-> "inline", of |-> form.inline]

TestOffered ==
  /\ wiz.step = 1 /\ ~Out("test")
  /\ IF form.mode = "saved" THEN form.profile # Blank ELSE form.inline # Blank
SaveOffered == wiz.step = 1 /\ form.prompt /\ form.mode = "new" /\ ~Out("save")

Ask(kind, ref) == /\ Cardinality(requests) < MaxOut
                  /\ requests' = requests \union {[kind |-> kind, ref |-> ref]}
Answered(kind, ref) == /\ [kind |-> kind, ref |-> ref] \in requests
                       /\ requests' = requests \ {[kind |-> kind, ref |-> ref]}

-----------------------------------------------------------------------------
(* Step 1: StepConnect. *)

EditField(k) ==
  /\ wiz.step = 1 /\ form.mode = "new"
  /\ form' = [form EXCEPT !.inline = k]
  /\ UNCHANGED <<wiz, run, requests, profiles, job>>

SetMode(m) ==
  /\ wiz.step = 1 /\ (m = "saved" => profiles # {})
  /\ form' = [form EXCEPT !.mode = m]
  /\ UNCHANGED <<wiz, run, requests, profiles, job>>

PickProfile(k) ==
  /\ wiz.step = 1 /\ form.mode = "saved" /\ k \in profiles
  /\ form' = [form EXCEPT !.profile = k]
  /\ UNCHANGED <<wiz, run, requests, profiles, job>>

Test == TestOffered /\ Ask("test", NoRef) /\ UNCHANGED <<wiz, form, run, profiles, job>>

(* onSuccess builds the reference again, from the form as it is by then. *)
TestReturns ==
  /\ Answered("test", NoRef)
  /\ wiz' = [wiz EXCEPT !.connection = BuildRef, !.tested = TRUE]
  /\ form' = [form EXCEPT !.prompt = (form.mode = "new") \/ @]
  /\ UNCHANGED <<run, profiles, job>>

UseHome ==
  /\ wiz.step = 1 /\ ~Out("home") /\ Ask("home", NoRef)
  /\ UNCHANGED <<wiz, form, run, profiles, job>>

HomeReturns ==
  /\ Answered("home", NoRef)
  /\ form' = [form EXCEPT !.mode = "new", !.inline = Home, !.prompt = FALSE]
  /\ UNCHANGED <<wiz, run, profiles, job>>

Save ==
  /\ SaveOffered /\ form.inline # Blank
  /\ Ask("save", [kind |-> "inline", of |-> form.inline])
  /\ UNCHANGED <<wiz, form, run, profiles, job>>

SaveReturns(ref) ==
  /\ Answered("save", ref)
  /\ profiles' = profiles \union {ref.of}
  /\ form' = [form EXCEPT !.mode = "saved", !.profile = ref.of, !.prompt = FALSE]
  /\ wiz' = [wiz EXCEPT !.connection = [kind |-> "profile", of |-> ref.of]]
  /\ UNCHANGED <<run, job>>

DeleteProfile(k) ==
  /\ wiz.step = 1 /\ form.mode = "saved" /\ k \in profiles
  /\ profiles' = profiles \ {k}
  /\ form' = IF form.profile = k THEN [form EXCEPT !.profile = Blank] ELSE form
  /\ UNCHANGED <<wiz, run, requests, job>>

(* An answer to a StepConnect that is gone still resolves the connection:  *)
(* onConnectionResolved is the wizard's.                                   *)
LateConnect(ref) ==
  /\ \/ Answered("lateTest", ref) /\ UNCHANGED profiles
        /\ wiz' = [wiz EXCEPT !.connection = ref, !.tested = TRUE]
     \/ Answered("lateSave", ref) /\ profiles' = profiles \union {ref.of}
        /\ wiz' = [wiz EXCEPT !.connection = [kind |-> "profile", of |-> ref.of]]
  /\ UNCHANGED <<form, run, job>>

-----------------------------------------------------------------------------
(* Step 2: StepDiscover. *)

Refresh ==
  /\ wiz.step = 2 /\ ~Out("discover")
  /\ Ask("discover", NoRef)
  /\ UNCHANGED <<wiz, form, run, profiles, job>>

(* The effect of StepConfigure follows the tables it is handed; the        *)
(* default of a table has an id column, or none was found.                 *)
Defaults == [Tables -> {"incomplete", "complete"}]
Follow(configs, tables, defaults) ==
  [t \in Tables |-> IF t \notin tables THEN "none"
                    ELSE IF configs[t] = "none" THEN defaults[t] ELSE configs[t]]

(* onDiscovered replaces the list, whatever step is shown by then; the     *)
(* selection stays as it is.                                               *)
DiscoverReturns(found) ==
  /\ Answered("discover", NoRef) \/ Answered("lateDiscover", NoRef)
  /\ \E d \in Defaults :
       wiz' = [wiz EXCEPT !.discovered = found,
                 !.configs = IF wiz.step = 3 THEN Follow(@, found \intersect wiz.selected, d)
                             ELSE @]
  /\ UNCHANGED <<form, run, profiles, job>>

Toggle(t) ==
  /\ wiz.step = 2 /\ t \in wiz.discovered
  /\ wiz' = [wiz EXCEPT !.selected = IF t \in @ THEN @ \ {t} ELSE @ \union {t}]
  /\ UNCHANGED <<form, run, requests, profiles, job>>

SelectAll(subset) ==
  /\ wiz.step = 2 /\ subset \subseteq wiz.discovered
  /\ wiz' = [wiz EXCEPT !.selected = IF subset \subseteq @ THEN @ \ subset
                                     ELSE @ \union subset]
  /\ UNCHANGED <<form, run, requests, profiles, job>>

-----------------------------------------------------------------------------
(* Step 3: StepConfigure. *)
SetImportMode(m) ==
  /\ wiz.step = 3 /\ wiz' = [wiz EXCEPT !.mode = m]
  /\ UNCHANGED <<form, run, requests, profiles, job>>

UpdateConfig(t, v) ==
  /\ wiz.step = 3 /\ t \in Chosen /\ wiz.configs[t] # "none"
  /\ wiz' = [wiz EXCEPT !.configs[t] = v]
  /\ UNCHANGED <<form, run, requests, profiles, job>>

-----------------------------------------------------------------------------
(* Step 5: StepRun. *)

(* buildPayload, run on mount: a layer for each table it is handed. *)
Payload == Chosen

CreateReturns ==
  /\ Answered("create", NoRef)
  /\ job' = [job EXCEPT !.status = "pending"]
  /\ IF wiz.step = 5
     THEN wiz' = [wiz EXCEPT !.job = "pending"] /\ run' = [run EXCEPT !.polling = TRUE]
     ELSE UNCHANGED <<wiz, run>>
  /\ UNCHANGED <<form, profiles>>

(* "Failed to submit job" takes the place of the progress. *)
RequestFails(kind, ref) ==
  /\ Answered(kind, ref)
  /\ UNCHANGED <<wiz, form, run, profiles, job>>

(* refetchInterval: the query polls as long as the status it last saw is   *)
(* not the end.  The effect hands what it sees to the wizard.              *)
Refetches(status) == status \in {"pending", "running"}

PollReturns ==
  /\ wiz.step = 5 /\ run.polling
  /\ run' = [seen |-> job.status, polling |-> Refetches(job.status)]
  /\ wiz' = [wiz EXCEPT !.job = job.status]
  /\ UNCHANGED <<form, requests, profiles, job>>

(* Without a first answer there is no status, and no further poll. *)
PollFails ==
  /\ wiz.step = 5 /\ run.polling
  /\ run' = [run EXCEPT !.polling = run.seen # "none"]
  /\ UNCHANGED <<wiz, form, requests, profiles, job>>

JobStep ==
  /\ \/ job.status = "pending" /\ job' = [job EXCEPT !.status = "running"]
     \/ /\ job.status = "running"
        /\ \E st \in Ended : job' = [job EXCEPT !.status = st]
  /\ UNCHANGED <<wiz, form, run, requests, profiles>>

-----------------------------------------------------------------------------
(* Moving between the steps.  Mounting a step runs its first effect: step  *)
(* 2 scans if nothing was discovered, step 3 follows the tables, step 5    *)
(* submits.                                                                *)

(* Requests of the step that is left: the answer to a home request has no  *)
(* effect any more; a test keeps the reference of the last rendering.      *)
(* Once the import is submitted, none of them matters.                     *)
Leaving ==
  {q \in requests : q.kind \notin {"test", "home", "save", "discover"}}
    \union {[kind |-> "lateTest", ref |-> BuildRef] : q \in {r \in requests : r.kind = "test"}}
    \union {[q EXCEPT !.kind = "lateSave"] : q \in {r \in requests : r.kind = "save"}}
    \union {[q EXCEPT !.kind = "lateDiscover"] : q \in {r \in requests : r.kind = "discover"}}

Asks(step) ==
  IF step = 2 /\ wiz.discovered = {} THEN {[kind |-> "discover", ref |-> NoRef]}
  ELSE IF step = 5 THEN {[kind |-> "create", ref |-> NoRef]} ELSE {}

Mount(step, defaults) ==
  /\ wiz' = [wiz EXCEPT !.step = step,
                        !.configs = IF step = 3 THEN Follow(@, Chosen, defaults) ELSE @]
  /\ form' = BlankForm(IF step = 1 THEN wiz.connection ELSE NoRef)
  /\ requests' = (IF step = 5 THEN {} ELSE Leaving) \union Asks(step)
  /\ job' = IF step = 5 THEN [job EXCEPT !.tables = Payload] ELSE job
  /\ UNCHANGED <<run, profiles>>

GoNext_PastTheEnd ==
  wiz.step \in 1..5 /\ CanProceed /\ \E d \in Defaults : Mount(wiz.step + 1, d)
GoNext == wiz.step \in 1..4 /\ CanProceed /\ \E d \in Defaults : Mount(wiz.step + 1, d)
Back  == wiz.step \in 2..4 /\ \E d \in Defaults : Mount(wiz.step - 1, d)

(* The cross in the header, or "Done".  Only the import goes on. *)
CloseWizard ==
  /\ wiz.step # 0
  /\ wiz' = [Fresh EXCEPT !.step = 0] /\ form' = BlankForm(NoRef) /\ run' = NoRun
  /\ requests' = {q \in requests : q.kind = "create"}
  /\ UNCHANGED <<profiles, job>>

-----------------------------------------------------------------------------
ConnectStep ==
  \/ \E k \in Credentials : EditField(k) \/ PickProfile(k) \/ DeleteProfile(k)
  \/ \E m \in {"saved", "new"} : SetMode(m)
  \/ Test \/ UseHome \/ Save
  \/ TestReturns \/ HomeReturns
  \/ \E ref \in Refs : SaveReturns(ref) \/ LateConnect(ref)

TableStep ==
  \/ Refresh
  \/ \E found \in SUBSET Tables : DiscoverReturns(found)
  \/ \E t \in Tables : Toggle(t)
  \/ \E subset \in SUBSET Tables : SelectAll(subset)
  \/ \E m \in {"link", "copy"} : SetImportMode(m)
  \/ \E t \in Tables, v \in {"incomplete", "complete"} : UpdateConfig(t, v)

RunStep ==
  \/ CreateReturns \/ PollReturns \/ PollFails \/ JobStep

(* The tab shows this page, and goes on showing it. *)
Here == route = "import" /\ UNCHANGED route

Next ==
  /\ Here
  /\ \/ ConnectStep \/ TableStep \/ RunStep
     \/ \E q \in requests : RequestFails(q.kind, q.ref)
     \/ GoNext \/ Back \/ CloseWizard

Spec == Init /\ [][Next]_vars

-----------------------------------------------------------------------------
TypeOK ==
  /\ route \in Routes
  /\ wiz \in [step : 0..5, connection : Refs \union {NoRef}, tested : BOOLEAN,
              discovered : SUBSET Tables, selected : SUBSET Tables,
              configs : [Tables -> Config], mode : {"link", "copy"}, job : JobStates]
  /\ form \in [mode : {"saved", "new"}, inline : Credentials \union {Blank},
               profile : Credentials \union {Blank}, prompt : BOOLEAN]
  /\ run \in [seen : JobStates, polling : BOOLEAN]
  /\ requests \subseteq [kind : {"test", "home", "save", "discover", "create",
                                 "lateTest", "lateSave", "lateDiscover"},
                         ref : Refs \union {NoRef}]
  /\ profiles \subseteq Credentials
  /\ job \in [status : JobStates, tables : SUBSET Tables]

(* A table that is submitted has a complete configuration, also when the   *)
(* list of tables changed behind the review: buildPayload of StepRun.tsx   *)
(* reads the configuration of every table it is handed.                    *)
SubmittedIsConfigured ==
  wiz.step = 5 => \A t \in job.tables : wiz.configs[t] = "complete"
=============================================================================
