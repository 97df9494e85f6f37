----------------------------- MODULE ReconcileFlow -----------------------------
(***************************************************************************)
(* The reconcile dialog of the field collector's web console.              *)
(*                                                                         *)
(*   apps/fc-web/src/components/layer/ReconcileFlowModal.tsx               *)
(*   apps/fc-web/src/components/layer/LayerDataSourcesTab.tsx (the list    *)
(*     that opens it), JobLogDrawer.tsx (the log it opens)                 *)
(*                                                                         *)
(* A dialog previews, asks for confirmation, starts a job on the server    *)
(* and polls it.  Requests outlive the dialog that sent them: their        *)
(* callbacks are closures that run when the answer comes, whatever the     *)
(* page shows by then.  Dialogs are numbered in the order they are opened. *)
(* The server's side (Reconciliation.tla) is reduced to the status of a    *)
(* job, which ends, and which ForceFinalize may end before the worker      *)
(* does.  Pollers of dialogs that are gone have no effect but load and     *)
(* are left out.                                                           *)
(***************************************************************************)
EXTENDS Naturals, FiniteSets, Sequences

CONSTANTS
  Routes,       \* pages a browser tab may be on
  Sources,      \* data sources of the layer that can be reconciled
  NoSource,
  Keys,         \* acknowledgments a precaution may ask for
  Endings,      \* how the worker and ForceFinalize end a job
  MaxOpens,     \* bound: dialogs opened
  MaxJobs       \* bound: jobs started

VARIABLES
  route,
  flow,         \* the dialog on screen: the state its hooks keep
  opens,        \* dialogs opened so far; the last one is the one on screen
  previewing,   \* dialogs whose preview request is out
  applying,     \* apply requests that are out
  forces,       \* jobs whose force-finalize request is out
  jobs          \* the server's jobs

flowVars == <<flow, opens, previewing, applying, forces, jobs>>
vars == <<route, flowVars>>

Terminal == {"success", "partial", "failed", "cancelled"}
Statuses == {"pending", "running"} \union Terminal
Previews == [safe : BOOLEAN, blocked : BOOLEAN, needs : SUBSET Keys]

(* The dialog as it is mounted.  shown is the status in its copy of the    *)
(* job; timers are its intervals, pollRef the one whose handle it still    *)
(* has; answers are those of its polls that are on their way; stuck says   *)
(* that stuckSeconds has reached 10.                                       *)
Fresh(s) ==
  [source |-> s, phase |-> "calculating",
   preview |-> [safe |-> FALSE, blocked |-> FALSE, needs |-> {}], acks |-> {},
   job |-> 0, shown |-> "none", timers |-> {}, pollRef |-> "none", answers |-> {},
   stuck |-> FALSE, cancelling |-> FALSE, log |-> FALSE]
Closed == Fresh(NoSource)
Mounted == flow.source # NoSource

Init ==
  /\ route \in Routes
  /\ flow = Closed /\ opens = 0
  /\ previewing = {} /\ applying = {} /\ forces = {} /\ jobs = << >>

-----------------------------------------------------------------------------
(* What the dialog offers. *)

Shown(cond, controls) == IF cond THEN controls ELSE {}

CanApply == /\ flow.preview.safe /\ ~flow.preview.blocked
            /\ flow.preview.needs \subseteq flow.acks

HeaderControls == Shown(flow.phase # "running", {"close"})
ConfirmBody == Shown(flow.phase = "confirm", flow.preview.needs)
ConfirmFooter ==
  Shown(/\ flow.phase = "confirm" /\ CanApply
        /\ \A a \in applying : a.dialog # opens, {"apply"})
RunningFooter ==
  Shown(flow.phase = "running",
        Shown(~flow.cancelling, {"cancel"})
          \union Shown(flow.stuck /\ flow.job \notin forces, {"force"}))
DoneFooter == Shown(flow.phase = "done" /\ flow.job # 0, {"log"})
LogDrawer == Shown(flow.log /\ flow.job # 0, {"closeLog"})

Controls ==
  IF ~Mounted THEN {}
  ELSE HeaderControls \union ConfirmBody \union ConfirmFooter
         \union RunningFooter \union DoneFooter \union LogDrawer

-----------------------------------------------------------------------------
(* Opening, previewing, closing. *)

(* setReconcilingSource(s): a new dialog, whose first effect previews. *)
OpenFlow(s) ==
  /\ ~Mounted /\ opens < MaxOpens
  /\ flow' = Fresh(s) /\ opens' = opens + 1
  /\ previewing' = previewing \union {opens + 1}
  /\ UNCHANGED <<applying, forces, jobs>>

CloseFlow ==
  /\ "close" \in Controls
  /\ flow' = Closed
  /\ UNCHANGED <<opens, previewing, applying, forces, jobs>>

PreviewReturns(d, p) ==
  /\ d \in previewing /\ previewing' = previewing \ {d}
  /\ flow' = IF Mounted /\ d = opens
             THEN [flow EXCEPT !.preview = p, !.acks = {}, !.phase = "confirm"]
             ELSE flow
  /\ UNCHANGED <<opens, applying, forces, jobs>>

(* onError calls the onClose of the tab, which closes the dialog on        *)
(* screen, also when the request was of one closed before.                 *)
PreviewFails(d) ==
  /\ d \in previewing /\ previewing' = previewing \ {d}
  /\ flow' = Closed
  /\ UNCHANGED <<opens, applying, forces, jobs>>

Tick(k) ==
  /\ k \in Controls \intersect Keys
  /\ flow' = [flow EXCEPT !.acks = IF k \in @ THEN @ \ {k} ELSE @ \union {k}]
  /\ UNCHANGED <<opens, previewing, applying, forces, jobs>>

-----------------------------------------------------------------------------
(* Applying. *)

Apply ==
  /\ "apply" \in Controls
  /\ Len(jobs) + Cardinality(applying) < MaxJobs
  /\ applying' = applying \union
                   {[dialog |-> opens, source |-> flow.source, acks |-> flow.acks]}
  /\ UNCHANGED <<flow, opens, previewing, forces, jobs>>

(* Once phase is "running" both polling effects run.  Each polls at once   *)
(* and starts an interval; the handle of the second replaces that of the   *)
(* first in pollRef.                                                       *)
StartsPolling_Once(dlg) ==
  [dlg EXCEPT !.timers = {"second"}, !.pollRef = "second",
              !.answers = {"pending"}, !.stuck = FALSE]
StartsPolling(dlg) ==
  [dlg EXCEPT !.timers = {"first", "second"}, !.pollRef = "second",
              !.answers = {"pending"}, !.stuck = FALSE]

Track_AnyDialog(a, id) ==
  IF Mounted THEN StartsPolling([flow EXCEPT !.job = id, !.phase = "running"]) ELSE flow
Track(a, id) ==
  IF Mounted /\ a.dialog = opens
  THEN StartsPolling([flow EXCEPT !.job = id, !.phase = "running"]) ELSE flow

(* The server has queued a job.  Its answer may be lost. *)
ApplyReturns(a, lost) ==
  /\ a \in applying /\ applying' = applying \ {a}
  /\ jobs' = Append(jobs, [source |-> a.source, status |-> "pending", working |-> TRUE])
  /\ flow' = IF lost THEN flow ELSE Track(a, Len(jobs'))
  /\ UNCHANGED <<opens, previewing, forces>>

(* Precautions are checked anew by the server. *)
ApplyRefused(a) ==
  /\ a \in applying /\ applying' = applying \ {a}
  /\ UNCHANGED <<flow, opens, previewing, forces, jobs>>

-----------------------------------------------------------------------------
(* Running. *)

Poll(t) ==
  /\ t \in flow.timers
  /\ flow' = [flow EXCEPT !.answers = @ \union {jobs[flow.job].status}]
  /\ UNCHANGED <<opens, previewing, applying, forces, jobs>>

(* The end of a job stops the interval pollRef knows, and no other. *)
EndsPolling(dlg) ==
  [dlg EXCEPT !.timers = @ \ {dlg.pollRef}, !.pollRef = "none", !.phase = "done"]

PollReturns(st) ==
  /\ st \in flow.answers
  /\ LET dlg == [flow EXCEPT !.answers = @ \ {st}, !.shown = st]
     IN  flow' = IF st \in Terminal THEN EndsPolling(dlg) ELSE dlg
  /\ UNCHANGED <<opens, previewing, applying, forces, jobs>>

PollFails(st) ==
  /\ st \in flow.answers
  /\ flow' = [flow EXCEPT !.answers = @ \ {st}]
  /\ UNCHANGED <<opens, previewing, applying, forces, jobs>>

(* updateStuck, once a second. *)
RunsLong ==
  /\ flow.phase = "running" /\ ~flow.stuck
  /\ flow' = [flow EXCEPT !.stuck = TRUE]
  /\ UNCHANGED <<opens, previewing, applying, forces, jobs>>

(* The server refuses every cancellation (see Reconciliation). *)
Cancel ==
  /\ Mounted /\ ("cancel" \in Controls \/ flow.cancelling)
  /\ flow' = [flow EXCEPT !.cancelling = ~@]
  /\ UNCHANGED <<opens, previewing, applying, forces, jobs>>

ForceStop ==
  /\ "force" \in Controls
  /\ forces' = forces \union {flow.job}
  /\ UNCHANGED <<flow, opens, previewing, applying, jobs>>

(* ForceFinalize of the server; the worker is not stopped. *)
ForceReturns(j, st) ==
  /\ j \in forces /\ forces' = forces \ {j}
  /\ jobs' = IF jobs[j].status \in Terminal THEN jobs
             ELSE [jobs EXCEPT ![j].status = st]
  /\ UNCHANGED <<flow, opens, previewing, applying>>

ToggleLog ==
  /\ \/ "log" \in Controls /\ ~flow.log
     \/ "closeLog" \in Controls
  /\ flow' = [flow EXCEPT !.log = ~@]
  /\ UNCHANGED <<opens, previewing, applying, forces, jobs>>

(* The worker takes a job, and ends it whatever its status is by then. *)
WorkerStep(j) ==
  /\ j \in DOMAIN jobs /\ jobs[j].working
  /\ \/ /\ jobs[j].status = "pending"
        /\ jobs' = [jobs EXCEPT ![j].status = "running"]
     \/ /\ jobs[j].status # "pending"
        /\ \E st \in Endings :
             jobs' = [jobs EXCEPT ![j].status = st, ![j].working = FALSE]
  /\ UNCHANGED <<flow, opens, previewing, applying, forces>>

-----------------------------------------------------------------------------
(* The tab shows this page, and goes on showing it. *)
Here == route = "reconcile" /\ UNCHANGED route

Next ==
  /\ Here
  /\ \/ \E s \in Sources : OpenFlow(s)
     \/ CloseFlow
     \/ \E k \in Keys : Tick(k)
     \/ Apply
     \/ Cancel
     \/ ForceStop
     \/ ToggleLog
     \/ RunsLong
     \/ \E t \in {"first", "second"} : Poll(t)
     \/ \E d \in previewing : PreviewFails(d)
     \/ \E d \in previewing, p \in Previews : PreviewReturns(d, p)
     \/ \E a \in applying : ApplyRefused(a)
     \/ \E a \in applying, lost \in BOOLEAN : ApplyReturns(a, lost)
     \/ \E j \in forces, st \in Endings : ForceReturns(j, st)
     \/ \E j \in DOMAIN jobs : WorkerStep(j)
     \/ \E st \in Statuses : PollReturns(st)
     \/ \E st \in Statuses : PollFails(st)

(* Intervals fire, a job that is worked on ends (JobsEnd of                *)
(* Reconciliation), and of polls repeated for ever not all fail.           *)
Fairness ==
  /\ WF_vars(Here /\ \E t \in {"first", "second"} : Poll(t))
  /\ WF_vars(Here /\ \E j \in DOMAIN jobs : WorkerStep(j))
  /\ SF_vars(Here /\ \E st \in Statuses : PollReturns(st))

Spec == Init /\ [][Next]_vars /\ Fairness

-----------------------------------------------------------------------------
Jobs == [source : Sources, status : Statuses, working : BOOLEAN]
FlowStates ==
  [source : Sources \union {NoSource},
   phase : {"calculating", "confirm", "running", "done"},
   preview : Previews, acks : SUBSET Keys, job : Nat,
   shown : Statuses \union {"none"}, timers : SUBSET {"first", "second"},
   pollRef : {"first", "second", "none"}, answers : SUBSET Statuses,
   stuck : BOOLEAN, cancelling : BOOLEAN, log : BOOLEAN]

TypeOK ==
  /\ route \in Routes
  /\ flow \in FlowStates /\ opens \in Nat
  /\ previewing \subseteq 1..opens
  /\ applying \subseteq [dialog : Nat, source : Sources, acks : SUBSET Keys]
  /\ forces \subseteq DOMAIN jobs
  /\ jobs \in Seq(Jobs)

(* A dialog follows a job of the source in its title: no answer to a       *)
(* dialog that was closed reaches the next one (ReconcileFlowModal.tsx     *)
(* applyMutation and the polls).                                           *)
JobIsOfTheSource == flow.job # 0 => jobs[flow.job].source = flow.source

(* A dialog that follows a job comes to show how it ended, also when       *)
(* answers of polls overtake each other or an administrator's force-stop   *)
(* comes before the worker's own verdict; or it is closed.                 *)
Tells == ~Mounted \/ (flow.phase = "done" /\ flow.shown = jobs[flow.job].status)
RunsAreTold == (flow.job # 0) ~> Tells
=============================================================================
