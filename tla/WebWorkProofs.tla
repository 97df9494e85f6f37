----------------------------- MODULE WebWorkProofs -----------------------------
(***************************************************************************)
(* Proofs about the pages composed in MCWebWork, for every value of the    *)
(* constants: of each page by itself, and then of the composition, whose   *)
(* steps change one page and leave the others as they are.                 *)
(***************************************************************************)
EXTENDS MCWebWork, FiniteSetTheorems, SequenceTheorems, WellFoundedInduction, TLAPS

------------------------------------------------------------------------------
(* The reconciliation of a source: ReconcileFlow.                          *)

FlowConstants ==
  /\ NoSource \notin Sources
  /\ Endings \subseteq {"success", "partial", "failed", "cancelled"}
  /\ Keys \intersect {"close", "apply", "cancel", "force", "log", "closeLog"} = {}

(* The jobs of the server, and the one a dialog follows. *)
JobsTyped == jobs \in Seq(Reconcile!Jobs)
Follows_AJob ==
  /\ flow.job \in 0..Len(jobs)
  /\ flow.phase = "running" \/ flow.timers # {} => flow.job # 0

(* A request that is out is of a dialog that was opened, and names what the *)
(* dialog on screen names if it is of that one.                            *)
RequestsTyped ==
  applying \subseteq [dialog : Nat, source : Sources, acks : SUBSET Keys]
RequestsAreOfTheirDialog ==
  \A a \in applying :
    a.dialog <= opens /\ (Reconcile!Mounted /\ a.dialog = opens => a.source = flow.source)

FlowInv ==
  /\ route \in Routes
  /\ flow \in Reconcile!FlowStates /\ opens \in Nat
  /\ previewing \subseteq 1..opens /\ forces \subseteq 1..Len(jobs)
  /\ JobsTyped /\ Follows_AJob /\ RequestsTyped /\ RequestsAreOfTheirDialog
  /\ Reconcile!JobIsOfTheSource

LEMMA JobTyped ==
  ASSUME JobsTyped, NEW j \in 1..Len(jobs)
  PROVE  jobs[j] \in Reconcile!Jobs
  BY ElementOfSeq DEF JobsTyped

LEMMA FlowInvIsEnough == FlowInv => Reconcile!TypeOK /\ Reconcile!JobIsOfTheSource
  <1> SUFFICES ASSUME FlowInv
               PROVE  Reconcile!TypeOK /\ Reconcile!JobIsOfTheSource
    OBVIOUS
  <1>1. DOMAIN jobs = 1..Len(jobs)
    BY LenProperties DEF FlowInv, JobsTyped
  <1> QED
    BY <1>1 DEF FlowInv, JobsTyped, RequestsTyped, Reconcile!TypeOK

LEMMA FreshTyped ==
  ASSUME NEW s \in Sources \union {NoSource}
  PROVE  /\ Reconcile!Fresh(s) \in Reconcile!FlowStates
         /\ Reconcile!Fresh(s).job = 0 /\ Reconcile!Fresh(s).timers = {}
         /\ Reconcile!Fresh(s).phase = "calculating" /\ Reconcile!Fresh(s).source = s
  BY DEF Reconcile!Fresh, Reconcile!FlowStates, Reconcile!Previews, Reconcile!Statuses,
     Reconcile!Terminal

LEMMA FlowInitial == Reconcile!Init => FlowInv
  <1> SUFFICES ASSUME Reconcile!Init
               PROVE  FlowInv
    OBVIOUS
  <1>1. jobs \in Seq(Reconcile!Jobs) /\ Len(jobs) = 0
    BY DEF Reconcile!Init
  <1>2. /\ flow \in Reconcile!FlowStates
        /\ flow.job = 0 /\ flow.timers = {} /\ flow.phase = "calculating"
    BY FreshTyped DEF Reconcile!Init, Reconcile!Closed
  <1> QED
    BY <1>1, <1>2 DEF Reconcile!Init, FlowInv, JobsTyped, Follows_AJob, RequestsTyped,
       RequestsAreOfTheirDialog, Reconcile!JobIsOfTheSource

(* The dialog changes, its job and its source stay. *)
LEMMA DialogChanges ==
  ASSUME FlowInv, flow' \in Reconcile!FlowStates,
         flow'.source = flow.source, flow'.job = flow.job,
         flow'.phase = "running" => flow.phase = "running",
         flow'.timers \subseteq flow.timers,
         UNCHANGED <<route, opens, applying, forces, jobs>>, previewing' \subseteq previewing
  PROVE  FlowInv'
  BY DEF FlowInv, JobsTyped, Follows_AJob, RequestsTyped, RequestsAreOfTheirDialog,
     Reconcile!Mounted, Reconcile!JobIsOfTheSource

LEMMA DialogCloses ==
  ASSUME FlowConstants, FlowInv, flow' = Reconcile!Closed,
         UNCHANGED <<route, opens, applying, forces, jobs>>, previewing' \subseteq previewing
  PROVE  FlowInv'
  <1>1. /\ flow' \in Reconcile!FlowStates /\ flow'.job = 0 /\ flow'.timers = {}
        /\ flow'.phase = "calculating" /\ flow'.source = NoSource
    BY FreshTyped DEF Reconcile!Closed
  <1> QED
    BY <1>1 DEF FlowInv, JobsTyped, Follows_AJob, RequestsTyped, RequestsAreOfTheirDialog,
       Reconcile!Mounted, Reconcile!JobIsOfTheSource

LEMMA OpenFlowKeeps ==
  ASSUME FlowInv, NEW s \in Sources, Reconcile!OpenFlow(s), UNCHANGED route
  PROVE  FlowInv'
  <1>1. /\ flow' \in Reconcile!FlowStates /\ flow'.job = 0 /\ flow'.timers = {}
        /\ flow'.phase = "calculating" /\ flow'.source = s
    BY FreshTyped DEF Reconcile!OpenFlow
  <1>2. opens' = opens + 1 /\ opens \in Nat /\ previewing' \subseteq 1..opens'
    BY DEF Reconcile!OpenFlow, FlowInv
  <1>3. RequestsAreOfTheirDialog'
    <2> SUFFICES ASSUME NEW a \in applying
                 PROVE  a.dialog <= opens' /\ a.dialog # opens'
      BY DEF RequestsAreOfTheirDialog, Reconcile!OpenFlow
    <2>1. a.dialog \in Nat /\ a.dialog <= opens
      BY DEF FlowInv, RequestsTyped, RequestsAreOfTheirDialog
    <2> QED
      BY <1>2, <2>1
  <1> QED
    BY <1>1, <1>2, <1>3 DEF Reconcile!OpenFlow, FlowInv, JobsTyped, Follows_AJob, RequestsTyped,
       Reconcile!JobIsOfTheSource

LEMMA PreviewKeeps ==
  ASSUME FlowInv, NEW d \in previewing, NEW p \in Reconcile!Previews,
         Reconcile!PreviewReturns(d, p), UNCHANGED route
  PROVE  FlowInv'
  <1> DEFINE x == [flow EXCEPT !.preview = p, !.acks = {}, !.phase = "confirm"]
  <1>1. /\ x \in Reconcile!FlowStates
        /\ x.source = flow.source /\ x.job = flow.job /\ x.timers = flow.timers
        /\ x.phase = "confirm"
    BY DEF FlowInv, Reconcile!FlowStates
  <1>2. flow' = x \/ flow' = flow
    BY DEF Reconcile!PreviewReturns
  <1> HIDE DEF x
  <1>3. flow \in Reconcile!FlowStates
    BY DEF FlowInv
  <1> QED
    BY <1>1, <1>2, <1>3, DialogChanges DEF Reconcile!PreviewReturns

LEMMA TickKeeps ==
  ASSUME FlowInv, NEW k \in Keys, Reconcile!Tick(k), UNCHANGED route
  PROVE  FlowInv'
  <1>0. flow \in Reconcile!FlowStates
    BY DEF FlowInv
  <1>1. PICK ks \in SUBSET Keys :
          ks = IF k \in flow.acks THEN flow.acks \ {k} ELSE flow.acks \union {k}
    BY <1>0 DEF Reconcile!FlowStates
  <1>2. flow' = [flow EXCEPT !.acks = ks]
    BY <1>1 DEF Reconcile!Tick
  <1>3. /\ flow' \in Reconcile!FlowStates
        /\ flow'.source = flow.source /\ flow'.job = flow.job /\ flow'.timers = flow.timers
        /\ flow'.phase = flow.phase
    BY <1>0, <1>2 DEF Reconcile!FlowStates
  <1> QED
    BY <1>3, DialogChanges DEF Reconcile!Tick

LEMMA ApplyKeeps ==
  ASSUME FlowConstants, FlowInv, Reconcile!Apply, UNCHANGED route
  PROVE  FlowInv'
  <1>0. Reconcile!Mounted
    BY DEF Reconcile!Apply, Reconcile!Controls
  <1>1. PICK new : new = [dialog |-> opens, source |-> flow.source, acks |-> flow.acks]
    OBVIOUS
  <1>2. new \in [dialog : Nat, source : Sources, acks : SUBSET Keys]
    BY <1>0, <1>1 DEF FlowInv, Reconcile!FlowStates, Reconcile!Mounted
  <1>3. new.dialog = opens /\ new.source = flow.source
    BY <1>1
  <1>4. applying' = applying \union {new}
    BY <1>1 DEF Reconcile!Apply
  <1>5. RequestsTyped' /\ RequestsAreOfTheirDialog'
    BY <1>2, <1>3, <1>4 DEF Reconcile!Apply, FlowInv, RequestsTyped, RequestsAreOfTheirDialog,
       Reconcile!Mounted
  <1> QED
    BY <1>5 DEF Reconcile!Apply, FlowInv, JobsTyped, Follows_AJob, Reconcile!JobIsOfTheSource

(* A job is queued, and followed by the dialog that is still there. *)
LEMMA ApplyReturnsKeeps ==
  ASSUME FlowInv, NEW a \in applying, NEW lost \in BOOLEAN, Reconcile!ApplyReturns(a, lost),
         UNCHANGED route
  PROVE  FlowInv'
  <1>0. flow \in Reconcile!FlowStates /\ a.source \in Sources
    BY DEF FlowInv, RequestsTyped
  <1>1. PICK new \in Reconcile!Jobs :
          /\ new = [source |-> a.source, status |-> "pending", working |-> TRUE]
          /\ new.source = a.source
    <2>1. [source |-> a.source, status |-> "pending", working |-> TRUE] \in Reconcile!Jobs
      BY <1>0 DEF Reconcile!Jobs, Reconcile!Statuses
    <2> QED
      BY <2>1
  <1>2. jobs \in Seq(Reconcile!Jobs) /\ jobs' = Append(jobs, new)
    BY <1>1 DEF FlowInv, JobsTyped, Reconcile!ApplyReturns
  <1>3. /\ jobs' \in Seq(Reconcile!Jobs) /\ Len(jobs') = Len(jobs) + 1 /\ Len(jobs) \in Nat
        /\ jobs'[Len(jobs')].source = a.source
        /\ \A j \in 1..Len(jobs) : jobs'[j] = jobs[j]
    BY <1>1, <1>2, AppendProperties
  <1>4. \/ flow' = flow
        \/ /\ Reconcile!Mounted /\ a.dialog = opens
           /\ flow' = Reconcile!Track(a, Len(jobs'))
    BY DEF Reconcile!ApplyReturns, Reconcile!Track
  <1>5. CASE flow' = flow
    BY <1>3, <1>5 DEF Reconcile!ApplyReturns, FlowInv, JobsTyped, Follows_AJob, RequestsTyped,
       RequestsAreOfTheirDialog, Reconcile!Mounted, Reconcile!JobIsOfTheSource
  <1>6. CASE Reconcile!Mounted /\ a.dialog = opens /\ flow' = Reconcile!Track(a, Len(jobs'))
    <2>1. PICK n \in Nat : n = Len(jobs')
      BY <1>3
    <2>2. PICK y \in Reconcile!FlowStates :
            /\ y = [flow EXCEPT !.job = n, !.phase = "running"]
            /\ y.source = flow.source /\ y.job = n /\ y.phase = "running"
      <3>1. /\ [flow EXCEPT !.job = n, !.phase = "running"] \in Reconcile!FlowStates
            /\ [flow EXCEPT !.job = n, !.phase = "running"].source = flow.source
            /\ [flow EXCEPT !.job = n, !.phase = "running"].job = n
            /\ [flow EXCEPT !.job = n, !.phase = "running"].phase = "running"
        BY <1>0 DEF Reconcile!FlowStates
      <3> QED
        BY <3>1
    <2>3. flow' = [y EXCEPT !.timers = {"first", "second"}, !.pollRef = "second",
                            !.answers = {"pending"}, !.stuck = FALSE]
      BY <1>6, <2>1, <2>2 DEF Reconcile!Track, Reconcile!StartsPolling
    <2>4. /\ flow' \in Reconcile!FlowStates
          /\ flow'.source = flow.source /\ flow'.job = n /\ flow'.phase = "running"
      BY <2>2, <2>3 DEF Reconcile!FlowStates, Reconcile!Statuses
    <2>5. a.source = flow.source
      BY <1>6 DEF FlowInv, RequestsAreOfTheirDialog
    <2>6. Reconcile!JobIsOfTheSource'
      BY <1>3, <2>1, <2>4, <2>5 DEF Reconcile!JobIsOfTheSource
    <2>7. RequestsAreOfTheirDialog' /\ RequestsTyped'
      BY <2>4 DEF Reconcile!ApplyReturns, FlowInv, RequestsTyped, RequestsAreOfTheirDialog,
         Reconcile!Mounted
    <2> QED
      BY <1>3, <2>1, <2>4, <2>6, <2>7 DEF Reconcile!ApplyReturns, FlowInv, JobsTyped, Follows_AJob
  <1> QED
    BY <1>4, <1>5, <1>6

(* The dialog takes note of an answer, or of the time. *)
LEMMA PollingKeeps ==
  ASSUME FlowInv, UNCHANGED route,
         \/ \E t \in {"first", "second"} : Reconcile!Poll(t)
         \/ \E st \in Reconcile!Statuses : Reconcile!PollReturns(st) \/ Reconcile!PollFails(st)
         \/ Reconcile!RunsLong \/ Reconcile!Cancel \/ Reconcile!ToggleLog
  PROVE  FlowInv'
  <1>0. flow \in Reconcile!FlowStates
    BY DEF FlowInv
  <1> DEFINE Kept == /\ flow' \in Reconcile!FlowStates
                     /\ flow'.source = flow.source /\ flow'.job = flow.job
                     /\ flow'.phase = "running" => flow.phase = "running"
                     /\ flow'.timers \subseteq flow.timers
  <1>1. ASSUME NEW t \in {"first", "second"}, Reconcile!Poll(t)
        PROVE  Kept
    <2>1. flow.job \in 1..Len(jobs)
      BY <1>0, <1>1 DEF FlowInv, Follows_AJob, Reconcile!Poll
    <2>2. PICK st \in Reconcile!Statuses : st = jobs[flow.job].status
      <3>1. jobs[flow.job] \in Reconcile!Jobs
        BY <2>1, JobTyped DEF FlowInv
      <3> QED
        BY <3>1 DEF Reconcile!Jobs
    <2>3. flow' = [flow EXCEPT !.answers = @ \union {st}]
      BY <1>1, <2>2 DEF Reconcile!Poll
    <2> QED
      BY <1>0, <2>3 DEF Reconcile!FlowStates
  <1>2. ASSUME NEW st \in Reconcile!Statuses, Reconcile!PollReturns(st)
        PROVE  Kept
    <2>1. PICK y \in Reconcile!FlowStates :
            /\ y = [flow EXCEPT !.answers = @ \ {st}, !.shown = st]
            /\ y.source = flow.source /\ y.job = flow.job /\ y.phase = flow.phase
            /\ y.timers = flow.timers
      <3>1. [flow EXCEPT !.answers = @ \ {st}, !.shown = st] \in Reconcile!FlowStates
        BY <1>0 DEF Reconcile!FlowStates
      <3>2. /\ [flow EXCEPT !.answers = @ \ {st}, !.shown = st].source = flow.source
            /\ [flow EXCEPT !.answers = @ \ {st}, !.shown = st].job = flow.job
            /\ [flow EXCEPT !.answers = @ \ {st}, !.shown = st].phase = flow.phase
            /\ [flow EXCEPT !.answers = @ \ {st}, !.shown = st].timers = flow.timers
        BY <1>0 DEF Reconcile!FlowStates
      <3> QED
        BY <3>1, <3>2
    <2>2. flow' = y \/ flow' = Reconcile!EndsPolling(y)
      BY <1>2, <2>1 DEF Reconcile!PollReturns
    <2>3. CASE flow' = y
      BY <2>1, <2>3
    <2>4. CASE flow' = Reconcile!EndsPolling(y)
      <3>1. /\ flow' \in Reconcile!FlowStates
            /\ flow'.source = y.source /\ flow'.job = y.job /\ flow'.phase = "done"
            /\ flow'.timers \subseteq y.timers
        BY <2>1, <2>4 DEF Reconcile!EndsPolling, Reconcile!FlowStates
      <3> QED
        BY <2>1, <3>1
    <2> QED
      BY <2>2, <2>3, <2>4
  <1>3. ASSUME NEW st \in Reconcile!Statuses, Reconcile!PollFails(st)
        PROVE  Kept
    BY <1>0, <1>3 DEF Reconcile!PollFails, Reconcile!FlowStates
  <1>4. CASE Reconcile!RunsLong
    <2>1. Kept
      BY <1>0, <1>4 DEF Reconcile!RunsLong, Reconcile!FlowStates
    <2> QED
      BY <1>4, <2>1, DialogChanges DEF Reconcile!RunsLong
  <1>5. CASE Reconcile!Cancel \/ Reconcile!ToggleLog
    <2>1. Kept
      BY <1>0, <1>5 DEF Reconcile!Cancel, Reconcile!ToggleLog, Reconcile!FlowStates
    <2> QED
      BY <1>5, <2>1, DialogChanges DEF Reconcile!Cancel, Reconcile!ToggleLog
  <1>6. CASE \/ \E t \in {"first", "second"} : Reconcile!Poll(t)
             \/ \E st \in Reconcile!Statuses : Reconcile!PollReturns(st) \/ Reconcile!PollFails(st)
    <2>1. Kept
      BY <1>1, <1>2, <1>3, <1>6
    <2> HIDE DEF Kept
    <2>2. UNCHANGED <<opens, previewing, applying, forces, jobs>>
      BY <1>6 DEF Reconcile!Poll, Reconcile!PollReturns, Reconcile!PollFails
    <2> USE DEF Kept
    <2> QED
      BY <2>1, <2>2, DialogChanges
  <1> QED
    BY <1>4, <1>5, <1>6

(* A job goes on: its source stays. *)
LEMMA JobGoesOn ==
  ASSUME FlowInv, NEW j \in 1..Len(jobs), NEW new \in Reconcile!Jobs,
         new.source = jobs[j].source, jobs' = [jobs EXCEPT ![j] = new],
         UNCHANGED <<route, flow, opens, previewing, applying>>, forces' \subseteq forces
  PROVE  FlowInv'
  <1>1. jobs \in Seq(Reconcile!Jobs)
    BY DEF FlowInv, JobsTyped
  <1>2. /\ jobs' \in Seq(Reconcile!Jobs) /\ Len(jobs') = Len(jobs)
        /\ \A i \in 1..Len(jobs) : jobs'[i].source = jobs[i].source
    BY <1>1, ExceptSeq
  <1> QED
    BY <1>2 DEF FlowInv, JobsTyped, Follows_AJob, RequestsTyped, RequestsAreOfTheirDialog,
       Reconcile!Mounted, Reconcile!JobIsOfTheSource

LEMMA ServerKeepsFlow ==
  ASSUME FlowConstants, FlowInv, UNCHANGED route,
         \/ \E j \in forces, st \in Endings : Reconcile!ForceReturns(j, st)
         \/ \E j \in DOMAIN jobs : Reconcile!WorkerStep(j)
  PROVE  FlowInv'
  <1>0. jobs \in Seq(Reconcile!Jobs) /\ DOMAIN jobs = 1..Len(jobs)
    BY LenProperties DEF FlowInv, JobsTyped
  <1>1. ASSUME NEW j \in 1..Len(jobs), NEW st \in Reconcile!Statuses, NEW w \in BOOLEAN,
               UNCHANGED <<flow, opens, previewing, applying>>, forces' \subseteq forces,
               \/ jobs' = [jobs EXCEPT ![j].status = st]
               \/ jobs' = [jobs EXCEPT ![j].status = st, ![j].working = w]
        PROVE  FlowInv'
    <2>1. PICK old \in Reconcile!Jobs : old = jobs[j]
      BY JobTyped DEF FlowInv
    <2>2. PICK new \in Reconcile!Jobs :
            /\ new.source = old.source
            /\ \/ new = [old EXCEPT !.status = st] /\ jobs' = [jobs EXCEPT ![j] = new]
               \/ new = [old EXCEPT !.status = st, !.working = w]
                  /\ jobs' = [jobs EXCEPT ![j] = new]
      <3>1. /\ [old EXCEPT !.status = st] \in Reconcile!Jobs
            /\ [old EXCEPT !.status = st, !.working = w] \in Reconcile!Jobs
            /\ [old EXCEPT !.status = st].source = old.source
            /\ [old EXCEPT !.status = st, !.working = w].source = old.source
        BY DEF Reconcile!Jobs
      <3>2. \/ jobs' = [jobs EXCEPT ![j] = [old EXCEPT !.status = st]]
            \/ jobs' = [jobs EXCEPT ![j] = [old EXCEPT !.status = st, !.working = w]]
        BY <1>0, <1>1, <2>1
      <3> QED
        BY <3>1, <3>2
    <2> QED
      BY <1>1, <2>1, <2>2, JobGoesOn
  <1>2. ASSUME NEW j \in forces, NEW st \in Endings, Reconcile!ForceReturns(j, st)
        PROVE  FlowInv'
    <2>1. j \in 1..Len(jobs) /\ st \in Reconcile!Statuses
      BY DEF FlowConstants, FlowInv, Reconcile!Statuses, Reconcile!Terminal
    <2>2. CASE jobs' = [jobs EXCEPT ![j].status = st]
      BY <1>1, <1>2, <2>1, <2>2 DEF Reconcile!ForceReturns
    <2>3. CASE jobs' = jobs
      BY <1>2, <2>3 DEF Reconcile!ForceReturns, FlowInv, JobsTyped, Follows_AJob, RequestsTyped,
         RequestsAreOfTheirDialog, Reconcile!Mounted, Reconcile!JobIsOfTheSource
    <2> QED
      BY <1>2, <2>2, <2>3 DEF Reconcile!ForceReturns
  <1>3. ASSUME NEW j \in DOMAIN jobs, Reconcile!WorkerStep(j)
        PROVE  FlowInv'
    <2>1. PICK st \in Reconcile!Statuses :
            \/ jobs' = [jobs EXCEPT ![j].status = st]
            \/ jobs' = [jobs EXCEPT ![j].status = st, ![j].working = FALSE]
      BY <1>3 DEF Reconcile!WorkerStep, FlowConstants, Reconcile!Statuses, Reconcile!Terminal
    <2> QED
      BY <1>0, <1>1, <1>3, <2>1 DEF Reconcile!WorkerStep
  <1> QED
    BY <1>2, <1>3

LEMMA RequestDropped ==
  ASSUME FlowInv, UNCHANGED <<route, flow, opens, previewing, jobs>>,
         applying' \subseteq applying, forces' \subseteq forces \union {flow.job},
         flow.job \in 1..Len(jobs) \/ forces' \subseteq forces
  PROVE  FlowInv'
  BY DEF FlowInv, JobsTyped, Follows_AJob, RequestsTyped, RequestsAreOfTheirDialog,
     Reconcile!Mounted, Reconcile!JobIsOfTheSource

LEMMA FlowStepKeeps ==
  ASSUME FlowConstants, FlowInv, [Reconcile!Next]_Reconcile!vars
  PROVE  FlowInv'
  <1>1. CASE UNCHANGED Reconcile!vars
    BY <1>1 DEF Reconcile!vars, Reconcile!flowVars, FlowInv, JobsTyped, Follows_AJob, RequestsTyped,
       RequestsAreOfTheirDialog, Reconcile!Mounted, Reconcile!JobIsOfTheSource
  <1>2. CASE Reconcile!Next
    <2>0. UNCHANGED route
      BY <1>2 DEF Reconcile!Next, Reconcile!Here
    <2>1. CASE Reconcile!CloseFlow \/ \E d \in previewing : Reconcile!PreviewFails(d)
      BY <2>0, <2>1, DialogCloses DEF Reconcile!CloseFlow, Reconcile!PreviewFails
    <2>2. CASE Reconcile!ForceStop \/ \E a \in applying : Reconcile!ApplyRefused(a)
      <3>1. ASSUME Reconcile!ForceStop
            PROVE  flow.job \in 1..Len(jobs)
        <4>0. flow.preview.needs \subseteq Keys
          BY DEF FlowInv, Reconcile!FlowStates, Reconcile!Previews
        <4>1. "force" \in Reconcile!RunningFooter
          BY <3>1, <4>0 DEF FlowConstants, Reconcile!ForceStop, Reconcile!Controls,
             Reconcile!HeaderControls, Reconcile!ConfirmBody, Reconcile!ConfirmFooter,
             Reconcile!DoneFooter, Reconcile!LogDrawer, Reconcile!Shown
        <4>2. flow.phase = "running"
          BY <4>1 DEF Reconcile!RunningFooter, Reconcile!Shown
        <4>3. Len(jobs) \in Nat
          BY LenProperties DEF FlowInv, JobsTyped
        <4> QED
          BY <4>2, <4>3 DEF FlowInv, Follows_AJob
      <3> QED
        BY <2>0, <2>2, <3>1, RequestDropped DEF Reconcile!ForceStop, Reconcile!ApplyRefused
    <2> QED
      BY <1>2, <2>0, <2>1, <2>2, OpenFlowKeeps, PreviewKeeps, TickKeeps, ApplyKeeps,
         ApplyReturnsKeeps, PollingKeeps, ServerKeepsFlow DEF Reconcile!Next
  <1> QED
    BY <1>1, <1>2

------------------------------------------------------------------------------
(* The conflicts of a layer: ConflictResolution.                           *)

ConflictConstants == Conflicts \subseteq Nat /\ MaxForeign \in Nat

LEMMA SmallestIsOfThem ==
  ASSUME NEW S \in SUBSET Nat, S # {}
  PROVE  Conflict!Smallest(S) \in S
  <1> DEFINE R == OpToRel(<, Nat)
  <1>1. \A x, y \in Nat : x < y => <<x, y>> \in R
    BY DEF OpToRel
  <1>2. IsWellFoundedOn(R, Nat)
    BY NatLessThanWellFounded
  <1> HIDE DEF R
  <1>3. PICK x \in S : \A y \in S : ~ (<<y, x>> \in R)
    BY <1>2, WFMin
  <1>4. ASSUME NEW y \in S
        PROVE  x <= y
    <2>1. x \in Nat /\ y \in Nat /\ ~(y < x)
      BY <1>1, <1>3
    <2> QED
      BY <2>1
  <1> QED
    BY <1>4 DEF Conflict!Smallest

LEMMA SelectedTyped ==
  ASSUME ConflictConstants, Conflict!TypeOK
  PROVE  Conflict!Selected \in Conflict!ConflictIds
  <1>1. listed # {} => Conflict!Smallest(listed) \in Conflicts
    BY SmallestIsOfThem DEF ConflictConstants, Conflict!TypeOK
  <1> QED
    BY <1>1 DEF Conflict!Selected, Conflict!ConflictIds, Conflict!TypeOK

LEMMA NoRulingTyped ==
  /\ Conflict!NoRequest \in [conflict : Conflict!ConflictIds,
                             resolution : Conflict!Resolutions \union {"none"},
                             doc : Conflict!Docs]
  /\ Conflict!NoMerge \in [picks : Conflict!Docs, showAll : BOOLEAN]
  <1>1. [f \in Fields |-> "source"] \in Conflict!Docs
    BY DEF Conflict!Docs, Conflict!Picks
  <1>2. Conflict!NoRequest.doc = [f \in Fields |-> "source"]
    BY DEF Conflict!NoRequest
  <1> QED
    BY <1>1, <1>2 DEF Conflict!NoRequest, Conflict!NoMerge, Conflict!ConflictIds

(* A ruling that is out is of a conflict. *)
RulesOnOne == resolving # Conflict!NoRequest => resolving.conflict \in Conflicts
ConflictInv == Conflict!TypeOK /\ RulesOnOne

LEMMA ConflictInitial == ConflictConstants /\ Conflict!Init => ConflictInv
  <1> SUFFICES ASSUME ConflictConstants, Conflict!Init
               PROVE  ConflictInv
    OBVIOUS
  <1>1. tab \in [selected : Conflict!ConflictIds, manual : BOOLEAN]
    BY DEF Conflict!Init, Conflict!ConflictIds
  <1> QED
    BY <1>1, NoRulingTyped DEF ConflictConstants, Conflict!Init, Conflict!TypeOK, ConflictInv,
       RulesOnOne

(* The tab and its editor. *)
LEMMA TabKeeps ==
  ASSUME ConflictConstants, ConflictInv, UNCHANGED route,
         \/ \E c \in Conflicts : Conflict!SelectConflict(c)
         \/ Conflict!OpenManual \/ Conflict!CancelManual \/ Conflict!ToggleShowAll
         \/ \E f \in Fields, p \in Conflict!Picks : Conflict!SetPick(f, p)
  PROVE  ConflictInv'
  <1>0. /\ tab \in [selected : Conflict!ConflictIds, manual : BOOLEAN]
        /\ merge \in [picks : Conflict!Docs, showAll : BOOLEAN]
    BY DEF Conflict!TypeOK, ConflictInv
  <1>1. tab' \in [selected : Conflict!ConflictIds, manual : BOOLEAN]
    BY <1>0 DEF Conflict!SelectConflict, Conflict!OpenManual, Conflict!CancelManual,
       Conflict!ToggleShowAll, Conflict!SetPick, Conflict!ConflictIds
  <1>2. merge' \in [picks : Conflict!Docs, showAll : BOOLEAN]
    <2>1. CASE merge' = merge
      BY <1>0, <2>1
    <2>2. CASE Conflict!OpenManual
      <3>1. Conflict!InitialPicks(Conflict!Selected) \in Conflict!Docs
        BY DEF Conflict!InitialPicks, Conflict!Docs, Conflict!Picks
      <3> QED
        BY <2>2, <3>1 DEF Conflict!OpenManual
    <2>3. CASE Conflict!CancelManual
      BY <2>3, NoRulingTyped DEF Conflict!CancelManual
    <2>4. CASE Conflict!ToggleShowAll
      BY <1>0, <2>4 DEF Conflict!ToggleShowAll
    <2>5. ASSUME NEW f \in Fields, NEW p \in Conflict!Picks, Conflict!SetPick(f, p)
          PROVE  merge' \in [picks : Conflict!Docs, showAll : BOOLEAN]
      <3>1. PICK ps \in Conflict!Docs : ps = [merge.picks EXCEPT ![f] = p]
        BY <1>0 DEF Conflict!Docs
      <3>2. merge' = [merge EXCEPT !.picks = ps]
        BY <1>0, <2>5, <3>1 DEF Conflict!SetPick
      <3> QED
        BY <1>0, <3>2
    <2> QED
      BY <2>1, <2>2, <2>3, <2>4, <2>5 DEF Conflict!SelectConflict
  <1> QED
    BY <1>1, <1>2 DEF ConflictInv, RulesOnOne, Conflict!TypeOK, Conflict!SelectConflict,
       Conflict!OpenManual, Conflict!CancelManual, Conflict!ToggleShowAll, Conflict!SetPick

(* The rulings. *)
LEMMA RulingAsks ==
  ASSUME ConflictConstants, ConflictInv, UNCHANGED route,
         Conflict!SaveMerge \/ \E r \in Conflict!Resolutions : Conflict!Resolve(r)
  PROVE  ConflictInv'
  <1>0. /\ merge.picks \in Conflict!Docs /\ Conflict!Selected \in Conflicts
        /\ Conflict!NoRequest.doc \in Conflict!Docs
    <2>1. Conflict!Selected # NoConflict
      BY DEF Conflict!SaveMerge, Conflict!Resolve, Conflict!OnScreen, Conflict!RulingButtons
    <2> QED
      BY <2>1, SelectedTyped, NoRulingTyped DEF Conflict!TypeOK, ConflictInv, Conflict!ConflictIds
  <1>1. PICK y \in [conflict : Conflict!ConflictIds,
                    resolution : Conflict!Resolutions \union {"none"},
                    doc : Conflict!Docs] :
          y = Conflict!NoRequest
    BY NoRulingTyped
  <1>2. /\ resolving' \in [conflict : Conflict!ConflictIds,
                           resolution : Conflict!Resolutions \union {"none"},
                           doc : Conflict!Docs]
        /\ resolving'.conflict \in Conflicts
    <2>1. CASE Conflict!SaveMerge
      <3>1. resolving' = [conflict |-> Conflict!Selected, resolution |-> "manual",
                          doc |-> merge.picks]
        BY <2>1 DEF Conflict!SaveMerge
      <3> QED
        BY <1>0, <3>1 DEF Conflict!Resolutions, Conflict!ConflictIds
    <2>2. ASSUME NEW r \in Conflict!Resolutions, Conflict!Resolve(r)
          PROVE  /\ resolving' \in [conflict : Conflict!ConflictIds,
                                    resolution : Conflict!Resolutions \union {"none"},
                                    doc : Conflict!Docs]
                 /\ resolving'.conflict \in Conflicts
      <3>1. resolving' = [y EXCEPT !.conflict = Conflict!Selected, !.resolution = r]
        BY <1>1, <2>2 DEF Conflict!Resolve
      <3> QED
        BY <1>0, <3>1 DEF Conflict!ConflictIds
    <2> QED
      BY <2>1, <2>2
  <1> QED
    BY <1>2 DEF ConflictInv, RulesOnOne, Conflict!TypeOK, Conflict!SaveMerge, Conflict!Resolve

LEMMA RulingEnds ==
  ASSUME ConflictConstants, ConflictInv, UNCHANGED route,
         Conflict!ResolveReturns \/ \E stored \in BOOLEAN : Conflict!ResolveFails(stored)
  PROVE  ConflictInv'
  <1>1. [selected |-> NoConflict, manual |-> FALSE] \in [selected : Conflict!ConflictIds,
                                                         manual : BOOLEAN]
    BY DEF Conflict!ConflictIds
  <1>2. resolving.conflict \in Conflicts /\ resolving' = Conflict!NoRequest
    BY DEF ConflictInv, RulesOnOne, Conflict!ResolveReturns, Conflict!ResolveFails
  <1> QED
    BY <1>1, <1>2, NoRulingTyped DEF ConflictInv, RulesOnOne, Conflict!TypeOK,
       Conflict!ResolveReturns, Conflict!ResolveFails, Conflict!Invalidated

LEMMA ServerKeepsConflicts ==
  ASSUME ConflictConstants, ConflictInv, UNCHANGED route,
         \/ Conflict!ListReturns \/ Conflict!ListFails
         \/ \E c \in Conflicts : Conflict!ForeignRuling(c)
  PROVE  ConflictInv'
  <1>1. CASE Conflict!ListReturns \/ Conflict!ListFails
    BY <1>1 DEF ConflictInv, RulesOnOne, Conflict!TypeOK, Conflict!ListReturns,
       Conflict!ListFails, Conflict!Pending
  <1>2. ASSUME NEW c \in Conflicts, Conflict!ForeignRuling(c)
        PROVE  ConflictInv'
    <2>1. foreign' \in 0..MaxForeign
      BY <1>2 DEF ConflictConstants, ConflictInv, Conflict!TypeOK, Conflict!ForeignRuling
    <2> QED
      BY <1>2, <2>1 DEF ConflictInv, RulesOnOne, Conflict!TypeOK, Conflict!ForeignRuling
  <1> QED
    BY <1>1, <1>2

LEMMA ConflictStepKeeps ==
  ASSUME ConflictConstants, ConflictInv, [Conflict!Next]_Conflict!vars
  PROVE  ConflictInv'
  <1>1. CASE UNCHANGED Conflict!vars
    BY <1>1 DEF Conflict!vars, Conflict!conflictVars, ConflictInv, RulesOnOne, Conflict!TypeOK
  <1>2. CASE Conflict!Next
    BY <1>2, TabKeeps, RulingAsks, RulingEnds, ServerKeepsConflicts
    DEF Conflict!Next, Conflict!Here
  <1> QED
    BY <1>1, <1>2

------------------------------------------------------------------------------
(* The import of tables: ImportWizard.                                     *)

(* The tables of the review are configured, and what is submitted is of    *)
(* them; what the answers of earlier steps replace later is not.           *)
Wizards ==
  [step : 0..5, connection : Import!Refs \union {Import!NoRef}, tested : BOOLEAN,
   discovered : SUBSET Tables, selected : SUBSET Tables,
   configs : [Tables -> Import!Config], mode : {"link", "copy"}, job : Import!JobStates]
Forms ==
  [mode : {"saved", "new"}, inline : Credentials \union {Blank},
   profile : Credentials \union {Blank}, prompt : BOOLEAN]
AllRequests ==
  [kind : {"test", "home", "save", "discover", "create", "lateTest", "lateSave",
           "lateDiscover"},
   ref : Import!Refs \union {Import!NoRef}]
Saves(kind) == kind \in {"save", "lateSave"}
Requests == {q \in AllRequests : Saves(q.kind) => q.ref.of \in Credentials}
ImportTyped ==
  /\ route \in Routes /\ wiz \in Wizards /\ form \in Forms
  /\ run \in [seen : Import!JobStates, polling : BOOLEAN]
  /\ requests \subseteq Requests /\ profiles \subseteq Credentials
  /\ job \in [status : Import!JobStates, tables : SUBSET Tables]
ReviewIsConfigured(w) == w.step \in {4, 5} => \A t \in w.selected : w.configs[t] = "complete"
SubmittedIsSelected == wiz.step = 5 => job.tables \subseteq wiz.selected

ImportInv == ImportTyped /\ ReviewIsConfigured(wiz) /\ SubmittedIsSelected
ImportConstants == Home \in Credentials

LEMMA ImportInvIsEnough ==
  ImportInv => Import!TypeOK /\ Import!SubmittedIsConfigured
  BY DEF ImportInv, ImportTyped, Wizards, Forms, Requests, AllRequests, ReviewIsConfigured,
     SubmittedIsSelected, Import!TypeOK, Import!SubmittedIsConfigured

LEMMA BlankFormTyped ==
  ASSUME profiles \subseteq Credentials, NEW ref \in Import!Refs \union {Import!NoRef}
  PROVE  Import!BlankForm(ref) \in Forms
  <1>1. ref.of \in Credentials \union {Blank}
    BY DEF Import!Refs, Import!NoRef
  <1>2. PICK m \in {"saved", "new"} :
          m = IF ref = Import!NoRef /\ profiles # {} THEN "saved" ELSE "new"
    OBVIOUS
  <1>3. PICK i \in Credentials \union {Blank} :
          i = IF ref.kind = "inline" THEN ref.of ELSE Blank
    BY <1>1
  <1>4. profiles # {} => (CHOOSE p \in profiles : TRUE) \in Credentials
    OBVIOUS
  <1>5. PICK c \in Credentials \union {Blank} :
          c = IF ref.kind = "profile" THEN ref.of
              ELSE IF ref = Import!NoRef /\ profiles # {} THEN CHOOSE p \in profiles : TRUE
              ELSE Blank
    BY <1>1, <1>4
  <1>6. [mode |-> m, inline |-> i, profile |-> c, prompt |-> FALSE] \in Forms
    BY DEF Forms
  <1> QED
    BY <1>2, <1>3, <1>5, <1>6 DEF Import!BlankForm

LEMMA FreshWizardTyped ==
  /\ Import!Fresh \in Wizards /\ Import!Fresh.step = 1
  /\ [Import!Fresh EXCEPT !.step = 0] \in Wizards
  /\ [Import!Fresh EXCEPT !.step = 0].step = 0
  <1>1. [t \in Tables |-> "none"] \in [Tables -> Import!Config]
    BY DEF Import!Config
  <1>2. "none" \in Import!JobStates
    BY DEF Import!JobStates
  <1>3. Import!Fresh \in Wizards /\ Import!Fresh.step = 1
    BY <1>1, <1>2 DEF Import!Fresh, Wizards
  <1> QED
    BY <1>3 DEF Wizards

LEMMA BuildRefTyped == ASSUME form \in Forms PROVE Import!BuildRef \in Import!Refs
  BY DEF Forms, Import!BuildRef, Import!Refs

LEMMA ImportInitial == Import!Init => ImportInv
  <1> SUFFICES ASSUME Import!Init
               PROVE  ImportInv
    OBVIOUS
  <1>1. profiles \subseteq Credentials
    BY DEF Import!Init
  <1>2. wiz \in Wizards /\ wiz.step = 1
    BY FreshWizardTyped DEF Import!Init
  <1>3. form \in Forms
    BY <1>1, BlankFormTyped DEF Import!Init
  <1>4. run \in [seen : Import!JobStates, polling : BOOLEAN]
    BY DEF Import!Init, Import!NoRun, Import!JobStates
  <1>5. job \in [status : Import!JobStates, tables : SUBSET Tables]
    BY DEF Import!Init, Import!JobStates
  <1> QED
    BY <1>1, <1>2, <1>3, <1>4, <1>5
    DEF Import!Init, ImportInv, ImportTyped, ReviewIsConfigured, SubmittedIsSelected

(* The review and what was submitted stay as they are. *)
LEMMA WizardChanges ==
  ASSUME ImportInv, wiz' \in Wizards, wiz'.step = wiz.step,
         wiz.step \in {4, 5} => wiz'.selected = wiz.selected /\ wiz'.configs = wiz.configs,
         job'.tables = job.tables, ImportTyped'
  PROVE  ImportInv'
  BY DEF ImportInv, ReviewIsConfigured, SubmittedIsSelected

LEMMA FollowTyped ==
  ASSUME NEW cs \in [Tables -> Import!Config], NEW ts, NEW d \in Import!Defaults
  PROVE  Import!Follow(cs, ts, d) \in [Tables -> Import!Config]
  <1> SUFFICES ASSUME NEW t \in Tables
               PROVE  (IF t \notin ts THEN "none" ELSE IF cs[t] = "none" THEN d[t] ELSE cs[t])
                        \in Import!Config
    BY DEF Import!Follow
  <1> QED
    BY DEF Import!Config, Import!Defaults

LEMMA AskTyped ==
  ASSUME requests \subseteq Requests,
         NEW k \in {"test", "home", "save", "discover"},
         NEW ref \in Import!Refs \union {Import!NoRef}, Import!Ask(k, ref),
         Saves(k) => ref.of \in Credentials
  PROVE  requests' \subseteq Requests
  <1>1. PICK q \in AllRequests : q = [kind |-> k, ref |-> ref] /\ q.kind = k /\ q.ref = ref
    <2>1. [kind |-> k, ref |-> ref] \in AllRequests
      BY DEF AllRequests
    <2> QED
      BY <2>1
  <1> QED
    BY <1>1 DEF Import!Ask, Requests

(* Step 1, where the wizard keeps the connection only. *)
LEMMA FormStepKeeps ==
  ASSUME ImportConstants, ImportInv, UNCHANGED route,
         \/ \E k \in Credentials : Import!EditField(k) \/ Import!PickProfile(k)
                                   \/ Import!DeleteProfile(k)
         \/ \E m \in {"saved", "new"} : Import!SetMode(m)
         \/ Import!Test \/ Import!UseHome \/ Import!Save \/ Import!HomeReturns
  PROVE  ImportInv'
  <1>0. ImportTyped
    BY DEF ImportInv
  <1>1. UNCHANGED <<wiz, run, job>>
    BY DEF Import!EditField, Import!PickProfile, Import!DeleteProfile, Import!SetMode,
       Import!Test, Import!UseHome, Import!Save, Import!HomeReturns
  <1>2. CASE \E k \in Credentials : Import!EditField(k) \/ Import!PickProfile(k)
                                    \/ Import!DeleteProfile(k)
    <2>1. form' \in Forms /\ requests' = requests /\ profiles' \subseteq profiles
      BY <1>0, <1>2 DEF ImportTyped, Forms, Import!EditField, Import!PickProfile,
         Import!DeleteProfile
    <2>2. ImportTyped'
      BY <1>0, <1>1, <2>1 DEF ImportTyped
    <2> QED
      BY <1>0, <1>1, <2>2, WizardChanges DEF ImportTyped
  <1>3. CASE \/ \E m \in {"saved", "new"} : Import!SetMode(m)
             \/ Import!HomeReturns
    <2>1. form' \in Forms /\ requests' \subseteq requests /\ profiles' = profiles
      BY <1>0, <1>3 DEF ImportConstants, ImportTyped, Forms, Import!SetMode, Import!HomeReturns,
         Import!Answered
    <2>2. ImportTyped'
      BY <1>0, <1>1, <2>1 DEF ImportTyped
    <2> QED
      BY <1>0, <1>1, <2>2, WizardChanges DEF ImportTyped
  <1>4. CASE Import!Test \/ Import!UseHome \/ Import!Save
    <2>1. form' = form /\ profiles' = profiles
      BY <1>4 DEF Import!Test, Import!UseHome, Import!Save
    <2>2. PICK ref \in Import!Refs : /\ ref = [kind |-> "inline", of |-> form.inline]
                                     /\ ref.of = form.inline
      <3>1. [kind |-> "inline", of |-> form.inline] \in Import!Refs
        BY <1>0 DEF ImportTyped, Forms, Import!Refs
      <3> QED
        BY <3>1
    <2>5. Import!Save => ref.of \in Credentials
      BY <1>0, <2>2 DEF ImportTyped, Forms, Import!Save
    <2>3. requests' \subseteq Requests
      BY <1>0, <1>4, <2>2, <2>5, AskTyped DEF ImportTyped, Saves, Import!Test, Import!UseHome,
         Import!Save
    <2>4. ImportTyped'
      BY <1>0, <1>1, <2>1, <2>3 DEF ImportTyped
    <2> QED
      BY <1>0, <1>1, <2>4, WizardChanges DEF ImportTyped
  <1> QED
    BY <1>2, <1>3, <1>4

(* An answer resolves the connection. *)
LEMMA Resolves ==
  ASSUME ImportInv, NEW ref \in Import!Refs, UNCHANGED <<route, run, job>>,
         \/ wiz' = [wiz EXCEPT !.connection = ref, !.tested = TRUE]
         \/ wiz' = [wiz EXCEPT !.connection = ref],
         form' \in Forms, requests' \subseteq requests, profiles' \subseteq Credentials
  PROVE  ImportInv'
  <1>0. ImportTyped
    BY DEF ImportInv
  <1>1. /\ wiz' \in Wizards /\ wiz'.step = wiz.step
        /\ wiz'.selected = wiz.selected /\ wiz'.configs = wiz.configs
    BY <1>0 DEF ImportTyped, Wizards
  <1>2. ImportTyped'
    BY <1>0, <1>1 DEF ImportTyped
  <1> QED
    BY <1>1, <1>2, WizardChanges

LEMMA ConnectionKeeps ==
  ASSUME ImportInv, UNCHANGED route,
         \/ Import!TestReturns
         \/ \E ref \in Import!Refs : Import!SaveReturns(ref) \/ Import!LateConnect(ref)
  PROVE  ImportInv'
  <1>0. ImportTyped
    BY DEF ImportInv
  <1>1. CASE Import!TestReturns
    <2>1. Import!BuildRef \in Import!Refs
      BY <1>0, BuildRefTyped DEF ImportTyped
    <2>2. PICK p \in BOOLEAN : form' = [form EXCEPT !.prompt = p]
      <3>1. ((form.mode = "new") \/ form.prompt) \in BOOLEAN
        OBVIOUS
      <3> QED
        BY <1>1, <3>1 DEF Import!TestReturns
    <2>3. form' \in Forms
      BY <1>0, <2>2 DEF ImportTyped, Forms
    <2>4. requests' \subseteq requests
      BY <1>1 DEF Import!TestReturns, Import!Answered
    <2> QED
      BY <1>0, <1>1, <2>1, <2>3, <2>4, Resolves DEF ImportTyped, Import!TestReturns
  <1>2. ASSUME NEW ref \in Import!Refs, Import!SaveReturns(ref) \/ Import!LateConnect(ref)
        PROVE  ImportInv'
    <2>1. PICK saved \in Import!Refs : saved = [kind |-> "profile", of |-> ref.of]
      <3>1. [kind |-> "profile", of |-> ref.of] \in Import!Refs
        BY <1>2 DEF Import!Refs
      <3> QED
        BY <3>1
    <2>2. requests' \subseteq requests /\ profiles' \subseteq Credentials
      <3>1. PICK k : Import!Answered(k, ref) /\ (profiles' # profiles => Saves(k))
        BY <1>2 DEF Import!SaveReturns, Import!LateConnect, Saves
      <3>2. Saves(k) => ref.of \in Credentials
        BY <1>0, <3>1 DEF ImportTyped, Requests, Import!Answered
      <3> QED
        BY <1>0, <1>2, <3>1, <3>2 DEF ImportTyped, Import!SaveReturns, Import!LateConnect,
           Import!Answered
    <2>3. form' \in Forms
      <3>1. ref.of \in Credentials \union {Blank}
        BY DEF Import!Refs
      <3> QED
        BY <1>0, <1>2, <3>1 DEF ImportTyped, Forms, Import!SaveReturns, Import!LateConnect
    <2>4. \/ wiz' = [wiz EXCEPT !.connection = ref, !.tested = TRUE]
          \/ wiz' = [wiz EXCEPT !.connection = saved]
      BY <1>2, <2>1 DEF Import!SaveReturns, Import!LateConnect
    <2>5. UNCHANGED <<run, job>>
      BY <1>2 DEF Import!SaveReturns, Import!LateConnect
    <2> QED
      BY <2>1, <2>2, <2>3, <2>4, <2>5, Resolves
  <1> QED
    BY <1>1, <1>2

(* Steps 2 and 3: the tables, the selection and the configuration. *)
LEMMA TableStepKeeps ==
  ASSUME ImportInv, UNCHANGED route, Import!TableStep
  PROVE  ImportInv'
  <1>0. ImportTyped /\ wiz \in Wizards
    BY DEF ImportInv, ImportTyped
  <1>1. CASE Import!Refresh
    <2>1. requests' \subseteq Requests
      BY <1>0, <1>1, AskTyped DEF ImportTyped, Import!Refresh, Saves
    <2>2. ImportTyped'
      BY <1>0, <1>1, <2>1 DEF ImportTyped, Import!Refresh
    <2> QED
      BY <1>0, <1>1, <2>2, WizardChanges DEF Import!Refresh
  <1>2. ASSUME wiz' \in Wizards, wiz'.step = wiz.step,
               wiz.step \in {4, 5} => wiz'.selected = wiz.selected /\ wiz'.configs = wiz.configs,
               UNCHANGED <<form, run, profiles, job>>, requests' \subseteq requests
        PROVE  ImportInv'
    <2>1. ImportTyped'
      BY <1>0, <1>2 DEF ImportTyped
    <2> QED
      BY <1>2, <2>1, WizardChanges
  <1>3. ASSUME NEW found \in SUBSET Tables, Import!DiscoverReturns(found)
        PROVE  ImportInv'
    <2>1. PICK d \in Import!Defaults :
            wiz' = [wiz EXCEPT !.discovered = found,
                      !.configs = IF wiz.step = 3
                                  THEN Import!Follow(@, found \intersect wiz.selected, d)
                                  ELSE @]
      BY <1>3 DEF Import!DiscoverReturns
    <2>2. PICK cs \in [Tables -> Import!Config] :
            /\ cs = IF wiz.step = 3
                    THEN Import!Follow(wiz.configs, found \intersect wiz.selected, d)
                    ELSE wiz.configs
            /\ wiz.step # 3 => cs = wiz.configs
      BY <1>0, FollowTyped DEF Wizards
    <2>3. wiz' = [wiz EXCEPT !.discovered = found, !.configs = cs]
      BY <2>1, <2>2
    <2>4. /\ wiz' \in Wizards /\ wiz'.step = wiz.step
          /\ wiz'.selected = wiz.selected /\ wiz'.configs = cs
      BY <1>0, <2>3 DEF Wizards
    <2>5. requests' \subseteq requests
      BY <1>3 DEF Import!DiscoverReturns, Import!Answered
    <2> QED
      BY <1>2, <1>3, <2>2, <2>4, <2>5 DEF Import!DiscoverReturns
  <1>4. ASSUME NEW s \in SUBSET Tables, wiz' = [wiz EXCEPT !.selected = s], wiz.step = 2,
               UNCHANGED <<form, run, requests, profiles, job>>
        PROVE  ImportInv'
    <2>1. wiz' \in Wizards /\ wiz'.step = wiz.step
      BY <1>0, <1>4 DEF Wizards
    <2> QED
      BY <1>2, <1>4, <2>1
  <1>5. ASSUME NEW t \in Tables, Import!Toggle(t)
        PROVE  ImportInv'
    <2>1. PICK s \in SUBSET Tables :
            s = IF t \in wiz.selected THEN wiz.selected \ {t} ELSE wiz.selected \union {t}
      BY <1>0 DEF Wizards
    <2> QED
      BY <1>4, <1>5, <2>1 DEF Import!Toggle
  <1>6. ASSUME NEW subset \in SUBSET Tables, Import!SelectAll(subset)
        PROVE  ImportInv'
    <2>1. PICK s \in SUBSET Tables :
            s = IF subset \subseteq wiz.selected THEN wiz.selected \ subset
                ELSE wiz.selected \union subset
      BY <1>0 DEF Wizards
    <2> QED
      BY <1>4, <1>6, <2>1 DEF Import!SelectAll
  <1>7. ASSUME NEW m \in {"link", "copy"}, Import!SetImportMode(m)
        PROVE  ImportInv'
    <2>1. wiz' \in Wizards /\ wiz'.step = wiz.step /\ wiz.step = 3
      BY <1>0, <1>7 DEF Wizards, Import!SetImportMode
    <2> QED
      BY <1>2, <1>7, <2>1 DEF Import!SetImportMode
  <1>8. ASSUME NEW t \in Tables, NEW v \in {"incomplete", "complete"}, Import!UpdateConfig(t, v)
        PROVE  ImportInv'
    <2>1. PICK cs \in [Tables -> Import!Config] : cs = [wiz.configs EXCEPT ![t] = v]
      BY <1>0 DEF Wizards, Import!Config
    <2>2. wiz' = [wiz EXCEPT !.configs = cs]
      BY <1>8, <2>1 DEF Import!UpdateConfig
    <2>3. wiz' \in Wizards /\ wiz'.step = wiz.step /\ wiz.step = 3
      BY <1>0, <1>8, <2>2 DEF Wizards, Import!UpdateConfig
    <2> QED
      BY <1>2, <1>8, <2>3 DEF Import!UpdateConfig
  <1> QED
    BY <1>1, <1>3, <1>5, <1>6, <1>7, <1>8 DEF Import!TableStep

(* Step 5: the job. *)
LEMMA RunStepKeeps ==
  ASSUME ImportInv, UNCHANGED route, Import!RunStep
  PROVE  ImportInv'
  <1>0. ImportTyped /\ wiz \in Wizards
    BY DEF ImportInv, ImportTyped
  <1>1. job.status \in Import!JobStates /\ run.seen \in Import!JobStates
    BY <1>0 DEF ImportTyped
  <1>2. PICK w \in Wizards : /\ w = wiz' /\ w.step = wiz.step /\ w.selected = wiz.selected
                             /\ w.configs = wiz.configs
    <2>1. PICK st \in Import!JobStates : wiz' = wiz \/ wiz' = [wiz EXCEPT !.job = st]
      <3>1. "pending" \in Import!JobStates
        BY DEF Import!JobStates
      <3> QED
        BY <1>1, <3>1 DEF Import!RunStep, Import!CreateReturns, Import!PollReturns,
           Import!PollFails, Import!JobStep
    <2> QED
      BY <1>0, <2>1 DEF Wizards
  <1>3. run' \in [seen : Import!JobStates, polling : BOOLEAN]
    <2>0. run \in [seen : Import!JobStates, polling : BOOLEAN]
      BY <1>0 DEF ImportTyped
    <2>1. CASE run' = run
      BY <2>0, <2>1
    <2>2. CASE Import!CreateReturns
      BY <2>0, <2>2 DEF Import!CreateReturns
    <2>3. CASE Import!PollReturns
      BY <1>1, <2>3 DEF Import!PollReturns, Import!Refetches
    <2>4. CASE Import!PollFails
      BY <2>0, <2>4 DEF Import!PollFails
    <2> QED
      BY <2>1, <2>2, <2>3, <2>4 DEF Import!RunStep, Import!JobStep
  <1>4. job' \in [status : Import!JobStates, tables : SUBSET Tables] /\ job'.tables = job.tables
    <2>1. PICK st \in Import!JobStates : job' = job \/ job' = [job EXCEPT !.status = st]
      BY DEF Import!RunStep, Import!CreateReturns, Import!PollReturns, Import!PollFails,
         Import!JobStep, Import!JobStates
    <2> QED
      BY <1>0, <2>1 DEF ImportTyped
  <1>5. UNCHANGED <<form, profiles>> /\ requests' \subseteq requests
    BY DEF Import!RunStep, Import!CreateReturns, Import!PollReturns, Import!PollFails,
       Import!JobStep, Import!Answered
  <1>6. ImportTyped'
    BY <1>0, <1>2, <1>3, <1>4, <1>5 DEF ImportTyped
  <1> QED
    BY <1>2, <1>4, <1>6, WizardChanges

LEMMA LeavingTyped == ASSUME ImportTyped PROVE Import!Leaving \subseteq Requests
  <1>0. requests \subseteq Requests
    BY DEF ImportTyped
  <1>1. PICK old : old = [kind |-> "lateTest", ref |-> Import!BuildRef]
    OBVIOUS
  <1>2. old \in Requests
    <2>1. Import!BuildRef \in Import!Refs
      BY BuildRefTyped DEF ImportTyped
    <2>2. old \in AllRequests /\ old.kind = "lateTest"
      BY <1>1, <2>1 DEF AllRequests
    <2> QED
      BY <2>2 DEF Requests, Saves
  <1>3. ASSUME NEW q \in requests, NEW k \in {"lateSave", "lateDiscover"},
               k = "lateSave" => q.kind = "save"
        PROVE  [q EXCEPT !.kind = k] \in Requests
    <2>1. q \in AllRequests /\ (Saves(q.kind) => q.ref.of \in Credentials)
      BY <1>0, <1>3 DEF Requests
    <2>2. PICK x : x = [q EXCEPT !.kind = k]
      OBVIOUS
    <2>3. x \in AllRequests /\ x.kind = k /\ x.ref = q.ref
      BY <2>1, <2>2 DEF AllRequests
    <2> QED
      BY <1>3, <2>1, <2>2, <2>3 DEF Requests, Saves
  <1> QED
    BY <1>0, <1>1, <1>2, <1>3 DEF Import!Leaving

(* Going to another step. *)
LEMMA MountKeeps ==
  ASSUME ImportInv, UNCHANGED route, NEW step \in 1..5, NEW d \in Import!Defaults,
         Import!Mount(step, d),
         step \in {4, 5} => ReviewIsConfigured([wiz EXCEPT !.step = 4])
  PROVE  ImportInv'
  <1>0. ImportTyped /\ wiz \in Wizards
    BY DEF ImportInv, ImportTyped
  <1>1. PICK cs \in [Tables -> Import!Config] :
          /\ cs = IF step = 3 THEN Import!Follow(wiz.configs, Import!Chosen, d) ELSE wiz.configs
          /\ step # 3 => cs = wiz.configs
    BY <1>0, FollowTyped DEF Wizards
  <1>2. wiz' = [wiz EXCEPT !.step = step, !.configs = cs]
    BY <1>1 DEF Import!Mount
  <1>3. /\ wiz' \in Wizards /\ wiz'.step = step /\ wiz'.selected = wiz.selected
        /\ wiz'.configs = cs
    <2>1. PICK n \in 0..5 : n = step
      OBVIOUS
    <2>2. wiz' = [wiz EXCEPT !.step = n, !.configs = cs]
      BY <1>2, <2>1
    <2>3. PICK w \in [Tables -> Import!Config] : w = cs
      OBVIOUS
    <2>4. wiz' \in Wizards
      BY <1>0, <2>2, <2>3 DEF Wizards
    <2> QED
      BY <1>0, <2>1, <2>2, <2>4 DEF Wizards
  <1>4. form' \in Forms
    <2>1. wiz.connection \in Import!Refs \union {Import!NoRef} /\ profiles \subseteq Credentials
      BY <1>0 DEF ImportTyped, Wizards
    <2> QED
      BY <2>1, BlankFormTyped DEF Import!Mount
  <1>5. requests' \subseteq Requests
    <2>1. Import!Asks(step) \subseteq Requests
      <3>1. ASSUME NEW k \in {"discover", "create"}
            PROVE  [kind |-> k, ref |-> Import!NoRef] \in Requests
        <4>1. PICK x : x = [kind |-> k, ref |-> Import!NoRef]
          OBVIOUS
        <4>2. x \in AllRequests /\ x.kind = k
          BY <4>1 DEF AllRequests
        <4> QED
          BY <4>1, <4>2 DEF Requests, Saves
      <3> QED
        BY <3>1 DEF Import!Asks
    <2> QED
      BY <1>0, <2>1, LeavingTyped DEF Import!Mount
  <1>6. /\ job' \in [status : Import!JobStates, tables : SUBSET Tables]
        /\ step = 5 => job'.tables \subseteq wiz.selected
    <2>1. PICK ts \in SUBSET Tables : ts = Import!Payload /\ ts \subseteq wiz.selected
      BY <1>0 DEF Wizards, Import!Payload, Import!Chosen
    <2>2. job' = IF step = 5 THEN [job EXCEPT !.tables = ts] ELSE job
      BY <2>1 DEF Import!Mount
    <2> QED
      BY <1>0, <2>1, <2>2 DEF ImportTyped
  <1>7. ImportTyped'
    BY <1>0, <1>3, <1>4, <1>5, <1>6 DEF ImportTyped, Import!Mount
  <1>8. step \in {4, 5} => \A t \in wiz.selected : wiz.configs[t] = "complete"
    <2>1. PICK x \in Wizards : /\ x = [wiz EXCEPT !.step = 4] /\ x.step = 4
                               /\ x.selected = wiz.selected /\ x.configs = wiz.configs
      <3>1. [wiz EXCEPT !.step = 4] \in Wizards
        BY <1>0 DEF Wizards
      <3> QED
        BY <1>0, <3>1 DEF Wizards
    <2> QED
      BY <2>1 DEF ReviewIsConfigured
  <1>9. ReviewIsConfigured(wiz')
    BY <1>1, <1>3, <1>8 DEF ReviewIsConfigured
  <1>10. SubmittedIsSelected'
    BY <1>3, <1>6 DEF SubmittedIsSelected
  <1> QED
    BY <1>7, <1>9, <1>10 DEF ImportInv

LEMMA MovesKeep ==
  ASSUME ImportInv, UNCHANGED route, Import!GoNext \/ Import!Back \/ Import!CloseWizard
  PROVE  ImportInv'
  <1>0. ImportTyped /\ wiz \in Wizards /\ wiz.step \in 0..5
    BY DEF ImportInv, ImportTyped, Wizards
  <1>1. PICK x \in Wizards : /\ x = [wiz EXCEPT !.step = 4] /\ x.step = 4
                             /\ x.selected = wiz.selected /\ x.configs = wiz.configs
    <2>1. [wiz EXCEPT !.step = 4] \in Wizards
      BY <1>0 DEF Wizards
    <2> QED
      BY <1>0, <2>1 DEF Wizards
  <1>2. CASE Import!GoNext
    <2>1. PICK d \in Import!Defaults : Import!Mount(wiz.step + 1, d)
      BY <1>2 DEF Import!GoNext
    <2>2. wiz.step \in 1..4 /\ Import!CanProceed
      BY <1>2 DEF Import!GoNext
    <2>3. wiz.step + 1 \in {4, 5} => \A t \in wiz.selected : wiz.configs[t] = "complete"
      <3>1. CASE wiz.step = 3
        BY <2>2, <3>1 DEF Import!CanProceed, Import!Configured
      <3>2. CASE wiz.step = 4
        BY <3>2 DEF ImportInv, ReviewIsConfigured
      <3> QED
        BY <2>2, <3>1, <3>2
    <2>4. wiz.step + 1 \in {4, 5} => ReviewIsConfigured([wiz EXCEPT !.step = 4])
      BY <1>1, <2>3 DEF ReviewIsConfigured
    <2> QED
      BY <2>1, <2>2, <2>4, MountKeeps
  <1>3. CASE Import!Back
    <2>1. PICK d \in Import!Defaults : Import!Mount(wiz.step - 1, d)
      BY <1>3 DEF Import!Back
    <2>2. wiz.step - 1 \in 1..3
      BY <1>3 DEF Import!Back
    <2> QED
      BY <2>1, <2>2, MountKeeps
  <1>4. CASE Import!CloseWizard
    <2>1. wiz' \in Wizards /\ wiz'.step = 0
      BY <1>4, FreshWizardTyped DEF Import!CloseWizard
    <2>2. form' \in Forms
      BY <1>0, <1>4, BlankFormTyped DEF ImportTyped, Import!CloseWizard
    <2>3. run' \in [seen : Import!JobStates, polling : BOOLEAN]
      BY <1>4 DEF Import!CloseWizard, Import!NoRun, Import!JobStates
    <2>4. ImportTyped'
      BY <1>0, <1>4, <2>1, <2>2, <2>3 DEF ImportTyped, Import!CloseWizard
    <2> QED
      BY <2>1, <2>4 DEF ImportInv, ReviewIsConfigured, SubmittedIsSelected
  <1> QED
    BY <1>2, <1>3, <1>4

LEMMA ImportStepKeeps ==
  ASSUME ImportConstants, ImportInv, [Import!Next]_Import!vars
  PROVE  ImportInv'
  <1>1. CASE UNCHANGED Import!vars
    BY <1>1 DEF Import!vars, Import!wizardVars, ImportInv, ImportTyped, ReviewIsConfigured,
       SubmittedIsSelected
  <1>2. CASE Import!Next
    <2>0. UNCHANGED route
      BY <1>2 DEF Import!Next, Import!Here
    <2>1. CASE Import!ConnectStep
      BY <2>0, <2>1, FormStepKeeps, ConnectionKeeps DEF Import!ConnectStep
    <2>2. CASE \E q \in requests : Import!RequestFails(q.kind, q.ref)
      BY <2>0, <2>2 DEF Import!RequestFails, Import!Answered, ImportInv, ImportTyped,
         ReviewIsConfigured, SubmittedIsSelected
    <2> QED
      BY <1>2, <2>0, <2>1, <2>2, TableStepKeeps, RunStepKeeps, MovesKeep DEF Import!Next
  <1> QED
    BY <1>1, <1>2

------------------------------------------------------------------------------
(* The features of a layer: FeatureTable.                                  *)

(* The source is never ahead of the field, and nor is what the page shows. *)
FeatureIds == 1..NumFeatures
VersionsTyped ==
  /\ changed \in [FeatureIds -> Nat] /\ written \in [FeatureIds -> Nat]
  /\ \A f \in FeatureIds : written[f] <= changed[f]
Details == [feature : 0..NumFeatures, version : Nat, pending : BOOLEAN,
            applied : BOOLEAN, writing : BOOLEAN]
RowsAreOld ==
  \A r \in rows : r.id \in FeatureIds /\ r.version \in Nat /\ r.version <= changed[r.id]
                  /\ r.pending \in BOOLEAN
DetailIsOld ==
  /\ detail \in Details
  /\ detail.applied \/ detail.writing => detail.feature # 0
  /\ detail.feature # 0 => detail.version <= changed[detail.feature]

DrawerInv == VersionsTyped /\ RowsAreOld /\ DetailIsOld /\ Feature!SaidWritten

FeatureConstants == {NumFeatures, MaxVersion} \subseteq Nat

LEMMA NoDetailTyped ==
  ASSUME FeatureConstants
  PROVE  /\ Feature!NoDetail \in Details
         /\ Feature!NoDetail.feature = 0 /\ Feature!NoDetail.applied = FALSE
         /\ Feature!NoDetail.writing = FALSE
  BY DEF FeatureConstants, Feature!NoDetail, Details

LEMMA DrawerInitial == FeatureConstants /\ Feature!Init => DrawerInv
  <1> SUFFICES ASSUME FeatureConstants, Feature!Init
               PROVE  DrawerInv
    OBVIOUS
  <1>1. VersionsTyped /\ RowsAreOld
    BY DEF FeatureConstants, Feature!Init, Feature!AllFeatures, VersionsTyped, FeatureIds,
       RowsAreOld
  <1>2. DetailIsOld /\ Feature!SaidWritten
    BY NoDetailTyped DEF Feature!Init, DetailIsOld, Feature!SaidWritten
  <1> QED
    BY <1>1, <1>2 DEF DrawerInv

(* A step of the versions: they only grow, and the source not past the     *)
(* field; the page keeps its rows or has none, the drawer stays as it is.  *)
LEMMA VersionsGrow ==
  ASSUME DrawerInv, VersionsTyped',
         \A f \in FeatureIds : changed'[f] >= changed[f] /\ written'[f] >= written[f],
         rows' = rows \/ rows' = {}, detail' = detail
  PROVE  DrawerInv'
  <1>1. /\ VersionsTyped /\ RowsAreOld /\ DetailIsOld /\ Feature!SaidWritten
    BY DEF DrawerInv
  <1>2. RowsAreOld'
    BY <1>1 DEF VersionsTyped, RowsAreOld
  <1>3. detail.feature # 0 => detail.feature \in FeatureIds
    BY <1>1 DEF DetailIsOld, Details, FeatureIds
  <1>4. DetailIsOld' /\ Feature!SaidWritten'
    BY <1>1, <1>3 DEF VersionsTyped, DetailIsOld, Details, Feature!SaidWritten
  <1> QED
    BY <1>2, <1>4 DEF DrawerInv

LEMMA WriteGrows ==
  ASSUME DrawerInv, NEW f, NEW o, Feature!Writes(f, o), changed' = changed
  PROVE  /\ VersionsTyped'
         /\ \A g \in FeatureIds : changed'[g] >= changed[g] /\ written'[g] >= written[g]
         /\ f \in FeatureIds /\ Feature!SaysApplied(o) => written'[f] = changed[f]
  <1>1. VersionsTyped
    BY DEF DrawerInv
  <1>2. CASE written' = written
    <2>1. f \in FeatureIds /\ Feature!SaysApplied(o) => written[f] = changed[f]
      <3> SUFFICES ASSUME f \in FeatureIds, Feature!SaysApplied(o)
                   PROVE  written[f] = changed[f]
        OBVIOUS
      <3>1. CASE o = "applied"
        BY <1>1, <1>2, <3>1 DEF Feature!Writes, VersionsTyped
      <3>2. CASE o = "skipped"
        BY <1>1, <3>2 DEF Feature!Writes, Feature!Outcomes, Feature!Pending, VersionsTyped
      <3> QED
        BY <3>1, <3>2 DEF Feature!SaysApplied
    <2> QED
      BY <1>1, <1>2, <2>1 DEF VersionsTyped
  <1>3. CASE written' = [written EXCEPT ![f] = changed[f]]
    <2>1. CASE f \in FeatureIds
      <3>1. changed[f] \in Nat /\ written[f] <= changed[f]
        BY <1>1, <2>1 DEF VersionsTyped
      <3>2. /\ written' \in [FeatureIds -> Nat] /\ written'[f] = changed[f]
            /\ \A g \in FeatureIds : g # f => written'[g] = written[g]
        BY <1>1, <1>3, <2>1, <3>1 DEF VersionsTyped
      <3> QED
        BY <1>1, <3>1, <3>2 DEF VersionsTyped
    <2>2. CASE f \notin FeatureIds
      <3>1. written \in [FeatureIds -> Nat]
        BY <1>1 DEF VersionsTyped
      <3>2. written' = written
        BY <1>3, <2>2, <3>1
      <3> QED
        BY <1>1, <2>2, <3>2 DEF VersionsTyped
    <2> QED
      BY <2>1, <2>2
  <1> QED
    BY <1>2, <1>3 DEF Feature!Writes

LEMMA FieldKeepsDrawer ==
  ASSUME DrawerInv, NEW f \in FeatureIds, Feature!FieldChange(f)
  PROVE  DrawerInv'
  <1>1. VersionsTyped
    BY DEF DrawerInv
  <1>2. /\ VersionsTyped'
        /\ \A g \in FeatureIds : changed'[g] >= changed[g] /\ written'[g] >= written[g]
    BY <1>1 DEF Feature!FieldChange, VersionsTyped
  <1> QED
    BY <1>2, VersionsGrow DEF Feature!FieldChange

(* The answers of the server to what was written. *)
LEMMA AnswersKeepDrawer ==
  ASSUME DrawerInv,
         \/ Feature!BulkStep
         \/ \E f \in FeatureIds, o \in Feature!AllOutcomes :
              Feature!RowAnswer(f, o) \/ Feature!LateAnswer(f, o)
  PROVE  DrawerInv'
  <1>1. PICK f : \E o \in Feature!AllOutcomes : Feature!Writes(f, o)
    BY DEF Feature!BulkStep, Feature!BulkAnswer, Feature!RowAnswer, Feature!LateAnswer
  <1>2. PICK o \in Feature!AllOutcomes : Feature!Writes(f, o)
    BY <1>1
  <1>3. UNCHANGED <<changed, rows, detail>>
    BY DEF Feature!BulkStep, Feature!BulkAnswer, Feature!RowAnswer, Feature!LateAnswer
  <1> QED
    BY <1>2, <1>3, WriteGrows, VersionsGrow

(* What the server lists is what it has. *)
LEMMA ListKeepsDrawer ==
  ASSUME DrawerInv, Feature!ListReturns
  PROVE  DrawerInv'
  <1>1. /\ VersionsTyped /\ DetailIsOld /\ Feature!SaidWritten
    BY DEF DrawerInv
  <1>2. UNCHANGED <<changed, written, detail>> /\ rows' = Feature!Rows(table.page)
    BY DEF Feature!ListReturns
  <1>3. RowsAreOld'
    <2> SUFFICES ASSUME NEW r \in rows'
                 PROVE  /\ r.id \in FeatureIds /\ r.version \in Nat
                        /\ r.version <= changed'[r.id] /\ r.pending \in BOOLEAN
      BY DEF RowsAreOld
    <2>1. PICK f \in FeatureIds :
            r = [id |-> f, version |-> changed[f], pending |-> Feature!Pending(f)]
      BY <1>2 DEF Feature!Rows, Feature!OnPage, Feature!AllFeatures, FeatureIds
    <2>2. changed[f] \in Nat /\ Feature!Pending(f) \in BOOLEAN
      BY <1>1, <2>1 DEF VersionsTyped, Feature!Pending
    <2>3. r.id = f /\ r.version = changed[f] /\ r.pending \in BOOLEAN
      BY <2>1, <2>2
    <2> QED
      BY <1>2, <2>2, <2>3
  <1> QED
    BY <1>1, <1>2, <1>3 DEF DrawerInv, VersionsTyped, DetailIsOld, Feature!SaidWritten

(* The drawer opens, asks, and is told. *)
LEMMA OpenDetailKeeps ==
  ASSUME FeatureConstants, DrawerInv, NEW r \in rows, Feature!OpenDetail(r)
  PROVE  DrawerInv'
  <1>1. /\ VersionsTyped /\ RowsAreOld
        /\ r.id \in FeatureIds /\ r.version \in Nat /\ r.version <= changed[r.id]
        /\ r.pending \in BOOLEAN
    BY DEF DrawerInv, RowsAreOld
  <1>2. PICK p \in BOOLEAN : p = (r.pending /\ ~Feature!ShowsLinked)
    OBVIOUS
  <1>3. detail' = [Feature!NoDetail EXCEPT !.feature = r.id, !.version = r.version, !.pending = p]
    BY <1>2 DEF Feature!OpenDetail
  <1>4. /\ detail' \in Details /\ detail'.feature = r.id /\ detail'.version = r.version
        /\ detail'.applied = FALSE
    <2>1. PICK y \in Details : y = Feature!NoDetail /\ y.applied = FALSE
      BY NoDetailTyped
    <2>2. detail' = [y EXCEPT !.feature = r.id, !.version = r.version, !.pending = p]
      BY <1>3, <2>1
    <2>3. PICK i \in 0..NumFeatures : i = r.id
      BY <1>1 DEF FeatureIds, FeatureConstants
    <2>4. PICK v \in Nat : v = r.version
      BY <1>1
    <2> QED
      BY <2>1, <2>2, <2>3, <2>4 DEF Details
  <1>5. r.id # 0
    BY <1>1 DEF FeatureIds
  <1> QED
    BY <1>1, <1>4, <1>5 DEF Feature!OpenDetail, DrawerInv, VersionsTyped, RowsAreOld, DetailIsOld,
       Feature!SaidWritten

LEMMA DrawerCloses ==
  ASSUME FeatureConstants, DrawerInv, detail' = Feature!NoDetail, rows' = rows \/ rows' = {},
         UNCHANGED <<changed, written>>
  PROVE  DrawerInv'
  BY NoDetailTyped DEF DrawerInv, VersionsTyped, RowsAreOld, DetailIsOld, Feature!SaidWritten

LEMMA WriteDetailKeeps ==
  ASSUME DrawerInv, Feature!WriteDetail
  PROVE  DrawerInv'
  <1>1. /\ detail' \in Details /\ detail'.feature = detail.feature
        /\ detail'.version = detail.version /\ detail'.applied = detail.applied
    BY DEF DrawerInv, DetailIsOld, Details, Feature!WriteDetail
  <1> QED
    BY <1>1 DEF Feature!WriteDetail, DrawerInv, VersionsTyped, RowsAreOld, DetailIsOld,
       Feature!SaidWritten

LEMMA DetailAnswerKeeps ==
  ASSUME DrawerInv, NEW o, NEW lost \in BOOLEAN, Feature!DetailAnswer(o, lost)
  PROVE  DrawerInv'
  <1>1. /\ VersionsTyped /\ RowsAreOld /\ DetailIsOld
        /\ Feature!Writes(detail.feature, o) /\ UNCHANGED <<changed, rows>>
        /\ detail.feature \in FeatureIds
    BY DEF DrawerInv, DetailIsOld, Details, FeatureIds, Feature!DetailAnswer
  <1>2. PICK a \in BOOLEAN : a = (~lost /\ Feature!SaysApplied(o))
    BY DEF Feature!SaysApplied
  <1>3. detail' = [detail EXCEPT !.writing = FALSE, !.applied = a]
    BY <1>2 DEF Feature!DetailAnswer
  <1>4. /\ detail' \in Details /\ detail'.feature = detail.feature
        /\ detail'.version = detail.version /\ detail'.applied = a
    BY <1>1, <1>3 DEF DetailIsOld, Details
  <1>5. VersionsTyped' /\ (a => written'[detail.feature] = changed[detail.feature])
    BY <1>1, <1>2, WriteGrows
  <1>6. changed[detail.feature] \in Nat /\ detail.version <= changed[detail.feature]
    BY <1>1 DEF VersionsTyped, DetailIsOld, FeatureIds
  <1>7. DetailIsOld' /\ RowsAreOld'
    BY <1>1, <1>4, <1>6 DEF DetailIsOld, RowsAreOld, FeatureIds
  <1>8. Feature!SaidWritten'
    BY <1>4, <1>5, <1>6 DEF Feature!SaidWritten
  <1> QED
    BY <1>5, <1>7, <1>8 DEF DrawerInv

LEMMA DrawerStepKeeps ==
  ASSUME FeatureConstants, DrawerInv, [Feature!Next]_Feature!vars
  PROVE  DrawerInv'
  <1>0. VersionsTyped /\ \A f \in FeatureIds : changed[f] >= changed[f] /\ written[f] >= written[f]
    BY DEF DrawerInv, VersionsTyped
  <1>1. ASSUME UNCHANGED <<changed, written, detail>>, rows' = rows \/ rows' = {}
        PROVE  DrawerInv'
    <2>1. VersionsTyped' /\ \A f \in FeatureIds : changed'[f] >= changed[f]
                                                  /\ written'[f] >= written[f]
      BY <1>0, <1>1 DEF VersionsTyped
    <2> QED
      BY <1>1, <2>1, VersionsGrow
  <1>2. CASE UNCHANGED Feature!vars
    BY <1>1, <1>2 DEF Feature!vars, Feature!tableVars
  <1>3. CASE Feature!Next
    <2>1. CASE \E f \in FeatureIds : Feature!Toggle(f) \/ Feature!WriteRow(f)
      BY <1>1, <2>1 DEF Feature!Toggle, Feature!WriteRow, Feature!DataUnchanged
    <2>2. CASE \/ Feature!SummaryReturns \/ Feature!DefaultViewer
               \/ \E v \in {"linked", "collected"} : Feature!SetViewer(v)
      BY <1>1, <2>2 DEF Feature!SummaryReturns, Feature!DefaultViewer, Feature!SetViewer
    <2>3. CASE \/ \E t \in {"", "typed"} : Feature!Type(t)
               \/ Feature!Debounced
               \/ \E d \in Feature!Drafts : Feature!ApplyFilters(d)
               \/ \E p \in 0..Feature!LastPage : Feature!SetPage(p)
      BY <1>1, <2>3 DEF Feature!Type, Feature!Debounced, Feature!ApplyFilters, Feature!SetPage,
         Feature!Shows, Feature!DataUnchanged
    <2>4. CASE Feature!ToggleAll \/ Feature!EnterTab \/ Feature!StartBulk
      BY <1>1, <2>4 DEF Feature!ToggleAll, Feature!EnterTab, Feature!StartBulk,
         Feature!DataUnchanged
    <2>5. CASE Feature!LeaveTab \/ Feature!CloseDetail
      BY <2>5, DrawerCloses DEF Feature!LeaveTab, Feature!CloseDetail
    <2> QED
      BY <1>3, <2>1, <2>2, <2>3, <2>4, <2>5, FieldKeepsDrawer, AnswersKeepDrawer, ListKeepsDrawer,
         OpenDetailKeeps, WriteDetailKeeps, DetailAnswerKeeps
      DEF Feature!Next, Feature!AllFeatures, FeatureIds
  <1> QED
    BY <1>2, <1>3

(* The table around the drawer.  That what is out is bounded takes every    *)
(* place a write-back is counted in: a row, the drawer, and behind a page   *)
(* that was left.                                                          *)
TableConstants ==
  /\ {NumFeatures, MaxRowWrites} \subseteq Nat /\ {PageSize, MaxVersion} \subseteq Nat \ {0}
  /\ Matching \union Edited \subseteq 1..NumFeatures
Texts == {"", "typed"}
TableStates ==
  [page : 0..Feature!LastPage, typed : Texts, query : Texts, timer : BOOLEAN, filters : 0..1,
   selected : SUBSET FeatureIds, writing : 0..NumFeatures, mounted : BOOLEAN]
Bulks == [ids : Seq(FeatureIds), busy : BOOLEAN]
RowStates == [id : FeatureIds, version : 0..MaxVersion, pending : BOOLEAN]

PageTyped ==
  /\ summary \in {"none", "pending", "clean"} /\ viewer \in {"none", "linked", "collected"}
  /\ table \in TableStates /\ bulk \in Bulks /\ rows \subseteq RowStates
ChangesBounded == (\A f \in FeatureIds : changed[f] <= MaxVersion) /\ detail.version <= MaxVersion
WritesBounded ==
  /\ rowWrites \in [FeatureIds -> Nat] /\ late \in [FeatureIds -> Nat]
  /\ \A f \in FeatureIds : rowWrites[f] + late[f] + Feature!DetailWrite[f] <= MaxRowWrites

FeatureInv == /\ DrawerInv /\ route \in Routes
              /\ PageTyped /\ ChangesBounded /\ WritesBounded

LEMMA LastPageIsNumber == ASSUME TableConstants PROVE Feature!LastPage \in Nat
  <1>1. NumFeatures # 0 => NumFeatures - 1 \in Nat
    BY DEF TableConstants
  <1>2. \A n \in Nat, d \in Nat \ {0} : n \div d \in Nat
    OBVIOUS
  <1> QED
    BY <1>1, <1>2 DEF TableConstants, Feature!LastPage

LEMMA DetailWriteTyped ==
  ASSUME DrawerInv
  PROVE  /\ Feature!DetailWrite \in [FeatureIds -> {0, 1}]
         /\ \A f \in FeatureIds :
              Feature!DetailWrite[f] = IF detail.writing /\ detail.feature = f THEN 1 ELSE 0
  BY DEF Feature!DetailWrite, Feature!AllFeatures, FeatureIds

LEMMA FeatureInvIsEnough == ASSUME TableConstants, FeatureInv PROVE Feature!TypeOK
  <1>1. /\ VersionsTyped /\ DetailIsOld /\ PageTyped /\ ChangesBounded /\ WritesBounded
    BY DEF FeatureInv, DrawerInv
  <1>2. changed \in [FeatureIds -> 0..MaxVersion] /\ written \in [FeatureIds -> 0..MaxVersion]
    <2>1. \A f \in FeatureIds : changed[f] \in 0..MaxVersion /\ written[f] \in 0..MaxVersion
      BY <1>1 DEF VersionsTyped, ChangesBounded, TableConstants
    <2> QED
      BY <1>1, <2>1 DEF VersionsTyped
  <1>3. Feature!Range(bulk.ids) \subseteq FeatureIds /\ bulk.busy \in BOOLEAN
    <2>1. bulk.ids \in Seq(FeatureIds) /\ bulk.busy \in BOOLEAN
      BY <1>1 DEF PageTyped, Bulks
    <2> QED
      BY <2>1, ElementOfSeq, LenProperties DEF Feature!Range
  <1>4. rowWrites \in [FeatureIds -> 0..MaxRowWrites] /\ late \in [FeatureIds -> 0..MaxRowWrites]
    <2>1. \A f \in FeatureIds : rowWrites[f] \in 0..MaxRowWrites /\ late[f] \in 0..MaxRowWrites
      BY <1>1, DetailWriteTyped DEF WritesBounded, TableConstants, FeatureInv
    <2> QED
      BY <1>1, <2>1 DEF WritesBounded
  <1>5. detail.feature \in 0..NumFeatures /\ detail.version \in 0..MaxVersion
    BY <1>1 DEF DetailIsOld, Details, ChangesBounded, TableConstants
  <1> QED
    BY <1>1, <1>2, <1>3, <1>4, <1>5 DEF FeatureInv, PageTyped, TableStates, RowStates, FeatureIds,
       Feature!TypeOK, Feature!AllFeatures

LEMMA EligibleTyped == ASSUME PageTyped PROVE Feature!Eligible \subseteq FeatureIds
  <1>1. Feature!Visible \subseteq rows /\ rows \subseteq RowStates
    BY DEF PageTyped, Feature!Visible
  <1>2. \A r \in RowStates : r.id \in FeatureIds
    BY DEF RowStates
  <1> QED
    BY <1>1, <1>2 DEF Feature!Eligible

LEMMA FreshTableTyped ==
  ASSUME TableConstants
  PROVE  /\ Feature!FreshTable \in TableStates
         /\ [Feature!FreshTable EXCEPT !.mounted = FALSE, !.timer = FALSE] \in TableStates
  <1>1. 0 \in 0..Feature!LastPage /\ 0 \in 0..NumFeatures
    BY LastPageIsNumber DEF TableConstants
  <1>2. "" \in Texts /\ {} \in SUBSET FeatureIds /\ 0 \in 0..1
    BY DEF Texts
  <1>3. Feature!FreshTable \in TableStates
    BY <1>1, <1>2, Zenon DEF Feature!FreshTable, TableStates
  <1>4. PICK t \in TableStates : t = Feature!FreshTable
    BY <1>3
  <1>5. [t EXCEPT !.mounted = FALSE, !.timer = FALSE] \in TableStates
    BY DEF TableStates
  <1> QED
    BY <1>4, <1>5

LEMMA FeatureInitial == TableConstants /\ Feature!Init => FeatureInv
  <1> SUFFICES ASSUME TableConstants, Feature!Init
               PROVE  FeatureInv
    OBVIOUS
  <1>1. DrawerInv
    BY DrawerInitial DEF TableConstants, FeatureConstants
  <1>2. PageTyped
    <2>1. Feature!NoBulk \in Bulks
      BY DEF Feature!NoBulk, Bulks
    <2> QED
      BY <2>1, FreshTableTyped DEF Feature!Init, PageTyped
  <1>3. ChangesBounded
    <2>1. \A f \in FeatureIds : changed[f] \in {0, 1}
      BY DEF Feature!Init, Feature!AllFeatures, FeatureIds
    <2> QED
      BY <2>1 DEF Feature!Init, Feature!NoDetail, ChangesBounded, TableConstants
  <1>4. WritesBounded
    <2>1. \A f \in FeatureIds : Feature!DetailWrite[f] = 0 /\ rowWrites[f] = 0 /\ late[f] = 0
      BY <1>1, DetailWriteTyped DEF Feature!Init, Feature!NoDetail, Feature!AllFeatures, FeatureIds
    <2> QED
      BY <2>1 DEF Feature!Init, Feature!AllFeatures, FeatureIds, WritesBounded, TableConstants
  <1> QED
    BY <1>1, <1>2, <1>3, <1>4 DEF FeatureInv, Feature!Init

(* The changes of a feature and the version the drawer shows are bounded.  *)
LEMMA ChangesStayBounded ==
  ASSUME TableConstants, FeatureInv, [Feature!Next]_Feature!vars
  PROVE  ChangesBounded'
  <1>1. ChangesBounded /\ VersionsTyped /\ DetailIsOld /\ PageTyped
    BY DEF FeatureInv, DrawerInv
  <1>2. CASE changed' = changed /\ detail' = detail
    BY <1>1, <1>2 DEF ChangesBounded
  <1>3. ASSUME changed' = changed, detail'.version = 0 \/ detail'.version = detail.version
        PROVE  ChangesBounded'
    BY <1>1, <1>3 DEF ChangesBounded, TableConstants
  <1>4. CASE UNCHANGED Feature!vars
    BY <1>2, <1>4 DEF Feature!vars, Feature!tableVars
  <1>5. CASE Feature!Next
    <2>1. CASE \E f \in FeatureIds : Feature!FieldChange(f)
      BY <1>1, <2>1 DEF Feature!FieldChange, VersionsTyped, ChangesBounded, TableConstants
    <2>2. CASE \E r \in rows : Feature!OpenDetail(r)
      <3>1. PICK r \in rows : Feature!OpenDetail(r)
        BY <2>2
      <3>2. r.version \in 0..MaxVersion
        BY <1>1 DEF PageTyped, RowStates
      <3>3. changed' = changed /\ detail'.version = r.version
        BY <3>1 DEF Feature!OpenDetail, Feature!NoDetail
      <3> QED
        BY <1>1, <3>2, <3>3 DEF ChangesBounded, TableConstants
    <2>3. CASE Feature!LeaveTab \/ Feature!CloseDetail
      BY <1>3, <2>3 DEF Feature!LeaveTab, Feature!CloseDetail, Feature!NoDetail
    <2>4. CASE Feature!WriteDetail
               \/ \E o \in Feature!AllOutcomes, lost \in BOOLEAN : Feature!DetailAnswer(o, lost)
      BY <1>1, <1>3, <2>4 DEF Feature!WriteDetail, Feature!DetailAnswer, DetailIsOld, Details
    <2>5. CASE \/ \E f \in FeatureIds : Feature!Toggle(f) \/ Feature!WriteRow(f)
               \/ Feature!ListReturns \/ Feature!SummaryReturns \/ Feature!DefaultViewer
               \/ \E v \in {"linked", "collected"} : Feature!SetViewer(v)
               \/ \E t \in {"", "typed"} : Feature!Type(t)
               \/ Feature!Debounced
               \/ \E d \in Feature!Drafts : Feature!ApplyFilters(d)
               \/ \E p \in 0..Feature!LastPage : Feature!SetPage(p)
      BY <1>2, <2>5 DEF Feature!Toggle, Feature!WriteRow, Feature!ListReturns,
         Feature!SummaryReturns, Feature!DefaultViewer, Feature!SetViewer, Feature!Type,
         Feature!Debounced, Feature!ApplyFilters, Feature!SetPage, Feature!Shows,
         Feature!DataUnchanged
    <2>6. CASE \/ Feature!ToggleAll \/ Feature!EnterTab \/ Feature!StartBulk \/ Feature!BulkStep
               \/ \E f \in FeatureIds, o \in Feature!AllOutcomes :
                    Feature!RowAnswer(f, o) \/ Feature!LateAnswer(f, o)
      BY <1>2, <2>6 DEF Feature!ToggleAll, Feature!EnterTab, Feature!StartBulk,
         Feature!BulkStep, Feature!BulkAnswer, Feature!RowAnswer, Feature!LateAnswer,
         Feature!DataUnchanged
    <2> QED
      BY <1>5, <2>1, <2>2, <2>3, <2>4, <2>5, <2>6
      DEF Feature!Next, Feature!AllFeatures, FeatureIds
  <1> QED
    BY <1>4, <1>5

(* What is out stays bounded: it is counted where it is asked for, and     *)
(* what a page leaves behind is counted on.                                *)
LEMMA WritesStayBounded ==
  ASSUME TableConstants, FeatureInv, [Feature!Next]_Feature!vars
  PROVE  WritesBounded'
  <1> DEFINE D == Feature!DetailWrite
  <1>0. \A f \in FeatureIds : rowWrites[f] + late[f] + D[f] <= MaxRowWrites
    BY DEF FeatureInv, WritesBounded
  <1>1. /\ WritesBounded /\ DrawerInv /\ DetailIsOld /\ D \in [FeatureIds -> {0, 1}]
        /\ \A f \in FeatureIds : D[f] = IF detail.writing /\ detail.feature = f THEN 1 ELSE 0
    BY DetailWriteTyped DEF FeatureInv, DrawerInv
  <1>2. DrawerInv'
    BY DrawerStepKeeps DEF FeatureInv, TableConstants, FeatureConstants
  <1>3. /\ D' \in [FeatureIds -> {0, 1}]
        /\ \A f \in FeatureIds : D'[f] = IF detail'.writing /\ detail'.feature = f THEN 1 ELSE 0
    BY DEF Feature!DetailWrite, Feature!AllFeatures, FeatureIds
  <1> HIDE DEF D
  <1>4. CASE UNCHANGED <<rowWrites, late, detail>>
    <2>1. \A f \in FeatureIds : D'[f] = D[f]
      BY <1>1, <1>3, <1>4
    <2> QED
      BY <1>1, <1>4, <2>1 DEF WritesBounded, D
  <1>5. CASE UNCHANGED Feature!vars
    BY <1>4, <1>5 DEF Feature!vars, Feature!tableVars
  <1>6. CASE Feature!Next
    <2>1. CASE \E f \in FeatureIds : Feature!FieldChange(f) \/ Feature!Toggle(f)
      BY <1>4, <2>1 DEF Feature!FieldChange, Feature!Toggle, Feature!DataUnchanged
    <2>2. CASE \/ Feature!ListReturns \/ Feature!SummaryReturns \/ Feature!DefaultViewer
               \/ \E v \in {"linked", "collected"} : Feature!SetViewer(v)
               \/ \E t \in {"", "typed"} : Feature!Type(t)
               \/ Feature!Debounced
               \/ \E d \in Feature!Drafts : Feature!ApplyFilters(d)
               \/ \E p \in 0..Feature!LastPage : Feature!SetPage(p)
      BY <1>4, <2>2 DEF Feature!ListReturns, Feature!SummaryReturns, Feature!DefaultViewer,
         Feature!SetViewer, Feature!Type, Feature!Debounced, Feature!ApplyFilters,
         Feature!SetPage, Feature!Shows, Feature!DataUnchanged
    <2>3. CASE Feature!ToggleAll \/ Feature!EnterTab \/ Feature!StartBulk \/ Feature!BulkStep
      BY <1>4, <2>3 DEF Feature!ToggleAll, Feature!EnterTab, Feature!StartBulk,
         Feature!BulkStep, Feature!BulkAnswer, Feature!DataUnchanged
    <2>4. CASE \E f \in FeatureIds : Feature!WriteRow(f)
      <3>1. PICK f \in FeatureIds : Feature!WriteRow(f)
        BY <2>4
      <3>2. /\ rowWrites' = [rowWrites EXCEPT ![f] = @ + 1] /\ late' = late /\ detail' = detail
            /\ \A g \in FeatureIds : rowWrites[g] + late[g] + D[g] < MaxRowWrites
        BY <3>1 DEF Feature!WriteRow, Feature!MayWrite, Feature!AllFeatures, FeatureIds, D
      <3>3. /\ rowWrites' \in [FeatureIds -> Nat]
            /\ \A g \in FeatureIds : rowWrites'[g] <= rowWrites[g] + 1 /\ D'[g] = D[g]
        BY <1>1, <1>3, <3>2 DEF WritesBounded
      <3>4. \A g \in FeatureIds : rowWrites'[g] + late'[g] + D'[g] <= MaxRowWrites
        BY <1>1, <3>2, <3>3 DEF WritesBounded, TableConstants
      <3> QED
        BY <1>1, <3>2, <3>3, <3>4 DEF WritesBounded, D
    <2>5. CASE Feature!WriteDetail
      <3>1. /\ UNCHANGED <<rowWrites, late>>
            /\ \A g \in FeatureIds : rowWrites[g] + late[g] + D[g] < MaxRowWrites
            /\ ~detail.writing
        BY <2>5 DEF Feature!WriteDetail, Feature!MayWrite, Feature!AllFeatures, FeatureIds, D
      <3>2. \A g \in FeatureIds : D'[g] <= D[g] + 1
        BY <1>1, <1>3
      <3>3. \A g \in FeatureIds : rowWrites'[g] + late'[g] + D'[g] <= MaxRowWrites
        BY <1>1, <1>3, <3>1, <3>2 DEF WritesBounded, TableConstants
      <3> QED
        BY <1>1, <3>1, <3>3 DEF WritesBounded, D
    <2>6. CASE \E f \in FeatureIds, o \in Feature!AllOutcomes :
                 Feature!RowAnswer(f, o) \/ Feature!LateAnswer(f, o)
      <3>1. PICK f \in FeatureIds : \E o \in Feature!AllOutcomes :
                   Feature!RowAnswer(f, o) \/ Feature!LateAnswer(f, o)
        BY <2>6
      <3>2. /\ detail' = detail
            /\ \/ rowWrites[f] > 0 /\ rowWrites' = [rowWrites EXCEPT ![f] = @ - 1] /\ late' = late
               \/ late[f] > 0 /\ late' = [late EXCEPT ![f] = @ - 1] /\ rowWrites' = rowWrites
        BY <3>1 DEF Feature!RowAnswer, Feature!LateAnswer
      <3>3. /\ rowWrites' \in [FeatureIds -> Nat] /\ late' \in [FeatureIds -> Nat]
            /\ \A g \in FeatureIds :
                 rowWrites'[g] <= rowWrites[g] /\ late'[g] <= late[g] /\ D'[g] = D[g]
        BY <1>1, <1>3, <3>2 DEF WritesBounded
      <3>4. \A g \in FeatureIds : rowWrites'[g] + late'[g] + D'[g] <= MaxRowWrites
        BY <1>0, <1>1, <3>3 DEF WritesBounded, TableConstants
      <3> QED
        BY <3>3, <3>4 DEF WritesBounded, D
    <2>7. CASE Feature!LeaveTab
      <3>1. \A g \in FeatureIds : /\ rowWrites'[g] = 0
                                  /\ late'[g] = late[g] + rowWrites[g] + D[g] /\ D'[g] = 0
        BY <1>3, <2>7 DEF Feature!LeaveTab, Feature!NoDetail, Feature!AllFeatures, FeatureIds, D
      <3>2. rowWrites' \in [FeatureIds -> Nat] /\ late' \in [FeatureIds -> Nat]
        BY <1>1, <2>7 DEF Feature!LeaveTab, Feature!AllFeatures, FeatureIds, D, WritesBounded
      <3>3. \A g \in FeatureIds : rowWrites'[g] + late'[g] + D'[g] <= MaxRowWrites
        BY <1>1, <3>1 DEF WritesBounded, TableConstants, D
      <3> QED
        BY <3>2, <3>3 DEF WritesBounded, D
    <2>8. CASE Feature!CloseDetail
      <3>1. rowWrites' = rowWrites
            /\ \A g \in FeatureIds : late'[g] = late[g] + D[g] /\ D'[g] = 0
        BY <1>3, <2>8 DEF Feature!CloseDetail, Feature!NoDetail, Feature!AllFeatures, FeatureIds, D
      <3>2. late' \in [FeatureIds -> Nat]
        BY <1>1, <2>8 DEF Feature!CloseDetail, Feature!AllFeatures, FeatureIds, D, WritesBounded
      <3>3. \A g \in FeatureIds : rowWrites'[g] + late'[g] + D'[g] <= MaxRowWrites
        BY <1>1, <3>1 DEF WritesBounded, TableConstants, D
      <3> QED
        BY <1>1, <3>1, <3>2, <3>3 DEF WritesBounded, D
    <2>9. CASE \/ \E r \in rows : Feature!OpenDetail(r)
               \/ \E o \in Feature!AllOutcomes, lost \in BOOLEAN : Feature!DetailAnswer(o, lost)
      <3>1. UNCHANGED <<rowWrites, late>> /\ detail'.writing = FALSE
        BY <1>1, <2>9 DEF Feature!OpenDetail, Feature!DetailAnswer, Feature!NoDetail, DetailIsOld,
           Details
      <3>2. \A g \in FeatureIds : D'[g] <= D[g]
        BY <1>1, <1>3, <3>1
      <3>3. \A g \in FeatureIds : rowWrites'[g] + late'[g] + D'[g] <= MaxRowWrites
        BY <1>0, <1>1, <1>3, <3>1, <3>2 DEF WritesBounded, TableConstants
      <3> QED
        BY <1>1, <3>1, <3>3 DEF WritesBounded, D
    <2> QED
      BY <1>6, <2>1, <2>2, <2>3, <2>4, <2>5, <2>6, <2>7, <2>8, <2>9
      DEF Feature!Next, Feature!AllFeatures, FeatureIds
  <1> QED
    BY <1>5, <1>6

(* The loop goes on, with fewer features to go.                            *)
LEMMA BulkStaysTyped ==
  ASSUME TableConstants, FeatureInv, [Feature!Next]_Feature!vars
  PROVE  bulk' \in Bulks
  <1>1. PageTyped /\ bulk \in Bulks
    BY DEF FeatureInv, PageTyped
  <1>2. CASE UNCHANGED Feature!vars
    BY <1>1, <1>2 DEF Feature!vars, Feature!tableVars
  <1>3. CASE Feature!Next
    <2>1. CASE Feature!StartBulk
      <3> DEFINE S == table.selected \intersect Feature!Eligible
                 q == Feature!SetToSeq(S)
      <3>1. IsFiniteSet(S) /\ S \subseteq FeatureIds
        <4>1. S \subseteq FeatureIds
          BY <1>1, EligibleTyped
        <4>2. IsFiniteSet(FeatureIds)
          BY FS_Interval DEF FeatureIds, TableConstants
        <4> QED
          BY <4>1, <4>2, FS_Subset
      <3>2. q \in [1..Cardinality(S) -> S]
        <4>1. \A T : Feature!Cardinality(T) = Cardinality(T)
          BY DEF Feature!Cardinality, Cardinality
        <4>2. PICK b : b \in [1..Cardinality(S) -> S] /\ Feature!IsInjective(b)
          BY <3>1, FS_CardinalityType DEF ExistsBijection, Bijection, Injection, IsInjective,
             Feature!IsInjective
        <4> HIDE DEF S
        <4> QED
          BY <4>1, <4>2 DEF Feature!SetToSeq
      <3>3. q \in Seq(FeatureIds)
        <4>1. Cardinality(S) \in Nat
          BY <3>1, FS_CardinalityType
        <4> HIDE DEF S, q
        <4>2. q \in [1..Cardinality(S) -> FeatureIds]
          BY <3>1, <3>2
        <4> QED
          BY <4>1, <4>2
      <3>4. bulk' = [ids |-> q, busy |-> TRUE]
        BY <2>1 DEF Feature!StartBulk
      <3> HIDE DEF q
      <3> QED
        BY <3>3, <3>4 DEF Bulks
    <2>2. CASE Feature!BulkStep
      <3>1. /\ bulk.ids \in Seq(FeatureIds) /\ bulk.ids # << >>
            /\ bulk' = [ids |-> Tail(bulk.ids), busy |-> bulk.busy /\ Len(bulk.ids) > 1]
        BY <1>1, <2>2 DEF Feature!BulkStep, Feature!BulkAnswer, Feature!GoesOn, Bulks
      <3>2. Tail(bulk.ids) \in Seq(FeatureIds)
        BY <3>1, HeadTailProperties
      <3>3. PICK b \in BOOLEAN : b = (bulk.busy /\ Len(bulk.ids) > 1)
        BY <1>1 DEF Bulks
      <3> QED
        BY <3>1, <3>2, <3>3 DEF Bulks
    <2>3. CASE Feature!LeaveTab
      BY <1>1, <2>3 DEF Feature!LeaveTab, Bulks
    <2>4. CASE \E f \in FeatureIds :
                 Feature!FieldChange(f) \/ Feature!Toggle(f) \/ Feature!WriteRow(f)
      BY <1>1, <2>4 DEF Feature!FieldChange, Feature!Toggle, Feature!WriteRow,
         Feature!DataUnchanged
    <2>5. CASE \/ Feature!ListReturns \/ Feature!SummaryReturns \/ Feature!DefaultViewer
               \/ \E v \in {"linked", "collected"} : Feature!SetViewer(v)
               \/ \E t \in {"", "typed"} : Feature!Type(t)
               \/ Feature!Debounced
               \/ \E d \in Feature!Drafts : Feature!ApplyFilters(d)
               \/ \E p \in 0..Feature!LastPage : Feature!SetPage(p)
               \/ Feature!ToggleAll \/ Feature!EnterTab
      BY <1>1, <2>5 DEF Feature!ListReturns, Feature!SummaryReturns, Feature!DefaultViewer,
         Feature!SetViewer, Feature!Type, Feature!Debounced, Feature!ApplyFilters,
         Feature!SetPage, Feature!Shows, Feature!ToggleAll, Feature!EnterTab,
         Feature!DataUnchanged
    <2>6. CASE \/ \E f \in FeatureIds, o \in Feature!AllOutcomes :
                    Feature!RowAnswer(f, o) \/ Feature!LateAnswer(f, o)
               \/ \E r \in rows : Feature!OpenDetail(r)
               \/ Feature!CloseDetail \/ Feature!WriteDetail
               \/ \E o \in Feature!AllOutcomes, lost \in BOOLEAN : Feature!DetailAnswer(o, lost)
      BY <1>1, <2>6 DEF Feature!RowAnswer, Feature!LateAnswer, Feature!OpenDetail,
         Feature!CloseDetail, Feature!WriteDetail, Feature!DetailAnswer
    <2> QED
      BY <1>3, <2>1, <2>2, <2>3, <2>4, <2>5, <2>6
      DEF Feature!Next, Feature!AllFeatures, FeatureIds
  <1> QED
    BY <1>2, <1>3

(* The rows are those of the list, or none.                                *)
LEMMA RowsStayTyped ==
  ASSUME TableConstants, FeatureInv, [Feature!Next]_Feature!vars
  PROVE  rows' \subseteq RowStates
  <1>1. rows \subseteq RowStates /\ VersionsTyped /\ ChangesBounded
    BY DEF FeatureInv, DrawerInv, PageTyped
  <1>2. CASE rows' = rows \/ rows' = {}
    BY <1>1, <1>2
  <1>3. CASE Feature!ListReturns
    <2> SUFFICES ASSUME NEW r \in rows'
                 PROVE  r \in RowStates
      OBVIOUS
    <2>1. PICK f \in FeatureIds :
            r = [id |-> f, version |-> changed[f], pending |-> Feature!Pending(f)]
      BY <1>3 DEF Feature!ListReturns, Feature!Rows, Feature!OnPage, Feature!AllFeatures, FeatureIds
    <2>2. changed[f] \in 0..MaxVersion /\ Feature!Pending(f) \in BOOLEAN
      BY <1>1, <2>1 DEF VersionsTyped, ChangesBounded, TableConstants, Feature!Pending
    <2> QED
      BY <2>1, <2>2 DEF RowStates
  <1>4. CASE UNCHANGED Feature!vars
    BY <1>2, <1>4 DEF Feature!vars, Feature!tableVars
  <1>5. CASE Feature!Next /\ ~Feature!ListReturns
    <2>1. CASE \/ \E f \in FeatureIds :
                    Feature!FieldChange(f) \/ Feature!Toggle(f) \/ Feature!WriteRow(f)
               \/ Feature!SummaryReturns \/ Feature!DefaultViewer
               \/ \E v \in {"linked", "collected"} : Feature!SetViewer(v)
      BY <1>2, <2>1 DEF Feature!FieldChange, Feature!Toggle, Feature!WriteRow,
         Feature!SummaryReturns, Feature!DefaultViewer, Feature!SetViewer, Feature!DataUnchanged
    <2>2. CASE \/ \E t \in {"", "typed"} : Feature!Type(t)
               \/ Feature!Debounced
               \/ \E d \in Feature!Drafts : Feature!ApplyFilters(d)
               \/ \E p \in 0..Feature!LastPage : Feature!SetPage(p)
               \/ Feature!ToggleAll \/ Feature!LeaveTab \/ Feature!EnterTab
      BY <1>2, <2>2 DEF Feature!Type, Feature!Debounced, Feature!ApplyFilters, Feature!SetPage,
         Feature!Shows, Feature!ToggleAll, Feature!LeaveTab, Feature!EnterTab
    <2>3. CASE \/ Feature!StartBulk \/ Feature!BulkStep
               \/ \E f \in FeatureIds, o \in Feature!AllOutcomes :
                    Feature!RowAnswer(f, o) \/ Feature!LateAnswer(f, o)
      BY <1>2, <2>3 DEF Feature!StartBulk, Feature!BulkStep, Feature!BulkAnswer,
         Feature!RowAnswer, Feature!LateAnswer
    <2>4. CASE \/ \E r \in rows : Feature!OpenDetail(r)
               \/ Feature!CloseDetail \/ Feature!WriteDetail
               \/ \E o \in Feature!AllOutcomes, lost \in BOOLEAN : Feature!DetailAnswer(o, lost)
      BY <1>2, <2>4 DEF Feature!OpenDetail, Feature!CloseDetail, Feature!WriteDetail,
         Feature!DetailAnswer
    <2> QED
      BY <1>5, <2>1, <2>2, <2>3, <2>4 DEF Feature!Next, Feature!AllFeatures, FeatureIds
  <1> QED
    BY <1>3, <1>4, <1>5

(* The table, and what the tab shows besides it.                           *)
LEMMA TableStaysTyped ==
  ASSUME TableConstants, FeatureInv, [Feature!Next]_Feature!vars
  PROVE  table' \in TableStates
  <1>1. PageTyped /\ table \in TableStates
    BY DEF FeatureInv, PageTyped
  <1>2. Feature!Eligible \subseteq FeatureIds /\ 0 \in 0..Feature!LastPage /\ 0 \in 0..NumFeatures
    BY <1>1, EligibleTyped, LastPageIsNumber DEF TableConstants
  <1>3. ASSUME table' = [table EXCEPT !.selected = {}]
        PROVE  table' \in TableStates
    BY <1>1, <1>3 DEF TableStates
  <1>4. CASE UNCHANGED Feature!vars
    BY <1>1, <1>4 DEF Feature!vars, Feature!tableVars
  <1>5. CASE Feature!Next
    <2>1. CASE \/ Feature!DefaultViewer
               \/ \E v \in {"linked", "collected"} : Feature!SetViewer(v)
      <3>1. PICK b \in BOOLEAN : table' = [table EXCEPT !.selected = {}, !.timer = b]
        BY <2>1 DEF Feature!DefaultViewer, Feature!SetViewer
      <3> QED
        BY <1>1, <3>1 DEF TableStates
    <2>2. CASE \E t \in Texts : Feature!Type(t)
      BY <1>1, <2>2 DEF Feature!Type, TableStates
    <2>3. CASE Feature!Debounced
      <3>1. table.typed \in Texts
        BY <1>1 DEF TableStates
      <3>2. \/ table' = [table EXCEPT !.timer = FALSE]
            \/ table' = [table EXCEPT !.timer = FALSE, !.query = table.typed, !.page = 0,
                                      !.selected = {}]
        BY <2>3 DEF Feature!Debounced, Feature!Shows
      <3> QED
        BY <1>1, <1>2, <3>1, <3>2 DEF TableStates
    <2>4. CASE \E d \in Feature!Drafts : Feature!ApplyFilters(d)
      <3>1. PICK d \in Feature!Drafts : Feature!ApplyFilters(d)
        BY <2>4
      <3>2. Feature!Complete(d) \in 0..1
        <4> DEFINE K == {i \in DOMAIN d : d[i].needsValue => d[i].filled}
        <4>1. K = {} \/ K = {1}
          <5>1. CASE d = << >>
            BY <5>1
          <5>2. CASE \E c \in Feature!Conditions : d = <<c>>
            BY <5>2
          <5> QED
            BY <5>1, <5>2 DEF Feature!Drafts
        <4>2. Cardinality({}) = 0 /\ Cardinality({1}) = 1
          BY FS_EmptySet, FS_Singleton
        <4>3. Feature!Cardinality(K) = Cardinality(K)
          BY DEF Feature!Cardinality, Cardinality
        <4>4. Feature!Complete(d) = Feature!Cardinality(K)
          BY DEF Feature!Complete
        <4> HIDE DEF K
        <4> QED
          BY <4>1, <4>2, <4>3, <4>4
      <3>3. PICK n \in 0..1 : n = Feature!Complete(d)
        BY <3>2
      <3>4. table' = [table EXCEPT !.filters = n, !.page = 0, !.selected = {}]
        BY <3>1, <3>3 DEF Feature!ApplyFilters, Feature!Shows
      <3> QED
        BY <1>1, <1>2, <3>4 DEF TableStates
    <2>5. CASE \E p \in 0..Feature!LastPage : Feature!SetPage(p)
      BY <1>1, <2>5 DEF Feature!SetPage, Feature!Shows, TableStates
    <2>6. CASE (\E f \in FeatureIds : Feature!Toggle(f)) \/ Feature!ToggleAll
      <3>1. table.selected \subseteq FeatureIds
        BY <1>1 DEF TableStates
      <3>2. PICK S \in SUBSET FeatureIds : table' = [table EXCEPT !.selected = S]
        BY <1>2, <2>6, <3>1 DEF Feature!Toggle, Feature!ToggleAll
      <3> QED
        BY <1>1, <3>2 DEF TableStates
    <2>7. CASE Feature!LeaveTab \/ Feature!EnterTab
      BY <2>7, FreshTableTyped DEF Feature!LeaveTab, Feature!EnterTab
    <2>8. CASE Feature!BulkStep
      BY <1>1, <1>3, <2>8 DEF Feature!BulkStep, Feature!BulkAnswer, Feature!GoesOn, Feature!Ends
    <2>9. CASE \/ \E f \in FeatureIds : Feature!WriteRow(f)
               \/ \E f \in FeatureIds, o \in Feature!AllOutcomes : Feature!RowAnswer(f, o)
      <3>1. PICK n \in 0..NumFeatures : table' = [table EXCEPT !.writing = n]
        BY <1>2, <2>9 DEF Feature!WriteRow, Feature!RowAnswer, FeatureIds, TableConstants
      <3> QED
        BY <1>1, <3>1 DEF TableStates
    <2>10. CASE \/ \E f \in FeatureIds : Feature!FieldChange(f)
                \/ Feature!ListReturns \/ Feature!SummaryReturns \/ Feature!StartBulk
                \/ \E f \in FeatureIds, o \in Feature!AllOutcomes : Feature!LateAnswer(f, o)
                \/ \E r \in rows : Feature!OpenDetail(r)
                \/ Feature!CloseDetail \/ Feature!WriteDetail
                \/ \E o \in Feature!AllOutcomes, lost \in BOOLEAN : Feature!DetailAnswer(o, lost)
      BY <1>1, <2>10 DEF Feature!FieldChange, Feature!ListReturns, Feature!SummaryReturns,
         Feature!StartBulk, Feature!LateAnswer, Feature!OpenDetail, Feature!CloseDetail,
         Feature!WriteDetail, Feature!DetailAnswer
    <2> QED
      BY <1>5, <2>1, <2>2, <2>3, <2>4, <2>5, <2>6, <2>7, <2>8, <2>9, <2>10
      DEF Feature!Next, Feature!AllFeatures, FeatureIds, Texts
  <1> QED
    BY <1>4, <1>5

LEMMA ViewStaysTyped ==
  ASSUME FeatureInv, [Feature!Next]_Feature!vars
  PROVE  /\ summary' \in {"none", "pending", "clean"} /\ viewer' \in {"none", "linked", "collected"}
         /\ route' \in Routes
  <1>1. /\ summary \in {"none", "pending", "clean"} /\ viewer \in {"none", "linked", "collected"}
        /\ route \in Routes
    BY DEF FeatureInv, PageTyped
  <1>2. CASE UNCHANGED <<summary, viewer, route>>
    BY <1>1, <1>2
  <1>3. CASE UNCHANGED Feature!vars
    BY <1>2, <1>3 DEF Feature!vars, Feature!tableVars
  <1>4. CASE Feature!Next
    <2>0. route' = route
      BY <1>4 DEF Feature!Next, Feature!Here
    <2>1. CASE \/ Feature!SummaryReturns \/ Feature!DefaultViewer
               \/ \E v \in {"linked", "collected"} : Feature!SetViewer(v)
               \/ Feature!LeaveTab \/ Feature!EnterTab
      BY <1>1, <2>0, <2>1 DEF Feature!SummaryReturns, Feature!DefaultViewer, Feature!SetViewer,
         Feature!LeaveTab, Feature!EnterTab
    <2>2. CASE \/ \E f \in FeatureIds :
                    Feature!FieldChange(f) \/ Feature!Toggle(f) \/ Feature!WriteRow(f)
               \/ Feature!ListReturns \/ \E t \in {"", "typed"} : Feature!Type(t)
               \/ Feature!Debounced
               \/ \E d \in Feature!Drafts : Feature!ApplyFilters(d)
               \/ \E p \in 0..Feature!LastPage : Feature!SetPage(p)
      BY <1>2, <2>0, <2>2 DEF Feature!FieldChange, Feature!Toggle, Feature!WriteRow,
         Feature!ListReturns, Feature!Type, Feature!Debounced, Feature!ApplyFilters,
         Feature!SetPage, Feature!DataUnchanged
    <2>3. CASE \/ Feature!ToggleAll \/ Feature!StartBulk \/ Feature!BulkStep
               \/ \E f \in FeatureIds, o \in Feature!AllOutcomes :
                    Feature!RowAnswer(f, o) \/ Feature!LateAnswer(f, o)
               \/ \E r \in rows : Feature!OpenDetail(r)
               \/ Feature!CloseDetail \/ Feature!WriteDetail
               \/ \E o \in Feature!AllOutcomes, lost \in BOOLEAN : Feature!DetailAnswer(o, lost)
      BY <1>2, <2>0, <2>3 DEF Feature!ToggleAll, Feature!StartBulk, Feature!BulkStep,
         Feature!BulkAnswer, Feature!RowAnswer, Feature!LateAnswer, Feature!OpenDetail,
         Feature!CloseDetail, Feature!WriteDetail, Feature!DetailAnswer, Feature!DataUnchanged
    <2> QED
      BY <1>4, <2>1, <2>2, <2>3 DEF Feature!Next, Feature!AllFeatures, FeatureIds
  <1> QED
    BY <1>3, <1>4

LEMMA FeatureStepKeeps ==
  ASSUME TableConstants, FeatureInv, [Feature!Next]_Feature!vars
  PROVE  FeatureInv'
  <1>1. DrawerInv'
    BY DrawerStepKeeps DEF FeatureInv, TableConstants, FeatureConstants
  <1>2. PageTyped'
    BY ViewStaysTyped, TableStaysTyped, BulkStaysTyped, RowsStayTyped DEF PageTyped, TableStates,
       Bulks, RowStates
  <1> QED
    BY <1>1, <1>2, ViewStaysTyped, ChangesStayBounded, WritesStayBounded DEF FeatureInv

------------------------------------------------------------------------------
(* The bundle: BundleDownload.                                             *)

BundleConstants == MaxContent \in Nat \ {0} /\ MaxBuilds \in Nat

Builds == [flag : BOOLEAN, hash : Bundle!Versions, read : 0..MaxContent,
           status : {"pending", "running", "success", "failed"}]
DialogStates ==
  [open : BOOLEAN, stage : Bundle!Stages, flag : BOOLEAN, job : 0..MaxBuilds, timer : BOOLEAN,
   polling : BOOLEAN, ready : Bundle!Bundles \union {Bundle!NoBundle}, asked : 0..MaxContent,
   warnings : BOOLEAN]

ServiceTyped ==
  /\ content \in Bundle!Versions
  /\ filed \subseteq Bundle!Bundles
  /\ hot \in [BOOLEAN -> Bundle!Bundles \union {Bundle!NoBundle}]
  /\ builds \in Seq(Builds) /\ Len(builds) <= MaxBuilds
  /\ locks \in [BOOLEAN -> [Bundle!Versions -> 0..Len(builds)]]

(* What a worker read is not older than the hash it works for: of a job,   *)
(* of a bundle on file, and of one in the hot cache; and a lock names a    *)
(* job of its flag and its hash.                                           *)
ReadAfterAsked(b) == b.read >= b.hash
JobsReadLater ==
  \A j \in 1..Len(builds) :
    /\ builds[j].hash <= content
    /\ builds[j].read # 0 => ReadAfterAsked(builds[j])
    /\ builds[j].status = "success" => builds[j].read # 0
FiledReadLater == \A b \in filed : ReadAfterAsked(b)
HotReadLater ==
  \A f \in BOOLEAN : hot[f] # Bundle!NoBundle => hot[f].flag = f /\ ReadAfterAsked(hot[f])
LocksNameTheirJob ==
  \A f \in BOOLEAN, v \in Bundle!Versions :
    LET j == locks[f][v] IN j # 0 => builds[j].flag = f /\ builds[j].hash = v
ServiceInv ==
  ServiceTyped /\ JobsReadLater /\ FiledReadLater /\ HotReadLater /\ LocksNameTheirJob

(* A dialog that waits follows a job of its options, begun for a version   *)
(* that is not older than its start; one that does not wait may change     *)
(* them, and then offers nothing.                                          *)
Quiet == {"idle", "error", "requesting"}
FollowsItsOptions(x) ==
  /\ x.asked <= content
  /\ x.stage \in Quiet => x.ready = Bundle!NoBundle /\ ~x.timer /\ ~x.polling
  /\ x.timer \/ x.polling =>
       /\ x.job \in 1..Len(builds)
       /\ builds[x.job].flag = x.flag /\ builds[x.job].hash >= x.asked
  /\ x.ready # Bundle!NoBundle => x.ready.flag = x.flag /\ x.ready.read >= x.asked
DialogsInv ==
  bundle \in [Dialogs -> DialogStates] /\ \A d \in Dialogs : FollowsItsOptions(bundle[d])

BundleInv == ServiceInv /\ DialogsInv

LEMMA BuildTyped ==
  ASSUME ServiceTyped, NEW j \in 1..Len(builds)
  PROVE  /\ builds[j] \in Builds /\ builds[j].flag \in BOOLEAN
         /\ builds[j].hash \in Bundle!Versions /\ builds[j].hash \in Nat
  <1>1. builds[j] \in Builds
    BY ElementOfSeq DEF ServiceTyped
  <1> QED
    BY <1>1 DEF Builds, Bundle!Versions

LEMMA BundleInvIsEnough ==
  BundleConstants /\ BundleInv /\ route \in Routes => Bundle!TypeOK /\ Bundle!OfferedIsCurrent
  <1> SUFFICES ASSUME BundleConstants, BundleInv, route \in Routes
               PROVE  Bundle!TypeOK /\ Bundle!OfferedIsCurrent
    OBVIOUS
  <1>1. ServiceTyped /\ Len(builds) \in Nat
    BY LenProperties DEF BundleInv, ServiceInv, ServiceTyped
  <1>2. locks \in [BOOLEAN -> [Bundle!Versions -> 0..MaxBuilds]]
    <2>1. 0..Len(builds) \subseteq 0..MaxBuilds
      BY <1>1 DEF ServiceTyped, BundleConstants
    <2> QED
      BY <1>1, <2>1 DEF ServiceTyped
  <1>3. builds \in Seq([flag : Bundle!Flags, hash : Bundle!Versions, read : 0..MaxContent,
                        status : {"pending", "running", "success", "failed"}])
    BY <1>1 DEF ServiceTyped, Builds, Bundle!Flags
  <1>4. bundle \in [Dialogs -> DialogStates]
    BY DEF BundleInv, DialogsInv
  <1>5. Bundle!TypeOK
    BY <1>1, <1>2, <1>3, <1>4 DEF ServiceTyped, DialogStates, Bundle!TypeOK, Bundle!Flags
  <1>6. Bundle!OfferedIsCurrent
    BY DEF BundleInv, DialogsInv, FollowsItsOptions, Bundle!OfferedIsCurrent
  <1> QED
    BY <1>5, <1>6

LEMMA FreshDialogTyped ==
  ASSUME BundleConstants
  PROVE  /\ Bundle!FreshDialog \in DialogStates /\ Bundle!ClosedDialog \in DialogStates
         /\ \A x \in {Bundle!FreshDialog, Bundle!ClosedDialog} :
              /\ x.stage = "idle" /\ x.ready = Bundle!NoBundle /\ ~x.timer /\ ~x.polling
              /\ x.asked = 0
  <1>1. /\ Bundle!FreshDialog \in DialogStates
        /\ Bundle!FreshDialog.stage = "idle" /\ Bundle!FreshDialog.ready = Bundle!NoBundle
        /\ ~Bundle!FreshDialog.timer /\ ~Bundle!FreshDialog.polling
        /\ Bundle!FreshDialog.asked = 0
    BY DEF BundleConstants, Bundle!FreshDialog, DialogStates, Bundle!Stages
  <1>2. PICK y \in DialogStates : y = Bundle!FreshDialog
    BY <1>1
  <1>3. /\ [y EXCEPT !.open = FALSE] \in DialogStates
        /\ [y EXCEPT !.open = FALSE].stage = y.stage /\ [y EXCEPT !.open = FALSE].ready = y.ready
        /\ [y EXCEPT !.open = FALSE].timer = y.timer
        /\ [y EXCEPT !.open = FALSE].polling = y.polling
        /\ [y EXCEPT !.open = FALSE].asked = y.asked
    BY DEF DialogStates
  <1> QED
    BY <1>1, <1>2, <1>3 DEF Bundle!ClosedDialog

LEMMA FreshDialogFollows ==
  ASSUME BundleConstants, content \in Nat, NEW x \in {Bundle!FreshDialog, Bundle!ClosedDialog}
  PROVE  FollowsItsOptions(x)
  BY FreshDialogTyped DEF FollowsItsOptions

LEMMA BundleInitial == BundleConstants /\ Bundle!Init => BundleInv
  <1> SUFFICES ASSUME BundleConstants, Bundle!Init
               PROVE  BundleInv
    OBVIOUS
  <1>1. /\ content \in Bundle!Versions /\ content = 1 /\ filed = {}
        /\ builds \in Seq(Builds) /\ Len(builds) = 0
    BY DEF BundleConstants, Bundle!Init, Bundle!Versions
  <1>2. /\ hot \in [BOOLEAN -> Bundle!Bundles \union {Bundle!NoBundle}]
        /\ \A f \in BOOLEAN : hot[f] = Bundle!NoBundle
    BY DEF Bundle!Init, Bundle!Flags
  <1>3. /\ locks \in [BOOLEAN -> [Bundle!Versions -> 0..0]]
        /\ \A f \in BOOLEAN, v \in Bundle!Versions : locks[f][v] = 0
    BY DEF Bundle!Init, Bundle!Flags
  <1>4. bundle \in [Dialogs -> DialogStates] /\ \A d \in Dialogs : bundle[d] = Bundle!ClosedDialog
    BY FreshDialogTyped DEF Bundle!Init
  <1>5. ServiceInv
    BY <1>1, <1>2, <1>3 DEF BundleConstants, ServiceInv, ServiceTyped, JobsReadLater,
       FiledReadLater, HotReadLater, LocksNameTheirJob
  <1>6. DialogsInv
    BY <1>1, <1>4, FreshDialogFollows DEF DialogsInv
  <1> QED
    BY <1>5, <1>6 DEF BundleInv

(* Jobs are added and go on, the content changes: the dialogs that stay as *)
(* they are follow what they followed.                                     *)
JobsGoOn ==
  /\ content' >= content /\ Len(builds') >= Len(builds)
  /\ \A j \in 1..Len(builds) :
       builds'[j].flag = builds[j].flag /\ builds'[j].hash = builds[j].hash

LEMMA OneDialogChanges ==
  ASSUME BundleInv, ServiceInv', JobsGoOn, NEW d \in Dialogs, NEW x \in DialogStates,
         FollowsItsOptions(x)', bundle' = [bundle EXCEPT ![d] = x]
  PROVE  BundleInv'
  <1>1. /\ bundle' \in [Dialogs -> DialogStates]
        /\ \A e \in Dialogs : bundle'[e] = x \/ bundle'[e] = bundle[e]
    BY DEF BundleInv, DialogsInv
  <1>2. content \in Nat /\ content' \in Nat /\ Len(builds) \in Nat /\ Len(builds') \in Nat
    BY LenProperties DEF BundleInv, ServiceInv, ServiceTyped, Bundle!Versions
  <1>3. ASSUME NEW e \in Dialogs
        PROVE  FollowsItsOptions(bundle[e])'
    <2>1. CASE bundle'[e] = x
      BY <2>1 DEF FollowsItsOptions
    <2>2. CASE bundle'[e] = bundle[e]
      <3>1. PICK y \in DialogStates : y = bundle[e] /\ FollowsItsOptions(y)
        BY DEF BundleInv, DialogsInv
      <3>2. y.asked \in Nat
        BY DEF DialogStates
      <3>3. FollowsItsOptions(y)'
        BY <1>2, <3>1, <3>2 DEF FollowsItsOptions, JobsGoOn
      <3> QED
        BY <2>2, <3>1, <3>3 DEF FollowsItsOptions
    <2> QED
      BY <1>1, <2>1, <2>2
  <1> QED
    BY <1>1, <1>3 DEF BundleInv, DialogsInv

LEMMA NoDialogChanges ==
  ASSUME BundleInv, ServiceInv', JobsGoOn, bundle' = bundle
  PROVE  BundleInv'
  <1>1. bundle' \in [Dialogs -> DialogStates]
    BY DEF BundleInv, DialogsInv
  <1>2. content \in Nat /\ content' \in Nat /\ Len(builds) \in Nat /\ Len(builds') \in Nat
    BY LenProperties DEF BundleInv, ServiceInv, ServiceTyped, Bundle!Versions
  <1>3. ASSUME NEW e \in Dialogs
        PROVE  FollowsItsOptions(bundle[e])'
    <2>1. PICK y \in DialogStates : y = bundle[e] /\ FollowsItsOptions(y)
      BY DEF BundleInv, DialogsInv
    <2>2. y.asked \in Nat
      BY DEF DialogStates
    <2>3. FollowsItsOptions(y)'
      BY <1>2, <2>1, <2>2 DEF FollowsItsOptions, JobsGoOn
    <2> QED
      BY <2>1, <2>3 DEF FollowsItsOptions
  <1> QED
    BY <1>1, <1>3 DEF BundleInv, DialogsInv

LEMMA ServiceStays ==
  ASSUME BundleInv, UNCHANGED <<content, filed, locks, builds>>, HotReadLater',
         hot' \in [BOOLEAN -> Bundle!Bundles \union {Bundle!NoBundle}]
  PROVE  ServiceInv' /\ JobsGoOn
  <1>1. content \in Nat /\ Len(builds) \in Nat
    BY LenProperties DEF BundleInv, ServiceInv, ServiceTyped, Bundle!Versions
  <1> QED
    BY <1>1 DEF BundleInv, ServiceInv, ServiceTyped, JobsReadLater, FiledReadLater,
       LocksNameTheirJob, JobsGoOn

LEMMA ServiceRests ==
  ASSUME BundleInv, Bundle!ServiceUnchanged
  PROVE  ServiceInv' /\ JobsGoOn
  <1>1. HotReadLater' /\ hot' \in [BOOLEAN -> Bundle!Bundles \union {Bundle!NoBundle}]
    BY DEF BundleInv, ServiceInv, ServiceTyped, HotReadLater, Bundle!ServiceUnchanged
  <1> QED
    BY <1>1, ServiceStays DEF Bundle!ServiceUnchanged

(* What the steps of a dialog make of it. *)
LEMMA OffersFollows ==
  ASSUME DialogsInv, NEW d \in Dialogs, NEW b \in Bundle!Bundles, b.flag = bundle[d].flag,
         b.read >= bundle[d].asked, Bundle!Offers(d, b), content' = content
  PROVE  \E x \in DialogStates : bundle' = [bundle EXCEPT ![d] = x] /\ FollowsItsOptions(x)'
  <1>1. PICK y \in DialogStates : y = bundle[d] /\ FollowsItsOptions(y)
    BY DEF DialogsInv
  <1>2. PICK x : x = [y EXCEPT !.stage = "ready", !.ready = b, !.timer = FALSE,
                               !.polling = FALSE]
    OBVIOUS
  <1>3. /\ x \in DialogStates /\ x.stage = "ready" /\ x.ready = b
        /\ ~x.timer /\ ~x.polling /\ x.flag = y.flag /\ x.asked = y.asked
    BY <1>2 DEF DialogStates, Bundle!Stages
  <1>4. bundle' = [bundle EXCEPT ![d] = x]
    BY <1>1, <1>2 DEF Bundle!Offers
  <1>5. FollowsItsOptions(x)'
    BY <1>1, <1>3 DEF FollowsItsOptions, Quiet
  <1> QED
    BY <1>3, <1>4, <1>5

LEMMA FailsFollows ==
  ASSUME DialogsInv, NEW d \in Dialogs, Bundle!Fails(d), content' = content
  PROVE  \E x \in DialogStates : bundle' = [bundle EXCEPT ![d] = x] /\ FollowsItsOptions(x)'
  <1>1. PICK y \in DialogStates : y = bundle[d] /\ FollowsItsOptions(y)
    BY DEF DialogsInv
  <1>2. PICK x : x = [y EXCEPT !.stage = "error", !.ready = Bundle!NoBundle, !.timer = FALSE,
                               !.polling = FALSE]
    OBVIOUS
  <1>3. /\ x \in DialogStates /\ x.ready = Bundle!NoBundle
        /\ ~x.timer /\ ~x.polling /\ x.asked = y.asked
    BY <1>2 DEF DialogStates, Bundle!Stages
  <1>4. bundle' = [bundle EXCEPT ![d] = x]
    BY <1>1, <1>2 DEF Bundle!Fails
  <1>5. FollowsItsOptions(x)'
    BY <1>1, <1>3 DEF FollowsItsOptions
  <1> QED
    BY <1>3, <1>4, <1>5

LEMMA WaitsFollows ==
  ASSUME DialogsInv, NEW d \in Dialogs, NEW j \in 1..Len(builds'), j \in 0..MaxBuilds,
         NEW st \in {"queued", "running"}, Bundle!Waits(d, j, st), content' = content,
         builds'[j].flag = bundle[d].flag, builds'[j].hash >= bundle[d].asked
  PROVE  \E x \in DialogStates : bundle' = [bundle EXCEPT ![d] = x] /\ FollowsItsOptions(x)'
  <1>1. PICK y \in DialogStates : y = bundle[d] /\ FollowsItsOptions(y)
    BY DEF DialogsInv
  <1>2. PICK x : x = [y EXCEPT !.stage = st, !.job = j, !.timer = TRUE, !.polling = FALSE]
    OBVIOUS
  <1>3. /\ x \in DialogStates /\ x.stage = st /\ x.job = j /\ x.ready = y.ready
        /\ x.flag = y.flag /\ x.asked = y.asked
    BY <1>2 DEF DialogStates, Bundle!Stages
  <1>4. bundle' = [bundle EXCEPT ![d] = x]
    BY <1>1, <1>2 DEF Bundle!Waits
  <1>5. FollowsItsOptions(x)'
    BY <1>1, <1>3 DEF FollowsItsOptions, Quiet
  <1> QED
    BY <1>3, <1>4, <1>5

(* The steps of a dialog alone. *)
LEMMA DialogKeeps ==
  ASSUME BundleConstants, BundleInv, NEW d \in Dialogs,
         \/ Bundle!OpenDialog(d) \/ Bundle!CloseDialog(d) \/ Bundle!ShowWarnings(d)
         \/ Bundle!Start(d) \/ Bundle!Download(d) \/ Bundle!Downloaded(d)
         \/ \E f \in BOOLEAN : Bundle!IncludeReference(d, f)
         \/ Bundle!RequestFails(d) \/ Bundle!Poll(d) \/ Bundle!PollFails(d)
  PROVE  BundleInv'
  <1>0. Bundle!ServiceUnchanged
    BY DEF Bundle!OpenDialog, Bundle!CloseDialog, Bundle!ShowWarnings, Bundle!Start,
       Bundle!Download, Bundle!Downloaded, Bundle!IncludeReference, Bundle!RequestFails,
       Bundle!Poll, Bundle!PollFails
  <1>1. ServiceInv' /\ JobsGoOn /\ UNCHANGED <<content, builds>>
    BY <1>0, ServiceRests DEF Bundle!ServiceUnchanged
  <1>2. PICK y \in DialogStates : y = bundle[d] /\ FollowsItsOptions(y)
    BY DEF BundleInv, DialogsInv
  <1>3. content \in Nat /\ content \in 0..MaxContent /\ DialogsInv
    BY DEF BundleConstants, BundleInv, ServiceInv, ServiceTyped, Bundle!Versions
  <1> SUFFICES \E x \in DialogStates : bundle' = [bundle EXCEPT ![d] = x] /\ FollowsItsOptions(x)
    <2>1. ASSUME NEW x \in DialogStates, FollowsItsOptions(x) PROVE FollowsItsOptions(x)'
      BY <1>1, <2>1 DEF FollowsItsOptions
    <2> QED
      BY <1>1, <2>1, OneDialogChanges
  <1>4. CASE Bundle!OpenDialog(d) \/ Bundle!CloseDialog(d)
    BY <1>3, <1>4, FreshDialogTyped, FreshDialogFollows DEF Bundle!OpenDialog, Bundle!CloseDialog
  <1>5. CASE Bundle!ShowWarnings(d)
    <2>1. PICK w \in BOOLEAN : w = ~y.warnings
      OBVIOUS
    <2>2. PICK x : x = [y EXCEPT !.warnings = w]
      OBVIOUS
    <2>3. /\ x \in DialogStates /\ x.stage = y.stage /\ x.job = y.job /\ x.ready = y.ready
          /\ x.flag = y.flag /\ x.asked = y.asked /\ x.timer = y.timer /\ x.polling = y.polling
      BY <2>2 DEF DialogStates
    <2>4. bundle' = [bundle EXCEPT ![d] = x]
      BY <1>2, <1>5, <2>1, <2>2 DEF Bundle!ShowWarnings
    <2> QED
      BY <1>2, <2>3, <2>4 DEF FollowsItsOptions
  <1>6. CASE Bundle!Start(d)
    <2>0. PICK v \in 0..MaxContent : v = content
      BY <1>3
    <2>1. PICK x : x = [y EXCEPT !.stage = "requesting", !.ready = Bundle!NoBundle, !.job = 0,
                                 !.asked = v]
      OBVIOUS
    <2>2. 0 \in 0..MaxBuilds
      BY DEF BundleConstants
    <2>3. /\ x \in DialogStates /\ x.ready = Bundle!NoBundle
          /\ x.asked = v /\ x.timer = y.timer /\ x.polling = y.polling
      BY <2>1, <2>2 DEF DialogStates, Bundle!Stages
    <2>4. bundle' = [bundle EXCEPT ![d] = x] /\ y.stage \in Quiet
      BY <1>2, <1>6, <2>0, <2>1 DEF Bundle!Start, Quiet
    <2>5. ~x.timer /\ ~x.polling
      BY <1>2, <2>3, <2>4 DEF FollowsItsOptions
    <2>6. x.asked <= content
      BY <1>3, <2>0, <2>3
    <2>7. FollowsItsOptions(x)
      BY <2>3, <2>5, <2>6 DEF FollowsItsOptions
    <2> QED
      BY <2>3, <2>4, <2>7
  <1>7. ASSUME NEW st \in {"downloading", "complete"},
               bundle' = [bundle EXCEPT ![d].stage = st]
        PROVE  \E x \in DialogStates : bundle' = [bundle EXCEPT ![d] = x] /\ FollowsItsOptions(x)
    <2>1. PICK x : x = [y EXCEPT !.stage = st]
      OBVIOUS
    <2>2. /\ x \in DialogStates /\ x.stage = st /\ x.job = y.job /\ x.ready = y.ready
          /\ x.flag = y.flag /\ x.asked = y.asked /\ x.timer = y.timer /\ x.polling = y.polling
      BY <2>1 DEF DialogStates, Bundle!Stages
    <2>3. bundle' = [bundle EXCEPT ![d] = x]
      BY <1>2, <1>7, <2>1
    <2> QED
      BY <1>2, <2>2, <2>3 DEF FollowsItsOptions, Quiet
  <1>8. ASSUME NEW f \in BOOLEAN, Bundle!IncludeReference(d, f)
        PROVE  \E x \in DialogStates : bundle' = [bundle EXCEPT ![d] = x] /\ FollowsItsOptions(x)
    <2>1. PICK x : x = [y EXCEPT !.flag = f]
      OBVIOUS
    <2>2. /\ x \in DialogStates /\ x.stage = y.stage /\ x.ready = y.ready
          /\ x.asked = y.asked /\ x.timer = y.timer /\ x.polling = y.polling
      BY <2>1 DEF DialogStates
    <2>3. bundle' = [bundle EXCEPT ![d] = x] /\ y.stage \in Quiet
      BY <1>2, <1>8, <2>1 DEF Bundle!IncludeReference, Quiet
    <2> QED
      BY <1>2, <2>2, <2>3 DEF FollowsItsOptions
  <1>9. CASE Bundle!RequestFails(d) \/ Bundle!PollFails(d)
    <2>1. PICK x \in DialogStates : bundle' = [bundle EXCEPT ![d] = x] /\ FollowsItsOptions(x)'
      BY <1>1, <1>3, <1>9, FailsFollows DEF Bundle!RequestFails, Bundle!PollFails
    <2> QED
      BY <1>1, <2>1 DEF FollowsItsOptions
  <1>10. CASE Bundle!Poll(d)
    <2>1. PICK x : x = [y EXCEPT !.timer = FALSE, !.polling = TRUE]
      OBVIOUS
    <2>2. /\ x \in DialogStates /\ x.stage = y.stage /\ x.job = y.job /\ x.ready = y.ready
          /\ x.flag = y.flag /\ x.asked = y.asked
      BY <2>1 DEF DialogStates
    <2>3. bundle' = [bundle EXCEPT ![d] = x] /\ y.timer
      BY <1>2, <1>10, <2>1 DEF Bundle!Poll
    <2> QED
      BY <1>2, <2>2, <2>3 DEF FollowsItsOptions
  <1> QED
    BY <1>4, <1>5, <1>6, <1>7, <1>8, <1>9, <1>10 DEF Bundle!Download, Bundle!Downloaded

(* The answer to a request: a bundle of the caches, a job under way, or a  *)
(* new one.                                                                *)
LEMMA EnqueueKeeps ==
  ASSUME BundleConstants, BundleInv, NEW d \in Dialogs, NEW f \in BOOLEAN, f = bundle[d].flag,
         Bundle!Enqueue(d, f), hot' = [hot EXCEPT ![f] = Bundle!NoBundle],
         UNCHANGED <<content, filed>>
  PROVE  BundleInv'
  <1>0. ServiceTyped /\ content \in Bundle!Versions /\ content \in Nat /\ Len(builds) \in Nat
    BY LenProperties DEF BundleInv, ServiceInv, ServiceTyped, Bundle!Versions
  <1>1. PICK new \in Builds :
          /\ new = [flag |-> f, hash |-> content, read |-> 0, status |-> "pending"]
          /\ new.flag = f /\ new.hash = content /\ new.read = 0 /\ new.status = "pending"
    <2>1. [flag |-> f, hash |-> content, read |-> 0, status |-> "pending"] \in Builds
      BY <1>0 DEF Builds, BundleConstants
    <2> QED
      BY <2>1
  <1>2. builds \in Seq(Builds) /\ builds' = Append(builds, new)
    BY <1>0, <1>1 DEF ServiceTyped, Bundle!Enqueue
  <1>3. /\ builds' \in Seq(Builds) /\ Len(builds') = Len(builds) + 1
        /\ builds'[Len(builds')] = new
        /\ \A j \in 1..Len(builds) : builds'[j] = builds[j]
    BY <1>1, <1>2, AppendProperties
  <1>4. PICK n \in 1..Len(builds') : n = Len(builds') /\ n \in 0..MaxBuilds
    BY <1>0, <1>3 DEF Bundle!Enqueue, BundleConstants
  <1>5. locks' = [locks EXCEPT ![f][content] = n]
    BY <1>4 DEF Bundle!Enqueue
  <1>6. /\ locks' \in [BOOLEAN -> [Bundle!Versions -> 0..Len(builds')]]
        /\ \A g \in BOOLEAN, v \in Bundle!Versions :
             locks'[g][v] = IF g = f /\ v = content THEN n ELSE locks[g][v]
    <2>1. locks \in [BOOLEAN -> [Bundle!Versions -> 0..Len(builds')]]
      <3>1. 0..Len(builds) \subseteq 0..Len(builds')
        BY <1>0, <1>3
      <3> QED
        BY <1>0, <3>1 DEF ServiceTyped
    <2>2. PICK S : S = 0..Len(builds')
      OBVIOUS
    <2>3. n \in S
      BY <1>0, <1>3, <1>4, <2>2
    <2> QED
      BY <1>0, <1>5, <2>1, <2>2, <2>3
  <1>7. ServiceTyped'
    BY <1>0, <1>3, <1>4, <1>6 DEF ServiceTyped, BundleConstants
  <1>8. JobsReadLater'
    BY <1>0, <1>1, <1>3 DEF BundleInv, ServiceInv, JobsReadLater, ReadAfterAsked
  <1>9. FiledReadLater' /\ HotReadLater'
    BY <1>0 DEF BundleInv, ServiceInv, ServiceTyped, FiledReadLater, HotReadLater, ReadAfterAsked
  <1>10. LocksNameTheirJob'
    <2> SUFFICES ASSUME NEW g \in BOOLEAN, NEW v \in Bundle!Versions, locks'[g][v] # 0
                 PROVE  builds'[locks'[g][v]].flag = g /\ builds'[locks'[g][v]].hash = v
      BY DEF LocksNameTheirJob
    <2>1. CASE g = f /\ v = content
      BY <1>1, <1>3, <1>4, <1>6, <2>1
    <2>2. CASE ~(g = f /\ v = content)
      <3>1. locks'[g][v] = locks[g][v]
        BY <1>6, <2>2
      <3>2. locks[g][v] \in 1..Len(builds)
        BY <1>0, <3>1 DEF ServiceTyped
      <3> QED
        BY <1>3, <3>1, <3>2 DEF BundleInv, ServiceInv, LocksNameTheirJob
    <2> QED
      BY <2>1, <2>2
  <1>11. ServiceInv'
    BY <1>7, <1>8, <1>9, <1>10 DEF ServiceInv
  <1>12. JobsGoOn
    BY <1>0, <1>3 DEF JobsGoOn
  <1>13. bundle[d].asked <= content
    BY DEF BundleInv, DialogsInv, FollowsItsOptions
  <1>14. PICK x \in DialogStates : bundle' = [bundle EXCEPT ![d] = x] /\ FollowsItsOptions(x)'
    <2>1. Bundle!Waits(d, n, "queued")
      BY <1>4 DEF Bundle!Enqueue
    <2>2. builds'[n].flag = bundle[d].flag /\ builds'[n].hash >= bundle[d].asked
      <3>1. bundle[d].asked \in Nat
        BY DEF BundleInv, DialogsInv, DialogStates
      <3> QED
        BY <1>0, <1>1, <1>3, <1>4, <1>13, <3>1
    <2> QED
      BY <1>4, <2>1, <2>2, WaitsFollows DEF BundleInv
  <1> QED
    BY <1>11, <1>12, <1>14, OneDialogChanges

LEMMA RequestKeeps ==
  ASSUME BundleConstants, BundleInv, NEW d \in Dialogs, Bundle!RequestReturns(d)
  PROVE  BundleInv'
  <1>0. ServiceTyped /\ content \in Bundle!Versions /\ content \in Nat /\ Len(builds) \in Nat
    BY LenProperties DEF BundleInv, ServiceInv, ServiceTyped, Bundle!Versions
  <1>1. PICK f \in BOOLEAN : f = bundle[d].flag
    BY DEF BundleInv, DialogsInv, DialogStates
  <1>2. bundle[d].asked \in Nat /\ bundle[d].asked <= content /\ DialogsInv
    BY DEF BundleInv, DialogsInv, FollowsItsOptions, DialogStates
  <1>3. UNCHANGED <<content, filed>>
    BY DEF Bundle!RequestReturns
  <1>4. ASSUME NEW b \in Bundle!Bundles, b.flag = f, b.hash = content, ReadAfterAsked(b),
               Bundle!Offers(d, b), hot' = hot \/ hot' = [hot EXCEPT ![f] = b],
               UNCHANGED <<locks, builds>>
        PROVE  BundleInv'
    <2>1. hot' \in [BOOLEAN -> Bundle!Bundles \union {Bundle!NoBundle}] /\ HotReadLater'
      BY <1>0, <1>4 DEF BundleInv, ServiceInv, ServiceTyped, HotReadLater, ReadAfterAsked
    <2>2. b.read >= bundle[d].asked
      <3>1. b.read \in Nat
        BY DEF Bundle!Bundles, Bundle!Versions
      <3> QED
        BY <1>0, <1>2, <1>4, <3>1 DEF ReadAfterAsked
    <2>3. PICK x \in DialogStates : bundle' = [bundle EXCEPT ![d] = x] /\ FollowsItsOptions(x)'
      BY <1>1, <1>2, <1>3, <1>4, <2>2, OffersFollows
    <2> QED
      BY <1>3, <1>4, <2>1, <2>3, ServiceStays, OneDialogChanges
  <1>5. CASE Bundle!ServesHot(f)
    <2>1. /\ hot[f] \in Bundle!Bundles /\ hot[f].flag = f /\ hot[f].hash = content
          /\ ReadAfterAsked(hot[f])
      BY <1>0, <1>5 DEF BundleInv, ServiceInv, ServiceTyped, HotReadLater, Bundle!ServesHot
    <2>2. Bundle!Offers(d, hot[f]) /\ UNCHANGED <<hot, locks, builds>>
      BY <1>1, <1>5 DEF Bundle!RequestReturns
    <2> QED
      BY <1>4, <2>1, <2>2
  <1>6. ASSUME NEW b \in Bundle!Matches(f), Bundle!Offers(d, b), hot' = [hot EXCEPT ![f] = b],
               UNCHANGED <<locks, builds>>
        PROVE  BundleInv'
    <2>1. b \in Bundle!Bundles /\ b.flag = f /\ b.hash = content /\ ReadAfterAsked(b)
      BY <1>0, <1>6 DEF BundleInv, ServiceInv, ServiceTyped, FiledReadLater, Bundle!Matches
    <2> QED
      BY <1>4, <1>6, <2>1
  <1>7. ASSUME Bundle!InFlight(f), hot' = [hot EXCEPT ![f] = Bundle!NoBundle],
               UNCHANGED <<locks, builds>>,
               \E st \in {"queued", "running"} : Bundle!Waits(d, locks[f][content], st)
        PROVE  BundleInv'
    <2>1. PICK j \in 1..Len(builds) : j = locks[f][content] /\ j \in 0..MaxBuilds
      <3>1. locks[f][content] \in 0..Len(builds) /\ locks[f][content] # 0
        BY <1>0, <1>7 DEF ServiceTyped, Bundle!InFlight
      <3> QED
        BY <1>0, <3>1 DEF ServiceTyped, BundleConstants
    <2>2. builds[j].flag = f /\ builds[j].hash = content
      BY <1>0, <2>1 DEF BundleInv, ServiceInv, LocksNameTheirJob
    <2>3. hot' \in [BOOLEAN -> Bundle!Bundles \union {Bundle!NoBundle}] /\ HotReadLater'
      BY <1>0, <1>7 DEF BundleInv, ServiceInv, ServiceTyped, HotReadLater, ReadAfterAsked
    <2>4. builds'[j].flag = bundle[d].flag /\ builds'[j].hash >= bundle[d].asked
      BY <1>0, <1>1, <1>2, <1>7, <2>2
    <2>5. PICK x \in DialogStates : bundle' = [bundle EXCEPT ![d] = x] /\ FollowsItsOptions(x)'
      <3>1. PICK st \in {"queued", "running"} : Bundle!Waits(d, j, st)
        BY <1>7, <2>1
      <3>2. j \in 1..Len(builds')
        BY <1>7, <2>1
      <3> QED
        BY <1>2, <1>3, <2>1, <2>4, <3>1, <3>2, WaitsFollows
    <2> QED
      BY <1>3, <1>7, <2>3, <2>5, ServiceStays, OneDialogChanges
  <1>8. CASE ~Bundle!ServesHot(f)
    <2>1. \/ \E b \in Bundle!Matches(f) :
               Bundle!Offers(d, b) /\ hot' = [hot EXCEPT ![f] = b] /\ UNCHANGED <<locks, builds>>
          \/ /\ hot' = [hot EXCEPT ![f] = Bundle!NoBundle]
             /\ \/ /\ Bundle!InFlight(f) /\ UNCHANGED <<locks, builds>>
                   /\ \E st \in {"queued", "running"} : Bundle!Waits(d, locks[f][content], st)
                \/ Bundle!Enqueue(d, f)
      BY <1>1, <1>8 DEF Bundle!RequestReturns
    <2> QED
      BY <1>1, <1>3, <1>6, <1>7, <2>1, EnqueueKeeps
  <1> QED
    BY <1>5, <1>8

(* The answer to a poll: what the job made, that it failed, or that it goes *)
(* on.                                                                      *)
LEMMA PollKeeps ==
  ASSUME BundleConstants, BundleInv, NEW d \in Dialogs, Bundle!PollReturns(d)
  PROVE  BundleInv'
  <1>0. /\ ServiceTyped /\ Bundle!ServiceUnchanged /\ UNCHANGED <<content, builds>>
        /\ Len(builds) \in Nat /\ DialogsInv
    BY LenProperties DEF BundleInv, ServiceInv, ServiceTyped, Bundle!PollReturns,
       Bundle!ServiceUnchanged
  <1>1. PICK n \in 1..Len(builds) :
          /\ n = bundle[d].job /\ n \in 0..MaxBuilds
          /\ builds[n].flag = bundle[d].flag /\ builds[n].hash >= bundle[d].asked
    <2>1. bundle[d].job \in 1..Len(builds)
      BY <1>0 DEF DialogsInv, FollowsItsOptions, Bundle!PollReturns
    <2> QED
      BY <1>0, <2>1 DEF DialogsInv, FollowsItsOptions, Bundle!PollReturns, ServiceTyped,
         BundleConstants
  <1>2. PICK j \in Builds : j = builds[n]
    BY <1>0, <1>1, ElementOfSeq DEF ServiceTyped
  <1>3. bundle[d].asked \in Nat
    BY <1>0 DEF DialogsInv, DialogStates
  <1>4. SUFFICES \E x \in DialogStates : bundle' = [bundle EXCEPT ![d] = x]
                                         /\ FollowsItsOptions(x)'
    BY <1>0, ServiceRests, OneDialogChanges
  <1>5. CASE j.status = "success"
    <2>0. PICK b : b = [flag |-> j.flag, hash |-> j.hash, read |-> j.read]
      OBVIOUS
    <2>1. b.flag = j.flag /\ b.hash = j.hash /\ b.read = j.read
      BY <2>0
    <2>2. j.read # 0 /\ j.read >= j.hash
      BY <1>1, <1>2, <1>5 DEF BundleInv, ServiceInv, JobsReadLater, ReadAfterAsked
    <2>3. b \in Bundle!Bundles
      BY <2>0, <2>2 DEF Bundle!Bundles, Bundle!Flags, Bundle!Versions, Builds
    <2>4. b.read >= bundle[d].asked
      BY <1>1, <1>2, <1>3, <2>1, <2>2 DEF Builds, Bundle!Versions
    <2>5. Bundle!Offers(d, b)
      BY <1>1, <1>2, <1>5, <2>0 DEF Bundle!PollReturns
    <2> QED
      BY <1>0, <1>1, <1>2, <2>1, <2>3, <2>4, <2>5, OffersFollows
  <1>6. CASE j.status = "failed"
    <2>1. Bundle!Fails(d)
      BY <1>1, <1>2, <1>6 DEF Bundle!PollReturns
    <2> QED
      BY <1>0, <2>1, FailsFollows
  <1>7. CASE j.status \notin {"success", "failed"}
    <2>1. PICK st \in {"queued", "running"} : Bundle!Waits(d, n, st)
      BY <1>1, <1>2, <1>7 DEF Bundle!PollReturns
    <2>2. n \in 1..Len(builds') /\ builds'[n] = builds[n]
      BY <1>0
    <2> QED
      BY <1>0, <1>1, <2>1, <2>2, WaitsFollows
  <1> QED
    BY <1>5, <1>6, <1>7

(* A job goes on.  Its options and its hash stay, and what it reads is the *)
(* content, which is not older.                                            *)
LEMMA JobChanges ==
  ASSUME BundleConstants, BundleInv, NEW j \in 1..Len(builds), NEW new \in Builds,
         new.flag = builds[j].flag, new.hash = builds[j].hash,
         new.read # 0 => ReadAfterAsked(new), new.status = "success" => new.read # 0,
         builds' = [builds EXCEPT ![j] = new],
         locks' = locks \/ locks' = [locks EXCEPT ![builds[j].flag][builds[j].hash] = 0],
         filed' \subseteq Bundle!Bundles /\ FiledReadLater',
         hot' \in [BOOLEAN -> Bundle!Bundles \union {Bundle!NoBundle}] /\ HotReadLater',
         UNCHANGED <<bundle, content>>
  PROVE  BundleInv'
  <1>0. ServiceTyped /\ content \in Nat /\ Len(builds) \in Nat /\ builds \in Seq(Builds)
    BY LenProperties DEF BundleInv, ServiceInv, ServiceTyped, Bundle!Versions
  <1>1. /\ builds' \in Seq(Builds) /\ Len(builds') = Len(builds) /\ builds'[j] = new
        /\ \A i \in 1..Len(builds) : i # j => builds'[i] = builds[i]
    BY <1>0, ExceptSeq
  <1>2. /\ locks' \in [BOOLEAN -> [Bundle!Versions -> 0..Len(builds)]]
        /\ \A f \in BOOLEAN, v \in Bundle!Versions : locks'[f][v] \in {0, locks[f][v]}
    <2>1. PICK S : S = 0..Len(builds) /\ 0 \in S
      BY <1>0
    <2>2. locks \in [BOOLEAN -> [Bundle!Versions -> S]]
      BY <1>0, <2>1 DEF ServiceTyped
    <2>3. PICK g \in BOOLEAN : g = builds[j].flag
      BY <1>0, BuildTyped
    <2>4. PICK h \in Bundle!Versions : h = builds[j].hash
      BY <1>0, BuildTyped
    <2>5. CASE locks' = locks
      BY <2>1, <2>2, <2>5
    <2>6. CASE locks' = [locks EXCEPT ![g][h] = 0]
      BY <2>1, <2>2, <2>6
    <2> QED
      BY <2>3, <2>4, <2>5, <2>6
  <1>3. ServiceTyped'
    BY <1>0, <1>1, <1>2 DEF ServiceTyped
  <1>4. JobsReadLater'
    BY <1>1 DEF BundleInv, ServiceInv, JobsReadLater, ReadAfterAsked
  <1>5. LocksNameTheirJob'
    <2> SUFFICES ASSUME NEW f \in BOOLEAN, NEW v \in Bundle!Versions, locks'[f][v] # 0
                 PROVE  builds'[locks'[f][v]].flag = f /\ builds'[locks'[f][v]].hash = v
      BY DEF LocksNameTheirJob
    <2>1. locks'[f][v] = locks[f][v] /\ locks[f][v] \in 1..Len(builds)
      BY <1>0, <1>2 DEF ServiceTyped
    <2>2. builds[locks[f][v]].flag = f /\ builds[locks[f][v]].hash = v
      BY <2>1 DEF BundleInv, ServiceInv, LocksNameTheirJob
    <2> QED
      BY <1>1, <2>1, <2>2
  <1>6. ServiceInv' /\ JobsGoOn
    BY <1>0, <1>1, <1>3, <1>4, <1>5 DEF ServiceInv, JobsGoOn
  <1> QED
    BY <1>6, NoDialogChanges

LEMMA WorkerKeeps ==
  ASSUME BundleConstants, BundleInv, NEW j \in DOMAIN builds, Bundle!WorkerStep(j)
  PROVE  BundleInv'
  <1>0. /\ ServiceTyped /\ FiledReadLater /\ HotReadLater /\ content \in Bundle!Versions
        /\ content \in Nat /\ j \in 1..Len(builds) /\ builds \in Seq(Builds)
    BY LenProperties DEF BundleInv, ServiceInv, ServiceTyped, Bundle!Versions
  <1>1. PICK old \in Builds :
          /\ old = builds[j] /\ old.hash <= content /\ old.hash \in Nat
          /\ old.read # 0 => ReadAfterAsked(old)
          /\ old.status = "success" => old.read # 0
    BY <1>0, BuildTyped DEF BundleInv, ServiceInv, JobsReadLater
  <1>2. filed \subseteq Bundle!Bundles
        /\ hot \in [BOOLEAN -> Bundle!Bundles \union {Bundle!NoBundle}]
    BY <1>0 DEF ServiceTyped
  <1>3. ASSUME NEW st \in {"running", "failed", "success"}, st = "success" => old.read # 0,
               builds' = [builds EXCEPT ![j].status = st],
               \/ locks' = locks
               \/ locks' = [locks EXCEPT ![builds[j].flag][builds[j].hash] = 0],
               filed' \subseteq Bundle!Bundles /\ FiledReadLater',
               hot' \in [BOOLEAN -> Bundle!Bundles \union {Bundle!NoBundle}] /\ HotReadLater',
               UNCHANGED <<bundle, content>>
        PROVE  BundleInv'
    <2>1. PICK new : new = [old EXCEPT !.status = st]
      OBVIOUS
    <2>2. /\ new \in Builds /\ new.flag = old.flag /\ new.hash = old.hash /\ new.read = old.read
          /\ new.status = st
      BY <2>1 DEF Builds
    <2>3. builds' = [builds EXCEPT ![j] = new]
      BY <1>1, <1>3, <2>1
    <2>4. /\ new.read # 0 => ReadAfterAsked(new)
          /\ new.status = "success" => new.read # 0
      BY <1>1, <1>3, <2>2 DEF ReadAfterAsked
    <2> QED
      BY <1>0, <1>1, <1>3, <2>2, <2>3, <2>4, JobChanges
  <1>4. (UNCHANGED <<filed, hot>>) =>
          /\ filed' \subseteq Bundle!Bundles /\ FiledReadLater'
          /\ hot' \in [BOOLEAN -> Bundle!Bundles \union {Bundle!NoBundle}] /\ HotReadLater'
    BY <1>0, <1>2 DEF FiledReadLater, HotReadLater, ReadAfterAsked
  <1>5. CASE Bundle!WorkerTakes(j)
    <2>1. PICK st \in {"running", "failed"} : builds' = [builds EXCEPT ![j].status = st]
      BY <1>5 DEF Bundle!WorkerTakes
    <2> QED
      BY <1>3, <1>4, <1>5, <2>1 DEF Bundle!WorkerTakes
  <1>6. CASE Bundle!WorkerReads(j)
    <2>0. PICK v \in 0..MaxContent : v = content
      BY <1>0 DEF Bundle!Versions, BundleConstants
    <2>1. PICK new : new = [old EXCEPT !.read = v]
      OBVIOUS
    <2>2. /\ new \in Builds /\ new.flag = old.flag /\ new.hash = old.hash /\ new.read = v
          /\ new.status = old.status
      BY <2>1 DEF Builds
    <2>3. builds' = [builds EXCEPT ![j] = new]
      BY <1>1, <1>6, <2>0, <2>1 DEF Bundle!WorkerReads
    <2>4. /\ ReadAfterAsked(new) /\ new.status # "success"
          /\ locks' = locks /\ UNCHANGED <<filed, hot, bundle, content>>
      BY <1>0, <1>1, <1>6, <2>0, <2>2 DEF ReadAfterAsked, Bundle!WorkerReads
    <2> QED
      BY <1>0, <1>1, <1>4, <2>2, <2>3, <2>4, JobChanges
  <1>7. CASE Bundle!WorkerFinishes(j)
    <2>0. PICK b : b = [flag |-> old.flag, hash |-> old.hash, read |-> old.read]
      OBVIOUS
    <2>1. b.flag = old.flag /\ b.hash = old.hash /\ b.read = old.read
      BY <2>0
    <2>2. old.read # 0
      BY <1>1, <1>7 DEF Bundle!WorkerFinishes
    <2>3. b \in Bundle!Bundles /\ ReadAfterAsked(b) /\ b.flag \in BOOLEAN
      BY <1>1, <2>0, <2>1, <2>2 DEF Builds, Bundle!Bundles, Bundle!Flags, Bundle!Versions,
         ReadAfterAsked
    <2>4. filed' = filed \union {b} /\ hot' = [hot EXCEPT ![b.flag] = b]
      BY <1>1, <1>7, <2>0, <2>1 DEF Bundle!WorkerFinishes
    <2>5. /\ filed' \subseteq Bundle!Bundles /\ FiledReadLater'
          /\ hot' \in [BOOLEAN -> Bundle!Bundles \union {Bundle!NoBundle}] /\ HotReadLater'
      BY <1>0, <1>2, <2>3, <2>4 DEF FiledReadLater, HotReadLater, ReadAfterAsked
    <2> QED
      BY <1>3, <1>7, <2>2, <2>5 DEF Bundle!WorkerFinishes, Bundle!ReleasesLock
  <1>8. CASE Bundle!WorkerFails(j)
    BY <1>3, <1>4, <1>8 DEF Bundle!WorkerFails, Bundle!ReleasesLock
  <1> QED
    BY <1>5, <1>6, <1>7, <1>8 DEF Bundle!WorkerStep

LEMMA ContentKeepsBundle ==
  ASSUME BundleConstants, BundleInv, Bundle!ContentChanges
  PROVE  BundleInv'
  <1>0. ServiceTyped /\ content \in Nat /\ Len(builds) \in Nat /\ builds \in Seq(Builds)
    BY LenProperties DEF BundleInv, ServiceInv, ServiceTyped, Bundle!Versions
  <1>1. content' \in Bundle!Versions /\ content' = content + 1
    BY <1>0 DEF Bundle!ContentChanges, Bundle!Versions, BundleConstants
  <1>2. ASSUME NEW j \in 1..Len(builds)
        PROVE  builds[j].hash \in Nat
    BY BuildTyped DEF BundleInv, ServiceInv
  <1>3. JobsReadLater'
    BY <1>0, <1>1, <1>2 DEF BundleInv, ServiceInv, JobsReadLater, ReadAfterAsked,
       Bundle!ContentChanges
  <1>4. ServiceInv' /\ JobsGoOn
    BY <1>0, <1>1, <1>3 DEF BundleInv, ServiceInv, ServiceTyped, FiledReadLater, HotReadLater,
       ReadAfterAsked, LocksNameTheirJob, JobsGoOn, Bundle!ContentChanges
  <1> QED
    BY <1>4, NoDialogChanges DEF Bundle!ContentChanges

LEMMA ExpiryKeeps ==
  ASSUME BundleInv, NEW f \in BOOLEAN, NEW v \in Bundle!Versions, Bundle!LockExpires(f, v)
  PROVE  BundleInv'
  <1>0. ServiceTyped /\ content \in Nat /\ Len(builds) \in Nat /\ builds \in Seq(Builds)
    BY LenProperties DEF BundleInv, ServiceInv, ServiceTyped, Bundle!Versions
  <1>1. /\ locks' \in [BOOLEAN -> [Bundle!Versions -> 0..Len(builds)]]
        /\ \A g \in BOOLEAN, w \in Bundle!Versions : locks'[g][w] \in {0, locks[g][w]}
    <2>1. PICK S : S = 0..Len(builds) /\ 0 \in S
      BY <1>0
    <2>2. locks \in [BOOLEAN -> [Bundle!Versions -> S]]
      BY <1>0, <2>1 DEF ServiceTyped
    <2> QED
      BY <2>1, <2>2 DEF Bundle!LockExpires
  <1>2. LocksNameTheirJob'
    BY <1>1 DEF BundleInv, ServiceInv, LocksNameTheirJob, Bundle!LockExpires
  <1>3. ServiceInv' /\ JobsGoOn
    BY <1>0, <1>1, <1>2 DEF BundleInv, ServiceInv, ServiceTyped, JobsReadLater, FiledReadLater,
       HotReadLater, ReadAfterAsked, JobsGoOn, Bundle!LockExpires
  <1> QED
    BY <1>3, NoDialogChanges DEF Bundle!LockExpires

LEMMA BundleStepKeeps ==
  ASSUME BundleConstants, BundleInv, [Bundle!Next]_Bundle!vars
  PROVE  BundleInv'
  <1>1. CASE UNCHANGED Bundle!vars
    <2>1. Bundle!ServiceUnchanged /\ bundle' = bundle
      BY <1>1 DEF Bundle!vars, Bundle!bundleVars, Bundle!ServiceUnchanged
    <2> QED
      BY <2>1, ServiceRests, NoDialogChanges
  <1>2. CASE Bundle!Next
    BY <1>2, DialogKeeps, RequestKeeps, PollKeeps, WorkerKeeps, ContentKeepsBundle, ExpiryKeeps
    DEF Bundle!Next, Bundle!AnswerStep, Bundle!Flags
  <1> QED
    BY <1>1, <1>2

------------------------------------------------------------------------------
(* A step of the composition is a step of a page, or none of its. *)

LEMMA RouteStays == [Next]_vars => UNCHANGED route
  <1>1. Reconcile!Next => UNCHANGED route
    BY DEF Reconcile!Next, Reconcile!Here
  <1>2. Conflict!Next => UNCHANGED route
    BY DEF Conflict!Next, Conflict!Here
  <1>3. Import!Next => UNCHANGED route
    BY DEF Import!Next, Import!Here
  <1>4. Feature!Next => UNCHANGED route
    BY DEF Feature!Next, Feature!Here
  <1>5. Bundle!Next => UNCHANGED route
    BY DEF Bundle!Next, Bundle!Here
  <1> QED
    BY <1>1, <1>2, <1>3, <1>4, <1>5 DEF Next, vars

LEMMA ReconcileStutters == [Next]_vars => [Reconcile!Next]_Reconcile!vars
  <1>1. UNCHANGED reconcileVars => UNCHANGED Reconcile!flowVars
    BY DEF reconcileVars, Reconcile!flowVars
  <1>2. [Next]_vars => Reconcile!Next \/ UNCHANGED reconcileVars
    BY DEF Next, vars
  <1> QED
    BY RouteStays, <1>1, <1>2 DEF Reconcile!vars

LEMMA ConflictStutters == [Next]_vars => [Conflict!Next]_Conflict!vars
  <1>1. UNCHANGED conflictVars => UNCHANGED Conflict!conflictVars
    BY DEF conflictVars, Conflict!conflictVars
  <1>2. [Next]_vars => Conflict!Next \/ UNCHANGED conflictVars
    BY DEF Next, vars
  <1> QED
    BY RouteStays, <1>1, <1>2 DEF Conflict!vars

LEMMA ImportStutters == [Next]_vars => [Import!Next]_Import!vars
  <1>1. UNCHANGED importVars => UNCHANGED Import!wizardVars
    BY DEF importVars, Import!wizardVars
  <1>2. [Next]_vars => Import!Next \/ UNCHANGED importVars
    BY DEF Next, vars
  <1> QED
    BY RouteStays, <1>1, <1>2 DEF Import!vars

LEMMA FeatureStutters == [Next]_vars => [Feature!Next]_Feature!vars
  <1>1. UNCHANGED featureVars => UNCHANGED Feature!tableVars
    BY DEF featureVars, Feature!tableVars
  <1>2. [Next]_vars => Feature!Next \/ UNCHANGED featureVars
    BY DEF Next, vars
  <1> QED
    BY RouteStays, <1>1, <1>2 DEF Feature!vars

LEMMA BundleStutters == [Next]_vars => [Bundle!Next]_Bundle!vars
  <1>1. UNCHANGED bundleVars => UNCHANGED Bundle!bundleVars
    BY DEF bundleVars, Bundle!bundleVars
  <1>2. [Next]_vars => Bundle!Next \/ UNCHANGED bundleVars
    BY DEF Next, vars
  <1> QED
    BY RouteStays, <1>1, <1>2 DEF Bundle!vars

------------------------------------------------------------------------------
(* What each page assumes of its constants. *)

LEMMA FlowAssumed == FlowConstants
  BY WebWorkAssumption DEF WebWorkAssumption, FlowConstants

LEMMA ConflictAssumed == ConflictConstants
  BY WebWorkAssumption DEF WebWorkAssumption, ConflictConstants

LEMMA ImportAssumed == ImportConstants
  BY WebWorkAssumption DEF WebWorkAssumption, ImportConstants

LEMMA FeatureAssumed == FeatureConstants
  BY WebWorkAssumption DEF WebWorkAssumption, FeatureConstants

LEMMA TableAssumed == TableConstants
  BY WebWorkAssumption DEF WebWorkAssumption, TableConstants

LEMMA BundleAssumed == BundleConstants
  BY WebWorkAssumption DEF WebWorkAssumption, BundleConstants

------------------------------------------------------------------------------
(* The conclusions. *)

(* The variables of every page of the console that waits for work keep      *)
(* their types, for any sources, conflicts, tables, features, dialogs and   *)
(* bounds, whatever answers come late.                                     *)
THEOREM WorkTypesCorrect == Spec => []TypeOK
  <1> DEFINE Inv == FlowInv /\ ConflictInv /\ ImportInv /\ FeatureInv /\ BundleInv
  <1>1. Init => Inv
    BY FlowInitial, ConflictAssumed, ConflictInitial, ImportInitial, TableAssumed, FeatureInitial,
       BundleAssumed, BundleInitial
    DEF Init
  <1>2. Inv /\ [Next]_vars => Inv'
    BY FlowAssumed, ConflictAssumed, ImportAssumed, TableAssumed, BundleAssumed, ReconcileStutters,
       ConflictStutters, ImportStutters, FeatureStutters, BundleStutters, FlowStepKeeps,
       ConflictStepKeeps, ImportStepKeeps, FeatureStepKeeps, BundleStepKeeps
  <1>3. Inv => TypeOK
    BY FlowInvIsEnough, ImportInvIsEnough, TableAssumed, FeatureInvIsEnough, BundleAssumed,
       BundleInvIsEnough
    DEF FlowInv, ConflictInv, TypeOK
  <1> QED
    BY <1>1, <1>2, <1>3, PTL DEF Spec

(* ReconcileFlowModal.tsx: the job a dialog follows is of its source, for   *)
(* any number of sources, dialogs and jobs, because what a request names   *)
(* is what its dialog names as long as that one is open.                   *)
THEOREM FollowedJobIsOfTheSource == Spec => []JobIsOfTheSource
  <1>1. Init => FlowInv
    BY FlowInitial DEF Init
  <1>2. FlowInv /\ [Next]_vars => FlowInv'
    BY FlowAssumed, ReconcileStutters, FlowStepKeeps
  <1>3. FlowInv => JobIsOfTheSource
    BY FlowInvIsEnough DEF JobIsOfTheSource
  <1> QED
    BY <1>1, <1>2, <1>3, PTL DEF Spec

(* StepRun.tsx: every table that is submitted has a complete configuration, *)
(* for any tables and any answers behind the review, because those can      *)
(* take tables away and add none that was not selected.                    *)
THEOREM SubmitsWhatIsConfigured == Spec => []SubmittedIsConfigured
  <1>1. Init => ImportInv
    BY ImportInitial DEF Init
  <1>2. ImportInv /\ [Next]_vars => ImportInv'
    BY ImportAssumed, ImportStutters, ImportStepKeeps
  <1>3. ImportInv => SubmittedIsConfigured
    BY ImportInvIsEnough DEF SubmittedIsConfigured
  <1> QED
    BY <1>1, <1>2, <1>3, PTL DEF Spec

(* LayerFeatureDrawer.tsx: what the drawer calls written back is in the     *)
(* source, in the version it shows or a later one, for any features,       *)
(* changes and write-backs at once, because the source is never ahead of   *)
(* the field and no row ahead of either.                                   *)
THEOREM SaysWhatIsWritten == Spec => []SaidWritten
  <1>1. Init => DrawerInv
    BY FeatureAssumed, DrawerInitial DEF Init
  <1>2. DrawerInv /\ [Next]_vars => DrawerInv'
    BY FeatureAssumed, FeatureStutters, DrawerStepKeeps
  <1>3. DrawerInv => SaidWritten
    BY DEF DrawerInv, SaidWritten
  <1> QED
    BY <1>1, <1>2, <1>3, PTL DEF Spec

(* useBundleDownload.ts, bundle_service.go: the bundle a dialog offers is   *)
(* of its options and not older than its start, for any number of dialogs, *)
(* versions and jobs, because a worker reads after the hash was taken that  *)
(* its bundle, its caches and its lock are known by.                       *)
THEOREM OffersWhatIsCurrent == Spec => []OfferedIsCurrent
  <1>1. Init => BundleInv /\ route \in Routes
    BY BundleAssumed, BundleInitial DEF Init, Bundle!Init
  <1>2. BundleInv /\ route \in Routes /\ [Next]_vars => (BundleInv /\ route \in Routes)'
    BY BundleAssumed, BundleStutters, BundleStepKeeps, RouteStays
  <1>3. BundleInv /\ route \in Routes => OfferedIsCurrent
    BY BundleAssumed, BundleInvIsEnough DEF OfferedIsCurrent
  <1> QED
    BY <1>1, <1>2, <1>3, PTL DEF Spec
==============================================================================
