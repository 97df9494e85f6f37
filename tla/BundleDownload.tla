----------------------------- MODULE BundleDownload -----------------------------
(***************************************************************************)
(* The dialog that downloads a project's bundle in the field collector's   *)
(* web console, and the service that builds it.                            *)
(*                                                                         *)
(*   apps/fc-web/src/hooks/useBundleDownload.ts, components/bundle/        *)
(*     BundleDialog.tsx                                                    *)
(*   services/fc-api/internal/service/bundle_service.go, bundle_worker.go  *)
(*                                                                         *)
(* The project's content is a version that only grows; its hash is the     *)
(* version.  The dialogs are those of one user, in several tabs.  A bundle *)
(* is known by the flag it was asked with, the hash it is filed under and  *)
(* the version its worker read, which may be newer than the hash.          *)
(***************************************************************************)
EXTENDS Naturals, Sequences, FiniteSets

CONSTANTS
  Routes,
  Dialogs,       \* tabs with a bundle dialog
  MaxContent,    \* bound: versions of the project's content
  MaxBuilds      \* bound: jobs enqueued

VARIABLES
  route,
  bundle,        \* state of each dialog and its hook
  content,       \* version of the project's content
  filed,         \* bundle_cache: bundles that can be served
  hot,           \* hot cache: what is served first, for each flag
  locks,         \* dedup lock of a flag and hash: the job it names, 0 if none
  builds         \* jobs of the worker pool

bundleVars == <<bundle, content, filed, hot, locks, builds>>
vars == <<route, bundleVars>>

Flags == BOOLEAN
Versions == 1..MaxContent
Bundles == [flag : Flags, hash : Versions, read : Versions]
NoBundle == [flag |-> FALSE, hash |-> 0, read |-> 0]
Stages == {"idle", "requesting", "queued", "running", "ready", "downloading", "complete", "error"}
Active == {"pending", "running"}

(* A dialog: the stage on screen, the job it polls, the timer of its next  *)
(* poll, the bundle it offers; asked is the version there was when it was  *)
(* started.                                                                *)
FreshDialog == [open |-> TRUE, stage |-> "idle", flag |-> TRUE, job |-> 0, timer |-> FALSE,
                polling |-> FALSE, ready |-> NoBundle, asked |-> 0, warnings |-> FALSE]
ClosedDialog == [FreshDialog EXCEPT !.open = FALSE]

Init ==
  /\ route \in Routes
  /\ bundle = [d \in Dialogs |-> ClosedDialog]
  /\ content = 1 /\ filed = {} /\ hot = [f \in Flags |-> NoBundle]
  /\ locks = [f \in Flags |-> [v \in Versions |-> 0]] /\ builds = << >>

ServiceUnchanged == UNCHANGED <<content, filed, hot, locks, builds>>

-----------------------------------------------------------------------------
(* The dialog. *)

Busy(d) == bundle[d].stage \in {"requesting", "queued", "running", "downloading"}

OpenDialog(d) ==
  /\ ~bundle[d].open /\ bundle' = [bundle EXCEPT ![d] = FreshDialog]
  /\ ServiceUnchanged

(* The cross, which is disabled while the dialog is busy, or Cancel, which *)
(* is there while a download starts. *)
CloseDialog(d) ==
  /\ bundle[d].open /\ (~Busy(d) \/ bundle[d].stage = "downloading")
  /\ bundle' = [bundle EXCEPT ![d] = ClosedDialog]
  /\ ServiceUnchanged

IncludeReference(d, f) ==
  /\ bundle[d].open /\ bundle[d].stage = "idle"
  /\ bundle' = [bundle EXCEPT ![d].flag = f]
  /\ ServiceUnchanged

ShowWarnings(d) ==
  /\ bundle[d].stage \in {"ready", "downloading", "complete"}
  /\ bundle' = [bundle EXCEPT ![d].warnings = ~@]
  /\ ServiceUnchanged

(* Prepare Bundle, or Try Again. *)
Start(d) ==
  /\ bundle[d].open /\ bundle[d].stage \in {"idle", "error"}
  /\ bundle' = [bundle EXCEPT ![d].stage = "requesting", ![d].ready = NoBundle,
                              ![d].job = 0, ![d].asked = content]
  /\ ServiceUnchanged

Offers(d, b) == bundle' = [bundle EXCEPT ![d].stage = "ready", ![d].ready = b,
                                         ![d].timer = FALSE, ![d].polling = FALSE]
Fails(d) == bundle' = [bundle EXCEPT ![d].stage = "error", ![d].ready = NoBundle,
                                     ![d].timer = FALSE, ![d].polling = FALSE]
Waits_PollsOnce(d, j, stage) ==
  bundle' = [bundle EXCEPT ![d].stage = stage, ![d].job = j, ![d].polling = FALSE,
                           ![d].timer = bundle[d].stage = "requesting"]
Waits(d, j, stage) == bundle' = [bundle EXCEPT ![d].stage = stage, ![d].job = j,
                                               ![d].timer = TRUE, ![d].polling = FALSE]

Download(d) ==
  /\ bundle[d].stage = "ready"
  /\ bundle' = [bundle EXCEPT ![d].stage = "downloading"]
  /\ ServiceUnchanged

Downloaded(d) ==
  /\ bundle[d].stage = "downloading"
  /\ bundle' = [bundle EXCEPT ![d].stage = "complete"]
  /\ ServiceUnchanged

-----------------------------------------------------------------------------
(* RequestBundle as one step, and the answer to it.  A hot bundle is served if its     *)
(* hash is the current one; then the table is asked, then the lock.        *)

ServesHot_AnyHash(f) == hot[f] # NoBundle
ServesHot(f) == hot[f] # NoBundle /\ hot[f].hash = content
Matches(f) == {b \in filed : b.flag = f /\ b.hash = content}
InFlight(f) == LET j == locks[f][content] IN j # 0 /\ builds[j].status \in Active

Enqueue(d, f) ==
  /\ Len(builds) < MaxBuilds
  /\ builds' = Append(builds, [flag |-> f, hash |-> content, read |-> 0, status |-> "pending"])
  /\ locks' = [locks EXCEPT ![f][content] = Len(builds')]
  /\ Waits(d, Len(builds'), "queued")

RequestReturns(d) ==
  /\ bundle[d].stage = "requesting"
  /\ LET f == bundle[d].flag IN
     IF ServesHot(f)
     THEN Offers(d, hot[f]) /\ UNCHANGED <<hot, locks, builds>>
     ELSE \/ /\ Matches(f) # {}
             /\ \E b \in Matches(f) : Offers(d, b) /\ hot' = [hot EXCEPT ![f] = b]
             /\ UNCHANGED <<locks, builds>>
          \/ /\ Matches(f) = {} /\ hot' = [hot EXCEPT ![f] = NoBundle]
             /\ IF InFlight(f)
                THEN /\ LET j == locks[f][content] IN
                        Waits(d, j, IF builds[j].status = "running" THEN "running" ELSE "queued")
                     /\ UNCHANGED <<locks, builds>>
                ELSE Enqueue(d, f)
  /\ UNCHANGED <<content, filed>>

(* Access denied, a draft project, or no connection. *)
RequestFails(d) ==
  /\ bundle[d].stage = "requesting" /\ Fails(d)
  /\ ServiceUnchanged

Poll(d) ==
  /\ bundle[d].timer
  /\ bundle' = [bundle EXCEPT ![d].timer = FALSE, ![d].polling = TRUE]
  /\ ServiceUnchanged

(* GetJobStatus; the result is the bundle filed under the job's hash. *)
PollReturns(d) ==
  /\ bundle[d].polling
  /\ LET j == builds[bundle[d].job] IN
     CASE j.status = "success" ->
            Offers(d, [flag |-> j.flag, hash |-> j.hash, read |-> j.read])
       [] j.status = "failed" -> Fails(d)
       [] OTHER -> Waits(d, bundle[d].job, IF j.status = "running" THEN "running" ELSE "queued")
  /\ ServiceUnchanged

PollFails(d) ==
  /\ bundle[d].polling /\ Fails(d)
  /\ ServiceUnchanged

-----------------------------------------------------------------------------
(* The worker pool.  A job reads the content some time after it started. *)

WorkerTakes(j) ==
  /\ j \in DOMAIN builds /\ builds[j].status = "pending"
  /\ \E st \in {"running", "failed"} : builds' = [builds EXCEPT ![j].status = st]
  /\ UNCHANGED <<bundle, content, filed, hot, locks>>

WorkerReads(j) ==
  /\ j \in DOMAIN builds /\ builds[j].status = "running" /\ builds[j].read = 0
  /\ builds' = [builds EXCEPT ![j].read = content]
  /\ UNCHANGED <<bundle, content, filed, hot, locks>>

ReleasesLock(j) == locks' = [locks EXCEPT ![builds[j].flag][builds[j].hash] = 0]

WorkerFinishes(j) ==
  /\ j \in DOMAIN builds /\ builds[j].status = "running" /\ builds[j].read # 0
  /\ LET b == [flag |-> builds[j].flag, hash |-> builds[j].hash, read |-> builds[j].read] IN
     filed' = filed \union {b} /\ hot' = [hot EXCEPT ![b.flag] = b]
  /\ builds' = [builds EXCEPT ![j].status = "success"]
  /\ ReleasesLock(j)
  /\ UNCHANGED <<bundle, content>>

WorkerFails(j) ==
  /\ j \in DOMAIN builds /\ builds[j].status = "running"
  /\ builds' = [builds EXCEPT ![j].status = "failed"]
  /\ ReleasesLock(j)
  /\ UNCHANGED <<bundle, content, filed, hot>>

(* Forms, layers, lists or features of the project change.  A lock lasts   *)
(* five minutes.                                                           *)
ContentChanges ==
  /\ content < MaxContent /\ content' = content + 1
  /\ UNCHANGED <<bundle, filed, hot, locks, builds>>

LockExpires(f, v) ==
  /\ locks[f][v] # 0 /\ locks' = [locks EXCEPT ![f][v] = 0]
  /\ UNCHANGED <<bundle, content, filed, hot, builds>>

-----------------------------------------------------------------------------
WorkerStep(j) == WorkerTakes(j) \/ WorkerReads(j) \/ WorkerFinishes(j) \/ WorkerFails(j)
AnswerStep(d) == RequestReturns(d) \/ RequestFails(d) \/ Poll(d) \/ PollReturns(d) \/ PollFails(d)

(* The tab shows this page, and goes on showing it. *)
Here == route = "bundle" /\ UNCHANGED route

Next ==
  /\ Here
  /\ \/ \E d \in Dialogs :
          \/ OpenDialog(d) \/ CloseDialog(d) \/ ShowWarnings(d) \/ Start(d)
          \/ Download(d) \/ Downloaded(d) \/ AnswerStep(d)
          \/ \E f \in Flags : IncludeReference(d, f)
     \/ \E j \in DOMAIN builds : WorkerStep(j)
     \/ ContentChanges
     \/ \E f \in Flags, v \in Versions : LockExpires(f, v)

(* Workers work, requests are answered and timers fire. *)
Fairness ==
  /\ \A j \in 1..MaxBuilds : WF_vars(Here /\ WorkerStep(j))
  /\ \A d \in Dialogs : WF_vars(Here /\ (AnswerStep(d) \/ Downloaded(d)))

Spec == Init /\ [][Next]_vars /\ Fairness

-----------------------------------------------------------------------------
TypeOK ==
  /\ route \in Routes
  /\ content \in Versions /\ filed \subseteq Bundles
  /\ hot \in [Flags -> Bundles \union {NoBundle}]
  /\ locks \in [Flags -> [Versions -> 0..MaxBuilds]]
  /\ builds \in Seq([flag : Flags, hash : Versions, read : 0..MaxContent,
                     status : {"pending", "running", "success", "failed"}])
  /\ bundle \in [Dialogs -> [open : BOOLEAN, stage : Stages, flag : Flags,
                             job : 0..MaxBuilds, timer : BOOLEAN, polling : BOOLEAN,
                             ready : Bundles \union {NoBundle}, asked : 0..MaxContent,
                             warnings : BOOLEAN]]

(* A bundle that is offered was built for the options of the dialog, from  *)
(* content at least as new as when it was started, whichever cache, lock   *)
(* or job of another tab it came from (RequestBundle and the hash that     *)
(* guards its caches; start of useBundleDownload.ts).                      *)
OfferedIsCurrent ==
  \A d \in Dialogs : bundle[d].ready # NoBundle =>
    bundle[d].ready.flag = bundle[d].flag /\ bundle[d].ready.read >= bundle[d].asked

(* A dialog that is busy, and so cannot be closed, comes to an end: ready  *)
(* or an error (isBusy of BundleDialog.tsx, pollJob).                      *)
BusyEnds == \A d \in Dialogs : Busy(d) ~> ~Busy(d)
=============================================================================
