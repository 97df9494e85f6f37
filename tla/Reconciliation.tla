---------------------------- MODULE Reconciliation ----------------------------
(***************************************************************************)
(* Collected changes on their way back into the source database of a       *)
(* layer.                                                                  *)
(*                                                                         *)
(*   services/fc-api/internal/service/reconciliation_service.go  Preview,  *)
(*     EnqueueApply, ApplyJob, WriteBackFeature, ResolveConflict,          *)
(*     ForceFinalize                                                       *)
(*   .../service/reconciliation_worker.go  the pool (one worker), its      *)
(*     queue and the watchdog of each job                                  *)
(*   .../repository/reconciliation_repo.go, feature_repo.go                *)
(*     (ListPendingChanges, SetSourceRefAfterInsert)                       *)
(*                                                                         *)
(* Two databases are written: the field collector's own, one autocommitted *)
(* statement at a time (the log, the conflicts, the jobs), and the source, *)
(* one transaction per chunk.  A change counts as applied when the log     *)
(* says so.  Besides the jobs of the pool, a request may write a single    *)
(* feature back itself.  The process may die, and an error of the own      *)
(* database is, nearly everywhere, ignored.                                *)
(*                                                                         *)
(* Cancel has no action: the CHECK constraint of reconciliation_jobs       *)
(* (migration 000019) knows no status 'cancelling', so its UPDATE fails,   *)
(* and isCancelled always answers no.                                      *)
(***************************************************************************)
EXTENDS Naturals, Sequences, FiniteSets

CONSTANTS
  Features,        \* changed features, numbered in the order of change_at
  Inserts,         \* those collected new; the others update or delete a row
  PoolJobs,        \* jobs handed to the pool
  DirectJobs,      \* jobs of single-feature write-backs
  NoJob,
  NoFeature,
  BatchSize,       \* ReconciliationJob.BatchSize
  QueueSize,       \* capacity of the pool's queue
  MaxSourceEdits,  \* bound: edits of the source by others
  MaxErrors,       \* bound: ignored errors of the own database
  MaxCrashes       \* bound: times the process may die

Jobs == PoolJobs \union DirectJobs

ASSUME ConstantsAssumption ==
  /\ Features \subseteq Nat /\ IsFiniteSet(Features)
  /\ Inserts \subseteq Features
  /\ PoolJobs \intersect DirectJobs = {}
  /\ NoJob \notin Jobs /\ NoFeature \notin Features
  /\ {BatchSize, QueueSize} \subseteq Nat \ {0}
  /\ {MaxSourceEdits, MaxErrors, MaxCrashes} \subseteq Nat

Terminal == {"success", "partial", "failed"}
Statuses == {"none", "pending", "running"} \union Terminal
Counted  == {"inserts", "writes", "conflicts", "errors"}
Rulings  == {"none", "field_wins", "source_wins"}

VARIABLES
  (* the field collector's database *)
  log,        \* features with an 'applied' entry in reconciliation_log
  refs,       \* inserted features whose source_ref is set
  disputed,   \* features with a pending conflict
  ruling,     \* the resolution QueryResolution finds
  status,     \* reconciliation_jobs.status
  tally,      \* which counters of the job are above zero
  (* the source database *)
  applied,    \* how often the change of a feature was committed
  divergent,  \* rows others changed, in the same fields, or deleted
  (* the pool *)
  queue, wpc, wjob,
  offset,
  size,       \* length of the chunk
  chunk,      \* rows of the chunk still ahead
  seen,       \* what was divergent when the chunk fetched the source rows
  tx,         \* rows written in the open transaction
  chunkOk,    \* chunkCommitted
  counted,    \* counters of the chunk
  result,     \* counters of the job so far (result.Summary)
  watched,    \* jobs whose watchdog runs
  verdicts,   \* statuses read and decided, but not yet written
  (* the write-back requests *)
  hpc, hfeature, hseen, houtcome,
  up, edits, errors, crashes

fcVars     == <<log, refs, disputed, ruling>>
jobVars    == <<status, tally>>
sourceVars == <<applied, divergent>>
chunkVars  == <<offset, size, chunk, seen, tx, chunkOk, counted, result>>
poolVars   == <<queue, wpc, wjob, chunkVars>>
finalVars  == <<watched, verdicts>>
directVars == <<hpc, hfeature, hseen, houtcome>>
envVars    == <<up, edits, errors, crashes>>
vars == <<fcVars, jobVars, sourceVars, poolVars, finalVars, directVars, envVars>>

Init ==
  /\ log = {} /\ refs = {} /\ disputed = {}
  /\ ruling = [f \in Features |-> "none"]
  /\ status = [j \in Jobs |-> "none"]
  /\ tally = [j \in Jobs |-> {}]
  /\ applied = [f \in Features |-> 0]
  /\ divergent = {}
  /\ queue = <<>> /\ wpc = "idle" /\ wjob = NoJob
  /\ offset = 0 /\ size = 0 /\ chunk = {} /\ seen = {} /\ tx = {}
  /\ chunkOk = TRUE /\ counted = {} /\ result = {}
  /\ watched = {} /\ verdicts = {}
  /\ hpc = [j \in DirectJobs |-> "idle"]
  /\ hfeature = [j \in DirectJobs |-> NoFeature]
  /\ hseen = [j \in DirectJobs |-> FALSE]
  /\ houtcome = [j \in DirectJobs |-> "none"]
  /\ up = TRUE /\ edits = 0 /\ errors = 0 /\ crashes = 0

------------------------------------------------------------------------------
(* What a change may come to. *)

Pending == Features \ log

Rank(f) == Cardinality({g \in Pending : g <= f})

(* ListPendingChanges, with limit and offset. *)
ListPending(limit, skip) == {f \in Pending : skip < Rank(f) /\ Rank(f) <= skip + limit}

(* applyInsert, applyUpdate, applyDelete.  Any statement of the source may *)
(* fail; an update may turn out to write nothing; a row that others        *)
(* changed needs the ruling of an admin.                                   *)
Outcomes(f, changed) ==
  {"failed"} \union
    (IF f \in Inserts THEN {"applied"}
     ELSE IF ~changed THEN {"applied", "skipped"}
     ELSE CASE ruling[f] = "none"        -> {"conflict"}
            [] ruling[f] = "field_wins"  -> {"applied"}
            [] ruling[f] = "source_wins" -> {"skipped"})

CountersOf(f, outcome) ==
  CASE outcome = "applied"  -> IF f \in Inserts THEN {"inserts"} ELSE {"writes"}
    [] outcome = "conflict" -> {"conflicts"}
    [] outcome = "failed"   -> {"errors"}
    [] outcome = "skipped"  -> {}

(* ApplyJob, at its end.  Attempts that come to nothing make it failed;    *)
(* the skipped ones are not told apart from none at all.                   *)
StatusOfRun(cs) ==
  IF cs \intersect {"inserts", "writes"} = {}
    THEN IF cs = {} THEN {"success", "failed"} ELSE {"failed"}
    ELSE IF cs \intersect {"conflicts", "errors"} # {} THEN {"partial"} ELSE {"success"}

(* The finalizer of ApplyJob, from the job's counters. *)
StatusOfCounters(cs) ==
  IF cs \intersect {"conflicts", "errors"} # {} THEN "partial"
  ELSE IF cs # {} THEN "success" ELSE "failed"

(* The watchdog and ForceFinalize, which do not look at the inserts. *)
StatusOfTally(cs) == StatusOfCounters(cs \ {"inserts"})

Ended(j) == status[j] \in Terminal

------------------------------------------------------------------------------
(* Admins, and the others who write to the source. *)

SourceEdit(f) ==
  /\ edits < MaxSourceEdits
  /\ f \notin Inserts
  /\ divergent' = divergent \union {f}
  /\ edits' = edits + 1
  /\ UNCHANGED <<fcVars, jobVars, applied, poolVars, finalVars, directVars, up, errors,
                 crashes>>

(* Preview writes nothing but the conflicts it finds. *)
Preview ==
  /\ up
  /\ disputed' = disputed \union {f \in Pending \intersect divergent : ruling[f] = "none"}
  /\ UNCHANGED <<log, refs, ruling, jobVars, sourceVars, poolVars, finalVars, directVars,
                 envVars>>

Resolve(f, r) ==
  /\ up
  /\ f \in disputed
  /\ disputed' = disputed \ {f}
  /\ ruling' = [ruling EXCEPT ![f] = r]
  /\ UNCHANGED <<log, refs, jobVars, sourceVars, poolVars, finalVars, directVars, envVars>>

(* EnqueueApply and Submit. *)
Enqueue(j) ==
  /\ up
  /\ status[j] = "none"
  /\ IF Len(queue) < QueueSize
       THEN queue' = Append(queue, j) /\ status' = [status EXCEPT ![j] = "pending"]
       ELSE status' = [status EXCEPT ![j] = "failed"] /\ UNCHANGED queue
  /\ UNCHANGED <<fcVars, tally, sourceVars, wpc, wjob, chunkVars, finalVars, directVars,
                 envVars>>

------------------------------------------------------------------------------
(* The worker. *)

(* runJob starts the watchdog, and ApplyJob marks the job running, whatever *)
(* its status has become.                                                  *)
Take ==
  /\ wpc = "idle" /\ queue # <<>>
  /\ wjob' = Head(queue)
  /\ queue' = Tail(queue)
  /\ wpc' = "list"
  /\ status' = [status EXCEPT ![Head(queue)] = "running"]
  /\ watched' = watched \union {Head(queue)}
  /\ offset' = 0 /\ result' = {}
  /\ UNCHANGED <<fcVars, tally, sourceVars, size, chunk, seen, tx, chunkOk, counted,
                 verdicts, directVars, envVars>>

(* The next chunk is listed, the source rows are fetched, and a transaction *)
(* begins.                                                                 *)
List ==
  /\ wpc = "list"
  /\ chunk' = ListPending(BatchSize, offset)
  /\ size' = Cardinality(chunk')
  /\ seen' = chunk' \intersect divergent
  /\ tx' = {} /\ chunkOk' = TRUE /\ counted' = {}
  /\ wpc' = IF chunk' = {} THEN "final" ELSE "check"
  /\ UNCHANGED <<fcVars, jobVars, sourceVars, queue, wjob, offset, result, finalVars,
                 directVars, envVars>>

NextRow(f) == f \in chunk /\ \A g \in chunk : f <= g

(* HasAppliedFor: skip what the log knows. *)
Check(f) ==
  /\ wpc = "check" /\ NextRow(f)
  /\ IF f \in log THEN chunk' = chunk \ {f} /\ UNCHANGED wpc
                  ELSE wpc' = "write" /\ UNCHANGED chunk
  /\ UNCHANGED <<fcVars, jobVars, sourceVars, queue, wjob, offset, size, seen, tx, chunkOk,
                 counted, result, finalVars, directVars, envVars>>

Fails == errors < MaxErrors /\ errors' = errors + 1

(* Seeded fault: the entry is written in the background. *)
Logged_Async(fs) == log' \in {log, log \union fs} /\ UNCHANGED errors

(* An entry of the own database that cannot be written is done without. *)
Logged(fs) ==
  \/ log' = log \union fs /\ UNCHANGED errors
  \/ fs # {} /\ Fails /\ UNCHANGED log

(* The row is written in the transaction, and the outcome is logged. *)
Write(f) ==
  /\ wpc = "write" /\ NextRow(f)
  /\ \E o \in Outcomes(f, f \in seen) :
       /\ Logged(IF o = "applied" THEN {f} ELSE {})
       /\ tx' = IF o = "applied" THEN tx \union {f} ELSE tx
       /\ chunkOk' = (chunkOk /\ o # "failed")
       /\ counted' = counted \union CountersOf(f, o)
  /\ chunk' = chunk \ {f}
  /\ wpc' = "check"
  /\ UNCHANGED <<refs, disputed, ruling, jobVars, sourceVars, queue, wjob, offset, size,
                 seen, result, finalVars, directVars, up, edits, crashes>>

Committed(fs) == [f \in Features |-> IF f \in fs THEN applied[f] + 1 ELSE applied[f]]

(* A chunk with a failed row is rolled back; its log entries stay. *)
EndChunk ==
  /\ wpc = "check" /\ chunk = {}
  /\ IF chunkOk THEN applied' = Committed(tx) /\ UNCHANGED tx
                ELSE tx' = {} /\ UNCHANGED applied
  /\ wpc' = "count"
  /\ UNCHANGED <<fcVars, jobVars, divergent, queue, wjob, offset, size, chunk, seen,
                 chunkOk, counted, result, finalVars, directVars, envVars>>

(* Seeded fault: the source_ref of every row of the chunk is set. *)
Count_AllRefs ==
  /\ wpc = "count"
  /\ refs' = refs \union tx
  /\ tally' = [tally EXCEPT ![wjob] = @ \union counted]
  /\ result' = result \union counted
  /\ offset' = offset + size
  /\ wpc' = IF size < BatchSize THEN "final" ELSE "list"
  /\ tx' = {}
  /\ UNCHANGED <<log, disputed, ruling, status, sourceVars, queue, wjob, size, chunk, seen,
                 chunkOk, counted, finalVars, directVars, envVars>>

(* The new source rows are noted, and the counters go up. *)
Count ==
  /\ wpc = "count"
  /\ refs' = refs \union (tx \intersect Inserts)
  /\ tally' = [tally EXCEPT ![wjob] = @ \union counted]
  /\ result' = result \union counted
  /\ offset' = offset + size
  /\ wpc' = IF size < BatchSize THEN "final" ELSE "list"
  /\ tx' = {}
  /\ UNCHANGED <<log, disputed, ruling, status, sourceVars, queue, wjob, size, chunk, seen,
                 chunkOk, counted, finalVars, directVars, envVars>>

Leave == wpc' = "idle" /\ wjob' = NoJob

(* MarkFinished.  If it fails, ApplyJob's finalizer decides from the       *)
(* counters; if that fails too, it is left to the watchdog.                *)
Finish ==
  /\ wpc = "final"
  /\ \/ /\ \E s \in StatusOfRun(result) : status' = [status EXCEPT ![wjob] = s]
        /\ Leave /\ UNCHANGED errors
     \/ Fails /\ wpc' = "rescue" /\ UNCHANGED <<status, wjob>>
  /\ UNCHANGED <<fcVars, tally, sourceVars, queue, chunkVars, finalVars, directVars, up,
                 edits, crashes>>

Rescue ==
  /\ wpc = "rescue"
  /\ \/ /\ status' = IF Ended(wjob) THEN status
                     ELSE [status EXCEPT ![wjob] = StatusOfCounters(tally[wjob])]
        /\ UNCHANGED errors
     \/ Fails /\ UNCHANGED status
  /\ Leave
  /\ UNCHANGED <<fcVars, tally, sourceVars, queue, chunkVars, finalVars, directVars, up,
                 edits, crashes>>

(* An error of either database, a failed COMMIT or a panic ends the job;   *)
(* the transaction is rolled back.                                         *)
FailJob ==
  /\ wpc \in {"list", "check"}
  /\ status' = [status EXCEPT ![wjob] = "failed"]
  /\ tx' = {}
  /\ Leave
  /\ UNCHANGED <<fcVars, tally, sourceVars, queue, offset, size, chunk, seen, chunkOk,
                 counted, result, finalVars, directVars, envVars>>

------------------------------------------------------------------------------
(* The watchdog, 30 s after the job began or once it is over, and the      *)
(* admin's ForceFinalize: each reads the job, and then writes what it      *)
(* decided from the counters.                                              *)

Verdict(j) == [job |-> j, status |-> StatusOfTally(tally[j])]

Bark(j) ==
  /\ j \in watched
  /\ watched' = watched \ {j}
  /\ verdicts' = IF Ended(j) THEN verdicts ELSE verdicts \union {Verdict(j)}
  /\ UNCHANGED <<fcVars, jobVars, sourceVars, poolVars, directVars, envVars>>

ForceFinalize(j) ==
  /\ up
  /\ status[j] \in {"pending", "running"}
  /\ verdicts' = verdicts \union {Verdict(j)}
  /\ UNCHANGED <<fcVars, jobVars, sourceVars, poolVars, watched, directVars, envVars>>

Impose(v) ==
  /\ v \in verdicts
  /\ verdicts' = verdicts \ {v}
  /\ status' = [status EXCEPT ![v.job] = v.status]
  /\ UNCHANGED <<fcVars, tally, sourceVars, poolVars, watched, directVars, envVars>>

------------------------------------------------------------------------------
(* WriteBackFeature, in the request that asks for it.                      *)

(* Whether the log knows the change is read before the job is created. *)
BeginWriteBack(j, f) ==
  /\ up
  /\ hpc[j] = "idle" /\ status[j] = "none"
  /\ hfeature' = [hfeature EXCEPT ![j] = f]
  /\ hpc' = [hpc EXCEPT ![j] = IF f \in log THEN "skip" ELSE "read"]
  /\ status' = [status EXCEPT ![j] = "running"]
  /\ UNCHANGED <<fcVars, tally, sourceVars, poolVars, finalVars, hseen, houtcome, envVars>>

SkipWriteBack(j) ==
  /\ hpc[j] = "skip"
  /\ hpc' = [hpc EXCEPT ![j] = "done"]
  /\ status' = [status EXCEPT ![j] = "success"]
  /\ UNCHANGED <<fcVars, tally, sourceVars, poolVars, finalVars, hfeature, hseen, houtcome,
                 envVars>>

ReadSource(j) ==
  /\ hpc[j] = "read"
  /\ hseen' = [hseen EXCEPT ![j] = hfeature[j] \in divergent]
  /\ hpc' = [hpc EXCEPT ![j] = "write"]
  /\ UNCHANGED <<fcVars, jobVars, sourceVars, poolVars, finalVars, hfeature, houtcome,
                 envVars>>

(* The change is written and committed. *)
WriteSource(j) ==
  /\ hpc[j] = "write"
  /\ \E o \in Outcomes(hfeature[j], hseen[j]) :
       /\ houtcome' = [houtcome EXCEPT ![j] = o]
       /\ applied' = Committed(IF o = "applied" THEN {hfeature[j]} ELSE {})
  /\ hpc' = [hpc EXCEPT ![j] = "record"]
  /\ UNCHANGED <<fcVars, jobVars, divergent, poolVars, finalVars, hfeature, hseen, envVars>>

(* The new source row, or the conflict, is noted, and the outcome logged. *)
Record(j) ==
  /\ hpc[j] = "record"
  /\ disputed' = disputed \union (IF houtcome[j] = "conflict" THEN {hfeature[j]} ELSE {})
  /\ LET done == IF houtcome[j] = "applied" THEN {hfeature[j]} ELSE {} IN
     /\ refs' = refs \union (done \intersect Inserts)
     /\ Logged(done)
  /\ hpc' = [hpc EXCEPT ![j] = "finish"]
  /\ UNCHANGED <<ruling, jobVars, sourceVars, poolVars, finalVars, hfeature, hseen,
                 houtcome, up, edits, crashes>>

FinishWriteBack(j) ==
  /\ hpc[j] = "finish"
  /\ tally' = [tally EXCEPT ![j] = CountersOf(hfeature[j], houtcome[j])]
  /\ status' = [status EXCEPT ![j] = CASE houtcome[j] \in {"applied", "skipped"} -> "success"
                                       [] houtcome[j] = "conflict" -> "partial"
                                       [] houtcome[j] = "failed"   -> "failed"]
  /\ hpc' = [hpc EXCEPT ![j] = "done"]
  /\ UNCHANGED <<fcVars, sourceVars, poolVars, finalVars, hfeature, hseen, houtcome, envVars>>

(* The client goes away: every later statement of the request fails. *)
Disconnect(j) ==
  /\ hpc[j] \notin {"idle", "done"}
  /\ hpc' = [hpc EXCEPT ![j] = "done"]
  /\ UNCHANGED <<fcVars, jobVars, sourceVars, poolVars, finalVars, hfeature, hseen, houtcome,
                 envVars>>

------------------------------------------------------------------------------
Crash ==
  /\ up /\ crashes < MaxCrashes
  /\ up' = FALSE /\ crashes' = crashes + 1
  /\ queue' = <<>> /\ wpc' = "idle" /\ wjob' = NoJob /\ tx' = {}
  /\ watched' = {} /\ verdicts' = {}
  /\ hpc' = [j \in DirectJobs |-> IF hpc[j] = "idle" THEN "idle" ELSE "done"]
  /\ UNCHANGED <<fcVars, jobVars, sourceVars, offset, size, chunk, seen, chunkOk, counted,
                 result, hfeature, hseen, houtcome, edits, errors>>

(* Seeded fault: the jobs of the previous process are left as they are. *)
Boot_LeavesJobs ==
  /\ ~up
  /\ up' = TRUE
  /\ UNCHANGED <<fcVars, jobVars, sourceVars, poolVars, finalVars, directVars, edits, errors,
                 crashes>>

(* MarkOrphaned. *)
Boot ==
  /\ ~up
  /\ up' = TRUE
  /\ status' = [j \in Jobs |-> IF status[j] = "running" THEN "failed" ELSE status[j]]
  /\ UNCHANGED <<fcVars, tally, sourceVars, poolVars, finalVars, directVars, edits, errors,
                 crashes>>

WorkerStep ==
  \/ Take \/ List \/ EndChunk \/ Count \/ Finish \/ Rescue \/ FailJob
  \/ \E f \in Features : Check(f) \/ Write(f)

FinalStep == (\E j \in Jobs : Bark(j)) \/ (\E v \in verdicts : Impose(v))

RequestStep(j) ==
  \/ \E f \in Features : BeginWriteBack(j, f)
  \/ SkipWriteBack(j) \/ ReadSource(j) \/ WriteSource(j) \/ Record(j)
  \/ FinishWriteBack(j) \/ Disconnect(j)

AdminStep ==
  \/ Preview
  \/ \E f \in Features, r \in {"field_wins", "source_wins"} : Resolve(f, r)
  \/ \E j \in PoolJobs : Enqueue(j)
  \/ \E j \in Jobs : ForceFinalize(j)

Next ==
  \/ WorkerStep
  \/ FinalStep
  \/ \E j \in DirectJobs : RequestStep(j)
  \/ AdminStep
  \/ \E f \in Features : SourceEdit(f)
  \/ Crash
  \/ Boot

Spec == Init /\ [][Next]_vars

(* Fairness.  The process is started again when it died, its goroutines    *)
(* run, and every statement returns or times out.                          *)
FairSpec == Spec /\ WF_vars(WorkerStep) /\ WF_vars(FinalStep) /\ WF_vars(Boot)

------------------------------------------------------------------------------
(* Properties. *)

(* Every variable stays in its range. *)
TypeOK ==
  /\ log \subseteq Features /\ refs \subseteq Inserts /\ disputed \subseteq Features \ Inserts
  /\ ruling \in [Features -> Rulings]
  /\ status \in [Jobs -> Statuses]
  /\ tally \in [Jobs -> SUBSET Counted]
  /\ applied \in [Features -> Nat]
  /\ divergent \subseteq Features \ Inserts
  /\ queue \in Seq(PoolJobs) /\ Len(queue) <= QueueSize
  /\ wpc \in {"idle", "list", "check", "write", "count", "final", "rescue"}
  /\ wjob \in PoolJobs \union {NoJob} /\ (wjob = NoJob <=> wpc = "idle")
  /\ offset \in Nat /\ size \in Nat
  /\ {chunk, seen, tx} \subseteq SUBSET Features
  /\ chunkOk \in BOOLEAN
  /\ {counted, result} \subseteq SUBSET Counted
  /\ watched \subseteq PoolJobs
  /\ verdicts \subseteq [job : Jobs, status : Terminal]
  /\ hpc \in [DirectJobs -> {"idle", "skip", "read", "write", "record", "finish", "done"}]
  /\ hfeature \in [DirectJobs -> Features \union {NoFeature}]
  /\ hseen \in [DirectJobs -> BOOLEAN]
  /\ houtcome \in [DirectJobs -> {"none", "applied", "conflict", "skipped", "failed"}]
  /\ up \in BOOLEAN
  /\ {edits, errors, crashes} \subseteq Nat

(* Migration 000019: the log is the audit trail of every applied change.   *)
(* Whatever the jobs of the pool commit to the source is in it, even when  *)
(* the process dies around the commit.                                     *)
SourceIsLogged == \A f \in Features : applied[f] > 0 => f \in log

(* HasAppliedFor prevents double pushes: over all jobs of the pool,        *)
(* retries and restarts the change of a feature is committed once at most. *)
AppliedOnce == \A f \in Features : applied[f] <= 1

(* The finalizer, the watchdog and MarkOrphaned between them get every job *)
(* of the pool out of 'running', whatever fails and whenever it dies.      *)
JobsEnd == \A j \in PoolJobs : status[j] = "running" ~> Ended(j)

------------------------------------------------------------------------------
(* A statement of the repository that the code does not keep. *)

(* reconciliation_repo.go: a pair the log has as applied was successfully  *)
(* applied.  The entries of a chunk that is rolled back are never undone,  *)
(* and those changes are never tried again.                                *)
LoggedIsApplied ==
  \A f \in Features : f \in log /\ wpc = "idle" => applied[f] > 0

==============================================================================
