------------------------- MODULE ReconciliationProofs -------------------------
(***************************************************************************)
(* Proofs about Reconciliation for any number of changes, jobs, edits of   *)
(* the source and crashes, and any batch and queue size: what the jobs of  *)
(* the pool commit, and types.                                             *)
(***************************************************************************)
EXTENDS Reconciliation, FiniteSetTheorems, TLAPS

USE DEF fcVars, jobVars, sourceVars, chunkVars, poolVars, finalVars, directVars, envVars

------------------------------------------------------------------------------
(* What the pool commits: the only jobs are those of the pool, and no      *)
(* entry of the own database is lost.                                      *)
PoolOnly == MaxErrors = 0 /\ DirectJobs = {}

LogType ==
  /\ log \subseteq Features
  /\ chunk \subseteq Features
  /\ applied \in [Features -> Nat]
  /\ errors \in Nat

(* Every row of the open, or just committed, transaction is in the log.    *)
TxLogged == tx \subseteq log

(* The row about to be written was looked up, and is not in the log yet.   *)
WrittenOnce ==
  /\ wpc = "write" => \A f \in Features : NextRow(f) => f \notin log
  /\ wpc \in {"check", "write"} => \A f \in tx : applied[f] = 0

LogInv == LogType /\ TxLogged /\ SourceIsLogged /\ WrittenOnce /\ AppliedOnce

(* Nothing is lost: the outcome of a row is logged. *)
LEMMA LoggedInFull ==
  ASSUME MaxErrors = 0, errors \in Nat, NEW fs, Logged(fs)
  PROVE  log' = log \union fs /\ errors' = errors
  BY DEF Logged, Fails

LEMMA LogInitial == Init => LogInv
  BY DEF Init, LogInv, LogType, TxLogged, SourceIsLogged, WrittenOnce, AppliedOnce

(* Steps that touch neither the log, nor the source, nor the chunk. *)
LEMMA LogKept ==
  ASSUME LogInv,
         UNCHANGED <<log, applied, chunk, errors>>,
         tx' \in {tx, {}},
         wpc' \in {"write", "check"} => wpc' = wpc
  PROVE  LogInv'
  BY DEF LogInv, LogType, TxLogged, SourceIsLogged, WrittenOnce, AppliedOnce, NextRow

LEMMA LogOtherStep ==
  ASSUME PoolOnly, LogInv,
         \/ AdminStep \/ FinalStep \/ Crash \/ Boot
         \/ \E j \in DirectJobs : RequestStep(j)
         \/ \E f \in Features : SourceEdit(f)
  PROVE  LogInv'
  <1>1. UNCHANGED <<log, applied, chunk, errors>> /\ tx' \in {tx, {}} /\ wpc' \in {wpc, "idle"}
    <2>1. CASE AdminStep
      BY <2>1 DEF AdminStep, Preview, Resolve, Enqueue, ForceFinalize
    <2>2. CASE FinalStep
      BY <2>2 DEF FinalStep, Bark, Impose
    <2>3. CASE Crash \/ Boot
      BY <2>3 DEF Crash, Boot
    <2>4. CASE \E f \in Features : SourceEdit(f)
      BY <2>4 DEF SourceEdit
    <2> QED
      BY <2>1, <2>2, <2>3, <2>4 DEF PoolOnly
  <1> QED
    BY <1>1, LogKept

LEMMA LogWorkerStep ==
  ASSUME PoolOnly, LogInv, WorkerStep
  PROVE  LogInv'
  <1>1. CASE Take \/ Count \/ Finish \/ Rescue \/ FailJob
    <2>1. UNCHANGED <<log, applied, chunk>> /\ tx' \in {tx, {}}
          /\ wpc' \in {"list", "final", "idle", "rescue"}
      BY <1>1 DEF Take, Count, Finish, Rescue, FailJob, Leave, Fails
    <2>2. errors' \in Nat
      BY <1>1 DEF Take, Count, Finish, Rescue, FailJob, Fails, LogInv, LogType, PoolOnly
    <2> QED
      BY <2>1, <2>2 DEF LogInv, LogType, TxLogged, SourceIsLogged, WrittenOnce, AppliedOnce
  <1>2. CASE List
    BY <1>2 DEF List, ListPending, Pending, LogInv, LogType, TxLogged, SourceIsLogged,
       WrittenOnce, AppliedOnce
  <1>3. CASE \E f \in Features : Check(f)
    <2>1. PICK f \in Features : Check(f)
      BY <1>3
    <2>2. UNCHANGED <<log, applied, tx, errors>> /\ chunk' \subseteq chunk /\ wpc = "check"
      BY <2>1 DEF Check
    <2>3. wpc' \in {"check", "write"}
      BY <2>1 DEF Check
    <2>4. ASSUME wpc' = "write", NEW g \in Features, NextRow(g)'
          PROVE  g \notin log'
      <3>1. chunk' = chunk /\ f \notin log /\ NextRow(f)
        BY <2>1, <2>4 DEF Check
      <3>2. g = f
        BY <2>4, <3>1, ConstantsAssumption DEF NextRow
      <3> QED
        BY <3>1, <3>2, <2>2
    <2> QED
      BY <2>2, <2>3, <2>4 DEF LogInv, LogType, TxLogged, SourceIsLogged, WrittenOnce, AppliedOnce
  <1>4. CASE \E f \in Features : Write(f)
    <2>1. PICK f \in Features : Write(f)
      BY <1>4
    <2>2. PICK o \in Outcomes(f, f \in seen) :
            /\ Logged(IF o = "applied" THEN {f} ELSE {})
            /\ tx' = IF o = "applied" THEN tx \union {f} ELSE tx
      BY <2>1 DEF Write
    <2>3. /\ log' = log \union (IF o = "applied" THEN {f} ELSE {})
          /\ errors' = errors
      BY <2>2, LoggedInFull DEF PoolOnly, LogInv, LogType
    <2>4. UNCHANGED applied /\ chunk' \subseteq chunk /\ wpc' = "check"
      BY <2>1 DEF Write
    <2>5. f \notin log /\ applied[f] = 0
      BY <2>1 DEF Write, LogInv, LogType, WrittenOnce, SourceIsLogged
    <2>6. \A g \in tx : applied[g] = 0
      BY <2>1 DEF Write, LogInv, WrittenOnce
    <2> QED
      BY <2>2, <2>3, <2>4, <2>5, <2>6
         DEF LogInv, LogType, TxLogged, SourceIsLogged, WrittenOnce, AppliedOnce
  <1>5. CASE EndChunk
    <2>1. UNCHANGED <<log, chunk, errors>> /\ tx' \in {tx, {}} /\ wpc = "check" /\ wpc' = "count"
      BY <1>5 DEF EndChunk
    <2>2. applied' \in {applied, Committed(tx)}
      BY <1>5 DEF EndChunk
    <2>3. Committed(tx) \in [Features -> Nat]
      BY DEF Committed, LogInv, LogType
    <2>4. ASSUME NEW f \in Features
          PROVE  applied'[f] <= 1 /\ (applied'[f] > 0 => f \in log)
      BY <2>1, <2>2 DEF Committed, LogInv, LogType, WrittenOnce, TxLogged, AppliedOnce,
         SourceIsLogged
    <2> QED
      BY <2>1, <2>2, <2>3, <2>4
         DEF LogInv, LogType, TxLogged, SourceIsLogged, WrittenOnce, AppliedOnce
  <1> QED
    BY <1>1, <1>2, <1>3, <1>4, <1>5 DEF WorkerStep

LEMMA LogStep ==
  ASSUME PoolOnly, LogInv, [Next]_vars
  PROVE  LogInv'
  <1>1. CASE UNCHANGED vars
    BY <1>1 DEF vars, LogInv, LogType, TxLogged, SourceIsLogged, WrittenOnce, AppliedOnce,
       NextRow
  <1> QED
    BY <1>1, LogOtherStep, LogWorkerStep DEF Next

(* Whatever the jobs of the pool commit to the source is in the log, for   *)
(* any number of jobs, retries and crashes, as long as nothing else writes *)
(* changes back and no entry of the log is lost.                           *)
THEOREM CommittedIsLogged ==
  ASSUME PoolOnly
  PROVE  Spec => []SourceIsLogged
  <1>1. LogInv /\ [Next]_vars => LogInv'
    BY LogStep
  <1>2. LogInv => SourceIsLogged
    BY DEF LogInv
  <1> QED
    BY <1>1, <1>2, LogInitial, PTL DEF Spec

(* Under the same assumptions no change is committed twice. *)
THEOREM NoDoublePush ==
  ASSUME PoolOnly
  PROVE  Spec => []AppliedOnce
  <1>1. LogInv /\ [Next]_vars => LogInv'
    BY LogStep
  <1>2. LogInv => AppliedOnce
    BY DEF LogInv
  <1> QED
    BY <1>1, <1>2, LogInitial, PTL DEF Spec

------------------------------------------------------------------------------
(* Types.  A request past its first step has a feature, past its write an  *)
(* outcome, and only a change of an existing row comes to a conflict.      *)
RequestsTyped ==
  \A j \in DirectJobs :
    /\ hpc[j] \in {"read", "write", "record", "finish"} => hfeature[j] \in Features
    /\ hpc[j] \in {"record", "finish"} => houtcome[j] # "none"
    /\ hpc[j] = "write" /\ hseen[j] => hfeature[j] \notin Inserts
    /\ hpc[j] = "record" /\ houtcome[j] = "conflict" => hfeature[j] \notin Inserts

FcTyped ==
  /\ log \subseteq Features /\ refs \subseteq Inserts /\ disputed \subseteq Features \ Inserts
  /\ ruling \in [Features -> Rulings]

JobsTyped ==
  /\ status \in [Jobs -> Statuses]
  /\ tally \in [Jobs -> SUBSET Counted]

SourceTyped ==
  /\ applied \in [Features -> Nat]
  /\ divergent \subseteq Features \ Inserts

QueueTyped == queue \in Seq(PoolJobs) /\ Len(queue) <= QueueSize

WorkerTyped ==
  /\ wpc \in {"idle", "list", "check", "write", "count", "final", "rescue"}
  /\ wjob \in PoolJobs \union {NoJob} /\ (wjob = NoJob <=> wpc = "idle")

ChunkTyped ==
  /\ offset \in Nat /\ size \in Nat
  /\ chunk \subseteq Features /\ seen \subseteq Features /\ tx \subseteq Features
  /\ chunkOk \in BOOLEAN
  /\ counted \subseteq Counted /\ result \subseteq Counted

FinalTyped == watched \subseteq PoolJobs /\ verdicts \subseteq [job : Jobs, status : Terminal]

DirectTyped ==
  /\ hpc \in [DirectJobs -> {"idle", "skip", "read", "write", "record", "finish", "done"}]
  /\ hfeature \in [DirectJobs -> Features \union {NoFeature}]
  /\ hseen \in [DirectJobs -> BOOLEAN]
  /\ houtcome \in [DirectJobs -> {"none", "applied", "conflict", "skipped", "failed"}]

EnvTyped == up \in BOOLEAN /\ edits \in Nat /\ errors \in Nat /\ crashes \in Nat

TypeInv ==
  /\ FcTyped /\ JobsTyped /\ SourceTyped /\ QueueTyped /\ WorkerTyped
  /\ ChunkTyped /\ FinalTyped /\ DirectTyped /\ EnvTyped
  /\ RequestsTyped

LEMMA TypeInvIsTyped == TypeInv => TypeOK
  BY DEF TypeInv, TypeOK, FcTyped, JobsTyped, SourceTyped, QueueTyped, WorkerTyped, ChunkTyped,
     FinalTyped, DirectTyped, EnvTyped

LEMMA TypeInitial == Init => TypeInv
  BY ConstantsAssumption
     DEF Init, TypeInv, FcTyped, JobsTyped, SourceTyped, QueueTyped, WorkerTyped, ChunkTyped,
         FinalTyped, DirectTyped, EnvTyped, RequestsTyped, Jobs, Rulings, Statuses

(* A part whose variables do not change stays typed. *)
LEMMA FcKept == ASSUME FcTyped, UNCHANGED fcVars PROVE FcTyped'
  BY DEF FcTyped
LEMMA JobsKept == ASSUME JobsTyped, UNCHANGED jobVars PROVE JobsTyped'
  BY DEF JobsTyped
LEMMA SourceKept == ASSUME SourceTyped, UNCHANGED sourceVars PROVE SourceTyped'
  BY DEF SourceTyped
LEMMA QueueKept == ASSUME QueueTyped, UNCHANGED queue PROVE QueueTyped'
  BY DEF QueueTyped
LEMMA WorkerKept == ASSUME WorkerTyped, UNCHANGED <<wpc, wjob>> PROVE WorkerTyped'
  BY DEF WorkerTyped
LEMMA ChunkKept == ASSUME ChunkTyped, UNCHANGED chunkVars PROVE ChunkTyped'
  BY DEF ChunkTyped
LEMMA FinalKept == ASSUME FinalTyped, UNCHANGED finalVars PROVE FinalTyped'
  BY DEF FinalTyped
LEMMA DirectKept ==
  ASSUME DirectTyped, RequestsTyped, UNCHANGED directVars
  PROVE  DirectTyped' /\ RequestsTyped'
  BY DEF DirectTyped, RequestsTyped
LEMMA EnvKept == ASSUME EnvTyped, UNCHANGED envVars PROVE EnvTyped'
  BY DEF EnvTyped

(* What a change may come to, and what it counts as. *)
LEMMA OutcomeTyped ==
  ASSUME FcTyped, NEW f \in Features, NEW changed,
         NEW o \in Outcomes(f, changed)
  PROVE  /\ o \in {"applied", "conflict", "skipped", "failed"}
         /\ CountersOf(f, o) \subseteq Counted
         /\ o = "conflict" => f \notin Inserts
  BY DEF Outcomes, CountersOf, Counted, FcTyped, Rulings

LEMMA ListTyped ==
  ASSUME NEW limit, NEW skip
  PROVE  /\ ListPending(limit, skip) \subseteq Features
         /\ Cardinality(ListPending(limit, skip)) \in Nat
  <1>1. ListPending(limit, skip) \subseteq Features
    BY DEF ListPending, Pending
  <1> QED
    BY <1>1, FS_Subset, FS_CardinalityType, ConstantsAssumption

LEMMA VerdictTyped == ASSUME NEW j \in Jobs PROVE Verdict(j) \in [job : Jobs, status : Terminal]
  BY DEF Verdict, StatusOfTally, StatusOfCounters, Terminal

LEMMA RunStatusTyped == ASSUME NEW cs PROVE StatusOfRun(cs) \subseteq Statuses
  BY DEF StatusOfRun, Statuses, Terminal

LEMMA TypeAdminStep ==
  ASSUME TypeInv, AdminStep
  PROVE  TypeInv'
  <1> USE DEF TypeInv
  <1>1. CASE Preview
    <2>1. FcTyped'
      BY <1>1 DEF Preview, FcTyped, SourceTyped
    <2> QED
      BY <1>1, <2>1, JobsKept, SourceKept, QueueKept, WorkerKept, ChunkKept, FinalKept,
         DirectKept, EnvKept DEF Preview
  <1>2. CASE \E f \in Features, r \in {"field_wins", "source_wins"} : Resolve(f, r)
    <2>1. FcTyped'
      BY <1>2 DEF Resolve, FcTyped, Rulings
    <2> QED
      BY <1>2, <2>1, JobsKept, SourceKept, QueueKept, WorkerKept, ChunkKept, FinalKept,
         DirectKept, EnvKept DEF Resolve
  <1>3. CASE \E j \in PoolJobs : Enqueue(j)
    <2>1. PICK j \in PoolJobs : Enqueue(j)
      BY <1>3
    <2>2. JobsTyped'
      BY <2>1 DEF Enqueue, JobsTyped, Jobs, Statuses, Terminal
    <2>3. QueueTyped'
      <3>1. queue' = queue \/ (Len(queue) < QueueSize /\ queue' = Append(queue, j))
        BY <2>1 DEF Enqueue
      <3>2. queue \in Seq(PoolJobs) /\ Len(queue) <= QueueSize /\ QueueSize \in Nat
        BY ConstantsAssumption DEF QueueTyped
      <3> QED
        BY <3>1, <3>2 DEF QueueTyped
    <2> QED
      BY <2>1, <2>2, <2>3, FcKept, SourceKept, WorkerKept, ChunkKept, FinalKept,
         DirectKept, EnvKept DEF Enqueue
  <1>4. CASE \E j \in Jobs : ForceFinalize(j)
    <2>1. FinalTyped'
      BY <1>4, VerdictTyped DEF ForceFinalize, FinalTyped
    <2> QED
      BY <1>4, <2>1, FcKept, JobsKept, SourceKept, QueueKept, WorkerKept, ChunkKept,
         DirectKept, EnvKept DEF ForceFinalize
  <1> QED
    BY <1>1, <1>2, <1>3, <1>4 DEF AdminStep

LEMMA TypeFinalStep ==
  ASSUME TypeInv, FinalStep
  PROVE  TypeInv'
  <1> USE DEF TypeInv
  <1>1. CASE \E j \in Jobs : Bark(j)
    <2>1. FinalTyped'
      BY <1>1, VerdictTyped DEF Bark, FinalTyped
    <2> QED
      BY <1>1, <2>1, FcKept, JobsKept, SourceKept, QueueKept, WorkerKept, ChunkKept,
         DirectKept, EnvKept DEF Bark
  <1>2. CASE \E v \in verdicts : Impose(v)
    <2>1. JobsTyped' /\ FinalTyped'
      BY <1>2 DEF Impose, JobsTyped, FinalTyped, Statuses
    <2> QED
      BY <1>2, <2>1, FcKept, SourceKept, QueueKept, WorkerKept, ChunkKept,
         DirectKept, EnvKept DEF Impose
  <1> QED
    BY <1>1, <1>2 DEF FinalStep

(* The steps of the worker that end its job, or begin one. *)
LEMMA TypeJobStep ==
  ASSUME TypeInv, Take \/ Finish \/ Rescue \/ FailJob
  PROVE  TypeInv'
  <1> USE DEF TypeInv
  <1>1. CASE Take
    <2>1. Head(queue) \in PoolJobs /\ Tail(queue) \in Seq(PoolJobs)
          /\ Len(Tail(queue)) <= QueueSize
      <3>1. queue \in Seq(PoolJobs) /\ queue # <<>> /\ Len(queue) <= QueueSize
            /\ QueueSize \in Nat
        BY <1>1, ConstantsAssumption DEF Take, QueueTyped
      <3> QED
        BY <3>1
    <2>2. QueueTyped'
      BY <1>1, <2>1 DEF Take, QueueTyped
    <2>3. WorkerTyped'
      BY <1>1, <2>1, ConstantsAssumption DEF Take, WorkerTyped, Jobs
    <2>4. JobsTyped' /\ FinalTyped' /\ ChunkTyped'
      BY <1>1, <2>1 DEF Take, JobsTyped, FinalTyped, ChunkTyped, Statuses, Jobs
    <2> QED
      BY <1>1, <2>2, <2>3, <2>4, FcKept, SourceKept, DirectKept, EnvKept DEF Take
  <1>2. CASE Finish
    <2>1. JobsTyped'
      BY <1>2, RunStatusTyped DEF Finish, JobsTyped
    <2>2. WorkerTyped' /\ EnvTyped'
      BY <1>2 DEF Finish, Leave, Fails, WorkerTyped, EnvTyped
    <2> QED
      BY <1>2, <2>1, <2>2, FcKept, SourceKept, QueueKept, ChunkKept, FinalKept, DirectKept
         DEF Finish
  <1>3. CASE Rescue
    <2>1. JobsTyped'
      BY <1>3 DEF Rescue, JobsTyped, StatusOfCounters, Statuses, Terminal
    <2>2. WorkerTyped' /\ EnvTyped'
      BY <1>3 DEF Rescue, Leave, Fails, WorkerTyped, EnvTyped
    <2> QED
      BY <1>3, <2>1, <2>2, FcKept, SourceKept, QueueKept, ChunkKept, FinalKept, DirectKept
         DEF Rescue
  <1>4. CASE FailJob
    <2>1. JobsTyped' /\ WorkerTyped' /\ ChunkTyped'
      BY <1>4 DEF FailJob, Leave, JobsTyped, WorkerTyped, ChunkTyped, Statuses, Terminal
    <2> QED
      BY <1>4, <2>1, FcKept, SourceKept, QueueKept, FinalKept, DirectKept, EnvKept
         DEF FailJob
  <1> QED
    BY <1>1, <1>2, <1>3, <1>4

(* The steps of the worker over a chunk. *)
LEMMA TypeChunkStep ==
  ASSUME TypeInv, List \/ EndChunk \/ Count \/ \E f \in Features : Check(f) \/ Write(f)
  PROVE  TypeInv'
  <1> USE DEF TypeInv
  <1>1. CASE List
    <2>1. ChunkTyped'
      BY <1>1, ListTyped DEF List, ChunkTyped
    <2>2. WorkerTyped'
      BY <1>1 DEF List, WorkerTyped
    <2> QED
      BY <1>1, <2>1, <2>2, FcKept, JobsKept, SourceKept, QueueKept, FinalKept, DirectKept,
         EnvKept DEF List
  <1>2. CASE EndChunk
    <2>1. SourceTyped'
      BY <1>2 DEF EndChunk, Committed, SourceTyped
    <2>2. WorkerTyped' /\ ChunkTyped'
      BY <1>2 DEF EndChunk, WorkerTyped, ChunkTyped
    <2> QED
      BY <1>2, <2>1, <2>2, FcKept, JobsKept, QueueKept, FinalKept, DirectKept, EnvKept
         DEF EndChunk
  <1>3. CASE Count
    <2>1. FcTyped' /\ JobsTyped'
      BY <1>3 DEF Count, FcTyped, JobsTyped, ChunkTyped
    <2>2. WorkerTyped' /\ ChunkTyped'
      BY <1>3 DEF Count, WorkerTyped, ChunkTyped
    <2> QED
      BY <1>3, <2>1, <2>2, SourceKept, QueueKept, FinalKept, DirectKept, EnvKept DEF Count
  <1>4. CASE \E f \in Features : Check(f)
    <2>1. WorkerTyped' /\ ChunkTyped'
      BY <1>4 DEF Check, WorkerTyped, ChunkTyped
    <2> QED
      BY <1>4, <2>1, FcKept, JobsKept, SourceKept, QueueKept, FinalKept, DirectKept, EnvKept
         DEF Check
  <1>5. CASE \E f \in Features : Write(f)
    <2>1. PICK f \in Features : Write(f)
      BY <1>5
    <2>2. PICK o \in Outcomes(f, f \in seen) :
            /\ Logged(IF o = "applied" THEN {f} ELSE {})
            /\ tx' = IF o = "applied" THEN tx \union {f} ELSE tx
            /\ chunkOk' = (chunkOk /\ o # "failed")
            /\ counted' = counted \union CountersOf(f, o)
      BY <2>1 DEF Write
    <2>3. CountersOf(f, o) \subseteq Counted
      BY OutcomeTyped
    <2>4. FcTyped' /\ EnvTyped'
      BY <2>1, <2>2 DEF Write, Logged, Fails, FcTyped, EnvTyped
    <2>5. ChunkTyped'
      BY <2>1, <2>2, <2>3 DEF Write, ChunkTyped
    <2>6. WorkerTyped'
      BY <2>1 DEF Write, WorkerTyped
    <2> QED
      BY <2>1, <2>4, <2>5, <2>6, JobsKept, SourceKept, QueueKept, FinalKept, DirectKept
         DEF Write
  <1> QED
    BY <1>1, <1>2, <1>3, <1>4, <1>5

LEMMA TypeRequestStep ==
  ASSUME TypeInv, NEW j \in DirectJobs, RequestStep(j)
  PROVE  TypeInv'
  <1> USE DEF TypeInv
  <1>0. j \in Jobs
    BY DEF Jobs
  <1>1. CASE \E f \in Features : BeginWriteBack(j, f)
    <2>1. PICK f \in Features : BeginWriteBack(j, f)
      BY <1>1
    <2>2. JobsTyped'
      BY <2>1 DEF BeginWriteBack, JobsTyped, Statuses
    <2>3. DirectTyped'
      BY <2>1 DEF BeginWriteBack, DirectTyped
    <2>4. RequestsTyped'
      BY <2>1 DEF BeginWriteBack, DirectTyped, RequestsTyped
    <2> QED
      BY <2>1, <2>2, <2>3, <2>4, FcKept, SourceKept, QueueKept, WorkerKept, ChunkKept,
         FinalKept, EnvKept DEF BeginWriteBack
  <1>2. CASE SkipWriteBack(j)
    <2>1. JobsTyped' /\ DirectTyped' /\ RequestsTyped'
      BY <1>2 DEF SkipWriteBack, JobsTyped, DirectTyped, RequestsTyped, Statuses, Terminal
    <2> QED
      BY <1>2, <2>1, FcKept, SourceKept, QueueKept, WorkerKept, ChunkKept, FinalKept, EnvKept
         DEF SkipWriteBack
  <1>3. CASE ReadSource(j)
    <2>1. DirectTyped'
      BY <1>3 DEF ReadSource, DirectTyped
    <2>2. RequestsTyped'
      BY <1>3 DEF ReadSource, SourceTyped, DirectTyped, RequestsTyped
    <2> QED
      BY <1>3, <2>1, <2>2, FcKept, JobsKept, SourceKept, QueueKept, WorkerKept, ChunkKept,
         FinalKept, EnvKept DEF ReadSource
  <1>4. CASE WriteSource(j)
    <2>1. hfeature[j] \in Features
      BY <1>4 DEF WriteSource, RequestsTyped
    <2>2. PICK o \in Outcomes(hfeature[j], hseen[j]) :
            /\ houtcome' = [houtcome EXCEPT ![j] = o]
            /\ applied' = Committed(IF o = "applied" THEN {hfeature[j]} ELSE {})
      BY <1>4 DEF WriteSource
    <2>3. /\ o \in {"applied", "conflict", "skipped", "failed"}
          /\ o = "conflict" => hfeature[j] \notin Inserts
      BY <2>1, OutcomeTyped
    <2>4. SourceTyped'
      BY <1>4, <2>2 DEF WriteSource, Committed, SourceTyped
    <2>5. DirectTyped'
      BY <1>4, <2>2, <2>3 DEF WriteSource, DirectTyped
    <2>6. RequestsTyped'
      BY <1>4, <2>1, <2>2, <2>3 DEF WriteSource, DirectTyped, RequestsTyped
    <2> QED
      BY <1>4, <2>4, <2>5, <2>6, FcKept, JobsKept, QueueKept, WorkerKept, ChunkKept, FinalKept,
         EnvKept DEF WriteSource
  <1>5. CASE Record(j)
    <2>1. FcTyped' /\ EnvTyped'
      BY <1>5 DEF Record, Logged, Fails, FcTyped, EnvTyped, RequestsTyped
    <2>2. DirectTyped' /\ RequestsTyped'
      BY <1>5 DEF Record, DirectTyped, RequestsTyped
    <2> QED
      BY <1>5, <2>1, <2>2, JobsKept, SourceKept, QueueKept, WorkerKept, ChunkKept, FinalKept
         DEF Record
  <1>6. CASE FinishWriteBack(j)
    <2>1. houtcome[j] \in {"applied", "conflict", "skipped", "failed"}
      BY <1>6 DEF FinishWriteBack, DirectTyped, RequestsTyped
    <2>2. CountersOf(hfeature[j], houtcome[j]) \subseteq Counted
      BY <2>1 DEF CountersOf, Counted
    <2>3. JobsTyped'
      BY <1>0, <1>6, <2>1, <2>2 DEF FinishWriteBack, JobsTyped, Statuses, Terminal
    <2>4. DirectTyped' /\ RequestsTyped'
      BY <1>6 DEF FinishWriteBack, DirectTyped, RequestsTyped
    <2> QED
      BY <1>6, <2>3, <2>4, FcKept, SourceKept, QueueKept, WorkerKept, ChunkKept, FinalKept,
         EnvKept DEF FinishWriteBack
  <1>7. CASE Disconnect(j)
    <2>1. DirectTyped' /\ RequestsTyped'
      BY <1>7 DEF Disconnect, DirectTyped, RequestsTyped
    <2> QED
      BY <1>7, <2>1, FcKept, JobsKept, SourceKept, QueueKept, WorkerKept, ChunkKept,
         FinalKept, EnvKept DEF Disconnect
  <1> QED
    BY <1>1, <1>2, <1>3, <1>4, <1>5, <1>6, <1>7 DEF RequestStep

LEMMA TypeEnvStep ==
  ASSUME TypeInv, Crash \/ Boot \/ \E f \in Features : SourceEdit(f)
  PROVE  TypeInv'
  <1> USE DEF TypeInv
  <1>1. CASE Crash
    <2>1. QueueTyped' /\ WorkerTyped'
      BY <1>1, ConstantsAssumption DEF Crash, QueueTyped, WorkerTyped
    <2>2. ChunkTyped' /\ FinalTyped'
      BY <1>1 DEF Crash, ChunkTyped, FinalTyped
    <2>3. EnvTyped'
      <3>1. up' \in BOOLEAN
        BY <1>1 DEF Crash
      <3>2. edits' \in Nat /\ errors' \in Nat /\ crashes' \in Nat
        BY <1>1 DEF Crash, EnvTyped
      <3> QED
        BY <3>1, <3>2 DEF EnvTyped
    <2>4. DirectTyped' /\ RequestsTyped'
      BY <1>1 DEF Crash, DirectTyped, RequestsTyped
    <2> QED
      BY <1>1, <2>1, <2>2, <2>3, <2>4, FcKept, JobsKept, SourceKept DEF Crash
  <1>2. CASE Boot
    <2>1. JobsTyped' /\ EnvTyped'
      BY <1>2 DEF Boot, JobsTyped, EnvTyped, Statuses, Terminal
    <2> QED
      BY <1>2, <2>1, FcKept, SourceKept, QueueKept, WorkerKept, ChunkKept, FinalKept,
         DirectKept DEF Boot
  <1>3. CASE \E f \in Features : SourceEdit(f)
    <2>1. SourceTyped' /\ EnvTyped'
      BY <1>3 DEF SourceEdit, SourceTyped, EnvTyped
    <2> QED
      BY <1>3, <2>1, FcKept, JobsKept, QueueKept, WorkerKept, ChunkKept, FinalKept,
         DirectKept DEF SourceEdit
  <1> QED
    BY <1>1, <1>2, <1>3

(* Every variable keeps its type, whatever is lost and whoever writes. *)
THEOREM TypeCorrect == Spec => []TypeOK
  <1>1. ASSUME TypeInv, [Next]_vars
        PROVE  TypeInv'
    <2>1. CASE UNCHANGED vars
      BY <1>1, <2>1, FcKept, JobsKept, SourceKept, QueueKept, WorkerKept, ChunkKept,
         FinalKept, DirectKept, EnvKept DEF vars, TypeInv
    <2>2. WorkerStep => TypeInv'
      BY <1>1, TypeJobStep, TypeChunkStep DEF WorkerStep
    <2> QED
      BY <1>1, <2>1, <2>2, TypeFinalStep, TypeRequestStep, TypeAdminStep, TypeEnvStep DEF Next
  <1> QED
    BY <1>1, TypeInitial, TypeInvIsTyped, PTL DEF Spec

==============================================================================
