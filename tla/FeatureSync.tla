----------------------------- MODULE FeatureSync -----------------------------
(***************************************************************************)
(* The upload of captured features from a device to fc-api.                *)
(*                                                                         *)
(*   device   mobile/lib/features/sync/sync_service.dart (syncProject,     *)
(*            recoverProject), feature_push_repository.dart and            *)
(*            collection/feature_repository.dart over the table            *)
(*            collected_features of core/db/app_database.dart              *)
(*   server   services/fc-api/internal/service/sync_service.go (Push,      *)
(*            Verify) and repository/feature_repo.go over the table        *)
(*            features                                                     *)
(*                                                                         *)
(* A flow is one asynchronous call of syncProject or recoverProject.  The  *)
(* screens start flows without checking whether one already runs, so flows *)
(* interleave with each other and with the user at every await: one action *)
(* is the code between two awaits.  Loops over rows take their rows in any *)
(* order.  Each flow works on the rows it read when it began, not on the   *)
(* table as it is by then.                                                 *)
(***************************************************************************)
EXTENDS Naturals, FiniteSets

CONSTANTS
  Cids,         \* client ids the device may generate
  RefRows,      \* those that are edits of a reference feature (source_ref set)
  Flows,        \* asynchronous calls that may be running at once
  PushChunk,    \* _kPushChunkSize
  VerifyChunk,  \* chunkSize of recoverProject
  MaxPush,      \* push attempts per batch
  MaxStrikes,   \* failed outcomes before a row needs attention
  MaxVersion,   \* bound: times one row may be saved by the user
  MaxCrashes,   \* bound: times the app may be killed
  MaxRequests,  \* bound: push requests the server works on at once
  NoRow         \* no content, no row

ASSUME ConstantsAssumption ==
  /\ RefRows \subseteq Cids
  /\ {PushChunk, VerifyChunk, MaxPush, MaxStrikes} \subseteq Nat \ {0}
  /\ {MaxVersion, MaxCrashes, MaxRequests} \subseteq Nat
  /\ NoRow \notin Cids

(* The columns a property can tell apart: which of the user's saves the    *)
(* attributes and geometry come from, and whether deleted_at is set.       *)
Contents == [version : 0..MaxVersion, tombstone : BOOLEAN]

ASSUME NoRowAssumption == NoRow \notin Contents

Statuses == {"none", "draft", "pending", "syncing", "synced", "failed",
             "needs_attention", "gone"}

PCs == {"idle", "mark", "attach", "push", "await", "backoff", "apply",
        "recover", "verify", "asking", "settle"}

Outcomes == {"none", "receipt", "retryable", "fatal", "reply", "refused"}

Requests == [flow : Flows, live : BOOLEAN, batch : SUBSET Cids,
             todo : SUBSET Cids, missed : Cids \union {NoRow},
             rejected : SUBSET Cids, payload : [Cids -> Contents \union {NoRow}]]

VARIABLES
  (* collected_features on the device; "none" is a client id not generated *)
  (* yet, "gone" a row the user deleted.                                   *)
  status, strikes, content,
  (* the local variables of the flows *)
  pc,        \* the await a flow is at
  todo,      \* rows the innermost loop has still to visit
  ready,     \* readyFeatures not pushed yet; candidates not verified yet
  batch,     \* the row, batch or chunk being worked on
  payload,   \* the rows as the flow read them when it began
  inFlight,  \* the candidates that were 'syncing' when they were read
  attempt,   \* push attempts for this batch
  outcome,   \* what came of the push, or of verify
  rejected,  \* the client ids the receipt rejects
  found,     \* the client ids verify reports
  (* the network and the server *)
  reqs,      \* push requests being handled; not live: nobody awaits them
  srv,       \* features.client_id -> what is stored
  crashes    \* times the app was killed

deviceVars == <<status, strikes, content>>
loopVars   == <<todo, ready, batch>>
snapVars   == <<payload, inFlight>>
pushVars   == <<attempt, outcome, rejected>>
flowVars   == <<pc, loopVars, snapVars, pushVars, found>>
vars       == <<deviceVars, flowVars, reqs, srv, crashes>>

Blank   == [version |-> 0, tombstone |-> FALSE]
Nothing == [c \in Cids |-> NoRow]

Init ==
  /\ status = [c \in Cids |-> "none"]
  /\ strikes = [c \in Cids |-> 0]
  /\ content = [c \in Cids |-> Blank]
  /\ pc = [p \in Flows |-> "idle"]
  /\ todo = [p \in Flows |-> {}]
  /\ ready = [p \in Flows |-> {}]
  /\ batch = [p \in Flows |-> {}]
  /\ payload = [p \in Flows |-> Nothing]
  /\ inFlight = [p \in Flows |-> {}]
  /\ attempt = [p \in Flows |-> 0]
  /\ outcome = [p \in Flows |-> "none"]
  /\ rejected = [p \in Flows |-> {}]
  /\ found = [p \in Flows |-> {}]
  /\ reqs = {}
  /\ srv = Nothing
  /\ crashes = 0

------------------------------------------------------------------------------
(* The rows of the device. *)

Exists(c) == status[c] \notin {"none", "gone"}

(* A chunk of at most n rows, as large as the rows left allow. *)
ChunksOf(rows, n) ==
  {b \in SUBSET rows : b # {} /\ Cardinality(b) <= n
                       /\ (b # rows => Cardinality(b) = n)}

(* The strikes of row c after an outcome s is recorded. *)
StrikesAfter(c, s) ==
  CASE s \in {"pending", "failed"} -> strikes[c] + 1
    [] s = "synced"                -> 0
    [] OTHER                       -> strikes[c]

StatusAfter_FourthStrike(c, s) ==
  IF s \in {"pending", "failed"} /\ strikes[c] + 1 > MaxStrikes
    THEN "needs_attention" ELSE s

(* The status that outcome s gives row c: the third failed outcome parks it. *)
StatusAfter(c, s) ==
  IF s \in {"pending", "failed"} /\ strikes[c] + 1 >= MaxStrikes
    THEN "needs_attention" ELSE s

(* markFeatureStatus: writes whatever the row has become meanwhile; a row  *)
(* that was deleted is matched by no UPDATE.                               *)
Mark(c, s) ==
  IF Exists(c)
    THEN /\ status' = [status EXCEPT ![c] = StatusAfter(c, s)]
         /\ strikes' = [strikes EXCEPT ![c] = StrikesAfter(c, s)]
         /\ UNCHANGED content
    ELSE UNCHANGED deviceVars

------------------------------------------------------------------------------
(* The user. *)

Editable_AfterSubmit(c) == status[c] # "gone" /\ ~content[c].tombstone

(* A capture can be opened for editing until it is submitted; the edit of  *)
(* a reference feature whenever the feature is tapped, until it is marked  *)
(* deleted.                                                                *)
Editable(c) ==
  \/ status[c] \in {"none", "draft"} /\ ~content[c].tombstone
  \/ c \in RefRows /\ status[c] # "gone" /\ ~content[c].tombstone

(* upsertCollectedFeature: the strikes and deleted_at columns are not in   *)
(* the companion and keep their values.                                    *)
Save(c, s) ==
  /\ content[c].version < MaxVersion
  /\ content' = [content EXCEPT ![c].version = @ + 1]
  /\ status' = [status EXCEPT ![c] = s]
  /\ UNCHANGED <<strikes, flowVars, reqs, srv, crashes>>

Submit(c) == Editable(c) /\ Save(c, "pending")

UpdateGeometry(c) == c \in RefRows /\ Editable(c) /\ Save(c, "pending")

(* A draft of a new reference edit carries no source_ref: it is an         *)
(* ordinary capture, so a RefRows row exists before it is saved as draft.  *)
SaveDraft(c) ==
  /\ Editable(c)
  /\ c \in RefRows => Exists(c)
  /\ Save(c, "draft")

(* markReferenceDeleted reuses the row of an earlier edit, whatever its    *)
(* status, and otherwise creates the tombstone.                            *)
MarkDeleted(c) ==
  /\ c \in RefRows
  /\ Editable(c)
  /\ status' = [status EXCEPT ![c] = "pending"]
  /\ content' = [content EXCEPT ![c].tombstone = TRUE]
  /\ UNCHANGED <<strikes, flowVars, reqs, srv, crashes>>

Delete(c) ==
  /\ Exists(c)
  /\ status' = [status EXCEPT ![c] = "gone"]
  /\ strikes' = [strikes EXCEPT ![c] = 0]
  /\ content' = [content EXCEPT ![c] = Blank]
  /\ UNCHANGED <<flowVars, reqs, srv, crashes>>

------------------------------------------------------------------------------
(* syncProject, phase 1: attachments. *)

Syncable_WithDrafts == {c \in Cids : status[c] \in {"draft", "pending", "failed"}}

Syncable == {c \in Cids : status[c] \in {"pending", "failed"}}

Snapshot(rows) == [c \in Cids |-> IF c \in rows THEN content[c] ELSE NoRow]

StartSync(p) ==
  /\ pc[p] = "idle"
  /\ Syncable # {}
  /\ todo' = [todo EXCEPT ![p] = Syncable]
  /\ payload' = [payload EXCEPT ![p] = Snapshot(Syncable)]
  /\ pc' = [pc EXCEPT ![p] = "mark"]
  /\ UNCHANGED <<deviceVars, ready, batch, inFlight, pushVars, found, reqs, srv,
                 crashes>>

MarkSyncing(p) ==
  /\ pc[p] = "mark"
  /\ \E c \in todo[p] :
       /\ Mark(c, "syncing")
       /\ todo' = [todo EXCEPT ![p] = @ \ {c}]
       /\ batch' = [batch EXCEPT ![p] = {c}]
  /\ pc' = [pc EXCEPT ![p] = "attach"]
  /\ UNCHANGED <<ready, snapVars, pushVars, found, reqs, srv, crashes>>

AfterAttachments(p) ==
  /\ batch' = [batch EXCEPT ![p] = {}]
  /\ pc' = [pc EXCEPT ![p] = IF todo[p] = {} THEN "push" ELSE "mark"]
  /\ UNCHANGED <<todo, snapVars, pushVars, found, reqs, srv, crashes>>

(* How an attachment is uploaded is the subject of AttachmentUpload. *)
AttachmentsOk(p) ==
  /\ pc[p] = "attach"
  /\ ready' = [ready EXCEPT ![p] = @ \union batch[p]]
  /\ AfterAttachments(p)
  /\ UNCHANGED deviceVars

AttachmentsFailed(p) ==
  /\ pc[p] = "attach"
  /\ \E c \in batch[p] : Mark(c, "pending")
  /\ AfterAttachments(p)
  /\ UNCHANGED ready

------------------------------------------------------------------------------
(* syncProject, phase 2: batches, up to MaxPush attempts each. *)

Request(p, b) ==
  [flow |-> p, live |-> TRUE, batch |-> b, todo |-> b, missed |-> NoRow,
   rejected |-> {},
   payload |-> [c \in Cids |-> IF c \in b THEN payload[p][c] ELSE NoRow]]

Send(p, b) ==
  /\ Cardinality(reqs) < MaxRequests
  /\ reqs' = reqs \union {Request(p, b)}

PushBatch(p) ==
  /\ pc[p] = "push"
  /\ \E b \in ChunksOf(ready[p], PushChunk) :
       /\ Send(p, b)
       /\ batch' = [batch EXCEPT ![p] = b]
       /\ ready' = [ready EXCEPT ![p] = @ \ b]
  /\ attempt' = [attempt EXCEPT ![p] = 1]
  /\ pc' = [pc EXCEPT ![p] = "await"]
  /\ UNCHANGED <<deviceVars, todo, snapVars, outcome, rejected, found, srv, crashes>>

RetryPush(p) ==
  /\ pc[p] = "backoff"
  /\ Send(p, batch[p])
  /\ pc' = [pc EXCEPT ![p] = "await"]
  /\ UNCHANGED <<deviceVars, loopVars, snapVars, pushVars, found, srv, crashes>>

AwaitedBy(p) == {q \in reqs : q.live /\ q.flow = p}

(* The request of p is over for p: it never arrived or was refused, or its *)
(* answer was lost, or the server still works on it and nobody listens.    *)
Unanswered(p) ==
  \/ reqs' = reqs \ AwaitedBy(p)
  \/ reqs' = (reqs \ AwaitedBy(p)) \union {[q EXCEPT !.live = FALSE] : q \in AwaitedBy(p)}

PushError_AttemptKept(p, kind) ==
  /\ pc[p] = "await"
  /\ Unanswered(p)
  /\ \/ /\ kind = "retryable" /\ attempt[p] < MaxPush
        /\ pc' = [pc EXCEPT ![p] = "backoff"]
        /\ UNCHANGED <<todo, outcome>>
     \/ /\ kind = "fatal" \/ attempt[p] >= MaxPush
        /\ outcome' = [outcome EXCEPT ![p] = kind]
        /\ todo' = [todo EXCEPT ![p] = batch[p]]
        /\ pc' = [pc EXCEPT ![p] = "apply"]
  /\ UNCHANGED <<deviceVars, ready, batch, snapVars, attempt, rejected, found, srv,
                 crashes>>

PushError_OneMore(p, kind) ==
  /\ pc[p] = "await"
  /\ Unanswered(p)
  /\ \/ /\ kind = "retryable" /\ attempt[p] <= MaxPush
        /\ attempt' = [attempt EXCEPT ![p] = @ + 1]
        /\ pc' = [pc EXCEPT ![p] = "backoff"]
        /\ UNCHANGED <<todo, outcome>>
     \/ /\ kind = "fatal" \/ attempt[p] > MaxPush
        /\ outcome' = [outcome EXCEPT ![p] = kind]
        /\ todo' = [todo EXCEPT ![p] = batch[p]]
        /\ pc' = [pc EXCEPT ![p] = "apply"]
        /\ UNCHANGED attempt
  /\ UNCHANGED <<deviceVars, ready, batch, snapVars, rejected, found, srv, crashes>>

(* push returned an overall error: "retryable" is a network or server      *)
(* error, "fatal" any other.                                               *)
PushError(p, kind) ==
  /\ pc[p] = "await"
  /\ Unanswered(p)
  /\ \/ /\ kind = "retryable" /\ attempt[p] < MaxPush
        /\ attempt' = [attempt EXCEPT ![p] = @ + 1]
        /\ pc' = [pc EXCEPT ![p] = "backoff"]
        /\ UNCHANGED <<todo, outcome>>
     \/ /\ kind = "fatal" \/ attempt[p] >= MaxPush
        /\ outcome' = [outcome EXCEPT ![p] = kind]
        /\ todo' = [todo EXCEPT ![p] = batch[p]]
        /\ pc' = [pc EXCEPT ![p] = "apply"]
        /\ UNCHANGED attempt
  /\ UNCHANGED <<deviceVars, ready, batch, snapVars, rejected, found, srv, crashes>>

ResultFor_IgnoresReceipt(p, c) ==
  CASE outcome[p] = "retryable" -> "pending"
    [] outcome[p] = "fatal"     -> "failed"
    [] OTHER                    -> "synced"

(* The status that the result of the push gives row c: the receipt names   *)
(* only the rejected rows, every other row of the batch counts as accepted. *)
ResultFor(p, c) ==
  CASE outcome[p] = "retryable" -> "pending"
    [] outcome[p] = "fatal"     -> "failed"
    [] OTHER                    -> IF c \in rejected[p] THEN "failed" ELSE "synced"

ApplyResult(p) ==
  /\ pc[p] = "apply"
  /\ \E c \in todo[p] :
       /\ Mark(c, ResultFor(p, c))
       /\ todo' = [todo EXCEPT ![p] = @ \ {c}]
  /\ IF todo'[p] = {}
       THEN /\ pc' = [pc EXCEPT ![p] = "push"]
            /\ batch' = [batch EXCEPT ![p] = {}]
            /\ attempt' = [attempt EXCEPT ![p] = 0]
            /\ outcome' = [outcome EXCEPT ![p] = "none"]
            /\ rejected' = [rejected EXCEPT ![p] = {}]
       ELSE UNCHANGED <<pc, batch, pushVars>>
  /\ UNCHANGED <<ready, snapVars, found, reqs, srv, crashes>>

(* completeRun; the run goes on with the automatic recovery pass. *)
EndPush(p) ==
  /\ pc[p] = "push"
  /\ ready[p] = {}
  /\ pc' = [pc EXCEPT ![p] = "recover"]
  /\ payload' = [payload EXCEPT ![p] = Nothing]
  /\ UNCHANGED <<deviceVars, loopVars, inFlight, pushVars, found, reqs, srv, crashes>>

------------------------------------------------------------------------------
(* recoverProject: after a run, when the project screen opens, on refresh. *)

Candidates_PendingOnly == {c \in Cids : status[c] = "pending"}

Candidates == {c \in Cids : status[c] \in {"pending", "syncing"}}

StartRecover(p) ==
  /\ pc[p] \in {"idle", "recover"}
  /\ pc[p] = "idle" => Candidates # {}
  /\ ready' = [ready EXCEPT ![p] = Candidates]
  /\ inFlight' = [inFlight EXCEPT ![p] = {c \in Candidates : status[c] = "syncing"}]
  /\ pc' = [pc EXCEPT ![p] = "verify"]
  /\ UNCHANGED <<deviceVars, todo, batch, payload, pushVars, found, reqs, srv, crashes>>

AskVerify(p) ==
  /\ pc[p] = "verify"
  /\ \E b \in ChunksOf(ready[p], VerifyChunk) :
       /\ batch' = [batch EXCEPT ![p] = b]
       /\ ready' = [ready EXCEPT ![p] = @ \ b]
  /\ pc' = [pc EXCEPT ![p] = "asking"]
  /\ UNCHANGED <<deviceVars, todo, snapVars, pushVars, found, reqs, srv, crashes>>

(* FindByClientIDs skips rows whose deleted_at is set. *)
Verified(b) == {c \in b : srv[c] # NoRow /\ ~srv[c].tombstone}

VerifyAnswered(p, how, cs) ==
  /\ pc[p] = "asking"
  /\ outcome' = [outcome EXCEPT ![p] = how]
  /\ found' = [found EXCEPT ![p] = cs]
  /\ todo' = [todo EXCEPT ![p] = batch[p]]
  /\ pc' = [pc EXCEPT ![p] = "settle"]
  /\ UNCHANGED <<deviceVars, ready, batch, snapVars, attempt, rejected, reqs, srv,
                 crashes>>

VerifyReply(p) == VerifyAnswered(p, "reply", Verified(batch[p]))

(* A refusal (403, 400) is a body without 'found': statusCode is not       *)
(* looked at and every row of the chunk counts as missing.                 *)
VerifyRefused(p) == VerifyAnswered(p, "refused", {})

(* verify threw (network, 5xx, a body that is no map): the chunk is left.  *)
VerifyThrew(p) ==
  /\ pc[p] = "asking"
  /\ batch' = [batch EXCEPT ![p] = {}]
  /\ pc' = [pc EXCEPT ![p] = "verify"]
  /\ UNCHANGED <<deviceVars, todo, ready, snapVars, pushVars, found, reqs, srv, crashes>>

Settle(p) ==
  /\ pc[p] = "settle"
  /\ \E c \in todo[p] :
       /\ \/ c \in found[p] /\ Mark(c, "synced")
          \/ c \in inFlight[p] \ found[p] /\ Mark(c, "pending")
          \/ c \notin inFlight[p] \union found[p] /\ UNCHANGED deviceVars
       /\ todo' = [todo EXCEPT ![p] = @ \ {c}]
  /\ IF todo'[p] = {}
       THEN /\ pc' = [pc EXCEPT ![p] = "verify"]
            /\ batch' = [batch EXCEPT ![p] = {}]
            /\ found' = [found EXCEPT ![p] = {}]
            /\ outcome' = [outcome EXCEPT ![p] = "none"]
       ELSE UNCHANGED <<pc, batch, found, outcome>>
  /\ UNCHANGED <<ready, snapVars, attempt, rejected, reqs, srv, crashes>>

EndRecover(p) ==
  /\ pc[p] = "verify"
  /\ ready[p] = {}
  /\ pc' = [pc EXCEPT ![p] = "idle"]
  /\ inFlight' = [inFlight EXCEPT ![p] = {}]
  /\ UNCHANGED <<deviceVars, loopVars, payload, pushVars, found, reqs, srv, crashes>>

------------------------------------------------------------------------------
(* Push on the server: one request is one loop over its features, with a   *)
(* lookup and an insert that are separate statements.                      *)

Update(q, r) == reqs' = (reqs \ {q}) \union {r}

Done(q, c) == [q EXCEPT !.todo = @ \ {c}, !.missed = NoRow]

Refuse(q, c) == [q EXCEPT !.todo = @ \ {c}, !.missed = NoRow, !.rejected = @ \union {c}]

(* The client id is already stored: counted as accepted, nothing written.  *)
Dedup(q) ==
  /\ q.missed = NoRow
  /\ \E c \in q.todo : srv[c] # NoRow /\ Update(q, Done(q, c))
  /\ UNCHANGED <<deviceVars, flowVars, srv, crashes>>

(* Not stored, or the lookup failed: the loop goes on to store it. *)
LookupMiss(q) ==
  /\ q.missed = NoRow
  /\ \E c \in q.todo : Update(q, [q EXCEPT !.missed = c])
  /\ UNCHANGED <<deviceVars, flowVars, srv, crashes>>

(* The AOI layer is locked, the geometry is outside the AOI (deletes are   *)
(* exempt from that), the INSERT failed, or client_id was taken since.     *)
Reject(q) ==
  /\ q.missed \in q.todo
  /\ Update(q, Refuse(q, q.missed))
  /\ UNCHANGED <<deviceVars, flowVars, srv, crashes>>

Insert_Upsert(q) ==
  /\ q.missed \in q.todo
  /\ srv' = [srv EXCEPT ![q.missed] = q.payload[q.missed]]
  /\ Update(q, Done(q, q.missed))
  /\ UNCHANGED <<deviceVars, flowVars, crashes>>

(* features.client_id is UNIQUE. *)
Insert(q) ==
  /\ q.missed \in q.todo
  /\ srv[q.missed] = NoRow
  /\ srv' = [srv EXCEPT ![q.missed] = q.payload[q.missed]]
  /\ Update(q, Done(q, q.missed))
  /\ UNCHANGED <<deviceVars, flowVars, crashes>>

(* The receipt reaches the flow that awaits it. *)
Receipt(q) ==
  /\ q.todo = {}
  /\ q.live
  /\ LET p == q.flow IN
       /\ outcome' = [outcome EXCEPT ![p] = "receipt"]
       /\ rejected' = [rejected EXCEPT ![p] = q.rejected]
       /\ todo' = [todo EXCEPT ![p] = q.batch]
       /\ pc' = [pc EXCEPT ![p] = "apply"]
  /\ reqs' = reqs \ {q}
  /\ UNCHANGED <<deviceVars, ready, batch, snapVars, attempt, found, srv, crashes>>

(* A request nobody awaits ends, finished or not. *)
Abandon(q) ==
  /\ ~q.live
  /\ reqs' = reqs \ {q}
  /\ UNCHANGED <<deviceVars, flowVars, srv, crashes>>

------------------------------------------------------------------------------
(* The app is killed: tables stay, flows are gone, and what they had sent  *)
(* is lost or still being handled.                                         *)
Crash ==
  /\ crashes < MaxCrashes
  /\ \E p \in Flows : pc[p] # "idle"
  /\ crashes' = crashes + 1
  /\ pc' = [p \in Flows |-> "idle"]
  /\ todo' = [p \in Flows |-> {}]
  /\ ready' = [p \in Flows |-> {}]
  /\ batch' = [p \in Flows |-> {}]
  /\ payload' = [p \in Flows |-> Nothing]
  /\ inFlight' = [p \in Flows |-> {}]
  /\ attempt' = [p \in Flows |-> 0]
  /\ outcome' = [p \in Flows |-> "none"]
  /\ rejected' = [p \in Flows |-> {}]
  /\ found' = [p \in Flows |-> {}]
  /\ \E kept \in SUBSET reqs : reqs' = {[q EXCEPT !.live = FALSE] : q \in kept}
  /\ UNCHANGED <<deviceVars, srv>>

------------------------------------------------------------------------------
UserStep(c) ==
  Submit(c) \/ UpdateGeometry(c) \/ SaveDraft(c) \/ MarkDeleted(c) \/ Delete(c)

(* What a running flow does by itself or when its call returns or times    *)
(* out.                                                                    *)
FlowStep(p) ==
  \/ MarkSyncing(p)
  \/ AttachmentsOk(p)
  \/ AttachmentsFailed(p)
  \/ PushBatch(p)
  \/ RetryPush(p)
  \/ \E kind \in {"retryable", "fatal"} : PushError(p, kind)
  \/ ApplyResult(p)
  \/ EndPush(p)
  \/ pc[p] = "recover" /\ StartRecover(p)
  \/ AskVerify(p)
  \/ VerifyReply(p)
  \/ VerifyRefused(p)
  \/ VerifyThrew(p)
  \/ Settle(p)
  \/ EndRecover(p)

ServerStep(q) ==
  Dedup(q) \/ LookupMiss(q) \/ Reject(q) \/ Insert(q) \/ Receipt(q) \/ Abandon(q)

Next ==
  \/ \E c \in Cids : UserStep(c)
  \/ \E p \in Flows : StartSync(p) \/ StartRecover(p) \/ FlowStep(p)
  \/ \E q \in reqs : ServerStep(q)
  \/ Crash

Spec == Init /\ [][Next]_vars

(* Fairness.  A flow that can go on does (the event loop of the app), and  *)
(* every call it awaits returns or times out (connectTimeout 15 s,         *)
(* receiveTimeout 30 s in core/api/dio_client.dart).                       *)
FlowFairness == \A p \in Flows : WF_vars(FlowStep(p))

ServerFairness == WF_vars(\E q \in reqs : ServerStep(q))

(* A field worker who keeps trying: reopens the project, taps sync, and is *)
(* online now and then.                                                    *)
PersistentUser ==
  \A p \in Flows : /\ SF_vars(StartSync(p))
                  /\ SF_vars(pc[p] = "idle" /\ StartRecover(p))
                  /\ SF_vars(VerifyReply(p))

FairSpec == Spec /\ FlowFairness /\ ServerFairness

PersistentSpec == FairSpec /\ PersistentUser

------------------------------------------------------------------------------
(* Properties. *)

(* Every variable stays in the range the code gives it; no batch is pushed *)
(* more than MaxPush times.                                                *)
TypeOK ==
  /\ status \in [Cids -> Statuses]
  /\ strikes \in [Cids -> Nat]
  /\ content \in [Cids -> Contents]
  /\ pc \in [Flows -> PCs]
  /\ todo \in [Flows -> SUBSET Cids]
  /\ ready \in [Flows -> SUBSET Cids]
  /\ batch \in [Flows -> SUBSET Cids]
  /\ payload \in [Flows -> [Cids -> Contents \union {NoRow}]]
  /\ inFlight \in [Flows -> SUBSET Cids]
  /\ attempt \in [Flows -> 0..MaxPush]
  /\ outcome \in [Flows -> Outcomes]
  /\ rejected \in [Flows -> SUBSET Cids]
  /\ found \in [Flows -> SUBSET Cids]
  /\ reqs \in SUBSET Requests
  /\ srv \in [Cids -> Contents \union {NoRow}]
  /\ crashes \in Nat

(* A row the device shows as synced is stored by the server, whatever was  *)
(* lost, retried, recovered or killed on the way (sync_service.dart marks  *)
(* a row synced from the absence of a rejection, never from a server id).  *)
SyncedOnServer == \A c \in Cids : status[c] = "synced" => srv[c] # NoRow

(* A synced capture is stored with exactly the content its collector       *)
(* submitted: no flow pushes a stale snapshot of it.                       *)
CapturesDelivered ==
  \A c \in Cids \ RefRows : status[c] = "synced" => srv[c] = content[c]

(* A capture that is still a draft has not reached the server: no flow, on *)
(* whatever snapshot it works, pushes a row its collector did not submit.  *)
DraftsStayLocal ==
  \A c \in Cids \ RefRows : status[c] \in {"none", "draft"} => srv[c] = NoRow

(* Only its collector takes a capture out of draft: no flow reads it, and  *)
(* none that read the row earlier writes an outcome over the draft.        *)
DraftsUntouched ==
  [][\A c \in Cids \ RefRows :
       status[c] = "draft" /\ status'[c] # "draft" => UserStep(c)]_vars

(* A row is parked as needs_attention after MaxStrikes failed outcomes in  *)
(* a row and not before, and no capture is retried beyond them.            *)
StrikesSpent ==
  \A c \in Cids :
    /\ status[c] = "needs_attention" => strikes[c] >= MaxStrikes
    /\ c \notin RefRows /\ status[c] \in {"pending", "failed"} => strikes[c] < MaxStrikes

(* The upload path is an implementation of the at-most-once delivery that  *)
(* the client id is for: what is stored first stays, and only stored rows  *)
(* are acknowledged.                                                       *)
Delivery ==
  INSTANCE FeatureDelivery WITH delivered <- srv,
                                acknowledged <- {c \in Cids : status[c] = "synced"}

ImplementsDelivery == Delivery!Spec

(* Every run and every recovery pass ends: the loops over rows, batches    *)
(* and attempts are bounded whatever the network does.                     *)
FlowsEnd == \A p \in Flows : pc[p] # "idle" ~> pc[p] = "idle"

(* With a field worker who keeps trying, a submitted row does not stay in  *)
(* between: it is synced, parked, or taken back by its collector, even if  *)
(* the app was killed while it was 'syncing'.                              *)
EveryRowSettles ==
  \A c \in Cids :
    status[c] \in {"pending", "failed", "syncing"}
      ~> status[c] \in {"synced", "needs_attention", "draft", "gone"}

------------------------------------------------------------------------------
(* Statements of the repository that the code does not keep. *)

(* docs/efficient-sync.md: features are pushed in batches of inserts,      *)
(* updates and deletes.  A row edited, or marked deleted, after it was     *)
(* stored is shown as synced although the server kept what it had.         *)
EditDelivered == \A c \in Cids : status[c] = "synced" => srv[c] = content[c]

(* sync_service.dart: a failed verify mutates no data.  A refusal is taken *)
(* for an answer that finds nothing.                                       *)
VerifyFailureKeepsRows ==
  [][\A p \in Flows : outcome[p] = "refused" /\ Settle(p) => UNCHANGED deviceVars]_vars

==============================================================================
