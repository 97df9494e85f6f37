-------------------------- MODULE FeatureSyncProofs --------------------------
(***************************************************************************)
(* Proofs about FeatureSync for any number of rows, flows and requests,    *)
(* any chunk sizes and any bounds.                                         *)
(***************************************************************************)
EXTENDS FeatureSync, TLAPS

USE DEF deviceVars, loopVars, snapVars, pushVars, flowVars

------------------------------------------------------------------------------
(* What the helpers of the model return. *)

(* An outcome written to a row keeps the device's table in its type. *)
LEMMA MarkType ==
  ASSUME TypeOK, NEW c \in Cids, NEW s \in {"pending", "syncing", "synced", "failed"},
         Mark(c, s)
  PROVE  /\ status' \in [Cids -> Statuses]
         /\ strikes' \in [Cids -> Nat]
         /\ content' = content
  <1>1. StatusAfter(c, s) \in Statuses
    BY DEF StatusAfter, Statuses
  <1>2. StrikesAfter(c, s) \in Nat
    BY DEF TypeOK, StrikesAfter
  <1> QED
    BY <1>1, <1>2 DEF TypeOK, Mark

(* A request that replaces one being handled keeps the set in its type. *)
LEMMA UpdateType ==
  ASSUME TypeOK, NEW q \in reqs, NEW r \in Requests, Update(q, r)
  PROVE  reqs' \in SUBSET Requests
  BY DEF TypeOK, Update

(* A push of a batch of rows sends a request. *)
LEMMA SendType ==
  ASSUME TypeOK, NEW p \in Flows, NEW b \in SUBSET Cids, Send(p, b)
  PROVE  reqs' \in SUBSET Requests
  <1>1. Request(p, b) \in Requests
    BY DEF TypeOK, Request, Requests
  <1> QED
    BY <1>1 DEF TypeOK, Send

(* Handling one feature of a request yields a request. *)
LEMMA HandledType ==
  ASSUME NEW q \in Requests, NEW c \in Cids
  PROVE  /\ Done(q, c) \in Requests
         /\ Refuse(q, c) \in Requests
         /\ [q EXCEPT !.missed = c] \in Requests
         /\ [q EXCEPT !.live = FALSE] \in Requests
  BY DEF Requests, Done, Refuse

------------------------------------------------------------------------------
(* Every variable stays in its type: Mark writes a status of the table,    *)
(* a batch is pushed at most MaxPush times.                                *)
LEMMA TypeInitial == Init => TypeOK
  BY ConstantsAssumption DEF Init, TypeOK, Blank, Nothing, Contents, Statuses, PCs,
     Outcomes, Requests

LEMMA SavedType ==
  ASSUME TypeOK, NEW c \in Cids
  PROVE  /\ content[c].version < MaxVersion =>
              [content EXCEPT ![c].version = @ + 1] \in [Cids -> Contents]
         /\ [content EXCEPT ![c].tombstone = TRUE] \in [Cids -> Contents]
         /\ [content EXCEPT ![c] = Blank] \in [Cids -> Contents]
  <1>1. MaxVersion \in Nat
    BY ConstantsAssumption
  <1>2. content[c] \in [version : 0..MaxVersion, tombstone : BOOLEAN]
    BY DEF TypeOK, Contents
  <1>3. content[c].version < MaxVersion =>
          [content[c] EXCEPT !.version = @ + 1] \in Contents
    BY <1>1, <1>2 DEF Contents
  <1>4. [content[c] EXCEPT !.tombstone = TRUE] \in Contents
    BY <1>2 DEF Contents
  <1>5. Blank \in Contents
    BY <1>1 DEF Contents, Blank
  <1> QED
    BY <1>3, <1>4, <1>5 DEF TypeOK

LEMMA TypeUserStep ==
  ASSUME TypeOK, NEW c \in Cids, UserStep(c)
  PROVE  TypeOK'
  <1> DEFINE T == /\ status' \in [Cids -> Statuses]
                  /\ strikes' \in [Cids -> Nat]
                  /\ content' \in [Cids -> Contents]
  <1>0. T
    <2>1. ASSUME NEW s \in {"pending", "draft"}, Save(c, s)
          PROVE  T
      BY <2>1, SavedType DEF Save, Statuses, TypeOK
    <2>2. CASE Submit(c) \/ UpdateGeometry(c) \/ SaveDraft(c)
      BY <2>1, <2>2 DEF Submit, UpdateGeometry, SaveDraft
    <2>3. CASE MarkDeleted(c)
      BY <2>3, SavedType DEF MarkDeleted, Statuses, TypeOK
    <2>4. CASE Delete(c)
      BY <2>4, SavedType DEF Delete, Statuses, TypeOK
    <2> QED
      BY <2>2, <2>3, <2>4 DEF UserStep
  <1>1. UNCHANGED <<flowVars, reqs, srv, crashes>>
    BY DEF UserStep, Submit, UpdateGeometry, SaveDraft, MarkDeleted, Delete, Save
  <1> QED
    BY <1>0, <1>1 DEF TypeOK

LEMMA TypeFlowStep ==
  ASSUME TypeOK, NEW p \in Flows, StartSync(p) \/ StartRecover(p) \/ FlowStep(p)
  PROVE  TypeOK'
  <1>1. CASE StartSync(p)
    <2>1. Snapshot(Syncable) \in [Cids -> Contents \union {NoRow}]
      BY DEF TypeOK, Snapshot
    <2> QED
      BY <1>1, <2>1 DEF StartSync, Syncable, TypeOK, PCs
  <1>2. CASE MarkSyncing(p)
    <2>1. PICK c \in todo[p] : Mark(c, "syncing")
      BY <1>2 DEF MarkSyncing
    <2>2. c \in Cids
      BY DEF TypeOK
    <2>3. /\ status' \in [Cids -> Statuses]
          /\ strikes' \in [Cids -> Nat]
          /\ content' = content
      BY <2>1, <2>2, MarkType
    <2>4. /\ todo' \in [Flows -> SUBSET Cids]
          /\ batch' \in [Flows -> SUBSET Cids]
      BY <1>2 DEF MarkSyncing, TypeOK
    <2> QED
      BY <1>2, <2>3, <2>4 DEF MarkSyncing, TypeOK, PCs
  <1>3. CASE AttachmentsOk(p)
    BY <1>3 DEF AttachmentsOk, AfterAttachments, TypeOK, PCs
  <1>4. CASE AttachmentsFailed(p)
    <2>1. PICK c \in batch[p] : Mark(c, "pending")
      BY <1>4 DEF AttachmentsFailed
    <2>2. c \in Cids
      BY DEF TypeOK
    <2>3. /\ status' \in [Cids -> Statuses]
          /\ strikes' \in [Cids -> Nat]
          /\ content' = content
      BY <2>1, <2>2, MarkType
    <2> QED
      BY <1>4, <2>3 DEF AttachmentsFailed, AfterAttachments, TypeOK, PCs
  <1>5. CASE PushBatch(p)
    <2>1. PICK b \in ChunksOf(ready[p], PushChunk) :
            /\ Send(p, b)
            /\ batch' = [batch EXCEPT ![p] = b]
            /\ ready' = [ready EXCEPT ![p] = @ \ b]
      BY <1>5 DEF PushBatch
    <2>2. b \subseteq Cids
      BY DEF TypeOK, ChunksOf
    <2>3. reqs' \in SUBSET Requests
      BY <2>1, <2>2, SendType
    <2> QED
      BY <1>5, <2>1, <2>2, <2>3, ConstantsAssumption DEF PushBatch, TypeOK, PCs
  <1>6. CASE RetryPush(p)
    <2>1. reqs' \in SUBSET Requests
      BY <1>6, SendType DEF RetryPush, TypeOK
    <2> QED
      BY <1>6, <2>1 DEF RetryPush, TypeOK, PCs
  <1>7. ASSUME NEW kind \in {"retryable", "fatal"}, PushError(p, kind)
        PROVE  TypeOK'
    <2>1. reqs' \in SUBSET Requests
      <3>1. reqs \subseteq Requests /\ AwaitedBy(p) \subseteq reqs
        BY DEF TypeOK, AwaitedBy
      <3>2. ASSUME NEW q \in AwaitedBy(p) PROVE [q EXCEPT !.live = FALSE] \in Requests
        <4>1. q \in Requests
          BY <3>1
        <4> QED
          BY <4>1 DEF Requests
      <3> QED
        BY <1>7, <3>1, <3>2 DEF PushError, Unanswered
    <2>2. CASE /\ attempt[p] < MaxPush
               /\ attempt' = [attempt EXCEPT ![p] = @ + 1]
               /\ pc' = [pc EXCEPT ![p] = "backoff"]
               /\ UNCHANGED <<todo, outcome>>
      <3>1. attempt[p] + 1 \in 0..MaxPush
        BY <2>2, ConstantsAssumption DEF TypeOK
      <3>2. attempt' \in [Flows -> 0..MaxPush]
        BY <2>2, <3>1 DEF TypeOK
      <3>3. pc' \in [Flows -> PCs]
        BY <2>2 DEF TypeOK, PCs
      <3> QED
        BY <1>7, <2>1, <2>2, <3>2, <3>3 DEF PushError, TypeOK
    <2>3. CASE /\ outcome' = [outcome EXCEPT ![p] = kind]
               /\ todo' = [todo EXCEPT ![p] = batch[p]]
               /\ pc' = [pc EXCEPT ![p] = "apply"]
               /\ UNCHANGED attempt
      <3>1. /\ outcome' \in [Flows -> Outcomes]
            /\ todo' \in [Flows -> SUBSET Cids]
            /\ pc' \in [Flows -> PCs]
        BY <2>3 DEF TypeOK, PCs, Outcomes
      <3> QED
        BY <1>7, <2>1, <2>3, <3>1 DEF PushError, TypeOK
    <2> QED
      BY <1>7, <2>2, <2>3, Zenon DEF PushError
  <1>8. CASE ApplyResult(p)
    <2>1. PICK c \in todo[p] : Mark(c, ResultFor(p, c))
      BY <1>8 DEF ApplyResult
    <2>2. /\ c \in Cids
          /\ ResultFor(p, c) \in {"pending", "syncing", "synced", "failed"}
      BY DEF TypeOK, ResultFor
    <2>3. /\ status' \in [Cids -> Statuses]
          /\ strikes' \in [Cids -> Nat]
          /\ content' = content
      BY <2>1, <2>2, MarkType
    <2>4. todo' \in [Flows -> SUBSET Cids]
      BY <1>8 DEF ApplyResult, TypeOK
    <2>5. /\ pc' \in [Flows -> PCs]
          /\ batch' \in [Flows -> SUBSET Cids]
          /\ attempt' \in [Flows -> 0..MaxPush]
          /\ outcome' \in [Flows -> Outcomes]
          /\ rejected' \in [Flows -> SUBSET Cids]
      <3>1. CASE todo'[p] = {}
        <4>1. /\ pc' = [pc EXCEPT ![p] = "push"]
              /\ batch' = [batch EXCEPT ![p] = {}]
              /\ attempt' = [attempt EXCEPT ![p] = 0]
              /\ outcome' = [outcome EXCEPT ![p] = "none"]
              /\ rejected' = [rejected EXCEPT ![p] = {}]
          BY <1>8, <3>1 DEF ApplyResult
        <4>2. 0 \in 0..MaxPush
          BY ConstantsAssumption
        <4> QED
          BY <4>1, <4>2 DEF TypeOK, PCs, Outcomes
      <3>2. CASE todo'[p] # {}
        BY <1>8, <3>2 DEF ApplyResult, TypeOK
      <3> QED
        BY <3>1, <3>2
    <2> QED
      BY <1>8, <2>3, <2>4, <2>5 DEF ApplyResult, TypeOK
  <1>9. CASE EndPush(p)
    BY <1>9 DEF EndPush, Nothing, TypeOK, PCs
  <1>10. CASE StartRecover(p)
    BY <1>10 DEF StartRecover, Candidates, TypeOK, PCs
  <1>11. CASE AskVerify(p)
    BY <1>11 DEF AskVerify, ChunksOf, TypeOK, PCs
  <1>12. CASE VerifyReply(p) \/ VerifyRefused(p)
    <2>1. PICK how \in {"reply", "refused"}, cs \in SUBSET Cids : VerifyAnswered(p, how, cs)
      BY <1>12 DEF VerifyReply, VerifyRefused, Verified, TypeOK
    <2> QED
      BY <2>1 DEF VerifyAnswered, TypeOK, PCs, Outcomes
  <1>13. CASE VerifyThrew(p)
    BY <1>13 DEF VerifyThrew, TypeOK, PCs
  <1>14. CASE Settle(p)
    <2>1. PICK c \in todo[p] :
            Mark(c, "synced") \/ Mark(c, "pending") \/ UNCHANGED deviceVars
      BY <1>14 DEF Settle
    <2>2. c \in Cids
      BY DEF TypeOK
    <2>3. /\ status' \in [Cids -> Statuses]
          /\ strikes' \in [Cids -> Nat]
          /\ content' = content
      BY <2>1, <2>2, MarkType DEF TypeOK
    <2>4. todo' \in [Flows -> SUBSET Cids]
      BY <1>14 DEF Settle, TypeOK
    <2>5. /\ pc' \in [Flows -> PCs]
          /\ batch' \in [Flows -> SUBSET Cids]
          /\ outcome' \in [Flows -> Outcomes]
          /\ found' \in [Flows -> SUBSET Cids]
      <3>1. CASE todo'[p] = {}
        <4>1. /\ pc' = [pc EXCEPT ![p] = "verify"]
              /\ batch' = [batch EXCEPT ![p] = {}]
              /\ found' = [found EXCEPT ![p] = {}]
              /\ outcome' = [outcome EXCEPT ![p] = "none"]
          BY <1>14, <3>1 DEF Settle
        <4> QED
          BY <4>1 DEF TypeOK, PCs, Outcomes
      <3>2. CASE todo'[p] # {}
        BY <1>14, <3>2 DEF Settle, TypeOK
      <3> QED
        BY <3>1, <3>2
    <2> QED
      BY <1>14, <2>3, <2>4, <2>5 DEF Settle, TypeOK
  <1>15. CASE EndRecover(p)
    BY <1>15 DEF EndRecover, TypeOK, PCs
  <1> QED
    BY <1>1, <1>2, <1>3, <1>4, <1>5, <1>6, <1>7, <1>8, <1>9, <1>10, <1>11, <1>12,
       <1>13, <1>14, <1>15 DEF FlowStep

LEMMA TypeServerStep ==
  ASSUME TypeOK, NEW q \in reqs, ServerStep(q)
  PROVE  TypeOK'
  <1>0. q \in Requests
    BY DEF TypeOK
  <1>1. CASE Dedup(q)
    <2>1. PICK c \in q.todo : Update(q, Done(q, c))
      BY <1>1 DEF Dedup
    <2>2. c \in Cids
      BY <1>0 DEF Requests
    <2>3. reqs' \in SUBSET Requests
      BY <1>0, <2>1, <2>2, HandledType, UpdateType
    <2> QED
      BY <1>1, <2>3 DEF Dedup, TypeOK
  <1>2. CASE LookupMiss(q)
    <2>1. PICK c \in q.todo : Update(q, [q EXCEPT !.missed = c])
      BY <1>2 DEF LookupMiss
    <2>2. c \in Cids
      BY <1>0 DEF Requests
    <2>3. reqs' \in SUBSET Requests
      BY <1>0, <2>1, <2>2, HandledType, UpdateType
    <2> QED
      BY <1>2, <2>3 DEF LookupMiss, TypeOK
  <1>3. CASE Reject(q)
    <2>1. q.missed \in Cids /\ Update(q, Refuse(q, q.missed))
      BY <1>0, <1>3 DEF Reject, Requests
    <2>2. reqs' \in SUBSET Requests
      BY <1>0, <2>1, HandledType, UpdateType
    <2> QED
      BY <1>3, <2>2 DEF Reject, TypeOK
  <1>4. CASE Insert(q)
    <2>1. /\ q.missed \in Cids
          /\ q.payload[q.missed] \in Contents \union {NoRow}
          /\ Update(q, Done(q, q.missed))
      BY <1>0, <1>4 DEF Insert, Requests
    <2>2. reqs' \in SUBSET Requests
      BY <1>0, <2>1, HandledType, UpdateType
    <2> QED
      BY <1>4, <2>1, <2>2 DEF Insert, TypeOK
  <1>5. CASE Receipt(q)
    <2>1. q.flow \in Flows /\ q.rejected \subseteq Cids /\ q.batch \subseteq Cids
      BY <1>0 DEF Requests
    <2> QED
      BY <1>5, <2>1 DEF Receipt, TypeOK, PCs, Outcomes
  <1>6. CASE Abandon(q)
    BY <1>6 DEF Abandon, TypeOK
  <1> QED
    BY <1>1, <1>2, <1>3, <1>4, <1>5, <1>6 DEF ServerStep

LEMMA TypeCrash == TypeOK /\ Crash => TypeOK'
  <1> SUFFICES ASSUME TypeOK, Crash PROVE TypeOK'
    OBVIOUS
  <1>1. PICK kept \in SUBSET reqs : reqs' = {[q EXCEPT !.live = FALSE] : q \in kept}
    BY DEF Crash
  <1>2. ASSUME NEW q \in kept PROVE [q EXCEPT !.live = FALSE] \in Requests
    <2>1. q \in Requests
      BY DEF TypeOK
    <2> QED
      BY <2>1 DEF Requests
  <1>3. reqs' \in SUBSET Requests
    BY <1>1, <1>2
  <1>4. 0 \in 0..MaxPush
    BY ConstantsAssumption
  <1>5. /\ pc' \in [Flows -> PCs]
        /\ todo' \in [Flows -> SUBSET Cids]
        /\ ready' \in [Flows -> SUBSET Cids]
        /\ batch' \in [Flows -> SUBSET Cids]
        /\ payload' \in [Flows -> [Cids -> Contents \union {NoRow}]]
        /\ inFlight' \in [Flows -> SUBSET Cids]
        /\ attempt' \in [Flows -> 0..MaxPush]
        /\ outcome' \in [Flows -> Outcomes]
        /\ rejected' \in [Flows -> SUBSET Cids]
        /\ found' \in [Flows -> SUBSET Cids]
    BY <1>4 DEF Crash, PCs, Outcomes, Nothing
  <1>6. crashes' \in Nat
    BY DEF Crash, TypeOK
  <1> QED
    BY <1>3, <1>5, <1>6 DEF Crash, TypeOK

THEOREM TypeCorrect == Spec => []TypeOK
  <1>1. TypeOK /\ [Next]_vars => TypeOK'
    <2>1. CASE UNCHANGED vars
      BY <2>1 DEF vars, TypeOK
    <2> QED
      BY <2>1, TypeUserStep, TypeFlowStep, TypeServerStep, TypeCrash DEF Next
  <1> QED
    BY <1>1, TypeInitial, PTL DEF Spec

------------------------------------------------------------------------------
(* The inductive invariant behind SyncedOnServer.  A row becomes synced    *)
(* when a receipt does not reject it or when verify finds it, so both must *)
(* be true when they are applied, which is later than when they were sent: *)
(* that rests on what the requests under way have done, and on a receipt   *)
(* reaching only the flow and the batch it was meant for.                  *)

(* A request answers only for rows it has looked at, and has what it takes *)
(* to store each of them.                                                  *)
RequestsHonest ==
  \A q \in reqs :
    /\ q.todo \subseteq q.batch
    /\ \A c \in q.batch \ (q.todo \union q.rejected) : srv[c] # NoRow
    /\ \A c \in q.batch : q.payload[c] # NoRow

(* At most one request is awaited by a flow, and for the flow's batch. *)
RequestsAwaited ==
  /\ \A q \in reqs : q.live => pc[q.flow] = "await" /\ q.batch = batch[q.flow]
  /\ \A q, r \in reqs : q.live /\ r.live /\ q.flow = r.flow => q = r

(* The loops of a flow start empty. *)
LoopsClean(p) ==
  /\ pc[p] \in {"idle", "push", "recover", "verify", "asking"} => todo[p] = {}
  /\ pc[p] \in {"idle", "push", "recover", "verify"} => batch[p] = {}
  /\ pc[p] \in {"idle", "recover"} => ready[p] = {}

(* A flow has read every row it is going to push. *)
RowsRead(p) ==
  pc[p] \in {"mark", "attach", "push", "await", "backoff", "apply"} =>
    \A c \in todo[p] \union ready[p] \union batch[p] : payload[p][c] # NoRow

(* What a flow takes for stored is stored. *)
AnswersHonest(p) ==
  /\ pc[p] = "apply" /\ outcome[p] \notin {"retryable", "fatal"} =>
       \A c \in todo[p] \ rejected[p] : srv[c] # NoRow
  /\ \A c \in found[p] : srv[c] # NoRow

FlowInv(p) == LoopsClean(p) /\ RowsRead(p) /\ AnswersHonest(p)

SyncedInv ==
  /\ TypeOK
  /\ SyncedOnServer
  /\ RequestsHonest
  /\ RequestsAwaited
  /\ \A p \in Flows : FlowInv(p)

------------------------------------------------------------------------------
(* The inductive invariant behind CapturesDelivered and DraftsStayLocal:   *)
(* every copy of a capture, in a flow, in a request or on the server, is   *)
(* what its collector submitted, and the row can no longer be edited.      *)

Submitted(c, x) ==
  \/ status[c] = "gone"
  \/ status[c] \notin {"none", "draft"} /\ content[c] = x

CopiesSubmitted ==
  \A c \in Cids \ RefRows :
    /\ srv[c] # NoRow => Submitted(c, srv[c])
    /\ \A p \in Flows : payload[p][c] # NoRow => Submitted(c, payload[p][c])
    /\ \A q \in reqs : q.payload[c] # NoRow => Submitted(c, q.payload[c])

CaptureInv == SyncedInv /\ CopiesSubmitted

(* The inductive invariant behind StrikesSpent. *)
StrikesInv ==
  /\ StrikesSpent
  /\ \A c \in Cids \ RefRows : status[c] \in {"none", "draft"} => strikes[c] < MaxStrikes

------------------------------------------------------------------------------
(* A step of flow p leaves the locals of the others alone. *)
OthersKept(p) ==
  \A o \in Flows \ {p} :
    /\ pc'[o] = pc[o]
    /\ todo'[o] = todo[o]
    /\ ready'[o] = ready[o]
    /\ batch'[o] = batch[o]
    /\ payload'[o] = payload[o]
    /\ outcome'[o] = outcome[o]
    /\ rejected'[o] = rejected[o]
    /\ found'[o] = found[o]

(* The server never forgets a row. *)
StoredKept == \A c \in Cids : srv[c] # NoRow => srv'[c] # NoRow

LEMMA OthersInv ==
  ASSUME SyncedInv, NEW p \in Flows, OthersKept(p), StoredKept, FlowInv(p)'
  PROVE  \A o \in Flows : FlowInv(o)'
  <1> SUFFICES ASSUME NEW o \in Flows \ {p} PROVE FlowInv(o)'
    OBVIOUS
  <1>1. FlowInv(o) /\ found[o] \subseteq Cids /\ todo[o] \subseteq Cids
    BY DEF SyncedInv, TypeOK
  <1> QED
    BY <1>1 DEF OthersKept, StoredKept, FlowInv, LoopsClean, RowsRead, AnswersHonest

(* A step of a flow that awaits no push touches no request. *)
LEMMA RequestsKept ==
  ASSUME SyncedInv, NEW p \in Flows, OthersKept(p), pc[p] # "await",
         UNCHANGED <<reqs, srv>>
  PROVE  RequestsHonest' /\ RequestsAwaited'
  <1>1. \A q \in reqs : q.flow \in Flows
    BY DEF SyncedInv, TypeOK, Requests
  <1>2. \A q \in reqs : q.live => q.flow # p
    BY DEF SyncedInv, RequestsAwaited
  <1>3. RequestsHonest'
    BY DEF SyncedInv, RequestsHonest
  <1>4. RequestsAwaited'
    BY <1>1, <1>2 DEF SyncedInv, RequestsAwaited, OthersKept
  <1> QED
    BY <1>3, <1>4

(* Writing an outcome makes no other row synced. *)
LEMMA MarkSynced ==
  ASSUME TypeOK, NEW c \in Cids, NEW s \in {"pending", "syncing", "synced", "failed"},
         Mark(c, s), NEW d \in Cids, status'[d] = "synced"
  PROVE  status[d] = "synced" \/ (d = c /\ s = "synced")
  <1>1. StatusAfter(c, s) = "synced" => s = "synced"
    BY DEF StatusAfter
  <1> QED
    BY <1>1 DEF TypeOK, Mark

LEMMA SyncedUserStep ==
  ASSUME SyncedInv, NEW c \in Cids, UserStep(c)
  PROVE  SyncedInv'
  <1>1. TypeOK'
    BY TypeUserStep DEF SyncedInv
  <1>2. /\ UNCHANGED <<flowVars, reqs, srv>>
        /\ \A d \in Cids : status'[d] = "synced" => status[d] = "synced"
    BY DEF SyncedInv, TypeOK, UserStep, Submit, UpdateGeometry, SaveDraft, MarkDeleted,
       Delete, Save
  <1>3. SyncedOnServer'
    BY <1>2 DEF SyncedInv, SyncedOnServer
  <1>4. RequestsHonest' /\ RequestsAwaited'
    BY <1>2 DEF SyncedInv, RequestsHonest, RequestsAwaited
  <1>5. \A p \in Flows : FlowInv(p)'
    BY <1>2 DEF SyncedInv, FlowInv, LoopsClean, RowsRead, AnswersHonest
  <1> QED
    BY <1>1, <1>3, <1>4, <1>5 DEF SyncedInv

(* What is left to show of a step of a flow that awaits no push. *)
LEMMA LocalStep ==
  ASSUME SyncedInv, NEW p \in Flows, StartSync(p) \/ StartRecover(p) \/ FlowStep(p),
         OthersKept(p), pc[p] # "await", UNCHANGED <<reqs, srv>>,
         FlowInv(p)', SyncedOnServer'
  PROVE  SyncedInv'
  <1>1. TypeOK'
    BY TypeFlowStep DEF SyncedInv
  <1>2. RequestsHonest' /\ RequestsAwaited'
    BY RequestsKept
  <1>3. \A o \in Flows : FlowInv(o)'
    BY OthersInv DEF StoredKept
  <1> QED
    BY <1>1, <1>2, <1>3 DEF SyncedInv

(* Phase 1 of a run, and its start. *)
LEMMA SyncedPhase1 ==
  ASSUME SyncedInv, NEW p \in Flows,
         StartSync(p) \/ MarkSyncing(p) \/ AttachmentsOk(p) \/ AttachmentsFailed(p)
  PROVE  SyncedInv'
  <1> USE DEF SyncedInv
  <1>0. /\ OthersKept(p)
        /\ pc[p] # "await"
        /\ UNCHANGED <<reqs, srv>>
    BY DEF TypeOK, OthersKept, StartSync, MarkSyncing, AttachmentsOk, AttachmentsFailed,
       AfterAttachments
  <1>1. SyncedOnServer'
    <2>1. CASE StartSync(p) \/ AttachmentsOk(p)
      BY <1>0, <2>1 DEF StartSync, AttachmentsOk, SyncedOnServer
    <2>2. CASE MarkSyncing(p) \/ AttachmentsFailed(p)
      <3>1. PICK c \in Cids, s \in {"syncing", "pending"} : Mark(c, s)
        BY <2>2 DEF MarkSyncing, AttachmentsFailed, TypeOK
      <3>2. \A d \in Cids : status'[d] = "synced" => status[d] = "synced"
        BY <3>1, MarkSynced
      <3> QED
        BY <1>0, <3>2 DEF SyncedOnServer
    <2> QED
      BY <2>1, <2>2
  <1>2. FlowInv(p)'
    <2>0. LoopsClean(p) /\ RowsRead(p) /\ AnswersHonest(p)
      BY DEF FlowInv
    <2>1. CASE StartSync(p)
      <3>1. \A c \in Syncable : Snapshot(Syncable)[c] # NoRow
        BY NoRowAssumption DEF Syncable, Snapshot, TypeOK
      <3> QED
        BY <2>0, <2>1, <3>1 DEF StartSync, TypeOK, FlowInv, LoopsClean, RowsRead,
           AnswersHonest
    <2>2. CASE MarkSyncing(p)
      BY <2>0, <2>2 DEF MarkSyncing, TypeOK, FlowInv, LoopsClean, RowsRead, AnswersHonest
    <2>3. CASE AttachmentsOk(p) \/ AttachmentsFailed(p)
      BY <2>0, <2>3 DEF AttachmentsOk, AttachmentsFailed, AfterAttachments, TypeOK, FlowInv,
         LoopsClean, RowsRead, AnswersHonest
    <2> QED
      BY <2>1, <2>2, <2>3
  <1> QED
    BY <1>0, <1>1, <1>2, LocalStep DEF FlowStep

(* The result of a push is applied; the run goes on to recovery. *)
LEMMA SyncedApply ==
  ASSUME SyncedInv, NEW p \in Flows, ApplyResult(p) \/ EndPush(p)
  PROVE  SyncedInv'
  <1> USE DEF SyncedInv
  <1>0. /\ OthersKept(p)
        /\ pc[p] # "await"
        /\ UNCHANGED <<reqs, srv>>
    BY DEF TypeOK, OthersKept, ApplyResult, EndPush
  <1>1. LoopsClean(p) /\ RowsRead(p) /\ AnswersHonest(p)
    BY DEF FlowInv
  <1>2. CASE ApplyResult(p)
    <2>1. PICK c \in todo[p] : /\ Mark(c, ResultFor(p, c))
                               /\ todo' = [todo EXCEPT ![p] = @ \ {c}]
      BY <1>2 DEF ApplyResult
    <2>2. /\ c \in Cids
          /\ ResultFor(p, c) \in {"pending", "syncing", "synced", "failed"}
      BY DEF TypeOK, ResultFor
    <2>3. ResultFor(p, c) = "synced" => srv[c] # NoRow
      BY <1>1, <1>2 DEF ResultFor, ApplyResult, AnswersHonest
    <2>4. \A d \in Cids : status'[d] = "synced" => status[d] = "synced" \/ srv[d] # NoRow
      BY <2>1, <2>2, <2>3, MarkSynced
    <2>5. SyncedOnServer'
      BY <1>0, <2>4 DEF SyncedOnServer
    <2>6. FlowInv(p)'
      <3>1. CASE todo'[p] = {}
        BY <1>1, <1>2, <3>1, <2>1 DEF ApplyResult, TypeOK, FlowInv, LoopsClean, RowsRead,
           AnswersHonest
      <3>2. CASE todo'[p] # {}
        BY <1>1, <1>2, <3>2, <2>1 DEF ApplyResult, TypeOK, FlowInv, LoopsClean, RowsRead,
           AnswersHonest
      <3> QED
        BY <3>1, <3>2
    <2> QED
      BY <1>0, <1>2, <2>5, <2>6, LocalStep DEF FlowStep
  <1>3. CASE EndPush(p)
    <2>1. SyncedOnServer'
      BY <1>3 DEF EndPush, SyncedOnServer
    <2>2. FlowInv(p)'
      BY <1>1, <1>3 DEF EndPush, TypeOK, FlowInv, LoopsClean, RowsRead, AnswersHonest
    <2> QED
      BY <1>0, <1>3, <2>1, <2>2, LocalStep DEF FlowStep
  <1> QED
    BY <1>2, <1>3

(* Recovery. *)
LEMMA SyncedRecover ==
  ASSUME SyncedInv, NEW p \in Flows,
         \/ StartRecover(p) \/ AskVerify(p) \/ VerifyReply(p) \/ VerifyRefused(p)
         \/ VerifyThrew(p) \/ Settle(p) \/ EndRecover(p)
  PROVE  SyncedInv'
  <1> USE DEF SyncedInv
  <1>0. /\ OthersKept(p)
        /\ pc[p] # "await"
        /\ UNCHANGED <<reqs, srv>>
    BY DEF TypeOK, OthersKept, StartRecover, AskVerify, VerifyReply, VerifyRefused,
       VerifyAnswered, VerifyThrew, Settle, EndRecover
  <1>1. LoopsClean(p) /\ RowsRead(p) /\ AnswersHonest(p)
    BY DEF FlowInv
  <1>2. CASE Settle(p)
    <2>1. PICK c \in todo[p] :
            /\ \/ c \in found[p] /\ Mark(c, "synced")
               \/ Mark(c, "pending")
               \/ UNCHANGED deviceVars
            /\ todo' = [todo EXCEPT ![p] = @ \ {c}]
      BY <1>2 DEF Settle
    <2>2. c \in Cids
      BY DEF TypeOK
    <2>3. \A d \in Cids : status'[d] = "synced" => status[d] = "synced" \/ srv[d] # NoRow
      BY <1>1, <2>1, <2>2, MarkSynced DEF AnswersHonest
    <2>4. SyncedOnServer'
      BY <1>0, <2>3 DEF SyncedOnServer
    <2>5. FlowInv(p)'
      <3>1. CASE todo'[p] = {}
        BY <1>1, <1>2, <3>1 DEF Settle, TypeOK, FlowInv, LoopsClean, RowsRead,
           AnswersHonest
      <3>2. CASE todo'[p] # {}
        BY <1>1, <1>2, <3>2 DEF Settle, TypeOK, FlowInv, LoopsClean, RowsRead,
           AnswersHonest
      <3> QED
        BY <3>1, <3>2
    <2> QED
      BY <1>0, <1>2, <2>4, <2>5, LocalStep DEF FlowStep
  <1>3. CASE VerifyReply(p)
    <2>1. \A c \in Verified(batch[p]) : srv[c] # NoRow
      BY DEF Verified
    <2>2. FlowInv(p)'
      BY <1>1, <1>3, <2>1 DEF VerifyReply, VerifyAnswered, TypeOK, FlowInv, LoopsClean,
         RowsRead, AnswersHonest
    <2>3. SyncedOnServer'
      BY <1>3 DEF VerifyReply, VerifyAnswered, SyncedOnServer
    <2> QED
      BY <1>0, <1>3, <2>2, <2>3, LocalStep DEF FlowStep
  <1>4. CASE StartRecover(p) \/ AskVerify(p) \/ VerifyRefused(p) \/ VerifyThrew(p)
             \/ EndRecover(p)
    <2>1. SyncedOnServer'
      BY <1>4 DEF StartRecover, AskVerify, VerifyRefused, VerifyAnswered, VerifyThrew,
         EndRecover, SyncedOnServer
    <2>2. FlowInv(p)'
      BY <1>1, <1>4 DEF StartRecover, AskVerify, VerifyRefused, VerifyAnswered, VerifyThrew,
         EndRecover, TypeOK, FlowInv, LoopsClean, RowsRead, AnswersHonest
    <2> QED
      BY <1>0, <1>4, <2>1, <2>2, LocalStep DEF FlowStep
  <1> QED
    BY <1>2, <1>3, <1>4

(* Phase 2: a request is sent, or its answer does not come. *)
LEMMA SyncedSend ==
  ASSUME SyncedInv, NEW p \in Flows, PushBatch(p) \/ RetryPush(p)
  PROVE  SyncedInv'
  <1> USE DEF SyncedInv
  <1>0. /\ OthersKept(p)
        /\ pc[p] # "await"
        /\ UNCHANGED srv
    BY DEF TypeOK, OthersKept, PushBatch, RetryPush
  <1>1. LoopsClean(p) /\ RowsRead(p) /\ AnswersHonest(p)
    BY DEF FlowInv
  <1>2. PICK b \in SUBSET Cids :
          /\ Send(p, b)
          /\ batch'[p] = b
          /\ \A c \in b : payload[p][c] # NoRow
    <2>1. CASE PushBatch(p)
      BY <1>1, <2>1 DEF PushBatch, ChunksOf, TypeOK, RowsRead
    <2>2. CASE RetryPush(p)
      BY <1>1, <2>2 DEF RetryPush, TypeOK, RowsRead
    <2> QED
      BY <2>1, <2>2
  <1>3. pc'[p] = "await"
    BY DEF PushBatch, RetryPush, TypeOK
  <1> DEFINE r == Request(p, b)
  <1>5. reqs' = reqs \union {r}
    BY <1>2 DEF Send
  <1>6. /\ r.todo = b
        /\ r.batch = b
        /\ r.flow = p
        /\ r.live
        /\ \A c \in b : r.payload[c] # NoRow
    BY <1>2 DEF Request
  <1> HIDE DEF r
  <1>7. RequestsHonest'
    BY <1>0, <1>5, <1>6 DEF RequestsHonest
  <1>8. RequestsAwaited'
    <2>1. \A q \in reqs : q.flow \in Flows /\ (q.live => q.flow # p)
      BY <1>0 DEF TypeOK, Requests, RequestsAwaited
    <2>2. \A q \in reqs : q.live => pc'[q.flow] = "await" /\ q.batch = batch'[q.flow]
      BY <1>0, <2>1 DEF RequestsAwaited, OthersKept
    <2> QED
      BY <1>2, <1>3, <1>5, <1>6, <2>1, <2>2 DEF RequestsAwaited
  <1>9. \A o \in Flows : FlowInv(o)'
    <2>1. FlowInv(p)'
      BY <1>1 DEF PushBatch, RetryPush, ChunksOf, TypeOK, FlowInv, LoopsClean, RowsRead,
         AnswersHonest
    <2> QED
      BY <1>0, <2>1, OthersInv DEF StoredKept
  <1>10. SyncedOnServer'
    BY <1>0 DEF PushBatch, RetryPush, SyncedOnServer
  <1>11. TypeOK'
    BY TypeFlowStep DEF FlowStep
  <1> QED
    BY <1>7, <1>8, <1>9, <1>10, <1>11

LEMMA SyncedPushError ==
  ASSUME SyncedInv, NEW p \in Flows, NEW kind \in {"retryable", "fatal"},
         PushError(p, kind)
  PROVE  SyncedInv'
  <1> USE DEF SyncedInv
  <1>0. /\ OthersKept(p)
        /\ UNCHANGED srv
    BY DEF TypeOK, OthersKept, PushError
  <1>1. LoopsClean(p) /\ RowsRead(p) /\ AnswersHonest(p)
    BY DEF FlowInv
  <1>2. \A r \in reqs' : \/ r \in reqs \ AwaitedBy(p)
                         \/ \E q \in AwaitedBy(p) : r = [q EXCEPT !.live = FALSE]
    BY DEF PushError, Unanswered
  <1>3. AwaitedBy(p) \subseteq reqs /\ reqs \subseteq Requests
    BY DEF AwaitedBy, TypeOK
  <1>4. \A q \in AwaitedBy(p) :
          LET r == [q EXCEPT !.live = FALSE]
          IN  /\ r.live = FALSE
              /\ r.flow = q.flow
              /\ r.batch = q.batch
              /\ r.todo = q.todo
              /\ r.rejected = q.rejected
              /\ r.payload = q.payload
    BY <1>3 DEF Requests
  <1>5. RequestsHonest'
    <2>1. \A r \in reqs' : \E q \in reqs :
            /\ r.batch = q.batch
            /\ r.todo = q.todo
            /\ r.rejected = q.rejected
            /\ r.payload = q.payload
      <3> TAKE r \in reqs'
      <3>1. CASE r \in reqs
        BY <3>1
      <3>2. CASE r \notin reqs
        <4>1. PICK q \in AwaitedBy(p) : r = [q EXCEPT !.live = FALSE]
          BY <1>2, <3>2
        <4> QED
          BY <1>3, <1>4, <4>1
      <3> QED
        BY <3>1, <3>2
    <2> QED
      BY <1>0, <2>1 DEF RequestsHonest
  <1>6. RequestsAwaited'
    <2>1. \A r \in reqs' : r.live => r \in reqs /\ r.flow \in Flows \ {p}
      BY <1>2, <1>3, <1>4 DEF AwaitedBy, Requests
    <2> QED
      BY <1>0, <2>1 DEF RequestsAwaited, OthersKept
  <1>7. \A o \in Flows : FlowInv(o)'
    <2>1. FlowInv(p)'
      BY <1>1 DEF PushError, TypeOK, FlowInv, LoopsClean, RowsRead, AnswersHonest
    <2> QED
      BY <1>0, <2>1, OthersInv DEF StoredKept
  <1>8. SyncedOnServer'
    BY <1>0 DEF PushError, SyncedOnServer
  <1>9. TypeOK'
    BY TypeFlowStep DEF FlowStep
  <1> QED
    BY <1>5, <1>6, <1>7, <1>8, <1>9

(* A request under way is replaced by one that has gone one row further. *)
LEMMA SyncedUpdate ==
  ASSUME SyncedInv, NEW q \in reqs, NEW r \in Requests, Update(q, r), StoredKept,
         UNCHANGED <<deviceVars, flowVars>>, TypeOK',
         r.flow = q.flow, r.live = q.live, r.batch = q.batch, r.payload = q.payload,
         r.todo \subseteq q.todo, q.rejected \subseteq r.rejected,
         \A c \in q.todo \ (r.todo \union r.rejected) : srv'[c] # NoRow
  PROVE  SyncedInv'
  <1> USE DEF SyncedInv
  <1>1. q \in Requests /\ reqs \subseteq Requests
    BY DEF TypeOK
  <1>2. RequestsHonest'
    <2>1. /\ r.todo \subseteq r.batch
          /\ \A c \in r.batch \ (r.todo \union r.rejected) : srv'[c] # NoRow
          /\ \A c \in r.batch : r.payload[c] # NoRow
      BY <1>1 DEF RequestsHonest, StoredKept, Requests
    <2>2. ASSUME NEW s \in reqs
          PROVE  /\ s.todo \subseteq s.batch
                 /\ \A c \in s.batch \ (s.todo \union s.rejected) : srv'[c] # NoRow
                 /\ \A c \in s.batch : s.payload[c] # NoRow
      BY <1>1 DEF RequestsHonest, StoredKept, Requests
    <2> QED
      BY <2>1, <2>2 DEF RequestsHonest, Update
  <1>3. RequestsAwaited'
    BY DEF RequestsAwaited, Update
  <1>4. ASSUME NEW p \in Flows PROVE FlowInv(p)'
    <2>1. FlowInv(p) /\ found[p] \subseteq Cids /\ todo[p] \subseteq Cids
      BY DEF TypeOK
    <2> QED
      BY <2>1 DEF FlowInv, LoopsClean, RowsRead, AnswersHonest, StoredKept
  <1>5. SyncedOnServer'
    BY DEF SyncedOnServer, StoredKept
  <1> QED
    BY <1>2, <1>3, <1>4, <1>5

LEMMA SyncedServerStep ==
  ASSUME SyncedInv, NEW q \in reqs, ServerStep(q)
  PROVE  SyncedInv'
  <1> USE DEF SyncedInv
  <1>0. q \in Requests /\ TypeOK'
    BY TypeServerStep DEF TypeOK
  <1>1. CASE Dedup(q)
    <2>1. PICK c \in q.todo : srv[c] # NoRow /\ Update(q, Done(q, c))
      BY <1>1 DEF Dedup
    <2>2. c \in Cids /\ Done(q, c) \in Requests
      BY <1>0, HandledType DEF Requests
    <2>3. UNCHANGED <<deviceVars, flowVars, srv>>
      BY <1>1 DEF Dedup
    <2>4. /\ Done(q, c).flow = q.flow
          /\ Done(q, c).live = q.live
          /\ Done(q, c).batch = q.batch
          /\ Done(q, c).payload = q.payload
          /\ Done(q, c).todo = q.todo \ {c}
          /\ Done(q, c).rejected = q.rejected
      BY <1>0 DEF Done, Requests
    <2> QED
      BY <1>0, <2>1, <2>2, <2>3, <2>4, SyncedUpdate DEF StoredKept
  <1>2. CASE LookupMiss(q)
    <2>1. PICK c \in q.todo : Update(q, [q EXCEPT !.missed = c])
      BY <1>2 DEF LookupMiss
    <2>2. c \in Cids /\ [q EXCEPT !.missed = c] \in Requests
      BY <1>0, HandledType DEF Requests
    <2>3. UNCHANGED <<deviceVars, flowVars, srv>>
      BY <1>2 DEF LookupMiss
    <2> DEFINE r == [q EXCEPT !.missed = c]
    <2>4. /\ r.flow = q.flow
          /\ r.live = q.live
          /\ r.batch = q.batch
          /\ r.payload = q.payload
          /\ r.todo = q.todo
          /\ r.rejected = q.rejected
      BY <1>0 DEF Requests
    <2>5. r \in Requests /\ Update(q, r)
      BY <2>1, <2>2
    <2> HIDE DEF r
    <2> QED
      BY <1>0, <2>5, <2>3, <2>4, SyncedUpdate DEF StoredKept
  <1>3. CASE Reject(q)
    <2>1. /\ q.missed \in q.todo
          /\ Update(q, Refuse(q, q.missed))
          /\ UNCHANGED <<deviceVars, flowVars, srv>>
      BY <1>3 DEF Reject
    <2>2. q.missed \in Cids /\ Refuse(q, q.missed) \in Requests
      BY <1>0, <2>1, HandledType DEF Requests
    <2> DEFINE r == Refuse(q, q.missed)
    <2>3. /\ r.flow = q.flow
          /\ r.live = q.live
          /\ r.batch = q.batch
          /\ r.payload = q.payload
          /\ r.todo = q.todo \ {q.missed}
          /\ r.rejected = q.rejected \union {q.missed}
      BY <1>0 DEF Refuse, Requests
    <2>4. r \in Requests /\ Update(q, r)
      BY <2>1, <2>2
    <2> HIDE DEF r
    <2> QED
      BY <1>0, <2>1, <2>3, <2>4, SyncedUpdate DEF StoredKept
  <1>4. CASE Insert(q)
    <2>1. /\ q.missed \in q.todo
          /\ srv' = [srv EXCEPT ![q.missed] = q.payload[q.missed]]
          /\ Update(q, Done(q, q.missed))
          /\ UNCHANGED <<deviceVars, flowVars>>
      BY <1>4 DEF Insert
    <2>2. q.missed \in Cids /\ Done(q, q.missed) \in Requests
      BY <1>0, <2>1, HandledType DEF Requests
    <2>3. q.payload[q.missed] # NoRow
      BY <2>1 DEF RequestsHonest
    <2>4. StoredKept /\ srv'[q.missed] # NoRow
      BY <2>1, <2>2, <2>3 DEF StoredKept, TypeOK
    <2> DEFINE r == Done(q, q.missed)
    <2>5. /\ r.flow = q.flow
          /\ r.live = q.live
          /\ r.batch = q.batch
          /\ r.payload = q.payload
          /\ r.todo = q.todo \ {q.missed}
          /\ r.rejected = q.rejected
      BY <1>0 DEF Done, Requests
    <2>6. r \in Requests /\ Update(q, r)
      BY <2>1, <2>2
    <2> HIDE DEF r
    <2> QED
      BY <1>0, <2>1, <2>4, <2>5, <2>6, SyncedUpdate
  <1>5. CASE Receipt(q)
    <2>0. PICK p \in Flows : p = q.flow
      BY <1>0 DEF Requests
    <2>1. /\ OthersKept(p)
          /\ UNCHANGED <<deviceVars, srv>>
          /\ reqs' = reqs \ {q}
      BY <1>5, <2>0 DEF Receipt, OthersKept, TypeOK
    <2>2. LoopsClean(p) /\ RowsRead(p) /\ AnswersHonest(p)
      BY DEF FlowInv
    <2>3. pc[p] = "await" /\ q.batch = batch[p]
      BY <1>5, <2>0 DEF Receipt, RequestsAwaited
    <2>4. \A c \in q.batch \ q.rejected : srv[c] # NoRow
      BY <1>5 DEF Receipt, RequestsHonest
    <2>5. FlowInv(p)'
      BY <1>5, <2>0, <2>2, <2>3, <2>4 DEF Receipt, TypeOK, FlowInv, LoopsClean, RowsRead,
         AnswersHonest
    <2>6. \A o \in Flows : FlowInv(o)'
      BY <2>1, <2>5, OthersInv DEF StoredKept
    <2>7. RequestsHonest'
      BY <2>1 DEF RequestsHonest
    <2>8. RequestsAwaited'
      <3>1. \A s \in reqs' : s.live => s \in reqs /\ s.flow \in Flows \ {p}
        BY <1>5, <2>0, <2>1 DEF Receipt, RequestsAwaited, TypeOK, Requests
      <3> QED
        BY <2>1, <3>1 DEF RequestsAwaited, OthersKept
    <2>9. SyncedOnServer'
      BY <2>1 DEF SyncedOnServer
    <2> QED
      BY <1>0, <2>6, <2>7, <2>8, <2>9
  <1>6. CASE Abandon(q)
    <2>1. reqs' \subseteq reqs /\ UNCHANGED <<deviceVars, flowVars, srv>>
      BY <1>6 DEF Abandon
    <2> QED
      BY <1>0, <2>1 DEF RequestsHonest, RequestsAwaited, SyncedOnServer, FlowInv,
         LoopsClean, RowsRead, AnswersHonest
  <1> QED
    BY <1>1, <1>2, <1>3, <1>4, <1>5, <1>6 DEF ServerStep

LEMMA SyncedCrash ==
  ASSUME SyncedInv, Crash
  PROVE  SyncedInv'
  <1> USE DEF SyncedInv
  <1>1. PICK kept \in SUBSET reqs : reqs' = {[q EXCEPT !.live = FALSE] : q \in kept}
    BY DEF Crash
  <1>2. \A q \in kept : q \in reqs /\ q \in Requests
    BY DEF TypeOK
  <1>3. \A r \in reqs' : \E q \in reqs :
          /\ r.live = FALSE
          /\ r.batch = q.batch
          /\ r.todo = q.todo
          /\ r.rejected = q.rejected
          /\ r.payload = q.payload
    BY <1>1, <1>2 DEF Requests
  <1>4. UNCHANGED <<deviceVars, srv>>
    BY DEF Crash
  <1>5. RequestsHonest' /\ RequestsAwaited'
    BY <1>3, <1>4 DEF RequestsHonest, RequestsAwaited
  <1>6. \A p \in Flows : FlowInv(p)'
    BY DEF Crash, FlowInv, LoopsClean, RowsRead, AnswersHonest
  <1>7. SyncedOnServer'
    BY <1>4 DEF SyncedOnServer
  <1>8. TypeOK'
    BY TypeCrash
  <1> QED
    BY <1>5, <1>6, <1>7, <1>8

LEMMA SyncedInitial == Init => SyncedInv
  <1> SUFFICES ASSUME Init PROVE SyncedInv
    OBVIOUS
  <1>1. TypeOK
    BY TypeInitial
  <1>2. RequestsHonest /\ RequestsAwaited /\ SyncedOnServer
    BY DEF Init, RequestsHonest, RequestsAwaited, SyncedOnServer
  <1>3. \A p \in Flows : FlowInv(p)
    BY DEF Init, FlowInv, LoopsClean, RowsRead, AnswersHonest
  <1> QED
    BY <1>1, <1>2, <1>3 DEF SyncedInv

LEMMA SyncedStep == SyncedInv /\ [Next]_vars => SyncedInv'
  <1> SUFFICES ASSUME SyncedInv, [Next]_vars PROVE SyncedInv'
    OBVIOUS
  <1>1. CASE UNCHANGED vars
    BY <1>1 DEF vars, SyncedInv, TypeOK, SyncedOnServer, RequestsHonest, RequestsAwaited,
       FlowInv, LoopsClean, RowsRead, AnswersHonest
  <1>2. ASSUME NEW p \in Flows, StartSync(p) \/ StartRecover(p) \/ FlowStep(p)
        PROVE  SyncedInv'
    BY <1>2, SyncedPhase1, SyncedSend, SyncedPushError, SyncedApply, SyncedRecover DEF FlowStep
  <1> QED
    BY <1>1, <1>2, SyncedUserStep, SyncedServerStep, SyncedCrash DEF Next

(* A row the device shows as synced is stored by the server: for any       *)
(* number of flows, rows, retries and crashes.                             *)
THEOREM SyncedRowsStored == Spec => []SyncedOnServer
  <1>1. SyncedInv => SyncedOnServer
    BY DEF SyncedInv
  <1> QED
    BY <1>1, SyncedInitial, SyncedStep, PTL DEF Spec

------------------------------------------------------------------------------
(* Every step does one of three things to the device's table, and only     *)
(* Insert writes the server's.                                             *)
Marked == \E c \in Cids, s \in {"pending", "syncing", "synced", "failed"} : Mark(c, s)

LEMMA DeviceStep ==
  ASSUME TypeOK, [Next]_vars
  PROVE  (\E c \in Cids : UserStep(c)) \/ Marked \/ UNCHANGED deviceVars
  <1>1. ASSUME NEW p \in Flows, FlowStep(p) \/ StartSync(p) \/ StartRecover(p)
        PROVE  Marked \/ UNCHANGED deviceVars
    <2>1. CASE MarkSyncing(p) \/ AttachmentsFailed(p)
      BY <2>1 DEF MarkSyncing, AttachmentsFailed, Marked, TypeOK
    <2>2. CASE ApplyResult(p)
      <3>1. PICK c \in todo[p] : Mark(c, ResultFor(p, c))
        BY <2>2 DEF ApplyResult
      <3>2. c \in Cids /\ ResultFor(p, c) \in {"pending", "syncing", "synced", "failed"}
        BY DEF TypeOK, ResultFor
      <3> QED
        BY <3>1, <3>2 DEF Marked
    <2>3. CASE Settle(p)
      BY <2>3 DEF Settle, Marked, TypeOK
    <2>4. CASE \/ StartSync(p) \/ AttachmentsOk(p) \/ PushBatch(p) \/ RetryPush(p)
               \/ (\E kind \in {"retryable", "fatal"} : PushError(p, kind))
               \/ EndPush(p) \/ StartRecover(p) \/ AskVerify(p) \/ VerifyReply(p)
               \/ VerifyRefused(p) \/ VerifyThrew(p) \/ EndRecover(p)
      BY <2>4 DEF StartSync, AttachmentsOk, PushBatch, RetryPush, PushError, EndPush,
         StartRecover, AskVerify, VerifyReply, VerifyRefused, VerifyAnswered, VerifyThrew,
         EndRecover
    <2> QED
      BY <1>1, <2>1, <2>2, <2>3, <2>4 DEF FlowStep
  <1>2. ASSUME NEW q \in reqs, ServerStep(q)
        PROVE  UNCHANGED deviceVars
    BY <1>2 DEF ServerStep, Dedup, LookupMiss, Reject, Insert, Receipt, Abandon
  <1>3. Crash => UNCHANGED deviceVars
    BY DEF Crash
  <1>4. UNCHANGED vars => UNCHANGED deviceVars
    BY DEF vars
  <1> QED
    BY <1>1, <1>2, <1>3, <1>4 DEF Next

LEMMA ServerTable ==
  ASSUME [Next]_vars
  PROVE  UNCHANGED srv \/ \E q \in reqs : Insert(q)
  <1>1. ASSUME NEW c \in Cids, UserStep(c) PROVE UNCHANGED srv
    BY <1>1 DEF UserStep, Submit, UpdateGeometry, SaveDraft, MarkDeleted, Delete, Save
  <1>2. ASSUME NEW p \in Flows, FlowStep(p) \/ StartSync(p) \/ StartRecover(p)
        PROVE  UNCHANGED srv
    BY <1>2 DEF FlowStep, StartSync, MarkSyncing, AttachmentsOk, AttachmentsFailed,
       AfterAttachments, PushBatch, RetryPush, PushError, ApplyResult, EndPush,
       StartRecover, AskVerify, VerifyReply, VerifyRefused, VerifyAnswered, VerifyThrew,
       Settle, EndRecover
  <1>3. ASSUME NEW q \in reqs, ServerStep(q) PROVE UNCHANGED srv \/ Insert(q)
    BY <1>3 DEF ServerStep, Dedup, LookupMiss, Reject, Receipt, Abandon
  <1>4. Crash => UNCHANGED srv
    BY DEF Crash
  <1> QED
    BY <1>1, <1>2, <1>3, <1>4 DEF Next, vars

------------------------------------------------------------------------------
(* The upload implements at-most-once delivery. *)

LEMMA DeliveryInitial == Init => Delivery!Init
  BY DEF Init, Nothing, Delivery!Init

LEMMA DeliveryStep ==
  ASSUME SyncedInv, SyncedInv', [Next]_vars
  PROVE  [Delivery!Next]_(Delivery!vars)
  <1> DEFINE acks == {c \in Cids : status[c] = "synced"}
  <1>1. CASE \E q \in reqs : Insert(q)
    <2>1. PICK q \in reqs : Insert(q)
      BY <1>1
    <2>2. /\ q.missed \in Cids
          /\ q.payload[q.missed] \in Contents
      <3>1. q \in Requests /\ q.missed \in q.todo /\ q.missed \in q.batch
        BY <2>1 DEF SyncedInv, TypeOK, Insert, RequestsHonest
      <3>2. q.missed \in Cids /\ q.payload[q.missed] # NoRow
        BY <3>1 DEF SyncedInv, RequestsHonest, Requests
      <3> QED
        BY <3>1, <3>2 DEF Requests
    <2>3. UNCHANGED acks
      BY <2>1 DEF Insert
    <2>4. Delivery!Deliver(q.missed)
      BY <2>1, <2>2, <2>3 DEF Insert, Delivery!Deliver
    <2> QED
      BY <2>2, <2>4 DEF Delivery!Next
  <1>2. CASE UNCHANGED srv
    <2>1. CASE UNCHANGED deviceVars
      BY <1>2, <2>1 DEF Delivery!vars
    <2>2. CASE (\E c \in Cids : UserStep(c)) \/ Marked
      <3>1. PICK c \in Cids : \A d \in Cids \ {c} : status'[d] = status[d]
        BY <2>2 DEF Marked, Mark, UserStep, Submit, UpdateGeometry, SaveDraft, MarkDeleted,
           Delete, Save, SyncedInv, TypeOK
      <3>2. CASE status'[c] = "synced"
        <4>1. srv[c] # NoRow
          BY <1>2, <3>2 DEF SyncedInv, SyncedOnServer
        <4>2. acks' = acks \union {c}
          BY <3>1, <3>2
        <4>3. Delivery!Acknowledge(c)
          BY <1>2, <4>1, <4>2 DEF Delivery!Acknowledge
        <4> QED
          BY <4>3 DEF Delivery!Next
      <3>3. CASE status'[c] # "synced"
        <4>1. acks' = acks \ {c}
          BY <3>1, <3>3
        <4>2. Delivery!Reopen(c)
          BY <1>2, <4>1 DEF Delivery!Reopen
        <4> QED
          BY <4>2 DEF Delivery!Next
      <3> QED
        BY <3>2, <3>3
    <2> QED
      BY <2>1, <2>2, DeviceStep DEF SyncedInv
  <1> QED
    BY <1>1, <1>2, ServerTable

(* Whatever is retried, recovered or killed, a client id is stored at most *)
(* once, what is stored stays, and only stored rows count as synced.       *)
THEOREM DeliveryRefined == Spec => ImplementsDelivery
  <1>1. SyncedInv /\ SyncedInv' /\ [Next]_vars => [Delivery!Next]_(Delivery!vars)
    BY DeliveryStep
  <1> QED
    BY <1>1, SyncedInitial, SyncedStep, DeliveryInitial, PTL
    DEF Spec, ImplementsDelivery, Delivery!Spec

------------------------------------------------------------------------------
(* The strikes of a row. *)

LEMMA StrikesInitial == Init => StrikesInv
  BY ConstantsAssumption DEF Init, StrikesInv, StrikesSpent

LEMMA StrikesStep ==
  ASSUME TypeOK, StrikesInv, [Next]_vars
  PROVE  StrikesInv'
  <1>0. MaxStrikes \in Nat \ {0}
    BY ConstantsAssumption
  <1> USE DEF StrikesInv, StrikesSpent
  <1>1. CASE UNCHANGED deviceVars
    BY <1>1
  <1>2. CASE Marked
    <2>1. PICK c \in Cids, s \in {"pending", "syncing", "synced", "failed"} : Mark(c, s)
      BY <1>2 DEF Marked
    <2>2. CASE ~Exists(c)
      BY <2>1, <2>2 DEF Mark
    <2>3. CASE Exists(c)
      <3>1. /\ status'[c] = StatusAfter(c, s)
            /\ strikes'[c] = StrikesAfter(c, s)
            /\ \A d \in Cids \ {c} : status'[d] = status[d] /\ strikes'[d] = strikes[d]
        BY <2>1, <2>3 DEF Mark, TypeOK
      <3>2. strikes[c] \in Nat
        BY DEF TypeOK
      <3>3. CASE s \in {"pending", "failed"}
        BY <1>0, <3>1, <3>2, <3>3 DEF StatusAfter, StrikesAfter
      <3>4. CASE s \in {"syncing", "synced"}
        BY <1>0, <3>1, <3>2, <3>4 DEF StatusAfter, StrikesAfter
      <3> QED
        BY <3>3, <3>4
    <2> QED
      BY <2>2, <2>3
  <1>3. CASE \E c \in Cids : UserStep(c)
    <2>1. PICK c \in Cids : UserStep(c)
      BY <1>3
    <2>2. CASE Submit(c) \/ UpdateGeometry(c) \/ SaveDraft(c)
      BY <2>1, <2>2 DEF Submit, UpdateGeometry, SaveDraft, Editable, Save, TypeOK
    <2>3. CASE MarkDeleted(c)
      BY <2>3 DEF MarkDeleted, TypeOK
    <2>4. CASE Delete(c)
      BY <1>0, <2>4 DEF Delete, TypeOK
    <2> QED
      BY <2>1, <2>2, <2>3, <2>4 DEF UserStep
  <1> QED
    BY <1>1, <1>2, <1>3, DeviceStep

(* A row is parked only after MaxStrikes failed outcomes, and a capture is *)
(* not retried beyond them.                                                *)
THEOREM StrikesRespected == Spec => []StrikesSpent
  <1>1. StrikesInv => StrikesSpent
    BY DEF StrikesInv
  <1>2. TypeOK /\ StrikesInv /\ [Next]_vars => StrikesInv'
    BY StrikesStep
  <1> QED
    BY <1>1, <1>2, StrikesInitial, TypeCorrect, PTL DEF Spec

------------------------------------------------------------------------------
(* Copies of captures. *)

(* No step takes back a submission. *)
LEMMA SubmittedKept ==
  ASSUME TypeOK, [Next]_vars, NEW c \in Cids \ RefRows, NEW x, Submitted(c, x)
  PROVE  Submitted(c, x)'
  <1> USE DEF Submitted
  <1>1. CASE UNCHANGED deviceVars
    BY <1>1
  <1>2. CASE Marked
    <2>1. PICK d \in Cids, s \in {"pending", "syncing", "synced", "failed"} : Mark(d, s)
      BY <1>2 DEF Marked
    <2>2. StatusAfter(d, s) \notin {"none", "draft"}
      BY DEF StatusAfter
    <2> QED
      BY <2>1, <2>2 DEF Mark, Exists, TypeOK
  <1>3. CASE \E d \in Cids : UserStep(d)
    <2>1. PICK d \in Cids : UserStep(d)
      BY <1>3
    <2>2. CASE Submit(d) \/ UpdateGeometry(d) \/ SaveDraft(d)
      BY <2>1, <2>2 DEF Submit, UpdateGeometry, SaveDraft, Editable, Save, TypeOK
    <2>3. CASE MarkDeleted(d)
      BY <2>3 DEF MarkDeleted, TypeOK
    <2>4. CASE Delete(d)
      BY <2>4 DEF Delete, TypeOK
    <2> QED
      BY <2>1, <2>2, <2>3, <2>4 DEF UserStep
  <1> QED
    BY <1>1, <1>2, <1>3, DeviceStep

(* Where the copies of a step come from: the device's table when a run     *)
(* begins, a flow when it pushes, a request when it is stored.             *)
LEMMA StoredCopies ==
  ASSUME SyncedInv, CopiesSubmitted, [Next]_vars, NEW c \in Cids \ RefRows,
         srv'[c] # NoRow
  PROVE  Submitted(c, srv'[c])
  <1>1. CASE UNCHANGED srv
    BY <1>1 DEF CopiesSubmitted
  <1>2. CASE \E q \in reqs : Insert(q)
    <2>1. PICK q \in reqs : Insert(q)
      BY <1>2
    <2>2. srv'[c] = srv[c] \/ srv'[c] = q.payload[c]
      BY <2>1 DEF Insert, SyncedInv, TypeOK
    <2> QED
      BY <2>2 DEF CopiesSubmitted
  <1> QED
    BY <1>1, <1>2, ServerTable

LEMMA ReadCopies ==
  ASSUME SyncedInv, CopiesSubmitted, [Next]_vars, NEW c \in Cids \ RefRows,
         NEW p \in Flows, payload'[p][c] # NoRow
  PROVE  Submitted(c, payload'[p][c])
  <1>1. CASE payload'[p][c] = payload[p][c]
    BY <1>1 DEF CopiesSubmitted
  <1>2. CASE payload'[p][c] # payload[p][c]
    <2>1. PICK o \in Flows : StartSync(o)
      <3>1. ASSUME NEW o \in Flows, FlowStep(o) \/ StartRecover(o)
            PROVE  payload'[p][c] = payload[p][c]
        <4>1. CASE EndPush(o)
          BY <4>1 DEF EndPush, Nothing, SyncedInv, TypeOK
        <4>2. CASE UNCHANGED payload
          BY <4>2
        <4> QED
          BY <3>1, <4>1, <4>2 DEF FlowStep, MarkSyncing, AttachmentsOk, AttachmentsFailed,
             AfterAttachments, PushBatch, RetryPush, PushError, ApplyResult,
             StartRecover, AskVerify, VerifyReply, VerifyRefused, VerifyAnswered,
             VerifyThrew, Settle, EndRecover
      <3>2. ASSUME NEW d \in Cids, UserStep(d) PROVE UNCHANGED payload
        BY <3>2 DEF UserStep, Submit, UpdateGeometry, SaveDraft, MarkDeleted, Delete, Save
      <3>3. ASSUME NEW q \in reqs, ServerStep(q) PROVE UNCHANGED payload
        BY <3>3 DEF ServerStep, Dedup, LookupMiss, Reject, Insert, Receipt, Abandon
      <3>4. Crash => payload'[p][c] = NoRow
        BY DEF Crash, Nothing
      <3> QED
        BY <1>2, <3>1, <3>2, <3>3, <3>4 DEF Next, vars
    <2>2. payload'[p][c] = Snapshot(Syncable)[c]
      BY <1>2, <2>1 DEF StartSync, SyncedInv, TypeOK
    <2> QED
      BY <2>2 DEF Snapshot, Syncable, Submitted
  <1> QED
    BY <1>1, <1>2

LEMMA SentCopies ==
  ASSUME SyncedInv, [Next]_vars, NEW r \in reqs'
  PROVE  \/ \E q \in reqs : r.payload = q.payload
         \/ \E p \in Flows, b \in SUBSET Cids : r = Request(p, b)
  <1> DEFINE Known == \/ \E q \in reqs : r.payload = q.payload
                     \/ \E p \in Flows, b \in SUBSET Cids : r = Request(p, b)
  <1>0. reqs \subseteq Requests
    BY DEF SyncedInv, TypeOK
  <1>1. r \in reqs => Known
    OBVIOUS
  <1>2. \A q \in reqs : /\ [q EXCEPT !.live = FALSE].payload = q.payload
                       /\ \A c \in Cids : /\ Done(q, c).payload = q.payload
                                           /\ Refuse(q, c).payload = q.payload
                                           /\ [q EXCEPT !.missed = c].payload = q.payload
    BY <1>0 DEF Requests, Done, Refuse
  <1>3. ASSUME NEW p \in Flows, FlowStep(p) \/ StartSync(p) \/ StartRecover(p)
        PROVE  Known
    <2>1. CASE PushBatch(p) \/ RetryPush(p)
      <3>1. \E b \in SUBSET Cids : Send(p, b)
        BY <2>1 DEF PushBatch, RetryPush, ChunksOf, SyncedInv, TypeOK
      <3> QED
        BY <1>1, <3>1 DEF Send
    <2>2. CASE \E kind \in {"retryable", "fatal"} : PushError(p, kind)
      <3>1. r \in reqs \/ \E q \in reqs : r = [q EXCEPT !.live = FALSE]
        BY <2>2 DEF PushError, Unanswered, AwaitedBy
      <3> QED
        BY <1>1, <1>2, <3>1
    <2>3. CASE UNCHANGED reqs
      BY <1>1, <2>3
    <2> HIDE DEF Known
    <2> QED
      BY <1>3, <2>1, <2>2, <2>3 DEF FlowStep, StartSync, MarkSyncing, AttachmentsOk,
         AttachmentsFailed, AfterAttachments, ApplyResult, EndPush, StartRecover,
         AskVerify, VerifyReply, VerifyRefused, VerifyAnswered, VerifyThrew, Settle, EndRecover
  <1>4. ASSUME NEW q \in reqs, ServerStep(q)
        PROVE  Known
    <2>1. q.todo \subseteq Cids
      BY <1>0 DEF Requests
    <2>2. \/ r \in reqs
          \/ \E c \in Cids : \/ r = Done(q, c)
                            \/ r = Refuse(q, c)
                            \/ r = [q EXCEPT !.missed = c]
      BY <1>4, <2>1 DEF ServerStep, Dedup, LookupMiss, Reject, Insert, Receipt, Abandon, Update
    <2>3. CASE r \in reqs
      BY <1>1, <2>3
    <2>4. CASE r \notin reqs
      <3>1. PICK c \in Cids : \/ r = Done(q, c)
                             \/ r = Refuse(q, c)
                             \/ r = [q EXCEPT !.missed = c]
        BY <2>2, <2>4
      <3>2. /\ Done(q, c).payload = q.payload
            /\ Refuse(q, c).payload = q.payload
            /\ [q EXCEPT !.missed = c].payload = q.payload
        BY <1>2
      <3>3. r.payload = q.payload
        BY <3>1, <3>2, Zenon
      <3> QED
        BY <3>3
    <2> QED
      BY <2>3, <2>4
  <1>5. Crash => Known
    <2> SUFFICES ASSUME Crash PROVE Known
      OBVIOUS
    <2>1. \E q \in reqs : r = [q EXCEPT !.live = FALSE]
      BY DEF Crash
    <2> QED
      BY <1>2, <2>1
  <1>6. ASSUME NEW c \in Cids, UserStep(c) PROVE Known
    BY <1>1, <1>6 DEF UserStep, Submit, UpdateGeometry, SaveDraft, MarkDeleted, Delete, Save
  <1> HIDE DEF Known
  <1>7. UNCHANGED vars => Known
    BY <1>1 DEF vars
  <1>8. Known
    BY <1>3, <1>4, <1>5, <1>6, <1>7 DEF Next
  <1> QED
    BY <1>8 DEF Known

LEMMA CopiesStep ==
  ASSUME SyncedInv, CopiesSubmitted, [Next]_vars
  PROVE  CopiesSubmitted'
  <1>0. TypeOK
    BY DEF SyncedInv
  <1> SUFFICES ASSUME NEW c \in Cids \ RefRows
               PROVE  /\ srv'[c] # NoRow => Submitted(c, srv[c])'
                      /\ \A p \in Flows : payload'[p][c] # NoRow => Submitted(c, payload[p][c])'
                      /\ \A r \in reqs' : r.payload[c] # NoRow => Submitted(c, r.payload[c])'
    BY DEF CopiesSubmitted
  <1>1. srv'[c] # NoRow => Submitted(c, srv[c])'
    BY <1>0, StoredCopies, SubmittedKept
  <1>2. \A p \in Flows : payload'[p][c] # NoRow => Submitted(c, payload[p][c])'
    BY <1>0, ReadCopies, SubmittedKept
  <1>3. ASSUME NEW r \in reqs', r.payload[c] # NoRow
        PROVE  Submitted(c, r.payload[c])'
    <2>1. CASE \E q \in reqs : r.payload = q.payload
      BY <1>0, <1>3, <2>1, SubmittedKept DEF CopiesSubmitted
    <2>2. CASE \E p \in Flows, b \in SUBSET Cids : r = Request(p, b)
      <3>1. PICK p \in Flows, b \in SUBSET Cids : r = Request(p, b)
        BY <2>2
      <3>2. r.payload[c] = payload[p][c]
        BY <1>3, <3>1 DEF Request
      <3>3. Submitted(c, r.payload[c])
        BY <1>3, <3>2 DEF CopiesSubmitted
      <3> QED
        BY <1>0, <3>3, SubmittedKept
    <2> QED
      BY <2>1, <2>2, SentCopies
  <1> QED
    BY <1>1, <1>2, <1>3

LEMMA CaptureInitial == Init => CaptureInv
  <1>1. Init => CopiesSubmitted
    BY DEF Init, Nothing, CopiesSubmitted
  <1> QED
    BY <1>1, SyncedInitial DEF CaptureInv

LEMMA CaptureStep == CaptureInv /\ [Next]_vars => CaptureInv'
  BY SyncedStep, CopiesStep DEF CaptureInv

(* A synced capture is stored with exactly the content submitted. *)
THEOREM CapturesStoredAsSubmitted == Spec => []CapturesDelivered
  <1>1. CaptureInv => CapturesDelivered
    BY DEF CaptureInv, SyncedInv, SyncedOnServer, CopiesSubmitted, Submitted, CapturesDelivered
  <1> QED
    BY <1>1, CaptureInitial, CaptureStep, PTL DEF Spec

(* The server never holds a capture that its collector did not submit. *)
THEOREM DraftsKeptLocal == Spec => []DraftsStayLocal
  <1>1. CaptureInv => DraftsStayLocal
    BY DEF CaptureInv, CopiesSubmitted, Submitted, DraftsStayLocal
  <1> QED
    BY <1>1, CaptureInitial, CaptureStep, PTL DEF Spec

------------------------------------------------------------------------------
(* Drafts.  A flow has in hand only rows that were submitted when it read   *)
(* them, and only the user takes a submission back: by deleting the row.   *)

InHand(p) == todo[p] \union ready[p] \union batch[p]
HandsSubmitted ==
  \A p \in Flows : \A c \in InHand(p) \ RefRows : status[c] \notin {"none", "draft"}

DraftsInv == SyncedInv /\ HandsSubmitted

LEMMA DraftsInitial == Init => DraftsInv
  BY SyncedInitial DEF Init, DraftsInv, HandsSubmitted, InHand

(* Whatever a step puts in a flow's hands, the flow had it there before or  *)
(* has just read it as submitted.                                          *)
LEMMA HandsFromReading ==
  ASSUME SyncedInv, [Next]_vars, NEW p \in Flows
  PROVE  InHand(p)' \subseteq InHand(p) \union Syncable \union Candidates
  <1> USE DEF InHand
  <1>0. /\ todo \in [Flows -> SUBSET Cids] /\ ready \in [Flows -> SUBSET Cids]
        /\ batch \in [Flows -> SUBSET Cids]
    BY DEF SyncedInv, TypeOK
  <1>1. ASSUME NEW o \in Flows, StartSync(o) \/ StartRecover(o)
        PROVE  InHand(p)' \subseteq InHand(p) \union Syncable \union Candidates
    BY <1>0, <1>1 DEF StartSync, StartRecover
  <1>2. ASSUME NEW o \in Flows, FlowStep(o)
        PROVE  InHand(p)' \subseteq InHand(p) \union Syncable \union Candidates
    <2>0. CASE MarkSyncing(o)
      <3>1. PICK c \in todo[o] : /\ todo' = [todo EXCEPT ![o] = @ \ {c}]
                                 /\ batch' = [batch EXCEPT ![o] = {c}]
        BY <2>0 DEF MarkSyncing
      <3>2. ready' = ready
        BY <2>0 DEF MarkSyncing
      <3> QED
        BY <1>0, <3>1, <3>2
    <2>1. CASE AttachmentsOk(o) \/ AttachmentsFailed(o)
      <3>1. /\ todo' = todo /\ batch' = [batch EXCEPT ![o] = {}]
            /\ ready' = ready \/ ready' = [ready EXCEPT ![o] = @ \union batch[o]]
        BY <2>1 DEF AttachmentsOk, AttachmentsFailed, AfterAttachments
      <3> QED
        BY <1>0, <3>1
    <2>2. CASE PushBatch(o) \/ AskVerify(o)
      <3>1. \E b \in SUBSET ready[o] : /\ batch' = [batch EXCEPT ![o] = b]
                                       /\ ready' = [ready EXCEPT ![o] = @ \ b]
        BY <2>2 DEF PushBatch, AskVerify, ChunksOf
      <3>2. todo' = todo
        BY <2>2 DEF PushBatch, AskVerify
      <3> QED
        BY <1>0, <3>1, <3>2
    <2>3. CASE \E kind \in {"retryable", "fatal"} : PushError(o, kind)
      <3>1. /\ ready' = ready /\ batch' = batch
            /\ todo' = todo \/ todo' = [todo EXCEPT ![o] = batch[o]]
        BY <2>3 DEF PushError
      <3> QED
        BY <1>0, <3>1
    <2>4. CASE ApplyResult(o) \/ Settle(o)
      <3>1. PICK c \in todo[o] : todo' = [todo EXCEPT ![o] = @ \ {c}]
        BY <2>4 DEF ApplyResult, Settle
      <3>2. ready' = ready /\ (batch' = batch \/ batch' = [batch EXCEPT ![o] = {}])
        BY <2>4 DEF ApplyResult, Settle
      <3> QED
        BY <1>0, <3>1, <3>2
    <2>5. CASE VerifyReply(o) \/ VerifyRefused(o)
      <3>1. ready' = ready /\ batch' = batch /\ todo' = [todo EXCEPT ![o] = batch[o]]
        BY <2>5 DEF VerifyReply, VerifyRefused, VerifyAnswered
      <3> QED
        BY <1>0, <3>1
    <2>6. CASE VerifyThrew(o)
      <3>1. ready' = ready /\ todo' = todo /\ batch' = [batch EXCEPT ![o] = {}]
        BY <2>6 DEF VerifyThrew
      <3> QED
        BY <1>0, <3>1
    <2>7. CASE RetryPush(o) \/ EndRecover(o) \/ EndPush(o)
      <3>1. ready' = ready /\ todo' = todo /\ batch' = batch
        BY <2>7 DEF RetryPush, EndRecover, EndPush, loopVars
      <3> QED
        BY <3>1
    <2> QED
      BY <1>1, <1>2, <2>0, <2>1, <2>2, <2>3, <2>4, <2>5, <2>6, <2>7 DEF FlowStep
  <1>3. ASSUME NEW q \in reqs, ServerStep(q)
        PROVE  InHand(p)' \subseteq InHand(p)
    <2>1. CASE Receipt(q)
      <3>1. q.flow \in Flows /\ q.batch = batch[q.flow]
        BY <2>1 DEF Receipt, SyncedInv, TypeOK, Requests, RequestsAwaited
      <3> QED
        BY <2>1, <3>1 DEF Receipt, SyncedInv, TypeOK
    <2>2. CASE UNCHANGED flowVars
      BY <2>2
    <2> QED
      BY <1>3, <2>1, <2>2 DEF ServerStep, Dedup, LookupMiss, Reject, Insert, Abandon
  <1>4. Crash => InHand(p)' = {}
    BY DEF Crash
  <1>5. ASSUME NEW c \in Cids, UserStep(c) PROVE InHand(p)' = InHand(p)
    BY <1>5 DEF UserStep, Submit, UpdateGeometry, SaveDraft, MarkDeleted, Delete, Save
  <1>6. UNCHANGED vars => InHand(p)' = InHand(p)
    BY DEF vars
  <1> QED
    BY <1>1, <1>2, <1>3, <1>4, <1>5, <1>6 DEF Next

LEMMA DraftsStep == DraftsInv /\ [Next]_vars => DraftsInv'
  <1> SUFFICES ASSUME DraftsInv, [Next]_vars PROVE DraftsInv'
    OBVIOUS
  <1>0. SyncedInv /\ TypeOK
    BY DEF DraftsInv, SyncedInv
  <1>1. ASSUME NEW p \in Flows, NEW c \in InHand(p)' \ RefRows
        PROVE  status'[c] \notin {"none", "draft"}
    <2>1. c \in Cids \ RefRows /\ status[c] \notin {"none", "draft"}
      BY <1>0, HandsFromReading
      DEF DraftsInv, HandsSubmitted, Syncable, Candidates, InHand, TypeOK
    <2>2. Submitted(c, content[c])
      BY <2>1 DEF Submitted
    <2>3. PICK x : x = content[c]
      OBVIOUS
    <2>4. Submitted(c, x)'
      BY <1>0, <2>1, <2>2, <2>3, SubmittedKept
    <2> QED
      BY <2>4 DEF Submitted
  <1> QED
    BY <1>0, <1>1, SyncedStep DEF DraftsInv, HandsSubmitted

(* Every step does one of three things to the device's table: the user's    *)
(* step, an outcome for a row in hand, or nothing.                         *)
MarkedInHand ==
  \E p \in Flows : \E c \in InHand(p) :
    \E s \in {"pending", "syncing", "synced", "failed"} : Mark(c, s)

LEMMA TableStep ==
  ASSUME TypeOK, [Next]_vars
  PROVE  (\E c \in Cids : UserStep(c)) \/ MarkedInHand \/ UNCHANGED deviceVars
  <1>1. ASSUME NEW p \in Flows, FlowStep(p) \/ StartSync(p) \/ StartRecover(p)
        PROVE  MarkedInHand \/ UNCHANGED deviceVars
    <2>1. CASE MarkSyncing(p) \/ AttachmentsFailed(p)
      BY <2>1 DEF MarkSyncing, AttachmentsFailed, MarkedInHand, InHand
    <2>2. CASE ApplyResult(p)
      <3>1. PICK c \in todo[p] : Mark(c, ResultFor(p, c))
        BY <2>2 DEF ApplyResult
      <3>2. ResultFor(p, c) \in {"pending", "syncing", "synced", "failed"}
        BY DEF ResultFor
      <3> QED
        BY <3>1, <3>2 DEF MarkedInHand, InHand
    <2>3. CASE Settle(p)
      BY <2>3 DEF Settle, MarkedInHand, InHand
    <2>4. CASE UNCHANGED deviceVars
      BY <2>4
    <2> QED
      BY <1>1, <2>1, <2>2, <2>3, <2>4 DEF FlowStep, StartSync, AttachmentsOk, PushBatch, RetryPush,
         PushError, EndPush, StartRecover, AskVerify, VerifyReply, VerifyRefused, VerifyAnswered,
         VerifyThrew, EndRecover
  <1>2. ASSUME NEW q \in reqs, ServerStep(q)
        PROVE  UNCHANGED deviceVars
    BY <1>2 DEF ServerStep, Dedup, LookupMiss, Reject, Insert, Receipt, Abandon
  <1>3. Crash => UNCHANGED deviceVars
    BY DEF Crash
  <1>4. UNCHANGED vars => UNCHANGED deviceVars
    BY DEF vars
  <1> QED
    BY <1>1, <1>2, <1>3, <1>4 DEF Next

LEMMA DraftsLeftAlone ==
  ASSUME DraftsInv, [Next]_vars, NEW c \in Cids \ RefRows,
         status[c] = "draft", status'[c] # "draft"
  PROVE  UserStep(c)
  <1>0. TypeOK
    BY DEF DraftsInv, SyncedInv
  <1>1. CASE \E d \in Cids : UserStep(d)
    <2>1. PICK d \in Cids : UserStep(d)
      BY <1>1
    <2>2. d # c => status'[c] = status[c]
      BY <1>0, <2>1 DEF TypeOK, UserStep, Submit, UpdateGeometry, SaveDraft, MarkDeleted, Delete,
         Save
    <2> QED
      BY <2>1, <2>2
  <1>2. CASE MarkedInHand
    <2>0. PICK p \in Flows :
            \E d \in InHand(p), s \in {"pending", "syncing", "synced", "failed"} : Mark(d, s)
      BY <1>2 DEF MarkedInHand
    <2>1. PICK d \in InHand(p), s \in {"pending", "syncing", "synced", "failed"} : Mark(d, s)
      BY <2>0
    <2>2. d # c
      BY <2>1 DEF DraftsInv, HandsSubmitted
    <2>3. status'[c] = status[c]
      BY <1>0, <2>1, <2>2 DEF Mark, TypeOK
    <2> QED
      BY <2>3
  <1>3. CASE UNCHANGED deviceVars
    BY <1>3
  <1> QED
    BY <1>0, <1>1, <1>2, <1>3, TableStep

(* Only its collector takes a capture out of draft: whatever flows overlap, *)
(* none writes an outcome over a draft (markFeatureStatus has no guard).   *)
THEOREM DraftsKeptUntouched == Spec => DraftsUntouched
  <1>1. DraftsInv /\ [Next]_vars =>
          [\A c \in Cids \ RefRows :
             status[c] = "draft" /\ status'[c] # "draft" => UserStep(c)]_vars
    BY DraftsLeftAlone
  <1> QED
    BY <1>1, DraftsInitial, DraftsStep, PTL DEF Spec, DraftsUntouched

==============================================================================
