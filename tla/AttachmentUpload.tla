--------------------------- MODULE AttachmentUpload ---------------------------
(***************************************************************************)
(* The photos of one feature on their way to the object store.             *)
(*                                                                         *)
(*   device   mobile/lib/features/sync/sync_service.dart (phase 1 of       *)
(*            syncProject, _uploadAttachment), attachment_repository.dart  *)
(*            and the photo widgets, over the table feature_attachments    *)
(*            of core/db/app_database.dart                                 *)
(*   server   services/fc-api/internal/service/attachment_service.go and   *)
(*            sync_service.go (Push), over the tables feature_attachments  *)
(*            and features                                                 *)
(*   store    the S3 bucket                                                *)
(*                                                                         *)
(* A photo is registered (create), its bytes are PUT to a presigned URL,   *)
(* and the upload is confirmed; when all photos of the feature are through *)
(* the feature itself is pushed and its photos are linked to it.  Runs     *)
(* overlap, calls are lost while the server still works on them, and the   *)
(* app is killed.  How a feature is pushed is the subject of FeatureSync;  *)
(* here it is stored or found already stored.                              *)
(***************************************************************************)
EXTENDS Naturals, FiniteSets

CONSTANTS
  Atts,         \* client ids of photos
  Flows,        \* runs of syncProject that may overlap
  NoAtt,        \* no photo
  Kinds,        \* the kinds of feature considered
  MaxAttempts,  \* _kAttachmentMaxAttempts
  MaxPhotos,    \* bound: photos taken under one client id
  MaxCalls,     \* bound: calls the server works on at once
  MaxCrashes    \* bound: times the app may be killed

ASSUME ConstantsAssumption ==
  /\ NoAtt \notin Atts
  /\ Kinds \subseteq {"capture", "reference"}
  /\ MaxAttempts \in Nat \ {0}
  /\ {MaxPhotos, MaxCalls, MaxCrashes} \subseteq Nat

DevStatuses == {"none", "pending", "uploading", "uploaded", "confirmed", "failed",
                "removed"}

SrvStatuses == {"none", "pending_upload", "uploaded", "failed"}

PCs == {"idle", "row", "begin", "create", "bytes", "put", "confirm", "failed", "push"}

Calls == [flow : Flows, live : BOOLEAN, kind : {"create", "put", "confirm", "push"},
          att : Atts \union {NoAtt}, photo : 0..MaxPhotos, ids : SUBSET Atts,
          seen : {"not yet", "yes", "no"}]

VARIABLES
  (* the device *)
  photo,      \* which photo the file of a client id is; 0: none taken yet
  dev,        \* feature_attachments.status; "none", "removed": no row
  markers,    \* the client ids the submitted attributes name
  submitted,  \* the feature was submitted
  kind,       \* the feature is a capture, or edits a reference feature
  synced,     \* the feature's row says synced
  (* the runs *)
  pc, todo, cur, attempt,
  paths,      \* the photos as the run read them (localPath)
  ids,        \* attachmentIdsByFeature
  allOk,      \* allAttachmentsOk
  (* the network, the server and the store *)
  calls,
  srv,        \* feature_attachments.status on the server
  obj,        \* the photo stored under the client id's storage key; 0: none
  feat,       \* the feature is stored
  linked,     \* the photos whose feature_id is set
  crashes

formVars   == <<photo, markers, submitted, kind>>
runVars    == <<pc, todo, cur, attempt, paths, ids, allOk>>
serverVars == <<srv, obj, feat, linked>>
vars       == <<formVars, dev, synced, runVars, calls, serverVars, crashes>>

NoPhotos == [a \in Atts |-> 0]

Init ==
  /\ photo = NoPhotos
  /\ dev = [a \in Atts |-> "none"]
  /\ markers = {}
  /\ submitted = FALSE
  /\ kind \in Kinds
  /\ synced = FALSE
  /\ pc = [p \in Flows |-> "idle"]
  /\ todo = [p \in Flows |-> {}]
  /\ cur = [p \in Flows |-> NoAtt]
  /\ attempt = [p \in Flows |-> 0]
  /\ paths = [p \in Flows |-> NoPhotos]
  /\ ids = [p \in Flows |-> {}]
  /\ allOk = [p \in Flows |-> TRUE]
  /\ calls = {}
  /\ srv = [a \in Atts |-> "none"]
  /\ obj = NoPhotos
  /\ feat = FALSE
  /\ linked = {}
  /\ crashes = 0

------------------------------------------------------------------------------
(* The form. *)

HasRow(a) == dev[a] \notin {"none", "removed"}

(* A capture is read-only once submitted; a reference feature is not. *)
Open == submitted => kind = "reference"

(* A photo is taken, or replaced under the client id it had: the old file  *)
(* is deleted.                                                             *)
TakePhoto(a) ==
  /\ Open
  /\ dev[a] # "removed"
  /\ photo[a] < MaxPhotos
  /\ photo' = [photo EXCEPT ![a] = @ + 1]
  /\ dev' = [dev EXCEPT ![a] = "pending"]
  /\ UNCHANGED <<markers, submitted, kind, synced, runVars, calls, serverVars,
                 crashes>>

RemovePhoto(a) ==
  /\ Open
  /\ HasRow(a)
  /\ dev' = [dev EXCEPT ![a] = "removed"]
  /\ UNCHANGED <<formVars, synced, runVars, calls, serverVars, crashes>>

Submit ==
  /\ Open
  /\ markers' = {a \in Atts : HasRow(a)}
  /\ markers' # {}
  /\ submitted' = TRUE
  /\ synced' = FALSE
  /\ UNCHANGED <<photo, kind, dev, runVars, calls, serverVars, crashes>>

------------------------------------------------------------------------------
(* A run: one photo after the other. *)

(* updateAttachmentStatus: a row that was removed is matched by no UPDATE. *)
SetStatus(a, s) == dev' = IF HasRow(a) THEN [dev EXCEPT ![a] = s] ELSE dev

FileThere(p, a) == HasRow(a) /\ photo[a] = paths[p][a]

(* A run reaches the feature, which was pending when the run read its rows *)
(* and may be synced by now, and marks it syncing.                         *)
StartRun(p) ==
  /\ pc[p] = "idle"
  /\ submitted
  /\ synced' = FALSE
  /\ ids' = [ids EXCEPT ![p] = {a \in markers : HasRow(a)}]
  /\ todo' = [todo EXCEPT ![p] = {a \in markers : HasRow(a) /\ dev[a] # "confirmed"}]
  /\ paths' = [paths EXCEPT ![p] = photo]
  /\ allOk' = [allOk EXCEPT ![p] = TRUE]
  /\ pc' = [pc EXCEPT ![p] = "row"]
  /\ UNCHANGED <<formVars, dev, cur, attempt, calls, serverVars, crashes>>

NextPhoto(p) ==
  /\ pc[p] = "row"
  /\ \E a \in todo[p] : /\ cur' = [cur EXCEPT ![p] = a]
                        /\ todo' = [todo EXCEPT ![p] = @ \ {a}]
  /\ attempt' = [attempt EXCEPT ![p] = 1]
  /\ pc' = [pc EXCEPT ![p] = "begin"]
  /\ UNCHANGED <<formVars, dev, synced, paths, ids, allOk, calls, serverVars, crashes>>

Call(p, what) ==
  [flow |-> p, live |-> TRUE, kind |-> what, seen |-> "not yet",
   att |-> IF what = "push" THEN NoAtt ELSE cur[p],
   photo |-> IF what = "put" THEN paths[p][cur[p]] ELSE 0,
   ids |-> IF what = "push" THEN ids[p] ELSE {}]

(* p makes a call and awaits it. *)
Send(p, what) ==
  /\ Cardinality(calls) < MaxCalls
  /\ calls' = calls \union {Call(p, what)}
  /\ pc' = [pc EXCEPT ![p] = what]

Register(p) ==
  /\ pc[p] = "begin"
  /\ FileThere(p, cur[p])
  /\ SetStatus(cur[p], "uploading")
  /\ Send(p, "create")
  /\ UNCHANGED <<formVars, synced, todo, cur, attempt, paths, ids, allOk, serverVars,
                 crashes>>

SendBytes(p) ==
  /\ pc[p] = "bytes"
  /\ FileThere(p, cur[p])
  /\ Send(p, "put")
  /\ UNCHANGED <<formVars, dev, synced, todo, cur, attempt, paths, ids, allOk,
                 serverVars, crashes>>

FileMissing(p) ==
  /\ pc[p] \in {"begin", "bytes"}
  /\ ~FileThere(p, cur[p])
  /\ SetStatus(cur[p], "failed")
  /\ pc' = [pc EXCEPT ![p] = "failed"]
  /\ UNCHANGED <<formVars, synced, todo, cur, attempt, paths, ids, allOk, calls,
                 serverVars, crashes>>

AwaitedBy(p) == {q \in calls : q.live /\ q.flow = p}

(* The call of p never arrives, or the server works on and nobody listens. *)
Unanswered(p) ==
  \/ calls' = calls \ AwaitedBy(p)
  \/ calls' = (calls \ AwaitedBy(p)) \union {[q EXCEPT !.live = FALSE] : q \in AwaitedBy(p)}

(* A network error leaves the photo pending; any other status code, failed. *)
CallFailed(p, s) ==
  /\ pc[p] \in {"create", "put", "confirm"}
  /\ Unanswered(p)
  /\ SetStatus(cur[p], s)
  /\ pc' = [pc EXCEPT ![p] = "failed"]
  /\ UNCHANGED <<formVars, synced, todo, cur, attempt, paths, ids, allOk, serverVars,
                 crashes>>

Decide_AttemptKept(p) ==
  /\ pc[p] = "failed"
  /\ IF dev[cur[p]] = "failed" \/ attempt[p] >= MaxAttempts
       THEN /\ allOk' = [allOk EXCEPT ![p] = FALSE]
            /\ pc' = [pc EXCEPT ![p] = "row"]
       ELSE /\ pc' = [pc EXCEPT ![p] = "begin"]
            /\ UNCHANGED allOk
  /\ UNCHANGED <<formVars, dev, synced, todo, cur, attempt, paths, ids, calls,
                 serverVars, crashes>>

Decide_OneMore(p) ==
  /\ pc[p] = "failed"
  /\ IF dev[cur[p]] = "failed" \/ attempt[p] > MaxAttempts
       THEN /\ allOk' = [allOk EXCEPT ![p] = FALSE]
            /\ pc' = [pc EXCEPT ![p] = "row"]
            /\ UNCHANGED attempt
       ELSE /\ attempt' = [attempt EXCEPT ![p] = @ + 1]
            /\ pc' = [pc EXCEPT ![p] = "begin"]
            /\ UNCHANGED allOk
  /\ UNCHANGED <<formVars, dev, synced, todo, cur, paths, ids, calls, serverVars,
                 crashes>>

Decide_Forgets(p) ==
  /\ pc[p] = "failed"
  /\ IF dev[cur[p]] = "failed" \/ attempt[p] >= MaxAttempts
       THEN /\ pc' = [pc EXCEPT ![p] = "row"]
            /\ UNCHANGED attempt
       ELSE /\ attempt' = [attempt EXCEPT ![p] = @ + 1]
            /\ pc' = [pc EXCEPT ![p] = "begin"]
  /\ UNCHANGED <<formVars, dev, synced, todo, cur, paths, ids, allOk, calls, serverVars,
                 crashes>>

(* Another attempt unless the row, as it is by now, says failed. *)
Decide(p) ==
  /\ pc[p] = "failed"
  /\ IF dev[cur[p]] = "failed" \/ attempt[p] >= MaxAttempts
       THEN /\ allOk' = [allOk EXCEPT ![p] = FALSE]
            /\ pc' = [pc EXCEPT ![p] = "row"]
            /\ UNCHANGED attempt
       ELSE /\ attempt' = [attempt EXCEPT ![p] = @ + 1]
            /\ pc' = [pc EXCEPT ![p] = "begin"]
            /\ UNCHANGED allOk
  /\ UNCHANGED <<formVars, dev, synced, todo, cur, paths, ids, calls, serverVars,
                 crashes>>

(* All photos are through: the feature is pushed, or left pending. *)
PushFeature(p) ==
  /\ pc[p] = "row" /\ todo[p] = {} /\ allOk[p]
  /\ Send(p, "push")
  /\ UNCHANGED <<formVars, dev, synced, todo, cur, attempt, paths, ids, allOk, serverVars,
                 crashes>>

GiveUp(p) ==
  /\ \/ pc[p] = "row" /\ todo[p] = {} /\ ~allOk[p] /\ UNCHANGED calls
     \/ pc[p] = "push" /\ Unanswered(p)
  /\ synced' = FALSE
  /\ pc' = [pc EXCEPT ![p] = "idle"]
  /\ UNCHANGED <<formVars, dev, todo, cur, attempt, paths, ids, allOk,
                 serverVars, crashes>>

(* recoverProject finds the feature on the server. *)
Recover ==
  /\ submitted /\ ~synced /\ feat
  /\ synced' = TRUE
  /\ UNCHANGED <<formVars, dev, runVars, calls, serverVars, crashes>>

------------------------------------------------------------------------------
(* The server and the store.  A call nobody awaits is handled all the same. *)

(* The answer to q makes its run go on with s in the row and at pc l. *)
Answer(q, s, l) ==
  IF q.live
    THEN SetStatus(q.att, s) /\ pc' = [pc EXCEPT ![q.flow] = l]
    ELSE UNCHANGED <<dev, pc>>

Create_RowIsPhoto(q) ==
  /\ q.kind = "create"
  /\ IF srv[q.att] # "none"
       THEN Answer(q, "confirmed", "row") /\ UNCHANGED srv
       ELSE /\ srv' = [srv EXCEPT ![q.att] = "pending_upload"]
            /\ Answer(q, "uploading", "bytes")
  /\ calls' = calls \ {q}
  /\ UNCHANGED <<formVars, synced, todo, cur, attempt, paths, ids, allOk, obj, feat,
                 linked, crashes>>

(* A row that is already uploaded comes back without an upload URL, and    *)
(* PUT to no URL throws.                                                   *)
Create(q) ==
  /\ q.kind = "create"
  /\ IF srv[q.att] = "uploaded"
       THEN Answer(q, "pending", "failed") /\ UNCHANGED srv
       ELSE /\ srv' = [srv EXCEPT ![q.att] = IF @ = "none" THEN "pending_upload" ELSE @]
            /\ Answer(q, "uploading", "bytes")
  /\ calls' = calls \ {q}
  /\ UNCHANGED <<formVars, synced, todo, cur, attempt, paths, ids, allOk, obj, feat,
                 linked, crashes>>

(* The store takes the bytes; the run goes on to confirm. *)
Put(q) ==
  /\ q.kind = "put"
  /\ obj' = [obj EXCEPT ![q.att] = q.photo]
  /\ Answer(q, "uploaded", "confirm")
  /\ calls' = (calls \ {q}) \union (IF q.live THEN {Call(q.flow, "confirm")} ELSE {})
  /\ UNCHANGED <<formVars, synced, todo, cur, attempt, paths, ids, allOk, srv, feat,
                 linked, crashes>>

(* StatObject, which also fails when the store is out of reach. *)
Stat(q) ==
  /\ q.kind = "confirm" /\ q.seen = "not yet"
  /\ \E s \in {"yes", "no"} :
       /\ s = "yes" => obj[q.att] # 0
       /\ calls' = (calls \ {q}) \union {[q EXCEPT !.seen = s]}
  /\ UNCHANGED <<formVars, dev, synced, runVars, serverVars, crashes>>

(* MarkUploaded or MarkFailed. *)
Confirm(q) ==
  /\ q.kind = "confirm" /\ q.seen # "not yet"
  /\ srv' = [srv EXCEPT ![q.att] = IF q.seen = "yes" THEN "uploaded" ELSE "failed"]
  /\ IF q.seen = "yes" THEN Answer(q, "confirmed", "row") ELSE Answer(q, "failed", "failed")
  /\ calls' = calls \ {q}
  /\ UNCHANGED <<formVars, synced, todo, cur, attempt, paths, ids, allOk, obj, feat,
                 linked, crashes>>

Accepted(q) ==
  /\ calls' = calls \ {q}
  /\ IF q.live
       THEN synced' = TRUE /\ pc' = [pc EXCEPT ![q.flow] = "idle"]
       ELSE UNCHANGED <<synced, pc>>

(* Push stores the feature, and then links the photos to it. *)
Store(q) ==
  /\ q.kind = "push" /\ q.seen = "not yet" /\ ~feat
  /\ feat' = TRUE
  /\ calls' = (calls \ {q}) \union {[q EXCEPT !.seen = "yes"]}
  /\ UNCHANGED <<formVars, dev, synced, runVars, srv, obj, linked, crashes>>

Link(q) ==
  /\ q.kind = "push" /\ q.seen = "yes"
  /\ linked' = linked \union {a \in q.ids : srv[a] # "none"}
  /\ Accepted(q)
  /\ UNCHANGED <<formVars, dev, todo, cur, attempt, paths, ids, allOk, srv, obj, feat,
                 crashes>>

(* A failure to link is logged and the feature accepted; a feature that is *)
(* already stored is accepted at once.                                     *)
AcceptUnlinked(q) ==
  /\ q.kind = "push"
  /\ q.seen = "yes" \/ feat
  /\ Accepted(q)
  /\ UNCHANGED <<formVars, dev, todo, cur, attempt, paths, ids, allOk, serverVars,
                 crashes>>

(* A call nobody awaits ends, handled or not. *)
Abandon(q) ==
  /\ ~q.live
  /\ calls' = calls \ {q}
  /\ UNCHANGED <<formVars, dev, synced, runVars, serverVars, crashes>>

------------------------------------------------------------------------------
Crash ==
  /\ crashes < MaxCrashes
  /\ \E p \in Flows : pc[p] # "idle"
  /\ crashes' = crashes + 1
  /\ pc' = [p \in Flows |-> "idle"]
  /\ \E kept \in SUBSET calls : calls' = {[q EXCEPT !.live = FALSE] : q \in kept}
  /\ UNCHANGED <<formVars, dev, synced, todo, cur, attempt, paths, ids, allOk,
                 serverVars>>

UserStep == Submit \/ \E a \in Atts : TakePhoto(a) \/ RemovePhoto(a)

RunStep(p) ==
  \/ NextPhoto(p) \/ Register(p) \/ SendBytes(p) \/ FileMissing(p) \/ Decide(p)
  \/ PushFeature(p) \/ GiveUp(p)
  \/ \E s \in {"pending", "failed"} : CallFailed(p, s)

ServerStep(q) ==
  \/ Create(q) \/ Put(q) \/ Stat(q) \/ Confirm(q)
  \/ Store(q) \/ Link(q) \/ AcceptUnlinked(q) \/ Abandon(q)

Next ==
  \/ UserStep
  \/ \E p \in Flows : StartRun(p) \/ RunStep(p)
  \/ \E q \in calls : ServerStep(q)
  \/ Recover
  \/ Crash

Spec == Init /\ [][Next]_vars

(* Fairness.  A run that can go on does, and each of its calls returns or  *)
(* times out; the server is done with a call some day.                     *)
FairSpec ==
  /\ Spec
  /\ \A p \in Flows : WF_vars(RunStep(p))
  /\ WF_vars(\E q \in calls : ServerStep(q))

(* A collector who keeps syncing while the network lets every kind of call *)
(* through now and then.                                                   *)
PersistentSpec ==
  /\ FairSpec
  /\ \A p \in Flows : SF_vars(StartRun(p))
  /\ SF_vars(\E q \in calls : q.live /\ Create(q))
  /\ SF_vars(\E q \in calls : q.live /\ Put(q))
  /\ SF_vars(\E q \in calls : Stat(q) /\ \E r \in calls' : r.seen = "yes")
  /\ SF_vars(\E q \in calls : q.live /\ Confirm(q))

------------------------------------------------------------------------------
(* Properties. *)

(* Every variable stays in its range; no photo is attempted more than      *)
(* MaxAttempts times in a run.                                             *)
TypeOK ==
  /\ photo \in [Atts -> 0..MaxPhotos]
  /\ dev \in [Atts -> DevStatuses]
  /\ markers \subseteq Atts
  /\ {submitted, synced, feat} \subseteq BOOLEAN
  /\ kind \in Kinds
  /\ pc \in [Flows -> PCs]
  /\ todo \in [Flows -> SUBSET Atts]
  /\ cur \in [Flows -> Atts \union {NoAtt}]
  /\ attempt \in [Flows -> 0..MaxAttempts]
  /\ paths \in [Flows -> [Atts -> 0..MaxPhotos]]
  /\ ids \in [Flows -> SUBSET Atts]
  /\ allOk \in [Flows -> BOOLEAN]
  /\ calls \subseteq Calls
  /\ srv \in [Atts -> SrvStatuses]
  /\ obj \in [Atts -> 0..MaxPhotos]
  /\ linked \subseteq Atts
  /\ crashes \in Nat

(* The object store holds, under the key of a confirmed photo of a         *)
(* capture, the photo the collector sees, whatever runs overlapped or      *)
(* calls came late.                                                        *)
PhotosDelivered ==
  kind = "capture" => \A a \in Atts : dev[a] = "confirmed" => obj[a] = photo[a]

(* docs/efficient-sync.md: attachments first, then features.  When a       *)
(* capture is stored the bytes of all its photos are.                      *)
PhotosFirst == feat /\ kind = "capture" => \A a \in markers : obj[a] # 0

(* Every run ends: attempts and photos are bounded. *)
RunsEnd == \A p \in Flows : pc[p] # "idle" ~> pc[p] = "idle"

------------------------------------------------------------------------------
(* Statements of the repository that the code does not keep. *)

(* attachment_service.go: creating an attachment is idempotent, a row that *)
(* exists is returned.  It comes without a URL once the upload is          *)
(* confirmed, so a run that missed the confirmation cannot get through.    *)
EveryPhotoConfirmed ==
  \A a \in Atts : submitted /\ dev[a] = "pending" ~> dev[a] \in {"confirmed", "removed"}

(* attachment_repo.go: attachments are tied to the feature when it is      *)
(* pushed.  A push that is repeated ties nothing.                          *)
SyncedIsLinked == synced => markers \subseteq linked

==============================================================================
