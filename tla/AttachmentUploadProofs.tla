------------------------ MODULE AttachmentUploadProofs ------------------------
(***************************************************************************)
(* Proofs about AttachmentUpload for any number of photos, runs, attempts, *)
(* calls under way and crashes.                                            *)
(***************************************************************************)
EXTENDS AttachmentUpload, TLAPS

USE DEF formVars, runVars, serverVars

------------------------------------------------------------------------------
(* Types.  The variables in groups that an action writes together. *)

FormTyped ==
  /\ photo \in [Atts -> 0..MaxPhotos]
  /\ markers \subseteq Atts
  /\ submitted \in BOOLEAN
  /\ kind \in Kinds

DeviceTyped ==
  /\ dev \in [Atts -> DevStatuses]
  /\ synced \in BOOLEAN

RunsTyped ==
  /\ pc \in [Flows -> PCs]
  /\ todo \in [Flows -> SUBSET Atts]
  /\ cur \in [Flows -> Atts \union {NoAtt}]
  /\ attempt \in [Flows -> 0..MaxAttempts]
  /\ paths \in [Flows -> [Atts -> 0..MaxPhotos]]
  /\ ids \in [Flows -> SUBSET Atts]
  /\ allOk \in [Flows -> BOOLEAN]

CallsTyped == calls \subseteq Calls

ServerTyped ==
  /\ srv \in [Atts -> SrvStatuses]
  /\ obj \in [Atts -> 0..MaxPhotos]
  /\ feat \in BOOLEAN
  /\ linked \subseteq Atts

(* A run at work on a photo has one, and calls about photos name one. *)
Engaged(p) ==
  pc[p] \in {"begin", "create", "bytes", "put", "confirm", "failed"} => cur[p] \in Atts

NamesPhoto(q) == q.kind # "push" => q.att \in Atts

TypeInv ==
  /\ FormTyped /\ DeviceTyped /\ RunsTyped /\ CallsTyped /\ ServerTyped /\ crashes \in Nat
  /\ \A p \in Flows : Engaged(p)
  /\ \A q \in calls : NamesPhoto(q)

(* A run awaits one call at most: the one its pc and its photo say. *)
CallsAwaited ==
  /\ \A q \in calls :
       q.live => pc[q.flow] = q.kind /\ (q.kind # "push" => q.att = cur[q.flow])
  /\ \A q, r \in calls : q.live /\ r.live /\ q.flow = r.flow => q = r

LEMMA TypeInvIsTyped == TypeInv => TypeOK
  BY DEF TypeInv, TypeOK, FormTyped, DeviceTyped, RunsTyped, CallsTyped, ServerTyped

LEMMA TypeInitial == Init => TypeInv
  <1> SUFFICES ASSUME Init PROVE TypeInv
    OBVIOUS
  <1>1. 0 \in 0..MaxPhotos /\ 0 \in 0..MaxAttempts /\ 0 \in Nat
    BY ConstantsAssumption
  <1>2. FormTyped /\ ServerTyped
    BY <1>1, ConstantsAssumption DEF Init, NoPhotos, FormTyped, ServerTyped, SrvStatuses
  <1>3. DeviceTyped
    BY DEF Init, DeviceTyped, DevStatuses
  <1>4. RunsTyped
    BY <1>1 DEF Init, RunsTyped, NoPhotos, PCs
  <1>5. CallsTyped /\ crashes \in Nat
    BY <1>1 DEF Init, CallsTyped
  <1>6. (\A p \in Flows : Engaged(p)) /\ \A q \in calls : NamesPhoto(q)
    BY DEF Init, Engaged
  <1> QED
    BY <1>2, <1>3, <1>4, <1>5, <1>6 DEF TypeInv

(* A group whose variables do not change stays typed. *)
LEMMA FormKept == ASSUME FormTyped, UNCHANGED formVars PROVE FormTyped'
  BY DEF FormTyped
LEMMA DeviceKept == ASSUME DeviceTyped, UNCHANGED <<dev, synced>> PROVE DeviceTyped'
  BY DEF DeviceTyped
LEMMA RunsKept ==
  ASSUME RunsTyped, \A p \in Flows : Engaged(p), UNCHANGED runVars
  PROVE  RunsTyped' /\ \A p \in Flows : Engaged(p)'
  BY DEF RunsTyped, Engaged
LEMMA CallsKept ==
  ASSUME CallsTyped, \A q \in calls : NamesPhoto(q), UNCHANGED calls
  PROVE  CallsTyped' /\ \A q \in calls' : NamesPhoto(q)
  BY DEF CallsTyped
LEMMA ServerKept == ASSUME ServerTyped, UNCHANGED serverVars PROVE ServerTyped'
  BY DEF ServerTyped

LEMMA StatusTyped ==
  ASSUME DeviceTyped, NEW a, NEW s \in DevStatuses, SetStatus(a, s), UNCHANGED synced
  PROVE  DeviceTyped'
  BY DEF DeviceTyped, SetStatus

LEMMA CallTyped ==
  ASSUME RunsTyped, NEW p \in Flows, Engaged(p),
         NEW what \in {"create", "put", "confirm", "push"},
         what # "push" => cur[p] \in Atts
  PROVE  /\ Call(p, what) \in Calls
         /\ NamesPhoto(Call(p, what))
         /\ Call(p, what).flow = p /\ Call(p, what).kind = what /\ Call(p, what).live
         /\ Call(p, what).seen = "not yet"
         /\ what # "push" => Call(p, what).att = cur[p]
         /\ what = "put" => Call(p, what).photo = paths[p][cur[p]]
  <1>1. what = "put" => paths[p][cur[p]] \in 0..MaxPhotos
    BY DEF RunsTyped
  <1>2. 0 \in 0..MaxPhotos
    BY ConstantsAssumption
  <1>3. cur[p] \in Atts \union {NoAtt} /\ ids[p] \subseteq Atts
    BY DEF RunsTyped
  <1> QED
    BY <1>1, <1>2, <1>3 DEF Call, Calls, NamesPhoto

LEMMA DeafTyped ==
  ASSUME NEW q \in Calls, NamesPhoto(q)
  PROVE  LET r == [q EXCEPT !.live = FALSE] IN
         /\ r \in Calls /\ NamesPhoto(r) /\ ~r.live
         /\ r.kind = q.kind /\ r.flow = q.flow /\ r.seen = q.seen
         /\ r.att = q.att /\ r.photo = q.photo
  BY DEF Calls, NamesPhoto

LEMMA UnansweredTyped ==
  ASSUME CallsTyped, \A q \in calls : NamesPhoto(q), NEW p \in Flows, Unanswered(p)
  PROVE  CallsTyped' /\ \A q \in calls' : NamesPhoto(q)
  BY DeafTyped DEF CallsTyped, Unanswered, AwaitedBy

LEMMA TypeUserStep ==
  ASSUME TypeInv, UserStep
  PROVE  TypeInv'
  <1> USE DEF TypeInv
  <1>1. CASE Submit
    <2>1. FormTyped' /\ DeviceTyped'
      BY <1>1 DEF Submit, FormTyped, DeviceTyped
    <2> QED
      BY <1>1, <2>1, RunsKept, CallsKept, ServerKept DEF Submit
  <1>2. CASE \E a \in Atts : TakePhoto(a)
    <2>1. FormTyped'
      BY <1>2, ConstantsAssumption DEF TakePhoto, FormTyped
    <2>2. DeviceTyped'
      BY <1>2 DEF TakePhoto, DeviceTyped, DevStatuses
    <2> QED
      BY <1>2, <2>1, <2>2, RunsKept, CallsKept, ServerKept DEF TakePhoto
  <1>3. CASE \E a \in Atts : RemovePhoto(a)
    <2>1. DeviceTyped'
      BY <1>3 DEF RemovePhoto, DeviceTyped, DevStatuses
    <2> QED
      BY <1>3, <2>1, FormKept, RunsKept, CallsKept, ServerKept DEF RemovePhoto
  <1> QED
    BY <1>1, <1>2, <1>3 DEF UserStep

(* The steps of a run between its calls. *)
LEMMA TypeLocalStep ==
  ASSUME TypeInv, NEW p \in Flows,
         StartRun(p) \/ NextPhoto(p) \/ FileMissing(p) \/ Decide(p) \/ GiveUp(p)
  PROVE  TypeInv'
  <1> USE DEF TypeInv
  <1>1. CASE StartRun(p)
    <2>1. DeviceTyped'
      BY <1>1 DEF StartRun, DeviceTyped
    <2>2. RunsTyped' /\ \A o \in Flows : Engaged(o)'
      BY <1>1 DEF StartRun, RunsTyped, FormTyped, Engaged, PCs
    <2> QED
      BY <1>1, <2>1, <2>2, FormKept, CallsKept, ServerKept DEF StartRun
  <1>2. CASE NextPhoto(p)
    <2>1. 1 \in 0..MaxAttempts
      BY ConstantsAssumption
    <2>2. RunsTyped' /\ \A o \in Flows : Engaged(o)'
      BY <1>2, <2>1 DEF NextPhoto, RunsTyped, Engaged, PCs
    <2> QED
      BY <1>2, <2>2, FormKept, DeviceKept, CallsKept, ServerKept DEF NextPhoto
  <1>3. CASE FileMissing(p)
    <2>1. DeviceTyped'
      BY <1>3, StatusTyped DEF FileMissing, DevStatuses
    <2>2. RunsTyped' /\ \A o \in Flows : Engaged(o)'
      BY <1>3 DEF FileMissing, RunsTyped, Engaged, PCs
    <2> QED
      BY <1>3, <2>1, <2>2, FormKept, CallsKept, ServerKept DEF FileMissing
  <1>4. CASE Decide(p)
    <2>1. attempt' \in [Flows -> 0..MaxAttempts]
      BY <1>4, ConstantsAssumption DEF Decide, RunsTyped
    <2>2. RunsTyped' /\ \A o \in Flows : Engaged(o)'
      BY <1>4, <2>1 DEF Decide, RunsTyped, Engaged, PCs
    <2> QED
      BY <1>4, <2>2, FormKept, DeviceKept, CallsKept, ServerKept DEF Decide
  <1>5. CASE GiveUp(p)
    <2>1. DeviceTyped'
      BY <1>5 DEF GiveUp, DeviceTyped
    <2>2. RunsTyped' /\ \A o \in Flows : Engaged(o)'
      BY <1>5 DEF GiveUp, RunsTyped, Engaged, PCs
    <2>3. CallsTyped' /\ \A q \in calls' : NamesPhoto(q)
      BY <1>5, CallsKept, UnansweredTyped DEF GiveUp
    <2> QED
      BY <1>5, <2>1, <2>2, <2>3, FormKept, ServerKept DEF GiveUp
  <1> QED
    BY <1>1, <1>2, <1>3, <1>4, <1>5

(* The steps of a run that make a call or see one fail. *)
LEMMA SendTyped ==
  ASSUME RunsTyped, CallsTyped, \A q \in calls : NamesPhoto(q), NEW p \in Flows, Engaged(p),
         NEW what \in {"create", "put", "confirm", "push"},
         what # "push" => cur[p] \in Atts,
         Send(p, what)
  PROVE  CallsTyped' /\ \A q \in calls' : NamesPhoto(q)
  <1>1. Call(p, what) \in Calls /\ NamesPhoto(Call(p, what))
    BY CallTyped
  <1>2. calls' = calls \union {Call(p, what)}
    BY DEF Send
  <1> QED
    BY <1>1, <1>2 DEF CallsTyped

LEMMA TypeCallStep ==
  ASSUME TypeInv, NEW p \in Flows,
         \/ Register(p) \/ SendBytes(p) \/ PushFeature(p)
         \/ \E s \in {"pending", "failed"} : CallFailed(p, s)
  PROVE  TypeInv'
  <1> USE DEF TypeInv
  <1>1. CASE Register(p)
    <2>1. cur[p] \in Atts /\ Send(p, "create")
      BY <1>1 DEF Register, Engaged
    <2>2. CallsTyped' /\ \A q \in calls' : NamesPhoto(q)
      BY <2>1, SendTyped
    <2>3. DeviceTyped'
      BY <1>1, StatusTyped DEF Register, DevStatuses
    <2>4. RunsTyped' /\ \A o \in Flows : Engaged(o)'
      BY <1>1 DEF Register, Send, RunsTyped, Engaged, PCs
    <2> QED
      BY <1>1, <2>2, <2>3, <2>4, FormKept, ServerKept DEF Register
  <1>2. CASE SendBytes(p)
    <2>1. cur[p] \in Atts /\ Send(p, "put")
      BY <1>2 DEF SendBytes, Engaged
    <2>2. CallsTyped' /\ \A q \in calls' : NamesPhoto(q)
      BY <2>1, SendTyped
    <2>4. RunsTyped' /\ \A o \in Flows : Engaged(o)'
      BY <1>2 DEF SendBytes, Send, RunsTyped, Engaged, PCs
    <2> QED
      BY <1>2, <2>2, <2>4, FormKept, DeviceKept, ServerKept DEF SendBytes
  <1>3. CASE PushFeature(p)
    <2>1. Send(p, "push")
      BY <1>3 DEF PushFeature
    <2>2. CallsTyped' /\ \A q \in calls' : NamesPhoto(q)
      BY <2>1, SendTyped
    <2>4. RunsTyped' /\ \A o \in Flows : Engaged(o)'
      BY <1>3 DEF PushFeature, Send, RunsTyped, Engaged, PCs
    <2> QED
      BY <1>3, <2>2, <2>4, FormKept, DeviceKept, ServerKept DEF PushFeature
  <1>4. CASE \E s \in {"pending", "failed"} : CallFailed(p, s)
    <2>1. PICK s \in {"pending", "failed"} : CallFailed(p, s)
      BY <1>4
    <2>2. CallsTyped' /\ \A q \in calls' : NamesPhoto(q)
      BY <2>1, UnansweredTyped DEF CallFailed
    <2>3. DeviceTyped'
      BY <2>1, StatusTyped DEF CallFailed, DevStatuses
    <2>4. RunsTyped' /\ \A o \in Flows : Engaged(o)'
      BY <2>1 DEF CallFailed, RunsTyped, Engaged, PCs
    <2> QED
      BY <2>1, <2>2, <2>3, <2>4, FormKept, ServerKept DEF CallFailed
  <1> QED
    BY <1>1, <1>2, <1>3, <1>4

(* A call that is handled goes away, and may make its run call again. *)
LEMMA CallsLess ==
  ASSUME CallsTyped, \A q \in calls : NamesPhoto(q), calls' \subseteq calls
  PROVE  CallsTyped' /\ \A q \in calls' : NamesPhoto(q)
  BY DEF CallsTyped

LEMMA AnswerTyped ==
  ASSUME TypeInv, NEW q \in calls, q.kind # "push", NEW s \in DevStatuses,
         NEW l \in PCs \ {"idle"}, Answer(q, s, l),
         UNCHANGED <<synced, todo, cur, attempt, paths, ids, allOk>>,
         q.live => cur[q.flow] \in Atts
  PROVE  DeviceTyped' /\ RunsTyped' /\ \A p \in Flows : Engaged(p)'
  <1> USE DEF TypeInv
  <1>1. q.flow \in Flows
    BY DEF CallsTyped, Calls
  <1>2. DeviceTyped'
    BY StatusTyped, DeviceKept DEF Answer
  <1>3. pc' \in [Flows -> PCs]
    BY <1>1 DEF Answer, RunsTyped
  <1>4. RunsTyped'
    BY <1>3 DEF RunsTyped
  <1>5. ASSUME NEW p \in Flows
        PROVE  Engaged(p)'
    BY <1>1 DEF Answer, RunsTyped, Engaged
  <1> QED
    BY <1>2, <1>4, <1>5

LEMMA TypePhotoServed ==
  ASSUME TypeInv, CallsAwaited, NEW q \in calls, Create(q) \/ Put(q) \/ Stat(q) \/ Confirm(q)
  PROVE  TypeInv'
  <1> USE DEF TypeInv
  <1>0. q \in Calls /\ q.flow \in Flows
    BY DEF CallsTyped, Calls
  <1>1. q.kind # "push" => q.att \in Atts
    BY DEF NamesPhoto
  <1>2. q.kind # "push" /\ q.live => cur[q.flow] \in Atts
    BY <1>1 DEF CallsAwaited
  <1>3. CASE Create(q)
    <2>1. \/ Answer(q, "pending", "failed") \/ Answer(q, "uploading", "bytes")
      BY <1>3 DEF Create
    <2>2. DeviceTyped' /\ RunsTyped' /\ \A p \in Flows : Engaged(p)'
      BY <1>2, <1>3, <2>1, AnswerTyped DEF Create, DevStatuses, PCs
    <2>3. ServerTyped'
      BY <1>1, <1>3 DEF Create, ServerTyped, SrvStatuses
    <2>4. CallsTyped' /\ \A r \in calls' : NamesPhoto(r)
      BY <1>3, CallsLess DEF Create
    <2> QED
      BY <1>3, <2>2, <2>3, <2>4, FormKept DEF Create
  <1>4. CASE Put(q)
    <2>1. Answer(q, "uploaded", "confirm")
      BY <1>4 DEF Put
    <2>2. DeviceTyped' /\ RunsTyped' /\ \A p \in Flows : Engaged(p)'
      BY <1>2, <1>4, <2>1, AnswerTyped DEF Put, DevStatuses, PCs
    <2>3. ServerTyped'
      BY <1>0, <1>1, <1>4 DEF Put, ServerTyped, Calls
    <2>4. q.live => Call(q.flow, "confirm") \in Calls /\ NamesPhoto(Call(q.flow, "confirm"))
      BY <1>0, <1>2, <1>4, CallTyped DEF Put
    <2>5. calls' = (calls \ {q}) \union (IF q.live THEN {Call(q.flow, "confirm")} ELSE {})
      BY <1>4 DEF Put
    <2>6. CallsTyped' /\ \A r \in calls' : NamesPhoto(r)
      BY <2>4, <2>5 DEF CallsTyped
    <2> QED
      BY <1>4, <2>2, <2>3, <2>6, FormKept DEF Put
  <1>5. CASE Stat(q)
    <2>1. PICK s \in {"yes", "no"} : calls' = (calls \ {q}) \union {[q EXCEPT !.seen = s]}
      BY <1>5 DEF Stat
    <2>2. [q EXCEPT !.seen = s] \in Calls /\ NamesPhoto([q EXCEPT !.seen = s])
      BY <1>0 DEF Calls, NamesPhoto
    <2>3. CallsTyped' /\ \A r \in calls' : NamesPhoto(r)
      BY <2>1, <2>2 DEF CallsTyped
    <2> QED
      BY <1>5, <2>3, FormKept, DeviceKept, RunsKept, ServerKept DEF Stat
  <1>6. CASE Confirm(q)
    <2>1. Answer(q, "confirmed", "row") \/ Answer(q, "failed", "failed")
      BY <1>6 DEF Confirm
    <2>2. DeviceTyped' /\ RunsTyped' /\ \A p \in Flows : Engaged(p)'
      BY <1>2, <1>6, <2>1, AnswerTyped DEF Confirm, DevStatuses, PCs
    <2>3. ServerTyped'
      BY <1>1, <1>6 DEF Confirm, ServerTyped, SrvStatuses
    <2>4. CallsTyped' /\ \A r \in calls' : NamesPhoto(r)
      BY <1>6, CallsLess DEF Confirm
    <2> QED
      BY <1>6, <2>2, <2>3, <2>4, FormKept DEF Confirm
  <1> QED
    BY <1>3, <1>4, <1>5, <1>6

LEMMA TypePushServed ==
  ASSUME TypeInv, NEW q \in calls, Store(q) \/ Link(q) \/ AcceptUnlinked(q) \/ Abandon(q)
  PROVE  TypeInv'
  <1> USE DEF TypeInv
  <1>0. q \in Calls /\ q.flow \in Flows
    BY DEF CallsTyped, Calls
  <1>1. CASE Store(q)
    <2>1. calls' = (calls \ {q}) \union {[q EXCEPT !.seen = "yes"]}
      BY <1>1 DEF Store
    <2>2. [q EXCEPT !.seen = "yes"] \in Calls /\ NamesPhoto([q EXCEPT !.seen = "yes"])
      BY <1>0 DEF Calls, NamesPhoto
    <2>3. CallsTyped' /\ \A r \in calls' : NamesPhoto(r)
      BY <2>1, <2>2 DEF CallsTyped
    <2>4. ServerTyped'
      BY <1>1 DEF Store, ServerTyped
    <2> QED
      BY <1>1, <2>3, <2>4, FormKept, DeviceKept, RunsKept DEF Store
  <1>2. CASE Link(q) \/ AcceptUnlinked(q)
    <2>1. Accepted(q) /\ UNCHANGED <<formVars, dev, todo, cur, attempt, paths, ids, allOk, srv,
                                     obj, feat, crashes>>
      BY <1>2 DEF Link, AcceptUnlinked
    <2>2. DeviceTyped'
      BY <2>1 DEF Accepted, DeviceTyped
    <2>3. RunsTyped' /\ \A p \in Flows : Engaged(p)'
      BY <1>0, <2>1 DEF Accepted, RunsTyped, Engaged, PCs
    <2>4. ServerTyped'
      BY <1>0, <1>2 DEF Link, AcceptUnlinked, ServerTyped, Calls
    <2>5. CallsTyped' /\ \A r \in calls' : NamesPhoto(r)
      BY <2>1, CallsLess DEF Accepted
    <2> QED
      BY <2>1, <2>2, <2>3, <2>4, <2>5, FormKept
  <1>3. CASE Abandon(q)
    BY <1>3, CallsLess, FormKept, DeviceKept, RunsKept, ServerKept DEF Abandon
  <1> QED
    BY <1>1, <1>2, <1>3

LEMMA TypeCrash ==
  ASSUME TypeInv, Crash
  PROVE  TypeInv'
  <1> USE DEF TypeInv
  <1>1. RunsTyped' /\ \A p \in Flows : Engaged(p)'
    BY DEF Crash, RunsTyped, Engaged, PCs
  <1>2. PICK kept \in SUBSET calls : calls' = {[q EXCEPT !.live = FALSE] : q \in kept}
    BY DEF Crash
  <1>3. CallsTyped' /\ \A r \in calls' : NamesPhoto(r)
    BY <1>2, DeafTyped DEF CallsTyped
  <1>4. crashes' \in Nat
    BY DEF Crash
  <1> QED
    BY <1>1, <1>3, <1>4, FormKept, DeviceKept, ServerKept DEF Crash

------------------------------------------------------------------------------
(* The calls that runs await. *)

(* Run p goes on with the call r, or with none. *)
LEMMA AwaitedMoves ==
  ASSUME CallsAwaited, NEW p \in Flows,
         \A q \in calls' : q.live => (q \in calls /\ q.flow # p)
                                       \/ (pc'[p] = q.kind /\ q.flow = p
                                             /\ (q.kind # "push" => q.att = cur'[p])),
         \A q, r \in calls' : q.live /\ r.live /\ q.flow = p /\ r.flow = p => q = r,
         \A o \in Flows \ {p} : pc'[o] = pc[o] /\ cur'[o] = cur[o],
         CallsTyped'
  PROVE  CallsAwaited'
  <1>1. ASSUME NEW q \in calls', q.live
        PROVE  pc'[q.flow] = q.kind /\ (q.kind # "push" => q.att = cur'[q.flow])
    <2>1. q.flow \in Flows
      BY DEF CallsTyped, Calls
    <2> QED
      BY <1>1, <2>1 DEF CallsAwaited
  <1>2. ASSUME NEW q \in calls', NEW r \in calls', q.live, r.live, q.flow = r.flow
        PROVE  q = r
    BY <1>2 DEF CallsAwaited
  <1> QED
    BY <1>1, <1>2 DEF CallsAwaited

LEMMA AwaitedKept ==
  ASSUME CallsAwaited, UNCHANGED <<calls, pc, cur>>
  PROVE  CallsAwaited'
  BY DEF CallsAwaited

(* A run whose call was sent, or is over. *)
LEMMA AwaitedRunStep ==
  ASSUME TypeInv, TypeInv', CallsAwaited, NEW p \in Flows, StartRun(p) \/ RunStep(p)
  PROVE  CallsAwaited'
  <1> USE DEF TypeInv
  <1>1. \A o \in Flows \ {p} : pc'[o] = pc[o] /\ cur'[o] = cur[o]
    BY DEF RunsTyped, StartRun, RunStep, NextPhoto, Register, SendBytes, FileMissing, Decide,
       PushFeature, GiveUp, CallFailed, Send
  <1>2. CASE pc[p] \notin {"create", "put", "confirm", "push"}
    <2>1. \A q \in calls : q.live => q.flow # p
      <3>1. \A q \in calls : q.kind \in {"create", "put", "confirm", "push"}
        BY DEF CallsTyped, Calls
      <3> QED
        BY <1>2, <3>1 DEF CallsAwaited
    <2>2. CASE UNCHANGED calls
      BY <1>1, <2>1, <2>2, AwaitedMoves
    <2>3. CASE \E what \in {"create", "put", "push"} :
                 Send(p, what) /\ (what # "push" => Engaged(p) /\ cur[p] \in Atts) /\ UNCHANGED cur
      <3>1. PICK what \in {"create", "put", "push"} :
                 Send(p, what) /\ (what # "push" => cur[p] \in Atts) /\ UNCHANGED cur
        BY <2>3
      <3>2. calls' = calls \union {Call(p, what)} /\ pc'[p] = what
        BY <3>1 DEF Send, RunsTyped
      <3>3. /\ Call(p, what).flow = p /\ Call(p, what).kind = what
            /\ what # "push" => Call(p, what).att = cur[p]
        BY DEF Call
      <3> QED
        BY <1>1, <2>1, <3>1, <3>2, <3>3, AwaitedMoves
    <2> QED
      BY <1>2, <2>2, <2>3 DEF StartRun, RunStep, NextPhoto, Register, SendBytes, FileMissing,
         Decide, PushFeature, GiveUp, CallFailed, Engaged
  <1>3. CASE pc[p] \in {"create", "put", "confirm", "push"}
    <2>1. Unanswered(p)
      BY <1>3 DEF StartRun, RunStep, NextPhoto, Register, SendBytes, FileMissing,
         Decide, PushFeature, GiveUp, CallFailed
    <2>2. \A q \in calls' : q.live => q \in calls /\ q.flow # p
      <3>1. \A q \in AwaitedBy(p) : ~[q EXCEPT !.live = FALSE].live
        BY DeafTyped DEF CallsTyped, AwaitedBy
      <3>2. \A q \in calls \ AwaitedBy(p) : q.live => q.flow # p
        BY DEF AwaitedBy
      <3>3. \A q \in calls' : \/ q \in calls \ AwaitedBy(p)
                             \/ \E r \in AwaitedBy(p) : q = [r EXCEPT !.live = FALSE]
        BY <2>1 DEF Unanswered
      <3> QED
        BY <3>1, <3>2, <3>3
    <2> QED
      BY <1>1, <2>2, AwaitedMoves
  <1> QED
    BY <1>2, <1>3

(* The run whose live call q was handled goes on without a call. *)
LEMMA AwaitedAnswered ==
  ASSUME TypeInv, CallsTyped', CallsAwaited, NEW q \in calls, calls' \subseteq calls \ {q},
         UNCHANGED cur,
         IF q.live THEN \A o \in Flows \ {q.flow} : pc'[o] = pc[o] ELSE UNCHANGED pc
  PROVE  CallsAwaited'
  <1>1. \A r \in calls : r.flow \in Flows
    BY DEF TypeInv, CallsTyped, Calls
  <1>2. \A r \in calls' : r.live /\ q.live => r.flow # q.flow
    BY DEF CallsAwaited
  <1> QED
    BY <1>1, <1>2 DEF CallsAwaited

(* Call q goes on as r, which p awaits if it awaited q. *)
LEMMA AwaitedReplaced ==
  ASSUME TypeInv, CallsTyped', CallsAwaited, NEW q \in calls, NEW r,
         calls' = (calls \ {q}) \union {r},
         r.live = q.live, r.flow = q.flow,
         r.live => pc'[r.flow] = r.kind /\ (r.kind # "push" => r.att = cur[r.flow]),
         UNCHANGED cur,
         IF q.live THEN \A o \in Flows \ {q.flow} : pc'[o] = pc[o] ELSE UNCHANGED pc
  PROVE  CallsAwaited'
  <1>1. \A x \in calls : x.flow \in Flows
    BY DEF TypeInv, CallsTyped, Calls
  <1>2. \A x \in calls \ {q} : x.live /\ q.live => x.flow # q.flow
    BY DEF CallsAwaited
  <1>3. ASSUME NEW x \in calls', x.live
        PROVE  pc'[x.flow] = x.kind /\ (x.kind # "push" => x.att = cur'[x.flow])
    <2>1. CASE x = r
      BY <1>3, <2>1
    <2>2. CASE x \in calls \ {q}
      BY <1>1, <1>2, <1>3, <2>2 DEF CallsAwaited
    <2> QED
      BY <2>1, <2>2
  <1>4. ASSUME NEW x \in calls', NEW y \in calls', x.live, y.live, x.flow = y.flow
        PROVE  x = y
    BY <1>2, <1>4 DEF CallsAwaited
  <1> QED
    BY <1>3, <1>4 DEF CallsAwaited

LEMMA AwaitedServerStep ==
  ASSUME TypeInv, TypeInv', CallsAwaited, NEW q \in calls, ServerStep(q)
  PROVE  CallsAwaited'
  <1>0. q \in Calls /\ q.flow \in Flows /\ CallsTyped' /\ pc \in [Flows -> PCs]
    BY DEF TypeInv, CallsTyped, Calls, RunsTyped
  <1>1. CASE Create(q) \/ Confirm(q)
    <2>1. \E st, l : Answer(q, st, l)
      BY <1>1 DEF Create, Confirm
    <2>2. calls' \subseteq calls \ {q} /\ UNCHANGED cur
      BY <1>1 DEF Create, Confirm
    <2> QED
      BY <1>0, <2>1, <2>2, AwaitedAnswered DEF Answer
  <1>2. CASE Link(q) \/ AcceptUnlinked(q)
    <2>1. Accepted(q) /\ UNCHANGED cur
      BY <1>2 DEF Link, AcceptUnlinked
    <2> QED
      BY <1>0, <2>1, AwaitedAnswered DEF Accepted
  <1>3. CASE Abandon(q)
    BY <1>0, <1>3, AwaitedAnswered DEF Abandon
  <1>4. CASE Put(q)
    <2>1. /\ Answer(q, "uploaded", "confirm") /\ UNCHANGED cur
          /\ calls' = (calls \ {q}) \union (IF q.live THEN {Call(q.flow, "confirm")} ELSE {})
          /\ q.kind = "put"
      BY <1>4 DEF Put
    <2>2. CASE ~q.live
      BY <1>0, <2>1, <2>2, AwaitedAnswered DEF Answer
    <2>3. CASE q.live
      <3>1. pc' = [pc EXCEPT ![q.flow] = "confirm"]
        BY <2>1, <2>3 DEF Answer
      <3>2. LET r == Call(q.flow, "confirm") IN
              r.live = q.live /\ r.flow = q.flow /\ r.kind = "confirm" /\ r.att = cur[q.flow]
        BY <2>3 DEF Call
      <3>3. calls' = (calls \ {q}) \union {Call(q.flow, "confirm")}
        BY <2>1, <2>3
      <3> QED
        BY <1>0, <2>1, <2>3, <3>1, <3>2, <3>3, AwaitedReplaced
    <2> QED
      BY <2>2, <2>3
  <1>5. CASE Stat(q) \/ Store(q)
    <2>1. PICK sn \in {"yes", "no"} : calls' = (calls \ {q}) \union {[q EXCEPT !.seen = sn]}
      BY <1>5 DEF Stat, Store
    <2>2. LET r == [q EXCEPT !.seen = sn] IN
            r.live = q.live /\ r.flow = q.flow /\ r.kind = q.kind /\ r.att = q.att
      BY <1>0 DEF Calls
    <2>3. UNCHANGED <<pc, cur>>
      BY <1>5 DEF Stat, Store
    <2>4. q.live => pc[q.flow] = q.kind /\ (q.kind # "push" => q.att = cur[q.flow])
      BY DEF CallsAwaited
    <2> QED
      BY <1>0, <2>1, <2>2, <2>3, <2>4, AwaitedReplaced
  <1> QED
    BY <1>1, <1>2, <1>3, <1>4, <1>5 DEF ServerStep

(* What is left of the calls when a run, or all of them, stop listening. *)
LEMMA CrashCalls ==
  ASSUME TypeInv, Crash
  PROVE  \A q \in calls' : ~q.live /\ \E r \in calls : q = [r EXCEPT !.live = FALSE]
  <1>1. PICK kept \in SUBSET calls : calls' = {[q EXCEPT !.live = FALSE] : q \in kept}
    BY DEF Crash
  <1> QED
    BY <1>1, DeafTyped DEF TypeInv, CallsTyped

LEMMA AwaitedStep ==
  ASSUME TypeInv, TypeInv', CallsAwaited, [Next]_vars
  PROVE  CallsAwaited'
  <1>1. CASE Crash
    BY <1>1, CrashCalls DEF CallsAwaited
  <1>2. CASE UserStep \/ Recover \/ UNCHANGED vars
    <2>1. UNCHANGED <<calls, pc, cur>>
      BY <1>2 DEF UserStep, Recover, Submit, TakePhoto, RemovePhoto, vars
    <2> QED
      BY <2>1, AwaitedKept
  <1> QED
    BY <1>1, <1>2, AwaitedRunStep, AwaitedServerStep DEF Next

LEMMA TypeStep ==
  ASSUME TypeInv, CallsAwaited, [Next]_vars
  PROVE  TypeInv'
  <1>1. CASE UNCHANGED vars
    BY <1>1, FormKept, DeviceKept, RunsKept, CallsKept, ServerKept DEF TypeInv, vars
  <1>2. CASE Recover
    <2>1. DeviceTyped'
      BY <1>2 DEF Recover, TypeInv, DeviceTyped
    <2> QED
      BY <1>2, <2>1, FormKept, RunsKept, CallsKept, ServerKept DEF TypeInv, Recover
  <1>3. ASSUME NEW p \in Flows, StartRun(p) \/ RunStep(p)
        PROVE  TypeInv'
    BY <1>3, TypeLocalStep, TypeCallStep DEF RunStep
  <1>4. ASSUME NEW q \in calls, ServerStep(q)
        PROVE  TypeInv'
    BY <1>4, TypePhotoServed, TypePushServed DEF ServerStep
  <1> QED
    BY <1>1, <1>2, <1>3, <1>4, TypeUserStep, TypeCrash DEF Next

(* Every variable keeps its type, and no photo is attempted more than      *)
(* MaxAttempts times in a run.                                             *)
THEOREM TypeCorrect == Spec => []TypeOK
  <1>1. Init => TypeInv /\ CallsAwaited
    BY TypeInitial DEF Init, CallsAwaited
  <1>2. TypeInv /\ CallsAwaited /\ [Next]_vars => TypeInv' /\ CallsAwaited'
    BY TypeStep, AwaitedStep
  <1> QED
    BY <1>1, <1>2, TypeInvIsTyped, PTL DEF Spec

------------------------------------------------------------------------------
(* The bytes come first.  A run pushes a capture once it has seen each of  *)
(* its photos confirmed, in its own run or before it; a confirmation is    *)
(* given for bytes that are stored, and stored bytes are only replaced.    *)

(* Until the feature is submitted nothing is under way. *)
NotBegun == ~submitted => ~feat /\ calls = {} /\ \A p \in Flows : pc[p] = "idle"

(* A row has a photo, and a submitted capture keeps its rows. *)
RowsHavePhotos ==
  /\ \A a \in Atts : HasRow(a) => photo[a] # 0
  /\ kind = "capture" /\ submitted => \A a \in markers : HasRow(a)

Stored(as) == \A a \in as : obj[a] # 0

ConfirmedStored == \A a \in Atts : dev[a] = "confirmed" => obj[a] # 0

(* A call carries a photo, confirms one that is stored, or pushes the      *)
(* feature after its photos.                                               *)
CallHonest(q) ==
  /\ q.kind = "put" => q.photo # 0
  /\ q.kind = "confirm" /\ q.seen = "yes" => obj[q.att] # 0
  /\ q.kind = "push" /\ kind = "capture" => Stored(markers)

CallsHonest == \A q \in calls : CallHonest(q)

(* What a run has behind it is stored, unless it has failed at one photo.  *)
AtWork(p) == pc[p] \in {"begin", "create", "bytes", "put", "confirm", "failed"}

Ahead(p) == todo[p] \union (IF AtWork(p) THEN {cur[p]} ELSE {})

RunHonest(p) ==
  pc[p] # "idle" /\ allOk[p] /\ kind = "capture" => Stored(markers \ Ahead(p))

PhotosInv ==
  /\ NotBegun /\ RowsHavePhotos /\ ConfirmedStored /\ CallsHonest
  /\ \A p \in Flows : RunHonest(p)
  /\ PhotosFirst

LEMMA PhotosInitial == Init => PhotosInv
  BY DEF Init, PhotosInv, NotBegun, RowsHavePhotos, ConfirmedStored, CallsHonest, RunHonest,
     PhotosFirst, HasRow, NoPhotos

LEMMA PhotosUserStep ==
  ASSUME TypeInv, PhotosInv, UserStep
  PROVE  PhotosInv'
  <1> USE DEF PhotosInv
  <1>1. CASE Submit
    <2>1. kind = "capture" => ~submitted
      BY <1>1 DEF Submit, Open
    <2>2. NotBegun' /\ ConfirmedStored'
      BY <1>1 DEF Submit, NotBegun, ConfirmedStored
    <2>3. RowsHavePhotos'
      BY <1>1 DEF Submit, RowsHavePhotos, HasRow
    <2>4. CallsHonest' /\ (\A p \in Flows : RunHonest(p)') /\ PhotosFirst'
      BY <1>1, <2>1 DEF Submit, CallsHonest, CallHonest, RunHonest, PhotosFirst, NotBegun,
         Stored, Ahead, AtWork
    <2> QED
      BY <2>2, <2>3, <2>4
  <1>2. CASE \E a \in Atts : TakePhoto(a) \/ RemovePhoto(a)
    <2>1. PICK a \in Atts : TakePhoto(a) \/ RemovePhoto(a)
      BY <1>2
    <2>2. /\ UNCHANGED <<markers, submitted, kind, runVars, calls, serverVars>>
          /\ kind = "capture" => ~submitted
      BY <2>1 DEF TakePhoto, RemovePhoto, Open
    <2>3. /\ \A b \in Atts \ {a} : dev'[b] = dev[b] /\ photo'[b] = photo[b]
          /\ dev'[a] \in {"pending", "removed"}
          /\ dev'[a] = "pending" => photo'[a] # 0
      BY <2>1 DEF TakePhoto, RemovePhoto, TypeInv, FormTyped, DeviceTyped
    <2>4. RowsHavePhotos'
      BY <2>2, <2>3 DEF RowsHavePhotos, HasRow
    <2>5. ConfirmedStored'
      BY <2>2, <2>3 DEF ConfirmedStored
    <2>6. NotBegun' /\ CallsHonest' /\ (\A p \in Flows : RunHonest(p)') /\ PhotosFirst'
      BY <2>2 DEF CallsHonest, CallHonest, RunHonest, PhotosFirst, NotBegun, Stored, Ahead,
         AtWork
    <2> QED
      BY <2>4, <2>5, <2>6
  <1> QED
    BY <1>1, <1>2 DEF UserStep

(* Stored bytes are only replaced. *)
BytesKept == \A a \in Atts : obj[a] # 0 => obj'[a] # 0

Same(q, r) == q.kind = r.kind /\ q.photo = r.photo /\ q.att = r.att /\ q.seen = r.seen

LEMMA RunKept ==
  ASSUME TypeInv, BytesKept, UNCHANGED <<markers, kind>>, NEW p \in Flows, RunHonest(p),
         pc'[p] = pc[p], allOk'[p] = allOk[p], todo'[p] = todo[p], cur'[p] = cur[p]
  PROVE  RunHonest(p)'
  BY DEF TypeInv, FormTyped, BytesKept, RunHonest, Stored, Ahead, AtWork

LEMMA HonestKept ==
  ASSUME TypeInv, BytesKept, UNCHANGED <<markers, kind>>, NEW q \in calls, CallHonest(q),
         NEW r, Same(r, q)
  PROVE  CallHonest(r)'
  BY DEF TypeInv, FormTyped, NamesPhoto, BytesKept, CallHonest, Stored, Same

(* A step after the feature was submitted that is not of its collector. *)
LEMMA PhotosStep ==
  ASSUME TypeInv, PhotosInv, submitted, UNCHANGED formVars, BytesKept,
         \A a \in Atts : HasRow(a)' <=> HasRow(a),
         \A a \in Atts : dev'[a] = "confirmed" => dev[a] = "confirmed" \/ obj'[a] # 0,
         \A q \in calls' : (\E r \in calls : Same(q, r)) \/ CallHonest(q)',
         \A p \in Flows : RunHonest(p)',
         feat' = feat \/ (kind = "capture" => Stored(markers))
  PROVE  PhotosInv'
  <1> USE DEF PhotosInv
  <1>1. NotBegun'
    BY DEF NotBegun
  <1>2. RowsHavePhotos'
    <2>1. markers \subseteq Atts
      BY DEF TypeInv, FormTyped
    <2>2. \A a \in Atts : HasRow(a)' => photo'[a] # 0
      BY DEF RowsHavePhotos
    <2>3. kind' = "capture" /\ submitted' => \A a \in markers' : HasRow(a)'
      BY <2>1 DEF RowsHavePhotos
    <2> QED
      BY <2>2, <2>3 DEF RowsHavePhotos
  <1>3. ConfirmedStored'
    BY DEF ConfirmedStored, BytesKept
  <1>4. CallsHonest'
    BY HonestKept DEF CallsHonest
  <1>5. PhotosFirst'
    BY DEF PhotosFirst, Stored, BytesKept, TypeInv, FormTyped
  <1> QED
    BY <1>1, <1>2, <1>3, <1>4, <1>5

(* What SetStatus leaves, for a status that a row may have. *)
LEMMA RowsKept ==
  ASSUME TypeInv, NEW a \in Atts,
         NEW s \in {"pending", "uploading", "uploaded", "confirmed", "failed"},
         SetStatus(a, s)
  PROVE  /\ \A b \in Atts : HasRow(b)' <=> HasRow(b)
         /\ \A b \in Atts :
              dev'[b] = "confirmed" => dev[b] = "confirmed" \/ (b = a /\ s = "confirmed")
  BY DEF TypeInv, DeviceTyped, SetStatus, HasRow

LEMMA DevKept ==
  ASSUME UNCHANGED dev
  PROVE  /\ \A b \in Atts : HasRow(b)' <=> HasRow(b)
         /\ \A b \in Atts : dev'[b] = "confirmed" => dev[b] = "confirmed"
  BY DEF HasRow

LEMMA UnansweredSame ==
  ASSUME TypeInv, NEW p \in Flows, Unanswered(p)
  PROVE  \A q \in calls' : \E r \in calls : Same(q, r)
  <1>1. \A r \in calls : Same([r EXCEPT !.live = FALSE], r)
    BY DeafTyped DEF TypeInv, CallsTyped, Same
  <1>2. \A q \in calls' : q \in calls \/ \E r \in calls : q = [r EXCEPT !.live = FALSE]
    BY DEF Unanswered, AwaitedBy
  <1>3. \A r \in calls : Same(r, r)
    BY DEF Same
  <1> QED
    BY <1>1, <1>2, <1>3

LEMMA PhotosRunStep ==
  ASSUME TypeInv, PhotosInv, NEW p \in Flows, StartRun(p) \/ RunStep(p)
  PROVE  PhotosInv'
  <1> USE DEF PhotosInv
  <1>1. /\ UNCHANGED <<formVars, serverVars>> /\ BytesKept /\ feat' = feat
        /\ \A o \in Flows \ {p} : /\ pc'[o] = pc[o] /\ allOk'[o] = allOk[o]
                                  /\ todo'[o] = todo[o] /\ cur'[o] = cur[o]
    BY DEF TypeInv, RunsTyped, StartRun, RunStep, NextPhoto, Register, SendBytes, FileMissing,
       Decide, PushFeature, GiveUp, CallFailed, Send, BytesKept
  <1>2. submitted
    BY DEF NotBegun, StartRun, RunStep, NextPhoto, Register, SendBytes, FileMissing, Decide,
       PushFeature, GiveUp, CallFailed
  <1>3. \A o \in Flows \ {p} : RunHonest(o)'
    BY <1>1, RunKept
  <1>4. cur[p] \in Atts \/ pc[p] \in {"idle", "row", "push"}
    BY DEF TypeInv, RunsTyped, Engaged, PCs
  <1>5. ASSUME RunHonest(p)',
               \A q \in calls' : (\E r \in calls : Same(q, r)) \/ CallHonest(q)',
               UNCHANGED dev \/ \E a \in Atts, s \in {"pending", "uploading", "failed"} :
                                  SetStatus(a, s)
        PROVE  PhotosInv'
    <2>1. RunHonest(p)' /\ \A o \in Flows : RunHonest(o)'
      BY <1>3, <1>5
    <2>2. /\ \A b \in Atts : HasRow(b)' <=> HasRow(b)
          /\ \A b \in Atts : dev'[b] = "confirmed" => dev[b] = "confirmed"
      BY <1>5, DevKept, RowsKept
    <2> QED
      BY <1>1, <1>2, <1>5, <2>1, <2>2, PhotosStep
  <1>6. ASSUME UNCHANGED calls
        PROVE  \A q \in calls' : \E r \in calls : Same(q, r)
    BY <1>6 DEF Same
  <1>7. CASE StartRun(p)
    <2>1. UNCHANGED <<calls, dev>>
      BY <1>7 DEF StartRun
    <2>2. kind = "capture" => Stored(markers \ todo'[p])
      BY <1>1, <1>2, <1>7 DEF StartRun, TypeInv, FormTyped, RunsTyped, RowsHavePhotos,
         ConfirmedStored, Stored
    <2>3. RunHonest(p)'
      BY <1>1, <2>2 DEF RunHonest, Stored, Ahead
    <2> QED
      BY <2>1, <2>3, <1>5, <1>6
  <1>8. CASE NextPhoto(p)
    <2>1. UNCHANGED <<calls, dev, allOk>>
      BY <1>8 DEF NextPhoto
    <2>2. Ahead(p)' = Ahead(p)
      BY <1>8 DEF NextPhoto, Ahead, AtWork, TypeInv, RunsTyped
    <2>3. RunHonest(p)'
      BY <1>1, <1>8, <2>1, <2>2 DEF NextPhoto, RunHonest, Stored
    <2> QED
      BY <2>1, <2>3, <1>5, <1>6
  <1>9. CASE Register(p) \/ SendBytes(p)
    <2>1. cur[p] \in Atts
      BY <1>4, <1>9 DEF Register, SendBytes
    <2>2. UNCHANGED <<allOk, todo, cur>>
      BY <1>9 DEF Register, SendBytes
    <2>3. Ahead(p)' = Ahead(p)
      BY <1>9, <2>2 DEF Register, SendBytes, Send, Ahead, AtWork, TypeInv, RunsTyped
    <2>4. RunHonest(p)'
      BY <1>1, <1>9, <2>2, <2>3 DEF Register, SendBytes, RunHonest, Stored
    <2>5. PICK what \in {"create", "put"} :
            Send(p, what) /\ (what = "put" => FileThere(p, cur[p]))
      BY <1>9 DEF Register, SendBytes
    <2>6. what = "put" => paths[p][cur[p]] # 0
      BY <2>1, <2>5 DEF FileThere, RowsHavePhotos
    <2>7. \A q : q = Call(p, what) => CallHonest(q)'
      <3>1. /\ Call(p, what).kind = what /\ Call(p, what).seen = "not yet"
            /\ what = "put" => Call(p, what).photo = paths[p][cur[p]]
        BY DEF Call
      <3> QED
        BY <2>6, <3>1 DEF CallHonest
    <2>8. \A q \in calls' : q \in calls \/ q = Call(p, what)
      BY <2>5 DEF Send
    <2>9. UNCHANGED dev \/ SetStatus(cur[p], "uploading")
      BY <1>9 DEF Register, SendBytes
    <2>10. \A q \in calls' : (\E r \in calls : Same(q, r)) \/ CallHonest(q)'
      <3>1. \A q \in calls : Same(q, q)
        BY DEF Same
      <3> QED
        BY <2>7, <2>8, <3>1
    <2> QED
      BY <2>1, <2>4, <2>9, <2>10, <1>5
  <1>10. CASE PushFeature(p)
    <2>1. UNCHANGED <<dev, allOk, todo, cur>> /\ Send(p, "push") /\ pc[p] = "row"
          /\ todo[p] = {} /\ allOk[p]
      BY <1>10 DEF PushFeature
    <2>2. Ahead(p) = {} /\ Ahead(p)' = {}
      BY <1>10, <2>1 DEF Send, Ahead, AtWork, TypeInv, RunsTyped
    <2>3. kind = "capture" => Stored(markers)
      BY <2>1, <2>2 DEF RunHonest, Stored
    <2>4. RunHonest(p)'
      BY <1>1, <2>2, <2>3 DEF RunHonest, Stored
    <2>5. \A q : q = Call(p, "push") => CallHonest(q)'
      <3>1. Call(p, "push").kind = "push"
        BY DEF Call
      <3>2. kind' = "capture" => Stored(markers)'
        BY <1>1, <2>3 DEF Stored
      <3> QED
        BY <3>1, <3>2 DEF CallHonest
    <2>6. \A q \in calls' : (\E r \in calls : Same(q, r)) \/ CallHonest(q)'
      <3>1. \A q \in calls : Same(q, q)
        BY DEF Same
      <3> QED
        BY <2>1, <2>5, <3>1 DEF Send
    <2> QED
      BY <2>1, <2>4, <2>6, <1>5
  <1>11. CASE FileMissing(p) \/ Decide(p)
    <2>1. /\ UNCHANGED <<calls, todo, cur>> /\ cur[p] \in Atts
          /\ UNCHANGED dev \/ SetStatus(cur[p], "failed")
      BY <1>4, <1>11 DEF FileMissing, Decide
    <2>2. allOk'[p] => allOk[p] /\ Ahead(p)' = Ahead(p)
      BY <1>11, <2>1 DEF FileMissing, Decide, Ahead, AtWork, TypeInv, RunsTyped
    <2>3. RunHonest(p)'
      BY <1>1, <1>11, <2>2 DEF FileMissing, Decide, RunHonest, Stored
    <2> QED
      BY <2>1, <2>3, <1>5, <1>6
  <1>12. CASE \E s \in {"pending", "failed"} : CallFailed(p, s)
    <2>1. PICK s \in {"pending", "failed"} : CallFailed(p, s)
      BY <1>12
    <2>2. /\ UNCHANGED <<todo, cur, allOk>> /\ cur[p] \in Atts
          /\ SetStatus(cur[p], s) /\ Unanswered(p)
      BY <1>4, <2>1 DEF CallFailed
    <2>3. Ahead(p)' = Ahead(p)
      BY <2>1, <2>2 DEF CallFailed, Ahead, AtWork, TypeInv, RunsTyped
    <2>4. RunHonest(p)'
      BY <1>1, <2>1, <2>2, <2>3 DEF CallFailed, RunHonest, Stored
    <2> QED
      BY <2>2, <2>4, <1>5, UnansweredSame
  <1>13. CASE GiveUp(p)
    <2>1. UNCHANGED dev /\ pc'[p] = "idle" /\ (UNCHANGED calls \/ Unanswered(p))
      BY <1>13 DEF GiveUp, TypeInv, RunsTyped
    <2>2. RunHonest(p)'
      BY <2>1 DEF RunHonest
    <2> QED
      BY <2>1, <2>2, <1>5, <1>6, UnansweredSame
  <1> QED
    BY <1>7, <1>8, <1>9, <1>10, <1>11, <1>12, <1>13 DEF RunStep

(* A call is handled: q is answered with st, and its run goes on at l. *)
LEMMA AnsweredRuns ==
  ASSUME TypeInv, PhotosInv, CallsAwaited, BytesKept, UNCHANGED <<markers, kind>>,
         NEW q \in calls, q.kind # "push", NEW s, NEW l, Answer(q, s, l),
         UNCHANGED <<todo, cur, allOk>>,
         \/ l \in {"bytes", "confirm", "failed"}
         \/ l = "row" /\ obj[q.att] # 0
  PROVE  \A p \in Flows : RunHonest(p)'
  <1>0. q.kind \in {"create", "put", "confirm"} /\ q.flow \in Flows
    BY DEF TypeInv, CallsTyped, Calls
  <1>1. ASSUME NEW p \in Flows, UNCHANGED pc \/ p # q.flow
        PROVE  RunHonest(p)'
    <2>1. pc'[p] = pc[p]
      BY <1>1 DEF Answer, TypeInv, RunsTyped
    <2> QED
      BY <2>1, RunKept DEF PhotosInv
  <1>2. CASE ~q.live
    BY <1>1, <1>2 DEF Answer
  <1>3. CASE q.live
    <2> DEFINE p == q.flow
    <2>1. pc[p] = q.kind /\ q.att = cur[p] /\ pc'[p] = l
      BY <1>0, <1>3 DEF CallsAwaited, Answer, TypeInv, RunsTyped
    <2>2. Ahead(p) = todo[p] \union {cur[p]}
      BY <1>0, <2>1 DEF Ahead, AtWork
    <2>3. \/ Ahead(p)' = todo[p] \union {cur[p]}
          \/ Ahead(p)' = todo[p] /\ obj[cur[p]] # 0
      BY <2>1 DEF Ahead, AtWork
    <2>4. allOk[p] /\ kind = "capture" => Stored(markers \ Ahead(p))
      BY <1>0, <2>1 DEF PhotosInv, RunHonest
    <2>5. allOk[p] /\ kind = "capture" => Stored(markers \ Ahead(p))'
      BY <2>2, <2>3, <2>4 DEF Stored, BytesKept, TypeInv, FormTyped
    <2>6. RunHonest(p)'
      BY <2>5 DEF RunHonest
    <2> QED
      BY <1>1, <2>6
  <1> QED
    BY <1>2, <1>3

LEMMA PhotosServerStep ==
  ASSUME TypeInv, PhotosInv, CallsAwaited, NEW q \in calls, ServerStep(q)
  PROVE  PhotosInv'
  <1> USE DEF PhotosInv
  <1>1. submitted /\ CallHonest(q)
    BY DEF NotBegun, CallsHonest
  <1>2. UNCHANGED <<formVars, todo, cur, allOk>>
    BY DEF ServerStep, Create, Put, Stat, Confirm, Store, Link, AcceptUnlinked, Abandon
  <1>3. q \in Calls /\ q.flow \in Flows /\ (q.kind # "push" => q.att \in Atts)
    BY DEF TypeInv, CallsTyped, Calls, NamesPhoto
  <1>4. \A r \in calls : Same(r, r)
    BY DEF Same
  <1>5. CASE Create(q) \/ Confirm(q)
    <2>1. calls' \subseteq calls /\ UNCHANGED <<obj, feat>> /\ BytesKept /\ q.kind # "push"
      BY <1>5 DEF Create, Confirm, BytesKept
    <2>2. PICK s \in {"pending", "uploading", "confirmed", "failed"},
               l \in {"failed", "bytes", "row"} :
            /\ Answer(q, s, l)
            /\ s = "confirmed" \/ l = "row" => obj[q.att] # 0
      BY <1>1, <1>5 DEF Create, Confirm, CallHonest
    <2>3. \A p \in Flows : RunHonest(p)'
      BY <1>2, <2>1, <2>2, AnsweredRuns
    <2>4. /\ \A b \in Atts : HasRow(b)' <=> HasRow(b)
          /\ \A b \in Atts : dev'[b] = "confirmed" => dev[b] = "confirmed" \/ obj'[b] # 0
      BY <1>3, <2>1, <2>2, RowsKept, DevKept DEF Answer
    <2> QED
      BY <1>1, <1>2, <1>4, <2>1, <2>3, <2>4, PhotosStep
  <1>6. CASE Put(q)
    <2>1. /\ q.kind = "put" /\ obj' = [obj EXCEPT ![q.att] = q.photo] /\ UNCHANGED feat
          /\ Answer(q, "uploaded", "confirm")
          /\ calls' = (calls \ {q}) \union (IF q.live THEN {Call(q.flow, "confirm")} ELSE {})
      BY <1>6 DEF Put
    <2>2. BytesKept
      BY <1>1, <1>3, <2>1 DEF BytesKept, CallHonest, TypeInv, ServerTyped
    <2>3. \A p \in Flows : RunHonest(p)'
      BY <1>2, <2>1, <2>2, AnsweredRuns
    <2>4. \A r : r = Call(q.flow, "confirm") => CallHonest(r)'
      <3>1. Call(q.flow, "confirm").kind = "confirm" /\ Call(q.flow, "confirm").seen = "not yet"
        BY DEF Call
      <3> QED
        BY <3>1 DEF CallHonest
    <2>5. \A r \in calls' : (\E x \in calls : Same(r, x)) \/ CallHonest(r)'
      BY <1>4, <2>1, <2>4
    <2>6. /\ \A b \in Atts : HasRow(b)' <=> HasRow(b)
          /\ \A b \in Atts : dev'[b] = "confirmed" => dev[b] = "confirmed"
      BY <1>3, <2>1, RowsKept, DevKept DEF Answer
    <2> QED
      BY <1>1, <1>2, <2>1, <2>2, <2>3, <2>5, <2>6, PhotosStep
  <1>7. CASE Stat(q) \/ Store(q)
    <2>1. PICK sn \in {"yes", "no"} :
            /\ calls' = (calls \ {q}) \union {[q EXCEPT !.seen = sn]}
            /\ q.kind = "confirm" /\ sn = "yes" => obj[q.att] # 0
      BY <1>7 DEF Stat, Store
    <2>2. /\ UNCHANGED <<dev, pc, obj>> /\ BytesKept
          /\ feat' = feat \/ q.kind = "push"
      BY <1>7 DEF Stat, Store, BytesKept
    <2>3. \A p \in Flows : RunHonest(p)'
      BY <1>2, <2>2, RunKept
    <2>4. CallHonest([q EXCEPT !.seen = sn])
      BY <1>1, <1>3, <2>1 DEF CallHonest, Calls
    <2>5. \A r : r = [q EXCEPT !.seen = sn] => CallHonest(r)'
      BY <1>2, <2>2, <2>4 DEF CallHonest, Stored
    <2>6. \A r \in calls' : (\E x \in calls : Same(r, x)) \/ CallHonest(r)'
      BY <1>4, <2>1, <2>5
    <2>7. feat' = feat \/ (kind = "capture" => Stored(markers))
      BY <1>1, <2>2 DEF CallHonest
    <2> QED
      BY <1>1, <1>2, <2>2, <2>3, <2>6, <2>7, DevKept, PhotosStep
  <1>8. CASE Link(q) \/ AcceptUnlinked(q) \/ Abandon(q)
    <2>1. calls' \subseteq calls /\ UNCHANGED <<dev, obj, feat>> /\ BytesKept
      BY <1>8 DEF Link, AcceptUnlinked, Abandon, Accepted, BytesKept
    <2>2. \A p \in Flows : pc'[p] \in {pc[p], "idle"}
      BY <1>8 DEF Link, AcceptUnlinked, Abandon, Accepted, TypeInv, RunsTyped
    <2>3. ASSUME NEW p \in Flows
          PROVE  RunHonest(p)'
      <3>1. CASE pc'[p] = pc[p]
        BY <1>2, <2>1, <3>1, RunKept
      <3>2. CASE pc'[p] = "idle"
        BY <3>2 DEF RunHonest
      <3> QED
        BY <2>2, <3>1, <3>2
    <2> QED
      BY <1>1, <1>2, <1>4, <2>1, <2>3, DevKept, PhotosStep
  <1> QED
    BY <1>5, <1>6, <1>7, <1>8 DEF ServerStep

LEMMA PhotosCrash ==
  ASSUME TypeInv, PhotosInv, Crash
  PROVE  PhotosInv'
  <1>1. submitted
    BY DEF Crash, PhotosInv, NotBegun
  <1>2. UNCHANGED <<formVars, dev, serverVars>> /\ BytesKept /\ \A p \in Flows : RunHonest(p)'
    BY DEF Crash, BytesKept, RunHonest
  <1>3. \A q \in calls' : \E r \in calls : Same(q, r)
    <2>1. \A r \in calls : Same([r EXCEPT !.live = FALSE], r)
      BY DeafTyped DEF TypeInv, CallsTyped, Same
    <2> QED
      BY <2>1, CrashCalls
  <1> QED
    BY <1>1, <1>2, <1>3, DevKept, PhotosStep

LEMMA PhotosNextStep ==
  ASSUME TypeInv, PhotosInv, CallsAwaited, [Next]_vars
  PROVE  PhotosInv'
  <1>1. CASE Recover \/ UNCHANGED vars
    BY <1>1 DEF Recover, vars, PhotosInv, NotBegun, RowsHavePhotos, ConfirmedStored, CallsHonest,
       CallHonest, RunHonest, PhotosFirst, HasRow, Stored, Ahead, AtWork
  <1> QED
    BY <1>1, PhotosUserStep, PhotosRunStep, PhotosServerStep, PhotosCrash DEF Next

(* A capture is stored only after the bytes of all its photos, for any     *)
(* number of photos, overlapping runs, lost and late calls, and crashes.   *)
THEOREM PhotosBeforeFeature == Spec => []PhotosFirst
  <1>1. Init => TypeInv /\ CallsAwaited /\ PhotosInv
    BY TypeInitial, PhotosInitial DEF Init, CallsAwaited
  <1>2. TypeInv /\ CallsAwaited /\ PhotosInv /\ [Next]_vars
          => TypeInv' /\ CallsAwaited' /\ PhotosInv'
    BY TypeStep, AwaitedStep, PhotosNextStep
  <1>3. PhotosInv => PhotosFirst
    BY DEF PhotosInv
  <1> QED
    BY <1>1, <1>2, <1>3, PTL DEF Spec

------------------------------------------------------------------------------
(* The right bytes.  The photos of a capture are final once it is          *)
(* submitted, so whatever carries a photo of it carries the final one.     *)
CopiesFinal ==
  kind = "capture" =>
    /\ ~submitted => \A a \in Atts : obj[a] = 0
    /\ \A p \in Flows : pc[p] # "idle" => paths[p] = photo
    /\ \A q \in calls : q.kind = "put" => q.photo = photo[q.att]
    /\ \A a \in Atts : obj[a] \in {0, photo[a]}

LEMMA CopiesStep ==
  ASSUME TypeInv, CallsAwaited, NotBegun, CopiesFinal, [Next]_vars
  PROVE  CopiesFinal'
  <1> SUFFICES ASSUME kind = "capture"
               PROVE  CopiesFinal'
    BY DEF CopiesFinal, Next, UserStep, Submit, TakePhoto, RemovePhoto, StartRun, RunStep,
       NextPhoto, Register, SendBytes, FileMissing, Decide, PushFeature, GiveUp, CallFailed,
       ServerStep, Create, Put, Stat, Confirm, Store, Link, AcceptUnlinked, Abandon, Recover,
       Crash, vars
  <1>1. CASE UserStep
    <2>1. ~submitted /\ UNCHANGED <<obj, calls, pc>>
      BY <1>1 DEF UserStep, Submit, TakePhoto, RemovePhoto, Open
    <2> QED
      BY <2>1 DEF CopiesFinal, NotBegun
  <1>2. ASSUME UNCHANGED <<photo, submitted, paths, obj>>,
               \A p \in Flows : pc'[p] = "idle" \/ pc[p] # "idle",
               \A q \in calls' : \E r \in calls : Same(q, r)
        PROVE  CopiesFinal'
    BY <1>2 DEF CopiesFinal, Same
  <1>3. \A q \in calls : Same(q, q)
    BY DEF Same
  <1>4. ASSUME NEW p \in Flows, StartRun(p)
        PROVE  CopiesFinal'
    BY <1>4 DEF StartRun, CopiesFinal, TypeInv, RunsTyped
  <1>5. ASSUME NEW p \in Flows, RunStep(p)
        PROVE  CopiesFinal'
    <2>1. /\ pc[p] # "idle" /\ UNCHANGED <<photo, submitted, paths, obj>>
          /\ \A o \in Flows \ {p} : pc'[o] = pc[o]
      BY <1>5 DEF RunStep, NextPhoto, Register, SendBytes, FileMissing, Decide, PushFeature,
         GiveUp, CallFailed, Send, TypeInv, RunsTyped
    <2>2. CASE SendBytes(p)
      <3>1. calls' = calls \union {Call(p, "put")}
        BY <2>2 DEF SendBytes, Send
      <3>2. Call(p, "put").photo = photo[cur[p]] /\ Call(p, "put").att = cur[p]
        BY <2>1 DEF Call, CopiesFinal
      <3> QED
        BY <2>1, <3>1, <3>2 DEF CopiesFinal
    <2>3. CASE Register(p) \/ PushFeature(p)
      <3>1. PICK what \in {"create", "push"} : calls' = calls \union {Call(p, what)}
        BY <2>3 DEF Register, PushFeature, Send
      <3>2. Call(p, what).kind = what
        BY DEF Call
      <3> QED
        BY <2>1, <3>1, <3>2 DEF CopiesFinal
    <2>4. CASE ~(SendBytes(p) \/ Register(p) \/ PushFeature(p))
      <3>1. UNCHANGED calls \/ Unanswered(p)
        BY <1>5, <2>4 DEF RunStep, NextPhoto, FileMissing, Decide, GiveUp, CallFailed
      <3> QED
        BY <1>2, <1>3, <2>1, <3>1, UnansweredSame
    <2> QED
      BY <2>2, <2>3, <2>4
  <1>6. ASSUME NEW q \in calls, ServerStep(q)
        PROVE  CopiesFinal'
    <2>0. q \in Calls /\ (q.kind # "push" => q.att \in Atts) /\ submitted
      BY DEF TypeInv, CallsTyped, NamesPhoto, NotBegun
    <2>1. \A p \in Flows : pc'[p] = "idle" \/ pc[p] # "idle"
      <3>1. q.live => pc[q.flow] # "idle"
        BY <2>0 DEF CallsAwaited, Calls
      <3> QED
        BY <1>6, <3>1 DEF ServerStep, Create, Put, Stat, Confirm, Store, Link, AcceptUnlinked,
           Abandon, Answer, Accepted, TypeInv, RunsTyped
    <2>2. UNCHANGED <<photo, submitted, paths>>
      BY <1>6 DEF ServerStep, Create, Put, Stat, Confirm, Store, Link, AcceptUnlinked, Abandon
    <2>3. CASE Put(q)
      <3>1. /\ obj' = [obj EXCEPT ![q.att] = q.photo] /\ q.kind = "put"
            /\ \A r \in calls' : r \in calls \/ r = Call(q.flow, "confirm")
        BY <2>3 DEF Put
      <3>2. Call(q.flow, "confirm").kind = "confirm"
        BY DEF Call
      <3> QED
        BY <2>0, <2>1, <2>2, <3>1, <3>2 DEF CopiesFinal, TypeInv, ServerTyped
    <2>4. CASE Stat(q) \/ Store(q)
      <3>1. PICK sn \in {"yes", "no"} : calls' = (calls \ {q}) \union {[q EXCEPT !.seen = sn]}
        BY <2>4 DEF Stat, Store
      <3>2. [q EXCEPT !.seen = sn].kind # "put"
        BY <2>0, <2>4 DEF Stat, Store, Calls
      <3> QED
        BY <2>1, <2>2, <2>4, <3>1, <3>2 DEF CopiesFinal, Stat, Store
    <2>5. CASE Create(q) \/ Confirm(q) \/ Link(q) \/ AcceptUnlinked(q) \/ Abandon(q)
      <3>1. calls' \subseteq calls /\ UNCHANGED obj
        BY <2>5 DEF Create, Confirm, Link, AcceptUnlinked, Abandon, Accepted
      <3> QED
        BY <1>2, <1>3, <2>1, <2>2, <3>1
    <2> QED
      BY <1>6, <2>3, <2>4, <2>5 DEF ServerStep
  <1>7. CASE Crash
    <2>1. \A q \in calls' : \E r \in calls : Same(q, r)
      <3>1. \A r \in calls : Same([r EXCEPT !.live = FALSE], r)
        BY DeafTyped DEF TypeInv, CallsTyped, Same
      <3> QED
        BY <1>7, <3>1, CrashCalls
    <2> QED
      BY <1>2, <1>7, <2>1 DEF Crash
  <1>8. CASE Recover \/ UNCHANGED vars
    BY <1>8 DEF Recover, vars, CopiesFinal
  <1> QED
    BY <1>1, <1>4, <1>5, <1>6, <1>7, <1>8 DEF Next

(* A photo of a capture that is shown as confirmed is the one the object   *)
(* store holds, whatever runs overlapped or calls came late.               *)
THEOREM ConfirmedPhotosStored == Spec => []PhotosDelivered
  <1>1. Init => TypeInv /\ CallsAwaited /\ PhotosInv /\ CopiesFinal
    BY TypeInitial, PhotosInitial DEF Init, CallsAwaited, CopiesFinal, NoPhotos
  <1>2. TypeInv /\ CallsAwaited /\ PhotosInv /\ CopiesFinal /\ [Next]_vars
          => TypeInv' /\ CallsAwaited' /\ PhotosInv' /\ CopiesFinal'
    BY TypeStep, AwaitedStep, PhotosNextStep, CopiesStep DEF PhotosInv
  <1>3. PhotosInv /\ CopiesFinal => PhotosDelivered
    BY DEF PhotosInv, ConfirmedStored, CopiesFinal, PhotosDelivered
  <1> QED
    BY <1>1, <1>2, <1>3, PTL DEF Spec

==============================================================================
