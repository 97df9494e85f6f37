----------------------------- MODULE MapPagesProofs -----------------------------
(***************************************************************************)
(* The pages of the enterprise map, for any features, layers, queries,     *)
(* calls and exports: for each page that MCWebPages composes an inductive  *)
(* invariant with its types and what the runs check of it, that its first  *)
(* states have it and that its steps keep it.  WebPagesProofs draws the    *)
(* conclusions.                                                            *)
(***************************************************************************)
EXTENDS MCWebPages, SequenceTheorems, FiniteSetTheorems, FunctionTheorems,
        WellFoundedInduction, TLAPS

------------------------------------------------------------------------------
(* The session: GeoSession.                                                *)
GeoConstants == MaxIssued \in Nat

IssuerTyped ==
  /\ issued \in 0..MaxIssued
  /\ fresh \subseteq 1..issued /\ spendable \subseteq 1..issued /\ exchanged \subseteq 1..issued
KeptTyped == kept \in [access : 0..issued, refresh : 0..issued]
GateTyped ==
  /\ auth \in {"loading", "anonymous", "authenticated"}
  /\ gate \in {"none", "me", "callback"}
CallState(n) ==
  [stage : {"idle", "sent", "waiting", "retried"}, kind : {"query", "download"}, token : 0..n]
CallsTyped == calls \in [Calls -> CallState(issued)]
RefreshesTyped == refreshes \subseteq [by : Calls, token : 0..issued]

(* One refresh is out, and the token that is stored was not exchanged.     *)
OneRefresh == \A r, s \in refreshes : r = s
KeptIsUnspent == kept.refresh \notin exchanged

GeoInv ==
  /\ route \in Routes
  /\ IssuerTyped /\ KeptTyped /\ GateTyped /\ CallsTyped /\ RefreshesTyped
  /\ OneRefresh /\ KeptIsUnspent /\ Geo!NoSecondExchange

LEMMA GeoInvIsEnough == GeoInv => Geo!TypeOK /\ Geo!NoSecondExchange
  BY DEF GeoInv, IssuerTyped, KeptTyped, GateTyped, CallsTyped, CallState, RefreshesTyped,
     Geo!TypeOK

LEMMA IdleTyped ==
  ASSUME NEW n \in Nat
  PROVE  Geo!Idle \in CallState(n)
  BY DEF Geo!Idle, CallState

LEMMA CallsGrow ==
  ASSUME NEW n \in Nat, NEW x \in CallState(n)
  PROVE  x \in CallState(n + 1)
  BY DEF CallState

LEMMA GeoInitial == GeoConstants /\ Geo!Init => GeoInv
  <1> SUFFICES ASSUME GeoConstants, Geo!Init
               PROVE  GeoInv
    OBVIOUS
  <1> USE DEF Geo!Init
  <1>1. CallsTyped
    BY IdleTyped DEF CallsTyped
  <1>2. IssuerTyped /\ KeptTyped /\ GateTyped /\ RefreshesTyped
    BY DEF GeoConstants, IssuerTyped, KeptTyped, GateTyped, RefreshesTyped, Geo!NoTokens
  <1>3. OneRefresh /\ KeptIsUnspent /\ Geo!NoSecondExchange
    BY DEF OneRefresh, KeptIsUnspent, Geo!NoSecondExchange
  <1> QED
    BY <1>1, <1>2, <1>3 DEF GeoInv

LEMMA IssuedNat ==
  ASSUME GeoConstants, GeoInv
  PROVE  issued \in Nat
  BY DEF GeoConstants, GeoInv, IssuerTyped

------------------------------------------------------------------------------
(* Steps that issue nothing, start no refresh and keep or clear the tokens. *)
LEMMA QuietKeeps ==
  ASSUME GeoConstants, GeoInv,
         UNCHANGED <<route, issued, exchanged>>,
         fresh' \subseteq fresh, spendable' \subseteq spendable,
         kept' \in {kept, Geo!NoTokens}, refreshes' \subseteq refreshes, GateTyped', CallsTyped'
  PROVE  GeoInv'
  <1>1. issued \in Nat
    BY IssuedNat
  <1>2. IssuerTyped' /\ RefreshesTyped'
    BY DEF GeoInv, IssuerTyped, RefreshesTyped
  <1>3. KeptTyped' /\ KeptIsUnspent'
    <2>1. CASE kept' = kept
      BY <2>1 DEF GeoInv, KeptTyped, KeptIsUnspent
    <2>2. CASE kept' = Geo!NoTokens
      BY <1>1, <2>2 DEF GeoInv, IssuerTyped, KeptTyped, KeptIsUnspent, Geo!NoTokens
    <2> QED
      BY <2>1, <2>2
  <1>4. OneRefresh' /\ Geo!NoSecondExchange'
    BY DEF GeoInv, OneRefresh, Geo!NoSecondExchange
  <1> QED
    BY <1>2, <1>3, <1>4 DEF GeoInv

(* A new grant is stored; what is exchanged for it is an older token. *)
LEMMA IssueKeeps ==
  ASSUME GeoConstants, GeoInv, NEW spent, Geo!Issue(spent), UNCHANGED route,
         exchanged' \subseteq exchanged \union 1..issued,
         refreshes' \subseteq refreshes,
         \A r \in refreshes' : r.token \notin exchanged',
         GateTyped', CallsTyped'
  PROVE  GeoInv'
  <1>1. issued \in Nat /\ issued' = issued + 1 /\ issued' \in 0..MaxIssued
    BY IssuedNat DEF GeoConstants, Geo!Issue
  <1>2. IssuerTyped'
    <2>1. 1..issued \subseteq 1..issued' /\ issued + 1 \in 1..issued'
      BY <1>1
    <2> QED
      BY <1>1, <2>1 DEF GeoInv, IssuerTyped, Geo!Issue
  <1>3. KeptTyped' /\ KeptIsUnspent'
    <2>1. kept' = [access |-> issued', refresh |-> issued'] /\ issued' \in 0..issued'
      BY <1>1 DEF Geo!Issue
    <2>2. issued' \notin exchanged'
      BY <1>1 DEF GeoInv, IssuerTyped
    <2> QED
      BY <2>1, <2>2 DEF KeptTyped, KeptIsUnspent
  <1>4. RefreshesTyped'
    BY <1>1 DEF GeoInv, RefreshesTyped
  <1>5. OneRefresh' /\ Geo!NoSecondExchange'
    BY DEF GeoInv, OneRefresh, Geo!NoSecondExchange
  <1> QED
    BY <1>2, <1>3, <1>4, <1>5 DEF GeoInv

------------------------------------------------------------------------------
(* Signing in and out. *)

GateStep ==
  \/ Geo!Boot \/ Geo!Login \/ Geo!Callback \/ Geo!ProfileReturns \/ Geo!Logout \/ Geo!Reload
  \/ \E forbidden \in BOOLEAN : Geo!ProfileFails(forbidden)

LEMMA GateStepKeeps ==
  ASSUME GeoConstants, GeoInv, GateStep, UNCHANGED route
  PROVE  GeoInv'
  <1>1. issued \in Nat
    BY IssuedNat
  <1>2. CallsTyped /\ GateTyped
    BY DEF GeoInv
  <1>3. CASE Geo!Login \/ Geo!Callback
    <2>1. CallsTyped'
      BY <1>1, <1>2, <1>3, CallsGrow DEF Geo!Login, Geo!Callback, Geo!Issue, CallsTyped
    <2>2. GateTyped'
      BY <1>2, <1>3 DEF Geo!Login, Geo!Callback, GateTyped
    <2>3. UNCHANGED <<exchanged, refreshes>>
      BY <1>3 DEF Geo!Login, Geo!Callback
    <2>4. \A r \in refreshes' : r.token \notin exchanged'
      BY <2>3 DEF GeoInv, Geo!NoSecondExchange
    <2> QED
      BY <1>3, <2>1, <2>2, <2>3, <2>4, IssueKeeps DEF Geo!Login, Geo!Callback
  <1>4. CASE Geo!Reload
    <2>1. CallsTyped'
      BY <1>1, <1>4, IdleTyped DEF Geo!Reload, Geo!IssuerUnchanged, CallsTyped
    <2>2. GateTyped'
      BY <1>4 DEF Geo!Reload, GateTyped
    <2> QED
      BY <1>4, <2>1, <2>2, QuietKeeps DEF Geo!Reload, Geo!IssuerUnchanged
  <1>5. CASE Geo!Boot \/ Geo!ProfileReturns \/ Geo!Logout
             \/ \E forbidden \in BOOLEAN : Geo!ProfileFails(forbidden)
    <2>1. CallsTyped' /\ GateTyped'
      BY <1>2, <1>5 DEF Geo!Boot, Geo!ProfileReturns, Geo!Logout, Geo!ProfileFails,
         Geo!IssuerUnchanged, CallsTyped,
         GateTyped
    <2>2. kept' \in {kept, Geo!NoTokens} /\ UNCHANGED refreshes /\ Geo!IssuerUnchanged
      BY <1>5 DEF Geo!Boot, Geo!ProfileReturns, Geo!Logout, Geo!ProfileFails
    <2> QED
      BY <2>1, <2>2, QuietKeeps DEF Geo!IssuerUnchanged
  <1> QED
    BY <1>3, <1>4, <1>5 DEF GateStep

------------------------------------------------------------------------------
(* The calls of the page. *)

LEMMA CallChanges ==
  ASSUME CallsTyped, NEW c \in Calls, NEW x \in CallState(issued), UNCHANGED issued,
         calls' = [calls EXCEPT ![c] = x]
  PROVE  CallsTyped'
  BY DEF CallsTyped

LEMMA CallStepKeeps ==
  ASSUME GeoConstants, GeoInv, NEW c \in Calls, UNCHANGED route,
         Geo!CallReturns(c) \/ \E kind \in {"query", "download"} : Geo!SendCall(c, kind)
  PROVE  GeoInv'
  <1>1. issued \in Nat /\ CallsTyped /\ GateTyped /\ kept.access \in 0..issued
    BY IssuedNat DEF GeoInv, KeptTyped
  <1>2. UNCHANGED <<kept, auth, gate, refreshes>> /\ Geo!IssuerUnchanged
    BY DEF Geo!CallReturns, Geo!SendCall
  <1>3. CallsTyped'
    <2>1. CASE Geo!CallReturns(c)
      BY <1>1, <1>2, <2>1, IdleTyped, CallChanges DEF Geo!CallReturns, Geo!IssuerUnchanged
    <2>2. ASSUME NEW kind \in {"query", "download"}, Geo!SendCall(c, kind)
          PROVE  CallsTyped'
      <3>1. [stage |-> "sent", kind |-> kind, token |-> kept.access] \in CallState(issued)
        BY <1>1 DEF CallState
      <3> QED
        BY <1>1, <1>2, <2>2, <3>1, CallChanges DEF Geo!SendCall, Geo!IssuerUnchanged
    <2> QED
      BY <2>1, <2>2
  <1>4. GateTyped'
    BY <1>1, <1>2 DEF GateTyped
  <1> QED
    BY <1>2, <1>3, <1>4, QuietKeeps DEF Geo!IssuerUnchanged

(* A call that is refused starts the refresh, or waits for it. *)
LEMMA CallRefusedKeeps ==
  ASSUME GeoConstants, GeoInv, NEW c \in Calls, Geo!CallRefused(c), UNCHANGED route
  PROVE  GeoInv'
  <1>1. /\ issued \in Nat /\ CallsTyped /\ GateTyped
        /\ kept.access \in 0..issued /\ kept.refresh \in 0..issued
        /\ calls[c] \in CallState(issued)
    BY IssuedNat DEF GeoInv, KeptTyped, CallsTyped
  <1>2. UNCHANGED <<kept, auth, gate>> /\ Geo!IssuerUnchanged
    BY DEF Geo!CallRefused
  <1>3. GateTyped'
    BY <1>1, <1>2 DEF GateTyped
  <1>4. CallsTyped'
    <2>1. \E x \in CallState(issued) : calls' = [calls EXCEPT ![c] = x]
      <3>1. Geo!Idle \in CallState(issued)
        BY <1>1, IdleTyped
      <3>2. [calls[c] EXCEPT !.stage = "waiting"] \in CallState(issued)
        BY <1>1 DEF CallState
      <3>3. [calls[c] EXCEPT !.stage = "retried", !.token = kept.access] \in CallState(issued)
        BY <1>1 DEF CallState
      <3>4. \/ calls' = [calls EXCEPT ![c] = Geo!Idle]
            \/ calls' = [calls EXCEPT ![c].stage = "waiting"]
            \/ calls' = [calls EXCEPT ![c].stage = "retried", ![c].token = kept.access]
        BY DEF Geo!CallRefused
      <3> QED
        BY <1>1, <3>1, <3>2, <3>3, <3>4 DEF CallsTyped
    <2> QED
      BY <1>1, <1>2, <2>1, CallChanges DEF Geo!IssuerUnchanged
  <1>5. CASE refreshes' = refreshes
    BY <1>2, <1>3, <1>4, <1>5, QuietKeeps DEF Geo!IssuerUnchanged
  <1>6. CASE refreshes = {} /\ refreshes' = {[by |-> c, token |-> kept.refresh]}
    <2>1. IssuerTyped' /\ KeptTyped' /\ KeptIsUnspent'
      BY <1>2 DEF Geo!IssuerUnchanged, GeoInv, IssuerTyped, KeptTyped, KeptIsUnspent
    <2>2. RefreshesTyped'
      BY <1>1, <1>2, <1>6 DEF Geo!IssuerUnchanged, RefreshesTyped
    <2>3. OneRefresh' /\ Geo!NoSecondExchange'
      BY <1>2, <1>6 DEF Geo!IssuerUnchanged, GeoInv, KeptIsUnspent, OneRefresh,
         Geo!NoSecondExchange
    <2> QED
      BY <1>3, <1>4, <2>1, <2>2, <2>3 DEF GeoInv
  <1> QED
    BY <1>5, <1>6 DEF Geo!CallRefused, Geo!StartsRefresh

------------------------------------------------------------------------------
(* The end of a refresh. *)

LEMMA WaitersTyped ==
  ASSUME NEW n \in Nat, calls \in [Calls -> CallState(n)], NEW t \in 0..n
  PROVE  Geo!Waiters(t) \in [Calls -> CallState(n)]
  BY IdleTyped DEF Geo!Waiters, CallState

LEMMA RefreshStepKeeps ==
  ASSUME GeoConstants, GeoInv, NEW r \in refreshes, UNCHANGED route,
         Geo!RefreshReturns(r) \/ Geo!RefreshRefused(r) \/ Geo!RefreshLost(r)
  PROVE  GeoInv'
  <1>1. issued \in Nat /\ CallsTyped /\ GateTyped /\ r.token \in 1..issued \union {0}
    BY IssuedNat DEF GeoInv, RefreshesTyped
  <1>2. refreshes' = {} /\ GateTyped'
    BY <1>1 DEF GeoInv, OneRefresh, Geo!RefreshReturns, Geo!RefreshRefused, Geo!RefreshLost,
       GateTyped
  <1>3. CASE Geo!RefreshReturns(r)
    <2>1. issued' = issued + 1 /\ issued' \in Nat
      BY <1>1, <1>3 DEF Geo!RefreshReturns, Geo!Issue
    <2>2. calls \in [Calls -> CallState(issued + 1)]
      BY <1>1, CallsGrow DEF CallsTyped
    <2>3. CallsTyped'
      BY <1>1, <1>3, <2>1, <2>2, WaitersTyped DEF Geo!RefreshReturns, CallsTyped
    <2>4. exchanged' \subseteq exchanged \union 1..issued
      BY <1>3 DEF Geo!RefreshReturns, GeoInv, IssuerTyped
    <2> QED
      BY <1>2, <1>3, <2>3, <2>4, IssueKeeps DEF Geo!RefreshReturns
  <1>4. CASE Geo!RefreshRefused(r) \/ Geo!RefreshLost(r)
    <2>1. Geo!Waiters(0) \in [Calls -> CallState(issued)]
      BY <1>1, WaitersTyped DEF CallsTyped
    <2>2. /\ UNCHANGED <<issued, exchanged, fresh>> /\ spendable' \subseteq spendable
          /\ kept' \in {kept, Geo!NoTokens} /\ calls' = Geo!Waiters(0)
      BY <1>4 DEF Geo!RefreshRefused, Geo!RefreshLost, Geo!IssuerUnchanged
    <2>3. CallsTyped'
      BY <2>1, <2>2 DEF CallsTyped
    <2> QED
      BY <1>2, <2>2, <2>3, QuietKeeps
  <1> QED
    BY <1>3, <1>4

LEMMA LapseKeeps ==
  ASSUME GeoConstants, GeoInv, NEW n \in fresh, Geo!Lapse(n), UNCHANGED route
  PROVE  GeoInv'
  <1>1. CallsTyped' /\ GateTyped'
    BY DEF Geo!Lapse, GeoInv, CallsTyped, GateTyped
  <1> QED
    BY <1>1, QuietKeeps DEF Geo!Lapse

------------------------------------------------------------------------------
LEMMA GeoStep ==
  ASSUME GeoConstants, GeoInv, [Geo!Next]_Geo!vars
  PROVE  GeoInv'
  <1>1. CASE UNCHANGED Geo!vars
    BY <1>1 DEF Geo!vars, Geo!geoSessionVars, GeoInv, IssuerTyped, KeptTyped, GateTyped,
       CallsTyped,
       RefreshesTyped, OneRefresh, KeptIsUnspent, Geo!NoSecondExchange
  <1>2. CASE Geo!Next
    <2>1. UNCHANGED route
      BY <1>2 DEF Geo!Next, Geo!Here
    <2>2. \/ GateStep
          \/ \E c \in Calls : \/ Geo!CallReturns(c) \/ Geo!CallRefused(c)
                              \/ \E kind \in {"query", "download"} : Geo!SendCall(c, kind)
          \/ \E r \in refreshes : Geo!RefreshReturns(r) \/ Geo!RefreshRefused(r)
                  \/ Geo!RefreshLost(r)
          \/ \E n \in fresh : Geo!Lapse(n)
      BY <1>2 DEF Geo!Next, GateStep
    <2> QED
      BY <2>1, <2>2, GateStepKeeps, CallStepKeeps, CallRefusedKeeps, RefreshStepKeeps, LapseKeeps
  <1> QED
    BY <1>1, <1>2

------------------------------------------------------------------------------
(* The selection and the drawer: MapSelection.                             *)
USE DEF Select!menuVars, Select!drawerVars, Select!NoPicker, Select!NoBuffer

(* Features have a layer and an id, shapes have neither; what can be done  *)
(* with a feature depends on the feature.                                  *)
MapConstants ==
  /\ Polygons \subseteq Features /\ Traceable \subseteq Features
  /\ Nobody \notin Features \union Shapes
  /\ NumPhotos \in Nat

(* What the panel on screen has asked for is of the selection: a panel     *)
(* that is gone took its request along.                                    *)
AskedIsOfSelection == asked # Nobody => asked = chosen

SelectionTyped ==
  /\ chosen \in Features \union Shapes \union {Nobody}
  /\ picker \subseteq Features /\ buffer \in Select!Somebody
  /\ known \subseteq Features /\ pictured \subseteq Features

DrawerTyped ==
  /\ drawerTab \in Select!DrawerTabs /\ lightbox \in Nat
  /\ asked \in Select!Somebody /\ dropped \subseteq Features
  /\ querying \in Polygons \union Shapes \union {Nobody}

DrawnTyped ==
  /\ traced \in Select!Somebody
  /\ found \in Polygons \union Shapes \union {Nobody}

TraceInv == AskedIsOfSelection /\ Select!TraceIsOfSelection

(* The inductive invariant. *)
SelectionInv ==
  /\ route \in Routes
  /\ SelectionTyped /\ DrawerTyped /\ DrawnTyped /\ TraceInv

LEMMA SelectionInitial == Select!Init => SelectionInv
  BY DEF Select!Init, SelectionInv, SelectionTyped, DrawerTyped, DrawnTyped, TraceInv,
     AskedIsOfSelection,
     Select!TraceIsOfSelection, Select!DrawerTabs, Select!Somebody

LEMMA SelectionInvIsEnough == SelectionInv => Select!TypeOK /\ Select!TraceIsOfSelection
  BY DEF SelectionInv, SelectionTyped, DrawerTyped, DrawnTyped, TraceInv, Select!TypeOK

------------------------------------------------------------------------------
(* What Settle leaves. *)

LEMMA SettleTyped ==
  ASSUME DrawerTyped, NEW sel, NEW tab \in Select!DrawerTabs, NEW seen, NEW pics,
         Select!Settle(sel, tab, seen, pics)
  PROVE  DrawerTyped' /\ asked' \in {asked, Nobody}
  BY DEF DrawerTyped, Select!Settle, Select!DrawerTabs, Select!Somebody

(* Another selection starts on the first tab, which has no trace. *)
LEMMA SettleForgets ==
  ASSUME NEW sel, NEW seen, NEW pics, Select!Settle(sel, "attributes", seen, pics)
  PROVE  asked' = Nobody
  <1>1. "trace" \notin Select!Sections(sel, "attributes", seen, pics)
    BY DEF Select!Sections
  <1> QED
    BY <1>1 DEF Select!Settle

LEMMA ChoosesKeeps ==
  ASSUME SelectionInv, NEW sel \in Features \union Shapes \union {Nobody},
         Select!Chooses(sel), picker' \subseteq Features, buffer' \in Select!Somebody,
         UNCHANGED route
  PROVE  SelectionInv'
  <1> USE DEF SelectionInv
  <1>1. SelectionTyped'
    BY DEF Select!Chooses, SelectionTyped
  <1>2. DrawerTyped' /\ asked' \in {asked, Nobody}
    <2>1. (IF sel = chosen THEN drawerTab ELSE "attributes") \in Select!DrawerTabs
      BY DEF DrawerTyped, Select!DrawerTabs
    <2> QED
      BY <2>1, SettleTyped DEF Select!Chooses
  <1>3. DrawnTyped'
    BY DEF Select!Chooses, Select!ForgetsTrace, DrawnTyped, Select!Somebody
  <1>4. TraceInv'
    <2>1. CASE sel = chosen
      BY <1>2, <2>1 DEF Select!Chooses, Select!ForgetsTrace, TraceInv, AskedIsOfSelection,
         Select!TraceIsOfSelection
    <2>2. CASE sel # chosen
      <3>1. asked' = Nobody
        BY <2>2, SettleForgets DEF Select!Chooses
      <3> QED
        BY <2>2, <3>1 DEF Select!Chooses, Select!ForgetsTrace, TraceInv, AskedIsOfSelection,
           Select!TraceIsOfSelection
    <2> QED
      BY <2>1, <2>2
  <1> QED
    BY <1>1, <1>2, <1>3, <1>4

(* The selection and what is drawn of it stay. *)
LEMMA SelectionStays ==
  ASSUME SelectionInv, SelectionTyped', DrawerTyped', asked' \in {asked, Nobody},
         UNCHANGED <<route, chosen, traced, found>>
  PROVE  SelectionInv'
  BY DEF SelectionInv, DrawnTyped, TraceInv, AskedIsOfSelection, Select!TraceIsOfSelection,
     Select!Somebody

------------------------------------------------------------------------------
(* The map and its menus. *)

MenuStep ==
  \/ Select!ClickNothing \/ Select!ClickBeside \/ Select!PressEscape
  \/ \E f \in Features : Select!ClickFeature(f) \/ Select!ContextMenu(f)
          \/ Select!PickCandidate(f) \/ Select!SelectRow(f)
  \/ \E fs \in SUBSET Features : Select!ClickSeveral(fs)
  \/ \E s \in Shapes : Select!ApplyBuffer(s) \/ Select!SelectDrawn(s)

LEMMA MenuStepKeeps ==
  ASSUME SelectionInv, MenuStep, UNCHANGED route
  PROVE  SelectionInv'
  <1> USE DEF SelectionInv
  <1>1. ASSUME NEW sel \in Features \union Shapes \union {Nobody}, Select!Chooses(sel),
               Select!CloseMenus
        PROVE  SelectionInv'
    BY <1>1, ChoosesKeeps DEF Select!CloseMenus, Select!Somebody
  <1>2. CASE Select!ClickNothing \/ Select!PressEscape
    BY <1>1, <1>2 DEF Select!ClickNothing, Select!PressEscape
  <1>3. ASSUME NEW f \in Features, Select!ClickFeature(f) \/ Select!PickCandidate(f)
               \/ Select!SelectRow(f)
        PROVE  SelectionInv'
    BY <1>1, <1>3 DEF Select!ClickFeature, Select!PickCandidate, Select!SelectRow
  <1>4. ASSUME NEW s \in Shapes, Select!SelectDrawn(s)
        PROVE  SelectionInv'
    BY <1>1, <1>4 DEF Select!SelectDrawn
  <1>5. ASSUME NEW s \in Shapes, Select!ApplyBuffer(s)
        PROVE  SelectionInv'
    <2>1. picker' \subseteq Features /\ buffer' \in Select!Somebody
      BY <1>5 DEF Select!ApplyBuffer, SelectionTyped, Select!Somebody
    <2> QED
      BY <1>5, <2>1, ChoosesKeeps DEF Select!ApplyBuffer
  <1>6. ASSUME UNCHANGED Select!drawerVars, picker' \subseteq Features,
               buffer' \in Select!Somebody
        PROVE  SelectionInv'
    <2>1. SelectionTyped' /\ DrawerTyped'
      BY <1>6 DEF SelectionTyped, DrawerTyped, Select!Somebody
    <2> QED
      BY <1>6, <2>1, SelectionStays
  <1>7. CASE Select!ClickBeside
    BY <1>6, <1>7 DEF Select!ClickBeside, Select!CloseMenus, Select!Somebody
  <1>8. ASSUME NEW f \in Features, Select!ContextMenu(f)
        PROVE  SelectionInv'
    BY <1>6, <1>8 DEF Select!ContextMenu, SelectionTyped, Select!Somebody
  <1>9. ASSUME NEW fs \in SUBSET Features, Select!ClickSeveral(fs)
        PROVE  SelectionInv'
    BY <1>6, <1>9 DEF Select!ClickSeveral, Select!Somebody
  <1> QED
    BY <1>2, <1>3, <1>4, <1>5, <1>7, <1>8, <1>9 DEF MenuStep

------------------------------------------------------------------------------
(* The drawer. *)

DrawerStep ==
  \/ Select!FeatureReturns \/ Select!AttachmentsReturn \/ Select!OnClose \/ Select!TurnLightbox
  \/ \E f \in Features : Select!Evict(f)
  \/ \E t \in Select!DrawerTabs : Select!SetTab(t)
  \/ \E f \in Features : \E i \in 1..Select!Photos(f) : Select!OpenAt(i)

LEMMA DrawerStepKeeps ==
  ASSUME MapConstants, SelectionInv, DrawerStep, UNCHANGED route
  PROVE  SelectionInv'
  <1> USE DEF SelectionInv
  <1>1. CASE Select!FeatureReturns
    <2>1. SelectionTyped'
      BY <1>1 DEF Select!FeatureReturns, SelectionTyped, Select!Somebody
    <2>2. DrawerTyped' /\ asked' \in {asked, Nobody}
      BY <1>1, SettleTyped DEF Select!FeatureReturns, DrawerTyped
    <2> QED
      BY <1>1, <2>1, <2>2, SelectionStays DEF Select!FeatureReturns
  <1>2. CASE Select!AttachmentsReturn
    <2>1. SelectionTyped'
      BY <1>2 DEF Select!AttachmentsReturn, SelectionTyped, Select!Somebody
    <2>2. DrawerTyped' /\ asked' \in {asked, Nobody}
      BY <1>2, SettleTyped DEF Select!AttachmentsReturn, DrawerTyped
    <2> QED
      BY <1>2, <2>1, <2>2, SelectionStays DEF Select!AttachmentsReturn
  <1>3. CASE Select!OnClose
    <2>1. SelectionTyped' /\ DrawnTyped'
      BY <1>3 DEF Select!OnClose, Select!CloseMenus, SelectionTyped, DrawnTyped, Select!Somebody
    <2>2. DrawerTyped'
      BY <1>3, SettleTyped DEF Select!OnClose, Select!DrawerTabs
    <2>3. asked' = Nobody
      BY <1>3, SettleForgets DEF Select!OnClose
    <2> QED
      BY <1>3, <2>1, <2>2, <2>3 DEF Select!OnClose, TraceInv, AskedIsOfSelection,
         Select!TraceIsOfSelection
  <1>4. CASE Select!TurnLightbox
    <2>1. lightbox' \in Nat
      BY <1>4 DEF Select!TurnLightbox, MapConstants, Select!Photos, DrawerTyped
    <2>2. SelectionTyped' /\ DrawerTyped'
      BY <1>4, <2>1 DEF Select!TurnLightbox, SelectionTyped, DrawerTyped, Select!Somebody
    <2> QED
      BY <1>4, <2>2, SelectionStays DEF Select!TurnLightbox
  <1>5. ASSUME NEW f \in Features, Select!Evict(f)
        PROVE  SelectionInv'
    <2>1. SelectionTyped' /\ DrawerTyped'
      BY <1>5 DEF Select!Evict, SelectionTyped, DrawerTyped, Select!Somebody
    <2> QED
      BY <1>5, <2>1, SelectionStays DEF Select!Evict
  <1>6. ASSUME NEW t \in Select!DrawerTabs, Select!SetTab(t)
        PROVE  SelectionInv'
    <2>1. SelectionTyped'
      BY <1>6 DEF Select!SetTab, Select!CloseMenus, SelectionTyped, Select!Somebody
    <2>2. DrawerTyped' /\ asked' \in {asked, Nobody}
      BY <1>6, SettleTyped DEF Select!SetTab
    <2> QED
      BY <1>6, <2>1, <2>2, SelectionStays DEF Select!SetTab
  <1>7. ASSUME NEW f \in Features, NEW i \in 1..Select!Photos(f), Select!OpenAt(i)
        PROVE  SelectionInv'
    <2>1. Select!Photos(f) \in Nat
      BY DEF MapConstants, Select!Photos
    <2>2. lightbox' \in Nat
      BY <1>7, <2>1 DEF Select!OpenAt
    <2>3. SelectionTyped' /\ DrawerTyped'
      BY <1>7, <2>2 DEF Select!OpenAt, Select!CloseMenus, SelectionTyped, DrawerTyped,
         Select!Somebody
    <2> QED
      BY <1>7, <2>3, SelectionStays DEF Select!OpenAt
  <1> QED
    BY <1>1, <1>2, <1>3, <1>4, <1>5, <1>6, <1>7 DEF DrawerStep

------------------------------------------------------------------------------
(* Contents and trace. *)

AskStep ==
  \/ Select!ShowContents \/ Select!ContentsReturn \/ Select!OnTrace \/ Select!TraceReturns
          \/ Select!OnClear
  \/ \E f \in Features : Select!LateTraceReturns(f)

(* The panels that ask are of a selection that can be asked about. *)
LEMMA ContentsOfArea ==
  ASSUME MapConstants, SelectionTyped, DrawerTyped, "contents" \in Select!OnScreen
  PROVE  chosen \in Polygons \union Shapes
  <1>1. drawerTab # "contents"
    BY DEF DrawerTyped, Select!DrawerTabs
  <1> QED
    BY <1>1 DEF MapConstants, SelectionTyped, Select!OnScreen, Select!Sections

LEMMA TraceOfFeature ==
  ASSUME MapConstants, SelectionTyped, "trace" \in Select!OnScreen
  PROVE  chosen \in Features
  BY DEF MapConstants, SelectionTyped, Select!OnScreen, Select!Sections

LEMMA AskStepKeeps ==
  ASSUME MapConstants, SelectionInv, AskStep, UNCHANGED route
  PROVE  SelectionInv'
  <1> USE DEF SelectionInv
  <1>1. CASE Select!ShowContents
    <2>1. chosen \in Polygons \union Shapes
      BY <1>1, ContentsOfArea DEF Select!ShowContents, Select!ContentsButtons
    <2>2. SelectionTyped' /\ DrawerTyped'
      BY <1>1, <2>1 DEF Select!ShowContents, Select!CloseMenus, SelectionTyped, DrawerTyped,
         Select!Somebody
    <2> QED
      BY <1>1, <2>2, SelectionStays DEF Select!ShowContents
  <1>2. CASE Select!ContentsReturn
    <2>1. SelectionTyped' /\ DrawerTyped' /\ DrawnTyped'
      BY <1>2 DEF Select!ContentsReturn, SelectionTyped, DrawerTyped, DrawnTyped, Select!Somebody
    <2> QED
      BY <1>2, <2>1 DEF Select!ContentsReturn, TraceInv, AskedIsOfSelection,
         Select!TraceIsOfSelection
  <1>3. CASE Select!OnTrace
    <2>1. chosen \in Features
      BY <1>3, TraceOfFeature DEF Select!OnTrace, Select!TraceButtons
    <2>2. SelectionTyped' /\ DrawerTyped' /\ DrawnTyped'
      BY <1>3, <2>1 DEF Select!OnTrace, Select!CloseMenus, SelectionTyped, DrawerTyped,
         DrawnTyped, Select!Somebody
    <2> QED
      BY <1>3, <2>2 DEF Select!OnTrace, TraceInv, AskedIsOfSelection, Select!TraceIsOfSelection
  <1>4. CASE Select!TraceReturns
    <2>1. SelectionTyped' /\ DrawerTyped' /\ DrawnTyped'
      BY <1>4 DEF Select!TraceReturns, SelectionTyped, DrawerTyped, DrawnTyped, Select!Somebody
    <2> QED
      BY <1>4, <2>1 DEF Select!TraceReturns, TraceInv, AskedIsOfSelection,
         Select!TraceIsOfSelection
  <1>5. CASE Select!OnClear
    <2>1. SelectionTyped' /\ DrawerTyped' /\ DrawnTyped'
      BY <1>5 DEF Select!OnClear, Select!CloseMenus, SelectionTyped, DrawerTyped, DrawnTyped,
         Select!Somebody
    <2> QED
      BY <1>5, <2>1 DEF Select!OnClear, TraceInv, AskedIsOfSelection, Select!TraceIsOfSelection
  <1>6. ASSUME NEW f \in Features, Select!LateTraceReturns(f)
        PROVE  SelectionInv'
    <2>1. SelectionTyped' /\ DrawerTyped'
      BY <1>6 DEF Select!LateTraceReturns, SelectionTyped, DrawerTyped, Select!Somebody
    <2> QED
      BY <1>6, <2>1, SelectionStays DEF Select!LateTraceReturns, Select!LateTrace
  <1> QED
    BY <1>1, <1>2, <1>3, <1>4, <1>5, <1>6 DEF AskStep

------------------------------------------------------------------------------
LEMMA SelectionStep ==
  ASSUME MapConstants, SelectionInv, [Select!Next]_Select!vars
  PROVE  SelectionInv'
  <1>1. CASE UNCHANGED Select!vars
    BY <1>1 DEF Select!vars, Select!selectionVars, SelectionInv, SelectionTyped, DrawerTyped,
       DrawnTyped, TraceInv,
       AskedIsOfSelection, Select!TraceIsOfSelection, Select!Somebody
  <1>2. CASE Select!Next
    <2>1. (MenuStep \/ DrawerStep \/ AskStep) /\ UNCHANGED route
      BY <1>2 DEF Select!Next, Select!Here, MenuStep, DrawerStep, AskStep
    <2> QED
      BY <2>1, MenuStepKeeps, DrawerStepKeeps, AskStepKeeps
  <1> QED
    BY <1>1, <1>2

------------------------------------------------------------------------------
(* Search: MapSearch.                                                      *)
(* Layers are numbers, 0 stands for none, an empty group is no query. *)
SearchConstants == SearchLayers \subseteq Nat \ {0} /\ Search!NoQuery \notin Queries

PanelTyped ==
  /\ visible \subseteq SearchLayers /\ panel \in [mounted : BOOLEAN, layer : Search!SomeLayer]
  /\ fields \subseteq SearchLayers /\ draft \in [SearchLayers -> Search!Conditions]

SearchTyped ==
  /\ active \in [layer : Search!SomeLayer, query : Search!Conditions]
  /\ rows \in [layer : Search!SomeLayer, query : Search!Conditions, told : BOOLEAN,
          some : BOOLEAN]
  /\ running \in BOOLEAN
  /\ searches \subseteq [layer : SearchLayers, query : Queries, waits : BOOLEAN]

TableTyped ==
  /\ table \in [open : BOOLEAN, layer : Search!SomeLayer, mode : {"spatial", "search"}]
  /\ sortOf \in Search!SomeLayer

(* One search is out at a time, and while it is nothing is kept: what      *)
(* Clear needs is not there before the answer, so it is still the last     *)
(* one that was started.                                                   *)
OneSearch ==
  /\ \A s, t \in searches : s = t
  /\ \A s \in searches : s.layer = active.layer /\ s.query = active.query
  /\ searches # {} => running
  /\ running => rows = Search!NoRows

SearchInv ==
  /\ route \in Routes
  /\ PanelTyped /\ SearchTyped /\ TableTyped
  /\ OneSearch /\ Search!ResultsAreOfQuery /\ Search!TableNamesItsLayer

LEMMA SearchInitial == Search!Init => SearchInv
  <1> SUFFICES ASSUME Search!Init
               PROVE  SearchInv
    OBVIOUS
  <1> USE DEF Search!Init
  <1>1. PanelTyped
    BY DEF PanelTyped, Search!SomeLayer, Search!Conditions
  <1>2. SearchTyped
    BY DEF SearchTyped, Search!NoSearch, Search!NoRows, Search!SomeLayer, Search!Conditions
  <1>3. TableTyped
    BY DEF TableTyped, Search!SomeLayer
  <1>4. OneSearch /\ Search!ResultsAreOfQuery /\ Search!TableNamesItsLayer
    BY DEF OneSearch, Search!ResultsAreOfQuery, Search!TableNamesItsLayer
  <1> QED
    BY <1>1, <1>2, <1>3, <1>4 DEF SearchInv

LEMMA SearchInvIsEnough == SearchInv => Search!TypeOK /\ Search!ResultsAreOfQuery
        /\ Search!TableNamesItsLayer
  BY DEF SearchInv, PanelTyped, SearchTyped, TableTyped, Search!TypeOK

------------------------------------------------------------------------------
(* The panel. *)

resultVars == <<active, rows, running, table>>

LEMMA PanelKeeps ==
  ASSUME SearchInv, PanelTyped', UNCHANGED <<route, resultVars, searches, sortOf>>
  PROVE  SearchInv'
  BY DEF SearchInv, resultVars, SearchTyped, TableTyped, OneSearch, Search!ResultsAreOfQuery,
     Search!TableNamesItsLayer, Search!SomeLayer, Search!Conditions, Search!NoRows

PanelStep ==
  \/ Search!OpenPanel \/ Search!FieldsReturn
  \/ \E l \in SearchLayers : Search!ToggleLayer(l) \/ Search!SelectLayer(l)
  \/ \E q \in Search!Conditions : Search!SetDraft(q)

(* The first of the visible layers is one of them. *)
LEMMA FirstLayer ==
  ASSUME SearchConstants, visible \subseteq SearchLayers, visible # {}
  PROVE  Search!Min(visible) \in SearchLayers
  <1> DEFINE R == OpToRel(<, Nat)
  <1>1. \A x, y \in Nat : x < y => <<x, y>> \in R
    BY DEF OpToRel
  <1>2. IsWellFoundedOn(R, Nat)
    BY NatLessThanWellFounded
  <1>3. visible \subseteq Nat
    BY DEF SearchConstants
  <1> HIDE DEF R
  <1>4. PICK x \in visible : \A y \in visible : ~ (<<y, x>> \in R)
    BY <1>2, <1>3, WFMin
  <1>5. ASSUME NEW y \in visible
        PROVE  x =< y
    <2>1. ~ (y < x)
      BY <1>1, <1>3, <1>4
    <2> QED
      BY <1>3, <2>1
  <1> QED
    BY <1>5 DEF Search!Min, SearchConstants

(* The panel and what is drafted in it. *)
LEMMA PanelStepKeeps ==
  ASSUME SearchConstants, SearchInv, PanelStep, UNCHANGED route
  PROVE  SearchInv'
  <1> USE DEF SearchInv
  <1>1. PanelTyped'
    <2>1. CASE Search!OpenPanel
      <3>1. panel' \in [mounted : BOOLEAN, layer : Search!SomeLayer]
        BY <2>1, FirstLayer DEF Search!OpenPanel, PanelTyped, Search!SomeLayer
      <3> QED
        BY <2>1, <3>1 DEF Search!OpenPanel, PanelTyped, Search!SomeLayer, Search!Conditions
    <2>2. CASE Search!FieldsReturn
      BY <2>2 DEF Search!FieldsReturn, PanelTyped, Search!SomeLayer, Search!Conditions
    <2>3. ASSUME NEW l \in SearchLayers, Search!ToggleLayer(l)
          PROVE  PanelTyped'
      BY <2>3 DEF Search!ToggleLayer, PanelTyped, Search!SomeLayer, Search!Conditions
    <2>4. ASSUME NEW l \in SearchLayers, Search!SelectLayer(l)
          PROVE  PanelTyped'
      <3>1. panel' \in [mounted : BOOLEAN, layer : Search!SomeLayer]
        BY <2>4 DEF Search!SelectLayer, PanelTyped, Search!SomeLayer
      <3> QED
        BY <2>4, <3>1 DEF Search!SelectLayer, PanelTyped, Search!SomeLayer, Search!Conditions
    <2>5. ASSUME NEW q \in Search!Conditions, Search!SetDraft(q)
          PROVE  PanelTyped'
      <3>1. draft' \in [SearchLayers -> Search!Conditions]
        BY <2>5 DEF Search!SetDraft, PanelTyped
      <3> QED
        BY <2>5, <3>1 DEF Search!SetDraft, PanelTyped, Search!SomeLayer, Search!Conditions
    <2> QED
      BY <2>1, <2>2, <2>3, <2>4, <2>5 DEF PanelStep
  <1>2. UNCHANGED <<resultVars, searches, sortOf>>
    BY DEF PanelStep, Search!OpenPanel, Search!FieldsReturn, Search!ToggleLayer,
       Search!SelectLayer, Search!SetDraft, resultVars
  <1> QED
    BY <1>1, <1>2, PanelKeeps

(* A panel that is left waits for nothing any more. *)
LEMMA LeavePanelKeeps ==
  ASSUME SearchInv, Search!LeavePanel, UNCHANGED route
  PROVE  SearchInv'
  <1> USE DEF SearchInv, Search!LeavePanel
  <1>1. PanelTyped'
    BY DEF PanelTyped, Search!SomeLayer, Search!Conditions
  <1>2. \A s \in searches' : \E t \in searches :
          s.layer = t.layer /\ s.query = t.query /\ s = [t EXCEPT !.waits = FALSE]
    BY DEF SearchTyped
  <1>3. UNCHANGED <<active, rows, running, table, sortOf>>
    OBVIOUS
  <1>4. TableTyped'
    BY <1>3 DEF TableTyped, Search!SomeLayer
  <1> HIDE DEF Search!LeavePanel
  <1>5. searches' \subseteq [layer : SearchLayers, query : Queries, waits : BOOLEAN]
    <2>1. ASSUME NEW s \in searches'
          PROVE  s \in [layer : SearchLayers, query : Queries, waits : BOOLEAN]
      <3>1. PICK t \in searches : s = [t EXCEPT !.waits = FALSE]
        BY <1>2
      <3>2. t \in [layer : SearchLayers, query : Queries, waits : BOOLEAN]
        BY DEF SearchTyped
      <3> QED
        BY <3>1, <3>2
    <2> QED
      BY <2>1
  <1>6. SearchTyped'
    BY <1>3, <1>5 DEF SearchTyped, Search!SomeLayer, Search!Conditions
  <1>7. \A s, t \in searches' : s = t
    <2>1. \A s, t \in searches : s = t
      BY DEF OneSearch
    <2> QED
      BY <1>2, <2>1
  <1>8. OneSearch'
    BY <1>2, <1>3, <1>7 DEF OneSearch, Search!NoRows
  <1> QED
    BY <1>1, <1>3, <1>4, <1>6, <1>8 DEF Search!ResultsAreOfQuery, Search!TableNamesItsLayer,
       Search!NoRows

------------------------------------------------------------------------------
(* A search, from the button to its answer. *)

LEMMA OnSearchKeeps ==
  ASSUME SearchConstants, SearchInv, Search!OnSearch, UNCHANGED route
  PROVE  SearchInv'
  <1> USE DEF SearchInv, Search!OnSearch
  <1>1. PanelTyped' /\ TableTyped'
    BY DEF PanelTyped, TableTyped, Search!SomeLayer, Search!Conditions
  <1>2. searches = {}
    BY DEF OneSearch
  <1>3. panel.layer \in SearchLayers /\ draft[panel.layer] \in Queries
    BY DEF Search!DraftIsRunnable, PanelTyped, Search!SomeLayer, Search!Conditions
  <1>4. active' = [layer |-> panel.layer, query |-> draft[panel.layer]]
    OBVIOUS
  <1>5. searches' = {[layer |-> panel.layer, query |-> draft[panel.layer], waits |-> TRUE]}
    BY <1>2, <1>4
  <1>8. rows' = Search!NoRows /\ ~rows'.told /\ running' = TRUE
    BY DEF Search!NoRows
  <1> HIDE DEF Search!OnSearch
  <1>6. SearchTyped'
    <2>1. active' \in [layer : Search!SomeLayer, query : Search!Conditions]
      BY <1>3, <1>4 DEF Search!SomeLayer, Search!Conditions
    <2>2. Search!NoRows \in [layer : Search!SomeLayer, query : Search!Conditions, told : BOOLEAN,
          some : BOOLEAN]
      BY DEF Search!NoRows, Search!SomeLayer, Search!Conditions
    <2>3. searches' \subseteq [layer : SearchLayers, query : Queries, waits : BOOLEAN]
      BY <1>3, <1>5
    <2> QED
      BY <1>8, <2>1, <2>2, <2>3 DEF SearchTyped
  <1>7. OneSearch'
    BY <1>4, <1>5, <1>8 DEF OneSearch
  <1>9. Search!ResultsAreOfQuery' /\ Search!TableNamesItsLayer'
    BY <1>8 DEF Search!ResultsAreOfQuery, Search!TableNamesItsLayer, Search!NoRows
  <1> QED
    BY <1>1, <1>6, <1>7, <1>9

LEMMA SearchReturnsKeeps ==
  ASSUME SearchConstants, SearchInv, NEW s \in searches, Search!SearchReturns(s), UNCHANGED route
  PROVE  SearchInv'
  <1> USE DEF SearchInv, Search!SearchReturns
  <1>1. PanelTyped'
    BY DEF PanelTyped, Search!SomeLayer, Search!Conditions
  <1>2. searches' = {} /\ running' = FALSE
    BY DEF OneSearch
  <1>3. s \in [layer : SearchLayers, query : Queries, waits : BOOLEAN]
    BY DEF SearchTyped
  <1>4. PICK some \in BOOLEAN :
          rows' = [layer |-> s.layer, query |-> s.query, told |-> s.waits, some |-> some]
    OBVIOUS
  <1>5. rows' \in [layer : Search!SomeLayer, query : Search!Conditions, told : BOOLEAN,
        some : BOOLEAN]
    BY <1>3, <1>4 DEF Search!SomeLayer, Search!Conditions
  <1>6. SearchTyped'
    BY <1>2, <1>5 DEF SearchTyped
  <1>7. TableTyped'
    BY <1>3 DEF TableTyped, Search!ShowSearch, Search!SomeLayer
  <1>8. OneSearch'
    BY <1>2 DEF OneSearch
  <1>9. Search!ResultsAreOfQuery'
    BY <1>4 DEF Search!ResultsAreOfQuery, OneSearch
  <1>10. Search!TableNamesItsLayer'
    BY <1>4 DEF Search!TableNamesItsLayer, Search!ShowSearch
  <1> QED
    BY <1>1, <1>6, <1>7, <1>8, <1>9, <1>10

LEMMA SearchFailsKeeps ==
  ASSUME SearchInv, NEW s \in searches, Search!SearchFails(s), UNCHANGED route
  PROVE  SearchInv'
  <1> USE DEF SearchInv, Search!SearchFails
  <1>1. searches' = {} /\ running' = FALSE
    BY DEF OneSearch
  <1>2. PanelTyped' /\ TableTyped'
    BY DEF PanelTyped, TableTyped, Search!SomeLayer, Search!Conditions
  <1>3. SearchTyped' /\ OneSearch'
    BY <1>1 DEF SearchTyped, OneSearch, Search!SomeLayer, Search!Conditions
  <1> QED
    BY <1>2, <1>3 DEF Search!ResultsAreOfQuery, Search!TableNamesItsLayer, Search!NoRows

(* What Clear offers to clear has come: nothing is out. *)
LEMMA OnClearResultsKeeps ==
  ASSUME SearchInv, Search!OnClearResults, UNCHANGED route
  PROVE  SearchInv'
  <1> USE DEF SearchInv, Search!OnClearResults
  <1>1. rows.some
    BY DEF Search!ClearOffered
  <1>2. searches = {}
    BY <1>1 DEF OneSearch, Search!NoRows
  <1>3. PanelTyped'
    BY DEF PanelTyped, Search!SomeLayer, Search!Conditions
  <1>4. table' \in [open : BOOLEAN, layer : Search!SomeLayer, mode : {"spatial", "search"}]
        /\ ~table'.open
    BY DEF TableTyped
  <1>5. SearchTyped'
    BY <1>2 DEF SearchTyped, Search!NoSearch, Search!NoRows, Search!SomeLayer, Search!Conditions
  <1>6. TableTyped'
    BY <1>4 DEF TableTyped, Search!SomeLayer
  <1>7. OneSearch'
    BY <1>2 DEF OneSearch
  <1> QED
    BY <1>3, <1>4, <1>5, <1>6, <1>7 DEF Search!ResultsAreOfQuery, Search!TableNamesItsLayer

------------------------------------------------------------------------------
(* The table. *)

TableStep == Search!CloseTable \/ Search!ToggleSort
        \/ \E l \in SearchLayers : Search!ShowSpatial(l)

LEMMA TableStepKeeps ==
  ASSUME SearchInv, TableStep, UNCHANGED route
  PROVE  SearchInv'
  <1> USE DEF SearchInv
  <1>1. UNCHANGED <<visible, panel, fields, draft, active, rows, running, searches>>
    BY DEF TableStep, Search!CloseTable, Search!ToggleSort, Search!ShowSpatial
  <1>2. TableTyped' /\ Search!TableNamesItsLayer'
    <2>1. CASE Search!CloseTable
      BY <2>1 DEF Search!CloseTable, TableTyped, Search!TableNamesItsLayer, Search!SomeLayer
    <2>2. CASE Search!ToggleSort
      <3>1. Search!ShownLayer \in Search!SomeLayer
        BY DEF Search!ShownLayer, TableTyped, SearchTyped, Search!SomeLayer
      <3>2. sortOf' \in Search!SomeLayer
        BY <2>2, <3>1 DEF Search!ToggleSort, Search!SomeLayer
      <3> QED
        BY <2>2, <3>2 DEF Search!ToggleSort, TableTyped, Search!TableNamesItsLayer,
           Search!SomeLayer
    <2>3. ASSUME NEW l \in SearchLayers, Search!ShowSpatial(l)
          PROVE  TableTyped' /\ Search!TableNamesItsLayer'
      BY <2>3 DEF Search!ShowSpatial, TableTyped, Search!TableNamesItsLayer, Search!SomeLayer
    <2> QED
      BY <2>1, <2>2, <2>3 DEF TableStep
  <1>3. PanelTyped' /\ SearchTyped'
    BY <1>1 DEF PanelTyped, SearchTyped, Search!SomeLayer, Search!Conditions
  <1>4. OneSearch' /\ Search!ResultsAreOfQuery'
    BY <1>1 DEF OneSearch, Search!ResultsAreOfQuery, Search!NoRows
  <1> QED
    BY <1>2, <1>3, <1>4

------------------------------------------------------------------------------
LEMMA SearchStep ==
  ASSUME SearchConstants, SearchInv, [Search!Next]_Search!vars
  PROVE  SearchInv'
  <1>1. CASE UNCHANGED Search!vars
    <2>1. PanelTyped' /\ UNCHANGED <<route, resultVars, searches, sortOf>>
      BY <1>1 DEF Search!vars, Search!searchVars, resultVars, SearchInv, PanelTyped,
         Search!SomeLayer, Search!Conditions
    <2> QED
      BY <2>1, PanelKeeps
  <1>2. CASE Search!Next
    <2>1. UNCHANGED route
      BY <1>2 DEF Search!Next, Search!Here
    <2>2. \/ PanelStep \/ Search!LeavePanel \/ Search!OnSearch \/ Search!OnClearResults
          \/ TableStep
          \/ \E s \in searches : Search!SearchReturns(s) \/ Search!SearchFails(s)
      BY <1>2 DEF Search!Next, PanelStep, TableStep
    <2> QED
      BY <2>1, <2>2, PanelStepKeeps, LeavePanelKeeps, OnSearchKeeps, SearchReturnsKeeps,
         SearchFailsKeeps, OnClearResultsKeeps, TableStepKeeps
  <1> QED
    BY <1>1, <1>2

------------------------------------------------------------------------------
(* Export, print and notifications: MapExport.                             *)
ExportConstants == MaxRuns \in Nat /\ MaxRightsChanges \in Nat

ToastState ==
  [shown : BOOLEAN, kind : {"none", "progress", "success", "error"}, timed : BOOLEAN,
   dismissed : BOOLEAN]
RunState ==
  [id : 1..MaxRuns, of : {"layer", "bundle", "print"}, layers : SUBSET Layers,
   within : Export!Extents, image : BOOLEAN, here : BOOLEAN]
ToastsTyped == toasts \in [1..MaxRuns -> ToastState]
RunsTyped == runs \subseteq RunState

(* A notification is of one run, from the run's beginning, and it is not   *)
(* timed before the run's end: nothing but the user takes it away.         *)
OneRunEach == \A r, s \in runs : r.id = s.id => r = s
RunsAreNotified == \A r \in runs : toasts[r.id].kind # "none"
ProgressStays ==
  \A i \in 1..MaxRuns :
    (toasts[i].kind = "progress" => ~toasts[i].timed) /\ (toasts[i].shown => ~toasts[i].dismissed)

ToastInv ==
  ToastsTyped /\ RunsTyped /\ OneRunEach /\ RunsAreNotified /\ ProgressStays
          /\ Export!ProgressIsOfRun

LEMMA ToastInitial == Export!Init => ToastInv
  <1> SUFFICES ASSUME Export!Init
               PROVE  ToastInv
    OBVIOUS
  <1>1. Export!NoToast \in ToastState
    BY DEF Export!NoToast, ToastState
  <1>2. toasts = [i \in 1..MaxRuns |-> Export!NoToast] /\ runs = {}
    BY DEF Export!Init
  <1>3. ToastsTyped /\ RunsTyped /\ OneRunEach /\ RunsAreNotified
    BY <1>1, <1>2 DEF ToastsTyped, RunsTyped, OneRunEach, RunsAreNotified
  <1>4. ProgressStays /\ Export!ProgressIsOfRun
    BY <1>2 DEF ProgressStays, Export!ProgressIsOfRun, Export!NoToast
  <1> QED
    BY <1>3, <1>4 DEF ToastInv

(* The first unused notification is an unused one. *)
LEMMA FirstUnused ==
  ASSUME ExportConstants, Export!Unused # {}
  PROVE  Export!Min(Export!Unused) \in Export!Unused
  <1> DEFINE R == OpToRel(<, Nat)
  <1>1. \A x, y \in Nat : x < y => <<x, y>> \in R
    BY DEF OpToRel
  <1>2. IsWellFoundedOn(R, Nat)
    BY NatLessThanWellFounded
  <1>3. Export!Unused \subseteq Nat
    BY DEF ExportConstants, Export!Unused
  <1> HIDE DEF R
  <1>4. PICK x \in Export!Unused : \A y \in Export!Unused : ~ (<<y, x>> \in R)
    BY <1>2, <1>3, WFMin
  <1>5. ASSUME NEW y \in Export!Unused
        PROVE  x =< y
    <2>1. ~ (y < x)
      BY <1>1, <1>3, <1>4
    <2> QED
      BY <1>3, <2>1
  <1> QED
    BY <1>5 DEF Export!Min

------------------------------------------------------------------------------
LEMMA RunHasToast ==
  ASSUME ToastInv, NEW r \in runs
  PROVE  r.id \in 1..MaxRuns
  BY DEF ToastInv, RunsTyped, RunState

(* One notification changes, and the runs stay: it is told of as before.   *)
LEMMA ToastChanges ==
  ASSUME ToastInv, UNCHANGED runs, NEW i \in 1..MaxRuns, NEW x \in ToastState,
         toasts' = [toasts EXCEPT ![i] = x],
         x.kind = toasts[i].kind, ~x.shown, ~x.timed,
         x.dismissed \/ ~ \E r \in runs : r.id = i
  PROVE  ToastInv'
  <1> USE DEF ToastInv
  <1>1. ToastsTyped' /\ RunsTyped' /\ OneRunEach'
    BY DEF ToastsTyped, RunsTyped, OneRunEach
  <1>2. \A j \in 1..MaxRuns : toasts'[j] = IF j = i THEN x ELSE toasts[j]
    BY DEF ToastsTyped
  <1>3. RunsAreNotified'
    BY <1>2, RunHasToast DEF RunsAreNotified
  <1>4. ProgressStays'
    BY <1>2 DEF ProgressStays
  <1>5. Export!ProgressIsOfRun'
    BY <1>2 DEF Export!ProgressIsOfRun
  <1> QED
    BY <1>1, <1>3, <1>4, <1>5

LEMMA NothingKeeps ==
  ASSUME ToastInv, UNCHANGED <<toasts, runs>>
  PROVE  ToastInv'
  BY DEF ToastInv, ToastsTyped, RunsTyped, OneRunEach, RunsAreNotified, ProgressStays,
     Export!ProgressIsOfRun

(* A notification is taken away, by the user or because its time is up.    *)
LEMMA DismissKeeps ==
  ASSUME ToastInv, NEW i \in 1..MaxRuns, Export!Dismiss(i)
  PROVE  ToastInv'
  <1> DEFINE x == [Export!NoToast EXCEPT !.kind = toasts[i].kind, !.dismissed = TRUE]
  <1>1. toasts' = [toasts EXCEPT ![i] = x] /\ UNCHANGED runs
    BY DEF Export!Dismiss
  <1>2. x \in ToastState
    BY DEF ToastInv, ToastsTyped, ToastState, Export!NoToast
  <1>3. x.kind = toasts[i].kind /\ ~x.shown /\ ~x.timed /\ x.dismissed
    BY DEF Export!NoToast
  <1> HIDE DEF x
  <1> QED
    BY <1>1, <1>2, <1>3, ToastChanges

LEMMA ExpireKeeps ==
  ASSUME ToastInv, NEW i \in 1..MaxRuns, Export!Expire(i)
  PROVE  ToastInv'
  <1> DEFINE x == [Export!NoToast EXCEPT !.kind = toasts[i].kind]
  <1>1. toasts' = [toasts EXCEPT ![i] = x] /\ UNCHANGED runs
    BY DEF Export!Expire
  <1>2. x \in ToastState
    BY DEF ToastInv, ToastsTyped, ToastState, Export!NoToast
  <1>4. x.kind = toasts[i].kind /\ ~x.shown /\ ~x.timed
    BY DEF Export!NoToast
  <1>3. ~ \E r \in runs : r.id = i
    BY DEF Export!Expire, ToastInv, ProgressStays, Export!ProgressIsOfRun
  <1> HIDE DEF x
  <1> QED
    BY <1>1, <1>2, <1>3, <1>4, ToastChanges

------------------------------------------------------------------------------
(* A run begins. *)
LEMMA BeginKeeps ==
  ASSUME ExportConstants, ToastInv, NEW of \in {"layer", "bundle", "print"},
         NEW layers \in SUBSET Layers, NEW within \in Export!Extents, NEW image \in BOOLEAN,
         Export!Begin(of, layers, within, image)
  PROVE  ToastInv'
  <1> USE DEF ToastInv
  <1> DEFINE i == Export!Min(Export!Unused)
             run == [id |-> i, of |-> of, layers |-> layers, within |-> within, image |-> image,
                     here |-> TRUE]
  <1>1. i \in 1..MaxRuns /\ toasts[i].kind = "none"
    BY FirstUnused DEF Export!Begin, Export!Unused
  <1>2. runs' = runs \union {run}
    BY DEF Export!Begin
  <1>3. toasts' = [toasts EXCEPT ![i] = Export!Show]
    BY DEF Export!Begin
  <1> HIDE DEF i
  <1>4. Export!Show.shown /\ Export!Show.kind = "progress" /\ ~Export!Show.timed
        /\ ~Export!Show.dismissed
    BY DEF Export!Show, Export!NoToast
  <1>5. \A j \in 1..MaxRuns : toasts'[j] = IF j = i THEN Export!Show ELSE toasts[j]
    BY <1>3 DEF ToastsTyped
  <1>6. ToastsTyped'
    <2>1. Export!Show \in ToastState
      BY DEF Export!Show, Export!NoToast, ToastState
    <2> QED
      BY <1>3, <2>1 DEF ToastsTyped
  <1>7. run \in RunState
    BY <1>1 DEF RunState
  <1>8. RunsTyped'
    BY <1>2, <1>7 DEF RunsTyped
  <1>9. \A r \in runs : r.id # i /\ r.id \in 1..MaxRuns
    BY <1>1, RunHasToast DEF RunsAreNotified
  <1>10. run.id = i
    OBVIOUS
  <1> HIDE DEF run
  <1>11. OneRunEach'
    BY <1>2, <1>9, <1>10 DEF OneRunEach
  <1>12. RunsAreNotified'
    BY <1>1, <1>2, <1>4, <1>5, <1>9, <1>10 DEF RunsAreNotified
  <1>13. ProgressStays'
    BY <1>4, <1>5 DEF ProgressStays
  <1>14. Export!ProgressIsOfRun'
    <2>1. ASSUME NEW j \in 1..MaxRuns
          PROVE  (\E r \in runs' : r.id = j) <=> (j = i \/ \E r \in runs : r.id = j)
      BY <1>2, <1>10
    <2> QED
      BY <1>4, <1>5, <2>1 DEF Export!ProgressIsOfRun
  <1> QED
    BY <1>6, <1>8, <1>11, <1>12, <1>13, <1>14

(* A run ends, and its notification says so if it is still there. *)
LEMMA EndKeeps ==
  ASSUME ToastInv, NEW r \in runs, NEW kind \in {"success", "error"},
         runs' = runs \ {r}, Export!Update(r.id, kind)
  PROVE  ToastInv'
  <1> USE DEF ToastInv
  <1>1. r.id \in 1..MaxRuns
    BY RunHasToast
  <1>2. \A s \in runs' : s \in runs /\ s.id # r.id /\ s.id \in 1..MaxRuns
    BY RunHasToast DEF OneRunEach
  <1>3. \A j \in 1..MaxRuns :
          toasts'[j] = IF j = r.id /\ toasts[j].shown
                         THEN [toasts[j] EXCEPT !.kind = kind, !.timed = TRUE] ELSE toasts[j]
    BY <1>1 DEF Export!Update, ToastsTyped
  <1>4. ToastsTyped'
    <2>1. CASE toasts[r.id].shown
      <3>1. toasts[r.id] \in ToastState
        BY <1>1 DEF ToastsTyped
      <3>2. [toasts[r.id] EXCEPT !.kind = kind, !.timed = TRUE] \in ToastState
        BY <3>1 DEF ToastState
      <3>3. toasts' = [toasts EXCEPT ![r.id] = [toasts[r.id] EXCEPT !.kind = kind,
            !.timed = TRUE]]
        BY <1>1, <2>1 DEF Export!Update, ToastsTyped
      <3> QED
        BY <3>2, <3>3 DEF ToastsTyped
    <2>2. CASE ~toasts[r.id].shown
      BY <2>2 DEF Export!Update, ToastsTyped
    <2> QED
      BY <2>1, <2>2
  <1>5. \A j \in 1..MaxRuns : toasts[j] \in ToastState
    BY DEF ToastsTyped
  <1>6. \A j \in 1..MaxRuns :
          /\ j # r.id \/ ~toasts[j].shown => toasts'[j] = toasts[j]
          /\ j = r.id /\ toasts[j].shown =>
               /\ toasts'[j].kind = kind /\ toasts'[j].shown
               /\ toasts'[j].dismissed = toasts[j].dismissed
    BY <1>3, <1>5 DEF ToastState
  <1>7. RunsTyped' /\ OneRunEach'
    BY <1>2 DEF RunsTyped, OneRunEach
  <1>8. RunsAreNotified'
    BY <1>2, <1>6 DEF RunsAreNotified
  <1>9. ProgressStays'
    BY <1>6 DEF ProgressStays
  <1>10. Export!ProgressIsOfRun'
    <2>1. ASSUME NEW j \in 1..MaxRuns
          PROVE  (\E s \in runs' : s.id = j) <=> (j # r.id /\ \E s \in runs : s.id = j)
      BY <1>2
    <2> QED
      BY <1>1, <1>6, <2>1 DEF Export!ProgressIsOfRun
  <1> QED
    BY <1>4, <1>7, <1>8, <1>9, <1>10

(* The button of a layer that is hidden is forgotten by its run. *)
LEMMA ToggleLayerKeeps ==
  ASSUME ToastInv, NEW l \in Layers, Export!ToggleLayer(l)
  PROVE  ToastInv'
  <1> USE DEF ToastInv
  <1> DEFINE Left(r) == [r EXCEPT !.here = @ /\ (r.of # "layer" \/ l \notin r.layers)]
  <1>1. toasts' = toasts /\ runs' = {Left(r) : r \in runs}
    BY DEF Export!ToggleLayer
  <1>2. \A r \in runs : Left(r) \in RunState /\ Left(r).id = r.id
    BY DEF RunsTyped, RunState
  <1> HIDE DEF Left
  <1>3. RunsTyped'
    BY <1>1, <1>2 DEF RunsTyped
  <1>4. OneRunEach'
    <2>1. \A r, s \in runs : r.id = s.id => r = s
      BY DEF OneRunEach
    <2>2. ASSUME NEW x \in runs', NEW y \in runs', x.id = y.id
          PROVE  x = y
      <3>1. PICK r \in runs : x = Left(r)
        BY <1>1
      <3>2. PICK s \in runs : y = Left(s)
        BY <1>1
      <3> QED
        BY <1>2, <2>1, <2>2, <3>1, <3>2
    <2> QED
      BY <2>2 DEF OneRunEach
  <1>5. RunsAreNotified'
    BY <1>1, <1>2 DEF RunsAreNotified
  <1>6. ASSUME NEW j \in 1..MaxRuns
        PROVE  (\E r \in runs' : r.id = j) <=> (\E r \in runs : r.id = j)
    BY <1>1, <1>2
  <1>7. ToastsTyped' /\ ProgressStays' /\ Export!ProgressIsOfRun'
    BY <1>1, <1>6 DEF ToastsTyped, ProgressStays, Export!ProgressIsOfRun
  <1> QED
    BY <1>3, <1>4, <1>5, <1>7

------------------------------------------------------------------------------
(* What is around the runs. *)

MapTyped ==
  /\ onMap \subseteq Layers /\ drawn \in BOOLEAN
  /\ granted \subseteq Layers /\ offered \subseteq Layers /\ changes \in 0..MaxRightsChanges
  /\ token \in {"good", "expired"}
ButtonState == [open : BOOLEAN, mode : Export!Extents, busy : BOOLEAN]
ButtonsTyped == buttons \in [Layers -> ButtonState]
DialogTyped ==
  dialog \in [open : BOOLEAN, selected : SUBSET Layers, mode : Export!Extents, busy : BOOLEAN]
PrintTyped == print \in [open : BOOLEAN, image : BOOLEAN, exporting : BOOLEAN]
FileTyped == file \in [layers : SUBSET Layers, within : Export!Extents, image : BOOLEAN]
ControlsTyped == ButtonsTyped /\ DialogTyped /\ PrintTyped

(* The inductive invariant. *)
ExportInv ==
  route \in Routes /\ MapTyped /\ ControlsTyped /\ FileTyped /\ ToastInv

LEMMA ExportInvIsEnough == ExportInv => Export!TypeOK /\ Export!ProgressIsOfRun
  BY DEF ExportInv, MapTyped, ControlsTyped, ButtonsTyped, ButtonState, DialogTyped, PrintTyped,
     FileTyped, ToastInv, ToastsTyped, ToastState, RunsTyped, RunState, Export!TypeOK

LEMMA ExportInitial == ExportConstants /\ Export!Init => ExportInv
  <1> SUFFICES ASSUME ExportConstants, Export!Init
               PROVE  ExportInv
    OBVIOUS
  <1>1. MapTyped
    BY DEF Export!Init, MapTyped, ExportConstants
  <1>2. ButtonsTyped
    BY DEF Export!Init, ButtonsTyped, ButtonState, Export!IdleButton, Export!Extents
  <1>3. DialogTyped /\ PrintTyped
    BY DEF Export!Init, DialogTyped, PrintTyped, Export!Extents
  <1>4. FileTyped
    BY DEF Export!Init, FileTyped, Export!NoFile, Export!Extents
  <1> QED
    BY <1>1, <1>2, <1>3, <1>4, ToastInitial DEF Export!Init, ExportInv, ControlsTyped

LEMMA MapKept ==
  ASSUME MapTyped, UNCHANGED <<onMap, drawn, granted, changes, offered, token>>
  PROVE  MapTyped'
  BY DEF MapTyped

LEMMA ControlsKept ==
  ASSUME ControlsTyped, UNCHANGED <<buttons, dialog, print>>
  PROVE  ControlsTyped'
  BY DEF ControlsTyped, ButtonsTyped, DialogTyped, PrintTyped

LEMMA FileKept ==
  ASSUME FileTyped, UNCHANGED file
  PROVE  FileTyped'
  BY DEF FileTyped

LEMMA ToastStepKeeps ==
  ASSUME ExportInv, Export!ToastStep, UNCHANGED route
  PROVE  ExportInv'
  <1>1. ToastInv'
    BY DismissKeeps, ExpireKeeps DEF Export!ToastStep, ExportInv
  <1>2. UNCHANGED <<onMap, drawn, granted, changes, offered, token, buttons, dialog, print, file>>
    BY DEF Export!ToastStep, Export!Dismiss, Export!Expire
  <1> QED
    BY <1>1, <1>2, MapKept, ControlsKept, FileKept DEF ExportInv

------------------------------------------------------------------------------
(* The end of a run. *)

LEMMA ReleaseTyped ==
  ASSUME ControlsTyped, NEW r, NEW done \in BOOLEAN, Export!Release(r, done)
  PROVE  ControlsTyped'
  <1> USE DEF ControlsTyped
  <1>1. ButtonsTyped'
    <2>1. \A l \in Layers : /\ buttons[l] \in ButtonState
                            /\ [buttons[l] EXCEPT !.busy = FALSE] \in ButtonState
      BY DEF ButtonsTyped, ButtonState
    <2> QED
      BY <2>1 DEF Export!Release, ButtonsTyped
  <1>2. DialogTyped'
    <2>1. [dialog EXCEPT !.busy = FALSE, !.open = @ /\ ~done]
            \in [open : BOOLEAN, selected : SUBSET Layers, mode : Export!Extents, busy : BOOLEAN]
      BY DEF DialogTyped
    <2> QED
      BY <2>1 DEF Export!Release, DialogTyped
  <1>3. PrintTyped'
    BY DEF Export!Release, PrintTyped
  <1> QED
    BY <1>1, <1>2, <1>3

EndStep(r) == Export!DownloadReturns(r) \/ Export!DownloadFails(r) \/ Export!PrintReturns(r)
        \/ Export!PrintFails(r)

LEMMA EndStepKeeps ==
  ASSUME ExportInv, NEW r \in runs, EndStep(r), UNCHANGED route
  PROVE  ExportInv'
  <1> USE DEF ExportInv
  <1>1. PICK kind \in {"success", "error"} : runs' = runs \ {r} /\ Export!Update(r.id, kind)
    BY DEF EndStep, Export!DownloadReturns, Export!DownloadFails, Export!PrintReturns,
       Export!PrintFails, Export!Succeeds, Export!Fails
  <1>2. ToastInv'
    BY <1>1, EndKeeps
  <1>3. UNCHANGED <<onMap, drawn, granted, changes, offered, token>>
    BY DEF EndStep, Export!DownloadReturns, Export!DownloadFails, Export!PrintReturns,
       Export!PrintFails, Export!Succeeds, Export!Fails
  <1>4. ControlsTyped'
    BY ReleaseTyped DEF EndStep, Export!DownloadReturns, Export!DownloadFails,
       Export!PrintReturns, Export!PrintFails,
       Export!Succeeds, Export!Fails
  <1>5. FileTyped'
    <2>1. r.layers \in SUBSET Layers /\ r.within \in Export!Extents /\ r.image \in BOOLEAN
      BY DEF ToastInv, RunsTyped, RunState
    <2>2. Export!Exportable(r.layers) \in SUBSET Layers
      BY <2>1 DEF Export!Exportable
    <2>3. \/ UNCHANGED file
          \/ file' = [layers |-> Export!Exportable(r.layers), within |-> r.within, image |-> TRUE]
          \/ file' = [layers |-> r.layers, within |-> r.within, image |-> r.image]
      BY DEF EndStep, Export!DownloadReturns, Export!DownloadFails, Export!PrintReturns,
         Export!PrintFails, Export!Fails
    <2>4. ASSUME NEW layers \in SUBSET Layers, NEW image \in BOOLEAN,
                 file' = [layers |-> layers, within |-> r.within, image |-> image]
          PROVE  FileTyped'
      BY <2>1, <2>4 DEF FileTyped
    <2> QED
      BY <2>1, <2>2, <2>3, <2>4, FileKept
  <1> QED
    BY <1>2, <1>3, <1>4, <1>5, MapKept

------------------------------------------------------------------------------
(* The rest of the steps. *)

AroundStep ==
  \/ Export!TokenExpires \/ Export!TokenRenewed \/ Export!LayersReturn \/ Export!Draw
  \/ \E l \in Layers : Export!ToggleLayer(l) \/ Export!RightsChange(l)

LEMMA AroundStepKeeps ==
  ASSUME ExportConstants, ExportInv, AroundStep, UNCHANGED route
  PROVE  ExportInv'
  <1> USE DEF ExportInv
  <1>1. FileTyped'
    BY FileKept DEF AroundStep, Export!TokenExpires, Export!TokenRenewed, Export!LayersReturn,
       Export!Draw, Export!ToggleLayer,
       Export!RightsChange
  <1>2. MapTyped'
    <2>1. CASE Export!TokenExpires \/ Export!TokenRenewed
      BY <2>1 DEF Export!TokenExpires, Export!TokenRenewed, MapTyped
    <2>2. CASE Export!LayersReturn \/ Export!Draw
      BY <2>2 DEF Export!LayersReturn, Export!Draw, MapTyped
    <2>3. ASSUME NEW l \in Layers, Export!ToggleLayer(l)
          PROVE  MapTyped'
      BY <2>3 DEF Export!ToggleLayer, MapTyped
    <2>4. ASSUME NEW l \in Layers, Export!RightsChange(l)
          PROVE  MapTyped'
      BY <2>4 DEF Export!RightsChange, MapTyped, ExportConstants
    <2> QED
      BY <2>1, <2>2, <2>3, <2>4 DEF AroundStep
  <1>3. CASE Export!TokenExpires \/ Export!TokenRenewed \/ Export!LayersReturn \/ Export!Draw
             \/ \E l \in Layers : Export!RightsChange(l)
    <2>1. UNCHANGED <<buttons, dialog, print, runs, toasts>>
      BY <1>3 DEF Export!TokenExpires, Export!TokenRenewed, Export!LayersReturn, Export!Draw,
         Export!RightsChange
    <2> QED
      BY <1>1, <1>2, <2>1, ControlsKept, NothingKeeps
  <1>4. ASSUME NEW l \in Layers, Export!ToggleLayer(l)
        PROVE  ExportInv'
    <2>1. Export!IdleButton \in ButtonState
      BY DEF Export!IdleButton, ButtonState, Export!Extents
    <2>2. ControlsTyped'
      BY <1>4, <2>1 DEF Export!ToggleLayer, ControlsTyped, ButtonsTyped, DialogTyped, PrintTyped
    <2> QED
      BY <1>1, <1>2, <1>4, <2>2, ToggleLayerKeeps
  <1> QED
    BY <1>3, <1>4 DEF AroundStep

(* One button changes. *)
LEMMA ButtonChanges ==
  ASSUME ControlsTyped, NEW l \in Layers, NEW x \in ButtonState,
         buttons' = [buttons EXCEPT ![l] = x], UNCHANGED <<dialog, print>>
  PROVE  ControlsTyped'
  BY DEF ControlsTyped, ButtonsTyped, DialogTyped, PrintTyped

LEMMA ButtonStepKeeps ==
  ASSUME ExportConstants, ExportInv, Export!ButtonStep, UNCHANGED route
  PROVE  ExportInv'
  <1> USE DEF ExportInv
  <1>1. PICK l \in Layers : Export!ToggleMenu(l) \/ Export!DoExport(l)
        \/ \E mode \in Export!Extents : Export!SetMode(l, mode)
    BY DEF Export!ButtonStep
  <1>2. buttons[l] \in ButtonState /\ buttons \in [Layers -> ButtonState]
    BY DEF ControlsTyped, ButtonsTyped
  <1>3. ControlsTyped'
    <2>1. CASE Export!ToggleMenu(l)
      <3> DEFINE x == [buttons[l] EXCEPT !.open = ~@]
      <3>1. x \in ButtonState
        BY <1>2 DEF ButtonState
      <3>2. buttons' = [buttons EXCEPT ![l] = x] /\ UNCHANGED <<dialog, print>>
        BY <1>2, <2>1 DEF Export!ToggleMenu
      <3> QED
        BY <3>1, <3>2, ButtonChanges
    <2>2. CASE Export!DoExport(l)
      <3> DEFINE x == [buttons[l] EXCEPT !.busy = TRUE, !.open = FALSE]
      <3>1. x \in ButtonState
        BY <1>2 DEF ButtonState
      <3>2. buttons' = [buttons EXCEPT ![l] = x] /\ UNCHANGED <<dialog, print>>
        BY <1>2, <2>2 DEF Export!DoExport
      <3> QED
        BY <3>1, <3>2, ButtonChanges
    <2>3. ASSUME NEW mode \in Export!Extents, Export!SetMode(l, mode)
          PROVE  ControlsTyped'
      <3> DEFINE x == [buttons[l] EXCEPT !.mode = mode]
      <3>1. x \in ButtonState
        BY <1>2 DEF ButtonState
      <3>2. buttons' = [buttons EXCEPT ![l] = x] /\ UNCHANGED <<dialog, print>>
        BY <1>2, <2>3 DEF Export!SetMode
      <3> QED
        BY <3>1, <3>2, ButtonChanges
    <2> QED
      BY <1>1, <2>1, <2>2, <2>3
  <1>4. UNCHANGED <<onMap, drawn, granted, changes, offered, token, file>>
    BY <1>1 DEF Export!ToggleMenu, Export!DoExport, Export!SetMode, Export!Begin
  <1>5. ToastInv'
    <2>1. CASE Export!DoExport(l)
      <3>1. Export!Within(buttons[l].mode) \in Export!Extents
        BY DEF Export!Within, Export!Extents
      <3> QED
        BY <2>1, <3>1, BeginKeeps DEF Export!DoExport
    <2>2. CASE Export!ToggleMenu(l) \/ \E mode \in Export!Extents : Export!SetMode(l, mode)
      BY <2>2, NothingKeeps DEF Export!ToggleMenu, Export!SetMode
    <2> QED
      BY <1>1, <2>1, <2>2
  <1> QED
    BY <1>3, <1>4, <1>5, MapKept, FileKept

LEMMA DialogStepKeeps ==
  ASSUME ExportConstants, ExportInv, Export!DialogStep, UNCHANGED route
  PROVE  ExportInv'
  <1> USE DEF ExportInv
  <1>1. dialog.selected \in SUBSET Layers /\ Export!ExportableLayers \in SUBSET Layers
    BY DEF ControlsTyped, DialogTyped, Export!ExportableLayers, MapTyped
  <1>2. DialogTyped'
    BY <1>1 DEF Export!DialogStep, Export!OpenDialog, Export!CloseDialog, Export!Choose,
       Export!SetExtent, Export!RunExport, ControlsTyped,
       DialogTyped
  <1>3. UNCHANGED <<onMap, drawn, granted, changes, offered, token, buttons, print, file>>
    BY DEF Export!DialogStep, Export!OpenDialog, Export!CloseDialog, Export!Choose,
       Export!SetExtent, Export!RunExport, Export!Begin
  <1>4. ToastInv'
    <2>1. CASE Export!RunExport
      <3>1. Export!Within(dialog.mode) \in Export!Extents
        BY DEF Export!Within, Export!Extents
      <3> QED
        BY <1>1, <2>1, <3>1, BeginKeeps DEF Export!RunExport
    <2>2. CASE UNCHANGED <<runs, toasts>>
      BY <2>2, NothingKeeps
    <2> QED
      BY <2>1, <2>2 DEF Export!DialogStep, Export!OpenDialog, Export!CloseDialog, Export!Choose,
         Export!SetExtent
  <1>5. ControlsTyped'
    BY <1>2, <1>3 DEF ControlsTyped, ButtonsTyped, PrintTyped
  <1> QED
    BY <1>3, <1>4, <1>5, MapKept, FileKept

PreviewStep == Export!OpenPrint \/ Export!Grab \/ Export!ClosePrint \/ Export!OnDownload

LEMMA PreviewStepKeeps ==
  ASSUME ExportConstants, ExportInv, PreviewStep, UNCHANGED route
  PROVE  ExportInv'
  <1> USE DEF ExportInv
  <1>1. PrintTyped'
    BY DEF PreviewStep, Export!OpenPrint, Export!Grab, Export!ClosePrint, Export!OnDownload,
       ControlsTyped, PrintTyped
  <1>2. UNCHANGED <<onMap, drawn, granted, changes, offered, token, buttons, dialog, file>>
    BY DEF PreviewStep, Export!OpenPrint, Export!Grab, Export!ClosePrint, Export!OnDownload,
       Export!Begin
  <1>3. ToastInv'
    <2>1. CASE Export!OnDownload
      <3>1. onMap \in SUBSET Layers /\ print.image \in BOOLEAN /\ "viewport" \in Export!Extents
        BY DEF MapTyped, ControlsTyped, PrintTyped, Export!Extents
      <3> QED
        BY <2>1, <3>1, BeginKeeps DEF Export!OnDownload
    <2>2. CASE UNCHANGED <<runs, toasts>>
      BY <2>2, NothingKeeps
    <2> QED
      BY <2>1, <2>2 DEF PreviewStep, Export!OpenPrint, Export!Grab, Export!ClosePrint
  <1>4. ControlsTyped'
    BY <1>1, <1>2 DEF ControlsTyped, ButtonsTyped, DialogTyped
  <1> QED
    BY <1>2, <1>3, <1>4, MapKept, FileKept

------------------------------------------------------------------------------
LEMMA ExportStep ==
  ASSUME ExportConstants, ExportInv, [Export!Next]_Export!vars
  PROVE  ExportInv'
  <1>1. CASE UNCHANGED Export!vars
    BY <1>1, MapKept, ControlsKept, FileKept, NothingKeeps DEF Export!vars, Export!exportVars,
       ExportInv
  <1>2. CASE Export!Next
    <2>1. UNCHANGED route
      BY <1>2 DEF Export!Next, Export!Here
    <2>2. \/ Export!ToastStep \/ AroundStep \/ Export!ButtonStep \/ Export!DialogStep
          \/ PreviewStep
          \/ \E r \in runs : EndStep(r)
      BY <1>2 DEF Export!Next, Export!DownloadStep, Export!PrintStep, AroundStep, PreviewStep,
         EndStep
    <2> QED
      BY <2>1, <2>2, ToastStepKeeps, AroundStepKeeps, ButtonStepKeeps, DialogStepKeeps,
         PreviewStepKeeps, EndStepKeeps
  <1> QED
    BY <1>1, <1>2
------------------------------------------------------------------------------
(* What the style holds: MapStyle.                                         *)

BasemapConstants == "nothing" \in Subjects

OverlayState == [place : {"absent", "above", "below"}, draws : Subjects]

SwitchTyped ==
  /\ basemapId \in Basemaps /\ shown \in Basemaps
  /\ lastBasemap \in Basemaps \union {Map!NoBasemap}
  /\ style \in {"changed", "loading", "loaded"}
  /\ idleWaits \in Seq(Basemaps) /\ styleWaits \in Seq(Basemaps)
LayersTyped ==
  /\ listed \in BOOLEAN /\ switchedOn \subseteq Layers /\ mounted \subseteq Layers
  /\ marker \in BOOLEAN
OverlaysTyped ==
  /\ overlay \in [Map!Overlays -> OverlayState] /\ subject \in Subjects
  /\ icon \in [there : BOOLEAN, loading : BOOLEAN]

StyleInv ==
  /\ route \in Routes
  /\ SwitchTyped /\ LayersTyped /\ OverlaysTyped /\ Map!SwapLosesNothing

LEMMA StyleInvIsEnough == StyleInv => Map!TypeOK /\ Map!SwapLosesNothing
  BY DEF StyleInv, SwitchTyped, LayersTyped, OverlaysTyped, OverlayState, Map!TypeOK

LEMMA AbsentTyped == BasemapConstants => Map!Absent \in OverlayState
  BY DEF BasemapConstants, Map!Absent, OverlayState

LEMMA StyleInitial == BasemapConstants /\ Map!Init => StyleInv
  <1> SUFFICES ASSUME BasemapConstants, Map!Init
               PROVE  StyleInv
    OBVIOUS
  <1> USE DEF Map!Init
  <1>1. SwitchTyped
    <2>1. << >> \in Seq(Basemaps) /\ <<basemapId>> \in Seq(Basemaps)
      OBVIOUS
    <2> QED
      BY <2>1 DEF SwitchTyped
  <1>2. LayersTyped
    BY DEF LayersTyped
  <1>3. OverlaysTyped
    BY AbsentTyped DEF OverlaysTyped, BasemapConstants
  <1> QED
    BY <1>1, <1>2, <1>3 DEF StyleInv, Map!SwapLosesNothing

------------------------------------------------------------------------------
(* What the parts of the steps do to the overlays. *)

LEMMA DrawingTyped ==
  ASSUME BasemapConstants, NEW o \in Map!Overlays, NEW x \in Subjects
  PROVE  Map!Drawing(o, x) \in Subjects
  BY DEF BasemapConstants, Map!Overlays, Map!Drawing, Map!SelectionHighlight,
     Map!BufferRenderer, Map!QueryHighlight, Map!SearchHighlight, Map!TraceHighlight,
     Map!MeasureRenderer, Map!SelectRenderer

(* A renderer that paints leaves its overlay in the style. *)
LEMMA PaintedTyped ==
  ASSUME BasemapConstants, OverlaysTyped, NEW o \in Map!Overlays, NEW v \in OverlayState
  PROVE  Map!Painted(o, v) \in OverlayState /\ Map!Painted(o, v).place # "absent"
  <1>1. Map!Drawing(o, subject) \in Subjects
    BY DrawingTyped DEF OverlaysTyped
  <1> QED
    BY <1>1 DEF Map!Painted, OverlayState

(* An overlay that is in the style stays there when the layers are put in. *)
Present(os) == \A o \in Map!Overlays : os[o].place # "absent"

LEMMA ApplyAllKeeps ==
  ASSUME OverlaysTyped, LayersTyped, NEW told, NEW on \in SUBSET Layers,
         Map!ApplyAll(told, on), UNCHANGED <<subject, icon>>, listed' \in BOOLEAN,
         switchedOn' \subseteq Layers
  PROVE  OverlaysTyped' /\ LayersTyped' /\ (Present(overlay) => Present(overlay'))
  <1>1. CASE style = "loaded" /\ told
    <2>1. marker' = TRUE /\ mounted' = on
      BY <1>1 DEF Map!ApplyAll
    <2>2. overlay' = overlay \/
          overlay' = [o \in Map!Overlays |-> IF overlay[o].place = "above"
                                               THEN [overlay[o] EXCEPT !.place = "below"]
                                               ELSE overlay[o]]
      BY <1>1 DEF Map!ApplyAll
    <2>3. \A o \in Map!Overlays : overlay[o] \in OverlayState
                                  /\ [overlay[o] EXCEPT !.place = "below"] \in OverlayState
      BY DEF OverlaysTyped, OverlayState
    <2>4. overlay' \in [Map!Overlays -> OverlayState]
      BY <2>2, <2>3 DEF OverlaysTyped
    <2>5. Present(overlay) => Present(overlay')
      BY <2>2, <2>3 DEF Present, OverlayState
    <2> QED
      BY <2>1, <2>4, <2>5 DEF OverlaysTyped, LayersTyped
  <1>2. CASE ~(style = "loaded" /\ told)
    BY <1>2 DEF Map!ApplyAll, OverlaysTyped, LayersTyped, Present
  <1> QED
    BY <1>1, <1>2

LEMMA LastOf ==
  ASSUME NEW bs \in Seq(Basemaps), bs # << >>
  PROVE  Map!Last(bs) \in Basemaps
  BY DEF Map!Last

(* A swap drops every overlay, and the style is to be announced. *)
LEMMA SwapKeeps ==
  ASSUME BasemapConstants, StyleInv, NEW bs \in Seq(Basemaps), bs # << >>, Map!Swap(bs),
         UNCHANGED <<route, listed, switchedOn, subject>>, basemapId' \in Basemaps,
         lastBasemap' \in Basemaps \union {Map!NoBasemap}, idleWaits' \in Seq(Basemaps)
  PROVE  StyleInv'
  <1>1. SwitchTyped'
    BY LastOf DEF Map!Swap, StyleInv, SwitchTyped
  <1>2. LayersTyped'
    BY DEF Map!Swap, StyleInv, LayersTyped
  <1>3. OverlaysTyped'
    BY AbsentTyped DEF Map!Swap, StyleInv, OverlaysTyped
  <1> QED
    BY <1>1, <1>2, <1>3 DEF StyleInv, Map!Swap, Map!SwapLosesNothing

(* A step that leaves the style as announced as it was, every overlay in   *)
(* it, and the icon or what draws it.                                      *)
LEMMA StyleKept ==
  ASSUME StyleInv, UNCHANGED route, SwitchTyped', LayersTyped', OverlaysTyped',
         style = "changed" => style' = "changed",
         Present(overlay) => Present(overlay'),
         icon.there \/ icon.loading => icon'.there \/ icon'.loading
  PROVE  StyleInv'
  BY DEF StyleInv, Map!SwapLosesNothing, Present

------------------------------------------------------------------------------
(* The steps. *)

LEMMA SetBasemapKeeps ==
  ASSUME BasemapConstants, StyleInv, NEW b \in Basemaps, Map!SetBasemap(b), UNCHANGED route
  PROVE  StyleInv'
  <1> USE DEF Map!SetBasemap
  <1>1. CASE Map!Swap(<<b>>) /\ UNCHANGED <<lastBasemap, idleWaits>>
    <2>1. <<b>> \in Seq(Basemaps) /\ <<b>> # << >>
      OBVIOUS
    <2>2. /\ basemapId' \in Basemaps /\ idleWaits' \in Seq(Basemaps)
          /\ lastBasemap' \in Basemaps \union {Map!NoBasemap}
      BY <1>1 DEF StyleInv, SwitchTyped
    <2> QED
      BY <1>1, <2>1, <2>2, SwapKeeps
  <1>2. CASE /\ UNCHANGED <<shown, style, styleWaits, mounted, marker, overlay, icon>>
             /\ lastBasemap' \in {lastBasemap, b}
             /\ idleWaits' \in {idleWaits, Append(idleWaits, b)}
    <2>1. idleWaits' \in Seq(Basemaps)
      BY <1>2 DEF StyleInv, SwitchTyped
    <2>2. SwitchTyped'
      BY <1>2, <2>1 DEF StyleInv, SwitchTyped
    <2>3. LayersTyped' /\ OverlaysTyped'
      BY <1>2 DEF StyleInv, LayersTyped, OverlaysTyped
    <2> QED
      BY <1>2, <2>2, <2>3, StyleKept DEF Present
  <1> QED
    BY <1>1, <1>2

LayerStep == Map!LayersReturn \/ \E l \in Layers : Map!ToggleLayer(l)

LEMMA LayerStepKeeps ==
  ASSUME StyleInv, LayerStep, UNCHANGED route
  PROVE  StyleInv'
  <1>1. UNCHANGED <<basemapId, shown, lastBasemap, style, idleWaits, styleWaits, subject, icon>>
    BY DEF LayerStep, Map!LayersReturn, Map!ToggleLayer, Map!basemapVars
  <1>2. /\ listed' = TRUE /\ switchedOn' \subseteq Layers
        /\ Map!ApplyAll(TRUE, switchedOn')
    BY DEF LayerStep, Map!LayersReturn, Map!ToggleLayer, StyleInv, LayersTyped
  <1>3. PICK on \in SUBSET Layers : on = switchedOn'
    BY <1>2
  <1>4. OverlaysTyped' /\ LayersTyped' /\ (Present(overlay) => Present(overlay'))
    BY <1>1, <1>2, <1>3, ApplyAllKeeps DEF StyleInv
  <1>5. SwitchTyped'
    BY <1>1 DEF StyleInv, SwitchTyped
  <1> QED
    BY <1>1, <1>4, <1>5, StyleKept

LEMMA ChangeSubjectKeeps ==
  ASSUME BasemapConstants, StyleInv, NEW x \in Subjects, Map!ChangeSubject(x), UNCHANGED route
  PROVE  StyleInv'
  <1>1. PICK os \in SUBSET Map!Overlays :
          overlay' = [o \in Map!Overlays |->
            IF o \notin os THEN overlay[o]
            ELSE [place |-> Map!Painted(o, overlay[o]).place, draws |-> Map!Drawing(o, x)]]
    BY DEF Map!ChangeSubject
  <1>2. UNCHANGED <<Map!basemapVars, Map!dataLayerVars, icon>> /\ subject' = x
    BY DEF Map!ChangeSubject
  <1>3. \A o \in Map!Overlays :
          /\ Map!Painted(o, overlay[o]) \in OverlayState
          /\ Map!Painted(o, overlay[o]).place # "absent"
    BY PaintedTyped DEF StyleInv, OverlaysTyped
  <1>4. overlay' \in [Map!Overlays -> OverlayState] /\ (Present(overlay) => Present(overlay'))
    <2>1. ASSUME NEW o \in Map!Overlays
          PROVE  /\ overlay'[o] \in OverlayState
                 /\ overlay[o].place # "absent" => overlay'[o].place # "absent"
      <3>1. CASE o \notin os
        BY <1>1, <3>1 DEF StyleInv, OverlaysTyped
      <3>2. CASE o \in os
        <4>1. overlay'[o] = [place |-> Map!Painted(o, overlay[o]).place,
                             draws |-> Map!Drawing(o, x)]
          BY <1>1, <3>2
        <4> QED
          BY <1>3, <4>1, DrawingTyped DEF OverlayState
      <3> QED
        BY <3>1, <3>2
    <2> QED
      BY <1>1, <2>1 DEF Present
  <1>5. SwitchTyped' /\ LayersTyped'
    BY <1>2 DEF StyleInv, SwitchTyped, LayersTyped, Map!basemapVars, Map!dataLayerVars
  <1>6. OverlaysTyped'
    BY <1>2, <1>4 DEF StyleInv, OverlaysTyped
  <1> QED
    BY <1>2, <1>4, <1>5, <1>6, StyleKept DEF Map!basemapVars

(* Whatever was not in the style is painted at its event, and the icon is  *)
(* looked for.                                                             *)
StyleEvent == Map!StyleData \/ Map!StyleDataAgain

LEMMA StyleEventKeeps ==
  ASSUME BasemapConstants, StyleInv, StyleEvent, UNCHANGED route
  PROVE  StyleInv'
  <1>1. /\ overlay' = Map!OnStyle(overlay) /\ Map!EnsureIcon
        /\ UNCHANGED <<basemapId, shown, idleWaits, Map!dataLayerVars, subject>>
    BY DEF StyleEvent, Map!StyleData, Map!StyleDataAgain, Map!basemapVars
  <1>2. \A o \in Map!Overlays :
          /\ Map!Painted(o, overlay[o]) \in OverlayState
          /\ Map!Painted(o, overlay[o]).place # "absent"
    BY PaintedTyped DEF StyleInv, OverlaysTyped
  <1>3. overlay' \in [Map!Overlays -> OverlayState] /\ Present(overlay')
    BY <1>1, <1>2 DEF Map!OnStyle, Present
  <1>4. icon' \in [there : BOOLEAN, loading : BOOLEAN] /\ (icon'.there \/ icon'.loading)
    BY <1>1 DEF Map!EnsureIcon, StyleInv, OverlaysTyped
  <1>5. LayersTyped' /\ OverlaysTyped'
    BY <1>1, <1>3, <1>4 DEF StyleInv, LayersTyped, OverlaysTyped, Map!dataLayerVars
  <1>6. SwitchTyped'
    <2>1. << >> \in Seq(Basemaps)
      OBVIOUS
    <2>2. CASE Map!StyleDataAgain
      BY <2>2 DEF Map!StyleDataAgain, Map!basemapVars, StyleInv, SwitchTyped
    <2>3. CASE Map!StyleData
      <3>1. lastBasemap' \in Basemaps \union {Map!NoBasemap}
        BY <2>3, LastOf DEF Map!StyleData, StyleInv, SwitchTyped
      <3> QED
        BY <1>1, <2>1, <2>3, <3>1 DEF Map!StyleData, StyleInv, SwitchTyped
    <2> QED
      BY <2>2, <2>3 DEF StyleEvent
  <1> QED
    BY <1>3, <1>4, <1>5, <1>6 DEF StyleInv, Map!SwapLosesNothing, Present

LoadStep == Map!IconDrawn \/ Map!TilesLoad \/ Map!TilesMiss

LEMMA LoadStepKeeps ==
  ASSUME StyleInv, LoadStep, UNCHANGED route
  PROVE  StyleInv'
  <1>1. /\ UNCHANGED <<basemapId, shown, lastBasemap, idleWaits, styleWaits, subject, overlay>>
        /\ UNCHANGED <<listed, switchedOn, mounted, marker>>
    BY DEF LoadStep, Map!IconDrawn, Map!TilesLoad, Map!TilesMiss, Map!basemapVars,
       Map!dataLayerVars, Map!overlayVars
  <1>2. SwitchTyped' /\ (style = "changed" => style' = "changed")
    BY <1>1 DEF LoadStep, Map!IconDrawn, Map!TilesLoad, Map!TilesMiss, Map!basemapVars, StyleInv,
       SwitchTyped
  <1>3. OverlaysTyped' /\ (icon.there \/ icon.loading => icon'.there \/ icon'.loading)
    <2>1. UNCHANGED icon \/ icon' = [there |-> TRUE, loading |-> FALSE]
      BY DEF LoadStep, Map!IconDrawn, Map!TilesLoad, Map!TilesMiss
    <2>2. icon' \in [there : BOOLEAN, loading : BOOLEAN]
      <3>1. [there |-> TRUE, loading |-> FALSE] \in [there : BOOLEAN, loading : BOOLEAN]
        OBVIOUS
      <3>2. CASE UNCHANGED icon
        BY <3>2 DEF StyleInv, OverlaysTyped
      <3>3. CASE icon' = [there |-> TRUE, loading |-> FALSE]
        BY <3>1, <3>3
      <3> QED
        BY <2>1, <3>2, <3>3
    <2>3. overlay' \in [Map!Overlays -> OverlayState] /\ subject' \in Subjects
      BY <1>1 DEF StyleInv, OverlaysTyped
    <2>4. OverlaysTyped'
      BY <2>2, <2>3 DEF OverlaysTyped
    <2>5. icon.there \/ icon.loading => icon'.there \/ icon'.loading
      BY <2>1
    <2> QED
      BY <2>4, <2>5
  <1>4. LayersTyped'
    BY <1>1 DEF StyleInv, LayersTyped
  <1> QED
    BY <1>1, <1>2, <1>3, <1>4, StyleKept DEF Present

LEMMA IdleKeeps ==
  ASSUME BasemapConstants, StyleInv, Map!Idle, UNCHANGED route
  PROVE  StyleInv'
  <1> DEFINE first == lastBasemap = Map!NoBasemap /\ idleWaits # << >>
  <1>1. PICK due \in Seq(Basemaps) :
          /\ due = IF first THEN Tail(idleWaits) ELSE idleWaits
          /\ lastBasemap' = IF due = idleWaits THEN lastBasemap ELSE Head(idleWaits)
          /\ IF due # << >> THEN Map!Swap(due)
             ELSE /\ Map!ApplyAll(listed, switchedOn)
                  /\ UNCHANGED <<shown, style, styleWaits, icon>>
    <2>1. idleWaits \in Seq(Basemaps)
      BY DEF StyleInv, SwitchTyped
    <2>2. idleWaits # << >> => Tail(idleWaits) \in Seq(Basemaps)
      BY <2>1
    <2>3. (IF first THEN Tail(idleWaits) ELSE idleWaits) \in Seq(Basemaps)
      BY <2>1, <2>2
    <2> QED
      BY <2>3 DEF Map!Idle
  <1>2. /\ idleWaits' = << >> /\ style = "loaded"
        /\ UNCHANGED <<basemapId, listed, switchedOn, subject>>
    BY DEF Map!Idle
  <1>3. lastBasemap' \in Basemaps \union {Map!NoBasemap}
    <2>1. CASE idleWaits = << >>
      BY <1>1, <2>1 DEF StyleInv, SwitchTyped
    <2>2. CASE idleWaits # << >>
      BY <1>1, <2>2 DEF StyleInv, SwitchTyped
    <2> QED
      BY <2>1, <2>2
  <1>4. CASE due # << >>
    <2>1. basemapId' \in Basemaps /\ idleWaits' \in Seq(Basemaps) /\ Map!Swap(due)
      BY <1>1, <1>2, <1>4 DEF StyleInv, SwitchTyped
    <2> QED
      BY <1>2, <1>3, <1>4, <2>1, SwapKeeps
  <1>5. CASE due = << >>
    <2>1. Map!ApplyAll(listed, switchedOn) /\ UNCHANGED <<shown, style, styleWaits, icon>>
      BY <1>1, <1>5
    <2>2. PICK on \in SUBSET Layers, told \in BOOLEAN : on = switchedOn /\ told = listed
      BY DEF StyleInv, LayersTyped
    <2>3. OverlaysTyped' /\ LayersTyped' /\ (Present(overlay) => Present(overlay'))
      BY <1>2, <2>1, <2>2, ApplyAllKeeps DEF StyleInv, LayersTyped
    <2>4. SwitchTyped'
      BY <1>2, <1>3, <2>1 DEF StyleInv, SwitchTyped
    <2> QED
      BY <2>1, <2>3, <2>4, StyleKept
  <1> QED
    BY <1>4, <1>5

LEMMA StyleStep ==
  ASSUME BasemapConstants, StyleInv, [Map!Next]_Map!vars
  PROVE  StyleInv'
  <1>1. CASE UNCHANGED Map!vars
    BY <1>1 DEF Map!vars, Map!mapVars, Map!basemapVars, Map!dataLayerVars, Map!overlayVars,
       StyleInv, SwitchTyped, LayersTyped, OverlaysTyped, Map!SwapLosesNothing
  <1>2. CASE Map!Next
    <2>1. UNCHANGED route
      BY <1>2 DEF Map!Next, Map!Here
    <2>2. \/ LayerStep \/ StyleEvent \/ LoadStep \/ Map!Idle
          \/ \E b \in Basemaps : Map!SetBasemap(b)
          \/ \E x \in Subjects : Map!ChangeSubject(x)
      BY <1>2 DEF Map!Next, LayerStep, StyleEvent, LoadStep
    <2> QED
      BY <2>1, <2>2, LayerStepKeeps, StyleEventKeeps, LoadStepKeeps, IdleKeeps, SetBasemapKeeps,
         ChangeSubjectKeeps
  <1> QED
    BY <1>1, <1>2

------------------------------------------------------------------------------
(* The tools that draw: MapTools.                                          *)

ToolsConstants == Corners \in Nat

ToolsInv ==
  /\ route \in Routes
  /\ measure \in Tools!Tools({"distance", "area"}) /\ select \in Tools!Tools({"polygon"})
  /\ picked \in {"nothing", "feature", "area"} /\ tableOpen \in BOOLEAN

LEMMA ToolsInvIsEnough == ToolsInv => Tools!TypeOK
  BY DEF ToolsInv, Tools!TypeOK

LEMMA ToolsInitial == ToolsConstants /\ Tools!Init => ToolsInv
  <1> SUFFICES ASSUME ToolsConstants, Tools!Init
               PROVE  ToolsInv
    OBVIOUS
  <1>1. Tools!Off \in Tools!Tools({"distance", "area"}) /\ Tools!Off \in Tools!Tools({"polygon"})
    BY DEF ToolsConstants, Tools!Off, Tools!Tools
  <1> QED
    BY <1>1 DEF Tools!Init, ToolsInv

(* What a step makes of a tool: only a click adds a corner. *)
LEMMA ToolTyped ==
  ASSUME ToolsConstants, NEW modes, NEW tool \in Tools!Tools(modes), NEW least \in Nat
  PROVE  /\ Tools!Off \in Tools!Tools(modes)
         /\ \A m \in modes \union {"off"} : Tools!Started(m) \in Tools!Tools(modes)
         /\ Tools!AddVertex(tool) \in Tools!Tools(modes)
         /\ Tools!Finished(tool, least) \in Tools!Tools(modes)
         /\ Tools!Finished(tool, least).n = tool.n
  <1>1. Tools!Off \in Tools!Tools(modes)
        /\ \A m \in modes \union {"off"} : Tools!Started(m) \in Tools!Tools(modes)
    BY DEF ToolsConstants, Tools!Tools, Tools!Off, Tools!Started
  <1>2. Tools!AddVertex(tool) \in Tools!Tools(modes)
    BY DEF ToolsConstants, Tools!Tools, Tools!AddVertex
  <1>3. Tools!Finished(tool, least) \in Tools!Tools(modes)
        /\ Tools!Finished(tool, least).n = tool.n
    BY DEF Tools!Tools, Tools!Finished
  <1> QED
    BY <1>1, <1>2, <1>3

MeasureMoves(x) ==
  \/ x = measure \/ x = Tools!Off \/ x = Tools!Finished(measure, 2)
  \/ \E m \in {"distance", "area", "off"} : x = Tools!Started(m)
SelectMoves(x) ==
  x \in {select, Tools!Off, Tools!Finished(select, 3), Tools!Started("polygon")}

(* A step is a click, or adds a corner to neither tool. *)
LEMMA ToolsSteps ==
  ASSUME ToolsInv, Tools!Next
  PROVE  /\ Tools!ClickMap \/ (MeasureMoves(measure') /\ SelectMoves(select'))
         /\ picked' \in {"nothing", "feature", "area"} /\ tableOpen' \in BOOLEAN
         /\ UNCHANGED route
  <1>1. measure.mode \in {"distance", "area", "off"}
    BY DEF ToolsInv, Tools!Tools
  <1>2. CASE Tools!ClickMap \/ Tools!PressEnter \/ Tools!PressEscape
    BY <1>2 DEF Tools!ClickMap, Tools!PressEnter, Tools!PressEscape, ToolsInv, MeasureMoves,
       SelectMoves, Tools!Next, Tools!Here
  <1>3. CASE Tools!FinishMeasure \/ Tools!NewMeasure \/ Tools!CancelMeasure
             \/ \E m \in {"distance", "area"} : Tools!MeasureMode(m)
    BY <1>1, <1>3 DEF Tools!FinishMeasure, Tools!NewMeasure, Tools!CancelMeasure,
       Tools!MeasureMode, ToolsInv, MeasureMoves, SelectMoves, Tools!Next, Tools!Here
  <1>4. CASE Tools!SelectMode \/ Tools!OnFinish \/ Tools!CancelSelect \/ Tools!OpenTable
             \/ Tools!ClickRow
    BY <1>4 DEF Tools!SelectMode, Tools!OnFinish, Tools!CancelSelect, Tools!OpenTable,
       Tools!ClickRow, ToolsInv, MeasureMoves, SelectMoves, Tools!Next, Tools!Here
  <1> QED
    BY <1>2, <1>3, <1>4 DEF Tools!Next

LEMMA ToolsStep ==
  ASSUME ToolsConstants, ToolsInv, [Tools!Next]_Tools!vars
  PROVE  ToolsInv'
  <1> DEFINE M == Tools!Tools({"distance", "area"})
             S == Tools!Tools({"polygon"})
  <1>1. CASE UNCHANGED Tools!vars
    BY <1>1 DEF Tools!vars, Tools!toolVars, ToolsInv
  <1>2. CASE Tools!Next
    <2>1. measure \in M /\ select \in S
      BY DEF ToolsInv
    <2>2. /\ Tools!Off \in M /\ Tools!AddVertex(measure) \in M
          /\ Tools!Finished(measure, 2) \in M
          /\ \A m \in {"distance", "area", "off"} : Tools!Started(m) \in M
      BY <2>1, ToolTyped
    <2>3. /\ Tools!Off \in S /\ Tools!AddVertex(select) \in S
          /\ Tools!Finished(select, 3) \in S /\ Tools!Started("polygon") \in S
      BY <2>1, ToolTyped
    <2> HIDE DEF M, S
    <2>4. measure' \in M /\ select' \in S
      BY <1>2, <2>1, <2>2, <2>3, ToolsSteps DEF Tools!ClickMap, MeasureMoves, SelectMoves
    <2> QED
      BY <1>2, <2>4, ToolsSteps DEF ToolsInv, M, S
  <1> QED
    BY <1>1, <1>2

(* Each hook decides from the same two stores, and no two decide for it.   *)
Corners_OfOne ==
  /\ measure'.n > measure.n => select'.n <= select.n /\ picked' = picked
  /\ select'.n > select.n => picked' = picked

LEMMA OneTakes ==
  ASSUME ToolsConstants, ToolsInv, [Tools!Next]_Tools!vars
  PROVE  Corners_OfOne
  <1>1. measure.n \in Nat /\ select.n \in Nat
    BY DEF ToolsConstants, ToolsInv, Tools!Tools
  <1>2. CASE UNCHANGED Tools!vars
    BY <1>1, <1>2 DEF Tools!vars, Tools!toolVars, Corners_OfOne
  <1>3. CASE Tools!ClickMap
    <2>1. CASE Tools!MeasureListens
      BY <1>1, <1>3, <2>1 DEF Tools!ClickMap, Tools!MeasureListens, Tools!SelectListens,
         Tools!FeaturesListen, Corners_OfOne
    <2>2. CASE Tools!SelectListens
      BY <1>1, <1>3, <2>2 DEF Tools!ClickMap, Tools!MeasureListens, Tools!SelectListens,
         Tools!FeaturesListen, Corners_OfOne
    <2>3. CASE ~Tools!MeasureListens /\ ~Tools!SelectListens
      BY <1>1, <1>3, <2>3 DEF Tools!ClickMap, Corners_OfOne
    <2> QED
      BY <2>1, <2>2, <2>3
  <1>4. CASE MeasureMoves(measure') /\ SelectMoves(select')
    <2>1. measure'.n <= measure.n /\ select'.n <= select.n
      <3>1. /\ Tools!Finished(measure, 2).n = measure.n /\ Tools!Finished(select, 3).n = select.n
            /\ Tools!Off.n = 0 /\ \A m : Tools!Started(m).n = 0
        BY ToolTyped DEF ToolsInv, Tools!Off, Tools!Started
      <3> QED
        BY <1>1, <1>4, <3>1 DEF MeasureMoves, SelectMoves
    <2>2. measure'.n \in Nat /\ select'.n \in Nat
      <3>1. ToolsInv'
        BY ToolsStep
      <3> QED
        BY <3>1 DEF ToolsConstants, ToolsInv, Tools!Tools
    <2> QED
      BY <1>1, <2>1, <2>2 DEF Corners_OfOne
  <1> QED
    BY <1>2, <1>3, <1>4, ToolsSteps

------------------------------------------------------------------------------
(* The pages of the results table: ResultPages.                            *)
ResultsConstants ==
  /\ Ids \subseteq Nat \ {0} /\ IsFiniteSet(Ids) /\ Values \subseteq Nat \ {0}
  /\ PageLimit \in Nat \ {0}

ColumnTyped == value \in [Ids -> Values \union {Results!NULL}]

LEMMA RowTyped ==
  ASSUME ResultsConstants, ColumnTyped, NEW i \in Ids
  PROVE  i \in Nat \ {0} /\ value[i] \in Nat
  <1>1. i \in Nat \ {0}
    BY DEF ResultsConstants
  <1>2. value[i] \in Values \/ value[i] = 0
    BY DEF ColumnTyped, Results!NULL
  <1>3. Values \subseteq Nat /\ 0 \in Nat
    BY DEF ResultsConstants
  <1>4. value[i] \in Nat
    BY <1>2, <1>3, Zenon
  <1> QED
    BY <1>1, <1>4

(* What the server sorts by is a strict total order of the rows.           *)
LEMMA BeforeIsOrder ==
  ASSUME ResultsConstants, ColumnTyped, NEW s \in Results!Orders,
         NEW i \in Ids, NEW j \in Ids, NEW k \in Ids
  PROVE  /\ ~ Results!Before(s, i, i)
         /\ Results!Before(s, i, j) /\ Results!Before(s, j, k) => Results!Before(s, i, k)
         /\ i # j => Results!Before(s, i, j) \/ Results!Before(s, j, i)
  <1>1. i \in Nat /\ j \in Nat /\ k \in Nat
        /\ value[i] \in Nat /\ value[j] \in Nat /\ value[k] \in Nat
    BY RowTyped
  <1>2. CASE s = "none"
    BY <1>1, <1>2 DEF Results!Before
  <1>3. CASE s = "asc"
    BY <1>1, <1>3 DEF Results!Before, Results!Above, Results!NULL
  <1>4. CASE s = "desc"
    BY <1>1, <1>4 DEF Results!Before, Results!Above, Results!NULL
  <1> QED
    BY <1>2, <1>3, <1>4 DEF Results!Orders

Sorted(s, rs) == \A m, n \in DOMAIN rs : m < n => Results!Before(s, rs[m], rs[n])

LEMMA SameCardinality == \A S : Results!Cardinality(S) = Cardinality(S)
  BY DEF Results!Cardinality, Cardinality

(* Any rows can be sorted: each goes where the number of rows up to it says. *)
LEMMA SomeOrder ==
  ASSUME ResultsConstants, ColumnTyped, NEW s \in Results!Orders, NEW S \in SUBSET Ids
  PROVE  \E rs \in [1..Cardinality(S) -> S] : Sorted(s, rs)
  <1> DEFINE n == Cardinality(S)
             upTo(i) == {j \in S : j = i \/ Results!Before(s, j, i)}
             rank == [i \in S |-> Cardinality(upTo(i))]
  <1>1. IsFiniteSet(S) /\ n \in Nat
    BY FS_Subset, FS_CardinalityType DEF ResultsConstants
  <1>2. ASSUME NEW i \in S
        PROVE  upTo(i) \in SUBSET S /\ IsFiniteSet(upTo(i)) /\ Cardinality(upTo(i)) \in 1..n
    <2>1. upTo(i) \in SUBSET S /\ i \in upTo(i)
      OBVIOUS
    <2> HIDE DEF upTo
    <2>2. IsFiniteSet(upTo(i)) /\ Cardinality(upTo(i)) \in Nat /\ Cardinality(upTo(i)) <= n
      BY <1>1, <2>1, FS_Subset, FS_CardinalityType
    <2>3. Cardinality(upTo(i)) # 0
      BY <2>1, <2>2, FS_EmptySet
    <2> QED
      BY <1>1, <2>1, <2>2, <2>3
  <1>3. ASSUME NEW i \in S, NEW j \in S, Results!Before(s, i, j)
        PROVE  rank[i] < rank[j]
    <2>1. upTo(i) \in SUBSET upTo(j)
      BY <1>3, BeforeIsOrder
    <2>2. j \in upTo(j) /\ j \notin upTo(i)
      BY <1>3, BeforeIsOrder
    <2> HIDE DEF upTo
    <2>3. IsFiniteSet(upTo(j)) /\ Cardinality(upTo(i)) \in Nat /\ Cardinality(upTo(j)) \in Nat
      BY <1>2
    <2>4. Cardinality(upTo(i)) <= Cardinality(upTo(j)) /\ Cardinality(upTo(i)) # Cardinality(upTo(j))
      BY <2>1, <2>2, <2>3, FS_Subset
    <2> QED
      BY <2>3, <2>4
  <1>4. rank \in [S -> 1..n]
    BY <1>2
  <1> HIDE DEF rank
  <1>5. ASSUME NEW i \in S, NEW j \in S, rank[i] = rank[j]
        PROVE  i = j
    <2>1. rank[i] \in Nat /\ rank[j] \in Nat
      BY <1>1, <1>4
    <2> QED
      BY <1>3, <1>5, <2>1, BeforeIsOrder
  <1>6. rank \in Injection(S, 1..n)
    BY <1>4, <1>5, Fun_IsInj
  <1>7. IsFiniteSet(1..n) /\ Cardinality(1..n) = n
    BY <1>1, FS_Interval
  <1>8. rank \in Surjection(S, 1..n)
    BY <1>6, <1>7, FS_Injection
  <1>9. \A k \in 1..n : \E i \in S : rank[i] = k
    BY <1>8 DEF Surjection
  <1> DEFINE rs == [k \in 1..n |-> CHOOSE i \in S : rank[i] = k]
  <1>10. rs \in [1..n -> S] /\ \A k \in 1..n : rank[rs[k]] = k
    BY <1>9
  <1> HIDE DEF rs
  <1>11. ASSUME NEW k \in 1..n, NEW l \in 1..n, k < l
         PROVE  Results!Before(s, rs[k], rs[l])
    <2>1. rs[k] \in S /\ rs[l] \in S /\ rank[rs[k]] = k /\ rank[rs[l]] = l /\ k \in Nat /\ l \in Nat
      BY <1>1, <1>10
    <2>2. rs[k] # rs[l]
      BY <1>11, <2>1
    <2>3. ~ Results!Before(s, rs[l], rs[k])
      BY <1>3, <1>11, <2>1
    <2> QED
      BY <2>1, <2>2, <2>3, BeforeIsOrder
  <1>12. Sorted(s, rs)
    BY <1>10, <1>11 DEF Sorted
  <1> QED
    BY <1>10, <1>12

(* No row is twice in a sorted list. *)
LEMMA SortedOnce ==
  ASSUME ResultsConstants, ColumnTyped, NEW s \in Results!Orders,
         NEW n \in Nat, NEW rs \in [1..n -> Ids], Sorted(s, rs)
  PROVE  rs \in Injection(1..n, Ids) /\ \A k, l \in 1..n : rs[k] = rs[l] => k = l
  <1>1. ASSUME NEW k \in 1..n, NEW l \in 1..n, rs[k] = rs[l]
        PROVE  k = l
    <2>1. rs[k] \in Ids /\ ~ Results!Before(s, rs[k], rs[k])
      BY BeforeIsOrder
    <2>2. ~ (k < l) /\ ~ (l < k)
      BY <1>1, <2>1 DEF Sorted
    <2> QED
      BY <2>2
  <1>2. rs \in Injection(1..n, Ids)
    BY <1>1, Fun_IsInj
  <1> QED
    BY <1>1, <1>2

RowsFrom(s, c) == {i \in Ids : Results!Follows(s, c, i)}

(* The server's answer is all the rows that follow, sorted.                *)
LEMMA AnswerIsSorted ==
  ASSUME ResultsConstants, ColumnTyped, NEW s \in Results!Orders, NEW c
  PROVE  \E n \in Nat :
           /\ Results!RowsAfter(s, c) \in [1..n -> Ids]
           /\ Sorted(s, Results!RowsAfter(s, c))
           /\ \A k \in 1..n : Results!Follows(s, c, Results!RowsAfter(s, c)[k])
           /\ \A i \in RowsFrom(s, c) : \E k \in 1..n : Results!RowsAfter(s, c)[k] = i
  <1> DEFINE S == RowsFrom(s, c)
             n == Cardinality(S)
             rs == Results!RowsAfter(s, c)
  <1>1. S \in SUBSET Ids /\ \A i \in S : Results!Follows(s, c, i)
    BY DEF RowsFrom
  <1>2. rs = CHOOSE x \in [1..n -> S] : Sorted(s, x)
    BY SameCardinality DEF Results!RowsAfter, Sorted, RowsFrom
  <1> HIDE DEF rs, S
  <1>3. rs \in [1..n -> S] /\ Sorted(s, rs)
    BY <1>1, <1>2, SomeOrder
  <1>4. IsFiniteSet(S) /\ n \in Nat
    BY <1>1, FS_Subset, FS_CardinalityType DEF ResultsConstants
  <1> HIDE DEF n
  <1>5. rs \in [1..n -> Ids]
    BY <1>1, <1>3
  <1>6. rs \in Injection(1..n, S)
    BY <1>3, <1>4, <1>5, SortedOnce, Fun_IsInj
  <1>7. IsFiniteSet(1..n) /\ Cardinality(1..n) = n
    BY <1>4, FS_Interval
  <1>8. rs \in Surjection(1..n, S)
    BY <1>4, <1>6, <1>7, FS_Injection DEF n
  <1>9. \A i \in S : \E k \in 1..n : rs[k] = i
    BY <1>8 DEF Surjection
  <1>10. \A k \in 1..n : Results!Follows(s, c, rs[k])
    BY <1>1, <1>3
  <1> QED
    BY <1>3, <1>4, <1>5, <1>9, <1>10 DEF S, rs
(* The cursor of a page that ends with a row: where it tells, the rows     *)
(* that follow it come after the row, and where it tells all of them, they *)
(* are all the rows after it.                                              *)
CursorAt(r) == [id |-> r, v |-> value[r]]

LEMMA CursorTells ==
  ASSUME ResultsConstants, ColumnTyped, NEW s \in Results!Orders, NEW r \in Ids, NEW i \in Ids
  PROVE  /\ Results!Tells(s) /\ Results!Follows(s, CursorAt(r), i) => Results!Before(s, r, i)
         /\ Results!Tellable(s) /\ Results!Before(s, r, i) => Results!Follows(s, CursorAt(r), i)
  <1>1. r \in Nat \ {0} /\ i \in Nat \ {0} /\ value[r] \in Nat /\ value[i] \in Nat
    BY RowTyped
  <1>2. CursorAt(r).id = r /\ CursorAt(r).v = value[r]
    BY DEF CursorAt
  <1> USE DEF Results!Follows, Results!Before, Results!Above, Results!Tellable, Results!NULL
  <1>3. CASE s = "none"
    BY <1>1, <1>2, <1>3
  <1>4. CASE s = "asc"
    BY <1>1, <1>2, <1>4
  <1>5. CASE s = "desc"
    <2>1. Results!Tells(s) => (value[i] = value[r] /\ value[i] # 0 => i = r)
      BY <1>5 DEF Results!Tells
    <2> QED
      BY <1>1, <1>2, <1>5, <2>1
  <1> QED
    BY <1>3, <1>4, <1>5 DEF Results!Orders

Cursors == [id : Ids \union {0}, v : Values \union {Results!NULL}]
PageState == [stage : {"none", "first", "next", "idle"}, loaded : Seq(Ids), cursor : Cursors]

Loads(p, i) == \E m \in DOMAIN p.loaded : p.loaded[m] = i
Remains(s, p, i) == p.cursor # Results!NoCursor /\ Results!Follows(s, p.cursor, i)

(* What a cache of pages says: which stages have rows, that the rows are   *)
(* sorted and before all that remain, and that a row is loaded or remains. *)
Staged(p) ==
  /\ p.stage \in {"none", "first"} => p.loaded = << >> /\ p.cursor = Results!NoCursor
  /\ p.stage = "next" => p.cursor # Results!NoCursor
Orderly(s, p) ==
  /\ Sorted(s, p.loaded)
  /\ \A m \in DOMAIN p.loaded, i \in Ids :
       Remains(s, p, i) => Results!Before(s, p.loaded[m], i)
Whole(s, p) == p.stage \in {"next", "idle"} => \A i \in Ids : Loads(p, i) \/ Remains(s, p, i)
Paged(s, p) ==
  /\ p \in PageState /\ Staged(p)
  /\ Results!Tells(s) => Orderly(s, p)
  /\ Results!Tellable(s) => Whole(s, p)

PagesInv ==
  /\ route \in Routes
  /\ ColumnTyped /\ order \in Results!Orders
  /\ pages \in [Results!Orders -> PageState] /\ \A s \in Results!Orders : Paged(s, pages[s])

LEMMA PagesInvIsEnough ==
  ASSUME ResultsConstants, PagesInv
  PROVE  Results!TypeOK /\ Results!PagesInOrder
  <1>1. Results!TypeOK
    BY DEF PagesInv, ColumnTyped, PageState, Cursors, Results!TypeOK
  <1>2. ASSUME NEW s \in Results!Orders
        PROVE  LET rs == pages[s].loaded
               IN /\ Results!Tells(s) =>
                       \A m, n \in DOMAIN rs : m < n => Results!Before(s, rs[m], rs[n])
                  /\ Results!Tellable(s) /\ Results!AtEnd(s) => Len(rs) = Results!Cardinality(Ids)
    <2> DEFINE p == pages[s]
    <2>1. ColumnTyped /\ Paged(s, p) /\ p.loaded \in Seq(Ids)
      BY DEF PagesInv, Paged, PageState
    <2>2. Results!Tells(s) => Sorted(s, p.loaded)
      BY <2>1 DEF Paged, Orderly
    <2>3. ASSUME Results!Tellable(s), Results!AtEnd(s)
          PROVE  Len(p.loaded) = Results!Cardinality(Ids)
      <3>1. PICK rs \in Seq(Ids) : rs = p.loaded
        BY <2>1
      <3>2. PICK n \in Nat : n = Len(rs) /\ rs \in [1..n -> Ids]
        BY LenProperties
      <3>3. Sorted(s, rs)
        BY <2>2, <2>3, <3>1 DEF Results!Tellable, Results!Tells
      <3>4. \A i \in Ids : Loads(p, i)
        BY <2>1, <2>3 DEF Paged, Whole, Remains, Results!AtEnd
      <3>5. \A i \in Ids : \E m \in 1..n : rs[m] = i
        BY <3>1, <3>2, <3>4 DEF Loads
      <3>6. rs \in Injection(1..n, Ids)
        BY <2>1, <3>2, <3>3, SortedOnce
      <3>7. rs \in Surjection(1..n, Ids)
        BY <3>2, <3>5, Fun_IsSurj
      <3>8. IsFiniteSet(1..n) /\ Cardinality(1..n) = n
        BY FS_Interval
      <3>9. Cardinality(Ids) = n
        BY <3>6, <3>7, <3>8, FS_Surjection
      <3> QED
        BY <3>1, <3>2, <3>9, SameCardinality
    <2> QED
      BY <2>2, <2>3 DEF Sorted
  <1>3. Results!PagesInOrder
    BY <1>2 DEF Results!PagesInOrder
  <1> QED
    BY <1>1, <1>3

LEMMA NothingLoaded ==
  ASSUME NEW s \in Results!Orders
  PROVE  Paged(s, Results!NotLoaded)
  <1>1. << >> \in Seq(Ids) /\ DOMAIN << >> = {}
    OBVIOUS
  <1>2. Results!NoCursor \in Cursors
    BY DEF Results!NoCursor, Cursors
  <1> QED
    BY <1>1, <1>2 DEF Results!NotLoaded, Paged, PageState, Staged, Orderly, Whole, Sorted, Loads

LEMMA PagesInitial == Results!Init => PagesInv
  <1> SUFFICES ASSUME Results!Init
               PROVE  PagesInv
    OBVIOUS
  <1>1. pages = [s \in Results!Orders |-> Results!NotLoaded]
    BY DEF Results!Init
  <1>2. \A s \in Results!Orders : Paged(s, pages[s])
    BY <1>1, NothingLoaded
  <1>3. pages \in [Results!Orders -> PageState]
    BY <1>1, NothingLoaded DEF Paged
  <1> QED
    BY <1>2, <1>3 DEF Results!Init, PagesInv, ColumnTyped, Results!Orders

(* A page that came is the rows that remain, from the first.                *)
LEMMA PageComes ==
  ASSUME ResultsConstants, ColumnTyped, NEW s \in Results!Orders, NEW p, Paged(s, p),
         p.stage \in {"first", "next"}, NEW rs, rs = Results!RowsAfter(s, p.cursor)
  PROVE  Paged(s, [stage |-> "idle", loaded |-> p.loaded \o Results!Take(rs),
                   cursor |-> Results!NextCursor(rs)])
  <1> DEFINE c == p.cursor
             q == [stage |-> "idle", loaded |-> p.loaded \o Results!Take(rs),
                   cursor |-> Results!NextCursor(rs)]
  <1>1. PICK n \in Nat : /\ rs \in [1..n -> Ids]
                         /\ Sorted(s, rs)
                         /\ \A k \in 1..n : Results!Follows(s, c, rs[k])
                         /\ \A i \in RowsFrom(s, c) : \E k \in 1..n : rs[k] = i
    BY AnswerIsSorted
  <1>2. PICK old \in Seq(Ids) : old = p.loaded
    BY DEF Paged, PageState
  <1>3. PICK o \in Nat : o = Len(old) /\ old \in [1..o -> Ids]
    BY LenProperties
  <1>4. rs \in Seq(Ids) /\ Len(rs) = n
    BY <1>1
  <1>5. PICK t \in Nat : t = IF n < PageLimit THEN n ELSE PageLimit
    BY DEF ResultsConstants
  <1>6. PICK taken \in Seq(Ids) : taken = Results!Take(rs)
    <2>1. \A i \in 1..t : rs[i] \in Ids
      BY <1>1, <1>5 DEF ResultsConstants
    <2>2. SubSeq(rs, 1, t) \in Seq(Ids)
      BY <2>1, SubSeqProperties
    <2> QED
      BY <1>4, <1>5, <2>2 DEF Results!Take
  <1>7. Len(taken) = t /\ \A k \in 1..t : taken[k] = rs[k]
    <2>1. taken = SubSeq(rs, 1, t)
      BY <1>4, <1>5, <1>6 DEF Results!Take
    <2>2. \A i \in 1..t : rs[i] \in Ids
      BY <1>1, <1>5 DEF ResultsConstants
    <2>3. Len(SubSeq(rs, 1, t)) = (IF 1 <= t THEN t - 1 + 1 ELSE 0)
          /\ \A i \in 1..t - 1 + 1 : SubSeq(rs, 1, t)[i] = rs[1 + i - 1]
      BY <2>2, SubSeqProperties
    <2>4. t - 1 + 1 = t /\ \A i \in 1..t : 1 + i - 1 = i
      OBVIOUS
    <2> QED
      BY <2>1, <2>3, <2>4
  <1>8. PICK all \in Seq(Ids) : all = old \o taken
    BY ConcatProperties
  <1>9. Len(all) = o + t /\ \A k \in 1..(o + t) : all[k] = IF k <= o THEN old[k] ELSE rs[k - o]
    <2>1. Len(all) = o + t
          /\ \A k \in 1..(o + t) : all[k] = IF k <= o THEN old[k] ELSE taken[k - o]
      BY <1>3, <1>7, <1>8, ConcatProperties
    <2>2. \A k \in 1..(o + t) : ~ (k <= o) => k - o \in 1..t
      OBVIOUS
    <2> QED
      BY <1>7, <2>1, <2>2
  <1>10. DOMAIN all = 1..(o + t)
    BY <1>9, LenProperties
  <1>11. PICK next \in Cursors : next = Results!NextCursor(rs)
    <2>1. CASE n <= PageLimit
      BY <1>4, <2>1 DEF Results!NextCursor, Results!NoCursor, Cursors
    <2>2. CASE ~ (n <= PageLimit)
      <3>0. PageLimit \in 1..n
        BY <2>2 DEF ResultsConstants
      <3>1. PICK r \in Ids : r = rs[PageLimit]
        BY <1>1, <3>0
      <3>2. value[r] \in Values \union {Results!NULL}
        BY DEF ColumnTyped
      <3> QED
        BY <1>4, <2>2, <3>1, <3>2 DEF Results!NextCursor, Cursors
    <2> QED
      BY <2>1, <2>2
  <1>12. q = [stage |-> "idle", loaded |-> all, cursor |-> next]
    BY <1>2, <1>6, <1>8, <1>11
  <1> HIDE DEF q
  <1>13. q \in PageState /\ Staged(q) /\ q.loaded = all /\ q.cursor = next /\ q.stage = "idle"
    BY <1>12 DEF PageState, Staged
  <1>14. next = Results!NoCursor \/ (n > PageLimit /\ next = CursorAt(rs[PageLimit]))
    <2>1. n <= PageLimit => next = Results!NoCursor
      BY <1>4, <1>11 DEF Results!NextCursor
    <2>2. ~ (n <= PageLimit) => next = CursorAt(rs[PageLimit])
      BY <1>4, <1>11 DEF Results!NextCursor, CursorAt
    <2>3. n <= PageLimit \/ n > PageLimit
      BY DEF ResultsConstants
    <2> QED
      BY <2>1, <2>2, <2>3
  <1>15. n > PageLimit => next # Results!NoCursor /\ next = CursorAt(rs[PageLimit]) /\ rs[PageLimit] \in Ids
    <2> SUFFICES ASSUME n > PageLimit
                 PROVE  next # Results!NoCursor /\ next = CursorAt(rs[PageLimit])
                        /\ rs[PageLimit] \in Ids
      OBVIOUS
    <2>1. PageLimit \in 1..n /\ ~ (n <= PageLimit)
      BY DEF ResultsConstants
    <2>2. rs[PageLimit] \in Ids
      BY <1>1, <2>1
    <2>3. next = CursorAt(rs[PageLimit])
      BY <1>4, <1>11, <2>1 DEF Results!NextCursor, CursorAt
    <2>4. next.id = rs[PageLimit] /\ Results!NoCursor.id = 0
      BY <2>3 DEF CursorAt, Results!NoCursor
    <2> QED
      BY <2>2, <2>3, <2>4, RowTyped
  <1>16. ASSUME Results!Tells(s)
         PROVE  Orderly(s, q)
    <2>1. ASSUME NEW m \in 1..o, NEW i \in Ids, Results!Follows(s, c, i)
          PROVE  Results!Before(s, old[m], i)
      <3>1. p.stage = "next"
        BY <1>2, <1>3 DEF Paged, Staged
      <3>2. Remains(s, p, i)
        BY <2>1, <3>1 DEF Paged, Staged, Remains
      <3> QED
        BY <1>2, <1>3, <1>16, <3>2 DEF Paged, Orderly
    <2>2. \A k, l \in 1..o : k < l => Results!Before(s, old[k], old[l])
      BY <1>2, <1>3, <1>16 DEF Paged, Orderly, Sorted
    <2>3. ASSUME NEW k \in 1..(o + t), NEW l \in 1..(o + t), k < l
          PROVE  Results!Before(s, all[k], all[l])
      <3>1. CASE l <= o
        <4>1. k \in 1..o /\ l \in 1..o /\ all[k] = old[k] /\ all[l] = old[l]
          BY <1>9, <2>3, <3>1
        <4> QED
          BY <2>2, <2>3, <4>1
      <3>2. CASE k <= o /\ ~ (l <= o)
        <4>1. k \in 1..o /\ l - o \in 1..n /\ all[k] = old[k] /\ all[l] = rs[l - o]
          BY <1>5, <1>9, <3>2
        <4>2. rs[l - o] \in Ids /\ Results!Follows(s, c, rs[l - o])
          BY <1>1, <4>1
        <4> QED
          BY <2>1, <4>1, <4>2
      <3>3. CASE ~ (k <= o) /\ ~ (l <= o)
        <4>1. k - o \in 1..n /\ l - o \in 1..n /\ k - o < l - o
          BY <1>5, <2>3, <3>3 DEF ResultsConstants
        <4>2. all[k] = rs[k - o] /\ all[l] = rs[l - o]
          BY <1>9, <3>3
        <4> QED
          BY <1>1, <4>1, <4>2 DEF Sorted
      <3> QED
        BY <2>3, <3>1, <3>2, <3>3
    <2>4. ASSUME NEW m \in 1..(o + t), NEW i \in Ids, Remains(s, q, i)
          PROVE  Results!Before(s, all[m], i)
      <3>1. PICK r \in Ids : r = rs[PageLimit] /\ n > PageLimit /\ next = CursorAt(r)
        BY <1>13, <1>14, <1>15, <2>4 DEF Remains
      <3>2. Results!Before(s, r, i)
        BY <1>13, <1>16, <2>4, <3>1, CursorTells DEF Remains
      <3>3. PageLimit \in 1..n /\ t = PageLimit
        BY <1>5, <3>1 DEF ResultsConstants
      <3>4. o + t \in 1..(o + t) /\ all[o + t] = r
        BY <1>5, <1>9, <3>1, <3>3 DEF ResultsConstants
      <3>5. all[m] \in Ids
        BY <1>8, <1>10, ElementOfSeq, <1>9
      <3>6. m = o + t \/ Results!Before(s, all[m], r)
        BY <2>3, <3>4
      <3> QED
        BY <3>2, <3>4, <3>5, <3>6, BeforeIsOrder
    <2> QED
      BY <1>10, <1>13, <2>3, <2>4 DEF Orderly, Sorted
  <1>17. ASSUME Results!Tellable(s)
         PROVE  Whole(s, q)
    <2>1. ASSUME NEW i \in Ids
          PROVE  Loads(q, i) \/ Remains(s, q, i)
      <3>1. CASE Loads(p, i)
        <4>1. PICK m \in 1..o : old[m] = i
          BY <1>2, <1>3, <3>1 DEF Loads
        <4>2. m \in 1..(o + t) /\ all[m] = i
          BY <1>9, <4>1
        <4> QED
          BY <1>10, <1>13, <4>2 DEF Loads
      <3>2. CASE ~ Loads(p, i)
        <4>1. Results!Follows(s, c, i)
          <5>1. CASE p.stage = "next"
            BY <1>17, <3>2, <5>1 DEF Paged, Whole, Remains
          <5>2. CASE p.stage = "first"
            <6>1. c = Results!NoCursor
              BY <5>2 DEF Paged, Staged
            <6>2. c.id = 0
              BY <6>1 DEF Results!NoCursor
            <6> QED
              BY <6>2 DEF Results!Follows
          <5> QED
            BY <5>1, <5>2
        <4>2. PICK k \in 1..n : rs[k] = i
          BY <1>1, <4>1 DEF RowsFrom
        <4>3. CASE k <= t
          <5>1. o + k \in 1..(o + t) /\ ~ (o + k <= o) /\ o + k - o = k
            BY <4>3
          <5>2. all[o + k] = i
            BY <1>9, <4>2, <5>1
          <5> QED
            BY <1>10, <1>13, <5>1, <5>2 DEF Loads
        <4>4. CASE ~ (k <= t)
          <5>1. n > PageLimit /\ PageLimit \in 1..n /\ PageLimit < k
            BY <1>5, <4>4 DEF ResultsConstants
          <5>2. PICK r \in Ids : r = rs[PageLimit] /\ next = CursorAt(r) /\ next # Results!NoCursor
            BY <1>15, <5>1
          <5>3. Results!Before(s, r, i)
            BY <1>1, <4>2, <5>1, <5>2 DEF Sorted
          <5>4. Results!Follows(s, CursorAt(r), i)
            BY <1>17, <5>3, CursorTells
          <5> QED
            BY <1>13, <5>2, <5>4 DEF Remains
        <4> QED
          BY <4>3, <4>4
      <3> QED
        BY <3>1, <3>2
    <2> QED
      BY <2>1 DEF Whole
  <1> QED
    BY <1>13, <1>16, <1>17 DEF Paged, q

(* The rest of what is done with a cache changes its stage, or empties it. *)
LEMMA StageKeeps ==
  ASSUME NEW s \in Results!Orders, NEW p, Paged(s, p), NEW stage,
         \/ stage = "first" /\ p.stage = "none"
         \/ stage = "next" /\ p.stage = "idle" /\ p.cursor # Results!NoCursor
         \/ stage = "none" /\ p.stage = "first"
         \/ stage = "idle" /\ p.stage = "next"
  PROVE  Paged(s, [p EXCEPT !.stage = stage])
  <1>1. PICK q : q = [p EXCEPT !.stage = stage]
    OBVIOUS
  <1>2. q \in PageState /\ q.loaded = p.loaded /\ q.cursor = p.cursor /\ q.stage = stage
    BY <1>1 DEF Paged, PageState
  <1>3. Staged(q)
    BY <1>2 DEF Paged, Staged
  <1>4. Orderly(s, p) => Orderly(s, q)
    BY <1>2 DEF Orderly, Remains
  <1>5. Whole(s, p) => Whole(s, q)
    BY <1>2 DEF Whole, Remains, Loads
  <1> QED
    BY <1>1, <1>2, <1>3, <1>4, <1>5 DEF Paged

(* While the rows stay as they are, so does what is said of a cache. *)
LEMMA CacheStays ==
  ASSUME UNCHANGED value, NEW s, NEW p, Paged(s, p)
  PROVE  Paged(s, p)'
  <1>1. \A i, j : Results!Before(s, i, j)' <=> Results!Before(s, i, j)
    BY DEF Results!Before, Results!Above
  <1>2. \A i : Remains(s, p, i)' <=> Remains(s, p, i)
    BY DEF Remains, Results!Follows
  <1>3. Results!Tells(s)' <=> Results!Tells(s)
    BY DEF Results!Tells
  <1>4. Results!Tellable(s)' <=> Results!Tellable(s)
    BY <1>3 DEF Results!Tellable
  <1>5. Orderly(s, p) => Orderly(s, p)'
    BY <1>1, <1>2 DEF Orderly, Sorted
  <1>6. Whole(s, p) => Whole(s, p)'
    BY <1>2 DEF Whole
  <1> QED
    BY <1>3, <1>4, <1>5, <1>6 DEF Paged

LEMMA OneCacheKeeps ==
  ASSUME PagesInv, UNCHANGED <<route, value>>, order' \in Results!Orders,
         NEW s \in Results!Orders, NEW q, Paged(s, q), pages' = [pages EXCEPT ![s] = q]
  PROVE  PagesInv'
  <1>1. ASSUME NEW r \in Results!Orders
        PROVE  Paged(r, pages[r])'
    <2>1. PICK p : p = pages'[r]
      OBVIOUS
    <2>2. Paged(r, p)
      BY <2>1 DEF PagesInv
    <2>3. Paged(r, p)'
      BY <2>2, CacheStays
    <2> QED
      BY <2>1, <2>3
  <1>2. pages' \in [Results!Orders -> PageState]
    BY DEF PagesInv, Paged
  <1> QED
    BY <1>1, <1>2 DEF PagesInv, ColumnTyped, Results!Orders

LEMMA PagesStep ==
  ASSUME ResultsConstants, PagesInv, [Results!Next]_Results!vars
  PROVE  PagesInv'
  <1>1. ASSUME UNCHANGED <<route, value, pages>>, order' \in Results!Orders
        PROVE  PagesInv'
    <2>1. pages' = [pages EXCEPT ![order] = pages[order]]
      BY <1>1 DEF PagesInv
    <2> QED
      BY <1>1, <2>1, OneCacheKeeps DEF PagesInv
  <1>2. CASE UNCHANGED Results!vars
    BY <1>1, <1>2 DEF Results!vars, Results!pageVars, PagesInv
  <1>3. CASE Results!ToggleSort /\ UNCHANGED route
    <2>1. order' \in Results!Orders
      BY <1>3 DEF Results!ToggleSort, Results!Orders, PagesInv
    <2> QED
      BY <1>1, <1>3, <2>1 DEF Results!ToggleSort
  <1>4. ASSUME NEW s \in Results!Orders, NEW stage, UNCHANGED <<route, value, order>>,
               pages' = [pages EXCEPT ![s].stage = stage],
               Paged(s, [pages[s] EXCEPT !.stage = stage])
        PROVE  PagesInv'
    <2>1. pages' = [pages EXCEPT ![s] = [pages[s] EXCEPT !.stage = stage]]
      BY <1>4 DEF PagesInv
    <2> QED
      BY <1>4, <2>1, OneCacheKeeps DEF PagesInv
  <1>5. CASE (Results!AskFirst \/ Results!AskNext) /\ UNCHANGED route
    <2>1. order \in Results!Orders /\ Paged(order, pages[order])
      BY DEF PagesInv
    <2>2. CASE Results!AskFirst
      BY <1>4, <1>5, <2>1, <2>2, StageKeeps DEF Results!AskFirst
    <2>3. CASE Results!AskNext
      BY <1>4, <1>5, <2>1, <2>3, StageKeeps DEF Results!AskNext, Results!HasNextPage
    <2> QED
      BY <1>5, <2>2, <2>3
  <1>6. ASSUME NEW s \in Results!Orders, Results!PageReturns(s), UNCHANGED route
        PROVE  PagesInv'
    <2>1. Paged(s, pages[s]) /\ ColumnTyped
      BY DEF PagesInv
    <2>2. PICK rs : rs = Results!RowsAfter(s, pages[s].cursor)
      OBVIOUS
    <2>3. PICK q : q = [stage |-> "idle", loaded |-> pages[s].loaded \o Results!Take(rs),
                        cursor |-> Results!NextCursor(rs)]
      OBVIOUS
    <2>4. Paged(s, q)
      BY <1>6, <2>1, <2>2, <2>3, PageComes DEF Results!PageReturns
    <2>5. pages' = [pages EXCEPT ![s] = q]
      BY <1>6, <2>2, <2>3 DEF Results!PageReturns
    <2> QED
      BY <1>6, <2>4, <2>5, OneCacheKeeps DEF Results!PageReturns, PagesInv
  <1>7. ASSUME NEW s \in Results!Orders, Results!PageFails(s), UNCHANGED route
        PROVE  PagesInv'
    <2>1. Paged(s, pages[s])
      BY DEF PagesInv
    <2>2. PICK stage : stage = IF pages[s].stage = "first" THEN "none" ELSE "idle"
      OBVIOUS
    <2>3. Paged(s, [pages[s] EXCEPT !.stage = stage])
      BY <1>7, <2>1, <2>2, StageKeeps DEF Results!PageFails
    <2>4. pages' = [pages EXCEPT ![s].stage = stage]
      BY <1>7, <2>2 DEF Results!PageFails, PagesInv
    <2> QED
      BY <1>4, <1>7, <2>3, <2>4 DEF Results!PageFails
  <1>8. ASSUME NEW s \in Results!Orders, Results!Expire(s), UNCHANGED route
        PROVE  PagesInv'
    BY <1>8, NothingLoaded, OneCacheKeeps DEF Results!Expire, PagesInv
  <1> QED
    BY <1>2, <1>3, <1>5, <1>6, <1>7, <1>8 DEF Results!Next, Results!Here
==============================================================================
