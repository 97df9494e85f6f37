--------------------------- MODULE ConsolePagesProofs ---------------------------
(***************************************************************************)
(* The pages of the field collector's console and the administration of    *)
(* the enterprise map, for any tabs, sources, forms and accounts: for each *)
(* page that MCWebPages composes an inductive invariant, that its first    *)
(* states have it and that its steps keep it.  WebPagesProofs draws the    *)
(* conclusions.                                                            *)
(***************************************************************************)
EXTENDS MCWebPages, FiniteSetTheorems, FunctionTheorems, SequenceTheorems, WellFoundedInduction,
        TLAPS

------------------------------------------------------------------------------
(* The session of the console, in all tabs that share a storage. *)

SessionConstants == MaxGrants \in Nat

(* The user is stored by a sign in only: a refresh keeps what it finds.    *)
(* The access token may well come back, by the answer to a refresh that    *)
(* was under way.                                                          *)
ClearedIsWithoutUser == signedOut => ~held.user

HeldTyped == held \in [access : 0..grants, refresh : 0..grants, user : BOOLEAN]
ServerTyped == grants \in 0..MaxGrants /\ alive \subseteq 1..grants /\ unused \subseteq 1..grants
TabState(n) ==
  [page : {"login", "callback", "app"}, user : BOOLEAN,
   request : [stage : {"idle", "sent", "refreshing", "retried"}, token : 0..n],
   check : 0..n, awaits : {"none", "login", "user"}]
TabsTyped == tabs \in [Tabs -> TabState(grants)]

SessionInv ==
  /\ route \in Routes /\ signedOut \in BOOLEAN
  /\ HeldTyped /\ ServerTyped /\ TabsTyped /\ ClearedIsWithoutUser

LEMMA SessionInvIsEnough == SessionInv => Session!TypeOK /\ Session!SignedOutStaysOut
  BY DEF SessionInv, HeldTyped, ServerTyped, TabsTyped, TabState, ClearedIsWithoutUser,
     Session!TypeOK,
     Session!SignedOutStaysOut, Session!Hydrated

------------------------------------------------------------------------------
(* States of a tab. *)

LEMMA TabOnTyped ==
  ASSUME NEW n \in Nat, NEW p \in {"login", "callback", "app"}
  PROVE  Session!TabOn(p) \in TabState(n)
  <1>1. Session!NoRequest \in [stage : {"idle", "sent", "refreshing", "retried"}, token : 0..n]
    BY DEF Session!NoRequest
  <1> QED
    BY <1>1 DEF Session!TabOn, TabState

LEMMA HomeTyped ==
  ASSUME NEW n \in Nat
  PROVE  Session!Home \in TabState(n)
  BY TabOnTyped DEF Session!Home

LEMMA TabsGrow ==
  ASSUME NEW m \in Nat, NEW n \in Nat, m =< n, NEW x \in TabState(m)
  PROVE  x \in TabState(n)
  BY DEF TabState

LEMMA SessionInitial == SessionConstants /\ Session!Init => SessionInv
  <1> SUFFICES ASSUME SessionConstants, Session!Init
               PROVE  SessionInv
    OBVIOUS
  <1>1. TabsTyped
    BY TabOnTyped DEF Session!Init, TabsTyped
  <1>2. HeldTyped /\ ServerTyped /\ ClearedIsWithoutUser
    BY DEF Session!Init, SessionConstants, HeldTyped, ServerTyped, ClearedIsWithoutUser,
       Session!Nothing
  <1> QED
    BY <1>1, <1>2 DEF Session!Init, SessionInv

------------------------------------------------------------------------------
(* What the parts of the steps keep. *)

(* A grant, with what is stored of it. *)
LEMMA GrantKeeps ==
  ASSUME SessionConstants, SessionInv, NEW spent, Session!Grant(spent), NEW user \in BOOLEAN,
         Session!Keep(user)
  PROVE  HeldTyped' /\ ServerTyped' /\ grants' = grants + 1 /\ held'.user = user
  <1>1. grants \in Nat /\ grants' \in 0..MaxGrants /\ grants' = grants + 1
    BY DEF SessionConstants, SessionInv, ServerTyped, Session!Grant
  <1>2. ServerTyped'
    <2>1. 1..grants \subseteq 1..grants' /\ grants + 1 \in 1..grants'
      BY <1>1
    <2> QED
      BY <1>1, <2>1 DEF SessionInv, ServerTyped, Session!Grant
  <1>3. held' = [access |-> grants', refresh |-> grants', user |-> user]
    BY <1>1 DEF Session!Keep
  <1>4. grants' \in 0..grants'
    BY <1>1
  <1>5. HeldTyped' /\ held'.user = user
    BY <1>3, <1>4 DEF HeldTyped
  <1> QED
    BY <1>1, <1>2, <1>5

LEMMA ServerKeeps ==
  ASSUME SessionInv, Session!ServerUnchanged
  PROVE  ServerTyped' /\ grants' = grants
  BY DEF SessionInv, ServerTyped, Session!ServerUnchanged

(* Nothing is stored, or what was stored is cleared. *)
LEMMA HeldKeeps ==
  ASSUME SessionConstants, SessionInv, Session!ServerUnchanged, UNCHANGED <<held,
         signedOut>> \/ Session!ClearToken
  PROVE  HeldTyped' /\ ClearedIsWithoutUser' /\ signedOut' \in BOOLEAN
  <1>1. grants \in Nat /\ grants' = grants
    BY DEF SessionConstants, SessionInv, ServerTyped, Session!ServerUnchanged
  <1>2. CASE UNCHANGED <<held, signedOut>>
    BY <1>1, <1>2 DEF SessionInv, HeldTyped, ClearedIsWithoutUser
  <1>3. CASE Session!ClearToken
    BY <1>1, <1>3 DEF SessionInv, HeldTyped, ClearedIsWithoutUser, Session!ClearToken,
       Session!Nothing
  <1> QED
    BY <1>2, <1>3

(* One tab changes, to a state that is one. *)
LEMMA TabsKeep ==
  ASSUME SessionConstants, SessionInv, grants' \in Nat, grants =< grants',
         NEW t \in Tabs, NEW x \in TabState(grants'), tabs' = [tabs EXCEPT ![t] = x]
  PROVE  TabsTyped'
  <1>1. grants \in Nat
    BY DEF SessionConstants, SessionInv, ServerTyped
  <1>2. \A u \in Tabs : tabs[u] \in TabState(grants')
    BY <1>1, TabsGrow DEF SessionInv, TabsTyped
  <1> QED
    BY <1>2 DEF SessionInv, TabsTyped

------------------------------------------------------------------------------
(* The steps that give a grant. *)

GrantStep(t) == Session!LoginReturns(t) \/ Session!LoadCallback(t)
   \/ Session!RefreshReturns(t) \/ Session!CheckReturns(t)

LEMMA GrantStepKeeps ==
  ASSUME SessionConstants, SessionInv, NEW t \in Tabs, GrantStep(t), UNCHANGED route
  PROVE  SessionInv'
  <1>1. grants \in Nat /\ held.user \in BOOLEAN /\ tabs[t] \in TabState(grants)
    BY DEF SessionConstants, SessionInv, ServerTyped, HeldTyped, TabsTyped
  <1>2. ASSUME NEW user \in BOOLEAN, NEW spent, NEW x \in TabState(grants + 1),
               Session!Grant(spent), Session!Keep(user), tabs' = [tabs EXCEPT ![t] = x],
               signedOut' \in BOOLEAN, signedOut' => ~user
        PROVE  SessionInv'
    <2>1. HeldTyped' /\ ServerTyped' /\ grants' = grants + 1 /\ held'.user = user
      BY <1>2, GrantKeeps
    <2>2. TabsTyped'
      <3>1. x \in TabState(grants') /\ grants' \in Nat /\ grants =< grants'
        BY <1>1, <1>2, <2>1
      <3> QED
        BY <1>2, <3>1, TabsKeep
    <2> QED
      BY <1>2, <2>1, <2>2 DEF SessionInv, ClearedIsWithoutUser
  <1>3. CASE Session!LoginReturns(t)
    <2>1. [Session!TabOn("app") EXCEPT !.check = tabs[t].check] \in TabState(grants + 1)
      BY <1>1, TabOnTyped DEF TabState
    <2> QED
      BY <1>2, <1>3, <2>1 DEF Session!LoginReturns
  <1>4. CASE Session!LoadCallback(t)
    <2>1. [Session!TabOn("callback") EXCEPT !.awaits = "user"] \in TabState(grants + 1)
      BY <1>1, TabOnTyped DEF TabState
    <2> QED
      BY <1>1, <1>2, <1>4, <2>1 DEF Session!LoadCallback, SessionInv, ClearedIsWithoutUser
  <1>5. CASE Session!RefreshReturns(t)
    <2>1. [tabs[t] EXCEPT !.request = [stage |-> "retried", token |-> grants + 1]]
            \in TabState(grants + 1)
      BY <1>1 DEF TabState
    <2>2. tabs' = [tabs EXCEPT ![t] = [tabs[t] EXCEPT !.request =
                                        [stage |-> "retried", token |-> grants + 1]]]
      BY <1>5 DEF Session!RefreshReturns, SessionInv, TabsTyped
    <2> QED
      BY <1>1, <1>2, <1>5, <2>1, <2>2 DEF Session!RefreshReturns, SessionInv, ClearedIsWithoutUser
  <1>6. CASE Session!CheckReturns(t)
    <2>1. [tabs[t] EXCEPT !.check = 0] \in TabState(grants + 1)
      BY <1>1 DEF TabState
    <2>2. tabs' = [tabs EXCEPT ![t] = [tabs[t] EXCEPT !.check = 0]]
      BY <1>6 DEF Session!CheckReturns, SessionInv, TabsTyped
    <2> QED
      BY <1>1, <1>2, <1>6, <2>1, <2>2 DEF Session!CheckReturns, SessionInv, ClearedIsWithoutUser
  <1> QED
    BY <1>3, <1>4, <1>5, <1>6 DEF GrantStep

------------------------------------------------------------------------------
(* The steps of a tab that give none. *)

LEMMA TabStepKeeps ==
  ASSUME SessionConstants, SessionInv, NEW t \in Tabs, NEW x \in TabState(grants),
         tabs' = [tabs EXCEPT ![t] = x], Session!ServerUnchanged, UNCHANGED route,
         UNCHANGED <<held, signedOut>> \/ Session!ClearToken
  PROVE  SessionInv'
  <1>1. grants \in Nat /\ grants' = grants
    BY DEF SessionConstants, SessionInv, ServerTyped, Session!ServerUnchanged
  <1>2. TabsTyped'
    <2>1. x \in TabState(grants') /\ grants' \in Nat /\ grants =< grants'
      BY <1>1
    <2> QED
      BY <2>1, TabsKeep
  <1> QED
    BY <1>2, ServerKeeps, HeldKeeps DEF SessionInv

PageStep(t) ==
  \/ Session!LoadPage(t) \/ Session!SubmitLogin(t) \/ Session!LoginFails(t)
  \/ Session!CallbackFails(t) \/ Session!Logout(t)
  \/ Session!Send(t) \/ Session!Answered(t) \/ Session!Refused(t) \/ Session!RefreshFails(t)
  \/ Session!Check(t) \/ Session!CheckFails(t)

LEMMA PageStepKeeps ==
  ASSUME SessionConstants, SessionInv, NEW t \in Tabs, PageStep(t), UNCHANGED route
  PROVE  SessionInv'
  <1>1. /\ grants \in Nat /\ held.access \in 0..grants /\ held.refresh \in 0..grants
        /\ tabs[t] \in TabState(grants)
    BY DEF SessionConstants, SessionInv, ServerTyped, HeldTyped, TabsTyped
  <1>2. Session!NoRequest \in [stage : {"idle", "sent", "refreshing", "retried"},
     token : 0..grants]
    BY <1>1 DEF Session!NoRequest
  <1>3. \E x \in TabState(grants) : tabs' = [tabs EXCEPT ![t] = x]
    <2>1. CASE Session!LoadPage(t)
      BY <1>1, <2>1, HomeTyped DEF Session!LoadPage
    <2>2. CASE Session!SubmitLogin(t) \/ Session!LoginFails(t)
      <3>1. /\ [tabs[t] EXCEPT !.awaits = "login"] \in TabState(grants)
            /\ [tabs[t] EXCEPT !.awaits = "none"] \in TabState(grants)
        BY <1>1 DEF TabState
      <3> QED
        BY <2>2, <3>1 DEF Session!SubmitLogin, Session!LoginFails, SessionInv, TabsTyped
    <2>3. CASE Session!CallbackFails(t)
      <3>1. PICK next \in {Session!Home, Session!TabOn("login")} :
              tabs' = [tabs EXCEPT ![t] = [next EXCEPT !.check = tabs[t].check]]
        BY <2>3 DEF Session!CallbackFails
      <3>2. next \in TabState(grants)
        BY <1>1, HomeTyped, TabOnTyped
      <3>3. [next EXCEPT !.check = tabs[t].check] \in TabState(grants)
        BY <1>1, <3>2 DEF TabState
      <3> QED
        BY <3>1, <3>3
    <2>4. CASE Session!Logout(t)
      <3> DEFINE x == [tabs[t] EXCEPT !.page = "login", !.user = FALSE]
      <3>1. x \in TabState(grants)
        BY <1>1 DEF TabState
      <3>2. tabs' = [tabs EXCEPT ![t] = x]
        BY <2>4 DEF Session!Logout, SessionInv, TabsTyped
      <3> QED
        BY <3>1, <3>2
    <2>5. ASSUME NEW r \in [stage : {"idle", "sent", "refreshing", "retried"}, token : 0..grants],
                 tabs' = [tabs EXCEPT ![t].request = r]
          PROVE  \E x \in TabState(grants) : tabs' = [tabs EXCEPT ![t] = x]
      <3> DEFINE x == [tabs[t] EXCEPT !.request = r]
      <3>1. x \in TabState(grants)
        BY <1>1 DEF TabState
      <3>2. tabs' = [tabs EXCEPT ![t] = x]
        BY <2>5 DEF SessionInv, TabsTyped
      <3> QED
        BY <3>1, <3>2
    <2>6. CASE Session!Send(t)
      BY <1>1, <2>5, <2>6 DEF Session!Send
    <2>7. CASE Session!Answered(t) \/ Session!RefreshFails(t)
      BY <1>2, <2>5, <2>7 DEF Session!Answered, Session!RefreshFails, Session!SessionOver
    <2>8. CASE Session!Refused(t)
      <3>1. CASE held.refresh = 0
        BY <1>2, <2>5, <2>8, <3>1 DEF Session!Refused, Session!SessionOver
      <3>2. CASE held.refresh # 0
        BY <1>1, <2>5, <2>8, <3>2 DEF Session!Refused
      <3> QED
        BY <3>1, <3>2
    <2>9. CASE Session!Check(t) \/ Session!CheckFails(t)
      <3>1. PICK n \in 0..grants : tabs' = [tabs EXCEPT ![t].check = n]
        BY <1>1, <2>9 DEF Session!Check, Session!CheckFails
      <3> DEFINE x == [tabs[t] EXCEPT !.check = n]
      <3>2. x \in TabState(grants)
        BY <1>1 DEF TabState
      <3>3. tabs' = [tabs EXCEPT ![t] = x]
        BY <3>1 DEF SessionInv, TabsTyped
      <3> QED
        BY <3>2, <3>3
    <2> QED
      BY <2>1, <2>2, <2>3, <2>4, <2>6, <2>7, <2>8, <2>9 DEF PageStep
  <1>4. Session!ServerUnchanged /\ (UNCHANGED <<held, signedOut>> \/ Session!ClearToken)
    BY DEF PageStep, Session!LoadPage, Session!SubmitLogin, Session!LoginFails,
       Session!CallbackFails, Session!Logout, Session!Send, Session!Answered,
       Session!Refused, Session!RefreshFails, Session!SessionOver, Session!Check,
          Session!CheckFails
  <1> QED
    BY <1>3, <1>4, TabStepKeeps

(* The profile that the callback page stores ends the signed-out time. *)
LEMMA CallbackReturnsKeeps ==
  ASSUME SessionConstants, SessionInv, NEW t \in Tabs, Session!CallbackReturns(t), UNCHANGED route
  PROVE  SessionInv'
  <1>1. grants \in Nat /\ grants' = grants /\ tabs[t] \in TabState(grants)
    BY DEF SessionConstants, SessionInv, ServerTyped, TabsTyped, Session!CallbackReturns,
       Session!ServerUnchanged
  <1>2. PICK p \in {"login", "callback", "app"} :
          tabs' = [tabs EXCEPT ![t] = [Session!TabOn(p) EXCEPT !.check = tabs[t].check]]
    BY DEF Session!CallbackReturns
  <1>3. [Session!TabOn(p) EXCEPT !.check = tabs[t].check] \in TabState(grants)
    BY <1>1, TabOnTyped DEF TabState
  <1>4. TabsTyped'
    <2>1. [Session!TabOn(p) EXCEPT !.check = tabs[t].check] \in TabState(grants')
          /\ grants' \in Nat /\ grants =< grants'
      BY <1>1, <1>3
    <2> QED
      BY <1>2, <2>1, TabsKeep
  <1>5. HeldTyped' /\ signedOut' = FALSE
    BY <1>1 DEF Session!CallbackReturns, SessionInv, HeldTyped
  <1>6. ServerTyped'
    BY ServerKeeps DEF Session!CallbackReturns
  <1> QED
    BY <1>4, <1>5, <1>6 DEF SessionInv, ClearedIsWithoutUser

LEMMA GrantExpires ==
  ASSUME SessionInv, NEW n \in alive, Session!Expire(n), UNCHANGED route
  PROVE  SessionInv'
  BY DEF Session!Expire, SessionInv, HeldTyped, ServerTyped, TabsTyped, ClearedIsWithoutUser

------------------------------------------------------------------------------
LEMMA SessionStep ==
  ASSUME SessionConstants, SessionInv, [Session!Next]_Session!vars
  PROVE  SessionInv'
  <1>1. CASE UNCHANGED Session!vars
    BY <1>1 DEF Session!vars, Session!sessionVars, SessionInv, HeldTyped, ServerTyped, TabsTyped,
       ClearedIsWithoutUser
  <1>2. CASE Session!Next
    <2>1. UNCHANGED route
      BY <1>2 DEF Session!Next, Session!Here
    <2>2. \/ \E t \in Tabs : GrantStep(t) \/ PageStep(t) \/ Session!CallbackReturns(t)
          \/ \E n \in alive : Session!Expire(n)
      BY <1>2 DEF Session!Next, GrantStep, PageStep
    <2> QED
      BY <2>1, <2>2, GrantStepKeeps, PageStepKeeps, CallbackReturnsKeeps, GrantExpires
  <1> QED
    BY <1>1, <1>2
------------------------------------------------------------------------------
(* The data sources of a layer: DataSources.                               *)

SourceConstants == MaxSources \in Nat

LinkTargets == Connections \union {Unlinked}
Fetches(n) ==
  [stage : {"none", "asked", "served", "failed"}, answer : SUBSET (1..n)]
Forms(n) ==
  [open : BOOLEAN, kind : Source!Kinds, filled : BOOLEAN, result : {"none", "success", "failure"},
   stage : {"none", "upload", "create", "sync"}, id : 0..n]
Drawers(n) == [source : 0..n, current : LinkTargets, selected : LinkTargets]
Links(n) == [source : 1..n, connection : LinkTargets]

StoreTyped == sources \in Seq(Source!Stores) /\ Len(sources) <= MaxSources
PageTyped(n) ==
  /\ catalog \subseteq 1..n /\ imported \subseteq 1..n /\ fetch \in Fetches(n)
  /\ adding \in Forms(n) /\ (adding.stage = "sync" => adding.id # 0)
  /\ resync \in 0..n /\ linking \in Drawers(n) /\ linkSaves \subseteq Links(n)

(* What a list holds of the sources the page was told of.                  *)
Covers(list) == \A i \in imported : i \in list \/ sources[i].status = "deleted"

(* An answer that is on its way was made after the page was told.          *)
AnswerIsRecent == fetch.stage = "served" => Covers(fetch.answer)
ListIsRecent == fetch.stage = "none" => Covers(catalog)

SourceInv ==
  /\ route \in Routes
  /\ StoreTyped /\ PageTyped(Len(sources)) /\ AnswerIsRecent /\ ListIsRecent

LEMMA SourceInvIsEnough == SourceInv => Source!TypeOK /\ Source!ImportedIsListed
  <1> SUFFICES ASSUME SourceInv
               PROVE  Source!TypeOK /\ Source!ImportedIsListed
    OBVIOUS
  <1>1. Source!ImportedIsListed
    BY DEF SourceInv, ListIsRecent, Covers, Source!ImportedIsListed
  <1>2. Source!TypeOK
    BY DEF SourceInv, StoreTyped, PageTyped, Fetches, Forms, Drawers, Links, LinkTargets,
       Source!TypeOK
  <1> QED
    BY <1>1, <1>2

LEMMA SourceInitial == SourceConstants /\ Source!Init => SourceInv
  <1> SUFFICES ASSUME SourceConstants, Source!Init
               PROVE  SourceInv
    OBVIOUS
  <1>1. StoreTyped /\ Len(sources) = 0
    BY DEF Source!Init, SourceConstants, StoreTyped
  <1>2. fetch \in Fetches(0) /\ adding \in Forms(0) /\ linking \in Drawers(0)
    BY DEF Source!Init, Source!NoFetch, Source!ClosedForm, Source!NoDrawer, Source!Kinds, Fetches,
       Forms, Drawers, LinkTargets
  <1>3. PageTyped(0)
    BY <1>2 DEF Source!Init, Source!ClosedForm, PageTyped
  <1>4. AnswerIsRecent /\ ListIsRecent
    BY DEF Source!Init, Source!NoFetch, AnswerIsRecent, ListIsRecent, Covers
  <1> QED
    BY <1>1, <1>3, <1>4 DEF Source!Init, SourceInv

(* The page has the sources there are, and more to come. *)
LEMMA PageGrows ==
  ASSUME NEW m \in Nat, NEW n \in Nat, m <= n, PageTyped(m)
  PROVE  PageTyped(n)
  <1>1. 0..m \subseteq 0..n /\ 1..m \subseteq 1..n
    OBVIOUS
  <1>2. Fetches(m) \subseteq Fetches(n) /\ Forms(m) \subseteq Forms(n)
        /\ Drawers(m) \subseteq Drawers(n) /\ Links(m) \subseteq Links(n)
    BY <1>1 DEF Fetches, Forms, Drawers, Links
  <1> QED
    BY <1>1, <1>2 DEF PageTyped

(* A deleted source stays deleted. *)
DeletedStay ==
  \A i \in 1..Len(sources) : sources[i].status = "deleted" => sources'[i].status = "deleted"

(* What is kept when the lists and what is known of them stay. *)
LEMMA ListsKept ==
  ASSUME SourceInv, DeletedStay, UNCHANGED <<fetch, catalog, imported>>
  PROVE  AnswerIsRecent' /\ ListIsRecent'
  <1>1. \A i \in imported : i \in 1..Len(sources)
    BY DEF SourceInv, PageTyped
  <1>2. Covers(fetch.answer) => Covers(fetch.answer)'
    BY <1>1 DEF DeletedStay, Covers
  <1>3. Covers(catalog) => Covers(catalog)'
    BY <1>1 DEF DeletedStay, Covers
  <1> QED
    BY <1>2, <1>3 DEF SourceInv, AnswerIsRecent, ListIsRecent

LEMMA SourcesStay ==
  ASSUME SourceInv, UNCHANGED sources
  PROVE  StoreTyped' /\ DeletedStay
  BY DEF SourceInv, StoreTyped, DeletedStay

LEMMA SyncsKeep ==
  ASSUME SourceInv, NEW i \in 1..Len(sources), NEW status \in {"running", "success", "failed"},
         Source!Syncs(i, status)
  PROVE  StoreTyped' /\ Len(sources') = Len(sources) /\ DeletedStay
  <1>1. sources \in Seq(Source!Stores) /\ sources[i] \in Source!Stores
    BY DEF SourceInv, StoreTyped
  <1>2. [sources[i] EXCEPT !.status = status] \in Source!Stores
    BY <1>1 DEF Source!Stores
  <1>3. sources' = sources \/ (sources[i].status # "deleted"
          /\ sources' = [sources EXCEPT ![i] = [sources[i] EXCEPT !.status = status]])
    BY <1>1 DEF Source!Syncs
  <1> QED
    BY <1>1, <1>2, <1>3 DEF SourceInv, StoreTyped, DeletedStay

LEMMA RegisterKeeps ==
  ASSUME SourceConstants, SourceInv, NEW status \in {"created", "success", "failed"},
         Source!Register(status)
  PROVE  StoreTyped' /\ Len(sources') = Len(sources) + 1 /\ DeletedStay
  <1>1. [status |-> status, connection |-> Unlinked] \in Source!Stores
    BY DEF Source!Stores
  <1> QED
    BY <1>1 DEF SourceConstants, SourceInv, StoreTyped, Source!Register, DeletedStay

------------------------------------------------------------------------------
(* The list that is fetched. *)

FetchStep == Source!FetchServed \/ Source!FetchReturns \/ Source!FetchFails

LEMMA FetchStepKeeps ==
  ASSUME SourceInv, FetchStep, UNCHANGED route
  PROVE  SourceInv'
  <1>1. UNCHANGED <<sources, adding, resync, linking, linkSaves, imported>>
    BY DEF FetchStep, Source!FetchServed, Source!FetchReturns, Source!FetchFails
  <1>2. PICK n \in Nat : n = Len(sources) /\ DOMAIN sources = 1..n
    BY DEF SourceInv, StoreTyped
  <1>3. StoreTyped' /\ Len(sources') = n
    BY <1>1, <1>2, SourcesStay
  <1>4. CASE Source!FetchServed
    <2>1. Source!Listing \subseteq 1..n /\ Covers(Source!Listing)
      BY <1>2 DEF Source!Listing, Covers, SourceInv, PageTyped
    <2>2. fetch' = [stage |-> "served", answer |-> Source!Listing] /\ catalog' = catalog
      BY <1>4 DEF Source!FetchServed
    <2>3. fetch' \in Fetches(n)
      BY <2>1, <2>2 DEF Fetches
    <2>4. PageTyped(n)'
      BY <1>1, <1>2, <2>2, <2>3 DEF SourceInv, PageTyped
    <2>5. AnswerIsRecent' /\ ListIsRecent'
      BY <1>1, <2>1, <2>2 DEF AnswerIsRecent, ListIsRecent, Covers
    <2> QED
      BY <1>3, <2>4, <2>5 DEF SourceInv
  <1>5. CASE Source!FetchReturns
    <2>1. fetch.stage = "served" /\ catalog' = fetch.answer /\ fetch' = Source!NoFetch
      BY <1>5 DEF Source!FetchReturns
    <2>2. fetch' \in Fetches(n) /\ catalog' \subseteq 1..n
      BY <1>2, <2>1 DEF Source!NoFetch, Fetches, SourceInv, PageTyped
    <2>3. PageTyped(n)'
      BY <1>1, <1>2, <2>2 DEF SourceInv, PageTyped
    <2>4. AnswerIsRecent' /\ ListIsRecent'
      BY <1>1, <2>1 DEF Source!NoFetch, SourceInv, AnswerIsRecent, ListIsRecent, Covers
    <2> QED
      BY <1>3, <2>3, <2>4 DEF SourceInv
  <1>6. CASE Source!FetchFails
    <2>1. fetch' = [Source!NoFetch EXCEPT !.stage = "failed"] /\ catalog' = catalog
      BY <1>6 DEF Source!FetchFails
    <2>2. fetch' \in Fetches(n) /\ fetch'.stage = "failed"
      BY <2>1 DEF Source!NoFetch, Fetches
    <2>3. PageTyped(n)'
      BY <1>1, <1>2, <2>1, <2>2 DEF SourceInv, PageTyped
    <2>4. AnswerIsRecent' /\ ListIsRecent'
      BY <2>2 DEF AnswerIsRecent, ListIsRecent
    <2> QED
      BY <1>3, <2>3, <2>4 DEF SourceInv
  <1> QED
    BY <1>4, <1>5, <1>6 DEF FetchStep

------------------------------------------------------------------------------
(* ImportDataSourceDialog. *)

(* A dialog whose mutation ended. *)
LEMMA EndsTyped ==
  ASSUME NEW n \in Nat, adding \in Forms(n), NEW result \in {"success", "failure"},
         Source!Ends(result)
  PROVE  adding' \in Forms(n) /\ adding'.stage = "none"
  <1>1. PICK r \in {"none", "success", "failure"} :
          adding' = [adding EXCEPT !.stage = "none", !.id = 0, !.result = r]
    BY DEF Source!Ends
  <1>2. 0 \in 0..n
    OBVIOUS
  <1>3. adding' \in Forms(n)
    BY <1>1, <1>2 DEF Forms
  <1>4. adding'.stage = "none"
    BY <1>1 DEF Forms
  <1> QED
    BY <1>3, <1>4

DialogStep ==
  \/ Source!ShowCreate \/ Source!CloseCreate \/ Source!FillForm \/ Source!HandleSubmit
  \/ Source!CreateFails \/ \E k \in Source!Kinds : Source!SetImportType(k)

LEMMA AddingStepKeeps ==
  ASSUME SourceInv, DialogStep, UNCHANGED route
  PROVE  SourceInv'
  <1>1. UNCHANGED <<sources, catalog, fetch, resync, linking, linkSaves, imported>>
    BY DEF Source!ShowCreate, Source!CloseCreate, Source!FillForm, Source!HandleSubmit,
       Source!CreateFails, Source!SetImportType, DialogStep
  <1>2. PICK n \in Nat : n = Len(sources)
    BY DEF SourceInv, StoreTyped
  <1>3. adding \in Forms(n) /\ (adding.stage = "sync" => adding.id # 0)
    BY <1>2 DEF SourceInv, PageTyped
  <1>4. adding' \in Forms(n) /\ (adding'.stage = "sync" => adding'.id # 0)
    <2>1. /\ Source!ClosedForm \in Forms(n) /\ Source!ClosedForm.stage = "none"
          /\ Source!OpenForm \in Forms(n) /\ Source!OpenForm.stage = "none"
      <3>1. Source!ClosedForm \in Forms(n) /\ Source!ClosedForm.stage = "none"
        BY DEF Source!ClosedForm, Source!Kinds, Forms
      <3> QED
        BY <3>1 DEF Source!OpenForm, Forms
    <2>2. CASE Source!ShowCreate
      BY <2>1, <2>2 DEF Source!ShowCreate
    <2>3. CASE Source!CloseCreate
      BY <1>3, <2>1, <2>3 DEF Source!CloseCreate, Forms
    <2>4. CASE Source!FillForm
      BY <1>3, <2>4 DEF Source!FillForm, Forms
    <2>5. ASSUME NEW k \in Source!Kinds, Source!SetImportType(k)
          PROVE  adding' \in Forms(n) /\ (adding'.stage = "sync" => adding'.id # 0)
      BY <1>3, <2>5 DEF Source!SetImportType, Forms
    <2>6. CASE Source!HandleSubmit
      <3>1. PICK x \in {"upload", "create"} :
              \/ adding' = [adding EXCEPT !.result = "failure"]
              \/ adding' = [adding EXCEPT !.result = "none", !.stage = x]
        BY <2>6 DEF Source!HandleSubmit
      <3> QED
        BY <1>3, <3>1 DEF Forms
    <2>7. CASE Source!CreateFails
      BY <1>3, <2>7, EndsTyped DEF Source!CreateFails
    <2> QED
      BY <2>2, <2>3, <2>4, <2>5, <2>6, <2>7 DEF DialogStep
  <1>5. PageTyped(n)'
    BY <1>1, <1>2, <1>4 DEF SourceInv, PageTyped
  <1> QED
    BY <1>1, <1>2, <1>5, SourcesStay, ListsKept DEF SourceInv

(* The page is told of a source, and asks for the list. *)
LEMMA ToldKeeps ==
  ASSUME SourceConstants, SourceInv, StoreTyped', Len(sources) <= Len(sources'),
         NEW i \in 1..Len(sources'), imported' = imported \union {i}, Source!Invalidate,
         Source!Ends("success"), UNCHANGED <<route, catalog, resync, linking, linkSaves>>
  PROVE  SourceInv'
  <1>1. PICK n \in Nat : n = Len(sources') /\ Len(sources) \in Nat /\ Len(sources) <= n
    BY DEF SourceInv, StoreTyped
  <1>2. PageTyped(n)
    BY <1>1, PageGrows DEF SourceInv
  <1>3. adding' \in Forms(n) /\ adding'.stage = "none"
    BY <1>1, <1>2, EndsTyped DEF PageTyped
  <1>4. fetch' \in Fetches(n) /\ fetch'.stage = "asked"
    BY DEF Source!Invalidate, Source!NoFetch, Fetches
  <1>5. PageTyped(n)'
    BY <1>1, <1>2, <1>3, <1>4 DEF PageTyped
  <1>6. AnswerIsRecent' /\ ListIsRecent'
    BY <1>4 DEF AnswerIsRecent, ListIsRecent
  <1> QED
    BY <1>1, <1>5, <1>6 DEF SourceInv

LEMMA ImportedKeeps ==
  ASSUME SourceConstants, SourceInv, Source!UploadReturns \/ Source!FirstSyncReturns,
         UNCHANGED route
  PROVE  SourceInv'
  <1>1. CASE Source!UploadReturns
    <2>1. StoreTyped' /\ Len(sources') = Len(sources) + 1
      BY <1>1, RegisterKeeps DEF Source!UploadReturns
    <2>2. Len(sources') \in 1..Len(sources') /\ Len(sources) <= Len(sources')
      BY <2>1 DEF SourceInv, StoreTyped
    <2> QED
      BY <1>1, <2>1, <2>2, ToldKeeps DEF Source!UploadReturns
  <1>2. CASE Source!FirstSyncReturns
    <2>1. adding.id \in 1..Len(sources) /\ Len(sources) \in Nat
      BY <1>2 DEF Source!FirstSyncReturns, SourceInv, StoreTyped, PageTyped, Forms
    <2>2. StoreTyped' /\ Len(sources') = Len(sources)
      BY <1>2, <2>1, SyncsKeep DEF Source!FirstSyncReturns
    <2>3. adding.id \in 1..Len(sources') /\ Len(sources) <= Len(sources')
      BY <2>1, <2>2
    <2> QED
      BY <1>2, <2>2, <2>3, ToldKeeps DEF Source!FirstSyncReturns
  <1> QED
    BY <1>1, <1>2

(* The page is told of nothing: what it knows of the list stays. *)
LEMMA NotToldKeeps ==
  ASSUME SourceConstants, SourceInv, Source!UploadFails \/ Source!CreateReturns
                                     \/ Source!FirstSyncFails, UNCHANGED route
  PROVE  SourceInv'
  <1>1. UNCHANGED <<catalog, fetch, resync, linking, linkSaves, imported>>
    BY DEF Source!UploadFails, Source!CreateReturns, Source!FirstSyncFails
  <1>2. Len(sources) \in Nat
    BY DEF SourceInv, StoreTyped
  <1>3. /\ StoreTyped' /\ DeletedStay /\ Len(sources') \in Nat /\ Len(sources) <= Len(sources')
        /\ Source!CreateReturns => Len(sources') # 0
    <2>1. CASE Source!UploadFails
      BY <1>2, <2>1, RegisterKeeps, SourcesStay DEF Source!UploadFails, Source!CreateReturns
    <2>2. CASE Source!CreateReturns
      BY <1>2, <2>2, RegisterKeeps DEF Source!CreateReturns
    <2>3. CASE Source!FirstSyncFails
      <3>1. adding.id \in 1..Len(sources)
        BY <2>3 DEF Source!FirstSyncFails, SourceInv, PageTyped, Forms
      <3> QED
        BY <1>2, <2>3, <3>1, SyncsKeep DEF Source!FirstSyncFails, Source!CreateReturns
    <2> QED
      BY <2>1, <2>2, <2>3
  <1>4. PICK n \in Nat : n = Len(sources')
    BY <1>3
  <1>5. PageTyped(n)
    BY <1>2, <1>3, <1>4, PageGrows DEF SourceInv
  <1>6. adding' \in Forms(n) /\ (adding'.stage = "sync" => adding'.id # 0)
    <2>1. CASE Source!CreateReturns
      <3>1. adding' = [adding EXCEPT !.stage = "sync", !.id = n] /\ n # 0 /\ n \in 0..n
        BY <1>3, <1>4, <2>1 DEF Source!CreateReturns
      <3> QED
        BY <1>5, <3>1 DEF PageTyped, Forms
    <2>2. CASE Source!UploadFails \/ Source!FirstSyncFails
      BY <1>5, <2>2, EndsTyped DEF Source!UploadFails, Source!FirstSyncFails, PageTyped
    <2> QED
      BY <2>1, <2>2
  <1>7. PageTyped(n)'
    BY <1>1, <1>5, <1>6 DEF PageTyped
  <1> QED
    BY <1>1, <1>3, <1>4, <1>7, ListsKept DEF SourceInv

------------------------------------------------------------------------------
(* Buttons of a source, and LinkConnectionDrawer. *)

(* A step that keeps the number of sources and asks for the list or leaves *)
(* it alone. *)
LEMMA ListOrAskKeeps ==
  ASSUME SourceInv, StoreTyped', DeletedStay, Len(sources') = Len(sources),
         UNCHANGED <<route, catalog, adding, imported>>,
         Source!Invalidate \/ UNCHANGED fetch,
         resync' \in 0..Len(sources), linking' \in Drawers(Len(sources)),
         linkSaves' \subseteq Links(Len(sources))
  PROVE  SourceInv'
  <1>1. PICK n \in Nat : n = Len(sources)
    BY DEF SourceInv, StoreTyped
  <1>2. fetch' \in Fetches(n)
    BY <1>1 DEF Source!Invalidate, Source!NoFetch, Fetches, SourceInv, PageTyped
  <1>3. PageTyped(n)'
    BY <1>1, <1>2 DEF SourceInv, PageTyped
  <1>4. AnswerIsRecent' /\ ListIsRecent'
    <2>1. CASE UNCHANGED fetch
      BY <2>1, ListsKept
    <2>2. CASE Source!Invalidate
      BY <2>2 DEF Source!Invalidate, Source!NoFetch, AnswerIsRecent, ListIsRecent
    <2> QED
      BY <2>1, <2>2
  <1> QED
    BY <1>1, <1>3, <1>4 DEF SourceInv

LEMMA ButtonKeeps ==
  ASSUME SourceInv, UNCHANGED route,
         Source!SyncReturns \/ \E i \in 1..MaxSources : Source!Sync(i) \/ Source!Delete(i)
  PROVE  SourceInv'
  <1>1. /\ Len(sources) \in Nat /\ resync \in 0..Len(sources)
        /\ linking \in Drawers(Len(sources)) /\ linkSaves \subseteq Links(Len(sources))
    BY DEF SourceInv, StoreTyped, PageTyped
  <1>2. CASE Source!SyncReturns
    <2>1. resync \in 1..Len(sources)
      BY <1>1, <1>2 DEF Source!SyncReturns
    <2>2. StoreTyped' /\ Len(sources') = Len(sources) /\ DeletedStay
      BY <1>2, <2>1, SyncsKeep DEF Source!SyncReturns
    <2>3. Source!Invalidate \/ UNCHANGED fetch
      BY <1>2 DEF Source!SyncReturns
    <2> QED
      BY <1>1, <1>2, <2>2, <2>3, ListOrAskKeeps DEF Source!SyncReturns
  <1>3. ASSUME NEW i \in 1..MaxSources, Source!Sync(i)
        PROVE  SourceInv'
    <2>1. i \in 1..Len(sources)
      BY <1>3 DEF Source!Sync, SourceInv, PageTyped
    <2>2. StoreTyped' /\ Len(sources') = Len(sources) /\ DeletedStay
      BY <1>3, <2>1, SyncsKeep DEF Source!Sync
    <2>3. resync' \in 0..Len(sources)
      BY <1>3, <2>1 DEF Source!Sync
    <2> QED
      BY <1>1, <1>3, <2>2, <2>3, ListOrAskKeeps DEF Source!Sync
  <1>4. ASSUME NEW i \in 1..MaxSources, Source!Delete(i)
        PROVE  SourceInv'
    <2>1. i \in 1..Len(sources) /\ sources \in Seq(Source!Stores)
      BY <1>4 DEF Source!Delete, SourceInv, StoreTyped, PageTyped
    <2>2. sources[i] \in Source!Stores
      BY <2>1
    <2>3. [sources[i] EXCEPT !.status = "deleted"] \in Source!Stores
          /\ [sources[i] EXCEPT !.status = "deleted"].status = "deleted"
      BY <2>2 DEF Source!Stores
    <2>4. sources' = [sources EXCEPT ![i] = [sources[i] EXCEPT !.status = "deleted"]]
      BY <1>4, <2>1 DEF Source!Delete
    <2>5. StoreTyped' /\ Len(sources') = Len(sources) /\ DeletedStay
      BY <2>1, <2>3, <2>4 DEF SourceInv, StoreTyped, DeletedStay
    <2> QED
      BY <1>1, <1>4, <2>5, ListOrAskKeeps DEF Source!Delete
  <1> QED
    BY <1>2, <1>3, <1>4

LinkStep ==
  \/ Source!CloseDrawer \/ Source!SaveLink
  \/ \E i \in 1..MaxSources : Source!OpenDrawer(i)
  \/ \E c \in LinkTargets : Source!Select(c)

LEMMA LinkStepKeeps ==
  ASSUME SourceInv, LinkStep, UNCHANGED route
  PROVE  SourceInv'
  <1>1. UNCHANGED <<sources, catalog, fetch, adding, resync, imported>>
    BY DEF LinkStep, Source!CloseDrawer, Source!SaveLink, Source!OpenDrawer, Source!Select
  <1>2. PICK n \in Nat : n = Len(sources)
    BY DEF SourceInv, StoreTyped
  <1>3. linking \in Drawers(n) /\ linkSaves \subseteq Links(n) /\ resync \in 0..n
    BY <1>2 DEF SourceInv, PageTyped
  <1>4. linking' \in Drawers(n) /\ linkSaves' \subseteq Links(n)
    <2>1. CASE Source!CloseDrawer
      BY <1>3, <2>1 DEF Source!CloseDrawer, Source!NoDrawer, Drawers, LinkTargets
    <2>2. CASE Source!SaveLink
      <3>1. [source |-> linking.source, connection |-> linking.selected] \in Links(n)
        BY <1>3, <2>2 DEF Source!SaveLink, Drawers, Links
      <3> QED
        BY <1>3, <2>2, <3>1 DEF Source!SaveLink
    <2>3. ASSUME NEW i \in 1..MaxSources, Source!OpenDrawer(i)
          PROVE  linking' \in Drawers(n) /\ linkSaves' \subseteq Links(n)
      <3>1. i \in 1..n
        BY <1>2, <2>3 DEF Source!OpenDrawer, SourceInv, PageTyped
      <3>2. sources[i] \in Source!Stores
        BY <1>2, <3>1 DEF SourceInv, StoreTyped
      <3>3. sources[i].connection \in LinkTargets
        BY <3>2 DEF Source!Stores, LinkTargets
      <3> QED
        BY <1>3, <2>3, <3>1, <3>3 DEF Source!OpenDrawer, Drawers
    <2>4. ASSUME NEW c \in LinkTargets, Source!Select(c)
          PROVE  linking' \in Drawers(n) /\ linkSaves' \subseteq Links(n)
      BY <1>3, <2>4 DEF Source!Select, Drawers
    <2> QED
      BY <2>1, <2>2, <2>3, <2>4 DEF LinkStep
  <1> QED
    BY <1>1, <1>2, <1>3, <1>4, SourcesStay, ListOrAskKeeps

LEMMA LinkSavedKeeps ==
  ASSUME SourceInv, NEW s \in linkSaves, Source!SaveReturns(s), UNCHANGED route
  PROVE  SourceInv'
  <1>1. /\ Len(sources) \in Nat /\ resync \in 0..Len(sources)
        /\ linking \in Drawers(Len(sources)) /\ linkSaves' \subseteq Links(Len(sources))
        /\ s \in Links(Len(sources))
    BY DEF Source!SaveReturns, SourceInv, StoreTyped, PageTyped
  <1>2. CASE UNCHANGED <<sources, linking, fetch>>
    BY <1>1, <1>2, SourcesStay, ListOrAskKeeps DEF Source!SaveReturns
  <1>3. CASE /\ sources' = [sources EXCEPT ![s.source].connection = s.connection]
             /\ linking' = Source!NoDrawer /\ Source!Invalidate
    <2>1. PICK i \in 1..Len(sources), c \in LinkTargets : i = s.source /\ c = s.connection
      BY <1>1 DEF Links
    <2>2. sources \in Seq(Source!Stores) /\ sources[i] \in Source!Stores
      BY <2>1 DEF SourceInv, StoreTyped
    <2>3. [sources[i] EXCEPT !.connection = c] \in Source!Stores
          /\ [sources[i] EXCEPT !.connection = c].status = sources[i].status
      BY <2>1, <2>2 DEF Source!Stores, LinkTargets
    <2>4. sources' = [sources EXCEPT ![i] = [sources[i] EXCEPT !.connection = c]]
      BY <1>3, <2>1, <2>2
    <2>5. StoreTyped' /\ Len(sources') = Len(sources) /\ DeletedStay
      BY <2>1, <2>2, <2>3, <2>4 DEF SourceInv, StoreTyped, DeletedStay
    <2>6. linking' \in Drawers(Len(sources))
      BY <1>1, <1>3 DEF Source!NoDrawer, Drawers, LinkTargets
    <2> QED
      BY <1>1, <1>3, <2>5, <2>6, ListOrAskKeeps DEF Source!SaveReturns
  <1> QED
    BY <1>2, <1>3 DEF Source!SaveReturns

LEMMA SourceStep ==
  ASSUME SourceConstants, SourceInv, [Source!Next]_Source!vars
  PROVE  SourceInv'
  <1>1. CASE UNCHANGED Source!vars
    BY <1>1 DEF Source!vars, Source!dataVars, SourceInv, StoreTyped, PageTyped, AnswerIsRecent,
       ListIsRecent, Covers
  <1>2. CASE Source!Next
    <2>1. UNCHANGED route
      BY <1>2 DEF Source!Next, Source!Here
    <2>2. \/ FetchStep \/ DialogStep \/ LinkStep
          \/ Source!UploadReturns \/ Source!FirstSyncReturns
          \/ Source!UploadFails \/ Source!CreateReturns \/ Source!FirstSyncFails
          \/ Source!SyncReturns \/ \E i \in 1..MaxSources : Source!Sync(i) \/ Source!Delete(i)
          \/ \E s \in linkSaves : Source!SaveReturns(s)
      BY <1>2 DEF Source!Next, FetchStep, DialogStep, LinkStep, LinkTargets
    <2> QED
      BY <2>1, <2>2, FetchStepKeeps, AddingStepKeeps, LinkStepKeeps, ImportedKeeps, NotToldKeeps,
         ButtonKeeps, LinkSavedKeeps
  <1> QED
    BY <1>1, <1>2
------------------------------------------------------------------------------
(* The forms: FormEditing.                                                 *)

FormConstants ==
  /\ {MaxId, MaxFields} \subseteq Nat \ {0} /\ CounterGap \in Nat /\ Texts # {}

Modes == {"csv", "json"}
Version == [schema : Form!Schemas, draft : BOOLEAN]
Builders == [fields : Form!Schemas, selected : Form!FieldIds \union {Form!NoField}]
Importers == [open : BOOLEAN, mode : Modes, text : Texts,
              parsed : {<< >>} \union (Texts \X Modes), reading : BOOLEAN]
FieldDrawers == [field : 0..MaxFields, draft : Form!FieldIds]
Updates == [from : {"builder", "drawer"}, schema : Form!Schemas]

VersionsTyped == versions \in Seq(Version)
VersionsNamed == /\ cached \in 0..Len(versions) /\ refetch \in 0..Len(versions)
                 /\ publishing \subseteq 1..Len(versions)
FormPagesTyped ==
  /\ builder \in Builders /\ fieldCounter \in Nat /\ importer \in Importers
  /\ drawer \in FieldDrawers /\ updates \subseteq Updates

FormInv ==
  /\ route \in Routes /\ page \in {"detail", "builder", "fields"}
  /\ VersionsTyped /\ VersionsNamed /\ FormPagesTyped /\ Form!StoredIdsDistinct

(* A schema is a sequence of at most MaxFields identifiers. *)
LEMMA SchemasAre ==
  \A s : s \in Form!Schemas <=> s \in Seq(Form!FieldIds) /\ Len(s) \in 0..MaxFields
  <1>1. \A s : s \in Form!Schemas <=> \E m \in 0..MaxFields : s \in [1..m -> Form!FieldIds]
    BY DEF Form!Schemas, Form!BoundedSeq, Form!SeqOf
  <1>2. ASSUME NEW s, NEW m \in 0..MaxFields, s \in [1..m -> Form!FieldIds]
        PROVE  s \in Seq(Form!FieldIds) /\ Len(s) \in 0..MaxFields
    <2>1. m \in Nat
      OBVIOUS
    <2> QED
      BY <1>2, <2>1
  <1>3. ASSUME NEW s \in Seq(Form!FieldIds), Len(s) \in 0..MaxFields
        PROVE  s \in [1..Len(s) -> Form!FieldIds]
    OBVIOUS
  <1> QED
    BY <1>1, <1>2, <1>3

LEMMA EmptySchema == FormConstants => << >> \in Form!Schemas
  <1>1. << >> \in Seq(Form!FieldIds) /\ Len(<< >>) = 0
    OBVIOUS
  <1>2. FormConstants => 0 \in 0..MaxFields
    BY DEF FormConstants
  <1> QED
    BY <1>1, <1>2, SchemasAre, Zenon

LEMMA FormInvIsEnough == FormInv => Form!TypeOK /\ Form!StoredIdsDistinct
  BY DEF FormInv, VersionsTyped, VersionsNamed, FormPagesTyped, Version, Builders, Importers, Modes,
     FieldDrawers, Updates, Form!TypeOK, Form!Latest

(* What the pages begin with. *)
LEMMA NothingOpenTyped ==
  ASSUME FormConstants
  PROVE  /\ Form!NoBuilder \in Builders /\ Form!NoImporter \in Importers
         /\ Form!NoDrawer \in FieldDrawers
  <1>1. Form!NoBuilder \in Builders
    BY EmptySchema DEF Form!NoBuilder, Builders
  <1>2. PICK t \in Texts : t = CHOOSE x \in Texts : TRUE
    BY DEF FormConstants
  <1>3. Form!NoImporter \in Importers
    BY <1>2 DEF Form!NoImporter, Importers, Modes
  <1>4. Form!NoDrawer \in FieldDrawers
    BY DEF Form!NoDrawer, FieldDrawers, Form!FieldIds, FormConstants
  <1> QED
    BY <1>1, <1>3, <1>4

LEMMA FormInitial == FormConstants /\ Form!Init => FormInv
  <1> SUFFICES ASSUME FormConstants, Form!Init
               PROVE  FormInv
    OBVIOUS
  <1>1. <<1>> \in Form!Schemas
    <2>1. 1 \in Form!FieldIds /\ 1 \in 0..MaxFields
      BY DEF Form!FieldIds, FormConstants
    <2>2. <<1>> \in Seq(Form!FieldIds) /\ Len(<<1>>) = 1
      BY <2>1
    <2> QED
      BY <2>1, <2>2, SchemasAre
  <1>2. PICK v \in Version : v = [schema |-> <<1>>, draft |-> TRUE] /\ v.schema = <<1>>
    <2>1. [schema |-> <<1>>, draft |-> TRUE] \in Version
      BY <1>1 DEF Version
    <2> QED
      BY <2>1
  <1>3. versions = <<v>>
    BY <1>2 DEF Form!Init
  <1>4. VersionsTyped
    BY <1>2, <1>3 DEF VersionsTyped
  <1>5. VersionsNamed
    BY <1>3 DEF Form!Init, VersionsNamed
  <1>6. FormPagesTyped
    BY NothingOpenTyped DEF Form!Init, FormPagesTyped
  <1>7. Form!StoredIdsDistinct
    BY <1>2, <1>3 DEF Form!StoredIdsDistinct
  <1> QED
    BY <1>4, <1>5, <1>6, <1>7 DEF FormInv, Form!Init

(* The schema of a version a page has. *)
LEMMA StoredTyped ==
  ASSUME FormConstants, FormInv, NEW v \in 0..Len(versions)
  PROVE  Form!Stored(v) \in Form!Schemas /\ Len(Form!Stored(v)) \in Nat
  <1>1. versions \in Seq(Version)
    BY DEF FormInv, VersionsTyped
  <1>2. CASE v = 0
    BY <1>2, EmptySchema DEF Form!Stored
  <1>3. CASE v # 0
    <2>1. v \in 1..Len(versions)
      BY <1>1, <1>3, LenProperties
    <2>2. versions[v] \in Version
      BY <1>1, <2>1, ElementOfSeq
    <2> QED
      BY <1>3, <2>2, SchemasAre DEF Form!Stored, Version
  <1> QED
    BY <1>2, <1>3, SchemasAre

(* A step that stores nothing. *)
LEMMA FormKept ==
  ASSUME FormInv, UNCHANGED <<versions, route>>, page' \in {"detail", "builder", "fields"},
         VersionsNamed', FormPagesTyped'
  PROVE  FormInv'
  BY DEF FormInv, VersionsTyped, Form!StoredIdsDistinct

------------------------------------------------------------------------------
(* A finite set of numbers has a member of every rank. *)
LEMMA RanksReached ==
  ASSUME NEW S \in SUBSET Nat, IsFiniteSet(S), NEW k \in 1..Cardinality(S)
  PROVE  \E i \in S : Cardinality({j \in S : j <= i}) = k
  <1> DEFINE n == Cardinality(S)
             upTo(i) == {j \in S : j <= i}
             rank == [i \in S |-> Cardinality(upTo(i))]
  <1>1. n \in Nat
    BY FS_CardinalityType
  <1>2. ASSUME NEW i \in S
        PROVE  upTo(i) \in SUBSET S /\ IsFiniteSet(upTo(i)) /\ Cardinality(upTo(i)) \in 1..n
    <2>1. upTo(i) \in SUBSET S /\ i \in upTo(i)
      OBVIOUS
    <2> HIDE DEF upTo
    <2>2. IsFiniteSet(upTo(i)) /\ Cardinality(upTo(i)) \in Nat /\ Cardinality(upTo(i)) <= n
      BY <2>1, FS_Subset, FS_CardinalityType
    <2>3. Cardinality(upTo(i)) # 0
      BY <2>1, <2>2, FS_EmptySet
    <2> QED
      BY <1>1, <2>1, <2>2, <2>3
  <1>3. ASSUME NEW i \in S, NEW j \in S, i < j
        PROVE  rank[i] # rank[j]
    <2>1. upTo(i) \in SUBSET upTo(j) /\ j \in upTo(j) /\ j \notin upTo(i)
      <3>1. i \in Nat /\ j \in Nat /\ \A x \in S : x \in Nat
        OBVIOUS
      <3>2. \A x \in S : x <= i => x <= j
        BY <1>3, <3>1
      <3>3. j <= j /\ ~ j <= i
        BY <1>3, <3>1
      <3> QED
        BY <3>2, <3>3, Zenon
    <2> HIDE DEF upTo
    <2>2. Cardinality(upTo(i)) # Cardinality(upTo(j))
      BY <1>2, <2>1, FS_Subset
    <2> QED
      BY <2>2
  <1>4. rank \in [S -> 1..n]
    BY <1>2
  <1>5. rank \in Injection(S, 1..n)
    <2> HIDE DEF rank
    <2>1. ASSUME NEW i \in S, NEW j \in S, rank[i] = rank[j]
          PROVE  i = j
      BY <1>3, <2>1
    <2> QED
      BY <1>4, <2>1, Fun_IsInj
  <1>6. IsFiniteSet(1..n) /\ Cardinality(1..n) = n
    BY <1>1, FS_Interval
  <1>7. rank \in Surjection(S, 1..n)
    <2> HIDE DEF rank
    <2> QED
      BY <1>5, <1>6, FS_Injection
  <1>8. \E i \in S : rank[i] = k
    <2> HIDE DEF rank
    <2> QED
      BY <1>7 DEF Surjection
  <1> QED
    BY <1>8

(* Without a field a schema is a schema. *)
LEMMA WithoutTyped ==
  ASSUME FormConstants, NEW s \in Form!Schemas, NEW id
  PROVE  Form!Without(s, id) \in Form!Schemas
  <1> DEFINE stay == {i \in DOMAIN s : s[i] # id}
             nth(n) == CHOOSE i \in stay : Cardinality({j \in stay : j <= i}) = n
             c == Cardinality(stay)
             kept_ == [n \in 1..c |-> s[nth(n)]]
  <1>1. s \in Seq(Form!FieldIds) /\ Len(s) \in Nat /\ Len(s) <= MaxFields /\ MaxFields \in Nat
    BY SchemasAre DEF FormConstants
  <1>2. DOMAIN s = 1..Len(s) /\ \A i \in DOMAIN s : s[i] \in Form!FieldIds
    BY <1>1, LenProperties, ElementOfSeq
  <1>3. IsFiniteSet(1..Len(s)) /\ Cardinality(1..Len(s)) = Len(s)
    <2>1. \A n \in Nat : IsFiniteSet(1..n) /\ Cardinality(1..n) = n
      BY FS_Interval
    <2> QED
      BY <1>1, <2>1
  <1>4. stay \in SUBSET (1..Len(s)) /\ stay \in SUBSET Nat
    BY <1>1, <1>2
  <1>5. IsFiniteSet(stay) /\ c \in Nat /\ c <= Len(s)
    <2> HIDE DEF stay
    <2> QED
      BY <1>3, <1>4, FS_Subset, FS_CardinalityType
  <1>6. ASSUME NEW n \in 1..c
        PROVE  s[nth(n)] \in Form!FieldIds
    <2>1. nth(n) \in stay
      <3> HIDE DEF stay
      <3> QED
        BY <1>4, <1>5, RanksReached
    <2> QED
      BY <1>2, <2>1
  <1>7. kept_ \in [1..c -> Form!FieldIds]
    <2> HIDE DEF nth, c
    <2> QED
      BY <1>6
  <1>8. kept_ \in Seq(Form!FieldIds) /\ Len(kept_) = c
    <2> HIDE DEF kept_, c
    <2> QED
      BY <1>5, <1>7
  <1>9. kept_ \in Form!Schemas
    <2> HIDE DEF kept_, c
    <2>1. c \in 0..MaxFields
      BY <1>1, <1>5
    <2> QED
      BY <1>8, <2>1, SchemasAre
  <1>10. Form!Without(s, id) = kept_
    BY DEF Form!Without, Form!Cardinality, Cardinality
  <1> QED
    BY <1>9, <1>10

(* arrayMove leaves a schema of the same length. *)
LEMMA MovedTyped ==
  ASSUME FormConstants, NEW s \in Form!Schemas, NEW from \in DOMAIN s, NEW to \in DOMAIN s
  PROVE  Form!InsertAt(Form!RemoveAt(s, from), to, s[from]) \in Form!Schemas
  <1>1. s \in Seq(Form!FieldIds) /\ Len(s) \in Nat /\ Len(s) \in 0..MaxFields
    BY SchemasAre
  <1>2. from \in 1..Len(s) /\ to \in 1..Len(s)
    BY <1>1, LenProperties
  <1>3. PICK e \in Form!FieldIds : e = s[from]
    BY <1>1, <1>2, ElementOfSeq
  <1> DEFINE a == SubSeq(s, 1, from - 1)
             b == SubSeq(s, from + 1, Len(s))
             r == a \o b
             c == SubSeq(r, 1, to - 1)
             d == SubSeq(r, to, Len(r))
  <1>4. a \in Seq(Form!FieldIds) /\ b \in Seq(Form!FieldIds) /\ Len(a) + Len(b) = Len(s) - 1
    <2>1. a \in Seq(Form!FieldIds) /\ Len(a) = from - 1
      BY <1>1, <1>2, SubSeqProperties
    <2>2. b \in Seq(Form!FieldIds) /\ Len(b) = Len(s) - from
      BY <1>1, <1>2, SubSeqProperties
    <2> HIDE DEF a, b
    <2> QED
      BY <1>1, <1>2, <2>1, <2>2
  <1> HIDE DEF a, b
  <1>5. r \in Seq(Form!FieldIds) /\ Len(r) = Len(s) - 1
    BY <1>4, ConcatProperties
  <1> HIDE DEF r
  <1>6. c \in Seq(Form!FieldIds) /\ d \in Seq(Form!FieldIds) /\ Len(c) + Len(d) = Len(r)
    <2>1. c \in Seq(Form!FieldIds) /\ Len(c) = to - 1
      BY <1>1, <1>2, <1>5, SubSeqProperties
    <2>2. d \in Seq(Form!FieldIds) /\ Len(d) = Len(r) - to + 1
      BY <1>1, <1>2, <1>5, SubSeqProperties
    <2> QED
      BY <1>1, <1>2, <1>5, <2>1, <2>2
  <1> HIDE DEF c, d
  <1>7. c \o <<e>> \in Seq(Form!FieldIds) /\ Len(c \o <<e>>) = Len(c) + 1
    BY <1>3, <1>6
  <1>8. (c \o <<e>>) \o d \in Seq(Form!FieldIds) /\ Len((c \o <<e>>) \o d) = Len(c) + 1 + Len(d)
    BY <1>6, <1>7, ConcatProperties
  <1> DEFINE all == (c \o <<e>>) \o d
  <1>9. all \in Seq(Form!FieldIds) /\ Len(all) = Len(s)
    <2>1. Len(c) \in Nat /\ Len(d) \in Nat
      BY <1>6, LenProperties
    <2>2. all \in Seq(Form!FieldIds) /\ Len(all) = Len(c) + 1 + Len(d)
      BY <1>8
    <2> HIDE DEF all
    <2>3. \A p, q, n \in Nat : p + q = n - 1 => p + 1 + q = n
      OBVIOUS
    <2>4. Len(c) + Len(d) = Len(s) - 1
      BY <1>5, <1>6
    <2>5. Len(c) + 1 + Len(d) = Len(s)
      BY <1>1, <2>1, <2>3, <2>4
    <2>6. Len(all) = Len(s)
      BY <2>2, <2>5
    <2> QED
      BY <2>2, <2>6
  <1>10. Form!InsertAt(Form!RemoveAt(s, from), to, s[from]) = all
    BY <1>3 DEF Form!InsertAt, Form!RemoveAt, a, b, c, d, r
  <1> HIDE DEF all
  <1> QED
    BY <1>1, <1>9, <1>10, SchemasAre

(* A schema with one identifier more, and one with some replaced. *)
LEMMA LongerTyped ==
  ASSUME NEW s \in Form!Schemas, NEW f \in Form!FieldIds, Len(s) + 1 <= MaxFields
  PROVE  Append(s, f) \in Form!Schemas /\ s \o <<f>> \in Form!Schemas
  <1>1. s \in Seq(Form!FieldIds) /\ Len(s) \in Nat /\ Len(s) \in 0..MaxFields
    BY SchemasAre
  <1>2. Append(s, f) \in Seq(Form!FieldIds) /\ Len(Append(s, f)) = Len(s) + 1
    BY <1>1
  <1>3. s \o <<f>> \in Seq(Form!FieldIds) /\ Len(s \o <<f>>) = Len(s) + 1
    BY <1>1
  <1>4. Len(s) + 1 \in 0..MaxFields
    BY <1>1
  <1> QED
    BY <1>2, <1>3, <1>4, SchemasAre

LEMMA ReplacedTyped ==
  ASSUME NEW s \in Form!Schemas, NEW t, DOMAIN t = DOMAIN s, t = [i \in DOMAIN s |-> t[i]],
         \A i \in DOMAIN s : t[i] \in Form!FieldIds
  PROVE  t \in Form!Schemas
  <1>1. s \in Seq(Form!FieldIds) /\ Len(s) \in Nat /\ Len(s) \in 0..MaxFields
    BY SchemasAre
  <1>2. DOMAIN s = 1..Len(s)
    BY <1>1
  <1>3. t \in [1..Len(s) -> Form!FieldIds]
    BY <1>2
  <1>4. t \in Seq(Form!FieldIds) /\ Len(t) = Len(s)
    BY <1>1, <1>3
  <1> QED
    BY <1>1, <1>4, SchemasAre

(* Update: whatever schema is sent, what is stored was validated. *)
LEMMA UpdateKeeps ==
  ASSUME FormInv, NEW schema \in Form!Schemas, Form!Valid(schema), Form!Update(schema)
  PROVE  VersionsTyped' /\ Len(versions') = Len(versions) + 1 /\ Form!StoredIdsDistinct'
  <1>1. versions \in Seq(Version) /\ Form!StoredIdsDistinct
    BY DEF FormInv, VersionsTyped
  <1>2. PICK new \in Version : new = [schema |-> schema, draft |-> TRUE] /\ new.schema = schema
    <2>1. [schema |-> schema, draft |-> TRUE] \in Version
      BY DEF Version
    <2> QED
      BY <2>1
  <1>3. versions' = Append(versions, new)
    BY <1>2 DEF Form!Update
  <1>4. versions' \in Seq(Version) /\ Len(versions') = Len(versions) + 1
    BY <1>1, <1>2, <1>3
  <1>5. \A v \in DOMAIN versions' : (v \in DOMAIN versions /\ versions'[v] = versions[v])
                                    \/ versions'[v] = new
    BY <1>1, <1>2, <1>3
  <1>6. Form!StoredIdsDistinct'
    BY <1>1, <1>2, <1>5 DEF Form!StoredIdsDistinct, Form!Valid
  <1> QED
    BY <1>4, <1>6 DEF VersionsTyped

(* Publish changes a flag, and no schema. *)
LEMMA PublishKeeps ==
  ASSUME FormInv, NEW v \in 1..Len(versions),
         versions' = [versions EXCEPT ![v].draft = FALSE] \/ UNCHANGED versions
  PROVE  VersionsTyped' /\ Len(versions') = Len(versions) /\ Form!StoredIdsDistinct'
  <1>1. versions \in Seq(Version) /\ Form!StoredIdsDistinct
    BY DEF FormInv, VersionsTyped
  <1>2. CASE UNCHANGED versions
    BY <1>1, <1>2 DEF VersionsTyped, Form!StoredIdsDistinct
  <1>3. CASE versions' = [versions EXCEPT ![v].draft = FALSE]
    <2>1. PICK old \in Version : old = versions[v]
      BY <1>1, ElementOfSeq
    <2>2. PICK new \in Version : new = [old EXCEPT !.draft = FALSE] /\ new.schema = old.schema
      <3>1. [old EXCEPT !.draft = FALSE] \in Version
        BY DEF Version
      <3>2. [old EXCEPT !.draft = FALSE].schema = old.schema
        BY DEF Version
      <3> QED
        BY <3>1, <3>2
    <2>3. versions' = [versions EXCEPT ![v] = new]
      BY <1>3, <2>1, <2>2
    <2>4. versions' \in Seq(Version)
      <3>1. [versions EXCEPT ![v] = new] \in Seq(Version)
        BY <1>1, <2>2, ExceptSeq
      <3> QED
        BY <2>3, <3>1
    <2>5. DOMAIN versions' = DOMAIN versions /\ Len(versions') = Len(versions)
      BY <1>1, <2>3, <2>4, LenProperties
    <2>6. \A w \in DOMAIN versions : versions'[w].schema = versions[w].schema
      BY <2>1, <2>2, <2>3
    <2>7. Form!StoredIdsDistinct'
      BY <1>1, <2>5, <2>6 DEF Form!StoredIdsDistinct
    <2> QED
      BY <2>4, <2>5, <2>7 DEF VersionsTyped
  <1> QED
    BY <1>2, <1>3

(* FormBuilderPage: what it makes of the fields are schemas. *)
LEMMA BuilderStepKeeps ==
  ASSUME FormConstants, FormInv, Form!BuilderStep, UNCHANGED route
  PROVE  FormInv'
  <1>1. FormPagesTyped /\ VersionsNamed /\ builder \in Builders /\ builder.fields \in Form!Schemas
        /\ page \in {"detail", "builder", "fields"} /\ fieldCounter \in Nat
    BY DEF FormInv, FormPagesTyped, Builders
  <1>2. ASSUME UNCHANGED <<versions, cached, refetch, page, drawer, updates, publishing, importer>>,
               builder' \in Builders, fieldCounter' \in Nat
        PROVE  FormInv'
    BY <1>1, <1>2, FormKept DEF VersionsNamed, FormPagesTyped
  <1>3. CASE Form!AddField
    <2>1. fieldCounter + 1 \in Form!FieldIds /\ fieldCounter' = fieldCounter + 1
      BY <1>1, <1>3 DEF Form!AddField, Form!FieldIds, FormConstants
    <2>2. PICK s \in Form!Schemas : s = Append(builder.fields, fieldCounter + 1)
      <3>1. Len(builder.fields) + 1 <= MaxFields
        BY <1>1, <1>3, SchemasAre DEF Form!AddField, FormConstants
      <3> QED
        BY <1>1, <2>1, <3>1, LongerTyped
    <2>3. builder' = [builder EXCEPT !.fields = s, !.selected = fieldCounter + 1]
      BY <1>3, <2>2 DEF Form!AddField
    <2>4. builder' \in Builders
      BY <1>1, <2>1, <2>2, <2>3 DEF Builders
    <2> QED
      BY <1>1, <1>2, <1>3, <2>1, <2>4 DEF Form!AddField, Form!RestUnchanged
  <1>4. CASE \E i \in 1..MaxFields : Form!SelectField(i)
    <2>1. PICK i \in DOMAIN builder.fields : builder' = [builder EXCEPT !.selected = builder.fields[i]]
      BY <1>4 DEF Form!SelectField
    <2>2. builder.fields[i] \in Form!FieldIds
      BY <1>1, SchemasAre, ElementOfSeq, LenProperties
    <2>3. builder' \in Builders
      BY <1>1, <2>1, <2>2 DEF Builders
    <2> QED
      BY <1>1, <1>2, <1>4, <2>3 DEF Form!SelectField, Form!RestUnchanged
  <1>5. CASE \E f \in Form!FieldIds : Form!ChangeField(f)
    <2>1. PICK f \in Form!FieldIds : Form!ChangeField(f)
      BY <1>5
    <2> DEFINE old == builder.fields
               t == [i \in DOMAIN old |-> IF Form!SelectedIs(old[i]) THEN f ELSE old[i]]
    <2>2. t \in Form!Schemas
      <3>1. \A i \in DOMAIN old : t[i] \in Form!FieldIds
        BY <1>1, SchemasAre, ElementOfSeq, LenProperties
      <3> QED
        BY <1>1, <3>1, ReplacedTyped
    <2>3. builder' = [builder EXCEPT !.fields = t, !.selected = f]
      BY <2>1 DEF Form!ChangeField
    <2> HIDE DEF t
    <2>4. builder' \in Builders
      BY <1>1, <2>2, <2>3 DEF Builders
    <2> QED
      BY <1>1, <1>2, <2>1, <2>4 DEF Form!ChangeField, Form!RestUnchanged
  <1>6. CASE \E id \in Form!FieldIds : Form!DeleteField(id)
    <2>1. PICK id \in Form!FieldIds : Form!DeleteField(id)
      BY <1>6
    <2>2. PICK s \in Form!Schemas : s = Form!Without(builder.fields, id)
      BY <1>1, WithoutTyped
    <2>3. PICK o \in Form!FieldIds \union {Form!NoField} :
            o = IF builder.selected = id THEN Form!NoField ELSE builder.selected
      BY <1>1 DEF Builders
    <2>4. builder' = [builder EXCEPT !.fields = s, !.selected = o]
      BY <2>1, <2>2, <2>3 DEF Form!DeleteField
    <2>5. builder' \in Builders
      BY <1>1, <2>2, <2>3, <2>4 DEF Builders
    <2> QED
      BY <1>1, <1>2, <2>1, <2>5 DEF Form!DeleteField, Form!RestUnchanged
  <1>7. CASE \E i \in 1..MaxFields, j \in 1..MaxFields : Form!MoveField(i, j)
    <2>1. PICK i \in 1..MaxFields : \E j \in 1..MaxFields : Form!MoveField(i, j)
      BY <1>7
    <2>2. PICK j \in 1..MaxFields : Form!MoveField(i, j)
      BY <2>1
    <2>3. PICK s \in Form!Schemas :
            s = Form!InsertAt(Form!RemoveAt(builder.fields, i), j, builder.fields[i])
      BY <1>1, <2>2, MovedTyped DEF Form!MoveField
    <2>4. builder' = [builder EXCEPT !.fields = s]
      BY <2>2, <2>3 DEF Form!MoveField
    <2>5. builder' \in Builders
      BY <1>1, <2>3, <2>4 DEF Builders
    <2> QED
      BY <1>1, <1>2, <2>2, <2>5 DEF Form!MoveField, Form!RestUnchanged
  <1>8. CASE Form!Save
    <2>1. updates' = updates \union {[from |-> "builder", schema |-> builder.fields]}
      BY <1>8 DEF Form!Save
    <2>2. [from |-> "builder", schema |-> builder.fields] \in Updates
      BY <1>1 DEF Updates
    <2>3. FormPagesTyped'
      BY <1>1, <1>8, <2>1, <2>2 DEF Form!Save, FormPagesTyped
    <2> QED
      BY <1>1, <1>8, <2>3, FormKept DEF Form!Save, VersionsNamed
  <1> QED
    BY <1>3, <1>4, <1>5, <1>6, <1>7, <1>8 DEF Form!BuilderStep

(* FormImportDialog. *)
LEMMA ImportStepKeeps ==
  ASSUME FormConstants, FormInv, Form!ImportStep, UNCHANGED route
  PROVE  FormInv'
  <1>1. FormPagesTyped /\ VersionsNamed /\ builder \in Builders /\ builder.fields \in Form!Schemas
        /\ page \in {"detail", "builder", "fields"} /\ importer \in Importers /\ fieldCounter \in Nat
    BY DEF FormInv, FormPagesTyped, Builders
  <1>2. ASSUME UNCHANGED <<versions, cached, refetch, page, drawer, updates, publishing, builder,
                           fieldCounter>>,
               importer' \in Importers
        PROVE  FormInv'
    BY <1>1, <1>2, FormKept DEF VersionsNamed, FormPagesTyped
  <1>3. CASE Form!OpenImport \/ Form!CloseImport
    <2>1. PICK n \in Importers : n = Form!NoImporter
      BY NothingOpenTyped
    <2>2. [n EXCEPT !.open = TRUE] \in Importers
      BY DEF Importers
    <2>3. importer' \in Importers
      BY <1>3, <2>1, <2>2 DEF Form!OpenImport, Form!CloseImport
    <2> QED
      BY <1>2, <1>3, <2>3 DEF Form!OpenImport, Form!CloseImport, Form!RestUnchanged
  <1>4. CASE Form!ReadFile
    <2>1. importer' \in Importers
      BY <1>1, <1>4 DEF Form!ReadFile, Importers
    <2> QED
      BY <1>2, <1>4, <2>1 DEF Form!ReadFile, Form!RestUnchanged
  <1>5. CASE Form!Parse
    <2>1. importer.text \in Texts /\ importer.mode \in Modes
      BY <1>1 DEF Importers
    <2>2. PICK p \in Texts \X Modes : p = <<importer.text, importer.mode>>
      BY <2>1
    <2>3. importer' = [importer EXCEPT !.parsed = p]
      BY <1>5, <2>2 DEF Form!Parse
    <2>4. importer' \in Importers
      BY <1>1, <2>2, <2>3 DEF Importers
    <2> QED
      BY <1>2, <1>5, <2>4 DEF Form!Parse, Form!RestUnchanged
  <1>6. ASSUME NEW t \in Texts, NEW m \in Modes, Form!ChangeText(t, m) \/ Form!FileRead(t, m)
        PROVE  FormInv'
    <2>1. \/ importer' = [importer EXCEPT !.text = t, !.mode = m, !.parsed = << >>]
          \/ importer' = [importer EXCEPT !.text = t, !.mode = m, !.parsed = << >>, !.reading = FALSE]
      BY <1>6 DEF Form!ChangeText, Form!SetText, Form!FileRead
    <2>2. importer' \in Importers
      BY <1>1, <2>1 DEF Importers
    <2> QED
      BY <1>2, <1>6, <2>2 DEF Form!ChangeText, Form!FileRead, Form!RestUnchanged
  <1>7. ASSUME NEW f \in Form!FieldIds, Form!ImportFields(<<f>>)
        PROVE  FormInv'
    <2>1. Len(<<f>>) = 1
      OBVIOUS
    <2>2. PICK s \in Form!Schemas : s = builder.fields \o <<f>>
      BY <1>1, <1>7, <2>1, LongerTyped DEF Form!ImportFields
    <2>3. builder' = [builder EXCEPT !.fields = s] /\ fieldCounter' = fieldCounter + 1
      BY <1>7, <2>1, <2>2 DEF Form!ImportFields
    <2>4. builder' \in Builders
      BY <1>1, <2>2, <2>3 DEF Builders
    <2>5. fieldCounter' \in Nat
      BY <1>1, <2>3
    <2>6. FormPagesTyped'
      BY <1>1, <1>7, <2>4, <2>5, NothingOpenTyped DEF Form!ImportFields, Form!RestUnchanged, FormPagesTyped
    <2> QED
      BY <1>1, <1>7, <2>6, FormKept DEF Form!ImportFields, Form!RestUnchanged, VersionsNamed
  <1> QED
    BY <1>3, <1>4, <1>5, <1>6, <1>7 DEF Form!ImportStep, Modes

(* LayerFieldsTab and its drawer. *)
LEMMA FieldDrawerKeeps ==
  ASSUME FormConstants, FormInv, Form!DrawerStep, UNCHANGED route
  PROVE  FormInv'
  <1>1. FormPagesTyped /\ VersionsNamed /\ drawer \in FieldDrawers /\ updates \subseteq Updates
        /\ page \in {"detail", "builder", "fields"} /\ Form!Stored(cached) \in Form!Schemas
    BY StoredTyped DEF FormInv, VersionsNamed, FormPagesTyped
  <1>2. ASSUME UNCHANGED <<versions, cached, refetch, page, builder, fieldCounter, importer, publishing>>,
               drawer' \in FieldDrawers, updates' \subseteq Updates
        PROVE  FormInv'
    BY <1>1, <1>2, FormKept DEF VersionsNamed, FormPagesTyped
  <1>3. CASE \E i \in 1..MaxFields : Form!EditField(i)
    <2>1. PICK i \in 1..MaxFields : Form!EditField(i)
      BY <1>3
    <2>2. Form!Stored(cached)[i] \in Form!FieldIds
      BY <1>1, <2>1, SchemasAre, ElementOfSeq, LenProperties DEF Form!EditField
    <2>3. drawer' \in FieldDrawers
      BY <2>1, <2>2 DEF Form!EditField, FieldDrawers, FormConstants
    <2> QED
      BY <1>1, <1>2, <2>1, <2>3 DEF Form!EditField
  <1>4. CASE \E f \in Form!FieldIds : Form!ChangeDraft(f)
    <2>1. drawer' \in FieldDrawers
      BY <1>1, <1>4 DEF Form!ChangeDraft, FieldDrawers
    <2> QED
      BY <1>1, <1>2, <1>4, <2>1 DEF Form!ChangeDraft
  <1>5. CASE Form!CloseDrawer
    BY <1>1, <1>2, <1>5, NothingOpenTyped DEF Form!CloseDrawer
  <1>6. CASE Form!SaveField
    <2> DEFINE old == Form!Stored(cached)
               t == [i \in DOMAIN old |-> IF old[i] = drawer.draft THEN drawer.draft ELSE old[i]]
    <2>1. t \in Form!Schemas
      <3>1. \A i \in DOMAIN old : t[i] \in Form!FieldIds
        BY <1>1, SchemasAre, ElementOfSeq, LenProperties DEF FieldDrawers
      <3> QED
        BY <1>1, <3>1, ReplacedTyped
    <2>2. updates' = updates \union {[from |-> "drawer", schema |-> t]}
      BY <1>6 DEF Form!SaveField
    <2> HIDE DEF t
    <2>3. [from |-> "drawer", schema |-> t] \in Updates
      BY <2>1 DEF Updates
    <2>4. updates' \subseteq Updates
      BY <1>1, <2>2, <2>3
    <2> QED
      BY <1>1, <1>2, <1>6, <2>4 DEF Form!SaveField
  <1> QED
    BY <1>3, <1>4, <1>5, <1>6 DEF Form!DrawerStep

(* The pages come and go, and with them the copy of the form. *)
LEMMA PageStepKeepsForm ==
  ASSUME FormConstants, FormInv, UNCHANGED route,
         \/ \E p \in {"detail", "builder", "fields"} : Form!GoTo(p)
         \/ Form!FetchReturns \/ Form!FetchFails
  PROVE  FormInv'
  <1>1. FormPagesTyped /\ VersionsNamed /\ builder \in Builders /\ fieldCounter \in Nat
        /\ page \in {"detail", "builder", "fields"} /\ Len(versions) \in Nat
    <2>1. versions \in Seq(Version)
      BY DEF FormInv, VersionsTyped
    <2> QED
      BY <2>1, LenProperties DEF FormInv, FormPagesTyped
  <1>2. ASSUME NEW v \in 0..Len(versions)
        PROVE  /\ \A b \in Builders : [b EXCEPT !.fields = Form!Stored(v)] \in Builders
               /\ Len(Form!Stored(v)) + CounterGap \in Nat
    BY StoredTyped DEF Builders, FormConstants
  <1>3. ASSUME NEW p \in {"detail", "builder", "fields"}, Form!GoTo(p)
        PROVE  FormInv'
    <2>1. builder' \in Builders /\ fieldCounter' \in Nat
      BY <1>1, <1>2, <1>3, NothingOpenTyped DEF Form!GoTo, VersionsNamed
    <2>2. FormPagesTyped'
      BY <1>1, <1>3, <2>1, NothingOpenTyped DEF Form!GoTo, FormPagesTyped
    <2>3. VersionsNamed'
      BY <1>1, <1>3 DEF Form!GoTo, Form!Ask, Form!Latest, VersionsNamed
    <2> QED
      BY <1>3, <2>2, <2>3, FormKept DEF Form!GoTo
  <1>4. CASE Form!FetchReturns
    <2>1. builder' \in Builders /\ fieldCounter' \in Nat
      BY <1>1, <1>2, <1>4 DEF Form!FetchReturns, Form!Loads, VersionsNamed
    <2>2. FormPagesTyped'
      BY <1>1, <1>4, <2>1 DEF Form!FetchReturns, FormPagesTyped
    <2>3. VersionsNamed'
      BY <1>1, <1>4 DEF Form!FetchReturns, VersionsNamed
    <2> QED
      BY <1>1, <1>4, <2>2, <2>3, FormKept DEF Form!FetchReturns
  <1>5. CASE Form!FetchFails
    <2>1. FormPagesTyped' /\ VersionsNamed'
      BY <1>1, <1>5 DEF Form!FetchFails, FormPagesTyped, VersionsNamed
    <2> QED
      BY <1>1, <1>5, <2>1, FormKept DEF Form!FetchFails
  <1> QED
    BY <1>3, <1>4, <1>5

(* What is saved and published. *)
LEMMA AnswerKeepsForm ==
  ASSUME FormConstants, FormInv, UNCHANGED route,
         \/ \E u \in updates : Form!UpdateReturns(u) \/ Form!UpdateFails(u)
         \/ \E v \in 1..MaxVersions : Form!PublishVersion(v) \/ Form!PublishReturns(v)
  PROVE  FormInv'
  <1>1. FormPagesTyped /\ VersionsNamed /\ updates \subseteq Updates /\ Len(versions) \in Nat
        /\ page \in {"detail", "builder", "fields"}
    <2>1. versions \in Seq(Version)
      BY DEF FormInv, VersionsTyped
    <2> QED
      BY <2>1, LenProperties DEF FormInv, FormPagesTyped
  <1>2. ASSUME NEW u \in updates, Form!UpdateReturns(u)
        PROVE  FormInv'
    <2>1. u.schema \in Form!Schemas
      BY <1>1 DEF Updates
    <2>2. VersionsTyped' /\ Len(versions') = Len(versions) + 1 /\ Form!StoredIdsDistinct'
      BY <1>2, <2>1, UpdateKeeps DEF Form!UpdateReturns
    <2>3. VersionsNamed'
      BY <1>1, <1>2, <2>2 DEF Form!UpdateReturns, VersionsNamed
    <2>4. FormPagesTyped'
      BY <1>1, <1>2, NothingOpenTyped DEF Form!UpdateReturns, FormPagesTyped
    <2> QED
      BY <1>1, <1>2, <2>2, <2>3, <2>4 DEF FormInv, Form!UpdateReturns
  <1>3. ASSUME NEW u \in updates, Form!UpdateFails(u)
        PROVE  FormInv'
    <2>1. FormPagesTyped' /\ VersionsNamed'
      BY <1>1, <1>3 DEF Form!UpdateFails, FormPagesTyped, VersionsNamed
    <2> QED
      BY <1>1, <1>3, <2>1, FormKept DEF Form!UpdateFails
  <1>4. ASSUME NEW v \in 1..MaxVersions, Form!PublishVersion(v)
        PROVE  FormInv'
    <2>1. FormPagesTyped' /\ VersionsNamed'
      BY <1>1, <1>4 DEF Form!PublishVersion, Form!Latest, FormPagesTyped, VersionsNamed
    <2> QED
      BY <1>1, <1>4, <2>1, FormKept DEF Form!PublishVersion
  <1>5. ASSUME NEW v \in 1..MaxVersions, Form!PublishReturns(v)
        PROVE  FormInv'
    <2>1. v \in 1..Len(versions)
      BY <1>1, <1>5 DEF Form!PublishReturns, VersionsNamed
    <2>2. VersionsTyped' /\ Len(versions') = Len(versions) /\ Form!StoredIdsDistinct'
      BY <1>5, <2>1, PublishKeeps DEF Form!PublishReturns
    <2>3. VersionsNamed' /\ FormPagesTyped'
      BY <1>1, <1>5, <2>2 DEF Form!PublishReturns, Form!Ask, Form!Latest, VersionsNamed, FormPagesTyped
    <2> QED
      BY <1>1, <1>5, <2>2, <2>3 DEF FormInv, Form!PublishReturns
  <1> QED
    BY <1>2, <1>3, <1>4, <1>5

LEMMA FormStep ==
  ASSUME FormConstants, FormInv, [Form!Next]_Form!vars
  PROVE  FormInv'
  <1>1. CASE UNCHANGED Form!vars
    <2>1. VersionsNamed' /\ FormPagesTyped'
      BY <1>1 DEF FormInv, VersionsNamed, FormPagesTyped, Form!vars, Form!formVars
    <2> QED
      BY <1>1, <2>1, FormKept DEF FormInv, Form!vars, Form!formVars
  <1>2. CASE Form!Next
    <2>1. UNCHANGED route
      BY <1>2 DEF Form!Next, Form!Here
    <2> QED
      BY <1>2, <2>1, BuilderStepKeeps, ImportStepKeeps, FieldDrawerKeeps, PageStepKeepsForm,
         AnswerKeepsForm DEF Form!Next
  <1> QED
    BY <1>1, <1>2

------------------------------------------------------------------------------
(* The lists of the administration: AdminConsole.                           *)

(* A list as it is kept, whatever it lists. *)
Shaped(l) ==
  /\ DOMAIN l = {"has", "fresh", "stage", "erred", "behind", "data", "answer"}
  /\ l.has \in BOOLEAN /\ l.fresh \in BOOLEAN /\ l.erred \in BOOLEAN /\ l.behind \in BOOLEAN
  /\ l.stage \in {"none", "asked", "served"}

(* An answer that is on its way, and a list that is at rest, are of what is *)
(* stored.  A list nobody watches need be so only while it counts as fresh: *)
(* that is the one that is shown without a fetch when it is watched again.  *)
AnswerIsStored(l, stored) == l.stage = "served" /\ ~l.behind => l.answer = stored
Relied(l, watched) == watched \/ (l.has /\ l.fresh)
ListIsStored(l, stored, watched) ==
  l.stage = "none" /\ ~l.erred /\ ~l.behind /\ Relied(l, watched) => l.data = stored
Sound(l, stored, watched) ==
  Shaped(l) /\ AnswerIsStored(l, stored) /\ ListIsStored(l, stored, watched)

AdminInv ==
  /\ DOMAIN lists = Admin!Keys
  /\ \A k \in Admin!Keys : Sound(lists[k], Admin!Stored(k), Admin!Watched(k))

LEMMA AdminInvIsEnough == AdminInv => Admin!ListsAreCurrent
  BY DEF AdminInv, Sound, ListIsStored, Relied, Admin!ListsAreCurrent

LEMMA AdminInitial == Admin!Init => AdminInv
  <1> SUFFICES ASSUME Admin!Init
               PROVE  AdminInv
    OBVIOUS
  <1>1. DOMAIN lists = Admin!Keys
    BY DEF Admin!Init
  <1>2. ASSUME NEW k \in Admin!Keys
        PROVE  Sound(lists[k], Admin!Stored(k), Admin!Watched(k))
    <2>1. lists[k] = [has |-> k = "layers", fresh |-> k = "layers", stage |-> "none",
                      erred |-> FALSE, behind |-> FALSE, data |-> Admin!Stored(k),
                      answer |-> Admin!Stored(k)]
      BY DEF Admin!Init, Admin!Stored
    <2> QED
      BY <2>1 DEF Sound, Shaped, AnswerIsStored, ListIsStored
  <1> QED
    BY <1>1, <1>2 DEF AdminInv

(* What one list may become while nothing is stored. *)
LEMMA WatchedLater ==
  ASSUME NEW l, NEW stored, NEW w \in BOOLEAN, NEW v \in BOOLEAN, Sound(l, stored, w),
         w \/ ~v \/ l.stage # "none" \/ (l.has /\ l.fresh)
  PROVE  Sound(l, stored, v)
  BY DEF Sound, Shaped, AnswerIsStored, ListIsStored, Relied

LEMMA AskedAgain ==
  ASSUME NEW l, NEW stored, NEW w, Shaped(l)
  PROVE  Sound([l EXCEPT !.stage = "asked"], stored, w)
  BY DEF Sound, Shaped, AnswerIsStored, ListIsStored

LEMMA ServedNow ==
  ASSUME NEW l, NEW stored, NEW w, Shaped(l)
  PROVE  Sound([l EXCEPT !.stage = "served", !.answer = stored, !.behind = FALSE], stored, w)
  BY DEF Sound, Shaped, AnswerIsStored, ListIsStored

LEMMA ReturnedNow ==
  ASSUME NEW l, NEW stored, NEW w \in BOOLEAN, Sound(l, stored, w), l.stage = "served"
  PROVE  Sound([l EXCEPT !.stage = "none", !.has = TRUE, !.fresh = TRUE, !.erred = FALSE,
                         !.data = l.answer], stored, w)
  BY DEF Sound, Shaped, AnswerIsStored, ListIsStored

LEMMA FailedNow ==
  ASSUME NEW l, NEW stored, NEW w, Shaped(l)
  PROVE  Sound([l EXCEPT !.stage = "none", !.erred = TRUE, !.answer = l.data], stored, w)
  BY DEF Sound, Shaped, AnswerIsStored, ListIsStored

(* A change that is heard of: the list is asked for again, or what it was   *)
(* answered counts as behind.                                               *)
LEMMA StaleIsSound ==
  ASSUME NEW k \in Admin!Keys, Shaped(lists[k]), NEW stored
  PROVE  Sound(Admin!Stale(k), stored, Admin!Watched(k))
  <1>1. CASE Admin!Watched(k) /\ (lists[k].has \/ ~Admin!IsOut(k))
    BY <1>1 DEF Admin!Stale, Sound, Shaped, AnswerIsStored, ListIsStored
  <1>2. CASE ~(Admin!Watched(k) /\ (lists[k].has \/ ~Admin!IsOut(k)))
    <2> PICK l : l = lists[k] OBVIOUS
    <2>1. Admin!Stale(k) = [l EXCEPT !.fresh = FALSE, !.behind = @ \/ l.stage = "served"]
      BY <1>2 DEF Admin!Stale
    <2>2. Admin!Watched(k) => l.stage # "none"
      BY <1>2 DEF Admin!IsOut, Shaped
    <2> QED
      BY <2>1, <2>2 DEF Sound, Shaped, AnswerIsStored, ListIsStored, Relied
  <1> QED
    BY <1>1, <1>2

LEMMA UnheardIsSound ==
  ASSUME NEW l, Shaped(l), NEW stored, NEW w
  PROVE  Sound([l EXCEPT !.behind = TRUE], stored, w)
  BY DEF Sound, Shaped, AnswerIsStored, ListIsStored

(* Nothing is stored, one list at most changes. *)
LEMMA OneListChanges ==
  ASSUME AdminInv, NEW k \in Admin!Keys, NEW l, lists' = [lists EXCEPT ![k] = l],
         Sound(l, Admin!Stored(k), Admin!Watched(k)), UNCHANGED <<accounts, rights, modal, filter>>
  PROVE  AdminInv'
  <1>1. /\ \A j \in Admin!Keys : Admin!Stored(j)' = Admin!Stored(j)
        /\ \A j \in Admin!Keys : Admin!Watched(j)' = Admin!Watched(j)
    BY DEF Admin!Stored, Admin!Watched
  <1>2. /\ DOMAIN lists' = Admin!Keys
        /\ \A j \in Admin!Keys : lists'[j] = IF j = k THEN l ELSE lists[j]
    BY DEF AdminInv
  <1> QED
    BY <1>1, <1>2 DEF AdminInv

LEMMA NoListChanges ==
  ASSUME AdminInv, UNCHANGED <<lists, accounts, rights, modal, filter>>
  PROVE  AdminInv'
  BY DEF AdminInv, Admin!Stored, Admin!Watched, Admin!Keys, Admin!Filters

LEMMA ListStepKeeps ==
  ASSUME AdminInv, NEW k \in Admin!Keys, Admin!ListStep(k)
  PROVE  AdminInv'
  <1>0. Sound(lists[k], Admin!Stored(k), Admin!Watched(k)) /\ Admin!Watched(k) \in BOOLEAN
    BY DEF AdminInv, Admin!Watched
  <1>s. Shaped(lists[k])
    BY <1>0 DEF Sound
  <1>1. CASE Admin!ListServed(k)
    <2>1. lists' = [lists EXCEPT ![k] = [lists[k] EXCEPT !.stage = "served",
                                           !.answer = Admin!Stored(k), !.behind = FALSE]]
      BY <1>1, <1>s DEF Admin!ListServed, AdminInv, Shaped
    <2>2. PICK l : l = [lists[k] EXCEPT !.stage = "served", !.answer = Admin!Stored(k),
                                        !.behind = FALSE]
      OBVIOUS
    <2>3. Sound(l, Admin!Stored(k), Admin!Watched(k))
      BY <1>s, <2>2, ServedNow
    <2>4. lists' = [lists EXCEPT ![k] = l] /\ UNCHANGED <<accounts, rights, modal, filter>>
      BY <1>1, <2>1, <2>2 DEF Admin!ListServed
    <2> QED
      BY <2>3, <2>4, OneListChanges
  <1>2. CASE Admin!ListReturns(k)
    <2>1. lists' = [lists EXCEPT ![k] = [lists[k] EXCEPT !.stage = "none", !.has = TRUE,
                                    !.fresh = TRUE, !.erred = FALSE, !.data = lists[k].answer]]
      BY <1>2, <1>s DEF Admin!ListReturns, AdminInv, Shaped
    <2>2. PICK l : l = [lists[k] EXCEPT !.stage = "none", !.has = TRUE, !.fresh = TRUE,
                                        !.erred = FALSE, !.data = lists[k].answer]
      OBVIOUS
    <2>3. Sound(l, Admin!Stored(k), Admin!Watched(k))
      <3>1. lists[k].stage = "served"
        BY <1>2 DEF Admin!ListReturns
      <3> QED
        BY <1>0, <2>2, <3>1, ReturnedNow
    <2>4. lists' = [lists EXCEPT ![k] = l] /\ UNCHANGED <<accounts, rights, modal, filter>>
      BY <1>2, <2>1, <2>2 DEF Admin!ListReturns
    <2> QED
      BY <2>3, <2>4, OneListChanges
  <1>3. CASE Admin!ListFails(k)
    <2>1. lists' = [lists EXCEPT ![k] = [lists[k] EXCEPT !.stage = "none", !.erred = TRUE,
                                    !.answer = lists[k].data]]
      BY <1>3, <1>s DEF Admin!ListFails, AdminInv, Shaped
    <2> QED
      BY <1>3, <1>s, <2>1, FailedNow, OneListChanges DEF Admin!ListFails
  <1> QED
    BY <1>1, <1>2, <1>3 DEF Admin!ListStep

(* Another list is watched: it is asked for unless it is fresh. *)
LEMMA WatchKeeps ==
  ASSUME AdminInv, NEW k \in Admin!Keys, Admin!Watch(k), UNCHANGED <<accounts, rights>>,
         \A j \in Admin!Keys \ {k} : Admin!Watched(j)' => Admin!Watched(j)
  PROVE  AdminInv'
  <1>1. \A j \in Admin!Keys : Admin!Stored(j)' = Admin!Stored(j)
    BY DEF Admin!Stored
  <1>2. \A j \in Admin!Keys : Admin!Watched(j) \in BOOLEAN /\ Admin!Watched(j)' \in BOOLEAN
    BY DEF Admin!Watched
  <1>3. Shaped(lists[k])
    BY DEF AdminInv, Sound
  <1>4. /\ DOMAIN lists' = Admin!Keys
        /\ \A j \in Admin!Keys \ {k} : lists'[j] = lists[j]
        /\ \/ lists'[k] = [lists[k] EXCEPT !.stage = "asked"]
           \/ lists'[k] = lists[k] /\ (lists[k].stage # "none" \/ (lists[k].has /\ lists[k].fresh))
    BY DEF Admin!Watch, Admin!IsOut, AdminInv
  <1>5. \A j \in Admin!Keys \ {k} : Sound(lists'[j], Admin!Stored(j)', Admin!Watched(j)')
    BY <1>1, <1>2, <1>4, WatchedLater DEF AdminInv
  <1>6. Sound(lists'[k], Admin!Stored(k)', Admin!Watched(k)')
    BY <1>1, <1>2, <1>3, <1>4, WatchedLater, AskedAgain DEF AdminInv
  <1> QED
    BY <1>4, <1>5, <1>6 DEF AdminInv

LEMMA UnwatchKeeps ==
  ASSUME AdminInv, UNCHANGED <<lists, accounts, rights>>,
         \A j \in Admin!Keys : Admin!Watched(j)' => Admin!Watched(j)
  PROVE  AdminInv'
  <1>1. \A j \in Admin!Keys : Admin!Stored(j)' = Admin!Stored(j)
    BY DEF Admin!Stored
  <1>2. \A j \in Admin!Keys : Admin!Watched(j) \in BOOLEAN /\ Admin!Watched(j)' \in BOOLEAN
    BY DEF Admin!Watched
  <1> QED
    BY <1>1, <1>2, WatchedLater DEF AdminInv, Admin!Keys, Admin!Filters

LEMMA GoToKeeps ==
  ASSUME AdminInv, NEW open, NEW tab, Admin!GoTo(open, tab),
         ~(open /\ tab = "users" /\ Admin!UsersShown)
  PROVE  AdminInv'
  <1>0. "all" \in Admin!Keys
    BY DEF Admin!Keys, Admin!Filters
  <1>1. CASE open /\ tab = "users"
    <2>1. \A j \in Admin!Keys \ {"all"} : Admin!Watched(j)' => Admin!Watched(j)
      BY DEF Admin!GoTo, Admin!Watched
    <2> QED
      BY <1>0, <1>1, <2>1, WatchKeeps DEF Admin!GoTo
  <1>2. CASE ~(open /\ tab = "users")
    <2>1. \A j \in Admin!Keys : Admin!Watched(j)' => Admin!Watched(j)
      BY <1>2 DEF Admin!GoTo, Admin!Watched
    <2> QED
      BY <1>2, <2>1, UnwatchKeeps DEF Admin!GoTo
  <1> QED
    BY <1>1, <1>2

LEMMA SetFilterKeeps ==
  ASSUME AdminInv, NEW f \in Admin!Filters, Admin!SetFilter(f)
  PROVE  AdminInv'
  <1>1. f \in Admin!Keys
    BY DEF Admin!Keys
  <1>2. \A j \in Admin!Keys \ {f} : Admin!Watched(j)' => Admin!Watched(j)
    BY DEF Admin!SetFilter, Admin!Watched
  <1> QED
    BY <1>1, <1>2, WatchKeeps DEF Admin!SetFilter

(* A change is written, and its lists are told or are behind. *)
LEMMA WriteKeeps ==
  ASSUME AdminInv, NEW s, Admin!Write(s), UNCHANGED <<modal, filter>>,
         Admin!Invalidate(Admin!Kind(s)) \/ Admin!Unheard(Admin!Kind(s))
  PROVE  AdminInv'
  <1> PICK hit \in SUBSET Admin!Keys : hit = Admin!InvalidatedKeys(Admin!Kind(s))
    BY DEF Admin!InvalidatedKeys, Admin!Keys
  <1>1. DOMAIN lists' = Admin!Keys
    BY DEF Admin!Invalidate, Admin!Unheard
  <1>2. \A k \in Admin!Keys : Admin!Watched(k)' = Admin!Watched(k)
    BY DEF Admin!Watched
  <1>3. \A k \in Admin!Keys : Shaped(lists[k])
    BY DEF AdminInv, Sound
  <1>4. ASSUME NEW k \in hit
        PROVE  Sound(lists'[k], Admin!Stored(k)', Admin!Watched(k)')
    <2>1. CASE Admin!Invalidate(Admin!Kind(s))
      <3>1. lists'[k] = Admin!Stale(k)
        BY <2>1 DEF Admin!Invalidate
      <3> QED
        BY <1>2, <1>3, <3>1, StaleIsSound
    <2>2. CASE Admin!Unheard(Admin!Kind(s))
      <3>1. lists'[k] = [lists[k] EXCEPT !.behind = TRUE]
        BY <2>2 DEF Admin!Unheard
      <3> QED
        BY <1>3, <3>1, UnheardIsSound
    <2> QED
      BY <2>1, <2>2
  <1>5. ASSUME NEW k \in Admin!Keys \ hit
        PROVE  Sound(lists'[k], Admin!Stored(k)', Admin!Watched(k)')
    <2>1. lists'[k] = lists[k]
      BY DEF Admin!Invalidate, Admin!Unheard
    <2>2. Admin!Stored(k)' = Admin!Stored(k)
      BY DEF Admin!Write, Admin!Stored, Admin!Kind, Admin!InvalidatedKeys, Admin!Keys
    <2> QED
      BY <1>2, <2>1, <2>2 DEF AdminInv
  <1> QED
    BY <1>1, <1>4, <1>5 DEF AdminInv

LEMMA SaveStepKeeps ==
  ASSUME AdminInv, Admin!SaveStep
  PROVE  AdminInv'
  <1>1. PICK s \in saves : Admin!SaveReturns(s) \/ Admin!SaveFails(s)
    BY DEF Admin!SaveStep
  <1>2. CASE Admin!SaveReturns(s)
    BY <1>2, WriteKeeps DEF Admin!SaveReturns
  <1>3. CASE Admin!SaveFails(s)
    BY <1>3, WriteKeeps, NoListChanges DEF Admin!SaveFails
  <1> QED
    BY <1>1, <1>2, <1>3

LEMMA AdminStep ==
  ASSUME AdminInv, [Admin!Next]_Admin!vars
  PROVE  AdminInv'
  <1>1. CASE UNCHANGED Admin!vars
    BY <1>1, NoListChanges DEF Admin!vars, Admin!adminVars
  <1>2. CASE Admin!DialogStep
    BY <1>2, GoToKeeps DEF Admin!DialogStep, Admin!OpenModal, Admin!CloseModal, Admin!SetTab,
       Admin!UsersShown
  <1>3. CASE Admin!UsersStep
    <2>1. ASSUME NEW f \in Admin!Filters, Admin!ListStep(f) \/ Admin!SetFilter(f)
          PROVE  AdminInv'
      BY <2>1, ListStepKeeps, SetFilterKeeps DEF Admin!Keys
    <2>2. ASSUME NEW u \in Accounts,
                 Admin!SaveRole(u) \/ Admin!ToggleStatus(u) \/ \E r \in Roles : Admin!Approve(u, r)
          PROVE  AdminInv'
      BY <2>2, NoListChanges DEF Admin!SaveRole, Admin!ToggleStatus, Admin!Approve, Admin!Send
    <2> QED
      BY <1>3, <2>1, <2>2 DEF Admin!UsersStep
  <1>4. CASE Admin!LayersStep
    <2>1. CASE Admin!ListStep("layers")
      BY <2>1, ListStepKeeps DEF Admin!Keys
    <2>2. CASE Admin!SearchLayer
               \/ \E a \in {"view", "export"}, r \in Roles \ {"superuser"} : Admin!Toggle(a, r)
      BY <2>2, NoListChanges DEF Admin!SearchLayer, Admin!Toggle, Admin!Send
    <2> QED
      BY <1>4, <2>1, <2>2 DEF Admin!LayersStep
  <1>5. CASE Admin!AuditStep
    BY <1>5, NoListChanges DEF Admin!AuditStep, Admin!PreviousPage, Admin!NextPage,
       Admin!AuditReturns, Admin!SearchAudit, Admin!Turn
  <1>6. CASE Admin!RowStep
    BY <1>6, NoListChanges DEF Admin!RowStep, Admin!StartEdit, Admin!CancelEdit, Admin!PickRole,
       Admin!EditRow
  <1>7. CASE Admin!SaveStep
    BY <1>7, SaveStepKeeps
  <1> QED
    BY <1>1, <1>2, <1>3, <1>4, <1>5, <1>6, <1>7 DEF Admin!Next

------------------------------------------------------------------------------
(* The types of the administration: AdminConsole.                          *)

AdminConstants == Me \in Accounts /\ {"superuser", "viewer"} \subseteq Roles

(* A row that is on the screen has a role there is; one that is not was    *)
(* forgotten.  What is sent for an account is the whole of it, its role or *)
(* whether it is active.                                                   *)
RowIs(u) == IF u \in Admin!Table THEN [here : {TRUE}, editing : BOOLEAN, role : Roles]
                                 ELSE {Admin!NoRow}
Patches == Admin!Account \union [role : Roles] \union [active : BOOLEAN]
SendsTyped(s) ==
  /\ DOMAIN s = {"hook", "account", "patch", "here"} /\ s.here \in BOOLEAN
  /\ IF s.hook = "layers" THEN s.patch \in Admin!Rights
                          ELSE s.account \in Accounts /\ s.patch \in Patches
DataIs(k) == IF k = "layers" THEN Admin!Rights ELSE [Accounts -> Admin!Account]

StoredIsTyped == accounts \in [Accounts -> Admin!Account] /\ rights \in Admin!Rights
ListsTyped == \A k \in Admin!Keys : lists[k].data \in DataIs(k) /\ lists[k].answer \in DataIs(k)
RowsTyped == DOMAIN userRows = Accounts /\ userRows = [u \in Accounts |-> userRows[u]]
             /\ \A u \in Accounts : userRows[u] \in RowIs(u)
SavesAreTyped == \A s \in saves : SendsTyped(s)
AdminDialogTyped ==
  /\ route \in Routes /\ modal \in [open : BOOLEAN, tab : {"users", "layers", "audit"}]
  /\ filter \in Admin!Filters /\ layerShown \in BOOLEAN /\ saved \in Nat
AuditTyped == audit \in [text : {"", "typed"}, page : Nat, there : BOOLEAN]

AdminTypes ==
  AdminInv /\ StoredIsTyped /\ ListsTyped /\ RowsTyped /\ SavesAreTyped /\ AdminDialogTyped /\ AuditTyped

LEMMA AdminTypesAreEnough == AdminTypes => Admin!TypeOK
  <1> SUFFICES ASSUME AdminTypes
               PROVE  Admin!TypeOK
    OBVIOUS
  <1>1. ASSUME NEW u \in Accounts
        PROVE  /\ userRows[u] \in [here : BOOLEAN, editing : BOOLEAN, role : Roles \union {"unset"}]
               /\ userRows[u].here <=> u \in Admin!Table
    <2>1. userRows[u] \in RowIs(u)
      BY DEF AdminTypes, RowsTyped
    <2>2. CASE u \in Admin!Table
      BY <2>1, <2>2 DEF RowIs
    <2>3. CASE u \notin Admin!Table
      <3>1. userRows[u] = Admin!NoRow
        BY <2>1, <2>3 DEF RowIs
      <3> QED
        BY <2>3, <3>1 DEF Admin!NoRow
    <2> QED
      BY <2>2, <2>3
  <1>2. userRows \in [Accounts -> [here : BOOLEAN, editing : BOOLEAN,
                                   role : Roles \union {"unset"}]]
    BY <1>1 DEF AdminTypes, RowsTyped
  <1>3. \A k \in Admin!Keys : lists[k].stage \in {"none", "asked", "served"}
    BY DEF AdminTypes, AdminInv, Sound, Shaped
  <1>4. audit.page \in Nat /\ audit.text \in {"", "typed"} /\ audit.there \in BOOLEAN
    BY DEF AdminTypes, AuditTyped
  <1> QED
    BY <1>1, <1>2, <1>3, <1>4 DEF AdminTypes, StoredIsTyped, AdminDialogTyped, Admin!TypeOK

LEMMA AdminTypesInitial == AdminConstants /\ Admin!Init => AdminTypes
  <1> SUFFICES ASSUME AdminConstants, Admin!Init
               PROVE  AdminTypes
    OBVIOUS
  <1>1. StoredIsTyped
    <2>1. \A u \in Accounts : accounts[u] \in Admin!Account
      BY DEF Admin!Init, Admin!Account, AdminConstants
    <2>2. accounts \in [Accounts -> Admin!Account]
      BY <2>1 DEF Admin!Init
    <2>3. rights \in Admin!Rights
      BY DEF Admin!Init, Admin!Rights
    <2> QED
      BY <2>2, <2>3 DEF StoredIsTyped
  <1>2. ListsTyped
    BY <1>1 DEF Admin!Init, ListsTyped, DataIs, StoredIsTyped
  <1>3. AdminDialogTyped
    BY DEF Admin!Init, AdminDialogTyped, Admin!TabsOf, Admin!Filters
  <1>4. Admin!Table = {}
    BY DEF Admin!Init, Admin!Table, Admin!UsersShown
  <1>5. RowsTyped
    BY <1>4 DEF Admin!Init, RowsTyped, RowIs
  <1>6. SavesAreTyped /\ AuditTyped
    BY DEF Admin!Init, SavesAreTyped, AuditTyped, Admin!FirstPage
  <1> QED
    BY <1>1, <1>2, <1>3, <1>5, <1>6, AdminInitial DEF AdminTypes

(* What is on the screen is typed. *)
LEMMA RowsOnScreen ==
  ASSUME ListsTyped, filter \in Admin!Filters
  PROVE  /\ Admin!Table \subseteq Accounts
         /\ \A u \in Accounts : Admin!User(u) \in Admin!Account /\ Admin!User(u).role \in Roles
                                /\ Admin!User(u).active \in BOOLEAN
  <1>1. lists[filter].data \in [Accounts -> Admin!Account]
    BY DEF ListsTyped, DataIs, Admin!Keys, Admin!Filters
  <1>2. Admin!Table \subseteq Accounts
    BY DEF Admin!Table, Admin!UsersOf
  <1> QED
    BY <1>1, <1>2 DEF Admin!User, Admin!Account

(* The rows that are shown next, whatever step it was. *)
LEMMA RowsFollowTyped ==
  ASSUME RowsTyped, ListsTyped', filter' \in Admin!Filters, Admin!RowsFollow
  PROVE  RowsTyped'
  <1>1. DOMAIN userRows' = Accounts /\ userRows' = [u \in Accounts |-> userRows'[u]]
    BY DEF Admin!RowsFollow
  <1>2. ASSUME NEW u \in Accounts
        PROVE  userRows'[u] \in RowIs(u)'
    <2>1. CASE u \notin Admin!Table'
      BY <2>1 DEF Admin!RowsFollow, RowIs
    <2>2. CASE u \in Admin!Table' /\ u \in Admin!Table
      BY <2>2 DEF Admin!RowsFollow, RowIs, RowsTyped
    <2>3. CASE u \in Admin!Table' /\ u \notin Admin!Table
      <3>1. Admin!User(u)'.role \in Roles
        <4>1. lists'[filter'].data \in [Accounts -> Admin!Account]
          BY DEF ListsTyped, DataIs, Admin!Keys, Admin!Filters
        <4> QED
          BY <4>1 DEF Admin!User, Admin!Account
      <3> QED
        BY <2>3, <3>1 DEF Admin!RowsFollow, RowIs
    <2> QED
      BY <2>1, <2>2, <2>3
  <1> QED
    BY <1>1, <1>2 DEF RowsTyped

LEMMA SavesFollowTyped ==
  ASSUME SavesAreTyped, Admin!SavesFollow
  PROVE  SavesAreTyped'
  <1> SUFFICES ASSUME NEW t \in saves'
               PROVE  SendsTyped(t)
    BY DEF SavesAreTyped
  <1>1. PICK s \in saves, b \in BOOLEAN : t = [s EXCEPT !.here = @ /\ b]
    BY DEF Admin!SavesFollow
  <1> QED
    BY <1>1 DEF SavesAreTyped, SendsTyped

(* The rows stay when what they show does. *)
LEMMA SameRows ==
  ASSUME RowsTyped, UNCHANGED <<modal, filter, userRows>>,
         filter \in Admin!Filters,
         \A k \in Admin!Keys : /\ lists'[k].has = lists[k].has /\ lists'[k].erred = lists[k].erred
                               /\ lists'[k].data = lists[k].data
  PROVE  RowsTyped'
  <1>1. filter \in Admin!Keys
    BY DEF Admin!Keys
  <1>2. Admin!Table' = Admin!Table
    BY <1>1 DEF Admin!Table, Admin!UsersShown, Admin!UsersOf
  <1> QED
    BY <1>2 DEF RowsTyped, RowIs

(* What one list becomes: the data stay, or are those that are stored. *)
LEMMA ListsStayTyped ==
  ASSUME ListsTyped,
         \A k \in Admin!Keys : /\ lists'[k].data \in {lists[k].data, lists[k].answer}
                               /\ lists'[k].answer \in {lists[k].data, lists[k].answer, Admin!Stored(k)},
         StoredIsTyped
  PROVE  ListsTyped'
  <1>1. \A k \in Admin!Keys : Admin!Stored(k) \in DataIs(k)
    BY DEF StoredIsTyped, DataIs, Admin!Stored
  <1> QED
    BY <1>1 DEF ListsTyped, DataIs

LEMMA ListStepTyped ==
  ASSUME AdminTypes, NEW k \in Admin!Keys, Admin!ListStep(k), UNCHANGED route
  PROVE  ListsTyped' /\ SavesAreTyped' /\ StoredIsTyped' /\ AdminDialogTyped' /\ AuditTyped'
  <1>1. Shaped(lists[k]) /\ DOMAIN lists = Admin!Keys
    BY DEF AdminTypes, AdminInv, Sound
  <1>2. \A j \in Admin!Keys : /\ lists'[j].data \in {lists[j].data, lists[j].answer}
                              /\ lists'[j].answer \in {lists[j].data, lists[j].answer, Admin!Stored(j)}
    BY <1>1 DEF Admin!ListStep, Admin!ListServed, Admin!ListReturns, Admin!ListFails, Shaped
  <1>3. ListsTyped'
    BY <1>2, ListsStayTyped DEF AdminTypes
  <1>4. SavesAreTyped'
    BY SavesFollowTyped DEF AdminTypes, SavesAreTyped, Admin!ListStep, Admin!ListServed,
       Admin!ListReturns, Admin!ListFails
  <1>5. UNCHANGED <<modal, accounts, rights, filter, layerShown, saved, audit>>
    BY DEF Admin!ListStep, Admin!ListServed, Admin!ListReturns, Admin!ListFails
  <1> QED
    BY <1>3, <1>4, <1>5 DEF AdminTypes, StoredIsTyped, AdminDialogTyped, AuditTyped

LEMMA WatchTyped ==
  ASSUME AdminTypes, NEW k \in Admin!Keys, Admin!Watch(k) \/ UNCHANGED lists
  PROVE  ListsTyped'
  <1>1. Shaped(lists[k]) /\ DOMAIN lists = Admin!Keys
    BY DEF AdminTypes, AdminInv, Sound
  <1>2. \A j \in Admin!Keys : /\ lists'[j].data \in {lists[j].data, lists[j].answer}
                              /\ lists'[j].answer \in {lists[j].data, lists[j].answer, Admin!Stored(j)}
    BY <1>1 DEF Admin!Watch, Shaped
  <1> QED
    BY <1>2, ListsStayTyped DEF AdminTypes

LEMMA GoToTyped ==
  ASSUME AdminTypes, NEW open \in BOOLEAN, NEW tab \in {"users", "layers", "audit"},
         Admin!GoTo(open, tab), UNCHANGED route
  PROVE  ListsTyped' /\ SavesAreTyped' /\ StoredIsTyped' /\ AdminDialogTyped' /\ AuditTyped'
  <1>1. ListsTyped'
    BY WatchTyped DEF Admin!GoTo, Admin!Keys, Admin!Filters
  <1>2. SavesAreTyped'
    BY SavesFollowTyped DEF AdminTypes, Admin!GoTo
  <1>3. AdminDialogTyped'
    BY DEF AdminTypes, AdminDialogTyped, Admin!GoTo, Admin!Filters
  <1>4. AuditTyped'
    BY DEF Admin!GoTo, AuditTyped, Admin!FirstPage
  <1> QED
    BY <1>1, <1>2, <1>3, <1>4 DEF AdminTypes, StoredIsTyped, Admin!GoTo

(* What a change makes of what is stored, and of its lists. *)
LEMMA PatchedTyped ==
  ASSUME NEW a \in Admin!Account, NEW p \in Patches
  PROVE  [f \in DOMAIN a |-> IF f \in DOMAIN p THEN p[f] ELSE a[f]] \in Admin!Account
  <1> DEFINE r == [f \in DOMAIN a |-> IF f \in DOMAIN p THEN p[f] ELSE a[f]]
  <1>1. DOMAIN a = {"role", "active", "pending"}
    BY DEF Admin!Account
  <1>2. r = [role |-> r["role"], active |-> r["active"], pending |-> r["pending"]]
    BY <1>1
  <1>3. r["role"] \in Roles
    BY <1>1 DEF Patches, Admin!Account
  <1>4. r["active"] \in BOOLEAN
    BY <1>1 DEF Patches, Admin!Account
  <1>5. r["pending"] \in BOOLEAN
    BY <1>1 DEF Patches, Admin!Account
  <1> HIDE DEF r
  <1>6. r \in Admin!Account
    BY <1>2, <1>3, <1>4, <1>5 DEF Admin!Account
  <1> QED
    BY <1>6 DEF r

LEMMA WriteTyped ==
  ASSUME StoredIsTyped, NEW s, SendsTyped(s), Admin!Write(s)
  PROVE  StoredIsTyped'
  <1>1. CASE s.hook = "layers"
    BY <1>1 DEF StoredIsTyped, SendsTyped, Admin!Write
  <1>2. CASE s.hook # "layers"
    <2>1. s.account \in Accounts /\ s.patch \in Patches
      BY <1>2 DEF SendsTyped
    <2>2. PICK u \in Accounts, p \in Patches : u = s.account /\ p = s.patch
      BY <2>1
    <2>3. PICK a \in Admin!Account : a = accounts[u]
      BY DEF StoredIsTyped
    <2>4. PICK b \in Admin!Account :
              b = [f \in DOMAIN a |-> IF f \in DOMAIN p THEN p[f] ELSE a[f]]
      BY PatchedTyped
    <2>5. accounts' = [accounts EXCEPT ![u] = b] /\ UNCHANGED rights
      BY <1>2, <2>2, <2>3, <2>4 DEF Admin!Write
    <2> QED
      BY <2>5 DEF StoredIsTyped
  <1> QED
    BY <1>1, <1>2

LEMMA ToldLists ==
  ASSUME AdminInv, NEW kind, Admin!Invalidate(kind) \/ Admin!Unheard(kind)
  PROVE  \A k \in Admin!Keys : /\ lists'[k].has = lists[k].has /\ lists'[k].erred = lists[k].erred
                               /\ lists'[k].data = lists[k].data
                               /\ lists'[k].answer \in {lists[k].data, lists[k].answer}
  <1> SUFFICES ASSUME NEW k \in Admin!Keys
               PROVE  /\ lists'[k].has = lists[k].has /\ lists'[k].erred = lists[k].erred
                      /\ lists'[k].data = lists[k].data
                      /\ lists'[k].answer \in {lists[k].data, lists[k].answer}
    OBVIOUS
  <1>1. Shaped(lists[k])
    BY DEF AdminInv, Sound
  <1>2. lists'[k] \in {lists[k], Admin!Stale(k), [lists[k] EXCEPT !.behind = TRUE]}
    BY DEF Admin!Invalidate, Admin!Unheard
  <1> QED
    BY <1>1, <1>2 DEF Shaped, Admin!Stale

LEMMA SaveStepTyped ==
  ASSUME AdminTypes, Admin!SaveStep, UNCHANGED route
  PROVE  ListsTyped' /\ SavesAreTyped' /\ StoredIsTyped' /\ AdminDialogTyped' /\ AuditTyped' /\ RowsTyped'
  <1>1. PICK s \in saves : Admin!SaveReturns(s) \/ Admin!SaveFails(s)
    BY DEF Admin!SaveStep
  <1>2. SendsTyped(s)
    BY DEF AdminTypes, SavesAreTyped
  <1>3. /\ UNCHANGED <<modal, filter, layerShown, saved, audit>> /\ saves' = saves \ {s}
        /\ \/ Admin!Write(s) /\ (Admin!Invalidate(Admin!Kind(s)) \/ Admin!Unheard(Admin!Kind(s)))
           \/ UNCHANGED <<accounts, rights, lists>>
    BY <1>1 DEF Admin!SaveReturns, Admin!SaveFails
  <1>4. StoredIsTyped'
    BY <1>2, <1>3, WriteTyped DEF AdminTypes, StoredIsTyped
  <1>5. \A k \in Admin!Keys : /\ lists'[k].has = lists[k].has /\ lists'[k].erred = lists[k].erred
                              /\ lists'[k].data = lists[k].data
                              /\ lists'[k].answer \in {lists[k].data, lists[k].answer}
    BY <1>3, ToldLists DEF AdminTypes
  <1>6. ListsTyped'
    BY <1>5, ListsStayTyped DEF AdminTypes
  <1>7. SavesAreTyped' /\ AdminDialogTyped' /\ AuditTyped'
    BY <1>3 DEF AdminTypes, SavesAreTyped, AdminDialogTyped, AuditTyped
  <1>8. Admin!Table' = Admin!Table
    <2>1. filter \in Admin!Keys
      BY DEF AdminTypes, AdminDialogTyped, Admin!Keys
    <2> QED
      BY <1>3, <1>5, <2>1 DEF Admin!Table, Admin!UsersShown, Admin!UsersOf
  <1>9. RowsTyped'
    <2>1. CASE userRows' = userRows
      BY <1>8, <2>1 DEF AdminTypes, RowsTyped, RowIs
    <2>2. CASE userRows' = [userRows EXCEPT ![s.account].editing = FALSE]
      <3>1. DOMAIN userRows' = Accounts /\ userRows' = [u \in Accounts |-> userRows'[u]]
        BY <2>2 DEF AdminTypes, RowsTyped
      <3>2. ASSUME NEW u \in Accounts
            PROVE  userRows'[u] \in RowIs(u)
        <4>1. userRows[u] \in RowIs(u)
          BY DEF AdminTypes, RowsTyped
        <4>2. userRows'[u] \in {userRows[u], [userRows[u] EXCEPT !.editing = FALSE]}
          BY <2>2 DEF AdminTypes, RowsTyped
        <4>3. CASE u \in Admin!Table
          BY <4>1, <4>2, <4>3 DEF RowIs
        <4>4. CASE u \notin Admin!Table
          <5>1. PICK r : r = Admin!NoRow /\ r = [here |-> FALSE, editing |-> FALSE, role |-> "unset"]
            BY DEF Admin!NoRow
          <5>2. userRows[u] = r
            BY <4>1, <4>4, <5>1 DEF RowIs
          <5>3. [r EXCEPT !.editing = FALSE] = r
            <6>1. DOMAIN r = {"here", "editing", "role"} /\ r.editing = FALSE
              BY <5>1
            <6>2. r = [f \in DOMAIN r |-> r[f]]
              BY <5>1
            <6>3. \A f \in DOMAIN r : [r EXCEPT !.editing = FALSE][f] = r[f]
              BY <6>1
            <6> QED
              BY <6>2, <6>3
          <5> QED
            BY <4>2, <4>4, <5>1, <5>2, <5>3 DEF RowIs
        <4> QED
          BY <4>3, <4>4
      <3> QED
        BY <1>8, <3>1, <3>2 DEF RowsTyped, RowIs
    <2> QED
      BY <1>1, <2>1, <2>2 DEF Admin!SaveReturns, Admin!SaveFails
  <1> QED
    BY <1>4, <1>6, <1>7, <1>9

(* What the buttons of a row send. *)
LEMMA SendTyped ==
  ASSUME AdminTypes, NEW hook, NEW id, NEW patch, Admin!Send(hook, id, patch), UNCHANGED route,
         IF hook = "layers" THEN patch \in Admin!Rights ELSE id \in Accounts /\ patch \in Patches
  PROVE  ListsTyped' /\ SavesAreTyped' /\ StoredIsTyped' /\ AdminDialogTyped' /\ AuditTyped'
  <1>1. SendsTyped([hook |-> hook, account |-> id, patch |-> patch, here |-> TRUE])
    BY DEF SendsTyped
  <1>2. SavesAreTyped'
    BY <1>1 DEF Admin!Send, AdminTypes, SavesAreTyped
  <1>3. saved' \in Nat
    BY DEF Admin!Send, AdminTypes, AdminDialogTyped
  <1>4. ListsTyped' /\ StoredIsTyped'
    BY DEF Admin!Send, AdminTypes, ListsTyped, StoredIsTyped
  <1> QED
    BY <1>2, <1>3, <1>4 DEF Admin!Send, AdminTypes, AdminDialogTyped, AuditTyped

LEMMA UsersStepTyped ==
  ASSUME AdminTypes, Admin!UsersStep, UNCHANGED route
  PROVE  ListsTyped' /\ SavesAreTyped' /\ StoredIsTyped' /\ AdminDialogTyped' /\ AuditTyped'
  <1>1. ASSUME NEW f \in Admin!Filters, Admin!ListStep(f)
        PROVE  ListsTyped' /\ SavesAreTyped' /\ StoredIsTyped' /\ AdminDialogTyped' /\ AuditTyped'
    BY <1>1, ListStepTyped DEF Admin!Keys
  <1>2. ASSUME NEW f \in Admin!Filters, Admin!SetFilter(f)
        PROVE  ListsTyped' /\ SavesAreTyped' /\ StoredIsTyped' /\ AdminDialogTyped' /\ AuditTyped'
    <2>1. ListsTyped'
      BY <1>2, WatchTyped DEF Admin!SetFilter, Admin!Keys
    <2>2. SavesAreTyped'
      BY <1>2, SavesFollowTyped DEF AdminTypes, Admin!SetFilter
    <2> QED
      BY <1>2, <2>1, <2>2 DEF AdminTypes, Admin!SetFilter, AdminDialogTyped, StoredIsTyped, AuditTyped
  <1>3. ASSUME NEW u \in Accounts, u \in Admin!Table
        PROVE  userRows[u].role \in Roles /\ Admin!User(u).active \in BOOLEAN
    <2>1. Admin!User(u).active \in BOOLEAN
      BY RowsOnScreen DEF AdminTypes, AdminDialogTyped
    <2>2. userRows[u].role \in Roles
      BY <1>3 DEF AdminTypes, RowsTyped, RowIs
    <2> QED
      BY <2>1, <2>2
  <1>4. ASSUME NEW u \in Accounts, Admin!SaveRole(u)
        PROVE  ListsTyped' /\ SavesAreTyped' /\ StoredIsTyped' /\ AdminDialogTyped' /\ AuditTyped'
    <2>1. [role |-> userRows[u].role] \in Patches
      BY <1>3, <1>4 DEF Admin!SaveRole, Patches
    <2>2. Admin!Send("update", u, [role |-> userRows[u].role])
      BY <1>4 DEF Admin!SaveRole
    <2> QED
      BY <2>1, <2>2, SendTyped
  <1>5. ASSUME NEW u \in Accounts, Admin!ToggleStatus(u)
        PROVE  ListsTyped' /\ SavesAreTyped' /\ StoredIsTyped' /\ AdminDialogTyped' /\ AuditTyped'
    <2>1. [active |-> ~Admin!User(u).active] \in Patches
      BY <1>3, <1>5 DEF Admin!ToggleStatus, Patches
    <2>2. Admin!Send("update", u, [active |-> ~Admin!User(u).active])
      BY <1>5 DEF Admin!ToggleStatus
    <2> QED
      BY <2>1, <2>2, SendTyped
  <1>6. ASSUME NEW u \in Accounts, NEW r \in Roles, Admin!Approve(u, r)
        PROVE  ListsTyped' /\ SavesAreTyped' /\ StoredIsTyped' /\ AdminDialogTyped' /\ AuditTyped'
    <2>1. [role |-> r, active |-> TRUE, pending |-> FALSE] \in Patches
      BY DEF Patches, Admin!Account
    <2>2. Admin!Send("approve", u, [role |-> r, active |-> TRUE, pending |-> FALSE])
      BY <1>6 DEF Admin!Approve
    <2> QED
      BY <2>1, <2>2, SendTyped
  <1> QED
    BY <1>1, <1>2, <1>4, <1>5, <1>6 DEF Admin!UsersStep

LEMMA LayersStepTyped ==
  ASSUME AdminConstants, AdminTypes, Admin!LayersStep, UNCHANGED route
  PROVE  ListsTyped' /\ SavesAreTyped' /\ StoredIsTyped' /\ AdminDialogTyped' /\ AuditTyped'
  <1>1. CASE Admin!ListStep("layers")
    BY <1>1, ListStepTyped DEF Admin!Keys
  <1>2. CASE Admin!SearchLayer
    <2>1. SavesAreTyped'
      BY <1>2, SavesFollowTyped DEF AdminTypes, Admin!SearchLayer
    <2> QED
      BY <1>2, <2>1 DEF AdminTypes, Admin!SearchLayer, AdminDialogTyped, StoredIsTyped, AuditTyped,
         ListsTyped
  <1>3. ASSUME NEW a \in {"view", "export"}, NEW r \in Roles, Admin!Toggle(a, r)
        PROVE  ListsTyped' /\ SavesAreTyped' /\ StoredIsTyped' /\ AdminDialogTyped' /\ AuditTyped'
    <2>1. PICK d \in Admin!Rights : d = lists["layers"].data
      BY DEF AdminTypes, ListsTyped, DataIs, Admin!Keys
    <2>2. d[a] \in SUBSET Roles
      BY DEF Admin!Rights
    <2>3. PICK e \in SUBSET Roles :
              e = ((d[a] \union {r}) \ (d[a] \intersect {r})) \union {"superuser"}
      BY <2>2 DEF AdminConstants
    <2>4. [d EXCEPT ![a] = e] \in Admin!Rights
      BY DEF Admin!Rights
    <2>5. Admin!Send("layers", "layer", [d EXCEPT ![a] = e])
      <3>1. [d EXCEPT ![a] = ((@ \union {r}) \ (@ \intersect {r})) \union {"superuser"}]
              = [d EXCEPT ![a] = e]
        BY <2>3
      <3> QED
        BY <1>3, <2>1, <3>1 DEF Admin!Toggle
    <2> QED
      BY <2>4, <2>5, SendTyped
  <1> QED
    BY <1>1, <1>2, <1>3 DEF Admin!LayersStep

LEMMA AuditStepTyped ==
  ASSUME AdminTypes, Admin!AuditStep, UNCHANGED route
  PROVE  ListsTyped' /\ SavesAreTyped' /\ StoredIsTyped' /\ AdminDialogTyped' /\ AuditTyped'
  <1>1. audit \in [text : {"", "typed"}, page : Nat, there : BOOLEAN]
    BY DEF AdminTypes, AuditTyped
  <1>0. \A n \in Nat : n + 1 \in Nat /\ (n > 1 => n - 1 \in Nat)
    OBVIOUS
  <1>2. AuditTyped'
    <2>1. ASSUME NEW t \in {"", "typed"}, NEW n \in Nat, Admin!Turn(t, n)
          PROVE  AuditTyped'
      BY <2>1 DEF Admin!Turn, AuditTyped
    <2>2. CASE Admin!PreviousPage
      <3>1. PICK m \in Nat, t \in {"", "typed"} : m = audit.page /\ t = audit.text
        BY <1>1
      <3>2. m > 1 /\ Admin!Turn(t, m - 1)
        BY <2>2, <3>1 DEF Admin!PreviousPage
      <3>3. m - 1 \in Nat
        BY <1>0, <3>1, <3>2, Zenon
      <3> QED
        BY <2>1, <3>2, <3>3
    <2>3. CASE Admin!NextPage
      <3>1. PICK m \in Nat, t \in {"", "typed"} : m = audit.page /\ t = audit.text
        BY <1>1
      <3>2. Admin!Turn(t, m + 1)
        BY <2>3, <3>1 DEF Admin!NextPage
      <3>3. m + 1 \in Nat
        BY <1>0, <3>1, Zenon
      <3> QED
        BY <2>1, <3>2, <3>3
    <2>4. CASE Admin!AuditReturns
      BY <1>1, <2>4 DEF Admin!AuditReturns, AuditTyped
    <2>5. ASSUME NEW t \in {"", "typed"}, Admin!SearchAudit(t)
          PROVE  AuditTyped'
      BY <2>1, <2>5 DEF Admin!SearchAudit
    <2> QED
      BY <2>2, <2>3, <2>4, <2>5 DEF Admin!AuditStep
  <1>3. UNCHANGED <<modal, accounts, rights, filter, lists, layerShown, saves, saved>>
    BY DEF Admin!AuditStep, Admin!PreviousPage, Admin!NextPage, Admin!AuditReturns,
       Admin!SearchAudit, Admin!Turn
  <1> QED
    BY <1>2, <1>3 DEF AdminTypes, AdminDialogTyped, StoredIsTyped, SavesAreTyped, ListsTyped

(* The select of a row, and its buttons. *)
LEMMA RowStepTyped ==
  ASSUME AdminTypes, Admin!RowStep, UNCHANGED route
  PROVE  /\ ListsTyped' /\ SavesAreTyped' /\ StoredIsTyped' /\ AdminDialogTyped' /\ AuditTyped'
         /\ RowsTyped'
  <1>1. PICK u \in Accounts, e \in BOOLEAN, r \in Roles : u \in Admin!Table /\ Admin!EditRow(u, e, r)
    <2>1. ASSUME NEW u \in Accounts, u \in Admin!Table
          PROVE  userRows[u].role \in Roles /\ Admin!User(u).role \in Roles
      <3>1. Admin!User(u).role \in Roles
        BY RowsOnScreen DEF AdminTypes, AdminDialogTyped
      <3>2. userRows[u].role \in Roles
        BY <2>1 DEF AdminTypes, RowsTyped, RowIs
      <3> QED
        BY <3>1, <3>2
    <2> QED
      BY <2>1 DEF Admin!RowStep, Admin!StartEdit, Admin!CancelEdit, Admin!PickRole
  <1>2. UNCHANGED <<modal, accounts, rights, filter, lists, layerShown, saves, saved, audit>>
        /\ userRows' = [userRows EXCEPT ![u].editing = e, ![u].role = r]
    BY <1>1 DEF Admin!EditRow
  <1>3. Admin!Table' = Admin!Table
    BY <1>2 DEF Admin!Table, Admin!UsersShown, Admin!UsersOf
  <1>4. DOMAIN userRows' = Accounts /\ userRows' = [v \in Accounts |-> userRows'[v]]
    BY <1>2 DEF AdminTypes, RowsTyped
  <1>5. ASSUME NEW v \in Accounts
        PROVE  userRows'[v] \in RowIs(v)
    <2>1. userRows[v] \in RowIs(v) /\ DOMAIN userRows = Accounts
      BY DEF AdminTypes, RowsTyped
    <2>2. CASE v = u
      <3>1. userRows[u] \in [here : {TRUE}, editing : BOOLEAN, role : Roles]
        BY <1>1, <2>1, <2>2 DEF RowIs
      <3>2. userRows'[u] = [userRows[u] EXCEPT !.editing = e, !.role = r]
        BY <1>2, <2>1, <3>1
      <3>3. userRows'[u] \in [here : {TRUE}, editing : BOOLEAN, role : Roles]
        BY <3>1, <3>2
      <3> QED
        BY <1>1, <2>2, <3>3 DEF RowIs
    <2>3. CASE v # u
      BY <1>2, <2>1, <2>3
    <2> QED
      BY <2>2, <2>3
  <1>6. RowsTyped'
    BY <1>3, <1>4, <1>5 DEF RowsTyped, RowIs
  <1> QED
    BY <1>2, <1>6 DEF AdminTypes, AdminDialogTyped, StoredIsTyped, SavesAreTyped, ListsTyped, AuditTyped

LEMMA AdminTypesStep ==
  ASSUME AdminConstants, AdminTypes, [Admin!Next]_Admin!vars
  PROVE  AdminTypes'
  <1>1. AdminInv'
    BY AdminStep DEF AdminTypes
  <1>2. CASE UNCHANGED Admin!vars
    <2>1. Admin!Table' = Admin!Table
      BY <1>2 DEF Admin!vars, Admin!adminVars, Admin!Table, Admin!UsersShown, Admin!UsersOf
    <2>2. RowsTyped'
      BY <1>2, <2>1 DEF Admin!vars, Admin!adminVars, AdminTypes, RowsTyped, RowIs
    <2> QED
      BY <1>1, <1>2, <2>2 DEF Admin!vars, Admin!adminVars, AdminTypes, StoredIsTyped, ListsTyped,
         SavesAreTyped, AdminDialogTyped, AuditTyped, DataIs
  <1>3. CASE Admin!Next
    <2>1. UNCHANGED route
      BY <1>3 DEF Admin!Next, Admin!Here
    <2>2. CASE (Admin!DialogStep \/ Admin!UsersStep \/ Admin!LayersStep \/ Admin!AuditStep)
               /\ Admin!RowsFollow
      <3>1. ASSUME Admin!DialogStep
            PROVE  ListsTyped' /\ SavesAreTyped' /\ StoredIsTyped' /\ AdminDialogTyped' /\ AuditTyped'
        <4>1. Admin!TabsOf(route) \subseteq {"users", "layers", "audit"}
          BY DEF Admin!TabsOf
        <4> QED
          <5>1. modal.tab \in {"users", "layers", "audit"}
            BY DEF AdminTypes, AdminDialogTyped
          <5>2. PICK open \in BOOLEAN, tab \in {"users", "layers", "audit"} : Admin!GoTo(open, tab)
            BY <3>1, <4>1, <5>1 DEF Admin!DialogStep, Admin!OpenModal, Admin!CloseModal, Admin!SetTab
          <5> QED
            BY <2>1, <5>2, GoToTyped
      <3>2. ListsTyped' /\ SavesAreTyped' /\ StoredIsTyped' /\ AdminDialogTyped' /\ AuditTyped'
        BY <2>1, <2>2, <3>1, UsersStepTyped, LayersStepTyped, AuditStepTyped
      <3>3. RowsTyped'
        BY <2>2, <3>2, RowsFollowTyped DEF AdminTypes, AdminDialogTyped
      <3> QED
        BY <1>1, <3>2, <3>3 DEF AdminTypes
    <2>3. CASE Admin!RowStep
      BY <1>1, <2>1, <2>3, RowStepTyped DEF AdminTypes
    <2>4. CASE Admin!SaveStep
      BY <1>1, <2>1, <2>4, SaveStepTyped DEF AdminTypes
    <2> QED
      BY <1>3, <2>2, <2>3, <2>4 DEF Admin!Next
  <1> QED
    BY <1>2, <1>3

------------------------------------------------------------------------------
(* The style of a layer: StyleEditor.                                     *)
(* The rules up to a place that set a colour, and what they make of a      *)
(* feature: the colour of the last of them, or the default.                *)
Matches(s, v, j) == Style!EvaluateClause(s.rules[j].when, v)
Setters(s, v, i) == {j \in 1..i : Matches(s, v, j) /\ s.rules[j].color # 0}
ColorAt(s, v, i) ==
  IF Setters(s, v, i) = {} THEN s.color
  ELSE s.rules[CHOOSE k \in Setters(s, v, i) : \A j \in Setters(s, v, i) : j <= k].color
RuledAt(s, v, i) == \E j \in 1..i : Matches(s, v, j)
LookAt(s, v, i) == [color |-> ColorAt(s, v, i), ruled |-> RuledAt(s, v, i)]

LEMMA MergedRule ==
  ASSUME NEW c, NEW b, NEW rule
  PROVE  Style!MergeRule([color |-> c, ruled |-> b], rule) =
           [color |-> IF rule.color = 0 THEN c ELSE rule.color, ruled |-> TRUE]
  BY DEF Style!MergeRule

LEMMA FirstLook ==
  ASSUME NEW s, NEW v
  PROVE  LookAt(s, v, 0) = [color |-> s.color, ruled |-> FALSE]
  <1>1. 1..0 = {}
    OBVIOUS
  <1>2. Setters(s, v, 0) = {} /\ RuledAt(s, v, 0) = FALSE
    BY <1>1 DEF Setters, RuledAt
  <1> QED
    BY <1>2 DEF LookAt, ColorAt

(* One more rule does to what is painted what MergeRule does.              *)
LEMMA NextLook ==
  ASSUME NEW s, NEW v, NEW i \in Nat \ {0}
  PROVE  LookAt(s, v, i) = IF Matches(s, v, i) THEN Style!MergeRule(LookAt(s, v, i - 1), s.rules[i])
                           ELSE LookAt(s, v, i - 1)
  <1>1. 1..i = 1..(i - 1) \union {i}
    OBVIOUS
  <1>2. CASE ~ Matches(s, v, i)
    <2>1. Setters(s, v, i) = Setters(s, v, i - 1)
      BY <1>1, <1>2 DEF Setters
    <2>2. RuledAt(s, v, i) = RuledAt(s, v, i - 1)
      BY <1>1, <1>2 DEF RuledAt
    <2> QED
      BY <1>2, <2>1, <2>2 DEF LookAt, ColorAt
  <1>3. CASE Matches(s, v, i)
    <2>1. RuledAt(s, v, i) = TRUE
      BY <1>1, <1>3 DEF RuledAt
    <2>2. CASE s.rules[i].color = 0
      <3>1. Setters(s, v, i) = Setters(s, v, i - 1)
        BY <1>1, <2>2 DEF Setters
      <3>2. ColorAt(s, v, i) = ColorAt(s, v, i - 1)
        BY <3>1 DEF ColorAt
      <3> QED
        BY <1>3, <2>1, <2>2, <3>2, MergedRule DEF LookAt
    <2>3. CASE s.rules[i].color # 0
      <3>1. i \in Setters(s, v, i) /\ \A j \in Setters(s, v, i) : j \in Nat /\ j <= i
        BY <1>3, <2>3 DEF Setters
      <3>2. (CHOOSE k \in Setters(s, v, i) : \A j \in Setters(s, v, i) : j <= k) = i
        BY <3>1
      <3>3. ColorAt(s, v, i) = s.rules[i].color
        BY <3>1, <3>2 DEF ColorAt
      <3> QED
        BY <1>3, <2>1, <2>3, <3>3, MergedRule DEF LookAt
    <2> QED
      BY <2>2, <2>3
  <1> QED
    BY <1>2, <1>3

(* What the engine computes rule by rule is what the last setter says.     *)
LEMMA LookOfAllRules ==
  ASSUME NEW s, NEW v, Len(s.rules) \in Nat
  PROVE  Style!ComputeFeatureStyle(s, v) = LookAt(s, v, Len(s.rules))
  <1> DEFINE places == 0..Len(s.rules)
             step(g) == [i \in places |->
                           IF i = 0 THEN [color |-> s.color, ruled |-> FALSE]
                           ELSE IF Style!EvaluateClause(s.rules[i].when, v)
                                THEN Style!MergeRule(g[i - 1], s.rules[i])
                                ELSE g[i - 1]]
             look == CHOOSE g : g = step(g)
             f == [i \in places |-> LookAt(s, v, i)]
  <1>1. Style!ComputeFeatureStyle(s, v) = look[Len(s.rules)]
    BY DEF Style!ComputeFeatureStyle
  <1>2. f = step(f)
    <2>1. ASSUME NEW i \in places
          PROVE  f[i] = step(f)[i]
      <3>1. CASE i = 0
        BY <3>1, FirstLook
      <3>2. CASE i # 0
        <4>1. i \in Nat \ {0} /\ i - 1 \in places
          BY <3>2
        <4> QED
          BY <4>1, NextLook DEF Matches
      <3> QED
        BY <3>1, <3>2
    <2> QED
      BY <2>1
  <1>3. look = step(look)
    BY <1>2
  <1>4. ASSUME NEW i \in places
        PROVE  look[i] = LookAt(s, v, i)
    <2> DEFINE R == OpToRel(<, Nat)
               wrong == {j \in places : look[j] # LookAt(s, v, j)}
    <2>1. \A x, y \in Nat : x < y => <<x, y>> \in R
      BY DEF OpToRel
    <2>2. IsWellFoundedOn(R, Nat)
      BY NatLessThanWellFounded
    <2> HIDE DEF R
    <2> SUFFICES wrong = {}
      OBVIOUS
    <2> SUFFICES ASSUME wrong # {}
                 PROVE  FALSE
      OBVIOUS
    <2> wrong \subseteq Nat
      OBVIOUS
    <2>3. PICK j \in wrong : \A k \in wrong : ~ (<<k, j>> \in R)
      <3> HIDE DEF wrong
      <3> QED
        BY <2>2, WFMin
    <2>4. j \in places /\ look[j] # LookAt(s, v, j)
      OBVIOUS
    <2>5. look[j] = step(look)[j]
      BY <1>3
    <2>6. CASE j = 0
      BY <2>4, <2>5, <2>6, FirstLook
    <2>7. CASE j # 0
      <3>1. j \in Nat \ {0} /\ j - 1 \in places /\ j - 1 < j /\ j - 1 \in Nat
        BY <2>4, <2>7
      <3>2. j - 1 \notin wrong
        BY <2>1, <2>3, <3>1
      <3>3. look[j - 1] = LookAt(s, v, j - 1)
        BY <3>1, <3>2
      <3>4. look[j] = IF Style!EvaluateClause(s.rules[j].when, v)
                      THEN Style!MergeRule(look[j - 1], s.rules[j]) ELSE look[j - 1]
        BY <2>4, <2>5, <2>7
      <3> HIDE DEF look
      <3>5. look[j] = LookAt(s, v, j)
        BY <3>1, <3>3, <3>4, NextLook DEF Matches
      <3> QED
        BY <2>4, <3>5
    <2> QED
      BY <2>6, <2>7
  <1>5. Len(s.rules) \in places
    OBVIOUS
  <1> QED
    BY <1>1, <1>4, <1>5
StyleConstants ==
  /\ MaxRules \in Nat \ {0} /\ MaxEdits \in Nat /\ Colors # {}

EditorTyped == editor \in [style : Style!StyleType, loaded : BOOLEAN]
StylesTyped ==
  /\ styles \in Seq(Style!StyleType) /\ Len(styles) >= 1
  /\ saving \subseteq Style!StyleType
  /\ serverStyle \in 0..Len(styles)
EditsTyped ==
  /\ layer \in {"unknown", "plain", "linked"}
  /\ edits \in 0..MaxEdits /\ iconPicker \in 0..Style!Closed

EditorInv ==
  /\ route \in Routes
  /\ EditorTyped /\ StylesTyped /\ EditsTyped
  /\ editor.loaded => serverStyle >= 1

LEMMA RulesAreSeq ==
  ASSUME MaxRules \in Nat, NEW rs
  PROVE  rs \in Style!BoundedSeq(Style!RuleType, MaxRules)
           <=> rs \in Seq(Style!RuleType) /\ Len(rs) <= MaxRules
  <1>1. ASSUME rs \in Style!BoundedSeq(Style!RuleType, MaxRules)
        PROVE  rs \in Seq(Style!RuleType) /\ Len(rs) <= MaxRules
    <2>1. PICK m \in 0..MaxRules : rs \in [1..m -> Style!RuleType]
      BY <1>1 DEF Style!BoundedSeq, Style!SeqOf
    <2> QED
      BY <2>1
  <1>2. ASSUME rs \in Seq(Style!RuleType), Len(rs) <= MaxRules
        PROVE  rs \in Style!BoundedSeq(Style!RuleType, MaxRules)
    <2>1. Len(rs) \in 0..MaxRules /\ rs \in [1..Len(rs) -> Style!RuleType]
      BY <1>2, LenProperties
    <2> QED
      BY <2>1 DEF Style!BoundedSeq, Style!SeqOf
  <1> QED
    BY <1>1, <1>2

LEMMA RulesOfStyle ==
  ASSUME MaxRules \in Nat, NEW s \in Style!StyleType
  PROVE  s.rules \in Seq(Style!RuleType) /\ Len(s.rules) <= MaxRules
  <1>1. s.rules \in Style!BoundedSeq(Style!RuleType, MaxRules)
    BY DEF Style!StyleType
  <1> QED
    BY <1>1, RulesAreSeq

LEMMA OtherRules ==
  ASSUME MaxRules \in Nat, NEW s \in Style!StyleType,
         NEW rs \in Seq(Style!RuleType), Len(rs) <= MaxRules
  PROVE  [s EXCEPT !.rules = rs] \in Style!StyleType
  <1>1. rs \in Style!BoundedSeq(Style!RuleType, MaxRules)
    BY RulesAreSeq
  <1> QED
    BY <1>1 DEF Style!StyleType

(* Every style paints a feature with the colour of the last rule that      *)
(* matches it and sets one.                                                *)
LEMMA EditorInvIsEnough ==
  ASSUME StyleConstants, EditorInv
  PROVE  Style!TypeOK /\ Style!RulesMergeInOrder
  <1>1. Style!TypeOK
    <2>1. Style!Range(styles) \subseteq Style!StyleType
      BY ElementOfSeq, LenProperties DEF EditorInv, StylesTyped, Style!Range
    <2> QED
      BY <2>1 DEF EditorInv, EditorTyped, StylesTyped, EditsTyped, Style!TypeOK
  <1>2. PICK s \in Style!StyleType : s = editor.style
    BY DEF EditorInv, EditorTyped
  <1>3. Len(s.rules) \in Nat /\ DOMAIN s.rules = 1..Len(s.rules)
    BY RulesOfStyle, LenProperties DEF StyleConstants
  <1>4. ASSUME NEW v
        PROVE  LET setting == {i \in DOMAIN Style!Rules :
                                 Style!EvaluateClause(Style!Rules[i].when, v) /\ Style!Rules[i].color # 0}
               IN  Style!ComputeFeatureStyle(editor.style, v).color =
                     IF setting = {} THEN editor.style.color
                     ELSE Style!Rules[CHOOSE i \in setting : \A j \in setting : j <= i].color
    <2> DEFINE setting == {i \in DOMAIN Style!Rules :
                             Style!EvaluateClause(Style!Rules[i].when, v) /\ Style!Rules[i].color # 0}
    <2>1. Style!ComputeFeatureStyle(s, v).color = ColorAt(s, v, Len(s.rules))
      BY <1>3, LookOfAllRules DEF LookAt
    <2>2. Style!Rules = s.rules
      BY <1>2 DEF Style!Rules
    <2>3. setting = Setters(s, v, Len(s.rules))
      BY <1>3, <2>2 DEF Setters, Matches
    <2> HIDE DEF setting
    <2>4. ColorAt(s, v, Len(s.rules)) =
            IF setting = {} THEN s.color
            ELSE s.rules[CHOOSE i \in setting : \A j \in setting : j <= i].color
      BY <2>3 DEF ColorAt
    <2>5. Style!ComputeFeatureStyle(editor.style, v).color =
            IF setting = {} THEN editor.style.color
            ELSE Style!Rules[CHOOSE i \in setting : \A j \in setting : j <= i].color
      BY <1>2, <2>1, <2>2, <2>4
    <2> QED
      BY <2>5 DEF setting
  <1>5. Style!RulesMergeInOrder
    BY <1>4 DEF Style!RulesMergeInOrder
  <1> QED
    BY <1>1, <1>5

LEMMA EditorInitial == StyleConstants /\ Style!Init => EditorInv
  <1> SUFFICES ASSUME StyleConstants, Style!Init
               PROVE  EditorInv
    OBVIOUS
  <1>1. PICK rs \in Style!FirstRules : styles = <<[Style!FirstStyle EXCEPT !.rules = rs]>>
    BY DEF Style!Init
  <1>2. rs \in Seq(Style!RuleType) /\ Len(rs) <= 1
    <2>1. CASE rs = << >>
      BY <2>1
    <2>2. ASSUME NEW op \in Operators, NEW v \in Cuts, NEW c \in Colors,
                 rs = <<[when |-> [field |-> TRUE, op |-> op, value |-> v], color |-> c,
                         icon |-> FALSE]>>
          PROVE  rs \in Seq(Style!RuleType) /\ Len(rs) <= 1
      <3>1. [field |-> TRUE, op |-> op, value |-> v] \in Style!Whens
        BY DEF Style!Whens
      <3>2. PICK r \in Style!RuleType : rs = <<r>>
        BY <2>2, <3>1 DEF Style!RuleType
      <3> QED
        BY <3>2
    <2> QED
      BY <2>1, <2>2 DEF Style!FirstRules
  <1>3. << >> \in Seq(Style!RuleType) /\ Len(<< >>) <= MaxRules
    BY DEF StyleConstants
  <1>4. << >> \in Style!BoundedSeq(Style!RuleType, MaxRules)
    BY <1>3, RulesAreSeq DEF StyleConstants
  <1>5. Style!FirstStyle \in Style!StyleType
    BY <1>4 DEF Style!FirstStyle, Style!StyleType, Style!Icons, StyleConstants
  <1>6. [Style!FirstStyle EXCEPT !.rules = rs] \in Style!StyleType
    BY <1>2, <1>5, OtherRules DEF StyleConstants
  <1>7. StylesTyped
    BY <1>1, <1>6 DEF Style!Init, StylesTyped
  <1>8. EditorTyped /\ ~ editor.loaded
    BY <1>5 DEF Style!Init, Style!NoEditor, EditorTyped
  <1>9. EditsTyped
    BY DEF Style!Init, EditsTyped, StyleConstants, Style!Closed
  <1> QED
    BY <1>7, <1>8, <1>9 DEF Style!Init, EditorInv

LEMMA EditKeeps ==
  ASSUME StyleConstants, EditorInv, NEW s \in Style!StyleType, Style!SetStyle(s),
         iconPicker' \in {iconPicker, Style!Closed},
         UNCHANGED <<route, styles, serverStyle, layer, saving>>
  PROVE  EditorInv'
  <1>1. EditorTyped'
    BY DEF EditorInv, EditorTyped, Style!SetStyle
  <1>2. EditsTyped'
    BY DEF StyleConstants, EditorInv, EditsTyped, Style!SetStyle, Style!Closed
  <1>3. editor'.loaded = editor.loaded
    BY DEF EditorInv, EditorTyped, Style!SetStyle
  <1> QED
    BY <1>1, <1>2, <1>3 DEF EditorInv, StylesTyped

LEMMA RulesKeep ==
  ASSUME StyleConstants, EditorInv, NEW rs \in Seq(Style!RuleType), Len(rs) <= MaxRules,
         Style!SetRules(rs), iconPicker' \in {iconPicker, Style!Closed},
         UNCHANGED <<route, styles, serverStyle, layer, saving>>
  PROVE  EditorInv'
  <1>1. [editor.style EXCEPT !.rules = rs] \in Style!StyleType
    BY OtherRules DEF StyleConstants, EditorInv, EditorTyped
  <1> QED
    BY <1>1, EditKeeps DEF Style!SetRules

(* What is edited of the default look. *)
LEMMA DefaultKeeps ==
  ASSUME StyleConstants, EditorInv, UNCHANGED route,
         \/ Style!Reset \/ Style!TypeSvg \/ Style!ClearSvg
         \/ \E c \in Colors : Style!UpdateColor(c)
         \/ \E l \in {"none", "field", "nofield"} : Style!UpdateLabel(l)
  PROVE  EditorInv'
  <1>1. editor.style \in Style!StyleType /\ editor.loaded \in BOOLEAN
    BY DEF EditorInv, EditorTyped
  <1>2. CASE Style!Reset
    <2>1. serverStyle \in 1..Len(styles)
      BY <1>2 DEF Style!Reset, Style!Edits, EditorInv, StylesTyped
    <2>2. styles[serverStyle] \in Style!StyleType
      BY <2>1, ElementOfSeq DEF EditorInv, StylesTyped
    <2> QED
      BY <1>2, <2>2, EditKeeps DEF Style!Reset, Style!MoreUnchanged
  <1>3. CASE Style!TypeSvg
    <2>1. [[editor.style EXCEPT !.svg = TRUE] EXCEPT !.icon = "custom"] \in Style!StyleType
          /\ [editor.style EXCEPT !.icon = "custom"] \in Style!StyleType
      BY <1>1 DEF Style!StyleType, Style!Icons
    <2> QED
      BY <1>3, <2>1, EditKeeps DEF Style!TypeSvg, Style!MoreUnchanged
  <1>4. CASE Style!ClearSvg
    <2>1. [editor.style EXCEPT !.svg = FALSE] \in Style!StyleType
      BY <1>1 DEF Style!StyleType
    <2> QED
      BY <1>4, <2>1, EditKeeps DEF Style!ClearSvg, Style!MoreUnchanged
  <1>5. ASSUME NEW c \in Colors, Style!UpdateColor(c)
        PROVE  EditorInv'
    <2>1. [editor.style EXCEPT !.color = c] \in Style!StyleType
      BY <1>1 DEF Style!StyleType
    <2> QED
      BY <1>5, <2>1, EditKeeps DEF Style!UpdateColor, Style!MoreUnchanged
  <1>6. ASSUME NEW l \in {"none", "field", "nofield"}, Style!UpdateLabel(l)
        PROVE  EditorInv'
    <2>1. [editor.style EXCEPT !.label = l] \in Style!StyleType
      BY <1>1 DEF Style!StyleType
    <2> QED
      BY <1>6, <2>1, EditKeeps DEF Style!UpdateLabel, Style!MoreUnchanged
  <1> QED
    BY <1>2, <1>3, <1>4, <1>5, <1>6

(* A rule that is changed stays one. *)
LEMMA OneRuleKeeps ==
  ASSUME MaxRules \in Nat, NEW rs \in Seq(Style!RuleType), Len(rs) <= MaxRules,
         NEW i \in DOMAIN rs, NEW r \in Style!RuleType
  PROVE  [rs EXCEPT ![i] = r] \in Seq(Style!RuleType) /\ Len([rs EXCEPT ![i] = r]) <= MaxRules
  BY ExceptSeq, LenProperties

LEMMA PartOfRules ==
  ASSUME NEW rs \in Seq(Style!RuleType), NEW m \in Nat \ {0}, NEW n \in 0..Len(rs)
  PROVE  SubSeq(rs, m, n) \in Seq(Style!RuleType)
         /\ Len(SubSeq(rs, m, n)) = IF m <= n THEN n - m + 1 ELSE 0
  <1>1. \A i \in m..n : rs[i] \in Style!RuleType
    BY ElementOfSeq, LenProperties
  <1>2. m \in Int /\ n \in Int
    BY LenProperties
  <1> QED
    BY <1>1, <1>2, SubSeqProperties

LEMMA RuleRemoved ==
  ASSUME NEW rs \in Seq(Style!RuleType), NEW i \in 1..Len(rs)
  PROVE  Style!RemoveAt(rs, i) \in Seq(Style!RuleType) /\ Len(Style!RemoveAt(rs, i)) <= Len(rs)
  <1>1. Len(rs) \in Nat /\ i \in Nat /\ i - 1 \in 0..Len(rs) /\ i + 1 \in Nat \ {0}
        /\ Len(rs) \in 0..Len(rs) /\ 1 \in Nat \ {0}
    BY LenProperties
  <1>2. SubSeq(rs, 1, i - 1) \in Seq(Style!RuleType)
        /\ Len(SubSeq(rs, 1, i - 1)) = IF 1 <= i - 1 THEN i - 1 - 1 + 1 ELSE 0
    BY <1>1, PartOfRules, Zenon
  <1>3. SubSeq(rs, i + 1, Len(rs)) \in Seq(Style!RuleType)
        /\ Len(SubSeq(rs, i + 1, Len(rs))) = IF i + 1 <= Len(rs) THEN Len(rs) - (i + 1) + 1 ELSE 0
    BY <1>1, PartOfRules, Zenon
  <1>4. PICK a \in Seq(Style!RuleType) : a = SubSeq(rs, 1, i - 1)
    BY <1>2
  <1>5. PICK b \in Seq(Style!RuleType) : b = SubSeq(rs, i + 1, Len(rs))
    BY <1>3
  <1>6. Len(a) = i - 1 /\ Len(b) = Len(rs) - i
    <2>1. Len(a) = IF 1 <= i - 1 THEN i - 1 - 1 + 1 ELSE 0
      BY <1>2, <1>4, Zenon
    <2>2. Len(b) = IF i + 1 <= Len(rs) THEN Len(rs) - (i + 1) + 1 ELSE 0
      BY <1>3, <1>5, Zenon
    <2>3. PICK n \in Nat : n = Len(rs)
      BY <1>1
    <2> QED
      BY <1>1, <2>1, <2>2, <2>3
  <1>7. a \o b \in Seq(Style!RuleType) /\ Len(a \o b) = Len(a) + Len(b)
    BY ConcatProperties
  <1>8. Len(a \o b) <= Len(rs)
    BY <1>1, <1>6, <1>7
  <1> QED
    BY <1>4, <1>5, <1>7, <1>8 DEF Style!RemoveAt

LEMMA RuleStepKeeps ==
  ASSUME StyleConstants, EditorInv, UNCHANGED route,
         \/ Style!AddRule
         \/ \E i \in 1..MaxRules, w \in Style!Whens, c \in Colors \union {0} :
              Style!UpdateRule(i, w, c)
         \/ \E i \in 1..MaxRules : Style!RemoveRule(i)
         \/ \E i, j \in 1..MaxRules : Style!MoveRule(i, j)
  PROVE  EditorInv'
  <1>1. PICK rs \in Seq(Style!RuleType) : rs = Style!Rules /\ Len(rs) <= MaxRules
    BY RulesOfStyle DEF StyleConstants, EditorInv, EditorTyped, Style!Rules
  <1>2. MaxRules \in Nat /\ DOMAIN rs = 1..Len(rs) /\ Len(rs) \in Nat
    BY <1>1, LenProperties DEF StyleConstants
  <1>3. CASE Style!AddRule
    <2>1. PICK op \in Operators, v \in Cuts :
            Style!SetRules(Append(rs, [when |-> [field |-> FALSE, op |-> op, value |-> v],
                                       color |-> CHOOSE c \in Colors : TRUE, icon |-> FALSE]))
      BY <1>1, <1>3 DEF Style!AddRule
    <2>2. PICK r : r = [when |-> [field |-> FALSE, op |-> op, value |-> v],
                        color |-> CHOOSE c \in Colors : TRUE, icon |-> FALSE]
      OBVIOUS
    <2>3. [field |-> FALSE, op |-> op, value |-> v] \in Style!Whens
      BY DEF Style!Whens
    <2>4. r \in Style!RuleType
      BY <2>2, <2>3 DEF Style!RuleType, StyleConstants
    <2>5. Append(rs, r) \in Seq(Style!RuleType) /\ Len(Append(rs, r)) <= MaxRules
      BY <1>1, <1>2, <1>3, <2>4, AppendProperties DEF Style!AddRule
    <2> QED
      BY <1>3, <2>1, <2>2, <2>5, RulesKeep DEF Style!AddRule, Style!MoreUnchanged
  <1>4. ASSUME NEW i \in 1..MaxRules, NEW w \in Style!Whens, NEW c \in Colors \union {0},
               Style!UpdateRule(i, w, c)
        PROVE  EditorInv'
    <2>1. i \in DOMAIN rs /\ rs[i] \in Style!RuleType
      BY <1>1, <1>2, <1>4, ElementOfSeq DEF Style!UpdateRule
    <2>2. PICK r : r = [rs[i] EXCEPT !.when = w, !.color = c]
      OBVIOUS
    <2>3. r \in Style!RuleType
      BY <2>1, <2>2 DEF Style!RuleType
    <2>4. [rs EXCEPT ![i].when = w, ![i].color = c] = [rs EXCEPT ![i] = r]
      BY <1>2, <2>1, <2>2
    <2> QED
      BY <1>1, <1>2, <1>4, <2>1, <2>3, <2>4, OneRuleKeeps, RulesKeep
      DEF Style!UpdateRule, Style!MoreUnchanged
  <1>5. ASSUME NEW i \in 1..MaxRules, Style!RemoveRule(i)
        PROVE  EditorInv'
    <2>1. i \in 1..Len(rs)
      BY <1>1, <1>2, <1>5 DEF Style!RemoveRule
    <2>2. Style!RemoveAt(rs, i) \in Seq(Style!RuleType) /\ Len(Style!RemoveAt(rs, i)) <= MaxRules
      BY <1>1, <1>2, <2>1, RuleRemoved
    <2>3. Style!SetRules(Style!RemoveAt(rs, i))
      BY <1>1, <1>5 DEF Style!RemoveRule
    <2> QED
      BY <1>5, <2>2, <2>3, RulesKeep DEF Style!RemoveRule, Style!MoreUnchanged
  <1>6. ASSUME NEW i \in 1..MaxRules, NEW j \in 1..MaxRules, Style!MoveRule(i, j)
        PROVE  EditorInv'
    <2>1. i \in DOMAIN rs /\ j \in DOMAIN rs
          /\ rs[i] \in Style!RuleType /\ rs[j] \in Style!RuleType
      BY <1>1, <1>2, <1>6, ElementOfSeq DEF Style!MoveRule
    <2>2. PICK once \in Seq(Style!RuleType) :
            once = [rs EXCEPT ![i] = rs[j]] /\ Len(once) <= MaxRules /\ j \in DOMAIN once
      BY <1>1, <1>2, <2>1, OneRuleKeeps, LenProperties
    <2>3. [once EXCEPT ![j] = rs[i]] \in Seq(Style!RuleType)
          /\ Len([once EXCEPT ![j] = rs[i]]) <= MaxRules
      BY <1>2, <2>1, <2>2, OneRuleKeeps
    <2>4. Style!SetRules([once EXCEPT ![j] = rs[i]])
      BY <1>1, <1>6, <2>2 DEF Style!MoveRule
    <2> QED
      BY <1>6, <2>3, <2>4, RulesKeep DEF Style!MoveRule, Style!MoreUnchanged
  <1> QED
    BY <1>3, <1>4, <1>5, <1>6

LEMMA PickerStepKeeps ==
  ASSUME StyleConstants, EditorInv, UNCHANGED route, Style!PickerStep
  PROVE  EditorInv'
  <1>1. ASSUME UNCHANGED <<editor, edits>>, iconPicker' \in 0..Style!Closed, Style!OtherUnchanged
        PROVE  EditorInv'
    BY <1>1 DEF EditorInv, EditorTyped, EditsTyped, StylesTyped, Style!OtherUnchanged, Style!Closed
  <1>2. MaxRules \in Nat
    BY DEF StyleConstants
  <1>3. ASSUME NEW i \in 0..MaxRules, Style!OpenPicker(i)
        PROVE  EditorInv'
    BY <1>1, <1>2, <1>3 DEF Style!OpenPicker, Style!Closed
  <1>4. CASE Style!ClosePicker
    BY <1>1, <1>2, <1>4 DEF Style!ClosePicker, Style!Closed
  <1>5. ASSUME NEW i \in {"geo", "lucide", "custom"}, NEW svg \in BOOLEAN,
               Style!Picked(i, svg), Style!OtherUnchanged
        PROVE  EditorInv'
    <2>1. CASE iconPicker = 0
      <3>1. PICK now \in BOOLEAN :
              now = IF svg THEN TRUE ELSE IF i = "geo" THEN FALSE ELSE editor.style.svg
        BY DEF EditorInv, EditorTyped, Style!StyleType
      <3>2. PICK s : s = [editor.style EXCEPT !.icon = i, !.svg = now]
        OBVIOUS
      <3>3. s \in Style!StyleType
        BY <3>2 DEF EditorInv, EditorTyped, Style!StyleType, Style!Icons
      <3>4. Style!SetStyle(s) /\ iconPicker' = Style!Closed
        BY <1>5, <2>1, <3>1, <3>2 DEF Style!Picked
      <3> QED
        BY <1>5, <3>3, <3>4, EditKeeps DEF Style!OtherUnchanged
    <2>2. CASE iconPicker # 0 /\ iconPicker \in DOMAIN Style!Rules
      <3>1. PICK rs \in Seq(Style!RuleType) : rs = Style!Rules /\ Len(rs) <= MaxRules
        BY RulesOfStyle DEF StyleConstants, EditorInv, EditorTyped, Style!Rules
      <3>2. rs[iconPicker] \in Style!RuleType /\ DOMAIN rs = 1..Len(rs)
        BY <2>2, <3>1, ElementOfSeq, LenProperties
      <3>3. PICK r : r = [rs[iconPicker] EXCEPT !.icon = TRUE]
        OBVIOUS
      <3>4. r \in Style!RuleType
        BY <3>2, <3>3 DEF Style!RuleType
      <3>5. [rs EXCEPT ![iconPicker].icon = TRUE] = [rs EXCEPT ![iconPicker] = r]
        BY <2>2, <3>1, <3>2, <3>3
      <3>6. Style!SetRules([rs EXCEPT ![iconPicker] = r]) /\ iconPicker' = Style!Closed
        BY <1>5, <2>2, <3>1, <3>5 DEF Style!Picked
      <3> QED
        BY <1>2, <1>5, <2>2, <3>1, <3>4, <3>6, OneRuleKeeps, RulesKeep DEF Style!OtherUnchanged
    <2>3. CASE iconPicker # 0 /\ iconPicker \notin DOMAIN Style!Rules
      BY <1>1, <1>5, <2>3 DEF Style!Picked, EditorInv, EditsTyped
    <2> QED
      BY <2>1, <2>2, <2>3
  <1>6. ASSUME NEW i \in {"geo", "lucide", "custom"}, Style!HandleIconSelected(i)
        PROVE  EditorInv'
    BY <1>5, <1>6 DEF Style!HandleIconSelected
  <1>7. CASE Style!HandleSvgSelected
    BY <1>5, <1>7 DEF Style!HandleSvgSelected
  <1> QED
    BY <1>3, <1>4, <1>6, <1>7 DEF Style!PickerStep

LEMMA EditorStep ==
  ASSUME StyleConstants, EditorInv, [Style!Next]_Style!vars
  PROVE  EditorInv'
  <1> USE DEF EditorInv, EditorTyped, StylesTyped, EditsTyped
  <1>1. CASE UNCHANGED Style!vars
    BY <1>1 DEF Style!vars, Style!styleVars, Style!Closed
  <1>2. CASE Style!StyleReturns /\ UNCHANGED route
    <2>1. styles[Len(styles)] \in Style!StyleType /\ Len(styles) \in Nat
      BY ElementOfSeq, LenProperties
    <2>2. editor' = [editor EXCEPT !.style = styles[Len(styles)], !.loaded = TRUE]
      BY <1>2 DEF Style!StyleReturns
    <2>3. EditorTyped'
      BY <2>1, <2>2
    <2>4. StylesTyped' /\ EditsTyped' /\ serverStyle' >= 1
      BY <1>2, <2>1 DEF Style!StyleReturns, Style!Closed
    <2> QED
      BY <1>2, <2>3, <2>4
  <1>3. CASE Style!LayerReturns /\ UNCHANGED route
    BY <1>3 DEF Style!LayerReturns, Style!Closed
  <1>4. CASE Style!EditStep /\ UNCHANGED route
    BY <1>4, DefaultKeeps, RuleStepKeeps DEF Style!EditStep
  <1>5. CASE Style!PickerStep /\ UNCHANGED route
    BY <1>5, PickerStepKeeps
  <1>6. CASE (Style!Save \/ Style!SaveFails) /\ UNCHANGED route
    BY <1>6 DEF Style!Save, Style!SaveFails, Style!Closed
  <1>7. ASSUME NEW s \in saving, Style!SaveReturns(s), UNCHANGED route
        PROVE  EditorInv'
    <2>1. s \in Style!StyleType /\ Len(styles) \in Nat
      BY LenProperties
    <2>2. styles' \in Seq(Style!StyleType) /\ Len(styles') >= Len(styles)
      BY <1>7, <2>1, AppendProperties DEF Style!SaveReturns
    <2>3. StylesTyped'
      BY <1>7, <2>1, <2>2, LenProperties DEF Style!SaveReturns
    <2> QED
      BY <1>7, <2>3 DEF Style!SaveReturns, Style!Closed
  <1> QED
    BY <1>1, <1>2, <1>3, <1>4, <1>5, <1>6, <1>7 DEF Style!Next, Style!Here
==============================================================================
