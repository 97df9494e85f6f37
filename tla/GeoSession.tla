------------------------------- MODULE GeoSession -------------------------------
(***************************************************************************)
(* The signed-in session of the geo portal (apps/geo-web).                 *)
(*                                                                         *)
(*   lib/api.ts (tokens, api, refreshAccessToken, bootRefresh,             *)
(*   downloadFile), features/auth/hooks.ts, LoginScreen.tsx,               *)
(*   AuthCallback.tsx, App.tsx (AuthGate)                                  *)
(*                                                                         *)
(* One tab; several calls are out at a time and share one refresh.  Grants *)
(* and tokens as in WebSession.  A call is a query or a download; a        *)
(* download that is refused asks bootRefresh, which gives back the token   *)
(* that is stored.  An answer may be lost after the server spent the       *)
(* token.                                                                  *)
(***************************************************************************)
EXTENDS Naturals, FiniteSets

CONSTANTS
  Routes,
  Calls,         \* calls the page may have out
  MaxIssued      \* bound: grants given

VARIABLES
  route,
  kept,          \* the tokens in local storage
  auth,          \* status of the auth store
  gate,          \* sign-in that is under way: of AuthGate, AuthCallback or LoginScreen
  calls,         \* stage and token of each call
  refreshes,     \* refreshes that are out: the call that began one, and its token
  issued,        \* grants given so far
  fresh,         \* grants whose access token has not expired
  spendable,     \* grants whose refresh token is still accepted
  exchanged      \* refresh tokens whose exchange was answered to the page

geoSessionVars == <<kept, auth, gate, calls, refreshes, issued, fresh, spendable, exchanged>>
vars == <<route, geoSessionVars>>

NoTokens == [access |-> 0, refresh |-> 0]
Idle == [stage |-> "idle", kind |-> "query", token |-> 0]

Init ==
  /\ route \in Routes
  /\ kept = NoTokens /\ auth = "loading" /\ gate = "none"
  /\ calls = [c \in Calls |-> Idle] /\ refreshes = {}
  /\ issued = 0 /\ fresh = {} /\ spendable = {} /\ exchanged = {}

IssuerUnchanged == UNCHANGED <<issued, fresh, spendable, exchanged>>
Issue(spent) ==
  /\ issued < MaxIssued /\ issued' = issued + 1
  /\ fresh' = fresh \union {issued + 1}
  /\ spendable' = (spendable \ spent) \union {issued + 1}
  /\ kept' = [access |-> issued + 1, refresh |-> issued + 1]

-----------------------------------------------------------------------------
(* Signing in: bootstrapAuth, the form, or the identity provider.  Each    *)
(* ends with a call of /auth/me, which is made with the stored token.      *)

Boot ==
  /\ auth = "loading" /\ gate = "none"
  /\ IF kept.access # 0
     THEN gate' = "me" /\ UNCHANGED auth
     ELSE auth' = "anonymous" /\ UNCHANGED gate
  /\ UNCHANGED <<kept, calls, refreshes>> /\ IssuerUnchanged

Login ==
  /\ auth = "anonymous" /\ gate = "none"
  /\ Issue({}) /\ gate' = "me"
  /\ UNCHANGED <<auth, calls, refreshes, exchanged>>

Callback ==
  /\ auth = "loading" /\ gate = "none"
  /\ Issue({}) /\ gate' = "callback"
  /\ UNCHANGED <<auth, calls, refreshes, exchanged>>

ProfileReturns ==
  /\ gate # "none" /\ gate' = "none"
  /\ auth' = "authenticated"
  /\ UNCHANGED <<kept, calls, refreshes>> /\ IssuerUnchanged

(* 403, an account that awaits approval, clears the tokens; any other      *)
(* error does so only in the callback.                                     *)
ProfileFails(forbidden) ==
  /\ gate # "none" /\ gate' = "none"
  /\ auth' = "anonymous"
  /\ kept' = IF forbidden \/ gate = "callback" THEN NoTokens ELSE kept
  /\ UNCHANGED <<calls, refreshes>> /\ IssuerUnchanged

Logout ==
  /\ auth = "authenticated"
  /\ kept' = NoTokens /\ auth' = "anonymous"
  /\ UNCHANGED <<gate, calls, refreshes>> /\ IssuerUnchanged

Reload ==
  /\ auth' = "loading" /\ gate' = "none"
  /\ calls' = [c \in Calls |-> Idle] /\ refreshes' = {}
  /\ UNCHANGED kept /\ IssuerUnchanged

-----------------------------------------------------------------------------
(* Calls. *)

SendCall(c, kind) ==
  /\ auth = "authenticated" /\ calls[c].stage = "idle"
  /\ calls' = [calls EXCEPT ![c] = [stage |-> "sent", kind |-> kind, token |-> kept.access]]
  /\ UNCHANGED <<kept, auth, gate, refreshes>> /\ IssuerUnchanged

CallReturns(c) ==
  /\ \/ calls[c].stage = "sent" /\ calls[c].token \in fresh
     \/ calls[c].stage = "retried"
  /\ calls' = [calls EXCEPT ![c] = Idle]
  /\ UNCHANGED <<kept, auth, gate, refreshes>> /\ IssuerUnchanged

(* refreshAccessToken: one refresh is out at a time, and every call that   *)
(* was refused meanwhile waits for it.                                     *)
StartsRefresh_Each(c) == refreshes' = refreshes \union {[by |-> c, token |-> kept.refresh]}
StartsRefresh(c) ==
  refreshes' = IF refreshes # {} THEN refreshes
               ELSE {[by |-> c, token |-> kept.refresh]}

CallRefused(c) ==
  /\ calls[c].stage = "sent" /\ calls[c].token \notin fresh
  /\ IF calls[c].kind = "download" /\ kept.access # 0
     THEN /\ calls' = [calls EXCEPT ![c].stage = "retried", ![c].token = kept.access]
          /\ UNCHANGED refreshes
     ELSE IF kept.refresh = 0 /\ refreshes = {}
     THEN calls' = [calls EXCEPT ![c] = Idle] /\ UNCHANGED refreshes
     ELSE calls' = [calls EXCEPT ![c].stage = "waiting"] /\ StartsRefresh(c)
  /\ UNCHANGED <<kept, auth, gate>> /\ IssuerUnchanged

Waiters_Retried(token) ==
  [c \in Calls |-> IF calls[c].stage # "waiting" \/ token = 0 THEN calls[c]
                   ELSE [calls[c] EXCEPT !.stage = "retried", !.token = token]]
Waiters(token) ==
  [c \in Calls |-> IF calls[c].stage # "waiting" THEN calls[c]
                   ELSE IF token = 0 THEN Idle
                   ELSE [calls[c] EXCEPT !.stage = "retried", !.token = token]]

RefreshReturns(r) ==
  /\ r \in refreshes /\ r.token \in spendable
  /\ Issue({r.token}) /\ exchanged' = exchanged \union {r.token}
  /\ refreshes' = refreshes \ {r} /\ calls' = Waiters(issued + 1)
  /\ UNCHANGED <<auth, gate>>

RefreshRefused(r) ==
  /\ r \in refreshes
  /\ kept' = NoTokens
  /\ refreshes' = refreshes \ {r} /\ calls' = Waiters(0)
  /\ UNCHANGED <<auth, gate>> /\ IssuerUnchanged

(* The connection fails: the tokens are kept, spent or not. *)
RefreshLost(r) ==
  /\ r \in refreshes
  /\ \E spent \in {{}, {r.token}} : spendable' = spendable \ spent
  /\ refreshes' = refreshes \ {r} /\ calls' = Waiters(0)
  /\ UNCHANGED <<kept, auth, gate, issued, fresh, exchanged>>

Lapse(n) ==
  /\ n \in fresh /\ fresh' = fresh \ {n}
  /\ UNCHANGED <<kept, auth, gate, calls, refreshes, issued, spendable, exchanged>>

-----------------------------------------------------------------------------
(* The tab shows this page, and goes on showing it. *)
Here == route = "geo" /\ UNCHANGED route

Next ==
  /\ Here
  /\ \/ Boot \/ Login \/ Callback \/ ProfileReturns \/ Logout \/ Reload
     \/ \E forbidden \in BOOLEAN : ProfileFails(forbidden)
     \/ \E c \in Calls : \E kind \in {"query", "download"} : SendCall(c, kind)
     \/ \E c \in Calls : CallReturns(c) \/ CallRefused(c)
     \/ \E r \in refreshes : RefreshReturns(r) \/ RefreshRefused(r) \/ RefreshLost(r)
     \/ \E n \in fresh : Lapse(n)

(* What is out is answered, or fails. *)
Fairness ==
  /\ \A c \in Calls : WF_vars(Here /\ (CallReturns(c) \/ CallRefused(c)))
  /\ WF_vars(Here /\ \E r \in refreshes :
                  RefreshReturns(r) \/ RefreshRefused(r) \/ RefreshLost(r))

Spec == Init /\ [][Next]_vars /\ Fairness

-----------------------------------------------------------------------------
TypeOK ==
  /\ route \in Routes
  /\ issued \in 0..MaxIssued /\ {fresh, spendable, exchanged} \subseteq SUBSET (1..issued)
  /\ kept \in [access : 0..issued, refresh : 0..issued]
  /\ auth \in {"loading", "anonymous", "authenticated"}
  /\ gate \in {"none", "me", "callback"}
  /\ calls \in [Calls -> [stage : {"idle", "sent", "waiting", "retried"},
                          kind : {"query", "download"}, token : 0..issued]]
  /\ refreshes \subseteq [by : Calls, token : 0..issued]

(* The page never presents a refresh token again once it has the answer to *)
(* its exchange, however many calls are refused at the same time: the      *)
(* server would refuse it, and clear the session that was just renewed     *)
(* (refreshInFlight of api.ts).                                            *)
NoSecondExchange == \A r \in refreshes : r.token \notin exchanged

(* A call that waits for a refresh ends, with the shared refresh or        *)
(* without a session (api and refreshAccessToken of api.ts).               *)
CallsEnd == \A c \in Calls : calls[c].stage = "waiting" ~> calls[c].stage = "idle"
=============================================================================
