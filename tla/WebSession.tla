------------------------------- MODULE WebSession -------------------------------
(***************************************************************************)
(* The signed-in session of the field collector's web console.             *)
(*                                                                         *)
(*   apps/fc-web/src/lib/api.ts (tokens, request, tryRefresh), lib/auth.tsx *)
(*   (AuthProvider, ProtectedRoute), hooks/useTokenRefresh.ts,             *)
(*   pages/LoginPage.tsx, pages/AuthCallback.tsx, App.tsx                  *)
(*                                                                         *)
(* The tabs of a browser share its local storage.  GoTrue answers a sign   *)
(* in or a refresh with a grant, an access and a refresh token; grants are *)
(* numbered and a token is known by the number of its grant.  A refresh    *)
(* token is good for one refresh.  What a handler does between two awaits  *)
(* is one step.                                                            *)
(***************************************************************************)
EXTENDS Naturals

CONSTANTS
  Routes,
  Tabs,
  MaxGrants      \* bound: grants given

VARIABLES
  route,
  held,          \* local storage
  tabs,          \* state of a tab: its page and what it awaits
  grants,        \* grants given so far
  alive,         \* grants whose access token has not expired
  unused,        \* grants whose refresh token is still accepted
  signedOut      \* nobody signed in since the session was last cleared

sessionVars == <<held, tabs, grants, alive, unused, signedOut>>
vars == <<route, sessionVars>>

Nothing == [access |-> 0, refresh |-> 0, user |-> FALSE]
NoRequest == [stage |-> "idle", token |-> 0]
TabOn(page) ==
  [page |-> page, user |-> page = "app", request |-> NoRequest, check |-> 0, awaits |-> "none"]

Init ==
  /\ route \in Routes
  /\ held = Nothing /\ signedOut = TRUE
  /\ tabs = [t \in Tabs |-> TabOn("login")]
  /\ grants = 0 /\ alive = {} /\ unused = {}

-----------------------------------------------------------------------------
(* A new grant of GoTrue; one that comes of a refresh spends its token. *)
Grant(spent) ==
  /\ grants < MaxGrants /\ grants' = grants + 1
  /\ alive' = alive \union {grants + 1}
  /\ unused' = (unused \ spent) \union {grants + 1}
Keep(user) == held' = [access |-> grants + 1, refresh |-> grants + 1, user |-> user]

(* clearToken *)
ClearToken_KeepsUser == held' = [Nothing EXCEPT !.user = held.user] /\ signedOut' = TRUE
ClearToken == held' = Nothing /\ signedOut' = TRUE

ServerUnchanged == UNCHANGED <<grants, alive, unused>>

-----------------------------------------------------------------------------
(* Signing in and out. *)

(* hydrate of AuthProvider: both items, or nobody; ProtectedRoute then     *)
(* shows the page or goes to the login.                                    *)
Hydrated == held.user /\ held.access # 0
Home == TabOn(IF Hydrated THEN "app" ELSE "login")

(* A tab is opened or loaded anew; what it awaited is lost. *)
LoadPage(t) ==
  /\ tabs' = [tabs EXCEPT ![t] = Home]
  /\ UNCHANGED <<held, signedOut>> /\ ServerUnchanged

SubmitLogin(t) ==
  /\ tabs[t].page = "login" /\ tabs[t].awaits = "none"
  /\ tabs' = [tabs EXCEPT ![t].awaits = "login"]
  /\ UNCHANGED <<held, signedOut>> /\ ServerUnchanged

LoginReturns(t) ==
  /\ tabs[t].awaits = "login"
  /\ Grant({}) /\ Keep(TRUE) /\ signedOut' = FALSE
  /\ tabs' = [tabs EXCEPT ![t] = [TabOn("app") EXCEPT !.check = tabs[t].check]]

LoginFails(t) ==
  /\ tabs[t].awaits = "login"
  /\ tabs' = [tabs EXCEPT ![t].awaits = "none"]
  /\ UNCHANGED <<held, signedOut>> /\ ServerUnchanged

(* /auth/callback with the tokens of a grant: stored, then the user is     *)
(* asked for.                                                              *)
LoadCallback(t) ==
  /\ Grant({}) /\ Keep(held.user)
  /\ tabs' = [tabs EXCEPT ![t] = [TabOn("callback") EXCEPT !.awaits = "user"]]
  /\ UNCHANGED signedOut

CallbackReturns(t) ==
  /\ tabs[t].awaits = "user"
  /\ held' = [held EXCEPT !.user = TRUE] /\ signedOut' = FALSE
  /\ tabs' = [tabs EXCEPT ![t] = [TabOn(IF held.access # 0 THEN "app" ELSE "login")
                                    EXCEPT !.check = tabs[t].check]]
  /\ ServerUnchanged

(* The user is not told (null), or the request fails and the login shows   *)
(* the error. *)
CallbackFails(t) ==
  /\ tabs[t].awaits = "user"
  /\ \E next \in {Home, TabOn("login")} :
       tabs' = [tabs EXCEPT ![t] = [next EXCEPT !.check = tabs[t].check]]
  /\ UNCHANGED <<held, signedOut>> /\ ServerUnchanged

Logout(t) ==
  /\ tabs[t].page = "app"
  /\ ClearToken
  /\ tabs' = [tabs EXCEPT ![t].page = "login", ![t].user = FALSE]
  /\ ServerUnchanged

-----------------------------------------------------------------------------
(* A request, its refresh and its retry. *)

Send(t) ==
  /\ tabs[t].page = "app" /\ tabs[t].request = NoRequest
  /\ tabs' = [tabs EXCEPT ![t].request = [stage |-> "sent", token |-> held.access]]
  /\ UNCHANGED <<held, signedOut>> /\ ServerUnchanged

Answered(t) ==
  /\ \/ tabs[t].request.stage = "sent" /\ tabs[t].request.token \in alive
     \/ tabs[t].request.stage = "retried"
  /\ tabs' = [tabs EXCEPT ![t].request = NoRequest]
  /\ UNCHANGED <<held, signedOut>> /\ ServerUnchanged

(* The session is over.  The toast that announces it is not imported: the  *)
(* ReferenceError is what the caller gets, and the page does not change.   *)
SessionOver(t) ==
  /\ ClearToken /\ ServerUnchanged
  /\ tabs' = [tabs EXCEPT ![t].request = NoRequest]

Refused(t) ==
  /\ tabs[t].request.stage = "sent" /\ tabs[t].request.token \notin alive
  /\ IF held.refresh = 0 THEN SessionOver(t)
     ELSE /\ tabs' = [tabs EXCEPT ![t].request = [stage |-> "refreshing",
                                                  token |-> held.refresh]]
          /\ UNCHANGED <<held, signedOut>> /\ ServerUnchanged

RefreshReturns(t) ==
  /\ tabs[t].request.stage = "refreshing" /\ tabs[t].request.token \in unused
  /\ Grant({tabs[t].request.token}) /\ Keep(held.user)
  /\ tabs' = [tabs EXCEPT ![t].request = [stage |-> "retried", token |-> grants + 1]]
  /\ UNCHANGED signedOut

(* Refused, or the connection failed. *)
RefreshFails(t) == tabs[t].request.stage = "refreshing" /\ SessionOver(t)

-----------------------------------------------------------------------------
(* useTokenRefresh: while the token is about to expire, once a minute. *)

Check(t) ==
  /\ tabs[t].check = 0 /\ held.access \in alive
  /\ tabs' = [tabs EXCEPT ![t].check = held.refresh]
  /\ UNCHANGED <<held, signedOut>> /\ ServerUnchanged

CheckReturns(t) ==
  /\ tabs[t].check \in unused
  /\ Grant({tabs[t].check}) /\ Keep(held.user)
  /\ tabs' = [tabs EXCEPT ![t].check = 0]
  /\ UNCHANGED signedOut

CheckFails(t) ==
  /\ tabs[t].check # 0
  /\ tabs' = [tabs EXCEPT ![t].check = 0]
  /\ UNCHANGED <<held, signedOut>> /\ ServerUnchanged

Expire(n) ==
  /\ alive' = alive \ {n} /\ n \in alive
  /\ UNCHANGED <<held, tabs, grants, unused, signedOut>>

-----------------------------------------------------------------------------
(* The tab shows this page, and goes on showing it. *)
Here == route = "session" /\ UNCHANGED route

Next ==
  /\ Here
  /\ \/ \E t \in Tabs :
          \/ LoadPage(t) \/ SubmitLogin(t) \/ LoginReturns(t) \/ LoginFails(t)
          \/ LoadCallback(t) \/ CallbackReturns(t) \/ CallbackFails(t) \/ Logout(t)
          \/ Send(t) \/ Answered(t) \/ Refused(t) \/ RefreshReturns(t) \/ RefreshFails(t)
          \/ Check(t) \/ CheckReturns(t) \/ CheckFails(t)
     \/ \E n \in alive : Expire(n)

Spec == Init /\ [][Next]_vars

-----------------------------------------------------------------------------
TypeOK ==
  /\ route \in Routes
  /\ grants \in 0..MaxGrants /\ alive \subseteq 1..grants /\ unused \subseteq 1..grants
  /\ held \in [access : 0..grants, refresh : 0..grants, user : BOOLEAN]
  /\ tabs \in [Tabs -> [page : {"login", "callback", "app"}, user : BOOLEAN,
                        request : [stage : {"idle", "sent", "refreshing", "retried"},
                                   token : 0..grants],
                        check : 0..grants, awaits : {"none", "login", "user"}]]
  /\ signedOut \in BOOLEAN

(* A session that was cleared does not come back by itself: no answer to a *)
(* refresh or to another tab's sign in that was under way makes a page     *)
(* that is loaded later start signed in (clearToken and tryRefresh of      *)
(* api.ts, hydrate of auth.tsx).                                           *)
SignedOutStaysOut == signedOut => ~Hydrated
=============================================================================
