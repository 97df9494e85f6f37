------------------------------- MODULE AdminConsole -------------------------------
(***************************************************************************)
(* The administration of the enterprise map: accounts, rights of layers    *)
(* and the history of sign-ins.                                            *)
(*                                                                         *)
(*   apps/geo-web/src/features/admin/AdminModal.tsx, store.ts, hooks.ts,   *)
(*   tabs/UsersTab.tsx, LayersTab.tsx, AuditTab.tsx; features/users/       *)
(*   hooks.ts; the server's side is UpdateUser and ApproveUser of          *)
(*   internal/auth/service.go and UpdatePermissions of internal/layers     *)
(*                                                                         *)
(* Lists are kept under the key they were asked with.  A change makes      *)
(* every list of its kind out of date: the one that is watched is fetched  *)
(* again, the others when they are watched next.  A fetch that is out is   *)
(* dropped for the new one only if its key has a list already; any other   *)
(* is let go on, and what it was answered may be behind the change.        *)
(* The write and its answer are one step; an answer may get lost.          *)
(***************************************************************************)
EXTENDS Naturals, FiniteSets

CONSTANTS
  Routes,
  Accounts, Me,   \* accounts, and the one that is signed in
  Roles,          \* roles, "superuser" and "viewer" among them
  Totals,         \* Totals[t]: sign-ins that match the text t
  AuditLimit,     \* sign-ins on a page
  MaxSaves,       \* bound: changes of accounts
  MaxToggles      \* bound: changes of rights

VARIABLES
  route,
  modal,          \* open or not, and its tab
  accounts,       \* the server's accounts
  rights,         \* the server's rights to one layer
  filter,         \* status the accounts are filtered by
  lists,          \* the lists by their keys
  userRows,       \* the row of an account: mounted, being edited, its role
  layerShown,     \* whether the layer matches what is searched for
  saves,          \* changes that are out
  saved,          \* changes that were made
  audit           \* search, page and whether it is there

adminVars == <<modal, accounts, rights, filter, lists, userRows, layerShown, saves, saved,
               audit>>
vars == <<route, adminVars>>

Filters == {"all", "active"}
Keys == Filters \union {"layers"}
NoRow == [here |-> FALSE, editing |-> FALSE, role |-> "unset"]
FirstPage == [text |-> "", page |-> 1, there |-> FALSE]

(* The tabs have no list, no change and no state in common, so each is     *)
(* looked at by itself, with another one to go to.                         *)
TabsOf(page) ==
  CASE page = "accounts" -> {"users", "layers"} [] page = "rights" -> {"layers", "audit"}
    [] page = "history" -> {"audit", "users"} [] OTHER -> {"users"}

Init ==
  /\ route \in Routes
  /\ \E t \in TabsOf(route) : modal = [open |-> FALSE, tab |-> t]
  /\ accounts \in [Accounts -> [role : {"superuser", "viewer"}, active : {TRUE},
                                pending : BOOLEAN]]
  /\ \A u \in Accounts : IF u = Me THEN accounts[u].role = "superuser" /\ ~accounts[u].pending
                                    ELSE accounts[u].role = "viewer"
  /\ rights = [view |-> Roles, export |-> Roles]    \* every role, when nothing is set
  /\ filter = "all" /\ layerShown = TRUE /\ saves = {} /\ saved = 0 /\ audit = FirstPage
  /\ lists = [k \in Keys |-> [has |-> k = "layers", fresh |-> k = "layers", stage |-> "none",
                              erred |-> FALSE, behind |-> FALSE,
                              data |-> IF k = "layers" THEN rights ELSE accounts,
                              answer |-> IF k = "layers" THEN rights ELSE accounts]]
  /\ userRows = [u \in Accounts |-> NoRow]

-----------------------------------------------------------------------------
(* What is on the screen. *)

UsersShown == modal.open /\ modal.tab = "users"
UsersOf(f, data) == {u \in Accounts : f = "active" => data[u].active}
Table ==
  IF UsersShown /\ lists[filter].has /\ ~lists[filter].erred
    THEN UsersOf(filter, lists[filter].data) ELSE {}
User(u) == lists[filter].data[u]
LayerRow == modal.open /\ modal.tab = "layers" /\ ~lists["layers"].erred /\ layerShown

(* A change whose row goes is no longer pending for the row that comes. *)
RowOf(s) == IF s.hook = "layers" THEN LayerRow ELSE s.account \in Table
SavesFollow == saves' = {[s EXCEPT !.here = @ /\ RowOf(s)'] : s \in saves}

(* A row keeps the role it was mounted with, whatever the list says later. *)
RowsFollow_Kept ==
  userRows' = [u \in Accounts |->
             IF u \notin Table' \/ u \in Table THEN userRows[u]
             ELSE [here |-> TRUE, editing |-> FALSE, role |-> User(u)'.role]]
RowsFollow ==
  userRows' = [u \in Accounts |->
             IF u \notin Table' THEN NoRow
             ELSE IF u \in Table THEN userRows[u]
             ELSE [here |-> TRUE, editing |-> FALSE, role |-> User(u)'.role]]

-----------------------------------------------------------------------------
(* Lists.  The list of the layers is also that of the map behind. *)

Stored(k) == IF k = "layers" THEN rights ELSE accounts
Watched(k) == k = "layers" \/ (modal.open /\ modal.tab = "users" /\ filter = k)
IsOut(k) == lists[k].stage \in {"asked", "served"}

(* A key that is watched from now on: what is fresh need not be fetched,   *)
(* unless it is older than the stale time.                                 *)
Watch(k) ==
  \/ /\ ~IsOut(k) /\ lists' = [lists EXCEPT ![k].stage = "asked"]
  \/ /\ IsOut(k) \/ (lists[k].has /\ lists[k].fresh)
     /\ UNCHANGED lists

(* invalidateQueries: by the first part of the key. *)
Stale(k) ==
  IF Watched(k) /\ (lists[k].has \/ ~IsOut(k))
    THEN [lists[k] EXCEPT !.fresh = FALSE, !.stage = "asked", !.answer = lists[k].data]
    ELSE [lists[k] EXCEPT !.fresh = FALSE, !.behind = @ \/ lists[k].stage = "served"]
InvalidatedKeys_Shown(kind) == IF kind = "layers" THEN {"layers"} ELSE {filter}
InvalidatedKeys(kind) == IF kind = "layers" THEN {"layers"} ELSE Filters
Invalidate(kind) ==
  lists' = [k \in Keys |-> IF k \in InvalidatedKeys(kind) THEN Stale(k) ELSE lists[k]]
(* A change nobody hears of. *)
Unheard(kind) ==
  lists' = [k \in Keys |-> IF k \in InvalidatedKeys(kind) THEN [lists[k] EXCEPT !.behind = TRUE]
                           ELSE lists[k]]

ListServed(k) ==
  /\ lists[k].stage = "asked"
  /\ lists' = [lists EXCEPT ![k].stage = "served", ![k].answer = Stored(k), ![k].behind = FALSE]
  /\ UNCHANGED <<modal, accounts, rights, filter, layerShown, saves, saved, audit>>

ListReturns(k) ==
  /\ lists[k].stage = "served"
  /\ lists' = [lists EXCEPT ![k].stage = "none", ![k].has = TRUE, ![k].fresh = TRUE,
                            ![k].erred = FALSE, ![k].data = lists[k].answer]
  /\ UNCHANGED <<modal, accounts, rights, filter, layerShown, saved, audit>>
  /\ SavesFollow

(* A list that could not be fetched is not shown until it can. *)
ListFails(k) ==
  /\ IsOut(k)
  /\ lists' = [lists EXCEPT ![k].stage = "none", ![k].erred = TRUE,
                            ![k].answer = lists[k].data]
  /\ UNCHANGED <<modal, accounts, rights, filter, layerShown, saved, audit>>
  /\ SavesFollow

-----------------------------------------------------------------------------
(* The dialog.  Its tabs are components that come and go. *)

GoTo(open, tab) ==
  /\ modal' = [open |-> open, tab |-> tab]
  /\ filter' = "all" /\ layerShown' = TRUE /\ audit' = FirstPage
  /\ IF open /\ tab = "users" /\ ~UsersShown THEN Watch("all") ELSE UNCHANGED lists
  /\ UNCHANGED <<accounts, rights, saved>>
  /\ SavesFollow

OpenModal  == ~modal.open /\ GoTo(TRUE, modal.tab)
CloseModal == modal.open /\ GoTo(FALSE, modal.tab)
SetTab(t)  == modal.open /\ t # modal.tab /\ GoTo(TRUE, t)

-----------------------------------------------------------------------------
(* Accounts. *)

SetFilter(f) ==
  /\ UsersShown /\ f # filter
  /\ filter' = f /\ Watch(f)
  /\ UNCHANGED <<modal, accounts, rights, layerShown, saved, audit>>
  /\ SavesFollow

EditRow(u, editing, role) ==
  /\ userRows' = [userRows EXCEPT ![u].editing = editing, ![u].role = role]
  /\ UNCHANGED <<modal, accounts, rights, filter, lists, layerShown, saves, saved, audit>>

(* Change role, the select, and Cancel. *)
StartEdit(u)   == u # Me /\ u \in Table /\ ~User(u).pending /\ ~userRows[u].editing
                  /\ EditRow(u, TRUE, userRows[u].role)
PickRole(u, r) == u \in Table /\ userRows[u].editing /\ EditRow(u, TRUE, r)
CancelEdit(u)  == u \in Table /\ ~User(u).pending /\ userRows[u].editing
                  /\ EditRow(u, FALSE, User(u).role)

IsPending(hook, id) == \E s \in saves : s.hook = hook /\ s.account = id /\ s.here
Send(hook, id, patch) ==
  /\ ~IsPending(hook, id) /\ saved < (IF hook = "layers" THEN MaxToggles ELSE MaxSaves)
  /\ saves' = saves \union {[hook |-> hook, account |-> id, patch |-> patch, here |-> TRUE]}
  /\ saved' = saved + 1
  /\ UNCHANGED <<modal, accounts, rights, filter, lists, layerShown, audit>>

Approve(u, r) ==
  /\ u \in Table /\ User(u).pending
  /\ Send("approve", u, [role |-> r, active |-> TRUE, pending |-> FALSE])
SaveRole(u) ==
  /\ u \in Table /\ ~User(u).pending /\ userRows[u].editing
  /\ Send("update", u, [role |-> userRows[u].role])
ToggleStatus(u) ==
  /\ u # Me /\ u \in Table /\ ~User(u).pending /\ ~userRows[u].editing
  /\ Send("update", u, [active |-> ~User(u).active])

-----------------------------------------------------------------------------
(* Rights of a layer.  The lists that are sent are those of the row, with  *)
(* one role more or less; there is no box for a superuser.                 *)

SearchLayer ==
  /\ modal.open /\ modal.tab = "layers" /\ layerShown' = ~layerShown
  /\ UNCHANGED <<modal, accounts, rights, filter, lists, saved, audit>>
  /\ SavesFollow

Toggle(action, r) ==
  /\ LayerRow
  /\ LET shown == lists["layers"].data
     IN  Send("layers", "layer", [shown EXCEPT ![action] =
                          ((@ \union {r}) \ (@ \intersect {r})) \union {"superuser"}])

-----------------------------------------------------------------------------
(* Changes.  Save is closed by the row that sent it, if it is there. *)

Kind(s) == IF s.hook = "layers" THEN "layers" ELSE "users"
Write(s) ==
  IF s.hook = "layers" THEN rights' = s.patch /\ UNCHANGED accounts
  ELSE /\ accounts' = [accounts EXCEPT ![s.account] =
                         [f \in DOMAIN @ |-> IF f \in DOMAIN s.patch THEN s.patch[f] ELSE @[f]]]
       /\ UNCHANGED rights

SaveReturns(s) ==
  /\ s \in saves /\ saves' = saves \ {s}
  /\ Write(s) /\ Invalidate(Kind(s))
  /\ userRows' = IF s.here /\ s.hook = "update" /\ DOMAIN s.patch = {"role"}
               THEN [userRows EXCEPT ![s.account].editing = FALSE] ELSE userRows
  /\ UNCHANGED <<modal, filter, layerShown, saved, audit>>

SaveFails(s) ==
  /\ s \in saves /\ saves' = saves \ {s}
  /\ \/ Write(s) /\ Unheard(Kind(s))
     \/ UNCHANGED <<accounts, rights, lists>>
  /\ UNCHANGED <<modal, filter, userRows, layerShown, saved, audit>>

-----------------------------------------------------------------------------
(* Sign-ins.  A page that was asked for lately is there at once. *)

AuditShown == modal.open /\ modal.tab = "audit"
HasNextPage == audit.there /\ audit.page * AuditLimit < Totals[audit.text]

Turn(text, page) ==
  /\ audit' \in [text : {text}, page : {page}, there : BOOLEAN]
  /\ UNCHANGED <<modal, accounts, rights, filter, lists, layerShown, saves, saved>>

SearchAudit(t) == AuditShown /\ t # audit.text /\ Turn(t, 1)
PreviousPage == AuditShown /\ audit.there /\ audit.page > 1 /\ Turn(audit.text, audit.page - 1)
NextPage == AuditShown /\ HasNextPage /\ Turn(audit.text, audit.page + 1)
AuditReturns ==
  /\ AuditShown /\ ~audit.there /\ audit' = [audit EXCEPT !.there = TRUE]
  /\ UNCHANGED <<modal, accounts, rights, filter, lists, layerShown, saves, saved>>

-----------------------------------------------------------------------------
(* The tab shows this page, and goes on showing it. *)
Here == route \in {"accounts", "rights", "history"} /\ UNCHANGED route

DialogStep ==
  OpenModal \/ CloseModal \/ \E t \in TabsOf(route) : SetTab(t)
ListStep(k) == ListServed(k) \/ ListReturns(k) \/ ListFails(k)
SaveStep == \E s \in saves : SaveReturns(s) \/ SaveFails(s)

UsersStep ==
  \/ \E f \in Filters : ListStep(f) \/ SetFilter(f)
  \/ \E u \in Accounts : SaveRole(u) \/ ToggleStatus(u) \/ (\E r \in Roles : Approve(u, r))
RowStep ==
  \E u \in Accounts : StartEdit(u) \/ CancelEdit(u) \/ (\E r \in Roles : PickRole(u, r))
LayersStep ==
  \/ ListStep("layers") \/ SearchLayer
  \/ \E a \in {"view", "export"}, r \in Roles \ {"superuser"} : Toggle(a, r)
AuditStep ==
  \/ PreviousPage \/ NextPage \/ AuditReturns
  \/ \E t \in DOMAIN Totals : SearchAudit(t)

Next ==
  /\ Here
  /\ \/ (DialogStep \/ (route = "accounts" /\ UsersStep) \/ (route = "rights" /\ LayersStep)
         \/ (route = "history" /\ AuditStep)) /\ RowsFollow
     \/ (route = "accounts" /\ RowStep) \/ SaveStep

Spec == Init /\ [][Next]_vars

-----------------------------------------------------------------------------
Account == [role : Roles, active : BOOLEAN, pending : BOOLEAN]
Rights == [view : SUBSET Roles, export : SUBSET Roles]
TypeOK ==
  /\ route \in Routes
  /\ modal \in [open : BOOLEAN, tab : {"users", "layers", "audit"}]
  /\ accounts \in [Accounts -> Account] /\ rights \in Rights
  /\ filter \in Filters /\ layerShown \in BOOLEAN /\ saved \in Nat
  /\ \A k \in Keys : lists[k].stage \in {"none", "asked", "served"}
  /\ userRows \in [Accounts -> [here : BOOLEAN, editing : BOOLEAN,
                                role : Roles \union {"unset"}]]
  /\ \A u \in Accounts : userRows[u].here <=> u \in Table
  /\ audit.page \in Nat /\ audit.text \in DOMAIN Totals /\ audit.there \in BOOLEAN

(* A list at rest on the screen is what is stored, under whichever filter  *)
(* a change was made and whichever lists were kept from before, unless its *)
(* last fetch was answered before a change or no answer told of the change *)
(* (onSuccess in users/hooks.ts and admin/hooks.ts).                       *)
ListsAreCurrent ==
  \A k \in Keys :
    Watched(k) /\ lists[k].stage = "none" /\ ~lists[k].erred /\ ~lists[k].behind
      => lists[k].data = Stored(k)
=============================================================================
