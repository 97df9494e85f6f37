--------------------------- MODULE ConflictResolution ---------------------------
(***************************************************************************)
(* The Conflicts tab of a layer in the field collector's web console.      *)
(*                                                                         *)
(*   apps/fc-web/src/components/layer/LayerConflictsTab.tsx                *)
(*   .../ManualMergeEditor.tsx, ConflictDiffView.tsx                       *)
(*                                                                         *)
(* An administrator rules on the conflicts a preview found.  The tab shows *)
(* a cached list; a ruling goes to the server by the conflict's id.  The   *)
(* merge editor keeps one pick per field.  Conflicts of a layer have the   *)
(* same fields; which of them are in dispute, and whether the change is an *)
(* update or a delete, differs.  The text of notes is left out.  Other     *)
(* administrators rule too.                                                *)
(***************************************************************************)
EXTENDS Naturals, FiniteSets

CONSTANTS
  Routes,
  Conflicts,     \* numbered in the order of created_at
  NoConflict,
  Fields,
  Changes,       \* kinds of change that are in conflict
  MaxForeign     \* bound: rulings of other administrators

VARIABLES
  route,
  facts,         \* of each conflict: the fields in dispute, and the kind of change
  ruled,         \* conflicts the server has a ruling of; the others are pending
  listed,        \* the list in the cache
  listing,       \* the state of the query: "idle", "fetching", "failed"
  tab,           \* the state the hooks of the tab keep
  merge,         \* the state the merge editor keeps
  resolving,     \* the ruling whose request is out
  told,          \* history: conflicts the page was told it has ruled on
  foreign

conflictVars == <<facts, ruled, listed, listing, tab, merge, resolving, told, foreign>>
vars == <<route, conflictVars>>

Resolutions == {"field_wins", "source_wins", "manual"}
Picks == {"source", "field", "original", "custom"}
NoRequest == [conflict |-> NoConflict, resolution |-> "none", doc |-> [f \in Fields |-> "source"]]
NoMerge == [picks |-> NoRequest.doc, showAll |-> FALSE]
Pending == Conflicts \ ruled

Disputed(c) == facts[c].disputed
HasEdit(c)  == facts[c].change = "updated"

Init ==
  /\ route \in Routes
  /\ facts \in [Conflicts -> [disputed : (SUBSET Fields) \ {{}}, change : Changes]]
  /\ ruled = {}
  /\ listed = {} /\ listing = "fetching"
  /\ tab = [selected |-> NoConflict, manual |-> FALSE]
  /\ merge = NoMerge
  /\ resolving = NoRequest /\ told = {} /\ foreign = 0

-----------------------------------------------------------------------------
(* What is on screen. *)

Smallest(S) == CHOOSE c \in S : \A d \in S : c <= d

(* conflicts.find(...) ?? conflicts[0]; nothing when the list failed. *)
Selected ==
  IF listed = {} \/ listing = "failed" THEN NoConflict
  ELSE IF tab.selected \in listed THEN tab.selected ELSE Smallest(listed)

OnScreen == Selected # NoConflict
RulingButtons ==
  IF OnScreen /\ ~tab.manual /\ resolving = NoRequest
  THEN {"field_wins", "source_wins", "manual"} ELSE {}

VisibleFields == IF merge.showAll THEN Fields ELSE Disputed(Selected)

(* The sides a field can be taken from; its own value is always possible. *)
PickRows(c) ==
  {"source", "original", "custom"} \union (IF HasEdit(c) THEN {"field"} ELSE {})

(* The default pick of each field. *)
InitialPicks(c) ==
  [f \in Fields |-> IF f \in Disputed(c) /\ HasEdit(c) THEN "field" ELSE "source"]

-----------------------------------------------------------------------------
SelectConflict(c) ==
  /\ OnScreen /\ c \in listed
  /\ tab' = [tab EXCEPT !.selected = c]
  /\ UNCHANGED <<facts, ruled, listed, listing, merge, resolving, told, foreign>>

(* The editor is mounted: useState(initialState). *)
OpenManual ==
  /\ "manual" \in RulingButtons
  /\ tab' = [tab EXCEPT !.manual = TRUE]
  /\ merge' = [picks |-> InitialPicks(Selected), showAll |-> FALSE]
  /\ UNCHANGED <<facts, ruled, listed, listing, resolving, told, foreign>>

CancelManual ==
  /\ OnScreen /\ tab.manual
  /\ tab' = [tab EXCEPT !.manual = FALSE] /\ merge' = NoMerge
  /\ UNCHANGED <<facts, ruled, listed, listing, resolving, told, foreign>>

SetPick(f, p) ==
  /\ OnScreen /\ tab.manual
  /\ f \in VisibleFields /\ p \in PickRows(Selected)
  /\ merge' = [merge EXCEPT !.picks[f] = p]
  /\ UNCHANGED <<facts, ruled, listed, listing, tab, resolving, told, foreign>>

ToggleShowAll ==
  /\ OnScreen /\ tab.manual
  /\ merge' = [merge EXCEPT !.showAll = ~@]
  /\ UNCHANGED <<facts, ruled, listed, listing, tab, resolving, told, foreign>>

(* resolveMutation, from one of the two buttons. *)
Resolve(r) ==
  /\ r \in RulingButtons \ {"manual"}
  /\ resolving' = [NoRequest EXCEPT !.conflict = Selected, !.resolution = r]
  /\ UNCHANGED <<facts, ruled, listed, listing, tab, merge, told, foreign>>

(* "Save merge": the document is built from the picks. *)
SaveMerge ==
  /\ OnScreen /\ tab.manual /\ resolving = NoRequest
  /\ resolving' = [conflict |-> Selected, resolution |-> "manual", doc |-> merge.picks]
  /\ UNCHANGED <<facts, ruled, listed, listing, tab, merge, told, foreign>>

(* invalidateQueries makes an active query fetch again. *)
Invalidated_Inactive == listing
Invalidated == "fetching"

(* The UPDATE of the server looks at nothing but the id.  onSuccess asks   *)
(* for the list again and clears what the tab kept, whatever is shown.     *)
ResolveReturns ==
  /\ resolving # NoRequest /\ resolving' = NoRequest
  /\ ruled' = ruled \union {resolving.conflict}
  /\ told' = told \union {resolving.conflict}
  /\ listing' = Invalidated
  /\ tab' = [selected |-> NoConflict, manual |-> FALSE]
  /\ merge' = NoMerge
  /\ UNCHANGED <<facts, listed, foreign>>

(* onError: a toast.  The ruling may have been stored nevertheless. *)
ResolveFails(stored) ==
  /\ resolving # NoRequest /\ resolving' = NoRequest
  /\ ruled' = IF stored THEN ruled \union {resolving.conflict} ELSE ruled
  /\ UNCHANGED <<facts, listed, listing, tab, merge, told, foreign>>

ListReturns ==
  /\ listing = "fetching" /\ listing' = "idle"
  /\ listed' = Pending
  /\ UNCHANGED <<facts, ruled, tab, merge, resolving, told, foreign>>

(* The error pane takes the place of the list. *)
ListFails ==
  /\ listing = "fetching" /\ listing' = "failed"
  /\ UNCHANGED <<facts, ruled, listed, tab, merge, resolving, told, foreign>>

ForeignRuling(c) ==
  /\ foreign < MaxForeign /\ foreign' = foreign + 1
  /\ c \in Pending
  /\ ruled' = ruled \union {c}
  /\ UNCHANGED <<facts, listed, listing, tab, merge, resolving, told>>

-----------------------------------------------------------------------------
(* The tab shows this page, and goes on showing it. *)
Here == route = "conflicts" /\ UNCHANGED route

Next ==
  /\ Here
  /\ \/ \E c \in Conflicts : SelectConflict(c)
     \/ OpenManual
     \/ CancelManual
     \/ \E f \in Fields, p \in Picks : SetPick(f, p)
     \/ ToggleShowAll
     \/ \E r \in Resolutions : Resolve(r)
     \/ SaveMerge
     \/ ResolveReturns
     \/ \E stored \in BOOLEAN : ResolveFails(stored)
     \/ ListReturns
     \/ ListFails
     \/ \E c \in Conflicts : ForeignRuling(c)

(* Every request for the list is answered, with the list or an error. *)
Fairness == WF_vars(Here /\ (ListReturns \/ ListFails))

Spec == Init /\ [][Next]_vars /\ Fairness

-----------------------------------------------------------------------------
Docs == [Fields -> Picks]
ConflictIds == Conflicts \union {NoConflict}

TypeOK ==
  /\ route \in Routes
  /\ ruled \subseteq Conflicts /\ listed \subseteq Conflicts
  /\ listing \in {"idle", "fetching", "failed"}
  /\ tab \in [selected : ConflictIds, manual : BOOLEAN]
  /\ merge \in [picks : Docs, showAll : BOOLEAN]
  /\ resolving \in [conflict : ConflictIds, resolution : Resolutions \union {"none"}, doc : Docs]
  /\ told \subseteq Conflicts /\ foreign \in 0..MaxForeign

(* A conflict the administrator has ruled on does not stay on the screen   *)
(* for ever (LayerConflictsTab.tsx onSuccess): sooner or later the list is *)
(* without it, or has failed to load.  Rulings of others, and rulings      *)
(* whose answer was lost, are not known to the page.                       *)
RuledLeaves == \A c \in Conflicts : (c \in told) ~> (c \notin listed \/ listing = "failed")
=============================================================================
