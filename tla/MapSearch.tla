-------------------------------- MODULE MapSearch --------------------------------
(***************************************************************************)
(* The search panel of the enterprise map and the table its results go to. *)
(*                                                                         *)
(*   apps/geo-web/src/features/search/SearchPanel.tsx, FilterGroup.tsx,    *)
(*   FilterCondition.tsx, store.ts, hooks.ts, types.ts;                    *)
(*   features/spatial/ResultsTable.tsx, tableStore.ts;                     *)
(*   features/layers/store.ts; app/layout/Sidebar.tsx                      *)
(*                                                                         *)
(* Layers are numbered in the order of their names.  Of the rows of an     *)
(* answer the layer and the query they answer are kept, and whether the    *)
(* panel that had asked was still there to open the table.  The pages of a *)
(* table of the contents of an area are in ResultPages.tla.                *)
(***************************************************************************)
EXTENDS Naturals, FiniteSets, FiniteSetsExt

CONSTANTS
  Routes,
  Layers,        \* numbers above 0
  Queries        \* filter trees with a condition

VARIABLES
  route,
  visible,       \* layers that are switched on
  panel,         \* whether the search panel is mounted, and the layer it searches in
  fields,        \* layers whose fields were fetched
  draft,         \* draft[l]: the filter tree that is built for l
  active,        \* the search that was started last: layer and query
  rows,          \* what its answer brought
  running,       \* the store's mark of a search under way
  searches,      \* searches that are out, and whether the panel that asked is there
  table,         \* the results table: open or not, its layer, what it shows
  sortOf         \* layer whose column the table is sorted by

searchVars == <<visible, panel, fields, draft, active, rows, running, searches, table, sortOf>>
vars == <<route, searchVars>>

NoLayer == 0
NoQuery == "none"           \* an empty group
NoSearch == [layer |-> NoLayer, query |-> NoQuery]
NoRows == [layer |-> NoLayer, query |-> NoQuery, told |-> FALSE, some |-> FALSE]

Init ==
  /\ route \in Routes
  /\ visible = {} /\ panel = [mounted |-> FALSE, layer |-> NoLayer]
  /\ fields = {} /\ draft = [l \in Layers |-> NoQuery]
  /\ active = NoSearch /\ rows = NoRows /\ running = FALSE /\ searches = {}
  /\ table = [open |-> FALSE, layer |-> NoLayer, mode |-> "spatial"] /\ sortOf = NoLayer

-----------------------------------------------------------------------------
(* The panel. *)

(* The list of the layers is another section of the same sidebar.          *)
ToggleLayer(l) ==
  /\ ~panel.mounted
  /\ visible' = (visible \union {l}) \ (visible \intersect {l})
  /\ UNCHANGED <<panel, fields, draft, active, rows, running, searches, table, sortOf>>

(* It starts with the first of the visible layers. *)
OpenPanel ==
  /\ ~panel.mounted
  /\ panel' = [mounted |-> TRUE, layer |-> IF visible = {} THEN NoLayer ELSE Min(visible)]
  /\ UNCHANGED <<visible, fields, draft, active, rows, running, searches, table, sortOf>>

(* Another section, or a sidebar that is closed: the callbacks of mutate() *)
(* go with the panel.                                                      *)
LeavePanel ==
  /\ panel.mounted
  /\ panel' = [mounted |-> FALSE, layer |-> NoLayer]
  /\ searches' = {[s EXCEPT !.waits = FALSE] : s \in searches}
  /\ UNCHANGED <<visible, fields, draft, active, rows, running, table, sortOf>>

SelectLayer(l) ==
  /\ panel.mounted /\ l \in visible
  /\ panel' = [panel EXCEPT !.layer = l]
  /\ UNCHANGED <<visible, fields, draft, active, rows, running, searches, table, sortOf>>

FieldsReturn ==
  /\ panel.layer \in Layers \ fields
  /\ fields' = fields \union {panel.layer}
  /\ UNCHANGED <<visible, panel, draft, active, rows, running, searches, table, sortOf>>

(* The trees FilterGroup builds, of its conditions and groups within it.   *)
Conditions == Queries \union {NoQuery}

(* Any edit of the tree, and the button that clears the draft. *)
SetDraft(q) ==
  /\ panel.layer \in fields
  /\ draft' = [draft EXCEPT ![panel.layer] = q]
  /\ UNCHANGED <<visible, panel, fields, active, rows, running, searches, table, sortOf>>

-----------------------------------------------------------------------------
(* The search. *)

DraftIsRunnable == panel.layer # NoLayer /\ draft[panel.layer] # NoQuery

OnSearch ==
  /\ DraftIsRunnable /\ ~running
  /\ active' = [layer |-> panel.layer, query |-> draft[panel.layer]]
  /\ rows' = NoRows /\ running' = TRUE
  /\ searches' = searches \union {[layer |-> active'.layer, query |-> active'.query,
                                   waits |-> TRUE]}
  /\ UNCHANGED <<visible, panel, fields, draft, table, sortOf>>

(* The table is opened by the panel that asked, for the layer it asked of. *)
ShowSearch_Selected(s) ==
  table' = IF s.waits /\ panel.layer # NoLayer
             THEN [open |-> TRUE, layer |-> panel.layer, mode |-> "search"] ELSE table
ShowSearch(s) ==
  table' = IF s.waits THEN [open |-> TRUE, layer |-> s.layer, mode |-> "search"] ELSE table

SearchReturns(s) ==
  /\ s \in searches /\ searches' = searches \ {s}
  /\ \E some \in BOOLEAN :
       rows' = [layer |-> s.layer, query |-> s.query, told |-> s.waits, some |-> some]
  /\ running' = FALSE
  /\ ShowSearch(s)
  /\ UNCHANGED <<visible, panel, fields, draft, active, sortOf>>

SearchFails(s) ==
  /\ s \in searches /\ searches' = searches \ {s}
  /\ running' = FALSE
  /\ UNCHANGED <<visible, panel, fields, draft, active, rows, table, sortOf>>

ClearOffered_Active == panel.mounted /\ active # NoSearch
ClearOffered == panel.mounted /\ rows.some

OnClearResults ==
  /\ ClearOffered
  /\ active' = NoSearch /\ rows' = NoRows /\ running' = FALSE
  /\ table' = [table EXCEPT !.open = FALSE]
  /\ UNCHANGED <<visible, panel, fields, draft, searches, sortOf>>

-----------------------------------------------------------------------------
(* The table. *)

(* Table of the contents panel. *)
ShowSpatial(l) ==
  /\ table' = [open |-> TRUE, layer |-> l, mode |-> "spatial"]
  /\ UNCHANGED <<visible, panel, fields, draft, active, rows, running, searches, sortOf>>

(* Its button, and Escape. *)
CloseTable ==
  /\ table.open
  /\ table' = [table EXCEPT !.open = FALSE]
  /\ UNCHANGED <<visible, panel, fields, draft, active, rows, running, searches, sortOf>>

(* The layer whose rows are on screen.  The server refuses to sort by a    *)
(* column the layer does not have.                                         *)
ShownLayer ==
  IF ~table.open THEN NoLayer
  ELSE IF table.mode = "search" THEN (IF rows.some THEN rows.layer ELSE NoLayer)
  ELSE IF sortOf \in {NoLayer, table.layer} THEN table.layer
  ELSE NoLayer

(* The sort is the component's, which is never unmounted. *)
ToggleSort ==
  /\ ShownLayer # NoLayer
  /\ sortOf' \in IF sortOf = ShownLayer THEN {NoLayer, ShownLayer} ELSE {ShownLayer}
  /\ UNCHANGED <<visible, panel, fields, draft, active, rows, running, searches, table>>

-----------------------------------------------------------------------------
(* The tab shows this page, and goes on showing it. *)
Here == route = "search" /\ UNCHANGED route

Next ==
  /\ Here
  /\ \/ OpenPanel \/ LeavePanel \/ FieldsReturn \/ OnSearch \/ OnClearResults \/ CloseTable
     \/ ToggleSort
     \/ \E l \in Layers : ToggleLayer(l) \/ SelectLayer(l) \/ ShowSpatial(l)
     \/ \E q \in Conditions : SetDraft(q)
     \/ \E s \in searches : SearchReturns(s) \/ SearchFails(s)

Spec == Init /\ [][Next]_vars

-----------------------------------------------------------------------------
SomeLayer == Layers \union {NoLayer}
TypeOK ==
  /\ route \in Routes
  /\ visible \subseteq Layers /\ panel \in [mounted : BOOLEAN, layer : SomeLayer]
  /\ fields \subseteq Layers /\ draft \in [Layers -> Conditions]
  /\ active \in [layer : SomeLayer, query : Conditions]
  /\ rows \in [layer : SomeLayer, query : Conditions, told : BOOLEAN,
              some : BOOLEAN]
  /\ running \in BOOLEAN
  /\ searches \subseteq [layer : Layers, query : Queries, waits : BOOLEAN]
  /\ table \in [open : BOOLEAN, layer : SomeLayer, mode : {"spatial", "search"}]
  /\ sortOf \in SomeLayer

(* The rows that are kept, drawn and counted answer the search the store   *)
(* names, by which the table is exported, however searches, failures and   *)
(* clearings were mixed (store.ts, SearchPanel.tsx).                       *)
ResultsAreOfQuery ==
  rows # NoRows => rows.layer = active.layer /\ rows.query = active.query

(* The table of a search is headed, clicked and exported by the layer its  *)
(* rows are of, when the panel was not left before the answer came         *)
(* (SearchPanel.tsx onSearch, ResultsTable.tsx onRowClick).                *)
TableNamesItsLayer ==
  table.open /\ table.mode = "search" /\ rows.told => table.layer = rows.layer
=============================================================================
