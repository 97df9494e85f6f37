------------------------------- MODULE FeatureTable -------------------------------
(***************************************************************************)
(* The features of a layer, in the field collector's web console: the      *)
(* table, its search and its query builder, the drawer of a feature, and   *)
(* the changes that are written back to the source from them.              *)
(*                                                                         *)
(*   apps/fc-web/src/components/layer/LayerFeaturesTab.tsx,                *)
(*   LayerFeatureTable.tsx, FeatureQueryBuilder.tsx, LayerFeatureDrawer.tsx*)
(*   (the server writes back in Reconciliation.tla)                        *)
(*                                                                         *)
(* Features are numbered in the order of the table.  A feature has the     *)
(* version of its last change and the version its source has; a change is  *)
(* pending while the source is behind.  Of the rows only that is kept.     *)
(***************************************************************************)
EXTENDS Naturals, Sequences, FiniteSets, SequencesExt

CONSTANTS
  Routes,
  NumFeatures,   \* features of the layer
  Edited,        \* bound: the features the field may change
  PageSize,      \* PAGE_SIZE
  Matching,      \* the features a search matches
  MaxVersion,    \* bound: changes of a feature
  MaxOut         \* bound: write-backs of a feature out at a time, besides the bulk's

VARIABLES
  route,
  changed,       \* changed[f]: version of the last change of feature f
  written,       \* written[f]: version the source table has
  summary,       \* the layer's change summary: "none" before it was fetched
  viewer,        \* which table the tab shows, "none" before one is chosen
  table,         \* state of LayerFeatureTable
  rows,          \* its rows, the answer fetched last
  bulk,          \* the loop of runBulkWriteBack: ids to go, and its counts
  rowWrites,     \* rowWrites[f]: write-backs out from the row of f
  late,          \* late[f]: write-backs of f out that no component waits for
  detail         \* state of LayerFeatureDrawer

tableVars == <<changed, written, summary, viewer, table, rows, bulk, rowWrites,
               late, detail>>
vars == <<route, tableVars>>

AllFeatures == 1..NumFeatures
Conditions == [needsValue : BOOLEAN, filled : BOOLEAN]
Drafts == {<< >>} \union {<<c>> : c \in Conditions}
FreshTable == [page |-> 0, typed |-> "", query |-> "", timer |-> TRUE, filters |-> 0,
               selected |-> {}, writing |-> 0, mounted |-> TRUE]
NoBulk == [ids |-> << >>, busy |-> FALSE]
NoDetail == [feature |-> 0, version |-> 0, pending |-> FALSE, applied |-> FALSE,
             writing |-> FALSE]

Init ==
  /\ route \in Routes
  /\ changed \in [AllFeatures -> {0, 1}] /\ (\A f \in AllFeatures \ Edited : changed[f] = 0)
  /\ written = [f \in AllFeatures |-> 0]
  /\ summary = "none" /\ viewer = "none"
  /\ table = FreshTable /\ rows = {} /\ bulk = NoBulk
  /\ rowWrites = [f \in AllFeatures |-> 0] /\ late = rowWrites /\ detail = NoDetail

Pending(f) == written[f] < changed[f]
AnyPending == \E f \in AllFeatures : Pending(f)
ShowsLinked == viewer = "linked"
OnPage(p) == {f \in AllFeatures : (f - 1) \div PageSize = p}
LastPage == IF NumFeatures = 0 THEN 0 ELSE (NumFeatures - 1) \div PageSize

(* Rows of the page, as the server has them now. *)
Rows(p) == {[id |-> f, version |-> changed[f], pending |-> Pending(f)] : f \in OnPage(p)}
Visible == IF ShowsLinked \/ table.query = "" THEN rows ELSE {r \in rows : r.id \in Matching}
Eligible == {r.id : r \in {v \in Visible : ~ShowsLinked /\ v.pending}}

-----------------------------------------------------------------------------
(* A change comes from the field. *)
FieldChange(f) ==
  /\ f \in Edited /\ changed[f] < MaxVersion /\ changed' = [changed EXCEPT ![f] = @ + 1]
  /\ UNCHANGED <<written, summary, viewer, table, rows, bulk, rowWrites, late, detail>>

(* The list and the summary are fetched when they are asked for, again     *)
(* every 15 s (the summary), and when a write-back was answered.           *)
ListReturns ==
  /\ table.mounted /\ rows' = Rows(table.page)
  /\ UNCHANGED <<changed, written, summary, viewer, table, bulk, rowWrites, late, detail>>

SummaryReturns ==
  /\ table.mounted /\ summary' = IF AnyPending THEN "pending" ELSE "clean"
  /\ UNCHANGED <<changed, written, viewer, table, rows, bulk, rowWrites, late, detail>>

(* The effect of the tab, which a render without a summary runs as well. *)
DefaultViewer ==
  /\ table.mounted /\ viewer = "none"
  /\ viewer' = IF summary = "pending" THEN "collected" ELSE "linked"
  /\ table' = [table EXCEPT !.selected = {}, !.timer = viewer' = "collected"]
  /\ rows' = {}
  /\ UNCHANGED <<changed, written, summary, bulk, rowWrites, late, detail>>

SetViewer(v) ==
  /\ table.mounted /\ detail.feature = 0 /\ viewer # v
  /\ viewer' = v /\ rows' = {}
  /\ table' = [table EXCEPT !.selected = {}, !.timer = v = "collected"]
  /\ UNCHANGED <<changed, written, summary, bulk, rowWrites, late, detail>>

-----------------------------------------------------------------------------
(* LayerFeatureTable: search, query builder, pages.  What the query key    *)
(* holds changes with the rows; the selection is dropped.                  *)

Acts == table.mounted /\ detail.feature = 0 /\ viewer # "none"
Shows(t) == table' = t /\ rows' = {}
DataUnchanged == UNCHANGED <<changed, written, summary, viewer, bulk, rowWrites,
                              late, detail>>

Type(t) ==
  /\ Acts /\ ~ShowsLinked /\ table.typed # t
  /\ table' = [table EXCEPT !.typed = t, !.timer = TRUE]
  /\ UNCHANGED rows /\ DataUnchanged

Debounced ==
  /\ table.mounted /\ table.timer
  /\ IF table.page = 0 /\ table.query = table.typed
     THEN table' = [table EXCEPT !.timer = FALSE] /\ UNCHANGED rows
     ELSE Shows([table EXCEPT !.timer = FALSE, !.query = table.typed, !.page = 0,
                              !.selected = {}])
  /\ DataUnchanged

(* FeatureQueryBuilder: the conditions that were drafted are applied, or   *)
(* none after Clear.  A condition without the value it needs is left out.  *)
Complete(d) == Cardinality({i \in DOMAIN d : d[i].needsValue => d[i].filled})
ApplyFilters(d) ==
  /\ Acts /\ ShowsLinked
  /\ Shows([table EXCEPT !.filters = Complete(d), !.page = 0, !.selected = {}])
  /\ DataUnchanged

(* The pager is there with rows; a search counts the rows of its page. *)
Pages == IF ~ShowsLinked /\ table.query # "" THEN 0 ELSE LastPage
SetPage(p) ==
  /\ Acts /\ Visible # {} /\ p # table.page
  /\ \/ p + 1 = table.page
     \/ p = table.page + 1 /\ p <= Pages
  /\ Shows([table EXCEPT !.page = p, !.selected = {}])
  /\ DataUnchanged

Toggle(f) ==
  /\ Acts /\ ~bulk.busy /\ f \in Eligible
  /\ table' = [table EXCEPT !.selected =
                 IF f \in @ THEN @ \ {f} ELSE @ \union {f}]
  /\ UNCHANGED rows /\ DataUnchanged

ToggleAll ==
  /\ Acts /\ ~bulk.busy /\ Eligible # {}
  /\ table' = [table EXCEPT !.selected = IF Eligible \subseteq @ THEN {} ELSE Eligible]
  /\ UNCHANGED rows /\ DataUnchanged

(* The tab is left, and entered again: what was sent goes on, and nobody   *)
(* waits for it.                                                           *)
DetailWrite == [f \in AllFeatures |-> IF detail.writing /\ detail.feature = f THEN 1 ELSE 0]
LeaveTab ==
  /\ table.mounted /\ table' = [FreshTable EXCEPT !.mounted = FALSE, !.timer = FALSE]
  /\ rows' = {} /\ viewer' = "none" /\ detail' = NoDetail
  /\ bulk' = [bulk EXCEPT !.busy = FALSE]
  /\ late' = [f \in AllFeatures |-> late[f] + rowWrites[f] + DetailWrite[f]]
  /\ rowWrites' = [f \in AllFeatures |-> 0]
  /\ UNCHANGED <<changed, written, summary>>

EnterTab ==
  /\ ~table.mounted /\ table' = FreshTable
  /\ UNCHANGED <<changed, written, summary, viewer, rows, bulk, rowWrites, late, detail>>

-----------------------------------------------------------------------------
(* Writing back.  The server writes what is pending, finds a conflict or   *)
(* fails; what the source has is skipped.  An answer may be lost.          *)

Outcomes(f) == IF Pending(f) THEN {"applied", "conflict", "failed"} ELSE {"skipped"}
Writes(f, outcome) ==
  /\ outcome \in Outcomes(f)
  /\ written' = IF outcome = "applied" THEN [written EXCEPT ![f] = changed[f]] ELSE written

MayWrite == \A f \in AllFeatures : rowWrites[f] + late[f] + DetailWrite[f] < MaxOut

StartBulk ==
  /\ Acts /\ ~bulk.busy /\ bulk.ids = << >> /\ table.selected # {}
  /\ table.selected \intersect Eligible # {}
  /\ bulk' = [ids |-> SetToSeq(table.selected \intersect Eligible), busy |-> TRUE]
  /\ UNCHANGED <<changed, written, summary, viewer, table, rows, rowWrites, late, detail>>

(* The loop goes on after every outcome, an exception included; then the   *)
(* selection is dropped, where the table is still there.                   *)
Ends == IF bulk.busy THEN table' = [table EXCEPT !.selected = {}] ELSE UNCHANGED table
GoesOn(outcome) ==
  /\ bulk' = [ids |-> Tail(bulk.ids), busy |-> bulk.busy /\ Len(bulk.ids) > 1]
  /\ IF Len(bulk.ids) > 1 THEN UNCHANGED table ELSE Ends

BulkAnswer(outcome, lost) ==
  /\ bulk.ids # << >> /\ Writes(Head(bulk.ids), outcome)
  /\ GoesOn(IF lost THEN "lost" ELSE outcome)
  /\ UNCHANGED <<changed, summary, viewer, rows, rowWrites, late, detail>>

(* One row shows that it is being written; any answer takes that away. *)
WriteRow(f) ==
  /\ Acts /\ ~bulk.busy /\ f \in Eligible /\ table.writing # f /\ MayWrite
  /\ table' = [table EXCEPT !.writing = f]
  /\ rowWrites' = [rowWrites EXCEPT ![f] = @ + 1]
  /\ UNCHANGED <<changed, written, summary, viewer, rows, bulk, late, detail>>

RowAnswer(f, outcome) ==
  /\ rowWrites[f] > 0 /\ Writes(f, outcome)
  /\ rowWrites' = [rowWrites EXCEPT ![f] = @ - 1]
  /\ table' = [table EXCEPT !.writing = 0]
  /\ UNCHANGED <<changed, summary, viewer, rows, bulk, late, detail>>

LateAnswer(f, outcome) ==
  /\ late[f] > 0 /\ Writes(f, outcome) /\ late' = [late EXCEPT ![f] = @ - 1]
  /\ UNCHANGED <<changed, summary, viewer, table, rows, bulk, rowWrites, detail>>

-----------------------------------------------------------------------------
(* LayerFeatureDrawer, on the row as the table had it. *)

OpenDetail(r) ==
  /\ Acts /\ r \in Visible
  /\ detail' = [NoDetail EXCEPT !.feature = r.id, !.version = r.version,
                                !.pending = r.pending /\ ~ShowsLinked]
  /\ UNCHANGED <<changed, written, summary, viewer, table, rows, bulk, rowWrites, late>>

CloseDetail ==
  /\ detail.feature # 0 /\ detail' = NoDetail
  /\ late' = [f \in AllFeatures |-> late[f] + DetailWrite[f]]
  /\ UNCHANGED <<changed, written, summary, viewer, table, rows, bulk, rowWrites>>

WriteDetail ==
  /\ detail.feature # 0 /\ detail.pending /\ ~detail.applied /\ ~detail.writing
  /\ MayWrite
  /\ detail' = [detail EXCEPT !.writing = TRUE]
  /\ UNCHANGED <<changed, written, summary, viewer, table, rows, bulk, rowWrites, late>>

SaysApplied_WhenAnswered(outcome) == TRUE
SaysApplied(outcome) == outcome \in {"applied", "skipped"}

DetailAnswer(outcome, lost) ==
  /\ detail.writing /\ Writes(detail.feature, outcome)
  /\ detail' = [detail EXCEPT !.writing = FALSE, !.applied = ~lost /\ SaysApplied(outcome)]
  /\ UNCHANGED <<changed, summary, viewer, table, rows, bulk, rowWrites, late>>

-----------------------------------------------------------------------------
AllOutcomes == {"applied", "conflict", "failed", "skipped"}
BulkStep == \E o \in AllOutcomes, lost \in BOOLEAN : BulkAnswer(o, lost)

(* The tab shows this page, and goes on showing it. *)
Here == route = "features" /\ UNCHANGED route

Next ==
  /\ Here
  /\ \/ \E f \in AllFeatures : FieldChange(f) \/ Toggle(f) \/ WriteRow(f)
     \/ ListReturns \/ SummaryReturns \/ DefaultViewer
     \/ \E v \in {"linked", "collected"} : SetViewer(v)
     \/ \E t \in {"", "typed"} : Type(t)
     \/ Debounced
     \/ \E d \in Drafts : ApplyFilters(d)
     \/ \E p \in 0..LastPage : SetPage(p)
     \/ ToggleAll \/ LeaveTab \/ EnterTab \/ StartBulk \/ BulkStep
     \/ \E f \in AllFeatures, o \in AllOutcomes : RowAnswer(f, o) \/ LateAnswer(f, o)
     \/ \E r \in rows : OpenDetail(r)
     \/ CloseDetail \/ WriteDetail
     \/ \E o \in AllOutcomes, lost \in BOOLEAN : DetailAnswer(o, lost)

Spec == Init /\ [][Next]_vars

-----------------------------------------------------------------------------
TypeOK ==
  /\ route \in Routes
  /\ changed \in [AllFeatures -> 0..MaxVersion] /\ written \in [AllFeatures -> 0..MaxVersion]
  /\ summary \in {"none", "pending", "clean"} /\ viewer \in {"none", "linked", "collected"}
  /\ table.page \in 0..LastPage /\ table.selected \subseteq AllFeatures
  /\ table.filters \in 0..1 /\ table.writing \in 0..NumFeatures
  /\ rows \subseteq [id : AllFeatures, version : 0..MaxVersion, pending : BOOLEAN]
  /\ Range(bulk.ids) \subseteq AllFeatures /\ bulk.busy \in BOOLEAN
  /\ {rowWrites, late} \subseteq [AllFeatures -> 0..MaxOut]
  /\ detail.feature \in 0..NumFeatures /\ detail.version \in 0..MaxVersion

(* A feature the drawer calls written back is in the source, in the        *)
(* version that is shown or a later one: also when the change was written  *)
(* from the table meanwhile, or the feature changed again                  *)
(* (onSuccess of LayerFeatureDrawer.tsx).                                  *)
SaidWritten == detail.applied => written[detail.feature] >= detail.version
=============================================================================
