--------------------------------- MODULE MapTools ---------------------------------
(***************************************************************************)
(* The tools of the enterprise map that draw - a measurement, an area to   *)
(* select - and who takes a click or a key while they do.                  *)
(*                                                                         *)
(*   apps/geo-web/src/features/map/components/MapToolCluster.tsx,          *)
(*   MapCanvas.tsx; features/spatial/measureStore.ts, selectStore.ts;      *)
(*   features/map/hooks/useMeasureInput.ts, useSelectInput.ts,             *)
(*   useFeatureClick.ts                                                    *)
(*                                                                         *)
(* Of what is drawn the number of its corners is kept, up to Corners.      *)
(***************************************************************************)
EXTENDS Naturals

CONSTANTS
  Routes,
  Corners        \* corners that are counted, at least 3

VARIABLES
  route,
  measure,       \* the measure store: mode, frozen, corners
  select,        \* the select store: mode, frozen, corners
  picked,        \* the selection: nothing, a feature, an area that was drawn
  tableOpen      \* the results table is open

toolVars == <<measure, select, picked, tableOpen>>
vars == <<route, toolVars>>

Off == [mode |-> "off", frozen |-> FALSE, n |-> 0]
Started(m) == [mode |-> m, frozen |-> FALSE, n |-> 0]

Init ==
  /\ route \in Routes
  /\ measure = Off /\ select = Off /\ picked = "nothing" /\ tableOpen = FALSE

-----------------------------------------------------------------------------
(* Which hook listens: a tool draws when it is on and not frozen, and each *)
(* of the two stands down while the other one draws.                       *)

Draws(tool) == tool.mode # "off" /\ ~tool.frozen
FeaturesListen_NotMeasuring == ~Draws(measure)
FeaturesListen == ~Draws(measure) /\ ~Draws(select)
SelectListens == Draws(select) /\ ~Draws(measure)
MeasureListens == Draws(measure) /\ ~Draws(select)

AddVertex(tool) == [tool EXCEPT !.n = IF @ < Corners THEN @ + 1 ELSE @]

(* A click on the map goes to every hook that listens. *)
ClickMap ==
  /\ measure' = IF MeasureListens THEN AddVertex(measure) ELSE measure
  /\ select' = IF SelectListens THEN AddVertex(select) ELSE select
  /\ picked' \in IF FeaturesListen THEN {"nothing", "feature", picked} ELSE {picked}
  /\ UNCHANGED tableOpen

Finished(tool, least) == IF tool.n >= least THEN [tool EXCEPT !.frozen = TRUE] ELSE tool

PressEnter ==
  /\ measure' = IF MeasureListens THEN Finished(measure, 2) ELSE measure
  /\ select' = IF SelectListens THEN Finished(select, 3) ELSE select
  /\ UNCHANGED <<picked, tableOpen>>

(* The listeners of the tools, and the two of MapCanvas: one clears the    *)
(* selection, the other one closes the table or clears the selection.      *)
PressEscape ==
  /\ measure' = IF MeasureListens THEN Off ELSE measure
  /\ select' = IF SelectListens THEN Off ELSE select
  /\ picked' = "nothing"
  /\ tableOpen' = FALSE

-----------------------------------------------------------------------------
(* The buttons. *)

MeasureMode(m) ==
  /\ measure' = IF measure.mode = m /\ ~measure.frozen THEN Off ELSE Started(m)
  /\ UNCHANGED <<select, picked, tableOpen>>

FinishMeasure ==
  /\ Draws(measure) /\ measure.n >= (IF measure.mode = "area" THEN 3 ELSE 2)
  /\ measure' = Finished(measure, 2)
  /\ UNCHANGED <<select, picked, tableOpen>>

NewMeasure ==
  /\ measure.frozen /\ measure' = Started(measure.mode)
  /\ UNCHANGED <<select, picked, tableOpen>>

CancelMeasure ==
  /\ measure.mode # "off" /\ measure' = Off
  /\ UNCHANGED <<select, picked, tableOpen>>

SelectMode ==
  /\ select' = IF Draws(select) THEN Off ELSE Started("polygon")
  /\ UNCHANGED <<measure, picked, tableOpen>>

(* What is drawn becomes the selection. *)
CanFinish == Draws(select) /\ select.n >= 3

OnFinish ==
  /\ CanFinish
  /\ select' = Finished(select, 3)
  /\ picked' = "area"
  /\ UNCHANGED <<measure, tableOpen>>

CancelSelect ==
  /\ select.mode # "off" /\ select' = Off
  /\ UNCHANGED <<measure, picked, tableOpen>>

(* The table of the contents of an area, or of a search. *)
OpenTable ==
  /\ tableOpen' = TRUE
  /\ UNCHANGED <<measure, select, picked>>

(* A row of it. *)
ClickRow ==
  /\ tableOpen /\ picked' = "feature"
  /\ UNCHANGED <<measure, select, tableOpen>>

-----------------------------------------------------------------------------
(* The tab shows this page, and goes on showing it. *)
Here == route = "tools" /\ UNCHANGED route

Next ==
  /\ Here
  /\ \/ ClickMap \/ PressEnter \/ PressEscape \/ FinishMeasure \/ NewMeasure \/ CancelMeasure
     \/ SelectMode \/ OnFinish \/ CancelSelect \/ OpenTable \/ ClickRow
     \/ \E m \in {"distance", "area"} : MeasureMode(m)

Spec == Init /\ [][Next]_vars

-----------------------------------------------------------------------------
Tools(modes) == [mode : modes \union {"off"}, frozen : BOOLEAN, n : 0..Corners]
TypeOK ==
  /\ route \in Routes
  /\ measure \in Tools({"distance", "area"}) /\ select \in Tools({"polygon"})
  /\ picked \in {"nothing", "feature", "area"}
  /\ tableOpen \in BOOLEAN

(* A click is taken by one of the three at the most: no corner of one tool *)
(* is a corner of the other or selects a feature, although the three hooks *)
(* listen to the same event and each decides for itself (useMeasureInput,  *)
(* useSelectInput, useFeatureClick).                                       *)
OneTaker ==
  [][ /\ measure'.n > measure.n => select'.n <= select.n /\ picked' = picked
      /\ select'.n > select.n => picked' = picked ]_vars
=============================================================================
