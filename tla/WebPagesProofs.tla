---------------------------- MODULE WebPagesProofs ----------------------------
(***************************************************************************)
(* Proofs about the pages composed in MCWebPages, for every value of the   *)
(* constants: what is proved of a page by itself holds of the composition, *)
(* whose steps change one page and leave the others as they are.           *)
(***************************************************************************)
EXTENDS MapPagesProofs, ConsolePagesProofs

------------------------------------------------------------------------------
(* A step of the composition is a step of a page, or none of its. *)

LEMMA RouteStays == [Next]_vars => UNCHANGED route
  <1>1. Source!Next => UNCHANGED route
    BY DEF Source!Next, Source!Here
  <1>2. Style!Next => UNCHANGED route
    BY DEF Style!Next, Style!Here
  <1>3. Form!Next => UNCHANGED route
    BY DEF Form!Next, Form!Here
  <1>4. Session!Next => UNCHANGED route
    BY DEF Session!Next, Session!Here
  <1>5. Geo!Next => UNCHANGED route
    BY DEF Geo!Next, Geo!Here
  <1>6. Select!Next => UNCHANGED route
    BY DEF Select!Next, Select!Here
  <1>7. Results!Next => UNCHANGED route
    BY DEF Results!Next, Results!Here
  <1>8. Search!Next => UNCHANGED route
    BY DEF Search!Next, Search!Here
  <1>9. Map!Next => UNCHANGED route
    BY DEF Map!Next, Map!Here
  <1>10. Tools!Next => UNCHANGED route
    BY DEF Tools!Next, Tools!Here
  <1>11. Admin!Next => UNCHANGED route
    BY DEF Admin!Next, Admin!Here
  <1>12. Export!Next => UNCHANGED route
    BY DEF Export!Next, Export!Here
  <1> QED
    BY <1>1, <1>2, <1>3, <1>4, <1>5, <1>6, <1>7, <1>8, <1>9, <1>10, <1>11, <1>12 DEF Next, vars

LEMMA SessionStutters == [Next]_vars => [Session!Next]_Session!vars
  <1>1. UNCHANGED sessionVars => UNCHANGED Session!sessionVars
    BY DEF sessionVars, Session!sessionVars
  <1>2. [Next]_vars => Session!Next \/ UNCHANGED sessionVars
    BY DEF Next, vars
  <1> QED
    BY RouteStays, <1>1, <1>2 DEF Session!vars

LEMMA GeoStutters == [Next]_vars => [Geo!Next]_Geo!vars
  <1>1. UNCHANGED geoVars => UNCHANGED Geo!geoSessionVars
    BY DEF geoVars, Geo!geoSessionVars
  <1>2. [Next]_vars => Geo!Next \/ UNCHANGED geoVars
    BY DEF Next, vars
  <1> QED
    BY RouteStays, <1>1, <1>2 DEF Geo!vars

LEMMA SelectStutters == [Next]_vars => [Select!Next]_Select!vars
  <1>1. UNCHANGED selectVars => UNCHANGED Select!selectionVars
    BY DEF selectVars, Select!selectionVars
  <1>2. [Next]_vars => Select!Next \/ UNCHANGED selectVars
    BY DEF Next, vars
  <1> QED
    BY RouteStays, <1>1, <1>2 DEF Select!vars

LEMMA ResultsStutters == [Next]_vars => [Results!Next]_Results!vars
  <1>1. UNCHANGED resultsVars => UNCHANGED Results!pageVars
    BY DEF resultsVars, Results!pageVars
  <1>2. [Next]_vars => Results!Next \/ UNCHANGED resultsVars
    BY DEF Next, vars
  <1> QED
    BY RouteStays, <1>1, <1>2 DEF Results!vars

LEMMA SearchStutters == [Next]_vars => [Search!Next]_Search!vars
  <1>1. UNCHANGED searchVars => UNCHANGED Search!searchVars
    BY DEF searchVars, Search!searchVars
  <1>2. [Next]_vars => Search!Next \/ UNCHANGED searchVars
    BY DEF Next, vars
  <1> QED
    BY RouteStays, <1>1, <1>2 DEF Search!vars

LEMMA ExportStutters == [Next]_vars => [Export!Next]_Export!vars
  <1>1. UNCHANGED exportVars => UNCHANGED Export!exportVars
    BY DEF exportVars, Export!exportVars
  <1>2. [Next]_vars => Export!Next \/ UNCHANGED exportVars
    BY DEF Next, vars
  <1> QED
    BY RouteStays, <1>1, <1>2 DEF Export!vars

LEMMA SourceStutters == [Next]_vars => [Source!Next]_Source!vars
  <1>1. UNCHANGED sourceVars => UNCHANGED Source!dataVars
    BY DEF sourceVars, Source!dataVars
  <1>2. [Next]_vars => Source!Next \/ UNCHANGED sourceVars
    BY DEF Next, vars
  <1> QED
    BY RouteStays, <1>1, <1>2 DEF Source!vars

LEMMA StyleStutters == [Next]_vars => [Style!Next]_Style!vars
  <1>1. UNCHANGED styleVars => UNCHANGED Style!styleVars
    BY DEF styleVars, Style!styleVars
  <1>2. [Next]_vars => Style!Next \/ UNCHANGED styleVars
    BY DEF Next, vars
  <1> QED
    BY RouteStays, <1>1, <1>2 DEF Style!vars

LEMMA FormStutters == [Next]_vars => [Form!Next]_Form!vars
  <1>1. UNCHANGED formVars => UNCHANGED Form!formVars
    BY DEF formVars, Form!formVars
  <1>2. [Next]_vars => Form!Next \/ UNCHANGED formVars
    BY DEF Next, vars
  <1> QED
    BY RouteStays, <1>1, <1>2 DEF Form!vars

LEMMA AdminStutters == [Next]_vars => [Admin!Next]_Admin!vars
  <1>1. UNCHANGED adminVars => UNCHANGED Admin!adminVars
    BY DEF adminVars, Admin!adminVars
  <1>2. [Next]_vars => Admin!Next \/ UNCHANGED adminVars
    BY DEF Next, vars
  <1> QED
    BY RouteStays, <1>1, <1>2 DEF Admin!vars

LEMMA MapStutters == [Next]_vars => [Map!Next]_Map!vars
  <1>1. UNCHANGED mapVars => UNCHANGED Map!mapVars
    BY DEF mapVars, Map!mapVars, Map!overlayVars, Map!basemapVars, Map!dataLayerVars
  <1>2. [Next]_vars => Map!Next \/ UNCHANGED mapVars
    BY DEF Next, vars
  <1> QED
    BY RouteStays, <1>1, <1>2 DEF Map!vars

LEMMA ToolsStutters == [Next]_vars => [Tools!Next]_Tools!vars
  <1>1. UNCHANGED toolsVars => UNCHANGED Tools!toolVars
    BY DEF toolsVars, Tools!toolVars
  <1>2. [Next]_vars => Tools!Next \/ UNCHANGED toolsVars
    BY DEF Next, vars
  <1> QED
    BY RouteStays, <1>1, <1>2 DEF Tools!vars

------------------------------------------------------------------------------
(* What the pages assume of their constants. *)

LEMMA SessionAssumed == SessionConstants
  BY WebPagesAssumption DEF WebPagesAssumption, SessionConstants

LEMMA GeoAssumed == GeoConstants
  BY WebPagesAssumption DEF WebPagesAssumption, GeoConstants

LEMMA SelectAssumed == MapConstants
  BY WebPagesAssumption DEF WebPagesAssumption, MapConstants

LEMMA SearchAssumed == SearchConstants
  BY WebPagesAssumption DEF WebPagesAssumption, SearchConstants, Search!NoQuery

LEMMA ExportAssumed == ExportConstants
  BY WebPagesAssumption DEF WebPagesAssumption, ExportConstants

LEMMA SourceAssumed == SourceConstants
  BY WebPagesAssumption DEF WebPagesAssumption, SourceConstants

LEMMA StyleAssumed == StyleConstants
  BY WebPagesAssumption DEF WebPagesAssumption, StyleConstants

LEMMA FormAssumed == FormConstants
  BY WebPagesAssumption DEF WebPagesAssumption, FormConstants

LEMMA AdminAssumed == AdminConstants
  BY WebPagesAssumption DEF WebPagesAssumption, AdminConstants

LEMMA ResultsAssumed == ResultsConstants
  BY WebPagesAssumption DEF WebPagesAssumption, ResultsConstants

LEMMA MapAssumed == BasemapConstants
  BY WebPagesAssumption DEF WebPagesAssumption, BasemapConstants

LEMMA ToolsAssumed == ToolsConstants
  BY WebPagesAssumption DEF WebPagesAssumption, ToolsConstants

------------------------------------------------------------------------------
(* The inductive invariant of each page holds, whatever the page. *)

LEMMA SessionInvHolds == Spec => []SessionInv
  <1>1. Init => SessionInv
    BY SessionAssumed, SessionInitial DEF Init
  <1>2. SessionInv /\ [Next]_vars => SessionInv'
    BY SessionAssumed, SessionStutters, SessionStep
  <1> QED
    BY <1>1, <1>2, PTL DEF Spec

LEMMA GeoInvHolds == Spec => []GeoInv
  <1>1. Init => GeoInv
    BY GeoAssumed, GeoInitial DEF Init
  <1>2. GeoInv /\ [Next]_vars => GeoInv'
    BY GeoAssumed, GeoStutters, GeoStep
  <1> QED
    BY <1>1, <1>2, PTL DEF Spec

LEMMA SelectionInvHolds == Spec => []SelectionInv
  <1>1. Init => SelectionInv
    BY SelectionInitial DEF Init
  <1>2. SelectionInv /\ [Next]_vars => SelectionInv'
    BY SelectAssumed, SelectStutters, SelectionStep
  <1> QED
    BY <1>1, <1>2, PTL DEF Spec

LEMMA SearchInvHolds == Spec => []SearchInv
  <1>1. Init => SearchInv
    BY SearchInitial DEF Init
  <1>2. SearchInv /\ [Next]_vars => SearchInv'
    BY SearchAssumed, SearchStutters, SearchStep
  <1> QED
    BY <1>1, <1>2, PTL DEF Spec

LEMMA ExportInvHolds == Spec => []ExportInv
  <1>1. Init => ExportInv
    BY ExportAssumed, ExportInitial DEF Init
  <1>2. ExportInv /\ [Next]_vars => ExportInv'
    BY ExportAssumed, ExportStutters, ExportStep
  <1> QED
    BY <1>1, <1>2, PTL DEF Spec

LEMMA EditorInvHolds == Spec => []EditorInv
  <1>1. Init => EditorInv
    BY StyleAssumed, EditorInitial DEF Init
  <1>2. EditorInv /\ [Next]_vars => EditorInv'
    BY StyleAssumed, StyleStutters, EditorStep
  <1> QED
    BY <1>1, <1>2, PTL DEF Spec

LEMMA PagesInvHolds == Spec => []PagesInv
  <1>1. Init => PagesInv
    BY PagesInitial DEF Init
  <1>2. PagesInv /\ [Next]_vars => PagesInv'
    BY ResultsAssumed, ResultsStutters, PagesStep
  <1> QED
    BY <1>1, <1>2, PTL DEF Spec

LEMMA SourceInvHolds == Spec => []SourceInv
  <1>1. Init => SourceInv
    BY SourceAssumed, SourceInitial DEF Init
  <1>2. SourceInv /\ [Next]_vars => SourceInv'
    BY SourceAssumed, SourceStutters, SourceStep
  <1> QED
    BY <1>1, <1>2, PTL DEF Spec

LEMMA FormInvHolds == Spec => []FormInv
  <1>1. Init => FormInv
    BY FormAssumed, FormInitial DEF Init
  <1>2. FormInv /\ [Next]_vars => FormInv'
    BY FormAssumed, FormStutters, FormStep
  <1> QED
    BY <1>1, <1>2, PTL DEF Spec

LEMMA AdminTypesHold == Spec => []AdminTypes
  <1>1. Init => AdminTypes
    BY AdminAssumed, AdminTypesInitial DEF Init
  <1>2. AdminTypes /\ [Next]_vars => AdminTypes'
    BY AdminAssumed, AdminStutters, AdminTypesStep
  <1> QED
    BY <1>1, <1>2, PTL DEF Spec

LEMMA StyleInvHolds == Spec => []StyleInv
  <1>1. Init => StyleInv
    BY MapAssumed, StyleInitial DEF Init
  <1>2. StyleInv /\ [Next]_vars => StyleInv'
    BY MapAssumed, MapStutters, StyleStep
  <1> QED
    BY <1>1, <1>2, PTL DEF Spec

LEMMA ToolsInvHolds == Spec => []ToolsInv
  <1>1. Init => ToolsInv
    BY ToolsAssumed, ToolsInitial DEF Init
  <1>2. ToolsInv /\ [Next]_vars => ToolsInv'
    BY ToolsAssumed, ToolsStutters, ToolsStep
  <1> QED
    BY <1>1, <1>2, PTL DEF Spec

------------------------------------------------------------------------------
(* The conclusions. *)

(* Every page of both applications keeps the types of its variables, for   *)
(* any tabs, sources, rules, schemas, calls, features, rows, layers,       *)
(* corners, accounts and runs.                                             *)
THEOREM PageTypesCorrect == Spec => []TypeOK
  <1>1. SessionInv => Session!TypeOK
    BY SessionInvIsEnough
  <1>2. SourceInv => Source!TypeOK
    BY SourceInvIsEnough
  <1>3. EditorInv => Style!TypeOK
    BY StyleAssumed, EditorInvIsEnough
  <1>4. FormInv => Form!TypeOK
    BY FormInvIsEnough
  <1>5. AdminTypes => Admin!TypeOK
    BY AdminTypesAreEnough
  <1>6. GeoInv => Geo!TypeOK
    BY GeoInvIsEnough
  <1>7. SelectionInv => Select!TypeOK
    BY SelectionInvIsEnough
  <1>8. SearchInv => Search!TypeOK
    BY SearchInvIsEnough
  <1>9. ExportInv => Export!TypeOK
    BY ExportInvIsEnough
  <1>10. StyleInv => Map!TypeOK
    BY StyleInvIsEnough
  <1>11. ToolsInv => Tools!TypeOK
    BY ToolsInvIsEnough
  <1>12. PagesInv => Results!TypeOK
    BY ResultsAssumed, PagesInvIsEnough
  <1>13. /\ SessionInv /\ SourceInv /\ EditorInv /\ FormInv /\ AdminTypes /\ GeoInv
         /\ SelectionInv /\ SearchInv /\ ExportInv /\ StyleInv /\ ToolsInv /\ PagesInv
         => TypeOK
    BY <1>1, <1>2, <1>3, <1>4, <1>5, <1>6, <1>7, <1>8, <1>9, <1>10, <1>11, <1>12 DEF TypeOK
  <1> QED
    BY <1>13, SessionInvHolds, SourceInvHolds, EditorInvHolds, FormInvHolds, AdminTypesHold,
       GeoInvHolds, SelectionInvHolds, SearchInvHolds, ExportInvHolds, StyleInvHolds,
       ToolsInvHolds, PagesInvHolds, PTL

(* Every variable of the console's session keeps its type, whatever tabs    *)
(* await at the same time.                                                 *)
THEOREM SessionTypeCorrect == Spec => []Session!TypeOK
  <1>1. SessionInv => Session!TypeOK
    BY SessionInvIsEnough
  <1> QED
    BY <1>1, SessionInvHolds, PTL

(* api.ts and auth.tsx of the console: a session that was cleared does not *)
(* come back by itself, for any number of tabs and grants, because the     *)
(* answer to a refresh may bring tokens back and never the user.           *)
THEOREM SignedOutStays == Spec => []SignedOutStaysOut
  <1>1. SessionInv => SignedOutStaysOut
    BY SessionInvIsEnough DEF SignedOutStaysOut
  <1> QED
    BY <1>1, SessionInvHolds, PTL

(* api.ts of the map: a refresh token whose exchange was answered is not    *)
(* presented again, for any number of calls that are refused at once.      *)
THEOREM OneExchange == Spec => []NoSecondExchange
  <1>1. GeoInv => NoSecondExchange
    BY GeoInvIsEnough DEF NoSecondExchange
  <1> QED
    BY <1>1, GeoInvHolds, PTL

(* FeatureDrawer.tsx: the feeder that is drawn is of the selected feature,  *)
(* for any features, and whatever answers come late.                       *)
THEOREM TraceOfWhatIsSelected == Spec => []TraceIsOfSelection
  <1>1. SelectionInv => TraceIsOfSelection
    BY SelectionInvIsEnough DEF TraceIsOfSelection
  <1> QED
    BY <1>1, SelectionInvHolds, PTL

(* search/store.ts, SearchPanel.tsx: the rows that are kept answer the      *)
(* search the store names, and the table of a search is headed by the layer *)
(* they are of, for any layers and queries.                                *)
THEOREM ResultsOfTheQuery == Spec => []ResultsAreOfQuery
  <1>1. SearchInv => ResultsAreOfQuery
    BY SearchInvIsEnough DEF ResultsAreOfQuery
  <1> QED
    BY <1>1, SearchInvHolds, PTL

(* notifications/store.ts: a progress is on the screen exactly while its    *)
(* export is under way, or was taken away by the user.                     *)
THEOREM ProgressOfItsRun == Spec => []ProgressIsOfRun
  <1>1. ExportInv => ProgressIsOfRun
    BY ExportInvIsEnough DEF ProgressIsOfRun
  <1> QED
    BY <1>1, ExportInvHolds, PTL

(* style-engine.ts, StyleEditor.tsx: for any list of rules, and however it  *)
(* was edited and moved, a feature gets the colour of the last rule that   *)
(* matches it and sets one, of the default when there is none.             *)
THEOREM LaterRulesWin == Spec => []RulesMergeInOrder
  <1>1. EditorInv => RulesMergeInOrder
    BY StyleAssumed, EditorInvIsEnough DEF RulesMergeInOrder
  <1> QED
    BY <1>1, EditorInvHolds, PTL

(* hooks.ts, repo.go: for any number of rows and any length of the pages,   *)
(* the rows come in the order that was asked for, none twice, wherever the *)
(* cursor tells where a page ended; and all of them come where it tells    *)
(* every row that is left.                                                 *)
THEOREM PagesComeInOrder == Spec => []PagesInOrder
  <1>1. PagesInv => PagesInOrder
    BY ResultsAssumed, PagesInvIsEnough DEF PagesInOrder
  <1> QED
    BY <1>1, PagesInvHolds, PTL

(* ImportDataSourceDialog.tsx: a source whose import the page was told of   *)
(* is in the list unless it was deleted since, for any number of sources,  *)
(* because an answer that is on its way when one is added is dropped.      *)
THEOREM ImportsAreListed == Spec => []ImportedIsListed
  <1>1. SourceInv => ImportedIsListed
    BY SourceInvIsEnough DEF ImportedIsListed
  <1> QED
    BY <1>1, SourceInvHolds, PTL

(* FormBuilderPage.tsx and the API's Update: no stored version of a form   *)
(* has an identifier twice, whatever is imported, copied or sent at once.   *)
THEOREM StoredFormsAreValid == Spec => []StoredIdsDistinct
  <1>1. FormInv => StoredIdsDistinct
    BY DEF FormInv, StoredIdsDistinct
  <1> QED
    BY <1>1, FormInvHolds, PTL

(* users/hooks.ts, admin/hooks.ts: a list at rest on the screen is what is *)
(* stored, for any accounts, roles and changes, and under any filter.      *)
THEOREM ListsStayCurrent == Spec => []ListsAreCurrent
  <1>1. AdminTypes => ListsAreCurrent
    BY AdminInvIsEnough DEF AdminTypes, ListsAreCurrent
  <1> QED
    BY <1>1, AdminTypesHold, PTL

(* MapCanvas.tsx: a change of the basemap, whatever others come before its *)
(* style is there, loses no overlay and no icon, for any basemaps, layers  *)
(* and subjects.                                                           *)
THEOREM SwapKeepsOverlays == Spec => []SwapLosesNothing
  <1>1. StyleInv => SwapLosesNothing
    BY StyleInvIsEnough DEF SwapLosesNothing
  <1> QED
    BY <1>1, StyleInvHolds, PTL

(* useMeasureInput.ts, useSelectInput.ts, useFeatureClick: a click that is *)
(* a corner for one tool is none for another and selects nothing, for any  *)
(* number of corners.                                                      *)
THEOREM OneToolTakes == Spec => OneTaker
  <1>1. Init => ToolsInv
    BY ToolsAssumed, ToolsInitial DEF Init
  <1>2. ToolsInv /\ [Next]_vars => ToolsInv'
    BY ToolsAssumed, ToolsStutters, ToolsStep
  <1>3. ToolsInv /\ [Next]_vars => Corners_OfOne
    BY ToolsAssumed, ToolsStutters, OneTakes
  <1>4. Corners_OfOne <=>
          /\ measure'.n > measure.n => select'.n <= select.n /\ picked' = picked
          /\ select'.n > select.n => picked' = picked
    BY DEF Corners_OfOne
  <1> QED
    BY <1>1, <1>2, <1>3, <1>4, PTL DEF Spec, OneTaker, Tools!OneTaker
==============================================================================
