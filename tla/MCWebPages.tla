----------------------------- MODULE MCWebPages -----------------------------
(* The other pages of both web applications, for TLC.  Each is explored by  *)
(* itself: a behaviour stays with the page it begins on.                    *)
EXTENDS Naturals, FiniteSets, Sequences

CONSTANTS
  Routes,
  Connections, Unlinked, MaxSources,                          \* DataSources
  Operators, Cuts, Colors, MaxRules, MaxEdits, MaxSaves,      \* StyleEditor
  MaxId, CounterGap, MaxCounter, MaxFields, MaxVersions, MaxOut, Texts,\* FormEditing
  Tabs, MaxGrants,                                            \* WebSession
  Calls, MaxIssued,                                           \* GeoSession
  Features, Shapes, Nobody, Traceable, Polygons, Assessed, Photographed, NumPhotos,\* MapSelection
  Ids, Values, PageLimit,                                     \* ResultPages
  SearchLayers, Queries,                                      \* MapSearch
  Basemaps, Layers, Subjects, MaxWaits,                       \* MapStyle
  Corners,                                                    \* MapTools
  Accounts, Me, Roles, AuditLimit, MaxToggles,                \* AdminConsole
  MaxRuns, MaxRightsChanges                                   \* MapExport

ASSUME WebPagesAssumption ==
  /\ Unlinked \notin Connections /\ MaxSources \in Nat
  /\ Cuts \subseteq Nat \ {0, 1} /\ Colors \subseteq Nat \ {0} /\ Colors # {}
  /\ MaxRules \in Nat \ {0} /\ MaxEdits \in Nat
  /\ {MaxId, MaxFields} \subseteq Nat \ {0} /\ {CounterGap, MaxCounter} \subseteq Nat /\ Texts # {}
  /\ Nobody \notin Features \union Shapes /\ Features \intersect Shapes = {}
  /\ Traceable \union Polygons \union Assessed \union Photographed \subseteq Features
  /\ NumPhotos \in Nat /\ {MaxGrants, MaxIssued} \subseteq Nat /\ "none" \notin Queries
  /\ Ids \subseteq Nat \ {0} /\ IsFiniteSet(Ids) /\ Values \subseteq Nat \ {0} /\ PageLimit \in Nat \ {0}
  /\ SearchLayers \subseteq Nat \ {0}
  /\ "nothing" \in Subjects
  /\ Corners \in Nat /\ Corners >= 3
  /\ Me \in Accounts /\ {"superuser", "viewer"} \subseteq Roles /\ AuditLimit \in Nat \ {0}
  /\ {MaxRuns, MaxRightsChanges} \subseteq Nat

VARIABLES
  route,
  sources, catalog, fetch, adding, resync, linking, linkSaves, imported,
  styles, serverStyle, layer, editor, iconPicker, edits, saving,
  versions, cached, refetch, page, builder, fieldCounter, importer, drawer, updates,
  publishing,
  held, tabs, grants, alive, unused, signedOut,
  kept, auth, gate, calls, refreshes, issued, fresh, spendable, exchanged,
  chosen, picker, buffer, known, pictured, drawerTab, lightbox, asked, dropped,
  traced, querying, found,
  value, order, pages,
  visible, panel, fields, draft, active, rows, running, searches, table, sortOf,
  basemapId, shown, lastBasemap, style, idleWaits, styleWaits, listed, switchedOn,
  mounted, marker, subject, overlay, icon,
  measure, select, picked, tableOpen,
  modal, accounts, rights, filter, lists, userRows, layerShown, saves, saved, audit,
  onMap, drawn, granted, changes, offered, token, buttons, dialog, print, runs,
  toasts, file

sourceVars  == <<sources, catalog, fetch, adding, resync, linking, linkSaves,
                 imported>>
styleVars   == <<styles, serverStyle, layer, editor, iconPicker, edits, saving>>
formVars    == <<versions, cached, refetch, page, builder, fieldCounter, importer,
                 drawer, updates, publishing>>
sessionVars == <<held, tabs, grants, alive, unused, signedOut>>
geoVars     == <<kept, auth, gate, calls, refreshes, issued, fresh, spendable,
                 exchanged>>
selectVars  == <<chosen, picker, buffer, known, pictured, drawerTab, lightbox,
                 asked, dropped, traced, querying, found>>
resultsVars == <<value, order, pages>>
searchVars  == <<visible, panel, fields, draft, active, rows, running, searches,
                 table, sortOf>>
mapVars     == <<basemapId, shown, lastBasemap, style, idleWaits, styleWaits,
                 listed, switchedOn, mounted, marker, subject, overlay, icon>>
toolsVars   == <<measure, select, picked, tableOpen>>
adminVars   == <<modal, accounts, rights, filter, lists, userRows, layerShown,
                 saves, saved, audit>>
exportVars  == <<onMap, drawn, granted, changes, offered, token, buttons, dialog,
                 print, runs, toasts, file>>
vars == <<route, sourceVars, styleVars, formVars, sessionVars, geoVars, selectVars,
          resultsVars, searchVars, mapVars, toolsVars, adminVars, exportVars>>

(* The pages, over the variables above. *)
Source  == INSTANCE DataSources WITH saves <- linkSaves
Style   == INSTANCE StyleEditor WITH Values <- Cuts, picker <- iconPicker
Form    == INSTANCE FormEditing
Session == INSTANCE WebSession
Geo     == INSTANCE GeoSession
Select  == INSTANCE MapSelection
Results == INSTANCE ResultPages
Search  == INSTANCE MapSearch WITH Layers <- SearchLayers
Map     == INSTANCE MapStyle
Tools   == INSTANCE MapTools
Admin   == INSTANCE AdminConsole WITH Totals <- [t \in {"", "typed"} |-> IF t = "" THEN 2 ELSE 1]
Export  == INSTANCE MapExport

(* Data of a page that is not shown is not varied. *)
Init ==
  /\ Source!Init /\ Style!Init /\ Form!Init /\ Session!Init /\ Geo!Init
  /\ Select!Init /\ Results!Init /\ Search!Init /\ Map!Init /\ Tools!Init /\ Admin!Init
  /\ Export!Init
  /\ route # "sources" => fetch.stage = "none"
  /\ route # "style" => styles[1].rules = << >>
  /\ route # "pages" => \A i \in Ids : value[i] = 0
  /\ route # "basemap" => basemapId = CHOOSE b \in Basemaps : TRUE
  /\ route # "accounts" => \A u \in Accounts : ~accounts[u].pending
  /\ route \notin {"layer export", "bundle export"} => ~drawn

Next ==
  \/ /\ Source!Next
     /\ UNCHANGED <<styleVars, formVars, sessionVars, geoVars, selectVars,
                    resultsVars, searchVars, mapVars, toolsVars, adminVars,
                    exportVars>>
  \/ /\ Style!Next
     /\ UNCHANGED <<sourceVars, formVars, sessionVars, geoVars, selectVars,
                    resultsVars, searchVars, mapVars, toolsVars, adminVars,
                    exportVars>>
  \/ /\ Form!Next
     /\ UNCHANGED <<sourceVars, styleVars, sessionVars, geoVars, selectVars,
                    resultsVars, searchVars, mapVars, toolsVars, adminVars,
                    exportVars>>
  \/ /\ Session!Next
     /\ UNCHANGED <<sourceVars, styleVars, formVars, geoVars, selectVars,
                    resultsVars, searchVars, mapVars, toolsVars, adminVars,
                    exportVars>>
  \/ /\ Geo!Next
     /\ UNCHANGED <<sourceVars, styleVars, formVars, sessionVars, selectVars,
                    resultsVars, searchVars, mapVars, toolsVars, adminVars,
                    exportVars>>
  \/ /\ Select!Next
     /\ UNCHANGED <<sourceVars, styleVars, formVars, sessionVars, geoVars,
                    resultsVars, searchVars, mapVars, toolsVars, adminVars,
                    exportVars>>
  \/ /\ Results!Next
     /\ UNCHANGED <<sourceVars, styleVars, formVars, sessionVars, geoVars,
                    selectVars, searchVars, mapVars, toolsVars, adminVars,
                    exportVars>>
  \/ /\ Search!Next
     /\ UNCHANGED <<sourceVars, styleVars, formVars, sessionVars, geoVars,
                    selectVars, resultsVars, mapVars, toolsVars, adminVars,
                    exportVars>>
  \/ /\ Map!Next
     /\ UNCHANGED <<sourceVars, styleVars, formVars, sessionVars, geoVars,
                    selectVars, resultsVars, searchVars, toolsVars, adminVars,
                    exportVars>>
  \/ /\ Tools!Next
     /\ UNCHANGED <<sourceVars, styleVars, formVars, sessionVars, geoVars,
                    selectVars, resultsVars, searchVars, mapVars, adminVars,
                    exportVars>>
  \/ /\ Admin!Next
     /\ UNCHANGED <<sourceVars, styleVars, formVars, sessionVars, geoVars,
                    selectVars, resultsVars, searchVars, mapVars, toolsVars,
                    exportVars>>
  \/ /\ Export!Next
     /\ UNCHANGED <<sourceVars, styleVars, formVars, sessionVars, geoVars,
                    selectVars, resultsVars, searchVars, mapVars, toolsVars,
                    adminVars>>

Spec ==
  /\ Init /\ [][Next]_vars
  /\ Geo!Fairness

-----------------------------------------------------------------------------
(* The properties of the modules, by their names. *)

(* Every variable of the page that is shown stays in its range. *)
TypeOK ==
  /\ route = "sources" => Source!TypeOK
  /\ route = "style" => Style!TypeOK
  /\ route = "form" => Form!TypeOK
  /\ route = "session" => Session!TypeOK
  /\ route = "geo" => Geo!TypeOK
  /\ route = "select" => Select!TypeOK
  /\ route = "pages" => Results!TypeOK
  /\ route = "search" => Search!TypeOK
  /\ route = "basemap" => Map!TypeOK
  /\ route = "tools" => Tools!TypeOK
  /\ route \in {"accounts", "rights", "history"} => Admin!TypeOK
  /\ route \in {"layer export", "bundle export", "print"} => Export!TypeOK

(* ImportDataSourceDialog.tsx: what was imported is in the list. *)
ImportedIsListed == Source!ImportedIsListed

(* StyleEditor.tsx: all matching rules merge, the last one wins. *)
RulesMergeInOrder == Style!RulesMergeInOrder

(* FormBuilderPage.tsx, Update: no stored form has an id twice. *)
StoredIdsDistinct == Form!StoredIdsDistinct

(* api.ts and auth.tsx: a cleared session does not come back by itself. *)
SignedOutStaysOut == Session!SignedOutStaysOut

(* api.ts: a refresh token whose answer came is not presented again. *)
NoSecondExchange == Geo!NoSecondExchange

(* FeatureDrawer.tsx: the trace that is drawn is of the selection. *)
TraceIsOfSelection == Select!TraceIsOfSelection

(* spatial/hooks.ts, PageByGeometry: pages come in order, no row twice. *)
PagesInOrder == Results!PagesInOrder

(* search/store.ts, SearchPanel.tsx: the rows that are kept answer the      *)
(* search it names, and the table of a search is of the layer of its rows.  *)
ResultsAreOfQuery == Search!ResultsAreOfQuery /\ Search!TableNamesItsLayer

(* MapCanvas.tsx: a change of the basemap loses no overlay and no icon. *)
SwapLosesNothing == Map!SwapLosesNothing

(* users/hooks.ts, admin/hooks.ts: a list at rest is what is stored. *)
ListsAreCurrent == Admin!ListsAreCurrent

(* notifications/store.ts: a progress is shown as long as its run. *)
ProgressIsOfRun == Export!ProgressIsOfRun

(* api.ts: a call that waits for a refresh ends. *)
CallsEnd == Geo!CallsEnd

(* useMeasureInput.ts, useSelectInput.ts: one tool takes a click. *)
OneTaker == Tools!OneTaker
=============================================================================
