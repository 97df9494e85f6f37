------------------------------ MODULE MapSelection ------------------------------
(***************************************************************************)
(* What is selected on the enterprise map, and what the drawer beside the  *)
(* map does with it: tabs, photos, contents of an area, feeder trace.      *)
(*                                                                         *)
(*   apps/geo-web/src/features/features/FeatureDrawer.tsx, store.ts,       *)
(*   pickerStore.ts, FeaturePickerMenu.tsx, traceStore.ts, traceHooks.ts,  *)
(*   AttachmentLightbox.tsx; features/spatial/BufferMenu.tsx, store.ts;    *)
(*   features/map/hooks/useFeatureClick.ts, useFeatureContextMenu.ts       *)
(*                                                                         *)
(* A feature is selected by a click, from a menu or from a table; a shape  *)
(* that was drawn or a buffer is a local selection.  Which clicks reach    *)
(* the features is the matter of MapTools.tla: here a click may always     *)
(* come.  The function of an effect is part of the action that causes it.  *)
(***************************************************************************)
EXTENDS Naturals, FiniteSets

CONSTANTS
  Routes,
  Features,
  Shapes,        \* local selections
  Nobody,        \* nothing is selected
  Traceable,     \* features of the layers of TRACEABLE_TABLES
  Polygons,      \* features with an area
  Assessed,      \* features with condition fields
  Photographed,  \* features with attachments a lightbox can show
  NumPhotos      \* how many they have

VARIABLES
  route,
  chosen,        \* the selection store: a feature, a shape or nobody
  picker,        \* features the picker menu offers, none when it is closed
  buffer,        \* feature the buffer menu is of
  known,         \* features whose attributes were fetched
  pictured,      \* features whose attachments were fetched
  drawerTab,     \* tab of FeatureDrawer
  lightbox,      \* picture the lightbox shows, 0 when it is closed
  asked,         \* feature the trace panel on screen has asked a trace of
  dropped,       \* traces that are out and whose panel is gone
  traced,        \* the trace store: feature whose feeder is drawn
  querying,      \* area the contents panel on screen has asked the contents of
  found          \* the spatial store: area whose contents are drawn

selectionVars == <<chosen, picker, buffer, known, pictured, drawerTab, lightbox, asked, dropped, traced,
                   querying, found>>
vars == <<route, selectionVars>>

menuVars == <<picker, buffer>>
NoPicker == {}
NoBuffer == Nobody
DrawerTabs == {"attributes", "condition", "media", "trace"}
Photos(f) == IF f \in Photographed THEN NumPhotos ELSE 0

Init ==
  /\ route \in Routes
  /\ chosen = Nobody /\ picker = NoPicker /\ buffer = NoBuffer /\ known = {} /\ pictured = {}
  /\ drawerTab = "attributes" /\ lightbox = 0
  /\ asked = Nobody /\ dropped = {} /\ traced = Nobody
  /\ querying = Nobody /\ found = Nobody

-----------------------------------------------------------------------------
(* What the drawer shows of a selection. *)

(* The tabs it offers: condition and media depend on what was fetched.     *)
Offered(sel, seen, pics) ==
  {"attributes"}
    \union (IF sel \in seen \intersect Assessed THEN {"condition"} ELSE {})
    \union (IF sel \in Features /\ (sel \notin pics \/ Photos(sel) > 0) THEN {"media"} ELSE {})
    \union (IF sel \in Traceable THEN {"trace"} ELSE {})

(* There is no bar when it would offer the attributes only. *)
TabBar(sel, seen, pics) ==
  IF Offered(sel, seen, pics) = {"attributes"} THEN {} ELSE Offered(sel, seen, pics)

(* What is mounted below the tabs: nothing of a feature before it is known. *)
Sections(sel, tab, seen, pics) ==
  IF sel \in Shapes THEN {"contents"}
  ELSE IF sel \notin seen THEN {}
  ELSE {tab}
         \union (IF tab = "attributes" /\ sel \in Polygons THEN {"contents"} ELSE {})
         \union (IF tab = "media" /\ sel \in pics THEN {"thumbnails"} ELSE {})

(* A callback given to mutate() is not called once its panel is gone, and  *)
(* the state of a panel goes with it.                                      *)
Settle(sel, tab, seen, pics) ==
  LET shown == IF tab \in Offered(sel, seen, pics) THEN tab ELSE "attributes"
      mounted == Sections(sel, shown, seen, pics)
  IN /\ drawerTab' = shown
     /\ IF "trace" \in mounted \/ asked = Nobody
          THEN UNCHANGED <<asked, dropped>>
          ELSE asked' = Nobody /\ dropped' = dropped \union {asked}
     /\ querying' = IF "contents" \in mounted THEN querying ELSE Nobody
     /\ lightbox' = IF "thumbnails" \in mounted THEN lightbox ELSE 0

(* The drawer starts a selection that is another one on the first tab and  *)
(* without the trace of the last one.                                      *)
ForgetsTrace_Never(sel) == UNCHANGED traced
ForgetsTrace(sel) == traced' = IF sel = chosen THEN traced ELSE Nobody

Chooses(sel) ==
  /\ chosen' = sel
  /\ ForgetsTrace(sel)
  /\ Settle(sel, IF sel = chosen THEN drawerTab ELSE "attributes", known, pictured)
  /\ UNCHANGED <<known, pictured, found>>

-----------------------------------------------------------------------------
(* The map: useFeatureClick, useFeatureContextMenu and the two menus.      *)

drawerVars == <<chosen, known, pictured, drawerTab, lightbox, asked, dropped, traced, querying,
                found>>

(* A click anywhere else closes a menu, and so does Escape. *)
CloseMenus == picker' = NoPicker /\ buffer' = NoBuffer

ClickBeside == menuVars # <<NoPicker, NoBuffer>> /\ CloseMenus /\ UNCHANGED drawerVars

(* Whether Escape also clears the selection depends on the results table   *)
(* in one of its two listeners, and not in the other one (MapTools.tla).   *)
PressEscape == Chooses(Nobody) /\ CloseMenus

ClickNothing == Chooses(Nobody) /\ CloseMenus
ClickFeature(f) == Chooses(f) /\ CloseMenus

ClickSeveral(fs) ==
  /\ Cardinality(fs) > 1
  /\ picker' = fs /\ buffer' = NoBuffer
  /\ UNCHANGED drawerVars

(* The right button is no click: a picker stays. *)
ContextMenu(f) ==
  /\ buffer' = f
  /\ UNCHANGED <<drawerVars, picker>>

PickCandidate(f) == f \in picker /\ Chooses(f) /\ CloseMenus

(* A preset, or a radius of one's own that Enter may end, around the point *)
(* of the click or along the whole feature.                                *)
ApplyBuffer(s) ==
  /\ buffer # NoBuffer
  /\ Chooses(s)
  /\ buffer' = NoBuffer /\ picker' \in {NoPicker, picker}

(* Done of the select tool, a row of a table. *)
SelectDrawn(s) == Chooses(s) /\ CloseMenus
SelectRow(f) == Chooses(f) /\ CloseMenus

-----------------------------------------------------------------------------
(* The drawer. *)

FeatureReturns ==
  /\ chosen \in Features \ known
  /\ known' = known \union {chosen}
  /\ Settle(chosen, drawerTab, known', pictured)
  /\ UNCHANGED <<chosen, menuVars, pictured, traced, found>>

AttachmentsReturn ==
  /\ chosen \in Features \ pictured
  /\ pictured' = pictured \union {chosen}
  /\ Settle(chosen, drawerTab, known, pictured')
  /\ UNCHANGED <<chosen, menuVars, known, traced, found>>

(* A feature that is not selected leaves the cache after a while. *)
Evict(f) ==
  /\ f \in known \ {chosen}
  /\ known' = known \ {f} /\ pictured' = pictured \ {f}
  /\ UNCHANGED <<chosen, menuVars, drawerTab, lightbox, asked, dropped, traced, querying, found>>

SetTab(t) ==
  /\ chosen \in Features /\ t \in TabBar(chosen, known, pictured)
  /\ Settle(chosen, t, known, pictured)
  /\ CloseMenus
  /\ UNCHANGED <<chosen, known, pictured, traced, found>>

OnClose ==
  /\ chosen # Nobody
  /\ chosen' = Nobody /\ found' = Nobody /\ traced' = Nobody
  /\ Settle(Nobody, "attributes", known, pictured)
  /\ CloseMenus
  /\ UNCHANGED <<known, pictured>>

(* The sections on screen. *)
OnScreen == Sections(chosen, drawerTab, known, pictured)

(* MediaPanel: a thumbnail is opened. *)
OpenAt(i) ==
  /\ "thumbnails" \in OnScreen /\ i \in 1..Photos(chosen)
  /\ lightbox' = i /\ CloseMenus
  /\ UNCHANGED <<chosen, known, pictured, drawerTab, asked, dropped, traced, querying, found>>

(* AttachmentLightbox: prev, next and close. *)
TurnLightbox ==
  /\ lightbox # 0
  /\ lightbox' \in {0, IF lightbox > 1 THEN lightbox - 1 ELSE Photos(chosen),
                    IF lightbox < Photos(chosen) THEN lightbox + 1 ELSE 1}
  /\ UNCHANGED <<chosen, menuVars, known, pictured, drawerTab, asked, dropped, traced, querying,
                 found>>

-----------------------------------------------------------------------------
(* ContentsPanel: what is inside the selected area.  The table of the      *)
(* contents is in MapSearch.tla.                                           *)

ContentsButtons == IF "contents" \in OnScreen /\ querying = Nobody THEN {"show", "table"} ELSE {}

ShowContents ==
  /\ "show" \in ContentsButtons
  /\ querying' = chosen /\ CloseMenus
  /\ UNCHANGED <<chosen, known, pictured, drawerTab, lightbox, asked, dropped, traced, found>>

(* The panel is the same one for the next area: what it draws then is of   *)
(* the area it was asked for.  A request that fails draws nothing.         *)
ContentsReturn ==
  /\ querying # Nobody /\ querying' = Nobody
  /\ found' \in {querying, found}
  /\ UNCHANGED <<chosen, menuVars, known, pictured, drawerTab, lightbox, asked, dropped, traced>>

-----------------------------------------------------------------------------
(* TracePanel. *)

TraceButtons ==
  IF "trace" \notin OnScreen THEN {}
  ELSE IF traced # Nobody THEN {"zoom", "clear"}
  ELSE IF asked = Nobody THEN {"trace"} ELSE {}

OnTrace ==
  /\ "trace" \in TraceButtons
  /\ asked' = chosen /\ CloseMenus
  /\ UNCHANGED <<chosen, known, pictured, drawerTab, lightbox, dropped, traced, querying, found>>

TraceReturns ==
  /\ asked # Nobody /\ asked' = Nobody
  /\ traced' \in {asked, traced}
  /\ UNCHANGED <<chosen, menuVars, known, pictured, drawerTab, lightbox, dropped, querying, found>>

(* The answer to a panel that is gone. *)
LateTrace(f) == UNCHANGED traced

LateTraceReturns(f) ==
  /\ f \in dropped /\ dropped' = dropped \ {f}
  /\ LateTrace(f)
  /\ UNCHANGED <<chosen, menuVars, known, pictured, drawerTab, lightbox, asked, querying, found>>

OnClear ==
  /\ "clear" \in TraceButtons
  /\ traced' = Nobody /\ CloseMenus
  /\ UNCHANGED <<chosen, known, pictured, drawerTab, lightbox, asked, dropped, querying, found>>

-----------------------------------------------------------------------------
(* The tab shows this page, and goes on showing it. *)
Here == route = "select" /\ UNCHANGED route

Next ==
  /\ Here
  /\ \/ ClickNothing \/ ClickBeside \/ PressEscape \/ FeatureReturns \/ AttachmentsReturn \/ OnClose
     \/ TurnLightbox \/ ShowContents \/ ContentsReturn \/ OnTrace \/ TraceReturns \/ OnClear
     \/ \E f \in Features : ClickFeature(f) \/ ContextMenu(f) \/ PickCandidate(f)
                              \/ SelectRow(f) \/ Evict(f) \/ LateTraceReturns(f)
     \/ \E fs \in SUBSET Features : ClickSeveral(fs)
     \/ \E s \in Shapes : ApplyBuffer(s) \/ SelectDrawn(s)
     \/ \E t \in DrawerTabs : SetTab(t)
     \/ \E f \in Features : \E i \in 1..Photos(f) : OpenAt(i)

Spec == Init /\ [][Next]_vars

-----------------------------------------------------------------------------
Somebody == Features \union {Nobody}
TypeOK ==
  /\ route \in Routes
  /\ chosen \in Features \union Shapes \union {Nobody}
  /\ picker \subseteq Features /\ buffer \in Somebody
  /\ known \subseteq Features /\ pictured \subseteq Features
  /\ drawerTab \in DrawerTabs /\ lightbox \in Nat
  /\ asked \in Somebody /\ dropped \subseteq Features /\ traced \in Somebody
  /\ querying \in Polygons \union Shapes \union {Nobody}
  /\ found \in Polygons \union Shapes \union {Nobody}

(* The feeder that is drawn, and whose length the drawer tells, is of the  *)
(* feature that is selected, whatever answers were under way when the      *)
(* selection changed (FeatureDrawer.tsx: the effect of the selection, and  *)
(* the callbacks of TracePanel.onTrace).                                   *)
TraceIsOfSelection == traced # Nobody => traced = chosen
=============================================================================
