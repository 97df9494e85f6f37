--------------------------------- MODULE MapStyle ---------------------------------
(***************************************************************************)
(* What the style of the enterprise map holds: the basemap, the data       *)
(* layers and the overlays, and what a change of the basemap does to them. *)
(*                                                                         *)
(*   apps/geo-web/src/features/map/components/MapCanvas.tsx,               *)
(*   BasemapSwitcher.tsx; map/store/mapStore.ts; map/basemaps/basemaps.ts; *)
(*   map/hooks/useLayerRenderer.ts and the renderers of the overlays:      *)
(*   useSelectionHighlight, useQueryHighlight, useSearchHighlight,         *)
(*   useTraceHighlight, useBufferRenderer, useMeasureRenderer,             *)
(*   useSelectRenderer; useSpriteLoader for the icons of the data layers   *)
(*                                                                         *)
(* One thing at a time is drawn by the overlays, and the icons are one.    *)
(* The map library is external: a style that was set is "changed" until    *)
(* its styledata event, "loading" while tiles are fetched, then "loaded",  *)
(* which is when isStyleLoaded() holds; an idle event may come then.       *)
(***************************************************************************)
EXTENDS Naturals, Sequences, SequencesExt

CONSTANTS
  Routes,
  Basemaps,
  Layers,        \* data layers
  Subjects,      \* what there may be to draw, "nothing" being one of them
  MaxWaits       \* switches of the basemap that wait at the same time

VARIABLES
  route,
  basemapId,     \* the map store: the basemap that is chosen
  shown,         \* the basemap of the style
  lastBasemap,   \* lastBasemapRef
  style,         \* "changed", "loading" or "loaded"
  idleWaits,     \* switches that wait for an idle event
  styleWaits,    \* switches that wait for a styledata event
  listed,        \* the list of the layers was fetched
  switchedOn,    \* layers that are switched on
  mounted,       \* layers of the style
  marker,        \* the style has the layer every data layer is put below
  subject,       \* what there is to draw in the stores of the overlays
  overlay,       \* overlay[o]: where it is in the style, and what it draws
  icon           \* whether the icon is in the style, and whether it is being drawn

overlayVars == <<subject, overlay>>
basemapVars == <<basemapId, shown, lastBasemap, style, idleWaits, styleWaits>>
dataLayerVars == <<listed, switchedOn, mounted, marker>>
mapVars == <<basemapVars, dataLayerVars, overlayVars, icon>>
vars == <<route, mapVars>>

NoBasemap == "none"
Absent == [place |-> "absent", draws |-> "nothing"]
Overlays == {"selection", "query", "search", "trace", "buffer", "measure", "select"}

(* The effects of the first render: the first basemap waits for an idle    *)
(* event, the overlays for a styledata event.                              *)
Init ==
  /\ route \in Routes
  /\ basemapId \in Basemaps /\ shown = basemapId /\ lastBasemap = NoBasemap
  /\ style = "changed" /\ idleWaits = <<basemapId>> /\ styleWaits = << >>
  /\ listed = FALSE /\ switchedOn = {} /\ mounted = {} /\ marker = FALSE
  /\ subject = "nothing" /\ overlay = [o \in Overlays |-> Absent]
  /\ icon = [there |-> FALSE, loading |-> FALSE]

-----------------------------------------------------------------------------
(* What the hooks do to the style. *)

(* What the renderers draw of a thing.  A shape that was drawn and a       *)
(* buffer are both local selections, told apart by their properties.       *)
SelectionHighlight(x) == IF x \in {"feature", "shape"} THEN x ELSE "nothing"
BufferRenderer(x) == IF x = "buffer" THEN x ELSE "nothing"
QueryHighlight(x) == IF x = "contents" THEN x ELSE "nothing"
SearchHighlight(x) == IF x = "results" THEN x ELSE "nothing"
TraceHighlight(x) == IF x = "feeder" THEN x ELSE "nothing"
MeasureRenderer(x) == IF x = "measurement" THEN x ELSE "nothing"
SelectRenderer(x) == IF x = "lasso" THEN x ELSE "nothing"

Drawing(o, x) ==
  CASE o = "selection" -> SelectionHighlight(x) [] o = "buffer" -> BufferRenderer(x)
    [] o = "query" -> QueryHighlight(x)         [] o = "search" -> SearchHighlight(x)
    [] o = "trace" -> TraceHighlight(x)         [] o = "measure" -> MeasureRenderer(x)
    [] o = "select" -> SelectRenderer(x)

(* paint(): an overlay that is not in the style is put on top of it.       *)
Painted(o, v) ==
  [place |-> IF v.place = "absent" THEN "above" ELSE v.place, draws |-> Drawing(o, subject)]

(* applyAll: the marker is put on top of what is there, data layers below. *)
ApplyAll(known, on) ==
  IF style = "loaded" /\ known
    THEN /\ marker' = TRUE /\ mounted' = on
         /\ overlay' = IF marker THEN overlay
                       ELSE [o \in Overlays |-> IF overlay[o].place = "above"
                                                  THEN [overlay[o] EXCEPT !.place = "below"]
                                                  ELSE overlay[o]]
    ELSE UNCHANGED <<marker, mounted, overlay>>

(* applySwap, for one or several that waited: setStyle drops every layer.  *)
Swap(bs) ==
  /\ shown' = Last(bs) /\ style' = "changed" /\ styleWaits' = styleWaits \o bs
  /\ mounted' = {} /\ marker' = FALSE /\ overlay' = [o \in Overlays |-> Absent]
  /\ icon' \in {icon, [icon EXCEPT !.there = FALSE]}

-----------------------------------------------------------------------------
(* The user and the server. *)

(* The effect of MapCanvas: a basemap that is the last one recorded is     *)
(* skipped.                                                                *)
SetBasemap(b) ==
  /\ b # basemapId /\ basemapId' = b
  /\ UNCHANGED <<listed, switchedOn, subject>>
  /\ \/ /\ lastBasemap = b
        /\ UNCHANGED <<shown, lastBasemap, style, idleWaits, styleWaits, mounted, marker, overlay,
                       icon>>
     \/ /\ lastBasemap # b /\ style = "loaded" /\ lastBasemap = NoBasemap
        /\ lastBasemap' = b
        /\ UNCHANGED <<shown, style, idleWaits, styleWaits, mounted, marker, overlay, icon>>
     \/ /\ lastBasemap # b /\ style = "loaded" /\ lastBasemap # NoBasemap
        /\ Swap(<<b>>)
        /\ UNCHANGED <<lastBasemap, idleWaits>>
     \/ /\ lastBasemap # b /\ style # "loaded" /\ Len(idleWaits) < MaxWaits
        /\ idleWaits' = Append(idleWaits, b)
        /\ UNCHANGED <<shown, lastBasemap, style, styleWaits, mounted, marker, overlay, icon>>

LayersReturn ==
  /\ ~listed /\ listed' = TRUE
  /\ ApplyAll(TRUE, switchedOn)
  /\ UNCHANGED <<basemapVars, switchedOn, subject, icon>>

ToggleLayer(l) ==
  /\ listed
  /\ switchedOn' = (switchedOn \union {l}) \ (switchedOn \intersect {l})
  /\ ApplyAll(TRUE, switchedOn')
  /\ UNCHANGED <<basemapVars, listed, subject, icon>>

(* The stores change.  An effect that finds the style busy, which the data *)
(* of the effect before it may have made it, leaves it to the next event.  *)
ChangeSubject(x) ==
  /\ x # subject /\ subject' = x
  /\ \E os \in SUBSET {o \in Overlays : Drawing(o, x) # Drawing(o, subject)} :
       /\ os # {} => style = "loaded"
       /\ overlay' = [o \in Overlays |->
            IF o \notin os THEN overlay[o]
            ELSE [place |-> Painted(o, overlay[o]).place, draws |-> Drawing(o, x)]]
  /\ UNCHANGED <<basemapVars, dataLayerVars, icon>>

-----------------------------------------------------------------------------
(* The map. *)

(* Every renderer listens to styledata, and paints whatever the style says. *)
OnStyle_WhenLoaded(vs) ==
  IF style = "loaded" THEN [o \in Overlays |-> Painted(o, vs[o])] ELSE vs
OnStyle(vs) == [o \in Overlays |-> Painted(o, vs[o])]

(* The icons are looked for at each event, unless they are being drawn.    *)
EnsureIcon == icon' = [icon EXCEPT !.loading = ~icon.there]

(* The event of a style that was set, after which its tiles are fetched.   *)
StyleData ==
  /\ style = "changed" /\ style' = "loading"
  /\ styleWaits' = << >>
  /\ lastBasemap' = IF styleWaits = << >> THEN lastBasemap ELSE Last(styleWaits)
  /\ overlay' = OnStyle(overlay) /\ EnsureIcon
  /\ UNCHANGED <<basemapId, shown, idleWaits, dataLayerVars, subject>>

(* The event of layers that were added, moved or removed. *)
StyleDataAgain ==
  /\ style # "changed"
  /\ overlay' = OnStyle(overlay) /\ EnsureIcon
  /\ UNCHANGED <<basemapVars, dataLayerVars, subject>>

(* An icon that was drawn for a style is added to the one there is now.    *)
IconDrawn ==
  /\ icon.loading /\ icon' = [there |-> TRUE, loading |-> FALSE]
  /\ UNCHANGED <<basemapVars, dataLayerVars, overlayVars>>

TilesLoad ==
  /\ style = "loading" /\ style' = "loaded"
  /\ UNCHANGED <<basemapId, shown, lastBasemap, idleWaits, styleWaits, dataLayerVars, overlayVars,
                 icon>>

(* The view moves, or the data of an overlay is changed. *)
TilesMiss ==
  /\ style = "loaded" /\ style' = "loading"
  /\ UNCHANGED <<basemapId, shown, lastBasemap, idleWaits, styleWaits, dataLayerVars, overlayVars,
                 icon>>

(* The switches that waited come one after the other; the first of all is  *)
(* only recorded.                                                          *)
Idle ==
  /\ style = "loaded" /\ idleWaits' = << >>
  /\ LET due == IF lastBasemap = NoBasemap /\ idleWaits # << >> THEN Tail(idleWaits)
                ELSE idleWaits
     IN /\ lastBasemap' = IF due = idleWaits THEN lastBasemap ELSE Head(idleWaits)
        /\ IF due # << >> THEN Swap(due)
           ELSE ApplyAll(listed, switchedOn) /\ UNCHANGED <<shown, style, styleWaits, icon>>
  /\ UNCHANGED <<basemapId, listed, switchedOn, subject>>

-----------------------------------------------------------------------------
(* The tab shows this page, and goes on showing it. *)
Here == route = "basemap" /\ UNCHANGED route

Next ==
  /\ Here
  /\ \/ LayersReturn \/ StyleData \/ StyleDataAgain \/ TilesLoad \/ TilesMiss \/ Idle
     \/ IconDrawn
     \/ \E b \in Basemaps : SetBasemap(b)
     \/ \E l \in Layers : ToggleLayer(l)
     \/ \E x \in Subjects : ChangeSubject(x)

Spec == Init /\ [][Next]_vars

-----------------------------------------------------------------------------
TypeOK ==
  /\ route \in Routes
  /\ basemapId \in Basemaps /\ shown \in Basemaps /\ lastBasemap \in Basemaps \union {NoBasemap}
  /\ style \in {"changed", "loading", "loaded"}
  /\ idleWaits \in Seq(Basemaps) /\ styleWaits \in Seq(Basemaps)
  /\ listed \in BOOLEAN /\ switchedOn \subseteq Layers /\ mounted \subseteq Layers
  /\ marker \in BOOLEAN
  /\ overlay \in [Overlays -> [place : {"absent", "above", "below"},
                               draws : Subjects]]
  /\ subject \in Subjects /\ icon \in [there : BOOLEAN, loading : BOOLEAN]

(* A change of the basemap loses nothing: once the style is there, each    *)
(* overlay is in it again, and the icon is or is being drawn for it,       *)
(* whatever changed meanwhile (MapCanvas.tsx applySwap, the styledata      *)
(* listeners of the renderers and of useSpriteLoader).                     *)
SwapLosesNothing ==
  style # "changed" =>
    /\ \A o \in Overlays : overlay[o].place # "absent"
    /\ icon.there \/ icon.loading
=============================================================================
