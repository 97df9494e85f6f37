-------------------------------- MODULE MapExport --------------------------------
(***************************************************************************)
(* What leaves the enterprise map as a file, and the notifications of it.  *)
(*                                                                         *)
(*   apps/geo-web/src/features/spatial/ExportButton.tsx,                   *)
(*   BundleExportDialog.tsx, bundleExportStore.ts; features/print/         *)
(*   PrintModal.tsx, PrintPreview.tsx, exportMap.ts, store.ts;             *)
(*   features/notifications/store.ts, ToastContainer.tsx; downloadFile of  *)
(*   lib/api.ts; the server's side is BundleExport of                      *)
(*   internal/features/bundle_handler.go and internal/layers/permissions.go*)
(*                                                                         *)
(* An export is a run from the click to its end, with one notification.    *)
(* Of a file the layers, the extent and, for a print, whether the map is   *)
(* on it are kept; format and wording are not.  The map is mounted, so     *)
(* the visible area is always known.                                       *)
(***************************************************************************)
EXTENDS Naturals, FiniteSets, FiniteSetsExt

CONSTANTS
  Routes,
  Layers,
  MaxRuns,           \* bound: exports
  MaxRightsChanges   \* bound: changes of the rights by somebody else

VARIABLES
  route,
  onMap,         \* layers that are switched on
  drawn,         \* whether there is a drawn selection
  granted,       \* layers the server lets this user export
  changes,       \* changes of the rights
  offered,       \* layers the user may export by the list that was fetched
  token,         \* the access token in memory
  buttons,       \* ExportButton of a layer in the sidebar
  dialog,        \* BundleExportDialog
  print,         \* PrintModal and its preview
  runs,          \* exports under way
  toasts,        \* their notifications
  file           \* the file that was written last

exportVars == <<onMap, drawn, granted, changes, offered, token, buttons, dialog, print, runs,
                toasts, file>>
vars == <<route, exportVars>>

Extents == {"viewport", "selection"}
IdleButton == [open |-> FALSE, mode |-> "viewport", busy |-> FALSE]
NoToast == [shown |-> FALSE, kind |-> "none", timed |-> FALSE, dismissed |-> FALSE]
NoFile == [layers |-> {}, within |-> "viewport", image |-> FALSE]

Init ==
  /\ route \in Routes
  /\ onMap = Layers /\ drawn \in BOOLEAN
  /\ granted = Layers /\ changes = 0 /\ offered = Layers /\ token = "good"
  /\ buttons = [l \in Layers |-> IdleButton]
  /\ dialog = [open |-> FALSE, selected |-> {}, mode |-> "viewport", busy |-> FALSE]
  /\ print = [open |-> FALSE, image |-> FALSE, exporting |-> FALSE]
  /\ runs = {} /\ toasts = [i \in 1..MaxRuns |-> NoToast] /\ file = NoFile

-----------------------------------------------------------------------------
(* Notifications. *)

(* A notification without a duration stays until it is dismissed: what is  *)
(* given replaces the default, also when it is undefined.                  *)
Show_Default == [NoToast EXCEPT !.shown = TRUE, !.kind = "progress", !.timed = TRUE]
Show == [NoToast EXCEPT !.shown = TRUE, !.kind = "progress"]

(* The end of a progress has a duration, counted from its beginning. *)
Update(i, kind) ==
  toasts' = IF toasts[i].shown
              THEN [toasts EXCEPT ![i].kind = kind, ![i].timed = TRUE] ELSE toasts

Dismiss(i) ==
  /\ toasts[i].shown
  /\ toasts' = [toasts EXCEPT ![i] = [NoToast EXCEPT !.kind = toasts[i].kind, !.dismissed = TRUE]]
  /\ UNCHANGED <<onMap, drawn, granted, changes, offered, token, buttons, dialog, print, runs,
                 file>>

(* Its time is up, and no pointer on it holds the timer. *)
Expire(i) ==
  /\ toasts[i].shown /\ toasts[i].timed
  /\ toasts' = [toasts EXCEPT ![i] = [NoToast EXCEPT !.kind = toasts[i].kind]]
  /\ UNCHANGED <<onMap, drawn, granted, changes, offered, token, buttons, dialog, print, runs,
                 file>>

-----------------------------------------------------------------------------
(* A run, with the notification it begins with. *)

Unused == {i \in 1..MaxRuns : toasts[i].kind = "none"}
Within(mode) == IF mode = "selection" /\ drawn THEN "selection" ELSE "viewport"

Begin(of, layers, within, image) ==
  /\ Unused # {}
  /\ runs' = runs \union {[id |-> Min(Unused), of |-> of, layers |-> layers, within |-> within,
                           image |-> image, here |-> TRUE]}
  /\ toasts' = [toasts EXCEPT ![Min(Unused)] = Show]
  /\ UNCHANGED <<onMap, drawn, granted, changes, offered, token, file>>

(* The control the run was begun with is free again; a bundle that was     *)
(* written also closes the dialog, the one that is open by then.           *)
Release(r, done) ==
  /\ buttons' = IF r.of = "layer" /\ r.here
                  THEN [l \in Layers |-> IF l \in r.layers THEN [buttons[l] EXCEPT !.busy = FALSE]
                                         ELSE buttons[l]]
                  ELSE buttons
  /\ dialog' = IF r.of = "bundle"
                 THEN [dialog EXCEPT !.busy = FALSE, !.open = @ /\ ~done] ELSE dialog
  /\ print' = IF r.of = "print" THEN [print EXCEPT !.exporting = FALSE] ELSE print

Succeeds(r) ==
  /\ runs' = runs \ {r} /\ Update(r.id, "success") /\ Release(r, TRUE)
  /\ UNCHANGED <<onMap, drawn, granted, changes, offered, token>>
Fails(r) ==
  /\ runs' = runs \ {r} /\ Update(r.id, "error") /\ Release(r, FALSE)
  /\ UNCHANGED <<onMap, drawn, granted, changes, offered, token, file>>

(* Of the layers that are asked for the server writes those it may. *)
Exportable(layers) == layers \intersect granted

(* A file picker that is closed ends the download like one that was saved. *)
DownloadReturns(r) ==
  /\ r.of # "print" /\ token = "good" /\ Exportable(r.layers) # {}
  /\ \/ file' = [layers |-> Exportable(r.layers), within |-> r.within, image |-> TRUE]
     \/ UNCHANGED file
  /\ Succeeds(r)

(* No right, a server or a disk that fails, or a token that ran out: the   *)
(* second attempt presents the one in memory again.                        *)
DownloadFails(r) == r.of # "print" /\ Fails(r)

TokenExpires ==
  /\ token = "good" /\ token' = "expired"
  /\ UNCHANGED <<onMap, drawn, granted, changes, offered, buttons, dialog, print, runs, toasts,
                 file>>
(* By another call of the application. *)
TokenRenewed ==
  /\ token = "expired" /\ token' = "good"
  /\ UNCHANGED <<onMap, drawn, granted, changes, offered, buttons, dialog, print, runs, toasts,
                 file>>

(* A print is drawn from the preview. *)
PrintReturns(r) ==
  /\ r.of = "print"
  /\ file' = [layers |-> r.layers, within |-> r.within, image |-> r.image]
  /\ Succeeds(r)
PrintFails(r) == r.of = "print" /\ Fails(r)

-----------------------------------------------------------------------------
(* Around it. *)

(* Hiding a layer takes its button away. *)
ToggleLayer(l) ==
  /\ ~dialog.open /\ ~print.open
  /\ onMap' = (onMap \union {l}) \ (onMap \intersect {l})
  /\ buttons' = [buttons EXCEPT ![l] = IdleButton]
  /\ runs' = {[r EXCEPT !.here = @ /\ (r.of # "layer" \/ l \notin r.layers)] : r \in runs}
  /\ UNCHANGED <<drawn, granted, changes, offered, token, dialog, print, toasts, file>>

Draw ==
  /\ ~dialog.open /\ ~print.open /\ drawn' = ~drawn
  /\ UNCHANGED <<onMap, granted, changes, offered, token, buttons, dialog, print, runs, toasts,
                 file>>

(* LayersTab.tsx of somebody else. *)
RightsChange(l) ==
  /\ changes < MaxRightsChanges /\ changes' = changes + 1
  /\ granted' = (granted \union {l}) \ (granted \intersect {l})
  /\ UNCHANGED <<onMap, drawn, offered, token, buttons, dialog, print, runs, toasts, file>>
LayersReturn ==
  /\ offered # granted /\ offered' = granted
  /\ UNCHANGED <<onMap, drawn, granted, changes, token, buttons, dialog, print, runs, toasts,
                 file>>

-----------------------------------------------------------------------------
(* ExportButton. *)

ToggleMenu(l) ==
  /\ l \in onMap /\ ~buttons[l].busy
  /\ buttons' = [buttons EXCEPT ![l].open = ~@]
  /\ UNCHANGED <<onMap, drawn, granted, changes, offered, token, dialog, print, runs, toasts,
                 file>>
SetMode(l, mode) ==
  /\ buttons[l].open /\ (mode = "selection" => drawn)
  /\ buttons' = [buttons EXCEPT ![l].mode = mode]
  /\ UNCHANGED <<onMap, drawn, granted, changes, offered, token, dialog, print, runs, toasts,
                 file>>
DoExport(l) ==
  /\ buttons[l].open
  /\ buttons' = [buttons EXCEPT ![l].busy = TRUE, ![l].open = FALSE]
  /\ Begin("layer", {l}, Within(buttons[l].mode), TRUE)
  /\ UNCHANGED <<dialog, print>>

-----------------------------------------------------------------------------
(* BundleExportDialog.  It is mounted when it is closed, too. *)

ExportableLayers == onMap \intersect offered

OpenDialog ==
  /\ ~dialog.open
  /\ dialog' = [dialog EXCEPT !.open = TRUE, !.selected = ExportableLayers]
  /\ UNCHANGED <<onMap, drawn, granted, changes, offered, token, buttons, print, runs, toasts,
                 file>>
CloseDialog ==
  /\ dialog.open /\ dialog' = [dialog EXCEPT !.open = FALSE]
  /\ UNCHANGED <<onMap, drawn, granted, changes, offered, token, buttons, print, runs, toasts,
                 file>>
(* A box, Select all, Clear. *)
Choose(selected) ==
  /\ dialog.open
  /\ \/ \E l \in ExportableLayers :
          selected = (dialog.selected \union {l}) \ (dialog.selected \intersect {l})
     \/ selected \in {{}, ExportableLayers}
  /\ dialog' = [dialog EXCEPT !.selected = selected]
  /\ UNCHANGED <<onMap, drawn, granted, changes, offered, token, buttons, print, runs, toasts,
                 file>>
SetExtent(mode) ==
  /\ dialog.open /\ (mode = "selection" => drawn)
  /\ dialog' = [dialog EXCEPT !.mode = mode]
  /\ UNCHANGED <<onMap, drawn, granted, changes, offered, token, buttons, print, runs, toasts,
                 file>>
RunExport ==
  /\ dialog.open /\ dialog.selected # {} /\ ~dialog.busy
  /\ dialog' = [dialog EXCEPT !.busy = TRUE]
  /\ Begin("bundle", dialog.selected, Within(dialog.mode), TRUE)
  /\ UNCHANGED <<buttons, print>>

-----------------------------------------------------------------------------
(* PrintModal.  The preview takes its picture of the map when it is opened *)
(* and when the window is resized, one frame later.                        *)

OpenPrint ==
  /\ ~print.open /\ print' = [print EXCEPT !.open = TRUE]
  /\ UNCHANGED <<onMap, drawn, granted, changes, offered, token, buttons, dialog, runs, toasts,
                 file>>
Grab ==
  /\ print.open /\ ~print.image /\ print' = [print EXCEPT !.image = TRUE]
  /\ UNCHANGED <<onMap, drawn, granted, changes, offered, token, buttons, dialog, runs, toasts,
                 file>>
ClosePrint ==
  /\ print.open /\ print' = [print EXCEPT !.open = FALSE, !.image = FALSE]
  /\ UNCHANGED <<onMap, drawn, granted, changes, offered, token, buttons, dialog, runs, toasts,
                 file>>
OnDownload ==
  /\ print.open /\ ~print.exporting
  /\ print' = [print EXCEPT !.exporting = TRUE]
  /\ Begin("print", onMap, "viewport", print.image)
  /\ UNCHANGED <<buttons, dialog>>

-----------------------------------------------------------------------------
(* The tab shows this page, and goes on showing it. *)
Here == route \in {"layer export", "bundle export", "print"} /\ UNCHANGED route

ToastStep == \E i \in 1..MaxRuns : Dismiss(i) \/ Expire(i)
DownloadStep ==
  \/ TokenExpires \/ TokenRenewed \/ LayersReturn \/ Draw
  \/ \E l \in Layers : ToggleLayer(l) \/ RightsChange(l)
  \/ \E r \in runs : DownloadReturns(r) \/ DownloadFails(r)
ButtonStep ==
  \E l \in Layers : ToggleMenu(l) \/ DoExport(l) \/ (\E mode \in Extents : SetMode(l, mode))
DialogStep ==
  \/ OpenDialog \/ CloseDialog \/ RunExport
  \/ \E s \in SUBSET Layers : Choose(s)
  \/ \E mode \in Extents : SetExtent(mode)
PrintStep ==
  \/ OpenPrint \/ Grab \/ ClosePrint \/ OnDownload
  \/ \E r \in runs : PrintReturns(r) \/ PrintFails(r)

(* The three ways out have the notifications in common; each is looked at  *)
(* by itself.                                                              *)
Next ==
  /\ Here
  /\ \/ ToastStep
     \/ route # "print" /\ DownloadStep
     \/ route = "layer export" /\ ButtonStep
     \/ route = "bundle export" /\ DialogStep
     \/ route = "print" /\ PrintStep

Spec == Init /\ [][Next]_vars

-----------------------------------------------------------------------------
TypeOK ==
  /\ route \in Routes
  /\ onMap \subseteq Layers /\ drawn \in BOOLEAN
  /\ granted \subseteq Layers /\ offered \subseteq Layers /\ changes \in 0..MaxRightsChanges
  /\ token \in {"good", "expired"}
  /\ buttons \in [Layers -> [open : BOOLEAN, mode : Extents, busy : BOOLEAN]]
  /\ dialog \in [open : BOOLEAN, selected : SUBSET Layers, mode : Extents, busy : BOOLEAN]
  /\ print \in [open : BOOLEAN, image : BOOLEAN, exporting : BOOLEAN]
  /\ runs \subseteq [id : 1..MaxRuns, of : {"layer", "bundle", "print"}, layers : SUBSET Layers,
                     within : Extents, image : BOOLEAN, here : BOOLEAN]
  /\ toasts \in [1..MaxRuns -> [shown : BOOLEAN, kind : {"none", "progress", "success", "error"},
                                timed : BOOLEAN, dismissed : BOOLEAN]]
  /\ file \in [layers : SUBSET Layers, within : Extents, image : BOOLEAN]

(* What says that an export is under way is on the screen exactly as long  *)
(* as it is, unless the user took it away, whatever became of the control  *)
(* the export was begun with (doExport, runExport, onDownload, show).      *)
ProgressIsOfRun ==
  \A i \in 1..MaxRuns :
    LET progress == toasts[i].shown /\ toasts[i].kind = "progress"
        underWay == \E r \in runs : r.id = i
    IN  (underWay => progress \/ toasts[i].dismissed) /\ (progress => underWay)
=============================================================================
