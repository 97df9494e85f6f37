------------------------------- MODULE DataSources -------------------------------
(***************************************************************************)
(* The data sources of a layer, in the field collector's web console.      *)
(*                                                                         *)
(*   apps/fc-web/src/components/layer/LayerDataSourcesTab.tsx,             *)
(*   ImportDataSourceDialog.tsx, LinkConnectionDrawer.tsx; the server's    *)
(*   side is handler/import.go and RunSync of service/import_service.go    *)
(*                                                                         *)
(* The tab keeps the list it fetched last.  An invalidation fetches it     *)
(* again and drops the answer to a fetch that is out, as the query client  *)
(* does once there is a list: the tab begins with the empty one on screen, *)
(* fetched lately or being fetched again.                                  *)
(* Sources are numbered as they are created; of a form only the kind and   *)
(* whether it can be submitted are kept.                                   *)
(***************************************************************************)
EXTENDS Naturals, Sequences

CONSTANTS
  Routes,
  Connections,   \* connection profiles of the project
  Unlinked,      \* no connection profile
  MaxSources     \* bound: sources created

VARIABLES
  route,
  sources,       \* the server's sources: status and connection
  catalog,       \* the list as it was fetched last
  fetch,         \* the fetch that is out, and its answer
  adding,        \* state of ImportDataSourceDialog
  resync,        \* source that is synced from the list, 0 if none
  linking,       \* state of LinkConnectionDrawer
  saves,         \* links that are being saved
  imported       \* sources the page was told are imported

dataVars == <<sources, catalog, fetch, adding, resync, linking, saves, imported>>
vars == <<route, dataVars>>

Kinds == {"file", "url", "database"}
Stores == [status : {"created", "running", "success", "failed", "deleted"},
           connection : Connections \union {Unlinked}]
Listing == {i \in DOMAIN sources : sources[i].status # "deleted"}

ClosedForm == [open |-> FALSE, kind |-> "file", filled |-> FALSE, result |-> "none",
               stage |-> "none", id |-> 0]
OpenForm == [ClosedForm EXCEPT !.open = TRUE]
NoDrawer == [source |-> 0, current |-> Unlinked, selected |-> Unlinked]
NoFetch == [stage |-> "none", answer |-> {}]

Init ==
  /\ route \in Routes
  /\ sources = << >> /\ catalog = {}
  /\ fetch \in {NoFetch, [NoFetch EXCEPT !.stage = "asked"]}
  /\ adding = ClosedForm /\ resync = 0 /\ linking = NoDrawer /\ saves = {}
  /\ imported = {}

-----------------------------------------------------------------------------
(* The list: queryKey ["dataSources", layerId]. *)

Invalidate_Joins ==
  fetch' = IF fetch.stage \in {"asked", "served"} THEN fetch ELSE [NoFetch EXCEPT !.stage = "asked"]
Invalidate == fetch' = [NoFetch EXCEPT !.stage = "asked"]

FetchServed ==
  /\ fetch.stage = "asked"
  /\ fetch' = [stage |-> "served", answer |-> Listing]
  /\ UNCHANGED <<sources, catalog, adding, resync, linking, saves, imported>>

FetchReturns ==
  /\ fetch.stage = "served"
  /\ catalog' = fetch.answer /\ fetch' = NoFetch
  /\ UNCHANGED <<sources, adding, resync, linking, saves, imported>>

(* After one retry the list on screen is kept. *)
FetchFails ==
  /\ fetch.stage \in {"asked", "served"}
  /\ fetch' = [NoFetch EXCEPT !.stage = "failed"]
  /\ UNCHANGED <<sources, catalog, adding, resync, linking, saves, imported>>

-----------------------------------------------------------------------------
(* ImportDataSourceDialog.  Its mutations outlive it: a dialog that is     *)
(* opened again starts fresh, and the answer only refreshes the list.      *)

ShowCreate ==
  /\ ~adding.open /\ adding.stage = "none" /\ adding' = OpenForm
  /\ UNCHANGED <<sources, catalog, fetch, resync, linking, saves, imported>>

CloseCreate ==
  /\ adding.open
  /\ adding' = [ClosedForm EXCEPT !.stage = adding.stage, !.id = adding.id]
  /\ UNCHANGED <<sources, catalog, fetch, resync, linking, saves, imported>>

SetImportType(k) ==
  /\ adding.open
  /\ adding' = [adding EXCEPT !.kind = k, !.filled = FALSE, !.result = "none"]
  /\ UNCHANGED <<sources, catalog, fetch, resync, linking, saves, imported>>

FillForm ==
  /\ adding.open /\ adding' = [adding EXCEPT !.filled = TRUE]
  /\ UNCHANGED <<sources, catalog, fetch, resync, linking, saves, imported>>

(* A form that lacks something fails before a request is made. *)
HandleSubmit ==
  /\ adding.open /\ adding.result # "success" /\ adding.stage = "none"
  /\ adding' = IF ~adding.filled THEN [adding EXCEPT !.result = "failure"]
               ELSE [adding EXCEPT !.result = "none",
                       !.stage = IF adding.kind = "file" THEN "upload" ELSE "create"]
  /\ UNCHANGED <<sources, catalog, fetch, resync, linking, saves, imported>>

Ends(result) == adding' = [adding EXCEPT !.stage = "none", !.id = 0,
                             !.result = IF adding.open THEN result ELSE "none"]
Register(status) ==
  /\ Len(sources) < MaxSources
  /\ sources' = Append(sources, [status |-> status, connection |-> Unlinked])

(* An upload creates a source and imports the file; a file that cannot be  *)
(* imported leaves a source that failed.                                   *)
UploadReturns ==
  /\ adding.stage = "upload"
  /\ Register("success") /\ Ends("success") /\ Invalidate
  /\ imported' = imported \union {Len(sources')}
  /\ UNCHANGED <<catalog, resync, linking, saves>>

UploadFails ==
  /\ adding.stage = "upload"
  /\ (Register("failed") \/ UNCHANGED sources) /\ Ends("failure")
  /\ UNCHANGED <<catalog, fetch, resync, linking, saves, imported>>

(* The first sync follows the creation. *)
CreateReturns ==
  /\ adding.stage = "create"
  /\ Register("created")
  /\ adding' = [adding EXCEPT !.stage = "sync", !.id = Len(sources')]
  /\ UNCHANGED <<catalog, fetch, resync, linking, saves, imported>>

CreateFails ==
  /\ adding.stage = "create" /\ Ends("failure")
  /\ UNCHANGED <<sources, catalog, fetch, resync, linking, saves, imported>>

(* RunSync of the server for a source: running, then success or failed. *)
Syncs(i, status) ==
  sources' = IF sources[i].status = "deleted" THEN sources
             ELSE [sources EXCEPT ![i].status = status]

FirstSyncReturns ==
  /\ adding.stage = "sync" /\ sources[adding.id].status # "deleted"
  /\ Syncs(adding.id, "success") /\ Ends("success") /\ Invalidate
  /\ imported' = imported \union {adding.id}
  /\ UNCHANGED <<catalog, resync, linking, saves>>

(* The source stays, and the list is not asked for: trying again creates   *)
(* another one.                                                            *)
FirstSyncFails ==
  /\ adding.stage = "sync"
  /\ Syncs(adding.id, "failed") /\ Ends("failure")
  /\ UNCHANGED <<catalog, fetch, resync, linking, saves, imported>>

-----------------------------------------------------------------------------
(* Buttons of a source in the list. *)

Sync(i) ==
  /\ i \in catalog /\ resync = 0 /\ resync' = i
  /\ Syncs(i, "running")
  /\ UNCHANGED <<catalog, fetch, adding, linking, saves, imported>>

SyncReturns ==
  /\ resync # 0 /\ resync' = 0
  /\ \/ sources[resync].status # "deleted" /\ Syncs(resync, "success") /\ Invalidate
     \/ Syncs(resync, "failed") /\ UNCHANGED fetch
  /\ UNCHANGED <<catalog, adding, linking, saves, imported>>

Delete(i) ==
  /\ i \in catalog
  /\ sources' = [sources EXCEPT ![i].status = "deleted"]
  /\ Invalidate
  /\ UNCHANGED <<catalog, adding, resync, linking, saves, imported>>

-----------------------------------------------------------------------------
(* LinkConnectionDrawer. *)

OpenDrawer(i) ==
  /\ i \in catalog /\ linking.source = 0
  /\ linking' = [source |-> i, current |-> sources[i].connection,
                 selected |-> sources[i].connection]
  /\ UNCHANGED <<sources, catalog, fetch, adding, resync, saves, imported>>

CloseDrawer ==
  /\ linking.source # 0 /\ linking' = NoDrawer
  /\ UNCHANGED <<sources, catalog, fetch, adding, resync, saves, imported>>

Select(c) ==
  /\ linking.source # 0 /\ linking' = [linking EXCEPT !.selected = c]
  /\ UNCHANGED <<sources, catalog, fetch, adding, resync, saves, imported>>

SaveLink ==
  /\ linking.source # 0 /\ linking.selected # linking.current
  /\ \A s \in saves : s.source # linking.source
  /\ saves' = saves \union {[source |-> linking.source, connection |-> linking.selected]}
  /\ UNCHANGED <<sources, catalog, fetch, adding, resync, linking, imported>>

(* onSuccess closes the drawer, also one of another source by then. *)
SaveReturns(s) ==
  /\ s \in saves /\ saves' = saves \ {s}
  /\ \/ /\ sources' = [sources EXCEPT ![s.source].connection = s.connection]
        /\ linking' = NoDrawer /\ Invalidate
     \/ UNCHANGED <<sources, linking, fetch>>
  /\ UNCHANGED <<catalog, adding, resync, imported>>

-----------------------------------------------------------------------------
(* The tab shows this page, and goes on showing it. *)
Here == route = "sources" /\ UNCHANGED route

Next ==
  /\ Here
  /\ \/ FetchServed \/ FetchReturns \/ FetchFails
     \/ ShowCreate \/ CloseCreate \/ FillForm \/ HandleSubmit
     \/ UploadReturns \/ UploadFails \/ CreateReturns \/ CreateFails
     \/ FirstSyncReturns \/ FirstSyncFails \/ SyncReturns
     \/ CloseDrawer \/ SaveLink
     \/ \E k \in Kinds : SetImportType(k)
     \/ \E i \in 1..MaxSources : Sync(i) \/ Delete(i) \/ OpenDrawer(i)
     \/ \E c \in Connections \union {Unlinked} : Select(c)
     \/ \E s \in saves : SaveReturns(s)

Spec == Init /\ [][Next]_vars

-----------------------------------------------------------------------------
TypeOK ==
  /\ route \in Routes
  /\ sources \in Seq(Stores) /\ Len(sources) <= MaxSources
  /\ catalog \subseteq 1..Len(sources) /\ imported \subseteq 1..Len(sources)
  /\ fetch \in [stage : {"none", "asked", "served", "failed"}, answer : SUBSET (1..Len(sources))]
  /\ adding \in [open : BOOLEAN, kind : Kinds, filled : BOOLEAN,
                 result : {"none", "success", "failure"},
                 stage : {"none", "upload", "create", "sync"}, id : 0..Len(sources)]
  /\ resync \in 0..Len(sources)
  /\ linking \in [source : 0..Len(sources), current : Connections \union {Unlinked},
                  selected : Connections \union {Unlinked}]
  /\ saves \subseteq [source : 1..Len(sources), connection : Connections \union {Unlinked}]

(* A source the page was told is imported is in the list, whatever answers *)
(* were under way when it was told, unless the list is being fetched, its  *)
(* last fetch failed, or the source was deleted (onSuccess of both         *)
(* mutations of ImportDataSourceDialog.tsx).                               *)
ImportedIsListed ==
  fetch.stage = "none" =>
    \A i \in imported : i \in catalog \/ sources[i].status = "deleted"
=============================================================================
