------------------------------ MODULE PackDownload ------------------------------
(***************************************************************************)
(* The packs of a project on a device: the core pack with its catalog, and *)
(* for each layer a file of map tiles and a search index.                  *)
(*                                                                         *)
(*   mobile/lib/features/projects/bundle_downloader.dart                   *)
(*   mobile/lib/core/db/bundle_seeder.dart                                 *)
(*   mobile/lib/features/map/map_project_screen.dart                       *)
(*                                                                         *)
(* Content is a version that only grows, and its hash is the version.  A   *)
(* pack is filed under the hash there was when it was asked for; what it   *)
(* holds may be newer.  A download is an asynchronous call: one action is  *)
(* what it does between two awaits of the network, of a file or of the     *)
(* database.                                                               *)
(***************************************************************************)
EXTENDS Naturals, FiniteSets

CONSTANTS
  Layers,
  Downloads,        \* calls that may be under way
  Targets,          \* layers the collector's assignments name
  Revised,          \* bound: packs that change
  MaxContent        \* bound: versions of a pack

VARIABLES
  current,          \* versions on the server, of the core and of each layer
  catalog,          \* version of the core that is seeded, 0 if none is
  coreHash,         \* hash in the row of the project
  tiles, index,     \* versions in the tile file and the rows of each layer
  hashes,           \* layer hashes of the preferences
  downloads         \* state of each call

vars == <<current, catalog, coreHash, tiles, index, hashes, downloads>>
Core == "core"
Packs == Layers \union {Core}
Versions == 1..MaxContent
Torn == MaxContent + 1
NoHashes == [l \in Layers |-> 0]
Unknown == [p \in Packs |-> 0]
Parts == {"tiles", "rows"}
NoPack == [hash |-> 0, content |-> 0, parts |-> {}]

(* A call: what it is for and where it is, the hashes of the manifest, the *)
(* layers it has ahead and the one it is at; the hashes it keeps for its   *)
(* end and those it loaded for this layer, and the pack that arrived.      *)
Idle == [kind |-> "none", pc |-> "idle", manifest |-> Unknown, todo |-> {}, layer |-> Core,
         kept |-> NoHashes, loaded |-> NoHashes, pack |-> NoPack]

Init ==
  /\ current = [p \in Packs |-> 1]
  /\ catalog = 0 /\ coreHash = 0 /\ tiles = NoHashes /\ index = NoHashes
  /\ hashes = NoHashes
  /\ downloads = [d \in Downloads |-> Idle]

Device == <<catalog, coreHash, tiles, index, hashes>>

-----------------------------------------------------------------------------
(* workingSetLayerIds: assignment targets, else all local layers. *)
WorkingSet == IF catalog = 0 THEN {} ELSE IF Targets # {} THEN Targets ELSE Layers

(* _layerReferencePresent: tiles for the map, rows for the search. *)
Present_TilesOnly(l) == tiles[l] # 0
Present(l) == tiles[l] # 0 /\ index[l] # 0

UpToDate(stored, known, l) == known[l] # 0 /\ stored[l] = known[l] /\ Present(l)

Becomes(d, state) == downloads' = [downloads EXCEPT ![d] = state]

(* A pack is asked for.  What two calls for the same pack do to each other *)
(* is not followed.                                                        *)
Busy(p) == \E d \in Downloads : downloads[d].layer = p /\ downloads[d].pc \in
             IF p = Core THEN {"core", "seed", "mark"}
                         ELSE {"fetch", "tiles", "wipe", "rows", "save"}
Asks(d, p, state) ==
  /\ ~Busy(p)
  /\ Becomes(d, [state EXCEPT !.layer = p, !.pack.hash = current[p]])

-----------------------------------------------------------------------------
(* downloadEfficient, of the core and, if it is wanted, of all layers. *)
StartFull(d) ==
  /\ downloads[d] = Idle
  /\ \E kind \in {"core", "all"} :
       Becomes(d, [Idle EXCEPT !.kind = kind, !.pc = "manifest"])
  /\ UNCHANGED <<current, Device>>

(* _ensureVisibleLayerPacks, some layers of the map; _toggleLayer, one.    *)
StartMap(d) ==
  /\ downloads[d] = Idle /\ catalog # 0
  /\ \E visible \in SUBSET Layers \ {{}} :
       Becomes(d, [Idle EXCEPT !.kind = "map", !.pc = "manifest", !.todo = visible])
  /\ UNCHANGED <<current, Device>>

(* The core is asked for unless its hash is the manifest's and all layers  *)
(* of the manifest are among those of the working set.                     *)
SkipsCore(known) == /\ known[Core] # 0 /\ coreHash = known[Core]
                    /\ {l \in Layers : known[l] # 0} \subseteq WorkingSet

(* The manifest, or none for this call. *)
ManifestReturns(d) ==
  /\ downloads[d].pc = "manifest"
  /\ \E known \in {current, Unknown} :
       LET answered == [downloads[d] EXCEPT !.manifest = [known EXCEPT ![Core] = 0]]
       IN \/ downloads[d].kind = "map" /\ Becomes(d, [answered EXCEPT !.pc = "layers"])
          \/ /\ downloads[d].kind # "map" /\ SkipsCore(known)
             /\ Becomes(d, [answered EXCEPT !.pc = "layers", !.kept = hashes,
                              !.todo = IF downloads[d].kind = "all" THEN WorkingSet ELSE {}])
          \/ /\ downloads[d].kind # "map" /\ ~SkipsCore(known)
             /\ Asks(d, Core, [answered EXCEPT !.pc = "core"])
  /\ UNCHANGED <<current, Device>>

(* A pack was built or found, and is there: filed under a hash not older   *)
(* than when it was asked for.                                             *)
Arrives(d, p, next, parts) ==
  /\ \E h \in downloads[d].pack.hash..current[p] : \E c \in h..current[p] :
       Becomes(d, [downloads[d] EXCEPT !.pc = next,
                     !.pack = [hash |-> h, content |-> c, parts |-> parts]])
  /\ UNCHANGED <<current, Device>>

CoreArrives(d) == downloads[d].pc = "core" /\ Arrives(d, Core, "seed", {})

(* No connection, a job that failed or timed out, a file that is no pack. *)
CoreFails(d) ==
  /\ downloads[d].pc = "core" /\ Becomes(d, Idle)
  /\ UNCHANGED <<current, Device>>

(* seed in one transaction: what the project had is wiped, tiles are kept. *)
SeedCore(d) ==
  /\ downloads[d].pc = "seed"
  /\ index' = NoHashes /\ catalog' = downloads[d].pack.content
  /\ Becomes(d, [downloads[d] EXCEPT !.pc = "mark", !.pack.content = 0])
  /\ UNCHANGED <<coreHash, tiles, hashes, current>>

MarkDownloaded(d) ==
  /\ downloads[d].pc = "mark"
  /\ coreHash' = downloads[d].pack.hash
  /\ Becomes(d, [downloads[d] EXCEPT !.pc = "clear", !.pack = NoPack])
  /\ UNCHANGED <<catalog, tiles, index, hashes, current>>

ClearHashes(d) ==
  /\ downloads[d].pc = "clear"
  /\ hashes' = NoHashes
  /\ Becomes(d, [downloads[d] EXCEPT !.pc = "layers",
                   !.todo = IF downloads[d].kind = "all" THEN WorkingSet ELSE {}])
  /\ UNCHANGED <<catalog, coreHash, tiles, index, current>>

-----------------------------------------------------------------------------
(* One layer after the other, and past one that failed.  A call that is    *)
(* not for all layers keeps no hashes for its end.                         *)
Passes(d, l, kept) ==
  Becomes(d, [downloads[d] EXCEPT !.pc = "layers", !.todo = @ \ {l}, !.layer = Core,
                !.loaded = NoHashes, !.pack = NoPack,
                !.kept = IF downloads[d].kind = "all" THEN kept ELSE NoHashes])

(* Skipped by the loop; or by ensureLayerReferencePack, which tells of no  *)
(* tiles, so that the hash is dropped from those kept; or asked for.       *)
TakeLayer(d) ==
  /\ downloads[d].pc = "layers"
  /\ \E l \in downloads[d].todo :
       LET known == downloads[d].manifest
           kept == downloads[d].kept
           skipped == downloads[d].kind = "all" /\ UpToDate(kept, known, l)
       IN \/ skipped /\ Passes(d, l, kept)
          \/ ~skipped /\ UpToDate(hashes, known, l) /\ Passes(d, l, [kept EXCEPT ![l] = 0])
          \/ /\ ~skipped /\ ~UpToDate(hashes, known, l)
             /\ Asks(d, l, [downloads[d] EXCEPT !.pc = "fetch", !.loaded = hashes])
  /\ UNCHANGED <<current, Device>>

(* A pack may be without tiles, or without an index. *)
LayerArrives(d) ==
  /\ downloads[d].pc = "fetch"
  /\ \E parts \in SUBSET Parts : Arrives(d, downloads[d].layer, "tiles", parts)

LayerFails(d) ==
  /\ downloads[d].pc \in {"fetch", "wipe", "rows"} /\ Passes(d, downloads[d].layer, downloads[d].kept)
  /\ UNCHANGED <<current, Device>>

(* mergeReferencePack, the tile file: written, or deleted if the pack has  *)
(* none; an error, which is caught, leaves it as it was or torn.  Only     *)
(* with tiles the hash is stored in the end.                               *)
WriteTiles(d) ==
  LET l == downloads[d].layer
      has == "tiles" \in downloads[d].pack.parts
      next(hash) == Becomes(d, [downloads[d] EXCEPT !.pc = "wipe", !.pack.hash = hash])
  IN /\ downloads[d].pc = "tiles"
     /\ \/ /\ has /\ next(downloads[d].pack.hash)
           /\ tiles' = [tiles EXCEPT ![l] = downloads[d].pack.content]
        \/ /\ next(0)
           /\ tiles' \in {tiles, [tiles EXCEPT ![l] = IF has THEN Torn ELSE 0]}
     /\ UNCHANGED <<catalog, coreHash, index, hashes, current>>

(* The rows of the layer: deleted, then inserted in a batch. *)
WipeRows(d) ==
  /\ downloads[d].pc = "wipe"
  /\ index' = [index EXCEPT ![downloads[d].layer] = 0]
  /\ Becomes(d, IF "rows" \in downloads[d].pack.parts
                THEN [downloads[d] EXCEPT !.pc = "rows"]
                ELSE [downloads[d] EXCEPT !.pc = "save", !.pack.content = 0, !.pack.parts = {}])
  /\ UNCHANGED <<catalog, coreHash, tiles, hashes, current>>

InsertRows(d) ==
  /\ downloads[d].pc = "rows"
  /\ index' = [index EXCEPT ![downloads[d].layer] = downloads[d].pack.content]
  /\ Becomes(d, [downloads[d] EXCEPT !.pc = "save", !.pack.content = 0, !.pack.parts = {}])
  /\ UNCHANGED <<catalog, coreHash, tiles, hashes, current>>

(* The hash is stored, with the others as they were loaded before the pack *)
(* was asked for.                                                          *)
SaveHash(d) ==
  LET l == downloads[d].layer
      hash == downloads[d].pack.hash
  IN /\ downloads[d].pc = "save"
     /\ hashes' = [downloads[d].loaded EXCEPT ![l] = hash]
     /\ Passes(d, l, [downloads[d].kept EXCEPT ![l] = hash])
     /\ UNCHANGED <<catalog, coreHash, tiles, index, current>>

(* A download of all layers stores the hashes it kept. *)
End(d) ==
  /\ downloads[d].pc = "layers" /\ downloads[d].todo = {}
  /\ hashes' = IF downloads[d].kind = "all" THEN downloads[d].kept ELSE hashes
  /\ Becomes(d, Idle)
  /\ UNCHANGED <<catalog, coreHash, tiles, index, current>>

-----------------------------------------------------------------------------
ContentChanges(p) ==
  /\ p \in Revised /\ current[p] < MaxContent
  /\ current' = [current EXCEPT ![p] = @ + 1]
  /\ UNCHANGED <<downloads, Device>>

(* The app is killed, perhaps in the middle of a file; perhaps it is       *)
(* updated, and the first download clears hashes of another client version *)
(* (_invalidateStaleLayerPackClientVersion).                               *)
Restart ==
  /\ \E torn \in SUBSET {downloads[d].layer : d \in {e \in Downloads :
                 downloads[e].pc = "tiles" /\ "tiles" \in downloads[e].pack.parts}} :
       tiles' = [l \in Layers |-> IF l \in torn THEN Torn ELSE tiles[l]]
  /\ hashes' \in {hashes, NoHashes}
  /\ downloads' = [d \in Downloads |-> Idle]
  /\ UNCHANGED <<current, catalog, coreHash, index>>

Next ==
  \/ \E d \in Downloads :
       \/ StartFull(d) \/ StartMap(d)
       \/ ManifestReturns(d) \/ CoreArrives(d) \/ CoreFails(d) \/ SeedCore(d)
       \/ MarkDownloaded(d) \/ ClearHashes(d) \/ TakeLayer(d) \/ LayerArrives(d)
       \/ LayerFails(d) \/ WriteTiles(d) \/ WipeRows(d) \/ InsertRows(d)
       \/ SaveHash(d) \/ End(d)
  \/ \E p \in Packs : ContentChanges(p)
  \/ Restart

Spec == Init /\ [][Next]_vars

-----------------------------------------------------------------------------
Hashes == [Layers -> 0..MaxContent]
TypeOK ==
  /\ current \in [Packs -> Versions]
  /\ {catalog, coreHash} \subseteq 0..MaxContent
  /\ tiles \in [Layers -> 0..Torn] /\ {index, hashes} \subseteq Hashes
  /\ downloads \in [Downloads ->
       [kind : {"none", "core", "all", "map"},
        pc : {"idle", "manifest", "core", "seed", "mark", "clear", "layers", "fetch", "tiles",
              "wipe", "rows", "save"},
        manifest : [Packs -> 0..MaxContent], todo : SUBSET Layers, layer : Packs,
        kept : Hashes, loaded : Hashes,
        pack : [hash : 0..MaxContent, content : 0..MaxContent, parts : SUBSET Parts]]]

(* What a download would skip as unchanged is what the server has: a core  *)
(* or layer whose stored hash is the current one is in the database, in    *)
(* the tile file (unless that was torn) and in the index as it is now,     *)
(* wherever a download before was cut off or failed, whatever was reseeded *)
(* or changed since, and though downloads of other packs overlap, wipe each   *)
(* other's rows and overwrite each other's hashes.  downloadEfficient and  *)
(* ensureLayerReferencePack.                                               *)
SkippedIsCurrent ==
  /\ coreHash = current[Core] => catalog = current[Core]
  /\ \A l \in Layers : UpToDate(hashes, current, l) =>
       tiles[l] \in {current[l], Torn} /\ index[l] = current[l]
=============================================================================
