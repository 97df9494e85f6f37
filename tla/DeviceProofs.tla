----------------------------- MODULE DeviceProofs -----------------------------
(***************************************************************************)
(* Proofs about the packs of a device (PackDownload), for every number of  *)
(* layers, of downloads under way and of versions.                         *)
(*                                                                         *)
(* The argument: a hash is claimed where a later call may compare it, in   *)
(* the preferences and in the memory of the calls under way.  No claim is  *)
(* newer than what is in the tile file and in the index, where they are    *)
(* there, because a pack is filed under a hash no newer than its content,  *)
(* and a call that is about to write a layer brings content that is no     *)
(* older than any claim on it: of two calls for one layer the second does  *)
(* not ask before the first is done.                                       *)
(***************************************************************************)
EXTENDS MCDevice, TLAPS

Calls ==
  [kind : {"none", "core", "all", "map"},
   pc : {"idle", "manifest", "core", "seed", "mark", "clear", "layers", "fetch", "tiles",
         "wipe", "rows", "save"},
   manifest : [Pack!Packs -> 0..MaxContent], todo : SUBSET Layers, layer : Pack!Packs,
   kept : Pack!Hashes, loaded : Pack!Hashes,
   pack : [hash : 0..MaxContent, content : 0..MaxContent, parts : SUBSET Pack!Parts]]

CoreWork == {"core", "seed", "mark"}
LayerWork == {"fetch", "tiles", "wipe", "rows", "save"}
Works(x, p) == x.layer = p /\ x.pc \in IF p = "core" THEN CoreWork ELSE LayerWork

(* h is a hash some call may take for that of what is there of layer l. *)
Claims(x, h, l) == h = x.kept[l] \/ h = x.loaded[l]
Claimed(h, l) == h = hashes[l] \/ \E d \in Downloads : Claims(downloads[d], h, l)

(* What is there is as new as h, if it is there. *)
Backed(h, l) ==
  h <= current[l] /\ (tiles[l] # 0 => h <= tiles[l]) /\ (index[l] # 0 => h <= index[l])

(* What the call x has in hand is as new as h. *)
AsNewAs(x, h) ==
  /\ x.pc = "fetch" => h <= x.pack.hash
  /\ x.pc \in {"tiles", "wipe", "rows"} => h <= x.pack.content

(* The pack of a call: what was asked for, what arrived, what is written. *)
CallBacked(x) ==
  LET l == x.layer
      hash == x.pack.hash
      brought == x.pack.content
  IN /\ l # "core" <=> x.pc \in LayerWork
     /\ x.pc \in {"core", "fetch"} => hash <= current[l]
     /\ x.pc \in {"seed", "tiles", "wipe", "rows"} => hash <= brought /\ brought <= current[l]
     /\ x.pc = "core" => coreHash <= hash
     /\ x.pc = "seed" => coreHash <= brought
     /\ x.pc = "mark" => hash <= catalog
     /\ x.pc \in {"wipe", "rows"} => (tiles[l] # 0 => hash <= tiles[l])
     /\ x.pc = "save" => Backed(hash, l)

OneCallPerPack ==
  \A p \in Pack!Packs : \A d, e \in Downloads :
    Works(downloads[d], p) /\ Works(downloads[e], p) => d = e
ClaimsBacked == \A l \in Layers : \A h \in 0..MaxContent : Claimed(h, l) => Backed(h, l)
CallsBacked == \A d \in Downloads : CallBacked(downloads[d])
CallsAreNewer ==
  \A d \in Downloads : \A h \in 0..MaxContent :
    downloads[d].layer \in Layers /\ Claimed(h, downloads[d].layer) => AsNewAs(downloads[d], h)
NothingFromTheFuture ==
  /\ \A l \in Layers : tiles[l] \in 0..current[l] \union {Pack!Torn} /\ index[l] <= current[l]
  /\ coreHash <= catalog /\ catalog <= current["core"]

PackInv ==
  /\ Pack!TypeOK /\ OneCallPerPack /\ ClaimsBacked /\ CallsBacked /\ CallsAreNewer
  /\ NothingFromTheFuture

------------------------------------------------------------------------------
(* What the types say of a call, and of what starts empty.                 *)

DeviceTyped ==
  /\ {catalog, coreHash} \subseteq 0..MaxContent
  /\ tiles \in [Layers -> 0..Pack!Torn] /\ {index, hashes} \subseteq Pack!Hashes

LEMMA TypedCalls ==
  Pack!TypeOK <=> /\ current \in [Pack!Packs -> Pack!Versions] /\ DeviceTyped
                  /\ downloads \in [Downloads -> Calls]
  BY DEF Pack!TypeOK, Calls, DeviceTyped

LEMMA PackNames ==
  /\ Pack!Core = "core" /\ "core" \in Pack!Packs /\ "core" \notin Layers
  /\ Layers \subseteq Pack!Packs /\ Pack!Packs = Layers \union {"core"}
  /\ MaxContent \in Nat /\ 1 <= MaxContent /\ Pack!Torn = MaxContent + 1
  /\ Pack!Versions = 1..MaxContent
  BY PackAssumption DEF Pack!Packs, Pack!Core, Pack!Torn, Pack!Versions

LEMMA EmptyTyped ==
  /\ Pack!NoHashes \in Pack!Hashes
  /\ \A l \in Layers : Pack!NoHashes[l] = 0
  /\ Pack!NoPack \in [hash : 0..MaxContent, content : 0..MaxContent, parts : SUBSET Pack!Parts]
  BY PackNames DEF Pack!NoHashes, Pack!Hashes, Pack!NoPack

LEMMA IdleTyped ==
  /\ Pack!Idle \in Calls /\ Pack!Idle.pc = "idle" /\ Pack!Idle.layer = "core"
  /\ Pack!Idle.kept = Pack!NoHashes /\ Pack!Idle.loaded = Pack!NoHashes
  <1>1. Pack!Unknown \in [Pack!Packs -> 0..MaxContent]
    BY PackNames DEF Pack!Unknown
  <1> QED
    BY <1>1, PackNames, EmptyTyped DEF Pack!Idle, Calls

(* A call that has nothing in hand. *)
AtRest(x) == x.layer = "core" /\ x.pc \in {"idle", "manifest", "clear", "layers"}

LEMMA RestIsBacked ==
  ASSUME NEW x \in Calls, AtRest(x)
  PROVE  /\ CallBacked(x) /\ CallBacked(x)'
         /\ \A p \in Pack!Packs : ~Works(x, p)
         /\ \A h \in Nat : AsNewAs(x, h)
  BY PackNames DEF AtRest, CallBacked, LayerWork, CoreWork, Works, AsNewAs

LEMMA PackInitial == Pack!Init => PackInv
  <1> SUFFICES ASSUME Pack!Init
               PROVE  PackInv
    OBVIOUS
  <1>1. /\ downloads \in [Downloads -> Calls]
        /\ \A d \in Downloads : downloads[d] = Pack!Idle
    BY IdleTyped DEF Pack!Init
  <1>2. /\ current \in [Pack!Packs -> Pack!Versions] /\ DeviceTyped
        /\ \A p \in Pack!Packs : current[p] = 1
        /\ \A l \in Layers : tiles[l] = 0 /\ index[l] = 0 /\ hashes[l] = 0
    BY PackNames, EmptyTyped DEF Pack!Init, DeviceTyped, Pack!Hashes
  <1>3. Pack!TypeOK
    BY <1>1, <1>2, TypedCalls
  <1>4. \A d \in Downloads : AtRest(downloads[d])
    BY <1>1, IdleTyped DEF AtRest
  <1>5. OneCallPerPack /\ CallsBacked /\ CallsAreNewer
    BY <1>1, <1>4, RestIsBacked, PackNames DEF OneCallPerPack, CallsBacked, CallsAreNewer
  <1>6. ClaimsBacked
    BY <1>1, <1>2, IdleTyped, EmptyTyped, PackNames DEF ClaimsBacked, Claimed, Claims, Backed
  <1>7. NothingFromTheFuture
    BY <1>2, PackNames DEF NothingFromTheFuture, Pack!Init
  <1> QED
    BY <1>3, <1>5, <1>6, <1>7 DEF PackInv

------------------------------------------------------------------------------
(* A step of one call.  It may write what it works on; what it does        *)
(* besides is to delete rows.                                              *)

LEMMA CallStep ==
  ASSUME PackInv, NEW d \in Downloads, NEW x \in Calls,
         downloads' = [downloads EXCEPT ![d] = x], current' = current, DeviceTyped',
         \A p \in Pack!Packs : Works(x, p) => Works(downloads[d], p) \/ ~Pack!Busy(p),
         \A l \in Layers : ~Works(downloads[d], l) =>
           tiles'[l] = tiles[l] /\ index'[l] \in {index[l], 0},
         Works(downloads[d], "core") \/ (catalog' = catalog /\ coreHash' = coreHash),
         \A l \in Layers : \A h \in 0..MaxContent : Claimed(h, l)' =>
           h = 0 \/ Claimed(h, l) \/ (Works(downloads[d], l) /\ Backed(h, l)'),
         \A l \in Layers : \A h \in 0..MaxContent :
           Works(downloads[d], l) /\ Claimed(h, l) => Backed(h, l)',
         CallBacked(x)',
         \A h \in 0..MaxContent :
           x.layer \in Layers /\ Claimed(h, x.layer)' => AsNewAs(x, h),
         NothingFromTheFuture'
  PROVE  PackInv'
  <1>1. /\ Pack!TypeOK /\ current \in [Pack!Packs -> 1..MaxContent] /\ DeviceTyped
        /\ downloads \in [Downloads -> Calls]
    BY TypedCalls, PackNames DEF PackInv
  <1>2. Pack!TypeOK'
    BY <1>1, PackNames DEF Pack!TypeOK, Calls, DeviceTyped
  <1>3. downloads'[d] = x /\ \A e \in Downloads \ {d} : downloads'[e] = downloads[e]
    BY <1>1
  <1>4. OneCallPerPack'
    <2> SUFFICES ASSUME NEW p \in Pack!Packs, NEW e \in Downloads, NEW f \in Downloads,
                        Works(downloads'[e], p), Works(downloads'[f], p), e # f
                 PROVE  FALSE
      BY DEF OneCallPerPack, Works
    <2>1. ASSUME NEW g \in Downloads \ {d}, Works(downloads[g], p)
          PROVE  Pack!Busy(p) /\ ~Works(downloads[d], p)
      BY <2>1, PackNames DEF PackInv, OneCallPerPack, Works, Pack!Busy, CoreWork, LayerWork
    <2> QED
      BY <1>3, <2>1 DEF PackInv, OneCallPerPack
  <1>5. ASSUME NEW e \in Downloads \ {d}, NEW p \in Pack!Packs, Works(downloads[e], p)
        PROVE  ~Works(downloads[d], p)
    BY <1>5 DEF PackInv, OneCallPerPack
  <1>6. ClaimsBacked'
    <2> SUFFICES ASSUME NEW l \in Layers, NEW h \in 0..MaxContent, Claimed(h, l)'
                 PROVE  Backed(h, l)'
      BY DEF ClaimsBacked, Claimed, Claims, Backed
    <2>1. CASE h = 0
      BY <1>1, <2>1, <1>2, PackNames DEF Backed, DeviceTyped, Pack!Hashes
    <2>2. CASE Claimed(h, l) /\ ~Works(downloads[d], l)
      <3>1. Backed(h, l)
        BY <2>2 DEF PackInv, ClaimsBacked
      <3> QED
        BY <3>1, <2>2 DEF Backed
    <2> QED
      BY <2>1, <2>2
  <1>7. ASSUME NEW e \in Downloads \ {d}
        PROVE  CallBacked(downloads[e])'
    <2>1. CallBacked(downloads[e]) /\ downloads'[e] = downloads[e] /\ downloads[e] \in Calls
      BY <1>1, <1>3 DEF PackInv, CallsBacked
    <2>2. CASE downloads[e].layer = "core"
      <3>1. downloads[e].pc \in CoreWork => catalog' = catalog /\ coreHash' = coreHash
        BY <1>5, <2>2, PackNames DEF Works
      <3> QED
        BY <2>1, <2>2, <3>1 DEF CallBacked, CoreWork, LayerWork
    <2>3. CASE downloads[e].layer # "core"
      <3>1. downloads[e].layer \in Layers /\ downloads[e].pc \in LayerWork
        BY <2>1, <2>3, PackNames DEF CallBacked, Calls
      <3>2. ~Works(downloads[d], downloads[e].layer)
        BY <1>5, <3>1, PackNames DEF Works
      <3> QED
        BY <2>1, <2>3, <3>1, <3>2 DEF CallBacked, Backed, LayerWork
    <2> QED
      BY <2>2, <2>3
  <1>8. CallsBacked'
    BY <1>3, <1>7 DEF CallsBacked
  <1>9. ASSUME NEW e \in Downloads \ {d}, NEW h \in 0..MaxContent,
               downloads[e].layer \in Layers, Claimed(h, downloads[e].layer)'
        PROVE  AsNewAs(downloads[e], h)
    <2>1. downloads[e].pc \in LayerWork /\ downloads[e] \in Calls
      BY <1>1, <1>9, PackNames DEF PackInv, CallsBacked, CallBacked
    <2>2. ~Works(downloads[d], downloads[e].layer)
      BY <1>5, <1>9, <2>1, PackNames DEF Works
    <2>3. h = 0 \/ Claimed(h, downloads[e].layer)
      BY <1>9, <2>2
    <2> QED
      BY <1>9, <2>1, <2>3 DEF PackInv, CallsAreNewer, AsNewAs, Calls
  <1>10. CallsAreNewer'
    <2> SUFFICES ASSUME NEW e \in Downloads, NEW h \in 0..MaxContent,
                        downloads'[e].layer \in Layers, Claimed(h, downloads[e].layer)'
                 PROVE  AsNewAs(downloads'[e], h)
      BY DEF CallsAreNewer, AsNewAs
    <2> QED
      BY <1>3, <1>9
  <1> QED
    BY <1>2, <1>4, <1>6, <1>8, <1>10 DEF PackInv

(* A step that writes nothing.                                             *)
LEMMA CallMoves ==
  ASSUME PackInv, NEW d \in Downloads, NEW x \in Calls,
         downloads' = [downloads EXCEPT ![d] = x], UNCHANGED <<current, Pack!Device>>,
         \A p \in Pack!Packs : Works(x, p) => Works(downloads[d], p) \/ ~Pack!Busy(p),
         CallBacked(x),
         \A l \in Layers : \A h \in 0..MaxContent : Claims(x, h, l) => h = 0 \/ Claimed(h, l),
         \A h \in 0..MaxContent :
           x.layer \in Layers /\ (h = 0 \/ Claimed(h, x.layer)) => AsNewAs(x, h)
  PROVE  PackInv'
  <1>1. /\ DeviceTyped /\ downloads \in [Downloads -> Calls]
        /\ current \in [Pack!Packs -> 1..MaxContent]
    BY TypedCalls, PackNames DEF PackInv
  <1>2. /\ UNCHANGED <<current, catalog, coreHash, tiles, index, hashes>>
        /\ DeviceTyped'
    BY <1>1 DEF Pack!Device, DeviceTyped
  <1>3. \A l \in Layers : \A h \in 0..MaxContent : Claimed(h, l)' => h = 0 \/ Claimed(h, l)
    BY <1>1, <1>2 DEF Claimed, Claims
  <1>4. CallBacked(x)' /\ NothingFromTheFuture'
    BY <1>2 DEF CallBacked, Backed, PackInv, NothingFromTheFuture
  <1>5. \A l \in Layers : \A h \in 0..MaxContent : Claimed(h, l) => Backed(h, l)'
    BY <1>2 DEF PackInv, ClaimsBacked, Backed
  <1> QED
    BY <1>2, <1>3, <1>4, <1>5, CallStep

LEMMA CallRests ==
  ASSUME PackInv, NEW d \in Downloads, NEW x \in Calls, AtRest(x),
         downloads' = [downloads EXCEPT ![d] = x], UNCHANGED <<current, Pack!Device>>,
         \A l \in Layers : \A h \in 0..MaxContent : Claims(x, h, l) => h = 0 \/ Claimed(h, l)
  PROVE  PackInv'
  <1>1. /\ CallBacked(x) /\ \A p \in Pack!Packs : ~Works(x, p)
        /\ \A h \in 0..MaxContent : AsNewAs(x, h)
    BY RestIsBacked, PackNames
  <1> QED
    BY <1>1, CallMoves

(* No claim is out of the range of versions.                               *)
LEMMA TypedClaims ==
  ASSUME PackInv, NEW d \in Downloads
  PROVE  /\ downloads[d] \in Calls /\ hashes \in Pack!Hashes
         /\ current \in [Pack!Packs -> 1..MaxContent]
         /\ \A l \in Layers : Claimed(hashes[l], l) /\ Claimed(downloads[d].kept[l], l)
                              /\ Claimed(downloads[d].loaded[l], l)
  BY TypedCalls, PackNames DEF PackInv, DeviceTyped, Claimed, Claims

(* What a call is when it has asked for a pack.                            *)
LEMMA Asked ==
  ASSUME PackInv, NEW d \in Downloads, NEW y \in Calls, NEW p \in Pack!Packs, Pack!Asks(d, p, y)
  PROVE  \E x \in Calls :
           /\ downloads' = [downloads EXCEPT ![d] = x] /\ ~Pack!Busy(p)
           /\ x.layer = p /\ x.pack.hash = current[p] /\ x.pc = y.pc
           /\ x.kept = y.kept /\ x.loaded = y.loaded
  <1>1. PICK x : x = [y EXCEPT !.layer = p, !.pack.hash = current[p]]
    OBVIOUS
  <1>2. current[p] \in 0..MaxContent
    BY TypedClaims, PackNames
  <1>3. [y.pack EXCEPT !.hash = current[p]] \in
          [hash : 0..MaxContent, content : 0..MaxContent, parts : SUBSET Pack!Parts]
    BY <1>2 DEF Calls
  <1>4. x = [y EXCEPT !.layer = p, !.pack = [y.pack EXCEPT !.hash = current[p]]]
    BY <1>1 DEF Calls
  <1>5. [y.pack EXCEPT !.hash = current[p]].hash = current[p]
    BY DEF Calls
  <1>6. /\ x \in Calls /\ x.layer = p /\ x.pack.hash = current[p] /\ x.pc = y.pc
        /\ x.kept = y.kept /\ x.loaded = y.loaded
    BY <1>3, <1>4, <1>5 DEF Calls
  <1> QED
    BY <1>1, <1>6 DEF Pack!Asks, Pack!Becomes

LEMMA StartSteps ==
  ASSUME PackInv, NEW d \in Downloads, Pack!StartFull(d) \/ Pack!StartMap(d) \/ Pack!CoreFails(d)
  PROVE  PackInv'
  <1>1. PICK x \in Calls : /\ AtRest(x) /\ downloads' = [downloads EXCEPT ![d] = x]
                           /\ x.kept = Pack!NoHashes /\ x.loaded = Pack!NoHashes
    <2>1. CASE Pack!CoreFails(d)
      BY <2>1, IdleTyped DEF Pack!CoreFails, Pack!Becomes, AtRest
    <2>2. CASE Pack!StartFull(d)
      <3>1. PICK kind \in {"core", "all"} :
              downloads' = [downloads EXCEPT ![d] =
                              [Pack!Idle EXCEPT !.kind = kind, !.pc = "manifest"]]
        BY <2>2 DEF Pack!StartFull, Pack!Becomes
      <3>2. [Pack!Idle EXCEPT !.kind = kind, !.pc = "manifest"] \in Calls
        BY IdleTyped DEF Calls
      <3> QED
        BY <3>1, <3>2, IdleTyped DEF AtRest, Calls
    <2>3. CASE Pack!StartMap(d)
      <3>1. PICK visible \in SUBSET Layers :
              downloads' = [downloads EXCEPT ![d] =
                              [Pack!Idle EXCEPT !.kind = "map", !.pc = "manifest",
                                                !.todo = visible]]
        BY <2>3 DEF Pack!StartMap, Pack!Becomes
      <3>2. [Pack!Idle EXCEPT !.kind = "map", !.pc = "manifest", !.todo = visible] \in Calls
        BY IdleTyped DEF Calls
      <3> QED
        BY <3>1, <3>2, IdleTyped DEF AtRest, Calls
    <2> QED
      BY <2>1, <2>2, <2>3
  <1>2. UNCHANGED <<current, Pack!Device>>
    BY DEF Pack!StartFull, Pack!StartMap, Pack!CoreFails
  <1>3. \A l \in Layers : \A h \in 0..MaxContent : Claims(x, h, l) => h = 0
    BY <1>1, EmptyTyped DEF Claims
  <1> QED
    BY <1>1, <1>2, <1>3, CallRests

LEMMA ManifestReturnsStep ==
  ASSUME PackInv, NEW d \in Downloads, Pack!ManifestReturns(d)
  PROVE  PackInv'
  <1>1. PICK known \in {current, Pack!Unknown} : TRUE /\
          LET answered == [downloads[d] EXCEPT !.manifest = [known EXCEPT ![Pack!Core] = 0]]
          IN \/ downloads[d].kind = "map" /\ Pack!Becomes(d, [answered EXCEPT !.pc = "layers"])
             \/ /\ downloads[d].kind # "map" /\ Pack!SkipsCore(known)
                /\ Pack!Becomes(d, [answered EXCEPT !.pc = "layers", !.kept = hashes,
                              !.todo = IF downloads[d].kind = "all" THEN Pack!WorkingSet ELSE {}])
             \/ /\ downloads[d].kind # "map" /\ ~Pack!SkipsCore(known)
                /\ Pack!Asks(d, Pack!Core, [answered EXCEPT !.pc = "core"])
    BY DEF Pack!ManifestReturns
  <1> DEFINE answered == [downloads[d] EXCEPT !.manifest = [known EXCEPT ![Pack!Core] = 0]]
  <1>2. /\ downloads[d] \in Calls /\ downloads[d].pc = "manifest"
        /\ UNCHANGED <<current, Pack!Device>> /\ hashes \in Pack!Hashes
        /\ current \in [Pack!Packs -> 1..MaxContent]
    BY TypedClaims DEF Pack!ManifestReturns
  <1>3. downloads[d].layer = "core"
    BY <1>2, PackNames DEF PackInv, CallsBacked, CallBacked, LayerWork
  <1>4. answered \in Calls /\ answered.layer = "core" /\ answered.pc = "manifest"
        /\ answered.kept = downloads[d].kept /\ answered.loaded = downloads[d].loaded
        /\ answered.pack = downloads[d].pack
    <2>1. [known EXCEPT ![Pack!Core] = 0] \in [Pack!Packs -> 0..MaxContent]
      BY <1>2, PackNames DEF Pack!Unknown
    <2> QED
      BY <1>2, <1>3, <2>1 DEF Calls
  <1>5. Pack!WorkingSet \subseteq Layers
    BY PackAssumption DEF Pack!WorkingSet
  <1> HIDE DEF answered
  <1>6. CASE downloads[d].kind = "map" /\ Pack!Becomes(d, [answered EXCEPT !.pc = "layers"])
    <2>1. PICK x : x = [answered EXCEPT !.pc = "layers"]
      OBVIOUS
    <2>2. x \in Calls /\ AtRest(x) /\ x.kept = downloads[d].kept /\ x.loaded = downloads[d].loaded
      BY <1>4, <2>1 DEF Calls, AtRest
    <2>3. \A l \in Layers : \A h \in 0..MaxContent : Claims(x, h, l) => Claimed(h, l)
      BY <2>2, TypedClaims DEF Claims
    <2> QED
      BY <1>2, <1>6, <2>1, <2>2, <2>3, CallRests DEF Pack!Becomes
  <1>7. CASE Pack!Becomes(d, [answered EXCEPT !.pc = "layers", !.kept = hashes,
                      !.todo = IF downloads[d].kind = "all" THEN Pack!WorkingSet ELSE {}])
    <2>1. PICK x : x = [answered EXCEPT !.pc = "layers", !.kept = hashes,
                      !.todo = IF downloads[d].kind = "all" THEN Pack!WorkingSet ELSE {}]
      OBVIOUS
    <2>2. x \in Calls /\ AtRest(x) /\ x.kept = hashes /\ x.loaded = downloads[d].loaded
      BY <1>2, <1>4, <1>5, <2>1 DEF Calls, AtRest
    <2>3. \A l \in Layers : \A h \in 0..MaxContent : Claims(x, h, l) => Claimed(h, l)
      BY <2>2, TypedClaims DEF Claims
    <2> QED
      BY <1>2, <1>7, <2>1, <2>2, <2>3, CallRests DEF Pack!Becomes
  <1>8. CASE Pack!Asks(d, Pack!Core, [answered EXCEPT !.pc = "core"])
    <2>1. PICK y : y = [answered EXCEPT !.pc = "core"]
      OBVIOUS
    <2>2. /\ y \in Calls /\ y.pc = "core" /\ y.kept = downloads[d].kept
          /\ y.loaded = downloads[d].loaded /\ Pack!Asks(d, "core", y)
      BY <1>4, <1>8, <2>1, PackNames DEF Calls
    <2>3. PICK x \in Calls :
            /\ downloads' = [downloads EXCEPT ![d] = x] /\ ~Pack!Busy("core")
            /\ x.layer = "core" /\ x.pack.hash = current["core"] /\ x.pc = y.pc
            /\ x.kept = y.kept /\ x.loaded = y.loaded
      BY <2>2, PackNames, Asked
    <2>4. \A p \in Pack!Packs : Works(x, p) => ~Pack!Busy(p)
      BY <2>3 DEF Works
    <2>5. CallBacked(x)
      BY <1>2, <2>2, <2>3, PackNames DEF CallBacked, LayerWork, PackInv, NothingFromTheFuture,
         Pack!TypeOK
    <2>6. \A l \in Layers : \A h \in 0..MaxContent : Claims(x, h, l) => Claimed(h, l)
      BY <2>2, <2>3, TypedClaims DEF Claims
    <2> QED
      BY <1>2, <2>3, <2>4, <2>5, <2>6, PackNames, CallMoves
  <1> QED
    BY <1>1, <1>6, <1>7, <1>8 DEF answered

(* Where a call is tells what it works on.                                 *)
LEMMA WorksOn ==
  ASSUME PackInv, NEW d \in Downloads
  PROVE  /\ downloads[d].pc \in LayerWork <=> downloads[d].layer \in Layers
         /\ downloads[d].pc \in LayerWork => Works(downloads[d], downloads[d].layer)
         /\ downloads[d].pc \notin LayerWork => downloads[d].layer = "core"
         /\ \A l \in Layers : Works(downloads[d], l) => downloads[d].layer = l
  BY TypedClaims, PackNames DEF PackInv, CallsBacked, CallBacked, Works, Calls

(* What a call is when its pack is there.                                  *)
LEMMA Arrived ==
  ASSUME PackInv, NEW d \in Downloads, NEW p \in Pack!Packs, NEW next \in {"seed", "tiles"},
         NEW parts \in SUBSET Pack!Parts, Pack!Arrives(d, p, next, parts)
  PROVE  /\ \E x \in Calls :
              /\ downloads' = [downloads EXCEPT ![d] = x]
              /\ downloads[d].pack.hash <= x.pack.hash /\ x.pack.hash <= x.pack.content
              /\ x.pack.content <= current[p]
              /\ x.layer = downloads[d].layer /\ x.pc = next
              /\ x.kept = downloads[d].kept /\ x.loaded = downloads[d].loaded
         /\ UNCHANGED <<current, Pack!Device>>
  <1>1. downloads[d] \in Calls /\ downloads[d].pack.hash \in Nat /\ current[p] \in 1..MaxContent
    BY TypedClaims DEF Calls
  <1>2. PICK h \in downloads[d].pack.hash..current[p] : \E c \in h..current[p] :
          Pack!Becomes(d, [downloads[d] EXCEPT !.pc = next,
                             !.pack = [hash |-> h, content |-> c, parts |-> parts]])
    BY DEF Pack!Arrives
  <1>3. PICK c \in h..current[p] :
          Pack!Becomes(d, [downloads[d] EXCEPT !.pc = next,
                             !.pack = [hash |-> h, content |-> c, parts |-> parts]])
    BY <1>2
  <1>4. [hash |-> h, content |-> c, parts |-> parts] \in
          [hash : 0..MaxContent, content : 0..MaxContent, parts : SUBSET Pack!Parts]
    BY <1>1, PackNames
  <1>5. PICK x : x = [downloads[d] EXCEPT !.pc = next,
                        !.pack = [hash |-> h, content |-> c, parts |-> parts]]
    OBVIOUS
  <1>6. /\ x \in Calls /\ x.pack.hash = h /\ x.pack.content = c /\ x.pc = next
        /\ x.layer = downloads[d].layer
        /\ x.kept = downloads[d].kept /\ x.loaded = downloads[d].loaded
    BY <1>1, <1>4, <1>5 DEF Calls
  <1>7. downloads' = [downloads EXCEPT ![d] = x] /\ UNCHANGED <<current, Pack!Device>>
    BY <1>3, <1>5 DEF Pack!Becomes, Pack!Arrives
  <1>8. downloads[d].pack.hash <= h /\ h <= c /\ c <= current[p]
    BY <1>1
  <1> QED
    BY <1>6, <1>7, <1>8

LEMMA CoreArrivesStep ==
  ASSUME PackInv, NEW d \in Downloads, Pack!CoreArrives(d)
  PROVE  PackInv'
  <1>1. downloads[d].pc = "core" /\ Pack!Arrives(d, "core", "seed", {})
    BY PackNames DEF Pack!CoreArrives
  <1>2. /\ downloads[d] \in Calls /\ downloads[d].layer = "core"
        /\ current \in [Pack!Packs -> 1..MaxContent] /\ coreHash \in Nat
        /\ coreHash <= downloads[d].pack.hash
    BY <1>1, TypedClaims, WorksOn DEF LayerWork, PackInv, CallsBacked, CallBacked, Pack!TypeOK
  <1>3. PICK x \in Calls :
          /\ downloads' = [downloads EXCEPT ![d] = x]
          /\ downloads[d].pack.hash <= x.pack.hash /\ x.pack.hash <= x.pack.content
          /\ x.pack.content <= current["core"]
          /\ x.layer = "core" /\ x.pc = "seed"
          /\ x.kept = downloads[d].kept /\ x.loaded = downloads[d].loaded
    BY <1>1, <1>2, PackNames, Arrived
  <1>4. UNCHANGED <<current, Pack!Device>>
    BY <1>1, PackNames, Arrived
  <1>5. \A p \in Pack!Packs : Works(x, p) => Works(downloads[d], p)
    BY <1>1, <1>2, <1>3 DEF Works, CoreWork
  <1>6. CallBacked(x)
    BY <1>2, <1>3 DEF CallBacked, LayerWork, Calls
  <1>7. \A l \in Layers : \A h \in 0..MaxContent : Claims(x, h, l) => Claimed(h, l)
    BY <1>3, TypedClaims DEF Claims
  <1> QED
    BY <1>3, <1>4, <1>5, <1>6, <1>7, PackNames, CallMoves

LEMMA LayerArrivesStep ==
  ASSUME PackInv, NEW d \in Downloads, Pack!LayerArrives(d)
  PROVE  PackInv'
  <1> DEFINE l == downloads[d].layer
  <1>1. PICK parts \in SUBSET Pack!Parts : Pack!Arrives(d, l, "tiles", parts)
    BY DEF Pack!LayerArrives
  <1>2. downloads[d].pc = "fetch"
    BY DEF Pack!LayerArrives
  <1>3. /\ downloads[d] \in Calls /\ l \in Layers /\ l \in Pack!Packs
        /\ current \in [Pack!Packs -> 1..MaxContent]
    BY <1>2, TypedClaims, WorksOn, PackNames DEF LayerWork
  <1>4. PICK x \in Calls :
          /\ downloads' = [downloads EXCEPT ![d] = x]
          /\ downloads[d].pack.hash <= x.pack.hash /\ x.pack.hash <= x.pack.content
          /\ x.pack.content <= current[l]
          /\ x.layer = l /\ x.pc = "tiles"
          /\ x.kept = downloads[d].kept /\ x.loaded = downloads[d].loaded
    BY <1>1, <1>3, Arrived
  <1>5. UNCHANGED <<current, Pack!Device>>
    BY <1>1, <1>3, Arrived
  <1>6. \A p \in Pack!Packs : Works(x, p) => Works(downloads[d], p)
    BY <1>2, <1>3, <1>4, PackNames DEF Works, LayerWork
  <1>7. CallBacked(x)
    BY <1>3, <1>4, PackNames DEF CallBacked, LayerWork, Calls
  <1>8. \A k \in Layers : \A h \in 0..MaxContent : Claims(x, h, k) => Claimed(h, k)
    BY <1>4, TypedClaims DEF Claims
  <1>9. \A h \in 0..MaxContent : h = 0 \/ Claimed(h, l) => AsNewAs(x, h)
    <2>1. /\ \A h \in 0..MaxContent : Claimed(h, l) => h <= downloads[d].pack.hash
          /\ downloads[d].pack.hash \in Nat /\ x.pack.hash \in Nat /\ x.pack.content \in Nat
      BY <1>2, <1>3, <1>4 DEF PackInv, CallsAreNewer, AsNewAs, Calls
    <2> QED
      BY <1>4, <2>1 DEF AsNewAs
  <1> QED
    BY <1>4, <1>5, <1>6, <1>7, <1>8, <1>9, CallMoves

------------------------------------------------------------------------------
(* From one layer to the next.                                             *)

(* A call that is done with a layer.                                       *)
LEMMA Passed ==
  ASSUME PackInv, NEW d \in Downloads, NEW l \in Layers, NEW kept \in Pack!Hashes,
         Pack!Passes(d, l, kept)
  PROVE  \E x \in Calls :
           /\ downloads' = [downloads EXCEPT ![d] = x] /\ AtRest(x)
           /\ x.loaded = Pack!NoHashes /\ x.kept \in {kept, Pack!NoHashes}
  <1>1. PICK x : x = [downloads[d] EXCEPT !.pc = "layers", !.todo = @ \ {l}, !.layer = Pack!Core,
                        !.loaded = Pack!NoHashes, !.pack = Pack!NoPack,
                        !.kept = IF downloads[d].kind = "all" THEN kept ELSE Pack!NoHashes]
    OBVIOUS
  <1>2. PICK k \in Pack!Hashes :
          /\ k = IF downloads[d].kind = "all" THEN kept ELSE Pack!NoHashes
          /\ k \in {kept, Pack!NoHashes}
    BY EmptyTyped
  <1>3. downloads[d] \in Calls /\ downloads[d].todo \ {l} \in SUBSET Layers
    BY TypedClaims DEF Calls
  <1>4. x = [downloads[d] EXCEPT !.pc = "layers", !.todo = downloads[d].todo \ {l},
               !.layer = "core", !.loaded = Pack!NoHashes, !.pack = Pack!NoPack, !.kept = k]
    BY <1>1, <1>2, <1>3, PackNames DEF Calls
  <1>5. x \in Calls /\ AtRest(x) /\ x.loaded = Pack!NoHashes /\ x.kept = k
    BY <1>2, <1>3, <1>4, PackNames, EmptyTyped DEF Calls, AtRest
  <1> QED
    BY <1>1, <1>2, <1>5 DEF Pack!Passes, Pack!Becomes

LEMMA LayerFailsStep ==
  ASSUME PackInv, NEW d \in Downloads, Pack!LayerFails(d)
  PROVE  PackInv'
  <1>1. /\ downloads[d].pc \in LayerWork /\ UNCHANGED <<current, Pack!Device>>
        /\ Pack!Passes(d, downloads[d].layer, downloads[d].kept)
    BY DEF Pack!LayerFails, LayerWork
  <1>2. downloads[d].layer \in Layers /\ downloads[d].kept \in Pack!Hashes
    BY <1>1, TypedClaims, WorksOn DEF Calls
  <1>3. PICK x \in Calls :
           /\ downloads' = [downloads EXCEPT ![d] = x] /\ AtRest(x)
           /\ x.loaded = Pack!NoHashes /\ x.kept \in {downloads[d].kept, Pack!NoHashes}
    BY <1>1, <1>2, Passed
  <1>4. \A l \in Layers : \A h \in 0..MaxContent : Claims(x, h, l) => h = 0 \/ Claimed(h, l)
    BY <1>3, EmptyTyped, TypedClaims DEF Claims
  <1> QED
    BY <1>1, <1>3, <1>4, CallRests

LEMMA TakeLayerStep ==
  ASSUME PackInv, NEW d \in Downloads, Pack!TakeLayer(d)
  PROVE  PackInv'
  <1> DEFINE kept == downloads[d].kept
  <1>1. PICK l \in downloads[d].todo :
          \/ Pack!Passes(d, l, kept)
          \/ Pack!Passes(d, l, [kept EXCEPT ![l] = 0])
          \/ Pack!Asks(d, l, [downloads[d] EXCEPT !.pc = "fetch", !.loaded = hashes])
    BY DEF Pack!TakeLayer
  <1>2. /\ downloads[d] \in Calls /\ kept \in Pack!Hashes /\ l \in Layers /\ l \in Pack!Packs
        /\ hashes \in Pack!Hashes /\ current \in [Pack!Packs -> 1..MaxContent]
        /\ UNCHANGED <<current, Pack!Device>> /\ downloads[d].pc = "layers"
    BY TypedClaims, PackNames DEF Calls, Pack!TakeLayer
  <1>3. ASSUME NEW k \in Pack!Hashes, Pack!Passes(d, l, k),
               \A m \in Layers : k[m] \in {0, kept[m]}
        PROVE  PackInv'
    <2>1. PICK x \in Calls :
             /\ downloads' = [downloads EXCEPT ![d] = x] /\ AtRest(x)
             /\ x.loaded = Pack!NoHashes /\ x.kept \in {k, Pack!NoHashes}
      BY <1>2, <1>3, Passed
    <2>2. \A m \in Layers : \A h \in 0..MaxContent : Claims(x, h, m) => h = 0 \/ Claimed(h, m)
      BY <1>3, <2>1, EmptyTyped, TypedClaims DEF Claims
    <2> QED
      BY <1>2, <2>1, <2>2, CallRests
  <1>4. CASE Pack!Passes(d, l, kept)
    BY <1>2, <1>3, <1>4
  <1>5. CASE Pack!Passes(d, l, [kept EXCEPT ![l] = 0])
    <2>1. PICK k : k = [kept EXCEPT ![l] = 0]
      OBVIOUS
    <2>2. k \in Pack!Hashes /\ \A m \in Layers : k[m] \in {0, kept[m]}
      BY <1>2, <2>1, PackNames DEF Pack!Hashes
    <2> QED
      BY <1>3, <1>5, <2>1, <2>2
  <1>6. CASE Pack!Asks(d, l, [downloads[d] EXCEPT !.pc = "fetch", !.loaded = hashes])
    <2>1. PICK y : y = [downloads[d] EXCEPT !.pc = "fetch", !.loaded = hashes]
      OBVIOUS
    <2>2. y \in Calls /\ y.pc = "fetch" /\ y.kept = kept /\ y.loaded = hashes /\ Pack!Asks(d, l, y)
      BY <1>2, <1>6, <2>1 DEF Calls
    <2>3. PICK x \in Calls :
            /\ downloads' = [downloads EXCEPT ![d] = x] /\ ~Pack!Busy(l)
            /\ x.layer = l /\ x.pack.hash = current[l] /\ x.pc = y.pc
            /\ x.kept = y.kept /\ x.loaded = y.loaded
      BY <1>2, <2>2, Asked
    <2>4. \A p \in Pack!Packs : Works(x, p) => ~Pack!Busy(p)
      BY <2>3 DEF Works
    <2>5. CallBacked(x)
      BY <1>2, <2>2, <2>3, PackNames DEF CallBacked, LayerWork
    <2>6. \A m \in Layers : \A h \in 0..MaxContent : Claims(x, h, m) => Claimed(h, m)
      BY <2>2, <2>3, TypedClaims DEF Claims
    <2>7. \A h \in 0..MaxContent : h = 0 \/ Claimed(h, l) => AsNewAs(x, h)
      BY <1>2, <2>2, <2>3, PackNames DEF PackInv, ClaimsBacked, Backed, AsNewAs
    <2> QED
      BY <1>2, <2>3, <2>4, <2>5, <2>6, <2>7, CallMoves
  <1> QED
    BY <1>1, <1>4, <1>5, <1>6

------------------------------------------------------------------------------
(* Steps that write: of the core.                                          *)

LEMMA SeedCoreStep ==
  ASSUME PackInv, NEW d \in Downloads, Pack!SeedCore(d)
  PROVE  PackInv'
  <1>1. PICK x : x = [downloads[d] EXCEPT !.pc = "mark", !.pack.content = 0]
    OBVIOUS
  <1>2. /\ downloads[d].pc = "seed" /\ index' = Pack!NoHashes
        /\ catalog' = downloads[d].pack.content /\ downloads' = [downloads EXCEPT ![d] = x]
        /\ UNCHANGED <<coreHash, tiles, hashes, current>>
    BY <1>1 DEF Pack!SeedCore, Pack!Becomes
  <1>3. /\ downloads[d] \in Calls /\ downloads[d].layer = "core" /\ Works(downloads[d], "core")
        /\ \A l \in Layers : ~Works(downloads[d], l)
        /\ downloads \in [Downloads -> Calls] /\ DeviceTyped
        /\ current \in [Pack!Packs -> 1..MaxContent] /\ CallBacked(downloads[d])
    BY <1>2, TypedClaims, WorksOn, TypedCalls, PackNames
       DEF LayerWork, CoreWork, Works, PackInv, CallsBacked
  <1>4. [downloads[d].pack EXCEPT !.content = 0] \in
          [hash : 0..MaxContent, content : 0..MaxContent, parts : SUBSET Pack!Parts]
    <2>1. downloads[d].pack \in
            [hash : 0..MaxContent, content : 0..MaxContent, parts : SUBSET Pack!Parts]
      BY <1>3 DEF Calls
    <2>2. 0 \in 0..MaxContent
      BY PackNames
    <2> QED
      BY <2>1, <2>2
  <1>5. x = [downloads[d] EXCEPT !.pc = "mark", !.pack = [downloads[d].pack EXCEPT !.content = 0]]
    BY <1>1, <1>3 DEF Calls
  <1>6. /\ x \in Calls /\ x.layer = "core" /\ x.pc = "mark"
        /\ x.pack.hash = downloads[d].pack.hash
        /\ x.kept = downloads[d].kept /\ x.loaded = downloads[d].loaded
    BY <1>3, <1>4, <1>5 DEF Calls
  <1>7. /\ coreHash \in Nat /\ downloads[d].pack.hash \in Nat /\ downloads[d].pack.content \in Nat
        /\ coreHash <= downloads[d].pack.content
        /\ downloads[d].pack.hash <= downloads[d].pack.content
        /\ downloads[d].pack.content <= current["core"]
    BY <1>2, <1>3 DEF CallBacked, Calls, DeviceTyped
  <1>8. DeviceTyped'
    BY <1>2, <1>3, EmptyTyped DEF DeviceTyped, Calls
  <1>9. \A l \in Layers : tiles'[l] = tiles[l] /\ index'[l] = 0
    BY <1>2, EmptyTyped
  <1>10. \A l \in Layers : \A h \in 0..MaxContent : Claimed(h, l)' => Claimed(h, l)
    BY <1>2, <1>3, <1>6 DEF Claimed, Claims
  <1>11. CallBacked(x)'
    BY <1>2, <1>6, <1>7 DEF CallBacked, LayerWork
  <1>12. NothingFromTheFuture'
    BY <1>2, <1>3, <1>7, <1>9, PackNames DEF PackInv, NothingFromTheFuture
  <1>13. \A p \in Pack!Packs : Works(x, p) => Works(downloads[d], p)
    BY <1>3, <1>6 DEF Works, CoreWork
  <1> QED
    BY <1>2, <1>3, <1>6, <1>8, <1>9, <1>10, <1>11, <1>12, <1>13, PackNames, CallStep

LEMMA MarkDownloadedStep ==
  ASSUME PackInv, NEW d \in Downloads, Pack!MarkDownloaded(d)
  PROVE  PackInv'
  <1>1. PICK x : x = [downloads[d] EXCEPT !.pc = "clear", !.pack = Pack!NoPack]
    OBVIOUS
  <1>2. /\ downloads[d].pc = "mark" /\ coreHash' = downloads[d].pack.hash
        /\ downloads' = [downloads EXCEPT ![d] = x]
        /\ UNCHANGED <<catalog, tiles, index, hashes, current>>
    BY <1>1 DEF Pack!MarkDownloaded, Pack!Becomes
  <1>3. /\ downloads[d] \in Calls /\ downloads[d].layer = "core" /\ Works(downloads[d], "core")
        /\ \A l \in Layers : ~Works(downloads[d], l)
        /\ downloads \in [Downloads -> Calls] /\ DeviceTyped
        /\ current \in [Pack!Packs -> 1..MaxContent] /\ CallBacked(downloads[d])
    BY <1>2, TypedClaims, WorksOn, TypedCalls, PackNames
       DEF LayerWork, CoreWork, Works, PackInv, CallsBacked
  <1>4. /\ x \in Calls /\ AtRest(x)
        /\ x.kept = downloads[d].kept /\ x.loaded = downloads[d].loaded
    BY <1>1, <1>3, EmptyTyped DEF Calls, AtRest
  <1>5. DeviceTyped'
    BY <1>2, <1>3 DEF DeviceTyped, Calls
  <1>6. \A l \in Layers : \A h \in 0..MaxContent : Claimed(h, l)' => Claimed(h, l)
    BY <1>2, <1>3, <1>4 DEF Claimed, Claims
  <1>7. NothingFromTheFuture'
    BY <1>2, <1>3 DEF PackInv, NothingFromTheFuture, CallBacked
  <1>8. /\ CallBacked(x)' /\ \A p \in Pack!Packs : ~Works(x, p)
        /\ \A h \in 0..MaxContent : AsNewAs(x, h)
    BY <1>4, RestIsBacked, PackNames
  <1> QED
    BY <1>2, <1>3, <1>4, <1>5, <1>6, <1>7, <1>8, CallStep

LEMMA ClearHashesStep ==
  ASSUME PackInv, NEW d \in Downloads, Pack!ClearHashes(d)
  PROVE  PackInv'
  <1>1. PICK x : x = [downloads[d] EXCEPT !.pc = "layers",
                        !.todo = IF downloads[d].kind = "all" THEN Pack!WorkingSet ELSE {}]
    OBVIOUS
  <1>2. /\ downloads[d].pc = "clear" /\ hashes' = Pack!NoHashes
        /\ downloads' = [downloads EXCEPT ![d] = x]
        /\ UNCHANGED <<catalog, coreHash, tiles, index, current>>
    BY <1>1 DEF Pack!ClearHashes, Pack!Becomes
  <1>3. /\ downloads[d] \in Calls /\ downloads[d].layer = "core"
        /\ \A l \in Layers : ~Works(downloads[d], l)
        /\ downloads \in [Downloads -> Calls] /\ DeviceTyped
        /\ current \in [Pack!Packs -> 1..MaxContent]
    BY <1>2, TypedClaims, WorksOn, TypedCalls, PackNames DEF LayerWork, Works, PackInv
  <1>4. Pack!WorkingSet \subseteq Layers
    BY PackAssumption DEF Pack!WorkingSet
  <1>5. /\ x \in Calls /\ AtRest(x)
        /\ x.kept = downloads[d].kept /\ x.loaded = downloads[d].loaded
    BY <1>1, <1>3, <1>4 DEF Calls, AtRest
  <1>6. DeviceTyped'
    BY <1>2, <1>3, EmptyTyped DEF DeviceTyped
  <1>7. \A l \in Layers : \A h \in 0..MaxContent : Claimed(h, l)' => h = 0 \/ Claimed(h, l)
    BY <1>2, <1>3, <1>5, EmptyTyped DEF Claimed, Claims
  <1>8. NothingFromTheFuture'
    BY <1>2 DEF PackInv, NothingFromTheFuture
  <1>9. /\ CallBacked(x)' /\ \A p \in Pack!Packs : ~Works(x, p)
        /\ \A h \in 0..MaxContent : AsNewAs(x, h)
    BY <1>5, RestIsBacked, PackNames
  <1> QED
    BY <1>2, <1>3, <1>5, <1>6, <1>7, <1>8, <1>9, CallStep

------------------------------------------------------------------------------
(* Steps that write: of a layer.  What such a step has to keep of the      *)
(* layer it works on.                                                      *)

LEMMA LayerWrites ==
  ASSUME PackInv, NEW d \in Downloads, NEW x \in Calls, NEW l \in Layers,
         downloads[d].layer = l, downloads[d].pc \in LayerWork, x.layer = l, x.pc \in LayerWork,
         x.kept = downloads[d].kept, x.loaded = downloads[d].loaded,
         downloads' = [downloads EXCEPT ![d] = x],
         UNCHANGED <<catalog, coreHash, hashes, current>>,
         tiles' \in [Layers -> 0..Pack!Torn], index' \in Pack!Hashes,
         \A m \in Layers \ {l} : tiles'[m] = tiles[m] /\ index'[m] = index[m],
         tiles'[l] \in 0..current[l] \union {Pack!Torn}, index'[l] <= current[l],
         \A h \in 0..MaxContent : Claimed(h, l) => Backed(h, l)' /\ AsNewAs(x, h),
         CallBacked(x)'
  PROVE  PackInv'
  <1>1. /\ downloads[d] \in Calls /\ Works(downloads[d], l)
        /\ \A m \in Layers : Works(downloads[d], m) => m = l
        /\ downloads \in [Downloads -> Calls] /\ DeviceTyped
        /\ current \in [Pack!Packs -> 1..MaxContent]
    BY TypedClaims, WorksOn, TypedCalls, PackNames DEF Works, PackInv
  <1>2. DeviceTyped'
    BY <1>1 DEF DeviceTyped
  <1>3. \A m \in Layers : \A h \in 0..MaxContent : Claimed(h, m)' => Claimed(h, m)
    BY <1>1 DEF Claimed, Claims
  <1>4. NothingFromTheFuture'
    BY <1>1 DEF PackInv, NothingFromTheFuture
  <1>5. \A p \in Pack!Packs : Works(x, p) => Works(downloads[d], p)
    BY <1>1, PackNames DEF Works
  <1> QED
    BY <1>1, <1>2, <1>3, <1>4, <1>5, CallStep

LEMMA WriteTilesStep ==
  ASSUME PackInv, NEW d \in Downloads, Pack!WriteTiles(d)
  PROVE  PackInv'
  <1>1. PICK l, hash, brought :
          /\ l = downloads[d].layer
          /\ hash = downloads[d].pack.hash /\ brought = downloads[d].pack.content
    OBVIOUS
  <1>2. /\ downloads[d].pc = "tiles" /\ downloads[d] \in Calls /\ l \in Layers
        /\ current \in [Pack!Packs -> 1..MaxContent] /\ l \in Pack!Packs
        /\ UNCHANGED <<catalog, coreHash, index, hashes, current>>
        /\ CallBacked(downloads[d]) /\ DeviceTyped
    BY <1>1, TypedClaims, WorksOn, TypedCalls, PackNames
       DEF Pack!WriteTiles, LayerWork, PackInv, CallsBacked
  <1>3. PICK h \in {0, hash} :
          /\ Pack!Becomes(d, [downloads[d] EXCEPT !.pc = "wipe", !.pack.hash = h])
          /\ \/ tiles' = [tiles EXCEPT ![l] = brought]
             \/ h = 0 /\ tiles' \in {tiles, [tiles EXCEPT ![l] = Pack!Torn],
                                     [tiles EXCEPT ![l] = 0]}
    BY <1>1 DEF Pack!WriteTiles
  <1>4. /\ hash \in 0..MaxContent /\ brought \in 0..MaxContent /\ h \in 0..MaxContent
        /\ h <= hash /\ hash <= brought /\ brought <= current[l] /\ current[l] \in 1..MaxContent
    BY <1>1, <1>2, PackNames DEF Calls, CallBacked
  <1>5. PICK x : x = [downloads[d] EXCEPT !.pc = "wipe", !.pack.hash = h]
    OBVIOUS
  <1>6. /\ x \in Calls /\ x.layer = l /\ x.pc = "wipe"
        /\ x.pack.hash = h /\ x.pack.content = brought
        /\ x.kept = downloads[d].kept /\ x.loaded = downloads[d].loaded
    <2>1. /\ downloads[d].pack.content = brought /\ downloads[d].pack \in
            [hash : 0..MaxContent, content : 0..MaxContent, parts : SUBSET Pack!Parts]
      BY <1>1, <1>2 DEF Calls
    <2>2. /\ [downloads[d].pack EXCEPT !.hash = h] \in
               [hash : 0..MaxContent, content : 0..MaxContent, parts : SUBSET Pack!Parts]
          /\ [downloads[d].pack EXCEPT !.hash = h].hash = h
          /\ [downloads[d].pack EXCEPT !.hash = h].content = brought
      BY <1>4, <2>1
    <2>3. x = [downloads[d] EXCEPT !.pc = "wipe",
                                   !.pack = [downloads[d].pack EXCEPT !.hash = h]]
      BY <1>2, <1>5 DEF Calls
    <2> QED
      BY <1>1, <1>2, <2>2, <2>3 DEF Calls
  <1>7. PICK v \in 0..Pack!Torn :
          /\ tiles'[l] = v /\ \A m \in Layers \ {l} : tiles'[m] = tiles[m]
          /\ tiles' \in [Layers -> 0..Pack!Torn]
          /\ v = brought \/ (h = 0 /\ v \in {0, tiles[l], Pack!Torn})
    <2>1. PICK v : /\ tiles' = [tiles EXCEPT ![l] = v]
                   /\ v = brought \/ (h = 0 /\ v \in {0, tiles[l], Pack!Torn})
      BY <1>2, <1>3 DEF DeviceTyped
    <2>2. v \in 0..Pack!Torn
      BY <1>2, <1>4, <2>1, PackNames DEF DeviceTyped
    <2> QED
      BY <1>2, <2>1, <2>2 DEF DeviceTyped
  <1>8. v \in 0..current[l] \union {Pack!Torn} /\ index'[l] <= current[l]
    BY <1>2, <1>4, <1>7 DEF PackInv, NothingFromTheFuture
  <1>9. \A k \in 0..MaxContent : Claimed(k, l) => Backed(k, l)' /\ AsNewAs(x, k)
    <2> SUFFICES ASSUME NEW k \in 0..MaxContent, Claimed(k, l)
                 PROVE  Backed(k, l)' /\ AsNewAs(x, k)
      OBVIOUS
    <2>1. Backed(k, l) /\ k <= brought
      BY <1>1, <1>2 DEF PackInv, ClaimsBacked, CallsAreNewer, AsNewAs
    <2>2. tiles'[l] # 0 => k <= tiles'[l]
      BY <1>2, <1>7, <2>1, PackNames DEF Backed
    <2> QED
      BY <1>2, <1>6, <2>1, <2>2 DEF Backed, AsNewAs
  <1>10. CallBacked(x)'
    BY <1>2, <1>4, <1>6, <1>7, PackNames DEF CallBacked, LayerWork
  <1> QED
    <2>1. /\ downloads' = [downloads EXCEPT ![d] = x] /\ index' \in Pack!Hashes
          /\ downloads[d].pc \in LayerWork /\ x.pc \in LayerWork
          /\ \A m \in Layers \ {l} : tiles'[m] = tiles[m] /\ index'[m] = index[m]
      BY <1>2, <1>3, <1>5, <1>6, <1>7 DEF Pack!Becomes, LayerWork, DeviceTyped
    <2> QED
      BY <1>1, <1>2, <1>6, <1>7, <1>8, <1>9, <1>10, <2>1, LayerWrites

(* A call that goes on to save: of its pack the hash is left.              *)
LEMMA GoesToSave ==
  ASSUME NEW y \in Calls, NEW x,
         x = [y EXCEPT !.pc = "save", !.pack.content = 0, !.pack.parts = {}]
  PROVE  /\ x \in Calls /\ x.layer = y.layer /\ x.pc = "save" /\ x.pack.hash = y.pack.hash
         /\ x.kept = y.kept /\ x.loaded = y.loaded
  <1> DEFINE PackStates == [hash : 0..MaxContent, content : 0..MaxContent,
                            parts : SUBSET Pack!Parts]
  <1>1. PICK b : b = [y.pack EXCEPT !.content = 0]
    OBVIOUS
  <1>2. b \in PackStates /\ b.hash = y.pack.hash
    <2>1. y.pack \in PackStates /\ 0 \in 0..MaxContent
      BY PackNames DEF Calls
    <2> QED
      BY <1>1, <2>1
  <1>3. PICK c : c = [b EXCEPT !.parts = {}]
    OBVIOUS
  <1>4. c \in PackStates /\ c.hash = y.pack.hash
    BY <1>2, <1>3
  <1>5. x = [y EXCEPT !.pc = "save", !.pack = c]
    BY <1>1, <1>2, <1>3, <1>4 DEF Calls
  <1> QED
    BY <1>4, <1>5 DEF Calls

LEMMA RowsSteps ==
  ASSUME PackInv, NEW d \in Downloads, Pack!WipeRows(d) \/ Pack!InsertRows(d)
  PROVE  PackInv'
  <1>1. PICK l, hash, brought :
          /\ l = downloads[d].layer
          /\ hash = downloads[d].pack.hash /\ brought = downloads[d].pack.content
    OBVIOUS
  <1>2. /\ downloads[d].pc \in {"wipe", "rows"} /\ downloads[d] \in Calls /\ l \in Layers
        /\ current \in [Pack!Packs -> 1..MaxContent] /\ l \in Pack!Packs
        /\ UNCHANGED <<catalog, coreHash, tiles, hashes, current>>
        /\ CallBacked(downloads[d]) /\ DeviceTyped
    BY <1>1, TypedClaims, WorksOn, TypedCalls, PackNames
       DEF Pack!WipeRows, Pack!InsertRows, LayerWork, PackInv, CallsBacked
  <1>3. /\ hash \in 0..MaxContent /\ brought \in 0..MaxContent
        /\ hash <= brought /\ brought <= current[l] /\ current[l] \in 1..MaxContent
        /\ tiles[l] # 0 => hash <= tiles[l]
    BY <1>1, <1>2, PackNames DEF Calls, CallBacked
  <1>4. PICK x :
          /\ downloads' = [downloads EXCEPT ![d] = x]
          /\ \/ ~Pack!InsertRows(d) /\ x = [downloads[d] EXCEPT !.pc = "rows"]
             \/ x = [downloads[d] EXCEPT !.pc = "save", !.pack.content = 0, !.pack.parts = {}]
    <2>1. CASE Pack!WipeRows(d) /\ ~Pack!InsertRows(d)
      BY <2>1 DEF Pack!WipeRows, Pack!Becomes
    <2>2. CASE Pack!InsertRows(d)
      BY <2>2 DEF Pack!InsertRows, Pack!Becomes
    <2> QED
      BY <2>1, <2>2
  <1>5. /\ x \in Calls /\ x.layer = l /\ x.pc \in {"rows", "save"} /\ x.pack.hash = hash
        /\ x.pc = "rows" => x.pack.content = brought
        /\ x.kept = downloads[d].kept /\ x.loaded = downloads[d].loaded
    <2>1. CASE x = [downloads[d] EXCEPT !.pc = "rows"]
      BY <1>1, <1>2, <2>1 DEF Calls
    <2>2. CASE x = [downloads[d] EXCEPT !.pc = "save", !.pack.content = 0, !.pack.parts = {}]
      BY <1>1, <1>2, <2>2, GoesToSave
    <2> QED
      BY <1>4, <2>1, <2>2
  <1>6. PICK v \in {0, brought} :
          /\ index' = [index EXCEPT ![l] = v]
          /\ v # 0 => x.pc = "save"
    <2>1. CASE Pack!WipeRows(d) /\ ~Pack!InsertRows(d)
      BY <1>1, <2>1 DEF Pack!WipeRows
    <2>2. CASE Pack!InsertRows(d)
      <3>1. x.pc = "save"
        BY <1>2, <1>4, <2>2, GoesToSave
      <3> QED
        BY <1>1, <2>2, <3>1 DEF Pack!InsertRows
    <2> QED
      BY <2>1, <2>2
  <1>7. /\ index' \in Pack!Hashes /\ index'[l] = v
        /\ \A m \in Layers \ {l} : tiles'[m] = tiles[m] /\ index'[m] = index[m]
    <2>1. v \in 0..MaxContent /\ index \in [Layers -> 0..MaxContent]
      BY <1>2, <1>3, PackNames DEF DeviceTyped, Pack!Hashes
    <2> QED
      BY <1>2, <1>6, <2>1 DEF Pack!Hashes
  <1>8. /\ tiles' \in [Layers -> 0..Pack!Torn] /\ index'[l] <= current[l]
        /\ tiles'[l] \in 0..current[l] \union {Pack!Torn}
    BY <1>2, <1>3, <1>7 DEF PackInv, NothingFromTheFuture, DeviceTyped
  <1>9. \A k \in 0..MaxContent : Claimed(k, l) => Backed(k, l)' /\ AsNewAs(x, k)
    <2> SUFFICES ASSUME NEW k \in 0..MaxContent, Claimed(k, l)
                 PROVE  Backed(k, l)' /\ AsNewAs(x, k)
      OBVIOUS
    <2>1. Backed(k, l) /\ k <= brought
      BY <1>1, <1>2 DEF PackInv, ClaimsBacked, CallsAreNewer, AsNewAs
    <2> QED
      BY <1>2, <1>5, <1>7, <2>1 DEF Backed, AsNewAs
  <1>10. CallBacked(x)'
    <2>1. x.pc = "save" => Backed(hash, l)'
      BY <1>2, <1>3, <1>7, PackNames DEF Backed
    <2> QED
      BY <1>2, <1>3, <1>5, <2>1, PackNames DEF CallBacked, LayerWork
  <1>11. downloads[d].pc \in LayerWork /\ x.pc \in LayerWork
    BY <1>2, <1>5 DEF LayerWork
  <1> QED
    BY <1>1, <1>2, <1>4, <1>5, <1>7, <1>8, <1>9, <1>10, <1>11, LayerWrites

LEMMA SaveHashStep ==
  ASSUME PackInv, NEW d \in Downloads, Pack!SaveHash(d)
  PROVE  PackInv'
  <1>1. PICK l, hash, kept :
          /\ l = downloads[d].layer /\ hash = downloads[d].pack.hash
          /\ kept = [downloads[d].kept EXCEPT ![l] = hash]
    OBVIOUS
  <1>2. /\ downloads[d].pc = "save" /\ hashes' = [downloads[d].loaded EXCEPT ![l] = hash]
        /\ Pack!Passes(d, l, kept) /\ UNCHANGED <<catalog, coreHash, tiles, index, current>>
    BY <1>1 DEF Pack!SaveHash
  <1>3. /\ downloads[d] \in Calls /\ l \in Layers /\ CallBacked(downloads[d])
        /\ Works(downloads[d], l) /\ \A m \in Layers : Works(downloads[d], m) => m = l
        /\ downloads \in [Downloads -> Calls] /\ DeviceTyped
        /\ current \in [Pack!Packs -> 1..MaxContent]
    BY <1>1, <1>2, TypedClaims, WorksOn, TypedCalls DEF LayerWork, PackInv, CallsBacked
  <1>4. hash \in 0..MaxContent /\ Backed(hash, l)
    BY <1>1, <1>2, <1>3, PackNames DEF Calls, CallBacked, LayerWork
  <1>5. /\ kept \in Pack!Hashes /\ hashes' \in Pack!Hashes
        /\ kept[l] = hash /\ hashes'[l] = hash
        /\ \A m \in Layers \ {l} : kept[m] = downloads[d].kept[m]
                                   /\ hashes'[m] = downloads[d].loaded[m]
    BY <1>1, <1>2, <1>3, <1>4 DEF Calls, Pack!Hashes
  <1>6. PICK x \in Calls :
           /\ downloads' = [downloads EXCEPT ![d] = x] /\ AtRest(x)
           /\ x.loaded = Pack!NoHashes /\ x.kept \in {kept, Pack!NoHashes}
    BY <1>2, <1>3, <1>5, Passed
  <1>7. DeviceTyped' /\ NothingFromTheFuture'
    BY <1>2, <1>3, <1>5 DEF DeviceTyped, PackInv, NothingFromTheFuture
  <1>8. \A m \in Layers : \A h \in 0..MaxContent :
          Claimed(h, m)' => h = 0 \/ Claimed(h, m) \/ (m = l /\ h = hash)
    BY <1>3, <1>5, <1>6, EmptyTyped DEF Claimed, Claims
  <1>9. \A h \in 0..MaxContent : \A m \in Layers : Backed(h, m) => Backed(h, m)'
    BY <1>2 DEF Backed
  <1>10. \A h \in 0..MaxContent : \A m \in Layers : Claimed(h, m) => Backed(h, m)'
    BY <1>9 DEF PackInv, ClaimsBacked
  <1>11. /\ CallBacked(x)' /\ \A p \in Pack!Packs : ~Works(x, p)
         /\ \A h \in 0..MaxContent : AsNewAs(x, h)
    BY <1>6, RestIsBacked, PackNames
  <1> QED
    BY <1>2, <1>3, <1>4, <1>6, <1>7, <1>8, <1>9, <1>10, <1>11, CallStep

LEMMA EndStep ==
  ASSUME PackInv, NEW d \in Downloads, Pack!End(d)
  PROVE  PackInv'
  <1>1. /\ downloads[d].pc = "layers" /\ hashes' \in {downloads[d].kept, hashes}
        /\ downloads' = [downloads EXCEPT ![d] = Pack!Idle]
        /\ UNCHANGED <<catalog, coreHash, tiles, index, current>>
    BY DEF Pack!End, Pack!Becomes
  <1>2. /\ downloads[d] \in Calls /\ \A l \in Layers : ~Works(downloads[d], l)
        /\ downloads[d].layer = "core"
        /\ downloads \in [Downloads -> Calls] /\ DeviceTyped
    BY <1>1, TypedClaims, WorksOn, TypedCalls, PackNames DEF LayerWork, Works, PackInv
  <1>3. PICK x \in Calls : x = Pack!Idle /\ AtRest(x)
    BY IdleTyped DEF AtRest
  <1>4. DeviceTyped' /\ NothingFromTheFuture'
    BY <1>1, <1>2 DEF DeviceTyped, Calls, PackInv, NothingFromTheFuture
  <1>5. \A m \in Layers : \A h \in 0..MaxContent : Claimed(h, m)' => h = 0 \/ Claimed(h, m)
    BY <1>1, <1>2, <1>3, IdleTyped, EmptyTyped DEF Claimed, Claims
  <1>6. /\ CallBacked(x)' /\ \A p \in Pack!Packs : ~Works(x, p)
        /\ \A h \in 0..MaxContent : AsNewAs(x, h)
    BY <1>3, RestIsBacked, PackNames
  <1> QED
    BY <1>1, <1>2, <1>3, <1>4, <1>5, <1>6, CallStep

------------------------------------------------------------------------------
(* Steps of the server and of the device as a whole.                       *)

LEMMA ContentChangesStep ==
  ASSUME PackInv, NEW p \in Pack!Packs, Pack!ContentChanges(p)
  PROVE  PackInv'
  <1>1. /\ current' = [current EXCEPT ![p] = @ + 1] /\ current[p] < MaxContent
        /\ UNCHANGED <<downloads, catalog, coreHash, tiles, index, hashes>>
    BY DEF Pack!ContentChanges, Pack!Device
  <1>2. /\ current \in [Pack!Packs -> 1..MaxContent] /\ DeviceTyped
        /\ downloads \in [Downloads -> Calls]
    BY TypedCalls, PackNames DEF PackInv
  <1>3. /\ current' \in [Pack!Packs -> 1..MaxContent]
        /\ \A q \in Pack!Packs : current[q] <= current'[q]
    BY <1>1, <1>2, PackNames
  <1>4. Pack!TypeOK'
    BY <1>1, <1>2, <1>3, PackNames DEF Pack!TypeOK, Calls, DeviceTyped
  <1>5. OneCallPerPack' /\ CallsAreNewer'
    BY <1>1 DEF PackInv, OneCallPerPack, CallsAreNewer, Works, AsNewAs, Claimed, Claims
  <1>6. \A l \in Layers : \A h \in 0..MaxContent : Backed(h, l) => Backed(h, l)'
    BY <1>1, <1>2, <1>3, PackNames DEF Backed
  <1>7. ClaimsBacked'
    BY <1>1, <1>6 DEF PackInv, ClaimsBacked, Claimed, Claims
  <1>8. CallsBacked'
    <2> SUFFICES ASSUME NEW d \in Downloads
                 PROVE  CallBacked(downloads[d])'
      BY DEF CallsBacked
    <2>1. PICK x \in Calls : x = downloads[d] /\ x = downloads'[d] /\ CallBacked(x)
      BY <1>1, <1>2 DEF PackInv, CallsBacked
    <2>2. /\ x.layer \in Pack!Packs /\ x.pack.hash \in 0..MaxContent
          /\ x.pack.content \in 0..MaxContent
      BY DEF Calls
    <2>3. x.pc = "save" => x.layer \in Layers
      BY <2>1, <2>2, PackNames DEF CallBacked, LayerWork
    <2>4. CallBacked(x)'
      BY <1>1, <1>2, <1>3, <1>6, <2>1, <2>2, <2>3, PackNames DEF CallBacked
    <2> QED
      BY <2>1, <2>4
  <1>9. NothingFromTheFuture'
    BY <1>1, <1>2, <1>3, PackNames DEF PackInv, NothingFromTheFuture, DeviceTyped, Pack!Hashes
  <1> QED
    BY <1>4, <1>5, <1>7, <1>8, <1>9 DEF PackInv

LEMMA RestartStep ==
  ASSUME PackInv, Pack!Restart
  PROVE  PackInv'
  <1>1. PICK torn : tiles' = [l \in Layers |-> IF l \in torn THEN Pack!Torn ELSE tiles[l]]
    BY DEF Pack!Restart
  <1>2. /\ hashes' \in {hashes, Pack!NoHashes}
        /\ downloads' = [d \in Downloads |-> Pack!Idle]
        /\ UNCHANGED <<current, catalog, coreHash, index>>
    BY DEF Pack!Restart
  <1>3. /\ current \in [Pack!Packs -> 1..MaxContent] /\ DeviceTyped
    BY TypedCalls, PackNames DEF PackInv
  <1>4. /\ downloads' \in [Downloads -> Calls]
        /\ \A d \in Downloads : downloads'[d] = Pack!Idle /\ AtRest(downloads'[d])
    BY <1>2, IdleTyped DEF AtRest
  <1>5. Pack!TypeOK'
    BY <1>1, <1>2, <1>3, <1>4, EmptyTyped, PackNames DEF Pack!TypeOK, Calls, DeviceTyped
  <1>6. \A d \in Downloads : /\ CallBacked(downloads[d])'
                             /\ \A p \in Pack!Packs : ~Works(downloads'[d], p)
                             /\ \A h \in 0..MaxContent : AsNewAs(downloads'[d], h)
    <2> SUFFICES ASSUME NEW d \in Downloads
                 PROVE  /\ CallBacked(downloads[d])'
                        /\ \A p \in Pack!Packs : ~Works(downloads'[d], p)
                        /\ \A h \in 0..MaxContent : AsNewAs(downloads'[d], h)
      OBVIOUS
    <2>1. PICK x \in Calls : x = downloads'[d] /\ AtRest(x)
      BY <1>4
    <2>2. CallBacked(x)' /\ (\A p \in Pack!Packs : ~Works(x, p)) /\ \A h \in Nat : AsNewAs(x, h)
      BY <2>1, RestIsBacked
    <2> QED
      BY <2>1, <2>2, PackNames
  <1>7. OneCallPerPack' /\ CallsBacked' /\ CallsAreNewer'
    BY <1>6, PackNames DEF OneCallPerPack, CallsBacked, CallsAreNewer, Works, AsNewAs
  <1>8. ClaimsBacked'
    <2> SUFFICES ASSUME NEW l \in Layers, NEW h \in 0..MaxContent, Claimed(h, l)'
                 PROVE  Backed(h, l)'
      BY DEF ClaimsBacked, Claimed, Claims, Backed
    <2>1. h = 0 \/ Claimed(h, l)
      BY <1>2, <1>4, IdleTyped, EmptyTyped DEF Claimed, Claims
    <2>2. h = 0 => Backed(h, l)
      BY <1>3, PackNames DEF Backed, DeviceTyped, Pack!Hashes
    <2>3. Backed(h, l)
      BY <2>1, <2>2 DEF PackInv, ClaimsBacked
    <2> QED
      BY <1>1, <1>2, <2>3, PackNames DEF Backed
  <1>9. NothingFromTheFuture'
    BY <1>1, <1>2 DEF PackInv, NothingFromTheFuture
  <1> QED
    BY <1>5, <1>7, <1>8, <1>9 DEF PackInv

------------------------------------------------------------------------------
LEMMA PackStep == PackInv /\ [Pack!Next]_Pack!vars => PackInv'
  <1> SUFFICES ASSUME PackInv, [Pack!Next]_Pack!vars
               PROVE  PackInv'
    OBVIOUS
  <1>1. CASE UNCHANGED Pack!vars
    BY <1>1 DEF Pack!vars, PackInv, Pack!TypeOK, OneCallPerPack, ClaimsBacked, CallsBacked,
       CallsAreNewer, NothingFromTheFuture, Claimed, Claims, Backed, CallBacked, AsNewAs, Works
  <1>2. ASSUME NEW d \in Downloads, \/ Pack!StartFull(d) \/ Pack!StartMap(d)
                                    \/ Pack!ManifestReturns(d) \/ Pack!CoreArrives(d)
                                    \/ Pack!CoreFails(d) \/ Pack!SeedCore(d)
                                    \/ Pack!MarkDownloaded(d) \/ Pack!ClearHashes(d)
        PROVE  PackInv'
    BY <1>2, StartSteps, ManifestReturnsStep, CoreArrivesStep, SeedCoreStep, MarkDownloadedStep,
       ClearHashesStep
  <1>3. ASSUME NEW d \in Downloads, \/ Pack!TakeLayer(d) \/ Pack!LayerArrives(d)
                                    \/ Pack!LayerFails(d) \/ Pack!WriteTiles(d)
                                    \/ Pack!WipeRows(d) \/ Pack!InsertRows(d)
                                    \/ Pack!SaveHash(d) \/ Pack!End(d)
        PROVE  PackInv'
    BY <1>3, TakeLayerStep, LayerArrivesStep, LayerFailsStep, WriteTilesStep, RowsSteps,
       SaveHashStep, EndStep
  <1> QED
    BY <1>1, <1>2, <1>3, ContentChangesStep, RestartStep DEF Pack!Next

(* A step of the device is a step of its downloads, or none of theirs.     *)
LEMMA PackStutters == [DeviceNext]_<<direction, vars, packVars>> => [Pack!Next]_Pack!vars
  BY DEF DeviceNext, packVars, Pack!vars

(* What a download skips as unchanged is what the server has, wherever     *)
(* downloads before it were cut off or failed, and though others overlap   *)
(* (downloadEfficient, ensureLayerReferencePack of bundle_downloader.dart).*)
THEOREM SkippedStaysCurrent == DeviceSpec => []SkippedIsCurrent
  <1>1. PackInv => SkippedIsCurrent
    <2> SUFFICES ASSUME PackInv
                 PROVE  Pack!SkippedIsCurrent
      BY DEF PackInv, SkippedIsCurrent
    <2>1. /\ current \in [Pack!Packs -> 1..MaxContent] /\ DeviceTyped
      BY TypedCalls, PackNames DEF PackInv
    <2>2. coreHash = current["core"] => catalog = current["core"]
      BY <2>1, PackNames DEF PackInv, NothingFromTheFuture, DeviceTyped
    <2>3. ASSUME NEW l \in Layers, Pack!UpToDate(hashes, current, l)
          PROVE  tiles[l] \in {current[l], Pack!Torn} /\ index[l] = current[l]
      <3>1. Claimed(hashes[l], l) /\ hashes[l] \in 0..MaxContent
        BY <2>1 DEF Claimed, DeviceTyped, Pack!Hashes
      <3>2. Backed(current[l], l)
        BY <2>3, <3>1 DEF PackInv, ClaimsBacked, Pack!UpToDate
      <3>3. tiles[l] # 0 /\ index[l] # 0
        BY <2>3 DEF Pack!UpToDate, Pack!Present
      <3> QED
        BY <2>1, <3>2, <3>3, PackNames
           DEF PackInv, NothingFromTheFuture, Backed, DeviceTyped, Pack!Hashes
    <2> QED
      BY <2>2, <2>3, PackNames DEF Pack!SkippedIsCurrent
  <1>2. DeviceInit => Pack!Init
    BY DEF DeviceInit
  <1> QED
    BY <1>1, <1>2, PackInitial, PackStep, PackStutters, PTL DEF DeviceSpec

==============================================================================
