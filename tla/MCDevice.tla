------------------------------ MODULE MCDevice ------------------------------
(* What a device uploads and what it downloads, for TLC.  The two share no  *)
(* table, so a behaviour is of one of them.                                 *)
EXTENDS FeatureSync, TLC

CONSTANTS
  Directions,
  c1, c2, p1, p2, d1, d2,
  Layers, Downloads, Targets, Revised, MaxContent             \* PackDownload

ASSUME PackAssumption ==
  /\ "core" \notin Layers /\ Targets \subseteq Layers
  /\ MaxContent \in Nat \ {0}

VARIABLES direction, current, catalog, coreHash, tiles, index, hashes, downloads

packVars == <<current, catalog, coreHash, tiles, index, hashes, downloads>>

Pack == INSTANCE PackDownload

DeviceInit == direction \in Directions /\ Init /\ Pack!Init

DeviceNext ==
  /\ UNCHANGED direction
  /\ \/ direction = "upload" /\ Next /\ UNCHANGED packVars
     \/ direction = "download" /\ Pack!Next /\ UNCHANGED vars

DeviceSpec == DeviceInit /\ [][DeviceNext]_<<direction, vars, packVars>>

(* Flows run the same code, and so do downloads; they are told apart only   *)
(* by their names.                                                          *)
Symmetry == Permutations(Flows) \union Permutations(Downloads)

(* bundle_downloader.dart: what a download skips is what the server has.    *)
(* Its variables stay in their ranges.                                      *)
SkippedIsCurrent == Pack!TypeOK /\ Pack!SkippedIsCurrent
=============================================================================
