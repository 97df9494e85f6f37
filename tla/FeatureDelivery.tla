--------------------------- MODULE FeatureDelivery ---------------------------
(***************************************************************************)
(* What the upload path of the field collector promises, with nothing of   *)
(* how: a captured feature is stored by the server at most once under its  *)
(* client_id, what is stored first stays, and the device counts a feature  *)
(* as synced only after the server has stored it.  FeatureSync implements  *)
(* this specification.                                                     *)
(***************************************************************************)
CONSTANTS Cids,     \* client ids generated by the device
          Contents, \* what a feature may contain
          NoRow     \* the server has no row for the client id

VARIABLES delivered,    \* delivered[c]: the content stored for client id c
          acknowledged  \* the client ids the device counts as synced

vars == <<delivered, acknowledged>>

Init ==
  /\ delivered = [c \in Cids |-> NoRow]
  /\ acknowledged = {}

(* The server stores a content under a client id it has never seen. *)
Deliver(c) ==
  /\ delivered[c] = NoRow
  /\ \E x \in Contents : delivered' = [delivered EXCEPT ![c] = x]
  /\ UNCHANGED acknowledged

(* The device learns that the server holds the feature. *)
Acknowledge(c) ==
  /\ delivered[c] # NoRow
  /\ acknowledged' = acknowledged \union {c}
  /\ UNCHANGED delivered

(* The device puts the feature back among those to be sent, or drops it. *)
Reopen(c) ==
  /\ acknowledged' = acknowledged \ {c}
  /\ UNCHANGED delivered

Next == \E c \in Cids : Deliver(c) \/ Acknowledge(c) \/ Reopen(c)

Spec == Init /\ [][Next]_vars

==============================================================================
