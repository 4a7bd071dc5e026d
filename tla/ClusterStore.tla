---------------------------- MODULE ClusterStore ----------------------------
(***************************************************************************)
(* What the file allocation table promises: a pool of clusters that moves  *)
(* one at a time between the free clusters and a single owner.  Nothing is *)
(* shared, nothing is lost, and a cluster changes owner only by way of the *)
(* pool.                                                                   *)
(***************************************************************************)
CONSTANTS Clusters, Owners

VARIABLES
  free,    \* the clusters no one owns
  owned    \* each owner's clusters

Init ==
  /\ free \in SUBSET Clusters
  /\ owned = [o \in Owners |-> {}]

Take(o, c) ==
  /\ c \in free
  /\ free' = free \ {c}
  /\ owned' = [owned EXCEPT ![o] = @ \cup {c}]

Give(o, c) ==
  /\ c \notin free
  /\ free' = free \cup {c}
  /\ c \in owned[o]
  /\ owned' = [owned EXCEPT ![o] = @ \ {c}]

Next == \E c \in Clusters, o \in Owners : Take(o, c) \/ Give(o, c)

Spec == Init /\ [][Next]_<<free, owned>>
=============================================================================
