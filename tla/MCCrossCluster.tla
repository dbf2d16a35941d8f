--------------------------- MODULE MCCrossCluster ---------------------------
(* Small instances of CrossCluster: every grain may live in all clusters   *)
(* but one.                                                                *)
EXTENDS CrossCluster, TLC

CONSTANTS
    Hub,     \* the cluster every other one watches, which watches none
    Banned   \* the cluster no grain is allowed in

HubPeers == [c \in Clusters |-> IF c = Hub THEN {} ELSE {Hub}]

AllPeers == [c \in Clusters |-> Clusters \ {c}]

MCAllowed == [g \in Grains |-> Clusters \ {Banned}]

Symmetry == Permutations(Calls)
=============================================================================
