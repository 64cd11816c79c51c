-------------------------- MODULE MCIncusNetworks --------------------------
(***************************************************************************)
(* The sandboxes of one Incus cluster: two bridge sandboxes that may draw  *)
(* the same names, one OVN sandbox with all its calls, two OVN sandboxes   *)
(* that forward ports from one range.  These share nothing, so they run    *)
(* side by side: the part that moves is chosen at first.                   *)
(***************************************************************************)
EXTENDS IncusNetworks, OVNFabric, TLC

VARIABLE part

clusterVars == <<part, bridgeVars, ovnVars>>

Involved == {p \in Projects : p \in project \/ call[p] # Resting}

ClusterInit ==
    /\ part \in {"bridges", "network", "range"}
    /\ BridgesInit /\ FabricInit

\* Bounds of "range": networks and ports alone, two of them in a sandbox.
RangeOnly ==
    \A p \in Projects : /\ Cardinality(asked[p]) <= 2
                       /\ \A t \in asked[p] : Kind(t) \in {"network", "port"}

ClusterNext ==
    /\ \/ part = "bridges" /\ BridgesNext /\ UNCHANGED ovnVars
       \/ part = "network" /\ FabricNext /\ Cardinality(Involved') <= 1 /\ UNCHANGED bridgeVars
       \/ part = "range" /\ FabricNext /\ RangeOnly' /\ UNCHANGED bridgeVars
    /\ UNCHANGED part

ClusterSpec == ClusterInit /\ [][ClusterNext]_clusterVars

Symmetry == Permutations(Boxes) \cup Permutations(Physical)
            \cup Permutations(Projects) \cup Permutations(Ports) \cup Permutations(Targets)
            \cup Permutations(RuleIDs)
=============================================================================
