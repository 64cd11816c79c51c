----------------------------- MODULE MCDevProxy -----------------------------
(***************************************************************************)
(* The dev proxy: its reload loop with the router and the children, beside *)
(* it the frontend, whose lists and gate the loop only drives by           *)
(* Reconcile, and the watcher, of which the loop only hears that something *)
(* changed.  The part that moves is chosen at first.                       *)
(***************************************************************************)
EXTENDS MCReloadLoop, Frontend, Watcher

CONSTANTS s1, r1, r2, none, top, package, left, right

VARIABLE part

\* The child serves one tool, or the first one changed and both.
OneOrBoth ==
    {(t1 :> d1 @@ t2 :> none), (t1 :> none @@ t2 :> d1), (t1 :> d2 @@ t2 :> d1)}

\* A folder with two folders in it.
ThreeBelow == package :> top @@ left :> package @@ right :> package

ProxyInit ==
    /\ part \in {"loop", "frontend", "watcher"}
    /\ Init /\ FrontendInit /\ WatchInit
    /\ part # "watcher" => present = {top}

ProxyNext ==
    /\ \/ part = "loop" /\ Next /\ UNCHANGED <<frontendVars, watchVars>>
       \/ part = "frontend" /\ FrontendNext /\ UNCHANGED <<vars, watchVars>>
       \/ part = "watcher" /\ WatchNext /\ UNCHANGED <<vars, frontendVars>>
    /\ UNCHANGED part

ProxySpec == ProxyInit /\ [][ProxyNext]_<<part, vars, frontendVars, watchVars>>

Indistinct == Symmetry \cup Permutations(Requests)
=============================================================================
