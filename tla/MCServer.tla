------------------------------ MODULE MCServer ------------------------------
(***************************************************************************)
(* Five parts of the server that share no state, side by side: the         *)
(* reconciliation of the catalog when it starts, the gate of its handlers, *)
(* the two backends they look sandboxes up in, a sandbox's guests under    *)
(* that gate, and one command in a guest, which runs outside it.  The part *)
(* that moves is chosen at first, the others rest in their initial states, *)
(* where no fair action of theirs is enabled.                              *)
(***************************************************************************)
EXTENDS Gate, BackendRouter, IncusCatalog, IncusGuests, GuestExec, TLC

CONSTANTS g1, g2, g3, k1, k2, l1, l2, l3,
          router, windows, fedora, d1, d2, d3, f1, f2,
          guest1, restored, again, snap1, image1, c1, b1, b2

VARIABLE part

GateCallers == {g1, g2, g3}
GateKeys == {k1, k2}
\* One lock for each call in progress, so a fresh one always exists.
GateLocks == {l1, l2, l3}

E(n, k, d) == [name |-> n, kind |-> k, digest |-> d]
\* 1; then 2 with another image of 1's name, a broken one; 3 with the image of
\* 1 under another digest.  windows is an alias of the image builds.
ServerCatalogs ==
    <<<<E(router, "digest", d1), E(windows, "alias", d1)>>,
      <<E(windows, "alias", d1), E(router, "digest", d2)>>,
      <<E(fedora, "upstream", d3), E(router, "digest", d3)>>>>
ServerContent == (d1 :> f1) @@ (d2 :> f2) @@ (d3 :> f1)

ServerInit ==
    /\ part \in {"gate", "router", "catalog", "guests", "exec"}
    /\ Init /\ RouterStart /\ CatalogInit /\ GuestInit /\ ExecInit
    /\ part # "exec" => via = "incus" /\ use = "exec"

Resting ==
    \/ \* The catalog is served until the process ends.
       part = "catalog" /\ phase = "serving"
    \/ part = "exec" /\ caller \in {"returned", "closed"}

Rests(p, v) == part # p => UNCHANGED v

ServerNext ==
    /\ \/ part = "gate" /\ Next
       \/ part = "router" /\ RouterStep
       \/ part = "catalog" /\ CatalogNext
       \/ part = "guests" /\ GuestNext
       \/ part = "exec" /\ ExecNext
       \/ Resting /\ UNCHANGED <<vars, routerVars, catalogVars, guestVars, execVars>>
    /\ Rests("gate", vars) /\ Rests("router", routerVars) /\ Rests("catalog", catalogVars)
    /\ Rests("guests", guestVars) /\ Rests("exec", execVars)
    /\ UNCHANGED part

ServerSpec ==
    /\ ServerInit
    /\ [][ServerNext]_<<part, vars, routerVars, catalogVars, guestVars, execVars>>
    /\ Fairness /\ GuestFairness /\ ExecFairness
=============================================================================
