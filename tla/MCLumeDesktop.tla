--------------------------- MODULE MCLumeDesktop ---------------------------
(***************************************************************************)
(* The Mac host, and beside it, sharing nothing with it, the desktop's     *)
(* screenshots and sessions: two calls on one sandbox name, which may be   *)
(* created again.  The part that moves is chosen at first.                 *)
(***************************************************************************)
EXTENDS MCLumeHost, Desktop, TLC

VARIABLE part

PairInit == part \in {"lume", "desktop"} /\ Init /\ DesktopInit

PairNext ==
    /\ \/ part = "lume" /\ Next /\ UNCHANGED desktopVars
       \/ part = "desktop" /\ DesktopNext /\ UNCHANGED vars
    /\ UNCHANGED part

PairSpec == PairInit /\ [][PairNext]_<<part, vars, desktopVars>>

Symmetry == Permutations(Calls) \cup Permutations(Sessions)
=============================================================================
