----------------------------- MODULE MCLumeHost -----------------------------
(* Two sandboxes with one instance each.  Guest names are the parts they are *)
(* made of, so that different instances never share one.                     *)
EXTENDS LumeHost, Sequences

CONSTANTS s1, s2, i1, n1, spare

PlainName == [p \in Sandboxes \X Instances |-> p]
SnapshotName == [p \in Sandboxes \X Instances \X Snapshots |-> p]
RestoreName == [p \in Sandboxes \X Instances \X Snapshots |-> p \o <<"r">>]
AllNames ==
    {PlainName[p] : p \in DOMAIN PlainName} \cup {SnapshotName[p] : p \in DOMAIN SnapshotName}
    \cup {RestoreName[p] : p \in DOMAIN RestoreName} \cup {spare}
Spares == [v \in AllNames |-> IF v = RestoreName[s1, i1, n1] THEN {spare} ELSE {}]

ASSUME NamesTell == DistinctNames

\* One sandbox is asked for everything, the other competes for the host.
Everything == [s \in Sandboxes |-> IF s = s1 THEN Kinds ELSE {"create"}]

\* A sandbox whose deletion has begun is expired and refuses the rest, so the
\* question about restores is asked of sandboxes that are not deleted.
NoDestroy == [s \in Sandboxes |-> Kinds \ {"destroy"}]
=============================================================================
