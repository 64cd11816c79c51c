--------------------------- MODULE IncusNetworks ---------------------------
(***************************************************************************)
(* internal/incus: the bridge sandboxes of one Incus cluster.  Each is a   *)
(* project, but its bridges, with random names, are in the default project *)
(* that all sandboxes share: its project reserves a name before the bridge *)
(* exists, a bridge is defined on each member and then configured, and     *)
(* only the configuration says whose it is.  OVNFabric has the other kind  *)
(* of sandbox.                                                             *)
(*                                                                         *)
(* Operations of one sandbox hold its gate; those of two interleave.  An   *)
(* operation is a walk through places, one call to Incus each.  A call     *)
(* that fails, before or after its effect, and a crash of the server end   *)
(* it between two places.                                                  *)
(***************************************************************************)
EXTENDS Integers, FiniteSets

CONSTANTS
    Boxes,
    Nets,           \* logical names
    DefaultNet,     \* defaultLogicalNetwork
    Physical,       \* random bridge names
    Members,        \* how many members the cluster has
    NoBox, NoNet, NoName,
    MaxFailures     \* bound: failures and crashes

ASSUME DefaultExists == DefaultNet \in Nets
ASSUME ClusterSize == Members \in Nat \ {0}
ASSUME FailureBound == MaxFailures \in Nat
ASSUME Sentinels ==
    NoBox \notin Boxes /\ NoNet \notin Nets /\ NoName \notin Physical

VARIABLES
    boxes,          \* the sandboxes that have a project
    condemned,      \* expired sandboxes: the service only deletes them
    reserved,       \* the project's user.agentcompute.network.* keys
    bridge,         \* the default project's bridges
    nics,           \* the bridges each sandbox's instances have NICs on
    op,             \* the operation in progress for each sandbox
    contested,      \* history: names that two projects reserved at once
    failures

ofProject == <<boxes, condemned, reserved>>
bridgeVars == <<ofProject, bridge, nics, op, contested, failures>>

Places == {"idle", "project", "existing", "claim", "reserve", "define", "configure", "attach",
           "unbridge", "verify", "contents", "bridges", "unproject"}

\* name, resume, member: createReservedBridge's.  todo: the bridges to delete.
Idle == [at |-> "idle", net |-> NoNet, name |-> NoName, resume |-> FALSE, member |-> 1,
         todo |-> {}, failed |-> FALSE]
Absent == [members |-> {}, owner |-> NoBox, net |-> NoNet]

BridgesTypeOK ==
    /\ boxes \subseteq Boxes
    /\ condemned \subseteq Boxes
    /\ reserved \in [Boxes -> [Nets -> Physical \cup {NoName}]]
    /\ bridge \in [Physical -> [members : SUBSET (1..Members), owner : Boxes \cup {NoBox},
                                net : Nets \cup {NoNet}]]
    /\ nics \in [Boxes -> SUBSET Physical]
    /\ op \in [Boxes -> [at : Places, net : Nets \cup {NoNet}, name : Physical \cup {NoName},
                         resume : BOOLEAN, member : 1..Members,
                         todo : SUBSET Physical, failed : BOOLEAN]]
    /\ contested \subseteq Physical
    /\ failures \in 0..MaxFailures

BridgesInit ==
    /\ boxes = {}
    /\ condemned = {}
    /\ reserved = [b \in Boxes |-> [n \in Nets |-> NoName]]
    /\ bridge = [p \in Physical |-> Absent]
    /\ nics = [b \in Boxes |-> {}]
    /\ op = [b \in Boxes |-> Idle]
    /\ contested = {}
    /\ failures = 0

-----------------------------------------------------------------------------
At(b, place) == op[b].at = place
Goto(b, place) == op' = [op EXCEPT ![b].at = place]
Leave(b) == op' = [op EXCEPT ![b] = Idle]

Exists(p) == bridge[p] # Absent
Pending(p) == Exists(p) /\ bridge[p].owner = NoBox
Owns(b, p) == bridge[p].owner = b
Unused == {p \in Physical : ~Exists(p)}
NamesOf(r) == {r[n] : n \in Nets} \ {NoName}
Claimants(p) == {b \in Boxes : p \in NamesOf(reserved[b])}

\* The service lets it through: no operation in progress, and not expired.
Live(b) == At(b, "idle") /\ b \in boxes \ condemned

\* The projects' reservations become r.
Reservations(r) ==
    /\ reserved' = r
    /\ contested' = contested \cup
         {p \in Physical : \E b, c \in Boxes : b # c /\ p \in NamesOf(r[b]) \cap NamesOf(r[c])}

-----------------------------------------------------------------------------
(* CreateSandbox and CreateNetwork.                                          *)

CreateSandbox(b) ==
    /\ At(b, "idle") /\ b \notin boxes
    /\ \E p \in Unused :
         op' = [op EXCEPT ![b] = [Idle EXCEPT !.at = "project", !.net = DefaultNet, !.name = p]]
    /\ UNCHANGED <<ofProject, bridge, nics, contested, failures>>

\* A conflict cannot be met: the service has just found no such sandbox.
CreateProject(b) ==
    /\ At(b, "project")
    /\ boxes' = boxes \cup {b}
    /\ Reservations([reserved EXCEPT ![b][DefaultNet] = op[b].name])
    /\ Goto(b, "define")
    /\ UNCHANGED <<condemned, bridge, nics, failures>>

CreateNetwork(b, n) ==
    /\ Live(b) /\ n # DefaultNet
    /\ \/ /\ reserved[b][n] # NoName
          /\ op' = [op EXCEPT ![b] = [Idle EXCEPT !.at = "existing", !.net = n, !.resume = TRUE,
                                                  !.name = reserved[b][n]]]
       \/ /\ reserved[b][n] = NoName
          /\ \E p \in Unused :
               op' = [op EXCEPT ![b] = [Idle EXCEPT !.at = "reserve", !.net = n, !.name = p]]
    /\ UNCHANGED <<ofProject, bridge, nics, contested, failures>>

\* errBridgeCollision: another name, or the tries are used up.
Collide(b) ==
    \/ \E p \in Unused :
         op' = [op EXCEPT ![b].at = "reserve", ![b].name = p, ![b].resume = FALSE, ![b].member = 1]
    \/ Leave(b)

\* existingBridge.
Existing(b) ==
    LET p == op[b].name IN
    /\ At(b, "existing")
    /\ \/ ~Exists(p) /\ Goto(b, "define")
       \/ Owns(b, p) /\ bridge[p].net = op[b].net /\ Leave(b)
       \/ bridge[p].owner # NoBox /\ ~(Owns(b, p) /\ bridge[p].net = op[b].net) /\ Collide(b)
       \/ Pending(p) /\ Goto(b, "claim")
    /\ UNCHANGED <<ofProject, bridge, nics, contested, failures>>

\* checkBridgeOwnership, with pendingBridgeOwner.
Mine(b, p) == ~Exists(p) \/ Owns(b, p) \/ (Pending(p) /\ Claimants(p) = {b})

Claim(b) ==
    /\ At(b, "claim")
    /\ IF Mine(b, op[b].name) THEN Goto(b, "define") ELSE Collide(b)
    /\ UNCHANGED <<ofProject, bridge, nics, contested, failures>>

\* reserveNetwork replaces the key's previous name.
Reserve(b) ==
    /\ At(b, "reserve")
    /\ Reservations([reserved EXCEPT ![b][op[b].net] = op[b].name])
    /\ Goto(b, "define")
    /\ UNCHANGED <<boxes, condemned, bridge, nics, failures>>

NextMember(b) ==
    IF op[b].member = Members THEN Goto(b, "configure")
    ELSE op' = [op EXCEPT ![b].member = @ + 1]

\* ensureBridge: one member's turn.
Define(b) ==
    LET p == op[b].name
        m == op[b].member
        conflict == ~(bridge[p].owner = NoBox /\ m \notin bridge[p].members)
    IN
    /\ At(b, "define")
    /\ IF conflict
       THEN /\ UNCHANGED bridge
            /\ \/ op[b].resume /\ NextMember(b)
               \/ ~op[b].resume /\ m = 1 /\ Collide(b)
               \/ ~op[b].resume /\ m > 1 /\ Leave(b)
       ELSE /\ bridge' = [bridge EXCEPT ![p].members = @ \cup {m}]
            /\ NextMember(b)
    /\ UNCHANGED <<ofProject, nics, contested, failures>>

\* The last call of ensureBridge, which needs the bridge pending on every member.
Configure(b) ==
    LET p == op[b].name IN
    /\ At(b, "configure")
    /\ IF Pending(p) /\ bridge[p].members = 1..Members
       THEN bridge' = [bridge EXCEPT ![p].owner = b, ![p].net = op[b].net]
       ELSE UNCHANGED bridge
    /\ Leave(b)
    /\ UNCHANGED <<ofProject, nics, contested, failures>>

-----------------------------------------------------------------------------
(* NICs.  AttachNIC and CreateInstance resolve the bridge, and write the NIC  *)
(* under the bridge's name in a later call: what has the name may have        *)
(* changed hands.  Incus also compares it with restricted.networks.access,    *)
(* which would only refuse more: nothing here relies on that.  The NIC of a   *)
(* creation is there once Incus has accepted it, as in IncusGuests.           *)

\* Fault: the owner a network's metadata names is not compared.
ResolvedByName(b, n) == {p \in Physical : bridge[p].owner # NoBox /\ bridge[p].net = n}

\* resolvePhysical: by the owner a network's own metadata names.
Resolved(b, n) == {p \in Physical : Owns(b, p) /\ bridge[p].net = n}

Attach(b, n) ==
    /\ Live(b)
    /\ \E x \in Resolved(b, n) :
         op' = [op EXCEPT ![b] = [Idle EXCEPT !.at = "attach", !.name = x]]
    /\ UNCHANGED <<ofProject, bridge, nics, contested, failures>>

\* Incus refuses a name that is no bridge's, or a half-created one's.
AddNIC(b) ==
    LET x == op[b].name IN
    /\ At(b, "attach")
    /\ nics' = IF bridge[x].owner # NoBox THEN [nics EXCEPT ![b] = @ \cup {x}] ELSE nics
    /\ Leave(b)
    /\ UNCHANGED <<ofProject, bridge, contested, failures>>

\* DetachNIC and DeleteInstance.
Detach(b, x) ==
    /\ At(b, "idle") /\ x \in nics[b]
    /\ nics' = [nics EXCEPT ![b] = @ \ {x}]
    /\ UNCHANGED <<ofProject, bridge, op, contested, failures>>

-----------------------------------------------------------------------------
(* DeleteNetwork, which the service refuses while a NIC is on the network.   *)

InUse(x) == \E b \in Boxes : x \in nics[b]

DeleteNetwork(b, n) ==
    /\ Live(b) /\ n # DefaultNet /\ Resolved(b, n) \cap nics[b] = {}
    /\ \E p \in Resolved(b, n) :
         op' = [op EXCEPT ![b] = [Idle EXCEPT !.at = "unbridge", !.name = p]]
    /\ UNCHANGED <<ofProject, bridge, nics, contested, failures>>

DeleteBridge(b) ==
    /\ At(b, "unbridge")
    /\ bridge' = IF InUse(op[b].name) THEN bridge ELSE [bridge EXCEPT ![op[b].name] = Absent]
    /\ Leave(b)
    /\ UNCHANGED <<ofProject, nics, contested, failures>>

-----------------------------------------------------------------------------
(* DeleteSandbox, in dependency order.                                       *)

\* Fault: only what is configured is found.
BridgeNamesOwned(b) == {p \in Physical : Owns(b, p)}

\* sandboxBridgeNames.
BridgeNames(b) == NamesOf(reserved[b]) \cup {p \in Physical : Owns(b, p)}

\* By its owner, the reaper, or the reaper again: it is expired before.
DeleteSandbox(b) ==
    /\ At(b, "idle") /\ b \in boxes
    /\ condemned' = condemned \cup {b}
    /\ op' = [op EXCEPT ![b] = [Idle EXCEPT !.at = "verify", !.todo = BridgeNames(b)]]
    /\ UNCHANGED <<boxes, reserved, bridge, nics, contested, failures>>

\* checkBridgeOwnership of every name.
Verify(b) ==
    /\ At(b, "verify")
    /\ IF \A p \in op[b].todo : Mine(b, p) THEN Goto(b, "contents") ELSE Leave(b)
    /\ UNCHANGED <<ofProject, bridge, nics, contested, failures>>

\* emptySandboxProject: NICs, instances, profiles.
Empty(b) ==
    /\ At(b, "contents")
    /\ \/ nics' = [nics EXCEPT ![b] = {}] /\ Goto(b, "bridges") /\ UNCHANGED failures
       \/ /\ failures < MaxFailures /\ failures' = failures + 1
          /\ \E kept \in SUBSET nics[b] : nics' = [nics EXCEPT ![b] = kept]
          /\ Leave(b)
    /\ UNCHANGED <<ofProject, bridge, contested>>

\* The bridges, whose ownership was checked before.
DropBridge(b, p) ==
    /\ At(b, "bridges") /\ p \in op[b].todo
    /\ \/ /\ ~InUse(p)
          /\ bridge' = [bridge EXCEPT ![p] = Absent]
          /\ op' = [op EXCEPT ![b].todo = @ \ {p}]
          /\ UNCHANGED failures
       \/ /\ InUse(p) /\ UNCHANGED <<bridge, failures>>
          /\ op' = [op EXCEPT ![b].todo = @ \ {p}, ![b].failed = TRUE]
       \/ /\ failures < MaxFailures /\ failures' = failures + 1
          /\ op' = [op EXCEPT ![b].todo = @ \ {p}, ![b].failed = TRUE]
          /\ UNCHANGED bridge
    /\ UNCHANGED <<ofProject, nics, contested>>

\* Fault: the errors of the loop are dropped.
EndNetworksAnyway(b) ==
    /\ At(b, "bridges") /\ op[b].todo = {}
    /\ Goto(b, "unproject")
    /\ UNCHANGED <<ofProject, bridge, nics, contested, failures>>

EndNetworks(b) ==
    /\ At(b, "bridges") /\ op[b].todo = {}
    /\ IF op[b].failed THEN Leave(b) ELSE Goto(b, "unproject")
    /\ UNCHANGED <<ofProject, bridge, nics, contested, failures>>

\* deleteSandboxProject; Incus refuses while anything is in it.
DeleteProject(b) ==
    /\ At(b, "unproject")
    /\ IF nics[b] = {}
       THEN /\ boxes' = boxes \ {b}
            /\ condemned' = condemned \ {b}
            /\ Reservations([reserved EXCEPT ![b] = [n \in Nets |-> NoName]])
       ELSE UNCHANGED <<ofProject, contested>>
    /\ Leave(b)
    /\ UNCHANGED <<bridge, nics, failures>>

-----------------------------------------------------------------------------
\* A call fails, or its answer is lost and the next is never made.
Fail(b) ==
    /\ op[b].at # "idle"
    /\ failures < MaxFailures /\ failures' = failures + 1
    /\ Leave(b)
    /\ UNCHANGED <<ofProject, bridge, nics, contested>>

\* Every sandbox loses its operation.
Crash ==
    /\ failures < MaxFailures /\ failures' = failures + 1
    /\ op' = [b \in Boxes |-> Idle]
    /\ UNCHANGED <<ofProject, bridge, nics, contested>>

Step(b) ==
    \/ CreateSandbox(b) \/ CreateProject(b)
    \/ \E n \in Nets : CreateNetwork(b, n) \/ Attach(b, n) \/ DeleteNetwork(b, n)
    \/ \E p \in Physical : Detach(b, p) \/ DropBridge(b, p)
    \/ AddNIC(b) \/ Existing(b) \/ Claim(b) \/ Reserve(b) \/ Define(b) \/ Configure(b) \/ DeleteBridge(b)
    \/ DeleteSandbox(b) \/ Verify(b) \/ Empty(b) \/ EndNetworks(b) \/ DeleteProject(b)
    \/ Fail(b)

BridgesNext == (\E b \in Boxes : Step(b)) \/ Crash

BridgesSpec == BridgesInit /\ [][BridgesNext]_bridgeVars

-----------------------------------------------------------------------------
\* DeleteSandbox promises that "the project is never deleted while owned networks
\* still exist", and access to a bridge is granted by name: whatever fails, a
\* configured bridge belongs to a sandbox that exists, and is the one the project
\* reserves under its logical name.
OwnedIsReserved ==
    \A p \in Physical : bridge[p].owner # NoBox =>
        /\ bridge[p].owner \in boxes
        /\ reserved[bridge[p].owner][bridge[p].net] = p

\* A half-created bridge says nothing of its owner; it is deleted with the
\* sandbox because a project names it, unless two sandboxes drew its name.
PendingClaimed ==
    \A p \in Physical : Pending(p) /\ p \notin contested => Claimants(p) # {}

\* Sandboxes are isolated: an instance is attached to networks of its own sandbox
\* only, though its bridge is resolved in one call and written by name in another,
\* between which bridges are deleted and created.  Names that two projects reserved
\* at once are excepted: the bridge may then be deleted and created by the other.
OnOwnNetwork == \A b \in Boxes : \A p \in nics[b] \ contested : Owns(b, p)
=============================================================================
