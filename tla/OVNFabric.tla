----------------------------- MODULE OVNFabric -----------------------------
(***************************************************************************)
(* internal/incus, ovn*.go, with its handlers in internal/compute: the     *)
(* OVN sandboxes of one cluster.  Each is a project with its own networks, *)
(* and on them ACL rules, peerings and forwarded ports; the range of       *)
(* listen addresses is common to all.                                      *)
(*                                                                         *)
(* What a project has is a set of things, tuples of a kind, the network    *)
(* they belong to, and the rest.  A call asks for a thing and ends with an *)
(* answer; it holds the sandbox's gate and makes one request to Incus in   *)
(* each place.  A request that fails, an answer that is lost and a crash   *)
(* of the server end it in between.                                        *)
(***************************************************************************)
EXTENDS Integers, FiniteSets

CONSTANTS
    Projects,
    Networks,       \* logical names
    Main,           \* defaultLogicalNetwork
    Baseline,       \* the ACL every network of a sandbox shares
    RuleIDs,        \* random, so a new one is never in use
    Ports,          \* listen ports
    Targets,        \* a port of an instance
    Addresses,      \* the OVN range, as numbers
    NoThing,
    MaxAsked,       \* bound: what a sandbox's calls ask for and is not taken back
    MaxFaults       \* bound: failures and crashes

ASSUME MainExists == Main \in Networks
ASSUME ListenRange == Addresses \subseteq Nat \ {0}
ASSUME BaselineApart == Baseline \notin Networks
ASSUME FabricBounds == MaxAsked \in Nat /\ MaxFaults \in Nat

VARIABLES
    project,        \* those that exist
    expired,        \* those the service only deletes
    has,            \* the things in each project
    acls,           \* the networks that have an ACL, and Baseline
    forwards,       \* <<network, listen address>>, in each project
    attached,       \* the networks each sandbox's instances have NICs on
    call,           \* the call in progress in each sandbox
    promised,       \* history: what was answered for, and not taken back since
    asked,          \* history: what was asked for since it was last surely absent
    faults

things == <<has, acls, forwards, attached>>
history == <<promised, asked>>
ovnVars == <<project, expired, things, call, history, faults>>

\* A network with nat=false is isolated.
Settings == {"nat", "isolated"}
Things ==
    {<<"network", n, s>> : n \in Networks, s \in Settings}
    \cup {<<"rule", n, id, action, dst>> : n \in Networks, id \in RuleIDs,
            action \in {"allow", "drop"}, dst \in {"outside", "protected"}}
    \cup {<<"peer", n, m>> : n, m \in Networks}
    \cup {<<"port", n, x, t>> : n \in Networks, x \in Ports, t \in Targets}

Stages == {"idle", "project", "existing", "baseline", "agent", "network", "rule", "unrule",
           "left", "right", "forwards", "port", "address", "forward", "race", "answer",
           "unforward", "unpeer", "drop", "unacl", "gone",
           "forwarding", "contents", "networks", "remaining", "unproject"}

Resting == [at |-> "idle", thing |-> NoThing, address |-> 0]

FabricTypeOK ==
    /\ project \subseteq Projects
    /\ expired \subseteq Projects
    /\ has \in [Projects -> SUBSET Things]
    /\ acls \in [Projects -> SUBSET (Networks \cup {Baseline})]
    /\ forwards \in [Projects -> SUBSET (Networks \X Addresses)]
    /\ attached \in [Projects -> SUBSET Networks]
    /\ call \in [Projects -> [at : Stages, thing : Things \cup {NoThing},
                              address : Addresses \cup {0}]]
    /\ promised \in [Projects -> SUBSET Things]
    /\ asked \in [Projects -> SUBSET Things]
    /\ faults \in 0..MaxFaults

FabricInit ==
    /\ project = {}
    /\ expired = {}
    /\ has = [p \in Projects |-> {}]
    /\ acls = [p \in Projects |-> {}]
    /\ forwards = [p \in Projects |-> {}]
    /\ attached = [p \in Projects |-> {}]
    /\ call = [p \in Projects |-> Resting]
    /\ promised = [p \in Projects |-> {}]
    /\ asked = [p \in Projects |-> {}]
    /\ faults = 0

-----------------------------------------------------------------------------
Kind(t) == t[1]
NetworkOf(t) == t[2]
\* What belongs to network n.
On(n) == {t \in Things : NetworkOf(t) = n}
\* What no longer can be relied on when n goes.
Involving(n) == On(n) \cup {<<"peer", m, n>> : m \in Networks}
\* A peering takes an entry on either network.
Parts(t) == IF Kind(t) = "peer" THEN {t, <<"peer", t[3], t[2]>>} ELSE {t}

NetworksIn(p) == {n \in Networks : \E s \in Settings : <<"network", n, s>> \in has[p]}
RulesIn(p) == {t \in has[p] : Kind(t) = "rule"}
PortsOn(p, n) == {t \in has[p] : Kind(t) = "port" /\ NetworkOf(t) = n}
PeersOn(p, n) == {t \in has[p] : Kind(t) = "peer" /\ NetworkOf(t) = n}
ForwardsOn(p, n) == {f \in forwards[p] : f[1] = n}
AllForwards == UNION {forwards[p] : p \in Projects}
UsedAddresses == {f[2] : f \in AllForwards}

In(p, place) == call[p].at = place
Subject(p) == NetworkOf(call[p].thing)
Turn(p, place) == call' = [call EXCEPT ![p].at = place]
Return(p) == call' = [call EXCEPT ![p] = Resting]
Faulty == faults < MaxFaults /\ faults' = faults + 1

\* The service lets the call through, which then asks for thing t.
Serves(p) == In(p, "idle") /\ p \in project \ expired
Ask(p, t, place) ==
    /\ Cardinality(asked[p] \cup Parts(t)) <= MaxAsked
    /\ call' = [call EXCEPT ![p] = [Resting EXCEPT !.at = place, !.thing = t]]
    /\ asked' = [asked EXCEPT ![p] = @ \cup Parts(t)]
    /\ UNCHANGED <<project, expired, things, promised, faults>>

\* The thing is there for good.
Answer(p) ==
    /\ In(p, "answer")
    /\ promised' = [promised EXCEPT ![p] = @ \cup Parts(call[p].thing)]
    /\ Return(p)
    /\ UNCHANGED <<project, expired, things, asked, faults>>

-----------------------------------------------------------------------------
(* CreateSandbox, CreateNetwork.                                             *)

CreateOVNSandbox(p) ==
    /\ In(p, "idle") /\ p \notin project
    /\ Ask(p, <<"network", Main, "nat">>, "project")

\* A conflict cannot be met: the service has just found no such sandbox.
CreateOVNProject(p) ==
    /\ In(p, "project")
    /\ project' = project \cup {p}
    /\ Turn(p, "existing")
    /\ UNCHANGED <<expired, things, history, faults>>

CreateOVNNetwork(p, n, s) ==
    /\ Serves(p) /\ n # Main
    /\ Ask(p, <<"network", n, s>>, "existing")

\* A network that exists is accepted if it has the same settings.
MatchingOVNNetwork(p) ==
    /\ In(p, "existing")
    /\ \/ Subject(p) \notin NetworksIn(p) /\ Turn(p, "baseline")
       \/ call[p].thing \in has[p] /\ Turn(p, "answer")
       \/ Subject(p) \in NetworksIn(p) /\ call[p].thing \notin has[p] /\ Return(p)
    /\ UNCHANGED <<project, expired, things, history, faults>>

\* An ACL that exists is left as it is.
EnsureBaselineACL(p) ==
    /\ In(p, "baseline")
    /\ acls' = [acls EXCEPT ![p] = @ \cup {Baseline}]
    /\ Turn(p, "agent")
    /\ UNCHANGED <<project, expired, has, forwards, attached, history, faults>>

EnsureAgentACL(p) ==
    /\ In(p, "agent")
    /\ acls' = [acls EXCEPT ![p] = @ \cup {Subject(p)}]
    /\ Turn(p, Kind(call[p].thing))
    /\ UNCHANGED <<project, expired, has, forwards, attached, history, faults>>

\* One request that adds the thing the call is about.
Put(p, place, next, t) ==
    /\ In(p, place)
    /\ has' = [has EXCEPT ![p] = @ \cup {t}]
    /\ Turn(p, next)
    /\ UNCHANGED <<project, expired, acls, forwards, attached, history, faults>>

PutNetwork(p) == Put(p, "network", "answer", call[p].thing)

-----------------------------------------------------------------------------
(* ACL rules and peerings.                                                   *)

\* validateACLRule, as far as it protects: an allow rule names a destination
\* outside the management and OOB ranges.
Admissible(action, dst) == action = "allow" => dst = "outside"

FreshID(p, id) == \A t \in asked[p] : Kind(t) = "rule" => t[3] # id

AddACLRule(p, n, action, dst) ==
    /\ Serves(p) /\ n \in NetworksIn(p)
    /\ Admissible(action, dst)
    /\ \E id \in RuleIDs :
         /\ FreshID(p, id)
         /\ Ask(p, <<"rule", n, id, action, dst>>, "baseline")

PutRule(p) == Put(p, "rule", "answer", call[p].thing)

\* Without such a rule the call ends.
RemoveACLRule(p, t) ==
    /\ Serves(p) /\ t \in RulesIn(p) /\ NetworkOf(t) \in NetworksIn(p)
    /\ promised' = [promised EXCEPT ![p] = @ \ {t}]
    /\ call' = [call EXCEPT ![p] = [Resting EXCEPT !.at = "unrule", !.thing = t]]
    /\ UNCHANGED <<project, expired, things, asked, faults>>

\* Fault: the first rule is dropped, whichever it is.
FilterAnyRule(p) ==
    /\ In(p, "unrule")
    /\ \E t \in RulesIn(p) : has' = [has EXCEPT ![p] = @ \ {t}]
    /\ Turn(p, "gone")
    /\ UNCHANGED <<project, expired, acls, forwards, attached, history, faults>>

FilterACLRules(p) ==
    /\ In(p, "unrule")
    /\ has' = [has EXCEPT ![p] = @ \ {call[p].thing}]
    /\ Turn(p, "gone")
    /\ UNCHANGED <<project, expired, acls, forwards, attached, history, faults>>

PeerNetworks(p, n, m) ==
    /\ Serves(p) /\ n # m /\ {n, m} \subseteq NetworksIn(p)
    /\ Ask(p, <<"peer", n, m>>, "left")

\* An entry that exists has this target: entries are named after it.
EnsureLeftPeer(p) == Put(p, "left", "right", call[p].thing)
EnsureRightPeer(p) == Put(p, "right", "answer", <<"peer", call[p].thing[3], Subject(p)>>)

-----------------------------------------------------------------------------
(* CreateForward: a port on the forward the network has, or a new forward.   *)

\* Of a network with an uplink, and an instance with a NIC on it.
Forwardable(p, n) == <<"network", n, "nat">> \in has[p] /\ n \in attached[p]

CreateForward(p, n, x, t) ==
    /\ Serves(p) /\ Forwardable(p, n)
    /\ Ask(p, <<"port", n, x, t>>, "forwards")

ReadForwards(p) ==
    /\ In(p, "forwards")
    /\ Turn(p, IF ForwardsOn(p, Subject(p)) = {} THEN "address" ELSE "port")
    /\ UNCHANGED <<project, expired, things, history, faults>>

\* Fault: the port takes the place of those forwarded before.
AddPortOverwriting(p) ==
    /\ In(p, "port")
    /\ has' = [has EXCEPT ![p] = (@ \ PortsOn(p, Subject(p))) \cup {call[p].thing}]
    /\ Turn(p, "answer")
    /\ UNCHANGED <<project, expired, acls, forwards, attached, history, faults>>

\* A listen port that is forwarded already, to whatever target, is an error.
AddForwardPort(p) ==
    /\ In(p, "port")
    /\ IF \E t \in PortsOn(p, Subject(p)) : t[3] = call[p].thing[3]
       THEN Return(p) /\ UNCHANGED has
       ELSE /\ has' = [has EXCEPT ![p] = @ \cup {call[p].thing}]
            /\ Turn(p, "answer")
    /\ UNCHANGED <<project, expired, acls, forwards, attached, history, faults>>

\* allocateForwardAddress: the first that is not used, or an error.
Allocate(p) ==
    LET free == Addresses \ UsedAddresses IN
    /\ In(p, "address")
    /\ IF free = {} THEN Return(p)
       ELSE call' = [call EXCEPT ![p].at = "forward",
                                 ![p].address = CHOOSE a \in free : \A c \in free : a <= c]
    /\ UNCHANGED <<project, expired, things, history, faults>>

\* Incus makes the forward, with its port.
Make(p) ==
    /\ call[p].address \notin UsedAddresses
    /\ forwards' = [forwards EXCEPT ![p] = @ \cup {<<Subject(p), call[p].address>>}]
    /\ has' = [has EXCEPT ![p] = @ \cup {call[p].thing}]

\* Incus refuses a used address.  After a request that failed on its own account
\* the forward may exist.
CreateAllocatedForward(p) ==
    /\ In(p, "forward")
    /\ \/ Make(p) /\ Turn(p, "answer") /\ UNCHANGED faults
       \/ /\ call[p].address \in UsedAddresses
          /\ Turn(p, "race") /\ UNCHANGED <<has, forwards, faults>>
       \/ /\ Faulty
          /\ Make(p) \/ UNCHANGED <<has, forwards>>
          /\ Turn(p, "race")
    /\ UNCHANGED <<project, expired, acls, attached, history>>

\* Fault: a used address is race enough.
RaceUsed(p) == call[p].address \in UsedAddresses

\* Only this call makes forwards on the network: its two reads are one step.
ForwardAllocationRace(p) ==
    ForwardsOn(p, Subject(p)) = {} /\ call[p].address \in UsedAddresses

Retry(p) ==
    /\ In(p, "race")
    /\ IF ForwardAllocationRace(p) THEN Turn(p, "address") ELSE Return(p)
    /\ UNCHANGED <<project, expired, things, history, faults>>

-----------------------------------------------------------------------------
(* NICs.  AttachNIC and CreateInstance resolve the network and add a NIC on   *)
(* it, DetachNIC and DeleteInstance take it away.  The networks are the       *)
(* project's own and the gate is held: none changes in between.              *)

AttachOVN(p, n) ==
    /\ Serves(p) /\ n \in NetworksIn(p)
    /\ attached' = [attached EXCEPT ![p] = @ \cup {n}]
    /\ UNCHANGED <<project, expired, has, acls, forwards, call, history, faults>>

DetachOVN(p, n) ==
    /\ Serves(p) /\ n \in attached[p]
    /\ attached' = [attached EXCEPT ![p] = @ \ {n}]
    /\ UNCHANGED <<project, expired, has, acls, forwards, call, history, faults>>

-----------------------------------------------------------------------------
(* DeleteNetwork, which the service refuses while a NIC is on the network.   *)

\* deleteForwardsInProject and deletePeers of the networks in N; "left" and
\* "still" are not deleted because a request failed.
Unforwarded(p, N, left, still) ==
    /\ forwards' = [forwards EXCEPT ![p] = {f \in @ : f[1] \in N => f \in left}]
    /\ has' = [has EXCEPT ![p] = {t \in @ :
           /\ Kind(t) = "port" /\ NetworkOf(t) \in N => \E f \in left : f[1] = NetworkOf(t)
           /\ Kind(t) = "peer" /\ NetworkOf(t) \in N => t \in still}]

DeleteOVNNetwork(p, n) ==
    /\ Serves(p) /\ n \in NetworksIn(p) \ {Main} /\ n \notin attached[p]
    /\ promised' = [promised EXCEPT ![p] = @ \ Involving(n)]
    /\ \E s \in Settings : call' = [call EXCEPT ![p] =
           [Resting EXCEPT !.at = "unforward", !.thing = <<"network", n, s>>]]
    /\ UNCHANGED <<project, expired, things, asked, faults>>

DeleteForwards(p) ==
    LET n == Subject(p)
        peers == {t \in has[p] : Kind(t) = "peer"}
    IN
    /\ In(p, "unforward")
    /\ \/ Unforwarded(p, {n}, {}, peers) /\ Turn(p, "unpeer") /\ UNCHANGED faults
       \/ /\ Faulty
          /\ \E left \in SUBSET ForwardsOn(p, n) : Unforwarded(p, {n}, left, peers)
          /\ Return(p)
    /\ UNCHANGED <<project, expired, acls, attached, history>>

DeletePeers(p) ==
    LET n == Subject(p) IN
    /\ In(p, "unpeer")
    /\ \/ Unforwarded(p, {n}, {}, {}) /\ Turn(p, "drop") /\ UNCHANGED faults
       \/ /\ Faulty
          /\ \E still \in SUBSET PeersOn(p, n) : Unforwarded(p, {n}, {}, still)
          /\ Return(p)
    /\ UNCHANGED <<project, expired, acls, attached, history>>

\* Incus refuses while a NIC is on it.
Drop(p) ==
    /\ In(p, "drop")
    /\ IF Subject(p) \in attached[p] THEN Return(p) /\ UNCHANGED has
       ELSE /\ has' = [has EXCEPT ![p] = @ \ {<<"network", Subject(p), s>> : s \in Settings}]
            /\ Turn(p, "unacl")
    /\ UNCHANGED <<project, expired, acls, forwards, attached, history, faults>>

\* Fault: the rules' ACL is left behind.
DropNoACL(p) ==
    /\ In(p, "unacl")
    /\ Turn(p, "gone")
    /\ UNCHANGED <<project, expired, things, history, faults>>

\* The network's own ACL, with its rules.
DropACL(p) ==
    /\ In(p, "unacl")
    /\ acls' = [acls EXCEPT ![p] = @ \ {Subject(p)}]
    /\ has' = [has EXCEPT ![p] = {t \in @ : Kind(t) = "rule" => NetworkOf(t) # Subject(p)}]
    /\ Turn(p, "gone")
    /\ UNCHANGED <<project, expired, forwards, attached, history, faults>>

\* The call's answer: the rule, or the network with all that was on it, is gone.
AnswerGone(p) ==
    /\ In(p, "gone")
    /\ asked' = [asked EXCEPT ![p] = IF Kind(call[p].thing) = "rule"
                                     THEN @ \ {call[p].thing} ELSE @ \ On(Subject(p))]
    /\ Return(p)
    /\ UNCHANGED <<project, expired, things, promised, faults>>

-----------------------------------------------------------------------------
(* DeleteSandbox, in dependency order.                                       *)

\* By its owner, the reaper, or the reaper again: it is expired before.
DeleteOVNSandbox(p) ==
    /\ In(p, "idle") /\ p \in project
    /\ expired' = expired \cup {p}
    /\ promised' = [promised EXCEPT ![p] = {}]
    /\ Turn(p, "forwarding")
    /\ UNCHANGED <<project, things, asked, faults>>

\* deleteSandboxForwarding: every network is tried before an error is returned; one
\* keeps some of its forwards and peers.
UnforwardAll(p) ==
    /\ In(p, "forwarding")
    /\ \/ Unforwarded(p, NetworksIn(p), {}, {}) /\ Turn(p, "contents") /\ UNCHANGED faults
       \/ /\ Faulty
          /\ \E n \in NetworksIn(p) :
               \E left \in SUBSET ForwardsOn(p, n), still \in SUBSET PeersOn(p, n) :
                 Unforwarded(p, NetworksIn(p), left, still)
          /\ Return(p)
    /\ UNCHANGED <<project, expired, acls, attached, history>>

\* emptySandboxProject: NICs, instances, profiles.
EmptyProject(p) ==
    /\ In(p, "contents")
    /\ \/ attached' = [attached EXCEPT ![p] = {}] /\ Turn(p, "networks") /\ UNCHANGED faults
       \/ /\ Faulty
          /\ \E left \in SUBSET attached[p] : attached' = [attached EXCEPT ![p] = left]
          /\ Return(p)
    /\ UNCHANGED <<project, expired, has, acls, forwards, history>>

\* Networks N go, and the ACLs of those in A.
Dropped(p, N, A) ==
    /\ acls' = [acls EXCEPT ![p] = @ \ A]
    /\ has' = [has EXCEPT ![p] = {t \in @ :
           IF Kind(t) = "rule" THEN NetworkOf(t) \notin A ELSE NetworkOf(t) \notin N}]

\* Fault: the ACL goes although the network could not.
DropNetworksBlindly(p) ==
    /\ In(p, "networks")
    /\ \E N \in SUBSET NetworksIn(p) : Dropped(p, N, NetworksIn(p))
    /\ Turn(p, "remaining")
    /\ UNCHANGED <<project, expired, forwards, attached, history, faults>>

\* deleteSandboxNetworks: each with its ACL; a failure of one, before the network
\* or between the two, does not stop the others.
DropNetworks(p) ==
    LET N == NetworksIn(p) IN
    /\ In(p, "networks")
    /\ \/ Dropped(p, N, N) /\ Turn(p, "remaining") /\ UNCHANGED faults
       \/ /\ Faulty
          /\ \E n \in N : Dropped(p, N \ {n}, N \ {n}) \/ Dropped(p, N, N \ {n})
          /\ Return(p)
    /\ UNCHANGED <<project, expired, forwards, attached, history>>

Remaining(p) ==
    /\ In(p, "remaining")
    /\ IF NetworksIn(p) # {} THEN Return(p) ELSE Turn(p, "unproject")
    /\ UNCHANGED <<project, expired, things, history, faults>>

\* deleteSandboxProject: the ACLs left, then the project, which Incus refuses to
\* delete while anything is in it.
DeleteOVNProject(p) ==
    /\ In(p, "unproject")
    /\ \/ /\ Dropped(p, {}, Networks \cup {Baseline})
          /\ IF attached[p] = {} /\ NetworksIn(p) = {}
             THEN /\ project' = project \ {p} /\ expired' = expired \ {p}
                  /\ asked' = [asked EXCEPT ![p] = {}]
             ELSE UNCHANGED <<project, expired, asked>>
          /\ UNCHANGED faults
       \/ /\ Faulty
          /\ \E left \in SUBSET acls[p] : Dropped(p, {}, acls[p] \ left)
          /\ UNCHANGED <<project, expired, asked>>
    /\ Return(p)
    /\ UNCHANGED <<forwards, attached, promised>>

-----------------------------------------------------------------------------
\* A request fails, or the last one's answer is lost; a forward's creation alone
\* goes on after it.
RequestFails(p) ==
    /\ call[p].at \notin {"idle", "forward"}
    /\ Faulty
    /\ Return(p)
    /\ UNCHANGED <<project, expired, things, history>>

\* Every sandbox loses its call.
ServerCrash ==
    /\ Faulty
    /\ call' = [p \in Projects |-> Resting]
    /\ UNCHANGED <<project, expired, things, history>>

Changes(p) ==
    \/ CreateOVNSandbox(p) \/ CreateOVNProject(p) \/ MatchingOVNNetwork(p)
    \/ EnsureBaselineACL(p) \/ EnsureAgentACL(p) \/ PutNetwork(p)
    \/ \E n \in Networks :
         \/ \E s \in Settings : CreateOVNNetwork(p, n, s)
         \/ \E action \in {"allow", "drop"}, dst \in {"outside", "protected"} :
              AddACLRule(p, n, action, dst)
         \/ \E m \in Networks : PeerNetworks(p, n, m)
         \/ \E x \in Ports, t \in Targets : CreateForward(p, n, x, t)
         \/ AttachOVN(p, n) \/ DetachOVN(p, n) \/ DeleteOVNNetwork(p, n)
    \/ \E t \in RulesIn(p) : RemoveACLRule(p, t)
    \/ PutRule(p) \/ FilterACLRules(p) \/ EnsureLeftPeer(p) \/ EnsureRightPeer(p)
    \/ ReadForwards(p) \/ AddForwardPort(p) \/ Allocate(p)
    \/ CreateAllocatedForward(p) \/ Retry(p)
    \/ DeleteForwards(p) \/ DeletePeers(p) \/ Drop(p) \/ DropACL(p)
    \/ DeleteOVNSandbox(p) \/ UnforwardAll(p) \/ EmptyProject(p) \/ DropNetworks(p)
    \/ Remaining(p) \/ DeleteOVNProject(p)
    \/ Answer(p) \/ AnswerGone(p) \/ RequestFails(p)

FabricNext == (\E p \in Projects : Changes(p)) \/ ServerCrash

FabricSpec == FabricInit /\ [][FabricNext]_ovnVars

-----------------------------------------------------------------------------
\* Every network is behind the baseline drops and has its own ACL from before it
\* is created until after it is deleted, whichever request fails.  (That no rule
\* allows what the baseline drops is validateACLRule's guard: see Admissible.)
Screened ==
    \A p \in Projects :
        NetworksIn(p) # {} => (NetworksIn(p) \cup {Baseline}) \subseteq acls[p]

\* "A forward already on this network may be an uncertain commit; never create a
\* second one."  Its listen ports lead to one target each, and isolated networks
\* have no forward.
OneForward ==
    \A p \in Projects, n \in Networks :
        /\ Cardinality(ForwardsOn(p, n)) <= 1
        /\ \A t, u \in PortsOn(p, n) : t[3] = u[3] => t = u
        /\ ForwardsOn(p, n) # {} => <<"network", n, "nat">> \in has[p]

\* What a call has answered for - a network with its settings, a rule, a peering
\* both ways, a forwarded port - stays until a call takes it back, whatever calls
\* come between and wherever they break off.
AnsweredForKept == \A p \in Projects : promised[p] \subseteq has[p]

\* A deletion that was answered leaves nothing: a network created again under the
\* name has only what was asked for since.  (After a deletion that failed at the
\* ACL it has the rules of the one before.)
NothingInherited == \A p \in Projects : has[p] \subseteq asked[p]
=============================================================================
