-------------------------- MODULE NetworksProofs --------------------------
(***************************************************************************)
(* For any number of sandboxes on one cluster, whatever requests fail and  *)
(* wherever the server dies between two of them.  First the OVN sandboxes, *)
(* then the bridge sandboxes.                                              *)
(***************************************************************************)
EXTENDS IncusNetworks, OVNFabric, FiniteSetTheorems, WellFoundedInduction, TLAPS

-----------------------------------------------------------------------------
(* OVNFabric: what a call may rely on in each of its places.                 *)

Is(t, kind) == t \in Things /\ Kind(t) = kind

Unpeering == {"unpeer", "drop", "unacl"}
Removing == {"unforward"} \cup Unpeering
Forwarding == {"forwards", "port", "address", "forward", "race"}
Emptying == {"contents", "networks", "remaining", "unproject"}
Teardown == {"forwarding"} \cup Emptying

\* What the call is about.
CallFits(p) ==
    LET t == call[p].thing IN
    /\ call[p].at \in {"project", "existing", "network"} \cup Removing => Is(t, "network")
    /\ call[p].at \in {"rule", "unrule"} => Is(t, "rule")
    /\ call[p].at \in {"baseline", "agent", "gone"} => Is(t, "network") \/ Is(t, "rule")
    /\ call[p].at \in {"left", "right"} => Is(t, "peer")
    /\ call[p].at \in Forwarding => Is(t, "port")
    /\ call[p].at = "answer" => t \in Things

\* Whose calls the service lets through.
Served(p) ==
    /\ call[p].at = "project" => p \notin project
    /\ call[p].at \in Teardown => p \in expired
    /\ call[p].at \notin {"idle", "project"} \cup Teardown => p \in project \ expired
    /\ p \notin project \/ p \in expired => promised[p] = {}

NetworkIn(p, n) == \E s \in Settings : <<"network", n, s>> \in has[p]

ScreenedOf(p) ==
    /\ \A n \in Networks : NetworkIn(p, n) => {n, Baseline} \subseteq acls[p]
    /\ call[p].at = "agent" => Baseline \in acls[p]
    /\ call[p].at = "network" => {Subject(p), Baseline} \subseteq acls[p]
    /\ call[p].at = "unacl" => ~NetworkIn(p, Subject(p))
    /\ call[p].at = "unproject" => \A n \in Networks : ~NetworkIn(p, n)

ForwardedOf(p) ==
    /\ \A f, g \in forwards[p] : f[1] = g[1] => f = g
    /\ \A f \in forwards[p] : <<"network", f[1], "nat">> \in has[p]
    /\ \A t, u \in has[p] : Kind(t) = "port" /\ Kind(u) = "port" /\ t[2] = u[2] /\ t[3] = u[3] => t = u
    /\ \A t \in has[p] : Kind(t) = "port" => \E f \in forwards[p] : f[1] = NetworkOf(t)
    /\ call[p].at \in Forwarding => <<"network", Subject(p), "nat">> \in has[p]
    /\ call[p].at = "port" => \E f \in forwards[p] : f[1] = Subject(p)
    /\ call[p].at \in {"address", "forward"} \cup Unpeering => \A f \in forwards[p] : f[1] # Subject(p)
    /\ call[p].at = "forward" => call[p].address \in Addresses
    /\ call[p].at \in Emptying => forwards[p] = {}

PromisedOf(p) ==
    /\ promised[p] \subseteq has[p]
    /\ call[p].at = "answer" => Parts(call[p].thing) \subseteq has[p]
    /\ call[p].at = "right" => call[p].thing \in has[p]
    /\ call[p].at = "unrule" => call[p].thing \notin promised[p]
    /\ call[p].at \in Removing => \A t \in promised[p] : NetworkOf(t) # Subject(p)

AskedOf(p) ==
    /\ has[p] \subseteq asked[p]
    /\ call[p].at \in {"project", "existing", "baseline", "agent", "network", "rule",
                       "left", "right"} \cup Forwarding => Parts(call[p].thing) \subseteq asked[p]
    /\ \A t \in has[p] : Kind(t) = "peer" => NetworkIn(p, NetworkOf(t))
    /\ call[p].at = "left" => NetworkIn(p, Subject(p))
    /\ call[p].at \in {"left", "right"} => NetworkIn(p, call[p].thing[3])
    /\ call[p].at \in {"drop", "unacl"} => \A t \in has[p] : Kind(t) = "peer" => NetworkOf(t) # Subject(p)
    /\ call[p].at = "unacl" => \A t \in has[p] : Kind(t) # "rule" => NetworkOf(t) # Subject(p)
    /\ call[p].at = "gone" => call[p].thing \notin has[p]
    /\ call[p].at = "gone" /\ Kind(call[p].thing) = "network" => \A t \in has[p] : NetworkOf(t) # Subject(p)
    /\ call[p].at \in Emptying => \A t \in has[p] : Kind(t) \in {"network", "rule"}

Kept(p) == ScreenedOf(p) /\ ForwardedOf(p) /\ PromisedOf(p) /\ AskedOf(p)

FabricInv ==
    /\ FabricTypeOK
    /\ expired \subseteq project
    /\ \A p \in Projects : CallFits(p) /\ Served(p) /\ Kept(p)

\* A set of numbers has a least one: of the initial pieces of the set, one has none below it.
LEMMA LeastExists == ASSUME NEW S \in SUBSET Nat, S # {} PROVE \E a \in S : \A c \in S : a <= c
<1>1. PICK top \in S : TRUE
  OBVIOUS
<1> DEFINE Upto(b) == {c \in S : c <= b}
           Pieces == {Upto(b) : b \in {d \in S : d <= top}}
<1>2. IsFiniteSet(0..top)
  BY FS_Interval
<1>3. Pieces \subseteq SUBSET (0..top) /\ Pieces # {}
  <2>1. Upto(top) \in Pieces
    OBVIOUS
  <2>2. ASSUME NEW b \in S, b <= top PROVE Upto(b) \subseteq 0..top
    <3>1. b \in Nat /\ top \in Nat
      OBVIOUS
    <3>2. ASSUME NEW c \in Nat, c <= b PROVE c \in 0..top
      BY <2>2, <3>1, <3>2
    <3> QED
      BY <3>2
  <2> QED
    BY <2>1, <2>2
<1> DEFINE Smaller == StrictSubsetOrdering(0..top)
<1>4. IsWellFoundedOn(Smaller, SUBSET (0..top))
  BY <1>2, FS_StrictSubsetOrderingWellFounded, FS_FiniteSubsetsOfFinite
<1>5. PICK X \in Pieces : \A Y \in Pieces : ~(<<Y, X>> \in Smaller)
  <2> HIDE DEF Pieces, Smaller
  <2> QED
    BY <1>3, <1>4, WFMin
<1>6. PICK a \in S : a <= top /\ X = Upto(a)
  OBVIOUS
<1>7. ASSUME NEW c \in S, c < a PROVE FALSE
  <2>1. Upto(c) \in Pieces
    BY <1>6, <1>7
  <2>2. Upto(c) \subseteq X /\ a \in X /\ a \notin Upto(c)
    <3>1. \A d \in S : d <= c => d <= a
      BY <1>7
    <3>2. a \in Upto(a) /\ a \notin Upto(c)
      BY <1>7
    <3> QED
      BY <1>6, <3>1, <3>2
  <2>3. X \subseteq 0..top /\ Upto(c) \subseteq 0..top
    BY <1>3, <2>1
  <2>4. <<Upto(c), X>> \in Smaller
    BY <2>2, <2>3 DEF StrictSubsetOrdering
  <2> QED
    BY <1>5, <2>1, <2>4
<1> QED
  BY <1>7

CallRecord == [at : Stages, thing : Things \cup {NoThing}, address : Addresses \cup {0}]

LEMMA ThingShapes ==
    /\ \A t \in Things : Kind(t) \in {"network", "rule", "peer", "port"} /\ NetworkOf(t) \in Networks
    /\ \A n \in Networks, s \in Settings : Is(<<"network", n, s>>, "network")
    /\ \A t \in Things : Kind(t) = "network" => \E s \in Settings : t = <<"network", NetworkOf(t), s>>
    /\ \A n, m \in Networks : Is(<<"peer", n, m>>, "peer")
    /\ \A t \in Things : Kind(t) = "peer" => t[3] \in Networks
    /\ \A n \in Networks, id \in RuleIDs, action \in {"allow", "drop"}, dst \in {"outside", "protected"} :
         Is(<<"rule", n, id, action, dst>>, "rule")
    /\ \A n \in Networks, x \in Ports, t \in Targets : Is(<<"port", n, x, t>>, "port")
<1>1. \A t \in Things : Kind(t) \in {"network", "rule", "peer", "port"} /\ NetworkOf(t) \in Networks
  BY DEF Things, Kind, NetworkOf
<1>2. \A n \in Networks, s \in Settings : Is(<<"network", n, s>>, "network")
  BY DEF Things, Kind, Is
<1>3. \A t \in Things : Kind(t) = "network" => \E s \in Settings : t = <<"network", NetworkOf(t), s>>
  BY DEF Things, Kind, NetworkOf
<1>4. \A n, m \in Networks : Is(<<"peer", n, m>>, "peer")
  BY DEF Things, Kind, Is
<1>5. \A t \in Things : Kind(t) = "peer" => t[3] \in Networks
  BY DEF Things, Kind
<1>6. \A n \in Networks, id \in RuleIDs, action \in {"allow", "drop"}, dst \in {"outside", "protected"} :
         Is(<<"rule", n, id, action, dst>>, "rule")
  BY DEF Things, Kind, Is
<1>7. \A n \in Networks, x \in Ports, t \in Targets : Is(<<"port", n, x, t>>, "port")
  BY DEF Things, Kind, Is
<1> QED
  BY <1>1, <1>2, <1>3, <1>4, <1>5, <1>6, <1>7

LEMMA PartsAreThings == ASSUME NEW t \in Things PROVE Parts(t) \subseteq Things /\ t \in Parts(t)
BY ThingShapes DEF Parts, Is, NetworkOf

\* What the three ways a call goes on do to it.
LEMMA TurnMoves ==
    ASSUME FabricTypeOK, NEW p \in Projects, NEW place \in Stages, Turn(p, place)
    PROVE  /\ call' \in [Projects -> CallRecord]
           /\ call'[p].at = place /\ call'[p].thing = call[p].thing /\ call'[p].address = call[p].address
           /\ \A q \in Projects \ {p} : call'[q] = call[q]
<1>1. call \in [Projects -> CallRecord]
  BY DEF FabricTypeOK, CallRecord
<1> QED
  BY <1>1 DEF CallRecord, Turn

LEMMA RestingRecord == Resting \in CallRecord /\ Resting.at = "idle"
BY DEF Resting, CallRecord, Stages

LEMMA ReturnMoves ==
    ASSUME FabricTypeOK, NEW p \in Projects, Return(p)
    PROVE  /\ call' \in [Projects -> CallRecord] /\ call'[p].at = "idle"
           /\ \A q \in Projects \ {p} : call'[q] = call[q]
<1>1. call \in [Projects -> CallRecord]
  BY DEF FabricTypeOK, CallRecord
<1> QED
  BY <1>1, RestingRecord DEF Return

LEMMA BeginMoves ==
    ASSUME FabricTypeOK, NEW p \in Projects, NEW t \in Things, NEW place \in Stages,
           call' = [call EXCEPT ![p] = [Resting EXCEPT !.at = place, !.thing = t]]
    PROVE  /\ call' \in [Projects -> CallRecord] /\ call'[p].at = place /\ call'[p].thing = t
           /\ \A q \in Projects \ {p} : call'[q] = call[q]
<1>1. call \in [Projects -> CallRecord]
  BY DEF FabricTypeOK, CallRecord
<1>2. [Resting EXCEPT !.at = place, !.thing = t] \in CallRecord
  BY DEF CallRecord, Resting
<1>3. [Resting EXCEPT !.at = place, !.thing = t].at = place /\ [Resting EXCEPT !.at = place, !.thing = t].thing = t
  BY DEF Resting
<1> QED
  BY <1>1, <1>2, <1>3

LEMMA AskMoves ==
    ASSUME FabricTypeOK, NEW p \in Projects, NEW t \in Things, NEW place \in Stages, Ask(p, t, place)
    PROVE  /\ call' \in [Projects -> CallRecord] /\ call'[p].at = place /\ call'[p].thing = t
           /\ \A q \in Projects \ {p} : call'[q] = call[q]
           /\ asked' \in [Projects -> SUBSET Things] /\ asked'[p] = asked[p] \cup Parts(t)
           /\ \A q \in Projects \ {p} : asked'[q] = asked[q]
           /\ UNCHANGED <<project, expired, has, acls, forwards, attached, promised, faults>>
<1>1. call' = [call EXCEPT ![p] = [Resting EXCEPT !.at = place, !.thing = t]]
  BY DEF Ask
<1>2. asked \in [Projects -> SUBSET Things] /\ asked' = [asked EXCEPT ![p] = @ \cup Parts(t)]
  BY DEF Ask, FabricTypeOK
<1>3. UNCHANGED <<project, expired, has, acls, forwards, attached, promised, faults>>
  BY DEF Ask, things
<1> QED
  BY <1>1, <1>2, <1>3, BeginMoves, PartsAreThings

LEMMA FaultCounted == FabricTypeOK /\ Faulty => faults' \in 0..MaxFaults
BY FabricBounds DEF FabricTypeOK, Faulty

LEMMA UnforwardedMoves ==
    ASSUME FabricTypeOK, NEW p \in Projects, NEW N, NEW left, NEW still, Unforwarded(p, N, left, still)
    PROVE  /\ has' \in [Projects -> SUBSET Things] /\ has'[p] \subseteq has[p]
           /\ \A t \in has[p] :
                t \in has'[p] <=> /\ Kind(t) = "port" /\ NetworkOf(t) \in N => \E f \in left : f[1] = NetworkOf(t)
                                  /\ Kind(t) = "peer" /\ NetworkOf(t) \in N => t \in still
           /\ forwards' \in [Projects -> SUBSET (Networks \X Addresses)] /\ forwards'[p] \subseteq forwards[p]
           /\ \A f \in forwards[p] : f \in forwards'[p] <=> (f[1] \in N => f \in left)
           /\ \A q \in Projects \ {p} : has'[q] = has[q] /\ forwards'[q] = forwards[q]
<1> has \in [Projects -> SUBSET Things] /\ forwards \in [Projects -> SUBSET (Networks \X Addresses)]
  BY DEF FabricTypeOK
<1> DEFINE h == {t \in has[p] :
                  /\ Kind(t) = "port" /\ NetworkOf(t) \in N => \E f \in left : f[1] = NetworkOf(t)
                  /\ Kind(t) = "peer" /\ NetworkOf(t) \in N => t \in still}
           g == {f \in forwards[p] : f[1] \in N => f \in left}
<1>1. has' = [has EXCEPT ![p] = h] /\ forwards' = [forwards EXCEPT ![p] = g]
  BY DEF Unforwarded
<1>2. h \subseteq has[p] /\ g \subseteq forwards[p]
  OBVIOUS
<1>3. /\ has' \in [Projects -> SUBSET Things] /\ has'[p] = h
      /\ forwards' \in [Projects -> SUBSET (Networks \X Addresses)] /\ forwards'[p] = g
      /\ \A q \in Projects \ {p} : has'[q] = has[q] /\ forwards'[q] = forwards[q]
  <2> HIDE DEF h, g
  <2> QED
    BY <1>1, <1>2
<1>4. \A t \in has[p] :
         t \in h <=> /\ Kind(t) = "port" /\ NetworkOf(t) \in N => \E f \in left : f[1] = NetworkOf(t)
                     /\ Kind(t) = "peer" /\ NetworkOf(t) \in N => t \in still
  OBVIOUS
<1>5. \A f \in forwards[p] : f \in g <=> (f[1] \in N => f \in left)
  OBVIOUS
<1> HIDE DEF h, g
<1> QED
  BY <1>2, <1>3, <1>4, <1>5

LEMMA DroppedMoves ==
    ASSUME FabricTypeOK, NEW p \in Projects, NEW N, NEW A, Dropped(p, N, A)
    PROVE  /\ has' \in [Projects -> SUBSET Things] /\ has'[p] \subseteq has[p]
           /\ \A t \in has[p] : t \in has'[p] <=> IF Kind(t) = "rule" THEN NetworkOf(t) \notin A
                                                                     ELSE NetworkOf(t) \notin N
           /\ acls' \in [Projects -> SUBSET (Networks \cup {Baseline})] /\ acls'[p] = acls[p] \ A
           /\ \A q \in Projects \ {p} : has'[q] = has[q] /\ acls'[q] = acls[q]
<1> has \in [Projects -> SUBSET Things] /\ acls \in [Projects -> SUBSET (Networks \cup {Baseline})]
  BY DEF FabricTypeOK
<1> DEFINE h == {t \in has[p] : IF Kind(t) = "rule" THEN NetworkOf(t) \notin A ELSE NetworkOf(t) \notin N}
<1>1. has' = [has EXCEPT ![p] = h] /\ acls' = [acls EXCEPT ![p] = @ \ A]
  BY DEF Dropped
<1>2. h \subseteq has[p]
  OBVIOUS
<1>3. /\ has' \in [Projects -> SUBSET Things] /\ has'[p] = h
      /\ acls' \in [Projects -> SUBSET (Networks \cup {Baseline})] /\ acls'[p] = acls[p] \ A
      /\ \A q \in Projects \ {p} : has'[q] = has[q] /\ acls'[q] = acls[q]
  <2> HIDE DEF h
  <2> QED
    BY <1>1, <1>2
<1> QED
  BY <1>2, <1>3

LEMMA MakeMoves ==
    ASSUME FabricTypeOK, NEW p \in Projects, Make(p), call[p].thing \in Things, call[p].address \in Addresses
    PROVE  /\ has' \in [Projects -> SUBSET Things] /\ has'[p] = has[p] \cup {call[p].thing}
           /\ forwards' \in [Projects -> SUBSET (Networks \X Addresses)]
           /\ forwards'[p] = forwards[p] \cup {<<Subject(p), call[p].address>>}
           /\ \A q \in Projects \ {p} : has'[q] = has[q] /\ forwards'[q] = forwards[q]
<1>1. has \in [Projects -> SUBSET Things] /\ forwards \in [Projects -> SUBSET (Networks \X Addresses)]
  BY DEF FabricTypeOK
<1>2. Subject(p) \in Networks
  BY ThingShapes DEF Subject
<1> QED
  BY <1>1, <1>2 DEF Make

LEMMA PutMoves ==
    ASSUME FabricTypeOK, NEW p \in Projects, NEW place, NEW next \in Stages, NEW t \in Things,
           Put(p, place, next, t)
    PROVE  /\ call' \in [Projects -> CallRecord]
           /\ call[p].at = place /\ call'[p].at = next /\ call'[p].thing = call[p].thing
           /\ has' \in [Projects -> SUBSET Things] /\ has'[p] = has[p] \cup {t}
           /\ \A q \in Projects \ {p} : has'[q] = has[q] /\ call'[q] = call[q]
           /\ UNCHANGED <<project, expired, acls, forwards, attached, promised, asked, faults>>
<1>1. Turn(p, next) /\ In(p, place) /\ has' = [has EXCEPT ![p] = @ \cup {t}]
  BY DEF Put
<1>2. has \in [Projects -> SUBSET Things]
  BY DEF FabricTypeOK
<1>3. UNCHANGED <<project, expired, acls, forwards, attached, promised, asked, faults>>
  BY DEF Put, history
<1> QED
  BY <1>1, <1>2, <1>3, TurnMoves DEF In

CallsTyped == call \in [Projects -> CallRecord]

ThingsTyped ==
    /\ has \in [Projects -> SUBSET Things]
    /\ acls \in [Projects -> SUBSET (Networks \cup {Baseline})]
    /\ forwards \in [Projects -> SUBSET (Networks \X Addresses)]
    /\ attached \in [Projects -> SUBSET Networks]

RestTyped ==
    /\ project \subseteq Projects
    /\ expired \subseteq Projects
    /\ promised \in [Projects -> SUBSET Things]
    /\ asked \in [Projects -> SUBSET Things]
    /\ faults \in 0..MaxFaults

CallsElsewhere(p) == \A q \in Projects \ {p} : call'[q] = call[q]

ThingsElsewhere(p) ==
    \A q \in Projects \ {p} :
        has'[q] = has[q] /\ acls'[q] = acls[q] /\ forwards'[q] = forwards[q] /\ attached'[q] = attached[q]

RestElsewhere(p) ==
    \A q \in Projects \ {p} :
        /\ promised'[q] = promised[q] /\ asked'[q] = asked[q]
        /\ (q \in project' <=> q \in project) /\ (q \in expired' <=> q \in expired)

Elsewhere(p) == CallsElsewhere(p) /\ ThingsElsewhere(p) /\ RestElsewhere(p)

LEMMA AskTypes ==
    ASSUME FabricTypeOK, NEW p \in Projects, NEW t \in Things, NEW place \in Stages, Ask(p, t, place)
    PROVE  FabricTypeOK' /\ Elsewhere(p)
<1> CallsTyped' /\ CallsElsewhere(p) /\ ThingsTyped' /\ ThingsElsewhere(p) /\ RestTyped' /\ RestElsewhere(p)
  BY AskMoves DEF FabricTypeOK, CallsTyped, CallsElsewhere, ThingsTyped, ThingsElsewhere,
                  RestTyped, RestElsewhere
<1> QED
  BY DEF FabricTypeOK, CallsTyped, CallRecord, ThingsTyped, RestTyped, Elsewhere

LEMMA PutTypes ==
    ASSUME FabricTypeOK, NEW p \in Projects, NEW place, NEW next \in Stages, NEW t \in Things,
           Put(p, place, next, t)
    PROVE  FabricTypeOK' /\ Elsewhere(p)
<1> CallsTyped' /\ CallsElsewhere(p) /\ ThingsTyped' /\ ThingsElsewhere(p) /\ RestTyped' /\ RestElsewhere(p)
  BY PutMoves DEF FabricTypeOK, CallsTyped, CallsElsewhere, ThingsTyped, ThingsElsewhere,
                  RestTyped, RestElsewhere
<1> QED
  BY DEF FabricTypeOK, CallsTyped, CallRecord, ThingsTyped, RestTyped, Elsewhere

LEMMA AllocatedIsFree ==
    ASSUME FabricTypeOK, NEW p \in Projects, Allocate(p), ~Return(p)
    PROVE  \E a \in Addresses : call' = [call EXCEPT ![p].at = "forward", ![p].address = a]
<1> DEFINE free == Addresses \ UsedAddresses
           a == CHOOSE b \in free : \A c \in free : b <= c
<1>1. free # {} /\ call' = [call EXCEPT ![p].at = "forward", ![p].address = a]
  BY DEF Allocate
<1>2. free \in SUBSET Nat
  BY ListenRange
<1>3. a \in free
  <2> HIDE DEF free
  <2> QED
    BY <1>1, <1>2, LeastExists
<1> QED
  BY <1>1, <1>3

\* A step of one sandbox, and the others.
LEMMA FabricTypes ==
    ASSUME FabricTypeOK, NEW p \in Projects, CallFits(p),
           call[p].at = "forward" => call[p].address \in Addresses, Changes(p)
    PROVE  FabricTypeOK' /\ Elsewhere(p)
<1> CallsTyped /\ ThingsTyped /\ RestTyped
  BY DEF FabricTypeOK, CallsTyped, CallRecord, ThingsTyped, RestTyped
<1>1. CASE CreateOVNSandbox(p)
  <2>1. <<"network", Main, "nat">> \in Things
    BY ThingShapes, MainExists DEF Is, Settings
  <2> QED
    BY <1>1, <2>1, AskTypes DEF CreateOVNSandbox, Stages
<1>2. CASE CreateOVNProject(p)
  <2>1. CallsTyped' /\ CallsElsewhere(p)
    BY <1>2, ThingShapes, TurnMoves, ReturnMoves, BeginMoves
       DEF CreateOVNProject, Stages, In, Is, CallFits, RulesIn, CallsTyped, CallsTyped,
           CallsElsewhere
  <2>2. ThingsTyped' /\ ThingsElsewhere(p)
    BY <1>2, ThingShapes DEF CreateOVNProject, things, CallFits, In, Subject, Is, Removing,
                             Unpeering, ThingsTyped, ThingsTyped, ThingsElsewhere
  <2>3. RestTyped' /\ RestElsewhere(p)
    BY <1>2, FaultCounted, PartsAreThings DEF CreateOVNProject, history, In, CallFits,
                                              RestTyped, RestTyped, RestElsewhere
  <2> QED
    BY <2>1, <2>2, <2>3 DEF FabricTypeOK, CallRecord, CallsTyped, ThingsTyped, RestTyped,
                            Elsewhere
<1>3. CASE MatchingOVNNetwork(p)
  <2>1. CallsTyped' /\ CallsElsewhere(p)
    BY <1>3, ThingShapes, TurnMoves, ReturnMoves, BeginMoves
       DEF MatchingOVNNetwork, Stages, In, Is, CallFits, RulesIn, CallsTyped, CallsTyped,
           CallsElsewhere
  <2>2. ThingsTyped' /\ ThingsElsewhere(p)
    BY <1>3, ThingShapes DEF MatchingOVNNetwork, things, CallFits, In, Subject, Is,
                             Removing, Unpeering, ThingsTyped, ThingsTyped, ThingsElsewhere
  <2>3. RestTyped' /\ RestElsewhere(p)
    BY <1>3, FaultCounted, PartsAreThings DEF MatchingOVNNetwork, history, In, CallFits,
                                              RestTyped, RestTyped, RestElsewhere
  <2> QED
    BY <2>1, <2>2, <2>3 DEF FabricTypeOK, CallRecord, CallsTyped, ThingsTyped, RestTyped,
                            Elsewhere
<1>4. CASE EnsureBaselineACL(p)
  <2>1. CallsTyped' /\ CallsElsewhere(p)
    BY <1>4, ThingShapes, TurnMoves, ReturnMoves, BeginMoves
       DEF EnsureBaselineACL, Stages, In, Is, CallFits, RulesIn, CallsTyped, CallsTyped,
           CallsElsewhere
  <2>2. ThingsTyped' /\ ThingsElsewhere(p)
    BY <1>4, ThingShapes DEF EnsureBaselineACL, things, CallFits, In, Subject, Is, Removing,
                             Unpeering, ThingsTyped, ThingsTyped, ThingsElsewhere
  <2>3. RestTyped' /\ RestElsewhere(p)
    BY <1>4, FaultCounted, PartsAreThings DEF EnsureBaselineACL, history, In, CallFits,
                                              RestTyped, RestTyped, RestElsewhere
  <2> QED
    BY <2>1, <2>2, <2>3 DEF FabricTypeOK, CallRecord, CallsTyped, ThingsTyped, RestTyped,
                            Elsewhere
<1>5. CASE EnsureAgentACL(p)
  <2>1. CallsTyped' /\ CallsElsewhere(p)
    BY <1>5, ThingShapes, TurnMoves, ReturnMoves, BeginMoves
       DEF EnsureAgentACL, Stages, In, Is, CallFits, RulesIn, CallsTyped, CallsTyped,
           CallsElsewhere
  <2>2. ThingsTyped' /\ ThingsElsewhere(p)
    BY <1>5, ThingShapes DEF EnsureAgentACL, things, CallFits, In, Subject, Is, Removing,
                             Unpeering, ThingsTyped, ThingsTyped, ThingsElsewhere
  <2>3. RestTyped' /\ RestElsewhere(p)
    BY <1>5, FaultCounted, PartsAreThings DEF EnsureAgentACL, history, In, CallFits,
                                              RestTyped, RestTyped, RestElsewhere
  <2> QED
    BY <2>1, <2>2, <2>3 DEF FabricTypeOK, CallRecord, CallsTyped, ThingsTyped, RestTyped,
                            Elsewhere
<1>6. CASE PutNetwork(p)
  <2>1. call[p].at = "network"
    BY <1>6 DEF PutNetwork, Put, In
  <2>2. call[p].thing \in Things
    BY <2>1, ThingShapes DEF CallFits, Is, Subject
  <2> QED
    BY <1>6, <2>2, PutTypes DEF PutNetwork, Stages
<1>7. ASSUME NEW n \in Networks, NEW s \in Settings, CreateOVNNetwork(p, n, s)
      PROVE FabricTypeOK' /\ Elsewhere(p)
  <2>1. <<"network", n, s>> \in Things
    BY ThingShapes DEF Is
  <2> QED
    BY <1>7, <2>1, AskTypes DEF CreateOVNNetwork, Stages
<1>8. ASSUME NEW n \in Networks, NEW action \in {"allow", "drop"}, NEW dst \in {"outside", "protected"}, AddACLRule(p, n, action, dst)
      PROVE FabricTypeOK' /\ Elsewhere(p)
  <2>1. PICK id \in RuleIDs : Ask(p, <<"rule", n, id, action, dst>>, "baseline")
    BY <1>8 DEF AddACLRule
  <2>2. <<"rule", n, id, action, dst>> \in Things
    BY ThingShapes DEF Is
  <2> QED
    BY <2>1, <2>2, AskTypes DEF Stages
<1>9. ASSUME NEW n \in Networks, NEW m \in Networks, PeerNetworks(p, n, m)
      PROVE FabricTypeOK' /\ Elsewhere(p)
  <2>1. <<"peer", n, m>> \in Things
    BY ThingShapes DEF Is
  <2> QED
    BY <1>9, <2>1, AskTypes DEF PeerNetworks, Stages
<1>10. ASSUME NEW n \in Networks, NEW x \in Ports, NEW t \in Targets, CreateForward(p, n, x, t)
       PROVE FabricTypeOK' /\ Elsewhere(p)
  <2>1. <<"port", n, x, t>> \in Things
    BY ThingShapes DEF Is
  <2> QED
    BY <1>10, <2>1, AskTypes DEF CreateForward, Stages
<1>11. ASSUME NEW n \in Networks, AttachOVN(p, n) PROVE FabricTypeOK' /\ Elsewhere(p)
  <2>1. CallsTyped' /\ CallsElsewhere(p)
    BY <1>11, ThingShapes, TurnMoves, ReturnMoves, BeginMoves
       DEF AttachOVN, Stages, In, Is, CallFits, RulesIn, CallsTyped, CallsTyped,
           CallsElsewhere
  <2>2. ThingsTyped' /\ ThingsElsewhere(p)
    BY <1>11, ThingShapes DEF AttachOVN, things, CallFits, In, Subject, Is, Removing,
                              Unpeering, ThingsTyped, ThingsTyped, ThingsElsewhere
  <2>3. RestTyped' /\ RestElsewhere(p)
    BY <1>11, FaultCounted, PartsAreThings DEF AttachOVN, history, In, CallFits, RestTyped,
                                               RestTyped, RestElsewhere
  <2> QED
    BY <2>1, <2>2, <2>3 DEF FabricTypeOK, CallRecord, CallsTyped, ThingsTyped, RestTyped,
                            Elsewhere
<1>12. ASSUME NEW n \in Networks, DetachOVN(p, n) PROVE FabricTypeOK' /\ Elsewhere(p)
  <2>1. CallsTyped' /\ CallsElsewhere(p)
    BY <1>12, ThingShapes, TurnMoves, ReturnMoves, BeginMoves
       DEF DetachOVN, Stages, In, Is, CallFits, RulesIn, CallsTyped, CallsTyped,
           CallsElsewhere
  <2>2. ThingsTyped' /\ ThingsElsewhere(p)
    BY <1>12, ThingShapes DEF DetachOVN, things, CallFits, In, Subject, Is, Removing,
                              Unpeering, ThingsTyped, ThingsTyped, ThingsElsewhere
  <2>3. RestTyped' /\ RestElsewhere(p)
    BY <1>12, FaultCounted, PartsAreThings DEF DetachOVN, history, In, CallFits, RestTyped,
                                               RestTyped, RestElsewhere
  <2> QED
    BY <2>1, <2>2, <2>3 DEF FabricTypeOK, CallRecord, CallsTyped, ThingsTyped, RestTyped,
                            Elsewhere
<1>13. ASSUME NEW n \in Networks, DeleteOVNNetwork(p, n) PROVE FabricTypeOK' /\ Elsewhere(p)
  <2>1. CallsTyped' /\ CallsElsewhere(p)
    <3>1. PICK s \in Settings :
             call' = [call EXCEPT ![p] = [Resting EXCEPT !.at = "unforward", !.thing = <<"network", n, s>>]]
      BY <1>13 DEF DeleteOVNNetwork
    <3> QED
      BY <3>1, ThingShapes, BeginMoves DEF Is, Stages, CallsTyped, CallsElsewhere
  <2>2. ThingsTyped' /\ ThingsElsewhere(p)
    BY <1>13, ThingShapes DEF DeleteOVNNetwork, things, CallFits, In, Subject, Is, Removing,
                              Unpeering, ThingsTyped, ThingsTyped, ThingsElsewhere
  <2>3. RestTyped' /\ RestElsewhere(p)
    BY <1>13, FaultCounted, PartsAreThings DEF DeleteOVNNetwork, history, In, CallFits,
                                               RestTyped, RestTyped, RestElsewhere
  <2> QED
    BY <2>1, <2>2, <2>3 DEF FabricTypeOK, CallRecord, CallsTyped, ThingsTyped, RestTyped,
                            Elsewhere
<1>14. ASSUME NEW t \in RulesIn(p), RemoveACLRule(p, t) PROVE FabricTypeOK' /\ Elsewhere(p)
  <2>1. CallsTyped' /\ CallsElsewhere(p)
    <3>1. t \in Things
      BY DEF RulesIn, ThingsTyped
    <3>2. call' = [call EXCEPT ![p] = [Resting EXCEPT !.at = "unrule", !.thing = t]]
      BY <1>14 DEF RemoveACLRule
    <3> QED
      BY <3>1, <3>2, BeginMoves DEF Stages, CallsTyped, CallsElsewhere
  <2>2. ThingsTyped' /\ ThingsElsewhere(p)
    BY <1>14, ThingShapes DEF RemoveACLRule, things, CallFits, In, Subject, Is, Removing,
                              Unpeering, ThingsTyped, ThingsTyped, ThingsElsewhere
  <2>3. RestTyped' /\ RestElsewhere(p)
    BY <1>14, FaultCounted, PartsAreThings DEF RemoveACLRule, history, In, CallFits,
                                               RestTyped, RestTyped, RestElsewhere
  <2> QED
    BY <2>1, <2>2, <2>3 DEF FabricTypeOK, CallRecord, CallsTyped, ThingsTyped, RestTyped,
                            Elsewhere
<1>15. CASE PutRule(p)
  <2>1. call[p].at = "rule"
    BY <1>15 DEF PutRule, Put, In
  <2>2. call[p].thing \in Things
    BY <2>1, ThingShapes DEF CallFits, Is, Subject
  <2> QED
    BY <1>15, <2>2, PutTypes DEF PutRule, Stages
<1>16. CASE FilterACLRules(p)
  <2>1. CallsTyped' /\ CallsElsewhere(p)
    BY <1>16, ThingShapes, TurnMoves, ReturnMoves, BeginMoves
       DEF FilterACLRules, Stages, In, Is, CallFits, RulesIn, CallsTyped, CallsTyped,
           CallsElsewhere
  <2>2. ThingsTyped' /\ ThingsElsewhere(p)
    BY <1>16, ThingShapes DEF FilterACLRules, things, CallFits, In, Subject, Is, Removing,
                              Unpeering, ThingsTyped, ThingsTyped, ThingsElsewhere
  <2>3. RestTyped' /\ RestElsewhere(p)
    BY <1>16, FaultCounted, PartsAreThings DEF FilterACLRules, history, In, CallFits,
                                               RestTyped, RestTyped, RestElsewhere
  <2> QED
    BY <2>1, <2>2, <2>3 DEF FabricTypeOK, CallRecord, CallsTyped, ThingsTyped, RestTyped,
                            Elsewhere
<1>17. CASE EnsureLeftPeer(p)
  <2>1. call[p].at = "left"
    BY <1>17 DEF EnsureLeftPeer, Put, In
  <2>2. call[p].thing \in Things
    BY <2>1, ThingShapes DEF CallFits, Is, Subject
  <2> QED
    BY <1>17, <2>2, PutTypes DEF EnsureLeftPeer, Stages
<1>18. CASE EnsureRightPeer(p)
  <2>1. call[p].at = "right"
    BY <1>18 DEF EnsureRightPeer, Put, In
  <2>2. <<"peer", call[p].thing[3], Subject(p)>> \in Things
    BY <2>1, ThingShapes DEF CallFits, Is, Subject
  <2> QED
    BY <1>18, <2>2, PutTypes DEF EnsureRightPeer, Stages
<1>19. CASE ReadForwards(p)
  <2>1. CallsTyped' /\ CallsElsewhere(p)
    BY <1>19, ThingShapes, TurnMoves, ReturnMoves, BeginMoves
       DEF ReadForwards, Stages, In, Is, CallFits, RulesIn, CallsTyped, CallsTyped,
           CallsElsewhere
  <2>2. ThingsTyped' /\ ThingsElsewhere(p)
    BY <1>19, ThingShapes DEF ReadForwards, things, CallFits, In, Subject, Is, Removing,
                              Unpeering, ThingsTyped, ThingsTyped, ThingsElsewhere
  <2>3. RestTyped' /\ RestElsewhere(p)
    BY <1>19, FaultCounted, PartsAreThings DEF ReadForwards, history, In, CallFits,
                                               RestTyped, RestTyped, RestElsewhere
  <2> QED
    BY <2>1, <2>2, <2>3 DEF FabricTypeOK, CallRecord, CallsTyped, ThingsTyped, RestTyped,
                            Elsewhere
<1>20. CASE AddForwardPort(p)
  <2>1. CallsTyped' /\ CallsElsewhere(p)
    BY <1>20, ThingShapes, TurnMoves, ReturnMoves, BeginMoves
       DEF AddForwardPort, Stages, In, Is, CallFits, RulesIn, CallsTyped, CallsTyped,
           CallsElsewhere
  <2>2. ThingsTyped' /\ ThingsElsewhere(p)
    <3>1. call[p].thing \in Things
      BY <1>20 DEF AddForwardPort, In, CallFits, Is, Forwarding
    <3>2. /\ has' = has \/ has' = [has EXCEPT ![p] = @ \cup {call[p].thing}]
          /\ UNCHANGED <<acls, forwards, attached>>
      BY <1>20 DEF AddForwardPort
    <3> QED
      BY <3>1, <3>2 DEF ThingsTyped, ThingsElsewhere
  <2>3. RestTyped' /\ RestElsewhere(p)
    BY <1>20, FaultCounted, PartsAreThings DEF AddForwardPort, history, In, CallFits,
                                               RestTyped, RestTyped, RestElsewhere
  <2> QED
    BY <2>1, <2>2, <2>3 DEF FabricTypeOK, CallRecord, CallsTyped, ThingsTyped, RestTyped,
                            Elsewhere
<1>21. CASE Allocate(p)
  <2>1. CallsTyped' /\ CallsElsewhere(p)
    <3>1. CASE Return(p)
      BY <3>1, ReturnMoves DEF CallsTyped, CallsElsewhere
    <3>2. CASE ~Return(p)
      <4>1. PICK a : call' = [call EXCEPT ![p].at = "forward", ![p].address = a] /\ a \in Addresses
        BY <1>21, <3>2, AllocatedIsFree DEF Allocate
      <4> QED
        BY <4>1 DEF CallsTyped, CallRecord, CallsElsewhere, Stages
    <3> QED
      BY <3>1, <3>2
  <2>2. ThingsTyped' /\ ThingsElsewhere(p)
    BY <1>21, ThingShapes DEF Allocate, things, CallFits, In, Subject, Is, Removing,
                              Unpeering, ThingsTyped, ThingsTyped, ThingsElsewhere
  <2>3. RestTyped' /\ RestElsewhere(p)
    BY <1>21, FaultCounted, PartsAreThings DEF Allocate, history, In, CallFits, RestTyped,
                                               RestTyped, RestElsewhere
  <2> QED
    BY <2>1, <2>2, <2>3 DEF FabricTypeOK, CallRecord, CallsTyped, ThingsTyped, RestTyped,
                            Elsewhere
<1>22. CASE CreateAllocatedForward(p)
  <2>1. CallsTyped' /\ CallsElsewhere(p)
    BY <1>22, ThingShapes, TurnMoves, ReturnMoves, BeginMoves
       DEF CreateAllocatedForward, Stages, In, Is, CallFits, RulesIn, CallsTyped,
           CallsTyped, CallsElsewhere
  <2>2. ThingsTyped' /\ ThingsElsewhere(p)
    BY <1>22, MakeMoves, ThingShapes DEF CreateAllocatedForward, things, CallFits, In,
                                         Forwarding, Is, ThingsTyped, ThingsTyped,
                                         ThingsElsewhere
  <2>3. RestTyped' /\ RestElsewhere(p)
    BY <1>22, FaultCounted, PartsAreThings DEF CreateAllocatedForward, history, In,
                                               CallFits, RestTyped, RestTyped, RestElsewhere
  <2> QED
    BY <2>1, <2>2, <2>3 DEF FabricTypeOK, CallRecord, CallsTyped, ThingsTyped, RestTyped,
                            Elsewhere
<1>23. CASE Retry(p)
  <2>1. CallsTyped' /\ CallsElsewhere(p)
    BY <1>23, ThingShapes, TurnMoves, ReturnMoves, BeginMoves
       DEF Retry, Stages, In, Is, CallFits, RulesIn, CallsTyped, CallsTyped, CallsElsewhere
  <2>2. ThingsTyped' /\ ThingsElsewhere(p)
    BY <1>23, ThingShapes DEF Retry, things, CallFits, In, Subject, Is, Removing, Unpeering,
                              ThingsTyped, ThingsTyped, ThingsElsewhere
  <2>3. RestTyped' /\ RestElsewhere(p)
    BY <1>23, FaultCounted, PartsAreThings DEF Retry, history, In, CallFits, RestTyped,
                                               RestTyped, RestElsewhere
  <2> QED
    BY <2>1, <2>2, <2>3 DEF FabricTypeOK, CallRecord, CallsTyped, ThingsTyped, RestTyped,
                            Elsewhere
<1>24. CASE DeleteForwards(p)
  <2>1. CallsTyped' /\ CallsElsewhere(p)
    BY <1>24, ThingShapes, TurnMoves, ReturnMoves, BeginMoves
       DEF DeleteForwards, Stages, In, Is, CallFits, RulesIn, CallsTyped, CallsTyped,
           CallsElsewhere
  <2>2. ThingsTyped' /\ ThingsElsewhere(p)
    <3>1. \E N, left, still : Unforwarded(p, N, left, still)
      BY <1>24 DEF DeleteForwards
    <3>2. UNCHANGED <<acls, attached>>
      BY <1>24 DEF DeleteForwards
    <3> QED
      BY <3>1, <3>2, UnforwardedMoves DEF ThingsTyped, ThingsElsewhere
  <2>3. RestTyped' /\ RestElsewhere(p)
    BY <1>24, FaultCounted, PartsAreThings DEF DeleteForwards, history, In, CallFits,
                                               RestTyped, RestTyped, RestElsewhere
  <2> QED
    BY <2>1, <2>2, <2>3 DEF FabricTypeOK, CallRecord, CallsTyped, ThingsTyped, RestTyped,
                            Elsewhere
<1>25. CASE DeletePeers(p)
  <2>1. CallsTyped' /\ CallsElsewhere(p)
    BY <1>25, ThingShapes, TurnMoves, ReturnMoves, BeginMoves
       DEF DeletePeers, Stages, In, Is, CallFits, RulesIn, CallsTyped, CallsTyped,
           CallsElsewhere
  <2>2. ThingsTyped' /\ ThingsElsewhere(p)
    BY <1>25, UnforwardedMoves, ThingShapes DEF DeletePeers, things, CallFits, In,
                                                Forwarding, Is, ThingsTyped, ThingsTyped,
                                                ThingsElsewhere
  <2>3. RestTyped' /\ RestElsewhere(p)
    BY <1>25, FaultCounted, PartsAreThings DEF DeletePeers, history, In, CallFits,
                                               RestTyped, RestTyped, RestElsewhere
  <2> QED
    BY <2>1, <2>2, <2>3 DEF FabricTypeOK, CallRecord, CallsTyped, ThingsTyped, RestTyped,
                            Elsewhere
<1>26. CASE Drop(p)
  <2>1. CallsTyped' /\ CallsElsewhere(p)
    BY <1>26, ThingShapes, TurnMoves, ReturnMoves, BeginMoves
       DEF Drop, Stages, In, Is, CallFits, RulesIn, CallsTyped, CallsTyped, CallsElsewhere
  <2>2. ThingsTyped' /\ ThingsElsewhere(p)
    BY <1>26, ThingShapes DEF Drop, things, CallFits, In, Subject, Is, Removing, Unpeering,
                              ThingsTyped, ThingsTyped, ThingsElsewhere
  <2>3. RestTyped' /\ RestElsewhere(p)
    BY <1>26, FaultCounted, PartsAreThings DEF Drop, history, In, CallFits, RestTyped,
                                               RestTyped, RestElsewhere
  <2> QED
    BY <2>1, <2>2, <2>3 DEF FabricTypeOK, CallRecord, CallsTyped, ThingsTyped, RestTyped,
                            Elsewhere
<1>27. CASE DropACL(p)
  <2>1. CallsTyped' /\ CallsElsewhere(p)
    BY <1>27, ThingShapes, TurnMoves, ReturnMoves, BeginMoves
       DEF DropACL, Stages, In, Is, CallFits, RulesIn, CallsTyped, CallsTyped,
           CallsElsewhere
  <2>2. ThingsTyped' /\ ThingsElsewhere(p)
    BY <1>27, ThingShapes DEF DropACL, things, CallFits, In, Subject, Is, Removing,
                              Unpeering, ThingsTyped, ThingsTyped, ThingsElsewhere
  <2>3. RestTyped' /\ RestElsewhere(p)
    BY <1>27, FaultCounted, PartsAreThings DEF DropACL, history, In, CallFits, RestTyped,
                                               RestTyped, RestElsewhere
  <2> QED
    BY <2>1, <2>2, <2>3 DEF FabricTypeOK, CallRecord, CallsTyped, ThingsTyped, RestTyped,
                            Elsewhere
<1>28. CASE DeleteOVNSandbox(p)
  <2>1. CallsTyped' /\ CallsElsewhere(p)
    BY <1>28, ThingShapes, TurnMoves, ReturnMoves, BeginMoves
       DEF DeleteOVNSandbox, Stages, In, Is, CallFits, RulesIn, CallsTyped, CallsTyped,
           CallsElsewhere
  <2>2. ThingsTyped' /\ ThingsElsewhere(p)
    BY <1>28, ThingShapes DEF DeleteOVNSandbox, things, CallFits, In, Subject, Is, Removing,
                              Unpeering, ThingsTyped, ThingsTyped, ThingsElsewhere
  <2>3. RestTyped' /\ RestElsewhere(p)
    BY <1>28, FaultCounted, PartsAreThings DEF DeleteOVNSandbox, history, In, CallFits,
                                               RestTyped, RestTyped, RestElsewhere
  <2> QED
    BY <2>1, <2>2, <2>3 DEF FabricTypeOK, CallRecord, CallsTyped, ThingsTyped, RestTyped,
                            Elsewhere
<1>29. CASE UnforwardAll(p)
  <2>1. CallsTyped' /\ CallsElsewhere(p)
    BY <1>29, ThingShapes, TurnMoves, ReturnMoves, BeginMoves
       DEF UnforwardAll, Stages, In, Is, CallFits, RulesIn, CallsTyped, CallsTyped,
           CallsElsewhere
  <2>2. ThingsTyped' /\ ThingsElsewhere(p)
    <3>1. \E N, left, still : Unforwarded(p, N, left, still)
      BY <1>29 DEF UnforwardAll
    <3>2. UNCHANGED <<acls, attached>>
      BY <1>29 DEF UnforwardAll
    <3> QED
      BY <3>1, <3>2, UnforwardedMoves DEF ThingsTyped, ThingsElsewhere
  <2>3. RestTyped' /\ RestElsewhere(p)
    BY <1>29, FaultCounted, PartsAreThings DEF UnforwardAll, history, In, CallFits,
                                               RestTyped, RestTyped, RestElsewhere
  <2> QED
    BY <2>1, <2>2, <2>3 DEF FabricTypeOK, CallRecord, CallsTyped, ThingsTyped, RestTyped,
                            Elsewhere
<1>30. CASE EmptyProject(p)
  <2>1. CallsTyped' /\ CallsElsewhere(p)
    BY <1>30, ThingShapes, TurnMoves, ReturnMoves, BeginMoves
       DEF EmptyProject, Stages, In, Is, CallFits, RulesIn, CallsTyped, CallsTyped,
           CallsElsewhere
  <2>2. ThingsTyped' /\ ThingsElsewhere(p)
    BY <1>30, ThingShapes DEF EmptyProject, things, CallFits, In, Subject, Is, Removing,
                              Unpeering, ThingsTyped, ThingsTyped, ThingsElsewhere
  <2>3. RestTyped' /\ RestElsewhere(p)
    BY <1>30, FaultCounted, PartsAreThings DEF EmptyProject, history, In, CallFits,
                                               RestTyped, RestTyped, RestElsewhere
  <2> QED
    BY <2>1, <2>2, <2>3 DEF FabricTypeOK, CallRecord, CallsTyped, ThingsTyped, RestTyped,
                            Elsewhere
<1>31. CASE DropNetworks(p)
  <2>1. CallsTyped' /\ CallsElsewhere(p)
    BY <1>31, ThingShapes, TurnMoves, ReturnMoves, BeginMoves
       DEF DropNetworks, Stages, In, Is, CallFits, RulesIn, CallsTyped, CallsTyped,
           CallsElsewhere
  <2>2. ThingsTyped' /\ ThingsElsewhere(p)
    BY <1>31, DroppedMoves, ThingShapes DEF DropNetworks, things, CallFits, In, Forwarding,
                                            Is, ThingsTyped, ThingsTyped, ThingsElsewhere
  <2>3. RestTyped' /\ RestElsewhere(p)
    BY <1>31, FaultCounted, PartsAreThings DEF DropNetworks, history, In, CallFits,
                                               RestTyped, RestTyped, RestElsewhere
  <2> QED
    BY <2>1, <2>2, <2>3 DEF FabricTypeOK, CallRecord, CallsTyped, ThingsTyped, RestTyped,
                            Elsewhere
<1>32. CASE Remaining(p)
  <2>1. CallsTyped' /\ CallsElsewhere(p)
    BY <1>32, ThingShapes, TurnMoves, ReturnMoves, BeginMoves
       DEF Remaining, Stages, In, Is, CallFits, RulesIn, CallsTyped, CallsTyped,
           CallsElsewhere
  <2>2. ThingsTyped' /\ ThingsElsewhere(p)
    BY <1>32, ThingShapes DEF Remaining, things, CallFits, In, Subject, Is, Removing,
                              Unpeering, ThingsTyped, ThingsTyped, ThingsElsewhere
  <2>3. RestTyped' /\ RestElsewhere(p)
    BY <1>32, FaultCounted, PartsAreThings DEF Remaining, history, In, CallFits, RestTyped,
                                               RestTyped, RestElsewhere
  <2> QED
    BY <2>1, <2>2, <2>3 DEF FabricTypeOK, CallRecord, CallsTyped, ThingsTyped, RestTyped,
                            Elsewhere
<1>33. CASE DeleteOVNProject(p)
  <2>1. CallsTyped' /\ CallsElsewhere(p)
    BY <1>33, ThingShapes, TurnMoves, ReturnMoves, BeginMoves
       DEF DeleteOVNProject, Stages, In, Is, CallFits, RulesIn, CallsTyped, CallsTyped,
           CallsElsewhere
  <2>2. ThingsTyped' /\ ThingsElsewhere(p)
    BY <1>33, DroppedMoves, ThingShapes DEF DeleteOVNProject, things, CallFits, In,
                                            Forwarding, Is, ThingsTyped, ThingsTyped,
                                            ThingsElsewhere
  <2>3. RestTyped' /\ RestElsewhere(p)
    BY <1>33, FaultCounted, PartsAreThings DEF DeleteOVNProject, history, In, CallFits,
                                               RestTyped, RestTyped, RestElsewhere
  <2> QED
    BY <2>1, <2>2, <2>3 DEF FabricTypeOK, CallRecord, CallsTyped, ThingsTyped, RestTyped,
                            Elsewhere
<1>34. CASE Answer(p)
  <2>1. CallsTyped' /\ CallsElsewhere(p)
    BY <1>34, ThingShapes, TurnMoves, ReturnMoves, BeginMoves
       DEF Answer, Stages, In, Is, CallFits, RulesIn, CallsTyped, CallsTyped, CallsElsewhere
  <2>2. ThingsTyped' /\ ThingsElsewhere(p)
    BY <1>34, ThingShapes DEF Answer, things, CallFits, In, Subject, Is, Removing,
                              Unpeering, ThingsTyped, ThingsTyped, ThingsElsewhere
  <2>3. RestTyped' /\ RestElsewhere(p)
    BY <1>34, FaultCounted, PartsAreThings DEF Answer, history, In, CallFits, RestTyped,
                                               RestTyped, RestElsewhere
  <2> QED
    BY <2>1, <2>2, <2>3 DEF FabricTypeOK, CallRecord, CallsTyped, ThingsTyped, RestTyped,
                            Elsewhere
<1>35. CASE AnswerGone(p)
  <2>1. CallsTyped' /\ CallsElsewhere(p)
    BY <1>35, ThingShapes, TurnMoves, ReturnMoves, BeginMoves
       DEF AnswerGone, Stages, In, Is, CallFits, RulesIn, CallsTyped, CallsTyped,
           CallsElsewhere
  <2>2. ThingsTyped' /\ ThingsElsewhere(p)
    BY <1>35, ThingShapes DEF AnswerGone, things, CallFits, In, Subject, Is, Removing,
                              Unpeering, ThingsTyped, ThingsTyped, ThingsElsewhere
  <2>3. RestTyped' /\ RestElsewhere(p)
    BY <1>35, FaultCounted, PartsAreThings DEF AnswerGone, history, In, CallFits, RestTyped,
                                               RestTyped, RestElsewhere
  <2> QED
    BY <2>1, <2>2, <2>3 DEF FabricTypeOK, CallRecord, CallsTyped, ThingsTyped, RestTyped,
                            Elsewhere
<1>36. CASE RequestFails(p)
  <2>1. CallsTyped' /\ CallsElsewhere(p)
    BY <1>36, ThingShapes, TurnMoves, ReturnMoves, BeginMoves
       DEF RequestFails, Stages, In, Is, CallFits, RulesIn, CallsTyped, CallsTyped,
           CallsElsewhere
  <2>2. ThingsTyped' /\ ThingsElsewhere(p)
    BY <1>36, ThingShapes DEF RequestFails, things, CallFits, In, Subject, Is, Removing,
                              Unpeering, ThingsTyped, ThingsTyped, ThingsElsewhere
  <2>3. RestTyped' /\ RestElsewhere(p)
    BY <1>36, FaultCounted, PartsAreThings DEF RequestFails, history, In, CallFits,
                                               RestTyped, RestTyped, RestElsewhere
  <2> QED
    BY <2>1, <2>2, <2>3 DEF FabricTypeOK, CallRecord, CallsTyped, ThingsTyped, RestTyped,
                            Elsewhere
<1> QED
  BY <1>1, <1>2, <1>3, <1>4, <1>5, <1>6, <1>7, <1>8, <1>9, <1>10, <1>11, <1>12, <1>13,
     <1>14, <1>15, <1>16, <1>17, <1>18, <1>19, <1>20, <1>21, <1>22, <1>23, <1>24, <1>25,
     <1>26, <1>27, <1>28, <1>29, <1>30, <1>31, <1>32, <1>33, <1>34, <1>35, <1>36 DEF Changes

\* Allocation ends the call or goes on with an address.
LEMMA AllocateMoves ==
    ASSUME FabricTypeOK, NEW p \in Projects, Allocate(p)
    PROVE  /\ \/ call'[p].at = "idle"
              \/ call'[p].at = "forward" /\ call'[p].thing = call[p].thing /\ call'[p].address \in Addresses
           /\ call[p].at = "address"
           /\ UNCHANGED <<project, expired, has, acls, forwards, attached, promised, asked, faults>>
<1>1. call \in [Projects -> CallRecord]
  BY DEF FabricTypeOK, CallRecord
<1>2. CASE Return(p)
  BY <1>2, ReturnMoves DEF Allocate, In, things, history
<1>3. CASE ~Return(p)
  <2>1. PICK a \in Addresses : call' = [call EXCEPT ![p].at = "forward", ![p].address = a]
    BY <1>3, AllocatedIsFree
  <2> QED
    BY <1>1, <2>1 DEF CallRecord, Allocate, In, things, history
<1> QED
  BY <1>2, <1>3

LEMMA CallsKept ==
    ASSUME FabricInv, NEW p \in Projects, Changes(p)
    PROVE  CallFits(p)' /\ Served(p)'
<1> FabricTypeOK /\ CallFits(p) /\ Served(p)
  BY DEF FabricInv
<1> CallsTyped /\ ThingsTyped /\ RestTyped
  BY DEF FabricTypeOK, CallsTyped, CallRecord, ThingsTyped, RestTyped
<1>1. CASE CreateOVNSandbox(p)
  <2>1. Is(<<"network", Main, "nat">>, "network")
    BY ThingShapes, MainExists DEF Settings
  <2>2. Ask(p, <<"network", Main, "nat">>, "project")
    BY <1>1 DEF CreateOVNSandbox
  <2>3. call'[p].at = "project" /\ call'[p].thing = <<"network", Main, "nat">>
    BY <2>1, <2>2, AskMoves DEF Is, Stages
  <2> QED
    BY <1>1, <2>1, <2>2, <2>3 DEF CreateOVNSandbox, Ask, Serves, In, CallFits, Served,
                                  Emptying, Teardown, Removing, Unpeering, Forwarding,
                                  CallsTyped, RestTyped
<1>2. CASE CreateOVNProject(p)
  <2>1. call'[p].at = "existing" /\ call'[p].thing = call[p].thing /\ call[p].at = "project"
    BY <1>2, TurnMoves DEF CreateOVNProject, In, Stages
  <2>2. p \notin expired /\ p \in project' /\ p \notin expired'
    BY <1>2, <2>1 DEF CreateOVNProject, FabricInv, Served
  <2> QED
    BY <2>1, <2>2 DEF CallFits, Served, Emptying, Teardown, Removing, Unpeering, Forwarding,
                      CallsTyped, RestTyped, Stages
<1>3. CASE MatchingOVNNetwork(p)
  BY <1>3, TurnMoves, ReturnMoves, ThingShapes DEF MatchingOVNNetwork, things, history, In,
                                                   CallFits, Served, Is, Stages, Emptying,
                                                   Teardown, Removing, Unpeering,
                                                   Forwarding, CallsTyped, RestTyped
<1>4. CASE EnsureBaselineACL(p)
  BY <1>4, TurnMoves, ThingShapes DEF EnsureBaselineACL, things, history, In, CallFits,
                                      Served, Is, Stages, Emptying, Teardown, Removing,
                                      Unpeering, Forwarding, CallsTyped, RestTyped
<1>5. CASE EnsureAgentACL(p)
  BY <1>5, TurnMoves, ThingShapes DEF EnsureAgentACL, things, history, In, CallFits, Served,
                                      Is, Stages, Emptying, Teardown, Removing, Unpeering,
                                      Forwarding, CallsTyped, RestTyped
<1>6. CASE PutNetwork(p)
  BY <1>6, PutMoves, ThingShapes DEF PutNetwork, Put, In, CallFits, Served, Is, Stages,
                                     Emptying, Teardown, Removing, Unpeering, Forwarding,
                                     CallsTyped, RestTyped
<1>7. ASSUME NEW n \in Networks, NEW s \in Settings, CreateOVNNetwork(p, n, s)
      PROVE CallFits(p)' /\ Served(p)'
  BY <1>7, AskMoves, ThingShapes DEF CreateOVNNetwork, Serves, In, CallFits, Served, Is,
                                     Stages, Emptying, Teardown, Removing, Unpeering,
                                     Forwarding, CallsTyped, RestTyped
<1>8. ASSUME NEW n \in Networks, NEW action \in {"allow", "drop"}, NEW dst \in {"outside", "protected"}, AddACLRule(p, n, action, dst)
      PROVE CallFits(p)' /\ Served(p)'
  <2>1. PICK id \in RuleIDs : Ask(p, <<"rule", n, id, action, dst>>, "baseline")
    BY <1>8 DEF AddACLRule
  <2>2. Is(<<"rule", n, id, action, dst>>, "rule")
    BY ThingShapes
  <2>3. call'[p].at = "baseline" /\ call'[p].thing = <<"rule", n, id, action, dst>>
    BY <2>1, <2>2, AskMoves DEF Is, Stages
  <2> QED
    BY <1>8, <2>1, <2>2, <2>3 DEF AddACLRule, Ask, Serves, In, CallFits, Served, Emptying,
                                  Teardown, Removing, Unpeering, Forwarding, CallsTyped,
                                  RestTyped
<1>9. ASSUME NEW n \in Networks, NEW m \in Networks, PeerNetworks(p, n, m)
      PROVE CallFits(p)' /\ Served(p)'
  BY <1>9, AskMoves, ThingShapes DEF PeerNetworks, Serves, In, CallFits, Served, Is, Stages,
                                     Emptying, Teardown, Removing, Unpeering, Forwarding,
                                     CallsTyped, RestTyped
<1>10. ASSUME NEW n \in Networks, NEW x \in Ports, NEW t \in Targets, CreateForward(p, n, x, t)
       PROVE CallFits(p)' /\ Served(p)'
  BY <1>10, AskMoves, ThingShapes DEF CreateForward, Serves, In, CallFits, Served, Is,
                                      Stages, Emptying, Teardown, Removing, Unpeering,
                                      Forwarding, CallsTyped, RestTyped
<1>11. ASSUME NEW n \in Networks, AttachOVN(p, n) PROVE CallFits(p)' /\ Served(p)'
  BY <1>11, ThingShapes DEF AttachOVN, things, history, In, CallFits, Served, Is, Stages,
                            Emptying, Teardown, Removing, Unpeering, Forwarding, CallsTyped,
                            RestTyped
<1>12. ASSUME NEW n \in Networks, DetachOVN(p, n) PROVE CallFits(p)' /\ Served(p)'
  BY <1>12, ThingShapes DEF DetachOVN, things, history, In, CallFits, Served, Is, Stages,
                            Emptying, Teardown, Removing, Unpeering, Forwarding, CallsTyped,
                            RestTyped
<1>13. ASSUME NEW n \in Networks, DeleteOVNNetwork(p, n) PROVE CallFits(p)' /\ Served(p)'
  <2>1. PICK s \in Settings :
           call' = [call EXCEPT ![p] = [Resting EXCEPT !.at = "unforward", !.thing = <<"network", n, s>>]]
    BY <1>13 DEF DeleteOVNNetwork
  <2>2. Is(<<"network", n, s>>, "network")
    BY ThingShapes
  <2>3. call'[p].at = "unforward" /\ call'[p].thing = <<"network", n, s>>
    BY <2>1, <2>2, BeginMoves DEF Is, Stages
  <2>4. p \in project' \ expired'
    BY <1>13 DEF DeleteOVNNetwork, Serves
  <2> QED
    BY <2>2, <2>3, <2>4 DEF CallFits, Served, Emptying, Teardown, Removing, Unpeering,
                            Forwarding, CallsTyped, RestTyped
<1>14. ASSUME NEW t \in RulesIn(p), RemoveACLRule(p, t) PROVE CallFits(p)' /\ Served(p)'
  <2>1. Is(t, "rule")
    BY DEF RulesIn, ThingsTyped, Is
  <2>2. call' = [call EXCEPT ![p] = [Resting EXCEPT !.at = "unrule", !.thing = t]]
    BY <1>14 DEF RemoveACLRule
  <2>3. call'[p].at = "unrule" /\ call'[p].thing = t
    BY <2>1, <2>2, BeginMoves DEF Is, Stages
  <2>4. p \in project' \ expired'
    BY <1>14 DEF RemoveACLRule, Serves
  <2> QED
    BY <2>1, <2>3, <2>4 DEF CallFits, Served, Emptying, Teardown, Removing, Unpeering,
                            Forwarding, CallsTyped, RestTyped
<1>15. CASE PutRule(p)
  BY <1>15, PutMoves, ThingShapes DEF PutRule, Put, In, CallFits, Served, Is, Stages,
                                      Emptying, Teardown, Removing, Unpeering, Forwarding,
                                      CallsTyped, RestTyped
<1>16. CASE FilterACLRules(p)
  BY <1>16, TurnMoves, ThingShapes DEF FilterACLRules, things, history, In, CallFits,
                                       Served, Is, Stages, Emptying, Teardown, Removing,
                                       Unpeering, Forwarding, CallsTyped, RestTyped
<1>17. CASE EnsureLeftPeer(p)
  <2>1. call[p].at = "left"
    BY <1>17 DEF EnsureLeftPeer, Put, In
  <2>2. call[p].thing \in Things /\ Is(call[p].thing, "peer")
    BY <2>1, ThingShapes DEF CallFits, Is, Subject
  <2>3. Put(p, "left", "right", call[p].thing) /\ "right" \in Stages
    BY <1>17 DEF EnsureLeftPeer, Stages
  <2>4. call'[p].at = "right" /\ call'[p].thing = call[p].thing
    BY <2>2, <2>3, TurnMoves DEF Put
  <2>5. UNCHANGED <<project, expired, promised>>
    BY <2>3 DEF Put, history
  <2> QED
    BY <2>1, <2>2, <2>4, <2>5 DEF CallFits, Served, Is, Emptying, Teardown, Removing,
                                  Unpeering, Forwarding
<1>18. CASE EnsureRightPeer(p)
  <2>1. call[p].at = "right"
    BY <1>18 DEF EnsureRightPeer, Put, In
  <2>2. <<"peer", call[p].thing[3], Subject(p)>> \in Things /\ Is(call[p].thing, "peer")
    BY <2>1, ThingShapes DEF CallFits, Is, Subject
  <2>3. Put(p, "right", "answer", <<"peer", call[p].thing[3], Subject(p)>>) /\ "answer" \in Stages
    BY <1>18 DEF EnsureRightPeer, Stages
  <2>4. call'[p].at = "answer" /\ call'[p].thing = call[p].thing
    BY <2>2, <2>3, TurnMoves DEF Put
  <2>5. UNCHANGED <<project, expired, promised>>
    BY <2>3 DEF Put, history
  <2> QED
    BY <2>1, <2>2, <2>4, <2>5 DEF CallFits, Served, Is, Emptying, Teardown, Removing,
                                  Unpeering, Forwarding
<1>19. CASE ReadForwards(p)
  BY <1>19, TurnMoves, ThingShapes DEF ReadForwards, things, history, In, CallFits, Served,
                                       Is, Stages, Emptying, Teardown, Removing, Unpeering,
                                       Forwarding, CallsTyped, RestTyped
<1>20. CASE AddForwardPort(p)
  BY <1>20, TurnMoves, ReturnMoves, ThingShapes DEF AddForwardPort, things, history, In,
                                                    CallFits, Served, Is, Stages, Emptying,
                                                    Teardown, Removing, Unpeering,
                                                    Forwarding, CallsTyped, RestTyped
<1>21. CASE Allocate(p)
  BY <1>21, AllocateMoves DEF CallFits, Served, Is, Emptying, Teardown, Removing, Unpeering,
                              Forwarding
<1>22. CASE CreateAllocatedForward(p)
  BY <1>22, TurnMoves, ReturnMoves, MakeMoves, ThingShapes DEF CreateAllocatedForward,
                                                               things, history, In,
                                                               CallFits, Served, Is, Stages,
                                                               Emptying, Teardown, Removing,
                                                               Unpeering, Forwarding,
                                                               CallsTyped, RestTyped
<1>23. CASE Retry(p)
  BY <1>23, TurnMoves, ReturnMoves, ThingShapes DEF Retry, things, history, In, CallFits,
                                                    Served, Is, Stages, Emptying, Teardown,
                                                    Removing, Unpeering, Forwarding,
                                                    CallsTyped, RestTyped
<1>24. CASE DeleteForwards(p)
  BY <1>24, TurnMoves, ReturnMoves, UnforwardedMoves, ThingShapes
     DEF DeleteForwards, things, history, In, CallFits, Served, Is, Stages, Emptying,
         Teardown, Removing, Unpeering, Forwarding, CallsTyped, RestTyped
<1>25. CASE DeletePeers(p)
  BY <1>25, TurnMoves, ReturnMoves, UnforwardedMoves, ThingShapes
     DEF DeletePeers, things, history, In, CallFits, Served, Is, Stages, Emptying, Teardown,
         Removing, Unpeering, Forwarding, CallsTyped, RestTyped
<1>26. CASE Drop(p)
  BY <1>26, TurnMoves, ReturnMoves, ThingShapes DEF Drop, things, history, In, CallFits,
                                                    Served, Is, Stages, Emptying, Teardown,
                                                    Removing, Unpeering, Forwarding,
                                                    CallsTyped, RestTyped
<1>27. CASE DropACL(p)
  BY <1>27, TurnMoves, ThingShapes DEF DropACL, things, history, In, CallFits, Served, Is,
                                       Stages, Emptying, Teardown, Removing, Unpeering,
                                       Forwarding, CallsTyped, RestTyped
<1>28. CASE DeleteOVNSandbox(p)
  BY <1>28, TurnMoves, ThingShapes DEF DeleteOVNSandbox, things, history, In, CallFits,
                                       Served, Is, Stages, Emptying, Teardown, Removing,
                                       Unpeering, Forwarding, CallsTyped, RestTyped
<1>29. CASE UnforwardAll(p)
  BY <1>29, TurnMoves, ReturnMoves, UnforwardedMoves, ThingShapes
     DEF UnforwardAll, things, history, In, CallFits, Served, Is, Stages, Emptying,
         Teardown, Removing, Unpeering, Forwarding, CallsTyped, RestTyped
<1>30. CASE EmptyProject(p)
  BY <1>30, TurnMoves, ReturnMoves, ThingShapes DEF EmptyProject, things, history, In,
                                                    CallFits, Served, Is, Stages, Emptying,
                                                    Teardown, Removing, Unpeering,
                                                    Forwarding, CallsTyped, RestTyped
<1>31. CASE DropNetworks(p)
  BY <1>31, TurnMoves, ReturnMoves, DroppedMoves, ThingShapes
     DEF DropNetworks, things, history, In, CallFits, Served, Is, Stages, Emptying,
         Teardown, Removing, Unpeering, Forwarding, CallsTyped, RestTyped
<1>32. CASE Remaining(p)
  BY <1>32, TurnMoves, ReturnMoves, ThingShapes DEF Remaining, things, history, In,
                                                    CallFits, Served, Is, Stages, Emptying,
                                                    Teardown, Removing, Unpeering,
                                                    Forwarding, CallsTyped, RestTyped
<1>33. CASE DeleteOVNProject(p)
  BY <1>33, ReturnMoves, DroppedMoves, ThingShapes DEF DeleteOVNProject, things, history,
                                                       In, CallFits, Served, Is, Stages,
                                                       Emptying, Teardown, Removing,
                                                       Unpeering, Forwarding, CallsTyped,
                                                       RestTyped
<1>34. CASE Answer(p)
  BY <1>34, ReturnMoves, ThingShapes DEF Answer, things, history, In, CallFits, Served, Is,
                                         Stages, Emptying, Teardown, Removing, Unpeering,
                                         Forwarding, CallsTyped, RestTyped
<1>35. CASE AnswerGone(p)
  BY <1>35, ReturnMoves, ThingShapes DEF AnswerGone, things, history, In, CallFits, Served,
                                         Is, Stages, Emptying, Teardown, Removing,
                                         Unpeering, Forwarding, CallsTyped, RestTyped
<1>36. CASE RequestFails(p)
  BY <1>36, ReturnMoves, ThingShapes DEF RequestFails, things, history, In, CallFits,
                                         Served, Is, Stages, Emptying, Teardown, Removing,
                                         Unpeering, Forwarding, CallsTyped, RestTyped
<1> QED
  BY <1>1, <1>2, <1>3, <1>4, <1>5, <1>6, <1>7, <1>8, <1>9, <1>10, <1>11, <1>12, <1>13,
     <1>14, <1>15, <1>16, <1>17, <1>18, <1>19, <1>20, <1>21, <1>22, <1>23, <1>24, <1>25,
     <1>26, <1>27, <1>28, <1>29, <1>30, <1>31, <1>32, <1>33, <1>34, <1>35, <1>36 DEF Changes

\* A call that ends, wherever, with nothing done.
LEMMA EndsKept ==
    ASSUME FabricInv, NEW p \in Projects, 
           call'[p].at = "idle", has'[p] = has[p], acls'[p] = acls[p], forwards'[p] = forwards[p],
           promised'[p] \subseteq promised[p], asked'[p] = asked[p]
    PROVE  Kept(p)'
<1> FabricTypeOK /\ CallFits(p) /\ Served(p) /\ Kept(p)
  BY DEF FabricInv, Kept
<1>1. ScreenedOf(p)'
  BY DEF Kept, ScreenedOf, NetworkIn
<1>2. ForwardedOf(p)'
  BY DEF Kept, ForwardedOf, Unpeering, Forwarding, Emptying
<1>3. PromisedOf(p)'
  BY DEF Kept, PromisedOf, Removing, Unpeering
<1>4. AskedOf(p)'
  BY DEF Kept, AskedOf, NetworkIn, Forwarding, Emptying
<1> QED
  BY <1>1, <1>2, <1>3, <1>4 DEF Kept

\* A call that begins.
LEMMA BeginsKept ==
    ASSUME FabricInv, NEW p \in Projects, NEW t \in Things,
           NEW place \in {"project", "existing", "baseline", "left", "forwards"}, Ask(p, t, place),
           place = "forwards" => <<"network", NetworkOf(t), "nat">> \in has[p],
           place = "left" => NetworkIn(p, NetworkOf(t)) /\ NetworkIn(p, t[3])
    PROVE  Kept(p)'
<1> FabricTypeOK /\ CallFits(p) /\ Served(p) /\ Kept(p)
  BY DEF FabricInv, Kept
<1>1. /\ call'[p].at = place /\ call'[p].thing = t
      /\ asked'[p] = asked[p] \cup Parts(t)
  BY AskMoves DEF Stages
<1>2. has'[p] = has[p] /\ acls'[p] = acls[p] /\ forwards'[p] = forwards[p] /\ promised'[p] = promised[p]
  BY DEF Ask, things
<1>3. ScreenedOf(p)'
  BY <1>1, <1>2 DEF Kept, ScreenedOf, NetworkIn
<1>4. ForwardedOf(p)'
  BY <1>1, <1>2 DEF Kept, ForwardedOf, Subject, Unpeering, Forwarding, Emptying
<1>5. PromisedOf(p)'
  BY <1>1, <1>2 DEF Kept, PromisedOf, Removing, Unpeering
<1>6. AskedOf(p)'
  BY <1>1, <1>2 DEF Kept, AskedOf, NetworkIn, Subject, Forwarding, Emptying
<1> QED
  BY <1>3, <1>4, <1>5, <1>6 DEF Kept

LEMMA ProjectKept == ASSUME FabricInv, NEW p \in Projects, CreateOVNProject(p) PROVE Kept(p)'
<1> FabricTypeOK /\ CallFits(p) /\ Served(p) /\ Kept(p)
  BY DEF FabricInv, Kept
<1>1. call[p].at = "project" /\ call'[p].at = "existing" /\ call'[p].thing = call[p].thing
  BY TurnMoves DEF CreateOVNProject, In, Stages
<1>2. has'[p] = has[p] /\ acls'[p] = acls[p] /\ forwards'[p] = forwards[p]
  BY DEF CreateOVNProject, things
<1>3. promised'[p] = promised[p] /\ asked'[p] = asked[p]
  BY DEF CreateOVNProject, history
<1>4. ScreenedOf(p)'
  BY <1>1, <1>2, <1>3 DEF Kept, ScreenedOf, NetworkIn
<1>5. ForwardedOf(p)'
  BY <1>1, <1>2, <1>3 DEF Kept, ForwardedOf, Subject, Unpeering, Forwarding, Emptying
<1>6. PromisedOf(p)'
  BY <1>1, <1>2, <1>3 DEF Kept, PromisedOf, Removing, Unpeering
<1>7. AskedOf(p)'
  BY <1>1, <1>2, <1>3 DEF Kept, AskedOf, NetworkIn, Subject, Forwarding, Emptying
<1> QED
  BY <1>4, <1>5, <1>6, <1>7 DEF Kept

LEMMA MatchingKept ==
    ASSUME FabricInv, NEW p \in Projects, MatchingOVNNetwork(p), ~Return(p)
    PROVE  Kept(p)'
<1> FabricTypeOK /\ CallFits(p) /\ Served(p) /\ Kept(p)
  BY DEF FabricInv, Kept
<1>1. call[p].at = "existing" /\ (Turn(p, "baseline") \/ (call[p].thing \in has[p] /\ Turn(p, "answer")))
  BY DEF MatchingOVNNetwork, In
<1>2. /\ call'[p].thing = call[p].thing
      /\ call'[p].at = "baseline" \/ (call'[p].at = "answer" /\ call[p].thing \in has[p])
  BY <1>1, TurnMoves DEF Stages
<1>3. Kind(call[p].thing) = "network"
  BY <1>1 DEF CallFits, Is
<1>4. has'[p] = has[p] /\ acls'[p] = acls[p] /\ forwards'[p] = forwards[p]
  BY DEF MatchingOVNNetwork, things
<1>5. promised'[p] = promised[p] /\ asked'[p] = asked[p]
  BY DEF MatchingOVNNetwork, history
<1>6. ScreenedOf(p)'
  BY <1>1, <1>2, <1>3, <1>4, <1>5 DEF Kept, ScreenedOf, NetworkIn
<1>7. ForwardedOf(p)'
  BY <1>1, <1>2, <1>3, <1>4, <1>5 DEF Kept, ForwardedOf, Unpeering, Forwarding, Emptying
<1>8. PromisedOf(p)'
  BY <1>1, <1>2, <1>3, <1>4, <1>5 DEF Kept, PromisedOf, Parts, Removing, Unpeering
<1>9. AskedOf(p)'
  BY <1>1, <1>2, <1>3, <1>4, <1>5 DEF Kept, AskedOf, NetworkIn, Forwarding, Emptying
<1> QED
  BY <1>6, <1>7, <1>8, <1>9 DEF Kept

LEMMA BaselineKept == ASSUME FabricInv, NEW p \in Projects, EnsureBaselineACL(p) PROVE Kept(p)'
<1> FabricTypeOK /\ CallFits(p) /\ Served(p) /\ Kept(p)
  BY DEF FabricInv, Kept
<1>1. call[p].at = "baseline" /\ call'[p].at = "agent" /\ call'[p].thing = call[p].thing
  BY TurnMoves DEF EnsureBaselineACL, In, Stages
<1>2. has'[p] = has[p] /\ acls'[p] = acls[p] \cup {Baseline} /\ forwards'[p] = forwards[p]
  BY DEF EnsureBaselineACL, FabricTypeOK
<1>3. promised'[p] = promised[p] /\ asked'[p] = asked[p]
  BY DEF EnsureBaselineACL, history
<1>4. ScreenedOf(p)'
  BY <1>1, <1>2, <1>3 DEF Kept, ScreenedOf, NetworkIn
<1>5. ForwardedOf(p)'
  BY <1>1, <1>2, <1>3 DEF Kept, ForwardedOf, Unpeering, Forwarding, Emptying
<1>6. PromisedOf(p)'
  BY <1>1, <1>2, <1>3 DEF Kept, PromisedOf, Removing, Unpeering
<1>7. AskedOf(p)'
  BY <1>1, <1>2, <1>3 DEF Kept, AskedOf, NetworkIn, Forwarding, Emptying
<1> QED
  BY <1>4, <1>5, <1>6, <1>7 DEF Kept

LEMMA AgentKept == ASSUME FabricInv, NEW p \in Projects, EnsureAgentACL(p) PROVE Kept(p)'
<1> FabricTypeOK /\ CallFits(p) /\ Served(p) /\ Kept(p)
  BY DEF FabricInv, Kept
<1>1. call[p].at = "agent" /\ Kind(call[p].thing) \in {"network", "rule"}
  BY DEF EnsureAgentACL, In, CallFits, Is
<1>2. call'[p].at = Kind(call[p].thing) /\ call'[p].thing = call[p].thing
  BY <1>1, TurnMoves DEF EnsureAgentACL, Stages
<1>3. has'[p] = has[p] /\ acls'[p] = acls[p] \cup {Subject(p)} /\ forwards'[p] = forwards[p]
  BY DEF EnsureAgentACL, FabricTypeOK
<1>4. promised'[p] = promised[p] /\ asked'[p] = asked[p]
  BY DEF EnsureAgentACL, history
<1>5. ScreenedOf(p)'
  BY <1>1, <1>2, <1>3, <1>4 DEF Kept, ScreenedOf, NetworkIn, Subject
<1>6. ForwardedOf(p)'
  BY <1>1, <1>2, <1>3, <1>4 DEF Kept, ForwardedOf, Unpeering, Forwarding, Emptying
<1>7. PromisedOf(p)'
  BY <1>1, <1>2, <1>3, <1>4 DEF Kept, PromisedOf, Removing, Unpeering
<1>8. AskedOf(p)'
  BY <1>1, <1>2, <1>3, <1>4 DEF Kept, AskedOf, NetworkIn, Forwarding, Emptying
<1> QED
  BY <1>5, <1>6, <1>7, <1>8 DEF Kept

LEMMA PutNetworkKept == ASSUME FabricInv, NEW p \in Projects, PutNetwork(p) PROVE Kept(p)'
<1> FabricTypeOK /\ CallFits(p) /\ Served(p) /\ Kept(p)
  BY DEF FabricInv, Kept
<1>1. Put(p, "network", "answer", call[p].thing) /\ call[p].at = "network"
  BY DEF PutNetwork, Put, In
<1>2. call[p].thing \in Things
  BY <1>1 DEF CallFits, Is, Forwarding
<1>3. call'[p].at = "answer" /\ call'[p].thing = call[p].thing
  BY <1>1, TurnMoves DEF Put, Stages
<1>4. /\ has'[p] = has[p] \cup {call[p].thing}
      /\ acls'[p] = acls[p] /\ forwards'[p] = forwards[p]
  BY <1>1 DEF Put, FabricTypeOK
<1>5. promised'[p] = promised[p] /\ asked'[p] = asked[p]
  BY <1>1 DEF Put, history
<1>6. PICK s \in Settings : call[p].thing = <<"network", Subject(p), s>>
  BY <1>1, ThingShapes DEF CallFits, Is, Subject
<1>7. ScreenedOf(p)'
  BY <1>1, <1>2, <1>3, <1>4, <1>5, <1>6 DEF Kept, ScreenedOf, NetworkIn, Subject, Kind
<1>8. ForwardedOf(p)'
  BY <1>1, <1>2, <1>3, <1>4, <1>5, <1>6 DEF Kept, ForwardedOf, Kind, Unpeering, Forwarding,
                                            Emptying
<1>9. PromisedOf(p)'
  BY <1>1, <1>2, <1>3, <1>4, <1>5, <1>6 DEF Kept, PromisedOf, Parts, Kind, Removing,
                                            Unpeering
<1>10. AskedOf(p)'
  BY <1>1, <1>2, <1>3, <1>4, <1>5, <1>6 DEF Kept, AskedOf, NetworkIn, Parts, Kind,
                                            Forwarding, Emptying
<1> QED
  BY <1>7, <1>8, <1>9, <1>10 DEF Kept

LEMMA PutRuleKept == ASSUME FabricInv, NEW p \in Projects, PutRule(p) PROVE Kept(p)'
<1> FabricTypeOK /\ CallFits(p) /\ Served(p) /\ Kept(p)
  BY DEF FabricInv, Kept
<1>1. Put(p, "rule", "answer", call[p].thing) /\ call[p].at = "rule"
  BY DEF PutRule, Put, In
<1>2. call[p].thing \in Things
  BY <1>1 DEF CallFits, Is, Forwarding
<1>3. call'[p].at = "answer" /\ call'[p].thing = call[p].thing
  BY <1>1, TurnMoves DEF Put, Stages
<1>4. /\ has'[p] = has[p] \cup {call[p].thing}
      /\ acls'[p] = acls[p] /\ forwards'[p] = forwards[p]
  BY <1>1 DEF Put, FabricTypeOK
<1>5. promised'[p] = promised[p] /\ asked'[p] = asked[p]
  BY <1>1 DEF Put, history
<1>6. Kind(call[p].thing) = "rule"
  BY <1>1 DEF CallFits, Is
<1>7. ScreenedOf(p)'
  BY <1>1, <1>2, <1>3, <1>4, <1>5, <1>6 DEF Kept, ScreenedOf, NetworkIn, Kind
<1>8. ForwardedOf(p)'
  BY <1>1, <1>2, <1>3, <1>4, <1>5, <1>6 DEF Kept, ForwardedOf, Kind, Unpeering, Forwarding,
                                            Emptying
<1>9. PromisedOf(p)'
  BY <1>1, <1>2, <1>3, <1>4, <1>5, <1>6 DEF Kept, PromisedOf, Parts, Removing, Unpeering
<1>10. AskedOf(p)'
  BY <1>1, <1>2, <1>3, <1>4, <1>5, <1>6 DEF Kept, AskedOf, NetworkIn, Parts, Forwarding,
                                            Emptying
<1> QED
  BY <1>7, <1>8, <1>9, <1>10 DEF Kept

LEMMA LeftPeerKept == ASSUME FabricInv, NEW p \in Projects, EnsureLeftPeer(p) PROVE Kept(p)'
<1> FabricTypeOK /\ CallFits(p) /\ Served(p) /\ Kept(p)
  BY DEF FabricInv, Kept
<1>1. Put(p, "left", "right", call[p].thing) /\ call[p].at = "left"
  BY DEF EnsureLeftPeer, Put, In
<1>2. call[p].thing \in Things
  BY <1>1 DEF CallFits, Is, Forwarding
<1>3. call'[p].at = "right" /\ call'[p].thing = call[p].thing
  BY <1>1, TurnMoves DEF Put, Stages
<1>4. /\ has'[p] = has[p] \cup {call[p].thing}
      /\ acls'[p] = acls[p] /\ forwards'[p] = forwards[p]
  BY <1>1 DEF Put, FabricTypeOK
<1>5. promised'[p] = promised[p] /\ asked'[p] = asked[p]
  BY <1>1 DEF Put, history
<1>6. Kind(call[p].thing) = "peer" /\ call[p].thing \in Parts(call[p].thing)
  BY <1>1 DEF CallFits, Is, Parts
<1>7. ScreenedOf(p)'
  BY <1>1, <1>2, <1>3, <1>4, <1>5, <1>6 DEF Kept, ScreenedOf, NetworkIn, Kind
<1>8. ForwardedOf(p)'
  BY <1>1, <1>2, <1>3, <1>4, <1>5, <1>6 DEF Kept, ForwardedOf, Kind, Unpeering, Forwarding,
                                            Emptying
<1>9. PromisedOf(p)'
  BY <1>1, <1>2, <1>3, <1>4, <1>5, <1>6 DEF Kept, PromisedOf, Removing, Unpeering
<1>10. AskedOf(p)'
  BY <1>1, <1>2, <1>3, <1>4, <1>5, <1>6 DEF Kept, AskedOf, NetworkIn, Subject, Forwarding,
                                            Emptying
<1> QED
  BY <1>7, <1>8, <1>9, <1>10 DEF Kept

LEMMA RightPeerKept == ASSUME FabricInv, NEW p \in Projects, EnsureRightPeer(p) PROVE Kept(p)'
<1> FabricTypeOK /\ CallFits(p) /\ Served(p) /\ Kept(p)
  BY DEF FabricInv, Kept
<1>1. Put(p, "right", "answer", <<"peer", call[p].thing[3], Subject(p)>>) /\ call[p].at = "right"
  BY DEF EnsureRightPeer, Put, In
<1>2. call[p].thing \in Things
  BY <1>1 DEF CallFits, Is, Forwarding
<1>3. call'[p].at = "answer" /\ call'[p].thing = call[p].thing
  BY <1>1, TurnMoves DEF Put, Stages
<1>4. /\ has'[p] = has[p] \cup {<<"peer", call[p].thing[3], Subject(p)>>}
      /\ acls'[p] = acls[p] /\ forwards'[p] = forwards[p]
  BY <1>1 DEF Put, FabricTypeOK
<1>5. promised'[p] = promised[p] /\ asked'[p] = asked[p]
  BY <1>1 DEF Put, history
<1>6. Kind(call[p].thing) = "peer"
  BY <1>1 DEF CallFits, Is
<1>7. Parts(call[p].thing) = {call[p].thing, <<"peer", call[p].thing[3], Subject(p)>>}
  BY <1>6 DEF Parts, Subject, NetworkOf
<1>8. ScreenedOf(p)'
  BY <1>1, <1>2, <1>3, <1>4, <1>5, <1>6, <1>7 DEF Kept, ScreenedOf, NetworkIn, Kind
<1>9. ForwardedOf(p)'
  BY <1>1, <1>2, <1>3, <1>4, <1>5, <1>6, <1>7 DEF Kept, ForwardedOf, Kind, Unpeering,
                                                  Forwarding, Emptying
<1>10. PromisedOf(p)'
  BY <1>1, <1>2, <1>3, <1>4, <1>5, <1>6, <1>7 DEF Kept, PromisedOf, Removing, Unpeering
<1>11. AskedOf(p)'
  BY <1>1, <1>2, <1>3, <1>4, <1>5, <1>6, <1>7 DEF Kept, AskedOf, NetworkIn, Kind, NetworkOf,
                                                  Forwarding, Emptying
<1> QED
  BY <1>8, <1>9, <1>10, <1>11 DEF Kept

LEMMA FilterKept == ASSUME FabricInv, NEW p \in Projects, FilterACLRules(p) PROVE Kept(p)'
<1> FabricTypeOK /\ CallFits(p) /\ Served(p) /\ Kept(p)
  BY DEF FabricInv, Kept
<1>1. call[p].at = "unrule" /\ call'[p].at = "gone" /\ call'[p].thing = call[p].thing
  BY TurnMoves DEF FilterACLRules, In, Stages
<1>2. Kind(call[p].thing) = "rule"
  BY <1>1 DEF CallFits, Is
<1>3. has'[p] = has[p] \ {call[p].thing} /\ acls'[p] = acls[p] /\ forwards'[p] = forwards[p]
  BY DEF FilterACLRules, FabricTypeOK
<1>4. promised'[p] = promised[p] /\ asked'[p] = asked[p]
  BY DEF FilterACLRules, history
<1>5. ScreenedOf(p)'
  BY <1>1, <1>2, <1>3, <1>4 DEF Kept, ScreenedOf, NetworkIn
<1>6. ForwardedOf(p)'
  BY <1>1, <1>2, <1>3, <1>4 DEF Kept, ForwardedOf, Kind, Unpeering, Forwarding, Emptying
<1>7. PromisedOf(p)'
  BY <1>1, <1>2, <1>3, <1>4 DEF Kept, PromisedOf, Removing, Unpeering
<1>8. AskedOf(p)'
  BY <1>1, <1>2, <1>3, <1>4 DEF Kept, AskedOf, NetworkIn, Kind, Forwarding, Emptying
<1> QED
  BY <1>5, <1>6, <1>7, <1>8 DEF Kept

LEMMA ReadForwardsKept == ASSUME FabricInv, NEW p \in Projects, ReadForwards(p) PROVE Kept(p)'
<1> FabricTypeOK /\ CallFits(p) /\ Served(p) /\ Kept(p)
  BY DEF FabricInv, Kept
<1>1. call[p].at = "forwards" /\ call'[p].thing = call[p].thing
  BY TurnMoves DEF ReadForwards, In, Stages
<1>2. \/ call'[p].at = "address" /\ \A f \in forwards[p] : f[1] # Subject(p)
      \/ call'[p].at = "port" /\ \E f \in forwards[p] : f[1] = Subject(p)
  BY TurnMoves DEF ReadForwards, Stages, ForwardsOn
<1>3. has'[p] = has[p] /\ acls'[p] = acls[p] /\ forwards'[p] = forwards[p]
  BY DEF ReadForwards, things
<1>4. promised'[p] = promised[p] /\ asked'[p] = asked[p]
  BY DEF ReadForwards, history
<1>5. ScreenedOf(p)'
  BY <1>1, <1>2, <1>3, <1>4 DEF Kept, ScreenedOf, NetworkIn
<1>6. ForwardedOf(p)'
  BY <1>1, <1>2, <1>3, <1>4 DEF Kept, ForwardedOf, Subject, Unpeering, Forwarding, Emptying
<1>7. PromisedOf(p)'
  BY <1>1, <1>2, <1>3, <1>4 DEF Kept, PromisedOf, Removing, Unpeering
<1>8. AskedOf(p)'
  BY <1>1, <1>2, <1>3, <1>4 DEF Kept, AskedOf, NetworkIn, Subject, Forwarding, Emptying
<1> QED
  BY <1>5, <1>6, <1>7, <1>8 DEF Kept

LEMMA AddPortKept ==
    ASSUME FabricInv, NEW p \in Projects, AddForwardPort(p), ~Return(p)
    PROVE  Kept(p)'
<1> FabricTypeOK /\ CallFits(p) /\ Served(p) /\ Kept(p)
  BY DEF FabricInv, Kept
<1>1. call[p].at = "port" /\ call'[p].at = "answer" /\ call'[p].thing = call[p].thing
  BY TurnMoves DEF AddForwardPort, In, Stages
<1>2. /\ has'[p] = has[p] \cup {call[p].thing}
      /\ acls'[p] = acls[p] /\ forwards'[p] = forwards[p]
  BY DEF AddForwardPort, FabricTypeOK
<1>3. promised'[p] = promised[p] /\ asked'[p] = asked[p]
  BY DEF AddForwardPort, history
<1>4. Kind(call[p].thing) = "port"
  BY <1>1 DEF CallFits, Is, Forwarding
<1>5. \A u \in has[p] : Kind(u) = "port" /\ u[2] = call[p].thing[2] => u[3] # call[p].thing[3]
  BY DEF AddForwardPort, PortsOn, Subject, NetworkOf
<1>6. ScreenedOf(p)'
  BY <1>1, <1>2, <1>3, <1>4, <1>5 DEF Kept, ScreenedOf, NetworkIn, Kind
<1>7. ForwardedOf(p)'
  BY <1>1, <1>2, <1>3, <1>4, <1>5 DEF Kept, ForwardedOf, Subject, NetworkOf, Unpeering,
                                      Forwarding, Emptying
<1>8. PromisedOf(p)'
  BY <1>1, <1>2, <1>3, <1>4, <1>5 DEF Kept, PromisedOf, Parts, Removing, Unpeering
<1>9. AskedOf(p)'
  BY <1>1, <1>2, <1>3, <1>4, <1>5 DEF Kept, AskedOf, NetworkIn, Parts, Forwarding, Emptying
<1> QED
  BY <1>6, <1>7, <1>8, <1>9 DEF Kept

LEMMA AllocateKept == ASSUME FabricInv, NEW p \in Projects, Allocate(p), ~Return(p) PROVE Kept(p)'
<1> FabricTypeOK /\ CallFits(p) /\ Served(p) /\ Kept(p)
  BY DEF FabricInv, Kept
<1>1. call'[p].at = "forward" \/ call'[p].at = "idle"
  BY AllocateMoves
<1>2. call[p].at = "address" /\ (call'[p].at = "forward" => call'[p].thing = call[p].thing /\ call'[p].address \in Addresses)
  BY AllocateMoves
<1>3. has'[p] = has[p] /\ acls'[p] = acls[p] /\ forwards'[p] = forwards[p] /\ promised'[p] = promised[p] /\ asked'[p] = asked[p]
  BY AllocateMoves
<1>4. ScreenedOf(p)'
  BY <1>1, <1>2, <1>3 DEF Kept, ScreenedOf, NetworkIn
<1>5. ForwardedOf(p)'
  BY <1>1, <1>2, <1>3 DEF Kept, ForwardedOf, Subject, Unpeering, Forwarding, Emptying
<1>6. PromisedOf(p)'
  BY <1>1, <1>2, <1>3 DEF Kept, PromisedOf, Removing, Unpeering
<1>7. AskedOf(p)'
  BY <1>1, <1>2, <1>3 DEF Kept, AskedOf, NetworkIn, Subject, Forwarding, Emptying
<1> QED
  BY <1>4, <1>5, <1>6, <1>7 DEF Kept

LEMMA ForwardKept ==
    ASSUME FabricInv, NEW p \in Projects, CreateAllocatedForward(p)
    PROVE  Kept(p)'
<1> FabricTypeOK /\ CallFits(p) /\ Served(p) /\ Kept(p)
  BY DEF FabricInv, Kept
<1>1. call[p].at = "forward" /\ call'[p].thing = call[p].thing
  BY TurnMoves DEF CreateAllocatedForward, In, Stages
<1>2. Kind(call[p].thing) = "port" /\ call[p].thing \in Things /\ call[p].address \in Addresses
  BY <1>1 DEF CallFits, Is, Forwarding, Kept, ForwardedOf
<1>3. acls'[p] = acls[p] /\ promised'[p] = promised[p] /\ asked'[p] = asked[p]
  BY DEF CreateAllocatedForward, history
<1>4. \/ call'[p].at = "race" /\ has'[p] = has[p] /\ forwards'[p] = forwards[p]
      \/ Make(p) /\ call'[p].at \in {"answer", "race"}
  BY TurnMoves DEF CreateAllocatedForward, Stages
<1>5. Make(p) => /\ has'[p] = has[p] \cup {call[p].thing}
                 /\ forwards'[p] = forwards[p] \cup {<<Subject(p), call[p].address>>}
  BY <1>2, MakeMoves
<1>6. \A n, s : Kind(<<"network", n, s>>) = "network"
  BY DEF Kind
<1>7. ScreenedOf(p)'
  <2>1. CASE has'[p] = has[p]
    BY <1>1, <1>2, <1>3, <1>4, <1>5, <1>6, <2>1 DEF Kept, ScreenedOf, NetworkIn,
                                                    Removing, Unpeering, Forwarding,
                                                    Emptying
  <2>2. CASE has'[p] = has[p] \cup {call[p].thing}
    <3>1. \A n : NetworkIn(p, n)' <=> NetworkIn(p, n)
      BY <1>2, <1>6, <2>2 DEF NetworkIn
    <3> QED
      BY <1>1, <1>2, <1>3, <1>4, <2>2, <3>1 DEF Kept, ScreenedOf
  <2> QED
    BY <1>4, <1>5, <2>1, <2>2
<1>8. ForwardedOf(p)'
  <2>1. CASE has'[p] = has[p] /\ forwards'[p] = forwards[p] /\ call'[p].at = "race"
    BY <1>1, <1>2, <2>1 DEF Kept, ForwardedOf, Removing, Unpeering, Forwarding, Emptying,
                            Subject
  <2>2. CASE Make(p) /\ call'[p].at \in {"answer", "race"}
    <3> DEFINE t == call[p].thing
               g == <<Subject(p), call[p].address>>
    <3>1. has'[p] = has[p] \cup {t} /\ forwards'[p] = forwards[p] \cup {g} /\ g[1] = Subject(p) /\ t[2] = Subject(p)
      BY <1>5, <2>2 DEF Subject, NetworkOf
    <3>2. /\ <<"network", Subject(p), "nat">> \in has[p]
          /\ \A f \in forwards[p] : f[1] # Subject(p)
      BY <1>1 DEF Kept, ForwardedOf, Forwarding
    <3>3. \A u \in has[p] : Kind(u) = "port" => u[2] # t[2]
      BY <3>1, <3>2 DEF Kept, ForwardedOf, NetworkOf
    <3>4. \A f, h \in forwards'[p] : f[1] = h[1] => f = h
      BY <3>1, <3>2 DEF Kept, ForwardedOf
    <3>5. \A f \in forwards'[p] : <<"network", f[1], "nat">> \in has'[p]
      BY <3>1, <3>2 DEF Kept, ForwardedOf
    <3>6. \A u, v \in has'[p] :
             Kind(u) = "port" /\ Kind(v) = "port" /\ u[2] = v[2] /\ u[3] = v[3] => u = v
      BY <3>1, <3>3 DEF Kept, ForwardedOf
    <3>7. \A u \in has'[p] : Kind(u) = "port" => \E f \in forwards'[p] : f[1] = NetworkOf(u)
      BY <3>1 DEF Kept, ForwardedOf, NetworkOf
    <3>8. call'[p].at \in Forwarding => <<"network", Subject(p)', "nat">> \in has'[p]
      BY <1>1, <3>1, <3>2 DEF Subject
    <3> QED
      BY <2>2, <3>4, <3>5, <3>6, <3>7, <3>8 DEF ForwardedOf, Unpeering, Emptying
  <2> QED
    BY <1>4, <2>1, <2>2
<1>9. PromisedOf(p)'
  BY <1>1, <1>2, <1>3, <1>4, <1>5, <1>6 DEF Kept, PromisedOf, Parts, Removing, Unpeering
<1>10. AskedOf(p)'
  BY <1>1, <1>2, <1>3, <1>4, <1>5, <1>6 DEF Kept, AskedOf, NetworkIn, Parts, Forwarding,
                                            Emptying
<1> QED
  BY <1>7, <1>8, <1>9, <1>10 DEF Kept

LEMMA RetryKept == ASSUME FabricInv, NEW p \in Projects, Retry(p), ~Return(p) PROVE Kept(p)'
<1> FabricTypeOK /\ CallFits(p) /\ Served(p) /\ Kept(p)
  BY DEF FabricInv, Kept
<1>1. call[p].at = "race" /\ call'[p].at = "address" /\ call'[p].thing = call[p].thing
  BY TurnMoves DEF Retry, In, Stages
<1>2. \A f \in forwards[p] : f[1] # Subject(p)
  BY DEF Retry, ForwardAllocationRace, ForwardsOn
<1>3. has'[p] = has[p] /\ acls'[p] = acls[p] /\ forwards'[p] = forwards[p]
  BY DEF Retry, things
<1>4. promised'[p] = promised[p] /\ asked'[p] = asked[p]
  BY DEF Retry, history
<1>5. ScreenedOf(p)'
  BY <1>1, <1>2, <1>3, <1>4 DEF Kept, ScreenedOf, NetworkIn
<1>6. ForwardedOf(p)'
  BY <1>1, <1>2, <1>3, <1>4 DEF Kept, ForwardedOf, Subject, Unpeering, Forwarding, Emptying
<1>7. PromisedOf(p)'
  BY <1>1, <1>2, <1>3, <1>4 DEF Kept, PromisedOf, Removing, Unpeering
<1>8. AskedOf(p)'
  BY <1>1, <1>2, <1>3, <1>4 DEF Kept, AskedOf, NetworkIn, Subject, Forwarding, Emptying
<1> QED
  BY <1>5, <1>6, <1>7, <1>8 DEF Kept

\* The instances' NICs.
LEMMA NICKept ==
    ASSUME FabricInv, NEW p \in Projects, call'[p] = call[p],
           has'[p] = has[p], acls'[p] = acls[p], forwards'[p] = forwards[p],
           promised'[p] = promised[p], asked'[p] = asked[p]
    PROVE  Kept(p)'
<1> FabricTypeOK /\ CallFits(p) /\ Served(p) /\ Kept(p)
  BY DEF FabricInv, Kept
<1>1. ScreenedOf(p)'
  BY DEF Kept, ScreenedOf, NetworkIn, Subject
<1>2. ForwardedOf(p)'
  BY DEF Kept, ForwardedOf, Subject, Unpeering, Forwarding, Emptying
<1>3. PromisedOf(p)'
  BY DEF Kept, PromisedOf, Subject, Removing, Unpeering
<1>4. AskedOf(p)'
  BY DEF Kept, AskedOf, NetworkIn, Subject, Forwarding, Emptying
<1> QED
  BY <1>1, <1>2, <1>3, <1>4 DEF Kept

LEMMA DeleteNetworkKept ==
    ASSUME FabricInv, NEW p \in Projects, NEW n \in Networks, DeleteOVNNetwork(p, n)
    PROVE  Kept(p)'
<1> FabricTypeOK /\ CallFits(p) /\ Served(p) /\ Kept(p)
  BY DEF FabricInv, Kept
<1>1. PICK s \in Settings :
         call' = [call EXCEPT ![p] = [Resting EXCEPT !.at = "unforward", !.thing = <<"network", n, s>>]]
  BY DEF DeleteOVNNetwork
<1>2. call'[p].at = "unforward" /\ call'[p].thing = <<"network", n, s>>
  BY <1>1, BeginMoves, ThingShapes DEF Is, Stages
<1>3. has'[p] = has[p] /\ acls'[p] = acls[p] /\ forwards'[p] = forwards[p] /\ asked'[p] = asked[p]
  BY DEF DeleteOVNNetwork, things
<1>4. promised'[p] = promised[p] \ Involving(n) /\ promised[p] \subseteq Things
  BY DEF DeleteOVNNetwork, FabricTypeOK
<1>5. ScreenedOf(p)'
  BY <1>1, <1>2, <1>3, <1>4 DEF Kept, ScreenedOf, NetworkIn
<1>6. ForwardedOf(p)'
  BY <1>1, <1>2, <1>3, <1>4 DEF Kept, ForwardedOf, Subject, Unpeering, Forwarding, Emptying
<1>7. PromisedOf(p)'
  BY <1>1, <1>2, <1>3, <1>4 DEF Kept, PromisedOf, Subject, NetworkOf, Involving, On,
                                Removing, Unpeering
<1>8. AskedOf(p)'
  BY <1>1, <1>2, <1>3, <1>4 DEF Kept, AskedOf, NetworkIn, Forwarding, Emptying
<1> QED
  BY <1>5, <1>6, <1>7, <1>8 DEF Kept

LEMMA RemoveRuleKept ==
    ASSUME FabricInv, NEW p \in Projects, NEW t \in RulesIn(p), RemoveACLRule(p, t)
    PROVE  Kept(p)'
<1> FabricTypeOK /\ CallFits(p) /\ Served(p) /\ Kept(p)
  BY DEF FabricInv, Kept
<1>1. t \in Things
  BY DEF RulesIn, FabricTypeOK
<1>2. call' = [call EXCEPT ![p] = [Resting EXCEPT !.at = "unrule", !.thing = t]]
  BY DEF RemoveACLRule
<1>3. call'[p].at = "unrule" /\ call'[p].thing = t
  BY <1>1, <1>2, BeginMoves DEF Stages
<1>4. has'[p] = has[p] /\ acls'[p] = acls[p] /\ forwards'[p] = forwards[p] /\ asked'[p] = asked[p]
  BY DEF RemoveACLRule, things
<1>5. promised'[p] = promised[p] \ {t}
  BY DEF RemoveACLRule, FabricTypeOK
<1>6. ScreenedOf(p)'
  BY <1>1, <1>2, <1>3, <1>4, <1>5 DEF Kept, ScreenedOf, NetworkIn
<1>7. ForwardedOf(p)'
  BY <1>1, <1>2, <1>3, <1>4, <1>5 DEF Kept, ForwardedOf, Unpeering, Forwarding, Emptying
<1>8. PromisedOf(p)'
  BY <1>1, <1>2, <1>3, <1>4, <1>5 DEF Kept, PromisedOf, Removing, Unpeering
<1>9. AskedOf(p)'
  BY <1>1, <1>2, <1>3, <1>4, <1>5 DEF Kept, AskedOf, NetworkIn, Forwarding, Emptying
<1> QED
  BY <1>6, <1>7, <1>8, <1>9 DEF Kept

LEMMA UnforwardKept ==
    ASSUME FabricInv, NEW p \in Projects, DeleteForwards(p), ~Return(p)
    PROVE  Kept(p)'
<1> FabricTypeOK /\ CallFits(p) /\ Served(p) /\ Kept(p)
  BY DEF FabricInv, Kept
<1>1. /\ call[p].at = "unforward" /\ call'[p].at = "unpeer" /\ call'[p].thing = call[p].thing
      /\ \E still : Unforwarded(p, {Subject(p)}, {}, still)
  BY TurnMoves DEF DeleteForwards, In, Stages
<1>2. /\ has'[p] \subseteq has[p] /\ forwards'[p] \subseteq forwards[p]
      /\ \A t \in has[p] : t \in has'[p] \/ (NetworkOf(t) = Subject(p) /\ Kind(t) \in {"port", "peer"})
      /\ \A t \in has'[p] : Kind(t) = "port" => NetworkOf(t) # Subject(p)
      /\ \A f \in forwards[p] : f \in forwards'[p] <=> f[1] # Subject(p)
  BY <1>1, UnforwardedMoves
<1>3. acls'[p] = acls[p] /\ promised'[p] = promised[p] /\ asked'[p] = asked[p]
  BY DEF DeleteForwards, history
<1>4. \A n, s : Kind(<<"network", n, s>>) = "network"
  BY DEF Kind
<1>5. ScreenedOf(p)'
  BY <1>1, <1>2, <1>3, <1>4 DEF Kept, ScreenedOf, NetworkIn
<1>6. ForwardedOf(p)'
  BY <1>1, <1>2, <1>3, <1>4 DEF Kept, ForwardedOf, Subject, Unpeering, Forwarding, Emptying
<1>7. PromisedOf(p)'
  BY <1>1, <1>2, <1>3, <1>4 DEF Kept, PromisedOf, Subject, Removing, Unpeering
<1>8. AskedOf(p)'
  BY <1>1, <1>2, <1>3, <1>4 DEF Kept, AskedOf, NetworkIn, Subject, Forwarding, Emptying
<1> QED
  BY <1>5, <1>6, <1>7, <1>8 DEF Kept

LEMMA UnforwardFailsKept ==
    ASSUME FabricInv, NEW p \in Projects, DeleteForwards(p), Return(p)
    PROVE  Kept(p)'
<1> FabricTypeOK /\ CallFits(p) /\ Served(p) /\ Kept(p)
  BY DEF FabricInv, Kept
<1>1. call[p].at = "unforward" /\ call'[p].at = "idle" /\ \E left, still : Unforwarded(p, {Subject(p)}, left, still)
  BY ReturnMoves DEF DeleteForwards, In
<1>2. /\ has'[p] \subseteq has[p] /\ forwards'[p] \subseteq forwards[p]
      /\ \A t \in has[p] : t \in has'[p] \/ (NetworkOf(t) = Subject(p) /\ Kind(t) \in {"port", "peer"})
  BY <1>1, UnforwardedMoves
<1>3. \A t \in has'[p] : Kind(t) = "port" => \E f \in forwards'[p] : f[1] = NetworkOf(t)
  <2>1. PICK left \in SUBSET ForwardsOn(p, Subject(p)) : \E still : Unforwarded(p, {Subject(p)}, left, still)
    BY <1>1 DEF DeleteForwards
  <2>2. TAKE t \in has'[p]
  <2>3. SUFFICES ASSUME Kind(t) = "port" PROVE \E f \in forwards'[p] : f[1] = NetworkOf(t)
    OBVIOUS
  <2>4. t \in has[p]
    BY <1>2
  <2>5. CASE NetworkOf(t) = Subject(p)
    <3>1. PICK f \in left : f[1] = Subject(p)
      BY <2>1, <2>3, <2>4, <2>5, UnforwardedMoves
    <3>2. f \in forwards'[p]
      BY <2>1, <3>1, UnforwardedMoves DEF ForwardsOn
    <3> QED
      BY <2>5, <3>1, <3>2
  <2>6. CASE NetworkOf(t) # Subject(p)
    <3>1. PICK f \in forwards[p] : f[1] = NetworkOf(t)
      BY <2>3, <2>4 DEF Kept, ForwardedOf
    <3> QED
      BY <2>1, <2>6, <3>1, UnforwardedMoves
  <2> QED
    BY <2>5, <2>6
<1>4. acls'[p] = acls[p] /\ promised'[p] = promised[p] /\ asked'[p] = asked[p]
  BY DEF DeleteForwards, history
<1>5. \A n, s : Kind(<<"network", n, s>>) = "network"
  BY DEF Kind
<1>6. ScreenedOf(p)'
  BY <1>1, <1>2, <1>3, <1>4, <1>5 DEF Kept, ScreenedOf, NetworkIn
<1>7. ForwardedOf(p)'
  BY <1>1, <1>2, <1>3, <1>4, <1>5 DEF Kept, ForwardedOf, Unpeering, Forwarding, Emptying
<1>8. PromisedOf(p)'
  BY <1>1, <1>2, <1>3, <1>4, <1>5 DEF Kept, PromisedOf, Removing, Unpeering
<1>9. AskedOf(p)'
  BY <1>1, <1>2, <1>3, <1>4, <1>5 DEF Kept, AskedOf, NetworkIn, Forwarding, Emptying
<1> QED
  BY <1>6, <1>7, <1>8, <1>9 DEF Kept

LEMMA UnpeerKept ==
    ASSUME FabricInv, NEW p \in Projects, DeletePeers(p), ~Return(p)
    PROVE  Kept(p)'
<1> FabricTypeOK /\ CallFits(p) /\ Served(p) /\ Kept(p)
  BY DEF FabricInv, Kept
<1>1. /\ call[p].at = "unpeer" /\ call'[p].at = "drop" /\ call'[p].thing = call[p].thing
      /\ Unforwarded(p, {Subject(p)}, {}, {})
  BY TurnMoves DEF DeletePeers, In, Stages
<1>2. /\ has'[p] \subseteq has[p] /\ forwards'[p] \subseteq forwards[p]
      /\ \A t \in has[p] : t \in has'[p] <=> ~(NetworkOf(t) = Subject(p) /\ Kind(t) \in {"port", "peer"})
      /\ \A f \in forwards[p] : f \in forwards'[p] <=> f[1] # Subject(p)
  BY <1>1, UnforwardedMoves
<1>3. acls'[p] = acls[p] /\ promised'[p] = promised[p] /\ asked'[p] = asked[p]
  BY DEF DeletePeers, history
<1>4. \A n, s : Kind(<<"network", n, s>>) = "network"
  BY DEF Kind
<1>5. ScreenedOf(p)'
  BY <1>1, <1>2, <1>3, <1>4 DEF Kept, ScreenedOf, NetworkIn
<1>6. ForwardedOf(p)'
  BY <1>1, <1>2, <1>3, <1>4 DEF Kept, ForwardedOf, Subject, Unpeering, Forwarding, Emptying
<1>7. PromisedOf(p)'
  BY <1>1, <1>2, <1>3, <1>4 DEF Kept, PromisedOf, Subject, Removing, Unpeering
<1>8. AskedOf(p)'
  BY <1>1, <1>2, <1>3, <1>4 DEF Kept, AskedOf, NetworkIn, Subject, Forwarding, Emptying
<1> QED
  BY <1>5, <1>6, <1>7, <1>8 DEF Kept

LEMMA UnpeerFailsKept ==
    ASSUME FabricInv, NEW p \in Projects, DeletePeers(p), Return(p)
    PROVE  Kept(p)'
<1> FabricTypeOK /\ CallFits(p) /\ Served(p) /\ Kept(p)
  BY DEF FabricInv, Kept
<1>1. call[p].at = "unpeer" /\ call'[p].at = "idle" /\ \E still : Unforwarded(p, {Subject(p)}, {}, still)
  BY ReturnMoves DEF DeletePeers, In
<1>2. /\ has'[p] \subseteq has[p] /\ forwards'[p] \subseteq forwards[p]
      /\ \A t \in has[p] : t \in has'[p] \/ (NetworkOf(t) = Subject(p) /\ Kind(t) \in {"port", "peer"})
      /\ \A t \in has'[p] : Kind(t) = "port" => NetworkOf(t) # Subject(p)
      /\ \A f \in forwards[p] : f \in forwards'[p] <=> f[1] # Subject(p)
  BY <1>1, UnforwardedMoves
<1>3. acls'[p] = acls[p] /\ promised'[p] = promised[p] /\ asked'[p] = asked[p]
  BY DEF DeletePeers, history
<1>4. \A n, s : Kind(<<"network", n, s>>) = "network"
  BY DEF Kind
<1>5. ScreenedOf(p)'
  BY <1>1, <1>2, <1>3, <1>4 DEF Kept, ScreenedOf, NetworkIn
<1>6. ForwardedOf(p)'
  BY <1>1, <1>2, <1>3, <1>4 DEF Kept, ForwardedOf, Unpeering, Forwarding, Emptying
<1>7. PromisedOf(p)'
  BY <1>1, <1>2, <1>3, <1>4 DEF Kept, PromisedOf, Removing, Unpeering
<1>8. AskedOf(p)'
  BY <1>1, <1>2, <1>3, <1>4 DEF Kept, AskedOf, NetworkIn, Forwarding, Emptying
<1> QED
  BY <1>5, <1>6, <1>7, <1>8 DEF Kept

LEMMA DropKept == ASSUME FabricInv, NEW p \in Projects, Drop(p), ~Return(p) PROVE Kept(p)'
<1> FabricTypeOK /\ CallFits(p) /\ Served(p) /\ Kept(p)
  BY DEF FabricInv, Kept
<1>1. call[p].at = "drop" /\ call'[p].at = "unacl" /\ call'[p].thing = call[p].thing
  BY TurnMoves DEF Drop, In, Stages
<1>2. has'[p] = has[p] \ {<<"network", Subject(p), s>> : s \in Settings}
  BY DEF Drop, FabricTypeOK
<1>3. /\ has'[p] \subseteq has[p]
      /\ \A t \in has'[p] : Kind(t) = "network" => NetworkOf(t) # Subject(p)
      /\ \A t \in has[p] : Kind(t) # "network" \/ NetworkOf(t) # Subject(p) => t \in has'[p]
  BY <1>2, ThingShapes DEF FabricTypeOK, Kind, NetworkOf
<1>4. /\ \A n, s : <<"network", n, s>>[2] = n
      /\ \A n, s : Kind(<<"network", n, s>>) = "network" /\ NetworkOf(<<"network", n, s>>) = n
  BY DEF Kind, NetworkOf
<1>5. acls'[p] = acls[p] /\ forwards'[p] = forwards[p] /\ promised'[p] = promised[p] /\ asked'[p] = asked[p]
  BY DEF Drop, history
<1>6. \A n : n # Subject(p) /\ NetworkIn(p, n) => NetworkIn(p, n)'
  BY <1>3, <1>4 DEF NetworkIn
<1>7. \A t \in has[p] : NetworkOf(t) = Subject(p) => Kind(t) \in {"network", "rule"}
  BY <1>1, ThingShapes DEF Kept, ForwardedOf, AskedOf, FabricTypeOK, Unpeering
<1>8. ScreenedOf(p)'
  BY <1>1, <1>2, <1>3, <1>4, <1>5, <1>6, <1>7 DEF Kept, ScreenedOf, NetworkIn, Subject
<1>9. ForwardedOf(p)'
  BY <1>1, <1>2, <1>3, <1>4, <1>5, <1>6, <1>7 DEF Kept, ForwardedOf, Subject, Unpeering,
                                                  Forwarding, Emptying
<1>10. PromisedOf(p)'
  BY <1>1, <1>2, <1>3, <1>4, <1>5, <1>6, <1>7 DEF Kept, PromisedOf, Subject, Removing,
                                                  Unpeering
<1>11. AskedOf(p)'
  <2>1. \A t \in has'[p] : Kind(t) = "peer" => NetworkIn(p, NetworkOf(t))'
    BY <1>1, <1>3, <1>6, <1>7 DEF Kept, AskedOf
  <2>2. \A t \in has'[p] : Kind(t) # "rule" => NetworkOf(t) # Subject(p)
    BY <1>3, <1>7
  <2> QED
    BY <1>1, <1>3, <1>5, <2>1, <2>2 DEF Kept, AskedOf, Subject, Forwarding, Emptying
<1> QED
  BY <1>8, <1>9, <1>10, <1>11 DEF Kept

LEMMA DropACLKept == ASSUME FabricInv, NEW p \in Projects, DropACL(p) PROVE Kept(p)'
<1> FabricTypeOK /\ CallFits(p) /\ Served(p) /\ Kept(p)
  BY DEF FabricInv, Kept
<1>1. call[p].at = "unacl" /\ call'[p].at = "gone" /\ call'[p].thing = call[p].thing
  BY TurnMoves DEF DropACL, In, Stages
<1>2. Kind(call[p].thing) = "network" /\ Subject(p) \in Networks /\ Subject(p) # Baseline
  BY <1>1, ThingShapes, BaselineApart DEF CallFits, Is, Removing, Unpeering, Subject
<1>3. /\ has'[p] = {t \in has[p] : Kind(t) = "rule" => NetworkOf(t) # Subject(p)}
      /\ acls'[p] = acls[p] \ {Subject(p)}
  BY DEF DropACL, FabricTypeOK
<1>4. /\ has'[p] \subseteq has[p]
      /\ \A t \in has[p] : t \in has'[p] <=> (Kind(t) = "rule" => NetworkOf(t) # Subject(p))
  BY <1>3
<1>5. /\ \A n, s : Kind(<<"network", n, s>>) = "network" /\ NetworkOf(<<"network", n, s>>) = n
      /\ Subject(p) = NetworkOf(call[p].thing)
  BY DEF Kind, NetworkOf, Subject
<1>6. forwards'[p] = forwards[p] /\ promised'[p] = promised[p] /\ asked'[p] = asked[p]
  BY DEF DropACL, history
<1>7. ScreenedOf(p)'
  BY <1>1, <1>2, <1>3, <1>4, <1>5, <1>6 DEF Kept, ScreenedOf, NetworkIn, Subject
<1>8. ForwardedOf(p)'
  BY <1>1, <1>2, <1>3, <1>4, <1>5, <1>6 DEF Kept, ForwardedOf, Subject, Unpeering,
                                            Forwarding, Emptying
<1>9. PromisedOf(p)'
  BY <1>1, <1>2, <1>3, <1>4, <1>5, <1>6 DEF Kept, PromisedOf, Subject, Removing, Unpeering
<1>10. AskedOf(p)'
  BY <1>1, <1>2, <1>3, <1>4, <1>5, <1>6 DEF Kept, AskedOf, NetworkIn, Subject, Forwarding,
                                            Emptying
<1> QED
  BY <1>7, <1>8, <1>9, <1>10 DEF Kept

LEMMA DeleteSandboxKept ==
    ASSUME FabricInv, NEW p \in Projects, DeleteOVNSandbox(p)
    PROVE  Kept(p)'
<1> FabricTypeOK /\ CallFits(p) /\ Served(p) /\ Kept(p)
  BY DEF FabricInv, Kept
<1>1. call'[p].at = "forwarding"
  BY TurnMoves DEF DeleteOVNSandbox, Stages
<1>2. promised'[p] = {}
  BY DEF DeleteOVNSandbox, FabricTypeOK
<1>3. has'[p] = has[p] /\ acls'[p] = acls[p] /\ forwards'[p] = forwards[p] /\ asked'[p] = asked[p]
  BY DEF DeleteOVNSandbox, things
<1>4. ScreenedOf(p)'
  BY <1>1, <1>2, <1>3 DEF Kept, ScreenedOf, NetworkIn
<1>5. ForwardedOf(p)'
  BY <1>1, <1>2, <1>3 DEF Kept, ForwardedOf, Unpeering, Forwarding, Emptying
<1>6. PromisedOf(p)'
  BY <1>1, <1>2, <1>3 DEF Kept, PromisedOf, Removing, Unpeering
<1>7. AskedOf(p)'
  BY <1>1, <1>2, <1>3 DEF Kept, AskedOf, NetworkIn, Forwarding, Emptying
<1> QED
  BY <1>4, <1>5, <1>6, <1>7 DEF Kept

LEMMA UnforwardAllKept ==
    ASSUME FabricInv, NEW p \in Projects, UnforwardAll(p), ~Return(p)
    PROVE  Kept(p)'
<1> FabricTypeOK /\ CallFits(p) /\ Served(p) /\ Kept(p)
  BY DEF FabricInv, Kept
<1>1. /\ call[p].at = "forwarding" /\ call'[p].at = "contents"
      /\ Unforwarded(p, NetworksIn(p), {}, {})
  BY TurnMoves DEF UnforwardAll, In, Stages
<1>2. \A n \in Networks : n \in NetworksIn(p) <=> NetworkIn(p, n)
  BY DEF NetworksIn, NetworkIn
<1>3. promised[p] = {}
  BY <1>1 DEF Served, Teardown
<1>4. /\ has'[p] \subseteq has[p] /\ forwards'[p] \subseteq forwards[p]
      /\ \A t \in has[p] : t \in has'[p] <=> ~(NetworkOf(t) \in NetworksIn(p) /\ Kind(t) \in {"port", "peer"})
      /\ \A f \in forwards[p] : f \in forwards'[p] <=> f[1] \notin NetworksIn(p)
  BY <1>1, UnforwardedMoves
<1>5. acls'[p] = acls[p] /\ promised'[p] = promised[p] /\ asked'[p] = asked[p]
  BY DEF UnforwardAll, history
<1>6. has[p] \subseteq Things /\ forwards[p] \subseteq Networks \X Addresses
  BY DEF FabricTypeOK
<1>7. \A f \in forwards[p] : f[1] \in NetworksIn(p)
  BY <1>2, <1>6 DEF Kept, ForwardedOf, NetworkIn, Settings
<1>8. \A t \in has[p] : Kind(t) \in {"port", "peer"} => NetworkOf(t) \in NetworksIn(p)
  BY <1>2, <1>6, <1>7, ThingShapes DEF Kept, ForwardedOf, AskedOf
<1>9. \A t \in has'[p] : Kind(t) \in {"network", "rule"}
  BY <1>4, <1>6, <1>8, ThingShapes
<1>10. forwards'[p] = {}
  BY <1>4, <1>7
<1>11. \A n, s : Kind(<<"network", n, s>>) = "network"
  BY DEF Kind
<1>12. ScreenedOf(p)'
  BY <1>1, <1>2, <1>3, <1>4, <1>5, <1>6, <1>7, <1>8, <1>9, <1>10, <1>11
     DEF Kept, ScreenedOf, NetworkIn
<1>13. ForwardedOf(p)'
  BY <1>1, <1>2, <1>3, <1>4, <1>5, <1>6, <1>7, <1>8, <1>9, <1>10, <1>11
     DEF Kept, ForwardedOf, Unpeering, Forwarding, Emptying
<1>14. PromisedOf(p)'
  BY <1>1, <1>2, <1>3, <1>4, <1>5, <1>6, <1>7, <1>8, <1>9, <1>10, <1>11
     DEF Kept, PromisedOf, Removing, Unpeering
<1>15. AskedOf(p)'
  BY <1>1, <1>2, <1>3, <1>4, <1>5, <1>6, <1>7, <1>8, <1>9, <1>10, <1>11
     DEF Kept, AskedOf, NetworkIn, Forwarding, Emptying
<1> QED
  BY <1>12, <1>13, <1>14, <1>15 DEF Kept

LEMMA UnforwardAllFailsKept ==
    ASSUME FabricInv, NEW p \in Projects, UnforwardAll(p), Return(p)
    PROVE  Kept(p)'
<1> FabricTypeOK /\ CallFits(p) /\ Served(p) /\ Kept(p)
  BY DEF FabricInv, Kept
<1>1. /\ call[p].at = "forwarding" /\ call'[p].at = "idle"
      /\ \E left \in SUBSET forwards[p] : \E still : Unforwarded(p, NetworksIn(p), left, still)
  BY ReturnMoves DEF UnforwardAll, In, ForwardsOn
<1>2. promised[p] = {}
  BY <1>1 DEF Served, Teardown
<1>3. PICK left \in SUBSET forwards[p] : \E still : Unforwarded(p, NetworksIn(p), left, still)
  BY <1>1
<1>11. /\ has'[p] \subseteq has[p] /\ forwards'[p] \subseteq forwards[p]
       /\ \A t \in has[p] : Kind(t) \notin {"port", "peer"} => t \in has'[p]
  BY <1>3, UnforwardedMoves
<1>4. \A t \in has'[p] : Kind(t) = "port" => \E f \in forwards'[p] : f[1] = NetworkOf(t)
  <2> SUFFICES ASSUME NEW t \in has'[p], Kind(t) = "port" PROVE \E f \in forwards'[p] : f[1] = NetworkOf(t)
    OBVIOUS
  <2>1. t \in has[p]
    BY <1>11
  <2>2. CASE NetworkOf(t) \in NetworksIn(p)
    <3>1. PICK f \in left : f[1] = NetworkOf(t)
      BY <1>3, <2>1, <2>2, UnforwardedMoves
    <3>2. f \in forwards'[p]
      BY <1>3, <3>1, UnforwardedMoves
    <3> QED
      BY <3>1, <3>2
  <2>3. CASE NetworkOf(t) \notin NetworksIn(p)
    <3>1. PICK f \in forwards[p] : f[1] = NetworkOf(t)
      BY <2>1 DEF Kept, ForwardedOf
    <3> QED
      BY <1>3, <2>3, <3>1, UnforwardedMoves
  <2> QED
    BY <2>2, <2>3
<1>5. acls'[p] = acls[p] /\ promised'[p] = promised[p] /\ asked'[p] = asked[p]
  BY DEF UnforwardAll, history
<1>6. \A n, s : Kind(<<"network", n, s>>) = "network"
  BY DEF Kind
<1>7. ScreenedOf(p)'
  BY <1>1, <1>2, <1>11, <1>4, <1>5, <1>6 DEF Kept, ScreenedOf, NetworkIn
<1>8. ForwardedOf(p)'
  <2>1. \A f \in forwards'[p] : <<"network", f[1], "nat">> \in has'[p]
    BY <1>11, <1>6 DEF Kept, ForwardedOf
  <2>2. \A t, u \in has'[p] :
           Kind(t) = "port" /\ Kind(u) = "port" /\ t[2] = u[2] /\ t[3] = u[3] => t = u
    BY <1>11 DEF Kept, ForwardedOf
  <2>3. \A f, g \in forwards'[p] : f[1] = g[1] => f = g
    BY <1>11 DEF Kept, ForwardedOf
  <2> QED
    BY <1>1, <1>4, <2>1, <2>2, <2>3 DEF ForwardedOf, Unpeering, Forwarding, Emptying
<1>9. PromisedOf(p)'
  BY <1>1, <1>2, <1>11, <1>4, <1>5, <1>6 DEF Kept, PromisedOf, Removing, Unpeering
<1>10. AskedOf(p)'
  BY <1>1, <1>2, <1>11, <1>4, <1>5, <1>6 DEF Kept, AskedOf, NetworkIn, Forwarding, Emptying
<1> QED
  BY <1>7, <1>8, <1>9, <1>10 DEF Kept

\* Networks go with their ACLs, or before them.
LEMMA DroppedKept ==
    ASSUME FabricInv, NEW p \in Projects, NEW N, NEW A, A \subseteq Networks, N \cap NetworksIn(p) = A \/ A \subseteq N,
           call[p].at = "networks", call'[p].at \in {"remaining", "idle"}, Dropped(p, N, A),
           forwards'[p] = forwards[p], promised'[p] = promised[p], asked'[p] = asked[p]
    PROVE  Kept(p)'
<1> FabricTypeOK /\ CallFits(p) /\ Served(p) /\ Kept(p)
  BY DEF FabricInv, Kept
<1>1. /\ has'[p] \subseteq has[p] /\ acls'[p] = acls[p] \ A
      /\ \A t \in has[p] : t \in has'[p] <=> IF Kind(t) = "rule" THEN NetworkOf(t) \notin A ELSE NetworkOf(t) \notin N
  BY DroppedMoves
<1>2. promised[p] = {} /\ forwards[p] = {} /\ \A t \in has[p] : Kind(t) \in {"network", "rule"}
  BY DEF Served, Teardown, Emptying, Kept, ForwardedOf, AskedOf
<1>3. \A n, s : Kind(<<"network", n, s>>) = "network" /\ NetworkOf(<<"network", n, s>>) = n
  BY DEF Kind, NetworkOf
<1>4. \A n \in Networks : NetworkIn(p, n)' => NetworkIn(p, n) /\ n \notin A
  BY <1>1, <1>3 DEF NetworkIn, NetworksIn
<1>5. Baseline \notin A
  BY BaselineApart
<1>6. ScreenedOf(p)'
  BY <1>1, <1>2, <1>3, <1>4, <1>5 DEF Kept, ScreenedOf, NetworkIn
<1>7. ForwardedOf(p)'
  BY <1>1, <1>2, <1>3, <1>4, <1>5 DEF Kept, ForwardedOf, Unpeering, Forwarding, Emptying
<1>8. PromisedOf(p)'
  BY <1>1, <1>2, <1>3, <1>4, <1>5 DEF Kept, PromisedOf, Removing, Unpeering
<1>9. AskedOf(p)'
  BY <1>1, <1>2, <1>3, <1>4, <1>5 DEF Kept, AskedOf, NetworkIn, Forwarding, Emptying
<1> QED
  BY <1>6, <1>7, <1>8, <1>9 DEF Kept

LEMMA DropNetworksKept == ASSUME FabricInv, NEW p \in Projects, DropNetworks(p) PROVE Kept(p)'
<1>1. /\ call[p].at = "networks" /\ call'[p].at \in {"remaining", "idle"}
      /\ forwards'[p] = forwards[p] /\ promised'[p] = promised[p] /\ asked'[p] = asked[p]
  BY TurnMoves, ReturnMoves DEF DropNetworks, In, Stages, history, FabricInv
<1>2. PICK n : \/ Dropped(p, NetworksIn(p), NetworksIn(p))
               \/ Dropped(p, NetworksIn(p) \ {n}, NetworksIn(p) \ {n})
               \/ Dropped(p, NetworksIn(p), NetworksIn(p) \ {n})
  BY DEF DropNetworks
<1>3. NetworksIn(p) \subseteq Networks
  BY DEF NetworksIn
<1> QED
  BY <1>1, <1>2, <1>3, DroppedKept

LEMMA RemainingKept ==
    ASSUME FabricInv, NEW p \in Projects, Remaining(p), ~Return(p)
    PROVE  Kept(p)'
<1> FabricTypeOK /\ CallFits(p) /\ Served(p) /\ Kept(p)
  BY DEF FabricInv, Kept
<1>1. call[p].at = "remaining" /\ call'[p].at = "unproject" /\ call'[p].thing = call[p].thing
  BY TurnMoves DEF Remaining, In, Stages
<1>2. \A n \in Networks : ~NetworkIn(p, n)
  BY DEF Remaining, NetworksIn, NetworkIn
<1>3. has'[p] = has[p] /\ acls'[p] = acls[p] /\ forwards'[p] = forwards[p]
  BY DEF Remaining, things
<1>4. promised'[p] = promised[p] /\ asked'[p] = asked[p]
  BY DEF Remaining, history
<1>5. ScreenedOf(p)'
  BY <1>1, <1>2, <1>3, <1>4 DEF Kept, ScreenedOf, NetworkIn
<1>6. ForwardedOf(p)'
  BY <1>1, <1>2, <1>3, <1>4 DEF Kept, ForwardedOf, Subject, Unpeering, Forwarding, Emptying
<1>7. PromisedOf(p)'
  BY <1>1, <1>2, <1>3, <1>4 DEF Kept, PromisedOf, Removing, Unpeering
<1>8. AskedOf(p)'
  BY <1>1, <1>2, <1>3, <1>4 DEF Kept, AskedOf, NetworkIn, Subject, Forwarding, Emptying
<1> QED
  BY <1>5, <1>6, <1>7, <1>8 DEF Kept

LEMMA DeleteProjectKept ==
    ASSUME FabricInv, NEW p \in Projects, DeleteOVNProject(p)
    PROVE  Kept(p)'
<1> FabricTypeOK /\ CallFits(p) /\ Served(p) /\ Kept(p)
  BY DEF FabricInv, Kept
<1>1. call[p].at = "unproject" /\ call'[p].at = "idle"
  BY ReturnMoves DEF DeleteOVNProject, In
<1>2. forwards'[p] = forwards[p] /\ promised'[p] = promised[p]
  BY DEF DeleteOVNProject
<1>3. promised[p] = {} /\ forwards[p] = {} /\ \A t \in has[p] : Kind(t) \in {"network", "rule"}
  BY <1>1 DEF Served, Teardown, Emptying, Kept, ForwardedOf, AskedOf
<1>4. \A n \in Networks : ~NetworkIn(p, n)
  BY <1>1 DEF Kept, ScreenedOf
<1>5. \A t \in has[p] : Kind(t) = "rule"
  <2>1. ASSUME NEW t \in has[p], Kind(t) = "network" PROVE FALSE
    <3>1. PICK s \in Settings : t = <<"network", NetworkOf(t), s>> /\ NetworkOf(t) \in Networks
      BY <2>1, ThingShapes DEF FabricTypeOK
    <3> QED
      BY <1>4, <3>1 DEF NetworkIn
  <2> QED
    BY <1>3, <2>1
<1>6. has'[p] \subseteq has[p] /\ (asked'[p] = asked[p] \/ has'[p] = {})
  <2>1. CASE Dropped(p, {}, Networks \cup {Baseline})
    <3>1. has'[p] \subseteq has[p]
      BY <2>1, DroppedMoves
    <3>2. \A t \in has[p] : t \notin has'[p]
      BY <2>1, <1>5, DroppedMoves, ThingShapes DEF FabricTypeOK
    <3> QED
      BY <3>1, <3>2
  <2>2. CASE \E A : Dropped(p, {}, A) /\ asked' = asked
    BY <2>2, DroppedMoves
  <2> QED
    BY <2>1, <2>2 DEF DeleteOVNProject
<1>7. \A n \in Networks : ~NetworkIn(p, n)'
  BY <1>4, <1>6 DEF NetworkIn
<1>8. ScreenedOf(p)'
  BY <1>1, <1>2, <1>3, <1>4, <1>5, <1>6, <1>7 DEF Kept, ScreenedOf, NetworkIn
<1>9. ForwardedOf(p)'
  BY <1>1, <1>2, <1>3, <1>4, <1>5, <1>6, <1>7 DEF Kept, ForwardedOf, Unpeering, Forwarding,
                                                  Emptying
<1>10. PromisedOf(p)'
  BY <1>1, <1>2, <1>3, <1>4, <1>5, <1>6, <1>7 DEF Kept, PromisedOf, Removing, Unpeering
<1>11. AskedOf(p)'
  BY <1>1, <1>2, <1>3, <1>4, <1>5, <1>6, <1>7 DEF Kept, AskedOf, NetworkIn, Forwarding,
                                                  Emptying
<1> QED
  BY <1>8, <1>9, <1>10, <1>11 DEF Kept

LEMMA AnswerKept == ASSUME FabricInv, NEW p \in Projects, Answer(p) PROVE Kept(p)'
<1> FabricTypeOK /\ CallFits(p) /\ Served(p) /\ Kept(p)
  BY DEF FabricInv, Kept
<1>1. call[p].at = "answer" /\ call'[p].at = "idle"
  BY ReturnMoves DEF Answer, In
<1>2. promised'[p] = promised[p] \cup Parts(call[p].thing)
  BY DEF Answer, FabricTypeOK
<1>3. has'[p] = has[p] /\ acls'[p] = acls[p] /\ forwards'[p] = forwards[p] /\ asked'[p] = asked[p]
  BY DEF Answer, things
<1>4. ScreenedOf(p)'
  BY <1>1, <1>2, <1>3 DEF Kept, ScreenedOf, NetworkIn
<1>5. ForwardedOf(p)'
  BY <1>1, <1>2, <1>3 DEF Kept, ForwardedOf, Unpeering, Forwarding, Emptying
<1>6. PromisedOf(p)'
  BY <1>1, <1>2, <1>3 DEF Kept, PromisedOf, Removing, Unpeering
<1>7. AskedOf(p)'
  BY <1>1, <1>2, <1>3 DEF Kept, AskedOf, NetworkIn, Forwarding, Emptying
<1> QED
  BY <1>4, <1>5, <1>6, <1>7 DEF Kept

LEMMA AnswerGoneKept == ASSUME FabricInv, NEW p \in Projects, AnswerGone(p) PROVE Kept(p)'
<1> FabricTypeOK /\ CallFits(p) /\ Served(p) /\ Kept(p)
  BY DEF FabricInv, Kept
<1>1. call[p].at = "gone" /\ call'[p].at = "idle"
  BY ReturnMoves DEF AnswerGone, In
<1>2. asked'[p] = IF Kind(call[p].thing) = "rule" THEN asked[p] \ {call[p].thing} ELSE asked[p] \ On(Subject(p))
  BY DEF AnswerGone, FabricTypeOK
<1>3. Kind(call[p].thing) = "rule" \/ \A t \in has[p] : t \notin On(Subject(p))
  BY <1>1 DEF CallFits, Is, Kept, AskedOf, On
<1>4. has'[p] = has[p] /\ acls'[p] = acls[p] /\ forwards'[p] = forwards[p] /\ promised'[p] = promised[p]
  BY DEF AnswerGone, things
<1>5. ScreenedOf(p)'
  BY <1>1, <1>2, <1>3, <1>4 DEF Kept, ScreenedOf, NetworkIn
<1>6. ForwardedOf(p)'
  BY <1>1, <1>2, <1>3, <1>4 DEF Kept, ForwardedOf, Unpeering, Forwarding, Emptying
<1>7. PromisedOf(p)'
  BY <1>1, <1>2, <1>3, <1>4 DEF Kept, PromisedOf, Removing, Unpeering
<1>8. AskedOf(p)'
  BY <1>1, <1>2, <1>3, <1>4 DEF Kept, AskedOf, NetworkIn, Forwarding, Emptying
<1> QED
  BY <1>5, <1>6, <1>7, <1>8 DEF Kept

LEMMA EmptiedKept ==
    ASSUME FabricInv, NEW p \in Projects, EmptyProject(p), Turn(p, "networks")
    PROVE  Kept(p)'
<1> FabricTypeOK /\ CallFits(p) /\ Served(p) /\ Kept(p)
  BY DEF FabricInv, Kept
<1>1. call[p].at = "contents" /\ call'[p].at = "networks"
  BY TurnMoves DEF EmptyProject, In, Stages
<1>2. has'[p] = has[p] /\ acls'[p] = acls[p] /\ forwards'[p] = forwards[p]
  BY DEF EmptyProject
<1>3. promised'[p] = promised[p] /\ asked'[p] = asked[p]
  BY DEF EmptyProject, history
<1>4. ScreenedOf(p)'
  BY <1>1, <1>2, <1>3 DEF Kept, ScreenedOf, NetworkIn
<1>5. ForwardedOf(p)'
  BY <1>1, <1>2, <1>3 DEF Kept, ForwardedOf, Unpeering, Forwarding, Emptying
<1>6. PromisedOf(p)'
  BY <1>1, <1>2, <1>3 DEF Kept, PromisedOf, Removing, Unpeering
<1>7. AskedOf(p)'
  BY <1>1, <1>2, <1>3 DEF Kept, AskedOf, NetworkIn, Forwarding, Emptying
<1> QED
  BY <1>4, <1>5, <1>6, <1>7 DEF Kept

\* A call that returns with the sandbox as it was.
LEMMA ReturnKept ==
    ASSUME FabricInv, NEW p \in Projects, Return(p),
           has' = has, acls' = acls, forwards' = forwards, promised' = promised, asked' = asked
    PROVE  Kept(p)'
BY ReturnMoves, EndsKept DEF FabricInv

LEMMA EveryCallKept == ASSUME FabricInv, NEW p \in Projects, Changes(p) PROVE Kept(p)'
<1> FabricTypeOK /\ CallFits(p) /\ Served(p) /\ Kept(p)
  BY DEF FabricInv
<1>1. CASE CreateOVNSandbox(p)
  <2>1. <<"network", Main, "nat">> \in Things /\ Kind(<<"network", Main, "nat">>) = "network"
    BY ThingShapes, MainExists DEF Is, Settings
  <2> QED
    BY <1>1, <2>1, BeginsKept DEF CreateOVNSandbox
<1>2. CASE CreateOVNProject(p)
  BY <1>2, ProjectKept
<1>3. CASE MatchingOVNNetwork(p)
  <2>1. CASE Return(p)
    BY <1>3, <2>1, ReturnKept DEF MatchingOVNNetwork, things, history
  <2>2. CASE ~Return(p)
    BY <1>3, <2>2, MatchingKept
  <2> QED
    BY <2>1, <2>2
<1>4. CASE EnsureBaselineACL(p)
  BY <1>4, BaselineKept
<1>5. CASE EnsureAgentACL(p)
  BY <1>5, AgentKept
<1>6. CASE PutNetwork(p)
  BY <1>6, PutNetworkKept
<1>7. ASSUME NEW n \in Networks, NEW s \in Settings, CreateOVNNetwork(p, n, s) PROVE Kept(p)'
  <2>1. <<"network", n, s>> \in Things /\ Kind(<<"network", n, s>>) = "network"
    BY ThingShapes DEF Is
  <2> QED
    BY <1>7, <2>1, BeginsKept DEF CreateOVNNetwork
<1>8. ASSUME NEW n \in Networks, NEW action \in {"allow", "drop"}, NEW dst \in {"outside", "protected"}, AddACLRule(p, n, action, dst)
      PROVE Kept(p)'
  <2>1. PICK id \in RuleIDs : Ask(p, <<"rule", n, id, action, dst>>, "baseline")
    BY <1>8 DEF AddACLRule
  <2>2. <<"rule", n, id, action, dst>> \in Things
    BY ThingShapes DEF Is
  <2> QED
    BY <2>1, <2>2, BeginsKept
<1>9. ASSUME NEW n \in Networks, NEW m \in Networks, PeerNetworks(p, n, m) PROVE Kept(p)'
  <2>1. <<"peer", n, m>> \in Things /\ Kind(<<"peer", n, m>>) = "peer"
    BY ThingShapes DEF Is
  <2>2. NetworkIn(p, n) /\ NetworkIn(p, m)
    BY <1>9 DEF PeerNetworks, NetworksIn, NetworkIn
  <2>3. NetworkOf(<<"peer", n, m>>) = n /\ <<"peer", n, m>>[3] = m
    BY DEF NetworkOf
  <2> QED
    BY <1>9, <2>1, <2>2, <2>3, BeginsKept DEF PeerNetworks
<1>10. ASSUME NEW n \in Networks, NEW x \in Ports, NEW t \in Targets, CreateForward(p, n, x, t)
       PROVE Kept(p)'
  <2>1. <<"port", n, x, t>> \in Things /\ Kind(<<"port", n, x, t>>) = "port"
    BY ThingShapes DEF Is
  <2>2. NetworkOf(<<"port", n, x, t>>) = n /\ <<"network", n, "nat">> \in has[p]
    BY <1>10 DEF CreateForward, Forwardable, NetworkOf
  <2> QED
    BY <1>10, <2>1, <2>2, BeginsKept DEF CreateForward
<1>11. ASSUME NEW n \in Networks, AttachOVN(p, n) PROVE Kept(p)'
  BY <1>11, NICKept DEF AttachOVN, history
<1>12. ASSUME NEW n \in Networks, DetachOVN(p, n) PROVE Kept(p)'
  BY <1>12, NICKept DEF DetachOVN, history
<1>13. ASSUME NEW n \in Networks, DeleteOVNNetwork(p, n) PROVE Kept(p)'
  BY <1>13, DeleteNetworkKept
<1>14. ASSUME NEW t \in RulesIn(p), RemoveACLRule(p, t) PROVE Kept(p)'
  BY <1>14, RemoveRuleKept
<1>15. CASE PutRule(p)
  BY <1>15, PutRuleKept
<1>16. CASE FilterACLRules(p)
  BY <1>16, FilterKept
<1>17. CASE EnsureLeftPeer(p)
  BY <1>17, LeftPeerKept
<1>18. CASE EnsureRightPeer(p)
  BY <1>18, RightPeerKept
<1>19. CASE ReadForwards(p)
  BY <1>19, ReadForwardsKept
<1>20. CASE AddForwardPort(p)
  <2>1. CASE Return(p) /\ UNCHANGED has
    BY <1>20, <2>1, ReturnKept DEF AddForwardPort, history
  <2>2. CASE ~(Return(p) /\ UNCHANGED has)
    <3>1. Turn(p, "answer")
      BY <1>20, <2>2 DEF AddForwardPort
    <3>2. ~Return(p)
      BY <3>1, TurnMoves, ReturnMoves DEF Stages
    <3> QED
      BY <1>20, <3>2, AddPortKept
  <2> QED
    BY <2>1, <2>2
<1>21. CASE Allocate(p)
  <2>1. CASE Return(p)
    BY <1>21, <2>1, ReturnKept DEF Allocate, things, history
  <2>2. CASE ~Return(p)
    BY <1>21, <2>2, AllocateKept
  <2> QED
    BY <2>1, <2>2
<1>22. CASE CreateAllocatedForward(p)
  BY <1>22, ForwardKept
<1>23. CASE Retry(p)
  <2>1. CASE Return(p)
    BY <1>23, <2>1, ReturnKept DEF Retry, things, history
  <2>2. CASE ~Return(p)
    BY <1>23, <2>2, RetryKept
  <2> QED
    BY <2>1, <2>2
<1>24. CASE DeleteForwards(p)
  BY <1>24, UnforwardKept, UnforwardFailsKept
<1>25. CASE DeletePeers(p)
  BY <1>25, UnpeerKept, UnpeerFailsKept
<1>26. CASE Drop(p)
  <2>1. CASE Return(p) /\ UNCHANGED has
    BY <1>26, <2>1, ReturnKept DEF Drop, history
  <2>2. CASE ~(Return(p) /\ UNCHANGED has)
    <3>1. Turn(p, "unacl")
      BY <1>26, <2>2 DEF Drop
    <3>2. ~Return(p)
      BY <3>1, TurnMoves, ReturnMoves DEF Stages
    <3> QED
      BY <1>26, <3>2, DropKept
  <2> QED
    BY <2>1, <2>2
<1>27. CASE DropACL(p)
  BY <1>27, DropACLKept
<1>28. CASE DeleteOVNSandbox(p)
  BY <1>28, DeleteSandboxKept
<1>29. CASE UnforwardAll(p)
  BY <1>29, UnforwardAllKept, UnforwardAllFailsKept
<1>30. CASE EmptyProject(p)
  <2>1. has'[p] = has[p] /\ acls'[p] = acls[p] /\ forwards'[p] = forwards[p] /\ promised'[p] = promised[p] /\ asked'[p] = asked[p]
    BY <1>30 DEF EmptyProject, history
  <2>2. CASE Return(p)
    BY <2>1, <2>2, ReturnMoves, EndsKept
  <2>3. CASE Turn(p, "networks")
    BY <1>30, <2>1, <2>3, EmptiedKept
  <2> QED
    BY <1>30, <2>2, <2>3 DEF EmptyProject
<1>31. CASE DropNetworks(p)
  BY <1>31, DropNetworksKept
<1>32. CASE Remaining(p)
  <2>1. CASE Return(p)
    BY <1>32, <2>1, ReturnKept DEF Remaining, things, history
  <2>2. CASE ~Return(p)
    BY <1>32, <2>2, RemainingKept
  <2> QED
    BY <2>1, <2>2
<1>33. CASE DeleteOVNProject(p)
  BY <1>33, DeleteProjectKept
<1>34. CASE Answer(p)
  BY <1>34, AnswerKept
<1>35. CASE AnswerGone(p)
  BY <1>35, AnswerGoneKept
<1>36. CASE RequestFails(p)
  BY <1>36, ReturnKept DEF RequestFails, things, history
<1> QED
  BY <1>1, <1>2, <1>3, <1>4, <1>5, <1>6, <1>7, <1>8, <1>9, <1>10, <1>11, <1>12, <1>13,
     <1>14, <1>15, <1>16, <1>17, <1>18, <1>19, <1>20, <1>21, <1>22, <1>23, <1>24, <1>25,
     <1>26, <1>27, <1>28, <1>29, <1>30, <1>31, <1>32, <1>33, <1>34, <1>35, <1>36 DEF Changes

LEMMA ExpiredKept == ASSUME FabricInv, NEW p \in Projects, Changes(p) PROVE expired' \subseteq project'
<1> expired \subseteq project
  BY DEF FabricInv
<1>1. CASE CreateOVNProject(p) \/ DeleteOVNSandbox(p) \/ DeleteOVNProject(p)
  BY <1>1 DEF CreateOVNProject, DeleteOVNSandbox, DeleteOVNProject
<1>2. CASE UNCHANGED <<project, expired>>
  BY <1>2
<1>3. \/ CreateOVNProject(p) \/ DeleteOVNSandbox(p) \/ DeleteOVNProject(p)
      \/ UNCHANGED <<project, expired>>
  BY  DEF Changes, CreateOVNSandbox, MatchingOVNNetwork, EnsureBaselineACL, EnsureAgentACL,
          PutNetwork,
         CreateOVNNetwork, AddACLRule, PeerNetworks, CreateForward, AttachOVN, DetachOVN,
         DeleteOVNNetwork, RemoveACLRule, PutRule, FilterACLRules, EnsureLeftPeer, EnsureRightPeer,
         ReadForwards, AddForwardPort, Allocate, CreateAllocatedForward, Retry, DeleteForwards,
         DeletePeers, Drop, DropACL, UnforwardAll, EmptyProject, DropNetworks, Remaining,
         Answer, AnswerGone, RequestFails, Ask, Put
<1> QED
  BY <1>1, <1>2, <1>3

\* Sandboxes share addresses only, and no part of the invariant is about these.
LEMMA OthersKept ==
    ASSUME FabricInv, NEW p \in Projects, Elsewhere(p), NEW q \in Projects \ {p}
    PROVE  CallFits(q)' /\ Served(q)' /\ Kept(q)'
<1>1. /\ has'[q] = has[q] /\ acls'[q] = acls[q] /\ forwards'[q] = forwards[q]
      /\ call'[q] = call[q] /\ promised'[q] = promised[q] /\ asked'[q] = asked[q]
      /\ (q \in project' <=> q \in project) /\ (q \in expired' <=> q \in expired)
  BY DEF Elsewhere, CallsElsewhere, ThingsElsewhere, RestElsewhere
<1>2. CallFits(q) /\ Served(q) /\ Kept(q)
  BY DEF FabricInv
<1>3. CallFits(q)' /\ Served(q)'
  BY <1>1, <1>2 DEF CallFits, Served
<1>4. ScreenedOf(q)'
  BY <1>1, <1>2 DEF Kept, ScreenedOf, NetworkIn, Subject
<1>5. ForwardedOf(q)'
  BY <1>1, <1>2 DEF Kept, ForwardedOf, Subject
<1>6. PromisedOf(q)'
  BY <1>1, <1>2 DEF Kept, PromisedOf, Subject
<1>7. AskedOf(q)'
  BY <1>1, <1>2 DEF Kept, AskedOf, NetworkIn, Subject
<1> QED
  BY <1>3, <1>4, <1>5, <1>6, <1>7 DEF Kept

LEMMA FabricStepInv == FabricInv /\ [FabricNext]_ovnVars => FabricInv'
<1> SUFFICES ASSUME FabricInv, [FabricNext]_ovnVars PROVE FabricInv'
  OBVIOUS
<1> FabricTypeOK /\ expired \subseteq project
  BY DEF FabricInv
<1>1. ASSUME NEW p \in Projects, Changes(p) PROVE FabricInv'
  <2>1. FabricTypeOK' /\ Elsewhere(p)
    BY <1>1, FabricTypes DEF FabricInv, Kept, ForwardedOf
  <2>2. CallFits(p)' /\ Served(p)'
    BY <1>1, CallsKept
  <2>3. Kept(p)'
    BY <1>1, EveryCallKept
  <2>4. expired' \subseteq project'
    BY <1>1, ExpiredKept
  <2>5. \A q \in Projects \ {p} : CallFits(q)' /\ Served(q)' /\ Kept(q)'
    BY <2>1, OthersKept
  <2> QED
    BY <2>1, <2>2, <2>3, <2>4, <2>5 DEF FabricInv
<1>2. CASE ServerCrash
  <2>1. /\ UNCHANGED <<project, expired, has, acls, forwards, attached, promised, asked>>
        /\ call' = [p \in Projects |-> Resting] /\ faults' \in 0..MaxFaults
    BY <1>2, FaultCounted DEF ServerCrash, things, history
  <2>2. FabricTypeOK'
    BY <2>1, RestingRecord DEF FabricTypeOK, CallRecord
  <2>3. ASSUME NEW p \in Projects PROVE CallFits(p)' /\ Served(p)' /\ Kept(p)'
    <3>1. call'[p].at = "idle"
      BY <2>1, RestingRecord
    <3>2. Kept(p)'
      BY <2>1, <3>1, EndsKept
    <3>3. CallFits(p)' /\ Served(p)'
      BY <2>1, <3>1 DEF FabricInv, CallFits, Served, Teardown, Emptying, Removing,
                        Unpeering, Forwarding
    <3> QED
      BY <3>2, <3>3
  <2> QED
    BY <2>1, <2>2, <2>3 DEF FabricInv
<1>3. CASE UNCHANGED ovnVars
  <2>1. UNCHANGED <<project, expired, has, acls, forwards, attached, call, promised, asked, faults>>
    BY <1>3 DEF ovnVars, things, history
  <2>2. FabricTypeOK'
    BY <2>1 DEF FabricTypeOK
  <2>3. ASSUME NEW p \in Projects PROVE CallFits(p)' /\ Served(p)' /\ Kept(p)'
    <3>1. CallFits(p)' /\ Served(p)'
      BY <2>1 DEF FabricInv, CallFits, Served
    <3>2. Kept(p)'
      BY <2>1, NICKept
    <3> QED
      BY <3>1, <3>2
  <2> QED
    BY <2>1, <2>2, <2>3 DEF FabricInv
<1> QED
  BY <1>1, <1>2, <1>3 DEF FabricNext

LEMMA FabricInitInv == FabricInit => FabricInv
<1> SUFFICES ASSUME FabricInit PROVE FabricInv
  OBVIOUS
<1>1. FabricTypeOK
  BY FabricBounds, RestingRecord DEF FabricInit, FabricTypeOK, CallRecord
<1>2. ASSUME NEW p \in Projects PROVE CallFits(p) /\ Served(p) /\ Kept(p)
  <2>1. /\ call[p].at = "idle" /\ has[p] = {} /\ forwards[p] = {} /\ promised[p] = {} /\ asked[p] = {}
        /\ project = {} /\ expired = {}
    BY RestingRecord DEF FabricInit
  <2>2. CallFits(p) /\ Served(p)
    BY <2>1 DEF CallFits, Served, Teardown, Emptying, Removing, Unpeering, Forwarding
  <2>3. Kept(p)
    BY <2>1 DEF Kept, ScreenedOf, ForwardedOf, PromisedOf, AskedOf, NetworkIn,
                Emptying, Removing, Unpeering, Forwarding
  <2> QED
    BY <2>2, <2>3
<1> QED
  BY <1>1, <1>2 DEF FabricInv, FabricInit

\* The inductive invariant holds in every state of the fabric.
THEOREM FabricInvariance == FabricSpec => []FabricInv
BY FabricInitInv, FabricStepInv, PTL DEF FabricSpec

\* Screened: from before a network is created until after it is deleted it has its
\* own ACL and the baseline drops.
THEOREM AlwaysScreened == FabricSpec => []Screened
<1>1. FabricInv => Screened
  BY DEF FabricInv, Kept, ScreenedOf, Screened, NetworksIn, NetworkIn
<1> QED
  BY <1>1, FabricInvariance, PTL

\* OneForward: a retried or uncertain creation never leaves a second forward on a
\* network, a listen port leads to one target, and isolated networks have none.
THEOREM NeverASecondForward == FabricSpec => []OneForward
<1>1. ASSUME FabricInv, NEW p \in Projects, NEW n \in Networks
      PROVE  /\ Cardinality(ForwardsOn(p, n)) <= 1
             /\ \A t, u \in PortsOn(p, n) : t[3] = u[3] => t = u
             /\ ForwardsOn(p, n) # {} => <<"network", n, "nat">> \in has[p]
  <2>1. ForwardedOf(p)
    BY <1>1 DEF FabricInv, Kept
  <2>2. ForwardsOn(p, n) = {} \/ \E f : ForwardsOn(p, n) = {f}
    BY <2>1 DEF ForwardedOf, ForwardsOn
  <2>3. Cardinality(ForwardsOn(p, n)) <= 1
    <3>1. CASE ForwardsOn(p, n) = {}
      BY <3>1, FS_EmptySet
    <3>2. ASSUME NEW f, ForwardsOn(p, n) = {f} PROVE Cardinality(ForwardsOn(p, n)) <= 1
      <4>1. Cardinality({f}) = 1
        BY FS_Singleton
      <4> QED
        BY <3>2, <4>1
    <3> QED
      BY <2>2, <3>1, <3>2
  <2>4. \A t, u \in PortsOn(p, n) : t[3] = u[3] => t = u
    BY <2>1 DEF ForwardedOf, PortsOn, NetworkOf
  <2>5. ForwardsOn(p, n) # {} => <<"network", n, "nat">> \in has[p]
    BY <2>1 DEF ForwardedOf, ForwardsOn
  <2> QED
    BY <2>3, <2>4, <2>5
<1>2. FabricInv => OneForward
  BY <1>1 DEF OneForward
<1> QED
  BY <1>2, FabricInvariance, PTL

\* AnsweredForKept: what a call was answered for stays until a call takes it back,
\* whatever other calls break off in between.
THEOREM AnswersStand == FabricSpec => []AnsweredForKept
<1>1. FabricInv => AnsweredForKept
  BY DEF FabricInv, Kept, PromisedOf, AnsweredForKept
<1> QED
  BY <1>1, FabricInvariance, PTL

\* NothingInherited: after an answered deletion nothing of the network is left for
\* the next one of its name.
THEOREM DeletedIsGone == FabricSpec => []NothingInherited
<1>1. FabricInv => NothingInherited
  BY DEF FabricInv, Kept, AskedOf, NothingInherited
<1> QED
  BY <1>1, FabricInvariance, PTL

-----------------------------------------------------------------------------
(* IncusNetworks: what an operation may rely on in each of its places.       *)

Choosing == {"project", "reserve"}
Making == {"claim", "define", "configure"}
Creating == {"existing"} \cup Choosing \cup Making
Deleting == {"verify", "contents", "bridges", "unproject"}

Reserves(b, p) == \E n \in Nets : reserved[b][n] = p

OpFits(b) ==
    /\ op[b].at \in Creating => op[b].net \in Nets
    /\ op[b].at \in Creating \cup {"unbridge", "attach"} => op[b].name \in Physical
    /\ op[b].at = "project" => b \notin boxes /\ op[b].net = DefaultNet
    /\ op[b].at \in (Creating \cup Deleting) \ {"project"} => b \in boxes
    /\ op[b].at \in {"existing"} \cup Making => reserved[b][op[b].net] = op[b].name
    /\ op[b].at \in {"existing", "claim"} => op[b].resume

\* No bridge is configured yet for the network that is being created.
NotYet(b) ==
    op[b].at \in {"reserve"} \cup Making =>
        \A q \in Physical : ~(bridge[q].owner = b /\ bridge[q].net = op[b].net)

\* A name that was drawn was no bridge's then.  If it is one now, another sandbox
\* has taken the name as well.
Drawn(b) ==
    LET p == op[b].name IN
    /\ op[b].at \in Choosing /\ Exists(p) =>
           p \in contested \/ \E c \in Boxes \ {b} : Reserves(c, p)
    /\ op[b].at = "define" /\ ~op[b].resume /\ op[b].member = 1 /\ Exists(p) => p \in contested

\* The name that is given up for it is no bridge that only this key names.
GivenUp(b) ==
    LET old == reserved[b][op[b].net] IN
    op[b].at = "reserve" =>
        \/ old = NoName \/ old \in contested
        \/ \E n \in Nets : n # op[b].net /\ reserved[b][n] = old

\* What an operation goes on with by name: the bridges to be deleted are reserved
\* by the sandbox; that of a NIC is still its own, unless the name is contested.
Named(b) ==
    /\ op[b].at = "unbridge" => Reserves(b, op[b].name)
    /\ op[b].at \in Deleting => \A p \in op[b].todo : Reserves(b, p)
    /\ op[b].at = "attach" => op[b].name \in contested \/ Owns(b, op[b].name)

\* What a deletion does not leave behind.
Swept(b, p) ==
    /\ bridge[p].owner # b
    /\ Reserves(b, p) => ~Exists(p) \/ p \in contested

Sweeping(b) ==
    /\ op[b].at \in {"verify", "contents", "bridges"} =>
           \A p \in Physical : p \in op[b].todo \/ op[b].failed \/ Swept(b, p)
    /\ op[b].at = "unproject" => \A p \in Physical : Swept(b, p)

OpInv(b) == OpFits(b) /\ Named(b) /\ NotYet(b) /\ Drawn(b) /\ GivenUp(b) /\ Sweeping(b)

\* A name two sandboxes reserve was seen to be; a project that is gone reserves none.
ClaimsSeen ==
    /\ \A p \in Physical : \A b, c \in Boxes : b # c /\ Reserves(b, p) /\ Reserves(c, p) => p \in contested
    /\ \A b \in Boxes \ boxes : \A n \in Nets : reserved[b][n] = NoName

OwnedInNets == \A p \in Physical : bridge[p].owner # NoBox => bridge[p].net \in Nets

BridgesInv ==
    /\ BridgesTypeOK
    /\ OwnedIsReserved /\ PendingClaimed /\ OnOwnNetwork
    /\ ClaimsSeen /\ OwnedInNets
    /\ \A b \in Boxes : OpInv(b)

OpRecord == [at : Places, net : Nets \cup {NoNet}, name : Physical \cup {NoName},
             resume : BOOLEAN, member : 1..Members, todo : SUBSET Physical, failed : BOOLEAN]

OthersGoOn(b) == \A c \in Boxes \ {b} : op'[c] = op[c]

LEMMA IdleRecord == Idle \in OpRecord /\ Idle.at = "idle"
BY ClusterSize DEF Idle, OpRecord, Places

LEMMA LeaveMoves ==
    ASSUME BridgesTypeOK, NEW b \in Boxes, Leave(b)
    PROVE  op' \in [Boxes -> OpRecord] /\ op'[b].at = "idle" /\ OthersGoOn(b)
BY IdleRecord DEF BridgesTypeOK, OpRecord, Leave, OthersGoOn

LEMMA GotoMoves ==
    ASSUME BridgesTypeOK, NEW b \in Boxes, NEW place \in Places, Goto(b, place)
    PROVE  /\ op' \in [Boxes -> OpRecord] /\ OthersGoOn(b)
           /\ op'[b].at = place /\ op'[b].net = op[b].net /\ op'[b].name = op[b].name
           /\ op'[b].resume = op[b].resume /\ op'[b].member = op[b].member
           /\ op'[b].todo = op[b].todo /\ op'[b].failed = op[b].failed
<1>1. op \in [Boxes -> OpRecord] /\ op' = [op EXCEPT ![b] = [op[b] EXCEPT !.at = place]]
  BY DEF BridgesTypeOK, OpRecord, Goto
<1>2. op[b] \in OpRecord
  BY <1>1
<1>3. /\ [op[b] EXCEPT !.at = place] \in OpRecord
      /\ [op[b] EXCEPT !.at = place].at = place /\ [op[b] EXCEPT !.at = place].net = op[b].net
      /\ [op[b] EXCEPT !.at = place].name = op[b].name
      /\ [op[b] EXCEPT !.at = place].resume = op[b].resume
      /\ [op[b] EXCEPT !.at = place].member = op[b].member
      /\ [op[b] EXCEPT !.at = place].todo = op[b].todo
      /\ [op[b] EXCEPT !.at = place].failed = op[b].failed
  BY <1>2 DEF OpRecord
<1>4. op'[b] = [op[b] EXCEPT !.at = place] /\ OthersGoOn(b)
  BY <1>1 DEF OthersGoOn
<1> QED
  BY <1>1, <1>3, <1>4

\* An operation of b begins, with the record r.
LEMMA BeginMovesTo ==
    ASSUME BridgesTypeOK, NEW b \in Boxes, NEW r \in OpRecord, op' = [op EXCEPT ![b] = r]
    PROVE  op' \in [Boxes -> OpRecord] /\ OthersGoOn(b) /\ op'[b] = r
BY DEF BridgesTypeOK, OpRecord, OthersGoOn

LEMMA CollideMoves ==
    ASSUME BridgesTypeOK, NEW b \in Boxes, Collide(b)
    PROVE  /\ op' \in [Boxes -> OpRecord] /\ OthersGoOn(b)
           /\ \/ op'[b].at = "idle"
              \/ /\ op'[b].at = "reserve" /\ op'[b].net = op[b].net
                 /\ op'[b].name \in Physical /\ ~Exists(op'[b].name)
<1>1. CASE Leave(b)
  BY <1>1, LeaveMoves
<1>2. ASSUME NEW p \in Unused,
             op' = [op EXCEPT ![b].at = "reserve", ![b].name = p, ![b].resume = FALSE, ![b].member = 1]
      PROVE  /\ op' \in [Boxes -> OpRecord] /\ OthersGoOn(b)
             /\ op'[b].at = "reserve" /\ op'[b].net = op[b].net /\ op'[b].name = p
  <2> DEFINE r == [op[b] EXCEPT !.at = "reserve", !.name = p, !.resume = FALSE, !.member = 1]
  <2>1. op \in [Boxes -> OpRecord] /\ op[b] \in OpRecord /\ p \in Physical
    BY DEF BridgesTypeOK, OpRecord, Unused
  <2>2. op' = [op EXCEPT ![b] = r]
    BY <1>2, <2>1
  <2>5. 1 \in 1..Members /\ "reserve" \in Places
    BY ClusterSize DEF Places
  <2>3. r \in OpRecord /\ r.at = "reserve" /\ r.net = op[b].net /\ r.name = p
    BY <2>1, <2>5 DEF OpRecord
  <2>4. op'[b] = r /\ OthersGoOn(b) /\ op' \in [Boxes -> OpRecord]
    BY <2>1, <2>2, <2>3 DEF OthersGoOn
  <2> QED
    BY <2>3, <2>4
<1> QED
  BY <1>1, <1>2 DEF Collide, Unused

LEMMA NextMemberMoves ==
    ASSUME BridgesTypeOK, NEW b \in Boxes, At(b, "define"), NextMember(b)
    PROVE  /\ op' \in [Boxes -> OpRecord] /\ OthersGoOn(b)
           /\ op'[b].at \in {"define", "configure"}
           /\ op'[b].at = "define" => op'[b].member > 1
           /\ op'[b].net = op[b].net /\ op'[b].name = op[b].name
<1>1. CASE Goto(b, "configure")
  BY <1>1, GotoMoves DEF Places
<1>2. CASE op[b].member # Members /\ op' = [op EXCEPT ![b].member = @ + 1]
  <2> DEFINE r == [op[b] EXCEPT !.member = op[b].member + 1]
  <2>1. op \in [Boxes -> OpRecord] /\ op[b] \in OpRecord
    BY DEF BridgesTypeOK, OpRecord
  <2>2. op' = [op EXCEPT ![b] = r]
    BY <1>2, <2>1
  <2>3. op[b].member \in 1..Members /\ op[b].member + 1 \in 1..Members
    BY <1>2, <2>1, ClusterSize DEF OpRecord
  <2>4. /\ r \in OpRecord /\ r.at = op[b].at /\ r.member = op[b].member + 1
        /\ r.net = op[b].net /\ r.name = op[b].name
    BY <2>1, <2>3 DEF OpRecord
  <2>5. op'[b] = r /\ OthersGoOn(b) /\ op' \in [Boxes -> OpRecord]
    BY <2>1, <2>2, <2>4 DEF OthersGoOn
  <2> QED
    BY <2>3, <2>4, <2>5, ClusterSize DEF At
<1> QED
  BY <1>1, <1>2 DEF NextMember

-----------------------------------------------------------------------------
LEMMA OwnedReserved ==
    ASSUME BridgesInv, NEW b \in Boxes, NEW p \in Physical, Owns(b, p)
    PROVE  Reserves(b, p)
BY Sentinels DEF BridgesInv, OwnedIsReserved, OwnedInNets, Owns, Reserves

\* What one sandbox's step leaves to the others.
ProjectsElsewhere(b) ==
    \A c \in Boxes \ {b} :
        op'[c] = op[c] /\ (c \in boxes' <=> c \in boxes) /\ reserved'[c] = reserved[c]

LEMMA ReservationMoves ==
    ASSUME BridgesTypeOK, NEW b \in Boxes, NEW n \in Nets, NEW p \in Physical,
           Reservations([reserved EXCEPT ![b][n] = p])
    PROVE  /\ reserved' \in [Boxes -> [Nets -> Physical \cup {NoName}]]
           /\ contested' \subseteq Physical /\ contested \subseteq contested'
           /\ \A c \in Boxes \ {b} : reserved'[c] = reserved[c]
           /\ reserved'[b][n] = p
           /\ \A m \in Nets \ {n} : reserved'[b][m] = reserved[b][m]
<1>1. reserved' = [reserved EXCEPT ![b] = [reserved[b] EXCEPT ![n] = p]]
  BY DEF Reservations, BridgesTypeOK
<1> QED
  BY <1>1 DEF Reservations, BridgesTypeOK

LEMMA ReservedTwice ==
    ASSUME BridgesTypeOK, NEW r \in [Boxes -> [Nets -> Physical \cup {NoName}]], Reservations(r)
    PROVE  \A p \in Physical : \A b, c \in Boxes :
               b # c /\ Reserves(b, p)' /\ Reserves(c, p)' => p \in contested'
BY Sentinels DEF Reservations, NamesOf, Reserves

LEMMA ClaimantsReserve ==
    ASSUME BridgesTypeOK, NEW p \in Physical
    PROVE  Claimants(p) = {b \in Boxes : Reserves(b, p)}
BY Sentinels DEF Claimants, NamesOf, Reserves

LEMMA AbsentExists ==
    ASSUME BridgesTypeOK, NEW p \in Physical
    PROVE  /\ bridge[p].owner # NoBox => Exists(p)
           /\ bridge[p].members # {} => Exists(p)
           /\ Pending(p) <=> Exists(p) /\ bridge[p].owner = NoBox
BY DEF Exists, Pending, Absent

-----------------------------------------------------------------------------
\* The state the sandboxes share, as it is known of every state.
SharedInv == OwnedIsReserved /\ PendingClaimed /\ OnOwnNetwork /\ ClaimsSeen /\ OwnedInNets

\* No call that changes a project or a bridge: the instances of b, at most.
Quiet(b) ==
    /\ boxes' = boxes /\ reserved' = reserved /\ bridge' = bridge /\ contested' = contested
    /\ OthersGoOn(b)

LEMMA QuietShared ==
    ASSUME BridgesInv, NEW b \in Boxes, Quiet(b), \A c \in Boxes : \A p \in nics'[c] \ contested : Owns(c, p)
    PROVE  SharedInv' /\ \A c \in Boxes \ {b} : OpInv(c)'
<1>1. OwnedIsReserved' /\ OwnedInNets'
  BY DEF BridgesInv, Quiet, OwnedIsReserved, OwnedInNets
<1>2. \A p \in Physical : (Exists(p)' <=> Exists(p)) /\ (Pending(p)' <=> Pending(p))
                          /\ Claimants(p)' = Claimants(p)
  BY DEF Quiet, Exists, Pending, Claimants, NamesOf
<1>3. PendingClaimed'
  BY <1>2 DEF BridgesInv, Quiet, PendingClaimed
<1>4. OnOwnNetwork'
  BY DEF Quiet, OnOwnNetwork, Owns
<1>5. \A c \in Boxes : \A p : Reserves(c, p)' <=> Reserves(c, p)
  BY DEF Quiet, Reserves
<1>6. ClaimsSeen'
  BY <1>5 DEF BridgesInv, Quiet, ClaimsSeen
<1>7. ASSUME NEW c \in Boxes \ {b} PROVE OpInv(c)'
  <2>1. op'[c] = op[c] /\ OpInv(c)
    BY DEF Quiet, OthersGoOn, BridgesInv
  <2>2. OpFits(c)' /\ NotYet(c)' /\ GivenUp(c)'
    BY <2>1 DEF Quiet, OpInv, OpFits, NotYet, GivenUp
  <2>6. Named(c)'
    BY <2>1, <1>5 DEF Quiet, OpInv, Named, Owns
  <2>3. Drawn(c)'
    <3>1. Exists(op[c].name)' <=> Exists(op[c].name)
      BY <2>1 DEF Quiet, Exists
    <3> QED
      BY <2>1, <1>5, <3>1 DEF Quiet, OpInv, Drawn
  <2>4. \A p \in Physical : Swept(c, p)' <=> Swept(c, p)
    BY <1>2, <1>5 DEF Quiet, Swept
  <2>5. Sweeping(c)'
    BY <2>1, <2>4 DEF OpInv, Sweeping
  <2> QED
    BY <2>2, <2>3, <2>5, <2>6 DEF OpInv
<1> QED
  BY <1>1, <1>3, <1>4, <1>6, <1>7 DEF SharedInv

LEMMA IdleFits ==
    ASSUME NEW b \in Boxes, op'[b].at = "idle" PROVE OpInv(b)'
BY DEF OpInv, OpFits, Named, NotYet, Drawn, GivenUp, Sweeping, Creating, Choosing, Making, Deleting

\* The invariant follows from a type, what is shared, and what is each sandbox's.
LEMMA StepKept ==
    ASSUME NEW b \in Boxes, BridgesTypeOK', SharedInv', OpInv(b)', \A c \in Boxes \ {b} : OpInv(c)'
    PROVE  BridgesInv'
BY DEF BridgesInv, SharedInv

-----------------------------------------------------------------------------
LEMMA CreateSandboxKept ==
    ASSUME BridgesInv, NEW b \in Boxes, CreateSandbox(b) PROVE BridgesInv'
<1> BridgesTypeOK
  BY DEF BridgesInv
<1>1. PICK p \in Unused : op' = [op EXCEPT ![b] = [Idle EXCEPT !.at = "project", !.net = DefaultNet,
                                                             !.name = p]]
  BY DEF CreateSandbox
<1> DEFINE r == [Idle EXCEPT !.at = "project", !.net = DefaultNet, !.name = p]
<1>2. p \in Physical /\ ~Exists(p)
  BY DEF Unused
<1>3. r \in OpRecord /\ r.at = "project" /\ r.net = DefaultNet /\ r.name = p
  BY <1>2, DefaultExists, IdleRecord DEF OpRecord, Places, Idle
<1>4. op' \in [Boxes -> OpRecord] /\ OthersGoOn(b) /\ op'[b] = r
  BY <1>1, <1>3, BeginMovesTo
<1>5. b \notin boxes /\ UNCHANGED <<boxes, condemned, reserved, bridge, nics, contested, failures>>
  BY DEF CreateSandbox, ofProject
<1>6. BridgesTypeOK'
  BY <1>4, <1>5 DEF BridgesTypeOK, OpRecord
<1>7. SharedInv' /\ \A c \in Boxes \ {b} : OpInv(c)'
  BY <1>4, <1>5, QuietShared DEF Quiet, BridgesInv, OnOwnNetwork
<1>8. OpFits(b)' /\ Named(b)' /\ NotYet(b)' /\ GivenUp(b)' /\ Sweeping(b)'
  BY <1>2, <1>3, <1>4, <1>5, DefaultExists
     DEF OpFits, Named, NotYet, GivenUp, Sweeping, Creating, Choosing, Making, Deleting
<1>9. Drawn(b)'
  BY <1>2, <1>3, <1>4, <1>5 DEF Drawn, Choosing, Exists
<1> QED
  BY <1>6, <1>7, <1>8, <1>9, StepKept DEF OpInv

LEMMA CreateNetworkKept ==
    ASSUME BridgesInv, NEW b \in Boxes, NEW n \in Nets, CreateNetwork(b, n) PROVE BridgesInv'
<1> BridgesTypeOK
  BY DEF BridgesInv
<1>1. b \in boxes /\ UNCHANGED <<boxes, condemned, reserved, bridge, nics, contested, failures>>
  BY DEF CreateNetwork, Live, ofProject
<1>2. ASSUME NEW r \in OpRecord, op' = [op EXCEPT ![b] = r],
             OpFits(b)' /\ Named(b)' /\ NotYet(b)' /\ Drawn(b)' /\ GivenUp(b)' /\ Sweeping(b)'
      PROVE  BridgesInv'
  <2>1. op' \in [Boxes -> OpRecord] /\ OthersGoOn(b) /\ op'[b] = r
    BY <1>2, BeginMovesTo
  <2>2. BridgesTypeOK'
    BY <1>1, <2>1 DEF BridgesTypeOK, OpRecord
  <2>3. SharedInv' /\ \A c \in Boxes \ {b} : OpInv(c)'
    BY <1>1, <2>1, QuietShared DEF Quiet, BridgesInv, OnOwnNetwork
  <2> QED
    BY <1>2, <2>2, <2>3, StepKept DEF OpInv
<1>3. CASE /\ reserved[b][n] # NoName
           /\ op' = [op EXCEPT ![b] = [Idle EXCEPT !.at = "existing", !.net = n, !.resume = TRUE,
                                                   !.name = reserved[b][n]]]
  <2> DEFINE r == [Idle EXCEPT !.at = "existing", !.net = n, !.resume = TRUE, !.name = reserved[b][n]]
  <2>1. reserved[b][n] \in Physical
    BY <1>3 DEF BridgesTypeOK
  <2>2. r \in OpRecord /\ r.at = "existing" /\ r.net = n /\ r.name = reserved[b][n]
    BY <2>1, IdleRecord DEF OpRecord, Places, Idle
  <2>3. op'[b] = r
    BY <1>3, <2>2, BeginMovesTo
  <2>4. OpFits(b)' /\ Named(b)' /\ NotYet(b)' /\ Drawn(b)' /\ GivenUp(b)' /\ Sweeping(b)'
    BY <1>1, <2>1, <2>2, <2>3
       DEF OpFits, Named, NotYet, Drawn, GivenUp, Sweeping, Creating, Choosing, Making, Deleting
  <2> QED
    BY <1>2, <1>3, <2>2, <2>4
<1>4. ASSUME NEW p \in Unused, reserved[b][n] = NoName,
             op' = [op EXCEPT ![b] = [Idle EXCEPT !.at = "reserve", !.net = n, !.name = p]]
      PROVE  BridgesInv'
  <2> DEFINE r == [Idle EXCEPT !.at = "reserve", !.net = n, !.name = p]
  <2>1. p \in Physical /\ ~Exists(p)
    BY DEF Unused
  <2>2. r \in OpRecord /\ r.at = "reserve" /\ r.net = n /\ r.name = p
    BY <2>1, IdleRecord DEF OpRecord, Places, Idle
  <2>3. op'[b] = r
    BY <1>4, <2>2, BeginMovesTo
  <2>4. OpFits(b)' /\ Named(b)' /\ GivenUp(b)' /\ Sweeping(b)'
    BY <1>1, <1>4, <2>1, <2>2, <2>3 DEF OpFits, Named, GivenUp, Sweeping, Creating, Choosing,
                                        Making, Deleting
  <2>5. NotYet(b)'
    <3>1. \A q \in Physical : ~(bridge[q].owner = b /\ bridge[q].net = n)
      BY <1>4, Sentinels DEF BridgesInv, OwnedIsReserved
    <3> QED
      BY <1>1, <2>2, <2>3, <3>1 DEF NotYet
  <2>6. Drawn(b)'
    BY <1>1, <2>1, <2>2, <2>3 DEF Drawn, Choosing, Exists
  <2> QED
    BY <1>2, <1>4, <2>2, <2>4, <2>5, <2>6
<1> QED
  BY <1>3, <1>4 DEF CreateNetwork

\* A collision is met with a bridge another sandbox may own; the name is drawn again.
LEMMA CollideFits ==
    ASSUME BridgesInv, NEW b \in Boxes, Collide(b), op[b].net \in Nets, b \in boxes,
           \A q \in Physical : ~(bridge[q].owner = b /\ bridge[q].net = op[b].net),
           \/ reserved[b][op[b].net] \in contested
           \/ \E n \in Nets : n # op[b].net /\ reserved[b][n] = reserved[b][op[b].net],
           UNCHANGED <<boxes, condemned, reserved, bridge, nics, contested, failures>>
    PROVE  BridgesInv'
<1> BridgesTypeOK
  BY DEF BridgesInv
<1>1. /\ op' \in [Boxes -> OpRecord] /\ OthersGoOn(b)
      /\ \/ op'[b].at = "idle"
         \/ /\ op'[b].at = "reserve" /\ op'[b].net = op[b].net
            /\ op'[b].name \in Physical /\ ~Exists(op'[b].name)
  BY CollideMoves
<1>2. BridgesTypeOK'
  BY <1>1 DEF BridgesTypeOK, OpRecord
<1>3. SharedInv' /\ \A c \in Boxes \ {b} : OpInv(c)'
  BY <1>1, QuietShared DEF Quiet, BridgesInv, OnOwnNetwork
<1>4. CASE op'[b].at = "idle"
  BY <1>2, <1>3, <1>4, IdleFits, StepKept
<1>5. CASE /\ op'[b].at = "reserve" /\ op'[b].net = op[b].net
           /\ op'[b].name \in Physical /\ ~Exists(op'[b].name)
  <2>1. OpFits(b)' /\ Named(b)' /\ NotYet(b)' /\ GivenUp(b)' /\ Sweeping(b)'
    BY <1>5 DEF OpFits, Named, NotYet, GivenUp, Sweeping, Creating, Choosing, Making, Deleting
  <2>2. Drawn(b)'
    BY <1>5 DEF Drawn, Choosing, Exists
  <2> QED
    BY <1>2, <1>3, <2>1, <2>2, StepKept DEF OpInv
<1> QED
  BY <1>1, <1>4, <1>5

\* The operation goes to a place of its own without a call that changes anything.
LEMMA GotoFits ==
    ASSUME BridgesInv, NEW b \in Boxes, NEW place \in Places, Goto(b, place), OpInv(b)',
           UNCHANGED <<boxes, condemned, reserved, bridge, nics, contested, failures>>
    PROVE  BridgesInv'
<1> BridgesTypeOK
  BY DEF BridgesInv
<1>1. op' \in [Boxes -> OpRecord] /\ OthersGoOn(b)
  BY GotoMoves
<1>2. BridgesTypeOK'
  BY <1>1 DEF BridgesTypeOK, OpRecord
<1>3. SharedInv' /\ \A c \in Boxes \ {b} : OpInv(c)'
  BY <1>1, QuietShared DEF Quiet, BridgesInv, OnOwnNetwork
<1> QED
  BY <1>2, <1>3, StepKept

LEMMA LeaveFits ==
    ASSUME BridgesInv, NEW b \in Boxes, Leave(b),
           UNCHANGED <<boxes, condemned, reserved, bridge, nics, contested>>,
           failures' \in 0..MaxFailures
    PROVE  BridgesInv'
<1> BridgesTypeOK
  BY DEF BridgesInv
<1>1. op' \in [Boxes -> OpRecord] /\ op'[b].at = "idle" /\ OthersGoOn(b)
  BY LeaveMoves
<1>2. BridgesTypeOK'
  BY <1>1 DEF BridgesTypeOK, OpRecord
<1>3. SharedInv' /\ \A c \in Boxes \ {b} : OpInv(c)'
  BY <1>1, QuietShared DEF Quiet, BridgesInv, OnOwnNetwork
<1> QED
  BY <1>1, <1>2, <1>3, IdleFits, StepKept

LEMMA ExistingKept ==
    ASSUME BridgesInv, NEW b \in Boxes, Existing(b) PROVE BridgesInv'
<1> DEFINE p == op[b].name
<1> BridgesTypeOK
  BY DEF BridgesInv
<1>1. /\ op[b].at = "existing" /\ UNCHANGED <<boxes, condemned, reserved, bridge, nics, contested, failures>>
      /\ \/ ~Exists(p) /\ Goto(b, "define")
         \/ Owns(b, p) /\ bridge[p].net = op[b].net /\ Leave(b)
         \/ bridge[p].owner # NoBox /\ ~(Owns(b, p) /\ bridge[p].net = op[b].net) /\ Collide(b)
         \/ Pending(p) /\ Goto(b, "claim")
  BY DEF Existing, At, ofProject
<1>2. b \in boxes /\ op[b].net \in Nets /\ p \in Physical /\ reserved[b][op[b].net] = p
  BY <1>1 DEF BridgesInv, OpInv, OpFits, Creating, Deleting
<1>3. ASSUME NEW q \in Physical, bridge[q].owner = b, bridge[q].net = op[b].net PROVE q = p
  BY <1>2, <1>3, Sentinels DEF BridgesInv, OwnedIsReserved
<1>4. ASSUME Goto(b, "define") \/ Goto(b, "claim"), ~Owns(b, p) PROVE BridgesInv'
  <2>1. PICK place \in {"define", "claim"} : Goto(b, place)
    BY <1>4
  <2>2. /\ op'[b].at = place /\ op'[b].net = op[b].net /\ op'[b].name = p
        /\ op'[b].resume = op[b].resume /\ op'[b].member = op[b].member
    BY <2>1, GotoMoves DEF Places
  <2>3. op[b].resume
    BY <1>1 DEF BridgesInv, OpInv, OpFits
  <2>4. OpFits(b)' /\ Named(b)' /\ GivenUp(b)' /\ Sweeping(b)'
    BY <1>1, <1>2, <2>2, <2>3 DEF OpFits, Named, GivenUp, Sweeping, Creating, Choosing, Making,
                                  Deleting
  <2>5. NotYet(b)'
    BY <1>1, <1>3, <1>4, <2>2 DEF NotYet, Owns
  <2>6. Drawn(b)'
    BY <1>1, <2>2, <2>3 DEF Drawn, Choosing
  <2> QED
    BY <1>1, <2>1, <2>4, <2>5, <2>6, GotoFits DEF OpInv, Places
<1>5. CASE ~Exists(p) /\ Goto(b, "define")
  <2>1. ~Owns(b, p)
    BY <1>2, <1>5, AbsentExists, Sentinels DEF Owns
  <2> QED
    BY <1>4, <1>5, <2>1
<1>6. CASE Leave(b)
  BY <1>1, <1>6, LeaveFits DEF BridgesTypeOK
<1>7. CASE bridge[p].owner # NoBox /\ ~(Owns(b, p) /\ bridge[p].net = op[b].net) /\ Collide(b)
  <2>1. \A q \in Physical : ~(bridge[q].owner = b /\ bridge[q].net = op[b].net)
    BY <1>3, <1>7 DEF Owns
  <2>2. CASE bridge[p].owner = b
    <3>1. reserved[b][bridge[p].net] = p /\ bridge[p].net # op[b].net /\ bridge[p].net \in Nets
      BY <1>2, <1>7, <2>2 DEF Owns, BridgesInv, OwnedIsReserved, OwnedInNets
    <3> QED
      BY <1>1, <1>2, <1>7, <2>1, <3>1, CollideFits
  <2>3. CASE bridge[p].owner # b
    <3>1. bridge[p].owner \in Boxes /\ Reserves(bridge[p].owner, p) /\ Reserves(b, p)
      BY <1>2, <1>7 DEF BridgesInv, BridgesTypeOK, OwnedIsReserved, OwnedInNets, Reserves
    <3>2. p \in contested
      BY <1>2, <2>3, <3>1 DEF BridgesInv, ClaimsSeen
    <3> QED
      BY <1>1, <1>2, <1>7, <2>1, <3>2, CollideFits
  <2> QED
    BY <2>2, <2>3
<1>8. CASE Pending(p) /\ Goto(b, "claim")
  <2>1. ~Owns(b, p)
    BY <1>8, Sentinels DEF Pending, Owns
  <2> QED
    BY <1>4, <1>8, <2>1
<1> QED
  BY <1>1, <1>5, <1>6, <1>7, <1>8

LEMMA ClaimKept ==
    ASSUME BridgesInv, NEW b \in Boxes, Claim(b) PROVE BridgesInv'
<1> DEFINE p == op[b].name
<1> BridgesTypeOK
  BY DEF BridgesInv
<1>1. /\ op[b].at = "claim" /\ UNCHANGED <<boxes, condemned, reserved, bridge, nics, contested, failures>>
      /\ \/ Mine(b, p) /\ Goto(b, "define")
         \/ ~Mine(b, p) /\ Collide(b)
  BY DEF Claim, At, ofProject
<1>2. b \in boxes /\ op[b].net \in Nets /\ p \in Physical /\ reserved[b][op[b].net] = p
  BY <1>1 DEF BridgesInv, OpInv, OpFits, Creating, Making, Deleting
<1>3. \A q \in Physical : ~(bridge[q].owner = b /\ bridge[q].net = op[b].net)
  BY <1>1 DEF BridgesInv, OpInv, NotYet, Making
<1>4. CASE Mine(b, p) /\ Goto(b, "define")
  <2>1. /\ op'[b].at = "define" /\ op'[b].net = op[b].net /\ op'[b].name = p
        /\ op'[b].resume = op[b].resume
    BY <1>4, GotoMoves DEF Places
  <2>2. op[b].resume
    BY <1>1 DEF BridgesInv, OpInv, OpFits
  <2>3. OpFits(b)' /\ Named(b)' /\ GivenUp(b)' /\ Sweeping(b)'
    BY <1>1, <1>2, <2>1 DEF OpFits, Named, GivenUp, Sweeping, Creating, Choosing, Making, Deleting
  <2>4. NotYet(b)' /\ Drawn(b)'
    BY <1>1, <1>3, <2>1, <2>2 DEF NotYet, Drawn, Choosing
  <2> QED
    BY <1>1, <1>4, <2>3, <2>4, GotoFits DEF OpInv, Places
<1>5. CASE ~Mine(b, p) /\ Collide(b)
  <2>1. Exists(p) /\ ~Owns(b, p) /\ (Pending(p) => Claimants(p) # {b})
    BY <1>5 DEF Mine
  <2>2. CASE bridge[p].owner = NoBox
    <3>1. Claimants(p) # {b} /\ b \in Claimants(p)
      BY <1>2, <2>1, <2>2, AbsentExists, ClaimantsReserve DEF Reserves
    <3>2. PICK c \in Boxes \ {b} : Reserves(c, p) /\ Reserves(b, p)
      BY <1>2, <3>1, ClaimantsReserve
    <3>3. p \in contested
      BY <1>2, <3>2 DEF BridgesInv, ClaimsSeen
    <3> QED
      BY <1>1, <1>2, <1>3, <1>5, <3>3, CollideFits
  <2>3. CASE bridge[p].owner # NoBox
    <3>1. bridge[p].owner \in Boxes \ {b} /\ Reserves(bridge[p].owner, p) /\ Reserves(b, p)
      BY <1>2, <2>1, <2>3 DEF BridgesInv, BridgesTypeOK, OwnedIsReserved, OwnedInNets,
                              Reserves, Owns
    <3>2. p \in contested
      BY <1>2, <3>1 DEF BridgesInv, ClaimsSeen
    <3> QED
      BY <1>1, <1>2, <1>3, <1>5, <3>2, CollideFits
  <2> QED
    BY <2>2, <2>3
<1> QED
  BY <1>1, <1>4, <1>5

LEMMA VerifyKept ==
    ASSUME BridgesInv, NEW b \in Boxes, Verify(b) PROVE BridgesInv'
<1> BridgesTypeOK
  BY DEF BridgesInv
<1>1. /\ op[b].at = "verify" /\ UNCHANGED <<boxes, condemned, reserved, bridge, nics, contested, failures>>
      /\ (Goto(b, "contents") \/ Leave(b))
  BY DEF Verify, At, ofProject
<1>2. CASE Goto(b, "contents")
  <2>1. /\ op'[b].at = "contents" /\ op'[b].todo = op[b].todo /\ op'[b].failed = op[b].failed
    BY <1>2, GotoMoves DEF Places
  <2>2. OpFits(b) /\ Named(b) /\ Sweeping(b)
    BY DEF BridgesInv, OpInv
  <2>3. OpFits(b)' /\ Named(b)' /\ NotYet(b)' /\ Drawn(b)' /\ GivenUp(b)'
    BY <1>1, <2>1, <2>2 DEF OpFits, Named, Reserves, NotYet, Drawn, GivenUp, Creating, Choosing, Making,
                            Deleting
  <2>4. \A q \in Physical : Swept(b, q)' <=> Swept(b, q)
    BY <1>1 DEF Swept, Exists, Reserves
  <2>5. Sweeping(b)'
    BY <1>1, <2>1, <2>2, <2>4 DEF Sweeping
  <2> QED
    BY <1>1, <1>2, <2>3, <2>5, GotoFits DEF OpInv, Places
<1>3. CASE Leave(b)
  BY <1>1, <1>3, LeaveFits DEF BridgesTypeOK
<1> QED
  BY <1>1, <1>2, <1>3

LEMMA EndNetworksKept ==
    ASSUME BridgesInv, NEW b \in Boxes, EndNetworks(b) PROVE BridgesInv'
<1> BridgesTypeOK
  BY DEF BridgesInv
<1>1. /\ op[b].at = "bridges" /\ op[b].todo = {}
      /\ UNCHANGED <<boxes, condemned, reserved, bridge, nics, contested, failures>>
      /\ ((~op[b].failed /\ Goto(b, "unproject")) \/ Leave(b))
  BY DEF EndNetworks, At, ofProject
<1>2. CASE ~op[b].failed /\ Goto(b, "unproject")
  <2>1. op'[b].at = "unproject" /\ op'[b].todo = {}
    BY <1>1, <1>2, GotoMoves DEF Places
  <2>2. OpFits(b) /\ Named(b) /\ Sweeping(b)
    BY DEF BridgesInv, OpInv
  <2>3. OpFits(b)' /\ Named(b)' /\ NotYet(b)' /\ Drawn(b)' /\ GivenUp(b)'
    BY <1>1, <2>1, <2>2 DEF OpFits, Named, Reserves, NotYet, Drawn, GivenUp, Creating, Choosing, Making,
                            Deleting
  <2>4. \A q \in Physical : Swept(b, q)' <=> Swept(b, q)
    BY <1>1 DEF Swept, Exists, Reserves
  <2>5. Sweeping(b)'
    BY <1>1, <1>2, <2>1, <2>2, <2>4 DEF Sweeping
  <2> QED
    BY <1>1, <1>2, <2>3, <2>5, GotoFits DEF OpInv, Places
<1>3. CASE Leave(b)
  BY <1>1, <1>3, LeaveFits DEF BridgesTypeOK
<1> QED
  BY <1>1, <1>2, <1>3

LEMMA DeleteBegunKept ==
    ASSUME BridgesInv, NEW b \in Boxes, DeleteSandbox(b) PROVE BridgesInv'
<1> BridgesTypeOK
  BY DEF BridgesInv
<1>1. /\ b \in boxes /\ condemned' = condemned \cup {b}
      /\ op' = [op EXCEPT ![b] = [Idle EXCEPT !.at = "verify", !.todo = BridgeNames(b)]]
      /\ UNCHANGED <<boxes, reserved, bridge, nics, contested, failures>>
  BY DEF DeleteSandbox
<1> DEFINE r == [Idle EXCEPT !.at = "verify", !.todo = BridgeNames(b)]
<1>2. BridgeNames(b) \subseteq Physical
  BY DEF BridgeNames, NamesOf, BridgesTypeOK
<1>3. r \in OpRecord /\ r.at = "verify" /\ r.todo = BridgeNames(b)
  BY <1>2, IdleRecord DEF OpRecord, Places, Idle
<1>4. op' \in [Boxes -> OpRecord] /\ OthersGoOn(b) /\ op'[b] = r
  BY <1>1, <1>3, BeginMovesTo
<1>5. BridgesTypeOK'
  BY <1>1, <1>4 DEF BridgesTypeOK, OpRecord
<1>6. SharedInv' /\ \A c \in Boxes \ {b} : OpInv(c)'
  BY <1>1, <1>4, QuietShared DEF Quiet, BridgesInv, OnOwnNetwork
<1>10. \A p \in BridgeNames(b) : Reserves(b, p)'
  BY <1>1, OwnedReserved, Sentinels DEF BridgeNames, NamesOf, Reserves
<1>7. OpFits(b)' /\ Named(b)' /\ NotYet(b)' /\ Drawn(b)' /\ GivenUp(b)'
  BY <1>1, <1>3, <1>4, <1>10 DEF OpFits, Named, NotYet, Drawn, GivenUp, Creating, Choosing, Making,
                          Deleting
<1>8. ASSUME NEW p \in Physical, p \notin BridgeNames(b) PROVE Swept(b, p)'
  <2>1. ~Owns(b, p) /\ ~Reserves(b, p)
    BY <1>8, Sentinels DEF BridgeNames, NamesOf, Reserves
  <2> QED
    BY <1>1, <2>1 DEF Swept, Owns, Reserves
<1>9. Sweeping(b)'
  BY <1>3, <1>4, <1>8 DEF Sweeping
<1> QED
  BY <1>5, <1>6, <1>7, <1>9, StepKept DEF OpInv

\* The instances of b lose NICs.
LEMMA EmptyKept ==
    ASSUME BridgesInv, NEW b \in Boxes, Empty(b) PROVE BridgesInv'
<1> BridgesTypeOK
  BY DEF BridgesInv
<1>1. op[b].at = "contents" /\ UNCHANGED <<boxes, condemned, reserved, bridge, contested>>
  BY DEF Empty, At, ofProject
<1>2. PICK kept \in SUBSET nics[b] :
          /\ nics' = [nics EXCEPT ![b] = kept]
          /\ failures' \in 0..MaxFailures
          /\ (Goto(b, "bridges") \/ Leave(b))
  <2>1. \/ nics' = [nics EXCEPT ![b] = {}] /\ Goto(b, "bridges") /\ UNCHANGED failures
        \/ /\ failures < MaxFailures /\ failures' = failures + 1
           /\ \E kept \in SUBSET nics[b] : nics' = [nics EXCEPT ![b] = kept]
           /\ Leave(b)
    BY DEF Empty
  <2> QED
    BY <2>1, FailureBound DEF BridgesTypeOK
<1>3. /\ op' \in [Boxes -> OpRecord] /\ OthersGoOn(b)
      /\ \/ op'[b].at = "idle"
         \/ op'[b].at = "bridges" /\ op'[b].todo = op[b].todo /\ op'[b].failed = op[b].failed
  BY <1>2, GotoMoves, LeaveMoves DEF Places
<1>4. \A c \in Boxes : nics'[c] \subseteq nics[c]
  BY <1>2 DEF BridgesTypeOK
<1>5. BridgesTypeOK'
  BY <1>1, <1>2, <1>3 DEF BridgesTypeOK, OpRecord
<1>6. SharedInv' /\ \A c \in Boxes \ {b} : OpInv(c)'
  BY <1>1, <1>3, <1>4, QuietShared DEF Quiet, BridgesInv, OnOwnNetwork
<1>7. CASE op'[b].at = "idle"
  BY <1>5, <1>6, <1>7, IdleFits, StepKept
<1>8. CASE op'[b].at = "bridges" /\ op'[b].todo = op[b].todo /\ op'[b].failed = op[b].failed
  <2>1. OpFits(b) /\ Named(b) /\ Sweeping(b)
    BY DEF BridgesInv, OpInv
  <2>2. OpFits(b)' /\ Named(b)' /\ NotYet(b)' /\ Drawn(b)' /\ GivenUp(b)'
    BY <1>1, <1>8, <2>1 DEF OpFits, Named, Reserves, NotYet, Drawn, GivenUp, Creating, Choosing, Making,
                            Deleting
  <2>3. \A q \in Physical : Swept(b, q)' <=> Swept(b, q)
    BY <1>1 DEF Swept, Exists, Reserves
  <2>4. Sweeping(b)'
    BY <1>1, <1>8, <2>1, <2>3 DEF Sweeping
  <2> QED
    BY <1>5, <1>6, <2>2, <2>4, StepKept DEF OpInv
<1> QED
  BY <1>3, <1>7, <1>8

LEMMA FailKept ==
    ASSUME BridgesInv, NEW b \in Boxes, Fail(b) PROVE BridgesInv'
<1>1. /\ failures < MaxFailures /\ failures' = failures + 1 /\ Leave(b)
      /\ UNCHANGED <<boxes, condemned, reserved, bridge, nics, contested>>
  BY DEF Fail, ofProject
<1>2. failures' \in 0..MaxFailures
  BY <1>1, FailureBound DEF BridgesInv, BridgesTypeOK
<1> QED
  BY <1>1, <1>2, LeaveFits

\* A NIC is added to, or detached from, an instance of b.  The bridge that was
\* resolved for it is still owned by b, or its name is contested.
LEMMA NICsKept ==
    ASSUME BridgesInv, NEW b \in Boxes, AddNIC(b) \/ (\E x \in Physical : Detach(b, x))
    PROVE  BridgesInv'
<1> BridgesTypeOK
  BY DEF BridgesInv
<1>1. UNCHANGED <<boxes, condemned, reserved, bridge, contested, failures>>
  BY DEF AddNIC, Detach, ofProject
<1>2. PICK own \in SUBSET Physical : /\ nics' = [nics EXCEPT ![b] = own]
                                     /\ \A p \in own \ contested : p \in nics[b] \/ Owns(b, p)
  <2>1. CASE AddNIC(b)
    <3> DEFINE x == op[b].name
    <3>1. x \in Physical /\ (x \in contested \/ Owns(b, x))
      BY <2>1 DEF AddNIC, At, BridgesInv, OpInv, OpFits, Named
    <3>2. nics[b] \cup {x} \in SUBSET Physical /\ nics[b] \in SUBSET Physical
      BY <3>1 DEF BridgesTypeOK
    <3>3. CASE nics' = [nics EXCEPT ![b] = @ \cup {x}]
      BY <3>1, <3>2, <3>3
    <3>4. CASE nics' = nics
      <4>1. nics' = [nics EXCEPT ![b] = nics[b]]
        BY <3>4 DEF BridgesTypeOK
      <4> QED
        BY <3>2, <4>1
    <3> QED
      BY <2>1, <3>3, <3>4 DEF AddNIC
  <2>2. ASSUME NEW x \in Physical, Detach(b, x)
        PROVE  \E own \in SUBSET Physical : /\ nics' = [nics EXCEPT ![b] = own]
                                            /\ \A p \in own : p \in nics[b]
    <3>1. nics' = [nics EXCEPT ![b] = @ \ {x}] /\ nics[b] \ {x} \in SUBSET Physical
      BY <2>2 DEF Detach, BridgesTypeOK
    <3> QED
      BY <3>1
  <2> QED
    BY <2>1, <2>2
<1>3. op' \in [Boxes -> OpRecord] /\ op'[b].at = "idle" /\ OthersGoOn(b)
  <2>1. CASE AddNIC(b)
    BY <2>1, LeaveMoves DEF AddNIC
  <2>2. CASE \E x \in Physical : Detach(b, x)
    BY <2>2 DEF Detach, At, BridgesTypeOK, OpRecord, OthersGoOn
  <2> QED
    BY <2>1, <2>2
<1>4. BridgesTypeOK'
  BY <1>1, <1>2, <1>3 DEF BridgesTypeOK, OpRecord
<1>5. \A c \in Boxes : \A p \in nics'[c] \ contested : Owns(c, p)
  BY <1>2 DEF BridgesTypeOK, BridgesInv, OnOwnNetwork
<1>6. SharedInv' /\ \A c \in Boxes \ {b} : OpInv(c)'
  BY <1>1, <1>3, <1>5, QuietShared DEF Quiet
<1> QED
  BY <1>3, <1>4, <1>6, IdleFits, StepKept

\* The bridge of a NIC is resolved.
LEMMA AttachKept ==
    ASSUME BridgesInv, NEW b \in Boxes, NEW n \in Nets, Attach(b, n) PROVE BridgesInv'
<1> BridgesTypeOK
  BY DEF BridgesInv
<1>1. UNCHANGED <<boxes, condemned, reserved, bridge, nics, contested, failures>>
  BY DEF Attach, ofProject
<1>2. PICK x \in Resolved(b, n) : op' = [op EXCEPT ![b] = [Idle EXCEPT !.at = "attach", !.name = x]]
  BY DEF Attach
<1> DEFINE r == [Idle EXCEPT !.at = "attach", !.name = x]
<1>3. r \in OpRecord /\ r.at = "attach" /\ r.name = x /\ x \in Physical /\ Owns(b, x)
  BY IdleRecord DEF OpRecord, Places, Idle, Resolved
<1>4. op' \in [Boxes -> OpRecord] /\ OthersGoOn(b) /\ op'[b] = r
  BY <1>2, <1>3, BeginMovesTo
<1>5. BridgesTypeOK'
  BY <1>1, <1>4 DEF BridgesTypeOK, OpRecord
<1>6. SharedInv' /\ \A c \in Boxes \ {b} : OpInv(c)'
  BY <1>1, <1>4, QuietShared DEF Quiet, BridgesInv, OnOwnNetwork
<1>7. OpInv(b)'
  BY <1>1, <1>3, <1>4 DEF OpInv, OpFits, Named, Owns, NotYet, Drawn, GivenUp, Sweeping, Creating,
                          Choosing, Making, Deleting
<1> QED
  BY <1>5, <1>6, <1>7, StepKept

LEMMA DeleteNetworkBegunKept ==
    ASSUME BridgesInv, NEW b \in Boxes, NEW n \in Nets, DeleteNetwork(b, n) PROVE BridgesInv'
<1> BridgesTypeOK
  BY DEF BridgesInv
<1>1. b \in boxes /\ UNCHANGED <<boxes, condemned, reserved, bridge, nics, contested, failures>>
  BY DEF DeleteNetwork, Live, ofProject
<1>2. PICK p \in Resolved(b, n) : op' = [op EXCEPT ![b] = [Idle EXCEPT !.at = "unbridge", !.name = p]]
  BY DEF DeleteNetwork
<1> DEFINE r == [Idle EXCEPT !.at = "unbridge", !.name = p]
<1>3. r \in OpRecord /\ r.at = "unbridge" /\ r.name = p /\ p \in Physical
  BY IdleRecord DEF OpRecord, Places, Idle, Resolved
<1>4. op' \in [Boxes -> OpRecord] /\ OthersGoOn(b) /\ op'[b] = r
  BY <1>2, <1>3, BeginMovesTo
<1>5. BridgesTypeOK'
  BY <1>1, <1>4 DEF BridgesTypeOK, OpRecord
<1>6. SharedInv' /\ \A c \in Boxes \ {b} : OpInv(c)'
  BY <1>1, <1>4, QuietShared DEF Quiet, BridgesInv, OnOwnNetwork
<1>8. Reserves(b, p)'
  BY <1>1, OwnedReserved DEF Resolved, Reserves
<1>7. OpInv(b)'
  BY <1>3, <1>4, <1>8 DEF OpInv, OpFits, Named, NotYet, Drawn, GivenUp, Sweeping, Creating, Choosing,
                    Making, Deleting
<1> QED
  BY <1>5, <1>6, <1>7, StepKept

-----------------------------------------------------------------------------
\* A bridge that b reserves, and that no instance is attached to, goes.
LEMMA RemovedShared ==
    ASSUME BridgesInv, NEW b \in Boxes, NEW p \in Physical, ~InUse(p), Reserves(b, p),
           bridge' = [bridge EXCEPT ![p] = Absent], OthersGoOn(b),
           UNCHANGED <<boxes, reserved, nics, contested>>
    PROVE  /\ SharedInv' /\ \A c \in Boxes \ {b} : OpInv(c)'
           /\ bridge' \in [Physical -> [members : SUBSET (1..Members), owner : Boxes \cup {NoBox},
                                        net : Nets \cup {NoNet}]]
           /\ ~Exists(p)' /\ bridge'[p].owner = NoBox
           /\ \A q \in Physical \ {p} : bridge'[q] = bridge[q]
<1> BridgesTypeOK
  BY DEF BridgesInv
<1>1. /\ bridge' \in [Physical -> [members : SUBSET (1..Members), owner : Boxes \cup {NoBox},
                                   net : Nets \cup {NoNet}]]
      /\ bridge'[p] = Absent /\ \A q \in Physical \ {p} : bridge'[q] = bridge[q]
  BY DEF BridgesTypeOK, Absent
<1>2. ~Exists(p)' /\ bridge'[p].owner = NoBox /\ ~Pending(p)'
  BY <1>1 DEF Exists, Pending, Absent
<1>3. \A q \in Physical \ {p} : (Exists(q)' <=> Exists(q)) /\ (Pending(q)' <=> Pending(q))
  BY <1>1 DEF Exists, Pending
<1>4. \A c \in Boxes : \A q : Reserves(c, q)' <=> Reserves(c, q)
  BY DEF Reserves
<1>5. OwnedIsReserved' /\ OwnedInNets'
  BY <1>1, <1>2 DEF BridgesInv, OwnedIsReserved, OwnedInNets
<1>6. PendingClaimed'
  <2>1. \A q \in Physical : Claimants(q)' = Claimants(q)
    BY DEF Claimants, NamesOf
  <2> QED
    BY <1>2, <1>3, <2>1 DEF BridgesInv, PendingClaimed
<1>7. OnOwnNetwork'
  <2>1. \A c \in Boxes : p \notin nics[c] /\ nics[c] \subseteq Physical
    BY DEF InUse, BridgesTypeOK
  <2> QED
    BY <1>1, <2>1 DEF BridgesInv, OnOwnNetwork, Owns
<1>8. ClaimsSeen'
  BY <1>4 DEF BridgesInv, ClaimsSeen
<1>9. ASSUME NEW c \in Boxes \ {b} PROVE OpInv(c)'
  <2>1. op'[c] = op[c] /\ OpInv(c)
    BY DEF OthersGoOn, BridgesInv
  <2>2. OpFits(c)' /\ GivenUp(c)'
    BY <2>1 DEF OpInv, OpFits, GivenUp
  <2>3. NotYet(c)'
    BY <1>1, <1>2, <2>1, Sentinels DEF OpInv, NotYet
  <2>4. op[c].at \in Choosing \cup {"define"} => op[c].name \in Physical
    BY <2>1 DEF OpInv, OpFits, Creating, Making
  <2>5. Drawn(c)'
    BY <1>2, <1>3, <1>4, <2>1, <2>4 DEF OpInv, Drawn
  <2>6. \A q \in Physical : Swept(c, q) => Swept(c, q)'
    BY <1>1, <1>2, <1>3, <1>4, Sentinels DEF Swept
  <2>7. Sweeping(c)'
    BY <2>1, <2>6 DEF OpInv, Sweeping
  <2>8. op[c].at = "attach" /\ op[c].name = p /\ Owns(c, p) => p \in contested
    BY OwnedReserved DEF BridgesInv, ClaimsSeen
  <2>9. op[c].at = "attach" => op[c].name \in Physical
    BY <2>1 DEF OpInv, OpFits
  <2>10. Named(c)'
    BY <1>1, <1>4, <2>1, <2>8, <2>9 DEF OpInv, Named, Owns
  <2> QED
    BY <2>2, <2>3, <2>5, <2>7, <2>10 DEF OpInv
<1> QED
  BY <1>1, <1>2, <1>5, <1>6, <1>7, <1>8, <1>9 DEF SharedInv

LEMMA DeleteBridgeKept ==
    ASSUME BridgesInv, NEW b \in Boxes, DeleteBridge(b) PROVE BridgesInv'
<1> DEFINE p == op[b].name
<1> BridgesTypeOK
  BY DEF BridgesInv
<1>1. /\ op[b].at = "unbridge" /\ Leave(b)
      /\ UNCHANGED <<boxes, condemned, reserved, nics, contested, failures>>
      /\ bridge' = IF InUse(p) THEN bridge ELSE [bridge EXCEPT ![p] = Absent]
  BY DEF DeleteBridge, At, ofProject
<1>2. op' \in [Boxes -> OpRecord] /\ op'[b].at = "idle" /\ OthersGoOn(b)
  BY <1>1, LeaveMoves
<1>3. CASE InUse(p)
  BY <1>1, <1>3, LeaveFits DEF BridgesTypeOK
<1>4. CASE ~InUse(p)
  <2>1. p \in Physical /\ Reserves(b, p)
    BY <1>1 DEF BridgesInv, OpInv, OpFits, Named
  <2>2. /\ SharedInv' /\ \A c \in Boxes \ {b} : OpInv(c)'
        /\ bridge' \in [Physical -> [members : SUBSET (1..Members), owner : Boxes \cup {NoBox},
                                     net : Nets \cup {NoNet}]]
    BY <1>1, <1>2, <1>4, <2>1, RemovedShared
  <2>3. BridgesTypeOK'
    BY <1>1, <1>2, <2>2 DEF BridgesTypeOK, OpRecord
  <2> QED
    BY <1>2, <2>2, <2>3, IdleFits, StepKept
<1> QED
  BY <1>3, <1>4

LEMMA DropBridgeKept ==
    ASSUME BridgesInv, NEW b \in Boxes, NEW p \in Physical, DropBridge(b, p) PROVE BridgesInv'
<1> BridgesTypeOK
  BY DEF BridgesInv
<1>1. /\ op[b].at = "bridges" /\ p \in op[b].todo
      /\ UNCHANGED <<boxes, condemned, reserved, nics, contested>>
      /\ failures' \in 0..MaxFailures
  BY FailureBound DEF DropBridge, At, ofProject, BridgesTypeOK
<1>2. OpFits(b) /\ Named(b) /\ Sweeping(b)
  BY DEF BridgesInv, OpInv
<1>3. ASSUME NEW f \in BOOLEAN,
             op' = [op EXCEPT ![b] = [op[b] EXCEPT !.todo = op[b].todo \ {p}, !.failed = f]]
      PROVE  /\ op' \in [Boxes -> OpRecord] /\ OthersGoOn(b) /\ op'[b].at = "bridges"
             /\ op'[b].todo = op[b].todo \ {p} /\ op'[b].failed = f
             /\ OpFits(b)' /\ Named(b)' /\ NotYet(b)' /\ Drawn(b)' /\ GivenUp(b)'
  <2> DEFINE r == [op[b] EXCEPT !.todo = op[b].todo \ {p}, !.failed = f]
  <2>1. op[b] \in OpRecord
    BY DEF BridgesTypeOK, OpRecord
  <2>2. r \in OpRecord /\ r.at = "bridges" /\ r.todo = op[b].todo \ {p} /\ r.failed = f
    BY <1>1, <2>1 DEF OpRecord
  <2>3. op' \in [Boxes -> OpRecord] /\ OthersGoOn(b) /\ op'[b] = r
    BY <1>3, <2>2, BeginMovesTo
  <2>4. OpFits(b)' /\ Named(b)' /\ NotYet(b)' /\ Drawn(b)' /\ GivenUp(b)'
    BY <1>1, <1>2, <2>2, <2>3
       DEF OpFits, Named, Reserves, NotYet, Drawn, GivenUp, Creating, Choosing, Making, Deleting
  <2> QED
    BY <2>2, <2>3, <2>4
<1>4. CASE /\ ~InUse(p) /\ bridge' = [bridge EXCEPT ![p] = Absent]
           /\ op' = [op EXCEPT ![b].todo = @ \ {p}]
  <2>1. op' = [op EXCEPT ![b] = [op[b] EXCEPT !.todo = op[b].todo \ {p}, !.failed = op[b].failed]]
    BY <1>4 DEF BridgesTypeOK
  <2>2. op[b].failed \in BOOLEAN
    BY DEF BridgesTypeOK
  <2>3. /\ op' \in [Boxes -> OpRecord] /\ OthersGoOn(b) /\ op'[b].at = "bridges"
        /\ op'[b].todo = op[b].todo \ {p} /\ op'[b].failed = op[b].failed
        /\ OpFits(b)' /\ Named(b)' /\ NotYet(b)' /\ Drawn(b)' /\ GivenUp(b)'
    BY <1>3, <2>1, <2>2
  <2>4. /\ SharedInv' /\ \A c \in Boxes \ {b} : OpInv(c)'
        /\ bridge' \in [Physical -> [members : SUBSET (1..Members), owner : Boxes \cup {NoBox},
                                     net : Nets \cup {NoNet}]]
        /\ ~Exists(p)' /\ bridge'[p].owner = NoBox
        /\ \A q \in Physical \ {p} : bridge'[q] = bridge[q]
    BY <1>1, <1>2, <1>4, <2>3, RemovedShared DEF Named, Deleting
  <2>5. BridgesTypeOK'
    BY <1>1, <2>3, <2>4 DEF BridgesTypeOK, OpRecord
  <2>6. Swept(b, p)'
    BY <2>4, Sentinels DEF Swept
  <2>7. \A q \in Physical \ {p} : Swept(b, q) => Swept(b, q)'
    BY <1>1, <2>4 DEF Swept, Exists, Reserves
  <2>8. Sweeping(b)'
    BY <1>1, <1>2, <2>3, <2>6, <2>7 DEF Sweeping
  <2> QED
    BY <2>3, <2>4, <2>5, <2>8, StepKept DEF OpInv
<1>5. CASE bridge' = bridge /\ op' = [op EXCEPT ![b].todo = @ \ {p}, ![b].failed = TRUE]
  <2>1. op' = [op EXCEPT ![b] = [op[b] EXCEPT !.todo = op[b].todo \ {p}, !.failed = TRUE]]
    BY <1>5 DEF BridgesTypeOK
  <2>2. /\ op' \in [Boxes -> OpRecord] /\ OthersGoOn(b) /\ op'[b].at = "bridges"
        /\ op'[b].failed
        /\ OpFits(b)' /\ Named(b)' /\ NotYet(b)' /\ Drawn(b)' /\ GivenUp(b)'
    BY <1>3, <2>1
  <2>3. BridgesTypeOK'
    BY <1>1, <1>5, <2>2 DEF BridgesTypeOK, OpRecord
  <2>4. SharedInv' /\ \A c \in Boxes \ {b} : OpInv(c)'
    BY <1>1, <1>5, <2>2, QuietShared DEF Quiet, BridgesInv, OnOwnNetwork
  <2>5. Sweeping(b)'
    BY <2>2 DEF Sweeping
  <2> QED
    BY <2>2, <2>3, <2>4, <2>5, StepKept DEF OpInv
<1> QED
  BY <1>4, <1>5 DEF DropBridge

\* The bridge p is there on one member more, pending; b reserves it.
LEMMA DefinedShared ==
    ASSUME BridgesInv, NEW b \in Boxes, NEW p \in Physical, NEW m \in 1..Members,
           bridge[p].owner = NoBox, bridge' = [bridge EXCEPT ![p].members = @ \cup {m}],
           Reserves(b, p), OthersGoOn(b), UNCHANGED <<boxes, reserved, nics, contested>>
    PROVE  /\ SharedInv' /\ \A c \in Boxes \ {b} : OpInv(c)'
           /\ bridge' \in [Physical -> [members : SUBSET (1..Members), owner : Boxes \cup {NoBox},
                                        net : Nets \cup {NoNet}]]
           /\ \A q \in Physical : bridge'[q].owner = bridge[q].owner /\ bridge'[q].net = bridge[q].net
           /\ \A q \in Physical \ {p} : bridge'[q] = bridge[q]
<1> BridgesTypeOK
  BY DEF BridgesInv
<1>1. /\ bridge' \in [Physical -> [members : SUBSET (1..Members), owner : Boxes \cup {NoBox},
                                   net : Nets \cup {NoNet}]]
      /\ \A q \in Physical : bridge'[q].owner = bridge[q].owner /\ bridge'[q].net = bridge[q].net
      /\ \A q \in Physical \ {p} : bridge'[q] = bridge[q]
  BY DEF BridgesTypeOK
<1>2. \A q \in Physical \ {p} : (Exists(q)' <=> Exists(q)) /\ (Pending(q)' <=> Pending(q))
  BY <1>1 DEF Exists, Pending
<1>3. \A c \in Boxes : \A q : Reserves(c, q)' <=> Reserves(c, q)
  BY DEF Reserves
<1>4. OwnedIsReserved' /\ OwnedInNets'
  BY <1>1 DEF BridgesInv, OwnedIsReserved, OwnedInNets
<1>5. PendingClaimed'
  <2>1. \A q \in Physical : Claimants(q)' = Claimants(q)
    BY DEF Claimants, NamesOf
  <2>2. Claimants(p) # {}
    BY ClaimantsReserve
  <2> QED
    BY <1>2, <2>1, <2>2 DEF BridgesInv, PendingClaimed
<1>6. OnOwnNetwork'
  BY <1>1 DEF BridgesInv, BridgesTypeOK, OnOwnNetwork, Owns
<1>7. ClaimsSeen'
  BY <1>3 DEF BridgesInv, ClaimsSeen
<1>8. \A c \in Boxes \ {b} : Reserves(c, p) => p \in contested
  BY DEF BridgesInv, ClaimsSeen
<1>9. ASSUME NEW c \in Boxes \ {b} PROVE OpInv(c)'
  <2>1. op'[c] = op[c] /\ OpInv(c)
    BY DEF OthersGoOn, BridgesInv
  <2>2. OpFits(c)' /\ GivenUp(c)'
    BY <2>1 DEF OpInv, OpFits, GivenUp
  <2>3. NotYet(c)'
    BY <1>1, <2>1 DEF OpInv, NotYet
  <2>4. /\ op[c].at \in Choosing \cup {"define"} => op[c].name \in Physical
        /\ op[c].at = "define" => Reserves(c, op[c].name)
    BY <2>1 DEF OpInv, OpFits, Creating, Making, Reserves
  <2>5. Drawn(c)'
    BY <1>2, <1>3, <1>8, <2>1, <2>4 DEF OpInv, Drawn
  <2>6. \A q \in Physical : Swept(c, q) => Swept(c, q)'
    BY <1>1, <1>2, <1>3, <1>8 DEF Swept
  <2>7. Sweeping(c)'
    BY <2>1, <2>6 DEF OpInv, Sweeping
  <2>8. op[c].at = "attach" => op[c].name \in Physical
    BY <2>1 DEF OpInv, OpFits
  <2>9. Named(c)'
    BY <1>1, <1>3, <2>1, <2>8 DEF OpInv, Named, Owns
  <2> QED
    BY <2>2, <2>3, <2>5, <2>7, <2>9 DEF OpInv
<1> QED
  BY <1>1, <1>4, <1>5, <1>6, <1>7, <1>9 DEF SharedInv

LEMMA DefineKept ==
    ASSUME BridgesInv, NEW b \in Boxes, Define(b) PROVE BridgesInv'
<1> DEFINE p == op[b].name
           m == op[b].member
           conflict == ~(bridge[p].owner = NoBox /\ m \notin bridge[p].members)
<1> BridgesTypeOK
  BY DEF BridgesInv
<1>1. /\ op[b].at = "define" /\ UNCHANGED <<boxes, condemned, reserved, nics, contested, failures>>
      /\ \/ conflict /\ bridge' = bridge /\ op[b].resume /\ NextMember(b)
         \/ conflict /\ bridge' = bridge /\ ~op[b].resume /\ m = 1 /\ Collide(b)
         \/ bridge' = bridge /\ Leave(b)
         \/ ~conflict /\ bridge' = [bridge EXCEPT ![p].members = @ \cup {m}] /\ NextMember(b)
  BY DEF Define, At, ofProject
<1>2. b \in boxes /\ op[b].net \in Nets /\ p \in Physical /\ reserved[b][op[b].net] = p
  BY <1>1 DEF BridgesInv, OpInv, OpFits, Creating, Making, Deleting
<1>3. \A q \in Physical : ~(bridge[q].owner = b /\ bridge[q].net = op[b].net)
  BY <1>1 DEF BridgesInv, OpInv, NotYet, Making
<1>4. ASSUME NextMember(b),
             \A q \in Physical : bridge'[q].owner = bridge[q].owner /\ bridge'[q].net = bridge[q].net
      PROVE  OpInv(b)' /\ op' \in [Boxes -> OpRecord] /\ OthersGoOn(b)
  <2>1. /\ op' \in [Boxes -> OpRecord] /\ OthersGoOn(b)
        /\ op'[b].at \in {"define", "configure"}
        /\ op'[b].at = "define" => op'[b].member > 1
        /\ op'[b].net = op[b].net /\ op'[b].name = op[b].name
    BY <1>1, <1>4, NextMemberMoves DEF At
  <2>2. OpFits(b)' /\ Named(b)' /\ GivenUp(b)' /\ Sweeping(b)'
    BY <1>1, <1>2, <2>1 DEF OpFits, Named, GivenUp, Sweeping, Creating, Choosing, Making, Deleting
  <2>3. NotYet(b)'
    BY <1>3, <1>4, <2>1 DEF NotYet
  <2>4. Drawn(b)'
    <3>1. op'[b].at = "define" => op'[b].member # 1
      BY <2>1, ClusterSize DEF OpRecord
    <3> QED
      BY <2>1, <3>1 DEF Drawn, Choosing
  <2> QED
    BY <2>1, <2>2, <2>3, <2>4 DEF OpInv
<1>5. CASE bridge' = bridge /\ NextMember(b)
  <2>1. OpInv(b)' /\ op' \in [Boxes -> OpRecord] /\ OthersGoOn(b)
    BY <1>4, <1>5
  <2>2. BridgesTypeOK'
    BY <1>1, <1>5, <2>1 DEF BridgesTypeOK, OpRecord
  <2>3. SharedInv' /\ \A c \in Boxes \ {b} : OpInv(c)'
    BY <1>1, <1>5, <2>1, QuietShared DEF Quiet, BridgesInv, OnOwnNetwork
  <2> QED
    BY <2>1, <2>2, <2>3, StepKept
<1>6. CASE conflict /\ bridge' = bridge /\ ~op[b].resume /\ m = 1 /\ Collide(b)
  <2>1. Exists(p)
    BY <1>2, <1>6, AbsentExists
  <2>2. p \in contested
    BY <1>1, <1>6, <2>1 DEF BridgesInv, OpInv, Drawn
  <2> QED
    BY <1>1, <1>2, <1>3, <1>6, <2>2, CollideFits
<1>7. CASE bridge' = bridge /\ Leave(b)
  BY <1>1, <1>7, LeaveFits DEF BridgesTypeOK
<1>8. CASE ~conflict /\ bridge' = [bridge EXCEPT ![p].members = @ \cup {m}] /\ NextMember(b)
  <2>1. m \in 1..Members /\ Reserves(b, p) /\ OthersGoOn(b)
    BY <1>1, <1>2, <1>8, NextMemberMoves DEF BridgesTypeOK, Reserves, At
  <2>2. /\ SharedInv' /\ \A c \in Boxes \ {b} : OpInv(c)'
        /\ bridge' \in [Physical -> [members : SUBSET (1..Members), owner : Boxes \cup {NoBox},
                                     net : Nets \cup {NoNet}]]
        /\ \A q \in Physical : bridge'[q].owner = bridge[q].owner /\ bridge'[q].net = bridge[q].net
    BY <1>1, <1>2, <1>8, <2>1, DefinedShared
  <2>3. OpInv(b)' /\ op' \in [Boxes -> OpRecord]
    BY <1>4, <1>8, <2>2
  <2>4. BridgesTypeOK'
    BY <1>1, <2>2, <2>3 DEF BridgesTypeOK, OpRecord
  <2> QED
    BY <2>2, <2>3, <2>4, StepKept
<1> QED
  BY <1>1, <1>5, <1>6, <1>7, <1>8

LEMMA ConfigureKept ==
    ASSUME BridgesInv, NEW b \in Boxes, Configure(b) PROVE BridgesInv'
<1> BridgesTypeOK
  BY DEF BridgesInv
<1>1. /\ op[b].at = "configure" /\ Leave(b)
      /\ UNCHANGED <<boxes, condemned, reserved, nics, contested, failures>>
      /\ \/ /\ Pending(op[b].name)
            /\ bridge' = [bridge EXCEPT ![op[b].name].owner = b, ![op[b].name].net = op[b].net]
         \/ bridge' = bridge
  BY DEF Configure, At, ofProject
<1>2. PICK p \in Physical, n \in Nets : b \in boxes /\ p = op[b].name /\ n = op[b].net /\ reserved[b][n] = p
  BY <1>1 DEF BridgesInv, OpInv, OpFits, Creating, Making, Deleting
<1>3. op' \in [Boxes -> OpRecord] /\ op'[b].at = "idle" /\ OthersGoOn(b)
  BY <1>1, LeaveMoves
<1>4. CASE bridge' = bridge
  BY <1>1, <1>4, LeaveFits DEF BridgesTypeOK
<1>5. CASE Pending(p) /\ bridge' = [bridge EXCEPT ![p].owner = b, ![p].net = n]
  <2>1. bridge[p].owner = NoBox /\ Exists(p)
    BY <1>5 DEF Pending
  <2>2. /\ bridge' \in [Physical -> [members : SUBSET (1..Members), owner : Boxes \cup {NoBox},
                                     net : Nets \cup {NoNet}]]
        /\ bridge'[p].owner = b /\ bridge'[p].net = n
        /\ \A q \in Physical \ {p} : bridge'[q] = bridge[q]
    <3> DEFINE r == [bridge[p] EXCEPT !.owner = b, !.net = n]
    <3>1. bridge' = [bridge EXCEPT ![p] = r]
      BY <1>2, <1>5 DEF BridgesTypeOK
    <3>2. r \in [members : SUBSET (1..Members), owner : Boxes \cup {NoBox}, net : Nets \cup {NoNet}]
          /\ r.owner = b /\ r.net = n
      <4>1. bridge[p] \in [members : SUBSET (1..Members), owner : Boxes \cup {NoBox}, net : Nets \cup {NoNet}]
        BY <1>2 DEF BridgesTypeOK
      <4> QED
        BY <1>2, <4>1
    <3> HIDE DEF r
    <3> QED
      BY <1>2, <3>1, <3>2 DEF BridgesTypeOK
  <2>3. BridgesTypeOK'
    BY <1>1, <1>3, <2>2 DEF BridgesTypeOK, OpRecord
  <2>4. Exists(p)' /\ ~Pending(p)'
    <3>1. bridge'[p].owner # NoBox /\ Absent.owner = NoBox
      BY <2>2, Sentinels DEF Absent
    <3> QED
      BY <3>1 DEF Exists, Pending
  <2>5. \A q \in Physical : Exists(q)' <=> Exists(q)
    BY <1>2, <2>1, <2>2, <2>4 DEF Exists
  <2>6. \A c \in Boxes : \A q : Reserves(c, q)' <=> Reserves(c, q)
    BY <1>1 DEF Reserves
  <2>7. OwnedIsReserved' /\ OwnedInNets'
    BY <1>1, <1>2, <2>2 DEF BridgesInv, OwnedIsReserved, OwnedInNets
  <2>8. PendingClaimed'
    <3>1. \A q \in Physical \ {p} : (Pending(q)' <=> Pending(q)) /\ Claimants(q)' = Claimants(q)
      BY <1>1, <2>2 DEF Pending, Exists, Claimants, NamesOf
    <3> QED
      BY <1>1, <1>2, <2>4, <3>1 DEF BridgesInv, PendingClaimed
  <2>9. OnOwnNetwork'
    <3>1. \A c \in Boxes : p \notin nics[c] \ contested /\ nics[c] \subseteq Physical
      BY <2>1, Sentinels DEF BridgesInv, BridgesTypeOK, OnOwnNetwork, Owns
    <3> QED
      BY <1>1, <2>2, <3>1 DEF BridgesInv, OnOwnNetwork, Owns
  <2>10. ClaimsSeen'
    BY <1>1, <2>6 DEF BridgesInv, ClaimsSeen
  <2>11. ASSUME NEW c \in Boxes \ {b} PROVE OpInv(c)'
    <3>1. op'[c] = op[c] /\ OpInv(c)
      BY <1>3 DEF OthersGoOn, BridgesInv
    <3>2. OpFits(c)' /\ GivenUp(c)'
      BY <1>1, <3>1 DEF OpInv, OpFits, GivenUp
    <3>3. NotYet(c)'
      BY <2>2, <3>1 DEF OpInv, NotYet
    <3>4. op[c].at \in Choosing \cup {"define"} => op[c].name \in Physical
      BY <3>1 DEF OpInv, OpFits, Creating, Making
    <3>5. Drawn(c)'
      BY <1>1, <2>5, <2>6, <3>1, <3>4 DEF OpInv, Drawn
    <3>6. \A q \in Physical : Swept(c, q) => Swept(c, q)'
      BY <1>1, <2>2, <2>5, <2>6 DEF Swept
    <3>7. Sweeping(c)'
      BY <3>1, <3>6 DEF OpInv, Sweeping
    <3>8. op[c].at = "attach" => op[c].name \in Physical
      BY <3>1 DEF OpInv, OpFits
    <3>9. ~Owns(c, p)
      BY <2>1, Sentinels DEF Owns
    <3>10. Named(c)'
      BY <1>1, <2>2, <2>6, <3>1, <3>8, <3>9 DEF OpInv, Named, Owns
    <3> QED
      BY <3>2, <3>3, <3>5, <3>7, <3>10 DEF OpInv
  <2>12. SharedInv'
    BY <2>7, <2>8, <2>9, <2>10 DEF SharedInv
  <2> QED
    BY <1>3, <2>3, <2>11, <2>12, IdleFits, StepKept
<1> QED
  BY <1>1, <1>2, <1>4, <1>5

-----------------------------------------------------------------------------
\* The reservations of b change, and give up no bridge that only b names.
LEMMA ReservedShared ==
    ASSUME BridgesInv, NEW b \in Boxes, OthersGoOn(b), UNCHANGED <<bridge, nics>>,
           contested \subseteq contested',
           \A c \in Boxes \ {b} : reserved'[c] = reserved[c] /\ (c \in boxes' <=> c \in boxes),
           \A q \in Physical : Reserves(b, q) /\ Exists(q) => Reserves(b, q)' \/ q \in contested
    PROVE  /\ PendingClaimed' /\ OnOwnNetwork' /\ OwnedInNets'
           /\ \A c \in Boxes \ {b} : OpInv(c)'
<1> BridgesTypeOK
  BY DEF BridgesInv
<1>1. \A c \in Boxes \ {b} : \A q : Reserves(c, q)' <=> Reserves(c, q)
  BY DEF Reserves
<1>2. \A q \in Physical : (Exists(q)' <=> Exists(q)) /\ (Pending(q)' <=> Pending(q))
  BY DEF Exists, Pending
<1>3. PendingClaimed'
  <2> SUFFICES ASSUME NEW q \in Physical, Pending(q), q \notin contested' PROVE Claimants(q)' # {}
    BY <1>2 DEF PendingClaimed
  <2>1. PICK c \in Boxes : Reserves(c, q)
    BY ClaimantsReserve DEF BridgesInv, PendingClaimed
  <2>2. Reserves(c, q)'
    BY <1>1, <2>1 DEF Pending
  <2>3. q \in NamesOf(reserved'[c])
    BY <2>2, Sentinels DEF Reserves, NamesOf
  <2> QED
    BY <2>3 DEF Claimants
<1>4. OnOwnNetwork' /\ OwnedInNets'
  BY DEF BridgesInv, OnOwnNetwork, Owns, OwnedInNets
<1>5. ASSUME NEW c \in Boxes \ {b} PROVE OpInv(c)'
  <2>1. op'[c] = op[c] /\ OpInv(c)
    BY DEF OthersGoOn, BridgesInv
  <2>2. OpFits(c)' /\ GivenUp(c)' /\ NotYet(c)'
    BY <2>1 DEF OpInv, OpFits, GivenUp, NotYet
  <2>3. op[c].at \in Choosing \cup {"define"} => op[c].name \in Physical
    BY <2>1 DEF OpInv, OpFits, Creating, Making
  <2>4. ASSUME NEW d \in Boxes \ {c}, NEW q \in Physical, Reserves(d, q), Exists(q)
        PROVE  q \in contested' \/ \E e \in Boxes \ {c} : Reserves(e, q)'
    BY <1>1, <2>4
  <2>5. Drawn(c)'
    BY <1>2, <2>1, <2>3, <2>4 DEF OpInv, Drawn
  <2>6. \A q \in Physical : Swept(c, q) => Swept(c, q)'
    BY <1>1, <1>2 DEF Swept
  <2>7. Sweeping(c)'
    BY <2>1, <2>6 DEF OpInv, Sweeping
  <2>8. Named(c)'
    BY <1>1, <2>1 DEF OpInv, Named, Owns
  <2> QED
    BY <2>2, <2>5, <2>7, <2>8 DEF OpInv
<1> QED
  BY <1>3, <1>4, <1>5

\* The name p is reserved for the network n of b, and defining it begins.
LEMMA ReservedKept ==
    ASSUME BridgesInv, NEW b \in Boxes, NEW n \in Nets, NEW p \in Physical,
           Reservations([reserved EXCEPT ![b][n] = p]), Goto(b, "define"),
           op[b].net = n, op[b].name = p, boxes' = boxes \cup {b},
           UNCHANGED <<condemned, bridge, nics, failures>>,
           b \notin boxes \/ \A q \in Physical : ~(bridge[q].owner = b /\ bridge[q].net = n),
           \/ reserved[b][n] = NoName \/ reserved[b][n] \in contested
           \/ \E m \in Nets : m # n /\ reserved[b][m] = reserved[b][n],
           Exists(p) => p \in contested \/ \E c \in Boxes \ {b} : Reserves(c, p)
    PROVE  BridgesInv'
<1> BridgesTypeOK
  BY DEF BridgesInv
<1>1. /\ reserved' \in [Boxes -> [Nets -> Physical \cup {NoName}]]
      /\ contested' \subseteq Physical /\ contested \subseteq contested'
      /\ \A c \in Boxes \ {b} : reserved'[c] = reserved[c]
      /\ reserved'[b][n] = p
      /\ \A m \in Nets \ {n} : reserved'[b][m] = reserved[b][m]
  BY ReservationMoves
<1>2. /\ op' \in [Boxes -> OpRecord] /\ OthersGoOn(b)
      /\ op'[b].at = "define" /\ op'[b].net = n /\ op'[b].name = p
  BY GotoMoves DEF Places
<1>3. \A q \in Physical : \A c, d \in Boxes :
          c # d /\ Reserves(c, q)' /\ Reserves(d, q)' => q \in contested'
  <2>1. [reserved EXCEPT ![b][n] = p] = reserved'
    BY DEF Reservations
  <2> QED
    BY <1>1, <2>1, ReservedTwice
<1>4. ASSUME NEW q \in Physical, Reserves(b, q) PROVE Reserves(b, q)' \/ q \in contested
  <2>1. PICK k \in Nets : reserved[b][k] = q
    BY <1>4 DEF Reserves
  <2>2. CASE k # n
    BY <1>1, <2>1, <2>2 DEF Reserves
  <2>3. CASE k = n
    BY <1>1, <2>1, <2>3, Sentinels DEF Reserves
  <2> QED
    BY <2>2, <2>3
<1>5. PendingClaimed' /\ OnOwnNetwork' /\ OwnedInNets' /\ \A c \in Boxes \ {b} : OpInv(c)'
  BY <1>1, <1>2, <1>4, ReservedShared
<1>6. \A q \in Physical : ~(bridge[q].owner = b /\ bridge[q].net = n)
  BY Sentinels DEF BridgesInv, OwnedIsReserved
<1>7. OwnedIsReserved'
  <2> SUFFICES ASSUME NEW q \in Physical, bridge[q].owner # NoBox
               PROVE  /\ bridge[q].owner \in boxes'
                      /\ reserved'[bridge[q].owner][bridge[q].net] = q
    BY DEF OwnedIsReserved
  <2>1. /\ bridge[q].owner \in boxes /\ reserved[bridge[q].owner][bridge[q].net] = q
        /\ bridge[q].owner \in Boxes /\ bridge[q].net \in Nets
    BY DEF BridgesInv, BridgesTypeOK, OwnedIsReserved, OwnedInNets
  <2> QED
    BY <1>1, <1>6, <2>1
<1>8. ClaimsSeen'
  BY <1>1, <1>3 DEF BridgesInv, ClaimsSeen
<1>9. BridgesTypeOK'
  BY <1>1, <1>2 DEF BridgesTypeOK, OpRecord
<1>10. OpFits(b)' /\ Named(b)' /\ GivenUp(b)' /\ Sweeping(b)'
  BY <1>1, <1>2 DEF OpFits, Named, GivenUp, Sweeping, Creating, Choosing, Making, Deleting
<1>11. NotYet(b)'
  BY <1>2, <1>6 DEF NotYet
<1>12. Exists(p) => p \in contested'
  <2>1. Reserves(b, p)' /\ \A c \in Boxes \ {b} : Reserves(c, p)' <=> Reserves(c, p)
    BY <1>1 DEF Reserves
  <2> QED
    BY <1>1, <1>3, <2>1
<1>13. Drawn(b)'
  <2>1. Exists(p)' <=> Exists(p)
    BY DEF Exists
  <2> QED
    BY <1>2, <1>12, <2>1 DEF Drawn, Choosing
<1> QED
  BY <1>5, <1>7, <1>8, <1>9, <1>10, <1>11, <1>13, StepKept DEF SharedInv, OpInv

LEMMA CreateProjectKept ==
    ASSUME BridgesInv, NEW b \in Boxes, CreateProject(b) PROVE BridgesInv'
<1> DEFINE p == op[b].name
<1>1. /\ op[b].at = "project" /\ boxes' = boxes \cup {b}
      /\ Reservations([reserved EXCEPT ![b][DefaultNet] = p]) /\ Goto(b, "define")
      /\ UNCHANGED <<condemned, bridge, nics, failures>>
  BY DEF CreateProject, At
<1>2. p \in Physical /\ b \notin boxes /\ op[b].net = DefaultNet
  BY <1>1 DEF BridgesInv, OpInv, OpFits, Creating, Choosing
<1>3. reserved[b][DefaultNet] = NoName
  BY <1>2, DefaultExists DEF BridgesInv, ClaimsSeen
<1>4. Exists(p) => p \in contested \/ \E c \in Boxes \ {b} : Reserves(c, p)
  BY <1>1 DEF BridgesInv, OpInv, Drawn, Choosing
<1> QED
  BY <1>1, <1>2, <1>3, <1>4, DefaultExists, ReservedKept

LEMMA ReserveKept ==
    ASSUME BridgesInv, NEW b \in Boxes, Reserve(b) PROVE BridgesInv'
<1> DEFINE p == op[b].name
           n == op[b].net
<1>1. /\ op[b].at = "reserve" /\ Reservations([reserved EXCEPT ![b][n] = p]) /\ Goto(b, "define")
      /\ UNCHANGED <<boxes, condemned, bridge, nics, failures>>
  BY DEF Reserve, At
<1>2. p \in Physical /\ n \in Nets /\ b \in boxes
  BY <1>1 DEF BridgesInv, OpInv, OpFits, Creating, Choosing, Deleting
<1>3. /\ \A q \in Physical : ~(bridge[q].owner = b /\ bridge[q].net = n)
      /\ \/ reserved[b][n] = NoName \/ reserved[b][n] \in contested
         \/ \E m \in Nets : m # n /\ reserved[b][m] = reserved[b][n]
      /\ Exists(p) => p \in contested \/ \E c \in Boxes \ {b} : Reserves(c, p)
  BY <1>1 DEF BridgesInv, OpInv, NotYet, GivenUp, Drawn, Choosing
<1>4. boxes' = boxes \cup {b}
  BY <1>1, <1>2
<1> QED
  BY <1>1, <1>2, <1>3, <1>4, ReservedKept

LEMMA DeleteBoxKept ==
    ASSUME BridgesInv, NEW b \in Boxes, DeleteProject(b) PROVE BridgesInv'
<1> BridgesTypeOK
  BY DEF BridgesInv
<1>1. /\ op[b].at = "unproject" /\ Leave(b) /\ UNCHANGED <<bridge, nics, failures>>
      /\ \/ /\ boxes' = boxes \ {b} /\ condemned' = condemned \ {b}
            /\ Reservations([reserved EXCEPT ![b] = [n \in Nets |-> NoName]])
         \/ UNCHANGED <<boxes, condemned, reserved, contested>>
  BY DEF DeleteProject, At, ofProject
<1>2. op' \in [Boxes -> OpRecord] /\ op'[b].at = "idle" /\ OthersGoOn(b)
  BY <1>1, LeaveMoves
<1>3. CASE UNCHANGED <<boxes, condemned, reserved, contested>>
  BY <1>1, <1>3, LeaveFits DEF BridgesTypeOK
<1>4. CASE /\ boxes' = boxes \ {b} /\ condemned' = condemned \ {b}
           /\ Reservations([reserved EXCEPT ![b] = [n \in Nets |-> NoName]])
  <2>1. /\ reserved' \in [Boxes -> [Nets -> Physical \cup {NoName}]]
        /\ contested' \subseteq Physical /\ contested \subseteq contested'
        /\ \A c \in Boxes \ {b} : reserved'[c] = reserved[c]
        /\ \A n \in Nets : reserved'[b][n] = NoName
        /\ reserved' = [reserved EXCEPT ![b] = [n \in Nets |-> NoName]]
    BY <1>4 DEF Reservations, BridgesTypeOK
  <2>2. \A q \in Physical : Swept(b, q)
    BY <1>1 DEF BridgesInv, OpInv, Sweeping
  <2>3. PendingClaimed' /\ OnOwnNetwork' /\ OwnedInNets' /\ \A c \in Boxes \ {b} : OpInv(c)'
    BY <1>1, <1>2, <1>4, <2>1, <2>2, ReservedShared DEF Swept
  <2>4. OwnedIsReserved'
    <3> SUFFICES ASSUME NEW q \in Physical, bridge[q].owner # NoBox
                 PROVE  /\ bridge[q].owner \in boxes'
                        /\ reserved'[bridge[q].owner][bridge[q].net] = q
      BY <1>1 DEF OwnedIsReserved
    <3>1. /\ bridge[q].owner \in boxes /\ reserved[bridge[q].owner][bridge[q].net] = q
          /\ bridge[q].owner \in Boxes \ {b}
      BY <2>2 DEF BridgesInv, BridgesTypeOK, OwnedIsReserved, Swept
    <3> QED
      BY <1>4, <2>1, <3>1
  <2>5. ClaimsSeen'
    <3>1. \A q \in Physical : \A c, d \in Boxes :
              c # d /\ Reserves(c, q)' /\ Reserves(d, q)' => q \in contested'
      BY <1>4, <2>1, ReservedTwice
    <3> QED
      BY <1>4, <2>1, <3>1 DEF BridgesInv, ClaimsSeen
  <2>6. BridgesTypeOK'
    BY <1>1, <1>2, <1>4, <2>1 DEF BridgesTypeOK, OpRecord
  <2> QED
    BY <1>2, <2>3, <2>4, <2>5, <2>6, IdleFits, StepKept DEF SharedInv
<1> QED
  BY <1>1, <1>3, <1>4

-----------------------------------------------------------------------------
LEMMA BridgesStepInv == BridgesInv /\ [BridgesNext]_bridgeVars => BridgesInv'
<1> SUFFICES ASSUME BridgesInv, [BridgesNext]_bridgeVars PROVE BridgesInv'
  OBVIOUS
<1>1. ASSUME NEW b \in Boxes, Step(b) PROVE BridgesInv'
  BY <1>1, CreateSandboxKept, CreateProjectKept, CreateNetworkKept, AttachKept, NICsKept,
     DeleteNetworkBegunKept,
     DropBridgeKept, ExistingKept, ClaimKept, ReserveKept, DefineKept, ConfigureKept, DeleteBridgeKept,
     DeleteBegunKept, VerifyKept, EmptyKept, EndNetworksKept, DeleteBoxKept, FailKept DEF Step
<1>2. CASE Crash
  <2>1. /\ failures' \in 0..MaxFailures /\ op' = [b \in Boxes |-> Idle]
        /\ UNCHANGED <<boxes, condemned, reserved, bridge, nics, contested>>
    BY <1>2, FailureBound DEF Crash, ofProject, BridgesInv, BridgesTypeOK
  <2>2. BridgesTypeOK'
    BY <2>1, IdleRecord DEF BridgesInv, BridgesTypeOK, OpRecord
  <2>3. \A b \in Boxes : OpInv(b)'
    BY <2>1, IdleRecord, IdleFits
  <2>4. \A p \in Physical : (Pending(p)' <=> Pending(p)) /\ Claimants(p)' = Claimants(p)
    BY <2>1 DEF Exists, Pending, Claimants, NamesOf
  <2>5. OwnedIsReserved' /\ PendingClaimed' /\ OwnedInNets'
    BY <2>1, <2>4 DEF BridgesInv, OwnedIsReserved, PendingClaimed, OwnedInNets
  <2>6. OnOwnNetwork' /\ ClaimsSeen'
    BY <2>1 DEF BridgesInv, OnOwnNetwork, Owns, ClaimsSeen, Reserves
  <2> QED
    BY <2>2, <2>3, <2>5, <2>6 DEF BridgesInv
<1>3. CASE UNCHANGED bridgeVars
  <2>1. UNCHANGED <<boxes, condemned, reserved, bridge, nics, op, contested, failures>>
    BY <1>3 DEF bridgeVars, ofProject
  <2>2. BridgesTypeOK'
    BY <2>1 DEF BridgesInv, BridgesTypeOK
  <2>3. \A p \in Physical : (Pending(p)' <=> Pending(p)) /\ Claimants(p)' = Claimants(p)
                            /\ (Exists(p)' <=> Exists(p))
    BY <2>1 DEF Exists, Pending, Claimants, NamesOf
  <2>4. OwnedIsReserved' /\ PendingClaimed' /\ OwnedInNets'
    BY <2>1, <2>3 DEF BridgesInv, OwnedIsReserved, PendingClaimed, OwnedInNets
  <2>5. OnOwnNetwork' /\ ClaimsSeen'
    BY <2>1 DEF BridgesInv, OnOwnNetwork, Owns, ClaimsSeen, Reserves
  <2>6. ASSUME NEW b \in Boxes PROVE OpInv(b)'
    <3>1. OpInv(b)
      BY DEF BridgesInv
    <3>2. OpFits(b)' /\ Named(b)' /\ NotYet(b)' /\ GivenUp(b)'
      BY <2>1, <3>1 DEF OpInv, OpFits, Named, Reserves, Owns, NotYet, GivenUp
    <3>3. Drawn(b)'
      BY <2>1, <3>1 DEF OpInv, Drawn, Exists, Reserves
    <3>4. Sweeping(b)'
      BY <2>1, <3>1 DEF OpInv, Sweeping, Swept, Exists, Reserves
    <3> QED
      BY <3>2, <3>3, <3>4 DEF OpInv
  <2> QED
    BY <2>2, <2>4, <2>5, <2>6 DEF BridgesInv
<1> QED
  BY <1>1, <1>2, <1>3 DEF BridgesNext

LEMMA BridgesInitInv == BridgesInit => BridgesInv
<1> SUFFICES ASSUME BridgesInit PROVE BridgesInv
  OBVIOUS
<1>1. BridgesTypeOK
  BY FailureBound, IdleRecord DEF BridgesInit, BridgesTypeOK, OpRecord, Absent
<1>2. \A p \in Physical : bridge[p] = Absent /\ Absent.owner = NoBox
  BY DEF BridgesInit, Absent
<1>3. OwnedIsReserved /\ PendingClaimed /\ OwnedInNets
  BY <1>2 DEF OwnedIsReserved, PendingClaimed, OwnedInNets, Pending, Exists
<1>4. OnOwnNetwork
  BY DEF BridgesInit, OnOwnNetwork
<1>5. ClaimsSeen
  BY Sentinels DEF BridgesInit, ClaimsSeen, Reserves
<1>6. ASSUME NEW b \in Boxes PROVE OpInv(b)
  <2>1. op[b].at = "idle"
    BY IdleRecord DEF BridgesInit
  <2> QED
    BY <2>1 DEF OpInv, OpFits, Named, NotYet, Drawn, GivenUp, Sweeping, Creating, Choosing, Making,
                Deleting
<1> QED
  BY <1>1, <1>3, <1>4, <1>5, <1>6 DEF BridgesInv

\* The inductive invariant holds in every state of the bridge sandboxes.
THEOREM BridgesInvariance == BridgesSpec => []BridgesInv
BY BridgesInitInv, BridgesStepInv, PTL DEF BridgesSpec

\* OwnedIsReserved: whatever calls fail and wherever the server crashes, a
\* configured bridge belongs to a project that exists and that reserves its name.
THEOREM NoBridgeOutlives == BridgesSpec => []OwnedIsReserved
<1>1. BridgesInv => OwnedIsReserved
  BY DEF BridgesInv
<1> QED
  BY <1>1, BridgesInvariance, PTL

\* PendingClaimed: a bridge that is only half created is named by a project, which
\* deletes it, unless two sandboxes have drawn its name.
THEOREM HalfMadeIsNamed == BridgesSpec => []PendingClaimed
<1>1. BridgesInv => PendingClaimed
  BY DEF BridgesInv
<1> QED
  BY <1>1, BridgesInvariance, PTL

\* OnOwnNetwork: whatever is deleted and created between the call that resolves a
\* bridge and the one that writes its name on a NIC, no instance is attached to the
\* bridge of another sandbox, unless two projects once reserved the name at a time.
THEOREM SandboxesApart == BridgesSpec => []OnOwnNetwork
<1>1. BridgesInv => OnOwnNetwork
  BY DEF BridgesInv
<1> QED
  BY <1>1, BridgesInvariance, PTL
=============================================================================
