----------------------------- MODULE ReloadProofs -----------------------------
(***************************************************************************)
(* The reload loop of the dev proxy, over the router of ProxyProofs: that  *)
(* it uses the router in the order the router relies on, and what holds of *)
(* its children, of the definitions it advertises and of the calls it      *)
(* releases, for any callers, tools, children and bounds.                  *)
(***************************************************************************)
EXTENDS ReloadLoop, ProxyProofs

\* The loop's own variables; used is a counter per bound.
Cycles == [stage : Stages, since : 0..MaxVersions, artifact : 0..MaxVersions,
           child : Children \cup {NoChild}, cancelled : BOOLEAN]
OneNews == {{}} \cup {{fps} : fps \in Fingerprints}

WorldTyped ==
    /\ src \in Versions /\ event \in BOOLEAN
    /\ status \in [Children -> {"none", "up", "dead", "closed"}]
    /\ made \in [Children -> 0..MaxVersions]
    /\ gated \in [Children -> Fingerprints]
    /\ news \in [Children -> OneNews]
    /\ advertised \in Fingerprints

CyclingTyped ==
    cycle \in Cycles /\ fresh \in BOOLEAN /\ rerun \in BOOLEAN /\ failedSrc \subseteq Versions

TimersTyped ==
    /\ debounce \in BOOLEAN /\ retry \in BOOLEAN
    /\ retryArtifact \in 0..MaxVersions /\ lastArtifact \in 0..MaxVersions
    /\ backoff \in 0..MaxBackoff

ServingTyped ==
    /\ current \in Children \cup {NoChild} /\ currentFPs \in Fingerprints
    /\ watched \in BOOLEAN /\ currentDead \in BOOLEAN /\ frontendStale \in BOOLEAN
    /\ place \in {"select", "waiting", "drained", "swapped", "reconciled", "updating",
                 "stopping", "stopped"}
    /\ stopping \in BOOLEAN

UsedTyped == used \in [DOMAIN Bounds -> Nat] /\ \A b \in DOMAIN Bounds : used[b] <= Bounds[b]

LoopTyped == WorldTyped /\ CyclingTyped /\ TimersTyped /\ ServingTyped /\ UsedTyped

\* From the repointing of the router to the end of the swap it already calls the
\* candidate, and the old child is closed.
Repointed == place \in {"swapped", "reconciled"}

CycleOK ==
    /\ cycle.stage = "building" \/ (fresh /\ cycle.stage = "starting") => cycle.since \in Versions
    /\ cycle.stage \in {"starting", "ready"} => cycle.artifact \in Versions
    /\ cycle.stage = "ready" => cycle.child \in Children \ {current}
                                /\ status[cycle.child] \in {"up", "dead"}
    /\ cycle.stage # "ready" => cycle.child = NoChild

SwapOK ==
    /\ place \in {"waiting", "drained"} \/ Repointed => cycle.stage = "ready"
    /\ place \in {"waiting", "drained"} => quiesced
    /\ closed <=> place = "stopped"
    /\ place = "stopped" => cycle.stage = "none"
    /\ child = IF Repointed THEN cycle.child ELSE current
    /\ current # NoChild =>
          IF Repointed \/ place = "stopped" THEN status[current] = "closed"
                                           ELSE status[current] \in {"up", "dead"}

\* The router knows the loop's definitions but between the two halves of
\* onToolsChanged; the frontend shows them, or those it is being swapped to.
SyncOK ==
    /\ place # "updating" => fingerprints = currentFPs
    /\ ~frontendStale =>
          advertised = IF place = "reconciled" THEN gated[cycle.child] ELSE currentFPs

\* A call sent on and not yet running was sent to the child now serving.
GrantsOK ==
    \A c \in Calls :
        verdict[c] = "go" /\ grant[c].generation = generation =>
            /\ grant[c].child = child
            /\ ingestFP[c] # Unknown
            /\ gated[child][ToolOf[c]] = ingestFP[c]

LoopInv ==
    LoopTyped /\ CycleOK /\ SwapOK /\ SyncOK /\ GrantsOK /\ NoOrphans /\ RecoveryPending

-----------------------------------------------------------------------------
(* Constants, counters, and what most steps leave alone.                     *)

LEMMA Facts ==
    /\ Versions \subseteq Nat \ {0} /\ Versions \subseteq 0..MaxVersions /\ 1 \in Versions
    /\ \A n \in (0..MaxVersions) \ {0} : n \in Versions
    /\ MaxBackoff \in Nat
    /\ DefsOf \in [Versions -> Fingerprints] /\ Snapshots \subseteq Fingerprints
    /\ NoTools \in Fingerprints
    /\ NoChild \notin Children
BY LoopBounds, DefsOfVersion, SnapshotSets, Sentinels DEF Versions, NoTools, Fingerprints

LEMMA BoundsAre ==
    /\ DOMAIN Bounds = {"failure", "crash", "change", "refusal"}
    /\ \A b \in DOMAIN Bounds : Bounds[b] \in Nat
BY LoopBounds DEF Bounds

LEMMA Spent ==
    ASSUME UsedTyped, NEW b \in {"failure", "crash", "change", "refusal"}, Spend(b)
    PROVE  UsedTyped'
<1>1. used[b] < Bounds[b] /\ used' = [used EXCEPT ![b] = used[b] + 1]
    BY DEF Spend
<1>2. b \in DOMAIN Bounds /\ used[b] \in Nat /\ Bounds[b] \in Nat
    BY BoundsAre DEF UsedTyped
<1>3. used' \in [DOMAIN Bounds -> Nat] /\ used'[b] = used[b] + 1
    BY <1>1, <1>2 DEF UsedTyped
<1>4. \A d \in DOMAIN Bounds : d # b => used'[d] = used[d]
    BY <1>1 DEF UsedTyped
<1>5. \A d \in DOMAIN Bounds : used'[d] <= Bounds[d]
    BY <1>1, <1>2, <1>3, <1>4 DEF UsedTyped
<1>6. Bounds' = Bounds
    BY DEF Bounds
<1> QED
    BY <1>3, <1>5, <1>6 DEF UsedTyped

\* The cycles the loop starts.
LEMMA CycleShapes ==
    /\ NoCycle \in Cycles /\ NoCycle.stage = "none" /\ NoCycle.child = NoChild
    /\ src \in Versions =>
          /\ FullBuild \in Cycles /\ FullBuild.stage = "building"
          /\ FullBuild.since = src /\ FullBuild.child = NoChild
<1>1. NoCycle \in Cycles /\ NoCycle.stage = "none" /\ NoCycle.child = NoChild
    BY LoopBounds DEF NoCycle, Cycles, Stages
<1>2. ASSUME src \in Versions
      PROVE  /\ FullBuild \in Cycles /\ FullBuild.stage = "building"
             /\ FullBuild.since = src /\ FullBuild.child = NoChild
    BY <1>1, <1>2, Facts DEF FullBuild, Cycles, Stages
<1> QED
    BY <1>1, <1>2

LEMMA StartCycleIs ==
    ASSUME src \in Versions, NEW a \in 0..MaxVersions, StartCycle(a)
    PROVE  /\ cycle' \in Cycles /\ fresh' \in BOOLEAN
           /\ cycle'.stage \in {"building", "starting"} /\ cycle'.child = NoChild
           /\ fresh' => cycle'.stage = "building"
           /\ cycle'.stage = "building" => cycle'.since \in Versions
           /\ cycle'.stage = "starting" => cycle'.artifact \in Versions
<1>1. CASE a = 0
    BY <1>1, CycleShapes DEF StartCycle
<1>2. CASE a # 0
    <2> DEFINE y == [NoCycle EXCEPT !.stage = "starting", !.artifact = a]
    <2>1. y \in Cycles /\ y.stage = "starting" /\ y.artifact = a /\ y.child = NoChild
        BY CycleShapes DEF Cycles, Stages
    <2>2. cycle' = y /\ fresh' = FALSE
        BY <1>2 DEF StartCycle
    <2> HIDE DEF y
    <2> QED
        BY <1>2, <2>1, <2>2, Facts
<1> QED
    BY <1>1, <1>2

LEMMA EditKeeps ==
    ASSUME RouterInv, LoopInv, Edit PROVE LoopInv'
<1> USE DEF LoopInv
<1>1. LoopTyped'
    <2> USE DEF LoopTyped
    <2>1. WorldTyped'
        <3>1. src' \in Versions
            BY LoopBounds DEF Edit, WorldTyped, Versions
        <3> QED
            BY <3>1 DEF Edit, WorldTyped
    <2>2. CyclingTyped'
        BY Facts, CycleShapes DEF Edit, world, cycling, timers, serving, routerVars,
                                  loopSide, callSide, WorldTyped, TimersTyped, CyclingTyped,
                                  CycleOK
    <2>3. TimersTyped'
        BY Facts DEF Edit, world, cycling, timers, serving, routerVars, loopSide, callSide,
                     TimersTyped, CyclingTyped, Cycles
    <2>4. ServingTyped'
        BY Facts DEF Edit, world, cycling, timers, serving, routerVars, loopSide, callSide,
                     WorldTyped, CyclingTyped, Cycles, CycleOK, SwapOK, Repointed,
                     ServingTyped, RouterInv, RouterTypeOK
    <2>5. UsedTyped'
        BY BoundsAre DEF Edit, world, cycling, timers, serving, routerVars, loopSide,
                         callSide, UsedTyped
    <2> QED
        BY <2>1, <2>2, <2>3, <2>4, <2>5
<1>2. CycleOK'
    BY Facts, CycleShapes DEF Edit, world, cycling, timers, serving, routerVars, loopSide,
                              callSide, LoopTyped, WorldTyped, CyclingTyped, Cycles,
                              ServingTyped, TimersTyped, CycleOK, SwapOK, Repointed
<1>3. SwapOK'
    BY Facts, CycleShapes DEF Edit, world, cycling, timers, serving, routerVars, loopSide,
                              callSide, LoopTyped, WorldTyped, CyclingTyped, Cycles,
                              ServingTyped, TimersTyped, CycleOK, SwapOK, Repointed
<1>4. SyncOK'
    BY Facts, CycleShapes DEF Edit, world, cycling, timers, serving, routerVars, loopSide,
                              callSide, LoopTyped, WorldTyped, CyclingTyped, Cycles,
                              ServingTyped, TimersTyped, CycleOK, SwapOK, Repointed, SyncOK
<1>5. GrantsOK'
    BY Facts, CycleShapes DEF Edit, world, cycling, timers, serving, routerVars, loopSide,
                              callSide, LoopTyped, WorldTyped, CyclingTyped, Cycles,
                              ServingTyped, TimersTyped, CycleOK, SwapOK, Repointed,
                              GrantsOK
<1>6. NoOrphans'
    BY Facts, CycleShapes DEF Edit, world, cycling, timers, serving, routerVars, loopSide,
                              callSide, LoopTyped, WorldTyped, CyclingTyped, Cycles,
                              ServingTyped, TimersTyped, CycleOK, SwapOK, Repointed,
                              NoOrphans
<1>7. RecoveryPending'
    BY Facts, CycleShapes DEF Edit, world, cycling, timers, serving, routerVars, loopSide,
                              callSide, LoopTyped, WorldTyped, CyclingTyped, Cycles,
                              ServingTyped, TimersTyped, CycleOK, SwapOK, Repointed,
                              RecoveryPending, Healthy
<1> QED
    BY <1>1, <1>2, <1>3, <1>4, <1>5, <1>6, <1>7

LEMMA CrashKeeps ==
    ASSUME RouterInv, LoopInv, NEW k \in Children, Crash(k) PROVE LoopInv'
<1> USE DEF LoopInv
<1>1. LoopTyped'
    <2> USE DEF LoopTyped
    <2>1. WorldTyped'
        BY Facts, CycleShapes DEF Crash, Spend, world, cycling, timers, serving, routerVars,
                                  loopSide, callSide, WorldTyped, CyclingTyped, Cycles,
                                  CycleOK, SwapOK, Repointed
    <2>2. CyclingTyped'
        BY Facts, CycleShapes DEF Crash, Spend, world, cycling, timers, serving, routerVars,
                                  loopSide, callSide, WorldTyped, TimersTyped, CyclingTyped,
                                  CycleOK
    <2>3. TimersTyped'
        BY Facts DEF Crash, Spend, world, cycling, timers, serving, routerVars, loopSide,
                     callSide, TimersTyped, CyclingTyped, Cycles
    <2>4. ServingTyped'
        BY Facts DEF Crash, Spend, world, cycling, timers, serving, routerVars, loopSide,
                     callSide, WorldTyped, CyclingTyped, Cycles, CycleOK, SwapOK, Repointed,
                     ServingTyped, RouterInv, RouterTypeOK
    <2>5. UsedTyped'
        BY Spent DEF Crash, world, cycling, timers, serving, routerVars, loopSide, callSide,
                     UsedTyped
    <2> QED
        BY <2>1, <2>2, <2>3, <2>4, <2>5
<1>2. CycleOK'
    BY Facts, CycleShapes DEF Crash, Spend, world, cycling, timers, serving, routerVars,
                              loopSide, callSide, LoopTyped, WorldTyped, CyclingTyped,
                              Cycles, ServingTyped, TimersTyped, CycleOK, SwapOK, Repointed
<1>3. SwapOK'
    BY Facts, CycleShapes DEF Crash, Spend, world, cycling, timers, serving, routerVars,
                              loopSide, callSide, LoopTyped, WorldTyped, CyclingTyped,
                              Cycles, ServingTyped, TimersTyped, CycleOK, SwapOK, Repointed
<1>4. SyncOK'
    BY Facts, CycleShapes DEF Crash, Spend, world, cycling, timers, serving, routerVars,
                              loopSide, callSide, LoopTyped, WorldTyped, CyclingTyped,
                              Cycles, ServingTyped, TimersTyped, CycleOK, SwapOK, Repointed,
                              SyncOK
<1>5. GrantsOK'
    BY Facts, CycleShapes DEF Crash, Spend, world, cycling, timers, serving, routerVars,
                              loopSide, callSide, LoopTyped, WorldTyped, CyclingTyped,
                              Cycles, ServingTyped, TimersTyped, CycleOK, SwapOK, Repointed,
                              GrantsOK
<1>6. NoOrphans'
    BY Facts, CycleShapes DEF Crash, Spend, world, cycling, timers, serving, routerVars,
                              loopSide, callSide, LoopTyped, WorldTyped, CyclingTyped,
                              Cycles, ServingTyped, TimersTyped, CycleOK, SwapOK, Repointed,
                              NoOrphans
<1>7. RecoveryPending'
    BY Facts, CycleShapes DEF Crash, Spend, world, cycling, timers, serving, routerVars,
                              loopSide, callSide, LoopTyped, WorldTyped, CyclingTyped,
                              Cycles, ServingTyped, TimersTyped, CycleOK, SwapOK, Repointed,
                              RecoveryPending, Healthy
<1> QED
    BY <1>1, <1>2, <1>3, <1>4, <1>5, <1>6, <1>7

LEMMA ChangeToolsKeeps ==
    ASSUME RouterInv, LoopInv, NEW k \in Children, ChangeTools(k) PROVE LoopInv'
<1> USE DEF LoopInv
<1>1. LoopTyped'
    <2> USE DEF LoopTyped
    <2>1. WorldTyped'
        <3>1. PICK fps \in Snapshots : news' = [news EXCEPT ![k] = {fps}]
            BY DEF ChangeTools
        <3>2. {fps} \in OneNews
            BY Facts DEF OneNews
        <3>3. news' \in [Children -> OneNews]
            BY <3>1, <3>2 DEF WorldTyped
        <3> QED
            BY <3>3 DEF ChangeTools, WorldTyped
    <2>2. CyclingTyped'
        BY Facts, CycleShapes DEF ChangeTools, Spend, world, cycling, timers, serving,
                                  routerVars, loopSide, callSide, WorldTyped, TimersTyped,
                                  CyclingTyped, CycleOK
    <2>3. TimersTyped'
        BY Facts DEF ChangeTools, Spend, world, cycling, timers, serving, routerVars,
                     loopSide, callSide, TimersTyped, CyclingTyped, Cycles
    <2>4. ServingTyped'
        BY Facts DEF ChangeTools, Spend, world, cycling, timers, serving, routerVars,
                     loopSide, callSide, WorldTyped, CyclingTyped, Cycles, CycleOK, SwapOK,
                     Repointed, ServingTyped, RouterInv, RouterTypeOK
    <2>5. UsedTyped'
        BY Spent DEF ChangeTools, world, cycling, timers, serving, routerVars, loopSide,
                     callSide, UsedTyped
    <2> QED
        BY <2>1, <2>2, <2>3, <2>4, <2>5
<1>2. CycleOK'
    BY Facts, CycleShapes DEF ChangeTools, Spend, world, cycling, timers, serving,
                              routerVars, loopSide, callSide, LoopTyped, WorldTyped,
                              CyclingTyped, Cycles, ServingTyped, TimersTyped, CycleOK,
                              SwapOK, Repointed
<1>3. SwapOK'
    BY Facts, CycleShapes DEF ChangeTools, Spend, world, cycling, timers, serving,
                              routerVars, loopSide, callSide, LoopTyped, WorldTyped,
                              CyclingTyped, Cycles, ServingTyped, TimersTyped, CycleOK,
                              SwapOK, Repointed
<1>4. SyncOK'
    BY Facts, CycleShapes DEF ChangeTools, Spend, world, cycling, timers, serving,
                              routerVars, loopSide, callSide, LoopTyped, WorldTyped,
                              CyclingTyped, Cycles, ServingTyped, TimersTyped, CycleOK,
                              SwapOK, Repointed, SyncOK
<1>5. GrantsOK'
    BY Facts, CycleShapes DEF ChangeTools, Spend, world, cycling, timers, serving,
                              routerVars, loopSide, callSide, LoopTyped, WorldTyped,
                              CyclingTyped, Cycles, ServingTyped, TimersTyped, CycleOK,
                              SwapOK, Repointed, GrantsOK
<1>6. NoOrphans'
    BY Facts, CycleShapes DEF ChangeTools, Spend, world, cycling, timers, serving,
                              routerVars, loopSide, callSide, LoopTyped, WorldTyped,
                              CyclingTyped, Cycles, ServingTyped, TimersTyped, CycleOK,
                              SwapOK, Repointed, NoOrphans
<1>7. RecoveryPending'
    BY Facts, CycleShapes DEF ChangeTools, Spend, world, cycling, timers, serving,
                              routerVars, loopSide, callSide, LoopTyped, WorldTyped,
                              CyclingTyped, Cycles, ServingTyped, TimersTyped, CycleOK,
                              SwapOK, Repointed, RecoveryPending, Healthy
<1> QED
    BY <1>1, <1>2, <1>3, <1>4, <1>5, <1>6, <1>7

LEMMA SignalKeeps ==
    ASSUME RouterInv, LoopInv, Signal PROVE LoopInv'
<1> USE DEF LoopInv
<1>1. LoopTyped'
    <2> USE DEF LoopTyped
    <2>1. WorldTyped'
        BY Facts, CycleShapes DEF Signal, world, cycling, timers, serving, routerVars,
                                  loopSide, callSide, WorldTyped, CyclingTyped, Cycles,
                                  CycleOK, SwapOK, Repointed
    <2>2. CyclingTyped'
        BY Facts, CycleShapes DEF Signal, world, cycling, timers, serving, routerVars,
                                  loopSide, callSide, WorldTyped, TimersTyped, CyclingTyped,
                                  CycleOK
    <2>3. TimersTyped'
        BY Facts DEF Signal, world, cycling, timers, serving, routerVars, loopSide,
                     callSide, TimersTyped, CyclingTyped, Cycles
    <2>4. ServingTyped'
        BY Facts DEF Signal, world, cycling, timers, serving, routerVars, loopSide,
                     callSide, WorldTyped, CyclingTyped, Cycles, CycleOK, SwapOK, Repointed,
                     ServingTyped, RouterInv, RouterTypeOK
    <2>5. UsedTyped'
        BY BoundsAre DEF Signal, world, cycling, timers, serving, routerVars, loopSide,
                         callSide, UsedTyped
    <2> QED
        BY <2>1, <2>2, <2>3, <2>4, <2>5
<1>2. CycleOK'
    BY Facts, CycleShapes DEF Signal, world, cycling, timers, serving, routerVars, loopSide,
                              callSide, LoopTyped, WorldTyped, CyclingTyped, Cycles,
                              ServingTyped, TimersTyped, CycleOK, SwapOK, Repointed
<1>3. SwapOK'
    BY Facts, CycleShapes DEF Signal, world, cycling, timers, serving, routerVars, loopSide,
                              callSide, LoopTyped, WorldTyped, CyclingTyped, Cycles,
                              ServingTyped, TimersTyped, CycleOK, SwapOK, Repointed
<1>4. SyncOK'
    BY Facts, CycleShapes DEF Signal, world, cycling, timers, serving, routerVars, loopSide,
                              callSide, LoopTyped, WorldTyped, CyclingTyped, Cycles,
                              ServingTyped, TimersTyped, CycleOK, SwapOK, Repointed, SyncOK
<1>5. GrantsOK'
    BY Facts, CycleShapes DEF Signal, world, cycling, timers, serving, routerVars, loopSide,
                              callSide, LoopTyped, WorldTyped, CyclingTyped, Cycles,
                              ServingTyped, TimersTyped, CycleOK, SwapOK, Repointed,
                              GrantsOK
<1>6. NoOrphans'
    BY Facts, CycleShapes DEF Signal, world, cycling, timers, serving, routerVars, loopSide,
                              callSide, LoopTyped, WorldTyped, CyclingTyped, Cycles,
                              ServingTyped, TimersTyped, CycleOK, SwapOK, Repointed,
                              NoOrphans
<1>7. RecoveryPending'
    BY Facts, CycleShapes DEF Signal, world, cycling, timers, serving, routerVars, loopSide,
                              callSide, LoopTyped, WorldTyped, CyclingTyped, Cycles,
                              ServingTyped, TimersTyped, CycleOK, SwapOK, Repointed,
                              RecoveryPending, Healthy
<1> QED
    BY <1>1, <1>2, <1>3, <1>4, <1>5, <1>6, <1>7

LEMMA BuildKeeps ==
    ASSUME RouterInv, LoopInv, Build PROVE LoopInv'
<1> USE DEF LoopInv
<1>0. PICK v \in Versions : cycle' = [cycle EXCEPT !.stage = "starting", !.artifact = v]
    <2>1. PICK v \in cycle.since..src : cycle' = [cycle EXCEPT !.stage = "starting", !.artifact = v]
        BY DEF Build
    <2>2. cycle.since \in 1..MaxVersions /\ src \in 1..MaxVersions
        <3>1. cycle.since \in Versions /\ src \in Versions
            BY DEF Build, LoopTyped, CycleOK, WorldTyped
        <3> QED
            BY <3>1 DEF Versions
    <2>3. v \in 1..MaxVersions
        BY <2>2, LoopBounds
    <2> QED
        BY <2>1, <2>3 DEF Versions
<1>1. LoopTyped'
    <2> USE DEF LoopTyped
    <2>1. WorldTyped'
        BY Facts, CycleShapes DEF Build, world, cycling, timers, serving, routerVars,
                                  loopSide, callSide, WorldTyped, CyclingTyped, Cycles,
                                  CycleOK, SwapOK, Repointed
    <2>2. CyclingTyped'
        <3>1. v \in 0..MaxVersions /\ "starting" \in Stages
            BY Facts DEF Stages
        <3>2. cycle' \in Cycles
            BY <1>0, <3>1 DEF CyclingTyped, Cycles
        <3> QED
            BY <3>2 DEF Build, CyclingTyped
    <2>3. TimersTyped'
        BY Facts DEF Build, world, cycling, timers, serving, routerVars, loopSide, callSide,
                     TimersTyped, CyclingTyped, Cycles
    <2>4. ServingTyped'
        BY Facts DEF Build, world, cycling, timers, serving, routerVars, loopSide, callSide,
                     WorldTyped, CyclingTyped, Cycles, CycleOK, SwapOK, Repointed,
                     ServingTyped, RouterInv, RouterTypeOK
    <2>5. UsedTyped'
        BY BoundsAre DEF Build, world, cycling, timers, serving, routerVars, loopSide,
                         callSide, UsedTyped
    <2> QED
        BY <2>1, <2>2, <2>3, <2>4, <2>5
<1>2. CycleOK'
    BY <1>0, Facts DEF Build, LoopTyped, CyclingTyped, Cycles, CycleOK, serving, world
<1>3. SwapOK'
    BY Facts, CycleShapes DEF Build, world, cycling, timers, serving, routerVars, loopSide,
                              callSide, LoopTyped, WorldTyped, CyclingTyped, Cycles,
                              ServingTyped, TimersTyped, CycleOK, SwapOK, Repointed
<1>4. SyncOK'
    BY Facts, CycleShapes DEF Build, world, cycling, timers, serving, routerVars, loopSide,
                              callSide, LoopTyped, WorldTyped, CyclingTyped, Cycles,
                              ServingTyped, TimersTyped, CycleOK, SwapOK, Repointed, SyncOK
<1>5. GrantsOK'
    BY Facts, CycleShapes DEF Build, world, cycling, timers, serving, routerVars, loopSide,
                              callSide, LoopTyped, WorldTyped, CyclingTyped, Cycles,
                              ServingTyped, TimersTyped, CycleOK, SwapOK, Repointed,
                              GrantsOK
<1>6. NoOrphans'
    BY Facts, CycleShapes DEF Build, world, cycling, timers, serving, routerVars, loopSide,
                              callSide, LoopTyped, WorldTyped, CyclingTyped, Cycles,
                              ServingTyped, TimersTyped, CycleOK, SwapOK, Repointed,
                              NoOrphans
<1>7. RecoveryPending'
    BY Facts, CycleShapes DEF Build, world, cycling, timers, serving, routerVars, loopSide,
                              callSide, LoopTyped, WorldTyped, CyclingTyped, Cycles,
                              ServingTyped, TimersTyped, CycleOK, SwapOK, Repointed,
                              RecoveryPending, Healthy
<1> QED
    BY <1>1, <1>2, <1>3, <1>4, <1>5, <1>6, <1>7

LEMMA StartKeeps ==
    ASSUME RouterInv, LoopInv, Start PROVE LoopInv'
<1> USE DEF LoopInv
<1>0. PICK k \in Children :
         /\ status[k] \in {"none", "closed"} /\ cycle.stage = "starting"
         /\ status' = [status EXCEPT ![k] = "up"]
         /\ made' = [made EXCEPT ![k] = cycle.artifact]
         /\ gated' = [gated EXCEPT ![k] = DefsOf[cycle.artifact]]
         /\ news' = [news EXCEPT ![k] = {}]
         /\ cycle' = [cycle EXCEPT !.stage = "ready", !.child = k]
    BY DEF Start
<1>1. LoopTyped'
    <2> USE DEF LoopTyped
    <2>1. WorldTyped'
        <3>1. cycle.artifact \in Versions /\ cycle.artifact \in 0..MaxVersions /\ {} \in OneNews
            BY <1>0, Facts DEF CycleOK, OneNews
        <3>2. DefsOf[cycle.artifact] \in Fingerprints
            BY <3>1, Facts
        <3> QED
            BY <1>0, <3>1, <3>2 DEF Start, WorldTyped
    <2>2. CyclingTyped'
        BY <1>0 DEF Start, CyclingTyped, Cycles, Stages
    <2>3. TimersTyped'
        BY Facts DEF Start, world, cycling, timers, serving, routerVars, loopSide, callSide,
                     TimersTyped, CyclingTyped, Cycles
    <2>4. ServingTyped'
        BY Facts DEF Start, world, cycling, timers, serving, routerVars, loopSide, callSide,
                     WorldTyped, CyclingTyped, Cycles, CycleOK, SwapOK, Repointed,
                     ServingTyped, RouterInv, RouterTypeOK
    <2>5. UsedTyped'
        BY BoundsAre DEF Start, world, cycling, timers, serving, routerVars, loopSide,
                         callSide, UsedTyped
    <2> QED
        BY <2>1, <2>2, <2>3, <2>4, <2>5
<1>2. CycleOK'
    BY Facts, CycleShapes DEF Start, world, cycling, timers, serving, routerVars, loopSide,
                              callSide, LoopTyped, WorldTyped, CyclingTyped, Cycles,
                              ServingTyped, TimersTyped, CycleOK, SwapOK, Repointed
<1>3. SwapOK'
    BY Facts, CycleShapes DEF Start, world, cycling, timers, serving, routerVars, loopSide,
                              callSide, LoopTyped, WorldTyped, CyclingTyped, Cycles,
                              ServingTyped, TimersTyped, CycleOK, SwapOK, Repointed
<1>4. SyncOK'
    BY Facts, CycleShapes DEF Start, world, cycling, timers, serving, routerVars, loopSide,
                              callSide, LoopTyped, WorldTyped, CyclingTyped, Cycles,
                              ServingTyped, TimersTyped, CycleOK, SwapOK, Repointed, SyncOK
<1>5. GrantsOK'
    BY Facts, CycleShapes DEF Start, world, cycling, timers, serving, routerVars, loopSide,
                              callSide, LoopTyped, WorldTyped, CyclingTyped, Cycles,
                              ServingTyped, TimersTyped, CycleOK, SwapOK, Repointed,
                              GrantsOK
<1>6. NoOrphans'
    BY Facts, CycleShapes DEF Start, world, cycling, timers, serving, routerVars, loopSide,
                              callSide, LoopTyped, WorldTyped, CyclingTyped, Cycles,
                              ServingTyped, TimersTyped, CycleOK, SwapOK, Repointed,
                              NoOrphans
<1>7. RecoveryPending'
    BY Facts, CycleShapes DEF Start, world, cycling, timers, serving, routerVars, loopSide,
                              callSide, LoopTyped, WorldTyped, CyclingTyped, Cycles,
                              ServingTyped, TimersTyped, CycleOK, SwapOK, Repointed,
                              RecoveryPending, Healthy
<1> QED
    BY <1>1, <1>2, <1>3, <1>4, <1>5, <1>6, <1>7

LEMMA CycleFailsKeeps ==
    ASSUME RouterInv, LoopInv, CycleFails PROVE LoopInv'
<1> USE DEF LoopInv
<1>1. LoopTyped'
    <2> USE DEF LoopTyped
    <2>1. WorldTyped'
        BY Facts, CycleShapes DEF CycleFails, Spend, Cancelled, world, cycling, timers,
                                  serving, routerVars, loopSide, callSide, WorldTyped,
                                  CyclingTyped, Cycles, CycleOK, SwapOK, Repointed
    <2>2. CyclingTyped'
        <3>1. cycle' \in Cycles
            BY DEF CycleFails, CyclingTyped, Cycles, Stages
        <3>2. cycle.since \in Versions \/ ~fresh
            BY DEF CycleFails, CycleOK, CyclingTyped
        <3>3. failedSrc' \subseteq Versions
            BY <3>2 DEF CycleFails, CyclingTyped
        <3> QED
            BY <3>1, <3>3 DEF CycleFails, CyclingTyped
    <2>3. TimersTyped'
        BY Facts DEF CycleFails, Spend, Cancelled, world, cycling, timers, serving,
                     routerVars, loopSide, callSide, TimersTyped, CyclingTyped, Cycles
    <2>4. ServingTyped'
        BY Facts DEF CycleFails, Spend, Cancelled, world, cycling, timers, serving,
                     routerVars, loopSide, callSide, WorldTyped, CyclingTyped, Cycles,
                     CycleOK, SwapOK, Repointed, ServingTyped, RouterInv, RouterTypeOK
    <2>5. UsedTyped'
        BY Spent DEF CycleFails, Cancelled, world, cycling, timers, serving, routerVars,
                     loopSide, callSide, UsedTyped
    <2> QED
        BY <2>1, <2>2, <2>3, <2>4, <2>5
<1>2. CycleOK'
    BY Facts, CycleShapes DEF CycleFails, Spend, Cancelled, world, cycling, timers, serving,
                              routerVars, loopSide, callSide, LoopTyped, WorldTyped,
                              CyclingTyped, Cycles, ServingTyped, TimersTyped, CycleOK,
                              SwapOK, Repointed
<1>3. SwapOK'
    BY Facts, CycleShapes DEF CycleFails, Spend, Cancelled, world, cycling, timers, serving,
                              routerVars, loopSide, callSide, LoopTyped, WorldTyped,
                              CyclingTyped, Cycles, ServingTyped, TimersTyped, CycleOK,
                              SwapOK, Repointed
<1>4. SyncOK'
    BY Facts, CycleShapes DEF CycleFails, Spend, Cancelled, world, cycling, timers, serving,
                              routerVars, loopSide, callSide, LoopTyped, WorldTyped,
                              CyclingTyped, Cycles, ServingTyped, TimersTyped, CycleOK,
                              SwapOK, Repointed, SyncOK
<1>5. GrantsOK'
    BY Facts, CycleShapes DEF CycleFails, Spend, Cancelled, world, cycling, timers, serving,
                              routerVars, loopSide, callSide, LoopTyped, WorldTyped,
                              CyclingTyped, Cycles, ServingTyped, TimersTyped, CycleOK,
                              SwapOK, Repointed, GrantsOK
<1>6. NoOrphans'
    BY Facts, CycleShapes DEF CycleFails, Spend, Cancelled, world, cycling, timers, serving,
                              routerVars, loopSide, callSide, LoopTyped, WorldTyped,
                              CyclingTyped, Cycles, ServingTyped, TimersTyped, CycleOK,
                              SwapOK, Repointed, NoOrphans
<1>7. RecoveryPending'
    BY Facts, CycleShapes DEF CycleFails, Spend, Cancelled, world, cycling, timers, serving,
                              routerVars, loopSide, callSide, LoopTyped, WorldTyped,
                              CyclingTyped, Cycles, ServingTyped, TimersTyped, CycleOK,
                              SwapOK, Repointed, RecoveryPending, Healthy
<1> QED
    BY <1>1, <1>2, <1>3, <1>4, <1>5, <1>6, <1>7

LEMMA AbortSwapKeeps ==
    ASSUME RouterInv, LoopInv, AbortSwap PROVE LoopInv'
<1> USE DEF LoopInv
<1>1. LoopTyped'
    <2> USE DEF LoopTyped
    <2>1. WorldTyped'
        BY Facts, CycleShapes DEF AbortSwap, CloseChild, world, cycling, timers, serving,
                                  routerVars, loopSide, callSide, WorldTyped, CyclingTyped,
                                  Cycles, CycleOK, SwapOK, Repointed
    <2>2. CyclingTyped'
        BY Facts, CycleShapes DEF AbortSwap, CloseChild, world, cycling, timers, serving,
                                  routerVars, loopSide, callSide, WorldTyped, TimersTyped,
                                  CyclingTyped, CycleOK
    <2>3. TimersTyped'
        BY Facts DEF AbortSwap, CloseChild, world, cycling, timers, serving, routerVars,
                     loopSide, callSide, TimersTyped, CyclingTyped, Cycles
    <2>4. ServingTyped'
        BY Facts DEF AbortSwap, CloseChild, world, cycling, timers, serving, routerVars,
                     loopSide, callSide, WorldTyped, CyclingTyped, Cycles, CycleOK, SwapOK,
                     Repointed, ServingTyped, RouterInv, RouterTypeOK
    <2>5. UsedTyped'
        BY BoundsAre DEF AbortSwap, CloseChild, world, cycling, timers, serving, routerVars,
                         loopSide, callSide, UsedTyped
    <2> QED
        BY <2>1, <2>2, <2>3, <2>4, <2>5
<1>2. CycleOK'
    BY Facts, CycleShapes DEF AbortSwap, CloseChild, world, cycling, timers, serving,
                              routerVars, loopSide, callSide, LoopTyped, WorldTyped,
                              CyclingTyped, Cycles, ServingTyped, TimersTyped, CycleOK,
                              SwapOK, Repointed
<1>3. SwapOK'
    BY Facts, CycleShapes DEF AbortSwap, CloseChild, world, cycling, timers, serving,
                              routerVars, loopSide, callSide, LoopTyped, WorldTyped,
                              CyclingTyped, Cycles, ServingTyped, TimersTyped, CycleOK,
                              SwapOK, Repointed
<1>4. SyncOK'
    BY Facts, CycleShapes DEF AbortSwap, CloseChild, world, cycling, timers, serving,
                              routerVars, loopSide, callSide, LoopTyped, WorldTyped,
                              CyclingTyped, Cycles, ServingTyped, TimersTyped, CycleOK,
                              SwapOK, Repointed, SyncOK
<1>5. GrantsOK'
    BY Facts, CycleShapes DEF AbortSwap, CloseChild, world, cycling, timers, serving,
                              routerVars, loopSide, callSide, LoopTyped, WorldTyped,
                              CyclingTyped, Cycles, ServingTyped, TimersTyped, CycleOK,
                              SwapOK, Repointed, GrantsOK
<1>6. NoOrphans'
    BY Facts, CycleShapes DEF AbortSwap, CloseChild, world, cycling, timers, serving,
                              routerVars, loopSide, callSide, LoopTyped, WorldTyped,
                              CyclingTyped, Cycles, ServingTyped, TimersTyped, CycleOK,
                              SwapOK, Repointed, NoOrphans
<1>7. RecoveryPending'
    BY Facts, CycleShapes DEF AbortSwap, CloseChild, world, cycling, timers, serving,
                              routerVars, loopSide, callSide, LoopTyped, WorldTyped,
                              CyclingTyped, Cycles, ServingTyped, TimersTyped, CycleOK,
                              SwapOK, Repointed, RecoveryPending, Healthy
<1> QED
    BY <1>1, <1>2, <1>3, <1>4, <1>5, <1>6, <1>7

LEMMA SwapChildKeeps ==
    ASSUME RouterInv, LoopInv, SwapChild PROVE LoopInv'
<1> USE DEF LoopInv
<1>1. LoopTyped'
    <2> USE DEF LoopTyped
    <2>1. WorldTyped'
        BY Facts, CycleShapes DEF SwapChild, CloseChild, Swap, world, cycling, timers,
                                  serving, routerVars, loopSide, callSide, WorldTyped,
                                  CyclingTyped, Cycles, CycleOK, SwapOK, Repointed
    <2>2. CyclingTyped'
        BY Facts, CycleShapes DEF SwapChild, CloseChild, Swap, world, cycling, timers,
                                  serving, routerVars, loopSide, callSide, WorldTyped,
                                  TimersTyped, CyclingTyped, CycleOK
    <2>3. TimersTyped'
        BY Facts DEF SwapChild, CloseChild, Swap, world, cycling, timers, serving,
                     routerVars, loopSide, callSide, TimersTyped, CyclingTyped, Cycles
    <2>4. ServingTyped'
        BY Facts DEF SwapChild, CloseChild, Swap, world, cycling, timers, serving,
                     routerVars, loopSide, callSide, WorldTyped, CyclingTyped, Cycles,
                     CycleOK, SwapOK, Repointed, ServingTyped, RouterInv, RouterTypeOK
    <2>5. UsedTyped'
        BY BoundsAre DEF SwapChild, CloseChild, Swap, world, cycling, timers, serving,
                         routerVars, loopSide, callSide, UsedTyped
    <2> QED
        BY <2>1, <2>2, <2>3, <2>4, <2>5
<1>2. CycleOK'
    BY Facts, CycleShapes DEF SwapChild, CloseChild, Swap, world, cycling, timers, serving,
                              routerVars, loopSide, callSide, LoopTyped, WorldTyped,
                              CyclingTyped, Cycles, ServingTyped, TimersTyped, CycleOK,
                              SwapOK, Repointed
<1>3. SwapOK'
    BY Facts, CycleShapes DEF SwapChild, CloseChild, Swap, world, cycling, timers, serving,
                              routerVars, loopSide, callSide, LoopTyped, WorldTyped,
                              CyclingTyped, Cycles, ServingTyped, TimersTyped, CycleOK,
                              SwapOK, Repointed
<1>4. SyncOK'
    BY Facts, CycleShapes DEF SwapChild, CloseChild, Swap, world, cycling, timers, serving,
                              routerVars, loopSide, callSide, LoopTyped, WorldTyped,
                              CyclingTyped, Cycles, ServingTyped, TimersTyped, CycleOK,
                              SwapOK, Repointed, SyncOK
<1>5. GrantsOK'
    <2>1. \A c \in Calls : verdict[c] = "go" => grant[c].generation <= generation /\ grant[c].generation \in Nat
        BY DEF RouterInv, GrantsInPast, RouterTypeOK, Grants
    <2>2. generation \in Nat /\ generation' = generation + 1 /\ UNCHANGED <<verdict, grant>>
        BY DEF SwapChild, Swap, RouterInv, RouterTypeOK, callSide
    <2> QED
        BY <2>1, <2>2 DEF GrantsOK
<1>6. NoOrphans'
    BY Facts, CycleShapes DEF SwapChild, CloseChild, Swap, world, cycling, timers, serving,
                              routerVars, loopSide, callSide, LoopTyped, WorldTyped,
                              CyclingTyped, Cycles, ServingTyped, TimersTyped, CycleOK,
                              SwapOK, Repointed, NoOrphans
<1>7. RecoveryPending'
    BY Facts, CycleShapes DEF SwapChild, CloseChild, Swap, world, cycling, timers, serving,
                              routerVars, loopSide, callSide, LoopTyped, WorldTyped,
                              CyclingTyped, Cycles, ServingTyped, TimersTyped, CycleOK,
                              SwapOK, Repointed, RecoveryPending, Healthy
<1> QED
    BY <1>1, <1>2, <1>3, <1>4, <1>5, <1>6, <1>7

LEMMA SwapReconcileKeeps ==
    ASSUME RouterInv, LoopInv, SwapReconcile PROVE LoopInv'
<1> USE DEF LoopInv
<1>1. LoopTyped'
    <2> USE DEF LoopTyped
    <2>1. WorldTyped'
        BY Facts, CycleShapes DEF SwapReconcile, Reconcile, UnchangedSet, Spend, world,
                                  cycling, timers, serving, routerVars, loopSide, callSide,
                                  WorldTyped, CyclingTyped, Cycles, CycleOK, SwapOK,
                                  Repointed
    <2>2. CyclingTyped'
        BY Facts, CycleShapes DEF SwapReconcile, Reconcile, UnchangedSet, Spend, world,
                                  cycling, timers, serving, routerVars, loopSide, callSide,
                                  WorldTyped, TimersTyped, CyclingTyped, CycleOK
    <2>3. TimersTyped'
        BY Facts DEF SwapReconcile, Reconcile, UnchangedSet, Spend, world, cycling, timers,
                     serving, routerVars, loopSide, callSide, TimersTyped, CyclingTyped,
                     Cycles
    <2>4. ServingTyped'
        BY Facts DEF SwapReconcile, Reconcile, UnchangedSet, Spend, world, cycling, timers,
                     serving, routerVars, loopSide, callSide, WorldTyped, CyclingTyped,
                     Cycles, CycleOK, SwapOK, Repointed, ServingTyped, RouterInv,
                     RouterTypeOK
    <2>5. UsedTyped'
        BY Spent DEF SwapReconcile, Reconcile, UnchangedSet, world, cycling, timers,
                     serving, routerVars, loopSide, callSide, UsedTyped
    <2> QED
        BY <2>1, <2>2, <2>3, <2>4, <2>5
<1>2. CycleOK'
    BY Facts, CycleShapes DEF SwapReconcile, Reconcile, UnchangedSet, Spend, world, cycling,
                              timers, serving, routerVars, loopSide, callSide, LoopTyped,
                              WorldTyped, CyclingTyped, Cycles, ServingTyped, TimersTyped,
                              CycleOK, SwapOK, Repointed
<1>3. SwapOK'
    BY Facts, CycleShapes DEF SwapReconcile, Reconcile, UnchangedSet, Spend, world, cycling,
                              timers, serving, routerVars, loopSide, callSide, LoopTyped,
                              WorldTyped, CyclingTyped, Cycles, ServingTyped, TimersTyped,
                              CycleOK, SwapOK, Repointed
<1>4. SyncOK'
    BY Facts, CycleShapes DEF SwapReconcile, Reconcile, UnchangedSet, Spend, world, cycling,
                              timers, serving, routerVars, loopSide, callSide, LoopTyped,
                              WorldTyped, CyclingTyped, Cycles, ServingTyped, TimersTyped,
                              CycleOK, SwapOK, Repointed, SyncOK
<1>5. GrantsOK'
    BY Facts, CycleShapes DEF SwapReconcile, Reconcile, UnchangedSet, Spend, world, cycling,
                              timers, serving, routerVars, loopSide, callSide, LoopTyped,
                              WorldTyped, CyclingTyped, Cycles, ServingTyped, TimersTyped,
                              CycleOK, SwapOK, Repointed, GrantsOK
<1>6. NoOrphans'
    BY Facts, CycleShapes DEF SwapReconcile, Reconcile, UnchangedSet, Spend, world, cycling,
                              timers, serving, routerVars, loopSide, callSide, LoopTyped,
                              WorldTyped, CyclingTyped, Cycles, ServingTyped, TimersTyped,
                              CycleOK, SwapOK, Repointed, NoOrphans
<1>7. RecoveryPending'
    BY Facts, CycleShapes DEF SwapReconcile, Reconcile, UnchangedSet, Spend, world, cycling,
                              timers, serving, routerVars, loopSide, callSide, LoopTyped,
                              WorldTyped, CyclingTyped, Cycles, ServingTyped, TimersTyped,
                              CycleOK, SwapOK, Repointed, RecoveryPending, Healthy
<1> QED
    BY <1>1, <1>2, <1>3, <1>4, <1>5, <1>6, <1>7

LEMMA EndSwapKeeps ==
    ASSUME RouterInv, LoopInv, EndSwap PROVE LoopInv'
<1> USE DEF LoopInv
<1>1. LoopTyped'
    <2> USE DEF LoopTyped
    <2>1. WorldTyped'
        BY Facts, CycleShapes DEF EndSwap, Drain, NextBackoff, world, cycling, timers,
                                  serving, routerVars, loopSide, callSide, WorldTyped,
                                  CyclingTyped, Cycles, CycleOK, SwapOK, Repointed
    <2>2. CyclingTyped'
        BY Facts, CycleShapes DEF EndSwap, Drain, NextBackoff, world, cycling, timers,
                                  serving, routerVars, loopSide, callSide, WorldTyped,
                                  TimersTyped, CyclingTyped, CycleOK
    <2>3. TimersTyped'
        BY Facts DEF EndSwap, Drain, NextBackoff, world, cycling, timers, serving,
                     routerVars, loopSide, callSide, TimersTyped, CyclingTyped, Cycles
    <2>4. ServingTyped'
        BY Facts DEF EndSwap, Drain, NextBackoff, world, cycling, timers, serving,
                     routerVars, loopSide, callSide, WorldTyped, CyclingTyped, Cycles,
                     CycleOK, SwapOK, Repointed, ServingTyped, RouterInv, RouterTypeOK
    <2>5. UsedTyped'
        BY BoundsAre DEF EndSwap, Drain, NextBackoff, world, cycling, timers, serving,
                         routerVars, loopSide, callSide, UsedTyped
    <2> QED
        BY <2>1, <2>2, <2>3, <2>4, <2>5
<1>2. CycleOK'
    BY Facts, CycleShapes DEF EndSwap, Drain, NextBackoff, world, cycling, timers, serving,
                              routerVars, loopSide, callSide, LoopTyped, WorldTyped,
                              CyclingTyped, Cycles, ServingTyped, TimersTyped, CycleOK,
                              SwapOK, Repointed
<1>3. SwapOK'
    BY Facts, CycleShapes DEF EndSwap, Drain, NextBackoff, world, cycling, timers, serving,
                              routerVars, loopSide, callSide, LoopTyped, WorldTyped,
                              CyclingTyped, Cycles, ServingTyped, TimersTyped, CycleOK,
                              SwapOK, Repointed
<1>4. SyncOK'
    BY Facts, CycleShapes DEF EndSwap, Drain, NextBackoff, world, cycling, timers, serving,
                              routerVars, loopSide, callSide, LoopTyped, WorldTyped,
                              CyclingTyped, Cycles, ServingTyped, TimersTyped, CycleOK,
                              SwapOK, Repointed, SyncOK
<1>5. GrantsOK'
    <2> DEFINE fps == gated[cycle.child]
    <2>1. place = "reconciled" /\ child = cycle.child /\ child \in Children
        BY DEF EndSwap, SwapOK, CycleOK, Repointed
    <2>2. /\ child' = child /\ generation' = generation /\ ingestFP' = ingestFP /\ gated' = gated
          /\ verdict' = [c \in Calls |-> IF c \in Released(fps) THEN "go"
                                         ELSE IF c \in buffer THEN "stale" ELSE verdict[c]]
          /\ grant' = [c \in Calls |-> IF c \in Released(fps) THEN Current ELSE grant[c]]
        BY DEF EndSwap, Drain, world
    <2> SUFFICES ASSUME NEW c \in Calls, verdict'[c] = "go", grant'[c].generation = generation
                 PROVE  /\ grant'[c].child = child /\ ingestFP[c] # Unknown
                        /\ gated[child][ToolOf[c]] = ingestFP[c]
        BY <2>2 DEF GrantsOK
    <2>3. CASE c \in Released(fps)
        <3>1. grant'[c] = Current
            BY <2>2, <2>3
        <3> QED
            BY <2>1, <2>3, <3>1 DEF Released, MatchesCurrent, Current
    <2>4. CASE c \notin Released(fps)
        <3>1. verdict[c] = "go" /\ grant'[c] = grant[c]
            BY <2>2, <2>4
        <3> QED
            BY <3>1 DEF GrantsOK
    <2> QED
        BY <2>3, <2>4
<1>6. NoOrphans'
    BY Facts, CycleShapes DEF EndSwap, Drain, NextBackoff, world, cycling, timers, serving,
                              routerVars, loopSide, callSide, LoopTyped, WorldTyped,
                              CyclingTyped, Cycles, ServingTyped, TimersTyped, CycleOK,
                              SwapOK, Repointed, NoOrphans
<1>7. RecoveryPending'
    BY Facts, CycleShapes DEF EndSwap, Drain, NextBackoff, world, cycling, timers, serving,
                              routerVars, loopSide, callSide, LoopTyped, WorldTyped,
                              CyclingTyped, Cycles, ServingTyped, TimersTyped, CycleOK,
                              SwapOK, Repointed, RecoveryPending, Healthy
<1> QED
    BY <1>1, <1>2, <1>3, <1>4, <1>5, <1>6, <1>7

LEMMA OnChangeKeeps ==
    ASSUME RouterInv, LoopInv, OnChange PROVE LoopInv'
<1> USE DEF LoopInv
<1>1. LoopTyped'
    <2> USE DEF LoopTyped
    <2>1. WorldTyped'
        BY Facts, CycleShapes DEF OnChange, AtSelect, world, cycling, timers, serving,
                                  routerVars, loopSide, callSide, WorldTyped, CyclingTyped,
                                  Cycles, CycleOK, SwapOK, Repointed
    <2>2. CyclingTyped'
        BY Facts, CycleShapes DEF OnChange, AtSelect, world, cycling, timers, serving,
                                  routerVars, loopSide, callSide, WorldTyped, TimersTyped,
                                  CyclingTyped, CycleOK
    <2>3. TimersTyped'
        BY Facts DEF OnChange, AtSelect, world, cycling, timers, serving, routerVars,
                     loopSide, callSide, TimersTyped, CyclingTyped, Cycles
    <2>4. ServingTyped'
        BY Facts DEF OnChange, AtSelect, world, cycling, timers, serving, routerVars,
                     loopSide, callSide, WorldTyped, CyclingTyped, Cycles, CycleOK, SwapOK,
                     Repointed, ServingTyped, RouterInv, RouterTypeOK
    <2>5. UsedTyped'
        BY BoundsAre DEF OnChange, AtSelect, world, cycling, timers, serving, routerVars,
                         loopSide, callSide, UsedTyped
    <2> QED
        BY <2>1, <2>2, <2>3, <2>4, <2>5
<1>2. CycleOK'
    BY Facts, CycleShapes DEF OnChange, AtSelect, world, cycling, timers, serving,
                              routerVars, loopSide, callSide, LoopTyped, WorldTyped,
                              CyclingTyped, Cycles, ServingTyped, TimersTyped, CycleOK,
                              SwapOK, Repointed
<1>3. SwapOK'
    BY Facts, CycleShapes DEF OnChange, AtSelect, world, cycling, timers, serving,
                              routerVars, loopSide, callSide, LoopTyped, WorldTyped,
                              CyclingTyped, Cycles, ServingTyped, TimersTyped, CycleOK,
                              SwapOK, Repointed
<1>4. SyncOK'
    BY Facts, CycleShapes DEF OnChange, AtSelect, world, cycling, timers, serving,
                              routerVars, loopSide, callSide, LoopTyped, WorldTyped,
                              CyclingTyped, Cycles, ServingTyped, TimersTyped, CycleOK,
                              SwapOK, Repointed, SyncOK
<1>5. GrantsOK'
    BY Facts, CycleShapes DEF OnChange, AtSelect, world, cycling, timers, serving,
                              routerVars, loopSide, callSide, LoopTyped, WorldTyped,
                              CyclingTyped, Cycles, ServingTyped, TimersTyped, CycleOK,
                              SwapOK, Repointed, GrantsOK
<1>6. NoOrphans'
    BY Facts, CycleShapes DEF OnChange, AtSelect, world, cycling, timers, serving,
                              routerVars, loopSide, callSide, LoopTyped, WorldTyped,
                              CyclingTyped, Cycles, ServingTyped, TimersTyped, CycleOK,
                              SwapOK, Repointed, NoOrphans
<1>7. RecoveryPending'
    BY Facts, CycleShapes DEF OnChange, AtSelect, world, cycling, timers, serving,
                              routerVars, loopSide, callSide, LoopTyped, WorldTyped,
                              CyclingTyped, Cycles, ServingTyped, TimersTyped, CycleOK,
                              SwapOK, Repointed, RecoveryPending, Healthy
<1> QED
    BY <1>1, <1>2, <1>3, <1>4, <1>5, <1>6, <1>7

LEMMA OnDebounceKeeps ==
    ASSUME RouterInv, LoopInv, OnDebounce PROVE LoopInv'
<1> USE DEF LoopInv
<1>0. /\ cycle' \in Cycles /\ fresh' \in BOOLEAN /\ rerun' \in BOOLEAN
      /\ cycle'.stage # "none" /\ cycle'.child = cycle.child
      /\ \/ /\ cycle'.stage = cycle.stage /\ cycle'.since = cycle.since
            /\ cycle'.artifact = cycle.artifact /\ fresh' = fresh
         \/ /\ cycle'.stage \in {"building", "starting"} /\ cycle.stage = "none"
            /\ fresh' => cycle'.stage = "building"
            /\ cycle'.stage = "building" => cycle'.since \in Versions
            /\ cycle'.stage = "starting" => cycle'.artifact \in Versions
    <2>1. CASE cycle.stage # "none"
        BY <2>1 DEF OnDebounce, LoopTyped, CyclingTyped, Cycles
    <2>2. CASE cycle.stage = "none"
        <3>1. StartCycle(0) /\ UNCHANGED rerun /\ src \in Versions /\ cycle.child = NoChild
            BY <2>2 DEF OnDebounce, LoopTyped, WorldTyped, CycleOK
        <3>2. 0 \in 0..MaxVersions /\ rerun \in BOOLEAN
            BY LoopBounds DEF LoopTyped, CyclingTyped
        <3> QED
            BY <2>2, <3>1, <3>2, StartCycleIs
    <2> QED
        BY <2>1, <2>2
<1>1. LoopTyped'
    <2> USE DEF LoopTyped
    <2>1. WorldTyped'
        BY Facts, CycleShapes DEF OnDebounce, AtSelect, StartCycle, world, cycling, timers,
                                  serving, routerVars, loopSide, callSide, WorldTyped,
                                  CyclingTyped, Cycles, CycleOK, SwapOK, Repointed
    <2>2. CyclingTyped'
        BY <1>0 DEF OnDebounce, CyclingTyped
    <2>3. TimersTyped'
        BY Facts DEF OnDebounce, AtSelect, StartCycle, world, cycling, timers, serving,
                     routerVars, loopSide, callSide, TimersTyped, CyclingTyped, Cycles
    <2>4. ServingTyped'
        BY Facts DEF OnDebounce, AtSelect, StartCycle, world, cycling, timers, serving,
                     routerVars, loopSide, callSide, WorldTyped, CyclingTyped, Cycles,
                     CycleOK, SwapOK, Repointed, ServingTyped, RouterInv, RouterTypeOK
    <2>5. UsedTyped'
        BY BoundsAre DEF OnDebounce, AtSelect, StartCycle, world, cycling, timers, serving,
                         routerVars, loopSide, callSide, UsedTyped
    <2> QED
        BY <2>1, <2>2, <2>3, <2>4, <2>5
<1>2. CycleOK'
    BY <1>0 DEF OnDebounce, CycleOK, world, serving
<1>3. SwapOK'
    BY Facts, CycleShapes, StartCycleIs DEF OnDebounce, AtSelect, world, cycling, timers,
                                            serving, routerVars, loopSide, callSide,
                                            LoopTyped, WorldTyped, CyclingTyped, Cycles,
                                            ServingTyped, TimersTyped, CycleOK, SwapOK,
                                            Repointed
<1>4. SyncOK'
    BY Facts, CycleShapes, StartCycleIs DEF OnDebounce, AtSelect, world, cycling, timers,
                                            serving, routerVars, loopSide, callSide,
                                            LoopTyped, WorldTyped, CyclingTyped, Cycles,
                                            ServingTyped, TimersTyped, CycleOK, SwapOK,
                                            Repointed, SyncOK
<1>5. GrantsOK'
    BY Facts, CycleShapes, StartCycleIs DEF OnDebounce, AtSelect, world, cycling, timers,
                                            serving, routerVars, loopSide, callSide,
                                            LoopTyped, WorldTyped, CyclingTyped, Cycles,
                                            ServingTyped, TimersTyped, CycleOK, SwapOK,
                                            Repointed, GrantsOK
<1>6. NoOrphans'
    BY Facts, CycleShapes, StartCycleIs DEF OnDebounce, AtSelect, world, cycling, timers,
                                            serving, routerVars, loopSide, callSide,
                                            LoopTyped, WorldTyped, CyclingTyped, Cycles,
                                            ServingTyped, TimersTyped, CycleOK, SwapOK,
                                            Repointed, NoOrphans
<1>7. RecoveryPending'
    BY <1>0 DEF OnDebounce, RecoveryPending, Healthy, serving, routerVars, loopSide
<1> QED
    BY <1>1, <1>2, <1>3, <1>4, <1>5, <1>6, <1>7

LEMMA OnSupersededKeeps ==
    ASSUME RouterInv, LoopInv, OnSuperseded PROVE LoopInv'
<1> USE DEF LoopInv
<1>1. LoopTyped'
    <2> USE DEF LoopTyped
    <2>1. WorldTyped'
        BY Facts, CycleShapes DEF OnSuperseded, AtSelect, CloseChild, world, cycling,
                                  timers, serving, routerVars, loopSide, callSide,
                                  WorldTyped, CyclingTyped, Cycles, CycleOK, SwapOK,
                                  Repointed
    <2>2. CyclingTyped'
        BY Facts, CycleShapes DEF OnSuperseded, AtSelect, CloseChild, world, cycling,
                                  timers, serving, routerVars, loopSide, callSide,
                                  WorldTyped, TimersTyped, CyclingTyped, CycleOK
    <2>3. TimersTyped'
        BY Facts DEF OnSuperseded, AtSelect, CloseChild, world, cycling, timers, serving,
                     routerVars, loopSide, callSide, TimersTyped, CyclingTyped, Cycles
    <2>4. ServingTyped'
        BY Facts DEF OnSuperseded, AtSelect, CloseChild, world, cycling, timers, serving,
                     routerVars, loopSide, callSide, WorldTyped, CyclingTyped, Cycles,
                     CycleOK, SwapOK, Repointed, ServingTyped, RouterInv, RouterTypeOK
    <2>5. UsedTyped'
        BY BoundsAre DEF OnSuperseded, AtSelect, CloseChild, world, cycling, timers,
                         serving, routerVars, loopSide, callSide, UsedTyped
    <2> QED
        BY <2>1, <2>2, <2>3, <2>4, <2>5
<1>2. CycleOK'
    BY Facts, CycleShapes DEF OnSuperseded, AtSelect, CloseChild, world, cycling, timers,
                              serving, routerVars, loopSide, callSide, LoopTyped,
                              WorldTyped, CyclingTyped, Cycles, ServingTyped, TimersTyped,
                              CycleOK, SwapOK, Repointed
<1>3. SwapOK'
    BY Facts, CycleShapes DEF OnSuperseded, AtSelect, CloseChild, world, cycling, timers,
                              serving, routerVars, loopSide, callSide, LoopTyped,
                              WorldTyped, CyclingTyped, Cycles, ServingTyped, TimersTyped,
                              CycleOK, SwapOK, Repointed
<1>4. SyncOK'
    BY Facts, CycleShapes DEF OnSuperseded, AtSelect, CloseChild, world, cycling, timers,
                              serving, routerVars, loopSide, callSide, LoopTyped,
                              WorldTyped, CyclingTyped, Cycles, ServingTyped, TimersTyped,
                              CycleOK, SwapOK, Repointed, SyncOK
<1>5. GrantsOK'
    BY Facts, CycleShapes DEF OnSuperseded, AtSelect, CloseChild, world, cycling, timers,
                              serving, routerVars, loopSide, callSide, LoopTyped,
                              WorldTyped, CyclingTyped, Cycles, ServingTyped, TimersTyped,
                              CycleOK, SwapOK, Repointed, GrantsOK
<1>6. NoOrphans'
    BY Facts, CycleShapes DEF OnSuperseded, AtSelect, CloseChild, world, cycling, timers,
                              serving, routerVars, loopSide, callSide, LoopTyped,
                              WorldTyped, CyclingTyped, Cycles, ServingTyped, TimersTyped,
                              CycleOK, SwapOK, Repointed, NoOrphans
<1>7. RecoveryPending'
    BY Facts, CycleShapes DEF OnSuperseded, AtSelect, CloseChild, world, cycling, timers,
                              serving, routerVars, loopSide, callSide, LoopTyped,
                              WorldTyped, CyclingTyped, Cycles, ServingTyped, TimersTyped,
                              CycleOK, SwapOK, Repointed, RecoveryPending, Healthy
<1> QED
    BY <1>1, <1>2, <1>3, <1>4, <1>5, <1>6, <1>7

LEMMA OnCycleFailureKeeps ==
    ASSUME RouterInv, LoopInv, OnCycleFailure PROVE LoopInv'
<1> USE DEF LoopInv
<1>1. LoopTyped'
    <2> USE DEF LoopTyped
    <2>1. WorldTyped'
        BY Facts, CycleShapes DEF OnCycleFailure, AtSelect, Quiesce, NextBackoff, Healthy,
                                  world, cycling, timers, serving, routerVars, loopSide,
                                  callSide, WorldTyped, CyclingTyped, Cycles, CycleOK,
                                  SwapOK, Repointed
    <2>2. CyclingTyped'
        BY Facts, CycleShapes DEF OnCycleFailure, AtSelect, Quiesce, NextBackoff, Healthy,
                                  world, cycling, timers, serving, routerVars, loopSide,
                                  callSide, WorldTyped, TimersTyped, CyclingTyped, CycleOK
    <2>3. TimersTyped'
        <3>1. NextBackoff \in 0..MaxBackoff
            BY Facts DEF NextBackoff, TimersTyped
        <3> QED
            BY <3>1 DEF OnCycleFailure, TimersTyped
    <2>4. ServingTyped'
        BY Facts DEF OnCycleFailure, AtSelect, Quiesce, NextBackoff, Healthy, world,
                     cycling, timers, serving, routerVars, loopSide, callSide, WorldTyped,
                     CyclingTyped, Cycles, CycleOK, SwapOK, Repointed, ServingTyped,
                     RouterInv, RouterTypeOK
    <2>5. UsedTyped'
        BY BoundsAre DEF OnCycleFailure, AtSelect, Quiesce, NextBackoff, Healthy, world,
                         cycling, timers, serving, routerVars, loopSide, callSide, UsedTyped
    <2> QED
        BY <2>1, <2>2, <2>3, <2>4, <2>5
<1>2. CycleOK'
    BY Facts, CycleShapes DEF OnCycleFailure, AtSelect, Quiesce, NextBackoff, Healthy,
                              world, cycling, timers, serving, routerVars, loopSide,
                              callSide, LoopTyped, WorldTyped, CyclingTyped, Cycles,
                              ServingTyped, TimersTyped, CycleOK, SwapOK, Repointed
<1>3. SwapOK'
    BY Facts, CycleShapes DEF OnCycleFailure, AtSelect, Quiesce, NextBackoff, Healthy,
                              world, cycling, timers, serving, routerVars, loopSide,
                              callSide, LoopTyped, WorldTyped, CyclingTyped, Cycles,
                              ServingTyped, TimersTyped, CycleOK, SwapOK, Repointed
<1>4. SyncOK'
    BY Facts, CycleShapes DEF OnCycleFailure, AtSelect, Quiesce, NextBackoff, Healthy,
                              world, cycling, timers, serving, routerVars, loopSide,
                              callSide, LoopTyped, WorldTyped, CyclingTyped, Cycles,
                              ServingTyped, TimersTyped, CycleOK, SwapOK, Repointed, SyncOK
<1>5. GrantsOK'
    BY Facts, CycleShapes DEF OnCycleFailure, AtSelect, Quiesce, NextBackoff, Healthy,
                              world, cycling, timers, serving, routerVars, loopSide,
                              callSide, LoopTyped, WorldTyped, CyclingTyped, Cycles,
                              ServingTyped, TimersTyped, CycleOK, SwapOK, Repointed,
                              GrantsOK
<1>6. NoOrphans'
    BY Facts, CycleShapes DEF OnCycleFailure, AtSelect, Quiesce, NextBackoff, Healthy,
                              world, cycling, timers, serving, routerVars, loopSide,
                              callSide, LoopTyped, WorldTyped, CyclingTyped, Cycles,
                              ServingTyped, TimersTyped, CycleOK, SwapOK, Repointed,
                              NoOrphans
<1>7. RecoveryPending'
    BY Facts, CycleShapes DEF OnCycleFailure, AtSelect, Quiesce, NextBackoff, Healthy,
                              world, cycling, timers, serving, routerVars, loopSide,
                              callSide, LoopTyped, WorldTyped, CyclingTyped, Cycles,
                              ServingTyped, TimersTyped, CycleOK, SwapOK, Repointed,
                              RecoveryPending, Healthy
<1> QED
    BY <1>1, <1>2, <1>3, <1>4, <1>5, <1>6, <1>7

LEMMA BeginSwapKeeps ==
    ASSUME RouterInv, LoopInv, BeginSwap PROVE LoopInv'
<1> USE DEF LoopInv
<1>1. LoopTyped'
    <2> USE DEF LoopTyped
    <2>1. WorldTyped'
        BY Facts, CycleShapes DEF BeginSwap, AtSelect, Quiesce, world, cycling, timers,
                                  serving, routerVars, loopSide, callSide, WorldTyped,
                                  CyclingTyped, Cycles, CycleOK, SwapOK, Repointed
    <2>2. CyclingTyped'
        BY Facts, CycleShapes DEF BeginSwap, AtSelect, Quiesce, world, cycling, timers,
                                  serving, routerVars, loopSide, callSide, WorldTyped,
                                  TimersTyped, CyclingTyped, CycleOK
    <2>3. TimersTyped'
        BY Facts DEF BeginSwap, AtSelect, Quiesce, world, cycling, timers, serving,
                     routerVars, loopSide, callSide, TimersTyped, CyclingTyped, Cycles
    <2>4. ServingTyped'
        BY Facts DEF BeginSwap, AtSelect, Quiesce, world, cycling, timers, serving,
                     routerVars, loopSide, callSide, WorldTyped, CyclingTyped, Cycles,
                     CycleOK, SwapOK, Repointed, ServingTyped, RouterInv, RouterTypeOK
    <2>5. UsedTyped'
        BY BoundsAre DEF BeginSwap, AtSelect, Quiesce, world, cycling, timers, serving,
                         routerVars, loopSide, callSide, UsedTyped
    <2> QED
        BY <2>1, <2>2, <2>3, <2>4, <2>5
<1>2. CycleOK'
    BY Facts, CycleShapes DEF BeginSwap, AtSelect, Quiesce, world, cycling, timers, serving,
                              routerVars, loopSide, callSide, LoopTyped, WorldTyped,
                              CyclingTyped, Cycles, ServingTyped, TimersTyped, CycleOK,
                              SwapOK, Repointed
<1>3. SwapOK'
    BY Facts, CycleShapes DEF BeginSwap, AtSelect, Quiesce, world, cycling, timers, serving,
                              routerVars, loopSide, callSide, LoopTyped, WorldTyped,
                              CyclingTyped, Cycles, ServingTyped, TimersTyped, CycleOK,
                              SwapOK, Repointed
<1>4. SyncOK'
    BY Facts, CycleShapes DEF BeginSwap, AtSelect, Quiesce, world, cycling, timers, serving,
                              routerVars, loopSide, callSide, LoopTyped, WorldTyped,
                              CyclingTyped, Cycles, ServingTyped, TimersTyped, CycleOK,
                              SwapOK, Repointed, SyncOK
<1>5. GrantsOK'
    BY Facts, CycleShapes DEF BeginSwap, AtSelect, Quiesce, world, cycling, timers, serving,
                              routerVars, loopSide, callSide, LoopTyped, WorldTyped,
                              CyclingTyped, Cycles, ServingTyped, TimersTyped, CycleOK,
                              SwapOK, Repointed, GrantsOK
<1>6. NoOrphans'
    BY Facts, CycleShapes DEF BeginSwap, AtSelect, Quiesce, world, cycling, timers, serving,
                              routerVars, loopSide, callSide, LoopTyped, WorldTyped,
                              CyclingTyped, Cycles, ServingTyped, TimersTyped, CycleOK,
                              SwapOK, Repointed, NoOrphans
<1>7. RecoveryPending'
    BY Facts, CycleShapes DEF BeginSwap, AtSelect, Quiesce, world, cycling, timers, serving,
                              routerVars, loopSide, callSide, LoopTyped, WorldTyped,
                              CyclingTyped, Cycles, ServingTyped, TimersTyped, CycleOK,
                              SwapOK, Repointed, RecoveryPending, Healthy
<1> QED
    BY <1>1, <1>2, <1>3, <1>4, <1>5, <1>6, <1>7

LEMMA OnChildDiedKeeps ==
    ASSUME RouterInv, LoopInv, OnChildDied PROVE LoopInv'
<1> USE DEF LoopInv
<1>1. LoopTyped'
    <2> USE DEF LoopTyped
    <2>1. WorldTyped'
        BY Facts, CycleShapes DEF OnChildDied, AtSelect, Quiesce, StartCycle, world,
                                  cycling, timers, serving, routerVars, loopSide, callSide,
                                  WorldTyped, CyclingTyped, Cycles, CycleOK, SwapOK,
                                  Repointed
    <2>2. CyclingTyped'
        BY Facts, CycleShapes, StartCycleIs DEF OnChildDied, AtSelect, Quiesce, world,
                                                cycling, timers, serving, routerVars,
                                                loopSide, callSide, WorldTyped, TimersTyped,
                                                CyclingTyped, CycleOK
    <2>3. TimersTyped'
        BY Facts DEF OnChildDied, AtSelect, Quiesce, StartCycle, world, cycling, timers,
                     serving, routerVars, loopSide, callSide, TimersTyped, CyclingTyped,
                     Cycles
    <2>4. ServingTyped'
        BY Facts DEF OnChildDied, AtSelect, Quiesce, StartCycle, world, cycling, timers,
                     serving, routerVars, loopSide, callSide, WorldTyped, CyclingTyped,
                     Cycles, CycleOK, SwapOK, Repointed, ServingTyped, RouterInv,
                     RouterTypeOK
    <2>5. UsedTyped'
        BY BoundsAre DEF OnChildDied, AtSelect, Quiesce, StartCycle, world, cycling, timers,
                         serving, routerVars, loopSide, callSide, UsedTyped
    <2> QED
        BY <2>1, <2>2, <2>3, <2>4, <2>5
<1>2. CycleOK'
    BY Facts, CycleShapes, StartCycleIs DEF OnChildDied, AtSelect, Quiesce, world, cycling,
                                            timers, serving, routerVars, loopSide, callSide,
                                            LoopTyped, WorldTyped, CyclingTyped, Cycles,
                                            ServingTyped, TimersTyped, CycleOK, SwapOK,
                                            Repointed
<1>3. SwapOK'
    BY Facts, CycleShapes, StartCycleIs DEF OnChildDied, AtSelect, Quiesce, world, cycling,
                                            timers, serving, routerVars, loopSide, callSide,
                                            LoopTyped, WorldTyped, CyclingTyped, Cycles,
                                            ServingTyped, TimersTyped, CycleOK, SwapOK,
                                            Repointed
<1>4. SyncOK'
    BY Facts, CycleShapes, StartCycleIs DEF OnChildDied, AtSelect, Quiesce, world, cycling,
                                            timers, serving, routerVars, loopSide, callSide,
                                            LoopTyped, WorldTyped, CyclingTyped, Cycles,
                                            ServingTyped, TimersTyped, CycleOK, SwapOK,
                                            Repointed, SyncOK
<1>5. GrantsOK'
    BY Facts, CycleShapes, StartCycleIs DEF OnChildDied, AtSelect, Quiesce, world, cycling,
                                            timers, serving, routerVars, loopSide, callSide,
                                            LoopTyped, WorldTyped, CyclingTyped, Cycles,
                                            ServingTyped, TimersTyped, CycleOK, SwapOK,
                                            Repointed, GrantsOK
<1>6. NoOrphans'
    BY Facts, CycleShapes, StartCycleIs DEF OnChildDied, AtSelect, Quiesce, world, cycling,
                                            timers, serving, routerVars, loopSide, callSide,
                                            LoopTyped, WorldTyped, CyclingTyped, Cycles,
                                            ServingTyped, TimersTyped, CycleOK, SwapOK,
                                            Repointed, NoOrphans
<1>7. RecoveryPending'
    BY Facts, CycleShapes, StartCycleIs DEF OnChildDied, AtSelect, Quiesce, world, cycling,
                                            timers, serving, routerVars, loopSide, callSide,
                                            LoopTyped, WorldTyped, CyclingTyped, Cycles,
                                            ServingTyped, TimersTyped, CycleOK, SwapOK,
                                            Repointed, RecoveryPending, Healthy
<1> QED
    BY <1>1, <1>2, <1>3, <1>4, <1>5, <1>6, <1>7

LEMMA OnRetryKeeps ==
    ASSUME RouterInv, LoopInv, OnRetry PROVE LoopInv'
<1> USE DEF LoopInv
<1>1. LoopTyped'
    <2> USE DEF LoopTyped
    <2>1. WorldTyped'
        BY Facts, CycleShapes DEF OnRetry, AtSelect, StartCycle, world, cycling, timers,
                                  serving, routerVars, loopSide, callSide, WorldTyped,
                                  CyclingTyped, Cycles, CycleOK, SwapOK, Repointed
    <2>2. CyclingTyped'
        BY Facts, CycleShapes, StartCycleIs DEF OnRetry, AtSelect, world, cycling, timers,
                                                serving, routerVars, loopSide, callSide,
                                                WorldTyped, TimersTyped, CyclingTyped,
                                                CycleOK
    <2>3. TimersTyped'
        BY Facts DEF OnRetry, AtSelect, StartCycle, world, cycling, timers, serving,
                     routerVars, loopSide, callSide, TimersTyped, CyclingTyped, Cycles
    <2>4. ServingTyped'
        BY Facts DEF OnRetry, AtSelect, StartCycle, world, cycling, timers, serving,
                     routerVars, loopSide, callSide, WorldTyped, CyclingTyped, Cycles,
                     CycleOK, SwapOK, Repointed, ServingTyped, RouterInv, RouterTypeOK
    <2>5. UsedTyped'
        BY BoundsAre DEF OnRetry, AtSelect, StartCycle, world, cycling, timers, serving,
                         routerVars, loopSide, callSide, UsedTyped
    <2> QED
        BY <2>1, <2>2, <2>3, <2>4, <2>5
<1>2. CycleOK'
    BY Facts, CycleShapes, StartCycleIs DEF OnRetry, AtSelect, world, cycling, timers,
                                            serving, routerVars, loopSide, callSide,
                                            LoopTyped, WorldTyped, CyclingTyped, Cycles,
                                            ServingTyped, TimersTyped, CycleOK, SwapOK,
                                            Repointed
<1>3. SwapOK'
    BY Facts, CycleShapes, StartCycleIs DEF OnRetry, AtSelect, world, cycling, timers,
                                            serving, routerVars, loopSide, callSide,
                                            LoopTyped, WorldTyped, CyclingTyped, Cycles,
                                            ServingTyped, TimersTyped, CycleOK, SwapOK,
                                            Repointed
<1>4. SyncOK'
    BY Facts, CycleShapes, StartCycleIs DEF OnRetry, AtSelect, world, cycling, timers,
                                            serving, routerVars, loopSide, callSide,
                                            LoopTyped, WorldTyped, CyclingTyped, Cycles,
                                            ServingTyped, TimersTyped, CycleOK, SwapOK,
                                            Repointed, SyncOK
<1>5. GrantsOK'
    BY Facts, CycleShapes, StartCycleIs DEF OnRetry, AtSelect, world, cycling, timers,
                                            serving, routerVars, loopSide, callSide,
                                            LoopTyped, WorldTyped, CyclingTyped, Cycles,
                                            ServingTyped, TimersTyped, CycleOK, SwapOK,
                                            Repointed, GrantsOK
<1>6. NoOrphans'
    BY Facts, CycleShapes, StartCycleIs DEF OnRetry, AtSelect, world, cycling, timers,
                                            serving, routerVars, loopSide, callSide,
                                            LoopTyped, WorldTyped, CyclingTyped, Cycles,
                                            ServingTyped, TimersTyped, CycleOK, SwapOK,
                                            Repointed, NoOrphans
<1>7. RecoveryPending'
    BY Facts, CycleShapes, StartCycleIs DEF OnRetry, AtSelect, world, cycling, timers,
                                            serving, routerVars, loopSide, callSide,
                                            LoopTyped, WorldTyped, CyclingTyped, Cycles,
                                            ServingTyped, TimersTyped, CycleOK, SwapOK,
                                            Repointed, RecoveryPending, Healthy
<1> QED
    BY <1>1, <1>2, <1>3, <1>4, <1>5, <1>6, <1>7

LEMMA OnToolsChangedKeeps ==
    ASSUME RouterInv, LoopInv, OnToolsChanged PROVE LoopInv'
<1> USE DEF LoopInv
<1>1. LoopTyped'
    <2> USE DEF LoopTyped
    <2>1. WorldTyped'
        <3>1. {} \in OneNews
            BY DEF OneNews
        <3>2. news' \in [Children -> OneNews]
            BY <3>1 DEF OnToolsChanged, WorldTyped
        <3> QED
            BY <3>2 DEF OnToolsChanged, WorldTyped
    <2>2. CyclingTyped'
        BY Facts, CycleShapes DEF OnToolsChanged, AtSelect, SetFingerprints, UnchangedSet,
                                  world, cycling, timers, serving, routerVars, loopSide,
                                  callSide, WorldTyped, TimersTyped, CyclingTyped, CycleOK
    <2>3. TimersTyped'
        BY Facts DEF OnToolsChanged, AtSelect, SetFingerprints, UnchangedSet, world,
                     cycling, timers, serving, routerVars, loopSide, callSide, TimersTyped,
                     CyclingTyped, Cycles
    <2>4. ServingTyped'
        BY Facts DEF OnToolsChanged, AtSelect, SetFingerprints, UnchangedSet, world,
                     cycling, timers, serving, routerVars, loopSide, callSide, WorldTyped,
                     CyclingTyped, Cycles, CycleOK, SwapOK, Repointed, ServingTyped,
                     RouterInv, RouterTypeOK
    <2>5. UsedTyped'
        BY BoundsAre DEF OnToolsChanged, AtSelect, SetFingerprints, UnchangedSet, world,
                         cycling, timers, serving, routerVars, loopSide, callSide, UsedTyped
    <2> QED
        BY <2>1, <2>2, <2>3, <2>4, <2>5
<1>2. CycleOK'
    BY Facts, CycleShapes DEF OnToolsChanged, AtSelect, SetFingerprints, UnchangedSet,
                              world, cycling, timers, serving, routerVars, loopSide,
                              callSide, LoopTyped, WorldTyped, CyclingTyped, Cycles,
                              ServingTyped, TimersTyped, CycleOK, SwapOK, Repointed
<1>3. SwapOK'
    BY Facts, CycleShapes DEF OnToolsChanged, AtSelect, SetFingerprints, UnchangedSet,
                              world, cycling, timers, serving, routerVars, loopSide,
                              callSide, LoopTyped, WorldTyped, CyclingTyped, Cycles,
                              ServingTyped, TimersTyped, CycleOK, SwapOK, Repointed
<1>4. SyncOK'
    BY Facts, CycleShapes DEF OnToolsChanged, AtSelect, SetFingerprints, UnchangedSet,
                              world, cycling, timers, serving, routerVars, loopSide,
                              callSide, LoopTyped, WorldTyped, CyclingTyped, Cycles,
                              ServingTyped, TimersTyped, CycleOK, SwapOK, Repointed, SyncOK
<1>5. GrantsOK'
    BY Facts, CycleShapes DEF OnToolsChanged, AtSelect, SetFingerprints, UnchangedSet,
                              world, cycling, timers, serving, routerVars, loopSide,
                              callSide, LoopTyped, WorldTyped, CyclingTyped, Cycles,
                              ServingTyped, TimersTyped, CycleOK, SwapOK, Repointed,
                              GrantsOK
<1>6. NoOrphans'
    BY Facts, CycleShapes DEF OnToolsChanged, AtSelect, SetFingerprints, UnchangedSet,
                              world, cycling, timers, serving, routerVars, loopSide,
                              callSide, LoopTyped, WorldTyped, CyclingTyped, Cycles,
                              ServingTyped, TimersTyped, CycleOK, SwapOK, Repointed,
                              NoOrphans
<1>7. RecoveryPending'
    BY Facts, CycleShapes DEF OnToolsChanged, AtSelect, SetFingerprints, UnchangedSet,
                              world, cycling, timers, serving, routerVars, loopSide,
                              callSide, LoopTyped, WorldTyped, CyclingTyped, Cycles,
                              ServingTyped, TimersTyped, CycleOK, SwapOK, Repointed,
                              RecoveryPending, Healthy
<1> QED
    BY <1>1, <1>2, <1>3, <1>4, <1>5, <1>6, <1>7

LEMMA ToolsReconcileKeeps ==
    ASSUME RouterInv, LoopInv, ToolsReconcile PROVE LoopInv'
<1> USE DEF LoopInv
<1>1. LoopTyped'
    <2> USE DEF LoopTyped
    <2>1. WorldTyped'
        <3>1. fingerprints \in Fingerprints
            BY DEF RouterInv, RouterTypeOK
        <3> QED
            BY <3>1 DEF ToolsReconcile, Reconcile, WorldTyped
    <2>2. CyclingTyped'
        BY Facts, CycleShapes DEF ToolsReconcile, Reconcile, Spend, world, cycling, timers,
                                  serving, routerVars, loopSide, callSide, WorldTyped,
                                  TimersTyped, CyclingTyped, CycleOK
    <2>3. TimersTyped'
        BY Facts DEF ToolsReconcile, Reconcile, Spend, world, cycling, timers, serving,
                     routerVars, loopSide, callSide, TimersTyped, CyclingTyped, Cycles
    <2>4. ServingTyped'
        BY Facts DEF ToolsReconcile, Reconcile, Spend, world, cycling, timers, serving,
                     routerVars, loopSide, callSide, WorldTyped, CyclingTyped, Cycles,
                     CycleOK, SwapOK, Repointed, ServingTyped, RouterInv, RouterTypeOK
    <2>5. UsedTyped'
        BY Spent DEF ToolsReconcile, Reconcile, world, cycling, timers, serving, routerVars,
                     loopSide, callSide, UsedTyped
    <2> QED
        BY <2>1, <2>2, <2>3, <2>4, <2>5
<1>2. CycleOK'
    BY Facts, CycleShapes DEF ToolsReconcile, Reconcile, Spend, world, cycling, timers,
                              serving, routerVars, loopSide, callSide, LoopTyped,
                              WorldTyped, CyclingTyped, Cycles, ServingTyped, TimersTyped,
                              CycleOK, SwapOK, Repointed
<1>3. SwapOK'
    BY Facts, CycleShapes DEF ToolsReconcile, Reconcile, Spend, world, cycling, timers,
                              serving, routerVars, loopSide, callSide, LoopTyped,
                              WorldTyped, CyclingTyped, Cycles, ServingTyped, TimersTyped,
                              CycleOK, SwapOK, Repointed
<1>4. SyncOK'
    BY Facts, CycleShapes DEF ToolsReconcile, Reconcile, Spend, world, cycling, timers,
                              serving, routerVars, loopSide, callSide, LoopTyped,
                              WorldTyped, CyclingTyped, Cycles, ServingTyped, TimersTyped,
                              CycleOK, SwapOK, Repointed, SyncOK
<1>5. GrantsOK'
    BY Facts, CycleShapes DEF ToolsReconcile, Reconcile, Spend, world, cycling, timers,
                              serving, routerVars, loopSide, callSide, LoopTyped,
                              WorldTyped, CyclingTyped, Cycles, ServingTyped, TimersTyped,
                              CycleOK, SwapOK, Repointed, GrantsOK
<1>6. NoOrphans'
    BY Facts, CycleShapes DEF ToolsReconcile, Reconcile, Spend, world, cycling, timers,
                              serving, routerVars, loopSide, callSide, LoopTyped,
                              WorldTyped, CyclingTyped, Cycles, ServingTyped, TimersTyped,
                              CycleOK, SwapOK, Repointed, NoOrphans
<1>7. RecoveryPending'
    BY Facts, CycleShapes DEF ToolsReconcile, Reconcile, Spend, world, cycling, timers,
                              serving, routerVars, loopSide, callSide, LoopTyped,
                              WorldTyped, CyclingTyped, Cycles, ServingTyped, TimersTyped,
                              CycleOK, SwapOK, Repointed, RecoveryPending, Healthy
<1> QED
    BY <1>1, <1>2, <1>3, <1>4, <1>5, <1>6, <1>7

LEMMA BeginShutdownKeeps ==
    ASSUME RouterInv, LoopInv, BeginShutdown PROVE LoopInv'
<1> USE DEF LoopInv
<1>1. LoopTyped'
    <2> USE DEF LoopTyped
    <2>1. WorldTyped'
        BY Facts, CycleShapes DEF BeginShutdown, AtSelect, world, cycling, timers, serving,
                                  routerVars, loopSide, callSide, WorldTyped, CyclingTyped,
                                  Cycles, CycleOK, SwapOK, Repointed
    <2>2. CyclingTyped'
        BY Facts, CycleShapes DEF BeginShutdown, AtSelect, world, cycling, timers, serving,
                                  routerVars, loopSide, callSide, WorldTyped, TimersTyped,
                                  CyclingTyped, CycleOK
    <2>3. TimersTyped'
        BY Facts DEF BeginShutdown, AtSelect, world, cycling, timers, serving, routerVars,
                     loopSide, callSide, TimersTyped, CyclingTyped, Cycles
    <2>4. ServingTyped'
        BY Facts DEF BeginShutdown, AtSelect, world, cycling, timers, serving, routerVars,
                     loopSide, callSide, WorldTyped, CyclingTyped, Cycles, CycleOK, SwapOK,
                     Repointed, ServingTyped, RouterInv, RouterTypeOK
    <2>5. UsedTyped'
        BY BoundsAre DEF BeginShutdown, AtSelect, world, cycling, timers, serving,
                         routerVars, loopSide, callSide, UsedTyped
    <2> QED
        BY <2>1, <2>2, <2>3, <2>4, <2>5
<1>2. CycleOK'
    BY Facts, CycleShapes DEF BeginShutdown, AtSelect, world, cycling, timers, serving,
                              routerVars, loopSide, callSide, LoopTyped, WorldTyped,
                              CyclingTyped, Cycles, ServingTyped, TimersTyped, CycleOK,
                              SwapOK, Repointed
<1>3. SwapOK'
    BY Facts, CycleShapes DEF BeginShutdown, AtSelect, world, cycling, timers, serving,
                              routerVars, loopSide, callSide, LoopTyped, WorldTyped,
                              CyclingTyped, Cycles, ServingTyped, TimersTyped, CycleOK,
                              SwapOK, Repointed
<1>4. SyncOK'
    BY Facts, CycleShapes DEF BeginShutdown, AtSelect, world, cycling, timers, serving,
                              routerVars, loopSide, callSide, LoopTyped, WorldTyped,
                              CyclingTyped, Cycles, ServingTyped, TimersTyped, CycleOK,
                              SwapOK, Repointed, SyncOK
<1>5. GrantsOK'
    BY Facts, CycleShapes DEF BeginShutdown, AtSelect, world, cycling, timers, serving,
                              routerVars, loopSide, callSide, LoopTyped, WorldTyped,
                              CyclingTyped, Cycles, ServingTyped, TimersTyped, CycleOK,
                              SwapOK, Repointed, GrantsOK
<1>6. NoOrphans'
    BY Facts, CycleShapes DEF BeginShutdown, AtSelect, world, cycling, timers, serving,
                              routerVars, loopSide, callSide, LoopTyped, WorldTyped,
                              CyclingTyped, Cycles, ServingTyped, TimersTyped, CycleOK,
                              SwapOK, Repointed, NoOrphans
<1>7. RecoveryPending'
    BY Facts, CycleShapes DEF BeginShutdown, AtSelect, world, cycling, timers, serving,
                              routerVars, loopSide, callSide, LoopTyped, WorldTyped,
                              CyclingTyped, Cycles, ServingTyped, TimersTyped, CycleOK,
                              SwapOK, Repointed, RecoveryPending, Healthy
<1> QED
    BY <1>1, <1>2, <1>3, <1>4, <1>5, <1>6, <1>7

LEMMA ShutdownKeeps ==
    ASSUME RouterInv, LoopInv, Shutdown PROVE LoopInv'
<1> USE DEF LoopInv
<1>1. LoopTyped'
    <2> USE DEF LoopTyped
    <2>1. WorldTyped'
        BY Facts, CycleShapes DEF Shutdown, Close, world, cycling, timers, serving,
                                  routerVars, loopSide, callSide, WorldTyped, CyclingTyped,
                                  Cycles, CycleOK, SwapOK, Repointed
    <2>2. CyclingTyped'
        BY Facts, CycleShapes DEF Shutdown, Close, world, cycling, timers, serving,
                                  routerVars, loopSide, callSide, WorldTyped, TimersTyped,
                                  CyclingTyped, CycleOK
    <2>3. TimersTyped'
        BY Facts DEF Shutdown, Close, world, cycling, timers, serving, routerVars, loopSide,
                     callSide, TimersTyped, CyclingTyped, Cycles
    <2>4. ServingTyped'
        BY Facts DEF Shutdown, Close, world, cycling, timers, serving, routerVars, loopSide,
                     callSide, WorldTyped, CyclingTyped, Cycles, CycleOK, SwapOK, Repointed,
                     ServingTyped, RouterInv, RouterTypeOK
    <2>5. UsedTyped'
        BY BoundsAre DEF Shutdown, Close, world, cycling, timers, serving, routerVars,
                         loopSide, callSide, UsedTyped
    <2> QED
        BY <2>1, <2>2, <2>3, <2>4, <2>5
<1>2. CycleOK'
    BY Facts, CycleShapes DEF Shutdown, Close, world, cycling, timers, serving, routerVars,
                              loopSide, callSide, LoopTyped, WorldTyped, CyclingTyped,
                              Cycles, ServingTyped, TimersTyped, CycleOK, SwapOK, Repointed
<1>3. SwapOK'
    BY Facts, CycleShapes DEF Shutdown, Close, world, cycling, timers, serving, routerVars,
                              loopSide, callSide, LoopTyped, WorldTyped, CyclingTyped,
                              Cycles, ServingTyped, TimersTyped, CycleOK, SwapOK, Repointed
<1>4. SyncOK'
    BY Facts, CycleShapes DEF Shutdown, Close, world, cycling, timers, serving, routerVars,
                              loopSide, callSide, LoopTyped, WorldTyped, CyclingTyped,
                              Cycles, ServingTyped, TimersTyped, CycleOK, SwapOK, Repointed,
                              SyncOK
<1>5. GrantsOK'
    BY Facts, CycleShapes DEF Shutdown, Close, world, cycling, timers, serving, routerVars,
                              loopSide, callSide, LoopTyped, WorldTyped, CyclingTyped,
                              Cycles, ServingTyped, TimersTyped, CycleOK, SwapOK, Repointed,
                              GrantsOK
<1>6. NoOrphans'
    BY Facts, CycleShapes DEF Shutdown, Close, world, cycling, timers, serving, routerVars,
                              loopSide, callSide, LoopTyped, WorldTyped, CyclingTyped,
                              Cycles, ServingTyped, TimersTyped, CycleOK, SwapOK, Repointed,
                              NoOrphans
<1>7. RecoveryPending'
    BY Facts, CycleShapes DEF Shutdown, Close, world, cycling, timers, serving, routerVars,
                              loopSide, callSide, LoopTyped, WorldTyped, CyclingTyped,
                              Cycles, ServingTyped, TimersTyped, CycleOK, SwapOK, Repointed,
                              RecoveryPending, Healthy
<1> QED
    BY <1>1, <1>2, <1>3, <1>4, <1>5, <1>6, <1>7

-----------------------------------------------------------------------------
(* The calls, and steps that change nothing.                                 *)

LEMMA CallerKeeps ==
    ASSUME RouterInv, LoopInv, NEW c \in Calls, Caller(c) PROVE LoopInv'
<1> USE DEF LoopInv
<1>1. UNCHANGED loopVars /\ UNCHANGED loopSide
    BY DEF Caller, CallPath, Dispatch, Park, Claim, Receive, Complete
<1>2. GrantsOK'
    <2>1. CASE Dispatch(c) \/ Park(c)
        <3>1. verdict[c] = "none" /\ UNCHANGED verdict
            BY <2>1 DEF RouterInv, ResolvedOnce, Dispatch, Park
        <3>2. \A d \in Calls \ {c} : grant'[d] = grant[d] /\ ingestFP'[d] = ingestFP[d]
            BY <2>1 DEF Dispatch, Park, RouterInv, RouterTypeOK
        <3> QED
            BY <1>1, <3>1, <3>2 DEF GrantsOK, loopSide, loopVars, world
    <2>2. CASE Claim(c) \/ Receive(c) \/ Complete(c)
        <3>1. \A d \in Calls \ {c} : /\ grant'[d] = grant[d] /\ ingestFP'[d] = ingestFP[d]
                                     /\ verdict'[d] = verdict[d]
            BY <2>2 DEF Claim, Receive, Complete, Answered, RouterInv, RouterTypeOK
        <3>2. verdict'[c] = "none"
            BY <2>2 DEF Claim, Receive, Complete, Answered, RouterInv, RouterTypeOK
        <3> QED
            BY <1>1, <3>1, <3>2 DEF GrantsOK, loopSide, loopVars, world
    <2> QED
        BY <2>1, <2>2 DEF Caller, CallPath
<1>3. LoopTyped'
    BY <1>1 DEF loopVars, world, cycling, timers, serving, LoopTyped, WorldTyped,
                CyclingTyped,
                TimersTyped, ServingTyped, UsedTyped
<1>4. CycleOK' /\ SwapOK' /\ SyncOK' /\ NoOrphans' /\ RecoveryPending'
    BY <1>1 DEF loopVars, world, cycling, timers, serving, loopSide, CycleOK, SwapOK,
                SyncOK, NoOrphans,
                RecoveryPending, Healthy, Repointed
<1> QED
    BY <1>2, <1>3, <1>4

LEMMA StutterKeeps == LoopInv /\ UNCHANGED vars => LoopInv'
<1> SUFFICES ASSUME LoopInv, UNCHANGED vars PROVE LoopInv'
    OBVIOUS
<1> USE DEF LoopInv, vars, loopVars, routerVars
<1>1. LoopTyped'
    BY DEF world, cycling, timers, serving, LoopTyped, WorldTyped, CyclingTyped,
           TimersTyped, ServingTyped, UsedTyped
<1>2. GrantsOK'
    BY DEF GrantsOK, world, loopSide, callSide
<1>3. CycleOK' /\ SwapOK' /\ SyncOK' /\ NoOrphans' /\ RecoveryPending'
    BY DEF world, cycling, timers, serving, loopSide, CycleOK, SwapOK, SyncOK, NoOrphans,
           RecoveryPending, Healthy, Repointed
<1> QED
    BY <1>1, <1>2, <1>3

LEMMA LoopInit == Init => LoopInv
<1> SUFFICES ASSUME Init PROVE LoopInv
    OBVIOUS
<1> USE DEF Init, RouterInit
<1>1. cycle \in Cycles /\ cycle.stage = "building" /\ cycle.since = src /\ cycle.child = NoChild
    BY Facts, CycleShapes
<1>2. {} \in OneNews /\ 0 \in 0..MaxVersions /\ 0 \in 0..MaxBackoff
    BY LoopBounds, Facts DEF OneNews
<1>3. UsedTyped
    BY BoundsAre DEF UsedTyped
<1>4. WorldTyped /\ CyclingTyped /\ TimersTyped /\ ServingTyped
    BY <1>1, <1>2, Facts DEF WorldTyped, CyclingTyped, TimersTyped, ServingTyped
<1>5. CycleOK /\ SwapOK /\ NoOrphans /\ RecoveryPending
    BY <1>1, Facts DEF CycleOK, SwapOK, Repointed, NoOrphans, RecoveryPending, Healthy
<1>6. SyncOK /\ GrantsOK
    BY DEF SyncOK, GrantsOK, NoTools
<1> QED
    BY <1>3, <1>4, <1>5, <1>6 DEF LoopInv, LoopTyped

LEMMA LoopStep == RouterInv /\ LoopInv /\ [Next]_vars => LoopInv'
<1> SUFFICES ASSUME RouterInv, LoopInv, Next PROVE LoopInv'
    BY StutterKeeps
<1>1. CASE World
    BY <1>1, EditKeeps, CrashKeeps, ChangeToolsKeeps, SignalKeeps DEF World
<1>2. CASE Cycle
    BY <1>2, BuildKeeps, StartKeeps, CycleFailsKeeps DEF Cycle
<1>3. CASE PerformSwap
    BY <1>3, AbortSwapKeeps, SwapChildKeeps, SwapReconcileKeeps, EndSwapKeeps
       DEF PerformSwap
<1>4. CASE Handlers
    BY <1>4, OnChangeKeeps, OnDebounceKeeps, OnSupersededKeeps, OnCycleFailureKeeps,
       BeginSwapKeeps,
       OnChildDiedKeeps, OnRetryKeeps, OnToolsChangedKeeps, ToolsReconcileKeeps,
       BeginShutdownKeeps, ShutdownKeeps DEF Handlers
<1> QED
    BY <1>1, <1>2, <1>3, <1>4, CallerKeeps DEF Next

-----------------------------------------------------------------------------
(* The loop and the router.                                                  *)

\* Each step of the loop is a step RouterSpec allows.
LEMMA LoopMapsToRouter == LoopInv /\ [Next]_vars => [RouterNext]_routerVars
<1> SUFFICES ASSUME LoopInv, Next PROVE RouterNext \/ UNCHANGED routerVars
    BY DEF vars
<1> USE DEF LoopInv
<1>1. CASE World \/ Cycle
    BY <1>1 DEF World, Edit, Crash, ChangeTools, Signal, Cycle, Build, Start, CycleFails
<1>2. CASE AbortSwap \/ SwapReconcile
    BY <1>2 DEF AbortSwap, SwapReconcile
<1>3. CASE SwapChild
    <2>1. ~closed /\ quiesced /\ cycle.child \in Children /\ Swap(cycle.child)
        BY <1>3 DEF SwapChild, SwapOK, CycleOK
    <2> QED
        BY <2>1 DEF RouterNext, LoopSide
<1>4. CASE EndSwap
    <2>1. ~closed /\ child \in Children /\ child = cycle.child /\ Drain(gated[cycle.child])
        BY <1>4 DEF EndSwap, SwapOK, CycleOK, Repointed
    <2>2. gated[cycle.child] \in Fingerprints
        BY <2>1 DEF LoopTyped, WorldTyped
    <2> QED
        BY <2>1, <2>2, Sentinels DEF RouterNext, LoopSide
<1>5. CASE OnChange \/ OnDebounce \/ OnSuperseded \/ OnRetry \/ ToolsReconcile \/ BeginShutdown
    BY <1>5 DEF OnChange, OnDebounce, OnSuperseded, OnRetry, ToolsReconcile, BeginShutdown
<1>6. CASE OnCycleFailure \/ BeginSwap \/ OnChildDied
    <2>1. ~closed
        BY <1>6 DEF OnCycleFailure, BeginSwap, OnChildDied, AtSelect, SwapOK
    <2>2. Quiesce \/ UNCHANGED routerVars
        BY <1>6 DEF OnCycleFailure, BeginSwap, OnChildDied
    <2> QED
        BY <2>1, <2>2 DEF RouterNext, LoopSide
<1>7. CASE OnToolsChanged
    <2>1. ~closed /\ current \in Children
        BY <1>7 DEF OnToolsChanged, AtSelect, SwapOK, LoopTyped, ServingTyped
    <2>2. PICK fps \in news[current] : SetFingerprints(fps) \/ UNCHANGED routerVars
        BY <1>7 DEF OnToolsChanged
    <2>3. fps \in Fingerprints
        BY <2>1, <2>2 DEF LoopTyped, WorldTyped, OneNews
    <2> QED
        BY <2>1, <2>2, <2>3 DEF RouterNext, LoopSide
<1>8. CASE Shutdown
    BY <1>8 DEF Shutdown, SwapOK, RouterNext, LoopSide
<1>9. CASE \E c \in Calls : Caller(c)
    BY <1>9 DEF Caller, RouterNext
<1> QED
    BY <1>1, <1>2, <1>3, <1>4, <1>5, <1>6, <1>7, <1>8, <1>9 DEF Next, PerformSwap, Handlers

LEMMA TogetherInit == Init => RouterInv /\ LoopInv /\ RouterInit
    BY LoopInit, InitInv DEF Init

LEMMA TogetherStep == RouterInv /\ LoopInv /\ [Next]_vars => RouterInv' /\ LoopInv'
    BY LoopStep, LoopMapsToRouter, StepInv

\* What the loop and the router keep, together.
THEOREM LoopInvariance == Spec => [](RouterInv /\ LoopInv)
    BY TogetherInit, TogetherStep, PTL DEF Spec

\* UsesRouter: the loop quiesces before it swaps, drains only what it has swapped
\* in, and does nothing to the router after closing it.
THEOREM LoopRefinesRouter == Spec => UsesRouter
<1>1. LoopInv /\ [Next]_vars => [RouterNext]_routerVars
    BY LoopMapsToRouter
<1> QED
    BY <1>1, TogetherInit, LoopInvariance, PTL DEF Spec, UsesRouter, RouterSpec

\* TypeOK: the values of the loop's and the router's variables.
THEOREM LoopTypeCorrect == Spec => []TypeOK
<1>1. RouterInv /\ LoopInv => TypeOK
    <2> SUFFICES ASSUME RouterInv, LoopInv PROVE TypeOK
        OBVIOUS
    <2>1. \A b \in DOMAIN Bounds : used[b] \in 0..Bounds[b]
        BY BoundsAre DEF LoopInv, LoopTyped, UsedTyped
    <2>2. {fresh, rerun, debounce, retry, watched, currentDead, frontendStale, stopping} \subseteq BOOLEAN
        BY Zenon DEF LoopInv, LoopTyped, CyclingTyped, TimersTyped, ServingTyped
    <2> QED
        BY <2>1, <2>2 DEF TypeOK, RouterInv, LoopInv, LoopTyped, WorldTyped, CyclingTyped,
                          TimersTyped,
                          ServingTyped, Cycles, OneNews
<1> QED
    BY <1>1, LoopInvariance, PTL

\* ReleasedOnItsDefinition: a call sent on from the swap buffer runs on a child
\* that serves the definition the call was parked under.
THEOREM NeverOldShapeOnNewCode == Spec => []ReleasedOnItsDefinition
<1>1. LoopInv => ReleasedOnItsDefinition
    BY DEF LoopInv, GrantsOK, ReleasedOnItsDefinition
<1> QED
    BY <1>1, LoopInvariance, PTL

\* InSync: between handlers the client, the router and the loop hold the same
\* definitions, unless the frontend refused the last set.
THEOREM DefinitionsAgree == Spec => []InSync
<1>1. LoopInv => InSync
    BY DEF LoopInv, SyncOK, InSync
<1> QED
    BY <1>1, LoopInvariance, PTL

\* NoOrphans: no child process is ever lost sight of.
THEOREM ChildrenAccountedFor == Spec => []NoOrphans
<1>1. LoopInv => NoOrphans
    BY DEF LoopInv
<1> QED
    BY <1>1, LoopInvariance, PTL

\* RecoveryPending: with no healthy child calls are held, and something that
\* will bring one is under way.
THEOREM SomethingUnderWay == Spec => []RecoveryPending
<1>1. LoopInv => RecoveryPending
    BY DEF LoopInv
<1> QED
    BY <1>1, LoopInvariance, PTL

\* InflightExact, ResolvedOnce, NeverToNil: what the router keeps under any
\* loop, it keeps under this one.
THEOREM RouterUnderLoop == Spec => [](InflightExact /\ ResolvedOnce /\ NeverToNil)
<1>1. RouterInv => InflightExact /\ ResolvedOnce /\ NeverToNil
    BY DEF RouterInv
<1> QED
    BY <1>1, LoopInvariance, PTL
=============================================================================
