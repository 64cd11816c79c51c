----------------------------- MODULE ReloadLoop -----------------------------
(***************************************************************************)
(* tools/proxy/internal/reloader/run.go: the loop that rebuilds, restarts  *)
(* and swaps the child of the dev proxy, over the call path of Router.     *)
(*                                                                         *)
(* One goroutine runs the loop, at most one more runs a cycle (build,      *)
(* start).  Source edits, child crashes, a child changing its own tools,   *)
(* calls and the shutdown signal come at any time, also between the steps  *)
(* of a swap.  An artifact is the source version it was built from.        *)
(***************************************************************************)
EXTENDS Router

CONSTANTS
    MaxVersions,    \* bound: source versions, the first one included
    DefsOf,         \* the tool definitions each version serves
    Snapshots,      \* the definitions a child may change to at run time
    MaxBackoff,     \* the backoff ceiling, in doublings
    MaxFailures,    \* bound: builds and starts that fail
    MaxCrashes,     \* bound: children that die
    MaxToolChanges, \* bound: definitions a child changes at run time
    MaxRefusals     \* bound: reconciles the frontend refuses

Versions == 1..MaxVersions

ASSUME DefsOfVersion == DefsOf \in [Versions -> Fingerprints]
ASSUME SnapshotSets == Snapshots \subseteq Fingerprints
ASSUME LoopBounds ==
    /\ MaxVersions \in Nat \ {0}
    /\ {MaxBackoff, MaxFailures, MaxCrashes, MaxToolChanges, MaxRefusals} \subseteq Nat

VARIABLES
    src,            \* the version in the source tree
    event,          \* the watcher has an event for the loop
    status,         \* each child: "none", "up", "dead" or "closed"
    made,           \* the artifact it runs
    gated,          \* the definitions the health gate listed: Tools()
    news,           \* its ToolsChanged channel: at most one unread snapshot
    advertised,     \* the definitions the frontend shows the client
    cycle,          \* the cycle goroutine and its result
    fresh, rerun,   \* cycleFresh, rerun
    debounce,       \* debounceCh is armed
    retry, retryArtifact, backoff, lastArtifact,
    current,        \* the serving child
    watched,        \* currentDone is non-nil: its death is not noticed yet
    currentDead,
    currentFPs, frontendStale,
    place,          \* "select", inside performSwap, or "stopped"
    stopping,       \* ctx is cancelled
    failedSrc,      \* history: versions whose own build cycle failed
    used            \* how many failures, crashes, tool changes and refusals

world == <<src, event, status, made, gated, news, advertised>>
cycling == <<cycle, fresh, rerun, failedSrc>>
timers == <<debounce, retry, retryArtifact, backoff, lastArtifact>>
serving == <<current, watched, currentDead, currentFPs, frontendStale>>
loopVars == <<world, cycling, timers, serving, place, stopping, used>>
vars == <<routerVars, loopVars>>

NoTools == [t \in Tools |-> Unknown]
Stages == {"none", "building", "starting", "ready", "failed"}
NoCycle == [stage |-> "none", since |-> 0, artifact |-> 0, child |-> NoChild,
            cancelled |-> FALSE]
\* A full build reads the source as it is from now on.
FullBuild == [NoCycle EXCEPT !.stage = "building", !.since = src]
Bounds == [failure |-> MaxFailures, crash |-> MaxCrashes,
           change |-> MaxToolChanges, refusal |-> MaxRefusals]

TypeOK ==
    /\ RouterTypeOK
    /\ src \in Versions /\ event \in BOOLEAN
    /\ status \in [Children -> {"none", "up", "dead", "closed"}]
    /\ made \in [Children -> 0..MaxVersions]
    /\ gated \in [Children -> Fingerprints]
    /\ news \in [Children -> {{}} \cup {{fps} : fps \in Fingerprints}]
    /\ advertised \in Fingerprints
    /\ cycle \in [stage : Stages, since : 0..MaxVersions, artifact : 0..MaxVersions,
                  child : Children \cup {NoChild}, cancelled : BOOLEAN]
    /\ {fresh, rerun, debounce, retry, watched, currentDead, frontendStale,
        stopping} \subseteq BOOLEAN
    /\ {retryArtifact, lastArtifact} \subseteq 0..MaxVersions
    /\ backoff \in 0..MaxBackoff
    /\ current \in Children \cup {NoChild}
    /\ currentFPs \in Fingerprints
    /\ place \in {"select", "waiting", "drained", "swapped", "reconciled", "updating",
                 "stopping", "stopped"}
    /\ failedSrc \subseteq Versions
    /\ \A b \in DOMAIN Bounds : used[b] \in 0..Bounds[b]

\* Run: the watcher is on and the first cycle, a full build, is started.
Init ==
    /\ RouterInit
    /\ src = 1 /\ event = FALSE
    /\ status = [k \in Children |-> "none"]
    /\ made = [k \in Children |-> 0]
    /\ gated = [k \in Children |-> NoTools]
    /\ news = [k \in Children |-> {}]
    /\ advertised = NoTools
    /\ cycle = FullBuild
    /\ fresh = TRUE /\ rerun = FALSE
    /\ debounce = FALSE /\ retry = FALSE
    /\ retryArtifact = 0 /\ backoff = 0 /\ lastArtifact = 0
    /\ current = NoChild /\ watched = FALSE /\ currentDead = FALSE
    /\ currentFPs = NoTools /\ frontendStale = FALSE
    /\ place = "select" /\ stopping = FALSE
    /\ failedSrc = {}
    /\ used = [b \in DOMAIN Bounds |-> 0]

Spend(b) == used[b] < Bounds[b] /\ used' = [used EXCEPT ![b] = @ + 1]

-----------------------------------------------------------------------------
(* The world outside the loop.                                               *)

Edit ==
    /\ src < MaxVersions
    /\ src' = src + 1
    /\ event' = TRUE
    /\ UNCHANGED <<routerVars, status, made, gated, news, advertised, cycling,
                   timers, serving, place, stopping, used>>

\* A child dies, by itself or because it failed a runtime re-list.
Crash(k) ==
    /\ status[k] = "up"
    /\ status' = [status EXCEPT ![k] = "dead"]
    /\ Spend("crash")
    /\ UNCHANGED <<routerVars, src, event, made, gated, news, advertised, cycling,
                   timers, serving, place, stopping>>

\* A child changes its tools; the snapshot replaces an unread one.
ChangeTools(k) ==
    /\ status[k] = "up"
    /\ \E fps \in Snapshots : news' = [news EXCEPT ![k] = {fps}]
    /\ Spend("change")
    /\ UNCHANGED <<routerVars, src, event, status, made, gated, advertised, cycling,
                   timers, serving, place, stopping>>

Signal ==
    /\ ~stopping
    /\ stopping' = TRUE
    /\ UNCHANGED <<routerVars, world, cycling, timers, serving, place, used>>

-----------------------------------------------------------------------------
(* The cycle goroutine: build, start, one result.                            *)

Build ==
    /\ cycle.stage = "building"
    /\ \E v \in cycle.since..src :
        cycle' = [cycle EXCEPT !.stage = "starting", !.artifact = v]
    /\ UNCHANGED <<routerVars, world, fresh, rerun, failedSrc,
                   timers, serving, place, stopping, used>>

\* A child object not in use: the process gone and nothing waiting on it.
Start ==
    /\ cycle.stage = "starting"
    /\ \E k \in Children :
        /\ status[k] \in {"none", "closed"}
        /\ status' = [status EXCEPT ![k] = "up"]
        /\ made' = [made EXCEPT ![k] = cycle.artifact]
        /\ gated' = [gated EXCEPT ![k] = DefsOf[cycle.artifact]]
        /\ news' = [news EXCEPT ![k] = {}]
        /\ cycle' = [cycle EXCEPT !.stage = "ready", !.child = k]
    /\ UNCHANGED <<routerVars, src, event, advertised, fresh, rerun,
                   failedSrc, timers, serving, place, stopping, used>>

\* The cycle's context also ends with the loop's.
Cancelled == cycle.cancelled \/ stopping

\* The build or the start fails, by itself or because it was cancelled.
CycleFails ==
    /\ cycle.stage \in {"building", "starting"}
    /\ cycle' = [cycle EXCEPT !.stage = "failed"]
    /\ \/ Cancelled /\ UNCHANGED <<used, failedSrc>>
       \/ /\ ~Cancelled /\ Spend("failure")
          /\ failedSrc' = IF fresh THEN failedSrc \cup {cycle.since} ELSE failedSrc
    /\ UNCHANGED <<routerVars, world, fresh, rerun, timers, serving,
                   place, stopping>>

-----------------------------------------------------------------------------
(* The handlers of the select loop.                                          *)

AtSelect == place = "select"

\* An artifact of 0 asks for a full build.
StartCycle(a) ==
    /\ cycle' = IF a = 0 THEN FullBuild
                ELSE [NoCycle EXCEPT !.stage = "starting", !.artifact = a]
    /\ fresh' = (a = 0)

NextBackoff == IF backoff < MaxBackoff THEN backoff + 1 ELSE MaxBackoff

\* closeChild: an intentional close is never reported on Done.
CloseChild(k) == status' = [status EXCEPT ![k] = "closed"]

OnChange ==
    /\ AtSelect /\ event
    /\ event' = FALSE
    /\ debounce' = TRUE
    /\ retry' = FALSE
    /\ UNCHANGED <<routerVars, src, status, made, gated, news, advertised, cycling,
                   retryArtifact, backoff, lastArtifact, serving, place, stopping, used>>

\* Fault: the cycle in flight is cancelled and nothing asks for another.
OnDebounceCancelling ==
    /\ AtSelect /\ debounce
    /\ debounce' = FALSE
    /\ retry' = FALSE
    /\ IF cycle.stage # "none"
       THEN /\ cycle' = [cycle EXCEPT !.cancelled = TRUE]
            /\ UNCHANGED <<fresh, rerun>>
       ELSE StartCycle(0) /\ UNCHANGED rerun
    /\ UNCHANGED <<routerVars, world, failedSrc, retryArtifact, backoff,
                   lastArtifact, serving, place, stopping, used>>

OnDebounce ==
    /\ AtSelect /\ debounce
    /\ debounce' = FALSE
    /\ retry' = FALSE
    /\ IF cycle.stage # "none"
       THEN /\ cycle' = [cycle EXCEPT !.cancelled = TRUE]
            /\ rerun' = TRUE
            /\ UNCHANGED <<fresh>>
       ELSE StartCycle(0) /\ UNCHANGED rerun
    /\ UNCHANGED <<routerVars, world, failedSrc, retryArtifact, backoff,
                   lastArtifact, serving, place, stopping, used>>

\* Fault: the superseded candidate is dropped without being closed.
OnSupersededLeaking ==
    /\ AtSelect /\ cycle.stage \in {"ready", "failed"} /\ rerun
    /\ rerun' = FALSE
    /\ cycle' = FullBuild
    /\ fresh' = TRUE
    /\ UNCHANGED <<routerVars, world, failedSrc, timers, serving,
                   place, stopping, used>>

\* onCycleResult, superseded: its child is closed and one fresh cycle runs.
OnSuperseded ==
    /\ AtSelect /\ cycle.stage \in {"ready", "failed"} /\ rerun
    /\ rerun' = FALSE
    /\ IF cycle.stage = "ready" THEN CloseChild(cycle.child) ELSE UNCHANGED status
    /\ cycle' = FullBuild
    /\ fresh' = TRUE
    /\ UNCHANGED <<routerVars, src, event, made, gated, news, advertised, failedSrc, timers, serving, place, stopping, used>>

Healthy == current # NoChild /\ ~currentDead

\* Fault: a failed cycle always counts on the current child.
OnCycleFailureKeeping ==
    /\ AtSelect /\ cycle.stage = "failed" /\ ~rerun
    /\ cycle' = NoCycle
    /\ UNCHANGED <<routerVars, world, fresh, rerun, failedSrc, timers,
                   serving, place, stopping, used>>

\* onCycleResult, failed: keep a healthy child, otherwise quiesce and retry.
OnCycleFailure ==
    /\ AtSelect /\ cycle.stage = "failed" /\ ~rerun
    /\ cycle' = NoCycle
    /\ IF Healthy
       THEN UNCHANGED <<routerVars, retry, retryArtifact, backoff>>
       ELSE /\ Quiesce
            /\ backoff' = NextBackoff
            /\ retryArtifact' = lastArtifact
            /\ retry' = TRUE
    /\ UNCHANGED <<world, fresh, rerun, failedSrc, debounce, lastArtifact,
                   serving, place, stopping, used>>

\* Fault: the swap goes ahead without asking for a drain.
BeginSwapRouting ==
    /\ AtSelect /\ cycle.stage = "ready" /\ ~rerun
    /\ place' = "drained"
    /\ UNCHANGED <<routerVars, world, cycling, timers, serving, stopping, used>>

\* performSwap, first step: stop routing; wait when calls are in flight.
BeginSwap ==
    /\ AtSelect /\ cycle.stage = "ready" /\ ~rerun
    /\ Quiesce
    /\ place' = IF drained' THEN "waiting" ELSE "drained"
    /\ UNCHANGED <<world, cycling, timers, serving, stopping, used>>

\* ctx ends during the wait: the candidate is closed; only shutdown follows.
AbortSwap ==
    /\ place = "waiting" /\ stopping
    /\ CloseChild(cycle.child)
    /\ cycle' = NoCycle
    /\ place' = "stopping"
    /\ UNCHANGED <<routerVars, src, event, made, gated, news, advertised, fresh, rerun,
                   failedSrc, timers, serving, stopping, used>>

\* The drain is over or the grace has passed: repoint, close the old child.
SwapChild ==
    /\ place \in {"waiting", "drained"}
    /\ Swap(cycle.child)
    /\ IF current # NoChild THEN CloseChild(current) ELSE UNCHANGED status
    /\ place' = "swapped"
    /\ UNCHANGED <<src, event, made, gated, news, advertised, cycling, timers, serving,
                   stopping, used>>

\* The frontend takes the new set, or refuses it and shows the old one.
Reconcile(fps) ==
    \/ /\ advertised' = fps
       /\ frontendStale' = FALSE
       /\ UNCHANGED used
    \/ /\ frontendStale' = TRUE
       /\ Spend("refusal")
       /\ UNCHANGED advertised

\* Fault: equal fingerprints skip the reconcile even after a refused one.
UnchangedSetAlways(fps) == fps = currentFPs

UnchangedSet(fps) == ~frontendStale /\ fps = currentFPs

SwapReconcile ==
    /\ place = "swapped"
    /\ IF UnchangedSet(gated[cycle.child])
       THEN frontendStale' = FALSE /\ UNCHANGED <<advertised, used>>
       ELSE Reconcile(gated[cycle.child])
    /\ place' = "reconciled"
    /\ UNCHANGED <<routerVars, src, event, status, made, gated, news, cycling, timers,
                   current, watched, currentDead, currentFPs, stopping>>

\* Drain, and the loop's bookkeeping after it.
EndSwap ==
    /\ place = "reconciled"
    /\ Drain(gated[cycle.child])
    /\ current' = cycle.child /\ watched' = TRUE /\ currentDead' = FALSE
    /\ currentFPs' = gated[cycle.child]
    /\ lastArtifact' = cycle.artifact
    /\ backoff' = IF fresh THEN 0 ELSE NextBackoff
    /\ cycle' = NoCycle
    /\ place' = "select"
    /\ UNCHANGED <<world, fresh, rerun, failedSrc, debounce, retry,
                   retryArtifact, frontendStale, stopping, used>>

OnChildDied ==
    /\ AtSelect /\ watched /\ status[current] = "dead"
    /\ watched' = FALSE /\ currentDead' = TRUE
    /\ Quiesce
    /\ IF cycle.stage # "none"
       THEN UNCHANGED <<retry, retryArtifact, cycle, fresh>>
       ELSE IF backoff > 0
            THEN /\ retry' = TRUE /\ retryArtifact' = lastArtifact
                 /\ UNCHANGED <<cycle, fresh>>
            ELSE StartCycle(lastArtifact) /\ UNCHANGED <<retry, retryArtifact>>
    /\ UNCHANGED <<world, rerun, failedSrc, debounce, backoff, lastArtifact,
                   current, currentFPs, frontendStale, place, stopping, used>>

OnRetry ==
    /\ AtSelect /\ retry
    /\ retry' = FALSE
    /\ IF cycle.stage # "none" THEN UNCHANGED <<cycle, fresh>>
                               ELSE StartCycle(retryArtifact)
    /\ UNCHANGED <<routerVars, world, rerun, failedSrc, debounce, retryArtifact, backoff,
                   lastArtifact, serving, place, stopping, used>>

\* onToolsChanged: the snapshot of the child last swapped in, alive or not;
\* first the router learns it ...
OnToolsChanged ==
    /\ AtSelect /\ current # NoChild
    /\ \E fps \in news[current] :
        IF UnchangedSet(fps)
        THEN UNCHANGED <<routerVars, place>>
        ELSE SetFingerprints(fps) /\ place' = "updating"
    /\ news' = [news EXCEPT ![current] = {}]
    /\ UNCHANGED <<src, event, status, made, gated, advertised, cycling, timers, serving,
                   stopping, used>>

\* ... then the frontend.
ToolsReconcile ==
    /\ place = "updating"
    /\ Reconcile(fingerprints)
    /\ currentFPs' = fingerprints
    /\ place' = "select"
    /\ UNCHANGED <<routerVars, src, event, status, made, gated, news, cycling, timers,
                   current, watched, currentDead, stopping>>

\* The select sees ctx.Done: the cycle in flight is cancelled and waited for ...
BeginShutdown ==
    /\ AtSelect /\ stopping
    /\ place' = "stopping"
    /\ UNCHANGED <<routerVars, world, cycling, timers, serving, stopping, used>>

\* Fault: the shutdown waits for the calls in flight.
ShutdownDraining ==
    /\ place = "stopping"
    /\ cycle.stage \in {"none", "ready", "failed"} /\ inflight = 0
    /\ status' = [k \in Children |->
                    IF k = current \/ k = cycle.child THEN "closed" ELSE status[k]]
    /\ Close
    /\ cycle' = NoCycle
    /\ place' = "stopped"
    /\ UNCHANGED <<src, event, made, gated, news, advertised, fresh, rerun, failedSrc,
                   timers, serving, stopping, used>>

\* ... then every child the loop owns is closed and the parked calls fail.
Shutdown ==
    /\ place = "stopping"
    /\ cycle.stage \in {"none", "ready", "failed"}
    /\ status' = [k \in Children |->
                    IF k = current \/ k = cycle.child THEN "closed" ELSE status[k]]
    /\ Close
    /\ cycle' = NoCycle
    /\ place' = "stopped"
    /\ UNCHANGED <<src, event, made, gated, news, advertised, fresh, rerun, failedSrc,
                   timers, serving, stopping, used>>

-----------------------------------------------------------------------------
World == Edit \/ (\E k \in Children : Crash(k) \/ ChangeTools(k)) \/ Signal

Cycle == Build \/ Start \/ CycleFails

PerformSwap == AbortSwap \/ SwapChild \/ SwapReconcile \/ EndSwap

Handlers == OnChange \/ OnDebounce \/ OnSuperseded \/ OnCycleFailure \/ BeginSwap
            \/ OnChildDied \/ OnRetry \/ OnToolsChanged \/ ToolsReconcile
            \/ BeginShutdown \/ Shutdown

Caller(c) == CallPath(c) /\ UNCHANGED loopVars

Next == World \/ Cycle \/ PerformSwap \/ Handlers \/ \E c \in Calls : Caller(c)

Spec == Init /\ [][Next]_vars

\* The loop's goroutine and the cycle's keep running, every ready channel of
\* the select is served in time, and a caller takes a decision that is there.
\* Nothing is assumed of the world, of the per-call timeout, or of a child:
\* a call may run for ever.
Fairness ==
    /\ WF_vars(Cycle) /\ WF_vars(PerformSwap) /\ WF_vars(Shutdown) /\ WF_vars(ToolsReconcile)
    /\ WF_vars(OnChange) /\ WF_vars(OnDebounce) /\ WF_vars(OnSuperseded)
    /\ WF_vars(OnCycleFailure) /\ WF_vars(BeginSwap) /\ WF_vars(OnChildDied)
    /\ WF_vars(OnRetry) /\ WF_vars(OnToolsChanged) /\ WF_vars(BeginShutdown)
    /\ \A c \in Calls : WF_vars(Receive(c) /\ UNCHANGED loopVars)

LiveSpec == Spec /\ Fairness

-----------------------------------------------------------------------------
\* A call sent on from the swap buffer runs on a child whose health gate read the
\* very definition the call was parked under: never an old-shape call on new code.
\* (A change that the candidate itself made since, not yet read, goes unseen.)
ReleasedOnItsDefinition ==
    \A c \in Calls :
        verdict[c] = "go" /\ grant[c].generation = generation
        => /\ ingestFP[c] # Unknown
           /\ gated[grant[c].child][ToolOf[c]] = ingestFP[c]

\* Between handlers, once a child was swapped in and unless the frontend
\* refused the last set, what the client sees, what the router matches against
\* and what the loop compares the next set with are the same definitions.
InSync ==
    place = "select" /\ current # NoChild /\ ~frontendStale =>
        advertised = currentFPs /\ fingerprints = currentFPs

\* A live child process is the serving child or the candidate of the cycle; in
\* particular none survives the loop.
NoOrphans ==
    \A k \in Children : status[k] = "up" =>
        place # "stopped" /\ k \in {current, cycle.child}

\* While no healthy child serves, calls are held back and something that will
\* replace it is under way: a cycle, a retry or a debounced event.
RecoveryPending ==
    place \in {"select", "updating"} /\ ~Healthy =>
        quiesced /\ (cycle.stage # "none" \/ retry \/ debounce)

\* The loop uses the router only as RouterSpec allows: a swap while quiesced,
\* a drain of what was swapped in, nothing after Close.
UsesRouter == RouterSpec

\* Once edits stop, the loop ends up serving the newest source, unless the
\* build or start of that very version failed, or the loop was stopped.
ServesLatest ==
    <>[](place = "stopped" \/ src \in failedSrc
         \/ (place = "select" /\ Healthy /\ made[current] = src))

\* Every parked call is answered or sent on without help of its timeout.
ParkedResolved == \A c \in Calls : pc[c] = "parked" ~> pc[c] # "parked"

\* Shutdown always ends, whatever it interrupted.
Stops == stopping ~> place = "stopped"
=============================================================================
