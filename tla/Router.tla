------------------------------- MODULE Router -------------------------------
(***************************************************************************)
(* tools/proxy/internal/reloader/router.go: the call path of the dev       *)
(* proxy.  Caller goroutines forward tool calls to the current child, or   *)
(* park them in the swap buffer while the router is quiesced; the reload   *)
(* loop quiesces, swaps, drains and closes.                                *)
(*                                                                         *)
(* Every section under router.mu is one step.  Between a caller's steps    *)
(* the loop and the other callers may run.  Calls answered without any     *)
(* effect (router closed, buffer full) leave the state as it is and are    *)
(* not steps.                                                              *)
(***************************************************************************)
EXTENDS Integers, FiniteSets

CONSTANTS
    Calls,          \* caller goroutines; one is reused for its next call
    Tools,          \* tool names
    ToolOf,         \* the tool each caller calls
    Defs,           \* fingerprints of tool definitions
    Unknown,        \* no fingerprint: the tool is not served
    Children,       \* child sessions
    NoChild,        \* the nil session before the first swap
    BufferLimit,
    MaxSwaps        \* bound: generations

ASSUME CallsFinite == IsFiniteSet(Calls)
ASSUME ToolOfCall == ToolOf \in [Calls -> Tools]
ASSUME Sentinels == Unknown \notin Defs /\ NoChild \notin Children
ASSUME Limits == BufferLimit \in Nat \ {0} /\ MaxSwaps \in Nat

VARIABLES
    child,          \* the session calls dispatch to
    generation,
    fingerprints,   \* per tool, what ingress records
    quiesced,
    closed,
    inflight,
    drained,        \* a Quiesce waits: the channel is non-nil and open
    buffer,         \* the parked calls
    pc,             \* each caller: "idle", "parked" in awaitRelease, "running"
    ingestFP,       \* bufferedCall.ingestFP
    released,       \* bufferedCall.released
    verdict,        \* the decision in bufferedCall.release, "none" when empty
    grant           \* the session and generation the caller is to run on

Fingerprints == [Tools -> Defs \cup {Unknown}]
NoGrant == [child |-> NoChild, generation |-> 0]
Grants == [child : Children \cup {NoChild}, generation : Nat]
Verdicts == {"none", "go", "stale", "shutdown"}

loopSide == <<child, generation, fingerprints, quiesced, closed>>
callSide == <<pc, ingestFP, released, verdict, grant>>
routerVars == <<loopSide, inflight, drained, buffer, callSide>>

RouterTypeOK ==
    /\ child \in Children \cup {NoChild}
    /\ generation \in 0..MaxSwaps
    /\ fingerprints \in Fingerprints
    /\ quiesced \in BOOLEAN
    /\ closed \in BOOLEAN
    /\ inflight \in Nat
    /\ drained \in BOOLEAN
    /\ buffer \subseteq Calls /\ Cardinality(buffer) <= BufferLimit
    /\ pc \in [Calls -> {"idle", "parked", "running"}]
    /\ ingestFP \in [Calls -> Defs \cup {Unknown}]
    /\ released \in [Calls -> BOOLEAN]
    /\ verdict \in [Calls -> Verdicts]
    /\ grant \in [Calls -> Grants]

RouterInit ==
    /\ child = NoChild
    /\ generation = 0
    /\ fingerprints = [t \in Tools |-> Unknown]
    /\ quiesced = TRUE
    /\ closed = FALSE
    /\ inflight = 0
    /\ drained = FALSE
    /\ buffer = {}
    /\ pc = [c \in Calls |-> "idle"]
    /\ ingestFP = [c \in Calls |-> Unknown]
    /\ released = [c \in Calls |-> FALSE]
    /\ verdict = [c \in Calls |-> "none"]
    /\ grant = [c \in Calls |-> NoGrant]

-----------------------------------------------------------------------------
(* The call path.                                                            *)

Current == [child |-> child, generation |-> generation]

\* CallTool while routing: charged to the generation it is sent to.
Dispatch(c) ==
    /\ pc[c] = "idle" /\ ~closed /\ ~quiesced
    /\ inflight' = inflight + 1
    /\ pc' = [pc EXCEPT ![c] = "running"]
    /\ grant' = [grant EXCEPT ![c] = Current]
    /\ UNCHANGED <<loopSide, drained, buffer, ingestFP, released, verdict>>

\* CallTool while quiesced: parked, with the definition advertised now.
Park(c) ==
    /\ pc[c] = "idle" /\ ~closed /\ quiesced
    /\ Cardinality(buffer) < BufferLimit
    /\ buffer' = buffer \cup {c}
    /\ pc' = [pc EXCEPT ![c] = "parked"]
    /\ ingestFP' = [ingestFP EXCEPT ![c] = fingerprints[ToolOf[c]]]
    /\ UNCHANGED <<loopSide, inflight, drained, released, verdict, grant>>

\* The caller has its answer.
Answered(c) ==
    /\ pc' = [pc EXCEPT ![c] = "idle"]
    /\ ingestFP' = [ingestFP EXCEPT ![c] = Unknown]
    /\ released' = [released EXCEPT ![c] = FALSE]
    /\ verdict' = [verdict EXCEPT ![c] = "none"]
    /\ grant' = [grant EXCEPT ![c] = NoGrant]

\* Fault: the timeout path returns without looking at released.
ClaimBlindly(c) ==
    /\ pc[c] = "parked"
    /\ buffer' = buffer \ {c}
    /\ Answered(c)
    /\ UNCHANGED <<loopSide, inflight, drained>>

\* The per-call timeout or the caller's context: only a call nobody released
\* may be claimed; otherwise the decision is received (Receive) and honoured.
Claim(c) ==
    /\ pc[c] = "parked" /\ ~released[c]
    /\ buffer' = buffer \ {c}
    /\ Answered(c)
    /\ UNCHANGED <<loopSide, inflight, drained>>

\* A decision is received: run on the granted child, or answer.
Receive(c) ==
    /\ pc[c] = "parked" /\ verdict[c] # "none"
    /\ IF verdict[c] = "go"
       THEN /\ pc' = [pc EXCEPT ![c] = "running"]
            /\ verdict' = [verdict EXCEPT ![c] = "none"]
            /\ UNCHANGED <<ingestFP, released, grant>>
       ELSE Answered(c)
    /\ UNCHANGED <<loopSide, inflight, drained, buffer>>

\* The child answered or its transport failed.  A superseded completion is
\* answered with the interrupted result and settles nothing.
Complete(c) ==
    /\ pc[c] = "running"
    /\ IF grant[c].generation = generation
       THEN /\ inflight' = inflight - 1
            /\ drained' = (drained /\ inflight # 1)
       ELSE UNCHANGED <<inflight, drained>>
    /\ Answered(c)
    /\ UNCHANGED <<loopSide, buffer>>

CallPath(c) == Dispatch(c) \/ Park(c) \/ Claim(c) \/ Receive(c) \/ Complete(c)

-----------------------------------------------------------------------------
(* The loop's operations, each a section under router.mu.                    *)

Quiesce ==
    /\ quiesced' = TRUE
    /\ drained' = (drained \/ inflight # 0)
    /\ UNCHANGED <<child, generation, fingerprints, closed, inflight, buffer, callSide>>

Swap(c) ==
    /\ generation < MaxSwaps
    /\ child' = c
    /\ generation' = generation + 1
    /\ inflight' = 0
    /\ drained' = FALSE
    /\ UNCHANGED <<fingerprints, quiesced, closed, buffer, callSide>>

SetFingerprints(fps) ==
    /\ fingerprints' = fps
    /\ UNCHANGED <<child, generation, quiesced, closed, inflight, drained, buffer, callSide>>

\* Fault: calls are released on the definitions they arrived under, unchecked.
MatchesAlways(c, fps) == TRUE

MatchesCurrent(c, fps) == ingestFP[c] # Unknown /\ fps[ToolOf[c]] = ingestFP[c]

Released(fps) == {c \in buffer : MatchesCurrent(c, fps)}

\* Fault: Drain does not empty the buffer.
DrainKeepingBuffer(fps) ==
    /\ fingerprints' = fps
    /\ quiesced' = FALSE
    /\ released' = [c \in Calls |-> IF c \in buffer THEN TRUE ELSE released[c]]
    /\ verdict' = [c \in Calls |-> IF c \in Released(fps) THEN "go"
                                   ELSE IF c \in buffer THEN "stale" ELSE verdict[c]]
    /\ grant' = [c \in Calls |-> IF c \in Released(fps) THEN Current ELSE grant[c]]
    /\ inflight' = inflight + Cardinality(Released(fps))
    /\ UNCHANGED <<child, generation, closed, buffer, drained, pc, ingestFP>>

\* Every parked call is decided at once: sent on to the current child, and
\* charged to it, when its tool's definition is the one recorded at ingress.
Drain(fps) ==
    /\ fingerprints' = fps
    /\ quiesced' = FALSE
    /\ released' = [c \in Calls |-> IF c \in buffer THEN TRUE ELSE released[c]]
    /\ verdict' = [c \in Calls |-> IF c \in Released(fps) THEN "go"
                                   ELSE IF c \in buffer THEN "stale" ELSE verdict[c]]
    /\ grant' = [c \in Calls |-> IF c \in Released(fps) THEN Current ELSE grant[c]]
    /\ inflight' = inflight + Cardinality(Released(fps))
    /\ buffer' = {}
    /\ UNCHANGED <<child, generation, closed, drained, pc, ingestFP>>

\* Fault: shutdown rejects new calls and leaves the parked ones waiting.
CloseForgettingBuffer ==
    /\ closed' = TRUE
    /\ drained' = FALSE
    /\ UNCHANGED <<child, generation, fingerprints, quiesced, inflight, buffer, callSide>>

Close ==
    /\ closed' = TRUE
    /\ released' = [c \in Calls |-> IF c \in buffer THEN TRUE ELSE released[c]]
    /\ verdict' = [c \in Calls |-> IF c \in buffer THEN "shutdown" ELSE verdict[c]]
    /\ buffer' = {}
    /\ drained' = FALSE
    /\ UNCHANGED <<child, generation, fingerprints, quiesced, inflight, pc, ingestFP, grant>>

-----------------------------------------------------------------------------
\* Under a loop that keeps only this much order: it drains what it has swapped
\* in, and does nothing after Close.  ReloadLoop keeps more.
LoopSide ==
    /\ ~closed
    /\ \/ Quiesce
       \/ \E c \in Children : quiesced /\ Swap(c)
       \/ \E fps \in Fingerprints : SetFingerprints(fps)
       \/ \E fps \in Fingerprints : child # NoChild /\ Drain(fps)
       \/ Close

RouterNext == (\E c \in Calls : CallPath(c)) \/ LoopSide

RouterSpec == RouterInit /\ [][RouterNext]_routerVars

-----------------------------------------------------------------------------
\* Calls charged to the child now serving: running on it, or released to it
\* and about to run.
Charged ==
    {c \in Calls : (pc[c] = "running" \/ verdict[c] = "go")
                   /\ grant[c].generation = generation}

\* The in-flight counter is the number of calls charged to the current
\* generation, whatever timeouts, cancellations, swaps and late completions
\* did, and a drain is pending only while one is in flight: a swap neither
\* goes ahead early nor waits for a call that is gone.
InflightExact ==
    /\ inflight = Cardinality(Charged)
    /\ drained => inflight > 0

\* A call is in the buffer exactly while it is parked and undecided; a decided
\* one has its decision waiting.  So each parked call is resolved exactly once.
ResolvedOnce ==
    \A c \in Calls :
        /\ c \in buffer <=> pc[c] = "parked" /\ ~released[c]
        /\ pc[c] = "parked" /\ released[c] => verdict[c] # "none"
        /\ verdict[c] # "none" => pc[c] = "parked" /\ released[c]

\* No call is ever sent to the nil session, or to one that never served.
NeverToNil ==
    \A c \in Calls : pc[c] = "running" \/ verdict[c] = "go" => grant[c].child # NoChild

\* While the router is quiesced no call joins the ones on the child.
QuiesceHolds ==
    [][quiesced /\ quiesced' => Charged' \subseteq Charged]_routerVars
=============================================================================
