---------------------------- MODULE ProxyProofs -----------------------------
(***************************************************************************)
(* The dev proxy around its reload loop: the call router, the frontend     *)
(* with its stale gate, and the watcher.                                   *)
(***************************************************************************)
EXTENDS Router, Frontend, Watcher, FiniteSetTheorems, TLAPS

-----------------------------------------------------------------------------
(***************************************************************************)
(* What the router of the dev proxy keeps for every set of callers, tools, *)
(* definitions and children, under any loop that keeps the order of        *)
(* LoopSide.                                                               *)
(***************************************************************************)

\* A call is charged to a generation that exists, and every generation after
\* the nil one has a child.
GrantsInPast ==
    \A c \in Calls : pc[c] = "running" \/ verdict[c] = "go" =>
        grant[c].generation <= generation

\* What an idle caller and an unquiesced router look like.
AtRest ==
    /\ \A c \in Calls : pc[c] = "idle" => ~released[c]
    /\ ~quiesced => child # NoChild

\* The inductive invariant.
RouterInv ==
    /\ RouterTypeOK
    /\ ResolvedOnce
    /\ InflightExact
    /\ NeverToNil
    /\ GrantsInPast
    /\ AtRest

-----------------------------------------------------------------------------
\* The set whose size the counter is.
LEMMA ChargedFinite == IsFiniteSet(Charged)
BY CallsFinite, FS_Subset DEF Charged

\* Adding a call to the charged ones adds one, removing it takes one away.
LEMMA ChargedCount ==
    /\ \A c : c \notin Charged => Cardinality(Charged \cup {c}) = Cardinality(Charged) + 1
    /\ \A c \in Charged : Cardinality(Charged \ {c}) = Cardinality(Charged) - 1
    /\ Cardinality(Charged) \in Nat
    /\ \A c \in Charged : Cardinality(Charged) >= 1
<1>1. Cardinality(Charged) \in Nat
    BY ChargedFinite, FS_CardinalityType
<1>2. \A c : c \notin Charged => Cardinality(Charged \cup {c}) = Cardinality(Charged) + 1
    BY ChargedFinite, FS_AddElement
<1>3. \A c \in Charged : Cardinality(Charged \ {c}) = Cardinality(Charged) - 1
    BY ChargedFinite, FS_RemoveElement
<1>4. \A c \in Charged : Cardinality(Charged) >= 1
    BY <1>1, ChargedFinite, FS_EmptySet
<1> QED BY <1>1, <1>2, <1>3, <1>4

-----------------------------------------------------------------------------
\* A freshly built router satisfies the invariant.
LEMMA InitInv == RouterInit => RouterInv
<1> SUFFICES ASSUME RouterInit PROVE RouterInv
    OBVIOUS
<1> USE DEF RouterInit
<1>1. Charged = {}
    BY DEF Charged
<1>2. Cardinality({}) = 0
    BY FS_EmptySet
<1>3. RouterTypeOK
    <2>1. fingerprints \in Fingerprints
        BY DEF Fingerprints
    <2>2. grant \in [Calls -> Grants]
        BY DEF Grants, NoGrant
    <2>3. 0 \in 0..MaxSwaps /\ 0 <= BufferLimit
        BY Limits
    <2> QED BY <1>2, <2>1, <2>2, <2>3 DEF RouterTypeOK, Verdicts
<1>4. InflightExact
    BY <1>1, <1>2 DEF InflightExact
<1> QED BY <1>3, <1>4 DEF RouterInv, ResolvedOnce, NeverToNil, GrantsInPast, AtRest

\* A dispatched call is one more in flight.
LEMMA DispatchInv ==
    ASSUME RouterInv, NEW c \in Calls, Dispatch(c) PROVE RouterInv'
<1> USE DEF RouterInv, Dispatch, loopSide
<1>1. RouterTypeOK'
    BY DEF RouterTypeOK, Grants, Current, Verdicts
<1>2. c \notin Charged /\ Charged' = Charged \cup {c}
    BY DEF RouterTypeOK, Charged, ResolvedOnce, Current, Grants
<1>3. InflightExact'
    BY <1>2, ChargedCount DEF InflightExact, RouterTypeOK
<1>4. ResolvedOnce' /\ GrantsInPast'
    BY DEF RouterTypeOK, ResolvedOnce, GrantsInPast, Current, Grants
<1>5. NeverToNil' /\ AtRest'
    BY DEF RouterTypeOK, NeverToNil, AtRest, Current, Grants
<1> QED BY <1>1, <1>3, <1>4, <1>5

\* A parked call is in the buffer and charged to nothing.
LEMMA ParkInv ==
    ASSUME RouterInv, NEW c \in Calls, Park(c) PROVE RouterInv'
<1> USE DEF RouterInv, Park, loopSide
<1>1. IsFiniteSet(buffer)
    BY CallsFinite, FS_Subset DEF RouterTypeOK
<1>2. c \notin buffer
    BY DEF ResolvedOnce
<1>3. Cardinality(buffer \cup {c}) <= BufferLimit
    <2>1. Cardinality(buffer) \in Nat
        BY <1>1, FS_CardinalityType
    <2>2. Cardinality(buffer \cup {c}) = Cardinality(buffer) + 1
        BY <1>1, <1>2, FS_AddElement
    <2> QED BY <2>1, <2>2, Limits
<1>4. RouterTypeOK'
    BY <1>3, ToolOfCall DEF RouterTypeOK, Fingerprints, Verdicts
<1>5. Charged' = Charged
    BY DEF RouterTypeOK, Charged, ResolvedOnce
<1>6. InflightExact'
    BY <1>5 DEF InflightExact
<1>7. ResolvedOnce' /\ GrantsInPast' /\ NeverToNil' /\ AtRest'
    BY DEF RouterTypeOK, ResolvedOnce, GrantsInPast, NeverToNil, AtRest
<1> QED BY <1>4, <1>6, <1>7

\* A claimed call was in the buffer and leaves no trace.
LEMMA ClaimInv ==
    ASSUME RouterInv, NEW c \in Calls, Claim(c) PROVE RouterInv'
<1> USE DEF RouterInv, Claim, Answered, loopSide
<1>1. Cardinality(buffer \ {c}) <= BufferLimit
    BY CallsFinite, FS_Subset, FS_RemoveElement, FS_CardinalityType, Limits DEF RouterTypeOK
<1>2. RouterTypeOK'
    BY <1>1 DEF RouterTypeOK, Grants, NoGrant, Verdicts
<1>3. Charged' = Charged
    BY DEF RouterTypeOK, Charged, ResolvedOnce
<1>4. InflightExact'
    BY <1>3 DEF InflightExact
<1>5. ResolvedOnce' /\ GrantsInPast' /\ NeverToNil' /\ AtRest'
    BY DEF RouterTypeOK, ResolvedOnce, GrantsInPast, NeverToNil, AtRest
<1> QED BY <1>2, <1>4, <1>5

\* A received decision changes nothing that is charged.
LEMMA ReceiveInv ==
    ASSUME RouterInv, NEW c \in Calls, Receive(c) PROVE RouterInv'
<1> USE DEF RouterInv, Receive, Answered, loopSide
<1>1. RouterTypeOK'
    <2>1. NoGrant \in Grants
        BY DEF Grants, NoGrant
    <2>2. CASE verdict[c] = "go"
        BY <2>2 DEF RouterTypeOK, Verdicts
    <2>3. CASE verdict[c] # "go"
        BY <2>1, <2>3 DEF RouterTypeOK, Verdicts
    <2> QED BY <2>2, <2>3
<1>2. Charged' = Charged
    BY DEF RouterTypeOK, Charged, ResolvedOnce
<1>3. InflightExact'
    BY <1>2 DEF InflightExact
<1>4. ResolvedOnce' /\ GrantsInPast' /\ NeverToNil' /\ AtRest'
    BY DEF RouterTypeOK, ResolvedOnce, GrantsInPast, NeverToNil, AtRest
<1> QED BY <1>1, <1>3, <1>4

\* A completion settles its own generation only.
LEMMA CompleteInv ==
    ASSUME RouterInv, NEW c \in Calls, Complete(c) PROVE RouterInv'
<1> USE DEF RouterInv, Complete, Answered, loopSide
<1>1. CASE grant[c].generation = generation
    <2>1. c \in Charged /\ Charged' = Charged \ {c}
        BY <1>1 DEF RouterTypeOK, Charged, ResolvedOnce
    <2>2. inflight >= 1
        BY <2>1, ChargedCount DEF InflightExact
    <2>3. inflight' = inflight - 1 /\ drained' = (drained /\ inflight # 1)
        BY <1>1
    <2>4. inflight' \in Nat
        BY <2>2, <2>3 DEF RouterTypeOK
    <2>5. RouterTypeOK'
        BY <2>3, <2>4 DEF RouterTypeOK, Grants, NoGrant, Verdicts
    <2>6. inflight' = Cardinality(Charged')
        BY <2>1, <2>3, ChargedCount DEF InflightExact
    <2>7. drained' => inflight # 1
        BY <2>3, Zenon
    <2>8. inflight # 1 => inflight' > 0
        BY <2>2, <2>3 DEF RouterTypeOK
    <2>9. InflightExact'
        BY <2>6, <2>7, <2>8 DEF InflightExact
    <2> QED BY <2>5, <2>9 DEF RouterTypeOK, ResolvedOnce, GrantsInPast, NeverToNil, AtRest
<1>2. CASE grant[c].generation # generation
    <2>1. Charged' = Charged
        BY <1>2 DEF RouterTypeOK, Charged, ResolvedOnce
    <2>2. RouterTypeOK'
        BY <1>2 DEF RouterTypeOK, Grants, NoGrant, Verdicts
    <2>3. InflightExact'
        BY <1>2, <2>1 DEF InflightExact
    <2> QED BY <2>2, <2>3 DEF RouterTypeOK, ResolvedOnce, GrantsInPast, NeverToNil, AtRest
<1> QED BY <1>1, <1>2

-----------------------------------------------------------------------------
\* The loop's steps: quiescing, and recording definitions.
LEMMA QuiesceInv == RouterInv /\ Quiesce => RouterInv'
<1> SUFFICES ASSUME RouterInv, Quiesce PROVE RouterInv'
    OBVIOUS
<1> USE DEF RouterInv, Quiesce, callSide
<1>1. Charged' = Charged
    BY DEF Charged
<1>2. InflightExact'
    BY <1>1 DEF InflightExact, RouterTypeOK
<1>3. RouterTypeOK' /\ ResolvedOnce'
    BY DEF RouterTypeOK, ResolvedOnce
<1> QED BY <1>2, <1>3 DEF GrantsInPast, NeverToNil, AtRest

LEMMA SetFingerprintsInv ==
    ASSUME RouterInv, NEW fps \in Fingerprints, SetFingerprints(fps) PROVE RouterInv'
<1> USE DEF RouterInv, SetFingerprints, callSide
<1>1. Charged' = Charged
    BY DEF Charged
<1>2. InflightExact'
    BY <1>1 DEF InflightExact
<1>3. RouterTypeOK' /\ ResolvedOnce'
    BY DEF RouterTypeOK, ResolvedOnce
<1> QED BY <1>2, <1>3 DEF GrantsInPast, NeverToNil, AtRest

\* After a swap nothing is charged: every grant is of an earlier generation.
LEMMA SwapInv ==
    ASSUME RouterInv, NEW k \in Children, Swap(k) PROVE RouterInv'
<1> USE DEF RouterInv, Swap, callSide
<1>1. Charged' = {}
    BY DEF Charged, GrantsInPast, RouterTypeOK, Grants
<1>2. Cardinality({}) = 0
    BY FS_EmptySet
<1>3. InflightExact'
    BY <1>1, <1>2 DEF InflightExact
<1>4. RouterTypeOK'
    <2>1. generation' \in 0..MaxSwaps
        BY Limits DEF RouterTypeOK
    <2> QED BY <2>1 DEF RouterTypeOK
<1>5. GrantsInPast'
    BY DEF GrantsInPast, RouterTypeOK, Grants
<1>6. ResolvedOnce' /\ NeverToNil' /\ AtRest'
    BY Sentinels DEF ResolvedOnce, NeverToNil, AtRest
<1> QED BY <1>3, <1>4, <1>5, <1>6

\* A drain charges the released calls, none of which was charged before.
LEMMA DrainInv ==
    ASSUME RouterInv, NEW fps \in Fingerprints, child # NoChild, Drain(fps)
    PROVE RouterInv'
<1> USE DEF RouterInv, Drain
<1>1. Released(fps) \subseteq buffer /\ buffer \subseteq Calls
    BY DEF Released, RouterTypeOK
<1>2. IsFiniteSet(Released(fps))
    BY <1>1, CallsFinite, FS_Subset
<1>3. Released(fps) \cap Charged = {}
    BY <1>1 DEF Charged, ResolvedOnce
<1>4. Charged' = Charged \cup Released(fps)
    BY <1>1 DEF Charged, ResolvedOnce, RouterTypeOK, Current
<1>5. Cardinality(Charged \cup Released(fps)) = Cardinality(Charged) + Cardinality(Released(fps))
    <2>1. Cardinality(Charged \cup Released(fps))
          = Cardinality(Charged) + Cardinality(Released(fps)) - Cardinality(Charged \cap Released(fps))
        BY <1>2, ChargedFinite, FS_Union
    <2>2. Cardinality(Charged \cap Released(fps)) = 0
        BY <1>3, FS_EmptySet
    <2> QED BY <2>1, <2>2, <1>2, ChargedFinite, FS_CardinalityType
<1>6. Cardinality(Released(fps)) \in Nat
    BY <1>2, FS_CardinalityType
<1>7. InflightExact'
    BY <1>4, <1>5, <1>6 DEF InflightExact, RouterTypeOK
<1>8. Cardinality({}) = 0
    BY FS_EmptySet
<1>9. RouterTypeOK'
    <2>1. verdict' \in [Calls -> Verdicts]
        BY DEF RouterTypeOK, Verdicts
    <2>2. grant' \in [Calls -> Grants]
        BY DEF RouterTypeOK, Grants, Current
    <2>3. released' \in [Calls -> BOOLEAN]
        BY DEF RouterTypeOK
    <2>4. buffer' \subseteq Calls /\ Cardinality(buffer') <= BufferLimit
        BY <1>8, Limits
    <2>5. fingerprints' \in Fingerprints /\ quiesced' \in BOOLEAN
        OBVIOUS
    <2>6. inflight' \in Nat
        <3>1. inflight \in Nat
            BY DEF RouterTypeOK
        <3>2. inflight' = inflight + Cardinality(Released(fps))
            OBVIOUS
        <3> HIDE DEF Drain
        <3> QED BY <3>1, <3>2, <1>6
    <2>7. UNCHANGED <<child, generation, closed, drained, pc, ingestFP>>
        OBVIOUS
    <2> HIDE DEF Drain
    <2> QED BY <2>1, <2>2, <2>3, <2>4, <2>5, <2>6, <2>7 DEF RouterTypeOK
<1>10. ResolvedOnce'
    BY <1>1 DEF ResolvedOnce, RouterTypeOK
<1>11. NeverToNil' /\ GrantsInPast'
    BY <1>1 DEF NeverToNil, GrantsInPast, RouterTypeOK, Current
<1>12. AtRest'
    BY DEF AtRest, ResolvedOnce, RouterTypeOK
<1> QED BY <1>7, <1>9, <1>10, <1>11, <1>12

\* Closing decides the parked calls and charges nothing.
LEMMA CloseInv == RouterInv /\ Close => RouterInv'
<1> SUFFICES ASSUME RouterInv, Close PROVE RouterInv'
    OBVIOUS
<1> USE DEF RouterInv, Close
<1>1. Charged' = Charged
    BY DEF Charged, ResolvedOnce, RouterTypeOK
<1>2. InflightExact'
    BY <1>1 DEF InflightExact
<1>3. Cardinality({}) = 0
    BY FS_EmptySet
<1>4. RouterTypeOK'
    <2>1. verdict' \in [Calls -> Verdicts]
        BY DEF RouterTypeOK, Verdicts
    <2>2. released' \in [Calls -> BOOLEAN]
        BY DEF RouterTypeOK
    <2>3. buffer' \subseteq Calls /\ Cardinality(buffer') <= BufferLimit
        BY <1>3, Limits
    <2>4. closed' \in BOOLEAN /\ drained' \in BOOLEAN
        OBVIOUS
    <2>5. UNCHANGED <<child, generation, fingerprints, quiesced, inflight, pc, ingestFP, grant>>
        OBVIOUS
    <2> HIDE DEF Close
    <2> QED BY <2>1, <2>2, <2>3, <2>4, <2>5 DEF RouterTypeOK
<1>5. ResolvedOnce'
    BY DEF ResolvedOnce, RouterTypeOK
<1>6. NeverToNil' /\ GrantsInPast'
    BY DEF NeverToNil, GrantsInPast, RouterTypeOK, ResolvedOnce
<1>7. AtRest'
    BY DEF AtRest, ResolvedOnce, RouterTypeOK
<1> QED BY <1>2, <1>4, <1>5, <1>6, <1>7

\* Steps that leave the router alone.
LEMMA StutterInv == RouterInv /\ UNCHANGED routerVars => RouterInv'
BY DEF RouterInv, routerVars, loopSide, callSide, RouterTypeOK, ResolvedOnce, InflightExact,
       Charged, NeverToNil, GrantsInPast, AtRest

LEMMA StepInv == RouterInv /\ [RouterNext]_routerVars => RouterInv'
<1> SUFFICES ASSUME RouterInv, RouterNext PROVE RouterInv'
    BY StutterInv
<1>1. ASSUME NEW c \in Calls, CallPath(c) PROVE RouterInv'
    BY <1>1, DispatchInv, ParkInv, ClaimInv, ReceiveInv, CompleteInv DEF CallPath
<1>2. CASE LoopSide
    BY <1>2, QuiesceInv, SwapInv, SetFingerprintsInv, DrainInv, CloseInv DEF LoopSide
<1> QED BY <1>1, <1>2 DEF RouterNext

-----------------------------------------------------------------------------
\* The invariant holds throughout.
THEOREM RouterInvariance == RouterSpec => []RouterInv
BY InitInv, StepInv, PTL DEF RouterSpec

\* Every variable has its type and the swap buffer stays within its limit.
THEOREM RouterTypeCorrect == RouterSpec => []RouterTypeOK
BY RouterInvariance, PTL DEF RouterInv

\* The counter that quiescing waits on is exact, whatever was superseded, timed
\* out or cancelled.
THEOREM CountingInFlight == RouterSpec => []InflightExact
BY RouterInvariance, PTL DEF RouterInv

\* Every parked call is decided by exactly one of drain, close, timeout and
\* cancellation.
THEOREM ExactlyOnce == RouterSpec => []ResolvedOnce
BY RouterInvariance, PTL DEF RouterInv

\* No call is sent to the nil session.
THEOREM AlwaysAChild == RouterSpec => []NeverToNil
BY RouterInvariance, PTL DEF RouterInv

\* While the router is quiesced no call joins the ones on the child.
THEOREM QuiescedChargesNothing == RouterSpec => QuiesceHolds
<1>1. RouterInv /\ [RouterNext]_routerVars
      => [quiesced /\ quiesced' => Charged' \subseteq Charged]_routerVars
    <2> SUFFICES ASSUME RouterInv, RouterNext, quiesced, quiesced'
                 PROVE Charged' \subseteq Charged
        OBVIOUS
    <2> USE DEF RouterInv, RouterTypeOK, ResolvedOnce, Charged
    <2>1. ASSUME NEW c \in Calls, Park(c) \/ Claim(c) \/ Receive(c) \/ Complete(c)
          PROVE Charged' \subseteq Charged
        BY <2>1 DEF Park, Claim, Receive, Complete, Answered, loopSide
    <2>2. ASSUME NEW c \in Calls, Dispatch(c) PROVE FALSE
        BY <2>2 DEF Dispatch
    <2>3. CASE Quiesce \/ Close \/ \E fps \in Fingerprints : SetFingerprints(fps)
        BY <2>3 DEF Quiesce, Close, SetFingerprints, callSide
    <2>4. ASSUME NEW k \in Children, Swap(k) PROVE Charged' \subseteq Charged
        BY <2>4 DEF Swap, callSide, GrantsInPast, Grants
    <2>5. ASSUME NEW fps \in Fingerprints, Drain(fps) PROVE FALSE
        BY <2>5 DEF Drain
    <2> QED BY <2>1, <2>2, <2>3, <2>4, <2>5 DEF RouterNext, CallPath, LoopSide
<1> QED BY <1>1, RouterInvariance, PTL DEF RouterSpec, QuiesceHolds

-----------------------------------------------------------------------------
(***************************************************************************)
(* For any sessions, requests, tools and definitions, and any number of    *)
(* Reconciles: a call passes the gate only on a definition its session     *)
(* knows, and listing again clears the gate.                               *)
(***************************************************************************)

\* The state's shape, with counters that are never capped.
Typing ==
    /\ served \in Sets /\ goal \in Sets /\ reconciling \in BOOLEAN
    /\ gen \in Nat
    /\ toolGen \in [ToolNames -> Nat] /\ tombstones \in [ToolNames -> Nat]
    /\ sessionGen \in [Clients -> Nat]
    /\ connected \subseteq Clients
    /\ stage \in [Requests -> {"idle", "observed", "listed", "passed"}]
    /\ session \in [Requests -> Clients \cup {NoClient}]
    /\ observed \in [Requests -> Nat]
    /\ answer \in [Requests -> Sets]
    /\ view \in [Clients -> Sets]

\* What is recorded was read from the clock, and a Reconcile in progress is
\* newer than all of it.
Clocks ==
    /\ reconciling => gen > 0
    /\ \A t \in ToolNames : toolGen[t] <= gen /\ tombstones[t] <= gen
    /\ \A s \in Clients : sessionGen[s] <= gen /\ (reconciling => sessionGen[s] < gen)
    /\ \A r \in Requests : observed[r] <= gen /\ (reconciling => observed[r] < gen)
    /\ \A t \in ToolNames : served[t] # NotServed => toolGen[t] > 0

Untouched(t, g) == tombstones[t] <= g /\ toolGen[t] <= g

\* A list's answer still holds for every tool untouched since its clock was read;
\* so does a session's view for those untouched since its generation.
Answers ==
    /\ \A r \in Requests, t \in ToolNames :
        stage[r] = "listed" /\ Untouched(t, observed[r]) => answer[r][t] = served[t]
    /\ \A s \in Clients, t \in ToolNames :
        Untouched(t, sessionGen[s]) => view[s][t] = served[t]

\* Requests under way belong to a session.
Owned == \A r \in Requests : stage[r] # "idle" => session[r] \in Clients

IInv == Typing /\ Clocks /\ Answers /\ Owned

LEMMA TypingKept == Typing /\ Owned /\ [FrontendNext]_frontendVars => Typing'
<1> SUFFICES ASSUME Typing, Owned, [FrontendNext]_frontendVars PROVE Typing'
    OBVIOUS
<1> USE DEF Typing, Owned, Sets, NothingServed
<1>1. ASSUME NEW s \in Clients, Connect(s) PROVE Typing'
    BY <1>1 DEF Connect, toolSet, requests
<1>2. ASSUME NEW s \in Clients, Disconnect(s) PROVE Typing'
    BY <1>2 DEF Disconnect, toolSet, requests
<1>3. ASSUME NEW tools \in ToolSets, BeginReconcile(tools) PROVE Typing'
    BY <1>3, SetsOfTools DEF BeginReconcile, Buried, requests
<1>4. ASSUME NEW t \in ToolNames, AddTool(t) PROVE Typing'
    BY <1>4 DEF AddTool, requests
<1>5. CASE EndReconcile
    BY <1>5 DEF EndReconcile, requests
<1>6. ASSUME NEW r \in Requests, NEW s \in Clients, Observe(r, s) PROVE Typing'
    BY <1>6 DEF Observe, toolSet
<1>7. ASSUME NEW r \in Requests, NEW s \in Clients, NEW t \in ToolNames, PassGate(r, s, t)
      PROVE  Typing'
    BY <1>7 DEF PassGate, toolSet
<1>8. ASSUME NEW r \in Requests, List(r) PROVE Typing'
    BY <1>8 DEF List, toolSet
<1>9. ASSUME NEW r \in Requests, Return(r), UNCHANGED <<toolSet, sessionGen, connected, view>>
      PROVE  Typing'
    BY <1>9 DEF Return, toolSet
<1>10. ASSUME NEW r \in Requests, Record(r) PROVE Typing'
    BY <1>10 DEF Record, MaxGen, ObservedBy, Return, toolSet
<1>11. CASE UNCHANGED frontendVars
    BY <1>11 DEF frontendVars, toolSet, requests
<1> QED
    BY <1>1, <1>2, <1>3, <1>4, <1>5, <1>6, <1>7, <1>8, <1>9, <1>10, <1>11
       DEF FrontendNext, ListFails, Forward

\* A request under way has read the clock or passed the gate for a session it
\* was given; only its own steps end that.
LEMMA OwnedKept == Typing /\ Owned /\ [FrontendNext]_frontendVars => Owned'
<1> SUFFICES ASSUME Typing, Owned, [FrontendNext]_frontendVars PROVE Owned'
    OBVIOUS
<1> USE DEF Typing, Owned
<1>1. CASE UNCHANGED requests
    BY <1>1 DEF requests
<1>2. ASSUME NEW r \in Requests, NEW s \in Clients, Observe(r, s) PROVE Owned'
    BY <1>2 DEF Observe
<1>3. ASSUME NEW r \in Requests, NEW s \in Clients, NEW t \in ToolNames, PassGate(r, s, t)
      PROVE  Owned'
    BY <1>3 DEF PassGate
<1>4. ASSUME NEW r \in Requests, List(r) PROVE Owned'
    BY <1>4 DEF List
<1>5. ASSUME NEW r \in Requests, ListFails(r) \/ Forward(r) \/ Record(r) PROVE Owned'
    BY <1>5 DEF ListFails, Forward, Record, Return
<1> QED
    BY <1>1, <1>2, <1>3, <1>4, <1>5
    DEF FrontendNext, Connect, Disconnect, BeginReconcile, AddTool, EndReconcile, frontendVars, requests

LEMMA ClocksKept == Typing /\ Owned /\ Clocks /\ [FrontendNext]_frontendVars => Clocks'
<1> SUFFICES ASSUME Typing, Owned, Clocks, [FrontendNext]_frontendVars PROVE Clocks'
    OBVIOUS
<1>a. Typing'
    BY TypingKept
<1> USE DEF Typing, Clocks
<1>1. ASSUME NEW s \in Clients, Connect(s) \/ Disconnect(s) PROVE Clocks'
    BY <1>1 DEF Connect, Disconnect, toolSet, requests
<1>2. ASSUME NEW tools \in ToolSets, BeginReconcile(tools) PROVE Clocks'
  <2>1. gen' = gen + 1 /\ UNCHANGED <<sessionGen, observed>>
      BY <1>2 DEF BeginReconcile, requests
  <2>2. \A t \in ToolNames : toolGen'[t] <= gen' /\ tombstones'[t] <= gen'
      BY <1>2, <2>1 DEF BeginReconcile, Buried
  <2>3. \A t \in ToolNames : served'[t] # NotServed => toolGen'[t] > 0
      BY <1>2 DEF BeginReconcile, Sets
  <2>4. \A s \in Clients : sessionGen'[s] < gen'
      BY <2>1
  <2>5. \A r \in Requests : observed'[r] < gen'
      BY <2>1
  <2> QED
      BY <1>a, <2>1, <2>2, <2>3, <2>4, <2>5
<1>3. ASSUME NEW t \in ToolNames, AddTool(t) PROVE Clocks'
    BY <1>3 DEF AddTool, requests
<1>4. CASE EndReconcile
    BY <1>4 DEF EndReconcile, requests
<1>5. ASSUME NEW r \in Requests, NEW s \in Clients, Observe(r, s) PROVE Clocks'
    BY <1>5 DEF Observe, toolSet
<1>6. ASSUME NEW r \in Requests, NEW s \in Clients, NEW t \in ToolNames, PassGate(r, s, t)
      PROVE  Clocks'
    BY <1>6 DEF PassGate, toolSet
<1>7. ASSUME NEW r \in Requests, List(r) PROVE Clocks'
    BY <1>7 DEF List, toolSet
<1>8. ASSUME NEW r \in Requests, ListFails(r) \/ Forward(r) PROVE Clocks'
    BY <1>8 DEF ListFails, Forward, Return, toolSet
<1>9. ASSUME NEW r \in Requests, Record(r) PROVE Clocks'
    BY <1>9 DEF Record, MaxGen, ObservedBy, Return, toolSet, Owned
<1>10. CASE UNCHANGED frontendVars
    BY <1>10 DEF frontendVars, toolSet, requests
<1> QED
    BY <1>1, <1>2, <1>3, <1>4, <1>5, <1>6, <1>7, <1>8, <1>9, <1>10 DEF FrontendNext

\* A change of a tool is newer than every list under way and every view, so
\* neither speaks of that tool any more; and a list answers what it sees.
LEMMA AnswersKept == IInv /\ [FrontendNext]_frontendVars => Answers'
<1> SUFFICES ASSUME IInv, [FrontendNext]_frontendVars PROVE Answers'
    OBVIOUS
<1>a. Typing' /\ Clocks'
    BY TypingKept, ClocksKept DEF IInv
<1> USE DEF IInv, Typing, Clocks, Answers, Untouched
<1>1. ASSUME NEW s \in Clients, Connect(s) PROVE Answers'
  <2>1. \A t \in ToolNames : Untouched(t, sessionGen[s]) => served[t] = NotServed
      BY <1>1 DEF Connect
  <2> QED
      BY <1>1, <2>1 DEF Connect, toolSet, requests, NothingServed
<1>2. ASSUME NEW s \in Clients, Disconnect(s) PROVE Answers'
    BY <1>2 DEF Disconnect, toolSet, requests
<1>3. ASSUME NEW tools \in ToolSets, BeginReconcile(tools) PROVE Answers'
  <2> DEFINE removed == {t \in ToolNames : served[t] # NotServed /\ tools[t] = NotServed}
  <2>1. /\ UNCHANGED <<sessionGen, observed, answer, stage, view>>
        /\ \A t \in removed : tombstones'[t] = gen + 1
        /\ \A t \in ToolNames \ removed : /\ served'[t] = served[t]
                                     /\ toolGen'[t] = toolGen[t]
                                     /\ tombstones'[t] = tombstones[t]
      BY <1>3 DEF BeginReconcile, Buried, requests
  <2>2. \A r \in Requests, t \in removed : ~Untouched(t, observed[r])'
      BY <2>1, <1>a
  <2>3. \A s \in Clients, t \in removed : ~Untouched(t, sessionGen[s])'
      BY <2>1, <1>a
  <2> QED
      BY <2>1, <2>2, <2>3
<1>4. ASSUME NEW u \in ToolNames, AddTool(u) PROVE Answers'
  <2>1. /\ UNCHANGED <<sessionGen, observed, answer, stage, view>>
        /\ toolGen'[u] = gen
        /\ \A t \in ToolNames \ {u} : /\ served'[t] = served[t]
                                 /\ toolGen'[t] = toolGen[t]
                                 /\ tombstones'[t] = tombstones[t]
      BY <1>4 DEF AddTool, requests
  <2>2. \A r \in Requests : ~Untouched(u, observed[r])'
      BY <2>1, <1>4 DEF AddTool
  <2>3. \A s \in Clients : ~Untouched(u, sessionGen[s])'
      BY <2>1, <1>4 DEF AddTool
  <2> QED
      BY <2>1, <2>2, <2>3
<1>5. CASE EndReconcile
  <2>1. /\ \A s \in Clients : sessionGen'[s] <= sessionGen[s]
        /\ UNCHANGED <<served, toolGen, tombstones, requests, view>>
      BY <1>5 DEF EndReconcile
  <2>2. \A s \in Clients, t \in ToolNames :
            Untouched(t, sessionGen[s])' => Untouched(t, sessionGen[s])
      BY <1>a, <2>1
  <2> QED
      BY <2>1, <2>2 DEF requests
<1>6. ASSUME NEW r \in Requests, NEW s \in Clients, Observe(r, s) PROVE Answers'
    BY <1>6 DEF Observe, toolSet
<1>7. ASSUME NEW r \in Requests, NEW s \in Clients, NEW t \in ToolNames, PassGate(r, s, t)
      PROVE  Answers'
    BY <1>7 DEF PassGate, toolSet
<1>8. ASSUME NEW r \in Requests, List(r) PROVE Answers'
    BY <1>8 DEF List, toolSet
<1>9. ASSUME NEW r \in Requests, Return(r), UNCHANGED <<toolSet, sessionGen, connected, view>>
      PROVE  Answers'
    BY <1>9 DEF Return, toolSet
<1>10. ASSUME NEW r \in Requests, Record(r) PROVE Answers'
  <2> DEFINE s == session[r]
  <2>1. s \in Clients /\ stage[r] = "listed"
      BY <1>10 DEF Record, Owned
  <2>2. \A q \in Requests : stage'[q] = "listed" =>
            stage[q] = "listed" /\ observed'[q] = observed[q] /\ answer'[q] = answer[q]
      BY <1>10 DEF Record, Return
  <2>3. UNCHANGED toolSet
      BY <1>10 DEF Record
  <2>4. CASE observed[r] >= sessionGen[s]
    <3>1. sessionGen'[s] = observed[r] /\ view'[s] = answer[r]
        BY <1>10, <2>1, <2>4 DEF Record, MaxGen, ObservedBy
    <3>2. \A q \in Clients \ {s} : sessionGen'[q] = sessionGen[q] /\ view'[q] = view[q]
        BY <1>10, <2>1 DEF Record
    <3> QED
        BY <2>1, <2>2, <2>3, <3>1, <3>2 DEF toolSet
  <2>5. CASE ~(observed[r] >= sessionGen[s])
    <3>1. UNCHANGED <<sessionGen, view>>
        BY <1>10, <2>1, <2>5 DEF Record, MaxGen, ObservedBy
    <3> QED
        BY <2>2, <2>3, <3>1 DEF toolSet
  <2> QED
      BY <2>4, <2>5
<1>11. CASE UNCHANGED frontendVars
    BY <1>11 DEF frontendVars, toolSet, requests
<1> QED
    BY <1>1, <1>2, <1>3, <1>4, <1>5, <1>6, <1>7, <1>8, <1>9, <1>10, <1>11
    DEF FrontendNext, ListFails, Forward

\* What the generations of tools, sessions and running lists say of each other is
\* kept by every section under f.mu.
THEOREM Invariance == FrontendSpec => []IInv
<1>1. FrontendInit => IInv
  <2> USE DEF FrontendInit
  <2>1. FrontendInit => Typing
    <3>1. NothingServed \in Sets
        BY DEF Sets, NothingServed
    <3>2. FrontendInit => /\ served \in Sets /\ goal \in Sets
                  /\ answer \in [Requests -> Sets] /\ view \in [Clients -> Sets]
        BY <3>1
    <3>3. FrontendInit => /\ stage \in [Requests -> {"idle", "observed", "listed", "passed"}]
                  /\ session \in [Requests -> Clients \cup {NoClient}]
        OBVIOUS
    <3>4. FrontendInit => /\ toolGen \in [ToolNames -> Nat] /\ tombstones \in [ToolNames -> Nat]
                  /\ sessionGen \in [Clients -> Nat] /\ observed \in [Requests -> Nat]
        OBVIOUS
    <3>5. FrontendInit => reconciling \in BOOLEAN
        BY Zenon
    <3>6. FrontendInit => gen \in Nat /\ connected \subseteq Clients
        OBVIOUS
    <3> HIDE DEF FrontendInit
    <3> QED
        BY <3>2, <3>3, <3>4, <3>5, <3>6 DEF Typing
  <2>2. FrontendInit => Clocks
      BY DEF Clocks, NothingServed
  <2>3. FrontendInit => Answers
      BY DEF Answers, NothingServed
  <2>4. FrontendInit => Owned
      BY DEF Owned
  <2> QED
      BY <2>1, <2>2, <2>3, <2>4 DEF IInv
<1>2. IInv /\ [FrontendNext]_frontendVars => IInv'
    BY TypingKept, OwnedKept, ClocksKept, AnswersKept DEF IInv
<1> QED
    BY <1>1, <1>2, PTL DEF FrontendSpec

\* Whatever lists, calls, Reconciles and sessions interleave, a call that passes
\* gateStaleCall is made on the definition its session was answered.
THEOREM GateSound == FrontendSpec => []NeverBlind
<1>1. IInv => NeverBlind
    BY DEF IInv, Typing, Answers, Untouched, NeverBlind, Stale
<1> QED
    BY <1>1, Invariance, PTL

\* Once recordListGeneration has recorded a list no Reconcile overtook, gateStaleCall
\* refuses that session nothing, and a slower list takes nothing back.
THEOREM GateClears == FrontendSpec => RelistSuffices
<1>1. IInv /\ [FrontendNext]_frontendVars =>
        [\A r \in Requests, s \in Clients :
            stage[r] = "listed" /\ session[r] = s /\ stage'[r] = "idle" =>
                /\ observed[r] = gen => \A t \in ToolNames : ~Stale(s, t)'
                /\ \A t \in ToolNames : ~Stale(s, t) => ~Stale(s, t)']_frontendVars
  <2> SUFFICES ASSUME IInv, [FrontendNext]_frontendVars, NEW r \in Requests, NEW s \in Clients,
                      stage[r] = "listed", session[r] = s, stage'[r] = "idle"
               PROVE  /\ observed[r] = gen => \A t \in ToolNames : ~Stale(s, t)'
                      /\ \A t \in ToolNames : ~Stale(s, t) => ~Stale(s, t)'
      OBVIOUS
  <2> USE DEF IInv, Typing, Clocks, Stale
  <2>1. Record(r)
    <3>1. stage' # stage
        OBVIOUS
    <3>2. PICK q \in Requests : \/ List(q) \/ ListFails(q) \/ Record(q) \/ Forward(q)
                                \/ \E x \in Clients : Observe(q, x) \/ \E t \in ToolNames : PassGate(q, x, t)
        BY <3>1 DEF FrontendNext, Connect, Disconnect, BeginReconcile, AddTool,
                    EndReconcile, frontendVars, requests
    <3>3. q = r
        BY <3>2 DEF List, ListFails, Record, Forward, Return, Observe, PassGate
    <3> QED
        BY <3>2, <3>3 DEF List, ListFails, Forward, Observe, PassGate
  <2>2. UNCHANGED <<toolGen, tombstones>> /\ sessionGen'[s] = MaxGen(r)
      BY <2>1 DEF Record, toolSet
  <2>3. MaxGen(r) \in Nat /\ MaxGen(r) >= observed[r] /\ MaxGen(r) >= sessionGen[s]
      BY DEF MaxGen, ObservedBy
  <2>4. ASSUME NEW t \in ToolNames, observed[r] = gen PROVE ~Stale(s, t)'
      BY <2>2, <2>3, <2>4
  <2>5. ASSUME NEW t \in ToolNames, ~Stale(s, t) PROVE ~Stale(s, t)'
      BY <2>2, <2>3, <2>5
  <2> QED
      BY <2>4, <2>5
<1> QED
    BY <1>1, Invariance, PTL DEF FrontendSpec, RelistSuffices

-----------------------------------------------------------------------------
(***************************************************************************)
(* What the watcher keeps for any tree, queue and watch limit.             *)
(***************************************************************************)

\* A walk under way, or an event still to handle, will come to g.
Queued(g) == \E n \in 1..Len(events) : events[n] = g
Awaited(g) == g \in todo \/ (g # Root /\ Inside[g] = reading) \/ Queued(g)

\* The core will be told of a change.
Alert == overflow \/ doing # "idle" \/ \E n \in 1..Len(events) : events[n] # Chmod

\* Every folder is registered, or a walk will come to it, or to one around it
\* from which it goes on, unless it gave up there; and no change goes untold.
Resting == doing \in {"idle", "forwarding"} => todo = {} /\ reading = NoFolder
Covered == \A f \in present : f \in registered \/ \E g \in Around[f] : g \in givenUp \/ Awaited(g)
Told == \A f \in changed : Forsaken(f) \/ Alert

WatchInv == WatchTypeOK /\ Resting /\ Covered /\ Told

-----------------------------------------------------------------------------
(* The tree: what is around a folder.                                        *)

LEMMA InsideIs == \A f \in Folders : f # Root => Inside[f] \in Folders
BY Tree

LEMMA AroundLeast ==
    ASSUME NEW f \in Folders, NEW S \in SUBSET Folders, f \in S, Upward(S)
    PROVE  Around[f] \subseteq S
BY DEF Around

LEMMA AroundUp ==
    ASSUME NEW f \in Folders
    PROVE  f \in Around[f] /\ Around[f] \subseteq Folders /\ Upward(Around[f])
<1>1. f \in Around[f] /\ Around[f] \subseteq Folders
    BY DEF Around
<1>2. ASSUME NEW h \in Around[f] \ {Root} PROVE Inside[h] \in Around[f]
    <2>1. h \in Folders /\ Inside[h] \in Folders
        BY <1>1, <1>2, InsideIs
    <2>2. ASSUME NEW S \in SUBSET Folders, f \in S, Upward(S) PROVE Inside[h] \in S
        <3>1. h \in S
            BY <1>2, <2>2, AroundLeast
        <3> QED
            BY <1>2, <2>2, <3>1 DEF Upward
    <2> QED
        BY <2>1, <2>2 DEF Around
<1> QED
    BY <1>1, <1>2 DEF Upward

LEMMA AroundWithin ==
    ASSUME NEW f \in Folders, NEW g \in Around[f] PROVE g \in Folders /\ Around[g] \subseteq Around[f]
BY AroundUp, AroundLeast

\* From f to a folder around it there is one on the way just inside that.
LEMMA NextBelow ==
    ASSUME NEW h \in Folders, NEW f \in Around[h], f # h
    PROVE  \E g \in Around[h] : g # Root /\ Inside[g] = f
<1> SUFFICES ASSUME \A g \in Around[h] : g # Root => Inside[g] # f PROVE FALSE
    OBVIOUS
<1> DEFINE S == Around[h] \ {f}
<1>1. S \in SUBSET Folders /\ h \in S /\ Upward(S)
    BY AroundUp DEF Upward
<1>2. f \in S
    BY <1>1, AroundLeast
<1> QED
    BY <1>2

\* Around a folder is itself and what is around the one it is in.
LEMMA AroundInside ==
    ASSUME NEW f \in Folders \ {Root} PROVE Around[f] \subseteq {f} \cup Around[Inside[f]]
<1> DEFINE S == {f} \cup Around[Inside[f]]
<1>1. Inside[f] \in Folders
    BY InsideIs
<1>2. S \in SUBSET Folders /\ f \in S /\ Upward(S)
    BY <1>1, AroundUp DEF Upward
<1> QED
    BY <1>2, AroundLeast

\* No folder is inside itself, or the root would not be around it.
LEMMA NotInsideItself ==
    ASSUME NEW f \in Folders \ {Root}, f \in Around[Inside[f]] PROVE FALSE
<1> DEFINE C == {g \in Around[f] : f \in Around[g]}
<1>1. C \in SUBSET Folders /\ f \in C
    BY AroundUp
<1>2. ASSUME NEW g \in C \ {Root} PROVE Inside[g] \in C
    <2>1. g \in Folders \ {Root} /\ Inside[g] \in Around[f]
        BY <1>1, <1>2, AroundUp DEF Upward
    <2>2. f \in Around[Inside[g]]
        BY <1>2, <2>1, AroundInside
    <2> QED
        BY <2>1, <2>2
<1>3. Around[f] \subseteq C
    <2>1. Upward(C)
        BY <1>2 DEF Upward
    <2> HIDE DEF C
    <2> QED
        BY <1>1, <2>1, AroundLeast
<1>4. f \in Around[Root]
    BY <1>3, Rooted
<1>5. Around[Root] \subseteq {Root}
    <2>1. {Root} \in SUBSET Folders /\ Upward({Root})
        BY Tree DEF Upward
    <2> QED
        BY <2>1, AroundLeast, Tree
<1> QED
    BY <1>4, <1>5

LEMMA UnderIs ==
    ASSUME NEW f, NEW g
    PROVE  g \in Under(f) <=> g \in Folders /\ f \in Around[g]
BY DEF Under

\* Without all that is under a folder, and with all of a subtree, the rest
\* still has what is around it.
LEMMA PrunedUpward ==
    ASSUME WatchTypeOK, NEW f \in Folders
    PROVE  \A h \in present \ Under(f) : Around[h] \subseteq present \ Under(f)
<1> SUFFICES ASSUME NEW h \in present \ Under(f), NEW g \in Around[h] PROVE g \in present \ Under(f)
    OBVIOUS
<1>1. h \in Folders /\ g \in present
    BY DEF WatchTypeOK
<1>2. Around[g] \subseteq Around[h] /\ f \notin Around[h]
    BY <1>1, AroundWithin, UnderIs
<1> QED
    BY <1>1, <1>2, UnderIs

LEMMA GrownUpward ==
    ASSUME WatchTypeOK, NEW f \in Folders \ {Root}, NEW more \in SUBSET Under(f),
           Inside[f] \in present, \A g \in more \ {f} : Inside[g] \in more
    PROVE  /\ more \subseteq Folders
           /\ \A h \in present \cup more : Around[h] \subseteq present \cup more
<1>1. more \subseteq Folders /\ present \subseteq Folders
    BY UnderIs DEF WatchTypeOK
<1>2. Upward(present \cup more)
    <2> SUFFICES ASSUME NEW h \in (present \cup more) \ {Root} PROVE Inside[h] \in present \cup more
        BY DEF Upward
    <2>1. CASE h \in present
        <3>1. Around[h] \subseteq present /\ h \in Folders
            BY <2>1 DEF WatchTypeOK
        <3> QED
            BY <3>1, AroundUp DEF Upward
    <2>2. CASE h \in more
        BY <2>2
    <2> QED
        BY <2>1, <2>2
<1> QED
    BY <1>1, <1>2, AroundLeast

-----------------------------------------------------------------------------
(* The queue.                                                                *)

LEMMA ReportIs ==
    ASSUME WatchTypeOK, NEW f, NEW e \in Folders \cup {NoFolder, Chmod}, Report(f, e)
    PROVE  /\ events' \in Seq(Folders \cup {NoFolder, Chmod}) /\ Len(events') <= QueueLimit
           /\ overflow' \in BOOLEAN
           /\ \A n \in 1..Len(events) : n \in 1..Len(events') /\ events'[n] = events[n]
           /\ overflow => overflow'
           /\ f \in registered => overflow' \/ \E n \in 1..Len(events') : events'[n] = e
           /\ f \in registered /\ ~Full => \E n \in 1..Len(events') : events'[n] = e
<1>1. events \in Seq(Folders \cup {NoFolder, Chmod}) /\ Len(events) <= QueueLimit /\ overflow \in BOOLEAN
      /\ Len(events) \in Nat /\ QueueLimit \in Nat
    BY WatchBounds DEF WatchTypeOK
<1>2. CASE UNCHANGED <<events, overflow>> /\ f \notin registered
    BY <1>1, <1>2
<1>3. CASE events' = events /\ overflow' = TRUE /\ Full
    BY <1>1, <1>3
<1>4. CASE ~Full /\ events' = Append(events, e) /\ overflow' = overflow
    <2>1. Len(events) # QueueLimit
        BY <1>4 DEF Full
    <2>2. Len(events') = Len(events) + 1 /\ events'[Len(events) + 1] = e
        BY <1>1, <1>4
    <2>3. \A n \in 1..Len(events) : n \in 1..Len(events') /\ events'[n] = events[n]
        BY <1>1, <1>4
    <2>4. events' \in Seq(Folders \cup {NoFolder, Chmod})
        BY <1>1, <1>4
    <2> QED
        BY <1>1, <1>4, <2>1, <2>2, <2>3, <2>4
<1> QED
    BY <1>2, <1>3, <1>4 DEF Report, queue

LEMMA QueueKept ==
    ASSUME \A n \in 1..Len(events) : n \in 1..Len(events') /\ events'[n] = events[n],
           overflow => overflow', doing' = doing
    PROVE  /\ \A g : Queued(g) => Queued(g)'
           /\ Alert => Alert'
BY DEF Queued, Alert

LEMMA ForsakenIs ==
    ASSUME NEW f PROVE Forsaken(f) <=> f \in Folders /\ \E g \in givenUp : g \in Around[f]
BY DEF Forsaken, Under

\* A folder that is not registered is forsaken, or the core will hear.
LEMMA Unregistered ==
    ASSUME WatchInv, NEW f \in present, f \notin registered
    PROVE  Forsaken(f) \/ Alert
<1>1. PICK g \in Around[f] : g \in givenUp \/ Awaited(g)
    BY DEF WatchInv, Covered
<1>2. f \in Folders /\ g \in Folders
    BY AroundUp DEF WatchInv, WatchTypeOK
<1>3. CASE g \in givenUp
    BY <1>1, <1>2, <1>3, ForsakenIs
<1>4. CASE g \in todo \/ (g # Root /\ Inside[g] = reading)
    <2>1. todo # {} \/ reading # NoFolder
        BY <1>2, <1>4, InsideIs, EventsApart
    <2> QED
        BY <2>1 DEF WatchInv, Resting, WatchTypeOK, Alert
<1>5. CASE Queued(g)
    BY <1>2, <1>5, EventsApart DEF Queued, Alert
<1> QED
    BY <1>1, <1>3, <1>4, <1>5 DEF Awaited

-----------------------------------------------------------------------------
(* The steps of the tree.                                                    *)

LEMMA EditFileKeeps == ASSUME WatchInv, NEW f \in Folders, EditFile(f) PROVE WatchInv'
<1> USE DEF WatchInv
<1>1. /\ f \in present /\ changed' = changed \cup {f} /\ Report(f, NoFolder)
      /\ UNCHANGED <<present, registered, doing, todo, reading, givenUp>>
    BY DEF EditFile
<1>2. /\ \A g : Queued(g) => Queued(g)'
      /\ Alert => Alert'
    BY <1>1, ReportIs, QueueKept
<1>3. WatchTypeOK'
    BY <1>1, ReportIs DEF WatchTypeOK
<1>4. Resting' /\ Covered'
    BY <1>1, <1>2 DEF Resting, Covered, Awaited
<1>5. Told'
    <2>1. f \in registered => Alert'
        BY <1>1, ReportIs, EventsApart DEF Alert
    <2>2. Forsaken(f) \/ Alert'
        BY <1>1, <1>2, <2>1, Unregistered
    <2>3. \A g : Forsaken(g)' <=> Forsaken(g)
        BY <1>1 DEF Forsaken
    <2> QED
        BY <1>1, <1>2, <2>2, <2>3 DEF Told
<1> QED
    BY <1>3, <1>4, <1>5

LEMMA ChangeModeKeeps == ASSUME WatchInv, NEW f \in Folders, ChangeMode(f) PROVE WatchInv'
<1> USE DEF WatchInv
<1>1. /\ Report(f, Chmod)
      /\ UNCHANGED <<present, changed, registered, doing, todo, reading, givenUp>>
    BY DEF ChangeMode
<1>2. /\ \A g : Queued(g) => Queued(g)'
      /\ Alert => Alert'
    BY <1>1, ReportIs, QueueKept
<1>3. WatchTypeOK'
    BY <1>1, ReportIs DEF WatchTypeOK
<1>4. Resting' /\ Covered'
    BY <1>1, <1>2 DEF Resting, Covered, Awaited
<1>5. Told'
    BY <1>1, <1>2 DEF Told, Forsaken
<1> QED
    BY <1>3, <1>4, <1>5

LEMMA AppearKeeps ==
    ASSUME WatchInv, NEW f \in Folders \ {Root}, NEW more \in SUBSET Under(f), f \in more, Appear(f, more)
    PROVE  WatchInv'
<1> USE DEF WatchInv
<1>1. /\ f \notin present /\ Inside[f] \in present /\ \A g \in more \ {f} : Inside[g] \in more
      /\ present' = present \cup more /\ changed' = changed \cup more \cup {Inside[f]}
      /\ Report(Inside[f], f)
      /\ givenUp' = IF Inside[f] \in registered /\ Full THEN givenUp \cup {f} ELSE givenUp
      /\ UNCHANGED <<registered, doing, todo, reading>>
    BY DEF Appear
<1>2. /\ \A g : Queued(g) => Queued(g)'
      /\ Alert => Alert'
    BY <1>1, ReportIs, QueueKept
<1>3. /\ more \subseteq Folders /\ present \subseteq Folders
      /\ \A h \in more : f \in Around[h] /\ Around[f] \subseteq Around[h]
      /\ Inside[f] \in Around[f] /\ Around[Inside[f]] \subseteq Around[f]
    <2>1. \A h \in more : h \in Folders /\ f \in Around[h]
        BY UnderIs
    <2>2. Inside[f] \in Around[f]
        BY AroundUp DEF Upward
    <2> QED
        BY <2>1, <2>2, AroundWithin DEF WatchTypeOK
<1>4. WatchTypeOK'
    <2>1. present' \subseteq Folders /\ \A h \in present' : Around[h] \subseteq present'
        BY <1>1, GrownUpward DEF WatchTypeOK
    <2>2. changed' \subseteq present' /\ registered' \subseteq present' /\ givenUp' \subseteq present'
        BY <1>1 DEF WatchTypeOK
    <2>3. /\ events' \in Seq(Folders \cup {NoFolder, Chmod}) /\ Len(events') <= QueueLimit
          /\ overflow' \in BOOLEAN
        BY <1>1, ReportIs
    <2> QED
        BY <1>1, <2>1, <2>2, <2>3 DEF WatchTypeOK
<1>5. Resting'
    BY <1>1 DEF Resting
<1>6. givenUp \subseteq givenUp' /\ \A g : Awaited(g) => Awaited(g)'
    BY <1>1, <1>2 DEF Awaited
<1>7. Covered'
    <2> SUFFICES ASSUME NEW h \in present', h \notin registered
                 PROVE  \E g \in Around[h] : g \in givenUp' \/ Awaited(g)'
        BY <1>1 DEF Covered
    <2>1. CASE h \in present
        BY <1>6, <2>1 DEF Covered
    <2>2. CASE h \in more /\ Inside[f] \in registered
        <3>1. f \in givenUp' \/ Queued(f)'
            BY <1>1, <2>2, ReportIs DEF Queued
        <3> QED
            BY <1>3, <2>2, <3>1 DEF Awaited
    <2>3. CASE h \in more /\ Inside[f] \notin registered
        <3>1. PICK g \in Around[Inside[f]] : g \in givenUp \/ Awaited(g)
            BY <1>1, <2>3 DEF Covered
        <3> QED
            BY <1>3, <1>6, <2>3, <3>1
    <2> QED
        BY <1>1, <2>1, <2>2, <2>3
<1>8. Told'
    <2>1. \A h : Forsaken(h) => Forsaken(h)'
        BY <1>6 DEF Forsaken
    <2>2. Inside[f] \in registered => Alert'
        BY <1>1, ReportIs, EventsApart DEF Alert
    <2>3. Alert' \/ Forsaken(Inside[f])
        BY <1>1, <1>2, <2>2, Unregistered
    <2>4. Forsaken(Inside[f]) => \A h \in more : Forsaken(h)
        BY <1>3, ForsakenIs
    <2> QED
        BY <1>1, <1>2, <2>1, <2>3, <2>4 DEF Told
<1> QED
    BY <1>4, <1>5, <1>7, <1>8

LEMMA VanishKeeps == ASSUME WatchInv, NEW f \in Folders, Vanish(f) PROVE WatchInv'
<1> USE DEF WatchInv
<1>1. /\ f \in present \ {Root}
      /\ present' = present \ Under(f) /\ registered' = registered \ Under(f)
      /\ givenUp' = givenUp \ Under(f) /\ changed' = (changed \ Under(f)) \cup {Inside[f]}
      /\ Report(Inside[f], NoFolder)
      /\ UNCHANGED <<doing, todo, reading>>
    BY DEF Vanish
<1>2. /\ \A g : Queued(g) => Queued(g)'
      /\ Alert => Alert'
    BY <1>1, ReportIs, QueueKept
<1>3. present \subseteq Folders /\ \A h \in present \ Under(f) : Around[h] \subseteq present \ Under(f)
    BY PrunedUpward DEF WatchTypeOK
<1>4. Inside[f] \in present \ Under(f)
    <2>1. Inside[f] \in Around[f] /\ Around[f] \subseteq present /\ Inside[f] \in Folders
        BY <1>1, AroundUp, InsideIs DEF Upward, WatchTypeOK
    <2>2. f \notin Around[Inside[f]]
        BY <1>1, <2>1, NotInsideItself
    <2> QED
        BY <2>1, <2>2, UnderIs
<1>5. WatchTypeOK'
    <2>1. /\ events' \in Seq(Folders \cup {NoFolder, Chmod}) /\ Len(events') <= QueueLimit
          /\ overflow' \in BOOLEAN
        BY <1>1, <1>4, ReportIs
    <2> QED
        BY <1>1, <1>3, <1>4, <2>1 DEF WatchTypeOK
<1>6. Resting'
    BY <1>1 DEF Resting
<1>7. Covered'
    <2> SUFFICES ASSUME NEW h \in present \ Under(f), h \notin registered
                 PROVE  \E g \in Around[h] : g \in givenUp' \/ Awaited(g)'
        BY <1>1 DEF Covered
    <2>1. PICK g \in Around[h] : g \in givenUp \/ Awaited(g)
        BY DEF Covered
    <2>2. g \notin Under(f)
        BY <1>3
    <2> QED
        BY <1>1, <1>2, <2>1, <2>2 DEF Awaited
<1>8. Told'
    <2>1. \A h \in present \ Under(f) : Forsaken(h) => Forsaken(h)'
        <3> SUFFICES ASSUME NEW h \in present \ Under(f), Forsaken(h) PROVE Forsaken(h)'
            OBVIOUS
        <3>1. PICK g \in givenUp : g \in Around[h] /\ h \in Folders
            BY ForsakenIs
        <3>2. g \in givenUp'
            BY <1>1, <1>3, <3>1
        <3> QED
            BY <3>1, <3>2 DEF Forsaken, Under
    <2>2. Inside[f] \in registered => Alert'
        BY <1>1, ReportIs, EventsApart DEF Alert
    <2>3. Alert' \/ Forsaken(Inside[f])
        BY <1>1, <1>2, <1>4, <2>2, Unregistered
    <2>4. changed \subseteq present
        BY DEF WatchTypeOK
    <2> QED
        BY <1>1, <1>2, <1>4, <2>1, <2>3, <2>4 DEF Told
<1> QED
    BY <1>5, <1>6, <1>7, <1>8

-----------------------------------------------------------------------------
(* The steps of the watcher.                                                 *)

LEMMA FreshKeeps ==
    ASSUME WatchInv, doing = "starting", Fresh, present' = present PROVE WatchInv'
<1> USE DEF WatchInv, Fresh
<1>1. <<>> \in Seq(Folders \cup {NoFolder, Chmod}) /\ Len(<<>>) <= QueueLimit
    BY WatchBounds
<1>2. WatchTypeOK'
    BY <1>1, Tree DEF WatchTypeOK
<1>3. Covered'
    BY Rooted DEF WatchTypeOK, Covered, Awaited
<1> QED
    BY <1>2, <1>3 DEF Resting, Told

\* A walk that breaks off gives up what it has found and not visited.
LEMMA AbandonKeeps ==
    ASSUME WatchInv, Abandon, UNCHANGED present, reading \notin present PROVE WatchInv'
<1> USE DEF WatchInv
<1>1. CASE doing = "starting" /\ Fresh
    BY <1>1, FreshKeeps
<1>2. CASE ~(doing = "starting" /\ Fresh)
    <2>1. /\ doing = "walking" /\ doing' = "forwarding" /\ givenUp' = givenUp \cup (todo \cap present)
          /\ todo' = {} /\ reading' = NoFolder
          /\ UNCHANGED <<present, changed, registered, events, overflow>>
        BY <1>2 DEF Abandon, queue
    <2>2. WatchTypeOK' /\ Resting'
        BY <2>1 DEF WatchTypeOK, Resting
    <2>3. Covered'
        <3> SUFFICES ASSUME NEW f \in present, f \notin registered
                     PROVE  \E g \in Around[f] : g \in givenUp' \/ Awaited(g)'
            BY <2>1 DEF Covered
        <3>1. PICK g \in Around[f] : g \in givenUp \/ Awaited(g)
            BY DEF Covered
        <3>2. g \in present /\ (g # Root => Inside[g] \in present)
            BY AroundUp DEF WatchTypeOK, Upward
        <3> QED
            BY <2>1, <3>1, <3>2 DEF Awaited, Queued
    <2>4. Told'
        BY <2>1 DEF Told, Alert
    <2> QED
        BY <2>2, <2>3, <2>4
<1> QED
    BY <1>1, <1>2

LEMMA RegisterKeeps == ASSUME WatchInv, NEW f \in Folders, Register(f) PROVE WatchInv'
<1> USE DEF WatchInv
<1>1. reading = NoFolder /\ f \in todo /\ UNCHANGED present
    BY DEF Register
<1>2. NoFolder \notin present
    BY EventsApart DEF WatchTypeOK
<1>3. CASE Abandon
    BY <1>1, <1>2, <1>3, AbandonKeeps
<1>4. CASE ~Abandon
    <2>1. /\ f \in present /\ registered' = registered \cup {f} /\ givenUp' = givenUp \ {f}
          /\ todo' = todo \ {f} /\ reading' = f
          /\ UNCHANGED <<changed, events, overflow, doing, present>>
        BY <1>1, <1>4 DEF Register, queue
    <2>2. doing \notin {"idle", "forwarding"}
        BY <1>1 DEF Resting
    <2>3. WatchTypeOK' /\ Resting' /\ Told'
        BY <2>1, <2>2 DEF WatchTypeOK, Resting, Told, Alert
    <2>4. Covered'
        <3> SUFFICES ASSUME NEW h \in present, h \notin registered, h # f
                     PROVE  \E g \in Around[h] : g \in givenUp' \/ Awaited(g)'
            BY <2>1 DEF Covered
        <3>1. h \in Folders /\ Around[h] \subseteq Folders
            BY AroundUp DEF WatchTypeOK
        <3>2. PICK g \in Around[h] : g \in givenUp \/ Awaited(g)
            BY DEF Covered
        <3>3. CASE g = f
            <4>1. PICK d \in Around[h] : d # Root /\ Inside[d] = f
                BY <3>1, <3>2, <3>3, NextBelow
            <4> QED
                BY <2>1, <4>1 DEF Awaited
        <3>4. CASE g # f
            <4>1. ~(g # Root /\ Inside[g] = reading)
                BY <1>1, <3>1, <3>2, InsideIs, EventsApart
            <4> QED
                BY <2>1, <3>2, <3>4, <4>1 DEF Awaited, Queued
        <3> QED
            BY <3>3, <3>4
    <2> QED
        BY <2>3, <2>4
<1> QED
    BY <1>3, <1>4

LEMMA ListFolderKeeps == ASSUME WatchInv, ListFolder PROVE WatchInv'
<1> USE DEF WatchInv
<1>1. reading # NoFolder /\ UNCHANGED present
    BY DEF ListFolder
<1>2. CASE reading \notin present
    BY <1>1, <1>2, AbandonKeeps DEF ListFolder
<1>3. CASE reading \in present
    <2>1. /\ todo' = todo \cup (Within(reading) \cap present) /\ reading' = NoFolder
          /\ UNCHANGED <<present, changed, registered, events, overflow, doing, givenUp>>
        BY <1>1, <1>3 DEF ListFolder, queue
    <2>2. doing \notin {"idle", "forwarding"}
        BY <1>1 DEF Resting
    <2>3. WatchTypeOK' /\ Resting' /\ Told'
        BY <2>1, <2>2 DEF WatchTypeOK, Resting, Told, Alert, Within
    <2>4. Covered'
        <3> SUFFICES ASSUME NEW h \in present, h \notin registered
                     PROVE  \E g \in Around[h] : g \in givenUp' \/ Awaited(g)'
            BY <2>1 DEF Covered
        <3>1. PICK g \in Around[h] : g \in givenUp \/ Awaited(g)
            BY DEF Covered
        <3>2. g \in present /\ g \in Folders
            BY <3>1 DEF WatchTypeOK
        <3> QED
            BY <2>1, <3>1, <3>2 DEF Awaited, Within, Queued
    <2> QED
        BY <2>3, <2>4
<1> QED
    BY <1>2, <1>3

LEMMA EndWalkKeeps == ASSUME WatchInv, EndWalk PROVE WatchInv'
<1> USE DEF WatchInv
<1>1. /\ todo = {} /\ reading = NoFolder /\ doing' \in {"forwarding", "idle"}
      /\ UNCHANGED <<present, registered, events, overflow, todo, reading, givenUp>>
      /\ \/ doing' = "forwarding" /\ UNCHANGED changed
         \/ changed' = {}
    BY DEF EndWalk, queue
<1>2. WatchTypeOK' /\ Resting' /\ Told'
    BY <1>1 DEF WatchTypeOK, Resting, Told, Alert
<1>3. Covered'
    BY <1>1 DEF Covered, Awaited, Queued
<1> QED
    BY <1>2, <1>3

LEMMA HandleEventKeeps == ASSUME WatchInv, HandleEvent PROVE WatchInv'
<1> USE DEF WatchInv
<1>1. /\ doing = "idle" /\ events # <<>> /\ events' = Tail(events)
      /\ UNCHANGED <<present, changed, registered, overflow, reading, givenUp>>
      /\ todo = {} /\ reading = NoFolder
    BY DEF HandleEvent, Resting
<1> DEFINE e == Head(events)
<1>2. /\ events \in Seq(Folders \cup {NoFolder, Chmod}) /\ Len(events) \in Nat
      /\ e \in Folders \cup {NoFolder, Chmod} /\ e = events[1]
      /\ events' \in Seq(Folders \cup {NoFolder, Chmod}) /\ Len(events') = Len(events) - 1
      /\ \A n \in 1..Len(events') : events'[n] = events[n + 1]
    BY <1>1 DEF WatchTypeOK
<1>3. \A g : Queued(g) => g = e \/ Queued(g)'
    <2> SUFFICES ASSUME NEW n \in 1..Len(events), n # 1 PROVE \E m \in 1..Len(events') : events'[m] = events[n]
        BY <1>2 DEF Queued
    <2>1. n - 1 \in 1..Len(events') /\ events'[n - 1] = events[n]
        BY <1>2
    <2> QED
        BY <2>1
<1>4. \A n \in 1..Len(events) : events[n] # e => \E m \in 1..Len(events') : events'[m] = events[n]
    <2> SUFFICES ASSUME NEW n \in 1..Len(events), n # 1 PROVE \E m \in 1..Len(events') : events'[m] = events[n]
        BY <1>2
    <2>1. n - 1 \in 1..Len(events') /\ events'[n - 1] = events[n]
        BY <1>2
    <2> QED
        BY <2>1
<1>5. \/ e = Chmod /\ UNCHANGED <<doing, todo>>
      \/ e \in present /\ doing' = "walking" /\ todo' = {e}
      \/ e \notin present \cup {Chmod} /\ doing' = "forwarding" /\ UNCHANGED todo
    BY DEF HandleEvent
<1> HIDE DEF e
<1>6. Len(events') <= QueueLimit
    BY <1>2, WatchBounds DEF WatchTypeOK
<1>7. WatchTypeOK'
    BY <1>1, <1>2, <1>5, <1>6 DEF WatchTypeOK
<1>8. Resting'
    BY <1>1, <1>5 DEF Resting
<1>9. Covered'
    <2> SUFFICES ASSUME NEW h \in present, h \notin registered
                 PROVE  \E g \in Around[h] : g \in givenUp' \/ Awaited(g)'
        BY <1>1 DEF Covered
    <2>1. PICK g \in Around[h] : g \in givenUp \/ Awaited(g)
        BY DEF Covered
    <2>2. g \in present /\ g # Chmod
        BY <2>1, EventsApart DEF WatchTypeOK
    <2> QED
        BY <1>1, <1>3, <1>5, <2>1, <2>2 DEF Awaited
<1>10. Told'
    <2>1. Alert => Alert'
        BY <1>1, <1>2, <1>4, <1>5 DEF Alert
    <2> QED
        BY <1>1, <2>1 DEF Told, Forsaken
<1> QED
    BY <1>7, <1>8, <1>9, <1>10

LEMMA ForwardKeeps == ASSUME WatchInv, HandleError \/ ForwardEvent PROVE WatchInv'
<1> USE DEF WatchInv
<1>1. /\ UNCHANGED <<present, registered, events, todo, reading, givenUp>>
      /\ doing \in {"idle", "forwarding"} /\ doing' \in {"idle", "forwarding"}
      /\ overflow' \in BOOLEAN /\ (changed' = {} \/ (doing' = "forwarding" /\ UNCHANGED changed))
    BY DEF HandleError, ForwardEvent, queue, WatchTypeOK
<1>2. WatchTypeOK' /\ Resting' /\ Told'
    BY <1>1 DEF WatchTypeOK, Resting, Told, Alert
<1>3. Covered'
    BY <1>1 DEF Covered, Awaited, Queued
<1> QED
    BY <1>2, <1>3

LEMMA WatchStart == WatchInit => WatchInv
<1> SUFFICES ASSUME WatchInit PROVE WatchInv
    OBVIOUS
<1> USE DEF WatchInit
<1>1. <<>> \in Seq(Folders \cup {NoFolder, Chmod}) /\ Len(<<>>) <= QueueLimit
    BY WatchBounds
<1>2. WatchTypeOK
    BY <1>1, Tree DEF WatchTypeOK
<1>3. Covered
    BY <1>2, Rooted DEF WatchTypeOK, Covered, Awaited
<1> QED
    BY <1>2, <1>3 DEF WatchInv, Resting, Told

LEMMA WatchStep == WatchInv /\ [WatchNext]_watchVars => WatchInv'
<1> SUFFICES ASSUME WatchInv, [WatchNext]_watchVars PROVE WatchInv'
    OBVIOUS
<1>1. CASE UNCHANGED watchVars
    BY <1>1 DEF watchVars, queue, WatchInv, WatchTypeOK, Resting, Covered, Told, Alert,
                Forsaken,
                Awaited, Queued
<1>2. CASE WatchNext
    BY <1>2, EditFileKeeps, ChangeModeKeeps, AppearKeeps, VanishKeeps, RegisterKeeps,
       ListFolderKeeps, EndWalkKeeps, HandleEventKeeps, ForwardKeeps DEF WatchNext
<1> QED
    BY <1>1, <1>2

\* What the watcher keeps.
THEOREM WatchInvariance == WatchSpec => []WatchInv
    BY WatchStart, WatchStep, PTL DEF WatchSpec

\* NothingMissed: with nothing left to handle, every folder is watched and no
\* change is unheard of, but for the folders a walk or a full queue gave up.
THEOREM WatcherHearsAll == WatchSpec => []NothingMissed
<1>1. WatchInv => NothingMissed
    <2> SUFFICES ASSUME WatchInv, Settled, NEW f \in present
                 PROVE  Forsaken(f) \/ (f \in registered /\ f \notin changed)
        BY DEF NothingMissed
    <2>1. ~Alert
        BY DEF Settled, Alert
    <2> QED
        BY <2>1, Unregistered DEF WatchInv, Told
<1> QED
    BY <1>1, WatchInvariance, PTL
===============================================================================
