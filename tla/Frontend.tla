------------------------------ MODULE Frontend ------------------------------
(***************************************************************************)
(* tools/proxy/internal/downstream: the tool set the dev proxy shows its   *)
(* clients, and the gate that refuses calls made on an outdated view.      *)
(*                                                                         *)
(* Requests of a session run as goroutines.  f.mu guards the generations;  *)
(* a Reconcile holds it while it changes the SDK server's tools one by     *)
(* one, but the SDK answers tools/list under a lock of its own, so a list  *)
(* may see half of a Reconcile.                                            *)
(***************************************************************************)
EXTENDS Integers

CONSTANTS
    Clients,        \* downstream session objects
    Requests,       \* request goroutines
    ToolNames,
    Shapes,         \* fingerprints of definitions
    NotServed,      \* no definition
    NoClient,
    ToolSets,       \* the sets children serve
    MaxReconciles   \* bound: generations

ASSUME NoDefinition == NotServed \notin Shapes
ASSUME SetsOfTools == ToolSets \subseteq [ToolNames -> Shapes \cup {NotServed}]
ASSUME NobodysSession == NoClient \notin Clients

Sets == [ToolNames -> Shapes \cup {NotServed}]
NothingServed == [t \in ToolNames |-> NotServed]

VARIABLES
    served,         \* the diff baseline; also what the SDK server serves
    goal,           \* the set the Reconcile in progress makes of it
    reconciling,    \* a Reconcile holds f.mu
    gen, toolGen, tombstones, sessionGen,   \* 0 when absent
    connected,      \* the SDK server's sessions
    stage,          \* each request: "idle", a list "observed" or "listed", or a call
                    \* that "passed" the gate
    session,        \* the session it belongs to
    observed,       \* gen as read before the list ran
    answer,         \* what the list returned
    view            \* history: the list answer each session learnt most from

toolSet == <<served, goal, reconciling, gen, toolGen, tombstones>>
requests == <<stage, session, observed, answer>>
frontendVars == <<toolSet, sessionGen, connected, requests, view>>

FrontendTypeOK ==
    /\ served \in Sets /\ goal \in Sets /\ reconciling \in BOOLEAN
    /\ gen \in 0..MaxReconciles
    /\ toolGen \in [ToolNames -> 0..gen]
    /\ tombstones \in [ToolNames -> 0..gen]
    /\ sessionGen \in [Clients -> 0..gen]
    /\ connected \subseteq Clients
    /\ stage \in [Requests -> {"idle", "observed", "listed", "passed"}]
    /\ session \in [Requests -> Clients \cup {NoClient}]
    /\ observed \in [Requests -> 0..gen]
    /\ answer \in [Requests -> Sets]
    /\ view \in [Clients -> Sets]

\* New.
FrontendInit ==
    /\ served = NothingServed /\ goal = NothingServed /\ reconciling = FALSE
    /\ gen = 0
    /\ toolGen = [t \in ToolNames |-> 0] /\ tombstones = [t \in ToolNames |-> 0]
    /\ sessionGen = [s \in Clients |-> 0]
    /\ connected = {}
    /\ stage = [r \in Requests |-> "idle"]
    /\ session = [r \in Requests |-> NoClient]
    /\ observed = [r \in Requests |-> 0]
    /\ answer = [r \in Requests |-> NothingServed]
    /\ view = [s \in Clients |-> NothingServed]

-----------------------------------------------------------------------------
(* Sessions.                                                                 *)

\* A session object is new: nothing refers to it any more.
Connect(s) ==
    /\ s \notin connected /\ sessionGen[s] = 0 /\ \A r \in Requests : session[r] # s
    /\ connected' = connected \cup {s}
    /\ view' = [view EXCEPT ![s] = NothingServed]
    /\ UNCHANGED <<toolSet, sessionGen, requests>>

\* Its requests may still be running, and still record what they observed.
Disconnect(s) ==
    /\ s \in connected
    /\ connected' = connected \ {s}
    /\ UNCHANGED <<toolSet, sessionGen, requests, view>>

-----------------------------------------------------------------------------
(* Reconcile, called by the reload loop alone.                               *)

Changed == {t \in ToolNames : goal[t] # NotServed /\ served[t] # goal[t]}

Buried(removed) == [t \in ToolNames |-> IF t \in removed THEN gen + 1 ELSE tombstones[t]]

\* A set that differs: the generation moves and the removed names go at once.
BeginReconcile(tools) ==
    LET removed == {t \in ToolNames : served[t] # NotServed /\ tools[t] = NotServed} IN
    /\ ~reconciling /\ tools # served
    /\ gen < MaxReconciles
    /\ reconciling' = TRUE
    /\ goal' = tools
    /\ gen' = gen + 1
    /\ served' = [t \in ToolNames |-> IF t \in removed THEN NotServed ELSE served[t]]
    /\ toolGen' = [t \in ToolNames |-> IF t \in removed THEN 0 ELSE toolGen[t]]
    /\ tombstones' = Buried(removed)
    /\ UNCHANGED <<sessionGen, connected, requests, view>>

AddTool(t) ==
    /\ reconciling /\ t \in Changed
    /\ served' = [served EXCEPT ![t] = goal[t]]
    /\ toolGen' = [toolGen EXCEPT ![t] = gen]
    /\ tombstones' = [tombstones EXCEPT ![t] = 0]
    /\ UNCHANGED <<goal, reconciling, gen, sessionGen, connected, requests, view>>

\* pruneSessionsLocked, and f.mu is released.
EndReconcile ==
    /\ reconciling /\ Changed = {}
    /\ reconciling' = FALSE
    /\ sessionGen' = [s \in Clients |-> IF s \in connected THEN sessionGen[s] ELSE 0]
    /\ UNCHANGED <<served, goal, gen, toolGen, tombstones, connected, requests, view>>

-----------------------------------------------------------------------------
(* tools/list.                                                               *)

\* recordListGeneration reads the clock first ...
Observe(r, s) ==
    /\ stage[r] = "idle" /\ s \in connected /\ ~reconciling
    /\ stage' = [stage EXCEPT ![r] = "observed"]
    /\ session' = [session EXCEPT ![r] = s]
    /\ observed' = [observed EXCEPT ![r] = gen]
    /\ UNCHANGED <<toolSet, sessionGen, connected, answer, view>>

\* ... the SDK lists, whatever a Reconcile is doing ...
List(r) ==
    /\ stage[r] = "observed"
    /\ stage' = [stage EXCEPT ![r] = "listed"]
    /\ answer' = [answer EXCEPT ![r] = served]
    /\ UNCHANGED <<toolSet, sessionGen, connected, session, observed, view>>

Return(r) ==
    /\ stage' = [stage EXCEPT ![r] = "idle"]
    /\ session' = [session EXCEPT ![r] = NoClient]
    /\ observed' = [observed EXCEPT ![r] = 0]
    /\ answer' = [answer EXCEPT ![r] = NothingServed]

ListFails(r) ==
    /\ stage[r] = "observed"
    /\ Return(r)
    /\ UNCHANGED <<toolSet, sessionGen, connected, view>>

\* Fault: what is recorded is the clock at the end of the list.
ObservedAtEnd(r) == gen

ObservedBy(r) == observed[r]

\* Fault: the last list to end decides, also for what a later one has seen.
MaxGenLast(r) == ObservedBy(r)

\* ... and what it had observed is recorded, unless the session knows better.
MaxGen(r) ==
    IF ObservedBy(r) > sessionGen[session[r]] THEN ObservedBy(r) ELSE sessionGen[session[r]]

Record(r) ==
    LET s == session[r] IN
    /\ stage[r] = "listed" /\ ~reconciling
    /\ sessionGen' = [sessionGen EXCEPT ![s] = MaxGen(r)]
    /\ view' = IF observed[r] >= sessionGen[s] THEN [view EXCEPT ![s] = answer[r]] ELSE view
    /\ Return(r)
    /\ UNCHANGED <<toolSet, connected>>

-----------------------------------------------------------------------------
(* tools/call.                                                               *)

Stale(s, t) == tombstones[t] > sessionGen[s] \/ toolGen[t] > sessionGen[s]

\* gateStaleCall.  A stale call is answered with the stale-reload result, which
\* changes nothing.
PassGate(r, s, t) ==
    /\ stage[r] = "idle" /\ s \in connected /\ ~reconciling
    /\ ~Stale(s, t)
    /\ stage' = [stage EXCEPT ![r] = "passed"]
    /\ session' = [session EXCEPT ![r] = s]
    /\ UNCHANGED <<toolSet, sessionGen, connected, observed, answer, view>>

\* The SDK calls the tool's handler, or answers that there is none.
Forward(r) ==
    /\ stage[r] = "passed"
    /\ Return(r)
    /\ UNCHANGED <<toolSet, sessionGen, connected, view>>

-----------------------------------------------------------------------------
FrontendNext ==
    \/ \E s \in Clients : Connect(s) \/ Disconnect(s)
    \/ \E tools \in ToolSets : BeginReconcile(tools)
    \/ \E t \in ToolNames : AddTool(t)
    \/ EndReconcile
    \/ \E r \in Requests :
        \/ \E s \in Clients : Observe(r, s) \/ \E t \in ToolNames : PassGate(r, s, t)
        \/ List(r) \/ ListFails(r) \/ Record(r) \/ Forward(r)

FrontendSpec == FrontendInit /\ [][FrontendNext]_frontendVars

-----------------------------------------------------------------------------
\* A call passes the gate only on the definition its session knows: what is not
\* stale for a session is served as, or is gone as, in the list answer the session
\* learnt most from, however lists, calls and Reconciles interleaved ("never
\* a silent dispatch of old-shape arguments", downstream.go:308).  It speaks of the
\* gate alone: a call that has passed it may be overtaken before the router.
NeverBlind ==
    \A s \in connected, t \in ToolNames : ~Stale(s, t) => view[s][t] = served[t]

\* The gate clears itself: a list that ran without a Reconcile beside it leaves
\* nothing stale for its session, removed names included, so an agent told to
\* list again is not told so twice; and what a session has learnt it does not
\* lose to a slower list.
RelistSuffices ==
    [][\A r \in Requests, s \in Clients :
        stage[r] = "listed" /\ session[r] = s /\ stage'[r] = "idle" =>
            /\ observed[r] = gen => \A t \in ToolNames : ~Stale(s, t)'
            /\ \A t \in ToolNames : ~Stale(s, t) => ~Stale(s, t)']_frontendVars
=============================================================================
