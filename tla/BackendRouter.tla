--------------------------- MODULE BackendRouter ---------------------------
(***************************************************************************)
(* The service on two backends, Incus and the Mac host: internal/compute/  *)
(* router.go finds a sandbox by asking the one and then the other, for     *)
(* every call of a handler again, and keeps nothing.  Handlers hold the    *)
(* name's gate, here an owner; a backend may be away at any time, and a    *)
(* call to it fails then.  Pins and crashes are SandboxService's.          *)
(***************************************************************************)
EXTENDS Naturals

CONSTANTS BoxNames, Clients, Scanner, NoOwner

ASSUME Distinct == Scanner \notin Clients /\ NoOwner \notin Clients \cup {Scanner}

VARIABLES
    home,       \* what each backend holds under each name
    reachable,  \* the backends that answer
    owner,      \* of each name's gate
    task,       \* what each client, and the reaper, is doing
    listing     \* the reaper's list: "nothing", the half of Incus, or all of it

routerVars == <<home, reachable, owner, task, listing>>

Backends == {"incus", "mac"}
Actors == Clients \cup {Scanner}
RouterCalls == {"get", "create", "change", "expire", "remove"}
NoTask == [op |-> "none"]
Tasks ==
    {NoTask} \cup
    [op : {"create", "change", "delete", "reap"}, name : BoxNames, platform : Backends,
     step : RouterCalls, at : {"incus", "mac", "act"}, read : Backends \cup {"none"},
     target : Backends \cup {"none"}]

RouterTypeOK ==
    /\ home \in [Backends -> [BoxNames -> {"none", "live", "expired"}]]
    /\ reachable \subseteq Backends
    /\ owner \in [BoxNames -> Actors \cup {NoOwner}]
    /\ task \in [Actors -> Tasks]
    /\ listing \in [all : BOOLEAN, half : BOOLEAN, names : SUBSET BoxNames]

NothingFound == [all |-> FALSE, half |-> FALSE, names |-> {}]

RouterStart ==
    /\ home = [b \in Backends |-> [n \in BoxNames |-> "none"]]
    /\ reachable = Backends
    /\ owner = [n \in BoxNames |-> NoOwner]
    /\ task = [a \in Actors |-> NoTask]
    /\ listing = NothingFound

-----------------------------------------------------------------------------
\* The call of the moment is made by the step, looked up at Incus first.
LookUpFor(t, step) == [t EXCEPT !.step = step, !.at = "incus", !.target = "none"]

Hold(a, t) ==
    /\ task[a] = NoTask /\ owner[t.name] = NoOwner
    /\ owner' = [owner EXCEPT ![t.name] = a]
    /\ task' = [task EXCEPT ![a] = t]

\* The handler answers, with an error or without, and leaves the gate.
Answer(a) ==
    /\ task' = [task EXCEPT ![a] = NoTask]
    /\ owner' = [owner EXCEPT ![task[a].name] = NoOwner]

Proceed(a, t) == task' = [task EXCEPT ![a] = t] /\ UNCHANGED owner

NewTask(op, n, b) ==
    [op |-> op, name |-> n, platform |-> b, step |-> "get", at |-> "incus",
     read |-> "none", target |-> "none"]

Request(c) ==
    /\ \E op \in {"create", "change", "delete"}, n \in BoxNames, b \in Backends :
          Hold(c, NewTask(op, n, b))
    /\ UNCHANGED <<home, reachable, listing>>

\* The sandbox is in backend b, and GetSandbox or the router has it.
Found(a, b) ==
    LET t == task[a] IN
    IF t.step # "get" THEN Proceed(a, [t EXCEPT !.at = "act", !.target = b])
    ELSE LET On(step) == Proceed(a, LookUpFor([t EXCEPT !.read = b], step)) IN
         CASE t.op = "change" /\ home[b][t.name] = "live" -> On("change")
           [] t.op = "delete" -> On("expire")
           [] t.op = "reap" /\ home[b][t.name] = "expired" -> On("remove")
           [] OTHER -> Answer(a)

\* Neither backend has it.
Missing(a) ==
    LET t == task[a] IN
    IF t.step = "get" /\ t.op = "create"
    THEN Proceed(a, [t EXCEPT !.step = "create", !.at = "act", !.target = t.platform])
    ELSE Answer(a)

\* Fault: any error of Incus is taken for "not found".
LookupPastErrors(a) ==
    LET t == task[a] IN
    /\ t # NoTask /\ t.at \in Backends
    /\ IF t.at \in reachable /\ home[t.at][t.name] # "none" THEN Found(a, t.at)
       ELSE IF t.at = "incus" THEN Proceed(a, [t EXCEPT !.at = "mac"])
       ELSE Missing(a)
    /\ UNCHANGED <<home, reachable, listing>>

\* router.lookup, one of its calls.
Lookup(a) ==
    LET t == task[a] IN
    /\ t # NoTask /\ t.at \in Backends
    /\ IF t.at \notin reachable THEN Answer(a)
       ELSE IF home[t.at][t.name] # "none" THEN Found(a, t.at)
       ELSE IF t.at = "incus" THEN Proceed(a, [t EXCEPT !.at = "mac"])
       ELSE Missing(a)
    /\ UNCHANGED <<home, reachable, listing>>

Becomes(t, state) == home' = [home EXCEPT ![t.target][t.name] = state]

\* The call itself, at the backend that was looked up or, for a creation, chosen.
Act(a) ==
    LET t == task[a] IN
    /\ t # NoTask /\ t.at = "act"
    /\ IF t.target \notin reachable THEN Answer(a) /\ UNCHANGED home
       ELSE CASE t.step = "create" -> Becomes(t, "live") /\ Answer(a)
              [] t.step = "change" -> Becomes(t, "live") /\ Answer(a)
              [] t.step = "expire" -> Becomes(t, "expired") /\ Proceed(a, LookUpFor(t, "remove"))
              [] t.step = "remove" -> Becomes(t, "none") /\ Answer(a)
    /\ UNCHANGED <<reachable, listing>>

-----------------------------------------------------------------------------
\* ListSandboxes: of one backend, then of the other, or none at all.  Reap skips
\* what the list says is live; that a second check under the gate decides is all
\* there is here.
Listed(b) == {n \in BoxNames : home[b][n] # "none"}

ListIncus ==
    /\ task[Scanner] = NoTask /\ ~listing.half /\ "incus" \in reachable
    /\ listing' = [NothingFound EXCEPT !.half = TRUE, !.names = Listed("incus")]
    /\ UNCHANGED <<home, reachable, owner, task>>

ListMac ==
    /\ listing.half /\ ~listing.all
    /\ listing' = IF "mac" \in reachable
                THEN [listing EXCEPT !.all = TRUE, !.names = @ \cup Listed("mac")]
                ELSE NothingFound
    /\ UNCHANGED <<home, reachable, owner, task>>

Visit(n) ==
    /\ listing.all /\ n \in listing.names
    /\ Hold(Scanner, NewTask("reap", n, "incus"))
    /\ listing' = [listing EXCEPT !.names = @ \ {n}]
    /\ UNCHANGED <<home, reachable>>

EndOfScan ==
    /\ task[Scanner] = NoTask /\ listing.all /\ listing.names = {}
    /\ listing' = NothingFound
    /\ UNCHANGED <<home, reachable, owner, task>>

-----------------------------------------------------------------------------
TimePasses ==
    /\ \E b \in Backends, n \in BoxNames :
          home[b][n] = "live" /\ home' = [home EXCEPT ![b][n] = "expired"]
    /\ UNCHANGED <<reachable, owner, task, listing>>

Outage ==
    /\ \E b \in reachable : reachable' = reachable \ {b}
    /\ UNCHANGED <<home, owner, task, listing>>

Recovery ==
    /\ \E b \in Backends \ reachable : reachable' = reachable \cup {b}
    /\ UNCHANGED <<home, owner, task, listing>>

RouterStep ==
    \/ \E c \in Clients : Request(c)
    \/ \E a \in Actors : Lookup(a) \/ Act(a)
    \/ ListIncus \/ ListMac \/ (\E n \in BoxNames : Visit(n)) \/ EndOfScan
    \/ TimePasses \/ Outage \/ Recovery

\* Calls end, and the reaper ticks; nothing is assumed of clients and backends.
RouterFairness ==
    /\ \A a \in Actors : WF_routerVars(Lookup(a)) /\ WF_routerVars(Act(a))
    /\ WF_routerVars(ListIncus) /\ WF_routerVars(ListMac) /\ WF_routerVars(EndOfScan)
    /\ \A n \in BoxNames : SF_routerVars(Visit(n))

RouterSpec == RouterStart /\ [][RouterStep]_routerVars /\ RouterFairness

-----------------------------------------------------------------------------
\* "List and create uniqueness span both backends": no name is in both, whatever
\* was away when it was created; and what a handler changes under the gate is in
\* the backend it read from, though every call looks it up again.
OneHome ==
    /\ \A n \in BoxNames : home["incus"][n] = "none" \/ home["mac"][n] = "none"
    /\ \A a \in Actors :
          LET t == task[a] IN
          (t # NoTask /\ t.at = "act" /\ t.step # "create") => t.target = t.read

\* README.md: the reaper retries expired sandboxes when their backend becomes
\* available, that is, an expired sandbox of a backend that stays is removed.
ReapedWhenAvailable ==
    \A b \in Backends, n \in BoxNames :
        (<>[](b \in reachable)) => (home[b][n] = "expired" ~> home[b][n] # "expired")
=============================================================================
