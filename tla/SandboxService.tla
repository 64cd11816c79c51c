--------------------------- MODULE SandboxService ---------------------------
(***************************************************************************)
(* internal/compute/service.go and reaper.go: the control plane of one     *)
(* server process over sandboxes that outlive it.                          *)
(*                                                                         *)
(* Requests run handlers concurrently with the reaper.  A handler takes    *)
(* the gate of its sandbox (module KeyedMutex, which Gate implements),     *)
(* reads the sandbox, decides, and then writes through the backend in one  *)
(* or several calls, each of which may fail.  The process may crash        *)
(* between any two of them; sandboxes stay, everything else is lost.       *)
(***************************************************************************)
EXTENDS Integers, FiniteSets

CONSTANTS
    Requests,       \* goroutines serving tool calls
    Reaper,         \* the goroutine of RunReaper
    Names,          \* sandbox names
    NoName,         \* not a name
    Guests,         \* instance names
    NoGuest,        \* not an instance name
    Subjects,       \* authenticated callers
    Nobody,         \* the empty subject; also the pinner of an unpinned sandbox
    PinIdentities,  \* sandbox.pin_identities of the configuration
    TTLs,           \* requested lifetimes; 0 asks for the default
    DefaultTTL,
    MaxTTL,
    NoBox,          \* ErrNotFound: the backend has no such sandbox
    NoCall,         \* the call of an idle goroutine
    MaxTime,        \* bound: the clock stops here
    MaxFailures,    \* bound: backend calls that fail
    MaxCrashes      \* bound: crashes of the server process

ASSUME ReaperIsApart == Reaper \notin Requests
ASSUME TTLRange == DefaultTTL \in 1..MaxTTL /\ TTLs \subseteq Int
ASSUME Operators == PinIdentities \subseteq Subjects /\ Nobody \notin Subjects
ASSUME Bounds == MaxTime \in Nat /\ MaxFailures \in Nat /\ MaxCrashes \in Nat
ASSUME NameIsApart == NoName \notin Names

VARIABLES
    now,            \* time.Now(), in ticks
    box,            \* what the backend stores for each sandbox
    guests,         \* the instances of each sandbox
    condemned,      \* history: an explicit delete has expired this sandbox
                    \* and no extend renewed it since
    wants, holds, cancelled,    \* the gate
    pc,             \* where each goroutine is in its handler
    call,           \* its request
    seen,           \* the sandbox it read under the gate
    stamp,          \* the time it read with it
    listed,         \* the reaper's snapshot: sandboxes not visited yet
    failures,       \* backend calls that failed so far
    crashes         \* crashes so far

store == <<box, guests, condemned>>
gate == <<wants, holds, cancelled>>
procs == <<pc, call, seen, stamp>>
bounds == <<failures, crashes>>
vars == <<now, store, gate, procs, listed, bounds>>

Procs == Requests \cup {Reaper}

Mutex == INSTANCE KeyedMutex WITH Callers <- Procs, Keys <- Names, NoKey <- NoName

-----------------------------------------------------------------------------
(* Sandboxes and calls.                                                      *)

\* by stands for Pinned, PinnedBy and PinnedAt: Nobody when not pinned.
Boxes == [expires : Nat, by : Subjects \cup {Nobody}]
ASSUME NoBoxIsApart == NoBox \notin Boxes
Pinned(b) == b.by # Nobody
Expired(b) == b.expires <= now
Live(b) == Pinned(b) \/ ~Expired(b)

\* Fault: an expired sandbox still serves mutations.
LiveIgnoringExpiry(b) == TRUE
LiveSandbox(b) == Live(b)

CanPin(s) == s \in PinIdentities

\* The lifetime a request gets: none when the request is refused.
ResolveTTL(ttl) ==
    LET t == IF ttl = 0 THEN DefaultTTL ELSE ttl
    IN  {t} \cap 1..MaxTTL

Ops == {"create", "extend", "pin", "delete", "begin"}
Calls == [op : Ops \cup {"reap"}, ttl : Nat, pinned : BOOLEAN,
          by : Subjects \cup {Nobody}, guest : Guests \cup {NoGuest}]

Request(op, ttl, pinned, s, g) ==
    [op |-> op, ttl |-> ttl, pinned |-> pinned, by |-> s, guest |-> g]

Lifetimes == UNION {ResolveTTL(t) : t \in TTLs}
Pinners == {s \in Subjects : CanPin(s)}

NoTTL == 0   \* the lifetime of a call that takes none

RequestsOf(ops, ttls, pins, bys, gs) ==
    [op : ops, ttl : ttls, pinned : pins, by : bys, guest : gs]

\* The requests that get past the checks made before the gate.  The subject is
\* kept only where it will be written; unpinning takes an operator too.
ValidRequests ==
    RequestsOf({"create", "extend"}, Lifetimes, {FALSE}, {Nobody}, {NoGuest})
    \cup RequestsOf({"create"}, Lifetimes, {TRUE}, Pinners, {NoGuest})
    \cup RequestsOf({"pin"}, {NoTTL}, {TRUE}, Pinners, {NoGuest})
    \cup {r \in RequestsOf({"pin"}, {NoTTL}, {FALSE}, {Nobody}, {NoGuest}) : Pinners # {}}
    \cup RequestsOf({"delete"}, {NoTTL}, {FALSE}, {Nobody}, {NoGuest})
    \cup RequestsOf({"begin"}, {NoTTL}, {FALSE}, {Nobody}, Guests)

Places == {"idle", "lock", "get", "write", "expire", "unpin", "notify", "remove",
           "loop"}

TypeOK ==
    /\ now \in 0..MaxTime
    /\ box \in [Names -> Boxes \cup {NoBox}]
    /\ guests \in [Names -> SUBSET Guests]
    /\ condemned \in [Names -> BOOLEAN]
    /\ wants \in [Procs -> Names \cup {NoName}]
    /\ holds \in [Procs -> Names \cup {NoName}]
    /\ cancelled \in [Procs -> BOOLEAN]
    /\ pc \in [Procs -> Places]
    /\ call \in [Procs -> Calls \cup {NoCall}]
    /\ seen \in [Procs -> Boxes \cup {NoBox}]
    /\ stamp \in [Procs -> 0..MaxTime]
    /\ listed \in [Names -> Boxes \cup {NoBox}]
    /\ failures \in 0..MaxFailures
    /\ crashes \in 0..MaxCrashes

ProcsAtStart ==
    /\ pc = [p \in Procs |-> "idle"]
    /\ call = [p \in Procs |-> NoCall]
    /\ seen = [p \in Procs |-> NoBox]
    /\ stamp = [p \in Procs |-> 0]
    /\ listed = [n \in Names |-> NoBox]

Init ==
    /\ now = 0
    /\ box = [n \in Names |-> NoBox]
    /\ guests = [n \in Names |-> {}]
    /\ condemned = [n \in Names |-> FALSE]
    /\ Mutex!Init
    /\ ProcsAtStart
    /\ failures = 0
    /\ crashes = 0

-----------------------------------------------------------------------------
(* The gate around every handler.                                            *)

\* A handler's step to place q with nothing else of it changed.
Goto(p, q) == pc' = [pc EXCEPT ![p] = q] /\ UNCHANGED <<call, seen, stamp, gate>>

Call(p, n, req) ==
    /\ pc[p] = "idle" /\ p # Reaper
    /\ Mutex!Request(p, n)
    /\ pc' = [pc EXCEPT ![p] = "lock"]
    /\ call' = [call EXCEPT ![p] = req]
    /\ UNCHANGED <<now, store, seen, stamp, listed, bounds>>

Forget(p) ==
    /\ pc' = [pc EXCEPT ![p] = IF p = Reaper THEN "loop" ELSE "idle"]
    /\ call' = [call EXCEPT ![p] = NoCall]
    /\ seen' = [seen EXCEPT ![p] = NoBox]
    /\ stamp' = [stamp EXCEPT ![p] = 0]

\* The deferred unlock: every return from a section releases the gate.
Return(p) == Mutex!Free(p) /\ Forget(p)

Cancel(p) ==
    /\ pc[p] = "lock" /\ p # Reaper
    /\ Mutex!Cancel(p)
    /\ UNCHANGED <<now, store, procs, listed, bounds>>

GiveUp(p) ==
    /\ pc[p] = "lock"
    /\ Mutex!GiveUp(p)
    /\ Forget(p)
    /\ UNCHANGED <<now, store, listed, bounds>>

\* Fault: the handler enters its section without waiting for the gate.
LockSkipped(p) ==
    /\ pc[p] = "lock"
    /\ holds' = [holds EXCEPT ![p] = wants[p]]
    /\ wants' = [wants EXCEPT ![p] = NoName]
    /\ pc' = [pc EXCEPT ![p] = "get"]
    /\ UNCHANGED <<now, store, cancelled, call, seen, stamp, listed, bounds>>

Lock(p) ==
    /\ pc[p] = "lock"
    /\ Mutex!Grant(p)
    /\ pc' = [pc EXCEPT ![p] = "get"]
    /\ UNCHANGED <<now, store, call, seen, stamp, listed, bounds>>

\* A backend call that fails; any call may, up to the bound.
Fails == failures < MaxFailures /\ failures' = failures + 1 /\ UNCHANGED crashes

-----------------------------------------------------------------------------
(* Sections.                                                                 *)

\* The early returns after the read: create wants the name free, the reaper an
\* expired sandbox, DeleteSandbox any, everything else a live one.
Refuses(op, b) ==
    CASE op = "create" -> b # NoBox
      [] op = "delete" -> b = NoBox
      [] op = "reap"   -> b = NoBox \/ Live(b)
      [] OTHER         -> b = NoBox \/ ~LiveSandbox(b)

\* Fault: the reaper acts on its snapshot and does not look again.
RefusesTrustingList(op, b) ==
    IF op = "reap" THEN FALSE
    ELSE CASE op = "create" -> b # NoBox
           [] op = "delete" -> b = NoBox
           [] OTHER         -> b = NoBox \/ ~LiveSandbox(b)

Decision(op, b) == Refuses(op, b)

FirstStep(op) ==
    CASE op = "delete" -> "expire"
      [] op = "reap"   -> "notify"
      [] OTHER         -> "write"

\* Fault: an early return that leaves the gate locked.
GetLeavingLocked(p) ==
    LET b == box[holds[p]] IN
    /\ pc[p] = "get"
    /\ IF Decision(call[p].op, b)
       THEN Forget(p) /\ UNCHANGED gate
       ELSE /\ pc' = [pc EXCEPT ![p] = FirstStep(call[p].op)]
            /\ seen' = [seen EXCEPT ![p] = b]
            /\ stamp' = [stamp EXCEPT ![p] = now]
            /\ UNCHANGED <<call, gate>>
    /\ UNCHANGED <<now, store, listed, bounds>>

\* GetSandbox under the gate and the checks on what it returned.
Get(p) ==
    LET b == box[holds[p]] IN
    /\ pc[p] = "get"
    /\ IF Decision(call[p].op, b)
       THEN Return(p)
       ELSE /\ pc' = [pc EXCEPT ![p] = FirstStep(call[p].op)]
            /\ seen' = [seen EXCEPT ![p] = b]
            /\ stamp' = [stamp EXCEPT ![p] = now]
            /\ UNCHANGED <<call, gate>>
    /\ UNCHANGED <<now, store, listed, bounds>>

SetBox(n, b) == box' = [box EXCEPT ![n] = b] /\ UNCHANGED guests

\* PinSandbox writes only when the pin changes: attribution is kept.
PinnedAs(was, b, r) ==
    IF Pinned(was) = r.pinned THEN b ELSE [b EXCEPT !.by = r.by]

\* The one backend write of create, extend, pin and BeginCreateInstance.  An
\* answer that is lost leaves the same state: the handler returns either way.
Write(p) ==
    LET n == holds[p]
        r == call[p]
    IN
    /\ pc[p] = "write"
    /\ CASE r.op = "create" -> SetBox(n, [expires |-> stamp[p] + r.ttl, by |-> r.by])
         [] r.op = "extend" -> SetBox(n, [box[n] EXCEPT !.expires = stamp[p] + r.ttl])
         [] r.op = "pin"    -> SetBox(n, PinnedAs(seen[p], box[n], r))
         [] r.op = "begin"  -> /\ guests' = [guests EXCEPT ![n] = @ \cup {r.guest}]
                               /\ UNCHANGED box
    /\ condemned' = [condemned EXCEPT ![n] = @ /\ r.op # "extend"]
    /\ Return(p)
    /\ UNCHANGED <<now, listed, bounds>>

\* DeleteSandbox: expire, clear the pin, tell the desktop, tear down.
Expire(p) ==
    LET n == holds[p] IN
    /\ pc[p] = "expire"
    /\ box' = [box EXCEPT ![n].expires = stamp[p]]
    /\ condemned' = [condemned EXCEPT ![n] = TRUE]
    /\ UNCHANGED guests
    /\ Goto(p, IF Pinned(seen[p]) THEN "unpin" ELSE "notify")
    /\ UNCHANGED <<now, listed, bounds>>

Unpin(p) ==
    /\ pc[p] = "unpin"
    /\ SetBox(holds[p], [box[holds[p]] EXCEPT !.by = Nobody])
    /\ Goto(p, "notify")
    /\ UNCHANGED <<now, condemned, listed, bounds>>

\* OnSandboxExpired: the desktop drops what it keeps for the sandbox.
Notify(p) ==
    /\ pc[p] = "notify"
    /\ Goto(p, "remove")
    /\ UNCHANGED <<now, store, listed, bounds>>

Remove(p) ==
    LET n == holds[p] IN
    /\ pc[p] = "remove"
    /\ box' = [box EXCEPT ![n] = NoBox]
    /\ guests' = [guests EXCEPT ![n] = {}]
    /\ condemned' = [condemned EXCEPT ![n] = FALSE]
    /\ Return(p)
    /\ UNCHANGED <<now, listed, bounds>>

\* A backend call of a section fails, and so does the handler.
Fail(p) ==
    LET n == holds[p] IN
    /\ pc[p] \in {"get", "write", "expire", "unpin", "remove"}
    /\ Fails
    /\ Return(p)
    /\ CASE pc[p] = "expire" ->      \* refused, or written and the answer lost
              \/ UNCHANGED store
              \/ /\ box' = [box EXCEPT ![n].expires = stamp[p]]
                 /\ condemned' = [condemned EXCEPT ![n] = TRUE]
                 /\ UNCHANGED guests
         [] pc[p] = "unpin" ->
              \/ UNCHANGED store
              \/ SetBox(n, [box[n] EXCEPT !.by = Nobody]) /\ UNCHANGED condemned
         [] pc[p] = "remove" ->      \* some guests gone, the sandbox still there
              /\ \E left \in SUBSET guests[n] : guests' = [guests EXCEPT ![n] = left]
              /\ UNCHANGED <<box, condemned>>
         [] OTHER -> UNCHANGED store
    /\ UNCHANGED <<now, listed>>

-----------------------------------------------------------------------------
(* The reaper.                                                               *)

\* Fault: the scan runs at startup only.
ScanOnce ==
    /\ pc[Reaper] = "idle" /\ now = 0
    /\ listed' = box
    /\ pc' = [pc EXCEPT ![Reaper] = "loop"]
    /\ UNCHANGED <<now, store, gate, call, seen, stamp, bounds>>

\* Reap lists the sandboxes without any gate.
Scan ==
    /\ pc[Reaper] = "idle"
    /\ listed' = box
    /\ pc' = [pc EXCEPT ![Reaper] = "loop"]
    /\ UNCHANGED <<now, store, gate, call, seen, stamp, bounds>>

\* Each listed sandbox in turn: skip it, or wait for its gate.
Visit(n) ==
    /\ pc[Reaper] = "loop"
    /\ listed[n] # NoBox
    /\ listed' = [listed EXCEPT ![n] = NoBox]
    /\ IF Live(listed[n])
       THEN UNCHANGED <<gate, pc, call>>
       ELSE /\ Mutex!Request(Reaper, n)
            /\ pc' = [pc EXCEPT ![Reaper] = "lock"]
            /\ call' = [call EXCEPT ![Reaper] = Request("reap", NoTTL, FALSE, Nobody, NoGuest)]
    /\ UNCHANGED <<now, store, seen, stamp, bounds>>

EndScan ==
    /\ pc[Reaper] = "loop"
    /\ \A n \in Names : listed[n] = NoBox
    /\ Goto(Reaper, "idle")
    /\ UNCHANGED <<now, store, listed, bounds>>

-----------------------------------------------------------------------------
Tick ==
    /\ now < MaxTime
    /\ now' = now + 1
    /\ UNCHANGED <<store, gate, procs, listed, bounds>>

\* The process dies and is started again: the gate and every call are gone.
Crash ==
    /\ crashes < MaxCrashes
    /\ crashes' = crashes + 1
    /\ wants' = [p \in Procs |-> NoName]
    /\ holds' = [p \in Procs |-> NoName]
    /\ cancelled' = [p \in Procs |-> FALSE]
    /\ pc' = [p \in Procs |-> "idle"]
    /\ call' = [p \in Procs |-> NoCall]
    /\ seen' = [p \in Procs |-> NoBox]
    /\ stamp' = [p \in Procs |-> 0]
    /\ listed' = [n \in Names |-> NoBox]
    /\ UNCHANGED <<now, store, failures>>

Section(p) ==
    Get(p) \/ Write(p) \/ Expire(p) \/ Unpin(p) \/ Notify(p) \/ Remove(p) \/ Fail(p)

Reap == Scan \/ (\E n \in Names : Visit(n)) \/ EndScan

Next ==
    \/ \E p \in Requests, n \in Names, req \in ValidRequests : Call(p, n, req)
    \/ \E p \in Procs : Cancel(p) \/ GiveUp(p) \/ Lock(p) \/ Section(p)
    \/ Reap
    \/ Tick
    \/ Crash

Spec == Init /\ [][Next]_vars

\* A handler that has the gate runs on, the gate serves its waiters (LockReturns
\* of module Gate) and the reaper's ticker fires.  Nothing obliges a client to
\* call, a call to fail, time to pass or the process to crash.
Fairness ==
    /\ \A p \in Procs : WF_vars(Section(p)) /\ SF_vars(Lock(p))
    /\ WF_vars(Reap)

LiveSpec == Spec /\ Fairness

-----------------------------------------------------------------------------
(* Safety.                                                                   *)

\* What a handler read and decided under the gate is still true when its write
\* lands: no other handler and no reaper got in between (the checks of
\* withLiveSandbox, createNamedSandbox and reapSandbox cannot go stale).
DecidesOnCurrentState ==
    \A p \in Procs :
        pc[p] \in {"write", "expire"} \/ (call[p] # NoCall /\ call[p].op = "reap" /\ pc[p] = "notify")
            => seen[p] = box[holds[p]]

\* A sandbox disappears only when it is expired and not pinned, whoever removes
\* it and whatever happened since it was listed (reaper.go:61-92).
OnlyExpiredUnpinnedRemoved ==
    [][\A n \in Names : box[n] # NoBox /\ box'[n] = NoBox =>
            Expired(box[n]) /\ ~Pinned(box[n])]_vars

\* Who pinned a sandbox does not change while it stays pinned
\* (service.go: "Repeated pins preserve attribution").
AttributionKept ==
    [][\A n \in Names :
        /\ box[n] # NoBox /\ Pinned(box[n])
        /\ box'[n] # NoBox /\ Pinned(box'[n])
        => box'[n].by = box[n].by]_vars

\* Once an explicit delete has expired and unpinned a sandbox it only shrinks:
\* no extend or pin revives it and no guest is added, whichever of the delete's
\* later calls fail and whether or not the process survives.
CondemnedOnlyShrinks ==
    [][\A n \in Names :
        condemned[n] /\ box[n] # NoBox /\ ~Pinned(box[n]) =>
            /\ guests'[n] \subseteq guests[n]
            /\ box'[n] # NoBox => box'[n].expires <= now' /\ ~Pinned(box'[n])]_vars

-----------------------------------------------------------------------------
(* Liveness.                                                                 *)

\* An expired, unpinned sandbox is removed, or a handler that had found it
\* live before still renews it; a failed removal is retried by later scans.
ExpiredIsReaped ==
    \A n \in Names :
        box[n] # NoBox /\ ~Live(box[n]) ~> (box[n] = NoBox \/ Live(box[n]))

\* Every call returns: no early return keeps the gate.
CallsReturn == \A p \in Requests : pc[p] # "idle" ~> pc[p] = "idle"

\* service.go, above DeleteSandbox: "a partial failure is retried by the
\* reaper", whichever of the delete's backend calls failed.
PartialDeleteIsRetried ==
    \A n \in Names : condemned[n] ~> box[n] = NoBox
=============================================================================
