------------------------------ MODULE Desktop ------------------------------
(***************************************************************************)
(* The transient desktop state kept beside the sandboxes: the store of     *)
(* published screenshots (store.go) and the driver's cached Windows MCP    *)
(* sessions with its queue of guest files to remove (driver.go,            *)
(* windows.go).  Tool calls use them without the sandbox's gate, while the *)
(* sandbox is deleted or reaped under it, and until the process closes     *)
(* them.  A sandbox has one instance here, with a Windows guest.           *)
(***************************************************************************)
EXTENDS Naturals, FiniteSets

CONSTANTS
    Names,          \* sandboxes, by name
    NoBox,
    NoName,
    Calls,          \* desktop tool calls in flight
    Sessions,       \* Windows MCP sessions over an exec stream
    NoSession,
    Ids,            \* random screenshot identifiers
    NoImage,
    Capacity,       \* maxStoreBytes, in images of the largest size
    Retention,      \* screenshotRetention, in ticks
    QueueSize,      \* guestCleanupQueueSize
    MaxTime         \* bound: ticks

VARIABLES
    now,
    box,            \* the sandbox of a name: its deadline and its pin
    removal,        \* how far a deletion or reap of it has come
    images,         \* Store.images
    cache,          \* Driver.sessions, by sandbox
    open,           \* sessions whose stream is not closed
    guest,          \* the sandbox whose guest a stream still reaches
    pc, target,     \* a call: its place and its sandbox
    sess,           \* the session it uses
    deadline,       \* the expiry ReadBinaryFile returned to it
    queue,          \* Driver.cleanup: files waiting for the worker
    runtime         \* the process: up, draining (Driver.closed), closed

store == <<images>>
driver == <<cache, open, guest>>
caller == <<pc, target, sess, deadline>>
desktopVars ==
    <<now, box, removal, images, cache, open, guest, pc, target, sess, deadline, queue, runtime>>

Never == MaxTime + Retention        \* later than any image is kept: no deadline
Boxes == [expires : 0..MaxTime + 1, pinned : BOOLEAN]
Images == [of : Names, expires : 0..Never]

ASSUME BoundsAssumption ==
    /\ Capacity \in Nat /\ QueueSize \in Nat
    /\ Retention \in Nat \ {0}
    /\ MaxTime \in Nat
    /\ IsFiniteSet(Ids)
ASSUME SentinelsAssumption ==
    /\ NoBox \notin Boxes /\ NoName \notin Names
    /\ NoSession \notin Sessions /\ NoImage \notin Images

CallPlaces == {"idle", "expiry", "lookup", "dial", "open", "keep", "call",
           "read", "pull", "publish", "cleanup"}

\* SandboxExpiry: a pinned sandbox has no deadline.
Live(n) == box[n] # NoBox /\ (box[n].pinned \/ box[n].expires > now)
Expiry(n) == IF box[n].pinned THEN Never ELSE box[n].expires

Stored == {i \in Ids : images[i] # NoImage}
Cached == {cache[n] : n \in Names} \ {NoSession}
Dialled == {sess[c] : c \in {d \in Calls : pc[d] = "keep"}}
Free == {s \in Sessions \ open : \A c \in Calls : sess[c] # s}

DesktopTypeOK ==
    /\ now \in 0..MaxTime
    /\ box \in [Names -> Boxes \cup {NoBox}]
    /\ removal \in [Names -> {"none", "purge", "close", "teardown"}]
    /\ images \in [Ids -> Images \cup {NoImage}]
    /\ Cardinality(Stored) <= Capacity
    /\ cache \in [Names -> Sessions \cup {NoSession}]
    /\ open \subseteq Sessions
    /\ guest \in [Sessions -> Names \cup {NoName}]
    /\ pc \in [Calls -> CallPlaces]
    /\ target \in [Calls -> Names \cup {NoName}]
    /\ sess \in [Calls -> Sessions \cup {NoSession}]
    /\ deadline \in [Calls -> 0..Never]
    /\ queue \in 0..QueueSize
    /\ runtime \in {"up", "draining", "closed"}

DesktopInit ==
    /\ now = 0
    /\ box = [n \in Names |-> NoBox]
    /\ removal = [n \in Names |-> "none"]
    /\ images = [i \in Ids |-> NoImage]
    /\ cache = [n \in Names |-> NoSession]
    /\ open = {}
    /\ guest = [s \in Sessions |-> NoName]
    /\ pc = [c \in Calls |-> "idle"]
    /\ target = [c \in Calls |-> NoName]
    /\ sess = [c \in Calls |-> NoSession]
    /\ deadline = [c \in Calls |-> 0]
    /\ queue = 0
    /\ runtime = "up"

-----------------------------------------------------------------------------
(* Sandboxes: their mutations exclude each other per name (module Gate).     *)

Tick ==
    /\ now < MaxTime
    /\ now' = now + 1
    /\ UNCHANGED <<box, removal, store, driver, caller, queue, runtime>>

\* sandbox.create, sandbox.extend and sandbox.pin: an operator's sandbox may be
\* pinned, and unpinning may leave it expired.
Mutate(n) ==
    /\ removal[n] = "none"
    /\ \/ /\ box[n] = NoBox
          /\ \E pinned \in BOOLEAN : box' = [box EXCEPT ![n] = [expires |-> now + 1, pinned |-> pinned]]
       \/ /\ Live(n)
          /\ \/ box' = [box EXCEPT ![n].expires = now + 1]
             \/ box' = [box EXCEPT ![n].pinned = ~@]
    /\ UNCHANGED <<now, removal, store, driver, caller, queue, runtime>>

\* DeleteSandbox expires and unpins; the reaper finds it expired and not pinned.
Remove(n) ==
    /\ removal[n] = "none" /\ box[n] # NoBox
    /\ \/ box' = [box EXCEPT ![n] = [expires |-> now, pinned |-> FALSE]]
       \/ ~Live(n) /\ UNCHANGED box
    /\ removal' = [removal EXCEPT ![n] = "purge"]
    /\ UNCHANGED <<now, store, driver, caller, queue, runtime>>

\* OnSandboxExpired, first half: Store.PurgeSandbox.
PurgeSandbox(n) ==
    /\ removal[n] = "purge"
    /\ images' = [i \in Ids |-> IF images[i] # NoImage /\ images[i].of = n
                                THEN NoImage ELSE images[i]]
    /\ removal' = [removal EXCEPT ![n] = "close"]
    /\ UNCHANGED <<now, box, driver, caller, queue, runtime>>

Close(s) ==
    /\ open' = open \ s
    /\ guest' = [x \in Sessions |-> IF x \in s THEN NoName ELSE guest[x]]

\* Second half: Driver.CloseSandbox.
CloseSandbox(n) ==
    /\ removal[n] = "close"
    /\ cache' = [cache EXCEPT ![n] = NoSession]
    /\ Close({cache[n]})
    /\ removal' = [removal EXCEPT ![n] = "teardown"]
    /\ UNCHANGED <<now, box, store, caller, queue, runtime>>

WithoutGuest(n) == [s \in Sessions |-> IF guest[s] = n THEN NoName ELSE guest[s]]

\* The backend takes the guest down, and the streams into it break; a failure
\* leaves the sandbox for the reaper, with or without its guest.
Teardown(n) ==
    /\ removal[n] = "teardown"
    /\ removal' = [removal EXCEPT ![n] = "none"]
    /\ \/ box' = [box EXCEPT ![n] = NoBox] /\ guest' = WithoutGuest(n)
       \/ UNCHANGED box /\ guest' \in {guest, WithoutGuest(n)}
    /\ UNCHANGED <<now, store, cache, open, caller, queue, runtime>>

-----------------------------------------------------------------------------
(* A call or a screenshot of a Windows guest.                                *)

GoOn(c, place) == pc' = [pc EXCEPT ![c] = place]
CallAt(c, place) == pc[c] = place

\* Any error: only the deferred removal of the guest's file is left to do.
GiveUp(c) ==
    GoOn(c, "cleanup") /\ sess' = [sess EXCEPT ![c] = NoSession] /\ UNCHANGED <<target, deadline>>

\* Call, Screenshot: by the cached session, or the instance says it is Windows.
BeginCall(c, n) ==
    /\ CallAt(c, "idle")
    /\ cache[n] # NoSession \/ box[n] # NoBox
    /\ target' = [target EXCEPT ![c] = n]
    /\ GoOn(c, "expiry")
    /\ UNCHANGED <<now, box, removal, store, driver, sess, deadline, queue, runtime>>

\* ensureWindows: the sandbox is looked at before d.mu is taken.
CheckExpiry(c) ==
    /\ CallAt(c, "expiry")
    /\ IF Live(target[c]) THEN GoOn(c, "lookup") /\ UNCHANGED <<target, sess, deadline>>
       ELSE GiveUp(c)
    /\ UNCHANGED <<now, box, removal, store, driver, queue, runtime>>

\* ensureWindows, the first section under d.mu.
Lookup(c) ==
    /\ CallAt(c, "lookup")
    /\ \/ runtime # "up" /\ GiveUp(c)
       \/ /\ runtime = "up" /\ cache[target[c]] # NoSession
          /\ sess' = [sess EXCEPT ![c] = cache[target[c]]]
          /\ GoOn(c, "call") /\ UNCHANGED <<target, deadline>>
       \/ /\ runtime = "up" /\ cache[target[c]] = NoSession
          /\ GoOn(c, "dial") /\ UNCHANGED <<target, sess, deadline>>
    /\ UNCHANGED <<now, box, removal, store, driver, queue, runtime>>

\* OpenExec looks at the sandbox again.
Dial(c) ==
    /\ CallAt(c, "dial")
    /\ IF Live(target[c]) THEN GoOn(c, "open") /\ UNCHANGED <<target, sess, deadline>>
       ELSE GiveUp(c)
    /\ UNCHANGED <<now, box, removal, store, driver, queue, runtime>>

\* The stream is opened and the session answers; an error closes what was opened.
Open(c) ==
    /\ CallAt(c, "open")
    /\ \/ GiveUp(c) /\ UNCHANGED driver
       \/ /\ box[target[c]] # NoBox
          /\ \E s \in Free :
               /\ sess' = [sess EXCEPT ![c] = s]
               /\ open' = open \cup {s}
               /\ guest' = [guest EXCEPT ![s] = target[c]]
          /\ GoOn(c, "keep") /\ UNCHANGED <<target, deadline, cache>>
    /\ UNCHANGED <<now, box, removal, store, queue, runtime>>

\* Fault: two callers that dialled at once both keep their session.
KeepMine(c) ==
    /\ CallAt(c, "keep")
    /\ IF runtime # "up" THEN Close({sess[c]}) /\ UNCHANGED cache /\ GiveUp(c)
       ELSE /\ cache' = [cache EXCEPT ![target[c]] = sess[c]]
            /\ GoOn(c, "call") /\ UNCHANGED <<open, guest, target, sess, deadline>>
    /\ UNCHANGED <<now, box, removal, store, queue, runtime>>

\* ensureWindows, the second section: closed meanwhile, overtaken, or kept.
Keep(c) ==
    /\ CallAt(c, "keep")
    /\ LET existing == cache[target[c]]
       IN  \/ /\ runtime # "up"
              /\ Close({sess[c]}) /\ UNCHANGED cache
              /\ GiveUp(c)
           \/ /\ runtime = "up" /\ existing # NoSession
              /\ Close({sess[c]}) /\ UNCHANGED cache
              /\ sess' = [sess EXCEPT ![c] = existing]
              /\ GoOn(c, "call") /\ UNCHANGED <<target, deadline>>
           \/ /\ runtime = "up" /\ existing = NoSession
              /\ cache' = [cache EXCEPT ![target[c]] = sess[c]]
              /\ GoOn(c, "call") /\ UNCHANGED <<open, guest, target, sess, deadline>>
    /\ UNCHANGED <<now, box, removal, store, queue, runtime>>

\* callWindowsTool: an answer through a stream that is open and reaches a guest,
\* a cancelled caller, or an error, which drops the session unless another has
\* taken its place (dropWindows).
CallTool(c) ==
    /\ CallAt(c, "call")
    /\ \/ /\ sess[c] \in open /\ guest[sess[c]] # NoName
          /\ GoOn(c, "read") /\ sess' = [sess EXCEPT ![c] = NoSession]
          /\ UNCHANGED <<driver, target, deadline>>
       \/ GiveUp(c) /\ UNCHANGED driver
       \/ /\ GiveUp(c)
          /\ IF cache[target[c]] = sess[c]
             THEN Close({sess[c]}) /\ cache' = [cache EXCEPT ![target[c]] = NoSession]
             ELSE UNCHANGED driver
    /\ UNCHANGED <<now, box, removal, store, queue, runtime>>

\* ReadBinaryFile: the expiry it returns is the one read here.
ReadExpiry(c) ==
    /\ CallAt(c, "read")
    /\ IF Live(target[c])
       THEN /\ deadline' = [deadline EXCEPT ![c] = Expiry(target[c])]
            /\ GoOn(c, "pull") /\ UNCHANGED <<target, sess>>
       ELSE GiveUp(c)
    /\ UNCHANGED <<now, box, removal, store, driver, queue, runtime>>

\* The file is read whole, if there is one and a guest to read it from.
Pull(c) ==
    /\ CallAt(c, "pull")
    /\ \/ GiveUp(c)
       \/ box[target[c]] # NoBox /\ GoOn(c, "publish") /\ UNCHANGED <<target, sess, deadline>>
    /\ UNCHANGED <<now, box, removal, store, driver, queue, runtime>>

Unexpired == [i \in Ids |-> IF images[i] # NoImage /\ images[i].expires <= now
                            THEN NoImage ELSE images[i]]
Kept(d) == IF d < now + Retention THEN d ELSE now + Retention

\* Publish, under Store.mu: refused when closed, too late, or full; nothing that
\* is still live is evicted.
Publish(c) ==
    /\ CallAt(c, "publish")
    /\ \/ runtime = "closed" /\ UNCHANGED store
       \/ runtime # "closed" /\ images' = Unexpired
       \/ /\ runtime # "closed" /\ Kept(deadline[c]) > now
          /\ Cardinality({i \in Ids : Unexpired[i] # NoImage}) < Capacity
          /\ \E i \in Ids :
               /\ Unexpired[i] = NoImage
               /\ images' = [Unexpired EXCEPT ![i] = [of |-> target[c], expires |-> Kept(deadline[c])]]
    /\ GoOn(c, "cleanup") /\ UNCHANGED <<target, sess, deadline>>
    /\ UNCHANGED <<now, box, removal, driver, queue, runtime>>

\* The call returns.  callWindows removes its file itself; screenshotWindows
\* queues it unless the driver is closed or the queue is full.
Cleanup(c) ==
    /\ CallAt(c, "cleanup")
    /\ queue' \in {queue} \cup (IF runtime = "up" /\ queue < QueueSize THEN {queue + 1} ELSE {})
    /\ GoOn(c, "idle")
    /\ target' = [target EXCEPT ![c] = NoName]
    /\ deadline' = [deadline EXCEPT ![c] = 0]
    /\ UNCHANGED <<now, box, removal, store, driver, sess, runtime>>

-----------------------------------------------------------------------------
\* The worker of cleanGuestFiles.
CleanGuestFile ==
    /\ queue > 0
    /\ queue' = queue - 1
    /\ UNCHANGED <<now, box, removal, store, driver, caller, runtime>>

\* The reaper's Sweep, and a GET of any screenshot before it is served.
SweepStore ==
    /\ images' = Unexpired
    /\ UNCHANGED <<now, box, removal, driver, caller, queue, runtime>>

\* Driver.Close: no session is left, and none is kept from now on.
CloseDriver ==
    /\ runtime = "up" /\ runtime' = "draining"
    /\ cache' = [n \in Names |-> NoSession]
    /\ Close({cache[n] : n \in Names})
    /\ UNCHANGED <<now, box, removal, store, caller, queue>>

\* It returns when the worker has drained the queue; then Store.Close.
CloseStore ==
    /\ runtime = "draining" /\ queue = 0
    /\ runtime' = "closed"
    /\ images' = [i \in Ids |-> NoImage]
    /\ UNCHANGED <<now, box, removal, driver, caller, queue>>

Step(c) ==
    \/ \E n \in Names : BeginCall(c, n)
    \/ CheckExpiry(c) \/ Lookup(c) \/ Dial(c) \/ Open(c) \/ Keep(c) \/ CallTool(c)
    \/ ReadExpiry(c) \/ Pull(c) \/ Publish(c) \/ Cleanup(c)

DesktopNext ==
    \/ Tick \/ SweepStore \/ CleanGuestFile \/ CloseDriver \/ CloseStore
    \/ \E n \in Names : Mutate(n) \/ Remove(n) \/ PurgeSandbox(n) \/ CloseSandbox(n) \/ Teardown(n)
    \/ \E c \in Calls : Step(c)

DesktopSpec == DesktopInit /\ [][DesktopNext]_desktopVars

-----------------------------------------------------------------------------
\* No exec stream into a guest is forgotten, whoever dials, drops, deletes or
\* closes at the same time: the open ones are the cached sessions and those in the
\* hands of the call that has just dialled them, never both, and once the driver
\* is closed only the latter are left.
SessionsHeld ==
    /\ open = Cached \cup Dialled
    /\ Cached \cap Dialled = {}
    /\ runtime # "up" => Cached = {}

\* "Sandbox deletion and reaping purge associated screenshots": none is served of
\* a sandbox that no longer exists.
DeletedUnserved == \A i \in Stored : box[images[i].of] # NoBox
=============================================================================
