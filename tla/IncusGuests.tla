---------------------------- MODULE IncusGuests ----------------------------
(***************************************************************************)
(* The guests of one Incus sandbox: compute/service.go, lifecycle.go and   *)
(* reaper.go over incus/instance*.go and the teardown of incus/sandbox.go. *)
(*                                                                         *)
(* A change of a guest holds the sandbox's gate and is a walk through      *)
(* places, one call to Incus each.  A creation holds it only until Incus   *)
(* accepts; what follows - the wait for Incus, the start, the wait for the *)
(* running guest - goes by the guest's name and without the gate, beside   *)
(* whatever is done to that name meanwhile.  A call that fails, before or  *)
(* after its effect, ends its operation; a crash ends them all.            *)
(***************************************************************************)
EXTENDS Naturals, Functions

CONSTANTS
    GuestNames,          \* of guests
    Copies,         \* random names of RestoreSnapshot: "restore-..."
    Snaps,          \* names of snapshots
    LocalImages,    \* names PublishInstance is given
    Creators,       \* CreateInstance calls waiting outside the gate
    MaxDisk,        \* bound: contents of disks that are told apart
    MaxFailures,    \* bound: failed calls of the reaper, and crashes
    NoName, NoSnap, NoDisk

Known == GuestNames \cup Copies
Disks == 0..MaxDisk         \* what a disk holds: 0 is what the image does

ASSUME GuestTypes ==
    /\ GuestNames \cap Copies = {} /\ NoName \notin Known
    /\ NoSnap \notin Snaps
    /\ MaxDisk \in Nat /\ NoDisk \notin Disks
    /\ MaxFailures \in Nat

VARIABLES
    up,             \* the server runs
    box,            \* the sandbox: "none", "live" or "expired"
    guest,          \* its project's guests
    local,          \* the project's published images: the disk each holds
    op,             \* the operation that holds the gate
    waits,          \* the creations outside it
    owed,           \* history: the content of the snapshot last being restored
    failures

guestVars == <<up, box, guest, local, op, waits, owed, failures>>

NoSnaps == [s \in Snaps |-> NoDisk]
Absent == [state |-> "absent", disk |-> NoDisk, snaps |-> NoSnaps]

Kinds == {"none", "create", "start", "stop", "restart", "delete", "restore", "empty"}
GuestPlaces == {"idle", "check", "update", "await", "copy", "read", "snapshots", "halt", "remove",
           "rename", "detach", "contents", "images"}
Idle == [kind |-> "none", at |-> "idle", key |-> NoName, action |-> "none", snap |-> NoSnap,
         copy |-> NoName, halt |-> FALSE, bounded |-> TRUE, rest |-> {}, failed |-> FALSE]
NotWaiting == [at |-> "idle", name |-> NoName, start |-> FALSE]

GuestTypeOK ==
    /\ up \in BOOLEAN
    /\ box \in {"none", "live", "expired"}
    /\ guest \in [Known -> [state : {"absent", "creating", "stopped", "running"},
                           disk : Disks \cup {NoDisk}, snaps : [Snaps -> Disks \cup {NoDisk}]]]
    /\ local \in [LocalImages -> Disks \cup {NoDisk}]
    /\ op \in [kind : Kinds, at : GuestPlaces, key : Known \cup {NoName},
               action : {"none", "start", "stop", "restart"}, snap : Snaps \cup {NoSnap},
               copy : Copies \cup {NoName}, halt : BOOLEAN, bounded : BOOLEAN,
               rest : SUBSET Known, failed : BOOLEAN]
    /\ waits \in [Creators -> [at : {"idle", "creating", "begin", "start", "poll"},
                               name : GuestNames \cup {NoName}, start : BOOLEAN]]
    /\ owed \in Disks \cup {NoDisk}
    /\ failures \in 0..MaxFailures
    /\ \A k \in Known : guest[k].state = "absent" <=> guest[k] = Absent
    /\ ~up => op = Idle /\ \A c \in Creators : waits[c] = NotWaiting

GuestInit ==
    /\ up = TRUE /\ box = "none"
    /\ guest = [k \in Known |-> Absent]
    /\ local = [i \in LocalImages |-> NoDisk]
    /\ op = Idle /\ waits = [c \in Creators |-> NotWaiting]
    /\ owed = NoDisk /\ failures = 0

-----------------------------------------------------------------------------
Free == up /\ op = Idle
Live == Free /\ box = "live"            \* withLiveSandbox: the gate, then the expiry
There(k) == guest[k].state # "absent"
Halted(k) == guest[k].state \in {"stopped", "creating"} \* Incus reports both as Stopped
Held(d) == \E k \in Known : d = guest[k].disk \/ \E s \in Snaps : d = guest[k].snaps[s]

\* stateSatisfiesAction
Satisfied(action, k) ==
    \/ action = "start" /\ guest[k].state = "running"
    \/ action = "stop" /\ Halted(k)

\* changeState's first read of the guest.
Ask(o, action, k) ==
    [o EXCEPT !.key = k, !.action = action,
              !.at = IF Satisfied(action, k) THEN "await" ELSE "update"]
At(o, place) == [o EXCEPT !.at = place]

\* The loop of DeleteSandbox that has done with a guest.
Loop(o, place) ==
    [Idle EXCEPT !.kind = "empty", !.bounded = o.bounded, !.rest = o.rest, !.failed = o.failed,
                 !.at = place]

\* The call of the moment failed: the loops of DeleteSandbox go on to the next
\* guest and report it in the end, every other operation returns.
Abort ==
    op' = IF op.kind # "empty" THEN Idle
          ELSE IF op.at \in {"update", "await"} THEN [Loop(op, "detach") EXCEPT !.failed = TRUE]
          ELSE IF op.at \in {"read", "snapshots", "halt", "remove"}
               THEN [Loop(op, "contents") EXCEPT !.failed = TRUE]
          ELSE Idle

-----------------------------------------------------------------------------
CreateSandbox ==
    /\ Free /\ box = "none"
    /\ box' = "live"
    /\ UNCHANGED <<up, failures, guest, local, op, waits, owed>>

Expire ==
    /\ box = "live"
    /\ box' = "expired"
    /\ UNCHANGED <<up, failures, guest, local, op, waits, owed>>

\* beginInstance: of a catalog image or a published one.  Incus accepts, the gate is released and c waits.
CreateInstance(n, c, start) ==
    /\ Live /\ ~There(n) /\ waits[c] = NotWaiting
    /\ \E d \in {0} \cup (Range(local) \ {NoDisk}) :
          guest' = [guest EXCEPT ![n] = [Absent EXCEPT !.state = "creating", !.disk = d]]
    /\ waits' = [waits EXCEPT ![c] = [at |-> "creating", name |-> n, start |-> start]]
    /\ UNCHANGED <<up, failures, box, local, op, owed>>

Change(n, kind) ==
    /\ Live /\ There(n)
    /\ op' = Ask([Idle EXCEPT !.kind = kind],
                 IF kind = "restart" /\ Halted(n) THEN "start" ELSE kind, n)
    /\ UNCHANGED <<up, failures, box, guest, local, waits, owed>>

\* A single call to Incus, under the gate.
CreateSnapshot(n, s) ==
    /\ Live /\ guest[n].state \in {"stopped", "running"} /\ guest[n].snaps[s] = NoDisk
    /\ guest' = [guest EXCEPT ![n].snaps[s] = guest[n].disk]
    /\ UNCHANGED <<up, failures, box, local, op, waits, owed>>

DeleteSnapshot(n, s) ==
    /\ Live /\ guest[n].snaps[s] # NoDisk
    /\ guest' = [guest EXCEPT ![n].snaps[s] = NoDisk]
    /\ owed' = IF owed = guest[n].snaps[s] THEN NoDisk ELSE owed
    /\ UNCHANGED <<up, failures, box, local, op, waits>>

PublishInstance(n, i) ==
    /\ Live /\ guest[n].state = "stopped" /\ local[i] = NoDisk
    /\ local' = [local EXCEPT ![i] = guest[n].disk]
    /\ UNCHANGED <<up, failures, box, guest, op, waits, owed>>

RestoreSnapshot(n, s) ==
    /\ Live /\ guest[n].snaps[s] # NoDisk
    /\ op' = Ask([Idle EXCEPT !.kind = "restore", !.snap = s], "stop", n)
    /\ owed' = guest[n].snaps[s]
    /\ UNCHANGED <<up, failures, box, guest, local, waits>>

\* Takes the gate only; the caller gives up what the guest holds.
DeleteInstance(k) ==
    /\ Free /\ There(k)
    /\ op' = At([Idle EXCEPT !.kind = "delete", !.key = k], "read")
    /\ owed' = IF owed \in {guest[k].disk} \cup Range(guest[k].snaps) THEN NoDisk ELSE owed
    /\ UNCHANGED <<up, failures, box, guest, local, waits>>

\* Fault: the reaper asks for a live sandbox, as the other handlers do.
EmptyLive(bounded) ==
    /\ Free /\ box # "none" /\ bounded
    /\ op' = At([Idle EXCEPT !.kind = "empty", !.bounded = bounded,
                             !.rest = {n \in Known : There(n)}], "detach")
    /\ owed' = NoDisk
    /\ UNCHANGED <<up, failures, box, guest, local, waits>>

\* DeleteSandbox, for a caller or (bounded = FALSE, no deadline) for the reaper.
Empty(bounded) ==
    /\ Free /\ box # "none" /\ (bounded \/ box = "expired")
    /\ op' = At([Idle EXCEPT !.kind = "empty", !.bounded = bounded,
                             !.rest = {k \in Known : There(k)}], "detach")
    /\ owed' = NoDisk
    /\ UNCHANGED <<up, failures, box, guest, local, waits>>

-----------------------------------------------------------------------------
\* detachSandboxNICs: StopInstance of each guest that was listed.
Detach ==
    /\ op.at = "detach"
    /\ \/ \E k \in op.rest :
            op' = IF There(k) THEN Ask([op EXCEPT !.rest = @ \ {k}], "stop", k)
                  ELSE [op EXCEPT !.rest = @ \ {k}, !.failed = TRUE]
       \/ op.rest = {} /\ op.failed /\ op' = Idle
       \/ op.rest = {} /\ ~op.failed
          /\ op' = [At(op, "contents") EXCEPT !.rest = {k \in Known : There(k)}]
    /\ UNCHANGED <<guest, local, box, owed>>

\* deleteProjectContents: forceDeleteInstance of each guest, then the images.
Contents ==
    /\ op.at = "contents"
    /\ \/ \E k \in op.rest : op' = [At(op, "read") EXCEPT !.key = k, !.rest = @ \ {k}]
       \/ op.rest = {} /\ op' = IF op.failed THEN Idle ELSE At(op, "images")
    /\ UNCHANGED <<guest, local, box, owed>>

\* The images, the networks and the project.
Images ==
    /\ op.at = "images"
    /\ local' = [i \in LocalImages |-> NoDisk]
    /\ box' = "none" /\ op' = Idle
    /\ UNCHANGED <<guest, owed>>

\* UpdateInstanceState, and its operation.  One that fails is read once more.
Update ==
    /\ op.at = "update"
    /\ LET k == op.key IN
       \/ /\ op.action = "start" /\ guest[k].state = "stopped"
          /\ guest' = [guest EXCEPT ![k].state = "running"] /\ op' = At(op, "await")
       \/ /\ op.action = "stop" /\ guest[k].state = "running"
          /\ guest' = [guest EXCEPT ![k].state = "stopped"] /\ op' = At(op, "await")
       \/ /\ op.action = "restart" /\ guest[k].state = "running"
          /\ op' = At(op, "await") /\ UNCHANGED guest
       \/ Satisfied(op.action, k) /\ op' = At(op, "await") /\ UNCHANGED guest
       \/ /\ ~Satisfied(op.action, k) /\ guest[k].state # "running"
          /\ ~(op.action = "start" /\ guest[k].state = "stopped")
          /\ Abort /\ UNCHANGED guest
    /\ UNCHANGED <<local, box, owed>>

\* waitRunning and waitStopped: no step while the state is not the wanted one.
Await ==
    /\ op.at = "await"
    /\ \/ /\ IF op.action = "stop" THEN Halted(op.key) ELSE guest[op.key].state = "running"
          /\ op' = IF op.kind = "empty" THEN Loop(op, "detach")
                   ELSE IF op.kind = "restore" /\ op.action = "stop" THEN At(op, "copy")
                   ELSE Idle
       \/ ~There(op.key) /\ Abort
    /\ UNCHANGED <<guest, local, box, owed>>

\* Fault: the guest is copied instead of its snapshot.
CopyOfGuest ==
    /\ op.at = "copy"
    /\ \E r \in Copies :
          /\ ~There(r)
          /\ guest' = [guest EXCEPT ![r] = [Absent EXCEPT !.state = "stopped",
                                                          !.disk = guest[op.key].disk]]
          /\ op' = [At(op, "read") EXCEPT !.copy = r]
    /\ UNCHANGED <<local, box, owed>>

\* The snapshot goes with its guest, so it is copied first.
Copy ==
    /\ op.at = "copy"
    /\ \E r \in Copies :
          /\ ~There(r)
          /\ guest' = [guest EXCEPT ![r] = [Absent EXCEPT !.state = "stopped",
                                                          !.disk = guest[op.key].snaps[op.snap]]]
          /\ op' = [At(op, "read") EXCEPT !.copy = r]
    /\ UNCHANGED <<local, box, owed>>

\* forceDeleteInstance: what it reads first decides whether it stops the guest.
Read ==
    /\ op.at = "read"
    /\ IF There(op.key)
       THEN op' = [At(op, "snapshots") EXCEPT !.halt = ~Halted(op.key)]
       ELSE IF op.kind = "empty" THEN op' = Loop(op, "contents") ELSE Abort
    /\ UNCHANGED <<guest, local, box, owed>>

Snapshots ==
    /\ op.at = "snapshots"
    /\ \/ \E s \in Snaps : /\ guest[op.key].snaps[s] # NoDisk
                           /\ guest' = [guest EXCEPT ![op.key].snaps[s] = NoDisk]
                           /\ UNCHANGED op
       \/ /\ guest[op.key].snaps = NoSnaps
          /\ op' = At(op, IF op.halt THEN "halt" ELSE "remove")
          /\ UNCHANGED guest
    /\ UNCHANGED <<local, box, owed>>

ForceStop ==
    /\ op.at = "halt"
    /\ guest' = [guest EXCEPT ![op.key].state = IF @ = "running" THEN "stopped" ELSE @]
    /\ op' = At(op, "remove")
    /\ UNCHANGED <<local, box, owed>>

\* Incus refuses a guest that runs or is being created.
Remove ==
    /\ op.at = "remove"
    /\ \/ /\ guest[op.key].state = "stopped"
          /\ guest' = [guest EXCEPT ![op.key] = Absent]
          /\ op' = CASE op.kind = "delete" -> Idle
                     [] op.kind = "restore" -> At(op, "rename")
                     [] op.kind = "empty" -> Loop(op, "contents")
       \/ guest[op.key].state # "stopped" /\ Abort /\ UNCHANGED guest
    /\ UNCHANGED <<local, box, owed>>

Rename ==
    /\ op.at = "rename"
    /\ guest' = [guest EXCEPT ![op.key] = guest[op.copy], ![op.copy] = Absent]
    /\ owed' = NoDisk
    /\ op' = [At(op, "update") EXCEPT !.action = "start", !.copy = NoName, !.snap = NoSnap,
                                      !.halt = FALSE]
    /\ UNCHANGED <<local, box>>

OpStep ==
    /\ Detach \/ Contents \/ Images \/ Update \/ Await \/ Copy \/ Read \/ Snapshots \/ ForceStop
       \/ Remove \/ Rename
    /\ UNCHANGED <<up, failures, waits>>

\* Anywhere: the time a call of an agent may take is over.
Cut ==
    /\ op # Idle /\ op.bounded
    /\ op' = Idle
    /\ UNCHANGED <<up, failures, box, guest, local, waits, owed>>

\* A call of the reaper to Incus fails.
CallFails ==
    /\ op # Idle /\ ~op.bounded
    /\ failures < MaxFailures
    /\ failures' = failures + 1
    /\ Abort
    /\ UNCHANGED <<up, box, guest, local, waits, owed>>

-----------------------------------------------------------------------------
\* Incus has made the guest, or could not.
FinishCreate(n) ==
    /\ guest[n].state = "creating"
    /\ \/ /\ guest' = [guest EXCEPT ![n].state = "stopped"]
          /\ waits' = [c \in Creators |->
                         IF waits[c].at # "creating" \/ waits[c].name # n THEN waits[c]
                         ELSE IF waits[c].start THEN [waits[c] EXCEPT !.at = "begin"]
                         ELSE NotWaiting]
       \/ /\ guest' = [guest EXCEPT ![n] = Absent]
          /\ waits' = [c \in Creators |->
                         IF waits[c].at # "creating" \/ waits[c].name # n THEN waits[c]
                         ELSE NotWaiting]
    /\ UNCHANGED <<up, failures, box, local, op, owed>>

\* pendingInstance.Wait: startInstance reads, then starts; waitRunning polls.
WaitStep(c) ==
    LET k == waits[c].name
        Move(place) == waits' = [waits EXCEPT ![c].at = place]
        Return == waits' = [waits EXCEPT ![c] = NotWaiting]
    IN
    /\ \/ /\ waits[c].at = "begin" /\ UNCHANGED guest
          /\ CASE ~There(k) -> Return
               [] guest[k].state = "running" -> Move("poll")
               [] Halted(k) -> Move("start")
       \/ /\ waits[c].at = "start"
          /\ CASE guest[k].state = "stopped" ->
                      guest' = [guest EXCEPT ![k].state = "running"] /\ Move("poll")
               [] guest[k].state = "running" -> Move("poll") /\ UNCHANGED guest
               [] OTHER -> Return /\ UNCHANGED guest
       \/ /\ waits[c].at = "poll" /\ (guest[k].state = "running" \/ ~There(k))
          /\ Return /\ UNCHANGED guest
    /\ UNCHANGED <<up, failures, box, local, op, owed>>

\* instanceCreateTimeout
Timeout(c) ==
    /\ waits[c] # NotWaiting
    /\ waits' = [waits EXCEPT ![c] = NotWaiting]
    /\ UNCHANGED <<up, failures, box, guest, local, op, owed>>

\* What is inside the guest changes its disk, or shuts it down.
Write(n) ==
    /\ guest[n].state = "running"
    /\ \E d \in Disks : guest' = [guest EXCEPT ![n].disk = d]
    /\ UNCHANGED <<up, failures, box, local, op, waits, owed>>

Shutdown(n) ==
    /\ guest[n].state = "running"
    /\ guest' = [guest EXCEPT ![n].state = "stopped"]
    /\ UNCHANGED <<up, failures, box, local, op, waits, owed>>

\* The server's process takes every call with it, and is started again.
Dies ==
    /\ up /\ failures < MaxFailures
    /\ up' = FALSE /\ failures' = failures + 1
    /\ op' = Idle /\ waits' = [c \in Creators |-> NotWaiting]
    /\ UNCHANGED <<box, guest, local, owed>>

Starts ==
    /\ ~up /\ up' = TRUE
    /\ UNCHANGED <<box, guest, local, op, waits, owed, failures>>

Call ==
    \/ CreateSandbox
    \/ \E n \in GuestNames, c \in Creators, start \in BOOLEAN : CreateInstance(n, c, start)
    \/ \E n \in GuestNames, kind \in {"start", "stop", "restart"} : Change(n, kind)
    \/ \E n \in GuestNames, s \in Snaps :
          CreateSnapshot(n, s) \/ DeleteSnapshot(n, s) \/ RestoreSnapshot(n, s)
    \/ \E n \in GuestNames, i \in LocalImages : PublishInstance(n, i)
    \/ \E k \in Known : DeleteInstance(k)

GuestNext ==
    \/ Starts \/ Dies
    \/ Call \/ \E bounded \in BOOLEAN : Empty(bounded)
    \/ OpStep \/ Cut \/ CallFails
    \/ \E c \in Creators : WaitStep(c) \/ Timeout(c)
    \/ \E n \in GuestNames : FinishCreate(n) \/ Write(n) \/ Shutdown(n)
    \/ Expire

GuestSpec == GuestInit /\ [][GuestNext]_guestVars

GuestFairness ==
    /\ WF_guestVars(Starts) /\ WF_guestVars(OpStep) /\ WF_guestVars(Cut)
    /\ \A c \in Creators : WF_guestVars(WaitStep(c)) /\ WF_guestVars(Timeout(c))
    /\ \A n \in GuestNames : WF_guestVars(FinishCreate(n))
    /\ SF_guestVars(Empty(FALSE))

-----------------------------------------------------------------------------
\* The content a caller asked to have restored is in the project, in the guest,
\* its snapshot or the staged copy, wherever the restore was cut off.
ContentKept == owed # NoDisk => Held(owed)

Stalled == op.kind = "empty" /\ ~op.bounded /\ op.at = "await" /\ guest[op.key].state = "running"

\* An expired sandbox goes, unless the server waits for the stop of a guest
\* that a creation has started again.
EmptiedUnlessStalled == <>[](box = "expired") => <>[]Stalled

ExpiredEmptied == box = "expired" ~> box # "expired"
=============================================================================
