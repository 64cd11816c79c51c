------------------------------ MODULE LumeHost ------------------------------
(***************************************************************************)
(* internal/lume: macOS guests of several sandboxes on one host.           *)
(*                                                                         *)
(* Each sandbox has a sidecar record on the host that maps its instances,  *)
(* their snapshots and an unfinished restore to guests by exact name.      *)
(* Operations of one sandbox hold its gate and so run one at a time; those *)
(* of different sandboxes interleave, and meet on the host and on c.mu.    *)
(* Every call to the host is a step that may fail, before or after it had  *)
(* its effect, and the server may crash between any two: records and       *)
(* guests stay, everything else is lost.                                   *)
(***************************************************************************)
EXTENDS Integers, FiniteSets

CONSTANTS
    Sandboxes, Instances, Snapshots,
    VMs,            \* guest names on the host, seeds apart
    InstanceVM,     \* instanceVMName, by <<sandbox, instance>>
    SnapshotVM,     \* snapshotVMName, by <<sandbox, instance, snapshot>>
    RestoreVM,      \* the same with extra "r"
    SpareVMs,       \* the same with a random suffix, by the name without
    NoVM,
    NoRecord,       \* no sidecar: ErrNotFound
    NoInstance,
    Nobody,         \* nobody holds c.mu
    MaxGuests,      \* maxMacOSGuests
    OpsOf,          \* bound: the operations asked of each sandbox
    MaxFailures,    \* bound: host calls that fail
    MaxCrashes      \* bound: crashes of the server

ASSUME NamesOfGuests ==
    /\ InstanceVM \in [Sandboxes \X Instances -> VMs]
    /\ SnapshotVM \in [Sandboxes \X Instances \X Snapshots -> VMs]
    /\ RestoreVM \in [Sandboxes \X Instances \X Snapshots -> VMs]
    /\ SpareVMs \in [VMs -> SUBSET VMs]
ASSUME Absences == NoVM \notin VMs /\ Nobody \notin Sandboxes
ASSUME GuestLimit == MaxGuests \in Nat /\ MaxFailures \in Nat /\ MaxCrashes \in Nat

VARIABLES
    host,           \* the guests; one that boots is still reported stopped
    genuine,        \* guests with the machine identifier of their seed
    record,         \* the sidecars
    op,             \* the operation in progress for each sandbox
    mu,             \* who holds c.mu
    late,           \* history: guests whose start was given up while they booted
    failures, crashes

bounds == <<failures, crashes>>
vars == <<host, genuine, record, op, mu, late, bounds>>

Kinds == {"create", "start", "restart", "stop", "snapshot", "restore",
          "drop", "delete", "destroy"}
Places == {"idle", "mu", "list", "map", "clone", "pin", "undo", "unmap", "prepare",
           "stop", "run", "poll", "look", "switch", "purge", "clear", "sweep",
           "sweepFailed", "forget"}

\* start: create was asked to start the guest, or the guest was found running.
\* copy: the name of the clone.  seen: the guests listed as running.
\* todo: the guests still to delete.
Idle == [at |-> "idle", kind |-> "stop", inst |-> NoInstance, snap |-> NoVM,
         start |-> FALSE, copy |-> NoVM, seen |-> {}, todo |-> {}]

InstanceRecords ==
    [vm : VMs, prepared : BOOLEAN, snaps : [Snapshots -> VMs \cup {NoVM}],
     previous : VMs \cup {NoVM}, pending : VMs \cup {NoVM}]
NoSnapshots == [n \in Snapshots |-> NoVM]

ASSUME NothingRecorded ==
    /\ NoInstance \notin InstanceRecords
    /\ NoRecord \notin [Instances -> InstanceRecords \cup {NoInstance}]

TypeOK ==
    /\ host \in [VMs -> {"absent", "stopped", "booting", "running"}]
    /\ genuine \subseteq VMs
    /\ record \in [Sandboxes -> [Instances -> InstanceRecords \cup {NoInstance}] \cup {NoRecord}]
    /\ op \in [Sandboxes ->
                 [at : Places, kind : Kinds, inst : Instances \cup {NoInstance},
                  snap : Snapshots \cup {NoVM}, start : BOOLEAN, copy : VMs \cup {NoVM},
                  seen : SUBSET VMs, todo : SUBSET VMs]]
    /\ mu \in Sandboxes \cup {Nobody}
    /\ late \subseteq VMs
    /\ failures \in 0..MaxFailures /\ crashes \in 0..MaxCrashes

Init ==
    /\ host = [v \in VMs |-> "absent"]
    /\ genuine = {}
    /\ record = [s \in Sandboxes |-> NoRecord]
    /\ op = [s \in Sandboxes |-> Idle]
    /\ mu = Nobody
    /\ late = {}
    /\ failures = 0 /\ crashes = 0

-----------------------------------------------------------------------------
Present == {v \in VMs : host[v] # "absent"}
Running == {v \in VMs : host[v] = "running"}
Booting == {v \in VMs : host[v] = "booting"}

Has(s, i) == record[s] # NoRecord /\ record[s][i] # NoInstance

\* An instance's guests: its own, its snapshots', and both ends of a restore.
GuestsOf(r) == ({r.vm, r.previous, r.pending} \cup {r.snaps[n] : n \in Snapshots}) \ {NoVM}

\* mappedVMs.
Mapped(s) ==
    IF record[s] = NoRecord THEN {}
    ELSE UNION {GuestsOf(record[s][i]) : i \in {j \in Instances : Has(s, j)}}

Inst(s) == record[s][op[s].inst]
Unfinished(r) == r.previous # NoVM

\* The guest the operation runs, stops or copies.
Guest(s) == IF op[s].kind = "create" THEN InstanceVM[s, op[s].inst] ELSE Inst(s).vm

SetInstance(s, r) == record' = [record EXCEPT ![s][op[s].inst] = r]
At(s, place) == op[s].at = place
Goto(s, place) == op' = [op EXCEPT ![s].at = place] /\ UNCHANGED mu

\* StartInstance within another operation: its own way through c.mu.
ThenStart(s) ==
    op' = [op EXCEPT ![s] = [Idle EXCEPT !.at = "mu", !.kind = "start", !.start = TRUE,
                                       !.inst = op[s].inst]]

\* An operation returns: c.mu is released by its holder, and a guest that
\* CreateSnapshot stopped is started again whatever came of the snapshot.
Leave(s) ==
    /\ IF op[s].kind = "snapshot" /\ op[s].start THEN ThenStart(s)
       ELSE op' = [op EXCEPT ![s] = Idle]
    /\ mu' = IF mu = s THEN Nobody ELSE mu

\* A host call fails; what it left behind is the other conjuncts' choice.
Fails(s) ==
    /\ failures < MaxFailures
    /\ failures' = failures + 1
    /\ Leave(s)
    /\ UNCHANGED crashes

\* updateSandbox to r: one atomic replacement of the sidecar, read under the
\* gate.  Its failure may come after the file was moved into place.
Update(s, r, next) ==
    \/ SetInstance(s, r) /\ Goto(s, next) /\ UNCHANGED bounds
    \/ Fails(s) /\ (SetInstance(s, r) \/ UNCHANGED record)

-----------------------------------------------------------------------------
(* The operations: the record is read and checked.                           *)

Begin(s, place, kind, i, n, start) ==
    /\ op[s] = Idle /\ kind \in OpsOf[s] /\ record[s] # NoRecord
    /\ op' = [op EXCEPT ![s] = [Idle EXCEPT !.at = place, !.kind = kind, !.inst = i,
                                            !.snap = n, !.start = start]]
    /\ UNCHANGED <<host, genuine, record, mu, late, bounds>>

CreateSandbox(s) ==
    /\ op[s] = Idle /\ record[s] = NoRecord
    /\ record' = [record EXCEPT ![s] = [i \in Instances |-> NoInstance]]
    /\ UNCHANGED <<host, genuine, op, mu, late, bounds>>

CreateInstance(s, i) ==
    /\ ~Has(s, i)
    /\ \E start \in BOOLEAN :
        Begin(s, IF start THEN "mu" ELSE "list", "create", i, NoVM, start)

StartInstance(s, i) == Has(s, i) /\ Begin(s, "mu", "start", i, NoVM, TRUE)

RestartInstance(s, i) == Has(s, i) /\ Begin(s, "mu", "restart", i, NoVM, TRUE)

\* A guest reported stopped already needs nothing.
StopInstance(s, i) ==
    /\ Has(s, i) /\ record[s][i].vm \in Running
    /\ Begin(s, "stop", "stop", i, NoVM, FALSE)

\* Fault: a running guest is copied as it is.
CreateSnapshotHot(s, i, n) ==
    /\ Has(s, i) /\ ~Unfinished(record[s][i]) /\ record[s][i].snaps[n] = NoVM
    /\ record[s][i].vm \in Present
    /\ Begin(s, "list", "snapshot", i, n, FALSE)

CreateSnapshot(s, i, n) ==
    /\ Has(s, i) /\ ~Unfinished(record[s][i]) /\ record[s][i].snaps[n] = NoVM
    /\ record[s][i].vm \in Present
    /\ Begin(s, IF record[s][i].vm \in Running THEN "stop" ELSE "list", "snapshot", i, n, FALSE)

RestoreSnapshot(s, i, n) ==
    /\ Has(s, i) /\ ~Unfinished(record[s][i]) /\ record[s][i].snaps[n] # NoVM
    /\ Begin(s, "list", "restore", i, n, FALSE)

DeleteSnapshot(s, i, n) ==
    /\ Has(s, i) /\ record[s][i].snaps[n] # NoVM
    /\ Begin(s, "list", "drop", i, n, FALSE)

DeleteInstance(s, i) == Has(s, i) /\ Begin(s, "list", "delete", i, NoVM, FALSE)

DeleteSandbox(s) == Begin(s, "list", "destroy", NoInstance, NoVM, FALSE)

-----------------------------------------------------------------------------
(* Listing the host.                                                         *)

\* Fault: starts of different sandboxes do not exclude each other.
TakeMuShared(s) ==
    /\ At(s, "mu")
    /\ op' = [op EXCEPT ![s].at = "list"]
    /\ UNCHANGED <<host, genuine, record, mu, late, bounds>>

TakeMu(s) ==
    /\ At(s, "mu") /\ mu = Nobody
    /\ mu' = s
    /\ op' = [op EXCEPT ![s].at = "list"]
    /\ UNCHANGED <<host, genuine, record, late, bounds>>

Starts == {"start", "restart"}
Copies == {"snapshot", "restore"}
Deletes == {"drop", "delete", "destroy"}

FullHouse(running) == Cardinality(running) >= MaxGuests

\* Fault: an unprepared guest counts as prepared without being pinned again.
AfterListingTrusting(s) ==
    CASE op[s].kind = "create" -> "map"
      [] op[s].kind = "restart" /\ Guest(s) \in Running -> "stop"
      [] OTHER -> "run"

\* Where a start goes from its listing: unprepared guests are pinned first.
AfterListing(s) ==
    CASE op[s].kind = "create" -> "map"
      [] op[s].kind \in Starts /\ ~Inst(s).prepared -> "pin"
      [] op[s].kind = "restart" /\ Inst(s).prepared /\ Guest(s) \in Running -> "stop"
      [] OTHER -> "run"

\* cloneStartLocked, StartInstance and RestartInstance up to their checks.
ListToStart(s) ==
    /\ At(s, "list") /\ op[s].kind \in Starts \cup {"create"}
    /\ IF \/ op[s].kind = "create" /\ op[s].start /\ FullHouse(Running)
          \/ op[s].kind = "create" /\ Guest(s) \in Present
          \/ op[s].kind \in Starts /\ Guest(s) \notin Present
       THEN Leave(s)
       ELSE /\ op' = [op EXCEPT ![s].at = AfterListing(s), ![s].seen = Running,
                                ![s].copy = Guest(s)]
            /\ UNCHANGED mu
    /\ UNCHANGED <<host, genuine, record, late, bounds>>

\* uniqueVMName: the plain name if the host has no such guest, otherwise one
\* with a random suffix, which is never drawn twice.
FreeNames(base) ==
    IF base \notin Present THEN {base}
    ELSE SpareVMs[base] \ (Present \cup UNION {Mapped(s) : s \in Sandboxes})

ListToCopy(s) ==
    LET names == IF op[s].kind = "snapshot" THEN SnapshotVM ELSE RestoreVM IN
    /\ At(s, "list") /\ op[s].kind \in Copies
    /\ \E v \in FreeNames(names[s, op[s].inst, op[s].snap]) :
        op' = [op EXCEPT ![s].at = "map", ![s].copy = v]
    /\ UNCHANGED <<host, genuine, record, mu, late, bounds>>

Doomed(s) ==
    CASE op[s].kind = "drop" -> {Inst(s).snaps[op[s].snap]}
      [] op[s].kind = "delete" -> GuestsOf(Inst(s))
      [] op[s].kind = "destroy" -> Mapped(s)

ListToDelete(s) ==
    /\ At(s, "list") /\ op[s].kind \in Deletes
    /\ op' = [op EXCEPT ![s].at = "sweep", ![s].todo = Doomed(s) \cap Present]
    /\ UNCHANGED <<host, genuine, record, mu, late, bounds>>

ListFails(s) ==
    /\ At(s, "list")
    /\ Fails(s)
    /\ UNCHANGED <<host, genuine, record, late>>

-----------------------------------------------------------------------------
(* Copying a guest: map it, clone it, pin its identifier, or undo.           *)

Fresh(v) == [vm |-> v, prepared |-> FALSE, snaps |-> NoSnapshots,
             previous |-> NoVM, pending |-> NoVM]

\* The record with the copy in it, written before the copy is made.
WithCopy(s) ==
    CASE op[s].kind = "create"   -> Fresh(op[s].copy)
      [] op[s].kind = "snapshot" -> [Inst(s) EXCEPT !.snaps[op[s].snap] = op[s].copy]
      [] op[s].kind = "restore"  -> [Inst(s) EXCEPT !.previous = Inst(s).vm,
                                                    !.pending = op[s].copy]

\* The record without the copy.
WithoutCopy(s) ==
    CASE op[s].kind = "create"   -> NoInstance
      [] op[s].kind = "snapshot" -> [Inst(s) EXCEPT !.snaps[op[s].snap] = NoVM]
      [] op[s].kind = "restore"  -> [Inst(s) EXCEPT !.previous = NoVM, !.pending = NoVM]

Map(s) ==
    /\ At(s, "map")
    /\ Update(s, WithCopy(s), "clone")
    /\ UNCHANGED <<host, genuine, late>>

\* What the clone is made from: the seed, the instance or its snapshot.
Source(s) ==
    CASE op[s].kind = "snapshot" -> Inst(s).vm
      [] op[s].kind = "restore"  -> Inst(s).snaps[op[s].snap]
      [] OTHER -> NoVM                  \* the seed, always there and stopped

CanClone(s) == (Source(s) = NoVM \/ Source(s) \in Present) /\ op[s].copy \notin Present

\* The clone comes with an identifier of its own.
Clone(s) ==
    /\ At(s, "clone")
    /\ \/ /\ CanClone(s)
          /\ host' = [host EXCEPT ![op[s].copy] = "stopped"]
          /\ genuine' = genuine \ {op[s].copy}
          /\ \/ Goto(s, "pin") /\ UNCHANGED bounds
             \/ /\ failures < MaxFailures        \* done, and the answer lost
                /\ failures' = failures + 1 /\ UNCHANGED crashes
                /\ Goto(s, "undo")
       \/ /\ ~CanClone(s)
          /\ Goto(s, "undo") /\ UNCHANGED <<host, genuine, bounds>>
       \/ /\ failures < MaxFailures /\ failures' = failures + 1
          /\ Goto(s, "undo") /\ UNCHANGED <<host, genuine, crashes>>
    /\ UNCHANGED <<record, late>>

\* pinMachineIdentifier: of a copy after its cloning, of an unprepared guest
\* before it is started.
PinnedFrom(s) == Source(s) = NoVM \/ Source(s) \in genuine

AfterPin(s) ==
    CASE op[s].kind \in Starts \cup {"create"} -> "prepare"
      [] op[s].kind = "restore" -> "look"
      [] OTHER -> "idle"

Pin(s) ==
    /\ At(s, "pin")
    /\ \/ /\ genuine' = IF PinnedFrom(s) THEN genuine \cup {op[s].copy} ELSE genuine
          /\ IF op[s].kind = "snapshot" THEN Leave(s) ELSE Goto(s, AfterPin(s))
          /\ UNCHANGED bounds
       \/ /\ failures < MaxFailures /\ failures' = failures + 1
          /\ UNCHANGED <<genuine, crashes>>
          /\ IF op[s].kind \in Starts THEN Leave(s) ELSE Goto(s, "undo")
    /\ UNCHANGED <<host, record, late>>

\* deleteExactVM, and what a failure of it may have done on the way.
Deleted(v) == host' = [host EXCEPT ![v] = "absent"] /\ genuine' = genuine \ {v} /\ late' = late \ {v}
HalfDeleted(v) ==
    \/ UNCHANGED <<host, genuine, late>>
    \/ Deleted(v)
    \/ /\ host[v] = "running" /\ host' = [host EXCEPT ![v] = "stopped"]
       /\ late' = late \ {v} /\ UNCHANGED genuine

\* A copy that failed half-way is deleted; when that fails it stays mapped.
Undo(s) ==
    /\ At(s, "undo")
    /\ \/ Deleted(op[s].copy) /\ Goto(s, "unmap") /\ UNCHANGED bounds
       \/ Fails(s) /\ HalfDeleted(op[s].copy)
    /\ UNCHANGED record

Unmap(s) ==
    /\ At(s, "unmap")
    /\ \/ SetInstance(s, WithoutCopy(s)) /\ Leave(s) /\ UNCHANGED bounds
       \/ Fails(s) /\ (SetInstance(s, WithoutCopy(s)) \/ UNCHANGED record)
    /\ UNCHANGED <<host, genuine, late>>

-----------------------------------------------------------------------------
(* Starting and stopping.                                                    *)

\* applyResources and markPrepared.
Prepare(s) ==
    LET next == CASE op[s].kind = "create" /\ ~op[s].start -> "idle"
                  [] op[s].kind = "restart" /\ Guest(s) \in op[s].seen -> "stop"
                  [] OTHER -> "run"
        r == [Inst(s) EXCEPT !.prepared = TRUE]
    IN
    /\ At(s, "prepare")
    /\ IF next = "idle" THEN \/ SetInstance(s, r) /\ Leave(s) /\ UNCHANGED bounds
                             \/ Fails(s) /\ (SetInstance(s, r) \/ UNCHANGED record)
       ELSE Update(s, r, next)
    /\ UNCHANGED <<host, genuine, late>>

\* stopNamed: ask and wait until it is stopped.
Stop(s) ==
    LET stopped == host' = [host EXCEPT ![Guest(s)] = IF @ = "absent" THEN @ ELSE "stopped"]
                   /\ late' = late \ {Guest(s)}
    IN
    /\ At(s, "stop")
    /\ \/ /\ stopped /\ UNCHANGED bounds
          /\ CASE op[s].kind = "stop" -> Leave(s)
               [] op[s].kind = "restart" ->
                    /\ op' = [op EXCEPT ![s].at = "run", ![s].seen = @ \ {Guest(s)}]
                    /\ UNCHANGED mu
               [] op[s].kind = "snapshot" ->
                    /\ op' = [op EXCEPT ![s].at = "list", ![s].start = TRUE]
                    /\ UNCHANGED mu
               [] op[s].kind = "restore" -> Goto(s, "switch")
       \/ Fails(s) /\ (stopped \/ UNCHANGED <<host, late>>)
    /\ UNCHANGED <<genuine, record>>

\* runLocked: nothing to do for a running guest, refused when the listing was
\* full; otherwise the host accepts the run and boots the guest on its own.
Run(s) ==
    LET boots == host' = [host EXCEPT ![Guest(s)] = IF @ = "stopped" THEN "booting" ELSE @] IN
    /\ At(s, "run")
    /\ \/ /\ Guest(s) \in op[s].seen \/ FullHouse(op[s].seen)
          /\ Leave(s) /\ UNCHANGED <<host, late, bounds>>
       \/ /\ Guest(s) \notin op[s].seen /\ ~FullHouse(op[s].seen)
          /\ \/ boots /\ late' = late \ {Guest(s)} /\ Goto(s, "poll") /\ UNCHANGED bounds
             \/ Fails(s) /\ UNCHANGED <<host, late>>
             \/ Fails(s) /\ boots /\ late' = late \cup {Guest(s)}
    /\ UNCHANGED <<genuine, record>>

\* The guest came up; or the deadline passed or the caller left.
Poll(s) ==
    /\ At(s, "poll")
    /\ Leave(s)
    /\ late' = IF host[Guest(s)] = "booting" THEN late \cup {Guest(s)} ELSE late
    /\ UNCHANGED <<host, genuine, record, bounds>>

-----------------------------------------------------------------------------
(* Restoring: switch the instance over to the copy, then drop the old guest. *)

Look(s) ==
    /\ At(s, "look")
    /\ \/ /\ op' = [op EXCEPT ![s].start = Guest(s) \in Running,
                              ![s].at = IF Guest(s) \in Running THEN "stop" ELSE "switch"]
          /\ UNCHANGED <<mu, bounds>>
       \/ Fails(s)
    /\ UNCHANGED <<host, genuine, record, late>>

Switch(s) ==
    /\ At(s, "switch")
    /\ Update(s, [Inst(s) EXCEPT !.vm = op[s].copy], "purge")
    /\ UNCHANGED <<host, genuine, late>>

\* Fault: the snapshot is consumed instead of the previous guest.
PurgeSource(s) ==
    /\ At(s, "purge")
    /\ \/ Deleted(Source(s)) /\ Goto(s, "clear") /\ UNCHANGED bounds
       \/ Fails(s) /\ HalfDeleted(Source(s))
    /\ UNCHANGED record

Purge(s) ==
    /\ At(s, "purge")
    /\ IF Inst(s).previous = Source(s)
       THEN Goto(s, "clear") /\ UNCHANGED <<host, genuine, late, bounds>>
       ELSE \/ Deleted(Inst(s).previous) /\ Goto(s, "clear") /\ UNCHANGED bounds
            \/ Fails(s) /\ HalfDeleted(Inst(s).previous)
    /\ UNCHANGED record

\* The restore is over; a guest that was running is started again.
Clear(s) ==
    LET r == [Inst(s) EXCEPT !.previous = NoVM, !.pending = NoVM] IN
    /\ At(s, "clear")
    /\ \/ /\ SetInstance(s, r) /\ UNCHANGED <<mu, bounds>>
          /\ IF op[s].start THEN ThenStart(s) ELSE op' = [op EXCEPT ![s] = Idle]
       \/ Fails(s) /\ (SetInstance(s, r) \/ UNCHANGED record)
    /\ UNCHANGED <<host, genuine, late>>

-----------------------------------------------------------------------------
(* Deleting: every listed guest, then the mapping if all went well.          *)

Sweep(s) ==
    /\ op[s].at \in {"sweep", "sweepFailed"}
    /\ \E v \in op[s].todo :
        \/ /\ Deleted(v)
           /\ op' = [op EXCEPT ![s].todo = @ \ {v}]
           /\ UNCHANGED bounds
        \/ /\ HalfDeleted(v)
           /\ op' = [op EXCEPT ![s].todo = @ \ {v}, ![s].at = "sweepFailed"]
           /\ failures < MaxFailures /\ failures' = failures + 1 /\ UNCHANGED crashes
    /\ UNCHANGED <<record, mu>>

\* Fault: the mapping goes though a guest is left.
EndSweepAnyway(s) ==
    /\ op[s].at \in {"sweep", "sweepFailed"} /\ op[s].todo = {}
    /\ Goto(s, "forget")
    /\ UNCHANGED <<host, genuine, record, late, bounds>>

EndSweep(s) ==
    /\ op[s].at \in {"sweep", "sweepFailed"} /\ op[s].todo = {}
    /\ IF op[s].at = "sweep" THEN Goto(s, "forget") ELSE Leave(s)
    /\ UNCHANGED <<host, genuine, record, late, bounds>>

Forget(s) ==
    LET forgotten ==
            CASE op[s].kind = "drop" -> SetInstance(s, [Inst(s) EXCEPT !.snaps[op[s].snap] = NoVM])
              [] op[s].kind = "delete" -> SetInstance(s, NoInstance)
              [] op[s].kind = "destroy" -> record' = [record EXCEPT ![s] = NoRecord]
    IN
    /\ At(s, "forget")
    /\ \/ forgotten /\ Leave(s) /\ UNCHANGED bounds
       \/ Fails(s) /\ (forgotten \/ UNCHANGED record)
    /\ UNCHANGED <<host, genuine, late>>

-----------------------------------------------------------------------------
(* The host and the server.                                                  *)

BootEnds(v) ==
    /\ host[v] = "booting"
    /\ \/ host' = [host EXCEPT ![v] = "running"] /\ UNCHANGED late
       \/ host' = [host EXCEPT ![v] = "stopped"] /\ late' = late \ {v}
    /\ UNCHANGED <<genuine, record, op, mu, bounds>>

\* The guest shuts itself down.
ShutsDown(v) ==
    /\ host[v] = "running"
    /\ host' = [host EXCEPT ![v] = "stopped"]
    /\ late' = late \ {v}
    /\ UNCHANGED <<genuine, record, op, mu, bounds>>

Crash ==
    /\ crashes < MaxCrashes
    /\ crashes' = crashes + 1
    /\ op' = [s \in Sandboxes |-> Idle]
    /\ mu' = Nobody
    /\ late' = late \cup Booting
    /\ UNCHANGED <<host, genuine, record, failures>>

Request(s) ==
    \/ CreateSandbox(s)
    \/ DeleteSandbox(s)
    \/ \E i \in Instances :
        \/ CreateInstance(s, i)
        \/ StartInstance(s, i)
        \/ RestartInstance(s, i)
        \/ StopInstance(s, i)
        \/ DeleteInstance(s, i)
        \/ \E n \in Snapshots :
            CreateSnapshot(s, i, n) \/ RestoreSnapshot(s, i, n) \/ DeleteSnapshot(s, i, n)

Work(s) ==
    \/ ListToStart(s) \/ ListToCopy(s) \/ ListToDelete(s) \/ ListFails(s)
    \/ Map(s) \/ Clone(s) \/ Pin(s) \/ Undo(s) \/ Unmap(s)
    \/ Prepare(s) \/ Stop(s) \/ Run(s) \/ Poll(s)
    \/ Look(s) \/ Switch(s) \/ Purge(s) \/ Clear(s)
    \/ Sweep(s) \/ EndSweep(s) \/ Forget(s)

Next ==
    \/ \E s \in Sandboxes : Request(s) \/ TakeMu(s) \/ Work(s)
    \/ \E v \in VMs : BootEnds(v) \/ ShutsDown(v)
    \/ Crash

Spec == Init /\ [][Next]_vars

-----------------------------------------------------------------------------
(* The names that are made for an instance: its snapshots', and its own.     *)

SnapNames(s, i, n) == {SnapshotVM[s, i, n]} \cup SpareVMs[SnapshotVM[s, i, n]]
RestoreNames(s, i) ==
    UNION {{RestoreVM[s, i, n]} \cup SpareVMs[RestoreVM[s, i, n]] : n \in Snapshots}
OwnNames(s, i) == {InstanceVM[s, i]} \cup RestoreNames(s, i)

\* No two of them coincide.  The code puts names together with dashes: this is so
\* of instances and snapshots without any where no sandbox's name begins another's,
\* and not of "a-b" with "c" and "a" with "b-c".
DistinctNames ==
    \A s, t \in Sandboxes, i, j \in Instances :
        /\ InstanceVM[s, i] \notin RestoreNames(s, i)
        /\ s # t \/ i # j => OwnNames(s, i) \cap OwnNames(t, j) = {}
        /\ \A n \in Snapshots :
              /\ SnapNames(s, i, n) \cap OwnNames(t, j) = {}
              /\ \A m \in Snapshots :
                    s # t \/ i # j \/ n # m => SnapNames(s, i, n) \cap SnapNames(t, j, m) = {}

-----------------------------------------------------------------------------
\* No guest without a mapping: whatever failed or crashed half-way, every guest
\* made for a sandbox is named in a record, so a delete can find it.
NothingStray == Present \subseteq UNION {Mapped(s) : s \in Sandboxes}

\* At most MaxGuests guests are on, however starts of different sandboxes
\* interleave, except for guests that came up after their start was given up.
TwoAtMost == Cardinality((Running \cup Booting) \ late) <= MaxGuests

\* A snapshot's guest disappears only when that snapshot, its instance or its
\* sandbox is deleted, or the snapshot could not be completed: restoring one
\* retains it (README.md:109).
SnapshotsSurvive ==
    [][\A s \in Sandboxes, i \in Instances, n \in Snapshots :
        LET v == record[s][i].snaps[n] IN
        Has(s, i) /\ v \in Present /\ v \notin Present' =>
            \/ op[s].kind = "destroy"
            \/ op[s].kind = "delete" /\ op[s].inst = i
            \/ op[s].kind \in {"drop", "snapshot"} /\ op[s].inst = i /\ op[s].snap = n]_vars

\* A guest is copied only while it is off: a snapshot stops its guest and the
\* gate keeps it stopped; only a boot nobody waits for any more can get between.
CopiedCold ==
    [][\A s \in Sandboxes :
        At(s, "clone") /\ op'[s].at = "pin" /\ Source(s) \in Running \cup Booting
        => Source(s) \in late]_vars

\* A guest made from a seed boots with the seed's machine identifier, also when
\* the server died between cloning it and pinning it.
FirstBootPinned ==
    \A s \in Sandboxes, i \in Instances :
        InstanceVM[s, i] \in Running \cup Booting => InstanceVM[s, i] \in genuine

\* instance_snapshot.go describes a restore as recreating the instance from its
\* snapshot: so a restore never deletes the guest the instance is left with.
RestoreRecreates ==
    [][\A s \in Sandboxes, i \in Instances :
        Has(s, i) /\ record[s][i].vm \in Present /\ record[s][i].vm \notin Present' =>
            op[s].kind # "restore"]_vars
=============================================================================
