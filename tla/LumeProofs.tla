------------------------------ MODULE LumeProofs ------------------------------
(***************************************************************************)
(* Module LumeHost for any sandboxes, guests and bounds: its type, that no *)
(* guest on the host is without a mapping, and that the starts of all      *)
(* sandboxes together keep to the limit of the host; and, where the names  *)
(* of the guests are distinct, that they boot with the identifier of their *)
(* seed, are copied cold, and that snapshots survive what others do.       *)
(***************************************************************************)
EXTENDS LumeHost, FiniteSetTheorems, TLAPS

Files == [Instances -> InstanceRecords \cup {NoInstance}]
Ops == [at : Places, kind : Kinds, inst : Instances \cup {NoInstance},
        snap : Snapshots \cup {NoVM}, start : BOOLEAN, copy : VMs \cup {NoVM},
        seen : SUBSET VMs, todo : SUBSET VMs]

\* What an operation o of a sandbox may rely on about its record f.
Placed(o) ==
    /\ o.at = "mu" => o.kind \in Starts \cup {"create"}
    /\ o.at = "list" => o.kind # "stop"
    /\ o.at \in {"map", "clone", "undo", "unmap"} => o.kind \in Copies \cup {"create"}
    /\ o.at = "pin" => o.kind \in Copies \cup Starts \cup {"create"}
    /\ o.at \in {"prepare", "run", "poll"} => o.kind \in Starts \cup {"create"}
    /\ o.at = "stop" => o.kind \in {"stop", "restart", "snapshot", "restore"}
    /\ o.at \in {"look", "switch", "purge", "clear"} => o.kind = "restore"
    /\ o.at \in {"sweep", "sweepFailed", "forget"} => o.kind \in Deletes

Copying == {"clone", "pin", "undo", "unmap"}

Fits(o, f) ==
    /\ o.kind # "destroy" => o.inst \in Instances
    /\ o.kind \notin {"create", "destroy"} => f[o.inst] # NoInstance
    /\ o.kind \in {"snapshot", "restore", "drop"} => o.snap \in Snapshots
    /\ o.at \in Copying \cup {"map", "look", "switch"} => o.copy \in VMs
    /\ o.kind = "create" =>
          /\ o.at \in {"mu", "list", "map"} => f[o.inst] = NoInstance
          /\ o.at \in Copying => f[o.inst] = Fresh(o.copy)
          /\ o.at \in {"prepare", "run", "poll"} => f[o.inst] # NoInstance
    /\ o.kind = "snapshot" =>
          /\ o.at \in {"stop", "list", "map"} => f[o.inst].snaps[o.snap] = NoVM
          /\ o.at \in Copying => f[o.inst].snaps[o.snap] = o.copy
    /\ o.kind = "restore" =>
          /\ o.at \in {"list", "map"} =>
                f[o.inst].previous = NoVM /\ f[o.inst].pending = NoVM
          /\ o.at \in Copying \cup {"look", "stop", "switch"} =>
                /\ f[o.inst].previous = f[o.inst].vm /\ f[o.inst].pending = o.copy
                /\ o.copy \in VMs
          /\ o.at \in {"purge", "clear"} => f[o.inst].vm = f[o.inst].pending

\* Both ends of a restore are recorded and cleared together.
Paired(f) == \A i \in Instances : f[i] # NoInstance /\ f[i].previous = NoVM => f[i].pending = NoVM

Stands(o, f) ==
    /\ Placed(o)
    /\ o.at # "idle" => f # NoRecord /\ Fits(o, f)
    /\ f # NoRecord => Paired(f)

HostInv == TypeOK /\ \A s \in Sandboxes : Stands(op[s], record[s])

\* The guests a record f names, and the record an operation o is about to make of
\* it by forgetting.
Named(f) ==
    IF f = NoRecord THEN {}
    ELSE UNION {GuestsOf(f[i]) : i \in {j \in Instances : f[j] # NoInstance}}

Left(o, f) ==
    CASE o.at = "unmap" /\ o.kind = "create" -> [f EXCEPT ![o.inst] = NoInstance]
      [] o.at = "unmap" /\ o.kind = "snapshot" ->
            [f EXCEPT ![o.inst] = [f[o.inst] EXCEPT !.snaps[o.snap] = NoVM]]
      [] o.at = "clear" \/ (o.at = "unmap" /\ o.kind = "restore") ->
            [f EXCEPT ![o.inst] = [f[o.inst] EXCEPT !.previous = NoVM, !.pending = NoVM]]
      [] o.at \in {"sweep", "forget"} /\ o.kind = "drop" ->
            [f EXCEPT ![o.inst] = [f[o.inst] EXCEPT !.snaps[o.snap] = NoVM]]
      [] o.at \in {"sweep", "forget"} /\ o.kind = "delete" -> [f EXCEPT ![o.inst] = NoInstance]
      [] o.at \in {"sweep", "forget"} /\ o.kind = "destroy" -> NoRecord
      [] OTHER -> f

\* The guests it still names then, or deletes before.
Kept(o, f) == Named(Left(o, f)) \cup (IF o.at = "sweep" THEN o.todo \cap Named(f) ELSE {})

\* Every guest is kept by some sandbox.
AllKept == \A v \in Present : \E s \in Sandboxes : v \in Kept(op[s], record[s])

\* A start holds c.mu from its listing on, and none is booting meanwhile but its
\* own guest: what is on and not given up is among what it listed.
InMu(o) == (o.kind \in Starts \/ (o.kind = "create" /\ o.start)) /\ o.at \notin {"idle", "mu"}
Counted == (Running \cup Booting) \ late

StartsInv ==
    /\ \A s \in Sandboxes :
          /\ InMu(op[s]) => mu = s
          /\ op[s].at \in {"run", "poll"} => InMu(op[s])
          /\ InMu(op[s]) /\ op[s].at \notin {"list", "poll"} => Counted \subseteq op[s].seen
          /\ IsFiniteSet(op[s].seen)
    /\ \A v \in Booting \ late : \E s \in Sandboxes : At(s, "poll") /\ Guest(s) = v
    /\ IsFiniteSet(Present)
    /\ TwoAtMost

-----------------------------------------------------------------------------
(* Records and operations.                                                   *)

Forgetting == {"unmap", "clear", "sweep", "forget"}

RestOK ==
    /\ host \in [VMs -> {"absent", "stopped", "booting", "running"}]
    /\ genuine \subseteq VMs
    /\ late \subseteq VMs
    /\ failures \in 0..MaxFailures /\ crashes \in 0..MaxCrashes

LEMMA TypeParts ==
    TypeOK <=> /\ RestOK
               /\ op \in [Sandboxes -> Ops]
               /\ record \in [Sandboxes -> Files \cup {NoRecord}]
               /\ mu \in Sandboxes \cup {Nobody}
  BY DEF TypeOK, RestOK, Ops, Files

LEMMA NamedIs ==
    ASSUME NEW f, NEW v
    PROVE  v \in Named(f) <=>
              /\ f # NoRecord
              /\ \E i \in Instances : f[i] # NoInstance /\ v \in GuestsOf(f[i])
  BY DEF Named

LEMMA GuestsIs ==
    ASSUME NEW r, NEW v
    PROVE  v \in GuestsOf(r) <=>
              /\ v # NoVM
              /\ v = r.vm \/ v = r.previous \/ v = r.pending \/ \E n \in Snapshots : v = r.snaps[n]
  BY DEF GuestsOf

LEMMA IdleIs == Idle \in Ops /\ Idle.at = "idle" /\ Idle.seen = {}
  BY DEF Idle, Ops, Places, Kinds

LEMMA AtIs ==
    ASSUME NEW o \in Ops, NEW place \in Places
    PROVE  /\ [o EXCEPT !.at = place] \in Ops /\ [o EXCEPT !.at = place].at = place
           /\ \A g \in {"kind", "inst", "snap", "start", "copy", "seen", "todo"} :
                [o EXCEPT !.at = place][g] = o[g]
  BY DEF Ops

LEMMA GotoIs ==
    ASSUME op \in [Sandboxes -> Ops], NEW s \in Sandboxes, NEW place \in Places, Goto(s, place)
    PROVE  /\ op' = [op EXCEPT ![s] = [op[s] EXCEPT !.at = place]]
           /\ mu' = mu
  BY DEF Goto

\* An operation that returns leaves nothing, or starts the guest it had stopped.
LEMMA LeaveIs ==
    ASSUME op \in [Sandboxes -> Ops], NEW s \in Sandboxes, Leave(s)
    PROVE  \E o \in Ops :
              /\ op' = [op EXCEPT ![s] = o]
              /\ o = Idle \/ /\ op[s].kind = "snapshot" /\ o.at = "mu" /\ o.kind = "start"
                             /\ o.inst = op[s].inst
              /\ o.at \in {"idle", "mu"} /\ o.seen = {}
<1>1. CASE op[s].kind = "snapshot" /\ op[s].start
  <2> DEFINE o == [Idle EXCEPT !.at = "mu", !.kind = "start", !.start = TRUE, !.inst = op[s].inst]
  <2>1. op[s] \in Ops
    OBVIOUS
  <2>2. o \in Ops /\ o.at = "mu" /\ o.kind = "start" /\ o.inst = op[s].inst /\ o.seen = {}
    BY <2>1 DEF Idle, Ops, Places, Kinds
  <2>3. op' = [op EXCEPT ![s] = o]
    BY <1>1 DEF Leave, ThenStart
  <2> QED
    BY <1>1, <2>2, <2>3
<1>2. CASE ~(op[s].kind = "snapshot" /\ op[s].start)
  BY <1>2, IdleIs DEF Leave
<1> QED
  BY <1>1, <1>2

LEMMA LeaveMu ==
    ASSUME mu \in Sandboxes \cup {Nobody}, NEW s, Leave(s)
    PROVE  /\ mu' \in Sandboxes \cup {Nobody}
           /\ mu' = mu \/ (mu = s /\ mu' = Nobody)
  BY DEF Leave

LEMMA LeftSame ==
    ASSUME NEW o, NEW f, o.at \notin Forgetting
    PROVE  Left(o, f) = f /\ Kept(o, f) = Named(f)
  BY DEF Left, Kept, Forgetting

\* Forgetting a snapshot, a restore or an instance names no guest anew.
LEMMA SnapGone ==
    ASSUME NEW r \in InstanceRecords, NEW n
    PROVE  LET q == [r EXCEPT !.snaps[n] = NoVM] IN
           /\ q \in InstanceRecords /\ GuestsOf(q) \subseteq GuestsOf(r)
           /\ q.vm = r.vm /\ q.previous = r.previous /\ q.pending = r.pending
           /\ n \in Snapshots => q.snaps[n] = NoVM
           /\ n \in Snapshots => GuestsOf(r) \subseteq GuestsOf(q) \cup {r.snaps[n]}
<1> DEFINE q == [r EXCEPT !.snaps[n] = NoVM]
<1>1. /\ q \in InstanceRecords /\ q.vm = r.vm /\ q.previous = r.previous /\ q.pending = r.pending
      /\ \A m \in Snapshots : q.snaps[m] = IF m = n THEN NoVM ELSE r.snaps[m]
  BY DEF InstanceRecords
<1> HIDE DEF q
<1>2. /\ GuestsOf(q) \subseteq GuestsOf(r)
      /\ n \in Snapshots => GuestsOf(r) \subseteq GuestsOf(q) \cup {r.snaps[n]}
  BY <1>1, GuestsIs
<1> QED
  BY <1>1, <1>2 DEF q

LEMMA RestoreGone ==
    ASSUME NEW r \in InstanceRecords
    PROVE  LET q == [r EXCEPT !.previous = NoVM, !.pending = NoVM] IN
           /\ q \in InstanceRecords /\ GuestsOf(q) \subseteq GuestsOf(r)
           /\ q.vm = r.vm /\ q.snaps = r.snaps /\ q.previous = NoVM /\ q.pending = NoVM
           /\ GuestsOf(r) \subseteq GuestsOf(q) \cup {r.previous, r.pending}
<1> DEFINE q == [r EXCEPT !.previous = NoVM, !.pending = NoVM]
<1>1. /\ q \in InstanceRecords /\ q.vm = r.vm /\ q.previous = NoVM /\ q.pending = NoVM
      /\ q.snaps = r.snaps
  BY DEF InstanceRecords
<1> HIDE DEF q
<1>2. GuestsOf(q) \subseteq GuestsOf(r) /\ GuestsOf(r) \subseteq GuestsOf(q) \cup {r.previous, r.pending}
  BY <1>1, GuestsIs
<1> QED
  BY <1>1, <1>2 DEF q

\* One instance of a record replaced.
LEMMA NamedReplaced ==
    ASSUME NEW f, NEW g, NEW i \in Instances, NEW r, g # NoRecord, g[i] = r,
           \A j \in Instances \ {i} : g[j] = f[j]
    PROVE  \A v : v \in Named(g) <=>
                 \/ r # NoInstance /\ v \in GuestsOf(r)
                 \/ \E j \in Instances \ {i} : f[j] # NoInstance /\ v \in GuestsOf(f[j])
  BY NamedIs

LEMMA Replaced ==
    ASSUME NEW f \in Files, NEW i \in Instances, NEW r \in InstanceRecords \cup {NoInstance}
    PROVE  LET g == [f EXCEPT ![i] = r] IN
           g \in Files /\ g # NoRecord /\ g[i] = r /\ \A j \in Instances \ {i} : g[j] = f[j]
  BY NothingRecorded DEF Files

\* What an operation leaves was named before.
LEMMA KeptNamed ==
    ASSUME NEW o \in Ops, NEW f \in Files \cup {NoRecord}, Stands(o, f)
    PROVE  /\ Left(o, f) \in Files \cup {NoRecord}
           /\ f # NoRecord /\ Left(o, f) # NoRecord => Paired(Left(o, f))
           /\ Kept(o, f) \subseteq Named(f)
<1> SUFFICES /\ Left(o, f) \in Files \cup {NoRecord}
             /\ f # NoRecord /\ Left(o, f) # NoRecord => Paired(Left(o, f))
             /\ Named(Left(o, f)) \subseteq Named(f)
  BY DEF Kept
<1>1. CASE o.at \notin Forgetting
  BY <1>1, LeftSame DEF Stands
<1>2. CASE o.at \in {"sweep", "forget"} /\ o.kind = "destroy"
  BY <1>2, NamedIs DEF Left
<1>3. CASE o.at \in Forgetting /\ o.kind # "destroy"
  <2>1. /\ f \in Files /\ Fits(o, f) /\ o.inst \in Instances /\ Paired(f) /\ Placed(o)
        /\ f[o.inst] \in InstanceRecords \cup {NoInstance}
    BY <1>3 DEF Stands, Fits, Forgetting, Files
  <2> DEFINE i == o.inst
             r == f[i]
  <2>2. ASSUME NEW q \in InstanceRecords \cup {NoInstance},
               q # NoInstance => /\ r # NoInstance /\ GuestsOf(q) \subseteq GuestsOf(r)
                                 /\ q.previous = NoVM => q.pending = NoVM,
               Left(o, f) = [f EXCEPT ![i] = q]
        PROVE  /\ Left(o, f) \in Files /\ Paired(Left(o, f))
               /\ Named(Left(o, f)) \subseteq Named(f)
    <3> DEFINE g == [f EXCEPT ![i] = q]
    <3>1. g \in Files /\ g # NoRecord /\ g[i] = q /\ \A j \in Instances \ {i} : g[j] = f[j]
      BY <2>1, Replaced
    <3> HIDE DEF g
    <3>2. f # NoRecord
      BY <2>1, NothingRecorded DEF Files
    <3>3. Paired(g)
      BY <2>1, <2>2, <3>1 DEF Paired
    <3>4. Named(g) \subseteq Named(f)
      BY <2>1, <2>2, <3>1, <3>2, NamedIs, NamedReplaced
    <3> QED
      BY <2>2, <3>1, <3>3, <3>4 DEF g
  <2>3. CASE (o.at = "unmap" /\ o.kind = "create") \/ (o.at \in {"sweep", "forget"} /\ o.kind = "delete")
    <3>1. Left(o, f) = [f EXCEPT ![i] = NoInstance]
      BY <2>3 DEF Left
    <3> QED
      BY <2>2, <3>1
  <2>4. CASE (o.at = "unmap" /\ o.kind = "snapshot") \/ (o.at \in {"sweep", "forget"} /\ o.kind = "drop")
    <3> DEFINE q == [r EXCEPT !.snaps[o.snap] = NoVM]
    <3>1. r \in InstanceRecords /\ r # NoInstance
      BY <2>1, <2>4 DEF Fits
    <3>2. q \in InstanceRecords /\ GuestsOf(q) \subseteq GuestsOf(r)
          /\ q.previous = r.previous /\ q.pending = r.pending
      BY <3>1, SnapGone
    <3>3. Left(o, f) = [f EXCEPT ![i] = q]
      BY <2>4 DEF Left
    <3>4. q.previous = NoVM => q.pending = NoVM
      BY <2>1, <3>1, <3>2 DEF Paired
    <3> HIDE DEF q
    <3> QED
      BY <2>2, <3>1, <3>2, <3>3, <3>4
  <2>5. CASE o.at = "clear" \/ (o.at = "unmap" /\ o.kind = "restore")
    <3> DEFINE q == [r EXCEPT !.previous = NoVM, !.pending = NoVM]
    <3>1. r \in InstanceRecords /\ r # NoInstance
      BY <2>1, <2>5 DEF Fits, Placed
    <3>2. q \in InstanceRecords /\ GuestsOf(q) \subseteq GuestsOf(r)
          /\ q.previous = NoVM /\ q.pending = NoVM
      BY <3>1, RestoreGone
    <3>3. Left(o, f) = [f EXCEPT ![i] = q]
      BY <2>5 DEF Left
    <3> HIDE DEF q
    <3> QED
      BY <2>2, <3>1, <3>2, <3>3
  <2>6. \/ (o.at = "unmap" /\ o.kind = "create") \/ (o.at \in {"sweep", "forget"} /\ o.kind = "delete")
        \/ (o.at = "unmap" /\ o.kind = "snapshot") \/ (o.at \in {"sweep", "forget"} /\ o.kind = "drop")
        \/ o.at = "clear" \/ (o.at = "unmap" /\ o.kind = "restore")
    BY <1>3, <2>1 DEF Placed, Forgetting, Copies, Deletes
  <2> QED
    BY <2>3, <2>4, <2>5, <2>6
<1> QED
  <2>1. o.at \in Forgetting /\ o.kind = "destroy" => o.at \in {"sweep", "forget"}
    BY DEF Stands, Placed, Forgetting, Copies
  <2> QED
    BY <1>1, <1>2, <1>3, <2>1

-----------------------------------------------------------------------------
(* A step of one sandbox, by what it makes of its operation and its record.  *)

Sound == HostInv /\ AllKept

LEMMA Stepped ==
    ASSUME HostInv, AllKept, NEW s \in Sandboxes, NEW o \in Ops, NEW f \in Files \cup {NoRecord},
           op' = [op EXCEPT ![s] = o], record' = [record EXCEPT ![s] = f],
           Stands(o, f), RestOK', mu' \in Sandboxes \cup {Nobody},
           \A v \in Present' :
              \/ v \in Present /\ v \notin Kept(op[s], record[s])
              \/ v \in Kept(o, f)
    PROVE  Sound'
<1>1. op \in [Sandboxes -> Ops] /\ record \in [Sandboxes -> Files \cup {NoRecord}]
  BY TypeParts DEF HostInv
<1>2. /\ op' \in [Sandboxes -> Ops] /\ record' \in [Sandboxes -> Files \cup {NoRecord}]
      /\ op'[s] = o /\ record'[s] = f
      /\ \A t \in Sandboxes \ {s} : op'[t] = op[t] /\ record'[t] = record[t]
  BY <1>1
<1>3. TypeOK'
  <2>1. RestOK' /\ op' \in [Sandboxes -> Ops] /\ record' \in [Sandboxes -> Files \cup {NoRecord}]
        /\ mu' \in Sandboxes \cup {Nobody}
    BY <1>2
  <2> QED
    BY <2>1 DEF TypeOK, RestOK, Ops, Files
<1>4. \A t \in Sandboxes : Stands(op'[t], record'[t])
  BY <1>2 DEF HostInv
<1>5. AllKept'
  <2> SUFFICES ASSUME NEW v \in Present' PROVE \E t \in Sandboxes : v \in Kept(op'[t], record'[t])
    BY DEF AllKept
  <2>1. CASE v \in Kept(o, f)
    BY <1>2, <2>1
  <2>2. CASE v \in Present /\ v \notin Kept(op[s], record[s])
    BY <1>2, <2>2 DEF AllKept
  <2> QED
    BY <2>1, <2>2
<1> QED
  BY <1>3, <1>4, <1>5 DEF Sound, HostInv

\* The operation moves on, and forgets nothing yet.
LEMMA MovesOn ==
    ASSUME HostInv, AllKept, NEW s \in Sandboxes, NEW o \in Ops, o.at \notin Forgetting,
           op' = [op EXCEPT ![s] = o], record' = record, Stands(o, record[s]),
           RestOK', mu' \in Sandboxes \cup {Nobody}, Present' \subseteq Present
    PROVE  Sound'
<1>1. record \in [Sandboxes -> Files \cup {NoRecord}] /\ op \in [Sandboxes -> Ops]
  BY TypeParts DEF HostInv
<1>2. record' = [record EXCEPT ![s] = record[s]] /\ record[s] \in Files \cup {NoRecord}
  BY <1>1
<1>3. Kept(op[s], record[s]) \subseteq Named(record[s]) /\ Kept(o, record[s]) = Named(record[s])
  BY <1>1, <1>2, KeptNamed, LeftSame DEF HostInv
<1>4. \A v \in Present' :
              \/ v \in Present /\ v \notin Kept(op[s], record[s])
              \/ v \in Kept(o, record[s])
  BY <1>3
<1> QED
  BY <1>2, <1>4, Stepped

\* The operation returns with f for its record.
LEMMA LeavesWith ==
    ASSUME HostInv, AllKept, NEW s \in Sandboxes, NEW f \in Files \cup {NoRecord},
           op[s].at # "idle", Leave(s), record' = [record EXCEPT ![s] = f],
           f # NoRecord => Paired(f),
           op[s].kind = "snapshot" => f # NoRecord /\ f[op[s].inst] # NoInstance,
           RestOK', Present' \subseteq Present,
           \A v \in Present' : v \in Kept(op[s], record[s]) => v \in Named(f)
    PROVE  Sound'
<1>1. op \in [Sandboxes -> Ops] /\ mu \in Sandboxes \cup {Nobody}
  BY TypeParts DEF HostInv
<1>2. mu' \in Sandboxes \cup {Nobody}
  BY <1>1, LeaveMu
<1>3. PICK o \in Ops : /\ op' = [op EXCEPT ![s] = o]
                       /\ o = Idle \/ /\ op[s].kind = "snapshot" /\ o.at = "mu" /\ o.kind = "start"
                                      /\ o.inst = op[s].inst
  BY <1>1, LeaveIs
<1>4. Stands(o, f) /\ o.at \notin Forgetting
  <2>1. CASE o = Idle
    BY <2>1, IdleIs DEF Stands, Placed, Forgetting
  <2>2. CASE op[s].kind = "snapshot" /\ o.at = "mu" /\ o.kind = "start" /\ o.inst = op[s].inst
    <3>1. op[s].inst \in Instances
      BY <2>2 DEF HostInv, Stands, Fits
    <3> QED
      BY <2>2, <3>1 DEF Stands, Placed, Fits, Forgetting, Starts, Copying
  <2> QED
    BY <1>3, <2>1, <2>2
<1>5. Kept(o, f) = Named(f)
  BY <1>4, LeftSame
<1>6. \A v \in Present' :
              \/ v \in Present /\ v \notin Kept(op[s], record[s])
              \/ v \in Kept(o, f)
  BY <1>5
<1> QED
  BY <1>2, <1>3, <1>4, <1>6, Stepped

LEMMA Leaves ==
    ASSUME HostInv, AllKept, NEW s \in Sandboxes, op[s].at # "idle", Leave(s), record' = record,
           RestOK', Present' \subseteq Present
    PROVE  Sound'
<1>1. record \in [Sandboxes -> Files \cup {NoRecord}] /\ op \in [Sandboxes -> Ops]
  BY TypeParts DEF HostInv
<1>2. record' = [record EXCEPT ![s] = record[s]] /\ record[s] \in Files \cup {NoRecord} /\ op[s] \in Ops
  BY <1>1
<1>3. Kept(op[s], record[s]) \subseteq Named(record[s])
  BY <1>2, KeptNamed DEF HostInv
<1>4. Stands(op[s], record[s]) /\ record[s] # NoRecord
  BY DEF HostInv, Stands
<1>5. Paired(record[s]) /\ (op[s].kind = "snapshot" => record[s][op[s].inst] # NoInstance)
  BY <1>4 DEF Stands, Fits
<1> QED
  BY <1>2, <1>3, <1>4, <1>5, LeavesWith

\* The operation returns having written what it was to leave.
-----------------------------------------------------------------------------
(* The actions keep a sound host sound.                                      *)

LEMMA Facts ==
    ASSUME Sound
    PROVE  /\ HostInv /\ AllKept /\ RestOK
           /\ op \in [Sandboxes -> Ops]
           /\ record \in [Sandboxes -> Files \cup {NoRecord}]
           /\ mu \in Sandboxes \cup {Nobody}
           /\ \A s \in Sandboxes : op[s] \in Ops /\ Stands(op[s], record[s])
  BY TypeParts DEF Sound, HostInv

\* A record f on which an operation of this kind may begin.
Admits(f, place, kind, i, n) ==
    \A o \in Ops : o.at = place /\ o.kind = kind /\ o.inst = i /\ o.snap = n
                  => Placed(o) /\ Fits(o, f)

LEMMA BeginKept ==
    ASSUME Sound, NEW s \in Sandboxes, NEW place \in Places \ (Forgetting \cup {"idle"}), NEW kind,
           NEW i \in Instances \cup {NoInstance}, NEW n \in Snapshots \cup {NoVM},
           NEW start \in BOOLEAN, kind \in Kinds, Begin(s, place, kind, i, n, start),
           Admits(record[s], place, kind, i, n)
    PROVE  Sound'
<1>1. record[s] # NoRecord /\ UNCHANGED <<host, genuine, record, mu, late, bounds>>
  BY DEF Begin
<1> DEFINE o == [Idle EXCEPT !.at = place, !.kind = kind, !.inst = i, !.snap = n, !.start = start]
<1>2. o \in Ops /\ o.at = place /\ o.kind = kind /\ o.inst = i /\ o.snap = n
  BY IdleIs DEF Ops
<1>3. op' = [op EXCEPT ![s] = o]
  BY DEF Begin
<1> HIDE DEF o
<1>4. Stands(o, record[s])
  BY <1>1, <1>2, Facts DEF Stands, Admits
<1>5. RestOK' /\ mu' \in Sandboxes \cup {Nobody} /\ Present' \subseteq Present
  BY <1>1, Facts DEF RestOK, bounds, Present
<1> QED
  BY <1>1, <1>2, <1>3, <1>4, <1>5, Facts, MovesOn

LEMMA CreateSandboxKept ==
    ASSUME Sound, NEW s \in Sandboxes, CreateSandbox(s) PROVE Sound'
<1> DEFINE f == [i \in Instances |-> NoInstance]
<1>1. f \in Files /\ f # NoRecord /\ Paired(f)
  BY NothingRecorded DEF Files, Paired
<1>2. /\ op[s] = Idle /\ record[s] = NoRecord /\ record' = [record EXCEPT ![s] = f]
      /\ UNCHANGED <<host, genuine, op, mu, late, bounds>>
  BY DEF CreateSandbox
<1> HIDE DEF f
<1>3. op' = [op EXCEPT ![s] = Idle]
  BY <1>2, Facts
<1>4. Stands(Idle, f)
  BY <1>1, IdleIs DEF Stands, Placed
<1>5. RestOK' /\ mu' \in Sandboxes \cup {Nobody} /\ Present' \subseteq Present
  BY <1>2, Facts DEF RestOK, bounds, Present
<1>6. Kept(op[s], record[s]) = {}
  BY <1>2, IdleIs, LeftSame DEF Named, Forgetting
<1> QED
  BY <1>1, <1>2, <1>3, <1>4, <1>5, <1>6, IdleIs, Facts, Stepped

LEMMA RequestKept ==
    ASSUME Sound, NEW s \in Sandboxes, Request(s) PROVE Sound'
<1>1. /\ "mu" \in Places \ (Forgetting \cup {"idle"}) /\ "list" \in Places \ (Forgetting \cup {"idle"})
      /\ "stop" \in Places \ (Forgetting \cup {"idle"})
  BY DEF Places, Forgetting
<1>2. CASE DeleteSandbox(s)
  <2>1. Begin(s, "list", "destroy", NoInstance, NoVM, FALSE)
    BY <1>2 DEF DeleteSandbox
  <2>2. Admits(record[s], "list", "destroy", NoInstance, NoVM)
    BY DEF Admits, Placed, Fits, Copying
  <2> QED
    BY <1>1, <2>1, <2>2, BeginKept DEF Kinds
<1>3. ASSUME NEW i \in Instances, CreateInstance(s, i) PROVE Sound'
  <2>1. PICK start \in BOOLEAN :
           Begin(s, IF start THEN "mu" ELSE "list", "create", i, NoVM, start)
    BY <1>3 DEF CreateInstance
  <2>2. record[s][i] = NoInstance
    BY <1>3, <2>1 DEF CreateInstance, Has, Begin
  <2>3. ASSUME NEW place \in {"mu", "list"}, Begin(s, place, "create", i, NoVM, start) PROVE Sound'
    <3>1. Admits(record[s], place, "create", i, NoVM)
      BY <2>2 DEF Admits, Placed, Fits, Copying
    <3> QED
      BY <1>1, <2>3, <3>1, BeginKept DEF Kinds
  <2> QED
    BY <2>1, <2>3
<1>4. ASSUME NEW i \in Instances, Has(s, i), NEW kind \in {"start", "restart"},
             Begin(s, "mu", kind, i, NoVM, TRUE)
      PROVE  Sound'
  <2>1. Admits(record[s], "mu", kind, i, NoVM)
    BY <1>4 DEF Admits, Placed, Fits, Copying, Starts, Has
  <2> QED
    BY <1>1, <1>4, <2>1, BeginKept DEF Kinds
<1>5. ASSUME NEW i \in Instances, StopInstance(s, i) PROVE Sound'
  <2>1. Has(s, i) /\ Begin(s, "stop", "stop", i, NoVM, FALSE)
    BY <1>5 DEF StopInstance
  <2>2. Admits(record[s], "stop", "stop", i, NoVM)
    BY <2>1 DEF Admits, Placed, Fits, Copying, Has
  <2> QED
    BY <1>1, <2>1, <2>2, BeginKept DEF Kinds
<1>6. ASSUME NEW i \in Instances, DeleteInstance(s, i) PROVE Sound'
  <2>1. Has(s, i) /\ Begin(s, "list", "delete", i, NoVM, FALSE)
    BY <1>6 DEF DeleteInstance
  <2>2. Admits(record[s], "list", "delete", i, NoVM)
    BY <2>1 DEF Admits, Placed, Fits, Copying, Has
  <2> QED
    BY <1>1, <2>1, <2>2, BeginKept DEF Kinds
<1>7. ASSUME NEW i \in Instances, NEW n \in Snapshots, CreateSnapshot(s, i, n) PROVE Sound'
  <2>1. PICK place \in {"stop", "list"} : Begin(s, place, "snapshot", i, n, FALSE)
    BY <1>7 DEF CreateSnapshot
  <2>2. record[s][i] # NoInstance /\ record[s][i].snaps[n] = NoVM
    BY <1>7 DEF CreateSnapshot, Has
  <2>3. Admits(record[s], place, "snapshot", i, n)
    BY <2>2 DEF Admits, Placed, Fits, Copying
  <2> QED
    BY <1>1, <2>1, <2>3, BeginKept DEF Kinds
<1>8. ASSUME NEW i \in Instances, NEW n \in Snapshots, RestoreSnapshot(s, i, n) PROVE Sound'
  <2>1. Begin(s, "list", "restore", i, n, FALSE)
    BY <1>8 DEF RestoreSnapshot
  <2>2. /\ record[s] # NoRecord /\ record[s][i] # NoInstance /\ record[s][i].previous = NoVM
        /\ Paired(record[s])
    BY <1>8, Facts DEF RestoreSnapshot, Has, Unfinished, Stands
  <2>3. record[s][i].pending = NoVM
    BY <2>2 DEF Paired
  <2>4. Admits(record[s], "list", "restore", i, n)
    BY <2>2, <2>3 DEF Admits, Placed, Fits, Copying
  <2> QED
    BY <1>1, <2>1, <2>4, BeginKept DEF Kinds
<1>9. ASSUME NEW i \in Instances, NEW n \in Snapshots, DeleteSnapshot(s, i, n) PROVE Sound'
  <2>1. Has(s, i) /\ Begin(s, "list", "drop", i, n, FALSE)
    BY <1>9 DEF DeleteSnapshot
  <2>2. Admits(record[s], "list", "drop", i, n)
    BY <2>1 DEF Admits, Placed, Fits, Copying, Has
  <2> QED
    BY <1>1, <2>1, <2>2, BeginKept DEF Kinds
<1> QED
  BY <1>2, <1>3, <1>4, <1>5, <1>6, <1>7, <1>8, <1>9, CreateSandboxKept
     DEF Request, StartInstance, RestartInstance

BoundsOK == failures \in 0..MaxFailures /\ crashes \in 0..MaxCrashes

LEMMA BoundsKept ==
    ASSUME Sound
    PROVE  /\ UNCHANGED bounds => BoundsOK'
           /\ failures < MaxFailures /\ failures' = failures + 1 /\ UNCHANGED crashes => BoundsOK'
           /\ \A s : Fails(s) => BoundsOK' /\ Leave(s)
  BY Facts, GuestLimit DEF RestOK, BoundsOK, bounds, Fails

LEMMA HostKept ==
    ASSUME Sound, UNCHANGED <<host, genuine, late>>, BoundsOK'
    PROVE  RestOK' /\ Present' = Present
  BY Facts DEF RestOK, BoundsOK, Present

\* A host call fails and the operation returns.
LEMMA Failing ==
    ASSUME Sound, NEW s \in Sandboxes, op[s].at # "idle", Fails(s), record' = record,
           RestOK', Present' \subseteq Present
    PROVE  Sound'
  BY Facts, BoundsKept, Leaves

\* A place the operation of s may go to as it is.
Allows(s, place) ==
    \A o \in Ops : /\ o.at = place /\ o.kind = op[s].kind /\ o.inst = op[s].inst
                   /\ o.snap = op[s].snap /\ o.copy = op[s].copy
                   => Placed(o) /\ Fits(o, record[s])

LEMMA Allowed ==
    ASSUME Sound, NEW s \in Sandboxes, op[s].at # "idle", NEW place \in Places \ Forgetting,
           Allows(s, place), NEW o \in Ops, op' = [op EXCEPT ![s] = o], o.at = place,
           o.kind = op[s].kind, o.inst = op[s].inst, o.snap = op[s].snap, o.copy = op[s].copy,
           UNCHANGED <<record, mu>>, RestOK', Present' \subseteq Present
    PROVE  Sound'
<1>1. Stands(o, record[s])
  BY Facts DEF Allows, Stands
<1> QED
  BY <1>1, Facts, MovesOn

LEMMA GotoKept ==
    ASSUME Sound, NEW s \in Sandboxes, op[s].at # "idle", NEW place \in Places \ Forgetting,
           Goto(s, place), Allows(s, place), record' = record, RestOK', Present' \subseteq Present
    PROVE  Sound'
<1> DEFINE o == [op[s] EXCEPT !.at = place]
<1>1. /\ o \in Ops /\ o.at = place /\ o.kind = op[s].kind /\ o.inst = op[s].inst
      /\ o.snap = op[s].snap /\ o.copy = op[s].copy
  BY Facts DEF Ops
<1>2. op' = [op EXCEPT ![s] = o] /\ mu' = mu
  BY Facts, GotoIs
<1> HIDE DEF o
<1> QED
  BY <1>1, <1>2, Allowed

LEMMA TakeMuKept ==
    ASSUME Sound, NEW s \in Sandboxes, TakeMu(s) PROVE Sound'
<1> DEFINE o == [op[s] EXCEPT !.at = "list"]
<1>1. /\ o \in Ops /\ o.at = "list" /\ o.kind = op[s].kind /\ o.inst = op[s].inst
      /\ o.snap = op[s].snap /\ o.copy = op[s].copy
  BY Facts DEF Ops, Places
<1>2. /\ op' = [op EXCEPT ![s] = o] /\ op[s].at = "mu" /\ mu' = s
      /\ UNCHANGED <<host, genuine, record, late, bounds>>
  BY Facts DEF TakeMu, At
<1> HIDE DEF o
<1>3. Stands(o, record[s]) /\ o.at \notin Forgetting
  BY <1>1, <1>2, Facts DEF Stands, Placed, Fits, Forgetting, Copying, Starts
<1> QED
  BY <1>1, <1>2, <1>3, Facts, BoundsKept, HostKept, MovesOn

LEMMA GuestIs ==
    ASSUME Sound, NEW s \in Sandboxes, op[s].at # "idle", op[s].kind # "destroy"
    PROVE  /\ record[s] \in Files /\ op[s].inst \in Instances
           /\ Inst(s) = record[s][op[s].inst]
           /\ Inst(s) # NoInstance => Inst(s) \in InstanceRecords
           /\ op[s].kind = "create" \/ Inst(s) # NoInstance => Guest(s) \in VMs
<1>1. /\ record[s] \in Files /\ op[s].inst \in Instances /\ Inst(s) = record[s][op[s].inst]
      /\ Inst(s) # NoInstance => Inst(s) \in InstanceRecords
  BY Facts DEF Stands, Fits, Inst, Files
<1>2. op[s].kind = "create" \/ Inst(s) # NoInstance => Guest(s) \in VMs
  BY <1>1, NamesOfGuests DEF Guest, InstanceRecords
<1> QED
  BY <1>1, <1>2

LEMMA ListToStartKept ==
    ASSUME Sound, NEW s \in Sandboxes, ListToStart(s) PROVE Sound'
<1>1. /\ op[s].at = "list" /\ op[s].kind \in Starts \cup {"create"}
      /\ UNCHANGED <<host, genuine, record, late, bounds>>
  BY DEF ListToStart, At
<1>2. RestOK' /\ Present' = Present
  BY <1>1, BoundsKept, HostKept
<1>3. CASE Leave(s)
  BY <1>1, <1>2, <1>3, Facts, Leaves
<1>4. CASE /\ op' = [op EXCEPT ![s].at = AfterListing(s), ![s].seen = Running, ![s].copy = Guest(s)]
           /\ UNCHANGED mu
  <2> DEFINE o == [op[s] EXCEPT !.at = AfterListing(s), !.seen = Running, !.copy = Guest(s)]
  <2>1. /\ AfterListing(s) \in {"map", "pin", "stop", "run"}
        /\ op[s].kind = "create" <=> AfterListing(s) = "map"
        /\ AfterListing(s) = "stop" => op[s].kind = "restart"
    BY <1>1 DEF AfterListing, Starts
  <2>2. Guest(s) \in VMs
    BY <1>1, GuestIs, Facts DEF Stands, Fits, Starts, Inst
  <2>3. /\ o \in Ops /\ o.at = AfterListing(s) /\ o.kind = op[s].kind /\ o.inst = op[s].inst
        /\ o.snap = op[s].snap /\ o.copy = Guest(s)
    BY <2>1, <2>2, Facts DEF Ops, Places, Running
  <2>4. op' = [op EXCEPT ![s] = o]
    BY <1>4, Facts
  <2> HIDE DEF o
  <2>5. Stands(o, record[s]) /\ o.at \notin Forgetting
    BY <1>1, <2>1, <2>2, <2>3, Facts DEF Stands, Placed, Fits, Forgetting, Copying, Starts
  <2> QED
    BY <1>1, <1>2, <1>4, <2>3, <2>4, <2>5, Facts, MovesOn
<1> QED
  BY <1>3, <1>4 DEF ListToStart

LEMMA ListToCopyKept ==
    ASSUME Sound, NEW s \in Sandboxes, ListToCopy(s) PROVE Sound'
<1> DEFINE names == IF op[s].kind = "snapshot" THEN SnapshotVM ELSE RestoreVM
           name == names[s, op[s].inst, op[s].snap]
<1>1. /\ op[s].at = "list" /\ op[s].kind \in Copies
      /\ UNCHANGED <<host, genuine, record, mu, late, bounds>>
  BY DEF ListToCopy, At
<1>2. PICK v \in FreeNames(name) : op' = [op EXCEPT ![s].at = "map", ![s].copy = v]
  BY DEF ListToCopy
<1>3. name \in VMs
  <2>1. op[s].inst \in Instances /\ op[s].snap \in Snapshots
    BY <1>1, Facts DEF Stands, Fits, Copies
  <2>2. <<s, op[s].inst, op[s].snap>> \in Sandboxes \X Instances \X Snapshots
    BY <2>1
  <2> QED
    BY <2>2, NamesOfGuests
<1>4. v \in VMs
  BY <1>2, <1>3, NamesOfGuests DEF FreeNames
<1> HIDE DEF name
<1> DEFINE o == [op[s] EXCEPT !.at = "map", !.copy = v]
<1>5. /\ o \in Ops /\ o.at = "map" /\ o.kind = op[s].kind /\ o.inst = op[s].inst
      /\ o.snap = op[s].snap /\ o.copy = v
  BY <1>4, Facts DEF Ops, Places
<1>6. op' = [op EXCEPT ![s] = o]
  BY <1>2, Facts
<1> HIDE DEF o
<1>7. Stands(o, record[s]) /\ o.at \notin Forgetting
  BY <1>1, <1>4, <1>5, Facts DEF Stands, Placed, Fits, Forgetting, Copying, Copies
<1>8. RestOK' /\ Present' = Present
  BY <1>1, BoundsKept, HostKept
<1>9. UNCHANGED <<record, mu>> /\ Present' \subseteq Present
  BY <1>1, <1>8
<1> QED
  BY <1>5, <1>6, <1>7, <1>8, <1>9, Facts, MovesOn

LEMMA ListFailsKept ==
    ASSUME Sound, NEW s \in Sandboxes, ListFails(s) PROVE Sound'
<1>1. op[s].at = "list" /\ Fails(s) /\ UNCHANGED <<host, genuine, record, late>>
  BY DEF ListFails, At
<1> QED
  BY <1>1, BoundsKept, HostKept, Failing

\* The instance of the operation gets the record q.
LEMMA SetIs ==
    ASSUME Sound, NEW s \in Sandboxes, op[s].at # "idle", op[s].kind # "destroy",
           NEW q \in InstanceRecords \cup {NoInstance}, SetInstance(s, q),
           q # NoInstance /\ q.previous = NoVM => q.pending = NoVM
    PROVE  \E f \in Files :
              /\ record' = [record EXCEPT ![s] = f] /\ f # NoRecord /\ f[op[s].inst] = q
              /\ f = [record[s] EXCEPT ![op[s].inst] = q]
              /\ \A j \in Instances \ {op[s].inst} : f[j] = record[s][j]
              /\ Paired(f)
<1> DEFINE f == [record[s] EXCEPT ![op[s].inst] = q]
<1>1. record[s] \in Files /\ op[s].inst \in Instances /\ Paired(record[s]) /\ record[s] # NoRecord
  BY GuestIs, Facts DEF Stands
<1>2. /\ f \in Files /\ f # NoRecord /\ f[op[s].inst] = q
      /\ \A j \in Instances \ {op[s].inst} : f[j] = record[s][j]
  BY <1>1, Replaced
<1>3. record' = [record EXCEPT ![s] = f]
  BY Facts DEF SetInstance
<1> HIDE DEF f
<1>4. Paired(f)
  BY <1>1, <1>2 DEF Paired
<1> QED
  BY <1>2, <1>3, <1>4 DEF f

\* It keeps the guests it named.
Grows(s, q) ==
    /\ q.previous = NoVM => q.pending = NoVM
    /\ Inst(s) # NoInstance => GuestsOf(Inst(s)) \subseteq GuestsOf(q)

LEMMA GrowsIs ==
    ASSUME Sound, NEW s \in Sandboxes, op[s].at # "idle", op[s].kind # "destroy",
           NEW q \in InstanceRecords, SetInstance(s, q), Grows(s, q)
    PROVE  \E f \in Files :
              /\ record' = [record EXCEPT ![s] = f] /\ f # NoRecord /\ f[op[s].inst] = q
              /\ Paired(f) /\ Kept(op[s], record[s]) \subseteq Named(f)
<1>1. PICK f \in Files :
              /\ record' = [record EXCEPT ![s] = f] /\ f # NoRecord /\ f[op[s].inst] = q
              /\ \A j \in Instances \ {op[s].inst} : f[j] = record[s][j]
              /\ Paired(f)
  BY SetIs DEF Grows
<1>2. q # NoInstance /\ op[s].inst \in Instances /\ Inst(s) = record[s][op[s].inst]
  BY NothingRecorded, GuestIs
<1>3. Named(record[s]) \subseteq Named(f)
  BY <1>1, <1>2, NamedIs DEF Grows
<1>4. Kept(op[s], record[s]) \subseteq Named(record[s])
  BY Facts, KeptNamed
<1> QED
  BY <1>1, <1>3, <1>4

LEMMA GrowsLeaving ==
    ASSUME Sound, NEW s \in Sandboxes, op[s].at # "idle", op[s].kind # "destroy",
           NEW q \in InstanceRecords, SetInstance(s, q) \/ UNCHANGED record, Grows(s, q), Leave(s),
           BoundsOK', UNCHANGED <<host, genuine, late>>
    PROVE  Sound'
<1>1. RestOK' /\ Present' \subseteq Present
  BY HostKept
<1>2. CASE UNCHANGED record
  BY <1>1, <1>2, Facts, Leaves
<1>3. CASE SetInstance(s, q)
  <2>1. PICK f \in Files :
              /\ record' = [record EXCEPT ![s] = f] /\ f # NoRecord /\ f[op[s].inst] = q
              /\ Paired(f) /\ Kept(op[s], record[s]) \subseteq Named(f)
    BY <1>3, GrowsIs
  <2>2. f[op[s].inst] # NoInstance
    BY <2>1, NothingRecorded
  <2>3. \A v \in Present' : v \in Kept(op[s], record[s]) => v \in Named(f)
    BY <2>1
  <2> QED
    BY <1>1, <2>1, <2>2, <2>3, Facts, LeavesWith
<1> QED
  BY <1>2, <1>3

\* A place the operation may go to once its instance has the record q.
AllowsWith(s, place, q) ==
    \A o \in Ops, f \in Files :
        /\ o.at = place /\ o.kind = op[s].kind /\ o.inst = op[s].inst
        /\ o.snap = op[s].snap /\ o.copy = op[s].copy /\ f[o.inst] = q
        => Placed(o) /\ Fits(o, f)

LEMMA UpdateKept ==
    ASSUME Sound, NEW s \in Sandboxes, op[s].at # "idle", op[s].kind # "destroy",
           NEW q \in InstanceRecords, Grows(s, q), NEW place \in Places \ (Forgetting \cup {"idle"}),
           AllowsWith(s, place, q), Update(s, q, place), UNCHANGED <<host, genuine, late>>
    PROVE  Sound'
<1>1. CASE Fails(s) /\ (SetInstance(s, q) \/ UNCHANGED record)
  BY <1>1, BoundsKept, GrowsLeaving
<1>2. CASE SetInstance(s, q) /\ Goto(s, place) /\ UNCHANGED bounds
  <2>1. PICK f \in Files :
              /\ record' = [record EXCEPT ![s] = f] /\ f # NoRecord /\ f[op[s].inst] = q
              /\ Paired(f) /\ Kept(op[s], record[s]) \subseteq Named(f)
    BY <1>2, GrowsIs
  <2> DEFINE o == [op[s] EXCEPT !.at = place]
  <2>2. /\ o \in Ops /\ o.at = place /\ o.kind = op[s].kind /\ o.inst = op[s].inst
        /\ o.snap = op[s].snap /\ o.copy = op[s].copy
    BY Facts DEF Ops
  <2>3. op' = [op EXCEPT ![s] = o] /\ mu' = mu
    BY <1>2, Facts, GotoIs
  <2> HIDE DEF o
  <2>4. Stands(o, f) /\ o.at \notin Forgetting
    BY <2>1, <2>2 DEF AllowsWith, Stands
  <2>5. RestOK' /\ Present' = Present
    BY <1>2, BoundsKept, HostKept
  <2>6. \A v \in Present' : \/ v \in Present /\ v \notin Kept(op[s], record[s])
                            \/ v \in Kept(o, f)
    BY <2>1, <2>4, <2>5, LeftSame
  <2> QED
    BY <2>1, <2>2, <2>3, <2>4, <2>5, <2>6, Facts, Stepped
<1> QED
  BY <1>1, <1>2 DEF Update

LEMMA MapKept ==
    ASSUME Sound, NEW s \in Sandboxes, Map(s) PROVE Sound'
<1>1. /\ op[s].at = "map" /\ op[s].kind \in Copies \cup {"create"} /\ op[s].kind # "destroy"
      /\ op[s].copy \in VMs /\ op[s].copy # NoVM
      /\ Update(s, WithCopy(s), "clone") /\ UNCHANGED <<host, genuine, late>>
  BY Facts, Absences DEF Map, At, Stands, Placed, Fits, Copies
<1> DEFINE q == WithCopy(s)
           c == op[s].copy
<1>2. /\ q \in InstanceRecords /\ Grows(s, q)
      /\ op[s].kind = "create" => q = Fresh(c)
      /\ op[s].kind = "snapshot" => q.snaps[op[s].snap] = c
      /\ op[s].kind = "restore" => q.previous = q.vm /\ q.pending = c
  <2>1. CASE op[s].kind = "create"
    <3>1. Inst(s) = NoInstance /\ q = Fresh(c)
      BY <1>1, <2>1, Facts DEF Stands, Fits, Inst, WithCopy
    <3>2. Fresh(c) \in InstanceRecords /\ Fresh(c).pending = NoVM
      BY <1>1 DEF Fresh, InstanceRecords, NoSnapshots
    <3> QED
      BY <2>1, <3>1, <3>2 DEF Grows
  <2>2. CASE op[s].kind = "snapshot"
    <3> DEFINE r == Inst(s)
               n == op[s].snap
    <3>1. /\ r # NoInstance /\ r \in InstanceRecords /\ n \in Snapshots /\ r.snaps[n] = NoVM
          /\ r.previous = NoVM => r.pending = NoVM
      BY <1>1, <2>2, GuestIs, Facts DEF Stands, Fits, Paired
    <3>2. q = [r EXCEPT !.snaps[n] = c]
      BY <2>2 DEF WithCopy
    <3> HIDE DEF r
    <3>3. /\ q \in InstanceRecords /\ q.vm = r.vm /\ q.previous = r.previous /\ q.pending = r.pending
          /\ \A m \in Snapshots : q.snaps[m] = IF m = n THEN c ELSE r.snaps[m]
      BY <1>1, <3>1, <3>2 DEF InstanceRecords
    <3> HIDE DEF q
    <3>4. GuestsOf(r) \subseteq GuestsOf(q)
      BY <3>1, <3>3, GuestsIs
    <3> QED
      BY <2>2, <3>1, <3>3, <3>4 DEF Grows, r
  <2>3. CASE op[s].kind = "restore"
    <3> DEFINE r == Inst(s)
    <3>1. /\ r # NoInstance /\ r \in InstanceRecords /\ r.previous = NoVM /\ r.pending = NoVM
      BY <1>1, <2>3, GuestIs, Facts DEF Stands, Fits
    <3>2. q = [r EXCEPT !.previous = r.vm, !.pending = c]
      BY <2>3 DEF WithCopy
    <3> HIDE DEF r
    <3>3. /\ q \in InstanceRecords /\ q.vm = r.vm /\ q.previous = r.vm /\ q.pending = c
          /\ q.snaps = r.snaps /\ r.vm # NoVM
      BY <1>1, <3>1, <3>2, Absences DEF InstanceRecords
    <3> HIDE DEF q
    <3>4. GuestsOf(r) \subseteq GuestsOf(q)
      BY <3>1, <3>3, GuestsIs
    <3> QED
      BY <2>3, <3>3, <3>4 DEF Grows, r
  <2> QED
    BY <1>1, <2>1, <2>2, <2>3 DEF Copies
<1> HIDE DEF q
<1>3. AllowsWith(s, "clone", q)
  BY <1>1, <1>2, GuestIs, Facts, NothingRecorded
     DEF AllowsWith, Stands, Placed, Fits, Copying, Copies
<1>4. "clone" \in Places \ (Forgetting \cup {"idle"})
  BY DEF Places, Forgetting
<1> QED
  BY <1>1, <1>2, <1>3, <1>4, UpdateKept DEF q

\* What becomes of the record when an operation forgets.
LEMMA LeftIs ==
    ASSUME NEW o \in Ops, NEW f \in Files, Stands(o, f), o.at \in Forgetting, o.kind # "destroy"
    PROVE  /\ o.inst \in Instances /\ Left(o, f) # NoRecord
           /\ \A j \in Instances \ {o.inst} : Left(o, f)[j] = f[j]
           /\ o.kind \in {"create", "delete"} => Left(o, f)[o.inst] = NoInstance
           /\ o.kind \in {"snapshot", "drop"} =>
                 /\ f[o.inst] \in InstanceRecords /\ o.snap \in Snapshots
                 /\ Left(o, f)[o.inst] = [f[o.inst] EXCEPT !.snaps[o.snap] = NoVM]
           /\ o.kind = "restore" =>
                 /\ f[o.inst] \in InstanceRecords
                 /\ Left(o, f)[o.inst] = [f[o.inst] EXCEPT !.previous = NoVM, !.pending = NoVM]
           /\ o.kind \in Copies \cup Deletes \cup {"create"}
<1>1. /\ Fits(o, f) /\ o.inst \in Instances /\ f # NoRecord
      /\ o.at = "unmap" => o.kind \in Copies \cup {"create"}
      /\ o.at = "clear" => o.kind = "restore"
      /\ o.at \in {"sweep", "forget"} => o.kind \in Deletes
  BY DEF Stands, Placed, Fits, Forgetting
<1>2. o.kind \in Copies \cup {"drop", "delete"} => f[o.inst] \in InstanceRecords
  BY <1>1 DEF Fits, Files, Copies
<1>3. CASE o.kind \in {"create", "delete"}
  <2>1. Left(o, f) = [f EXCEPT ![o.inst] = NoInstance]
    BY <1>1, <1>3 DEF Left, Forgetting, Copies, Deletes
  <2>2. /\ Left(o, f) # NoRecord /\ Left(o, f)[o.inst] = NoInstance
        /\ \A j \in Instances \ {o.inst} : Left(o, f)[j] = f[j]
    BY <1>1, <2>1, Replaced
  <2> QED
    BY <1>1, <1>3, <2>2 DEF Copies, Deletes
<1>4. CASE o.kind \in {"snapshot", "drop"}
  <2> DEFINE q == [f[o.inst] EXCEPT !.snaps[o.snap] = NoVM]
  <2>1. q \in InstanceRecords /\ o.snap \in Snapshots
    BY <1>1, <1>2, <1>4, SnapGone DEF Copies, Fits
  <2>2. Left(o, f) = [f EXCEPT ![o.inst] = q]
    BY <1>1, <1>4 DEF Left, Forgetting, Copies, Deletes
  <2> HIDE DEF q
  <2>3. /\ Left(o, f) # NoRecord /\ Left(o, f)[o.inst] = q
        /\ \A j \in Instances \ {o.inst} : Left(o, f)[j] = f[j]
    BY <1>1, <2>1, <2>2, Replaced
  <2> QED
    BY <1>1, <1>2, <1>4, <2>1, <2>3 DEF q, Copies, Deletes
<1>5. CASE o.kind = "restore"
  <2> DEFINE q == [f[o.inst] EXCEPT !.previous = NoVM, !.pending = NoVM]
  <2>1. q \in InstanceRecords
    BY <1>1, <1>2, <1>5, RestoreGone DEF Copies
  <2>2. Left(o, f) = [f EXCEPT ![o.inst] = q]
    BY <1>1, <1>5 DEF Left, Forgetting, Copies, Deletes
  <2> HIDE DEF q
  <2>3. /\ Left(o, f) # NoRecord /\ Left(o, f)[o.inst] = q
        /\ \A j \in Instances \ {o.inst} : Left(o, f)[j] = f[j]
    BY <1>1, <2>1, <2>2, Replaced
  <2> QED
    BY <1>1, <1>2, <1>5, <2>3 DEF q, Copies
<1> QED
  BY <1>1, <1>3, <1>4, <1>5 DEF Forgetting, Copies, Deletes

\* What a forgetting operation gives up.
LEMMA LeftButGiven ==
    ASSUME NEW o \in Ops, NEW f \in Files, Stands(o, f), o.at \in {"unmap", "sweep", "forget"}
    PROVE  Named(f) \subseteq Named(Left(o, f)) \cup
               CASE o.at = "unmap" -> {o.copy}
                 [] o.kind = "drop" -> {f[o.inst].snaps[o.snap]}
                 [] o.kind = "delete" -> GuestsOf(f[o.inst])
                 [] o.kind = "destroy" -> Named(f)
<1> DEFINE given == CASE o.at = "unmap" -> {o.copy}
                      [] o.kind = "drop" -> {f[o.inst].snaps[o.snap]}
                      [] o.kind = "delete" -> GuestsOf(f[o.inst])
                      [] o.kind = "destroy" -> Named(f)
           r == f[o.inst]
           q == Left(o, f)[o.inst]
<1>1. /\ Placed(o) /\ Fits(o, f) /\ f # NoRecord
      /\ o.at = "unmap" => o.kind \in Copies \cup {"create"}
      /\ o.at # "unmap" => o.kind \in Deletes
  BY DEF Stands, Placed
<1> SUFFICES Named(f) \subseteq Named(Left(o, f)) \cup given
  OBVIOUS
<1>2. CASE o.kind = "destroy"
  BY <1>1, <1>2 DEF Copies
<1>3. CASE o.kind # "destroy"
  <2> HIDE DEF given
  <2>1. /\ o.inst \in Instances /\ Left(o, f) # NoRecord
        /\ \A j \in Instances \ {o.inst} : Left(o, f)[j] = f[j]
    BY <1>3, LeftIs DEF Forgetting
  <2>2. ASSUME r # NoInstance
        PROVE  \A v \in GuestsOf(r) : v \in given \/ (q # NoInstance /\ v \in GuestsOf(q))
    <3>1. CASE o.kind = "create"
      <4>1. r = Fresh(o.copy) /\ given = {o.copy}
        BY <1>1, <3>1 DEF Fits, Copying, Deletes, given
      <4>2. GuestsOf(r) \subseteq {o.copy}
        BY <4>1, GuestsIs DEF Fresh, NoSnapshots
      <4> QED
        BY <4>1, <4>2
    <3>2. CASE o.kind = "delete"
      BY <1>1, <3>2 DEF Copies, given
    <3>3. CASE o.kind \in {"snapshot", "drop"}
      <4>1. /\ r \in InstanceRecords /\ o.snap \in Snapshots
            /\ q = [r EXCEPT !.snaps[o.snap] = NoVM]
        BY <1>3, <3>3, LeftIs DEF Forgetting
      <4> HIDE DEF q
      <4>2. q \in InstanceRecords /\ GuestsOf(r) \subseteq GuestsOf(q) \cup {r.snaps[o.snap]}
        BY <4>1, SnapGone
      <4>3. given = {r.snaps[o.snap]}
        BY <1>1, <3>3 DEF Fits, Copying, Copies, Deletes, given
      <4> QED
        BY <4>2, <4>3, NothingRecorded
    <3>4. CASE o.kind = "restore"
      <4>1. /\ r \in InstanceRecords /\ q = [r EXCEPT !.previous = NoVM, !.pending = NoVM]
        BY <1>3, <3>4, LeftIs DEF Forgetting
      <4>2. r.previous = r.vm /\ r.pending = o.copy /\ given = {o.copy}
        BY <1>1, <3>4 DEF Fits, Copying, Deletes, given
      <4> HIDE DEF q
      <4>3. /\ q \in InstanceRecords /\ q.vm = r.vm
            /\ GuestsOf(r) \subseteq GuestsOf(q) \cup {r.previous, r.pending}
        BY <4>1, RestoreGone
      <4>4. r.vm \in GuestsOf(q)
        BY <4>1, <4>3, GuestsIs, Absences DEF InstanceRecords
      <4> QED
        BY <4>2, <4>3, <4>4, NothingRecorded
    <3> QED
      BY <1>1, <1>3, <3>1, <3>2, <3>3, <3>4 DEF Copies, Deletes
  <2> QED
    BY <1>1, <2>1, <2>2, NamedIs
<1> QED
  BY <1>2, <1>3

LEMMA MappedNamed == \A s \in Sandboxes : Mapped(s) = Named(record[s])
  BY DEF Mapped, Named, Has

LEMMA ListToDeleteKept ==
    ASSUME Sound, NEW s \in Sandboxes, ListToDelete(s) PROVE Sound'
<1> DEFINE o == [op[s] EXCEPT !.at = "sweep", !.todo = Doomed(s) \cap Present]
           f == record[s]
<1>1. /\ op[s].at = "list" /\ op[s].kind \in Deletes /\ f \in Files /\ f # NoRecord
      /\ Stands(op[s], f) /\ UNCHANGED <<host, genuine, record, mu, late, bounds>>
  BY Facts DEF ListToDelete, At, Stands
<1>2. /\ o \in Ops /\ o.at = "sweep" /\ o.kind = op[s].kind /\ o.inst = op[s].inst
      /\ o.snap = op[s].snap /\ o.todo = Doomed(s) \cap Present
  BY Facts DEF Ops, Places, Present
<1>3. op' = [op EXCEPT ![s] = o]
  BY Facts DEF ListToDelete
<1> HIDE DEF o
<1>4. Stands(o, f)
  BY <1>1, <1>2 DEF Stands, Placed, Fits, Copying, Deletes
<1>5. Named(f) \subseteq Named(Left(o, f)) \cup Doomed(s)
  BY <1>1, <1>2, <1>4, LeftButGiven, MappedNamed DEF Doomed, Deletes, Inst
<1>6. Kept(op[s], f) = Named(f)
  BY <1>1, LeftSame DEF Forgetting
<1>7. \A v \in Present' : \/ v \in Present /\ v \notin Kept(op[s], record[s])
                          \/ v \in Kept(o, f)
  <2>1. Present' = Present
    BY <1>1 DEF Present
  <2> QED
    BY <1>2, <1>5, <1>6, <2>1 DEF Kept
<1>8. RestOK' /\ record' = [record EXCEPT ![s] = f] /\ mu' \in Sandboxes \cup {Nobody}
  BY <1>1, Facts, BoundsKept, HostKept
<1> HIDE DEF f
<1> QED
  BY <1>1, <1>2, <1>3, <1>4, <1>7, <1>8, Facts, Stepped DEF f

LEMMA CopyNamed ==
    ASSUME Sound, NEW s \in Sandboxes, op[s].at \in Copying, op[s].kind \in Copies \cup {"create"}
    PROVE  op[s].copy \in VMs /\ op[s].copy \in Named(record[s])
<1>1. /\ record[s] # NoRecord /\ op[s].inst \in Instances /\ op[s].copy \in VMs
      /\ op[s].copy # NoVM /\ Fits(op[s], record[s])
  BY Facts, Absences DEF Stands, Fits, Copying, Copies
<1>2. Inst(s) # NoInstance /\ op[s].copy \in GuestsOf(Inst(s))
  <2>1. CASE op[s].kind = "create"
    <3>1. Inst(s) = Fresh(op[s].copy)
      BY <1>1, <2>1 DEF Fits, Inst
    <3>2. Fresh(op[s].copy) \in InstanceRecords /\ Fresh(op[s].copy).vm = op[s].copy
      BY <1>1 DEF Fresh, InstanceRecords, NoSnapshots
    <3> QED
      BY <1>1, <3>1, <3>2, GuestsIs, NothingRecorded
  <2>2. CASE op[s].kind = "snapshot"
    BY <1>1, <2>2, GuestsIs DEF Fits, Inst
  <2>3. CASE op[s].kind = "restore"
    BY <1>1, <2>3, GuestsIs DEF Fits, Inst
  <2> QED
    BY <2>1, <2>2, <2>3 DEF Copies
<1> QED
  BY <1>1, <1>2, NamedIs DEF Inst

LEMMA DeletedIs ==
    ASSUME Sound, NEW v, BoundsOK'
    PROVE  /\ Deleted(v) => RestOK' /\ Present' \subseteq Present /\ v \notin Present'
           /\ HalfDeleted(v) => RestOK' /\ Present' \subseteq Present
<1>1. RestOK /\ late \subseteq VMs /\ genuine \subseteq VMs
      /\ host \in [VMs -> {"absent", "stopped", "booting", "running"}]
  BY Facts DEF RestOK
<1>2. Deleted(v) => RestOK' /\ Present' \subseteq Present /\ v \notin Present'
  BY <1>1 DEF Deleted, RestOK, BoundsOK, Present
<1>3. HalfDeleted(v) => RestOK' /\ Present' \subseteq Present
  <2>1. CASE UNCHANGED <<host, genuine, late>>
    BY <2>1, HostKept
  <2>2. CASE host[v] = "running" /\ host' = [host EXCEPT ![v] = "stopped"] /\ late' = late \ {v}
             /\ UNCHANGED genuine
    BY <1>1, <2>2 DEF RestOK, BoundsOK, Present
  <2> QED
    BY <1>2, <2>1, <2>2 DEF HalfDeleted
<1> QED
  BY <1>2, <1>3

LEMMA CloneKept ==
    ASSUME Sound, NEW s \in Sandboxes, Clone(s) PROVE Sound'
<1> DEFINE c == op[s].copy
<1>1. /\ op[s].at = "clone" /\ UNCHANGED <<record, late>>
      /\ op[s].kind \in Copies \cup {"create"}
  BY Facts DEF Clone, At, Stands, Placed
<1>2. c \in VMs /\ c \in Named(record[s])
  BY <1>1, CopyNamed DEF Copying
<1>3. PICK place \in {"pin", "undo"} : Goto(s, place)
  BY DEF Clone
<1>4. BoundsOK'
  BY BoundsKept DEF Clone
<1>5. RestOK' /\ Present' \subseteq Present \cup {c}
  <2>1. CASE host' = [host EXCEPT ![c] = "stopped"] /\ genuine' = genuine \ {c}
    BY <1>1, <1>2, <1>4, <2>1, Facts DEF RestOK, BoundsOK, Present
  <2>2. CASE UNCHANGED <<host, genuine>>
    BY <1>1, <1>4, <2>2, HostKept
  <2> QED
    BY <2>1, <2>2 DEF Clone
<1> DEFINE o == [op[s] EXCEPT !.at = place]
<1>6. /\ o \in Ops /\ o.at = place /\ o.kind = op[s].kind /\ o.inst = op[s].inst
      /\ o.snap = op[s].snap /\ o.copy = c
  BY Facts DEF Ops, Places
<1>7. op' = [op EXCEPT ![s] = o] /\ mu' = mu
  BY <1>3, Facts, GotoIs DEF Places
<1> HIDE DEF o
<1>8. Stands(o, record[s]) /\ o.at \notin Forgetting
  BY <1>1, <1>6, Facts DEF Stands, Placed, Fits, Copying, Forgetting
<1>9. Kept(op[s], record[s]) = Named(record[s]) /\ Kept(o, record[s]) = Named(record[s])
  BY <1>1, <1>8, LeftSame DEF Forgetting
<1>10. \A v \in Present' : \/ v \in Present /\ v \notin Kept(op[s], record[s])
                           \/ v \in Kept(o, record[s])
  BY <1>2, <1>5, <1>9
<1>11. record' = [record EXCEPT ![s] = record[s]] /\ record[s] \in Files \cup {NoRecord}
  BY <1>1, Facts
<1> QED
  BY <1>5, <1>6, <1>7, <1>8, <1>10, <1>11, Facts, Stepped

LEMMA PinKept ==
    ASSUME Sound, NEW s \in Sandboxes, Pin(s) PROVE Sound'
<1>1. /\ op[s].at = "pin" /\ UNCHANGED <<host, record, late>>
      /\ op[s].kind \in Copies \cup Starts \cup {"create"} /\ op[s].copy \in VMs
  BY Facts DEF Pin, At, Stands, Placed, Fits, Copying
<1>2. BoundsOK'
  BY BoundsKept DEF Pin
<1>3. RestOK' /\ Present' \subseteq Present
  BY <1>1, <1>2, Facts DEF Pin, RestOK, BoundsOK, Present
<1>4. CASE Leave(s)
  BY <1>1, <1>3, <1>4, Facts, Leaves
<1>5. CASE op[s].kind # "snapshot" /\ Goto(s, AfterPin(s))
  <2>1. PICK place \in {"prepare", "look"} : Goto(s, place) /\ (place = "look" <=> op[s].kind = "restore")
    BY <1>1, <1>5 DEF AfterPin, Copies, Starts
  <2>2. place \in Places \ Forgetting
    BY DEF Places, Forgetting
  <2>3. Allows(s, place)
    <3>1. op[s].kind = "create" => record[s][op[s].inst] # NoInstance
      <4>1. Fresh(op[s].copy) \in InstanceRecords
        BY <1>1 DEF Fresh, InstanceRecords, NoSnapshots
      <4> QED
        BY <1>1, <4>1, Facts, NothingRecorded DEF Stands, Fits, Copying
    <3> QED
      BY <1>1, <1>5, <2>1, <3>1, Facts DEF Allows, Stands, Placed, Fits, Copying, Copies, Starts
  <2> QED
    BY <1>1, <1>3, <2>1, <2>2, <2>3, GotoKept
<1>6. CASE op[s].kind \notin Starts /\ Goto(s, "undo")
  <2>1. "undo" \in Places \ Forgetting
    BY DEF Places, Forgetting
  <2>2. Allows(s, "undo")
    BY <1>1, <1>6, Facts DEF Allows, Stands, Placed, Fits, Copying
  <2> QED
    BY <1>1, <1>3, <1>6, <2>1, <2>2, GotoKept
<1> QED
  BY <1>4, <1>5, <1>6 DEF Pin

LEMMA UndoKept ==
    ASSUME Sound, NEW s \in Sandboxes, Undo(s) PROVE Sound'
<1> DEFINE c == op[s].copy
           f == record[s]
<1>1. /\ op[s].at = "undo" /\ UNCHANGED record
      /\ op[s].kind \in Copies \cup {"create"} /\ f \in Files
  BY Facts DEF Undo, At, Stands, Placed
<1>2. CASE Fails(s) /\ HalfDeleted(c)
  BY <1>1, <1>2, BoundsKept, DeletedIs, Failing
<1>3. CASE Deleted(c) /\ Goto(s, "unmap") /\ UNCHANGED bounds
  <2>1. RestOK' /\ Present' \subseteq Present /\ c \notin Present'
    BY <1>3, BoundsKept, DeletedIs
  <2> DEFINE o == [op[s] EXCEPT !.at = "unmap"]
  <2>2. /\ o \in Ops /\ o.at = "unmap" /\ o.kind = op[s].kind /\ o.inst = op[s].inst
        /\ o.snap = op[s].snap /\ o.copy = c
    BY Facts DEF Ops, Places
  <2>3. op' = [op EXCEPT ![s] = o] /\ mu' = mu
    BY <1>3, Facts, GotoIs DEF Places
  <2> HIDE DEF o
  <2>4. Stands(o, f)
    BY <1>1, <2>2, Facts DEF Stands, Placed, Fits, Copying
  <2>5. Named(f) \subseteq Named(Left(o, f)) \cup {c}
    BY <1>1, <2>2, <2>4, LeftButGiven DEF Copies
  <2>6. Kept(op[s], f) = Named(f)
    BY <1>1, LeftSame DEF Forgetting
  <2>7. \A v \in Present' : \/ v \in Present /\ v \notin Kept(op[s], f)
                            \/ v \in Kept(o, f)
    BY <2>1, <2>5, <2>6 DEF Kept
  <2>8. record' = [record EXCEPT ![s] = f]
    BY <1>1, Facts
  <2> HIDE DEF f
  <2> QED
    BY <1>1, <2>1, <2>2, <2>3, <2>4, <2>7, <2>8, Facts, Stepped DEF f
<1> QED
  BY <1>2, <1>3 DEF Undo

\* The operation returns, and what it forgets is forgotten unless that failed.
LEMMA LeavesLeft ==
    ASSUME Sound, NEW s \in Sandboxes, op[s].at \in {"unmap", "clear", "forget"}, Leave(s),
           record' = [record EXCEPT ![s] = Left(op[s], record[s])] \/ UNCHANGED record,
           BoundsOK', UNCHANGED <<host, genuine, late>>
    PROVE  Sound'
<1> DEFINE f == Left(op[s], record[s])
<1>1. RestOK' /\ Present' \subseteq Present
  BY HostKept
<1>2. CASE UNCHANGED record
  BY <1>1, <1>2, Facts, Leaves
<1>3. CASE record' = [record EXCEPT ![s] = f]
  <2>1. op[s] \in Ops /\ record[s] \in Files /\ record[s] # NoRecord /\ Stands(op[s], record[s])
    BY Facts DEF Stands
  <2>2. f \in Files \cup {NoRecord} /\ (f # NoRecord => Paired(f))
    BY <2>1, KeptNamed
  <2>3. op[s].kind = "snapshot" => f # NoRecord /\ f[op[s].inst] # NoInstance
    <3> SUFFICES ASSUME op[s].kind = "snapshot" PROVE f # NoRecord /\ f[op[s].inst] # NoInstance
      OBVIOUS
    <3> DEFINE r == record[s][op[s].inst]
               q == [r EXCEPT !.snaps[op[s].snap] = NoVM]
    <3>1. f # NoRecord /\ r \in InstanceRecords /\ f[op[s].inst] = q
      BY <2>1, LeftIs DEF Forgetting
    <3>2. q \in InstanceRecords
      BY <3>1, SnapGone
    <3> QED
      BY <3>1, <3>2, NothingRecorded
  <2>4. \A v \in Present' : v \in Kept(op[s], record[s]) => v \in Named(f)
    BY DEF Kept
  <2> HIDE DEF f
  <2> QED
    BY <1>1, <1>3, <2>1, <2>2, <2>3, <2>4, Facts, LeavesWith
<1> QED
  BY <1>2, <1>3

LEMMA UnmapKept ==
    ASSUME Sound, NEW s \in Sandboxes, Unmap(s) PROVE Sound'
<1>1. /\ op[s].at = "unmap" /\ op[s].kind \in Copies \cup {"create"} /\ UNCHANGED <<host, genuine, late>>
  BY Facts DEF Unmap, At, Stands, Placed
<1>2. Leave(s) /\ BoundsOK'
  BY BoundsKept DEF Unmap
<1>3. SetInstance(s, WithoutCopy(s)) => record' = [record EXCEPT ![s] = Left(op[s], record[s])]
  BY <1>1, Facts DEF SetInstance, WithoutCopy, Left, Inst, Copies
<1> QED
  BY <1>1, <1>2, <1>3, LeavesLeft DEF Unmap

LEMMA PrepareKept ==
    ASSUME Sound, NEW s \in Sandboxes, Prepare(s) PROVE Sound'
<1> DEFINE r == Inst(s)
           q == [r EXCEPT !.prepared = TRUE]
<1>1. /\ op[s].at = "prepare" /\ UNCHANGED <<host, genuine, late>>
      /\ op[s].kind \in Starts \cup {"create"} /\ op[s].kind # "destroy"
      /\ r \in InstanceRecords /\ r # NoInstance /\ (r.previous = NoVM => r.pending = NoVM)
  BY GuestIs, Facts DEF Prepare, At, Stands, Placed, Fits, Starts, Paired, Inst
<1>2. q \in InstanceRecords /\ Grows(s, q)
  <2> HIDE DEF r
  <2>1. /\ q \in InstanceRecords /\ q.vm = r.vm /\ q.previous = r.previous
        /\ q.pending = r.pending /\ q.snaps = r.snaps
    BY <1>1 DEF InstanceRecords
  <2> HIDE DEF q
  <2>2. GuestsOf(r) \subseteq GuestsOf(q)
    BY <2>1, GuestsIs
  <2> QED
    BY <1>1, <2>1, <2>2 DEF Grows, r
<1> HIDE DEF q
<1>3. CASE Leave(s) /\ BoundsOK' /\ (SetInstance(s, q) \/ UNCHANGED record)
  BY <1>1, <1>2, <1>3, GrowsLeaving
<1>4. ASSUME NEW place \in {"stop", "run"}, place = "stop" => op[s].kind = "restart",
             Update(s, q, place)
      PROVE  Sound'
  <2>1. AllowsWith(s, place, q)
    BY <1>1, <1>2, <1>4, GuestIs, NothingRecorded DEF AllowsWith, Placed, Fits, Copying, Starts
  <2>2. place \in Places \ (Forgetting \cup {"idle"})
    BY <1>4 DEF Places, Forgetting
  <2> QED
    BY <1>1, <1>2, <1>4, <2>1, <2>2, UpdateKept
<1>5. CASE op[s].kind = "create" /\ ~op[s].start
  <2>1. \/ SetInstance(s, q) /\ Leave(s) /\ UNCHANGED bounds
        \/ Fails(s) /\ (SetInstance(s, q) \/ UNCHANGED record)
    BY <1>5 DEF Prepare, q
  <2> QED
    BY <1>3, <2>1, BoundsKept
<1>6. CASE op[s].kind = "restart" /\ Guest(s) \in op[s].seen
  BY <1>4, <1>6 DEF Prepare, q
<1>7. CASE ~(op[s].kind = "create" /\ ~op[s].start) /\ ~(op[s].kind = "restart" /\ Guest(s) \in op[s].seen)
  BY <1>4, <1>7 DEF Prepare, q
<1> QED
  BY <1>5, <1>6, <1>7

LEMMA StopKept ==
    ASSUME Sound, NEW s \in Sandboxes, Stop(s) PROVE Sound'
<1>1. op[s].at = "stop" /\ UNCHANGED <<genuine, record>> /\ BoundsOK'
  BY BoundsKept DEF Stop, At
<1>2. RestOK' /\ Present' \subseteq Present
  <2>1. \/ UNCHANGED <<host, late>>
        \/ /\ host' = [host EXCEPT ![Guest(s)] = IF @ = "absent" THEN @ ELSE "stopped"]
           /\ late' = late \ {Guest(s)}
    BY DEF Stop
  <2> QED
    BY <1>1, <2>1, HostKept, Facts DEF RestOK, BoundsOK, Present
<1>3. CASE Leave(s)
  BY <1>1, <1>2, <1>3, Facts, Leaves
<1>4. CASE /\ op[s].kind = "restart" /\ UNCHANGED mu
           /\ op' = [op EXCEPT ![s].at = "run", ![s].seen = @ \ {Guest(s)}]
  <2> DEFINE o == [op[s] EXCEPT !.at = "run", !.seen = @ \ {Guest(s)}]
  <2>1. /\ o \in Ops /\ o.at = "run" /\ o.kind = op[s].kind /\ o.inst = op[s].inst
        /\ o.snap = op[s].snap /\ o.copy = op[s].copy
    BY Facts DEF Ops, Places
  <2>2. op' = [op EXCEPT ![s] = o]
    BY <1>4, Facts
  <2>3. Allows(s, "run") /\ "run" \in Places \ Forgetting
    BY <1>1, <1>4, Facts DEF Allows, Stands, Placed, Fits, Copying, Starts, Places, Forgetting
  <2> HIDE DEF o
  <2> QED
    BY <1>1, <1>2, <1>4, <2>1, <2>2, <2>3, Allowed
<1>5. CASE /\ op[s].kind = "snapshot" /\ UNCHANGED mu
           /\ op' = [op EXCEPT ![s].at = "list", ![s].start = TRUE]
  <2> DEFINE o == [op[s] EXCEPT !.at = "list", !.start = TRUE]
  <2>1. /\ o \in Ops /\ o.at = "list" /\ o.kind = op[s].kind /\ o.inst = op[s].inst
        /\ o.snap = op[s].snap /\ o.copy = op[s].copy
    BY Facts DEF Ops, Places
  <2>2. op' = [op EXCEPT ![s] = o]
    BY <1>5, Facts
  <2>3. Allows(s, "list") /\ "list" \in Places \ Forgetting
    BY <1>1, <1>5, Facts DEF Allows, Stands, Placed, Fits, Copying, Places, Forgetting
  <2> HIDE DEF o
  <2> QED
    BY <1>1, <1>2, <1>5, <2>1, <2>2, <2>3, Allowed
<1>6. CASE op[s].kind = "restore" /\ Goto(s, "switch")
  <2>1. Allows(s, "switch") /\ "switch" \in Places \ Forgetting
    BY <1>1, <1>6, Facts DEF Allows, Stands, Placed, Fits, Copying, Places, Forgetting
  <2> QED
    BY <1>1, <1>2, <1>6, <2>1, GotoKept
<1> QED
  <2>1. op[s].kind \in {"stop", "restart", "snapshot", "restore"}
    BY <1>1, Facts DEF Stands, Placed
  <2> QED
    BY <1>3, <1>4, <1>5, <1>6, <2>1, BoundsKept DEF Stop

LEMMA RunKept ==
    ASSUME Sound, NEW s \in Sandboxes, Run(s) PROVE Sound'
<1>1. /\ op[s].at = "run" /\ UNCHANGED <<genuine, record>> /\ BoundsOK'
      /\ op[s].kind \in Starts \cup {"create"}
  BY BoundsKept, Facts DEF Run, At, Stands, Placed
<1>2. Guest(s) \in VMs
  BY <1>1, GuestIs, Facts DEF Stands, Fits, Starts, Inst
<1>3. RestOK' /\ Present' \subseteq Present
  <2>1. \/ UNCHANGED <<host, late>>
        \/ /\ host' = [host EXCEPT ![Guest(s)] = IF @ = "stopped" THEN "booting" ELSE @]
           /\ late' \in {late \ {Guest(s)}, late \cup {Guest(s)}}
    BY DEF Run
  <2> QED
    BY <1>1, <1>2, <2>1, HostKept, Facts DEF RestOK, BoundsOK, Present
<1>4. CASE Leave(s)
  BY <1>1, <1>3, <1>4, Facts, Leaves
<1>5. CASE Goto(s, "poll")
  <2>1. Allows(s, "poll") /\ "poll" \in Places \ Forgetting
    BY <1>1, Facts DEF Allows, Stands, Placed, Fits, Copying, Starts, Places, Forgetting
  <2> QED
    BY <1>1, <1>3, <1>5, <2>1, GotoKept
<1> QED
  BY <1>4, <1>5, BoundsKept DEF Run

LEMMA PollKept ==
    ASSUME Sound, NEW s \in Sandboxes, Poll(s) PROVE Sound'
<1>1. /\ op[s].at = "poll" /\ UNCHANGED <<host, genuine, record>> /\ BoundsOK' /\ Leave(s)
      /\ late' = IF host[Guest(s)] = "booting" THEN late \cup {Guest(s)} ELSE late
  BY BoundsKept DEF Poll, At
<1>2. Guest(s) \in VMs
  BY <1>1, GuestIs, Facts DEF Stands, Placed, Fits, Starts, Inst
<1>3. RestOK' /\ Present' \subseteq Present
  BY <1>1, <1>2, Facts DEF RestOK, BoundsOK, Present
<1> QED
  BY <1>1, <1>3, Facts, Leaves

LEMMA LookKept ==
    ASSUME Sound, NEW s \in Sandboxes, Look(s) PROVE Sound'
<1>1. op[s].at = "look" /\ UNCHANGED <<host, genuine, record, late>> /\ BoundsOK'
      /\ op[s].kind = "restore"
  BY BoundsKept, Facts DEF Look, At, Stands, Placed
<1>2. RestOK' /\ Present' \subseteq Present
  BY <1>1, HostKept
<1>3. CASE Fails(s)
  BY <1>1, <1>2, <1>3, Failing
<1>4. CASE /\ op' = [op EXCEPT ![s].start = Guest(s) \in Running,
                               ![s].at = IF Guest(s) \in Running THEN "stop" ELSE "switch"]
           /\ UNCHANGED mu
  <2> DEFINE on == Guest(s) \in Running
             place == IF on THEN "stop" ELSE "switch"
             o == [op[s] EXCEPT !.start = on, !.at = place]
  <2>1. on \in BOOLEAN
    OBVIOUS
  <2>2. op' = [op EXCEPT ![s] = o]
    BY <1>4, Facts
  <2> HIDE DEF on
  <2>3. place \in {"stop", "switch"} /\ place \in Places \ Forgetting
    BY DEF Places, Forgetting
  <2> HIDE DEF place
  <2>4. /\ o \in Ops /\ o.at = place /\ o.kind = op[s].kind /\ o.inst = op[s].inst
        /\ o.snap = op[s].snap /\ o.copy = op[s].copy
    BY <2>1, <2>3, Facts DEF Ops
  <2> HIDE DEF o
  <2>5. Allows(s, place)
    BY <1>1, <2>3, Facts DEF Allows, Stands, Placed, Fits, Copying
  <2> QED
    BY <1>1, <1>2, <1>4, <2>2, <2>3, <2>4, <2>5, Allowed
<1> QED
  BY <1>3, <1>4 DEF Look

LEMMA SwitchKept ==
    ASSUME Sound, NEW s \in Sandboxes, Switch(s) PROVE Sound'
<1> DEFINE r == Inst(s)
           q == [r EXCEPT !.vm = op[s].copy]
<1>1. /\ op[s].at = "switch" /\ UNCHANGED <<host, genuine, late>> /\ op[s].kind = "restore"
      /\ Update(s, q, "purge") /\ op[s].copy \in VMs
      /\ r \in InstanceRecords /\ r.previous = r.vm /\ r.pending = op[s].copy
  BY GuestIs, Facts DEF Switch, At, Stands, Placed, Fits, Inst
<1> HIDE DEF r
<1>2. /\ q \in InstanceRecords /\ q.vm = op[s].copy /\ q.previous = r.previous
      /\ q.pending = r.pending /\ q.snaps = r.snaps
  BY <1>1 DEF InstanceRecords
<1> HIDE DEF q
<1>3. GuestsOf(r) \subseteq GuestsOf(q) /\ q.previous # NoVM
  BY <1>1, <1>2, GuestsIs, Absences DEF InstanceRecords
<1>4. Grows(s, q)
  BY <1>3 DEF Grows, r
<1>5. AllowsWith(s, "purge", q) /\ "purge" \in Places \ (Forgetting \cup {"idle"})
  BY <1>1, <1>2, GuestIs, Facts, NothingRecorded
     DEF AllowsWith, Stands, Placed, Fits, Copying, Places, Forgetting
<1> QED
  BY <1>1, <1>2, <1>4, <1>5, UpdateKept

LEMMA PurgeKept ==
    ASSUME Sound, NEW s \in Sandboxes, Purge(s) PROVE Sound'
<1> DEFINE f == record[s]
           r == f[op[s].inst]
<1>1. /\ op[s].at = "purge" /\ UNCHANGED record /\ op[s].kind = "restore" /\ BoundsOK'
      /\ f \in Files /\ f # NoRecord /\ r \in InstanceRecords /\ r # NoInstance /\ r.vm = r.pending
      /\ op[s].snap \in Snapshots /\ r = Inst(s) /\ op[s].inst \in Instances
  BY BoundsKept, GuestIs, Facts DEF Purge, At, Stands, Placed, Fits, Goto
<1>2. Source(s) = r.snaps[op[s].snap]
  BY <1>1 DEF Source, Inst
<1>3. CASE Fails(s) /\ HalfDeleted(r.previous)
  BY <1>1, <1>3, DeletedIs, Failing
<1>4. ASSUME Goto(s, "clear"), RestOK', Present' \subseteq Present,
             r.previous \in Present' => r.previous = r.snaps[op[s].snap]
      PROVE  Sound'
  <2> DEFINE o == [op[s] EXCEPT !.at = "clear"]
  <2>1. /\ o \in Ops /\ o.at = "clear" /\ o.kind = op[s].kind /\ o.inst = op[s].inst
        /\ o.snap = op[s].snap /\ o.copy = op[s].copy
    BY Facts DEF Ops, Places
  <2>2. op' = [op EXCEPT ![s] = o] /\ mu' = mu
    BY <1>4, Facts, GotoIs DEF Places
  <2> HIDE DEF o
  <2>3. Stands(o, f)
    BY <1>1, <2>1, Facts DEF Stands, Placed, Fits, Copying
  <2>4. ASSUME NEW v \in Present', v \in Named(f) PROVE v \in Named(Left(o, f))
    <3> DEFINE q == [f[o.inst] EXCEPT !.previous = NoVM, !.pending = NoVM]
    <3>1. /\ f \in Files /\ Stands(o, f) /\ o \in Ops
          /\ o.at \in Forgetting /\ o.kind = "restore" /\ o.kind # "destroy"
      BY <1>1, <2>1, <2>3 DEF Forgetting
    <3>2. /\ Left(o, f) # NoRecord /\ \A j \in Instances \ {o.inst} : Left(o, f)[j] = f[j]
          /\ Left(o, f)[o.inst] = q
      BY <3>1, LeftIs
    <3>3. q \in InstanceRecords /\ GuestsOf(r) \subseteq GuestsOf(q) \cup {r.previous, r.pending}
          /\ q.vm = r.vm /\ q.snaps = r.snaps
      BY <1>1, <2>1, RestoreGone
    <3> HIDE DEF q
    <3>4. q # NoInstance
      BY <3>3, NothingRecorded
    <3>5. v \in GuestsOf(r) => v \in GuestsOf(q)
      <4>1. v # NoVM
        BY Absences DEF Present
      <4>2. v = r.previous \/ v = r.pending => v \in GuestsOf(q)
        BY <1>1, <1>4, <3>3, <4>1, GuestsIs
      <4> QED
        BY <3>3, <4>2
    <3> QED
      BY <1>1, <2>1, <2>4, <3>2, <3>4, <3>5, NamedIs
  <2>5. Kept(op[s], f) = Named(f)
    BY <1>1, LeftSame DEF Forgetting
  <2>6. \A v \in Present' : \/ v \in Present /\ v \notin Kept(op[s], f)
                            \/ v \in Kept(o, f)
    BY <1>4, <2>4, <2>5 DEF Kept
  <2>7. record' = [record EXCEPT ![s] = f]
    BY <1>1, Facts
  <2> HIDE DEF f, r
  <2> QED
    BY <1>1, <1>4, <2>1, <2>2, <2>3, <2>6, <2>7, Facts, Stepped DEF f
<1>5. CASE r.previous = Source(s) /\ Goto(s, "clear") /\ UNCHANGED <<host, genuine, late, bounds>>
  BY <1>1, <1>2, <1>4, <1>5, HostKept
<1>6. CASE Deleted(r.previous) /\ Goto(s, "clear")
  BY <1>1, <1>4, <1>6, DeletedIs
<1> QED
  BY <1>1, <1>2, <1>3, <1>5, <1>6 DEF Purge

LEMMA ClearKept ==
    ASSUME Sound, NEW s \in Sandboxes, Clear(s) PROVE Sound'
<1> DEFINE r == [Inst(s) EXCEPT !.previous = NoVM, !.pending = NoVM]
           f == Left(op[s], record[s])
<1>1. /\ op[s].at = "clear" /\ UNCHANGED <<host, genuine, late>> /\ op[s].kind = "restore"
      /\ BoundsOK'
  BY BoundsKept, Facts DEF Clear, At, Stands, Placed
<1>2. SetInstance(s, r) => record' = [record EXCEPT ![s] = f]
  BY <1>1, Facts DEF SetInstance, Left, Inst
<1>3. CASE Fails(s) /\ (SetInstance(s, r) \/ UNCHANGED record)
  BY <1>1, <1>2, <1>3, BoundsKept, LeavesLeft
<1>4. CASE /\ SetInstance(s, r) /\ UNCHANGED <<mu, bounds>>
           /\ IF op[s].start THEN ThenStart(s) ELSE op' = [op EXCEPT ![s] = Idle]
  <2>1. /\ op[s] \in Ops /\ record[s] \in Files /\ record[s] # NoRecord /\ Stands(op[s], record[s])
        /\ op[s].inst \in Instances
    BY <1>1, Facts DEF Stands, Fits
  <2>2. f \in Files \cup {NoRecord} /\ (f # NoRecord => Paired(f))
    BY <2>1, KeptNamed
  <2>3. f # NoRecord /\ f[op[s].inst] # NoInstance
    <3> DEFINE q == [record[s][op[s].inst] EXCEPT !.previous = NoVM, !.pending = NoVM]
    <3>1. f # NoRecord /\ record[s][op[s].inst] \in InstanceRecords /\ f[op[s].inst] = q
      BY <1>1, <2>1, LeftIs DEF Forgetting
    <3>2. q \in InstanceRecords
      BY <3>1, RestoreGone
    <3> QED
      BY <3>1, <3>2, NothingRecorded
  <2>4. PICK o \in Ops : /\ op' = [op EXCEPT ![s] = o] /\ o.at \notin Forgetting
                         /\ o = Idle \/ (o.at = "mu" /\ o.kind = "start" /\ o.inst = op[s].inst)
    <3> DEFINE o == [Idle EXCEPT !.at = "mu", !.kind = "start", !.start = TRUE, !.inst = op[s].inst]
    <3>1. o \in Ops /\ o.at = "mu" /\ o.kind = "start" /\ o.inst = op[s].inst
      BY <2>1, IdleIs DEF Ops, Places, Kinds
    <3>2. op' = [op EXCEPT ![s] = o] \/ op' = [op EXCEPT ![s] = Idle]
      BY <1>4 DEF ThenStart
    <3> HIDE DEF o
    <3> QED
      BY <3>1, <3>2, IdleIs DEF Forgetting
  <2>5. Stands(o, f)
    <3>1. CASE o = Idle
      BY <2>2, <3>1, IdleIs DEF Stands, Placed
    <3>2. CASE o.at = "mu" /\ o.kind = "start" /\ o.inst = op[s].inst
      BY <2>1, <2>2, <2>3, <3>2 DEF Stands, Placed, Fits, Copying, Starts
    <3> QED
      BY <2>4, <3>1, <3>2
  <2>6. Kept(o, f) = Named(f) /\ Kept(op[s], record[s]) = Named(f)
    BY <1>1, <2>4, LeftSame DEF Kept
  <2>7. RestOK' /\ Present' = Present
    BY <1>1, HostKept
  <2>8. \A v \in Present' : \/ v \in Present /\ v \notin Kept(op[s], record[s])
                            \/ v \in Kept(o, f)
    BY <2>6, <2>7
  <2> HIDE DEF f
  <2> QED
    BY <1>2, <1>4, <2>2, <2>4, <2>5, <2>7, <2>8, Facts, Stepped
<1> QED
  BY <1>3, <1>4 DEF Clear

LEMMA SweepKept ==
    ASSUME Sound, NEW s \in Sandboxes, Sweep(s) PROVE Sound'
<1> DEFINE f == record[s]
<1>1. /\ op[s].at \in {"sweep", "sweepFailed"} /\ UNCHANGED <<record, mu>> /\ BoundsOK'
      /\ f \in Files \cup {NoRecord}
  BY BoundsKept, Facts DEF Sweep
<1>2. PICK v \in op[s].todo :
        \/ /\ Deleted(v)
           /\ op' = [op EXCEPT ![s].todo = @ \ {v}]
        \/ /\ HalfDeleted(v)
           /\ op' = [op EXCEPT ![s].todo = @ \ {v}, ![s].at = "sweepFailed"]
  BY DEF Sweep
<1>3. ASSUME NEW place \in {op[s].at, "sweepFailed"},
             op' = [op EXCEPT ![s] = [op[s] EXCEPT !.todo = op[s].todo \ {v}, !.at = place]],
             RestOK', Present' \subseteq Present, place = "sweepFailed" \/ v \notin Present'
      PROVE  Sound'
  <2> DEFINE o == [op[s] EXCEPT !.todo = op[s].todo \ {v}, !.at = place]
  <2>1. /\ o \in Ops /\ o.at = place /\ o.kind = op[s].kind /\ o.inst = op[s].inst
        /\ o.snap = op[s].snap /\ o.copy = op[s].copy /\ o.todo = op[s].todo \ {v}
    BY <1>1, Facts DEF Ops, Places
  <2>2. op' = [op EXCEPT ![s] = o]
    BY <1>3
  <2> HIDE DEF o
  <2>3. Stands(o, f)
    BY <1>1, <2>1, Facts DEF Stands, Placed, Fits, Copying
  <2>4. Kept(op[s], f) \subseteq Kept(o, f) \cup {v} /\ (place = "sweepFailed" => Kept(op[s], f) \subseteq Kept(o, f))
    <3>1. CASE place = "sweepFailed"
      <4>1. Kept(o, f) = Named(f)
        BY <2>1, <3>1, LeftSame DEF Forgetting
      <4> QED
        BY <1>1, <4>1, Facts, KeptNamed
    <3>2. CASE place = "sweep" /\ op[s].at = "sweep"
      <4>1. Left(o, f) = Left(op[s], f)
        BY <2>1, <3>2 DEF Left
      <4> QED
        BY <2>1, <3>2, <4>1 DEF Kept
    <3> QED
      BY <1>1, <1>3, <3>1, <3>2
  <2>5. \A w \in Present' : \/ w \in Present /\ w \notin Kept(op[s], f)
                            \/ w \in Kept(o, f)
    BY <1>3, <2>4
  <2>6. record' = [record EXCEPT ![s] = f]
    BY <1>1, Facts
  <2> HIDE DEF f
  <2> QED
    BY <1>1, <1>3, <2>1, <2>2, <2>3, <2>5, <2>6, Facts, Stepped DEF f
<1>4. CASE Deleted(v) /\ op' = [op EXCEPT ![s].todo = @ \ {v}]
  <2>1. op' = [op EXCEPT ![s] = [op[s] EXCEPT !.todo = op[s].todo \ {v}, !.at = op[s].at]]
    <3>1. op[s] \in Ops
      BY Facts
    <3>2. [op[s] EXCEPT !.todo = op[s].todo \ {v}, !.at = op[s].at] = [op[s] EXCEPT !.todo = op[s].todo \ {v}]
      BY <3>1 DEF Ops
    <3> QED
      BY <1>4, <3>2, Facts
  <2> QED
    BY <1>1, <1>3, <1>4, <2>1, DeletedIs
<1>5. CASE HalfDeleted(v) /\ op' = [op EXCEPT ![s].todo = @ \ {v}, ![s].at = "sweepFailed"]
  <2>1. op' = [op EXCEPT ![s] = [op[s] EXCEPT !.todo = op[s].todo \ {v}, !.at = "sweepFailed"]]
    BY <1>5, Facts
  <2> QED
    BY <1>1, <1>3, <1>5, <2>1, DeletedIs
<1> QED
  BY <1>2, <1>4, <1>5

LEMMA EndSweepKept ==
    ASSUME Sound, NEW s \in Sandboxes, EndSweep(s) PROVE Sound'
<1> DEFINE f == record[s]
<1>1. /\ op[s].at \in {"sweep", "sweepFailed"} /\ op[s].todo = {}
      /\ UNCHANGED <<host, genuine, record, late, bounds>> /\ BoundsOK'
      /\ f \in Files \cup {NoRecord}
  BY BoundsKept, Facts DEF EndSweep
<1>2. RestOK' /\ Present' = Present
  BY <1>1, HostKept
<1>3. CASE Leave(s)
  BY <1>1, <1>2, <1>3, Facts, Leaves
<1>4. CASE op[s].at = "sweep" /\ Goto(s, "forget")
  <2> DEFINE o == [op[s] EXCEPT !.at = "forget"]
  <2>1. /\ o \in Ops /\ o.at = "forget" /\ o.kind = op[s].kind /\ o.inst = op[s].inst
        /\ o.snap = op[s].snap /\ o.copy = op[s].copy
    BY <1>1, Facts DEF Ops, Places
  <2>2. op' = [op EXCEPT ![s] = o] /\ mu' = mu
    BY <1>4, Facts, GotoIs DEF Places
  <2> HIDE DEF o
  <2>3. Stands(o, f)
    BY <1>4, <2>1, Facts DEF Stands, Placed, Fits, Copying
  <2>4. Kept(op[s], f) = Kept(o, f)
    <3>1. Left(o, f) = Left(op[s], f)
      BY <1>4, <2>1 DEF Left
    <3> QED
      BY <1>1, <1>4, <2>1, <3>1 DEF Kept
  <2>5. \A v \in Present' : \/ v \in Present /\ v \notin Kept(op[s], f)
                            \/ v \in Kept(o, f)
    BY <1>2, <2>4
  <2>6. record' = [record EXCEPT ![s] = f]
    BY <1>1, Facts
  <2> HIDE DEF f
  <2> QED
    BY <1>1, <1>2, <2>1, <2>2, <2>3, <2>5, <2>6, Facts, Stepped DEF f
<1> QED
  BY <1>3, <1>4 DEF EndSweep

LEMMA ForgetKept ==
    ASSUME Sound, NEW s \in Sandboxes, Forget(s) PROVE Sound'
<1>1. /\ op[s].at = "forget" /\ UNCHANGED <<host, genuine, late>> /\ op[s].kind \in Deletes
      /\ BoundsOK' /\ Leave(s)
  BY BoundsKept, Facts DEF Forget, At, Stands, Placed
<1>2. record' = [record EXCEPT ![s] = Left(op[s], record[s])] \/ UNCHANGED record
  <2>1. CASE op[s].kind = "drop"
    BY <1>1, <2>1, Facts DEF Forget, SetInstance, Left, Inst
  <2>2. CASE op[s].kind = "delete"
    BY <1>1, <2>2, Facts DEF Forget, SetInstance, Left
  <2>3. CASE op[s].kind = "destroy"
    BY <1>1, <2>3, Facts DEF Forget, Left
  <2> QED
    BY <1>1, <2>1, <2>2, <2>3 DEF Deletes
<1> QED
  BY <1>1, <1>2, LeavesLeft

\* The host on its own only turns guests on and off.
LEMMA HostMoves ==
    ASSUME Sound, UNCHANGED <<record, op, mu>>, RestOK', Present' \subseteq Present
    PROVE  Sound'
<1>1. TypeOK'
  BY Facts DEF TypeOK, RestOK, Ops, Files
<1>2. HostInv'
  BY <1>1, Facts DEF HostInv
<1>3. AllKept'
  <2> SUFFICES ASSUME NEW v \in Present' PROVE \E s \in Sandboxes : v \in Kept(op'[s], record'[s])
    BY DEF AllKept
  <2> QED
    BY Facts DEF AllKept
<1> QED
  BY <1>2, <1>3 DEF Sound

LEMMA HostStepKept ==
    ASSUME Sound, NEW v \in VMs, BootEnds(v) \/ ShutsDown(v) PROVE Sound'
<1>1. UNCHANGED <<genuine, record, op, mu, bounds>>
  BY DEF BootEnds, ShutsDown
<1>2. RestOK' /\ Present' \subseteq Present
  BY <1>1, BoundsKept, Facts DEF BootEnds, ShutsDown, RestOK, BoundsOK, Present
<1> QED
  BY <1>1, <1>2, HostMoves

LEMMA CrashKept ==
    ASSUME Sound, Crash PROVE Sound'
<1>1. /\ op' = [s \in Sandboxes |-> Idle] /\ mu' = Nobody
      /\ UNCHANGED <<host, genuine, record>>
  BY DEF Crash
<1>2. RestOK' /\ Present' = Present
  BY Facts, GuestLimit DEF Crash, RestOK, Present, Booting
<1>3. TypeOK'
  <2>1. op' \in [Sandboxes -> Ops]
    BY <1>1, IdleIs
  <2> QED
    BY <1>1, <1>2, <2>1, Facts DEF TypeOK, RestOK, Ops, Files
<1>4. \A s \in Sandboxes : Stands(op'[s], record'[s])
  BY <1>1, IdleIs, Facts DEF Stands, Placed
<1>5. AllKept'
  <2> SUFFICES ASSUME NEW v \in Present' PROVE \E s \in Sandboxes : v \in Kept(op'[s], record'[s])
    BY DEF AllKept
  <2>1. PICK s \in Sandboxes : v \in Kept(op[s], record[s])
    BY <1>2, Facts DEF AllKept
  <2>2. v \in Named(record[s])
    BY <2>1, Facts, KeptNamed
  <2>3. op'[s] = Idle /\ record'[s] = record[s] /\ Kept(Idle, record[s]) = Named(record[s])
    BY <1>1, IdleIs, LeftSame DEF Forgetting
  <2> QED
    BY <2>2, <2>3
<1> QED
  BY <1>3, <1>4, <1>5 DEF Sound, HostInv

LEMMA SoundInit == Init => Sound
<1> SUFFICES ASSUME Init PROVE Sound
  OBVIOUS
<1>1. TypeOK
  BY IdleIs, GuestLimit DEF Init, TypeOK, Ops
<1>2. \A s \in Sandboxes : Stands(op[s], record[s])
  BY IdleIs DEF Init, Stands, Placed
<1>3. AllKept
  BY DEF Init, AllKept, Present
<1> QED
  BY <1>1, <1>2, <1>3 DEF Sound, HostInv

LEMMA WorkKept ==
    ASSUME Sound, NEW s \in Sandboxes, Work(s) PROVE Sound'
  BY ListToStartKept, ListToCopyKept, ListToDeleteKept, ListFailsKept, MapKept, CloneKept, PinKept,
     UndoKept, UnmapKept, PrepareKept, StopKept, RunKept, PollKept, LookKept, SwitchKept, PurgeKept,
     ClearKept, SweepKept, EndSweepKept, ForgetKept DEF Work

LEMMA SoundStep == Sound /\ [Next]_vars => Sound'
<1> SUFFICES ASSUME Sound, [Next]_vars PROVE Sound'
  OBVIOUS
<1>1. CASE UNCHANGED vars
  <2>1. UNCHANGED <<host, genuine, record, op, mu, late, bounds>>
    BY <1>1 DEF vars
  <2> QED
    BY <2>1, BoundsKept, HostKept, HostMoves
<1>2. CASE Next
  BY <1>2, RequestKept, TakeMuKept, WorkKept, HostStepKept, CrashKept DEF Next
<1> QED
  BY <1>1, <1>2

\* TypeOK: the types of the variables, for any bounds.
THEOREM HostTypes == Spec => []TypeOK
<1>1. Sound => TypeOK
  BY DEF Sound, HostInv
<1> QED
  BY <1>1, SoundInit, SoundStep, PTL DEF Spec

\* NothingStray: whatever fails or crashes half-way, every guest made for a
\* sandbox is named in a record, and whatever the names are: it does not matter
\* here if two instances come to share one.
THEOREM NoGuestIsStray == Spec => []NothingStray
<1>1. Sound => NothingStray
  <2> SUFFICES ASSUME Sound, NEW v \in Present PROVE v \in UNION {Mapped(s) : s \in Sandboxes}
    BY DEF NothingStray
  <2>1. PICK s \in Sandboxes : v \in Kept(op[s], record[s])
    BY Facts DEF AllKept
  <2>2. v \in Mapped(s)
    BY <2>1, Facts, KeptNamed, MappedNamed
  <2> QED
    BY <2>2
<1> QED
  BY <1>1, SoundInit, SoundStep, PTL DEF Spec

-----------------------------------------------------------------------------
(* The starts, one after the other.                                          *)

LEMMA CountedFinite ==
    ASSUME IsFiniteSet(Present)
    PROVE  /\ IsFiniteSet(Counted) /\ Cardinality(Counted) \in Nat
           /\ IsFiniteSet(Running)
<1>1. Counted \subseteq Present /\ Running \subseteq Present
  BY DEF Counted, Running, Booting, Present
<1> QED
  BY <1>1, FS_Subset, FS_CardinalityType

LEMMA FewerCounted ==
    ASSUME StartsInv, Counted' \subseteq Counted
    PROVE  TwoAtMost'
<1>1. IsFiniteSet(Counted) /\ Cardinality(Counted) \in Nat /\ Cardinality(Counted) <= MaxGuests
  BY CountedFinite DEF StartsInv, TwoAtMost, Counted
<1>2. Cardinality(Counted') <= Cardinality(Counted) /\ IsFiniteSet(Counted')
  BY <1>1, FS_Subset
<1>3. Cardinality(Counted') \in Nat
  BY <1>2, FS_CardinalityType
<1>4. Cardinality(Counted') <= MaxGuests
  BY <1>1, <1>2, <1>3, GuestLimit
<1> QED
  BY <1>4 DEF TwoAtMost, Counted

\* What a step of s that makes o of its operation needs to keep the starts apart.
LEMMA StartsStep ==
    ASSUME StartsInv, op \in [Sandboxes -> Ops], NEW s \in Sandboxes, NEW o,
           op' = [op EXCEPT ![s] = o],
           \A t \in Sandboxes \ {s} : record'[t] = record[t],
           mu' = mu \/ mu \in {s, Nobody},
           InMu(o) => mu' = s, o.at \in {"run", "poll"} => InMu(o),
           InMu(o) /\ o.at \notin {"list", "poll"} => Counted' \subseteq o.seen,
           IsFiniteSet(o.seen), IsFiniteSet(Present'),
           Counted' \subseteq Counted \/ (mu = s /\ TwoAtMost'),
           \A v \in Booting' \ late' :
              \/ v \in Booting \ late /\ ~(At(s, "poll") /\ Guest(s) = v)
              \/ o.at = "poll" /\ Guest(s)' = v
    PROVE  StartsInv'
<1>1. /\ op'[s] = o
      /\ \A t \in Sandboxes \ {s} : op'[t] = op[t]
  OBVIOUS
<1>2. ASSUME NEW t \in Sandboxes
      PROVE  /\ InMu(op'[t]) => mu' = t
             /\ op'[t].at \in {"run", "poll"} => InMu(op'[t])
             /\ InMu(op'[t]) /\ op'[t].at \notin {"list", "poll"} => Counted' \subseteq op'[t].seen
             /\ IsFiniteSet(op'[t].seen)
  <2>1. CASE t = s
    BY <1>1, <2>1
  <2>2. CASE t # s
    <3>1. op'[t] = op[t]
      BY <1>1, <2>2
    <3>2. InMu(op[t]) => mu = t /\ mu' = t /\ Counted' \subseteq Counted
      BY <2>2, Absences DEF StartsInv
    <3> QED
      BY <3>1, <3>2 DEF StartsInv
  <2> QED
    BY <2>1, <2>2
<1>3. ASSUME NEW v \in Booting' \ late'
      PROVE  \E t \in Sandboxes : At(t, "poll")' /\ Guest(t)' = v
  <2>1. CASE o.at = "poll" /\ Guest(s)' = v
    BY <1>1, <2>1 DEF At
  <2>2. CASE v \in Booting \ late /\ ~(At(s, "poll") /\ Guest(s) = v)
    <3>1. PICK t \in Sandboxes : At(t, "poll") /\ Guest(t) = v
      BY <2>2 DEF StartsInv
    <3>2. t # s /\ op'[t] = op[t] /\ record'[t] = record[t]
      BY <1>1, <2>2, <3>1
    <3>3. At(t, "poll")' /\ Guest(t)' = Guest(t)
      BY <3>1, <3>2 DEF At, Guest, Inst
    <3> QED
      BY <3>1, <3>3
  <2> QED
    BY <2>1, <2>2
<1>4. TwoAtMost'
  BY FewerCounted
<1> QED
  BY <1>2, <1>3, <1>4 DEF StartsInv

\* Nothing is on now that was off, and nothing new is waited for.
Dims ==
    /\ Counted' \subseteq Counted
    /\ (Booting' \ late') \subseteq (Booting \ late)
    /\ IsFiniteSet(Present')

LEMMA DimsIs ==
    ASSUME Sound, StartsInv
    PROVE  /\ UNCHANGED <<host, late>> => Dims
           /\ \A v : Deleted(v) \/ HalfDeleted(v) => Dims
<1>1. IsFiniteSet(Present) /\ host \in [VMs -> {"absent", "stopped", "booting", "running"}]
  BY Facts DEF StartsInv, RestOK
<1>2. UNCHANGED <<host, late>> => Dims
  BY <1>1 DEF Dims, Counted, Running, Booting, Present
<1>3. ASSUME NEW v, NEW w \in {"absent", "stopped"}, host' = [host EXCEPT ![v] = w],
             late' = late \ {v}, w = "stopped" => host[v] = "running"
      PROVE  Dims
  <2>1. Counted' \subseteq Counted /\ (Booting' \ late') \subseteq (Booting \ late)
    BY <1>1, <1>3 DEF Counted, Running, Booting
  <2>2. Present' \subseteq Present
    BY <1>1, <1>3 DEF Present
  <2> QED
    BY <1>1, <2>1, <2>2, FS_Subset DEF Dims
<1>4. \A v : Deleted(v) \/ HalfDeleted(v) => Dims
  BY <1>2, <1>3 DEF Deleted, HalfDeleted
<1> QED
  BY <1>2, <1>4

LEMMA LeaveStarts ==
    ASSUME Sound, StartsInv, NEW s \in Sandboxes, Leave(s), Dims,
           \A t \in Sandboxes \ {s} : record'[t] = record[t],
           \A v \in Booting' \ late' : ~(At(s, "poll") /\ Guest(s) = v)
    PROVE  StartsInv'
<1>1. op \in [Sandboxes -> Ops] /\ mu \in Sandboxes \cup {Nobody}
  BY Facts
<1>2. PICK o \in Ops : op' = [op EXCEPT ![s] = o] /\ o.at \in {"idle", "mu"} /\ o.seen = {}
  BY <1>1, LeaveIs
<1>3. mu' = mu \/ mu \in {s, Nobody}
  BY <1>1, LeaveMu
<1>4. ~InMu(o) /\ o.at \notin {"run", "poll"} /\ IsFiniteSet(o.seen)
  BY <1>2, FS_EmptySet DEF InMu
<1> QED
  BY <1>1, <1>2, <1>3, <1>4, StartsStep DEF Dims

\* The operation goes on within the same hold of c.mu, or without it.
LEMMA OnwardStarts ==
    ASSUME Sound, StartsInv, NEW s \in Sandboxes, NEW o, op' = [op EXCEPT ![s] = o],
           \A t \in Sandboxes \ {s} : record'[t] = record[t], mu' = mu, Dims,
           op[s].at \notin {"idle", "mu", "list", "poll"}, o.at \notin {"idle", "mu", "list", "poll"},
           o.kind = op[s].kind, o.start = op[s].start, o.seen = op[s].seen,
           o.at = "run" => InMu(op[s])
    PROVE  StartsInv'
<1>1. op \in [Sandboxes -> Ops]
  BY Facts
<1>2. InMu(o) <=> InMu(op[s])
  BY DEF InMu
<1>3. /\ InMu(o) => mu' = s /\ Counted' \subseteq o.seen
      /\ IsFiniteSet(o.seen)
  BY <1>2 DEF StartsInv, Dims
<1>4. \A v \in Booting' \ late' : v \in Booting \ late /\ ~(At(s, "poll") /\ Guest(s) = v)
  BY DEF Dims, At
<1>5. IsFiniteSet(Present') /\ Counted' \subseteq Counted
  BY DEF Dims
<1>6. o.at \in {"run", "poll"} => InMu(o)
  BY <1>2
<1> QED
  BY <1>1, <1>3, <1>4, <1>5, <1>6, StartsStep

LEMMA GotoStarts ==
    ASSUME Sound, StartsInv, NEW s \in Sandboxes, NEW place \in Places \ {"idle", "mu", "list", "poll"},
           Goto(s, place), \A t \in Sandboxes \ {s} : record'[t] = record[t], Dims,
           op[s].at \notin {"idle", "mu", "list", "poll"}, place = "run" => InMu(op[s])
    PROVE  StartsInv'
<1> DEFINE o == [op[s] EXCEPT !.at = place]
<1>1. o.at = place /\ o.kind = op[s].kind /\ o.start = op[s].start /\ o.seen = op[s].seen
  BY Facts DEF Ops
<1>2. op' = [op EXCEPT ![s] = o] /\ mu' = mu
  BY Facts, GotoIs
<1> HIDE DEF o
<1> QED
  BY <1>1, <1>2, OnwardStarts

\* An operation that holds no c.mu.
LEMMA AsideStarts ==
    ASSUME Sound, StartsInv, NEW s \in Sandboxes, NEW o, op' = [op EXCEPT ![s] = o],
           \A t \in Sandboxes \ {s} : record'[t] = record[t], mu' = mu, Dims,
           op[s].at # "poll", ~InMu(o), o.at \notin {"run", "poll"},
           o.seen = op[s].seen \/ o.seen = {}
    PROVE  StartsInv'
<1>1. op \in [Sandboxes -> Ops]
  BY Facts
<1>2. IsFiniteSet(o.seen)
  BY FS_EmptySet DEF StartsInv
<1>3. \A v \in Booting' \ late' : v \in Booting \ late /\ ~(At(s, "poll") /\ Guest(s) = v)
  BY DEF Dims, At
<1>4. IsFiniteSet(Present') /\ Counted' \subseteq Counted
  BY DEF Dims
<1> QED
  BY <1>1, <1>2, <1>3, <1>4, StartsStep

LEMMA SetStarts ==
    ASSUME Sound, NEW s \in Sandboxes, NEW q, SetInstance(s, q) \/ UNCHANGED record
    PROVE  \A t \in Sandboxes \ {s} : record'[t] = record[t]
  BY Facts DEF SetInstance

LEMMA RequestStarts ==
    ASSUME Sound, StartsInv, NEW s \in Sandboxes, Request(s) PROVE StartsInv'
<1>1. CASE CreateSandbox(s)
  <2>1. /\ UNCHANGED <<host, op, mu, late>> /\ op[s] = Idle
        /\ \A t \in Sandboxes \ {s} : record'[t] = record[t]
    BY <1>1, Facts DEF CreateSandbox
  <2>2. op' = [op EXCEPT ![s] = op[s]]
    BY <2>1, Facts
  <2>3. op[s].at = "idle"
    BY <2>1, IdleIs
  <2>4. ~InMu(op[s])
    BY <2>3 DEF InMu
  <2> QED
    BY <2>1, <2>2, <2>3, <2>4, DimsIs, AsideStarts
<1>2. ASSUME NEW place \in {"mu", "list", "stop"}, NEW kind, NEW i, NEW n, NEW start,
             Begin(s, place, kind, i, n, start),
             place = "mu" \/ (kind \notin Starts /\ ~(kind = "create" /\ start))
      PROVE  StartsInv'
  <2> DEFINE o == [Idle EXCEPT !.at = place, !.kind = kind, !.inst = i, !.snap = n, !.start = start]
  <2>1. o.at = place /\ o.kind = kind /\ o.start = start /\ o.seen = {}
    BY DEF Idle
  <2>2. /\ op' = [op EXCEPT ![s] = o] /\ op[s] = Idle
        /\ UNCHANGED <<host, record, mu, late>>
    BY <1>2 DEF Begin
  <2> HIDE DEF o
  <2>3. ~InMu(o)
    BY <1>2, <2>1 DEF InMu
  <2> QED
    BY <2>1, <2>2, <2>3, IdleIs, DimsIs, AsideStarts
<1>3. CASE DeleteSandbox(s)
  BY <1>2, <1>3 DEF DeleteSandbox, Starts
<1>4. ASSUME NEW i \in Instances, CreateInstance(s, i) PROVE StartsInv'
  <2>1. PICK start \in BOOLEAN :
           Begin(s, IF start THEN "mu" ELSE "list", "create", i, NoVM, start)
    BY <1>4 DEF CreateInstance
  <2>2. CASE start
    BY <1>2, <2>1, <2>2
  <2>3. CASE ~start
    BY <1>2, <2>1, <2>3 DEF Starts
  <2> QED
    BY <2>2, <2>3
<1>5. ASSUME NEW i \in Instances,
             StartInstance(s, i) \/ RestartInstance(s, i) \/ StopInstance(s, i) \/ DeleteInstance(s, i)
      PROVE  StartsInv'
  BY <1>2, <1>5 DEF StartInstance, RestartInstance, StopInstance, DeleteInstance, Starts
<1>6. ASSUME NEW i \in Instances, NEW n \in Snapshots,
             CreateSnapshot(s, i, n) \/ RestoreSnapshot(s, i, n) \/ DeleteSnapshot(s, i, n)
      PROVE  StartsInv'
  <2>1. CASE CreateSnapshot(s, i, n)
    <3>1. PICK place \in {"stop", "list"} : Begin(s, place, "snapshot", i, n, FALSE)
      BY <2>1 DEF CreateSnapshot
    <3> QED
      BY <1>2, <3>1 DEF Starts
  <2>2. CASE RestoreSnapshot(s, i, n) \/ DeleteSnapshot(s, i, n)
    BY <1>2, <2>2 DEF RestoreSnapshot, DeleteSnapshot, Starts
  <2> QED
    BY <1>6, <2>1, <2>2
<1> QED
  BY <1>1, <1>3, <1>4, <1>5, <1>6 DEF Request

LEMMA TakeMuStarts ==
    ASSUME Sound, StartsInv, NEW s \in Sandboxes, TakeMu(s) PROVE StartsInv'
<1> DEFINE o == [op[s] EXCEPT !.at = "list"]
<1>1. /\ op' = [op EXCEPT ![s] = o] /\ op[s].at = "mu" /\ mu = Nobody /\ mu' = s
      /\ UNCHANGED <<host, record, late>>
  BY Facts DEF TakeMu, At
<1>2. o.at = "list" /\ o.seen = op[s].seen
  BY Facts DEF Ops
<1> HIDE DEF o
<1>3. Dims
  BY <1>1, DimsIs
<1>4. \A v \in Booting' \ late' : v \in Booting \ late /\ ~(At(s, "poll") /\ Guest(s) = v)
  BY <1>1, <1>3 DEF Dims, At
<1>5. IsFiniteSet(Present') /\ IsFiniteSet(o.seen) /\ Counted' \subseteq Counted
  BY <1>2, <1>3 DEF Dims, StartsInv
<1> QED
  BY <1>1, <1>2, <1>4, <1>5, Facts, StartsStep

\* Where nobody waits for a guest, none boots that counts.
LEMMA NoneBooting ==
    ASSUME StartsInv, NEW s \in Sandboxes, mu = s, op[s].at # "poll"
    PROVE  Booting \ late = {}
<1> SUFFICES ASSUME NEW v \in Booting \ late PROVE FALSE
  OBVIOUS
<1>1. PICK t \in Sandboxes : op[t].at = "poll"
  BY DEF StartsInv, At
<1>2. mu = t
  BY <1>1 DEF StartsInv
<1> QED
  BY <1>1, <1>2

LEMMA ListToStartStarts ==
    ASSUME Sound, StartsInv, NEW s \in Sandboxes, ListToStart(s) PROVE StartsInv'
<1>1. /\ op[s].at = "list" /\ op[s].kind \in Starts \cup {"create"}
      /\ UNCHANGED <<host, record, late>>
  BY DEF ListToStart, At
<1>2. Dims
  BY <1>1, DimsIs
<1>3. CASE Leave(s)
  BY <1>1, <1>2, <1>3, LeaveStarts DEF At
<1>4. CASE /\ op' = [op EXCEPT ![s].at = AfterListing(s), ![s].seen = Running, ![s].copy = Guest(s)]
           /\ UNCHANGED mu
  <2> DEFINE o == [op[s] EXCEPT !.at = AfterListing(s), !.seen = Running, !.copy = Guest(s)]
  <2>1. /\ AfterListing(s) \in {"map", "pin", "stop", "run"}
        /\ op[s].kind = "create" <=> AfterListing(s) = "map"
    BY <1>1 DEF AfterListing, Starts
  <2>2. o.at = AfterListing(s) /\ o.kind = op[s].kind /\ o.start = op[s].start /\ o.seen = Running
    BY Facts DEF Ops
  <2>3. op' = [op EXCEPT ![s] = o]
    BY <1>4, Facts
  <2> HIDE DEF o
  <2>4. InMu(o) => mu = s /\ mu' = s
    <3>1. InMu(o) => InMu(op[s])
      BY <1>1, <2>2 DEF InMu
    <3> QED
      BY <1>4, <3>1 DEF StartsInv
  <2>5. o.at \in {"run", "poll"} => InMu(o)
    BY <1>1, <2>1, <2>2 DEF InMu
  <2>6. InMu(o) => Counted' \subseteq o.seen
    <3>1. InMu(o) => Counted \subseteq Running
      BY <1>1, <2>4, NoneBooting DEF Counted
    <3> QED
      BY <1>2, <2>2, <3>1 DEF Dims
  <2>7. \A v \in Booting' \ late' : v \in Booting \ late /\ ~(At(s, "poll") /\ Guest(s) = v)
    BY <1>1, <1>2 DEF Dims, At
  <2>8. IsFiniteSet(Present') /\ IsFiniteSet(o.seen) /\ Counted' \subseteq Counted
    BY <1>2, <2>2, CountedFinite DEF Dims, StartsInv
  <2>9. \A t \in Sandboxes \ {s} : record'[t] = record[t]
    BY <1>1
  <2> QED
    BY <1>4, <2>3, <2>4, <2>5, <2>6, <2>7, <2>8, <2>9, Facts, StartsStep
<1> QED
  BY <1>3, <1>4 DEF ListToStart

LEMMA ListedStarts ==
    ASSUME Sound, StartsInv, NEW s \in Sandboxes, ListToCopy(s) \/ ListToDelete(s) \/ ListFails(s)
    PROVE  StartsInv'
<1>1. op[s].at = "list" /\ UNCHANGED <<host, record, late>>
  BY DEF ListToCopy, ListToDelete, ListFails, At
<1>2. Dims
  BY <1>1, DimsIs
<1>3. CASE ListFails(s)
  BY <1>1, <1>2, <1>3, BoundsKept, LeaveStarts DEF ListFails, At
<1>4. CASE ListToCopy(s)
  <2>1. PICK v : op' = [op EXCEPT ![s].at = "map", ![s].copy = v]
    BY <1>4 DEF ListToCopy
  <2> DEFINE o == [op[s] EXCEPT !.at = "map", !.copy = v]
  <2>2. op' = [op EXCEPT ![s] = o]
    BY <2>1, Facts
  <2>3. o.at = "map" /\ o.kind = op[s].kind /\ o.seen = op[s].seen /\ op[s].kind \in Copies
    BY <1>4, Facts DEF Ops, ListToCopy
  <2> HIDE DEF o
  <2>4. ~InMu(o)
    BY <2>3 DEF InMu, Copies, Starts
  <2> QED
    BY <1>1, <1>2, <1>4, <2>2, <2>3, <2>4, AsideStarts DEF ListToCopy
<1>5. CASE ListToDelete(s)
  <2> DEFINE o == [op[s] EXCEPT !.at = "sweep", !.todo = Doomed(s) \cap Present]
  <2>1. op' = [op EXCEPT ![s] = o]
    BY <1>5, Facts DEF ListToDelete
  <2>2. o.at = "sweep" /\ o.kind = op[s].kind /\ o.seen = op[s].seen /\ op[s].kind \in Deletes
    BY <1>5, Facts DEF Ops, ListToDelete
  <2> HIDE DEF o
  <2>3. ~InMu(o)
    BY <2>2 DEF InMu, Deletes, Starts
  <2> QED
    BY <1>1, <1>2, <1>5, <2>1, <2>2, <2>3, AsideStarts DEF ListToDelete
<1> QED
  BY <1>3, <1>4, <1>5

\* The steps of copying, restoring and deleting.
Onward == {"prepare", "pin", "undo", "unmap", "clone", "look", "switch", "purge", "clear", "sweep",
           "sweepFailed", "forget", "map", "stop"}

LEMMA MovesStarts ==
    ASSUME Sound, StartsInv, NEW s \in Sandboxes, Dims, op[s].at \in Onward,
           \A t \in Sandboxes \ {s} : record'[t] = record[t],
           Leave(s) \/ \E place \in Onward : Goto(s, place)
    PROVE  StartsInv'
<1>1. CASE Leave(s)
  BY <1>1, LeaveStarts DEF At, Onward
<1>2. ASSUME NEW place \in Onward, Goto(s, place) PROVE StartsInv'
  <2>1. place \in Places \ {"idle", "mu", "list", "poll"} /\ place # "run"
    BY <1>2 DEF Onward, Places
  <2>2. op[s].at \notin {"idle", "mu", "list", "poll"}
    BY DEF Onward
  <2> QED
    BY <1>2, <2>1, <2>2, GotoStarts
<1> QED
  BY <1>1, <1>2

LEMMA UpdateStarts ==
    ASSUME Sound, StartsInv, NEW s \in Sandboxes, NEW q, NEW place \in Onward, Update(s, q, place),
           op[s].at \in Onward, UNCHANGED <<host, late>>
    PROVE  StartsInv'
  BY SetStarts, DimsIs, BoundsKept, MovesStarts DEF Update

LEMMA CloneDims ==
    ASSUME Sound, StartsInv, NEW v \in VMs, host' = [host EXCEPT ![v] = "stopped"], late' = late
    PROVE  Dims
<1>1. IsFiniteSet(Present) /\ host \in [VMs -> {"absent", "stopped", "booting", "running"}]
  BY Facts DEF StartsInv, RestOK
<1>2. Counted' \subseteq Counted /\ (Booting' \ late') \subseteq (Booting \ late)
  BY <1>1 DEF Counted, Running, Booting
<1>3. Present' \subseteq Present \cup {v}
  BY <1>1 DEF Present
<1> QED
  BY <1>1, <1>2, <1>3, FS_AddElement, FS_Subset DEF Dims

LEMMA CopyStarts ==
    ASSUME Sound, StartsInv, NEW s \in Sandboxes,
           Map(s) \/ Clone(s) \/ Pin(s) \/ Undo(s) \/ Unmap(s) \/ Switch(s) \/ Purge(s) \/ Forget(s)
    PROVE  StartsInv'
<1>1. CASE Map(s)
  BY <1>1, UpdateStarts DEF Map, At, Onward
<1>2. CASE Clone(s)
  <2>1. op[s].copy \in VMs
    BY <1>2, Facts DEF Clone, At, Stands, Fits, Copying
  <2>2. Dims
    BY <1>2, <2>1, CloneDims, DimsIs DEF Clone
  <2> QED
    BY <1>2, <2>2, MovesStarts DEF Clone, At, Onward
<1>3. CASE Pin(s)
  <2>1. /\ op[s].at = "pin" /\ UNCHANGED <<host, record, late>>
        /\ \/ Leave(s) \/ Goto(s, "undo")
           \/ op[s].kind # "snapshot" /\ Goto(s, AfterPin(s))
    BY <1>3 DEF Pin, At
  <2>2. op[s].kind # "snapshot" => AfterPin(s) \in {"prepare", "look"}
    BY <2>1, Facts DEF Stands, Placed, Copies, AfterPin
  <2>3. Dims
    BY <2>1, DimsIs
  <2> QED
    BY <2>1, <2>2, <2>3, MovesStarts DEF Onward
<1>4. CASE Undo(s)
  BY <1>4, DimsIs, BoundsKept, MovesStarts DEF Undo, At, Onward
<1>5. CASE Unmap(s)
  BY <1>5, DimsIs, SetStarts, BoundsKept, MovesStarts DEF Unmap, At, Onward
<1>6. CASE Switch(s)
  BY <1>6, UpdateStarts DEF Switch, At, Onward
<1>7. CASE Purge(s)
  BY <1>7, DimsIs, BoundsKept, MovesStarts DEF Purge, At, Onward
<1>8. CASE Forget(s)
  <2>1. \A t \in Sandboxes \ {s} : record'[t] = record[t]
    <3>1. op[s].kind \in {"drop", "delete", "destroy"}
      BY <1>8, Facts DEF Forget, At, Stands, Placed, Deletes
    <3> QED
      BY <1>8, <3>1, SetStarts, Facts DEF Forget
  <2> QED
    BY <1>8, <2>1, DimsIs, BoundsKept, MovesStarts DEF Forget, At, Onward
<1> QED
  BY <1>1, <1>2, <1>3, <1>4, <1>5, <1>6, <1>7, <1>8

LEMMA PrepareStarts ==
    ASSUME Sound, StartsInv, NEW s \in Sandboxes, Prepare(s) PROVE StartsInv'
<1> DEFINE q == [Inst(s) EXCEPT !.prepared = TRUE]
<1>1. /\ op[s].at = "prepare" /\ op[s].kind \in Starts \cup {"create"}
      /\ UNCHANGED <<host, late>>
  BY Facts DEF Prepare, At, Stands, Placed
<1> HIDE DEF q
<1>2. Dims
  BY <1>1, DimsIs
<1>3. ASSUME NEW place \in {"stop", "run"}, place = "run" => InMu(op[s]), Update(s, q, place)
      PROVE  StartsInv'
  <2>1. \A t \in Sandboxes \ {s} : record'[t] = record[t]
    BY <1>3, SetStarts DEF Update
  <2>2. CASE Leave(s)
    BY <1>1, <1>2, <2>1, <2>2, MovesStarts DEF Onward
  <2>3. CASE Goto(s, place)
    BY <1>1, <1>2, <1>3, <2>1, <2>3, GotoStarts DEF Places
  <2> QED
    BY <1>3, <2>2, <2>3, BoundsKept DEF Update
<1>4. CASE op[s].kind = "create" /\ ~op[s].start
  <2>1. Leave(s) /\ (SetInstance(s, q) \/ UNCHANGED record)
    BY <1>4, BoundsKept DEF Prepare, q
  <2> QED
    BY <1>1, <1>2, <2>1, SetStarts, MovesStarts DEF Onward
<1>5. CASE op[s].kind = "restart" /\ Guest(s) \in op[s].seen
  BY <1>3, <1>5 DEF Prepare, q
<1>6. CASE ~(op[s].kind = "create" /\ ~op[s].start) /\ ~(op[s].kind = "restart" /\ Guest(s) \in op[s].seen)
  <2>1. InMu(op[s])
    BY <1>1, <1>6 DEF InMu
  <2> QED
    BY <1>3, <1>6, <2>1 DEF Prepare, q
<1> QED
  BY <1>4, <1>5, <1>6

LEMMA StopStarts ==
    ASSUME Sound, StartsInv, NEW s \in Sandboxes, Stop(s) PROVE StartsInv'
<1> DEFINE stopped == /\ host' = [host EXCEPT ![Guest(s)] = IF @ = "absent" THEN @ ELSE "stopped"]
                      /\ late' = late \ {Guest(s)}
<1>1. /\ op[s].at = "stop" /\ record' = record
      /\ op[s].kind \in {"stop", "restart", "snapshot", "restore"}
  BY Facts DEF Stop, At, Stands, Placed
<1>2. ASSUME stopped PROVE Dims /\ Guest(s) \notin Counted'
  <2>1. IsFiniteSet(Present) /\ host \in [VMs -> {"absent", "stopped", "booting", "running"}]
    BY Facts DEF StartsInv, RestOK
  <2>2. /\ Counted' \subseteq Counted /\ (Booting' \ late') \subseteq (Booting \ late)
        /\ Guest(s) \notin Counted' /\ Present' \subseteq Present
    BY <1>2, <2>1 DEF Counted, Running, Booting, Present
  <2> QED
    BY <2>1, <2>2, FS_Subset DEF Dims
<1>3. CASE Leave(s) /\ (stopped \/ UNCHANGED <<host, late>>)
  <2>1. Dims
    BY <1>2, <1>3, DimsIs
  <2> QED
    BY <1>1, <1>3, <2>1, MovesStarts DEF Onward
<1>4. CASE /\ op[s].kind = "restart" /\ stopped /\ UNCHANGED mu
           /\ op' = [op EXCEPT ![s].at = "run", ![s].seen = @ \ {Guest(s)}]
  <2> DEFINE o == [op[s] EXCEPT !.at = "run", !.seen = op[s].seen \ {Guest(s)}]
  <2>1. o.at = "run" /\ o.kind = "restart" /\ o.seen = op[s].seen \ {Guest(s)}
    BY <1>4, Facts DEF Ops
  <2>2. op' = [op EXCEPT ![s] = o]
    BY <1>4, Facts
  <2> HIDE DEF o
  <2>3. InMu(o) /\ InMu(op[s])
    BY <1>1, <1>4, <2>1 DEF InMu, Starts
  <2>4. Dims /\ Guest(s) \notin Counted'
    BY <1>2, <1>4
  <2>5. mu = s /\ mu' = s /\ Counted \subseteq op[s].seen /\ IsFiniteSet(op[s].seen)
    BY <1>1, <1>4, <2>3 DEF StartsInv
  <2>6. Counted' \subseteq o.seen /\ IsFiniteSet(o.seen)
    BY <2>1, <2>4, <2>5, FS_Subset DEF Dims
  <2>7. \A v \in Booting' \ late' : v \in Booting \ late /\ ~(At(s, "poll") /\ Guest(s) = v)
    BY <1>1, <2>4 DEF Dims, At
  <2>8. IsFiniteSet(Present') /\ Counted' \subseteq Counted
    BY <2>4 DEF Dims
  <2>9. \A t \in Sandboxes \ {s} : record'[t] = record[t]
    BY <1>1
  <2> QED
    BY <2>2, <2>3, <2>5, <2>6, <2>7, <2>8, <2>9, Facts, StartsStep
<1>5. CASE /\ op[s].kind = "snapshot" /\ stopped /\ UNCHANGED mu
           /\ op' = [op EXCEPT ![s].at = "list", ![s].start = TRUE]
  <2> DEFINE o == [op[s] EXCEPT !.at = "list", !.start = TRUE]
  <2>1. o.at = "list" /\ o.kind = "snapshot" /\ o.seen = op[s].seen
    BY <1>5, Facts DEF Ops
  <2>2. op' = [op EXCEPT ![s] = o]
    BY <1>5, Facts
  <2> HIDE DEF o
  <2>3. ~InMu(o) /\ Dims
    BY <1>2, <1>5, <2>1 DEF InMu, Starts
  <2> QED
    BY <1>1, <1>5, <2>1, <2>2, <2>3, AsideStarts
<1>6. CASE op[s].kind = "restore" /\ stopped /\ Goto(s, "switch")
  <2>1. Dims
    BY <1>2, <1>6
  <2> QED
    BY <1>1, <1>6, <2>1, MovesStarts DEF Onward
<1> QED
  BY <1>1, <1>3, <1>4, <1>5, <1>6, BoundsKept DEF Stop

LEMMA RunStarts ==
    ASSUME Sound, StartsInv, NEW s \in Sandboxes, Run(s) PROVE StartsInv'
<1> DEFINE g == Guest(s)
           boots == host' = [host EXCEPT ![g] = IF @ = "stopped" THEN "booting" ELSE @]
<1>1. op[s].at = "run" /\ UNCHANGED record /\ InMu(op[s]) /\ mu = s
  BY DEF Run, At, StartsInv
<1>2. /\ Counted \subseteq op[s].seen /\ IsFiniteSet(op[s].seen) /\ IsFiniteSet(Present)
      /\ host \in [VMs -> {"absent", "stopped", "booting", "running"}]
  BY <1>1, Facts DEF StartsInv, RestOK
<1>3. Booting \ late = {}
  BY <1>1, NoneBooting
<1>4. CASE Leave(s) /\ UNCHANGED <<host, late>>
  BY <1>1, <1>4, DimsIs, LeaveStarts DEF At
<1>5. ASSUME boots
      PROVE  /\ IsFiniteSet(Present')
             /\ late' = late \cup {g} => Counted' \subseteq Counted /\ Booting' \ late' = {}
             /\ late' = late \ {g} => Counted' \subseteq Counted \cup {g} /\ Booting' \ late' \subseteq {g}
  <2>1. Present' = Present
    BY <1>2, <1>5 DEF Present
  <2>2. late' = late \cup {g} => Counted' \subseteq Counted /\ Booting' \ late' = {}
    BY <1>2, <1>3, <1>5 DEF Counted, Running, Booting
  <2>3. late' = late \ {g} => Counted' \subseteq Counted \cup {g} /\ Booting' \ late' \subseteq {g}
    BY <1>2, <1>3, <1>5 DEF Counted, Running, Booting
  <2> QED
    BY <1>2, <2>1, <2>2, <2>3
<1>6. CASE Leave(s) /\ boots /\ late' = late \cup {g}
  <2>1. Dims
    BY <1>5, <1>6 DEF Dims
  <2> QED
    BY <1>1, <1>6, <2>1, LeaveStarts DEF At
<1>7. CASE /\ g \notin op[s].seen /\ ~FullHouse(op[s].seen)
           /\ boots /\ late' = late \ {g} /\ Goto(s, "poll")
  <2> DEFINE o == [op[s] EXCEPT !.at = "poll"]
  <2>1. o.at = "poll" /\ o.kind = op[s].kind /\ o.start = op[s].start /\ o.seen = op[s].seen
        /\ o.inst = op[s].inst
    BY Facts DEF Ops
  <2>2. op' = [op EXCEPT ![s] = o] /\ mu' = mu
    BY <1>7, Facts, GotoIs DEF Places
  <2> HIDE DEF o
  <2>3. InMu(o)
    BY <1>1, <2>1 DEF InMu
  <2>4. Guest(s)' = Guest(s)
    <3>1. op'[s].kind = op[s].kind /\ op'[s].inst = op[s].inst /\ record' = record
      <4>1. op'[s] = o
        BY <2>2, Facts
      <4> QED
        BY <1>1, <2>1, <4>1
    <3> QED
      BY <3>1 DEF Guest, Inst
  <2>5. TwoAtMost'
    <3>1. IsFiniteSet(op[s].seen \cup {g}) /\ Cardinality(op[s].seen \cup {g}) = Cardinality(op[s].seen) + 1
      BY <1>2, <1>7, FS_AddElement
    <3>2. Counted' \subseteq op[s].seen \cup {g}
      BY <1>2, <1>5, <1>7
    <3>3. Cardinality(op[s].seen) \in Nat /\ ~(Cardinality(op[s].seen) >= MaxGuests)
      BY <1>2, <1>7, FS_CardinalityType DEF FullHouse
    <3>4. IsFiniteSet(Counted') /\ Cardinality(Counted') <= Cardinality(op[s].seen \cup {g})
      BY <3>1, <3>2, FS_Subset
    <3>5. Cardinality(Counted') \in Nat
      BY <3>4, FS_CardinalityType
    <3>6. Cardinality(Counted') <= MaxGuests
      BY <3>1, <3>3, <3>4, <3>5, GuestLimit
    <3> QED
      BY <3>6 DEF TwoAtMost, Counted
  <2>6. \A v \in Booting' \ late' : Guest(s)' = v
    BY <1>5, <1>7, <2>4
  <2>7. \A t \in Sandboxes \ {s} : record'[t] = record[t]
    BY <1>1
  <2> QED
    BY <1>1, <1>2, <1>5, <1>7, <2>1, <2>2, <2>3, <2>5, <2>6, <2>7, Facts, StartsStep
<1> QED
  BY <1>4, <1>6, <1>7, BoundsKept DEF Run

LEMMA PollStarts ==
    ASSUME Sound, StartsInv, NEW s \in Sandboxes, Poll(s) PROVE StartsInv'
<1>1. /\ op[s].at = "poll" /\ UNCHANGED <<host, record>> /\ Leave(s)
      /\ late' = IF host[Guest(s)] = "booting" THEN late \cup {Guest(s)} ELSE late
  BY DEF Poll, At
<1>2. Dims
  <2>1. late \subseteq late' /\ IsFiniteSet(Present)
    BY <1>1 DEF StartsInv
  <2> QED
    BY <1>1, <2>1 DEF Dims, Counted, Running, Booting, Present
<1>3. \A v \in Booting' \ late' : ~(At(s, "poll") /\ Guest(s) = v)
  BY <1>1 DEF Booting
<1> QED
  BY <1>1, <1>2, <1>3, LeaveStarts

LEMMA LookStarts ==
    ASSUME Sound, StartsInv, NEW s \in Sandboxes, Look(s) PROVE StartsInv'
<1>1. op[s].at = "look" /\ op[s].kind = "restore" /\ UNCHANGED <<host, record, late>>
  BY Facts DEF Look, At, Stands, Placed
<1>2. Dims
  BY <1>1, DimsIs
<1>3. CASE Fails(s)
  BY <1>1, <1>2, <1>3, BoundsKept, MovesStarts DEF Onward
<1>4. CASE /\ op' = [op EXCEPT ![s].start = Guest(s) \in Running,
                               ![s].at = IF Guest(s) \in Running THEN "stop" ELSE "switch"]
           /\ UNCHANGED mu
  <2> DEFINE on == Guest(s) \in Running
             place == IF on THEN "stop" ELSE "switch"
             o == [op[s] EXCEPT !.start = on, !.at = place]
  <2>1. op' = [op EXCEPT ![s] = o]
    BY <1>4, Facts
  <2> HIDE DEF on
  <2>2. place \in {"stop", "switch"}
    OBVIOUS
  <2> HIDE DEF place
  <2>3. o.at = place /\ o.kind = op[s].kind /\ o.seen = op[s].seen
    BY Facts DEF Ops
  <2> HIDE DEF o
  <2>4. ~InMu(o)
    BY <1>1, <2>3 DEF InMu, Starts
  <2> QED
    BY <1>1, <1>2, <1>4, <2>1, <2>2, <2>3, <2>4, AsideStarts
<1> QED
  BY <1>3, <1>4 DEF Look

LEMMA ClearStarts ==
    ASSUME Sound, StartsInv, NEW s \in Sandboxes, Clear(s) PROVE StartsInv'
<1>1. op[s].at = "clear" /\ UNCHANGED <<host, late>> /\ \A t \in Sandboxes \ {s} : record'[t] = record[t]
  BY SetStarts DEF Clear, At
<1>2. Dims
  BY <1>1, DimsIs
<1>3. CASE Fails(s)
  BY <1>1, <1>2, <1>3, BoundsKept, MovesStarts DEF Onward
<1>4. CASE UNCHANGED mu /\ IF op[s].start THEN ThenStart(s) ELSE op' = [op EXCEPT ![s] = Idle]
  <2> DEFINE p == [Idle EXCEPT !.at = "mu", !.kind = "start", !.start = TRUE, !.inst = op[s].inst]
  <2>1. p.at = "mu" /\ p.seen = {}
    BY DEF Idle
  <2>2. op' = [op EXCEPT ![s] = p] \/ op' = [op EXCEPT ![s] = Idle]
    BY <1>4 DEF ThenStart
  <2> HIDE DEF p
  <2>3. PICK o : op' = [op EXCEPT ![s] = o] /\ o.at \in {"mu", "idle"} /\ o.seen = {}
    BY <2>1, <2>2, IdleIs
  <2>4. ~InMu(o)
    BY <2>3 DEF InMu
  <2> QED
    BY <1>1, <1>2, <1>4, <2>3, <2>4, AsideStarts
<1> QED
  BY <1>3, <1>4 DEF Clear

LEMMA SweepStarts ==
    ASSUME Sound, StartsInv, NEW s \in Sandboxes, Sweep(s) \/ EndSweep(s) PROVE StartsInv'
<1>1. op[s].at \in {"sweep", "sweepFailed"} /\ op[s].kind \in Deletes /\ UNCHANGED record
  BY Facts DEF Sweep, EndSweep, Stands, Placed
<1>2. CASE EndSweep(s)
  <2>1. Dims
    BY <1>2, DimsIs DEF EndSweep
  <2> QED
    BY <1>1, <1>2, <2>1, MovesStarts DEF EndSweep, Onward
<1>3. CASE Sweep(s)
  <2>1. Dims /\ UNCHANGED mu
    BY <1>3, DimsIs DEF Sweep
  <2>2. PICK o : /\ op' = [op EXCEPT ![s] = o]
                 /\ o.at \in {"sweep", "sweepFailed"} /\ o.kind = op[s].kind /\ o.seen = op[s].seen
    <3>1. PICK v : \/ op' = [op EXCEPT ![s].todo = @ \ {v}]
                   \/ op' = [op EXCEPT ![s].todo = @ \ {v}, ![s].at = "sweepFailed"]
      BY <1>3 DEF Sweep
    <3> DEFINE p == [op[s] EXCEPT !.todo = op[s].todo \ {v}]
               q == [op[s] EXCEPT !.todo = op[s].todo \ {v}, !.at = "sweepFailed"]
    <3>2. /\ p.at = op[s].at /\ p.kind = op[s].kind /\ p.seen = op[s].seen
          /\ q.at = "sweepFailed" /\ q.kind = op[s].kind /\ q.seen = op[s].seen
      BY Facts DEF Ops
    <3>3. op' = [op EXCEPT ![s] = p] \/ op' = [op EXCEPT ![s] = q]
      BY <3>1, Facts
    <3> HIDE DEF p, q
    <3> QED
      BY <1>1, <3>2, <3>3
  <2>3. ~InMu(o)
    BY <1>1, <2>2 DEF InMu, Starts, Deletes
  <2> QED
    BY <1>1, <2>1, <2>2, <2>3, AsideStarts
<1> QED
  BY <1>2, <1>3

LEMMA WorkStarts ==
    ASSUME Sound, StartsInv, NEW s \in Sandboxes, Work(s) PROVE StartsInv'
  BY ListToStartStarts, ListedStarts, CopyStarts, PrepareStarts, StopStarts, RunStarts, PollStarts,
     LookStarts, ClearStarts, SweepStarts DEF Work

LEMMA HostStarts ==
    ASSUME Sound, StartsInv, NEW v \in VMs,
           BootEnds(v) \/ ShutsDown(v) \/ UNCHANGED <<host, record, op, mu, late>>
    PROVE  StartsInv'
<1>1. UNCHANGED <<record, op, mu>>
  BY DEF BootEnds, ShutsDown
<1>2. Dims
  <2>1. IsFiniteSet(Present) /\ host \in [VMs -> {"absent", "stopped", "booting", "running"}]
    BY Facts DEF StartsInv, RestOK
  <2>2. CASE UNCHANGED <<host, late>>
    BY <2>2, DimsIs
  <2>3. CASE BootEnds(v) \/ ShutsDown(v)
    <3>1. /\ Counted' \subseteq Counted /\ (Booting' \ late') \subseteq (Booting \ late)
          /\ Present' \subseteq Present
      BY <2>1, <2>3 DEF BootEnds, ShutsDown, Counted, Running, Booting, Present
    <3> QED
      BY <2>1, <3>1, FS_Subset DEF Dims
  <2> QED
    BY <2>2, <2>3
<1>3. TwoAtMost'
  BY <1>2, FewerCounted DEF Dims
<1>4. \A s \in Sandboxes : /\ InMu(op'[s]) => mu' = s
                           /\ op'[s].at \in {"run", "poll"} => InMu(op'[s])
                           /\ InMu(op'[s]) /\ op'[s].at \notin {"list", "poll"} => Counted' \subseteq op'[s].seen
                           /\ IsFiniteSet(op'[s].seen)
  BY <1>1, <1>2 DEF StartsInv, Dims
<1>5. \A w \in Booting' \ late' : \E s \in Sandboxes : At(s, "poll")' /\ Guest(s)' = w
  <2> SUFFICES ASSUME NEW w \in Booting' \ late'
               PROVE  \E s \in Sandboxes : At(s, "poll")' /\ Guest(s)' = w
    OBVIOUS
  <2>1. PICK s \in Sandboxes : At(s, "poll") /\ Guest(s) = w
    BY <1>2 DEF StartsInv, Dims
  <2>2. At(s, "poll")' = At(s, "poll") /\ Guest(s)' = Guest(s)
    BY <1>1 DEF At, Guest, Inst
  <2> QED
    BY <2>1, <2>2
<1> QED
  BY <1>2, <1>3, <1>4, <1>5 DEF StartsInv, Dims

LEMMA CrashStarts ==
    ASSUME Sound, StartsInv, Crash PROVE StartsInv'
<1>1. /\ op' = [s \in Sandboxes |-> Idle] /\ UNCHANGED host /\ late' = late \cup Booting
  BY DEF Crash
<1>2. Counted' \subseteq Counted /\ Booting' \ late' = {} /\ Present' = Present
  BY <1>1 DEF Counted, Running, Booting, Present
<1>3. \A s \in Sandboxes : op'[s] = Idle /\ ~InMu(Idle) /\ Idle.at = "idle" /\ IsFiniteSet(Idle.seen)
  BY <1>1, IdleIs, FS_EmptySet DEF InMu
<1>4. TwoAtMost'
  BY <1>2, FewerCounted
<1> QED
  BY <1>2, <1>3, <1>4 DEF StartsInv

LEMMA StartsInit == Init => StartsInv
<1> SUFFICES ASSUME Init PROVE StartsInv
  OBVIOUS
<1>1. Present = {} /\ Booting = {} /\ Running = {}
  BY DEF Init, Present, Booting, Running
<1>2. \A s \in Sandboxes : op[s] = Idle /\ ~InMu(Idle) /\ Idle.at = "idle" /\ IsFiniteSet(Idle.seen)
  BY IdleIs, FS_EmptySet DEF Init, InMu
<1>3. TwoAtMost
  <2>1. Cardinality((Running \cup Booting) \ late) = 0
    BY <1>1, FS_EmptySet
  <2> QED
    BY <2>1, GuestLimit DEF TwoAtMost
<1> QED
  BY <1>1, <1>2, <1>3, FS_EmptySet DEF StartsInv

LEMMA StartsNext == Sound /\ StartsInv /\ [Next]_vars => StartsInv'
<1> SUFFICES ASSUME Sound, StartsInv, [Next]_vars PROVE StartsInv'
  OBVIOUS
<1>1. CASE UNCHANGED vars
  BY <1>1
     DEF vars, StartsInv, TwoAtMost, Counted, Running, Booting, Present, At, Guest, Inst, InMu
<1>2. CASE Next
  BY <1>2, RequestStarts, TakeMuStarts, WorkStarts, HostStarts, CrashStarts DEF Next
<1> QED
  BY <1>1, <1>2

\* TwoAtMost: the listing a start takes under c.mu stays true until its own guest
\* runs, whatever the other sandboxes do meanwhile, so no two starts count the
\* same place twice.
THEOREM NeverThree == Spec => []TwoAtMost
<1>1. StartsInv => TwoAtMost
  BY DEF StartsInv
<1> QED
  BY <1>1, SoundInit, SoundStep, StartsInit, StartsNext, PTL DEF Spec

-----------------------------------------------------------------------------
(***************************************************************************)
(* What a guest's name says of it.  The rest is for sandboxes, instances   *)
(* and snapshots whose DistinctNames tell their guests apart.              *)
(***************************************************************************)

NamesOf(s, i) == OwnNames(s, i) \cup UNION {SnapNames(s, i, n) : n \in Snapshots}

\* A record names under each heading what was made for it.
Labelled(s, i, r) ==
    /\ r.vm \in OwnNames(s, i)
    /\ r.previous \in OwnNames(s, i) \cup {NoVM}
    /\ r.pending \in OwnNames(s, i) \cup {NoVM}
    /\ \A n \in Snapshots : r.snaps[n] \in SnapNames(s, i, n) \cup {NoVM}

\* A prepared guest is none of the unpinned ones, bad, and nor is one about to be started.
Unpinned == Present \ genuine
Pinned(s, i, r, bad) == r.prepared /\ r.vm = InstanceVM[s, i] => InstanceVM[s, i] \notin bad

Filed(s, f, bad) ==
    f # NoRecord => \A i \in Instances :
        f[i] # NoInstance => Labelled(s, i, f[i]) /\ Pinned(s, i, f[i], bad)

StartsPinned(s, o, f, bad) ==
    /\ o.at \in {"prepare", "stop", "run"} /\ o.kind \in Starts \cup {"create"}
    /\ o.kind = "create" \/ f[o.inst].vm = InstanceVM[s, o.inst]
    => InstanceVM[s, o.inst] \notin bad

\* The copy has a name that was made for it, and what is swept another's none.
CopyNames(s, o, f) ==
    /\ o.at \in Copying \cup {"map"} =>
          /\ o.kind = "create" => o.copy = InstanceVM[s, o.inst]
          /\ o.kind = "snapshot" => o.copy \in SnapNames(s, o.inst, o.snap)
    /\ o.at \in Copying \cup {"map", "look", "stop", "switch"} /\ o.kind = "restore"
          => o.copy \in RestoreNames(s, o.inst)
    /\ o.at = "pin" /\ o.kind \in Starts => o.copy = f[o.inst].vm

Sweeps(s, o) ==
    o.at \in {"sweep", "sweepFailed"} =>
        /\ o.kind = "drop" => o.todo \subseteq SnapNames(s, o.inst, o.snap)
        /\ o.kind = "delete" => o.todo \subseteq NamesOf(s, o.inst)
        /\ o.kind = "destroy" => o.todo \subseteq UNION {NamesOf(s, i) : i \in Instances}

\* A guest that a snapshot is to be made of is none of those that are on in time, hot.
CopiesCold(o, f, hot) ==
    o.kind = "snapshot" /\ o.at \in {"list", "map", "clone"} => f[o.inst].vm \notin hot

Goes(s, o, f, bad, hot) ==
    CopyNames(s, o, f) /\ Sweeps(s, o) /\ StartsPinned(s, o, f, bad) /\ CopiesCold(o, f, hot)

On == Running \cup Booting
SnapsOff == \A s \in Sandboxes, i \in Instances, n \in Snapshots : SnapNames(s, i, n) \cap On = {}

NamesInv ==
    /\ \A s \in Sandboxes : Filed(s, record[s], Unpinned)
    /\ \A s \in Sandboxes : Goes(s, op[s], record[s], Unpinned, Counted)
    /\ SnapsOff
    /\ FirstBootPinned

LEMMA FewerFiled ==
    ASSUME NEW s, NEW f, NEW bad, NEW less, less \subseteq bad, Filed(s, f, bad)
    PROVE  Filed(s, f, less)
  BY DEF Filed, Pinned

LEMMA FewerGoes ==
    ASSUME NEW s, NEW o, NEW f, NEW bad, NEW less, less \subseteq bad,
           NEW hot, NEW cold, cold \subseteq hot, Goes(s, o, f, bad, hot)
    PROVE  Goes(s, o, f, less, cold)
  BY DEF Goes, StartsPinned, CopiesCold

\* Nothing is on that was not, and nothing has lost its identifier.
Settles == Unpinned' \subseteq Unpinned /\ Counted' \subseteq Counted /\ On' \subseteq On

LEMMA SettlesIs ==
    ASSUME Sound
    PROVE  /\ UNCHANGED <<host, genuine, late>> => Settles
           /\ \A v : Deleted(v) \/ HalfDeleted(v) => Settles
<1>1. /\ host \in [VMs -> {"absent", "stopped", "booting", "running"}]
  BY Facts DEF RestOK
<1>2. UNCHANGED <<host, genuine, late>> => Settles
  BY DEF Settles, Unpinned, Counted, On, Running, Booting, Present
<1>3. ASSUME NEW v, Deleted(v) PROVE Settles
  BY <1>1, <1>3 DEF Deleted, Settles, Unpinned, Counted, On, Running, Booting, Present
<1>4. ASSUME NEW v, host[v] = "running", host' = [host EXCEPT ![v] = "stopped"],
             late' = late \ {v}, UNCHANGED genuine
      PROVE  Settles
  BY <1>1, <1>4 DEF Settles, Unpinned, Counted, On, Running, Booting, Present
<1> QED
  BY <1>2, <1>3, <1>4 DEF HalfDeleted

LEMMA StaysOff ==
    ASSUME NamesInv, Settles
    PROVE  SnapsOff' /\ FirstBootPinned'
<1>1. SnapsOff'
  BY DEF NamesInv, SnapsOff, Settles
<1>2. FirstBootPinned'
  BY DEF NamesInv, FirstBootPinned, Settles, Unpinned, On, Running, Booting, Present
<1> QED
  BY <1>1, <1>2

\* A step of s that makes o and f of its operation and record, and turns nothing on.
LEMMA NamesStep ==
    ASSUME Sound, NamesInv, Settles, NEW s \in Sandboxes, NEW o, NEW f,
           op' = [op EXCEPT ![s] = o], record' = [record EXCEPT ![s] = f],
           Filed(s, f, Unpinned'), Goes(s, o, f, Unpinned', Counted')
    PROVE  NamesInv'
<1>1. \A t \in Sandboxes : IF t = s THEN op'[t] = o /\ record'[t] = f
                                   ELSE op'[t] = op[t] /\ record'[t] = record[t]
  BY Facts
<1>2. ASSUME NEW t \in Sandboxes
      PROVE  Filed(t, record'[t], Unpinned') /\ Goes(t, op'[t], record'[t], Unpinned', Counted')
  <2>1. Filed(t, record[t], Unpinned') /\ Goes(t, op[t], record[t], Unpinned', Counted')
    BY FewerFiled, FewerGoes DEF NamesInv, Settles
  <2> QED
    BY <1>1, <2>1
<1> QED
  BY <1>2, StaysOff DEF NamesInv

\* The same of a step that leaves the record as it was.
LEMMA OpStep ==
    ASSUME Sound, NamesInv, Settles, NEW s \in Sandboxes, NEW o,
           op' = [op EXCEPT ![s] = o], record' = record,
           Goes(s, o, record[s], Unpinned', Counted')
    PROVE  NamesInv'
<1>1. record' = [record EXCEPT ![s] = record[s]]
  BY Facts
<1>2. Filed(s, record[s], Unpinned')
  BY FewerFiled DEF NamesInv, Settles
<1> QED
  BY <1>1, <1>2, NamesStep

\* At the places that name nothing.
Plain == {"idle", "mu", "poll", "purge", "clear", "forget"}

LEMMA PlainGoes ==
    ASSUME NEW s, NEW o, NEW f, NEW bad, NEW hot,
           o.at \in Plain \/ (o.at = "list" /\ o.kind # "snapshot")
    PROVE  Goes(s, o, f, bad, hot)
  BY DEF Plain, Goes, CopyNames, Sweeps, StartsPinned, CopiesCold, Copying

LEMMA LeaveNames ==
    ASSUME Sound, NamesInv, Settles, NEW s \in Sandboxes, Leave(s), NEW f,
           record' = [record EXCEPT ![s] = f], Filed(s, f, Unpinned)
    PROVE  NamesInv'
<1>1. PICK o \in Ops : op' = [op EXCEPT ![s] = o] /\ o.at \in {"idle", "mu"}
  BY Facts, LeaveIs
<1>2. Goes(s, o, f, Unpinned', Counted')
  BY <1>1, PlainGoes DEF Plain
<1>3. Filed(s, f, Unpinned')
  BY FewerFiled DEF Settles
<1> QED
  BY <1>1, <1>2, <1>3, NamesStep

LEMMA LeavesNames ==
    ASSUME Sound, NamesInv, Settles, NEW s \in Sandboxes, Leave(s), record' = record
    PROVE  NamesInv'
<1>1. record' = [record EXCEPT ![s] = record[s]] /\ Filed(s, record[s], Unpinned)
  BY Facts DEF NamesInv
<1> QED
  BY <1>1, LeaveNames

LEMMA GotoNames ==
    ASSUME Sound, NamesInv, Settles, NEW s \in Sandboxes, NEW place \in Places, Goto(s, place),
           record' = record,
           \A o \in Ops : /\ o.at = place /\ o.kind = op[s].kind /\ o.inst = op[s].inst
                          /\ o.snap = op[s].snap /\ o.copy = op[s].copy /\ o.todo = op[s].todo
                          => Goes(s, o, record[s], Unpinned', Counted')
    PROVE  NamesInv'
<1> DEFINE o == [op[s] EXCEPT !.at = place]
<1>1. /\ o \in Ops /\ o.at = place /\ o.kind = op[s].kind /\ o.inst = op[s].inst
      /\ o.snap = op[s].snap /\ o.copy = op[s].copy /\ o.todo = op[s].todo
  BY Facts DEF Ops
<1>2. op' = [op EXCEPT ![s] = o]
  BY Facts, GotoIs
<1> HIDE DEF o
<1> QED
  BY <1>1, <1>2, OpStep

\* The record of the instance becomes q, or the write fails.
LEMMA SetNames ==
    ASSUME Sound, NamesInv, NEW s \in Sandboxes, op[s].at # "idle", op[s].kind # "destroy",
           NEW q \in InstanceRecords \cup {NoInstance}, SetInstance(s, q),
           q # NoInstance => Labelled(s, op[s].inst, q) /\ Pinned(s, op[s].inst, q, Unpinned)
    PROVE  \E f : /\ record' = [record EXCEPT ![s] = f] /\ Filed(s, f, Unpinned)
                  /\ f[op[s].inst] = q
<1> DEFINE f == [record[s] EXCEPT ![op[s].inst] = q]
<1>1. record[s] \in Files /\ op[s].inst \in Instances /\ record[s] # NoRecord
  BY GuestIs, Facts DEF Stands
<1>2. record' = [record EXCEPT ![s] = f]
  BY Facts DEF SetInstance
<1>3. f[op[s].inst] = q /\ \A j \in Instances \ {op[s].inst} : f[j] = record[s][j]
  BY <1>1 DEF Files
<1> HIDE DEF f
<1>4. Filed(s, f, Unpinned)
  BY <1>1, <1>3 DEF NamesInv, Filed
<1> QED
  BY <1>2, <1>3, <1>4

LEMMA SetLeaveNames ==
    ASSUME Sound, NamesInv, NEW s \in Sandboxes, op[s].at # "idle", op[s].kind # "destroy",
           NEW q \in InstanceRecords \cup {NoInstance}, SetInstance(s, q) \/ UNCHANGED record, Leave(s),
           q # NoInstance => Labelled(s, op[s].inst, q) /\ Pinned(s, op[s].inst, q, Unpinned),
           UNCHANGED <<host, genuine, late>>
    PROVE  NamesInv'
  BY SettlesIs, SetNames, LeaveNames, LeavesNames

LEMMA UpdateNames ==
    ASSUME Sound, NamesInv, NEW s \in Sandboxes, op[s].at # "idle", op[s].kind # "destroy",
           NEW q \in InstanceRecords, NEW place \in Places, Update(s, q, place),
           Labelled(s, op[s].inst, q), Pinned(s, op[s].inst, q, Unpinned),
           UNCHANGED <<host, genuine, late>>,
           \A o \in Ops : \A f :
              /\ o.at = place /\ o.kind = op[s].kind /\ o.inst = op[s].inst
              /\ o.snap = op[s].snap /\ o.copy = op[s].copy /\ f[o.inst] = q
              => Goes(s, o, f, Unpinned, Counted)
    PROVE  NamesInv'
<1>1. CASE Fails(s) /\ (SetInstance(s, q) \/ UNCHANGED record)
  BY <1>1, BoundsKept, SetLeaveNames
<1>2. CASE SetInstance(s, q) /\ Goto(s, place)
  <2>1. PICK f : /\ record' = [record EXCEPT ![s] = f] /\ Filed(s, f, Unpinned)
                 /\ f[op[s].inst] = q
    BY <1>2, SetNames
  <2> DEFINE o == [op[s] EXCEPT !.at = place]
  <2>2. /\ o \in Ops /\ o.at = place /\ o.kind = op[s].kind /\ o.inst = op[s].inst
        /\ o.snap = op[s].snap /\ o.copy = op[s].copy
    BY Facts DEF Ops
  <2>3. op' = [op EXCEPT ![s] = o]
    BY <1>2, Facts, GotoIs
  <2> HIDE DEF o
  <2>4. Goes(s, o, f, Unpinned, Counted)
    BY <2>1, <2>2
  <2>5. Settles
    BY SettlesIs
  <2>6. Filed(s, f, Unpinned') /\ Goes(s, o, f, Unpinned', Counted')
    BY <2>1, <2>4, <2>5, FewerFiled, FewerGoes DEF Settles
  <2> QED
    BY <2>1, <2>3, <2>5, <2>6, NamesStep
<1> QED
  BY <1>1, <1>2 DEF Update

\* What the invariant says of the operation of s, and of the record of its instance.
LEMMA Here ==
    ASSUME Sound, NamesInv, NEW s \in Sandboxes
    PROVE  /\ Filed(s, record[s], Unpinned)
           /\ CopyNames(s, op[s], record[s]) /\ Sweeps(s, op[s])
           /\ StartsPinned(s, op[s], record[s], Unpinned)
           /\ CopiesCold(op[s], record[s], Counted)
           /\ Stands(op[s], record[s]) /\ op[s] \in Ops
  BY Facts DEF NamesInv, Goes

LEMMA InstHere ==
    ASSUME Sound, NamesInv, NEW s \in Sandboxes, op[s].at # "idle", op[s].kind # "destroy",
           Inst(s) # NoInstance
    PROVE  /\ record[s] # NoRecord /\ op[s].inst \in Instances
           /\ Inst(s) = record[s][op[s].inst] /\ Inst(s) \in InstanceRecords
           /\ Labelled(s, op[s].inst, Inst(s)) /\ Pinned(s, op[s].inst, Inst(s), Unpinned)
<1>1. /\ record[s] # NoRecord /\ op[s].inst \in Instances
      /\ Inst(s) = record[s][op[s].inst] /\ Inst(s) \in InstanceRecords
  BY GuestIs, Facts DEF Stands
<1>2. Filed(s, record[s], Unpinned)
  BY Here
<1> QED
  BY <1>1, <1>2 DEF Filed

\* The guest an operation runs or stops is one of its instance's own.
LEMMA GuestOwn ==
    ASSUME Sound, NamesInv, NEW s \in Sandboxes, op[s].at # "idle", op[s].kind # "destroy",
           op[s].kind = "create" \/ Inst(s) # NoInstance
    PROVE  op[s].inst \in Instances /\ Guest(s) \in OwnNames(s, op[s].inst)
  BY InstHere, GuestIs DEF Guest, OwnNames, Labelled

\* A guest that boots in time is polled for by the operation of its own sandbox.
LEMMA BootingOwn ==
    ASSUME Sound, StartsInv, NamesInv, DistinctNames, NEW s \in Sandboxes, NEW i \in Instances,
           NEW v \in OwnNames(s, i), v \in Booting \ late
    PROVE  op[s].at = "poll"
<1>1. PICK t \in Sandboxes : At(t, "poll") /\ Guest(t) = v
  BY DEF StartsInv
<1>2. op[t].inst \in Instances /\ v \in OwnNames(t, op[t].inst)
  <2>1. op[t].at = "poll" /\ Stands(op[t], record[t])
    BY <1>1, Facts DEF At
  <2>2. op[t].kind \in Starts \cup {"create"} /\ Fits(op[t], record[t])
    BY <2>1 DEF Stands, Placed
  <2>3. op[t].kind = "create" \/ Inst(t) # NoInstance
    BY <2>2 DEF Fits, Inst, Starts
  <2> QED
    BY <1>1, <2>1, <2>2, <2>3, GuestOwn DEF Starts
<1> QED
  BY <1>1, <1>2 DEF DistinctNames, At

-----------------------------------------------------------------------------
(* What each action keeps of it.                                             *)

LEMMA BeginNames ==
    ASSUME Sound, NamesInv, NEW s \in Sandboxes, NEW place, NEW kind, NEW i, NEW n, NEW start,
           Begin(s, place, kind, i, n, start),
           place \in Plain \cup {"list"} \/ (place = "stop" /\ kind \in {"stop", "snapshot"}),
           kind = "snapshot" /\ place = "list" => record[s][i].vm \notin Counted
    PROVE  NamesInv'
<1> DEFINE o == [Idle EXCEPT !.at = place, !.kind = kind, !.inst = i, !.snap = n, !.start = start]
<1>1. op' = [op EXCEPT ![s] = o] /\ UNCHANGED <<host, genuine, record, late>>
  BY DEF Begin
<1>2. o.at = place /\ o.kind = kind /\ o.inst = i
  BY DEF Idle
<1> HIDE DEF o
<1>3. Settles /\ Unpinned' = Unpinned /\ Counted' = Counted
  BY <1>1, SettlesIs DEF Unpinned, Counted, Running, Booting, Present
<1>4. Goes(s, o, record[s], Unpinned, Counted)
  <2>1. CASE place \in Plain \/ (place = "list" /\ kind # "snapshot")
    BY <1>2, <2>1, PlainGoes
  <2>2. CASE place = "stop" /\ kind \in {"stop", "snapshot"}
    BY <1>2, <2>2 DEF Goes, CopyNames, Sweeps, StartsPinned, CopiesCold, Copying, Starts
  <2>3. CASE place = "list" /\ kind = "snapshot"
    BY <1>2, <2>3 DEF Goes, CopyNames, Sweeps, StartsPinned, CopiesCold, Copying
  <2> QED
    BY <2>1, <2>2, <2>3
<1> QED
  BY <1>1, <1>3, <1>4, OpStep

LEMMA RequestNames ==
    ASSUME Sound, StartsInv, NamesInv, DistinctNames, NEW s \in Sandboxes, Request(s)
    PROVE  NamesInv'
<1>1. CASE CreateSandbox(s)
  <2> DEFINE f == [i \in Instances |-> NoInstance]
  <2>1. /\ record' = [record EXCEPT ![s] = f] /\ UNCHANGED <<host, genuine, op, late>>
        /\ op[s] = Idle
    BY <1>1 DEF CreateSandbox
  <2>2. Filed(s, f, Unpinned')
    BY DEF Filed
  <2> HIDE DEF f
  <2>3. op' = [op EXCEPT ![s] = Idle]
    BY <2>1, Facts
  <2>4. Goes(s, Idle, f, Unpinned', Counted')
    BY IdleIs, PlainGoes DEF Plain
  <2> QED
    BY <2>1, <2>2, <2>3, <2>4, SettlesIs, NamesStep
<1>2. CASE DeleteSandbox(s)
  BY <1>2, BeginNames DEF DeleteSandbox
<1>3. ASSUME NEW i \in Instances,
             \/ CreateInstance(s, i) \/ StartInstance(s, i) \/ RestartInstance(s, i)
             \/ StopInstance(s, i) \/ DeleteInstance(s, i)
      PROVE  NamesInv'
  <2>1. PICK place, kind, start : /\ Begin(s, place, kind, i, NoVM, start)
                                  /\ place \in {"mu", "list"} \/ (place = "stop" /\ kind = "stop")
                                  /\ kind # "snapshot"
    BY <1>3 DEF CreateInstance, StartInstance, RestartInstance, StopInstance, DeleteInstance
  <2> QED
    BY <2>1, BeginNames DEF Plain
<1>4. ASSUME NEW i \in Instances, NEW n \in Snapshots, CreateSnapshot(s, i, n)
      PROVE  NamesInv'
  <2>1. op[s] = Idle /\ Has(s, i) /\ record[s] # NoRecord
    BY <1>4 DEF CreateSnapshot, Begin
  <2>2. record[s][i].vm \in OwnNames(s, i)
    BY <2>1, Here DEF Filed, Labelled, Has
  <2>3. record[s][i].vm \notin Booting \ late
    BY <2>1, <2>2, BootingOwn, IdleIs
  <2>4. record[s][i].vm \notin Running => record[s][i].vm \notin Counted
    BY <2>3 DEF Counted
  <2> QED
    BY <1>4, <2>4, BeginNames DEF CreateSnapshot
<1>5. ASSUME NEW i \in Instances, NEW n \in Snapshots, RestoreSnapshot(s, i, n) \/ DeleteSnapshot(s, i, n)
      PROVE  NamesInv'
  BY <1>5, BeginNames DEF RestoreSnapshot, DeleteSnapshot
<1> QED
  BY <1>1, <1>2, <1>3, <1>4, <1>5 DEF Request

LEMMA TakeMuNames ==
    ASSUME Sound, NamesInv, NEW s \in Sandboxes, TakeMu(s) PROVE NamesInv'
<1> DEFINE o == [op[s] EXCEPT !.at = "list"]
<1>1. /\ op[s].at = "mu" /\ UNCHANGED <<host, genuine, record, late>>
      /\ op' = [op EXCEPT ![s] = o]
  BY Facts DEF TakeMu, At
<1>2. o.at = "list" /\ o.kind \in Starts \cup {"create"}
  BY <1>1, Facts DEF Ops, Stands, Placed
<1> HIDE DEF o
<1>3. Goes(s, o, record[s], Unpinned', Counted')
  BY <1>2, PlainGoes DEF Starts
<1> QED
  BY <1>1, <1>3, SettlesIs, OpStep

LEMMA ListToStartNames ==
    ASSUME Sound, NamesInv, NEW s \in Sandboxes, ListToStart(s) PROVE NamesInv'
<1>1. /\ op[s].at = "list" /\ op[s].kind \in Starts \cup {"create"}
      /\ UNCHANGED <<host, genuine, record, late>>
  BY DEF ListToStart, At
<1>2. Settles /\ Unpinned' = Unpinned /\ Counted' = Counted
  BY <1>1, SettlesIs DEF Unpinned, Counted, Running, Booting, Present
<1>3. CASE Leave(s)
  BY <1>1, <1>2, <1>3, LeavesNames
<1>4. CASE op' = [op EXCEPT ![s].at = AfterListing(s), ![s].seen = Running, ![s].copy = Guest(s)]
  <2> DEFINE place == AfterListing(s)
             o == [op[s] EXCEPT !.at = place, !.seen = Running, !.copy = Guest(s)]
  <2>1. op' = [op EXCEPT ![s] = o]
    BY <1>4, Facts
  <2>2. o.at = place /\ o.kind = op[s].kind /\ o.inst = op[s].inst /\ o.copy = Guest(s)
    BY Facts DEF Ops
  <2> HIDE DEF o
  <2>3. op[s].kind \in Starts => Inst(s) # NoInstance /\ Inst(s) = record[s][op[s].inst]
    BY <1>1, Facts DEF Stands, Fits, Inst, Starts
  <2>4. CASE op[s].kind = "create"
    <3>1. place = "map" /\ Guest(s) = InstanceVM[s, op[s].inst]
      BY <2>4 DEF AfterListing, Guest, Starts
    <3> QED
      BY <2>1, <2>2, <2>4, <3>1, <1>1, <1>2, OpStep
         DEF Goes, CopyNames, Sweeps, StartsPinned, CopiesCold, Copying, Starts
  <2>5. CASE op[s].kind \in Starts /\ ~Inst(s).prepared
    <3>1. place = "pin" /\ Guest(s) = record[s][op[s].inst].vm
      BY <2>3, <2>5 DEF AfterListing, Guest, Starts
    <3> QED
      BY <2>1, <2>2, <2>5, <3>1, <1>1, <1>2, OpStep
         DEF Goes, CopyNames, Sweeps, StartsPinned, CopiesCold, Copying, Starts
  <2>6. CASE op[s].kind \in Starts /\ Inst(s).prepared
    <3>1. place \in {"stop", "run"}
      BY <2>6 DEF AfterListing, Starts
    <3>2. Pinned(s, op[s].inst, Inst(s), Unpinned)
      BY <1>1, <2>3, <2>6, InstHere DEF Starts
    <3>3. Goes(s, o, record[s], Unpinned, Counted)
      BY <2>2, <2>3, <2>6, <3>1, <3>2
         DEF Goes, CopyNames, Sweeps, StartsPinned, CopiesCold, Copying, Starts, Pinned
    <3> QED
      BY <2>1, <3>3, <1>1, <1>2, OpStep
  <2> QED
    BY <1>1, <2>4, <2>5, <2>6
<1> QED
  BY <1>3, <1>4 DEF ListToStart

LEMMA ListToCopyNames ==
    ASSUME Sound, NamesInv, NEW s \in Sandboxes, ListToCopy(s) PROVE NamesInv'
<1> DEFINE names == IF op[s].kind = "snapshot" THEN SnapshotVM ELSE RestoreVM
           name == names[s, op[s].inst, op[s].snap]
<1>1. /\ op[s].at = "list" /\ op[s].kind \in Copies /\ UNCHANGED <<host, genuine, record, late>>
  BY DEF ListToCopy, At
<1>2. Settles /\ Unpinned' = Unpinned /\ Counted' = Counted
  BY <1>1, SettlesIs DEF Unpinned, Counted, Running, Booting, Present
<1>3. PICK v \in FreeNames(name) : op' = [op EXCEPT ![s].at = "map", ![s].copy = v]
  BY DEF ListToCopy
<1>4. \A base : FreeNames(base) \subseteq {base} \cup SpareVMs[base]
  BY DEF FreeNames
<1>5. op[s].snap \in Snapshots
  BY <1>1, Facts DEF Stands, Fits, Copies
<1>6. /\ op[s].kind = "snapshot" => v \in SnapNames(s, op[s].inst, op[s].snap)
      /\ op[s].kind = "restore" => v \in RestoreNames(s, op[s].inst)
  <2>1. v \in {name} \cup SpareVMs[name]
    BY <1>3, <1>4
  <2>2. op[s].kind = "snapshot" => name = SnapshotVM[s, op[s].inst, op[s].snap]
    OBVIOUS
  <2>3. op[s].kind = "restore" => name = RestoreVM[s, op[s].inst, op[s].snap]
    OBVIOUS
  <2> HIDE DEF name
  <2> QED
    BY <1>5, <2>1, <2>2, <2>3 DEF SnapNames, RestoreNames
<1> HIDE DEF name
<1> DEFINE o == [op[s] EXCEPT !.at = "map", !.copy = v]
<1>7. op' = [op EXCEPT ![s] = o]
  BY <1>3, Facts
<1>8. o.at = "map" /\ o.kind = op[s].kind /\ o.inst = op[s].inst /\ o.snap = op[s].snap /\ o.copy = v
  BY Facts DEF Ops
<1> HIDE DEF o
<1>9. Goes(s, o, record[s], Unpinned, Counted)
  BY <1>1, <1>6, <1>8, Here
     DEF Goes, CopyNames, Sweeps, StartsPinned, CopiesCold, Copying, Copies
<1> QED
  BY <1>1, <1>2, <1>7, <1>9, OpStep

LEMMA ListToDeleteNames ==
    ASSUME Sound, NamesInv, NEW s \in Sandboxes, ListToDelete(s) PROVE NamesInv'
<1>1. /\ op[s].at = "list" /\ op[s].kind \in Deletes /\ UNCHANGED <<host, genuine, record, late>>
  BY DEF ListToDelete, At
<1>2. Settles
  BY <1>1, SettlesIs
<1> DEFINE o == [op[s] EXCEPT !.at = "sweep", !.todo = Doomed(s) \cap Present]
<1>3. op' = [op EXCEPT ![s] = o]
  BY Facts DEF ListToDelete
<1>4. /\ o.at = "sweep" /\ o.kind = op[s].kind /\ o.inst = op[s].inst /\ o.snap = op[s].snap
      /\ o.todo = Doomed(s) \cap Present
  BY Facts DEF Ops
<1> HIDE DEF o
<1>5. NoVM \notin Present
  BY Absences DEF Present
<1>6. \A i, r : Labelled(s, i, r) => GuestsOf(r) \subseteq NamesOf(s, i)
  BY GuestsIs DEF Labelled, NamesOf
<1>7. CASE op[s].kind = "drop"
  <2>1. /\ Inst(s) # NoInstance /\ op[s].snap \in Snapshots /\ Doomed(s) = {Inst(s).snaps[op[s].snap]}
    BY <1>1, <1>7, Facts DEF Stands, Fits, Inst, Doomed
  <2>2. o.todo \subseteq SnapNames(s, op[s].inst, op[s].snap)
    BY <1>1, <1>4, <1>5, <1>7, <2>1, InstHere DEF Labelled
  <2> QED
    BY <1>1, <1>2, <1>3, <1>4, <1>7, <2>2, OpStep
       DEF Goes, CopyNames, Sweeps, StartsPinned, CopiesCold, Copying
<1>8. CASE op[s].kind = "delete"
  <2>1. Inst(s) # NoInstance /\ Doomed(s) = GuestsOf(Inst(s))
    BY <1>1, <1>8, Facts DEF Stands, Fits, Inst, Doomed
  <2>2. o.todo \subseteq NamesOf(s, op[s].inst)
    BY <1>1, <1>4, <1>6, <1>8, <2>1, InstHere
  <2> QED
    BY <1>1, <1>2, <1>3, <1>4, <1>8, <2>2, OpStep
       DEF Goes, CopyNames, Sweeps, StartsPinned, CopiesCold, Copying
<1>9. CASE op[s].kind = "destroy"
  <2>1. Doomed(s) = Named(record[s]) /\ record[s] # NoRecord
    BY <1>1, <1>9, MappedNamed, Facts DEF Doomed, Stands
  <2>2. \A v \in Named(record[s]) : \E i \in Instances : v \in NamesOf(s, i)
    BY <1>6, <2>1, NamedIs, Here DEF Filed
  <2>3. o.todo \subseteq UNION {NamesOf(s, i) : i \in Instances}
    BY <1>4, <2>1, <2>2
  <2> QED
    BY <1>1, <1>2, <1>3, <1>4, <1>9, <2>3, OpStep
       DEF Goes, CopyNames, Sweeps, StartsPinned, CopiesCold, Copying
<1> QED
  BY <1>1, <1>7, <1>8, <1>9 DEF Deletes

LEMMA MapNames ==
    ASSUME Sound, NamesInv, NEW s \in Sandboxes, Map(s) PROVE NamesInv'
<1>1. /\ op[s].at = "map" /\ op[s].kind \in Copies \cup {"create"} /\ op[s].copy \in VMs
      /\ Update(s, WithCopy(s), "clone") /\ UNCHANGED <<host, genuine, late>>
  BY Facts DEF Map, At, Stands, Placed, Fits
<1>2. /\ op[s].kind \in Copies => Inst(s) # NoInstance /\ op[s].snap \in Snapshots
      /\ op[s].kind # "destroy" /\ op[s].inst \in Instances
  BY <1>1, Facts DEF Stands, Fits, Inst, Copies
<1> DEFINE i == op[s].inst
           q == WithCopy(s)
<1>3. /\ q \in InstanceRecords /\ q # NoInstance
      /\ Labelled(s, i, q) /\ Pinned(s, i, q, Unpinned)
      /\ op[s].kind = "snapshot" => q.vm = Inst(s).vm
  <2>1. CASE op[s].kind = "create"
    <3>1. q = Fresh(op[s].copy) /\ op[s].copy = InstanceVM[s, i]
      BY <1>1, <2>1, Here DEF WithCopy, CopyNames, Copying
    <3> HIDE DEF q
    <3>2. /\ q \in InstanceRecords /\ q.vm = op[s].copy /\ q.prepared = FALSE
          /\ q.previous = NoVM /\ q.pending = NoVM /\ \A n \in Snapshots : q.snaps[n] = NoVM
      BY <1>1, <3>1 DEF Fresh, InstanceRecords, NoSnapshots
    <3> QED
      BY <2>1, <3>1, <3>2, NothingRecorded DEF Labelled, Pinned, OwnNames
  <2>2. CASE op[s].kind = "snapshot"
    <3>1. q = [Inst(s) EXCEPT !.snaps[op[s].snap] = op[s].copy] /\ Inst(s) \in InstanceRecords
          /\ op[s].copy \in SnapNames(s, i, op[s].snap)
          /\ Labelled(s, i, Inst(s)) /\ Pinned(s, i, Inst(s), Unpinned)
      BY <1>1, <1>2, <2>2, Here, InstHere DEF WithCopy, CopyNames, Copying, Copies
    <3>2. /\ q \in InstanceRecords /\ q.vm = Inst(s).vm /\ q.prepared = Inst(s).prepared
          /\ q.previous = Inst(s).previous /\ q.pending = Inst(s).pending
          /\ \A n \in Snapshots : q.snaps[n] = IF n = op[s].snap THEN op[s].copy ELSE Inst(s).snaps[n]
      BY <1>1, <3>1 DEF InstanceRecords
    <3> HIDE DEF q
    <3> QED
      BY <2>2, <3>1, <3>2, NothingRecorded DEF Labelled, Pinned
  <2>3. CASE op[s].kind = "restore"
    <3>1. /\ q = [Inst(s) EXCEPT !.previous = Inst(s).vm, !.pending = op[s].copy]
          /\ Inst(s) \in InstanceRecords /\ op[s].copy \in RestoreNames(s, i)
          /\ Labelled(s, i, Inst(s)) /\ Pinned(s, i, Inst(s), Unpinned)
      BY <1>1, <1>2, <2>3, Here, InstHere DEF WithCopy, CopyNames, Copying, Copies
    <3>2. /\ q \in InstanceRecords /\ q.vm = Inst(s).vm /\ q.prepared = Inst(s).prepared
          /\ q.previous = Inst(s).vm /\ q.pending = op[s].copy /\ q.snaps = Inst(s).snaps
      BY <1>1, <3>1 DEF InstanceRecords
    <3> HIDE DEF q
    <3> QED
      BY <2>3, <3>1, <3>2, NothingRecorded DEF Labelled, Pinned, OwnNames
  <2> QED
    BY <1>1, <2>1, <2>2, <2>3 DEF Copies
<1> HIDE DEF q
<1>4. ASSUME NEW o \in Ops, NEW f, o.at = "clone", o.kind = op[s].kind, o.inst = i,
             o.snap = op[s].snap, o.copy = op[s].copy, f[o.inst] = q
      PROVE  Goes(s, o, f, Unpinned, Counted)
  <2>1. op[s].kind = "snapshot" => record[s][i].vm \notin Counted
    BY <1>1, Here DEF CopiesCold
  <2>2. op[s].kind = "snapshot" => f[o.inst].vm \notin Counted
    BY <1>3, <1>4, <2>1 DEF Inst
  <2> QED
    BY <1>1, <1>4, <2>2, Here
       DEF Goes, CopyNames, Sweeps, StartsPinned, CopiesCold, Copying, Copies
<1>5. op[s].at # "idle" /\ "clone" \in Places /\ Update(s, q, "clone")
  BY <1>1 DEF Places, q
<1> QED
  BY <1>1, <1>2, <1>3, <1>4, <1>5, UpdateNames

LEMMA CloneNames ==
    ASSUME Sound, NamesInv, DistinctNames, NEW s \in Sandboxes, Clone(s) PROVE NamesInv'
<1> DEFINE v == op[s].copy
           i == op[s].inst
<1>1. /\ op[s].at = "clone" /\ op[s].kind \in Copies \cup {"create"} /\ v \in VMs
      /\ i \in Instances /\ (op[s].kind \in Copies => op[s].snap \in Snapshots)
      /\ UNCHANGED <<record, late>> /\ record[s] # NoRecord
      /\ op[s].kind = "create" => record[s][i] = Fresh(v)
  BY Facts DEF Clone, At, Stands, Placed, Fits, Copying, Copies
<1>2. /\ op[s].kind = "create" => v = InstanceVM[s, i]
      /\ op[s].kind = "snapshot" => v \in SnapNames(s, i, op[s].snap)
      /\ op[s].kind = "restore" => v \in RestoreNames(s, i)
  BY <1>1, Here DEF CopyNames, Copying
<1>3. PICK place \in {"pin", "undo"} : Goto(s, place)
  BY DEF Clone
<1>4. PICK o \in Ops : /\ op' = [op EXCEPT ![s] = o] /\ o.at = place
                       /\ o.kind = op[s].kind /\ o.inst = i /\ o.snap = op[s].snap /\ o.copy = v
  <2> DEFINE p == [op[s] EXCEPT !.at = place]
  <2>1. /\ p \in Ops /\ p.at = place /\ p.kind = op[s].kind /\ p.inst = i
        /\ p.snap = op[s].snap /\ p.copy = v
    BY <1>3, Facts DEF Ops, Places
  <2>2. op' = [op EXCEPT ![s] = p]
    BY <1>3, Facts, GotoIs DEF Places
  <2> HIDE DEF p
  <2> QED
    BY <2>1, <2>2
<1>5. \A bad, hot : Goes(s, o, record[s], bad, hot)
  BY <1>1, <1>2, <1>3, <1>4
     DEF Goes, CopyNames, Sweeps, StartsPinned, CopiesCold, Copying, Copies, Starts
<1>6. CASE UNCHANGED <<host, genuine>>
  BY <1>1, <1>4, <1>5, <1>6, SettlesIs, OpStep
<1>7. CASE v \notin Present /\ host' = [host EXCEPT ![v] = "stopped"] /\ genuine' = genuine \ {v}
  <2>1. Unpinned' = Unpinned \cup {v} /\ Counted' = Counted /\ On' = On /\ v \notin On
    BY <1>1, <1>7, Facts DEF RestOK, Unpinned, Counted, On, Running, Booting, Present
  <2>2. ASSUME NEW t \in Sandboxes, NEW j \in Instances, v = InstanceVM[t, j]
        PROVE  t = s /\ j = i /\ record[s][i] = Fresh(v)
    <3>1. v \in OwnNames(t, j)
      BY <2>2 DEF OwnNames
    <3>2. op[s].kind # "snapshot"
      BY <1>1, <1>2, <3>1 DEF DistinctNames, Copies
    <3>3. op[s].kind = "restore" => v \in OwnNames(s, i) /\ v # InstanceVM[s, i]
      BY <1>1, <1>2 DEF DistinctNames, OwnNames
    <3>4. op[s].kind = "create" => v \in OwnNames(s, i)
      BY <1>2 DEF OwnNames
    <3>5. t = s /\ j = i
      BY <1>1, <3>1, <3>2, <3>3, <3>4 DEF DistinctNames, Copies
    <3> QED
      BY <1>1, <2>2, <3>2, <3>3, <3>5 DEF Copies
  <2>3. ~Fresh(v).prepared
    BY DEF Fresh
  <2>4. ASSUME NEW t \in Sandboxes PROVE Filed(t, record'[t], Unpinned')
    <3>1. Filed(t, record[t], Unpinned) /\ record' = record
      BY <1>1, Here
    <3> QED
      BY <2>1, <2>2, <2>3, <3>1 DEF Filed, Pinned
  <2>5. ASSUME NEW t \in Sandboxes PROVE Goes(t, op'[t], record'[t], Unpinned', Counted')
    <3>1. CASE t = s
      BY <1>1, <1>4, <1>5, <3>1, Facts
    <3>2. CASE t # s
      <4>1. op'[t] = op[t] /\ record'[t] = record[t] /\ Goes(t, op[t], record[t], Unpinned, Counted)
        BY <1>1, <1>4, <3>2, Facts DEF NamesInv
      <4>2. op[t].at # "idle" /\ op[t].kind # "destroy" => InstanceVM[t, op[t].inst] # v
        <5>1. Stands(op[t], record[t])
          BY Facts
        <5> QED
          BY <2>2, <3>2, <5>1 DEF Stands, Fits
      <4>3. StartsPinned(t, op[t], record[t], Unpinned')
        BY <2>1, <4>1, <4>2 DEF Goes, StartsPinned, Starts
      <4> QED
        BY <2>1, <4>1, <4>3 DEF Goes
    <3> QED
      BY <3>1, <3>2
  <2>6. SnapsOff'
    BY <2>1 DEF NamesInv, SnapsOff
  <2>7. FirstBootPinned'
    BY <1>7, <2>1 DEF NamesInv, FirstBootPinned, On
  <2> QED
    BY <2>4, <2>5, <2>6, <2>7 DEF NamesInv
<1> QED
  BY <1>6, <1>7 DEF Clone, CanClone

LEMMA PinNames ==
    ASSUME Sound, NamesInv, NEW s \in Sandboxes, Pin(s) PROVE NamesInv'
<1>1. /\ op[s].at = "pin" /\ op[s].kind \in Copies \cup Starts \cup {"create"} /\ op[s].copy \in VMs
      /\ UNCHANGED <<host, record, late>> /\ op[s].inst \in Instances
  BY Facts DEF Pin, At, Stands, Placed, Fits, Copying, Copies, Starts
<1>2. genuine \subseteq genuine'
  BY DEF Pin
<1>3. Settles
  BY <1>1, <1>2 DEF Settles, Unpinned, Counted, On, Running, Booting, Present
<1>4. CASE Leave(s)
  BY <1>1, <1>3, <1>4, LeavesNames
<1>5. CASE /\ op[s].kind # "snapshot" /\ Goto(s, AfterPin(s))
           /\ genuine' = IF PinnedFrom(s) THEN genuine \cup {op[s].copy} ELSE genuine
  <2>1. CASE op[s].kind \in Starts \cup {"create"}
    <3>1. AfterPin(s) = "prepare" /\ Source(s) = NoVM /\ PinnedFrom(s)
      BY <2>1 DEF AfterPin, Source, PinnedFrom, Starts
    <3>2. op[s].copy \notin Unpinned'
      BY <1>5, <3>1 DEF Unpinned
    <3>3. /\ op[s].kind = "create" => op[s].copy = InstanceVM[s, op[s].inst]
          /\ op[s].kind \in Starts => op[s].copy = record[s][op[s].inst].vm
      BY <1>1, Here DEF CopyNames, Copying
    <3>4. ASSUME NEW o \in Ops, o.at = "prepare", o.kind = op[s].kind, o.inst = op[s].inst
          PROVE  Goes(s, o, record[s], Unpinned', Counted')
      BY <2>1, <3>2, <3>3, <3>4
         DEF Goes, CopyNames, Sweeps, StartsPinned, CopiesCold, Copying, Starts
    <3>5. "prepare" \in Places
      BY DEF Places
    <3> QED
      BY <1>1, <1>3, <1>5, <3>1, <3>4, <3>5, GotoNames
  <2>2. CASE op[s].kind = "restore"
    <3>1. AfterPin(s) = "look" /\ "look" \in Places
      BY <2>2 DEF AfterPin, Starts, Places
    <3>2. ASSUME NEW o \in Ops, o.at = "look", o.kind = op[s].kind, o.inst = op[s].inst,
                 o.copy = op[s].copy
          PROVE  Goes(s, o, record[s], Unpinned', Counted')
      BY <1>1, <2>2, <3>2, Here
         DEF Goes, CopyNames, Sweeps, StartsPinned, CopiesCold, Copying, Starts
    <3> QED
      BY <1>1, <1>3, <1>5, <3>1, <3>2, GotoNames
  <2> QED
    BY <1>1, <1>5, <2>1, <2>2 DEF Copies
<1>6. CASE op[s].kind \notin Starts /\ Goto(s, "undo")
  <2>1. ASSUME NEW o \in Ops, o.at = "undo", o.kind = op[s].kind, o.inst = op[s].inst,
               o.snap = op[s].snap, o.copy = op[s].copy
        PROVE  Goes(s, o, record[s], Unpinned', Counted')
    BY <1>1, <1>6, <2>1, Here
       DEF Goes, CopyNames, Sweeps, StartsPinned, CopiesCold, Copying, Starts
  <2>2. "undo" \in Places
    BY DEF Places
  <2> QED
    BY <1>1, <1>3, <1>6, <2>1, <2>2, GotoNames
<1> QED
  BY <1>4, <1>5, <1>6 DEF Pin

LEMMA UndoNames ==
    ASSUME Sound, NamesInv, NEW s \in Sandboxes, Undo(s) PROVE NamesInv'
<1>1. op[s].at = "undo" /\ op[s].kind \in Copies \cup {"create"} /\ UNCHANGED record /\ Settles
  BY Facts, SettlesIs DEF Undo, At, Stands, Placed
<1>2. CASE Fails(s)
  BY <1>1, <1>2, BoundsKept, LeavesNames
<1>3. CASE Goto(s, "unmap")
  <2>1. ASSUME NEW o \in Ops, o.at = "unmap", o.kind = op[s].kind, o.inst = op[s].inst,
               o.snap = op[s].snap, o.copy = op[s].copy
        PROVE  Goes(s, o, record[s], Unpinned', Counted')
    BY <1>1, <2>1, Here DEF Goes, CopyNames, Sweeps, StartsPinned, CopiesCold, Copying
  <2>2. "unmap" \in Places
    BY DEF Places
  <2> QED
    BY <1>1, <1>3, <2>1, <2>2, GotoNames
<1> QED
  BY <1>2, <1>3 DEF Undo

\* Taking a snapshot or a restore out of a record keeps what the rest is named.
LEMMA OutNames ==
    ASSUME NEW s, NEW i, NEW r \in InstanceRecords, NEW n \in Snapshots, NEW bad,
           Labelled(s, i, r), Pinned(s, i, r, bad)
    PROVE  /\ LET q == [r EXCEPT !.snaps[n] = NoVM] IN
              q \in InstanceRecords /\ Labelled(s, i, q) /\ Pinned(s, i, q, bad)
           /\ LET q == [r EXCEPT !.previous = NoVM, !.pending = NoVM] IN
              q \in InstanceRecords /\ Labelled(s, i, q) /\ Pinned(s, i, q, bad)
<1>1. LET q == [r EXCEPT !.snaps[n] = NoVM] IN
      q \in InstanceRecords /\ Labelled(s, i, q) /\ Pinned(s, i, q, bad)
  <2> DEFINE q == [r EXCEPT !.snaps[n] = NoVM]
  <2>1. /\ q \in InstanceRecords /\ q.vm = r.vm /\ q.previous = r.previous /\ q.pending = r.pending
        /\ q.prepared = r.prepared
        /\ \A m \in Snapshots : q.snaps[m] = IF m = n THEN NoVM ELSE r.snaps[m]
    BY DEF InstanceRecords
  <2> HIDE DEF q
  <2>2. q \in InstanceRecords /\ Labelled(s, i, q) /\ Pinned(s, i, q, bad)
    BY <2>1 DEF Labelled, Pinned
  <2> QED
    BY <2>2 DEF q
<1>2. LET q == [r EXCEPT !.previous = NoVM, !.pending = NoVM] IN
      q \in InstanceRecords /\ Labelled(s, i, q) /\ Pinned(s, i, q, bad)
  BY DEF Labelled, Pinned, InstanceRecords
<1> QED
  BY <1>1, <1>2

LEMMA UnmapNames ==
    ASSUME Sound, NamesInv, NEW s \in Sandboxes, Unmap(s) PROVE NamesInv'
<1>1. /\ op[s].at = "unmap" /\ op[s].kind \in Copies \cup {"create"}
      /\ UNCHANGED <<host, genuine, late>>
      /\ SetInstance(s, WithoutCopy(s)) \/ UNCHANGED record
      /\ Leave(s)
  BY Facts, BoundsKept DEF Unmap, At, Stands, Placed
<1>2. op[s].kind \in Copies => Inst(s) # NoInstance /\ op[s].snap \in Snapshots
  BY <1>1, Facts DEF Stands, Fits, Inst, Copies
<1> DEFINE q == WithoutCopy(s)
<1>3. /\ q \in InstanceRecords \cup {NoInstance}
      /\ q # NoInstance => Labelled(s, op[s].inst, q) /\ Pinned(s, op[s].inst, q, Unpinned)
  <2>1. CASE op[s].kind = "create"
    BY <2>1 DEF WithoutCopy
  <2>2. CASE op[s].kind \in Copies
    <3>1. /\ op[s].snap \in Snapshots /\ Inst(s) \in InstanceRecords
          /\ Labelled(s, op[s].inst, Inst(s)) /\ Pinned(s, op[s].inst, Inst(s), Unpinned)
      BY <1>1, <1>2, <2>2, InstHere DEF Copies
    <3>2. \/ q = [Inst(s) EXCEPT !.snaps[op[s].snap] = NoVM]
          \/ q = [Inst(s) EXCEPT !.previous = NoVM, !.pending = NoVM]
      BY <2>2 DEF WithoutCopy, Copies
    <3> HIDE DEF q
    <3>3. CASE q = [Inst(s) EXCEPT !.snaps[op[s].snap] = NoVM]
      BY <3>1, <3>3, OutNames
    <3>4. CASE q = [Inst(s) EXCEPT !.previous = NoVM, !.pending = NoVM]
      BY <3>1, <3>4, OutNames
    <3> QED
      BY <3>2, <3>3, <3>4
  <2> QED
    BY <1>1, <2>1, <2>2
<1>4. op[s].kind # "destroy" /\ op[s].at # "idle"
  BY <1>1 DEF Copies
<1> HIDE DEF q
<1>5. SetInstance(s, q) \/ UNCHANGED record
  BY <1>1 DEF q
<1> QED
  BY <1>1, <1>3, <1>4, <1>5, SetLeaveNames

LEMMA PrepareNames ==
    ASSUME Sound, NamesInv, NEW s \in Sandboxes, Prepare(s) PROVE NamesInv'
<1> DEFINE i == op[s].inst
           q == [Inst(s) EXCEPT !.prepared = TRUE]
<1>1. /\ op[s].at = "prepare" /\ op[s].kind \in Starts \cup {"create"}
      /\ UNCHANGED <<host, genuine, late>>
  BY Facts DEF Prepare, At, Stands, Placed
<1>2. Inst(s) # NoInstance /\ op[s].kind # "destroy" /\ op[s].at # "idle"
  BY <1>1, Facts DEF Stands, Fits, Inst, Starts
<1>3. /\ Inst(s) \in InstanceRecords /\ Inst(s) = record[s][i] /\ Labelled(s, i, Inst(s))
      /\ op[s].kind = "create" \/ Inst(s).vm = InstanceVM[s, i] => InstanceVM[s, i] \notin Unpinned
  BY <1>1, <1>2, Here, InstHere DEF StartsPinned
<1>4. q \in InstanceRecords /\ q.vm = Inst(s).vm /\ q.previous = Inst(s).previous
      /\ q.pending = Inst(s).pending /\ q.snaps = Inst(s).snaps
  BY <1>3 DEF InstanceRecords
<1>5. (op[s].kind = "create" /\ ~op[s].start /\ Leave(s) /\ (SetInstance(s, q) \/ UNCHANGED record))
      \/ Update(s, q, "stop") \/ Update(s, q, "run")
  BY BoundsKept DEF Prepare
<1> HIDE DEF q
<1>6. Labelled(s, i, q) /\ Pinned(s, i, q, Unpinned)
  BY <1>3, <1>4 DEF Labelled, Pinned
<1>7. ASSUME NEW o \in Ops, NEW f, o.at \in {"stop", "run"}, o.kind = op[s].kind, o.inst = i,
             f[o.inst] = q
      PROVE  Goes(s, o, f, Unpinned, Counted)
  BY <1>1, <1>3, <1>4, <1>7
     DEF Goes, CopyNames, Sweeps, StartsPinned, CopiesCold, Copying, Starts
<1>8. ASSUME NEW place \in {"stop", "run"}, Update(s, q, place) PROVE NamesInv'
  <2>1. place \in Places
    BY <1>8 DEF Places
  <2> QED
    BY <1>1, <1>2, <1>4, <1>6, <1>7, <1>8, <2>1, UpdateNames
<1>9. CASE Leave(s) /\ (SetInstance(s, q) \/ UNCHANGED record)
  BY <1>1, <1>2, <1>4, <1>6, <1>9, SetLeaveNames
<1> QED
  BY <1>5, <1>8, <1>9

LEMMA StopNames ==
    ASSUME Sound, NamesInv, NEW s \in Sandboxes, Stop(s) PROVE NamesInv'
<1> DEFINE g == Guest(s)
           stopped == /\ host' = [host EXCEPT ![g] = IF @ = "absent" THEN @ ELSE "stopped"]
                      /\ late' = late \ {g}
<1>1. /\ op[s].at = "stop" /\ UNCHANGED <<genuine, record>>
      /\ op[s].kind \in {"stop", "restart", "snapshot", "restore"}
  BY Facts DEF Stop, At, Stands, Placed
<1>2. ASSUME stopped PROVE Settles /\ g \notin Counted'
  BY <1>1, <1>2, Facts DEF RestOK, Settles, Unpinned, Counted, On, Running, Booting, Present
<1>3. CASE Leave(s) /\ (stopped \/ UNCHANGED <<host, late>>)
  <2>1. Settles
    BY <1>1, <1>2, <1>3, SettlesIs
  <2> QED
    BY <1>1, <1>3, <2>1, LeavesNames
<1>4. CASE /\ op[s].kind = "restart" /\ stopped
           /\ op' = [op EXCEPT ![s].at = "run", ![s].seen = @ \ {g}]
  <2> DEFINE o == [op[s] EXCEPT !.at = "run", !.seen = op[s].seen \ {g}]
  <2>1. o.at = "run" /\ o.kind = "restart" /\ o.inst = op[s].inst
    BY <1>4, Facts DEF Ops
  <2>2. op' = [op EXCEPT ![s] = o]
    BY <1>4, Facts
  <2> HIDE DEF o
  <2>3. Goes(s, o, record[s], Unpinned, Counted)
    BY <1>1, <1>4, <2>1, Here
       DEF Goes, CopyNames, Sweeps, StartsPinned, CopiesCold, Copying, Starts
  <2>4. Settles
    BY <1>2, <1>4
  <2>5. Goes(s, o, record[s], Unpinned', Counted')
    BY <2>3, <2>4, FewerGoes DEF Settles
  <2> QED
    BY <1>1, <2>2, <2>4, <2>5, OpStep
<1>5. CASE /\ op[s].kind = "snapshot" /\ stopped
           /\ op' = [op EXCEPT ![s].at = "list", ![s].start = TRUE]
  <2> DEFINE o == [op[s] EXCEPT !.at = "list", !.start = TRUE]
  <2>1. o.at = "list" /\ o.kind = "snapshot" /\ o.inst = op[s].inst
    BY <1>5, Facts DEF Ops
  <2>2. op' = [op EXCEPT ![s] = o]
    BY <1>5, Facts
  <2> HIDE DEF o
  <2>3. record[s][op[s].inst].vm = g
    BY <1>5 DEF Guest, Inst
  <2>4. Settles /\ g \notin Counted'
    BY <1>2, <1>5
  <2>5. Goes(s, o, record[s], Unpinned', Counted')
    BY <2>1, <2>3, <2>4 DEF Goes, CopyNames, Sweeps, StartsPinned, CopiesCold, Copying
  <2> QED
    BY <1>1, <2>2, <2>4, <2>5, OpStep
<1>6. CASE op[s].kind = "restore" /\ stopped /\ Goto(s, "switch")
  <2>1. Settles /\ "switch" \in Places
    BY <1>2, <1>6 DEF Places
  <2>2. ASSUME NEW o \in Ops, o.at = "switch", o.kind = op[s].kind, o.inst = op[s].inst,
               o.copy = op[s].copy
        PROVE  Goes(s, o, record[s], Unpinned', Counted')
    BY <1>1, <1>6, <2>2, Here
       DEF Goes, CopyNames, Sweeps, StartsPinned, CopiesCold, Copying, Starts
  <2> QED
    BY <1>1, <1>6, <2>1, <2>2, GotoNames
<1> QED
  BY <1>1, <1>3, <1>4, <1>5, <1>6, BoundsKept DEF Stop

\* The guest that is turned on has one of its instance's own names, not a snapshot's.
LEMMA RunNames ==
    ASSUME Sound, NamesInv, DistinctNames, NEW s \in Sandboxes, Run(s) PROVE NamesInv'
<1> DEFINE g == Guest(s)
           i == op[s].inst
           boots == host' = [host EXCEPT ![g] = IF @ = "stopped" THEN "booting" ELSE @]
<1>1. /\ op[s].at = "run" /\ op[s].kind \in Starts \cup {"create"}
      /\ UNCHANGED <<genuine, record>> /\ i \in Instances
      /\ op[s].kind = "create" \/ Inst(s) # NoInstance
  BY Facts DEF Run, At, Stands, Placed, Fits, Inst, Starts
<1>2. g \in OwnNames(s, i) /\ op[s].kind # "destroy"
  BY <1>1, GuestOwn DEF Starts
<1>3. g = InstanceVM[s, i] => g \notin Unpinned
  <2>1. op[s].kind = "create" \/ g = record[s][i].vm
    BY DEF Guest, Inst
  <2> QED
    BY <1>1, <2>1, Here DEF StartsPinned
<1>4. CASE Leave(s) /\ UNCHANGED <<host, late>>
  BY <1>1, <1>4, SettlesIs, LeavesNames
<1>5. CASE /\ boots
           /\ \/ late' = late \ {g} /\ Goto(s, "poll")
              \/ late' = late \cup {g} /\ Leave(s)
  <2>1. /\ On' \subseteq On \cup {g} /\ Counted' \subseteq Counted \cup {g}
        /\ Unpinned' = Unpinned /\ Present' = Present
    BY <1>1, <1>5, Facts DEF RestOK, Counted, On, Running, Booting, Present, Unpinned
  <2>2. PICK o : op' = [op EXCEPT ![s] = o] /\ o.at \in {"poll", "idle", "mu"}
    <3>1. CASE Leave(s)
      BY <3>1, Facts, LeaveIs
    <3>2. CASE Goto(s, "poll")
      <4> DEFINE p == [op[s] EXCEPT !.at = "poll"]
      <4>1. p.at = "poll" /\ op' = [op EXCEPT ![s] = p]
        BY <3>2, Facts, GotoIs DEF Ops, Places
      <4> HIDE DEF p
      <4> QED
        BY <4>1
    <3> QED
      BY <1>5, <3>1, <3>2
  <2>3. ASSUME NEW t \in Sandboxes
        PROVE  Filed(t, record'[t], Unpinned') /\ Goes(t, op'[t], record'[t], Unpinned', Counted')
    <3>1. Filed(t, record'[t], Unpinned')
      BY <1>1, <2>1, Here
    <3>2. CASE t = s
      BY <2>2, <3>1, <3>2, Facts, PlainGoes DEF Plain
    <3>3. CASE t # s
      <4>1. op'[t] = op[t] /\ record'[t] = record[t] /\ Goes(t, op[t], record[t], Unpinned, Counted)
        BY <1>1, <2>2, <3>3, Facts DEF NamesInv
      <4>2. ASSUME op[t].kind = "snapshot", op[t].at # "idle" PROVE record[t][op[t].inst].vm # g
        <5>1. Inst(t) # NoInstance
          BY <4>2, Facts DEF Stands, Fits, Inst
        <5>2. op[t].inst \in Instances /\ record[t][op[t].inst].vm \in OwnNames(t, op[t].inst)
          BY <4>2, <5>1, InstHere DEF Labelled
        <5> QED
          BY <1>1, <1>2, <3>3, <5>2 DEF DistinctNames
      <4>3. CopiesCold(op[t], record[t], Counted')
        BY <2>1, <4>1, <4>2 DEF Goes, CopiesCold
      <4> QED
        BY <2>1, <3>1, <4>1, <4>3 DEF Goes
    <3> QED
      BY <3>2, <3>3
  <2>4. SnapsOff'
    <3> SUFFICES ASSUME NEW t \in Sandboxes, NEW j \in Instances, NEW n \in Snapshots
                 PROVE  SnapNames(t, j, n) \cap On' = {}
      BY DEF SnapsOff
    <3>1. SnapNames(t, j, n) \cap On = {}
      BY DEF NamesInv, SnapsOff
    <3>2. SnapNames(t, j, n) \cap OwnNames(s, i) = {}
      BY <1>1 DEF DistinctNames
    <3> QED
      BY <1>2, <2>1, <3>1, <3>2
  <2>5. FirstBootPinned'
    <3> SUFFICES ASSUME NEW t \in Sandboxes, NEW j \in Instances, InstanceVM[t, j] \in On'
                 PROVE  InstanceVM[t, j] \in genuine
      BY <1>1 DEF FirstBootPinned, On
    <3>1. CASE InstanceVM[t, j] \in On
      BY <3>1 DEF NamesInv, FirstBootPinned, On
    <3>2. CASE InstanceVM[t, j] = g
      <4>1. t = s /\ j = i
        <5>1. g \in OwnNames(t, j)
          BY <3>2 DEF OwnNames
        <5> QED
          BY <1>1, <1>2, <5>1 DEF DistinctNames
      <4>2. g \in Present
        BY <2>1, <3>2 DEF On, Running, Booting, Present
      <4> QED
        BY <1>3, <3>2, <4>1, <4>2 DEF Unpinned
    <3> QED
      BY <2>1, <3>1, <3>2
  <2> QED
    BY <2>3, <2>4, <2>5 DEF NamesInv
<1> QED
  BY <1>4, <1>5, BoundsKept DEF Run

LEMMA PollNames ==
    ASSUME Sound, NamesInv, NEW s \in Sandboxes, Poll(s) PROVE NamesInv'
<1>1. Leave(s) /\ UNCHANGED <<host, genuine, record>> /\ late \subseteq late'
  BY DEF Poll
<1>2. Settles
  BY <1>1 DEF Settles, Unpinned, Counted, On, Running, Booting, Present
<1> QED
  BY <1>1, <1>2, LeavesNames

LEMMA LookNames ==
    ASSUME Sound, NamesInv, NEW s \in Sandboxes, Look(s) PROVE NamesInv'
<1>1. op[s].at = "look" /\ op[s].kind = "restore" /\ UNCHANGED <<host, genuine, record, late>>
  BY Facts DEF Look, At, Stands, Placed
<1>2. Settles
  BY <1>1, SettlesIs
<1>3. CASE Fails(s)
  BY <1>1, <1>2, <1>3, BoundsKept, LeavesNames
<1>4. CASE op' = [op EXCEPT ![s].start = Guest(s) \in Running,
                            ![s].at = IF Guest(s) \in Running THEN "stop" ELSE "switch"]
  <2> DEFINE on == Guest(s) \in Running
             place == IF on THEN "stop" ELSE "switch"
             o == [op[s] EXCEPT !.start = on, !.at = place]
  <2>1. op' = [op EXCEPT ![s] = o]
    BY <1>4, Facts
  <2> HIDE DEF on
  <2>2. place \in {"stop", "switch"}
    OBVIOUS
  <2> HIDE DEF place
  <2>3. o.at = place /\ o.kind = op[s].kind /\ o.inst = op[s].inst /\ o.copy = op[s].copy
    BY Facts DEF Ops
  <2> HIDE DEF o
  <2>4. Goes(s, o, record[s], Unpinned', Counted')
    BY <1>1, <2>2, <2>3, Here
       DEF Goes, CopyNames, Sweeps, StartsPinned, CopiesCold, Copying, Starts
  <2> QED
    BY <1>1, <1>2, <2>1, <2>4, OpStep
<1> QED
  BY <1>3, <1>4 DEF Look

LEMMA SwitchNames ==
    ASSUME Sound, NamesInv, DistinctNames, NEW s \in Sandboxes, Switch(s) PROVE NamesInv'
<1> DEFINE i == op[s].inst
           q == [Inst(s) EXCEPT !.vm = op[s].copy]
<1>1. /\ op[s].at = "switch" /\ op[s].kind = "restore" /\ op[s].copy \in VMs
      /\ Inst(s) # NoInstance /\ UNCHANGED <<host, genuine, late>> /\ Update(s, q, "purge")
  BY Facts DEF Switch, At, Stands, Placed, Fits, Inst
<1>2. /\ i \in Instances /\ Inst(s) \in InstanceRecords /\ Labelled(s, i, Inst(s))
      /\ op[s].copy \in RestoreNames(s, i)
  BY <1>1, Here, InstHere DEF CopyNames
<1>3. /\ q \in InstanceRecords /\ q.vm = op[s].copy /\ q.previous = Inst(s).previous
      /\ q.pending = Inst(s).pending /\ q.snaps = Inst(s).snaps
  BY <1>1, <1>2 DEF InstanceRecords
<1> HIDE DEF q
<1>4. Labelled(s, i, q)
  BY <1>2, <1>3 DEF Labelled, OwnNames
<1>5. Pinned(s, i, q, Unpinned)
  BY <1>2, <1>3 DEF Pinned, DistinctNames
<1>6. \A o \in Ops : \A f : o.at = "purge" => Goes(s, o, f, Unpinned, Counted)
  BY PlainGoes DEF Plain
<1>7. "purge" \in Places /\ op[s].at # "idle" /\ op[s].kind # "destroy"
  BY <1>1 DEF Places
<1> QED
  BY <1>1, <1>3, <1>4, <1>5, <1>6, <1>7, UpdateNames

LEMMA PurgeNames ==
    ASSUME Sound, NamesInv, NEW s \in Sandboxes, Purge(s) PROVE NamesInv'
<1>1. UNCHANGED record /\ Settles /\ (Goto(s, "clear") \/ Fails(s))
  BY SettlesIs DEF Purge
<1>2. CASE Fails(s)
  BY <1>1, <1>2, BoundsKept, LeavesNames
<1>3. CASE Goto(s, "clear")
  <2>1. "clear" \in Places /\ \A o \in Ops : o.at = "clear" => Goes(s, o, record[s], Unpinned', Counted')
    BY PlainGoes DEF Plain, Places
  <2> QED
    BY <1>1, <1>3, <2>1, GotoNames
<1> QED
  BY <1>1, <1>2, <1>3

LEMMA ClearNames ==
    ASSUME Sound, NamesInv, NEW s \in Sandboxes, Clear(s) PROVE NamesInv'
<1> DEFINE i == op[s].inst
           q == [Inst(s) EXCEPT !.previous = NoVM, !.pending = NoVM]
<1>1. /\ op[s].at = "clear" /\ op[s].kind = "restore" /\ Inst(s) # NoInstance
      /\ UNCHANGED <<host, genuine, late>> /\ op[s].at # "idle" /\ op[s].kind # "destroy"
      /\ op[s].snap \in Snapshots
  BY Facts DEF Clear, At, Stands, Placed, Fits, Inst
<1>2. q \in InstanceRecords /\ Labelled(s, i, q) /\ Pinned(s, i, q, Unpinned)
  BY <1>1, InstHere, OutNames
<1>3. /\ SetInstance(s, q) \/ (Fails(s) /\ UNCHANGED record)
      /\ Fails(s) \/ IF op[s].start THEN ThenStart(s) ELSE op' = [op EXCEPT ![s] = Idle]
  BY DEF Clear
<1> HIDE DEF q
<1>4. CASE Fails(s)
  BY <1>1, <1>2, <1>3, <1>4, BoundsKept, SetLeaveNames
<1>5. CASE ~Fails(s)
  <2>1. PICK f : record' = [record EXCEPT ![s] = f] /\ Filed(s, f, Unpinned)
    BY <1>1, <1>2, <1>3, <1>5, SetNames
  <2> DEFINE p == [Idle EXCEPT !.at = "mu", !.kind = "start", !.start = TRUE, !.inst = i]
  <2>2. p.at = "mu" /\ (op' = [op EXCEPT ![s] = p] \/ op' = [op EXCEPT ![s] = Idle])
    BY <1>3, <1>5 DEF ThenStart, Idle
  <2> HIDE DEF p
  <2>3. PICK o : op' = [op EXCEPT ![s] = o] /\ o.at \in {"mu", "idle"}
    BY <2>2, IdleIs
  <2>4. Settles
    BY <1>1, SettlesIs
  <2>5. Filed(s, f, Unpinned') /\ Goes(s, o, f, Unpinned', Counted')
    BY <2>1, <2>3, <2>4, FewerFiled, PlainGoes DEF Settles, Plain
  <2> QED
    BY <2>1, <2>3, <2>4, <2>5, NamesStep
<1> QED
  BY <1>4, <1>5

LEMMA SweepNames ==
    ASSUME Sound, NamesInv, NEW s \in Sandboxes, Sweep(s) PROVE NamesInv'
<1>1. op[s].at \in {"sweep", "sweepFailed"} /\ op[s].kind \in Deletes /\ UNCHANGED record
  BY Facts DEF Sweep, Stands, Placed
<1>2. PICK v : /\ Deleted(v) \/ HalfDeleted(v)
               /\ \/ op' = [op EXCEPT ![s].todo = @ \ {v}]
                  \/ op' = [op EXCEPT ![s].todo = @ \ {v}, ![s].at = "sweepFailed"]
  BY DEF Sweep
<1>3. PICK o : /\ op' = [op EXCEPT ![s] = o] /\ o.at \in {"sweep", "sweepFailed"}
               /\ o.kind = op[s].kind /\ o.inst = op[s].inst /\ o.snap = op[s].snap
               /\ o.todo \subseteq op[s].todo
  <2> DEFINE p == [op[s] EXCEPT !.todo = op[s].todo \ {v}]
             q == [op[s] EXCEPT !.todo = op[s].todo \ {v}, !.at = "sweepFailed"]
  <2>1. /\ p.at = op[s].at /\ p.kind = op[s].kind /\ p.inst = op[s].inst /\ p.snap = op[s].snap
        /\ p.todo = op[s].todo \ {v}
        /\ q.at = "sweepFailed" /\ q.kind = op[s].kind /\ q.inst = op[s].inst
        /\ q.snap = op[s].snap /\ q.todo = op[s].todo \ {v}
    BY Facts DEF Ops
  <2>2. op' = [op EXCEPT ![s] = p] \/ op' = [op EXCEPT ![s] = q]
    BY <1>2, Facts
  <2> HIDE DEF p, q
  <2> QED
    BY <1>1, <2>1, <2>2
<1>4. Goes(s, o, record[s], Unpinned', Counted')
  BY <1>1, <1>3, Here
     DEF Goes, CopyNames, Sweeps, StartsPinned, CopiesCold, Copying, Starts, Deletes
<1> QED
  BY <1>1, <1>2, <1>3, <1>4, SettlesIs, OpStep

LEMMA EndSweepNames ==
    ASSUME Sound, NamesInv, NEW s \in Sandboxes, EndSweep(s) PROVE NamesInv'
<1>1. UNCHANGED <<host, genuine, record, late>> /\ (Goto(s, "forget") \/ Leave(s))
  BY DEF EndSweep
<1>2. "forget" \in Places /\ \A o \in Ops : o.at = "forget" => Goes(s, o, record[s], Unpinned', Counted')
  BY PlainGoes DEF Plain, Places
<1> QED
  BY <1>1, <1>2, SettlesIs, GotoNames, LeavesNames

LEMMA ForgetNames ==
    ASSUME Sound, NamesInv, NEW s \in Sandboxes, Forget(s) PROVE NamesInv'
<1>1. /\ op[s].at = "forget" /\ op[s].kind \in Deletes /\ UNCHANGED <<host, genuine, late>>
      /\ Leave(s)
  BY Facts, BoundsKept DEF Forget, At, Stands, Placed
<1>2. Settles
  BY <1>1, SettlesIs
<1>3. CASE UNCHANGED record
  BY <1>1, <1>2, <1>3, LeavesNames
<1>4. CASE op[s].kind = "drop" /\ ~UNCHANGED record
  <2> DEFINE q == [Inst(s) EXCEPT !.snaps[op[s].snap] = NoVM]
  <2>1. SetInstance(s, q)
    BY <1>4 DEF Forget
  <2>2. Inst(s) # NoInstance /\ op[s].snap \in Snapshots
    BY <1>1, <1>4, Facts DEF Stands, Fits, Inst
  <2>3. q \in InstanceRecords /\ Labelled(s, op[s].inst, q) /\ Pinned(s, op[s].inst, q, Unpinned)
    BY <1>1, <1>4, <2>2, InstHere, OutNames
  <2> HIDE DEF q
  <2> QED
    BY <1>1, <1>4, <2>1, <2>3, SetLeaveNames
<1>5. CASE op[s].kind = "delete" /\ ~UNCHANGED record
  <2>1. SetInstance(s, NoInstance)
    BY <1>5 DEF Forget
  <2> QED
    BY <1>1, <1>5, <2>1, SetLeaveNames
<1>6. CASE op[s].kind = "destroy" /\ ~UNCHANGED record
  <2>1. record' = [record EXCEPT ![s] = NoRecord] /\ Filed(s, NoRecord, Unpinned)
    BY <1>6 DEF Forget, Filed
  <2> QED
    BY <1>1, <1>2, <2>1, LeaveNames
<1> QED
  BY <1>1, <1>3, <1>4, <1>5, <1>6 DEF Deletes

LEMMA WorkNames ==
    ASSUME Sound, NamesInv, DistinctNames, NEW s \in Sandboxes, Work(s) PROVE NamesInv'
<1>1. CASE ListFails(s)
  BY <1>1, SettlesIs, BoundsKept, LeavesNames DEF ListFails
<1>2. CASE Work(s) /\ ~ListFails(s)
  BY <1>2, ListToStartNames, ListToCopyNames, ListToDeleteNames, MapNames, CloneNames, PinNames,
     UndoNames, UnmapNames, PrepareNames, StopNames, RunNames, PollNames, LookNames, SwitchNames,
     PurgeNames, ClearNames, SweepNames, EndSweepNames, ForgetNames DEF Work
<1> QED
  BY <1>1, <1>2

\* Steps of the host leave records and operations alone and turn nothing on.
LEMMA HostNames ==
    ASSUME Sound, NamesInv, NEW v \in VMs, BootEnds(v) \/ ShutsDown(v) PROVE NamesInv'
<1>1. Settles /\ UNCHANGED <<record, op>>
  BY Facts
     DEF RestOK, BootEnds, ShutsDown, Settles, Unpinned, Counted, On, Running, Booting, Present
<1>2. ASSUME NEW s \in Sandboxes
      PROVE  Filed(s, record'[s], Unpinned') /\ Goes(s, op'[s], record'[s], Unpinned', Counted')
  BY <1>1, FewerFiled, FewerGoes DEF NamesInv, Settles
<1> QED
  BY <1>1, <1>2, StaysOff DEF NamesInv

LEMMA CrashNames ==
    ASSUME Sound, NamesInv, Crash PROVE NamesInv'
<1>1. /\ op' = [s \in Sandboxes |-> Idle] /\ UNCHANGED <<host, genuine, record>>
      /\ late' = late \cup Booting
  BY DEF Crash
<1>2. Settles
  BY <1>1 DEF Settles, Unpinned, Counted, On, Running, Booting, Present
<1>3. ASSUME NEW s \in Sandboxes
      PROVE  Filed(s, record'[s], Unpinned') /\ Goes(s, op'[s], record'[s], Unpinned', Counted')
  <2>1. op'[s].at \in Plain /\ record'[s] = record[s]
    BY <1>1, IdleIs DEF Plain
  <2> QED
    BY <1>2, <2>1, FewerFiled, PlainGoes DEF NamesInv, Settles
<1> QED
  BY <1>2, <1>3, StaysOff DEF NamesInv

LEMMA NamesInit == Init => NamesInv
<1> SUFFICES ASSUME Init PROVE NamesInv
  OBVIOUS
<1>1. ASSUME NEW s \in Sandboxes
      PROVE  Filed(s, record[s], Unpinned) /\ Goes(s, op[s], record[s], Unpinned, Counted)
  <2>1. op[s].at \in Plain /\ record[s] = NoRecord
    BY IdleIs DEF Init, Plain
  <2> QED
    BY <2>1, PlainGoes DEF Filed
<1>2. On = {}
  BY DEF Init, On, Running, Booting
<1>3. SnapsOff /\ FirstBootPinned
  BY <1>2 DEF SnapsOff, FirstBootPinned, On
<1> QED
  BY <1>1, <1>3 DEF NamesInv

LEMMA NamesNext ==
    ASSUME DistinctNames, Sound, StartsInv, NamesInv, [Next]_vars PROVE NamesInv'
<1>1. CASE UNCHANGED vars
  <2>1. Settles /\ UNCHANGED <<record, op>>
    BY <1>1, SettlesIs DEF vars
  <2>2. ASSUME NEW s \in Sandboxes
        PROVE  Filed(s, record'[s], Unpinned') /\ Goes(s, op'[s], record'[s], Unpinned', Counted')
    BY <2>1, FewerFiled, FewerGoes DEF NamesInv, Settles
  <2> QED
    BY <2>1, <2>2, StaysOff DEF NamesInv
<1>2. CASE Next
  BY <1>2, RequestNames, TakeMuNames, WorkNames, HostNames, CrashNames DEF Next
<1> QED
  BY <1>1, <1>2

\* FirstBootPinned: a prepared guest keeps the identifier it was pinned with, an
\* unprepared one is pinned before it starts, and nothing else bears its name.
THEOREM BootsPinned == DistinctNames => (Spec => []FirstBootPinned)
<1> SUFFICES ASSUME DistinctNames PROVE Spec => []FirstBootPinned
  OBVIOUS
<1>1. Init => Sound /\ StartsInv /\ NamesInv
  BY SoundInit, StartsInit, NamesInit
<1>2. Sound /\ StartsInv /\ NamesInv /\ [Next]_vars => (Sound /\ StartsInv /\ NamesInv)'
  BY SoundStep, StartsNext, NamesNext
<1>3. NamesInv => FirstBootPinned
  BY DEF NamesInv
<1> QED
  BY <1>1, <1>2, <1>3, PTL DEF Spec

\* CopiedCold: a restore copies a snapshot's guest, and none is ever on; a snapshot
\* copies a guest that its gate keeps off, unless a given up boot comes through.
THEOREM NoHotCopy == DistinctNames => (Spec => CopiedCold)
<1> SUFFICES ASSUME DistinctNames PROVE Spec => CopiedCold
  OBVIOUS
<1>1. Init => Sound /\ StartsInv /\ NamesInv
  BY SoundInit, StartsInit, NamesInit
<1>2. Sound /\ StartsInv /\ NamesInv /\ [Next]_vars => (Sound /\ StartsInv /\ NamesInv)'
  BY SoundStep, StartsNext, NamesNext
<1>3. ASSUME Sound, NamesInv, NEW s \in Sandboxes, At(s, "clone"), Source(s) \in Running \cup Booting
      PROVE  Source(s) \in late
  <2>1. /\ op[s].at = "clone" /\ op[s].kind \in Copies \cup {"create"}
        /\ op[s].kind \in Copies => Inst(s) # NoInstance /\ op[s].snap \in Snapshots
    BY <1>3, Facts DEF At, Stands, Placed, Fits, Inst, Copies
  <2>2. Source(s) # NoVM
    BY <1>3, Absences DEF Running, Booting
  <2>3. CASE op[s].kind = "create"
    BY <2>2, <2>3 DEF Source
  <2>4. CASE op[s].kind = "snapshot"
    <3>1. Source(s) = record[s][op[s].inst].vm
      BY <2>4 DEF Source, Inst
    <3>2. Source(s) \notin Counted
      BY <1>3, <2>1, <2>4, <3>1, Here DEF CopiesCold
    <3> QED
      BY <1>3, <3>2 DEF Counted
  <2>5. CASE op[s].kind = "restore"
    <3>1. Source(s) = Inst(s).snaps[op[s].snap]
      BY <2>5 DEF Source
    <3>2. op[s].inst \in Instances /\ Source(s) \in SnapNames(s, op[s].inst, op[s].snap)
      BY <1>3, <2>1, <2>2, <2>5, <3>1, InstHere DEF Labelled, Copies
    <3>3. SnapsOff
      BY <1>3 DEF NamesInv
    <3> QED
      BY <1>3, <2>1, <2>5, <3>2, <3>3 DEF SnapsOff, On, Copies
  <2> QED
    BY <2>1, <2>3, <2>4, <2>5 DEF Copies
<1>4. Sound /\ NamesInv /\ [Next]_vars
      => [\A s \in Sandboxes :
             At(s, "clone") /\ op'[s].at = "pin" /\ Source(s) \in Running \cup Booting
             => Source(s) \in late]_vars
  BY <1>3
<1> QED
  BY <1>1, <1>2, <1>4, PTL DEF Spec, CopiedCold

\* The three deletions of the code, each with the guests it is after.
LEMMA WhoDeletes ==
    ASSUME Sound, NEW v \in Present, v \notin Present', [Next]_vars
    PROVE  \E t \in Sandboxes :
              \/ At(t, "undo") /\ v = op[t].copy
              \/ At(t, "purge") /\ v = Inst(t).previous
              \/ op[t].at \in {"sweep", "sweepFailed"} /\ v \in op[t].todo
<1>1. host[v] # "absent" /\ v \in VMs /\ ~UNCHANGED host
      /\ host \in [VMs -> {"absent", "stopped", "booting", "running"}]
  BY Facts DEF Present, RestOK
<1>2. host'[v] = "absent" \/ v \notin VMs
  BY DEF Present
<1>3. \A w : Deleted(w) \/ HalfDeleted(w) => v = w
  BY <1>1, <1>2 DEF Deleted, HalfDeleted
<1>4. ASSUME NEW t \in Sandboxes, Work(t)
      PROVE  Undo(t) \/ Purge(t) \/ Sweep(t)
  <2>1. ~Clone(t)
    BY <1>1, <1>2 DEF Clone
  <2>2. ~Stop(t)
    BY <1>1, <1>2 DEF Stop
  <2>3. ~Run(t)
    BY <1>1, <1>2 DEF Run
  <2>4. /\ ~ListToStart(t) /\ ~ListToCopy(t) /\ ~ListToDelete(t) /\ ~ListFails(t)
        /\ ~Map(t) /\ ~Pin(t) /\ ~Unmap(t) /\ ~Prepare(t) /\ ~Poll(t) /\ ~Look(t)
        /\ ~Switch(t) /\ ~Clear(t) /\ ~EndSweep(t) /\ ~Forget(t)
    BY <1>1
       DEF ListToStart, ListToCopy, ListToDelete, ListFails, Map, Pin, Unmap, Prepare, Poll, Look,
           Switch, Clear, EndSweep, Forget
  <2> QED
    BY <1>4, <2>1, <2>2, <2>3, <2>4 DEF Work
<1>5. ASSUME NEW t \in Sandboxes, Request(t) \/ TakeMu(t) PROVE FALSE
  BY <1>1, <1>5
     DEF Request, TakeMu, CreateSandbox, DeleteSandbox, CreateInstance, StartInstance,
         RestartInstance, StopInstance, DeleteInstance, CreateSnapshot, RestoreSnapshot,
         DeleteSnapshot, Begin
<1>6. ASSUME NEW w \in VMs, BootEnds(w) \/ ShutsDown(w) PROVE FALSE
  BY <1>1, <1>2, <1>6 DEF BootEnds, ShutsDown
<1>7. \E t \in Sandboxes : Undo(t) \/ Purge(t) \/ Sweep(t)
  BY <1>1, <1>4, <1>5, <1>6 DEF Next, vars, Crash
<1>8. PICK t \in Sandboxes : Undo(t) \/ Purge(t) \/ Sweep(t)
  BY <1>7
<1>9. CASE Undo(t)
  BY <1>3, <1>9 DEF Undo
<1>10. CASE Purge(t)
  BY <1>1, <1>3, <1>10 DEF Purge
<1>11. CASE Sweep(t)
  BY <1>3, <1>11 DEF Sweep
<1> QED
  BY <1>8, <1>9, <1>10, <1>11

\* SnapshotsSurvive: what a restore or a failed creation deletes is an instance's
\* own guest, and a deletion sweeps only what its own instance or snapshot is named.
THEOREM SnapshotsKept == DistinctNames => (Spec => SnapshotsSurvive)
<1> SUFFICES ASSUME DistinctNames PROVE Spec => SnapshotsSurvive
  OBVIOUS
<1>1. Init => Sound /\ StartsInv /\ NamesInv
  BY SoundInit, StartsInit, NamesInit
<1>2. Sound /\ StartsInv /\ NamesInv /\ [Next]_vars => (Sound /\ StartsInv /\ NamesInv)'
  BY SoundStep, StartsNext, NamesNext
<1>3. ASSUME Sound, NamesInv, [Next]_vars,
             NEW s \in Sandboxes, NEW i \in Instances, NEW n \in Snapshots, Has(s, i),
             NEW v, v = record[s][i].snaps[n], v \in Present, v \notin Present'
      PROVE  \/ op[s].kind = "destroy"
             \/ op[s].kind = "delete" /\ op[s].inst = i
             \/ op[s].kind \in {"drop", "snapshot"} /\ op[s].inst = i /\ op[s].snap = n
  <2>1. v \in SnapNames(s, i, n)
    <3>1. Labelled(s, i, record[s][i])
      BY <1>3, Here DEF Has, Filed
    <3>2. v # NoVM
      BY <1>3, Absences DEF Present
    <3> QED
      BY <1>3, <3>1, <3>2 DEF Labelled
  <2>2. PICK t \in Sandboxes :
           \/ At(t, "undo") /\ v = op[t].copy
           \/ At(t, "purge") /\ v = Inst(t).previous
           \/ op[t].at \in {"sweep", "sweepFailed"} /\ v \in op[t].todo
    BY <1>3, WhoDeletes
  <2>3. \A j \in Instances : v \notin OwnNames(t, j)
    BY <2>1 DEF DistinctNames
  <2>4. \A j \in Instances, m \in Snapshots : v \in SnapNames(t, j, m) => t = s /\ j = i /\ m = n
    BY <2>1 DEF DistinctNames
  <2>5. \A j \in Instances : v \in NamesOf(t, j) => t = s /\ j = i
    BY <2>3, <2>4 DEF NamesOf
  <2>6. Stands(op[t], record[t])
    BY <1>3, Facts
  <2>7. CASE At(t, "undo") /\ v = op[t].copy
    <3>1. op[t].kind \in Copies \cup {"create"} /\ op[t].inst \in Instances
          /\ (op[t].kind = "snapshot" => op[t].snap \in Snapshots)
      BY <2>6, <2>7 DEF Stands, Placed, Fits, At, Copies
    <3>2. /\ op[t].kind = "create" => v \in OwnNames(t, op[t].inst)
          /\ op[t].kind = "restore" => v \in OwnNames(t, op[t].inst)
          /\ op[t].kind = "snapshot" => v \in SnapNames(t, op[t].inst, op[t].snap)
      BY <1>3, <2>7, <3>1, Here DEF CopyNames, Copying, OwnNames, At
    <3> QED
      BY <2>3, <2>4, <3>1, <3>2 DEF Copies
  <2>8. CASE At(t, "purge") /\ v = Inst(t).previous
    <3>1. op[t].kind = "restore" /\ op[t].inst \in Instances /\ Inst(t) # NoInstance
      BY <2>6, <2>8 DEF Stands, Placed, Fits, At, Inst
    <3>2. v \in OwnNames(t, op[t].inst)
      <4>1. Labelled(t, op[t].inst, Inst(t)) /\ v # NoVM
        BY <1>3, <2>8, <3>1, InstHere, Absences DEF At, Present
      <4> QED
        BY <2>8, <4>1 DEF Labelled
    <3> QED
      BY <2>3, <3>1, <3>2
  <2>9. CASE op[t].at \in {"sweep", "sweepFailed"} /\ v \in op[t].todo
    <3>1. /\ op[t].kind \in Deletes /\ (op[t].kind # "destroy" => op[t].inst \in Instances)
          /\ op[t].kind = "drop" => op[t].snap \in Snapshots
      BY <2>6, <2>9 DEF Stands, Placed, Fits
    <3>2. Sweeps(t, op[t])
      BY <1>3, Here
    <3>3. CASE op[t].kind = "drop"
      BY <2>4, <2>9, <3>1, <3>2, <3>3 DEF Sweeps
    <3>4. CASE op[t].kind = "delete"
      BY <2>5, <2>9, <3>1, <3>2, <3>4 DEF Sweeps
    <3>5. CASE op[t].kind = "destroy"
      BY <2>5, <2>9, <3>2, <3>5 DEF Sweeps
    <3> QED
      BY <3>1, <3>3, <3>4, <3>5 DEF Deletes
  <2> QED
    BY <2>2, <2>7, <2>8, <2>9
<1>4. Sound /\ NamesInv /\ [Next]_vars
      => [\A s \in Sandboxes, i \in Instances, n \in Snapshots :
             LET v == record[s][i].snaps[n] IN
             Has(s, i) /\ v \in Present /\ v \notin Present' =>
                 \/ op[s].kind = "destroy"
                 \/ op[s].kind = "delete" /\ op[s].inst = i
                 \/ op[s].kind \in {"drop", "snapshot"} /\ op[s].inst = i /\ op[s].snap = n]_vars
  BY <1>3
<1> QED
  BY <1>1, <1>2, <1>4, PTL DEF Spec, SnapshotsSurvive
=============================================================================
