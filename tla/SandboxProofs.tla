---------------------------- MODULE SandboxProofs ----------------------------
(***************************************************************************)
(* Module SandboxService for any requests, names, guests, operators and    *)
(* lifetimes, and any number of failures and crashes: what a handler       *)
(* decided under the gate still holds when it writes, only expired and     *)
(* unpinned sandboxes are removed, attribution of a pin is kept, and a     *)
(* deleted sandbox only shrinks.                                           *)
(***************************************************************************)
EXTENDS SandboxService, TLAPS

Inside == {"get", "write", "expire", "unpin", "notify", "remove"}

\* What the handlers rely on in a request that got past the checks.
GoodRequest(r) ==
    /\ r \in Calls
    /\ r.op = "pin" /\ ~r.pinned => r.by = Nobody
    /\ r.op = "begin" => r.guest \in Guests

\* A goroutine and the gate agree on where it is.
GateOK(p) ==
    /\ pc[p] \in Inside <=> holds[p] # NoName
    /\ pc[p] = "lock" <=> wants[p] # NoName
    /\ stamp[p] <= now
    /\ pc[p] \in Inside \cup {"lock"} => GoodRequest(call[p])

\* What a goroutine in its section knows of its sandbox b.
SectionOK(p, b) ==
    /\ pc[p] = "write" =>
         /\ seen[p] = b
         /\ \/ call[p].op = "create" /\ b = NoBox
            \/ /\ call[p].op \in {"extend", "pin", "begin"}
               /\ b # NoBox /\ (Pinned(b) \/ b.expires > stamp[p])
    /\ pc[p] = "expire" => call[p].op = "delete" /\ seen[p] = b /\ b # NoBox
    /\ pc[p] = "unpin" => call[p].op = "delete" /\ b # NoBox /\ b.expires <= now
    /\ pc[p] \in {"notify", "remove"} =>
         /\ call[p].op \in {"delete", "reap"}
         /\ b # NoBox /\ b.expires <= now /\ ~Pinned(b)
         /\ call[p].op = "reap" => seen[p] = b

ProcOK(p) == GateOK(p) /\ SectionOK(p, box[holds[p]])

\* A condemned sandbox had expired before any handler now in its section read it.
CondemnedOK ==
    \A n \in Names : condemned[n] =>
        /\ box[n] # NoBox /\ box[n].expires <= now
        /\ \A p \in Procs : pc[p] = "write" /\ holds[p] = n => box[n].expires <= stamp[p]

IInv ==
    /\ TypeOK
    /\ Mutex!Exclusive
    /\ \A p \in Procs : ProcOK(p)
    /\ CondemnedOK

\* The types of what a goroutine owns, and of what the backend stores.
ProcsType ==
    /\ wants \in [Procs -> Names \cup {NoName}]
    /\ holds \in [Procs -> Names \cup {NoName}]
    /\ cancelled \in [Procs -> BOOLEAN]
    /\ pc \in [Procs -> Places]
    /\ call \in [Procs -> Calls \cup {NoCall}]
    /\ seen \in [Procs -> Boxes \cup {NoBox}]
    /\ stamp \in [Procs -> 0..MaxTime]

StoreType ==
    /\ now \in 0..MaxTime
    /\ box \in [Names -> Boxes \cup {NoBox}]
    /\ guests \in [Names -> SUBSET Guests]
    /\ condemned \in [Names -> BOOLEAN]
    /\ listed \in [Names -> Boxes \cup {NoBox}]
    /\ failures \in 0..MaxFailures
    /\ crashes \in 0..MaxCrashes

LEMMA Types == TypeOK <=> ProcsType /\ StoreType
  BY DEF TypeOK, ProcsType, StoreType

-----------------------------------------------------------------------------
(* Requests.                                                                 *)

LEMMA LifetimesType == Lifetimes \subseteq Nat
<1> SUFFICES ASSUME NEW t \in TTLs PROVE ResolveTTL(t) \subseteq Nat
  BY DEF Lifetimes
<1> QED
  BY TTLRange DEF ResolveTTL

LEMMA ValidRequestsType == \A r \in ValidRequests : GoodRequest(r)
<1> SUFFICES ASSUME NEW r \in ValidRequests PROVE GoodRequest(r)
  OBVIOUS
<1>0. Lifetimes \subseteq Nat /\ {NoTTL} \subseteq Nat
  BY LifetimesType DEF NoTTL
<1>1. RequestsOf({"create", "extend"}, Lifetimes, {FALSE}, {Nobody}, {NoGuest}) \subseteq Calls
  BY <1>0 DEF RequestsOf, Calls, Ops
<1>2. RequestsOf({"create"}, Lifetimes, {TRUE}, Pinners, {NoGuest}) \subseteq Calls
  BY <1>0 DEF RequestsOf, Calls, Ops, Pinners
<1>3. RequestsOf({"pin"}, {NoTTL}, {TRUE}, Pinners, {NoGuest}) \subseteq Calls
  BY <1>0 DEF RequestsOf, Calls, Ops, Pinners
<1>4. RequestsOf({"pin"}, {NoTTL}, {FALSE}, {Nobody}, {NoGuest}) \subseteq Calls
  BY <1>0 DEF RequestsOf, Calls, Ops
<1>5. RequestsOf({"delete"}, {NoTTL}, {FALSE}, {Nobody}, {NoGuest}) \subseteq Calls
  BY <1>0 DEF RequestsOf, Calls, Ops
<1>6. RequestsOf({"begin"}, {NoTTL}, {FALSE}, {Nobody}, Guests) \subseteq Calls
  BY <1>0 DEF RequestsOf, Calls, Ops
<1>7. r \in Calls
  BY <1>1, <1>2, <1>3, <1>4, <1>5, <1>6 DEF ValidRequests
<1>8. r.op = "pin" => r.pinned = TRUE \/ r.by = Nobody
  BY DEF ValidRequests, RequestsOf
<1>9. r.op = "begin" => r.guest \in Guests
  BY DEF ValidRequests, RequestsOf
<1> QED
  BY <1>7, <1>8, <1>9 DEF GoodRequest

-----------------------------------------------------------------------------
(* A step of one goroutine leaves the others what they know.                 *)

SameElsewhere(p) ==
    \A q \in Procs \ {p} :
        /\ pc'[q] = pc[q] /\ call'[q] = call[q] /\ seen'[q] = seen[q] /\ stamp'[q] = stamp[q]
        /\ holds'[q] = holds[q] /\ wants'[q] = wants[q]

LEMMA Others ==
  ASSUME IInv, NEW p \in Procs, SameElsewhere(p), now' = now,
         \A n \in Names : n # holds[p] => box'[n] = box[n]
  PROVE  \A q \in Procs \ {p} : ProcOK(q)'
<1> SUFFICES ASSUME NEW q \in Procs \ {p} PROVE ProcOK(q)'
  OBVIOUS
<1>1. ProcOK(q) /\ holds[q] \in Names \cup {NoName}
  BY DEF IInv, TypeOK
<1>2. GateOK(q)'
  BY <1>1 DEF ProcOK, GateOK, SameElsewhere
<1>3. CASE holds[q] = NoName
  <2>1. pc'[q] \notin Inside
    BY <1>1, <1>3 DEF ProcOK, GateOK, SameElsewhere
  <2> QED
    BY <1>2, <2>1 DEF ProcOK, SectionOK, Inside
<1>4. CASE holds[q] # NoName
  <2>1. holds[q] \in Names /\ holds[q] # holds[p]
    BY <1>1, <1>4 DEF IInv, Mutex!Exclusive
  <2>2. box'[holds'[q]] = box[holds[q]]
    BY <2>1 DEF SameElsewhere
  <2>3. SectionOK(q, box[holds[q]])'  <=> SectionOK(q, box[holds[q]])
    BY <2>2 DEF SectionOK, SameElsewhere, Pinned
  <2> QED
    BY <1>1, <1>2, <2>3 DEF ProcOK
<1> QED
  BY <1>3, <1>4

\* A goroutine that has left its section, or never entered one.
LEMMA Outside ==
  ASSUME NEW p \in Procs, GateOK(p)', pc'[p] \notin Inside
  PROVE  ProcOK(p)'
  BY DEF ProcOK, SectionOK, Inside

\* A step that changes no sandbox and brings nobody to its write.
LEMMA CondemnedStays ==
  ASSUME IInv, UNCHANGED <<now, box, condemned>>,
         \A q \in Procs : pc'[q] = "write" =>
             pc[q] = "write" /\ holds'[q] = holds[q] /\ stamp'[q] = stamp[q]
  PROVE  CondemnedOK'
  BY DEF IInv, CondemnedOK

\* A step of p inside its section, which it then leaves or goes on in, may
\* change the sandbox p has locked and no other.
LEMMA CondemnedHere ==
  ASSUME IInv, NEW p \in Procs, holds[p] \in Names, SameElsewhere(p), now' = now,
         pc'[p] # "write",
         \A n \in Names : n # holds[p] => box'[n] = box[n] /\ condemned'[n] = condemned[n],
         condemned'[holds[p]] =>
             box'[holds[p]] # NoBox /\ box'[holds[p]].expires <= now
  PROVE  CondemnedOK'
<1> SUFFICES ASSUME NEW n \in Names, condemned'[n]
             PROVE  /\ box'[n] # NoBox /\ box'[n].expires <= now'
                    /\ \A q \in Procs : pc'[q] = "write" /\ holds'[q] = n
                                          => box'[n].expires <= stamp'[q]
  BY DEF CondemnedOK
<1>1. CASE n = holds[p]
  <2>1. \A q \in Procs : holds'[q] = n => q = p \/ holds[q] = holds[p]
    BY <1>1 DEF SameElsewhere
  <2>2. \A q \in Procs : holds[q] = holds[p] => q = p
    BY NameIsApart DEF IInv, Mutex!Exclusive
  <2> QED
    BY <1>1, <2>1, <2>2
<1>2. CASE n # holds[p]
  BY <1>2 DEF IInv, CondemnedOK, SameElsewhere
<1> QED
  BY <1>1, <1>2

\* Nobody gets a gate in a step where p at most lets go of one.
LEMMA ExclusiveStays ==
  ASSUME IInv, NEW p \in Procs, SameElsewhere(p), holds'[p] \in {holds[p], NoName}
  PROVE  Mutex!Exclusive'
  BY DEF IInv, Mutex!Exclusive, SameElsewhere

LEMMA Assemble ==
  ASSUME IInv, NEW p \in Procs, ProcsType', StoreType', Mutex!Exclusive',
         SameElsewhere(p), now' = now, \A n \in Names : n # holds[p] => box'[n] = box[n],
         ProcOK(p)', CondemnedOK'
  PROVE  IInv'
<1>1. TypeOK'
  BY DEF TypeOK, ProcsType, StoreType
<1>2. \A q \in Procs : ProcOK(q)'
  BY Others
<1> QED
  BY <1>1, <1>2 DEF IInv

LEMMA InSection ==
  ASSUME IInv, NEW p \in Procs, pc[p] \in Inside
  PROVE  /\ holds[p] \in Names /\ wants[p] = NoName /\ GoodRequest(call[p])
         /\ stamp[p] \in Nat /\ stamp[p] <= now
         /\ box[holds[p]] \in Boxes \cup {NoBox}
         /\ SectionOK(p, box[holds[p]])
<1>1. ProcOK(p) /\ pc[p] # "lock"
  BY DEF IInv, Inside
<1>2. holds[p] \in Names
  BY <1>1 DEF ProcOK, GateOK, IInv, TypeOK
<1>3. stamp[p] \in Nat /\ box[holds[p]] \in Boxes \cup {NoBox}
  BY <1>2, Bounds DEF IInv, TypeOK
<1> QED
  BY <1>1, <1>2, <1>3 DEF ProcOK, GateOK

\* Leaving a section: the deferred unlock.
LEMMA Returned ==
  ASSUME IInv, NEW p \in Procs, pc[p] \in Inside, Return(p), now' = now
  PROVE  /\ ProcsType' /\ SameElsewhere(p) /\ Mutex!Exclusive' /\ ProcOK(p)'
         /\ pc'[p] # "write"
<1>1. ProcsType
  BY DEF IInv, TypeOK, ProcsType
<1>2. ProcsType'
  BY <1>1, Bounds DEF ProcsType, Return, Forget, Mutex!Free, Places
<1>3. SameElsewhere(p)
  BY <1>1 DEF ProcsType, SameElsewhere, Return, Forget, Mutex!Free
<1>4. /\ pc'[p] \in {"idle", "loop"} /\ holds'[p] = NoName /\ wants'[p] = NoName
      /\ stamp'[p] = 0
  BY <1>1, InSection DEF ProcsType, Return, Forget, Mutex!Free
<1>5. GateOK(p)'
  BY <1>4, Bounds DEF GateOK, Inside, IInv, TypeOK
<1> QED
  BY <1>2, <1>3, <1>4, <1>5, Outside, ExclusiveStays DEF Inside

\* From one backend call of a section to the next.
LEMMA Advanced ==
  ASSUME IInv, NEW p \in Procs, pc[p] \in Inside, NEW q \in Inside, Goto(p, q), now' = now
  PROVE  /\ ProcsType' /\ SameElsewhere(p) /\ Mutex!Exclusive' /\ GateOK(p)'
         /\ pc'[p] = q /\ holds'[p] = holds[p] /\ call'[p] = call[p]
         /\ seen'[p] = seen[p] /\ stamp'[p] = stamp[p]
<1>1. ProcsType
  BY DEF IInv, TypeOK, ProcsType
<1>2. ProcsType' /\ SameElsewhere(p) /\ pc'[p] = q /\ holds'[p] = holds[p]
  BY <1>1 DEF ProcsType, SameElsewhere, Goto, gate, Inside, Places
<1>3. GateOK(p)'
  BY <1>2, InSection, NameIsApart DEF GateOK, Goto, gate, Inside
<1> QED
  BY <1>2, <1>3, ExclusiveStays DEF Goto

-----------------------------------------------------------------------------
(* One lemma per action.                                                     *)

LEMMA CallStep ==
  ASSUME IInv, NEW p \in Requests, NEW n \in Names, NEW req \in ValidRequests, Call(p, n, req)
  PROVE  IInv'
<1>0. p \in Procs /\ ProcsType /\ StoreType /\ GoodRequest(req) /\ ProcOK(p)
  BY ValidRequestsType DEF IInv, TypeOK, ProcsType, StoreType, Procs
<1>1. ProcsType' /\ StoreType'
  BY <1>0 DEF ProcsType, StoreType, GoodRequest, Call, Mutex!Request, Places, store, bounds
<1>2. SameElsewhere(p) /\ pc'[p] = "lock"
  BY <1>0 DEF ProcsType, SameElsewhere, Call, Mutex!Request
<1>3. GateOK(p)'
  BY <1>0, NameIsApart DEF ProcsType, ProcOK, GateOK, GoodRequest, Call, Mutex!Request,
                            Mutex!Idle, Inside
<1>4. Mutex!Exclusive'
  BY <1>0, <1>2, ExclusiveStays DEF Call, Mutex!Request
<1>5. CondemnedOK'
  BY <1>0, CondemnedStays DEF ProcsType, Call, Mutex!Request, store
<1>6. ProcOK(p)'
  BY <1>0, <1>2, <1>3, Outside DEF Inside
<1> QED
  BY <1>0, <1>1, <1>2, <1>4, <1>5, <1>6, Assemble DEF Call, store

LEMMA CancelStep ==
  ASSUME IInv, NEW p \in Procs, Cancel(p)
  PROVE  IInv'
<1>0. ProcsType /\ StoreType /\ ProcOK(p)
  BY DEF IInv, TypeOK, ProcsType, StoreType
<1>1. ProcsType' /\ StoreType'
  BY <1>0 DEF ProcsType, StoreType, Cancel, Mutex!Cancel, store, procs, bounds
<1>2. SameElsewhere(p)
  BY DEF SameElsewhere, Cancel, Mutex!Cancel, procs
<1>3. Mutex!Exclusive'
  BY <1>2, ExclusiveStays DEF Cancel, Mutex!Cancel
<1>4. CondemnedOK'
  BY CondemnedStays DEF Cancel, Mutex!Cancel, store, procs
<1>5. ProcOK(p)'
  BY <1>0, Outside DEF ProcOK, GateOK, Cancel, Mutex!Cancel, procs, Inside
<1> QED
  BY <1>1, <1>2, <1>3, <1>4, <1>5, Assemble DEF Cancel, store

LEMMA GiveUpStep ==
  ASSUME IInv, NEW p \in Procs, GiveUp(p)
  PROVE  IInv'
<1>0. ProcsType /\ StoreType /\ ProcOK(p)
  BY DEF IInv, TypeOK, ProcsType, StoreType
<1>1. ProcsType' /\ StoreType'
  BY <1>0, Bounds DEF ProcsType, StoreType, GiveUp, Forget, Mutex!GiveUp, Places, store, bounds
<1>2. SameElsewhere(p) /\ pc'[p] \in {"idle", "loop"} /\ stamp'[p] = 0 /\ wants'[p] = NoName
  BY <1>0 DEF ProcsType, SameElsewhere, GiveUp, Forget, Mutex!GiveUp
<1>3. Mutex!Exclusive'
  BY <1>2, ExclusiveStays DEF GiveUp, Mutex!GiveUp
<1>4. CondemnedOK'
  BY <1>0, CondemnedStays DEF ProcsType, GiveUp, Forget, Mutex!GiveUp, store
<1>5. GateOK(p)'
  BY <1>0, <1>2 DEF StoreType, ProcOK, GateOK, GiveUp, Mutex!GiveUp, Inside
<1>6. ProcOK(p)'
  BY <1>2, <1>5, Outside DEF Inside
<1> QED
  BY <1>1, <1>2, <1>3, <1>4, <1>6, Assemble DEF GiveUp, store

LEMMA LockStep ==
  ASSUME IInv, NEW p \in Procs, Lock(p)
  PROVE  IInv'
<1>0. ProcsType /\ StoreType /\ ProcOK(p)
  BY DEF IInv, TypeOK, ProcsType, StoreType
<1>1. ProcsType' /\ StoreType'
  BY <1>0 DEF ProcsType, StoreType, Lock, Mutex!Grant, Places, store, bounds
<1>2. SameElsewhere(p) /\ pc'[p] = "get" /\ holds'[p] = wants[p] /\ wants'[p] = NoName
  BY <1>0 DEF ProcsType, SameElsewhere, Lock, Mutex!Grant
<1>3. Mutex!Exclusive'
  BY <1>0, <1>2 DEF IInv, ProcsType, Mutex!Exclusive, SameElsewhere, Lock, Mutex!Grant
<1>4. CondemnedOK'
  BY <1>0, CondemnedStays DEF ProcsType, Lock, Mutex!Grant, store
<1>5. ProcOK(p)'
  BY <1>0, <1>2 DEF ProcOK, GateOK, SectionOK, Lock, Mutex!Grant, Inside
<1>6. \A n \in Names : box'[n] = box[n]
  BY DEF Lock, store
<1> QED
  BY <1>1, <1>2, <1>3, <1>4, <1>5, <1>6, Assemble DEF Lock

LEMMA GetStep ==
  ASSUME IInv, NEW p \in Procs, Get(p)
  PROVE  IInv'
<1> DEFINE b == box[holds[p]]
<1>0. ProcsType /\ StoreType /\ ProcOK(p) /\ pc[p] \in Inside
  BY DEF IInv, TypeOK, ProcsType, StoreType, Get, Inside
<1>1. CASE Decision(call[p].op, b)
  <2>1. Return(p) /\ now' = now /\ UNCHANGED <<store, listed, bounds>>
    BY <1>1 DEF Get
  <2>2. StoreType'
    BY <1>0, <2>1 DEF StoreType, store, bounds
  <2>3. CondemnedOK'
    BY <2>1, <1>0, Returned, CondemnedStays DEF SameElsewhere, store
  <2> QED
    BY <1>0, <2>1, <2>2, <2>3, Returned, Assemble DEF store
<1>2. CASE ~Decision(call[p].op, b)
  <2>1. /\ pc' = [pc EXCEPT ![p] = FirstStep(call[p].op)]
        /\ seen' = [seen EXCEPT ![p] = b] /\ stamp' = [stamp EXCEPT ![p] = now]
        /\ UNCHANGED <<now, store, listed, bounds, call, gate>>
    BY <1>2 DEF Get
  <2>2. b \in Boxes \cup {NoBox} /\ holds[p] \in Names /\ call[p] \in Calls
    BY <1>0, InSection DEF GoodRequest
  <2>3. ProcsType' /\ StoreType'
    BY <1>0, <2>1, <2>2 DEF ProcsType, StoreType, FirstStep, Places, store, bounds, gate
  <2>4. SameElsewhere(p) /\ pc'[p] = FirstStep(call[p].op) /\ seen'[p] = b /\ stamp'[p] = now
    BY <1>0, <2>1 DEF ProcsType, SameElsewhere, gate
  <2>5. Mutex!Exclusive'
    BY <2>1, <2>4, ExclusiveStays DEF gate
  <2>6. GateOK(p)'
    BY <1>0, <2>1, <2>4 DEF StoreType, ProcOK, GateOK, FirstStep, Inside, gate
  <2>7. SectionOK(p, b)'
    BY <1>0, <1>2, <2>1, <2>2, <2>4
    DEF SectionOK, FirstStep, Decision, Refuses, LiveSandbox, Live, Expired, StoreType,
        Boxes, Calls, Ops, store, gate, Pinned
  <2>8. CondemnedOK'
    <3>1. \A q \in Procs : pc'[q] = "write" =>
              q = p \/ (pc[q] = "write" /\ holds'[q] = holds[q] /\ stamp'[q] = stamp[q])
      BY <2>4 DEF SameElsewhere
    <3> QED
      BY <2>1, <2>4, <3>1 DEF IInv, CondemnedOK, store
  <2> QED
    BY <2>1, <2>3, <2>4, <2>5, <2>6, <2>7, <2>8, Assemble DEF ProcOK, store, gate
<1> QED
  BY <1>1, <1>2

\* A write, an expiry, an unpin or a removal that ends the section.
LEMMA EndsSection ==
  ASSUME IInv, NEW p \in Procs, pc[p] \in Inside, Return(p), now' = now, StoreType',
         \A n \in Names : n # holds[p] => box'[n] = box[n] /\ condemned'[n] = condemned[n],
         condemned'[holds[p]] =>
             box'[holds[p]] # NoBox /\ box'[holds[p]].expires <= now
  PROVE  IInv'
<1>1. holds[p] \in Names
  BY InSection
<1>2. CondemnedOK'
  BY <1>1, Returned, CondemnedHere
<1> QED
  BY <1>1, <1>2, Returned, Assemble

\* What the write of a section leaves behind.
LEMMA WriteEffect ==
  ASSUME IInv, NEW p \in Procs, Write(p)
  PROVE  /\ holds[p] \in Names /\ call[p].op \in {"create", "extend", "pin", "begin"}
         /\ StoreType'
         /\ \A n \in Names : n # holds[p] => box'[n] = box[n] /\ condemned'[n] = condemned[n]
         /\ box'[holds[p]] # NoBox
         /\ condemned'[holds[p]] =>
               /\ condemned[holds[p]] /\ call[p].op \in {"pin", "begin"}
               /\ box[holds[p]] # NoBox /\ box'[holds[p]].expires = box[holds[p]].expires
<1> DEFINE n == holds[p]
           r == call[p]
           b == box[n]
<1>0. pc[p] = "write" /\ pc[p] \in Inside /\ StoreType
  BY DEF Write, Inside, IInv, TypeOK, StoreType
<1>1. /\ n \in Names /\ r \in Calls /\ b \in Boxes \cup {NoBox} /\ stamp[p] \in Nat
      /\ SectionOK(p, b) /\ (r.op = "begin" => r.guest \in Guests)
  BY <1>0, InSection DEF GoodRequest
<1>2. /\ seen[p] = b
      /\ r.op = "create" => b = NoBox
      /\ r.op # "create" => b \in Boxes
      /\ r.op \in {"create", "extend", "pin", "begin"}
  BY <1>0, <1>1 DEF SectionOK
<1>3. condemned' = [condemned EXCEPT ![n] = condemned[n] /\ r.op # "extend"]
  BY DEF Write
<1>4. /\ condemned[n] => b # NoBox
      /\ condemned' \in [Names -> BOOLEAN]
      /\ \A m \in Names : m # n => condemned'[m] = condemned[m]
      /\ condemned'[n] => condemned[n] /\ r.op # "extend"
  BY <1>0, <1>1, <1>3 DEF StoreType, IInv, CondemnedOK
<1>5. UNCHANGED <<now, listed, bounds>>
  BY DEF Write
<1>6. ASSUME NEW nb \in Boxes, box' = [box EXCEPT ![n] = nb], UNCHANGED guests,
             r.op \in {"pin", "begin"} => nb.expires = b.expires
      PROVE  /\ box' \in [Names -> Boxes \cup {NoBox}] /\ box'[n] # NoBox
             /\ guests' \in [Names -> SUBSET Guests]
             /\ \A m \in Names : m # n => box'[m] = box[m]
             /\ r.op \in {"pin", "begin"} => box'[n].expires = b.expires
  BY <1>0, <1>1, <1>6, NoBoxIsApart DEF StoreType
<1>7. /\ box' \in [Names -> Boxes \cup {NoBox}] /\ box'[n] # NoBox
      /\ guests' \in [Names -> SUBSET Guests]
      /\ \A m \in Names : m # n => box'[m] = box[m]
      /\ r.op \in {"pin", "begin"} => box'[n].expires = b.expires
  <2>1. CASE r.op = "create"
    <3>1. [expires |-> stamp[p] + r.ttl, by |-> r.by] \in Boxes
      BY <1>1 DEF Boxes, Calls
    <3>2. box' = [box EXCEPT ![n] = [expires |-> stamp[p] + r.ttl, by |-> r.by]]
          /\ UNCHANGED guests
      BY <2>1 DEF Write, SetBox
    <3> QED
      BY <2>1, <3>1, <3>2, <1>6
  <2>2. CASE r.op = "extend"
    <3>1. [b EXCEPT !.expires = stamp[p] + r.ttl] \in Boxes
      BY <1>1, <1>2, <2>2 DEF Boxes, Calls
    <3>2. box' = [box EXCEPT ![n] = [b EXCEPT !.expires = stamp[p] + r.ttl]]
          /\ UNCHANGED guests
      BY <2>2 DEF Write, SetBox
    <3> QED
      BY <2>2, <3>1, <3>2, <1>6
  <2>3. CASE r.op = "pin"
    <3>1. PinnedAs(b, b, r) \in Boxes /\ PinnedAs(b, b, r).expires = b.expires
      BY <1>1, <1>2, <2>3 DEF Boxes, Calls, PinnedAs
    <3>2. box' = [box EXCEPT ![n] = PinnedAs(b, b, r)] /\ UNCHANGED guests
      BY <1>2, <2>3 DEF Write, SetBox
    <3> QED
      BY <2>3, <3>1, <3>2, <1>6
  <2>4. CASE r.op = "begin"
    <3>1. b \in Boxes /\ UNCHANGED box
      BY <1>2, <2>4 DEF Write
    <3>2. guests' = [guests EXCEPT ![n] = guests[n] \cup {r.guest}]
      BY <2>4 DEF Write
    <3>3. guests' \in [Names -> SUBSET Guests]
      BY <1>0, <1>1, <2>4, <3>2 DEF StoreType
    <3> QED
      BY <1>0, <3>1, <3>3, NoBoxIsApart DEF StoreType
  <2> QED
    BY <1>2, <2>1, <2>2, <2>3, <2>4
<1>8. StoreType'
  BY <1>0, <1>4, <1>5, <1>7 DEF StoreType, bounds
<1> QED
  BY <1>1, <1>2, <1>4, <1>7, <1>8

LEMMA WriteStep ==
  ASSUME IInv, NEW p \in Procs, Write(p)
  PROVE  IInv'
<1>1. pc[p] \in Inside /\ Return(p) /\ now' = now
  BY DEF Write, Inside
<1>2. condemned'[holds[p]] =>
          box'[holds[p]] # NoBox /\ box'[holds[p]].expires <= now
  BY WriteEffect DEF IInv, CondemnedOK
<1> QED
  BY <1>1, <1>2, WriteEffect, EndsSection

\* The sandbox of a section after one of its fields has been written.
LEMMA FieldWritten ==
  ASSUME IInv, NEW n \in Names, NEW b \in Boxes, box' = [box EXCEPT ![n] = b]
  PROVE  /\ box' \in [Names -> Boxes \cup {NoBox}]
         /\ box'[n] = b /\ box'[n] # NoBox
         /\ \A m \in Names : m # n => box'[m] = box[m]
  BY NoBoxIsApart DEF IInv, TypeOK

\* The expiry written by DeleteSandbox, whether or not its answer arrives.
LEMMA ExpireEffect ==
  ASSUME IInv, NEW p \in Procs, pc[p] = "expire", now' = now,
         box' = [box EXCEPT ![holds[p]].expires = stamp[p]],
         condemned' = [condemned EXCEPT ![holds[p]] = TRUE]
  PROVE  /\ holds[p] \in Names
         /\ box' \in [Names -> Boxes \cup {NoBox}] /\ condemned' \in [Names -> BOOLEAN]
         /\ \A n \in Names : n # holds[p] => box'[n] = box[n] /\ condemned'[n] = condemned[n]
         /\ box[holds[p]] \in Boxes /\ box'[holds[p]] # NoBox
         /\ box'[holds[p]].expires <= now /\ box'[holds[p]].by = box[holds[p]].by
<1> DEFINE n == holds[p]
           nb == [box[n] EXCEPT !.expires = stamp[p]]
<1>1. pc[p] \in Inside
  BY DEF Inside
<1>2. n \in Names /\ box[n] \in Boxes /\ stamp[p] \in Nat /\ stamp[p] <= now
  BY <1>1, InSection DEF SectionOK
<1>3. nb \in Boxes /\ nb.expires = stamp[p] /\ nb.by = box[n].by
  BY <1>2 DEF Boxes
<1>4. box' = [box EXCEPT ![n] = nb]
  OBVIOUS
<1>5. condemned \in [Names -> BOOLEAN]
  BY DEF IInv, TypeOK
<1> HIDE DEF nb
<1>6. /\ box' \in [Names -> Boxes \cup {NoBox}] /\ box'[n] = nb /\ box'[n] # NoBox
      /\ \A m \in Names : m # n => box'[m] = box[m]
  BY <1>2, <1>3, <1>4, FieldWritten
<1>7. condemned' \in [Names -> BOOLEAN] /\ \A m \in Names : m # n => condemned'[m] = condemned[m]
  BY <1>5
<1> QED
  BY <1>2, <1>3, <1>6, <1>7

\* The cleared pin, whether or not its answer arrives.
LEMMA UnpinEffect ==
  ASSUME IInv, NEW p \in Procs, pc[p] = "unpin",
         SetBox(holds[p], [box[holds[p]] EXCEPT !.by = Nobody])
  PROVE  /\ holds[p] \in Names
         /\ box' \in [Names -> Boxes \cup {NoBox}]
         /\ \A n \in Names : n # holds[p] => box'[n] = box[n]
         /\ box[holds[p]] \in Boxes /\ box'[holds[p]] # NoBox
         /\ box'[holds[p]].expires = box[holds[p]].expires
         /\ box[holds[p]].expires <= now /\ ~Pinned(box'[holds[p]])
<1> DEFINE n == holds[p]
           nb == [box[n] EXCEPT !.by = Nobody]
<1>1. pc[p] \in Inside
  BY DEF Inside
<1>2. n \in Names /\ box[n] \in Boxes /\ box[n].expires <= now
  BY <1>1, InSection DEF SectionOK
<1>3. nb \in Boxes /\ nb.expires = box[n].expires /\ nb.by = Nobody
  BY <1>2 DEF Boxes
<1>4. box' = [box EXCEPT ![n] = nb]
  BY DEF SetBox
<1> HIDE DEF nb
<1>5. /\ box' \in [Names -> Boxes \cup {NoBox}] /\ box'[n] = nb /\ box'[n] # NoBox
      /\ \A m \in Names : m # n => box'[m] = box[m]
  BY <1>2, <1>3, <1>4, FieldWritten
<1> QED
  BY <1>2, <1>3, <1>5 DEF Pinned

LEMMA ExpireStep ==
  ASSUME IInv, NEW p \in Procs, Expire(p)
  PROVE  IInv'
<1> DEFINE q == IF Pinned(seen[p]) THEN "unpin" ELSE "notify"
           n == holds[p]
<1>1. /\ pc[p] = "expire" /\ pc[p] \in Inside /\ q \in Inside /\ Goto(p, q) /\ now' = now
      /\ box' = [box EXCEPT ![n].expires = stamp[p]]
      /\ condemned' = [condemned EXCEPT ![n] = TRUE]
      /\ UNCHANGED <<guests, listed, bounds>>
  BY DEF Expire, Inside
<1>2. StoreType'
  BY <1>1, ExpireEffect DEF IInv, TypeOK, StoreType, bounds
<1>3. seen[p] = box[n] /\ call[p].op = "delete"
  BY <1>1, InSection DEF SectionOK
<1>4. q \in {"unpin", "notify"} /\ (q = "notify" => ~Pinned(box[n]))
  BY <1>3
<1> HIDE DEF q
<1>5. /\ ProcsType' /\ SameElsewhere(p) /\ Mutex!Exclusive' /\ GateOK(p)'
      /\ pc'[p] = q /\ holds'[p] = n /\ call'[p] = call[p]
  BY <1>1, Advanced
<1>6. /\ n \in Names /\ box'[n] # NoBox /\ box'[n].expires <= now
      /\ box'[n].by = box[n].by
      /\ \A m \in Names : m # n => box'[m] = box[m] /\ condemned'[m] = condemned[m]
  BY <1>1, ExpireEffect
<1>7. CondemnedOK'
  BY <1>1, <1>4, <1>5, <1>6, CondemnedHere
<1>8. SectionOK(p, box[n])'
  BY <1>1, <1>3, <1>4, <1>5, <1>6 DEF SectionOK, Pinned
<1> QED
  BY <1>1, <1>2, <1>5, <1>6, <1>7, <1>8, Assemble DEF ProcOK

LEMMA UnpinStep ==
  ASSUME IInv, NEW p \in Procs, Unpin(p)
  PROVE  IInv'
<1> DEFINE n == holds[p]
<1>1. /\ pc[p] = "unpin" /\ pc[p] \in Inside /\ "notify" \in Inside /\ Goto(p, "notify")
      /\ now' = now
      /\ SetBox(n, [box[n] EXCEPT !.by = Nobody])
      /\ UNCHANGED <<guests, condemned, listed, bounds>>
  BY DEF Unpin, SetBox, Inside
<1>2. StoreType'
  BY <1>1, UnpinEffect DEF IInv, TypeOK, StoreType, bounds
<1>3. CondemnedOK'
  BY <1>1, UnpinEffect, Advanced, CondemnedHere
<1>4. call[p].op = "delete"
  BY <1>1, InSection DEF SectionOK
<1>5. SectionOK(p, box[n])'
  BY <1>1, <1>4, UnpinEffect, Advanced DEF SectionOK
<1> QED
  BY <1>1, <1>2, <1>3, <1>5, UnpinEffect, Advanced, Assemble DEF ProcOK

LEMMA NotifyStep ==
  ASSUME IInv, NEW p \in Procs, Notify(p)
  PROVE  IInv'
<1>1. /\ pc[p] = "notify" /\ pc[p] \in Inside /\ "remove" \in Inside /\ Goto(p, "remove")
      /\ UNCHANGED <<now, box, guests, condemned, listed, bounds>>
  BY DEF Notify, Inside, store
<1>2. StoreType'
  BY <1>1 DEF IInv, TypeOK, StoreType, bounds
<1>3. CondemnedOK'
  BY <1>1, Advanced, CondemnedStays DEF SameElsewhere
<1>4. SectionOK(p, box[holds[p]])'
  BY <1>1, InSection, Advanced DEF SectionOK, Pinned
<1> QED
  BY <1>1, <1>2, <1>3, <1>4, Advanced, Assemble DEF ProcOK

LEMMA RemoveStep ==
  ASSUME IInv, NEW p \in Procs, Remove(p)
  PROVE  IInv'
<1>1. /\ pc[p] \in Inside /\ Return(p) /\ now' = now /\ UNCHANGED <<listed, bounds>>
      /\ box' = [box EXCEPT ![holds[p]] = NoBox]
      /\ guests' = [guests EXCEPT ![holds[p]] = {}]
      /\ condemned' = [condemned EXCEPT ![holds[p]] = FALSE]
  BY DEF Remove, Inside
<1>2. StoreType
  BY DEF IInv, TypeOK, StoreType
<1>3. StoreType' /\ holds[p] \in Names
  BY <1>1, <1>2, InSection DEF StoreType, bounds
<1>4. /\ ~condemned'[holds[p]]
      /\ \A n \in Names : n # holds[p] => box'[n] = box[n] /\ condemned'[n] = condemned[n]
  BY <1>1, <1>2, <1>3 DEF StoreType
<1> QED
  BY <1>1, <1>3, <1>4, EndsSection

LEMMA FailStep ==
  ASSUME IInv, NEW p \in Procs, Fail(p)
  PROVE  IInv'
<1> DEFINE n == holds[p]
<1>0. StoreType
  BY DEF IInv, TypeOK, StoreType
<1>1. /\ pc[p] \in Inside /\ Return(p) /\ UNCHANGED <<now, listed>>
      /\ failures < MaxFailures /\ failures' = failures + 1 /\ UNCHANGED crashes
  BY DEF Fail, Fails, Inside
<1>2. failures' \in 0..MaxFailures
  BY <1>0, <1>1, Bounds DEF StoreType
<1>3. n \in Names
  BY <1>1, InSection
<1>4. CASE UNCHANGED store
  <2>1. StoreType'
    BY <1>0, <1>1, <1>2, <1>4 DEF StoreType, store
  <2>2. condemned'[n] => box'[n] # NoBox /\ box'[n].expires <= now
    BY <1>3, <1>4 DEF IInv, CondemnedOK, store
  <2> QED
    BY <1>1, <1>4, <2>1, <2>2, EndsSection DEF store
<1>5. CASE /\ pc[p] = "expire"
           /\ box' = [box EXCEPT ![n].expires = stamp[p]]
           /\ condemned' = [condemned EXCEPT ![n] = TRUE]
           /\ UNCHANGED guests
  <2>1. StoreType'
    BY <1>0, <1>1, <1>2, <1>5, ExpireEffect DEF StoreType
  <2> QED
    BY <1>1, <1>5, <2>1, ExpireEffect, EndsSection
<1>6. CASE /\ pc[p] = "unpin"
           /\ SetBox(n, [box[n] EXCEPT !.by = Nobody]) /\ UNCHANGED condemned
  <2>1. StoreType'
    BY <1>0, <1>1, <1>2, <1>6, UnpinEffect DEF StoreType, SetBox
  <2> QED
    BY <1>1, <1>6, <2>1, UnpinEffect, EndsSection
<1>7. CASE /\ \E left \in SUBSET guests[n] : guests' = [guests EXCEPT ![n] = left]
           /\ UNCHANGED <<box, condemned>>
  <2>1. guests' \in [Names -> SUBSET Guests]
    BY <1>0, <1>3, <1>7 DEF StoreType
  <2>2. StoreType'
    BY <1>0, <1>1, <1>2, <1>7, <2>1 DEF StoreType
  <2>3. condemned'[n] => box'[n] # NoBox /\ box'[n].expires <= now
    BY <1>3, <1>7 DEF IInv, CondemnedOK
  <2> QED
    BY <1>1, <1>7, <2>2, <2>3, EndsSection
<1> QED
  BY <1>4, <1>5, <1>6, <1>7 DEF Fail

LEMMA ReapStep ==
  ASSUME IInv, Reap
  PROVE  IInv'
<1> DEFINE p == Reaper
<1>0. p \in Procs /\ ProcsType /\ StoreType /\ ProcOK(p)
  BY DEF IInv, TypeOK, ProcsType, StoreType, Procs
<1>1. CASE Scan
  <2>1. ProcsType' /\ StoreType'
    BY <1>0, <1>1 DEF ProcsType, StoreType, Scan, Places, store, gate, bounds
  <2>2. SameElsewhere(p) /\ pc'[p] = "loop" /\ pc[p] = "idle"
    BY <1>0, <1>1 DEF ProcsType, SameElsewhere, Scan, gate
  <2>3. Mutex!Exclusive'
    BY <1>0, <1>1, <2>2, ExclusiveStays DEF Scan, gate
  <2>4. CondemnedOK'
    BY <1>0, <1>1, <2>2, CondemnedStays DEF Scan, store, gate, SameElsewhere
  <2>5. ProcOK(p)'
    BY <1>0, <1>1, <2>2, Outside DEF ProcOK, GateOK, Scan, gate, Inside
  <2> QED
    BY <1>0, <1>1, <2>1, <2>2, <2>3, <2>4, <2>5, Assemble DEF Scan, store
<1>2. CASE EndScan
  <2>1. ProcsType' /\ StoreType'
    BY <1>0, <1>2 DEF ProcsType, StoreType, EndScan, Goto, Places, store, gate, bounds
  <2>2. SameElsewhere(p) /\ pc'[p] = "idle" /\ pc[p] = "loop"
    BY <1>0, <1>2 DEF ProcsType, SameElsewhere, EndScan, Goto, gate
  <2>3. Mutex!Exclusive'
    BY <1>0, <1>2, <2>2, ExclusiveStays DEF EndScan, Goto, gate
  <2>4. CondemnedOK'
    BY <1>0, <1>2, <2>2, CondemnedStays DEF EndScan, Goto, store, gate, SameElsewhere
  <2>5. ProcOK(p)'
    BY <1>0, <1>2, <2>2, Outside DEF ProcOK, GateOK, EndScan, Goto, gate, Inside
  <2> QED
    BY <1>0, <1>2, <2>1, <2>2, <2>3, <2>4, <2>5, Assemble DEF EndScan, store
<1>3. CASE \E n \in Names : Visit(n)
  <2> PICK n \in Names : Visit(n)
    BY <1>3
  <2>0. /\ pc[p] = "loop" /\ UNCHANGED <<now, box, guests, condemned, seen, stamp, bounds>>
        /\ listed' = [listed EXCEPT ![n] = NoBox]
    BY DEF Visit, store
  <2>1. StoreType'
    BY <1>0, <2>0 DEF StoreType, bounds
  <2>2. CASE UNCHANGED <<gate, pc, call>>
    <3>1. ProcsType' /\ SameElsewhere(p) /\ Mutex!Exclusive'
      BY <1>0, <2>0, <2>2, ExclusiveStays DEF ProcsType, SameElsewhere, gate
    <3>2. CondemnedOK' /\ ProcOK(p)'
      BY <1>0, <2>0, <2>2, CondemnedStays, Outside DEF ProcOK, GateOK, gate, Inside
    <3> QED
      BY <1>0, <2>0, <2>1, <3>1, <3>2, Assemble
  <2>3. CASE /\ Mutex!Request(p, n) /\ pc' = [pc EXCEPT ![p] = "lock"]
             /\ call' = [call EXCEPT ![p] = Request("reap", NoTTL, FALSE, Nobody, NoGuest)]
    <3>1. GoodRequest(Request("reap", NoTTL, FALSE, Nobody, NoGuest))
      BY DEF GoodRequest, Request, Calls, NoTTL
    <3>2. ProcsType'
      BY <1>0, <2>0, <2>3, <3>1 DEF ProcsType, GoodRequest, Mutex!Request, Places
    <3>3. SameElsewhere(p) /\ pc'[p] = "lock" /\ wants'[p] = n /\ holds' = holds
          /\ GoodRequest(call'[p])
      BY <1>0, <2>0, <2>3, <3>1 DEF ProcsType, SameElsewhere, Mutex!Request
    <3>4. Mutex!Exclusive'
      BY <1>0, <3>3, ExclusiveStays
    <3>5. CondemnedOK'
      BY <1>0, <2>0, <3>3, CondemnedStays DEF SameElsewhere
    <3>6. GateOK(p)'
      BY <1>0, <2>0, <3>3, NameIsApart DEF ProcOK, GateOK, Inside
    <3>7. ProcOK(p)'
      BY <1>0, <3>3, <3>6, Outside DEF Inside
    <3> QED
      BY <1>0, <2>0, <2>1, <3>2, <3>3, <3>4, <3>5, <3>7, Assemble
  <2> QED
    BY <2>2, <2>3 DEF Visit
<1> QED
  BY <1>1, <1>2, <1>3 DEF Reap

LEMMA TickStep ==
  ASSUME IInv, Tick
  PROVE  IInv'
<1>1. now' = now + 1 /\ now' \in 0..MaxTime /\ now \in Nat
      /\ UNCHANGED <<box, guests, condemned, wants, holds, cancelled, pc, call, seen, stamp,
                      listed, failures, crashes>>
  BY Bounds DEF IInv, TypeOK, Tick, store, gate, procs, bounds
<1>2. TypeOK' /\ Mutex!Exclusive'
  BY <1>1 DEF IInv, TypeOK, Mutex!Exclusive
<1>3. CondemnedOK'
  <2> SUFFICES ASSUME NEW n \in Names, condemned[n]
               PROVE  box[n] # NoBox /\ box[n].expires <= now'
    BY <1>1 DEF IInv, CondemnedOK
  <2>1. box[n] # NoBox /\ box[n].expires <= now /\ box[n].expires \in Nat
    BY DEF IInv, TypeOK, CondemnedOK, Boxes
  <2> QED
    BY <1>1, <2>1
<1>4. ASSUME NEW p \in Procs PROVE ProcOK(p)'
  <2>1. GateOK(p) /\ stamp[p] \in Nat
    BY Bounds DEF IInv, TypeOK, ProcOK
  <2>2. GateOK(p)'
    BY <1>1, <2>1 DEF GateOK
  <2>3. CASE pc[p] \in Inside
    <3> DEFINE b == box[holds[p]]
    <3>1. SectionOK(p, b) /\ (b # NoBox => b.expires \in Nat)
      BY <2>3, InSection DEF Boxes
    <3>2. b.expires <= now /\ b # NoBox => b.expires <= now'
      BY <1>1, <3>1
    <3>3. SectionOK(p, b)'
      BY <1>1, <3>1, <3>2 DEF SectionOK, Pinned
    <3> QED
      BY <2>2, <3>3 DEF ProcOK
  <2>4. CASE pc[p] \notin Inside
    BY <1>1, <2>2, <2>4, Outside
  <2> QED
    BY <2>3, <2>4
<1> QED
  BY <1>2, <1>3, <1>4 DEF IInv

LEMMA CrashStep ==
  ASSUME IInv, Crash
  PROVE  IInv'
<1>1. TypeOK'
  BY Bounds DEF IInv, TypeOK, Crash, Places, store
<1>2. Mutex!Exclusive'
  BY DEF Mutex!Exclusive, Crash
<1>3. ASSUME NEW p \in Procs PROVE ProcOK(p)'
  BY Bounds DEF ProcOK, GateOK, SectionOK, Inside, IInv, TypeOK, Crash, store
<1>4. CondemnedOK'
  BY DEF IInv, CondemnedOK, Crash, store
<1> QED
  BY <1>1, <1>2, <1>3, <1>4 DEF IInv

LEMMA StutterStep ==
  ASSUME IInv, UNCHANGED vars
  PROVE  IInv'
<1>1. UNCHANGED <<now, box, guests, condemned, wants, holds, cancelled, pc, call, seen, stamp,
                  listed, failures, crashes>>
  BY DEF vars, store, gate, procs, bounds
<1>2. TypeOK' /\ Mutex!Exclusive' /\ CondemnedOK'
  BY <1>1 DEF IInv, TypeOK, Mutex!Exclusive, CondemnedOK
<1>3. \A p \in Procs : ProcOK(p)'
  BY <1>1 DEF IInv, ProcOK, GateOK, SectionOK, Pinned
<1> QED
  BY <1>2, <1>3 DEF IInv

LEMMA Inductive == IInv /\ [Next]_vars => IInv'
<1> SUFFICES ASSUME IInv, [Next]_vars PROVE IInv'
  OBVIOUS
<1>1. CASE \E p \in Requests, n \in Names, req \in ValidRequests : Call(p, n, req)
  BY <1>1, CallStep
<1>2. CASE \E p \in Procs : Cancel(p) \/ GiveUp(p) \/ Lock(p)
  BY <1>2, CancelStep, GiveUpStep, LockStep
<1>3. CASE \E p \in Procs : Section(p)
  BY <1>3, GetStep, WriteStep, ExpireStep, UnpinStep, NotifyStep, RemoveStep, FailStep
  DEF Section
<1> QED
  BY <1>1, <1>2, <1>3, ReapStep, TickStep, CrashStep, StutterStep DEF Next

-----------------------------------------------------------------------------
LEMMA Initially == Init => IInv
<1> SUFFICES ASSUME Init PROVE IInv
  OBVIOUS
<1> USE DEF Init, ProcsAtStart, Mutex!Init
<1>1. TypeOK
  BY Bounds DEF TypeOK, Places
<1>2. \A p \in Procs : ProcOK(p)
  BY DEF ProcOK, GateOK, SectionOK, Inside
<1>3. Mutex!Exclusive /\ CondemnedOK
  BY DEF Mutex!Exclusive, CondemnedOK
<1> QED
  BY <1>1, <1>2, <1>3 DEF IInv

LEMMA Invariance == Spec => []IInv
  BY Initially, Inductive, PTL DEF Spec

\* The variables keep their types, whatever calls fail and however often the
\* process dies.
THEOREM TypeCorrect == Spec => []TypeOK
<1>1. IInv => TypeOK
  BY DEF IInv
<1> QED
  BY <1>1, Invariance, PTL

\* What a handler read and decided under the gate is still true when its write
\* lands: nobody got in between.
THEOREM DecisionsHold == Spec => []DecidesOnCurrentState
<1>1. IInv => DecidesOnCurrentState
  <2> SUFFICES ASSUME IInv, NEW p \in Procs,
                      \/ pc[p] \in {"write", "expire"}
                      \/ call[p].op = "reap" /\ pc[p] = "notify"
               PROVE  seen[p] = box[holds[p]]
    BY DEF DecidesOnCurrentState
  <2> QED
    BY DEF IInv, ProcOK, SectionOK
<1> QED
  BY <1>1, Invariance, PTL

-----------------------------------------------------------------------------
(* What one step may do to a sandbox.                                        *)

Removal(n) ==
    box[n] # NoBox /\ box'[n] = NoBox => Expired(box[n]) /\ ~Pinned(box[n])

Attribution(n) ==
    /\ box[n] # NoBox /\ Pinned(box[n])
    /\ box'[n] # NoBox /\ Pinned(box'[n])
    => box'[n].by = box[n].by

Shrinking(n) ==
    condemned[n] /\ box[n] # NoBox /\ ~Pinned(box[n]) =>
        /\ guests'[n] \subseteq guests[n]
        /\ box'[n] # NoBox => box'[n].expires <= now' /\ ~Pinned(box'[n])

StepOK(n) == Removal(n) /\ Attribution(n) /\ Shrinking(n)

LEMMA Untouched ==
  ASSUME IInv, NEW n \in Names, box'[n] = box[n], guests'[n] \subseteq guests[n],
         now' \in {now, now + 1}
  PROVE  StepOK(n)
<1>1. condemned[n] => box[n] # NoBox /\ box[n].expires <= now
  BY DEF IInv, CondemnedOK
<1>2. box[n] # NoBox => box[n].expires \in Nat
  BY DEF IInv, TypeOK, Boxes
<1>3. now \in Nat
  BY Bounds DEF IInv, TypeOK
<1>4. condemned[n] => box[n].expires <= now'
  BY <1>1, <1>2, <1>3
<1> QED
  BY <1>4 DEF StepOK, Removal, Attribution, Shrinking, Pinned

LEMMA WriteOK ==
  ASSUME IInv, NEW p \in Procs, Write(p)
  PROVE  StepOK(holds[p])
<1> DEFINE n == holds[p]
           r == call[p]
           b == box[n]
<1>0. pc[p] = "write" /\ pc[p] \in Inside
  BY DEF Write, Inside
<1>1. /\ n \in Names /\ GoodRequest(r) /\ b \in Boxes \cup {NoBox} /\ stamp[p] \in Nat
      /\ SectionOK(p, b)
  BY <1>0, InSection
<1>2. /\ seen[p] = b
      /\ \/ r.op = "create" /\ b = NoBox
         \/ /\ r.op \in {"extend", "pin", "begin"} /\ b \in Boxes
            /\ Pinned(b) \/ b.expires > stamp[p]
  BY <1>0, <1>1 DEF SectionOK
<1>3. condemned[n] => b # NoBox /\ b.expires <= stamp[p]
  BY <1>0, <1>1 DEF IInv, CondemnedOK
<1>4. ~(condemned[n] /\ b # NoBox /\ ~Pinned(b))
  BY <1>1, <1>2, <1>3 DEF Boxes
<1>5. box'[n] # NoBox
  BY WriteEffect
<1>6. box \in [Names -> Boxes \cup {NoBox}]
  BY DEF IInv, TypeOK
<1>7. Attribution(n)
  <2>1. CASE r.op = "create"
    BY <1>2, <2>1 DEF Attribution
  <2>2. CASE r.op = "extend"
    <3>1. box' = [box EXCEPT ![n] = [b EXCEPT !.expires = stamp[p] + r.ttl]]
      BY <2>2 DEF Write, SetBox
    <3>2. box'[n] = [b EXCEPT !.expires = stamp[p] + r.ttl] /\ b \in Boxes
      BY <1>1, <1>2, <1>6, <2>2, <3>1
    <3> QED
      BY <3>2 DEF Attribution, Boxes
  <2>3. CASE r.op = "pin"
    <3>1. box' = [box EXCEPT ![n] = PinnedAs(b, b, r)]
      BY <1>2, <2>3 DEF Write, SetBox
    <3>2. box'[n] = PinnedAs(b, b, r) /\ b \in Boxes
      BY <1>1, <1>2, <1>6, <2>3, <3>1
    <3>3. CASE Pinned(b) = r.pinned
      BY <3>2, <3>3 DEF Attribution, PinnedAs
    <3>4. CASE Pinned(b) # r.pinned /\ Pinned(b)
      <4>1. r.by = Nobody
        BY <1>1, <2>3, <3>4 DEF GoodRequest, Calls
      <4>2. box'[n].by = Nobody
        BY <3>2, <3>4, <4>1 DEF PinnedAs, Boxes
      <4> QED
        BY <4>2 DEF Attribution, Pinned
    <3>5. CASE ~Pinned(b)
      BY <3>5 DEF Attribution
    <3> QED
      BY <3>3, <3>4, <3>5
  <2>4. CASE r.op = "begin"
    BY <2>4 DEF Write, Attribution
  <2> QED
    BY <1>2, <2>1, <2>2, <2>3, <2>4
<1> QED
  BY <1>4, <1>5, <1>7 DEF StepOK, Removal, Shrinking

LEMMA ExpiryOK ==
  ASSUME IInv, NEW p \in Procs, pc[p] = "expire", now' = now, UNCHANGED guests,
         box' = [box EXCEPT ![holds[p]].expires = stamp[p]],
         condemned' = [condemned EXCEPT ![holds[p]] = TRUE]
  PROVE  StepOK(holds[p])
<1> DEFINE n == holds[p]
<1>1. /\ box'[n] # NoBox /\ box'[n].expires <= now /\ box'[n].by = box[n].by
  BY ExpireEffect
<1>2. Removal(n) /\ Attribution(n)
  BY <1>1 DEF Removal, Attribution
<1>3. Shrinking(n)
  BY <1>1 DEF Shrinking, Pinned
<1> QED
  BY <1>2, <1>3 DEF StepOK

LEMMA UnpinningOK ==
  ASSUME IInv, NEW p \in Procs, pc[p] = "unpin", now' = now,
         SetBox(holds[p], [box[holds[p]] EXCEPT !.by = Nobody])
  PROVE  StepOK(holds[p])
<1>1. UNCHANGED guests
  BY DEF SetBox
<1> QED
  BY <1>1, UnpinEffect DEF StepOK, Removal, Attribution, Shrinking

LEMMA RemovalOK ==
  ASSUME IInv, NEW p \in Procs, Remove(p)
  PROVE  StepOK(holds[p])
<1>1. pc[p] = "remove" /\ pc[p] \in Inside /\ holds[p] \in Names
      /\ box[holds[p]].expires <= now /\ ~Pinned(box[holds[p]])
  BY InSection DEF Remove, Inside, SectionOK
<1>2. box'[holds[p]] = NoBox /\ guests'[holds[p]] = {}
  BY <1>1 DEF Remove, IInv, TypeOK
<1> QED
  BY <1>1, <1>2 DEF StepOK, Removal, Attribution, Shrinking, Expired

\* A section writes to no sandbox but the one it has locked.
LEMMA Elsewhere ==
  ASSUME IInv, NEW p \in Procs, Section(p), NEW n \in Names, n # holds[p]
  PROVE  box'[n] = box[n] /\ guests'[n] = guests[n] /\ now' = now
<1>0. box \in [Names -> Boxes \cup {NoBox}] /\ guests \in [Names -> SUBSET Guests]
  BY DEF IInv, TypeOK
<1>1. CASE Write(p)
  <2>1. box'[n] = box[n] /\ now' = now
    BY <1>1, WriteEffect DEF Write
  <2>2. \/ guests' = guests
        \/ guests' = [guests EXCEPT ![holds[p]] = guests[holds[p]] \cup {call[p].guest}]
    BY <1>1, WriteEffect DEF Write, SetBox
  <2> QED
    BY <1>0, <2>1, <2>2
<1>2. CASE Get(p) \/ Notify(p)
  BY <1>2 DEF Get, Notify, store
<1>3. CASE Expire(p) \/ Unpin(p) \/ Remove(p)
  BY <1>0, <1>3 DEF Expire, Unpin, Remove, SetBox
<1>4. CASE Fail(p)
  BY <1>0, <1>4 DEF Fail, SetBox, store
<1> QED
  BY <1>1, <1>2, <1>3, <1>4 DEF Section

LEMMA FailOK ==
  ASSUME IInv, NEW p \in Procs, Fail(p)
  PROVE  StepOK(holds[p])
<1> DEFINE n == holds[p]
<1>1. pc[p] \in Inside /\ now' = now
  BY DEF Fail, Inside
<1>2. n \in Names
  BY <1>1, InSection
<1>3. CASE UNCHANGED store
  BY <1>1, <1>2, <1>3, Untouched DEF store
<1>4. CASE /\ pc[p] = "expire" /\ box' = [box EXCEPT ![n].expires = stamp[p]]
           /\ condemned' = [condemned EXCEPT ![n] = TRUE] /\ UNCHANGED guests
  BY <1>1, <1>4, ExpiryOK
<1>5. CASE pc[p] = "unpin" /\ SetBox(n, [box[n] EXCEPT !.by = Nobody])
  BY <1>1, <1>5, UnpinningOK
<1>6. CASE /\ \E left \in SUBSET guests[n] : guests' = [guests EXCEPT ![n] = left]
           /\ UNCHANGED <<box, condemned>>
  <2>1. guests'[n] \subseteq guests[n]
    BY <1>2, <1>6 DEF IInv, TypeOK
  <2> QED
    BY <1>1, <1>2, <1>6, <2>1, Untouched
<1> QED
  BY <1>3, <1>4, <1>5, <1>6 DEF Fail

LEMMA EveryStepOK ==
  ASSUME IInv, [Next]_vars, NEW n \in Names
  PROVE  StepOK(n)
<1>1. CASE \E p \in Procs : Section(p)
  <2> PICK p \in Procs : Section(p)
    BY <1>1
  <2>1. CASE n # holds[p]
    BY <2>1, Elsewhere, Untouched
  <2>2. CASE n = holds[p]
    <3>1. CASE Get(p) \/ Notify(p)
      BY <3>1, Untouched DEF Get, Notify, store
    <3>2. CASE Expire(p)
      BY <2>2, <3>2, ExpiryOK DEF Expire
    <3>3. CASE Unpin(p)
      BY <2>2, <3>3, UnpinningOK DEF Unpin
    <3> QED
      BY <2>2, <3>1, <3>2, <3>3, WriteOK, RemovalOK, FailOK DEF Section
  <2> QED
    BY <2>1, <2>2
<1>2. CASE Tick
  BY <1>2, Untouched DEF Tick, store
<1>3. CASE ~Tick /\ ~\E p \in Procs : Section(p)
  <2>1. UNCHANGED <<now, box, guests>>
    BY <1>3 DEF Next, Call, Cancel, GiveUp, Lock, Reap, Scan, Visit, EndScan, Crash, vars, store
  <2> QED
    BY <2>1, Untouched
<1> QED
  BY <1>1, <1>2, <1>3

\* A sandbox disappears only when it is expired and not pinned, whoever removes
\* it and whatever happened since it was listed.
THEOREM RemovedOnlyWhenExpired == Spec => OnlyExpiredUnpinnedRemoved
<1>1. IInv /\ [Next]_vars =>
        \A n \in Names : box[n] # NoBox /\ box'[n] = NoBox =>
            Expired(box[n]) /\ ~Pinned(box[n])
  BY EveryStepOK DEF StepOK, Removal
<1> QED
  BY <1>1, Invariance, PTL DEF Spec, OnlyExpiredUnpinnedRemoved

\* Who pinned a sandbox does not change while it stays pinned.
THEOREM PinnerKept == Spec => AttributionKept
<1>1. IInv /\ [Next]_vars =>
        \A n \in Names :
            /\ box[n] # NoBox /\ Pinned(box[n])
            /\ box'[n] # NoBox /\ Pinned(box'[n])
            => box'[n].by = box[n].by
  BY EveryStepOK DEF StepOK, Attribution
<1> QED
  BY <1>1, Invariance, PTL DEF Spec, AttributionKept

\* Once an explicit delete has expired and unpinned a sandbox it only shrinks:
\* no extend or pin revives it and no guest is added, whichever calls fail.
THEOREM NoRevival == Spec => CondemnedOnlyShrinks
<1>1. IInv /\ [Next]_vars =>
        \A n \in Names :
            condemned[n] /\ box[n] # NoBox /\ ~Pinned(box[n]) =>
                /\ guests'[n] \subseteq guests[n]
                /\ box'[n] # NoBox => box'[n].expires <= now' /\ ~Pinned(box'[n])
  BY EveryStepOK DEF StepOK, Shrinking
<1> QED
  BY <1>1, Invariance, PTL DEF Spec, CondemnedOnlyShrinks
=============================================================================
