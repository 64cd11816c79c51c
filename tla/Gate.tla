-------------------------------- MODULE Gate --------------------------------
(***************************************************************************)
(* internal/compute/gate.go: a context-aware mutex keyed by sandbox name.  *)
(*                                                                         *)
(* The map under g.mu is entry; a keyedLock is an element of Locks with    *)
(* its reference count and its one-slot token channel.  Every section      *)
(* under g.mu is one step, and so is every channel operation: between      *)
(* them any other goroutine may run.                                       *)
(***************************************************************************)
EXTENDS Naturals, FiniteSets

CONSTANTS
    Callers,    \* goroutines that call Lock
    Keys,       \* sandbox names
    Locks,      \* keyedLock objects the heap can hold
    NoKey,      \* not a key
    NoLock      \* not a lock object: a missing map entry

ASSUME CallersFinite == IsFiniteSet(Callers)
ASSUME NoKeyIsNoKey == NoKey \notin Keys
ASSUME NoLockIsNoLock == NoLock \notin Locks

VARIABLES
    entry,      \* g.locks
    refs,       \* keyedLock.refs
    token,      \* number of tokens in keyedLock.token, a channel of capacity 1
    pc,         \* where each caller is
    key,        \* the key argument of each caller's call, NoKey outside one
    lock,       \* the lock whose channel the caller captured
    cancelled   \* the context of the caller's call has ended

vars == <<entry, refs, token, pc, key, lock, cancelled>>

\* "select": at the select of Lock; "held": Lock returned the unlock function;
\* "release": about to run release(key).
Places == {"idle", "select", "held", "release"}

TypeOK ==
    /\ entry \in [Keys -> Locks \cup {NoLock}]
    /\ refs \in [Locks -> Nat]
    /\ token \in [Locks -> {0, 1}]
    /\ pc \in [Callers -> Places]
    /\ key \in [Callers -> Keys \cup {NoKey}]
    /\ lock \in [Callers -> Locks \cup {NoLock}]
    /\ cancelled \in [Callers -> BOOLEAN]

Init ==
    /\ entry = [k \in Keys |-> NoLock]
    /\ refs = [l \in Locks |-> 0]
    /\ token = [l \in Locks |-> 0]
    /\ pc = [c \in Callers |-> "idle"]
    /\ key = [c \in Callers |-> NoKey]
    /\ lock = [c \in Callers |-> NoLock]
    /\ cancelled = [c \in Callers |-> FALSE]

\* Callers between their first g.mu section and their last one, for key k.
Users(k) == {c \in Callers : pc[c] # "idle" /\ key[c] = k}

\* A lock object the allocator may hand out: nothing refers to it.
Fresh(l) ==
    /\ \A k \in Keys : entry[k] # l
    /\ \A c \in Callers : lock[c] # l

\* Lock up to g.mu.Unlock: join the key's lock, or create it with its token.
Join(c, k) ==
    /\ entry[k] # NoLock
    /\ refs' = [refs EXCEPT ![entry[k]] = @ + 1]
    /\ lock' = [lock EXCEPT ![c] = entry[k]]
    /\ UNCHANGED <<entry, token>>

Create(c, k) ==
    /\ entry[k] = NoLock
    /\ \E l \in Locks :
        /\ Fresh(l)
        /\ entry' = [entry EXCEPT ![k] = l]
        /\ refs' = [refs EXCEPT ![l] = 1]
        /\ token' = [token EXCEPT ![l] = 1]
        /\ lock' = [lock EXCEPT ![c] = l]

Enter(c, k) ==
    /\ pc[c] = "idle"
    /\ pc' = [pc EXCEPT ![c] = "select"]
    /\ key' = [key EXCEPT ![c] = k]
    /\ Join(c, k) \/ Create(c, k)
    /\ UNCHANGED cancelled

\* The caller's context ends: while it waits, or while it holds the lock.
Cancel(c) ==
    /\ pc[c] \in {"select", "held"}
    /\ ~cancelled[c]
    /\ cancelled' = [cancelled EXCEPT ![c] = TRUE]
    /\ UNCHANGED <<entry, refs, token, pc, key, lock>>

\* case <-token.  With the context also ended, select chooses either branch.
Take(c) ==
    /\ pc[c] = "select"
    /\ token[lock[c]] > 0
    /\ token' = [token EXCEPT ![lock[c]] = @ - 1]
    /\ pc' = [pc EXCEPT ![c] = "held"]
    /\ UNCHANGED <<entry, refs, key, lock, cancelled>>

\* Fault: a default branch in place of ctx.Done, so a busy lock is an error.
AbandonWhenBusy(c) ==
    /\ pc[c] = "select"
    /\ token[lock[c]] = 0
    /\ pc' = [pc EXCEPT ![c] = "release"]
    /\ cancelled' = [cancelled EXCEPT ![c] = FALSE]
    /\ UNCHANGED <<entry, refs, token, key, lock>>

\* case <-ctx.Done(): the reference is returned by the release that follows.
Abandon(c) ==
    /\ pc[c] = "select"
    /\ cancelled[c]
    /\ pc' = [pc EXCEPT ![c] = "release"]
    /\ cancelled' = [cancelled EXCEPT ![c] = FALSE]
    /\ UNCHANGED <<entry, refs, token, key, lock>>

\* Fault: unlock releases the reference but never sends the token back.
UnlockKeepingToken(c) ==
    /\ pc[c] = "held"
    /\ pc' = [pc EXCEPT ![c] = "release"]
    /\ cancelled' = [cancelled EXCEPT ![c] = FALSE]
    /\ UNCHANGED <<entry, refs, token, key, lock>>

\* The unlock function's send: it blocks while the channel is full.
Unlock(c) ==
    /\ pc[c] = "held"
    /\ token[lock[c]] = 0
    /\ token' = [token EXCEPT ![lock[c]] = @ + 1]
    /\ pc' = [pc EXCEPT ![c] = "release"]
    /\ cancelled' = [cancelled EXCEPT ![c] = FALSE]
    /\ UNCHANGED <<entry, refs, key, lock>>

\* release(key) finds the lock by key again, not by the captured object.
Release(c) ==
    LET l == entry[key[c]] IN
    /\ pc[c] = "release"
    /\ IF l = NoLock
       THEN UNCHANGED <<refs, entry>>
       ELSE /\ refs' = [refs EXCEPT ![l] = @ - 1]
            /\ entry' = IF refs[l] = 1
                        THEN [entry EXCEPT ![key[c]] = NoLock]
                        ELSE entry
    /\ pc' = [pc EXCEPT ![c] = "idle"]
    /\ key' = [key EXCEPT ![c] = NoKey]
    /\ lock' = [lock EXCEPT ![c] = NoLock]
    /\ UNCHANGED <<token, cancelled>>

Step(c) ==
    \/ \E k \in Keys : Enter(c, k)
    \/ Cancel(c)
    \/ Take(c)
    \/ Abandon(c)
    \/ Unlock(c)
    \/ Release(c)

Next == \E c \in Callers : Step(c)

\* A channel's receivers queue in order, so a waiter is served again and again
\* offered a token; handlers return, so a holder unlocks.
Fairness ==
    \A c \in Callers :
        /\ SF_vars(Take(c))
        /\ WF_vars(Unlock(c))
        /\ WF_vars(Release(c))

Spec == Init /\ [][Next]_vars

LiveSpec == Spec /\ Fairness

-----------------------------------------------------------------------------
Holder(l) == {c \in Callers : pc[c] = "held" /\ lock[c] = l}

\* A caller inside Lock works on the lock the map still names for its key: no
\* release drops an entry another caller has captured, so two callers of one
\* key never queue on two channels (gate.go:47-59).
OnCurrentLock ==
    \A c \in Callers : pc[c] # "idle" => lock[c] = entry[key[c]]

\* The reference count is the number of callers inside, so the entry goes
\* away exactly when the last one has left: no leak and no early delete.
RefsExact ==
    \A k \in Keys :
        /\ entry[k] = NoLock <=> Users(k) = {}
        /\ entry[k] # NoLock => refs[entry[k]] = Cardinality(Users(k))

\* The token is either in the channel or with the one holder, never both and
\* never neither: unlock's send cannot block and no wake-up is lost.
TokenOrHolder ==
    \A k \in Keys :
        entry[k] # NoLock =>
            /\ token[entry[k]] = 0 => \E c \in Callers : Holder(entry[k]) = {c}
            /\ token[entry[k]] = 1 => Holder(entry[k]) = {}

\* The keyed mutex this code implements: Release is a stuttering step of it.
Mutex == INSTANCE KeyedMutex WITH
    wants <- [c \in Callers |-> IF pc[c] = "select" THEN key[c] ELSE NoKey],
    holds <- [c \in Callers |-> IF pc[c] = "held" THEN key[c] ELSE NoKey]

\* Every behaviour of the gate is a behaviour of the keyed mutex.
ImplementsMutex == Mutex!Spec

\* Two goroutines are never inside the section of one sandbox (gate.go:8).
MutualExclusion == Mutex!Exclusive

\* Every Lock call returns: no waiter is forgotten when callers of the same
\* key come, go and give up around it.
LockReturns == Mutex!EveryRequestEnds
=============================================================================
