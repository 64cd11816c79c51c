----------------------------- MODULE KeyedMutex -----------------------------
(***************************************************************************)
(* What the rest of the compute package relies on when it calls            *)
(* gate.Lock(ctx, sandbox): a mutex per key whose waiters may give up when *)
(* their context ends.  Module Gate implements it; SandboxService is built *)
(* on it.                                                                  *)
(***************************************************************************)
CONSTANTS
    Callers,    \* goroutines that call Lock
    Keys,       \* sandbox names
    NoKey       \* not a key

VARIABLES
    wants,      \* wants[c]: the key c waits for, or NoKey
    holds,      \* holds[c]: the key c holds, or NoKey
    cancelled   \* cancelled[c]: the context of c's call has ended

kmVars == <<wants, holds, cancelled>>

Idle(c) == wants[c] = NoKey /\ holds[c] = NoKey

Init ==
    /\ wants = [c \in Callers |-> NoKey]
    /\ holds = [c \in Callers |-> NoKey]
    /\ cancelled = [c \in Callers |-> FALSE]

Request(c, k) ==
    /\ Idle(c)
    /\ wants' = [wants EXCEPT ![c] = k]
    /\ UNCHANGED <<holds, cancelled>>

Cancel(c) ==
    /\ ~Idle(c)
    /\ ~cancelled[c]
    /\ cancelled' = [cancelled EXCEPT ![c] = TRUE]
    /\ UNCHANGED <<wants, holds>>

Grant(c) ==
    /\ wants[c] # NoKey
    /\ \A d \in Callers : holds[d] # wants[c]
    /\ holds' = [holds EXCEPT ![c] = wants[c]]
    /\ wants' = [wants EXCEPT ![c] = NoKey]
    /\ UNCHANGED cancelled

\* Only a caller whose context ended leaves without the lock.
GiveUp(c) ==
    /\ wants[c] # NoKey
    /\ cancelled[c]
    /\ wants' = [wants EXCEPT ![c] = NoKey]
    /\ cancelled' = [cancelled EXCEPT ![c] = FALSE]
    /\ UNCHANGED holds

Free(c) ==
    /\ holds[c] # NoKey
    /\ holds' = [holds EXCEPT ![c] = NoKey]
    /\ cancelled' = [cancelled EXCEPT ![c] = FALSE]
    /\ UNCHANGED wants

Next ==
    \E c \in Callers :
        \/ \E k \in Keys : Request(c, k)
        \/ Cancel(c)
        \/ Grant(c)
        \/ GiveUp(c)
        \/ Free(c)

Spec == Init /\ [][Next]_kmVars

-----------------------------------------------------------------------------
\* No two callers are inside the section of one key (gate.Lock's contract).
Exclusive ==
    \A c, d \in Callers : holds[c] # NoKey /\ holds[c] = holds[d] => c = d

\* Every Lock call returns, with the lock or with the context's error.
EveryRequestEnds == \A c \in Callers : wants[c] # NoKey ~> wants[c] = NoKey
=============================================================================
