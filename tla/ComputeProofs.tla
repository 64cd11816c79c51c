--------------------------- MODULE ComputeProofs ----------------------------
(***************************************************************************)
(* The compute service beside its sandboxes: the gate that serializes the  *)
(* calls on one sandbox, and the router to the two backends.               *)
(***************************************************************************)
EXTENDS Gate, BackendRouter, FiniteSetTheorems, TLAPS

-----------------------------------------------------------------------------
(***************************************************************************)
(* For any number of callers, keys and lock objects: the gate's reference  *)
(* counts are exact, no two callers hold one key, and every step of the    *)
(* gate is a step of the keyed mutex or leaves it unchanged.               *)
(***************************************************************************)

\* A caller's arguments and captured lock go together with its place.
InCall ==
    \A c \in Callers :
        /\ pc[c] = "idle" => key[c] = NoKey /\ lock[c] = NoLock
        /\ pc[c] # "idle" => key[c] \in Keys /\ lock[c] \in Locks

\* Two keys never share a lock object.
EntriesDistinct ==
    \A j, k \in Keys : entry[j] # NoLock /\ entry[j] = entry[k] => j = k

\* A holder has taken the token out of the channel.
HeldTakesToken ==
    \A c \in Callers : pc[c] = "held" => token[lock[c]] = 0

OneHolder ==
    \A c, d \in Callers :
        pc[c] = "held" /\ pc[d] = "held" /\ key[c] = key[d] => c = d

\* An empty channel has a holder who will fill it.
MissingTokenIsHeld ==
    \A k \in Keys :
        entry[k] # NoLock /\ token[entry[k]] = 0 =>
            \E c \in Callers : pc[c] = "held" /\ key[c] = k

IInv ==
    /\ TypeOK
    /\ InCall
    /\ OnCurrentLock
    /\ EntriesDistinct
    /\ RefsExact
    /\ HeldTakesToken
    /\ OneHolder
    /\ MissingTokenIsHeld

-----------------------------------------------------------------------------
(* Counting the users of a key.                                              *)

LEMMA UsersFinite ==
    ASSUME NEW k \in Keys
    PROVE  IsFiniteSet(Users(k)) /\ Cardinality(Users(k)) \in Nat
<1>1. Users(k) \subseteq Callers
  BY DEF Users
<1> QED
  BY <1>1, CallersFinite, FS_Subset, FS_CardinalityType

\* A finite set with one more element counts one more.
LEMMA AddOne ==
    ASSUME NEW S, IsFiniteSet(S), NEW x, x \notin S
    PROVE  Cardinality(S \cup {x}) = Cardinality(S) + 1
BY FS_AddElement

\* With one element less it counts one less, and is empty from one.
LEMMA RemoveOne ==
    ASSUME NEW S, IsFiniteSet(S), NEW x \in S
    PROVE  /\ Cardinality(S \ {x}) = Cardinality(S) - 1
           /\ Cardinality(S) \in Nat \ {0}
           /\ Cardinality(S) = 1 <=> S \ {x} = {}
<1>1. /\ Cardinality(S \ {x}) = Cardinality(S) - 1
      /\ IsFiniteSet(S \ {x})
  BY FS_RemoveElement
<1>2. Cardinality(S) \in Nat /\ Cardinality(S \ {x}) \in Nat
  BY <1>1, FS_CardinalityType
<1>3. Cardinality(S) # 0
  BY FS_EmptySet
<1>4. Cardinality(S \ {x}) = 0 <=> S \ {x} = {}
  BY <1>1, FS_EmptySet
<1> QED
  BY <1>1, <1>2, <1>3, <1>4

-----------------------------------------------------------------------------
LEMMA InitIInv == Init => IInv
<1> SUFFICES ASSUME Init PROVE IInv
  OBVIOUS
<1>1. TypeOK
  BY DEF Init, TypeOK, Places
<1>2. RefsExact
  BY FS_EmptySet DEF Init, RefsExact, Users
<1> QED
  BY <1>1, <1>2 DEF Init, IInv, InCall, OnCurrentLock, EntriesDistinct,
     HeldTakesToken, OneHolder, MissingTokenIsHeld

LEMMA EnterKeepsIInv ==
    ASSUME IInv, NEW c \in Callers, NEW k \in Keys, Enter(c, k)
    PROVE  IInv'
<1> USE NoKeyIsNoKey, NoLockIsNoLock
<1>u. /\ Users(k)' = Users(k) \cup {c}
      /\ c \notin Users(k)
      /\ \A j \in Keys : j # k => Users(j)' = Users(j)
  BY DEF Enter, Users, IInv, TypeOK, InCall, Places
<1>f. \A j \in Keys : IsFiniteSet(Users(j)) /\ Cardinality(Users(j)) \in Nat
  BY UsersFinite
<1>a. Cardinality(Users(k)') = Cardinality(Users(k)) + 1
  BY <1>u, <1>f, AddOne
<1>1. CASE Join(c, k)
  <2>1. TypeOK'
    BY <1>1 DEF Enter, Join, IInv, TypeOK, Places
  <2>2. InCall' /\ OnCurrentLock' /\ EntriesDistinct'
    BY <1>1 DEF Enter, Join, IInv, TypeOK, InCall, OnCurrentLock, EntriesDistinct
  <2>3. RefsExact'
    <3> SUFFICES ASSUME NEW j \in Keys
                 PROVE  /\ entry'[j] = NoLock <=> Users(j)' = {}
                        /\ entry'[j] # NoLock =>
                             refs'[entry'[j]] = Cardinality(Users(j)')
      BY DEF RefsExact
    <3>1. CASE j = k
      BY <3>1, <1>1, <1>u, <1>a, <1>f DEF Join, IInv, TypeOK, RefsExact
    <3>2. CASE j # k
      <4>1. entry[j] # NoLock => entry[j] # entry[k]
        BY <3>2 DEF IInv, EntriesDistinct
      <4>2. entry'[j] = entry[j]
        BY <1>1 DEF Join
      <4>3. entry[j] # NoLock => refs'[entry[j]] = refs[entry[j]]
        BY <4>1, <1>1 DEF Join, IInv, TypeOK
      <4> QED
        BY <4>2, <4>3, <3>2, <1>u DEF IInv, RefsExact
    <3> QED
      BY <3>1, <3>2
  <2>4. HeldTakesToken' /\ OneHolder' /\ MissingTokenIsHeld'
    BY <1>1 DEF Enter, Join, IInv, TypeOK, InCall, HeldTakesToken, OneHolder,
       MissingTokenIsHeld
  <2> QED
    BY <2>1, <2>2, <2>3, <2>4 DEF IInv
<1>2. CASE Create(c, k)
  <2>l. PICK l \in Locks :
          /\ Fresh(l)
          /\ entry' = [entry EXCEPT ![k] = l]
          /\ refs' = [refs EXCEPT ![l] = 1]
          /\ token' = [token EXCEPT ![l] = 1]
          /\ lock' = [lock EXCEPT ![c] = l]
    BY <1>2 DEF Create
  <2>n. entry[k] = NoLock /\ Users(k) = {}
    BY <1>2 DEF Create, IInv, RefsExact
  <2>1. TypeOK'
    BY <2>l DEF Enter, IInv, TypeOK, Places
  <2>2. InCall' /\ EntriesDistinct'
    BY <2>l DEF Enter, Fresh, IInv, TypeOK, InCall, EntriesDistinct
  <2>3. OnCurrentLock'
    <3> SUFFICES ASSUME NEW d \in Callers, pc'[d] # "idle"
                 PROVE  lock'[d] = entry'[key'[d]]
      BY DEF OnCurrentLock
    <3>1. CASE d = c
      BY <3>1, <2>l DEF Enter, IInv, TypeOK
    <3>2. CASE d # c
      <4>1. pc[d] # "idle" /\ key'[d] = key[d] /\ lock'[d] = lock[d]
        BY <3>2, <2>l DEF Enter, IInv, TypeOK
      <4>2. key[d] \in Keys /\ key[d] # k
        BY <4>1, <2>n DEF Users, IInv, InCall
      <4> QED
        BY <4>1, <4>2, <2>l DEF IInv, TypeOK, OnCurrentLock
    <3> QED
      BY <3>1, <3>2
  <2>4. RefsExact'
    <3> SUFFICES ASSUME NEW j \in Keys
                 PROVE  /\ entry'[j] = NoLock <=> Users(j)' = {}
                        /\ entry'[j] # NoLock =>
                             refs'[entry'[j]] = Cardinality(Users(j)')
      BY DEF RefsExact
    <3>1. CASE j = k
      <4>1. Cardinality(Users(k)') = 1
        BY <1>a, <2>n, FS_EmptySet
      <4> QED
        BY <3>1, <4>1, <1>u, <2>l DEF IInv, TypeOK
    <3>2. CASE j # k
      BY <3>2, <2>l, <1>u DEF Fresh, IInv, TypeOK, RefsExact
    <3> QED
      BY <3>1, <3>2
  <2>5. HeldTakesToken' /\ OneHolder'
    BY <2>l DEF Enter, Fresh, IInv, TypeOK, InCall, HeldTakesToken, OneHolder
  <2>6. MissingTokenIsHeld'
    BY <2>l DEF Enter, Fresh, IInv, TypeOK, MissingTokenIsHeld
  <2> QED
    BY <2>1, <2>2, <2>3, <2>4, <2>5, <2>6 DEF IInv
<1> QED
  BY <1>1, <1>2 DEF Enter

\* A step that changes neither the map nor who is inside keeps the counts.
LEMMA CountsUnchanged ==
    ASSUME RefsExact, UNCHANGED <<entry, refs, key>>,
           \A c \in Callers : pc'[c] = "idle" <=> pc[c] = "idle"
    PROVE  RefsExact'
<1>1. \A k \in Keys : Users(k)' = Users(k)
  BY DEF Users
<1> QED
  BY <1>1 DEF RefsExact

LEMMA TakeKeepsIInv ==
    ASSUME IInv, NEW c \in Callers, Take(c)
    PROVE  IInv'
<1> USE NoKeyIsNoKey, NoLockIsNoLock
<1>1. TypeOK'
  BY DEF Take, IInv, TypeOK, InCall, Places
<1>2. InCall' /\ OnCurrentLock' /\ EntriesDistinct'
  BY DEF Take, IInv, TypeOK, InCall, OnCurrentLock, EntriesDistinct
<1>3. RefsExact'
  BY CountsUnchanged DEF Take, IInv, TypeOK
<1>k. key[c] \in Keys /\ lock[c] \in Locks /\ lock[c] = entry[key[c]]
  BY DEF Take, IInv, InCall, OnCurrentLock
<1>4. \A d \in Callers : pc[d] = "held" => key[d] # key[c] /\ lock[d] # lock[c]
  <2> SUFFICES ASSUME NEW d \in Callers, pc[d] = "held"
               PROVE  key[d] # key[c] /\ lock[d] # lock[c]
    OBVIOUS
  <2>1. token[lock[d]] = 0 /\ lock[d] = entry[key[d]]
    BY DEF IInv, HeldTakesToken, OnCurrentLock
  <2> QED
    BY <2>1, <1>k DEF Take
<1>5. HeldTakesToken' /\ OneHolder'
  BY <1>4, <1>k DEF Take, IInv, TypeOK, HeldTakesToken, OneHolder
<1>6. MissingTokenIsHeld'
  BY <1>k DEF Take, IInv, TypeOK, EntriesDistinct, MissingTokenIsHeld
<1> QED
  BY <1>1, <1>2, <1>3, <1>5, <1>6 DEF IInv

LEMMA UnlockKeepsIInv ==
    ASSUME IInv, NEW c \in Callers, Unlock(c)
    PROVE  IInv'
<1> USE NoKeyIsNoKey, NoLockIsNoLock
<1>1. TypeOK'
  BY DEF Unlock, IInv, TypeOK, InCall, Places
<1>2. InCall' /\ OnCurrentLock' /\ EntriesDistinct'
  BY DEF Unlock, IInv, TypeOK, InCall, OnCurrentLock, EntriesDistinct
<1>3. RefsExact'
  BY CountsUnchanged DEF Unlock, IInv, TypeOK
<1>k. key[c] \in Keys /\ lock[c] \in Locks /\ lock[c] = entry[key[c]]
  BY DEF Unlock, IInv, InCall, OnCurrentLock
<1>4. \A d \in Callers \ {c} : pc[d] = "held" => lock[d] # lock[c]
  <2> SUFFICES ASSUME NEW d \in Callers \ {c}, pc[d] = "held"
               PROVE  lock[d] # lock[c]
    OBVIOUS
  <2>1. key[d] # key[c] /\ key[d] \in Keys /\ lock[d] = entry[key[d]]
    BY DEF Unlock, IInv, OneHolder, InCall, OnCurrentLock
  <2> QED
    BY <2>1, <1>k DEF IInv, EntriesDistinct
<1>5. HeldTakesToken'
  BY <1>4 DEF Unlock, IInv, TypeOK, HeldTakesToken
<1>6. OneHolder'
  BY DEF Unlock, IInv, TypeOK, OneHolder
<1>7. MissingTokenIsHeld'
  BY <1>k DEF Unlock, IInv, TypeOK, MissingTokenIsHeld
<1> QED
  BY <1>1, <1>2, <1>3, <1>5, <1>6, <1>7 DEF IInv

LEMMA ReleaseKeepsIInv ==
    ASSUME IInv, NEW c \in Callers, Release(c)
    PROVE  IInv'
<1> USE NoKeyIsNoKey, NoLockIsNoLock
<1>p. PICK k \in Keys, l \in Locks : k = key[c] /\ l = entry[key[c]] /\ l = lock[c]
  BY DEF Release, IInv, InCall, OnCurrentLock
<1>k. key[c] = k /\ entry[k] = l /\ lock[c] = l /\ l # NoLock
  BY <1>p
<1>r. /\ refs' = [refs EXCEPT ![l] = @ - 1]
      /\ entry' = IF refs[l] = 1 THEN [entry EXCEPT ![k] = NoLock] ELSE entry
      /\ pc' = [pc EXCEPT ![c] = "idle"]
      /\ key' = [key EXCEPT ![c] = NoKey]
      /\ lock' = [lock EXCEPT ![c] = NoLock]
      /\ UNCHANGED <<token, cancelled>>
      /\ pc[c] = "release"
  BY <1>p, <1>k DEF Release
<1>u. /\ c \in Users(k)
      /\ Users(k)' = Users(k) \ {c}
      /\ \A j \in Keys : j # k => Users(j)' = Users(j)
  BY <1>r, <1>k DEF Users, IInv, TypeOK
<1>f. IsFiniteSet(Users(k))
  BY <1>k, UsersFinite
<1>c. /\ Cardinality(Users(k)') = Cardinality(Users(k)) - 1
      /\ Cardinality(Users(k)) \in Nat \ {0}
      /\ Cardinality(Users(k)) = 1 <=> Users(k)' = {}
  BY <1>u, <1>f, RemoveOne
<1>n. refs[l] = Cardinality(Users(k))
  BY <1>k DEF IInv, RefsExact
<1>1. TypeOK'
  <2>1. refs[l] - 1 \in Nat
    BY <1>n, <1>c
  <2> QED
    BY <2>1, <1>r, <1>k DEF IInv, TypeOK, Places
<1>2. InCall'
  BY <1>r DEF IInv, TypeOK, InCall
<1>3. EntriesDistinct'
  BY <1>r, <1>k DEF IInv, TypeOK, EntriesDistinct
<1>4. ASSUME NEW d \in Callers, pc'[d] # "idle"
      PROVE  /\ d # c
             /\ pc[d] # "idle" /\ pc'[d] = pc[d]
             /\ key'[d] = key[d] /\ lock'[d] = lock[d]
             /\ key[d] \in Keys
             /\ entry'[key[d]] = entry[key[d]]
  <2>1. d # c /\ pc[d] # "idle" /\ pc'[d] = pc[d] /\ key'[d] = key[d] /\ lock'[d] = lock[d]
    BY <1>4, <1>r DEF IInv, TypeOK
  <2>2. key[d] \in Keys
    BY <2>1 DEF IInv, InCall
  <2>3. CASE refs[l] = 1
    <3>1. Users(k)' = {}
      BY <2>3, <1>n, <1>c
    <3>2. key[d] # k
      BY <3>1, <2>1, <1>4, <1>r DEF Users
    <3> QED
      BY <3>2, <2>1, <2>2, <2>3, <1>r, <1>k DEF IInv, TypeOK
  <2>4. CASE refs[l] # 1
    BY <2>4, <2>1, <2>2, <1>r
  <2> QED
    BY <2>1, <2>2, <2>3, <2>4
<1>5. OnCurrentLock'
  BY <1>4 DEF IInv, OnCurrentLock
<1>6. RefsExact'
  <2> SUFFICES ASSUME NEW j \in Keys
               PROVE  /\ entry'[j] = NoLock <=> Users(j)' = {}
                      /\ entry'[j] # NoLock =>
                           refs'[entry'[j]] = Cardinality(Users(j)')
    BY DEF RefsExact
  <2>1. CASE j = k
    <3>1. CASE refs[l] = 1
      BY <2>1, <3>1, <1>r, <1>k, <1>n, <1>c DEF IInv, TypeOK
    <3>2. CASE refs[l] # 1
      <4>1. entry'[j] = l /\ Users(j)' # {}
        BY <2>1, <3>2, <1>r, <1>k, <1>n, <1>c
      <4>2. refs'[l] = Cardinality(Users(k)')
        BY <1>r, <1>k, <1>n, <1>c DEF IInv, TypeOK
      <4> QED
        BY <4>1, <4>2, <2>1, <1>k
    <3> QED
      BY <3>1, <3>2
  <2>2. CASE j # k
    <3>1. entry'[j] = entry[j] /\ entry[j] # l
      BY <2>2, <1>r, <1>k DEF IInv, TypeOK, EntriesDistinct
    <3>2. entry[j] # NoLock => refs'[entry[j]] = refs[entry[j]]
      BY <3>1, <1>r DEF IInv, TypeOK
    <3> QED
      BY <3>1, <3>2, <2>2, <1>u DEF IInv, RefsExact
  <2> QED
    BY <2>1, <2>2
<1>7. HeldTakesToken' /\ OneHolder'
  BY <1>4, <1>r DEF IInv, HeldTakesToken, OneHolder
<1>8. MissingTokenIsHeld'
  BY <1>r, <1>k DEF IInv, TypeOK, MissingTokenIsHeld
<1> QED
  BY <1>1, <1>2, <1>3, <1>5, <1>6, <1>7, <1>8 DEF IInv

LEMMA CancelKeepsIInv ==
    ASSUME IInv, NEW c \in Callers, Cancel(c) \/ Abandon(c)
    PROVE  IInv'
<1>1. TypeOK'
  BY DEF Cancel, Abandon, IInv, TypeOK, Places
<1>2. RefsExact'
  BY CountsUnchanged DEF Cancel, Abandon, IInv, TypeOK
<1> QED
  BY <1>1, <1>2 DEF Cancel, Abandon, IInv, TypeOK, InCall, OnCurrentLock,
     EntriesDistinct, HeldTakesToken, OneHolder, MissingTokenIsHeld

LEMMA NextKeepsIInv == IInv /\ [Next]_vars => IInv'
<1> SUFFICES ASSUME IInv, [Next]_vars PROVE IInv'
  OBVIOUS
<1>1. ASSUME NEW c \in Callers, NEW k \in Keys, Enter(c, k) PROVE IInv'
  BY <1>1, EnterKeepsIInv
<1>2. ASSUME NEW c \in Callers, Cancel(c) \/ Abandon(c) PROVE IInv'
  BY <1>2, CancelKeepsIInv
<1>3. ASSUME NEW c \in Callers, Take(c) PROVE IInv'
  BY <1>3, TakeKeepsIInv
<1>4. ASSUME NEW c \in Callers, Unlock(c) PROVE IInv'
  BY <1>4, UnlockKeepsIInv
<1>5. ASSUME NEW c \in Callers, Release(c) PROVE IInv'
  BY <1>5, ReleaseKeepsIInv
<1>6. CASE UNCHANGED vars
  <2>1. RefsExact'
    BY <1>6, CountsUnchanged DEF vars, IInv
  <2> QED
    BY <1>6, <2>1 DEF vars, IInv, TypeOK, InCall, OnCurrentLock,
       EntriesDistinct, HeldTakesToken, OneHolder, MissingTokenIsHeld
<1> QED
  BY <1>1, <1>2, <1>3, <1>4, <1>5, <1>6 DEF Next, Step

\* The inductive invariant holds in every reachable state of the gate.
THEOREM Invariance == Spec => []IInv
BY InitIInv, NextKeepsIInv, PTL DEF Spec

-----------------------------------------------------------------------------
\* Type correctness: channels never hold two tokens, counts never go below 0.
THEOREM TypeCorrect == Spec => []TypeOK
<1>1. IInv => TypeOK
  BY DEF IInv
<1> QED
  BY <1>1, Invariance, PTL

\* Every caller inside works on the lock the map names (gate.go:47-59).
THEOREM CapturedLockIsCurrent == Spec => []OnCurrentLock
<1>1. IInv => OnCurrentLock
  BY DEF IInv
<1> QED
  BY <1>1, Invariance, PTL

\* Reference counting is exact: no leaked entry, no early delete.
THEOREM CountingIsExact == Spec => []RefsExact
<1>1. IInv => RefsExact
  BY DEF IInv
<1> QED
  BY <1>1, Invariance, PTL

\* The token is in the channel or with the only holder.
THEOREM TokenAccounted == Spec => []TokenOrHolder
<1>1. IInv => TokenOrHolder
  <2> SUFFICES ASSUME IInv, NEW k \in Keys, entry[k] # NoLock
               PROVE  /\ token[entry[k]] = 0 =>
                           \E c \in Callers : Holder(entry[k]) = {c}
                      /\ token[entry[k]] = 1 => Holder(entry[k]) = {}
    BY DEF TokenOrHolder
  <2>1. \A c \in Holder(entry[k]) : key[c] = k
    BY DEF Holder, IInv, InCall, OnCurrentLock, EntriesDistinct
  <2>2. ASSUME token[entry[k]] = 0
        PROVE  \E c \in Callers : Holder(entry[k]) = {c}
    <3>1. PICK c \in Callers : pc[c] = "held" /\ key[c] = k
      BY <2>2 DEF IInv, MissingTokenIsHeld
    <3>2. c \in Holder(entry[k])
      BY <3>1 DEF Holder, IInv, OnCurrentLock
    <3> QED
      BY <3>1, <3>2, <2>1 DEF Holder, IInv, OneHolder
  <2>3. ASSUME token[entry[k]] = 1
        PROVE  Holder(entry[k]) = {}
    BY <2>3 DEF Holder, IInv, HeldTakesToken
  <2> QED
    BY <2>2, <2>3
<1> QED
  BY <1>1, Invariance, PTL

\* Two goroutines are never inside the section of one sandbox.
THEOREM Exclusion == Spec => []MutualExclusion
<1>1. IInv => MutualExclusion
  BY NoKeyIsNoKey DEF IInv, OneHolder, MutualExclusion, Mutex!Exclusive
<1> QED
  BY <1>1, Invariance, PTL

-----------------------------------------------------------------------------
\* The gate's initial states are the mutex's.
LEMMA InitRefines == Init => Mutex!Init
BY DEF Init, Mutex!Init

\* Every step of the gate is a step of the mutex or leaves it unchanged.
LEMMA StepRefines == IInv /\ [Next]_vars => [Mutex!Next]_(Mutex!kmVars)
<1> SUFFICES ASSUME IInv, [Next]_vars
             PROVE  [Mutex!Next]_(Mutex!kmVars)
  OBVIOUS
<1> USE NoKeyIsNoKey, NoLockIsNoLock
<1>1. ASSUME NEW c \in Callers, NEW k \in Keys, Enter(c, k)
      PROVE  Mutex!Request(c, k)
  BY <1>1 DEF Enter, IInv, TypeOK, Mutex!Request, Mutex!Idle
<1>2. ASSUME NEW c \in Callers, Cancel(c)
      PROVE  Mutex!Cancel(c)
  BY <1>2 DEF Cancel, IInv, InCall, Mutex!Cancel, Mutex!Idle
<1>3. ASSUME NEW c \in Callers, Take(c)
      PROVE  Mutex!Grant(c)
  <2>1. key[c] \in Keys /\ lock[c] = entry[key[c]]
    BY <1>3 DEF Take, IInv, InCall, OnCurrentLock
  <2>2. \A d \in Callers : pc[d] = "held" => key[d] # key[c]
    BY <1>3, <2>1 DEF Take, IInv, HeldTakesToken, OnCurrentLock
  <2> QED
    BY <1>3, <2>1, <2>2 DEF Take, IInv, TypeOK, Mutex!Grant
<1>4. ASSUME NEW c \in Callers, Abandon(c)
      PROVE  Mutex!GiveUp(c)
  BY <1>4 DEF Abandon, IInv, TypeOK, InCall, Mutex!GiveUp
<1>5. ASSUME NEW c \in Callers, Unlock(c)
      PROVE  Mutex!Free(c)
  BY <1>5 DEF Unlock, IInv, TypeOK, InCall, Mutex!Free
<1>6. ASSUME NEW c \in Callers, Release(c)
      PROVE  UNCHANGED Mutex!kmVars
  BY <1>6 DEF Release, IInv, TypeOK, Mutex!kmVars
<1>7. CASE UNCHANGED vars
  BY <1>7 DEF vars, Mutex!kmVars
<1> QED
  BY <1>1, <1>2, <1>3, <1>4, <1>5, <1>6, <1>7 DEF Next, Step, Mutex!Next

\* The gate implements the keyed mutex, for any callers, keys and locks.
THEOREM GateImplementsMutex == Spec => ImplementsMutex
BY InitRefines, StepRefines, Invariance, PTL DEF Spec, ImplementsMutex, Mutex!Spec

-----------------------------------------------------------------------------
(***************************************************************************)
(* For any names and clients, with either backend away at any time: a name *)
(* is never in both backends, and a handler changes the backend it read.   *)
(* What a handler has learnt of its name stays true, since only the owner  *)
(* of the gate changes what is held under it, and time only expires.       *)
(***************************************************************************)

Has(b, n) == home[b][n] # "none"

\* What a handler knows where it stands.
Knows(a) ==
    LET t == task[a] IN
    t # NoTask =>
        /\ owner[t.name] = a
        /\ t.at = "mac" => ~Has("incus", t.name)
        /\ t.step = "get" => t.at \in Backends
        /\ t.step = "create" => /\ t.at = "act" /\ t.target \in Backends
                                /\ \A b \in Backends : ~Has(b, t.name)
        /\ t.step \in {"change", "expire", "remove"} =>
              /\ t.read \in Backends /\ Has(t.read, t.name)
              /\ t.at = "act" => t.target = t.read

InOne == \A n \in BoxNames : ~Has("incus", n) \/ ~Has("mac", n)

RouterInv == RouterTypeOK /\ InOne /\ \A a \in Actors : Knows(a)

LEMMA InvImpliesOneHome == RouterInv => OneHome
<1> SUFFICES ASSUME RouterInv PROVE OneHome
  OBVIOUS
<1>1. \A n \in BoxNames : home["incus"][n] = "none" \/ home["mac"][n] = "none"
  BY DEF RouterInv, InOne, Has
<1>2. ASSUME NEW a \in Actors, task[a] # NoTask, task[a].at = "act", task[a].step # "create"
      PROVE  task[a].target = task[a].read
  <2>1. task[a] \in Tasks /\ Knows(a)
    BY DEF RouterInv, RouterTypeOK
  <2> QED
    BY <1>2, <2>1 DEF Knows, Tasks, RouterCalls, Backends
<1> QED
  BY <1>1, <1>2 DEF OneHome

LEMMA RouterInitInv == RouterStart => RouterInv
<1> SUFFICES ASSUME RouterStart PROVE RouterInv
  OBVIOUS
<1>1. RouterTypeOK
  BY DEF RouterStart, RouterTypeOK, NothingFound, Tasks
<1>2. InOne
  BY DEF RouterStart, InOne, Has, Backends
<1>3. \A a \in Actors : Knows(a)
  BY DEF RouterStart, Knows
<1> QED
  BY <1>1, <1>2, <1>3 DEF RouterInv

\* What the others know outlasts what the owner of a name does with it.
LEMMA OthersStillKnow ==
    ASSUME RouterInv, NEW a \in Actors, NEW m \in BoxNames,
           owner[m] \in {a, NoOwner},
           \A c \in Actors \ {a} : task'[c] = task[c],
           \A n \in BoxNames \ {m} :
               owner'[n] = owner[n] /\ \A b \in Backends : home'[b][n] = home[b][n]
    PROVE  \A c \in Actors \ {a} : Knows(c)'
<1> SUFFICES ASSUME NEW c \in Actors \ {a}, task[c] # NoTask PROVE Knows(c)'
  BY DEF Knows
<1>1. Knows(c) /\ task[c] \in Tasks
  BY DEF RouterInv, RouterTypeOK
<1>2. owner[task[c].name] = c /\ task[c].name \in BoxNames
  BY <1>1 DEF Knows, Tasks
<1>3. c # NoOwner
  BY Distinct DEF Actors
<1>4. task[c].name # m
  BY <1>2, <1>3
<1>5. task'[c] = task[c] /\ owner'[task[c].name] = owner[task[c].name]
      /\ \A b \in Backends : home'[b][task[c].name] = home[b][task[c].name]
  BY <1>2, <1>4
<1> QED
  BY <1>1, <1>5 DEF Knows, Has, Backends

\* The tasks of a handler on its way.
Running ==
    [op : {"create", "change", "delete", "reap"}, name : BoxNames, platform : Backends,
     step : RouterCalls, at : {"incus", "mac", "act"}, read : Backends \cup {"none"},
     target : Backends \cup {"none"}]

LEMMA TasksAreRunning == Tasks = {NoTask} \cup Running /\ NoTask \notin Running
<1>1. \A u \in Running : u.op # "none"
  BY DEF Running
<1> QED
  BY <1>1 DEF Tasks, Running, NoTask

\* A task is one, whatever of it changes.
LEMMA TaskFields ==
    ASSUME NEW t \in Running, NEW r \in Backends, NEW s \in RouterCalls
    PROVE  /\ LookUpFor([t EXCEPT !.read = r], s) \in Running
           /\ LookUpFor(t, s) \in Running
           /\ [t EXCEPT !.at = "act", !.target = r] \in Running
           /\ [t EXCEPT !.at = "mac"] \in Running
           /\ [t EXCEPT !.step = s, !.at = "act", !.target = r] \in Running
<1>1. LookUpFor([t EXCEPT !.read = r], s) \in Running
  BY DEF LookUpFor, Running
<1>2. LookUpFor(t, s) \in Running
  BY DEF LookUpFor, Running
<1>3. [t EXCEPT !.at = "act", !.target = r] \in Running
  BY DEF Running
<1>4. [t EXCEPT !.at = "mac"] \in Running
  BY DEF Running
<1>5. [t EXCEPT !.step = s, !.at = "act", !.target = r] \in Running
  BY DEF Running
<1> QED
  BY <1>1, <1>2, <1>3, <1>4, <1>5

\* A step of one handler, under one name, keeps the invariant if the name is still
\* in one backend and the handler knows what it now relies on.
LEMMA HandlerStep ==
    ASSUME RouterInv, NEW a \in Actors, NEW m \in BoxNames, owner[m] \in {a, NoOwner},
           NEW t \in Tasks, task' = [task EXCEPT ![a] = t],
           NEW x \in Actors \cup {NoOwner},
           owner' = owner \/ owner' = [owner EXCEPT ![m] = x],
           NEW b \in Backends, NEW state \in {"none", "live", "expired"},
           home' = home \/ home' = [home EXCEPT ![b][m] = state],
           state = "none" \/ \A other \in Backends \ {b} : ~Has(other, m),
           RouterTypeOK => reachable' \subseteq Backends,
           listing' \in [all : BOOLEAN, half : BOOLEAN, names : SUBSET BoxNames],
           Knows(a)'
    PROVE  RouterInv'
<1>1. RouterTypeOK'
  <2>1. home' \in [Backends -> [BoxNames -> {"none", "live", "expired"}]]
    BY DEF RouterInv, RouterTypeOK
  <2>2. owner' \in [BoxNames -> Actors \cup {NoOwner}]
    BY DEF RouterInv, RouterTypeOK
  <2>3. task' \in [Actors -> Tasks]
    BY DEF RouterInv, RouterTypeOK
  <2> QED
    BY <2>1, <2>2, <2>3 DEF RouterInv, RouterTypeOK
<1>2. InOne'
  <2> SUFFICES ASSUME NEW n \in BoxNames PROVE ~Has("incus", n)' \/ ~Has("mac", n)'
    BY DEF InOne
  <2>1. ~Has("incus", n) \/ ~Has("mac", n)
    BY DEF RouterInv, InOne
  <2>2. home \in [Backends -> [BoxNames -> {"none", "live", "expired"}]]
    BY DEF RouterInv, RouterTypeOK
  <2>3. CASE home' = home
    BY <2>1, <2>3 DEF Has
  <2>4. CASE home' = [home EXCEPT ![b][m] = state]
    BY <2>1, <2>2, <2>4 DEF Has, Backends
  <2> QED
    BY <2>3, <2>4
<1>3. \A c \in Actors \ {a} : Knows(c)'
  <2>1. \A c \in Actors \ {a} : task'[c] = task[c]
    BY DEF RouterInv, RouterTypeOK
  <2>2. \A n \in BoxNames \ {m} : owner'[n] = owner[n]
    BY DEF RouterInv, RouterTypeOK
  <2>3. \A n \in BoxNames \ {m} : \A d \in Backends : home'[d][n] = home[d][n]
    BY DEF RouterInv, RouterTypeOK
  <2> QED
    BY <2>1, <2>2, <2>3, OthersStillKnow
<1> QED
  BY <1>1, <1>2, <1>3 DEF RouterInv

-----------------------------------------------------------------------------
\* A handler that holds no name, takes one.
LEMMA HoldInv ==
    ASSUME RouterInv, NEW a \in Actors, NEW op \in {"create", "change", "delete", "reap"},
           NEW n \in BoxNames, NEW b \in Backends, Hold(a, NewTask(op, n, b)),
           home' = home, reachable' = reachable,
           listing' \in [all : BOOLEAN, half : BOOLEAN, names : SUBSET BoxNames]
    PROVE  RouterInv'
<1> DEFINE t == NewTask(op, n, b)
<1>1. t \in Running /\ t.name = n /\ t.at = "incus" /\ t.step = "get"
  BY DEF NewTask, Running, Backends, RouterCalls
<1> HIDE DEF t
<1>2. owner[n] = NoOwner /\ owner' = [owner EXCEPT ![n] = a] /\ task' = [task EXCEPT ![a] = t]
  BY <1>1 DEF Hold, t
<1>3. task'[a] = t /\ owner'[n] = a
  BY <1>2 DEF RouterInv, RouterTypeOK
<1>4. Knows(a)'
  BY <1>1, <1>3 DEF Knows, Backends
<1>5. t \in Tasks
  BY <1>1, TasksAreRunning
<1>6. "incus" \in Backends /\ (RouterTypeOK => reachable' \subseteq Backends)
  BY DEF Backends, RouterTypeOK
<1> QED
  BY <1>2, <1>4, <1>5, <1>6, HandlerStep

\* A handler goes on, and may change what is held under its name, or answers.
LEMMA ProceedInv ==
    ASSUME RouterInv, NEW a \in Actors, task[a] # NoTask, NEW t \in Running,
           t.name = task[a].name, Proceed(a, t),
           NEW b \in Backends, NEW state \in {"none", "live", "expired"},
           home' = home \/ home' = [home EXCEPT ![b][t.name] = state],
           state = "none" \/ \A other \in Backends \ {b} : ~Has(other, t.name),
           reachable' = reachable, listing' = listing, Knows(a)'
    PROVE  RouterInv'
<1>1. owner[t.name] = a /\ t.name \in BoxNames /\ t \in Tasks
  BY TasksAreRunning DEF RouterInv, Knows, Running
<1>2. task' = [task EXCEPT ![a] = t] /\ owner' = owner
  BY DEF Proceed
<1>3. (RouterTypeOK => reachable' \subseteq Backends)
      /\ listing' \in [all : BOOLEAN, half : BOOLEAN, names : SUBSET BoxNames]
  BY DEF RouterInv, RouterTypeOK
<1> QED
  BY <1>1, <1>2, <1>3, HandlerStep

LEMMA AnswerInv ==
    ASSUME RouterInv, NEW a \in Actors, task[a] # NoTask, Answer(a),
           NEW b \in Backends, NEW state \in {"none", "live", "expired"},
           home' = home \/ home' = [home EXCEPT ![b][task[a].name] = state],
           state = "none" \/ \A other \in Backends \ {b} : ~Has(other, task[a].name),
           reachable' = reachable, listing' = listing
    PROVE  RouterInv'
<1> DEFINE m == task[a].name
<1>1. owner[m] = a /\ m \in BoxNames
  BY TasksAreRunning DEF RouterInv, RouterTypeOK, Knows, Running
<1>2. task' = [task EXCEPT ![a] = NoTask] /\ owner' = [owner EXCEPT ![m] = NoOwner]
  BY DEF Answer
<1>3. task'[a] = NoTask
  BY <1>2 DEF RouterInv, RouterTypeOK
<1>4. Knows(a)' /\ NoTask \in Tasks
  BY <1>3, TasksAreRunning DEF Knows
<1>5. (RouterTypeOK => reachable' \subseteq Backends)
      /\ listing' \in [all : BOOLEAN, half : BOOLEAN, names : SUBSET BoxNames]
  BY DEF RouterInv, RouterTypeOK
<1> HIDE DEF m
<1> QED
  BY <1>1, <1>2, <1>4, <1>5, HandlerStep DEF m

-----------------------------------------------------------------------------
\* The calls of a lookup, which change nothing that is held.
LEMMA LookupInv == ASSUME RouterInv, NEW a \in Actors, Lookup(a) PROVE RouterInv'
<1> DEFINE t == task[a]
<1>1. t # NoTask /\ t \in Running /\ Knows(a)
  BY TasksAreRunning DEF RouterInv, RouterTypeOK, Lookup
<1>2. home' = home /\ reachable' = reachable /\ listing' = listing
  BY DEF Lookup
<1>3. t.at \in Backends /\ t.name \in BoxNames /\ t.platform \in Backends /\ t.step \in RouterCalls
  BY <1>1 DEF Lookup, Running
<1>4. owner[t.name] = a
  BY <1>1 DEF Knows
<1>5. ASSUME Answer(a) PROVE RouterInv'
  BY <1>1, <1>2, <1>5, AnswerInv DEF Backends
<1>6. ASSUME NEW u \in Running, u.name = t.name, Proceed(a, u), Knows(a)' PROVE RouterInv'
  <2>1. home' = home \/ home' = [home EXCEPT !["incus"][u.name] = "none"]
    BY <1>2
  <2>2. "incus" \in Backends /\ "none" \in {"none", "live", "expired"}
    BY DEF Backends
  <2> QED
    BY <1>1, <1>2, <1>6, <2>1, <2>2, ProceedInv
<1>7. ASSUME NEW u \in Running, Proceed(a, u) PROVE task'[a] = u /\ owner' = owner
  BY <1>7 DEF Proceed, RouterInv, RouterTypeOK
<1>8. CASE t.at \notin reachable
  BY <1>5, <1>8 DEF Lookup
<1>9. CASE t.at \in reachable /\ home[t.at][t.name] # "none"
  <2>1. Found(a, t.at)
    BY <1>9 DEF Lookup
  <2>2. CASE t.step # "get"
    <3> DEFINE u == [t EXCEPT !.at = "act", !.target = t.at]
    <3>1. Proceed(a, u)
      BY <2>1, <2>2 DEF Found
    <3>2. u \in Running
      BY <1>1, <1>3, TaskFields
    <3>3. u.name = t.name /\ u.at = "act" /\ u.target = t.at /\ u.step = t.step /\ u.read = t.read
      BY <1>1 DEF Running
    <3> HIDE DEF u
    <3>4. task'[a] = u /\ owner' = owner
      BY <1>7, <3>1, <3>2
    <3>5. t.step # "create"
      BY <1>1, <1>3 DEF Knows, Backends
    <3>6. t.read \in Backends /\ Has(t.read, t.name)
      BY <1>1, <1>3, <2>2, <3>5 DEF Knows, RouterCalls
    <3>7. t.read = t.at
      BY <1>3, <1>9, <3>6 DEF RouterInv, InOne, Has, Backends
    <3>8. Knows(a)'
      BY <1>2, <1>4, <2>2, <3>3, <3>4, <3>5, <3>6, <3>7 DEF Knows, Has
    <3> QED
      BY <1>6, <3>1, <3>2, <3>3, <3>8
  <2>3. CASE t.step = "get"
    <3>1. ASSUME NEW s \in {"change", "expire", "remove"},
                 Proceed(a, LookUpFor([t EXCEPT !.read = t.at], s))
          PROVE  RouterInv'
      <4> DEFINE u == LookUpFor([t EXCEPT !.read = t.at], s)
      <4>1. u \in Running
        BY <1>1, <1>3, TaskFields DEF RouterCalls
      <4>2. u.name = t.name /\ u.at = "incus" /\ u.read = t.at /\ u.step = s
        BY <1>1 DEF LookUpFor, Running
      <4>3. Proceed(a, u)
        BY <3>1
      <4> HIDE DEF u
      <4>4. task'[a] = u /\ owner' = owner
        BY <1>7, <4>1, <4>3
      <4>5. Knows(a)'
        BY <1>2, <1>3, <1>4, <1>9, <4>2, <4>4 DEF Knows, Has, Backends
      <4> QED
        BY <1>6, <4>1, <4>2, <4>3, <4>5
    <3>2. \/ Answer(a)
          \/ \E s \in {"change", "expire", "remove"} :
                Proceed(a, LookUpFor([t EXCEPT !.read = t.at], s))
      BY <2>1, <2>3 DEF Found
    <3> QED
      BY <1>5, <3>1, <3>2
  <2> QED
    BY <2>2, <2>3
<1>10. CASE t.at = "incus" /\ home[t.at][t.name] = "none" /\ t.at \in reachable
  <2> DEFINE u == [t EXCEPT !.at = "mac"]
  <2>1. Proceed(a, u)
    BY <1>10 DEF Lookup
  <2>2. u \in Running
    BY <1>1, TaskFields DEF Backends, RouterCalls
  <2>3. u.name = t.name /\ u.at = "mac" /\ u.step = t.step /\ u.read = t.read
    BY <1>1 DEF Running
  <2> HIDE DEF u
  <2>4. task'[a] = u /\ owner' = owner
    BY <1>7, <2>1, <2>2
  <2>5. Knows(a)'
    BY <1>1, <1>2, <1>3, <1>4, <1>10, <2>3, <2>4 DEF Knows, Has, Backends
  <2> QED
    BY <1>6, <2>1, <2>2, <2>3, <2>5
<1>11. CASE t.at = "mac" /\ home[t.at][t.name] = "none" /\ t.at \in reachable
  <2>1. Missing(a)
    BY <1>11 DEF Lookup
  <2>2. CASE t.step = "get" /\ t.op = "create"
    <3> DEFINE u == [t EXCEPT !.step = "create", !.at = "act", !.target = t.platform]
    <3>1. Proceed(a, u)
      BY <2>1, <2>2 DEF Missing
    <3>2. u \in Running
      BY <1>1, <1>3, TaskFields DEF RouterCalls
    <3>3. u.name = t.name /\ u.at = "act" /\ u.target = t.platform /\ u.step = "create"
      BY <1>1 DEF Running
    <3> HIDE DEF u
    <3>4. task'[a] = u /\ owner' = owner
      BY <1>7, <3>1, <3>2
    <3>5. ~Has("incus", t.name) /\ ~Has("mac", t.name)
      BY <1>1, <1>11 DEF Knows, Has
    <3>6. Knows(a)'
      BY <1>2, <1>3, <1>4, <3>3, <3>4, <3>5 DEF Knows, Has, Backends
    <3> QED
      BY <1>6, <3>1, <3>2, <3>3, <3>6
  <2>3. CASE ~(t.step = "get" /\ t.op = "create")
    BY <1>5, <2>1, <2>3 DEF Missing
  <2> QED
    BY <2>2, <2>3
<1> QED
  BY <1>3, <1>8, <1>9, <1>10, <1>11 DEF Backends

\* The call at the backend: what it changes is where the lookup found it, and a
\* creation is of a name that is in neither.
LEMMA ActInv == ASSUME RouterInv, NEW a \in Actors, Act(a) PROVE RouterInv'
<1> DEFINE t == task[a]
<1>1. t # NoTask /\ t.at = "act" /\ t \in Running /\ Knows(a)
  BY TasksAreRunning DEF RouterInv, RouterTypeOK, Act
<1>2. reachable' = reachable /\ listing' = listing
  BY DEF Act
<1>3. t.name \in BoxNames /\ t.step \in RouterCalls /\ t.step # "get"
  BY <1>1 DEF Running, Knows, Backends
<1>4. t.target \in Backends /\ owner[t.name] = a
  BY <1>1, <1>3 DEF Knows, RouterCalls
<1>5. \A other \in Backends \ {t.target} : ~Has(other, t.name)
  <2>1. CASE t.step = "create"
    BY <1>1, <2>1 DEF Knows
  <2>2. CASE t.step # "create"
    <3>1. Has(t.target, t.name)
      BY <1>1, <1>3, <2>2 DEF Knows, RouterCalls
    <3> QED
      BY <1>3, <1>4, <3>1 DEF RouterInv, InOne, Backends
  <2> QED
    BY <2>1, <2>2
<1>6. ASSUME Answer(a), NEW state \in {"none", "live", "expired"},
             home' = home \/ Becomes(t, state)
      PROVE  RouterInv'
  <2>1. home' = home \/ home' = [home EXCEPT ![t.target][task[a].name] = state]
    BY <1>6 DEF Becomes
  <2> QED
    BY <1>1, <1>2, <1>4, <1>5, <1>6, <2>1, AnswerInv
<1>7. CASE t.target \notin reachable
  BY <1>6, <1>7 DEF Act
<1>8. CASE t.target \in reachable /\ t.step = "expire"
  <2> DEFINE u == LookUpFor(t, "remove")
  <2>1. Becomes(t, "expired") /\ Proceed(a, u)
    BY <1>8 DEF Act
  <2>2. u \in Running
    BY <1>1, <1>4, TaskFields DEF RouterCalls
  <2>3. u.name = t.name /\ u.at = "incus" /\ u.step = "remove" /\ u.read = t.read
    BY <1>1 DEF LookUpFor, Running
  <2> HIDE DEF u
  <2>4. task'[a] = u /\ owner' = owner
    BY <2>1, <2>2 DEF Proceed, RouterInv, RouterTypeOK
  <2>5. t.read = t.target
    BY <1>1, <1>8 DEF Knows
  <2>6. home' = [home EXCEPT ![t.target][t.name] = "expired"]
    BY <2>1 DEF Becomes
  <2>7. home'[t.target][t.name] = "expired"
    BY <1>3, <1>4, <2>6 DEF RouterInv, RouterTypeOK
  <2>8. Knows(a)'
    BY <1>4, <2>3, <2>4, <2>5, <2>7 DEF Knows, Has, Backends
  <2>9. home' = [home EXCEPT ![t.target][u.name] = "expired"]
    BY <2>3, <2>6
  <2> QED
    BY <1>1, <1>2, <1>4, <1>5, <2>1, <2>2, <2>3, <2>8, <2>9, ProceedInv
<1>9. CASE t.target \in reachable /\ t.step \in {"create", "change", "remove"}
  <2>1. Answer(a) /\ \E state \in {"none", "live"} : Becomes(t, state)
    BY <1>9 DEF Act
  <2> QED
    BY <1>6, <2>1
<1> QED
  BY <1>3, <1>7, <1>8, <1>9 DEF RouterCalls

\* The steps of none of the handlers.
LEMMA TimeInv == ASSUME RouterInv, TimePasses PROVE RouterInv'
<1> PICK b \in Backends, n \in BoxNames :
        home[b][n] = "live" /\ home' = [home EXCEPT ![b][n] = "expired"]
  BY DEF TimePasses
<1>1. reachable' = reachable /\ owner' = owner /\ task' = task /\ listing' = listing
  BY DEF TimePasses
<1>2. RouterTypeOK'
  BY <1>1 DEF RouterInv, RouterTypeOK
<1>3. \A d \in Backends, m \in BoxNames : Has(d, m)' <=> Has(d, m)
  BY DEF RouterInv, RouterTypeOK, Has
<1>4. InOne'
  BY <1>3 DEF RouterInv, InOne, Backends
<1>5. ASSUME NEW a \in Actors PROVE Knows(a)'
  <2>1. Knows(a) /\ (task[a] = NoTask \/ task[a] \in Running)
    BY TasksAreRunning DEF RouterInv, RouterTypeOK
  <2>2. task[a] \in Running => task[a].name \in BoxNames
    BY DEF Running
  <2> QED
    BY <1>1, <1>3, <2>1, <2>2 DEF Knows, Backends
<1> QED
  BY <1>2, <1>4, <1>5 DEF RouterInv

\* What is neither held, owned nor a handler's task.
LEMMA ElsewhereInv ==
    ASSUME RouterInv, UNCHANGED <<home, owner, task>>, reachable' \subseteq Backends,
           listing' \in [all : BOOLEAN, half : BOOLEAN, names : SUBSET BoxNames]
    PROVE  RouterInv'
<1>1. RouterTypeOK'
  BY DEF RouterInv, RouterTypeOK
<1>2. InOne'
  BY DEF RouterInv, InOne, Has
<1>3. \A a \in Actors : Knows(a)'
  BY DEF RouterInv, Knows, Has
<1> QED
  BY <1>1, <1>2, <1>3 DEF RouterInv

\* Every step, of the handlers, the reaper, the backends or the clock.
LEMMA RouterNextInv == RouterInv /\ [RouterStep]_routerVars => RouterInv'
<1> SUFFICES ASSUME RouterInv, [RouterStep]_routerVars PROVE RouterInv'
  OBVIOUS
<1> DEFINE Lists == [all : BOOLEAN, half : BOOLEAN, names : SUBSET BoxNames]
<1>0. reachable \subseteq Backends /\ listing \in Lists
  BY DEF RouterInv, RouterTypeOK
<1>1. ASSUME NEW c \in Clients, Request(c) PROVE RouterInv'
  <2>1. PICK op \in {"create", "change", "delete"}, n \in BoxNames, b \in Backends :
            Hold(c, NewTask(op, n, b))
    BY <1>1 DEF Request
  <2>2. home' = home /\ reachable' = reachable /\ listing' \in Lists
    BY <1>0, <1>1 DEF Request
  <2> QED
    BY <2>1, <2>2, HoldInv DEF Actors
<1>2. ASSUME NEW n \in BoxNames, Visit(n) PROVE RouterInv'
  <2>1. Hold(Scanner, NewTask("reap", n, "incus")) /\ home' = home /\ reachable' = reachable
    BY <1>2 DEF Visit
  <2>2. listing' \in Lists
    BY <1>0, <1>2 DEF Visit
  <2> QED
    BY <2>1, <2>2, HoldInv DEF Actors, Backends
<1>3. ASSUME ListIncus PROVE RouterInv'
  BY <1>0, <1>3, ElsewhereInv DEF ListIncus, NothingFound, Listed
<1>4. ASSUME ListMac PROVE RouterInv'
  <2>1. listing' \in Lists
    BY <1>0, <1>4 DEF ListMac, NothingFound, Listed
  <2> QED
    BY <1>0, <1>4, <2>1, ElsewhereInv DEF ListMac
<1>5. ASSUME EndOfScan PROVE RouterInv'
  BY <1>0, <1>5, ElsewhereInv DEF EndOfScan, NothingFound
<1>6. ASSUME Outage \/ Recovery PROVE RouterInv'
  BY <1>0, <1>6, ElsewhereInv DEF Outage, Recovery
<1>7. ASSUME UNCHANGED routerVars PROVE RouterInv'
  BY <1>0, <1>7, ElsewhereInv DEF routerVars
<1> QED
  BY <1>1, <1>2, <1>3, <1>4, <1>5, <1>6, <1>7, LookupInv, ActInv, TimeInv DEF RouterStep

\* Across both backends a name is in one at most, and a handler changes it in the
\* backend it read it from, whatever was away in between (router.go:19-39).
THEOREM OneHomeAlways == RouterSpec => []OneHome
<1>1. RouterInv /\ [RouterStep]_routerVars => RouterInv'
  BY RouterNextInv
<1> QED
  BY <1>1, RouterInitInv, InvImpliesOneHome, PTL DEF RouterSpec
=============================================================================
