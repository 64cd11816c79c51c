---------------------------- MODULE DesktopProofs ----------------------------
(***************************************************************************)
(* Module Desktop for any sandboxes, calls, sessions and bounds: its type, *)
(* that the store never takes more than it has room for, and that no open  *)
(* stream is forgotten.                                                    *)
(***************************************************************************)
EXTENDS Desktop, FiniteSetTheorems, TLAPS

Dialling == {d \in Calls : pc[d] = "keep"}

\* The calls and the driver.  What SessionsHeld rests on: a call under way has a
\* sandbox, no two sandboxes share a session, and no two calls have dialled the
\* same.
DriverOK ==
    /\ cache \in [Names -> Sessions \cup {NoSession}]
    /\ open \subseteq Sessions
    /\ guest \in [Sessions -> Names \cup {NoName}]
    /\ pc \in [Calls -> CallPlaces]
    /\ target \in [Calls -> Names \cup {NoName}]
    /\ sess \in [Calls -> Sessions \cup {NoSession}]
    /\ runtime \in {"up", "draining", "closed"}
    /\ SessionsHeld
    /\ \A c \in Calls : pc[c] # "idle" => target[c] \in Names
    /\ \A m, n \in Names : cache[m] = cache[n] /\ cache[m] # NoSession => m = n
    /\ \A c, d \in Dialling : sess[c] = sess[d] => c = d
    /\ \A c \in Dialling : sess[c] # NoSession

\* The sandboxes and the store.
StoreOK ==
    /\ now \in 0..MaxTime
    /\ box \in [Names -> Boxes \cup {NoBox}]
    /\ removal \in [Names -> {"none", "purge", "close", "teardown"}]
    /\ images \in [Ids -> Images \cup {NoImage}]
    /\ Cardinality(Stored) <= Capacity
    /\ deadline \in [Calls -> 0..Never]
    /\ queue \in 0..QueueSize

IInv == DriverOK /\ StoreOK

-----------------------------------------------------------------------------
(* The store.                                                                *)

\* Forgetting images never makes the store fuller.
LEMMA FewerStored ==
  ASSUME StoreOK, NEW f, \A i \in Ids : f[i] = images[i] \/ f[i] = NoImage,
         images' = f
  PROVE  Cardinality(Stored') <= Capacity
<1>1. Stored' \subseteq Stored
  BY DEF Stored
<1>2. IsFiniteSet(Stored)
  BY BoundsAssumption, FS_Subset DEF Stored
<1>3. Cardinality(Stored') <= Cardinality(Stored) /\ Cardinality(Stored) \in Nat
         /\ Cardinality(Stored') \in Nat
  BY <1>1, <1>2, FS_Subset, FS_CardinalityType
<1> QED
  BY <1>3, BoundsAssumption DEF StoreOK

LEMMA UnexpiredType ==
  ASSUME StoreOK
  PROVE  /\ Unexpired \in [Ids -> Images \cup {NoImage}]
         /\ \A i \in Ids : Unexpired[i] = images[i] \/ Unexpired[i] = NoImage
  BY DEF StoreOK, Unexpired

LEMMA SweepKeepsStore ==
  ASSUME StoreOK, images' = Unexpired
  PROVE  images' \in [Ids -> Images \cup {NoImage}] /\ Cardinality(Stored') <= Capacity
<1>1. Cardinality(Stored') <= Capacity
  BY UnexpiredType, FewerStored
<1> QED
  BY <1>1, UnexpiredType

\* A new image takes the one place that is left.
LEMMA OneMoreStored ==
  ASSUME StoreOK, NEW i \in Ids, NEW image \in Images,
         Unexpired[i] = NoImage,
         Cardinality({j \in Ids : Unexpired[j] # NoImage}) < Capacity,
         images' = [Unexpired EXCEPT ![i] = image]
  PROVE  images' \in [Ids -> Images \cup {NoImage}] /\ Cardinality(Stored') <= Capacity
<1> DEFINE before == {j \in Ids : Unexpired[j] # NoImage}
<1>1. images' \in [Ids -> Images \cup {NoImage}]
  BY UnexpiredType
<1>2. Stored' = before \cup {i}
  BY UnexpiredType, SentinelsAssumption DEF Stored
<1>3. IsFiniteSet(before)
  BY BoundsAssumption, FS_Subset
<1>4. i \notin before
  OBVIOUS
<1>5. Cardinality(before \cup {i}) = Cardinality(before) + 1 /\ Cardinality(before) \in Nat
  BY <1>3, <1>4, FS_AddElement, FS_CardinalityType
<1> QED
  BY <1>1, <1>2, <1>5, BoundsAssumption

LEMMA KeptType ==
  ASSUME StoreOK, NEW d \in 0..Never
  PROVE  Kept(d) \in 0..Never
  BY BoundsAssumption DEF StoreOK, Kept, Never

-----------------------------------------------------------------------------
(* The sessions.                                                             *)

\* A call that is not at "keep" goes on to another such place.
LEMMA MovesOn ==
  ASSUME DriverOK, NEW c \in Calls, NEW place \in CallPlaces \ {"keep"}, pc[c] # "keep",
         pc' = [pc EXCEPT ![c] = place],
         UNCHANGED <<cache, open, runtime>>,
         guest' \in [Sessions -> Names \cup {NoName}],
         target' \in [Calls -> Names \cup {NoName}],
         \A d \in Calls \ {c} : target'[d] = target[d],
         place # "idle" => target'[c] \in Names,
         sess' \in [Calls -> Sessions \cup {NoSession}],
         \A d \in Calls \ {c} : sess'[d] = sess[d]
  PROVE  DriverOK'
<1>1. Dialling' = Dialling /\ c \notin Dialling /\ \A d \in Dialling : sess'[d] = sess[d]
  BY DEF DriverOK, Dialling
<1>2. Dialled' = Dialled
  BY <1>1 DEF Dialled, Dialling
<1>3. Cached' = Cached
  BY DEF Cached
<1>4. SessionsHeld'
  BY <1>2, <1>3 DEF DriverOK, SessionsHeld
<1>5. \A d \in Calls : pc'[d] # "idle" => target'[d] \in Names
  BY DEF DriverOK
<1>6. /\ \A d, e \in Dialling' : sess'[d] = sess'[e] => d = e
      /\ \A d \in Dialling' : sess'[d] # NoSession
  BY <1>1 DEF DriverOK
<1>7. pc' \in [Calls -> CallPlaces] /\ open' \subseteq Sessions
  BY DEF DriverOK
<1>8. cache' \in [Names -> Sessions \cup {NoSession}] /\ runtime' \in {"up", "draining", "closed"}
  BY DEF DriverOK
<1>9. \A m, n \in Names : cache'[m] = cache'[n] /\ cache'[m] # NoSession => m = n
  BY DEF DriverOK
<1> QED
  BY <1>4, <1>5, <1>6, <1>7, <1>8, <1>9 DEF DriverOK

LEMMA SameDriver ==
  ASSUME DriverOK, UNCHANGED <<cache, open, pc, target, sess, runtime>>,
         guest' \in [Sessions -> Names \cup {NoName}]
  PROVE  DriverOK'
<1>1. Dialling' = Dialling /\ Dialled' = Dialled /\ Cached' = Cached
  BY DEF Dialling, Dialled, Cached
<1> QED
  BY <1>1 DEF DriverOK, SessionsHeld

\* A sandbox's session is closed and dropped: no other sandbox has it.
LEMMA Dropping ==
  ASSUME DriverOK, NEW n \in Names, Close({cache[n]}),
         cache' = [cache EXCEPT ![n] = NoSession],
         UNCHANGED runtime, Dialled' = Dialled
  PROVE  /\ SessionsHeld'
         /\ cache' \in [Names -> Sessions \cup {NoSession}]
         /\ open' \subseteq Sessions
         /\ guest' \in [Sessions -> Names \cup {NoName}]
         /\ \A m, k \in Names : cache'[m] = cache'[k] /\ cache'[m] # NoSession => m = k
<1>1. Cached' = Cached \ {cache[n]}
  BY DEF DriverOK, Cached
<1>2. open' = open \ {cache[n]}
  BY DEF Close
<1>3. cache[n] \in Cached \/ cache[n] = NoSession
  BY DEF Cached
<1>4. NoSession \notin open
  BY SentinelsAssumption DEF DriverOK
<1>5. SessionsHeld'
  BY <1>1, <1>2, <1>3, <1>4 DEF DriverOK, SessionsHeld
<1> QED
  BY <1>2, <1>5 DEF DriverOK, Close

\* A call that has dialled leaves "keep" and closes what it dialled.
LEMMA HandsBack ==
  ASSUME DriverOK, NEW c \in Dialling, NEW place \in CallPlaces \ {"keep", "idle"},
         pc' = [pc EXCEPT ![c] = place], Close({sess[c]}),
         UNCHANGED <<cache, target, runtime>>,
         NEW s \in Sessions \cup {NoSession}, sess' = [sess EXCEPT ![c] = s]
  PROVE  DriverOK'
<1>1. Dialling' = Dialling \ {c} /\ \A d \in Dialling' : sess'[d] = sess[d]
  BY DEF DriverOK, Dialling
<1>2. Dialled' = Dialled \ {sess[c]}
  BY <1>1 DEF DriverOK, Dialled, Dialling
<1>3. open' = open \ {sess[c]} /\ guest' \in [Sessions -> Names \cup {NoName}]
  BY DEF Close, DriverOK
<1>4. Cached' = Cached /\ sess[c] \in Dialled
  BY DEF Cached, Dialled, Dialling
<1>5. SessionsHeld'
  BY <1>2, <1>3, <1>4 DEF DriverOK, SessionsHeld
<1> QED
  BY <1>1, <1>3, <1>5 DEF DriverOK, Dialling

LEMMA KeepStep ==
  ASSUME DriverOK, NEW c \in Calls, Keep(c)
  PROVE  DriverOK'
<1> DEFINE existing == cache[target[c]]
<1>1. c \in Dialling /\ target[c] \in Names /\ existing \in Sessions \cup {NoSession}
  BY DEF Keep, CallAt, Dialling, DriverOK
<1>2. CASE runtime # "up"
  BY <1>1, <1>2, HandsBack DEF Keep, GiveUp, GoOn, CallPlaces
<1>3. CASE runtime = "up" /\ existing # NoSession
  BY <1>1, <1>3, HandsBack DEF Keep, GiveUp, GoOn, CallPlaces
<1>4. CASE runtime = "up" /\ existing = NoSession
  <2>1. /\ cache' = [cache EXCEPT ![target[c]] = sess[c]]
        /\ pc' = [pc EXCEPT ![c] = "call"]
        /\ UNCHANGED <<open, guest, target, sess, runtime>>
    BY <1>4 DEF Keep, GoOn
  <2>2. Dialling' = Dialling \ {c}
    BY <2>1 DEF DriverOK, Dialling
  <2>3. Dialled' = Dialled \ {sess[c]} /\ sess[c] \in Dialled /\ sess[c] \in Sessions
    BY <1>1, <2>1, <2>2 DEF DriverOK, Dialled, Dialling
  <2>4. Cached' = Cached \cup {sess[c]} /\ sess[c] \notin Cached
    BY <1>1, <1>4, <2>1, <2>3, SentinelsAssumption DEF DriverOK, SessionsHeld, Cached
  <2>5. SessionsHeld'
    BY <1>4, <2>1, <2>3, <2>4 DEF DriverOK, SessionsHeld
  <2>6. \A m, n \in Names : cache'[m] = cache'[n] /\ cache'[m] # NoSession => m = n
    BY <1>1, <2>1, <2>4 DEF DriverOK, Cached
  <2> QED
    BY <1>1, <2>1, <2>2, <2>3, <2>5, <2>6 DEF DriverOK, CallPlaces
<1> QED
  BY <1>2, <1>3, <1>4

LEMMA OpenStep ==
  ASSUME DriverOK, NEW c \in Calls, Open(c)
  PROVE  DriverOK'
<1>1. pc[c] = "open" /\ c \notin Dialling /\ target[c] \in Names
  BY DEF Open, CallAt, Dialling, DriverOK
<1>2. CASE GiveUp(c) /\ UNCHANGED driver
  BY <1>1, <1>2, MovesOn DEF Open, GiveUp, GoOn, CallPlaces, driver, DriverOK
<1>3. CASE ~(GiveUp(c) /\ UNCHANGED driver)
  <2>1. PICK s \in Free : /\ sess' = [sess EXCEPT ![c] = s]
                          /\ open' = open \cup {s}
                          /\ guest' = [guest EXCEPT ![s] = target[c]]
    BY <1>3 DEF Open
  <2>2. pc' = [pc EXCEPT ![c] = "keep"] /\ UNCHANGED <<target, cache, runtime>>
    BY <1>3 DEF Open, GoOn
  <2>3. Dialling' = Dialling \cup {c} /\ \A d \in Dialling : sess'[d] = sess[d]
    BY <1>1, <2>1, <2>2 DEF DriverOK, Dialling
  <2>4. s \in Sessions /\ s \notin open /\ s # NoSession /\ sess'[c] = s
    BY <2>1, SentinelsAssumption DEF Free, DriverOK
  <2>5. Dialled' = Dialled \cup {s}
    BY <1>1, <2>3, <2>4 DEF Dialled, Dialling
  <2>6. Cached' = Cached
    BY <2>2 DEF Cached
  <2>7. SessionsHeld'
    BY <2>1, <2>2, <2>4, <2>5, <2>6 DEF DriverOK, SessionsHeld
  <2>8. \A d, e \in Dialling' : sess'[d] = sess'[e] => d = e
    BY <2>1, <2>3, <2>4 DEF DriverOK, Free, Dialling
  <2> QED
    BY <1>1, <2>1, <2>2, <2>3, <2>4, <2>7, <2>8 DEF DriverOK, CallPlaces
<1> QED
  BY <1>2, <1>3

LEMMA CallToolStep ==
  ASSUME DriverOK, NEW c \in Calls, CallTool(c)
  PROVE  DriverOK'
<1>1. pc[c] = "call" /\ c \notin Dialling /\ target[c] \in Names
  BY DEF CallTool, CallAt, Dialling, DriverOK
<1>2. CASE UNCHANGED driver
  <2>1. /\ \E place \in {"read", "cleanup"} : pc' = [pc EXCEPT ![c] = place]
        /\ sess' = [sess EXCEPT ![c] = NoSession]
        /\ UNCHANGED <<target, runtime>>
    BY DEF CallTool, GiveUp, GoOn
  <2> QED
    BY <1>1, <1>2, <2>1, MovesOn DEF driver, CallPlaces, DriverOK
<1>3. CASE /\ GiveUp(c) /\ Close({sess[c]}) /\ cache[target[c]] = sess[c]
           /\ cache' = [cache EXCEPT ![target[c]] = NoSession]
  <2>1. /\ pc' = [pc EXCEPT ![c] = "cleanup"] /\ sess' = [sess EXCEPT ![c] = NoSession]
        /\ UNCHANGED <<target, runtime>>
    BY <1>3 DEF CallTool, GiveUp, GoOn
  <2>2. Dialling' = Dialling /\ \A d \in Dialling : sess'[d] = sess[d]
    BY <1>1, <2>1 DEF DriverOK, Dialling
  <2>3. Dialled' = Dialled
    BY <2>2 DEF Dialled, Dialling
  <2>4. /\ SessionsHeld'
        /\ cache' \in [Names -> Sessions \cup {NoSession}]
        /\ open' \subseteq Sessions
        /\ guest' \in [Sessions -> Names \cup {NoName}]
        /\ \A m, k \in Names : cache'[m] = cache'[k] /\ cache'[m] # NoSession => m = k
    BY <1>1, <1>3, <2>1, <2>3, Dropping
  <2>5. /\ \A d, e \in Dialling' : sess'[d] = sess'[e] => d = e
        /\ \A d \in Dialling' : sess'[d] # NoSession
    BY <2>2 DEF DriverOK
  <2>6. /\ pc' \in [Calls -> CallPlaces] /\ sess' \in [Calls -> Sessions \cup {NoSession}]
        /\ target' \in [Calls -> Names \cup {NoName}] /\ runtime' \in {"up", "draining", "closed"}
        /\ \A d \in Calls : pc'[d] # "idle" => target'[d] \in Names
    BY <1>1, <2>1 DEF DriverOK, CallPlaces
  <2> QED
    BY <2>4, <2>5, <2>6 DEF DriverOK
<1> QED
  BY <1>2, <1>3 DEF CallTool, driver

LEMMA CloseDriverStep ==
  ASSUME DriverOK, CloseDriver
  PROVE  DriverOK'
<1> DEFINE all == {cache[n] : n \in Names}
<1>1. /\ runtime' = "draining" /\ open' = open \ all
      /\ cache' = [n \in Names |-> NoSession]
      /\ UNCHANGED <<pc, target, sess>>
      /\ guest' \in [Sessions -> Names \cup {NoName}]
  BY DEF CloseDriver, Close, caller, DriverOK
<1>2. Cached' = {} /\ Cached = all \ {NoSession}
  BY <1>1 DEF Cached
<1>3. Dialling' = Dialling /\ Dialled' = Dialled /\ NoSession \notin open
  BY <1>1, SentinelsAssumption DEF Dialling, Dialled, DriverOK
<1>4. SessionsHeld'
  BY <1>1, <1>2, <1>3 DEF DriverOK, SessionsHeld
<1> QED
  BY <1>1, <1>3, <1>4 DEF DriverOK

-----------------------------------------------------------------------------
\* Store, cache and calls start out consistent: NewStore and New make them empty.
THEOREM Initially == DesktopInit => IInv
<1> SUFFICES ASSUME DesktopInit PROVE IInv
  OBVIOUS
<1>1. Stored = {} /\ Cached = {} /\ Dialled = {} /\ Dialling = {}
  BY DEF DesktopInit, Stored, Cached, Dialled, Dialling
<1>2. Cardinality(Stored) <= Capacity
  BY <1>1, FS_EmptySet, BoundsAssumption
<1>3. StoreOK
  BY <1>2, BoundsAssumption DEF DesktopInit, StoreOK, Never
<1> QED
  BY <1>1, <1>3 DEF IInv, DriverOK, CallPlaces, SessionsHeld, DesktopInit

LEMMA DriverKept ==
  ASSUME DriverOK, [DesktopNext]_desktopVars
  PROVE  DriverOK'
<1> USE DEF store, driver, caller
<1>1. CASE Tick \/ SweepStore \/ CleanGuestFile
  BY <1>1, SameDriver DEF Tick, SweepStore, CleanGuestFile, DriverOK
<1>2. CASE CloseDriver
  BY <1>2, CloseDriverStep
<1>3. CASE CloseStore
  <2>1. /\ runtime = "draining" /\ runtime' = "closed"
        /\ UNCHANGED <<cache, open, guest, pc, target, sess>>
    BY <1>3 DEF CloseStore
  <2>2. Dialling' = Dialling /\ Dialled' = Dialled /\ Cached' = Cached
    BY <2>1 DEF Dialling, Dialled, Cached
  <2> QED
    BY <2>1, <2>2 DEF DriverOK, SessionsHeld
<1>4. ASSUME NEW n \in Names, Mutate(n) \/ Remove(n) \/ PurgeSandbox(n) PROVE DriverOK'
  BY <1>4, SameDriver DEF Mutate, Remove, PurgeSandbox, DriverOK
<1>5. ASSUME NEW n \in Names, CloseSandbox(n) PROVE DriverOK'
  <2>1. /\ Close({cache[n]}) /\ cache' = [cache EXCEPT ![n] = NoSession]
        /\ UNCHANGED <<pc, target, sess, runtime>>
    BY <1>5 DEF CloseSandbox
  <2>2. Dialling' = Dialling /\ Dialled' = Dialled
    BY <2>1 DEF Dialling, Dialled
  <2>3. /\ SessionsHeld'
        /\ cache' \in [Names -> Sessions \cup {NoSession}]
        /\ open' \subseteq Sessions
        /\ guest' \in [Sessions -> Names \cup {NoName}]
        /\ \A m, k \in Names : cache'[m] = cache'[k] /\ cache'[m] # NoSession => m = k
    BY <2>1, <2>2, Dropping
  <2> QED
    BY <2>1, <2>2, <2>3 DEF DriverOK
<1>6. ASSUME NEW n \in Names, Teardown(n) PROVE DriverOK'
  BY <1>6, SameDriver DEF Teardown, WithoutGuest, DriverOK
<1>7. ASSUME NEW c \in Calls, NEW n \in Names, BeginCall(c, n) PROVE DriverOK'
  BY <1>7, MovesOn DEF BeginCall, CallAt, GoOn, CallPlaces, DriverOK
<1>8. ASSUME NEW c \in Calls, CheckExpiry(c) \/ Dial(c) PROVE DriverOK'
  BY <1>8, MovesOn DEF CheckExpiry, Dial, CallAt, GoOn, GiveUp, CallPlaces, DriverOK
<1>9. ASSUME NEW c \in Calls, Lookup(c) PROVE DriverOK'
  BY <1>9, MovesOn DEF Lookup, CallAt, GoOn, GiveUp, CallPlaces, DriverOK
<1>10. ASSUME NEW c \in Calls, ReadExpiry(c) \/ Pull(c) PROVE DriverOK'
  BY <1>10, MovesOn DEF ReadExpiry, Pull, CallAt, GoOn, GiveUp, CallPlaces, DriverOK
<1>11. ASSUME NEW c \in Calls, Publish(c) PROVE DriverOK'
  BY <1>11, MovesOn DEF Publish, CallAt, GoOn, CallPlaces, DriverOK
<1>12. ASSUME NEW c \in Calls, Cleanup(c) PROVE DriverOK'
  BY <1>12, MovesOn DEF Cleanup, CallAt, GoOn, CallPlaces, DriverOK
<1>13. CASE UNCHANGED desktopVars
  BY <1>13, SameDriver DEF desktopVars, DriverOK
<1> QED
  BY <1>1, <1>2, <1>3, <1>4, <1>5, <1>6, <1>7, <1>8, <1>9, <1>10, <1>11, <1>12, <1>13,
     OpenStep, KeepStep, CallToolStep DEF DesktopNext, Step

LEMMA StoreKept ==
  ASSUME IInv, [DesktopNext]_desktopVars
  PROVE  StoreOK'
<1> USE DEF store, driver, caller, IInv
<1>0. UNCHANGED images => Cardinality(Stored') <= Capacity
  BY DEF Stored, StoreOK
<1>1. CASE Tick \/ CleanGuestFile \/ CloseDriver \/ UNCHANGED desktopVars
  BY <1>0, <1>1, BoundsAssumption DEF Tick, CleanGuestFile, CloseDriver, desktopVars, StoreOK
<1>2. CASE SweepStore
  BY <1>2, SweepKeepsStore DEF SweepStore, StoreOK
<1>3. CASE CloseStore
  <2>1. images' = [i \in Ids |-> NoImage]
    BY <1>3 DEF CloseStore
  <2>2. Cardinality(Stored') <= Capacity
    BY <2>1, FewerStored
  <2> QED
    BY <1>3, <2>1, <2>2 DEF CloseStore, StoreOK
<1>4. ASSUME NEW n \in Names, Mutate(n) \/ Remove(n) \/ CloseSandbox(n) \/ Teardown(n) PROVE StoreOK'
  <2>1. \A e \in 0..MaxTime + 1, p \in BOOLEAN : [expires |-> e, pinned |-> p] \in Boxes
    BY DEF Boxes
  <2>2. now \in 0..MaxTime + 1 /\ now + 1 \in 0..MaxTime + 1
    BY BoundsAssumption DEF StoreOK
  <2>3. \A e \in 0..MaxTime + 1 :
          box[n] # NoBox => /\ [box[n] EXCEPT !.expires = e] \in Boxes
                            /\ [box[n] EXCEPT !.pinned = ~@] \in Boxes
    BY DEF StoreOK, Boxes
  <2>4. CASE Mutate(n)
    BY <1>0, <2>1, <2>2, <2>3, <2>4 DEF Mutate, Live, StoreOK
  <2>5. CASE Remove(n)
    BY <1>0, <2>1, <2>2, <2>5 DEF Remove, StoreOK
  <2>6. CASE CloseSandbox(n) \/ Teardown(n)
    BY <1>0, <2>6 DEF CloseSandbox, Teardown, StoreOK
  <2> QED
    BY <1>4, <2>4, <2>5, <2>6
<1>5. ASSUME NEW n \in Names, PurgeSandbox(n) PROVE StoreOK'
  <2> DEFINE f == [i \in Ids |-> IF images[i] # NoImage /\ images[i].of = n THEN NoImage ELSE images[i]]
  <2>1. images' = f /\ \A i \in Ids : f[i] = images[i] \/ f[i] = NoImage
    BY <1>5 DEF PurgeSandbox
  <2>2. Cardinality(Stored') <= Capacity
    BY <2>1, FewerStored
  <2>3. images' \in [Ids -> Images \cup {NoImage}]
    BY <2>1 DEF StoreOK
  <2> QED
    BY <1>5, <2>2, <2>3 DEF PurgeSandbox, StoreOK
<1>6. ASSUME NEW c \in Calls, ReadExpiry(c) PROVE StoreOK'
  <2>1. target[c] \in Names
    BY <1>6 DEF ReadExpiry, CallAt, DriverOK
  <2>2. Live(target[c]) => Expiry(target[c]) \in 0..Never
    BY <2>1, BoundsAssumption DEF Live, Expiry, StoreOK, Boxes, Never
  <2> QED
    BY <1>6, <2>2 DEF ReadExpiry, GiveUp, StoreOK, Stored
<1>7. ASSUME NEW c \in Calls, Publish(c) PROVE StoreOK'
  <2>1. images' \in [Ids -> Images \cup {NoImage}] /\ Cardinality(Stored') <= Capacity
    <3>1. CASE UNCHANGED images
      BY <3>1 DEF StoreOK, Stored
    <3>2. CASE images' = Unexpired
      BY <3>2, SweepKeepsStore
    <3>3. CASE ~(UNCHANGED images \/ images' = Unexpired)
      <4>1. PICK i \in Ids :
              /\ Unexpired[i] = NoImage
              /\ images' = [Unexpired EXCEPT ![i] = [of |-> target[c], expires |-> Kept(deadline[c])]]
        BY <1>7, <3>3 DEF Publish
      <4>2. Cardinality({j \in Ids : Unexpired[j] # NoImage}) < Capacity
        BY <1>7, <3>3 DEF Publish
      <4>3. [of |-> target[c], expires |-> Kept(deadline[c])] \in Images
        BY <1>7, KeptType DEF Publish, CallAt, StoreOK, DriverOK, Images
      <4> QED
        BY <4>1, <4>2, <4>3, OneMoreStored
    <3> QED
      BY <3>1, <3>2, <3>3
  <2> QED
    BY <1>7, <2>1 DEF Publish, StoreOK
<1>8. ASSUME NEW c \in Calls, Cleanup(c) PROVE StoreOK'
  BY <1>8, BoundsAssumption DEF Cleanup, StoreOK, Stored, Never
<1>9. ASSUME NEW c \in Calls, NEW n \in Names, BeginCall(c, n) PROVE StoreOK'
  BY <1>9 DEF BeginCall, StoreOK, Stored
<1>10. ASSUME NEW c \in Calls, CheckExpiry(c) \/ Lookup(c) \/ Dial(c) \/ Pull(c) PROVE StoreOK'
  BY <1>10 DEF CheckExpiry, Lookup, Dial, Pull, GiveUp, StoreOK, Stored
<1>11. ASSUME NEW c \in Calls, Open(c) \/ Keep(c) \/ CallTool(c) PROVE StoreOK'
  BY <1>11 DEF Open, Keep, CallTool, GiveUp, StoreOK, Stored
<1> QED
  BY <1>1, <1>2, <1>3, <1>4, <1>5, <1>6, <1>7, <1>8, <1>9, <1>10, <1>11 DEF DesktopNext, Step

LEMMA Invariance == DesktopSpec => []IInv
<1>1. IInv /\ [DesktopNext]_desktopVars => IInv'
  BY DriverKept, StoreKept DEF IInv
<1> QED
  BY Initially, <1>1, PTL DEF DesktopSpec

\* The state of the module is what its declarations say; in particular the store
\* holds at most Capacity images, whoever publishes, purges and sweeps.
THEOREM TypeCorrect == DesktopSpec => []DesktopTypeOK
<1>1. IInv => DesktopTypeOK
  BY DEF IInv, DriverOK, StoreOK, DesktopTypeOK
<1> QED
  BY Invariance, <1>1, PTL

\* No open exec stream is forgotten by calls that dial, drop and overtake each
\* other while sandboxes are deleted and the driver is closed.
THEOREM NoStreamForgotten == DesktopSpec => []SessionsHeld
<1>1. IInv => SessionsHeld
  BY DEF IInv, DriverOK
<1> QED
  BY Invariance, <1>1, PTL
=============================================================================
