------------------------------ MODULE Watcher ------------------------------
(***************************************************************************)
(* tools/proxy/internal/watch/watch.go: a tree of folders is watched one   *)
(* by one.  A walk registers what it finds, of the whole tree at first and *)
(* of each new folder later, while the tree goes on changing.  fsnotify,   *)
(* modelled from its use, reports what changes in the folders registered   *)
(* then, in order, or that it dropped something.                           *)
(***************************************************************************)
EXTENDS Naturals, Sequences, FiniteSets

CONSTANTS
    Folders, Root,
    Inside,         \* the folder each other folder is in
    NoFolder, Chmod,
    QueueLimit,     \* of fsnotify's events
    WatchLimit      \* how many folders the system lets it watch

ASSUME Tree == Root \in Folders /\ Inside \in [Folders \ {Root} -> Folders]
ASSUME EventsApart == NoFolder \notin Folders /\ Chmod \notin Folders \cup {NoFolder}
ASSUME WatchBounds == QueueLimit \in Nat \ {0} /\ WatchLimit \in Nat

VARIABLES
    present,    \* the folders there are
    changed,    \* history: those changed, or new, since the core last heard
    registered, \* those registered, which go with the folder
    events,     \* fsw.Events: a new folder, Chmod, or NoFolder for any other change
    overflow,   \* fsw.Errors: some were dropped
    doing,      \* "starting", "idle", "walking" or "forwarding"
    todo,       \* what the walk has found and not yet visited
    reading,    \* the folder it has registered and will list
    givenUp     \* history: folders no walk will come to

watchVars == <<present, changed, registered, events, overflow, doing, todo, reading, givenUp>>
queue == <<events, overflow>>

\* A folder and those around it: what every set that has it, and with a folder
\* the one that is in, has.
Upward(S) == \A f \in S \ {Root} : Inside[f] \in S
Around == [f \in Folders |->
              {g \in Folders : \A S \in SUBSET Folders : f \in S /\ Upward(S) => g \in S}]
ASSUME Rooted == \A f \in Folders : Root \in Around[f]
Under(f) == {g \in Folders : f \in Around[g]}
Within(f) == {g \in Folders \ {Root} : Inside[g] = f}

WatchTypeOK ==
    /\ present \subseteq Folders /\ \A f \in present : Around[f] \subseteq present
    /\ changed \subseteq present /\ registered \subseteq present /\ givenUp \subseteq present
    /\ events \in Seq(Folders \cup {NoFolder, Chmod}) /\ Len(events) <= QueueLimit
    /\ overflow \in BOOLEAN
    /\ doing \in {"starting", "idle", "walking", "forwarding"}
    /\ todo \subseteq Folders /\ reading \in Folders \cup {NoFolder}

\* Watch, of the one folder it was given.
Fresh ==
    /\ registered' = {} /\ events' = <<>> /\ overflow' = FALSE
    /\ doing' = "starting" /\ todo' = {Root} /\ reading' = NoFolder
    /\ changed' = {} /\ givenUp' = {}

WatchInit ==
    /\ \E S \in SUBSET Folders :
          Root \in S /\ (\A f \in S : Around[f] \subseteq S) /\ present = S
    /\ changed = {} /\ registered = {} /\ events = <<>> /\ overflow = FALSE
    /\ doing = "starting" /\ todo = {Root} /\ reading = NoFolder /\ givenUp = {}

-----------------------------------------------------------------------------
(* The tree.                                                                 *)

Full == Len(events) = QueueLimit

\* What fsnotify makes of a change in f.
Report(f, e) ==
    IF f \notin registered THEN UNCHANGED queue
    ELSE IF Full THEN overflow' = TRUE /\ UNCHANGED events
    ELSE events' = Append(events, e) /\ UNCHANGED overflow

\* A file in f is written, made or removed.
EditFile(f) ==
    /\ f \in present
    /\ changed' = changed \cup {f}
    /\ Report(f, NoFolder)
    /\ UNCHANGED <<present, registered, doing, todo, reading, givenUp>>

ChangeMode(f) ==
    /\ f \in registered
    /\ Report(f, Chmod)
    /\ UNCHANGED <<present, changed, registered, doing, todo, reading, givenUp>>

\* f is made, or moved here with folders in it: one event.
Appear(f, more) ==
    /\ f \notin present /\ Inside[f] \in present
    /\ \A g \in more \ {f} : Inside[g] \in more
    /\ present' = present \cup more
    /\ changed' = changed \cup more \cup {Inside[f]}
    /\ Report(Inside[f], f)
    /\ givenUp' = IF Inside[f] \in registered /\ Full THEN givenUp \cup {f} ELSE givenUp
    /\ UNCHANGED <<registered, doing, todo, reading>>

Vanish(f) ==
    /\ f \in present \ {Root}
    /\ present' = present \ Under(f) /\ registered' = registered \ Under(f)
    /\ givenUp' = givenUp \ Under(f)
    /\ changed' = (changed \ Under(f)) \cup {Inside[f]}
    /\ Report(Inside[f], NoFolder)
    /\ UNCHANGED <<doing, todo, reading>>

-----------------------------------------------------------------------------
(* addRecursive.                                                             *)

\* The first error ends a walk: the first walk's is Watch's, and the proxy's
\* end until it is started again; a later one's is logged.
Abandon ==
    \/ doing = "starting" /\ Fresh
    \/ /\ doing = "walking" /\ doing' = "forwarding"
       /\ givenUp' = givenUp \cup (todo \cap present)
       /\ todo' = {} /\ reading' = NoFolder
       /\ UNCHANGED <<changed, registered, queue>>

\* In lexical order, here in any.
Register(f) ==
    /\ reading = NoFolder /\ f \in todo
    /\ IF f \in present /\ Cardinality(registered \cup {f}) <= WatchLimit
       THEN /\ registered' = registered \cup {f} /\ givenUp' = givenUp \ {f}
            /\ todo' = todo \ {f} /\ reading' = f
            /\ UNCHANGED <<changed, queue, doing>>
       ELSE Abandon
    /\ UNCHANGED present

ListFolder ==
    /\ reading # NoFolder
    /\ IF reading \in present
       THEN /\ todo' = todo \cup (Within(reading) \cap present) /\ reading' = NoFolder
            /\ UNCHANGED <<changed, registered, queue, doing, givenUp>>
       ELSE Abandon
    /\ UNCHANGED present

\* Once it watches, the proxy makes its first build.
EndWalk ==
    /\ doing \in {"starting", "walking"} /\ todo = {} /\ reading = NoFolder
    /\ IF doing = "walking" THEN doing' = "forwarding" /\ UNCHANGED changed
       ELSE doing' = "idle" /\ changed' = {}
    /\ UNCHANGED <<present, registered, queue, todo, reading, givenUp>>

-----------------------------------------------------------------------------
(* loop.                                                                     *)

\* handleEvent and addCreatedDir: a new folder is registered before its event is
\* forwarded, unless it is gone by now; a change of mode is noise.
HandleEvent ==
    /\ doing = "idle" /\ events # <<>>
    /\ events' = Tail(events)
    /\ \/ Head(events) = Chmod /\ UNCHANGED <<doing, todo>>
       \/ Head(events) \in present /\ doing' = "walking" /\ todo' = {Head(events)}
       \/ Head(events) \notin present \cup {Chmod} /\ doing' = "forwarding" /\ UNCHANGED todo
    /\ UNCHANGED <<present, changed, registered, overflow, reading, givenUp>>

\* Fault: every error is only logged.
HandleErrorLogging ==
    /\ doing = "idle" /\ overflow
    /\ overflow' = FALSE
    /\ UNCHANGED <<present, changed, registered, events, doing, todo, reading, givenUp>>

HandleError ==
    /\ doing = "idle" /\ overflow
    /\ overflow' = FALSE /\ doing' = "forwarding"
    /\ UNCHANGED <<present, changed, registered, events, todo, reading, givenUp>>

\* The core builds what is in the tree from now on.
ForwardEvent ==
    /\ doing = "forwarding" /\ doing' = "idle"
    /\ changed' = {}
    /\ UNCHANGED <<present, registered, queue, todo, reading, givenUp>>

WatchNext ==
    \/ \E f \in Folders : EditFile(f) \/ ChangeMode(f) \/ Vanish(f) \/ Register(f)
    \/ \E f \in Folders \ {Root} : \E more \in SUBSET Under(f) : f \in more /\ Appear(f, more)
    \/ ListFolder \/ EndWalk \/ HandleEvent \/ HandleError \/ ForwardEvent

WatchSpec == WatchInit /\ [][WatchNext]_watchVars

-----------------------------------------------------------------------------
Settled == doing = "idle" /\ events = <<>> /\ ~overflow
Forsaken(f) == \E g \in givenUp : f \in Under(g)

\* "A dropped event must still trigger a rebuild", and a file made in a new folder
\* before the walk comes to it "is picked up without an event": with nothing left
\* to handle, the core has heard of every change since it built, and every folder
\* is watched, but for the folders at which a walk broke off or whose own event
\* was dropped.
NothingMissed ==
    Settled => \A f \in present : Forsaken(f) \/ (f \in registered /\ f \notin changed)

\* "It watches the configured directories recursively, registering newly created
\* subdirectories as they appear" (watch.go:41).
RegisteredAsTheyAppear == Settled => present \subseteq registered
=============================================================================
