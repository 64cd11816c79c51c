----------------------------- MODULE GuestExec -----------------------------
(***************************************************************************)
(* One command in a guest: Exec, which collects its output, and OpenExec,  *)
(* which returns a stream, on either backend.  On Incus the command runs   *)
(* in the guest, its output arrives over a websocket that one goroutine    *)
(* copies, and a signal goes over another that a second goroutine keeps;   *)
(* on a Mac the command is the ssh process of internal/lume/exec.go, and   *)
(* its output a pipe.                                                      *)
(*                                                                         *)
(* The output is a number of chunks.  A teardown's bound of 5 s may pass   *)
(* in any step in which it runs.                                           *)
(***************************************************************************)
EXTENDS Naturals

CONSTANTS
    Limit,          \* the chunks that drainingWriter keeps
    MaxOutput       \* bound: the chunks a command produces

ASSUME Chunks == Limit \in Nat /\ MaxOutput \in Nat

VARIABLES
    via,            \* the backend: "incus" or "ssh"
    use,            \* "exec" or "stream"
    caller,         \* where the goroutine of the call, or of Close, stands
    context,        \* the call's: "live"; "timeout" of its own, or "cancelled"
    failure,        \* the error in hand: "none", "context" or "other"
    command,        \* "none", "running", "exited" or "killed"
    produced, inFlight,     \* chunks, and those not delivered yet
    copier,         \* the copy of the output: "none", "copying" or "done"
    control,        \* the goroutine that may kill: "none", "waiting" or "done"
    attached,       \* the output has its writer
    kept, truncated,        \* drainingWriter
    reader,         \* the stream's: "reading", "paused" or "released"
    broken,         \* the connection to Incus that broke, or "none"
    result          \* what the caller got, after "returned"

output == <<produced, inFlight, copier, attached, kept, truncated>>
execVars == <<via, use, caller, context, failure, command, output, control, reader, broken, result>>

Ended == {"exited", "killed"}
Connections == {"output", "control", "events"}
Nothing == [is |-> "nothing", kept |-> 0, truncated |-> FALSE]

ExecTypeOK ==
    /\ via \in {"incus", "ssh"} /\ use \in {"exec", "stream"}
    /\ caller \in {"start", "waiting", "draining", "detaching", "detached", "returned",
                   "open", "closing", "reaping", "closed"}
    /\ context \in {"live", "timeout", "cancelled"}
    /\ failure \in {"none", "context", "other"}
    /\ command \in {"none", "running"} \cup Ended
    /\ produced \in 0..MaxOutput /\ inFlight \in 0..produced
    /\ copier \in {"none", "copying", "done"} /\ control \in {"none", "waiting", "done"}
    /\ attached \in BOOLEAN /\ kept \in 0..Limit /\ truncated \in BOOLEAN
    /\ reader \in {"reading", "paused", "released"}
    /\ broken \in Connections \cup {"none"}
    /\ result \in [is : {"nothing", "ok", "timeout", "cancelled", "error"},
                   kept : 0..Limit, truncated : BOOLEAN]

ExecInit ==
    /\ via \in {"incus", "ssh"} /\ use \in {"exec", "stream"}
    /\ caller = "start" /\ context = "live" /\ failure = "none"
    /\ command = "none" /\ produced = 0 /\ inFlight = 0
    /\ copier = "none" /\ control = "none"
    /\ attached = TRUE /\ kept = 0 /\ truncated = FALSE
    /\ reader = "reading" /\ broken = "none" /\ result = Nothing

-----------------------------------------------------------------------------
(* The world: the context, the command, the connections, the reader.         *)

\* A stream is not bounded by the context it was started under.
ContextEnds ==
    /\ context = "live" /\ caller # "returned"
    /\ \/ context' = "cancelled"
       \/ use = "exec" /\ context' = "timeout"
    /\ UNCHANGED <<via, use, caller, failure, command, output, control, reader, broken, result>>

Produce ==
    /\ command = "running" /\ produced < MaxOutput
    /\ produced' = produced + 1 /\ inFlight' = inFlight + 1
    /\ UNCHANGED <<via, use, caller, context, failure, command, copier, control, attached,
                   kept, truncated, reader, broken, result>>

Exit ==
    /\ command = "running" /\ command' = "exited"
    /\ UNCHANGED <<via, use, caller, context, failure, output, control, reader, broken, result>>

Break ==
    /\ via = "incus" /\ command # "none" /\ broken = "none"
    /\ broken' \in Connections
    /\ UNCHANGED <<via, use, caller, context, failure, command, output, control, reader, result>>

Pause ==
    /\ use = "stream" /\ reader # "released" /\ caller = "open"
    /\ reader' = IF reader = "reading" THEN "paused" ELSE "reading"
    /\ UNCHANGED <<via, use, caller, context, failure, command, output, control, broken, result>>

\* A Read ends when the stream is closed.
ReleaseReader ==
    /\ caller = "closed" /\ reader # "released"
    /\ reader' = "released"
    /\ UNCHANGED <<via, use, caller, context, failure, command, output, control, broken, result>>

-----------------------------------------------------------------------------
(* The copier and the control goroutine.                                     *)

\* execStream, and behind it drainingWriter, which never holds a command up; a
\* stream's chunk waits for a reader, or is refused when the stream is closed.
Deliver ==
    /\ copier = "copying" /\ inFlight > 0 /\ broken # "output"
    /\ use = "stream" => (reader = "reading" \/ caller = "closed")
    /\ inFlight' = inFlight - 1
    /\ IF use = "stream" \/ ~attached THEN UNCHANGED <<kept, truncated>>
       ELSE IF kept < Limit THEN kept' = kept + 1 /\ UNCHANGED truncated
       ELSE truncated' = TRUE /\ UNCHANGED kept
    /\ UNCHANGED <<via, use, caller, context, failure, command, produced, copier, control,
                   attached, reader, broken, result>>

\* The output ends with the command, some time after; a broken connection ends it
\* before, a killed command's may stay open.
CopierEnds ==
    /\ copier = "copying"
    /\ (command \in Ended /\ inFlight = 0) \/ broken = "output"
    /\ copier' = "done"
    /\ UNCHANGED <<via, use, caller, context, failure, command, produced, inFlight, control,
                   attached, kept, truncated, reader, broken, result>>

\* finished of Exec, closed of execConn.
Finished == caller \in {"detached", "returned"}
Closing == caller \in {"closing", "reaping", "closed"}

\* On a Mac this is exec.CommandContext, which has no part in a stream.
Kills == IF use = "exec" THEN context # "live" ELSE Closing

Control ==
    /\ control = "waiting" /\ (Kills \/ Finished)
    /\ control' = "done"
    /\ command' = IF Kills /\ command = "running" /\ broken # "control" THEN "killed" ELSE command
    /\ UNCHANGED <<via, use, caller, context, failure, output, reader, broken, result>>

-----------------------------------------------------------------------------
(* Exec.                                                                     *)

Started ==
    /\ command' = "running" /\ copier' = "copying"
    /\ control' = IF via = "ssh" /\ use = "stream" THEN "none" ELSE "waiting"

\* The command is started, or is not.  An OpenExec whose context has ended by
\* then closes what it opened.
StartExec ==
    /\ caller = "start"
    /\ \/ /\ Started
          /\ \/ use = "exec" /\ caller' = "waiting" /\ UNCHANGED failure
             \/ use = "stream" /\ context = "live" /\ caller' = "open" /\ UNCHANGED failure
             \/ /\ use = "stream" /\ context # "live"
                /\ caller' = "closing" /\ failure' = "context"
       \/ /\ caller' = "detaching"
          /\ failure' \in IF context = "live" THEN {"other"} ELSE {"other", "context"}
          /\ UNCHANGED <<command, copier, control>>
    /\ UNCHANGED <<via, use, context, produced, inFlight, attached, kept, truncated, reader,
                   broken, result>>

\* Incus: waitOp, until the command or the context ends or no more is heard of it.
\* ssh: cmd.Run, until the process has ended.
Waited ==
    /\ caller = "waiting"
    /\ \/ command \in Ended /\ UNCHANGED failure
       \/ via = "incus" /\ context # "live" /\ failure' = "context"
       \/ via = "incus" /\ broken = "events" /\ failure' = "other"
    /\ caller' = "draining"
    /\ UNCHANGED <<via, use, context, command, output, control, reader, broken, result>>

\* Fault: drainExec waits for the data alone.
DrainUnbounded == via = "ssh"

\* Incus: drainExec waits in earnest once the context has ended.  ssh: WaitDelay
\* bounds the copy from the process's end on.
DrainBound == via = "ssh" \/ context # "live"

Drained ==
    /\ caller = "draining"
    /\ \/ copier = "done" /\ UNCHANGED failure
       \/ /\ DrainBound /\ failure # "none" /\ UNCHANGED failure
       \/ /\ DrainBound /\ failure = "none"
          /\ failure' = IF context # "live" THEN "context" ELSE "other"
    /\ caller' = "detaching"
    /\ UNCHANGED <<via, use, context, command, output, control, reader, broken, result>>

\* Fault: the daemon's late output still has its writer.
DetachNoStreams ==
    /\ caller = "detaching" /\ caller' = "detached"
    /\ UNCHANGED <<via, use, context, failure, command, output, control, reader, broken, result>>

\* The streams are detached; on a Mac the pipes are closed and the copier has ended.
DetachStreams ==
    /\ caller = "detaching" /\ caller' = "detached"
    /\ attached' = FALSE
    /\ copier' = IF via = "ssh" THEN "done" ELSE copier
    /\ UNCHANGED <<via, use, context, failure, command, produced, inFlight, control, kept,
                   truncated, reader, broken, result>>

\* Service.exec: a cancelled caller gets an error whatever the backend returned, a
\* command that ran out of its own time gets a result that says so.
Outcome ==
    IF context = "cancelled" THEN "cancelled"
    ELSE IF failure = "context" \/ (via = "ssh" /\ context # "live") THEN context
    ELSE IF failure = "none" THEN "ok"
    ELSE "error"

ReturnExec ==
    /\ caller = "detached" /\ caller' = "returned"
    /\ result' = [is |-> Outcome, kept |-> kept, truncated |-> truncated]
    /\ UNCHANGED <<via, use, context, failure, command, output, control, reader, broken>>

-----------------------------------------------------------------------------
(* execConn.Close, the first of however many.                                *)

\* ssh: the caller kills the process group itself.
Close ==
    /\ caller = "open" /\ caller' = "closing"
    /\ UNCHANGED <<via, use, context, failure, command, output, control, reader, broken, result>>

KillGroup ==
    /\ caller = "closing" /\ via = "ssh" /\ command = "running"
    /\ command' = "killed"
    /\ UNCHANGED <<via, use, caller, context, failure, output, control, reader, broken, result>>

\* Incus: dataDone, or its bound.
AwaitData ==
    /\ caller = "closing" /\ (via = "ssh" => command # "running")
    /\ caller' = "reaping"
    /\ UNCHANGED <<via, use, context, failure, command, output, control, reader, broken, result>>

\* Incus: the operation, or the same bound; ssh: the process, or a second bound.
\* (The OpenExec that fails waits for the process alone, which has been killed.)
Reap ==
    /\ caller = "reaping" /\ caller' = "closed"
    /\ UNCHANGED <<via, use, context, failure, command, output, control, reader, broken, result>>

-----------------------------------------------------------------------------
ExecNext ==
    \/ ContextEnds \/ Produce \/ Exit \/ Break \/ Pause \/ ReleaseReader
    \/ Deliver \/ CopierEnds \/ Control
    \/ StartExec \/ Waited \/ Drained \/ DetachStreams \/ ReturnExec
    \/ Close \/ KillGroup \/ AwaitData \/ Reap

\* Goroutines that can go on do, and timers fire; nothing is assumed of the
\* command, of Incus, or of the stream's user.
ExecFairness ==
    /\ WF_execVars(Waited) /\ WF_execVars(Drained) /\ WF_execVars(DetachStreams) /\ WF_execVars(ReturnExec)
    /\ WF_execVars(Control) /\ WF_execVars(KillGroup)
    /\ WF_execVars(AwaitData) /\ WF_execVars(Reap) /\ WF_execVars(ReleaseReader)

ExecSpec == ExecInit /\ [][ExecNext]_execVars /\ ExecFairness

-----------------------------------------------------------------------------
\* What Exec returned is final, even when Incus leaves an output connection open
\* and output comes later; and a command that ended in time, whose connection did
\* not break, is returned with all of its output, or is marked as truncated.
OutputFinal ==
    caller = "returned" =>
        /\ result.kept = kept /\ result.truncated = truncated
        /\ (result.is = "ok" /\ broken # "output") =>
              /\ result.kept = (IF produced < Limit THEN produced ELSE Limit)
              /\ result.truncated = (produced > Limit)

\* Whatever the command does: an Exec whose context ends returns, Close returns and
\* lets a blocked reader go, and the command is killed, unless the control
\* connection broke.
CutShort ==
    (caller # "start" /\ use = "exec" /\ context # "live") \/ Closing ~>
        /\ caller \in {"returned", "closed"}
        /\ caller = "closed" => reader = "released"
        /\ command = "running" => broken = "control"
=============================================================================
