---------------------------- MODULE ModelRuntime ----------------------------
(***************************************************************************)
(* The host's model runtime (apps/core/src/lilavel_core/runtime.py) and    *)
(* the sidecar process it supervises (apps/model-sidecar/src/server.ts,    *)
(* index.ts), over the two pipes between them.                             *)
(*                                                                         *)
(* Host threads: callers of generate(), cancel() and shutdown(), which     *)
(* hold the command lock over the write of their command; the reader of    *)
(* the sidecar's events; and the cancellation watchdog.  A frame is a      *)
(* record; text, limits and queue sizes are the outcome of offering a      *)
(* delta.  The provider may stream, finish, fail or hang.                  *)
(***************************************************************************)
EXTENDS Integers, Sequences, FiniteSets

CONSTANTS Generations, \* requests; each is generated at most once
          NoGeneration,
          MaxDeltas    \* bound on the deltas one generation streams

ASSUME RuntimeAssumption == NoGeneration \notin Generations /\ MaxDeltas \in Nat

VARIABLES
  rtState,      \* _state
  rtFailure,    \* _failure: None or the kind of failure
  occupant,     \* _active: [gen, phase, accepted], gen = NoGeneration if none
  handles,      \* how the handle of each generation settled
  epochs,       \* epoch of each generation, 0 before generate()
  command,      \* the command being written under _command_lock, or NoCommand
  limitCancel,  \* the reader is about to write a cancel after an output limit
  broken,       \* _write_broken
  ack,          \* _shutdown_event_seen
  reader,       \* reader thread: reading, eof (_reader_eof) or failed
  toSidecar,    \* the sidecar's stdin
  toHost,       \* the sidecar's stdout
  sidecar,      \* server and ModelSidecar: [state, gen, abort, limit, terminal, streamed]
  process       \* running, or its exit code

ownVars == <<rtState, rtFailure, occupant, handles, epochs, command, limitCancel, broken, ack, reader>>
sideVars == <<sidecar, process>>
runtimeVars == <<ownVars, toSidecar, toHost, sideVars>>

NoCommand == [type |-> "none", gen |-> NoGeneration]
Command(type, g) == [type |-> type, gen |-> g]
Event(type, g) == [type |-> type, gen |-> g, code |-> "none"]
Failed(g, code) == [type |-> "failed", gen |-> g, code |-> code]
Idle == [gen |-> NoGeneration, phase |-> "none", accepted |-> FALSE]
Vacant == [gen |-> NoGeneration, abort |-> FALSE, limit |-> FALSE, terminal |-> FALSE, streamed |-> 0]

TerminalResults == {"completed", "cancelled", "failed"}
Unconfirmed == {"cleanup_timeout", "cleanup_error", "shutdown_timeout", "cancellation_timeout"}

RuntimeInit ==
  /\ rtState = "new" /\ rtFailure = "none"
  /\ occupant = Idle
  /\ handles = [g \in Generations |-> "none"]
  /\ epochs = [g \in Generations |-> 0]
  /\ command = NoCommand /\ limitCancel = FALSE /\ broken = FALSE
  /\ ack = FALSE /\ reader = "reading"
  /\ toSidecar = << >> /\ toHost = << >>
  /\ sidecar = [work |-> Vacant, state |-> "starting", fatal |-> FALSE]
  /\ process = "absent"
-----------------------------------------------------------------------------
(* Settling, under _lock. *)

\* Mutant: a settled handle takes another result.
SettleAgain(g, result) == [handles EXCEPT ![g] = result]

\* GenerationHandle settles once.
Settle(g, result) ==
  [handles EXCEPT ![g] = IF @ \in TerminalResults THEN @ ELSE result]

\* _finish_pending_locked, with the handle settled.
Finishes(result) ==
  /\ handles' = Settle(occupant.gen, result)
  /\ occupant' = Idle
  /\ rtState' = IF rtState = "busy" THEN "ready" ELSE rtState
  /\ UNCHANGED rtFailure

\* _fail_runtime_locked: what is active fails with the runtime.  The process
\* is terminated in a thread of its own: Crashes.
FailsRuntime(kind) ==
  IF rtState \in {"closed", "failed"} THEN UNCHANGED <<rtState, rtFailure, occupant, handles>>
  ELSE /\ rtState' = "failed" /\ rtFailure' = kind
       /\ handles' = IF occupant = Idle THEN handles ELSE Settle(occupant.gen, "failed")
       /\ occupant' = Idle
-----------------------------------------------------------------------------
(* Commands of the host.  The command lock is free when command = NoCommand. *)

StartRuntime ==
  /\ rtState = "new"
  /\ \/ rtState' = "starting" /\ process' = "running" /\ UNCHANGED rtFailure
     \/ rtState' = "failed" /\ rtFailure' = "crashed" /\ UNCHANGED process
  /\ UNCHANGED <<occupant, handles, epochs, command, limitCancel, broken, ack, reader, toSidecar,
                 toHost, sidecar>>

\* start() gives up on a sidecar that does not become ready.
StartTimesOut ==
  /\ rtState = "starting" /\ FailsRuntime("start_timeout")
  /\ UNCHANGED <<epochs, command, limitCancel, broken, ack, reader, toSidecar, toHost, sideVars>>

\* generate() reserves the slot; the command follows under the command lock.
Reserve(g) ==
  /\ command = NoCommand /\ rtState = "ready" /\ occupant = Idle /\ handles[g] = "none"
  /\ occupant' = [gen |-> g, phase |-> "created", accepted |-> FALSE]
  /\ handles' = [handles EXCEPT ![g] = "open"]
  /\ epochs' = [epochs EXCEPT ![g] = 1 + Cardinality({p \in Generations : epochs[p] > 0})]
  /\ rtState' = "busy"
  /\ command' = Command("generate", g)
  /\ UNCHANGED <<rtFailure, limitCancel, broken, ack, reader, toSidecar, toHost, sideVars>>

\* cancel() marks what is active, unless it is being cancelled already.
CancelActive(g) ==
  /\ command = NoCommand /\ occupant.gen = g /\ occupant.phase # "cancelling"
  /\ occupant' = [occupant EXCEPT !.phase = "cancelling"]
  /\ command' = Command("cancel", g)
  /\ UNCHANGED <<rtState, rtFailure, handles, epochs, limitCancel, broken, ack, reader, toSidecar,
                 toHost, sideVars>>

\* The command that is held reaches the pipe, which nothing may read any more.
Written ==
  /\ command # NoCommand /\ command.type # "closing" /\ ~broken
  /\ toSidecar' = Append(toSidecar, command)
  /\ command' = IF command.type = "shutdown" THEN Command("closing", NoGeneration) ELSE NoCommand
  /\ UNCHANGED <<rtState, rtFailure, occupant, handles, epochs, limitCancel, broken, ack, reader,
                 toHost, sideVars>>

\* A command that cannot be encoded fails its generation only.
Unencodable ==
  /\ command.type = "generate" /\ occupant.gen = command.gen
  /\ Finishes("failed")
  /\ command' = NoCommand
  /\ UNCHANGED <<epochs, limitCancel, broken, ack, reader, toSidecar, toHost, sideVars>>

\* The write fails or times out, and the runtime with it.
WriteFails ==
  /\ command.type \in {"generate", "cancel", "shutdown"}
  /\ broken' = TRUE
  /\ FailsRuntime("crashed")
  /\ command' = IF command.type = "shutdown" THEN Command("closing", NoGeneration) ELSE NoCommand
  /\ UNCHANGED <<epochs, limitCancel, ack, reader, toSidecar, toHost, sideVars>>
-----------------------------------------------------------------------------
(* Shutdown. *)

ShutdownStarts ==
  /\ command = NoCommand /\ rtState \notin {"shutting_down", "closed", "failed"}
  /\ IF rtState = "new"
     THEN rtState' = "closed" /\ UNCHANGED <<occupant, command, toSidecar>>
     ELSE /\ rtState' = "shutting_down"
          /\ occupant' = IF occupant = Idle THEN Idle ELSE [occupant EXCEPT !.phase = "cancelling"]
          /\ command' = Command("shutdown", NoGeneration)
          /\ toSidecar' = IF occupant = Idle THEN toSidecar
                          ELSE Append(toSidecar, Command("cancel", occupant.gen))
  /\ UNCHANGED <<rtFailure, handles, epochs, limitCancel, broken, ack, reader, toHost, sideVars>>

\* The deadline passes: the operation fails before its process is terminated.
ShutdownExpires ==
  /\ command.type = "closing" /\ process = "running"
  /\ rtState' = "failed" /\ rtFailure' = IF rtFailure = "none" THEN "shutdown_timeout" ELSE rtFailure
  /\ handles' = IF occupant = Idle THEN handles ELSE Settle(occupant.gen, "failed")
  /\ occupant' = Idle /\ process' = "crashed" /\ command' = NoCommand
  /\ UNCHANGED <<epochs, limitCancel, broken, ack, reader, toSidecar, toHost, sidecar>>

Clean ==
  rtFailure = "none" /\ process = "exited" /\ reader = "eof" /\ ack /\ occupant = Idle

\* The process is gone and its reader joined, if it ended in time: closed only
\* when nothing was left open.
ShutdownJoined ==
  /\ command.type = "closing" /\ process # "running" /\ command' = NoCommand
  /\ rtState' = IF Clean THEN "closed" ELSE "failed"
  /\ rtFailure' = IF rtFailure = "none" /\ ~Clean THEN "crashed" ELSE rtFailure
  /\ handles' = IF occupant = Idle THEN handles ELSE Settle(occupant.gen, "failed")
  /\ occupant' = Idle
  /\ UNCHANGED <<epochs, limitCancel, broken, ack, reader, toSidecar, toHost, sideVars>>
-----------------------------------------------------------------------------
(* The reader thread: _dispatch of the next frame. *)

Received(type) ==
  /\ reader = "reading" /\ ~limitCancel /\ toHost # << >> /\ Head(toHost).type = type
  /\ toHost' = Tail(toHost)
  /\ UNCHANGED <<epochs, command, broken, reader, toSidecar, sideVars>>

\* The frame is of the active generation; frames of earlier ones are ignored.
Addressed(event) == occupant # Idle /\ event.gen = occupant.gen
Ignorable(event) ==
  IF occupant = Idle THEN epochs[event.gen] > 0 ELSE epochs[event.gen] < epochs[occupant.gen]

ReadyReceived ==
  /\ Received("ready")
  /\ CASE rtState = "starting" -> rtState' = "ready" /\ UNCHANGED <<rtFailure, occupant, handles, process>>
       [] rtState = "shutting_down" -> UNCHANGED <<rtState, rtFailure, occupant, handles>>
       [] OTHER -> FailsRuntime("protocol_violation")
  /\ UNCHANGED <<limitCancel, ack>>

ShutdownReceived ==
  /\ Received("shutdown")
  /\ IF rtState \in {"shutting_down", "failed"}
     THEN ack' = TRUE /\ UNCHANGED <<rtState, rtFailure, occupant, handles>>
     ELSE FailsRuntime("protocol_violation") /\ UNCHANGED ack
  /\ UNCHANGED limitCancel

\* The sidecar failed as a whole: start-up, or a frame it could not read.
SidecarFailedReceived ==
  /\ Received("failed") /\ Head(toHost).gen = NoGeneration
  /\ FailsRuntime("generation_failed")
  /\ UNCHANGED <<limitCancel, ack>>

\* Frames of no active generation leave no trace, or break the protocol.
StrayReceived ==
  /\ \E type \in {"accepted", "delta", "completed", "cancelled", "failed"} : Received(type)
  /\ Head(toHost).gen # NoGeneration /\ ~Addressed(Head(toHost))
  /\ IF Ignorable(Head(toHost)) THEN UNCHANGED <<rtState, rtFailure, occupant, handles>>
     ELSE FailsRuntime("protocol_violation")
  /\ UNCHANGED <<limitCancel, ack>>

\* Mutant: accepted is refused once a cancel is under way.
MayAcceptFresh == occupant.phase = "created" /\ ~occupant.accepted

MayAccept == occupant.phase \in {"created", "cancelling"} /\ ~occupant.accepted

\* accepted may race with the cancel command, once.
AcceptedReceived ==
  /\ Received("accepted") /\ Addressed(Head(toHost))
  /\ IF MayAccept
     THEN /\ occupant' = [occupant EXCEPT !.accepted = TRUE,
                                      !.phase = IF @ = "created" THEN "accepted" ELSE @]
          /\ UNCHANGED <<rtState, rtFailure, handles, process>>
     ELSE FailsRuntime("protocol_violation")
  /\ UNCHANGED <<limitCancel, ack>>

\* A delta is offered to the handle, unless the generation is being cancelled.
DeltaReceived ==
  /\ Received("delta") /\ Addressed(Head(toHost))
  /\ \/ /\ occupant.phase = "cancelling"
        /\ UNCHANGED <<rtState, rtFailure, occupant, handles, limitCancel>>
     \/ /\ occupant.phase = "created"
        /\ FailsRuntime("protocol_violation") /\ UNCHANGED limitCancel
     \/ /\ occupant.phase \in {"accepted", "streaming"}
        /\ occupant' = [occupant EXCEPT !.phase = "streaming"]
        /\ UNCHANGED <<rtState, rtFailure, handles, limitCancel>>
     \/ /\ occupant.phase \in {"accepted", "streaming"}
        /\ FailsRuntime("queue_overflow") /\ UNCHANGED limitCancel
     \/ /\ occupant.phase \in {"accepted", "streaming"}
        /\ occupant' = [occupant EXCEPT !.phase = "cancelling"]
        /\ handles' = Settle(occupant.gen, "failed")
        /\ limitCancel' = TRUE
        /\ UNCHANGED <<rtState, rtFailure>>
  /\ UNCHANGED ack

\* The cancel after an output limit is written by the reader itself, without
\* the command lock.
LimitCancelWritten ==
  /\ limitCancel /\ limitCancel' = FALSE
  /\ \/ /\ ~broken
        /\ toSidecar' = IF occupant = Idle THEN toSidecar
                        ELSE Append(toSidecar, Command("cancel", occupant.gen))
        /\ UNCHANGED <<rtState, rtFailure, occupant, handles, broken>>
     \/ /\ broken' = TRUE /\ FailsRuntime("crashed") /\ UNCHANGED toSidecar
  /\ UNCHANGED <<epochs, command, ack, reader, toHost, sideVars>>

\* A terminal frame; a failure whose cleanup was not confirmed fails the runtime.
TerminalReceived ==
  /\ \E type \in TerminalResults :
       /\ Received(type) /\ Addressed(Head(toHost))
       /\ IF type = "failed"
          THEN IF Head(toHost).code \in Unconfirmed THEN FailsRuntime("generation_failed")
               ELSE Finishes("failed")
          ELSE IF occupant.phase = "created" THEN FailsRuntime("protocol_violation")
               ELSE Finishes(type)
  /\ UNCHANGED <<limitCancel, ack>>

\* The pipe ends with the process, after everything that was written to it.
ReaderEnds ==
  /\ reader = "reading" /\ ~limitCancel /\ toHost = << >>
  /\ process \in {"exited", "crashed"}
  /\ reader' = "eof"
  /\ IF rtState = "shutting_down" /\ process = "exited"
     THEN UNCHANGED <<rtState, rtFailure, occupant, handles>>
     ELSE FailsRuntime("crashed")
  /\ UNCHANGED <<epochs, command, limitCancel, broken, ack, toSidecar, toHost, sideVars>>

\* Mutant: the watchdog only knows accepted generations.
WatchdogSkips ==
  /\ occupant.phase = "cancelling" /\ occupant.accepted /\ rtState \notin {"closed", "failed"}
  /\ FailsRuntime("cancellation_timeout")
  /\ UNCHANGED <<epochs, command, limitCancel, broken, ack, reader, toSidecar, toHost, sideVars>>

\* The watchdog of a cancellation that does not settle.
WatchdogFires ==
  /\ occupant.phase = "cancelling" /\ rtState \notin {"closed", "failed"}
  /\ FailsRuntime("cancellation_timeout")
  /\ UNCHANGED <<epochs, command, limitCancel, broken, ack, reader, toSidecar, toHost, sideVars>>
-----------------------------------------------------------------------------
(* The sidecar. *)

Says(events) == toHost' = toHost \o events
Works(changes) == sidecar' = [sidecar EXCEPT !.work = changes]

SidecarReady ==
  /\ process = "running" /\ sidecar.state = "starting"
  /\ \/ sidecar' = [sidecar EXCEPT !.state = "serving"] /\ Says(<<Event("ready", NoGeneration)>>)
     \/ /\ sidecar' = [sidecar EXCEPT !.state = "ending", !.fatal = TRUE]
        /\ Says(<<Failed(NoGeneration, "startup_error")>>)
  /\ UNCHANGED <<ownVars, toSidecar, process>>

Reads(type) ==
  /\ process = "running" /\ sidecar.state = "serving" /\ ~sidecar.fatal
  /\ toSidecar # << >> /\ Head(toSidecar).type = type
  /\ toSidecar' = Tail(toSidecar)
  /\ UNCHANGED <<ownVars, process>>

\* A generation whose terminal frame is out is waited for; one that is still
\* running makes the sidecar busy.
ReadGenerate ==
  /\ Reads("generate")
  /\ LET g == Head(toSidecar).gen
     IN \/ /\ sidecar.work.gen = NoGeneration
           /\ \/ /\ Works([Vacant EXCEPT !.gen = g])
                 /\ Says(<<Event("accepted", g)>>)
              \/ Says(<<Failed(g, "provider_error")>>) /\ UNCHANGED sidecar
        \/ /\ sidecar.work.gen # NoGeneration /\ ~sidecar.work.terminal
           /\ Says(<<Failed(g, "busy")>>) /\ UNCHANGED sidecar

ReadCancel ==
  /\ Reads("cancel")
  /\ LET g == Head(toSidecar).gen
         here == sidecar.work.gen = g /\ ~sidecar.work.terminal
     IN IF here THEN Works([sidecar.work EXCEPT !.abort = TRUE]) /\ UNCHANGED toHost
        ELSE Says(<<Failed(g, "not_active")>>) /\ UNCHANGED sidecar

\* Closing aborts what is active and waits for it.
ReadShutdown ==
  /\ Reads("shutdown")
  /\ sidecar' = [sidecar EXCEPT !.state = "closing",
                                !.work.abort = sidecar.work.gen # NoGeneration]
  /\ UNCHANGED toHost

Running == process = "running" /\ sidecar.work.gen # NoGeneration /\ ~sidecar.work.terminal

\* The provider streams; nothing is passed on once the generation is aborted.
Streams ==
  /\ Running /\ ~sidecar.work.abort /\ sidecar.work.streamed < MaxDeltas
  /\ \/ /\ Works([sidecar.work EXCEPT !.streamed = @ + 1])
        /\ Says(<<Event("delta", sidecar.work.gen)>>)
     \/ Works([sidecar.work EXCEPT !.abort = TRUE, !.limit = TRUE]) /\ UNCHANGED toHost
  /\ UNCHANGED <<ownVars, toSidecar, process>>

\* The provider ends and has been cleaned up.  An abort may come too late to
\* stop it; what went over the output limit is reported as that.
ProviderEnds ==
  /\ Running
  /\ LET g == sidecar.work.gen
         end(event) == Says(<<event>>)
     IN \/ sidecar.work.limit /\ end(Failed(g, "output_limit"))
        \/ ~sidecar.work.limit /\ end(Event("completed", g))
        \/ ~sidecar.work.limit /\ sidecar.work.abort /\ end(Event("cancelled", g))
        \/ ~sidecar.work.limit /\ end(Failed(g, "provider_error"))
  /\ Works([sidecar.work EXCEPT !.terminal = TRUE])
  /\ UNCHANGED <<ownVars, toSidecar, process>>

\* Cleanup is not confirmed: the sidecar accepts no more work.
CleanupFails ==
  /\ Running
  /\ Says(<<Failed(sidecar.work.gen, "cleanup_timeout")>>)
  /\ sidecar' = [sidecar EXCEPT !.work.terminal = TRUE, !.fatal = TRUE]
  /\ UNCHANGED <<ownVars, toSidecar, process>>

\* #finishActive, once the result of the generation has been observed.
FinishActive ==
  /\ process = "running" /\ sidecar.work.terminal
  /\ Works(Vacant)
  /\ UNCHANGED <<ownVars, toSidecar, toHost, process>>

\* The sidecar has closed in time, and acknowledges if nothing went wrong.
Closes ==
  /\ process = "running"
  /\ sidecar.state \in {"closing", "ending"} \/ sidecar.fatal
  /\ sidecar.work.gen = NoGeneration
  /\ IF sidecar.state = "closing" /\ ~sidecar.fatal
     THEN Says(<<Event("shutdown", NoGeneration)>>) /\ process' = "exited"
     ELSE UNCHANGED toHost /\ process' = "crashed"
  /\ UNCHANGED <<ownVars, toSidecar, sidecar>>

\* Closing takes too long: the generation is reported and the exit forced.
CloseTimesOut ==
  /\ Running /\ (sidecar.state = "closing" \/ sidecar.fatal)
  /\ Says(<<Failed(sidecar.work.gen, "shutdown_timeout")>>)
  /\ process' = "crashed"
  /\ UNCHANGED <<ownVars, toSidecar, sidecar>>

\* The process dies, or its output cannot be written any more.
Crashes ==
  /\ process = "running" /\ process' = "crashed"
  /\ UNCHANGED <<ownVars, toSidecar, toHost, sidecar>>
-----------------------------------------------------------------------------
Dispatch ==
  \/ ReadyReceived \/ ShutdownReceived \/ SidecarFailedReceived \/ StrayReceived
  \/ AcceptedReceived \/ DeltaReceived \/ TerminalReceived

SidecarStep ==
  \/ SidecarReady \/ ReadGenerate \/ ReadCancel \/ ReadShutdown \/ Streams \/ ProviderEnds
  \/ CleanupFails \/ FinishActive \/ Closes \/ CloseTimesOut \/ Crashes

RuntimeNext ==
  \/ StartRuntime \/ StartTimesOut
  \/ \E g \in Generations : Reserve(g) \/ CancelActive(g)
  \/ Written \/ Unencodable \/ WriteFails
  \/ ShutdownStarts \/ ShutdownExpires \/ ShutdownJoined
  \/ Dispatch \/ LimitCancelWritten \/ ReaderEnds \/ WatchdogFires
  \/ SidecarStep

\* The reader, the watchdog and the lock holder are threads of their own.
RuntimeFairness ==
  /\ WF_runtimeVars(Dispatch \/ LimitCancelWritten \/ ReaderEnds)
  /\ WF_runtimeVars(WatchdogFires)
  /\ WF_runtimeVars(Written \/ WriteFails)
  /\ WF_runtimeVars(ShutdownExpires \/ ShutdownJoined)

RuntimeSpec == RuntimeInit /\ [][RuntimeNext]_runtimeVars /\ RuntimeFairness
-----------------------------------------------------------------------------
(* Properties. *)

\* Against a sidecar that keeps to its own protocol, no order of commands,
\* frames, cancellations and limits makes the host take it for broken, and the
\* host never asks for a generation the sidecar is not free for (runtime.py:960).
WireAgrees ==
  /\ rtFailure # "protocol_violation"
  /\ \A i \in DOMAIN toHost : toHost[i].code # "busy"

\* One generation at a time, each settled once, whoever fails first: the
\* runtime implements the slot its clients are verified against.
Slot == INSTANCE GenerationSlot
          WITH Runs <- Generations, None <- NoGeneration,
               usable <- rtState \notin {"shutting_down", "closed", "failed"},
               slot <- occupant.gen, cancelling <- occupant.phase = "cancelling", handle <- handles

ImplementsSlot == Slot!SlotSpec

\* Every handle that was given out settles, although the sidecar may hang:
\* through its terminal frame, the watchdog or the deadline of the shutdown
\* once it is cancelled (runtime.py:1125).  At most one is open at a time.
CancelledSettles ==
  occupant.phase = "cancelling" ~> \A g \in Generations : handles[g] # "open"
=============================================================================
