----------------------------- MODULE ToolTurns -----------------------------
(***************************************************************************)
(* ModelRuntimeV3: one generation spans several provider turns.  The       *)
(* sidecar ends a turn with a batch of tool calls; the host executes it in *)
(* a worker thread of its own through the application's tool session and   *)
(* writes the results, and the sidecar starts the next turn.  A generation *)
(* is over when both legs are: the terminal frame of the sidecar and the   *)
(* settlement of the session.  Every thread of the host is modelled:       *)
(* callers, the reader, the workers, the timers and the thread that waits  *)
(* for the session after a failure.  Frames are written whole, and fail    *)
(* to be written only when the process is gone; start-up and the process   *)
(* itself are those of ModelRuntime.                                       *)
(***************************************************************************)
EXTENDS Integers, Sequences

CONSTANTS Turns,      \* generations; each is generated at most once
          NoTurnId,
          MaxRounds,  \* MAX_TOOL_ROUNDS_PER_GENERATION, for each of them
          MaxCalls    \* MAX_TOOL_CALLS_PER_BATCH

ASSUME ToolAssumption == NoTurnId \notin Turns /\ MaxRounds \in [Turns -> Nat] /\ MaxCalls \in Nat \ {0}

VARIABLES
  vState,     \* _state, once ready
  vFailure,   \* _failure: the kind, or "none"
  turn,       \* _active and _tool_state of the generation in the slot
  vHandles,   \* how the handle of each generation settled
  sessions,   \* tool session of each generation
  workers,    \* _execute_tool_batch threads: [gen, round, left, stage]
  calls,      \* the executor of the current call of each generation
  closing,    \* shutdown() is under way
  toLoop, toHostV,  \* the pipes
  readerV,    \* the reader has seen the end of its pipe: it does so once
  brokenV,    \* a caller, with the command lock, is about to see its write fail
  loop,       \* ToolLoopSidecar
  vProc       \* the sidecar process

slotVarsV == <<vState, vFailure, turn, vHandles>>
toolVars == <<sessions, workers, calls>>
sideVarsV == <<loop, vProc>>
endsVars == <<readerV, brokenV>>
turnVars == <<slotVarsV, toolVars, closing, toLoop, toHostV, endsVars, sideVarsV>>

Final == {"completed", "cancelled", "failed"}
NoTurn == [gen |-> NoTurnId, phase |-> "none", next |-> 1, pending |-> FALSE, worker |-> FALSE,
           fenced |-> FALSE, deferred |-> "none", failure |-> "none", joiner |-> "none"]
NoLoop == [gen |-> NoTurnId, round |-> 0, turn |-> "none", aborted |-> FALSE, streamed |-> FALSE]
Frame(type, g, r) == [type |-> type, gen |-> g, round |-> r]

\* _write_command: a process that is gone breaks the pipe.
Writes(frames) ==
  /\ UNCHANGED readerV
  /\ IF vProc = "running" THEN toLoop' = toLoop \o frames /\ UNCHANGED brokenV
     ELSE brokenV' = TRUE /\ UNCHANGED toLoop
\* _command_lock: shutdown() holds it to its end, a writer until it has written.
CommandLock == ~closing /\ ~brokenV

TurnInit ==
  /\ vState = "ready" /\ vFailure = "none" /\ turn = NoTurn
  /\ vHandles = [g \in Turns |-> "none"]
  /\ sessions = [g \in Turns |-> [state |-> "idle", cancelled |-> FALSE, last |-> 0]]
  /\ workers = {} /\ calls = [g \in Turns |-> "none"]
  /\ closing = FALSE
  /\ toLoop = << >> /\ toHostV = << >> /\ readerV = "reading" /\ brokenV = FALSE
  /\ loop = NoLoop /\ vProc = "running"
-----------------------------------------------------------------------------
(* Settling, under _lock. *)

\* wait_settled(0): the event is cleared while a batch runs, and for good if
\* its executor could not be contained.
Joined(g) == g \in Turns => sessions[g].state \notin {"running", "uncontained"}

SessionCancelled(s) ==
  [s EXCEPT !.cancelled = TRUE, !.state = IF @ = "idle" THEN "cancelled" ELSE @]
CancelsSession == sessions' = [sessions EXCEPT ![turn.gen] = SessionCancelled(@)]

SettleV(result) ==
  vHandles' = [vHandles EXCEPT ![turn.gen] = IF @ \in Final THEN @ ELSE result]

\* _finish_pending_locked.
TurnFinishes(result) ==
  /\ SettleV(result) /\ turn' = NoTurn
  /\ vState' = IF vState = "busy" THEN "ready" ELSE vState
  /\ UNCHANGED vFailure

\* ModelRuntime._fail_runtime_locked: nothing happens twice.
FailsNow(kind) ==
  IF vState \in {"closed", "failed"} THEN UNCHANGED <<vState, vFailure, turn, vHandles>>
  ELSE /\ vState' = "failed" /\ vFailure' = kind
       /\ IF turn = NoTurn THEN UNCHANGED <<turn, vHandles>> ELSE SettleV("failed") /\ turn' = NoTurn

\* Mutant: the failure is kept but nobody joins the session.
DeferredUnjoined(kind) ==
  [turn EXCEPT !.fenced = TRUE, !.failure = IF @ = "none" THEN kind ELSE @]

\* What waits for a session that has not settled: the failure is kept and a
\* thread started that joins the session first.
Deferred(kind) ==
  [turn EXCEPT !.fenced = TRUE, !.failure = IF @ = "none" THEN kind ELSE @,
               !.joiner = IF @ = "none" THEN "waiting" ELSE @]

\* _fail_runtime_locked of V3: fence, then fail once the session has settled.
TurnFails(kind) ==
  IF turn = NoTurn THEN FailsNow(kind) /\ UNCHANGED sessions
  ELSE /\ CancelsSession
       /\ IF Joined(turn.gen) THEN FailsNow(kind)
          ELSE turn' = Deferred(kind) /\ UNCHANGED <<vState, vFailure, vHandles>>

\* _fail_pending_locked of V3, where the caller set the state.
PendingFails(kind) ==
  IF turn = NoTurn THEN UNCHANGED <<turn, vHandles, sessions>>
  ELSE /\ CancelsSession
       /\ IF Joined(turn.gen) THEN SettleV("failed") /\ turn' = NoTurn
          ELSE turn' = Deferred(kind) /\ UNCHANGED vHandles

\* _settle_failed_join: the session settled in time ...
JoinerFails ==
  /\ turn.joiner = "waiting" /\ Joined(turn.gen)
  /\ IF vState = "failed"
     THEN turn' = [turn EXCEPT !.joiner = "ended"] /\ UNCHANGED <<vState, vFailure, vHandles>>
     ELSE FailsNow(turn.failure)
  /\ UNCHANGED <<toolVars, closing, toLoop, toHostV, endsVars, sideVarsV>>

\* ... or not: the runtime is poisoned with the generation still in the slot.
JoinerPoisons ==
  /\ turn.joiner = "waiting"
  /\ vState' = "failed" /\ vFailure' = "uncontained"
  /\ SettleV("failed")
  /\ turn' = [turn EXCEPT !.phase = "terminal", !.fenced = TRUE, !.joiner = "ended"]
  /\ UNCHANGED <<toolVars, closing, toLoop, toHostV, endsVars, sideVarsV>>
-----------------------------------------------------------------------------
(* Callers and timers. *)

GenerateForRun(g) ==
  /\ CommandLock /\ vState = "ready" /\ turn = NoTurn /\ vHandles[g] = "none"
  /\ vHandles' = [vHandles EXCEPT ![g] = "open"]
  /\ turn' = [NoTurn EXCEPT !.gen = g, !.phase = "created"]
  /\ vState' = "busy"
  /\ Writes(<<Frame("generate", g, 0)>>)
  /\ UNCHANGED <<vFailure, toolVars, closing, toHostV, sideVarsV>>

\* The session is cancelled in any phase; the frame is written once.
CancelTurn(g) ==
  /\ CommandLock /\ turn.gen = g
  /\ CancelsSession
  /\ IF turn.phase \in {"cancelling", "terminal"}
     THEN turn' = [turn EXCEPT !.fenced = TRUE] /\ UNCHANGED <<toLoop, endsVars>>
     ELSE /\ turn' = [turn EXCEPT !.fenced = TRUE, !.phase = "cancelling"]
          /\ Writes(<<Frame("cancel", g, 0)>>)
  /\ UNCHANGED <<vState, vFailure, vHandles, workers, calls, closing, toHostV, sideVarsV>>

\* The error of a write is the end of the runtime.
WriteFailsV ==
  /\ brokenV /\ brokenV' = FALSE
  /\ TurnFails("crashed")
  /\ UNCHANGED <<workers, calls, closing, toLoop, toHostV, readerV, sideVarsV>>

\* The deadline of the whole generation; the watchdog of a cancellation and the
\* deadline for the results of a round are earlier but do the same.
TimerExpires ==
  /\ turn # NoTurn
  /\ TurnFails("timeout")
  /\ UNCHANGED <<workers, calls, closing, toLoop, toHostV, endsVars, sideVarsV>>

\* shutdown(): a runtime that failed only settles what is left in the slot.
TurnShutdown ==
  \/ /\ CommandLock /\ vState \in {"ready", "busy"}
     /\ closing' = TRUE /\ vState' = "shutting_down"
     /\ IF turn = NoTurn
        THEN Writes(<<Frame("shutdown", NoTurnId, 0)>>) /\ UNCHANGED <<turn, sessions>>
        ELSE /\ CancelsSession
             /\ turn' = [turn EXCEPT !.fenced = TRUE, !.phase = "cancelling"]
             /\ Writes(<<Frame("cancel", turn.gen, 0), Frame("shutdown", NoTurnId, 0)>>)
     /\ UNCHANGED <<vFailure, vHandles, workers, calls, toHostV, sideVarsV>>
  \/ /\ CommandLock /\ vState = "failed" /\ turn # NoTurn
     /\ PendingFails("crashed")
     /\ UNCHANGED <<vState, vFailure, workers, calls, closing, toLoop, toHostV, endsVars, sideVarsV>>

\* The process is gone and the session settled: what the sidecar had answered
\* counts, and the runtime is closed if nothing was left open or unconfirmed.
TurnShutdownEnds ==
  /\ closing /\ ~brokenV /\ vProc # "running" /\ Joined(turn.gen)
  /\ closing' = FALSE
  /\ LET finished == turn = NoTurn \/ turn.deferred \in Final
         clean == finished /\ vFailure = "none" /\ vProc = "exited" /\ toHostV = << >>
     IN /\ vState' = IF clean THEN "closed" ELSE "failed"
        /\ vFailure' = IF clean \/ vFailure # "none" THEN vFailure ELSE "crashed"
  /\ IF turn = NoTurn THEN UNCHANGED <<turn, vHandles>>
     ELSE SettleV(IF turn.deferred \in Final THEN turn.deferred ELSE "failed") /\ turn' = NoTurn
  /\ UNCHANGED <<toolVars, toLoop, toHostV, endsVars, sideVarsV>>

\* The deadline passes: the process or the session was too late.
TurnShutdownExpires ==
  /\ closing /\ ~brokenV /\ (vProc = "running" \/ ~Joined(turn.gen))
  /\ closing' = FALSE /\ vProc' = IF vProc = "running" THEN "crashed" ELSE vProc
  /\ toLoop' = << >> /\ loop' = NoLoop
  /\ vState' = "failed"
  /\ vFailure' = IF vFailure = "none" THEN "timeout" ELSE vFailure
  /\ PendingFails("timeout")
  /\ UNCHANGED <<workers, calls, toHostV, endsVars>>
-----------------------------------------------------------------------------
(* The reader: _dispatch of the next frame. *)

ReceivedV(types) ==
  /\ toHostV # << >> /\ Head(toHostV).type \in types
  /\ toHostV' = Tail(toHostV)
  /\ UNCHANGED <<calls, closing, endsVars, sideVarsV>>
AddressedV == turn # NoTurn /\ Head(toHostV).gen = turn.gen

\* Every generation of a frame was the host's own: older ones are ignored.
StaleFrame ==
  /\ ReceivedV({"accepted", "delta", "tool_calls", "failed", "unconfirmed"} \cup Final)
  /\ ~AddressedV
  /\ IF Head(toHostV).type = "tool_calls" /\ turn = NoTurn
     THEN FailsNow("protocol") ELSE UNCHANGED slotVarsV
  /\ UNCHANGED <<sessions, workers, toLoop>>

AcceptedFrame ==
  /\ ReceivedV({"accepted"}) /\ AddressedV
  /\ turn' = [turn EXCEPT !.phase = IF @ = "created" THEN "accepted" ELSE @]
  /\ UNCHANGED <<vState, vFailure, vHandles, sessions, workers, toLoop>>

\* The output limit: the handle fails at once, the generation stays until its
\* cancellation, which the reader writes itself, is settled.
LimitReached ==
  IF vProc # "running" THEN TurnFails("crashed") /\ UNCHANGED toLoop
  ELSE /\ turn' = [turn EXCEPT !.phase = "cancelling"] /\ SettleV("failed")
       /\ toLoop' = Append(toLoop, Frame("cancel", turn.gen, 0))
       /\ UNCHANGED <<vState, vFailure, sessions>>

DeltaFrame ==
  /\ ReceivedV({"delta"}) /\ AddressedV
  /\ \/ turn.phase \in {"created", "tool_wait"} /\ TurnFails("protocol") /\ UNCHANGED toLoop
     \/ turn.phase \in {"cancelling", "terminal"} /\ UNCHANGED <<slotVarsV, sessions, toLoop>>
     \/ /\ turn.phase \in {"accepted", "streaming", "continuing"}
        /\ \/ /\ turn' = [turn EXCEPT !.phase = "streaming"]
              /\ UNCHANGED <<vState, vFailure, vHandles, sessions, toLoop>>
           \/ TurnFails("overflow") /\ UNCHANGED toLoop
           \/ LimitReached
  /\ UNCHANGED workers

\* Mutant: a batch is admitted in every phase.
AnyBatchAdmissible(round) == round = turn.next

BatchAdmissible(round) ==
  /\ turn.phase \in {"accepted", "streaming", "continuing"}
  /\ round = turn.next /\ ~turn.pending /\ round <= MaxRounds[turn.gen]

\* _admit_tool_calls: a worker thread is started for the batch.
ToolCallsFrame ==
  /\ ReceivedV({"tool_calls"}) /\ AddressedV
  /\ LET round == Head(toHostV).round
     IN IF BatchAdmissible(round)
        THEN /\ turn' = [turn EXCEPT !.phase = "tool_wait", !.pending = TRUE, !.worker = TRUE]
             /\ \E n \in 1 .. MaxCalls :
                  workers' = workers \cup {[gen |-> turn.gen, round |-> round, left |-> n,
                                            stage |-> "starting"]}
             /\ UNCHANGED <<vState, vFailure, vHandles, sessions>>
        ELSE TurnFails("protocol") /\ UNCHANGED workers
  /\ UNCHANGED toLoop

\* A terminal frame while a worker is out is kept until that has settled.
\* Cleanup that was not confirmed fails the runtime.
TerminalFrame ==
  /\ \E type \in Final \cup {"unconfirmed"} :
       /\ ReceivedV({type}) /\ AddressedV
       /\ IF turn.pending /\ type = "completed" THEN TurnFails("protocol")
          ELSE IF turn.pending /\ turn.worker /\ ~Joined(turn.gen)
          THEN /\ CancelsSession
               /\ turn' = [turn EXCEPT !.fenced = TRUE, !.deferred = type]
               /\ UNCHANGED <<vState, vFailure, vHandles>>
          ELSE IF turn.phase = "created" /\ type \notin {"failed", "unconfirmed"}
          THEN TurnFails("protocol")
          ELSE IF type = "unconfirmed" THEN TurnFails("crashed")
          ELSE /\ TurnFinishes(type)
               /\ IF turn.pending THEN CancelsSession ELSE UNCHANGED sessions
  /\ UNCHANGED <<workers, toLoop>>

ShutdownFrame == ReceivedV({"shutdown"}) /\ UNCHANGED <<slotVarsV, sessions, workers, toLoop>>

\* The end of the pipe.  During a shutdown the exit code decides, if the
\* process is reaped already.
PipeEnds ==
  /\ readerV = "reading" /\ toHostV = << >> /\ vProc = "crashed"
  /\ readerV' = "ended"
  /\ \/ TurnFails("crashed")
     \/ closing /\ UNCHANGED <<slotVarsV, sessions>>
  /\ UNCHANGED <<workers, calls, closing, toLoop, toHostV, brokenV, sideVarsV>>
-----------------------------------------------------------------------------
(* The worker and the session. *)

Becomes(w, stage) == workers' = (workers \ {w}) \cup {[w EXCEPT !.stage = stage]}
OnlyTools == UNCHANGED <<slotVarsV, closing, toLoop, toHostV, endsVars, sideVarsV>>

\* execute_batch refuses a session that was cancelled before it got there.
WorkerEnters(w) ==
  /\ w.stage = "starting"
  /\ LET s == sessions[w.gen]
     IN IF s.cancelled \/ s.state = "running" \/ w.round # s.last + 1
        THEN Becomes(w, "raised") /\ UNCHANGED sessions
        ELSE /\ Becomes(w, "executing")
             /\ sessions' = [sessions EXCEPT ![w.gen] = [@ EXCEPT !.state = "running", !.last = w.round]]
  /\ UNCHANGED calls /\ OnlyTools

\* Mutant: only the beginning of the batch looks at the cancellation.
CallStartsAnyway(w) ==
  /\ w.stage = "executing" /\ w.left > 0 /\ calls[w.gen] = "none"
  /\ calls' = [calls EXCEPT ![w.gen] = "running"]
  /\ UNCHANGED <<sessions, workers>> /\ OnlyTools

\* _execute_one: the executor is started under the lock of the session.
CallStarts(w) ==
  /\ w.stage = "executing" /\ w.left > 0 /\ calls[w.gen] = "none"
  /\ ~sessions[w.gen].cancelled
  /\ calls' = [calls EXCEPT ![w.gen] = "running"]
  /\ UNCHANGED <<sessions, workers>> /\ OnlyTools

\* A call is settled: by its executor, or invalid, denied or unavailable
\* without one.  A cancelled session settles no call without an executor.
CallSettles(w) ==
  /\ w.stage = "executing" /\ w.left > 0
  /\ calls[w.gen] = "running" \/ ~sessions[w.gen].cancelled
  /\ calls' = [calls EXCEPT ![w.gen] = "none"]
  /\ workers' = (workers \ {w}) \cup {[w EXCEPT !.left = @ - 1]}
  /\ UNCHANGED sessions /\ OnlyTools

\* The executor outlives its containment deadline.
CallUncontained(w) ==
  /\ w.stage = "executing" /\ calls[w.gen] = "running"
  /\ sessions' = [sessions EXCEPT ![w.gen].state = "uncontained"]
  /\ Becomes(w, "raised") /\ UNCHANGED calls /\ OnlyTools

\* The batch is over, or stops at a cancellation.
BatchEnds(w) ==
  /\ w.stage = "executing" /\ calls[w.gen] = "none"
  /\ w.left = 0 \/ sessions[w.gen].cancelled
  /\ sessions' = [sessions EXCEPT ![w.gen].state =
                    IF sessions[w.gen].cancelled THEN "cancelled" ELSE "settled"]
  /\ Becomes(w, "returned") /\ UNCHANGED calls /\ OnlyTools

Acceptable(w) ==
  turn.gen = w.gen /\ ~turn.fenced /\ turn.phase = "tool_wait" /\ turn.pending /\ w.round = turn.next

\* _submit_tool_results: the batch is consumed before it is written.
WorkerSubmits(w) ==
  /\ w.stage = "returned" /\ CommandLock
  /\ Becomes(w, "releasing")
  /\ IF Acceptable(w)
     THEN /\ turn' = [turn EXCEPT !.pending = FALSE, !.next = @ + 1, !.phase = "continuing"]
          /\ Writes(<<Frame("tool_results", w.gen, w.round)>>)
     ELSE UNCHANGED <<turn, toLoop, endsVars>>
  /\ UNCHANGED <<vState, vFailure, vHandles, sessions, calls, closing, toHostV, sideVarsV>>

\* What execute_batch raised fails the runtime, whatever is in the slot now.
WorkerFails(w) ==
  /\ w.stage = "raised"
  /\ Becomes(w, "releasing")
  /\ TurnFails(IF sessions[w.gen].state = "uncontained" THEN "uncontained" ELSE "session")
  /\ UNCHANGED <<calls, closing, toLoop, toHostV, endsVars, sideVarsV>>

\* _release_deferred_terminal.
WorkerReleases(w) ==
  /\ w.stage = "releasing" /\ workers' = workers \ {w}
  /\ IF turn.gen # w.gen THEN UNCHANGED <<slotVarsV, sessions>>
     ELSE IF sessions[w.gen].state = "uncontained" \/ turn.deferred = "none"
     THEN /\ turn' = [turn EXCEPT !.worker = FALSE, !.deferred = "none"]
          /\ UNCHANGED <<vState, vFailure, vHandles, sessions>>
     ELSE IF turn.deferred = "unconfirmed" THEN TurnFails("crashed")
     ELSE TurnFinishes(turn.deferred) /\ UNCHANGED sessions
  /\ UNCHANGED <<calls, closing, toLoop, toHostV, endsVars, sideVarsV>>
-----------------------------------------------------------------------------
(* The sidecar: ToolLoopSidecar and its server. *)

OnlySidecar == UNCHANGED <<slotVarsV, toolVars, closing, endsVars, vProc>>
SaysV(types) == toHostV' = toHostV \o [i \in DOMAIN types |-> Frame(types[i], loop.gen, loop.round)]

LoopReads(type) ==
  /\ vProc = "running" /\ toLoop # << >> /\ Head(toLoop).type = type
  /\ toLoop' = Tail(toLoop) /\ OnlySidecar

LoopStarts ==
  /\ LoopReads("generate")
  /\ LET g == Head(toLoop).gen
     IN IF loop.gen = NoTurnId
        THEN /\ loop' = [NoLoop EXCEPT !.gen = g, !.turn = "running"]
             /\ toHostV' = Append(toHostV, Frame("accepted", g, 0))
        ELSE toHostV' = Append(toHostV, Frame("failed", g, 0)) /\ UNCHANGED loop

\* submit(): only the results of the batch that is waited for; anything else
\* is the end of the sidecar.
LoopExpects(frame) ==
  loop.gen = frame.gen /\ loop.turn = "waiting" /\ loop.round = frame.round
LoopResults ==
  /\ LoopReads("tool_results")
  /\ IF LoopExpects(Head(toLoop))
     THEN loop' = [loop EXCEPT !.turn = "running", !.streamed = FALSE] /\ UNCHANGED toHostV
     ELSE /\ toHostV' = Append(toHostV, Frame("rejected", Head(toLoop).gen, Head(toLoop).round))
          /\ loop' = NoLoop

\* cancel(): between turns the generation is over at once.
LoopCancels ==
  /\ LoopReads("cancel")
  /\ CASE loop.gen # Head(toLoop).gen ->
            toHostV' = Append(toHostV, Frame("failed", Head(toLoop).gen, 0)) /\ UNCHANGED loop
       [] loop.gen = Head(toLoop).gen /\ loop.turn = "waiting" -> SaysV(<<"cancelled">>) /\ loop' = NoLoop
       [] OTHER -> loop' = [loop EXCEPT !.aborted = TRUE] /\ UNCHANGED toHostV

LoopStreams ==
  /\ vProc = "running" /\ loop.turn = "running" /\ ~loop.streamed
  /\ loop' = [loop EXCEPT !.streamed = TRUE] /\ SaysV(<<"delta">>)
  /\ UNCHANGED toLoop /\ OnlySidecar

\* A provider turn ends: with tool calls, with an answer, or with an error.
LoopCalls ==
  /\ vProc = "running" /\ loop.turn = "running" /\ ~loop.aborted /\ loop.round < MaxRounds[loop.gen]
  /\ loop' = [loop EXCEPT !.turn = "waiting", !.round = @ + 1]
  /\ toHostV' = Append(toHostV, Frame("tool_calls", loop.gen, loop.round + 1))
  /\ UNCHANGED toLoop /\ OnlySidecar

\* The provider may abort a turn that nobody cancelled.
LoopEnds ==
  /\ vProc = "running" /\ loop.turn = "running"
  /\ \E end \in {"cancelled", "unconfirmed"} \cup (IF loop.aborted THEN {} ELSE {"completed", "failed"}) :
       SaysV(<<end>>)
  /\ loop' = NoLoop
  /\ UNCHANGED toLoop /\ OnlySidecar

\* shutdown: close(), wait for the turn that runs, acknowledge and exit.
LoopShuts ==
  /\ vProc = "running" /\ toLoop # << >> /\ Head(toLoop).type = "shutdown"
  /\ IF loop.gen = NoTurnId
     THEN /\ toHostV' = Append(toHostV, Frame("shutdown", NoTurnId, 0)) /\ vProc' = "exited"
          /\ toLoop' = << >> /\ UNCHANGED loop
     ELSE /\ ~loop.aborted \/ loop.turn = "waiting"
          /\ IF loop.turn = "waiting" THEN SaysV(<<"cancelled">>) /\ loop' = NoLoop
             ELSE loop' = [loop EXCEPT !.aborted = TRUE] /\ UNCHANGED toHostV
          /\ UNCHANGED <<vProc, toLoop>>
  /\ UNCHANGED <<slotVarsV, toolVars, closing, endsVars>>

\* The process dies, or a failure had it terminated.
LoopDies ==
  /\ vProc = "running" /\ vProc' = "crashed"
  /\ toLoop' = << >> /\ loop' = NoLoop
  /\ UNCHANGED <<slotVarsV, toolVars, closing, toHostV, endsVars>>
-----------------------------------------------------------------------------
DispatchV ==
  StaleFrame \/ AcceptedFrame \/ DeltaFrame \/ ToolCallsFrame \/ TerminalFrame \/ ShutdownFrame

WorkerStepV(w) ==
  WorkerEnters(w) \/ BatchEnds(w) \/ WorkerSubmits(w) \/ WorkerFails(w) \/ WorkerReleases(w)

LoopStep ==
  LoopStarts \/ LoopResults \/ LoopCancels \/ LoopStreams \/ LoopCalls \/ LoopEnds \/ LoopShuts
  \/ LoopDies

TurnNext ==
  \/ \E g \in Turns : GenerateForRun(g) \/ CancelTurn(g)
  \/ TimerExpires \/ TurnShutdown \/ TurnShutdownEnds \/ TurnShutdownExpires \/ WriteFailsV
  \/ JoinerFails \/ JoinerPoisons
  \/ DispatchV \/ PipeEnds
  \/ \E w \in workers : WorkerStepV(w) \/ CallStarts(w) \/ CallSettles(w) \/ CallUncontained(w)
  \/ LoopStep

\* Timers fire, the host's own threads run; neither the sidecar nor a tool
\* has to answer.
TurnFairness ==
  /\ WF_turnVars(TimerExpires)
  /\ WF_turnVars(DispatchV \/ PipeEnds)
  /\ WF_turnVars(JoinerFails \/ JoinerPoisons)
  /\ WF_turnVars(WriteFailsV)
  /\ WF_turnVars(TurnShutdownEnds \/ TurnShutdownExpires)
  /\ WF_turnVars(\E w \in workers : WorkerStepV(w))

TurnSpec == TurnInit /\ [][TurnNext]_turnVars /\ TurnFairness
-----------------------------------------------------------------------------
(* Properties. *)

\* No tool is started for a generation that was reported as over, or after the
\* runtime failed (tool_session.py:332).
NoLateTool ==
  [][\A g \in Turns : (calls[g] = "none" /\ calls'[g] = "running") =>
       vHandles[g] = "open" /\ vState # "failed"]_turnVars

\* One generation at a time, each settled once: V3 offers its clients the same
\* slot.  A poisoned runtime keeps its last generation, but not for them.
TurnSlot == INSTANCE GenerationSlot
              WITH Runs <- Turns, None <- NoTurnId,
                   usable <- vState \notin {"shutting_down", "closed", "failed"},
                   slot <- IF turn.phase = "terminal" THEN NoTurnId ELSE turn.gen,
                   cancelling <- turn.phase = "cancelling", handle <- vHandles

TurnsImplementSlot == TurnSlot!SlotSpec

\* A cancellation, and a failure, of a generation that waits for a tool ends
\* it although the tool may never return, unless shutdown() interferes.  (One
\* handle at most is open, so all of them are settled when that one is.)
CancelledTurnSettles ==
  (turn.fenced /\ vState = "busy") ~> ((\A g \in Turns : vHandles[g] # "open") \/ closing)

\* README.md:57 of Core: a cancellation fences what is in flight.  Neither a
\* frame that crossed it nor a worker that was late makes a working sidecar
\* and a working session look broken.
ToolCancelKeepsRuntime == vFailure \notin {"protocol", "session"}

\* README.md:24 and :40 of Core: a failure makes the runtime unusable and every
\* handle settles, also when the failure had to wait for a tool.
DeferredFailureLands ==
  \A g \in Turns : (turn.gen = g /\ turn.joiner = "waiting") ~>
                     (vState = "failed" /\ vHandles[g] \in Final)
=============================================================================
