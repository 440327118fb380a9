----------------------------- MODULE LocalTurns -----------------------------
(***************************************************************************)
(* A turn typed at the command line, on its way through the conversation   *)
(* lane: ConversationExecutionAdapter.execute_core_turn                    *)
(* (conversation_adapter.py).  A thread prepares the Core turn, a task     *)
(* resolves how to answer it (user_disposition.py), perhaps by asking the  *)
(* model (cognition_model.py), and another thread starts the run and       *)
(* presents its events.  The actor requests cancellation through the token *)
(* and may later cancel the task; the Core run is then reached through a   *)
(* holder, which remembers a cancellation that came before there was a run.*)
(*                                                                         *)
(* The turns are of one Core.  What the answer says is left out, and so is *)
(* the model behind the run: a run that is cancelled settles, which is     *)
(* CancelledRunSettles of ConversationCore.                                *)
(***************************************************************************)
EXTENDS Naturals, FiniteSets

CONSTANTS
  LocalIds,  \* the turns
  NoLocal

ASSUME LocalAssumption == NoLocal \notin LocalIds

VARIABLES
  local,         \* where execute_core_turn is
  localEnd,      \* how it was left
  asked,         \* 0: nothing, 1: token requested, 2: and the task cancelled
  knowsRun,      \* its variable run is set
  preparer,      \* the thread of _prepare_core_turn
  holder,        \* _CoreRunHolder: [bound, cancel]
  coreRun,       \* the Core run
  coreCancelled, \* it was asked to cancel
  coreActive,    \* ConversationCore._active
  resolver,      \* the task of UserDispositionResolver.resolve
  planner,       \* the generation it asked the model for
  consumer       \* the thread of _start_and_consume_prepared

localVars    == <<local, localEnd, asked, knowsRun, preparer, holder, coreRun, coreCancelled,
                  coreActive, resolver, planner, consumer>>
laneState    == <<local, localEnd, asked, knowsRun>>
runState     == <<coreRun, coreCancelled, coreActive>>
threadState  == <<preparer, consumer>>
planState    == <<resolver, planner>>

Resolving == {"asking", "waiting"}
Consuming == {"starting", "reading", "failing"}
Waiting   == {"preparing", "abandoning", "resolving", "joining", "awaitingRun", "consuming",
              "awaitingTurn", "clearing", "clearingRun"}

LocalTypeOK ==
  /\ local \in [LocalIds -> Waiting \cup {"idle", "returned"}]
  /\ localEnd \in [LocalIds -> {"none", "result", "error", "cancelled", "uncontained"}]
  /\ asked \in [LocalIds -> 0..2] /\ knowsRun \in [LocalIds -> BOOLEAN]
  /\ preparer \in [LocalIds -> {"none", "running", "superseding", "binding", "ended", "refused"}]
  /\ holder \in [LocalIds -> [bound : BOOLEAN, cancel : BOOLEAN]]
  /\ coreRun \in [LocalIds -> {"none", "prepared", "started", "settled"}]
  /\ coreCancelled \in [LocalIds -> BOOLEAN] /\ coreActive \in LocalIds \cup {NoLocal}
  /\ resolver \in [LocalIds -> Resolving \cup {"none", "done", "failed", "cancelled", "uncontained"}]
  /\ planner \in [LocalIds -> {"none", "running", "ended"}]
  /\ consumer \in [LocalIds -> Consuming \cup {"none", "ended", "failed"}]

LocalInit ==
  /\ local = [t \in LocalIds |-> "idle"] /\ localEnd = [t \in LocalIds |-> "none"]
  /\ asked = [t \in LocalIds |-> 0] /\ knowsRun = [t \in LocalIds |-> FALSE]
  /\ preparer = [t \in LocalIds |-> "none"] /\ consumer = [t \in LocalIds |-> "none"]
  /\ holder = [t \in LocalIds |-> [bound |-> FALSE, cancel |-> FALSE]]
  /\ coreRun = [t \in LocalIds |-> "none"] /\ coreCancelled = [t \in LocalIds |-> FALSE]
  /\ coreActive = NoLocal
  /\ resolver = [t \in LocalIds |-> "none"] /\ planner = [t \in LocalIds |-> "none"]

-----------------------------------------------------------------------------
(* The Core run and its holder *)

\* request_cancel: a run that has not started settles at once.
CancelsCore(t) ==
  /\ coreRun' = [coreRun EXCEPT ![t] = IF @ = "prepared" THEN "settled" ELSE @]
  /\ coreCancelled' = [coreCancelled EXCEPT ![t] = @ \/ coreRun[t] \in {"prepared", "started"}]
  /\ UNCHANGED coreActive

HolderCancels(t) ==
  /\ holder' = [holder EXCEPT ![t].cancel = TRUE]
  /\ IF holder[t].bound THEN CancelsCore(t) ELSE UNCHANGED runState

\* The holder, as it must not be: a cancellation that came first is forgotten.
HolderBindsLate(t) == holder' = [holder EXCEPT ![t].bound = TRUE] /\ UNCHANGED runState
HolderBinds(t) ==
  /\ holder' = [holder EXCEPT ![t].bound = TRUE]
  /\ IF holder[t].cancel THEN CancelsCore(t) ELSE UNCHANGED runState

RunEnds(t) ==
  /\ coreRun[t] = "started" /\ coreRun' = [coreRun EXCEPT ![t] = "settled"]
  /\ UNCHANGED <<laneState, holder, coreCancelled, coreActive, threadState, planState>>

-----------------------------------------------------------------------------
(* The thread that prepares: the append may fail; the run it supersedes is *)
(* cancelled once the Core's lock is free.                                 *)

PreparerGoes(t, pc) == preparer' = [preparer EXCEPT ![t] = pc]

Accepts(t) ==
  /\ preparer[t] = "running"
  /\ \/ PreparerGoes(t, "refused") /\ UNCHANGED runState
     \/ /\ PreparerGoes(t, "superseding")
        /\ coreActive' = t /\ coreRun' = [coreRun EXCEPT ![t] = "prepared"] /\ UNCHANGED coreCancelled
  /\ UNCHANGED <<laneState, holder, consumer, planState>>
Supersedes(t) ==
  /\ preparer[t] = "superseding" /\ PreparerGoes(t, "binding")
  /\ LET open == {u \in LocalIds \ {t} : coreRun[u] \in {"prepared", "started"}}
     IN  /\ coreRun' = [u \in LocalIds |-> IF u \in open /\ coreRun[u] = "prepared" THEN "settled" ELSE coreRun[u]]
         /\ coreCancelled' = [u \in LocalIds |-> coreCancelled[u] \/ u \in open]
  /\ UNCHANGED <<laneState, holder, coreActive, consumer, planState>>
BindsRun(t) ==
  /\ preparer[t] = "binding" /\ PreparerGoes(t, "ended") /\ HolderBinds(t)
  /\ UNCHANGED <<laneState, consumer, planState>>
Prepared(t) == preparer[t] \in {"ended", "refused"}

-----------------------------------------------------------------------------
(* The task that resolves how to answer.  Whatever the planner does, the   *)
(* turn is answered, by default behaviour if need be, unless it is being   *)
(* cancelled.                                                              *)

ResolverGoes(t, pc) == resolver' = [resolver EXCEPT ![t] = pc]

\* A policy that has no proper name is an error of its own.
ResolvesUnasked(t) ==
  /\ resolver[t] = "asking" /\ planner[t] = "none"
  /\ \/ ResolverGoes(t, "done")
     \/ ResolverGoes(t, "failed")
     \/ asked[t] > 0 /\ ResolverGoes(t, "cancelled")
  /\ UNCHANGED <<laneState, holder, runState, threadState, planner>>
AsksPlanner(t) ==
  /\ resolver[t] = "asking" /\ planner[t] = "none" /\ asked[t] = 0
  /\ planner' = [planner EXCEPT ![t] = "running"]
  /\ UNCHANGED <<laneState, holder, runState, threadState, resolver>>
PlannerEnds(t) ==
  /\ planner[t] = "running" /\ planner' = [planner EXCEPT ![t] = "ended"]
  /\ UNCHANGED <<laneState, holder, runState, threadState, resolver>>
PlannerAnswers(t) ==
  /\ resolver[t] = "asking" /\ planner[t] = "ended"
  /\ \/ ResolverGoes(t, "done")
     \/ asked[t] > 0 /\ ResolverGoes(t, "cancelled")
  /\ UNCHANGED <<laneState, holder, runState, threadState, planner>>

\* task.cancel(): the generation is told to stop and awaited for a second; a
\* second cancellation ends that wait.
CancelsResolver(t) ==
  resolver' = [resolver EXCEPT ![t] =
    IF @ = "asking" /\ planner[t] # "none" THEN "waiting"
    ELSE IF @ \in Resolving THEN "cancelled" ELSE @]

\* With a failure of the cancel command itself the resolver falls back.
GenerationJoined(t) ==
  /\ resolver[t] = "waiting" /\ planner[t] = "ended"
  /\ ResolverGoes(t, "cancelled") \/ ResolverGoes(t, "done")
  /\ UNCHANGED <<laneState, holder, runState, threadState, planner>>
JoinTimesOut(t) ==
  /\ resolver[t] = "waiting" /\ planner[t] = "running" /\ ResolverGoes(t, "uncontained")
  /\ UNCHANGED <<laneState, holder, runState, threadState, planner>>

-----------------------------------------------------------------------------
(* The thread that starts the run and presents its events *)

ConsumerGoes(t, pc) == consumer' = [consumer EXCEPT ![t] = pc]

StartsPrepared(t) ==
  /\ consumer[t] = "starting"
  /\ IF coreRun[t] = "settled" THEN ConsumerGoes(t, "reading") /\ UNCHANGED coreRun
     ELSE IF coreActive # t THEN ConsumerGoes(t, "failed") /\ UNCHANGED coreRun
     ELSE ConsumerGoes(t, "reading") /\ coreRun' = [coreRun EXCEPT ![t] = "started"]
  /\ UNCHANGED <<laneState, holder, coreCancelled, coreActive, preparer, planState>>
EventsEnd(t) ==
  /\ consumer[t] \in {"reading", "failing"} /\ coreRun[t] = "settled"
  /\ ConsumerGoes(t, IF consumer[t] = "reading" THEN "ended" ELSE "failed")
  /\ UNCHANGED <<laneState, holder, runState, preparer, planState>>
\* The presentation fails: the run is cancelled and awaited.
PresentFails(t) ==
  /\ consumer[t] = "reading" /\ ConsumerGoes(t, "failing") /\ CancelsCore(t)
  /\ UNCHANGED <<laneState, holder, preparer, planState>>

-----------------------------------------------------------------------------
(* execute_core_turn *)

LocalGoes(t, pc) == local' = [local EXCEPT ![t] = pc]
LocalReturns(t, how) == LocalGoes(t, "returned") /\ localEnd' = [localEnd EXCEPT ![t] = how]

LocalBegins(t) ==
  /\ local[t] = "idle"
  /\ \A u \in LocalIds : local[u] \in {"idle", "returned"} /\ localEnd[u] # "uncontained"
  /\ LocalGoes(t, "preparing") /\ PreparerGoes(t, "running")
  /\ UNCHANGED <<localEnd, asked, knowsRun, holder, runState, consumer, planState>>
AskToCancel(t) ==
  /\ local[t] \in Waiting /\ asked[t] = 0 /\ asked' = [asked EXCEPT ![t] = 1]
  /\ UNCHANGED <<local, localEnd, knowsRun, holder, runState, threadState, planState>>

\* An exception reaches one of the except clauses.
LocalFails(t, how) ==
  /\ localEnd' = [localEnd EXCEPT ![t] = how] /\ HolderCancels(t) /\ LocalGoes(t, "clearing")

\* A cancellation after the threads were started, one way or the other.
StopsAt(t, pc) == HolderCancels(t) /\ LocalGoes(t, pc) /\ UNCHANGED localEnd

PrepareSeen(t) ==
  /\ local[t] = "preparing" /\ Prepared(t)
  /\ knowsRun' = [knowsRun EXCEPT ![t] = preparer[t] = "ended"]
  /\ \/ preparer[t] = "refused" /\ LocalFails(t, "error") /\ UNCHANGED resolver
     \/ preparer[t] = "ended" /\ asked[t] > 0 /\ StopsAt(t, "awaitingRun") /\ UNCHANGED resolver
     \/ /\ preparer[t] = "ended" /\ asked[t] = 0 /\ LocalGoes(t, "resolving") /\ ResolverGoes(t, "asking")
        /\ UNCHANGED <<localEnd, holder, runState>>
  /\ UNCHANGED <<asked, threadState, planner>>
TokenBeforeRun(t) ==
  /\ local[t] = "preparing" /\ asked[t] > 0 /\ StopsAt(t, "abandoning")
  /\ UNCHANGED <<asked, knowsRun, threadState, planState>>
AbandonedPrepared(t) ==
  /\ local[t] = "abandoning" /\ Prepared(t)
  /\ IF preparer[t] = "refused" THEN LocalFails(t, "error")
     ELSE LocalGoes(t, "awaitingRun") /\ UNCHANGED <<localEnd, holder, runState>>
  /\ UNCHANGED <<asked, knowsRun, threadState, planState>>
TokenWhileResolving(t) ==
  /\ local[t] = "resolving" /\ asked[t] > 0
  /\ CancelsResolver(t) /\ LocalGoes(t, "joining")
  /\ UNCHANGED <<localEnd, asked, knowsRun, holder, runState, threadState, planner>>
ResolutionJoined(t) ==
  /\ local[t] = "joining" /\ resolver[t] \notin Resolving
  /\ IF resolver[t] = "uncontained" THEN LocalFails(t, "uncontained") ELSE StopsAt(t, "awaitingRun")
  /\ UNCHANGED <<asked, knowsRun, threadState, planState>>
ResolutionSeen(t) ==
  /\ local[t] = "resolving"
  /\ \/ /\ resolver[t] = "done" /\ asked[t] = 0
        /\ LocalGoes(t, "consuming") /\ ConsumerGoes(t, "starting")
        /\ UNCHANGED <<localEnd, holder, runState>>
     \/ resolver[t] = "done" /\ asked[t] > 0 /\ StopsAt(t, "awaitingRun") /\ UNCHANGED consumer
     \/ resolver[t] = "failed" /\ LocalFails(t, "error") /\ UNCHANGED consumer
     \/ resolver[t] = "cancelled" /\ LocalFails(t, "cancelled") /\ UNCHANGED consumer
  /\ UNCHANGED <<asked, knowsRun, preparer, planState>>
TokenWhileConsuming(t) ==
  /\ local[t] = "consuming" /\ asked[t] > 0 /\ consumer[t] \in Consuming
  /\ StopsAt(t, "awaitingTurn")
  /\ UNCHANGED <<asked, knowsRun, threadState, planState>>
ConsumerSeen(t) ==
  /\ local[t] \in {"consuming", "awaitingTurn"}
  /\ \/ consumer[t] = "ended" /\ LocalReturns(t, "result") /\ UNCHANGED <<holder, runState>>
     \/ consumer[t] = "failed" /\ LocalFails(t, "error")
  /\ UNCHANGED <<asked, knowsRun, threadState, planState>>
RunAwaited(t) ==
  /\ \/ local[t] = "awaitingRun" /\ coreRun[t] = "settled" /\ LocalReturns(t, "result")
     \/ /\ local[t] = "clearing" /\ Prepared(t)
        /\ IF knowsRun[t] THEN LocalGoes(t, "clearingRun") /\ UNCHANGED localEnd
           ELSE LocalReturns(t, localEnd[t])
     \/ local[t] = "clearingRun" /\ coreRun[t] = "settled" /\ LocalReturns(t, localEnd[t])
  /\ UNCHANGED <<asked, knowsRun, holder, runState, threadState, planState>>

\* The actor cancels the task.  Waiting for the preparation alone, or in an
\* except clause already, it returns at once; the join passes the cancellation
\* on to the resolver; asyncio.wait passes it on to nobody.
LocalCancelled(t) ==
  /\ local[t] \in Waiting /\ asked[t] = 1 /\ asked' = [asked EXCEPT ![t] = 2]
  /\ IF local[t] = "joining" THEN CancelsResolver(t) ELSE UNCHANGED resolver
  /\ IF local[t] \in {"abandoning", "clearing", "clearingRun"}
     THEN LocalReturns(t, "cancelled") /\ UNCHANGED <<holder, runState>>
     ELSE LocalFails(t, "cancelled")
  /\ UNCHANGED <<knowsRun, threadState, planner>>

-----------------------------------------------------------------------------
PreparerStep(t) == Accepts(t) \/ Supersedes(t) \/ BindsRun(t)
ResolverStep(t) ==
  ResolvesUnasked(t) \/ AsksPlanner(t) \/ PlannerAnswers(t) \/ GenerationJoined(t) \/ JoinTimesOut(t)
ConsumerStep(t) == StartsPrepared(t) \/ EventsEnd(t)
TurnStepL(t) ==
  \/ PrepareSeen(t) \/ TokenBeforeRun(t) \/ AbandonedPrepared(t) \/ TokenWhileResolving(t)
  \/ ResolutionJoined(t) \/ ResolutionSeen(t) \/ TokenWhileConsuming(t) \/ ConsumerSeen(t) \/ RunAwaited(t)

LocalNext ==
  \E t \in LocalIds :
    \/ LocalBegins(t) \/ AskToCancel(t) \/ LocalCancelled(t) \/ TurnStepL(t)
    \/ PreparerStep(t) \/ ResolverStep(t) \/ PlannerEnds(t)
    \/ ConsumerStep(t) \/ PresentFails(t) \/ RunEnds(t)

\* The event loop runs what can run, threads run, the one-second wait ends, and
\* a cancelled run settles; a model generation need never end.  A turn takes
\* finitely many of these steps, so fairness to them all is fairness to each.
LocalProgress ==
  \E t \in LocalIds :
    \/ TurnStepL(t) \/ PreparerStep(t) \/ ResolverStep(t) \/ ConsumerStep(t)
    \/ coreCancelled[t] /\ RunEnds(t)
LocalFairness == WF_localVars(LocalProgress)

LocalSpec == LocalInit /\ [][LocalNext]_localVars /\ LocalFairness

-----------------------------------------------------------------------------
(* Properties *)

\* However a local turn ends, its run has settled or will: a run that is bound
\* only later finds the cancellation in the holder.  Unless its task was
\* cancelled, its threads and its generation are over as well, or the actor is
\* told that they are not (conversation_adapter.py:51-71, 242-325).
NoLocalTurnLeft ==
  \A t \in LocalIds : local[t] = "returned" =>
    /\ coreRun[t] = "prepared" => preparer[t] \in {"superseding", "binding"} /\ holder[t].cancel
    /\ coreRun[t] = "started" => coreCancelled[t]
    /\ localEnd[t] = "result" => coreRun[t] = "settled"
    /\ asked[t] < 2 =>
         /\ Prepared(t) /\ consumer[t] \notin Consuming /\ resolver[t] \notin Resolving
         /\ planner[t] = "running" => localEnd[t] = "uncontained"

\* A local turn asked to cancel returns to the actor, wherever it was
\* (conversation_adapter.py:242-325).
CancelledLocalTurnReturns == \A t \in LocalIds : asked[t] > 0 ~> local[t] = "returned"
=============================================================================
