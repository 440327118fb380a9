----------------------------- MODULE DirectTurns -----------------------------
(***************************************************************************)
(* A direct message on its way through the conversation lane:              *)
(* ConversationExecutionAdapter.execute (conversation_adapter.py) runs     *)
(* CoreConversationRouter.route (conversation_router.py) as a task, under  *)
(* the semantic actor, which may request cancellation through the token    *)
(* and later cancel the task itself.  The route opens a presentation in    *)
(* the environment (edge.py), finds or starts the session of its           *)
(* conversation, prepares a Core turn, resolves its disposition, binds and *)
(* starts it, and streams it until it settles.  close() ends the router.   *)
(*                                                                         *)
(* All turns here are of one conversation: sessions of other conversations *)
(* share only the lock that this one would hold.  Waits with a timeout     *)
(* (run.wait, bridge.join) may give up at any time.                        *)
(***************************************************************************)
EXTENDS Naturals, FiniteSets

CONSTANTS
  Messages,  \* the direct messages of one conversation
  NoMessage

ASSUME LaneAssumption == NoMessage \notin Messages

VARIABLES
  adapter,        \* where execute() is, per turn
  result,         \* how it ended, as the actor sees it
  cancels,        \* 0: none, 1: token requested, 2: and the task cancelled
  route,          \* where the route task is
  ending,         \* how the route's try block was left
  run,            \* the Core run
  runCancelled,   \* run.cancel() or supersession was called
  bridge,         \* the thread that reads the run's events
  shown,          \* the presentation in the environment
  admissionLock,  \* the admission lock of the conversation
  owner,          \* the turn that created the session's runtime
  server,         \* the model runtime that a turn created
  activeRuns,     \* CoreConversationRouter._active_runs
  routerClosing, closed, closer,
  abandoned       \* turns the actor stopped waiting for

laneVars == <<adapter, result, cancels, route, ending, run, runCancelled, bridge, shown,
              admissionLock, owner, server, activeRuns, routerClosing, closed, closer, abandoned>>

adapterVars == <<adapter, result, cancels, abandoned>>
runVars     == <<run, runCancelled, bridge>>
routerVars  == <<routerClosing, closed, closer>>

Working  == {"lock", "opening", "startup", "resolving", "unplanning", "binding", "streaming",
             "presenting"}
Servers  == {"none", "starting", "up", "failed", "stopping", "down"}
Settling == {"settling", "joining", "aborting"}

DirectTypeOK ==
  /\ adapter \in [Messages -> {"idle", "waiting", "joining", "cancelled", "returned"}]
  /\ result \in [Messages -> {"none", "answered", "contained", "cancelled", "failed", "uncontained"}]
  /\ cancels \in [Messages -> 0..2]
  /\ route \in [Messages -> {"idle", "unwinding", "done"} \cup Working \cup Settling]
  /\ ending \in [Messages -> {"none", "returned", "cancelled", "error"}]
  /\ run \in [Messages -> {"none", "prepared", "started", "settled"}]
  /\ runCancelled \in [Messages -> BOOLEAN]
  /\ bridge \in [Messages -> {"none", "reading", "ended"}]
  /\ shown \in [Messages -> {"none", "open", "bound", "closed"}]
  /\ admissionLock \in Messages \cup {NoMessage} /\ owner \in Messages \cup {NoMessage}
  /\ server \in [Messages -> Servers]
  /\ activeRuns \subseteq Messages /\ abandoned \subseteq Messages
  /\ routerClosing \in BOOLEAN /\ closed \in BOOLEAN
  /\ closer \in {"idle", "startup", "shutdown"}

DirectInit ==
  /\ adapter = [t \in Messages |-> "idle"] /\ result = [t \in Messages |-> "none"]
  /\ cancels = [t \in Messages |-> 0] /\ abandoned = {}
  /\ route = [t \in Messages |-> "idle"] /\ ending = [t \in Messages |-> "none"]
  /\ run = [t \in Messages |-> "none"] /\ runCancelled = [t \in Messages |-> FALSE]
  /\ bridge = [t \in Messages |-> "none"] /\ shown = [t \in Messages |-> "none"]
  /\ admissionLock = NoMessage /\ owner = NoMessage /\ server = [t \in Messages |-> "none"]
  /\ activeRuns = {} /\ routerClosing = FALSE /\ closed = FALSE /\ closer = "idle"

-----------------------------------------------------------------------------
(* The actor, seen from the lane *)

\* The actor runs one episode at a time, and none after one it gave up.
TurnBegins(t) ==
  /\ adapter[t] = "idle" /\ ~routerClosing /\ abandoned = {}
  /\ \A u \in Messages : adapter[u] \in {"idle", "returned"} /\ result[u] # "uncontained"
  /\ adapter' = [adapter EXCEPT ![t] = "waiting"]
  /\ route' = [route EXCEPT ![t] = "lock"]
  /\ UNCHANGED <<result, cancels, abandoned, ending, runVars, shown, admissionLock, owner, server,
                 activeRuns, routerVars>>

RequestTurnCancel(t) ==
  /\ adapter[t] = "waiting" /\ cancels[t] = 0
  /\ cancels' = [cancels EXCEPT ![t] = 1]
  /\ UNCHANGED <<adapter, result, abandoned, route, ending, runVars, shown, admissionLock, owner,
                 server, activeRuns, routerVars>>

\* The join timeout: the actor stops waiting for the episode, and poisons.
GivesUp(t) ==
  /\ adapter[t] = "cancelled" /\ cancels[t] = 2 /\ t \notin abandoned
  /\ abandoned' = abandoned \cup {t}
  /\ UNCHANGED <<adapter, result, cancels, route, ending, runVars, shown, admissionLock, owner,
                 server, activeRuns, routerVars>>

-----------------------------------------------------------------------------
(* The route task *)

CancelsRun(u) == run' = [run EXCEPT ![u] = IF @ = "prepared" THEN "settled" ELSE @]
              /\ runCancelled' = [runCancelled EXCEPT ![u] = TRUE]

\* The except clauses of route() cancel the run unless it has settled.
MustCancel(t, how) == how # "returned" /\ run[t] \in {"prepared", "started"}

\* The route leaves its try block, releasing the admission lock on the way.
LeavesTry(t, how) ==
  /\ ending' = [ending EXCEPT ![t] = how]
  /\ admissionLock' = IF admissionLock = t THEN NoMessage ELSE admissionLock
  /\ IF MustCancel(t, how) THEN CancelsRun(t)
     ELSE UNCHANGED <<run, runCancelled>>
  /\ route' = [route EXCEPT ![t] = "settling"]

\* A start-up that fails, or whose waiter is cancelled, loses the session, and
\* its runtime is shut down.
DropsSession(t) ==
  /\ owner' = IF owner = t THEN NoMessage ELSE owner
  /\ server' = [server EXCEPT ![owner] = "stopping"]

\* A cancelled planner cancels its generation and joins it before it lets go.
JoinsPlanner(t, how) == route[t] = "resolving" /\ how = "cancelled"

\* What an exception does to the route at each of its awaits.  In _await_startup
\* the session is forgotten and its runtime is shut down first; once the
\* finally clause has begun, a second cancellation abandons the rest of it,
\* but for the abort, whose errors are suppressed.
Throws(t, how) ==
  CASE route[t] = "startup" ->
         /\ ending' = [ending EXCEPT ![t] = how]
         /\ DropsSession(t)
         /\ route' = [route EXCEPT ![t] = "unwinding"]
         /\ UNCHANGED <<run, runCancelled, admissionLock>>
    [] JoinsPlanner(t, how) ->
         /\ route' = [route EXCEPT ![t] = "unplanning"]
         /\ UNCHANGED <<ending, run, runCancelled, admissionLock, owner, server>>
    [] route[t] \in {"unwinding"} \cup (Working \ {"startup"}) /\ ~JoinsPlanner(t, how) ->
         LeavesTry(t, how) /\ UNCHANGED <<owner, server>>
    [] route[t] \in {"settling", "joining"} ->
         /\ ending' = [ending EXCEPT ![t] = how] /\ route' = [route EXCEPT ![t] = "done"]
         /\ UNCHANGED <<run, runCancelled, admissionLock, owner, server>>
    [] OTHER ->
         /\ route' = [route EXCEPT ![t] = "done"]
         /\ UNCHANGED <<ending, run, runCancelled, admissionLock, owner, server>>

RouteTo(t, pc) == route' = [route EXCEPT ![t] = pc]

Fault(t) ==
  /\ route[t] \in {"opening", "startup", "resolving", "binding", "streaming", "presenting"}
  /\ Throws(t, "error")
  /\ UNCHANGED <<adapterVars, bridge, shown, activeRuns, routerVars>>

Enters(t) ==
  /\ route[t] = "lock"
  /\ \/ /\ routerClosing
        /\ RouteTo(t, "done") /\ ending' = [ending EXCEPT ![t] = "returned"] /\ UNCHANGED admissionLock
     \/ /\ ~routerClosing /\ admissionLock = NoMessage
        /\ admissionLock' = t /\ RouteTo(t, "opening") /\ UNCHANGED ending
  /\ UNCHANGED <<adapterVars, runVars, shown, owner, server, activeRuns, routerVars>>

\* The turn is prepared and superseds what is active, in one step with the
\* look-up of a session that is ready.
Prepares(t) ==
  LET earlier == {u \in Messages \ {t} : run[u] \in {"prepared", "started"}} IN
  /\ run' = [u \in Messages |-> IF u = t THEN "prepared"
                             ELSE IF u \in earlier /\ run[u] = "prepared" THEN "settled" ELSE run[u]]
  /\ runCancelled' = [u \in Messages |-> runCancelled[u] \/ u \in earlier]
  /\ RouteTo(t, "resolving")

Opened(t) ==
  /\ route[t] = "opening"
  /\ shown' = [shown EXCEPT ![t] = "open"]
  /\ IF owner # NoMessage
     THEN Prepares(t) /\ UNCHANGED <<owner, server>>
     ELSE /\ owner' = t /\ server' = [server EXCEPT ![t] = "starting"]
          /\ RouteTo(t, "startup") /\ UNCHANGED <<run, runCancelled>>
  /\ UNCHANGED <<adapterVars, ending, bridge, admissionLock, activeRuns, routerVars>>

StartupSeen(t) ==
  /\ route[t] = "startup" /\ server[t] # "starting" /\ owner = t
  /\ Prepares(t)
  /\ UNCHANGED <<adapterVars, ending, bridge, shown, admissionLock, owner, server, activeRuns, routerVars>>

Unwound(t) ==
  /\ route[t] = "unwinding" /\ server[t] = "down"
  /\ LeavesTry(t, ending[t])
  /\ UNCHANGED <<adapterVars, bridge, shown, owner, server, activeRuns, routerVars>>

DispositionResolved(t) ==
  /\ route[t] = "resolving"
  /\ activeRuns' = activeRuns \cup {t} /\ RouteTo(t, "binding")
  /\ UNCHANGED <<adapterVars, ending, runVars, shown, admissionLock, owner, server, routerVars>>

\* The join of the planner's generation: it settles and the cancellation goes on, or the
\* join times out (CognitionGenerationUncontained), or the cancel command could not be
\* written: the runtime of the session has failed, the resolver falls back from that
\* error, and the cancellation is lost.
PlannerJoined(t) ==
  /\ route[t] = "unplanning"
  /\ \/ /\ \E how \in {"cancelled", "error"} : LeavesTry(t, how)
        /\ UNCHANGED <<owner, server, activeRuns>>
     \/ /\ server' = [server EXCEPT ![owner] = IF @ = "up" THEN "failed" ELSE @]
        /\ activeRuns' = activeRuns \cup {t} /\ RouteTo(t, "binding")
        /\ UNCHANGED <<ending, run, runCancelled, admissionLock, owner>>
  /\ UNCHANGED <<adapterVars, bridge, shown, routerVars>>

\* A run that was superseded or cancelled meanwhile is settled and not started.
BindsAndStarts(t) ==
  /\ route[t] = "binding"
  /\ shown' = [shown EXCEPT ![t] = "bound"]
  /\ run' = [run EXCEPT ![t] = IF @ = "prepared" THEN "started" ELSE @]
  /\ bridge' = [bridge EXCEPT ![t] = "reading"]
  /\ admissionLock' = NoMessage /\ RouteTo(t, "streaming")
  /\ UNCHANGED <<adapterVars, ending, runCancelled, owner, server, activeRuns, routerVars>>

TerminalSeen(t) ==
  /\ route[t] = "streaming" /\ bridge[t] = "ended"
  /\ RouteTo(t, "presenting")
  /\ UNCHANGED <<adapterVars, ending, runVars, shown, admissionLock, owner, server, activeRuns, routerVars>>

\* The environment finalises and cleans up, then route() returns.
Presented(t) ==
  /\ route[t] = "presenting"
  /\ shown' = [shown EXCEPT ![t] = "closed"]
  /\ LeavesTry(t, "returned")
  /\ UNCHANGED <<adapterVars, bridge, owner, server, activeRuns, routerVars>>

\* The finally clause: the run is awaited, then the bridge, both with a
\* timeout that turns the ending into an error and leaves the rest undone.
Awaits(t) ==
  \/ /\ route[t] = "settling" /\ run[t] \in {"none", "settled"}
     /\ RouteTo(t, "joining") /\ UNCHANGED <<ending, activeRuns>>
  \/ /\ route[t] = "joining" /\ bridge[t] # "reading"
     /\ RouteTo(t, "aborting") /\ activeRuns' = activeRuns \ {t} /\ UNCHANGED ending
AwaitsRunForever(t) ==
  /\ route[t] = "joining"
  /\ RouteTo(t, "done") /\ ending' = [ending EXCEPT ![t] = "error"] /\ UNCHANGED activeRuns
AwaitTimesOut(t) ==
  /\ route[t] \in {"settling", "joining"}
  /\ RouteTo(t, "done") /\ ending' = [ending EXCEPT ![t] = "error"] /\ UNCHANGED activeRuns
RunFinally(t) ==
  /\ Awaits(t) \/ AwaitTimesOut(t)
  /\ UNCHANGED <<adapterVars, runVars, shown, admissionLock, owner, server, routerVars>>

Aborted(t) ==
  /\ route[t] = "aborting"
  /\ shown' = [shown EXCEPT ![t] = IF @ = "none" THEN @ ELSE "closed"]
  /\ RouteTo(t, "done")
  /\ UNCHANGED <<adapterVars, ending, runVars, admissionLock, owner, server, activeRuns, routerVars>>

-----------------------------------------------------------------------------
(* The adapter *)

Returns(t, v) == adapter' = [adapter EXCEPT ![t] = "returned"]
                 /\ result' = [result EXCEPT ![t] = v]

\* The route ended before the token was seen.
RouteSeen(t) ==
  /\ adapter[t] = "waiting" /\ route[t] = "done"
  /\ Returns(t, IF ending[t] = "returned" THEN "answered" ELSE "failed")
  /\ UNCHANGED <<cancels, abandoned, route, ending, runVars, shown, admissionLock, owner, server,
                 activeRuns, routerVars>>

TokenSeen(t) ==
  /\ adapter[t] = "waiting" /\ cancels[t] = 1 /\ route[t] # "done"
  /\ adapter' = [adapter EXCEPT ![t] = "joining"]
  /\ Throws(t, "cancelled")
  /\ UNCHANGED <<result, cancels, abandoned, bridge, shown, activeRuns, routerVars>>

\* The actor cancels the task of execute(): the gather it awaits passes the
\* cancellation on to the route, which is then cancelled once more.
CancelExecution(t) ==
  /\ adapter[t] \in {"waiting", "joining"} /\ cancels[t] = 1
  /\ cancels' = [cancels EXCEPT ![t] = 2]
  /\ adapter' = [adapter EXCEPT ![t] = "cancelled"]
  /\ IF route[t] = "done" THEN UNCHANGED <<route, ending, run, runCancelled, admissionLock, owner, server>>
     ELSE Throws(t, "cancelled")
  /\ UNCHANGED <<result, abandoned, bridge, shown, activeRuns, routerVars>>

\* _raise_if_uncontained: only an error counts, a cancelled route does not.
Containment(t, clean) ==
  IF ending[t] = "error" THEN "uncontained" ELSE clean

RouteJoined(t) ==
  /\ route[t] = "done"
  /\ \/ adapter[t] = "joining" /\ Returns(t, Containment(t, "contained"))
     \/ adapter[t] = "cancelled" /\ Returns(t, Containment(t, "cancelled"))
  /\ UNCHANGED <<cancels, abandoned, route, ending, runVars, shown, admissionLock, owner, server,
                 activeRuns, routerVars>>

-----------------------------------------------------------------------------
(* Threads: the Core run, its bridge, and the model runtimes *)

RunSettles(t) ==
  /\ run[t] = "started"
  /\ run' = [run EXCEPT ![t] = "settled"]
  /\ UNCHANGED <<adapterVars, route, ending, runCancelled, bridge, shown, admissionLock, owner, server,
                 activeRuns, routerVars>>

BridgeEnds(t) ==
  /\ bridge[t] = "reading" /\ run[t] = "settled"
  /\ bridge' = [bridge EXCEPT ![t] = "ended"]
  /\ UNCHANGED <<adapterVars, route, ending, run, runCancelled, shown, admissionLock, owner, server,
                 activeRuns, routerVars>>

ServerMoves(t) ==
  /\ \/ server[t] = "starting" /\ server' = [server EXCEPT ![t] = "up"]
     \/ server[t] = "stopping" /\ server' = [server EXCEPT ![t] = "down"]
  /\ UNCHANGED <<adapterVars, route, ending, runVars, shown, admissionLock, owner, activeRuns, routerVars>>

-----------------------------------------------------------------------------
(* close(), which the kernel calls once the actor has stopped or given up *)

ActorStopped == \A t \in Messages : adapter[t] \in {"idle", "returned"} \/ t \in abandoned

CloseBegins ==
  /\ ActorStopped /\ ~closed /\ closer = "idle" /\ (~routerClosing \/ activeRuns = {})
  /\ routerClosing' = TRUE
  /\ LET open == {t \in activeRuns : run[t] # "settled"} IN
       /\ run' = [t \in Messages |-> IF t \in open /\ run[t] = "prepared" THEN "settled" ELSE run[t]]
       /\ runCancelled' = [t \in Messages |-> runCancelled[t] \/ t \in open]
  /\ IF activeRuns # {} THEN UNCHANGED <<closer, closed>>
     ELSE IF owner = NoMessage THEN closed' = TRUE /\ UNCHANGED closer
     ELSE closer' = "startup" /\ UNCHANGED closed
  /\ UNCHANGED <<adapterVars, route, ending, bridge, shown, admissionLock, owner, server, activeRuns>>

\* The start-up is awaited with a timeout, then the runtime is shut down.
CloseShutsDown ==
  /\ closer = "startup"
  /\ closer' = "shutdown" /\ server' = [server EXCEPT ![owner] = "stopping"]
  /\ UNCHANGED <<adapterVars, route, ending, runVars, shown, admissionLock, owner, activeRuns, routerClosing, closed>>
CloseEnds ==
  /\ closer = "shutdown" /\ server[owner] = "down"
  /\ closer' = "idle" /\ closed' = TRUE
  /\ UNCHANGED <<adapterVars, route, ending, runVars, shown, admissionLock, owner, server, activeRuns, routerClosing>>

-----------------------------------------------------------------------------
RouteStep(t) ==
  \/ Enters(t) \/ Opened(t) \/ StartupSeen(t) \/ Unwound(t) \/ DispositionResolved(t)
  \/ PlannerJoined(t) \/ BindsAndStarts(t) \/ TerminalSeen(t) \/ Presented(t) \/ RunFinally(t) \/ Aborted(t)
LaneStep(t) == RouteSeen(t) \/ TokenSeen(t) \/ RouteJoined(t)
CloseStep == CloseBegins \/ CloseShutsDown \/ CloseEnds

DirectNext ==
  \/ CloseStep
  \/ \E t \in Messages :
       \/ TurnBegins(t) \/ RequestTurnCancel(t) \/ CancelExecution(t) \/ GivesUp(t)
       \/ RouteStep(t) \/ Fault(t) \/ LaneStep(t)
       \/ RunSettles(t) \/ BridgeEnds(t) \/ ServerMoves(t)

\* A run on a runtime that has failed or was shut down fails.
RuntimeGone == owner # NoMessage /\ server[owner] \in {"failed", "stopping", "down"}

\* The event loop runs what can run; model runtimes start and stop; waits with
\* a timeout end; a thread that reads a settled run ends.  While its runtime is up a run
\* need never settle by itself, and nothing need fail.  A turn takes finitely many steps,
\* so fairness to them all is fairness to each.
DirectProgress ==
  \E t \in Messages :
    \/ RouteStep(t) \/ LaneStep(t) \/ ServerMoves(t) \/ BridgeEnds(t)
    \/ RuntimeGone /\ RunSettles(t)
DirectFairness == WF_laneVars(DirectProgress)

DirectSpec == DirectInit /\ [][DirectNext]_laneVars /\ DirectFairness

-----------------------------------------------------------------------------
(* Properties *)

\* However a route ends, by its answer, by an error, by one cancellation or by
\* two, in the middle of its own clean-up or not, its run has settled or was
\* asked to; and an answered turn is over: its presentation is closed and the
\* router has forgotten it (conversation_router.py:345-378).
NoRunLeftStreaming ==
  \A t \in Messages :
    /\ route[t] = "done" =>
         \/ run[t] \in {"none", "settled"}
         \/ run[t] = "started" /\ runCancelled[t]
    /\ result[t] = "answered" =>
         run[t] \in {"none", "settled"} /\ shown[t] \in {"none", "closed"} /\ t \notin activeRuns

\* A turn asked to cancel returns to the actor, wherever it was
\* (conversation_adapter.py:221-240, conversation_router.py:345-378).
CancelledTurnReturns == \A t \in Messages : cancels[t] > 0 ~> adapter[t] = "returned"
=============================================================================
