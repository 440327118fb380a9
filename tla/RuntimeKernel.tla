--------------------------- MODULE RuntimeKernel ---------------------------
(***************************************************************************)
(* The lifecycle of LilavelRuntime                                         *)
(* (apps/runtime/src/lilavel_runtime/kernel.py), composed with a semantic  *)
(* actor, a temporal host, environment adapters, a presence and a router.  *)
(*                                                                         *)
(* The supervisor owns a task group; stop() starts a shutdown task, which  *)
(* settles the components under one deadline and then joins the            *)
(* supervisor.  Both are coroutines of one event loop: an action is what   *)
(* one of them does between two awaits.  Of the components only what the   *)
(* kernel can tell is kept: whether they run and how their stop() ends.    *)
(***************************************************************************)
EXTENDS Naturals, FiniteSets

CONSTANT StopCallers  \* the callers of stop(); a shutdown is named by its caller

\* Where a call is tells a shutdown from any other place.
ASSUME CallersAssumption ==
  StopCallers \cap {"idle", "starting", "supervisor", "returned", "raised"} = {}

VARIABLES
  runtimeState,           \* _state
  admission,              \* _admission_closed is not set
  started,                \* the _started event
  stopRequested,          \* the _stop_requested event
  failure,                \* _failure is set
  supervisor,             \* the await the supervisor rests in, or how it ended
  alive,                  \* the tasks of its group that have not ended
  aborted,                \* the group has cancelled its tasks
  groupFailed,            \* a task of the group has raised
  cancelSent,             \* the supervisor has been cancelled inside its group
  backlog,                \* observations the cancelled ingress left in the queue
  actor, host, presence,  \* how the components are
  shutdown,               \* the phase of each shutdown task, or how it ended
  deadline,               \* its deadline: armed, or spent
  routerError,            \* the shutdowns that hold a router_error
  current,                \* the shutdown task stored last
  call                    \* where each call of stop() is; the shutdown it waits for

events     == <<started, stopRequested>>
lifecycle  == <<runtimeState, admission, failure, events>>
taskGroup  == <<alive, aborted, groupFailed, cancelSent, backlog>>
group      == <<supervisor, taskGroup>>
components == <<actor, host, presence>>
settlement == <<shutdown, deadline, routerError, current>>
kernelVars == <<lifecycle, group, components, settlement, call>>

-----------------------------------------------------------------------------

Tasks == {"watch", "ingress", "adapter", "presence"}

Phases == {"host", "adapters", "drain", "actor", "router", "presence", "supervisor"}
ShutdownEnds == {"returned", "raised", "cancelled"}
SupervisorEnds == {"done", "cancelled"}

KernelTypeOK ==
  /\ runtimeState \in {"new", "starting", "running", "stopping", "stopped", "failed"}
  /\ {admission, started, stopRequested, failure, aborted, groupFailed,
      cancelSent, backlog} \subseteq BOOLEAN
  /\ supervisor \in SupervisorEnds \cup
       {"absent", "scheduled", "starting", "serving", "leaving", "stopping_host",
        "stopping_actor", "closing_router", "stopping_presence"}
  /\ alive \subseteq Tasks
  /\ actor \in {"new", "running", "stopping", "stopped", "poisoned"}
  /\ host \in {"new", "running", "stopping", "stopped", "failed"}
  /\ presence \in {"new", "running", "stopped"}
  /\ shutdown \in [StopCallers -> Phases \cup ShutdownEnds \cup {"none"}]
  /\ deadline \in [StopCallers -> {"armed", "spent"}]
  /\ routerError \subseteq StopCallers
  /\ current \subseteq StopCallers /\ Cardinality(current) <= 1
  /\ call \in [StopCallers -> StopCallers \cup {"idle", "starting", "supervisor",
                                         "returned", "raised"}]

KernelInit ==
  /\ runtimeState = "new" /\ admission = TRUE
  /\ started = FALSE /\ stopRequested = FALSE /\ failure = FALSE
  /\ supervisor = "absent" /\ alive = {}
  /\ aborted = FALSE /\ groupFailed = FALSE /\ cancelSent = FALSE /\ backlog = FALSE
  /\ actor = "new" /\ host = "new" /\ presence = "new"
  /\ shutdown = [d \in StopCallers |-> "none"]
  /\ deadline = [d \in StopCallers |-> "armed"]
  /\ routerError = {} /\ current = {}
  /\ call = [s \in StopCallers |-> "idle"]

-----------------------------------------------------------------------------
(* Start. *)

StartCalled ==
  /\ runtimeState = "new"
  /\ runtimeState' = "starting" /\ supervisor' = "scheduled"
  /\ UNCHANGED <<admission, events, failure, taskGroup, components, settlement,
                 call>>

SupervisorBegins ==
  /\ supervisor = "scheduled"
  /\ actor' = "running" /\ supervisor' = "starting"
  /\ UNCHANGED <<lifecycle, taskGroup, host, presence, settlement, call>>

\* presence.start() returns: the group's tasks are created and the host starts.
GroupBegins ==
  /\ supervisor = "starting"
  /\ presence' = "running" /\ host' = "running" /\ alive' = Tasks
  /\ runtimeState' = "running" /\ started' = TRUE /\ supervisor' = "serving"
  /\ UNCHANGED <<admission, stopRequested, failure, aborted, groupFailed,
                 cancelSent, backlog, actor, settlement, call>>

Fails == runtimeState' = "failed" /\ failure' = TRUE /\ admission' = FALSE

FailsUnannounced == Fails /\ UNCHANGED started
FailsAnnounced   == Fails /\ started' = TRUE

PresenceRefuses ==
  /\ supervisor = "starting" /\ supervisor' = "stopping_host"
  /\ FailsAnnounced
  /\ UNCHANGED <<stopRequested, taskGroup, components, settlement, call>>

-----------------------------------------------------------------------------
(* The task group.  A task that raises cancels the others and the           *)
(* supervisor's wait.                                                       *)

Leaves(t) == t \in alive /\ alive' = alive \ {t}

Raises == groupFailed' = TRUE /\ aborted' = TRUE

ActorPoisons ==
  /\ actor \in {"running", "stopping"} /\ actor' = "poisoned"
  /\ UNCHANGED <<lifecycle, group, host, presence, settlement, call>>

PoisonIgnored == UNCHANGED <<runtimeState, admission, failure, aborted, groupFailed>>

\* Poison while the runtime shuts down is left to that.
PoisonSeen ==
  IF runtimeState \in {"stopping", "stopped", "failed"} THEN PoisonIgnored ELSE Raises /\ Fails

\* _watch_semantic_actor.
WatchSeesPoison ==
  /\ Leaves("watch") /\ actor = "poisoned"
  /\ PoisonSeen
  /\ UNCHANGED <<events, supervisor, cancelSent, backlog, components, settlement,
                 call>>

WatchStops ==
  /\ Leaves("watch") /\ stopRequested
  /\ UNCHANGED <<lifecycle, supervisor, aborted, groupFailed, cancelSent, backlog,
                 components, settlement, call>>

\* An adapter or the presence ends: unexpectedly if the runtime is running.
OwnedTaskEnds(t) ==
  /\ t \in {"adapter", "presence"} /\ Leaves(t)
  /\ IF runtimeState = "running" THEN Raises
     ELSE Raises \/ UNCHANGED <<aborted, groupFailed>>
  /\ UNCHANGED <<lifecycle, supervisor, cancelSent, backlog, components,
                 settlement, call>>

\* The presence's wait ends once it has been stopped.
PresenceWaitEnds ==
  /\ presence = "stopped" /\ runtimeState # "running" /\ Leaves("presence")
  /\ UNCHANGED <<lifecycle, supervisor, aborted, groupFailed, cancelSent, backlog,
                 components, settlement, call>>

\* A cancelled task ends; the ingress may leave observations in the queue.
CancelledTaskEnds(t) ==
  /\ aborted /\ Leaves(t)
  /\ IF t = "ingress" THEN backlog' \in BOOLEAN ELSE UNCHANGED backlog
  /\ UNCHANGED <<lifecycle, supervisor, aborted, groupFailed, cancelSent,
                 components, settlement, call>>

SupervisorLeaves ==
  /\ supervisor = "serving" /\ (stopRequested \/ aborted)
  /\ supervisor' = "leaving"
  /\ UNCHANGED <<lifecycle, taskGroup, components, settlement, call>>

-----------------------------------------------------------------------------
(* The end of the supervisor. *)

GroupExits ==
  /\ supervisor = "leaving" /\ alive = {}
  /\ supervisor' = "stopping_host"
  /\ \/ groupFailed /\ FailsAnnounced
     \/ /\ ~groupFailed /\ cancelSent
        /\ runtimeState' = "failed" /\ admission' = FALSE /\ UNCHANGED <<failure, started>>
     \/ /\ ~groupFailed /\ ~cancelSent
        /\ IF runtimeState # "stopping" THEN UNCHANGED <<runtimeState, failure>>
           ELSE IF actor = "poisoned" THEN runtimeState' = "failed" /\ failure' = TRUE
           ELSE runtimeState' = "stopped" /\ UNCHANGED failure
        /\ UNCHANGED <<admission, started>>
  /\ UNCHANGED <<stopRequested, taskGroup, components, settlement, call>>

SupervisorGoesTo(place) ==
  /\ supervisor' = place
  /\ UNCHANGED <<admission, events, taskGroup, settlement, call>>

\* How a component's stop() leaves it when it returns, and when it raises: only
\* one that had not stopped can fail, and a failed one stays so.
HostStops     == host # "failed" /\ host' = "stopped"
HostRaises    == host # "stopped" /\ host' = "failed"
ActorStops    == actor # "poisoned" /\ actor' = "stopped"
ActorRaises   == actor # "stopped" /\ actor' = "poisoned"
PresenceStops == presence' = IF presence = "new" THEN "new" ELSE "stopped"

\* The finally clause stops what the state it then reads calls for.
FinallyStopsHost ==
  /\ supervisor = "stopping_host"
  /\ IF host \in {"new", "stopped"} THEN UNCHANGED host ELSE HostStops \/ HostRaises
  /\ SupervisorGoesTo("stopping_actor")
  /\ UNCHANGED <<runtimeState, failure, actor, presence>>

FinallyStopsActor ==
  /\ supervisor = "stopping_actor"
  /\ IF runtimeState = "failed" THEN ActorStops \/ ActorRaises ELSE UNCHANGED actor
  /\ SupervisorGoesTo("closing_router")
  /\ UNCHANGED <<runtimeState, failure, host, presence>>

FinallyClosesRouter ==
  /\ supervisor = "closing_router"
  /\ \/ UNCHANGED <<runtimeState, failure>>
     \/ ~failure /\ failure' = TRUE /\ runtimeState' = "failed"
  /\ SupervisorGoesTo("stopping_presence")
  /\ UNCHANGED components

FinallyStopsPresence ==
  /\ supervisor = "stopping_presence"
  /\ IF runtimeState = "failed" THEN PresenceStops ELSE UNCHANGED presence
  /\ SupervisorGoesTo(IF cancelSent /\ ~groupFailed THEN "cancelled" ELSE "done")
  /\ UNCHANGED <<runtimeState, failure, actor, host>>

Finally == FinallyStopsHost \/ FinallyStopsActor \/ FinallyClosesRouter \/ FinallyStopsPresence

\* supervisor.cancel(): inside the group it aborts that; in the finally clause
\* it ends the await of one step, and the clause goes on with the next.
CancelSupervisor ==
  CASE supervisor \in {"serving", "leaving"} ->
         cancelSent' = TRUE /\ aborted' = TRUE /\ UNCHANGED supervisor
    [] supervisor \in {"stopping_host", "stopping_actor", "closing_router"} ->
         /\ supervisor' = CASE supervisor = "stopping_host"  -> "stopping_actor"
                            [] supervisor = "stopping_actor" -> "closing_router"
                            [] OTHER                         -> "stopping_presence"
         /\ UNCHANGED <<cancelSent, aborted>>
    [] OTHER -> UNCHANGED <<supervisor, cancelSent, aborted>>

-----------------------------------------------------------------------------
(* A shutdown task. *)

GoesTo(d, place) ==
  /\ shutdown' = [shutdown EXCEPT ![d] = place]
  /\ UNCHANGED <<deadline, current>>

Settles(d, place, error) ==
  /\ GoesTo(d, place)
  /\ routerError' = IF error THEN routerError \cup {d} ELSE routerError

ShutdownStopsHost(d) ==
  /\ shutdown[d] = "host"
  /\ \/ HostStops /\ Settles(d, "adapters", FALSE)
     \/ HostRaises /\ Settles(d, "adapters", TRUE)
  /\ UNCHANGED <<lifecycle, group, actor, presence, call>>

\* The adapters are cancelled and gathered.
ShutdownEndsAdapters(d) ==
  /\ shutdown[d] = "adapters"
  /\ alive' = alive \ {"adapter"}
  /\ GoesTo(d, "drain")
  /\ UNCHANGED <<lifecycle, supervisor, aborted, groupFailed, cancelSent, backlog,
                 components, routerError, call>>

\* The queue is joined, and then the ingress ended.
ShutdownDrains(d) ==
  /\ shutdown[d] = "drain" /\ ("ingress" \in alive \/ ~backlog)
  /\ alive' = alive \ {"ingress"}
  /\ GoesTo(d, "actor")
  /\ UNCHANGED <<lifecycle, supervisor, aborted, groupFailed, cancelSent, backlog,
                 components, routerError, call>>

ActorSettles(d) == \/ ActorStops /\ Settles(d, "router", FALSE)
                   \/ ActorRaises /\ Settles(d, "router", TRUE)

ShutdownStopsActor(d) ==
  /\ shutdown[d] = "actor"
  /\ ActorSettles(d)
  /\ UNCHANGED <<lifecycle, group, host, presence, call>>

ShutdownClosesRouter(d) ==
  /\ shutdown[d] = "router"
  /\ \E error \in BOOLEAN : Settles(d, "presence", error)
  /\ UNCHANGED <<lifecycle, group, components, call>>

ShutdownStopsPresence(d) ==
  /\ shutdown[d] = "presence"
  /\ PresenceStops
  /\ \E error \in BOOLEAN : Settles(d, "supervisor", error)
  /\ stopRequested' = TRUE
  /\ UNCHANGED <<runtimeState, admission, started, failure, group, actor, host, call>>

\* The supervisor is joined: a router_error fails the runtime, a cancelled
\* supervisor ends the shutdown: with a timeout if its deadline is spent, and with
\* the CancelledError otherwise.
ShutdownJoins(d) ==
  /\ shutdown[d] = "supervisor" /\ supervisor \in SupervisorEnds
  /\ \/ /\ supervisor = "cancelled"
        /\ IF deadline[d] = "spent" THEN GoesTo(d, "raised") /\ Fails
           ELSE GoesTo(d, "cancelled") /\ UNCHANGED <<runtimeState, failure, admission>>
     \/ /\ supervisor = "done" /\ d \in routerError
        /\ GoesTo(d, "raised")
        /\ runtimeState' = "failed" /\ failure' = TRUE /\ UNCHANGED admission
     \/ /\ supervisor = "done" /\ d \notin routerError
        /\ GoesTo(d, IF runtimeState = "failed" THEN "raised" ELSE "returned")
        /\ UNCHANGED <<runtimeState, failure, admission>>
  /\ UNCHANGED <<events, group, components, routerError, call>>

\* The deadline cancels the shutdown task.  While that stops a component, the
\* cancellation is taken for the component's error, and the shutdown goes on.
DeadlineSwallowed(d) ==
  /\ shutdown[d] \in {"host", "actor", "router", "presence"}
  /\ routerError' = routerError \cup {d}
  /\ shutdown' = [shutdown EXCEPT ![d] =
       CASE @ = "host"   -> "adapters"
         [] @ = "actor"  -> "router"
         [] @ = "router" -> "presence"
         [] OTHER        -> "supervisor"]
  /\ host'  = IF shutdown[d] = "host" /\ host = "running" THEN "stopping" ELSE host
  /\ actor' = IF shutdown[d] = "actor" /\ actor = "running" THEN "stopping" ELSE actor
  /\ stopRequested' = (stopRequested \/ shutdown[d] = "presence")
  /\ UNCHANGED <<runtimeState, admission, started, failure, group, presence>>

\* The phase of the router begins with the exclusions of user turns.
DeadlineFails(d) ==
  /\ shutdown[d] \in {"adapters", "drain", "router"}
  /\ shutdown' = [shutdown EXCEPT ![d] = "raised"]
  /\ Fails /\ CancelSupervisor
  /\ UNCHANGED <<events, alive, groupFailed, backlog, components, routerError>>

\* While the supervisor closes the router, its cancellation is the router's error.
DeadlineCancelsSupervisor(d) ==
  /\ shutdown[d] = "supervisor" /\ supervisor \notin SupervisorEnds
  /\ CancelSupervisor
  /\ IF supervisor = "closing_router" /\ ~failure
       THEN failure' = TRUE /\ runtimeState' = "failed"
       ELSE UNCHANGED <<failure, runtimeState>>
  /\ UNCHANGED <<admission, events, alive, groupFailed, backlog, components,
                 shutdown, routerError>>

DeadlineExpires(d) ==
  /\ deadline[d] = "armed"
  /\ deadline' = [deadline EXCEPT ![d] = "spent"]
  /\ DeadlineSwallowed(d) \/ DeadlineFails(d) \/ DeadlineCancelsSupervisor(d)
  /\ UNCHANGED <<current, call>>

-----------------------------------------------------------------------------
(* stop(). *)

Ends(s, how) == call' = [call EXCEPT ![s] = how]

StopNew(s) ==
  /\ runtimeState = "new"
  /\ runtimeState' = "stopped" /\ admission' = FALSE
  /\ host' = "stopped" /\ actor' = "stopped"
  /\ Ends(s, "returned")
  /\ UNCHANGED <<events, failure, group, presence, settlement>>

StopStopped(s) ==
  /\ runtimeState = "stopped" /\ Ends(s, "returned")
  /\ UNCHANGED <<lifecycle, group, components, settlement>>

StopStarting(s) ==
  /\ runtimeState = "starting" /\ Ends(s, "starting")
  /\ UNCHANGED <<lifecycle, group, components, settlement>>

StopStopping(s) ==
  /\ runtimeState = "stopping" /\ \E d \in current : Ends(s, d)
  /\ UNCHANGED <<lifecycle, group, components, settlement>>

Starts(s) == shutdown' = [shutdown EXCEPT ![s] = "host"]
NewShutdown(s)      == Starts(s) /\ current' = {s}

\* The caller waits for its own shutdown from RUNNING; from FAILED it waits for
\* the supervisor, and the new shutdown goes on in the background.
StopCalled(s) ==
  /\ runtimeState \in {"running", "failed"}
  /\ runtimeState' = "stopping" /\ admission' = FALSE
  /\ NewShutdown(s)
  /\ Ends(s, IF runtimeState = "failed" THEN "supervisor" ELSE s)
  /\ UNCHANGED <<events, failure, group, components, deadline, routerError>>

Stop(s) ==
  /\ call[s] = "idle" \/ (call[s] = "starting" /\ started)
  /\ StopNew(s) \/ StopStopped(s) \/ StopStarting(s) \/ StopStopping(s) \/ StopCalled(s)

StopRaises(s) ==
  /\ call[s] = "supervisor" /\ supervisor \in SupervisorEnds
  /\ Ends(s, "raised")
  /\ UNCHANGED <<lifecycle, group, components, settlement>>

StopJoinsShutdown(s) ==
  /\ call[s] \in StopCallers /\ shutdown[call[s]] \in ShutdownEnds
  /\ Ends(s, IF shutdown[call[s]] = "returned" THEN "returned" ELSE "raised")
  /\ UNCHANGED <<lifecycle, group, components, settlement>>

-----------------------------------------------------------------------------

SupervisorStep == SupervisorBegins \/ SupervisorLeaves \/ GroupExits \/ Finally

StartEnds == GroupBegins \/ PresenceRefuses

TaskEnds == \/ WatchSeesPoison \/ WatchStops \/ PresenceWaitEnds
            \/ \E t \in Tasks : CancelledTaskEnds(t)

\* The awaits of a shutdown on its components, and its other steps.
ComponentStops(d) == \/ ShutdownStopsHost(d) \/ ShutdownStopsActor(d)
                     \/ ShutdownClosesRouter(d) \/ ShutdownStopsPresence(d)
ShutdownWaits(d)  == ShutdownEndsAdapters(d) \/ ShutdownDrains(d) \/ ShutdownJoins(d)

StopEnds(s) == StopRaises(s) \/ StopJoinsShutdown(s)

KernelNext ==
  \/ StartCalled \/ StartEnds \/ SupervisorStep \/ ActorPoisons \/ TaskEnds
  \/ \E t \in Tasks : OwnedTaskEnds(t)
  \/ \E d \in StopCallers : ComponentStops(d) \/ ShutdownWaits(d) \/ DeadlineExpires(d)
  \/ \E s \in StopCallers : Stop(s) \/ StopEnds(s)

KernelSpec == KernelInit /\ [][KernelNext]_kernelVars

\* The event loop runs every coroutine that can go on, the deadline expires and
\* cancelled tasks end.
LoopFairness ==
  /\ WF_kernelVars(StartEnds) /\ WF_kernelVars(SupervisorStep) /\ WF_kernelVars(TaskEnds)
  /\ \A d \in StopCallers : WF_kernelVars(ShutdownWaits(d)) /\ WF_kernelVars(DeadlineExpires(d))
  /\ \A s \in StopCallers :
       WF_kernelVars(StopEnds(s)) /\ WF_kernelVars(call[s] = "starting" /\ Stop(s))

\* Every stop() of a component that a shutdown calls ends too.
ComponentFairness == \A d \in StopCallers : WF_kernelVars(ComponentStops(d))

LoopSpec == KernelSpec /\ LoopFairness
FairSpec == LoopSpec /\ ComponentFairness

-----------------------------------------------------------------------------
(* Properties. *)

\* A poisoned actor is never left behind a runtime that goes on admitting.
PoisonClosesRuntime == actor = "poisoned" ~> ~admission

\* Every call of stop() ends, provided that no deadline was spent on a component:
\* its cancellation is then swallowed and nothing bounds the rest.
KernelStopReturns ==
  \A s \in StopCallers :
    call[s] \notin {"idle", "returned", "raised"} ~>
      \/ call[s] \in {"returned", "raised"}
      \/ \E d \in routerError : deadline[d] = "spent"

\* A stop() that returned, rather than raised, left nothing running: the runtime admits nothing,
\* the tasks of its group have ended, and so have the actor and the host, unless a deadline was
\* spent on stopping them; whatever failed, poisoned or was asked by other callers meanwhile
\* (kernel.py:744-806).
Quiet ==
  /\ ~admission /\ alive = {} /\ actor # "running" /\ host # "running"
  /\ "stopping" \in {actor, host} => \E d \in routerError : deadline[d] = "spent"
ReturnedIsQuiet == (\E s \in StopCallers : call[s] = "returned") => Quiet

\* docs/ARCHITECTURE.md: shutdown settles the task group within a configured
\* deadline, whatever the components' own stop() do.
SettlesInTime ==
  \A d \in StopCallers : shutdown[d] \in Phases ~> shutdown[d] \in ShutdownEnds

\* Every coroutine of the lifecycle has ended, and every call of stop() too.
Settled ==
  /\ supervisor \in SupervisorEnds
  /\ \A d \in StopCallers : shutdown[d] \in ShutdownEnds \cup {"none"}
  /\ \A s \in StopCallers : call[s] \in {"idle", "returned", "raised"}

\* tests/test_runtime_h2.py: a stop() that has raised leaves the runtime FAILED.
RaisedStopLeavesFailed ==
  Settled /\ (\E s \in StopCallers : call[s] = "raised") => runtimeState = "failed"
=============================================================================
