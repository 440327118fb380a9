---------------------------- MODULE TemporalHost ----------------------------
(***************************************************************************)
(* The host that turns due wakes into admissions                           *)
(* (apps/runtime/src/lilavel_runtime/temporal_host.py), with the           *)
(* coordinator it reads.  Its worker waits for the earliest deadline or    *)
(* for a change, which other threads announce through the event loop.      *)
(*                                                                         *)
(* An action of the worker is what its task runs between two awaits.  The  *)
(* submission of a trigger may end in any way, or never; the order of the  *)
(* triggers of one poll is left out.                                       *)
(***************************************************************************)
EXTENDS TemporalCoordinator

CONSTANTS
  Stoppers,        \* the callers of stop()
  ShutdownTimeout  \* shutdown_timeout, in clock units

ASSUME HostAssumption == ShutdownTimeout \in Nat \ {0}

VARIABLES
  hostState,   \* _state
  dispatcher,  \* the await the worker task rests in, or how it ended
  signal,      \* the _signal event
  callback,    \* a wake() scheduled on the event loop has not run yet
  alarm,       \* when the worker's timed wait ends
  todo,        \* wakes polled whose trigger is not submitted yet
  evidence,    \* how many dispatch records each wake has
  listening,   \* the host is subscribed to the coordinator
  stopper,     \* where each stop() call is
  stopTimer    \* time left of each stop() call's wait_for

stops == <<stopper, stopTimer>>
hostVars == <<hostState, dispatcher, signal, callback, alarm, todo, evidence,
              listening, stops>>
scheduleVars == <<coordinatorVars, hostVars>>

Ended == {"done", "failed", "cancelled"}

HostTypeOK ==
  /\ CoordinatorTypeOK
  /\ hostState \in {"new", "running", "stopping", "stopped", "failed"}
  /\ dispatcher \in Ended \cup {"absent", "ready", "waiting", "timed", "submitting"}
  /\ signal \in BOOLEAN /\ callback \in BOOLEAN /\ listening \in BOOLEAN
  /\ alarm \in 0..MaxClock
  /\ todo \subseteq Wakes
  /\ evidence \in [Wakes -> Nat]
  /\ stopper \in [Stoppers -> {"idle", "waiting", "gathering", "returned",
                               "raised", "cancelled"}]
  /\ stopTimer \in [Stoppers -> 0..ShutdownTimeout]

HostInit ==
  /\ CoordinatorInit
  /\ hostState = "new" /\ dispatcher = "absent"
  /\ signal = FALSE /\ callback = FALSE /\ listening = FALSE
  /\ alarm = 0 /\ todo = {}
  /\ evidence = [w \in Wakes |-> 0]
  /\ stopper = [s \in Stoppers |-> "idle"]
  /\ stopTimer = [s \in Stoppers |-> 0]

-----------------------------------------------------------------------------
(* Notification. *)

NobodyHears == Notified /\ UNCHANGED hostVars

\* A listener schedules wake() on the event loop.
ListenerCalled ==
  /\ Notified
  /\ callback' = (callback \/ listening)
  /\ UNCHANGED <<hostState, dispatcher, signal, alarm, todo, evidence, listening, stops>>

CallbackRuns ==
  /\ callback
  /\ callback' = FALSE /\ signal' = TRUE
  /\ UNCHANGED <<coordinatorVars, hostState, dispatcher, alarm, todo, evidence,
                 listening, stops>>

-----------------------------------------------------------------------------
(* The worker. *)

Start ==
  /\ hostState = "new"
  /\ hostState' = "running" /\ dispatcher' = "ready" /\ listening' = TRUE
  /\ UNCHANGED <<coordinatorVars, signal, callback, alarm, todo, evidence, stops>>

Waits(place, until) ==
  /\ dispatcher' = place /\ alarm' = until /\ todo' = {}
  /\ UNCHANGED <<coordinatorVars, hostState, callback>>

\* dispatch_due(): polls, which notifies the listeners too, and submits.
DispatchesDue ==
  /\ Poll
  /\ callback' = (callback \/ listening)
  /\ todo' = Due /\ dispatcher' = "submitting" /\ alarm' = 0
  /\ UNCHANGED hostState

\* The top of _run's loop.  The injected clock may raise.
LoopTop ==
  \/ /\ hostState # "running"
     /\ Waits("done", 0) /\ UNCHANGED signal
  \/ /\ hostState = "running" /\ signal' = FALSE
     /\ \/ Pending = {} /\ Waits("waiting", 0)
        \/ \E d \in 0..MaxClock : IsNext(d) /\ d > clock /\ Waits("timed", d)
        \/ Due # {} /\ DispatchesDue
        \/ /\ Pending # {}
           /\ hostState' = "failed" /\ dispatcher' = "failed" /\ todo' = {} /\ alarm' = 0
           /\ UNCHANGED <<coordinatorVars, callback>>

WorkerRuns ==
  /\ \/ dispatcher = "ready"
     \/ dispatcher \in {"waiting", "timed"} /\ signal
     \/ dispatcher = "timed" /\ alarm <= clock
  /\ LoopTop
  /\ UNCHANGED <<evidence, listening, stops>>

SubmitsAgain ==
  /\ dispatcher = "submitting"
  /\ \E w \in todo :
       /\ evidence' = [evidence EXCEPT ![w] = IF @ = 1 THEN 2 ELSE 1]
       /\ IF todo = {w} /\ evidence[w] = 1 THEN LoopTop
          ELSE UNCHANGED <<coordinatorVars, hostState, dispatcher, signal, callback, alarm, todo>>
  /\ UNCHANGED <<listening, stops>>

\* _dispatch: admitted, duplicate, rejected or failed, the submission leaves one
\* record; after the last one the loop goes on.
SubmissionEnds ==
  /\ dispatcher = "submitting"
  /\ \E w \in todo :
       /\ evidence' = [evidence EXCEPT ![w] = @ + 1]
       /\ IF todo = {w} THEN LoopTop
          ELSE /\ todo' = todo \ {w}
               /\ UNCHANGED <<coordinatorVars, hostState, dispatcher, signal, callback, alarm>>
  /\ UNCHANGED <<listening, stops>>

-----------------------------------------------------------------------------
(* stop(), called by each member of Stoppers at most once. *)

StopAtRest(s) ==
  /\ stopper[s] = "idle" /\ hostState \in {"new", "stopped"}
  /\ hostState' = "stopped"
  /\ stopper' = [stopper EXCEPT ![s] = "returned"]
  /\ UNCHANGED <<coordinatorVars, dispatcher, signal, callback, alarm, todo, evidence,
                 listening, stopTimer>>

StopBegins(s) ==
  /\ stopper[s] = "idle" /\ hostState \in {"running", "stopping", "failed"}
  /\ hostState' = "stopping" /\ signal' = TRUE
  /\ stopper' = [stopper EXCEPT ![s] = "waiting"]
  /\ stopTimer' = [stopTimer EXCEPT ![s] = ShutdownTimeout]
  /\ UNCHANGED <<coordinatorVars, dispatcher, callback, alarm, todo, evidence, listening>>

\* stop() ends and removes the subscription.
StopEnds(s, how) ==
  /\ stopper' = [stopper EXCEPT ![s] = how]
  /\ listening' = FALSE
  /\ UNCHANGED <<coordinatorVars, signal, callback, evidence, stopTimer>>

\* The worker of an earlier stop() that timed out ends this one with its
\* CancelledError; a failed worker is reported.
StopJoins(s) ==
  /\ stopper[s] = "waiting" /\ dispatcher \in Ended
  /\ \/ dispatcher = "done" /\ StopEnds(s, "returned")
        /\ hostState' = IF hostState = "stopping" THEN "stopped" ELSE hostState
     \/ dispatcher = "failed" /\ StopEnds(s, "raised") /\ UNCHANGED hostState
     \/ dispatcher = "cancelled" /\ StopEnds(s, "cancelled") /\ UNCHANGED hostState
  /\ UNCHANGED <<dispatcher, alarm, todo>>

StopOnlyGathers(s) ==
  /\ stopper[s] = "waiting" /\ stopTimer[s] = 0 /\ dispatcher \notin Ended
  /\ stopper' = [stopper EXCEPT ![s] = "gathering"]
  /\ UNCHANGED <<coordinatorVars, hostState, dispatcher, signal, callback, alarm, todo,
                 evidence, listening, stopTimer>>

\* What was polled and not submitted is lost with the worker.
StopTimesOut(s) ==
  /\ stopper[s] = "waiting" /\ stopTimer[s] = 0 /\ dispatcher \notin Ended
  /\ dispatcher' = "cancelled" /\ alarm' = 0
  /\ stopper' = [stopper EXCEPT ![s] = "gathering"]
  /\ UNCHANGED <<coordinatorVars, hostState, signal, callback, todo, evidence,
                 listening, stopTimer>>

StopFails(s) ==
  /\ stopper[s] = "gathering" /\ dispatcher \in Ended
  /\ hostState' = "failed"
  /\ StopEnds(s, "raised")
  /\ UNCHANGED <<dispatcher, alarm, todo>>

\* The kernel's own shutdown deadline cancels the caller.
CallerCancelled(s) ==
  /\ stopper[s] \in {"waiting", "gathering"}
  /\ StopEnds(s, "cancelled")
  /\ UNCHANGED <<hostState, dispatcher, alarm, todo>>

StopStep(s) == StopJoins(s) \/ StopTimesOut(s) \/ StopFails(s)

-----------------------------------------------------------------------------

StopsWaiting == {s \in Stoppers : stopper[s] = "waiting"}

\* The clock and the timers of stop() advance together.
Tick ==
  /\ \/ Passes
     \/ clock = MaxClock /\ UNCHANGED coordinatorVars
        /\ \E s \in StopsWaiting : stopTimer[s] > 0
  /\ stopTimer' = [s \in Stoppers |->
       IF s \in StopsWaiting /\ stopTimer[s] > 0 THEN stopTimer[s] - 1 ELSE stopTimer[s]]
  /\ UNCHANGED <<hostState, dispatcher, signal, callback, alarm, todo, evidence,
                 listening, stopper>>

HostNext ==
  \/ CoordinatorStep /\ UNCHANGED hostVars
  \/ ListenerCalled \/ CallbackRuns
  \/ Start \/ WorkerRuns \/ SubmissionEnds
  \/ \E s \in Stoppers : StopAtRest(s) \/ StopBegins(s) \/ StopStep(s) \/ CallerCancelled(s)
  \/ Tick

\* Threads and the event loop keep running and the clock advances; nothing is
\* promised of submissions.
HostFairness ==
  /\ WF_scheduleVars(ListenerCalled) /\ WF_scheduleVars(CallbackRuns)
  /\ WF_scheduleVars(WorkerRuns) /\ WF_scheduleVars(Tick)
  /\ \A s \in Stoppers : WF_scheduleVars(StopStep(s))

HostSpec == HostInit /\ [][HostNext]_scheduleVars /\ HostFairness

-----------------------------------------------------------------------------
(* What the host promises. *)

\* "Submits each returned trigger once": a wake that was fenced is still to be
\* submitted or has one record, unless stop() cancelled the worker meanwhile;
\* a wake that was not fenced has none.
DispatchAccounted ==
  \A w \in Wakes :
    IF status[w] = "dispatched"
      THEN evidence[w] = IF w \in todo THEN 0 ELSE 1
      ELSE evidence[w] = 0 /\ w \notin todo

\* No wake is slept through: while the host runs and submissions end, a pending
\* wake is dispatched or cancelled, also one that is earlier than the deadline
\* the worker waits for and one committed while it was about to wait.
NoWakeSleptThrough ==
  WF_scheduleVars(SubmissionEnds) =>
    \A w \in Wakes :
      status[w] = "pending" ~> status[w] # "pending" \/ hostState # "running"

\* stop() ends although a submission may never do.
HostStopReturns ==
  \A s \in Stoppers : stopper[s] = "waiting" ~> stopper[s] \notin {"waiting", "gathering"}
=============================================================================
