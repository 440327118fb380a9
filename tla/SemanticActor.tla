--------------------------- MODULE SemanticActor ---------------------------
(***************************************************************************)
(* The character-wide semantic admission actor of the runtime              *)
(* (apps/runtime/src/lilavel_runtime/semantic_actor.py).                   *)
(*                                                                         *)
(* One worker task pops admitted records, user lane first, and runs each   *)
(* record's executor as a task of its own.  User work preempts an active   *)
(* non-user record through a cooperative cancellation token; a record that *)
(* does not settle within the settlement timeout is cancelled, and one     *)
(* that still does not settle poisons the actor.  stop() joins the worker  *)
(* for twice the timeout and then cancels it.                              *)
(*                                                                         *)
(* Each action is the code a task runs between two awaits.  Time is a      *)
(* countdown per armed timer: Tick passes one unit when no armed timer is  *)
(* due, and steps that are ready may lag behind it, as they do when a      *)
(* synchronous section holds the event loop past a deadline.               *)
(***************************************************************************)
EXTENDS Integers, Sequences, FiniteSets, Functions

CONSTANTS
  UserRequests,      \* request identities admitted with USER priority
  NonUserRequests,   \* request identities admitted with NON_USER priority
  MailboxCapacity,   \* mailbox_capacity
  FenceCapacity,     \* fence_capacity
  Timeout,           \* settlement_timeout, in clock units
  Stoppers,          \* the callers of stop()
  MaxSession,        \* bound: no admission once this many sessions retired
  None               \* no record is active

ASSUME ActorAssumption ==
  /\ UserRequests \cap NonUserRequests = {}
  /\ MailboxCapacity \in Nat \ {0}
  /\ FenceCapacity \in Nat \ {0}
  /\ Timeout \in Nat \ {0}
  /\ MaxSession \in Nat
  /\ None \notin (0..MaxSession) \X (UserRequests \cup NonUserRequests)

VARIABLES
  state,            \* _state
  session,          \* how many sessions have been retired: names _session_id
  userQueue,        \* _user_queue
  nonUserQueue,     \* _non_user_queue
  inFlight,         \* keys of _in_flight
  settled,          \* keys of _settled
  future,           \* what the future of a key's admission holds
  active,           \* key of _active
  cancelRequested,  \* keys whose record has its token requested
  execution,        \* the executor task of a key
  uncontained,      \* keys of the tasks in _uncontained
  worker,           \* the await the worker task rests in
  wake,             \* the _wake event
  verdict,          \* what _execute returns once its cleanup is done
  timer,            \* time left of the worker's wait_for
  stopper,          \* where each stop() call is
  stopTimer         \* time left of each stop() call's wait_for

mailbox == <<userQueue, nonUserQueue>>
fences  == <<session, inFlight, settled, future>>
work    == <<active, cancelRequested, execution, uncontained>>
control == <<worker, wake, verdict, timer>>
stops   == <<stopper, stopTimer>>
vars    == <<state, mailbox, fences, work, control, stops>>

-----------------------------------------------------------------------------
(* Requests are fenced by session and identity. *)

Requests == UserRequests \cup NonUserRequests
Keys     == (0..MaxSession) \X Requests

IsUser(k) == k[2] \in UserRequests

Resolved == {"completed", "cancelled", "failed"}

\* How an executor task can end: a plain value, a value that reports its own
\* failure or cancellation as semantic_status, CancelledError, another
\* exception, an exception that carries semantic_uncontained.
Endings == {"value", "reports_failed", "reports_cancelled",
            "cancelled", "error", "uncontained"}

Live(k)  == execution[k] \in {"running", "cancelling"}
Ended(k) == execution[k] \in Endings

Queued == Range(userQueue) \cup Range(nonUserQueue)

\* What stop() asks to cancel: the active record, if there is one.
ActiveRecord == {active} \ {None}

NoVerdict == [status |-> "none", uncontained |-> FALSE]
Verdict(status, isUncontained) ==
  [status |-> status, uncontained |-> isUncontained]
ClosingVerdicts ==
  [status : Resolved, uncontained : BOOLEAN]

TypeOK ==
  /\ state \in {"new", "running", "stopping", "stopped", "poisoned"}
  /\ session \in 0..MaxSession
  /\ userQueue \in Seq(Keys) /\ nonUserQueue \in Seq(Keys)
  /\ inFlight \subseteq Keys /\ settled \subseteq Keys
  /\ future \in [Keys -> Resolved \cup {"none", "pending"}]
  /\ active \in Keys \cup {None}
  /\ cancelRequested \subseteq Keys
  /\ execution \in [Keys -> Endings \cup {"none", "running", "cancelling", "over"}]
  /\ uncontained \subseteq Keys
  /\ worker \in {"absent", "asleep", "waiting", "grace", "joining", "closing", "done"}
  /\ wake \in BOOLEAN
  /\ verdict \in ClosingVerdicts \cup {NoVerdict}
  /\ timer \in 0..Timeout
  /\ stopper \in [Stoppers -> {"idle", "waiting", "gathering", "returned", "raised"}]
  /\ stopTimer \in [Stoppers -> 0..(2 * Timeout)]

Init ==
  /\ state = "new" /\ session = 0
  /\ userQueue = <<>> /\ nonUserQueue = <<>>
  /\ inFlight = {} /\ settled = {}
  /\ future = [k \in Keys |-> "none"]
  /\ active = None /\ cancelRequested = {}
  /\ execution = [k \in Keys |-> "none"]
  /\ uncontained = {}
  /\ worker = "absent" /\ wake = FALSE
  /\ verdict = NoVerdict /\ timer = 0
  /\ stopper = [s \in Stoppers |-> "idle"]
  /\ stopTimer = [s \in Stoppers |-> 0]

-----------------------------------------------------------------------------
(* Admission. *)

\* start(): the worker task is created and takes its first step when scheduled.
Start ==
  /\ state = "new"
  /\ state' = "running" /\ worker' = "asleep" /\ wake' = TRUE
  /\ UNCHANGED <<mailbox, fences, work, verdict, timer, stops>>

\* admit() of a descriptor that passes every check.  A descriptor may have been
\* issued in any session so far; those of retired sessions, duplicates and
\* requests over a capacity are answered without a change of state.
AdmissibleIfNotInFlight(k) ==
  /\ k \notin inFlight
  /\ k[1] = session
  /\ state = "running"
  /\ Cardinality(settled) + Cardinality(inFlight) < FenceCapacity
  /\ Len(userQueue) + Len(nonUserQueue) < MailboxCapacity

Admissible(k) ==
  /\ k \notin inFlight \cup settled
  /\ k[1] = session
  /\ state = "running"
  /\ Cardinality(settled) + Cardinality(inFlight) < FenceCapacity
  /\ Len(userQueue) + Len(nonUserQueue) < MailboxCapacity

PreemptsForQueued(k) ==
  IsUser(k) /\ nonUserQueue # <<>> /\ active # None /\ ~IsUser(active)

Preempts(k) == IsUser(k) /\ active # None /\ ~IsUser(active)

AdmitSilently(k) ==
  /\ Admissible(k) /\ session < MaxSession
  /\ inFlight' = inFlight \cup {k} /\ future' = [future EXCEPT ![k] = "pending"]
  /\ IF IsUser(k)
       THEN userQueue' = Append(userQueue, k) /\ UNCHANGED nonUserQueue
       ELSE nonUserQueue' = Append(nonUserQueue, k) /\ UNCHANGED userQueue
  /\ cancelRequested' = IF Preempts(k) THEN cancelRequested \cup {active}
                                       ELSE cancelRequested
  /\ UNCHANGED <<state, session, settled, active, execution, uncontained,
                 control, stops>>

Admit(k) ==
  /\ Admissible(k)
  /\ session < MaxSession
  /\ inFlight' = inFlight \cup {k}
  /\ future' = [future EXCEPT ![k] = "pending"]
  /\ IF IsUser(k)
       THEN userQueue' = Append(userQueue, k) /\ UNCHANGED nonUserQueue
       ELSE nonUserQueue' = Append(nonUserQueue, k) /\ UNCHANGED userQueue
  /\ cancelRequested' = IF Preempts(k) THEN cancelRequested \cup {active}
                                       ELSE cancelRequested
  /\ wake' = TRUE
  /\ UNCHANGED <<state, session, settled, active, execution, uncontained,
                 worker, verdict, timer, stops>>

-----------------------------------------------------------------------------
(* The worker loop.  fl, st and fut are the fences as the step that reaches *)
(* the top of the loop leaves them.                                         *)

Resolve(fut, ks, status) == [k \in Keys |-> IF k \in ks THEN status ELSE fut[k]]

DropQueued(fl, st, fut) ==
  /\ inFlight' = fl \ Queued
  /\ settled' = st /\ future' = fut
  /\ userQueue' = <<>> /\ nonUserQueue' = <<>>

\* _settle of each queued record with CANCELLED, on top of fl, st and fut.
RejectQueued(fl, st, fut) ==
  /\ inFlight' = fl \ Queued
  /\ settled' = st \cup Queued
  /\ future' = Resolve(fut, Queued, "cancelled")
  /\ userQueue' = <<>> /\ nonUserQueue' = <<>>

\* Nobody waits on wake once the worker has returned.
Exit(fl, st, fut) ==
  /\ RejectQueued(fl, st, fut)
  /\ worker' = "done" /\ wake' = FALSE /\ active' = None
  /\ UNCHANGED execution

Sleep(fl, st, fut) ==
  /\ inFlight' = fl /\ settled' = st /\ future' = fut
  /\ worker' = "asleep" /\ wake' = FALSE /\ active' = None
  /\ UNCHANGED <<mailbox, execution>>

\* _pop_next and the head of _execute: the popped record's executor starts.
Begin(fl, st, fut, k) ==
  /\ inFlight' = fl /\ settled' = st /\ future' = fut
  /\ active' = k /\ execution' = [execution EXCEPT ![k] = "running"]
  /\ worker' = "waiting"
  /\ UNCHANGED wake

PopAndBegin(fl, st, fut) ==
  IF userQueue # <<>>
    THEN /\ Begin(fl, st, fut, Head(userQueue))
         /\ userQueue' = Tail(userQueue) /\ UNCHANGED nonUserQueue
    ELSE /\ Begin(fl, st, fut, Head(nonUserQueue))
         /\ nonUserQueue' = Tail(nonUserQueue) /\ UNCHANGED userQueue

LoopTop(fl, st, fut) ==
  \/ /\ state # "running"
     /\ Exit(fl, st, fut)
  \/ /\ state = "running" /\ userQueue = <<>> /\ nonUserQueue = <<>>
     /\ Sleep(fl, st, fut)
  \/ /\ state = "running" /\ (userQueue # <<>> \/ nonUserQueue # <<>>)
     /\ PopAndBegin(fl, st, fut)

WorkerWakes ==
  /\ worker = "asleep" /\ wake
  /\ LoopTop(inFlight, settled, future)
  /\ UNCHANGED <<state, session, cancelRequested, uncontained, verdict, timer, stops>>

-----------------------------------------------------------------------------
(* One execution. *)

\* The executor of the active record ends while the worker awaits it.
ExecutionEnds(k, ending) ==
  /\ Live(k) /\ k = active /\ worker \in {"waiting", "grace", "joining"}
  /\ execution' = [execution EXCEPT ![k] = ending]
  /\ UNCHANGED <<state, mailbox, fences, active, cancelRequested, uncontained,
                 control, stops>>

\* An executor the worker gave up on ends; nobody reads its result.
OrphanEnds(k) ==
  /\ Live(k) /\ (k # active \/ worker = "closing")
  /\ execution' = [execution EXCEPT ![k] = "over"]
  /\ UNCHANGED <<state, mailbox, fences, active, cancelRequested, uncontained,
                 control, stops>>

\* The done callback of an uncontained task.
UncontainedDone(k) ==
  /\ k \in uncontained /\ ~Live(k)
  /\ uncontained' = uncontained \ {k}
  /\ UNCHANGED <<state, mailbox, fences, active, cancelRequested, execution,
                 control, stops>>

\* The worker leaves its awaits with a verdict and enters _execute's cleanup;
\* the result of an executor that has ended has been read.
Close(v) ==
  /\ worker' = "closing" /\ verdict' = v /\ timer' = 0
  /\ execution' = [execution EXCEPT ![active] = IF Live(active) THEN @ ELSE "over"]

\* _execution_result: a requested cancellation overrides any value.
ExecutionResult ==
  CASE execution[active] = "cancelled"   -> Verdict("cancelled", FALSE)
    [] execution[active] = "error"       -> Verdict("failed", FALSE)
    [] execution[active] = "uncontained" -> Verdict("failed", TRUE)
    [] OTHER -> IF active \in cancelRequested \/ execution[active] = "reports_cancelled"
                  THEN Verdict("cancelled", FALSE)
                  ELSE IF execution[active] = "reports_failed"
                         THEN Verdict("failed", FALSE)
                         ELSE Verdict("completed", FALSE)

WorkerSeesResult ==
  /\ worker = "waiting" /\ Ended(active)
  /\ Close(ExecutionResult)
  /\ UNCHANGED <<state, mailbox, fences, active, cancelRequested, uncontained, wake, stops>>

\* The token fired first: wait for cooperative settlement.
GraceBegins ==
  /\ worker = "waiting" /\ active \in cancelRequested /\ Live(active)
  /\ worker' = "grace" /\ timer' = Timeout
  /\ UNCHANGED <<state, mailbox, fences, work, wake, verdict, stops>>

GraceSettles ==
  /\ worker = "grace" /\ Ended(active)
  /\ Close(CASE execution[active] = "error"       -> Verdict("failed", FALSE)
             [] execution[active] = "uncontained" -> Verdict("failed", TRUE)
             [] OTHER                             -> Verdict("cancelled", FALSE))
  /\ UNCHANGED <<state, mailbox, fences, active, cancelRequested, uncontained, wake, stops>>

\* _cancel_and_join: task.cancel() and a second bounded wait.
CancelAndJoin ==
  /\ worker' = "joining" /\ timer' = Timeout
  /\ execution' = [execution EXCEPT ![active] = IF @ = "running" THEN "cancelling" ELSE @]

GraceOutlasts ==
  /\ worker = "grace" /\ timer = 0 /\ Ended(active)
  /\ CancelAndJoin
  /\ UNCHANGED <<state, mailbox, fences, active, cancelRequested, uncontained,
                 wake, verdict, stops>>

GraceExpires ==
  /\ worker = "grace" /\ timer = 0
  /\ CancelAndJoin
  /\ UNCHANGED <<state, mailbox, fences, active, cancelRequested, uncontained,
                 wake, verdict, stops>>

JoinSettles ==
  /\ worker = "joining" /\ Ended(active)
  /\ IF execution[active] = "uncontained"
       THEN /\ Close(Verdict("failed", TRUE))
            /\ uncontained' = uncontained \cup {active}
       ELSE /\ Close(Verdict("cancelled", FALSE))
            /\ UNCHANGED uncontained
  /\ UNCHANGED <<state, mailbox, fences, active, cancelRequested, wake, stops>>

JoinGivesUp ==
  /\ worker = "joining" /\ timer = 0
  /\ Close(Verdict("failed", FALSE))
  /\ UNCHANGED <<state, mailbox, fences, active, cancelRequested, uncontained, wake, stops>>

JoinExpires ==
  /\ worker = "joining" /\ timer = 0
  /\ Close(Verdict("failed", TRUE))
  /\ uncontained' = uncontained \cup {active}
  /\ UNCHANGED <<state, mailbox, fences, active, cancelRequested, wake, stops>>

-----------------------------------------------------------------------------
(* Settlement of the active record, once the cancellation task is joined. *)

InFlightAfter == inFlight \ {active}
SettledAfter  == settled \cup {active}
FutureAfter   == Resolve(future, {active}, verdict.status)

\* _maybe_rotate_session.
Rotates ==
  /\ Cardinality(SettledAfter) >= FenceCapacity
  /\ userQueue = <<>> /\ nonUserQueue = <<>>

SessionAfter == IF Rotates THEN session + 1 ELSE session

WorkerSettles ==
  /\ worker = "closing" /\ ~verdict.uncontained
  /\ session' = SessionAfter
  /\ LoopTop(InFlightAfter, IF Rotates THEN {} ELSE SettledAfter, FutureAfter)
  /\ verdict' = NoVerdict
  /\ UNCHANGED <<state, cancelRequested, uncontained, timer, stops>>

\* Containment is uncertain: settle, poison, reject what is queued, and return.
WorkerPoisons ==
  /\ worker = "closing" /\ verdict.uncontained
  /\ state' = "poisoned"
  /\ Exit(InFlightAfter, SettledAfter, FutureAfter)
  /\ verdict' = NoVerdict
  /\ UNCHANGED <<session, cancelRequested, uncontained, timer, stops>>

-----------------------------------------------------------------------------
(* stop(), called by each member of Stoppers at most once. *)

\* From NEW, STOPPED or POISONED.  The worker of a poisoned actor has returned
\* already, so the wait of that branch never happens.
StopAtRest(s) ==
  /\ stopper[s] = "idle" /\ state \in {"new", "stopped", "poisoned"}
  /\ state' = IF state = "new" THEN "stopped" ELSE state
  /\ stopper' = [stopper EXCEPT
       ![s] = IF state = "poisoned" /\ uncontained # {} THEN "raised" ELSE "returned"]
  /\ UNCHANGED <<mailbox, fences, work, control, stopTimer>>

StopBegins(s) ==
  /\ stopper[s] = "idle" /\ state \in {"running", "stopping"}
  /\ state' = "stopping"
  /\ RejectQueued(inFlight, settled, future)
  /\ cancelRequested' = cancelRequested \cup ActiveRecord
  /\ wake' = TRUE
  /\ stopper' = [stopper EXCEPT ![s] = "waiting"]
  /\ stopTimer' = [stopTimer EXCEPT ![s] = 2 * Timeout]
  /\ UNCHANGED <<session, active, execution, uncontained, worker, verdict, timer>>

StopJoinsEarly(s) ==
  /\ stopper[s] = "waiting"
  /\ \A other \in Stoppers : stopper[other] # "gathering"
  /\ state' = IF uncontained # {} THEN "poisoned"
              ELSE IF state = "stopping" THEN "stopped" ELSE state
  /\ stopper' = [stopper EXCEPT ![s] = IF uncontained # {} THEN "raised" ELSE "returned"]
  /\ UNCHANGED <<mailbox, fences, work, control, stopTimer>>

\* The wait ends because the worker did.  A stop() that gathers the cancelled
\* worker is resumed first: its callback on the worker is two hops shorter.
StopJoins(s) ==
  /\ stopper[s] = "waiting" /\ worker = "done"
  /\ \A other \in Stoppers : stopper[other] # "gathering"
  /\ state' = IF uncontained # {} THEN "poisoned"
              ELSE IF state = "stopping" THEN "stopped" ELSE state
  /\ stopper' = [stopper EXCEPT ![s] = IF uncontained # {} THEN "raised" ELSE "returned"]
  /\ UNCHANGED <<mailbox, fences, work, control, stopTimer>>

\* Where the CancelledError of worker.cancel() lands.
CancelLands ==
  \/ /\ worker \in {"asleep", "done"}
     /\ worker' = "done"
     /\ UNCHANGED <<fences, mailbox, work, wake, verdict, timer>>
  \/ /\ worker = "waiting"
     /\ cancelRequested' = cancelRequested \cup {active}
     /\ CancelAndJoin
     /\ UNCHANGED <<fences, mailbox, active, uncontained, wake, verdict>>
  \/ /\ worker \in {"grace", "joining"}
     /\ Close(Verdict("cancelled", FALSE))
     /\ UNCHANGED <<fences, mailbox, active, cancelRequested, uncontained, wake>>
  \/ /\ worker = "closing"
     /\ RejectQueued(InFlightAfter, SettledAfter, Resolve(future, {active}, "cancelled"))
     /\ cancelRequested' = cancelRequested \cup {active}
     /\ worker' = "done" /\ active' = None /\ verdict' = NoVerdict
     /\ UNCHANGED <<session, execution, uncontained, wake, timer>>

StopTimesOut(s) ==
  /\ stopper[s] = "waiting" /\ stopTimer[s] = 0
  /\ CancelLands
  /\ stopper' = [stopper EXCEPT ![s] = "gathering"]
  /\ UNCHANGED <<state, stopTimer>>

StopAwaitsExecutor(s) ==
  /\ stopper[s] = "gathering" /\ worker = "done"
  /\ \A k \in Keys : ~Live(k)
  /\ state' = "poisoned"
  /\ stopper' = [stopper EXCEPT ![s] = "raised"]
  /\ UNCHANGED <<mailbox, fences, work, control, stopTimer>>

\* gather(worker) returns: _shutdown_failure and SemanticActorShutdownTimeout.
StopFails(s) ==
  /\ stopper[s] = "gathering" /\ worker = "done"
  /\ state' = "poisoned"
  /\ stopper' = [stopper EXCEPT ![s] = "raised"]
  /\ UNCHANGED <<mailbox, fences, work, control, stopTimer>>

-----------------------------------------------------------------------------
(* Time. *)

WorkerTimed == worker \in {"grace", "joining"}
StopTimed   == {s \in Stoppers : stopper[s] = "waiting"}

Tick ==
  /\ WorkerTimed \/ StopTimed # {}
  /\ WorkerTimed => timer > 0
  /\ \A s \in StopTimed : stopTimer[s] > 0
  /\ timer' = IF WorkerTimed THEN timer - 1 ELSE timer
  /\ stopTimer' = [s \in Stoppers |->
       IF s \in StopTimed THEN stopTimer[s] - 1 ELSE stopTimer[s]]
  /\ UNCHANGED <<state, mailbox, fences, work, worker, wake, verdict, stopper>>

-----------------------------------------------------------------------------

WorkerStep ==
  \/ WorkerWakes \/ WorkerSeesResult
  \/ GraceBegins \/ GraceSettles \/ GraceExpires
  \/ JoinSettles \/ JoinExpires
  \/ WorkerSettles \/ WorkerPoisons

StopStep(s) == StopJoins(s) \/ StopTimesOut(s) \/ StopFails(s)

ExecutorStep(k) ==
  \/ \E ending \in Endings : ExecutionEnds(k, ending)
  \/ OrphanEnds(k)
  \/ UncontainedDone(k)

Next ==
  \/ Start
  \/ \E k \in Keys : Admit(k)
  \/ WorkerStep
  \/ \E k \in Keys : ExecutorStep(k)
  \/ \E s \in Stoppers : StopAtRest(s) \/ StopBegins(s) \/ StopStep(s)
  \/ Tick

\* The event loop keeps running ready tasks and firing due timers; nothing is
\* promised of executors, of callers that admit, or of callers that stop.
Fairness ==
  /\ WF_vars(WorkerStep)
  /\ \A s \in Stoppers : WF_vars(StopStep(s))
  /\ WF_vars(Tick)

Spec == Init /\ [][Next]_vars /\ Fairness

-----------------------------------------------------------------------------
(* What the actor promises. *)

\* "One actor-owned worker executes at most one episode": at no time are two
\* executor tasks alive, not even when the worker gave one of them up.
OneExecutor == \A j, k \in Keys : Live(j) /\ Live(k) => j = k

\* An admission is never lost: its future is open exactly while its record is
\* in the in-flight table, which holds the queued records and the active one,
\* and the settled history holds only resolved requests of this session.
AdmissionsAccounted ==
  /\ \A k \in Keys : future[k] = "pending" <=> k \in inFlight
  /\ inFlight = Queued \cup ({active} \ {None})
  /\ active \notin Queued
  /\ \A k \in settled : k[1] = session /\ future[k] \in Resolved

\* User work never waits behind non-user work that has not been asked to
\* yield, whichever of admission, pop and settlement came first.
UserPreempts ==
  userQueue # <<>> /\ active # None /\ ~IsUser(active) => active \in cancelRequested

\* After STOPPED nothing runs and nobody is left waiting.
StoppedIsQuiet ==
  state = "stopped" => /\ inFlight = {}
                       /\ \A k \in Keys : ~Live(k)

\* No descriptor is executed twice, whatever duplicates are submitted and
\* however often the fence is emptied by a session rotation.
NoReexecution ==
  [][active' # active /\ active' # None => execution[active'] = "none"]_vars

\* Work asked to cancel settles, cooperative or not, within the timeouts.
CancellationSettles ==
  \A k \in Keys : k \in cancelRequested ~> future[k] \in Resolved

\* stop() returns or raises, whatever the executor does.
StopReturns ==
  \A s \in Stoppers : stopper[s] = "waiting" ~> stopper[s] \in {"returned", "raised"}

\* An admission to a sleeping worker always wakes it.
NoLostWakeup ==
  active = None /\ Queued # {} ~> active # None \/ Queued = {}
=============================================================================
