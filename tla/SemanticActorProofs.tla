------------------------ MODULE SemanticActorProofs ------------------------
(***************************************************************************)
(* Proofs about SemanticActor, for every value of its constants.           *)
(***************************************************************************)
EXTENDS SemanticActor, TLAPS

\* What keeps executors apart.  A live executor belongs to the active record
\* until the worker has returned; the worker closes on a live executor only to
\* poison the actor or after stop() has been called, so it never pops again.
\* SessionOpen is what bounds the session counter: rotation finds no work left.
ActiveWhileWorking ==
  /\ worker \in {"waiting", "grace", "joining", "closing"} => active \in Keys
  /\ worker \in {"absent", "asleep", "done"} => active = None
LiveIsActive  == \A k \in Keys : Live(k) => k = active \/ worker = "done"
ClosesOnLive  == worker = "closing" /\ Live(active) => verdict.uncontained \/ state # "running"
ClosingVerdict == worker = "closing" => verdict \in ClosingVerdicts
NewIsAbsent   == state = "new" => worker = "absent"
StopHasBegun  == \A s \in Stoppers : stopper[s] \in {"waiting", "gathering"} => state \notin {"new", "running"}
SessionOpen ==
  active # None \/ userQueue # <<>> \/ nonUserQueue # <<>> => session < MaxSession

\* The arithmetic facts about the constants the leaves below need.
LEMMA ConstantTypes == Timeout \in Nat /\ 2 * Timeout \in Nat /\ Timeout > 0 /\ MaxSession \in Nat
  BY ActorAssumption

\* "No active record" is not mistaken for a record.
LEMMA NoneIsNoKey == None \notin Keys
  BY ActorAssumption DEF Keys, Requests

\* What a sequence of keys holds is a key.
LEMMA RangeOfKeys ==
  ASSUME NEW q \in Seq(Keys)
  PROVE  Range(q) \subseteq Keys
  BY DEF Range

\* Resolving futures to an outcome leaves a well-typed table of futures.
LEMMA ResolveType ==
  ASSUME NEW fut \in [Keys -> Resolved \cup {"none", "pending"}],
         NEW ks, NEW status \in Resolved
  PROVE  Resolve(fut, ks, status) \in [Keys -> Resolved \cup {"none", "pending"}]
  BY DEF Resolve

\* Rejecting what is queued empties both lanes and settles only keys.
LEMMA RejectType ==
  ASSUME TypeOK, NEW fl \in SUBSET Keys, NEW st \in SUBSET Keys,
         NEW fut \in [Keys -> Resolved \cup {"none", "pending"}],
         RejectQueued(fl, st, fut)
  PROVE  /\ userQueue' = <<>> /\ nonUserQueue' = <<>>
         /\ userQueue' \in Seq(Keys) /\ nonUserQueue' \in Seq(Keys)
         /\ inFlight' \subseteq Keys /\ settled' \subseteq Keys
         /\ future' \in [Keys -> Resolved \cup {"none", "pending"}]
  <1>1. Queued \subseteq Keys
    BY RangeOfKeys DEF Queued, TypeOK
  <1>2. Resolve(fut, Queued, "cancelled") \in [Keys -> Resolved \cup {"none", "pending"}]
    BY ResolveType DEF Resolved
  <1>3. userQueue' = <<>> /\ nonUserQueue' = <<>>
    BY DEF RejectQueued
  <1>4. userQueue' \in Seq(Keys) /\ nonUserQueue' \in Seq(Keys)
    BY <1>3
  <1>5. inFlight' \subseteq Keys /\ settled' \subseteq Keys
    BY <1>1 DEF RejectQueued
  <1>6. future' \in [Keys -> Resolved \cup {"none", "pending"}]
    BY <1>2 DEF RejectQueued
  <1> QED BY <1>3, <1>4, <1>5, <1>6

\* Whatever the fences are when the worker reaches the top of its loop, it
\* leaves the queues, the fences and the executors well typed, returns only
\* when the actor no longer runs, and starts an executor only from the queues.
LEMMA LoopTopLands ==
  ASSUME TypeOK, SessionOpen,
         NEW fl \in SUBSET Keys, NEW st \in SUBSET Keys,
         NEW fut \in [Keys -> Resolved \cup {"none", "pending"}],
         LoopTop(fl, st, fut)
  PROVE  /\ userQueue' \in Seq(Keys) /\ nonUserQueue' \in Seq(Keys)
         /\ inFlight' \subseteq Keys /\ settled' \subseteq Keys
         /\ future' \in [Keys -> Resolved \cup {"none", "pending"}]
         /\ execution' \in [Keys -> Endings \cup {"none", "running", "cancelling", "over"}]
         /\ wake' \in BOOLEAN
         /\ \/ /\ worker' \in {"asleep", "done"} /\ active' = None
               /\ execution' = execution
               /\ worker' = "asleep" => state = "running"
               /\ state = "running" <=> worker' = "asleep"
            \/ /\ worker' = "waiting" /\ active' \in Keys /\ state = "running"
               /\ execution' = [execution EXCEPT ![active'] = "running"]
               /\ session < MaxSession
         /\ userQueue = <<>> /\ nonUserQueue = <<>>
              => active' = None /\ userQueue' = <<>> /\ nonUserQueue' = <<>>
         /\ userQueue' # <<>> \/ nonUserQueue' # <<>> => session < MaxSession
  <1>1. CASE state # "running" /\ Exit(fl, st, fut)
    <2>1. RejectQueued(fl, st, fut)
      BY <1>1 DEF Exit
    <2>2. worker' = "done" /\ wake' = FALSE /\ active' = None /\ execution' = execution
      BY <1>1 DEF Exit
    <2>3. execution' \in [Keys -> Endings \cup {"none", "running", "cancelling", "over"}]
      BY <2>2 DEF TypeOK
    <2> QED
      BY <1>1, <2>1, <2>2, <2>3, RejectType
  <1>2. CASE /\ state = "running" /\ userQueue = <<>> /\ nonUserQueue = <<>>
             /\ Sleep(fl, st, fut)
    BY <1>2 DEF Sleep, mailbox, TypeOK
  <1>3. CASE /\ state = "running" /\ (userQueue # <<>> \/ nonUserQueue # <<>>)
             /\ PopAndBegin(fl, st, fut)
    <2>1. CASE userQueue # <<>>
      <3>1. Head(userQueue) \in Keys /\ Tail(userQueue) \in Seq(Keys)
        BY <2>1 DEF TypeOK
      <3> QED
        BY <1>3, <2>1, <3>1 DEF PopAndBegin, Begin, TypeOK, SessionOpen
    <2>2. CASE userQueue = <<>>
      <3>1. Head(nonUserQueue) \in Keys /\ Tail(nonUserQueue) \in Seq(Keys)
        BY <1>3, <2>2 DEF TypeOK
      <3> QED
        BY <1>3, <2>2, <3>1 DEF PopAndBegin, Begin, TypeOK, SessionOpen
    <2> QED BY <2>1, <2>2
  <1> QED BY <1>1, <1>2, <1>3 DEF LoopTop

\* Well-typedness, with what it rests on.
TInv == TypeOK /\ ActiveWhileWorking /\ ClosingVerdict /\ NewIsAbsent /\ SessionOpen

\* A fresh actor is well typed.
LEMMA InitTInv == Init => TInv
  <1> SUFFICES ASSUME Init PROVE TInv
    OBVIOUS
  <1>1. userQueue \in Seq(Keys) /\ nonUserQueue \in Seq(Keys)
    BY DEF Init
  <1>2. /\ future \in [Keys -> Resolved \cup {"none", "pending"}]
        /\ execution \in [Keys -> Endings \cup {"none", "running", "cancelling", "over"}]
    BY DEF Init
  <1>3. /\ stopper \in [Stoppers -> {"idle", "waiting", "gathering", "returned", "raised"}]
        /\ stopTimer \in [Stoppers -> 0..(2 * Timeout)]
    BY ConstantTypes DEF Init
  <1>4. session \in 0..MaxSession /\ timer \in 0..Timeout
    BY ConstantTypes DEF Init
  <1>5. TypeOK
    BY <1>1, <1>2, <1>3, <1>4 DEF Init, TypeOK
  <1> QED
    BY <1>5, NoneIsNoKey DEF Init, TInv, ActiveWhileWorking, ClosingVerdict, NewIsAbsent, SessionOpen

\* The worker leaves its awaits only for its cleanup, with a verdict to settle.
LEMMA CloseType ==
  ASSUME TypeOK, active \in Keys, NEW status \in Resolved, NEW b \in BOOLEAN,
         Close(Verdict(status, b))
  PROVE  /\ worker' = "closing"
         /\ verdict' \in ClosingVerdicts /\ verdict'.uncontained = b
         /\ timer' \in 0..Timeout
         /\ execution' \in [Keys -> Endings \cup {"none", "running", "cancelling", "over"}]
  <1>1. execution' \in [Keys -> Endings \cup {"none", "running", "cancelling", "over"}]
    BY DEF Close, TypeOK
  <1>2. timer' \in 0..Timeout
    BY ConstantTypes DEF Close
  <1>3. Verdict(status, b) \in ClosingVerdicts /\ Verdict(status, b).uncontained = b
    BY DEF Verdict, ClosingVerdicts
  <1> QED
    BY <1>1, <1>2, <1>3 DEF Close

\* Every step of every task keeps the actor well typed.
LEMMA NextTInv == TInv /\ [Next]_vars => TInv'
  <1> SUFFICES ASSUME TInv, [Next]_vars PROVE TInv'
    OBVIOUS
  <1> USE NoneIsNoKey, ConstantTypes
      DEF ActiveRecord, SessionAfter, mailbox, fences, work, control, stops, TInv, ActiveWhileWorking, ClosingVerdict,
          NewIsAbsent, SessionOpen
  <1>1. CASE Start
    BY <1>1 DEF Start, TypeOK
  <1>2. ASSUME NEW k \in Keys, Admit(k) PROVE TInv'
    <2>1. userQueue' \in Seq(Keys) /\ nonUserQueue' \in Seq(Keys)
      <3>1. Append(userQueue, k) \in Seq(Keys) /\ Append(nonUserQueue, k) \in Seq(Keys)
        BY DEF TypeOK
      <3> QED
        BY <1>2, <3>1 DEF Admit, TypeOK
    <2>2. inFlight' \subseteq Keys
      BY <1>2 DEF Admit, TypeOK
    <2>3. future' \in [Keys -> Resolved \cup {"none", "pending"}]
      BY <1>2 DEF Admit, TypeOK
    <2>4. cancelRequested' \subseteq Keys
      BY <1>2 DEF Admit, Preempts, TypeOK
    <2>5. TypeOK'
      BY <1>2, <2>1, <2>2, <2>3, <2>4 DEF Admit, TypeOK
    <2> QED
      BY <1>2, <2>5 DEF Admit
  <1>3. CASE WorkerWakes
    <2>1. LoopTop(inFlight, settled, future)
      BY <1>3 DEF WorkerWakes
    <2> QED
      BY <1>3, <2>1, LoopTopLands DEF WorkerWakes, TypeOK
  <1>4. CASE WorkerSeesResult
    <2>1. PICK status \in Resolved, b \in BOOLEAN : Close(Verdict(status, b))
      BY <1>4 DEF WorkerSeesResult, ExecutionResult, Resolved
    <2> QED
      BY <1>4, <2>1, CloseType DEF WorkerSeesResult, TypeOK
  <1>5. CASE GraceBegins
    BY <1>5 DEF GraceBegins, TypeOK
  <1>6. CASE GraceSettles
    <2>1. PICK status \in Resolved, b \in BOOLEAN : Close(Verdict(status, b))
      BY <1>6 DEF GraceSettles, Resolved
    <2> QED
      BY <1>6, <2>1, CloseType DEF GraceSettles, TypeOK
  <1>7. CASE GraceExpires
    BY <1>7 DEF GraceExpires, CancelAndJoin, TypeOK
  <1>8. CASE JoinSettles
    <2>1. PICK status \in Resolved, b \in BOOLEAN : Close(Verdict(status, b))
      BY <1>8 DEF JoinSettles, Resolved
    <2>2. uncontained' \subseteq Keys
      BY <1>8 DEF JoinSettles, TypeOK
    <2> QED
      BY <1>8, <2>1, <2>2, CloseType DEF JoinSettles, TypeOK
  <1>9. CASE JoinExpires
    <2>1. Close(Verdict("failed", TRUE)) /\ "failed" \in Resolved
      BY <1>9 DEF JoinExpires, Resolved
    <2> QED
      BY <1>9, <2>1, CloseType DEF JoinExpires, TypeOK
  <1>10. CASE WorkerSettles
    <2>1. /\ InFlightAfter \subseteq Keys /\ SettledAfter \subseteq Keys
          /\ FutureAfter \in [Keys -> Resolved \cup {"none", "pending"}]
      BY <1>10, ResolveType DEF WorkerSettles, InFlightAfter, SettledAfter, FutureAfter,
         ClosingVerdicts, TypeOK
    <2>2. LoopTop(InFlightAfter, IF Rotates THEN {} ELSE SettledAfter, FutureAfter)
      BY <1>10 DEF WorkerSettles
    <2>3. session' \in 0..MaxSession
      BY <1>10 DEF WorkerSettles, TypeOK
    <2>4. active' # None \/ userQueue' # <<>> \/ nonUserQueue' # <<>> => session' < MaxSession
      <3>1. CASE Rotates
        <4>1. active' = None /\ userQueue' = <<>> /\ nonUserQueue' = <<>>
          BY <2>1, <2>2, <3>1, LoopTopLands DEF Rotates
        <4> QED
          BY <4>1
      <3>2. CASE ~Rotates
        BY <1>10, <3>2 DEF WorkerSettles
      <3> QED
        BY <3>1, <3>2
    <2> QED
      BY <1>10, <2>1, <2>2, <2>3, <2>4, LoopTopLands DEF WorkerSettles, TypeOK
  <1>11. CASE WorkerPoisons
    <2>1. /\ InFlightAfter \subseteq Keys /\ SettledAfter \subseteq Keys
          /\ FutureAfter \in [Keys -> Resolved \cup {"none", "pending"}]
      BY <1>11, ResolveType DEF WorkerPoisons, InFlightAfter, SettledAfter, FutureAfter,
         ClosingVerdicts, TypeOK
    <2>2. RejectQueued(InFlightAfter, SettledAfter, FutureAfter)
      BY <1>11 DEF WorkerPoisons, Exit
    <2> QED
      BY <1>11, <2>1, <2>2, RejectType DEF WorkerPoisons, Exit, TypeOK
  <1>12. ASSUME NEW k \in Keys, ExecutorStep(k) PROVE TInv'
    BY <1>12 DEF ExecutorStep, ExecutionEnds, OrphanEnds, UncontainedDone, TypeOK
  <1>13. ASSUME NEW s \in Stoppers, StopAtRest(s) PROVE TInv'
    BY <1>13 DEF StopAtRest, TypeOK
  <1>14. ASSUME NEW s \in Stoppers, StopBegins(s) PROVE TInv'
    <2>1. RejectQueued(inFlight, settled, future)
      BY <1>14 DEF StopBegins
    <2>2. /\ stopper' \in [Stoppers -> {"idle", "waiting", "gathering", "returned", "raised"}]
          /\ stopTimer' \in [Stoppers -> 0..(2 * Timeout)]
      BY <1>14 DEF StopBegins, TypeOK
    <2> QED
      BY <1>14, <2>1, <2>2, RejectType DEF StopBegins, TypeOK
  <1>15. ASSUME NEW s \in Stoppers, StopJoins(s) PROVE TInv'
    BY <1>15 DEF StopJoins, TypeOK
  <1>16. ASSUME NEW s \in Stoppers, StopTimesOut(s) PROVE TInv'
    <2>0. stopper' \in [Stoppers -> {"idle", "waiting", "gathering", "returned", "raised"}]
      BY <1>16 DEF StopTimesOut, TypeOK
    <2>1. CASE /\ worker \in {"asleep", "done"} /\ worker' = "done"
               /\ UNCHANGED <<fences, mailbox, work, wake, verdict, timer>>
      BY <1>16, <2>0, <2>1 DEF StopTimesOut, TypeOK
    <2>2. CASE /\ worker = "waiting"
               /\ cancelRequested' = cancelRequested \cup {active}
               /\ CancelAndJoin
               /\ UNCHANGED <<fences, mailbox, active, uncontained, wake, verdict>>
      BY <1>16, <2>0, <2>2 DEF StopTimesOut, CancelAndJoin, TypeOK
    <2>3. CASE /\ worker \in {"grace", "joining"}
               /\ Close(Verdict("cancelled", FALSE))
               /\ UNCHANGED <<fences, mailbox, active, cancelRequested, uncontained, wake>>
      <3>1. "cancelled" \in Resolved
        BY DEF Resolved
      <3> QED
        BY <1>16, <2>0, <2>3, <3>1, CloseType DEF StopTimesOut, TypeOK
    <2>4. CASE /\ worker = "closing"
               /\ RejectQueued(InFlightAfter, SettledAfter,
                               Resolve(future, {active}, "cancelled"))
               /\ cancelRequested' = cancelRequested \cup {active}
               /\ worker' = "done" /\ active' = None /\ verdict' = NoVerdict
               /\ UNCHANGED <<session, execution, uncontained, wake, timer>>
      <3>1. /\ InFlightAfter \subseteq Keys /\ SettledAfter \subseteq Keys
            /\ Resolve(future, {active}, "cancelled") \in [Keys -> Resolved \cup {"none", "pending"}]
        BY <2>4, ResolveType DEF InFlightAfter, SettledAfter, Resolved, TypeOK
      <3> QED
        BY <1>16, <2>0, <2>4, <3>1, RejectType DEF StopTimesOut, TypeOK
    <2> QED
      BY <1>16, <2>1, <2>2, <2>3, <2>4 DEF StopTimesOut, CancelLands
  <1>17. ASSUME NEW s \in Stoppers, StopFails(s) PROVE TInv'
    BY <1>17 DEF StopFails, TypeOK
  <1>18. CASE Tick
    BY <1>18 DEF Tick, WorkerTimed, StopTimed, TypeOK
  <1>19. CASE UNCHANGED vars
    BY <1>19 DEF vars, TypeOK
  <1> QED
    BY <1>1, <1>2, <1>3, <1>4, <1>5, <1>6, <1>7, <1>8, <1>9, <1>10, <1>11, <1>12, <1>13,
       <1>14, <1>15, <1>16, <1>17, <1>18, <1>19 DEF Next, WorkerStep, StopStep

\* Every reachable state is well typed.
THEOREM TypeCorrect == Spec => []TypeOK
  <1>1. Spec => []TInv
    BY InitTInv, NextTInv, PTL DEF Spec
  <1>2. TInv => TypeOK
    BY DEF TInv
  <1> QED
    BY <1>1, <1>2, PTL

-----------------------------------------------------------------------------
(* Executors are kept apart. *)

SInv == LiveIsActive /\ ClosesOnLive /\ StopHasBegun /\ OneExecutor

IInv == TInv /\ SInv

\* A fresh actor has no executor.
LEMMA InitSInv == Init => SInv
  BY DEF Init, SInv, LiveIsActive, ClosesOnLive, StopHasBegun, OneExecutor, Live

\* Leaving the awaits neither starts nor ends an executor.
LEMMA CloseKeepsLive ==
  ASSUME TypeOK, active \in Keys, NEW v, Close(v)
  PROVE  \A k \in Keys : Live(k)' <=> Live(k)
  <1> SUFFICES ASSUME NEW k \in Keys PROVE Live(k)' <=> Live(k)
    OBVIOUS
  <1>1. CASE k = active /\ ~Live(k)
    BY <1>1 DEF Close, Live, TypeOK
  <1>2. CASE k # active \/ Live(k)
    BY <1>2 DEF Close, Live, TypeOK
  <1> QED BY <1>1, <1>2

\* task.cancel() does not end an executor by itself.
LEMMA CancelKeepsLive ==
  ASSUME TypeOK, active \in Keys, CancelAndJoin
  PROVE  \A k \in Keys : Live(k)' <=> Live(k)
  BY DEF CancelAndJoin, Live, TypeOK

\* The loop keeps executors apart when it is reached with no executor alive,
\* or after the actor has stopped running.
LEMMA LoopTopSerial ==
  ASSUME TypeOK, SessionOpen, OneExecutor,
         state = "running" => \A k \in Keys : ~Live(k),
         NEW fl \in SUBSET Keys, NEW st \in SUBSET Keys,
         NEW fut \in [Keys -> Resolved \cup {"none", "pending"}],
         LoopTop(fl, st, fut)
  PROVE  LiveIsActive' /\ ClosesOnLive' /\ OneExecutor'
  <1>1. CASE /\ worker' \in {"asleep", "done"} /\ active' = None
             /\ execution' = execution
             /\ state = "running" <=> worker' = "asleep"
    BY <1>1 DEF LiveIsActive, ClosesOnLive, OneExecutor, Live
  <1>2. CASE /\ worker' = "waiting" /\ active' \in Keys /\ state = "running"
             /\ execution' = [execution EXCEPT ![active'] = "running"]
    <2>1. \A k \in Keys : Live(k)' => k = active'
      BY <1>2 DEF Live, TypeOK
    <2> QED
      BY <1>2, <2>1 DEF LiveIsActive, ClosesOnLive, OneExecutor
  <1> QED BY <1>1, <1>2, LoopTopLands

\* Every step keeps executors apart, one step per action of the actor.
LEMMA NextSInv == IInv /\ TInv' /\ [Next]_vars => SInv'
  <1> SUFFICES ASSUME IInv, TInv', [Next]_vars PROVE SInv'
    OBVIOUS
  <1> USE NoneIsNoKey
      DEF ActiveRecord, SessionAfter, mailbox, fences, work, control, stops, IInv, TInv, SInv, ActiveWhileWorking,
          NewIsAbsent, LiveIsActive, ClosesOnLive, StopHasBegun, OneExecutor, Live
  <1>1. CASE Start
    BY <1>1 DEF Start
  <1>2. ASSUME NEW k \in Keys, Admit(k) PROVE SInv'
    BY <1>2 DEF Admit
  <1>3. CASE WorkerWakes
    <2>1. LoopTop(inFlight, settled, future)
      BY <1>3 DEF WorkerWakes
    <2>2. \A k \in Keys : ~Live(k)
      BY <1>3 DEF WorkerWakes
    <2>3. LiveIsActive' /\ ClosesOnLive' /\ OneExecutor'
      BY <2>1, <2>2, LoopTopSerial DEF TypeOK
    <2> QED
      BY <1>3, <2>3 DEF WorkerWakes
  <1>4. CASE WorkerSeesResult
    <2>1. Close(ExecutionResult) /\ ~Live(active)
      BY <1>4 DEF WorkerSeesResult, Ended, Endings
    <2> QED
      BY <1>4, <2>1, CloseKeepsLive DEF WorkerSeesResult, Close
  <1>5. CASE GraceBegins
    BY <1>5 DEF GraceBegins
  <1>6. CASE GraceSettles
    <2>1. PICK v : Close(v)
      BY <1>6 DEF GraceSettles
    <2>2. ~Live(active)
      BY <1>6 DEF GraceSettles, Ended, Endings
    <2> QED
      BY <1>6, <2>1, <2>2, CloseKeepsLive DEF GraceSettles, Close
  <1>7. CASE GraceExpires
    BY <1>7, CancelKeepsLive DEF GraceExpires, CancelAndJoin
  <1>8. CASE JoinSettles
    <2>1. PICK v : Close(v)
      BY <1>8 DEF JoinSettles
    <2>2. ~Live(active)
      BY <1>8 DEF JoinSettles, Ended, Endings
    <2> QED
      BY <1>8, <2>1, <2>2, CloseKeepsLive DEF JoinSettles, Close
  <1>9. CASE JoinExpires
    BY <1>9, CloseKeepsLive DEF JoinExpires, Close, Verdict
  <1>10. CASE WorkerSettles
    <2>1. /\ InFlightAfter \subseteq Keys /\ SettledAfter \subseteq Keys
          /\ FutureAfter \in [Keys -> Resolved \cup {"none", "pending"}]
      BY <1>10, ResolveType DEF WorkerSettles, InFlightAfter, SettledAfter, FutureAfter,
         ClosingVerdict, ClosingVerdicts, TypeOK
    <2>2. LoopTop(InFlightAfter, IF Rotates THEN {} ELSE SettledAfter, FutureAfter)
      BY <1>10 DEF WorkerSettles
    <2>3. ~Live(active) \/ state # "running"
      BY <1>10 DEF WorkerSettles
    <2>4. state = "running" => \A k \in Keys : ~Live(k)
      BY <1>10, <2>3 DEF WorkerSettles
    <2>5. LiveIsActive' /\ ClosesOnLive' /\ OneExecutor'
      BY <2>1, <2>2, <2>4, LoopTopSerial
    <2> QED
      BY <1>10, <2>5 DEF WorkerSettles
  <1>11. CASE WorkerPoisons
    BY <1>11 DEF WorkerPoisons, Exit
  <1>12. ASSUME NEW k \in Keys, ExecutorStep(k) PROVE SInv'
    <2>1. \A j \in Keys : Live(j)' => Live(j)
      BY <1>12 DEF ExecutorStep, ExecutionEnds, OrphanEnds, UncontainedDone, Endings, TypeOK
    <2>2. UNCHANGED <<state, active, worker, verdict, stopper>>
      BY <1>12 DEF ExecutorStep, ExecutionEnds, OrphanEnds, UncontainedDone
    <2> QED
      BY <2>1, <2>2
  <1>13. ASSUME NEW s \in Stoppers, StopAtRest(s) PROVE SInv'
    BY <1>13 DEF StopAtRest, TypeOK
  <1>14. ASSUME NEW s \in Stoppers, StopBegins(s) PROVE SInv'
    BY <1>14 DEF StopBegins, TypeOK
  <1>15. ASSUME NEW s \in Stoppers, StopJoins(s) PROVE SInv'
    BY <1>15 DEF StopJoins, TypeOK
  <1>16. ASSUME NEW s \in Stoppers, StopTimesOut(s) PROVE SInv'
    <2>0. state # "running" /\ StopHasBegun'
      BY <1>16 DEF StopTimesOut, TypeOK
    <2>1. CASE worker \in {"asleep", "done"} /\ worker' = "done" /\ UNCHANGED work
      BY <1>16, <2>0, <2>1 DEF StopTimesOut
    <2>2. CASE worker = "waiting" /\ CancelAndJoin /\ UNCHANGED active
      BY <1>16, <2>0, <2>2, CancelKeepsLive DEF StopTimesOut, CancelAndJoin
    <2>3. CASE /\ worker \in {"grace", "joining"} /\ Close(Verdict("cancelled", FALSE))
               /\ UNCHANGED active
      BY <1>16, <2>0, <2>3, CloseKeepsLive DEF StopTimesOut, Close
    <2>4. CASE worker = "closing" /\ worker' = "done" /\ UNCHANGED execution
      BY <1>16, <2>0, <2>4 DEF StopTimesOut
    <2> QED
      BY <1>16, <2>1, <2>2, <2>3, <2>4 DEF StopTimesOut, CancelLands
  <1>17. ASSUME NEW s \in Stoppers, StopFails(s) PROVE SInv'
    BY <1>17 DEF StopFails, TypeOK
  <1>18. CASE Tick
    BY <1>18 DEF Tick
  <1>19. CASE UNCHANGED vars
    BY <1>19 DEF vars
  <1> QED
    BY <1>1, <1>2, <1>3, <1>4, <1>5, <1>6, <1>7, <1>8, <1>9, <1>10, <1>11, <1>12, <1>13,
       <1>14, <1>15, <1>16, <1>17, <1>18, <1>19 DEF Next, WorkerStep, StopStep

\* The strengthening that makes OneExecutor inductive holds in every state:
\* types, the record each await of the worker belongs to, and when the worker
\* may leave an executor behind.
THEOREM InductiveInvariant == Spec => []IInv
  <1>1. Init => IInv
    BY InitTInv, InitSInv DEF IInv
  <1>2. IInv /\ [Next]_vars => IInv'
    BY NextTInv, NextSInv DEF IInv
  <1> QED
    BY <1>1, <1>2, PTL DEF Spec

\* At no time are two executor tasks alive: the successor of a record starts
\* only after its executor has ended, and no successor starts after an
\* executor was given up.
THEOREM ExecutorsAreSerial == Spec => []OneExecutor
  <1>1. IInv => OneExecutor
    BY DEF IInv, SInv
  <1> QED
    BY <1>1, InductiveInvariant, PTL

-----------------------------------------------------------------------------
(* Admissions are accounted for. *)

\* Each lane holds records of its own priority, each of them once.
LanesInOrder ==
  /\ \A k \in Range(userQueue) : IsUser(k)
  /\ \A k \in Range(nonUserQueue) : ~IsUser(k)
  /\ IsInjective(userQueue) /\ IsInjective(nonUserQueue)

\* Only a running actor has anything queued: stop() and poisoning reject it.
QuietLanes == state # "running" => userQueue = <<>> /\ nonUserQueue = <<>>

\* A rotation finds nothing in flight, so no record outlives its session, and
\* what ran is settled, is running, or belongs to a retired session.
InFlightIsCurrent == \A k \in inFlight : k[1] = session
RunIsPast ==
  \A k \in Keys : execution[k] # "none" => k[1] < session \/ k \in settled \/ k = active

\* What every step of the actor keeps of its admissions.
AInv == /\ AdmissionsAccounted /\ LanesInOrder /\ QuietLanes /\ InFlightIsCurrent /\ RunIsPast
        /\ UserPreempts

\* Appending to a lane adds one record to those it holds, and taking its head
\* away removes one.
LEMMA AppendHolds ==
  ASSUME NEW q \in Seq(Keys), NEW k \in Keys
  PROVE  /\ Range(Append(q, k)) = Range(q) \cup {k}
         /\ IsInjective(q) /\ k \notin Range(q) => IsInjective(Append(q, k))
  <1> DEFINE r == Append(q, k)
  <1>1. /\ Len(q) \in Nat /\ DOMAIN q = 1..Len(q) /\ DOMAIN r = 1..(Len(q) + 1)
        /\ \A i \in 1..Len(q) : r[i] = q[i]
        /\ r[Len(q) + 1] = k
    OBVIOUS
  <1> HIDE DEF r
  <1>2. Range(r) = Range(q) \cup {k}
    BY <1>1 DEF Range
  <1>3. IsInjective(q) /\ k \notin Range(q) => IsInjective(r)
    BY <1>1 DEF Range, IsInjective
  <1> QED BY <1>2, <1>3 DEF r

\* Dequeuing takes the head's key out of an injective queue, and no other.
LEMMA TailHolds ==
  ASSUME NEW q \in Seq(Keys), q # <<>>, IsInjective(q)
  PROVE  /\ Head(q) \in Range(q)
         /\ Range(Tail(q)) = Range(q) \ {Head(q)}
         /\ IsInjective(Tail(q))
  <1> DEFINE r == Tail(q)
  <1>1. /\ Len(q) \in Nat /\ Len(q) >= 1 /\ DOMAIN q = 1..Len(q) /\ DOMAIN r = 1..(Len(q) - 1)
        /\ \A i \in 1..(Len(q) - 1) : r[i] = q[i + 1]
        /\ Head(q) = q[1]
    OBVIOUS
  <1> HIDE DEF r
  <1>2. \A i \in 1..Len(q) : i = 1 \/ (i - 1 \in DOMAIN r /\ r[i - 1] = q[i])
    BY <1>1
  <1>3. \A i \in DOMAIN r : i + 1 \in DOMAIN q /\ r[i] = q[i + 1] /\ i + 1 # 1
    BY <1>1
  <1>4. \A i \in DOMAIN r : r[i] # q[1]
    BY <1>1, <1>3 DEF IsInjective
  <1>5. Head(q) \in Range(q)
    BY <1>1 DEF Range
  <1>6. Range(r) \subseteq Range(q) \ {Head(q)}
    BY <1>1, <1>3, <1>4 DEF Range
  <1>7. Range(q) \ {Head(q)} \subseteq Range(r)
    BY <1>1, <1>2 DEF Range
  <1>8. IsInjective(r)
    BY <1>1, <1>3 DEF IsInjective
  <1> QED BY <1>5, <1>6, <1>7, <1>8 DEF r

\* The empty queue holds nothing.
LEMMA EmptyHolds == Range(<<>>) = {} /\ IsInjective(<<>>)
  BY DEF Range, IsInjective

\* Resolving futures changes those of the given records and no others.
LEMMA ResolveHolds ==
  ASSUME NEW fut, NEW ks, NEW status, NEW k \in Keys
  PROVE  Resolve(fut, ks, status)[k] = IF k \in ks THEN status ELSE fut[k]
  BY DEF Resolve

\* What the fences hold when they agree with the lanes and one other set of records.
Accounted(fl, st, fut, others) ==
  /\ \A k \in Keys : fut[k] = "pending" <=> k \in fl
  /\ fl = Queued \cup others
  /\ \A k \in st : fut[k] \in Resolved

\* Rejecting the queued records settles each of them as cancelled.
LEMMA RejectAccounts ==
  ASSUME TypeOK, NEW fl \in SUBSET Keys, NEW st \in SUBSET Keys, NEW fut,
         NEW others \in SUBSET Keys,
         Accounted(fl, st, fut, others), others \cap Queued = {},
         RejectQueued(fl, st, fut)
  PROVE  /\ userQueue' = <<>> /\ nonUserQueue' = <<>> /\ Queued' = {} /\ LanesInOrder'
         /\ inFlight' = others
         /\ \A k \in Keys : future'[k] = "pending" <=> k \in inFlight'
         /\ settled' = st \cup Queued
         /\ \A k \in settled' : future'[k] \in Resolved
  <1>1. userQueue' = <<>> /\ nonUserQueue' = <<>>
    BY DEF RejectQueued
  <1>2. Queued' = {} /\ LanesInOrder'
    BY <1>1, EmptyHolds DEF Queued, LanesInOrder
  <1>3. Queued \subseteq Keys
    BY RangeOfKeys DEF Queued, TypeOK
  <1>4. inFlight' = others
    BY DEF RejectQueued, Accounted
  <1>5. \A k \in Keys : future'[k] = IF k \in Queued THEN "cancelled" ELSE fut[k]
    BY ResolveHolds DEF RejectQueued
  <1>6. \A k \in Keys : future'[k] = "pending" <=> k \in inFlight'
    BY <1>4, <1>5 DEF Accounted
  <1>7. settled' = st \cup Queued
    BY DEF RejectQueued
  <1>8. \A k \in settled' : future'[k] \in Resolved
    BY <1>3, <1>5, <1>7 DEF Accounted, Resolved
  <1> QED BY <1>1, <1>2, <1>4, <1>6, <1>7, <1>8

\* Popping a record moves it from its lane to the active record.
LEMMA PopAccounts ==
  ASSUME TypeOK, LanesInOrder, NEW fl, NEW st, NEW fut,
         userQueue # <<>> \/ nonUserQueue # <<>>,
         PopAndBegin(fl, st, fut)
  PROVE  /\ active' \in Queued /\ Queued' = Queued \ {active'} /\ LanesInOrder'
         /\ ~IsUser(active') => userQueue' = <<>>
  <1>1. CASE userQueue # <<>>
    <2>1. /\ active' = Head(userQueue) /\ userQueue' = Tail(userQueue)
          /\ nonUserQueue' = nonUserQueue
      BY <1>1 DEF PopAndBegin, Begin
    <2>2. /\ active' \in Range(userQueue) /\ IsInjective(userQueue')
          /\ Range(userQueue') = Range(userQueue) \ {active'}
      BY <1>1, <2>1, TailHolds DEF TypeOK, LanesInOrder
    <2> QED BY <2>1, <2>2 DEF Queued, LanesInOrder, IsUser
  <1>2. CASE userQueue = <<>>
    <2>1. /\ active' = Head(nonUserQueue) /\ nonUserQueue' = Tail(nonUserQueue)
          /\ userQueue' = userQueue
      BY <1>2 DEF PopAndBegin, Begin
    <2>2. /\ active' \in Range(nonUserQueue) /\ IsInjective(nonUserQueue')
          /\ Range(nonUserQueue') = Range(nonUserQueue) \ {active'}
      BY <1>2, <2>1, TailHolds DEF TypeOK, LanesInOrder
    <2> QED BY <1>2, <2>1, <2>2, EmptyHolds DEF Queued, LanesInOrder, IsUser
  <1> QED BY <1>1, <1>2

\* The loop is reached with fences that agree with the lanes, and leaves fences
\* that agree with the lanes and the record it made active.
LEMMA LoopTopAccounts ==
  ASSUME TypeOK, LanesInOrder, QuietLanes,
         NEW fl \in SUBSET Keys, NEW st \in SUBSET Keys, NEW fut,
         Accounted(fl, st, fut, {}),
         LoopTop(fl, st, fut)
  PROVE  /\ \A k \in Keys : future'[k] = "pending" <=> k \in inFlight'
         /\ inFlight' = Queued' \cup ({active'} \ {None}) /\ active' \notin Queued'
         /\ inFlight' \subseteq fl
         /\ settled' = st /\ \A k \in settled' : future'[k] \in Resolved
         /\ LanesInOrder'
         /\ state # "running" => userQueue' = <<>> /\ nonUserQueue' = <<>>
         /\ \/ active' = None /\ execution' = execution
            \/ /\ active' \in Queued
               /\ execution' = [execution EXCEPT ![active'] = "running"]
               /\ ~IsUser(active') => userQueue' = <<>>
  <1>0. Queued \subseteq Keys
    BY RangeOfKeys DEF Queued, TypeOK
  <1>1. CASE state # "running" /\ Exit(fl, st, fut)
    <2>1. userQueue = <<>> /\ nonUserQueue = <<>>
      BY <1>1 DEF QuietLanes
    <2>2. Queued = {}
      BY <2>1, EmptyHolds DEF Queued
    <2>3. RejectQueued(fl, st, fut) /\ active' = None /\ execution' = execution
      BY <1>1 DEF Exit
    <2>4. {} \in SUBSET Keys /\ {} \cap Queued = {}
      OBVIOUS
    <2>5. /\ userQueue' = <<>> /\ nonUserQueue' = <<>> /\ Queued' = {} /\ LanesInOrder'
          /\ inFlight' = {}
          /\ \A k \in Keys : future'[k] = "pending" <=> k \in inFlight'
          /\ settled' = st \cup Queued
          /\ \A k \in settled' : future'[k] \in Resolved
      BY <2>3, <2>4, RejectAccounts
    <2> QED BY <2>2, <2>3, <2>5
  <1>2. CASE /\ state = "running" /\ userQueue = <<>> /\ nonUserQueue = <<>>
             /\ Sleep(fl, st, fut)
    <2>1. /\ UNCHANGED <<userQueue, nonUserQueue, execution>> /\ active' = None
          /\ inFlight' = fl /\ settled' = st /\ future' = fut
      BY <1>2 DEF Sleep, mailbox
    <2>2. Queued' = Queued /\ LanesInOrder'
      BY <2>1 DEF Queued, LanesInOrder
    <2> QED BY <1>0, <1>2, <2>1, <2>2, NoneIsNoKey DEF Accounted
  <1>3. CASE /\ state = "running" /\ (userQueue # <<>> \/ nonUserQueue # <<>>)
             /\ PopAndBegin(fl, st, fut)
    <2>1. /\ active' \in Queued /\ Queued' = Queued \ {active'} /\ LanesInOrder'
          /\ ~IsUser(active') => userQueue' = <<>>
      BY <1>3, PopAccounts
    <2>2. /\ inFlight' = fl /\ settled' = st /\ future' = fut
          /\ execution' = [execution EXCEPT ![active'] = "running"]
      BY <1>3 DEF PopAndBegin, Begin
    <2> QED BY <1>0, <1>3, <2>1, <2>2, NoneIsNoKey DEF Accounted
  <1> QED BY <1>1, <1>2, <1>3 DEF LoopTop

\* Settling the active record takes it out of the in-flight table, which then
\* holds what is queued.
LEMMA SettleAccounts ==
  ASSUME TypeOK, AInv, active \in Keys, NEW status \in Resolved
  PROVE  /\ Accounted(InFlightAfter, SettledAfter, Resolve(future, {active}, status), {})
         /\ InFlightAfter \in SUBSET Keys /\ SettledAfter \in SUBSET Keys
         /\ InFlightAfter \subseteq inFlight
         /\ \A k \in SettledAfter : k[1] = session
  <1> DEFINE fut == Resolve(future, {active}, status)
  <1>1. \A k \in Keys : fut[k] = IF k = active THEN status ELSE future[k]
    BY ResolveHolds
  <1> HIDE DEF fut
  <1>2. status # "pending" /\ active \in inFlight /\ active \notin Queued
    BY NoneIsNoKey DEF AInv, AdmissionsAccounted, Resolved
  <1>3. InFlightAfter = Queued \cup {}
    BY NoneIsNoKey DEF AInv, AdmissionsAccounted, InFlightAfter
  <1>4. /\ \A k \in Keys : fut[k] = "pending" <=> k \in InFlightAfter
        /\ \A k \in SettledAfter : fut[k] \in Resolved
    BY <1>1, <1>2 DEF AInv, AdmissionsAccounted, InFlightAfter, SettledAfter, TypeOK
  <1>5. \A k \in SettledAfter : k[1] = session
    BY <1>2 DEF AInv, AdmissionsAccounted, InFlightIsCurrent, SettledAfter
  <1> QED BY <1>3, <1>4, <1>5 DEF Accounted, InFlightAfter, SettledAfter, TypeOK, fut

\* A step that leaves the lanes, the fences and the active record alone, starts
\* no executor and withdraws no cancellation keeps the account.
LEMMA FrameAccounts ==
  ASSUME AInv, UNCHANGED <<mailbox, fences, active>>,
         cancelRequested \subseteq cancelRequested',
         state # "running" \/ state' = "running",
         \A k \in Keys : execution'[k] # "none" => execution[k] # "none" \/ k = active
  PROVE  AInv'
  <1>1. Queued' = Queued /\ LanesInOrder'
    BY DEF AInv, LanesInOrder, Queued, mailbox
  <1>2. AdmissionsAccounted'
    BY <1>1 DEF AInv, AdmissionsAccounted, fences
  <1>3. QuietLanes' /\ InFlightIsCurrent'
    BY DEF AInv, QuietLanes, InFlightIsCurrent, mailbox, fences
  <1>4. RunIsPast'
    BY DEF AInv, RunIsPast, fences
  <1>5. UserPreempts'
    BY DEF AInv, UserPreempts, mailbox, IsUser
  <1> QED BY <1>1, <1>2, <1>3, <1>4, <1>5 DEF AInv

\* Admission queues one record, in flight and pending from then on.
LEMMA AdmitAccounts ==
  ASSUME TypeOK, AInv, NEW k \in Keys, Admit(k)
  PROVE  AInv'
  <1>1. /\ k \notin inFlight /\ k \notin settled /\ k[1] = session /\ state = "running"
        /\ inFlight' = inFlight \cup {k} /\ settled' = settled /\ session' = session
        /\ active' = active /\ execution' = execution /\ state' = state
    BY DEF Admit, Admissible
  <1>2. future' = [future EXCEPT ![k] = "pending"]
    BY DEF Admit
  <1>3. Queued' = Queued \cup {k} /\ LanesInOrder'
    <2>1. k \notin Range(userQueue) /\ k \notin Range(nonUserQueue)
      BY <1>1 DEF AInv, AdmissionsAccounted, Queued
    <2>2. CASE IsUser(k)
      <3>1. userQueue' = Append(userQueue, k) /\ nonUserQueue' = nonUserQueue
        BY <2>2 DEF Admit
      <3>2. Range(userQueue') = Range(userQueue) \cup {k} /\ IsInjective(userQueue')
        BY <2>1, <3>1, AppendHolds DEF AInv, LanesInOrder, TypeOK
      <3> QED BY <2>2, <3>1, <3>2 DEF AInv, Queued, LanesInOrder, IsUser
    <2>3. CASE ~IsUser(k)
      <3>1. nonUserQueue' = Append(nonUserQueue, k) /\ userQueue' = userQueue
        BY <2>3 DEF Admit
      <3>2. Range(nonUserQueue') = Range(nonUserQueue) \cup {k} /\ IsInjective(nonUserQueue')
        BY <2>1, <3>1, AppendHolds DEF AInv, LanesInOrder, TypeOK
      <3> QED BY <2>3, <3>1, <3>2 DEF AInv, Queued, LanesInOrder, IsUser
    <2> QED BY <2>2, <2>3
  <1>4. AdmissionsAccounted'
    <2>1. k # active
      BY <1>1, NoneIsNoKey DEF AInv, AdmissionsAccounted
    <2>2. \A j \in Keys : future'[j] = "pending" <=> j \in inFlight'
      BY <1>1, <1>2 DEF AInv, AdmissionsAccounted, TypeOK
    <2>3. \A j \in settled' : j[1] = session' /\ future'[j] \in Resolved
      BY <1>1, <1>2 DEF AInv, AdmissionsAccounted, TypeOK
    <2>4. inFlight' = Queued' \cup ({active'} \ {None}) /\ active' \notin Queued'
      BY <1>1, <1>3, <2>1 DEF AInv, AdmissionsAccounted
    <2> QED BY <2>2, <2>3, <2>4 DEF AdmissionsAccounted
  <1>5. QuietLanes' /\ InFlightIsCurrent' /\ RunIsPast'
    BY <1>1 DEF AInv, QuietLanes, InFlightIsCurrent, RunIsPast
  <1>6. UserPreempts'
    BY <1>1 DEF AInv, UserPreempts, Admit, Preempts, IsUser
  <1> QED BY <1>3, <1>4, <1>5, <1>6 DEF AInv

\* The worker goes to sleep, pops or returns with the admissions accounted for,
\* and what it pops has never run.
LEMMA WakesAccounts ==
  ASSUME TypeOK, AInv, active = None, WorkerWakes
  PROVE  AInv' /\ (active' # None => execution[active'] = "none")
  <1> DEFINE none == {}
  <1>1. /\ LoopTop(inFlight, settled, future)
        /\ UNCHANGED <<state, session, cancelRequested>>
    BY DEF WorkerWakes
  <1>2. inFlight = Queued \cup none
    BY DEF AInv, AdmissionsAccounted
  <1>3. Accounted(inFlight, settled, future, {})
    BY <1>2 DEF AInv, AdmissionsAccounted, Accounted
  <1>4. /\ \A k \in Keys : future'[k] = "pending" <=> k \in inFlight'
        /\ inFlight' = Queued' \cup ({active'} \ {None}) /\ active' \notin Queued'
        /\ inFlight' \subseteq inFlight
        /\ settled' = settled /\ \A k \in settled' : future'[k] \in Resolved
        /\ LanesInOrder'
        /\ state # "running" => userQueue' = <<>> /\ nonUserQueue' = <<>>
        /\ \/ active' = None /\ execution' = execution
           \/ /\ active' \in Queued
              /\ execution' = [execution EXCEPT ![active'] = "running"]
              /\ ~IsUser(active') => userQueue' = <<>>
    BY <1>1, <1>3, LoopTopAccounts DEF AInv, TypeOK
  <1>5. AdmissionsAccounted'
    BY <1>1, <1>4 DEF AInv, AdmissionsAccounted
  <1>6. QuietLanes' /\ InFlightIsCurrent' /\ UserPreempts'
    BY <1>1, <1>4 DEF AInv, QuietLanes, InFlightIsCurrent, UserPreempts, IsUser
  <1>7. RunIsPast'
    BY <1>1, <1>4, NoneIsNoKey DEF AInv, RunIsPast, TypeOK
  <1>8. active' # None => execution[active'] = "none"
    <2> SUFFICES ASSUME active' # None PROVE execution[active'] = "none"
      OBVIOUS
    <2>1. active' \in inFlight /\ active' \in Keys /\ active' # active
      BY <1>2, <1>4 DEF TypeOK
    <2>2. future[active'] = "pending" /\ active'[1] = session
      BY <2>1 DEF AInv, AdmissionsAccounted, InFlightIsCurrent
    <2>3. active' \notin settled
      BY <2>2 DEF AInv, AdmissionsAccounted, Resolved
    <2>4. ~(active'[1] < session)
      BY <2>2, ConstantTypes DEF TypeOK
    <2> QED BY <2>1, <2>3, <2>4 DEF AInv, RunIsPast
  <1> QED BY <1>4, <1>5, <1>6, <1>7, <1>8 DEF AInv

\* Settlement hands the active record's place over, in the same session or, with
\* nothing queued, in the next.
LEMMA SettlesAccounts ==
  ASSUME TypeOK, AInv, active \in Keys, verdict \in ClosingVerdicts, WorkerSettles
  PROVE  AInv' /\ (active' # None => execution[active'] = "none")
  <1> DEFINE kept == IF Rotates THEN {} ELSE SettledAfter
  <1>1. /\ LoopTop(InFlightAfter, kept, FutureAfter)
        /\ session' = SessionAfter
        /\ UNCHANGED <<state, cancelRequested>>
    BY DEF WorkerSettles
  <1>2. /\ Accounted(InFlightAfter, SettledAfter, FutureAfter, {})
        /\ InFlightAfter \in SUBSET Keys /\ SettledAfter \in SUBSET Keys
        /\ InFlightAfter \subseteq inFlight
        /\ \A k \in SettledAfter : k[1] = session
    BY SettleAccounts DEF FutureAfter, ClosingVerdicts
  <1>3. Accounted(InFlightAfter, kept, FutureAfter, {}) /\ kept \in SUBSET Keys
    BY <1>2 DEF Accounted
  <1> HIDE DEF kept
  <1>4. /\ \A k \in Keys : future'[k] = "pending" <=> k \in inFlight'
        /\ inFlight' = Queued' \cup ({active'} \ {None}) /\ active' \notin Queued'
        /\ inFlight' \subseteq InFlightAfter
        /\ settled' = kept /\ \A k \in settled' : future'[k] \in Resolved
        /\ LanesInOrder'
        /\ state # "running" => userQueue' = <<>> /\ nonUserQueue' = <<>>
        /\ \/ active' = None /\ execution' = execution
           \/ /\ active' \in Queued
              /\ execution' = [execution EXCEPT ![active'] = "running"]
              /\ ~IsUser(active') => userQueue' = <<>>
    BY <1>1, <1>2, <1>3, LoopTopAccounts DEF AInv
  <1>5. /\ session' \in Int /\ session \in Int /\ active[1] = session
        /\ Rotates => session < session' /\ inFlight' = {}
        /\ ~Rotates => session' = session
    <2>1. session \in Int /\ session' \in Int
      BY <1>1, ConstantTypes DEF SessionAfter, TypeOK
    <2>2. active[1] = session
      BY NoneIsNoKey DEF AInv, AdmissionsAccounted, InFlightIsCurrent
    <2>3. Rotates => inFlight' = {}
      <3>1. Rotates => Queued = {}
        BY EmptyHolds DEF Rotates, Queued
      <3> QED BY <1>2, <1>4, <3>1 DEF Accounted
    <2> QED BY <1>1, <2>1, <2>2, <2>3 DEF SessionAfter
  <1>6. AdmissionsAccounted'
    <2>1. \A k \in settled' : k[1] = session'
      BY <1>2, <1>4, <1>5 DEF kept
    <2> QED BY <1>4, <2>1 DEF AdmissionsAccounted
  <1>7. InFlightIsCurrent'
    BY <1>2, <1>4, <1>5 DEF AInv, InFlightIsCurrent
  <1>8. QuietLanes' /\ UserPreempts'
    BY <1>1, <1>4 DEF AInv, QuietLanes, UserPreempts, IsUser
  <1>9. RunIsPast'
    <2> SUFFICES ASSUME NEW k \in Keys, execution'[k] # "none", k # active'
                 PROVE  k[1] < session' \/ k \in settled'
      BY DEF RunIsPast
    <2>1. execution[k] # "none"
      BY <1>4 DEF TypeOK
    <2>2. k[1] \in Int /\ (k[1] < session \/ k \in SettledAfter)
      BY <2>1, ConstantTypes DEF AInv, RunIsPast, SettledAfter, Keys
    <2>3. CASE Rotates
      BY <1>2, <1>5, <2>2, <2>3
    <2>4. CASE ~Rotates
      BY <1>4, <1>5, <2>2, <2>4 DEF kept
    <2> QED BY <2>3, <2>4
  <1>10. active' # None => execution[active'] = "none"
    <2> SUFFICES ASSUME active' # None PROVE execution[active'] = "none"
      OBVIOUS
    <2>1. active' \in InFlightAfter /\ active' \in Keys
      BY <1>2, <1>4 DEF Accounted
    <2>2. active' \in inFlight /\ active' # active
      BY <2>1 DEF InFlightAfter
    <2>3. future[active'] = "pending" /\ active'[1] = session
      BY <2>1, <2>2 DEF AInv, AdmissionsAccounted, InFlightIsCurrent
    <2>4. active' \notin settled
      BY <2>3 DEF AInv, AdmissionsAccounted, Resolved
    <2>5. ~(active'[1] < session)
      BY <1>5, <2>3
    <2> QED BY <2>1, <2>2, <2>4, <2>5 DEF AInv, RunIsPast
  <1> QED BY <1>4, <1>6, <1>7, <1>8, <1>9, <1>10 DEF AInv

\* The worker that poisons the actor, or is cancelled while it closes, settles
\* the active record and everything queued, and leaves nothing in flight.
LEMMA ClosesAccounts ==
  ASSUME TypeOK, AInv, active \in Keys, NEW status \in Resolved,
         RejectQueued(InFlightAfter, SettledAfter, Resolve(future, {active}, status)),
         active' = None, execution' = execution, session' = session
  PROVE  AInv' /\ inFlight' = {}
  <1> DEFINE fut == Resolve(future, {active}, status)
  <1>1. /\ Accounted(InFlightAfter, SettledAfter, fut, {})
        /\ InFlightAfter \in SUBSET Keys /\ SettledAfter \in SUBSET Keys
        /\ InFlightAfter \subseteq inFlight
        /\ \A k \in SettledAfter : k[1] = session
    BY SettleAccounts
  <1>2. {} \in SUBSET Keys /\ {} \cap Queued = {}
    OBVIOUS
  <1>3. RejectQueued(InFlightAfter, SettledAfter, fut)
    OBVIOUS
  <1> HIDE DEF fut
  <1>4. /\ userQueue' = <<>> /\ nonUserQueue' = <<>> /\ Queued' = {} /\ LanesInOrder'
        /\ inFlight' = {}
        /\ \A k \in Keys : future'[k] = "pending" <=> k \in inFlight'
        /\ settled' = SettledAfter \cup Queued
        /\ \A k \in settled' : future'[k] \in Resolved
    BY <1>1, <1>2, <1>3, RejectAccounts
  <1>5. \A k \in settled' : k[1] = session
    BY <1>1, <1>4 DEF Accounted, AInv, InFlightIsCurrent
  <1>6. AdmissionsAccounted'
    BY <1>4, <1>5 DEF AdmissionsAccounted
  <1>7. QuietLanes' /\ InFlightIsCurrent' /\ UserPreempts'
    BY <1>4 DEF QuietLanes, InFlightIsCurrent, UserPreempts
  <1>8. RunIsPast'
    BY <1>4 DEF AInv, RunIsPast, SettledAfter
  <1> QED BY <1>4, <1>6, <1>7, <1>8 DEF AInv

\* stop() rejects what is queued and asks the active record to yield.
LEMMA StopAccounts ==
  ASSUME TypeOK, AInv, NEW s \in Stoppers, StopBegins(s)
  PROVE  AInv'
  <1> DEFINE others == {active} \ {None}
  <1>1. /\ RejectQueued(inFlight, settled, future)
        /\ active' = active /\ execution' = execution /\ session' = session
    BY DEF StopBegins
  <1>2. /\ Accounted(inFlight, settled, future, others)
        /\ inFlight \in SUBSET Keys /\ settled \in SUBSET Keys
        /\ others \in SUBSET Keys /\ others \cap Queued = {}
    BY DEF AInv, AdmissionsAccounted, Accounted, TypeOK
  <1> HIDE DEF others
  <1>3. /\ userQueue' = <<>> /\ nonUserQueue' = <<>> /\ Queued' = {} /\ LanesInOrder'
        /\ inFlight' = others
        /\ \A k \in Keys : future'[k] = "pending" <=> k \in inFlight'
        /\ settled' = settled \cup Queued
        /\ \A k \in settled' : future'[k] \in Resolved
    BY <1>1, <1>2, RejectAccounts
  <1>4. /\ others \subseteq inFlight /\ Queued \subseteq inFlight
        /\ others = {active} \ {None}
    BY <1>2 DEF Accounted, others
  <1>5. AdmissionsAccounted'
    BY <1>1, <1>3, <1>4 DEF AInv, AdmissionsAccounted, InFlightIsCurrent
  <1>6. QuietLanes' /\ InFlightIsCurrent' /\ UserPreempts' /\ RunIsPast'
    BY <1>1, <1>3, <1>4
       DEF AInv, QuietLanes, InFlightIsCurrent, UserPreempts, RunIsPast
  <1> QED BY <1>3, <1>5, <1>6 DEF AInv

\* A fresh actor has admitted nothing.
LEMMA InitAInv == Init => AInv
  BY EmptyHolds DEF Init, AInv, AdmissionsAccounted, LanesInOrder, QuietLanes, InFlightIsCurrent,
     RunIsPast, UserPreempts, Queued

\* What a step starts is a record whose executor has not run.
StartsFresh == active' # active /\ active' # None => execution[active'] = "none"

\* Every step keeps the account and starts no record a second time.
LEMMA NextAInv == IInv /\ AInv /\ [Next]_vars => AInv' /\ StartsFresh
  <1> SUFFICES ASSUME IInv, AInv, [Next]_vars PROVE AInv' /\ StartsFresh
    OBVIOUS
  <1> USE NoneIsNoKey
      DEF mailbox, fences, work, control, stops, IInv, TInv, SInv, ActiveWhileWorking,
          ClosingVerdict, StopHasBegun, StartsFresh
  <1>1. CASE Start
    BY <1>1, FrameAccounts DEF Start
  <1>2. ASSUME NEW k \in Keys, Admit(k) PROVE AInv' /\ StartsFresh
    BY <1>2, AdmitAccounts DEF Admit
  <1>3. CASE WorkerWakes
    BY <1>3, WakesAccounts DEF WorkerWakes
  <1>4. ASSUME Close(verdict'), active \in Keys,
               UNCHANGED <<state, mailbox, fences, active, cancelRequested>>
        PROVE  AInv' /\ StartsFresh
    BY <1>4, FrameAccounts DEF Close, TypeOK
  <1>5. CASE WorkerSeesResult \/ GraceSettles \/ JoinSettles \/ JoinExpires
    BY <1>4, <1>5 DEF WorkerSeesResult, GraceSettles, JoinSettles, JoinExpires, Close
  <1>6. CASE GraceBegins
    BY <1>6, FrameAccounts DEF GraceBegins
  <1>7. CASE GraceExpires
    BY <1>7, FrameAccounts DEF GraceExpires, CancelAndJoin, TypeOK
  <1>8. CASE WorkerSettles
    BY <1>8, SettlesAccounts DEF WorkerSettles
  <1>9. CASE WorkerPoisons
    <2>1. /\ verdict.status \in Resolved /\ active \in Keys
          /\ RejectQueued(InFlightAfter, SettledAfter, Resolve(future, {active}, verdict.status))
          /\ active' = None /\ execution' = execution /\ session' = session
      BY <1>9 DEF WorkerPoisons, Exit, FutureAfter, ClosingVerdicts
    <2> QED BY <2>1, ClosesAccounts
  <1>10. ASSUME NEW k \in Keys, ExecutorStep(k) PROVE AInv' /\ StartsFresh
    BY <1>10, FrameAccounts
       DEF ExecutorStep, ExecutionEnds, OrphanEnds, UncontainedDone, Live, TypeOK
  <1>11. ASSUME NEW s \in Stoppers, StopAtRest(s) \/ StopJoins(s) \/ StopFails(s)
         PROVE AInv' /\ StartsFresh
    BY <1>11, FrameAccounts DEF StopAtRest, StopJoins, StopFails
  <1>12. ASSUME NEW s \in Stoppers, StopBegins(s) PROVE AInv' /\ StartsFresh
    BY <1>12, StopAccounts DEF StopBegins
  <1>13. ASSUME NEW s \in Stoppers, StopTimesOut(s) PROVE AInv' /\ StartsFresh
    <2>0. CancelLands /\ UNCHANGED state
      BY <1>13 DEF StopTimesOut
    <2>1. CASE worker \in {"asleep", "done"} /\ UNCHANGED <<fences, mailbox, work>>
      BY <2>0, <2>1, FrameAccounts
    <2>2. CASE /\ worker = "waiting" /\ CancelAndJoin
               /\ cancelRequested' = cancelRequested \cup {active}
               /\ UNCHANGED <<fences, mailbox, active>>
      BY <2>0, <2>2, FrameAccounts DEF CancelAndJoin, TypeOK
    <2>3. CASE /\ worker \in {"grace", "joining"} /\ Close(Verdict("cancelled", FALSE))
               /\ UNCHANGED <<fences, mailbox, active, cancelRequested>>
      BY <1>4, <2>0, <2>3 DEF Close
    <2>4. CASE /\ worker = "closing"
               /\ RejectQueued(InFlightAfter, SettledAfter,
                               Resolve(future, {active}, "cancelled"))
               /\ active' = None /\ UNCHANGED <<session, execution>>
      <3>1. "cancelled" \in Resolved
        BY DEF Resolved
      <3> QED BY <2>4, <3>1, ClosesAccounts
    <2> QED BY <2>0, <2>1, <2>2, <2>3, <2>4 DEF CancelLands
  <1>14. CASE Tick \/ UNCHANGED vars
    BY <1>14, FrameAccounts DEF Tick, vars
  <1> QED
    BY <1>1, <1>2, <1>3, <1>5, <1>6, <1>7, <1>8, <1>9, <1>10, <1>11, <1>12, <1>13, <1>14
       DEF Next, WorkerStep, StopStep

\* The account, with what keeps executors apart, is inductive.
LEMMA AccountInvariant == Spec => [](IInv /\ AInv)
  <1>1. IInv /\ AInv /\ [Next]_vars => (IInv /\ AInv)'
    BY NextTInv, NextSInv, NextAInv DEF IInv
  <1>2. Init => IInv /\ AInv
    BY InitTInv, InitSInv, InitAInv DEF IInv
  <1> QED BY <1>1, <1>2, PTL DEF Spec

\* An admission is never lost: its future is open exactly while its record is in
\* the in-flight table, which holds the two lanes of the mailbox and the active
\* record; the settled history holds only resolved requests of this session.
THEOREM AdmissionsStayAccounted == Spec => []AdmissionsAccounted
  <1>1. AInv => AdmissionsAccounted
    BY DEF AInv
  <1> QED BY <1>1, AccountInvariant, PTL

\* User work never waits behind non-user work that was not asked to yield,
\* whichever of admission, pop, settlement and stop() came first.
THEOREM UsersPreempt == Spec => []UserPreempts
  <1>1. AInv => UserPreempts
    BY DEF AInv
  <1> QED BY <1>1, AccountInvariant, PTL

\* No descriptor runs twice: what the worker makes active has no executor yet,
\* however often duplicates are submitted and the fences are rotated.
THEOREM NothingRunsTwice == Spec => NoReexecution
  <1>1. IInv /\ AInv /\ [Next]_vars
          => [active' # active /\ active' # None => execution[active'] = "none"]_vars
    BY NextAInv DEF StartsFresh
  <1> QED BY <1>1, AccountInvariant, PTL DEF Spec, NoReexecution

-----------------------------------------------------------------------------
(* A stopped actor is quiet. *)

\* A live executor is awaited by the worker, or known to be uncontained, or some
\* stop() that is about to raise knows of it, or the actor is poisoned.
Escapes == (\E s \in Stoppers : stopper[s] = "gathering") \/ state = "poisoned"
LiveIsKnown ==
  \A k \in Keys : Live(k) => \/ k \in uncontained \/ Escapes
                             \/ k = active /\ worker # "closing"

\* stop() reports STOPPED only after the worker has returned, if there was one.
StoppedIsOver == state = "stopped" => worker \in {"absent", "done"}

\* A new actor has run nothing.
NewIsFresh == state = "new" => \A k \in Keys : execution[k] = "none"

QInv == LiveIsKnown /\ StoppedIsOver /\ NewIsFresh /\ StoppedIsQuiet

\* A fresh actor is quiet.
LEMMA InitQInv == Init => QInv
  BY DEF Init, QInv, LiveIsKnown, StoppedIsOver, NewIsFresh, StoppedIsQuiet, Live

\* A step that starts no executor, forgets no uncontained task that lives, does
\* not stop the actor and does not let the worker leave its executor keeps quiet.
LEMMA FrameQuiet ==
  ASSUME QInv,
         \A k \in Keys : Live(k)' => Live(k),
         \A k \in Keys : Live(k)' /\ k \in uncontained => k \in uncontained',
         Escapes => Escapes',
         \A k \in Keys : Live(k)' /\ k = active /\ worker # "closing"
            => (k = active' /\ worker' # "closing") \/ k \in uncontained' \/ Escapes',
         state' = "new" => state = "new" /\ execution' = execution,
         state' = "stopped" => /\ state = "stopped" /\ inFlight' = inFlight
                               /\ worker' \in {worker, "done"}
  PROVE  QInv'
  <1>1. LiveIsKnown'
    BY DEF QInv, LiveIsKnown
  <1>2. StoppedIsOver' /\ NewIsFresh'
    BY DEF QInv, StoppedIsOver, NewIsFresh
  <1>3. StoppedIsQuiet'
    BY DEF QInv, StoppedIsQuiet
  <1> QED BY <1>1, <1>2, <1>3 DEF QInv

\* A stop() that gathers, or a poisoned actor, stays known until it has poisoned
\* the actor for good.
LEMMA EscapesStay ==
  ASSUME TypeOK, Escapes,
         \A s \in Stoppers : stopper[s] = "gathering" => stopper'[s] = "gathering",
         state = "poisoned" => state' = "poisoned"
  PROVE  Escapes'
  BY DEF Escapes

\* The loop is reached from sleep or from a settled record: it starts an
\* executor only as the active one.
LEMMA LoopTopQuiet ==
  ASSUME TypeOK, SessionOpen, QInv, worker \in {"asleep", "closing"}, state \notin {"new", "stopped"},
         worker = "asleep" => active = None,
         NEW fl \in SUBSET Keys, NEW st \in SUBSET Keys,
         NEW fut \in [Keys -> Resolved \cup {"none", "pending"}],
         LoopTop(fl, st, fut), UNCHANGED <<state, uncontained, stopper>>
  PROVE  QInv'
  <1>1. /\ worker' \in {"asleep", "done", "waiting"}
        /\ \A k \in Keys : Live(k)' => Live(k) \/ (k = active' /\ worker' = "waiting")
    BY LoopTopLands DEF Live, TypeOK
  <1>2. LiveIsKnown'
    BY <1>1, NoneIsNoKey DEF QInv, LiveIsKnown, Escapes
  <1> QED BY <1>2 DEF QInv, StoppedIsOver, NewIsFresh, StoppedIsQuiet

\* Every step keeps a stopped actor quiet.
LEMMA NextQInv == IInv /\ AInv /\ QInv /\ [Next]_vars => QInv'
  <1> SUFFICES ASSUME IInv, AInv, QInv, [Next]_vars PROVE QInv'
    OBVIOUS
  <1> USE NoneIsNoKey
      DEF mailbox, fences, work, control, stops, IInv, TInv, SInv, ActiveWhileWorking,
          ClosingVerdict, StopHasBegun
  <1>0. /\ state = "stopped" => worker \in {"absent", "done"}
        /\ state = "new" => worker = "absent"
    BY DEF QInv, StoppedIsOver, NewIsAbsent
  <1>1. CASE Start
    BY <1>1, FrameQuiet, EscapesStay DEF Start, Live
  <1>2. ASSUME NEW k \in Keys, Admit(k) PROVE QInv'
    BY <1>2, FrameQuiet, EscapesStay DEF Admit, Admissible, Live
  <1>3. CASE WorkerWakes
    BY <1>0, <1>3, LoopTopQuiet DEF WorkerWakes, TypeOK
  <1>4. ASSUME Close(verdict'), active \in Keys, state \notin {"new", "stopped"},
               UNCHANGED <<state, active>>, uncontained \subseteq uncontained',
               Escapes => Escapes', Live(active) => active \in uncontained' \/ Escapes'
        PROVE  QInv'
    BY <1>4, CloseKeepsLive, FrameQuiet DEF Close
  <1>5. CASE WorkerSeesResult \/ GraceSettles \/ JoinSettles
    BY <1>0, <1>4, <1>5, EscapesStay
       DEF WorkerSeesResult, GraceSettles, JoinSettles, Close, Ended, Endings, Live
  <1>6. CASE JoinExpires
    BY <1>0, <1>4, <1>6, EscapesStay DEF JoinExpires, Close
  <1>7. CASE GraceBegins
    <2>1. /\ Escapes => Escapes' /\ worker' = "grace"
          /\ UNCHANGED <<state, active, execution, uncontained, inFlight>>
      BY <1>7, EscapesStay DEF GraceBegins
    <2> QED BY <1>0, <1>7, <2>1, FrameQuiet DEF GraceBegins, Live
  <1>8. CASE GraceExpires
    BY <1>0, <1>8, FrameQuiet, EscapesStay, CancelKeepsLive DEF GraceExpires, CancelAndJoin
  <1>9. CASE WorkerSettles
    <2>1. /\ InFlightAfter \in SUBSET Keys /\ SettledAfter \in SUBSET Keys /\ {} \in SUBSET Keys
          /\ FutureAfter \in [Keys -> Resolved \cup {"none", "pending"}]
      BY <1>9, ResolveType DEF WorkerSettles, InFlightAfter, SettledAfter, FutureAfter,
         ClosingVerdicts, TypeOK
    <2>2. LoopTop(InFlightAfter, IF Rotates THEN {} ELSE SettledAfter, FutureAfter)
      BY <1>9 DEF WorkerSettles
    <2> QED BY <1>0, <1>9, <2>1, <2>2, LoopTopQuiet DEF WorkerSettles
  <1>10. CASE WorkerPoisons
    <2>1. state' = "poisoned" /\ Escapes'
      BY <1>10 DEF WorkerPoisons, Escapes
    <2> QED BY <2>1 DEF QInv, LiveIsKnown, StoppedIsOver, NewIsFresh, StoppedIsQuiet
  <1>11. ASSUME NEW k \in Keys, ExecutorStep(k) PROVE QInv'
    <2>0. state = "new" => execution' = execution
      BY <1>11 DEF ExecutorStep, ExecutionEnds, OrphanEnds, UncontainedDone, QInv, NewIsFresh, Live
    <2>1. \A j \in Keys : Live(j)' => Live(j)
      BY <1>11 DEF ExecutorStep, ExecutionEnds, OrphanEnds, UncontainedDone, Endings, Live, TypeOK
    <2>2. /\ UNCHANGED <<state, active, worker, stopper, inFlight>>
          /\ \A j \in Keys : Live(j)' /\ j \in uncontained => j \in uncontained'
      BY <1>11 DEF ExecutorStep, ExecutionEnds, OrphanEnds, UncontainedDone, Live
    <2>3. Escapes => Escapes'
      BY <2>2, EscapesStay
    <2> QED BY <2>0, <2>1, <2>2, <2>3, FrameQuiet
  <1>12. ASSUME NEW s \in Stoppers, StopAtRest(s) PROVE QInv'
    <2>1. CASE state = "new"
      <3>1. state' = "stopped" /\ UNCHANGED <<inFlight, execution, worker>>
        BY <1>12, <2>1 DEF StopAtRest
      <3>2. \A k \in Keys : ~Live(k)'
        BY <2>1, <3>1 DEF QInv, NewIsFresh, Live
      <3>3. inFlight' = {}
        BY <1>0, <2>1, <3>1, EmptyHolds DEF AInv, AdmissionsAccounted, QuietLanes, Queued
      <3> QED BY <1>0, <2>1, <3>1, <3>2, <3>3
              DEF QInv, LiveIsKnown, StoppedIsOver, NewIsFresh, StoppedIsQuiet
    <2>2. CASE state # "new"
      BY <1>12, <2>2, FrameQuiet, EscapesStay DEF StopAtRest, Live, TypeOK
    <2> QED BY <2>1, <2>2
  <1>13. ASSUME NEW s \in Stoppers, StopBegins(s) PROVE QInv'
    BY <1>13, FrameQuiet, EscapesStay DEF StopBegins, Live, TypeOK
  <1>14. ASSUME NEW s \in Stoppers, StopJoins(s) PROVE QInv'
    <2>1. /\ worker = "done" /\ active = None /\ UNCHANGED <<inFlight, execution, worker, uncontained, active>>
          /\ state \notin {"new", "running"} /\ state' # "new"
          /\ \A other \in Stoppers : stopper[other] # "gathering"
      BY <1>14 DEF StopJoins, TypeOK
    <2>2. CASE state = "stopping" /\ uncontained = {}
      <3>1. \A k \in Keys : ~Live(k)
        BY <2>1, <2>2 DEF QInv, LiveIsKnown, Escapes
      <3>2. inFlight = {}
        BY <2>1, EmptyHolds DEF AInv, AdmissionsAccounted, QuietLanes, Queued
      <3> QED BY <2>1, <3>1, <3>2
              DEF QInv, LiveIsKnown, StoppedIsOver, NewIsFresh, StoppedIsQuiet, Live
    <2>3. CASE state # "stopping" \/ uncontained # {}
      <3>1. state = "poisoned" => state' = "poisoned"
        BY <1>14 DEF StopJoins
      <3>2. Escapes => Escapes'
        BY <2>1, <3>1 DEF Escapes
      <3>3. state' = "stopped" => state = "stopped"
        BY <1>14, <2>3 DEF StopJoins
      <3> QED BY <2>1, <3>2, <3>3, FrameQuiet DEF Live
    <2> QED BY <2>2, <2>3
  <1>15. ASSUME NEW s \in Stoppers, StopTimesOut(s) PROVE QInv'
    <2>0. CancelLands /\ UNCHANGED state /\ state \notin {"new", "running"} /\ Escapes'
      BY <1>15 DEF StopTimesOut, Escapes, TypeOK
    <2>1. \A k \in Keys : Live(k)' => Live(k)
      <3>1. CASE worker = "waiting" /\ CancelAndJoin
        BY <3>1, CancelKeepsLive DEF CancelAndJoin, TypeOK
      <3>2. CASE worker \in {"grace", "joining"} /\ Close(Verdict("cancelled", FALSE))
        <4>1. LiveIsActive /\ active \in Keys
          BY <3>2
        <4> QED BY <3>2, <4>1, CloseKeepsLive DEF Close, TypeOK
      <3>3. CASE UNCHANGED execution
        BY <3>3 DEF Live
      <3> QED BY <2>0, <3>1, <3>2, <3>3 DEF CancelLands
    <2>2. state' = "stopped" => worker' = "done" /\ UNCHANGED inFlight
      BY <1>0, <2>0 DEF CancelLands
    <2> QED BY <2>0, <2>1, <2>2 DEF QInv, LiveIsKnown, StoppedIsOver, NewIsFresh, StoppedIsQuiet
  <1>16. ASSUME NEW s \in Stoppers, StopFails(s) PROVE QInv'
    <2>1. state' = "poisoned" /\ Escapes'
      BY <1>16 DEF StopFails, Escapes
    <2> QED BY <2>1 DEF QInv, LiveIsKnown, StoppedIsOver, NewIsFresh, StoppedIsQuiet
  <1>17. CASE Tick \/ UNCHANGED vars
    BY <1>17, FrameQuiet, EscapesStay DEF Tick, vars, Live
  <1> QED
    BY <1>1, <1>2, <1>3, <1>5, <1>6, <1>7, <1>8, <1>9, <1>10, <1>11, <1>12, <1>13, <1>14,
       <1>15, <1>16, <1>17 DEF Next, WorkerStep, StopStep

\* After stop() has reported STOPPED no executor is alive and no admission is
\* open: it raises, or poisons the actor, whenever it cannot vouch for that.
THEOREM StoppedStaysQuiet == Spec => []StoppedIsQuiet
  <1>1. IInv /\ AInv /\ QInv /\ [Next]_vars => (IInv /\ AInv /\ QInv)'
    BY NextTInv, NextSInv, NextAInv, NextQInv DEF IInv
  <1>2. Init => IInv /\ AInv /\ QInv
    BY InitTInv, InitSInv, InitAInv, InitQInv DEF IInv
  <1>3. QInv => StoppedIsQuiet
    BY DEF QInv
  <1> QED BY <1>1, <1>2, <1>3, PTL DEF Spec
=============================================================================
