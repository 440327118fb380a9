------------------------------ MODULE Presence ------------------------------
(***************************************************************************)
(* The local presence (presence.py, canonical composition) and the kernel  *)
(* calls that reach it (kernel.py: submit_user, cognition_step,            *)
(* submit_cognition).  A user turn excludes idle cognition while it lasts; *)
(* a loop task waits for the idle deadline and turns it into at most one   *)
(* INTERNAL admission; a completed turn queues an appraisal.               *)
(*                                                                         *)
(* The semantic actor is seen through its answers: it accepts or refuses   *)
(* an admission and settles what it accepted.  In this composition nobody  *)
(* but stop() puts anything into the queue the loop waits on: user turns   *)
(* go to the actor (presence.py:891-895).  The standalone lane of earlier  *)
(* phases is left out.                                                     *)
(***************************************************************************)
EXTENDS Naturals, FiniteSets

CONSTANTS
  UserTurns,           \* the user turns that are submitted
  IdleTimeout,         \* idle_timeout_s
  MaxTime,             \* bound: the clock stops there
  MaxOpportunities     \* bound: idle admissions that are tracked

ASSUME PresenceAssumption ==
  IdleTimeout \in Nat \ {0} /\ MaxTime \in Nat /\ MaxOpportunities \in Nat

VARIABLES
  userTurn,      \* where each user turn is
  blocks,        \* _actor_user_blocks
  latched,       \* _idle_latched
  lastActivity,  \* _last_activity
  autonomous,    \* _consecutive_autonomous
  idleLoop,      \* the await the loop task rests in
  alarmAt,       \* when its wait_for ends
  internal,      \* INTERNAL admissions that are not settled: turns and numbers
  opportunities, \* how many of them were idle opportunities
  accepting,     \* the kernel is RUNNING
  quitting,      \* stop() has put None into the queue
  stage,         \* new, running, stopping, gathering or stopped
  time

presenceVars == <<userTurn, blocks, latched, lastActivity, autonomous, idleLoop, alarmAt,
                  internal, opportunities, accepting, quitting, stage, time>>
turnState == <<userTurn, blocks>>
idleState == <<latched, lastActivity, autonomous>>
loopState == <<idleLoop, alarmAt, opportunities>>
stopState == <<accepting, quitting, stage>>

Excluding == {"submitting", "admitted", "settled"}

PresenceTypeOK ==
  /\ userTurn \in [UserTurns -> Excluding \cup {"new", "refused", "done"}]
  /\ blocks \in 0..Cardinality(UserTurns)
  /\ latched \in BOOLEAN /\ accepting \in BOOLEAN /\ quitting \in BOOLEAN
  /\ lastActivity \in 0..MaxTime /\ time \in 0..MaxTime /\ autonomous \in 0..1
  /\ idleLoop \in {"absent", "timed", "untimed", "deciding", "submitting", "done"}
  /\ alarmAt \in 0..(MaxTime + IdleTimeout)
  /\ internal \subseteq UserTurns \cup 1..MaxOpportunities
  /\ opportunities \in 0..MaxOpportunities
  /\ stage \in {"new", "running", "stopping", "gathering", "stopped"}

PresenceInit ==
  /\ userTurn = [u \in UserTurns |-> "new"] /\ blocks = 0
  /\ latched = FALSE /\ lastActivity = 0 /\ autonomous = 0
  /\ idleLoop = "absent" /\ alarmAt = 0
  /\ internal = {} /\ opportunities = 0
  /\ accepting = TRUE /\ quitting = FALSE /\ stage = "new" /\ time = 0

-----------------------------------------------------------------------------
(* The loop *)

\* The top of _run's loop: it waits for the queue, with the deadline of the
\* moment unless the latch is set.
LoopWaits(isLatched) ==
  IF isLatched
    THEN idleLoop' = "untimed" /\ UNCHANGED alarmAt
    ELSE /\ idleLoop' = "timed"
         /\ alarmAt' = IF lastActivity + IdleTimeout > time THEN lastActivity + IdleTimeout ELSE time

PresenceStarts ==
  /\ stage = "new"
  /\ stage' = "running" /\ lastActivity' = time
  /\ idleLoop' = "timed" /\ alarmAt' = time + IdleTimeout
  /\ UNCHANGED <<turnState, latched, autonomous, opportunities, internal, accepting,
                 quitting, time>>

\* The wait times out: the opportunity is recorded and the wake policy asked.
DeadlineFires ==
  /\ idleLoop = "timed" /\ time >= alarmAt /\ ~quitting
  /\ latched' = TRUE
  /\ idleLoop' = "deciding"
  /\ UNCHANGED <<turnState, lastActivity, autonomous, alarmAt, opportunities, internal,
                 stopState, time>>

\* The policy declines, a user turn is in progress, enough was done on its own
\* or there is no intention to act on.
Declines ==
  /\ idleLoop = "deciding"
  /\ LoopWaits(latched)
  /\ UNCHANGED <<turnState, idleState, opportunities, internal, stopState, time>>

Decides ==
  /\ idleLoop = "deciding" /\ blocks = 0 /\ autonomous = 0
  /\ idleLoop' = "submitting" /\ autonomous' = 1
  /\ UNCHANGED <<turnState, latched, lastActivity, alarmAt, opportunities, internal,
                 stopState, time>>

\* submit_cognition: refused when the kernel is not running.
IdleAdmitted ==
  /\ idleLoop = "submitting" /\ accepting /\ opportunities < MaxOpportunities
  /\ opportunities' = opportunities + 1 /\ internal' = internal \cup {opportunities + 1}
  /\ LoopWaits(latched)
  /\ UNCHANGED <<turnState, idleState, stopState, time>>

IdleRefused ==
  /\ idleLoop = "submitting"
  /\ LoopWaits(latched)
  /\ UNCHANGED <<turnState, idleState, opportunities, internal, stopState, time>>

LoopEnds ==
  /\ idleLoop \in {"timed", "untimed"} /\ quitting
  /\ idleLoop' = "done"
  /\ UNCHANGED <<turnState, idleState, alarmAt, opportunities, internal, stopState, time>>

\* _settle_internal: only the settlement of an idle admission is activity.
InternalSettles(i) ==
  /\ i \in internal /\ internal' = internal \ {i}
  /\ lastActivity' = IF i \in UserTurns THEN lastActivity ELSE time
  /\ UNCHANGED <<turnState, latched, autonomous, loopState, stopState, time>>

-----------------------------------------------------------------------------
(* User turns *)

\* begin_actor_user: nothing to wait for in this composition.
TurnExcludes(u) ==
  /\ userTurn[u] = "new" /\ stage = "running" /\ accepting
  /\ userTurn' = [userTurn EXCEPT ![u] = "submitting"] /\ blocks' = blocks + 1
  /\ latched' = TRUE /\ autonomous' = 0 /\ lastActivity' = time
  /\ UNCHANGED <<loopState, internal, stopState, time>>

\* end_actor_user.
Releases(u, where) ==
  /\ userTurn' = [userTurn EXCEPT ![u] = where]
  /\ blocks' = IF blocks > 0 THEN blocks - 1 ELSE 0
  /\ latched' = IF blocks' = 0 /\ stage = "running" THEN FALSE ELSE latched
  /\ lastActivity' = time /\ UNCHANGED autonomous

TurnAccepted(u) ==
  /\ userTurn[u] = "submitting" /\ accepting
  /\ userTurn' = [userTurn EXCEPT ![u] = "admitted"]
  /\ UNCHANGED <<blocks, idleState, loopState, internal, stopState, time>>

RefusalKeepsBlock(u) ==
  /\ userTurn[u] = "submitting"
  /\ userTurn' = [userTurn EXCEPT ![u] = "refused"]
  /\ UNCHANGED <<blocks, idleState, loopState, internal, stopState, time>>

\* Refused, a duplicate, failed, or the caller was cancelled.
TurnRefused(u) ==
  /\ userTurn[u] = "submitting"
  /\ Releases(u, "refused")
  /\ UNCHANGED <<loopState, internal, stopState, time>>

\* execute_actor_user ends well and its appraisal is admitted.
QueuesAppraisal(u) ==
  /\ userTurn[u] = "admitted" /\ accepting
  /\ userTurn' = [userTurn EXCEPT ![u] = "settled"] /\ internal' = internal \cup {u}
  /\ UNCHANGED <<blocks, idleState, loopState, stopState, time>>

\* The turn settles without one: it failed, was cancelled, or the appraisal
\* was refused.
TurnSettles(u) ==
  /\ userTurn[u] = "admitted"
  /\ userTurn' = [userTurn EXCEPT ![u] = "settled"]
  /\ UNCHANGED <<blocks, idleState, loopState, internal, stopState, time>>

\* The exclusion is released by a task of its own, whoever was waiting.
TurnReleased(u) ==
  /\ userTurn[u] = "settled"
  /\ Releases(u, "done")
  /\ UNCHANGED <<loopState, internal, stopState, time>>

-----------------------------------------------------------------------------
(* stop() *)

\* The kernel leaves RUNNING; its shutdown then settles the actor's work
\* and the exclusions before it stops the presence, unless the actor failed.
KernelCloses ==
  /\ accepting /\ accepting' = FALSE
  /\ UNCHANGED <<turnState, idleState, loopState, internal, quitting, stage, time>>

StopsUnwoken ==
  /\ stage = "running" /\ ~accepting
  /\ stage' = "stopping" /\ quitting' = ~latched
  /\ UNCHANGED <<turnState, idleState, loopState, internal, accepting, time>>

PresenceStops ==
  /\ stage = "running" /\ ~accepting
  /\ stage' = "stopping" /\ quitting' = TRUE
  /\ UNCHANGED <<turnState, idleState, loopState, internal, accepting, time>>

LoopJoined ==
  /\ stage = "stopping" /\ idleLoop = "done"
  /\ stage' = "gathering"
  /\ UNCHANGED <<turnState, idleState, loopState, internal, accepting, quitting, time>>

InternalJoined ==
  /\ stage = "gathering" /\ internal = {}
  /\ stage' = "stopped"
  /\ UNCHANGED <<turnState, idleState, loopState, internal, accepting, quitting, time>>

TimePasses ==
  /\ time < MaxTime /\ time' = time + 1
  /\ UNCHANGED <<turnState, idleState, loopState, internal, stopState>>

-----------------------------------------------------------------------------
LoopStep == DeadlineFires \/ Declines \/ Decides \/ IdleAdmitted \/ IdleRefused \/ LoopEnds
TurnStep(u) ==
  TurnAccepted(u) \/ TurnRefused(u) \/ QueuesAppraisal(u) \/ TurnSettles(u) \/ TurnReleased(u)
StopStepP == LoopJoined \/ InternalJoined

PresenceNext ==
  \/ PresenceStarts \/ LoopStep \/ KernelCloses \/ PresenceStops \/ StopStepP \/ TimePasses
  \/ \E u \in UserTurns : TurnExcludes(u) \/ TurnStep(u)
  \/ \E i \in internal : InternalSettles(i)

\* The event loop runs what can run, a policy answers, and the actor settles
\* what it accepted (SemanticActor: CancellationSettles, StopReturns).
PresenceFairness ==
  /\ WF_presenceVars(LoopStep) /\ WF_presenceVars(StopStepP)
  /\ \A u \in UserTurns : WF_presenceVars(TurnStep(u))
  /\ WF_presenceVars(\E i \in internal : InternalSettles(i))

PresenceSpec == PresenceInit /\ [][PresenceNext]_presenceVars /\ PresenceFairness

-----------------------------------------------------------------------------
(* Properties *)

\* Every exclusion that begin_actor_user took is given back once, whichever of
\* refusal, settlement and a cancelled caller ended the turn: no idle work
\* beside a user turn, none shut out after the last one.
ExclusionBalanced == blocks = Cardinality({u \in UserTurns : userTurn[u] \in Excluding})

\* stop() ends wherever the loop is: waiting with or without a deadline, asking
\* the wake policy, or submitting to a kernel that no longer accepts.
PresenceStopEnds == stage = "stopping" ~> stage = "stopped"
=============================================================================
