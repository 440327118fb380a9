--------------------------- MODULE ProactiveSpeech --------------------------
(***************************************************************************)
(* Speaking unasked on Discord (proactive.py, and the send tool of tool.py *)
(* behind it).  A completed USER turn is appraised; if the mind then has   *)
(* an intention, one idle timer is armed; when it expires, one wake asks   *)
(* cognition, and what it says goes out through a worker thread that asks  *)
(* three times whether it may.  A USER turn that begins ends all of that.  *)
(*                                                                         *)
(* The actor, the coordinator and the mind are what the presence sees of   *)
(* them: one episode at a time, USER first, a result at the end.  The idle *)
(* generation is left out: whatever raises it drops timer and attempt too. *)
(***************************************************************************)
EXTENDS Naturals, Sequences, FiniteSets

CONSTANTS
  SubjectTurns,  \* USER turns of the bound subject
  MaxWakes       \* bound: idle opportunities

ASSUME ProactiveAssumption == IsFiniteSet(SubjectTurns) /\ MaxWakes \in Nat \ {0}

NoWake == 0
Absent == [wake |-> NoWake]

VARIABLES
  userStage,   \* per turn, where its route is
  appraisal,   \* per turn, its appraisal, with the epoch it was recorded under
  intentions,  \* the ACTIVE intentions, oldest first, named by the turn they come from
  idleTimer,   \* _idle_task, with the epoch and the intention it was armed for
  attempt,     \* _idle_attempt
  wakes,       \* the idle episodes so far
  target,      \* _target_subject and _target_disabled
  life,        \* the runtime and _closing
  delivered    \* history: intentions whose message Discord confirmed

speechVars == <<userStage, appraisal, intentions, idleTimer, attempt, wakes, target, life, delivered>>

IdleWakes == DOMAIN wakes
Epoch == Cardinality({u \in SubjectTurns : userStage[u] # "away"})
UserWork == \E u \in SubjectTurns : userStage[u] \in {"queued", "running"}
LaneFree ==
  /\ \A u \in SubjectTurns : userStage[u] # "running" /\ appraisal[u].stage # "running"
  /\ \A w \in IdleWakes : wakes[w].stage \notin {"thinking", "permitted", "available", "claimed"}
ActiveIntention == IF intentions = <<>> THEN {} ELSE {Head(intentions)}

SpeechTypeOK ==
  /\ userStage \in [SubjectTurns -> {"away", "begun", "queued", "running", "done"}]
  /\ \A u \in SubjectTurns :
       /\ appraisal[u].stage \in {"none", "queued", "running", "succeeded", "over"}
       /\ appraisal[u].epoch \in 0..Cardinality(SubjectTurns)
  /\ intentions \in Seq(SubjectTurns)
  /\ \A w \in IdleWakes :
       wakes[w].stage \in {"submitting", "queued", "thinking", "permitted", "available", "claimed",
                           "quiet", "failed", "confirmed", "over"}
  /\ Len(wakes) <= MaxWakes
  /\ attempt.wake \in IdleWakes \cup {NoWake}
  /\ target \in {"unbound", "bound", "disabled"} /\ life \in {"running", "stopping", "closing"}
  /\ delivered \in Seq(SubjectTurns)

SpeechInit ==
  /\ userStage = [u \in SubjectTurns |-> "away"]
  /\ appraisal = [u \in SubjectTurns |-> [stage |-> "none", epoch |-> 0]]
  /\ intentions = <<>> /\ idleTimer = Absent /\ attempt = Absent /\ wakes = <<>>
  /\ target = "unbound" /\ life = "running" /\ delivered = <<>>

UserTo(u, to) == userStage' = [userStage EXCEPT ![u] = to]
AppraisalTo(u, to) == appraisal' = [appraisal EXCEPT ![u].stage = to]
WakeTo(w, to) == wakes' = [wakes EXCEPT ![w].stage = to]

-----------------------------------------------------------------------------
(* The USER turns. *)

\* A message arrives: handle_message binds the first subject.
TargetBinds ==
  /\ target = "unbound" /\ life # "closing" /\ target' = "bound"
  /\ UNCHANGED <<userStage, appraisal, intentions, idleTimer, attempt, wakes, life, delivered>>

\* Its turn begins later, when cognition_step calls begin_actor_user.
UserBegins(u) ==
  /\ userStage[u] = "away" /\ target # "unbound" /\ life = "running" /\ UserTo(u, "begun")
  /\ idleTimer' = Absent /\ attempt' = Absent
  /\ UNCHANGED <<appraisal, intentions, wakes, target, life, delivered>>

\* The actor has it: USER work is queued.
UserQueued(u) ==
  /\ userStage[u] = "begun" /\ UserTo(u, "queued")
  /\ UNCHANGED <<appraisal, intentions, idleTimer, attempt, wakes, target, life, delivered>>

UserRuns(u) ==
  /\ userStage[u] = "queued" /\ LaneFree /\ UserTo(u, "running")
  /\ UNCHANGED <<appraisal, intentions, idleTimer, attempt, wakes, target, life, delivered>>

\* on_user_turn_completed reads the epoch now, which a turn that waits has raised.
UserCompletes(u) ==
  /\ userStage[u] = "running" /\ UserTo(u, "done")
  /\ IF target = "bound" /\ life = "running"
       THEN appraisal' = [appraisal EXCEPT ![u] = [stage |-> "queued", epoch |-> Epoch]]
       ELSE UNCHANGED appraisal
  /\ UNCHANGED <<intentions, idleTimer, attempt, wakes, target, life, delivered>>
UserFails(u) ==
  /\ userStage[u] = "running" /\ UserTo(u, "done")
  /\ UNCHANGED <<appraisal, intentions, idleTimer, attempt, wakes, target, life, delivered>>

\* bind_target of a second subject.
OtherSubject ==
  /\ target = "bound" /\ life # "closing" /\ target' = "disabled"
  /\ idleTimer' = Absent /\ attempt' = Absent
  /\ UNCHANGED <<userStage, appraisal, intentions, wakes, life, delivered>>

-----------------------------------------------------------------------------
(* The appraisal. *)

AttemptCurrent(u) == life # "closing" /\ target = "bound" /\ appraisal[u].epoch = Epoch

AppraisalRuns(u) ==
  /\ appraisal[u].stage = "queued" /\ LaneFree /\ ~UserWork /\ AppraisalTo(u, "running")
  /\ UNCHANGED <<userStage, intentions, idleTimer, attempt, wakes, target, life, delivered>>

\* It may create an intention, which is applied only under current provenance.
AppraisalSucceeds(u) ==
  /\ appraisal[u].stage = "running" /\ AppraisalTo(u, "succeeded")
  /\ intentions' \in {intentions} \cup IF AttemptCurrent(u) THEN {Append(intentions, u)} ELSE {}
  /\ UNCHANGED <<userStage, idleTimer, attempt, wakes, target, life, delivered>>
\* Failed, preempted by a USER turn, or cancelled in the queue.
AppraisalFails(u) ==
  /\ appraisal[u].stage \in {"queued", "running"} /\ AppraisalTo(u, "over")
  /\ UNCHANGED <<userStage, intentions, idleTimer, attempt, wakes, target, life, delivered>>

\* _settle_appraisal and _arm_idle: the timer is replaced and a pending attempt dropped.
AppraisalSettles(u) ==
  /\ appraisal[u].stage = "succeeded" /\ AppraisalTo(u, "over")
  /\ IF AttemptCurrent(u) /\ ActiveIntention # {}
       THEN /\ idleTimer' = [wake |-> Len(wakes) + 1, epoch |-> appraisal[u].epoch,
                         intention |-> Head(intentions)]
            /\ attempt' = Absent
       ELSE UNCHANGED <<idleTimer, attempt>>
  /\ UNCHANGED <<userStage, intentions, wakes, target, life, delivered>>

-----------------------------------------------------------------------------
(* The wake. *)

\* _expire_idle up to the submission: the attempt is set before it is admitted.
IdleExpires ==
  /\ idleTimer # Absent /\ idleTimer' = Absent
  /\ IF /\ life = "running" /\ target = "bound" /\ ~UserWork
        /\ idleTimer.epoch = Epoch /\ idleTimer.intention \in ActiveIntention
       THEN /\ Len(wakes) < MaxWakes
            /\ attempt' = [wake |-> Len(wakes) + 1, epoch |-> idleTimer.epoch,
                           intention |-> idleTimer.intention, claimed |-> FALSE]
            /\ wakes' = Append(wakes, [stage |-> "submitting", epoch |-> idleTimer.epoch,
                                       intention |-> idleTimer.intention])
       ELSE UNCHANGED <<attempt, wakes>>
  /\ UNCHANGED <<userStage, appraisal, intentions, target, life, delivered>>

WakeMoves(w, from, to) ==
  /\ wakes[w].stage = from /\ WakeTo(w, to)
  /\ UNCHANGED <<userStage, appraisal, intentions, idleTimer, attempt, target, life, delivered>>

WakeAdmitted(w) == WakeMoves(w, "submitting", "queued")
\* The runtime refuses it, or the timer's task is cancelled as it waits.
WakeNotAdmitted(w) ==
  /\ wakes[w].stage = "submitting" /\ WakeTo(w, "over") /\ attempt' = Absent
  /\ UNCHANGED <<userStage, appraisal, intentions, idleTimer, target, life, delivered>>
WakeThinks(w) == LaneFree /\ ~UserWork /\ WakeMoves(w, "queued", "thinking")
WakeQuiet(w) == WakeMoves(w, "thinking", "quiet")
WakeCancelled(w) == \E s \in {"queued", "thinking", "permitted"} : WakeMoves(w, s, "failed")

\* resolve_speech_context, when the proposal is applied.
WakePermitted(w) ==
  WakeMoves(w, "thinking",
       IF /\ attempt.wake = w /\ target = "bound" /\ ~UserWork /\ life = "running"
          /\ attempt.intention \in ActiveIntention THEN "permitted" ELSE "failed")

-----------------------------------------------------------------------------
(* The send tool, in a worker thread. *)

\* _can_send_locked.
CanSend ==
  /\ attempt # Absent /\ ~attempt.claimed /\ attempt.epoch = Epoch
  /\ life = "running" /\ target = "bound" /\ ~UserWork

\* The tool's availability, and the channel it resolves.
SendAvailable(w) == WakeMoves(w, "permitted", IF CanSend THEN "available" ELSE "failed")

SendClaimsUnchecked(w) ==
  /\ wakes[w].stage = "available" /\ WakeTo(w, "claimed")
  /\ attempt' = (IF attempt = Absent THEN Absent ELSE [attempt EXCEPT !.claimed = TRUE])
  /\ UNCHANGED <<userStage, appraisal, intentions, idleTimer, target, life, delivered>>
\* claim_send: the last word, under the presence's lock.
SendClaims(w) ==
  /\ wakes[w].stage = "available"
  /\ IF CanSend THEN WakeTo(w, "claimed") /\ attempt' = [attempt EXCEPT !.claimed = TRUE]
                ELSE WakeTo(w, "failed") /\ UNCHANGED attempt
  /\ UNCHANGED <<userStage, appraisal, intentions, idleTimer, target, life, delivered>>

\* The event loop sends; cancellation no longer stops it.
SendConfirmed(w) ==
  /\ wakes[w].stage = "claimed" /\ WakeTo(w, "confirmed")
  /\ delivered' = Append(delivered, wakes[w].intention)
  /\ UNCHANGED <<userStage, appraisal, intentions, idleTimer, attempt, target, life>>
SendFails(w) == WakeMoves(w, "claimed", "failed")

\* _settle_idle: an attempt that was dropped meanwhile is nobody's, and marks nothing.
WakeSettles(w) ==
  /\ wakes[w].stage \in {"quiet", "failed", "confirmed"} /\ WakeTo(w, "over")
  /\ IF attempt.wake # w THEN UNCHANGED <<attempt, intentions>>
     ELSE /\ attempt' = Absent
          /\ intentions' = IF wakes[w].stage = "confirmed"
                              /\ attempt.intention \in ActiveIntention
                             THEN Tail(intentions) ELSE intentions
  /\ UNCHANGED <<userStage, appraisal, idleTimer, target, life, delivered>>

-----------------------------------------------------------------------------
(* stop(): the runtime leaves RUNNING, its actor settles every episode, and then the *)
(* presence is stopped.                                                              *)
RuntimeStops ==
  /\ life = "running" /\ life' = "stopping"
  /\ UNCHANGED <<userStage, appraisal, intentions, idleTimer, attempt, wakes, target, delivered>>
PresenceCloses ==
  /\ life = "stopping" /\ LaneFree /\ life' = "closing"
  /\ idleTimer' = Absent /\ attempt' = Absent
  /\ UNCHANGED <<userStage, appraisal, intentions, wakes, target, delivered>>

SpeechNext ==
  \/ \E u \in SubjectTurns :
       \/ UserBegins(u) \/ UserQueued(u) \/ UserRuns(u) \/ UserCompletes(u) \/ UserFails(u)
       \/ AppraisalRuns(u) \/ AppraisalSucceeds(u) \/ AppraisalFails(u) \/ AppraisalSettles(u)
  \/ \E w \in IdleWakes :
       \/ WakeAdmitted(w) \/ WakeNotAdmitted(w) \/ WakeThinks(w) \/ WakeQuiet(w)
       \/ WakeCancelled(w) \/ WakePermitted(w)
       \/ SendAvailable(w) \/ SendClaims(w) \/ SendConfirmed(w) \/ SendFails(w) \/ WakeSettles(w)
  \/ TargetBinds \/ OtherSubject \/ IdleExpires \/ RuntimeStops \/ PresenceCloses

SpeechSpec == SpeechInit /\ [][SpeechNext]_speechVars

-----------------------------------------------------------------------------
(* What the presence promises. *)

\* The tool's worker thread asks and then claims; in between the event loop may begin a
\* USER turn, meet a second subject or stop.  Whatever happens between the two, the send is
\* claimed only for an opportunity that is still undisturbed (proactive.py:385-394, 547-561).
SpeaksOnlyUndisturbed ==
  [][\A w \in IdleWakes :
       (wakes[w].stage # "claimed" /\ wakes'[w].stage = "claimed")
         => /\ wakes[w].epoch = Epoch /\ ~UserWork
            /\ target = "bound" /\ life = "running"]_speechVars

\* "Confirmed external delivery consumes the opportunity" of a commitment that "receives
\* one": no intention is delivered twice
\* (docs/decisions/ADR-024-proactive-v0-r3-deferred-commitment.md:35-38).  A USER turn that
\* begins between the send and its settlement drops the attempt, and the intention stays
\* active (proactive.py:547-561, 786-787).
ConfirmedIsConsumed ==
  \A i, j \in DOMAIN delivered : delivered[i] = delivered[j] => i = j
=============================================================================
