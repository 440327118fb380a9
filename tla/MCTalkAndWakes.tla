--------------------------- MODULE MCTalkAndWakes ---------------------------
(***************************************************************************)
(* ConversationCore, and the temporal host with its coordinator, which     *)
(* share no state, checked in one run: a behaviour is one of exactly one   *)
(* of them, chosen in the initial state, under that component's fairness.  *)
(***************************************************************************)
EXTENDS ConversationCore, TemporalHost

VARIABLE subject  \* the component

TalkAndWakesInit == subject \in {"talk", "wakes"} /\ TalkInit /\ HostInit

TalkAndWakesNext ==
  \/ subject = "talk" /\ TalkNext /\ UNCHANGED <<subject, scheduleVars>>
  \/ subject = "wakes" /\ HostNext /\ UNCHANGED <<subject, talkVars>>

\* The steps that the fairness of each component promises.  One condition on all of them
\* asks for less than one condition on each, and is enough.
TalkProgress ==
  \/ \E r \in Runs :
       \/ WorkerStep(r) \/ RunSettled(r) \/ RequestCancel("superseder", r)
       \/ \E who \in Cancellers : CancelStep(who, r)
  \/ CancellationEnds /\ UNCHANGED <<turn, cancel, run, ends>>
HostProgress ==
  ListenerCalled \/ CallbackRuns \/ WorkerRuns \/ Tick \/ \E s \in Stoppers : StopStep(s)
TalkAndWakesFairness ==
  /\ WF_talkVars(subject = "talk" /\ TalkProgress)
  /\ WF_scheduleVars(subject = "wakes" /\ HostProgress)

TalkAndWakesSpec ==
  /\ TalkAndWakesInit /\ [][TalkAndWakesNext]_<<subject, talkVars, scheduleVars>>
  /\ TalkAndWakesFairness

-----------------------------------------------------------------------------

\* A run is never left hanging: a cancelled one settles, whenever the request came, and one that
\* superseded another is not stuck behind it (conversation.py:548-640).
RunsProceed == CancelledRunSettles /\ SuccessorProceeds
=============================================================================
