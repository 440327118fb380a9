----------------------------- MODULE MCCharacter -----------------------------
(***************************************************************************)
(* The admission actor and the components around it: presence, the reply   *)
(* presenter and the cognition engine.  Their models share no state; a     *)
(* behaviour is one of exactly one of them, chosen in the initial state,   *)
(* under that component's own fairness.                                    *)
(***************************************************************************)
EXTENDS SemanticActor, Presence, ReplyPresenter, CognitionEngine

VARIABLE chosen  \* the component

CharacterInit ==
  /\ chosen \in {"actor", "presence", "reply", "engine"}
  /\ Init /\ PresenceInit /\ PresenterInit /\ EngineInit
  /\ chosen # "reply" => ~semantic

CharacterNext ==
  /\ UNCHANGED chosen
  /\ \/ /\ chosen = "actor" /\ Next
        /\ UNCHANGED <<presenceVars, presenterVars, engineVars>>
     \/ /\ chosen = "presence" /\ PresenceNext
        /\ UNCHANGED <<vars, presenterVars, engineVars>>
     \/ /\ chosen = "reply" /\ PresenterNext
        /\ UNCHANGED <<vars, presenceVars, engineVars>>
     \/ /\ chosen = "engine" /\ EngineNext
        /\ UNCHANGED <<vars, presenceVars, presenterVars>>

\* The steps that the fairness of each component promises.  One condition on all of them
\* asks for less than one condition on each, and is enough.
ActorProgress == WorkerStep \/ Tick \/ \E s \in Stoppers : StopStep(s)
PresenceProgress ==
  LoopStep \/ StopStepP \/ (\E u \in UserTurns : TurnStep(u)) \/ \E i \in internal : InternalSettles(i)
ReplyProgress == PumpStep \/ IntervalPasses \/ ReplyEnds \/ (pump = "failed" /\ Aborts)
CharacterFairness ==
  /\ WF_vars(chosen = "actor" /\ ActorProgress)
  /\ WF_presenceVars(chosen = "presence" /\ PresenceProgress)
  /\ WF_presenterVars(chosen = "reply" /\ ReplyProgress)

CharacterSpec ==
  /\ CharacterInit
  /\ [][CharacterNext]_<<chosen, vars, presenceVars, presenterVars, engineVars>>
  /\ CharacterFairness

-----------------------------------------------------------------------------

\* Whoever asks the actor or the presence to stop gets an answer, whatever runs, waits or
\* refuses in them (semantic_actor.py:548, presence.py:918).
StopsReturn == StopReturns /\ PresenceStopEnds
=============================================================================
