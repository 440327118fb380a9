----------------------- MODULE MCProposalApplication -----------------------
EXTENDS ProposalApplication
CONSTANTS e1, e2

Interjection == [decision |-> "interject", material |-> TRUE, costly |-> FALSE]

\* A wake with a silence, an ambient interjection after a state change, and two
\* sends around a silence.
MCBatch == [state |-> 0, temporal |-> FALSE, actions |-> <<"speak", "stay_silent", "speak">>,
            ambient |-> None]
MCOutcomes ==
  {[state |-> 0, temporal |-> TRUE, actions |-> <<"stay_silent">>, ambient |-> None],
   [state |-> 1, temporal |-> FALSE, actions |-> <<"speak">>, ambient |-> Interjection],
   MCBatch}

Open == [direct |-> FALSE, surface |-> "available", class |-> "internal", age |-> "fresh",
         activity |-> "current", floor |-> "free", handling |-> "unresolved",
         sensitivity |-> "ordinary", obligation |-> TRUE, continuity |-> TRUE]
MCContexts == {Open}
=============================================================================
