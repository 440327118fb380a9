---------------------------- MODULE MCComponents ----------------------------
(***************************************************************************)
(* The safety of components whose models share no state, checked in one    *)
(* run: a behaviour is one of exactly one of them, chosen in the initial   *)
(* state.                                                                  *)
(***************************************************************************)
EXTENDS MCProposalApplication, ModelRuntime, ToolTurns, TemporalHost,
        ObservationIngress, AwarenessNotes, ConversationStore, ProactiveSpeech

\* One generation of two rounds and one that the provider just answers.
LongTurn == CHOOSE g \in Turns : TRUE
MCMaxRounds == [g \in Turns |-> IF g = LongTurn THEN 2 ELSE 0]

\* The direct messages, in the order of their first arrivals.
CONSTANTS post1, post2, post3
MCArrivals == <<post1, post2, post3>>

VARIABLE component

runtimesVars == <<runtimeVars, turnVars>>
thoughtVars == <<appVars, scheduleVars>>
contactVars == <<ingressVars, noteVars>>
sayingVars == <<storeVars, speechVars>>

ComponentsInit ==
  /\ component \in {"application", "model", "tools", "wakes", "ingress", "notes", "store", "speech"}
  /\ AppInit /\ RuntimeInit /\ TurnInit /\ HostInit /\ IngressInit /\ NoteInit
  /\ StoreInit /\ SpeechInit

\* What this instance leaves out.  Direct messages are alike, so one order of their first
\* arrivals stands for all; the ambient event arrives first or not at all.
FirstArrivalsInOrder ==
  arrivals' # arrivals =>
    LET e == Last(arrivals') IN
    \/ e \in AmbientEvents /\ arrivals = <<>>
    \/ \E i \in DOMAIN MCArrivals :
         e = MCArrivals[i] /\ \A j \in 1..(i - 1) : InSeq(MCArrivals[j], arrivals)

\* Episodes are alike, so one order of their starts stands for both; the actor asks at most
\* one of them to cancel.
StartInOrder == phase'[e2] # "waiting" => phase'[e1] # "waiting"
OneCancelled == \A d, e \in Episodes : token'[d] /\ token'[e] => d = e
\* The calls of a batch matter to its own episode, which is then the only one.
BatchAlone == \A e \in Episodes : outcome'[e] = MCBatch => e = e1 /\ phase'[e2] = "waiting"

RuntimesNext ==
  /\ \/ component = "model" /\ RuntimeNext /\ UNCHANGED turnVars
     \/ component = "tools" /\ TurnNext /\ UNCHANGED runtimeVars
  /\ UNCHANGED <<thoughtVars, contactVars, sayingVars>>
MindNext ==
  /\ \/ component = "application" /\ AppNext /\ StartInOrder /\ OneCancelled /\ BatchAlone
        /\ UNCHANGED scheduleVars
     \/ component = "wakes" /\ HostNext /\ UNCHANGED appVars
  /\ UNCHANGED <<runtimesVars, contactVars, sayingVars>>
ContactNext ==
  /\ \/ component = "ingress" /\ IngressNext /\ FirstArrivalsInOrder /\ UNCHANGED noteVars
     \/ component = "notes" /\ NoteNext /\ UNCHANGED ingressVars
  /\ UNCHANGED <<runtimesVars, thoughtVars, sayingVars>>
SayingNext ==
  /\ \/ component = "store" /\ StoreNext /\ UNCHANGED speechVars
     \/ component = "speech" /\ SpeechNext /\ UNCHANGED storeVars
  /\ UNCHANGED <<runtimesVars, thoughtVars, contactVars>>

ComponentsNext == UNCHANGED component /\ (RuntimesNext \/ MindNext \/ ContactNext \/ SayingNext)

ComponentsSpec ==
  ComponentsInit
  /\ [][ComponentsNext]_<<component, runtimesVars, thoughtVars, contactVars, sayingVars>>
=============================================================================
