--------------------------- MODULE CognitionEngine --------------------------
(***************************************************************************)
(* What a model may think (cognition_model.py).  LocalCognitionEngine.run  *)
(* turns one opportunity into one inert candidate: it asks for a           *)
(* generation, or leaves the opportunity alone, and reads the answer by    *)
(* the contract of the lane the opportunity belongs to.  It leaves bounded *)
(* evidence of what it did.  DispositionPlanner plans how a user turn is   *)
(* answered, with the same collection of a generation.                     *)
(*                                                                         *)
(* A message, an observation and a prompt section are their sizes, with    *)
(* what separates them; no single message exceeds the context, as the      *)
(* store refuses larger ones.  A reply is what the parser asks of it: an   *)
(* answer that is too long, not JSON, or no object with the expected keys  *)
(* has no usable field.  The calls come one at a time, under the runner's  *)
(* lock, on the actor.                                                     *)
(***************************************************************************)
EXTENDS Naturals, SequencesExt

CONSTANTS
  MaxThoughts,       \* bound: calls
  Sizes,             \* the sizes of messages and observations
  MaxGiven,          \* bound: messages or observations handed to one call
  MaxContext,        \* MAX_CONTEXT_BYTES
  MaxObservation,    \* MAX_AMBIENT_OBSERVATION_TEXT_BYTES
  AppraisalWindow,   \* MAX_APPRAISAL_CONTEXT_MESSAGES
  PlannerWindow,     \* MAX_DISPOSITION_CONTEXT_MESSAGES
  MaxProposals,      \* MAX_COGNITION_PROPOSALS
  CognitionCapacity, \* COGNITION_EVIDENCE_CAPACITY
  AmbientCapacity    \* AMBIENT_EVIDENCE_CAPACITY

ASSUME EngineAssumption ==
  /\ Sizes \subseteq 1..MaxContext
  /\ {MaxGiven, MaxContext, MaxObservation, AppraisalWindow, PlannerWindow, MaxProposals,
      CognitionCapacity, AmbientCapacity} \subseteq Nat \ {0}

VARIABLES
  thoughts,          \* the calls so far; the last one may be under way
  asked,             \* what the call under way was given, and what it sent to the model
  cognitionEvidence, \* _cognition_evidence
  ambientEvidence    \* _ambient_evidence

engineVars == <<thoughts, asked, cognitionEvidence, ambientEvidence>>

\* The opportunities that exist.  A direct message is an external observation of that kind; a
\* history is known while the appraisal's record is kept; the intention is the one an idle
\* opportunity names, looked up in the snapshot of the mind.
Intentions == {"initiative", "deferred_commitment"}
Opportunity ==
  [source : {"external", "temporal", "internal", "user"},
   reason : {"appraisal", "idle", "other"}, direct : BOOLEAN, known : BOOLEAN,
   intention : Intentions \cup {"none"}]
Plain(source, reason) ==
  [source |-> source, reason |-> reason, direct |-> FALSE, known |-> TRUE, intention |-> "none"]
Opportunities ==
  {Plain("temporal", reason) : reason \in {"appraisal", "idle", "other"}}
  \cup
  {Plain("external", "other"), Plain("internal", "other"), Plain("internal", "appraisal"),
   Plain("user", "other"),
   [Plain("external", "other") EXCEPT !.direct = TRUE],
   [Plain("internal", "appraisal") EXCEPT !.known = FALSE]}
  \cup {[Plain("internal", "idle") EXCEPT !.intention = i] : i \in Intentions \cup {"none"}}
\* is_proactive_reason: a wake has the reason that the model gave it, which may be one of these.
Proactive(o) == o.reason \in {"appraisal", "idle"}

Quiet == [intentions |-> <<>>, actions |-> <<>>, wakes |-> 0, intervention |-> "unset",
          disposed |-> FALSE]
Over == {"returned", "failed", "cancelled", "uncontained"}
Resting == \A n \in DOMAIN thoughts : thoughts[n].status \in Over
NotAsked == [given |-> <<>>, sent |-> <<>>]

EngineTypeOK ==
  /\ Len(thoughts) <= MaxThoughts
  /\ \A n \in DOMAIN thoughts :
       /\ thoughts[n].opportunity \in Opportunity
       /\ thoughts[n].status \in Over \cup {"generating", "joining"}
       /\ thoughts[n].candidate.intentions \in Seq(Intentions)
       /\ thoughts[n].candidate.actions \in Seq({"speak", "stay_silent"})
       /\ thoughts[n].candidate.wakes \in 0..MaxProposals
  /\ asked.given \in Seq(0..MaxContext) /\ asked.sent \in Seq(1..MaxContext)
  /\ Len(cognitionEvidence) <= CognitionCapacity /\ Len(ambientEvidence) <= AmbientCapacity

EngineInit ==
  /\ thoughts = <<>> /\ asked = NotAsked
  /\ cognitionEvidence = <<>> /\ ambientEvidence = <<>>

------------------------------------------------------------------------------
\* What is sent.

\* The sum, from the newest to the oldest.
Total(sizes) ==
  LET sum[n \in 0..Len(sizes)] ==
        IF n = 0 THEN 0 ELSE sum[n - 1] + sizes[Len(sizes) - n + 1]
  IN sum[Len(sizes)]
LastOnes(sizes, n) == SubSeq(sizes, Len(sizes) - n + 1, Len(sizes))
Window(sizes, n) == IF Len(sizes) > n THEN LastOnes(sizes, n) ELSE sizes

\* A likely mistake: the newest message goes.
FitsOldest(messages) ==
  LET kept[n \in 0..Len(messages)] ==
        IF n <= 1 \/ Total(SubSeq(messages, 1, n)) <= MaxContext THEN n ELSE kept[n - 1]
  IN SubSeq(messages, 1, kept[Len(messages)])

\* _fit_disposition_context: the oldest message goes while the rest is too large.
FitContext(messages) ==
  LET kept[n \in 0..Len(messages)] ==
        IF n <= 1 \/ Total(LastOnes(messages, n)) <= MaxContext THEN n ELSE kept[n - 1]
  IN LastOnes(messages, kept[Len(messages)])

\* _fit_ambient_prompt: the header, then as many of the newest sections as fit.
Header == 1
FitPrompt(sections) ==
  LET added[n \in 0..Len(sections)] ==
        IF n = Len(sections) \/ Header + Total(LastOnes(sections, n + 1)) > MaxContext
        THEN n ELSE added[n + 1]
  IN <<Header>> \o LastOnes(sections, added[0])

\* One section for each observation with text, a notice for one that is too long, and a line
\* of its own when no observation has any.
Notice == 1
Rendered(observations) ==
  LET rendered[n \in 0..Len(observations)] ==
        IF n = 0 THEN <<>>
        ELSE IF observations[n] = 0 THEN rendered[n - 1]
        ELSE Append(rendered[n - 1],
                    IF observations[n] > MaxObservation THEN Notice ELSE observations[n])
      sections == rendered[Len(observations)]
  IN IF sections = <<>> THEN <<Notice>> ELSE sections

\* build_request: the canonical tail, which ends in the current message.
PlannerMessages(history) == FitContext(Window(history, PlannerWindow))

\* _appraisal_request: the newest of the history, or a prompt of its own when there is none.
AppraisalMessages(history) == FitContext(Window(history, AppraisalWindow))

\* _temporal_request, and the request about an idle intention: one prompt.
OwnPrompt == <<Header>>

Sent(o, given) ==
  IF o.source = "external" THEN FitPrompt(Rendered(given))
  ELSE IF o.source = "user" THEN PlannerMessages(given)
  ELSE IF o.source = "internal" /\ o.reason = "appraisal" THEN AppraisalMessages(given)
  ELSE OwnPrompt

\* What comes with an opportunity: observations, some without text, or messages.
Given(o) ==
  IF o.source = "external" THEN BoundedSeq(Sizes \cup {0}, MaxGiven) \ {<<>>}
  ELSE IF o.source = "user" THEN BoundedSeq(Sizes, MaxGiven) \ {<<>>}
  ELSE IF o.source = "internal" /\ o.reason = "appraisal" THEN BoundedSeq(Sizes, MaxGiven)
  ELSE {<<>>}

------------------------------------------------------------------------------
\* What a reply means.  A list that does not validate counts as one too long.

ReplyTexts == {"absent", "blank", "short", "long"}  \* long: more than an intention may have
Says == {"short", "long"}
ActionReplies ==
  {r \in [keys : {{"action"}, {"action", "text"}, {"action", "kind", "text"}, {"action", "more"}},
          action : {"no_change", "create_intention", "fulfill", "stay_silent", "speak", "other"},
          text : ReplyTexts, kind : Intentions \cup {"unknown"}] :
     /\ "text" \notin r.keys => r.text = "absent"
     /\ "kind" \notin r.keys => r.kind = "unknown"}
AmbientReplies ==
  [intervention : {"none", "respond", "interject", "other"}, reasons : BOOLEAN,
   disposition : {"null", "valid", "invalid"}, utterance : {"null", "blank", "said"},
   states : 0..(MaxProposals + 1), wakes : 0..(MaxProposals + 1)]
PlanReplies == [fields : BOOLEAN, reasons : BOOLEAN]

Result(candidate, outcome) == [candidate |-> candidate, outcome |-> outcome]
Invalid == Result(Quiet, "invalid")
Acts(action, outcome) == Result([Quiet EXCEPT !.actions = <<action>>], outcome)

\* _parse_candidate_with_outcome, per contract.
ParseAppraisal(r) ==
  IF r.action = "no_change" /\ r.keys = {"action"} THEN Result(Quiet, "no_change")
  ELSE IF r.action = "create_intention" /\ r.text = "short" /\ r.keys = {"action", "text"}
    THEN Result([Quiet EXCEPT !.intentions = <<"initiative">>], "create_intention")
  ELSE IF /\ r.action = "create_intention" /\ r.text = "short"
          /\ r.keys = {"action", "kind", "text"} /\ r.kind \in Intentions
    THEN Result([Quiet EXCEPT !.intentions = <<r.kind>>], "create_intention")
  ELSE Invalid

Utters(r, action) == r.action = action /\ r.keys = {"action", "text"} /\ r.text \in Says
ParseCommitment(r) == IF Utters(r, "fulfill") THEN Acts("speak", "fulfill") ELSE Invalid
ParseInitiative(r) ==
  IF r.action = "stay_silent" /\ r.keys = {"action"} THEN Acts("stay_silent", "stay_silent")
  ELSE IF Utters(r, "speak") THEN Acts("speak", "speak")
  ELSE Invalid
\* A likely mistake: the contract of the intention is not told apart.
ParseIdleAlike(o, r) == IF o.reason = "appraisal" THEN ParseAppraisal(r) ELSE ParseInitiative(r)
Parse(o, r) ==
  IF o.reason = "appraisal" THEN ParseAppraisal(r)
  ELSE IF o.intention = "deferred_commitment" THEN ParseCommitment(r) ELSE ParseInitiative(r)

\* AmbientInterventionCandidate and its metadata: silence has nothing to say and no way to say
\* it, speech has both.
Whole(r) ==
  IF r.intervention = "none" THEN r.disposition = "null" /\ r.utterance = "null"
                             ELSE r.disposition = "valid" /\ r.utterance = "said"

\* parse_ambient_intervention_candidate.
ValidIntervention(r) ==
  /\ r.intervention # "other" /\ r.reasons /\ r.disposition # "invalid" /\ r.utterance # "blank"
  /\ r.states <= MaxProposals /\ r.wakes <= MaxProposals
  /\ Whole(r)

\* to_cognition_candidate: a state proposal of this lane is an initiative.
Compiled(r) ==
  IF ~ValidIntervention(r) THEN Quiet
  ELSE [intentions |-> [n \in 1..r.states |-> "initiative"],
        actions |-> IF r.utterance = "said" THEN <<"speak">> ELSE <<>>,
        wakes |-> r.wakes, intervention |-> r.intervention, disposed |-> r.disposition = "valid"]

\* parse_disposition_candidate.
Planned(r) == [Quiet EXCEPT !.disposed = r.fields /\ r.reasons]

------------------------------------------------------------------------------
\* The call.

LeftAlone(o) ==
  \/ o.source = "external" /\ o.direct
  \/ /\ o.source = "internal"
     /\ \/ o.reason = "appraisal" /\ ~o.known
        \/ o.reason = "idle" /\ o.intention = "none"
        \/ o.reason = "other"

Thought(o, status) == [opportunity |-> o, status |-> status, candidate |-> Quiet]
Current == thoughts[Len(thoughts)]

LeavesAlone(o) ==
  /\ Resting /\ Len(thoughts) < MaxThoughts /\ LeftAlone(o)
  /\ thoughts' = Append(thoughts, Thought(o, "returned"))
  /\ UNCHANGED <<asked, cognitionEvidence, ambientEvidence>>

Asks(o, given) ==
  /\ Resting /\ Len(thoughts) < MaxThoughts /\ ~LeftAlone(o)
  /\ thoughts' = Append(thoughts, Thought(o, "generating"))
  /\ asked' = [given |-> given, sent |-> Sent(o, given)]
  /\ UNCHANGED <<cognitionEvidence, ambientEvidence>>

\* deque(maxlen = capacity).append
Keep(log, capacity, record) == Append(IF Len(log) = capacity THEN Tail(log) ELSE log, record)

Recorded(log, stage, result) ==
  Keep(log, CognitionCapacity,
       [thought |-> Len(thoughts), reason |-> Current.opportunity.reason, stage |-> stage,
        result |-> result])

Ends(status, candidate) ==
  /\ thoughts' = [thoughts EXCEPT ![Len(thoughts)].status = status,
                                  ![Len(thoughts)].candidate = candidate]
  /\ asked' = NotAsked

Answers(r) ==
  /\ ~Resting /\ Current.status = "generating" /\ Current.opportunity.source = "internal"
  /\ LET parsed == Parse(Current.opportunity, r)
     IN /\ Ends("returned", parsed.candidate)
        /\ cognitionEvidence' = Recorded(Recorded(cognitionEvidence, "generation_completed", "none"),
                                         "parse", parsed.outcome)
  /\ UNCHANGED ambientEvidence

\* An ambient thought leaves evidence of its own; a temporal one leaves some only when its reason
\* is a proactive one.
Intervenes(r) ==
  /\ ~Resting /\ Current.status = "generating"
  /\ Current.opportunity.source \in {"external", "temporal"}
  /\ Ends("returned", Compiled(r))
  /\ ambientEvidence' =
       IF Current.opportunity.source = "temporal" THEN ambientEvidence
       ELSE Keep(ambientEvidence, AmbientCapacity,
                 [thought |-> Len(thoughts), intervention |-> Compiled(r).intervention,
                  valid |-> ValidIntervention(r),
                  speaks |-> Compiled(r).intervention \in {"respond", "interject"}])
  /\ cognitionEvidence' =
       IF Proactive(Current.opportunity)
       THEN Recorded(cognitionEvidence, "generation_completed", "none") ELSE cognitionEvidence

Plans(r) ==
  /\ ~Resting /\ Current.status = "generating" /\ Current.opportunity.source = "user"
  /\ Ends("returned", Planned(r))
  /\ UNCHANGED <<cognitionEvidence, ambientEvidence>>

\* The task is cancelled: the generation is cancelled and joined.
TaskCancelled ==
  /\ ~Resting /\ Current.status = "generating"
  /\ thoughts' = [thoughts EXCEPT ![Len(thoughts)].status = "joining"]
  /\ UNCHANGED <<asked, cognitionEvidence, ambientEvidence>>

\* A likely mistake: CancelledError is no Exception, and goes unrecorded.
ToldUnlessCancelled(status) ==
  IF ~Proactive(Current.opportunity) \/ status = "cancelled" THEN cognitionEvidence
  ELSE Recorded(cognitionEvidence, "generation_failed",
                IF status = "failed" THEN "provider_or_runtime" ELSE status)
\* What a proactive thought leaves when it raises.
ToldOf(status) ==
  IF ~Proactive(Current.opportunity) THEN cognitionEvidence
  ELSE Recorded(cognitionEvidence, "generation_failed",
                IF status = "failed" THEN "provider_or_runtime" ELSE status)

\* The call raises: the generation failed, or says it was cancelled; it was joined after a
\* cancellation, or a second one ended the join; writing the cancellation broke the pipe; or
\* the join took too long.
Raises(status) ==
  /\ ~Resting
  /\ Current.status = "generating" => status # "uncontained"
  /\ Ends(status, Quiet)
  /\ cognitionEvidence' = ToldOf(status)
  /\ UNCHANGED ambientEvidence

EngineNext ==
  \/ \E o \in Opportunities :
       LeavesAlone(o) \/ \E given \in Given(o) : Asks(o, given)
  \/ \E r \in ActionReplies : Answers(r)
  \/ \E r \in AmbientReplies : Intervenes(r)
  \/ \E r \in PlanReplies : Plans(r)
  \/ TaskCancelled
  \/ \E status \in Over \ {"returned"} : Raises(status)

EngineSpec == EngineInit /\ [][EngineNext]_engineVars

------------------------------------------------------------------------------
\* What a lane lets a model decide.  A direct message is never thought about here, and neither
\* is an intention that is gone.  An appraisal may remember one intention and do nothing else; an idle
\* opportunity may speak or not, but a commitment may not be passed over; ambient and temporal
\* thought cannot make a commitment, and speak exactly when they decide to intervene and say how;
\* a planner decides how and nothing else.  A call that did not return decides nothing.
Speaks(c) == \E n \in DOMAIN c.actions : c.actions[n] = "speak"
InLane(o, c) ==
  IF o.source \in {"external", "temporal"} THEN
    /\ o.direct => c = Quiet
    /\ \A n \in DOMAIN c.intentions : c.intentions[n] = "initiative"
    /\ Len(c.intentions) <= MaxProposals /\ c.wakes <= MaxProposals
    /\ Speaks(c) <=> c.intervention \in {"respond", "interject"}
    /\ Speaks(c) <=> c.disposed
  ELSE IF o.source = "user" THEN c = [Quiet EXCEPT !.disposed = c.disposed]
  ELSE IF o.reason = "appraisal" THEN
    c = [Quiet EXCEPT !.intentions = c.intentions] /\ Len(c.intentions) <= 1
  ELSE IF o.reason = "idle" THEN
    /\ c = [Quiet EXCEPT !.actions = c.actions] /\ Len(c.actions) <= 1
    /\ o.intention = "none" => c = Quiet
    /\ o.intention = "deferred_commitment" => c.actions \in {<<>>, <<"speak">>}
  ELSE c = Quiet
ThoughtsKeepTheirLane ==
  \A n \in DOMAIN thoughts :
    IF thoughts[n].status = "returned" THEN InLane(thoughts[n].opportunity, thoughts[n].candidate)
                                       ELSE thoughts[n].candidate = Quiet

\* The evidence can be trusted after the fact: every record tells what became of its thought,
\* the records are in the order of the thoughts, and a proactive thought that ended has its
\* record unless the buffer has been full since.
Outcomes(t) ==
  IF t.candidate.intentions # <<>> THEN {"create_intention"}
  ELSE IF t.candidate.actions = <<"stay_silent">> THEN {"stay_silent"}
  ELSE IF t.candidate.actions = <<"speak">>
    THEN {IF t.opportunity.intention = "deferred_commitment" THEN "fulfill" ELSE "speak"}
  ELSE IF t.opportunity.reason = "appraisal" THEN {"no_change", "invalid"} ELSE {"invalid"}
Tells(e, t) ==
  /\ Proactive(t.opportunity) /\ e.reason = t.opportunity.reason /\ ~LeftAlone(t.opportunity)
  /\ IF e.stage = "generation_failed"
     THEN e.result = (IF t.status = "failed" THEN "provider_or_runtime" ELSE t.status)
     ELSE /\ t.status = "returned"
          /\ e.stage = "parse" => t.opportunity.source = "internal" /\ e.result \in Outcomes(t)
\* Its last record.
Closes(e, t) ==
  IF t.opportunity.source = "internal" THEN e.stage # "generation_completed" ELSE e.stage # "parse"
EvidenceTellsTheThought ==
  /\ \A j \in DOMAIN cognitionEvidence :
       /\ cognitionEvidence[j].thought \in DOMAIN thoughts
       /\ Tells(cognitionEvidence[j], thoughts[cognitionEvidence[j].thought])
  /\ \A j, k \in DOMAIN cognitionEvidence :
       j < k => \/ cognitionEvidence[j].thought < cognitionEvidence[k].thought
                \/ /\ cognitionEvidence[j].thought = cognitionEvidence[k].thought
                   /\ cognitionEvidence[j].stage = "generation_completed"
                   /\ cognitionEvidence[k].stage = "parse"
  /\ \A n \in DOMAIN thoughts :
       /\ Proactive(thoughts[n].opportunity) /\ ~LeftAlone(thoughts[n].opportunity)
       /\ thoughts[n].status \in Over /\ Len(cognitionEvidence) < CognitionCapacity
       => \E j \in DOMAIN cognitionEvidence :
            cognitionEvidence[j].thought = n /\ Closes(cognitionEvidence[j], thoughts[n])
  /\ \A j \in DOMAIN ambientEvidence :
       LET e == ambientEvidence[j]
       IN /\ e.thought \in DOMAIN thoughts /\ thoughts[e.thought].opportunity.source = "external"
          /\ thoughts[e.thought].candidate.intervention = e.intervention
          /\ e.speaks <=> Speaks(thoughts[e.thought].candidate)
          /\ ~e.valid => thoughts[e.thought].candidate = Quiet

\* What the model reads fits the wire and is the newest that fits: of the messages in the window
\* the longest run up to the newest, of the observations as many of the newest as the header
\* leaves room for.  The message a planner is asked about is always there.
LongestSuffix(sent, of, room) ==
  /\ Total(sent) <= room /\ Len(sent) <= Len(of) /\ sent = LastOnes(of, Len(sent))
  /\ \A n \in (Len(sent) + 1)..Len(of) : Total(LastOnes(of, n)) > room
RequestsAreTheNewest ==
  ~Resting =>
    LET o == Current.opportunity
    IN IF o.source = "external"
       THEN /\ Head(asked.sent) = Header
            /\ LongestSuffix(Tail(asked.sent), Rendered(asked.given), MaxContext - Header)
       ELSE IF o.source = "user" \/ (o.source = "internal" /\ o.reason = "appraisal")
       THEN /\ LongestSuffix(asked.sent,
                 Window(asked.given, IF o.source = "user" THEN PlannerWindow ELSE AppraisalWindow),
                 MaxContext)
            /\ o.source = "user" => asked.sent # <<>> /\ Last(asked.sent) = Last(asked.given)
       ELSE asked.sent = OwnPrompt
=============================================================================
