------------------------- MODULE InterventionPolicy -------------------------
(***************************************************************************)
(* The deterministic social-permission policy (intervention.py): an        *)
(* advisory candidate of cognition is resolved against trusted current     *)
(* state by an ordered list of denial rules.  Reason codes are abstracted  *)
(* to the one that decides; a candidate keeps of its own codes only        *)
(* whether one of them supports an interjection and whether it names a     *)
(* high interruption cost.                                                 *)
(***************************************************************************)
EXTENDS Integers, Sequences, SequencesExt

Decisions == {"none", "respond", "interject"}

\* InterventionCandidate: the decision asked for and what its codes say.
Candidates == [decision : Decisions, material : BOOLEAN, costly : BOOLEAN]

FreshnessClasses == {"reactive", "continuity", "internal", "temporal"}
FreshnessRank == [fresh |-> 0, aging |-> 1, stale |-> 2]

\* SocialPermissionContext, the part minted by the owner of the route; the
\* accounting state (recent speech, budget) is added by WithAccounting.
Surroundings ==
  [direct      : BOOLEAN,                               \* USER priority or source
   surface     : {"available", "unavailable"},
   class       : FreshnessClasses,
   age         : DOMAIN FreshnessRank,
   activity    : {"unknown", "current", "not_current"},
   floor       : {"unknown", "free", "busy"},
   handling    : {"unknown", "unresolved", "handled"},
   sensitivity : {"ordinary", "vulnerable"},
   obligation  : BOOLEAN,
   continuity  : BOOLEAN]

\* _DEFAULT_FRESHNESS_PROFILES: only a response to a continuity or temporal
\* event may be one bucket old.
FreshUntil(class, decision) ==
  IF decision = "respond" /\ class \in {"continuity", "temporal"} THEN "aging" ELSE "fresh"

FreshnessAllows(class, decision, age) ==
  /\ age # "stale"
  /\ decision = "none" \/ FreshnessRank[age] <= FreshnessRank[FreshUntil(class, decision)]

\* The denial rules in the order of evaluate(): <<when, reason>>.
Rules(c, x, recent, budget) ==
  << <<x.surface = "unavailable",                                  "no_speaking_surface">>,
     <<x.floor = "busy",                                           "floor_busy">>,
     <<x.activity # "current",                                     "stale_context">>,
     <<~FreshnessAllows(x.class, c.decision, x.age),               "stale_context">>,
     <<budget = 0,                                                 "budget_exhausted">>,
     <<c.decision = "respond" /\ ~(x.obligation \/ x.continuity),  "no_obligation">>,
     <<c.decision = "interject" /\ x.handling = "handled",         "already_handled">>,
     <<c.decision = "interject" /\ x.handling # "unresolved",      "stale_context">>,
     <<c.decision = "interject" /\ x.sensitivity = "vulnerable",   "vulnerability">>,
     <<c.decision = "interject" /\ recent,                         "social_backoff">>,
     <<c.decision = "interject" /\ (~c.material \/ c.costly),      "interruption_cost">> >>

\* DeterministicInterventionPolicy.evaluate: the decision granted and the
\* reason of the first rule that denies it.  Direct USER work is refused with
\* an exception, which every caller treats as a denial.
Evaluate(c, x, recent, budget) ==
  LET denials == SelectSeq(Rules(c, x, recent, budget), LAMBDA r : r[1])
  IN IF x.direct THEN [decision |-> "none", reason |-> "excluded"]
     ELSE IF denials # << >> THEN [decision |-> "none", reason |-> Head(denials)[2]]
     ELSE [decision |-> c.decision, reason |-> "allowed"]

Permitted(c, x, recent, budget) == Evaluate(c, x, recent, budget).decision # "none"

\* SpeechAccounting.record_confirmed_speech: only an interjection spends budget.
BudgetAfter(budget, decision) ==
  IF decision = "interject" /\ budget > 0 THEN budget - 1 ELSE budget
=============================================================================
