------------------------ MODULE ProposalApplication ------------------------
(***************************************************************************)
(* From a cognition episode to its effects: the effect-free episode runner *)
(* (cognition_episode.py), the adapter that runs it and then the trusted   *)
(* application under cancellation (mind_convergence.py), the application   *)
(* coordinator with its permits and replay window                          *)
(* (proposal_application.py) and the bounded MindState it writes (mind.py).*)
(*                                                                         *)
(* The adapter lives on the event loop; every application runs in a thread *)
(* of its own under the coordinator's lock, which is also the lock that    *)
(* binding an outcome takes.  Proposals are abstracted to their number and *)
(* kind, tools and the temporal coordinator to the outcome of their call.  *)
(***************************************************************************)
EXTENDS InterventionPolicy, FiniteSets

CONSTANTS Episodes, None,
          FenceCapacity,       \* fence_capacity
          IntentionCapacity,   \* MindState intentions_capacity
          Budget,              \* SpeechAccounting intervention_budget
          CognitionOutcomes,           \* the outcomes cognition may produce
          Contexts,            \* the surroundings a resolver may return
          Modes,               \* ambient speech roll-out modes
          Routed,              \* action kinds that compile to a tool call
          Replayers,           \* holders that submit a released outcome again
          MaxMindWrites        \* bound on direct writes to the MindState

\* An outcome: state proposals, whether there is a temporal one, the action
\* kinds in order and the ambient candidate (None for a legacy outcome).
OutcomeShape(o) ==
  /\ o.state \in Nat /\ o.temporal \in BOOLEAN
  /\ \A i \in DOMAIN o.actions : o.actions[i] \in {"speak", "stay_silent"}
  /\ o.ambient = None \/ o.ambient \in Candidates
  /\ o.ambient # None =>
       Len(SelectSeq(o.actions, LAMBDA a : a = "speak"))
         = IF o.ambient.decision = "none" THEN 0 ELSE 1

ASSUME ApplicationAssumption ==
  /\ FenceCapacity \in Nat \ {0} /\ IntentionCapacity \in Nat \ {0} /\ Budget \in Nat
  /\ MaxMindWrites \in Nat
  /\ \A o \in CognitionOutcomes : OutcomeShape(o)
  /\ Modes \subseteq {"off", "shadow", "live"} /\ Routed \subseteq {"speak", "stay_silent"}
  /\ Contexts \subseteq Surroundings

VARIABLES
  mind,       \* MindState: [version, intentions], a sequence of statuses
  writes,     \* direct writes made to it so far (bound only)
  ledger,     \* the coordinator: [epoch, issued, retired]
  permit,     \* the outcome's permit: [epoch, seq] or None
  fence,      \* _fences of the current epoch: recorded status or None
  lock,       \* the thread that holds the coordinator's lock, or None
  job,        \* progress of the application that holds the lock, or None
  speech,     \* [mode, recent, budget]: roll-out and SpeechAccounting
  loose,      \* episodes whose model generation did not stop when told to
  based,      \* version of the snapshot an episode was built on
  outcome,    \* what the engine produced, or None
  phase,      \* where MindExecutionAdapter.execute is
  verdict,    \* the status and reason execute returned
  token,      \* cancellation token requested
  kills,      \* how often the actor cancelled the execute task (at most 1)
  thread,     \* application threads: [episode, caller] -> stage
  report,     \* per outcome the application result that was recorded
  stray,      \* calls whose executor was abandoned still running
  began,      \* history: outcomes whose effects have begun
  done        \* history: per outcome its effects [state, temporal, sent]

mindVars  == <<mind, writes>>
coordVars == <<ledger, permit, fence>>
adaptVars == <<loose, based, outcome, phase, verdict, token, kills>>
lockVars  == <<lock, job, report>>
histVars  == <<stray, began, done>>
appVars   == <<mindVars, coordVars, lockVars, speech, adaptVars, thread, histVars>>

Callers == {"adapter"} \cup Replayers
Threads == Episodes \X Callers

Stages == {"prepare", "state", "temporal", "guard", "call"}
Statuses == {"applied", "partial", "rejected", "stale", "failed", "duplicate", "no_proposals"}
Permits == [epoch : Nat, seq : Nat]

ASSUME NoneAssumption ==
  None \notin Statuses /\ None \notin Permits /\ None \notin Threads

Unsent == [state |-> 0, temporal |-> 0, sent |-> << >>]

AppInit ==
  /\ mind = [version |-> 0, intentions |-> << >>] /\ writes = 0
  /\ ledger = [epoch |-> 0, issued |-> 0, retired |-> 0]
  /\ permit = [e \in Episodes |-> None] /\ fence = [e \in Episodes |-> None]
  /\ lock = None /\ job = None
  /\ \E m \in Modes : speech = [mode |-> m, recent |-> FALSE, budget |-> Budget]
  /\ loose = {}
  /\ based = [e \in Episodes |-> 0]
  /\ outcome = [e \in Episodes |-> None]
  /\ phase = [e \in Episodes |-> "waiting"]
  /\ verdict = [e \in Episodes |-> None]
  /\ token = [e \in Episodes |-> FALSE]
  /\ kills = [e \in Episodes |-> 0]
  /\ thread = [t \in Threads |-> "none"]
  /\ report = [e \in Episodes |-> None]
  /\ stray = {} /\ began = {}
  /\ done = [e \in Episodes |-> Unsent]
-----------------------------------------------------------------------------
(* MindState.                                                              *)

\* Room is made by evicting the oldest expressed intention; with none, fail.
HasRoom(intentions) ==
  Len(intentions) < IntentionCapacity \/ \E i \in DOMAIN intentions : intentions[i] = "expressed"
Evicted(intentions) ==
  IF Len(intentions) < IntentionCapacity THEN intentions
  ELSE LET oldest == CHOOSE i \in DOMAIN intentions :
                       /\ intentions[i] = "expressed"
                       /\ \A j \in DOMAIN intentions : intentions[j] = "expressed" => i <= j
       IN RemoveAt(intentions, oldest)
Remember(intentions) == Append(Evicted(intentions), "active")

\* apply_deltas simulates the batch on a copy: after k deltas, or None.
DeltasApplied(intentions, count) ==
  FoldLeft(LAMBDA acc, d : IF acc = None \/ ~HasRoom(acc) THEN None ELSE Remember(acc),
           intentions, [d \in 1 .. count |-> d])

\* create_intention, by a presence, outside the coordinator.
CreateIntention ==
  /\ writes < MaxMindWrites /\ HasRoom(mind.intentions)
  /\ mind' = [version |-> mind.version + 1, intentions |-> Remember(mind.intentions)]
  /\ writes' = writes + 1
  /\ UNCHANGED <<coordVars, lockVars, speech, adaptVars, thread, histVars>>

\* mark_expressed, by a presence, outside the coordinator.
MarkExpressed ==
  /\ writes < MaxMindWrites
  /\ \E i \in DOMAIN mind.intentions :
       /\ mind.intentions[i] = "active"
       /\ mind' = [version    |-> mind.version + 1,
                   intentions |-> [mind.intentions EXCEPT ![i] = "expressed"]]
  /\ writes' = writes + 1
  /\ UNCHANGED <<coordVars, lockVars, speech, adaptVars, thread, histVars>>
-----------------------------------------------------------------------------
(* The adapter and the runner.                                             *)

Return(e, status, reason) ==
  /\ phase' = [phase EXCEPT ![e] = "returned"]
  /\ verdict' = [verdict EXCEPT ![e] = [status |-> status, reason |-> reason]]

\* SemanticActor._execution_result poisons the actor on an executor that
\* raises with semantic_uncontained; the adapter would have to let it through.
Poisoned == \E e \in Episodes : verdict[e] # None /\ verdict[e].status = "uncontained"

\* The actor executes one episode at a time.
\* execute() starts: a token requested before it returns at once.
ExecuteStarts(e) ==
  /\ phase[e] = "waiting" /\ ~Poisoned
  /\ \A p \in Episodes : phase[p] \in {"waiting", "returned"}
  /\ IF token[e] THEN Return(e, "cancelled", "cancelled_before_run")
     ELSE phase' = [phase EXCEPT ![e] = "queued"] /\ UNCHANGED verdict
  /\ UNCHANGED <<mindVars, coordVars, lockVars, speech, loose, based, outcome, token, kills,
                 thread, histVars>>

\* run() snapshots the MindState and invokes the engine.
RunnerStarts(e) ==
  /\ phase[e] = "queued"
  /\ based' = [based EXCEPT ![e] = mind.version]
  /\ phase' = [phase EXCEPT ![e] = "thinking"]
  /\ UNCHANGED <<mindVars, coordVars, lockVars, speech, loose, outcome, verdict, token, kills,
                 thread, histVars>>

\* _rotate_epoch_locked, when binding finds the replay window full.
WindowFull == Cardinality({e \in Episodes : fence[e] # None}) >= FenceCapacity
\* Mutant: the window is emptied under the same epoch.
RotatedInPlace == ledger

Rotated ==
  IF WindowFull
  THEN [epoch |-> ledger.epoch + 1, issued |-> ledger.issued, retired |-> ledger.issued]
  ELSE ledger

\* The engine answers, and the runner binds the outcome before it returns.
\* bind_outcome waits for the lock with the event loop blocked, so nothing of
\* the loop happens in between: the answer takes effect when the lock is free.
EngineAnswers(e) ==
  /\ phase[e] = "thinking" /\ lock = None
  /\ \E o \in CognitionOutcomes :
       /\ outcome' = [outcome EXCEPT ![e] = o]
       /\ ledger' = [Rotated EXCEPT !.issued = @ + 1]
       /\ permit' = [permit EXCEPT ![e] = [epoch |-> ledger'.epoch, seq |-> ledger'.issued]]
       /\ fence' = IF WindowFull THEN [p \in Episodes |-> None] ELSE fence
  /\ phase' = [phase EXCEPT ![e] = "thought"]
  /\ UNCHANGED <<mindVars, lockVars, speech, loose, based, verdict, token, kills, thread, histVars>>

\* A model generation that is told to stop settles within a second, or its
\* bridge gives up on it and raises CognitionGenerationUncontained.
GenerationStops(e) ==
  \/ UNCHANGED loose
  \/ phase[e] = "thinking" /\ loose' = loose \cup {e}

LooseEnds(e) ==
  /\ e \in loose
  /\ loose' = loose \ {e}
  /\ UNCHANGED <<mindVars, coordVars, lockVars, speech, based, outcome, phase, verdict, token,
                 kills, thread, histVars>>

\* The engine fails or times out, or the observations are gone: run() is None
\* or raises, and the adapter catches every exception.
RunnerFails(e) ==
  /\ phase[e] \in {"queued", "thinking"}
  /\ GenerationStops(e)
  /\ Return(e, "failed", "runner_failed")
  /\ UNCHANGED <<mindVars, coordVars, lockVars, speech, based, outcome, token, kills, thread,
                 histVars>>

\* execute() sees the token while the runner is still at work, and joins it;
\* the join discards what the runner raised.
CancelledWhileThinking(e) ==
  /\ phase[e] \in {"queued", "thinking"} /\ token[e]
  /\ GenerationStops(e)
  /\ Return(e, "cancelled", "cancelled")
  /\ UNCHANGED <<mindVars, coordVars, lockVars, speech, based, outcome, token, kills, thread,
                 histVars>>

\* execute() resumes with a bound outcome: checks the token and starts the
\* application in a thread of its own.
ApplicationStarts(e) ==
  /\ phase[e] = "thought"
  /\ IF token[e]
     THEN /\ Return(e, "cancelled", "cancelled_before_application")
          /\ UNCHANGED thread
     ELSE /\ phase' = [phase EXCEPT ![e] = "applying"]
          /\ thread' = [thread EXCEPT ![<<e, "adapter">>] = "ready"]
          /\ UNCHANGED verdict
  /\ UNCHANGED <<mindVars, coordVars, lockVars, speech, loose, based, outcome, token, kills,
                 histVars>>

IsQuiet(o) == o.state = 0 /\ ~o.temporal /\ o.actions = << >>

\* MindExecutionResult for the application that was recorded.
Mapped(e, status) ==
  IF status = "no_proposals" \/ IsQuiet(outcome[e]) THEN "completed_quiet"
  ELSE IF status = "applied" THEN "completed"
  ELSE IF status \in {"rejected", "stale", "duplicate"} THEN "application_rejected"
  ELSE "application_failed"

\* execute() sees the application finished (its result is in the thread cell).
ApplicationSeen(e) ==
  /\ phase[e] = "applying"
  /\ thread[<<e, "adapter">>] \notin {"ready", "held"}
  /\ Return(e, Mapped(e, thread[<<e, "adapter">>]), "application")
  /\ UNCHANGED <<mindVars, coordVars, lockVars, speech, loose, based, outcome, token, kills,
                 thread, histVars>>

\* execute() sees the token first: it cancels apply(), which shields the
\* thread and goes on waiting for it.
CancelledWhileApplying(e) ==
  /\ phase[e] = "applying" /\ token[e]
  /\ phase' = [phase EXCEPT ![e] = "joining"]
  /\ UNCHANGED <<mindVars, coordVars, lockVars, speech, loose, based, outcome, verdict, token,
                 kills, thread, histVars>>

JoinSeen(e) ==
  /\ phase[e] = "joining"
  /\ thread[<<e, "adapter">>] \notin {"ready", "held"}
  /\ Return(e, "cancelled", "cancelled_after_application_start")
  /\ UNCHANGED <<mindVars, coordVars, lockVars, speech, loose, based, outcome, token, kills,
                 thread, histVars>>

\* The actor asks for cancellation through the token.
RequestCancel(e) ==
  /\ phase[e] # "returned" /\ ~token[e]
  /\ token' = [token EXCEPT ![e] = TRUE]
  /\ UNCHANGED <<mindVars, coordVars, lockVars, speech, loose, based, outcome, phase, verdict,
                 kills, thread, histVars>>

\* When the actor's settlement timeout expires it cancels the task itself.
\* While the application runs this cancels apply() (again, when it is being
\* joined already): a first cancellation waits for the thread, a second one
\* ends apply() and with it execute(), and leaves the thread running.
CancelTask(e) ==
  /\ phase[e] \notin {"waiting", "returned"} /\ token[e] /\ kills[e] = 0
  /\ kills' = [kills EXCEPT ![e] = 1]
  /\ \/ /\ phase[e] \in {"queued", "thinking", "thought"}
        /\ GenerationStops(e)
        /\ Return(e, "cancelled", "task_cancelled")
     \/ /\ phase[e] = "applying"
        /\ phase' = [phase EXCEPT ![e] = "joining"]
        /\ UNCHANGED <<loose, verdict>>
     \/ /\ phase[e] = "joining"
        /\ Return(e, "cancelled", "task_cancelled_in_join")
        /\ UNCHANGED loose
  /\ UNCHANGED <<mindVars, coordVars, lockVars, speech, based, outcome, token, thread, histVars>>

\* Whoever holds a released outcome may submit it again.
Resubmit(e, c) ==
  /\ c \in Replayers /\ thread[<<e, c>>] = "none"
  /\ thread[<<e, "adapter">>] # "none"
  /\ thread' = [thread EXCEPT ![<<e, c>>] = "ready"]
  /\ UNCHANGED <<mindVars, coordVars, lockVars, speech, adaptVars, histVars>>
-----------------------------------------------------------------------------
(* The coordinator: apply_sync, one stage of it per action.                *)

\* Results of one action proposal: [status, effect, attempted].
Result(status, effect, attempted) ==
  [status |-> status, effect |-> effect, attempted |-> attempted]
NotAttempted == Result("none", "none", FALSE)

\* _action_status, for a non-empty batch of results.
ActionStatus(rs) ==
  LET some(S) == \E i \in DOMAIN rs : rs[i].status \in S
      partly(other) == IF some({"ok"}) THEN "partial" ELSE other
  IN IF \A i \in DOMAIN rs : rs[i].attempted /\ rs[i].status = "ok" THEN "applied"
     ELSE IF some({"failed"}) THEN partly("failed")
     ELSE IF \A i \in DOMAIN rs : rs[i].attempted THEN "rejected"
     ELSE IF some({"denied"}) THEN partly("rejected") ELSE partly("failed")

\* Whether any of the three effect boundaries let something through; a wake that is
\* pending already counts as one.
\* Mutant: an applied state change is not counted.
EffectfulWithoutState(state, temporal, actions) ==
  temporal \in {"applied", "duplicate"} \/ actions \in {"applied", "partial"}

Effectful(state, temporal, actions) ==
  state = "applied" \/ temporal \in {"applied", "duplicate"} \/ actions \in {"applied", "partial"}

\* _aggregate_status over the three effect boundaries.
Aggregate(state, temporal, actions) ==
  LET effectful == Effectful(state, temporal, actions)
      orPartial(status) == IF effectful THEN "partial" ELSE status
  IN IF state = "stale" THEN "stale"
     ELSE IF "failed" \in {state, actions} THEN orPartial("failed")
     ELSE IF "rejected" \in {state, temporal, actions} THEN orPartial("rejected")
     ELSE IF actions = "not_attempted" THEN orPartial("failed")
     ELSE IF actions = "partial" THEN "partial"
     ELSE IF effectful THEN "applied" ELSE "no_proposals"

\* Return from _apply_locked: the result is recorded under the permit; it says
\* what became of the temporal proposals and whether an executor is uncontained.
Record(t, state, temporal, actions, results, contained) ==
  LET status == Aggregate(state, temporal, actions)
  IN /\ fence' = [fence EXCEPT ![t[1]] = status]
     /\ report' = [report EXCEPT ![t[1]] =
                     [status |-> status, temporal |-> temporal, actions |-> results,
                      contained |-> contained]]
     /\ thread' = [thread EXCEPT ![t] = status]
     /\ lock' = None /\ job' = None
     /\ UNCHANGED <<ledger, permit>>

Finish(t, state, temporal, actions, results) ==
  Record(t, state, temporal, actions, results, TRUE)

Wanted(present) == IF present THEN "rejected" ELSE "not_requested"
Blocked(o) == IF o.actions = << >> THEN "not_requested" ELSE "not_attempted"
Unstarted(o) == [i \in DOMAIN o.actions |-> NotAttempted]

\* Mutant: a permit outlives its epoch.
LiveForever(e) == permit[e] # None

\* _validate_permit_locked, for a permit of this coordinator.
Live(e) == permit[e].epoch = ledger.epoch /\ permit[e].seq > ledger.retired

\* apply_sync takes the lock; a retired permit, a full window and a settled
\* outcome end there, without touching the outcome.
Acquire(t) ==
  /\ thread[t] = "ready" /\ lock = None
  /\ LET e == t[1]
         refused == IF ~Live(e) THEN "rejected"
                    ELSE IF fence[e] # None THEN "duplicate"
                    ELSE IF WindowFull THEN "rejected" ELSE None
     IN IF refused # None
        THEN thread' = [thread EXCEPT ![t] = refused] /\ UNCHANGED <<lock, job>>
        ELSE /\ lock' = t /\ thread' = [thread EXCEPT ![t] = "held"]
             /\ job' = [stage |-> "prepare", state |-> "not_requested",
                        temporal |-> "not_requested", results |-> << >>, calls |-> {}]
  /\ UNCHANGED <<mindVars, coordVars, report, speech, adaptVars, histVars>>

\* Compiled actions: an unrouted silence is settled already.
Compiled(o) ==
  [i \in DOMAIN o.actions |->
     IF o.actions[i] \in Routed THEN NotAttempted ELSE Result("ok", "none", TRUE)]

\* Everything is validated before anything is touched: the temporal
\* proposals, then the state version and its provenance, then the actions.
Overtaken(o, e) == o.state > 0 /\ mind.version # based[e]

PrepareTemporal(t) ==
  /\ lock = t /\ job.stage = "prepare"
  /\ LET o == outcome[t[1]]
         rejected == Finish(t, Wanted(o.state > 0), Wanted(o.temporal), Wanted(o.actions # << >>),
                            [i \in DOMAIN o.actions |-> Result("invalid", "none", FALSE)])
     IN \/ o.temporal /\ rejected
        \/ Overtaken(o, t[1]) /\ Finish(t, "stale", Wanted(o.temporal), "not_attempted", Unstarted(o))
        \/ ~Overtaken(o, t[1]) /\ (o.state > 0 \/ o.actions # << >>) /\ rejected
        \/ /\ ~Overtaken(o, t[1])
           /\ job' = [job EXCEPT !.stage = "state", !.results = Compiled(o)]
           /\ UNCHANGED <<coordVars, report, thread, lock>>
  /\ UNCHANGED <<mindVars, speech, adaptVars, histVars>>

\* Mutant: the version is not checked again when the deltas are applied.
StillCurrentAssumed(e) == TRUE

StillCurrent(e) == mind.version = based[e]

\* MindState.apply_deltas: the version is checked again under its own lock; any other
\* exception leaves the state as it was, for the deltas are simulated on a copy.
ApplyState(t) ==
  /\ lock = t /\ job.stage = "state"
  /\ LET e == t[1]
         o == outcome[e]
         applied == DeltasApplied(mind.intentions, o.state)
     IN \/ /\ o.state = 0
           /\ job' = [job EXCEPT !.stage = "temporal"]
           /\ UNCHANGED <<mind, coordVars, report, thread, lock, began, done>>
        \/ /\ o.state > 0 /\ ~StillCurrent(e)
           /\ Finish(t, "stale", Wanted(o.temporal), "not_attempted", Unstarted(o))
           /\ UNCHANGED <<mind, began, done>>
        \/ /\ o.state > 0 /\ StillCurrent(e) /\ applied = None
           /\ Finish(t, "rejected", Wanted(o.temporal), "not_attempted", Unstarted(o))
           /\ UNCHANGED <<mind, began, done>>
        \/ /\ o.state > 0 /\ StillCurrent(e)
           /\ Finish(t, "failed", Wanted(o.temporal), "not_attempted", Unstarted(o))
           /\ UNCHANGED <<mind, began, done>>
        \/ /\ o.state > 0 /\ StillCurrent(e) /\ applied # None
           /\ mind' = [version |-> mind.version + o.state, intentions |-> applied]
           /\ job' = [job EXCEPT !.stage = "temporal", !.state = "applied"]
           /\ began' = began \cup {e}
           /\ done' = [done EXCEPT ![e].state = @ + 1]
           /\ UNCHANGED <<coordVars, report, thread, lock>>
  /\ UNCHANGED <<writes, speech, adaptVars, stray>>

\* The temporal coordinator's commit is one step of that component: the wake intents
\* are created, all of them are pending already, or none is admitted.
CommitTemporal(t) ==
  /\ lock = t /\ job.stage = "temporal"
  /\ LET e == t[1]
         o == outcome[e]
     IN \/ /\ ~o.temporal
           /\ job' = [job EXCEPT !.stage = "guard"]
           /\ UNCHANGED <<coordVars, report, thread, lock, began, done>>
        \/ /\ o.temporal
           /\ job' = [job EXCEPT !.stage = "guard", !.temporal = "applied"]
           /\ began' = began \cup {e}
           /\ done' = [done EXCEPT ![e].temporal = @ + 1]
           /\ UNCHANGED <<coordVars, report, thread, lock>>
        \/ /\ o.temporal
           /\ job' = [job EXCEPT !.stage = "guard", !.temporal = "duplicate"]
           /\ UNCHANGED <<coordVars, report, thread, lock, began, done>>
        \/ /\ o.temporal
           /\ Finish(t, job.state, "rejected", Blocked(o), Unstarted(o))
           /\ UNCHANGED <<began, done>>
  /\ UNCHANGED <<mindVars, speech, adaptVars, stray>>

\* _revalidate_speak: whether one SPEAK may go out now.  An ambient outcome
\* needs a live roll-out and a context of the resolver; a legacy one is taken
\* to be an owed response.
MaySpeak(o, x) ==
  LET candidate == IF o.ambient # None THEN o.ambient
                   ELSE [decision |-> "respond", material |-> FALSE, costly |-> FALSE]
  IN /\ o.ambient # None => speech.mode = "live"
     /\ x # None
     /\ Permitted(candidate, x, speech.recent, speech.budget)

Speaks(o) == {i \in DOMAIN o.actions : o.actions[i] = "speak"}

\* Every SPEAK is revalidated, in a context of its own, before the first call of the
\* batch is made; without calls left, or without a session, the application ends here.
Guard(t) ==
  /\ lock = t /\ job.stage = "guard"
  /\ LET o == outcome[t[1]]
     IN \/ /\ o.actions = << >>
           /\ Finish(t, job.state, job.temporal, "not_requested", << >>)
        \/ /\ o.actions # << >>
           /\ \E x \in [Speaks(o) -> Contexts \cup {None}] :
                LET denied(i) == i \in Speaks(o) /\ ~MaySpeak(o, x[i])
                    guarded == [i \in DOMAIN o.actions |->
                                  IF denied(i) THEN Result("denied", "none", FALSE)
                                  ELSE job.results[i]]
                    calls == {i \in DOMAIN o.actions : o.actions[i] \in Routed /\ ~denied(i)}
                IN \/ /\ calls = {}
                      /\ Finish(t, job.state, job.temporal, ActionStatus(guarded), guarded)
                   \/ /\ calls # {}
                      /\ Finish(t, job.state, job.temporal, "failed", Unstarted(o))
                   \/ /\ calls # {}
                      /\ job' = [job EXCEPT !.stage = "call", !.results = guarded, !.calls = calls]
                      /\ UNCHANGED <<coordVars, report, thread, lock>>
  /\ UNCHANGED <<mindVars, speech, adaptVars, histVars>>

\* SpeechAccounting after the batch: every confirmed SPEAK is recorded.
Accounted(o, rs) ==
  LET confirmed == {i \in DOMAIN rs : o.actions[i] = "speak" /\ rs[i].effect = "confirmed"}
  IN IF confirmed = {} THEN speech
     ELSE [speech EXCEPT !.recent = TRUE,
                         !.budget = IF o.ambient = None THEN @
                                    ELSE BudgetAfter(@, o.ambient.decision)]

\* execute_batch makes the calls in order; what a call reports and whether the world saw
\* it.  A failed or timed-out send may have got through.  A call that raises or answers
\* something invalid is reported without effect; it is taken not to have sent, as an
\* executor of this repository that sent answers with a result.
CallOutcomes == {<<Result("ok", "confirmed", TRUE), TRUE>>,
                 <<Result("failed", "none", TRUE), FALSE>>,
                 <<Result("denied", "none", TRUE), FALSE>>,
                 <<Result("failed", "unknown", TRUE), TRUE>>,
                 <<Result("failed", "unknown", TRUE), FALSE>>}

IsNextCall(i, calls) == \A j \in calls : i <= j

MakeCall(t) ==
  /\ lock = t /\ job.stage = "call"
  /\ \E c \in CallOutcomes, i \in job.calls :
       LET e == t[1]
           results == [job.results EXCEPT ![i] = c[1]]
           left == job.calls \ {i}
       IN /\ IsNextCall(i, job.calls)
          /\ began' = began \cup {e}
          /\ done' = IF c[2] THEN [done EXCEPT ![e].sent = Append(@, i)] ELSE done
          /\ IF left # {}
             THEN /\ job' = [job EXCEPT !.results = results, !.calls = left]
                  /\ UNCHANGED <<coordVars, report, thread, lock, speech>>
             ELSE /\ Finish(t, job.state, job.temporal, ActionStatus(results), results)
                  /\ speech' = Accounted(outcome[e], results)
  /\ UNCHANGED <<mindVars, adaptVars, stray>>

\* A call that outlives its containment deadline raises: the whole batch is
\* reported from nothing, its first call as uncontained and every other call
\* as never attempted, and the executor stays behind.
Uncontained(t) ==
  /\ lock = t /\ job.stage = "call"
  /\ LET e == t[1]
         made == {i \in DOMAIN job.results :
                    job.results[i].attempted /\ outcome[e].actions[i] \in Routed}
         calls == made \cup job.calls
     IN \E first \in calls, hung \in job.calls :
          LET results == [i \in DOMAIN job.results |->
                            IF i = first THEN Result("failed", "unknown", TRUE)
                            ELSE IF i \in calls THEN NotAttempted ELSE job.results[i]]
          IN /\ IsNextCall(first, calls) /\ IsNextCall(hung, job.calls)
             /\ stray' = stray \cup {<<e, hung>>}
             /\ began' = began \cup {e}
             /\ Record(t, job.state, job.temporal, ActionStatus(results), results, FALSE)
  /\ UNCHANGED <<mindVars, adaptVars, speech, done>>

\* The abandoned executor finally sends, or gives up.
StrayEnds(s) ==
  /\ s \in stray
  /\ stray' = stray \ {s}
  /\ \/ done' = [done EXCEPT ![s[1]].sent = Append(@, s[2])]
     \/ UNCHANGED done
  /\ UNCHANGED <<mindVars, coordVars, lockVars, speech, adaptVars, thread, began>>
-----------------------------------------------------------------------------
Holding(t) == PrepareTemporal(t) \/ ApplyState(t) \/ CommitTemporal(t) \/ Guard(t)
              \/ MakeCall(t) \/ Uncontained(t)

AdapterStep(e) ==
  \/ ExecuteStarts(e) \/ RunnerStarts(e) \/ EngineAnswers(e) \/ RunnerFails(e)
  \/ CancelledWhileThinking(e) \/ ApplicationStarts(e) \/ ApplicationSeen(e)
  \/ CancelledWhileApplying(e) \/ JoinSeen(e)

AppNext ==
  \/ CreateIntention \/ MarkExpressed
  \/ \E e \in Episodes : AdapterStep(e) \/ LooseEnds(e) \/ RequestCancel(e) \/ CancelTask(e)
  \/ \E e \in Episodes, c \in Replayers : Resubmit(e, c)
  \/ \E t \in Threads : Acquire(t) \/ Holding(t)
  \/ \E s \in stray : StrayEnds(s)

AppSpec == AppInit /\ [][AppNext]_appVars
-----------------------------------------------------------------------------
(* Properties.                                                             *)

\* Type invariant.
AppTypeOK ==
  /\ mind.version \in Nat /\ Len(mind.intentions) <= IntentionCapacity
  /\ ledger \in [epoch : Nat, issued : Nat, retired : Nat]
  /\ \A e \in Episodes : permit[e] = None \/ permit[e] \in Permits
  /\ fence \in [Episodes -> Statuses \cup {None}]
  /\ lock \in Threads \cup {None} /\ (job # None => job.stage \in Stages)
  /\ thread \in [Threads -> {"none", "ready", "held"} \cup Statuses]

\* No effect of an outcome happens twice, however often it is submitted and
\* however small the replay window is (proposal_application.py:548, ADR-019).
EffectsAtMostOnce ==
  \A e \in Episodes :
    /\ done[e].state <= 1 /\ done[e].temporal <= 1
    /\ IsInjective(done[e].sent)

\* The state proposals of an outcome change the MindState only while it is
\* still at the version the episode reasoned from, although a presence may
\* write it between the check and the write (proposal_application.py:717).
AppliedOnTheStateReadFrom ==
  [][\A e \in Episodes : done'[e].state # done[e].state => mind.version = based[e]]_appVars

\* What is recorded is what happened: a stale batch left no trace, a rejected or
\* failed one touched neither the MindState nor the schedule, a full success left
\* nothing out, wakes are reported as applied exactly when they were scheduled, and an
\* action reported as not attempted or without effect was never sent, unless the record
\* says that an executor is uncontained (ADR-012:39-41).
ReportIsHonest ==
  \A e \in Episodes : report[e] # None =>
    LET r == report[e]
        sent == Range(done[e].sent)
    IN /\ r.status \in {"stale", "no_proposals"} => done[e] = Unsent
       /\ r.status \in {"rejected", "failed"} => done[e].state = 0 /\ done[e].temporal = 0
       /\ done[e].temporal = 1 <=> r.temporal = "applied"
       /\ r.status = "applied" =>
            /\ done[e].state = 1 <=> outcome[e].state > 0
            /\ r.temporal \in {"applied", "duplicate"} <=> outcome[e].temporal
            /\ \A i \in DOMAIN outcome[e].actions : outcome[e].actions[i] \in Routed => i \in sent
       /\ IF r.contained
            THEN \A i \in sent : r.actions[i].attempted /\ r.actions[i].effect # "none"
            ELSE r.status \in {"failed", "partial"}

\* A rejection says that nothing happened: the status is to "summarize all effect
\* boundaries without losing earlier effects" (proposal_application.py:1627).
RejectedLeftNoTrace ==
  \A e \in Episodes : report[e] # None /\ report[e].status = "rejected" => done[e] = Unsent

\* An episode that returned left nothing running unless it says so, which
\* poisons the actor: a generation that could not be stopped is kept as proof
\* "for the SemanticActor so it poisons instead of admitting a successor under
\* uncertain semantic ownership" (cognition_episode.py:120), and a cancelled
\* application is waited for (mind_convergence.py:103).
ReturnedLeavesNothingRunning ==
  \A e \in Episodes : phase[e] = "returned" /\ verdict[e].status # "uncontained" =>
    e \notin loose /\ thread[<<e, "adapter">>] \notin {"ready", "held"}

\* The coordinator implements the at-most-once fence, although it forgets
\* settled outcomes when it rotates its epoch (proposal_application.py:540).
Fate(e) ==
  IF permit[e] = None THEN "unbound"
  ELSE IF ~Live(e) THEN "retired"
  ELSE IF fence[e] # None THEN "settled" ELSE "bound"

Fence == INSTANCE ReplayFence
           WITH Outcomes <- Episodes, fate <- [e \in Episodes |-> Fate(e)], effective <- began

ImplementsReplayFence == Fence!FenceSpec
=============================================================================
