# Formal verification of LilavelRuntime

TLA+ modules of the runtime's concurrent parts, the TLC configurations that
check them on small instances, and TLAPS proofs of the results that hold for
every value of the constants. Paths are relative to `src/`; a bare file name
below `apps/` is unambiguous. `PROJECT.json` maps every definition to the lines
it stands for.

## 1. The system

LilavelRuntime runs one conversational character. From the outside in:

| Component | Source | State | Operations |
|---|---|---|---|
| Discord edge | `apps/discord-adapter` | remembered message ids, pending presentations, one presenter per reply, proactive attempt and timer | deliver, present, finalize, send unasked |
| Presence | `presence.py` | idle deadline and latch, exclusions, internal admissions | `start`, idle loop, user exclusion, `stop` |
| Kernel | `kernel.py` | lifecycle, supervisor and task group, event queue, observation window | `start`, `admit_observation`, `cognition_step`, `submit_user`, `stop` |
| Attention and awareness | `attention.py`, `awareness.py` | bounded notes with two indexes | decide, `admit`, `mark_handled`, compact |
| SemanticActor | `semantic_actor.py` | two-lane mailbox, admission fences, session, active record, abandoned executors | `start`, `admit`, worker loop, `stop` |
| Conversation adapter and router | `conversation_adapter.py`, `conversation_router.py`, `user_disposition.py` | per conversation a session with its Core and model runtime | `execute`, `route`, `execute_core_turn`, `resolve`, `close` |
| ConversationCore | `conversation.py` | history, active run; per run cancellation, bound generation, outcome | `prepare_turn`, `start_prepared_run`, `request_cancel`, worker, commit |
| Persistence | `persistence.py` | one SQLite file of messages and evidence | open, append, load |
| ModelRuntime V2 | `runtime.py`, `apps/model-sidecar` | lifecycle, the one generation, its handle, the pipes, the sidecar process | `start`, `generate`, `cancel`, `shutdown`, dispatch, watchdog |
| ModelRuntime V3 | `runtime_v3.py`, `tool_session.py` | as V2, plus rounds of tool calls and their worker | as V2, plus batches, submission, deferred ends |
| Cognition engine | `cognition_model.py` | two bounded evidence logs, the join of an abandoned generation | `run`, `plan` |
| Mind episodes and application | `mind_convergence.py`, `cognition_episode.py`, `proposal_application.py`, `mind.py`, `intervention.py` | permits, epochs, replay fence, mind version and intentions, speech budget | `bind_outcome`, `apply`, staged effects |
| Temporal coordinator and host | `temporal.py`, `temporal_host.py` | pending wakes, history, wake-up signal | `prepare`, `commit`, `cancel`, `poll_due`, dispatch, `stop` |

### How they interact

A surface hands a user turn to the kernel, which takes an exclusion from the
presence and admits the turn to the actor with USER priority. Observations go
through the kernel's queue and the attention gate; those that deserve a thought,
due wakes and idle opportunities are admitted with lower priority. The actor
runs one *executor* at a time: a turn on the conversation lane, which prepares a
run on the Core, resolves how to answer and streams the run to a presenter; or a
mind episode, whose outcome goes to proposal application. A run has a thread of
its own and asks a model runtime for a generation; the runtime speaks to its
sidecar over two pipes. Application changes the mind, commits wakes and executes
speaking actions through a tool session.

### What is hard

The actor, kernel, presence, edge and episodes are tasks of one event loop: they
interleave at awaits, and a cancellation may land in any of them, including a
`finally` clause. Core, model runtimes, bridges, application and tools are
threads under several locks; a cancellation is requested outside the lock that
superseded a turn, and written to the pipe outside the lock that marked the
generation. Timeouts (grace, join, stop, watchdog, run, idle, publication) race
late answers. Only the canonical conversation survives a restart. The list of
hazards, at their lines and with the properties aimed at them, is `hazards` in
`PROJECT.json`.

## 2. Modules

```
GenerationSlot <- ConversationCore        TemporalCoordinator      InterventionPolicy
      ^ refined by ModelRuntime, ToolTurns        ^                        ^
ReplayFence                                  TemporalHost         ProposalApplication
      ^ refined by ProposalApplication

SemanticActor   RuntimeKernel   Presence   ObservationIngress   AwarenessNotes
ReplyPresenter  ProactiveSpeech  CognitionEngine  DirectTurns  LocalTurns  ConversationStore

MCCharacter    = SemanticActor + Presence + ReplyPresenter + CognitionEngine
MCTalkAndWakes = ConversationCore + TemporalHost
MCComponents   = application, both runtimes, host, ingress, notes, store, proactive speech
MCServices     = RuntimeKernel + both runtimes + DirectTurns + LocalTurns

SemanticActorProofs  TemporalProofs  ProposalApplicationProofs  ConversationStoreProofs
ModelRuntimeProofs   ConversationProofs  LaneProofs (over MCServices)
EdgeProofs (ingress, notes, presence, reply presenter, cognition engine)
```

The MC modules compose them for TLC. An action is what one task does between
two awaits, or one lock section of a thread. Operators named after a plausible
mistake (`HolderBindsLate`, `DropQueued`, `RotatedInPlace` ...) are used by no
specification: each precedes the definition it gets wrong, and `mutants` names
the property that refutes it.

| Module | Models | What to know |
|---|---|---|
| `SemanticActor` | `semantic_actor.py` | `worker` names the await it rests in, `stopper[s]` follows a call of `stop()`. Executors end in any way, at any time, or never. Timers are countdowns, so they fire in order. |
| `GenerationSlot` | the contract of a model runtime | one generation at a time, a handle that settles once, every way in which either ends. |
| `ConversationCore` | `conversation.py` over the slot | an answer carries the length of the history it was generated from. Every store and composition failure is a choice. |
| `TemporalCoordinator`, `TemporalHost` | `temporal.py`, `temporal_host.py` | a wake is its key and the commit that made it; a submission ends in any way, or never. |
| `RuntimeKernel` | lifecycle in `kernel.py` | supervisor, task group, shutdown tasks, deadline, calls of `stop()`; of the components only what the kernel can tell. |
| `ObservationIngress` | `edge.py` (deduplication), admission in `kernel.py`, `attention.py` | deliveries may repeat; admissions block on the queue; `stop()` closes and drains meanwhile. |
| `AwarenessNotes` | `awareness.py` | notes, both indexes, expiry, bounds; ids are strings, so their order is that of strings. |
| `Presence` | `presence.py` and `submit_user` | the canonical composition: the idle loop, its latch, exclusions, internal admissions. |
| `ReplyPresenter` | `presenter.py`, `transport.py`, presentation handlers of `edge.py` | a text is its number of fragments and a tail. Requests to Discord succeed, fail, or are cancelled after they were carried out. The edge refuses an empty text to complete or interrupt with. |
| `ProactiveSpeech` | `proactive.py`, send path of `tool.py` | the target is bound as a message arrives, its turn begins later; appraisal, timer, wake, the worker thread's three checks; a user turn ends all of it. |
| `DirectTurns` | `conversation_router.py`, `execute` of `conversation_adapter.py` | a routed turn with its presentation and session, under the token, a cancelled task, and a second cancellation in its `finally`. A cancelled planner is joined first (`PlannerJoined`): the cancellation goes on, the join expires, or the cancel command cannot be written, which fails the runtime and loses the cancellation. |
| `LocalTurns` | `execute_core_turn`, `user_disposition.py`, `_generate_text` of `cognition_model.py` | three tasks, two threads and the planner's generation; the run holder keeps a cancellation that comes before the run. |
| `ConversationStore` | `persistence.py` | several processes on one file, transactions, replay, failing statements, a taken lock, deaths and restarts. SQLite is taken to be atomic and durable. |
| `ModelRuntime` | `runtime.py`, `server.ts`, `index.ts` | both ends of the pipes: callers, reader, watchdog, command lock; the sidecar with its provider, which may hang; crashes. |
| `ToolTurns` | `runtime_v3.py`, `tool_session.py`, `tool-loop.ts` | rounds of tool calls, the worker, the joiner, deferred ends. Output limit and full queue, aborts by the provider. The three timers are one, which may expire at any time; a write to a dead process fails as a step of its own, with the command lock held, and the reader sees the end of its pipe once. |
| `ProposalApplication` | `proposal_application.py`, `mind_convergence.py`, `cognition_episode.py`, `mind.py` | adapter and runner under cancellation, permits and epochs, application under the lock, state that fails to apply, wakes that are pending already, revalidation of every SPEAK in a context of its own. A call whose executor raises is reported without effect (`tool_session.py:395-419`) and taken not to have sent: the repository's executor answers once it has sent. |
| `CognitionEngine` | `cognition_model.py` | one call of `run` or `plan`: what is asked of the model, how its reply is read by the lane of the opportunity, and the evidence left behind. A reply is what the parser asks of it. |
| `InterventionPolicy` | `intervention.py` | the permission rules in their order, as operators. |
| `ReplayFence` | what binding and settling an outcome promise | the abstract specification of the permits. |

### Refinements

* `ModelRuntime` implements `GenerationSlot` (`ImplementsSlot`), and so does
  `ToolTurns` (`TurnsImplementSlot`), for which a poisoned generation is mapped
  to an empty slot. So what is checked of `ConversationCore` over the slot holds
  over either runtime.
* `ProposalApplication` implements `ReplayFence` (`ImplementsReplayFence`): an
  outcome is bound once, and settled or retired once, however its permits,
  epochs and window are kept.

### Sum runs

The passing runs check several components that share no state: a behaviour is
one of exactly one component, chosen in `Init`, under that component's own
fairness; the others rest. This is a way to check them together, not a claim
about their interaction: the interactions that are modelled are inside a module
(Core over the slot, host over coordinator, lane over Core, kernel and presence,
edge and kernel and attention gate).

## 3. Runs

| Run | Components | Properties |
|---|---|---|
| `character` | actor, presence, reply, cognition engine | `OneExecutor`, `AdmissionsAccounted`, `UserPreempts`, `StoppedIsQuiet`, `NoReexecution`, `CancellationSettles`, `NoLostWakeup`; `ExclusionBalanced`; `StopsReturn` (of actor and presence); `FinalTextShown`, `TerminalCallEnds`; `ThoughtsKeepTheirLane`, `EvidenceTellsTheThought`, `RequestsAreTheNewest` |
| `talk_and_wakes` | conversation, temporal host | `AnswersAreGrounded`, `OutcomeMatchesHistory`, `NoStaleGeneration`, `RunsProceed` (a cancelled run settles, and its successor goes on); `NoWakeSleptThrough`, `HostStopReturns` |
| `components` | application, V2, V3, wakes, ingress, notes, store, proactive speech (safety only) | `EffectsAtMostOnce`, `ReportIsHonest`, `AppliedOnTheStateReadFrom`, `ImplementsReplayFence`; `WireAgrees`, `ImplementsSlot`; `NoLateTool`, `TurnsImplementSlot`; `OnePendingPerKey`, `DispatchAccounted`; `NothingLeftBehind`, `OneTurnPerMessage`; `OneNotePerKey`; `MemoryIsDurable`; `SpeaksOnlyUndisturbed` |
| `services` | kernel, V2, V3, routed lane, local lane | `PoisonClosesRuntime`, `KernelStopReturns`; `CancelledGenerationsSettle` (of both runtimes); `NothingRunsOn` (behind a turn that is over on either lane, behind a `stop()` that returned), `CancelledTurnsReturn` |

Eight more runs each refute one statement of the documentation, a comment or a
test (section 4).

### Bounds

Every bound is a constant of a `.cfg` or a named guard (`MaxSession`,
`MaxTime`, `MaxOpportunities`, `MaxText`, `MaxCommits`, `MaxClock`, `MaxWakes`, `MaxDeliveries`,
`MaxHandled`, `LastNote`, `MaxDeaths`, `MaxMessages`, `MaxCalls`, `MaxDeltas`, `MaxMindWrites`,
`MaxUserCancels`, `MaxThoughts`, `MaxGiven`); when a bound is reached, only what it counts stops.

* **actor**: one user and two non-user requests are the least with which the
  active, the preempting and a queued record differ; a mailbox of one fills; a
  fence of two fills and empties by rotation; two callers of `stop()` overlap in
  every phase; a timeout of one unit gives every order of the grace (1), join (1)
  and stop (2) timers.
* **presence**: two user turns, an idle timeout of 2 and a clock of 4 let a turn
  come and go inside one wait. **reply**: texts of three fragments in messages of two, so that the
  number of messages grows and shrinks.
* **cognition engine**: two calls, so that the evidence of one stands beside that of the next; messages of
  size 1 and 3 in a context of 3 and windows of 2, so that either the number of messages or their size cuts the request, and an
  observation of 3 is longer than the 2 that fit; evidence logs of three records and of one, so both drop their oldest.
* **conversation**: two turns, both cancelled by a user; the three turns of
  the overlap are in its violation run. **temporal host**: two keys compete for one
  place and the second commit trims the history. Two threads apply in `components`, one
  under fairness in `talk_and_wakes`.
* **application**: two episodes on one mind, one of them cancelled, a fence of one, one place for intentions, a
  budget of one, one replay. Episodes are interchangeable, so they start in one order. **V2**: two generations, one delta, so the second is
  accepted after each way in which the first can end; one in `services`.
  **V3**: two rounds of one call, and a generation without tools; one generation in `services`.
* **ingress**: three direct messages and an ambient event over a
  memory of two, a queue of one and five deliveries: a message returns after it was forgotten. Direct
  messages are interchangeable, so they first arrive in one order; the ambient event comes first or not
  at all. **notes**: three keys, two surfaces, ids 9 to 11, where the order of strings differs from that of numbers.
* **store**: two processes, two messages, two deaths. **speech**: two user turns, two wakes.
  **kernel**: two callers of `stop()`, the least for two shutdowns at once. **lanes**: two messages of one conversation; two local turns.

Larger instances that passed once on their own, those of V3 and of the application before their latest refinements: ingress without the order of
arrivals (6.07 million states), notes with one more key (1.36 million), V3 with two generations of two rounds
(5.2 million), application with three kinds of outcome (935 thousand). The type
invariants of modules not proved were checked once, each on its own specification.

`CHECK_DEADLOCK FALSE` where the system rightly stops: everything is stopped, settled or
returned, or a bound is reached. No run uses symmetry reduction; where things are interchangeable, an MC module
takes them in one order instead.

### Fairness

Each module states its fairness with the reason. The sum runs assume less: one weak fairness condition per
component, that some step the module promises is taken while one can be. In general: the event loop runs
what can run and due timers fire; the host's own threads run; nothing is assumed
of executors, users, providers, tools, or a generation nobody cancels.

* Actor: worker, each `stop()`, time. Executors may hang, so `CancellationSettles` and
  `StopsReturn` rest on the timers alone.
* Conversation: run threads, the cancellation a supersession owes, and the end of a cancelled
  generation, which is `CancelledGenerationsSettle` of the runtimes (their watchdogs).
* Temporal host: `HostStopReturns` needs no fairness of submissions; `NoWakeSleptThrough` takes it as a hypothesis.
* Kernel: its tasks and its deadline, and that each component's `stop()` ends, which for actor, host and presence are
  `StopsReturn` and `HostStopReturns`. `KernelStopReturns` excuses a shutdown whose deadline
  was swallowed (section 4).
* V2, V3: reader, lock holder, watchdog and joiner; the sidecar need not answer.
* Presence and reply: the loop's tasks, the wake policy, Discord's answers, and the actor's settlements.
* Lanes: one condition, that some step of a turn is taken while one can be. A turn takes finitely many,
  so it is fairness to each. The planner asks the runtime of the session; when that has failed or was shut down (`RuntimeGone`), the
  runs on it fail, so a turn that lost its cancellation with the runtime still returns. The waits of `execute_core_turn` have no timeout: the local lane also rests on
  cancelled runs settling (`RunsProceed`). A planner's generation need never end, as its join gives up after a second.

## 4. Findings

Each is a violation run. Those not about the kernel were also reproduced by a script on the code, as `PROJECT.json` notes.

1. `conversation_overlap`: a turn superseded before it was started settles at once, so the turn after
   it asks the runtime for a generation while an older one streams, and fails
   (`conversation.py:510`; `apps/core/README.md:171`).
2. `kernel_deadline`: a shutdown deadline that expires inside a component's `stop()` is kept as that
   component's error, and the rest of the shutdown has none (`kernel.py:844`; `docs/ARCHITECTURE.md:1242`).
3. `kernel_failed_stop`: `stop()` on a failed runtime takes it back to STOPPING for good (`kernel.py:773`;
   `apps/runtime/tests/test_runtime_h2.py:153`).
4. `application_leftover`: the proof that a generation may outlive its episode is reported as an ordinary
   failure, so the actor does not poison and a successor runs beside it (`mind_convergence.py:169`; `cognition_episode.py:119`).
5. `tools_cancel`: a batch of tool calls that crosses a cancel on the pipe fails the whole runtime
   (`runtime_v3.py:366`; `apps/core/README.md:57`).
6. `tools_failure`: a failure deferred until the tool settles is dropped, and the handle stays open or the runtime says
   ready over an ended process (`runtime_v3.py:630`; `apps/core/README.md:40`).
7. `application_report`: of two messages of one batch, the first is sent and the second is denied as it is executed: the whole
   application is reported as rejected (`proposal_application.py:1619`; `proposal_application.py:1627`, `apps/runtime/README.md:275`).
8. `proactive_repeat`: a user turn that begins between a confirmed send and its settlement drops the attempt, and
   the same commitment is delivered again (`proactive.py:786`; `docs/decisions/ADR-024-proactive-v0-r3-deferred-commitment.md:35`).

Observations met while modelling, without a run of their own:

* Activity during an idle wait moves the last activity but not the deadline of the wait under way, which is computed once
  (`presence.py:951`; `docs/ARCHITECTURE.md:1037-1038`).
* When the executor of a later call cannot be contained, the application reports a message that was sent and confirmed before it as
  failed or unknown, and the call that hangs as not attempted. `ReportIsHonest` is about applications that were recorded.
* A temporal wake carries the reason that a model gave it. If that is one of the reasons the engine calls proactive, its generation
  leaves evidence that no PARSE record follows (`cognition_model.py:1006-1043`, `temporal.py:417-419`).
* An executor that the timer of `stop()` gives up on is in no table of the actor afterwards (`semantic_actor.py:694`).
* A route whose `finally` clause was abandoned by a second cancellation ends as cancelled and is not
  reported as uncontained (`conversation_adapter.py:340-350`); its run was asked to cancel, which is what `NothingRunsOn` says.
* The actor's settlement timeout and the join of a planner's generation are both one second, and the actor's starts first:
  its cancellation interrupts the join, and the generation that still runs is not reported (`semantic_actor.py:300`, `cognition_model.py:378`).
  A local turn whose task is cancelled may leave its resolver running, and its preparing thread may still append its message.
* `admit_observation` cancelled after its put leaves the observation in the queue but not in the window.
* A reply cancelled through the actor is not marked `[response interrupted]` (`apps/discord-adapter/README.md:102`).
* Notes seen at the same time are ordered by the strings of their ids, so note 10 comes before note 9 (`awareness.py:975`).
* Two processes that open a new database at once: one is refused with a schema error.

## 5. Proofs

Eight modules prove theorems with TLAPS. Each holds for every value of the constants that the assumption of its
component allows (`ActorAssumption`, `TemporalAssumption`, `NoneAssumption`, `StoreAssumption`, `SlotAssumption`,
`IngressAssumption`, `EngineAssumption` ...): any sets of requests, threads, runs and processes, any capacities, timeouts and
bounds. TLC evaluates these assumptions in the passing runs. The modules that are proved about declare no RECURSIVE operator.

| Module | Safety of a run that is now a theorem | Other results |
|---|---|---|
| `SemanticActorProofs` | `OneExecutor`, `AdmissionsAccounted`, `UserPreempts`, `StoppedIsQuiet`, `NoReexecution` | `TypeCorrect`, `InductiveInvariant` |
| `TemporalProofs` | `OnePendingPerKey`, `DispatchAccounted`, `SpeaksOnlyUndisturbed` | `CapacityHolds`, `PendingRemembered`, `HostUsesCoordinator`, `SpeechInvariant` |
| `ProposalApplicationProofs` | `EffectsAtMostOnce`, `ReportIsHonest`, `AppliedOnTheStateReadFrom`, `ImplementsReplayFence` | `InductiveInvariant` |
| `ConversationStoreProofs` | `MemoryIsDurable` | `HistoriesHaveNoGap`, `StoreTypeCorrect` |
| `ModelRuntimeProofs` | `WireAgrees`, `ImplementsSlot`, `NoLateTool`, `TurnsImplementSlot` | `InductiveInvariant`, `ToolInvariant` |
| `ConversationProofs` | `AnswersAreGrounded`, `OutcomeMatchesHistory`, `NoStaleGeneration` | `TalkTypeCorrect` |
| `LaneProofs` | `NothingRunsOn` | `RoutedTurnsAreOver`, `LocalTurnsAreOver`, `KernelInvariant`, `StopLeavesNothingRunning` |
| `EdgeProofs` | `NothingLeftBehind`, `OneTurnPerMessage`, `OneNotePerKey`, `ExclusionBalanced`, `FinalTextShown`, `ThoughtsKeepTheirLane`, `EvidenceTellsTheThought`, `RequestsAreTheNewest` | `IngressInvariant`, `EngineInvariant` |

Every invariant and every safety property of the passing runs is stated by a theorem; what is left to TLC is liveness.
`EdgeProofs` holds five components that share no state, each in a part of its own; `ModelRuntimeProofs` holds V2 and V3,
`TemporalProofs` also the proactive speech, `LaneProofs` the two lanes and the kernel. The kernel needs that no
caller of `stop()` is named like one of the other places where a call can be (`CallersAssumption`).

### The inductive invariants

Hardly any of the properties is inductive as it stands. In each module the invariant is a conjunction of named parts, each with a
comment; there is one lemma per action or group of actions, and lemmas about the operators are stated once.

* **Actor** (`IInv`). `OneExecutor` does not say who owns a live executor. `LiveIsActive` does: the active record,
  unless the worker has returned; `ClosesOnLive`, the worker cleans up beside a live executor only to poison the actor or when it no
  longer runs, so it does not pop again; `ActiveWhileWorking`, `ClosingVerdict`, `NewIsAbsent` and `StopHasBegun` place the
  worker's awaits; `SessionOpen` bounds the session counter. Accounting and preemption come from what each lane may hold
  and which futures are open; that nothing runs twice, from the history fence: what it forgot in a rotation was never
  admitted to the new session. The actions that reach the top of the loop share one lemma.
* **Coordinator and host** (`CoordinatorInv`, `HostInv`). `HistoryIsPast`: the history names only commits already counted,
  so a trim cannot take a wake of the running commit for an old settled one. The capacity follows from the cardinality of a
  union. For the host: its clocks, who may hold a batch to submit, and that no worker exists before `start()`. `HostUsesCoordinator`
  carries what is proved of the coordinator over to its host.
* **Application** (`CInv`, `EInv`). `CInv` is about the coordinator: who has a permit, which permits the window still
  keeps, which thread may hold the lock. `EInv` is about effects: what has begun is fenced or being applied, what was reported is over, what
  a stray adapter carries belongs to an outcome that is over, and while a thread holds the lock, its position in the batch accounts for
  what was sent. The refinement needs `Over`: an outcome that can never be applied again is fenced or has left the
  window, and either is "settled" for a fence that forgets nothing.
* **Store** (`StoreInv`). One writer at a time; its draft extends the file by its own rows; the rows of a scope are numbered without a gap, so
  `Loaded` is the sequence of them; a Core that remembers anything remembers what it would load.
* **Runtime** (`ModelRuntimeProofs`). The hard part is order on two pipes: epochs grow with each generation, and what is on
  its way to the host is about the occupant or about a generation with a lower epoch, which the host drops; there is at most one ready and one
  terminal frame per generation, and behind a terminal nothing more of it. The slot refinement maps occupant and handles,
  and every step of a pipe or the sidecar is a stutter.
* **Tool turns** (`ToolInv`, in the same module). `NoLateTool` says nothing of the workers, which live on after their generation. `WorkersInv` does: a
  worker that may still execute has the batch that the generation in the slot waits for, or its session is cancelled, and
  a cancelled session starts no call. `OpenUntilCancelled` says that generation is open and the runtime at work until its
  session is cancelled, or its output reached the limit; `PoisonedIsOver` and `ClosingIsShut` are what the slot refinement needs when the runtime fails or shuts down.
* **Speech** (`SpeechInv`). A timer and an attempt are of the current epoch and an attempt is of its wake (`NothingOutdated`);
  a wake and a USER turn are not on the lane together (`LaneIsShared`). That is not inductive: the claim asks for an attempt,
  not for the epoch of the wake, and a wake permitted in an older epoch may still be about to claim. `NothingSince` closes the gap: while such a wake
  holds the lane, nothing of the new epoch can be appraised, armed or attempted.
* **Conversation** (`TalkInv`). Worker, caller and cancellations of each run; the handle in the slot is that of a run which still
  consumes it; the active run is the last accepted one, and no run is generating from a history that has grown since.
* **Lanes** (`TurnInv`, and its like for routed turns). A cancellation given to the holder reaches the run as soon as there is one; a turn on
  its way out has cancelled the holder or its run is over; consumer, resolver and planner outlive their turn only after a second cancellation.
* **Kernel** (`KernelInv`, in `LaneProofs`). A `stop()` that returned has left the runtime admitting nothing, the tasks of the group ended, and the
  actor and the host stopped, except what a spent deadline left stopping (`ReturnedIsQuiet`). Several shutdowns can run at once and the
  caller may be told by one that is not its own, so the invariant is about all of them: no shutdown leaves running what it has passed and it
  returns only after the supervisor (`ShutdownsProceed`); the supervisor leaves the group with no task alive, and a stop is requested
  only after the components have stopped (`GroupEnds`); what is left stopping was swallowed by a deadline
  (`SwallowedOnlyByDeadline`); and before the supervisor begins nothing runs (`KernelBegins`).
* **Ingress and notes**. What the edge remembers is in the order of the last arrivals, and a message behind the memory has as many
  others before it as the memory holds. Both indexes of the notes agree with the notes before and after compaction.
* **Presence and reply**. The exclusions that are counted are the turns between their two calls; the presenter's record of what it posted is what the
  channel shows, up to the request under way.
* **Engine** (`EngineInv`). Every call but the last is over; each keeps to its lane; the logs are in order, a parse comes
  behind its generation, and while a log has room, nothing was dropped from it.
* **Requests of the engine** (`AskedInv`). What is under way was computed from what was given; the work is in what the computation
  returns. `Total`, `Rendered`, `FitContext` and `FitPrompt` are recursive functions over the messages. Induction cannot be instantiated here, so
  each fact is proved of the least length for which it would fail (`LeastNatural`), after `RecursionExists` has shown that the function is
  defined: the sum of a suffix grows with it (`TotalsGrow`), so the longest suffix that fits is what `FittedContext` and `FittedPrompt` return.

### What the proofs changed

The attempt at the local lane showed that the arms of a CASE overlapped in `CancelsResolver`, `TerminalFrame` and `WorkerReleases`, so that TLC took the
first and TLA+ promised nothing; they are conditionals now. `Remembered` takes the one earlier
occurrence of a message out instead of filtering the whole memory, as `move_to_end` does.
`Total` and `Rendered` of the engine are recursive functions instead of a fold and a filter, whose definitions the provers could not
unfold. The kernel's callers of `stop()` got the assumption above: a caller named "returned" would have made its shutdown look like an end.

### Only model-checked

* Liveness, under the fairness of each component: `CancellationSettles`, `StopsReturn`, `NoLostWakeup`, `TerminalCallEnds`, `RunsProceed`,
  `NoWakeSleptThrough`, `HostStopReturns`, `PoisonClosesRuntime`, `KernelStopReturns`, `CancelledGenerationsSettle`, `CancelledTurnsReturn`.
  It needs ENABLED, which the prover does not handle.
* The bound on the mind's intentions.
* The violation runs are counterexamples; nothing is proved of them.

## 6. Plan

What the earlier plans listed is done: the core and its interactions are modelled, and every invariant and action property of the
passing runs is proved. What a team would do next:

1. Keep a bounded liveness measure beside each fairness property (a variant that every fair step decreases), whose decrease is an
   action property and could be proved.
2. Model the context projections (`context_builder.py`, `context.py`) once a property is about their bounds.
3. Follow the code: `map` in PROJECT.json names the lines each definition stands for.

## 7. Not modelled

* Parsing and validation of frames (`sidecar_protocol*.py`), trace records, health snapshots: they hold none of the state
  the properties are about. A bad frame is a choice where it matters. Of `cognition_model.py` the text of prompts and guidance is left out, and the JSON of a reply.
* Context projections (`context*.py`), character and guidance text: bounded formatting.
* Process containment, the provider SDK, discord.py's gateway: outside the repository or calls of the operating system.
* The standalone presence lane with its own appraiser and tool session (`presence.py:207-640`), which the code calls deprecated, and the command line.
* The registry's registration of tools, the deliberation policies' choices, and where exactly a semantic chunk is cut.
* In `ProactiveSpeech` the idle generation counter (what raises it also drops timer and attempt) and the orphaned worker of the tool
  executor's deadline; in `ToolTurns` which of the three timers fires.
* Evaluation harnesses, probes and diagnostics run no part of the live system.
