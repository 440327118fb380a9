-------------------------- MODULE ConversationCore --------------------------
(***************************************************************************)
(* ConversationCore and its runs                                           *)
(* (apps/core/src/lilavel_core/conversation.py) above one ModelRuntime.    *)
(*                                                                         *)
(* Turns are prepared, superseded, cancelled and started by threads of     *)
(* their own; each started run has a worker thread.  An action is what one *)
(* thread does under one lock, or between two locks when nothing shared is *)
(* read: the supersession of a turn, the start of its successor and the    *)
(* commit of its answer interleave as the code lets them.  Text is left    *)
(* out: a delta changes only the candidate text of its run.                *)
(***************************************************************************)
EXTENDS GenerationSlot, Sequences, FiniteSets

CONSTANT MaxUserCancels  \* bound: how many runs their users cancel

ASSUME CancelAssumption == MaxUserCancels \in Nat

VARIABLES
  canonical,        \* _canonical_messages, which mirror the store; an answer
                    \* carries the length of the history it was generated from
  active,           \* _active
  pred,             \* _predecessor of each run
  caller,           \* how far the caller of each turn is
  runWorker,        \* how far the worker thread of each run is
  cancelCall,       \* the request_cancel calls on each run, by who makes them
  cancelRequested,  \* runs whose _cancel_requested is set
  cancelReason,     \* _cancel_reason of each run
  bound,            \* runs whose _runtime_generation is set
  cancelSent,       \* runs whose _cancel_sent is set
  contextLen,       \* how much history the request its worker holds was built from
  outcome,          \* _outcome of each run
  unsettling        \* runs that settled while active: Core is told next

turn   == <<canonical, active, pred, caller>>
cancel == <<cancelCall, cancelRequested, cancelReason, cancelSent>>
run    == <<runWorker, bound, contextLen>>
ends   == <<outcome, unsettling>>
talkVars   == <<slotVars, turn, cancel, run, ends>>

-----------------------------------------------------------------------------

\* Who calls request_cancel on a run: the turn that supersedes it, a user of
\* the run; its worker sends the cancellation it finds when it binds.
Cancellers == {"superseder", "user", "worker"}
Calls      == Cancellers \X Runs

Reason(who) == IF who = "superseder" THEN "superseded" ELSE "cancelled"

Outcomes      == {"completed", "cancelled", "superseded", "failed"}
CommitResults == {"committed", "superseded", "cancelled", "invalid"}

User(r)      == [role |-> "user", run |-> r]
Answer(r, n) == [role |-> "assistant", run |-> r, context |-> n]
Messages     == [role : {"user"}, run : Runs] \cup
                [role : {"assistant"}, run : Runs, context : Nat]

HasSettled(r) == outcome[r] # "none"
Started(r)    == runWorker[r] # "absent"
Answered(r)   == \E i \in 1..Len(canonical) :
                   canonical[i].role = "assistant" /\ canonical[i].run = r

TalkTypeOK ==
  /\ SlotTypeOK
  /\ canonical \in Seq(Messages)
  /\ active \in Runs \cup {None}
  /\ pred \in [Runs -> Runs \cup {None}]
  /\ caller \in [Runs -> {"new", "prepared", "starting", "done"}]
  /\ runWorker \in [Runs -> CommitResults \cup
       {"absent", "waiting", "building", "built", "generating", "binding",
        "consuming", "done"}]
  /\ cancelCall \in [Calls -> {"idle", "requesting", "sending", "writing", "settling", "done"}]
  /\ cancelReason \in [Runs -> {"cancelled", "superseded"}]
  /\ cancelRequested \subseteq Runs /\ bound \subseteq Runs
  /\ cancelSent \subseteq Runs
  /\ contextLen \in [Runs -> Nat]
  /\ outcome \in [Runs -> Outcomes \cup {"none"}]
  /\ unsettling \subseteq Runs

TalkInit ==
  /\ SlotInit
  /\ canonical = <<>> /\ active = None
  /\ pred = [r \in Runs |-> None]
  /\ caller = [r \in Runs |-> "new"]
  /\ runWorker = [r \in Runs |-> "absent"]
  /\ cancelCall = [c \in Calls |-> "idle"]
  /\ cancelRequested = {} /\ bound = {} /\ cancelSent = {}
  /\ cancelReason = [r \in Runs |-> "cancelled"]
  /\ contextLen = [r \in Runs |-> 0]
  /\ outcome = [r \in Runs |-> "none"]
  /\ unsettling = {}

-----------------------------------------------------------------------------
(* Settlement: the first outcome wins, and only its thread then tells Core. *)
(* A run that is no longer active never is again: telling Core is a no-op.  *)

Settle(r, o) ==
  IF HasSettled(r)
    THEN UNCHANGED ends
    ELSE /\ outcome' = [outcome EXCEPT ![r] = o]
         /\ unsettling' = unsettling \cup ({r} \cap {active})

\* run_settled().
RunSettled(r) ==
  /\ r \in unsettling
  /\ unsettling' = unsettling \ {r}
  /\ active' = IF active = r THEN None ELSE active
  /\ UNCHANGED <<slotVars, canonical, pred, caller, cancel, run, outcome>>

-----------------------------------------------------------------------------
(* Turns. *)

Previous == IF active # None /\ ~HasSettled(active) THEN active ELSE None

\* prepare_turn(): the locked part; it then requests cancellation of Previous.
PrepareTurn(r) ==
  /\ caller[r] = "new"
  /\ canonical' = Append(canonical, User(r))
  /\ pred' = [pred EXCEPT ![r] = Previous]
  /\ active' = r
  /\ caller' = [caller EXCEPT ![r] = "prepared"]
  /\ cancelCall' = IF Previous = None THEN cancelCall
                   ELSE [cancelCall EXCEPT ![<<"superseder", Previous>>] = "requesting"]
  /\ UNCHANGED <<slotVars, cancelRequested, cancelReason, cancelSent, run, ends>>

\* The store refuses the message, or supersede is false and the core busy.
TurnRefused ==
  /\ active' = Previous
  /\ UNCHANGED <<slotVars, canonical, pred, caller, cancel, run, ends>>

\* prepare_turn() has returned.
Returned(r) ==
  /\ caller[r] # "new"
  /\ pred[r] # None => cancelCall[<<"superseder", pred[r]>>] = "done"

\* start_prepared_run(): the locked part, then start().
BindBehavior(r) ==
  /\ caller[r] = "prepared" /\ Returned(r)
  /\ caller' = [caller EXCEPT ![r] = IF active = r THEN "starting" ELSE "done"]
  /\ UNCHANGED <<slotVars, canonical, active, pred, cancel, run, ends>>

StartRun(r) ==
  /\ caller[r] = "starting"
  /\ caller' = [caller EXCEPT ![r] = "done"]
  /\ runWorker' = IF HasSettled(r) THEN runWorker ELSE [runWorker EXCEPT ![r] = "waiting"]
  /\ UNCHANGED <<slotVars, canonical, active, pred, cancel, bound, contextLen, ends>>

-----------------------------------------------------------------------------
(* Cancellation. *)

Requesting(who, r) ==
  \/ cancelCall[<<who, r>>] = "requesting"
  \/ /\ who = "user" /\ cancelCall[<<who, r>>] = "idle"
     /\ Returned(r)
     /\ Cardinality({q \in Runs : cancelCall[<<who, q>>] # "idle"}) < MaxUserCancels

MustSend(r)      == r \in bound /\ r \notin cancelSent
SettlesUnbound(r) == r \notin bound
SettlesAtOnce(r) == ~Started(r)

AfterRequest(r) ==
  IF MustSend(r) THEN "sending" ELSE IF SettlesAtOnce(r) THEN "settling" ELSE "done"

\* request_cancel(): the locked part.
RequestCancel(who, r) ==
  /\ Requesting(who, r)
  /\ IF HasSettled(r)
       THEN /\ cancelCall' = [cancelCall EXCEPT ![<<who, r>>] = "done"]
            /\ UNCHANGED <<cancelRequested, cancelReason, cancelSent>>
       ELSE /\ cancelRequested' = cancelRequested \cup {r}
            /\ cancelReason' = IF r \in cancelRequested THEN cancelReason
                               ELSE [cancelReason EXCEPT ![r] = Reason(who)]
            /\ cancelSent' = IF MustSend(r) THEN cancelSent \cup {r} ELSE cancelSent
            /\ cancelCall' = [cancelCall EXCEPT ![<<who, r>>] = AfterRequest(r)]
  /\ UNCHANGED <<slotVars, turn, run, ends>>

SettleBeforeStart(who, r) ==
  /\ cancelCall[<<who, r>>] = "settling"
  /\ Settle(r, Reason(who))
  /\ cancelCall' = [cancelCall EXCEPT ![<<who, r>>] = "done"]
  /\ UNCHANGED <<slotVars, turn, cancelRequested, cancelReason, cancelSent, run>>

\* The runtime's command lock is held while a command is written.
CommandLockFree == \A c \in Calls : cancelCall[c] # "writing"

SendCancel(who, r) ==
  /\ cancelCall[<<who, r>>] = "sending" /\ CommandLockFree
  /\ \/ /\ CancelTakes(r)
        /\ cancelCall' = [cancelCall EXCEPT ![<<who, r>>] = "writing"]
     \/ /\ ~CancelMarks(r)
        /\ cancelCall' = [cancelCall EXCEPT ![<<who, r>>] = "done"]
        /\ UNCHANGED slotVars
  /\ UNCHANGED <<turn, cancelRequested, cancelReason, cancelSent, run, ends>>

\* A cancellation that cannot be written is a failed run.
CancelWritten(who, r) ==
  /\ cancelCall[<<who, r>>] = "writing"
  /\ cancelCall' = [cancelCall EXCEPT ![<<who, r>>] = "done"]
  /\ \/ UNCHANGED <<slotVars, ends>>
     \/ CancelRaises(r) /\ Settle(r, "failed")
  /\ UNCHANGED <<turn, cancelRequested, cancelReason, cancelSent, run>>

-----------------------------------------------------------------------------
(* The worker of a run. *)

\* The request lives as long as the worker.
GoTo(r, place) ==
  /\ runWorker' = [runWorker EXCEPT ![r] = place]
  /\ contextLen' = IF place = "done" THEN [contextLen EXCEPT ![r] = 0] ELSE contextLen

CancelledOr(r, place) ==
  IF r \in cancelRequested
    THEN GoTo(r, "done") /\ Settle(r, cancelReason[r])
    ELSE GoTo(r, place) /\ UNCHANGED ends

AwaitGeneration(r) ==
  /\ runWorker[r] = "waiting"
  /\ pred[r] # None => handle[pred[r]] \in Terminal
  /\ CancelledOr(r, "building")
  /\ UNCHANGED <<slotVars, turn, cancel, bound>>

AwaitPredecessor(r) ==
  /\ runWorker[r] = "waiting"
  /\ pred[r] # None => HasSettled(pred[r])
  /\ CancelledOr(r, "building")
  /\ UNCHANGED <<slotVars, turn, cancel, bound>>

\* build_model_request() reads the history under the lock; composing may fail.
BuildRequest(r) ==
  /\ runWorker[r] = "building"
  /\ \/ /\ runWorker' = [runWorker EXCEPT ![r] = "built"]
        /\ contextLen' = [contextLen EXCEPT ![r] = Len(canonical)]
        /\ UNCHANGED ends
     \/ GoTo(r, "done") /\ Settle(r, "failed")
  /\ UNCHANGED <<slotVars, turn, cancel, bound>>

CheckCancelled(r) ==
  /\ runWorker[r] = "built"
  /\ CancelledOr(r, "generating")
  /\ UNCHANGED <<slotVars, turn, cancel, bound>>

RuntimeGenerate(r) ==
  /\ runWorker[r] = "generating" /\ CommandLockFree
  /\ \/ Generate(r) /\ GoTo(r, "binding") /\ UNCHANGED ends
     \/ GenerateRaises(r) /\ GoTo(r, "done") /\ Settle(r, "failed")
     \/ Refuses /\ GoTo(r, "done") /\ Settle(r, "failed") /\ UNCHANGED slotVars
  /\ UNCHANGED <<turn, cancel, bound>>

\* A cancellation requested before the generation was bound is sent now.
CancelNeverPending(r) == FALSE
CancelPending(r) == r \in cancelRequested /\ r \notin cancelSent

SetRuntimeGeneration(r) ==
  /\ runWorker[r] = "binding"
  /\ bound' = bound \cup {r}
  /\ GoTo(r, "consuming")
  /\ IF CancelPending(r)
       THEN /\ cancelSent' = cancelSent \cup {r}
            /\ cancelCall' = [cancelCall EXCEPT ![<<"worker", r>>] = "sending"]
       ELSE UNCHANGED <<cancelSent, cancelCall>>
  /\ UNCHANGED <<slotVars, turn, cancelRequested, cancelReason, ends>>

Consuming(r) == runWorker[r] = "consuming" /\ cancelCall[<<"worker", r>>] \in {"idle", "done"}

CommitUnlessCancelled(r) ==
  \/ /\ HasSettled(r) \/ r \in cancelRequested
     /\ GoTo(r, "cancelled") /\ UNCHANGED <<canonical, ends>>
  \/ /\ ~HasSettled(r) /\ r \notin cancelRequested
     /\ \/ GoTo(r, "committed") /\ canonical' = Append(canonical, Answer(r, contextLen[r])) /\ UNCHANGED ends
        \/ GoTo(r, "done") /\ Settle(r, "failed") /\ UNCHANGED canonical

\* commit_assistant(), under the core lock and then the run's.  A text too long
\* for a context message is invalid; the store may refuse the message.
CommitAssistant(r) ==
  \/ active # r /\ GoTo(r, "superseded") /\ UNCHANGED <<canonical, ends>>
  \/ /\ active = r /\ (HasSettled(r) \/ r \in cancelRequested)
     /\ GoTo(r, "cancelled") /\ UNCHANGED <<canonical, ends>>
  \/ /\ active = r /\ ~HasSettled(r) /\ r \notin cancelRequested
     /\ \/ GoTo(r, "invalid") /\ UNCHANGED <<canonical, ends>>
        \/ GoTo(r, "committed") /\ canonical' = Append(canonical, Answer(r, contextLen[r])) /\ UNCHANGED ends
        \/ GoTo(r, "done") /\ Settle(r, "failed") /\ UNCHANGED canonical

ReadTerminal(r) ==
  /\ Consuming(r)
  /\ \/ handle[r] = "completed" /\ CommitAssistant(r)
     \/ /\ handle[r] = "cancelled"
        /\ GoTo(r, "done") /\ Settle(r, cancelReason[r]) /\ UNCHANGED canonical
     \/ /\ handle[r] = "failed"
        /\ GoTo(r, "done") /\ Settle(r, "failed") /\ UNCHANGED canonical
  /\ UNCHANGED <<slotVars, active, pred, caller, cancel, bound>>

OutcomeOf(result) ==
  CASE result = "committed" -> "completed"
    [] result = "invalid"   -> "failed"
    [] OTHER                -> result

SettleResult(r) ==
  /\ runWorker[r] \in CommitResults
  /\ Settle(r, OutcomeOf(runWorker[r])) /\ GoTo(r, "done")
  /\ UNCHANGED <<slotVars, turn, cancel, bound>>

-----------------------------------------------------------------------------

RuntimeStep == SlotStep /\ UNCHANGED <<turn, cancel, run, ends>>

CancelStep(who, r) ==
  SettleBeforeStart(who, r) \/ SendCancel(who, r) \/ CancelWritten(who, r)

WorkerStep(r) ==
  \/ AwaitPredecessor(r) \/ BuildRequest(r) \/ CheckCancelled(r)
  \/ RuntimeGenerate(r) \/ SetRuntimeGeneration(r)
  \/ ReadTerminal(r) \/ SettleResult(r)

TalkNext ==
  \/ TurnRefused
  \/ \E r \in Runs : PrepareTurn(r) \/ BindBehavior(r) \/ StartRun(r)
  \/ \E r \in Runs, who \in {"superseder", "user"} : RequestCancel(who, r)
  \/ \E r \in Runs, who \in Cancellers : CancelStep(who, r)
  \/ \E r \in Runs : WorkerStep(r) \/ RunSettled(r)
  \/ RuntimeStep

\* Threads keep running and the runtime's watchdog fires; nothing is promised
\* of users, nor of a generation nobody cancels.
TalkFairness ==
  /\ \A r \in Runs :
       /\ WF_talkVars(WorkerStep(r)) /\ WF_talkVars(RunSettled(r))
       /\ WF_talkVars(RequestCancel("superseder", r))
       /\ \A who \in Cancellers : WF_talkVars(CancelStep(who, r))
  /\ WF_talkVars(CancellationEnds /\ UNCHANGED <<turn, cancel, run, ends>>)

TalkSpec == TalkInit /\ [][TalkNext]_talkVars /\ TalkFairness

-----------------------------------------------------------------------------
(* What a conversation promises. *)

\* An answer directly follows the message it answers, and was generated from
\* exactly the history that precedes it, whatever turns were prepared meanwhile.
AnswersAreGrounded ==
  \A i \in 1..Len(canonical) : canonical[i].role = "assistant" =>
    /\ i > 1 /\ canonical[i - 1] = User(canonical[i].run)
    /\ canonical[i].context = i - 1

\* What a run reports and what the conversation remembers agree: completed runs
\* have an answer, cancelled, superseded and failed ones never do.
OutcomeMatchesHistory ==
  \A r \in Runs : HasSettled(r) => (outcome[r] = "completed" <=> Answered(r))

\* A run that has settled, superseded while it was prepared for instance, never
\* starts a generation nobody would consume.
NoStaleGeneration ==
  [][slot' # slot /\ slot' # None => ~HasSettled(slot')]_talkVars

\* A cancelled run settles, whether the request came before its start, while it
\* waited, before its generation was bound or while that was streaming.
CancelledRunSettles ==
  \A r \in Runs : r \in cancelRequested ~> HasSettled(r)

\* A started turn is never stuck behind the run it superseded.
SuccessorProceeds ==
  \A r \in Runs : runWorker[r] = "waiting" ~> runWorker[r] # "waiting"

\* apps/core/README.md:171: a new turn "waits for that runtime generation to
\* settle before asking the single-generation runtime to start the new request".
SuccessorWaitsForGeneration ==
  \A r \in Runs : runWorker[r] = "generating" =>
    ~\E q \in Runs \ {r} : slot = q /\ handle[q] = "open"
=============================================================================
