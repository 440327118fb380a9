------------------------- MODULE ConversationProofs -------------------------
(***************************************************************************)
(* What ConversationCore promises, proved for any number of runs and of    *)
(* cancellations: the answers in a history are grounded, what a run        *)
(* reports agrees with it, and no generation is started for a run that has *)
(* settled.                                                                *)
(*                                                                         *)
(* The invariant relates, for each run, how far its worker, its caller and *)
(* the calls that cancel it are.  A step is shown to preserve it by what   *)
(* it does to the run: its worker goes on or ends, a cancellation goes on  *)
(* or settles it, or the step leaves the runs alone.                       *)
(***************************************************************************)
EXTENDS ConversationCore, TLAPS

-----------------------------------------------------------------------------
(* The inductive invariant. *)

\* The generation that holds the slot has not completed: its handle is open, or
\* failed at once by the output limit.
SlotHeldOpen == slot # None => handle[slot] \in {"open", "failed"}

\* A run has no worker before its caller has started it.
StartedByCaller ==
  \A r \in Runs : caller[r] # "done" => runWorker[r] = "absent"

\* A cancellation under way belongs to a run that was asked to stop; it is sent
\* only once a generation is bound, and settles the run at once only while its
\* worker has not passed the wait for its predecessor.
CancelsAreRequested ==
  \A who \in Cancellers, r \in Runs :
    /\ cancelCall[<<who, r>>] \in {"sending", "writing", "settling"} => r \in cancelRequested
    /\ cancelCall[<<who, r>>] \in {"sending", "writing"} => r \in bound
    /\ cancelCall[<<who, r>>] = "settling" => runWorker[r] \in {"absent", "waiting", "done"}

\* A bound generation is being consumed, or its worker has read its end.
BoundIsConsumed ==
  \A r \in bound : runWorker[r] \in {"consuming", "done"} \cup CommitResults

\* A run that may still start its generation has not settled; one that settled
\* while it waits was cancelled, which the worker reads before it builds.
UnsettledUntilGenerated ==
  \A r \in Runs :
    /\ runWorker[r] \in {"building", "built", "generating"} => ~HasSettled(r)
    /\ runWorker[r] = "waiting" /\ HasSettled(r) => r \in cancelRequested

\* An answered run completed its generation, and nobody else can settle it: its
\* worker is about to, or has.
AnsweredIsClosed ==
  \A r \in Runs : Answered(r) =>
    /\ handle[r] = "completed"
    /\ \A who \in Cancellers : cancelCall[<<who, r>>] \notin {"writing", "settling"}
    /\ \/ runWorker[r] = "committed" /\ ~HasSettled(r)
       \/ runWorker[r] = "done" /\ outcome[r] = "completed"

\* Only an answered run is committed or completed.
CompletedIsAnswered ==
  \A r \in Runs : runWorker[r] = "committed" \/ outcome[r] = "completed" => Answered(r)

\* The history ends with the message of the active turn until that is answered,
\* and the request its worker holds was built from that history.
ActiveIsLast ==
  \A r \in Runs : active = r /\ ~Answered(r) =>
    /\ Len(canonical) > 0 /\ canonical[Len(canonical)] = User(r)
    /\ runWorker[r] \in {"built", "generating", "binding", "consuming"} =>
         contextLen[r] = Len(canonical)

TalkInv ==
  /\ TalkTypeOK
  /\ SlotHeldOpen
  /\ StartedByCaller
  /\ CancelsAreRequested
  /\ BoundIsConsumed
  /\ UnsettledUntilGenerated
  /\ AnsweredIsClosed
  /\ CompletedIsAnswered
  /\ ActiveIsLast
  /\ AnswersAreGrounded

-----------------------------------------------------------------------------
(* What the steps do to the parts of the state. *)

\* What a step of the runtime leaves to its clients: types, and handles that
\* have settled.
SlotKept ==
  /\ SlotTypeOK' /\ SlotHeldOpen'
  /\ \A g \in Runs : handle[g] \in Terminal => handle'[g] = handle[g]

\* A step that leaves the runtime alone keeps it.
LEMMA SlotUntouched ==
  ASSUME TalkInv, UNCHANGED slotVars
  PROVE  SlotKept
  BY DEF TalkInv, TalkTypeOK, SlotKept, SlotTypeOK, SlotHeldOpen, slotVars

\* Every step of the runtime keeps what its clients rely on.
LEMMA SlotStepKeeps ==
  ASSUME TalkInv, SlotNext
  PROVE  SlotKept
  <1> USE SlotAssumption DEF TalkInv, TalkTypeOK, SlotKept, SlotTypeOK, SlotHeldOpen, Terminal
  <1>1. ASSUME NEW g \in Runs, Generate(g) PROVE SlotKept
    BY <1>1 DEF Generate
  <1>2. ASSUME NEW g \in Runs, GenerateRaises(g) PROVE SlotKept
    BY <1>2 DEF GenerateRaises
  <1>3. ASSUME NEW g \in Runs, CancelTakes(g) PROVE SlotKept
    BY <1>3 DEF CancelTakes
  <1>4. ASSUME NEW g \in Runs, CancelRaises(g) PROVE SlotKept
    BY <1>4 DEF CancelRaises, Vacate, Settled
  <1>5. ASSUME Terminates PROVE SlotKept
    BY <1>5, ZenonT(60) DEF Terminates, Vacate, Settled
  <1>6. ASSUME OutputLimit PROVE SlotKept
    BY <1>6 DEF OutputLimit, Settled
  <1>7. ASSUME RuntimeFails PROVE SlotKept
    BY <1>7, ZenonT(60) DEF RuntimeFails, Vacate, Settled
  <1>8. ASSUME ShutdownBegins PROVE SlotKept
    <2>1. cancelling' \in BOOLEAN
      BY <1>8 DEF ShutdownBegins
    <2> QED  BY <1>8, <2>1 DEF ShutdownBegins
  <1> QED  BY <1>1, <1>2, <1>3, <1>4, <1>5, <1>6, <1>7, <1>8 DEF SlotNext, SlotStep

\* The history answers the same runs while it does not change.
LEMMA AnswersKept ==
  ASSUME UNCHANGED canonical
  PROVE  /\ \A r \in Runs : Answered(r)' <=> Answered(r)
         /\ AnswersAreGrounded => AnswersAreGrounded'
  BY DEF Answered, AnswersAreGrounded, User

\* Only the first outcome of a run counts.
LEMMA FirstOutcomeWins ==
  ASSUME TalkTypeOK, NEW r \in Runs, NEW o \in Outcomes, Settle(r, o)
  PROVE  /\ outcome' \in [Runs -> Outcomes \cup {"none"}] /\ unsettling' \subseteq Runs
         /\ \A q \in Runs : outcome'[q] = IF q = r /\ outcome[r] = "none" THEN o ELSE outcome[q]
  BY ZenonT(60) DEF TalkTypeOK, Settle, HasSettled, ends

\* A worker moves alone; the length it holds is forgotten when it is done.
LEMMA WorkerMoves ==
  ASSUME TalkTypeOK, NEW r \in Runs,
         NEW place \in CommitResults \cup
           {"waiting", "building", "built", "generating", "binding", "consuming", "done"},
         GoTo(r, place)
  PROVE  /\ runWorker' \in [Runs -> CommitResults \cup
              {"absent", "waiting", "building", "built", "generating", "binding", "consuming", "done"}]
         /\ contextLen' \in [Runs -> Nat]
         /\ \A q \in Runs : runWorker'[q] = IF q = r THEN place ELSE runWorker[q]
         /\ \A q \in Runs : place # "done" \/ q # r => contextLen'[q] = contextLen[q]
  BY DEF TalkTypeOK, GoTo

\* A call of request_cancel reaches its next step.
CallIs(who, r, step) == cancelCall' = [cancelCall EXCEPT ![<<who, r>>] = step]

\* A call of request_cancel moves alone.
LEMMA CallMoves ==
  ASSUME TalkTypeOK, NEW who \in Cancellers, NEW r \in Runs,
         NEW step \in {"requesting", "sending", "writing", "settling", "done"},
         CallIs(who, r, step)
  PROVE  /\ cancelCall' \in [Calls -> {"idle", "requesting", "sending", "writing", "settling", "done"}]
         /\ \A w \in Cancellers, q \in Runs :
              cancelCall'[<<w, q>>] = IF w = who /\ q = r THEN step ELSE cancelCall[<<w, q>>]
  <1>1. \A w \in Cancellers, q \in Runs : <<w, q>> \in Calls
    BY DEF Calls
  <1> QED  BY <1>1 DEF TalkTypeOK, CallIs

-----------------------------------------------------------------------------
(* The worker of a run. *)

\* A worker that ends settles its run: completed if it committed the answer,
\* and never otherwise.
LEMMA WorkerEnds ==
  ASSUME TalkInv, SlotKept, NEW r \in Runs, NEW o \in Outcomes,
         runWorker[r] \notin {"absent", "done"},
         o = "completed" <=> runWorker[r] = "committed",
         GoTo(r, "done"), Settle(r, o),
         UNCHANGED <<turn, cancel, bound>>
  PROVE  TalkInv'
  <1> USE DEF TalkInv
  <1>1. /\ runWorker' \in [Runs -> CommitResults \cup
             {"absent", "waiting", "building", "built", "generating", "binding", "consuming", "done"}]
        /\ contextLen' \in [Runs -> Nat]
        /\ \A q \in Runs : runWorker'[q] = IF q = r THEN "done" ELSE runWorker[q]
        /\ \A q \in Runs : q # r => contextLen'[q] = contextLen[q]
    BY WorkerMoves
  <1>2. /\ outcome' \in [Runs -> Outcomes \cup {"none"}] /\ unsettling' \subseteq Runs
        /\ \A q \in Runs : outcome'[q] = IF q = r /\ outcome[r] = "none" THEN o ELSE outcome[q]
    BY FirstOutcomeWins
  <1>3. \A q \in Runs : Answered(q)' <=> Answered(q)
    BY AnswersKept DEF turn
  <1>4. TalkTypeOK' /\ SlotHeldOpen'
    BY <1>1, <1>2 DEF TalkTypeOK, SlotKept, turn, cancel
  <1>5. StartedByCaller'
    BY <1>1 DEF StartedByCaller, turn
  <1>6. CancelsAreRequested'
    BY <1>1 DEF CancelsAreRequested, cancel
  <1>7. BoundIsConsumed'
    BY <1>1 DEF BoundIsConsumed, TalkTypeOK
  <1>8. UnsettledUntilGenerated'
    BY <1>1, <1>2 DEF UnsettledUntilGenerated, HasSettled, cancel
  <1>9. AnsweredIsClosed'
    BY <1>1, <1>2, <1>3 DEF AnsweredIsClosed, HasSettled, SlotKept, Terminal, cancel
  <1>10. CompletedIsAnswered'
    BY <1>1, <1>2, <1>3 DEF CompletedIsAnswered
  <1>11. ActiveIsLast'
    BY <1>1, <1>3 DEF ActiveIsLast, User, turn
  <1>12. AnswersAreGrounded'
    BY AnswersKept DEF turn
  <1> QED  BY <1>4, <1>5, <1>6, <1>7, <1>8, <1>9, <1>10, <1>11, <1>12

\* A worker that goes on has seen no cancellation before it builds, and holds
\* the whole history when it has built.
LEMMA WorkerGoesOn ==
  ASSUME TalkInv, SlotKept, NEW r \in Runs,
         NEW place \in {"building", "built", "generating", "binding",
                        "superseded", "cancelled", "invalid"},
         runWorker[r] = CASE place = "building"   -> "waiting"
                          [] place = "built"      -> "building"
                          [] place = "generating" -> "built"
                          [] place = "binding"    -> "generating"
                          [] OTHER                -> "consuming",
         place = "building" => r \notin cancelRequested,
         runWorker' = [runWorker EXCEPT ![r] = place],
         contextLen' = IF place = "built" THEN [contextLen EXCEPT ![r] = Len(canonical)]
                       ELSE contextLen,
         UNCHANGED <<turn, cancel, bound, ends>>
  PROVE  TalkInv'
  <1> USE DEF TalkInv
  <1>1. /\ runWorker' \in [Runs -> CommitResults \cup
             {"absent", "waiting", "building", "built", "generating", "binding", "consuming", "done"}]
        /\ \A q \in Runs : runWorker'[q] = IF q = r THEN place ELSE runWorker[q]
    BY DEF TalkTypeOK, CommitResults
  <1>2. /\ contextLen' \in [Runs -> Nat]
        /\ \A q \in Runs : contextLen'[q] = IF q = r /\ place = "built" THEN Len(canonical)
                                             ELSE contextLen[q]
    BY DEF TalkTypeOK
  <1>3. \A q \in Runs : Answered(q)' <=> Answered(q)
    BY AnswersKept DEF turn
  <1>4. TalkTypeOK' /\ SlotHeldOpen'
    BY <1>1, <1>2 DEF TalkTypeOK, SlotKept, turn, cancel, ends
  <1>5. StartedByCaller'
    BY <1>1 DEF StartedByCaller, turn
  <1>6. CancelsAreRequested'
    BY <1>1 DEF CancelsAreRequested, cancel
  <1>7. BoundIsConsumed'
    BY <1>1 DEF BoundIsConsumed, TalkTypeOK, CommitResults
  <1>8. UnsettledUntilGenerated'
    BY <1>1 DEF UnsettledUntilGenerated, HasSettled, cancel, ends
  <1>9. AnsweredIsClosed'
    BY <1>1, <1>3 DEF AnsweredIsClosed, HasSettled, SlotKept, Terminal, cancel, ends
  <1>10. CompletedIsAnswered'
    BY <1>1, <1>3 DEF CompletedIsAnswered, ends
  <1>11. ActiveIsLast'
    BY <1>1, <1>2, <1>3 DEF ActiveIsLast, User, turn
  <1>12. AnswersAreGrounded'
    BY AnswersKept DEF turn
  <1> QED  BY <1>4, <1>5, <1>6, <1>7, <1>8, <1>9, <1>10, <1>11, <1>12

\* The wait for the predecessor, or for its generation, ends.
LEMMA AwaitPredecessorStep ==
  ASSUME TalkInv, NEW r \in Runs, AwaitPredecessor(r)
  PROVE  TalkInv'
  <1>1. SlotKept
    BY SlotUntouched DEF AwaitPredecessor
  <1>2. ASSUME r \in cancelRequested PROVE TalkInv'
    <2>1. cancelReason[r] \in Outcomes \ {"completed"}
      BY DEF TalkInv, TalkTypeOK, Outcomes
    <2> QED  BY <1>1, <1>2, <2>1, WorkerEnds DEF AwaitPredecessor, CancelledOr
  <1>3. ASSUME r \notin cancelRequested PROVE TalkInv'
    BY <1>1, <1>3, WorkerGoesOn DEF AwaitPredecessor, CancelledOr, GoTo
  <1> QED  BY <1>2, <1>3

\* The request is built from the whole history, or the run fails.
LEMMA BuildRequestStep ==
  ASSUME TalkInv, NEW r \in Runs, BuildRequest(r)
  PROVE  TalkInv'
  <1>1. SlotKept
    BY SlotUntouched DEF BuildRequest
  <1> QED  BY <1>1, WorkerEnds, WorkerGoesOn DEF BuildRequest, Outcomes

\* The last look at the cancellation before the generation is asked for.
LEMMA CheckCancelledStep ==
  ASSUME TalkInv, NEW r \in Runs, CheckCancelled(r)
  PROVE  TalkInv'
  <1>1. SlotKept
    BY SlotUntouched DEF CheckCancelled
  <1>2. ASSUME r \in cancelRequested PROVE TalkInv'
    <2>1. cancelReason[r] \in Outcomes \ {"completed"}
      BY DEF TalkInv, TalkTypeOK, Outcomes
    <2> QED  BY <1>1, <1>2, <2>1, WorkerEnds DEF CheckCancelled, CancelledOr
  <1>3. ASSUME r \notin cancelRequested PROVE TalkInv'
    BY <1>1, <1>3, WorkerGoesOn DEF CheckCancelled, CancelledOr, GoTo
  <1> QED  BY <1>2, <1>3

\* The runtime takes the request, fails on it or refuses it.
LEMMA RuntimeGenerateStep ==
  ASSUME TalkInv, NEW r \in Runs, RuntimeGenerate(r)
  PROVE  TalkInv'
  <1>1. ASSUME Generate(r), GoTo(r, "binding"), UNCHANGED ends PROVE TalkInv'
    <2>1. SlotKept
      BY <1>1, SlotStepKeeps DEF SlotNext
    <2> QED  BY <1>1, <2>1, WorkerGoesOn DEF RuntimeGenerate, GoTo
  <1>2. ASSUME GoTo(r, "done"), Settle(r, "failed"),
               GenerateRaises(r) \/ UNCHANGED slotVars
        PROVE  TalkInv'
    <2>1. SlotKept
      BY <1>2, SlotStepKeeps, SlotUntouched DEF SlotNext
    <2> QED  BY <1>2, <2>1, WorkerEnds DEF RuntimeGenerate, Outcomes
  <1> QED  BY <1>1, <1>2 DEF RuntimeGenerate

\* The run reports what its commit returned.
LEMMA SettleResultStep ==
  ASSUME TalkInv, NEW r \in Runs, SettleResult(r)
  PROVE  TalkInv'
  <1>1. SlotKept
    BY SlotUntouched DEF SettleResult
  <1>2. /\ OutcomeOf(runWorker[r]) \in Outcomes
        /\ OutcomeOf(runWorker[r]) = "completed" <=> runWorker[r] = "committed"
        /\ runWorker[r] \notin {"absent", "done"}
    BY DEF SettleResult, OutcomeOf, CommitResults, Outcomes
  <1> QED  BY <1>1, <1>2, WorkerEnds DEF SettleResult

\* The generation is bound, and a cancellation requested before it is sent now.
LEMMA SetRuntimeGenerationStep ==
  ASSUME TalkInv, NEW r \in Runs, SetRuntimeGeneration(r)
  PROVE  TalkInv'
  <1> USE DEF TalkInv
  <1>1. /\ runWorker' \in [Runs -> CommitResults \cup
             {"absent", "waiting", "building", "built", "generating", "binding", "consuming", "done"}]
        /\ contextLen' \in [Runs -> Nat]
        /\ \A q \in Runs : runWorker'[q] = IF q = r THEN "consuming" ELSE runWorker[q]
        /\ \A q \in Runs : contextLen'[q] = contextLen[q]
    BY WorkerMoves DEF SetRuntimeGeneration
  <1>2. /\ cancelCall' \in [Calls -> {"idle", "requesting", "sending", "writing", "settling", "done"}]
        /\ cancelSent' \subseteq Runs
        /\ \A w \in Cancellers, q \in Runs :
             \/ cancelCall'[<<w, q>>] = cancelCall[<<w, q>>]
             \/ q = r /\ r \in cancelRequested /\ cancelCall'[<<w, q>>] = "sending"
    <2>1. CASE CancelPending(r)
      <3>1. "worker" \in Cancellers /\ cancelSent' \subseteq Runs
        BY <2>1 DEF SetRuntimeGeneration, Cancellers, TalkTypeOK
      <3>2. CallIs("worker", r, "sending") /\ r \in cancelRequested
        BY <2>1 DEF SetRuntimeGeneration, CancelPending, CallIs
      <3> QED  BY <3>1, <3>2, CallMoves
    <2>2. CASE ~CancelPending(r)
      BY <2>2 DEF SetRuntimeGeneration, TalkTypeOK
    <2> QED  BY <2>1, <2>2
  <1>3. bound' = bound \cup {r} /\ runWorker[r] = "binding"
    BY DEF SetRuntimeGeneration
  <1>4. \A q \in Runs : Answered(q)' <=> Answered(q)
    BY AnswersKept DEF SetRuntimeGeneration, turn
  <1>5. UNCHANGED <<canonical, active, pred, caller, cancelRequested, cancelReason, outcome, unsettling>>
    BY DEF SetRuntimeGeneration, turn, ends
  <1>6. SlotKept
    BY SlotUntouched DEF SetRuntimeGeneration
  <1>7. TalkTypeOK' /\ SlotHeldOpen'
    BY <1>1, <1>2, <1>3, <1>5, <1>6 DEF TalkTypeOK, SlotKept
  <1>8. StartedByCaller'
    BY <1>1, <1>3, <1>5 DEF StartedByCaller
  <1>9. CancelsAreRequested'
    <2> SUFFICES ASSUME NEW w \in Cancellers, NEW q \in Runs
                 PROVE  /\ cancelCall'[<<w, q>>] \in {"sending", "writing", "settling"} => q \in cancelRequested'
                        /\ cancelCall'[<<w, q>>] \in {"sending", "writing"} => q \in bound'
                        /\ cancelCall'[<<w, q>>] = "settling" => runWorker'[q] \in {"absent", "waiting", "done"}
      BY DEF CancelsAreRequested
    <2>1. CASE cancelCall'[<<w, q>>] = cancelCall[<<w, q>>]
      BY <1>1, <1>3, <1>5, <2>1 DEF CancelsAreRequested
    <2>2. CASE q = r /\ r \in cancelRequested /\ cancelCall'[<<w, q>>] = "sending"
      BY <1>3, <1>5, <2>2
    <2> QED  BY <1>2, <2>1, <2>2
  <1>10. BoundIsConsumed'
    BY <1>1, <1>3 DEF BoundIsConsumed, TalkTypeOK
  <1>11. UnsettledUntilGenerated'
    BY <1>1, <1>3, <1>5 DEF UnsettledUntilGenerated, HasSettled
  <1>12. AnsweredIsClosed'
    BY <1>1, <1>2, <1>3, <1>4, <1>5, <1>6 DEF AnsweredIsClosed, HasSettled, SlotKept, Terminal
  <1>13. CompletedIsAnswered'
    BY <1>1, <1>3, <1>4, <1>5 DEF CompletedIsAnswered
  <1>14. ActiveIsLast'
    BY <1>1, <1>3, <1>4, <1>5 DEF ActiveIsLast, User
  <1>15. AnswersAreGrounded'
    BY <1>5, AnswersKept
  <1> QED  BY <1>7, <1>8, <1>9, <1>10, <1>11, <1>12, <1>13, <1>14, <1>15

\* The history that a message is added to.
LEMMA MessageAdded ==
  ASSUME TalkTypeOK, NEW m \in Messages, canonical' = Append(canonical, m)
  PROVE  /\ canonical' \in Seq(Messages) /\ Len(canonical') = Len(canonical) + 1
         /\ \A i \in 1..Len(canonical) : canonical'[i] = canonical[i]
         /\ canonical'[Len(canonical) + 1] = m
         /\ \A r \in Runs : Answered(r)' <=> Answered(r) \/ (m.role = "assistant" /\ m.run = r)
  <1>1. /\ canonical' \in Seq(Messages) /\ Len(canonical') = Len(canonical) + 1
        /\ \A i \in 1..Len(canonical) : canonical'[i] = canonical[i]
        /\ canonical'[Len(canonical) + 1] = m
    BY DEF TalkTypeOK
  <1>2. Len(canonical) \in Nat
    BY DEF TalkTypeOK
  <1>3. ASSUME NEW r \in Runs PROVE Answered(r)' <=> Answered(r) \/ (m.role = "assistant" /\ m.run = r)
    <2>1. ASSUME Answered(r)' PROVE Answered(r) \/ (m.role = "assistant" /\ m.run = r)
      BY <1>1, <1>2, <2>1 DEF Answered
    <2>2. ASSUME Answered(r) PROVE Answered(r)'
      BY <1>1, <1>2, <2>2 DEF Answered
    <2>3. ASSUME m.role = "assistant", m.run = r PROVE Answered(r)'
      <3>1. Len(canonical) + 1 \in 1..Len(canonical')
        BY <1>1, <1>2
      <3> QED  BY <1>1, <2>3, <3>1 DEF Answered
    <2> QED  BY <2>1, <2>2, <2>3
  <1> QED  BY <1>1, <1>3

\* An answer is added right after the message it answers.
LEMMA AnswerCommitted ==
  ASSUME TalkInv, NEW r \in Runs,
         runWorker[r] = "consuming", handle[r] = "completed",
         cancelCall[<<"worker", r>>] \in {"idle", "done"},
         active = r, ~HasSettled(r), r \notin cancelRequested,
         canonical' = Append(canonical, Answer(r, contextLen[r])), GoTo(r, "committed"),
         UNCHANGED <<slotVars, active, pred, caller, cancel, bound, ends>>
  PROVE  TalkInv'
  <1> USE DEF TalkInv
  <1> DEFINE n == Len(canonical)
             m == Answer(r, contextLen[r])
  <1>1. /\ runWorker' \in [Runs -> CommitResults \cup
             {"absent", "waiting", "building", "built", "generating", "binding", "consuming", "done"}]
        /\ contextLen' \in [Runs -> Nat]
        /\ \A q \in Runs : runWorker'[q] = IF q = r THEN "committed" ELSE runWorker[q]
        /\ \A q \in Runs : contextLen'[q] = contextLen[q]
    BY WorkerMoves DEF CommitResults
  <1>2. m \in Messages /\ m.role = "assistant" /\ m.run = r /\ m.context = contextLen[r]
    BY DEF Messages, Answer, TalkTypeOK
  <1>3. /\ canonical' \in Seq(Messages) /\ Len(canonical') = n + 1
        /\ \A i \in 1..n : canonical'[i] = canonical[i]
        /\ canonical'[n + 1] = m
        /\ \A q \in Runs : Answered(q)' <=> Answered(q) \/ q = r
    <2> HIDE DEF m
    <2>1. \A q \in Runs : Answered(q)' <=> Answered(q) \/ (m.role = "assistant" /\ m.run = q)
      BY <1>2, MessageAdded DEF m
    <2> QED  BY <1>2, <2>1, MessageAdded DEF m
  <1>4. /\ ~Answered(r) /\ n > 0 /\ n \in Nat
        /\ canonical[n] = User(r) /\ contextLen[r] = n
    <2>1. ~Answered(r)
      BY DEF AnsweredIsClosed
    <2> QED  BY <2>1 DEF ActiveIsLast, TalkTypeOK
  <1>5. SlotKept
    BY SlotUntouched
  <1>6. TalkTypeOK' /\ SlotHeldOpen'
    BY <1>1, <1>3, <1>5 DEF TalkTypeOK, SlotKept, cancel, ends
  <1>7. StartedByCaller'
    BY <1>1 DEF StartedByCaller
  <1>8. CancelsAreRequested'
    BY <1>1 DEF CancelsAreRequested, cancel
  <1>9. BoundIsConsumed'
    BY <1>1 DEF BoundIsConsumed, TalkTypeOK, CommitResults
  <1>10. UnsettledUntilGenerated'
    BY <1>1 DEF UnsettledUntilGenerated, HasSettled, cancel, ends
  <1>11. AnsweredIsClosed'
    <2>1. \A who \in Cancellers : cancelCall[<<who, r>>] \notin {"writing", "settling"}
      BY DEF CancelsAreRequested
    <2> QED  BY <1>1, <1>3, <1>5, <2>1 DEF AnsweredIsClosed, HasSettled, SlotKept, Terminal, cancel,
                ends
  <1>12. CompletedIsAnswered'
    BY <1>1, <1>3 DEF CompletedIsAnswered, ends
  <1>13. ActiveIsLast'
    BY <1>3 DEF ActiveIsLast
  <1>14. AnswersAreGrounded'
    <2> SUFFICES ASSUME NEW i \in 1..(n + 1), canonical'[i].role = "assistant"
                 PROVE  /\ i > 1 /\ canonical'[i - 1] = User(canonical'[i].run)
                        /\ canonical'[i].context = i - 1
      BY <1>3 DEF AnswersAreGrounded, User
    <2>1. CASE i = n + 1
      BY <1>2, <1>3, <1>4, <2>1
    <2>2. CASE i # n + 1
      <3>1. i \in 1..n /\ canonical[i].role = "assistant"
        BY <1>3, <1>4, <2>2
      <3>2. i > 1 /\ canonical[i - 1] = User(canonical[i].run) /\ canonical[i].context = i - 1
        BY <3>1 DEF AnswersAreGrounded
      <3> QED  BY <1>3, <1>4, <3>1, <3>2
    <2> QED  BY <2>1, <2>2
  <1> QED  BY <1>6, <1>7, <1>8, <1>9, <1>10, <1>11, <1>12, <1>13, <1>14

\* The worker reads how its generation ended.
LEMMA ReadTerminalStep ==
  ASSUME TalkInv, NEW r \in Runs, ReadTerminal(r)
  PROVE  TalkInv'
  <1>1. SlotKept
    BY SlotUntouched DEF ReadTerminal
  <1>2. ASSUME NEW place \in {"superseded", "cancelled", "invalid"}, GoTo(r, place),
               UNCHANGED <<canonical, ends>>
        PROVE  TalkInv'
    BY <1>1, <1>2, WorkerGoesOn DEF ReadTerminal, Consuming, GoTo, turn
  <1>3. ASSUME NEW o \in Outcomes \ {"completed"}, GoTo(r, "done"), Settle(r, o), UNCHANGED canonical
        PROVE  TalkInv'
    BY <1>1, <1>3, WorkerEnds DEF ReadTerminal, Consuming, turn
  <1>4. ASSUME handle[r] = "completed", active = r, ~HasSettled(r), r \notin cancelRequested,
               GoTo(r, "committed"), canonical' = Append(canonical, Answer(r, contextLen[r])),
               UNCHANGED ends
        PROVE  TalkInv'
    BY <1>4, AnswerCommitted DEF ReadTerminal, Consuming
  <1>5. cancelReason[r] \in Outcomes \ {"completed"} /\ "failed" \in Outcomes \ {"completed"}
    BY DEF TalkInv, TalkTypeOK, Outcomes
  <1>6. CASE handle[r] = "completed" /\ CommitAssistant(r)
    BY <1>2, <1>3, <1>4, <1>5, <1>6 DEF CommitAssistant
  <1> QED  BY <1>3, <1>5, <1>6 DEF ReadTerminal
-----------------------------------------------------------------------------
(* Cancellations. *)

\* A call that goes on without settling its run: it is recorded before it is
\* sent, and written only while the runtime has not settled the generation.
LEMMA CallGoesOn ==
  ASSUME TalkInv, SlotKept, NEW who \in Cancellers, NEW r \in Runs,
         NEW step \in {"sending", "writing", "settling", "done"},
         CallIs(who, r, step),
         cancelRequested \subseteq cancelRequested', cancelRequested' \subseteq Runs,
         step # "done" => r \in cancelRequested',
         step \in {"sending", "writing"} => r \in bound,
         step = "settling" => runWorker[r] = "absent",
         step = "writing" => handle[r] # "completed",
         cancelReason' \in [Runs -> {"cancelled", "superseded"}], cancelSent' \subseteq Runs,
         UNCHANGED <<turn, run, ends>>
  PROVE  TalkInv'
  <1> USE DEF TalkInv
  <1>1. /\ cancelCall' \in [Calls -> {"idle", "requesting", "sending", "writing", "settling", "done"}]
        /\ \A w \in Cancellers, q \in Runs :
             cancelCall'[<<w, q>>] = IF w = who /\ q = r THEN step ELSE cancelCall[<<w, q>>]
    BY CallMoves
  <1>2. \A q \in Runs : Answered(q)' <=> Answered(q)
    BY AnswersKept DEF turn
  <1>3. TalkTypeOK' /\ SlotHeldOpen'
    BY <1>1 DEF TalkTypeOK, SlotKept, turn, run, ends
  <1>4. StartedByCaller'
    BY DEF StartedByCaller, turn, run
  <1>5. CancelsAreRequested'
    <2> SUFFICES ASSUME NEW w \in Cancellers, NEW q \in Runs
                 PROVE  /\ cancelCall'[<<w, q>>] \in {"sending", "writing", "settling"} => q \in cancelRequested'
                        /\ cancelCall'[<<w, q>>] \in {"sending", "writing"} => q \in bound'
                        /\ cancelCall'[<<w, q>>] = "settling" => runWorker'[q] \in {"absent", "waiting", "done"}
      BY DEF CancelsAreRequested
    <2>1. CASE w = who /\ q = r
      BY <1>1, <2>1 DEF run
    <2>2. CASE ~(w = who /\ q = r)
      BY <1>1, <2>2 DEF CancelsAreRequested, run
    <2> QED  BY <2>1, <2>2
  <1>6. BoundIsConsumed'
    BY DEF BoundIsConsumed, run
  <1>7. UnsettledUntilGenerated'
    BY DEF UnsettledUntilGenerated, HasSettled, run, ends
  <1>8. AnsweredIsClosed'
    BY <1>1, <1>2 DEF AnsweredIsClosed, HasSettled, SlotKept, Terminal, run, ends
  <1>9. CompletedIsAnswered'
    BY <1>2 DEF CompletedIsAnswered, run, ends
  <1>10. ActiveIsLast'
    BY <1>2 DEF ActiveIsLast, User, turn, run
  <1>11. AnswersAreGrounded'
    BY AnswersKept DEF turn
  <1> QED  BY <1>3, <1>4, <1>5, <1>6, <1>7, <1>8, <1>9, <1>10, <1>11

\* A call that ends by settling its run: before the start of it, or because the
\* cancellation could not be written.  The run has no answer.
LEMMA CallSettles ==
  ASSUME TalkInv, SlotKept, NEW who \in Cancellers, NEW r \in Runs,
         cancelCall[<<who, r>>] \in {"writing", "settling"},
         CallIs(who, r, "done"),
         NEW o \in Outcomes \ {"completed"}, Settle(r, o),
         UNCHANGED <<turn, cancelRequested, cancelReason, cancelSent, run>>
  PROVE  TalkInv'
  <1> USE DEF TalkInv
  <1>1. /\ cancelCall' \in [Calls -> {"idle", "requesting", "sending", "writing", "settling", "done"}]
        /\ \A w \in Cancellers, q \in Runs :
             cancelCall'[<<w, q>>] = IF w = who /\ q = r THEN "done" ELSE cancelCall[<<w, q>>]
    BY CallMoves
  <1>2. /\ outcome' \in [Runs -> Outcomes \cup {"none"}] /\ unsettling' \subseteq Runs
        /\ \A q \in Runs : outcome'[q] = IF q = r /\ outcome[r] = "none" THEN o ELSE outcome[q]
    BY FirstOutcomeWins
  <1>3. \A q \in Runs : Answered(q)' <=> Answered(q)
    BY AnswersKept DEF turn
  <1>4. /\ r \in cancelRequested /\ ~Answered(r)
        /\ runWorker[r] \notin {"building", "built", "generating"}
    <2>1. r \in cancelRequested /\ ~Answered(r)
      BY DEF CancelsAreRequested, AnsweredIsClosed
    <2>2. CASE cancelCall[<<who, r>>] = "writing"
      BY <2>1, <2>2 DEF CancelsAreRequested, BoundIsConsumed, CommitResults
    <2>3. CASE cancelCall[<<who, r>>] = "settling"
      BY <2>1, <2>3 DEF CancelsAreRequested
    <2> QED  BY <2>2, <2>3
  <1>5. TalkTypeOK' /\ SlotHeldOpen'
    BY <1>1, <1>2 DEF TalkTypeOK, SlotKept, turn, run
  <1>6. StartedByCaller'
    BY DEF StartedByCaller, turn, run
  <1>7. CancelsAreRequested'
    <2>1. ASSUME NEW w \in Cancellers,
                 NEW q \in Runs PROVE cancelCall'[<<w, q>>] \in {cancelCall[<<w, q>>], "done"}
      BY <1>1
    <2> QED  BY <2>1 DEF CancelsAreRequested, run
  <1>8. BoundIsConsumed'
    BY DEF BoundIsConsumed, run
  <1>9. UnsettledUntilGenerated'
    BY <1>2, <1>4 DEF UnsettledUntilGenerated, HasSettled, run
  <1>10. AnsweredIsClosed'
    BY <1>1, <1>2, <1>3, <1>4 DEF AnsweredIsClosed, HasSettled, SlotKept, Terminal, run
  <1>11. CompletedIsAnswered'
    BY <1>2, <1>3 DEF CompletedIsAnswered, run
  <1>12. ActiveIsLast'
    BY <1>3 DEF ActiveIsLast, User, turn, run
  <1>13. AnswersAreGrounded'
    BY AnswersKept DEF turn
  <1> QED  BY <1>5, <1>6, <1>7, <1>8, <1>9, <1>10, <1>11, <1>12, <1>13

\* A cancellation is recorded; what is left of it follows from how far the run is.
LEMMA RequestCancelStep ==
  ASSUME TalkInv, NEW who \in {"superseder", "user"}, NEW r \in Runs, RequestCancel(who, r)
  PROVE  TalkInv'
  <1>1. SlotKept /\ who \in Cancellers
    BY SlotUntouched DEF RequestCancel, Cancellers
  <1>2. cancelRequested \subseteq Runs /\ cancelSent \subseteq Runs
        /\ cancelReason \in [Runs -> {"cancelled", "superseded"}]
    BY DEF TalkInv, TalkTypeOK
  <1>3. CASE HasSettled(r)
    BY <1>1, <1>2, <1>3, CallGoesOn DEF RequestCancel, CallIs
  <1>4. CASE ~HasSettled(r)
    <2>1. /\ AfterRequest(r) \in {"sending", "settling", "done"}
          /\ AfterRequest(r) = "sending" => r \in bound
          /\ AfterRequest(r) = "settling" => runWorker[r] = "absent"
      BY DEF AfterRequest, MustSend, SettlesAtOnce, Started
    <2>2. /\ cancelRequested' = cancelRequested \cup {r} /\ cancelSent' \subseteq Runs
          /\ cancelReason' \in [Runs -> {"cancelled", "superseded"}]
          /\ CallIs(who, r, AfterRequest(r))
          /\ UNCHANGED <<turn, run, ends>>
      BY <1>2, <1>4 DEF RequestCancel, Reason, CallIs
    <2> QED  BY <1>1, <1>2, <2>1, <2>2, CallGoesOn
  <1> QED  BY <1>3, <1>4

\* A run cancelled before its start settles.
LEMMA SettleBeforeStartStep ==
  ASSUME TalkInv, NEW who \in Cancellers, NEW r \in Runs, SettleBeforeStart(who, r)
  PROVE  TalkInv'
  <1>1. SlotKept
    BY SlotUntouched DEF SettleBeforeStart
  <1>2. Reason(who) \in Outcomes \ {"completed"}
    BY DEF Reason, Outcomes
  <1> QED  BY <1>1, <1>2, CallSettles DEF SettleBeforeStart, CallIs

\* The runtime marks the generation, or answers that it has none.
LEMMA SendCancelStep ==
  ASSUME TalkInv, NEW who \in Cancellers, NEW r \in Runs, SendCancel(who, r)
  PROVE  TalkInv'
  <1>1. /\ cancelRequested' = cancelRequested /\ cancelRequested \subseteq Runs
        /\ cancelSent' \subseteq Runs /\ cancelReason' \in [Runs -> {"cancelled", "superseded"}]
        /\ r \in cancelRequested /\ r \in bound
        /\ UNCHANGED <<turn, run, ends>>
    BY DEF SendCancel, TalkInv, TalkTypeOK, CancelsAreRequested
  <1>2. ASSUME CancelTakes(r), CallIs(who, r, "writing")
        PROVE  TalkInv'
    <2>1. SlotKept
      BY <1>2, SlotStepKeeps DEF SlotNext
    <2>2. handle[r] # "completed"
      BY <1>2, SlotAssumption DEF CancelTakes, CancelMarks, TalkInv, SlotHeldOpen
    <2> QED  BY <1>1, <1>2, <2>1, <2>2, CallGoesOn
  <1>3. ASSUME CallIs(who, r, "done"), UNCHANGED slotVars
        PROVE  TalkInv'
    BY <1>1, <1>3, SlotUntouched, CallGoesOn
  <1> QED  BY <1>2, <1>3 DEF SendCancel, CallIs

\* A cancellation is written, or fails the runtime and its run.
LEMMA CancelWrittenStep ==
  ASSUME TalkInv, NEW who \in Cancellers, NEW r \in Runs, CancelWritten(who, r)
  PROVE  TalkInv'
  <1>1. CASE UNCHANGED <<slotVars, ends>>
    <2>1. /\ cancelRequested' = cancelRequested /\ cancelRequested \subseteq Runs
          /\ cancelSent' \subseteq Runs /\ cancelReason' \in [Runs -> {"cancelled", "superseded"}]
          /\ UNCHANGED <<turn, run, ends>>
          /\ CallIs(who, r, "done")
      BY <1>1 DEF CancelWritten, TalkInv, TalkTypeOK, CallIs
    <2> QED  BY <1>1, <2>1, SlotUntouched, CallGoesOn
  <1>2. CASE CancelRaises(r) /\ Settle(r, "failed")
    <2>1. SlotKept
      BY <1>2, SlotStepKeeps DEF SlotNext
    <2> QED  BY <1>2, <2>1, CallSettles DEF CancelWritten, Outcomes, CallIs
  <1> QED  BY <1>1, <1>2 DEF CancelWritten
-----------------------------------------------------------------------------
(* Turns, and the runtime on its own. *)

\* A new turn adds its message, becomes the active one and has no worker yet;
\* the run it supersedes is asked to stop by its caller.
LEMMA PrepareTurnStep ==
  ASSUME TalkInv, NEW r \in Runs, PrepareTurn(r)
  PROVE  TalkInv'
  <1> USE DEF TalkInv
  <1> DEFINE n == Len(canonical)
  <1>1. User(r) \in Messages /\ User(r).role = "user"
    BY DEF User, Messages
  <1>2. /\ canonical' \in Seq(Messages) /\ Len(canonical') = n + 1 /\ n \in Nat
        /\ \A i \in 1..n : canonical'[i] = canonical[i]
        /\ canonical'[n + 1] = User(r)
        /\ \A q \in Runs : Answered(q)' <=> Answered(q)
    BY <1>1, MessageAdded DEF PrepareTurn, TalkTypeOK
  <1>3. /\ cancelCall' \in [Calls -> {"idle", "requesting", "sending", "writing", "settling", "done"}]
        /\ \A w \in Cancellers, q \in Runs : cancelCall'[<<w, q>>] \in {cancelCall[<<w, q>>], "requesting"}
    <2>1. CASE Previous = None
      BY <2>1 DEF PrepareTurn, TalkTypeOK
    <2>2. CASE Previous # None
      <3>1. Previous \in Runs /\ "superseder" \in Cancellers
        BY <2>2 DEF Previous, TalkTypeOK, Cancellers
      <3>2. CallIs("superseder", Previous, "requesting")
        BY <2>2 DEF PrepareTurn, CallIs
      <3> HIDE DEF TalkInv
      <3>3. TalkTypeOK
        BY DEF TalkInv
      <3> QED  BY <3>1, <3>2, <3>3, CallMoves
    <2> QED  BY <2>1, <2>2
  <1>4. /\ active' = r /\ runWorker[r] = "absent"
        /\ UNCHANGED <<slotVars, cancelRequested, cancelReason, cancelSent, run, ends>>
    BY DEF PrepareTurn, StartedByCaller
  <1>5. SlotKept
    BY <1>4, SlotUntouched
  <1>6. TalkTypeOK' /\ SlotHeldOpen'
    <2>1. pred' \in [Runs -> Runs \cup {None}]
      BY DEF PrepareTurn, Previous, TalkTypeOK
    <2>2. caller' \in [Runs -> {"new", "prepared", "starting", "done"}]
      BY DEF PrepareTurn, TalkTypeOK
    <2> QED  BY <1>2, <1>3, <1>4, <1>5, <2>1, <2>2 DEF TalkTypeOK, SlotKept, run, ends
  <1>7. StartedByCaller'
    BY <1>4 DEF StartedByCaller, PrepareTurn, TalkTypeOK, run
  <1>8. CancelsAreRequested'
    BY <1>3, <1>4 DEF CancelsAreRequested, run
  <1>9. BoundIsConsumed'
    BY <1>4 DEF BoundIsConsumed, run
  <1>10. UnsettledUntilGenerated'
    BY <1>4 DEF UnsettledUntilGenerated, HasSettled, run, ends
  <1>11. AnsweredIsClosed'
    BY <1>2, <1>3, <1>4, <1>5 DEF AnsweredIsClosed, HasSettled, SlotKept, Terminal, run, ends
  <1>12. CompletedIsAnswered'
    BY <1>2, <1>4 DEF CompletedIsAnswered, run, ends
  <1>13. ActiveIsLast'
    BY <1>2, <1>4 DEF ActiveIsLast, User, run
  <1>14. AnswersAreGrounded'
    <2> SUFFICES ASSUME NEW i \in 1..(n + 1), canonical'[i].role = "assistant"
                 PROVE  /\ i > 1 /\ canonical'[i - 1] = User(canonical'[i].run)
                        /\ canonical'[i].context = i - 1
      BY <1>2 DEF AnswersAreGrounded, User
    <2>1. i \in 1..n /\ canonical[i].role = "assistant"
      BY <1>1, <1>2
    <2>2. i > 1 /\ canonical[i - 1] = User(canonical[i].run) /\ canonical[i].context = i - 1
      BY <2>1 DEF AnswersAreGrounded
    <2> QED  BY <1>2, <2>1, <2>2
  <1> QED  BY <1>6, <1>7, <1>8, <1>9, <1>10, <1>11, <1>12, <1>13, <1>14

\* Steps that leave the runs, their cancellations and the history alone: the
\* active turn, the callers and the runtime may change.
LEMMA RunsUntouched ==
  ASSUME TalkInv, SlotKept, UNCHANGED <<canonical, pred, cancel, run, outcome>>,
         active' \in {active, None}, unsettling' \subseteq Runs,
         caller' \in [Runs -> {"new", "prepared", "starting", "done"}],
         \A r \in Runs : caller'[r] # "done" => caller[r] # "done"
  PROVE  TalkInv'
  <1> USE DEF TalkInv
  <1>1. \A q \in Runs : Answered(q)' <=> Answered(q)
    BY AnswersKept
  <1>2. TalkTypeOK' /\ SlotHeldOpen'
    BY DEF TalkTypeOK, SlotKept, cancel, run
  <1>3. StartedByCaller'
    BY DEF StartedByCaller, run
  <1>4. CancelsAreRequested' /\ BoundIsConsumed'
    BY DEF CancelsAreRequested, BoundIsConsumed, cancel, run
  <1>5. UnsettledUntilGenerated'
    BY DEF UnsettledUntilGenerated, HasSettled, cancel, run
  <1>6. AnsweredIsClosed'
    BY <1>1 DEF AnsweredIsClosed, HasSettled, SlotKept, Terminal, cancel, run
  <1>7. CompletedIsAnswered'
    BY <1>1 DEF CompletedIsAnswered, run
  <1>8. ActiveIsLast'
    BY <1>1, SlotAssumption DEF ActiveIsLast, User, run
  <1>9. AnswersAreGrounded'
    BY AnswersKept
  <1> QED  BY <1>2, <1>3, <1>4, <1>5, <1>6, <1>7, <1>8, <1>9

\* A run that has not settled gets its worker.
LEMMA StartRunStep ==
  ASSUME TalkInv, NEW r \in Runs, StartRun(r)
  PROVE  TalkInv'
  <1> USE DEF TalkInv
  <1>1. SlotKept
    BY SlotUntouched DEF StartRun
  <1>2. /\ runWorker' \in [Runs -> CommitResults \cup
             {"absent", "waiting", "building", "built", "generating", "binding", "consuming", "done"}]
        /\ runWorker[r] = "absent"
        /\ \A q \in Runs : runWorker'[q] = IF q = r /\ ~HasSettled(r) THEN "waiting" ELSE runWorker[q]
    BY DEF StartRun, TalkTypeOK, StartedByCaller
  <1>3. /\ caller' \in [Runs -> {"new", "prepared", "starting", "done"}]
        /\ \A q \in Runs : caller'[q] = IF q = r THEN "done" ELSE caller[q]
    BY DEF StartRun, TalkTypeOK
  <1>4. UNCHANGED <<slotVars, canonical, active, pred, cancel, bound, contextLen, ends>>
    BY DEF StartRun
  <1>5. \A q \in Runs : Answered(q)' <=> Answered(q)
    BY <1>4, AnswersKept
  <1>6. TalkTypeOK' /\ SlotHeldOpen'
    BY <1>1, <1>2, <1>3, <1>4 DEF TalkTypeOK, SlotKept, cancel, ends
  <1>7. StartedByCaller'
    BY <1>2, <1>3 DEF StartedByCaller
  <1>8. CancelsAreRequested'
    BY <1>2, <1>4 DEF CancelsAreRequested, cancel
  <1>9. BoundIsConsumed'
    BY <1>2, <1>4 DEF BoundIsConsumed, TalkTypeOK, CommitResults
  <1>10. UnsettledUntilGenerated'
    BY <1>2, <1>4 DEF UnsettledUntilGenerated, HasSettled, cancel, ends
  <1>11. AnsweredIsClosed'
    BY <1>1, <1>2, <1>4, <1>5 DEF AnsweredIsClosed, HasSettled, SlotKept, Terminal, cancel, ends
  <1>12. CompletedIsAnswered'
    BY <1>2, <1>4, <1>5 DEF CompletedIsAnswered, ends
  <1>13. ActiveIsLast'
    BY <1>2, <1>4, <1>5 DEF ActiveIsLast, User
  <1>14. AnswersAreGrounded'
    BY <1>4, AnswersKept
  <1> QED  BY <1>6, <1>7, <1>8, <1>9, <1>10, <1>11, <1>12, <1>13, <1>14

\* Every step of a conversation and its runtime preserves the invariant.
LEMMA NextTalkInv ==
  ASSUME TalkInv, [TalkNext]_talkVars
  PROVE  TalkInv'
  <1>1. /\ caller \in [Runs -> {"new", "prepared", "starting", "done"}] /\ unsettling \subseteq Runs
    BY DEF TalkInv, TalkTypeOK
  <1>2. ASSUME TurnRefused PROVE TalkInv'
    <2>1. SlotKept /\ active' \in {active, None}
      BY <1>2, SlotUntouched DEF TurnRefused, Previous
    <2> QED  BY <1>1, <1>2, <2>1, RunsUntouched DEF TurnRefused, ends
  <1>3. ASSUME NEW r \in Runs, BindBehavior(r) PROVE TalkInv'
    <2>1. SlotKept
      BY <1>3, SlotUntouched DEF BindBehavior
    <2>2. /\ caller' \in [Runs -> {"new", "prepared", "starting", "done"}]
          /\ \A q \in Runs : caller'[q] # "done" => caller[q] # "done"
      BY <1>1, <1>3 DEF BindBehavior
    <2> QED  BY <1>1, <1>3, <2>1, <2>2, RunsUntouched DEF BindBehavior, ends
  <1>4. ASSUME NEW r \in Runs, RunSettled(r) PROVE TalkInv'
    <2>1. SlotKept /\ unsettling' \subseteq Runs /\ active' \in {active, None}
      BY <1>1, <1>4, SlotUntouched DEF RunSettled
    <2> QED  BY <1>1, <1>4, <2>1, RunsUntouched DEF RunSettled
  <1>5. ASSUME RuntimeStep PROVE TalkInv'
    <2>1. SlotKept
      BY <1>5, SlotStepKeeps DEF RuntimeStep, SlotNext
    <2> QED  BY <1>1, <1>5, <2>1, RunsUntouched DEF RuntimeStep, turn, ends
  <1>6. ASSUME UNCHANGED talkVars PROVE TalkInv'
    <2>1. SlotKept
      BY <1>6, SlotUntouched DEF talkVars
    <2> QED  BY <1>1, <1>6, <2>1, RunsUntouched DEF talkVars, turn, ends
  <1>7. ASSUME NEW who \in Cancellers, NEW r \in Runs, CancelStep(who, r) PROVE TalkInv'
    BY <1>7, SettleBeforeStartStep, SendCancelStep, CancelWrittenStep DEF CancelStep
  <1>8. ASSUME NEW r \in Runs, WorkerStep(r) PROVE TalkInv'
    BY <1>8, AwaitPredecessorStep, BuildRequestStep, CheckCancelledStep, RuntimeGenerateStep,
       SetRuntimeGenerationStep, ReadTerminalStep, SettleResultStep DEF WorkerStep
  <1> QED  BY <1>2, <1>3, <1>4, <1>5, <1>6, <1>7, <1>8, PrepareTurnStep, StartRunStep,
              RequestCancelStep DEF TalkNext

\* A conversation starts empty, with nothing asked of the runtime.
LEMMA InitTalkInv ==
  ASSUME TalkInit
  PROVE  TalkInv
  <1> USE SlotAssumption DEF TalkInit, SlotInit
  <1>1. TalkTypeOK
    <2>1. SlotTypeOK
      BY DEF SlotTypeOK
    <2>2. canonical \in Seq(Messages)
      OBVIOUS
    <2>3. /\ active \in Runs \cup {None} /\ pred \in [Runs -> Runs \cup {None}]
          /\ caller \in [Runs -> {"new", "prepared", "starting", "done"}]
          /\ contextLen \in [Runs -> Nat]
          /\ cancelReason \in [Runs -> {"cancelled", "superseded"}]
      OBVIOUS
    <2>4. /\ runWorker \in [Runs -> CommitResults \cup
               {"absent", "waiting", "building", "built", "generating", "binding", "consuming", "done"}]
          /\ cancelCall \in [Calls -> {"idle", "requesting", "sending", "writing", "settling", "done"}]
          /\ outcome \in [Runs -> Outcomes \cup {"none"}]
      OBVIOUS
    <2> QED  BY <2>1, <2>2, <2>3, <2>4 DEF TalkTypeOK
  <1>2. \A c \in Calls : cancelCall[c] = "idle"
    OBVIOUS
  <1>3. \A w \in Cancellers, q \in Runs : cancelCall[<<w, q>>] = "idle"
    BY <1>2 DEF Calls
  <1>4. \A r \in Runs : ~Answered(r)
    <2>1. 1..Len(canonical) = {}
      OBVIOUS
    <2> HIDE DEF TalkInit
    <2> QED  BY <2>1 DEF Answered
  <1>5. SlotHeldOpen /\ StartedByCaller /\ CancelsAreRequested /\ BoundIsConsumed
    BY <1>3 DEF SlotHeldOpen, StartedByCaller, CancelsAreRequested, BoundIsConsumed
  <1>6. UnsettledUntilGenerated /\ AnsweredIsClosed /\ CompletedIsAnswered
    BY <1>4 DEF UnsettledUntilGenerated, AnsweredIsClosed, CompletedIsAnswered
  <1>7. ActiveIsLast /\ AnswersAreGrounded
    BY DEF ActiveIsLast, AnswersAreGrounded
  <1> QED  BY <1>1, <1>5, <1>6, <1>7 DEF TalkInv

-----------------------------------------------------------------------------
(* The theorems. *)

\* The inductive invariant holds of every conversation, however its turns, its
\* cancellations, its workers and the runtime interleave.
THEOREM TalkInvariant == TalkSpec => []TalkInv
  <1>1. TalkInit => TalkInv
    BY InitTalkInv
  <1>2. TalkInv /\ [TalkNext]_talkVars => TalkInv'
    BY NextTalkInv
  <1> QED  BY <1>1, <1>2, PTL DEF TalkSpec

\* Every value keeps its type.
THEOREM TalkTypeCorrect == TalkSpec => []TalkTypeOK
  BY TalkInvariant, PTL DEF TalkInv

\* Every answer in the history directly follows the message it answers and was
\* generated from exactly what precedes it, whatever turns were prepared,
\* superseded or refused while it was generated.
THEOREM AnswersStayGrounded == TalkSpec => []AnswersAreGrounded
  BY TalkInvariant, PTL DEF TalkInv

\* A run that settled reports completed exactly when the history has its answer.
THEOREM OutcomesMatchHistory == TalkSpec => []OutcomeMatchesHistory
  <1>1. TalkInv => OutcomeMatchesHistory
    BY DEF TalkInv, OutcomeMatchesHistory, AnsweredIsClosed, CompletedIsAnswered, HasSettled
  <1> QED  BY <1>1, TalkInvariant, PTL

\* No generation is started for a run that has settled already.
THEOREM GenerationsAreFresh == TalkSpec => NoStaleGeneration
  <1>1. TalkInv /\ [TalkNext]_talkVars =>
          [slot' # slot /\ slot' # None => ~HasSettled(slot')]_talkVars
    <2> SUFFICES ASSUME TalkInv, TalkNext, slot' # slot, slot' # None
                 PROVE  ~HasSettled(slot')
      OBVIOUS
    <2> USE DEF slotVars
    <2>1. ASSUME NEW r \in Runs, RuntimeGenerate(r) PROVE ~HasSettled(slot')
      <3>1. Generate(r)
        BY <2>1 DEF RuntimeGenerate, GenerateRaises
      <3> QED  BY <2>1, <3>1 DEF RuntimeGenerate, Generate, TalkInv, UnsettledUntilGenerated
    <2>2. ASSUME NEW r \in Runs, WorkerStep(r) PROVE ~HasSettled(slot')
      BY <2>1, <2>2 DEF WorkerStep, AwaitPredecessor, BuildRequest, CheckCancelled,
         SetRuntimeGeneration, ReadTerminal, SettleResult
    <2>3. ASSUME NEW who \in Cancellers, NEW r \in Runs, CancelStep(who, r) PROVE FALSE
      BY <2>3 DEF CancelStep, SettleBeforeStart, SendCancel, CancelTakes, CancelWritten,
         CancelRaises, Vacate
    <2>4. ASSUME RuntimeStep PROVE FALSE
      BY <2>4 DEF RuntimeStep, SlotStep, Terminates, Vacate, OutputLimit, RuntimeFails,
         ShutdownBegins
    <2> QED  BY <2>2, <2>3, <2>4 DEF TalkNext, TurnRefused, PrepareTurn, BindBehavior, StartRun,
                RequestCancel, RunSettled
  <1> QED  BY <1>1, TalkInvariant, PTL DEF TalkSpec, NoStaleGeneration
=============================================================================
