--------------------------- MODULE TemporalProofs ---------------------------
(***************************************************************************)
(* Proofs about wakes, for every value of the constants: those of the      *)
(* TemporalCoordinator and TemporalHost, and in the last part the idle     *)
(* wakes of ProactiveSpeech, which shares no state with the others.        *)
(***************************************************************************)
EXTENDS TemporalHost, ProactiveSpeech, FiniteSetTheorems, SequenceTheorems, TLAPS

\* A wake in the history was created by a commit already counted: the wakes of
\* the next commit are new to it, so a trim does not take one of them for settled.
HistoryIsPast == \A w \in history : w[2] <= commits

CoordinatorInv ==
  /\ CoordinatorTypeOK
  /\ OnePendingPerKey
  /\ PendingBounded
  /\ HistoryKeepsPending
  /\ HistoryIsPast

-----------------------------------------------------------------------------
(* The sets of wakes are finite, and a batch creates one wake for each key    *)
(* that is new.                                                               *)

\* There are as many names for wakes as keys and commits allow.
LEMMA WakesFinite == IsFiniteSet(Wakes)
  <1>1. IsFiniteSet(1..MaxCommits)
    BY FS_Interval, TemporalAssumption
  <1> QED BY <1>1, FS_Product, TemporalAssumption DEF Wakes

\* So is every set of wakes.
LEMMA SubsetFinite ==
  ASSUME NEW S \in SUBSET Wakes
  PROVE  IsFiniteSet(S) /\ Cardinality(S) \in Nat
  BY WakesFinite, FS_Subset, FS_CardinalityType

\* A batch creates as many wakes as it has new keys.
LEMMA NewWakesCounted ==
  ASSUME CoordinatorTypeOK, NEW b \in Batches
  PROVE  /\ IsFiniteSet(NewWakes(b)) /\ IsFiniteSet(NewKeys(b))
         /\ Cardinality(NewWakes(b)) = Cardinality(NewKeys(b))
         /\ Cardinality(NewKeys(b)) \in Nat
  <1>1. NewKeys(b) \subseteq Keys
    BY DEF Batches, NewKeys
  <1>2. IsFiniteSet(NewKeys(b)) /\ Cardinality(NewKeys(b)) \in Nat
    BY <1>1, FS_Subset, FS_CardinalityType, TemporalAssumption
  <1>3. IsFiniteSet({commits + 1}) /\ Cardinality({commits + 1}) = 1
    BY FS_Singleton
  <1>4. /\ IsFiniteSet(NewKeys(b) \X {commits + 1})
        /\ Cardinality(NewKeys(b) \X {commits + 1}) = Cardinality(NewKeys(b)) * 1
    BY <1>2, <1>3, FS_Product
  <1> QED BY <1>2, <1>4 DEF NewWakes

\* The wakes a batch creates, when there are commits left to name them.
LEMMA NewWakesAreWakes ==
  ASSUME CoordinatorTypeOK, NEW b \in Batches,
         NewWakes(b) = {} \/ commits < MaxCommits
  PROVE  NewWakes(b) \subseteq Wakes
  BY TemporalAssumption DEF NewWakes, NewKeys, Batches, Wakes, CoordinatorTypeOK

-----------------------------------------------------------------------------
(* Type correctness. *)

\* A deadline that the model's clock reaches is a clock value once normalized.
LEMMA NormalizedType ==
  ASSUME CoordinatorTypeOK, NEW r \in Requested, Normalized(r) <= MaxClock
  PROVE  Normalized(r) \in 0..MaxClock
  BY TemporalAssumption DEF Normalized, CoordinatorTypeOK

\* Settling wakes leaves their table well typed.
LEMMA LeaveType ==
  ASSUME CoordinatorTypeOK, NEW leaving, NEW how \in {"cancelled", "dispatched"},
         Leave(leaving, how)
  PROVE  /\ status' \in [Wakes -> {"none", "pending", "cancelled", "dispatched"}]
         /\ deadline' \in [Wakes -> 0..MaxClock]
  BY TemporalAssumption DEF Leave, CoordinatorTypeOK

\* Every operation leaves the coordinator well typed.
LEMMA TypePreserved ==
  ASSUME CoordinatorTypeOK, [CoordinatorNext]_coordinatorVars
  PROVE  CoordinatorTypeOK'
  <1> USE DEF CoordinatorTypeOK
  <1>0. NoBatch \in Batches
    <2>1. NoBatch \in [{} -> 0..MaxClock]
      BY DEF NoBatch
    <2> QED BY <2>1 DEF Batches
  <1>1. ASSUME NEW a \in Appliers, NEW p \in Proposals, Prepare(a, p)
        PROVE  CoordinatorTypeOK'
    <2>1. DOMAIN p \subseteq Keys /\ \A k \in DOMAIN p : p[k] \in Requested
      BY DEF Proposals
    <2>2. \A k \in DOMAIN p : Normalized(p[k]) \in 0..MaxClock
      BY <1>1, <2>1, NormalizedType DEF Prepare
    <2>3. [k \in DOMAIN p |-> Normalized(p[k])] \in Batches
      BY <2>1, <2>2 DEF Batches
    <2> QED BY <1>1, <2>3 DEF Prepare
  <1>2. ASSUME NEW a \in Appliers, Commit(a)
        PROVE  CoordinatorTypeOK'
    <2>1. batch' \in [Appliers -> Batches] /\ clock' \in 0..MaxClock
      BY <1>0, <1>2 DEF Commit
    <2>2. CASE ~Fits(batch[a])
      BY <1>2, <2>1, <2>2 DEF Commit
    <2>3. CASE Fits(batch[a])
      <3>1. Creates(batch[a]) /\ batch[a] \in Batches
        BY <1>2, <2>3 DEF Commit
      <3>2. NewWakes(batch[a]) \subseteq Wakes
        BY <3>1, NewWakesAreWakes DEF Creates
      <3>3. \A w \in NewWakes(batch[a]) : batch[a][w[1]] \in 0..MaxClock
        BY <3>1 DEF Batches, NewWakes, NewKeys
      <3>4. /\ status' \in [Wakes -> {"none", "pending", "cancelled", "dispatched"}]
            /\ deadline' \in [Wakes -> 0..MaxClock]
        BY <3>1, <3>3 DEF Creates
      <3>5. commits' \in 0..MaxCommits /\ notice' \in BOOLEAN
        BY <3>1, TemporalAssumption DEF Creates
      <3>6. history' \subseteq Wakes
        BY <3>1, <3>2 DEF Creates, Trim
      <3> QED BY <2>1, <3>4, <3>5, <3>6
    <2> QED BY <2>2, <2>3
  <1>3. ASSUME NEW w \in Wakes, Cancel(w)
        PROVE  CoordinatorTypeOK'
    <2>1. history' \subseteq Wakes
      BY <1>3 DEF Cancel, Trim
    <2>2. /\ status' \in [Wakes -> {"none", "pending", "cancelled", "dispatched"}]
          /\ deadline' \in [Wakes -> 0..MaxClock]
      BY <1>3, LeaveType DEF Cancel
    <2> QED BY <1>3, <2>1, <2>2 DEF Cancel
  <1>4. CASE Notified
    BY <1>4 DEF Notified
  <1>5. CASE Poll
    <2>1. /\ status' \in [Wakes -> {"none", "pending", "cancelled", "dispatched"}]
          /\ deadline' \in [Wakes -> 0..MaxClock]
      BY <1>5, LeaveType DEF Poll
    <2> QED BY <1>5, <2>1 DEF Poll
  <1>6. CASE Passes
    BY <1>6, TemporalAssumption DEF Passes
  <1>7. CASE UNCHANGED coordinatorVars
    BY <1>7 DEF coordinatorVars
  <1> QED BY <1>1, <1>2, <1>3, <1>4, <1>5, <1>6, <1>7 DEF CoordinatorNext, CoordinatorStep

-----------------------------------------------------------------------------
(* The wakes an operation leaves pending. *)

\* A wake never goes back to PENDING: what leaves it only makes Pending smaller.
LEMMA LeavePending ==
  ASSUME CoordinatorTypeOK, NEW leaving, NEW how \in {"cancelled", "dispatched"},
         Leave(leaving, how)
  PROVE  Pending' = Pending \ leaving
  BY DEF Leave, Pending, CoordinatorTypeOK

\* A batch that commits adds exactly its new wakes to the pending ones.
LEMMA CreatesPending ==
  ASSUME CoordinatorTypeOK, NEW b \in Batches, Creates(b)
  PROVE  Pending' = Pending \cup NewWakes(b)
  <1>1. NewWakes(b) \subseteq Wakes
    BY NewWakesAreWakes DEF Creates
  <1> QED BY <1>1 DEF Creates, Pending, CoordinatorTypeOK

\* What an operation does to the pending wakes: it adds those of a batch that
\* fits, or it adds none.
PendingMoves ==
  \/ \E a \in Appliers : Fits(batch[a]) /\ Creates(batch[a])
  \/ Pending' \subseteq Pending

\* prepare(), a commit that does not fit, cancel() and poll_due() add none.
LEMMA StepPending ==
  ASSUME CoordinatorTypeOK, [CoordinatorNext]_coordinatorVars
  PROVE  PendingMoves
  <1>1. ASSUME NEW a \in Appliers, NEW p \in Proposals, Prepare(a, p)
        PROVE  PendingMoves
    BY <1>1 DEF Prepare, Pending, PendingMoves
  <1>2. ASSUME NEW a \in Appliers, Commit(a)
        PROVE  PendingMoves
    BY <1>2 DEF Commit, Pending, PendingMoves
  <1>3. ASSUME NEW w \in Wakes, Cancel(w)
        PROVE  PendingMoves
    BY <1>3, LeavePending DEF Cancel, PendingMoves
  <1>4. CASE Notified
    BY <1>4 DEF Notified, Pending, PendingMoves
  <1>5. CASE Poll
    BY <1>5, LeavePending DEF Poll, PendingMoves
  <1>6. CASE Passes
    BY <1>6 DEF Passes, Pending, PendingMoves
  <1>7. CASE UNCHANGED coordinatorVars
    BY <1>7 DEF coordinatorVars, Pending, PendingMoves
  <1> QED BY <1>1, <1>2, <1>3, <1>4, <1>5, <1>6, <1>7 DEF CoordinatorNext, CoordinatorStep

\* Deduplication: a commit creates wakes only for keys that have none pending.
LEMMA OnePendingPreserved ==
  ASSUME CoordinatorTypeOK, OnePendingPerKey, [CoordinatorNext]_coordinatorVars
  PROVE  OnePendingPerKey'
  <1>1. ASSUME NEW a \in Appliers, Creates(batch[a])
        PROVE  OnePendingPerKey'
    <2>1. Pending' = Pending \cup NewWakes(batch[a])
      BY <1>1, CreatesPending DEF CoordinatorTypeOK
    <2>2. \A w \in NewWakes(batch[a]), v \in Pending : w[1] # v[1]
      BY DEF NewWakes, NewKeys, PendingKeys
    <2>3. \A v, w \in NewWakes(batch[a]) : v[1] = w[1] => v = w
      BY DEF NewWakes
    <2> QED BY <2>1, <2>2, <2>3 DEF OnePendingPerKey
  <1>2. CASE Pending' \subseteq Pending
    BY <1>2 DEF OnePendingPerKey
  <1> QED BY <1>1, <1>2, StepPending DEF PendingMoves

\* Capacity: a commit counts again what is pending before it adds its wakes.
LEMMA BoundPreserved ==
  ASSUME CoordinatorTypeOK, CoordinatorTypeOK', PendingBounded,
         [CoordinatorNext]_coordinatorVars
  PROVE  PendingBounded'
  <1>1. Pending \subseteq Wakes /\ IsFiniteSet(Pending) /\ Cardinality(Pending) \in Nat
    BY SubsetFinite DEF Pending
  <1>2. ASSUME NEW a \in Appliers, Fits(batch[a]), Creates(batch[a])
        PROVE  PendingBounded'
    <2> DEFINE new == NewWakes(batch[a])
    <2>1. batch[a] \in Batches
      BY DEF CoordinatorTypeOK
    <2>2. Pending' = Pending \cup new
      BY <1>2, <2>1, CreatesPending
    <2>3. /\ IsFiniteSet(new) /\ Cardinality(new) = Cardinality(NewKeys(batch[a]))
          /\ Cardinality(new) \in Nat
      BY <2>1, NewWakesCounted
    <2>4. IsFiniteSet(Pending \cap new) /\ Cardinality(Pending \cap new) \in Nat
      BY <1>1, FS_Intersection, FS_CardinalityType
    <2>5. Cardinality(Pending \cup new) =
            Cardinality(Pending) + Cardinality(new) - Cardinality(Pending \cap new)
      BY <1>1, <2>3, FS_Union
    <2>6. Cardinality(Pending) + Cardinality(new) <= PendingCapacity
      BY <1>2, <2>3 DEF Fits
    <2>7. Cardinality(Pending \cup new) <= PendingCapacity
      <3> HIDE DEF new
      <3> QED BY <1>1, <2>3, <2>4, <2>5, <2>6, TemporalAssumption
    <2> QED BY <2>2, <2>7 DEF PendingBounded
  <1>3. CASE Pending' \subseteq Pending
    <2>1. Cardinality(Pending') <= Cardinality(Pending) /\ Cardinality(Pending') \in Nat
      BY <1>1, <1>3, FS_Subset, FS_CardinalityType
    <2> QED BY <1>1, <2>1, TemporalAssumption DEF PendingBounded
  <1> QED BY <1>2, <1>3, StepPending DEF PendingMoves

-----------------------------------------------------------------------------
(* The history. *)

\* A trim keeps what is not settled, and the bound if that much fits.
LEMMA TrimKeeps ==
  ASSUME NEW known \in SUBSET Wakes, NEW settled \in SUBSET Wakes,
         Trim(known, settled), Cardinality(known \ settled) <= HistoryCapacity
  PROVE  /\ history' \subseteq known
         /\ known \ settled \subseteq history'
         /\ Cardinality(history') <= HistoryCapacity
  <1>1. PICK gone \in SUBSET (known \cap settled) :
          /\ Cardinality(gone) = Excess(known, settled)
          /\ history' = known \ gone
    BY DEF Trim
  <1> DEFINE W == Cardinality(known)
             S == Cardinality(known \cap settled)
             G == Cardinality(gone)
  <1>2. /\ IsFiniteSet(known) /\ W \in Nat /\ S \in Nat /\ G \in Nat
    BY SubsetFinite
  <1>3. known \cap gone = gone
    OBVIOUS
  <1>4. Cardinality(known \ gone) = W - G
    BY <1>2, <1>3, FS_Difference, ZenonT(60)
  <1>5. Cardinality(known \ settled) = W - S
    BY <1>2, FS_Difference
  <1>6. G = IF W <= HistoryCapacity THEN 0
            ELSE IF W - HistoryCapacity < S THEN W - HistoryCapacity ELSE S
    BY <1>1 DEF Excess, Smaller
  <1>7. W - G <= HistoryCapacity
    <2>1. W - S <= HistoryCapacity
      BY <1>5
    <2> HIDE DEF W, S, G
    <2> QED BY <1>2, <1>6, <2>1, TemporalAssumption
  <1> QED BY <1>1, <1>4, <1>7

\* The history keeps every pending wake and its bound.
LEMMA HistoryPreserved ==
  ASSUME CoordinatorInv, CoordinatorTypeOK', PendingBounded',
         [CoordinatorNext]_coordinatorVars
  PROVE  HistoryKeepsPending' /\ HistoryIsPast'
  <1> USE DEF CoordinatorInv
  <1>1. Pending \subseteq Wakes /\ history \subseteq Wakes
    BY DEF Pending, CoordinatorTypeOK
  <1>2. ASSUME Pending' \subseteq Pending, UNCHANGED <<history, commits>>
        PROVE  HistoryKeepsPending' /\ HistoryIsPast'
    BY <1>2 DEF HistoryKeepsPending, HistoryIsPast
  <1>3. ASSUME NEW a \in Appliers, Commit(a)
        PROVE  HistoryKeepsPending' /\ HistoryIsPast'
    <2>1. CASE ~Fits(batch[a])
      BY <1>2, <1>3, <2>1 DEF Commit, Pending
    <2>2. CASE Fits(batch[a])
      <3> DEFINE new == NewWakes(batch[a])
                 known == history \cup new
                 settled == history \ Pending
      <3>1. batch[a] \in Batches /\ Creates(batch[a])
        BY <1>3, <2>2 DEF Commit, CoordinatorTypeOK
      <3>2. Pending' = Pending \cup new
        BY <3>1, CreatesPending
      <3>3. new \subseteq Wakes
        BY <3>1, NewWakesAreWakes DEF Creates
      <3>4. commits \in Nat
        BY TemporalAssumption DEF CoordinatorTypeOK
      <3>5. \A w \in new : w[2] = commits + 1
        BY DEF NewWakes
      <3>6. new \cap history = {}
        <4>1. \A w \in history : w[2] <= commits /\ w[2] # commits + 1
          BY <1>1, <3>4 DEF HistoryIsPast, Wakes
        <4> QED BY <3>5, <4>1
      <3>7. known \ settled = Pending'
        BY <3>2, <3>6 DEF HistoryKeepsPending
      <3>8. Trim(known, settled)
        BY <3>1 DEF Creates
      <3>9. Cardinality(known \ settled) <= HistoryCapacity
        <4>1. Cardinality(Pending') <= PendingCapacity /\ Cardinality(Pending') \in Nat
          BY <1>1, <3>2, <3>3, SubsetFinite DEF PendingBounded
        <4> QED BY <3>7, <4>1, TemporalAssumption
      <3>10. known \in SUBSET Wakes /\ settled \in SUBSET Wakes
        BY <1>1, <3>3
      <3>11. /\ history' \subseteq known /\ Pending' \subseteq history'
             /\ Cardinality(history') <= HistoryCapacity
        <4> HIDE DEF known, settled
        <4> QED BY <3>7, <3>8, <3>9, <3>10, TrimKeeps
      <3>12. commits' = IF new = {} THEN commits ELSE commits + 1
        BY <3>1 DEF Creates
      <3>13. \A w \in known : w[2] <= commits'
        <4> HIDE DEF new
        <4>1. \A w \in history : w[2] \in Nat /\ w[2] <= commits
          BY <1>1 DEF HistoryIsPast, Wakes
        <4> QED BY <3>4, <3>5, <3>12, <4>1
      <3> QED BY <3>11, <3>13 DEF HistoryKeepsPending, HistoryIsPast
    <2> QED BY <2>1, <2>2
  <1>4. ASSUME NEW w \in Wakes, Cancel(w)
        PROVE  HistoryKeepsPending' /\ HistoryIsPast'
    <2> DEFINE settled == (history \ Pending) \cup {w}
    <2>1. Pending' = Pending \ {w} /\ Trim(history, settled)
      BY <1>4, LeavePending DEF Cancel
    <2>2. Pending' \subseteq history \ settled
      BY <2>1 DEF HistoryKeepsPending
    <2>3. Cardinality(history \ settled) <= HistoryCapacity
      <3>1. IsFiniteSet(history) /\ Cardinality(history) \in Nat
        BY <1>1, SubsetFinite
      <3>2. /\ Cardinality(history \ settled) <= Cardinality(history)
            /\ Cardinality(history \ settled) \in Nat
        BY <3>1, FS_Subset, FS_CardinalityType
      <3> QED BY <3>1, <3>2, TemporalAssumption DEF HistoryKeepsPending
    <2>4. /\ history' \subseteq history /\ Pending' \subseteq history'
          /\ Cardinality(history') <= HistoryCapacity
      <3>1. history \in SUBSET Wakes /\ settled \in SUBSET Wakes
        BY <1>1
      <3> HIDE DEF settled
      <3> QED BY <2>1, <2>2, <2>3, <3>1, TrimKeeps
    <2>5. commits' = commits
      BY <1>4 DEF Cancel
    <2> QED BY <2>4, <2>5 DEF HistoryKeepsPending, HistoryIsPast
  <1>5. ASSUME NEW a \in Appliers, NEW p \in Proposals, Prepare(a, p)
        PROVE  HistoryKeepsPending' /\ HistoryIsPast'
    BY <1>2, <1>5 DEF Prepare, Pending
  <1>6. CASE Notified
    BY <1>2, <1>6 DEF Notified, Pending
  <1>7. CASE Poll
    <2>1. Pending' = Pending \ Due
      BY <1>7, LeavePending DEF Poll
    <2> QED BY <1>2, <1>7, <2>1 DEF Poll
  <1>8. CASE Passes
    BY <1>2, <1>8 DEF Passes, Pending
  <1>9. CASE UNCHANGED coordinatorVars
    BY <1>2, <1>9 DEF coordinatorVars, Pending
  <1> QED BY <1>3, <1>4, <1>5, <1>6, <1>7, <1>8, <1>9 DEF CoordinatorNext, CoordinatorStep

-----------------------------------------------------------------------------

\* A new coordinator satisfies the invariant.
LEMMA InvInit == CoordinatorInit => CoordinatorInv
  <1> SUFFICES ASSUME CoordinatorInit PROVE CoordinatorInv
    OBVIOUS
  <1>1. NoBatch \in Batches
    <2>1. NoBatch \in [{} -> 0..MaxClock]
      BY DEF NoBatch
    <2> QED BY <2>1 DEF Batches
  <1>2. CoordinatorTypeOK
    <2>1. 0 \in 0..MaxClock /\ 0 \in 0..MaxCommits
      BY TemporalAssumption
    <2>2. batch \in [Appliers -> Batches]
      BY <1>1 DEF CoordinatorInit
    <2>3. status \in [Wakes -> {"none", "pending", "cancelled", "dispatched"}]
      BY DEF CoordinatorInit
    <2>4. deadline \in [Wakes -> 0..MaxClock]
      BY <2>1 DEF CoordinatorInit
    <2> QED BY <2>1, <2>2, <2>3, <2>4 DEF CoordinatorInit, CoordinatorTypeOK
  <1>3. Pending = {} /\ history = {}
    BY DEF CoordinatorInit, Pending
  <1>4. Cardinality({}) = 0
    BY FS_EmptySet
  <1> QED BY <1>2, <1>3, <1>4, TemporalAssumption
          DEF CoordinatorInv, OnePendingPerKey, PendingBounded, HistoryKeepsPending, HistoryIsPast

\* Every section under the coordinator's lock preserves it.
LEMMA InvPreserved == CoordinatorInv /\ [CoordinatorNext]_coordinatorVars => CoordinatorInv'
  BY TypePreserved, OnePendingPreserved, BoundPreserved, HistoryPreserved DEF CoordinatorInv

\* The inductive invariant holds in every reachable state.
THEOREM CoordinatorInvariant == CoordinatorSpec => []CoordinatorInv
  BY InvInit, InvPreserved, PTL DEF CoordinatorSpec

\* prepare(), commit(), cancel() and poll_due() keep the coordinator well typed.
THEOREM CoordinatorTypeCorrect == CoordinatorSpec => []CoordinatorTypeOK
  BY CoordinatorInvariant, PTL DEF CoordinatorInv

\* However many threads prepare and commit the same key against each other, at
\* most one wake of a key is pending: commit() looks at the pending keys again.
THEOREM Deduplicated == CoordinatorSpec => []OnePendingPerKey
  BY CoordinatorInvariant, PTL DEF CoordinatorInv

\* pending_capacity holds although batches are prepared against the same free
\* places: commit() counts again.
THEOREM CapacityHolds == CoordinatorSpec => []PendingBounded
  BY CoordinatorInvariant, PTL DEF CoordinatorInv

\* _trim_history() bounds the history and never forgets a pending wake, which
\* poll_due() and cancel() would then no longer find.
THEOREM PendingRemembered == CoordinatorSpec => []HistoryKeepsPending
  BY CoordinatorInvariant, PTL DEF CoordinatorInv
-----------------------------------------------------------------------------
(* The host. *)

\* A wake that is dispatched was created before: a wake that a later commit
\* creates has never been anything.
WakesArePast == \A w \in Wakes : w[2] > commits => status[w] = "none"

\* Only a worker that submits, or that was cancelled while it did, has triggers
\* it has not submitted.
OnlySubmitterHasTodo == todo # {} => dispatcher \in {"submitting", "cancelled"}

\* The worker exists once the host has started, and only then is there something to stop.
NoWorkerYet ==
  hostState = "new" => dispatcher = "absent" /\ \A s \in Stoppers : stopper[s] = "idle"

HostInv ==
  /\ CoordinatorInv /\ HostTypeOK
  /\ WakesArePast /\ NoWorkerYet /\ OnlySubmitterHasTodo /\ DispatchAccounted

\* Every step of the host is a step of the coordinator, or leaves it alone.
LEMMA HostStepsCoordinate ==
  ASSUME HostTypeOK, [HostNext]_scheduleVars
  PROVE  [CoordinatorNext]_coordinatorVars
  <1>1. LoopTop => Poll \/ UNCHANGED coordinatorVars
    BY DEF LoopTop, Waits, DispatchesDue
  <1>2. CASE \E s \in Stoppers : StopAtRest(s) \/ StopBegins(s) \/ StopStep(s) \/ CallerCancelled(s)
    BY <1>2 DEF StopAtRest, StopBegins, StopStep, StopJoins, StopTimesOut, StopFails, StopEnds,
       CallerCancelled
  <1>3. CASE WorkerRuns \/ SubmissionEnds
    BY <1>1, <1>3 DEF WorkerRuns, SubmissionEnds, CoordinatorNext, coordinatorVars
  <1>4. CASE CoordinatorStep \/ ListenerCalled \/ CallbackRuns \/ Start \/ Tick
    BY <1>4 DEF ListenerCalled, CallbackRuns, Start, Tick, CoordinatorNext
  <1>5. CASE UNCHANGED scheduleVars
    BY <1>5 DEF scheduleVars
  <1> QED BY <1>2, <1>3, <1>4, <1>5 DEF HostNext

\* Wakes are created by one commit and never come back.
LEMMA PastPreserved ==
  ASSUME CoordinatorTypeOK, WakesArePast, [CoordinatorNext]_coordinatorVars
  PROVE  /\ WakesArePast'
         /\ \A w \in Wakes : status[w] \in {"cancelled", "dispatched"} => status'[w] = status[w]
  <1>1. ASSUME NEW b \in Batches, Creates(b), commits' = IF NewWakes(b) = {} THEN commits ELSE commits + 1
        PROVE  /\ WakesArePast'
               /\ \A w \in Wakes : status[w] \in {"cancelled", "dispatched"} => status'[w] = status[w]
    <2>1. \A w \in Wakes : w[2] \in 1..MaxCommits BY DEF Wakes
    <2>2. \A w \in NewWakes(b) : w[2] = commits + 1 BY DEF NewWakes
    <2>3. \A w \in Wakes : status'[w] = IF w \in NewWakes(b) THEN "pending" ELSE status[w]
      BY <1>1 DEF Creates
    <2>4. commits \in Nat /\ MaxCommits \in Nat BY TemporalAssumption DEF CoordinatorTypeOK
    <2> HIDE DEF NewWakes
    <2> QED BY <1>1, <2>1, <2>2, <2>3, <2>4 DEF WakesArePast
  <1>2. ASSUME NEW leaving \in SUBSET Pending, NEW how, Leave(leaving, how), commits' = commits
        PROVE  /\ WakesArePast'
               /\ \A w \in Wakes : status[w] \in {"cancelled", "dispatched"} => status'[w] = status[w]
    BY <1>2 DEF Leave, Pending, WakesArePast
  <1>3. CASE \E a \in Appliers : Commit(a)
    <2>1. PICK a \in Appliers : Commit(a) BY <1>3
    <2>2. batch[a] \in Batches BY DEF CoordinatorTypeOK
    <2>3. CASE Creates(batch[a])
      BY <1>1, <2>2, <2>3 DEF Creates
    <2>4. CASE UNCHANGED <<status, commits>> BY <2>4 DEF WakesArePast
    <2> QED BY <2>1, <2>3, <2>4 DEF Commit
  <1>4. CASE \E w \in Wakes : Cancel(w)
    <2>1. PICK w \in Wakes : Cancel(w) BY <1>4
    <2>2. {w} \in SUBSET Pending BY <2>1 DEF Cancel, Pending
    <2> QED BY <1>2, <2>1, <2>2 DEF Cancel
  <1>5. CASE Poll
    <2>1. Due \in SUBSET Pending BY DEF Due
    <2> QED BY <1>2, <1>5, <2>1 DEF Poll
  <1>6. CASE (\E a \in Appliers, p \in Proposals : Prepare(a, p)) \/ Notified \/ Passes \/ UNCHANGED coordinatorVars
    <2>1. UNCHANGED <<status, commits>>
      BY <1>6 DEF Prepare, Notified, Passes, coordinatorVars
    <2> QED BY <2>1 DEF WakesArePast
  <1> QED BY <1>3, <1>4, <1>5, <1>6 DEF CoordinatorNext, CoordinatorStep

\* The top of the worker's loop, with nothing left to submit but those that are
\* being submitted, which leave a record each.
LEMMA LoopTopAccounts ==
  ASSUME HostInv, LoopTop,
         evidence' = [w \in Wakes |-> IF w \in todo THEN evidence[w] + 1 ELSE evidence[w]]
  PROVE  /\ OnlySubmitterHasTodo' /\ DispatchAccounted'
         /\ todo' \subseteq Wakes /\ alarm' \in 0..MaxClock
         /\ hostState' \in {"new", "running", "stopping", "stopped", "failed"}
         /\ dispatcher' \in Ended \cup {"ready", "waiting", "timed", "submitting"}
         /\ signal' \in BOOLEAN /\ callback' \in BOOLEAN
         /\ hostState' # hostState => hostState' # "new"
  <1> USE TemporalAssumption DEF HostInv, HostTypeOK
  <1>0. hostState' # hostState => hostState' # "new"
    BY DEF LoopTop, Waits, DispatchesDue
  <1>1. /\ hostState' \in {"new", "running", "stopping", "stopped", "failed"}
        /\ dispatcher' \in Ended \cup {"ready", "waiting", "timed", "submitting"}
    BY DEF LoopTop, Waits, DispatchesDue, Ended
  <1>2. signal' \in BOOLEAN
    <2>1. signal' = signal \/ signal' = FALSE BY DEF LoopTop
    <2> QED BY <2>1
  <1>3. callback' \in BOOLEAN
    <2>1. callback' = callback \/ callback' = (callback \/ listening) BY DEF LoopTop, Waits, DispatchesDue
    <2> QED BY <2>1
  <1>4. alarm' \in 0..MaxClock
    <2>1. alarm' = 0 \/ alarm' \in 0..MaxClock BY DEF LoopTop, Waits, DispatchesDue
    <2> QED BY <2>1
  <1>5. (todo' = {} /\ UNCHANGED status) \/ DispatchesDue
    BY DEF LoopTop, Waits, coordinatorVars
  <1>6. CASE todo' = {} /\ UNCHANGED status
    <2>1. DispatchAccounted' BY <1>6 DEF DispatchAccounted
    <2> QED BY <1>0, <1>1, <1>2, <1>3, <1>4, <1>6, <2>1 DEF OnlySubmitterHasTodo
  <1>7. CASE DispatchesDue
    <2>1. Due \subseteq Pending /\ Pending \subseteq Wakes BY DEF Due, Pending
    <2>2. \A w \in Wakes : status'[w] = IF w \in Due THEN "dispatched" ELSE status[w]
      BY <1>7 DEF DispatchesDue, Poll, Leave
    <2>3. \A w \in Due : status[w] = "pending" BY DEF Due, Pending
    <2>4. DispatchAccounted'
      BY <1>7, <2>1, <2>2, <2>3 DEF DispatchAccounted, DispatchesDue
    <2>5. todo' \subseteq Wakes /\ dispatcher' = "submitting" BY <1>7, <2>1 DEF DispatchesDue
    <2> QED BY <1>0, <1>1, <1>2, <1>3, <1>4, <2>4, <2>5 DEF OnlySubmitterHasTodo
  <1> QED BY <1>5, <1>6, <1>7

\* The worker's steps, which end at the top of its loop or rest in a submission.
LEMMA WorkerAccounts ==
  ASSUME HostInv, WorkerRuns \/ SubmissionEnds
  PROVE  HostTypeOK' /\ NoWorkerYet' /\ OnlySubmitterHasTodo' /\ DispatchAccounted'
  <1> USE DEF HostInv
  <1>0. CoordinatorTypeOK' /\ hostState # "new"
    BY HostStepsCoordinate, TypePreserved DEF HostNext, CoordinatorInv, WorkerRuns, SubmissionEnds, NoWorkerYet
  <1>1. CASE WorkerRuns
    <2>1. todo = {} BY <1>1 DEF WorkerRuns, OnlySubmitterHasTodo, Ended
    <2>2. evidence' = [w \in Wakes |-> IF w \in todo THEN evidence[w] + 1 ELSE evidence[w]]
      BY <1>1, <2>1 DEF WorkerRuns, HostTypeOK
    <2>3. LoopTop BY <1>1 DEF WorkerRuns
    <2>4. UNCHANGED <<listening, stopper, stopTimer, evidence>> BY <1>1 DEF WorkerRuns, stops
    <2> HIDE DEF HostInv
    <2>5. /\ OnlySubmitterHasTodo' /\ DispatchAccounted'
          /\ todo' \subseteq Wakes /\ alarm' \in 0..MaxClock
          /\ hostState' \in {"new", "running", "stopping", "stopped", "failed"}
          /\ dispatcher' \in Ended \cup {"ready", "waiting", "timed", "submitting"}
          /\ signal' \in BOOLEAN /\ callback' \in BOOLEAN
          /\ hostState' # hostState => hostState' # "new"
      BY <2>1, <2>2, <2>3, LoopTopAccounts
    <2> QED BY <1>0, <2>4, <2>5 DEF HostInv, HostTypeOK, NoWorkerYet
  <1>2. CASE SubmissionEnds
    <2>1. PICK w \in todo :
            /\ evidence' = [evidence EXCEPT ![w] = @ + 1]
            /\ IF todo = {w} THEN LoopTop
               ELSE /\ todo' = todo \ {w}
                    /\ UNCHANGED <<coordinatorVars, hostState, dispatcher, signal, callback, alarm>>
      BY <1>2 DEF SubmissionEnds
    <2>2. /\ w \in Wakes /\ evidence' \in [Wakes -> Nat]
          /\ evidence' = [v \in Wakes |-> IF v \in {w} THEN evidence[v] + 1 ELSE evidence[v]]
      <3>1. w \in Wakes /\ evidence \in [Wakes -> Nat] BY DEF HostTypeOK
      <3>2. evidence' = [evidence EXCEPT ![w] = @ + 1] BY <2>1
      <3>3. \A v \in Wakes : evidence'[v] = IF v \in {w} THEN evidence[v] + 1 ELSE evidence[v]
        BY <3>1, <3>2
      <3>4. evidence' \in [Wakes -> Nat] BY <3>1, <3>2
      <3> QED BY <3>1, <3>3, <3>4
    <2>3. CASE todo = {w}
      <3>1. UNCHANGED <<listening, stopper, stopTimer>> BY <1>2 DEF SubmissionEnds, stops
      <3> HIDE DEF HostInv
      <3>2. /\ OnlySubmitterHasTodo' /\ DispatchAccounted'
            /\ todo' \subseteq Wakes /\ alarm' \in 0..MaxClock
            /\ hostState' \in {"new", "running", "stopping", "stopped", "failed"}
            /\ dispatcher' \in Ended \cup {"ready", "waiting", "timed", "submitting"}
            /\ signal' \in BOOLEAN /\ callback' \in BOOLEAN
            /\ hostState' # hostState => hostState' # "new"
        <4>1. evidence' = [v \in Wakes |-> IF v \in todo THEN evidence[v] + 1 ELSE evidence[v]]
          BY <2>2, <2>3
        <4> QED BY <2>1, <2>3, <4>1, LoopTopAccounts
      <3> QED BY <1>0, <2>2, <3>1, <3>2 DEF HostInv, HostTypeOK, NoWorkerYet
    <2>4. CASE todo # {w}
      <3>1. DispatchAccounted' BY <2>1, <2>2, <2>4 DEF DispatchAccounted, coordinatorVars
      <3>2. OnlySubmitterHasTodo' BY <1>2, <2>1, <2>4 DEF SubmissionEnds, OnlySubmitterHasTodo
      <3>3. HostTypeOK' BY <1>0, <1>2, <2>1, <2>2, <2>4 DEF SubmissionEnds, HostTypeOK, stops
      <3>4. NoWorkerYet' BY <1>0, <2>1, <2>4 DEF NoWorkerYet
      <3> QED BY <3>1, <3>2, <3>3, <3>4
    <2> QED BY <2>3, <2>4
  <1> QED BY <1>1, <1>2

\* Where neither the triggers nor their records change, what was dispatched stays so.
LEMMA AccountsKept ==
  ASSUME HostInv, [CoordinatorNext]_coordinatorVars, UNCHANGED <<todo, evidence>>,
         \A w \in Wakes : status[w] # "dispatched" => status'[w] # "dispatched"
  PROVE  DispatchAccounted'
  BY PastPreserved DEF HostInv, CoordinatorInv, DispatchAccounted

\* What the other actions leave of the host.
LEMMA RestKeeps ==
  ASSUME HostInv, HostNext, ~(WorkerRuns \/ SubmissionEnds)
  PROVE  HostTypeOK' /\ NoWorkerYet' /\ OnlySubmitterHasTodo' /\ DispatchAccounted'
  <1> USE DEF HostInv
  <1>0. CoordinatorTypeOK' /\ [CoordinatorNext]_coordinatorVars
    BY HostStepsCoordinate, TypePreserved DEF CoordinatorInv
  <1>1. CASE CoordinatorStep /\ UNCHANGED hostVars
    <2>1. ASSUME NEW w \in Wakes, status[w] # "dispatched" PROVE status'[w] # "dispatched"
      <3>1. CASE \E a \in Appliers : Commit(a) BY <2>1, <3>1 DEF Commit, Creates
      <3>2. CASE \E v \in Wakes : Cancel(v) BY <2>1, <3>2 DEF Cancel, Leave
      <3>3. CASE \E a \in Appliers, p \in Proposals : Prepare(a, p) BY <2>1, <3>3 DEF Prepare
      <3> QED BY <1>1, <3>1, <3>2, <3>3 DEF CoordinatorStep
    <2>2. DispatchAccounted' BY <1>0, <1>1, <2>1, AccountsKept DEF hostVars
    <2> QED BY <1>0, <1>1, <2>2 DEF hostVars, stops, HostTypeOK, NoWorkerYet, OnlySubmitterHasTodo
  <1>2. CASE ListenerCalled \/ CallbackRuns \/ Start
    <2>1. UNCHANGED <<status, todo, evidence>>
      BY <1>2 DEF ListenerCalled, CallbackRuns, Start, Notified, coordinatorVars
    <2>2. DispatchAccounted' BY <2>1 DEF DispatchAccounted
    <2>3. callback' \in BOOLEAN
      <3>1. callback' \in {callback, FALSE} \/ callback' = (callback \/ listening)
        BY <1>2 DEF ListenerCalled, CallbackRuns, Start
      <3> QED BY <3>1 DEF HostTypeOK
    <2>4. OnlySubmitterHasTodo'
      BY <1>2 DEF ListenerCalled, CallbackRuns, Start, OnlySubmitterHasTodo, NoWorkerYet
    <2>4a. NoWorkerYet'
      BY <1>2 DEF ListenerCalled, CallbackRuns, Start, NoWorkerYet, stops
    <2>5. HostTypeOK'
      BY <1>0, <1>2, <2>3 DEF ListenerCalled, CallbackRuns, Start, HostTypeOK, stops
    <2> QED BY <2>2, <2>4, <2>4a, <2>5
  <1>3. ASSUME NEW s \in Stoppers, StopAtRest(s) \/ StopBegins(s) \/ StopStep(s) \/ CallerCancelled(s)
        PROVE  HostTypeOK' /\ NoWorkerYet' /\ OnlySubmitterHasTodo' /\ DispatchAccounted'
    <2> USE HostAssumption
    <2>1. UNCHANGED <<status, todo, evidence>>
      BY <1>3 DEF StopAtRest, StopBegins, StopStep, StopJoins, StopTimesOut, StopFails, StopEnds,
         CallerCancelled, coordinatorVars
    <2>2. DispatchAccounted' BY <2>1 DEF DispatchAccounted
    <2>3a. NoWorkerYet'
      BY <1>3, <2>1 DEF StopAtRest, StopBegins, StopStep, StopJoins, StopTimesOut, StopFails, StopEnds,
         CallerCancelled, NoWorkerYet, Ended
    <2>3. OnlySubmitterHasTodo'
      BY <1>3, <2>1 DEF StopAtRest, StopBegins, StopStep, StopJoins, StopTimesOut, StopFails, StopEnds,
         CallerCancelled, OnlySubmitterHasTodo
    <2>4. /\ stopper' \in [Stoppers -> {"idle", "waiting", "gathering", "returned", "raised", "cancelled"}]
          /\ stopTimer' \in [Stoppers -> 0..ShutdownTimeout]
      BY <1>3 DEF StopAtRest, StopBegins, StopStep, StopJoins, StopTimesOut, StopFails, StopEnds,
         CallerCancelled, HostTypeOK
    <2>5. /\ signal' \in BOOLEAN /\ listening' \in BOOLEAN /\ callback' = callback
          /\ alarm' \in {alarm, 0} /\ dispatcher' \in {dispatcher, "cancelled"}
          /\ hostState' \in {hostState, "stopped", "stopping", "failed"}
      BY <1>3 DEF StopAtRest, StopBegins, StopStep, StopJoins, StopTimesOut,
         StopFails, StopEnds, CallerCancelled, HostTypeOK
    <2>6. HostTypeOK'
      <3>1. 0 \in 0..MaxClock BY TemporalAssumption
      <3> QED BY <1>0, <2>1, <2>4, <2>5, <3>1 DEF HostTypeOK, Ended
    <2> QED BY <2>2, <2>3, <2>3a, <2>6
  <1>4. CASE Tick
    <2>1. UNCHANGED <<status, todo, evidence, dispatcher>>
      BY <1>4 DEF Tick, Passes, coordinatorVars
    <2>2. DispatchAccounted' /\ OnlySubmitterHasTodo' /\ NoWorkerYet'
      BY <1>4, <2>1 DEF Tick, DispatchAccounted, OnlySubmitterHasTodo, NoWorkerYet
    <2>3. stopTimer' \in [Stoppers -> 0..ShutdownTimeout]
      BY <1>4, HostAssumption DEF Tick, HostTypeOK
    <2>4. HostTypeOK' BY <1>0, <1>4, <2>3 DEF Tick, HostTypeOK
    <2> QED BY <2>2, <2>4
  <1> QED BY <1>1, <1>2, <1>3, <1>4 DEF HostNext

\* Every step of the host, its workers and its stoppers keeps the host's invariant.
LEMMA HostInvPreserved == HostInv /\ [HostNext]_scheduleVars => HostInv'
  <1> SUFFICES ASSUME HostInv, [HostNext]_scheduleVars PROVE HostInv'
    OBVIOUS
  <1>1. [CoordinatorNext]_coordinatorVars BY HostStepsCoordinate DEF HostInv
  <1>2. CoordinatorInv' BY <1>1, InvPreserved DEF HostInv
  <1>3. WakesArePast' BY <1>1, PastPreserved DEF HostInv, CoordinatorInv
  <1>4. CASE WorkerRuns \/ SubmissionEnds BY <1>2, <1>3, <1>4, WorkerAccounts DEF HostInv
  <1>5. CASE HostNext /\ ~(WorkerRuns \/ SubmissionEnds) BY <1>2, <1>3, <1>5, RestKeeps DEF HostInv
  <1>6. CASE UNCHANGED scheduleVars
    <2>1. UNCHANGED <<coordinatorVars, hostVars>> BY <1>6 DEF scheduleVars
    <2>2. HostTypeOK' BY <1>2, <2>1 DEF HostInv, HostTypeOK, hostVars, stops, CoordinatorInv
    <2>3. DispatchAccounted' /\ OnlySubmitterHasTodo' /\ NoWorkerYet'
      BY <2>1 DEF HostInv, DispatchAccounted, OnlySubmitterHasTodo, NoWorkerYet, hostVars, stops, coordinatorVars
    <2> QED BY <1>2, <1>3, <2>2, <2>3 DEF HostInv
  <1> QED BY <1>4, <1>5, <1>6

\* The host's invariant holds before the first submission.
LEMMA HostInvInit == HostInit => HostInv
  <1> SUFFICES ASSUME HostInit PROVE HostInv
    OBVIOUS
  <1>1. CoordinatorInv BY InvInit DEF HostInit
  <1>2. WakesArePast /\ NoWorkerYet /\ OnlySubmitterHasTodo /\ DispatchAccounted
    BY DEF HostInit, CoordinatorInit, WakesArePast, NoWorkerYet, OnlySubmitterHasTodo, DispatchAccounted
  <1>3. HostTypeOK
    <2>1. 0 \in 0..MaxClock /\ 0 \in 0..ShutdownTimeout BY TemporalAssumption, HostAssumption
    <2> QED BY <1>1, <2>1 DEF HostInit, HostTypeOK, CoordinatorInv
  <1> QED BY <1>1, <1>2, <1>3 DEF HostInv

\* The inductive invariant of the coordinator with its host.
THEOREM HostInvariant == HostSpec => []HostInv
  BY HostInvInit, HostInvPreserved, PTL DEF HostSpec

\* The host is a client like any other: whatever its worker, its stops and the event loop
\* do, the coordinator keeps every promise that is proved of it by itself.
THEOREM HostUsesCoordinator == HostSpec => CoordinatorSpec
  <1>1. HostInit => CoordinatorInit BY DEF HostInit
  <1>2. HostInv /\ [HostNext]_scheduleVars => [CoordinatorNext]_coordinatorVars
    BY HostStepsCoordinate DEF HostInv
  <1> QED BY <1>1, <1>2, HostInvariant, PTL DEF HostSpec, CoordinatorSpec

\* Every fenced wake has one dispatch record or is still to be submitted, however stop(),
\* its timeout and late submissions interleave with the polls.
THEOREM DispatchesAccounted == HostSpec => []DispatchAccounted
  BY HostInvariant, PTL DEF HostInv
-----------------------------------------------------------------------------
(* Speaking unasked: the epoch of an opportunity.                          *)

UserStages == {"away", "begun", "queued", "running", "done"}
AppraisalRecord == [stage : {"none", "queued", "running", "succeeded", "over"}, epoch : Nat]
OnLane == {"thinking", "permitted", "available", "claimed"}
WakeRecord ==
  [stage : OnLane \cup {"submitting", "queued", "quiet", "failed", "confirmed", "over"},
   epoch : Nat, intention : SubjectTurns]
TimerRecord == [wake : Nat \ {NoWake}, epoch : Nat, intention : SubjectTurns]
AttemptRecord == [wake : Nat \ {NoWake}, epoch : Nat, intention : SubjectTurns, claimed : BOOLEAN]

SpeechTyped ==
  /\ userStage \in [SubjectTurns -> UserStages]
  /\ appraisal \in [SubjectTurns -> AppraisalRecord]
  /\ intentions \in Seq(SubjectTurns)
  /\ idleTimer \in TimerRecord \cup {Absent}
  /\ attempt \in AttemptRecord \cup {Absent}
  /\ wakes \in Seq(WakeRecord)
\* A timer and an attempt do not outlive the epoch they belong to; an attempt is that of its wake.
NothingOutdated ==
  /\ idleTimer # Absent => idleTimer.epoch = Epoch
  /\ attempt # Absent => /\ attempt.epoch = Epoch
                         /\ attempt.wake \in IdleWakes /\ wakes[attempt.wake].epoch = Epoch
\* No appraisal is recorded for an epoch that has not begun.
AppraisedInTime == \A u \in SubjectTurns : appraisal[u].epoch <= Epoch
\* A wake and a USER turn are not on the lane together.
LaneIsShared ==
  (\E w \in IdleWakes : wakes[w].stage \in OnLane) => \A u \in SubjectTurns : userStage[u] # "running"
\* While an outdated wake still holds the lane nothing of the new epoch can be appraised, armed or
\* attempted: the lane is what the appraisal would need.
NothingSince ==
  \A w \in IdleWakes : wakes[w].stage \in {"permitted", "available"} /\ wakes[w].epoch # Epoch =>
    /\ attempt = Absent /\ idleTimer = Absent
    /\ \A u \in SubjectTurns :
         appraisal[u].stage \in {"queued", "running", "succeeded"} => appraisal[u].epoch # Epoch
SpeechInv == SpeechTyped /\ NothingOutdated /\ AppraisedInTime /\ LaneIsShared /\ NothingSince

\* The epoch counts the turns that have begun.
LEMMA EpochMoves ==
  ASSUME SpeechTyped, userStage' \in [SubjectTurns -> UserStages]
  PROVE  /\ Epoch \in Nat
         /\ (\A u \in SubjectTurns : userStage'[u] = "away" <=> userStage[u] = "away") => Epoch' = Epoch
         /\ \A u \in SubjectTurns :
              userStage[u] = "away" /\ userStage' = [userStage EXCEPT ![u] = "begun"] => Epoch' = Epoch + 1
  <1> DEFINE begun == {u \in SubjectTurns : userStage[u] # "away"}
             begunNext == {u \in SubjectTurns : userStage'[u] # "away"}
  <1>1. IsFiniteSet(begun) /\ Cardinality(begun) \in Nat
    BY ProactiveAssumption, FS_Subset, FS_CardinalityType
  <1>2. Epoch = Cardinality(begun) /\ Epoch' = Cardinality(begunNext)
    BY DEF Epoch
  <1>3. ASSUME \A u \in SubjectTurns : userStage'[u] = "away" <=> userStage[u] = "away"
        PROVE  begunNext = begun
    BY <1>3
  <1>4. ASSUME NEW u \in SubjectTurns, userStage[u] = "away", userStage' = [userStage EXCEPT ![u] = "begun"]
        PROVE  begunNext = begun \cup {u} /\ u \notin begun
    BY <1>4 DEF SpeechTyped
  <1> HIDE DEF begun, begunNext
  <1>5. \A u : u \notin begun => Cardinality(begun \cup {u}) = Cardinality(begun) + 1
    BY <1>1, FS_AddElement
  <1> QED BY <1>1, <1>2, <1>3, <1>4, <1>5

\* A wake moves on.
LEMMA WakeOnItsWay ==
  ASSUME SpeechTyped, NEW w \in IdleWakes, NEW to \in OnLane \cup {"submitting", "queued", "quiet", "failed",
         "confirmed", "over"}, WakeTo(w, to)
  PROVE  /\ wakes' \in Seq(WakeRecord) /\ DOMAIN wakes' = DOMAIN wakes
         /\ wakes'[w].stage = to /\ wakes'[w].epoch = wakes[w].epoch
         /\ wakes'[w].intention = wakes[w].intention
         /\ \A v \in IdleWakes \ {w} : wakes'[v] = wakes[v]
  <1>1. wakes \in Seq(WakeRecord) /\ w \in 1..Len(wakes) /\ wakes[w] \in WakeRecord
    BY DEF SpeechTyped, IdleWakes
  <1>2. /\ [wakes[w] EXCEPT !.stage = to] \in WakeRecord
        /\ [wakes[w] EXCEPT !.stage = to].stage = to
        /\ [wakes[w] EXCEPT !.stage = to].epoch = wakes[w].epoch
        /\ [wakes[w] EXCEPT !.stage = to].intention = wakes[w].intention
    BY <1>1 DEF WakeRecord
  <1>3. wakes' = [wakes EXCEPT ![w] = [wakes[w] EXCEPT !.stage = to]]
    BY DEF WakeTo
  <1>4. wakes' \in Seq(WakeRecord) /\ Len(wakes') = Len(wakes)
    BY <1>1, <1>2, <1>3, ExceptSeq
  <1> QED BY <1>1, <1>2, <1>3, <1>4 DEF IdleWakes

\* The kinds of steps: the epoch, the timer, the attempt and the appraisals stay or are dropped, and a wake moves
\* where it may.
LEMMA WakeMoveKeepsInv ==
  ASSUME SpeechInv, NEW w \in IdleWakes,
         NEW to \in OnLane \cup {"submitting", "queued", "quiet", "failed", "confirmed", "over"},
         WakeTo(w, to), UNCHANGED <<userStage, appraisal, idleTimer>>,
         intentions' \in Seq(SubjectTurns),
         \/ attempt' = Absent \/ UNCHANGED attempt
         \/ attempt # Absent /\ attempt' = [attempt EXCEPT !.claimed = TRUE],
         to \in OnLane => wakes[w].stage \in OnLane \/ LaneFree,
         to \in {"permitted", "available"} =>
            wakes[w].stage \in {"permitted", "available"} \/ wakes[w].epoch = Epoch
  PROVE  SpeechInv'
  <1>1. /\ wakes' \in Seq(WakeRecord) /\ DOMAIN wakes' = DOMAIN wakes
        /\ wakes'[w].stage = to /\ wakes'[w].epoch = wakes[w].epoch
        /\ \A v \in IdleWakes \ {w} : wakes'[v] = wakes[v]
    BY WakeOnItsWay DEF SpeechInv
  <1>2. UNCHANGED Epoch
    BY DEF Epoch
  <1>3. /\ attempt' \in AttemptRecord \cup {Absent}
        /\ attempt' # Absent => attempt # Absent /\ attempt'.epoch = attempt.epoch /\ attempt'.wake = attempt.wake
    BY DEF SpeechInv, SpeechTyped, AttemptRecord
  <1>4. SpeechTyped'
    BY <1>1, <1>3 DEF SpeechInv, SpeechTyped
  <1>5. NothingOutdated'
    BY <1>1, <1>2, <1>3 DEF SpeechInv, NothingOutdated, IdleWakes
  <1>6. AppraisedInTime'
    BY <1>2 DEF SpeechInv, AppraisedInTime
  <1>7. LaneIsShared'
    BY <1>1 DEF SpeechInv, LaneIsShared, LaneFree, IdleWakes, OnLane
  <1>8. NothingSince'
    BY <1>1, <1>2, <1>3 DEF SpeechInv, NothingSince, IdleWakes
  <1> QED BY <1>4, <1>5, <1>6, <1>7, <1>8 DEF SpeechInv

\* A USER turn that has begun moves on, and may record its appraisal as it completes.
LEMMA UserMoveKeepsInv ==
  ASSUME SpeechInv, NEW u \in SubjectTurns, userStage[u] # "away",
         NEW to \in UserStages \ {"away"}, UserTo(u, to),
         to = "running" => LaneFree,
         \/ UNCHANGED appraisal
         \/ userStage[u] = "running"
            /\ appraisal' = [appraisal EXCEPT ![u] = [stage |-> "queued", epoch |-> Epoch]],
         UNCHANGED <<intentions, idleTimer, attempt, wakes>>
  PROVE  SpeechInv'
  <1>1. userStage' \in [SubjectTurns -> UserStages] /\ userStage \in [SubjectTurns -> UserStages]
    BY DEF SpeechInv, SpeechTyped, UserTo
  <1>2. UNCHANGED Epoch /\ Epoch \in Nat
    BY <1>1, EpochMoves DEF SpeechInv, UserTo
  <1>3. appraisal' \in [SubjectTurns -> AppraisalRecord]
    <2>1. [stage |-> "queued", epoch |-> Epoch] \in AppraisalRecord
      BY <1>2 DEF AppraisalRecord
    <2> QED BY <2>1 DEF SpeechInv, SpeechTyped
  <1>4. SpeechTyped'
    BY <1>1, <1>3 DEF SpeechInv, SpeechTyped
  <1>5. NothingOutdated'
    BY <1>2 DEF SpeechInv, NothingOutdated, IdleWakes
  <1>6. AppraisedInTime'
    BY <1>2 DEF SpeechInv, SpeechTyped, AppraisedInTime
  <1>7. LaneIsShared'
    BY <1>1 DEF SpeechInv, LaneIsShared, LaneFree, IdleWakes, UserTo, OnLane
  <1>8. NothingSince'
    <2>1. CASE UNCHANGED appraisal
      BY <1>2, <2>1 DEF SpeechInv, NothingSince, IdleWakes
    <2>2. CASE userStage[u] = "running"
      BY <1>2, <2>2 DEF SpeechInv, NothingSince, LaneIsShared, OnLane, IdleWakes
    <2> QED BY <2>1, <2>2
  <1> QED BY <1>4, <1>5, <1>6, <1>7, <1>8 DEF SpeechInv

\* A USER turn begins: the epoch is new, and the timer and the attempt of the last are gone.
LEMMA UserBeginsKeepsInv ==
  ASSUME SpeechInv, NEW u \in SubjectTurns, UserBegins(u)
  PROVE  SpeechInv'
  <1>1. userStage' \in [SubjectTurns -> UserStages] /\ userStage' = [userStage EXCEPT ![u] = "begun"]
        /\ userStage \in [SubjectTurns -> UserStages] /\ userStage[u] = "away"
    BY DEF SpeechInv, SpeechTyped, UserBegins, UserTo, UserStages
  <1>2. Epoch' = Epoch + 1 /\ Epoch \in Nat
    BY <1>1, EpochMoves DEF SpeechInv
  <1>3. idleTimer' = Absent /\ attempt' = Absent /\ UNCHANGED <<appraisal, intentions, wakes>>
    BY DEF UserBegins
  <1>4. \A v \in SubjectTurns : appraisal[v].epoch \in Nat /\ appraisal[v].epoch <= Epoch
    BY DEF SpeechInv, SpeechTyped, AppraisedInTime, AppraisalRecord
  <1>5. SpeechTyped'
    BY <1>1, <1>3 DEF SpeechInv, SpeechTyped
  <1>6. NothingOutdated'
    BY <1>3 DEF NothingOutdated
  <1>7. AppraisedInTime' /\ NothingSince'
    BY <1>2, <1>3, <1>4 DEF AppraisedInTime, NothingSince
  <1>8. LaneIsShared'
    BY <1>1, <1>3 DEF SpeechInv, LaneIsShared, IdleWakes
  <1> QED BY <1>5, <1>6, <1>7, <1>8 DEF SpeechInv

\* An appraisal moves on; when it settles it may arm the timer, for its own epoch.
LEMMA AppraisalKeepsInv ==
  ASSUME SpeechInv, NEW u \in SubjectTurns,
         NEW to \in {"running", "succeeded", "over"}, AppraisalTo(u, to),
         to # "over" => appraisal[u].stage \in {"queued", "running"},
         intentions' \in Seq(SubjectTurns), UNCHANGED <<userStage, wakes>>,
         \/ UNCHANGED <<idleTimer, attempt>>
         \/ /\ appraisal[u].stage = "succeeded" /\ appraisal[u].epoch = Epoch
            /\ idleTimer' \in TimerRecord /\ idleTimer'.epoch = Epoch /\ attempt' = Absent
  PROVE  SpeechInv'
  <1>1. UNCHANGED Epoch
    BY DEF Epoch
  <1>2. /\ appraisal' \in [SubjectTurns -> AppraisalRecord] /\ appraisal'[u].stage = to
        /\ \A v \in SubjectTurns : appraisal'[v].epoch = appraisal[v].epoch
        /\ \A v \in SubjectTurns \ {u} : appraisal'[v] = appraisal[v]
    BY DEF SpeechInv, SpeechTyped, AppraisalTo, AppraisalRecord
  <1>3. SpeechTyped'
    BY <1>2 DEF SpeechInv, SpeechTyped
  <1>4. NothingOutdated'
    BY <1>1 DEF SpeechInv, NothingOutdated, IdleWakes
  <1>5. AppraisedInTime'
    BY <1>1, <1>2 DEF SpeechInv, AppraisedInTime
  <1>6. LaneIsShared'
    BY DEF SpeechInv, LaneIsShared, IdleWakes
  <1>7. NothingSince'
    <2>1. CASE UNCHANGED <<idleTimer, attempt>>
      BY <1>1, <1>2, <2>1 DEF SpeechInv, NothingSince, IdleWakes
    <2>2. CASE appraisal[u].stage = "succeeded" /\ appraisal[u].epoch = Epoch
      BY <1>1, <1>2, <2>2 DEF SpeechInv, NothingSince, IdleWakes
    <2> QED BY <2>1, <2>2
  <1> QED BY <1>3, <1>4, <1>5, <1>6, <1>7 DEF SpeechInv

\* Timer and attempt are dropped.
LEMMA DropKeepsInv ==
  ASSUME SpeechInv, UNCHANGED <<userStage, appraisal, intentions, wakes>>,
         idleTimer' \in {Absent, idleTimer}, attempt' \in {Absent, attempt}
  PROVE  SpeechInv'
  <1>1. UNCHANGED Epoch
    BY DEF Epoch
  <1>2. SpeechTyped'
    BY DEF SpeechInv, SpeechTyped
  <1>3. NothingOutdated' /\ AppraisedInTime'
    BY <1>1 DEF SpeechInv, NothingOutdated, AppraisedInTime, IdleWakes
  <1>4. LaneIsShared' /\ NothingSince'
    BY <1>1 DEF SpeechInv, LaneIsShared, NothingSince, IdleWakes
  <1> QED BY <1>2, <1>3, <1>4 DEF SpeechInv

\* The timer expires and an attempt of its epoch is made.
LEMMA IdleExpiresKeepsInv ==
  ASSUME SpeechInv, IdleExpires
  PROVE  SpeechInv'
  <1>1. CASE UNCHANGED <<attempt, wakes>>
    BY <1>1, DropKeepsInv DEF IdleExpires
  <1>2. CASE ~UNCHANGED <<attempt, wakes>>
    <2> DEFINE fresh == [stage |-> "submitting", epoch |-> idleTimer.epoch, intention |-> idleTimer.intention]
    <2>1. /\ idleTimer # Absent /\ idleTimer \in TimerRecord /\ idleTimer.epoch = Epoch
          /\ idleTimer' = Absent /\ wakes' = Append(wakes, fresh)
          /\ attempt' = [wake |-> Len(wakes) + 1, epoch |-> idleTimer.epoch,
                         intention |-> idleTimer.intention, claimed |-> FALSE]
          /\ UNCHANGED <<userStage, appraisal, intentions>>
      BY <1>2 DEF IdleExpires, SpeechInv, SpeechTyped
    <2>2. fresh \in WakeRecord /\ wakes \in Seq(WakeRecord) /\ Len(wakes) \in Nat
          /\ fresh.stage = "submitting" /\ fresh.epoch = Epoch
      BY <2>1 DEF SpeechInv, SpeechTyped, WakeRecord, TimerRecord
    <2> HIDE DEF fresh
    <2>3. /\ wakes' \in Seq(WakeRecord) /\ Len(wakes') = Len(wakes) + 1
          /\ wakes'[Len(wakes) + 1] = fresh /\ \A v \in 1..Len(wakes) : wakes'[v] = wakes[v]
          /\ DOMAIN wakes' = 1..(Len(wakes) + 1) /\ DOMAIN wakes = 1..Len(wakes)
      BY <2>1, <2>2
    <2>4. attempt' \in AttemptRecord /\ attempt'.wake = Len(wakes) + 1 /\ attempt'.epoch = Epoch
      BY <2>1, <2>2 DEF AttemptRecord, TimerRecord, NoWake
    <2>5. UNCHANGED Epoch
      BY <2>1 DEF Epoch
    <2>6. SpeechTyped'
      BY <2>1, <2>3, <2>4 DEF SpeechInv, SpeechTyped
    <2>7. NothingOutdated' /\ AppraisedInTime'
      BY <2>1, <2>2, <2>3, <2>4, <2>5 DEF SpeechInv, NothingOutdated, AppraisedInTime, IdleWakes
    <2>8. LaneIsShared'
      BY <2>1, <2>2, <2>3 DEF SpeechInv, LaneIsShared, IdleWakes, OnLane
    <2>9. NothingSince'
      BY <2>1, <2>2, <2>3, <2>5 DEF SpeechInv, NothingSince, IdleWakes
    <2> QED BY <2>6, <2>7, <2>8, <2>9 DEF SpeechInv
  <1> QED BY <1>1, <1>2

\* The steps of one wake.
WakeStep(w) ==
  \/ WakeAdmitted(w) \/ WakeNotAdmitted(w) \/ WakeThinks(w) \/ WakeQuiet(w)
  \/ WakeCancelled(w) \/ WakePermitted(w)
  \/ SendAvailable(w) \/ SendClaims(w) \/ SendConfirmed(w) \/ SendFails(w) \/ WakeSettles(w)
\* They keep the invariant.
LEMMA WakesKeepInv ==
  ASSUME SpeechInv, NEW w \in IdleWakes, WakeStep(w)
  PROVE  SpeechInv'
  <1> DEFINE Stages == OnLane \cup {"submitting", "queued", "quiet", "failed", "confirmed", "over"}
  <1>0. /\ intentions \in Seq(SubjectTurns) /\ attempt \in AttemptRecord \cup {Absent}
        /\ OnLane \subseteq Stages
        /\ {"submitting", "queued", "quiet", "failed", "confirmed", "over"} \subseteq Stages
        /\ OnLane = {"thinking", "permitted", "available", "claimed"}
    BY DEF SpeechInv, SpeechTyped, OnLane
  <1>1. ASSUME NEW from, NEW to \in Stages, WakeMoves(w, from, to),
               to \in OnLane => from \in OnLane \/ LaneFree,
               to \in {"permitted", "available"} =>
                  from \in {"permitted", "available"} \/ wakes[w].epoch = Epoch
        PROVE  SpeechInv'
    BY <1>0, <1>1, WakeMoveKeepsInv DEF WakeMoves
  <1>2. CASE WakeAdmitted(w)
    BY <1>0, <1>1, <1>2 DEF WakeAdmitted
  <1>3. CASE WakeNotAdmitted(w)
    BY <1>0, <1>3, WakeMoveKeepsInv DEF WakeNotAdmitted
  <1>4. CASE WakeThinks(w) \/ WakeQuiet(w) \/ WakeCancelled(w) \/ SendFails(w)
    BY <1>0, <1>1, <1>4 DEF WakeThinks, WakeQuiet, WakeCancelled, SendFails
  <1>5. CASE WakePermitted(w)
    <2>1. attempt.wake = w => wakes[w].epoch = Epoch
      <3>1. w # NoWake
        BY DEF IdleWakes, SpeechInv, SpeechTyped, NoWake
      <3>2. Absent.wake = NoWake
        BY DEF Absent
      <3> QED BY <3>1, <3>2 DEF SpeechInv, NothingOutdated
    <2> QED BY <1>0, <1>1, <1>5, <2>1 DEF WakePermitted
  <1>6. CASE SendAvailable(w)
    BY <1>0, <1>1, <1>6 DEF SendAvailable
  <1>7. CASE SendClaims(w)
    <2>1. CASE CanSend
      BY <1>0, <1>7, <2>1, WakeMoveKeepsInv DEF SendClaims, CanSend
    <2>2. CASE ~CanSend
      BY <1>0, <1>7, <2>2, WakeMoveKeepsInv DEF SendClaims
    <2> QED BY <2>1, <2>2
  <1>8. CASE SendConfirmed(w)
    BY <1>0, <1>8, WakeMoveKeepsInv DEF SendConfirmed
  <1>9. CASE WakeSettles(w)
    <2>1. intentions' \in Seq(SubjectTurns)
      BY <1>0, <1>9 DEF WakeSettles, ActiveIntention
    <2> QED BY <1>0, <1>9, <2>1, WakeMoveKeepsInv DEF WakeSettles
  <1> QED BY <1>2, <1>3, <1>4, <1>5, <1>6, <1>7, <1>8, <1>9 DEF WakeStep

\* Every step keeps the invariant.
LEMMA SpeechStepKeepsInv ==
  ASSUME SpeechInv, SpeechNext
  PROVE  SpeechInv'
  <1>0. intentions \in Seq(SubjectTurns) /\ wakes \in Seq(WakeRecord)
        /\ appraisal \in [SubjectTurns -> AppraisalRecord]
    BY DEF SpeechInv, SpeechTyped
  <1>1. ASSUME NEW u \in SubjectTurns,
               UserQueued(u) \/ UserRuns(u) \/ UserCompletes(u) \/ UserFails(u)
        PROVE  SpeechInv'
    BY <1>1, UserMoveKeepsInv DEF UserQueued, UserRuns, UserCompletes, UserFails, UserStages
  <1>2. ASSUME NEW u \in SubjectTurns, AppraisalRuns(u) \/ AppraisalFails(u)
        PROVE  SpeechInv'
    BY <1>0, <1>2, AppraisalKeepsInv DEF AppraisalRuns, AppraisalFails
  <1>3. ASSUME NEW u \in SubjectTurns, AppraisalSucceeds(u)
        PROVE  SpeechInv'
    <2>1. intentions' \in Seq(SubjectTurns)
      BY <1>0, <1>3 DEF AppraisalSucceeds
    <2> QED BY <1>3, <2>1, AppraisalKeepsInv DEF AppraisalSucceeds
  <1>4. ASSUME NEW u \in SubjectTurns, AppraisalSettles(u)
        PROVE  SpeechInv'
    <2>1. CASE UNCHANGED <<idleTimer, attempt>>
      BY <1>0, <1>4, <2>1, AppraisalKeepsInv DEF AppraisalSettles
    <2>2. CASE ~UNCHANGED <<idleTimer, attempt>>
      <3>1. /\ AttemptCurrent(u) /\ ActiveIntention # {} /\ attempt' = Absent
            /\ idleTimer' = [wake |-> Len(wakes) + 1, epoch |-> appraisal[u].epoch, intention |-> Head(intentions)]
        BY <1>4, <2>2 DEF AppraisalSettles
      <3>2. Head(intentions) \in SubjectTurns /\ Len(wakes) + 1 \in Nat \ {NoWake}
            /\ appraisal[u].epoch \in Nat
        BY <1>0, <3>1 DEF ActiveIntention, NoWake, AppraisalRecord
      <3>3. idleTimer' \in TimerRecord /\ idleTimer'.epoch = Epoch /\ appraisal[u].epoch = Epoch
        BY <3>1, <3>2 DEF TimerRecord, AttemptCurrent
      <3> QED BY <1>0, <1>4, <3>1, <3>3, AppraisalKeepsInv DEF AppraisalSettles
    <2> QED BY <2>1, <2>2
  <1>5. ASSUME NEW w \in IdleWakes, WakeStep(w) PROVE SpeechInv'
    BY <1>5, WakesKeepInv
  <1>6. CASE TargetBinds \/ OtherSubject \/ RuntimeStops \/ PresenceCloses
    BY <1>6, DropKeepsInv DEF TargetBinds, OtherSubject, RuntimeStops, PresenceCloses
  <1>7. CASE IdleExpires
    BY <1>7, IdleExpiresKeepsInv
  <1> QED BY <1>1, <1>2, <1>3, <1>4, <1>5, <1>6, <1>7, UserBeginsKeepsInv DEF SpeechNext, WakeStep

\* Whatever is armed, attempted or appraised belongs to the epoch of the last USER turn that began.
THEOREM SpeechInvariant == SpeechSpec => []SpeechInv
  <1>1. SpeechInit => SpeechInv
    <2> SUFFICES ASSUME SpeechInit PROVE SpeechInv
      OBVIOUS
    <2>1. SpeechTyped
      BY DEF SpeechInit, SpeechTyped, UserStages, AppraisalRecord
    <2>2. Epoch \in Nat
      BY <2>1, ProactiveAssumption, FS_Subset, FS_CardinalityType DEF Epoch
    <2>3. NothingOutdated /\ AppraisedInTime /\ LaneIsShared /\ NothingSince
      BY <2>2 DEF SpeechInit, NothingOutdated, AppraisedInTime, LaneIsShared, NothingSince, IdleWakes
    <2> QED BY <2>1, <2>3 DEF SpeechInv
  <1>2. SpeechInv /\ UNCHANGED speechVars => SpeechInv'
    BY DEF SpeechInv, SpeechTyped, NothingOutdated, AppraisedInTime, LaneIsShared, NothingSince, IdleWakes,
           Epoch, speechVars
  <1> QED BY <1>1, <1>2, SpeechStepKeepsInv, PTL DEF SpeechSpec

\* A send is claimed only for an opportunity of the current epoch, with no USER work pending, the
\* subject still bound and the runtime running: for any number of turns and wakes.
THEOREM SpeaksUndisturbed == SpeechSpec => SpeaksOnlyUndisturbed
  <1>1. ASSUME SpeechInv, SpeechNext, NEW w \in IdleWakes,
               wakes[w].stage # "claimed", wakes'[w].stage = "claimed"
        PROVE  wakes[w].epoch = Epoch /\ ~UserWork /\ target = "bound" /\ life = "running"
    <2>1. SendClaims(w) /\ CanSend
      <3>1. ASSUME NEW v \in IdleWakes,
                   NEW to \in OnLane \cup {"submitting", "queued", "quiet", "failed", "confirmed", "over"},
                   WakeTo(v, to)
            PROVE  to = "claimed" /\ v = w
        BY <1>1, <3>1, WakeOnItsWay DEF SpeechInv
      <3>2. wakes' # wakes
        BY <1>1
      <3>3. ~IdleExpires
        <4>1. wakes \in Seq(WakeRecord) /\ w \in 1..Len(wakes)
          BY <1>1 DEF SpeechInv, SpeechTyped, IdleWakes
        <4>2. ASSUME NEW x, wakes' = Append(wakes, x) PROVE FALSE
          BY <1>1, <4>1, <4>2
        <4> QED BY <3>2, <4>2 DEF IdleExpires
      <3>4. PICK v \in IdleWakes : WakeStep(v)
        BY <1>1, <3>2, <3>3
           DEF SpeechNext, WakeStep, UserBegins, UserQueued, UserRuns, UserCompletes, UserFails,
               AppraisalRuns, AppraisalSucceeds, AppraisalFails, AppraisalSettles, TargetBinds,
               OtherSubject, RuntimeStops, PresenceCloses
      <3>5. SendClaims(v) /\ CanSend
        BY <3>1, <3>4 DEF WakeStep, WakeAdmitted, WakeNotAdmitted, WakeThinks, WakeQuiet, WakeCancelled,
               WakePermitted, SendAvailable, SendClaims, SendConfirmed, SendFails, WakeSettles,
               WakeMoves, OnLane
      <3>6. v = w
        BY <3>1, <3>5 DEF SendClaims, OnLane
      <3> QED BY <3>5, <3>6
    <2>2. wakes[w].stage = "available" /\ attempt # Absent
      BY <2>1 DEF SendClaims, CanSend
    <2>3. wakes[w].epoch = Epoch
      BY <1>1, <2>2 DEF SpeechInv, NothingSince
    <2> QED BY <2>1, <2>3 DEF CanSend
  <1>2. SpeechInv /\ [SpeechNext]_speechVars =>
          [\A w \in IdleWakes :
             (wakes[w].stage # "claimed" /\ wakes'[w].stage = "claimed")
               => /\ wakes[w].epoch = Epoch /\ ~UserWork
                  /\ target = "bound" /\ life = "running"]_speechVars
    BY <1>1
  <1> QED BY <1>2, SpeechInvariant, PTL DEF SpeechSpec, SpeaksOnlyUndisturbed
=============================================================================
