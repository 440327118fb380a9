------------------------ MODULE TemporalCoordinator ------------------------
(***************************************************************************)
(* The coordinator of one-shot wakes                                       *)
(* (apps/runtime/src/lilavel_runtime/temporal.py): wakes are admitted in   *)
(* two phases by the threads that apply proposals, deduplicated while      *)
(* pending, and fenced once when they fall due.                            *)
(*                                                                         *)
(* Each action is one section under the coordinator's lock.  A wake is     *)
(* named by its key (scope, reason and intention) and by the commit that   *)
(* created it; the order of the wakes of one batch is left out.  Actions   *)
(* leave the host's variables alone: the host conjoins them with its own.  *)
(***************************************************************************)
EXTENDS Integers, FiniteSets

CONSTANTS
  Keys,             \* dedup keys
  Appliers,         \* the threads that apply proposals
  PendingCapacity,  \* pending_capacity
  HistoryCapacity,  \* MAX_WAKE_HISTORY
  MinimumDelay,     \* minimum_delay, in clock units
  MaximumHorizon,   \* maximum_horizon
  Requested,        \* the deadlines proposals ask for
  MaxCommits,       \* bound: how many batches ever create a wake
  MaxClock          \* bound: the last time the clock shows

ASSUME TemporalAssumption ==
  /\ PendingCapacity \in Nat \ {0}
  /\ HistoryCapacity \in Nat /\ PendingCapacity <= HistoryCapacity
  /\ MinimumDelay \in Nat \ {0}
  /\ MaximumHorizon \in Nat /\ MinimumDelay <= MaximumHorizon
  /\ Requested \subseteq Nat
  /\ MaxCommits \in Nat /\ MaxClock \in Nat
  /\ IsFiniteSet(Keys)

VARIABLES
  clock,     \* what the clock shows
  status,    \* status of each wake ever created
  deadline,  \* not_before of the pending wakes
  history,   \* the wakes still in _intents
  commits,   \* how many batches have created a wake: names the next ones
  batch,     \* what each applying thread has prepared and not committed: a
             \* deadline for each proposed key
  notice     \* a thread that has changed wakes calls the listeners next

coordinatorVars == <<clock, status, deadline, history, commits, batch, notice>>

-----------------------------------------------------------------------------

Wakes == Keys \X (1..MaxCommits)

Pending     == {w \in Wakes : status[w] = "pending"}
PendingKeys == {w[1] : w \in Pending}

\* A batch names each key once: of equal proposals the first one counts.
Batches   == UNION {[keys -> 0..MaxClock] : keys \in SUBSET Keys}
Proposals == UNION {[keys -> Requested] : keys \in SUBSET Keys \ {{}}}

CoordinatorTypeOK ==
  /\ clock \in 0..MaxClock
  /\ status \in [Wakes -> {"none", "pending", "cancelled", "dispatched"}]
  /\ deadline \in [Wakes -> 0..MaxClock]
  /\ history \subseteq Wakes
  /\ commits \in 0..MaxCommits
  /\ batch \in [Appliers -> Batches]
  /\ notice \in BOOLEAN

NoBatch == [k \in {} |-> 0]

CoordinatorInit ==
  /\ clock = 0 /\ commits = 0 /\ history = {}
  /\ status = [w \in Wakes |-> "none"]
  /\ deadline = [w \in Wakes |-> 0]
  /\ batch = [a \in Appliers |-> NoBatch]
  /\ notice = FALSE

-----------------------------------------------------------------------------
(* Admission. *)

\* _normalize_deadline.
Normalized(requested) ==
  IF requested <= clock + MinimumDelay THEN clock + MinimumDelay
  ELSE IF requested <= clock + MaximumHorizon THEN requested
  ELSE clock + MaximumHorizon

NewKeys(b) == DOMAIN b \ PendingKeys

Fits(b) == Cardinality(Pending) + Cardinality(NewKeys(b)) <= PendingCapacity

Prepared(a) == batch[a] # NoBatch

\* prepare() of a batch that fits; one that does not is answered and forgotten.
Prepare(a, proposal) ==
  /\ ~Prepared(a)
  /\ Fits(proposal)
  /\ \A k \in DOMAIN proposal : Normalized(proposal[k]) <= MaxClock
  /\ batch' = [batch EXCEPT ![a] = [k \in DOMAIN proposal |-> Normalized(proposal[k])]]
  /\ UNCHANGED <<clock, status, deadline, history, commits, notice>>

Smaller(m, n) == IF m < n THEN m ELSE n

\* How many wakes there are to forget: as many as exceed the history, if that
\* many can be forgotten.
Excess(wakes, settled) ==
  IF Cardinality(wakes) <= HistoryCapacity THEN 0
  ELSE Smaller(Cardinality(wakes) - HistoryCapacity, Cardinality(wakes \cap settled))

\* _trim_history: the oldest settled wakes go first, pending ones never.
Trim(wakes, settled) ==
  \E gone \in SUBSET (wakes \cap settled) :
    /\ Cardinality(gone) = Excess(wakes, settled)
    /\ \A g \in gone, w \in (wakes \cap settled) \ gone : g[2] <= w[2]
    /\ history' = wakes \ gone

NewWakesUnchecked(b) == (DOMAIN b) \X {commits + 1}
NewWakes(b) == NewKeys(b) \X {commits + 1}

\* The wakes of a batch that fits, and whether the listeners are to be called.
Creates(b) ==
  LET new == NewWakes(b) IN
    /\ new = {} \/ commits < MaxCommits
    /\ status' = [w \in Wakes |-> IF w \in new THEN "pending" ELSE status[w]]
    /\ deadline' = [w \in Wakes |-> IF w \in new THEN b[w[1]] ELSE deadline[w]]
    /\ Trim(history \cup new, history \ Pending)
    /\ commits' = IF new = {} THEN commits ELSE commits + 1
    /\ notice' = (notice \/ new # {})

\* commit(): keys that became pending since prepare() are duplicates, and the
\* capacity is checked again.
Commit(a) ==
  /\ Prepared(a)
  /\ \/ Fits(batch[a]) /\ Creates(batch[a])
     \/ ~Fits(batch[a]) /\ UNCHANGED <<status, deadline, history, commits, notice>>
  /\ batch' = [batch EXCEPT ![a] = NoBatch]
  /\ UNCHANGED clock

\* A wake leaves PENDING; its deadline no longer matters.
Leave(wakes, how) ==
  /\ status' = [w \in Wakes |-> IF w \in wakes THEN how ELSE status[w]]
  /\ deadline' = [w \in Wakes |-> IF w \in wakes THEN 0 ELSE deadline[w]]

\* cancel() of a pending wake, from any thread; one that is superseded instead
\* differs in name only.
Cancel(w) ==
  /\ status[w] = "pending"
  /\ Leave({w}, "cancelled")
  /\ Trim(history, (history \ Pending) \cup {w})
  /\ notice' = TRUE
  /\ UNCHANGED <<clock, commits, batch>>

\* _notify(), after the lock is released.
Notified ==
  /\ notice
  /\ notice' = FALSE
  /\ UNCHANGED <<clock, status, deadline, history, commits, batch>>

-----------------------------------------------------------------------------
(* Dispatch. *)

Due == {w \in Pending : deadline[w] <= clock}

\* next_deadline(): IsNext(d) holds of the earliest pending deadline.
IsNext(d) ==
  /\ \E w \in Pending : deadline[w] = d
  /\ \A w \in Pending : d <= deadline[w]

\* poll_due() fences every due wake before any is handed out.
Poll ==
  /\ Leave(Due, "dispatched")
  /\ UNCHANGED <<clock, history, commits, batch, notice>>

Passes ==
  /\ clock < MaxClock
  /\ clock' = clock + 1
  /\ UNCHANGED <<status, deadline, history, commits, batch, notice>>

CoordinatorStep ==
  \/ \E a \in Appliers : Commit(a) \/ \E p \in Proposals : Prepare(a, p)
  \/ \E w \in Wakes : Cancel(w)

\* The coordinator by itself, polled at any time.
CoordinatorNext == CoordinatorStep \/ Notified \/ Poll \/ Passes

CoordinatorSpec == CoordinatorInit /\ [][CoordinatorNext]_coordinatorVars

-----------------------------------------------------------------------------
(* What the coordinator promises. *)

\* "Equivalent proposals deduplicate": however two threads prepare and commit
\* the same key, at most one wake of a key is pending.
OnePendingPerKey == \A v, w \in Pending : v[1] = w[1] => v = w

\* The pending capacity holds although batches prepared against the same free
\* places commit one after the other.
PendingBounded == Cardinality(Pending) <= PendingCapacity

\* The bounded history never forgets a pending wake to make room for others.
HistoryKeepsPending ==
  Pending \subseteq history /\ Cardinality(history) <= HistoryCapacity
=============================================================================
