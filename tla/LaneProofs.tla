------------------------------ MODULE LaneProofs ------------------------------
(***************************************************************************)
(* Proofs about the turns of the conversation adapter and the kernel: a    *)
(* turn whose caller has its answer, or its exception, has no run left     *)
(* streaming, and a stop() that returned left nothing running.             *)
(***************************************************************************)
EXTENDS MCServices, FiniteSetTheorems, TLAPS
-----------------------------------------------------------------------------
(* The local lane: what is known of one turn. *)

\* Before anything is prepared nothing exists.
Untouched(t) == local[t] = "idle" =>
  /\ preparer[t] = "none" /\ coreRun[t] = "none" /\ consumer[t] = "none" /\ resolver[t] = "none"
  /\ planner[t] = "none" /\ ~knowsRun[t] /\ asked[t] = 0 /\ localEnd[t] = "none"
\* The core's run exists once the preparer has it, starts only bound to its holder, and
\* is known to the turn only after the preparer ended.
RunFollowsPreparer(t) ==
  /\ coreRun[t] = "none" <=> preparer[t] \in {"none", "running", "refused"}
  /\ coreRun[t] = "started" => preparer[t] = "ended"
  /\ holder[t].bound <=> preparer[t] = "ended"
  /\ preparer[t] = "none" <=> local[t] = "idle"
  /\ local[t] \in {"resolving", "joining", "awaitingRun", "consuming", "awaitingTurn"} => preparer[t] = "ended"
  /\ knowsRun[t] => preparer[t] = "ended"
\* A cancellation given to the holder reaches the run as soon as there is one.
HolderKept(t) ==
  holder[t].cancel =>
    /\ coreRun[t] = "prepared" => preparer[t] \in {"superseding", "binding"}
    /\ coreRun[t] = "started" => coreCancelled[t]
\* A turn on its way out has cancelled its holder, unless its run is over.
HolderToldOnLeaving(t) ==
  local[t] \in {"abandoning", "awaitingRun", "awaitingTurn", "clearing", "clearingRun", "returned"} =>
    holder[t].cancel \/ coreRun[t] = "settled"
\* A consumer presents a run of its own turn; it outlives the turn only if the turn was
\* cancelled while it cleaned up, and it ends after the run.
ConsumerOwnsRun(t) ==
  /\ consumer[t] # "none" =>
       /\ preparer[t] = "ended"
       /\ local[t] \in {"consuming", "awaitingTurn", "clearing", "clearingRun", "returned"}
  /\ local[t] \in {"consuming", "awaitingTurn"} => consumer[t] # "none"
  /\ consumer[t] \in Consuming => local[t] \in {"consuming", "awaitingTurn"} \/ asked[t] = 2
  /\ consumer[t] = "ended" => coreRun[t] = "settled"
\* The same of the resolver, which answers for the planner it asked.
ResolverOwnsPlan(t) ==
  /\ resolver[t] # "none" => preparer[t] = "ended" /\ local[t] \notin {"idle", "preparing", "abandoning"}
  /\ resolver[t] = "asking" => local[t] = "resolving" \/ asked[t] = 2
  /\ resolver[t] = "waiting" => local[t] = "joining" \/ asked[t] = 2
  /\ resolver[t] = "uncontained" => local[t] = "joining" \/ localEnd[t] = "uncontained" \/ asked[t] = 2
  /\ planner[t] = "running" => resolver[t] \in {"asking", "waiting", "uncontained"} \/ asked[t] = 2
  /\ resolver[t] = "none" => planner[t] = "none"
\* How the turn ends is fixed before its clean-up, which only a second cancellation skips.
EndKnown(t) ==
  /\ local[t] \in {"clearing", "clearingRun"} => localEnd[t] \in {"error", "cancelled", "uncontained"}
  /\ localEnd[t] = "none" <=> local[t] \notin {"clearing", "clearingRun", "returned"}
  /\ localEnd[t] = "result" => local[t] = "returned" /\ coreRun[t] = "settled"
  /\ local[t] = "clearingRun" => Prepared(t)
  /\ local[t] = "returned" /\ asked[t] < 2 => Prepared(t)

TurnInv(t) ==
  /\ Untouched(t) /\ RunFollowsPreparer(t) /\ HolderKept(t) /\ HolderToldOnLeaving(t)
  /\ ConsumerOwnsRun(t) /\ ResolverOwnsPlan(t) /\ EndKnown(t)

LocalInv == LocalTypeOK /\ \A t \in LocalIds : TurnInv(t)

\* A step leaves all that concerns a turn alone.
SameTurn(t) ==
  /\ local'[t] = local[t] /\ localEnd'[t] = localEnd[t] /\ asked'[t] = asked[t]
  /\ knowsRun'[t] = knowsRun[t] /\ preparer'[t] = preparer[t] /\ consumer'[t] = consumer[t]
  /\ holder'[t] = holder[t] /\ coreRun'[t] = coreRun[t] /\ coreCancelled'[t] = coreCancelled[t]
  /\ resolver'[t] = resolver[t] /\ planner'[t] = planner[t]

\* Turns that a step leaves alone keep their invariant.
LEMMA OneTurnMoves ==
  ASSUME LocalInv, NEW t \in LocalIds, LocalTypeOK', TurnInv(t)',
         \A u \in LocalIds \ {t} : SameTurn(u)
  PROVE  LocalInv'
  <1> SUFFICES ASSUME NEW u \in LocalIds \ {t} PROVE TurnInv(u)'
    BY DEF LocalInv
  <1>1. TurnInv(u) /\ SameTurn(u)
    BY DEF LocalInv
  <1>2. (Untouched(u) /\ RunFollowsPreparer(u) /\ HolderKept(u))'
    BY <1>1 DEF TurnInv, SameTurn, Untouched, RunFollowsPreparer, HolderKept
  <1>3. (HolderToldOnLeaving(u) /\ ConsumerOwnsRun(u))'
    BY <1>1 DEF TurnInv, SameTurn, HolderToldOnLeaving, ConsumerOwnsRun
  <1>4. (ResolverOwnsPlan(u) /\ EndKnown(u))'
    BY <1>1 DEF TurnInv, SameTurn, ResolverOwnsPlan, EndKnown, Prepared
  <1> QED  BY <1>2, <1>3, <1>4 DEF TurnInv

\* What a holder that is told to cancel does to the run it holds, if any.
Told(t) ==
  /\ holder' \in [LocalIds -> [bound : BOOLEAN, cancel : BOOLEAN]]
  /\ coreRun' \in [LocalIds -> {"none", "prepared", "started", "settled"}]
  /\ coreCancelled' \in [LocalIds -> BOOLEAN] /\ coreActive' = coreActive
  /\ \A u \in LocalIds \ {t} :
       holder'[u] = holder[u] /\ coreRun'[u] = coreRun[u] /\ coreCancelled'[u] = coreCancelled[u]
  /\ holder'[t].bound = holder[t].bound /\ holder'[t].cancel
  /\ coreRun'[t] = IF holder[t].bound /\ coreRun[t] = "prepared" THEN "settled" ELSE coreRun[t]
  /\ holder[t].bound /\ coreRun[t] = "started" => coreCancelled'[t]
  /\ coreCancelled[t] => coreCancelled'[t]

\* A run asked to cancel settles if it has not started, and remembers it.
LEMMA CoreCancels ==
  ASSUME LocalTypeOK, NEW t \in LocalIds, CancelsCore(t)
  PROVE  /\ coreRun' \in [LocalIds -> {"none", "prepared", "started", "settled"}]
         /\ coreCancelled' \in [LocalIds -> BOOLEAN] /\ coreActive' = coreActive
         /\ \A u \in LocalIds \ {t} : coreRun'[u] = coreRun[u] /\ coreCancelled'[u] = coreCancelled[u]
         /\ coreRun'[t] = IF coreRun[t] = "prepared" THEN "settled" ELSE coreRun[t]
         /\ coreRun[t] = "started" => coreCancelled'[t]
         /\ coreCancelled[t] => coreCancelled'[t]
  <1> DEFINE b == coreCancelled[t] \/ coreRun[t] \in {"prepared", "started"}
  <1>1. b \in BOOLEAN /\ coreCancelled' = [coreCancelled EXCEPT ![t] = b]
    BY DEF LocalTypeOK, CancelsCore
  <1>2. /\ coreRun[t] = "started" => b
        /\ coreCancelled[t] => b
    OBVIOUS
  <1> HIDE DEF b
  <1>3. /\ coreCancelled' \in [LocalIds -> BOOLEAN] /\ coreCancelled'[t] = b
        /\ \A u \in LocalIds \ {t} : coreCancelled'[u] = coreCancelled[u]
    BY <1>1 DEF LocalTypeOK
  <1>4. /\ coreRun' \in [LocalIds -> {"none", "prepared", "started", "settled"}]
        /\ coreRun'[t] = IF coreRun[t] = "prepared" THEN "settled" ELSE coreRun[t]
        /\ \A u \in LocalIds \ {t} : coreRun'[u] = coreRun[u]
    BY DEF LocalTypeOK, CancelsCore
  <1> QED  BY <1>2, <1>3, <1>4 DEF CancelsCore

\* Telling the holder of a turn to cancel does just that.
LEMMA HolderTold ==
  ASSUME LocalTypeOK, NEW t \in LocalIds, HolderCancels(t)
  PROVE  Told(t)
  <1>1. /\ holder' \in [LocalIds -> [bound : BOOLEAN, cancel : BOOLEAN]]
        /\ \A u \in LocalIds \ {t} : holder'[u] = holder[u]
        /\ holder'[t].bound = holder[t].bound /\ holder'[t].cancel
    <2> DEFINE h == [holder[t] EXCEPT !.cancel = TRUE]
    <2>1. h \in [bound : BOOLEAN, cancel : BOOLEAN] /\ h.bound = holder[t].bound /\ h.cancel
      BY ZenonT(60) DEF LocalTypeOK
    <2>2. holder' = [holder EXCEPT ![t] = h]
      BY DEF HolderCancels, LocalTypeOK
    <2> HIDE DEF h
    <2> QED  BY <2>1, <2>2 DEF LocalTypeOK
  <1>2. CASE holder[t].bound
    BY <1>1, <1>2, CoreCancels, ZenonT(60) DEF HolderCancels, Told
  <1>3. CASE ~holder[t].bound
    BY <1>1, <1>3 DEF HolderCancels, Told, LocalTypeOK, runState
  <1> QED  BY <1>2, <1>3

\* Binding the run of a turn cancels it if its holder was told to before.
LEMMA HolderBound ==
  ASSUME LocalTypeOK, NEW t \in LocalIds, HolderBinds(t)
  PROVE  /\ holder' \in [LocalIds -> [bound : BOOLEAN, cancel : BOOLEAN]]
         /\ coreRun' \in [LocalIds -> {"none", "prepared", "started", "settled"}]
         /\ coreCancelled' \in [LocalIds -> BOOLEAN] /\ coreActive' = coreActive
         /\ \A u \in LocalIds \ {t} :
              holder'[u] = holder[u] /\ coreRun'[u] = coreRun[u] /\ coreCancelled'[u] = coreCancelled[u]
         /\ holder'[t].bound /\ holder'[t].cancel = holder[t].cancel
         /\ coreRun'[t] = IF holder[t].cancel /\ coreRun[t] = "prepared" THEN "settled" ELSE coreRun[t]
         /\ holder[t].cancel /\ coreRun[t] = "started" => coreCancelled'[t]
         /\ coreCancelled[t] => coreCancelled'[t]
  <1>1. /\ holder' \in [LocalIds -> [bound : BOOLEAN, cancel : BOOLEAN]]
        /\ \A u \in LocalIds \ {t} : holder'[u] = holder[u]
        /\ holder'[t].bound /\ holder'[t].cancel = holder[t].cancel
    <2> DEFINE h == [holder[t] EXCEPT !.bound = TRUE]
    <2>1. h \in [bound : BOOLEAN, cancel : BOOLEAN] /\ h.cancel = holder[t].cancel /\ h.bound
      BY ZenonT(60) DEF LocalTypeOK
    <2>2. holder' = [holder EXCEPT ![t] = h]
      BY DEF HolderBinds, LocalTypeOK
    <2> HIDE DEF h
    <2> QED  BY <2>1, <2>2 DEF LocalTypeOK
  <1>2. CASE holder[t].cancel
    BY <1>1, <1>2, CoreCancels DEF HolderBinds
  <1>3. CASE ~holder[t].cancel
    BY <1>1, <1>3 DEF HolderBinds, LocalTypeOK, runState
  <1> QED  BY <1>2, <1>3

\* What a cancelled resolver does: it stops its generation first, if it has one.
Stopped(t) ==
  /\ resolver' \in [LocalIds -> Resolving \cup {"none", "done", "failed", "cancelled", "uncontained"}]
  /\ \A u \in LocalIds \ {t} : resolver'[u] = resolver[u]
  /\ resolver[t] \notin Resolving => resolver'[t] = resolver[t]
  /\ resolver[t] = "waiting" => resolver'[t] = "cancelled"
  /\ resolver[t] = "asking" => resolver'[t] = IF planner[t] = "none" THEN "cancelled" ELSE "waiting"

\* Cancelling the resolver of a turn does just that.
LEMMA ResolverStops ==
  ASSUME LocalTypeOK, NEW t \in LocalIds, CancelsResolver(t)
  PROVE  Stopped(t)
  <1> DEFINE next == IF resolver[t] = "asking" /\ planner[t] # "none" THEN "waiting"
                     ELSE IF resolver[t] \in Resolving THEN "cancelled" ELSE resolver[t]
  <1>1. /\ resolver[t] \notin Resolving => next = resolver[t]
        /\ resolver[t] = "waiting" => next = "cancelled"
        /\ resolver[t] = "asking" => next = IF planner[t] = "none" THEN "cancelled" ELSE "waiting"
    BY DEF Resolving
  <1>2. resolver' = [resolver EXCEPT ![t] = next]
    BY DEF CancelsResolver, LocalTypeOK
  <1> HIDE DEF next
  <1> QED  BY <1>1, <1>2 DEF Stopped, LocalTypeOK, Resolving

\* A turn begins to prepare its run.
LEMMA LocalBeginsStep ==
  ASSUME LocalInv, NEW t \in LocalIds, LocalBegins(t)
  PROVE  LocalInv'
  <1> USE DEF LocalBegins, LocalGoes, PreparerGoes, laneState, runState, threadState, planState
  <1>1. LocalTypeOK /\ TurnInv(t)
    BY DEF LocalInv
  <1>2. LocalTypeOK'
    BY <1>1 DEF LocalTypeOK, Waiting
  <1>3. \A u \in LocalIds \ {t} : SameTurn(u)
    BY <1>1 DEF LocalTypeOK, SameTurn
  <1>4. TurnInv(t)'
    <2>1. Untouched(t)'
      BY <1>1 DEF Untouched, LocalTypeOK
    <2>2. RunFollowsPreparer(t)'
      BY <1>1 DEF RunFollowsPreparer, TurnInv, LocalTypeOK
    <2>3. HolderKept(t)'
      BY <1>1 DEF HolderKept, TurnInv, Untouched
    <2>4. HolderToldOnLeaving(t)'
      BY <1>1 DEF HolderToldOnLeaving
    <2>5. ConsumerOwnsRun(t)'
      BY <1>1 DEF ConsumerOwnsRun, TurnInv
    <2>6. ResolverOwnsPlan(t)'
      BY <1>1 DEF ResolverOwnsPlan, TurnInv
    <2>7. EndKnown(t)'
      BY <1>1 DEF EndKnown, TurnInv
    <2> QED  BY <2>1, <2>2, <2>3, <2>4, <2>5, <2>6, <2>7 DEF TurnInv
  <1> QED  BY <1>2, <1>3, <1>4, OneTurnMoves

\* The token of a turn is set.
LEMMA AskToCancelStep ==
  ASSUME LocalInv, NEW t \in LocalIds, AskToCancel(t)
  PROVE  LocalInv'
  <1> USE DEF AskToCancel, laneState, runState, threadState, planState
  <1>1. LocalTypeOK /\ TurnInv(t)
    BY DEF LocalInv
  <1>2. LocalTypeOK'
    BY <1>1 DEF LocalTypeOK
  <1>3. \A u \in LocalIds \ {t} : SameTurn(u)
    BY <1>1 DEF LocalTypeOK, SameTurn
  <1>4. TurnInv(t)'
    <2>1. Untouched(t)'
      BY <1>1 DEF Untouched, Waiting
    <2>2. ConsumerOwnsRun(t)'
      BY <1>1 DEF ConsumerOwnsRun, TurnInv
    <2>3. ResolverOwnsPlan(t)'
      BY <1>1 DEF ResolverOwnsPlan, TurnInv
    <2>4. EndKnown(t)'
      BY <1>1 DEF EndKnown, TurnInv, Prepared
    <2>5. RunFollowsPreparer(t)' /\ HolderKept(t)' /\ HolderToldOnLeaving(t)'
      BY <1>1 DEF TurnInv, RunFollowsPreparer, HolderKept, HolderToldOnLeaving
    <2> QED  BY <2>1, <2>2, <2>3, <2>4, <2>5 DEF TurnInv
  <1> QED  BY <1>2, <1>3, <1>4, OneTurnMoves

\* The actor cancels the task of a turn.
LEMMA LocalCancelledStep ==
  ASSUME LocalInv, NEW t \in LocalIds, LocalCancelled(t)
  PROVE  LocalInv'
  <1> USE DEF LocalCancelled, Resolving, LocalReturns, LocalFails, LocalGoes, laneState, runState, threadState, planState
  <1>1. LocalTypeOK /\ TurnInv(t)
    BY DEF LocalInv
  <1>2. HolderCancels(t) => Told(t)
    BY <1>1, HolderTold
  <1>3. CancelsResolver(t) => Stopped(t)
    BY <1>1, ResolverStops
  <1>4. LocalTypeOK'
    <2>1. /\ holder' \in [LocalIds -> [bound : BOOLEAN, cancel : BOOLEAN]]
          /\ coreRun' \in [LocalIds -> {"none", "prepared", "started", "settled"}]
          /\ coreCancelled' \in [LocalIds -> BOOLEAN] /\ coreActive' \in LocalIds \cup {NoLocal}
      BY <1>1, <1>2, <1>3 DEF LocalTypeOK, Told, Stopped
    <2>2. local' \in [LocalIds -> Waiting \cup {"idle", "returned"}]
      BY <1>1, <1>2, <1>3 DEF LocalTypeOK, Waiting
    <2>3. localEnd' \in [LocalIds -> {"none", "result", "error", "cancelled", "uncontained"}]
      BY <1>1, <1>2, <1>3, SMTT(30) DEF LocalTypeOK
    <2>4. /\ resolver' \in [LocalIds -> Resolving \cup {"none", "done", "failed", "cancelled", "uncontained"}]
          /\ consumer' \in [LocalIds -> Consuming \cup {"none", "ended", "failed"}]
      BY <1>1, <1>2, <1>3 DEF LocalTypeOK, Stopped
    <2> QED  BY <1>1, <1>2, <1>3, <2>1, <2>2, <2>3, <2>4 DEF LocalTypeOK
  <1>5. \A u \in LocalIds \ {t} : SameTurn(u)
    BY <1>1, <1>2, <1>3 DEF LocalTypeOK, SameTurn, Told, Stopped
  <1>6. TurnInv(t)'
    <2>1. Untouched(t)'
      BY <1>1, <1>2, <1>3 DEF Untouched, LocalTypeOK
    <2>2. RunFollowsPreparer(t)'
      BY <1>1, <1>2, <1>3 DEF RunFollowsPreparer, TurnInv, Untouched, LocalTypeOK, Told
    <2>3. HolderKept(t)'
      BY <1>1, <1>2, <1>3 DEF HolderKept, TurnInv, RunFollowsPreparer, LocalTypeOK, Told
    <2>4. HolderToldOnLeaving(t)'
      BY <1>1, <1>2, <1>3 DEF HolderToldOnLeaving, TurnInv, Told
    <2>5. ConsumerOwnsRun(t)'
      BY <1>1, <1>2, <1>3 DEF ConsumerOwnsRun, TurnInv, LocalTypeOK, Told
    <2>6. ResolverOwnsPlan(t)'
      BY <1>1, <1>2, <1>3 DEF ResolverOwnsPlan, TurnInv, LocalTypeOK, Stopped
    <2>7. EndKnown(t)'
      BY <1>1, <1>2, <1>3 DEF EndKnown, LocalTypeOK
    <2> QED  BY <2>1, <2>2, <2>3, <2>4, <2>5, <2>6, <2>7 DEF TurnInv
  <1> QED  BY <1>4, <1>5, <1>6, OneTurnMoves

\* The turn sees its preparation end.
LEMMA PrepareSeenStep ==
  ASSUME LocalInv, NEW t \in LocalIds, PrepareSeen(t)
  PROVE  LocalInv'
  <1> USE DEF PrepareSeen, Prepared, LocalFails, StopsAt, LocalGoes, ResolverGoes, laneState, runState, threadState, planState
  <1>1. LocalTypeOK /\ TurnInv(t)
    BY DEF LocalInv
  <1>2. HolderCancels(t) => Told(t)
    BY <1>1, HolderTold
  <1>3. LocalTypeOK'
    <2>1. /\ holder' \in [LocalIds -> [bound : BOOLEAN, cancel : BOOLEAN]]
          /\ coreRun' \in [LocalIds -> {"none", "prepared", "started", "settled"}]
          /\ coreCancelled' \in [LocalIds -> BOOLEAN] /\ coreActive' \in LocalIds \cup {NoLocal}
      BY <1>1, <1>2 DEF LocalTypeOK, Told
    <2>2. local' \in [LocalIds -> Waiting \cup {"idle", "returned"}]
      BY <1>1, <1>2 DEF LocalTypeOK, Waiting
    <2>3. localEnd' \in [LocalIds -> {"none", "result", "error", "cancelled", "uncontained"}]
      BY <1>1, <1>2 DEF LocalTypeOK
    <2>4. /\ resolver' \in [LocalIds -> Resolving \cup {"none", "done", "failed", "cancelled", "uncontained"}]
          /\ consumer' \in [LocalIds -> Consuming \cup {"none", "ended", "failed"}]
      BY <1>1, <1>2 DEF LocalTypeOK, Consuming, Resolving
    <2> QED  BY <1>1, <1>2, <2>1, <2>2, <2>3, <2>4 DEF LocalTypeOK
  <1>4. \A u \in LocalIds \ {t} : SameTurn(u)
    BY <1>1, <1>2 DEF LocalTypeOK, SameTurn, Told
  <1>5. TurnInv(t)'
    <2>1. Untouched(t)'
      BY <1>1, <1>2 DEF Untouched, LocalTypeOK
    <2>2. RunFollowsPreparer(t)'
      BY <1>1, <1>2 DEF RunFollowsPreparer, TurnInv, LocalTypeOK, Told
    <2>3. HolderKept(t)'
      BY <1>1, <1>2 DEF HolderKept, TurnInv, RunFollowsPreparer, Told
    <2>4. HolderToldOnLeaving(t)'
      BY <1>1, <1>2 DEF HolderToldOnLeaving, LocalTypeOK, Told
    <2>5. ConsumerOwnsRun(t)'
      BY <1>1, <1>2 DEF ConsumerOwnsRun, TurnInv, LocalTypeOK
    <2>6. ResolverOwnsPlan(t)'
      BY <1>1, <1>2 DEF ResolverOwnsPlan, TurnInv, LocalTypeOK
    <2>7. EndKnown(t)'
      BY <1>1, <1>2 DEF EndKnown, TurnInv, LocalTypeOK
    <2> QED  BY <2>1, <2>2, <2>3, <2>4, <2>5, <2>6, <2>7 DEF TurnInv
  <1> QED  BY <1>3, <1>4, <1>5, OneTurnMoves

\* A token is seen while the preparation runs.
LEMMA TokenBeforeRunStep ==
  ASSUME LocalInv, NEW t \in LocalIds, TokenBeforeRun(t)
  PROVE  LocalInv'
  <1> USE DEF TokenBeforeRun, StopsAt, LocalGoes, laneState, runState, threadState, planState
  <1>1. LocalTypeOK /\ TurnInv(t)
    BY DEF LocalInv
  <1>2. HolderCancels(t) => Told(t)
    BY <1>1, HolderTold
  <1>3. LocalTypeOK'
    <2>1. /\ holder' \in [LocalIds -> [bound : BOOLEAN, cancel : BOOLEAN]]
          /\ coreRun' \in [LocalIds -> {"none", "prepared", "started", "settled"}]
          /\ coreCancelled' \in [LocalIds -> BOOLEAN] /\ coreActive' \in LocalIds \cup {NoLocal}
      BY <1>1, <1>2 DEF LocalTypeOK, Told
    <2>2. local' \in [LocalIds -> Waiting \cup {"idle", "returned"}]
      BY <1>1, <1>2 DEF LocalTypeOK, Waiting
    <2>3. localEnd' \in [LocalIds -> {"none", "result", "error", "cancelled", "uncontained"}]
      BY <1>1, <1>2 DEF LocalTypeOK
    <2>4. /\ resolver' \in [LocalIds -> Resolving \cup {"none", "done", "failed", "cancelled", "uncontained"}]
          /\ consumer' \in [LocalIds -> Consuming \cup {"none", "ended", "failed"}]
      BY <1>1, <1>2 DEF LocalTypeOK, Consuming, Resolving
    <2> QED  BY <1>1, <1>2, <2>1, <2>2, <2>3, <2>4 DEF LocalTypeOK
  <1>4. \A u \in LocalIds \ {t} : SameTurn(u)
    BY <1>1, <1>2 DEF LocalTypeOK, SameTurn, Told
  <1>5. TurnInv(t)'
    <2>1. Untouched(t)'
      BY <1>1, <1>2 DEF Untouched
    <2>2. RunFollowsPreparer(t)'
      BY <1>1, <1>2 DEF RunFollowsPreparer, TurnInv, Told
    <2>3. HolderKept(t)'
      BY <1>1, <1>2 DEF HolderKept, TurnInv, RunFollowsPreparer, LocalTypeOK, Told
    <2>4. HolderToldOnLeaving(t)'
      BY <1>1, <1>2 DEF HolderToldOnLeaving, Told
    <2>5. ConsumerOwnsRun(t)'
      BY <1>1, <1>2 DEF ConsumerOwnsRun, TurnInv
    <2>6. ResolverOwnsPlan(t)'
      BY <1>1, <1>2 DEF ResolverOwnsPlan, TurnInv
    <2>7. EndKnown(t)'
      BY <1>1, <1>2 DEF EndKnown, TurnInv
    <2> QED  BY <2>1, <2>2, <2>3, <2>4, <2>5, <2>6, <2>7 DEF TurnInv
  <1> QED  BY <1>3, <1>4, <1>5, OneTurnMoves

\* A preparation that was abandoned ends.
LEMMA AbandonedPreparedStep ==
  ASSUME LocalInv, NEW t \in LocalIds, AbandonedPrepared(t)
  PROVE  LocalInv'
  <1> USE DEF AbandonedPrepared, Prepared, LocalFails, LocalGoes, laneState, runState, threadState, planState
  <1>1. LocalTypeOK /\ TurnInv(t)
    BY DEF LocalInv
  <1>2. HolderCancels(t) => Told(t)
    BY <1>1, HolderTold
  <1>3. LocalTypeOK'
    <2>1. /\ holder' \in [LocalIds -> [bound : BOOLEAN, cancel : BOOLEAN]]
          /\ coreRun' \in [LocalIds -> {"none", "prepared", "started", "settled"}]
          /\ coreCancelled' \in [LocalIds -> BOOLEAN] /\ coreActive' \in LocalIds \cup {NoLocal}
      BY <1>1, <1>2 DEF LocalTypeOK, Told
    <2>2. local' \in [LocalIds -> Waiting \cup {"idle", "returned"}]
      BY <1>1, <1>2 DEF LocalTypeOK, Waiting
    <2>3. localEnd' \in [LocalIds -> {"none", "result", "error", "cancelled", "uncontained"}]
      BY <1>1, <1>2 DEF LocalTypeOK
    <2>4. /\ resolver' \in [LocalIds -> Resolving \cup {"none", "done", "failed", "cancelled", "uncontained"}]
          /\ consumer' \in [LocalIds -> Consuming \cup {"none", "ended", "failed"}]
      BY <1>1, <1>2 DEF LocalTypeOK, Consuming, Resolving
    <2> QED  BY <1>1, <1>2, <2>1, <2>2, <2>3, <2>4 DEF LocalTypeOK
  <1>4. \A u \in LocalIds \ {t} : SameTurn(u)
    BY <1>1, <1>2 DEF LocalTypeOK, SameTurn, Told
  <1>5. TurnInv(t)'
    <2>1. Untouched(t)'
      BY <1>1, <1>2 DEF Untouched, LocalTypeOK
    <2>2. RunFollowsPreparer(t)'
      BY <1>1, <1>2 DEF RunFollowsPreparer, TurnInv, LocalTypeOK, Told
    <2>3. HolderKept(t)'
      BY <1>1, <1>2 DEF HolderKept, TurnInv, RunFollowsPreparer, Told
    <2>4. HolderToldOnLeaving(t)'
      BY <1>1, <1>2 DEF HolderToldOnLeaving, TurnInv, Told
    <2>5. ConsumerOwnsRun(t)'
      BY <1>1, <1>2 DEF ConsumerOwnsRun, TurnInv, LocalTypeOK
    <2>6. ResolverOwnsPlan(t)'
      BY <1>1, <1>2 DEF ResolverOwnsPlan, TurnInv
    <2>7. EndKnown(t)'
      BY <1>1, <1>2 DEF EndKnown, TurnInv, LocalTypeOK
    <2> QED  BY <2>1, <2>2, <2>3, <2>4, <2>5, <2>6, <2>7 DEF TurnInv
  <1> QED  BY <1>3, <1>4, <1>5, OneTurnMoves

\* A token is seen while the turn is resolved.
LEMMA TokenWhileResolvingStep ==
  ASSUME LocalInv, NEW t \in LocalIds, TokenWhileResolving(t)
  PROVE  LocalInv'
  <1> USE DEF TokenWhileResolving, Resolving, LocalGoes, laneState, runState, threadState, planState
  <1>1. LocalTypeOK /\ TurnInv(t)
    BY DEF LocalInv
  <1>2. CancelsResolver(t) => Stopped(t)
    BY <1>1, ResolverStops
  <1>3. LocalTypeOK'
    BY <1>1, <1>2 DEF LocalTypeOK, Stopped, Waiting
  <1>4. \A u \in LocalIds \ {t} : SameTurn(u)
    BY <1>1, <1>2 DEF LocalTypeOK, SameTurn, Stopped
  <1>5. TurnInv(t)'
    <2>1. Untouched(t)'
      BY <1>1, <1>2 DEF Untouched
    <2>2. RunFollowsPreparer(t)'
      BY <1>1, <1>2 DEF RunFollowsPreparer, TurnInv
    <2>3. HolderToldOnLeaving(t)'
      BY <1>1, <1>2 DEF HolderToldOnLeaving
    <2>4. ConsumerOwnsRun(t)'
      BY <1>1, <1>2 DEF ConsumerOwnsRun, TurnInv
    <2>5. ResolverOwnsPlan(t)'
      BY <1>1, <1>2 DEF ResolverOwnsPlan, TurnInv, LocalTypeOK, Stopped
    <2>6. EndKnown(t)'
      BY <1>1, <1>2 DEF EndKnown, TurnInv
    <2>7. HolderKept(t)'
      BY <1>1, <1>2 DEF TurnInv, HolderKept, Stopped
    <2> QED  BY <2>1, <2>2, <2>3, <2>4, <2>5, <2>6, <2>7 DEF TurnInv
  <1> QED  BY <1>3, <1>4, <1>5, OneTurnMoves

\* The cancelled resolution is joined.
LEMMA ResolutionJoinedStep ==
  ASSUME LocalInv, NEW t \in LocalIds, ResolutionJoined(t)
  PROVE  LocalInv'
  <1> USE DEF ResolutionJoined, Resolving, LocalFails, StopsAt, LocalGoes, laneState, runState, threadState, planState
  <1>1. LocalTypeOK /\ TurnInv(t)
    BY DEF LocalInv
  <1>2. HolderCancels(t) => Told(t)
    BY <1>1, HolderTold
  <1>3. LocalTypeOK'
    <2>1. /\ holder' \in [LocalIds -> [bound : BOOLEAN, cancel : BOOLEAN]]
          /\ coreRun' \in [LocalIds -> {"none", "prepared", "started", "settled"}]
          /\ coreCancelled' \in [LocalIds -> BOOLEAN] /\ coreActive' \in LocalIds \cup {NoLocal}
      BY <1>1, <1>2 DEF LocalTypeOK, Told
    <2>2. local' \in [LocalIds -> Waiting \cup {"idle", "returned"}]
      BY <1>1, <1>2 DEF LocalTypeOK, Waiting
    <2>3. localEnd' \in [LocalIds -> {"none", "result", "error", "cancelled", "uncontained"}]
      BY <1>1, <1>2 DEF LocalTypeOK
    <2>4. /\ resolver' \in [LocalIds -> Resolving \cup {"none", "done", "failed", "cancelled", "uncontained"}]
          /\ consumer' \in [LocalIds -> Consuming \cup {"none", "ended", "failed"}]
      BY <1>1, <1>2 DEF LocalTypeOK, Consuming, Resolving
    <2> QED  BY <1>1, <1>2, <2>1, <2>2, <2>3, <2>4 DEF LocalTypeOK
  <1>4. \A u \in LocalIds \ {t} : SameTurn(u)
    BY <1>1, <1>2 DEF LocalTypeOK, SameTurn, Told
  <1>5. TurnInv(t)'
    <2>1. Untouched(t)'
      BY <1>1, <1>2 DEF Untouched, LocalTypeOK
    <2>2. RunFollowsPreparer(t)'
      BY <1>1, <1>2 DEF RunFollowsPreparer, TurnInv, LocalTypeOK, Told
    <2>3. HolderKept(t)'
      BY <1>1, <1>2 DEF HolderKept, TurnInv, RunFollowsPreparer, Told
    <2>4. HolderToldOnLeaving(t)'
      BY <1>1, <1>2 DEF HolderToldOnLeaving, Told
    <2>5. ConsumerOwnsRun(t)'
      BY <1>1, <1>2 DEF ConsumerOwnsRun, TurnInv, LocalTypeOK
    <2>6. ResolverOwnsPlan(t)'
      BY <1>1, <1>2 DEF ResolverOwnsPlan, TurnInv, LocalTypeOK
    <2>7. EndKnown(t)'
      BY <1>1, <1>2 DEF EndKnown, TurnInv, LocalTypeOK
    <2> QED  BY <2>1, <2>2, <2>3, <2>4, <2>5, <2>6, <2>7 DEF TurnInv
  <1> QED  BY <1>3, <1>4, <1>5, OneTurnMoves

\* The turn sees its resolution end.
LEMMA ResolutionSeenStep ==
  ASSUME LocalInv, NEW t \in LocalIds, ResolutionSeen(t)
  PROVE  LocalInv'
  <1> USE DEF ResolutionSeen, LocalFails, StopsAt, LocalGoes, ConsumerGoes, laneState, runState, threadState, planState
  <1>1. LocalTypeOK /\ TurnInv(t)
    BY DEF LocalInv
  <1>2. HolderCancels(t) => Told(t)
    BY <1>1, HolderTold
  <1>3. LocalTypeOK'
    <2>1. /\ holder' \in [LocalIds -> [bound : BOOLEAN, cancel : BOOLEAN]]
          /\ coreRun' \in [LocalIds -> {"none", "prepared", "started", "settled"}]
          /\ coreCancelled' \in [LocalIds -> BOOLEAN] /\ coreActive' \in LocalIds \cup {NoLocal}
      BY <1>1, <1>2 DEF LocalTypeOK, Told
    <2>2. local' \in [LocalIds -> Waiting \cup {"idle", "returned"}]
      BY <1>1, <1>2, SMTT(30) DEF LocalTypeOK, Waiting
    <2>3. localEnd' \in [LocalIds -> {"none", "result", "error", "cancelled", "uncontained"}]
      BY <1>1, <1>2, ZenonT(60) DEF LocalTypeOK
    <2>4. /\ resolver' \in [LocalIds -> Resolving \cup {"none", "done", "failed", "cancelled", "uncontained"}]
          /\ consumer' \in [LocalIds -> Consuming \cup {"none", "ended", "failed"}]
      BY <1>1, <1>2 DEF LocalTypeOK, Consuming, Resolving
    <2> QED  BY <1>1, <1>2, <2>1, <2>2, <2>3, <2>4 DEF LocalTypeOK
  <1>4. \A u \in LocalIds \ {t} : SameTurn(u)
    BY <1>1, <1>2 DEF LocalTypeOK, SameTurn, Told
  <1>5. TurnInv(t)'
    <2>1. Untouched(t)'
      BY <1>1, <1>2 DEF Untouched, LocalTypeOK
    <2>2. RunFollowsPreparer(t)'
      BY <1>1, <1>2 DEF RunFollowsPreparer, TurnInv, LocalTypeOK, Told
    <2>3. HolderKept(t)'
      BY <1>1, <1>2 DEF HolderKept, TurnInv, RunFollowsPreparer, Told
    <2>4. HolderToldOnLeaving(t)'
      BY <1>1, <1>2 DEF HolderToldOnLeaving, LocalTypeOK, Told
    <2>5. ConsumerOwnsRun(t)'
      BY <1>1, <1>2 DEF ConsumerOwnsRun, TurnInv, RunFollowsPreparer, LocalTypeOK
    <2>6. ResolverOwnsPlan(t)'
      BY <1>1, <1>2 DEF ResolverOwnsPlan, TurnInv, LocalTypeOK
    <2>7. EndKnown(t)'
      BY <1>1, <1>2 DEF EndKnown, TurnInv, LocalTypeOK
    <2> QED  BY <2>1, <2>2, <2>3, <2>4, <2>5, <2>6, <2>7 DEF TurnInv
  <1> QED  BY <1>3, <1>4, <1>5, OneTurnMoves

\* A token is seen while the run is consumed.
LEMMA TokenWhileConsumingStep ==
  ASSUME LocalInv, NEW t \in LocalIds, TokenWhileConsuming(t)
  PROVE  LocalInv'
  <1> USE DEF TokenWhileConsuming, StopsAt, LocalGoes, laneState, runState, threadState, planState
  <1>1. LocalTypeOK /\ TurnInv(t)
    BY DEF LocalInv
  <1>2. HolderCancels(t) => Told(t)
    BY <1>1, HolderTold
  <1>3. LocalTypeOK'
    <2>1. /\ holder' \in [LocalIds -> [bound : BOOLEAN, cancel : BOOLEAN]]
          /\ coreRun' \in [LocalIds -> {"none", "prepared", "started", "settled"}]
          /\ coreCancelled' \in [LocalIds -> BOOLEAN] /\ coreActive' \in LocalIds \cup {NoLocal}
      BY <1>1, <1>2 DEF LocalTypeOK, Told
    <2>2. local' \in [LocalIds -> Waiting \cup {"idle", "returned"}]
      BY <1>1, <1>2 DEF LocalTypeOK, Waiting
    <2>3. localEnd' \in [LocalIds -> {"none", "result", "error", "cancelled", "uncontained"}]
      BY <1>1, <1>2 DEF LocalTypeOK
    <2>4. /\ resolver' \in [LocalIds -> Resolving \cup {"none", "done", "failed", "cancelled", "uncontained"}]
          /\ consumer' \in [LocalIds -> Consuming \cup {"none", "ended", "failed"}]
      BY <1>1, <1>2 DEF LocalTypeOK, Consuming, Resolving
    <2> QED  BY <1>1, <1>2, <2>1, <2>2, <2>3, <2>4 DEF LocalTypeOK
  <1>4. \A u \in LocalIds \ {t} : SameTurn(u)
    BY <1>1, <1>2 DEF LocalTypeOK, SameTurn, Told
  <1>5. TurnInv(t)'
    <2>1. Untouched(t)'
      BY <1>1, <1>2 DEF Untouched
    <2>2. RunFollowsPreparer(t)'
      BY <1>1, <1>2 DEF RunFollowsPreparer, TurnInv, Told
    <2>3. HolderKept(t)'
      BY <1>1, <1>2 DEF HolderKept, TurnInv, RunFollowsPreparer, Told
    <2>4. HolderToldOnLeaving(t)'
      BY <1>1, <1>2 DEF HolderToldOnLeaving, Told
    <2>5. ConsumerOwnsRun(t)'
      BY <1>1, <1>2 DEF ConsumerOwnsRun, TurnInv, Consuming
    <2>6. ResolverOwnsPlan(t)'
      BY <1>1, <1>2 DEF ResolverOwnsPlan, TurnInv
    <2>7. EndKnown(t)'
      BY <1>1, <1>2 DEF EndKnown, TurnInv
    <2> QED  BY <2>1, <2>2, <2>3, <2>4, <2>5, <2>6, <2>7 DEF TurnInv
  <1> QED  BY <1>3, <1>4, <1>5, OneTurnMoves

\* The turn sees the thread that consumed its run end.
LEMMA ConsumerSeenStep ==
  ASSUME LocalInv, NEW t \in LocalIds, ConsumerSeen(t)
  PROVE  LocalInv'
  <1> USE DEF ConsumerSeen, LocalReturns, LocalFails, LocalGoes, laneState, runState, threadState, planState
  <1>1. LocalTypeOK /\ TurnInv(t)
    BY DEF LocalInv
  <1>2. HolderCancels(t) => Told(t)
    BY <1>1, HolderTold
  <1>3. LocalTypeOK'
    <2>1. /\ holder' \in [LocalIds -> [bound : BOOLEAN, cancel : BOOLEAN]]
          /\ coreRun' \in [LocalIds -> {"none", "prepared", "started", "settled"}]
          /\ coreCancelled' \in [LocalIds -> BOOLEAN] /\ coreActive' \in LocalIds \cup {NoLocal}
      BY <1>1, <1>2 DEF LocalTypeOK, Told
    <2>2. local' \in [LocalIds -> Waiting \cup {"idle", "returned"}]
      BY <1>1, <1>2 DEF LocalTypeOK, Waiting
    <2>3. localEnd' \in [LocalIds -> {"none", "result", "error", "cancelled", "uncontained"}]
      BY <1>1, <1>2 DEF LocalTypeOK
    <2>4. /\ resolver' \in [LocalIds -> Resolving \cup {"none", "done", "failed", "cancelled", "uncontained"}]
          /\ consumer' \in [LocalIds -> Consuming \cup {"none", "ended", "failed"}]
      BY <1>1, <1>2 DEF LocalTypeOK, Consuming, Resolving
    <2> QED  BY <1>1, <1>2, <2>1, <2>2, <2>3, <2>4 DEF LocalTypeOK
  <1>4. \A u \in LocalIds \ {t} : SameTurn(u)
    BY <1>1, <1>2 DEF LocalTypeOK, SameTurn, Told
  <1>5. TurnInv(t)'
    <2>1. Untouched(t)'
      BY <1>1, <1>2 DEF Untouched, LocalTypeOK
    <2>2. RunFollowsPreparer(t)'
      BY <1>1, <1>2 DEF RunFollowsPreparer, TurnInv, LocalTypeOK, Told
    <2>3. HolderKept(t)'
      BY <1>1, <1>2 DEF HolderKept, TurnInv, RunFollowsPreparer, Told
    <2>4. HolderToldOnLeaving(t)'
      BY <1>1, <1>2 DEF HolderToldOnLeaving, TurnInv, ConsumerOwnsRun, Told
    <2>5. ConsumerOwnsRun(t)'
      BY <1>1, <1>2 DEF ConsumerOwnsRun, TurnInv, LocalTypeOK, Consuming
    <2>6. ResolverOwnsPlan(t)'
      BY <1>1, <1>2 DEF ResolverOwnsPlan, TurnInv, EndKnown, LocalTypeOK
    <2>7. EndKnown(t)'
      BY <1>1, <1>2 DEF EndKnown, TurnInv, ConsumerOwnsRun, LocalTypeOK, Prepared
    <2> QED  BY <2>1, <2>2, <2>3, <2>4, <2>5, <2>6, <2>7 DEF TurnInv
  <1> QED  BY <1>3, <1>4, <1>5, OneTurnMoves

\* A turn that leaves has awaited its preparation and its run.
LEMMA RunAwaitedStep ==
  ASSUME LocalInv, NEW t \in LocalIds, RunAwaited(t)
  PROVE  LocalInv'
  <1> USE DEF RunAwaited, LocalReturns, LocalGoes, Prepared, laneState, runState, threadState, planState
  <1>1. LocalTypeOK /\ TurnInv(t)
    BY DEF LocalInv
  <1>2. LocalTypeOK'
    BY <1>1, ZenonT(60) DEF LocalTypeOK, Waiting
  <1>3. \A u \in LocalIds \ {t} : SameTurn(u)
    BY <1>1 DEF LocalTypeOK, SameTurn
  <1>4. TurnInv(t)'
    <2>1. Untouched(t)'
      BY <1>1 DEF Untouched, LocalTypeOK
    <2>2. RunFollowsPreparer(t)'
      BY <1>1 DEF RunFollowsPreparer, TurnInv, LocalTypeOK
    <2>3. HolderToldOnLeaving(t)'
      BY <1>1 DEF HolderToldOnLeaving, TurnInv
    <2>4. ConsumerOwnsRun(t)'
      BY <1>1 DEF ConsumerOwnsRun, TurnInv, LocalTypeOK
    <2>5. ResolverOwnsPlan(t)'
      BY <1>1 DEF ResolverOwnsPlan, TurnInv, EndKnown, LocalTypeOK
    <2>6. EndKnown(t)'
      BY <1>1 DEF EndKnown, TurnInv, RunFollowsPreparer, LocalTypeOK
    <2>7. HolderKept(t)'
      BY <1>1 DEF TurnInv, HolderKept
    <2> QED  BY <2>1, <2>2, <2>3, <2>4, <2>5, <2>6, <2>7 DEF TurnInv
  <1> QED  BY <1>2, <1>3, <1>4, OneTurnMoves

\* Core accepts the message of a turn, or not.
LEMMA AcceptsStep ==
  ASSUME LocalInv, NEW t \in LocalIds, Accepts(t)
  PROVE  LocalInv'
  <1> USE DEF Accepts, PreparerGoes, laneState, runState, threadState, planState
  <1>1. LocalTypeOK /\ TurnInv(t)
    BY DEF LocalInv
  <1>2. LocalTypeOK'
    BY <1>1, ZenonT(60) DEF LocalTypeOK
  <1>3. \A u \in LocalIds \ {t} : SameTurn(u)
    BY <1>1 DEF LocalTypeOK, SameTurn
  <1>4. TurnInv(t)'
    <2>1. Untouched(t)'
      BY <1>1 DEF Untouched, TurnInv
    <2>2. RunFollowsPreparer(t)'
      BY <1>1 DEF RunFollowsPreparer, TurnInv, LocalTypeOK
    <2>3. HolderKept(t)'
      BY <1>1 DEF HolderKept, TurnInv, LocalTypeOK
    <2>4. HolderToldOnLeaving(t)'
      BY <1>1 DEF HolderToldOnLeaving, TurnInv, RunFollowsPreparer
    <2>5. ConsumerOwnsRun(t)'
      BY <1>1 DEF ConsumerOwnsRun, TurnInv
    <2>6. ResolverOwnsPlan(t)'
      BY <1>1 DEF ResolverOwnsPlan, TurnInv
    <2>7. EndKnown(t)'
      BY <1>1 DEF EndKnown, TurnInv, RunFollowsPreparer, Prepared
    <2> QED  BY <2>1, <2>2, <2>3, <2>4, <2>5, <2>6, <2>7 DEF TurnInv
  <1> QED  BY <1>2, <1>3, <1>4, OneTurnMoves

\* The holder is given its run, and cancels it if it was told to.
LEMMA BindsRunStep ==
  ASSUME LocalInv, NEW t \in LocalIds, BindsRun(t)
  PROVE  LocalInv'
  <1> USE DEF BindsRun, PreparerGoes, laneState, runState, threadState, planState
  <1>1. LocalTypeOK /\ TurnInv(t)
    BY DEF LocalInv
  <1>2. /\ holder' \in [LocalIds -> [bound : BOOLEAN, cancel : BOOLEAN]]
        /\ coreRun' \in [LocalIds -> {"none", "prepared", "started", "settled"}]
        /\ coreCancelled' \in [LocalIds -> BOOLEAN] /\ coreActive' = coreActive
        /\ \A u \in LocalIds \ {t} :
             holder'[u] = holder[u] /\ coreRun'[u] = coreRun[u] /\ coreCancelled'[u] = coreCancelled[u]
        /\ holder'[t].bound /\ holder'[t].cancel = holder[t].cancel
        /\ coreRun'[t] = IF holder[t].cancel /\ coreRun[t] = "prepared" THEN "settled" ELSE coreRun[t]
        /\ holder[t].cancel /\ coreRun[t] = "started" => coreCancelled'[t]
        /\ coreCancelled[t] => coreCancelled'[t]
    BY <1>1, HolderBound
  <1>3. LocalTypeOK'
    BY <1>1, <1>2 DEF LocalTypeOK
  <1>4. \A u \in LocalIds \ {t} : SameTurn(u)
    BY <1>1, <1>2 DEF LocalTypeOK, SameTurn
  <1>5. TurnInv(t)'
    <2>1. Untouched(t)'
      BY <1>1, <1>2 DEF Untouched, TurnInv
    <2>2. RunFollowsPreparer(t)'
      BY <1>1, <1>2 DEF RunFollowsPreparer, TurnInv, LocalTypeOK
    <2>3. HolderKept(t)'
      BY <1>1, <1>2 DEF HolderKept
    <2>4. HolderToldOnLeaving(t)'
      BY <1>1, <1>2 DEF HolderToldOnLeaving, TurnInv
    <2>5. ConsumerOwnsRun(t)'
      BY <1>1, <1>2 DEF ConsumerOwnsRun, TurnInv
    <2>6. ResolverOwnsPlan(t)'
      BY <1>1, <1>2 DEF ResolverOwnsPlan, TurnInv
    <2>7. EndKnown(t)'
      BY <1>1, <1>2 DEF EndKnown, TurnInv, Prepared
    <2> QED  BY <2>1, <2>2, <2>3, <2>4, <2>5, <2>6, <2>7 DEF TurnInv
  <1> QED  BY <1>3, <1>4, <1>5, OneTurnMoves

\* The turn is resolved without the planner.
LEMMA ResolvesUnaskedStep ==
  ASSUME LocalInv, NEW t \in LocalIds, ResolvesUnasked(t)
  PROVE  LocalInv'
  <1> USE DEF ResolvesUnasked, ResolverGoes, laneState, runState, threadState, planState
  <1>1. LocalTypeOK /\ TurnInv(t)
    BY DEF LocalInv
  <1>2. LocalTypeOK'
    BY <1>1, ZenonT(60) DEF LocalTypeOK, Resolving
  <1>3. \A u \in LocalIds \ {t} : SameTurn(u)
    BY <1>1 DEF LocalTypeOK, SameTurn
  <1>4. TurnInv(t)'
    <2>1. Untouched(t)'
      BY <1>1 DEF Untouched, TurnInv
    <2>2. ResolverOwnsPlan(t)'
      BY <1>1 DEF ResolverOwnsPlan, TurnInv, LocalTypeOK
    <2>3. RunFollowsPreparer(t)' /\ HolderKept(t)' /\ HolderToldOnLeaving(t)' /\ ConsumerOwnsRun(t)' /\ EndKnown(t)'
      BY <1>1 DEF TurnInv, RunFollowsPreparer, HolderKept, HolderToldOnLeaving, ConsumerOwnsRun,
         EndKnown, Prepared
    <2> QED  BY <2>1, <2>2, <2>3 DEF TurnInv
  <1> QED  BY <1>2, <1>3, <1>4, OneTurnMoves

\* The planner is asked.
LEMMA AsksPlannerStep ==
  ASSUME LocalInv, NEW t \in LocalIds, AsksPlanner(t)
  PROVE  LocalInv'
  <1> USE DEF AsksPlanner, laneState, runState, threadState, planState
  <1>1. LocalTypeOK /\ TurnInv(t)
    BY DEF LocalInv
  <1>2. LocalTypeOK'
    BY <1>1 DEF LocalTypeOK
  <1>3. \A u \in LocalIds \ {t} : SameTurn(u)
    BY <1>1 DEF LocalTypeOK, SameTurn
  <1>4. TurnInv(t)'
    <2>1. Untouched(t)'
      BY <1>1 DEF Untouched, TurnInv
    <2>2. ResolverOwnsPlan(t)'
      BY <1>1 DEF ResolverOwnsPlan, TurnInv
    <2>3. RunFollowsPreparer(t)' /\ HolderKept(t)' /\ HolderToldOnLeaving(t)' /\ ConsumerOwnsRun(t)' /\ EndKnown(t)'
      BY <1>1 DEF TurnInv, RunFollowsPreparer, HolderKept, HolderToldOnLeaving, ConsumerOwnsRun,
         EndKnown, Prepared
    <2> QED  BY <2>1, <2>2, <2>3 DEF TurnInv
  <1> QED  BY <1>2, <1>3, <1>4, OneTurnMoves

\* The generation of the planner ends.
LEMMA PlannerEndsStep ==
  ASSUME LocalInv, NEW t \in LocalIds, PlannerEnds(t)
  PROVE  LocalInv'
  <1> USE DEF PlannerEnds, laneState, runState, threadState, planState
  <1>1. LocalTypeOK /\ TurnInv(t)
    BY DEF LocalInv
  <1>2. LocalTypeOK'
    BY <1>1 DEF LocalTypeOK
  <1>3. \A u \in LocalIds \ {t} : SameTurn(u)
    BY <1>1 DEF LocalTypeOK, SameTurn
  <1>4. TurnInv(t)'
    <2>1. Untouched(t)'
      BY <1>1 DEF Untouched, TurnInv
    <2>2. ResolverOwnsPlan(t)'
      BY <1>1 DEF ResolverOwnsPlan, TurnInv
    <2>3. RunFollowsPreparer(t)' /\ HolderKept(t)' /\ HolderToldOnLeaving(t)' /\ ConsumerOwnsRun(t)' /\ EndKnown(t)'
      BY <1>1 DEF TurnInv, RunFollowsPreparer, HolderKept, HolderToldOnLeaving, ConsumerOwnsRun,
         EndKnown, Prepared
    <2> QED  BY <2>1, <2>2, <2>3 DEF TurnInv
  <1> QED  BY <1>2, <1>3, <1>4, OneTurnMoves

\* The turn is resolved as the planner said.
LEMMA PlannerAnswersStep ==
  ASSUME LocalInv, NEW t \in LocalIds, PlannerAnswers(t)
  PROVE  LocalInv'
  <1> USE DEF PlannerAnswers, ResolverGoes, laneState, runState, threadState, planState
  <1>1. LocalTypeOK /\ TurnInv(t)
    BY DEF LocalInv
  <1>2. LocalTypeOK'
    BY <1>1 DEF LocalTypeOK, Resolving
  <1>3. \A u \in LocalIds \ {t} : SameTurn(u)
    BY <1>1 DEF LocalTypeOK, SameTurn
  <1>4. TurnInv(t)'
    <2>1. Untouched(t)'
      BY <1>1 DEF Untouched, TurnInv
    <2>2. ResolverOwnsPlan(t)'
      BY <1>1 DEF ResolverOwnsPlan, TurnInv, LocalTypeOK
    <2>3. RunFollowsPreparer(t)' /\ HolderKept(t)' /\ HolderToldOnLeaving(t)' /\ ConsumerOwnsRun(t)' /\ EndKnown(t)'
      BY <1>1 DEF TurnInv, RunFollowsPreparer, HolderKept, HolderToldOnLeaving, ConsumerOwnsRun,
         EndKnown, Prepared
    <2> QED  BY <2>1, <2>2, <2>3 DEF TurnInv
  <1> QED  BY <1>2, <1>3, <1>4, OneTurnMoves

\* The cancelled generation of the planner ends.
LEMMA GenerationJoinedStep ==
  ASSUME LocalInv, NEW t \in LocalIds, GenerationJoined(t)
  PROVE  LocalInv'
  <1> USE DEF GenerationJoined, ResolverGoes, laneState, runState, threadState, planState
  <1>1. LocalTypeOK /\ TurnInv(t)
    BY DEF LocalInv
  <1>2. LocalTypeOK'
    BY <1>1 DEF LocalTypeOK, Resolving
  <1>3. \A u \in LocalIds \ {t} : SameTurn(u)
    BY <1>1 DEF LocalTypeOK, SameTurn
  <1>4. TurnInv(t)'
    <2>1. Untouched(t)'
      BY <1>1 DEF Untouched, TurnInv
    <2>2. ResolverOwnsPlan(t)'
      BY <1>1 DEF ResolverOwnsPlan, TurnInv, LocalTypeOK
    <2>3. RunFollowsPreparer(t)' /\ HolderKept(t)' /\ HolderToldOnLeaving(t)' /\ ConsumerOwnsRun(t)' /\ EndKnown(t)'
      BY <1>1 DEF TurnInv, RunFollowsPreparer, HolderKept, HolderToldOnLeaving, ConsumerOwnsRun,
         EndKnown, Prepared
    <2> QED  BY <2>1, <2>2, <2>3 DEF TurnInv
  <1> QED  BY <1>2, <1>3, <1>4, OneTurnMoves

\* The cancelled generation of the planner does not end in time.
LEMMA JoinTimesOutStep ==
  ASSUME LocalInv, NEW t \in LocalIds, JoinTimesOut(t)
  PROVE  LocalInv'
  <1> USE DEF JoinTimesOut, ResolverGoes, laneState, runState, threadState, planState
  <1>1. LocalTypeOK /\ TurnInv(t)
    BY DEF LocalInv
  <1>2. LocalTypeOK'
    BY <1>1 DEF LocalTypeOK, Resolving
  <1>3. \A u \in LocalIds \ {t} : SameTurn(u)
    BY <1>1 DEF LocalTypeOK, SameTurn
  <1>4. TurnInv(t)'
    <2>1. Untouched(t)'
      BY <1>1 DEF Untouched, TurnInv
    <2>2. ResolverOwnsPlan(t)'
      BY <1>1 DEF ResolverOwnsPlan, TurnInv
    <2>3. RunFollowsPreparer(t)' /\ HolderKept(t)' /\ HolderToldOnLeaving(t)' /\ ConsumerOwnsRun(t)' /\ EndKnown(t)'
      BY <1>1 DEF TurnInv, RunFollowsPreparer, HolderKept, HolderToldOnLeaving, ConsumerOwnsRun,
         EndKnown, Prepared
    <2> QED  BY <2>1, <2>2, <2>3 DEF TurnInv
  <1> QED  BY <1>2, <1>3, <1>4, OneTurnMoves

\* The run is started if it is still the active one.
LEMMA StartsPreparedStep ==
  ASSUME LocalInv, NEW t \in LocalIds, StartsPrepared(t)
  PROVE  LocalInv'
  <1> USE DEF StartsPrepared, ConsumerGoes, laneState, runState, threadState, planState
  <1>1. LocalTypeOK /\ TurnInv(t)
    BY DEF LocalInv
  <1>2. LocalTypeOK'
    <2>1. coreRun' \in [LocalIds -> {"none", "prepared", "started", "settled"}]
      BY <1>1 DEF LocalTypeOK
    <2>2. local' \in [LocalIds -> Waiting \cup {"idle", "returned"}]
      BY <1>1 DEF LocalTypeOK, Waiting
    <2>3. localEnd' \in [LocalIds -> {"none", "result", "error", "cancelled", "uncontained"}]
      BY <1>1 DEF LocalTypeOK
    <2>4. /\ resolver' \in [LocalIds -> Resolving \cup {"none", "done", "failed", "cancelled", "uncontained"}]
          /\ consumer' \in [LocalIds -> Consuming \cup {"none", "ended", "failed"}]
      BY <1>1 DEF LocalTypeOK, Consuming, Resolving
    <2> QED  BY <1>1, <2>1, <2>2, <2>3, <2>4 DEF LocalTypeOK
  <1>3. \A u \in LocalIds \ {t} : SameTurn(u)
    BY <1>1 DEF LocalTypeOK, SameTurn
  <1>4. TurnInv(t)'
    <2>1. Untouched(t)'
      BY <1>1 DEF Untouched, TurnInv
    <2>2. RunFollowsPreparer(t)'
      BY <1>1 DEF RunFollowsPreparer, TurnInv, ConsumerOwnsRun, LocalTypeOK
    <2>3. HolderKept(t)'
      BY <1>1 DEF HolderKept, TurnInv, RunFollowsPreparer, ConsumerOwnsRun, LocalTypeOK
    <2>4. HolderToldOnLeaving(t)'
      BY <1>1 DEF HolderToldOnLeaving, TurnInv
    <2>5. ConsumerOwnsRun(t)'
      BY <1>1 DEF ConsumerOwnsRun, TurnInv, HolderKept, LocalTypeOK
    <2>6. EndKnown(t)'
      BY <1>1 DEF EndKnown, TurnInv, Prepared
    <2>7. ResolverOwnsPlan(t)'
      BY <1>1 DEF TurnInv, ResolverOwnsPlan
    <2> QED  BY <2>1, <2>2, <2>3, <2>4, <2>5, <2>6, <2>7 DEF TurnInv
  <1> QED  BY <1>2, <1>3, <1>4, OneTurnMoves

\* The events of the run have all been presented.
LEMMA EventsEndStep ==
  ASSUME LocalInv, NEW t \in LocalIds, EventsEnd(t)
  PROVE  LocalInv'
  <1> USE DEF EventsEnd, ConsumerGoes, laneState, runState, threadState, planState
  <1>1. LocalTypeOK /\ TurnInv(t)
    BY DEF LocalInv
  <1>2. LocalTypeOK'
    BY <1>1 DEF LocalTypeOK, Consuming
  <1>3. \A u \in LocalIds \ {t} : SameTurn(u)
    BY <1>1 DEF LocalTypeOK, SameTurn
  <1>4. TurnInv(t)'
    <2>1. Untouched(t)'
      BY <1>1 DEF Untouched, TurnInv
    <2>2. ConsumerOwnsRun(t)'
      BY <1>1 DEF ConsumerOwnsRun, TurnInv, LocalTypeOK
    <2>3. RunFollowsPreparer(t)' /\ HolderKept(t)' /\ HolderToldOnLeaving(t)' /\ ResolverOwnsPlan(t)' /\ EndKnown(t)'
      BY <1>1 DEF TurnInv, RunFollowsPreparer, HolderKept, HolderToldOnLeaving, ResolverOwnsPlan,
         EndKnown, Prepared
    <2> QED  BY <2>1, <2>2, <2>3 DEF TurnInv
  <1> QED  BY <1>2, <1>3, <1>4, OneTurnMoves

\* The presentation fails, and the run with it.
LEMMA PresentFailsStep ==
  ASSUME LocalInv, NEW t \in LocalIds, PresentFails(t)
  PROVE  LocalInv'
  <1> USE DEF PresentFails, ConsumerGoes, laneState, runState, threadState, planState
  <1>1. LocalTypeOK /\ TurnInv(t)
    BY DEF LocalInv
  <1>2. /\ coreRun' \in [LocalIds -> {"none", "prepared", "started", "settled"}]
        /\ coreCancelled' \in [LocalIds -> BOOLEAN] /\ coreActive' = coreActive
        /\ \A u \in LocalIds \ {t} : coreRun'[u] = coreRun[u] /\ coreCancelled'[u] = coreCancelled[u]
        /\ coreRun'[t] = IF coreRun[t] = "prepared" THEN "settled" ELSE coreRun[t]
        /\ coreRun[t] = "started" => coreCancelled'[t]
        /\ coreCancelled[t] => coreCancelled'[t]
    BY <1>1, CoreCancels
  <1>3. LocalTypeOK'
    BY <1>1, <1>2 DEF LocalTypeOK, Consuming
  <1>4. \A u \in LocalIds \ {t} : SameTurn(u)
    BY <1>1, <1>2 DEF LocalTypeOK, SameTurn
  <1>5. TurnInv(t)'
    <2>1. Untouched(t)'
      BY <1>1, <1>2 DEF Untouched, TurnInv
    <2>2. RunFollowsPreparer(t)'
      BY <1>1, <1>2 DEF RunFollowsPreparer, TurnInv
    <2>3. HolderKept(t)'
      BY <1>1, <1>2 DEF HolderKept
    <2>4. HolderToldOnLeaving(t)'
      BY <1>1, <1>2 DEF HolderToldOnLeaving, TurnInv
    <2>5. ConsumerOwnsRun(t)'
      BY <1>1, <1>2 DEF ConsumerOwnsRun, TurnInv, LocalTypeOK
    <2>6. EndKnown(t)'
      BY <1>1, <1>2 DEF EndKnown, TurnInv, Prepared
    <2>7. ResolverOwnsPlan(t)'
      BY <1>1, <1>2 DEF TurnInv, ResolverOwnsPlan
    <2> QED  BY <2>1, <2>2, <2>3, <2>4, <2>5, <2>6, <2>7 DEF TurnInv
  <1> QED  BY <1>3, <1>4, <1>5, OneTurnMoves

\* A run settles.
LEMMA RunEndsStep ==
  ASSUME LocalInv, NEW t \in LocalIds, RunEnds(t)
  PROVE  LocalInv'
  <1> USE DEF RunEnds, laneState, runState, threadState, planState
  <1>1. LocalTypeOK /\ TurnInv(t)
    BY DEF LocalInv
  <1>2. LocalTypeOK'
    BY <1>1 DEF LocalTypeOK
  <1>3. \A u \in LocalIds \ {t} : SameTurn(u)
    BY <1>1 DEF LocalTypeOK, SameTurn
  <1>4. TurnInv(t)'
    <2>1. Untouched(t)'
      BY <1>1 DEF Untouched, TurnInv
    <2>2. RunFollowsPreparer(t)'
      BY <1>1 DEF RunFollowsPreparer, TurnInv
    <2>3. HolderKept(t)'
      BY <1>1 DEF HolderKept, TurnInv
    <2>4. HolderToldOnLeaving(t)'
      BY <1>1 DEF HolderToldOnLeaving, TurnInv
    <2>5. ConsumerOwnsRun(t)'
      BY <1>1 DEF ConsumerOwnsRun, TurnInv
    <2>6. EndKnown(t)'
      BY <1>1 DEF EndKnown, TurnInv, Prepared
    <2>7. ResolverOwnsPlan(t)'
      BY <1>1 DEF TurnInv, ResolverOwnsPlan
    <2> QED  BY <2>1, <2>2, <2>3, <2>4, <2>5, <2>6, <2>7 DEF TurnInv
  <1> QED  BY <1>2, <1>3, <1>4, OneTurnMoves
\* A turn asks the run it supersedes to cancel; one that has not started settles.
LEMMA SupersedesStep ==
  ASSUME LocalInv, NEW t \in LocalIds, Supersedes(t)
  PROVE  LocalInv'
  <1>1. LocalTypeOK /\ preparer[t] = "superseding"
    BY DEF LocalInv, Supersedes
  <1>2. /\ preparer' \in [LocalIds -> {"none", "running", "superseding", "binding", "ended", "refused"}]
        /\ \A u \in LocalIds : preparer'[u] = IF u = t THEN "binding" ELSE preparer[u]
    BY <1>1 DEF Supersedes, PreparerGoes, LocalTypeOK
  <1>3. /\ coreRun' \in [LocalIds -> {"none", "prepared", "started", "settled"}]
        /\ \A u \in LocalIds : coreRun'[u] = IF u # t /\ coreRun[u] = "prepared" THEN "settled" ELSE coreRun[u]
    BY <1>1 DEF Supersedes, LocalTypeOK
  <1>4. /\ coreCancelled' \in [LocalIds -> BOOLEAN]
        /\ \A u \in LocalIds : coreCancelled[u] => coreCancelled'[u]
    <2>1. \A u \in LocalIds : coreCancelled[u] => coreCancelled'[u]
      BY <1>1 DEF Supersedes, LocalTypeOK
    <2>2. coreCancelled' \in [LocalIds -> BOOLEAN]
      BY <1>1 DEF Supersedes
    <2> QED  BY <2>1, <2>2
  <1>5. UNCHANGED <<laneState, holder, coreActive, consumer, planState>>
    BY DEF Supersedes
  <1>6. LocalTypeOK'
    BY <1>1, <1>2, <1>3, <1>4, <1>5 DEF LocalTypeOK, laneState, planState
  <1>7. ASSUME NEW u \in LocalIds PROVE TurnInv(u)'
    <2>1. TurnInv(u)
      BY DEF LocalInv
    <2> USE DEF TurnInv, laneState, planState
    <2>2. (Untouched(u) /\ RunFollowsPreparer(u))'
      BY <1>1, <1>2, <1>3, <1>5, <2>1 DEF Untouched, RunFollowsPreparer
    <2>3. (HolderKept(u) /\ HolderToldOnLeaving(u))'
      BY <1>1, <1>2, <1>3, <1>4, <1>5, <2>1 DEF HolderKept, HolderToldOnLeaving, RunFollowsPreparer
    <2>4. (ConsumerOwnsRun(u) /\ ResolverOwnsPlan(u))'
      BY <1>1, <1>2, <1>3, <1>5, <2>1 DEF ConsumerOwnsRun, ResolverOwnsPlan
    <2>5. EndKnown(u)'
      BY <1>1, <1>2, <1>3, <1>5, <2>1 DEF EndKnown, Prepared
    <2> QED  BY <2>2, <2>3, <2>4, <2>5
  <1> QED  BY <1>6, <1>7 DEF LocalInv

\* Every step of the local lane preserves its invariant.
LEMMA NextLocalInv ==
  ASSUME LocalInv, [LocalNext]_localVars
  PROVE  LocalInv'
  <1>1. CASE UNCHANGED localVars
    <2>1. LocalTypeOK'
      BY <1>1 DEF LocalInv, LocalTypeOK, localVars
    <2>2. ASSUME NEW u \in LocalIds PROVE TurnInv(u)'
      <3>1. TurnInv(u)
        BY DEF LocalInv
      <3> QED  BY <1>1, <3>1 DEF TurnInv, Untouched, RunFollowsPreparer, HolderKept,
                  HolderToldOnLeaving, ConsumerOwnsRun, ResolverOwnsPlan, EndKnown, Prepared,
                  localVars
    <2> QED  BY <2>1, <2>2 DEF LocalInv
  <1>2. ASSUME NEW t \in LocalIds, TurnStepL(t) PROVE LocalInv'
    BY <1>2, PrepareSeenStep, TokenBeforeRunStep, AbandonedPreparedStep, TokenWhileResolvingStep,
       ResolutionJoinedStep, ResolutionSeenStep, TokenWhileConsumingStep, ConsumerSeenStep,
       RunAwaitedStep DEF TurnStepL
  <1>3. ASSUME NEW t \in LocalIds, PreparerStep(t) \/ ResolverStep(t) \/ ConsumerStep(t)
        PROVE  LocalInv'
    BY <1>3, AcceptsStep, SupersedesStep, BindsRunStep, ResolvesUnaskedStep, AsksPlannerStep,
       PlannerAnswersStep, GenerationJoinedStep, JoinTimesOutStep, StartsPreparedStep,
       EventsEndStep DEF PreparerStep, ResolverStep, ConsumerStep
  <1> QED  BY <1>1, <1>2, <1>3, LocalBeginsStep, AskToCancelStep, LocalCancelledStep,
              PlannerEndsStep, PresentFailsStep, RunEndsStep DEF LocalNext

\* The local lane starts with no turn begun.
LEMMA InitLocalInv ==
  ASSUME LocalInit
  PROVE  LocalInv
  <1>1. LocalTypeOK
    BY DEF LocalInit, LocalTypeOK
  <1>2. ASSUME NEW t \in LocalIds PROVE TurnInv(t)
    BY <1>1 DEF LocalInit, TurnInv, Untouched, RunFollowsPreparer, HolderKept, HolderToldOnLeaving,
       ConsumerOwnsRun, ResolverOwnsPlan, EndKnown, Consuming
  <1> QED  BY <1>1, <1>2 DEF LocalInv

\* The invariant gives what the lane promises.
LEMMA LocalInvSuffices ==
  ASSUME LocalInv
  PROVE  NoLocalTurnLeft
  BY DEF LocalInv, TurnInv, HolderKept, HolderToldOnLeaving, ConsumerOwnsRun, ResolverOwnsPlan,
     EndKnown, NoLocalTurnLeft, Resolving
-----------------------------------------------------------------------------
(* The routed lane. *)

\* How far the route of a turn is says how far its run is.
RunFollowsRoute(t) ==
  /\ route[t] \in {"idle", "lock", "opening", "startup", "unwinding"} => run[t] = "none"
  /\ route[t] \in {"resolving", "unplanning", "binding"} => run[t] \in {"prepared", "settled"}
  /\ route[t] = "presenting" => run[t] = "settled"
  /\ bridge[t] = "ended" => run[t] = "settled"
  /\ adapter[t] = "idle" <=> route[t] = "idle"

\* A route that has left its try block has no run, or has seen it settle, or
\* has asked it to cancel.
LeftRunIsCancelled(t) ==
  route[t] \in Settling \cup {"done"} =>
    run[t] \in {"none", "settled"} \/ (run[t] = "started" /\ runCancelled[t])

\* Only a route that presented the end of its run, or was never entered, leaves
\* its try block by returning.
ReturnedIsOver(t) ==
  /\ ending[t] = "returned" =>
       /\ route[t] \in Settling \cup {"done"}
       /\ run[t] \in {"none", "settled"} /\ shown[t] \in {"none", "closed"}
  /\ route[t] \in {"idle", "lock", "opening"} => shown[t] = "none"

\* The router knows the run of a turn from its disposition until it was joined;
\* only an error or a cancellation leaves it there.
ActiveIsRouted(t) ==
  t \in activeRuns =>
    /\ route[t] \in {"binding", "streaming", "presenting", "settling", "joining", "done"}
    /\ route[t] = "done" => ending[t] # "returned"

\* The answer of a turn is what its route returned.
AnswerIsReturned(t) ==
  result[t] = "answered" =>
    adapter[t] = "returned" /\ route[t] = "done" /\ ending[t] = "returned"

RouteInv(t) ==
  /\ RunFollowsRoute(t) /\ LeftRunIsCancelled(t) /\ ReturnedIsOver(t)
  /\ ActiveIsRouted(t) /\ AnswerIsReturned(t)

DirectInv == DirectTypeOK /\ \A t \in Messages : RouteInv(t)

\* A step leaves a turn alone, but for its run, which may be asked to cancel.
RunMayOnlySettle(u) ==
  /\ adapter'[u] = adapter[u] /\ result'[u] = result[u] /\ route'[u] = route[u]
  /\ ending'[u] = ending[u] /\ bridge'[u] = bridge[u] /\ shown'[u] = shown[u]
  /\ u \in activeRuns' => u \in activeRuns
  /\ run'[u] = run[u] \/ (run[u] = "prepared" /\ run'[u] = "settled")
  /\ runCancelled[u] => runCancelled'[u]

\* Such a turn keeps its invariant.
LEMMA RouteKept ==
  ASSUME NEW u \in Messages, RouteInv(u), RunMayOnlySettle(u)
  PROVE  RouteInv(u)'
  <1>1. (RunFollowsRoute(u) /\ LeftRunIsCancelled(u))'
    BY DEF RouteInv, RunMayOnlySettle, RunFollowsRoute, LeftRunIsCancelled
  <1>2. (ReturnedIsOver(u) /\ ActiveIsRouted(u) /\ AnswerIsReturned(u))'
    BY DEF RouteInv, RunMayOnlySettle, ReturnedIsOver, ActiveIsRouted, AnswerIsReturned
  <1> QED  BY <1>1, <1>2 DEF RouteInv

\* A step of one turn preserves the invariant if it does so for that turn.
LEMMA OneRouteMoves ==
  ASSUME DirectInv, NEW t \in Messages, DirectTypeOK', RouteInv(t)',
         \A u \in Messages \ {t} : RunMayOnlySettle(u)
  PROVE  DirectInv'
  BY RouteKept DEF DirectInv

\* What a route that leaves its try block does to its run.
Left(t, how) ==
  /\ route' = [route EXCEPT ![t] = "settling"] /\ ending' = [ending EXCEPT ![t] = how]
  /\ admissionLock' \in Messages \cup {NoMessage}
  /\ run' \in [Messages -> {"none", "prepared", "started", "settled"}]
  /\ runCancelled' \in [Messages -> BOOLEAN]
  /\ \A u \in Messages \ {t} : run'[u] = run[u] /\ runCancelled'[u] = runCancelled[u]
  /\ runCancelled[t] => runCancelled'[t]
  /\ how = "returned" => run'[t] = run[t]
  /\ how # "returned" =>
       /\ run'[t] = IF run[t] = "prepared" THEN "settled" ELSE run[t]
       /\ run[t] = "started" => runCancelled'[t]

\* A route that leaves its try block other than by returning cancels its run.
LEMMA RouteLeaves ==
  ASSUME DirectTypeOK, NEW t \in Messages,
         NEW how \in {"none", "returned", "cancelled", "error"}, LeavesTry(t, how)
  PROVE  Left(t, how)
  <1>1. admissionLock' \in Messages \cup {NoMessage}
    BY DEF LeavesTry, DirectTypeOK
  <1>2. CASE MustCancel(t, how)
    <2>1. runCancelled' = [runCancelled EXCEPT ![t] = TRUE]
      BY <1>2 DEF LeavesTry, CancelsRun
    <2>2. /\ runCancelled' \in [Messages -> BOOLEAN] /\ runCancelled'[t]
          /\ \A u \in Messages \ {t} : runCancelled'[u] = runCancelled[u]
      BY <2>1 DEF DirectTypeOK
    <2>3. /\ run' \in [Messages -> {"none", "prepared", "started", "settled"}]
          /\ run'[t] = IF run[t] = "prepared" THEN "settled" ELSE run[t]
          /\ \A u \in Messages \ {t} : run'[u] = run[u]
      BY <1>2 DEF LeavesTry, CancelsRun, DirectTypeOK
    <2> QED  BY <1>1, <1>2, <2>2, <2>3 DEF LeavesTry, MustCancel, Left
  <1>3. CASE ~MustCancel(t, how)
    BY <1>1, <1>3 DEF LeavesTry, MustCancel, Left, DirectTypeOK
  <1> QED  BY <1>2, <1>3

\* What an exception does to a route.
Thrown(t, how) ==
  /\ owner' \in Messages \cup {NoMessage}
  /\ server' \in [Messages -> Servers]
  /\ \/ /\ route[t] = "startup" /\ route' = [route EXCEPT ![t] = "unwinding"]
        /\ ending' = [ending EXCEPT ![t] = how]
        /\ UNCHANGED <<run, runCancelled, admissionLock>>
     \/ /\ route[t] = "resolving" /\ route' = [route EXCEPT ![t] = "unplanning"]
        /\ UNCHANGED <<ending, run, runCancelled, admissionLock>>
     \/ /\ route[t] \in {"unwinding", "lock", "opening", "resolving", "unplanning", "binding",
                         "streaming", "presenting"}
        /\ Left(t, how)
     \/ /\ route[t] \in {"settling", "joining"} /\ route' = [route EXCEPT ![t] = "done"]
        /\ ending' = [ending EXCEPT ![t] = how]
        /\ UNCHANGED <<run, runCancelled, admissionLock>>
     \/ /\ route[t] \in {"idle", "aborting", "done"} /\ route' = [route EXCEPT ![t] = "done"]
        /\ UNCHANGED <<ending, run, runCancelled, admissionLock>>

\* An exception makes a route unwind its start-up, leave its try block or
\* abandon its clean-up.
LEMMA RouteThrows ==
  ASSUME DirectTypeOK, NEW t \in Messages, NEW how \in {"cancelled", "error"}, Throws(t, how)
  PROVE  Thrown(t, how)
  <1> USE DEF Throws, JoinsPlanner, Working
  <1>1. /\ owner' \in Messages \cup {NoMessage}
        /\ server' \in [Messages -> Servers]
    BY DEF DropsSession, DirectTypeOK, Servers, Settling
  <1>2. CASE route[t] = "startup"
    BY <1>1, <1>2 DEF Thrown
  <1>3. CASE route[t] \in {"unwinding"} \cup (Working \ {"startup"})
    <2>1. CASE JoinsPlanner(t, how)
      BY <1>1, <2>1 DEF Thrown
    <2>2. CASE ~JoinsPlanner(t, how)
      BY <1>1, <1>3, <2>2, RouteLeaves DEF Thrown
    <2> QED  BY <2>1, <2>2
  <1>4. CASE route[t] \in {"settling", "joining"}
    BY <1>1, <1>4 DEF Thrown
  <1>5. CASE route[t] \in {"idle", "aborting", "done"}
    BY <1>1, <1>5 DEF Thrown
  <1> QED  BY <1>2, <1>3, <1>4, <1>5 DEF DirectTypeOK, Settling

\* What the preparation of a turn does to the runs.
TurnPrepared(t) ==
  /\ route' = [route EXCEPT ![t] = "resolving"]
  /\ run' \in [Messages -> {"none", "prepared", "started", "settled"}] /\ run'[t] = "prepared"
  /\ runCancelled' \in [Messages -> BOOLEAN]
  /\ \A u \in Messages \ {t} :
       run'[u] = run[u] \/ (run[u] = "prepared" /\ run'[u] = "settled")
  /\ \A u \in Messages : runCancelled[u] => runCancelled'[u]

\* A prepared turn asks the others to cancel.
LEMMA PreparesTurn ==
  ASSUME DirectTypeOK, NEW t \in Messages, Prepares(t)
  PROVE  TurnPrepared(t)
  <1>1. runCancelled' \in [Messages -> BOOLEAN] /\ \A u \in Messages : runCancelled[u] => runCancelled'[u]
    BY DEF Prepares, DirectTypeOK
  <1> QED  BY <1>1 DEF Prepares, TurnPrepared, RouteTo, DirectTypeOK

\* The actor gives a turn to the lane.
LEMMA TurnBeginsStep ==
  ASSUME DirectInv, NEW t \in Messages, TurnBegins(t)
  PROVE  DirectInv'
  <1> USE DEF TurnBegins, adapterVars, runVars, routerVars
  <1>1. DirectTypeOK /\ RouteInv(t)
    BY DEF DirectInv
  <1>2. DirectTypeOK'
    BY <1>1 DEF DirectTypeOK, Working, Settling
  <1>3. \A u \in Messages \ {t} : RunMayOnlySettle(u)
    BY <1>1 DEF DirectTypeOK, RunMayOnlySettle
  <1>4. RouteInv(t)'
    <2>1. RunFollowsRoute(t)'
      BY <1>1 DEF RunFollowsRoute, RouteInv, DirectTypeOK
    <2>2. LeftRunIsCancelled(t)'
      BY <1>1 DEF LeftRunIsCancelled, RouteInv, RunFollowsRoute
    <2>3. ReturnedIsOver(t)'
      BY <1>1 DEF ReturnedIsOver, RouteInv, RunFollowsRoute, Settling
    <2>4. ActiveIsRouted(t)'
      BY <1>1 DEF ActiveIsRouted, RouteInv, RunFollowsRoute
    <2>5. AnswerIsReturned(t)'
      BY <1>1 DEF AnswerIsReturned, RouteInv
    <2> QED  BY <2>1, <2>2, <2>3, <2>4, <2>5 DEF RouteInv
  <1> QED  BY <1>2, <1>3, <1>4, OneRouteMoves

\* The token of a turn is set.
LEMMA RequestTurnCancelStep ==
  ASSUME DirectInv, NEW t \in Messages, RequestTurnCancel(t)
  PROVE  DirectInv'
  <1> USE DEF RequestTurnCancel, adapterVars, runVars, routerVars
  <1>1. DirectTypeOK /\ RouteInv(t)
    BY DEF DirectInv
  <1>2. DirectTypeOK'
    BY <1>1 DEF DirectTypeOK, Working, Settling
  <1>3. \A u \in Messages \ {t} : RunMayOnlySettle(u)
    BY <1>1 DEF DirectTypeOK, RunMayOnlySettle
  <1>4. RouteInv(t)'
    <2>1. RunFollowsRoute(t)' /\ LeftRunIsCancelled(t)' /\ ReturnedIsOver(t)' /\ ActiveIsRouted(t)' /\ AnswerIsReturned(t)'
      BY <1>1 DEF RouteInv, RunFollowsRoute, LeftRunIsCancelled, ReturnedIsOver, ActiveIsRouted,
         AnswerIsReturned
    <2> QED  BY <2>1 DEF RouteInv
  <1> QED  BY <1>2, <1>3, <1>4, OneRouteMoves

\* The actor stops waiting for a turn.
LEMMA GivesUpStep ==
  ASSUME DirectInv, NEW t \in Messages, GivesUp(t)
  PROVE  DirectInv'
  <1> USE DEF GivesUp, adapterVars, runVars, routerVars
  <1>1. DirectTypeOK /\ RouteInv(t)
    BY DEF DirectInv
  <1>2. DirectTypeOK'
    BY <1>1 DEF DirectTypeOK, Working, Settling
  <1>3. \A u \in Messages \ {t} : RunMayOnlySettle(u)
    BY <1>1 DEF DirectTypeOK, RunMayOnlySettle
  <1>4. RouteInv(t)'
    <2>1. RunFollowsRoute(t)' /\ LeftRunIsCancelled(t)' /\ ReturnedIsOver(t)' /\ ActiveIsRouted(t)' /\ AnswerIsReturned(t)'
      BY <1>1 DEF RouteInv, RunFollowsRoute, LeftRunIsCancelled, ReturnedIsOver, ActiveIsRouted,
         AnswerIsReturned
    <2> QED  BY <2>1 DEF RouteInv
  <1> QED  BY <1>2, <1>3, <1>4, OneRouteMoves

\* A step of the route fails.
LEMMA FaultStep ==
  ASSUME DirectInv, NEW t \in Messages, Fault(t)
  PROVE  DirectInv'
  <1> USE DEF Fault, adapterVars, runVars, routerVars
  <1>1. DirectTypeOK /\ RouteInv(t)
    BY DEF DirectInv
  <1>2. Throws(t, "error") => Thrown(t, "error")
    BY <1>1, RouteThrows
  <1>3. DirectTypeOK'
    BY <1>1, <1>2 DEF DirectTypeOK, Thrown, Left, Working, Settling
  <1>4. \A u \in Messages \ {t} : RunMayOnlySettle(u)
    BY <1>1, <1>2 DEF DirectTypeOK, RunMayOnlySettle, Thrown, Left
  <1>5. RouteInv(t)'
    <2>1. RunFollowsRoute(t)'
      BY <1>1, <1>2 DEF RunFollowsRoute, RouteInv, DirectTypeOK, Thrown, Left
    <2>2. LeftRunIsCancelled(t)'
      BY <1>1, <1>2 DEF LeftRunIsCancelled, RouteInv, RunFollowsRoute, DirectTypeOK, Thrown, Left,
         Settling
    <2>3. ReturnedIsOver(t)'
      BY <1>1, <1>2 DEF ReturnedIsOver, RouteInv, DirectTypeOK, Thrown, Left, Settling
    <2>4. ActiveIsRouted(t)'
      BY <1>1, <1>2 DEF ActiveIsRouted, RouteInv, DirectTypeOK, Thrown, Left
    <2>5. AnswerIsReturned(t)'
      BY <1>1, <1>2 DEF AnswerIsReturned, RouteInv
    <2> QED  BY <2>1, <2>2, <2>3, <2>4, <2>5 DEF RouteInv
  <1> QED  BY <1>3, <1>4, <1>5, OneRouteMoves

\* The route gets the lock of its conversation, or finds the router closing.
LEMMA EntersStep ==
  ASSUME DirectInv, NEW t \in Messages, Enters(t)
  PROVE  DirectInv'
  <1> USE DEF Enters, RouteTo, adapterVars, runVars, routerVars
  <1>1. DirectTypeOK /\ RouteInv(t)
    BY DEF DirectInv
  <1>2. DirectTypeOK'
    BY <1>1 DEF DirectTypeOK, Working, Settling
  <1>3. \A u \in Messages \ {t} : RunMayOnlySettle(u)
    BY <1>1 DEF DirectTypeOK, RunMayOnlySettle
  <1>4. RouteInv(t)'
    <2>1. RunFollowsRoute(t)'
      BY <1>1 DEF RunFollowsRoute, RouteInv, DirectTypeOK
    <2>2. LeftRunIsCancelled(t)'
      BY <1>1 DEF LeftRunIsCancelled, RouteInv, RunFollowsRoute
    <2>3. ReturnedIsOver(t)'
      BY <1>1 DEF ReturnedIsOver, RouteInv, RunFollowsRoute, DirectTypeOK, Settling
    <2>4. ActiveIsRouted(t)'
      BY <1>1 DEF ActiveIsRouted, RouteInv
    <2>5. AnswerIsReturned(t)'
      BY <1>1 DEF AnswerIsReturned, RouteInv
    <2> QED  BY <2>1, <2>2, <2>3, <2>4, <2>5 DEF RouteInv
  <1> QED  BY <1>2, <1>3, <1>4, OneRouteMoves

\* The presentation is open, and the turn is prepared unless a session has to start.
LEMMA OpenedStep ==
  ASSUME DirectInv, NEW t \in Messages, Opened(t)
  PROVE  DirectInv'
  <1> USE DEF Opened, RouteTo, adapterVars, runVars, routerVars
  <1>1. DirectTypeOK /\ RouteInv(t)
    BY DEF DirectInv
  <1>2. Prepares(t) => TurnPrepared(t)
    BY <1>1, PreparesTurn
  <1>3. DirectTypeOK'
    BY <1>1, <1>2 DEF DirectTypeOK, TurnPrepared, Working, Servers
  <1>4. \A u \in Messages \ {t} : RunMayOnlySettle(u)
    BY <1>1, <1>2 DEF DirectTypeOK, RunMayOnlySettle, TurnPrepared
  <1>5. RouteInv(t)'
    <2>1. RunFollowsRoute(t)'
      BY <1>1, <1>2 DEF RunFollowsRoute, RouteInv, DirectTypeOK, TurnPrepared
    <2>2. LeftRunIsCancelled(t)'
      BY <1>1, <1>2 DEF LeftRunIsCancelled, DirectTypeOK, TurnPrepared, Settling
    <2>3. ReturnedIsOver(t)'
      BY <1>1, <1>2 DEF ReturnedIsOver, RouteInv, DirectTypeOK, TurnPrepared, Settling
    <2>4. ActiveIsRouted(t)'
      BY <1>1, <1>2 DEF ActiveIsRouted, RouteInv
    <2>5. AnswerIsReturned(t)'
      BY <1>1, <1>2 DEF AnswerIsReturned, RouteInv
    <2> QED  BY <2>1, <2>2, <2>3, <2>4, <2>5 DEF RouteInv
  <1> QED  BY <1>3, <1>4, <1>5, OneRouteMoves

\* The session is up, and the turn is prepared.
LEMMA StartupSeenStep ==
  ASSUME DirectInv, NEW t \in Messages, StartupSeen(t)
  PROVE  DirectInv'
  <1> USE DEF StartupSeen, adapterVars, runVars, routerVars
  <1>1. DirectTypeOK /\ RouteInv(t)
    BY DEF DirectInv
  <1>2. Prepares(t) => TurnPrepared(t)
    BY <1>1, PreparesTurn
  <1>3. DirectTypeOK'
    BY <1>1, <1>2, ZenonT(60) DEF DirectTypeOK, TurnPrepared, Working, Settling
  <1>4. \A u \in Messages \ {t} : RunMayOnlySettle(u)
    BY <1>1, <1>2 DEF DirectTypeOK, RunMayOnlySettle, TurnPrepared
  <1>5. RouteInv(t)'
    <2>1. RunFollowsRoute(t)'
      BY <1>1, <1>2 DEF RunFollowsRoute, RouteInv, DirectTypeOK, TurnPrepared
    <2>2. LeftRunIsCancelled(t)'
      BY <1>1, <1>2 DEF LeftRunIsCancelled, DirectTypeOK, TurnPrepared, Settling
    <2>3. ReturnedIsOver(t)'
      BY <1>1, <1>2 DEF ReturnedIsOver, RouteInv, DirectTypeOK, TurnPrepared, Settling
    <2>4. ActiveIsRouted(t)'
      BY <1>1, <1>2 DEF ActiveIsRouted, RouteInv
    <2>5. AnswerIsReturned(t)'
      BY <1>1, <1>2 DEF AnswerIsReturned, RouteInv
    <2> QED  BY <2>1, <2>2, <2>3, <2>4, <2>5 DEF RouteInv
  <1> QED  BY <1>3, <1>4, <1>5, OneRouteMoves

\* The runtime of a session that failed to start is down.
LEMMA UnwoundStep ==
  ASSUME DirectInv, NEW t \in Messages, Unwound(t)
  PROVE  DirectInv'
  <1> USE DEF Unwound, adapterVars, runVars, routerVars
  <1>1. DirectTypeOK /\ RouteInv(t)
    BY DEF DirectInv
  <1>2. LeavesTry(t, ending[t]) => Left(t, ending[t])
    <2>1. ending[t] \in {"none", "returned", "cancelled", "error"}
      BY <1>1 DEF DirectTypeOK
    <2> QED  BY <1>1, <2>1, RouteLeaves
  <1>3. DirectTypeOK'
    <2>1. Left(t, ending[t]) /\ ending[t] \in {"none", "returned", "cancelled", "error"}
      BY <1>1, <1>2 DEF DirectTypeOK
    <2>2. /\ route' \in [Messages -> {"idle", "unwinding", "done"} \cup Working \cup Settling]
          /\ ending' \in [Messages -> {"none", "returned", "cancelled", "error"}]
      BY <1>1, <2>1 DEF DirectTypeOK, Left, Settling
    <2>3. shown' \in [Messages -> {"none", "open", "bound", "closed"}]
      BY <1>1 DEF DirectTypeOK
    <2> QED  BY <1>1, <2>1, <2>2, <2>3 DEF DirectTypeOK, Left
  <1>4. \A u \in Messages \ {t} : RunMayOnlySettle(u)
    BY <1>1, <1>2 DEF DirectTypeOK, RunMayOnlySettle, Left
  <1>5. RouteInv(t)'
    <2>1. RunFollowsRoute(t)'
      BY <1>1, <1>2 DEF RunFollowsRoute, RouteInv, DirectTypeOK, Left
    <2>2. LeftRunIsCancelled(t)'
      BY <1>1, <1>2 DEF LeftRunIsCancelled, RouteInv, RunFollowsRoute, Left
    <2>3. ReturnedIsOver(t)'
      BY <1>1, <1>2 DEF ReturnedIsOver, RouteInv, DirectTypeOK, Left, Settling
    <2>4. ActiveIsRouted(t)'
      BY <1>1, <1>2 DEF ActiveIsRouted, RouteInv
    <2>5. AnswerIsReturned(t)'
      BY <1>1, <1>2 DEF AnswerIsReturned, RouteInv
    <2> QED  BY <2>1, <2>2, <2>3, <2>4, <2>5 DEF RouteInv
  <1> QED  BY <1>3, <1>4, <1>5, OneRouteMoves

\* The router takes the run of the turn as active.
LEMMA DispositionResolvedStep ==
  ASSUME DirectInv, NEW t \in Messages, DispositionResolved(t)
  PROVE  DirectInv'
  <1> USE DEF DispositionResolved, RouteTo, adapterVars, runVars, routerVars
  <1>1. DirectTypeOK /\ RouteInv(t)
    BY DEF DirectInv
  <1>2. DirectTypeOK'
    BY <1>1 DEF DirectTypeOK, Working, Settling
  <1>3. \A u \in Messages \ {t} : RunMayOnlySettle(u)
    BY <1>1 DEF DirectTypeOK, RunMayOnlySettle
  <1>4. RouteInv(t)'
    <2>1. RunFollowsRoute(t)'
      BY <1>1 DEF RunFollowsRoute, RouteInv
    <2>2. LeftRunIsCancelled(t)'
      BY <1>1 DEF LeftRunIsCancelled, Settling
    <2>3. ReturnedIsOver(t)'
      BY <1>1 DEF ReturnedIsOver, RouteInv, Settling
    <2>4. ActiveIsRouted(t)'
      BY <1>1 DEF ActiveIsRouted, DirectTypeOK
    <2>5. AnswerIsReturned(t)'
      BY <1>1 DEF AnswerIsReturned, RouteInv
    <2> QED  BY <2>1, <2>2, <2>3, <2>4, <2>5 DEF RouteInv
  <1> QED  BY <1>2, <1>3, <1>4, OneRouteMoves

\* The join of a cancelled planner ends: the route leaves its try block, or the
\* router takes the run of the turn as active.
LEMMA PlannerJoinedStep ==
  ASSUME DirectInv, NEW t \in Messages, PlannerJoined(t)
  PROVE  DirectInv'
  <1> USE DEF adapterVars, routerVars
  <1>1. DirectTypeOK /\ RouteInv(t) /\ route[t] = "unplanning"
    BY DEF DirectInv, PlannerJoined
  <1>2. UNCHANGED <<adapter, result, cancels, abandoned, bridge, shown, owner,
                    routerClosing, closed, closer>>
    BY DEF PlannerJoined
  <1>3. ASSUME NEW how \in {"cancelled", "error"}, LeavesTry(t, how),
               UNCHANGED <<server, activeRuns>>
        PROVE  DirectInv'
    <2>1. Left(t, how)
      BY <1>1, <1>3, RouteLeaves
    <2>2. DirectTypeOK'
      <3>1. /\ route' \in [Messages -> {"idle", "unwinding", "done"} \cup Working \cup Settling]
            /\ ending' \in [Messages -> {"none", "returned", "cancelled", "error"}]
        BY <1>1, <2>1 DEF DirectTypeOK, Left, Settling
      <3> QED  BY <1>1, <1>2, <1>3, <2>1, <3>1 DEF DirectTypeOK, Left
    <2>3. \A u \in Messages \ {t} : RunMayOnlySettle(u)
      BY <1>1, <1>2, <1>3, <2>1 DEF DirectTypeOK, RunMayOnlySettle, Left
    <2>4. RunFollowsRoute(t)' /\ LeftRunIsCancelled(t)'
      BY <1>1, <1>2, <2>1 DEF RunFollowsRoute, LeftRunIsCancelled, RouteInv, DirectTypeOK, Left
    <2>5. ReturnedIsOver(t)' /\ ActiveIsRouted(t)' /\ AnswerIsReturned(t)'
      BY <1>1, <1>2, <1>3, <2>1
         DEF ReturnedIsOver, ActiveIsRouted, AnswerIsReturned, RouteInv, DirectTypeOK, Left
    <2> QED  BY <2>2, <2>3, <2>4, <2>5, OneRouteMoves DEF RouteInv
  <1>4. ASSUME server' = [server EXCEPT ![owner] = IF @ = "up" THEN "failed" ELSE @],
               activeRuns' = activeRuns \cup {t}, RouteTo(t, "binding"),
               UNCHANGED <<ending, run, runCancelled, admissionLock>>
        PROVE  DirectInv'
    <2> USE DEF RouteTo
    <2>1. DirectTypeOK'
      <3>1. server' \in [Messages -> Servers]
        BY <1>1, <1>4 DEF DirectTypeOK, Servers
      <3> QED  BY <1>1, <1>2, <1>4, <3>1 DEF DirectTypeOK, Working
    <2>2. \A u \in Messages \ {t} : RunMayOnlySettle(u)
      BY <1>1, <1>2, <1>4 DEF DirectTypeOK, RunMayOnlySettle
    <2>3. RunFollowsRoute(t)' /\ LeftRunIsCancelled(t)'
      BY <1>1, <1>2, <1>4 DEF RunFollowsRoute, LeftRunIsCancelled, RouteInv, DirectTypeOK, Settling
    <2>4. ReturnedIsOver(t)' /\ ActiveIsRouted(t)' /\ AnswerIsReturned(t)'
      BY <1>1, <1>2, <1>4
         DEF ReturnedIsOver, ActiveIsRouted, AnswerIsReturned, RouteInv, DirectTypeOK, Settling
    <2> QED  BY <2>1, <2>2, <2>3, <2>4, OneRouteMoves DEF RouteInv
  <1> QED  BY <1>3, <1>4 DEF PlannerJoined

\* The run is bound to its presentation and started, unless it has settled.
LEMMA BindsAndStartsStep ==
  ASSUME DirectInv, NEW t \in Messages, BindsAndStarts(t)
  PROVE  DirectInv'
  <1> USE DEF BindsAndStarts, RouteTo, adapterVars, runVars, routerVars
  <1>1. DirectTypeOK /\ RouteInv(t)
    BY DEF DirectInv
  <1>2. DirectTypeOK'
    BY <1>1 DEF DirectTypeOK, Working, Settling
  <1>3. \A u \in Messages \ {t} : RunMayOnlySettle(u)
    BY <1>1 DEF DirectTypeOK, RunMayOnlySettle
  <1>4. RouteInv(t)'
    <2>1. RunFollowsRoute(t)'
      BY <1>1 DEF RunFollowsRoute, RouteInv, DirectTypeOK
    <2>2. LeftRunIsCancelled(t)'
      BY <1>1 DEF LeftRunIsCancelled, Settling
    <2>3. ReturnedIsOver(t)'
      BY <1>1 DEF ReturnedIsOver, RouteInv, Settling
    <2>4. ActiveIsRouted(t)'
      BY <1>1 DEF ActiveIsRouted
    <2>5. AnswerIsReturned(t)'
      BY <1>1 DEF AnswerIsReturned, RouteInv
    <2> QED  BY <2>1, <2>2, <2>3, <2>4, <2>5 DEF RouteInv
  <1> QED  BY <1>2, <1>3, <1>4, OneRouteMoves

\* The bridge has read the end of the run.
LEMMA TerminalSeenStep ==
  ASSUME DirectInv, NEW t \in Messages, TerminalSeen(t)
  PROVE  DirectInv'
  <1> USE DEF TerminalSeen, RouteTo, adapterVars, runVars, routerVars
  <1>1. DirectTypeOK /\ RouteInv(t)
    BY DEF DirectInv
  <1>2. DirectTypeOK'
    BY <1>1 DEF DirectTypeOK, Working, Settling
  <1>3. \A u \in Messages \ {t} : RunMayOnlySettle(u)
    BY <1>1 DEF DirectTypeOK, RunMayOnlySettle
  <1>4. RouteInv(t)'
    <2>1. RunFollowsRoute(t)'
      BY <1>1 DEF RunFollowsRoute, RouteInv
    <2>2. LeftRunIsCancelled(t)'
      BY <1>1 DEF LeftRunIsCancelled, RouteInv, RunFollowsRoute
    <2>3. ReturnedIsOver(t)'
      BY <1>1 DEF ReturnedIsOver, RouteInv, Settling
    <2>4. ActiveIsRouted(t)'
      BY <1>1 DEF ActiveIsRouted
    <2>5. AnswerIsReturned(t)'
      BY <1>1 DEF AnswerIsReturned, RouteInv
    <2> QED  BY <2>1, <2>2, <2>3, <2>4, <2>5 DEF RouteInv
  <1> QED  BY <1>2, <1>3, <1>4, OneRouteMoves

\* The end of the run has been presented.
LEMMA PresentedStep ==
  ASSUME DirectInv, NEW t \in Messages, Presented(t)
  PROVE  DirectInv'
  <1> USE DEF Presented, adapterVars, runVars, routerVars
  <1>1. DirectTypeOK /\ RouteInv(t)
    BY DEF DirectInv
  <1>2. LeavesTry(t, "returned") => Left(t, "returned")
    <2>1. "returned" \in {"none", "returned", "cancelled", "error"}
      BY <1>1 DEF DirectTypeOK
    <2> QED  BY <1>1, <2>1, RouteLeaves
  <1>3. DirectTypeOK'
    <2>1. Left(t, "returned") /\ "returned" \in {"none", "returned", "cancelled", "error"}
      BY <1>1, <1>2 DEF DirectTypeOK
    <2>2. /\ route' \in [Messages -> {"idle", "unwinding", "done"} \cup Working \cup Settling]
          /\ ending' \in [Messages -> {"none", "returned", "cancelled", "error"}]
      BY <1>1, <2>1 DEF DirectTypeOK, Left, Settling
    <2>3. shown' \in [Messages -> {"none", "open", "bound", "closed"}]
      BY <1>1 DEF DirectTypeOK
    <2> QED  BY <1>1, <2>1, <2>2, <2>3 DEF DirectTypeOK, Left
  <1>4. \A u \in Messages \ {t} : RunMayOnlySettle(u)
    BY <1>1, <1>2 DEF DirectTypeOK, RunMayOnlySettle, Left
  <1>5. RouteInv(t)'
    <2>1. RunFollowsRoute(t)'
      BY <1>1, <1>2 DEF RunFollowsRoute, RouteInv, DirectTypeOK, Left
    <2>2. LeftRunIsCancelled(t)'
      BY <1>1, <1>2 DEF LeftRunIsCancelled, RouteInv, RunFollowsRoute, Left
    <2>3. ReturnedIsOver(t)'
      BY <1>1, <1>2 DEF ReturnedIsOver, RouteInv, RunFollowsRoute, DirectTypeOK, Left, Settling
    <2>4. ActiveIsRouted(t)'
      BY <1>1, <1>2 DEF ActiveIsRouted, DirectTypeOK, Left
    <2>5. AnswerIsReturned(t)'
      BY <1>1, <1>2 DEF AnswerIsReturned, RouteInv
    <2> QED  BY <2>1, <2>2, <2>3, <2>4, <2>5 DEF RouteInv
  <1> QED  BY <1>3, <1>4, <1>5, OneRouteMoves

\* The finally clause awaits the run and the bridge.
LEMMA RunFinallyStep ==
  ASSUME DirectInv, NEW t \in Messages, RunFinally(t)
  PROVE  DirectInv'
  <1> USE DEF RunFinally, RouteTo, Awaits, AwaitTimesOut, adapterVars, runVars, routerVars
  <1>1. DirectTypeOK /\ RouteInv(t)
    BY DEF DirectInv
  <1>2. DirectTypeOK'
    BY <1>1 DEF DirectTypeOK, Working, Settling
  <1>3. \A u \in Messages \ {t} : RunMayOnlySettle(u)
    BY <1>1 DEF DirectTypeOK, RunMayOnlySettle
  <1>4. RouteInv(t)'
    <2>1. RunFollowsRoute(t)'
      BY <1>1 DEF RunFollowsRoute, RouteInv, DirectTypeOK
    <2>2. LeftRunIsCancelled(t)'
      BY <1>1 DEF LeftRunIsCancelled, RouteInv, DirectTypeOK, Working
    <2>3. ReturnedIsOver(t)'
      BY <1>1 DEF ReturnedIsOver, RouteInv, DirectTypeOK, Settling
    <2>4. ActiveIsRouted(t)'
      BY <1>1 DEF ActiveIsRouted, DirectTypeOK
    <2>5. AnswerIsReturned(t)'
      BY <1>1 DEF AnswerIsReturned, RouteInv
    <2> QED  BY <2>1, <2>2, <2>3, <2>4, <2>5 DEF RouteInv
  <1> QED  BY <1>2, <1>3, <1>4, OneRouteMoves

\* The presentation is aborted.
LEMMA AbortedStep ==
  ASSUME DirectInv, NEW t \in Messages, Aborted(t)
  PROVE  DirectInv'
  <1> USE DEF Aborted, RouteTo, adapterVars, runVars, routerVars
  <1>1. DirectTypeOK /\ RouteInv(t)
    BY DEF DirectInv
  <1>2. DirectTypeOK'
    BY <1>1 DEF DirectTypeOK, Working, Settling
  <1>3. \A u \in Messages \ {t} : RunMayOnlySettle(u)
    BY <1>1 DEF DirectTypeOK, RunMayOnlySettle
  <1>4. RouteInv(t)'
    <2>1. RunFollowsRoute(t)'
      BY <1>1 DEF RunFollowsRoute, RouteInv
    <2>2. LeftRunIsCancelled(t)'
      BY <1>1 DEF LeftRunIsCancelled, RouteInv, DirectTypeOK, Working
    <2>3. ReturnedIsOver(t)'
      BY <1>1 DEF ReturnedIsOver, RouteInv
    <2>4. ActiveIsRouted(t)'
      BY <1>1 DEF ActiveIsRouted, RouteInv
    <2>5. AnswerIsReturned(t)'
      BY <1>1 DEF AnswerIsReturned, RouteInv
    <2> QED  BY <2>1, <2>2, <2>3, <2>4, <2>5 DEF RouteInv
  <1> QED  BY <1>2, <1>3, <1>4, OneRouteMoves

\* The adapter sees the route end.
LEMMA RouteSeenStep ==
  ASSUME DirectInv, NEW t \in Messages, RouteSeen(t)
  PROVE  DirectInv'
  <1> USE DEF RouteSeen, Returns, adapterVars, runVars, routerVars
  <1>1. DirectTypeOK /\ RouteInv(t)
    BY DEF DirectInv
  <1>2. DirectTypeOK'
    BY <1>1 DEF DirectTypeOK, Working, Settling
  <1>3. \A u \in Messages \ {t} : RunMayOnlySettle(u)
    BY <1>1 DEF DirectTypeOK, RunMayOnlySettle
  <1>4. RouteInv(t)'
    <2>1. RunFollowsRoute(t)'
      BY <1>1 DEF RunFollowsRoute, RouteInv
    <2>2. AnswerIsReturned(t)'
      BY <1>1 DEF AnswerIsReturned, DirectTypeOK
    <2>3. LeftRunIsCancelled(t)' /\ ReturnedIsOver(t)' /\ ActiveIsRouted(t)'
      BY <1>1 DEF RouteInv, LeftRunIsCancelled, ReturnedIsOver, ActiveIsRouted
    <2> QED  BY <2>1, <2>2, <2>3 DEF RouteInv
  <1> QED  BY <1>2, <1>3, <1>4, OneRouteMoves

\* The adapter sees the token, and cancels the route.
LEMMA TokenSeenStep ==
  ASSUME DirectInv, NEW t \in Messages, TokenSeen(t)
  PROVE  DirectInv'
  <1> USE DEF TokenSeen, adapterVars, runVars, routerVars
  <1>1. DirectTypeOK /\ RouteInv(t)
    BY DEF DirectInv
  <1>2. Throws(t, "cancelled") => Thrown(t, "cancelled")
    BY <1>1, RouteThrows
  <1>3. DirectTypeOK'
    BY <1>1, <1>2 DEF DirectTypeOK, Thrown, Left, Working, Settling
  <1>4. \A u \in Messages \ {t} : RunMayOnlySettle(u)
    BY <1>1, <1>2 DEF DirectTypeOK, RunMayOnlySettle, Thrown, Left
  <1>5. RouteInv(t)'
    <2>1. RunFollowsRoute(t)'
      BY <1>1, <1>2 DEF RunFollowsRoute, RouteInv, DirectTypeOK, Thrown, Left
    <2>2. LeftRunIsCancelled(t)'
      BY <1>1, <1>2 DEF LeftRunIsCancelled, RouteInv, RunFollowsRoute, DirectTypeOK, Thrown, Left,
         Working, Settling
    <2>3. ReturnedIsOver(t)'
      BY <1>1, <1>2 DEF ReturnedIsOver, RouteInv, DirectTypeOK, Thrown, Left, Settling
    <2>4. ActiveIsRouted(t)'
      BY <1>1, <1>2 DEF ActiveIsRouted, RouteInv, DirectTypeOK, Thrown, Left
    <2>5. AnswerIsReturned(t)'
      BY <1>1, <1>2 DEF AnswerIsReturned, RouteInv
    <2> QED  BY <2>1, <2>2, <2>3, <2>4, <2>5 DEF RouteInv
  <1> QED  BY <1>3, <1>4, <1>5, OneRouteMoves

\* The actor cancels the task of the adapter, and so the route.
LEMMA CancelExecutionStep ==
  ASSUME DirectInv, NEW t \in Messages, CancelExecution(t)
  PROVE  DirectInv'
  <1> USE DEF CancelExecution, adapterVars, runVars, routerVars
  <1>1. DirectTypeOK /\ RouteInv(t)
    BY DEF DirectInv
  <1>2. Throws(t, "cancelled") => Thrown(t, "cancelled")
    BY <1>1, RouteThrows
  <1>3. DirectTypeOK'
    BY <1>1, <1>2 DEF DirectTypeOK, Thrown, Left, Working, Settling
  <1>4. \A u \in Messages \ {t} : RunMayOnlySettle(u)
    BY <1>1, <1>2 DEF DirectTypeOK, RunMayOnlySettle, Thrown, Left
  <1>5. RouteInv(t)'
    <2>1. RunFollowsRoute(t)'
      BY <1>1, <1>2 DEF RunFollowsRoute, RouteInv, DirectTypeOK, Thrown, Left
    <2>2. LeftRunIsCancelled(t)'
      BY <1>1, <1>2 DEF LeftRunIsCancelled, RouteInv, RunFollowsRoute, DirectTypeOK, Thrown, Left,
         Working, Settling
    <2>3. ReturnedIsOver(t)'
      BY <1>1, <1>2 DEF ReturnedIsOver, RouteInv, DirectTypeOK, Thrown, Left, Settling
    <2>4. ActiveIsRouted(t)'
      BY <1>1, <1>2 DEF ActiveIsRouted, RouteInv, DirectTypeOK, Thrown, Left
    <2>5. AnswerIsReturned(t)'
      BY <1>1, <1>2 DEF AnswerIsReturned, RouteInv
    <2> QED  BY <2>1, <2>2, <2>3, <2>4, <2>5 DEF RouteInv
  <1> QED  BY <1>3, <1>4, <1>5, OneRouteMoves

\* The adapter has joined the cancelled route.
LEMMA RouteJoinedStep ==
  ASSUME DirectInv, NEW t \in Messages, RouteJoined(t)
  PROVE  DirectInv'
  <1> USE DEF RouteJoined, Returns, Containment, adapterVars, runVars, routerVars
  <1>1. DirectTypeOK /\ RouteInv(t)
    BY DEF DirectInv
  <1>2. DirectTypeOK'
    BY <1>1 DEF DirectTypeOK, Working, Settling
  <1>3. \A u \in Messages \ {t} : RunMayOnlySettle(u)
    BY <1>1 DEF DirectTypeOK, RunMayOnlySettle
  <1>4. RouteInv(t)'
    <2>1. RunFollowsRoute(t)'
      BY <1>1 DEF RunFollowsRoute, RouteInv, DirectTypeOK
    <2>2. AnswerIsReturned(t)'
      BY <1>1 DEF AnswerIsReturned, DirectTypeOK
    <2>3. LeftRunIsCancelled(t)' /\ ReturnedIsOver(t)' /\ ActiveIsRouted(t)'
      BY <1>1 DEF RouteInv, LeftRunIsCancelled, ReturnedIsOver, ActiveIsRouted
    <2> QED  BY <2>1, <2>2, <2>3 DEF RouteInv
  <1> QED  BY <1>2, <1>3, <1>4, OneRouteMoves

\* A run settles.
LEMMA RunSettlesStep ==
  ASSUME DirectInv, NEW t \in Messages, RunSettles(t)
  PROVE  DirectInv'
  <1> USE DEF RunSettles, adapterVars, runVars, routerVars
  <1>1. DirectTypeOK /\ RouteInv(t)
    BY DEF DirectInv
  <1>2. DirectTypeOK'
    BY <1>1 DEF DirectTypeOK, Working, Settling
  <1>3. \A u \in Messages \ {t} : RunMayOnlySettle(u)
    BY <1>1 DEF DirectTypeOK, RunMayOnlySettle
  <1>4. RouteInv(t)'
    <2>1. RunFollowsRoute(t)'
      BY <1>1 DEF RunFollowsRoute, RouteInv
    <2>2. LeftRunIsCancelled(t)'
      BY <1>1 DEF LeftRunIsCancelled, RouteInv
    <2>3. ReturnedIsOver(t)'
      BY <1>1 DEF ReturnedIsOver, RouteInv
    <2>4. ActiveIsRouted(t)' /\ AnswerIsReturned(t)'
      BY <1>1 DEF RouteInv, ActiveIsRouted, AnswerIsReturned
    <2> QED  BY <2>1, <2>2, <2>3, <2>4 DEF RouteInv
  <1> QED  BY <1>2, <1>3, <1>4, OneRouteMoves

\* The bridge has read the end of its run.
LEMMA BridgeEndsStep ==
  ASSUME DirectInv, NEW t \in Messages, BridgeEnds(t)
  PROVE  DirectInv'
  <1> USE DEF BridgeEnds, adapterVars, runVars, routerVars
  <1>1. DirectTypeOK /\ RouteInv(t)
    BY DEF DirectInv
  <1>2. DirectTypeOK'
    BY <1>1 DEF DirectTypeOK, Working, Settling
  <1>3. \A u \in Messages \ {t} : RunMayOnlySettle(u)
    BY <1>1 DEF DirectTypeOK, RunMayOnlySettle
  <1>4. RouteInv(t)'
    <2>1. RunFollowsRoute(t)'
      BY <1>1 DEF RunFollowsRoute, RouteInv
    <2>2. LeftRunIsCancelled(t)' /\ ReturnedIsOver(t)' /\ ActiveIsRouted(t)' /\ AnswerIsReturned(t)'
      BY <1>1 DEF RouteInv, LeftRunIsCancelled, ReturnedIsOver, ActiveIsRouted, AnswerIsReturned
    <2> QED  BY <2>1, <2>2 DEF RouteInv
  <1> QED  BY <1>2, <1>3, <1>4, OneRouteMoves

\* A model runtime starts or stops.
LEMMA ServerMovesStep ==
  ASSUME DirectInv, NEW t \in Messages, ServerMoves(t)
  PROVE  DirectInv'
  <1> USE DEF ServerMoves, adapterVars, runVars, routerVars
  <1>1. DirectTypeOK /\ RouteInv(t)
    BY DEF DirectInv
  <1>2. DirectTypeOK'
    BY <1>1 DEF DirectTypeOK, Servers
  <1>3. \A u \in Messages \ {t} : RunMayOnlySettle(u)
    BY <1>1 DEF DirectTypeOK, RunMayOnlySettle
  <1>4. RouteInv(t)'
    <2>1. RunFollowsRoute(t)' /\ LeftRunIsCancelled(t)' /\ ReturnedIsOver(t)' /\ ActiveIsRouted(t)' /\ AnswerIsReturned(t)'
      BY <1>1 DEF RouteInv, RunFollowsRoute, LeftRunIsCancelled, ReturnedIsOver, ActiveIsRouted,
         AnswerIsReturned
    <2> QED  BY <2>1 DEF RouteInv
  <1> QED  BY <1>2, <1>3, <1>4, OneRouteMoves
\* close() asks the runs it finds to cancel; the rest of it leaves turns alone.
LEMMA CloseSteps ==
  ASSUME DirectInv, CloseStep
  PROVE  DirectInv'
  <1> USE DEF CloseStep, CloseBegins, CloseShutsDown, CloseEnds, adapterVars, runVars
  <1>1. DirectTypeOK
    BY DEF DirectInv
  <1>2. /\ run' \in [Messages -> {"none", "prepared", "started", "settled"}]
        /\ \A u \in Messages : run'[u] = run[u] \/ (run[u] = "prepared" /\ run'[u] = "settled")
    BY <1>1 DEF DirectTypeOK
  <1>3. runCancelled' \in [Messages -> BOOLEAN]
    <2>1. CASE CloseBegins
      <3>1. PICK open \in SUBSET Messages :
              runCancelled' = [u \in Messages |-> runCancelled[u] \/ u \in open]
        BY <1>1, <2>1 DEF DirectTypeOK
      <3>2. \A u \in Messages : (runCancelled[u] \/ u \in open) \in BOOLEAN
        OBVIOUS
      <3> QED  BY <3>1, <3>2
    <2>2. CASE UNCHANGED runCancelled
      BY <1>1, <2>2 DEF DirectTypeOK
    <2> QED  BY <2>1, <2>2
  <1>4. \A u \in Messages : runCancelled[u] => runCancelled'[u]
    BY <1>1 DEF DirectTypeOK
  <1>5. UNCHANGED <<adapter, result, cancels, abandoned, route, ending, bridge, shown,
                    admissionLock, owner, activeRuns>>
    OBVIOUS
  <1>6. /\ server' \in [Messages -> Servers]
        /\ routerClosing' \in BOOLEAN /\ closed' \in BOOLEAN
        /\ closer' \in {"idle", "startup", "shutdown"}
    BY <1>1, ZenonT(60) DEF DirectTypeOK, Servers
  <1> HIDE DEF CloseStep
  <1>7. DirectTypeOK'
    BY <1>1, <1>2, <1>3, <1>5, <1>6 DEF DirectTypeOK
  <1>8. ASSUME NEW u \in Messages PROVE RouteInv(u)'
    <2>1. RunMayOnlySettle(u)
      BY <1>2, <1>4, <1>5 DEF RunMayOnlySettle
    <2> QED  BY <2>1, RouteKept DEF DirectInv
  <1> QED  BY <1>7, <1>8 DEF DirectInv

\* Every step of the routed lane preserves its invariant.
LEMMA NextDirectInv ==
  ASSUME DirectInv, [DirectNext]_laneVars
  PROVE  DirectInv'
  <1>1. CASE UNCHANGED laneVars
    <2>1. DirectTypeOK'
      BY <1>1 DEF DirectInv, DirectTypeOK, laneVars
    <2>2. ASSUME NEW u \in Messages PROVE RouteInv(u)'
      <3>1. RunMayOnlySettle(u)
        BY <1>1 DEF RunMayOnlySettle, laneVars
      <3> QED  BY <3>1, RouteKept DEF DirectInv
    <2> QED  BY <2>1, <2>2 DEF DirectInv
  <1>2. ASSUME NEW t \in Messages, RouteStep(t) PROVE DirectInv'
    BY <1>2, EntersStep, OpenedStep, StartupSeenStep, UnwoundStep, DispositionResolvedStep,
       PlannerJoinedStep, BindsAndStartsStep, TerminalSeenStep, PresentedStep, RunFinallyStep, AbortedStep
       DEF RouteStep
  <1>3. ASSUME NEW t \in Messages, LaneStep(t) PROVE DirectInv'
    BY <1>3, RouteSeenStep, TokenSeenStep, RouteJoinedStep DEF LaneStep
  <1> QED  BY <1>1, <1>2, <1>3, CloseSteps, TurnBeginsStep, RequestTurnCancelStep,
              CancelExecutionStep, GivesUpStep, FaultStep, RunSettlesStep, BridgeEndsStep,
              ServerMovesStep DEF DirectNext

\* The routed lane starts with no turn begun.
LEMMA InitDirectInv ==
  ASSUME DirectInit
  PROVE  DirectInv
  <1>1. DirectTypeOK
    <2>1. /\ cancels \in [Messages -> 0..2] /\ runCancelled \in [Messages -> BOOLEAN]
          /\ route \in [Messages -> {"idle", "unwinding", "done"} \cup Working \cup Settling]
      BY DEF DirectInit
    <2> QED  BY <2>1 DEF DirectInit, DirectTypeOK, Servers
  <1>2. ASSUME NEW t \in Messages PROVE RouteInv(t)
    BY DEF DirectInit, RouteInv, RunFollowsRoute, LeftRunIsCancelled, ReturnedIsOver,
       ActiveIsRouted,
       AnswerIsReturned
  <1> QED  BY <1>1, <1>2 DEF DirectInv

\* The invariant gives what the lane promises.
LEMMA DirectInvSuffices ==
  ASSUME DirectInv
  PROVE  NoRunLeftStreaming
  BY DEF DirectInv, RouteInv, LeftRunIsCancelled, ReturnedIsOver, ActiveIsRouted, AnswerIsReturned,
     NoRunLeftStreaming

-----------------------------------------------------------------------------
(* The kernel: its lifecycle, its supervisor and its shutdowns. *)

\* Until the supervisor has begun nothing is stopped and nothing runs; the states of the
\* runtime and the places of the supervisor agree.
KernelBegins ==
  /\ runtimeState = "new" => supervisor = "absent"
  /\ supervisor = "absent" => runtimeState \in {"new", "stopped"} /\ actor # "running"
  /\ supervisor = "absent" => \A d \in StopCallers : shutdown[d] = "none"
  /\ supervisor \in {"scheduled", "starting"} => runtimeState = "starting"
  /\ supervisor = "scheduled" => actor # "running"
  /\ supervisor \in {"absent", "scheduled", "starting"} => host # "running"
  /\ runtimeState \in {"new", "starting"} =>
       /\ \A d \in StopCallers : shutdown[d] = "none"
       /\ \A s \in StopCallers : call[s] \in {"idle", "starting"}
       /\ ~stopRequested

\* The tasks of the group end before the supervisor leaves it; what aborts the group either
\* raised in it or cancelled the supervisor; a stop is requested once the components have stopped.
GroupEnds ==
  /\ alive # {} => supervisor \in {"serving", "leaving"}
  /\ aborted => groupFailed \/ cancelSent
  /\ supervisor = "leaving" => stopRequested \/ aborted
  /\ stopRequested => ~admission /\ actor # "running" /\ host # "running"

\* Only a shutdown whose spent deadline was taken for an error leaves a component stopping.
SwallowedOnlyByDeadline ==
  "stopping" \in {actor, host} => \E d \in routerError : deadline[d] = "spent"

\* A shutdown admits nothing, leaves no component running that it has passed, and returns only
\* after the supervisor.
ShutdownsProceed ==
  \A d \in StopCallers :
    /\ shutdown[d] # "none" => ~admission
    /\ shutdown[d] \in {"adapters", "drain", "actor", "router", "presence", "supervisor",
                        "returned", "cancelled"} => host # "running"
    /\ shutdown[d] \in {"router", "presence", "supervisor", "returned", "cancelled"} => actor # "running"
    /\ shutdown[d] = "returned" => supervisor \in SupervisorEnds

\* Nothing runs behind a stopped runtime, nor behind a stop() that returned.
StoppedRuntimeIsQuiet ==
  /\ runtimeState = "stopped" => Quiet
  /\ \A s \in StopCallers : call[s] = "returned" => Quiet

\* All of it; and with the types.
KernelSafe ==
  KernelBegins /\ GroupEnds /\ ShutdownsProceed /\ SwallowedOnlyByDeadline /\ StoppedRuntimeIsQuiet
KernelInv == KernelTypeOK /\ KernelSafe

\* Every step of the kernel keeps its variables in their types.
LEMMA KernelTypedStep ==
  ASSUME KernelTypeOK, [KernelNext]_kernelVars
  PROVE  KernelTypeOK'
  <1> USE DEF lifecycle, events, taskGroup, group, components, settlement,
             KernelTypeOK, Phases, ShutdownEnds, SupervisorEnds, Tasks
  <1>1. CASE StartCalled
    BY <1>1 DEF StartCalled
  <1>2. CASE SupervisorBegins
    BY <1>2 DEF SupervisorBegins
  <1>3. CASE GroupBegins
    BY <1>3 DEF GroupBegins, Tasks
  <1>4. CASE PresenceRefuses
    BY <1>4 DEF PresenceRefuses, FailsAnnounced, Fails
  <1>5. CASE SupervisorLeaves
    BY <1>5 DEF SupervisorLeaves
  <1>6. CASE GroupExits
    BY <1>6 DEF GroupExits, FailsAnnounced, Fails
  <1>7. CASE FinallyStopsHost
    BY <1>7 DEF FinallyStopsHost, SupervisorGoesTo, HostStops, HostRaises
  <1>8. CASE FinallyStopsActor
    BY <1>8 DEF FinallyStopsActor, SupervisorGoesTo, ActorStops, ActorRaises
  <1>9. CASE FinallyClosesRouter
    BY <1>9 DEF FinallyClosesRouter, SupervisorGoesTo
  <1>10. CASE FinallyStopsPresence
    BY <1>10 DEF FinallyStopsPresence, SupervisorGoesTo, PresenceStops
  <1>11. CASE ActorPoisons
    BY <1>11 DEF ActorPoisons
  <1>12. CASE WatchSeesPoison
    BY <1>12 DEF WatchSeesPoison, Leaves, PoisonSeen, PoisonIgnored, Raises, Fails
  <1>13. CASE WatchStops
    BY <1>13 DEF WatchStops, Leaves
  <1>14. CASE PresenceWaitEnds
    BY <1>14 DEF PresenceWaitEnds, Leaves
  <1>15. ASSUME NEW t \in Tasks, CancelledTaskEnds(t) PROVE KernelTypeOK'
    BY <1>15 DEF CancelledTaskEnds, Leaves
  <1>16. ASSUME NEW t \in Tasks, OwnedTaskEnds(t) PROVE KernelTypeOK'
    <2>1. {aborted', groupFailed'} \subseteq BOOLEAN
      BY <1>16 DEF OwnedTaskEnds, Raises
    <2>2. alive' \subseteq Tasks
      BY <1>16 DEF OwnedTaskEnds, Leaves
    <2> QED BY <1>16, <2>1, <2>2 DEF OwnedTaskEnds
  <1>17. ASSUME NEW d \in StopCallers, ShutdownStopsHost(d) PROVE KernelTypeOK'
    BY <1>17 DEF ShutdownStopsHost, HostStops, HostRaises, Settles, GoesTo
  <1>18. ASSUME NEW d \in StopCallers, ShutdownEndsAdapters(d) PROVE KernelTypeOK'
    BY <1>18 DEF ShutdownEndsAdapters, GoesTo
  <1>19. ASSUME NEW d \in StopCallers, ShutdownDrains(d) PROVE KernelTypeOK'
    BY <1>19 DEF ShutdownDrains, GoesTo
  <1>20. ASSUME NEW d \in StopCallers, ShutdownStopsActor(d) PROVE KernelTypeOK'
    BY <1>20 DEF ShutdownStopsActor, ActorSettles, ActorStops, ActorRaises, Settles, GoesTo
  <1>21. ASSUME NEW d \in StopCallers, ShutdownClosesRouter(d) PROVE KernelTypeOK'
    BY <1>21 DEF ShutdownClosesRouter, Settles, GoesTo
  <1>22. ASSUME NEW d \in StopCallers, ShutdownStopsPresence(d) PROVE KernelTypeOK'
    BY <1>22 DEF ShutdownStopsPresence, PresenceStops, Settles, GoesTo
  <1>23. ASSUME NEW d \in StopCallers, ShutdownJoins(d) PROVE KernelTypeOK'
    BY <1>23 DEF ShutdownJoins, Fails, GoesTo
  <1>24. ASSUME NEW d \in StopCallers, DeadlineExpires(d), DeadlineSwallowed(d) PROVE KernelTypeOK'
    <2>1. shutdown' \in [StopCallers -> Phases \cup ShutdownEnds \cup {"none"}]
      BY <1>24 DEF DeadlineSwallowed
    <2>2. /\ actor' \in {"new", "running", "stopping", "stopped", "poisoned"}
          /\ host' \in {"new", "running", "stopping", "stopped", "failed"}
      BY <1>24 DEF DeadlineSwallowed
    <2>3. deadline' \in [StopCallers -> {"armed", "spent"}]
      BY <1>24 DEF DeadlineExpires
    <2> QED BY <1>24, <2>1, <2>2, <2>3 DEF DeadlineSwallowed, DeadlineExpires
  <1>25. ASSUME NEW d \in StopCallers, DeadlineExpires(d), DeadlineFails(d) PROVE KernelTypeOK'
    <2>1. /\ supervisor' \in SupervisorEnds \cup
                {"absent", "scheduled", "starting", "serving", "leaving", "stopping_host",
                 "stopping_actor", "closing_router", "stopping_presence"}
          /\ {cancelSent', aborted'} \subseteq BOOLEAN
      BY <1>25 DEF DeadlineFails, CancelSupervisor
    <2>2. shutdown' \in [StopCallers -> Phases \cup ShutdownEnds \cup {"none"}]
      BY <1>25 DEF DeadlineFails
    <2>3. deadline' \in [StopCallers -> {"armed", "spent"}]
      BY <1>25 DEF DeadlineExpires
    <2> QED BY <1>25, <2>1, <2>2, <2>3 DEF DeadlineFails, DeadlineExpires, Fails
  <1>26. ASSUME NEW d \in StopCallers, DeadlineExpires(d), DeadlineCancelsSupervisor(d) PROVE KernelTypeOK'
    <2>1. /\ supervisor' \in SupervisorEnds \cup
                {"absent", "scheduled", "starting", "serving", "leaving", "stopping_host",
                 "stopping_actor", "closing_router", "stopping_presence"}
          /\ {cancelSent', aborted'} \subseteq BOOLEAN
      BY <1>26 DEF DeadlineCancelsSupervisor, CancelSupervisor
    <2>2. /\ runtimeState' \in {"new", "starting", "running", "stopping", "stopped", "failed"}
          /\ failure' \in BOOLEAN
      BY <1>26 DEF DeadlineCancelsSupervisor
    <2>3. deadline' \in [StopCallers -> {"armed", "spent"}]
      BY <1>26 DEF DeadlineExpires
    <2> QED BY <1>26, <2>1, <2>2, <2>3 DEF DeadlineCancelsSupervisor, DeadlineExpires
  <1>27. ASSUME NEW s \in StopCallers, Stop(s), StopNew(s) PROVE KernelTypeOK'
    BY <1>27 DEF StopNew, Ends, Stop
  <1>28. ASSUME NEW s \in StopCallers, Stop(s), StopStopped(s) PROVE KernelTypeOK'
    BY <1>28 DEF StopStopped, Ends, Stop
  <1>29. ASSUME NEW s \in StopCallers, Stop(s), StopStarting(s) PROVE KernelTypeOK'
    BY <1>29 DEF StopStarting, Ends, Stop
  <1>30. ASSUME NEW s \in StopCallers, Stop(s), StopStopping(s) PROVE KernelTypeOK'
    BY <1>30 DEF StopStopping, Ends, Stop
  <1>31. ASSUME NEW s \in StopCallers, Stop(s), StopCalled(s) PROVE KernelTypeOK'
    <2>1. current' \subseteq StopCallers /\ Cardinality(current') <= 1
      BY <1>31, FS_Singleton DEF StopCalled, NewShutdown
    <2>2. shutdown' \in [StopCallers -> Phases \cup ShutdownEnds \cup {"none"}]
      BY <1>31 DEF StopCalled, NewShutdown, Starts
    <2> QED BY <1>31, <2>1, <2>2 DEF StopCalled, Ends
  <1>32. ASSUME NEW s \in StopCallers, StopRaises(s) PROVE KernelTypeOK'
    BY <1>32 DEF StopRaises, Ends
  <1>33. ASSUME NEW s \in StopCallers, StopJoinsShutdown(s) PROVE KernelTypeOK'
    BY <1>33 DEF StopJoinsShutdown, Ends
  <1>34. CASE UNCHANGED kernelVars
    BY <1>34 DEF kernelVars
  <1> HIDE DEF lifecycle, events, taskGroup, group, components, settlement,
             KernelTypeOK, Phases, ShutdownEnds, SupervisorEnds, Tasks
  <1> QED
    BY <1>1, <1>2, <1>3, <1>4, <1>5, <1>6, <1>7, <1>8, <1>9, <1>10, <1>11, <1>12, <1>13,
       <1>14, <1>15, <1>16, <1>17, <1>18, <1>19, <1>20, <1>21, <1>22, <1>23, <1>24, <1>25,
       <1>26, <1>27, <1>28, <1>29, <1>30, <1>31, <1>32, <1>33, <1>34
      DEF KernelNext, StartEnds, SupervisorStep, Finally, TaskEnds, ComponentStops, ShutdownWaits,
          DeadlineExpires, Stop, StopEnds

\* Every step of the kernel keeps the rest of the invariant.
LEMMA KernelSafeStep ==
  ASSUME KernelInv, [KernelNext]_kernelVars
  PROVE  KernelSafe'
  <1> USE DEF lifecycle, events, taskGroup, group, components, settlement,
             KernelInv, KernelTypeOK, KernelSafe, KernelBegins, GroupEnds, ShutdownsProceed, SwallowedOnlyByDeadline, StoppedRuntimeIsQuiet, Quiet,
             Phases, ShutdownEnds, SupervisorEnds
  <1>1. CASE StartCalled
    BY <1>1, CallersAssumption DEF StartCalled
  <1>2. CASE SupervisorBegins
    BY <1>2, CallersAssumption DEF SupervisorBegins
  <1>3. CASE GroupBegins
    BY <1>3, CallersAssumption DEF GroupBegins, Tasks
  <1>4. CASE PresenceRefuses
    BY <1>4, CallersAssumption DEF PresenceRefuses, FailsAnnounced, Fails
  <1>5. CASE SupervisorLeaves
    BY <1>5, CallersAssumption DEF SupervisorLeaves
  <1>6. CASE GroupExits
    BY <1>6, CallersAssumption DEF GroupExits, FailsAnnounced, Fails
  <1>7. CASE FinallyStopsHost
    BY <1>7, CallersAssumption DEF FinallyStopsHost, SupervisorGoesTo, HostStops, HostRaises
  <1>8. CASE FinallyStopsActor
    BY <1>8, CallersAssumption DEF FinallyStopsActor, SupervisorGoesTo, ActorStops, ActorRaises
  <1>9. CASE FinallyClosesRouter
    BY <1>9, CallersAssumption DEF FinallyClosesRouter, SupervisorGoesTo
  <1>10. CASE FinallyStopsPresence
    BY <1>10, CallersAssumption DEF FinallyStopsPresence, SupervisorGoesTo, PresenceStops
  <1>11. CASE ActorPoisons
    BY <1>11, CallersAssumption DEF ActorPoisons
  <1>12. CASE WatchSeesPoison
    BY <1>12, CallersAssumption DEF WatchSeesPoison, Leaves, PoisonSeen, PoisonIgnored, Raises, Fails
  <1>13. CASE WatchStops
    BY <1>13, CallersAssumption DEF WatchStops, Leaves
  <1>14. CASE PresenceWaitEnds
    BY <1>14, CallersAssumption DEF PresenceWaitEnds, Leaves
  <1>15. ASSUME NEW t \in Tasks, CancelledTaskEnds(t) PROVE KernelSafe'
    BY <1>15, CallersAssumption DEF CancelledTaskEnds, Leaves
  <1>16. ASSUME NEW t \in Tasks, OwnedTaskEnds(t) PROVE KernelSafe'
    BY <1>16, CallersAssumption DEF OwnedTaskEnds, Leaves, Raises
  <1>17. ASSUME NEW d \in StopCallers, ShutdownStopsHost(d) PROVE KernelSafe'
    BY <1>17, CallersAssumption DEF ShutdownStopsHost, HostStops, HostRaises, Settles, GoesTo
  <1>18. ASSUME NEW d \in StopCallers, ShutdownEndsAdapters(d) PROVE KernelSafe'
    BY <1>18, CallersAssumption DEF ShutdownEndsAdapters, GoesTo
  <1>19. ASSUME NEW d \in StopCallers, ShutdownDrains(d) PROVE KernelSafe'
    BY <1>19, CallersAssumption DEF ShutdownDrains, GoesTo
  <1>20. ASSUME NEW d \in StopCallers, ShutdownStopsActor(d) PROVE KernelSafe'
    BY <1>20, CallersAssumption DEF ShutdownStopsActor, ActorSettles, ActorStops, ActorRaises, Settles, GoesTo
  <1>21. ASSUME NEW d \in StopCallers, ShutdownClosesRouter(d) PROVE KernelSafe'
    BY <1>21, CallersAssumption DEF ShutdownClosesRouter, Settles, GoesTo
  <1>22. ASSUME NEW d \in StopCallers, ShutdownStopsPresence(d) PROVE KernelSafe'
    BY <1>22, CallersAssumption DEF ShutdownStopsPresence, PresenceStops, Settles, GoesTo
  <1>23. ASSUME NEW d \in StopCallers, ShutdownJoins(d) PROVE KernelSafe'
    BY <1>23, CallersAssumption DEF ShutdownJoins, Fails, GoesTo
  <1>24. ASSUME NEW d \in StopCallers, DeadlineExpires(d), DeadlineSwallowed(d) PROVE KernelSafe'
    BY <1>24, CallersAssumption DEF DeadlineSwallowed, DeadlineExpires
  <1>25. ASSUME NEW d \in StopCallers, DeadlineExpires(d), DeadlineFails(d) PROVE KernelSafe'
    <2>1. /\ shutdown[d] \in {"adapters", "drain", "router"}
          /\ shutdown' = [shutdown EXCEPT ![d] = "raised"]
          /\ runtimeState' = "failed" /\ admission' = FALSE
          /\ UNCHANGED <<events, alive, components, call>>
      BY <1>25 DEF DeadlineFails, DeadlineExpires, Fails
    <2>2. /\ supervisor' \in SupervisorEnds <=> supervisor \in SupervisorEnds
          /\ supervisor \in {"serving", "leaving"} => supervisor' = supervisor
          /\ supervisor' \in {"absent", "scheduled", "starting", "leaving"} => supervisor' = supervisor
          /\ aborted' => aborted \/ cancelSent'
          /\ aborted => aborted'
          /\ cancelSent => cancelSent'
          /\ groupFailed' = groupFailed
      BY <1>25 DEF DeadlineFails, CancelSupervisor
    <2>3. supervisor \notin {"absent", "scheduled", "starting"}
      BY <2>1
    <2>4. KernelBegins'
      BY <2>1, <2>2, <2>3
    <2>8. UNCHANGED routerError /\ deadline' = [deadline EXCEPT ![d] = "spent"]
      BY <1>25 DEF DeadlineFails, DeadlineExpires
    <2>9. Quiet => Quiet'
      BY <2>1, <2>8
    <2>10. StoppedRuntimeIsQuiet'
      BY <2>1, <2>9
    <2>5. GroupEnds'
      BY <2>1, <2>2
    <2>6. ShutdownsProceed'
      BY <2>1, <2>2
    <2>7. SwallowedOnlyByDeadline'
      BY <1>25, <2>1 DEF DeadlineFails, DeadlineExpires
    <2> QED BY <2>4, <2>5, <2>6, <2>7, <2>10
  <1>26. ASSUME NEW d \in StopCallers, DeadlineExpires(d), DeadlineCancelsSupervisor(d) PROVE KernelSafe'
    BY <1>26, CallersAssumption DEF DeadlineCancelsSupervisor, DeadlineExpires, CancelSupervisor
  <1>27. ASSUME NEW s \in StopCallers, Stop(s), StopNew(s) PROVE KernelSafe'
    BY <1>27, CallersAssumption DEF StopNew, Ends, Stop
  <1>28. ASSUME NEW s \in StopCallers, Stop(s), StopStopped(s) PROVE KernelSafe'
    BY <1>28, CallersAssumption DEF StopStopped, Ends, Stop
  <1>29. ASSUME NEW s \in StopCallers, Stop(s), StopStarting(s) PROVE KernelSafe'
    BY <1>29, CallersAssumption DEF StopStarting, Ends, Stop
  <1>30. ASSUME NEW s \in StopCallers, Stop(s), StopStopping(s) PROVE KernelSafe'
    BY <1>30, CallersAssumption DEF StopStopping, Ends, Stop
  <1>31. ASSUME NEW s \in StopCallers, Stop(s), StopCalled(s) PROVE KernelSafe'
    BY <1>31, CallersAssumption DEF StopCalled, Ends, Stop, NewShutdown, Starts
  <1>32. ASSUME NEW s \in StopCallers, StopRaises(s) PROVE KernelSafe'
    BY <1>32, CallersAssumption DEF StopRaises, Ends
  <1>33. ASSUME NEW s \in StopCallers, StopJoinsShutdown(s) PROVE KernelSafe'
    BY <1>33, CallersAssumption DEF StopJoinsShutdown, Ends
  <1>34. CASE UNCHANGED kernelVars
    BY <1>34, CallersAssumption DEF kernelVars
  <1> HIDE DEF lifecycle, events, taskGroup, group, components, settlement,
             KernelInv, KernelTypeOK, KernelSafe, KernelBegins, GroupEnds, ShutdownsProceed, SwallowedOnlyByDeadline, StoppedRuntimeIsQuiet, Quiet,
             Phases, ShutdownEnds, SupervisorEnds
  <1> QED
    BY <1>1, <1>2, <1>3, <1>4, <1>5, <1>6, <1>7, <1>8, <1>9, <1>10, <1>11, <1>12, <1>13,
       <1>14, <1>15, <1>16, <1>17, <1>18, <1>19, <1>20, <1>21, <1>22, <1>23, <1>24, <1>25,
       <1>26, <1>27, <1>28, <1>29, <1>30, <1>31, <1>32, <1>33, <1>34
      DEF KernelNext, StartEnds, SupervisorStep, Finally, TaskEnds, ComponentStops, ShutdownWaits,
          DeadlineExpires, Stop, StopEnds

\* The kernel starts with nothing begun.
LEMMA InitKernelInv ==
  ASSUME KernelInit
  PROVE  KernelInv
  <1>1. KernelTypeOK
    <2>1. Cardinality(current) <= 1
      BY FS_EmptySet DEF KernelInit
    <2> QED  BY <2>1 DEF KernelInit, KernelTypeOK
  <1>2. KernelSafe
    BY DEF KernelInit, KernelSafe, KernelBegins, GroupEnds, ShutdownsProceed, SwallowedOnlyByDeadline,
           StoppedRuntimeIsQuiet
  <1> QED  BY <1>1, <1>2 DEF KernelInv

\* Every step of the kernel keeps the whole invariant.
LEMMA NextKernelInv ==
  ASSUME KernelInv, [KernelNext]_kernelVars
  PROVE  KernelInv'
  BY KernelTypedStep, KernelSafeStep DEF KernelInv

\* The invariant gives what the kernel promises.
LEMMA KernelInvSuffices ==
  ASSUME KernelInv
  PROVE  ReturnedIsQuiet
  BY DEF KernelInv, KernelSafe, StoppedRuntimeIsQuiet, ReturnedIsQuiet

-----------------------------------------------------------------------------
(* The theorems. *)

\* On the routed lane: however a route ends, by its answer, an error, one
\* cancellation or two, in the middle of its own clean-up or not, its run has
\* settled or was asked to; an answered turn is over.
THEOREM RoutedTurnsAreOver == DirectSpec => []NoRunLeftStreaming
  <1>1. DirectSpec => []DirectInv
    BY InitDirectInv, NextDirectInv, PTL DEF DirectSpec
  <1> QED  BY <1>1, DirectInvSuffices, PTL

\* On the local lane: however a turn ends, its run has settled or will, and its
\* threads and its generation are over unless the actor is told otherwise.
THEOREM LocalTurnsAreOver == LocalSpec => []NoLocalTurnLeft
  <1>1. LocalSpec => []LocalInv
    BY InitLocalInv, NextLocalInv, PTL DEF LocalSpec
  <1> QED  BY <1>1, LocalInvSuffices, PTL

\* The lifecycle of the runtime, for any callers of stop(): the states of the runtime, the
\* places of the supervisor, the tasks of its group and the phases of every shutdown agree.
THEOREM KernelInvariant == KernelSpec => []KernelInv
  BY InitKernelInv, NextKernelInv, PTL DEF KernelSpec

\* A stop() that returned left nothing running, whatever failed, poisoned or expired.
THEOREM StopLeavesNothingRunning == KernelSpec => []ReturnedIsQuiet
  BY KernelInvariant, KernelInvSuffices, PTL

\* The two lanes promise the actor the same, for any number of turns, and the kernel
\* promises it of a stop().
THEOREM NothingIsLeftRunning == ServicesSpec => []NothingRunsOn
  <1>1. ServicesInit => DirectInv /\ LocalInv /\ KernelInv
    BY InitDirectInv, InitLocalInv, InitKernelInv DEF ServicesInit
  <1>2. DirectInv /\ LocalInv /\ KernelInv
          /\ [ServicesNext]_<<chosen, kernelVars, runtimeVars, turnVars, laneVars, localVars>>
        => (DirectInv /\ LocalInv /\ KernelInv)'
    <2> SUFFICES ASSUME DirectInv, LocalInv, KernelInv,
                        [ServicesNext]_<<chosen, kernelVars, runtimeVars, turnVars, laneVars, localVars>>
                 PROVE  (DirectInv /\ LocalInv /\ KernelInv)'
      OBVIOUS
    <2>1. [DirectNext]_laneVars /\ [LocalNext]_localVars /\ [KernelNext]_kernelVars
      BY DEF ServicesNext
    <2> QED  BY <2>1, NextDirectInv, NextLocalInv, NextKernelInv
  <1>3. DirectInv /\ LocalInv /\ KernelInv => NothingRunsOn
    BY DirectInvSuffices, LocalInvSuffices, KernelInvSuffices DEF NothingRunsOn
  <1> QED  BY <1>1, <1>2, <1>3, PTL DEF ServicesSpec
=============================================================================
