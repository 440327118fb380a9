--------------------- MODULE ProposalApplicationProofs ---------------------
(***************************************************************************)
(* What the application coordinator keeps true for any number of episodes, *)
(* replayers and presences and any capacity of its window, proved of       *)
(* ProposalApplication: effects happen at most once, the report of an      *)
(* application is what happened, and the coordinator implements the        *)
(* at-most-once fence, although it forgets what it has settled.            *)
(***************************************************************************)
EXTENDS ProposalApplication, TLAPS
-----------------------------------------------------------------------------
(* The coordinator: permits, the window and the lock. *)

Indices == UNION {DOMAIN o.actions : o \in CognitionOutcomes}
Unpermitted == {"waiting", "queued", "thinking"}

CoordinatorTyped ==
  /\ ledger \in [epoch : Nat, issued : Nat, retired : Nat] /\ ledger.retired <= ledger.issued
  /\ permit \in [Episodes -> Permits \cup {None}]
  /\ fence \in [Episodes -> Statuses \cup {None}]
  /\ lock \in Threads \cup {None}
  /\ thread \in [Threads -> {"none", "ready", "held"} \cup Statuses]
  /\ phase \in [Episodes -> Unpermitted \cup {"thought", "applying", "joining", "returned"}]

\* A permit is of the current epoch or an earlier one, and belongs to an outcome.
PermitsIssued ==
  \A e \in Episodes : permit[e] # None =>
    permit[e].epoch <= ledger.epoch /\ permit[e].seq <= ledger.issued

\* What is remembered of an outcome is remembered under a live permit.
WindowIsLive == \A e \in Episodes : fence[e] # None => permit[e] # None /\ Live(e)

\* Nothing but the engine's answer brings an episode past its thinking.
ThinkingUnbound == \A e \in Episodes : phase[e] \in Unpermitted => permit[e] = None
ThreadsBound == \A t \in Threads : thread[t] # "none" => permit[t[1]] # None
PastThinkingBound ==
  \A e \in Episodes : phase[e] \in {"thought", "applying", "joining"} => permit[e] # None

\* Whoever holds the lock applies an outcome whose permit lives and is not settled.
HolderIsLive ==
  lock # None => /\ thread[lock] = "held"
                 /\ permit[lock[1]] # None /\ Live(lock[1]) /\ fence[lock[1]] = None

CInv == /\ CoordinatorTyped /\ PermitsIssued /\ WindowIsLive
        /\ ThinkingUnbound /\ ThreadsBound /\ PastThinkingBound /\ HolderIsLive
-----------------------------------------------------------------------------
(* Effects. *)

\* The outcome can never be applied again.
Over(e) == permit[e] # None /\ (fence[e] # None \/ ~Live(e))

EffectsTyped ==
  /\ outcome = [e \in Episodes |-> outcome[e]] /\ report = [e \in Episodes |-> report[e]]
  /\ \A e \in Episodes : permit[e] # None => outcome[e] \in CognitionOutcomes
  /\ done \in [Episodes -> [state : Nat, temporal : Nat, sent : Seq(Indices)]]
  /\ began \subseteq Episodes /\ stray \subseteq Episodes \X Indices

\* What has begun is being applied or is over; nothing else has left a trace.
BegunIsFenced == \A e \in began : Over(e) \/ (lock # None /\ lock[1] = e)
ReportedIsOver == \A e \in Episodes : report[e] # None => Over(e)
UnbegunIsClean == \A e \in Episodes \ began : done[e] = Unsent
\* An executor left behind has not sent yet, and its outcome is over and says so.
StraysAreOver ==
  \A s \in stray : /\ s[1] \in began /\ Over(s[1]) /\ s[2] \notin Range(done[s[1]].sent)
                   /\ ~report[s[1]].contained
SentOnce == \A e \in Episodes : IsInjective(done[e].sent)

ResultSet == [status : {"ok", "failed", "denied", "invalid", "none"},
              effect : {"none", "confirmed", "unknown"}, attempted : BOOLEAN]
Early == {"prepare", "state"}
\* How far the application is, and what of its outcome has happened.
JobTyped ==
  LET o == outcome[lock[1]] IN
  job \in [stage : Stages, state : {"not_requested", "applied"},
           temporal : {"not_requested", "applied", "duplicate"},
           results : {job.results}, calls : SUBSET DOMAIN o.actions]
StateAccounted ==
  LET e == lock[1] IN
  /\ done[e].state = IF job.state = "applied" THEN 1 ELSE 0
  /\ job.stage \in Early => job.state = "not_requested"
  /\ job.stage \notin Early => (job.state = "applied" <=> outcome[e].state > 0)
TemporalAccounted ==
  LET e == lock[1] IN
  /\ done[e].temporal = IF job.temporal = "applied" THEN 1 ELSE 0
  /\ job.stage \in Early \cup {"temporal"} => job.temporal = "not_requested"
  /\ job.stage \in {"guard", "call"} => (job.temporal # "not_requested" <=> outcome[e].temporal)
NothingSentYet == job.stage # "call" => done[lock[1]].sent = << >>
CompiledBeforeCalls ==
  job.stage \in {"state", "temporal", "guard"} => job.results = Compiled(outcome[lock[1]])
CallsAccounted ==
  LET e == lock[1]
      acts == outcome[e].actions
      sent == Range(done[e].sent)
  IN job.stage = "call" =>
       /\ job.results \in [DOMAIN acts -> ResultSet]
       /\ \A i \in job.calls : i \notin sent /\ acts[i] \in Routed
       /\ \A i \in sent : /\ i \in DOMAIN acts /\ job.results[i].attempted
                          /\ job.results[i].effect # "none"
                          /\ job.results[i].status \in {"ok", "failed"}
       /\ \A i \in DOMAIN acts :
            acts[i] \in Routed /\ job.results[i].attempted /\ job.results[i].status = "ok"
              => i \in sent
JobInv == lock # None =>
  /\ JobTyped /\ StateAccounted /\ TemporalAccounted
  /\ NothingSentYet /\ CompiledBeforeCalls /\ CallsAccounted

EInv == /\ EffectsTyped /\ BegunIsFenced /\ ReportedIsOver /\ UnbegunIsClean
        /\ StraysAreOver /\ SentOnce /\ JobInv
AtMostOnce == \A e \in Episodes : done[e].state <= 1 /\ done[e].temporal <= 1
-----------------------------------------------------------------------------
(* The operators. *)

\* What was sent after one more call.
LEMMA RangeOfAppend ==
  ASSUME NEW S, NEW s \in Seq(S), NEW x \in S
  PROVE  /\ Append(s, x) \in Seq(S)
         /\ Range(Append(s, x)) = Range(s) \cup {x}
  <1>1. /\ Append(s, x) \in Seq(S) /\ Len(Append(s, x)) = Len(s) + 1 /\ Len(s) \in Nat
        /\ \A i \in 1..Len(s) : Append(s, x)[i] = s[i]
        /\ Append(s, x)[Len(s) + 1] = x
    OBVIOUS
  <1>2. DOMAIN s = 1..Len(s) /\ DOMAIN Append(s, x) = 1..(Len(s) + 1)
    BY <1>1
  <1>3. 1..(Len(s) + 1) = 1..Len(s) \cup {Len(s) + 1}
    BY <1>1
  <1> QED BY <1>1, <1>2, <1>3 DEF Range

\* A call that was not made yet is not made twice.
LEMMA AppendStaysInjective ==
  ASSUME NEW S, NEW s \in Seq(S), NEW x \in S, IsInjective(s), x \notin Range(s)
  PROVE  IsInjective(Append(s, x))
  <1>1. /\ Append(s, x) \in Seq(S) /\ Len(Append(s, x)) = Len(s) + 1 /\ Len(s) \in Nat
        /\ \A i \in 1..Len(s) : Append(s, x)[i] = s[i]
        /\ Append(s, x)[Len(s) + 1] = x
    OBVIOUS
  <1>2. DOMAIN s = 1..Len(s) /\ DOMAIN Append(s, x) = 1..(Len(s) + 1)
    BY <1>1
  <1>3. \A i \in 1..Len(s) : s[i] # x
    BY <1>2 DEF Range
  <1>4. \A i \in 1..(Len(s) + 1) : i \in 1..Len(s) \/ i = Len(s) + 1
    BY <1>1
  <1>5. \A i \in 1..(Len(s) + 1) : Append(s, x)[i] = IF i = Len(s) + 1 THEN x ELSE s[i]
    BY <1>1, <1>4
  <1>6. \A i, j \in 1..Len(s) : s[i] = s[j] => i = j
    BY <1>2 DEF IsInjective
  <1>7. ASSUME NEW i \in 1..(Len(s) + 1), NEW j \in 1..(Len(s) + 1),
               Append(s, x)[i] = Append(s, x)[j]
        PROVE  i = j
    <2>1. CASE i = Len(s) + 1 /\ j # Len(s) + 1
      BY <1>3, <1>4, <1>5, <1>7, <2>1
    <2>2. CASE i # Len(s) + 1 /\ j = Len(s) + 1
      BY <1>3, <1>4, <1>5, <1>7, <2>2
    <2>3. CASE i # Len(s) + 1 /\ j # Len(s) + 1
      BY <1>4, <1>5, <1>6, <1>7, <2>3
    <2> QED BY <2>1, <2>2, <2>3
  <1> QED BY <1>2, <1>7 DEF IsInjective

StateResults == {"not_requested", "applied", "stale", "rejected", "failed"}
TemporalResults == {"not_requested", "applied", "duplicate", "rejected"}
ActionResults == {"not_requested", "not_attempted", "applied", "partial", "failed", "rejected"}

\* What the boundaries of a full success report.
Successes == {"not_requested", "applied", "duplicate"}

\* The summary of a batch of actions says whether all of them succeeded, and does
\* not hide a failed one.
LEMMA ActionStatusTells ==
  ASSUME NEW D, NEW rs \in [D -> ResultSet]
  PROVE  /\ ActionStatus(rs) \in {"applied", "partial", "failed", "rejected"}
         /\ ActionStatus(rs) = "applied" =>
              \A i \in D : rs[i].attempted /\ rs[i].status = "ok"
         /\ (\E i \in D : rs[i].status = "failed") => ActionStatus(rs) \in {"failed", "partial"}
  <1>1. DOMAIN rs = D /\ \A i \in D : rs[i] \in ResultSet
    OBVIOUS
  <1> QED BY <1>1 DEF ActionStatus, ResultSet

\* What the status of a whole application says about its three effect boundaries.
LEMMA AggregateTells ==
  ASSUME NEW st \in StateResults, NEW te \in TemporalResults, NEW ac \in ActionResults
  PROVE  LET status == Aggregate(st, te, ac) IN
         /\ status \in Statuses
         /\ status = "stale" => st = "stale"
         /\ status = "no_proposals" =>
              st # "applied" /\ te # "applied" /\ ac = "not_requested"
         /\ status \in {"rejected", "failed"} => st # "applied" /\ te # "applied"
         /\ status = "applied" =>
              {st, te, ac} \subseteq Successes
         /\ st # "stale" /\ ac = "failed" => status \in {"failed", "partial"}
         /\ st \in {"applied", "not_requested"} /\ te # "rejected" /\ ac = "partial" =>
              status = "partial"
  <1> USE DEF Aggregate, Effectful, StateResults, TemporalResults, ActionResults, Statuses, Successes
  <1>1. CASE st = "stale"
    BY <1>1
  <1>2. CASE st # "stale" /\ "failed" \in {st, ac}
    BY <1>2
  <1>3. CASE st # "stale" /\ "failed" \notin {st, ac} /\ "rejected" \in {st, te, ac}
    BY <1>3
  <1>4. CASE st # "stale" /\ "failed" \notin {st, ac} /\ "rejected" \notin {st, te, ac}
    BY <1>4
  <1> QED BY <1>1, <1>2, <1>3, <1>4
-----------------------------------------------------------------------------
(* The coordinator. *)

\* Nothing is bound, remembered or held at first.
LEMMA InitCInv == AppInit => CInv
  <1> SUFFICES ASSUME AppInit PROVE CInv
    OBVIOUS
  <1> QED BY NoneAssumption DEF AppInit, CInv, CoordinatorTyped, PermitsIssued, WindowIsLive, ThinkingUnbound,
          ThreadsBound, PastThinkingBound, HolderIsLive, Unpermitted, Threads

\* A step that leaves the permits, the window and the lock alone, and moves phases and
\* threads as the adapter does.
LEMMA FrameCInv ==
  ASSUME CInv, UNCHANGED <<coordVars, lock>>,
         phase' \in [Episodes -> Unpermitted \cup {"thought", "applying", "joining", "returned"}],
         thread' \in [Threads -> {"none", "ready", "held"} \cup Statuses],
         \A e \in Episodes : phase'[e] \in Unpermitted => phase[e] \in Unpermitted,
         \A e \in Episodes : phase'[e] \in {"thought", "applying", "joining"}
                               => phase[e] \in {"thought", "applying", "joining"},
         \A t \in Threads : thread'[t] # "none" => thread[t] # "none" \/ permit[t[1]] # None,
         lock # None => thread'[lock] = "held"
  PROVE  CInv'
  <1> QED BY DEF CInv, CoordinatorTyped, PermitsIssued, WindowIsLive, ThinkingUnbound,
          ThreadsBound, PastThinkingBound, HolderIsLive, coordVars, Live

\* The result is recorded and the lock released.
LEMMA RecordCInv ==
  ASSUME CInv, NEW t \in Threads, lock = t,
         NEW st \in StateResults, NEW te \in TemporalResults, NEW ac \in ActionResults,
         NEW rs, NEW con, Record(t, st, te, ac, rs, con), UNCHANGED phase
  PROVE  CInv' /\ \A e \in Episodes : Over(e)' <=> Over(e) \/ e = t[1]
  <1> DEFINE status == Aggregate(st, te, ac)
  <1>1. /\ status \in Statuses /\ t[1] \in Episodes /\ lock' = None
        /\ fence' = [fence EXCEPT ![t[1]] = status] /\ thread' = [thread EXCEPT ![t] = status]
        /\ ledger' = ledger /\ permit' = permit
    BY AggregateTells DEF Record, Threads
  <1>2. permit[t[1]] # None /\ Live(t[1]) /\ lock # None
    BY NoneAssumption DEF CInv, HolderIsLive
  <1> HIDE DEF status
  <1>3. CoordinatorTyped' /\ PermitsIssued' /\ ThinkingUnbound' /\ PastThinkingBound' /\ HolderIsLive'
    BY <1>1 DEF CInv, CoordinatorTyped, PermitsIssued, ThinkingUnbound, PastThinkingBound, HolderIsLive
  <1>4. WindowIsLive' /\ ThreadsBound'
    BY <1>1, <1>2 DEF CInv, CoordinatorTyped, WindowIsLive, ThreadsBound, Live
  <1>5. \A e \in Episodes : Over(e)' <=> Over(e) \/ e = t[1]
    BY <1>1, <1>2, NoneAssumption DEF CInv, CoordinatorTyped, Over, Live
  <1> QED BY <1>3, <1>4, <1>5 DEF CInv

\* An outcome is bound: its permit lives, and what was over or remembered stays over.
LEMMA BindCInv ==
  ASSUME CInv, NEW e \in Episodes, EngineAnswers(e)
  PROVE  /\ CInv'
         /\ permit[e] = None /\ permit'[e] # None /\ Live(e)' /\ fence'[e] = None
         /\ \A p \in Episodes \ {e} : permit'[p] = permit[p]
         /\ \A p \in Episodes : Over(p) => Over(p)'
         /\ IF WindowFull THEN \A p \in Episodes \ {e} : ~Live(p)' \/ permit[p] = None
            ELSE /\ UNCHANGED fence
                 /\ \A p \in Episodes \ {e} : permit[p] # None => (Live(p)' <=> Live(p))
  <1>1. /\ phase[e] = "thinking" /\ lock = None /\ lock' = None /\ UNCHANGED thread
        /\ ledger' = [Rotated EXCEPT !.issued = @ + 1]
        /\ permit' = [permit EXCEPT ![e] = [epoch |-> ledger'.epoch, seq |-> ledger'.issued]]
        /\ fence' = IF WindowFull THEN [p \in Episodes |-> None] ELSE fence
        /\ phase' = [phase EXCEPT ![e] = "thought"]
    BY DEF EngineAnswers, lockVars
  <1>2. permit[e] = None
    BY <1>1 DEF CInv, ThinkingUnbound, Unpermitted
  <1>3. fence[e] = None
    BY <1>2 DEF CInv, WindowIsLive
  <1>4. /\ ledger \in [epoch : Nat, issued : Nat, retired : Nat] /\ ledger.retired <= ledger.issued
        /\ permit \in [Episodes -> Permits \cup {None}] /\ fence \in [Episodes -> Statuses \cup {None}]
    BY DEF CInv, CoordinatorTyped
  <1>5. /\ ledger' \in [epoch : Nat, issued : Nat, retired : Nat] /\ ledger'.retired < ledger'.issued
        /\ ledger'.issued = ledger.issued + 1
        /\ IF WindowFull THEN ledger'.epoch = ledger.epoch + 1
           ELSE ledger'.epoch = ledger.epoch /\ ledger'.retired = ledger.retired
    BY <1>1, <1>4 DEF Rotated
  <1>6. /\ permit' \in [Episodes -> Permits \cup {None}]
        /\ permit'[e] = [epoch |-> ledger'.epoch, seq |-> ledger'.issued] /\ permit'[e] \in Permits
        /\ \A p \in Episodes \ {e} : permit'[p] = permit[p]
    BY <1>1, <1>4, <1>5 DEF Permits
  <1>7. Live(e)' /\ permit'[e] # None
    BY <1>5, <1>6, NoneAssumption DEF Live
  <1>8. fence' \in [Episodes -> Statuses \cup {None}] /\ fence'[e] = None
    BY <1>1, <1>3, <1>4
  <1>9. \A p \in Episodes \ {e} : permit[p] # None =>
          IF WindowFull THEN ~Live(p)' ELSE (Live(p)' <=> Live(p))
    BY <1>4, <1>5, <1>6 DEF CInv, PermitsIssued, Live, Permits
  <1>10. \A p \in Episodes : Over(p) => Over(p)'
    BY <1>1, <1>2, <1>6, <1>9 DEF Over
  <1>11. CoordinatorTyped'
    BY <1>1, <1>5, <1>6, <1>8 DEF CInv, CoordinatorTyped, Unpermitted
  <1>12. PermitsIssued'
    BY <1>4, <1>5, <1>6 DEF CInv, PermitsIssued, Permits
  <1>13. WindowIsLive'
    BY <1>1, <1>6, <1>7, <1>8, <1>9 DEF CInv, WindowIsLive
  <1>14. ThinkingUnbound' /\ PastThinkingBound' /\ HolderIsLive'
    BY <1>1, <1>6, <1>7 DEF CInv, CoordinatorTyped, ThinkingUnbound, PastThinkingBound, HolderIsLive, Unpermitted
  <1>15. ThreadsBound'
    BY <1>1, <1>6, <1>7 DEF CInv, ThreadsBound, Threads
  <1> QED BY <1>1, <1>2, <1>6, <1>7, <1>8, <1>9, <1>10, <1>11, <1>12, <1>13, <1>14, <1>15 DEF CInv
-----------------------------------------------------------------------------
(* Effects and reports. *)

\* ReportIsHonest, of one outcome.
Honest(e) ==
  report[e] # None =>
    LET r == report[e]
        sent == Range(done[e].sent)
    IN /\ r.status \in {"stale", "no_proposals"} => done[e] = Unsent
       /\ r.status \in {"rejected", "failed"} => done[e].state = 0 /\ done[e].temporal = 0
       /\ done[e].temporal = 1 <=> r.temporal = "applied"
       /\ r.status = "applied" =>
            /\ done[e].state = 1 <=> outcome[e].state > 0
            /\ r.temporal \in {"applied", "duplicate"} <=> outcome[e].temporal
            /\ \A i \in DOMAIN outcome[e].actions : outcome[e].actions[i] \in Routed => i \in sent
       /\ IF r.contained
            THEN \A i \in sent : r.actions[i].attempted /\ r.actions[i].effect # "none"
            ELSE r.status \in {"failed", "partial"}


SafeInv == EInv /\ ReportIsHonest /\ AtMostOnce
EffectRecord == [state : Nat, temporal : Nat, sent : Seq(Indices)]

\* A step that makes effects of no outcome but e.
EffectsOf(e) ==
  /\ done' \in [Episodes -> EffectRecord]
  /\ \A p \in Episodes \ {e} : done'[p] = done[p]
  /\ began' \in {began, began \cup {e}}
  /\ e \notin began' => done'[e] = Unsent
  /\ IsInjective(done'[e].sent) /\ done'[e].state <= 1 /\ done'[e].temporal <= 1

\* No outcome has left a trace at first.
LEMMA InitSafeInv == AppInit => SafeInv
  <1> SUFFICES ASSUME AppInit PROVE SafeInv
    OBVIOUS
  <1>1. /\ lock = None /\ permit = [e \in Episodes |-> None] /\ report = [e \in Episodes |-> None]
        /\ outcome = [e \in Episodes |-> None] /\ stray = {} /\ began = {}
        /\ done = [e \in Episodes |-> Unsent]
    BY DEF AppInit
  <1>2. Unsent \in EffectRecord /\ IsInjective(Unsent.sent)
    BY DEF Unsent, EffectRecord, IsInjective
  <1>3. EffectsTyped
    BY <1>1, <1>2 DEF EffectsTyped, EffectRecord
  <1>4. BegunIsFenced /\ ReportedIsOver /\ UnbegunIsClean /\ StraysAreOver /\ SentOnce /\ JobInv
    BY <1>1, <1>2 DEF BegunIsFenced, ReportedIsOver, UnbegunIsClean, StraysAreOver, SentOnce, JobInv
  <1>5. ReportIsHonest /\ AtMostOnce
    BY <1>1 DEF ReportIsHonest, AtMostOnce, Unsent
  <1> QED BY <1>3, <1>4, <1>5 DEF SafeInv, EInv

\* A step that touches neither the coordinator nor the effects.
LEMMA FrameSafeInv ==
  ASSUME SafeInv, UNCHANGED <<coordVars, lockVars, outcome, histVars>>
  PROVE  SafeInv'
  <1>1. UNCHANGED <<ledger, permit, fence, lock, job, report, outcome, stray, began, done>>
    BY DEF coordVars, lockVars, histVars
  <1>2. \A e \in Episodes : Over(e)' <=> Over(e)
    BY <1>1 DEF Over, Live
  <1>3. EffectsTyped' /\ UnbegunIsClean' /\ SentOnce' /\ AtMostOnce' /\ ReportIsHonest'
    BY <1>1 DEF SafeInv, EInv, EffectsTyped, UnbegunIsClean, SentOnce, AtMostOnce, ReportIsHonest
  <1>4. BegunIsFenced' /\ ReportedIsOver' /\ StraysAreOver'
    BY <1>1, <1>2 DEF SafeInv, EInv, EffectsTyped, BegunIsFenced, ReportedIsOver, StraysAreOver
  <1>5. JobInv'
    BY <1>1 DEF SafeInv, EInv, JobInv, JobTyped, StateAccounted, TemporalAccounted, NothingSentYet,
                CompiledBeforeCalls, CallsAccounted
  <1> QED BY <1>3, <1>4, <1>5 DEF SafeInv, EInv

\* What is known of the outcome whose application holds the lock.
LEMMA HolderFacts ==
  ASSUME CInv, SafeInv, NEW t \in Threads, lock = t
  PROVE  /\ t[1] \in Episodes /\ ~Over(t[1]) /\ report[t[1]] = None
         /\ outcome[t[1]] \in CognitionOutcomes /\ OutcomeShape(outcome[t[1]])
         /\ \A s \in stray : s[1] # t[1]
         /\ done[t[1]] \in EffectRecord
         /\ JobTyped /\ StateAccounted /\ TemporalAccounted
         /\ NothingSentYet /\ CompiledBeforeCalls /\ CallsAccounted
         /\ UNCHANGED <<began, done>> => EffectsOf(t[1])
  <1>1. lock # None /\ t[1] \in Episodes
    BY NoneAssumption DEF Threads
  <1>2. permit[t[1]] # None /\ Live(t[1]) /\ fence[t[1]] = None
    BY <1>1 DEF CInv, HolderIsLive
  <1>3. ~Over(t[1])
    BY <1>2 DEF Over
  <1>4. report[t[1]] = None /\ \A s \in stray : s[1] # t[1]
    BY <1>1, <1>3 DEF SafeInv, EInv, ReportedIsOver, StraysAreOver
  <1>5. outcome[t[1]] \in CognitionOutcomes /\ OutcomeShape(outcome[t[1]])
    BY <1>1, <1>2, ApplicationAssumption DEF SafeInv, EInv, EffectsTyped
  <1>6. done \in [Episodes -> EffectRecord] /\ done[t[1]] \in EffectRecord
    BY <1>1 DEF SafeInv, EInv, EffectsTyped, EffectRecord
  <1>7. /\ JobTyped /\ StateAccounted /\ TemporalAccounted
        /\ NothingSentYet /\ CompiledBeforeCalls /\ CallsAccounted
    BY <1>1 DEF SafeInv, EInv, JobInv
  <1>8. UNCHANGED <<began, done>> => EffectsOf(t[1])
    BY <1>1, <1>6 DEF SafeInv, EInv, EffectsOf, SentOnce, AtMostOnce, UnbegunIsClean
  <1> QED BY <1>1, <1>3, <1>4, <1>5, <1>6, <1>7, <1>8

\* An application goes on.
LEMMA HeldSafeInv ==
  ASSUME CInv, SafeInv, NEW t \in Threads, lock = t,
         UNCHANGED <<coordVars, report, lock, outcome, stray>>, EffectsOf(t[1]), JobInv'
  PROVE  SafeInv'
  <1> DEFINE e == t[1]
  <1>1. /\ e \in Episodes /\ ~Over(e) /\ report[e] = None /\ lock # None /\ lock[1] = e
        /\ \A s \in stray : s[1] # e
    BY HolderFacts, NoneAssumption
  <1>2. \A p \in Episodes : Over(p)' <=> Over(p)
    BY DEF Over, Live, coordVars
  <1> HIDE DEF e
  <1>3. EffectsTyped' /\ began \subseteq began' /\ (\A p \in began' : p \in began \/ p = e)
    BY <1>1 DEF e, SafeInv, EInv, EffectsTyped, EffectsOf, EffectRecord, coordVars
  <1>4. BegunIsFenced' /\ ReportedIsOver'
    BY <1>1, <1>2, <1>3 DEF SafeInv, EInv, EffectsTyped, BegunIsFenced, ReportedIsOver
  <1>5. UnbegunIsClean' /\ SentOnce' /\ AtMostOnce'
    BY <1>1, <1>3 DEF e, SafeInv, EInv, EffectsOf, UnbegunIsClean, SentOnce, AtMostOnce
  <1>6. StraysAreOver'
    BY <1>1, <1>2, <1>3 DEF e, SafeInv, EInv, EffectsTyped, EffectsOf, StraysAreOver
  <1>7. ReportIsHonest'
    BY <1>1 DEF e, SafeInv, EffectsOf, ReportIsHonest
  <1> QED BY <1>3, <1>4, <1>5, <1>6, <1>7 DEF SafeInv, EInv

\* An application ends: its report must be honest, and an executor that it leaves
\* behind has not sent and is reported.
LEMMA RecordSafeInv ==
  ASSUME CInv, SafeInv, NEW t \in Threads, lock = t,
         NEW st \in StateResults, NEW te \in TemporalResults, NEW ac \in ActionResults,
         NEW rs, NEW con \in BOOLEAN, Record(t, st, te, ac, rs, con), UNCHANGED <<outcome, phase>>,
         EffectsOf(t[1]), Honest(t[1])',
         NEW left \in SUBSET {i \in Indices : i \notin Range(done'[t[1]].sent)},
         stray' = stray \cup {<<t[1], i>> : i \in left},
         left # {} => t[1] \in began' /\ ~con
  PROVE  CInv' /\ SafeInv'
  <1> DEFINE e == t[1]
             status == Aggregate(st, te, ac)
  <1>1. /\ e \in Episodes /\ ~Over(e) /\ report[e] = None
        /\ \A s \in stray : s[1] # e
    BY HolderFacts
  <1>2. CInv' /\ \A p \in Episodes : Over(p)' <=> Over(p) \/ p = e
    BY RecordCInv
  <1>3. /\ lock' = None /\ permit' = permit
        /\ report' = [report EXCEPT ![e] = [status |-> status, temporal |-> te, actions |-> rs, contained |-> con]]
    BY DEF Record
  <1>4. /\ report = [p \in Episodes |-> report[p]]
        /\ stray \subseteq Episodes \X Indices /\ began \subseteq Episodes
    BY DEF SafeInv, EInv, EffectsTyped
  <1>5. report'[e] = [status |-> status, temporal |-> te, actions |-> rs, contained |-> con]
        /\ \A p \in Episodes \ {e} : report'[p] = report[p]
    BY <1>1, <1>3, <1>4
  <1> HIDE DEF e, status
  <1>6. began \subseteq began' /\ (\A p \in began' : p \in began \/ p = e)
    BY DEF e, EffectsOf
  <1>7. \A s \in stray' : s \in stray \/ (s[1] = e /\ s[2] \in left /\ s \in Episodes \X Indices)
    BY <1>1 DEF e
  <1>8. EffectsTyped'
    BY <1>1, <1>3, <1>4, <1>6, <1>7 DEF e, SafeInv, EInv, EffectsTyped, EffectsOf, EffectRecord
  <1>9. BegunIsFenced' /\ ReportedIsOver'
    BY <1>1, <1>2, <1>4, <1>5, <1>6, <1>3 DEF e, SafeInv, EInv, BegunIsFenced, ReportedIsOver
  <1>10. UnbegunIsClean' /\ SentOnce' /\ AtMostOnce'
    BY <1>1, <1>6 DEF e, SafeInv, EInv, EffectsOf, UnbegunIsClean, SentOnce, AtMostOnce
  <1>11. JobInv'
    BY <1>3 DEF JobInv
  <1>12. StraysAreOver'
    <2> SUFFICES ASSUME NEW s \in stray'
                 PROVE  /\ s[1] \in began' /\ Over(s[1])' /\ s[2] \notin Range(done'[s[1]].sent)
                        /\ ~report'[s[1]].contained
      BY DEF StraysAreOver
    <2>1. CASE s \in stray
      <3>1. s[1] # e /\ s[1] \in Episodes /\ s[1] \in began /\ Over(s[1])
        BY <1>1, <1>4, <2>1 DEF SafeInv, EInv, StraysAreOver
      <3>2. done'[s[1]] = done[s[1]] /\ report'[s[1]] = report[s[1]]
        BY <1>5, <3>1 DEF e, EffectsOf
      <3> QED BY <1>2, <1>6, <2>1, <3>1, <3>2 DEF SafeInv, EInv, StraysAreOver
    <2>2. CASE s[1] = e /\ s[2] \in left
      <3>1. e \in began' /\ ~con /\ Over(e)' /\ s[2] \notin Range(done'[e].sent)
        BY <1>1, <1>2, <2>2 DEF e
      <3> QED BY <1>5, <2>2, <3>1
    <2> QED BY <1>7, <2>1, <2>2
  <1>13. ReportIsHonest'
    <2> SUFFICES ASSUME NEW p \in Episodes PROVE Honest(p)'
      BY DEF ReportIsHonest, Honest
    <2>1. CASE p = e
      BY <2>1 DEF e
    <2>2. CASE p # e
      BY <1>5, <2>2 DEF e, EffectsOf, SafeInv, ReportIsHonest, Honest
    <2> QED BY <2>1, <2>2
  <1> QED BY <1>2, <1>8, <1>9, <1>10, <1>11, <1>12, <1>13 DEF SafeInv, EInv

\* An application ends and leaves no executor behind.
LEMMA SettleSafeInv ==
  ASSUME CInv, SafeInv, NEW t \in Threads, lock = t,
         NEW st \in StateResults, NEW te \in TemporalResults, NEW ac \in ActionResults,
         NEW rs, Finish(t, st, te, ac, rs), UNCHANGED <<outcome, phase, stray>>,
         EffectsOf(t[1]), Honest(t[1])'
  PROVE  CInv' /\ SafeInv'
  <1> DEFINE unsent == {i \in Indices : i \notin Range(done'[t[1]].sent)}
             left == {i \in unsent : FALSE}
  <1>1. left \in SUBSET unsent /\ left = {} /\ {<<t[1], i>> : i \in left} = {}
    OBVIOUS
  <1>2. stray' = stray \cup {<<t[1], i>> : i \in left} /\ TRUE \in BOOLEAN
    BY <1>1
  <1>3. Record(t, st, te, ac, rs, TRUE)
    BY DEF Finish
  <1>4. left # {} => t[1] \in began' /\ ~TRUE
    BY <1>1
  <1> HIDE DEF left
  <1> QED BY <1>1, <1>2, <1>3, <1>4, RecordSafeInv

\* What one more effect of an outcome leaves in its record, first for the state change.
LEMMA StateRecorded ==
  ASSUME done \in [Episodes -> EffectRecord], NEW e \in Episodes,
         done' = [done EXCEPT ![e].state = @ + 1]
  PROVE  /\ done' \in [Episodes -> EffectRecord] /\ done'[e].state = done[e].state + 1
         /\ done'[e].temporal = done[e].temporal /\ done'[e].sent = done[e].sent
         /\ \A p \in Episodes \ {e} : done'[p] = done[p]
  <1> DEFINE r == [state |-> done[e].state + 1, temporal |-> done[e].temporal, sent |-> done[e].sent]
  <1>1. done[e] \in EffectRecord
    OBVIOUS
  <1>2. r \in EffectRecord
    BY <1>1 DEF EffectRecord
  <1>3. done' = [done EXCEPT ![e] = r]
    <2>1. [done[e] EXCEPT !.state = @ + 1] = r
      BY <1>1 DEF EffectRecord
    <2> QED BY <2>1
  <1>4. r.state = done[e].state + 1 /\ r.temporal = done[e].temporal /\ r.sent = done[e].sent
    OBVIOUS
  <1> HIDE DEF r
  <1> QED BY <1>2, <1>3, <1>4

\* The same for the committed wakes.
LEMMA WakesRecorded ==
  ASSUME done \in [Episodes -> EffectRecord], NEW e \in Episodes,
         done' = [done EXCEPT ![e].temporal = @ + 1]
  PROVE  /\ done' \in [Episodes -> EffectRecord] /\ done'[e].temporal = done[e].temporal + 1
         /\ done'[e].state = done[e].state /\ done'[e].sent = done[e].sent
         /\ \A p \in Episodes \ {e} : done'[p] = done[p]
  <1> DEFINE r == [state |-> done[e].state, temporal |-> done[e].temporal + 1, sent |-> done[e].sent]
  <1>1. done[e] \in EffectRecord
    OBVIOUS
  <1>2. r \in EffectRecord
    BY <1>1 DEF EffectRecord
  <1>3. done' = [done EXCEPT ![e] = r]
    <2>1. [done[e] EXCEPT !.temporal = @ + 1] = r
      BY <1>1 DEF EffectRecord
    <2> QED BY <2>1
  <1>4. r.state = done[e].state /\ r.temporal = done[e].temporal + 1 /\ r.sent = done[e].sent
    OBVIOUS
  <1> HIDE DEF r
  <1> QED BY <1>2, <1>3, <1>4

\* The calls in the record of an outcome's effects are replaced.
LEMMA SentReplaced ==
  ASSUME NEW d \in EffectRecord, NEW s \in Seq(Indices)
  PROVE  [d EXCEPT !.sent = s] = [state |-> d.state, temporal |-> d.temporal, sent |-> s]
  BY DEF EffectRecord

\* The same for a confirmed call.
LEMMA CallRecorded ==
  ASSUME done \in [Episodes -> EffectRecord], NEW e \in Episodes, NEW i \in Indices,
         done' = [done EXCEPT ![e].sent = Append(@, i)]
  PROVE  /\ done' \in [Episodes -> EffectRecord] /\ done'[e].sent = Append(done[e].sent, i)
         /\ done'[e].state = done[e].state /\ done'[e].temporal = done[e].temporal
         /\ \A p \in Episodes \ {e} : done'[p] = done[p]
  <1> DEFINE r == [state |-> done[e].state, temporal |-> done[e].temporal,
                   sent |-> Append(done[e].sent, i)]
  <1>1. done[e] \in EffectRecord
    OBVIOUS
  <1>2. Append(done[e].sent, i) \in Seq(Indices)
    BY <1>1, RangeOfAppend DEF EffectRecord
  <1>3. r \in EffectRecord
    BY <1>1, <1>2 DEF EffectRecord
  <1>4. done' = [done EXCEPT ![e] = r]
    <2> DEFINE s == Append(done[e].sent, i)
    <2>1. done' = [done EXCEPT ![e] = [done[e] EXCEPT !.sent = s]]
      OBVIOUS
    <2>2. r = [state |-> done[e].state, temporal |-> done[e].temporal, sent |-> s]
      OBVIOUS
    <2>3. s \in Seq(Indices)
      BY <1>2
    <2> HIDE DEF s, r
    <2>4. [done[e] EXCEPT !.sent = s] = r
      BY <1>1, <2>2, <2>3, SentReplaced
    <2> QED BY <2>1, <2>4
  <1>5. /\ r.state = done[e].state /\ r.temporal = done[e].temporal
        /\ r.sent = Append(done[e].sent, i)
    OBVIOUS
  <1> HIDE DEF r
  <1> QED BY <1>3, <1>4, <1>5
-----------------------------------------------------------------------------
(* The stages of an application. *)

\* An application that ends before its first call is reported as it was.
LEMMA EndsUnsent ==
  ASSUME CInv, SafeInv, NEW t \in Threads, lock = t, job.stage # "call",
         NEW st \in StateResults, NEW te \in TemporalResults, NEW ac \in ActionResults,
         NEW rs, Finish(t, st, te, ac, rs), UNCHANGED <<outcome, phase, histVars>>,
         st = "applied" <=> job.state = "applied", te = "applied" <=> job.temporal = "applied",
         st = "stale" => job.stage \in Early,
         {st, te, ac} \subseteq Successes =>
           /\ outcome[t[1]].state > 0 <=> st = "applied"
           /\ outcome[t[1]].temporal <=> te # "not_requested"
           /\ \A i \in DOMAIN outcome[t[1]].actions : outcome[t[1]].actions[i] \notin Routed
  PROVE  CInv' /\ SafeInv'
  <1> DEFINE e == t[1]
             status == Aggregate(st, te, ac)
  <1>1. /\ e \in Episodes /\ report[e] = None /\ done[e] \in EffectRecord /\ EffectsOf(e)
        /\ done' = done /\ stray' = stray
        /\ JobTyped /\ StateAccounted /\ TemporalAccounted /\ NothingSentYet
    BY HolderFacts DEF histVars
  <1>2. /\ done[e].sent = << >>
        /\ done[e].state = IF st = "applied" THEN 1 ELSE 0
        /\ done[e].temporal = IF te = "applied" THEN 1 ELSE 0
    BY <1>1 DEF StateAccounted, TemporalAccounted, NothingSentYet
  <1>3. st = "stale" => st # "applied" /\ te # "applied"
    BY <1>1 DEF TemporalAccounted, JobTyped
  <1>4. st # "applied" /\ te # "applied" => done[e] = Unsent
    BY <1>1, <1>2 DEF EffectRecord, Unsent
  <1>5. Record(t, st, te, ac, rs, TRUE)
    BY DEF Finish
  <1>6. report'[e] = [status |-> status, temporal |-> te, actions |-> rs, contained |-> TRUE]
    BY <1>1, <1>5 DEF Record, SafeInv, EInv, EffectsTyped
  <1>7. Honest(e)'
    <2>1. /\ status = "stale" => st = "stale"
          /\ status = "no_proposals" => st # "applied" /\ te # "applied"
          /\ status \in {"rejected", "failed"} => st # "applied" /\ te # "applied"
          /\ status = "applied" => {st, te, ac} \subseteq Successes
      BY AggregateTells
    <2> HIDE DEF status
    <2>2. Range(done[e].sent) = {}
      BY <1>2 DEF Range
    <2>3. te \in Successes => (te \in {"applied", "duplicate"} <=> te # "not_requested")
      BY DEF Successes
    <2> QED BY <1>1, <1>2, <1>3, <1>4, <1>6, <2>1, <2>2, <2>3 DEF Honest
  <1> QED BY <1>1, <1>7, SettleSafeInv

\* Nothing is touched before everything has been validated.
LEMMA PrepareSafeInv ==
  ASSUME CInv, SafeInv, NEW t \in Threads, PrepareTemporal(t)
  PROVE  CInv' /\ SafeInv'
  <1> DEFINE e == t[1]
             o == outcome[e]
             invalid == [i \in DOMAIN o.actions |-> Result("invalid", "none", FALSE)]
             rejected == Finish(t, Wanted(o.state > 0), Wanted(o.temporal), Wanted(o.actions # << >>),
                                invalid)
  <1>1. /\ lock = t /\ job.stage = "prepare" /\ UNCHANGED <<outcome, phase, histVars>>
        /\ \/ rejected
           \/ Finish(t, "stale", Wanted(o.temporal), "not_attempted", Unstarted(o))
           \/ /\ job' = [job EXCEPT !.stage = "state", !.results = Compiled(o)]
              /\ UNCHANGED <<coordVars, report, thread, lock>>
    BY DEF PrepareTemporal, adaptVars
  <1>2. /\ OutcomeShape(o)
        /\ JobTyped /\ StateAccounted /\ TemporalAccounted /\ NothingSentYet
    BY <1>1, HolderFacts
  <1>3. EffectsOf(e) /\ stray' = stray
    BY <1>1, HolderFacts DEF histVars
  <1>4. job.state = "not_requested" /\ job.temporal = "not_requested"
    BY <1>1, <1>2 DEF StateAccounted, TemporalAccounted, Early
  <1> HIDE DEF o, invalid
  <1>5. \A present \in BOOLEAN : Wanted(present) = IF present THEN "rejected" ELSE "not_requested"
    BY DEF Wanted
  <1>6. CASE rejected
    <2>1. o.actions = << >> => DOMAIN outcome[t[1]].actions = {}
      BY DEF o
    <2>2. /\ Wanted(o.state > 0) \in StateResults /\ Wanted(o.temporal) \in TemporalResults
          /\ Wanted(o.actions # << >>) \in ActionResults
          /\ Wanted(o.state > 0) \notin {"applied", "stale"} /\ Wanted(o.temporal) # "applied"
      BY DEF Wanted, StateResults, TemporalResults, ActionResults
    <2>3. {Wanted(o.state > 0), Wanted(o.temporal), Wanted(o.actions # << >>)}
            \subseteq Successes =>
            ~(outcome[t[1]].state > 0) /\ ~outcome[t[1]].temporal /\ DOMAIN outcome[t[1]].actions = {}
      BY <2>1 DEF Wanted, o, Successes
    <2>4. Wanted(o.temporal) \in Successes => Wanted(o.temporal) = "not_requested"
      BY DEF Wanted, Successes
    <2> QED BY <1>1, <1>4, <1>6, <2>2, <2>3, <2>4, EndsUnsent
  <1>7. CASE Finish(t, "stale", Wanted(o.temporal), "not_attempted", Unstarted(o))
    <2>1. /\ "stale" \in StateResults /\ Wanted(o.temporal) \in TemporalResults
          /\ "not_attempted" \in ActionResults /\ Wanted(o.temporal) # "applied"
          /\ "stale" \notin Successes
      BY DEF Wanted, StateResults, TemporalResults, ActionResults, Successes
    <2>2. job.stage \in Early /\ job.stage # "call"
      BY <1>1 DEF Early
    <2> QED BY <1>1, <1>4, <1>7, <2>1, <2>2, EndsUnsent
  <1>8. CASE /\ job' = [job EXCEPT !.stage = "state", !.results = Compiled(o)]
             /\ UNCHANGED <<coordVars, report, thread, lock>>
    <2>1. /\ job'.stage = "state" /\ job'.results = Compiled(o) /\ job'.state = job.state
          /\ job'.temporal = job.temporal /\ JobTyped'
      BY <1>1, <1>2, <1>8 DEF JobTyped, Stages
    <2>2. StateAccounted' /\ TemporalAccounted' /\ NothingSentYet' /\ CompiledBeforeCalls' /\ CallsAccounted'
      BY <1>1, <1>2, <1>4, <1>8, <2>1
         DEF o, StateAccounted, TemporalAccounted, NothingSentYet, CompiledBeforeCalls,
             CallsAccounted, Early, histVars, Compiled
    <2>3. SafeInv'
      BY <1>1, <1>3, <1>8, <2>1, <2>2, HeldSafeInv DEF JobInv
    <2>4. CInv'
      BY <1>1, <1>8, FrameCInv DEF CInv, CoordinatorTyped, HolderIsLive
    <2> QED BY <2>3, <2>4
  <1> QED BY <1>1, <1>6, <1>7, <1>8

\* The state proposals are applied once, all of them or none.
LEMMA ApplySafeInv ==
  ASSUME CInv, SafeInv, NEW t \in Threads, ApplyState(t)
  PROVE  CInv' /\ SafeInv'
  <1> DEFINE e == t[1]
             o == outcome[e]
             stale == Finish(t, "stale", Wanted(o.temporal), "not_attempted", Unstarted(o))
             refused(state) == Finish(t, state, Wanted(o.temporal), "not_attempted", Unstarted(o))
             goesOn(state) == /\ job' = [job EXCEPT !.stage = "temporal", !.state = state]
                              /\ UNCHANGED <<coordVars, report, thread, lock>>
  <1>1. /\ lock = t /\ job.stage = "state" /\ UNCHANGED <<outcome, phase, stray>>
        /\ t[1] \in Episodes /\ OutcomeShape(o) /\ done[e] \in EffectRecord
        /\ JobTyped /\ StateAccounted /\ TemporalAccounted /\ NothingSentYet /\ CompiledBeforeCalls
        /\ UNCHANGED <<began, done>> => EffectsOf(t[1])
    BY HolderFacts DEF ApplyState, adaptVars
  <1>2. job.state = "not_requested" /\ job.temporal = "not_requested"
    BY <1>1 DEF StateAccounted, TemporalAccounted, Early
  <1>3. done[e].state = 0 /\ done[e].temporal = 0 /\ done[e].sent = << >>
    BY <1>1, <1>2 DEF StateAccounted, TemporalAccounted, NothingSentYet
  <1>4. \/ stale /\ UNCHANGED <<began, done>>
        \/ (refused("rejected") \/ refused("failed")) /\ UNCHANGED <<began, done>>
        \/ o.state = 0 /\ goesOn("not_requested") /\ UNCHANGED <<began, done>>
        \/ /\ o.state > 0 /\ goesOn("applied")
           /\ began' = began \cup {e} /\ done' = [done EXCEPT ![e].state = @ + 1]
    <2>1. job.state = "not_requested" =>
            [job EXCEPT !.stage = "temporal"] = [job EXCEPT !.stage = "temporal", !.state = "not_requested"]
      BY <1>1 DEF JobTyped
    <2> QED BY <1>2, <2>1 DEF ApplyState
  <1>5. ASSUME UNCHANGED <<began, done>>, stale \/ refused("rejected") \/ refused("failed")
        PROVE  CInv' /\ SafeInv'
    <2> HIDE DEF o
    <2>1. /\ {"stale", "rejected", "failed"} \subseteq StateResults
          /\ Wanted(o.temporal) \in TemporalResults /\ Wanted(o.temporal) # "applied"
          /\ "not_attempted" \in ActionResults /\ "not_attempted" \notin Successes
          /\ job.stage \in Early /\ job.stage # "call"
      BY <1>1 DEF Wanted, StateResults, TemporalResults, ActionResults, Early, Successes
    <2>2. CASE stale
      BY <1>1, <1>2, <1>5, <2>1, <2>2, EndsUnsent DEF histVars
    <2>3. CASE refused("rejected")
      BY <1>1, <1>2, <1>5, <2>1, <2>3, EndsUnsent DEF histVars
    <2>4. CASE refused("failed")
      BY <1>1, <1>2, <1>5, <2>1, <2>4, EndsUnsent DEF histVars
    <2> QED BY <1>5, <2>2, <2>3, <2>4
  <1>6. ASSUME NEW state \in {"not_requested", "applied"}, goesOn(state),
               o.state > 0 <=> state = "applied", EffectsOf(e),
               done'[e].state = IF state = "applied" THEN 1 ELSE 0,
               done'[e].temporal = done[e].temporal, done'[e].sent = done[e].sent
        PROVE  CInv' /\ SafeInv'
    <2>1. /\ job'.stage = "temporal" /\ job'.results = job.results /\ job'.state = state
          /\ job'.temporal = "not_requested" /\ JobTyped'
      BY <1>1, <1>2, <1>6 DEF JobTyped, Stages
    <2>2. /\ done'[e].state = IF state = "applied" THEN 1 ELSE 0
          /\ done'[e].temporal = 0 /\ done'[e].sent = << >>
      BY <1>1, <1>3, <1>6 DEF EffectRecord
    <2>3. lock' = t
      BY <1>1, <1>6
    <2>4. StateAccounted' /\ TemporalAccounted' /\ NothingSentYet' /\ CompiledBeforeCalls' /\ CallsAccounted'
      BY <1>1, <1>6, <2>1, <2>2, <2>3
         DEF StateAccounted, TemporalAccounted, NothingSentYet, CompiledBeforeCalls,
             CallsAccounted, Early, Compiled
    <2>5. SafeInv'
      BY <1>1, <1>6, <2>1, <2>4, HeldSafeInv DEF JobInv
    <2>6. CInv'
      BY <1>1, <1>6, FrameCInv DEF CInv, CoordinatorTyped, HolderIsLive
    <2> QED BY <2>5, <2>6
  <1>7. CASE o.state = 0 /\ goesOn("not_requested") /\ UNCHANGED <<began, done>>
    <2>1. done'[e] = done[e] /\ ~(o.state > 0)
      BY <1>7
    <2> HIDE DEF goesOn
    <2> QED BY <1>1, <1>3, <1>6, <1>7, <2>1
  <1>8. CASE /\ o.state > 0 /\ goesOn("applied")
             /\ began' = began \cup {e} /\ done' = [done EXCEPT ![e].state = @ + 1]
    <2>1. done \in [Episodes -> EffectRecord]
      BY DEF SafeInv, EInv, EffectsTyped, EffectRecord
    <2>2. /\ done'[e].state = 1 /\ done'[e].temporal = done[e].temporal /\ done'[e].sent = done[e].sent
          /\ done'[e] \in EffectRecord /\ \A p \in Episodes \ {e} : done'[p] = done[p]
          /\ done' \in [Episodes -> EffectRecord]
      <3>1. e \in Episodes /\ done' = [done EXCEPT ![e].state = @ + 1] /\ done[e].state = 0
        BY <1>1, <1>3, <1>8
      <3> HIDE DEF e
      <3>2. /\ done' \in [Episodes -> EffectRecord] /\ \A p \in Episodes \ {e} : done'[p] = done[p]
            /\ done'[e].state = done[e].state + 1 /\ done'[e].temporal = done[e].temporal
            /\ done'[e].sent = done[e].sent
        BY <2>1, <3>1, StateRecorded
      <3>3. done'[e] \in EffectRecord
        BY <3>1, <3>2
      <3>4. done'[e].state = 1
        BY <3>1, <3>2
      <3> QED BY <3>2, <3>3, <3>4
    <2>3. EffectsOf(e)
      BY <1>1, <1>3, <1>8, <2>1, <2>2 DEF EffectsOf, IsInjective, EffectRecord
    <2> HIDE DEF goesOn
    <2> QED BY <1>6, <1>8, <2>2, <2>3
  <1> QED BY <1>4, <1>5, <1>7, <1>8

\* The wakes are committed once.
LEMMA CommitSafeInv ==
  ASSUME CInv, SafeInv, NEW t \in Threads, CommitTemporal(t)
  PROVE  CInv' /\ SafeInv'
  <1> DEFINE e == t[1]
             o == outcome[e]
             refused == Finish(t, job.state, "rejected", Blocked(o), Unstarted(o))
             goesOn(temporal) == /\ job' = [job EXCEPT !.stage = "guard", !.temporal = temporal]
                                 /\ UNCHANGED <<coordVars, report, thread, lock>>
  <1>1. /\ lock = t /\ job.stage = "temporal" /\ UNCHANGED <<outcome, phase, stray>>
        /\ t[1] \in Episodes /\ OutcomeShape(o) /\ done[e] \in EffectRecord
        /\ JobTyped /\ StateAccounted /\ TemporalAccounted /\ NothingSentYet /\ CompiledBeforeCalls
        /\ UNCHANGED <<began, done>> => EffectsOf(t[1])
    BY HolderFacts DEF CommitTemporal, adaptVars
  <1>2. job.temporal = "not_requested" /\ (job.state = "applied" <=> o.state > 0)
    BY <1>1 DEF StateAccounted, TemporalAccounted, Early
  <1>3. done[e].temporal = 0 /\ done[e].sent = << >> /\ job.state \in {"applied", "not_requested"}
    BY <1>1, <1>2 DEF TemporalAccounted, NothingSentYet, JobTyped
  <1>4. \/ refused /\ UNCHANGED <<began, done>>
        \/ ~o.temporal /\ goesOn("not_requested") /\ UNCHANGED <<began, done>>
        \/ o.temporal /\ goesOn("duplicate") /\ UNCHANGED <<began, done>>
        \/ /\ o.temporal /\ goesOn("applied")
           /\ began' = began \cup {e} /\ done' = [done EXCEPT ![e].temporal = @ + 1]
    <2>1. job.temporal = "not_requested" =>
            [job EXCEPT !.stage = "guard"] = [job EXCEPT !.stage = "guard", !.temporal = "not_requested"]
      BY <1>1 DEF JobTyped
    <2> QED BY <1>2, <2>1 DEF CommitTemporal
  <1>5. CASE refused /\ UNCHANGED <<began, done>>
    <2> HIDE DEF o
    <2>1. /\ job.state \in StateResults /\ job.state # "stale" /\ "rejected" \in TemporalResults
          /\ Blocked(o) \in ActionResults /\ job.stage # "call" /\ "rejected" \notin Successes
      BY <1>1, <1>3 DEF Blocked, StateResults, TemporalResults, ActionResults, Successes
    <2> QED BY <1>1, <1>2, <1>5, <2>1, EndsUnsent DEF histVars
  <1>6. ASSUME NEW temporal \in {"not_requested", "applied", "duplicate"}, goesOn(temporal),
               o.temporal <=> temporal # "not_requested", EffectsOf(e),
               done'[e].temporal = IF temporal = "applied" THEN 1 ELSE 0,
               done'[e].state = done[e].state, done'[e].sent = done[e].sent
        PROVE  CInv' /\ SafeInv'
    <2>1. /\ job'.stage = "guard" /\ job'.results = job.results /\ job'.state = job.state
          /\ job'.temporal = temporal /\ JobTyped'
      BY <1>1, <1>2, <1>6 DEF JobTyped, Stages
    <2>2. /\ done'[e].temporal = IF temporal = "applied" THEN 1 ELSE 0
          /\ done'[e].state = done[e].state /\ done'[e].sent = << >>
      BY <1>1, <1>3, <1>6 DEF EffectRecord
    <2>3. lock' = t
      BY <1>1, <1>6
    <2>4. StateAccounted' /\ TemporalAccounted' /\ NothingSentYet' /\ CompiledBeforeCalls' /\ CallsAccounted'
      BY <1>1, <1>2, <1>6, <2>1, <2>2, <2>3
         DEF StateAccounted, TemporalAccounted, NothingSentYet, CompiledBeforeCalls,
             CallsAccounted, Early, Compiled
    <2>5. SafeInv'
      BY <1>1, <1>6, <2>1, <2>4, HeldSafeInv DEF JobInv
    <2>6. CInv'
      BY <1>1, <1>6, FrameCInv DEF CInv, CoordinatorTyped, HolderIsLive
    <2> QED BY <2>5, <2>6
  <1>7. ASSUME UNCHANGED <<began, done>>,
               \/ ~o.temporal /\ goesOn("not_requested")
               \/ o.temporal /\ goesOn("duplicate")
        PROVE  CInv' /\ SafeInv'
    <2>1. done'[e] = done[e] /\ EffectsOf(e)
      BY <1>1, <1>7
    <2> HIDE DEF goesOn, o
    <2>2. CASE ~o.temporal /\ goesOn("not_requested")
      BY <1>3, <1>6, <2>1, <2>2
    <2>3. CASE o.temporal /\ goesOn("duplicate")
      BY <1>3, <1>6, <2>1, <2>3
    <2> QED BY <1>7, <2>2, <2>3
  <1>8. CASE /\ o.temporal /\ goesOn("applied")
             /\ began' = began \cup {e} /\ done' = [done EXCEPT ![e].temporal = @ + 1]
    <2>1. done \in [Episodes -> EffectRecord] /\ done[e].state <= 1
      BY <1>1 DEF SafeInv, EInv, EffectsTyped, EffectRecord, AtMostOnce
    <2>2. /\ done'[e].temporal = 1 /\ done'[e].state = done[e].state /\ done'[e].sent = done[e].sent
          /\ done'[e] \in EffectRecord /\ \A p \in Episodes \ {e} : done'[p] = done[p]
          /\ done' \in [Episodes -> EffectRecord]
      <3>1. e \in Episodes /\ done' = [done EXCEPT ![e].temporal = @ + 1] /\ done[e].temporal = 0
        BY <1>1, <1>3, <1>8
      <3> HIDE DEF e
      <3>2. /\ done' \in [Episodes -> EffectRecord] /\ \A p \in Episodes \ {e} : done'[p] = done[p]
            /\ done'[e].temporal = done[e].temporal + 1 /\ done'[e].state = done[e].state
            /\ done'[e].sent = done[e].sent
        BY <2>1, <3>1, WakesRecorded
      <3>3. done'[e] \in EffectRecord
        BY <3>1, <3>2
      <3>4. done'[e].temporal = 1
        BY <3>1, <3>2
      <3> QED BY <3>2, <3>3, <3>4
    <2>3. EffectsOf(e)
      BY <1>1, <1>3, <1>8, <2>1, <2>2, SMTT(30) DEF EffectsOf, IsInjective, EffectRecord
    <2> HIDE DEF goesOn
    <2> QED BY <1>6, <1>8, <2>2, <2>3
  <1> QED BY <1>4, <1>5, <1>7, <1>8

\* Whatever the guard denies, the batch it hands over accounts for every action;
\* if it ends here, no call was made.
LEMMA GuardSafeInv ==
  ASSUME CInv, SafeInv, NEW t \in Threads, Guard(t)
  PROVE  CInv' /\ SafeInv'
  <1> DEFINE e == t[1]
             o == outcome[e]
             Seen == [Speaks(o) -> Contexts \cup {None}]
             denied(i, x) == i \in Speaks(o) /\ ~MaySpeak(o, x[i])
             guarded(x) == [i \in DOMAIN o.actions |->
                              IF denied(i, x) THEN Result("denied", "none", FALSE) ELSE job.results[i]]
             calls(x) == {i \in DOMAIN o.actions : o.actions[i] \in Routed /\ ~denied(i, x)}
             goesOn(x) == /\ job' = [job EXCEPT !.stage = "call", !.results = guarded(x),
                                                !.calls = calls(x)]
                          /\ UNCHANGED <<coordVars, report, thread, lock>>
  <1>1. /\ lock = t /\ job.stage = "guard" /\ UNCHANGED <<outcome, phase, histVars>>
        /\ \/ o.actions = << >> /\ Finish(t, job.state, job.temporal, "not_requested", << >>)
           \/ \E x \in Seen :
                \/ /\ calls(x) = {}
                   /\ Finish(t, job.state, job.temporal, ActionStatus(guarded(x)), guarded(x))
                \/ Finish(t, job.state, job.temporal, "failed", Unstarted(o))
                \/ goesOn(x)
    BY ZenonT(60) DEF Guard, adaptVars
  <1>2. /\ OutcomeShape(o) /\ EffectsOf(e) /\ t[1] \in Episodes
        /\ JobTyped /\ StateAccounted /\ TemporalAccounted /\ NothingSentYet /\ CompiledBeforeCalls
    BY <1>1, HolderFacts, ZenonT(60) DEF histVars
  <1>3. /\ job.state \in {"applied", "not_requested"} /\ job.temporal \in Successes
        /\ job.state = "applied" <=> o.state > 0
        /\ job.temporal # "not_requested" <=> o.temporal
        /\ done[e].sent = << >> /\ job.results = Compiled(o)
    BY <1>1, <1>2, Zenon DEF JobTyped, StateAccounted, TemporalAccounted, NothingSentYet,
                      CompiledBeforeCalls, Early, Successes
  <1>4. ASSUME NEW x \in Seen
        PROVE  /\ guarded(x) \in [DOMAIN o.actions -> ResultSet]
               /\ \A i \in DOMAIN o.actions :
                    o.actions[i] \in Routed =>
                      ~(guarded(x)[i].attempted /\ guarded(x)[i].status = "ok")
    <2>1. \A i \in DOMAIN o.actions :
            job.results[i] = IF o.actions[i] \in Routed THEN NotAttempted ELSE Result("ok", "none", TRUE)
      BY <1>3 DEF Compiled
    <2>2. /\ NotAttempted \in ResultSet /\ Result("ok", "none", TRUE) \in ResultSet
          /\ Result("denied", "none", FALSE) \in ResultSet
          /\ ~NotAttempted.attempted /\ ~Result("denied", "none", FALSE).attempted
      BY DEF NotAttempted, Result, ResultSet
    <2> HIDE DEF o, denied
    <2>3. \A i \in DOMAIN o.actions :
            guarded(x)[i] = IF denied(i, x) THEN Result("denied", "none", FALSE) ELSE job.results[i]
      OBVIOUS
    <2>4. \A i \in DOMAIN o.actions :
            /\ guarded(x)[i] \in ResultSet
            /\ o.actions[i] \in Routed => ~guarded(x)[i].attempted
      BY <2>1, <2>2, <2>3
    <2> QED BY <2>4
  <1>5. job.state \in StateResults /\ job.temporal \in TemporalResults /\ job.state # "stale"
    BY <1>3 DEF StateResults, TemporalResults, Successes
  <1>6. CASE o.actions = << >> /\ Finish(t, job.state, job.temporal, "not_requested", << >>)
    <2>1. DOMAIN o.actions = {} /\ "not_requested" \in ActionResults
      BY <1>6, SMTT(30) DEF ActionResults
    <2> QED BY <1>1, <1>3, <1>5, <1>6, <2>1, EndsUnsent
  <1>7. ASSUME Finish(t, job.state, job.temporal, "failed", Unstarted(o)) PROVE CInv' /\ SafeInv'
    <2>1. "failed" \in ActionResults /\ "failed" \notin Successes /\ job.stage # "call"
          /\ job.stage \notin Early
      BY <1>1 DEF ActionResults, Successes, Early
    <2> HIDE DEF o
    <2> QED BY <1>1, <1>3, <1>5, <1>7, <2>1, EndsUnsent
  <1>8. ASSUME NEW x \in Seen,
               Finish(t, job.state, job.temporal, ActionStatus(guarded(x)), guarded(x))
        PROVE  CInv' /\ SafeInv'
    <2> DEFINE ac == ActionStatus(guarded(x))
    <2>1. guarded(x) \in [DOMAIN o.actions -> ResultSet]
      BY <1>4
    <2> HIDE DEF guarded, o
    <2>2. /\ ac \in {"applied", "partial", "failed", "rejected"}
          /\ ac = "applied" => \A i \in DOMAIN o.actions :
                                 guarded(x)[i].attempted /\ guarded(x)[i].status = "ok"
      BY <2>1, ActionStatusTells
    <2>3. ac = "applied" => \A i \in DOMAIN o.actions : o.actions[i] \notin Routed
      BY <1>4, <2>2
    <2>4. ac \in ActionResults /\ (ac \in Successes => ac = "applied")
      BY <2>2 DEF ActionResults, Successes
    <2> USE DEF o
    <2> QED BY <1>1, <1>3, <1>5, <1>8, <2>3, <2>4, EndsUnsent, Zenon
  <1>9. ASSUME NEW x \in Seen, goesOn(x) PROVE CInv' /\ SafeInv'
    <2> HIDE DEF guarded, denied
    <2>1. /\ job'.stage = "call" /\ job'.results = guarded(x) /\ job'.state = job.state
          /\ job'.calls = calls(x) /\ job'.temporal = job.temporal /\ JobTyped'
      BY <1>1, <1>2, <1>9, Zenon DEF JobTyped, Stages
    <2>2. /\ calls(x) \subseteq DOMAIN o.actions /\ \A i \in calls(x) : o.actions[i] \in Routed
          /\ Range(done[e].sent) = {}
      BY <1>3 DEF Range
    <2> HIDE DEF calls
    <2>3. CallsAccounted'
      <3>1. lock' = t /\ outcome' = outcome /\ done' = done
        BY <1>1, <1>9 DEF histVars
      <3>2. guarded(x) \in [DOMAIN o.actions -> ResultSet]
        BY <1>4
      <3>3. \A i \in DOMAIN o.actions :
              o.actions[i] \in Routed => ~(guarded(x)[i].attempted /\ guarded(x)[i].status = "ok")
        BY <1>4
      <3> QED BY <2>1, <2>2, <3>1, <3>2, <3>3 DEF CallsAccounted
    <2>4. StateAccounted' /\ TemporalAccounted' /\ NothingSentYet' /\ CompiledBeforeCalls'
      BY <1>1, <1>2, <1>9, <2>1
         DEF StateAccounted, TemporalAccounted, NothingSentYet, CompiledBeforeCalls, Early, histVars
    <2>5. SafeInv'
      BY <1>1, <1>2, <1>9, <2>1, <2>3, <2>4, HeldSafeInv DEF JobInv, histVars
    <2>6. CInv'
      BY <1>1, <1>9, FrameCInv DEF CInv, CoordinatorTyped, HolderIsLive
    <2> QED BY <2>5, <2>6, SMTT(30)
  <1> QED BY <1>1, <1>6, <1>7, <1>8, <1>9, ZenonT(60)

\* A call is made at most once, and its result says when the world may have seen it.
LEMMA CallSafeInv ==
  ASSUME CInv, SafeInv, NEW t \in Threads, MakeCall(t)
  PROVE  CInv' /\ SafeInv'
  <1> DEFINE e == t[1]
             acts == outcome[e].actions
  <1>1. /\ lock = t /\ job.stage = "call" /\ UNCHANGED <<outcome, phase, stray>>
    BY DEF MakeCall, adaptVars
  <1>2. PICK c \in CallOutcomes, i \in job.calls :
          /\ began' = began \cup {e}
          /\ done' = IF c[2] THEN [done EXCEPT ![e].sent = Append(@, i)] ELSE done
          /\ IF job.calls \ {i} # {}
             THEN /\ job' = [job EXCEPT !.results = [@ EXCEPT ![i] = c[1]], !.calls = @ \ {i}]
                  /\ UNCHANGED <<coordVars, report, thread, lock>>
             ELSE Finish(t, job.state, job.temporal, ActionStatus([job.results EXCEPT ![i] = c[1]]),
                         [job.results EXCEPT ![i] = c[1]])
    <2>1. \A i : [job EXCEPT !.results = [@ EXCEPT ![i[1]] = i[2]], !.calls = @ \ {i[1]}]
                 = [job EXCEPT !.results = [job.results EXCEPT ![i[1]] = i[2]],
                               !.calls = job.calls \ {i[1]}]
      OBVIOUS
    <2> QED BY <2>1 DEF MakeCall
  <1> DEFINE results == [job.results EXCEPT ![i] = c[1]]
             left == job.calls \ {i}
  <1>3. /\ e \in Episodes /\ outcome[e] \in CognitionOutcomes
        /\ done[e] \in EffectRecord /\ done \in [Episodes -> EffectRecord]
        /\ JobTyped /\ StateAccounted /\ TemporalAccounted /\ CallsAccounted
        /\ IsInjective(done[e].sent) /\ done[e].state <= 1 /\ done[e].temporal <= 1
    BY <1>1, HolderFacts DEF SafeInv, EInv, EffectsTyped, EffectRecord, SentOnce, AtMostOnce
  <1>4. /\ job.results \in [DOMAIN acts -> ResultSet] /\ i \in DOMAIN acts
        /\ \A j \in job.calls : j \notin Range(done[e].sent) /\ acts[j] \in Routed /\ j \in DOMAIN acts
        /\ \A j \in Range(done[e].sent) :
             /\ j \in DOMAIN acts /\ job.results[j].attempted /\ job.results[j].effect # "none"
             /\ job.results[j].status \in {"ok", "failed"}
        /\ \A j \in DOMAIN acts : acts[j] \in Routed /\ job.results[j].attempted
                                    /\ job.results[j].status = "ok" => j \in Range(done[e].sent)
    BY <1>1, <1>3 DEF CallsAccounted, JobTyped
  <1>5. i \in Indices /\ DOMAIN acts \subseteq Indices
    BY <1>3, <1>4 DEF Indices
  <1>6. /\ c[1] \in ResultSet /\ c[1].attempted /\ c[2] \in BOOLEAN
        /\ c[2] => c[1].effect # "none" /\ c[1].status \in {"ok", "failed"}
        /\ c[1].status = "ok" => c[2]
    <2>1. \/ c = <<Result("ok", "confirmed", TRUE), TRUE>>
          \/ c = <<Result("failed", "none", TRUE), FALSE>>
          \/ c = <<Result("denied", "none", TRUE), FALSE>>
          \/ c = <<Result("failed", "unknown", TRUE), TRUE>>
          \/ c = <<Result("failed", "unknown", TRUE), FALSE>>
      BY DEF CallOutcomes
    <2>2. ASSUME NEW status \in {"ok", "failed", "denied"},
                 NEW effect \in {"none", "confirmed", "unknown"},
                 c[1] = Result(status, effect, TRUE)
          PROVE  c[1] \in ResultSet /\ c[1].attempted /\ c[1].status = status /\ c[1].effect = effect
      BY <2>2 DEF ResultSet, Result
    <2>3. CASE c = <<Result("ok", "confirmed", TRUE), TRUE>>
      <3>1. c[1] = Result("ok", "confirmed", TRUE) /\ c[2]
        BY <2>3
      <3> QED BY <2>2, <2>3, <3>1
    <2>4. CASE c = <<Result("failed", "none", TRUE), FALSE>>
      <3>1. c[1] = Result("failed", "none", TRUE) /\ ~c[2]
        BY <2>4
      <3> QED BY <2>2, <2>4, <3>1
    <2>5. CASE c = <<Result("denied", "none", TRUE), FALSE>>
      <3>1. c[1] = Result("denied", "none", TRUE) /\ ~c[2]
        BY <2>5
      <3> QED BY <2>2, <2>5, <3>1
    <2>6. CASE c = <<Result("failed", "unknown", TRUE), TRUE>>
      <3>1. c[1] = Result("failed", "unknown", TRUE) /\ c[2]
        BY <2>6
      <3> QED BY <2>2, <2>6, <3>1
    <2>7. CASE c = <<Result("failed", "unknown", TRUE), FALSE>>
      <3>1. c[1] = Result("failed", "unknown", TRUE) /\ ~c[2]
        BY <2>7
      <3> QED BY <2>2, <2>7, <3>1
    <2> QED BY <2>1, <2>3, <2>4, <2>5, <2>6, <2>7
  <1> HIDE DEF e
  <1>7. /\ done' \in [Episodes -> EffectRecord] /\ \A p \in Episodes \ {e} : done'[p] = done[p]
        /\ done'[e].state = done[e].state /\ done'[e].temporal = done[e].temporal
        /\ done'[e].sent = IF c[2] THEN Append(done[e].sent, i) ELSE done[e].sent
    <2>1. CASE c[2]
      <3>1. done' = [done EXCEPT ![e].sent = Append(@, i)]
        BY <1>2, <2>1
      <3>2. /\ done' \in [Episodes -> EffectRecord] /\ done'[e].sent = Append(done[e].sent, i)
            /\ done'[e].state = done[e].state /\ done'[e].temporal = done[e].temporal
            /\ \A p \in Episodes \ {e} : done'[p] = done[p]
        BY <1>3, <1>5, <3>1, CallRecorded
      <3> QED BY <2>1, <3>2
    <2>2. CASE ~c[2]
      BY <1>2, <1>3, <2>2
    <2> QED BY <2>1, <2>2
  <1>8. /\ Range(done'[e].sent) = IF c[2] THEN Range(done[e].sent) \cup {i} ELSE Range(done[e].sent)
        /\ IsInjective(done'[e].sent)
    <2>1. done[e].sent \in Seq(Indices) /\ i \notin Range(done[e].sent)
      BY <1>3, <1>4 DEF EffectRecord
    <2>2. /\ Range(Append(done[e].sent, i)) = Range(done[e].sent) \cup {i}
          /\ IsInjective(Append(done[e].sent, i))
      BY <1>3, <1>5, <2>1, RangeOfAppend, AppendStaysInjective
    <2> QED BY <1>3, <1>7, <2>2
  <1>9. EffectsOf(e)
    BY <1>2, <1>3, <1>7, <1>8 DEF e, EffectsOf
  <1>10. results \in [DOMAIN acts -> ResultSet] /\ results[i] = c[1]
         /\ \A j \in DOMAIN acts \ {i} : results[j] = job.results[j]
    BY <1>4, <1>6
  <1> HIDE DEF results, acts
  <1>11. /\ \A j \in left : j \notin Range(done'[e].sent) /\ acts[j] \in Routed
         /\ \A j \in Range(done'[e].sent) :
              /\ j \in DOMAIN acts /\ results[j].attempted /\ results[j].effect # "none"
              /\ results[j].status \in {"ok", "failed"}
         /\ \A j \in DOMAIN acts : acts[j] \in Routed /\ results[j].attempted
                                     /\ results[j].status = "ok" => j \in Range(done'[e].sent)
    BY <1>4, <1>6, <1>8, <1>10
  <1>12. CASE left # {}
    <2>1. /\ job' = [job EXCEPT !.results = results, !.calls = left]
          /\ UNCHANGED <<coordVars, report, thread, lock>>
      BY <1>2, <1>12 DEF results
    <2> HIDE DEF left
    <2>2. /\ job'.stage = "call" /\ job'.results = results /\ job'.calls = left
          /\ job'.state = job.state /\ job'.temporal = job.temporal
      BY <1>1, <1>3, <2>1 DEF JobTyped
    <2>3. JobTyped'
      <3>1. left \subseteq DOMAIN acts
        BY <1>4 DEF left
      <3> QED BY <1>1, <1>3, <2>1, <2>2, <3>1 DEF JobTyped, Stages, acts, e
    <2>4. StateAccounted' /\ TemporalAccounted'
      BY <1>1, <1>3, <1>7, <2>1, <2>2 DEF StateAccounted, TemporalAccounted, Early, e
    <2>5. NothingSentYet' /\ CompiledBeforeCalls'
      BY <2>2 DEF NothingSentYet, CompiledBeforeCalls
    <2>6. CallsAccounted'
      BY <1>1, <1>10, <1>11, <2>1, <2>2 DEF CallsAccounted, acts, e
    <2>7. SafeInv'
      BY <1>1, <1>9, <2>1, <2>3, <2>4, <2>5, <2>6, HeldSafeInv DEF JobInv, e
    <2>8. CInv'
      BY <1>1, <2>1, FrameCInv DEF CInv, CoordinatorTyped, HolderIsLive
    <2> QED BY <2>7, <2>8
  <1>13. CASE left = {}
    <2> DEFINE ac == ActionStatus(results)
               status == Aggregate(job.state, job.temporal, ac)
    <2>1. Finish(t, job.state, job.temporal, ac, results)
      BY <1>2, <1>13 DEF results
    <2>2. /\ ac \in {"applied", "partial", "failed", "rejected"}
          /\ ac = "applied" => \A j \in DOMAIN acts : results[j].attempted /\ results[j].status = "ok"
      BY <1>10, ActionStatusTells
    <2>3. /\ job.state \in {"applied", "not_requested"} /\ job.temporal \in Successes
          /\ job.state = "applied" <=> outcome[e].state > 0
          /\ job.temporal \in {"applied", "duplicate"} <=> outcome[e].temporal
          /\ done'[e].state = IF job.state = "applied" THEN 1 ELSE 0
          /\ done'[e].temporal = IF job.temporal = "applied" THEN 1 ELSE 0
      BY <1>1, <1>3, <1>7 DEF JobTyped, StateAccounted, TemporalAccounted, Early, e, Successes
    <2> HIDE DEF ac
    <2>4. /\ job.state \in StateResults /\ job.temporal \in TemporalResults /\ ac \in ActionResults
          /\ ac # "not_requested" /\ job.state # "stale"
      BY <2>2, <2>3 DEF StateResults, TemporalResults, ActionResults, Successes
    <2>5. /\ status \notin {"stale", "no_proposals"}
          /\ status \in {"rejected", "failed"} => job.state # "applied" /\ job.temporal # "applied"
          /\ status = "applied" => ac = "applied"
      BY <2>2, <2>4, AggregateTells DEF Successes
    <2>6. report'[e] = [status |-> status, temporal |-> job.temporal, actions |-> results, contained |-> TRUE]
      BY <1>3, <2>1 DEF e, Finish, Record, SafeInv, EInv, EffectsTyped
    <2> HIDE DEF status
    <2>7. Honest(e)'
      <3>1. status = "applied" => \A j \in DOMAIN acts : acts[j] \in Routed => j \in Range(done'[e].sent)
        BY <1>11, <2>2, <2>5
      <3> QED BY <1>1, <1>11, <2>3, <2>5, <2>6, <3>1 DEF Honest, acts
    <2> QED BY <1>1, <1>9, <2>1, <2>4, <2>7, SettleSafeInv DEF e
  <1> QED BY <1>12, <1>13

\* An application that gives up on its executor reports a failure and remembers
\* that the executor may still send.
LEMMA UncontainedSafeInv ==
  ASSUME CInv, SafeInv, NEW t \in Threads, Uncontained(t)
  PROVE  CInv' /\ SafeInv'
  <1> DEFINE e == t[1]
             acts == outcome[e].actions
             calls == {i \in DOMAIN job.results : job.results[i].attempted /\ acts[i] \in Routed}
                        \cup job.calls
             given(first) == [i \in DOMAIN job.results |->
                                IF i = first THEN Result("failed", "unknown", TRUE)
                                ELSE IF i \in calls THEN NotAttempted ELSE job.results[i]]
  <1>1. /\ lock = t /\ job.stage = "call" /\ UNCHANGED <<outcome, phase, done>>
    BY DEF Uncontained, adaptVars
  <1>2. PICK first \in calls, hung \in job.calls :
          /\ stray' = stray \cup {<<e, hung>>} /\ began' = began \cup {e}
          /\ Record(t, job.state, job.temporal, ActionStatus(given(first)), given(first), FALSE)
    BY DEF Uncontained
  <1>3. /\ e \in Episodes /\ outcome[e] \in CognitionOutcomes /\ done \in [Episodes -> EffectRecord]
        /\ JobTyped /\ StateAccounted /\ TemporalAccounted /\ CallsAccounted
        /\ IsInjective(done[e].sent) /\ done[e].state <= 1 /\ done[e].temporal <= 1
    BY <1>1, HolderFacts DEF SafeInv, EInv, EffectsTyped, EffectRecord, SentOnce, AtMostOnce
  <1>4. /\ job.results \in [DOMAIN acts -> ResultSet] /\ hung \in DOMAIN acts
        /\ calls \subseteq DOMAIN acts /\ hung \notin Range(done[e].sent)
    BY <1>1, <1>3 DEF CallsAccounted, JobTyped
  <1>5. hung \in Indices
    BY <1>3, <1>4 DEF Indices
  <1>6. EffectsOf(e)
    BY <1>1, <1>2, <1>3 DEF EffectsOf
  <1> DEFINE results == given(first)
  <1>7. results \in [DOMAIN acts -> ResultSet] /\ results[first].status = "failed"
    <2>1. /\ NotAttempted \in ResultSet /\ Result("failed", "unknown", TRUE) \in ResultSet
          /\ Result("failed", "unknown", TRUE).status = "failed"
      BY DEF NotAttempted, Result, ResultSet
    <2>2. DOMAIN job.results = DOMAIN acts /\ \A i \in DOMAIN acts : job.results[i] \in ResultSet
      BY <1>4
    <2> HIDE DEF acts, calls
    <2> QED BY <1>4, <2>1, <2>2
  <1> HIDE DEF given, calls, acts
  <1> DEFINE ac == ActionStatus(results)
             status == Aggregate(job.state, job.temporal, ac)
  <1>8. ac \in {"failed", "partial"}
    <2> HIDE DEF results
    <2> QED BY <1>4, <1>7, ActionStatusTells
  <1>9. /\ job.state \in {"applied", "not_requested"} /\ job.temporal \in Successes
        /\ done'[e].state = IF job.state = "applied" THEN 1 ELSE 0
        /\ done'[e].temporal = IF job.temporal = "applied" THEN 1 ELSE 0
    BY <1>1, <1>3 DEF JobTyped, StateAccounted, TemporalAccounted, Successes
  <1> HIDE DEF ac
  <1>10. job.state \in StateResults /\ job.temporal \in TemporalResults /\ ac \in ActionResults
    BY <1>8, <1>9 DEF StateResults, TemporalResults, ActionResults, Successes
  <1>11. /\ status \in {"failed", "partial"}
         /\ status = "failed" => job.state # "applied" /\ job.temporal # "applied"
    BY <1>8, <1>9, <1>10, AggregateTells DEF Successes
  <1>12. Record(t, job.state, job.temporal, ac, results, FALSE)
    BY <1>2 DEF ac
  <1> HIDE DEF results
  <1>13. report'[e] = [status |-> status, temporal |-> job.temporal, actions |-> results, contained |-> FALSE]
    BY <1>3, <1>12 DEF Record, SafeInv, EInv, EffectsTyped
  <1> HIDE DEF status
  <1>14. Honest(e)'
    BY <1>9, <1>11, <1>13 DEF Honest
  <1>15. /\ {hung} \in SUBSET {i \in Indices : i \notin Range(done'[t[1]].sent)}
         /\ stray' = stray \cup {<<t[1], i>> : i \in {hung}}
         /\ t[1] \in began'
    BY <1>1, <1>2, <1>4, <1>5
  <1> QED BY <1>1, <1>6, <1>10, <1>12, <1>14, <1>15, RecordSafeInv

\* The executor that was left behind sends at most once, as its report foresaw.
LEMMA StraySafeInv ==
  ASSUME CInv, SafeInv, NEW s \in stray, StrayEnds(s)
  PROVE  CInv' /\ SafeInv'
  <1> DEFINE e == s[1]
             i == s[2]
  <1>1. /\ UNCHANGED <<ledger, permit, fence, lock, job, report, thread, outcome, phase, began>>
        /\ stray' = stray \ {s}
        /\ done' = [done EXCEPT ![e].sent = Append(@, i)] \/ done' = done
    BY DEF StrayEnds, coordVars, lockVars, adaptVars
  <1>2. /\ e \in Episodes /\ i \in Indices /\ s = <<e, i>> /\ e \in began /\ Over(e)
        /\ i \notin Range(done[e].sent) /\ ~report[e].contained
        /\ done \in [Episodes -> EffectRecord] /\ done[e] \in EffectRecord
        /\ IsInjective(done[e].sent) /\ stray \subseteq Episodes \X Indices
    BY DEF SafeInv, EInv, EffectsTyped, StraysAreOver, SentOnce, EffectRecord
  <1>3. CInv'
    BY <1>1, FrameCInv DEF CInv, CoordinatorTyped, HolderIsLive, coordVars
  <1>4. \A p \in Episodes : Over(p)' <=> Over(p)
    BY <1>1 DEF Over, Live
  <1>5. lock # None => lock[1] # e
    BY <1>2 DEF CInv, HolderIsLive, Over
  <1> HIDE DEF e, i
  <1>6. /\ done' \in [Episodes -> EffectRecord] /\ \A p \in Episodes \ {e} : done'[p] = done[p]
        /\ done'[e].state = done[e].state /\ done'[e].temporal = done[e].temporal
        /\ IsInjective(done'[e].sent)
        /\ \A j : j \in Range(done'[e].sent) => j \in Range(done[e].sent) \/ j = i
        /\ \A j : j \in Range(done[e].sent) => j \in Range(done'[e].sent)
    <2>1. CASE done' = [done EXCEPT ![e].sent = Append(@, i)]
      <3>1. /\ done' \in [Episodes -> EffectRecord] /\ done'[e].sent = Append(done[e].sent, i)
            /\ done'[e].state = done[e].state /\ done'[e].temporal = done[e].temporal
            /\ \A p \in Episodes \ {e} : done'[p] = done[p]
        BY <1>2, <2>1, CallRecorded
      <3>2. done[e].sent \in Seq(Indices)
        BY <1>2 DEF EffectRecord
      <3>3. /\ Range(Append(done[e].sent, i)) = Range(done[e].sent) \cup {i}
            /\ IsInjective(Append(done[e].sent, i))
        BY <1>2, <3>2, RangeOfAppend, AppendStaysInjective
      <3> QED BY <3>1, <3>3
    <2>2. CASE done' = done
      BY <1>2, <2>2
    <2> QED BY <1>1, <2>1, <2>2
  <1>7. EffectsTyped' /\ BegunIsFenced' /\ ReportedIsOver' /\ UnbegunIsClean' /\ SentOnce'
    BY <1>1, <1>2, <1>4, <1>6
       DEF SafeInv, EInv, EffectsTyped, EffectRecord, BegunIsFenced, ReportedIsOver, UnbegunIsClean,
           SentOnce
  <1>8. StraysAreOver'
    <2> SUFFICES ASSUME NEW p \in stray'
                 PROVE  /\ p[1] \in began' /\ Over(p[1])' /\ p[2] \notin Range(done'[p[1]].sent)
                        /\ ~report'[p[1]].contained
      BY DEF StraysAreOver
    <2>1. p \in stray /\ p # s /\ p = <<p[1], p[2]>> /\ p[1] \in Episodes
      BY <1>1, <1>2
    <2>2. p[1] \in began /\ Over(p[1]) /\ p[2] \notin Range(done[p[1]].sent) /\ ~report[p[1]].contained
      BY <2>1 DEF SafeInv, EInv, StraysAreOver
    <2>3. p[1] = e => p[2] # i
      BY <1>2, <2>1
    <2> QED BY <1>1, <1>4, <1>6, <2>1, <2>2, <2>3
  <1>9. JobInv'
    <2>1. lock # None => lock[1] \in Episodes /\ done'[lock[1]] = done[lock[1]]
      BY <1>5, <1>6 DEF CInv, CoordinatorTyped, Threads
    <2> QED BY <1>1, <2>1 DEF SafeInv, EInv, JobInv, JobTyped, StateAccounted, TemporalAccounted,
              NothingSentYet, CompiledBeforeCalls, CallsAccounted
  <1>10. AtMostOnce'
    BY <1>6 DEF SafeInv, AtMostOnce
  <1>11. ReportIsHonest'
    <2> SUFFICES ASSUME NEW p \in Episodes PROVE Honest(p)'
      BY DEF ReportIsHonest, Honest
    <2>1. CASE p # e
      BY <1>1, <1>6, <2>1 DEF SafeInv, ReportIsHonest, Honest
    <2>2. CASE p = e
      <3>1. /\ Honest(e) /\ report' = report /\ outcome' = outcome
        BY <1>1, <1>2 DEF SafeInv, ReportIsHonest, Honest
      <3>2. CASE report[e] = None
        BY <2>2, <3>1, <3>2 DEF Honest
      <3>3. CASE report[e] # None
        <4>1. report[e].status \in {"failed", "partial"}
          BY <1>2, <3>1, <3>3 DEF Honest
        <4> QED BY <1>2, <1>6, <2>2, <3>1, <4>1 DEF Honest
      <3> QED BY <3>2, <3>3
    <2> QED BY <2>1, <2>2
  <1> QED BY <1>3, <1>7, <1>8, <1>9, <1>10, <1>11 DEF SafeInv, EInv
-----------------------------------------------------------------------------
(* The adapter, the lock and the invariant. *)

\* An application thread of the adapter is started by the step past "thought".
AdapterStartsOnce ==
  \A e \in Episodes : phase[e] \in Unpermitted \cup {"thought"} => thread[<<e, "adapter">>] = "none"

ApplicationInv == CInv /\ SafeInv /\ AdapterStartsOnce

\* The lock is taken by a thread whose outcome has left no trace yet.
LEMMA AcquireInv ==
  ASSUME ApplicationInv, NEW t \in Threads, Acquire(t)
  PROVE  ApplicationInv'
  <1> DEFINE e == t[1]
             refused == IF ~Live(e) THEN "rejected"
                        ELSE IF fence[e] # None THEN "duplicate"
                        ELSE IF WindowFull THEN "rejected" ELSE None
             fresh == [stage |-> "prepare", state |-> "not_requested", temporal |-> "not_requested",
                       results |-> << >>, calls |-> {}]
  <1>1. /\ thread[t] = "ready" /\ lock = None /\ t \in Threads /\ t # None /\ e \in Episodes
        /\ UNCHANGED <<ledger, permit, fence, report, outcome, phase, stray, began, done>>
        /\ IF refused # None THEN thread' = [thread EXCEPT ![t] = refused] /\ UNCHANGED <<lock, job>>
           ELSE lock' = t /\ thread' = [thread EXCEPT ![t] = "held"] /\ job' = fresh
    BY NoneAssumption DEF Acquire, coordVars, adaptVars, histVars, Threads
  <1>2. /\ permit[e] # None
        /\ refused = None => Live(e) /\ fence[e] = None
        /\ refused # None => refused \in {"rejected", "duplicate"}
    BY <1>1, NoneAssumption DEF ApplicationInv, CInv, ThreadsBound, Statuses
  <1> HIDE DEF refused
  <1>3. AdapterStartsOnce'
    <2>1. \A p \in Episodes : thread[<<p, "adapter">>] = "none" => thread'[<<p, "adapter">>] = "none"
      BY <1>1 DEF ApplicationInv, CInv, CoordinatorTyped, Threads, Callers
    <2> QED BY <1>1, <2>1 DEF ApplicationInv, AdapterStartsOnce
  <1>4. CASE refused # None
    <2>1. SafeInv'
      BY <1>1, <1>4, FrameSafeInv DEF ApplicationInv, coordVars, lockVars, histVars
    <2>2. CInv'
      BY <1>1, <1>2, <1>4, FrameCInv
         DEF ApplicationInv, CInv, CoordinatorTyped, ThreadsBound, Statuses, coordVars
    <2> QED BY <1>3, <2>1, <2>2 DEF ApplicationInv
  <1>5. CASE refused = None
    <2>1. lock' = t /\ thread' = [thread EXCEPT ![t] = "held"] /\ job' = fresh
      BY <1>1, <1>5
    <2>2. permit[e] # None /\ Live(e) /\ fence[e] = None
      BY <1>2, <1>5
    <2>3. CInv'
      <3>1. CoordinatorTyped' /\ PermitsIssued' /\ WindowIsLive' /\ ThinkingUnbound' /\ PastThinkingBound'
        BY <1>1, <2>1 DEF ApplicationInv, CInv, CoordinatorTyped, PermitsIssued, WindowIsLive, Live,
                          ThinkingUnbound, PastThinkingBound
      <3>2. ThreadsBound' /\ HolderIsLive'
        BY <1>1, <2>1, <2>2 DEF ApplicationInv, CInv, CoordinatorTyped, ThreadsBound, HolderIsLive, Live
      <3> QED BY <3>1, <3>2 DEF CInv
    <2>4. done[e] = Unsent
      BY <1>1, <2>2 DEF ApplicationInv, SafeInv, EInv, BegunIsFenced, UnbegunIsClean, Over
    <2>5. \A p \in Episodes : Over(p)' <=> Over(p)
      BY <1>1 DEF Over, Live
    <2>6. EffectsTyped' /\ BegunIsFenced' /\ ReportedIsOver' /\ UnbegunIsClean' /\ StraysAreOver' /\ SentOnce'
      BY <1>1, <2>5 DEF ApplicationInv, SafeInv, EInv, EffectsTyped, BegunIsFenced, ReportedIsOver,
                        UnbegunIsClean, StraysAreOver, SentOnce
    <2>7. JobInv'
      BY <1>1, <2>1, <2>4 DEF JobInv, JobTyped, StateAccounted, TemporalAccounted, NothingSentYet,
                              CompiledBeforeCalls, CallsAccounted, Stages, Early, Unsent
    <2>8. ReportIsHonest' /\ AtMostOnce'
      BY <1>1 DEF ApplicationInv, SafeInv, ReportIsHonest, AtMostOnce
    <2> QED BY <1>3, <2>3, <2>6, <2>7, <2>8 DEF ApplicationInv, SafeInv, EInv
  <1> QED BY <1>4, <1>5

\* A new outcome has left no trace, and forgetting the settled ones kills their permits.
LEMMA BindInv ==
  ASSUME ApplicationInv, NEW e \in Episodes, EngineAnswers(e)
  PROVE  ApplicationInv'
  <1>1. /\ lock = None /\ UNCHANGED <<lock, job, report, thread, stray, began, done>>
        /\ phase' = [phase EXCEPT ![e] = "thought"] /\ phase[e] = "thinking"
        /\ \E o \in CognitionOutcomes : outcome' = [outcome EXCEPT ![e] = o]
    BY DEF EngineAnswers, lockVars, histVars
  <1>2. /\ CInv' /\ permit[e] = None /\ \A p \in Episodes \ {e} : permit'[p] = permit[p]
        /\ \A p \in Episodes : Over(p) => Over(p)'
    BY BindCInv DEF ApplicationInv
  <1>3. e \notin began /\ report[e] = None
    BY <1>1, <1>2 DEF ApplicationInv, SafeInv, EInv, BegunIsFenced, ReportedIsOver, Over
  <1>4. /\ outcome' = [p \in Episodes |-> outcome'[p]] /\ outcome'[e] \in CognitionOutcomes
        /\ \A p \in Episodes \ {e} : outcome'[p] = outcome[p]
    BY <1>1 DEF ApplicationInv, SafeInv, EInv, EffectsTyped
  <1>5. EffectsTyped'
    BY <1>1, <1>2, <1>4 DEF ApplicationInv, SafeInv, EInv, EffectsTyped
  <1>6. BegunIsFenced' /\ ReportedIsOver' /\ UnbegunIsClean' /\ StraysAreOver' /\ SentOnce' /\ JobInv'
    BY <1>1, <1>2, <1>5 DEF ApplicationInv, SafeInv, EInv, EffectsTyped, BegunIsFenced, ReportedIsOver,
                      UnbegunIsClean, StraysAreOver, SentOnce, JobInv
  <1>7. ReportIsHonest' /\ AtMostOnce'
    BY <1>1, <1>3, <1>4 DEF ApplicationInv, SafeInv, ReportIsHonest, AtMostOnce
  <1>8. AdapterStartsOnce'
    BY <1>1 DEF ApplicationInv, CInv, CoordinatorTyped, AdapterStartsOnce, Unpermitted
  <1> QED BY <1>2, <1>5, <1>6, <1>7, <1>8 DEF ApplicationInv, SafeInv, EInv

\* The adapter's own steps, the presences that write the MindState and whoever submits
\* an outcome again leave the coordinator alone.
LEMMA AdapterInv ==
  ASSUME ApplicationInv, NEW e \in Episodes,
         \/ ExecuteStarts(e) \/ RunnerStarts(e) \/ RunnerFails(e) \/ CancelledWhileThinking(e)
         \/ ApplicationStarts(e) \/ ApplicationSeen(e) \/ CancelledWhileApplying(e) \/ JoinSeen(e)
         \/ LooseEnds(e) \/ RequestCancel(e) \/ CancelTask(e)
  PROVE  ApplicationInv'
  <1>1. UNCHANGED <<coordVars, lockVars, outcome, histVars>>
    BY DEF ExecuteStarts, RunnerStarts, RunnerFails, CancelledWhileThinking, ApplicationStarts,
           ApplicationSeen, CancelledWhileApplying, JoinSeen, LooseEnds, RequestCancel, CancelTask
  <1>2. \E f \in Unpermitted \cup {"thought", "applying", "joining", "returned"} :
          /\ phase' = [phase EXCEPT ![e] = f]
          /\ f \in Unpermitted \cup {"thought"} => phase[e] \in Unpermitted \cup {"thought"}
          /\ f \in Unpermitted => phase[e] \in Unpermitted
          /\ f \in {"thought", "applying", "joining"} => phase[e] \in {"thought", "applying", "joining"}
          /\ \/ UNCHANGED thread
             \/ /\ phase[e] = "thought" /\ f = "applying"
                /\ thread' = [thread EXCEPT ![<<e, "adapter">>] = "ready"]
    <2>1. phase = [phase EXCEPT ![e] = phase[e]]
      BY DEF ApplicationInv, CInv, CoordinatorTyped
    <2>2. CASE ExecuteStarts(e) \/ RunnerStarts(e)
      BY <2>2 DEF ExecuteStarts, RunnerStarts, Return, Unpermitted
    <2>3. CASE RunnerFails(e) \/ CancelledWhileThinking(e) \/ ApplicationSeen(e) \/ JoinSeen(e)
      BY <2>3 DEF RunnerFails, CancelledWhileThinking, ApplicationSeen, JoinSeen, Return, Unpermitted
    <2>4. CASE ApplicationStarts(e) \/ CancelledWhileApplying(e)
      BY <2>4 DEF ApplicationStarts, CancelledWhileApplying, Return, Unpermitted
    <2>5. CASE LooseEnds(e) \/ RequestCancel(e)
      <3>1. phase' = phase /\ thread' = thread
        BY <2>5 DEF LooseEnds, RequestCancel
      <3> QED BY <2>1, <3>1 DEF ApplicationInv, CInv, CoordinatorTyped
    <2>6. CASE CancelTask(e)
      BY <2>6 DEF CancelTask, Return, Unpermitted
    <2> QED BY <2>2, <2>3, <2>4, <2>5, <2>6
  <1>3. SafeInv'
    BY <1>1, FrameSafeInv DEF ApplicationInv
  <1>4. /\ phase' \in [Episodes -> Unpermitted \cup {"thought", "applying", "joining", "returned"}]
        /\ \A p \in Episodes : phase'[p] \in Unpermitted => phase[p] \in Unpermitted
        /\ \A p \in Episodes : phase'[p] \in {"thought", "applying", "joining"}
                                 => phase[p] \in {"thought", "applying", "joining"}
        /\ \A p \in Episodes : phase'[p] \in Unpermitted \cup {"thought"}
                                 => phase[p] \in Unpermitted \cup {"thought"}
    BY <1>2 DEF ApplicationInv, CInv, CoordinatorTyped
  <1>5. lock # None => thread[lock] = "held"
    BY DEF ApplicationInv, CInv, HolderIsLive
  <1>6. CASE UNCHANGED thread
    <2>1. CInv'
      BY <1>1, <1>4, <1>5, <1>6, FrameCInv
         DEF ApplicationInv, CInv, CoordinatorTyped, lockVars
    <2>2. AdapterStartsOnce'
      BY <1>4, <1>6 DEF ApplicationInv, AdapterStartsOnce
    <2> QED BY <1>3, <2>1, <2>2 DEF ApplicationInv
  <1>7. CASE /\ phase[e] = "thought" /\ phase' = [phase EXCEPT ![e] = "applying"]
             /\ thread' = [thread EXCEPT ![<<e, "adapter">>] = "ready"]
    <2>1. <<e, "adapter">> \in Threads /\ thread[<<e, "adapter">>] = "none" /\ permit[e] # None
      BY <1>7 DEF ApplicationInv, CInv, PastThinkingBound, AdapterStartsOnce, Threads, Callers
    <2>2. /\ thread' \in [Threads -> {"none", "ready", "held"} \cup Statuses]
          /\ lock # None => thread'[lock] = "held"
          /\ \A t \in Threads : thread'[t] # "none" => thread[t] # "none" \/ permit[t[1]] # None
      BY <1>5, <1>7, <2>1 DEF ApplicationInv, CInv, CoordinatorTyped
    <2>3. CInv'
      BY <1>1, <1>4, <2>2, FrameCInv DEF ApplicationInv, lockVars
    <2>4. AdapterStartsOnce'
      <3>1. \A p \in Episodes \ {e} : thread'[<<p, "adapter">>] = thread[<<p, "adapter">>]
        BY <1>7 DEF ApplicationInv, CInv, CoordinatorTyped, Threads, Callers
      <3>2. phase'[e] \notin Unpermitted \cup {"thought"}
        BY <1>7 DEF ApplicationInv, CInv, CoordinatorTyped, Unpermitted
      <3> QED BY <1>4, <3>1, <3>2 DEF ApplicationInv, AdapterStartsOnce
    <2> QED BY <1>3, <2>3, <2>4 DEF ApplicationInv
  <1> QED BY <1>2, <1>6, <1>7

\* Presences that write the MindState, and whoever submits an outcome again.
LEMMA BystanderInv ==
  ASSUME ApplicationInv,
         \/ CreateIntention \/ MarkExpressed \/ UNCHANGED appVars
         \/ \E e \in Episodes, c \in Replayers : Resubmit(e, c)
  PROVE  ApplicationInv'
  <1>1. UNCHANGED <<coordVars, lockVars, outcome, histVars, phase>>
    BY DEF CreateIntention, MarkExpressed, Resubmit, appVars, adaptVars
  <1>2. SafeInv'
    BY <1>1, FrameSafeInv DEF ApplicationInv
  <1>3. lock # None => thread[lock] = "held"
    BY DEF ApplicationInv, CInv, HolderIsLive
  <1>4. CASE UNCHANGED thread
    <2>1. CInv'
      BY <1>1, <1>3, <1>4, FrameCInv DEF ApplicationInv, CInv, CoordinatorTyped, lockVars
    <2>2. AdapterStartsOnce'
      BY <1>1, <1>4 DEF ApplicationInv, AdapterStartsOnce
    <2> QED BY <1>2, <2>1, <2>2 DEF ApplicationInv
  <1>5. ASSUME NEW e \in Episodes, NEW c \in Replayers, Resubmit(e, c) PROVE ApplicationInv'
    <2>1. /\ <<e, c>> \in Threads /\ <<e, "adapter">> \in Threads /\ thread[<<e, c>>] = "none"
          /\ thread[<<e, "adapter">>] # "none" /\ thread' = [thread EXCEPT ![<<e, c>>] = "ready"]
      BY <1>5 DEF Resubmit, Threads, Callers
    <2>2. permit[e] # None
      BY <2>1 DEF ApplicationInv, CInv, ThreadsBound
    <2>3. /\ thread' \in [Threads -> {"none", "ready", "held"} \cup Statuses]
          /\ lock # None => thread'[lock] = "held"
          /\ \A t \in Threads : thread'[t] # "none" => thread[t] # "none" \/ permit[t[1]] # None
      BY <1>3, <2>1, <2>2 DEF ApplicationInv, CInv, CoordinatorTyped
    <2>4. CInv'
      BY <1>1, <2>3, FrameCInv DEF ApplicationInv, CInv, CoordinatorTyped, lockVars
    <2>5. AdapterStartsOnce'
      BY <1>1, <2>1 DEF ApplicationInv, CInv, CoordinatorTyped, AdapterStartsOnce, Threads, Callers
    <2> QED BY <1>2, <2>4, <2>5 DEF ApplicationInv
  <1> QED BY <1>4, <1>5 DEF CreateIntention, MarkExpressed, appVars

\* The holder of the lock.
LEMMA HoldingInv ==
  ASSUME ApplicationInv, NEW t \in Threads, Holding(t)
  PROVE  ApplicationInv'
  <1>1. CInv' /\ SafeInv'
    BY PrepareSafeInv, ApplySafeInv, CommitSafeInv, GuardSafeInv, CallSafeInv, UncontainedSafeInv
       DEF ApplicationInv, Holding
  <1>2. lock = t /\ phase' = phase /\ thread[t] = "held"
    <2>1. lock = t /\ phase' = phase
      BY ZenonT(60) DEF Holding, PrepareTemporal, ApplyState, CommitTemporal, Guard, MakeCall, Uncontained, adaptVars
    <2> QED BY <2>1, NoneAssumption, SMTT(30) DEF ApplicationInv, CInv, HolderIsLive
  <1>3. thread' = thread \/ \E status : thread' = [thread EXCEPT ![t] = status]
    BY Zenon DEF Holding, PrepareTemporal, ApplyState, CommitTemporal, Guard, MakeCall, Uncontained, Finish, Record
  <1>4. \A p \in Episodes : thread[<<p, "adapter">>] = "none" => thread'[<<p, "adapter">>] = "none"
    BY <1>2, <1>3 DEF ApplicationInv, CInv, CoordinatorTyped, Threads, Callers
  <1>5. AdapterStartsOnce'
    BY <1>2, <1>4 DEF ApplicationInv, AdapterStartsOnce
  <1> QED BY <1>1, <1>5 DEF ApplicationInv

\* An executor that was left behind ends.
LEMMA StrayInv ==
  ASSUME ApplicationInv, NEW s \in stray, StrayEnds(s)
  PROVE  ApplicationInv'
  <1>1. CInv' /\ SafeInv'
    BY StraySafeInv DEF ApplicationInv
  <1>2. AdapterStartsOnce'
    BY DEF StrayEnds, adaptVars, ApplicationInv, AdapterStartsOnce
  <1> QED BY <1>1, <1>2 DEF ApplicationInv

\* The invariant holds at first.
LEMMA InitInv == AppInit => ApplicationInv
  <1>1. AppInit => AdapterStartsOnce
    BY DEF AppInit, AdapterStartsOnce, Threads, Callers
  <1> QED BY <1>1, InitCInv, InitSafeInv DEF ApplicationInv

\* Every step of the application keeps the invariant.
LEMMA NextInv == ApplicationInv /\ [AppNext]_appVars => ApplicationInv'
  <1> SUFFICES ASSUME ApplicationInv, [AppNext]_appVars PROVE ApplicationInv'
    OBVIOUS
  <1>1. ASSUME NEW e \in Episodes,
               AdapterStep(e) \/ LooseEnds(e) \/ RequestCancel(e) \/ CancelTask(e)
        PROVE  ApplicationInv'
    BY <1>1, BindInv, AdapterInv DEF AdapterStep
  <1>2. ASSUME NEW t \in Threads, Acquire(t) \/ Holding(t) PROVE ApplicationInv'
    BY <1>2, AcquireInv, HoldingInv
  <1>3. ASSUME NEW s \in stray, StrayEnds(s) PROVE ApplicationInv'
    BY <1>3, StrayInv
  <1> QED BY <1>1, <1>2, <1>3, BystanderInv DEF AppNext

\* What every reachable state of the application satisfies.
THEOREM InductiveInvariant == AppSpec => []ApplicationInv
  BY InitInv, NextInv, PTL DEF AppSpec
-----------------------------------------------------------------------------
(* What follows. *)

\* No effect of an outcome happens twice (EffectsAtMostOnce).
THEOREM EffectsHappenOnce == AppSpec => []EffectsAtMostOnce
  <1>1. ApplicationInv => EffectsAtMostOnce
    BY DEF ApplicationInv, SafeInv, EInv, AtMostOnce, SentOnce, EffectsAtMostOnce
  <1> QED BY <1>1, InductiveInvariant, PTL

\* What is recorded of an application is what happened (ReportIsHonest).
THEOREM ReportsAreHonest == AppSpec => []ReportIsHonest
  <1>1. ApplicationInv => ReportIsHonest
    BY DEF ApplicationInv, SafeInv
  <1> QED BY <1>1, InductiveInvariant, PTL

\* The state proposals change the MindState only at the version that the episode
\* reasoned from (AppliedOnTheStateReadFrom).
THEOREM AppliedWhereRead == AppSpec => AppliedOnTheStateReadFrom
  <1> DEFINE Read == \A e \in Episodes : done'[e].state # done[e].state => mind.version = based[e]
  <1>1. ASSUME ApplicationInv, [AppNext]_appVars PROVE [Read]_appVars
    <2>1. done \in [Episodes -> EffectRecord]
      BY <1>1 DEF ApplicationInv, SafeInv, EInv, EffectsTyped, EffectRecord
    <2>2. ASSUME done' = done PROVE Read
      BY <2>2
    <2>3. ASSUME NEW e \in Episodes,
                 AdapterStep(e) \/ LooseEnds(e) \/ RequestCancel(e) \/ CancelTask(e)
          PROVE  done' = done
      BY <2>3, SMTT(30) DEF AdapterStep, ExecuteStarts, RunnerStarts, EngineAnswers, RunnerFails,
                  CancelledWhileThinking, ApplicationStarts, ApplicationSeen, CancelledWhileApplying,
                  JoinSeen, LooseEnds, RequestCancel, CancelTask, histVars
    <2>4. ASSUME NEW t \in Threads,
                 Acquire(t) \/ PrepareTemporal(t) \/ Guard(t) \/ Uncontained(t)
          PROVE  done' = done
      BY <2>4, Zenon DEF Acquire, PrepareTemporal, Guard, Uncontained, histVars
    <2>5. ASSUME NEW t \in Threads, ApplyState(t) PROVE Read
      <3>1. t[1] \in Episodes
        BY DEF Threads
      <3>2. \/ done' = done
            \/ /\ done' = [done EXCEPT ![t[1]].state = @ + 1]
               /\ mind.version = based[t[1]]
        BY <2>5 DEF ApplyState, StillCurrent
      <3>3. CASE done' = [done EXCEPT ![t[1]].state = @ + 1]
        <4>1. \A p \in Episodes \ {t[1]} : done'[p] = done[p]
          BY <2>1, <3>1, <3>3, StateRecorded
        <4>2. CASE mind.version = based[t[1]]
          BY <4>1, <4>2
        <4>3. CASE done' = done
          BY <2>2, <4>3
        <4> QED BY <3>2, <4>2, <4>3
      <3> QED BY <2>2, <3>2, <3>3
    <2>6. ASSUME NEW t \in Threads, CommitTemporal(t) PROVE Read
      <3>1. t[1] \in Episodes
        BY DEF Threads
      <3>2. CASE done' = [done EXCEPT ![t[1]].temporal = @ + 1]
        <4>1. \A p \in Episodes : done'[p].state = done[p].state
          BY <2>1, <3>1, <3>2, WakesRecorded
        <4> QED BY <4>1
      <3> QED BY <2>2, <2>6, <3>2 DEF CommitTemporal
    <2>7. ASSUME NEW t \in Threads, MakeCall(t) PROVE Read
      <3>1. t[1] \in Episodes /\ lock = t
        BY <2>7 DEF Threads, MakeCall
      <3>2. PICK i \in job.calls : done' = [done EXCEPT ![t[1]].sent = Append(@, i)] \/ done' = done
        BY <2>7 DEF MakeCall
      <3>3. i \in Indices
        <4>1. outcome[t[1]] \in CognitionOutcomes /\ JobTyped
          BY <1>1, <3>1, HolderFacts DEF ApplicationInv
        <4> QED BY <3>1, <4>1 DEF JobTyped, Indices
      <3>4. CASE done' = [done EXCEPT ![t[1]].sent = Append(@, i)]
        <4>1. \A p \in Episodes : done'[p].state = done[p].state
          BY <2>1, <3>1, <3>3, <3>4, CallRecorded
        <4> QED BY <4>1
      <3> QED BY <2>2, <3>2, <3>4
    <2>8. ASSUME NEW s \in stray, StrayEnds(s) PROVE Read
      <3>1. s[1] \in Episodes /\ s[2] \in Indices
        BY <1>1 DEF ApplicationInv, SafeInv, EInv, EffectsTyped
      <3>2. CASE done' = [done EXCEPT ![s[1]].sent = Append(@, s[2])]
        <4>1. \A p \in Episodes : done'[p].state = done[p].state
          BY <2>1, <3>1, <3>2, CallRecorded
        <4> QED BY <4>1
      <3> QED BY <2>2, <2>8, <3>2 DEF StrayEnds
    <2>9. ASSUME CreateIntention \/ MarkExpressed \/ UNCHANGED appVars
                 \/ \E e \in Episodes, c \in Replayers : Resubmit(e, c)
          PROVE  done' = done
      BY <2>9 DEF CreateIntention, MarkExpressed, appVars, Resubmit, histVars
    <2> HIDE DEF Read
    <2> QED BY <1>1, <2>2, <2>3, <2>4, <2>5, <2>6, <2>7, <2>8, <2>9 DEF AppNext, Holding
  <1>2. ApplicationInv /\ [AppNext]_appVars => [Read]_appVars
    BY <1>1
  <1> QED BY <1>2, InductiveInvariant, PTL DEF AppSpec, AppliedOnTheStateReadFrom
-----------------------------------------------------------------------------
(* The coordinator implements the replay fence. *)

\* Whatever is summarised, the summary is a status.
LEMMA AggregateIsStatus == \A st, te, ac : Aggregate(st, te, ac) \in Statuses
  BY DEF Aggregate, Statuses

\* The holder of the lock lets its outcome take effect or settles it.
LEMMA HoldingShape ==
  ASSUME ApplicationInv, NEW t \in Threads, Holding(t)
  PROVE  /\ t[1] \in Episodes /\ permit[t[1]] # None /\ Live(t[1]) /\ fence[t[1]] = None
         /\ UNCHANGED <<ledger, permit>> /\ began' \in {began, began \cup {t[1]}}
         /\ fence' = fence \/ \E status \in Statuses : fence' = [fence EXCEPT ![t[1]] = status]
  <1>1. /\ lock = t /\ began' \in {began, began \cup {t[1]}}
        /\ UNCHANGED <<ledger, permit>>
        /\ fence' = fence \/ \E st, te, ac : fence' = [fence EXCEPT ![t[1]] = Aggregate(st, te, ac)]
    <2>1. CASE PrepareTemporal(t)
      BY <2>1 DEF PrepareTemporal, Finish, Record, coordVars, histVars
    <2>2. CASE ApplyState(t)
      BY <2>2 DEF ApplyState, Finish, Record, coordVars
    <2>3. CASE CommitTemporal(t)
      BY <2>3 DEF CommitTemporal, Finish, Record, coordVars
    <2>4. CASE Guard(t)
      <3>1. /\ lock = t /\ began' = began
            /\ UNCHANGED coordVars \/ \E ac, rs : Finish(t, job.state, job.temporal, ac, rs)
        BY <2>4, Zenon DEF Guard, histVars
      <3>2. CASE UNCHANGED coordVars
        BY <3>1, <3>2 DEF coordVars
      <3>3. ASSUME NEW ac, NEW rs, Finish(t, job.state, job.temporal, ac, rs)
            PROVE  /\ UNCHANGED <<ledger, permit>>
                   /\ fence' = [fence EXCEPT ![t[1]] = Aggregate(job.state, job.temporal, ac)]
        BY <3>3 DEF Finish, Record
      <3> QED BY <3>1, <3>2, <3>3, SMTT(30)
    <2>5. CASE MakeCall(t)
      BY <2>5 DEF MakeCall, Finish, Record, coordVars
    <2>6. CASE Uncontained(t)
      <3>1. /\ lock = t /\ began' = began \cup {t[1]}
            /\ \E ac, rs : Record(t, job.state, job.temporal, ac, rs, FALSE)
        BY <2>6 DEF Uncontained
      <3>2. ASSUME NEW ac, NEW rs, Record(t, job.state, job.temporal, ac, rs, FALSE)
            PROVE  /\ UNCHANGED <<ledger, permit>>
                   /\ fence' = [fence EXCEPT ![t[1]] = Aggregate(job.state, job.temporal, ac)]
        BY <3>2 DEF Record
      <3> QED BY <3>1, <3>2
    <2> QED BY <2>1, <2>2, <2>3, <2>4, <2>5, <2>6 DEF Holding
  <1>2. t[1] \in Episodes /\ lock # None
    BY <1>1, NoneAssumption DEF Threads
  <1> QED BY <1>1, <1>2, AggregateIsStatus DEF ApplicationInv, CInv, HolderIsLive

\* Every step of the application is a step of the fence or leaves it alone.
LEMMA StepRefines ==
  ASSUME ApplicationInv, [AppNext]_appVars
  PROVE  [Fence!FenceNext]_Fence!fenceVars
  <1> DEFINE fate == [e \in Episodes |-> Fate(e)]
  <1>1. ASSUME UNCHANGED <<ledger, permit, fence, began>> PROVE UNCHANGED Fence!fenceVars
    BY <1>1 DEF Fence!fenceVars, Fate, Live
  <1>2. ASSUME NEW e \in Episodes, EngineAnswers(e) PROVE Fence!Bind(e)
    <2>1. /\ permit[e] = None /\ permit'[e] # None /\ Live(e)' /\ fence'[e] = None
          /\ \A p \in Episodes \ {e} : permit'[p] = permit[p]
          /\ IF WindowFull THEN \A p \in Episodes \ {e} : ~Live(p)' \/ permit[p] = None
             ELSE /\ UNCHANGED fence
                  /\ \A p \in Episodes \ {e} : permit[p] # None => (Live(p)' <=> Live(p))
      BY <1>2, BindCInv DEF ApplicationInv
    <2>2. Fate(e) = "unbound" /\ Fate(e)' = "bound" /\ began' = began
      BY <1>2, <2>1 DEF Fate, EngineAnswers, histVars
    <2>3. WindowFull =>
            \A p \in Episodes \ {e} : Fate(p)' = IF Fate(p) = "unbound" THEN "unbound" ELSE "retired"
      BY <2>1 DEF Fate
    <2>4. ~WindowFull => \A p \in Episodes \ {e} : Fate(p)' = Fate(p)
      BY <2>1 DEF Fate
    <2> DEFINE retired == [p \in Episodes |-> IF p = e THEN "bound"
                                             ELSE IF fate[p] = "unbound" THEN "unbound" ELSE "retired"]
    <2> HIDE DEF Fate
    <2>5. CASE WindowFull
      <3>1. fate' = retired
        BY <2>2, <2>3, <2>5
      <3> QED BY <2>2, <3>1 DEF Fence!Bind
    <2>6. CASE ~WindowFull
      <3>1. fate' = [fate EXCEPT ![e] = "bound"]
        BY <2>2, <2>4, <2>6
      <3> QED BY <2>2, <3>1 DEF Fence!Bind
    <2> QED BY <2>5, <2>6
  <1>3. ASSUME NEW t \in Threads, Holding(t) PROVE Fence!TakeEffect(t[1]) \/ Fence!Settle(t[1])
                                                    \/ UNCHANGED Fence!fenceVars
    <2> DEFINE e == t[1]
    <2>1. /\ e \in Episodes /\ permit[e] # None /\ Live(e) /\ fence[e] = None
          /\ UNCHANGED <<ledger, permit>> /\ began' \in {began, began \cup {e}}
          /\ fence' = fence \/ \E status \in Statuses : fence' = [fence EXCEPT ![e] = status]
      BY <1>3, HoldingShape
    <2> HIDE DEF e
    <2>2. Fate(e) = "bound"
      BY <2>1 DEF Fate
    <2>3. CASE fence' = fence
      <3>1. fate' = fate
        BY <2>1, <2>3 DEF Fate, Live
      <3>2. began' = began \/ Fence!TakeEffect(e)
        BY <2>1, <2>2, <3>1 DEF Fence!TakeEffect
      <3> QED BY <3>1, <3>2 DEF e, Fence!fenceVars
    <2>4. ASSUME NEW status \in Statuses, fence' = [fence EXCEPT ![e] = status]
          PROVE  Fence!Settle(e)
      <3>1. /\ Fate(e)' = "settled" /\ \A p \in Episodes \ {e} : Fate(p)' = Fate(p)
        BY <2>1, <2>4, NoneAssumption DEF Fate, Live, ApplicationInv, CInv, CoordinatorTyped
      <3> HIDE DEF Fate
      <3> QED BY <2>1, <2>2, <3>1 DEF Fence!Settle
    <2> QED BY <2>1, <2>3, <2>4 DEF e
  <1>4. ASSUME NEW e \in Episodes,
               \/ ExecuteStarts(e) \/ RunnerStarts(e) \/ RunnerFails(e) \/ CancelledWhileThinking(e)
               \/ ApplicationStarts(e) \/ ApplicationSeen(e) \/ CancelledWhileApplying(e) \/ JoinSeen(e)
               \/ LooseEnds(e) \/ RequestCancel(e) \/ CancelTask(e)
        PROVE  UNCHANGED <<ledger, permit, fence, began>>
    BY <1>4 DEF ExecuteStarts, RunnerStarts, RunnerFails, CancelledWhileThinking, ApplicationStarts,
                ApplicationSeen, CancelledWhileApplying, JoinSeen, LooseEnds, RequestCancel,
                CancelTask, coordVars, histVars
  <1>5. ASSUME \/ CreateIntention \/ MarkExpressed \/ UNCHANGED appVars
               \/ \E e \in Episodes, c \in Replayers : Resubmit(e, c)
               \/ \E t \in Threads : Acquire(t)
               \/ \E s \in stray : StrayEnds(s)
        PROVE  UNCHANGED <<ledger, permit, fence, began>>
    BY <1>5 DEF CreateIntention, MarkExpressed, appVars, Resubmit, Acquire, StrayEnds, coordVars, histVars
  <1>6. \A t \in Threads : t[1] \in Episodes
    BY DEF Threads
  <1> QED BY <1>1, <1>2, <1>3, <1>4, <1>5, <1>6 DEF AppNext, AdapterStep, Fence!FenceNext

\* The coordinator, which forgets, behaves as the fence, which does not
\* (ImplementsReplayFence).
THEOREM FenceImplemented == AppSpec => ImplementsReplayFence
  <1>1. AppInit => Fence!FenceInit
    BY DEF AppInit, Fence!FenceInit, Fate
  <1>2. ApplicationInv /\ [AppNext]_appVars => [Fence!FenceNext]_Fence!fenceVars
    BY StepRefines
  <1> QED BY <1>1, <1>2, InductiveInvariant, PTL DEF AppSpec, ImplementsReplayFence, Fence!FenceSpec
=============================================================================
