------------------------- MODULE ObservationIngress -------------------------
(***************************************************************************)
(* How an event of an environment becomes a cognition turn: the Discord    *)
(* edge forgets what it has seen before (edge.py:178-194), the kernel      *)
(* admits the event through a bounded queue into the window of recent      *)
(* observations (kernel.py:490-536), and a second call asks the attention  *)
(* gate about it (kernel.py:548-640, attention.py) before the actor gets   *)
(* it.  Meanwhile stop() closes the admission and drains.                  *)
(*                                                                         *)
(* A delivery is one arrival of an event; the same event may arrive again, *)
(* as the gateway replays messages after a reconnect.  asyncio steps run   *)
(* whole between awaits, so an action is what one task does between two.   *)
(***************************************************************************)
EXTENDS Naturals, Sequences, SequencesExt, FiniteSets

CONSTANTS
  DirectMessages,  \* events that come from Discord, all of kind direct_message
  AmbientEvents,   \* events of other environments, which drop no duplicates
  DedupeCapacity, QueueCapacity, WindowCapacity,
  MaxDeliveries,   \* bound: arrivals
  MaxHandled       \* bound: deliveries handled at the same time

ASSUME IngressAssumption ==
  /\ DirectMessages \cap AmbientEvents = {}
  /\ DedupeCapacity \in Nat \ {0} /\ QueueCapacity \in Nat \ {0}
  /\ WindowCapacity \in Nat \ {0} /\ MaxDeliveries \in Nat /\ MaxHandled \in Nat

NoDelivery == 0

VARIABLES
  remembered,     \* _seen of the deduplicator, least recent first
  arrivals,       \* the event of each delivery, in order
  delivery,       \* where the task that handles each delivery is
  queued,         \* _queue.qsize()
  window,         \* the observation window: deliveries, oldest first
  submissions,    \* _pending_submissions
  lifecycleLock,  \* the delivery whose cognition step holds _lifecycle_lock
  drain           \* how far stop() is

ingressVars == <<remembered, arrivals, delivery, queued, window, submissions, lifecycleLock, drain>>

Events == DirectMessages \cup AmbientEvents
Deliveries == DOMAIN arrivals
Admitting == {"putting", "blocked", "put"}
\* "over": refused, cancelled, no longer in the window, or not worth a thought.
HandlingEnded == {"duplicate", "turn", "over"}
DeliveryStages == Admitting \cup HandlingEnded \cup {"claimed", "admitted", "submitting"}

IngressTypeOK ==
  /\ remembered \in Seq(DirectMessages) /\ Len(remembered) <= DedupeCapacity
  /\ arrivals \in Seq(Events) /\ Len(arrivals) <= MaxDeliveries
  /\ DOMAIN delivery = Deliveries /\ \A d \in Deliveries : delivery[d] \in DeliveryStages
  /\ queued \in 0..QueueCapacity
  /\ window \in Seq(Deliveries) /\ Len(window) <= WindowCapacity
  /\ submissions = Cardinality({d \in Deliveries : delivery[d] \in Admitting})
  /\ lifecycleLock \in Deliveries \cup {NoDelivery}
  /\ drain \in {"running", "stopping", "settling", "joining", "drained"}

IngressInit ==
  /\ remembered = <<>> /\ arrivals = <<>> /\ delivery = <<>> /\ queued = 0 /\ window = <<>>
  /\ submissions = 0 /\ lifecycleLock = NoDelivery /\ drain = "running"

Moved(d, to) == delivery' = [delivery EXCEPT ![d] = to]
Trimmed(s, capacity) == IF Len(s) > capacity THEN Tail(s) ELSE s
InSeq(x, s) == \E i \in DOMAIN s : s[i] = x

-----------------------------------------------------------------------------
(* The edge. *)

\* claim: what is known moves to the end; what is new is added and the oldest forgotten.
RememberedInPlace(m) ==
  IF InSeq(m, remembered) THEN remembered ELSE Trimmed(Append(remembered, m), DedupeCapacity)
Remembered(m) ==
  IF InSeq(m, remembered)
    THEN LET i == CHOOSE i \in DOMAIN remembered : remembered[i] = m
         IN  Append(RemoveAt(remembered, i), m)
    ELSE Trimmed(Append(remembered, m), DedupeCapacity)

\* handle_message up to submit.  A message is claimed before its admission is known.
Deliver(e) ==
  /\ drain \in {"running", "stopping"} /\ Len(arrivals) < MaxDeliveries
  /\ Cardinality({d \in Deliveries : delivery[d] \notin HandlingEnded}) < MaxHandled
  /\ arrivals' = Append(arrivals, e)
  /\ IF e \in AmbientEvents
       THEN delivery' = Append(delivery, "claimed") /\ UNCHANGED remembered
       ELSE /\ delivery' = Append(delivery, IF InSeq(e, remembered) THEN "duplicate" ELSE "claimed")
            /\ remembered' = Remembered(e)
  /\ UNCHANGED <<queued, window, submissions, lifecycleLock, drain>>

-----------------------------------------------------------------------------
(* admit_observation. *)

\* Under the lifecycle lock: refused unless running, or counted as pending.
Register(d) ==
  /\ delivery[d] = "claimed" /\ lifecycleLock = NoDelivery
  /\ IF drain = "running" THEN Moved(d, "putting") /\ submissions' = submissions + 1
                          ELSE Moved(d, "over") /\ UNCHANGED submissions
  /\ UNCHANGED <<remembered, arrivals, queued, window, lifecycleLock, drain>>

\* The put takes a free place, or waits for one or for the admission to close.
Puts(d) ==
  /\ delivery[d] \in {"putting", "blocked"} /\ queued < QueueCapacity
  /\ queued' = queued + 1 /\ Moved(d, "put")
  /\ UNCHANGED <<remembered, arrivals, window, submissions, lifecycleLock, drain>>
PutBlocks(d) ==
  /\ delivery[d] = "putting" /\ queued = QueueCapacity /\ Moved(d, "blocked")
  /\ UNCHANGED <<remembered, arrivals, queued, window, submissions, lifecycleLock, drain>>

\* The wait ends with the put: the window takes the observation.
AdmissionSettles(d) ==
  /\ delivery[d] = "put" /\ Moved(d, "admitted")
  /\ window' = Trimmed(Append(window, d), WindowCapacity)
  /\ submissions' = submissions - 1
  /\ UNCHANGED <<remembered, arrivals, queued, lifecycleLock, drain>>

\* The wait ends with the closing alone: the put is cancelled.
AdmissionRefused(d) ==
  /\ delivery[d] = "blocked" /\ drain # "running"
  /\ Moved(d, "over") /\ submissions' = submissions - 1
  /\ UNCHANGED <<remembered, arrivals, queued, window, lifecycleLock, drain>>

\* A cancelled adapter takes the submit it awaits with it; what it put stays in the queue.
AdmissionCancelled(d) ==
  /\ drain = "stopping" /\ delivery[d] \in Admitting /\ arrivals[d] \in AmbientEvents
  /\ Moved(d, "over") /\ submissions' = submissions - 1
  /\ UNCHANGED <<remembered, arrivals, queued, window, lifecycleLock, drain>>

\* _consume_events; it is cancelled once the queue is joined.
ConsumeEvent ==
  /\ queued > 0 /\ drain # "drained" /\ queued' = queued - 1
  /\ UNCHANGED <<remembered, arrivals, delivery, window, submissions, lifecycleLock, drain>>

-----------------------------------------------------------------------------
(* The attention gate. *)

Evidence == [direct_address : BOOLEAN, critical_event : BOOLEAN, continuity : BOOLEAN,
             relevance : {"unknown", "low", "high"}, novelty : {"unknown", "high"},
             repetition : BOOLEAN, no_new_value : BOOLEAN]

\* DeterministicAttentionPolicy.evaluate.
Decision(ev) ==
  IF \/ ev.direct_address \/ ev.critical_event \/ ev.continuity
     \/ ev.relevance = "high" /\ ev.novelty = "high" THEN "THINK"
  ELSE IF ev.relevance = "low" \/ (ev.repetition /\ ev.no_new_value) THEN "DROP" ELSE "NOTE"

\* AttentionEvidenceExtractor: the route says it, the payload never does.  The route of
\* direct messages is always addressed; the profiles of the others are configuration.
Extracted(e) == IF e \in DirectMessages THEN {ev \in Evidence : ev.direct_address} ELSE Evidence

\* cognition_step, under the lifecycle lock, up to the actor.  NOTE goes to the awareness
\* buffer, which has a module of its own.
CognitionStep(d) ==
  /\ delivery[d] = "admitted" /\ lifecycleLock = NoDelivery
  /\ IF drain # "running" \/ ~InSeq(d, window)
       THEN Moved(d, "over") /\ UNCHANGED lifecycleLock
     ELSE \E verdict \in {Decision(ev) : ev \in Extracted(arrivals[d])} :
       IF verdict = "THINK" THEN Moved(d, "submitting") /\ lifecycleLock' = d
                            ELSE Moved(d, "over") /\ UNCHANGED lifecycleLock
  /\ UNCHANGED <<remembered, arrivals, queued, window, submissions, drain>>

\* The actor accepts the episode, or refuses it, and the lock is let go.
SubmissionReturns(d) ==
  /\ delivery[d] = "submitting" /\ \E to \in {"turn", "over"} : Moved(d, to)
  /\ lifecycleLock' = NoDelivery
  /\ UNCHANGED <<remembered, arrivals, queued, window, submissions, drain>>

-----------------------------------------------------------------------------
(* stop() and _settle_shutdown. *)

Draining(from, to) ==
  /\ drain = from /\ drain' = to
  /\ UNCHANGED <<remembered, arrivals, delivery, queued, window, submissions, lifecycleLock>>

StopCloses == lifecycleLock = NoDelivery /\ Draining("running", "stopping")
\* The adapters are cancelled and gathered, with the submits of their own.
AdaptersEnd ==
  /\ \A d \in Deliveries : arrivals[d] \in AmbientEvents => delivery[d] \notin Admitting
  /\ Draining("stopping", "settling")
SubmissionsUncounted == Draining("settling", "joining")
SubmissionsSettle == submissions = 0 /\ Draining("settling", "joining")
QueueJoined == queued = 0 /\ Draining("joining", "drained")

IngressNext ==
  \/ \E e \in Events : Deliver(e)
  \/ \E d \in Deliveries :
       \/ Register(d) \/ Puts(d) \/ PutBlocks(d) \/ AdmissionSettles(d)
       \/ AdmissionRefused(d) \/ AdmissionCancelled(d) \/ CognitionStep(d) \/ SubmissionReturns(d)
  \/ ConsumeEvent \/ StopCloses \/ AdaptersEnd \/ SubmissionsSettle \/ QueueJoined

IngressSpec == IngressInit /\ [][IngressNext]_ingressVars

-----------------------------------------------------------------------------
(* What the way in promises. *)

\* A drained runtime has left nothing behind: whichever events were being submitted when
\* it was stopped, none of them gets into the queue that nobody reads any more
\* (kernel.py:811-820).
NothingLeftBehind ==
  drain = "drained" => queued = 0 /\ \A d \in Deliveries : delivery[d] \notin Admitting

\* A message gets a second turn only if, between two of its arrivals, as many other
\* messages arrived as the edge remembers (edge.py:178-194): a message that keeps being
\* replayed is not forgotten, whatever comes in between.
OneTurnPerMessage ==
  \A i, j \in Deliveries :
    (i < j /\ arrivals[i] = arrivals[j] /\ arrivals[i] \in DirectMessages
           /\ "duplicate" \notin {delivery[i], delivery[j]})
      => \E k, l \in i..j :
           /\ k < l /\ arrivals[k] = arrivals[i] /\ arrivals[l] = arrivals[i]
           /\ LET between == {arrivals[x] : x \in (k + 1)..(l - 1)} \cap DirectMessages IN
              arrivals[i] \notin between /\ Cardinality(between) >= DedupeCapacity
=============================================================================
