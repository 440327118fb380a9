--------------------------- MODULE ReplyPresenter ---------------------------
(***************************************************************************)
(* One reply on Discord: the presentation handlers of the edge (edge.py)   *)
(* and the ReplyPresenter whose pump task publishes the growing text       *)
(* (presenter.py).  One pump publishes at a time, at most once an interval *)
(* and, with semantic streaming, a prefix that ends well; a terminal call  *)
(* forces the last publication, and the clean-up cancels the pump.         *)
(*                                                                         *)
(* A text is the number of its fragments, with a tail: nothing, the        *)
(* delimiter that repairs a preview, or a marker.  A message holds         *)
(* ChunkSize fragments; where exactly a semantic chunk is cut is left out. *)
(* Discord answers a request or refuses it.  A cancelled request may have  *)
(* been carried out.                                                       *)
(***************************************************************************)
EXTENDS Naturals, Sequences, SequencesExt

CONSTANTS
  MaxText,   \* bound: the fragments of the answer
  ChunkSize  \* MAX_DISCORD_MESSAGE_CHARS, in fragments

ASSUME PresenterAssumption == MaxText \in Nat /\ ChunkSize \in Nat \ {0}

VARIABLES
  semantic,      \* _semantic_streaming
  text,          \* _text: its fragments, while the reply grows
  terminal,      \* _terminal_requested: the last text, or Nothing
  published,     \* _published_chunks
  channel,       \* the messages Discord shows, first to last
  visible,       \* _last_visible_raw_text
  attempted,     \* _semantic_attempted_raw_text
  pump,          \* the await the pump task rests in
  observed,      \* the text the lookahead has seen
  goal,          \* the display text being published, and where it is
  intervalOver,  \* edit_interval_s has passed since the last publication began
  pumpWake,      \* _wake is set
  reply          \* what the edge is doing with this presentation

presenterVars == <<semantic, text, terminal, published, channel, visible, attempted, pump,
                   observed, goal, intervalOver, pumpWake, reply>>
shownVars == <<published, channel, visible, attempted>>

Display(n, tail) == [n |-> n, tail |-> tail]
Nothing == Display(0, "nothing")
Tails == {"plain", "repair", "marker"}

\* split_discord_content, split_semantic_content: the messages of a text, each named by
\* the fragment it ends with and the tail it carries.
Chunks(d) ==
  LET length == d.n + (IF d.tail = "plain" THEN 0 ELSE 1)
      count  == (length + ChunkSize - 1) \div ChunkSize
  IN  [i \in 1..count |->
         Display(IF i * ChunkSize < d.n THEN i * ChunkSize ELSE d.n,
                 IF i = count THEN d.tail ELSE "plain")]

\* The text to publish, the messages of it that are done, and the raw text behind it.
Job(d, raw, forced) == [what |-> d, raw |-> raw, forced |-> forced, done |-> 0]
NoJob == Job(Nothing, 0, FALSE)

PumpAlive == {"turning", "resting", "timed", "lookahead", "publishing"}

PresenterTypeOK ==
  /\ semantic \in BOOLEAN /\ intervalOver \in BOOLEAN /\ pumpWake \in BOOLEAN
  /\ {text, visible, attempted, observed} \subseteq 0..MaxText
  /\ terminal.n \in 0..MaxText /\ terminal.tail \in Tails \cup {"nothing"}
  /\ \A i \in DOMAIN channel : channel[i].n \in 0..MaxText /\ channel[i].tail \in Tails
  /\ goal.what.n \in 0..MaxText /\ goal.done \in 0..Len(Chunks(goal.what))
  /\ pump \in PumpAlive \cup {"absent", "finished", "failed", "cancelled"}
  /\ reply \in {"open", "streaming", "finalizing", "cleaning", "answered", "aborted"}

PresenterInit ==
  /\ semantic \in BOOLEAN
  /\ text = 0 /\ terminal = Nothing /\ published = <<>> /\ channel = <<>>
  /\ visible = 0 /\ attempted = 0 /\ pump = "absent" /\ observed = 0 /\ goal = NoJob
  /\ intervalOver = TRUE /\ pumpWake = FALSE /\ reply = "open"

-----------------------------------------------------------------------------
(* The edge's handlers, called by the router's task. *)

\* PRESENTATION_BIND starts the pump.
Bind ==
  /\ reply = "open" /\ reply' = "streaming" /\ pump' = "turning"
  /\ UNCHANGED <<semantic, text, terminal, shownVars, observed, goal, intervalOver, pumpWake>>

AppendDelta ==
  /\ reply = "streaming" /\ text < MaxText
  /\ text' = text + 1 /\ pumpWake' = TRUE
  /\ UNCHANGED <<semantic, terminal, shownVars, pump, observed, goal, intervalOver, reply>>

\* complete (unmarked), interrupted and failed.  With a marker semantic streaming keeps
\* what the reader has seen; without text the marker stands alone.
LastText(marked) ==
  IF ~marked THEN Display(text, "plain")
  ELSE Display(IF semantic THEN visible ELSE text, "marker")

\* _text_argument: the edge refuses to complete or interrupt with an empty text, and cleans
\* up (Aborts); failed takes one.
AcceptsText(marked) == text > 0 \/ marked

FinalizeWith(wakes) ==
  /\ reply = "streaming" /\ terminal = Nothing
  /\ \E marked \in BOOLEAN : AcceptsText(marked) /\ terminal' = LastText(marked)
  /\ pumpWake' = wakes /\ reply' = "finalizing"
  /\ UNCHANGED <<semantic, text, shownVars, pump, observed, goal, intervalOver>>
FinalizeSilently == FinalizeWith(pumpWake)
Finalize == FinalizeWith(TRUE)

\* _cleanup: the pump is cancelled where it rests.
CancelsPump == pump' = (IF pump \in PumpAlive THEN "cancelled" ELSE pump)

\* The pump returned: the presentation is finished and cleaned up.
FinalizeReturns ==
  /\ reply = "finalizing" /\ pump = "finished" /\ reply' = "answered"
  /\ UNCHANGED <<semantic, text, terminal, shownVars, pump, observed, goal, intervalOver, pumpWake>>

\* What a request does to the channel: chunk i replaces its message or becomes a new one;
\* after the last chunk the first message left over is deleted.
Requested(i) ==
  LET chunks == Chunks(goal.what) IN
  channel' = IF i > Len(chunks) THEN RemoveAt(channel, Len(chunks) + 1)
             ELSE IF i > Len(channel) THEN Append(channel, chunks[i])
             ELSE [channel EXCEPT ![i] = chunks[i]]

KeepsLeftovers == goal.done = Len(Chunks(goal.what))
\* _reconcile has nothing left to do; with semantic streaming it also deletes what a longer
\* preview left over.
Reconciled == LET count == Len(Chunks(goal.what)) IN
  goal.done = count /\ (semantic => Len(channel) <= count)

\* The route is cancelled (the finalizer's await hands that on to the pump), fails, or is
\* told by the watcher or the finalizer that the pump failed: PRESENTATION_ABORT.
Aborts ==
  /\ reply \in {"streaming", "finalizing"} /\ reply' = "cleaning"
  /\ CancelsPump
  /\ \/ UNCHANGED channel
     \/ pump = "publishing" /\ ~Reconciled /\ Requested(goal.done + 1)
  /\ UNCHANGED <<semantic, text, terminal, published, visible, attempted, observed, goal,
                 intervalOver, pumpWake>>
Cleaned ==
  /\ reply = "cleaning" /\ pump \notin PumpAlive /\ reply' = "aborted"
  /\ UNCHANGED <<semantic, text, terminal, shownVars, pump, observed, goal, intervalOver, pumpWake>>

-----------------------------------------------------------------------------
(* The pump. *)

\* _has_pending_snapshot and ready_to_flush.
Pending == text > 0 /\ IF semantic THEN attempted # text
                       ELSE Chunks(Display(text, "plain")) # published
Ready == Pending /\ intervalOver

\* _flush_once: nothing to do when the chunks are the published ones, unless forced.
Publishes(d, raw, forced) ==
  /\ goal' = Job(d, raw, forced)
  /\ IF ~forced /\ Chunks(d) = published
       THEN /\ attempted' = (IF semantic THEN raw ELSE attempted)
            /\ pump' = "turning" /\ UNCHANGED intervalOver
       ELSE pump' = "publishing" /\ intervalOver' = FALSE /\ UNCHANGED attempted

\* A preview of the first n fragments is repaired when a delimiter is open there.
Previews(n) == \E tail \in {"plain", "repair"} : Publishes(Display(n, tail), text, FALSE)

\* select_semantic_prefix finds nothing, even with the fallback: this text is done with.
NothingToShow == /\ attempted' = (IF terminal = Nothing THEN text ELSE attempted)
                 /\ pump' = "turning" /\ UNCHANGED <<goal, intervalOver>>

\* The first publication shows everything; later ones a prefix that ends at a strong
\* boundary, or else the pump looks ahead.
FlushSemantic ==
  \/ published = <<>> /\ Previews(text) /\ UNCHANGED observed
  \/ /\ published # <<>>
     /\ \/ \E n \in (visible + 1)..text : Previews(n) /\ UNCHANGED observed
        \/ pump' = "lookahead" /\ observed' = text /\ UNCHANGED <<goal, attempted, intervalOver>>

\* _run_pump: one turn of the loop, up to its next await.
PumpTurns ==
  /\ pump = "turning"
  /\ IF terminal # Nothing
       THEN Publishes(terminal, text, TRUE) /\ UNCHANGED <<observed, pumpWake>>
       ELSE IF Ready
       THEN /\ UNCHANGED pumpWake
            /\ IF semantic THEN FlushSemantic
               ELSE Publishes(Display(text, "plain"), text, FALSE) /\ UNCHANGED observed
       ELSE /\ pumpWake' = FALSE /\ pump' = (IF Pending THEN "timed" ELSE "resting")
            /\ UNCHANGED <<goal, attempted, intervalOver, observed>>
  /\ UNCHANGED <<semantic, text, terminal, published, channel, visible, reply>>

PumpWakes ==
  /\ \/ pump \in {"resting", "timed"} /\ pumpWake
     \/ pump = "timed" /\ intervalOver
  /\ pump' = "turning"
  /\ UNCHANGED <<semantic, text, terminal, shownVars, observed, goal, intervalOver, pumpWake, reply>>

IntervalPasses ==
  /\ ~intervalOver /\ intervalOver' = TRUE
  /\ UNCHANGED <<semantic, text, terminal, shownVars, pump, observed, goal, pumpWake, reply>>

\* _await_semantic_boundary: a terminal call ends it; new text is looked at, and ends it
\* when its boundary is better.  When the deadline has passed new text is not looked at:
\* the prefix is one of the text seen before, yet the text of now counts as attempted.
Lookahead ==
  /\ pump = "lookahead"
  /\ \/ /\ terminal # Nothing /\ pump' = "turning"
        /\ UNCHANGED <<observed, goal, attempted, intervalOver, pumpWake>>
     \/ /\ terminal = Nothing /\ text # observed /\ observed' = text /\ pumpWake' = FALSE
        /\ \/ \E n \in (visible + 1)..text : Previews(n)
           \/ UNCHANGED <<pump, goal, attempted, intervalOver>>
     \/ /\ terminal = Nothing /\ UNCHANGED <<observed, pumpWake>>
        /\ NothingToShow \/ \E n \in (visible + 1)..observed : Previews(n)
  /\ UNCHANGED <<semantic, text, terminal, published, channel, visible, reply>>

\* _reconcile: one request at a time for each chunk that is not the published one.
AsPublished(i) == LET chunks == Chunks(goal.what) IN
  i \in DOMAIN chunks /\ i \in DOMAIN published /\ published[i] = chunks[i]

RequestAnswered ==
  LET i == goal.done + 1 IN
  /\ pump = "publishing" /\ ~Reconciled
  /\ IF AsPublished(i) THEN UNCHANGED channel ELSE Requested(i)
  /\ goal' = IF i <= Len(Chunks(goal.what)) THEN [goal EXCEPT !.done = i] ELSE goal
  /\ UNCHANGED <<semantic, text, terminal, published, visible, attempted, pump, observed,
                 intervalOver, pumpWake, reply>>

RequestFails ==
  /\ pump = "publishing" /\ ~Reconciled /\ ~AsPublished(goal.done + 1)
  /\ pump' = "failed"
  /\ UNCHANGED <<semantic, text, terminal, shownVars, observed, goal, intervalOver, pumpWake, reply>>

PublishingEnds ==
  /\ pump = "publishing" /\ Reconciled
  /\ published' = Chunks(goal.what)
  /\ IF goal.forced THEN pump' = "finished" /\ UNCHANGED <<visible, attempted>>
     ELSE /\ pump' = "turning"
          /\ visible' = (IF semantic THEN goal.what.n ELSE visible)
          /\ attempted' = (IF semantic THEN goal.raw ELSE attempted)
  /\ UNCHANGED <<semantic, text, terminal, channel, observed, goal, intervalOver, pumpWake, reply>>

-----------------------------------------------------------------------------
PumpStep == PumpTurns \/ PumpWakes \/ Lookahead \/ RequestAnswered \/ PublishingEnds
ReplyEnds == FinalizeReturns \/ Cleaned

PresenterNext ==
  \/ Bind \/ AppendDelta \/ Finalize \/ ReplyEnds \/ Aborts
  \/ PumpStep \/ RequestFails \/ IntervalPasses

\* The loop runs its tasks and timers, and Discord answers; a route that learns that its
\* pump failed aborts.
PresenterFairness ==
  /\ WF_presenterVars(PumpStep) /\ WF_presenterVars(IntervalPasses) /\ WF_presenterVars(ReplyEnds)
  /\ WF_presenterVars(pump = "failed" /\ Aborts)

PresenterSpec == PresenterInit /\ [][PresenterNext]_presenterVars /\ PresenterFairness

-----------------------------------------------------------------------------
(* What a reply promises. *)

\* When a terminal call has returned, the channel shows exactly the terminal text: no
\* stale chunk, no message left over from a longer preview (presenter.py:265-347).
FinalTextShown == reply = "answered" => channel = Chunks(terminal)

\* A terminal call ends, whatever the pump was doing when it came: it is woken from any
\* rest, and a failed pump ends the call too (presenter.py:185-249).
TerminalCallEnds == reply = "finalizing" ~> reply \in {"answered", "aborted"}
=============================================================================
