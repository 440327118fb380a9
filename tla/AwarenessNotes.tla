--------------------------- MODULE AwarenessNotes ---------------------------
(***************************************************************************)
(* The buffer of peripheral awareness (awareness.py): short-lived notes of *)
(* what was noticed and not acted on, bounded for each surface and in all. *)
(* An occurrence with a known dedup key refreshes its note; a note with a  *)
(* known supersession key replaces the one that had it.  Two indexes find  *)
(* them, and every removal has to keep the indexes right.                  *)
(*                                                                         *)
(* Notes are numbered by their id; where ids decide, they are compared as  *)
(* the strings they are.  The records of evidence are left out.            *)
(***************************************************************************)
EXTENDS Naturals, FiniteSets, Functions

CONSTANTS
  Surfaces,        \* the exact scopes
  DedupKeys, SupersessionKeys, NoKey,
  ScopeCapacity, TotalCapacity,
  NoteTtl,
  FirstNote,       \* notes that came and went before
  LastNote,        \* bound: notes that are minted
  MaxNoteTime      \* bound: the clock stops there

ASSUME AwarenessAssumption ==
  /\ NoKey \notin DedupKeys \cup SupersessionKeys
  /\ ScopeCapacity \in Nat \ {0} /\ TotalCapacity \in Nat \ {0} /\ NoteTtl \in Nat \ {0}
  /\ FirstNote \in Nat /\ LastNote \in Nat /\ MaxNoteTime \in Nat

VARIABLES
  notes,      \* _notes
  dedups,     \* _dedup_index
  supersedes, \* _supersession_index
  nextNote,   \* _next_note_sequence
  handling,   \* the note mark_handled_by_key has looked up, 0 for none
  noteClock

noteVars == <<notes, dedups, supersedes, nextNote, handling, noteClock>>

Empty == [x \in {} |-> 0]
Put(f, k, v) == [x \in DOMAIN f \cup {k} |-> IF x = k THEN v ELSE f[x]]
Without(f, keys) == Restrict(f, DOMAIN f \ keys)

NoteTypeOK ==
  /\ DOMAIN notes \subseteq (FirstNote + 1)..LastNote /\ nextNote \in FirstNote..LastNote
  /\ \A i \in DOMAIN notes :
       /\ notes[i].on \in Surfaces /\ notes[i].dedup \in DedupKeys
       /\ notes[i].replaces \in SupersessionKeys \cup {NoKey}
       /\ notes[i].seen \in 0..MaxNoteTime
       /\ notes[i].status \in {"active", "handled", "superseded"}
  /\ \A k \in DOMAIN dedups : k \in Surfaces \X DedupKeys
  /\ \A k \in DOMAIN supersedes : k \in Surfaces \X SupersessionKeys
  /\ handling \in 0..LastNote /\ noteClock \in 0..MaxNoteTime

NoteInit ==
  /\ notes = Empty /\ dedups = Empty /\ supersedes = Empty
  /\ nextNote = FirstNote /\ handling = 0 /\ noteClock = 0

-----------------------------------------------------------------------------
(* Reading and removing. *)

Active(ns) == {i \in DOMAIN ns : ns[i].status = "active"}
ActiveOn(ns, s) == {i \in Active(ns) : ns[i].on = s}
Expired(n) == n.seen + NoteTtl <= noteClock

\* _note_order_key: last seen, then the id as a string ("10" comes before "9").
AsString(i) == IF i < 10 THEN 100 * i ELSE 100 * (i \div 10) + (i % 10) + 1
Before(ns, i, j) ==
  \/ ns[i].seen < ns[j].seen
  \/ (ns[i].seen = ns[j].seen /\ AsString(i) < AsString(j))
Oldest(ns, S, howMany) == {i \in S : Cardinality({j \in S : Before(ns, j, i)}) < howMany}
NotesOver(S, capacity) == IF Cardinality(S) > capacity THEN Cardinality(S) - capacity ELSE 0

\* (A bug to rule out: a removed note takes its keys with it, whomever they name.)
NamesAnyway(f, k, ids) ==
  \E i \in ids : /\ i \in DOMAIN notes
                 /\ k \in {<<notes[i].on, notes[i].dedup>>, <<notes[i].on, notes[i].replaces>>}
\* _remove_note drops an index entry only while it names the removed note.
StillNames(f, k, ids) == f[k] \in ids
Unindexed(f, ids) == Without(f, {k \in DOMAIN f : StillNames(f, k, ids)})

\* _compact: what is expired, handled or superseded goes.
Stale(ns) == {i \in DOMAIN ns : ns[i].status # "active" \/ Expired(ns[i])}

\* _enforce_bounds: the oldest of the surface first, then the oldest of all.
Overflow(ns, s) ==
  LET onSurface == Oldest(ns, ActiveOn(ns, s), NotesOver(ActiveOn(ns, s), ScopeCapacity))
      left      == Active(ns) \ onSurface
  IN  onSurface \cup Oldest(ns, left, NotesOver(left, TotalCapacity))

-----------------------------------------------------------------------------
(* Each call holds the buffer's lock and compacts first. *)

Compacted == Without(notes, Stale(notes))
CompactIndexes ==
  dedups' = Unindexed(dedups, Stale(notes)) /\ supersedes' = Unindexed(supersedes, Stale(notes))

\* compact(), snapshot(), count().
Compact ==
  /\ Stale(notes) # {}
  /\ notes' = Compacted /\ CompactIndexes
  /\ UNCHANGED <<nextNote, handling, noteClock>>

\* A new note, on its surface and under its two keys.
Note(s, key, family) ==
  [on |-> s, dedup |-> key, replaces |-> family, seen |-> noteClock, status |-> "active"]

\* admit() of an occurrence that is known: its note is refreshed.
Coalesce(s, key) ==
  LET known == Unindexed(dedups, Stale(notes)) IN
  /\ <<s, key>> \in DOMAIN known
  /\ LET i == known[<<s, key>>] IN notes' = [Compacted EXCEPT ![i].seen = noteClock]
  /\ CompactIndexes
  /\ UNCHANGED <<nextNote, handling, noteClock>>

\* admit() of a new one: it supersedes, is indexed, the superseded note goes, and then
\* what is over the bounds.
AdmitNew(s, key, family) ==
  LET ds == Unindexed(dedups, Stale(notes))
      ss == Unindexed(supersedes, Stale(notes))
      id == nextNote + 1
      replaced == IF family # NoKey /\ <<s, family>> \in DOMAIN ss
                    THEN {ss[<<s, family>>]} \cap Active(Compacted) ELSE {}
      added == Put(Without(Compacted, replaced), id, Note(s, key, family))
      gone  == Overflow(added, s)
  IN
  /\ <<s, key>> \notin DOMAIN ds /\ nextNote < LastNote /\ nextNote' = id
  /\ notes' = Without(added, gone)
  /\ dedups' = Unindexed(Put(Without(ds, {<<s, Compacted[i].dedup>> : i \in replaced}),
                             <<s, key>>, id), gone)
  /\ supersedes' = Unindexed(IF family = NoKey THEN ss ELSE Put(ss, <<s, family>>, id),
                              replaced \cup gone)
  /\ UNCHANGED <<handling, noteClock>>

AdmitNote(s, key, family) == Coalesce(s, key) \/ AdmitNew(s, key, family)

\* mark_handled: the note stays, out of the indexes, until the next compaction.
MarkHandled(i) ==
  /\ IF i \notin Active(Compacted) THEN notes' = Compacted /\ CompactIndexes
     ELSE LET n == notes[i] IN
          /\ notes' = [Compacted EXCEPT ![i].status = "handled"]
          /\ dedups' = Without(Unindexed(dedups, Stale(notes)), {<<n.on, n.dedup>>})
          /\ supersedes' = Without(Unindexed(supersedes, Stale(notes)), {<<n.on, n.replaces>>})
  /\ UNCHANGED <<nextNote, noteClock>>
HandleNote(i) == i \in DOMAIN notes /\ MarkHandled(i) /\ UNCHANGED handling

\* mark_handled_by_key looks the note up, lets go of the lock, and marks it.
LookUpByKey(s, key) ==
  LET known == Unindexed(dedups, Stale(notes)) IN
  /\ handling = 0 /\ <<s, key>> \in DOMAIN known /\ handling' = known[<<s, key>>]
  /\ notes' = Compacted /\ CompactIndexes
  /\ UNCHANGED <<nextNote, noteClock>>
HandleLookedUp == handling # 0 /\ MarkHandled(handling) /\ handling' = 0

ClearSurface(s) ==
  LET gone == Stale(notes) \cup {i \in DOMAIN notes : notes[i].on = s} IN
  /\ gone # {} /\ notes' = Without(notes, gone)
  /\ dedups' = Unindexed(dedups, gone) /\ supersedes' = Unindexed(supersedes, gone)
  /\ UNCHANGED <<nextNote, handling, noteClock>>

NoteTick == noteClock < MaxNoteTime /\ noteClock' = noteClock + 1
            /\ UNCHANGED <<notes, dedups, supersedes, nextNote, handling>>

NoteNext ==
  \/ Compact \/ HandleLookedUp \/ NoteTick
  \/ \E i \in DOMAIN notes : HandleNote(i)
  \/ \E s \in Surfaces : ClearSurface(s) \/ \E k \in DedupKeys :
       LookUpByKey(s, k) \/ \E f \in SupersessionKeys \cup {NoKey} : AdmitNote(s, k, f)

NoteSpec == NoteInit /\ [][NoteNext]_noteVars

-----------------------------------------------------------------------------
(* What the buffer promises. *)

\* One note for one occurrence and for one state family of a surface: whatever was
\* coalesced, superseded, handled, evicted, cleared or expired in between, an active note
\* is found under its keys, so the next occurrence meets it (awareness.py:560-640, 908-918).
OneNotePerKey ==
  \A i \in Active(notes) :
    LET n == notes[i] IN
    /\ <<n.on, n.dedup>> \in DOMAIN dedups /\ dedups[<<n.on, n.dedup>>] = i
    /\ n.replaces # NoKey
         => \A j \in ActiveOn(notes, n.on) : notes[j].replaces = n.replaces => j = i
=============================================================================
