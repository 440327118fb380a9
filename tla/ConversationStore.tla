-------------------------- MODULE ConversationStore --------------------------
(***************************************************************************)
(* Canonical messages and their evidence in one SQLite file                *)
(* (persistence.py), and the in-memory history each ConversationCore keeps *)
(* beside it (conversation.py).  Several processes open the file, each     *)
(* with a scope of its own; a process may die at any point and start       *)
(* again.                                                                  *)
(*                                                                         *)
(* SQLite is seen as: a transaction works on a draft of the database that  *)
(* becomes the database when it commits, one writer at a time, and every   *)
(* statement may fail.  A Core holds its lock from the append to the       *)
(* in-memory copy, so a process has one store operation under way.         *)
(***************************************************************************)
EXTENDS Naturals, Sequences, FiniteSets, SequencesExt

CONSTANTS
  Processes,    \* each runs a store and a Core over a scope of its own
  NoProcess,
  MaxMessages,  \* bound: messages a process appends
  MaxDeaths     \* bound: crashes

ASSUME StoreAssumption ==
  NoProcess \notin Processes /\ MaxMessages \in Nat /\ MaxDeaths \in Nat

VARIABLES
  db,      \* the committed database: its version, its tables and their rows
  writer,  \* who holds SQLite's write lock
  draft,   \* the writer's uncommitted database
  at,      \* where each process is
  minted,  \* the message ids a process has minted (uuid4)
  appending,\* the id each process is appending
  memory,  \* _canonical_messages of each process's Core
  answered,\* the messages whose append has returned to its caller
  deaths

storeVars == <<db, writer, draft, at, minted, appending, memory, answered, deaths>>

Ids == Processes \X (1..MaxMessages)
Row(id, seq) == [id |-> id, scope |-> id[1], seq |-> seq]
EmptyDb == [version |-> 0, tables |-> FALSE, rows |-> {}, evidence |-> {}]

\* load_canonical_messages: the rows of a scope in the order of sequence_no.
OfScope(d, p) == {r \in d.rows : r.scope = p}
Loaded(d, p) ==
  LET mine == OfScope(d, p)
  IN  [i \in 1..Cardinality(mine) |-> (CHOOSE r \in mine : r.seq = i).id]
Contiguous(d, p) == {r.seq : r \in OfScope(d, p)} = 1..Cardinality(OfScope(d, p))

Opening == {"opening", "creating"}
Writing == {"begun", "inserted", "proven"}

StoreTypeOK ==
  /\ db.version \in 0..1 /\ db.tables \in BOOLEAN
  /\ {r.id : r \in db.rows} \cup db.evidence \subseteq Ids
  /\ writer \in Processes \cup {NoProcess}
  /\ at \in [Processes -> {"down", "open", "refused", "committed"} \cup Opening \cup Writing]
  /\ minted \in [Processes -> 0..MaxMessages]
  /\ appending \in [Processes -> Processes \X (0..MaxMessages)]
  /\ answered \subseteq Ids /\ deaths \in 0..MaxDeaths
  /\ \A p \in Processes : memory[p] \in Seq(Ids)

StoreInit ==
  /\ db = EmptyDb /\ writer = NoProcess /\ draft = EmptyDb
  /\ at = [p \in Processes |-> "down"] /\ minted = [p \in Processes |-> 0]
  /\ appending = [p \in Processes |-> <<p, 0>>]
  /\ memory = [p \in Processes |-> <<>>] /\ answered = {} /\ deaths = 0

-----------------------------------------------------------------------------
Moves(p, pc) == at' = [at EXCEPT ![p] = pc]
BeginImmediate(p) == writer = NoProcess /\ writer' = p /\ draft' = db
Rollback(p) == IF writer = p THEN writer' = NoProcess /\ draft' = EmptyDb
               ELSE UNCHANGED <<writer, draft>>

\* _initialize_schema reads the version; with 0 it looks for tables before it creates any.
StoreOpens(p) ==
  /\ at[p] = "down"
  /\ Moves(p, IF db.version # 0 THEN "opening" ELSE IF db.tables THEN "refused" ELSE "creating")
  /\ UNCHANGED <<db, writer, draft, minted, appending, memory, answered, deaths>>

\* The statements of _CREATE_TABLES fail when another process has created them since.
CreateTables(p) ==
  /\ at[p] = "creating"
  /\ IF writer # p THEN BeginImmediate(p) /\ UNCHANGED at
     ELSE IF draft.tables THEN Rollback(p) /\ Moves(p, "refused")
     ELSE draft' = [draft EXCEPT !.tables = TRUE, !.version = 1] /\ UNCHANGED <<writer, at>>
  /\ UNCHANGED <<db, minted, appending, memory, answered, deaths>>
SchemaCommits(p) ==
  /\ at[p] = "creating" /\ writer = p /\ draft.version = 1 /\ db.version = 0
  /\ db' = draft /\ writer' = NoProcess /\ draft' = EmptyDb /\ Moves(p, "opening")
  /\ UNCHANGED <<minted, appending, memory, answered, deaths>>

\* The Core is built over the store and loads its scope's history.
HistoryLoads(p) ==
  /\ at[p] = "opening"
  /\ IF Contiguous(db, p) THEN memory' = [memory EXCEPT ![p] = Loaded(db, p)] /\ Moves(p, "open")
     ELSE Moves(p, "refused") /\ UNCHANGED memory
  /\ UNCHANGED <<db, writer, draft, minted, appending, answered, deaths>>

-----------------------------------------------------------------------------
AppendRemembered(p) ==
  /\ at[p] = "open" /\ BeginImmediate(p) /\ Moves(p, "begun")
  /\ minted[p] < MaxMessages /\ minted' = [minted EXCEPT ![p] = @ + 1]
  /\ appending' = [appending EXCEPT ![p] = <<p, minted[p] + 1>>]
  /\ memory' = [memory EXCEPT ![p] = Append(@, <<p, minted[p] + 1>>)]
  /\ UNCHANGED <<db, answered, deaths>>
\* prepare_turn or commit_assistant appends a message under an id of its own.  Another
\* caller of the store may append one again that is durable, here or in another scope.
AppendBegins(p) ==
  /\ at[p] = "open" /\ BeginImmediate(p) /\ Moves(p, "begun")
  /\ \/ /\ minted[p] < MaxMessages /\ minted' = [minted EXCEPT ![p] = @ + 1]
        /\ appending' = [appending EXCEPT ![p] = <<p, minted[p] + 1>>]
     \/ \E r \in db.rows :
          appending' = [appending EXCEPT ![p] = r.id] /\ UNCHANGED minted
  /\ UNCHANGED <<db, memory, answered, deaths>>

\* _append_message: a replay returns the message of this scope and conflicts with another
\* one's; a new message gets COALESCE(MAX(sequence_no), 0) + 1 within the transaction.
InsertsMessage(p) ==
  LET existing == {r \in draft.rows : r.id = appending[p]} IN
  /\ at[p] = "begun"
  /\ IF \E r \in existing : r.scope # p THEN Moves(p, "open") /\ Rollback(p)
     ELSE /\ Moves(p, "inserted") /\ UNCHANGED writer
          /\ draft' = IF existing # {} THEN draft
                      ELSE [draft EXCEPT !.rows =
                              @ \cup {Row(appending[p], Cardinality(OfScope(draft, p)) + 1)}]
  /\ UNCHANGED <<db, minted, appending, memory, answered, deaths>>

\* _ensure_evidence, in the same transaction.
EnsuresEvidence(p) ==
  /\ at[p] = "inserted" /\ Moves(p, "proven")
  /\ draft' = [draft EXCEPT !.evidence = @ \cup {appending[p]}]
  /\ UNCHANGED <<db, writer, minted, appending, memory, answered, deaths>>

AppendCommits(p) ==
  /\ at[p] = "proven" /\ Moves(p, "committed")
  /\ db' = draft /\ writer' = NoProcess /\ draft' = EmptyDb
  /\ UNCHANGED <<minted, appending, memory, answered, deaths>>

\* The Core takes its own message into its history; the caller is answered.
Remembers(p) ==
  LET id == appending[p] IN
  /\ at[p] = "committed" /\ Moves(p, "open")
  /\ memory' = [memory EXCEPT ![p] = IF Contains(@, id) THEN @ ELSE Append(@, id)]
  /\ answered' = answered \cup {id}
  /\ UNCHANGED <<db, writer, draft, minted, appending, deaths>>

\* A statement fails, or BEGIN finds the lock taken for busy_timeout: rolled back, and
\* raised.  A store that cannot be opened closes its connection.
StatementFails(p) ==
  /\ at[p] \in Opening \cup Writing
  /\ Moves(p, IF at[p] \in Opening THEN "refused" ELSE "open") /\ Rollback(p)
  /\ UNCHANGED <<db, minted, appending, memory, answered, deaths>>
LockIsTaken(p) ==
  /\ at[p] = "open" /\ writer # NoProcess
  /\ minted[p] < MaxMessages /\ minted' = [minted EXCEPT ![p] = @ + 1]
  /\ UNCHANGED <<db, writer, draft, at, appending, memory, answered, deaths>>

\* The process dies: SQLite drops its transaction, its memory is gone.
Dies(p) ==
  /\ at[p] # "down" /\ deaths < MaxDeaths /\ deaths' = deaths + 1
  /\ Moves(p, "down") /\ Rollback(p) /\ memory' = [memory EXCEPT ![p] = <<>>]
  /\ UNCHANGED <<db, minted, appending, answered>>

\* A refused opener tries again.
OpensAgain(p) ==
  /\ at[p] = "refused" /\ Moves(p, "down")
  /\ UNCHANGED <<db, writer, draft, minted, appending, memory, answered, deaths>>

StoreNext ==
  \E p \in Processes :
    \/ StoreOpens(p) \/ CreateTables(p) \/ SchemaCommits(p) \/ HistoryLoads(p)
    \/ AppendBegins(p) \/ InsertsMessage(p) \/ EnsuresEvidence(p) \/ AppendCommits(p)
    \/ Remembers(p) \/ StatementFails(p) \/ LockIsTaken(p) \/ Dies(p) \/ OpensAgain(p)

StoreSpec == StoreInit /\ [][StoreNext]_storeVars

-----------------------------------------------------------------------------
(* What the store promises. *)

\* The history a Core works from is what a restart would load, and every answered append
\* survives with its evidence: failed writes leave no trace, and nothing is remembered
\* that is not durable (conversation.py:842-856, 1077-1092).
MemoryIsDurable ==
  /\ \A p \in Processes : at[p] \in {"open"} \cup Writing => memory[p] = Loaded(db, p)
  /\ answered \subseteq {r.id : r \in db.rows} \cap db.evidence
=============================================================================
