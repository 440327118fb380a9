----------------------- MODULE ConversationStoreProofs -----------------------
(***************************************************************************)
(* What the store keeps true for any number of processes, messages and     *)
(* crashes, proved of ConversationStore: the history that a Core works     *)
(* from is what a restart would load, an answered append is durable with   *)
(* its evidence, and the sequence numbers of a scope never have a gap.     *)
(***************************************************************************)
EXTENDS ConversationStore, FiniteSetTheorems, TLAPS

-----------------------------------------------------------------------------
(* The rows of a scope are its history. *)

Rows == [id : Ids, scope : Processes, seq : Nat]
Databases == [version : 0..1, tables : BOOLEAN, rows : SUBSET Rows, evidence : SUBSET Ids]

\* h is a history of p: messages of p, none of them twice.
IsHistory(p, h) ==
  h \in Seq(Ids) /\ IsInjective(h) /\ \A i \in 1..Len(h) : h[i][1] = p
Holds(d, p, h) == OfScope(d, p) = {Row(h[i], i) : i \in 1..Len(h)}
WellFormed(d) ==
  d \in Databases /\ \A p \in Processes : \E h : IsHistory(p, h) /\ Holds(d, p, h)

\* The history is what a restart loads, and its sequence numbers have no gap.
LEMMA HistoryIsLoaded ==
  ASSUME NEW d, NEW p, NEW h, IsHistory(p, h), Holds(d, p, h)
  PROVE  /\ Loaded(d, p) = h /\ Contiguous(d, p) /\ Cardinality(OfScope(d, p)) = Len(h)
         /\ {r.id : r \in OfScope(d, p)} = Range(h)
  <1> DEFINE row(i) == Row(h[i], i)
             mine == {row(i) : i \in 1..Len(h)}
  <1>1. OfScope(d, p) = mine /\ Len(h) \in Nat /\ DOMAIN h = 1..Len(h)
        /\ h = [i \in 1..Len(h) |-> h[i]]
    BY DEF Holds, IsHistory
  <1>2. \A i \in 1..Len(h) : row(i).id = h[i] /\ row(i).seq = i
    BY DEF Row
  <1> HIDE DEF row
  <1>3. Cardinality(mine) = Len(h)
    <2> DEFINE f == [i \in 1..Len(h) |-> row(i)]
    <2>1. f \in Bijection(1..Len(h), mine)
      BY <1>2 DEF Bijection, Injection, Surjection, IsInjective
    <2> HIDE DEF mine
    <2>2. ExistsBijection(1..Len(h), mine)
      BY <2>1 DEF ExistsBijection
    <2> QED BY <1>1, <2>2, FS_CountingElements
  <1>4. \A i \in 1..Len(h) : (CHOOSE r \in mine : r.seq = i) = row(i)
    <2> SUFFICES ASSUME NEW i \in 1..Len(h) PROVE (CHOOSE r \in mine : r.seq = i) = row(i)
      OBVIOUS
    <2>1. \A r \in mine : r.seq = i <=> r = row(i)
      BY <1>2
    <2>2. row(i) \in mine
      OBVIOUS
    <2> HIDE DEF mine
    <2> QED BY <2>1, <2>2
  <1>5. Loaded(d, p) = h
    <2> HIDE DEF mine
    <2>1. Loaded(d, p) = [i \in 1..Len(h) |-> (CHOOSE r \in mine : r.seq = i).id]
      BY <1>1, <1>3 DEF Loaded
    <2>2. \A i \in 1..Len(h) : (CHOOSE r \in mine : r.seq = i).id = h[i]
      BY <1>2, <1>4
    <2> QED BY <1>1, <2>1, <2>2
  <1>6. {r.seq : r \in mine} = 1..Len(h)
    BY <1>2
  <1>7. {r.id : r \in mine} = Range(h)
    BY <1>1, <1>2 DEF Range
  <1> HIDE DEF mine
  <1> QED BY <1>1, <1>3, <1>5, <1>6, <1>7 DEF Contiguous

\* What a well-formed database is, put in terms of what it loads.
LEMMA WellFormedLoads ==
  ASSUME NEW d, WellFormed(d), NEW p \in Processes
  PROVE  /\ IsHistory(p, Loaded(d, p)) /\ Holds(d, p, Loaded(d, p)) /\ Contiguous(d, p)
         /\ Cardinality(OfScope(d, p)) = Len(Loaded(d, p))
         /\ {r.id : r \in OfScope(d, p)} = Range(Loaded(d, p))
  <1>1. PICK h : IsHistory(p, h) /\ Holds(d, p, h)
    BY DEF WellFormed
  <1> QED BY <1>1, HistoryIsLoaded

\* What is loaded depends on the rows of the scope alone.
LEMMA LoadedOfScope ==
  ASSUME NEW d, NEW e, NEW p, OfScope(d, p) = OfScope(e, p)
  PROVE  Loaded(d, p) = Loaded(e, p)
  BY DEF Loaded

\* A new message goes to the end of its scope's history, and to no other.
LEMMA InsertAppends ==
  ASSUME NEW d, WellFormed(d), NEW p \in Processes, NEW id \in Ids, id[1] = p,
         id \notin {r.id : r \in d.rows}, NEW e \in Databases,
         e.rows = d.rows \cup {Row(id, Cardinality(OfScope(d, p)) + 1)}
  PROVE  /\ WellFormed(e) /\ Loaded(e, p) = Append(Loaded(d, p), id)
         /\ \A q \in Processes \ {p} : OfScope(e, q) = OfScope(d, q)
  <1> DEFINE h == Loaded(d, p)
             n == Len(h)
             g == Append(h, id)
             new == Row(id, n + 1)
  <1>1. /\ IsHistory(p, h) /\ Holds(d, p, h) /\ Cardinality(OfScope(d, p)) = n
        /\ {r.id : r \in OfScope(d, p)} = Range(h)
    BY WellFormedLoads
  <1>2. new.id = id /\ new.scope = p /\ new.seq = n + 1
    BY DEF Row
  <1>3. e.rows = d.rows \cup {new}
    BY <1>1
  <1>4. OfScope(e, p) = OfScope(d, p) \cup {new}
    BY <1>2, <1>3 DEF OfScope
  <1>5. \A q \in Processes \ {p} : OfScope(e, q) = OfScope(d, q)
    BY <1>2, <1>3 DEF OfScope
  <1> HIDE DEF h, new
  <1>6. /\ h \in Seq(Ids) /\ n \in Nat /\ DOMAIN h = 1..n /\ DOMAIN g = 1..(n + 1)
        /\ g \in Seq(Ids) /\ Len(g) = n + 1 /\ g[n + 1] = id
        /\ \A i \in 1..n : g[i] = h[i]
    BY <1>1 DEF IsHistory
  <1>7. id \notin Range(h)
    <2>1. {r.id : r \in OfScope(d, p)} \subseteq {r.id : r \in d.rows}
      BY DEF OfScope
    <2> QED BY <1>1, <2>1
  <1>8. \A i \in 1..(n + 1) : i = n + 1 \/ i \in 1..n
    BY <1>6
  <1> HIDE DEF g
  <1>9. IsHistory(p, g)
    <2>1. \A i \in 1..n : h[i] # id /\ h[i][1] = p
      BY <1>1, <1>6, <1>7 DEF Range, IsHistory
    <2>2. \A i, j \in 1..n : h[i] = h[j] => i = j
      BY <1>1, <1>6 DEF IsHistory, IsInjective
    <2>3. \A i, j \in 1..(n + 1) : g[i] = g[j] => i = j
      BY <1>6, <1>8, <2>1, <2>2
    <2>4. \A i \in 1..(n + 1) : g[i][1] = p
      BY <1>6, <1>8, <2>1, SMTT(30)
    <2> QED BY <1>6, <2>3, <2>4 DEF IsHistory, IsInjective
  <1>10. Holds(e, p, g)
    <2>1. {Row(g[i], i) : i \in 1..(n + 1)} = {Row(h[i], i) : i \in 1..n} \cup {new}
      <3>1. 1..(n + 1) = 1..n \cup {n + 1}
        BY <1>6
      <3> QED BY <1>6, <3>1 DEF new
    <2> QED BY <1>1, <1>4, <1>6, <2>1, Zenon DEF Holds
  <1>11. Loaded(e, p) = g
    BY <1>9, <1>10, HistoryIsLoaded
  <1>12. ASSUME NEW q \in Processes PROVE \E k : IsHistory(q, k) /\ Holds(e, q, k)
    <2>1. CASE q = p
      BY <1>9, <1>10, <2>1
    <2>2. CASE q # p
      <3>1. PICK k : IsHistory(q, k) /\ Holds(d, q, k)
        BY DEF WellFormed
      <3> QED BY <1>5, <2>2, <3>1 DEF Holds
    <2> QED BY <2>1, <2>2
  <1> QED BY <1>5, <1>11, <1>12 DEF WellFormed, g, h
-----------------------------------------------------------------------------
(* The invariant. *)

Remembering == {"open"} \cup Writing

StoreTyped ==
  /\ WellFormed(db) /\ WellFormed(draft)
  /\ writer \in Processes \cup {NoProcess}
  /\ at \in [Processes -> {"down", "open", "refused", "committed"} \cup Opening \cup Writing]
  /\ minted \in [Processes -> 0..MaxMessages]
  /\ appending \in [Processes -> Processes \X (0..MaxMessages)]
  /\ memory \in [Processes -> Seq(Ids)]
  /\ answered \subseteq Ids /\ deaths \in 0..MaxDeaths

\* Whoever is in a transaction holds the write lock.
WriterWrites ==
  \A p \in Processes : /\ at[p] \in Writing => writer = p
                       /\ writer = p => at[p] \in Writing \cup {"creating"}

\* The draft is the database and, past the insertion, the writer's own message.
DraftExtends ==
  writer # NoProcess =>
    LET id == appending[writer] IN
    /\ db.rows \subseteq draft.rows /\ db.evidence \subseteq draft.evidence
    /\ \A q \in Processes \ {writer} : OfScope(draft, q) = OfScope(db, q)
    /\ at[writer] \in {"begun", "creating"} => draft.rows = db.rows
    /\ at[writer] \in {"inserted", "proven"} =>
         \/ id \in Range(Loaded(db, writer)) /\ OfScope(draft, writer) = OfScope(db, writer)
         \/ /\ id \notin Range(Loaded(db, writer))
            /\ Loaded(draft, writer) = Append(Loaded(db, writer), id)
    /\ at[writer] = "proven" => id \in draft.evidence

\* What is appended is the process's own message, or one that is durable already.
AppendsOwn ==
  \A p \in Processes :
    /\ at[p] \in Writing \cup {"committed"} => appending[p] \in Ids
    /\ at[p] \in {"inserted", "proven", "committed"} => appending[p][1] = p
    /\ at[p] = "begun" => appending[p][1] = p \/ \E r \in db.rows : r.id = appending[p]

\* The Core's history is the durable one, but for the message it is about to take in.
MemoryFollows ==
  \A p \in Processes :
    /\ at[p] \in Remembering => memory[p] = Loaded(db, p)
    /\ at[p] = "committed" =>
         LET id == appending[p] IN
         /\ id \in Range(Loaded(db, p)) /\ id \in db.evidence
         /\ Loaded(db, p) = IF id \in Range(memory[p]) THEN memory[p] ELSE Append(memory[p], id)

AnsweredIsDurable == answered \subseteq {r.id : r \in db.rows} \cap db.evidence

StoreInv == /\ StoreTyped /\ WriterWrites /\ DraftExtends
            /\ AppendsOwn /\ MemoryFollows /\ AnsweredIsDurable
-----------------------------------------------------------------------------
(* Every step keeps it. *)

\* Membership in a sequence is membership in its range.
LEMMA ContainsIsInRange ==
  ASSUME NEW S, NEW s \in Seq(S), NEW x
  PROVE  Contains(s, x) <=> x \in Range(s)
  BY DEF Contains, Range

\* The stages are distinct.
LEMMA Stages ==
  /\ Opening = {"opening", "creating"} /\ Writing = {"begun", "inserted", "proven"}
  /\ Remembering = {"open", "begun", "inserted", "proven"}
  BY DEF Opening, Writing, Remembering

\* A database nobody has written to is well formed.
LEMMA EmptyIsWellFormed == WellFormed(EmptyDb)
  <1>1. \A p \in Processes : IsHistory(p, << >>) /\ Holds(EmptyDb, p, << >>)
    BY DEF IsHistory, Holds, OfScope, EmptyDb, IsInjective
  <1>2. EmptyDb \in Databases
    BY DEF EmptyDb, Databases
  <1> QED BY <1>1, <1>2 DEF WellFormed

\* A new data root satisfies the invariant.
LEMMA InitStoreInv == StoreInit => StoreInv
  <1> SUFFICES ASSUME StoreInit PROVE StoreInv
    OBVIOUS
  <1>1. /\ writer = NoProcess /\ NoProcess \notin Processes /\ at = [p \in Processes |-> "down"]
        /\ answered = {} /\ db = EmptyDb /\ draft = EmptyDb
        /\ MaxMessages \in Nat /\ MaxDeaths \in Nat
    BY StoreAssumption DEF StoreInit
  <1>2. StoreTyped
    BY <1>1, EmptyIsWellFormed DEF StoreInit, StoreTyped
  <1> QED BY <1>1, <1>2, Stages
         DEF StoreInv, WriterWrites, DraftExtends, AppendsOwn, MemoryFollows, AnsweredIsDurable

\* The committed database stays as it is, and so does every transaction but the ends of p's.
LEMMA FrameStoreInv ==
  ASSUME StoreInv, NEW p \in Processes, UNCHANGED <<db, appending, answered>>,
         NEW pc, at' = [at EXCEPT ![p] = pc],
         pc \in {"down", "open", "refused"} \cup Opening \/ (pc = at[p] /\ at[p] # "committed"),
         minted' \in [Processes -> 0..MaxMessages], deaths' \in 0..MaxDeaths,
         memory' \in [Processes -> Seq(Ids)], \A q \in Processes \ {p} : memory'[q] = memory[q],
         pc \in Remembering => memory'[p] = Loaded(db, p),
         \/ UNCHANGED <<writer, draft>> /\ (writer = p => pc = at[p])
         \/ writer' = NoProcess /\ draft' = EmptyDb /\ writer = p /\ pc \notin Writing
  PROVE  StoreInv'
  <1>1. StoreTyped'
    BY EmptyIsWellFormed, Stages DEF StoreInv, StoreTyped
  <1>2. WriterWrites'
    BY Stages, StoreAssumption DEF StoreInv, StoreTyped, WriterWrites
  <1>3. DraftExtends'
    <2>1. CASE UNCHANGED <<writer, draft>> /\ (writer = p => pc = at[p])
      <3>1. writer # NoProcess => at'[writer] = at[writer] /\ writer \in Processes
        BY <2>1 DEF StoreInv, StoreTyped
      <3> QED BY <2>1, <3>1 DEF StoreInv, DraftExtends
    <2>2. CASE writer' = NoProcess
      BY <2>2 DEF DraftExtends
    <2> QED BY <2>1, <2>2
  <1>4. AppendsOwn'
    BY Stages DEF StoreInv, StoreTyped, AppendsOwn
  <1>5. MemoryFollows'
    BY Stages DEF StoreInv, StoreTyped, MemoryFollows
  <1>6. AnsweredIsDurable'
    BY DEF StoreInv, AnsweredIsDurable
  <1> QED BY <1>1, <1>2, <1>3, <1>4, <1>5, <1>6 DEF StoreInv

\* The steps that end in no transaction and commit nothing.
LEMMA OutsideStoreInv ==
  ASSUME StoreInv, NEW p \in Processes,
         \/ StoreOpens(p) \/ HistoryLoads(p) \/ StatementFails(p) \/ LockIsTaken(p)
         \/ Dies(p) \/ OpensAgain(p)
  PROVE  StoreInv'
  <1>1. /\ at \in [Processes -> {"down", "open", "refused", "committed"} \cup Opening \cup Writing]
        /\ at = [at EXCEPT ![p] = at[p]] /\ minted \in [Processes -> 0..MaxMessages]
        /\ memory \in [Processes -> Seq(Ids)] /\ deaths \in 0..MaxDeaths
        /\ MaxMessages \in Nat /\ MaxDeaths \in Nat
    BY StoreAssumption DEF StoreInv, StoreTyped
  <1>2. /\ at[p] \in Writing => writer = p
        /\ writer = p => at[p] \in Writing \cup {"creating"}
    BY DEF StoreInv, WriterWrites
  <1>3. at[p] \in Remembering => memory[p] = Loaded(db, p)
    BY DEF StoreInv, MemoryFollows
  <1>4. IsHistory(p, Loaded(db, p)) /\ Loaded(db, p) \in Seq(Ids)
    BY WellFormedLoads DEF StoreInv, StoreTyped, IsHistory
  <1>5. CASE StoreOpens(p) \/ OpensAgain(p)
    <2>1. \E pc \in {"opening", "refused", "creating", "down"} : at' = [at EXCEPT ![p] = pc]
      BY <1>5 DEF StoreOpens, OpensAgain, Moves
    <2>2. UNCHANGED <<db, appending, answered, writer, draft, minted, deaths, memory>> /\ writer # p
      BY <1>2, <1>5, Stages DEF StoreOpens, OpensAgain
    <2> QED BY <1>1, <2>1, <2>2, Stages, FrameStoreInv
  <1>6. CASE HistoryLoads(p)
    <2>1. \/ /\ at' = [at EXCEPT ![p] = "open"] /\ memory' = [memory EXCEPT ![p] = Loaded(db, p)]
          \/ at' = [at EXCEPT ![p] = "refused"] /\ memory' = memory
      BY <1>6 DEF HistoryLoads, Moves
    <2>2. UNCHANGED <<db, appending, answered, writer, draft, minted, deaths>> /\ writer # p
      BY <1>2, <1>6, Stages DEF HistoryLoads
    <2>3. /\ memory' \in [Processes -> Seq(Ids)] /\ \A q \in Processes \ {p} : memory'[q] = memory[q]
          /\ at' = [at EXCEPT ![p] = "open"] => memory'[p] = Loaded(db, p)
      BY <1>1, <1>4, <2>1
    <2> QED BY <1>1, <2>1, <2>2, <2>3, Stages, FrameStoreInv
  <1>7. CASE StatementFails(p)
    <2>1. /\ \E pc \in {"refused", "open"} :
               at' = [at EXCEPT ![p] = pc] /\ (pc = "open" => at[p] \in Writing)
          /\ IF writer = p THEN writer' = NoProcess /\ draft' = EmptyDb ELSE UNCHANGED <<writer, draft>>
          /\ UNCHANGED <<db, appending, answered, minted, deaths, memory>>
      BY <1>7 DEF StatementFails, Moves, Rollback
    <2> QED BY <1>1, <1>3, <2>1, Stages, FrameStoreInv
  <1>8. CASE LockIsTaken(p)
    <2>1. /\ at' = [at EXCEPT ![p] = at[p]] /\ at[p] = "open"
          /\ minted' \in [Processes -> 0..MaxMessages]
          /\ UNCHANGED <<db, appending, answered, writer, draft, deaths, memory>>
      BY <1>1, <1>8 DEF LockIsTaken
    <2> QED BY <1>1, <1>3, <2>1, Stages, FrameStoreInv
  <1>9. CASE Dies(p)
    <2>1. /\ at' = [at EXCEPT ![p] = "down"] /\ memory' = [memory EXCEPT ![p] = << >>]
          /\ IF writer = p THEN writer' = NoProcess /\ draft' = EmptyDb ELSE UNCHANGED <<writer, draft>>
          /\ deaths' \in 0..MaxDeaths /\ UNCHANGED <<db, appending, answered, minted>>
      BY <1>1, <1>9 DEF Dies, Moves, Rollback
    <2>2. memory' \in [Processes -> Seq(Ids)] /\ \A q \in Processes \ {p} : memory'[q] = memory[q]
      BY <1>1, <2>1
    <2> QED BY <1>1, <2>1, <2>2, Stages, FrameStoreInv
  <1> QED BY <1>5, <1>6, <1>7, <1>8, <1>9

\* The schema is created and committed with whatever rows there are.
LEMMA SchemaStoreInv ==
  ASSUME StoreInv, NEW p \in Processes, CreateTables(p) \/ SchemaCommits(p)
  PROVE  StoreInv'
  <1>1. /\ at[p] = "creating" /\ p # NoProcess
        /\ UNCHANGED <<minted, appending, memory, answered, deaths>>
    BY StoreAssumption DEF CreateTables, SchemaCommits
  <1>2. WellFormed(db) /\ WellFormed(draft) /\ WriterWrites
    BY DEF StoreInv, StoreTyped
  <1>3. CASE CreateTables(p) /\ writer # p
    <2>1. writer = NoProcess /\ writer' = p /\ draft' = db /\ UNCHANGED <<db, at>>
      BY <1>3 DEF CreateTables, BeginImmediate
    <2>2. StoreTyped'
      BY <1>1, <1>2, <2>1 DEF StoreInv, StoreTyped
    <2>3. WriterWrites' /\ DraftExtends'
      BY <1>1, <1>2, <2>1, Stages, StoreAssumption DEF WriterWrites, DraftExtends
    <2>4. AppendsOwn' /\ MemoryFollows' /\ AnsweredIsDurable'
      BY <1>1, <2>1 DEF StoreInv, AppendsOwn, MemoryFollows, AnsweredIsDurable
    <2> QED BY <2>2, <2>3, <2>4 DEF StoreInv
  <1>4. CASE CreateTables(p) /\ writer = p /\ draft.tables
    <2>1. /\ at' = [at EXCEPT ![p] = "refused"] /\ writer' = NoProcess /\ draft' = EmptyDb
          /\ UNCHANGED db
      BY <1>4 DEF CreateTables, Rollback, Moves
    <2> QED BY <1>1, <1>4, <2>1, Stages, FrameStoreInv DEF StoreInv, StoreTyped
  <1>5. CASE CreateTables(p) /\ writer = p /\ ~draft.tables
    <2>1. draft' = [draft EXCEPT !.tables = TRUE, !.version = 1] /\ UNCHANGED <<writer, at, db>>
      BY <1>5 DEF CreateTables
    <2>2. draft' \in Databases /\ draft'.rows = draft.rows /\ draft'.evidence = draft.evidence
      <3>1. draft \in Databases
        BY <1>2 DEF WellFormed
      <3>2. draft' = [version |-> 1, tables |-> TRUE, rows |-> draft.rows, evidence |-> draft.evidence]
        BY <2>1, <3>1 DEF Databases
      <3>3. draft.rows \in SUBSET Rows /\ draft.evidence \in SUBSET Ids /\ 1 \in 0..1
        BY <3>1 DEF Databases
      <3> QED BY <3>2, <3>3 DEF Databases
    <2>3. WellFormed(draft')
      BY <1>2, <2>2, SMTT(30) DEF WellFormed, Holds, OfScope
    <2>4. \A q \in Processes : OfScope(draft', q) = OfScope(draft, q)
      BY <2>2 DEF OfScope
    <2>5. \A q \in Processes : Loaded(draft', q) = Loaded(draft, q)
      BY <2>4, LoadedOfScope
    <2>6. StoreTyped' /\ WriterWrites' /\ AppendsOwn' /\ MemoryFollows' /\ AnsweredIsDurable'
      BY <1>1, <1>2, <2>1, <2>3
         DEF StoreInv, StoreTyped, WriterWrites, AppendsOwn, MemoryFollows, AnsweredIsDurable
    <2>7. DraftExtends'
      BY <1>1, <1>5, <2>1, <2>2, <2>4 DEF StoreInv, DraftExtends
    <2> QED BY <2>6, <2>7 DEF StoreInv
  <1>6. CASE SchemaCommits(p)
    <2>1. /\ db' = draft /\ writer' = NoProcess /\ draft' = EmptyDb /\ writer = p
          /\ at' = [at EXCEPT ![p] = "opening"]
      BY <1>6 DEF SchemaCommits, Moves
    <2>2. db'.rows = db.rows /\ db.evidence \subseteq db'.evidence
      BY <1>1, <2>1 DEF StoreInv, DraftExtends
    <2>3. \A q \in Processes : OfScope(db', q) = OfScope(db, q)
      BY <2>2 DEF OfScope
    <2>4. \A q \in Processes : Loaded(db', q) = Loaded(db, q)
      BY <2>3, LoadedOfScope
    <2>5. StoreTyped'
      BY <1>1, <2>1, EmptyIsWellFormed, Stages DEF StoreInv, StoreTyped
    <2>6. WriterWrites' /\ DraftExtends'
      BY <1>1, <2>1, Stages, StoreAssumption DEF StoreInv, StoreTyped, WriterWrites, DraftExtends
    <2>7. AppendsOwn' /\ MemoryFollows' /\ AnsweredIsDurable'
      BY <1>1, <2>1, <2>2, <2>4, Stages
         DEF StoreInv, StoreTyped, AppendsOwn, MemoryFollows, AnsweredIsDurable
    <2> QED BY <2>5, <2>6, <2>7 DEF StoreInv
  <1> QED BY <1>3, <1>4, <1>5, <1>6

\* A transaction begins on a copy of the database.
LEMMA BeginsStoreInv ==
  ASSUME StoreInv, NEW p \in Processes, AppendBegins(p)
  PROVE  StoreInv'
  <1>1. /\ at[p] = "open" /\ at' = [at EXCEPT ![p] = "begun"] /\ p # NoProcess
        /\ writer = NoProcess /\ writer' = p /\ draft' = db
        /\ UNCHANGED <<db, memory, answered, deaths>>
    BY StoreAssumption DEF AppendBegins, BeginImmediate, Moves
  <1>2. /\ at \in [Processes -> {"down", "open", "refused", "committed"} \cup Opening \cup Writing]
        /\ appending \in [Processes -> Processes \X (0..MaxMessages)]
        /\ minted \in [Processes -> 0..MaxMessages] /\ db \in Databases /\ MaxMessages \in Nat
    BY StoreAssumption DEF StoreInv, StoreTyped, WellFormed
  <1>3. \E id \in Ids : /\ appending' = [appending EXCEPT ![p] = id]
                        /\ id[1] = p \/ \E r \in db.rows : r.id = id
    <2>1. CASE minted[p] < MaxMessages /\ appending' = [appending EXCEPT ![p] = <<p, minted[p] + 1>>]
      <3>1. minted[p] + 1 \in 1..MaxMessages
        BY <1>2, <2>1
      <3>2. <<p, minted[p] + 1>> \in Ids /\ <<p, minted[p] + 1>>[1] = p
        BY <3>1 DEF Ids
      <3> QED BY <2>1, <3>2
    <2>2. ASSUME NEW r \in db.rows, appending' = [appending EXCEPT ![p] = r.id]
          PROVE  r.id \in Ids
      BY <1>2 DEF Databases, Rows
    <2> QED BY <2>1, <2>2 DEF AppendBegins
  <1>4. /\ minted' \in [Processes -> 0..MaxMessages]
        /\ appending' \in [Processes -> Processes \X (0..MaxMessages)]
    <2>1. \A id \in Ids : id \in Processes \X (0..MaxMessages)
      BY <1>2 DEF Ids
    <2>2. \/ minted[p] < MaxMessages /\ minted' = [minted EXCEPT ![p] = @ + 1]
          \/ minted' = minted
      BY DEF AppendBegins
    <2>3. minted' \in [Processes -> 0..MaxMessages]
      BY <1>2, <2>2
    <2>4. PICK id \in Ids : appending' = [appending EXCEPT ![p] = id]
      BY <1>3
    <2>5. id \in Processes \X (0..MaxMessages)
      BY <2>1
    <2>6. appending' \in [Processes -> Processes \X (0..MaxMessages)]
      BY <1>2, <2>4, <2>5
    <2> QED BY <2>3, <2>6
  <1>5. StoreTyped'
    BY <1>1, <1>2, <1>4, Stages DEF StoreInv, StoreTyped
  <1>6. WriterWrites' /\ DraftExtends'
    BY <1>1, <1>2, Stages, StoreAssumption DEF StoreInv, WriterWrites, DraftExtends
  <1>7. AppendsOwn'
    BY <1>1, <1>2, <1>3, Stages DEF StoreInv, AppendsOwn
  <1>8. MemoryFollows' /\ AnsweredIsDurable'
    BY <1>1, <1>2, <1>3, Stages DEF StoreInv, MemoryFollows, AnsweredIsDurable
  <1> QED BY <1>5, <1>6, <1>7, <1>8 DEF StoreInv

\* The writer's transaction goes on: it has a place, and its draft extends the database.
LEMMA WriterStoreInv ==
  ASSUME StoreInv, NEW p \in Processes, at[p] \in Writing,
         NEW pc \in Writing, at' = [at EXCEPT ![p] = pc],
         UNCHANGED <<db, writer, minted, appending, memory, answered, deaths>>,
         WellFormed(draft'), DraftExtends',
         pc \in {"inserted", "proven"} => appending[p][1] = p, pc # "begun"
  PROVE  StoreInv'
  <1>1. StoreTyped'
    BY Stages DEF StoreInv, StoreTyped
  <1>2. WriterWrites'
    BY Stages DEF StoreInv, StoreTyped, WriterWrites
  <1>3. AppendsOwn'
    BY Stages DEF StoreInv, StoreTyped, AppendsOwn
  <1>4. MemoryFollows' /\ AnsweredIsDurable'
    BY Stages DEF StoreInv, StoreTyped, MemoryFollows, AnsweredIsDurable
  <1> QED BY <1>1, <1>2, <1>3, <1>4 DEF StoreInv

\* What the writer's process is about to append, in the terms of its scope.
LEMMA InsertsStoreInv ==
  ASSUME StoreInv, NEW p \in Processes, InsertsMessage(p)
  PROVE  StoreInv'
  <1> DEFINE id == appending[p]
             existing == {r \in draft.rows : r.id = id}
  <1>1. at[p] = "begun" /\ writer = p /\ p # NoProcess
    BY Stages, StoreAssumption DEF InsertsMessage, StoreInv, WriterWrites
  <1>2. /\ WellFormed(db) /\ WellFormed(draft) /\ draft.rows = db.rows
        /\ db.evidence \subseteq draft.evidence /\ draft \in Databases
    BY <1>1 DEF StoreInv, StoreTyped, DraftExtends, WellFormed
  <1>3. id \in Ids /\ (id[1] = p \/ existing # {})
    BY <1>1, <1>2, Stages DEF StoreInv, AppendsOwn
  <1>4. \A q \in Processes : OfScope(draft, q) = OfScope(db, q)
    BY <1>2 DEF OfScope
  <1>5. CASE \E r \in existing : r.scope # p
    <2>1. /\ at' = [at EXCEPT ![p] = "open"] /\ writer' = NoProcess /\ draft' = EmptyDb
          /\ UNCHANGED <<db, minted, appending, memory, answered, deaths>>
      BY <1>1, <1>5 DEF InsertsMessage, Moves, Rollback
    <2>2. memory[p] = Loaded(db, p)
      BY <1>1, Stages DEF StoreInv, MemoryFollows
    <2> QED BY <1>1, <2>1, <2>2, Stages, FrameStoreInv DEF StoreInv, StoreTyped
  <1>6. CASE \A r \in existing : r.scope = p
    <2>1. /\ at' = [at EXCEPT ![p] = "inserted"]
          /\ UNCHANGED <<db, writer, minted, appending, memory, answered, deaths>>
          /\ draft' = IF existing # {} THEN draft
                      ELSE [draft EXCEPT !.rows =
                              @ \cup {Row(id, Cardinality(OfScope(draft, p)) + 1)}]
      BY <1>6 DEF InsertsMessage, Moves
    <2>2. at'[p] = "inserted"
      BY <2>1 DEF StoreInv, StoreTyped
    <2>3. {r.id : r \in OfScope(db, p)} = Range(Loaded(db, p))
      BY <1>2, WellFormedLoads
    <2>4. CASE existing # {}
      <3>1. draft' = draft
        BY <2>1, <2>4
      <3>2. id \in Range(Loaded(db, p))
        BY <1>2, <1>6, <2>3, <2>4 DEF OfScope
      <3>3. id[1] = p
        <4>1. /\ IsHistory(p, Loaded(db, p)) /\ Loaded(db, p) \in Seq(Ids)
          BY <1>2, WellFormedLoads DEF IsHistory
        <4> QED BY <3>2, <4>1 DEF IsHistory, Range
      <3>4. DraftExtends'
        BY <1>1, <1>2, <1>4, <2>1, <2>2, <3>1, <3>2 DEF DraftExtends
      <3> QED BY <1>1, <1>2, <2>1, <3>1, <3>3, <3>4, Stages, WriterStoreInv
    <2>5. CASE existing = {}
      <3>1. id[1] = p /\ id \notin {r.id : r \in draft.rows}
        BY <1>3, <2>5
      <3> DEFINE new == Row(id, Cardinality(OfScope(draft, p)) + 1)
      <3>2. draft' = [draft EXCEPT !.rows = @ \cup {new}]
        BY <2>1, <2>5
      <3>3. new \in Rows
        <4>1. Cardinality(OfScope(draft, p)) = Len(Loaded(draft, p)) /\ Loaded(draft, p) \in Seq(Ids)
          BY <1>2, WellFormedLoads DEF IsHistory
        <4> QED BY <1>3, <3>1, <4>1 DEF Row, Rows
      <3> HIDE DEF new
      <3>4. draft' \in Databases /\ draft'.rows = draft.rows \cup {new} /\ draft'.evidence = draft.evidence
        BY <1>2, <3>2, <3>3 DEF Databases
      <3>5. /\ WellFormed(draft') /\ Loaded(draft', p) = Append(Loaded(draft, p), id)
            /\ \A q \in Processes \ {p} : OfScope(draft', q) = OfScope(draft, q)
        BY <1>2, <1>3, <3>1, <3>4, InsertAppends DEF new
      <3>6. Loaded(draft, p) = Loaded(db, p)
        BY <1>4, LoadedOfScope
      <3>7. id \notin Range(Loaded(db, p))
        BY <1>2, <2>3, <3>1 DEF OfScope
      <3>8. DraftExtends'
        BY <1>1, <1>2, <1>4, <2>1, <2>2, <3>4, <3>5, <3>6, <3>7 DEF DraftExtends
      <3> QED BY <1>1, <2>1, <3>1, <3>5, <3>8, Stages, WriterStoreInv
    <2> QED BY <2>4, <2>5
  <1> QED BY <1>5, <1>6

\* The evidence goes into the same transaction.
LEMMA ProvesStoreInv ==
  ASSUME StoreInv, NEW p \in Processes, EnsuresEvidence(p)
  PROVE  StoreInv'
  <1>1. /\ at[p] = "inserted" /\ writer = p /\ p # NoProcess /\ at' = [at EXCEPT ![p] = "proven"]
        /\ draft' = [draft EXCEPT !.evidence = @ \cup {appending[p]}]
        /\ UNCHANGED <<db, writer, minted, appending, memory, answered, deaths>>
    BY Stages, StoreAssumption DEF EnsuresEvidence, Moves, StoreInv, WriterWrites
  <1>2. appending[p] \in Ids /\ appending[p][1] = p /\ draft \in Databases /\ WellFormed(draft)
    BY <1>1, Stages DEF StoreInv, AppendsOwn, StoreTyped, WellFormed
  <1>3. /\ draft' \in Databases /\ draft'.rows = draft.rows
        /\ draft'.evidence = draft.evidence \cup {appending[p]}
    BY <1>1, <1>2 DEF Databases
  <1>4. \A q \in Processes : OfScope(draft', q) = OfScope(draft, q)
    BY <1>3 DEF OfScope
  <1>5. WellFormed(draft')
    BY <1>2, <1>3, <1>4 DEF WellFormed, Holds
  <1>6. Loaded(draft', p) = Loaded(draft, p)
    BY <1>4, LoadedOfScope
  <1>7. at'[p] = "proven"
    BY <1>1 DEF StoreInv, StoreTyped
  <1>8. DraftExtends'
    BY <1>1, <1>3, <1>4, <1>6, <1>7 DEF StoreInv, DraftExtends
  <1> QED BY <1>1, <1>2, <1>5, <1>8, Stages, WriterStoreInv

\* The draft becomes the database.
LEMMA CommitsStoreInv ==
  ASSUME StoreInv, NEW p \in Processes, AppendCommits(p)
  PROVE  StoreInv'
  <1> DEFINE id == appending[p]
  <1>1. /\ at[p] = "proven" /\ writer = p /\ p # NoProcess /\ at' = [at EXCEPT ![p] = "committed"]
        /\ db' = draft /\ writer' = NoProcess /\ draft' = EmptyDb
        /\ UNCHANGED <<minted, appending, memory, answered, deaths>>
    BY Stages, StoreAssumption DEF AppendCommits, Moves, StoreInv, WriterWrites
  <1>2. /\ WellFormed(db) /\ WellFormed(draft) /\ id \in Ids /\ id[1] = p
        /\ memory[p] = Loaded(db, p)
    BY <1>1, Stages DEF StoreInv, StoreTyped, AppendsOwn, MemoryFollows
  <1>3. /\ db.rows \subseteq db'.rows /\ db.evidence \subseteq db'.evidence /\ id \in db'.evidence
        /\ \A q \in Processes \ {p} : OfScope(db', q) = OfScope(db, q)
        /\ \/ id \in Range(Loaded(db, p)) /\ OfScope(db', p) = OfScope(db, p)
           \/ /\ id \notin Range(Loaded(db, p))
              /\ Loaded(db', p) = Append(Loaded(db, p), id)
    BY <1>1 DEF StoreInv, DraftExtends
  <1>4. \A q \in Processes \ {p} : Loaded(db', q) = Loaded(db, q)
    BY <1>3, LoadedOfScope
  <1>5. /\ id \in Range(Loaded(db', p))
        /\ Loaded(db', p) = IF id \in Range(memory[p]) THEN memory[p] ELSE Append(memory[p], id)
    <2>1. CASE id \in Range(Loaded(db, p)) /\ OfScope(db', p) = OfScope(db, p)
      <3>1. Loaded(db', p) = Loaded(db, p)
        BY <2>1, LoadedOfScope
      <3> QED BY <1>2, <2>1, <3>1
    <2>2. CASE id \notin Range(Loaded(db, p)) /\ Loaded(db', p) = Append(Loaded(db, p), id)
      <3>1. Loaded(db, p) \in Seq(Ids)
        BY <1>2, WellFormedLoads DEF IsHistory
      <3>2. /\ Append(Loaded(db, p), id)[Len(Loaded(db, p)) + 1] = id
            /\ Len(Loaded(db, p)) + 1 \in DOMAIN Append(Loaded(db, p), id)
        BY <1>2, <3>1
      <3>3. id \in Range(Append(Loaded(db, p), id))
        BY <3>2 DEF Range
      <3> QED BY <1>2, <2>2, <3>3
    <2> QED BY <1>3, <2>1, <2>2
  <1> HIDE DEF id
  <1>6. StoreTyped'
    BY <1>1, <1>2, EmptyIsWellFormed DEF StoreInv, StoreTyped
  <1>7. WriterWrites' /\ DraftExtends'
    BY <1>1, Stages, StoreAssumption DEF StoreInv, StoreTyped, WriterWrites, DraftExtends
  <1>8. AppendsOwn'
    BY <1>1, <1>2, <1>3, Stages DEF StoreInv, StoreTyped, AppendsOwn, id
  <1>9. AnsweredIsDurable'
    BY <1>1, <1>3 DEF StoreInv, AnsweredIsDurable
  <1>10. MemoryFollows'
    <2> SUFFICES ASSUME NEW q \in Processes
                 PROVE  /\ at'[q] \in Remembering => memory'[q] = Loaded(db', q)
                        /\ at'[q] = "committed" =>
                             LET x == appending'[q] IN
                             /\ x \in Range(Loaded(db', q)) /\ x \in db'.evidence
                             /\ Loaded(db', q) = IF x \in Range(memory'[q]) THEN memory'[q]
                                                 ELSE Append(memory'[q], x)
      BY DEF MemoryFollows
    <2>1. CASE q = p
      <3>1. at'[q] = "committed"
        BY <1>1, <2>1 DEF StoreInv, StoreTyped
      <3>2. appending'[p] = id /\ memory'[p] = memory[p] /\ "committed" \notin Remembering
        BY <1>1, Stages DEF id
      <3> QED BY <1>3, <1>5, <2>1, <3>1, <3>2
    <2>2. CASE q # p
      <3>1. at'[q] = at[q]
        BY <1>1, <2>2 DEF StoreInv, StoreTyped
      <3> QED BY <1>1, <1>3, <1>4, <2>2, <3>1 DEF StoreInv, MemoryFollows
    <2> QED BY <2>1, <2>2
  <1> QED BY <1>6, <1>7, <1>8, <1>9, <1>10 DEF StoreInv

\* The Core takes its message in, and its caller is answered.
LEMMA RemembersStoreInv ==
  ASSUME StoreInv, NEW p \in Processes, Remembers(p)
  PROVE  StoreInv'
  <1> DEFINE id == appending[p]
  <1>1. /\ at[p] = "committed" /\ at' = [at EXCEPT ![p] = "open"] /\ answered' = answered \cup {id}
        /\ memory' = [memory EXCEPT ![p] = IF Contains(@, id) THEN @ ELSE Append(@, id)]
        /\ UNCHANGED <<db, writer, draft, minted, appending, deaths>>
    BY DEF Remembers, Moves
  <1>2. /\ id \in Ids /\ id \in Range(Loaded(db, p)) /\ id \in db.evidence
        /\ Loaded(db, p) = IF id \in Range(memory[p]) THEN memory[p] ELSE Append(memory[p], id)
        /\ memory \in [Processes -> Seq(Ids)] /\ WellFormed(db) /\ writer # p
    BY <1>1, Stages DEF StoreInv, StoreTyped, AppendsOwn, MemoryFollows, WriterWrites
  <1>3. Contains(memory[p], id) <=> id \in Range(memory[p])
    BY <1>2, ContainsIsInRange
  <1>4. memory' = [memory EXCEPT ![p] = Loaded(db, p)]
    BY <1>1, <1>2, <1>3
  <1>5. Loaded(db, p) \in Seq(Ids) /\ {r.id : r \in OfScope(db, p)} = Range(Loaded(db, p))
    BY <1>2, WellFormedLoads DEF IsHistory
  <1>6. id \in {r.id : r \in db.rows}
    BY <1>2, <1>5 DEF OfScope
  <1> HIDE DEF id
  <1>7. StoreTyped'
    BY <1>1, <1>2, <1>4, <1>5 DEF StoreInv, StoreTyped
  <1>8. WriterWrites' /\ DraftExtends'
    BY <1>1, <1>2, Stages DEF StoreInv, StoreTyped, WriterWrites, DraftExtends
  <1>9. AppendsOwn' /\ MemoryFollows'
    BY <1>1, <1>2, <1>4, Stages DEF StoreInv, StoreTyped, AppendsOwn, MemoryFollows
  <1>10. AnsweredIsDurable'
    BY <1>1, <1>2, <1>6 DEF StoreInv, AnsweredIsDurable
  <1> QED BY <1>7, <1>8, <1>9, <1>10 DEF StoreInv

\* Every step of every process, a death in the middle of a transaction included,
\* keeps the invariant.
LEMMA NextStoreInv == StoreInv /\ [StoreNext]_storeVars => StoreInv'
  <1>1. ASSUME StoreInv, UNCHANGED storeVars PROVE StoreInv'
    BY <1>1 DEF storeVars, StoreInv, StoreTyped, WriterWrites, DraftExtends, AppendsOwn,
                MemoryFollows, AnsweredIsDurable
  <1> QED BY <1>1, OutsideStoreInv, SchemaStoreInv, BeginsStoreInv, InsertsStoreInv, ProvesStoreInv,
             CommitsStoreInv, RemembersStoreInv DEF StoreNext

\* What every reachable state of the store satisfies.
THEOREM StoreInvariant == StoreSpec => []StoreInv
  BY InitStoreInv, NextStoreInv, PTL DEF StoreSpec

\* The type invariant (StoreTypeOK).
THEOREM StoreTypeCorrect == StoreSpec => []StoreTypeOK
  <1>1. StoreInv => StoreTypeOK
    BY DEF StoreInv, StoreTyped, StoreTypeOK, WellFormed, Databases, Rows
  <1> QED BY <1>1, StoreInvariant, PTL

\* A Core works from the history that a restart would load, and an answered append is
\* durable with its evidence (MemoryIsDurable).
THEOREM MemoryStaysDurable == StoreSpec => []MemoryIsDurable
  <1>1. StoreInv => MemoryIsDurable
    BY Stages DEF StoreInv, MemoryFollows, AnsweredIsDurable, MemoryIsDurable
  <1> QED BY <1>1, StoreInvariant, PTL

\* The sequence numbers of a scope are without a gap, so that the check which
\* load_canonical_messages makes of them never refuses what the store itself has written.
THEOREM HistoriesHaveNoGap == StoreSpec => [](\A p \in Processes : Contiguous(db, p))
  <1>1. StoreInv => \A p \in Processes : Contiguous(db, p)
    BY WellFormedLoads DEF StoreInv, StoreTyped
  <1> QED BY <1>1, StoreInvariant, PTL
====
