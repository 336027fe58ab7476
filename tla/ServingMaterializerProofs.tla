--------------------- MODULE ServingMaterializerProofs ---------------------
(***************************************************************************)
(* Theorems about the materializers and the tables they fill.              *)
(*                                                                         *)
(* About ServingMaterializer: for any tables, partitions, records and      *)
(* commits, any deployment and any number of faults.                       *)
(*                                                                         *)
(* About ServingTables: for any requests, files, events, numbers, tenants  *)
(* and bounds.  The rows that the materializer derives are compared with   *)
(* those of the SQL of a backfill, reader by reader and rule by rule, and  *)
(* the current states are followed through loads, backfills and merges.    *)
(***************************************************************************)
EXTENDS ServingMaterializer, ServingTables, FiniteSetTheorems, TLAPS

-----------------------------------------------------------------------------
(* Type correctness. *)

Busy == {"rows", "record", "watermark", "versions"}

LEMMA TablesAreNumbered == EventsTable \in Tables /\ Tables \subseteq 0 .. NumTables
BY SizesAssumption DEF Tables, EventsTable

LEMMA SequenceNumbers ==
  /\ \A s \in Snapshots : SequenceNumber(s) \in Nat
  /\ \A n \in Nat : Iceberg(n) \in Snapshots /\ SequenceNumber(Iceberg(n)) = n
  /\ NoSnapshot \notin Snapshots
<1>1. ASSUME NEW s \in Snapshots PROVE SequenceNumber(s) \in Nat
  <2>1. PICK k \in {"kafka", "iceberg"}, a \in Nat, b \in Nat : s = <<k, a, b>>
    BY DEF Snapshots
  <2>2. OffsetSpan \in Nat \ {0}
    BY SizesAssumption
  <2>3. b % OffsetSpan \in Nat /\ a * OffsetSpan \in Nat
    BY <2>2
  <2>4. QED
    BY <2>1, <2>3 DEF SequenceNumber
<1>2. QED
  BY <1>1 DEF Snapshots, Iceberg, SequenceNumber, NoSnapshot

LEMMA SettingsType ==
  ASSUME deployment \in Deployments
  PROVE  /\ deployment.writers \subseteq Writers /\ deployment.from \in [Writers -> Nat]
         /\ deployment.derived \in BOOLEAN /\ deployment.remembered \in Nat
         /\ deployment.derived \/ RebuildRaw
BY DeploymentsAssumption

\* What a rebuild writes and marks.
LEMMA RebuildTables ==
  ASSUME deployment \in Deployments
  PROVE  /\ RebuildTargets \subseteq Tables /\ RebuildInserts \subseteq 0 .. NumTables
         /\ RebuildTargets \subseteq RebuildInserts
            \/ (0 \in RebuildInserts /\ RebuildTargets = {EventsTable})
BY SettingsType, TablesAreNumbered, SizesAssumption DEF RebuildTargets, RebuildInserts

LEMMA InitType == Init => TypeOK
<1> SUFFICES ASSUME Init PROVE TypeOK
  OBVIOUS
<1>1. PICK added \in SUBSET Tables :
        /\ rows = [t \in Tables |-> IF t \in added THEN {}
                     ELSE {<<Iceberg(n), "incremental">> : n \in 1 .. lake}]
        /\ watermark = [t \in Tables |-> IF t \in added THEN 0 ELSE lake]
        /\ recorded = IF added = Tables THEN {} ELSE {Iceberg(n) : n \in 1 .. lake}
  BY DEF Init
<1>2. lake \in 0 .. MaxCommits /\ lake \in Nat
  BY SizesAssumption, SettingsType DEF Init
<1>3. {<<Iceberg(n), "incremental">> : n \in 1 .. lake} \subseteq Snapshots \X (Writers \cup {"raw"})
  BY <1>2, SequenceNumbers DEF Writers
<1>4. {Iceberg(n) : n \in 1 .. lake} \subseteq Snapshots
  BY <1>2, SequenceNumbers
<1>5. rows \in [Tables -> SUBSET (Snapshots \X (Writers \cup {"raw"}))]
  BY <1>1, <1>3
<1>6. watermark \in [Tables -> Nat] /\ recorded \subseteq Snapshots /\ versions \subseteq Snapshots
  BY <1>1, <1>2, <1>4 DEF Init
<1>7. /\ log \in [Partitions -> Seq(Messages)]
      /\ committed \in [Partitions -> Nat] /\ position \in [Partitions -> Nat]
      /\ \A p \in Partitions : committed[p] \in 0 .. Len(log[p]) /\ position[p] \in 0 .. Len(log[p])
  BY DEF Init
<1>8. /\ pc \in [Writers -> {"idle", "marks", "next", "rows", "record", "watermark", "versions",
                              "commit"}]
      /\ cur \in [Writers -> Snapshots \cup {NoSnapshot}]
      /\ \A w \in Writers : pc[w] = "idle" /\ cur[w] = NoSnapshot
      /\ targets \in [Writers -> SUBSET Tables]
      /\ todo \in [Writers -> SUBSET (0 .. NumTables)]
      /\ pending \in [Writers -> SUBSET (1 .. MaxCommits)]
      /\ marks \in [Tables -> Nat]
      /\ current = NoMessage
      /\ deployment \in Deployments
  BY DEF Init
<1>9. "tableflow" \in Writers
  BY DEF Writers
<1>10. QED
  BY <1>2, <1>5, <1>6, <1>7, <1>8, <1>9 DEF TypeOK

\* What an error leaves.
LEMMA StopType ==
  ASSUME TypeOK, NEW w \in Writers, Stop(w)
  PROVE  /\ pc' = [pc EXCEPT ![w] = "idle"] /\ pc' \in [Writers -> {"idle", "marks", "next", "rows", "record", "watermark", "versions", "commit"}]
         /\ cur'[w] = NoSnapshot
         /\ \A v \in Writers : v # w => cur'[v] = cur[v]
         /\ cur' \in [Writers -> Snapshots \cup {NoSnapshot}]
         /\ \A v \in Writers : cur'[v] # NoSnapshot <=> pc'[v] \in {"rows", "record", "watermark", "versions"}
         /\ targets' \in [Writers -> SUBSET Tables]
         /\ todo' \in [Writers -> SUBSET (0 .. NumTables)]
         /\ pending' \in [Writers -> SUBSET (1 .. MaxCommits)]
BY DEF TypeOK, Stop, Goto

\* An error of writer w keeps the types of what it changes.
LEMMA FailsType ==
  ASSUME TypeOK, NEW w \in Writers, Fails(w), UNCHANGED <<position, committed, log>>
  PROVE  /\ current' \in (Partitions \X Nat) \cup {NoMessage}
         /\ current' # NoMessage => position'[current'[1]] = current'[2] + 1
         /\ current' # NoMessage <=>
              pc'["tableflow"] \in {"rows", "record", "watermark", "versions", "commit"}
<1>1. pc' = [pc EXCEPT ![w] = "idle"]
  BY StopType DEF Fails
<1>2. CASE w = "tableflow"
  BY <1>1, <1>2 DEF Fails, TypeOK
<1>3. CASE w # "tableflow"
  <2>1. current' = current /\ pc'["tableflow"] = pc["tableflow"]
    BY <1>1, <1>3 DEF Fails, TypeOK
  <2>2. QED
    BY <2>1 DEF TypeOK
<1>4. QED
  BY <1>2, <1>3

LEMMA ProduceType ==
  ASSUME TypeOK, NEW p \in Partitions, Produce(p)
  PROVE  TypeOK'
<1>1. PICK m \in Messages : log' = [log EXCEPT ![p] = Append(@, m)]
  BY DEF Produce
<1>2. log' \in [Partitions -> Seq(Messages)]
  BY <1>1 DEF TypeOK
<1>3. \A q \in Partitions : Len(log[q]) \in Nat /\ Len(log'[q]) \in Nat /\ Len(log[q]) <= Len(log'[q])
  BY <1>1 DEF TypeOK
<1>4. \A q \in Partitions : committed'[q] \in 0 .. Len(log'[q]) /\ position'[q] \in 0 .. Len(log'[q])
  <2>1. UNCHANGED <<committed, position>>
    BY DEF Produce
  <2>2. QED
    BY <1>3, <2>1 DEF TypeOK
<1>5. UNCHANGED <<deployment, committed, position, current, lake, rows, recorded, watermark,
                  versions, pc, cur, targets, todo, pending, marks>>
  BY DEF Produce, serving, work
<1>6. QED
  BY <1>2, <1>4, <1>5 DEF TypeOK

\* What a writer starts.
LEMMA StartType ==
  ASSUME TypeOK, NEW w \in Writers, NEW s \in Snapshots, NEW ts \in SUBSET Tables,
         NEW what \in SUBSET (0 .. NumTables), Start(w, s, ts, what)
  PROVE  /\ pc' \in [Writers -> {"idle", "marks", "next", "rows", "record", "watermark",
                                 "versions", "commit"}]
         /\ cur' \in [Writers -> Snapshots \cup {NoSnapshot}]
         /\ \A v \in Writers : cur'[v] # NoSnapshot <=>
              pc'[v] \in {"rows", "record", "watermark", "versions"}
         /\ targets' \in [Writers -> SUBSET Tables]
         /\ todo' \in [Writers -> SUBSET (0 .. NumTables)]
BY SequenceNumbers DEF TypeOK, Start, Goto

LEMMA ReceiveType ==
  ASSUME TypeOK, NEW p \in Partitions, ReceiveBatch(p)
  PROVE  TypeOK'
<1> DEFINE m == <<p, position[p]>>
<1>1. "tableflow" \in Writers
  BY DEF Writers
<1>2. /\ m \in Partitions \X Nat /\ m # NoMessage
      /\ position' = [position EXCEPT ![p] = @ + 1]
      /\ position' \in [Partitions -> Nat] /\ position'[p] = m[2] + 1
      /\ \A q \in Partitions : position'[q] \in 0 .. Len(log[q])
  BY PartitionsAssumption DEF ReceiveBatch, TypeOK, NoMessage
<1>3. Record(m) \in Messages
  BY DEF Record, ReceiveBatch, TypeOK
<1>4. UNCHANGED <<deployment, log, committed, lake, rows, recorded, watermark, versions, pending,
                  marks>>
  BY DEF ReceiveBatch, serving
<1>5. current = NoMessage /\ pc["tableflow"] = "idle"
  BY DEF ReceiveBatch, TypeOK
<1>6. CASE UNCHANGED <<current, pc, cur, targets, todo>>
  BY <1>2, <1>4, <1>5, <1>6 DEF TypeOK
<1>7. CASE current' = m /\ Goto("tableflow", "commit") /\ UNCHANGED <<cur, targets, todo>>
  <2>1. /\ pc' = [pc EXCEPT !["tableflow"] = "commit"]
        /\ pc' \in [Writers -> {"idle", "marks", "next", "rows", "record", "watermark",
                                "versions", "commit"}]
        /\ pc'["tableflow"] = "commit"
        /\ \A v \in Writers : cur'[v] # NoSnapshot <=>
             pc'[v] \in {"rows", "record", "watermark", "versions"}
    BY <1>1, <1>5, <1>7 DEF Goto, TypeOK
  <2>2. QED
    BY <1>2, <1>4, <1>7, <2>1 DEF TypeOK
<1>8. CASE current' = m /\ Start("tableflow", Record(m).snapshot, Tables, Tables)
  <2>1. Record(m).snapshot \in Snapshots
    BY <1>3, MessagesAssumption DEF Snapshots
  <2>2. pc'["tableflow"] = "rows"
    BY <1>1, <1>8 DEF Start, Goto, TypeOK
  <2>3. Tables \in SUBSET (0 .. NumTables)
    BY TablesAreNumbered
  <2>4. QED
    BY <1>1, <1>2, <1>4, <1>8, <2>1, <2>2, <2>3, StartType DEF TypeOK
<1>9. QED
  BY <1>6, <1>7, <1>8 DEF ReceiveBatch

\* The steps that select commits.
LEMMA SelectType ==
  ASSUME TypeOK, ReadCommits \/ ReadWatermarks \/ SelectCommit \/ StartRebuild \/ RebuildCommit
  PROVE  TypeOK'
<1>1. {"tableflow", "incremental", "rebuild"} = Writers
  BY DEF Writers
<1>2. UNCHANGED <<deployment, log, committed, position, current, lake, rows, recorded, watermark,
                  versions>>
  BY DEF ReadCommits, ReadWatermarks, SelectCommit, StartRebuild, RebuildCommit, kafka, serving
<1>3. \A w \in Writers : Commits(w) \subseteq 1 .. MaxCommits
  BY SizesAssumption DEF TypeOK, Commits
<1>4. ASSUME NEW w \in {"incremental", "rebuild"}, NEW step \in {"marks", "next", "idle"}, Goto(w, step),
             pc[w] \in {"idle", "marks", "next"}, UNCHANGED <<cur, targets, todo>>,
             pending' \in [Writers -> SUBSET (1 .. MaxCommits)], marks' \in [Tables -> Nat]
      PROVE  TypeOK'
  <2>1. /\ pc' \in [Writers -> {"idle", "marks", "next", "rows", "record", "watermark",
                                "versions", "commit"}]
        /\ pc'["tableflow"] = pc["tableflow"]
        /\ \A v \in Writers : cur'[v] # NoSnapshot <=>
             pc'[v] \in {"rows", "record", "watermark", "versions"}
    BY <1>1, <1>4 DEF Goto, TypeOK
  <2>2. QED
    BY <1>2, <1>4, <2>1 DEF TypeOK
<1>5. ASSUME NEW w \in {"incremental", "rebuild"}, NEW n \in pending[w], NEW ts \in SUBSET Tables,
             NEW what \in SUBSET (0 .. NumTables), Start(w, Iceberg(n), ts, what),
             pending' \in [Writers -> SUBSET (1 .. MaxCommits)], UNCHANGED marks
      PROVE  TypeOK'
  <2>1. Iceberg(n) \in Snapshots
    BY <1>1, SequenceNumbers DEF TypeOK
  <2>2. pc'["tableflow"] = pc["tableflow"]
    BY <1>1, <1>5 DEF Start, Goto, TypeOK
  <2>3. QED
    BY <1>1, <1>2, <1>5, <2>1, <2>2, StartType DEF TypeOK
<1>6. CASE ReadCommits
  <2>1. pending' \in [Writers -> SUBSET (1 .. MaxCommits)]
    BY <1>3, <1>6 DEF ReadCommits, TypeOK
  <2>2. /\ Goto("incremental", "marks") /\ pc["incremental"] = "idle"
        /\ UNCHANGED <<cur, targets, todo, marks>>
    BY <1>6 DEF ReadCommits
  <2>3. marks' \in [Tables -> Nat]
    BY <2>2 DEF TypeOK
  <2>4. QED
    BY <1>4, <2>1, <2>2, <2>3
<1>7. CASE StartRebuild
  <2>1. pending' \in [Writers -> SUBSET (1 .. MaxCommits)]
    BY <1>3, <1>7 DEF StartRebuild, TypeOK
  <2>2. /\ Goto("rebuild", "next") /\ pc["rebuild"] = "idle"
        /\ UNCHANGED <<cur, targets, todo, marks>>
    BY <1>7 DEF StartRebuild
  <2>3. marks' \in [Tables -> Nat]
    BY <2>2 DEF TypeOK
  <2>4. QED
    BY <1>4, <2>1, <2>2, <2>3
<1>8. CASE ReadWatermarks
  <2>1. /\ Goto("incremental", "next") /\ pc["incremental"] = "marks"
        /\ UNCHANGED <<cur, targets, todo, pending>> /\ marks' = watermark
    BY <1>8 DEF ReadWatermarks
  <2>2. /\ marks' \in [Tables -> Nat]
        /\ pending' \in [Writers -> SUBSET (1 .. MaxCommits)]
    BY <2>1 DEF TypeOK
  <2>3. QED
    BY <1>4, <2>1, <2>2
<1>9. CASE SelectCommit
  <2>1. pending' \in [Writers -> SUBSET (1 .. MaxCommits)]
    <3>1. \/ pending' = [pending EXCEPT !["incremental"] = {}] \/ UNCHANGED pending
          \/ \E n \in pending["incremental"] : pending' = [pending EXCEPT !["incremental"] = @ \ (1 .. n)]
      BY <1>9 DEF SelectCommit, Lagging
    <3>2. CASE pending' = [pending EXCEPT !["incremental"] = {}] \/ UNCHANGED pending
      BY <1>1, <3>2 DEF TypeOK
    <3>3. ASSUME NEW n \in pending["incremental"], pending' = [pending EXCEPT !["incremental"] = @ \ (1 .. n)]
          PROVE  pending' \in [Writers -> SUBSET (1 .. MaxCommits)]
      <4>1. pending["incremental"] \ (1 .. n) \in SUBSET (1 .. MaxCommits)
        BY <1>1 DEF TypeOK
      <4>2. pending \in [Writers -> SUBSET (1 .. MaxCommits)]
        BY DEF TypeOK
      <4>3. QED
        BY <3>3, <4>1, <4>2
    <3>4. QED
      BY <3>1, <3>2, <3>3
  <2>2. CASE Goto("incremental", "idle") /\ UNCHANGED <<cur, targets, todo>>
    <3>1. pc["incremental"] = "next" /\ UNCHANGED marks
      BY <1>9 DEF SelectCommit
    <3>2. marks' \in [Tables -> Nat]
      BY <3>1 DEF TypeOK
    <3>3. QED
      BY <1>4, <2>1, <2>2, <3>1, <3>2
  <2>3. ASSUME NEW n \in Lagging, Start("incremental", Iceberg(n), TargetsFor(n), TargetsFor(n))
        PROVE  TypeOK'
    <3>1. n \in pending["incremental"] /\ TargetsFor(n) \in SUBSET Tables
      BY DEF Lagging, TargetsFor
    <3>2. TargetsFor(n) \in SUBSET (0 .. NumTables)
      BY <3>1, TablesAreNumbered
    <3>3. UNCHANGED marks
      BY <1>9 DEF SelectCommit
    <3>4. QED
      BY <1>5, <2>1, <2>3, <3>1, <3>2, <3>3
  <2>4. QED
    BY <1>9, <2>2, <2>3 DEF SelectCommit
<1>10. CASE RebuildCommit
  <2>1. pending' \in [Writers -> SUBSET (1 .. MaxCommits)]
    <3>1. \/ pending' = [pending EXCEPT !["rebuild"] = {}] \/ UNCHANGED pending
          \/ \E n \in pending["rebuild"] : pending' = [pending EXCEPT !["rebuild"] = @ \ ({n})]
      BY <1>10 DEF RebuildCommit, Lagging
    <3>2. CASE pending' = [pending EXCEPT !["rebuild"] = {}] \/ UNCHANGED pending
      BY <1>1, <3>2 DEF TypeOK
    <3>3. ASSUME NEW n \in pending["rebuild"], pending' = [pending EXCEPT !["rebuild"] = @ \ ({n})]
          PROVE  pending' \in [Writers -> SUBSET (1 .. MaxCommits)]
      <4>1. pending["rebuild"] \ ({n}) \in SUBSET (1 .. MaxCommits)
        BY <1>1 DEF TypeOK
      <4>2. pending \in [Writers -> SUBSET (1 .. MaxCommits)]
        BY DEF TypeOK
      <4>3. QED
        BY <3>3, <4>1, <4>2
    <3>4. QED
      BY <3>1, <3>2, <3>3
  <2>2. CASE Goto("rebuild", "idle") /\ UNCHANGED <<cur, targets, todo>>
    <3>1. pc["rebuild"] = "next" /\ UNCHANGED marks
      BY <1>10 DEF RebuildCommit
    <3>2. marks' \in [Tables -> Nat]
      BY <3>1 DEF TypeOK
    <3>3. QED
      BY <1>4, <2>1, <2>2, <3>1, <3>2
  <2>3. ASSUME NEW n \in pending["rebuild"], Start("rebuild", Iceberg(n), RebuildTargets, RebuildInserts)
        PROVE  TypeOK'
    <3>1. RebuildTargets \in SUBSET Tables /\ RebuildInserts \in SUBSET (0 .. NumTables)
      BY RebuildTables DEF TypeOK
    <3>2. UNCHANGED marks
      BY <1>10 DEF RebuildCommit
    <3>3. QED
      BY <1>5, <2>1, <2>3, <3>1, <3>2
  <2>4. QED
    BY <1>10, <2>2, <2>3 DEF RebuildCommit
<1>11. QED
  BY <1>6, <1>7, <1>8, <1>9, <1>10

\* A statement fails, with or without effect.
LEMMA FailingType ==
  ASSUME TypeOK, NEW w \in Writers, Fails(w),
         UNCHANGED <<deployment, log, committed, position, lake, marks>>,
         rows' \in [Tables -> SUBSET (Snapshots \X (Writers \cup {"raw"}))],
         recorded' \subseteq Snapshots, versions' \subseteq Snapshots, watermark' \in [Tables -> Nat]
  PROVE  TypeOK'
<1>1. Stop(w)
  BY DEF Fails
<1>2. /\ pc' \in [Writers -> {"idle", "marks", "next", "rows", "record", "watermark", "versions",
                              "commit"}]
      /\ cur' \in [Writers -> Snapshots \cup {NoSnapshot}]
      /\ \A v \in Writers : cur'[v] # NoSnapshot <=> pc'[v] \in {"rows", "record", "watermark", "versions"}
      /\ targets' \in [Writers -> SUBSET Tables]
      /\ todo' \in [Writers -> SUBSET (0 .. NumTables)]
      /\ pending' \in [Writers -> SUBSET (1 .. MaxCommits)]
  BY <1>1, StopType
<1>3. /\ current' \in (Partitions \X Nat) \cup {NoMessage}
      /\ current' # NoMessage => position'[current'[1]] = current'[2] + 1
      /\ current' # NoMessage <=>
           pc'["tableflow"] \in {"rows", "record", "watermark", "versions", "commit"}
  BY FailsType
<1>4. QED
  BY <1>2, <1>3 DEF TypeOK

LEMMA InsertedRows ==
  ASSUME TypeOK, NEW w \in Writers, pc[w] = "rows", NEW t \in todo[w], InsertInto(w, t)
  PROVE  rows' \in [Tables -> SUBSET (Snapshots \X (Writers \cup {"raw"}))]
<1>1. cur[w] \in Snapshots
  BY DEF TypeOK
<1>2. t \in 0 .. NumTables /\ (t # 0 => t \in Tables)
  BY SizesAssumption DEF TypeOK, Tables
<1>3. QED
  BY <1>1, <1>2, TablesAreNumbered DEF TypeOK, InsertInto

\* The writer goes on to its next statement.
LEMMA OnwardType ==
  ASSUME TypeOK, NEW w \in Writers, NEW step \in Busy, pc[w] \in Busy, Goto(w, step),
         UNCHANGED <<deployment, log, committed, position, lake, marks, current, cur, targets, pending>>,
         todo' \in [Writers -> SUBSET (0 .. NumTables)],
         rows' \in [Tables -> SUBSET (Snapshots \X (Writers \cup {"raw"}))],
         recorded' \subseteq Snapshots, versions' \subseteq Snapshots, watermark' \in [Tables -> Nat]
  PROVE  TypeOK'
<1>1. /\ pc' \in [Writers -> {"idle", "marks", "next", "rows", "record", "watermark", "versions",
                              "commit"}]
      /\ \A v \in Writers : pc'[v] \in Busy <=> pc[v] \in Busy
      /\ pc'["tableflow"] \in Busy \cup {"commit"} <=> pc["tableflow"] \in Busy \cup {"commit"}
  BY DEF Goto, TypeOK, Busy, Writers
<1>2. /\ \A v \in Writers : cur'[v] # NoSnapshot <=> pc'[v] \in Busy
      /\ current' # NoMessage <=> pc'["tableflow"] \in Busy \cup {"commit"}
  BY <1>1 DEF TypeOK, Busy
<1>3. QED
  BY <1>1, <1>2 DEF TypeOK, Busy

LEMMA InsertRowsType ==
  ASSUME TypeOK, NEW w \in Writers, InsertRows(w)
  PROVE  TypeOK'
<1>1. PICK t \in todo[w] :
        /\ pc[w] = "rows"
        /\ \/ /\ InsertInto(w, t)
              /\ todo' = [todo EXCEPT ![w] = @ \ {t}]
              /\ Goto(w, IF todo[w] = {t} THEN "record" ELSE "rows")
              /\ UNCHANGED <<current, skipped, cur, targets, pending, faults>>
           \/ Fails(w) /\ (InsertInto(w, t) \/ UNCHANGED rows)
        /\ UNCHANGED <<deployment, log, committed, position, lake, recorded, watermark, versions,
                       marks>>
  BY DEF InsertRows
<1>2. rows' \in [Tables -> SUBSET (Snapshots \X (Writers \cup {"raw"}))]
  BY <1>1, InsertedRows DEF TypeOK
<1>3. CASE Fails(w)
  BY <1>1, <1>2, <1>3, FailingType DEF TypeOK
<1>4. CASE /\ todo' = [todo EXCEPT ![w] = @ \ {t}]
           /\ Goto(w, IF todo[w] = {t} THEN "record" ELSE "rows")
           /\ UNCHANGED <<current, skipped, cur, targets, pending, faults>>
  <2>1. todo' \in [Writers -> SUBSET (0 .. NumTables)]
    BY <1>4 DEF TypeOK
  <2>2. PICK step \in Busy : Goto(w, step)
    BY <1>4 DEF Busy
  <2>3. QED
    BY <1>1, <1>2, <1>4, <2>1, <2>2, OnwardType DEF TypeOK, Busy
<1>5. QED
  BY <1>1, <1>3, <1>4

LEMMA RecordCommitType ==
  ASSUME TypeOK, NEW w \in Writers, RecordCommit(w)
  PROVE  TypeOK'
<1>1. /\ pc[w] = "record"
      /\ recorded' = recorded \cup {cur[w]} \/ UNCHANGED recorded
      /\ UNCHANGED <<deployment, log, committed, position, lake, rows, watermark, versions, marks>>
  BY DEF RecordCommit
<1>2. recorded' \subseteq Snapshots
  BY <1>1 DEF TypeOK
<1>3. /\ rows' \in [Tables -> SUBSET (Snapshots \X (Writers \cup {"raw"}))]
      /\ versions' \subseteq Snapshots /\ watermark' \in [Tables -> Nat]
  BY <1>1 DEF TypeOK
<1>4. CASE Fails(w)
  BY <1>1, <1>2, <1>3, <1>4, FailingType
<1>5. CASE /\ Goto(w, "watermark")
           /\ UNCHANGED <<current, skipped, cur, targets, todo, pending, faults>>
  <2>1. todo' \in [Writers -> SUBSET (0 .. NumTables)]
    BY <1>5 DEF TypeOK
  <2>2. "watermark" \in Busy /\ pc[w] \in Busy
    BY <1>1 DEF Busy
  <2>3. QED
    BY <1>1, <1>2, <1>3, <1>5, <2>1, <2>2, OnwardType
<1>6. QED
  BY <1>4, <1>5 DEF RecordCommit

LEMMA AdvancedType ==
  ASSUME TypeOK, NEW w \in Writers, pc[w] = "watermark"
  PROVE  Advanced(w) \in [Tables -> Nat]
<1>1. SequenceNumber(cur[w]) \in Nat
  BY SequenceNumbers DEF TypeOK
<1>2. QED
  BY <1>1 DEF TypeOK, Advanced

LEMMA AdvanceWatermarksType ==
  ASSUME TypeOK, NEW w \in Writers, AdvanceWatermarks(w)
  PROVE  TypeOK'
<1>1. /\ pc[w] = "watermark"
      /\ watermark' = Advanced(w) \/ UNCHANGED watermark
      /\ UNCHANGED <<deployment, log, committed, position, lake, rows, recorded, versions, marks>>
  BY DEF AdvanceWatermarks
<1>2. watermark' \in [Tables -> Nat]
  BY <1>1, AdvancedType DEF TypeOK
<1>3. /\ rows' \in [Tables -> SUBSET (Snapshots \X (Writers \cup {"raw"}))]
      /\ versions' \subseteq Snapshots /\ recorded' \subseteq Snapshots
  BY <1>1 DEF TypeOK
<1>4. CASE Fails(w)
  BY <1>1, <1>2, <1>3, <1>4, FailingType
<1>5. CASE /\ Goto(w, "versions")
           /\ UNCHANGED <<current, skipped, cur, targets, todo, pending, faults>>
  <2>1. todo' \in [Writers -> SUBSET (0 .. NumTables)]
    BY <1>5 DEF TypeOK
  <2>2. "versions" \in Busy /\ pc[w] \in Busy
    BY <1>1 DEF Busy
  <2>3. QED
    BY <1>1, <1>2, <1>3, <1>5, <2>1, <2>2, OnwardType
<1>6. QED
  BY <1>4, <1>5 DEF AdvanceWatermarks

LEMMA PublishVersionsType ==
  ASSUME TypeOK, NEW w \in Writers, PublishVersions(w)
  PROVE  TypeOK'
<1>1. /\ pc[w] = "versions"
      /\ versions' = versions \cup {cur[w]} \/ UNCHANGED versions
      /\ UNCHANGED <<deployment, log, committed, position, lake, rows, recorded, watermark>>
  BY DEF PublishVersions
<1>2. cur[w] \in Snapshots /\ SequenceNumber(cur[w]) \in Nat
  BY <1>1, SequenceNumbers DEF TypeOK
<1>3. /\ versions' \subseteq Snapshots
      /\ rows' \in [Tables -> SUBSET (Snapshots \X (Writers \cup {"raw"}))]
      /\ recorded' \subseteq Snapshots /\ watermark' \in [Tables -> Nat]
  BY <1>1, <1>2 DEF TypeOK
<1>4. CASE Fails(w) /\ UNCHANGED marks
  BY <1>1, <1>3, <1>4, FailingType
<1>5. CASE /\ Goto(w, IF w = "tableflow" THEN "commit" ELSE "next")
           /\ marks' = IF w = "incremental"
                       THEN [t \in Tables |-> IF t \in targets[w] THEN SequenceNumber(cur[w])
                                              ELSE marks[t]]
                       ELSE marks
           /\ cur' = [cur EXCEPT ![w] = NoSnapshot]
           /\ targets' = [targets EXCEPT ![w] = {}]
           /\ UNCHANGED <<current, skipped, todo, pending, faults>>
  <2>1. marks' \in [Tables -> Nat]
    BY <1>2, <1>5 DEF TypeOK
  <2>2. /\ pc' \in [Writers -> {"idle", "marks", "next", "rows", "record", "watermark",
                                "versions", "commit"}]
        /\ pc'["tableflow"] = IF w = "tableflow" THEN "commit" ELSE pc["tableflow"]
        /\ \A v \in Writers : pc'[v] \in Busy <=> v # w /\ pc[v] \in Busy
    BY <1>1, <1>5 DEF Goto, TypeOK, Busy, Writers
  <2>3. /\ cur' \in [Writers -> Snapshots \cup {NoSnapshot}]
        /\ \A v \in Writers : cur'[v] # NoSnapshot <=> v # w /\ cur[v] # NoSnapshot
        /\ targets' \in [Writers -> SUBSET Tables]
    BY <1>5 DEF TypeOK
  <2>4. \A v \in Writers : cur'[v] # NoSnapshot <=> pc'[v] \in Busy
    BY <2>2, <2>3 DEF TypeOK, Busy
  <2>5. current' # NoMessage <=>
          pc'["tableflow"] \in {"rows", "record", "watermark", "versions", "commit"}
    BY <1>1, <1>5, <2>2 DEF TypeOK
  <2>6. QED
    BY <1>1, <1>3, <1>5, <2>1, <2>2, <2>3, <2>4, <2>5 DEF TypeOK, Busy
<1>6. QED
  BY <1>4, <1>5 DEF PublishVersions

LEMMA CommitMessageType ==
  ASSUME TypeOK, CommitMessage
  PROVE  TypeOK'
<1>1. /\ pc["tableflow"] = "commit" /\ Acknowledge
      /\ current' = NoMessage /\ pc' = [pc EXCEPT !["tableflow"] = "idle"]
      /\ UNCHANGED <<deployment, log, position, lake, rows, recorded, watermark, versions, cur,
                     targets, todo, pending, marks>>
  BY DEF CommitMessage, serving, work, Goto
<1>2. PICK p \in Partitions, o \in Nat : current = <<p, o>>
  BY <1>1 DEF TypeOK, NoMessage
<1>3. position[p] = o + 1 /\ position[p] \in 0 .. Len(log[p])
  BY <1>1, <1>2 DEF TypeOK
<1>4. committed' = [committed EXCEPT ![p] = o + 1]
  BY <1>1, <1>2 DEF Acknowledge
<1>5. /\ committed' \in [Partitions -> Nat]
      /\ \A q \in Partitions : committed'[q] \in 0 .. Len(log[q])
  BY <1>3, <1>4 DEF TypeOK
<1>6. /\ pc' \in [Writers -> {"idle", "marks", "next", "rows", "record", "watermark", "versions",
                              "commit"}]
      /\ pc'["tableflow"] = "idle"
      /\ \A v \in Writers : pc'[v] \in Busy <=> pc[v] \in Busy
  BY <1>1 DEF TypeOK, Busy, Writers
<1>7. QED
  BY <1>1, <1>5, <1>6 DEF TypeOK, Busy

LEMMA CrashType ==
  ASSUME TypeOK, NEW w \in Writers, Crash(w)
  PROVE  TypeOK'
<1>1. Stop(w) /\ pc[w] # "idle"
      /\ UNCHANGED <<deployment, log, lake, rows, recorded, watermark, versions, marks>>
  BY DEF Crash, serving
<1>2. /\ pc' = [pc EXCEPT ![w] = "idle"]
      /\ pc' \in [Writers -> {"idle", "marks", "next", "rows", "record", "watermark", "versions",
                              "commit"}]
      /\ cur' \in [Writers -> Snapshots \cup {NoSnapshot}]
      /\ \A v \in Writers : cur'[v] # NoSnapshot <=> pc'[v] \in {"rows", "record", "watermark", "versions"}
      /\ targets' \in [Writers -> SUBSET Tables]
      /\ todo' \in [Writers -> SUBSET (0 .. NumTables)]
      /\ pending' \in [Writers -> SUBSET (1 .. MaxCommits)]
  BY <1>1, StopType
<1>3. CASE w # "tableflow"
  <2>1. UNCHANGED <<committed, position, current>> /\ pc'["tableflow"] = pc["tableflow"]
    BY <1>2, <1>3 DEF Crash, TypeOK, Writers
  <2>2. QED
    BY <1>1, <1>2, <2>1 DEF TypeOK
<1>4. CASE w = "tableflow"
  <2>1. /\ (pc[w] = "commit" /\ Acknowledge) \/ UNCHANGED committed
        /\ position' = committed' /\ current' = NoMessage
    BY <1>4 DEF Crash
  <2>2. CASE UNCHANGED committed
    <3>1. /\ committed' \in [Partitions -> Nat] /\ position' \in [Partitions -> Nat]
          /\ \A q \in Partitions : committed'[q] \in 0 .. Len(log[q]) /\ position'[q] \in 0 .. Len(log[q])
      BY <2>1, <2>2 DEF TypeOK
    <3>2. QED
      BY <1>1, <1>2, <1>4, <2>1, <3>1 DEF TypeOK
  <2>3. CASE pc[w] = "commit" /\ Acknowledge
    <3>1. PICK p \in Partitions, o \in Nat : current = <<p, o>>
      BY <1>4, <2>3 DEF TypeOK, NoMessage
    <3>2. position[p] = o + 1 /\ position[p] \in 0 .. Len(log[p])
      BY <1>4, <2>3, <3>1 DEF TypeOK
    <3>3. committed' = [committed EXCEPT ![p] = o + 1]
      BY <2>3, <3>1 DEF Acknowledge
    <3>4. /\ committed' \in [Partitions -> Nat] /\ position' \in [Partitions -> Nat]
          /\ \A q \in Partitions : committed'[q] \in 0 .. Len(log[q]) /\ position'[q] \in 0 .. Len(log[q])
      BY <2>1, <3>2, <3>3 DEF TypeOK
    <3>5. QED
      BY <1>1, <1>2, <1>4, <2>1, <3>4 DEF TypeOK
  <2>4. QED
    BY <2>1, <2>2, <2>3
<1>5. QED
  BY <1>3, <1>4

LEMMA AppendCommitType ==
  ASSUME TypeOK, AppendCommit
  PROVE  TypeOK'
<1>1. /\ lake' \in 0 .. MaxCommits
      /\ UNCHANGED <<deployment, log, committed, position, current, rows, recorded, watermark,
                     versions, pc, cur, targets, todo, pending, marks>>
  BY SizesAssumption DEF AppendCommit, TypeOK, kafka, serving, work
<1>2. QED
  BY <1>1 DEF TypeOK

\* Every step is one of these.
LEMMA Steps ==
  ASSUME Next
  PROVE  \/ \E p \in Partitions : Produce(p) \/ ReceiveBatch(p)
         \/ ReadCommits \/ ReadWatermarks \/ SelectCommit \/ StartRebuild \/ RebuildCommit
         \/ \E w \in Writers : InsertRows(w) \/ RecordCommit(w) \/ AdvanceWatermarks(w)
                               \/ PublishVersions(w) \/ Crash(w)
         \/ CommitMessage
         \/ AppendCommit
BY DEF Next, Tableflow, Incremental, Rebuild, Write, Writers

LEMMA NextType == TypeOK /\ [Next]_vars => TypeOK'
<1> SUFFICES ASSUME TypeOK, [Next]_vars PROVE TypeOK'
  OBVIOUS
<1>1. CASE UNCHANGED vars
  BY <1>1 DEF TypeOK, vars, kafka, serving, work
<1>2. CASE Next
  BY <1>2, Steps, ProduceType, ReceiveType, SelectType, InsertRowsType, RecordCommitType,
     AdvanceWatermarksType, PublishVersionsType, CommitMessageType, CrashType, AppendCommitType
<1>3. QED
  BY <1>1, <1>2

\* The variables of the materializers keep their types.
THEOREM TypeCorrect == Spec => []TypeOK
BY InitType, NextType, PTL DEF Spec
-----------------------------------------------------------------------------
(* A watermark is earned: the rows are written before it. *)

\* No step takes a row away.
LEMMA RowsGrow ==
  ASSUME TypeOK, [Next]_vars
  PROVE  \A t \in Tables : rows[t] \subseteq rows'[t]
<1>1. ASSUME NEW w \in Writers, InsertRows(w) PROVE \A t \in Tables : rows[t] \subseteq rows'[t]
  <2>1. PICK t \in todo[w] : InsertInto(w, t) \/ UNCHANGED rows
    BY <1>1 DEF InsertRows
  <2>2. CASE InsertInto(w, t)
    <3>1. \/ rows' = [rows EXCEPT ![EventsTable] = @ \cup {<<cur[w], "raw">>}]
          \/ rows' = [rows EXCEPT ![t] = @ \cup {<<cur[w], w>>}]
      BY <2>2 DEF InsertInto
    <3>2. PICK S : rows \in [Tables -> S]
      BY DEF TypeOK
    <3>3. QED
      BY <3>1, <3>2
  <2>3. QED
    BY <2>1, <2>2
<1>2. ASSUME NEW w \in Writers,
             RecordCommit(w) \/ AdvanceWatermarks(w) \/ PublishVersions(w) \/ Crash(w)
      PROVE  UNCHANGED rows
  BY <1>2 DEF RecordCommit, AdvanceWatermarks, PublishVersions, Crash, serving
<1>3. ASSUME NEW p \in Partitions, Produce(p) \/ ReceiveBatch(p) PROVE UNCHANGED rows
  BY <1>3 DEF Produce, ReceiveBatch, serving
<1>4. ASSUME \/ ReadCommits \/ ReadWatermarks \/ SelectCommit \/ StartRebuild \/ RebuildCommit
             \/ CommitMessage \/ AppendCommit \/ UNCHANGED vars
      PROVE  UNCHANGED rows
  BY <1>4 DEF ReadCommits, ReadWatermarks, SelectCommit, StartRebuild, RebuildCommit, CommitMessage,
     AppendCommit, serving, vars
<1>5. QED
  BY <1>1, <1>2, <1>3, <1>4, Steps

LEMMA ServedGrows ==
  ASSUME TypeOK, [Next]_vars
  PROVE  \A s : \A t \in Tables : (\E r \in rows[t] : r[1] = s) => \E r \in rows'[t] : r[1] = s
BY RowsGrow

\* What a step does with the work of one writer.
Kept(w) == pc'[w] = pc[w] /\ cur'[w] = cur[w] /\ targets'[w] = targets[w] /\ todo'[w] = todo[w]
Started(w) ==
  /\ pc'[w] = "rows"
  /\ targets'[w] \subseteq todo'[w] \/ (0 \in todo'[w] /\ targets'[w] = {EventsTable})
Inserted(w) ==
  \E t \in todo[w] :
    /\ pc[w] = "rows" /\ InsertInto(w, t)
    /\ todo'[w] = todo[w] \ {t} /\ cur'[w] = cur[w] /\ targets'[w] = targets[w]
    /\ pc'[w] = IF todo[w] = {t} THEN "record" ELSE "rows"
Noted(w) ==
  /\ pc[w] \in {"record", "watermark"} /\ pc'[w] \in {"watermark", "versions"}
  /\ cur'[w] = cur[w] /\ targets'[w] = targets[w] /\ todo'[w] = todo[w]

LEMMA StopFrees ==
  ASSUME TypeOK, NEW v \in Writers, Stop(v), NEW w \in Writers
  PROVE  IF w = v THEN pc'[w] = "idle" /\ pending'[w] = {}
         ELSE Kept(w) /\ pending'[w] = pending[w]
BY DEF TypeOK, Stop, Goto, Kept

LEMMA WriterStep ==
  ASSUME TypeOK, [Next]_vars, NEW w \in Writers
  PROVE  Kept(w) \/ pc'[w] \notin Busy \/ Started(w) \/ Inserted(w) \/ Noted(w)
<1>1. ASSUME NEW v \in Writers, NEW step, Goto(v, step), w # v,
             cur' = cur \/ \E s : cur' = [cur EXCEPT ![v] = s],
             targets' = targets \/ \E ts : targets' = [targets EXCEPT ![v] = ts],
             todo' = todo \/ \E what : todo' = [todo EXCEPT ![v] = what]
      PROVE  Kept(w)
  BY <1>1 DEF Goto, Kept, TypeOK
<1>2. ASSUME UNCHANGED <<pc, cur, targets, todo>> PROVE Kept(w)
  BY <1>2 DEF Kept
<1>3. ASSUME NEW v \in Writers, Stop(v) PROVE Kept(w) \/ pc'[w] \notin Busy
  BY <1>3, StopFrees DEF Busy
<1>4. ASSUME NEW v \in Writers, NEW s, NEW ts, NEW what, Start(v, s, ts, what),
             ts \subseteq what \/ (0 \in what /\ ts = {EventsTable})
      PROVE  Kept(w) \/ Started(w)
  <2>1. CASE w = v
    BY <1>4, <2>1 DEF Start, Goto, Started, TypeOK
  <2>2. CASE w # v
    BY <1>1, <1>4, <2>2 DEF Start
  <2>3. QED
    BY <2>1, <2>2
<1>5. ASSUME NEW v \in Writers, NEW step, step \notin Busy, Goto(v, step), UNCHANGED <<cur, targets, todo>>
      PROVE  Kept(w) \/ pc'[w] \notin Busy
  <2>1. CASE w = v
    BY <1>5, <2>1 DEF Goto, TypeOK
  <2>2. CASE w # v
    BY <1>1, <1>5, <2>2
  <2>3. QED
    BY <2>1, <2>2
<1>6. ASSUME NEW p \in Partitions, Produce(p) \/ ReceiveBatch(p)
      PROVE  Kept(w) \/ pc'[w] \notin Busy \/ Started(w)
  <2>1. "tableflow" \in Writers /\ "commit" \notin Busy
    BY DEF Writers, Busy
  <2>2. \/ UNCHANGED <<pc, cur, targets, todo>>
        \/ Goto("tableflow", "commit") /\ UNCHANGED <<cur, targets, todo>>
        \/ \E s : Start("tableflow", s, Tables, Tables)
    BY <1>6 DEF Produce, ReceiveBatch, work
  <2>3. QED
    BY <1>2, <1>4, <1>5, <2>1, <2>2
<1>7. ASSUME ReadCommits \/ ReadWatermarks \/ SelectCommit \/ StartRebuild \/ RebuildCommit
      PROVE  Kept(w) \/ pc'[w] \notin Busy \/ Started(w)
  <2>1. /\ "incremental" \in Writers /\ "rebuild" \in Writers
        /\ "idle" \notin Busy /\ "marks" \notin Busy /\ "next" \notin Busy
    BY DEF Writers, Busy
  <2>2. CASE ReadCommits \/ ReadWatermarks \/ StartRebuild
    <3>1. /\ UNCHANGED <<cur, targets, todo>>
          /\ \/ Goto("incremental", "marks") \/ Goto("incremental", "next") \/ Goto("rebuild", "next")
      BY <2>2 DEF ReadCommits, ReadWatermarks, StartRebuild
    <3>2. QED
      BY <1>5, <2>1, <3>1
  <2>3. CASE SelectCommit
    <3>1. \/ Goto("incremental", "idle") /\ UNCHANGED <<cur, targets, todo>>
          \/ \E n \in Lagging : Start("incremental", Iceberg(n), TargetsFor(n), TargetsFor(n))
      BY <2>3 DEF SelectCommit
    <3>2. QED
      BY <1>4, <1>5, <2>1, <3>1
  <2>4. CASE RebuildCommit
    <3>1. \/ Goto("rebuild", "idle") /\ UNCHANGED <<cur, targets, todo>>
          \/ \E n \in pending["rebuild"] : Start("rebuild", Iceberg(n), RebuildTargets, RebuildInserts)
      BY <2>4 DEF RebuildCommit
    <3>2. \/ RebuildTargets \subseteq RebuildInserts
          \/ 0 \in RebuildInserts /\ RebuildTargets = {EventsTable}
      BY RebuildTables DEF TypeOK
    <3>3. QED
      BY <1>4, <1>5, <2>1, <3>1, <3>2
  <2>5. QED
    BY <1>7, <2>2, <2>3, <2>4
<1>8. ASSUME NEW v \in Writers, InsertRows(v)
      PROVE  Kept(w) \/ pc'[w] \notin Busy \/ Inserted(w)
  <2>1. PICK t \in todo[v] :
          /\ pc[v] = "rows"
          /\ \/ /\ InsertInto(v, t)
                /\ todo' = [todo EXCEPT ![v] = @ \ {t}]
                /\ Goto(v, IF todo[v] = {t} THEN "record" ELSE "rows")
                /\ UNCHANGED <<cur, targets>>
             \/ Stop(v)
    BY <1>8 DEF InsertRows, Fails
  <2>2. CASE Stop(v)
    BY <1>3, <2>2
  <2>3. CASE /\ InsertInto(v, t)
             /\ todo' = [todo EXCEPT ![v] = @ \ {t}]
             /\ Goto(v, IF todo[v] = {t} THEN "record" ELSE "rows")
             /\ UNCHANGED <<cur, targets>>
    <3>1. CASE w = v
      BY <2>1, <2>3, <3>1 DEF Inserted, Goto, TypeOK
    <3>2. CASE w # v
      BY <1>1, <2>3, <3>2
    <3>3. QED
      BY <3>1, <3>2
  <2>4. QED
    BY <2>1, <2>2, <2>3
<1>9. ASSUME NEW v \in Writers, RecordCommit(v) \/ AdvanceWatermarks(v)
      PROVE  Kept(w) \/ pc'[w] \notin Busy \/ Noted(w)
  <2>1. \/ Stop(v)
        \/ /\ pc[v] \in {"record", "watermark"} /\ UNCHANGED <<cur, targets, todo>>
           /\ \E step \in {"watermark", "versions"} : Goto(v, step)
    BY <1>9 DEF RecordCommit, AdvanceWatermarks, Fails
  <2>2. CASE Stop(v)
    BY <1>3, <2>2
  <2>3. CASE /\ pc[v] \in {"record", "watermark"} /\ UNCHANGED <<cur, targets, todo>>
             /\ \E step \in {"watermark", "versions"} : Goto(v, step)
    <3>1. CASE w = v
      BY <2>3, <3>1 DEF Noted, Goto, TypeOK
    <3>2. CASE w # v
      BY <1>1, <2>3, <3>2
    <3>3. QED
      BY <3>1, <3>2
  <2>4. QED
    BY <2>1, <2>2, <2>3
<1>10. ASSUME NEW v \in Writers, PublishVersions(v)
       PROVE  Kept(w) \/ pc'[w] \notin Busy
  <2>1. \/ Stop(v)
        \/ /\ Goto(v, IF v = "tableflow" THEN "commit" ELSE "next")
           /\ cur' = [cur EXCEPT ![v] = NoSnapshot] /\ targets' = [targets EXCEPT ![v] = {}]
           /\ UNCHANGED todo
    BY <1>10 DEF PublishVersions, Fails
  <2>2. CASE w = v
    BY <1>3, <2>1, <2>2 DEF Goto, TypeOK, Busy
  <2>3. CASE w # v
    BY <1>1, <1>3, <2>1, <2>3
  <2>4. QED
    BY <2>2, <2>3
<1>11. ASSUME NEW v \in Writers, Crash(v) PROVE Kept(w) \/ pc'[w] \notin Busy
  BY <1>3, <1>11 DEF Crash
<1>12. ASSUME CommitMessage \/ AppendCommit \/ UNCHANGED vars PROVE Kept(w) \/ pc'[w] \notin Busy
  <2>1. "tableflow" \in Writers /\ "idle" \notin Busy
    BY DEF Writers, Busy
  <2>2. \/ Goto("tableflow", "idle") /\ UNCHANGED <<cur, targets, todo>>
        \/ UNCHANGED <<pc, cur, targets, todo>>
    BY <1>12 DEF CommitMessage, AppendCommit, vars, work
  <2>3. QED
    BY <1>2, <1>5, <2>1, <2>2
<1>13. QED
  BY <1>6, <1>7, <1>8, <1>9, <1>10, <1>11, <1>12, Steps
\* The tables for which what a writer has still to write has rows: the raw events are rows of
\* the events table.
Owed(ts) == ts \cup (IF 0 \in ts THEN {EventsTable} ELSE {})

\* A busy writer has written the tables it does not have still to write, and has written
\* them all when it records the commit.
WorkDone ==
  \A w \in Writers : pc[w] \in Busy =>
    /\ \A t \in targets[w] \ Owed(todo[w]) : Served(cur[w], t)
    /\ pc[w] # "rows" => todo[w] = {}

LEMMA WorkDoneStep ==
  ASSUME TypeOK, WorkDone, [Next]_vars
  PROVE  WorkDone'
<1> SUFFICES ASSUME NEW w \in Writers, pc'[w] \in Busy
             PROVE  /\ \A t \in targets'[w] \ Owed(todo'[w]) : \E r \in rows'[t] : r[1] = cur'[w]
                    /\ pc'[w] # "rows" => todo'[w] = {}
  BY DEF WorkDone, Served, Owed
<1>1. targets[w] \subseteq Tables /\ \A t \in Tables : rows[t] \subseteq rows'[t]
  BY RowsGrow DEF TypeOK
<1>2. CASE Kept(w)
  BY <1>1, <1>2 DEF Kept, WorkDone, Served
<1>3. CASE Started(w)
  BY <1>3 DEF Started, Owed
<1>4. CASE Inserted(w)
  <2>1. PICK i \in todo[w] :
          /\ pc[w] = "rows" /\ InsertInto(w, i)
          /\ todo'[w] = todo[w] \ {i} /\ cur'[w] = cur[w] /\ targets'[w] = targets[w]
          /\ pc'[w] = IF todo[w] = {i} THEN "record" ELSE "rows"
    BY <1>4 DEF Inserted
  <2>2. ASSUME NEW t \in targets[w] \ Owed(todo[w] \ {i}) PROVE \E r \in rows'[t] : r[1] = cur[w]
    <3>1. CASE t \notin Owed(todo[w])
      BY <1>1, <2>1, <3>1 DEF WorkDone, Served, Busy
    <3>2. CASE t = i
      <4>1. t \in Tables /\ t # 0
        BY <1>1, SizesAssumption DEF Tables
      <4>2. <<cur[w], w>> \in rows'[t]
        BY <2>1, <3>2, <4>1 DEF InsertInto, TypeOK
      <4>3. QED
        BY <4>2
    <3>3. CASE i = 0 /\ t = EventsTable
      <4>1. <<cur[w], "raw">> \in rows'[t]
        BY <2>1, <3>3, TablesAreNumbered DEF InsertInto, TypeOK
      <4>2. QED
        BY <4>1
    <3>4. QED
      BY <3>1, <3>2, <3>3 DEF Owed
  <2>3. QED
    BY <2>1, <2>2
<1>5. CASE Noted(w)
  BY <1>1, <1>5 DEF Noted, WorkDone, Served, Busy
<1>6. QED
  BY <1>2, <1>3, <1>4, <1>5, WriterStep

LEMMA WorkDoneAlways == Spec => [](TypeOK /\ WorkDone)
<1>1. Init => WorkDone
  BY DEF Init, WorkDone, Busy
<1>2. TypeOK /\ WorkDone /\ [Next]_vars => WorkDone'
  BY WorkDoneStep
<1>3. QED
  BY <1>1, <1>2, InitType, NextType, PTL DEF Spec

\* What a step does with the watermarks.
LEMMA WatermarkStep ==
  ASSUME [Next]_vars
  PROVE  \/ UNCHANGED watermark
         \/ \E w \in Writers : pc[w] = "watermark" /\ watermark' = Advanced(w)
<1>1. CASE \E w \in Writers : InsertRows(w) \/ RecordCommit(w) \/ AdvanceWatermarks(w)
                              \/ PublishVersions(w) \/ Crash(w)
  BY <1>1 DEF InsertRows, RecordCommit, AdvanceWatermarks, PublishVersions, Crash, serving
<1>2. CASE \E p \in Partitions : Produce(p) \/ ReceiveBatch(p)
  BY <1>2 DEF Produce, ReceiveBatch, serving
<1>3. CASE \/ ReadCommits \/ ReadWatermarks \/ SelectCommit \/ StartRebuild \/ RebuildCommit
           \/ CommitMessage \/ AppendCommit \/ UNCHANGED vars
  BY <1>3 DEF ReadCommits, ReadWatermarks, SelectCommit, StartRebuild, RebuildCommit, CommitMessage,
     AppendCommit, serving, vars
<1>4. QED
  BY <1>1, <1>2, <1>3, Steps

LEMMA EarnedStep ==
  ASSUME TypeOK, WorkDone, WatermarkIsEarned, [Next]_vars
  PROVE  WatermarkIsEarned'
<1> SUFFICES ASSUME NEW t \in Tables, watermark'[t] > 0
             PROVE  \E r \in rows'[t] : SequenceNumber(r[1]) = watermark'[t]
  BY DEF WatermarkIsEarned, SequenceNumber
<1>1. rows[t] \subseteq rows'[t]
  BY RowsGrow
<1>2. CASE watermark'[t] = watermark[t]
  BY <1>1, <1>2 DEF WatermarkIsEarned
<1>3. ASSUME NEW w \in Writers, pc[w] = "watermark", watermark' = Advanced(w),
             watermark'[t] # watermark[t]
      PROVE  \E r \in rows'[t] : SequenceNumber(r[1]) = watermark'[t]
  <2>1. t \in targets[w] /\ watermark'[t] = SequenceNumber(cur[w])
    BY <1>3 DEF Advanced
  <2>2. Served(cur[w], t)
    BY <1>3, <2>1 DEF WorkDone, Owed, Busy
  <2>3. QED
    BY <1>1, <2>1, <2>2 DEF Served
<1>4. QED
  BY <1>2, <1>3, WatermarkStep

\* A table's watermark is the sequence number of a snapshot whose rows it has, whichever
\* writers run and whatever fails.
THEOREM WatermarksAreEarned == Spec => []WatermarkIsEarned
<1>1. Init => WatermarkIsEarned
  <2> SUFFICES ASSUME Init, NEW t \in Tables, watermark[t] > 0
               PROVE  \E r \in rows[t] : SequenceNumber(r[1]) = watermark[t]
    BY DEF WatermarkIsEarned
  <2>1. lake \in Nat
    BY SizesAssumption, SettingsType DEF Init
  <2>2. watermark[t] = lake /\ rows[t] = {<<Iceberg(n), "incremental">> : n \in 1 .. lake}
    BY DEF Init
  <2>3. <<Iceberg(lake), "incremental">> \in rows[t]
    BY <2>1, <2>2
  <2>4. QED
    BY <2>1, <2>2, <2>3, SequenceNumbers
<1>2. TypeOK /\ WorkDone /\ WatermarkIsEarned /\ [Next]_vars => WatermarkIsEarned'
  BY EarnedStep
<1>3. QED
  BY <1>1, <1>2, WorkDoneAlways, PTL DEF Spec
-----------------------------------------------------------------------------
(* Where only the lakehouse is materialized, watermarks pass no commit. *)

LakeWriters == {"incremental", "rebuild"}

\* The rows of commit k are in table t, or a writer leaves the commit out.
Has(t, k) == LeftOut(k) \/ Served(Iceberg(k), t)

\* The tables whose watermarks a writer moves.
Scope(w) == IF w = "rebuild" THEN RebuildTargets ELSE Tables

\* These tables have commit k.
Caught(w, k) == \A t \in Scope(w) : Has(t, k)

LEMMA CaughtGrows ==
  ASSUME TypeOK, [Next]_vars
  PROVE  /\ \A w, k : Caught(w, k) => Caught(w, k)'
         /\ \A k : \A t \in Tables : Has(t, k) => Has(t, k)'
         /\ deployment' = deployment
<1>1. deployment' = deployment
  BY Steps DEF Produce, ReceiveBatch, ReadCommits, ReadWatermarks, SelectCommit, StartRebuild, RebuildCommit,
     InsertRows, RecordCommit, AdvanceWatermarks, PublishVersions, Crash, CommitMessage, AppendCommit, vars
<1>2. \A k : \A t \in Tables : Has(t, k) => Has(t, k)'
  BY <1>1, ServedGrows DEF Has, LeftOut, Served, Iceberg
<1>3. \A w : Scope(w)' = Scope(w) /\ Scope(w) \subseteq Tables
  BY <1>1, RebuildTables DEF Scope, RebuildTargets, TypeOK
<1>4. QED
  BY <1>1, <1>2, <1>3 DEF Caught

\* A pass lacks no commit below those it has left, but the one it works on.
PassInOrder(w) ==
  \A m \in pending[w] : \A k \in 1 .. m :
    k \in pending[w] \/ Caught(w, k) \/ (pc[w] \in Busy /\ cur[w] = Iceberg(k))

\* A writer works on a commit when every commit before it is caught up, and so is this one
\* in the tables it leaves out.
WorkInOrder(w) ==
  pc[w] \in Busy =>
    /\ targets[w] \subseteq Scope(w)
    /\ \E n \in Nat \ {0} : /\ cur[w] = Iceberg(n)
                            /\ \A k \in 1 .. n - 1 : Caught(w, k)
                            /\ \A t \in Scope(w) \ targets[w] : Has(t, n)

MarksCovered ==
  pc["incremental"] \in Busy \cup {"next"} =>
    \A t \in Tables : \A k \in 1 .. marks[t] : Has(t, k)

WatermarkCovered == \A t \in Tables : \A k \in 1 .. watermark[t] : Has(t, k)

LakehouseOnly ==
  "tableflow" \notin deployment.writers =>
    /\ pc["tableflow"] = "idle"
    /\ recorded \subseteq {Iceberg(n) : n \in Nat \ {0}}
    /\ \A w \in LakeWriters : PassInOrder(w) /\ WorkInOrder(w)
    /\ MarksCovered
    /\ WatermarkCovered

\* What a step does with the pass of a writer.
PassKept(w) ==
  /\ pending'[w] = pending[w]
  /\ pc'[w] \in Busy <=> pc[w] \in Busy
  /\ pc[w] \in Busy => cur'[w] = cur[w] /\ targets'[w] = targets[w]
PassEnds(w) == pending'[w] = {} /\ pc'[w] \notin Busy
PassBegins(w) == Running(w) /\ pending'[w] = Commits(w) /\ pc'[w] \notin Busy
PassSelects(w) ==
  \E n \in pending[w] :
    /\ pc[w] = "next" /\ pc'[w] = "rows" /\ cur'[w] = Iceberg(n)
    /\ pending'[w] \subseteq pending[w] \ {n} /\ pending[w] \ (1 .. n) \subseteq pending'[w]
    /\ \A k \in pending[w] : k < n => w = "incremental" /\ TargetsFor(k) = {}
    /\ targets'[w] \subseteq Scope(w)
    /\ \A t \in Scope(w) \ targets'[w] : w = "incremental" /\ ~(marks[t] < n)
PassPublished(w) == pc[w] = "versions" /\ pending'[w] = pending[w] /\ pc'[w] \notin Busy

LEMMA PassStep ==
  ASSUME TypeOK, [Next]_vars, NEW w \in LakeWriters
  PROVE  PassKept(w) \/ PassEnds(w) \/ PassBegins(w) \/ PassSelects(w) \/ PassPublished(w)
<1>1. w \in Writers /\ w # "tableflow" /\ Writers = {"tableflow", "incremental", "rebuild"}
  BY DEF LakeWriters, Writers
<1>2. ASSUME NEW v \in Writers, Stop(v) PROVE PassKept(w) \/ PassEnds(w)
  BY <1>1, <1>2, StopFrees DEF Kept, PassKept, PassEnds, Busy
<1>3. ASSUME Kept(w), UNCHANGED pending PROVE PassKept(w)
  BY <1>3 DEF Kept, PassKept
<1>4. ASSUME NEW p \in Partitions, Produce(p) \/ ReceiveBatch(p) PROVE PassKept(w)
  <2>1. UNCHANGED pending
    BY <1>4 DEF Produce, ReceiveBatch, work
  <2>2. pc'[w] = pc[w] /\ cur'[w] = cur[w] /\ targets'[w] = targets[w] /\ todo'[w] = todo[w]
    BY <1>1, <1>4 DEF Produce, ReceiveBatch, Start, Goto, work, TypeOK
  <2>3. QED
    BY <2>1, <2>2 DEF PassKept
<1>5. CASE ReadCommits \/ StartRebuild
  <2>1. PICK v \in LakeWriters :
          /\ pc[v] = "idle" /\ Running(v) /\ pending' = [pending EXCEPT ![v] = Commits(v)]
          /\ UNCHANGED <<cur, targets, todo>>
          /\ Goto(v, "marks") \/ Goto(v, "next")
    BY <1>5 DEF ReadCommits, StartRebuild, LakeWriters
  <2>2. CASE w = v
    BY <1>1, <2>1, <2>2 DEF Goto, PassBegins, TypeOK, Busy
  <2>3. CASE w # v
    BY <1>1, <2>1, <2>3 DEF Goto, PassKept, TypeOK
  <2>4. QED
    BY <2>2, <2>3
<1>6. CASE ReadWatermarks
  BY <1>1, <1>6 DEF ReadWatermarks, Goto, PassKept, TypeOK, Busy
<1>7. CASE SelectCommit
  <2>1. CASE /\ Goto("incremental", "idle")
             /\ pending' = [pending EXCEPT !["incremental"] = {}]
             /\ UNCHANGED <<cur, targets, todo>>
    BY <1>1, <2>1 DEF Goto, PassKept, PassEnds, TypeOK, Busy
  <2>2. ASSUME NEW n \in Lagging, \A k \in Lagging : n <= k,
               Start("incremental", Iceberg(n), TargetsFor(n), TargetsFor(n)),
               pending' = [pending EXCEPT !["incremental"] = @ \ (1 .. n)]
        PROVE  PassKept(w) \/ PassSelects(w)
    <3>1. CASE w # "incremental"
      BY <1>1, <2>2, <3>1 DEF Start, Goto, PassKept, TypeOK
    <3>2. CASE w = "incremental"
      <4>1. /\ pc[w] = "next" /\ pc'[w] = "rows" /\ cur'[w] = Iceberg(n)
            /\ targets'[w] = TargetsFor(n) /\ pending'[w] = pending[w] \ (1 .. n)
        BY <1>1, <1>7, <2>2, <3>2 DEF SelectCommit, Start, Goto, TypeOK
      <4>2. n \in pending[w] /\ n \in Nat \ {0} /\ pending[w] \subseteq Nat
        BY <1>1, <3>2 DEF Lagging, TypeOK
      <4>3. \A k \in pending[w] : k < n => TargetsFor(k) = {}
        BY <2>2, <3>2, <4>2 DEF Lagging
      <4>4. targets'[w] \subseteq Scope(w) /\ \A t \in Scope(w) \ targets'[w] : ~(marks[t] < n)
        BY <3>2, <4>1 DEF TargetsFor, Scope
      <4>5. QED
        BY <3>2, <4>1, <4>2, <4>3, <4>4 DEF PassSelects
    <3>3. QED
      BY <3>1, <3>2
  <2>3. QED
    BY <1>7, <2>1, <2>2 DEF SelectCommit
<1>8. CASE RebuildCommit
  <2>1. CASE Goto("rebuild", "idle") /\ UNCHANGED <<cur, targets, todo, pending>>
    BY <1>1, <1>8, <2>1 DEF RebuildCommit, Goto, PassKept, TypeOK, Busy
  <2>2. ASSUME NEW n \in pending["rebuild"], \A k \in pending["rebuild"] : n <= k,
               Start("rebuild", Iceberg(n), RebuildTargets, RebuildInserts),
               pending' = [pending EXCEPT !["rebuild"] = @ \ {n}]
        PROVE  PassKept(w) \/ PassSelects(w)
    <3>1. CASE w # "rebuild"
      BY <1>1, <2>2, <3>1 DEF Start, Goto, PassKept, TypeOK
    <3>2. CASE w = "rebuild"
      <4>1. /\ pc[w] = "next" /\ pc'[w] = "rows" /\ cur'[w] = Iceberg(n)
            /\ targets'[w] = Scope(w) /\ pending'[w] = pending[w] \ {n}
        BY <1>1, <1>8, <2>2, <3>2 DEF RebuildCommit, Start, Goto, TypeOK, Scope
      <4>2. n \in Nat \ {0} /\ pending[w] \subseteq Nat
        BY <1>1, <3>2 DEF TypeOK
      <4>3. \A k \in pending[w] : ~(k < n)
        BY <2>2, <3>2, <4>2
      <4>4. QED
        BY <3>2, <4>1, <4>2, <4>3 DEF PassSelects
    <3>3. QED
      BY <3>1, <3>2
  <2>3. QED
    BY <1>8, <2>1, <2>2 DEF RebuildCommit
<1>9. ASSUME NEW v \in Writers, InsertRows(v) \/ RecordCommit(v) \/ AdvanceWatermarks(v)
      PROVE  PassKept(w) \/ PassEnds(w)
  <2>1. \/ Stop(v)
        \/ /\ pc[v] \in Busy /\ UNCHANGED <<cur, targets, pending>>
           /\ \E step \in Busy : Goto(v, step)
    BY <1>9 DEF InsertRows, RecordCommit, AdvanceWatermarks, Fails, Busy
  <2>2. CASE /\ pc[v] \in Busy /\ UNCHANGED <<cur, targets, pending>>
             /\ \E step \in Busy : Goto(v, step)
    BY <1>1, <2>2 DEF Goto, PassKept, TypeOK
  <2>3. QED
    BY <1>2, <2>1, <2>2
<1>10. ASSUME NEW v \in Writers, PublishVersions(v)
       PROVE  PassKept(w) \/ PassEnds(w) \/ PassPublished(w)
  <2>1. CASE /\ Goto(v, IF v = "tableflow" THEN "commit" ELSE "next")
             /\ cur' = [cur EXCEPT ![v] = NoSnapshot] /\ targets' = [targets EXCEPT ![v] = {}]
             /\ UNCHANGED pending
    <3>1. CASE w = v
      BY <1>1, <1>10, <2>1, <3>1 DEF PublishVersions, Goto, PassPublished, TypeOK, Busy
    <3>2. CASE w # v
      BY <1>1, <2>1, <3>2 DEF Goto, PassKept, TypeOK
    <3>3. QED
      BY <3>1, <3>2
  <2>2. QED
    BY <1>2, <1>10, <2>1 DEF PublishVersions, Fails
<1>11. ASSUME NEW v \in Writers, Crash(v) PROVE PassKept(w) \/ PassEnds(w)
  BY <1>2, <1>11 DEF Crash
<1>12. CASE CommitMessage \/ AppendCommit \/ UNCHANGED vars
  <2>1. UNCHANGED <<cur, targets, pending>> /\ pc'[w] = pc[w]
    BY <1>1, <1>12 DEF CommitMessage, AppendCommit, Goto, TypeOK, vars, work
  <2>2. QED
    BY <2>1 DEF PassKept
<1>13. QED
  BY <1>4, <1>5, <1>6, <1>7, <1>8, <1>9, <1>10, <1>11, <1>12, Steps

LEMMA PassInOrderStep ==
  ASSUME TypeOK, WorkDone, [Next]_vars, MarksCovered,
         NEW w \in LakeWriters, PassInOrder(w), WorkInOrder(w)
  PROVE  PassInOrder(w)'
<1> SUFFICES ASSUME NEW m \in pending'[w], NEW k \in 1 .. m, k \notin pending'[w]
             PROVE  Caught(w, k)' \/ (pc'[w] \in Busy /\ cur'[w] = Iceberg(k))
  BY DEF PassInOrder, Busy, Iceberg
<1>1. w \in Writers
  BY DEF LakeWriters, Writers
<1>2. CASE PassKept(w)
  <2>1. m \in pending[w] /\ k \notin pending[w]
    BY <1>2 DEF PassKept
  <2>2. Caught(w, k) \/ (pc[w] \in Busy /\ cur[w] = Iceberg(k))
    BY <2>1 DEF PassInOrder
  <2>3. QED
    BY <1>2, <2>2, CaughtGrows DEF PassKept
<1>3. CASE PassEnds(w) \/ PassBegins(w)
  <2>1. Running(w) /\ pending'[w] = Commits(w)
    BY <1>3 DEF PassEnds, PassBegins
  <2>2. lake \in Nat /\ deployment.from[w] \in Nat
    BY <1>1, SizesAssumption, SettingsType DEF TypeOK
  <2>3. m \in 1 .. lake /\ m >= deployment.from[w] /\ (k \in 1 .. lake => k < deployment.from[w])
    BY <2>1, <2>2 DEF Commits
  <2>4. k < deployment.from[w]
    BY <2>2, <2>3
  <2>5. LeftOut(k)
    BY <2>1, <2>4 DEF LeftOut, Running
  <2>6. Caught(w, k)
    BY <2>5 DEF Caught, Has
  <2>7. QED
    BY <2>6, CaughtGrows
<1>4. CASE PassSelects(w)
  <2>1. PICK n \in pending[w] :
          /\ pc[w] = "next" /\ pc'[w] = "rows" /\ cur'[w] = Iceberg(n)
          /\ pending'[w] \subseteq pending[w] \ {n} /\ pending[w] \ (1 .. n) \subseteq pending'[w]
          /\ \A i \in pending[w] : i < n => w = "incremental" /\ TargetsFor(i) = {}
    BY <1>4 DEF PassSelects
  <2>2. m \in pending[w] /\ pending[w] \subseteq Nat
    BY <1>1, <2>1 DEF TypeOK
  <2>3. CASE k = n
    BY <2>1, <2>3 DEF Busy
  <2>4. CASE k \in pending[w] /\ k # n
    <3>1. k < n /\ n \in Nat
      BY <2>1, <2>2, <2>4
    <3>2. w = "incremental" /\ TargetsFor(k) = {}
      BY <2>1, <2>4, <3>1
    <3>3. \A t \in Tables : marks[t] \in Nat /\ ~(marks[t] < k)
      BY <3>2 DEF TargetsFor, TypeOK
    <3>4. \A t \in Tables : k \in 1 .. marks[t]
      BY <2>2, <3>3
    <3>5. Caught(w, k)
      BY <2>1, <3>2, <3>4 DEF MarksCovered, Caught, Scope
    <3>6. QED
      BY <3>5, CaughtGrows
  <2>5. CASE k \notin pending[w]
    <3>1. Caught(w, k)
      BY <2>1, <2>2, <2>5 DEF PassInOrder, Busy
    <3>2. QED
      BY <3>1, CaughtGrows
  <2>6. QED
    BY <2>3, <2>4, <2>5
<1>5. CASE PassPublished(w)
  <2>1. m \in pending[w] /\ k \notin pending[w] /\ pc[w] = "versions"
    BY <1>5 DEF PassPublished
  <2>2. CASE Caught(w, k)
    BY <2>2, CaughtGrows
  <2>3. CASE cur[w] = Iceberg(k)
    <3>1. PICK n \in Nat \ {0} : cur[w] = Iceberg(n) /\ \A t \in Scope(w) \ targets[w] : Has(t, n)
      BY <2>1 DEF WorkInOrder, Busy
    <3>2. \A t \in targets[w] : Served(cur[w], t)
      BY <1>1, <2>1 DEF WorkDone, Owed, Busy
    <3>3. Caught(w, n) /\ n = k
      BY <2>3, <3>1, <3>2 DEF Caught, Has, Iceberg
    <3>4. QED
      BY <3>3, CaughtGrows
  <2>4. QED
    BY <2>1, <2>2, <2>3 DEF PassInOrder
<1>6. QED
  BY <1>2, <1>3, <1>4, <1>5, PassStep

LEMMA WorkInOrderStep ==
  ASSUME TypeOK, WorkDone, [Next]_vars, MarksCovered,
         NEW w \in LakeWriters, PassInOrder(w), WorkInOrder(w)
  PROVE  WorkInOrder(w)'
<1> SUFFICES ASSUME pc'[w] \in Busy
             PROVE  /\ targets'[w] \subseteq Scope(w)
                    /\ \E n \in Nat \ {0} : /\ cur'[w] = Iceberg(n)
                                            /\ \A k \in 1 .. n - 1 : Caught(w, k)
                                            /\ \A t \in Scope(w) \ targets'[w] : Has(t, n)
  <2>1. Scope(w)' = Scope(w) /\ Scope(w) \subseteq Tables
    BY CaughtGrows, RebuildTables DEF Scope, RebuildTargets, TypeOK
  <2>2. QED
    BY <2>1, CaughtGrows DEF WorkInOrder, Busy, Iceberg
<1>1. w \in Writers
  BY DEF LakeWriters, Writers
<1>2. CASE PassKept(w)
  <2>1. PICK n \in Nat \ {0} : /\ cur[w] = Iceberg(n)
                               /\ \A k \in 1 .. n - 1 : Caught(w, k)
                               /\ \A t \in Scope(w) \ targets[w] : Has(t, n)
    BY <1>2 DEF PassKept, WorkInOrder
  <2>2. cur'[w] = cur[w] /\ targets'[w] = targets[w] /\ targets[w] \subseteq Scope(w)
    BY <1>2 DEF PassKept, WorkInOrder
  <2>3. QED
    BY <2>1, <2>2
<1>3. CASE PassSelects(w)
  <2>1. PICK n \in pending[w] :
          /\ pc[w] = "next" /\ cur'[w] = Iceberg(n)
          /\ \A i \in pending[w] : i < n => w = "incremental" /\ TargetsFor(i) = {}
          /\ targets'[w] \subseteq Scope(w)
          /\ \A t \in Scope(w) \ targets'[w] : w = "incremental" /\ ~(marks[t] < n)
    BY <1>3 DEF PassSelects
  <2>2. n \in Nat \ {0}
    BY <1>1 DEF TypeOK
  <2>3. ASSUME NEW k \in 1 .. n - 1 PROVE Caught(w, k)
    <3>1. CASE k \in pending[w]
      <4>1. w = "incremental" /\ TargetsFor(k) = {}
        BY <2>1, <2>2, <3>1
      <4>2. \A t \in Tables : marks[t] \in Nat /\ ~(marks[t] < k)
        BY <4>1 DEF TargetsFor, TypeOK
      <4>3. \A t \in Tables : k \in 1 .. marks[t]
        BY <2>2, <4>2
      <4>4. QED
        BY <2>1, <4>1, <4>3 DEF MarksCovered, Caught, Scope
    <3>2. CASE k \notin pending[w]
      BY <2>1, <2>2, <3>2 DEF PassInOrder, Busy
    <3>3. QED
      BY <3>1, <3>2
  <2>4. ASSUME NEW t \in Scope(w) \ targets'[w] PROVE Has(t, n)
    <3>1. w = "incremental" /\ t \in Tables /\ marks[t] \in Nat /\ ~(marks[t] < n)
      BY <2>1 DEF TypeOK, Scope
    <3>2. n \in 1 .. marks[t]
      BY <2>2, <3>1
    <3>3. QED
      BY <2>1, <3>1, <3>2 DEF MarksCovered
  <2>5. QED
    BY <2>1, <2>2, <2>3, <2>4
<1>4. QED
  BY <1>2, <1>3, PassStep DEF PassEnds, PassBegins, PassPublished

\* What a step does with the pass' copy of the watermarks.
LEMMA MarksStep ==
  ASSUME TypeOK, [Next]_vars
  PROVE  \/ /\ UNCHANGED marks
            /\ pc'["incremental"] \in Busy \cup {"next"} => pc["incremental"] \in Busy \cup {"next"}
         \/ marks' = watermark
         \/ /\ pc["incremental"] = "versions"
            /\ marks' = [t \in Tables |-> IF t \in targets["incremental"]
                                          THEN SequenceNumber(cur["incremental"]) ELSE marks[t]]
<1> DEFINE Same == /\ UNCHANGED marks
                   /\ pc'["incremental"] \in Busy \cup {"next"} => pc["incremental"] \in Busy \cup {"next"}
<1>1. Writers = {"tableflow", "incremental", "rebuild"}
  BY DEF Writers
<1>2. ASSUME NEW v \in Writers, Stop(v), UNCHANGED marks PROVE Same
  BY <1>1, <1>2 DEF Stop, Goto, TypeOK, Busy
<1>3. ASSUME NEW v \in Writers, v # "incremental", NEW step, Goto(v, step), UNCHANGED marks PROVE Same
  BY <1>1, <1>3 DEF Goto, TypeOK
<1>4. ASSUME NEW p \in Partitions, Produce(p) \/ ReceiveBatch(p) PROVE Same
  BY <1>1, <1>4 DEF Produce, ReceiveBatch, Start, Goto, work, TypeOK
<1>5. CASE ReadCommits \/ SelectCommit
  BY <1>1, <1>5 DEF ReadCommits, SelectCommit, Start, Goto, TypeOK, Busy
<1>6. CASE StartRebuild \/ RebuildCommit
  BY <1>1, <1>3, <1>6 DEF StartRebuild, RebuildCommit, Start
<1>7. ASSUME NEW v \in Writers, InsertRows(v) \/ RecordCommit(v) \/ AdvanceWatermarks(v) PROVE Same
  <2>1. UNCHANGED marks /\ (Stop(v) \/ (pc[v] \in Busy /\ \E step \in Busy : Goto(v, step)))
    BY <1>7 DEF InsertRows, RecordCommit, AdvanceWatermarks, Fails, Busy
  <2>2. CASE pc[v] \in Busy /\ \E step \in Busy : Goto(v, step)
    BY <1>3, <2>1, <2>2
  <2>3. QED
    BY <1>2, <2>1, <2>2
<1>8. ASSUME NEW v \in Writers, PublishVersions(v)
      PROVE  \/ Same
             \/ /\ pc["incremental"] = "versions"
                /\ marks' = [t \in Tables |-> IF t \in targets["incremental"]
                                              THEN SequenceNumber(cur["incremental"]) ELSE marks[t]]
  <2>1. CASE Stop(v) /\ UNCHANGED marks
    BY <1>2, <2>1
  <2>2. CASE /\ Goto(v, IF v = "tableflow" THEN "commit" ELSE "next")
             /\ marks' = IF v = "incremental"
                         THEN [t \in Tables |-> IF t \in targets[v] THEN SequenceNumber(cur[v])
                                                ELSE marks[t]]
                         ELSE marks
    <3>1. pc[v] = "versions"
      BY <1>8 DEF PublishVersions
    <3>2. QED
      BY <1>3, <2>2, <3>1
  <2>3. QED
    BY <1>8, <2>1, <2>2 DEF PublishVersions, Fails
<1>9. ASSUME NEW v \in Writers, Crash(v) PROVE Same
  BY <1>2, <1>9 DEF Crash
<1>10. CASE CommitMessage \/ AppendCommit \/ UNCHANGED vars
  BY <1>1, <1>10 DEF CommitMessage, AppendCommit, Goto, TypeOK, vars, work
<1>11. QED
  BY <1>4, <1>5, <1>6, <1>7, <1>8, <1>9, <1>10, Steps DEF ReadWatermarks

LEMMA MarksCoveredStep ==
  ASSUME TypeOK, WorkDone, [Next]_vars, MarksCovered, WatermarkCovered, WorkInOrder("incremental")
  PROVE  MarksCovered'
<1> SUFFICES ASSUME pc'["incremental"] \in Busy \cup {"next"}, NEW t \in Tables, NEW k \in 1 .. marks'[t]
             PROVE  Has(t, k)
  BY CaughtGrows DEF MarksCovered, Busy
<1>1. CASE UNCHANGED marks /\ pc["incremental"] \in Busy \cup {"next"}
  BY <1>1 DEF MarksCovered
<1>2. CASE marks' = watermark
  BY <1>2 DEF WatermarkCovered
<1>3. CASE /\ pc["incremental"] = "versions"
           /\ marks' = [u \in Tables |-> IF u \in targets["incremental"]
                                         THEN SequenceNumber(cur["incremental"]) ELSE marks[u]]
  <2>1. PICK n \in Nat \ {0} : cur["incremental"] = Iceberg(n) /\ \A i \in 1 .. n - 1 : Caught("incremental", i)
    BY <1>3 DEF WorkInOrder, Busy
  <2>2. CASE t \in targets["incremental"]
    <3>1. k \in 1 .. n
      BY <1>3, <2>1, <2>2, SequenceNumbers
    <3>2. CASE k = n
      BY <1>3, <2>1, <2>2, <3>2 DEF WorkDone, Owed, Has, Busy, Writers
    <3>3. CASE k # n
      <4>1. k \in 1 .. n - 1
        BY <3>1, <3>3
      <4>2. QED
        BY <2>1, <4>1 DEF Caught, Scope
    <3>4. QED
      BY <3>2, <3>3
  <2>3. CASE t \notin targets["incremental"]
    BY <1>3, <2>3 DEF MarksCovered, Busy
  <2>4. QED
    BY <2>2, <2>3
<1>4. QED
  BY <1>1, <1>2, <1>3, MarksStep

LEMMA WatermarkCoveredStep ==
  ASSUME TypeOK, WorkDone, [Next]_vars, WatermarkCovered, pc["tableflow"] = "idle",
         \A w \in LakeWriters : WorkInOrder(w)
  PROVE  WatermarkCovered'
<1> SUFFICES ASSUME NEW t \in Tables, NEW k \in 1 .. watermark'[t] PROVE Has(t, k)
  BY CaughtGrows DEF WatermarkCovered
<1>1. CASE watermark'[t] = watermark[t]
  BY <1>1 DEF WatermarkCovered
<1>2. ASSUME NEW w \in Writers, pc[w] = "watermark", watermark' = Advanced(w),
             watermark'[t] # watermark[t]
      PROVE  Has(t, k)
  <2>1. w \in LakeWriters
    BY <1>2 DEF Writers, LakeWriters
  <2>2. PICK n \in Nat \ {0} : cur[w] = Iceberg(n) /\ \A i \in 1 .. n - 1 : Caught(w, i)
    BY <1>2, <2>1 DEF WorkInOrder, Busy
  <2>3. t \in targets[w] /\ t \in Scope(w) /\ watermark'[t] = SequenceNumber(cur[w])
    BY <1>2, <2>1 DEF Advanced, WorkInOrder, Busy
  <2>4. k \in 1 .. n
    BY <2>2, <2>3, SequenceNumbers
  <2>5. CASE k = n
    BY <1>2, <2>2, <2>3, <2>5 DEF WorkDone, Owed, Has, Busy
  <2>6. CASE k # n
    <3>1. k \in 1 .. n - 1
      BY <2>4, <2>6
    <3>2. QED
      BY <2>2, <2>3, <3>1 DEF Caught
  <2>7. QED
    BY <2>5, <2>6
<1>3. QED
  BY <1>1, <1>2, WatermarkStep

\* Without a Tableflow materializer only Iceberg commits are recorded.
LEMMA RecordedStep ==
  ASSUME TypeOK, [Next]_vars, "tableflow" \notin deployment.writers, pc["tableflow"] = "idle",
         \A w \in LakeWriters : WorkInOrder(w)
  PROVE  /\ deployment' = deployment
         /\ pc'["tableflow"] = "idle"
         /\ recorded' = recorded \/ \E n \in Nat \ {0} : recorded' = recorded \cup {Iceberg(n)}
<1>1. Writers = {"tableflow", "incremental", "rebuild"}
  BY DEF Writers
<1>2. deployment' = deployment
  BY Steps DEF Produce, ReceiveBatch, ReadCommits, ReadWatermarks, SelectCommit, StartRebuild, RebuildCommit,
     InsertRows, RecordCommit, AdvanceWatermarks, PublishVersions, Crash, CommitMessage, AppendCommit, vars
<1>3. ASSUME NEW v \in Writers, Goto(v, "idle") \/ (v # "tableflow" /\ \E step : Goto(v, step))
      PROVE  pc'["tableflow"] = "idle"
  BY <1>1, <1>3 DEF Goto, TypeOK
<1>4. ASSUME NEW p \in Partitions, Produce(p) \/ ReceiveBatch(p) PROVE FALSE
  BY <1>4 DEF Produce, ReceiveBatch, Running
<1>5. CASE ReadCommits \/ ReadWatermarks \/ SelectCommit \/ StartRebuild \/ RebuildCommit
  <2>1. UNCHANGED recorded /\ \E v \in LakeWriters : \E step : Goto(v, step)
    BY <1>5 DEF ReadCommits, ReadWatermarks, SelectCommit, StartRebuild, RebuildCommit, Start,
       serving, LakeWriters
  <2>2. QED
    BY <1>1, <1>2, <1>3, <2>1 DEF LakeWriters
<1>6. ASSUME NEW v \in Writers, InsertRows(v) \/ AdvanceWatermarks(v) \/ PublishVersions(v)
      PROVE  UNCHANGED recorded /\ pc'["tableflow"] = "idle"
  <2>1. UNCHANGED recorded /\ v # "tableflow" /\ \E step : Goto(v, step)
    BY <1>6 DEF InsertRows, AdvanceWatermarks, PublishVersions, Fails, Stop
  <2>2. QED
    BY <1>3, <2>1
<1>7. ASSUME NEW v \in Writers, RecordCommit(v)
      PROVE  /\ pc'["tableflow"] = "idle"
             /\ recorded' = recorded \/ \E n \in Nat \ {0} : recorded' = recorded \cup {Iceberg(n)}
  <2>1. /\ pc[v] = "record" /\ v # "tableflow" /\ \E step : Goto(v, step)
        /\ recorded' = recorded \/ recorded' = recorded \cup {cur[v]}
    BY <1>7 DEF RecordCommit, Fails, Stop
  <2>2. \E n \in Nat \ {0} : cur[v] = Iceberg(n)
    BY <1>1, <2>1 DEF LakeWriters, WorkInOrder, Busy
  <2>3. QED
    BY <1>3, <2>1, <2>2
<1>8. ASSUME NEW v \in Writers, Crash(v) PROVE UNCHANGED recorded /\ pc'["tableflow"] = "idle"
  BY <1>3, <1>8 DEF Crash, Stop, serving
<1>9. CASE CommitMessage \/ AppendCommit \/ UNCHANGED vars
  BY <1>9 DEF CommitMessage, AppendCommit, vars, serving
<1>10. QED
  BY <1>2, <1>4, <1>5, <1>6, <1>7, <1>8, <1>9, Steps

LEMMA LakehouseInit == Init => LakehouseOnly
<1> SUFFICES ASSUME Init PROVE LakehouseOnly
  OBVIOUS
<1>1. lake \in Nat
  BY SizesAssumption, SettingsType DEF Init
<1>2. /\ \A w \in Writers : pc[w] = "idle" /\ pending[w] = {}
      /\ \A t \in Tables : /\ watermark[t] = 0 \/ watermark[t] = lake
                           /\ watermark[t] = 0
                              \/ rows[t] = {<<Iceberg(n), "incremental">> : n \in 1 .. lake}
      /\ recorded \subseteq {Iceberg(n) : n \in 1 .. lake}
  BY DEF Init
<1>3. WatermarkCovered
  <2> SUFFICES ASSUME NEW t \in Tables, NEW k \in 1 .. watermark[t] PROVE Has(t, k)
    BY DEF WatermarkCovered
  <2>1. k \in 1 .. lake /\ rows[t] = {<<Iceberg(n), "incremental">> : n \in 1 .. lake}
    BY <1>2
  <2>2. <<Iceberg(k), "incremental">> \in rows[t]
    BY <2>1
  <2>3. QED
    BY <2>2 DEF Served, Has
<1>4. recorded \subseteq {Iceberg(n) : n \in Nat \ {0}}
  BY <1>1, <1>2
<1>5. QED
  BY <1>2, <1>3, <1>4 DEF LakehouseOnly, MarksCovered, PassInOrder, WorkInOrder, Busy, Writers, LakeWriters

LEMMA LakehouseStep == TypeOK /\ WorkDone /\ LakehouseOnly /\ [Next]_vars => LakehouseOnly'
<1> SUFFICES ASSUME TypeOK, WorkDone, LakehouseOnly, [Next]_vars, "tableflow" \notin deployment.writers'
             PROVE  LakehouseOnly'
  BY DEF LakehouseOnly
<1>1. deployment' = deployment
  BY Steps DEF Produce, ReceiveBatch, ReadCommits, ReadWatermarks, SelectCommit, StartRebuild, RebuildCommit,
     InsertRows, RecordCommit, AdvanceWatermarks, PublishVersions, Crash, CommitMessage, AppendCommit, vars
<1>2. /\ "tableflow" \notin deployment.writers /\ pc["tableflow"] = "idle"
      /\ recorded \subseteq {Iceberg(n) : n \in Nat \ {0}}
      /\ \A w \in LakeWriters : PassInOrder(w) /\ WorkInOrder(w)
      /\ MarksCovered /\ WatermarkCovered
  BY <1>1 DEF LakehouseOnly
<1>3. /\ pc'["tableflow"] = "idle"
      /\ recorded' = recorded \/ \E n \in Nat \ {0} : recorded' = recorded \cup {Iceberg(n)}
  BY <1>2, RecordedStep
<1>4. recorded' \subseteq {Iceberg(n) : n \in Nat \ {0}}
  BY <1>2, <1>3
<1>5. \A w \in LakeWriters : PassInOrder(w)' /\ WorkInOrder(w)'
  BY <1>2, PassInOrderStep, WorkInOrderStep
<1>6. MarksCovered'
  BY <1>2, MarksCoveredStep DEF LakeWriters
<1>7. WatermarkCovered'
  BY <1>2, WatermarkCoveredStep
<1>8. (\A w \in LakeWriters : PassInOrder(w) /\ WorkInOrder(w))'
  BY <1>5 DEF LakeWriters
<1>9. QED
  BY <1>3, <1>4, <1>6, <1>7, <1>8, Zenon DEF LakehouseOnly, Iceberg

LEMMA LakehouseAlways == Spec => [](TypeOK /\ LakehouseOnly)
BY LakehouseInit, LakehouseStep, WorkDoneAlways, PTL DEF Spec

\* Where only the lakehouse is materialized, a table has all the commits up to its
\* watermark, however passes fail and end and whatever a rebuild does beside them.
THEOREM WatermarksCoverTheLakehouse == Spec => []WatermarkCoversTheLakehouse
<1>1. LakehouseOnly => WatermarkCoversTheLakehouse
  BY DEF LakehouseOnly, WatermarkCovered, Has, WatermarkCoversTheLakehouse
<1>2. QED
  BY <1>1, LakehouseAlways, PTL

\* A read that ensure_serving_fresh lets pass finds the rows of every recorded commit
\* there, tables added later included.
THEOREM FreshReadsAreComplete == Spec => []FreshReadsSeeTheLakehouse
<1>1. TypeOK /\ LakehouseOnly => FreshReadsSeeTheLakehouse
  <2> SUFFICES ASSUME TypeOK, LakehouseOnly, "tableflow" \notin deployment.writers, NEW t \in Tables, Fresh(t),
                      NEW s \in recorded
               PROVE  LeftOut(SequenceNumber(s)) \/ Served(s, t)
    BY DEF FreshReadsSeeTheLakehouse
  <2>1. PICK n \in Nat \ {0} : s = Iceberg(n)
    BY DEF LakehouseOnly
  <2>2. n <= watermark[t] /\ watermark[t] \in Nat
    BY <2>1, SequenceNumbers DEF Fresh, TypeOK
  <2>3. n \in 1 .. watermark[t]
    BY <2>2
  <2>4. QED
    BY <2>1, <2>3, SequenceNumbers DEF LakehouseOnly, WatermarkCovered, Has
<1>2. QED
  BY <1>1, LakehouseAlways, PTL
-----------------------------------------------------------------------------
(* The Tableflow materializer implements OffsetContract. *)

Published == UNION {{<<p, o>> : o \in 0 .. Len(log[p]) - 1} : p \in Partitions}

Finished(m) ==
  \/ Record(m).kind = "empty"
  \/ /\ Record(m).kind = "batch"
     /\ Record(m).snapshot \in recorded \cap versions
     /\ \A t \in Tables : Served(Record(m).snapshot, t) /\ SequenceNumber(Record(m).snapshot) <= watermark[t]

LEMMA SettledAreFinished == Settled = {m \in Published : Finished(m)}
BY DEF Settled, Published, Finished

LEMMA PublishedIds ==
  ASSUME TypeOK
  PROVE  /\ \A m \in Published : /\ m \in Partitions \X Nat /\ m[2] < Len(log[m[1]])
                                  /\ m[2] + 1 \in DOMAIN log[m[1]] /\ Record(m) \in Messages
         /\ \A p \in Partitions, o \in Nat : o < Len(log[p]) => <<p, o>> \in Published
<1>1. \A p \in Partitions : log[p] \in Seq(Messages) /\ Len(log[p]) \in Nat
  BY DEF TypeOK
<1>2. ASSUME NEW m \in Published
      PROVE  /\ m \in Partitions \X Nat /\ m[2] < Len(log[m[1]])
             /\ m[2] + 1 \in DOMAIN log[m[1]] /\ Record(m) \in Messages
  <2>1. PICK p \in Partitions : m \in {<<p, o>> : o \in 0 .. Len(log[p]) - 1}
    BY DEF Published
  <2>2. PICK o \in 0 .. Len(log[p]) - 1 : m = <<p, o>>
    BY <2>1
  <2>3. o \in Nat /\ o < Len(log[p]) /\ o + 1 \in DOMAIN log[p] /\ log[p][o + 1] \in Messages
    BY <1>1
  <2>4. QED
    BY <2>2, <2>3 DEF Record
<1>3. ASSUME NEW p \in Partitions, NEW o \in Nat, o < Len(log[p]) PROVE <<p, o>> \in Published
  <2>1. o \in 0 .. Len(log[p]) - 1
    BY <1>1, <1>3
  <2>2. QED
    BY <2>1 DEF Published
<1>4. QED
  BY <1>2, <1>3

\* The topic changes by a record the normalizer produces.
LEMMA LogStep ==
  ASSUME [Next]_vars
  PROVE  UNCHANGED log \/ \E p \in Partitions : Produce(p)
BY Steps DEF ReceiveBatch, ReadCommits, ReadWatermarks, SelectCommit, StartRebuild, RebuildCommit,
   InsertRows, RecordCommit, AdvanceWatermarks, PublishVersions, Crash, CommitMessage, AppendCommit,
   kafka, vars

LEMMA LogGrows ==
  ASSUME TypeOK, [Next]_vars
  PROVE  Published \subseteq Published' /\ \A m \in Published : Record(m)' = Record(m)
<1>1. CASE UNCHANGED log
  BY <1>1 DEF Published, Record
<1>2. ASSUME NEW p \in Partitions, Produce(p)
      PROVE  Published \subseteq Published' /\ \A m \in Published : Record(m)' = Record(m)
  <2>1. PICK r \in Messages : log' = [log EXCEPT ![p] = Append(@, r)]
    BY <1>2 DEF Produce
  <2>2. \A q \in Partitions : /\ Len(log[q]) \in Nat /\ Len(log'[q]) \in Nat /\ Len(log[q]) <= Len(log'[q])
                              /\ \A i \in 1 .. Len(log[q]) : log'[q][i] = log[q][i]
    BY <2>1 DEF TypeOK
  <2>3. ASSUME NEW m \in Published PROVE m \in Published' /\ Record(m)' = Record(m)
    <3>1. PICK q \in Partitions : m \in {<<q, o>> : o \in 0 .. Len(log[q]) - 1}
      BY DEF Published
    <3>2. PICK o \in 0 .. Len(log[q]) - 1 : m = <<q, o>>
      BY <3>1
    <3>3. o \in 0 .. Len(log'[q]) - 1 /\ o + 1 \in 1 .. Len(log[q])
      BY <2>2
    <3>4. m \in Published'
      BY <3>2, <3>3 DEF Published
    <3>5. log'[q][o + 1] = log[q][o + 1]
      BY <2>2, <3>3
    <3>6. QED
      BY <3>2, <3>4, <3>5 DEF Record
  <2>4. QED
    BY <2>3
<1>3. QED
  BY <1>1, <1>2, LogStep

\* Durable effects and reported errors stay.
LEMMA EffectsGrow ==
  ASSUME TypeOK, [Next]_vars
  PROVE  /\ recorded \subseteq recorded' /\ versions \subseteq versions' /\ skipped \subseteq skipped'
         /\ \A t \in Tables : watermark[t] <= watermark'[t]
<1>1. ASSUME NEW w \in Writers, InsertRows(w) \/ RecordCommit(w) \/ PublishVersions(w) \/ AdvanceWatermarks(w)
      PROVE  recorded \subseteq recorded' /\ versions \subseteq versions' /\ skipped \subseteq skipped'
  <2>1. ASSUME Fails(w) \/ UNCHANGED skipped PROVE skipped \subseteq skipped'
    BY <2>1 DEF Fails
  <2>2. CASE InsertRows(w)
    BY <2>1, <2>2 DEF InsertRows
  <2>3. CASE RecordCommit(w)
    BY <2>1, <2>3 DEF RecordCommit
  <2>4. CASE PublishVersions(w)
    BY <2>1, <2>4 DEF PublishVersions
  <2>5. CASE AdvanceWatermarks(w)
    BY <2>1, <2>5 DEF AdvanceWatermarks
  <2>6. QED
    BY <1>1, <2>2, <2>3, <2>4, <2>5
<1>2. ASSUME NEW w \in Writers, Crash(w)
      PROVE  UNCHANGED <<recorded, versions, skipped>>
  BY <1>2 DEF Crash, serving
<1>3. ASSUME NEW p \in Partitions, Produce(p) \/ ReceiveBatch(p)
      PROVE  recorded \subseteq recorded' /\ versions \subseteq versions' /\ skipped \subseteq skipped'
  BY <1>3 DEF Produce, ReceiveBatch, serving
<1>4. ASSUME \/ ReadCommits \/ ReadWatermarks \/ SelectCommit \/ StartRebuild \/ RebuildCommit
             \/ CommitMessage \/ AppendCommit \/ UNCHANGED vars
      PROVE  UNCHANGED <<recorded, versions, skipped>>
  BY <1>4 DEF ReadCommits, ReadWatermarks, SelectCommit, StartRebuild, RebuildCommit, CommitMessage,
     AppendCommit, serving, kafka, vars
<1>5. \A t \in Tables : watermark[t] <= watermark'[t]
  <2>1. ASSUME NEW w \in Writers, pc[w] = "watermark", watermark' = Advanced(w), NEW t \in Tables
        PROVE  watermark[t] <= watermark'[t]
    <3>1. SequenceNumber(cur[w]) \in Nat /\ watermark[t] \in Nat
      BY <2>1, SequenceNumbers DEF TypeOK
    <3>2. QED
      BY <2>1, <3>1 DEF Advanced
  <2>2. CASE UNCHANGED watermark
    BY <2>2 DEF TypeOK
  <2>3. QED
    BY <2>1, <2>2, WatermarkStep
<1>6. QED
  BY <1>1, <1>2, <1>3, <1>4, <1>5, Steps

LEMMA SettledGrows ==
  ASSUME TypeOK, [Next]_vars
  PROVE  Settled \subseteq Settled'
<1> SUFFICES ASSUME NEW m \in Published, Finished(m) PROVE m \in Published' /\ Finished(m)'
  BY SettledAreFinished DEF Settled, Published, Finished
<1>1. m \in Published' /\ Record(m)' = Record(m)
  BY LogGrows
<1>2. CASE Record(m).kind = "empty"
  BY <1>1, <1>2 DEF Finished
<1>3. CASE Record(m).kind = "batch"
  <2>1. Record(m).snapshot \in Snapshots
    BY PublishedIds, MessagesAssumption DEF Snapshots
  <2>2. Record(m).snapshot \in recorded' \cap versions'
    BY <1>3, EffectsGrow DEF Finished
  <2>3. ASSUME NEW t \in Tables
        PROVE  /\ \E r \in rows'[t] : r[1] = Record(m).snapshot
               /\ SequenceNumber(Record(m).snapshot) <= watermark'[t]
    <3>1. /\ \E r \in rows[t] : r[1] = Record(m).snapshot
          /\ SequenceNumber(Record(m).snapshot) <= watermark[t]
      BY <1>3 DEF Finished, Served
    <3>2. SequenceNumber(Record(m).snapshot) \in Nat /\ watermark[t] \in Nat /\ watermark'[t] \in Nat
      BY <2>1, SequenceNumbers, NextType DEF TypeOK
    <3>3. rows[t] \subseteq rows'[t] /\ watermark[t] <= watermark'[t]
      BY RowsGrow, EffectsGrow
    <3>4. QED
      BY <3>1, <3>2, <3>3
  <2>4. QED
    BY <1>1, <1>3, <2>2, <2>3 DEF Finished, Served, SequenceNumber
<1>4. QED
  BY <1>2, <1>3 DEF Finished

\* What the Tableflow materializer knows of the record it processes: in "commit" all its
\* effects exist.
MessageInHand ==
  LET w == "tableflow" IN
  current # NoMessage =>
    /\ current \in Published
    /\ pc[w] \in Busy => /\ Record(current).kind = "batch" /\ Record(current).snapshot = cur[w]
                         /\ targets[w] = Tables
    /\ pc[w] \in {"watermark", "versions"} => cur[w] \in recorded
    /\ pc[w] = "versions" => \A t \in Tables : SequenceNumber(cur[w]) <= watermark[t]
    /\ pc[w] = "commit" => Finished(current)

\* What a step does with the record in hand, the offsets and the reported errors.
HandKept ==
  /\ UNCHANGED <<committed, position, current, skipped>>
  /\ pc'["tableflow"] = pc["tableflow"]
  /\ cur'["tableflow"] = cur["tableflow"] /\ targets'["tableflow"] = targets["tableflow"]
HandReceives ==
  \E p \in Partitions : LET m == <<p, position[p]>> IN
    /\ current = NoMessage /\ position[p] < Len(log[p])
    /\ position' = [position EXCEPT ![p] = @ + 1] /\ UNCHANGED <<log, committed>>
    /\ \/ skipped' = skipped \cup {m} /\ current' = NoMessage
       \/ /\ current' = m /\ UNCHANGED skipped
          /\ \/ Record(m).kind = "empty" /\ pc'["tableflow"] = "commit"
             \/ /\ Record(m).kind = "batch" /\ pc'["tableflow"] = "rows"
                /\ cur'["tableflow"] = Record(m).snapshot /\ targets'["tableflow"] = Tables
HandGoesOn ==
  LET w == "tableflow" IN
  /\ current # NoMessage
  /\ UNCHANGED <<log, committed, position, current, skipped>>
  /\ \/ /\ pc[w] \in Busy /\ cur'[w] = cur[w] /\ targets'[w] = targets[w]
        /\ \/ pc'[w] \in {"rows", "record"}
           \/ pc'[w] = "watermark" /\ cur[w] \in recorded'
           \/ pc[w] = "watermark" /\ pc'[w] = "versions" /\ watermark' = Advanced(w)
     \/ pc[w] = "versions" /\ pc'[w] = "commit" /\ cur[w] \in versions'
HandFails ==
  /\ current # NoMessage /\ current' = NoMessage /\ skipped' = skipped \cup {current}
  /\ UNCHANGED <<log, committed, position>>
HandCommits ==
  /\ pc["tableflow"] = "commit" /\ Acknowledge /\ current' = NoMessage
  /\ position' \in {position, committed'} /\ UNCHANGED <<log, skipped, serving>>
HandCrashes ==
  /\ UNCHANGED <<log, committed, skipped>> /\ position' = committed /\ current' = NoMessage

LEMMA HandStep ==
  ASSUME TypeOK, [Next]_vars
  PROVE  HandKept \/ HandReceives \/ HandGoesOn \/ HandFails \/ HandCommits \/ HandCrashes
<1>1. Writers = {"tableflow", "incremental", "rebuild"}
  BY DEF Writers
<1>2. ASSUME NEW v \in LakeWriters, NEW step, Goto(v, step), UNCHANGED <<committed, position, current, skipped>>,
             cur' = cur \/ \E s : cur' = [cur EXCEPT ![v] = s],
             targets' = targets \/ \E ts : targets' = [targets EXCEPT ![v] = ts]
      PROVE  HandKept
  BY <1>1, <1>2 DEF Goto, HandKept, TypeOK, LakeWriters
<1>3. CASE \/ ReadCommits \/ ReadWatermarks \/ SelectCommit \/ StartRebuild \/ RebuildCommit
  <2>1. UNCHANGED <<committed, position, current, skipped>>
    BY <1>3 DEF ReadCommits, ReadWatermarks, SelectCommit, StartRebuild, RebuildCommit, kafka
  <2>2. \E v \in LakeWriters : \E step :
          /\ Goto(v, step)
          /\ cur' = cur \/ \E s : cur' = [cur EXCEPT ![v] = s]
          /\ targets' = targets \/ \E ts : targets' = [targets EXCEPT ![v] = ts]
    BY <1>3 DEF ReadCommits, ReadWatermarks, SelectCommit, StartRebuild, RebuildCommit, Start, LakeWriters
  <2>3. QED
    BY <1>2, <2>1, <2>2
<1>4. ASSUME NEW p \in Partitions, Produce(p) PROVE HandKept
  BY <1>4 DEF Produce, work, HandKept
<1>5. ASSUME NEW p \in Partitions, ReceiveBatch(p) PROVE HandReceives
  <2>1. current = NoMessage
    BY <1>5 DEF ReceiveBatch, TypeOK
  <2>2. /\ position[p] < Len(log[p]) /\ UNCHANGED <<log, committed>>
        /\ position' = [position EXCEPT ![p] = @ + 1]
    BY <1>5 DEF ReceiveBatch
  <2>3. \A s : Start("tableflow", s, Tables, Tables) =>
          pc'["tableflow"] = "rows" /\ cur'["tableflow"] = s /\ targets'["tableflow"] = Tables
    BY <1>1 DEF Start, Goto, TypeOK
  <2>4. Goto("tableflow", "commit") => pc'["tableflow"] = "commit"
    BY <1>1 DEF Goto, TypeOK
  <2>5. QED
    BY <1>5, <2>1, <2>2, <2>3, <2>4 DEF ReceiveBatch, HandReceives
<1>6. ASSUME NEW v \in Writers, Fails(v), UNCHANGED <<log, committed, position>>, pc[v] \in Busy
      PROVE  HandKept \/ HandFails
  <2>1. CASE v = "tableflow"
    BY <1>6, <2>1 DEF Fails, HandFails, TypeOK, Busy
  <2>2. CASE v # "tableflow"
    BY <1>1, <1>6, <2>2, <1>2 DEF Fails, Stop, LakeWriters
  <2>3. QED
    BY <2>1, <2>2
<1>7. ASSUME NEW v \in Writers, InsertRows(v) \/ RecordCommit(v) \/ AdvanceWatermarks(v) \/ PublishVersions(v)
      PROVE  HandKept \/ HandFails \/ HandGoesOn
  <2>1. UNCHANGED <<log, committed, position>> /\ pc[v] \in Busy
    BY <1>7 DEF InsertRows, RecordCommit, AdvanceWatermarks, PublishVersions, Busy
  <2>2. CASE v # "tableflow" /\ ~Fails(v)
    <3>1. v \in LakeWriters /\ UNCHANGED <<current, skipped>>
      BY <1>1, <1>7, <2>2 DEF InsertRows, RecordCommit, AdvanceWatermarks, PublishVersions, LakeWriters
    <3>2. \E step : Goto(v, step)
      BY <1>7, <2>2 DEF InsertRows, RecordCommit, AdvanceWatermarks, PublishVersions
    <3>3. /\ cur' = cur \/ \E s : cur' = [cur EXCEPT ![v] = s]
          /\ targets' = targets \/ \E ts : targets' = [targets EXCEPT ![v] = ts]
      BY <1>7, <2>2 DEF InsertRows, RecordCommit, AdvanceWatermarks, PublishVersions
    <3>4. QED
      BY <1>2, <2>1, <3>1, <3>2, <3>3
  <2>3. CASE v = "tableflow" /\ ~Fails(v)
    <3>1. current # NoMessage /\ UNCHANGED <<current, skipped>>
      BY <1>7, <2>1, <2>3 DEF InsertRows, RecordCommit, AdvanceWatermarks, PublishVersions, TypeOK, Busy
    <3>2. \A step : Goto(v, step) => pc'[v] = step
      BY DEF Goto, TypeOK
    <3>3. CASE InsertRows(v)
      BY <2>1, <2>3, <3>1, <3>2, <3>3 DEF InsertRows, HandGoesOn
    <3>4. CASE RecordCommit(v)
      BY <2>1, <2>3, <3>1, <3>2, <3>4 DEF RecordCommit, HandGoesOn
    <3>5. CASE AdvanceWatermarks(v)
      BY <2>1, <2>3, <3>1, <3>2, <3>5 DEF AdvanceWatermarks, HandGoesOn
    <3>6. CASE PublishVersions(v)
      BY <2>1, <2>3, <3>1, <3>2, <3>6 DEF PublishVersions, HandGoesOn
    <3>7. QED
      BY <1>7, <3>3, <3>4, <3>5, <3>6
  <2>4. QED
    BY <1>6, <2>1, <2>2, <2>3
<1>8. ASSUME NEW v \in Writers, Crash(v) PROVE HandKept \/ HandCommits \/ HandCrashes
  <2>1. Stop(v) /\ UNCHANGED <<log, skipped, serving>>
    BY <1>8 DEF Crash
  <2>2. CASE v = "tableflow"
    <3>1. /\ (pc["tableflow"] = "commit" /\ Acknowledge) \/ UNCHANGED committed
          /\ position' = committed' /\ current' = NoMessage
      BY <1>8, <2>2 DEF Crash
    <3>2. CASE UNCHANGED committed
      BY <2>1, <3>1, <3>2 DEF HandCrashes
    <3>3. CASE pc["tableflow"] = "commit" /\ Acknowledge
      BY <2>1, <3>1, <3>3 DEF HandCommits
    <3>4. QED
      BY <3>1, <3>2, <3>3
  <2>3. CASE v # "tableflow"
    <3>1. v \in LakeWriters /\ UNCHANGED <<committed, position, current, skipped>>
      BY <1>1, <1>8, <2>1, <2>3 DEF Crash, LakeWriters
    <3>2. /\ Goto(v, "idle")
          /\ cur' = [cur EXCEPT ![v] = NoSnapshot] /\ targets' = [targets EXCEPT ![v] = {}]
      BY <2>1 DEF Stop
    <3>3. QED
      BY <1>2, <3>1, <3>2
  <2>4. QED
    BY <2>2, <2>3
<1>9. CASE CommitMessage
  BY <1>9 DEF CommitMessage, HandCommits
<1>10. CASE AppendCommit \/ UNCHANGED vars
  BY <1>10 DEF AppendCommit, kafka, work, vars, HandKept
<1>11. QED
  BY <1>3, <1>4, <1>5, <1>7, <1>8, <1>9, <1>10, Steps

\* The offsets below position[p] are settled, reported or in hand; a committed offset passes
\* none that is in hand.
Received ==
  \A p \in Partitions, o \in Nat :
    /\ o < position[p] => <<p, o>> \in Settled \cup skipped \/ current = <<p, o>>
    /\ o < committed[p] => <<p, o>> \in Settled \cup skipped

Accounted == MessageInHand /\ Received /\ skipped \subseteq Published

LEMMA AccountedInit == Init => Accounted
BY DEF Init, Accounted, MessageInHand, Received

LEMMA MessageInHandStep ==
  ASSUME TypeOK, WorkDone, MessageInHand, [Next]_vars
  PROVE  MessageInHand'
<1> DEFINE w == "tableflow"
<1> SUFFICES ASSUME current' # NoMessage
             PROVE  /\ current' \in Published'
                    /\ pc'[w] \in Busy => /\ Record(current)'.kind = "batch"
                                          /\ Record(current)'.snapshot = cur'[w]
                                          /\ targets'[w] = Tables
                    /\ pc'[w] \in {"watermark", "versions"} => cur'[w] \in recorded'
                    /\ pc'[w] = "versions" => \A t \in Tables : SequenceNumber(cur'[w]) <= watermark'[t]
                    /\ pc'[w] = "commit" => Finished(current)'
  BY DEF MessageInHand, Busy, SequenceNumber
<1>1. w \in Writers
  BY DEF Writers
<1>2. ASSUME current' = current, current \in Published
      PROVE  Record(current)' = Record(current) /\ current' \in Published'
             /\ (Finished(current) => Finished(current)')
  <2>1. Record(current)' = Record(current) /\ current' \in Published'
    BY <1>2, LogGrows DEF Record
  <2>2. ASSUME Finished(current) PROVE Finished(current)'
    <3>1. current \in Settled
      BY <1>2, <2>2, SettledAreFinished
    <3>2. current' \in Settled'
      BY <1>2, <3>1, SettledGrows
    <3>3. QED
      BY <3>2 DEF Settled, Finished
  <2>3. QED
    BY <2>1, <2>2
<1>3. CASE HandKept
  <2>1. /\ current' = current /\ current \in Published
        /\ pc'[w] = pc[w] /\ cur'[w] = cur[w] /\ targets'[w] = targets[w]
    BY <1>3 DEF HandKept, MessageInHand
  <2>2. ASSUME pc[w] = "versions", NEW t \in Tables PROVE SequenceNumber(cur[w]) <= watermark'[t]
    <3>1. SequenceNumber(cur[w]) <= watermark[t] /\ watermark[t] <= watermark'[t]
      BY <2>1, <2>2, EffectsGrow DEF MessageInHand
    <3>2. SequenceNumber(cur[w]) \in Nat /\ watermark[t] \in Nat /\ watermark'[t] \in Nat
      BY <1>1, <2>2, SequenceNumbers, NextType DEF TypeOK
    <3>3. QED
      BY <3>1, <3>2
  <2>3. QED
    BY <1>2, <2>1, <2>2, EffectsGrow DEF MessageInHand
<1>4. CASE HandReceives
  <2>1. PICK p \in Partitions :
          /\ position[p] < Len(log[p]) /\ UNCHANGED log
          /\ current' = <<p, position[p]>>
          /\ \/ Record(<<p, position[p]>>).kind = "empty" /\ pc'[w] = "commit"
             \/ /\ Record(<<p, position[p]>>).kind = "batch" /\ pc'[w] = "rows"
                /\ cur'[w] = Record(<<p, position[p]>>).snapshot /\ targets'[w] = Tables
    BY <1>4 DEF HandReceives
  <2>2. position[p] \in Nat
    BY DEF TypeOK
  <2>3. current' \in Published'
    BY <2>1, <2>2, PublishedIds DEF Published
  <2>4. Record(current)' = Record(<<p, position[p]>>)
    BY <2>1 DEF Record
  <2>5. QED
    BY <2>1, <2>3, <2>4 DEF Finished, Busy
<1>5. CASE HandGoesOn
  <2>1. current' = current /\ current \in Published
    BY <1>5 DEF HandGoesOn, MessageInHand
  <2>2. Record(current)' = Record(current) /\ current' \in Published'
    BY <1>2, <2>1
  <2>3. CASE /\ pc[w] \in Busy /\ cur'[w] = cur[w] /\ targets'[w] = targets[w]
             /\ pc'[w] \in {"rows", "record"}
    BY <2>1, <2>2, <2>3 DEF MessageInHand, Busy
  <2>4. CASE /\ pc[w] \in Busy /\ cur'[w] = cur[w] /\ targets'[w] = targets[w]
             /\ pc'[w] = "watermark" /\ cur[w] \in recorded'
    BY <2>1, <2>2, <2>4 DEF MessageInHand, Busy
  <2>5. CASE /\ pc[w] = "watermark" /\ cur'[w] = cur[w] /\ targets'[w] = targets[w]
             /\ pc'[w] = "versions" /\ watermark' = Advanced(w)
    <3>1. targets[w] = Tables /\ SequenceNumber(cur[w]) \in Nat
      BY <1>1, <2>1, <2>5, SequenceNumbers DEF MessageInHand, TypeOK, Busy
    <3>2. \A t \in Tables : SequenceNumber(cur[w]) <= watermark'[t]
      BY <2>5, <3>1 DEF Advanced, Deduplicated, TypeOK
    <3>3. cur[w] \in recorded'
      BY <2>1, <2>5, EffectsGrow DEF MessageInHand
    <3>4. QED
      BY <2>1, <2>2, <2>5, <3>1, <3>2, <3>3 DEF MessageInHand, Busy
  <2>6. CASE pc[w] = "versions" /\ pc'[w] = "commit" /\ cur[w] \in versions'
    <3>1. /\ Record(current).kind = "batch" /\ Record(current).snapshot = cur[w] /\ targets[w] = Tables
          /\ cur[w] \in recorded /\ \A t \in Tables : SequenceNumber(cur[w]) <= watermark[t]
      BY <2>1, <2>6 DEF MessageInHand, Busy
    <3>2. \A t \in Tables : Served(cur[w], t)
      BY <1>1, <2>6, <3>1 DEF WorkDone, Owed, Busy
    <3>3. ASSUME NEW t \in Tables
          PROVE  (\E r \in rows'[t] : r[1] = cur[w]) /\ SequenceNumber(cur[w]) <= watermark'[t]
      <4>1. SequenceNumber(cur[w]) \in Nat /\ watermark[t] \in Nat /\ watermark'[t] \in Nat
        BY <1>1, <2>6, SequenceNumbers, NextType DEF TypeOK
      <4>2. watermark[t] <= watermark'[t] /\ rows[t] \subseteq rows'[t]
        BY EffectsGrow, RowsGrow
      <4>3. QED
        BY <3>1, <3>2, <4>1, <4>2 DEF Served
    <3>4. cur[w] \in recorded' \cap versions'
      BY <2>6, <3>1, EffectsGrow
    <3>5. Finished(current)'
      BY <2>2, <3>1, <3>3, <3>4 DEF Finished, Served, SequenceNumber
    <3>6. QED
      BY <2>2, <2>6, <3>5 DEF Busy
  <2>7. QED
    BY <1>5, <2>3, <2>4, <2>5, <2>6 DEF HandGoesOn
<1>6. QED
  BY <1>3, <1>4, <1>5, HandStep DEF HandFails, HandCommits, HandCrashes

LEMMA ReceivedStep ==
  ASSUME TypeOK, MessageInHand, Received, [Next]_vars
  PROVE  Received'
<1> SUFFICES ASSUME NEW p \in Partitions, NEW o \in Nat
             PROVE  /\ o < position'[p] => <<p, o>> \in Settled' \cup skipped' \/ current' = <<p, o>>
                    /\ o < committed'[p] => <<p, o>> \in Settled' \cup skipped'
  BY DEF Received
<1>1. Settled \subseteq Settled' /\ skipped \subseteq skipped'
  BY SettledGrows, EffectsGrow
<1>2. /\ o < position[p] => <<p, o>> \in Settled \cup skipped \/ current = <<p, o>>
      /\ o < committed[p] => <<p, o>> \in Settled \cup skipped
  BY DEF Received
<1>3. position \in [Partitions -> Nat] /\ committed \in [Partitions -> Nat]
  BY DEF TypeOK
<1>4. CASE HandKept \/ HandGoesOn
  BY <1>1, <1>2, <1>4 DEF HandKept, HandGoesOn
<1>5. CASE HandReceives
  <2>1. PICK q \in Partitions :
          /\ current = NoMessage /\ UNCHANGED committed
          /\ position' = [position EXCEPT ![q] = @ + 1]
          /\ <<q, position[q]>> \in skipped' \/ current' = <<q, position[q]>>
    BY <1>5 DEF HandReceives
  <2>2. <<p, o>> # NoMessage
    BY PartitionsAssumption DEF NoMessage
  <2>3. CASE o < position[p]
    BY <1>1, <1>2, <2>1, <2>2, <2>3
  <2>4. CASE ~(o < position[p])
    <3>1. o < position'[p] => q = p /\ o = position[p]
      BY <1>3, <2>1, <2>4
    <3>2. QED
      BY <1>1, <1>2, <2>1, <3>1
  <2>5. QED
    BY <2>3, <2>4
<1>6. CASE HandFails
  BY <1>1, <1>2, <1>6 DEF HandFails
<1>7. CASE HandCommits
  <2>1. current # NoMessage
    BY <1>7 DEF HandCommits, TypeOK
  <2>2. PICK q \in Partitions, i \in Nat : current = <<q, i>>
    BY <2>1 DEF TypeOK
  <2>3. position[q] = i + 1
    BY <2>1, <2>2 DEF TypeOK
  <2>4. committed' = [committed EXCEPT ![q] = i + 1] /\ position' \in {position, committed'}
    BY <1>7, <2>2 DEF HandCommits, Acknowledge
  <2>5. current \in Settled
    BY <1>7, <2>1, SettledAreFinished DEF HandCommits, MessageInHand
  <2>6. o < position[p] => <<p, o>> \in Settled \cup skipped
    BY <1>2, <2>5
  <2>7. o < committed'[p] => <<p, o>> \in Settled \cup skipped
    BY <1>2, <1>3, <2>3, <2>4, <2>6
  <2>8. QED
    BY <1>1, <2>4, <2>6, <2>7
<1>8. CASE HandCrashes
  BY <1>1, <1>2, <1>8 DEF HandCrashes
<1>9. QED
  BY <1>4, <1>5, <1>6, <1>7, <1>8, HandStep

LEMMA SkippedStep ==
  ASSUME TypeOK, MessageInHand, skipped \subseteq Published, [Next]_vars
  PROVE  skipped' \subseteq Published'
<1>1. Published \subseteq Published'
  BY LogGrows
<1>2. CASE HandKept \/ HandGoesOn \/ HandCommits \/ HandCrashes
  BY <1>1, <1>2 DEF HandKept, HandGoesOn, HandCommits, HandCrashes
<1>3. CASE HandReceives
  <2>1. PICK p \in Partitions : /\ position[p] < Len(log[p])
                                /\ skipped' \subseteq skipped \cup {<<p, position[p]>>}
    BY <1>3 DEF HandReceives
  <2>2. <<p, position[p]>> \in Published
    BY <2>1, PublishedIds DEF TypeOK
  <2>3. QED
    BY <1>1, <2>1, <2>2
<1>4. CASE HandFails
  BY <1>1, <1>4 DEF HandFails, MessageInHand
<1>5. QED
  BY <1>2, <1>3, <1>4, HandStep

LEMMA AccountedAlways == Spec => [](TypeOK /\ WorkDone /\ Accounted)
<1>1. TypeOK /\ WorkDone /\ Accounted /\ [Next]_vars => Accounted'
  BY MessageInHandStep, ReceivedStep, SkippedStep DEF Accounted
<1>2. QED
  BY <1>1, AccountedInit, WorkDoneAlways, PTL DEF Spec

LEMMA ContractInit == Init => Contract!Init
<1> SUFFICES ASSUME Init PROVE Contract!Init
  OBVIOUS
<1>1. [p \in Partitions |-> Len(log[p])] = [p \in Partitions |-> 0]
  BY DEF Init
<1>2. Settled = {}
  BY DEF Init, Settled
<1>3. QED
  BY <1>1, <1>2 DEF Init, Contract!Init

\* A new record is settled at once when it asks for no effect or repeats a batch.
LEMMA ProduceSettles ==
  ASSUME TypeOK, TypeOK', [Next]_vars, NEW p \in Partitions, Produce(p)
  PROVE  Settled' \in {Settled, Settled \cup {<<p, Len(log[p])>>}}
<1>1. UNCHANGED <<rows, recorded, versions, watermark>>
  BY DEF Produce, serving
<1>2. \A q \in Partitions : /\ Len(log[q]) \in Nat
                            /\ Len(log'[q]) = IF q = p THEN Len(log[q]) + 1 ELSE Len(log[q])
  <2>1. PICK r \in Messages : log' = [log EXCEPT ![p] = Append(@, r)]
    BY DEF Produce
  <2>2. \A q \in Partitions : log[q] \in Seq(Messages)
    BY DEF TypeOK
  <2>3. log \in [Partitions -> Seq(Messages)]
    BY DEF TypeOK
  <2>4. QED
    BY <2>1, <2>2, <2>3
<1>3. ASSUME NEW m \in Settled' PROVE m \in Settled \/ m = <<p, Len(log[p])>>
  <2>1. m \in Published' /\ Finished(m)'
    BY DEF Settled, Published, Finished
  <2>2. PICK q \in Partitions : m \in {<<q, o>> : o \in 0 .. Len(log'[q]) - 1}
    BY <2>1 DEF Published
  <2>3. PICK o \in 0 .. Len(log'[q]) - 1 : m = <<q, o>>
    BY <2>2
  <2>4. CASE q = p /\ o = Len(log[p])
    BY <2>3, <2>4
  <2>5. CASE ~(q = p /\ o = Len(log[p]))
    <3>1. o \in Nat /\ o < Len(log[q])
      BY <1>2, <2>5
    <3>2. m \in Published
      BY <2>3, <3>1, PublishedIds
    <3>3. Record(m)' = Record(m)
      BY <3>2, LogGrows
    <3>4. Finished(m)
      BY <1>1, <2>1, <3>3 DEF Finished, Served, SequenceNumber
    <3>5. QED
      BY <3>2, <3>4, SettledAreFinished
  <2>6. QED
    BY <2>4, <2>5
<1>4. QED
  BY <1>3, SettledGrows

LEMMA ContractStep ==
  TypeOK /\ TypeOK' /\ Accounted /\ Accounted' /\ [Next]_vars
    => [Contract!Next]_Contract!vars
<1> SUFFICES ASSUME TypeOK, TypeOK', Accounted, Accounted', [Next]_vars
             PROVE  Contract!Next \/ UNCHANGED Contract!vars
  OBVIOUS
<1>1. Contract!Published = Published /\ Contract!Published' = Published'
  <2>1. \A p \in Partitions : [q \in Partitions |-> Len(log[q])][p] = Len(log[p])
    OBVIOUS
  <2>2. \A p \in Partitions : [q \in Partitions |-> Len(log'[q])][p] = Len(log'[p])
    OBVIOUS
  <2>3. QED
    BY <2>1, <2>2 DEF Contract!Published, Published
<1>2. ASSUME NEW p \in Partitions, Produce(p) PROVE Contract!Publish(p)
  <2>1. \A q \in Partitions : Len(log'[q]) = IF q = p THEN Len(log[q]) + 1 ELSE Len(log[q])
    BY <1>2 DEF Produce, TypeOK
  <2>2. [q \in Partitions |-> Len(log'[q])]
          = [[q \in Partitions |-> Len(log[q])] EXCEPT ![p] = @ + 1]
    BY <2>1
  <2>3. UNCHANGED <<committed, skipped>>
    BY <1>2 DEF Produce
  <2>4. [q \in Partitions |-> Len(log[q])][p] = Len(log[p])
    OBVIOUS
  <2>5. QED
    BY <1>2, <2>2, <2>3, <2>4, ProduceSettles DEF Contract!Publish
<1>3. CASE UNCHANGED <<log, committed>>
  <2>1. Settled \subseteq Settled' /\ Settled' \subseteq Published
    BY <1>3, SettledGrows DEF Settled, Published
  <2>2. skipped \subseteq skipped' /\ skipped' \subseteq Published
    BY <1>3, EffectsGrow DEF Accounted, Published
  <2>3. Contract!Process
    BY <1>1, <1>3, <2>1, <2>2 DEF Contract!Process
  <2>4. QED
    BY <2>3 DEF Contract!Next
<1>4. CASE HandCommits
  <2>1. Settled' = Settled /\ UNCHANGED <<log, skipped>>
    BY <1>4 DEF HandCommits, serving, Settled, Record, Served, SequenceNumber
  <2>2. current # NoMessage
    BY <1>4 DEF HandCommits, TypeOK
  <2>3. PICK p \in Partitions, o \in Nat : current = <<p, o>>
    BY <2>2 DEF TypeOK
  <2>4. o < Len(log[p]) /\ Len(log[p]) \in Nat
    BY <2>2, <2>3 DEF TypeOK
  <2>5. committed' = [committed EXCEPT ![p] = o + 1] /\ committed'[p] = o + 1
    BY <1>4, <2>3 DEF HandCommits, Acknowledge, TypeOK
  <2>6. \A i \in 0 .. (o + 1) - 1 : <<p, i>> \in Settled \cup skipped
    BY <2>1, <2>5 DEF Accounted, Received
  <2>7. o + 1 \in 0 .. [q \in Partitions |-> Len(log[q])][p]
    BY <2>4
  <2>8. Contract!Commit(p)
    BY <2>1, <2>5, <2>6, <2>7 DEF Contract!Commit
  <2>9. QED
    BY <2>8 DEF Contract!Next
<1>5. CASE UNCHANGED log
  BY <1>3, <1>4, <1>5, HandStep DEF HandKept, HandReceives, HandGoesOn, HandFails, HandCrashes
<1>6. QED
  BY <1>2, <1>5, LogStep DEF Contract!Next

\* The Tableflow materializer keeps the consumer contract: whatever fails or ends, a committed
\* offset passes only records whose effects all exist or that an attempt returned an error for.
THEOREM MaterializerImplementsContract == Spec => ImplementsContract
<1>1. TypeOK /\ TypeOK' /\ Accounted /\ Accounted' /\ [Next]_vars
        => [Contract!Next]_Contract!vars
  BY ContractStep
<1>2. QED
  BY <1>1, ContractInit, AccountedAlways, PTL DEF Spec, ImplementsContract, Contract!Spec

-------------------------------------------------------------------------------
(* The elements of a list at some of its places. *)

Rank(T, i) == Cardinality({j \in T : j <= i})

LEMMA RankIsAPlace ==
  ASSUME NEW T \in SUBSET Nat, IsFiniteSet(T), NEW i \in T
  PROVE  Rank(T, i) \in 1..Cardinality(T)
<1> DEFINE upto == {j \in T : j <= i}
<1>1. IsFiniteSet(upto) /\ Cardinality(upto) <= Cardinality(T)
  BY FS_Subset
<1>2. Cardinality(upto) \in Nat /\ Cardinality(T) \in Nat
  BY <1>1, FS_CardinalityType
<1>3. upto # {}
  OBVIOUS
<1>4. Cardinality(upto) # 0
  BY <1>1, <1>3, FS_EmptySet
<1>5. QED
  BY <1>1, <1>2, <1>4 DEF Rank

LEMMA RanksGrow ==
  ASSUME NEW T \in SUBSET Nat, IsFiniteSet(T), NEW a \in T, NEW b \in T, a < b
  PROVE  Rank(T, a) < Rank(T, b)
<1> DEFINE upto(i) == {j \in T : j <= i}
<1>1. upto(a) \subseteq upto(b) /\ b \in upto(b) /\ b \notin upto(a) /\ upto(b) \subseteq T
  <2>1. \A j \in T : j \in Nat
    OBVIOUS
  <2>2. \A j \in T : j <= a => j <= b
    BY <2>1
  <2>3. b <= b /\ ~(b <= a)
    BY <2>1
  <2>4. QED
    BY <2>2, <2>3
<1>2. IsFiniteSet(upto(b)) /\ IsFiniteSet(upto(a))
  BY <1>1, FS_Subset
<1>3. Cardinality(upto(a)) <= Cardinality(upto(b)) /\ (Cardinality(upto(b)) = Cardinality(upto(a)) => upto(b) = upto(a))
  BY <1>1, <1>2, FS_Subset
<1>4. Cardinality(upto(a)) \in Nat /\ Cardinality(upto(b)) \in Nat
  BY <1>2, FS_CardinalityType
<1>5. QED
  BY <1>1, <1>3, <1>4 DEF Rank

LEMMA RanksAreTaken ==
  ASSUME NEW T \in SUBSET Nat, IsFiniteSet(T)
  PROVE  /\ \A k \in 1..Cardinality(T) : \E i \in T : Rank(T, i) = k
         /\ \A a, b \in T : Rank(T, a) = Rank(T, b) => a = b
<1> DEFINE rank == [i \in T |-> Rank(T, i)]
<1>1. Cardinality(T) \in Nat
  BY FS_CardinalityType
<1>2. IsFiniteSet(1..Cardinality(T)) /\ Cardinality(1..Cardinality(T)) = Cardinality(T)
  <2>1. Cardinality(T) \in Int /\ 1 \in Int
    BY <1>1
  <2>2. QED
    BY <2>1, <1>1, FS_Interval
<1>3. rank \in [T -> 1..Cardinality(T)]
  BY RankIsAPlace
<1>4. \A a, b \in T : Rank(T, a) = Rank(T, b) => a = b
  <2> SUFFICES ASSUME NEW a \in T, NEW b \in T, Rank(T, a) = Rank(T, b), a # b
               PROVE  FALSE
    OBVIOUS
  <2>1. a < b \/ b < a
    OBVIOUS
  <2>2. Rank(T, a) \in Nat /\ Rank(T, b) \in Nat
    BY RankIsAPlace, <1>1
  <2>3. Rank(T, a) < Rank(T, b) \/ Rank(T, b) < Rank(T, a)
    BY <2>1, RanksGrow
  <2>4. QED
    BY <2>2, <2>3
<1>5. rank \in Injection(T, 1..Cardinality(T))
  BY <1>3, <1>4 DEF Injection, IsInjective
<1>6. rank \in Surjection(T, 1..Cardinality(T))
  BY <1>2, <1>5, FS_Injection
<1>7. QED
  BY <1>4, <1>6 DEF Surjection

\* What is kept of a list are its elements at these places and no others.
LEMMA KeptElements ==
  ASSUME NEW s, IsList(s), NEW T \in SUBSET DOMAIN s
  PROVE  /\ IsFiniteSet(T) /\ Cardinality(T) \in Nat
         /\ DOMAIN KeptAt(s, T) = 1..Cardinality(T) /\ Len(KeptAt(s, T)) = Cardinality(T)
         /\ Range(KeptAt(s, T)) = {s[i] : i \in T}
         /\ KeptAt(s, T) = <<>> <=> T = {}
<1> DEFINE kept == KeptAt(s, T)
<1>1. s \in Seq(Range(s)) /\ DOMAIN s = 1..Len(s) /\ Len(s) \in Nat
  BY DEF IsList
<1>2. IsFiniteSet(T) /\ T \in SUBSET Nat /\ Cardinality(T) \in Nat
  <2>1. Len(s) \in Int /\ 1 \in Int
    BY <1>1
  <2>2. IsFiniteSet(1..Len(s))
    BY <2>1, FS_Interval
  <2>3. QED
    BY <2>2, <1>1, FS_Subset, FS_CardinalityType
<1> DEFINE at(k) == CHOOSE i \in T : Rank(T, i) = k
<1>3. \A k \in 1..Cardinality(T) : at(k) \in T /\ Rank(T, at(k)) = k
  BY <1>2, RanksAreTaken
<1>4. kept = [k \in 1..Cardinality(T) |-> s[at(k)]]
  BY DEF KeptAt, Rank
<1>5. DOMAIN kept = 1..Cardinality(T) /\ \A k \in 1..Cardinality(T) : kept[k] = s[at(k)]
  BY <1>4
<1>6. kept \in Seq({s[i] : i \in T}) /\ Len(kept) = Cardinality(T)
  BY <1>2, <1>3, <1>4
<1>7. Range(kept) = {s[i] : i \in T}
  <2>1. ASSUME NEW i \in T PROVE \E k \in DOMAIN kept : kept[k] = s[i]
    <3>1. Rank(T, i) \in 1..Cardinality(T)
      BY <1>2, RankIsAPlace
    <3>2. at(Rank(T, i)) = i
      BY <1>2, <1>3, <3>1, RanksAreTaken
    <3>3. QED
      BY <1>5, <3>1, <3>2
  <2>2. ASSUME NEW k \in DOMAIN kept PROVE kept[k] \in {s[i] : i \in T}
    BY <1>3, <1>5
  <2>3. QED
    BY <2>1, <2>2 DEF Range
<1>8. kept = <<>> <=> T = {}
  <2>1. kept = <<>> <=> Cardinality(T) = 0
    BY <1>2, <1>6
  <2>2. QED
    BY <2>1, <1>2, FS_EmptySet
<1>9. QED
  BY <1>2, <1>5, <1>6, <1>7, <1>8

\* A list of which all is kept, and only such a one, keeps its length.
LEMMA KeptWhole ==
  ASSUME NEW s, IsList(s)
  PROVE  /\ KeptAt(s, DOMAIN s) = s
         /\ \A T \in SUBSET DOMAIN s : Cardinality(T) = Len(s) <=> T = DOMAIN s
<1>1. s \in Seq(Range(s)) /\ DOMAIN s = 1..Len(s) /\ Len(s) \in Nat
  BY DEF IsList
<1>2. \A n \in Nat : IsFiniteSet(1..n) /\ Cardinality(1..n) = n
  <2> TAKE n \in Nat
  <2>1. n \in Int /\ 1 \in Int
    OBVIOUS
  <2>2. QED
    BY <2>1, FS_Interval
<1>3. \A i \in 1..Len(s) : Rank(1..Len(s), i) = i
  <2> TAKE i \in 1..Len(s)
  <2>1. {j \in 1..Len(s) : j <= i} = 1..i
    BY <1>1
  <2>2. Rank(1..Len(s), i) = Cardinality(1..i)
    BY <2>1 DEF Rank
  <2>3. i \in Nat
    BY <1>1
  <2>4. QED
    BY <2>2, <2>3, <1>2
<1> DEFINE at(k) == CHOOSE i \in DOMAIN s : Rank(DOMAIN s, i) = k
<1>4. \A k \in 1..Len(s) : at(k) = k
  <2> TAKE k \in 1..Len(s)
  <2>1. \A i \in DOMAIN s : Rank(DOMAIN s, i) = k <=> i = k
    BY <1>1, <1>3
  <2>2. k \in DOMAIN s
    BY <1>1
  <2>3. \E i \in DOMAIN s : Rank(DOMAIN s, i) = k
    BY <2>1, <2>2
  <2>4. at(k) \in DOMAIN s /\ Rank(DOMAIN s, at(k)) = k
    BY <2>3, Zenon
  <2>5. QED
    BY <2>1, <2>4
<1>5. KeptAt(s, DOMAIN s) = [k \in 1..Len(s) |-> s[k]]
  <2>1. KeptAt(s, DOMAIN s) = [k \in 1..Cardinality(DOMAIN s) |-> s[at(k)]]
    BY DEF KeptAt, Rank
  <2> HIDE DEF at
  <2>2. Cardinality(DOMAIN s) = Len(s)
    BY <1>1, <1>2
  <2>3. QED
    BY <2>1, <2>2, <1>4
<1>6. KeptAt(s, DOMAIN s) = s
  BY <1>1, <1>5
<1>7. \A T \in SUBSET DOMAIN s : Cardinality(T) = Len(s) <=> T = DOMAIN s
  <2> TAKE T \in SUBSET DOMAIN s
  <2>1. IsFiniteSet(DOMAIN s) /\ Cardinality(DOMAIN s) = Len(s)
    BY <1>1, <1>2
  <2>2. Cardinality(DOMAIN s) = Cardinality(T) => DOMAIN s = T
    BY <2>1, FS_Subset
  <2>3. QED
    BY <2>1, <2>2
<1>8. QED
  BY <1>6, <1>7

-------------------------------------------------------------------------------
(* What the server accepts of an expression the workers understand. *)

LEMMA AcceptedExpressions ==
  ASSUME NEW x
  PROVE  /\ ValidString(x) => IsStringExpr(x)
         /\ ValidValue(x) => IsValueExpr(x)
         /\ ValidNumber(x) => IsNumberExpr(x)
BY DEF ValidString, ValidValue, ValidNumber, IsStringExpr, IsValueExpr, IsNumberExpr

LEMMA AcceptedDimensions ==
  ASSUME NEW o, IsList(Entry(o, "dimensions", <<>>)), ValidDimensions(Entry(o, "dimensions", <<>>))
  PROVE  Dimensions(o) = Entry(o, "dimensions", <<>>)
<1> DEFINE stated == Entry(o, "dimensions", <<>>)
<1>1. \A i \in DOMAIN stated : stated[i].name # NoText /\ IsStringExpr(stated[i].value)
  BY AcceptedExpressions DEF ValidDimensions, ValidName
<1> HIDE DEF stated
<1>2. {i \in DOMAIN stated : stated[i].name # NoText /\ IsStringExpr(stated[i].value)} = DOMAIN stated
  BY <1>1
<1>3. Dimensions(o) = KeptAt(stated, DOMAIN stated)
  BY <1>2 DEF Dimensions, stated
<1>4. QED
  BY <1>3, KeptWhole DEF stated

\* The sets of dimensions of a cube are those of the request.
LEMMA AcceptedSets ==
  ASSUME NEW o, NEW sets, sets = Entry(o, "dimension_sets", {}), ValidDimensionSets(sets),
         \A s \in sets : IsList(s.dimensions)
  PROVE  /\ DimensionSets(o) = {[id |-> s.id, dimensions |-> s.dimensions] : s \in sets}
         /\ sets # {} /\ "dimension_sets" \in DOMAIN o
<1>1. ASSUME NEW s \in sets
      PROVE  s.id # NoText /\ s.dimensions # <<>> /\ Dimensions(s) = s.dimensions
  <2>1. s.id # NoText /\ Len(s.dimensions) \in 1..6 /\ ValidDimensions(s.dimensions) /\ "dimensions" \in DOMAIN s
    BY DEF ValidDimensionSets, ValidName
  <2>2. Entry(s, "dimensions", <<>>) = s.dimensions
    BY <2>1 DEF Entry
  <2>3. Dimensions(s) = s.dimensions
    BY <2>1, <2>2, AcceptedDimensions
  <2>4. s.dimensions # <<>>
    <3>1. SUFFICES ASSUME s.dimensions = <<>> PROVE FALSE
      OBVIOUS
    <3>2. Len(s.dimensions) = 0
      BY <3>1
    <3>3. Len(s.dimensions) \in 1..6
      BY <2>1
    <3>4. QED
      BY <3>2, <3>3
  <2>5. QED
    BY <2>1, <2>3, <2>4
<1>2. sets # {}
  BY FS_EmptySet DEF ValidDimensionSets
<1>3. "dimension_sets" \in DOMAIN o
  BY <1>2 DEF Entry
<1>4. {[id |-> s.id, dimensions |-> Dimensions(s)] : s \in sets} = {[id |-> s.id, dimensions |-> s.dimensions] : s \in sets}
  BY <1>1
<1>5. \A x \in {[id |-> s.id, dimensions |-> s.dimensions] : s \in sets} : x.id # NoText /\ x.dimensions # <<>>
  <2>1. ASSUME NEW s \in sets, NEW x, x = [id |-> s.id, dimensions |-> s.dimensions]
        PROVE  x.id # NoText /\ x.dimensions # <<>>
    BY <1>1, <2>1
  <2>2. QED
    BY <2>1
<1>6. QED
  BY <1>2, <1>3, <1>4, <1>5 DEF DimensionSets

-------------------------------------------------------------------------------
(* Every output of a definition has a rule. *)

\* A definition with one output.
OneOutput(d, o) == "outputs" \in DOMAIN d.config /\ d.config.outputs = {o}

LEMMA TheOutput ==
  ASSUME NEW d, NEW o, OneOutput(d, o), NEW target, Target(o, target)
  PROVE  GeneralizedOutputs(d.config, target) = {o}
BY DEF OneOutput, Target, GeneralizedOutputs, Entry

LEMMA FieldIsUnderstood ==
  ASSUME NEW d, NEW o, OneOutput(d, o), ValidField(d.mode, o)
  PROVE  FieldRules(d) # {}
<1>1. GeneralizedOutputs(d.config, "field_index") = {o}
  BY TheOutput DEF ValidField
<1>2. IsValueExpr(Entry(o, "value", Absent))
  BY AcceptedExpressions DEF ValidField, Stated
<1>3. QED
  BY <1>1, <1>2 DEF FieldRules

LEMMA MeasureIsUnderstood ==
  ASSUME NEW d, NEW o, OneOutput(d, o), ValidMeasure(d.kind, d.mode, o), \A x \in ListsOf(o) : IsList(x)
  PROVE  MeasureRules(d) \union CubeRules(d) # {}
<1>1. Numeric(o)
  BY AcceptedExpressions DEF ValidMeasure, Stated, Numeric
<1>2. CASE Entry(o, "target", "event_measures") = "measure_cube_rollups"
  <2>1. d.kind = "measure" /\ d.mode = "cube" /\ ValidDimensionSets(Entry(o, "dimension_sets", {}))
    BY <1>2 DEF ValidMeasure
  <2>2. "target" \in DOMAIN o /\ o.target = "measure_cube_rollups"
    BY <1>2 DEF Entry
  <2>3. GeneralizedOutputs(d.config, "measure_cube_rollups") = {o}
    BY <2>2, TheOutput DEF Target, Entry
  <2>4. DimensionSets(o) # {}
    <3> DEFINE sets == Entry(o, "dimension_sets", {})
    <3>1. \A s \in sets : IsList(s.dimensions)
      BY DEF ListsOf
    <3> HIDE DEF sets
    <3>2. DimensionSets(o) = {[id |-> s.id, dimensions |-> s.dimensions] : s \in sets} /\ sets # {}
      BY <2>1, <3>1, AcceptedSets DEF sets
    <3>3. QED
      BY <3>2
  <2>5. o \in {p \in GeneralizedOutputs(d.config, "measure_cube_rollups") :
                /\ d.kind = "measure" /\ d.mode = "cube"
                /\ "target" \in DOMAIN p /\ DimensionSets(p) # {} /\ Numeric(p)}
    BY <1>1, <2>1, <2>2, <2>3, <2>4
  <2>6. CubeRules(d) # {}
    BY <2>5 DEF CubeRules
  <2>7. QED
    BY <2>6
<1>3. CASE Entry(o, "target", "event_measures") # "measure_cube_rollups"
  <2>1. GeneralizedOutputs(d.config, "event_measures") = {o}
    BY <1>3, TheOutput DEF ValidMeasure
  <2>2. QED
    BY <1>1, <2>1 DEF MeasureRules
<1>4. QED
  BY <1>2, <1>3

LEMMA MetricIsUnderstood ==
  ASSUME NEW d, NEW o, OneOutput(d, o), ValidMetric(o)
  PROVE  MetricRules(d) # {}
<1>1. GeneralizedOutputs(d.config, "metric_rollups") = {o}
  BY TheOutput DEF ValidMetric
<1>2. Numeric(o)
  BY AcceptedExpressions DEF ValidMetric, Stated, Numeric
<1>3. QED
  BY <1>1, <1>2 DEF MetricRules

LEMMA StateIsUnderstood ==
  ASSUME NEW d, NEW o, OneOutput(d, o), ValidState(o)
  PROVE  StateRules(d) # {}
<1>1. GeneralizedOutputs(d.config, "entity_state_updates") = {o}
  BY TheOutput DEF ValidState
<1>2. \A name \in {"entity_type", "entity_id", "value"} : IsStringExpr(Entry(o, name, Absent))
  BY AcceptedExpressions DEF ValidState, Stated
<1>3. QED
  BY <1>1, <1>2 DEF StateRules

LEMMA CohortIsUnderstood ==
  ASSUME NEW d, NEW o, OneOutput(d, o), d.kind = "cohort", ValidCohort(o)
  PROVE  CohortRules({d}) # {}
<1>1. GeneralizedOutputs(d.config, "cohort_memberships") = {o}
  BY TheOutput DEF ValidCohort
<1>2. States(o, {"entity_type", "entity_id"})
  BY AcceptedExpressions DEF ValidCohort, Stated, States
<1>3. {x \in {d} : x.kind = "cohort"} = {d}
  OBVIOUS
<1>4. CohortRule(d, o) \in CohortRules({d})
  BY <1>1, <1>2, <1>3 DEF CohortRules
<1>5. QED
  BY <1>4

LEMMA SequenceIsUnderstood ==
  ASSUME NEW d, NEW o, OneOutput(d, o), d.kind = "sequence", ValidSequence(o), \A x \in ListsOf(o) : IsList(x)
  PROVE  SequenceRules({d}) # {}
<1>1. GeneralizedOutputs(d.config, "sequence_report_results") = {o}
  BY TheOutput DEF ValidSequence
<1>2. States(o, {"entity_id"})
  BY AcceptedExpressions DEF ValidSequence, Stated, States
<1>3. SequenceSteps(o) # <<>>
  <2> DEFINE steps == Entry(o, "steps", <<>>)
  <2>1. IsList(steps) /\ steps # <<>> /\ steps = o.steps
    BY DEF ListsOf, ValidSequence, Entry
  <2>2. \A i \in DOMAIN steps : steps[i].name # NoText
    BY <2>1 DEF ValidSequence, ValidName
  <2> HIDE DEF steps
  <2>3. {i \in DOMAIN steps : steps[i].name # NoText} = DOMAIN steps
    BY <2>2
  <2>4. SequenceSteps(o) = steps
    BY <2>1, <2>3, KeptWhole DEF SequenceSteps, steps
  <2>5. QED
    BY <2>1, <2>4
<1>4. {x \in {d} : x.kind = "sequence"} = {d}
  OBVIOUS
<1>5. SequenceRule(d, o) \in SequenceRules({d})
  BY <1>1, <1>2, <1>3, <1>4 DEF SequenceRules
<1>6. QED
  BY <1>5

\* A report of the mode of its definition; retention needs the entity and the cohort.
ReadsAsReport(mode, o) ==
    /\ Target(o, "report_results")
    /\ mode = "retention" => States(o, {"cohort_id", "entity_type", "entity_id"})

LEMMA ReportIsUnderstood ==
  ASSUME NEW d, NEW o, OneOutput(d, o), d.kind = "report", ReadsAsReport(d.mode, o)
  PROVE  ReportRules({d}) \union TraceRules({d}) \union RetentionRules({d}) # {}
<1>1. GeneralizedOutputs(d.config, "report_results") = {o}
  BY TheOutput DEF ReadsAsReport
<1>2. CASE d.mode = "retention"
  <2>1. {x \in {d} : x.kind = "report" /\ x.mode = "retention"} = {d}
    BY <1>2
  <2>2. RetentionRule(d, o) \in RetentionRules({d})
    BY <1>1, <1>2, <2>1 DEF RetentionRules, ReadsAsReport
  <2>3. QED
    BY <2>2
<1>3. CASE d.mode = "trace_summary"
  <2>1. {x \in {d} : x.kind = "report" /\ x.mode = "trace_summary"} = {d}
    BY <1>3
  <2>2. TraceRule(d, o) \in TraceRules({d})
    BY <1>1, <2>1 DEF TraceRules
  <2>3. QED
    BY <2>2
<1>4. CASE d.mode \notin {"trace_summary", "retention"}
  <2>1. {x \in {d} : x.kind = "report" /\ x.mode \notin {"trace_summary", "retention"}} = {d}
    BY <1>4
  <2>2. ReportRule(d, o) \in ReportRules({d})
    BY <1>1, <2>1 DEF ReportRules
  <2>3. QED
    BY <2>2
<1>5. QED
  BY <1>2, <1>3, <1>4

-------------------------------------------------------------------------------
(* What is stored comes from an accepted request. *)

Accepted(d) == \E q \in Requests : Accepts(q) /\ d = RecordOf(q, d.version)

AllAccepted == \A d \in definitions : Accepted(d)

LEMMA RecordFields ==
  ASSUME NEW q, NEW v
  PROVE  /\ RecordOf(q, v).tenant = TenantOf /\ RecordOf(q, v).id = q.id /\ RecordOf(q, v).version = v
         /\ RecordOf(q, v).name = q.name /\ RecordOf(q, v).kind = q.kind /\ RecordOf(q, v).mode = Mode(q)
         /\ RecordOf(q, v).config = Normalized(q)
BY DEF RecordOf

LEMMA TablesInit_AllAccepted == TablesInit => AllAccepted
BY DEF TablesInit, AllAccepted

LEMMA TablesNext_AllAccepted == AllAccepted /\ [TablesNext]_tablesVars => AllAccepted'
<1> SUFFICES ASSUME AllAccepted, [TablesNext]_tablesVars PROVE AllAccepted'
  OBVIOUS
<1>1. CASE \E q \in Requests : Create(q)
  <2>1. PICK q \in Requests : Create(q)
    BY <1>1
  <2>2. Accepted(RecordOf(q, Cardinality(definitions) + 1))
    BY <2>1, RecordFields DEF Create, Accepted
  <2>3. QED
    BY <2>1, <2>2 DEF Create, AllAccepted
<1>2. CASE UNCHANGED definitions
  BY <1>2 DEF AllAccepted
<1>3. QED
  BY <1>1, <1>2 DEF TablesNext, tablesVars, Load, Backfill, BackfillCurrent, FailBackfill, Merge

\* The outputs that are stored are those of the request, but for a default.
LEMMA StoredOutputs ==
  ASSUME NEW q \in Requests, Accepts(q), "outputs" \in DOMAIN q.config, NEW o \in Normalized(q).outputs
  PROVE  /\ "outputs" \in DOMAIN Normalized(q)
         /\ \E p \in q.config.outputs :
                /\ ValidOutput(q.kind, Mode(q), p)
                /\ \A x \in ListsOf(p) : IsList(x)
                /\ o = p \/ (q.kind = "report" /\ Mode(q) = "retention" /\ o = WithDefault(p, "retention_bucket_seconds", 86400))
<1>1. \A p \in q.config.outputs : ValidOutput(q.kind, Mode(q), p)
  BY DEF Accepts, ValidConfig
<1>2. \A p \in q.config.outputs : \A x \in ListsOf(p) : IsList(x)
  BY ListsAssumption DEF Entry
<1>3. CASE q.kind = "report" /\ Mode(q) = "retention"
  <2>1. Normalized(q) = [q.config EXCEPT !.outputs =
                            {WithDefault(p, "retention_bucket_seconds", 86400) : p \in q.config.outputs}]
    BY <1>3 DEF Normalized
  <2>2. "outputs" \in DOMAIN Normalized(q)
        /\ Normalized(q).outputs = {WithDefault(p, "retention_bucket_seconds", 86400) : p \in q.config.outputs}
    BY <2>1
  <2>3. QED
    BY <1>1, <1>2, <1>3, <2>2
<1>4. CASE ~(q.kind = "report" /\ Mode(q) = "retention")
  <2>1. Normalized(q) = q.config
    BY <1>4 DEF Normalized
  <2>2. QED
    BY <1>1, <1>2, <2>1
<1>5. QED
  BY <1>3, <1>4

LEMMA DefaultIsAdded ==
  ASSUME NEW o, NEW name, NEW other, other # name, NEW value, NEW default
  PROVE  Entry(WithDefault(o, name, value), other, default) = Entry(o, other, default)
BY DEF WithDefault, Entry

\* Every output that is stored has a rule of the materializer.
LEMMA OutputIsUnderstood ==
  ASSUME NEW q \in Requests, Accepts(q), "outputs" \in DOMAIN q.config, NEW o \in Normalized(q).outputs,
         NEW d, d.kind = q.kind, d.mode = Mode(q), OneOutput(d, o)
  PROVE  RulesOf(d) # {}
<1>1. PICK p \in q.config.outputs :
                /\ ValidOutput(q.kind, Mode(q), p)
                /\ \A x \in ListsOf(p) : IsList(x)
                /\ o = p \/ (q.kind = "report" /\ Mode(q) = "retention" /\ o = WithDefault(p, "retention_bucket_seconds", 86400))
  BY StoredOutputs
<1>2. q.kind \in {"field", "measure", "rollup", "metric_rollup", "state", "report", "cohort", "sequence"}
  BY <1>1 DEF ValidOutput
<1>3. CASE q.kind = "field"
  BY <1>1, <1>3, FieldIsUnderstood DEF ValidOutput, RulesOf
<1>4. CASE q.kind \in {"measure", "rollup"}
  BY <1>1, <1>4, MeasureIsUnderstood DEF ValidOutput, RulesOf
<1>5. CASE q.kind = "metric_rollup"
  BY <1>1, <1>5, MetricIsUnderstood DEF ValidOutput, RulesOf
<1>6. CASE q.kind = "state"
  BY <1>1, <1>6, StateIsUnderstood DEF ValidOutput, RulesOf
<1>7. CASE q.kind = "cohort"
  BY <1>1, <1>7, CohortIsUnderstood DEF ValidOutput, RulesOf
<1>8. CASE q.kind = "sequence"
  BY <1>1, <1>8, SequenceIsUnderstood DEF ValidOutput, RulesOf
<1>9. CASE q.kind = "report"
  <2>1. ValidReport(d.mode, p)
    BY <1>1, <1>9 DEF ValidOutput
  <2>2. ReadsAsReport(d.mode, p)
    BY <2>1, AcceptedExpressions DEF ValidReport, ReadsAsReport, States, Stated
  <2>3. ReadsAsReport(d.mode, o)
    <3>1. CASE o = p
      BY <2>2, <3>1
    <3>2. CASE o = WithDefault(p, "retention_bucket_seconds", 86400)
      <4>1. \A name \in {"target", "cohort_id", "entity_type", "entity_id"} :
                /\ Entry(o, name, Absent) = Entry(p, name, Absent)
                /\ Entry(o, name, "report_results") = Entry(p, name, "report_results")
        BY <3>2, DefaultIsAdded
      <4>2. QED
        BY <2>2, <4>1 DEF ReadsAsReport, Target, States
    <3>3. QED
      BY <1>1, <3>1, <3>2
  <2>4. QED
    BY <1>9, <2>3, ReportIsUnderstood DEF RulesOf
<1>10. QED
  BY <1>2, <1>3, <1>4, <1>5, <1>6, <1>7, <1>8, <1>9

\* The flat form has a rule too.
LEMMA FlatIsUnderstood ==
  ASSUME NEW d, "outputs" \notin DOMAIN d.config, d.kind \in {"field", "measure", "rollup", "state"},
         ValidFlat(d.kind, d.config)
  PROVE  RulesOf(d) # {}
<1>1. \A target : GeneralizedOutputs(d.config, target) = {}
  BY DEF GeneralizedOutputs, Entry
<1>2. Flat(d.config)
  BY DEF ValidFlat, ValidPath, Flat
<1>3. CASE d.kind = "field"
  BY <1>1, <1>2, <1>3 DEF RulesOf, FieldRules
<1>4. CASE d.kind \in {"measure", "rollup"}
  <2>1. MeasureRules(d) # {}
    BY <1>1, <1>2 DEF MeasureRules
  <2>2. QED
    BY <1>4, <2>1 DEF RulesOf
<1>5. CASE d.kind = "state"
  <2>1. Entry(d.config, "entity_type", NoText) # NoText /\ Entry(d.config, "entity_id_path", <<>>) # <<>>
    BY <1>5 DEF ValidFlat, ValidName, ValidPath
  <2>2. QED
    BY <1>1, <1>2, <1>5, <2>1 DEF RulesOf, StateRules
<1>6. QED
  BY <1>3, <1>4, <1>5

\* The worker reads every alert, unless it names a pattern that does not compile.
LEMMA AlertIsUnderstood ==
  ASSUME NEW config, ValidAlert(config)
  PROVE  Parses(config) \/ BadPattern(config)
<1> SUFFICES ASSUME ~BadPattern(config) PROVE Parses(config)
  OBVIOUS
<1> DEFINE conditions == Entry(config, "all", {}) \union Entry(config, "any", {})
<1>1. /\ \A c \in conditions : ValidCondition(c)
      /\ Entry(config, "severity", "warning") \in {"info", "warning", "critical"}
      /\ \A w \in Entry(config, "webhooks", {}) : ValidWebhook(w)
  BY Zenon DEF ValidAlert
<1>2. /\ \A c \in conditions : "pattern" \in DOMAIN c => Compiles(c.pattern)
      /\ "regex" \in DOMAIN config => Compiles(config.regex)
  BY Zenon DEF BadPattern
<1> HIDE DEF conditions
<1>3. ASSUME NEW c \in conditions PROVE ParsesCondition(c)
  <2>1. c.path # <<>>
    BY <1>1 DEF ValidCondition, ValidPath
  <2>2. Entry(c, "op", "eq") = "regex" => Entry(c, "pattern", NoText) # NoText
    BY <1>1 DEF ValidCondition
  <2>3. QED
    BY <1>2, <2>1, <2>2 DEF ParsesCondition, Entry
<1>4. Entry(config, "regex", NoText) # NoText => Compiles(config.regex)
  BY <1>2 DEF Entry
<1>5. \A w \in Entry(config, "webhooks", {}) : Entry(w, "url", NoText) # NoText
  BY <1>1 DEF ValidWebhook, Entry
<1>6. QED
  BY <1>1, <1>3, <1>4, <1>5, Zenon DEF Parses, conditions

\* What the server accepts the workers understand, whatever the requests are:
\* every definition that is stored was accepted, and validation leaves no output
\* without a rule and no alert but for its patterns unreadable.
\* (validate_generalized_output against the *_rules_from_record functions.)
THEOREM AcceptedHasRules == TablesSpec => []AcceptedIsUnderstood
<1>1. TablesInit => AllAccepted
  BY TablesInit_AllAccepted
<1>2. AllAccepted /\ [TablesNext]_tablesVars => AllAccepted'
  BY TablesNext_AllAccepted
<1>3. AllAccepted => AcceptedIsUnderstood
  <2> SUFFICES ASSUME AllAccepted PROVE AcceptedIsUnderstood
    OBVIOUS
  <2> DEFINE alerts == {d.config : d \in OfKinds(definitions, {"alert"})}
  <2>1. ASSUME NEW d \in definitions, d.kind = "alert" PROVE ValidAlert(d.config)
    <3>1. PICK q \in Requests : Accepts(q) /\ d = RecordOf(q, d.version)
      BY DEF AllAccepted, Accepted
    <3>2. q.kind = "alert" /\ d.config = Normalized(q)
      BY <2>1, <3>1, RecordFields
    <3>3. Normalized(q) = q.config
      BY <3>2 DEF Normalized
    <3>4. ~ValidOutput("alert", Mode(q), CHOOSE o \in q.config.outputs : TRUE)
      BY DEF ValidOutput
    <3>5. "outputs" \notin DOMAIN q.config
      BY <3>1, <3>2, <3>4 DEF Accepts, ValidConfig
    <3>6. QED
      BY <3>1, <3>2, <3>3, <3>5 DEF Accepts, ValidConfig
  <2>2. LoadAlertRules(alerts) = alerts \/ \E config \in alerts : BadPattern(config)
    <3>1. \A config \in alerts : ValidAlert(config)
      BY <2>1 DEF OfKinds
    <3> HIDE DEF alerts
    <3>2. QED
      BY <3>1, AlertIsUnderstood DEF LoadAlertRules
  <2>3. ASSUME NEW d \in definitions, d.kind \notin {"alert", "search"}, General(d), NEW o \in d.config.outputs
        PROVE  RulesOf([d EXCEPT !.config.outputs = {o}]) # {}
    <3>1. PICK q \in Requests : Accepts(q) /\ d = RecordOf(q, d.version)
      BY DEF AllAccepted, Accepted
    <3>2. d.kind = q.kind /\ d.mode = Mode(q) /\ d.config = Normalized(q)
      BY <3>1, RecordFields
    <3> DEFINE only == [d EXCEPT !.config.outputs = {o}]
    <3>3. only.kind = d.kind /\ only.mode = d.mode /\ only.config = [d.config EXCEPT !.outputs = {o}]
      BY <3>1 DEF RecordOf
    <3>4. OneOutput(only, o)
      BY <2>3, <3>3 DEF OneOutput, General
    <3>5. "outputs" \in DOMAIN q.config
      BY <2>3, <3>2 DEF General, Normalized
    <3> HIDE DEF only
    <3>6. RulesOf(only) # {}
      BY <2>3, <3>1, <3>2, <3>3, <3>4, <3>5, OutputIsUnderstood
    <3>7. QED
      BY <3>6 DEF only
  <2>4. ASSUME NEW d \in definitions, d.kind \notin {"alert", "search"}, ~General(d)
        PROVE  RulesOf(d) # {}
    <3>1. PICK q \in Requests : Accepts(q) /\ d = RecordOf(q, d.version)
      BY DEF AllAccepted, Accepted
    <3>2. d.kind = q.kind /\ d.config = Normalized(q)
      BY <3>1, RecordFields
    <3>3. "outputs" \notin DOMAIN q.config
      BY <2>4, <3>2 DEF General, Normalized
    <3>4. q.kind \in {"field", "measure", "rollup", "state"} /\ ValidFlat(q.kind, q.config)
      BY <2>4, <3>1, <3>2, <3>3 DEF Accepts, ValidConfig
    <3>5. Normalized(q) = q.config
      BY <3>4 DEF Normalized
    <3>6. QED
      BY <3>2, <3>3, <3>4, <3>5, FlatIsUnderstood
  <2>5. QED
    BY <2>2, <2>3, <2>4 DEF AcceptedIsUnderstood
<1>4. QED
  BY <1>1, <1>2, <1>3, PTL DEF TablesSpec

-------------------------------------------------------------------------------
(* How the two readers read an event. *)

LEMMA TextsOfScalars ==
  /\ \A v : Text(v) # NoText => v.t \in {"str", "num", "bool"}
  /\ Absent.t = "absent" /\ Text(Absent) = NoText /\ NumberOf(Absent) = {}
BY DEF Text, Absent, NumberOf

\* A key at the top is found by both; of the path that it is the fold has one step.
LEMMA TopLevel ==
  ASSUME NEW data, data.t = "obj", NEW part
  PROVE  LET found == Field(data, <<part>>)
         IN  Subcolumn(data, <<part>>) = IF found.t = "obj" THEN Absent ELSE found
<1>1. CASE <<part>> \in DOMAIN data.f
  BY <1>1 DEF Subcolumn, Field
<1>2. CASE <<part>> \notin DOMAIN data.f
  <2> DEFINE Enter(value, p) == IF value.t = "obj" THEN Field(value, <<p>>) ELSE Absent
             Recurrence(g) == g = [s \in SUBSET DOMAIN <<part>> |->
                                    IF s = {} THEN data ELSE Enter(g[s \ {Max(s)}], <<part>>[Max(s)])]
             f == [s \in SUBSET {1} |-> IF s = {} THEN data ELSE Absent]
  <2>1. DOMAIN <<part>> = {1} /\ <<part>>[1] = part
    OBVIOUS
  <2>2. SUBSET {1} = {{}, {1}} /\ {1} \ {1} = {} /\ {1} # {}
    OBVIOUS
  <2>3. Max({1}) = 1
    BY DEF Max
  <2>4. Enter(data, part) = Absent
    BY <1>2 DEF Field
  <2>5. FoldLeft(Enter, data, <<part>>) = (CHOOSE g : Recurrence(g))[DOMAIN <<part>>]
    BY DEF FoldLeft, MapThenFoldSet
  <2>6. Subcolumn(data, <<part>>) =
          IF FoldLeft(Enter, data, <<part>>).t = "obj" THEN Absent ELSE FoldLeft(Enter, data, <<part>>)
    BY <1>2 DEF Subcolumn
  <2> HIDE DEF Enter
  <2>7. Recurrence(f)
    <3>1. f[{}] = data /\ f[{1}] = Absent
      BY <2>2
    <3>2. ASSUME NEW s \in SUBSET {1}
          PROVE  f[s] = IF s = {} THEN data ELSE Enter(f[s \ {Max(s)}], <<part>>[Max(s)])
      <4>1. CASE s = {}
        BY <3>1, <4>1
      <4>2. CASE s = {1}
        <5>1. f[s \ {Max(s)}] = data /\ <<part>>[Max(s)] = part
          BY <4>2, <2>1, <2>2, <2>3, <3>1
        <5> HIDE DEF f
        <5>2. QED
          BY <4>2, <5>1, <2>2, <2>4, <3>1
      <4>3. QED
        BY <4>1, <4>2, <2>2
    <3>3. QED
      BY <3>2, <2>1
  <2>8. ASSUME NEW g, Recurrence(g) PROVE g[{1}] = Absent
    <3> HIDE DEF f
    <3>1. g[{}] = data
      BY <2>8, <2>1, <2>2
    <3>2. \A s \in SUBSET DOMAIN <<part>> : g[s] = IF s = {} THEN data ELSE Enter(g[s \ {Max(s)}], <<part>>[Max(s)])
      BY <2>8
    <3> HIDE DEF Recurrence
    <3>3. g[{1}] = Enter(g[{1} \ {Max({1})}], <<part>>[Max({1})])
      BY <3>2, <2>1, <2>2
    <3>4. QED
      BY <3>1, <3>3, <2>1, <2>2, <2>3, <2>4
  <2>9. Recurrence(CHOOSE g : Recurrence(g))
    <3> HIDE DEF Recurrence
    <3>1. QED
      BY <2>7
  <2> HIDE DEF Recurrence
  <2>10. FoldLeft(Enter, data, <<part>>) = Absent
    BY <2>1, <2>5, <2>8, <2>9
  <2>11. Field(data, <<part>>) = Absent
    BY <1>2 DEF Field
  <2>12. QED
    BY <2>6, <2>10, <2>11 DEF Absent
<1>3. QED
  BY <1>1, <1>2

\* What both read alike has the same text and the same number.
LEMMA PlainReadings ==
  ASSUME NEW data, NEW path, Plain(data, path)
  PROVE  LET found == ValueAtPath(data, path)
         IN  /\ found = Absent \/ (found.t \in {"str", "num", "bool"} /\ Text(found) # NoText)
             /\ SqlValue(data, path) = Text(found)
             /\ SqlNumber(data, path) = NumberOf(found)
<1> DEFINE found == ValueAtPath(data, path)
<1>1. found = Subcolumn(data, path) /\ (found = Absent \/ Text(found) # NoText) /\ (found.t = "num" => found.n \in Numbers)
  BY DEF Plain
<1>2. found = Absent \/ (found.t \in {"str", "num", "bool"} /\ Text(found) # NoText)
  BY <1>1, TextsOfScalars
<1>3. SqlValue(data, path) = Text(found)
  <2>1. found.t # "arr"
    BY <1>2, TextsOfScalars
  <2> HIDE DEF found
  <2>2. QED
    BY <1>1, <2>1 DEF SqlValue
<1> HIDE DEF found
<1>4. SqlNumber(data, path) = {n \in Numbers : ToString(n) = Text(found)}
  BY <1>3 DEF SqlNumber
<1>5. CASE found.t = "num"
  <2>1. Text(found) = ToString(found.n) /\ NumberOf(found) = {found.n} /\ found.n \in Numbers
    BY <1>1, <1>5 DEF Text, NumberOf
  <2>2. QED
    BY <1>2, <1>3, <1>4, <2>1, NumbersAssumption DEF found
<1>6. CASE found.t = "str"
  <2>1. Text(found) = found.s /\ NumberOf(found) = {n \in Numbers : ToString(n) = found.s}
    BY <1>6 DEF Text, NumberOf
  <2>2. QED
    BY <1>2, <1>3, <1>4, <2>1 DEF found
<1>7. CASE found.t = "bool" \/ found = Absent
  <2>1. Text(found) \in {NoText, "true", "false"} /\ NumberOf(found) = {}
    BY <1>7, TextsOfScalars DEF Text, NumberOf
  <2>2. QED
    BY <1>2, <1>3, <1>4, <2>1, NumbersAssumption DEF found
<1>8. QED
  BY <1>2, <1>5, <1>6, <1>7

LEMMA PlainExpressions ==
  ASSUME NEW data, NEW x, \A path \in Inside(x) : Plain(data, path)
  PROVE  /\ EvalString(data, x) = SqlString(data, x)
         /\ EvalNumber(data, x) = SqlAmount(data, x)
<1>1. CASE x.t = "path"
  <2>1. Plain(data, x.path)
    BY <1>1 DEF Inside
  <2>2. SqlValue(data, x.path) = Text(ValueAtPath(data, x.path))
        /\ SqlNumber(data, x.path) = NumberOf(ValueAtPath(data, x.path))
    BY <2>1, PlainReadings
  <2>3. QED
    BY <1>1, <2>2 DEF EvalString, SqlString, EvalNumber, EvalValue, SqlAmount
<1>2. CASE x.t # "path"
  BY <1>2 DEF EvalString, SqlString, EvalNumber, EvalValue, SqlAmount
<1>3. QED
  BY <1>1, <1>2

LEMMA PlainPredicate ==
  ASSUME NEW data, NEW match, ValidMatch(match), NEW p \in match, Plain(data, p.path), Textual(p)
  PROVE  PredicateMatches(data, p) <=> SqlPredicate(data, p)
<1> DEFINE actual == ValueAtPath(data, p.path)
           op == Entry(p, "op", "eq")
<1>1. /\ actual = Absent \/ (actual.t \in {"str", "num", "bool"} /\ Text(actual) # NoText)
      /\ SqlValue(data, p.path) = Text(actual)
      /\ SqlNumber(data, p.path) = NumberOf(actual)
  BY PlainReadings
<1>2. /\ op \in {"exists", "is_number", "eq", "neq", "in"}
      /\ op \in {"eq", "neq"} => "value" \in DOMAIN p /\ Text(p.value) # NoText
      /\ op = "in" => /\ Entry(p, "value", Absent).t = "arr"
                      /\ \A i \in DOMAIN p.value.items : Text(p.value.items[i]) # NoText
  BY DEF ValidMatch, Textual, Stated
<1>3. Entry(p, "value", Absent) = Absent \/ Entry(p, "value", Absent) = p.value
  BY DEF Entry
<1>4. PredicateMatches(data, p) <=>
        /\ actual # Absent
        /\ op = "exists" => actual # Null
        /\ op = "eq" => Entry(p, "value", Absent) # Absent /\ Equal(actual, Entry(p, "value", Absent))
        /\ op = "neq" => Entry(p, "value", Absent) # Absent /\ ~Equal(actual, Entry(p, "value", Absent))
        /\ op = "is_number" => NumberOf(actual) # {}
        /\ op = "in" => /\ Entry(p, "value", Absent).t = "arr"
                        /\ \E i \in DOMAIN Entry(p, "value", Absent).items :
                                Equal(actual, Entry(p, "value", Absent).items[i])
  BY DEF PredicateMatches
<1> HIDE DEF actual
<1>5. \A v : Text(v) # NoText => v # Absent /\ v # Null
  BY TextsOfScalars DEF Text, Null
<1>6. \A v : Equal(actual, v) <=> Text(actual) = Text(v)
  BY DEF Equal
<1>7. CASE op = "exists"
  BY <1>1, <1>4, <1>5, <1>7, TextsOfScalars DEF SqlPredicate
<1>8. CASE op = "eq"
  <2>1. Entry(p, "value", Absent) = p.value /\ p.value # Absent
    BY <1>2, <1>5, <1>8 DEF Entry
  <2>2. QED
    BY <1>1, <1>2, <1>4, <1>6, <1>8, <2>1, TextsOfScalars DEF SqlPredicate
<1>9. CASE op = "neq"
  <2>1. Entry(p, "value", Absent) = p.value /\ p.value # Absent
    BY <1>2, <1>5, <1>9 DEF Entry
  <2>2. QED
    BY <1>1, <1>2, <1>4, <1>6, <1>9, <2>1, TextsOfScalars DEF SqlPredicate
<1>10. CASE op = "is_number"
  <2>1. actual = Absent => NumberOf(actual) = {}
    BY TextsOfScalars
  <2>2. QED
    BY <1>1, <1>4, <1>10, <2>1 DEF SqlPredicate
<1>11. CASE op = "in"
  <2>1. Entry(p, "value", Absent) = p.value /\ p.value.t = "arr"
    BY <1>2, <1>3, <1>11, TextsOfScalars
  <2>2. QED
    BY <1>1, <1>2, <1>4, <1>6, <1>11, <2>1, TextsOfScalars DEF SqlPredicate
<1>12. QED
  BY <1>2, <1>7, <1>8, <1>9, <1>10, <1>11

LEMMA FlagNumbers ==
  ASSUME NEW n \in Numbers, ToString(n) \in {"1", "0"}
  PROVE  n > 0 <=> ToString(n) = "1"
<1>1. n = 0 \/ n = 1
  BY NumbersAssumption
<1>2. CASE n = 1
  <2>1. ToString(n) = "0" => n = 0
    BY NumbersAssumption
  <2>2. QED
    BY <1>2, <2>1
<1>3. CASE n = 0
  <2>1. ToString(n) = "1" => n = 1
    BY NumbersAssumption
  <2>2. QED
    BY <1>3, <2>1
<1>4. QED
  BY <1>1, <1>2, <1>3

\* The flag of an error, whose text is one that both know.
LEMMA PlainErrors ==
  ASSUME NEW data, data.t = "obj", Plain(data, <<"is_error">>),
         Text(Field(data, <<"is_error">>)) \in {NoText, "true", "false", "1", "0"}
  PROVE  IsError(data) <=> SqlError(data)
<1>1. ASSUME NEW name, NEW S, NoText \notin S, "[...]" \notin S
      PROVE  Text(Field(data, <<name>>)) \in S <=> SqlValue(data, <<name>>) \in S
  <2> DEFINE found == Field(data, <<name>>)
  <2>1. Subcolumn(data, <<name>>) = IF found.t = "obj" THEN Absent ELSE found
    BY TopLevel
  <2> HIDE DEF found
  <2>2. CASE found.t = "obj"
    <3>1. Text(found) = NoText /\ SqlValue(data, <<name>>) = NoText
      BY <2>1, <2>2, TextsOfScalars DEF SqlValue
    <3>2. QED
      BY <1>1, <3>1 DEF found
  <2>3. CASE found.t = "arr"
    <3>1. Text(found) = NoText /\ SqlValue(data, <<name>>) = "[...]"
      BY <2>1, <2>3, TextsOfScalars DEF SqlValue
    <3>2. QED
      BY <1>1, <3>1 DEF found
  <2>4. CASE found.t \notin {"obj", "arr"}
    <3>1. SqlValue(data, <<name>>) = Text(found)
      BY <2>1, <2>4 DEF SqlValue
    <3>2. QED
      BY <3>1 DEF found
  <2>5. QED
    BY <2>2, <2>3, <2>4
<1> DEFINE flag == Field(data, <<"is_error">>)
<1>2. Text(flag) \in {"1", "true"} <=> SqlValue(data, <<"is_error">>) \in {"1", "true"}
  BY <1>1 DEF NoText
<1>3. Text(Field(data, <<"span_status_code">>)) = "error" <=> SqlValue(data, <<"span_status_code">>) = "error"
  <2>1. Text(Field(data, <<"span_status_code">>)) \in {"error"} <=> SqlValue(data, <<"span_status_code">>) \in {"error"}
    BY <1>1 DEF NoText
  <2>2. QED
    BY <2>1
<1>4. Text(Field(data, <<"event_type">>)) \in ErrorTypes <=> SqlValue(data, <<"event_type">>) \in ErrorTypes
  BY <1>1 DEF ErrorTypes, NoText
<1>5. Boolish(flag) <=> Text(flag) \in {"1", "true"}
  <2>1. Text(flag) \in {NoText, "true", "false", "1", "0"}
    OBVIOUS
  <2>2. flag.t = "num" => flag.n \in Numbers
    <3>1. ValueAtPath(data, <<"is_error">>) = Subcolumn(data, <<"is_error">>)
          /\ (ValueAtPath(data, <<"is_error">>).t = "num" => ValueAtPath(data, <<"is_error">>).n \in Numbers)
      BY DEF Plain
    <3>2. Subcolumn(data, <<"is_error">>) = IF flag.t = "obj" THEN Absent ELSE flag
      BY TopLevel
    <3>3. QED
      BY <3>1, <3>2
  <2> HIDE DEF flag
  <2>3. CASE flag.t = "bool"
    BY <2>3 DEF Boolish, Text
  <2>4. CASE flag.t = "num"
    <3>1. Text(flag) = ToString(flag.n) /\ (Boolish(flag) <=> flag.n > 0)
      BY <2>4 DEF Boolish, Text
    <3>2. flag.n \in Numbers
      BY <2>2, <2>4
    <3>3. QED
      BY <2>1, <3>1, <3>2, FlagNumbers, NumbersAssumption
  <2>5. CASE flag.t = "str"
    BY <2>1, <2>5 DEF Boolish, Text, TruthyTexts, NoText
  <2>6. CASE flag.t \notin {"bool", "num", "str"}
    BY <2>6 DEF Boolish, Text, NoText
  <2>7. QED
    BY <2>3, <2>4, <2>5, <2>6
<1>6. QED
  BY <1>2, <1>3, <1>4, <1>5 DEF IsError, SqlError

-------------------------------------------------------------------------------
(* What is known of a definition that a backfill fills. *)

FilledKinds == {"field", "measure", "rollup", "state"}

Sound(d) ==
    /\ d.kind \in FilledKinds /\ d.name # NoText /\ d.mode \in Modes[d.kind]
    /\ General(d) => /\ ValidMatch(Entry(d.config, "match", {}))
                     /\ d.config.outputs # {}
                     /\ \A o \in d.config.outputs : /\ ValidOutput(d.kind, d.mode, o)
                                                    /\ \A x \in ListsOf(o) : IsList(x)
    /\ ~General(d) => ValidFlat(d.kind, d.config)

LEMMA AcceptedIsSound ==
  ASSUME NEW d, Accepted(d), d.kind \in FilledKinds
  PROVE  Sound(d)
<1>1. PICK q \in Requests : Accepts(q) /\ d = RecordOf(q, d.version)
  BY DEF Accepted
<1>2. d.kind = q.kind /\ d.name = q.name /\ d.mode = Mode(q) /\ d.config = q.config
  <2>1. d.kind = q.kind /\ d.config = Normalized(q) /\ d.name = q.name /\ d.mode = Mode(q)
    BY <1>1, RecordFields
  <2>2. q.kind # "report"
    BY <2>1 DEF FilledKinds
  <2>3. QED
    BY <2>1, <2>2 DEF Normalized
<1>3. ValidName(q.name) /\ Mode(q) \in Modes[q.kind] /\ ValidConfig(q.kind, Mode(q), q.config)
  BY <1>1 DEF Accepts
<1>4. General(d) => /\ ValidMatch(Entry(d.config, "match", {}))
                    /\ d.config.outputs # {}
                    /\ \A o \in d.config.outputs : ValidOutput(d.kind, d.mode, o)
  BY <1>2, <1>3 DEF General, ValidConfig
<1>5. General(d) => \A o \in d.config.outputs : \A x \in ListsOf(o) : IsList(x)
  BY <1>2, ListsAssumption DEF General, Entry
<1>6. ~General(d) => ValidFlat(d.kind, d.config)
  BY <1>2, <1>3 DEF General, ValidConfig, FilledKinds
<1>7. QED
  BY <1>2, <1>3, <1>4, <1>5, <1>6 DEF Sound, ValidName

LEMMA NamedAreRead ==
  ASSUME NEW d, NEW e, SameReading(d, e)
  PROVE  /\ \A p \in Entry(d.config, "match", {}) : Plain(e.data, p.path) /\ Textual(p)
         /\ \A o \in Entry(d.config, "outputs", {}) :
                /\ \A name \in Expressions : name \in DOMAIN o => \A path \in Inside(o[name]) : Plain(e.data, path)
                /\ \A path \in DimensionPaths(Entry(o, "dimensions", <<>>)) : Plain(e.data, path)
                /\ \A s \in Entry(o, "dimension_sets", {}) : \A path \in DimensionPaths(s.dimensions) : Plain(e.data, path)
         /\ \A name \in {"path", "entity_id_path", "dimension"} :
                Entry(d.config, name, <<>>) # <<>> => Plain(e.data, Entry(d.config, name, <<>>))
<1>1. \A path \in NamedPaths(d) : Plain(e.data, path)
  BY DEF SameReading
<1>2. \A p \in Entry(d.config, "match", {}) : Textual(p)
  BY DEF SameReading
<1>3. \A p \in Entry(d.config, "match", {}) : p.path \in NamedPaths(d)
  BY DEF NamedPaths
<1>4. \A o \in Entry(d.config, "outputs", {}) : OutputPaths(o) \subseteq NamedPaths(d)
  BY DEF NamedPaths
<1>5. \A name \in {"path", "entity_id_path", "dimension"} :
            Entry(d.config, name, <<>>) # <<>> => Entry(d.config, name, <<>>) \in NamedPaths(d)
  <2>1. \A name \in {"path", "entity_id_path", "dimension"} :
            Entry(d.config, name, <<>>) # <<>> => Entry(d.config, name, <<>>) \in FlatPaths(d.config)
    BY Zenon DEF FlatPaths
  <2>2. \A path \in FlatPaths(d.config) : path \in NamedPaths(d)
    BY DEF NamedPaths
  <2>3. QED
    BY <2>1, <2>2, Zenon
<1>6. ASSUME NEW o
      PROVE  /\ \A name \in Expressions : name \in DOMAIN o => Inside(o[name]) \subseteq OutputPaths(o)
             /\ DimensionPaths(Entry(o, "dimensions", <<>>)) \subseteq OutputPaths(o)
             /\ \A s \in Entry(o, "dimension_sets", {}) : DimensionPaths(s.dimensions) \subseteq OutputPaths(o)
  <2> DEFINE Own == UNION {Inside(o[name]) : name \in Expressions \intersect DOMAIN o}
             Cells == DimensionPaths(Entry(o, "dimensions", <<>>))
             Sets == UNION {DimensionPaths(s.dimensions) : s \in Entry(o, "dimension_sets", {})}
  <2>1. /\ \A path \in Own : path \in OutputPaths(o)
        /\ \A path \in Cells : path \in OutputPaths(o)
        /\ \A path \in Sets : path \in OutputPaths(o)
    BY DEF OutputPaths
  <2>2. \A name \in Expressions : name \in DOMAIN o => Inside(o[name]) \subseteq Own
    OBVIOUS
  <2>3. \A s \in Entry(o, "dimension_sets", {}) : DimensionPaths(s.dimensions) \subseteq Sets
    OBVIOUS
  <2> HIDE DEF Own, Sets
  <2>4. QED
    BY <2>1, <2>2, <2>3
<1>7. QED
  BY <1>1, <1>2, <1>3, <1>4, <1>5, <1>6

\* A definition is for the same events in both.
LEMMA SameEvents ==
  ASSUME NEW d, NEW e, Sound(d), SameReading(d, e)
  PROVE  /\ General(d) => (Applies(d, e) <=> SqlWhere(d, e))
         /\ ~General(d) => (Applies(d, e) <=> TenantOnly(d, e))
<1> DEFINE match == Entry(d.config, "match", {})
<1>1. ASSUME General(d) PROVE Applies(d, e) <=> SqlWhere(d, e)
  <2>1. ValidMatch(match)
    BY <1>1 DEF Sound
  <2>2. Predicates(match) = match
    BY <2>1 DEF ValidMatch, ValidPath, Predicates, Ops
  <2>3. \A p \in match : PredicateMatches(e.data, p) <=> SqlPredicate(e.data, p)
    BY <2>1, NamedAreRead, PlainPredicate
  <2>4. QED
    BY <2>2, <2>3 DEF Applies, Matches, SqlWhere
<1>2. ASSUME ~General(d) PROVE Applies(d, e) <=> TenantOnly(d, e)
  <2>1. match = {}
    BY <1>2 DEF SameReading, Entry
  <2>2. QED
    BY <2>1 DEF Applies, Matches, Predicates, TenantOnly
<1>3. QED
  BY <1>1, <1>2

-------------------------------------------------------------------------------
(* The rows of both. *)

LEMMA FieldRowParts ==
  ASSUME NEW d, NEW e, NEW m, NEW f, NEW v, NEW t, NEW r, NEW b
  PROVE  /\ FieldIndexRow(d, e, m, f, v, t, r, b).field = f
         /\ FieldIndexRow(d, e, m, f, v, t, r, b).value = v
         /\ Unbucketed(FieldIndexRow(d, e, m, f, v, t, r, b)) = FieldIndexRow(d, e, m, f, v, t, r, 0)
BY DEF FieldIndexRow, Unbucketed

\* Sets whose rows are the same but for their buckets.
LEMMA SameButBuckets ==
  ASSUME NEW R, NEW S,
         \A row \in R : \E other \in S : Unbucketed(row) = Unbucketed(other),
         \A row \in S : \E other \in R : Unbucketed(row) = Unbucketed(other)
  PROVE  WithoutBucket(R) = WithoutBucket(S)
<1>1. \A T, x : x \in WithoutBucket(T) <=> \E row \in T : x = Unbucketed(row)
  BY DEF WithoutBucket
<1>2. \A x : x \in WithoutBucket(R) <=> x \in WithoutBucket(S)
  BY <1>1
<1>3. QED
  BY <1>2, Zenon

LEMMA SameFieldRows ==
  ASSUME NEW d, NEW e, d.kind = "field", Sound(d), SameReading(d, e), e.data.t = "obj"
  PROVE  WithoutBucket(SqlFieldRows(d, e)) = WithoutBucket(FieldRowsOf(d, e))
<1>1. IsError(e.data) = SqlError(e.data)
  <2>1. Plain(e.data, <<"is_error">>) /\ Text(Field(e.data, <<"is_error">>)) \in {NoText, "true", "false", "1", "0"}
    BY DEF SameReading
  <2>2. IsError(e.data) <=> SqlError(e.data)
    BY <2>1, PlainErrors
  <2>3. IsError(e.data) \in BOOLEAN /\ SqlError(e.data) \in BOOLEAN
    BY DEF IsError, SqlError
  <2>4. QED
    BY <2>2, <2>3
<1>2. CASE ~Applies(d, e)
  <2>1. FieldRowsOf(d, e) = {}
    BY <1>2 DEF FieldRowsOf
  <2>2. SqlFieldRows(d, e) = {}
    BY <1>2, SameEvents DEF SqlFieldRows, GeneralFieldRows, FlatFieldRows
  <2>3. QED
    BY <2>1, <2>2
<1>3. CASE Applies(d, e) /\ General(d)
  <2> DEFINE O == d.config.outputs
             Row(o, b) == FieldIndexRow(d, e, Entry(o, "mode", d.mode), o.field_name.s, SqlString(e.data, o.value),
                                        Entry(o, "value_type", "string"), SqlError(e.data), b)
             Rule(o) == [field |-> StringExpr(o, "field_name", d.name), value |-> o.value,
                         mode |-> FieldMode(Entry(o, "mode", d.mode)), type |-> Entry(o, "value_type", "string")]
  <2>1. Entry(d.config, "outputs", {}) = O /\ O # {}
    BY <1>3 DEF Entry, General, Sound
  <2>2. \A o \in O : ValidField(d.mode, o)
    BY <1>3 DEF Sound, ValidOutput
  <2>3. GeneralizedOutputs(d.config, "field_index") = O
    BY <2>1, <2>2 DEF GeneralizedOutputs, ValidField, Target
  <2>4. \A o \in O : IsValueExpr(Entry(o, "value", Absent))
    BY <2>2, AcceptedExpressions DEF ValidField, Stated
  <2>5. FieldRules(d) = {Rule(o) : o \in O}
    BY <2>1, <2>3, <2>4 DEF FieldRules
  <2>6. ASSUME NEW o \in O
        PROVE  /\ Rule(o).mode = Entry(o, "mode", d.mode) /\ Rule(o).type = Entry(o, "value_type", "string")
               /\ EvalString(e.data, Rule(o).field) = o.field_name.s /\ o.field_name.s # NoText
               /\ {Text(v) : v \in Scalars(EvalValue(e.data, Rule(o).value))} = {SqlString(e.data, o.value)}
    <3>1. Entry(o, "mode", d.mode) \in {"facet", "lookup"}
      BY <2>2 DEF ValidField
    <3>2. "field_name" \in DOMAIN o /\ o.field_name.t = "str" /\ o.field_name.s # NoText
      BY <2>2, TextsOfScalars DEF ValidField, Stated, ValidName, Entry
    <3>3. StringExpr(o, "field_name", d.name) = o.field_name
      BY <3>2 DEF StringExpr, Entry, IsStringExpr
    <3>4. EvalString(e.data, o.field_name) = o.field_name.s
      BY <3>2 DEF EvalString, Text
    <3>5. "value" \in DOMAIN o /\ ValidValue(o.value)
      BY <2>2, TextsOfScalars DEF ValidField, Stated, Entry, ValidValue
    <3>6. {Text(v) : v \in Scalars(EvalValue(e.data, o.value))} = {SqlString(e.data, o.value)}
      <4>1. CASE o.value.t = "path"
        <5>1. Plain(e.data, o.value.path)
          BY <4>1, <3>5, <2>1, NamedAreRead DEF Expressions, Inside
        <5>2. o.value.default = NoText
          BY <4>1, <1>3 DEF SameReading
        <5> DEFINE found == ValueAtPath(e.data, o.value.path)
        <5>3. found.t # "arr" /\ SqlValue(e.data, o.value.path) = Text(found)
          BY <5>1, PlainReadings, TextsOfScalars
        <5>4. EvalValue(e.data, o.value) = found
          BY <4>1 DEF EvalValue
        <5> HIDE DEF found
        <5>5. SqlString(e.data, o.value) = Text(found)
          BY <4>1, <5>2, <5>3 DEF SqlString
        <5>6. QED
          BY <5>3, <5>4, <5>5 DEF Scalars
      <4>2. CASE o.value.t # "path"
        <5>1. o.value.t # "arr"
          BY <3>5, <4>2 DEF ValidValue
        <5>2. QED
          BY <4>2, <5>1 DEF EvalValue, SqlString, Scalars
      <4>3. QED
        BY <4>1, <4>2
    <3>7. QED
      BY <3>1, <3>2, <3>3, <3>4, <3>6 DEF FieldMode
  <2>7. FieldRowsOf(d, e) = {row \in {Row(o, MinuteBucket(e.at)) : o \in O} : row.value # NoText}
    <3> DEFINE Rows(r) == {FieldIndexRow(d, e, r.mode, EvalString(e.data, r.field), Text(v), r.type,
                                         IsError(e.data), MinuteBucket(e.at)) :
                                v \in Scalars(EvalValue(e.data, r.value))}
    <3>1. ASSUME NEW o \in O PROVE Rows(Rule(o)) = {Row(o, MinuteBucket(e.at))}
      <4> DEFINE Made(text) == FieldIndexRow(d, e, Entry(o, "mode", d.mode), o.field_name.s, text,
                                         Entry(o, "value_type", "string"), SqlError(e.data), MinuteBucket(e.at))
      <4> HIDE DEF Rule
      <4>1. Rows(Rule(o)) = {Made(Text(v)) : v \in Scalars(EvalValue(e.data, Rule(o).value))}
        BY <1>1, <2>6
      <4>2. Rows(Rule(o)) = {Made(text) : text \in {Text(v) : v \in Scalars(EvalValue(e.data, Rule(o).value))}}
        <5> HIDE DEF Made, Rows
        <5>1. QED
          BY <4>1
      <4>3. Rows(Rule(o)) = {Made(SqlString(e.data, o.value))}
        <5> HIDE DEF Made, Rows
        <5>1. QED
          BY <4>2, <2>6
      <4>4. QED
        BY <4>3
    <3>2. FieldRowsOf(d, e) = {row \in UNION {Rows(r) : r \in FieldRules(d)} : row.field # NoText /\ row.value # NoText}
      BY <1>3 DEF FieldRowsOf
    <3>3. \A o \in O : Row(o, MinuteBucket(e.at)).field # NoText
      <4> TAKE o \in O
      <4>1. Row(o, MinuteBucket(e.at)).field = o.field_name.s
        BY FieldRowParts
      <4>2. o.field_name.s # NoText
        BY <2>6
      <4> HIDE DEF Row
      <4>3. QED
        BY <4>1, <4>2
    <3> HIDE DEF Rows, Rule, Row
    <3>4. UNION {Rows(r) : r \in FieldRules(d)} = {Row(o, MinuteBucket(e.at)) : o \in O}
      BY <2>5, <3>1
    <3>5. QED
      BY <3>2, <3>3, <3>4
  <2>8. SqlFieldRows(d, e) = {row \in {Row(o, SqlBucket(e.at)) : o \in O} : row.value # NoText}
    BY <1>3, <2>3, SameEvents DEF SqlFieldRows, GeneralFieldRows, FieldRow
  <2>9. \A o, b : Row(o, b).value = SqlString(e.data, o.value) /\ Unbucketed(Row(o, b)) = Row(o, 0)
    BY FieldRowParts
  <2> HIDE DEF Row
  <2>10. ASSUME NEW a, NEW b, NEW row \in {row \in {Row(o, a) : o \in O} : row.value # NoText}
         PROVE  \E other \in {other \in {Row(o, b) : o \in O} : other.value # NoText} :
                    Unbucketed(row) = Unbucketed(other)
    <3>1. PICK o \in O : row = Row(o, a)
      OBVIOUS
    <3>2. Row(o, b).value # NoText /\ Unbucketed(row) = Unbucketed(Row(o, b))
      <4>1. Row(o, a).value # NoText
        BY <3>1
      <4>2. Row(o, b).value = Row(o, a).value /\ Unbucketed(Row(o, a)) = Unbucketed(Row(o, b))
        BY <2>9
      <4>3. QED
        BY <3>1, <4>1, <4>2
    <3>3. QED
      BY <3>2
  <2>11. QED
    <3> DEFINE R(b) == {row \in {Row(o, b) : o \in O} : row.value # NoText}
    <3>1. \A a, b : \A row \in R(a) : \E other \in R(b) : Unbucketed(row) = Unbucketed(other)
      BY <2>10
    <3>2. SqlFieldRows(d, e) = R(SqlBucket(e.at)) /\ FieldRowsOf(d, e) = R(MinuteBucket(e.at))
      BY <2>7, <2>8
    <3> HIDE DEF R
    <3>3. QED
      BY <3>1, <3>2, SameButBuckets
<1>4. CASE Applies(d, e) /\ ~General(d)
  <2> DEFINE found == ValueAtPath(e.data, d.config.path)
             Row(b) == FieldIndexRow(d, e, d.mode, d.name, Text(found), Entry(d.config, "value_type", "string"),
                                     SqlError(e.data), b)
  <2>1. \A target : GeneralizedOutputs(d.config, target) = {}
    BY <1>4 DEF GeneralizedOutputs, Entry, General
  <2>2. "path" \in DOMAIN d.config /\ d.config.path # <<>> /\ Flat(d.config)
    BY <1>4 DEF Sound, ValidFlat, ValidPath, Flat, Entry
  <2>3. d.mode \in {"facet", "lookup"} /\ d.name # NoText
    <3>1. d.mode \in Modes["field"] /\ d.name # NoText
      BY DEF Sound
    <3>2. Modes["field"] = {"facet", "lookup"}
      BY DEF Modes
    <3>3. QED
      BY <3>1, <3>2
  <2>4. FieldRules(d) = {[field |-> Str(d.name), value |-> PathOf(d.config.path), mode |-> d.mode,
                          type |-> Entry(d.config, "value_type", "string")]}
    BY <2>1, <2>2, <2>3 DEF FieldRules, FieldMode
  <2>5. Plain(e.data, d.config.path)
    BY <2>2, NamedAreRead DEF Entry
  <2>6. found.t # "arr" /\ SqlValue(e.data, d.config.path) = Text(found)
    BY <2>5, PlainReadings, TextsOfScalars
  <2>7. EvalString(e.data, Str(d.name)) = d.name /\ EvalValue(e.data, PathOf(d.config.path)) = found
    BY DEF EvalString, EvalValue, Str, PathOf, PathExpr, Text
  <2> HIDE DEF found
  <2>8. FieldRowsOf(d, e) = {row \in {Row(MinuteBucket(e.at))} : row.value # NoText}
    <3> DEFINE rule == [field |-> Str(d.name), value |-> PathOf(d.config.path), mode |-> d.mode,
                        type |-> Entry(d.config, "value_type", "string")]
               Rows(r) == {FieldIndexRow(d, e, r.mode, EvalString(e.data, r.field), Text(v), r.type,
                                         IsError(e.data), MinuteBucket(e.at)) :
                                v \in Scalars(EvalValue(e.data, r.value))}
    <3>1. Row(MinuteBucket(e.at)).field = d.name
      BY FieldRowParts
    <3>2. Scalars(found) = {found}
      BY <2>6 DEF Scalars
    <3>3. Rows(rule) = {Row(MinuteBucket(e.at))}
      BY <1>1, <2>7, <3>2
    <3>4. FieldRowsOf(d, e) = {row \in UNION {Rows(r) : r \in FieldRules(d)} : row.field # NoText /\ row.value # NoText}
      BY <1>4 DEF FieldRowsOf
    <3>5. FieldRules(d) = {rule}
      BY <2>4
    <3> HIDE DEF Rows, rule, Row
    <3>6. UNION {Rows(r) : r \in FieldRules(d)} = {Row(MinuteBucket(e.at))}
      BY <3>3, <3>5
    <3>7. QED
      BY <2>3, <3>1, <3>4, <3>6
  <2>9. SqlFieldRows(d, e) = {row \in {Row(SqlBucket(e.at))} : row.value # NoText}
    BY <1>4, <2>6, SameEvents DEF SqlFieldRows, FlatFieldRows, FieldRow
  <2>10. \A b : Row(b).value = Text(found) /\ Unbucketed(Row(b)) = Row(0)
    BY FieldRowParts
  <2> HIDE DEF Row
  <2>11. ASSUME NEW a, NEW b, NEW row \in {row \in {Row(a)} : row.value # NoText}
         PROVE  \E other \in {other \in {Row(b)} : other.value # NoText} :
                    Unbucketed(row) = Unbucketed(other)
    BY <2>10
  <2>12. QED
    <3> DEFINE R(b) == {row \in {Row(b)} : row.value # NoText}
    <3>1. \A a, b : \A row \in R(a) : \E other \in R(b) : Unbucketed(row) = Unbucketed(other)
      BY <2>11
    <3>2. SqlFieldRows(d, e) = R(SqlBucket(e.at)) /\ FieldRowsOf(d, e) = R(MinuteBucket(e.at))
      BY <2>8, <2>9
    <3> HIDE DEF R
    <3>3. QED
      BY <3>1, <3>2, SameButBuckets
<1>5. QED
  BY <1>2, <1>3, <1>4

-------------------------------------------------------------------------------
(* Dimensions of an event. *)

LEMMA CellsOfDimensions ==
  ASSUME NEW data, NEW dimensions, IsList(dimensions),
         \A path \in DimensionPaths(dimensions) : Plain(data, path)
  PROVE  LET cells == SqlDimensions(data, dimensions)
             full == {i \in DOMAIN cells : cells[i].value # NoText}
         IN  /\ IsList(cells) /\ DOMAIN cells = DOMAIN dimensions /\ Len(cells) = Len(dimensions)
             /\ full \in SUBSET DOMAIN cells
             /\ Filled(data, dimensions) = KeptAt(cells, full)
<1> DEFINE cells == SqlDimensions(data, dimensions)
           full == {i \in DOMAIN cells : cells[i].value # NoText}
           own == [i \in DOMAIN dimensions |->
                    [name |-> dimensions[i].name, value |-> EvalString(data, dimensions[i].value)]]
<1>1. dimensions \in Seq(Range(dimensions)) /\ DOMAIN dimensions = 1..Len(dimensions) /\ Len(dimensions) \in Nat
  BY DEF IsList
<1>2. \A i \in DOMAIN dimensions : \A path \in Inside(dimensions[i].value) : Plain(data, path)
  <2>1. \A i \in DOMAIN dimensions : dimensions[i] \in Range(dimensions)
    BY DEF Range
  <2>2. QED
    BY <2>1 DEF DimensionPaths
<1>3. \A i \in DOMAIN dimensions : EvalString(data, dimensions[i].value) = SqlString(data, dimensions[i].value)
  BY <1>2, PlainExpressions
<1>4. own = cells
  BY <1>3 DEF SqlDimensions
<1>5. DOMAIN cells = DOMAIN dimensions
  BY DEF SqlDimensions
<1>6. Filled(data, dimensions) = KeptAt(own, {i \in DOMAIN own : own[i].value # NoText})
  BY DEF Filled
<1>7. IsList(cells) /\ Len(cells) = Len(dimensions)
  <2>1. cells = [i \in 1..Len(dimensions) |-> cells[i]]
    BY <1>1 DEF SqlDimensions
  <2> HIDE DEF cells
  <2>2. \A i \in 1..Len(dimensions) : cells[i] \in Range(cells)
    BY <1>1, <1>5 DEF Range
  <2>3. QED
    BY <1>1, <2>1, <2>2 DEF IsList
<1> HIDE DEF cells, own
<1>8. QED
  BY <1>4, <1>5, <1>6, <1>7 DEF cells

\* The dimensions that have a value, and whether all of them do.
LEMMA FilledCells ==
  ASSUME NEW data, NEW dimensions, IsList(dimensions),
         \A path \in DimensionPaths(dimensions) : Plain(data, path)
  PROVE  LET cells == SqlDimensions(data, dimensions)
         IN  /\ Filled(data, dimensions) = <<>> <=> \A c \in Range(cells) : c.value = NoText
             /\ Range(Filled(data, dimensions)) = {c \in Range(cells) : c.value # NoText}
             /\ Len(Filled(data, dimensions)) = Len(dimensions)
                    <=> \A i \in DOMAIN dimensions : cells[i].value # NoText
             /\ Len(Filled(data, dimensions)) = Len(dimensions) => Filled(data, dimensions) = cells
<1> DEFINE cells == SqlDimensions(data, dimensions)
           full == {i \in DOMAIN cells : cells[i].value # NoText}
<1>1. /\ IsList(cells) /\ DOMAIN cells = DOMAIN dimensions /\ Len(cells) = Len(dimensions)
      /\ full \in SUBSET DOMAIN cells
      /\ Filled(data, dimensions) = KeptAt(cells, full)
  BY CellsOfDimensions
<1> HIDE DEF cells
<1>2. /\ Len(KeptAt(cells, full)) = Cardinality(full)
      /\ Range(KeptAt(cells, full)) = {cells[i] : i \in full}
      /\ KeptAt(cells, full) = <<>> <=> full = {}
  BY <1>1, KeptElements
<1>3. KeptAt(cells, DOMAIN cells) = cells /\ (Cardinality(full) = Len(cells) <=> full = DOMAIN cells)
  BY <1>1, KeptWhole
<1>4. \A c : c \in Range(cells) <=> \E i \in DOMAIN cells : c = cells[i]
  BY DEF Range
<1>5. full = {} <=> \A c \in Range(cells) : c.value = NoText
  BY <1>4
<1>6. {cells[i] : i \in full} = {c \in Range(cells) : c.value # NoText}
  BY <1>4
<1>7. full = DOMAIN cells <=> \A i \in DOMAIN dimensions : cells[i].value # NoText
  BY <1>1
<1> HIDE DEF full
<1>8. QED
  BY <1>1, <1>2, <1>3, <1>5, <1>6, <1>7 DEF cells

-------------------------------------------------------------------------------
(* Measures. *)

LEMMA MeasureRowParts ==
  ASSUME NEW d, NEW e, NEW m, NEW v, NEW u, NEW s, NEW c, NEW b
  PROVE  /\ EventMeasureRow(d, e, m, v, u, s, c, b).measure = m
         /\ Unbucketed(EventMeasureRow(d, e, m, v, u, s, c, b)) = EventMeasureRow(d, e, m, v, u, s, c, 0)
BY DEF EventMeasureRow, Unbucketed

LEMMA CubeRowParts ==
  ASSUME NEW d, NEW e, NEW m, NEW v, NEW u, NEW s, NEW x, NEW c, NEW b
  PROVE  /\ CubePointRow(d, e, m, v, u, s, x, c, b).measure = m
         /\ Unbucketed(CubePointRow(d, e, m, v, u, s, x, c, b)) = CubePointRow(d, e, m, v, u, s, x, c, 0)
BY DEF CubePointRow, Unbucketed

\* What both read of an output of a measure.
LEMMA MeasureParts ==
  ASSUME NEW d, NEW e, d.kind \in {"measure", "rollup"}, Sound(d), SameReading(d, e), General(d),
         NEW o \in d.config.outputs
  PROVE  /\ ValidMeasure(d.kind, d.mode, o) /\ Numeric(o)
         /\ EvalString(e.data, StringExpr(o, "measure_name", d.name)) = SqlString(e.data, o.measure_name)
         /\ EvalNumber(e.data, o.value) = SqlAmount(e.data, o.value)
         /\ EvalString(e.data, StringExpr(o, "unit", NoText)) = SqlString(e.data, Entry(o, "unit", Str(NoText)))
<1>1. ValidMeasure(d.kind, d.mode, o)
  BY DEF Sound, ValidOutput
<1>2. Entry(d.config, "outputs", {}) = d.config.outputs
  BY DEF Entry, General
<1>3. \A name \in Expressions : name \in DOMAIN o => \A path \in Inside(o[name]) : Plain(e.data, path)
  BY <1>2, NamedAreRead
<1>4. "measure_name" \in DOMAIN o /\ IsStringExpr(o.measure_name)
  BY <1>1, AcceptedExpressions, TextsOfScalars DEF ValidMeasure, Stated, Entry, IsStringExpr
<1>5. "value" \in DOMAIN o /\ IsNumberExpr(o.value)
  BY <1>1, AcceptedExpressions, TextsOfScalars DEF ValidMeasure, Stated, Entry, IsNumberExpr
<1>6. "unit" \in DOMAIN o => IsStringExpr(o.unit)
  BY <1>1, AcceptedExpressions DEF ValidMeasure, Optional
<1>7. EvalString(e.data, StringExpr(o, "measure_name", d.name)) = SqlString(e.data, o.measure_name)
  <2>1. StringExpr(o, "measure_name", d.name) = o.measure_name
    BY <1>4 DEF StringExpr, Entry
  <2>2. \A path \in Inside(o.measure_name) : Plain(e.data, path)
    BY <1>3, <1>4 DEF Expressions
  <2>3. QED
    BY <2>1, <2>2, PlainExpressions
<1>8. EvalNumber(e.data, o.value) = SqlAmount(e.data, o.value)
  <2>1. \A path \in Inside(o.value) : Plain(e.data, path)
    BY <1>3, <1>5 DEF Expressions
  <2>2. QED
    BY <2>1, PlainExpressions
<1>9. EvalString(e.data, StringExpr(o, "unit", NoText)) = SqlString(e.data, Entry(o, "unit", Str(NoText)))
  <2>1. CASE "unit" \in DOMAIN o
    <3>1. StringExpr(o, "unit", NoText) = o.unit /\ Entry(o, "unit", Str(NoText)) = o.unit
      BY <1>6, <2>1 DEF StringExpr, Entry
    <3>2. \A path \in Inside(o.unit) : Plain(e.data, path)
      BY <1>3, <2>1 DEF Expressions
    <3>3. QED
      BY <3>1, <3>2, PlainExpressions
  <2>2. CASE "unit" \notin DOMAIN o
    <3>1. StringExpr(o, "unit", NoText) = Str(NoText) /\ Entry(o, "unit", Str(NoText)) = Str(NoText)
      BY <2>2, TextsOfScalars DEF StringExpr, Entry, IsStringExpr
    <3>2. Str(NoText).t # "path"
      BY DEF Str
    <3>3. QED
      BY <3>1, <3>2 DEF EvalString, SqlString
  <2>3. QED
    BY <2>1, <2>2
<1>10. QED
  BY <1>1, <1>5, <1>7, <1>8, <1>9 DEF Numeric, Entry

\* The cells of a row are the same in both.
LEMMA SameCells ==
  ASSUME NEW data, NEW dimensions, IsList(dimensions),
         \A path \in DimensionPaths(dimensions) : Plain(data, path)
  PROVE  MeasureCells(data, dimensions) = SqlMeasureCells(data, dimensions)
<1>1. /\ Filled(data, dimensions) = <<>> <=> \A c \in Range(SqlDimensions(data, dimensions)) : c.value = NoText
      /\ Range(Filled(data, dimensions)) = {c \in Range(SqlDimensions(data, dimensions)) : c.value # NoText}
  BY FilledCells
<1>2. QED
  BY <1>1 DEF MeasureCells, SqlMeasureCells

LEMMA StatedTexts ==
  ASSUME NEW data, NEW s
  PROVE  EvalString(data, Str(s)) = s
<1>1. Str(s).t = "str" /\ Str(s).s = s
  BY DEF Str
<1>2. QED
  BY <1>1 DEF EvalString, Text

LEMMA StatedPaths ==
  ASSUME NEW data, NEW path, Plain(data, path)
  PROVE  /\ EvalNumber(data, PathOf(path)) = SqlNumber(data, path)
         /\ EvalString(data, PathOf(path)) = SqlValue(data, path)
         /\ SqlString(data, PathOf(path)) = SqlValue(data, path)
<1>1. PathOf(path).t = "path" /\ PathOf(path).path = path /\ PathOf(path).default = NoText
  BY DEF PathOf, PathExpr
<1>2. SqlValue(data, path) = Text(ValueAtPath(data, path)) /\ SqlNumber(data, path) = NumberOf(ValueAtPath(data, path))
  BY PlainReadings
<1>3. QED
  BY <1>1, <1>2 DEF EvalNumber, EvalValue, EvalString, SqlString

\* The rows of a measure, one by one.
FlatCell(d, e) ==
    LET by == Entry(d.config, "dimension", <<>>)
    IN  IF by = <<>> THEN Unsplit ELSE [name |-> Dotted(by), value |-> SqlValue(e.data, by)]

FromRule(d, e, r, row) ==
    \E n \in EvalNumber(e.data, r.value), cell \in MeasureCells(e.data, r.dimensions) :
        row = EventMeasureRow(d, e, EvalString(e.data, r.measure), n, EvalString(e.data, r.unit),
                              r.seconds, cell, MinuteBucket(e.at))
FromOutput(d, e, o, row, bucket) ==
    \E n \in SqlAmount(e.data, o.value), cell \in SqlMeasureCells(e.data, Entry(o, "dimensions", <<>>)) :
        row = EventMeasureRow(d, e, SqlString(e.data, o.measure_name), n, SqlString(e.data, Entry(o, "unit", Str(NoText))),
                              Entry(o, "bucket_seconds", 300), cell, bucket)
FromFlat(d, e, row, bucket) ==
    \E n \in SqlNumber(e.data, d.config.path) :
        row = EventMeasureRow(d, e, d.name, n, Entry(d.config, "unit", NoText), 300, FlatCell(d, e), bucket)

LEMMA MeasureRowsOf ==
  ASSUME NEW d, NEW e, NEW row
  PROVE  row \in EventMeasureRows(d, e) <=>
            /\ Applies(d, e) /\ row.measure # NoText
            /\ \E r \in MeasureRules(d) : FromRule(d, e, r, row)
<1> DEFINE Rows(r) == {EventMeasureRow(d, e, EvalString(e.data, r.measure), n, EvalString(e.data, r.unit),
                                       r.seconds, cell, MinuteBucket(e.at)) :
                           n \in EvalNumber(e.data, r.value), cell \in MeasureCells(e.data, r.dimensions)}
<1>1. EventMeasureRows(d, e) = IF ~Applies(d, e) THEN {}
                               ELSE {x \in UNION {Rows(r) : r \in MeasureRules(d)} : x.measure # NoText}
  BY DEF EventMeasureRows
<1>2. \A r : row \in Rows(r) <=> FromRule(d, e, r, row)
  BY DEF FromRule
<1> HIDE DEF Rows
<1>3. QED
  BY <1>1, <1>2

LEMMA GeneralMeasureRowsOf ==
  ASSUME NEW d, NEW e, NEW row
  PROVE  row \in GeneralMeasureRows(d, e) <=>
            /\ SqlWhere(d, e) /\ row.measure # NoText
            /\ \E o \in GeneralizedOutputs(d.config, "event_measures") : FromOutput(d, e, o, row, SqlBucket(e.at))
<1> DEFINE Rows(o) == {MeasureRow(d, e, SqlString(e.data, o.measure_name), n, SqlString(e.data, Entry(o, "unit", Str(NoText))),
                                  Entry(o, "bucket_seconds", 300), cell) :
                            n \in SqlAmount(e.data, o.value), cell \in SqlMeasureCells(e.data, Entry(o, "dimensions", <<>>))}
           outputs == IF SqlWhere(d, e) THEN GeneralizedOutputs(d.config, "event_measures") ELSE {}
<1>1. GeneralMeasureRows(d, e) = {x \in UNION {Rows(o) : o \in outputs} : x.measure # NoText}
  BY DEF GeneralMeasureRows
<1>2. \A o : row \in Rows(o) <=> FromOutput(d, e, o, row, SqlBucket(e.at))
  BY DEF MeasureRow, FromOutput
<1>3. \A o : o \in outputs <=> SqlWhere(d, e) /\ o \in GeneralizedOutputs(d.config, "event_measures")
  OBVIOUS
<1> HIDE DEF Rows, outputs
<1>4. \A o \in outputs : row \in Rows(o) => row \in UNION {Rows(p) : p \in outputs}
  OBVIOUS
<1>5. row \in UNION {Rows(p) : p \in outputs} => \E o \in outputs : row \in Rows(o)
  OBVIOUS
<1>6. QED
  BY <1>1, <1>2, <1>3, <1>4, <1>5

LEMMA FlatMeasureRowsOf ==
  ASSUME NEW d, NEW e, NEW row
  PROVE  row \in FlatMeasureRows(d, e) <=>
            TenantOnly(d, e) /\ FromFlat(d, e, row, SqlBucket(e.at))
BY DEF FlatMeasureRows, MeasureRow, FlatCell, FromFlat

LEMMA FlatCells ==
  ASSUME NEW d, NEW e, SameReading(d, e), ~General(d)
  PROVE  LET by == Entry(d.config, "dimension", <<>>)
         IN  MeasureCells(e.data, IF by = <<>> THEN <<>> ELSE <<[name |-> Dotted(by), value |-> PathOf(by)]>>)
                = {FlatCell(d, e)}
<1> DEFINE by == Entry(d.config, "dimension", <<>>)
           only == [name |-> Dotted(by), value |-> PathOf(by)]
<1>1. CASE by = <<>>
  <2>1. IsList(<<>>) /\ DimensionPaths(<<>>) = {} /\ Range(<<>>) = {}
    BY DEF IsList, DimensionPaths, Range
  <2>2. Range(SqlDimensions(e.data, <<>>)) = {}
    BY DEF SqlDimensions, Range
  <2>3. Filled(e.data, <<>>) = <<>>
    BY <2>1, <2>2, FilledCells
  <2>4. QED
    BY <1>1, <2>3 DEF MeasureCells, FlatCell
<1>2. CASE by # <<>>
  <2>1. Plain(e.data, by) /\ ValueAtPath(e.data, by) # Absent
    <3>1. "dimension" \in DOMAIN d.config /\ by = d.config.dimension
      BY <1>2 DEF Entry
    <3>2. Plain(e.data, by)
      BY <1>2, NamedAreRead
    <3>3. ValueAtPath(e.data, by) # Absent
      BY <3>1 DEF SameReading
    <3>4. QED
      BY <3>2, <3>3
  <2>2. SqlValue(e.data, by) # NoText
    BY <2>1, PlainReadings
  <2>3. SqlString(e.data, only.value) = SqlValue(e.data, by) /\ Inside(only.value) = {by}
    <3>1. only.value = PathOf(by)
      OBVIOUS
    <3>2. PathOf(by).t = "path" /\ PathOf(by).path = by
      BY DEF PathOf, PathExpr
    <3>3. QED
      BY <2>1, <3>1, <3>2, StatedPaths DEF Inside
  <2>4. FlatCell(d, e) = [name |-> only.name, value |-> SqlString(e.data, only.value)]
    BY <1>2, <2>3 DEF FlatCell
  <2>5. FlatCell(d, e).value # NoText
    BY <2>2, <2>3, <2>4
  <2> HIDE DEF only
  <2>6. <<only>> \in Seq({only}) /\ DOMAIN <<only>> = {1} /\ <<only>>[1] = only
    OBVIOUS
  <2>7. Range(<<only>>) = {only} /\ IsList(<<only>>)
    <3>1. Range(<<only>>) = {only}
      BY <2>6 DEF Range
    <3>2. QED
      BY <2>6, <3>1 DEF IsList
  <2>8. \A path \in DimensionPaths(<<only>>) : Plain(e.data, path)
    BY <2>1, <2>3, <2>7 DEF DimensionPaths
  <2>9. Range(SqlDimensions(e.data, <<only>>)) = {FlatCell(d, e)}
    <3>1. SqlDimensions(e.data, <<only>>) = [i \in {1} |-> FlatCell(d, e)]
      BY <2>4, <2>6 DEF SqlDimensions
    <3>2. QED
      BY <3>1 DEF Range
  <2>10. SqlMeasureCells(e.data, <<only>>) = {FlatCell(d, e)}
    BY <2>5, <2>9 DEF SqlMeasureCells
  <2>11. MeasureCells(e.data, <<only>>) = {FlatCell(d, e)}
    BY <2>7, <2>8, <2>10, SameCells
  <2>12. QED
    BY <1>2, <2>11 DEF only
<1>3. QED
  BY <1>1, <1>2

\* Only the bucket is other than in the other reading.
LikeOutput(d, e, o, row, bucket) ==
    \E other : /\ FromOutput(d, e, o, other, bucket)
              /\ other.measure = row.measure /\ Unbucketed(row) = Unbucketed(other)
LikeFlat(d, e, row, bucket) ==
    \E other : /\ FromFlat(d, e, other, bucket)
              /\ other.measure = row.measure /\ Unbucketed(row) = Unbucketed(other)

LEMMA Rebucketed ==
  ASSUME NEW d, NEW e, NEW row, NEW a, NEW b
  PROVE  /\ \A o : FromOutput(d, e, o, row, a) => LikeOutput(d, e, o, row, b)
         /\ FromFlat(d, e, row, a) => row.measure = d.name /\ LikeFlat(d, e, row, b)
<1>1. ASSUME NEW o, FromOutput(d, e, o, row, a)
      PROVE  \E other : /\ FromOutput(d, e, o, other, b)
                        /\ other.measure = row.measure /\ Unbucketed(row) = Unbucketed(other)
  <2> DEFINE Row(n, cell, x) == EventMeasureRow(d, e, SqlString(e.data, o.measure_name), n,
                SqlString(e.data, Entry(o, "unit", Str(NoText))), Entry(o, "bucket_seconds", 300), cell, x)
  <2>1. PICK n \in SqlAmount(e.data, o.value), cell \in SqlMeasureCells(e.data, Entry(o, "dimensions", <<>>)) :
            row = Row(n, cell, a)
    BY <1>1 DEF FromOutput
  <2>2. FromOutput(d, e, o, Row(n, cell, b), b)
    BY DEF FromOutput
  <2>3. Row(n, cell, b).measure = Row(n, cell, a).measure /\ Unbucketed(Row(n, cell, b)) = Unbucketed(Row(n, cell, a))
    BY MeasureRowParts
  <2> HIDE DEF Row
  <2>4. QED
    BY <2>1, <2>2, <2>3
<1>2. ASSUME FromFlat(d, e, row, a)
      PROVE  /\ row.measure = d.name
             /\ \E other : /\ FromFlat(d, e, other, b)
                           /\ other.measure = row.measure /\ Unbucketed(row) = Unbucketed(other)
  <2> DEFINE Row(n, x) == EventMeasureRow(d, e, d.name, n, Entry(d.config, "unit", NoText), 300, FlatCell(d, e), x)
  <2>1. PICK n \in SqlNumber(e.data, d.config.path) : row = Row(n, a)
    BY <1>2 DEF FromFlat
  <2>2. FromFlat(d, e, Row(n, b), b)
    BY DEF FromFlat
  <2>3. Row(n, a).measure = d.name /\ Row(n, b).measure = d.name /\ Unbucketed(Row(n, b)) = Unbucketed(Row(n, a))
    BY MeasureRowParts
  <2> HIDE DEF Row
  <2>4. QED
    BY <2>1, <2>2, <2>3
<1>3. QED
  BY <1>1, <1>2 DEF LikeOutput, LikeFlat

LEMMA SameMeasureRows ==
  ASSUME NEW d, NEW e, d.kind \in {"measure", "rollup"}, Sound(d), SameReading(d, e)
  PROVE  WithoutBucket(SqlMeasureRows(d, e)) = WithoutBucket(EventMeasureRows(d, e))
<1>1. CASE ~Applies(d, e)
  <2>1. EventMeasureRows(d, e) = {}
    BY <1>1, MeasureRowsOf
  <2>2. SqlMeasureRows(d, e) = {}
    BY <1>1, SameEvents, GeneralMeasureRowsOf, FlatMeasureRowsOf DEF SqlMeasureRows
  <2>3. QED
    BY <2>1, <2>2
<1>2. CASE Applies(d, e) /\ General(d)
  <2> DEFINE O == GeneralizedOutputs(d.config, "event_measures")
             Cells(o) == SqlMeasureCells(e.data, Entry(o, "dimensions", <<>>))
  <2>1. ASSUME NEW o \in O
        PROVE  /\ ValidMeasure(d.kind, d.mode, o) /\ Numeric(o) /\ Entry(o, "target", "event_measures") = "event_measures"
               /\ EvalString(e.data, StringExpr(o, "measure_name", d.name)) = SqlString(e.data, o.measure_name)
               /\ EvalNumber(e.data, o.value) = SqlAmount(e.data, o.value)
               /\ EvalString(e.data, StringExpr(o, "unit", NoText)) = SqlString(e.data, Entry(o, "unit", Str(NoText)))
               /\ MeasureCells(e.data, Dimensions(o)) = Cells(o)
    <3>1. o \in d.config.outputs /\ o \in Entry(d.config, "outputs", {})
      BY <1>2 DEF GeneralizedOutputs, Entry, General
    <3>2. Entry(o, "target", "event_measures") = "event_measures"
      BY DEF GeneralizedOutputs
    <3> HIDE DEF O
    <3>3. /\ ValidMeasure(d.kind, d.mode, o) /\ Numeric(o)
          /\ EvalString(e.data, StringExpr(o, "measure_name", d.name)) = SqlString(e.data, o.measure_name)
          /\ EvalNumber(e.data, o.value) = SqlAmount(e.data, o.value)
          /\ EvalString(e.data, StringExpr(o, "unit", NoText)) = SqlString(e.data, Entry(o, "unit", Str(NoText)))
      <4>1. General(d)
        BY <1>2
      <4>2. QED
        BY <3>1, <4>1, MeasureParts
    <3> DEFINE stated == Entry(o, "dimensions", <<>>)
    <3>4. ValidDimensions(stated)
      BY <3>2, <3>3 DEF ValidMeasure
    <3>5. IsList(stated)
      BY <1>2, <3>1 DEF Sound, ListsOf
    <3>6. Dimensions(o) = stated
      BY <3>4, <3>5, AcceptedDimensions
    <3>7. \A path \in DimensionPaths(stated) : Plain(e.data, path)
      BY <3>1, NamedAreRead
    <3>8. MeasureCells(e.data, stated) = SqlMeasureCells(e.data, stated)
      BY <3>5, <3>7, SameCells
    <3>9. QED
      BY <3>2, <3>3, <3>6, <3>8
  <2>2. MeasureRules(d) = {MeasureRule(o, d, Dimensions(o)) : o \in O}
    <3>1. \A o \in O : Numeric(o)
      BY <2>1
    <3>2. {p \in O : Numeric(p)} = O
      BY <3>1
    <3>3. ~Flat(d.config)
      BY <1>2 DEF SameReading, Flat, Entry
    <3> HIDE DEF O
    <3>4. QED
      BY <3>2, <3>3 DEF MeasureRules, O
  <2>3. ASSUME NEW o
        PROVE  /\ MeasureRule(o, d, Dimensions(o)).measure = StringExpr(o, "measure_name", d.name)
               /\ MeasureRule(o, d, Dimensions(o)).value = o.value
               /\ MeasureRule(o, d, Dimensions(o)).unit = StringExpr(o, "unit", NoText)
               /\ MeasureRule(o, d, Dimensions(o)).seconds = Entry(o, "bucket_seconds", 300)
               /\ MeasureRule(o, d, Dimensions(o)).dimensions = Dimensions(o)
    BY DEF MeasureRule
  <2>4. ASSUME NEW o \in O, NEW row
        PROVE  FromRule(d, e, MeasureRule(o, d, Dimensions(o)), row) <=> FromOutput(d, e, o, row, MinuteBucket(e.at))
    <3> DEFINE rule == MeasureRule(o, d, Dimensions(o))
    <3>1. /\ EvalString(e.data, rule.measure) = SqlString(e.data, o.measure_name)
          /\ EvalNumber(e.data, rule.value) = SqlAmount(e.data, o.value)
          /\ EvalString(e.data, rule.unit) = SqlString(e.data, Entry(o, "unit", Str(NoText)))
          /\ rule.seconds = Entry(o, "bucket_seconds", 300)
          /\ MeasureCells(e.data, rule.dimensions) = Cells(o)
      <4> HIDE DEF O
      <4>1. QED
        BY <2>1, <2>3
    <3> HIDE DEF O, rule
    <3>2. FromRule(d, e, rule, row) <=> FromOutput(d, e, o, row, MinuteBucket(e.at))
      BY <3>1 DEF FromRule, FromOutput
    <3>3. QED
      BY <3>2 DEF rule
  <2>5. ASSUME NEW row
        PROVE  row \in EventMeasureRows(d, e) <=>
                row.measure # NoText /\ \E o \in O : FromOutput(d, e, o, row, MinuteBucket(e.at))
    <3>1. row \in EventMeasureRows(d, e) <=> row.measure # NoText /\ \E r \in MeasureRules(d) : FromRule(d, e, r, row)
      BY <1>2, MeasureRowsOf
    <3> HIDE DEF O
    <3>2. QED
      BY <2>2, <2>4, <3>1
  <2>6. ASSUME NEW row
        PROVE  row \in SqlMeasureRows(d, e) <=>
                row.measure # NoText /\ \E o \in O : FromOutput(d, e, o, row, SqlBucket(e.at))
    <3>1. SqlWhere(d, e) /\ SqlMeasureRows(d, e) = GeneralMeasureRows(d, e)
      BY <1>2, SameEvents DEF SqlMeasureRows
    <3>2. QED
      BY <3>1, GeneralMeasureRowsOf
  <2> HIDE DEF O
  <2>7. /\ \A row \in SqlMeasureRows(d, e) : \E other \in EventMeasureRows(d, e) : Unbucketed(row) = Unbucketed(other)
        /\ \A row \in EventMeasureRows(d, e) : \E other \in SqlMeasureRows(d, e) : Unbucketed(row) = Unbucketed(other)
    <3>1. ASSUME NEW row \in SqlMeasureRows(d, e)
          PROVE  \E other \in EventMeasureRows(d, e) : Unbucketed(row) = Unbucketed(other)
      <4>1. PICK o \in O : row.measure # NoText /\ FromOutput(d, e, o, row, SqlBucket(e.at))
        BY <2>6
      <4>2. PICK other : /\ other.measure # NoText /\ FromOutput(d, e, o, other, MinuteBucket(e.at))
                         /\ Unbucketed(row) = Unbucketed(other)
        <5>1. LikeOutput(d, e, o, row, MinuteBucket(e.at))
          BY <4>1, Rebucketed
        <5>2. QED
          BY <4>1, <5>1 DEF LikeOutput
      <4>3. QED
        BY <2>5, <4>2
    <3>2. ASSUME NEW row \in EventMeasureRows(d, e)
          PROVE  \E other \in SqlMeasureRows(d, e) : Unbucketed(row) = Unbucketed(other)
      <4>1. PICK o \in O : row.measure # NoText /\ FromOutput(d, e, o, row, MinuteBucket(e.at))
        BY <2>5
      <4>2. PICK other : /\ other.measure # NoText /\ FromOutput(d, e, o, other, SqlBucket(e.at))
                         /\ Unbucketed(row) = Unbucketed(other)
        <5>1. LikeOutput(d, e, o, row, SqlBucket(e.at))
          BY <4>1, Rebucketed
        <5>2. QED
          BY <4>1, <5>1 DEF LikeOutput
      <4>3. QED
        BY <2>6, <4>2
    <3>3. QED
      BY <3>1, <3>2
  <2>8. QED
    BY <2>7, SameButBuckets
<1>3. CASE Applies(d, e) /\ ~General(d)
  <2> DEFINE by == Entry(d.config, "dimension", <<>>)
             flat == [value |-> PathOf(d.config.path), unit |-> Str(Entry(d.config, "unit", NoText))]
             dimensions == IF by = <<>> THEN <<>> ELSE <<[name |-> Dotted(by), value |-> PathOf(by)]>>
             rule == MeasureRule(flat, d, dimensions)
  <2>1. "path" \in DOMAIN d.config /\ d.config.path # <<>> /\ Flat(d.config) /\ d.name # NoText
    BY <1>3 DEF Sound, ValidFlat, ValidPath, Flat, Entry
  <2>2. MeasureRules(d) = {rule}
    <3>1. \A target : GeneralizedOutputs(d.config, target) = {}
      BY <1>3 DEF GeneralizedOutputs, Entry, General
    <3>2. QED
      BY <2>1, <3>1 DEF MeasureRules
  <2>3. /\ rule.measure = Str(d.name) /\ rule.value = PathOf(d.config.path) /\ rule.seconds = 300
        /\ rule.unit = Str(Entry(d.config, "unit", NoText)) /\ rule.dimensions = dimensions
    BY TextsOfScalars DEF MeasureRule, StringExpr, Entry, IsStringExpr, Str
  <2>4. MeasureCells(e.data, dimensions) = {FlatCell(d, e)}
    BY <1>3, FlatCells
  <2> HIDE DEF rule, dimensions
  <2>5. EvalString(e.data, rule.measure) = d.name /\ EvalString(e.data, rule.unit) = Entry(d.config, "unit", NoText)
    BY <2>3, StatedTexts
  <2>6. EvalNumber(e.data, rule.value) = SqlNumber(e.data, d.config.path)
    <3>1. Plain(e.data, d.config.path)
      BY <2>1, NamedAreRead DEF Entry
    <3>2. QED
      BY <2>3, <3>1, StatedPaths
  <2>7. \A row : FromRule(d, e, rule, row) <=> FromFlat(d, e, row, MinuteBucket(e.at))
    BY <2>3, <2>4, <2>5, <2>6 DEF FromRule, FromFlat
  <2>8. \A row : row \in EventMeasureRows(d, e) <=> row.measure # NoText /\ FromFlat(d, e, row, MinuteBucket(e.at))
    BY <1>3, <2>2, <2>7, MeasureRowsOf
  <2>9. \A row : row \in SqlMeasureRows(d, e) <=> FromFlat(d, e, row, SqlBucket(e.at))
    <3>1. TenantOnly(d, e) /\ SqlMeasureRows(d, e) = FlatMeasureRows(d, e)
      BY <1>3, SameEvents DEF SqlMeasureRows
    <3>2. QED
      BY <3>1, FlatMeasureRowsOf
  <2>10. ASSUME NEW a, NEW b, NEW row, FromFlat(d, e, row, a)
         PROVE  row.measure # NoText /\ \E other : FromFlat(d, e, other, b) /\ other.measure # NoText /\ Unbucketed(row) = Unbucketed(other)
    <3>1. row.measure = d.name /\ LikeFlat(d, e, row, b)
      BY <2>10, Rebucketed
    <3>2. QED
      BY <2>1, <3>1 DEF LikeFlat
  <2>11. /\ \A row \in SqlMeasureRows(d, e) : \E other \in EventMeasureRows(d, e) : Unbucketed(row) = Unbucketed(other)
         /\ \A row \in EventMeasureRows(d, e) : \E other \in SqlMeasureRows(d, e) : Unbucketed(row) = Unbucketed(other)
    BY <2>8, <2>9, <2>10
  <2>12. QED
    BY <2>11, SameButBuckets
<1>4. QED
  BY <1>1, <1>2, <1>3

\* The rows of a cube, one by one.
FromCubeRule(d, e, r, row) ==
    \E n \in EvalNumber(e.data, r.value), s \in r.sets :
        /\ Len(Filled(e.data, s.dimensions)) = Len(s.dimensions)
        /\ row = CubePointRow(d, e, EvalString(e.data, r.measure), n, EvalString(e.data, r.unit), r.seconds,
                              s.id, Filled(e.data, s.dimensions), MinuteBucket(e.at))
FullSet(e, s) == \A i \in DOMAIN s.dimensions : SqlDimensions(e.data, s.dimensions)[i].value # NoText
FromCubeOutput(d, e, o, row, bucket) ==
    \E n \in SqlAmount(e.data, o.value), s \in o.dimension_sets :
        /\ FullSet(e, s)
        /\ row = CubePointRow(d, e, SqlString(e.data, o.measure_name), n,
                              SqlString(e.data, Entry(o, "unit", Str(NoText))), Entry(o, "bucket_seconds", 300),
                              s.id, SqlDimensions(e.data, s.dimensions), bucket)
LikeCube(d, e, o, row, bucket) ==
    \E other : /\ FromCubeOutput(d, e, o, other, bucket)
              /\ other.measure = row.measure /\ Unbucketed(row) = Unbucketed(other)

LEMMA CubeRowsOf ==
  ASSUME NEW d, NEW e, NEW row
  PROVE  row \in CubePointRows(d, e) <=>
            /\ Applies(d, e) /\ row.measure # NoText
            /\ \E r \in CubeRules(d) : FromCubeRule(d, e, r, row)
<1> DEFINE Complete(r) == {s \in r.sets : Len(Filled(e.data, s.dimensions)) = Len(s.dimensions)}
           Rows(r) == {CubePointRow(d, e, EvalString(e.data, r.measure), n, EvalString(e.data, r.unit), r.seconds,
                                    s.id, Filled(e.data, s.dimensions), MinuteBucket(e.at)) :
                           n \in EvalNumber(e.data, r.value), s \in Complete(r)}
<1>1. CubePointRows(d, e) = IF ~Applies(d, e) THEN {}
                            ELSE {x \in UNION {Rows(r) : r \in CubeRules(d)} : x.measure # NoText}
  BY DEF CubePointRows
<1>2. \A r : row \in Rows(r) <=> FromCubeRule(d, e, r, row)
  BY DEF FromCubeRule
<1> HIDE DEF Rows
<1>3. QED
  BY <1>1, <1>2

LEMMA SqlCubeRowsOf ==
  ASSUME NEW d, NEW e, NEW row
  PROVE  row \in SqlCubeRows(d, e) <=>
            /\ General(d) /\ SqlWhere(d, e) /\ row.measure # NoText
            /\ \E o \in GeneralizedOutputs(d.config, "measure_cube_rollups") :
                    "target" \in DOMAIN o /\ FromCubeOutput(d, e, o, row, SqlBucket(e.at))
<1>1. \A o : row \in CubeOutputRows(d, e, o) <=> row.measure # NoText /\ FromCubeOutput(d, e, o, row, SqlBucket(e.at))
  BY DEF CubeOutputRows, FromCubeOutput, FullSet
<1> DEFINE outputs == {x \in IF General(d) /\ SqlWhere(d, e) THEN GeneralizedOutputs(d.config, "measure_cube_rollups")
                             ELSE {} : "target" \in DOMAIN x}
<1>2. \A o : o \in outputs <=> /\ General(d) /\ SqlWhere(d, e)
                               /\ o \in GeneralizedOutputs(d.config, "measure_cube_rollups") /\ "target" \in DOMAIN o
  OBVIOUS
<1>3. SqlCubeRows(d, e) = UNION {CubeOutputRows(d, e, o) : o \in outputs}
  BY DEF SqlCubeRows
<1> HIDE DEF outputs
<1>4. row \in SqlCubeRows(d, e) <=> \E o \in outputs : row \in CubeOutputRows(d, e, o)
  BY <1>3
<1>5. QED
  BY <1>1, <1>2, <1>4

\* Only the bucket is other than in the other reading.
LEMMA RebucketedCube ==
  ASSUME NEW d, NEW e, NEW o, NEW row, NEW a, NEW b, FromCubeOutput(d, e, o, row, a)
  PROVE  LikeCube(d, e, o, row, b)
<1> DEFINE Row(n, s, x) == CubePointRow(d, e, SqlString(e.data, o.measure_name), n,
              SqlString(e.data, Entry(o, "unit", Str(NoText))), Entry(o, "bucket_seconds", 300),
              s.id, SqlDimensions(e.data, s.dimensions), x)
<1>1. PICK n \in SqlAmount(e.data, o.value), s \in o.dimension_sets : FullSet(e, s) /\ row = Row(n, s, a)
  BY DEF FromCubeOutput
<1>2. FromCubeOutput(d, e, o, Row(n, s, b), b)
  BY <1>1 DEF FromCubeOutput
<1>3. Row(n, s, b).measure = Row(n, s, a).measure /\ Unbucketed(Row(n, s, b)) = Unbucketed(Row(n, s, a))
  BY CubeRowParts
<1> HIDE DEF Row
<1>4. QED
  BY <1>1, <1>2, <1>3 DEF LikeCube

\* A set of dimensions counts for both alike.
LEMMA SameSets ==
  ASSUME NEW e, NEW s, IsList(s.dimensions), \A path \in DimensionPaths(s.dimensions) : Plain(e.data, path)
  PROVE  /\ Len(Filled(e.data, s.dimensions)) = Len(s.dimensions) <=> FullSet(e, s)
         /\ FullSet(e, s) => Filled(e.data, s.dimensions) = SqlDimensions(e.data, s.dimensions)
<1>1. /\ Len(Filled(e.data, s.dimensions)) = Len(s.dimensions)
             <=> \A i \in DOMAIN s.dimensions : SqlDimensions(e.data, s.dimensions)[i].value # NoText
      /\ Len(Filled(e.data, s.dimensions)) = Len(s.dimensions)
             => Filled(e.data, s.dimensions) = SqlDimensions(e.data, s.dimensions)
  BY FilledCells
<1>2. QED
  BY <1>1 DEF FullSet

LEMMA SameCubeRows ==
  ASSUME NEW d, NEW e, d.kind \in {"measure", "rollup"}, Sound(d), SameReading(d, e)
  PROVE  WithoutBucket(SqlCubeRows(d, e)) = WithoutBucket(CubePointRows(d, e))
<1>1. CASE ~General(d)
  <2>1. GeneralizedOutputs(d.config, "measure_cube_rollups") = {}
    BY <1>1 DEF GeneralizedOutputs, Entry, General
  <2>2. CubeRules(d) = {}
    BY <2>1 DEF CubeRules
  <2>3. SqlCubeRows(d, e) = {} /\ CubePointRows(d, e) = {}
    BY <1>1, <2>2, CubeRowsOf, SqlCubeRowsOf
  <2>4. QED
    BY <2>3
<1>2. CASE ~Applies(d, e)
  <2>1. SqlCubeRows(d, e) = {} /\ CubePointRows(d, e) = {}
    BY <1>2, SameEvents, CubeRowsOf, SqlCubeRowsOf
  <2>2. QED
    BY <2>1
<1>3. CASE Applies(d, e) /\ General(d)
  <2> DEFINE Named == GeneralizedOutputs(d.config, "measure_cube_rollups")
             O == {o \in Named : "target" \in DOMAIN o}
             Rule(o) == [measure |-> StringExpr(o, "measure_name", d.name), value |-> o.value,
                         unit |-> StringExpr(o, "unit", NoText), sets |-> DimensionSets(o),
                         seconds |-> Entry(o, "bucket_seconds", 300)]
  <2>1. ASSUME NEW o \in O
        PROVE  /\ d.kind = "measure" /\ d.mode = "cube" /\ DimensionSets(o) # {} /\ Numeric(o)
               /\ EvalString(e.data, StringExpr(o, "measure_name", d.name)) = SqlString(e.data, o.measure_name)
               /\ EvalNumber(e.data, o.value) = SqlAmount(e.data, o.value)
               /\ EvalString(e.data, StringExpr(o, "unit", NoText)) = SqlString(e.data, Entry(o, "unit", Str(NoText)))
               /\ DimensionSets(o) = {[id |-> s.id, dimensions |-> s.dimensions] : s \in o.dimension_sets}
               /\ \A s \in o.dimension_sets :
                    IsList(s.dimensions) /\ \A path \in DimensionPaths(s.dimensions) : Plain(e.data, path)
    <3>1. o \in d.config.outputs /\ o \in Entry(d.config, "outputs", {})
      BY <1>3 DEF GeneralizedOutputs, Entry, General
    <3>2. Entry(o, "target", "event_measures") = "measure_cube_rollups"
      BY DEF GeneralizedOutputs, Entry
    <3> HIDE DEF O
    <3>3. /\ ValidMeasure(d.kind, d.mode, o) /\ Numeric(o)
          /\ EvalString(e.data, StringExpr(o, "measure_name", d.name)) = SqlString(e.data, o.measure_name)
          /\ EvalNumber(e.data, o.value) = SqlAmount(e.data, o.value)
          /\ EvalString(e.data, StringExpr(o, "unit", NoText)) = SqlString(e.data, Entry(o, "unit", Str(NoText)))
      BY <1>3, <3>1, MeasureParts
    <3> DEFINE sets == Entry(o, "dimension_sets", {})
    <3>4. ValidDimensionSets(sets) /\ d.kind = "measure" /\ d.mode = "cube"
      BY <3>2, <3>3 DEF ValidMeasure
    <3>5. \A s \in sets : IsList(s.dimensions)
      <4>1. \A x \in ListsOf(o) : IsList(x)
        BY <1>3, <3>1 DEF Sound
      <4>2. \A s \in sets : s.dimensions \in ListsOf(o)
        BY DEF ListsOf
      <4>3. QED
        BY <4>1, <4>2
    <3>6. /\ DimensionSets(o) = {[id |-> s.id, dimensions |-> s.dimensions] : s \in sets}
          /\ sets # {} /\ "dimension_sets" \in DOMAIN o
      BY <3>4, <3>5, AcceptedSets
    <3>7. sets = o.dimension_sets
      BY <3>6 DEF Entry
    <3>8. \A s \in sets : \A path \in DimensionPaths(s.dimensions) : Plain(e.data, path)
      BY <3>1, NamedAreRead
    <3> HIDE DEF sets
    <3>9. DimensionSets(o) # {}
      BY <3>6
    <3>10. QED
      BY <3>3, <3>4, <3>5, <3>6, <3>7, <3>8, <3>9
  <2>2. CubeRules(d) = {Rule(o) : o \in O}
    <3> DEFINE P == {p \in Named : /\ d.kind = "measure" /\ d.mode = "cube"
                                    /\ "target" \in DOMAIN p /\ DimensionSets(p) # {} /\ Numeric(p)}
    <3>1. CubeRules(d) = {Rule(o) : o \in P}
      BY DEF CubeRules
    <3>2. \A o : o \in P <=> o \in O
      BY <2>1
    <3> HIDE DEF P, O, Rule
    <3>3. QED
      BY <3>1, <3>2
  <2>3. ASSUME NEW o \in O, NEW row
        PROVE  FromCubeRule(d, e, Rule(o), row) <=> FromCubeOutput(d, e, o, row, MinuteBucket(e.at))
    <3> DEFINE rule == Rule(o)
    <3>1. /\ EvalString(e.data, rule.measure) = SqlString(e.data, o.measure_name)
          /\ EvalNumber(e.data, rule.value) = SqlAmount(e.data, o.value)
          /\ EvalString(e.data, rule.unit) = SqlString(e.data, Entry(o, "unit", Str(NoText)))
          /\ rule.seconds = Entry(o, "bucket_seconds", 300)
          /\ rule.sets = {[id |-> s.id, dimensions |-> s.dimensions] : s \in o.dimension_sets}
      <4> HIDE DEF O
      <4>1. QED
        BY <2>1
    <3>2. \A s \in o.dimension_sets :
            IsList(s.dimensions) /\ \A path \in DimensionPaths(s.dimensions) : Plain(e.data, path)
      BY <2>1
    <3>3. \A s \in o.dimension_sets :
            /\ Len(Filled(e.data, s.dimensions)) = Len(s.dimensions) <=> FullSet(e, s)
            /\ FullSet(e, s) => Filled(e.data, s.dimensions) = SqlDimensions(e.data, s.dimensions)
      BY <3>2, SameSets
    <3> HIDE DEF O, rule
    <3>4. ASSUME FromCubeRule(d, e, rule, row) PROVE FromCubeOutput(d, e, o, row, MinuteBucket(e.at))
      <4>1. PICK n \in EvalNumber(e.data, rule.value), x \in rule.sets :
                /\ Len(Filled(e.data, x.dimensions)) = Len(x.dimensions)
                /\ row = CubePointRow(d, e, EvalString(e.data, rule.measure), n, EvalString(e.data, rule.unit), rule.seconds,
                                      x.id, Filled(e.data, x.dimensions), MinuteBucket(e.at))
        BY <3>4 DEF FromCubeRule
      <4>2. PICK s \in o.dimension_sets : x = [id |-> s.id, dimensions |-> s.dimensions]
        BY <3>1
      <4>3. x.id = s.id /\ x.dimensions = s.dimensions
        BY <4>2
      <4>4. FullSet(e, s) /\ Filled(e.data, s.dimensions) = SqlDimensions(e.data, s.dimensions)
        BY <3>3, <4>1, <4>3
      <4>5. QED
        BY <3>1, <4>1, <4>3, <4>4 DEF FromCubeOutput
    <3>5. ASSUME FromCubeOutput(d, e, o, row, MinuteBucket(e.at)) PROVE FromCubeRule(d, e, rule, row)
      <4>1. PICK n \in SqlAmount(e.data, o.value), s \in o.dimension_sets :
                /\ FullSet(e, s)
                /\ row = CubePointRow(d, e, SqlString(e.data, o.measure_name), n,
                              SqlString(e.data, Entry(o, "unit", Str(NoText))), Entry(o, "bucket_seconds", 300),
                              s.id, SqlDimensions(e.data, s.dimensions), MinuteBucket(e.at))
        BY <3>5 DEF FromCubeOutput
      <4> DEFINE x == [id |-> s.id, dimensions |-> s.dimensions]
      <4>2. x \in rule.sets /\ x.id = s.id /\ x.dimensions = s.dimensions
        BY <3>1
      <4>3. /\ Len(Filled(e.data, s.dimensions)) = Len(s.dimensions)
            /\ Filled(e.data, s.dimensions) = SqlDimensions(e.data, s.dimensions)
        BY <3>3, <4>1
      <4> HIDE DEF x
      <4>4. QED
        BY <3>1, <4>1, <4>2, <4>3 DEF FromCubeRule
    <3>6. QED
      BY <3>4, <3>5 DEF rule
  <2> HIDE DEF Rule
  <2>4. ASSUME NEW row
        PROVE  row \in CubePointRows(d, e) <=>
                row.measure # NoText /\ \E o \in O : FromCubeOutput(d, e, o, row, MinuteBucket(e.at))
    <3>1. row \in CubePointRows(d, e) <=> row.measure # NoText /\ \E r \in CubeRules(d) : FromCubeRule(d, e, r, row)
      BY <1>3, CubeRowsOf
    <3> HIDE DEF O
    <3>2. QED
      BY <2>2, <2>3, <3>1
  <2>5. ASSUME NEW row
        PROVE  row \in SqlCubeRows(d, e) <=>
                row.measure # NoText /\ \E o \in O : FromCubeOutput(d, e, o, row, SqlBucket(e.at))
    <3>1. SqlWhere(d, e)
      BY <1>3, SameEvents
    <3>2. QED
      BY <1>3, <3>1, SqlCubeRowsOf
  <2> HIDE DEF O
  <2>6. ASSUME NEW row \in SqlCubeRows(d, e)
        PROVE  \E other \in CubePointRows(d, e) : Unbucketed(row) = Unbucketed(other)
    <3>1. PICK o \in O : row.measure # NoText /\ FromCubeOutput(d, e, o, row, SqlBucket(e.at))
      BY <2>5
    <3>2. LikeCube(d, e, o, row, MinuteBucket(e.at))
      BY <3>1, RebucketedCube
    <3>3. PICK other : /\ other.measure # NoText /\ FromCubeOutput(d, e, o, other, MinuteBucket(e.at))
                       /\ Unbucketed(row) = Unbucketed(other)
      BY <3>1, <3>2 DEF LikeCube
    <3>4. QED
      BY <2>4, <3>3
  <2>7. ASSUME NEW row \in CubePointRows(d, e)
        PROVE  \E other \in SqlCubeRows(d, e) : Unbucketed(row) = Unbucketed(other)
    <3>1. PICK o \in O : row.measure # NoText /\ FromCubeOutput(d, e, o, row, MinuteBucket(e.at))
      BY <2>4
    <3>2. LikeCube(d, e, o, row, SqlBucket(e.at))
      BY <3>1, RebucketedCube
    <3>3. PICK other : /\ other.measure # NoText /\ FromCubeOutput(d, e, o, other, SqlBucket(e.at))
                       /\ Unbucketed(row) = Unbucketed(other)
      BY <3>1, <3>2 DEF LikeCube
    <3>4. QED
      BY <2>5, <3>3
  <2>8. QED
    BY <2>6, <2>7, SameButBuckets
<1>4. QED
  BY <1>1, <1>2, <1>3

\* An entity, its state and its value are read alike.
LEMMA StateParts ==
  ASSUME NEW d, NEW e, d.kind = "state", Sound(d), SameReading(d, e), General(d), NEW o \in d.config.outputs
  PROVE  /\ Entry(o, "target", "entity_state_updates") = "entity_state_updates"
         /\ \A name \in {"entity_type", "entity_id", "value"} : IsStringExpr(Entry(o, name, Absent))
         /\ EvalString(e.data, o.entity_type) = SqlString(e.data, o.entity_type)
         /\ EvalString(e.data, o.entity_id) = SqlString(e.data, o.entity_id)
         /\ EvalString(e.data, StringExpr(o, "state_name", d.name)) = SqlString(e.data, o.state_name)
         /\ EvalString(e.data, o.value) = SqlString(e.data, o.value)
<1>1. ValidState(o)
  BY DEF Sound, ValidOutput
<1>2. Entry(d.config, "outputs", {}) = d.config.outputs
  BY DEF Entry, General
<1>3. \A name \in Expressions : name \in DOMAIN o => \A path \in Inside(o[name]) : Plain(e.data, path)
  BY <1>2, NamedAreRead
<1>4. \A name \in {"entity_type", "entity_id", "state_name", "value"} :
        name \in DOMAIN o /\ IsStringExpr(o[name]) /\ Entry(o, name, Absent) = o[name]
  BY <1>1, AcceptedExpressions, TextsOfScalars DEF ValidState, Stated, Entry, IsStringExpr
<1>5. \A name \in {"entity_type", "entity_id", "state_name", "value"} :
        EvalString(e.data, o[name]) = SqlString(e.data, o[name])
  <2>1. ASSUME NEW name \in {"entity_type", "entity_id", "state_name", "value"}
        PROVE  EvalString(e.data, o[name]) = SqlString(e.data, o[name])
    <3>1. \A path \in Inside(o[name]) : Plain(e.data, path)
      BY <1>3, <1>4 DEF Expressions
    <3>2. QED
      BY <3>1, PlainExpressions
  <2>2. QED
    BY <2>1
<1>6. StringExpr(o, "state_name", d.name) = o.state_name
  BY <1>4 DEF StringExpr, Entry
<1>7. QED
  BY <1>1, <1>4, <1>5, <1>6 DEF ValidState, Target

LEMMA SameStateRows ==
  ASSUME NEW d, NEW e, d.kind = "state", Sound(d), SameReading(d, e)
  PROVE  SqlStateRows(d, e) = StateUpdateRows(d, e)
<1> DEFINE Row(r) == StateRow(d, e, EvalString(e.data, r.entity_type), EvalString(e.data, r.entity_id),
                              EvalString(e.data, r.state), EvalString(e.data, r.value), r.type)
           Complete(row) == NoText \notin {row.entity_type, row.entity_id, row.state, row.value}
<1>1. CASE ~Applies(d, e)
  <2>1. StateUpdateRows(d, e) = {}
    BY <1>1 DEF StateUpdateRows
  <2>2. SqlStateRows(d, e) = {}
    BY <1>1, SameEvents DEF SqlStateRows, GeneralStateRows, FlatStateRows
  <2>3. QED
    BY <2>1, <2>2
<1>2. CASE Applies(d, e) /\ General(d)
  <2> DEFINE O == d.config.outputs
             S(x) == SqlString(e.data, x)
             Rule(o) == [entity_type |-> o.entity_type, entity_id |-> o.entity_id,
                         state |-> StringExpr(o, "state_name", d.name), value |-> o.value,
                         type |-> Entry(o, "value_type", "string")]
             SqlRow(o) == StateRow(d, e, S(o.entity_type), S(o.entity_id), S(o.state_name), S(o.value),
                                   Entry(o, "value_type", "string"))
  <2>1. Entry(d.config, "outputs", {}) = O /\ O # {}
    BY <1>2 DEF Entry, General, Sound
  <2>2. \A o \in O : /\ Entry(o, "target", "entity_state_updates") = "entity_state_updates"
                     /\ \A name \in {"entity_type", "entity_id", "value"} : IsStringExpr(Entry(o, name, Absent))
    BY <1>2, StateParts
  <2>3. GeneralizedOutputs(d.config, "entity_state_updates") = O
    BY <2>1, <2>2 DEF GeneralizedOutputs
  <2>4. StateRules(d) = {Rule(o) : o \in O}
    <3> DEFINE P == {p \in O : \A name \in {"entity_type", "entity_id", "value"} : IsStringExpr(Entry(p, name, Absent))}
    <3>1. P = O
      BY <2>2
    <3>2. {Rule(o) : o \in O} # {}
      BY <2>1
    <3>3. {Rule(o) : o \in P} = {Rule(o) : o \in O}
      <4> HIDE DEF P, O
      <4>1. QED
        BY <3>1
    <3>4. StateRules(d) = IF {Rule(o) : o \in P} # {} THEN {Rule(o) : o \in P} ELSE StateRules(d)
      BY <2>3 DEF StateRules
    <3> HIDE DEF P, O, Rule
    <3>5. QED
      BY <3>2, <3>3, <3>4
  <2>5. \A o \in O : Row(Rule(o)) = SqlRow(o)
    <3> TAKE o \in O
    <3>1. /\ EvalString(e.data, o.entity_type) = S(o.entity_type) /\ EvalString(e.data, o.entity_id) = S(o.entity_id)
          /\ EvalString(e.data, StringExpr(o, "state_name", d.name)) = S(o.state_name)
          /\ EvalString(e.data, o.value) = S(o.value)
      BY <1>2, StateParts
    <3>2. /\ Rule(o).entity_type = o.entity_type /\ Rule(o).entity_id = o.entity_id
          /\ Rule(o).state = StringExpr(o, "state_name", d.name) /\ Rule(o).value = o.value
          /\ Rule(o).type = Entry(o, "value_type", "string")
      OBVIOUS
    <3> HIDE DEF Rule, O, S
    <3>3. QED
      BY <3>1, <3>2
  <2>6. StateUpdateRows(d, e) = {row \in {Row(r) : r \in StateRules(d)} : Complete(row)}
    BY <1>2 DEF StateUpdateRows
  <2>7. SqlStateRows(d, e) = {row \in {SqlRow(o) : o \in O} : Complete(row)}
    <3>1. SqlWhere(d, e)
      BY <1>2, SameEvents
    <3>2. QED
      BY <1>2, <2>3, <3>1 DEF SqlStateRows, GeneralStateRows
  <2> HIDE DEF O, Row, SqlRow, Rule, Complete
  <2>8. {Row(r) : r \in StateRules(d)} = {SqlRow(o) : o \in O}
    BY <2>4, <2>5
  <2>9. QED
    BY <2>6, <2>7, <2>8
<1>3. CASE Applies(d, e) /\ ~General(d)
  <2> DEFINE rule == [entity_type |-> Str(d.config.entity_type), entity_id |-> PathOf(d.config.entity_id_path),
                      state |-> Str(d.name), value |-> PathOf(d.config.path),
                      type |-> Entry(d.config, "value_type", "string")]
             SqlRow(value) == StateRow(d, e, d.config.entity_type, SqlValue(e.data, d.config.entity_id_path), d.name, value,
                                       Entry(d.config, "value_type", "string"))
             value == SqlValue(e.data, d.config.path)
  <2>1. /\ "path" \in DOMAIN d.config /\ d.config.path # <<>> /\ Flat(d.config)
        /\ Entry(d.config, "entity_type", NoText) # NoText
        /\ Entry(d.config, "entity_id_path", <<>>) # <<>> /\ Entry(d.config, "entity_id_path", <<>>) = d.config.entity_id_path
        /\ Entry(d.config, "path", <<>>) = d.config.path
    BY <1>3 DEF Sound, ValidFlat, ValidPath, ValidName, Flat, Entry
  <2>2. GeneralizedOutputs(d.config, "entity_state_updates") = {}
    BY <1>3 DEF GeneralizedOutputs, Entry, General
  <2>3. StateRules(d) = {rule}
    BY <2>1, <2>2 DEF StateRules
  <2>4. Plain(e.data, d.config.path) /\ Plain(e.data, d.config.entity_id_path)
    <3>1. \A name \in {"path", "entity_id_path", "dimension"} :
                Entry(d.config, name, <<>>) # <<>> => Plain(e.data, Entry(d.config, name, <<>>))
      BY NamedAreRead
    <3>2. Entry(d.config, "path", <<>>) # <<>> /\ Entry(d.config, "entity_id_path", <<>>) # <<>>
      BY <2>1
    <3>3. Plain(e.data, Entry(d.config, "path", <<>>)) /\ Plain(e.data, Entry(d.config, "entity_id_path", <<>>))
      BY <3>1, <3>2
    <3>4. QED
      BY <2>1, <3>3
  <2>5. /\ EvalString(e.data, rule.entity_type) = d.config.entity_type
        /\ EvalString(e.data, rule.entity_id) = SqlValue(e.data, d.config.entity_id_path)
        /\ EvalString(e.data, rule.state) = d.name /\ EvalString(e.data, rule.value) = value
        /\ rule.type = Entry(d.config, "value_type", "string")
    BY <2>4, StatedTexts, StatedPaths
  <2> HIDE DEF rule, value
  <2>6. Row(rule) = SqlRow(value)
    BY <2>5
  <2>7. StateUpdateRows(d, e) = {row \in {Row(r) : r \in StateRules(d)} : Complete(row)}
    BY <1>3 DEF StateUpdateRows
  <2>8. SqlStateRows(d, e) = {row \in {SqlRow(value)} : Complete(row)}
    <3>1. TenantOnly(d, e)
      BY <1>3, SameEvents
    <3>2. QED
      BY <1>3, <3>1 DEF SqlStateRows, FlatStateRows, value
  <2> HIDE DEF Row, SqlRow, Complete
  <2>9. {Row(r) : r \in StateRules(d)} = {SqlRow(value)}
    BY <2>3, <2>6
  <2>10. QED
    BY <2>7, <2>8, <2>9
<1>4. QED
  BY <1>1, <1>2, <1>3

-------------------------------------------------------------------------------
(* The two fill the same rows. *)

LoadedFiles == \A l \in loads : l.file \in Files

LEMMA TablesInit_LoadedFiles == TablesInit => LoadedFiles
BY DEF TablesInit, LoadedFiles

LEMMA TablesNext_LoadedFiles == LoadedFiles /\ [TablesNext]_tablesVars => LoadedFiles'
<1> SUFFICES ASSUME LoadedFiles, [TablesNext]_tablesVars PROVE LoadedFiles'
  OBVIOUS
<1>1. ASSUME NEW file \in Files, NEW namespace \in Namespaces, Load(file, namespace) PROVE LoadedFiles'
  <2>1. loads' = loads \union {[file |-> file, namespace |-> namespace, definitions |-> definitions]}
    BY <1>1 DEF Load
  <2>2. QED
    BY <2>1 DEF LoadedFiles
<1>2. ASSUME UNCHANGED loads PROVE LoadedFiles'
  BY <1>2 DEF LoadedFiles
<1>3. QED
  BY <1>1, <1>2 DEF TablesNext, tablesVars, Create, Backfill, BackfillCurrent, FailBackfill, Merge

-------------------------------------------------------------------------------
(* The greatest and the least of some numbers. *)

LEMMA Highest ==
  ASSUME NEW T \in SUBSET Nat, IsFiniteSet(T), T # {}
  PROVE  \E m \in T : \A j \in T : j <= m
<1>1. Cardinality(T) \in Nat /\ Cardinality(T) # 0
  BY FS_CardinalityType, FS_EmptySet
<1>2. PICK m \in T : Rank(T, m) = Cardinality(T)
  <2>1. \A k \in 1..Cardinality(T) : \E i \in T : Rank(T, i) = k
    BY RanksAreTaken
  <2>2. Cardinality(T) \in 1..Cardinality(T)
    BY <1>1
  <2>3. QED
    BY <2>1, <2>2
<1> DEFINE upto == {j \in T : j <= m}
<1>3. upto \in SUBSET T /\ Cardinality(upto) = Cardinality(T)
  BY <1>2 DEF Rank
<1>4. T = upto
  BY <1>3, FS_Subset
<1>5. QED
  BY <1>4

LEMMA UptoIsFinite ==
  ASSUME NEW n \in Nat
  PROVE  IsFiniteSet(0..n)
BY FS_Interval

-------------------------------------------------------------------------------
(* The rows that one definition gives, and those kept of several. *)

LEMMA Lowest ==
  ASSUME NEW n \in Nat, NEW T \in SUBSET (1..n), T # {}
  PROVE  \E m \in T : \A j \in T : m <= j
<1> DEFINE U == {n - j : j \in T}
<1>1. U \in SUBSET (0..n) /\ U \in SUBSET Nat /\ U # {}
  <2>1. \A j \in T : n - j \in 0..n /\ n - j \in Nat
    <3> SUFFICES ASSUME NEW j \in T PROVE n - j \in 0..n /\ n - j \in Nat
      OBVIOUS
    <3>1. j \in 1..n
      OBVIOUS
    <3>2. QED
      BY <3>1
  <2>2. QED
    BY <2>1
<1>2. IsFiniteSet(U)
  BY <1>1, UptoIsFinite, FS_Subset
<1>3. PICK u \in U : \A v \in U : v <= u
  <2> HIDE DEF U
  <2>1. QED
    BY <1>1, <1>2, Highest
<1>4. PICK m \in T : u = n - m
  OBVIOUS
<1>5. ASSUME NEW j \in T PROVE m <= j
  <2>1. n - j \in U
    OBVIOUS
  <2>2. n - j <= n - m
    BY <1>3, <1>4, <2>1
  <2>3. m \in 1..n /\ j \in 1..n
    OBVIOUS
  <2>4. QED
    BY <2>2, <2>3
<1>6. QED
  BY <1>5

\* No definition of a field is left out of an order.
LEMMA OrdersAreWhole ==
  ASSUME NEW F, IsFiniteSet(F), NEW order \in SetToSeqs(F)
  PROVE  /\ Cardinality(F) \in Nat /\ DOMAIN order = 1..Cardinality(F)
         /\ \A i \in DOMAIN order : order[i] \in F
         /\ \A d \in F : \E i \in DOMAIN order : order[i] = d
<1> DEFINE D == 1..Cardinality(F)
<1>1. Cardinality(F) \in Nat
  BY FS_CardinalityType
<1>2. order \in [D -> F] /\ \A i, j \in D : i # j => order[i] # order[j]
  BY DEF SetToSeqs
<1>3. order \in Injection(D, F)
  BY <1>2 DEF Injection, IsInjective
<1>4. Cardinality(D) = Cardinality(F)
  BY <1>1, FS_Interval
<1> HIDE DEF D
<1>5. order \in Surjection(D, F)
  BY <1>3, <1>4, FS_Injection
<1>6. QED
  BY <1>1, <1>2, <1>5 DEF Surjection, D

\* What the rows of a definition for an event have in common.
LEMMA RowsOfOne ==
  ASSUME NEW d, NEW e, NEW row \in FieldRowsOf(d, e)
  PROVE  \E m, f, v, t : row = FieldIndexRow(d, e, m, f, v, t, IsError(e.data), MinuteBucket(e.at))
<1> DEFINE Rows(r) == {FieldIndexRow(d, e, r.mode, EvalString(e.data, r.field), Text(v), r.type,
                                     IsError(e.data), MinuteBucket(e.at)) :
                            v \in Scalars(EvalValue(e.data, r.value))}
<1>1. PICK r \in FieldRules(d) : row \in Rows(r)
  BY DEF FieldRowsOf
<1>2. PICK v \in Scalars(EvalValue(e.data, r.value)) :
        row = FieldIndexRow(d, e, r.mode, EvalString(e.data, r.field), Text(v), r.type,
                            IsError(e.data), MinuteBucket(e.at))
  BY <1>1
<1>3. QED
  BY <1>2

LEMMA PartsOfRow ==
  ASSUME NEW d, NEW e, NEW m, NEW f, NEW v, NEW t, NEW r, NEW b
  PROVE  LET row == FieldIndexRow(d, e, m, f, v, t, r, b)
         IN  row.mode = m /\ row.field = f /\ row.value = v /\ row.type = t /\ row.source = Source(d)
BY DEF FieldIndexRow

LEMMA SourceOfRow ==
  ASSUME NEW d, NEW e, NEW row \in FieldRowsOf(d, e)
  PROVE  row.source = Source(d)
BY RowsOfOne, PartsOfRow

LEMMA TwinsLookAlike ==
  ASSUME NEW c, NEW d, NEW e, NEW x \in FieldRowsOf(c, e), NEW y \in FieldRowsOf(d, e), Twin(x, y)
  PROVE  [Unbucketed(x) EXCEPT !.source = Nothing] = [Unbucketed(y) EXCEPT !.source = Nothing]
<1>1. PICK m, f, v, t : x = FieldIndexRow(c, e, m, f, v, t, IsError(e.data), MinuteBucket(e.at))
  BY RowsOfOne
<1>2. PICK m2, f2, v2, t2 : y = FieldIndexRow(d, e, m2, f2, v2, t2, IsError(e.data), MinuteBucket(e.at))
  BY RowsOfOne
<1>3. x.mode = m /\ x.field = f /\ x.value = v /\ x.type = t
  BY <1>1, PartsOfRow
<1>4. y.mode = m2 /\ y.field = f2 /\ y.value = v2 /\ y.type = t2
  BY <1>2, PartsOfRow
<1>5. m = m2 /\ f = f2 /\ v = v2 /\ t = t2
  BY <1>3, <1>4 DEF Twin
<1>6. ASSUME NEW r, NEW b
      PROVE  [Unbucketed(FieldIndexRow(c, e, m, f, v, t, r, b)) EXCEPT !.source = Nothing]
                = [Unbucketed(FieldIndexRow(d, e, m, f, v, t, r, b)) EXCEPT !.source = Nothing]
  <2>1. Unbucketed(FieldIndexRow(c, e, m, f, v, t, r, b)) = FieldIndexRow(c, e, m, f, v, t, r, 0)
    BY FieldRowParts
  <2>2. Unbucketed(FieldIndexRow(d, e, m, f, v, t, r, b)) = FieldIndexRow(d, e, m, f, v, t, r, 0)
    BY FieldRowParts
  <2> DEFINE Bare == [mode |-> m, field |-> f, value |-> v, type |-> t, error |-> r, source |-> Nothing,
                      event |-> e.id, at |-> e.at, bucket |-> 0, signal |-> Signal(e.data)]
  <2>3. [FieldIndexRow(c, e, m, f, v, t, r, 0) EXCEPT !.source = Nothing] = Bare
    BY DEF FieldIndexRow
  <2>4. [FieldIndexRow(d, e, m, f, v, t, r, 0) EXCEPT !.source = Nothing] = Bare
    BY DEF FieldIndexRow
  <2>5. QED
    BY <2>1, <2>2, <2>3, <2>4
<1>7. QED
  BY <1>1, <1>2, <1>5, <1>6

\* Of the rows of an order, those of d are rows that d gives, and for every row
\* that d gives there is one that differs from it in its source at most.
LEMMA KeptOfSeveral ==
  ASSUME NEW F, IsFiniteSet(F), \A c, d \in F : c.id = d.id => c = d,
         NEW order \in SetToSeqs(F), NEW d \in F, NEW e
  PROVE  /\ \A row \in FieldIndexRows(order, e) : row.source = Source(d) => row \in FieldRowsOf(d, e)
         /\ \A row \in FieldRowsOf(d, e) : \E kept \in FieldIndexRows(order, e) :
                [Unbucketed(kept) EXCEPT !.source = Nothing] = [Unbucketed(row) EXCEPT !.source = Nothing]
<1> DEFINE n == Cardinality(F)
           seen(i) == UNION {FieldRowsOf(order[j], e) : j \in 1..(i - 1)}
           Chosen(i) == {row \in FieldRowsOf(order[i], e) : \A other \in seen(i) : ~Twin(row, other)}
<1>1. n \in Nat /\ DOMAIN order = 1..n /\ (\A i \in DOMAIN order : order[i] \in F)
      /\ (\E i \in DOMAIN order : order[i] = d)
  BY OrdersAreWhole
<1>2. \A row : row \in FieldIndexRows(order, e) <=> \E i \in DOMAIN order : row \in Chosen(i)
  BY DEF FieldIndexRows
<1>3. ASSUME NEW row \in FieldIndexRows(order, e), row.source = Source(d) PROVE row \in FieldRowsOf(d, e)
  <2>1. PICK i \in DOMAIN order : row \in FieldRowsOf(order[i], e)
    BY <1>2
  <2>2. Source(order[i]) = Source(d)
    BY <1>3, <2>1, SourceOfRow
  <2>3. order[i].id = d.id
    BY <2>2 DEF Source
  <2>4. order[i] = d
    BY <1>1, <2>3
  <2>5. QED
    BY <2>1, <2>4
<1>4. ASSUME NEW row \in FieldRowsOf(d, e)
      PROVE  \E kept \in FieldIndexRows(order, e) :
                [Unbucketed(kept) EXCEPT !.source = Nothing] = [Unbucketed(row) EXCEPT !.source = Nothing]
  <2> DEFINE T == {i \in 1..n : \E x \in FieldRowsOf(order[i], e) : Twin(x, row)}
  <2>1. T \in SUBSET (1..n) /\ T # {}
    BY <1>1 DEF Twin
  <2>2. PICK m \in T : \A j \in T : m <= j
    <3> HIDE DEF T, n
    <3>1. QED
      BY <1>1, <2>1, Lowest
  <2>3. PICK x \in FieldRowsOf(order[m], e) : Twin(x, row)
    OBVIOUS
  <2>4. ASSUME NEW other \in seen(m) PROVE ~Twin(x, other)
    <3>1. PICK j \in 1..(m - 1) : other \in FieldRowsOf(order[j], e)
      OBVIOUS
    <3>2. j \in 1..n /\ j < m /\ m \in Nat /\ j \in Nat
      BY <1>1, <3>1
    <3>3. SUFFICES ASSUME Twin(x, other) PROVE FALSE
      OBVIOUS
    <3>4. Twin(other, row)
      BY <2>3, <3>3 DEF Twin
    <3>5. j \in T
      BY <3>1, <3>2, <3>4
    <3>6. QED
      BY <2>2, <3>2, <3>5
  <2>5. m \in DOMAIN order
    BY <1>1
  <2>6. x \in FieldIndexRows(order, e)
    <3> HIDE DEF T
    <3>1. x \in Chosen(m)
      BY <2>3, <2>4
    <3> HIDE DEF Chosen
    <3>2. QED
      BY <1>2, <2>5, <3>1
  <2>7. QED
    BY <2>3, <2>6, TwinsLookAlike
<1>5. QED
  BY <1>3, <1>4

\* The definitions are finitely many, and no two have one identifier.
Distinct == IsFiniteSet(definitions) /\ \A d, b \in definitions : d.id = b.id => d = b

LEMMA TablesInit_Distinct == TablesInit => Distinct
BY FS_EmptySet DEF TablesInit, Distinct

LEMMA TablesNext_Distinct == Distinct /\ [TablesNext]_tablesVars => Distinct'
<1> SUFFICES ASSUME Distinct, [TablesNext]_tablesVars PROVE Distinct'
  OBVIOUS
<1>1. ASSUME NEW q \in Requests, Create(q) PROVE Distinct'
  <2> DEFINE new == RecordOf(q, Cardinality(definitions) + 1)
  <2>1. definitions' = definitions \union {new} /\ \A d \in definitions : d.id # q.id
    BY <1>1 DEF Create
  <2>2. new.id = q.id
    BY RecordFields
  <2> HIDE DEF new
  <2>3. IsFiniteSet(definitions')
    BY <2>1, FS_AddElement DEF Distinct
  <2>4. QED
    BY <2>1, <2>2, <2>3 DEF Distinct
<1>2. ASSUME UNCHANGED definitions PROVE Distinct'
  BY <1>2 DEF Distinct
<1>3. QED
  BY <1>1, <1>2 DEF TablesNext, tablesVars, Load, Backfill, BackfillCurrent, FailBackfill, Merge

LEMMA FieldsOfAllOrders ==
  ASSUME Distinct, NEW d \in definitions, d.kind = "field", NEW e,
         WithoutBucket(SqlFieldRows(d, e)) = WithoutBucket(FieldRowsOf(d, e))
  PROVE  FieldsMatch(d, e)
<1> DEFINE F == OfKinds(definitions, {"field"})
           Bare(row) == [row EXCEPT !.source = Nothing]
<1>1. IsFiniteSet(F) /\ d \in F /\ \A c, b \in F : c.id = b.id => c = b
  BY FS_Subset DEF OfKinds, Distinct
<1>2. SUFFICES ASSUME NEW order \in SetToSeqs(F)
               PROVE  /\ WithoutBucket({row \in FieldIndexRows(order, e) : row.source = Source(d)})
                            \subseteq WithoutBucket(SqlFieldRows(d, e))
                      /\ WithoutSource(SqlFieldRows(d, e)) \subseteq WithoutSource(FieldIndexRows(order, e))
  BY DEF FieldsMatch, FieldOrders
<1> HIDE DEF F
<1>3. /\ \A row \in FieldIndexRows(order, e) : row.source = Source(d) => row \in FieldRowsOf(d, e)
      /\ \A row \in FieldRowsOf(d, e) : \E kept \in FieldIndexRows(order, e) :
             Bare(Unbucketed(kept)) = Bare(Unbucketed(row))
  BY <1>1, KeptOfSeveral
<1>4. WithoutBucket({row \in FieldIndexRows(order, e) : row.source = Source(d)})
        \subseteq WithoutBucket(SqlFieldRows(d, e))
  <2>1. WithoutBucket({row \in FieldIndexRows(order, e) : row.source = Source(d)})
            \subseteq WithoutBucket(FieldRowsOf(d, e))
    BY <1>3 DEF WithoutBucket
  <2>2. QED
    BY <2>1
<1>5. WithoutSource(SqlFieldRows(d, e)) \subseteq WithoutSource(FieldIndexRows(order, e))
  <2>1. \A S : WithoutSource(S) = {Bare(x) : x \in WithoutBucket(S)}
    BY DEF WithoutSource
  <2> HIDE DEF Bare
  <2>2. WithoutSource(SqlFieldRows(d, e)) = WithoutSource(FieldRowsOf(d, e))
    BY <2>1
  <2>3. WithoutSource(FieldRowsOf(d, e)) \subseteq WithoutSource(FieldIndexRows(order, e))
    <3> SUFFICES ASSUME NEW row \in FieldRowsOf(d, e)
                 PROVE  Bare(Unbucketed(row)) \in WithoutSource(FieldIndexRows(order, e))
      BY <2>1 DEF WithoutBucket
    <3>1. PICK kept \in FieldIndexRows(order, e) : Bare(Unbucketed(kept)) = Bare(Unbucketed(row))
      BY <1>3
    <3>2. Bare(Unbucketed(kept)) \in WithoutSource(FieldIndexRows(order, e))
      BY <2>1 DEF WithoutBucket
    <3>3. QED
      BY <3>1, <3>2
  <2>4. QED
    BY <2>2, <2>3
<1>6. QED
  BY <1>4, <1>5

\* A backfill by SQL and the materializer give the same rows for an event that
\* both read alike, for every definition that the server accepts, except for the
\* start of the bucket and, of the rows of a field that several definitions give,
\* for whose row is kept, in whatever order the materializer got them.
\* (backfill_generalized_* of definitions.rs against field_index_rows,
\* event_measure_rows, measure_cube_point_rows and entity_state_update_rows of
\* lakehouse-rebuild.)
THEOREM BackfillIsLikeTheStream == TablesSpec => []BackfillMatchesStream
<1> DEFINE Inv == AllAccepted /\ LoadedFiles /\ Distinct
<1>1. TablesInit => Inv
  BY TablesInit_AllAccepted, TablesInit_LoadedFiles, TablesInit_Distinct
<1>2. Inv /\ [TablesNext]_tablesVars => Inv'
  BY TablesNext_AllAccepted, TablesNext_LoadedFiles, TablesNext_Distinct
<1>3. Inv => BackfillMatchesStream
  <2> SUFFICES ASSUME Inv, NEW d \in definitions, d.kind \in FilledKinds,
                      NEW e \in LoadedEvents, SameReading(d, e)
               PROVE  /\ d.kind = "field" => FieldsMatch(d, e)
                      /\ d.kind \in {"measure", "rollup"} =>
                              /\ WithoutBucket(SqlMeasureRows(d, e)) = WithoutBucket(EventMeasureRows(d, e))
                              /\ WithoutBucket(SqlCubeRows(d, e)) = WithoutBucket(CubePointRows(d, e))
                      /\ d.kind = "state" => SqlStateRows(d, e) = StateUpdateRows(d, e)
    BY DEF BackfillMatchesStream, OfKinds, FilledKinds
  <2>1. e.data.t = "obj"
    <3>1. PICK l \in loads : e \in Range(BatchOf[l.file])
      BY DEF LoadedEvents
    <3>2. QED
      BY <3>1, FilesAssumption DEF LoadedFiles
  <2>2. Sound(d)
    BY AcceptedIsSound DEF AllAccepted
  <2>3. d.kind = "field" => FieldsMatch(d, e)
    <3>1. d.kind = "field" => WithoutBucket(SqlFieldRows(d, e)) = WithoutBucket(FieldRowsOf(d, e))
      BY <2>1, <2>2, SameFieldRows DEF FilledKinds
    <3>2. QED
      BY <3>1, FieldsOfAllOrders
  <2>4. d.kind \in {"measure", "rollup"} =>
            /\ WithoutBucket(SqlMeasureRows(d, e)) = WithoutBucket(EventMeasureRows(d, e))
            /\ WithoutBucket(SqlCubeRows(d, e)) = WithoutBucket(CubePointRows(d, e))
    BY <2>2, SameMeasureRows, SameCubeRows DEF FilledKinds
  <2>5. d.kind = "state" => SqlStateRows(d, e) = StateUpdateRows(d, e)
    BY <2>2, SameStateRows DEF FilledKinds
  <2>6. QED
    BY <2>3, <2>4, <2>5
<1>4. QED
  BY <1>1, <1>2, <1>3, PTL DEF TablesSpec

-------------------------------------------------------------------------------
(* Keys of the current states and of their history. *)

UpdatesTable == tableRows["entity_state_updates"]
CurrentTable == tableRows["entity_state_current"]
History == {x.row : x \in UpdatesTable}
Current == {x.row : x \in CurrentTable}
Stamped(S, n) == {[row |-> row, insert |-> n] : row \in S}
StateDefs == OfKinds(definitions, {"state"})
Entity(row) == <<row.entity_type, row.entity_id, row.state>>

LEMMA Keys ==
  ASSUME NEW row
  PROVE  /\ Key("entity_state_current", row) = Entity(row)
         /\ Key("entity_state_updates", row) =
                <<row.entity_type, row.entity_id, row.state, row.at, row.event, row.source.id>>
BY DEF Key, Entity

LEMMA StateRowOf ==
  ASSUME NEW d, NEW e, NEW row \in StateUpdateRows(d, e)
  PROVE  row.at = e.at /\ row.event = e.id /\ row.source.id = d.id
<1>1. PICK r \in StateRules(d) :
        row = StateRow(d, e, EvalString(e.data, r.entity_type), EvalString(e.data, r.entity_id),
                       EvalString(e.data, r.state), EvalString(e.data, r.value), r.type)
  BY DEF StateUpdateRows
<1>2. QED
  BY <1>1 DEF StateRow, Source

\* A merge keeps the newest row of an entity.
LEMMA NewestStays ==
  ASSUME NEW S, NEW A \in SUBSET Nat, IsFiniteSet(A), NEW n \in Nat,
         \A z \in S : z.row.at \in A /\ z.insert \in 0..n,
         NEW x \in S
  PROVE  \E y \in Merged("entity_state_current", S) :
            Entity(y.row) = Entity(x.row) /\ y.row.at >= x.row.at
<1> DEFINE K == {z \in S : Entity(z.row) = Entity(x.row)}
           T == {z.row.at : z \in K}
<1>1. PICK m \in T : \A j \in T : j <= m
  <2>1. T \in SUBSET A /\ T # {} /\ T \in SUBSET Nat
    OBVIOUS
  <2>2. IsFiniteSet(T)
    BY <2>1, FS_Subset
  <2> HIDE DEF T
  <2>3. QED
    BY <2>1, <2>2, Highest
<1> DEFINE I == {z.insert : z \in {w \in K : w.row.at = m}}
<1>2. PICK p \in I : \A j \in I : j <= p
  <2>1. I \in SUBSET (0..n) /\ I # {} /\ I \in SUBSET Nat
    OBVIOUS
  <2>2. IsFiniteSet(0..n)
    BY UptoIsFinite
  <2>3. IsFiniteSet(I)
    BY <2>1, <2>2, FS_Subset
  <2> HIDE DEF I
  <2>4. QED
    BY <2>1, <2>3, Highest
<1>3. PICK y \in K : y.row.at = m /\ y.insert = p
  OBVIOUS
<1>4. ASSUME NEW z \in S, Key("entity_state_current", y.row) = Key("entity_state_current", z.row)
      PROVE  Newer("entity_state_current", y, z)
  <2>1. z \in K
    BY <1>3, <1>4, Keys
  <2>2. z.row.at <= m /\ z.row.at \in Nat /\ m \in Nat
    BY <1>1, <2>1
  <2>3. z.row.at = m => z.insert <= p /\ z.insert \in Nat /\ p \in Nat
    BY <1>2, <2>1
  <2>4. QED
    BY <1>3, <2>2, <2>3 DEF Newer
<1>5. y \in Merged("entity_state_current", S)
  BY <1>3, <1>4 DEF Merged
<1>6. x.row.at <= m /\ x.row.at \in Nat /\ m \in Nat
  BY <1>1
<1>7. QED
  BY <1>3, <1>5, <1>6

\* All that an insert says of a key it says in whole: a merge of the history
\* drops no row but for its copies.
LEMMA HistoryStays ==
  ASSUME NEW S, NEW n \in Nat, \A z \in S : z.insert \in 0..n /\ z = [row |-> z.row, insert |-> z.insert],
         \A x, y \in S : Key("entity_state_updates", x.row) = Key("entity_state_updates", y.row)
                            => [row |-> x.row, insert |-> y.insert] \in S
  PROVE  {x.row : x \in Merged("entity_state_updates", S)} = {x.row : x \in S}
<1> DEFINE KeyOf(z) == Key("entity_state_updates", z.row)
           M == Merged("entity_state_updates", S)
<1>1. ASSUME NEW x \in S PROVE \E y \in M : y.row = x.row
  <2> DEFINE I == {z.insert : z \in {w \in S : KeyOf(w) = KeyOf(x)}}
  <2>1. PICK p \in I : \A j \in I : j <= p
    <3>1. I \in SUBSET (0..n) /\ I # {} /\ I \in SUBSET Nat
      OBVIOUS
    <3>2. IsFiniteSet(0..n)
      BY UptoIsFinite
    <3>3. IsFiniteSet(I)
      BY <3>1, <3>2, FS_Subset
    <3> HIDE DEF I
    <3>4. QED
      BY <3>1, <3>3, Highest
  <2>2. PICK z \in S : KeyOf(z) = KeyOf(x) /\ z.insert = p
    OBVIOUS
  <2> DEFINE y == [row |-> x.row, insert |-> z.insert]
  <2>3. y \in S /\ y.row = x.row /\ y.insert = p
    BY <2>2
  <2>4. ASSUME NEW w \in S, KeyOf(w) = KeyOf(x) PROVE p >= w.insert
    <3>1. w.insert <= p /\ w.insert \in Nat /\ p \in Nat
      BY <2>1, <2>4
    <3>2. QED
      BY <3>1
  <2> HIDE DEF y
  <2>5. y \in M
    BY <2>3, <2>4 DEF Merged, Newer
  <2>6. QED
    BY <2>3, <2>5
<1>2. M \subseteq S
  BY DEF Merged
<1> HIDE DEF M
<1>3. QED
  BY <1>1, <1>2 DEF M

\* The latest rows of an entity.
LEMMA LatestThere ==
  ASSUME NEW S, NEW A \in SUBSET Nat, IsFiniteSet(A), \A row \in S : row.at \in A, NEW x \in S
  PROVE  \E y \in LatestOf(S) : Entity(y) = Entity(x) /\ y.at >= x.at
<1> DEFINE K == {z \in S : Entity(z) = Entity(x)}
           T == {z.at : z \in K}
<1>1. PICK m \in T : \A j \in T : j <= m
  <2>1. T \in SUBSET A /\ T # {} /\ T \in SUBSET Nat
    OBVIOUS
  <2>2. IsFiniteSet(T)
    BY <2>1, FS_Subset
  <2> HIDE DEF T
  <2>3. QED
    BY <2>1, <2>2, Highest
<1>2. PICK y \in K : y.at = m
  OBVIOUS
<1>3. \A z \in S : Key("entity_state_current", z) = Key("entity_state_current", y) => z.at <= y.at
  BY <1>1, <1>2, Keys
<1>4. y \in LatestOf(S)
  BY <1>2, <1>3 DEF LatestOf
<1>5. x.at <= m /\ x.at \in Nat /\ m \in Nat
  BY <1>1
<1>6. QED
  BY <1>2, <1>4, <1>5

Unique == \A e, f \in LoadedEvents : e.id = f.id => e = f
ReadAlike == \A d \in StateDefs, e \in LoadedEvents : SqlStateRows(d, e) = StateUpdateRows(d, e)

\* No two loaded events have one identifier, and both readers get the same
\* states from them.
Consistent == Unique /\ ReadAlike

\* What holds in any case.
Shape ==
    /\ inserts \in Nat /\ DOMAIN tableRows = TableNames
    /\ \A x \in UpdatesTable \union CurrentTable : x.insert \in 0..inserts /\ x = [row |-> x.row, insert |-> x.insert]
    /\ IsFiniteSet(LoadedEvents)
    /\ \A d, b \in definitions : d.id = b.id => d = b
    /\ filling = Nothing \/ filling \in StateDefs

LEMMA FreshStates ==
  ASSUME NEW D, NEW order, NEW batch, NEW stored
  PROVE  LET updates == UNION {StateUpdateRows(d, e) : d \in OfKinds(D, {"state"}), e \in Range(batch)}
         IN  /\ Derived(D, order, batch, stored)["entity_state_updates"] = updates
             /\ Derived(D, order, batch, stored)["entity_state_current"] = updates
BY DEF Derived

LEMMA AfterInsert ==
  ASSUME NEW fresh, Insert(fresh), NEW t \in TableNames
  PROVE  /\ inserts' = inserts + 1 /\ DOMAIN tableRows' = TableNames
         /\ tableRows'[t] = tableRows[t] \union Stamped(fresh[t], inserts + 1)
BY DEF Insert, Stamped

LEMMA StateTables == {"entity_state_updates", "entity_state_current"} \subseteq TableNames
BY DEF TableNames

Loaded(file) == UNION {StateUpdateRows(d, e) : d \in StateDefs, e \in Range(BatchOf[file])}

LEMMA LoadStep ==
  ASSUME NEW file, NEW namespace, Load(file, namespace)
  PROVE  /\ inserts' = inserts + 1 /\ DOMAIN tableRows' = TableNames
         /\ UpdatesTable' = UpdatesTable \union Stamped(Loaded(file), inserts + 1)
         /\ CurrentTable' = CurrentTable \union Stamped(Loaded(file), inserts + 1)
         /\ LoadedEvents' = LoadedEvents \union Range(BatchOf[file])
         /\ UNCHANGED <<definitions, filling, unfilled>>
<1> DEFINE stored == {x.row : x \in Merged("cohort_memberships", tableRows["cohort_memberships"])}
           fresh(order) == Derived(definitions, order, BatchOf[file], stored)
<1>1. PICK order \in FieldOrders : Insert(fresh(order))
  BY DEF Load, Store
<1>2. /\ fresh(order)["entity_state_updates"] = Loaded(file)
      /\ fresh(order)["entity_state_current"] = Loaded(file)
  BY FreshStates DEF Loaded, StateDefs
<1>3. LoadedEvents' = LoadedEvents \union Range(BatchOf[file])
  <2>1. loads' = loads \union {[file |-> file, namespace |-> namespace, definitions |-> definitions]}
    BY DEF Load
  <2> DEFINE load == [file |-> file, namespace |-> namespace, definitions |-> definitions]
             EventsIn(L) == UNION {Range(BatchOf[l.file]) : l \in L}
  <2>2. load.file = file
    OBVIOUS
  <2> HIDE DEF load
  <2>3. EventsIn(loads \union {load}) = EventsIn(loads) \union Range(BatchOf[file])
    BY <2>2
  <2>4. LoadedEvents' = EventsIn(loads') /\ LoadedEvents = EventsIn(loads)
    BY DEF LoadedEvents
  <2>5. loads' = loads \union {load}
    BY <2>1 DEF load
  <2> HIDE DEF EventsIn
  <2>6. QED
    BY <2>3, <2>4, <2>5
<1>4. UNCHANGED <<definitions, filling, unfilled>>
  BY DEF Load
<1> HIDE DEF fresh
<1>5. QED
  BY <1>1, <1>2, <1>3, <1>4, AfterInsert, StateTables DEF UpdatesTable, CurrentTable

LEMMA StatesBySql ==
  ASSUME NEW d
  PROVE  /\ SqlRows(d, "entity_state_current") = {}
         /\ d.kind = "state" =>
                SqlRows(d, "entity_state_updates") = UNION {SqlStateRows(d, e) : e \in LoadedEvents}
         /\ d.kind # "state" => SqlRows(d, "entity_state_updates") = {}
BY DEF SqlRows

LEMMA BackfillStep ==
  ASSUME NEW d \in definitions, Backfill(d)
  PROVE  /\ inserts' = inserts + 1 /\ DOMAIN tableRows' = TableNames
         /\ UpdatesTable' = UpdatesTable \union Stamped(SqlRows(d, "entity_state_updates"), inserts + 1) /\ CurrentTable' = CurrentTable
         /\ LoadedEvents' = LoadedEvents
         /\ filling = Nothing /\ filling' = IF d.kind = "state" THEN d ELSE Nothing
         /\ UNCHANGED <<definitions, unfilled>>
<1> DEFINE fresh == [t \in TableNames |-> SqlRows(d, t)]
<1>1. Insert(fresh) /\ UNCHANGED <<definitions, loads, unfilled>> /\ filling = Nothing
      /\ filling' = IF d.kind = "state" THEN d ELSE Nothing
  BY DEF Backfill, Fill
<1>2. /\ fresh["entity_state_updates"] = SqlRows(d, "entity_state_updates")
      /\ fresh["entity_state_current"] = {}
  BY StateTables, StatesBySql
<1>3. LoadedEvents' = LoadedEvents
  BY <1>1 DEF LoadedEvents
<1> HIDE DEF fresh
<1>4. Stamped({}, inserts + 1) = {}
  BY DEF Stamped
<1>5. QED
  BY <1>1, <1>2, <1>3, <1>4, AfterInsert, StateTables DEF UpdatesTable, CurrentTable

LEMMA CurrentStep ==
  ASSUME BackfillCurrent
  PROVE  /\ inserts' = inserts + 1 /\ DOMAIN tableRows' = TableNames
         /\ UpdatesTable' = UpdatesTable /\ CurrentTable' = CurrentTable \union Stamped(LatestOf(SqlRows(filling, "entity_state_updates")), inserts + 1)
         /\ LoadedEvents' = LoadedEvents
         /\ filling # Nothing /\ filling' = Nothing
         /\ UNCHANGED <<definitions, unfilled>>
<1> DEFINE latest == LatestOf(SqlRows(filling, "entity_state_updates"))
           fresh == [NoRows EXCEPT !["entity_state_current"] = latest]
<1>1. Insert(fresh) /\ UNCHANGED <<definitions, loads, unfilled>> /\ filling # Nothing /\ filling' = Nothing
  BY DEF BackfillCurrent
<1>2. fresh["entity_state_updates"] = {} /\ fresh["entity_state_current"] = latest
  BY StateTables DEF NoRows
<1>3. LoadedEvents' = LoadedEvents
  BY <1>1 DEF LoadedEvents
<1> HIDE DEF fresh, latest
<1>4. Stamped({}, inserts + 1) = {}
  BY DEF Stamped
<1>5. /\ inserts' = inserts + 1 /\ DOMAIN tableRows' = TableNames
      /\ UpdatesTable' = UpdatesTable \union Stamped({}, inserts + 1) /\ CurrentTable' = CurrentTable \union Stamped(latest, inserts + 1)
  BY <1>1, <1>2, AfterInsert, StateTables DEF UpdatesTable, CurrentTable
<1>6. QED
  BY <1>1, <1>3, <1>4, <1>5 DEF latest

LEMMA MergeStep ==
  ASSUME NEW t \in TableNames, Merge(t), DOMAIN tableRows = TableNames
  PROVE  /\ DOMAIN tableRows' = TableNames
         /\ UpdatesTable' = UpdatesTable \/ UpdatesTable' = Merged("entity_state_updates", UpdatesTable)
         /\ CurrentTable' = CurrentTable \/ CurrentTable' = Merged("entity_state_current", CurrentTable)
         /\ LoadedEvents' = LoadedEvents
         /\ UNCHANGED <<definitions, inserts, filling, unfilled>>
<1>1. tableRows' = [tableRows EXCEPT ![t] = Merged(t, tableRows[t])] /\ UNCHANGED <<definitions, loads, inserts, filling, unfilled>>
  BY DEF Merge
<1>2. LoadedEvents' = LoadedEvents
  BY <1>1 DEF LoadedEvents
<1>3. \A s \in TableNames : tableRows'[s] = IF s = t THEN Merged(t, tableRows[t]) ELSE tableRows[s]
  BY <1>1
<1>4. QED
  BY <1>1, <1>2, <1>3, StateTables DEF UpdatesTable, CurrentTable

LEMMA StampedRows ==
  ASSUME NEW S, NEW F, NEW n
  PROVE  /\ {x.row : x \in S \union Stamped(F, n)} = {x.row : x \in S} \union F
         /\ \A x \in Stamped(F, n) : x.row \in F /\ x.insert = n /\ x = [row |-> x.row, insert |-> x.insert]
         /\ \A row \in F : [row |-> row, insert |-> n] \in Stamped(F, n)
<1>1. \A x \in Stamped(F, n) : x.row \in F /\ x.insert = n /\ x = [row |-> x.row, insert |-> x.insert]
  <2> SUFFICES ASSUME NEW row \in F, NEW x, x = [row |-> row, insert |-> n]
               PROVE  x.row \in F /\ x.insert = n /\ x = [row |-> x.row, insert |-> x.insert]
    BY DEF Stamped
  <2>1. QED
    OBVIOUS
<1>2. \A row \in F : [row |-> row, insert |-> n] \in Stamped(F, n)
  BY DEF Stamped
<1>3. \A row \in F : [row |-> row, insert |-> n].row = row
  OBVIOUS
<1>4. \A row \in F : \E x \in Stamped(F, n) : x.row = row
  BY <1>2, <1>3
<1>5. {x.row : x \in S \union Stamped(F, n)} = {x.row : x \in S} \union F
  BY <1>1, <1>4
<1>6. QED
  BY <1>1, <1>2, <1>5

\* The events of a file are finitely many.
LEMMA FilesAreFinite ==
  ASSUME NEW file \in Files
  PROVE  IsFiniteSet(Range(BatchOf[file]))
<1> DEFINE batch == BatchOf[file]
<1>1. batch \in Seq(Range(batch))
  BY FilesAssumption DEF IsList
<1>2. DOMAIN batch = 1..Len(batch) /\ Len(batch) \in Nat
  BY <1>1
<1>3. IsFiniteSet(DOMAIN batch)
  BY <1>2, FS_Interval
<1>4. batch \in Surjection(DOMAIN batch, Range(batch))
  <2>1. batch \in [DOMAIN batch -> Range(batch)]
    BY <1>1 DEF Range
  <2>2. \A e \in Range(batch) : \E i \in DOMAIN batch : batch[i] = e
    BY DEF Range
  <2> HIDE DEF batch
  <2>3. QED
    BY <2>1, <2>2 DEF Surjection
<1>5. QED
  BY <1>3, <1>4, FS_Surjection

\* The times of the loaded events.
Times == {e.at : e \in LoadedEvents}

LEMMA TimesAreFinite ==
  ASSUME IsFiniteSet(LoadedEvents), LoadedFiles
  PROVE  IsFiniteSet(Times) /\ Times \in SUBSET Nat
<1>1. IsFiniteSet(Times)
  <2> DEFINE f == [e \in LoadedEvents |-> e.at]
  <2>1. f \in Surjection(LoadedEvents, Times)
    BY DEF Surjection, Times
  <2> HIDE DEF f
  <2>2. QED
    BY <2>1, FS_Surjection
<1>2. \A e \in LoadedEvents : e.at \in Nat
  <2> SUFFICES ASSUME NEW e \in LoadedEvents PROVE e.at \in Nat
    OBVIOUS
  <2>1. PICK l \in loads : e \in Range(BatchOf[l.file])
    BY DEF LoadedEvents
  <2>2. QED
    BY <2>1, FilesAssumption DEF LoadedFiles
<1>3. QED
  BY <1>1, <1>2 DEF Times

LEMMA TablesInit_Shape == TablesInit => Shape
<1> SUFFICES ASSUME TablesInit PROVE Shape
  OBVIOUS
<1>1. LoadedEvents = {}
  BY DEF TablesInit, LoadedEvents
<1>2. IsFiniteSet(LoadedEvents)
  BY <1>1, FS_EmptySet
<1>3. UpdatesTable = {} /\ CurrentTable = {} /\ DOMAIN tableRows = TableNames
  BY StateTables DEF TablesInit, NoRows, UpdatesTable, CurrentTable
<1>4. QED
  BY <1>2, <1>3 DEF TablesInit, Shape

LEMMA TablesNext_Shape ==
  ASSUME AllAccepted, LoadedFiles, Shape, [TablesNext]_tablesVars
  PROVE  Shape'
<1>1. ASSUME NEW F, NEW G, inserts' = inserts + 1, UpdatesTable' = UpdatesTable \union Stamped(F, inserts + 1), CurrentTable' = CurrentTable \union Stamped(G, inserts + 1)
      PROVE  /\ inserts' \in Nat
             /\ \A x \in UpdatesTable' \union CurrentTable' : x.insert \in 0..inserts' /\ x = [row |-> x.row, insert |-> x.insert]
  <2>1. inserts \in Nat /\ inserts' \in Nat
    BY <1>1 DEF Shape
  <2>2. ASSUME NEW x \in UpdatesTable \union CurrentTable
        PROVE  x.insert \in 0..inserts' /\ x = [row |-> x.row, insert |-> x.insert]
    <3>1. x.insert \in 0..inserts /\ x = [row |-> x.row, insert |-> x.insert]
      BY DEF Shape
    <3>2. QED
      BY <1>1, <2>1, <3>1
  <2>3. ASSUME NEW H, NEW x \in Stamped(H, inserts + 1)
        PROVE  x.insert \in 0..inserts' /\ x = [row |-> x.row, insert |-> x.insert]
    <3>1. x.insert = inserts + 1 /\ x = [row |-> x.row, insert |-> x.insert]
      BY StampedRows
    <3>2. QED
      BY <1>1, <2>1, <3>1
  <2>4. QED
    BY <1>1, <2>1, <2>2, <2>3
<1>2. ASSUME NEW q \in Requests, Create(q) PROVE Shape'
  <2> DEFINE new == RecordOf(q, Cardinality(definitions) + 1)
  <2>1. /\ definitions' = definitions \union {new} /\ \A d \in definitions : d.id # q.id
        /\ UNCHANGED <<tableRows, loads, inserts, filling>>
    BY <1>2 DEF Create
  <2>2. new.id = q.id
    BY RecordFields
  <2> HIDE DEF new
  <2>3. \A d, b \in definitions' : d.id = b.id => d = b
    BY <2>1, <2>2 DEF Shape
  <2>4. LoadedEvents' = LoadedEvents /\ UpdatesTable' = UpdatesTable /\ CurrentTable' = CurrentTable
    BY <2>1 DEF LoadedEvents, UpdatesTable, CurrentTable
  <2>5. StateDefs \subseteq StateDefs'
    BY <2>1 DEF StateDefs, OfKinds
  <2>6. QED
    BY <2>1, <2>3, <2>4, <2>5 DEF Shape
<1>3. ASSUME NEW file \in Files, NEW namespace \in Namespaces, Load(file, namespace) PROVE Shape'
  <2>1. /\ inserts' = inserts + 1 /\ DOMAIN tableRows' = TableNames
        /\ UpdatesTable' = UpdatesTable \union Stamped(Loaded(file), inserts + 1)
        /\ CurrentTable' = CurrentTable \union Stamped(Loaded(file), inserts + 1)
        /\ LoadedEvents' = LoadedEvents \union Range(BatchOf[file])
        /\ UNCHANGED <<definitions, filling, unfilled>>
    BY <1>3, LoadStep
  <2>2. IsFiniteSet(LoadedEvents')
    BY <2>1, FilesAreFinite, FS_Union DEF Shape
  <2>3. StateDefs' = StateDefs
    BY <2>1 DEF StateDefs
  <2>4. QED
    BY <1>1, <2>1, <2>2, <2>3 DEF Shape
<1>4. ASSUME NEW d \in definitions, Backfill(d) PROVE Shape'
  <2>1. /\ inserts' = inserts + 1 /\ DOMAIN tableRows' = TableNames
        /\ UpdatesTable' = UpdatesTable \union Stamped(SqlRows(d, "entity_state_updates"), inserts + 1) /\ CurrentTable' = CurrentTable
        /\ LoadedEvents' = LoadedEvents
        /\ filling = Nothing /\ filling' = IF d.kind = "state" THEN d ELSE Nothing
        /\ UNCHANGED <<definitions, unfilled>>
    BY <1>4, BackfillStep
  <2>2. CurrentTable' = CurrentTable \union Stamped({}, inserts + 1)
    BY <2>1 DEF Stamped
  <2>3. StateDefs' = StateDefs /\ (filling' = Nothing \/ filling' \in StateDefs)
    BY <2>1 DEF StateDefs, OfKinds
  <2>4. QED
    BY <1>1, <2>1, <2>2, <2>3 DEF Shape
<1>5. ASSUME BackfillCurrent PROVE Shape'
  <2> DEFINE latest == LatestOf(SqlRows(filling, "entity_state_updates"))
  <2>1. /\ inserts' = inserts + 1 /\ DOMAIN tableRows' = TableNames
        /\ UpdatesTable' = UpdatesTable /\ CurrentTable' = CurrentTable \union Stamped(latest, inserts + 1)
        /\ LoadedEvents' = LoadedEvents
        /\ filling # Nothing /\ filling' = Nothing
        /\ UNCHANGED <<definitions, unfilled>>
    BY <1>5, CurrentStep
  <2> HIDE DEF latest
  <2>2. UpdatesTable' = UpdatesTable \union Stamped({}, inserts + 1)
    BY <2>1 DEF Stamped
  <2>3. QED
    BY <1>1, <2>1, <2>2 DEF Shape
<1>6. ASSUME FailBackfill PROVE Shape'
  <2>1. UNCHANGED <<definitions, tableRows, loads, inserts>> /\ filling' = Nothing
    BY <1>6 DEF FailBackfill
  <2>2. QED
    BY <2>1 DEF Shape, UpdatesTable, CurrentTable, LoadedEvents
<1>7. ASSUME NEW t \in TableNames, Merge(t) PROVE Shape'
  <2>1. /\ DOMAIN tableRows' = TableNames
        /\ UpdatesTable' = UpdatesTable \/ UpdatesTable' = Merged("entity_state_updates", UpdatesTable)
        /\ CurrentTable' = CurrentTable \/ CurrentTable' = Merged("entity_state_current", CurrentTable)
        /\ LoadedEvents' = LoadedEvents
        /\ UNCHANGED <<definitions, inserts, filling, unfilled>>
    BY <1>7, MergeStep DEF Shape
  <2>2. UpdatesTable' \subseteq UpdatesTable /\ CurrentTable' \subseteq CurrentTable
    BY <2>1 DEF Merged
  <2>3. StateDefs' = StateDefs
    BY <2>1 DEF StateDefs
  <2>4. QED
    BY <2>1, <2>2, <2>3 DEF Shape
<1>8. ASSUME UNCHANGED tablesVars PROVE Shape'
  BY <1>8 DEF tablesVars, Shape, UpdatesTable, CurrentTable, LoadedEvents, StateDefs
<1>9. QED
  BY <1>2, <1>3, <1>4, <1>5, <1>6, <1>7, <1>8 DEF TablesNext

\* The rows of the history that a backfill fills.
FilledBy(d) == UNION {SqlStateRows(d, e) : e \in LoadedEvents}
Owns(d, e, row) == d \in StateDefs /\ e \in LoadedEvents /\ row \in StateUpdateRows(d, e)
Covered(row) == \E c \in Current : Entity(c) = Entity(row) /\ c.at >= row.at

Owned == \A x \in UpdatesTable : \E d, e : Owns(d, e, x.row)
Whole ==
    \A x \in UpdatesTable : \A d, e : Owns(d, e, x.row) =>
        \A row \in StateUpdateRows(d, e) :
            Key("entity_state_updates", row) = Key("entity_state_updates", x.row)
                => [row |-> row, insert |-> x.insert] \in UpdatesTable

Told ==
    /\ Owned /\ Whole
    /\ Current \subseteq History
    /\ filling # Nothing => FilledBy(filling) \subseteq History
    /\ unfilled \/ \A row \in History : Covered(row) \/ (filling # Nothing /\ row \in FilledBy(filling))

\* One definition and one event have the rows of a key.
LEMMA OneOwner ==
  ASSUME Shape, Unique, NEW d, NEW e, NEW b, NEW f, NEW row, NEW other,
         Owns(d, e, row), Owns(b, f, other),
         Key("entity_state_updates", row) = Key("entity_state_updates", other)
  PROVE  d = b /\ e = f
<1>1. row.event = e.id /\ row.source.id = d.id /\ other.event = f.id /\ other.source.id = b.id
  BY StateRowOf DEF Owns
<1>2. row.event = other.event /\ row.source.id = other.source.id
  BY Keys
<1>3. d \in definitions /\ b \in definitions /\ e \in LoadedEvents /\ f \in LoadedEvents
  BY DEF Owns, StateDefs, OfKinds
<1>4. QED
  BY <1>1, <1>2, <1>3 DEF Shape, Unique

\* A merge leaves the history as it is.
LEMMA MergedHistory ==
  ASSUME Shape, Unique, Owned, Whole
  PROVE  {x.row : x \in Merged("entity_state_updates", UpdatesTable)} = History
<1>1. ASSUME NEW x \in UpdatesTable, NEW y \in UpdatesTable, Key("entity_state_updates", x.row) = Key("entity_state_updates", y.row)
      PROVE  [row |-> x.row, insert |-> y.insert] \in UpdatesTable
  <2>1. PICK d, e : Owns(d, e, x.row)
    BY DEF Owned
  <2>2. PICK b, f : Owns(b, f, y.row)
    BY DEF Owned
  <2>3. d = b /\ e = f
    BY <1>1, <2>1, <2>2, OneOwner
  <2>4. x.row \in StateUpdateRows(b, f)
    BY <2>1, <2>3 DEF Owns
  <2>5. QED
    BY <1>1, <2>2, <2>4 DEF Whole
<1>2. inserts \in Nat /\ \A z \in UpdatesTable : z.insert \in 0..inserts /\ z = [row |-> z.row, insert |-> z.insert]
  BY DEF Shape
<1>3. QED
  BY <1>1, <1>2, HistoryStays DEF History

\* An insert of whole rows into the history keeps it so.
LEMMA WholeGrows ==
  ASSUME Shape, Shape', Unique', Owned, Whole, StateDefs \subseteq StateDefs', LoadedEvents \subseteq LoadedEvents',
         NEW F, NEW n, UpdatesTable' = UpdatesTable \union Stamped(F, n),
         \A row \in F : \E d, e : Owns(d, e, row)',
         \A d, e : \A row \in F : Owns(d, e, row)' => StateUpdateRows(d, e) \subseteq F
  PROVE  Owned' /\ Whole'
<1>1. \A d, e, row : Owns(d, e, row) => Owns(d, e, row)'
  BY DEF Owns
<1>2. Owned'
  <2> SUFFICES ASSUME NEW x \in UpdatesTable' PROVE \E d, e : Owns(d, e, x.row)'
    BY DEF Owned
  <2>1. CASE x \in UpdatesTable
    BY <1>1, <2>1 DEF Owned
  <2>2. CASE x \in Stamped(F, n)
    BY <2>2, StampedRows
  <2>3. QED
    BY <2>1, <2>2
<1>3. Whole'
  <2> SUFFICES ASSUME NEW x \in UpdatesTable', NEW d, NEW e, Owns(d, e, x.row)', NEW row \in StateUpdateRows(d, e),
                      Key("entity_state_updates", row) = Key("entity_state_updates", x.row)
               PROVE  [row |-> row, insert |-> x.insert] \in UpdatesTable'
    BY DEF Whole
  <2>1. CASE x \in UpdatesTable
    <3>1. PICK b, f : Owns(b, f, x.row)
      BY <2>1 DEF Owned
    <3>2. Owns(b, f, x.row)'
      BY <1>1, <3>1
    <3>3. d = b /\ e = f
      <4>1. x.row.event = e.id /\ x.row.source.id = d.id /\ x.row.event = f.id /\ x.row.source.id = b.id
        BY <3>2, StateRowOf DEF Owns
      <4>2. d \in definitions' /\ b \in definitions' /\ e \in LoadedEvents' /\ f \in LoadedEvents'
        BY <3>2 DEF Owns, StateDefs, OfKinds
      <4>3. QED
        BY <4>1, <4>2 DEF Shape, Unique
    <3>4. QED
      BY <2>1, <3>1, <3>3 DEF Whole
  <2>2. CASE x \in Stamped(F, n)
    <3>1. x.row \in F /\ x.insert = n
      BY <2>2, StampedRows
    <3>2. row \in F
      BY <3>1
    <3>3. QED
      BY <3>1, <3>2, StampedRows
  <2>3. QED
    BY <2>1, <2>2
<1>4. QED
  BY <1>2, <1>3

LEMMA TablesInit_Told == TablesInit => Told
<1> SUFFICES ASSUME TablesInit PROVE Told
  OBVIOUS
<1>1. UpdatesTable = {} /\ CurrentTable = {} /\ filling = Nothing
  BY StateTables DEF TablesInit, NoRows, UpdatesTable, CurrentTable
<1>2. History = {} /\ Current = {}
  BY <1>1 DEF History, Current
<1>3. QED
  BY <1>1, <1>2 DEF Told, Owned, Whole

\* Definitions and loaded files only become more.
LEMMA TablesGrow ==
  ASSUME Shape, [TablesNext]_tablesVars
  PROVE  StateDefs \subseteq StateDefs' /\ LoadedEvents \subseteq LoadedEvents' /\ (Consistent' => Consistent)
<1>1. definitions \subseteq definitions' /\ LoadedEvents \subseteq LoadedEvents'
  <2>1. ASSUME NEW q \in Requests, Create(q) PROVE definitions \subseteq definitions' /\ LoadedEvents' = LoadedEvents
    BY <2>1 DEF Create, LoadedEvents
  <2>2. ASSUME NEW file \in Files, NEW namespace \in Namespaces, Load(file, namespace)
        PROVE  definitions' = definitions /\ LoadedEvents \subseteq LoadedEvents'
    BY <2>2, LoadStep
  <2>3. ASSUME NEW d \in definitions, Backfill(d) PROVE definitions' = definitions /\ LoadedEvents' = LoadedEvents
    BY <2>3, BackfillStep
  <2>4. ASSUME BackfillCurrent PROVE definitions' = definitions /\ LoadedEvents' = LoadedEvents
    BY <2>4, CurrentStep
  <2>5. ASSUME UNCHANGED <<definitions, loads>> PROVE definitions' = definitions /\ LoadedEvents' = LoadedEvents
    BY <2>5 DEF LoadedEvents
  <2>6. QED
    BY <2>1, <2>2, <2>3, <2>4, <2>5 DEF TablesNext, FailBackfill, Merge, tablesVars
<1>2. StateDefs \subseteq StateDefs'
  BY <1>1 DEF StateDefs, OfKinds
<1>3. Consistent' => Consistent
  BY <1>1, <1>2 DEF Consistent, Unique, ReadAlike
<1>4. QED
  BY <1>1, <1>2, <1>3

LEMMA FilledAlike ==
  ASSUME ReadAlike, NEW d \in StateDefs
  PROVE  /\ FilledBy(d) = UNION {StateUpdateRows(d, e) : e \in LoadedEvents}
         /\ SqlRows(d, "entity_state_updates") = FilledBy(d)
<1>1. \A e \in LoadedEvents : SqlStateRows(d, e) = StateUpdateRows(d, e)
  BY DEF ReadAlike
<1>2. {SqlStateRows(d, e) : e \in LoadedEvents} = {StateUpdateRows(d, e) : e \in LoadedEvents}
  BY <1>1
<1>3. d.kind = "state"
  BY DEF StateDefs, OfKinds
<1>4. QED
  BY <1>2, <1>3, StatesBySql DEF FilledBy

LEMMA OneSource ==
  ASSUME NEW d, NEW e, NEW b, NEW f, NEW row, row \in StateUpdateRows(d, e), row \in StateUpdateRows(b, f)
  PROVE  d.id = b.id /\ e.id = f.id
<1>1. row.event = e.id /\ row.source.id = d.id /\ row.event = f.id /\ row.source.id = b.id
  BY StateRowOf
<1>2. QED
  BY <1>1

LEMMA SomeDefinition ==
  ASSUME AllAccepted, NEW d \in definitions
  PROVE  d # Nothing
<1>1. PICK q \in Requests : d = RecordOf(q, d.version)
  BY DEF AllAccepted, Accepted
<1>2. "tenant" \in DOMAIN d
  BY <1>1 DEF RecordOf
<1>3. "tenant" \notin DOMAIN Nothing
  BY DEF Nothing
<1>4. QED
  BY <1>2, <1>3

\* A step that leaves the tables as they are.
LEMMA ToldStays ==
  ASSUME Shape, Shape', Consistent', Told, StateDefs \subseteq StateDefs', LoadedEvents' = LoadedEvents,
         UpdatesTable' = UpdatesTable, CurrentTable' = CurrentTable, filling' = filling, unfilled' = unfilled
  PROVE  Told'
<1>1. UpdatesTable' = UpdatesTable \union Stamped({}, 0)
  BY DEF Stamped
<1>2. Owned' /\ Whole'
  BY <1>1, WholeGrows DEF Consistent, Told
<1>3. History' = History /\ Current' = Current
  BY DEF History, Current
<1>4. filling # Nothing => FilledBy(filling)' = FilledBy(filling)
  BY DEF FilledBy
<1>5. \A row : Covered(row)' <=> Covered(row)
  BY <1>3 DEF Covered
<1>6. QED
  BY <1>2, <1>3, <1>4, <1>5 DEF Told

LEMMA ToldAfterLoad ==
  ASSUME Shape, Shape', LoadedFiles', Consistent', Told, NEW file, NEW namespace, Load(file, namespace)
  PROVE  Told'
<1> DEFINE F == Loaded(file)
           n == inserts + 1
<1>1. /\ UpdatesTable' = UpdatesTable \union Stamped(F, n) /\ CurrentTable' = CurrentTable \union Stamped(F, n)
      /\ LoadedEvents' = LoadedEvents \union Range(BatchOf[file])
      /\ definitions' = definitions /\ filling' = filling /\ unfilled' = unfilled /\ StateDefs' = StateDefs
  BY LoadStep DEF StateDefs
<1>2. History' = History \union F /\ Current' = Current \union F
  BY <1>1, StampedRows DEF History, Current
<1>3. ASSUME NEW row \in F PROVE \E d, e : Owns(d, e, row)' /\ e \in Range(BatchOf[file])
  <2>1. PICK d \in StateDefs, e \in Range(BatchOf[file]) : row \in StateUpdateRows(d, e)
    BY DEF Loaded
  <2>2. QED
    BY <1>1, <2>1 DEF Owns
<1>4. ASSUME NEW d, NEW e, NEW row \in F, Owns(d, e, row)' PROVE StateUpdateRows(d, e) \subseteq F
  <2>1. PICK b, f : Owns(b, f, row)' /\ f \in Range(BatchOf[file])
    BY <1>3
  <2>2. d = b /\ e = f
    <3>1. d.id = b.id /\ e.id = f.id
      BY <1>4, <2>1, OneSource DEF Owns
    <3>2. d \in definitions' /\ b \in definitions' /\ e \in LoadedEvents' /\ f \in LoadedEvents'
      BY <1>4, <2>1 DEF Owns, StateDefs, OfKinds
    <3>3. QED
      BY <3>1, <3>2 DEF Shape, Consistent, Unique
  <2>3. b \in StateDefs
    BY <1>1, <2>1 DEF Owns
  <2>4. QED
    BY <2>1, <2>2, <2>3 DEF Loaded
<1>5. Owned' /\ Whole'
  <2>1. \A row \in F : \E d, e : Owns(d, e, row)'
    BY <1>3
  <2>2. \A d, e : \A row \in F : Owns(d, e, row)' => StateUpdateRows(d, e) \subseteq F
    BY <1>4
  <2> HIDE DEF F, n
  <2>3. QED
    BY <1>1, <2>1, <2>2, WholeGrows DEF Consistent, Told
<1>6. ASSUME filling # Nothing PROVE FilledBy(filling) \subseteq FilledBy(filling)' /\ FilledBy(filling)' \subseteq History'
  <2>1. filling \in StateDefs
    BY <1>6 DEF Shape
  <2>2. FilledBy(filling) \subseteq FilledBy(filling)'
    BY <1>1 DEF FilledBy
  <2>3. ASSUME NEW row \in FilledBy(filling)' PROVE row \in History'
    <3>1. PICK e \in LoadedEvents' : row \in SqlStateRows(filling, e)
      BY <1>1 DEF FilledBy
    <3>2. CASE e \in LoadedEvents
      <4>1. row \in FilledBy(filling)
        BY <3>1, <3>2 DEF FilledBy
      <4>2. QED
        BY <1>2, <1>6, <4>1 DEF Told
    <3>3. CASE e \in Range(BatchOf[file])
      <4>1. SqlStateRows(filling, e) = StateUpdateRows(filling, e)
        BY <1>1, <2>1 DEF Consistent, ReadAlike
      <4>2. row \in F
        BY <2>1, <3>1, <3>3, <4>1 DEF Loaded
      <4>3. QED
        BY <1>2, <4>2
    <3>4. QED
      BY <1>1, <3>1, <3>2, <3>3
  <2>4. QED
    BY <2>2, <2>3
<1>7. ASSUME NEW row \in F PROVE Covered(row)'
  <2>1. row \in Current'
    BY <1>2
  <2>2. PICK d, e : Owns(d, e, row)'
    BY <1>3
  <2>3. row.at = e.at /\ e \in LoadedEvents'
    BY <2>2, StateRowOf DEF Owns
  <2>4. e.at \in Nat
    <3>1. PICK l \in loads' : e \in Range(BatchOf[l.file])
      BY <2>3 DEF LoadedEvents
    <3>2. QED
      BY <3>1, FilesAssumption DEF LoadedFiles
  <2>5. row.at >= row.at
    BY <2>3, <2>4
  <2>6. QED
    BY <2>1, <2>5 DEF Covered
<1>8. \A row : Covered(row) => Covered(row)'
  BY <1>2 DEF Covered
<1> HIDE DEF F, n
<1>9. Current' \subseteq History'
  BY <1>2 DEF Told
<1>10. filling' # Nothing => FilledBy(filling)' \subseteq History'
  BY <1>1, <1>6
<1>11. unfilled' \/ \A row \in History' : Covered(row)' \/ (filling' # Nothing /\ row \in FilledBy(filling)')
  <2> SUFFICES ASSUME ~unfilled', NEW row \in History'
               PROVE  Covered(row)' \/ (filling' # Nothing /\ row \in FilledBy(filling)')
    OBVIOUS
  <2>1. CASE row \in F
    BY <1>7, <2>1
  <2>2. CASE row \in History
    <3>1. Covered(row) \/ (filling # Nothing /\ row \in FilledBy(filling))
      BY <1>1, <2>2 DEF Told
    <3>2. QED
      BY <1>1, <1>6, <1>8, <3>1
  <2>3. QED
    BY <1>2, <2>1, <2>2
<1>12. QED
  BY <1>5, <1>9, <1>10, <1>11 DEF Told

LEMMA ToldAfterBackfill ==
  ASSUME AllAccepted, Shape, Shape', Consistent, Consistent', Told, NEW d \in definitions, Backfill(d)
  PROVE  Told'
<1> DEFINE F == SqlRows(d, "entity_state_updates")
           n == inserts + 1
<1>1. /\ UpdatesTable' = UpdatesTable \union Stamped(F, n) /\ CurrentTable' = CurrentTable /\ LoadedEvents' = LoadedEvents
      /\ filling = Nothing /\ filling' = (IF d.kind = "state" THEN d ELSE Nothing)
      /\ definitions' = definitions /\ unfilled' = unfilled /\ StateDefs' = StateDefs
  BY BackfillStep DEF StateDefs
<1>2. History' = History \union F /\ Current' = Current
  BY <1>1, StampedRows DEF History, Current
<1>3. d.kind = "state" => d \in StateDefs /\ F = FilledBy(d) /\ FilledBy(d)' = FilledBy(d)
                          /\ FilledBy(d) = UNION {StateUpdateRows(d, e) : e \in LoadedEvents}
  <2>1. d.kind = "state" => d \in StateDefs
    BY DEF StateDefs, OfKinds
  <2>2. FilledBy(d)' = FilledBy(d)
    BY <1>1 DEF FilledBy
  <2>3. QED
    BY <2>1, <2>2, FilledAlike DEF Consistent
<1>4. d.kind # "state" => F = {}
  BY StatesBySql
<1> HIDE DEF F, n
<1>5. ASSUME NEW row \in F PROVE \E e : Owns(d, e, row)'
  <2>1. d.kind = "state"
    BY <1>4
  <2>2. PICK e \in LoadedEvents : row \in StateUpdateRows(d, e)
    BY <1>3, <2>1
  <2>3. QED
    BY <1>1, <1>3, <2>1, <2>2 DEF Owns
<1>6. ASSUME NEW b, NEW f, NEW row \in F, Owns(b, f, row)' PROVE StateUpdateRows(b, f) \subseteq F
  <2>1. PICK e : Owns(d, e, row)'
    BY <1>5
  <2>2. d = b /\ e = f
    <3>1. d.id = b.id /\ e.id = f.id
      BY <1>6, <2>1, OneSource DEF Owns
    <3>2. d \in definitions' /\ b \in definitions' /\ e \in LoadedEvents' /\ f \in LoadedEvents'
      BY <1>6, <2>1 DEF Owns, StateDefs, OfKinds
    <3>3. QED
      BY <3>1, <3>2 DEF Shape, Consistent, Unique
  <2>3. e \in LoadedEvents /\ d.kind = "state"
    BY <1>1, <1>4, <2>1 DEF Owns
  <2>4. QED
    BY <1>3, <2>2, <2>3
<1>7. Owned' /\ Whole'
  <2>1. \A row \in F : \E b, e : Owns(b, e, row)'
    BY <1>5
  <2>2. \A b, e : \A row \in F : Owns(b, e, row)' => StateUpdateRows(b, e) \subseteq F
    BY <1>6
  <2>3. QED
    BY <1>1, <2>1, <2>2, WholeGrows DEF Consistent, Told
<1>8. Current' \subseteq History'
  BY <1>2 DEF Told
<1>9. filling' # Nothing => filling' = d /\ F \subseteq FilledBy(filling)' /\ FilledBy(filling)' \subseteq F
  <2>1. ASSUME filling' # Nothing PROVE filling' = d /\ d.kind = "state"
    BY <1>1, <2>1
  <2>2. filling' = d => FilledBy(filling)' = FilledBy(d)'
    BY DEF FilledBy
  <2>3. QED
    BY <1>3, <2>1, <2>2
<1>10. ASSUME ~unfilled', NEW row \in History'
       PROVE  Covered(row)' \/ (filling' # Nothing /\ row \in FilledBy(filling)')
  <2>1. CASE row \in F
    <3>1. d.kind = "state"
      BY <1>4, <2>1
    <3>2. filling' # Nothing
      BY <1>1, <3>1, SomeDefinition
    <3>3. QED
      BY <1>9, <2>1, <3>2
  <2>2. CASE row \in History
    <3>1. Covered(row)
      BY <1>1, <1>10, <2>2 DEF Told
    <3>2. QED
      BY <1>2, <3>1 DEF Covered
  <2>3. QED
    BY <1>2, <2>1, <2>2
<1>11. QED
  BY <1>2, <1>7, <1>8, <1>9, <1>10 DEF Told

\* The rows of the history are of times that were loaded.
LEMMA HistoryTimes ==
  ASSUME Owned
  PROVE  \A x \in UpdatesTable : x.row.at \in Times
<1> SUFFICES ASSUME NEW x \in UpdatesTable PROVE x.row.at \in Times
  OBVIOUS
<1>1. PICK d, e : Owns(d, e, x.row)
  BY DEF Owned
<1>2. QED
  BY <1>1, StateRowOf DEF Owns, Times

LEMMA ToldAfterCurrent ==
  ASSUME LoadedFiles, Shape, Shape', Consistent, Consistent', Told, BackfillCurrent
  PROVE  Told'
<1> DEFINE S == SqlRows(filling, "entity_state_updates")
           F == LatestOf(S)
           n == inserts + 1
<1>1. /\ UpdatesTable' = UpdatesTable /\ CurrentTable' = CurrentTable \union Stamped(F, n) /\ LoadedEvents' = LoadedEvents
      /\ filling # Nothing /\ filling' = Nothing
      /\ definitions' = definitions /\ unfilled' = unfilled /\ StateDefs' = StateDefs
  BY CurrentStep DEF StateDefs
<1>2. S = FilledBy(filling) /\ S \subseteq History
  <2>1. filling \in StateDefs
    BY <1>1 DEF Shape
  <2>2. S = FilledBy(filling)
    BY <2>1, FilledAlike DEF Consistent
  <2>3. QED
    BY <1>1, <2>2 DEF Told
<1>3. F \subseteq S
  BY DEF LatestOf
<1> HIDE DEF n
<1>4. History' = History /\ Current' = Current \union F
  <2> HIDE DEF F
  <2>1. QED
    BY <1>1, StampedRows DEF History, Current
<1>5. Owned' /\ Whole'
  <2>1. UpdatesTable' = UpdatesTable \union Stamped({}, n)
    BY <1>1 DEF Stamped
  <2>2. QED
    BY <1>1, <2>1, WholeGrows DEF Consistent, Told
<1>6. Current' \subseteq History'
  BY <1>2, <1>3, <1>4 DEF Told
<1>7. ASSUME NEW row \in S PROVE Covered(row)'
  <2>1. IsFiniteSet(Times) /\ Times \in SUBSET Nat
    BY TimesAreFinite DEF Shape
  <2>2. \A other \in S : other.at \in Times
    BY <1>2, HistoryTimes DEF History, Told
  <2> HIDE DEF S
  <2>3. PICK c \in F : Entity(c) = Entity(row) /\ c.at >= row.at
    BY <2>1, <2>2, LatestThere
  <2>4. c \in Current'
    BY <1>4, <2>3
  <2>5. QED
    BY <2>3, <2>4 DEF Covered
<1>8. ASSUME ~unfilled', NEW row \in History' PROVE Covered(row)'
  <2>1. row \in History /\ ~unfilled
    BY <1>1, <1>4, <1>8
  <2>2. Covered(row) \/ row \in S
    BY <1>2, <2>1 DEF Told
  <2>3. CASE Covered(row)
    BY <1>4, <2>3 DEF Covered
  <2>4. QED
    BY <1>7, <2>2, <2>3
<1>9. QED
  BY <1>1, <1>5, <1>6, <1>8 DEF Told

LEMMA ToldAfterMerge ==
  ASSUME LoadedFiles, Shape, Shape', Consistent, Consistent', Told, NEW t \in TableNames, Merge(t)
  PROVE  Told'
<1>1. /\ UpdatesTable' = UpdatesTable \/ UpdatesTable' = Merged("entity_state_updates", UpdatesTable)
      /\ CurrentTable' = CurrentTable \/ CurrentTable' = Merged("entity_state_current", CurrentTable)
      /\ LoadedEvents' = LoadedEvents
      /\ definitions' = definitions /\ filling' = filling /\ unfilled' = unfilled /\ StateDefs' = StateDefs
  BY MergeStep DEF Shape, StateDefs
<1>2. History' = History
  BY <1>1, MergedHistory DEF History, Told, Consistent
<1>3. UpdatesTable' \subseteq UpdatesTable /\ CurrentTable' \subseteq CurrentTable
  BY <1>1 DEF Merged
<1>4. Current' \subseteq History'
  BY <1>2, <1>3 DEF Current, Told
<1>5. \A d, e, row : Owns(d, e, row)' <=> Owns(d, e, row)
  BY <1>1 DEF Owns
<1>6. Owned'
  BY <1>3, <1>5 DEF Owned, Told
<1>7. Whole'
  <2> SUFFICES ASSUME NEW x \in UpdatesTable', NEW d, NEW e, Owns(d, e, x.row), NEW row \in StateUpdateRows(d, e),
                      Key("entity_state_updates", row) = Key("entity_state_updates", x.row)
               PROVE  [row |-> row, insert |-> x.insert] \in UpdatesTable'
    BY <1>5 DEF Whole
  <2> DEFINE y == [row |-> row, insert |-> x.insert]
  <2>1. y \in UpdatesTable /\ y.row = row /\ y.insert = x.insert
    BY <1>3 DEF Whole, Told
  <2> HIDE DEF y
  <2>2. ASSUME UpdatesTable' = Merged("entity_state_updates", UpdatesTable) PROVE y \in UpdatesTable'
    <3>1. \A z \in UpdatesTable : Key("entity_state_updates", x.row) = Key("entity_state_updates", z.row)
                            => Newer("entity_state_updates", x, z)
      BY <2>2 DEF Merged
    <3>2. \A z : Newer("entity_state_updates", x, z) => Newer("entity_state_updates", y, z)
      BY <2>1 DEF Newer
    <3>3. QED
      BY <2>1, <2>2, <3>1, <3>2 DEF Merged
  <2>3. QED
    BY <1>1, <2>1, <2>2 DEF y
<1>8. filling' # Nothing => FilledBy(filling)' = FilledBy(filling)
  BY <1>1 DEF FilledBy
<1>9. \A row \in History : Covered(row) => Covered(row)'
  <2> SUFFICES ASSUME NEW row \in History, Covered(row) PROVE Covered(row)'
    OBVIOUS
  <2>1. PICK x \in CurrentTable : Entity(x.row) = Entity(row) /\ x.row.at >= row.at
    BY DEF Covered, Current
  <2>2. IsFiniteSet(Times) /\ Times \in SUBSET Nat
    BY TimesAreFinite DEF Shape
  <2>3. \A z \in CurrentTable : z.row.at \in Times /\ z.insert \in 0..inserts
    <3>1. \A z \in CurrentTable : \E u \in UpdatesTable : u.row = z.row
      BY DEF Told, Current, History
    <3>2. QED
      BY <3>1, HistoryTimes DEF Shape, Told
  <2>4. row.at \in Nat /\ \A z \in CurrentTable : z.row.at \in Nat
    <3>1. row.at \in Times
      BY HistoryTimes DEF History, Told
    <3>2. QED
      BY <2>2, <2>3, <3>1
  <2>5. PICK y \in CurrentTable' : Entity(y.row) = Entity(x.row) /\ y.row.at >= x.row.at
    <3>1. inserts \in Nat
      BY DEF Shape
    <3>2. \E y \in Merged("entity_state_current", CurrentTable) : Entity(y.row) = Entity(x.row) /\ y.row.at >= x.row.at
      BY <2>2, <2>3, <3>1, NewestStays
    <3>3. x \in CurrentTable /\ x.row.at >= x.row.at
      BY <2>4
    <3>4. QED
      BY <1>1, <3>2, <3>3
  <2>6. y \in CurrentTable
    BY <1>3
  <2>7. y.row.at >= row.at
    BY <2>1, <2>4, <2>5, <2>6
  <2>8. QED
    BY <2>1, <2>5, <2>7 DEF Covered, Current
<1>10. QED
  BY <1>1, <1>2, <1>4, <1>6, <1>7, <1>8, <1>9 DEF Told

LEMMA TablesNext_Told ==
  ASSUME AllAccepted, LoadedFiles, LoadedFiles', Shape, Shape', [TablesNext]_tablesVars, Consistent => Told
  PROVE  Consistent' => Told'
<1> SUFFICES ASSUME Consistent' PROVE Told'
  OBVIOUS
<1>1. StateDefs \subseteq StateDefs' /\ LoadedEvents \subseteq LoadedEvents' /\ Consistent /\ Told
  BY TablesGrow
<1>2. ASSUME NEW q \in Requests, Create(q) PROVE Told'
  <2>1. LoadedEvents' = LoadedEvents /\ UpdatesTable' = UpdatesTable /\ CurrentTable' = CurrentTable /\ filling' = filling /\ unfilled' = unfilled
    BY <1>2 DEF Create, LoadedEvents, UpdatesTable, CurrentTable
  <2>2. QED
    BY <1>1, <2>1, ToldStays
<1>3. ASSUME NEW file \in Files, NEW namespace \in Namespaces, Load(file, namespace) PROVE Told'
  BY <1>1, <1>3, ToldAfterLoad
<1>4. ASSUME NEW d \in definitions, Backfill(d) PROVE Told'
  BY <1>1, <1>4, ToldAfterBackfill
<1>5. ASSUME BackfillCurrent PROVE Told'
  BY <1>1, <1>5, ToldAfterCurrent
<1>6. ASSUME FailBackfill PROVE Told'
  <2>1. /\ UpdatesTable' = UpdatesTable /\ CurrentTable' = CurrentTable /\ LoadedEvents' = LoadedEvents /\ StateDefs' = StateDefs
        /\ filling' = Nothing /\ unfilled'
    BY <1>6 DEF FailBackfill, UpdatesTable, CurrentTable, LoadedEvents, StateDefs
  <2>2. History' = History /\ Current' = Current
    BY <2>1 DEF History, Current
  <2>3. Owned' /\ Whole'
    <3>1. \A d, e, row : Owns(d, e, row)' <=> Owns(d, e, row)
      BY <2>1 DEF Owns
    <3>2. QED
      BY <1>1, <2>1, <3>1 DEF Told, Owned, Whole
  <2>4. QED
    BY <1>1, <2>1, <2>2, <2>3 DEF Told
<1>7. ASSUME NEW t \in TableNames, Merge(t) PROVE Told'
  BY <1>1, <1>7, ToldAfterMerge
<1>8. ASSUME UNCHANGED tablesVars PROVE Told'
  <2>1. LoadedEvents' = LoadedEvents /\ UpdatesTable' = UpdatesTable /\ CurrentTable' = CurrentTable /\ filling' = filling /\ unfilled' = unfilled
    BY <1>8 DEF tablesVars, LoadedEvents, UpdatesTable, CurrentTable
  <2>2. QED
    BY <1>1, <2>1, ToldStays
<1>9. QED
  BY <1>2, <1>3, <1>4, <1>5, <1>6, <1>7, <1>8 DEF TablesNext

\* What the two tables tell of an entity.
LatestIn(S) == {[value |-> a.value, at |-> a.at] : a \in {b \in S : \A c \in S : c.at <= b.at}}

LEMMA ReadOf ==
  ASSUME NEW t, NEW entity
  PROVE  StateRead(t, entity) = LatestIn({row \in {x.row : x \in tableRows[t]} : Entity(row) = entity})
<1> DEFINE own == {x.row : x \in {y \in tableRows[t] : Key("entity_state_current", y.row) = entity}}
           found == {row \in {x.row : x \in tableRows[t]} : Entity(row) = entity}
<1>1. own = found
  BY Keys
<1>2. StateRead(t, entity) = LatestIn(own)
  BY DEF StateRead, LatestIn
<1> HIDE DEF own, found
<1>3. QED
  BY <1>1, <1>2 DEF found

LEMMA ToldIsRead ==
  ASSUME LoadedFiles, Shape, Told
  PROVE  CurrentAgreesWithHistory
<1> SUFFICES ASSUME filling = Nothing, ~unfilled,
                    NEW entity \in {Key("entity_state_current", x.row) : x \in tableRows["entity_state_current"]}
                            \union {Key("entity_state_current", x.row) : x \in tableRows["entity_state_updates"]}
             PROVE  /\ StateRead("entity_state_current", entity) # {}
                    /\ StateRead("entity_state_current", entity) \subseteq StateRead("entity_state_updates", entity)
  BY DEF CurrentAgreesWithHistory
<1> DEFINE H == {row \in History : Entity(row) = entity}
           N == {row \in Current : Entity(row) = entity}
<1>1. StateRead("entity_state_current", entity) = LatestIn(N) /\ StateRead("entity_state_updates", entity) = LatestIn(H)
  BY ReadOf DEF History, Current, UpdatesTable, CurrentTable
<1>2. Current \subseteq History /\ \A row \in History : Covered(row)
  BY DEF Told
<1>3. \A row \in History : row.at \in Times
  BY HistoryTimes DEF Told, History
<1>4. IsFiniteSet(Times) /\ Times \in SUBSET Nat
  BY TimesAreFinite DEF Shape
<1>5. N # {}
  <2>1. \E row \in History : Entity(row) = entity
    <3>1. PICK x \in UpdatesTable \union CurrentTable : Entity(x.row) = entity
      BY Keys DEF UpdatesTable, CurrentTable
    <3>2. x.row \in History
      BY <1>2 DEF History, Current
    <3>3. QED
      BY <3>1, <3>2
  <2>2. QED
    BY <1>2, <2>1 DEF Covered
<1>6. PICK a \in N : \A c \in N : c.at <= a.at
  <2> DEFINE T == {row.at : row \in N}
  <2>1. T \in SUBSET Times /\ T # {} /\ T \in SUBSET Nat
    BY <1>2, <1>3, <1>4, <1>5
  <2>2. IsFiniteSet(T)
    BY <1>4, <2>1, FS_Subset
  <2> HIDE DEF T
  <2>3. PICK m \in T : \A j \in T : j <= m
    BY <2>1, <2>2, Highest
  <2>4. QED
    BY <2>3 DEF T
<1>7. LatestIn(N) # {}
  BY <1>6 DEF LatestIn
<1>8. ASSUME NEW b \in N, \A c \in N : c.at <= b.at PROVE b \in H /\ \A c \in H : c.at <= b.at
  <2>1. b \in H
    BY <1>2
  <2>2. ASSUME NEW c \in H PROVE c.at <= b.at
    <3>1. PICK x \in Current : Entity(x) = Entity(c) /\ x.at >= c.at
      BY <1>2 DEF Covered
    <3>2. x.at <= b.at
      BY <1>8, <3>1
    <3>3. x.at \in Nat /\ b.at \in Nat /\ c.at \in Nat
      BY <1>2, <1>3, <1>4
    <3>4. QED
      BY <3>1, <3>2, <3>3
  <2>3. QED
    BY <2>1, <2>2
<1>9. LatestIn(N) \subseteq LatestIn(H)
  BY <1>8 DEF LatestIn
<1> HIDE DEF N, H
<1>10. QED
  BY <1>1, <1>7, <1>9

\* The current state of an entity is the latest of its history, after any loads,
\* backfills and merges in any order, where the identifiers of events are unique
\* and both readers get the same states from them, unless a backfill ended
\* between its two inserts.  (states_query over entity_state_current and over
\* entity_state_updates, the rows both fills insert and the engines' merges.)
THEOREM CurrentFollowsHistory == TablesSpec => [](Consistent => CurrentAgreesWithHistory)
<1> DEFINE Inv == AllAccepted /\ LoadedFiles /\ Shape /\ (Consistent => Told)
<1>1. TablesInit => Inv
  BY TablesInit_AllAccepted, TablesInit_LoadedFiles, TablesInit_Shape, TablesInit_Told
<1>2. Inv /\ [TablesNext]_tablesVars => Inv'
  <2> SUFFICES ASSUME Inv, [TablesNext]_tablesVars PROVE Inv'
    OBVIOUS
  <2>1. AllAccepted' /\ LoadedFiles'
    BY TablesNext_AllAccepted, TablesNext_LoadedFiles
  <2>2. Shape'
    BY TablesNext_Shape
  <2>3. Consistent' => Told'
    BY <2>1, <2>2, TablesNext_Told
  <2>4. QED
    BY <2>1, <2>2, <2>3
<1>3. Inv => (Consistent => CurrentAgreesWithHistory)
  BY ToldIsRead
<1>4. QED
  BY <1>1, <1>2, <1>3, PTL DEF TablesSpec
=============================================================================
