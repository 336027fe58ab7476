------------------------ MODULE ServingMaterializer ------------------------
(***************************************************************************)
(* tools/lakehouse-rebuild: the writers of the ClickHouse serving tables.  *)
(* The Tableflow materializer consumes batches from Kafka, the incremental *)
(* materializer catches tables up with the lakehouse commit records their  *)
(* watermarks lag behind, and an operator may run a full rebuild.  Each    *)
(* writes the rows of one snapshot table by table, then the commit's row,  *)
(* then the watermarks and the publication metadata.                       *)
(*                                                                         *)
(* Every ClickHouse statement is a step, and one that returns an error may *)
(* have taken effect or not.  Kafka, ClickHouse and the writer of the      *)
(* lakehouse records are external.                                         *)
(***************************************************************************)
EXTENDS Naturals, Sequences, FiniteSetsExt

CONSTANTS
  NumTables,             \* serving tables in the order materialize_rows writes them, events first
  Partitions,            \* partitions of the Tableflow topic
  Messages,              \* records the normalizer may produce to it
  OffsetSpan,            \* 2^48: raw offsets below it keep sequence numbers apart
  Deployments,           \* the sets of writers that may run together, and their settings
  RebuildRaw,            \* NANOTRACE_REBUILD_RAW
  MaxLog,                \* bound: records in one partition
  MaxCommits,            \* bound: lakehouse commit records
  MaxFaults              \* bound: failed statements and crashes

Tables == 1 .. NumTables
EventsTable == 1

ASSUME SizesAssumption ==
  /\ NumTables \in Nat \ {0} /\ OffsetSpan \in Nat \ {0} /\ RebuildRaw \in BOOLEAN
  /\ MaxLog \in Nat /\ MaxCommits \in Nat /\ MaxFaults \in Nat

Writers == {"tableflow", "incremental", "rebuild"}

\* from[w] is NANOTRACE_REBUILD_FROM_SEQUENCE of w's process and derived is
\* NANOTRACE_REBUILD_DERIVED of the rebuild, which inserts something.  ClickHouse still has
\* the deduplication tokens of the commits 1 .. remembered, of an earlier release.
ASSUME DeploymentsAssumption ==
  /\ Deployments \subseteq [writers : SUBSET Writers, from : [Writers -> Nat],
                           derived : BOOLEAN, remembered : Nat]
  /\ \A d \in Deployments : d.derived \/ RebuildRaw

\* A snapshot is a raw message <<"kafka", partition, offset>> or an Iceberg commit
\* <<"iceberg", sequence number, 0>>.
Snapshots == {"kafka", "iceberg"} \X Nat \X Nat
NoSnapshot == <<"none", 0, 0>>

\* A record is a batch of events, a batch without events, or one the materializer
\* cannot parse or refuses.
ASSUME MessagesAssumption ==
  Messages \subseteq [kind : {"batch", "empty", "bad"}, snapshot : {"kafka"} \X Nat \X Nat]

NoMessage == <<"none", 0>>
ASSUME PartitionsAssumption == "none" \notin Partitions

VARIABLES
  deployment,            \* the writers that run, and their settings
  log,                   \* log[p]: the Tableflow topic
  committed,             \* committed[p]: the materializer group's offset
  position,              \* position[p]: the offset the materializer fetches next
  current,               \* the message the materializer is processing
  lake,                  \* lakehouse commit records 1 .. lake are visible
  rows,                  \* rows[t]: <<snapshot, token namespace>> inserted into table t
  recorded,              \* snapshots in lakehouse_commits
  watermark,             \* watermark[t]: the highest sequence number in serving_watermarks
  versions,              \* snapshots whose publication metadata is inserted
  pc,                    \* pc[w]: where writer w is
  cur,                   \* cur[w]: the snapshot w materializes
  targets,               \* targets[w]: the tables selected for it
  todo,                  \* todo[w]: what w has still to write of it
  pending,               \* pending[w]: commits of the pass, in sequence order
  marks,                 \* the incremental pass' copy of the watermarks
  skipped,               \* history: messages that returned an error
  faults                 \* faults so far, at most MaxFaults

kafka == <<log, committed, position, current, skipped>>
serving == <<rows, recorded, watermark, versions>>
work == <<cur, targets, todo, pending, marks>>
vars == <<deployment, kafka, lake, serving, pc, work, faults>>

-----------------------------------------------------------------------------

\* tableflow_sequence_number, and the Iceberg sequence number of a lakehouse commit.
SequenceNumber(s) == IF s[1] = "kafka" THEN s[2] * OffsetSpan + (s[3] % OffsetSpan) ELSE s[2]

Iceberg(n) == <<"iceberg", n, 0>>

\* The tables that have rows of snapshot s, by whichever writer.
Served(s, t) == \E r \in rows[t] : r[1] = s

\* Tables of an earlier release were caught up with the history; a table the release
\* adds is empty and has no watermark.
Init ==
  /\ deployment \in Deployments
  /\ log = [p \in Partitions |-> <<>>]
  /\ committed = [p \in Partitions |-> 0]
  /\ position = [p \in Partitions |-> 0]
  /\ current = NoMessage
  /\ lake \in deployment.remembered .. MaxCommits - 1
  /\ \E added \in SUBSET Tables :
       /\ rows = [t \in Tables |-> IF t \in added THEN {}
                    ELSE {<<Iceberg(n), "incremental">> : n \in 1 .. lake}]
       /\ watermark = [t \in Tables |-> IF t \in added THEN 0 ELSE lake]
       /\ recorded = IF added = Tables THEN {} ELSE {Iceberg(n) : n \in 1 .. lake}
  /\ versions = recorded
  /\ pc = [w \in Writers |-> "idle"]
  /\ cur = [w \in Writers |-> NoSnapshot]
  /\ targets = [w \in Writers |-> {}]
  /\ todo = [w \in Writers |-> {}]
  /\ pending = [w \in Writers |-> {}]
  /\ marks = [t \in Tables |-> 0]
  /\ skipped = {}
  /\ faults = 0

Fault == faults < MaxFaults /\ faults' = faults + 1

\* The normalizer produces one more record.
Produce(p) ==
  /\ "tableflow" \in deployment.writers
  /\ Len(log[p]) < MaxLog
  /\ \E m \in Messages : log' = [log EXCEPT ![p] = Append(@, m)]
  /\ UNCHANGED <<deployment, committed, position, current, skipped, lake, serving, pc, work,
                 faults>>

\* One more lakehouse commit record is written.
AppendCommit ==
  /\ deployment.writers # {"tableflow"}
  /\ lake < MaxCommits
  /\ lake' = lake + 1
  /\ UNCHANGED <<deployment, kafka, serving, pc, work, faults>>

-----------------------------------------------------------------------------
(* What selects a snapshot and the tables to write *)

Goto(w, step) == pc' = [pc EXCEPT ![w] = step]

Running(w) == w \in deployment.writers

\* read_commit_records: the commits w's process does not leave out.
Commits(w) == {n \in 1 .. lake : n >= deployment.from[w]}

\* Writer w materializes snapshot s into the tables ts, and so writes what \in 0 .. NumTables.
Start(w, s, ts, what) ==
  /\ Goto(w, "rows")
  /\ cur' = [cur EXCEPT ![w] = s]
  /\ targets' = [targets EXCEPT ![w] = ts]
  /\ todo' = [todo EXCEPT ![w] = what]

Record(m) == log[m[1]][m[2] + 1]

\* run_tableflow_materializer receives a record and process_tableflow_message looks at it:
\* an empty batch is done at once, a batch is written to all the tables.
ReceiveBatch(p) ==
  LET m == <<p, position[p]>> IN
  /\ Running("tableflow") /\ pc["tableflow"] = "idle"
  /\ position[p] < Len(log[p])
  /\ position' = [position EXCEPT ![p] = @ + 1]
  /\ \/ /\ Record(m).kind = "bad"
        /\ skipped' = skipped \cup {m}
        /\ UNCHANGED <<current, pc, cur, targets, todo>>
     \/ /\ Record(m).kind = "empty"
        /\ current' = m
        /\ Goto("tableflow", "commit")
        /\ UNCHANGED <<skipped, cur, targets, todo>>
     \/ /\ Record(m).kind = "batch"
        /\ current' = m
        /\ Start("tableflow", Record(m).snapshot, Tables, Tables)
        /\ UNCHANGED skipped
  /\ UNCHANGED <<deployment, log, committed, lake, serving, pending, marks, faults>>

\* run_materializer_pass reads the commit records.
ReadCommits ==
  /\ Running("incremental") /\ pc["incremental"] = "idle"
  /\ Commits("incremental") # {}
  /\ pending' = [pending EXCEPT !["incremental"] = Commits("incremental")]
  /\ Goto("incremental", "marks")
  /\ UNCHANGED <<deployment, kafka, lake, serving, cur, targets, todo, marks, faults>>

\* derived_watermark_sequences.
ReadWatermarks ==
  /\ pc["incremental"] = "marks"
  /\ marks' = watermark
  /\ Goto("incremental", "next")
  /\ UNCHANGED <<deployment, kafka, lake, serving, cur, targets, todo, pending, faults>>

\* materialize_targets_for_commit.
TargetsFor(n) == {t \in Tables : marks[t] < n}

\* Mutant of Lagging: only commits every table lags behind are materialized.
LaggingEverywhere == {n \in pending["incremental"] : TargetsFor(n) = Tables}

\* The commits of the pass some table lags behind.
Lagging == {n \in pending["incremental"] : TargetsFor(n) # {}}

\* run_incremental_materialize goes through the commits in sequence order.
SelectCommit ==
  /\ pc["incremental"] = "next"
  /\ \/ /\ Lagging = {}
        /\ Goto("incremental", "idle")
        /\ pending' = [pending EXCEPT !["incremental"] = {}]
        /\ UNCHANGED <<cur, targets, todo>>
     \/ \E n \in Lagging :
        /\ \A k \in Lagging : n <= k
        /\ Start("incremental", Iceberg(n), TargetsFor(n), TargetsFor(n))
        /\ pending' = [pending EXCEPT !["incremental"] = @ \ (1 .. n)]
  /\ UNCHANGED <<deployment, kafka, lake, serving, marks, faults>>

\* An operator starts a rebuild: it is allowed to write into tables that are not empty.
StartRebuild ==
  /\ Running("rebuild") /\ pc["rebuild"] = "idle"
  /\ Commits("rebuild") # {}
  /\ pending' = [pending EXCEPT !["rebuild"] = Commits("rebuild")]
  /\ Goto("rebuild", "next")
  /\ UNCHANGED <<deployment, kafka, lake, serving, cur, targets, todo, marks, faults>>

\* The tables whose watermarks insert_commit_metadata moves, and what rebuild_commit writes:
\* table 0 stands for the insert of the raw events that precedes materialize_rows.
RebuildTargets == IF deployment.derived THEN Tables ELSE {EventsTable}
RebuildInserts == (IF deployment.derived THEN Tables ELSE {}) \cup (IF RebuildRaw THEN {0} ELSE {})

RebuildCommit ==
  /\ pc["rebuild"] = "next"
  /\ \/ /\ pending["rebuild"] = {}
        /\ Goto("rebuild", "idle")
        /\ UNCHANGED <<cur, targets, todo, pending>>
     \/ \E n \in pending["rebuild"] :
        /\ \A k \in pending["rebuild"] : n <= k
        /\ Start("rebuild", Iceberg(n), RebuildTargets, RebuildInserts)
        /\ pending' = [pending EXCEPT !["rebuild"] = @ \ {n}]
  /\ UNCHANGED <<deployment, kafka, lake, serving, marks, faults>>

-----------------------------------------------------------------------------
(* Writing one snapshot: materialize_rows and the insert_*_metadata functions *)

\* An error ends a materializer's pass and a rebuild; the Tableflow loop goes on with
\* the next record.
Stop(w) ==
  /\ Goto(w, "idle")
  /\ cur' = [cur EXCEPT ![w] = NoSnapshot]
  /\ targets' = [targets EXCEPT ![w] = {}]
  /\ todo' = [todo EXCEPT ![w] = {}]
  /\ pending' = [pending EXCEPT ![w] = {}]

\* Mutant of Fails: the pass goes on with the commits after the one that failed.
FailsOnward(w) ==
  /\ Fault
  /\ w # "tableflow"
  /\ Goto(w, "next")
  /\ UNCHANGED <<cur, targets, todo, pending, skipped, current>>

Fails(w) ==
  /\ Fault
  /\ Stop(w)
  /\ skipped' = IF w = "tableflow" THEN skipped \cup {current} ELSE skipped
  /\ current' = IF w = "tableflow" THEN NoMessage ELSE current

\* A row carries the deduplication token of its snapshot and of the writer's namespace;
\* the raw insert of a rebuild has a namespace of its own.
InsertInto(w, t) ==
  IF t = 0 THEN rows' = [rows EXCEPT ![EventsTable] = @ \cup {<<cur[w], "raw">>}]
  ELSE rows' = [rows EXCEPT ![t] = @ \cup {<<cur[w], w>>}]

\* Mutant of InsertRows: the answer of ClickHouse is not looked at.
InsertRowsUnchecked(w) ==
  \E t \in todo[w] :
    /\ pc[w] = "rows"
    /\ \A u \in todo[w] : t <= u
    /\ todo' = [todo EXCEPT ![w] = @ \ {t}]
    /\ Goto(w, IF todo[w] = {t} THEN "record" ELSE "rows")
    /\ InsertInto(w, t) \/ UNCHANGED rows
    /\ UNCHANGED <<deployment, kafka, lake, recorded, watermark, versions, cur, targets,
                   pending, marks, faults>>

InsertRows(w) ==
  \E t \in todo[w] :
    /\ pc[w] = "rows"
    /\ \A u \in todo[w] : t <= u
    /\ \/ /\ InsertInto(w, t)
          /\ todo' = [todo EXCEPT ![w] = @ \ {t}]
          /\ Goto(w, IF todo[w] = {t} THEN "record" ELSE "rows")
          /\ UNCHANGED <<current, skipped, cur, targets, pending, faults>>
       \/ Fails(w) /\ (InsertInto(w, t) \/ UNCHANGED rows)
    /\ UNCHANGED <<deployment, log, committed, position, lake, recorded, watermark, versions,
                   marks>>

\* The row of the commit.
RecordCommit(w) ==
  LET insert == recorded' = recorded \cup {cur[w]} IN
  /\ pc[w] = "record"
  /\ \/ /\ insert
        /\ Goto(w, "watermark")
        /\ UNCHANGED <<current, skipped, cur, targets, todo, pending, faults>>
     \/ Fails(w) /\ (insert \/ UNCHANGED recorded)
  /\ UNCHANGED <<deployment, log, committed, position, lake, rows, watermark, versions, marks>>

\* The token of a watermark insert has the snapshot and not the tables: the rows of tables a
\* release adds are dropped for commits whose token is still there.
Deduplicated(w) == w = "incremental" /\ SequenceNumber(cur[w]) <= deployment.remembered

\* The newest row of a serving table wins: serving_watermarks keeps the highest sequence number.
Advanced(w) ==
  [t \in Tables |-> IF /\ t \in targets[w] /\ watermark[t] < SequenceNumber(cur[w])
                       /\ ~Deduplicated(w)
                    THEN SequenceNumber(cur[w]) ELSE watermark[t]]

AdvanceWatermarks(w) ==
  /\ pc[w] = "watermark"
  /\ \/ /\ watermark' = Advanced(w)
        /\ Goto(w, "versions")
        /\ UNCHANGED <<current, skipped, cur, targets, todo, pending, faults>>
     \/ Fails(w) /\ (watermark' = Advanced(w) \/ UNCHANGED watermark)
  /\ UNCHANGED <<deployment, log, committed, position, lake, rows, recorded, versions, marks>>

\* insert_materialization_publication_metadata, which has nothing to insert without derived
\* rows; the incremental pass then moves its own copy of the watermarks.
PublishVersions(w) ==
  LET insert == versions' = IF w = "rebuild" /\ ~deployment.derived THEN versions
                            ELSE versions \cup {cur[w]} IN
  /\ pc[w] = "versions"
  /\ \/ /\ insert
        /\ Goto(w, IF w = "tableflow" THEN "commit" ELSE "next")
        /\ marks' = IF w = "incremental"
                    THEN [t \in Tables |-> IF t \in targets[w] THEN SequenceNumber(cur[w])
                                           ELSE marks[t]]
                    ELSE marks
        /\ cur' = [cur EXCEPT ![w] = NoSnapshot]
        /\ targets' = [targets EXCEPT ![w] = {}]
        /\ UNCHANGED <<current, skipped, todo, pending, faults>>
     \/ Fails(w) /\ (insert \/ UNCHANGED versions) /\ UNCHANGED marks
  /\ UNCHANGED <<deployment, log, committed, position, lake, rows, recorded, watermark>>

\* Mutant of Acknowledge: the record after this one is acknowledged too.
AcknowledgeNext == committed' = [committed EXCEPT ![current[1]] = current[2] + 2]

Acknowledge == committed' = [committed EXCEPT ![current[1]] = current[2] + 1]

CommitMessage ==
  /\ pc["tableflow"] = "commit"
  /\ Acknowledge
  /\ current' = NoMessage
  /\ Goto("tableflow", "idle")
  /\ UNCHANGED <<deployment, log, position, skipped, lake, serving, work, faults>>

\* The process ends, also by a failing commit, and is started again: the consumer resumes
\* from the committed offsets.
Crash(w) ==
  /\ Running(w) /\ pc[w] # "idle"
  /\ Fault
  /\ Stop(w)
  /\ IF w = "tableflow"
     THEN /\ (pc[w] = "commit" /\ Acknowledge) \/ UNCHANGED committed
          /\ position' = committed'
          /\ current' = NoMessage
     ELSE UNCHANGED <<committed, position, current>>
  /\ UNCHANGED <<deployment, log, skipped, lake, serving, marks>>

Write(w) ==
  InsertRows(w) \/ RecordCommit(w) \/ AdvanceWatermarks(w) \/ PublishVersions(w)

Tableflow == (\E p \in Partitions : ReceiveBatch(p)) \/ Write("tableflow") \/ CommitMessage
Incremental == ReadCommits \/ ReadWatermarks \/ SelectCommit \/ Write("incremental")
Rebuild == RebuildCommit \/ Write("rebuild")

Next ==
  \/ \E p \in Partitions : Produce(p)
  \/ AppendCommit
  \/ Tableflow \/ Incremental \/ StartRebuild \/ Rebuild
  \/ \E w \in Writers : Crash(w)

Spec == Init /\ [][Next]_vars

\* The two loops keep running.
Fairness == WF_vars(Tableflow) /\ WF_vars(Incremental)

FairSpec == Spec /\ Fairness

-----------------------------------------------------------------------------
(* Properties *)

TypeOK ==
  /\ deployment \in Deployments
  /\ log \in [Partitions -> Seq(Messages)]
  /\ committed \in [Partitions -> Nat] /\ position \in [Partitions -> Nat]
  /\ \A p \in Partitions : committed[p] \in 0 .. Len(log[p]) /\ position[p] \in 0 .. Len(log[p])
  /\ current \in (Partitions \X Nat) \cup {NoMessage}
  /\ current # NoMessage => position[current[1]] = current[2] + 1
  /\ current # NoMessage <=>
       pc["tableflow"] \in {"rows", "record", "watermark", "versions", "commit"}
  /\ lake \in 0 .. MaxCommits
  /\ rows \in [Tables -> SUBSET (Snapshots \X (Writers \cup {"raw"}))]
  /\ recorded \subseteq Snapshots /\ versions \subseteq Snapshots
  /\ watermark \in [Tables -> Nat] /\ marks \in [Tables -> Nat]
  /\ pc \in [Writers -> {"idle", "marks", "next", "rows", "record", "watermark", "versions",
                         "commit"}]
  /\ cur \in [Writers -> Snapshots \cup {NoSnapshot}]
  /\ \A w \in Writers : cur[w] # NoSnapshot <=>
       pc[w] \in {"rows", "record", "watermark", "versions"}
  /\ targets \in [Writers -> SUBSET Tables]
  /\ todo \in [Writers -> SUBSET (0 .. NumTables)]
  /\ pending \in [Writers -> SUBSET (1 .. MaxCommits)]

\* A table's watermark is the sequence number of a snapshot whose rows it has.
WatermarkIsEarned ==
  \A t \in Tables : watermark[t] > 0 =>
    \E r \in rows[t] : SequenceNumber(r[1]) = watermark[t]

\* The operator has one of the writers leave out commit n.
LeftOut(n) == \E w \in deployment.writers : n < deployment.from[w]

\* Where only the lakehouse is materialized, a table has all the commits up to its
\* watermark that no writer leaves out: a commit that fails is not passed, and a table
\* added later is caught up from the first commit on.
WatermarkCoversTheLakehouse ==
  "tableflow" \notin deployment.writers =>
    \A t \in Tables : \A n \in 1 .. watermark[t] : LeftOut(n) \/ Served(Iceberg(n), t)

\* What ensure_serving_fresh compares: the table's watermark has reached the highest
\* recorded sequence number.
Fresh(t) == \A s \in recorded : SequenceNumber(s) <= watermark[t]

\* Such a read finds the rows of every recorded commit that no writer leaves out where only
\* the lakehouse is materialized, in a table that was added later as well.
FreshReadsSeeTheLakehouse ==
  "tableflow" \notin deployment.writers =>
    \A t \in Tables : Fresh(t) => \A s \in recorded : LeftOut(SequenceNumber(s)) \/ Served(s, t)

\* A record is settled when its batch is in every table, recorded, passed by the
\* watermarks and published.
Settled ==
  {m \in UNION {{<<p, o>> : o \in 0 .. Len(log[p]) - 1} : p \in Partitions} :
     \/ Record(m).kind = "empty"
     \/ /\ Record(m).kind = "batch"
        /\ Record(m).snapshot \in recorded \cap versions
        /\ \A t \in Tables : /\ Served(Record(m).snapshot, t)
                              /\ SequenceNumber(Record(m).snapshot) <= watermark[t]}

Contract == INSTANCE OffsetContract WITH
  length <- [p \in Partitions |-> Len(log[p])],
  settled <- Settled,
  abandoned <- skipped

\* The Tableflow materializer implements the consumer contract.
ImplementsContract == Contract!Spec

\* Every lakehouse commit that no writer leaves out reaches every table, tables added later
\* included, where the sequence numbers of Tableflow batches do not hide it.
CommitsAreCaughtUp ==
  \A n \in 1 .. MaxCommits :
    (n <= lake /\ deployment.writers = {"incremental", "rebuild"} /\ ~LeftOut(n))
      ~> \A t \in Tables : Served(Iceberg(n), t)
=============================================================================
