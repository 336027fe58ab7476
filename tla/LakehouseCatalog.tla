--------------------------- MODULE LakehouseCatalog ---------------------------
(***************************************************************************)
(* The Iceberg events table of crates/lakehouse: appends deduplicated by   *)
(* source batch, native compaction, and the files that publish both.       *)
(*                                                                         *)
(* With the local catalog a table version is published by replacing a      *)
(* pointer file; nothing but compaction compares it first.  With a REST    *)
(* catalog the service applies the append to its current version.  Every   *)
(* JSON file is written to one temporary name and renamed, so that two     *)
(* writers of a file share the temporary as well.                          *)
(***************************************************************************)
EXTENDS Naturals, Sequences, FiniteSets

CONSTANTS
    Procs,          \* processes that use the crate on one warehouse
    Batches,        \* source batch identifiers
    Lines,          \* Lines[b]: what each NDJSON line of the batch holds
    RowsPerChunk,   \* rows of one data file: target size over row size
    Props,          \* Props[p]: the table properties p is configured with
    MinInputFiles,  \* small files compaction needs
    MaxOps,         \* bound: operations started
    MaxFaults,      \* bound: operations interrupted
    Nil

ASSUME ChunkAssumption == RowsPerChunk \in Nat \ {0}
ASSUME BoundsAssumption ==
    MinInputFiles \in Nat /\ MaxOps \in Nat /\ MaxFaults \in Nat

Attempts == 1..MaxOps
RowIds == {<<b, id, i>> : b \in Batches, id \in Attempts,
                          i \in UNION {DOMAIN Lines[c] : c \in Batches}}
DataFile == [rows : SUBSET RowIds, small : BOOLEAN]
Commit == [id : Attempts, batch : Batches, files : SUBSET DataFile]
Snapshot == [id : Attempts, batch : Batches \union {Nil}, files : SUBSET DataFile]
Location == Attempts \X {"create", "props", "data"}
Table == [loc : Location, props : {Props[p] : p \in Procs}, snaps : Seq(Snapshot)]

ASSUME LinesAssumption == Lines \in [Batches -> Seq(STRING)]
ASSUME NilAssumption == Nil \notin Batches \union Table \union Commit

VARIABLES
    catalog,    \* "local" or "rest", the deployment
    rest,       \* the table version the REST catalog holds, or Nil
    disk,       \* published JSON files: pointer, commit records, current.json
    tmp,        \* their temporaries
    op,         \* op[p]: the operation p is in
    ops,        \* operations started, identifies attempts
    faults,     \* operations interrupted
    acked,      \* batches whose commit was returned
    overlapped  \* an operation started while another one ran

vars == <<catalog, rest, disk, tmp, op, ops, faults, acked, overlapped>>

-------------------------------------------------------------------------------
(* Files and table versions.                                               *)

Pointer == <<"pointer", 0>>
Current == <<"current", 0>>
Record(n) == <<"record", n>>
Files == {Pointer, Current} \union {Record(n) : n \in 1..MaxOps}

\* parse_rows: blank lines and lines that are no object are skipped, a bad
\* object fails the batch, and a batch without rows is refused.
RowLines(b) == {i \in DOMAIN Lines[b] : Lines[b][i] = "event"}
Parses(b) == /\ \A i \in DOMAIN Lines[b] : Lines[b][i] # "bad"
             /\ RowLines(b) # {}

\* record_batch_writer_chunks: consecutive runs of at most RowsPerChunk rows.
ChunkOf(rows, i) == (Cardinality({j \in rows : j < i}) \div RowsPerChunk)

\* Mutant: only full chunks are written.
FullDataFiles(b, id) ==
    {[rows |-> {<<b, id, i>> : i \in {j \in RowLines(b) : ChunkOf(RowLines(b), j) = c}},
      small |-> TRUE] :
        c \in {k \in {ChunkOf(RowLines(b), i) : i \in RowLines(b)} :
                Cardinality({i \in RowLines(b) : ChunkOf(RowLines(b), i) = k}) = RowsPerChunk}}

DataFiles(b, id) ==
    {[rows |-> {<<b, id, i>> : i \in {j \in RowLines(b) :
                                        ChunkOf(RowLines(b), j) = c}},
      small |-> TRUE] :
        c \in {ChunkOf(RowLines(b), i) : i \in RowLines(b)}}

\* A version is its location, its properties and its snapshots; the sequence
\* number of a snapshot is its position.
ActiveFiles(t) == IF t.snaps = <<>> THEN {} ELSE t.snaps[Len(t.snaps)].files
RowsOf(t) == UNION {f.rows : f \in ActiveFiles(t)}

\* Mutant: the deduplication looks at the current snapshot only.
HasBatchNow(t, b) == t.snaps # <<>> /\ t.snaps[Len(t.snaps)].batch = b

HasBatch(t, b) == \E n \in DOMAIN t.snaps : t.snaps[n].batch = b

NewTable(p, id) == [loc |-> <<id, "create">>, props |-> Props[p], snaps |-> <<>>]

WithProps(t, p, id) ==
    IF t.props = Props[p] THEN t
    ELSE [t EXCEPT !.loc = <<id, "props">>, !.props = Props[p]]

WithSnapshot(t, id, b, files) ==
    [t EXCEPT !.loc = <<id, "data">>,
              !.snaps = Append(@, [id |-> id, batch |-> b, files |-> files])]

\* Mutant: the snapshot has the files of the append only.
AppendedAlone(t, id, b) == WithSnapshot(t, id, b, DataFiles(b, id))

Appended(t, id, b) ==
    WithSnapshot(t, id, b, ActiveFiles(t) \union DataFiles(b, id))

\* Compaction scans all rows of the version it loaded into new files and
\* replaces every active file by them.
Compacted(t, id) ==
    WithSnapshot(t, id, Nil, {[rows |-> RowsOf(t), small |-> FALSE]})

Published == IF catalog = "rest" THEN rest ELSE disk[Pointer]
Readable(b) ==
    /\ Published # Nil
    /\ \A i \in RowLines(b) : \E id \in 1..MaxOps : <<b, id, i>> \in RowsOf(Published)

-------------------------------------------------------------------------------
(* Operations.  jobs holds the JSON files the operation still has to write *)
(* before its next step.                                                   *)

Idle == [pc |-> "idle", batch |-> Nil, id |-> 0, table |-> Nil, base |-> Nil,
         jobs |-> <<>>]

Job(f, c) == [file |-> f, content |-> c, staged |-> FALSE]

At(p, pc) == op[p].pc = pc /\ op[p].jobs = <<>>

Init ==
    /\ catalog \in {"local", "rest"}
    /\ rest = Nil
    /\ disk = [f \in Files |-> Nil]
    /\ tmp = [f \in Files |-> Nil]
    /\ op = [p \in Procs |-> Idle]
    /\ ops = 0
    /\ faults = 0
    /\ acked = {}
    /\ overlapped = FALSE

Start(p, b) ==
    /\ At(p, "idle")
    /\ ops < MaxOps
    /\ ops' = ops + 1
    /\ op' = [op EXCEPT ![p] = [Idle EXCEPT !.pc = "load", !.batch = b,
                                            !.id = ops + 1]]
    /\ overlapped' = (overlapped \/ \E q \in Procs : op[q].pc # "idle")
    /\ UNCHANGED <<catalog, rest, disk, tmp, faults, acked>>

StartCommit(p, b) == Parses(b) /\ Start(p, b)

\* compact_events_iceberg refuses every catalog but the local one.
StartCompaction(p) == catalog = "local" /\ Start(p, Nil)

\* load_or_create_local_iceberg_table and ensure_table_properties: a table
\* that is created, or whose properties differ, is published before it is
\* used.
LoadLocal(p) ==
    LET o == op[p]
        t == IF disk[Pointer] = Nil THEN NewTable(p, o.id)
             ELSE WithProps(disk[Pointer], p, o.id)
    IN  /\ At(p, "load")
        /\ catalog = "local"
        /\ op' = [op EXCEPT ![p] =
                    [o EXCEPT !.pc = "loaded", !.table = t, !.base = t,
                              !.jobs = IF t = disk[Pointer] THEN <<>>
                                       ELSE <<Job(Pointer, t)>>]]
        /\ UNCHANGED <<catalog, rest, disk, tmp, ops, faults, acked, overlapped>>

LoadRest(p) ==
    /\ At(p, "load")
    /\ catalog = "rest"
    /\ IF rest = Nil
       THEN /\ op' = [op EXCEPT ![p].pc = "create"]
            /\ UNCHANGED rest
       ELSE /\ rest' = WithProps(rest, p, op[p].id)
            /\ op' = [op EXCEPT ![p] = [@ EXCEPT !.pc = "loaded",
                                                 !.table = rest', !.base = rest']]
    /\ UNCHANGED <<catalog, disk, tmp, ops, faults, acked, overlapped>>

\* The service refuses to create a table that exists by now.
CreateRest(p) ==
    /\ At(p, "create")
    /\ IF rest = Nil
       THEN /\ rest' = NewTable(p, op[p].id)
            /\ op' = [op EXCEPT ![p] = [@ EXCEPT !.pc = "loaded",
                                                 !.table = rest', !.base = rest']]
       ELSE /\ op' = [op EXCEPT ![p] = Idle]
            /\ UNCHANGED rest
    /\ UNCHANGED <<catalog, disk, tmp, ops, faults, acked, overlapped>>

\* commit_from_existing_source_snapshot: the batch is in a snapshot of the
\* loaded version, which is answered without writing anything.
Deduplicate(p) ==
    /\ At(p, "loaded")
    /\ op[p].batch # Nil
    /\ HasBatch(op[p].table, op[p].batch)
    /\ acked' = acked \union {op[p].batch}
    /\ op' = [op EXCEPT ![p] = Idle]
    /\ UNCHANGED <<catalog, rest, disk, tmp, ops, faults, overlapped>>

\* The append is made on the version that was loaded and its location
\* replaces the pointer, whatever that holds by now.
AppendLocal(p) ==
    LET o == op[p]
        t == Appended(o.table, o.id, o.batch)
    IN  /\ At(p, "loaded")
        /\ catalog = "local"
        /\ o.batch # Nil
        /\ ~HasBatch(o.table, o.batch)
        /\ op' = [op EXCEPT ![p] = [o EXCEPT !.pc = "record", !.table = t,
                                             !.jobs = <<Job(Pointer, t)>>]]
        /\ UNCHANGED <<catalog, rest, disk, tmp, ops, faults, acked, overlapped>>

\* The transaction refreshes the table: the append is made on the version the
\* service holds.  The deduplication looked at the one that was loaded.
AppendRest(p) ==
    /\ At(p, "loaded")
    /\ catalog = "rest"
    /\ ~HasBatch(op[p].table, op[p].batch)
    /\ rest' = Appended(rest, op[p].id, op[p].batch)
    /\ op' = [op EXCEPT ![p] = [@ EXCEPT !.pc = "record", !.table = rest']]
    /\ UNCHANGED <<catalog, disk, tmp, ops, faults, acked, overlapped>>

\* Mutant: the record is named after the attempt.
RecordAttempt(p) ==
    LET o == op[p]
        commit == [id |-> o.id, batch |-> o.batch,
                   files |-> DataFiles(o.batch, o.id)]
    IN  /\ At(p, "record")
        /\ op' = [op EXCEPT ![p] =
                    [o EXCEPT !.pc = "answer",
                              !.jobs = <<Job(Record(o.id), commit),
                                         Job(Current, commit)>>]]
        /\ UNCHANGED <<catalog, rest, disk, tmp, ops, faults, acked, overlapped>>

\* snapshot-<sequence>.nanotrace.json and current.json, after the snapshot is
\* published.
RecordCommit(p) ==
    LET o == op[p]
        commit == [id |-> o.id, batch |-> o.batch,
                   files |-> DataFiles(o.batch, o.id)]
    IN  /\ At(p, "record")
        /\ op' = [op EXCEPT ![p] =
                    [o EXCEPT !.pc = "answer",
                              !.jobs = <<Job(Record(Len(o.table.snaps)), commit),
                                         Job(Current, commit)>>]]
        /\ UNCHANGED <<catalog, rest, disk, tmp, ops, faults, acked, overlapped>>

Answer(p) ==
    /\ At(p, "answer")
    /\ acked' = IF op[p].batch = Nil THEN acked ELSE acked \union {op[p].batch}
    /\ op' = [op EXCEPT ![p] = Idle]
    /\ UNCHANGED <<catalog, rest, disk, tmp, ops, faults, overlapped>>

-------------------------------------------------------------------------------
(* Compaction.                                                             *)

SmallFiles(t) == {f \in ActiveFiles(t) : f.small}

Compact(p) ==
    LET o == op[p]
    IN  /\ At(p, "loaded")
        /\ o.batch = Nil
        /\ op' = [op EXCEPT ![p] =
                    IF \/ o.table.snaps = <<>>
                       \/ Cardinality(SmallFiles(o.table)) < MinInputFiles
                    THEN Idle
                    ELSE [o EXCEPT !.pc = "check", !.table = Compacted(@, o.id)]]
        /\ UNCHANGED <<catalog, rest, disk, tmp, ops, faults, acked, overlapped>>

\* assert_local_catalog_pointer_matches, before the metadata is written and
\* again before the pointer is.
PointerIsBase(p) ==
    disk[Pointer] # Nil /\ disk[Pointer].loc = op[p].base.loc

CheckBeforeMetadata(p) ==
    /\ At(p, "check")
    /\ op' = [op EXCEPT ![p] = IF PointerIsBase(p) THEN [@ EXCEPT !.pc = "recheck"]
                               ELSE Idle]
    /\ UNCHANGED <<catalog, rest, disk, tmp, ops, faults, acked, overlapped>>

CheckBeforePointer(p) ==
    /\ At(p, "recheck")
    /\ op' = [op EXCEPT ![p] =
                IF PointerIsBase(p)
                THEN [@ EXCEPT !.pc = "answer", !.jobs = <<Job(Pointer, op[p].table)>>]
                ELSE Idle]
    /\ UNCHANGED <<catalog, rest, disk, tmp, ops, faults, acked, overlapped>>

-------------------------------------------------------------------------------
(* write_json_atomic.                                                      *)

StageFile(p) ==
    /\ op[p].jobs # <<>>
    /\ ~op[p].jobs[1].staged
    /\ tmp' = [tmp EXCEPT ![op[p].jobs[1].file] = op[p].jobs[1].content]
    /\ op' = [op EXCEPT ![p].jobs[1].staged = TRUE]
    /\ UNCHANGED <<catalog, rest, disk, ops, faults, acked, overlapped>>

\* The rename publishes whatever the temporary holds; it fails when another
\* writer has renamed the temporary already.
PublishFile(p) ==
    LET f == op[p].jobs[1].file
    IN  /\ op[p].jobs # <<>>
        /\ op[p].jobs[1].staged
        /\ IF tmp[f] = Nil
           THEN /\ op' = [op EXCEPT ![p] = Idle]
                /\ UNCHANGED <<disk, tmp>>
           ELSE /\ disk' = [disk EXCEPT ![f] = tmp[f]]
                /\ tmp' = [tmp EXCEPT ![f] = Nil]
                /\ op' = [op EXCEPT ![p].jobs = Tail(@)]
        /\ UNCHANGED <<catalog, rest, ops, faults, acked, overlapped>>

\* A call fails and the error is returned, or the process ends.
Interrupt(p) ==
    /\ op[p].pc # "idle"
    /\ faults < MaxFaults
    /\ faults' = faults + 1
    /\ op' = [op EXCEPT ![p] = Idle]
    /\ UNCHANGED <<catalog, rest, disk, tmp, ops, acked, overlapped>>

Step(p) ==
    \/ \E b \in Batches : StartCommit(p, b)
    \/ StartCompaction(p)
    \/ LoadLocal(p) \/ LoadRest(p) \/ CreateRest(p)
    \/ Deduplicate(p) \/ AppendLocal(p) \/ AppendRest(p)
    \/ RecordCommit(p) \/ Answer(p)
    \/ Compact(p) \/ CheckBeforeMetadata(p) \/ CheckBeforePointer(p)
    \/ StageFile(p) \/ PublishFile(p)
    \/ Interrupt(p)

Next == \E p \in Procs : Step(p)

Spec == Init /\ [][Next]_vars

-------------------------------------------------------------------------------
(* Properties.                                                             *)

\* Contents of a file and of the temporary of the same name.
Contents(f) == IF f = Pointer THEN Table ELSE Commit

FileJob == [file : {Pointer}, content : Table, staged : BOOLEAN]
           \union [file : {Current} \union ({"record"} \X Nat), content : Commit, staged : BOOLEAN]

Operation == [pc : {"idle", "load", "create", "loaded", "record", "answer", "check", "recheck"},
              batch : Batches \union {Nil}, id : 0..MaxOps,
              table : Table \union {Nil}, base : Table \union {Nil}, jobs : Seq(FileJob)]

\* Every file holds what its kind holds, and so does what processes write.
TypeOK ==
    /\ catalog \in {"local", "rest"}
    /\ rest \in Table \union {Nil}
    /\ {disk, tmp} \subseteq [Files -> Table \union Commit \union {Nil}]
    /\ \A f \in Files : {disk[f], tmp[f]} \subseteq Contents(f) \union {Nil}
    /\ op \in [Procs -> Operation]
    /\ ops \in 0..MaxOps
    /\ faults \in 0..MaxFaults
    /\ acked \subseteq Batches
    /\ overlapped \in BOOLEAN

\* A batch whose commit was returned stays readable, every row of it: always
\* with a REST catalog, and with the local one as long as no two operations
\* ran beside each other, whatever was interrupted or compacted in between.
AcceptedRowsStay ==
    catalog = "rest" \/ ~overlapped => \A b \in acked : Readable(b)

\* A batch that is committed again after an interruption adds no second copy
\* of a row; only two operations beside each other can.
RowsAppearOnce ==
    ~overlapped /\ Published # Nil =>
        \A r, s \in RowsOf(Published) : r[1] = s[1] /\ r[3] = s[3] => r = s

\* The commit records are what a rebuild replays (read_commit_records_from_dir).
\* Each names a snapshot of the table with its sequence number; every commit
\* that was returned has one unless an interruption came between the snapshot
\* and its record.
RecordsFollowTheTable ==
    ~overlapped =>
        /\ \A n \in 1..MaxOps : disk[Record(n)] # Nil =>
            /\ Published # Nil
            /\ n \in DOMAIN Published.snaps
            /\ disk[Record(n)].batch = Published.snaps[n].batch
            /\ disk[Record(n)].id = Published.snaps[n].id
        /\ faults = 0 => \A b \in acked : \E n \in 1..MaxOps :
            disk[Record(n)] # Nil /\ disk[Record(n)].batch = b

Events == INSTANCE EventTable WITH
    readable <- {b \in Batches : Parses(b) /\ Readable(b)},
    answered <- acked

\* The files implement the table EventTable describes until two operations
\* run beside each other: a step appends one whole batch that was not there,
\* answers for one that is, or changes nothing a reader could see.
ImplementsEventTable ==
    Events!Init /\ [][overlapped' \/ Events!Next]_(Events!tableVars)
===============================================================================
