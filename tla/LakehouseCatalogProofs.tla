------------------------ MODULE LakehouseCatalogProofs ------------------------
(***************************************************************************)
(* Theorems about LakehouseCatalog, for any processes, batches, table      *)
(* properties, limits of chunks and number of operations and interruptions.*)
(***************************************************************************)
EXTENDS LakehouseCatalog, SequenceTheorems, TLAPS

-------------------------------------------------------------------------------
(* Table versions.                                                         *)

LEMMA NilIsNoTable == /\ Nil \notin Table /\ Nil \notin Commit /\ Nil \notin Batches
BY NilAssumption

\* The rows of a batch and the files that hold them.
BatchRows(b, id) == {<<b, id, i>> : i \in RowLines(b)}

LEMMA DataFilesType ==
    ASSUME NEW b \in Batches, NEW id \in Attempts
    PROVE  DataFiles(b, id) \subseteq DataFile
<1>1. \A i \in RowLines(b) : <<b, id, i>> \in RowIds
  BY DEF RowLines, RowIds
<1> SUFFICES ASSUME NEW f \in DataFiles(b, id) PROVE f \in DataFile
  OBVIOUS
<1>2. PICK c : f = [rows |-> {<<b, id, i>> : i \in {j \in RowLines(b) : ChunkOf(RowLines(b), j) = c}},
                    small |-> TRUE]
  BY DEF DataFiles
<1>3. f.rows \subseteq RowIds
  BY <1>1, <1>2
<1>4. QED
  BY <1>2, <1>3 DEF DataFile

LEMMA DataFilesRows ==
    ASSUME NEW b, NEW id
    PROVE  UNION {f.rows : f \in DataFiles(b, id)} = BatchRows(b, id)
<1> DEFINE Chunk(c) == {i \in RowLines(b) : ChunkOf(RowLines(b), i) = c}
           File(c) == [rows |-> {<<b, id, i>> : i \in Chunk(c)}, small |-> TRUE]
<1>1. DataFiles(b, id) = {File(c) : c \in {ChunkOf(RowLines(b), i) : i \in RowLines(b)}}
  BY DEF DataFiles
<1>2. ASSUME NEW f \in DataFiles(b, id), NEW r \in f.rows PROVE r \in BatchRows(b, id)
  BY <1>1, <1>2 DEF BatchRows
<1>3. ASSUME NEW i \in RowLines(b) PROVE \E f \in DataFiles(b, id) : <<b, id, i>> \in f.rows
  <2>1. File(ChunkOf(RowLines(b), i)) \in DataFiles(b, id)
    BY <1>1
  <2>2. <<b, id, i>> \in File(ChunkOf(RowLines(b), i)).rows
    OBVIOUS
  <2>3. QED
    BY <2>1, <2>2
<1>4. QED
  BY <1>2, <1>3 DEF BatchRows

LEMMA NewTableType ==
    ASSUME NEW p \in Procs, NEW id \in Attempts
    PROVE  NewTable(p, id) \in Table /\ NewTable(p, id).snaps = <<>>
BY DEF NewTable, Table, Location

LEMMA WithPropsType ==
    ASSUME NEW t \in Table, NEW p \in Procs, NEW id \in Attempts
    PROVE  WithProps(t, p, id) \in Table /\ WithProps(t, p, id).snaps = t.snaps
BY DEF WithProps, Table, Location

LEMMA WithSnapshotType ==
    ASSUME NEW t \in Table, NEW id \in Attempts, NEW b \in Batches \union {Nil},
           NEW files \in SUBSET DataFile
    PROVE  /\ WithSnapshot(t, id, b, files) \in Table
           /\ WithSnapshot(t, id, b, files).snaps = Append(t.snaps, [id |-> id, batch |-> b, files |-> files])
           /\ [id |-> id, batch |-> b, files |-> files] \in Snapshot
<1> DEFINE s == [id |-> id, batch |-> b, files |-> files]
<1>1. s \in Snapshot
  BY DEF Snapshot
<1>2. t.snaps \in Seq(Snapshot)
  BY DEF Table
<1>3. Append(t.snaps, s) \in Seq(Snapshot)
  BY <1>1, <1>2
<1>4. QED
  BY <1>1, <1>3 DEF WithSnapshot, Table, Location

LEMMA ActiveFilesType ==
    ASSUME NEW t \in Table
    PROVE  ActiveFiles(t) \subseteq DataFile
<1>1. t.snaps \in Seq(Snapshot)
  BY DEF Table
<1>2. CASE t.snaps # <<>>
  <2>1. t.snaps[Len(t.snaps)] \in Snapshot
    BY <1>1, <1>2
  <2>2. QED
    BY <1>2, <2>1 DEF ActiveFiles, Snapshot
<1>3. QED
  BY <1>2 DEF ActiveFiles

LEMMA AppendedType ==
    ASSUME NEW t \in Table, NEW id \in Attempts, NEW b \in Batches
    PROVE  /\ Appended(t, id, b) \in Table
           /\ Appended(t, id, b).snaps =
                Append(t.snaps, [id |-> id, batch |-> b, files |-> ActiveFiles(t) \union DataFiles(b, id)])
<1>1. ActiveFiles(t) \union DataFiles(b, id) \in SUBSET DataFile
  BY ActiveFilesType, DataFilesType
<1>2. QED
  BY <1>1, WithSnapshotType DEF Appended

LEMMA CompactedType ==
    ASSUME NEW t \in Table, NEW id \in Attempts
    PROVE  /\ Compacted(t, id) \in Table
           /\ Compacted(t, id).snaps =
                Append(t.snaps, [id |-> id, batch |-> Nil, files |-> {[rows |-> RowsOf(t), small |-> FALSE]}])
<1>1. RowsOf(t) \subseteq RowIds
  BY ActiveFilesType DEF RowsOf, DataFile
<1>2. {[rows |-> RowsOf(t), small |-> FALSE]} \in SUBSET DataFile
  BY <1>1 DEF DataFile
<1>3. QED
  BY <1>2, WithSnapshotType DEF Compacted

LEMMA CommitType ==
    ASSUME NEW b \in Batches, NEW id \in Attempts
    PROVE  [id |-> id, batch |-> b, files |-> DataFiles(b, id)] \in Commit
BY DataFilesType DEF Commit

-------------------------------------------------------------------------------
(* Types.                                                                  *)

\* What an operation has loaded and been asked for.
OperationOK(o) ==
    /\ o.pc = "idle" => o.jobs = <<>>
    /\ o.pc # "idle" => o.id \in 1..ops
    /\ o.batch # Nil => Parses(o.batch)
    /\ o.pc \in {"loaded", "record", "check", "recheck"} => o.table \in Table
    /\ o.pc = "record" => o.batch # Nil
    /\ o.pc \in {"check", "recheck"} => o.batch = Nil
    /\ catalog = "rest" /\ o.pc # "idle" => o.batch # Nil
    /\ catalog = "rest" /\ o.pc = "loaded" => rest # Nil
    /\ o.pc = "create" => catalog = "rest"

OperationsOK == \A p \in Procs : OperationOK(op[p])

TypeInv == TypeOK /\ OperationsOK

LEMMA IdleType == Idle \in Operation
<1>1. <<>> \in Seq(FileJob) /\ 0 \in 0..MaxOps
  BY BoundsAssumption
<1>2. QED
  BY <1>1 DEF Idle, Operation

LEMMA JobType ==
    /\ \A t \in Table : Job(Pointer, t) \in FileJob
    /\ \A c \in Commit, n \in Nat : Job(Record(n), c) \in FileJob /\ Job(Current, c) \in FileJob
BY DEF Job, FileJob, Record, Current

LEMMA InitType == Init => TypeInv
<1> SUFFICES ASSUME Init PROVE TypeInv
  OBVIOUS
<1>1. /\ disk \in [Files -> Table \union Commit \union {Nil}]
      /\ tmp \in [Files -> Table \union Commit \union {Nil}]
      /\ \A f \in Files : disk[f] = Nil /\ tmp[f] = Nil
  BY DEF Init
<1>2. TypeOK
  <2>1. {disk, tmp} \subseteq [Files -> Table \union Commit \union {Nil}]
    BY <1>1
  <2>2. \A f \in Files : {disk[f], tmp[f]} \subseteq Contents(f) \union {Nil}
    BY <1>1
  <2>3. op \in [Procs -> Operation]
    BY IdleType DEF Init
  <2>4. ops \in 0..MaxOps /\ faults \in 0..MaxFaults
    BY BoundsAssumption DEF Init
  <2>5. QED
    BY <2>1, <2>2, <2>3, <2>4 DEF Init, TypeOK
<1>3. OperationsOK
  BY DEF Init, OperationsOK, OperationOK, Idle
<1>4. QED
  BY <1>2, <1>3 DEF TypeInv

\* An operation goes on with another record.
LEMMA OperationStep ==
    ASSUME TypeInv, NEW p \in Procs, NEW o \in Operation, op' = [op EXCEPT ![p] = o],
           catalog' = catalog, rest = Nil \/ rest' # Nil,
           ops' \in Nat, ops' >= ops, op'[p] = o => OperationOK(op[p])'
    PROVE  op' \in [Procs -> Operation] /\ OperationsOK'
<1>1. /\ op \in [Procs -> Operation] /\ ops \in 0..MaxOps
      /\ \A q \in Procs : OperationOK(op[q])
  BY DEF TypeInv, TypeOK, OperationsOK
<1>2. op' \in [Procs -> Operation] /\ op'[p] = o /\ \A q \in Procs : q # p => op'[q] = op[q]
  BY <1>1
<1>3. ASSUME NEW q \in Procs, q # p PROVE OperationOK(op[q])'
  <2>1. OperationOK(op[q]) /\ op'[q] = op[q]
    BY <1>1, <1>2, <1>3
  <2>2. ASSUME NEW i \in 1..ops PROVE i \in 1..ops'
    BY <1>1, BoundsAssumption
  <2>3. QED
    BY <2>1, <2>2 DEF OperationOK
<1>4. OperationOK(op[p])'
  BY <1>2
<1>5. QED
  BY <1>2, <1>3, <1>4 DEF OperationsOK

\* Steps that start nothing.
LEMMA OwnStep ==
    ASSUME TypeInv, NEW p \in Procs, NEW o \in Operation, op' = [op EXCEPT ![p] = o],
           catalog' = catalog, ops' = ops, rest = Nil \/ rest' # Nil,
           op'[p] = o => OperationOK(op[p])'
    PROVE  op' \in [Procs -> Operation] /\ OperationsOK'
<1>1. ops' \in Nat /\ ops' >= ops
  BY BoundsAssumption DEF TypeInv, TypeOK
<1>2. QED
  BY <1>1, OperationStep

\* An operation that ends is typed whatever it had done.
LEMMA IdleStep ==
    ASSUME TypeInv, NEW p \in Procs, op' = [op EXCEPT ![p] = Idle],
           catalog' = catalog, rest' = rest, ops' = ops
    PROVE  op' \in [Procs -> Operation] /\ OperationsOK'
<1>1. op'[p] = Idle => OperationOK(op[p])'
  BY DEF OperationOK, Idle
<1>2. rest = Nil \/ rest' # Nil
  OBVIOUS
<1>3. QED
  BY <1>1, <1>2, IdleType, OwnStep

FilesOK ==
    /\ {disk, tmp} \subseteq [Files -> Table \union Commit \union {Nil}]
    /\ \A f \in Files : {disk[f], tmp[f]} \subseteq Contents(f) \union {Nil}

\* The rest of the types, for a step that changes no file and answers nobody.
LEMMA QuietStep ==
    ASSUME TypeInv, UNCHANGED <<catalog, disk, tmp, faults, acked, overlapped>>,
           rest' \in Table \union {Nil}, ops' \in 0..MaxOps,
           op' \in [Procs -> Operation], OperationsOK'
    PROVE  TypeInv'
<1>1. TypeOK'
  BY DEF TypeInv, TypeOK, Contents
<1>2. QED
  BY <1>1 DEF TypeInv

LEMMA OperationType ==
    ASSUME TypeInv, NEW p \in Procs
    PROVE  /\ op[p] \in Operation /\ OperationOK(op[p])
           /\ op[p].pc # "idle" => op[p].id \in Attempts
           /\ op[p].batch \in Batches \union {Nil} /\ op[p].jobs \in Seq(FileJob)
           /\ disk[Pointer] \in Table \union {Nil} /\ rest \in Table \union {Nil}
           /\ ops \in Nat /\ MaxOps \in Nat /\ ops \in 0..MaxOps
<1>1. op[p] \in Operation /\ OperationOK(op[p]) /\ rest \in Table \union {Nil} /\ ops \in 0..MaxOps
  BY DEF TypeInv, TypeOK, OperationsOK
<1>2. ops \in Nat /\ MaxOps \in Nat
  BY <1>1, BoundsAssumption
<1>3. op[p].pc # "idle" => op[p].id \in Attempts
  BY <1>1, <1>2 DEF OperationOK, Attempts
<1>4. op[p].batch \in Batches \union {Nil} /\ op[p].jobs \in Seq(FileJob)
  BY <1>1 DEF Operation
<1>5. disk[Pointer] \in Table \union {Nil}
  <2>1. Pointer \in Files
    BY DEF Files
  <2>2. QED
    BY <2>1 DEF TypeInv, TypeOK, Contents
<1>6. QED
  BY <1>1, <1>2, <1>3, <1>4, <1>5

LEMMA StartType ==
    ASSUME TypeInv, NEW p \in Procs, NEW b \in Batches \union {Nil}, Start(p, b),
           b # Nil => Parses(b), b = Nil => catalog = "local"
    PROVE  TypeInv'
<1> DEFINE o == [Idle EXCEPT !.pc = "load", !.batch = b, !.id = ops + 1]
<1>1. ops \in Nat /\ MaxOps \in Nat /\ ops' = ops + 1 /\ ops' \in 0..MaxOps
  BY OperationType DEF Start
<1>2. op' = [op EXCEPT ![p] = o]
  BY DEF Start
<1>3. o \in Operation
  <2>1. ops + 1 \in 0..MaxOps
    BY <1>1
  <2>2. QED
    BY <2>1, IdleType DEF Operation, Idle
<1>4. op'[p] = o => OperationOK(op[p])'
  <2>1. o.pc = "load" /\ o.batch = b /\ o.id = ops + 1
    BY DEF Idle
  <2>2. QED
    <3>1. /\ ops + 1 \in 1..ops' /\ catalog' = catalog /\ (b # Nil => Parses(b))
          /\ b = Nil => catalog # "rest"
      BY <1>1 DEF Start
    <3>2. ASSUME op'[p] = o PROVE op'[p].pc = "load" /\ op'[p].batch = b /\ op'[p].id = ops + 1
      BY <2>1, <3>2
    <3>3. QED
      BY <3>1, <3>2 DEF OperationOK
<1>5. op' \in [Procs -> Operation] /\ OperationsOK'
  <2>1. ops' \in Nat /\ ops' >= ops /\ catalog' = catalog /\ (rest = Nil \/ rest' # Nil)
    BY <1>1 DEF Start
  <2>2. QED
    BY <1>2, <1>3, <1>4, <2>1, OperationStep
<1>6. TypeOK'
  <2>1. FilesOK'
    BY DEF Start, TypeInv, TypeOK, FilesOK, Contents
  <2>2. QED
    BY <1>1, <1>5, <2>1 DEF Start, TypeInv, TypeOK, FilesOK
<1>7. QED
  BY <1>5, <1>6 DEF TypeInv

LEMMA LoadLocalType == ASSUME TypeInv, NEW p \in Procs, LoadLocal(p) PROVE TypeInv'
<1> DEFINE t == IF disk[Pointer] = Nil THEN NewTable(p, op[p].id)
                ELSE WithProps(disk[Pointer], p, op[p].id)
           o == [op[p] EXCEPT !.pc = "loaded", !.table = t, !.base = t,
                              !.jobs = IF t = disk[Pointer] THEN <<>> ELSE <<Job(Pointer, t)>>]
<1>1. op' = [op EXCEPT ![p] = o] /\ op[p].pc = "load" /\ catalog = "local"
  BY DEF LoadLocal, At
<1>2. t \in Table
  BY <1>1, OperationType, NewTableType, WithPropsType
<1>3. o \in Operation
  <2>1. <<>> \in Seq(FileJob) /\ <<Job(Pointer, t)>> \in Seq(FileJob)
    BY <1>2, JobType
  <2>2. QED
    BY <1>2, <2>1, OperationType DEF Operation
<1>4. op'[p] = o => OperationOK(op[p])'
  <2>1. UNCHANGED <<catalog, ops, rest>> /\ OperationOK(op[p]) /\ op[p] \in Operation
    BY OperationType DEF LoadLocal
  <2>2. QED
    BY <1>1, <1>2, <2>1 DEF OperationOK, Operation
<1>5. op' \in [Procs -> Operation] /\ OperationsOK'
  BY <1>1, <1>3, <1>4, OwnStep DEF LoadLocal
<1>6. QED
  BY <1>5, QuietStep, OperationType DEF LoadLocal

LEMMA LoadRestType == ASSUME TypeInv, NEW p \in Procs, LoadRest(p) PROVE TypeInv'
<1>1. op[p].pc = "load" /\ op[p] \in Operation /\ op[p].id \in Attempts /\ OperationOK(op[p])
  BY OperationType DEF LoadRest, At
<1>2. CASE rest = Nil
  <2> DEFINE o == [op[p] EXCEPT !.pc = "create"]
  <2>1. op' = [op EXCEPT ![p] = o] /\ UNCHANGED <<rest, ops, catalog>> /\ catalog = "rest"
    BY <1>2 DEF LoadRest
  <2>2. o \in Operation /\ (op'[p] = o => OperationOK(op[p])')
    BY <1>1, <2>1 DEF Operation, OperationOK
  <2>3. op' \in [Procs -> Operation] /\ OperationsOK'
    BY <2>1, <2>2, OwnStep
  <2>4. QED
    BY <2>1, <2>3, QuietStep, OperationType DEF LoadRest
<1>3. CASE rest # Nil
  <2> DEFINE o == [op[p] EXCEPT !.pc = "loaded", !.table = rest', !.base = rest']
  <2>1. op' = [op EXCEPT ![p] = o] /\ rest' = WithProps(rest, p, op[p].id) /\ UNCHANGED <<ops, catalog>>
    BY <1>3 DEF LoadRest
  <2>2. rest' \in Table /\ rest' # Nil
    BY <1>1, <1>3, <2>1, OperationType, WithPropsType, NilIsNoTable
  <2>3. o \in Operation
    BY <1>1, <2>2 DEF Operation
  <2>4. op'[p] = o => OperationOK(op[p])'
    BY <1>1, <2>1, <2>2 DEF Operation, OperationOK
  <2>5. op' \in [Procs -> Operation] /\ OperationsOK'
    BY <2>1, <2>2, <2>3, <2>4, OwnStep
  <2>6. QED
    BY <2>1, <2>2, <2>5, QuietStep, OperationType DEF LoadRest
<1>4. QED
  BY <1>2, <1>3

LEMMA CreateRestType == ASSUME TypeInv, NEW p \in Procs, CreateRest(p) PROVE TypeInv'
<1>1. op[p].pc = "create" /\ op[p] \in Operation /\ op[p].id \in Attempts /\ OperationOK(op[p])
  BY OperationType DEF CreateRest, At
<1>2. CASE rest # Nil
  <2>1. op' \in [Procs -> Operation] /\ OperationsOK'
    BY <1>2, IdleStep DEF CreateRest
  <2>2. QED
    BY <1>2, <2>1, QuietStep, OperationType DEF CreateRest
<1>3. CASE rest = Nil
  <2> DEFINE o == [op[p] EXCEPT !.pc = "loaded", !.table = rest', !.base = rest']
  <2>1. op' = [op EXCEPT ![p] = o] /\ rest' = NewTable(p, op[p].id) /\ UNCHANGED <<ops, catalog>>
    BY <1>3 DEF CreateRest
  <2>2. rest' \in Table /\ rest' # Nil
    BY <1>1, <2>1, NewTableType, NilIsNoTable
  <2>3. o \in Operation
    BY <1>1, <2>2 DEF Operation
  <2>4. op'[p] = o => OperationOK(op[p])'
    BY <1>1, <2>1, <2>2 DEF Operation, OperationOK
  <2>5. op' \in [Procs -> Operation] /\ OperationsOK'
    BY <2>1, <2>2, <2>3, <2>4, OwnStep
  <2>6. QED
    BY <2>1, <2>2, <2>5, QuietStep, OperationType DEF CreateRest
<1>4. QED
  BY <1>2, <1>3

\* An answer and an interruption end the operation.
LEMMA EndType ==
    ASSUME TypeInv, NEW p \in Procs, op' = [op EXCEPT ![p] = Idle],
           UNCHANGED <<catalog, rest, disk, tmp, ops, overlapped>>,
           acked' \subseteq Batches, faults' \in 0..MaxFaults
    PROVE  TypeInv'
<1>1. op' \in [Procs -> Operation] /\ OperationsOK'
  BY IdleStep
<1>2. FilesOK'
  BY DEF TypeInv, TypeOK, FilesOK, Contents
<1>3. TypeOK'
  BY <1>1, <1>2 DEF TypeInv, TypeOK, FilesOK
<1>4. QED
  BY <1>1, <1>3 DEF TypeInv

LEMMA EndsType ==
    ASSUME TypeInv, NEW p \in Procs, Deduplicate(p) \/ Answer(p) \/ Interrupt(p)
    PROVE  TypeInv'
<1>1. acked \subseteq Batches /\ faults \in 0..MaxFaults /\ op[p].batch \in Batches \union {Nil}
  BY OperationType DEF TypeInv, TypeOK
<1>2. CASE Deduplicate(p)
  BY <1>1, <1>2, EndType DEF Deduplicate
<1>3. CASE Answer(p)
  BY <1>1, <1>3, EndType DEF Answer
<1>4. CASE Interrupt(p)
  <2>1. faults' \in 0..MaxFaults
    BY <1>1, <1>4, BoundsAssumption DEF Interrupt
  <2>2. QED
    BY <1>1, <1>4, <2>1, EndType DEF Interrupt
<1>5. QED
  BY <1>2, <1>3, <1>4

LEMMA AppendLocalType == ASSUME TypeInv, NEW p \in Procs, AppendLocal(p) PROVE TypeInv'
<1> DEFINE t == Appended(op[p].table, op[p].id, op[p].batch)
           o == [op[p] EXCEPT !.pc = "record", !.table = t, !.jobs = <<Job(Pointer, t)>>]
<1>1. op[p].pc = "loaded" /\ op[p] \in Operation /\ op[p].id \in Attempts /\ OperationOK(op[p])
  BY OperationType DEF AppendLocal, At
<1>2. op[p].batch \in Batches /\ op[p].table \in Table
  BY <1>1, OperationType DEF AppendLocal, OperationOK
<1>3. t \in Table
  BY <1>1, <1>2, AppendedType
<1>4. op' = [op EXCEPT ![p] = o] /\ UNCHANGED <<rest, ops, catalog>>
  BY DEF AppendLocal
<1>5. o \in Operation
  <2>1. <<Job(Pointer, t)>> \in Seq(FileJob)
    BY <1>3, JobType
  <2>2. QED
    BY <1>1, <1>3, <2>1 DEF Operation
<1>6. op'[p] = o => OperationOK(op[p])'
  BY <1>1, <1>2, <1>3, <1>4, NilIsNoTable DEF Operation, OperationOK
<1>7. op' \in [Procs -> Operation] /\ OperationsOK'
  BY <1>4, <1>5, <1>6, OwnStep
<1>8. QED
  BY <1>7, QuietStep, OperationType DEF AppendLocal

LEMMA AppendRestType == ASSUME TypeInv, NEW p \in Procs, AppendRest(p) PROVE TypeInv'
<1> DEFINE o == [op[p] EXCEPT !.pc = "record", !.table = rest']
<1>1. /\ op[p].pc = "loaded" /\ catalog = "rest"
      /\ op[p] \in Operation /\ op[p].id \in Attempts /\ OperationOK(op[p])
  BY OperationType DEF AppendRest, At
<1>2. op[p].batch \in Batches /\ rest \in Table
  BY <1>1, OperationType DEF OperationOK
<1>3. rest' \in Table /\ rest' # Nil
  BY <1>1, <1>2, AppendedType, NilIsNoTable DEF AppendRest
<1>4. op' = [op EXCEPT ![p] = o] /\ UNCHANGED <<ops, catalog>>
  BY DEF AppendRest
<1>5. o \in Operation
  BY <1>1, <1>3 DEF Operation
<1>6. op'[p] = o => OperationOK(op[p])'
  BY <1>1, <1>2, <1>3, <1>4, NilIsNoTable DEF Operation, OperationOK
<1>7. op' \in [Procs -> Operation] /\ OperationsOK'
  BY <1>3, <1>4, <1>5, <1>6, OwnStep
<1>8. QED
  BY <1>3, <1>7, QuietStep, OperationType DEF AppendRest

LEMMA RecordCommitType == ASSUME TypeInv, NEW p \in Procs, RecordCommit(p) PROVE TypeInv'
<1> DEFINE commit == [id |-> op[p].id, batch |-> op[p].batch, files |-> DataFiles(op[p].batch, op[p].id)]
           n == Len(op[p].table.snaps)
           o == [op[p] EXCEPT !.pc = "answer", !.jobs = <<Job(Record(n), commit), Job(Current, commit)>>]
<1>1. op[p].pc = "record" /\ op[p] \in Operation /\ op[p].id \in Attempts /\ OperationOK(op[p])
  BY OperationType DEF RecordCommit, At
<1>2. op[p].batch \in Batches /\ op[p].table \in Table
  BY <1>1, OperationType DEF OperationOK
<1>3. commit \in Commit
  BY <1>1, <1>2, CommitType
<1>4. op' = [op EXCEPT ![p] = o] /\ UNCHANGED <<rest, ops, catalog>>
  BY DEF RecordCommit
<1>5. o \in Operation
  <2>1. n \in Nat
    BY <1>2 DEF Table
  <2>2. Job(Record(n), commit) \in FileJob /\ Job(Current, commit) \in FileJob
    BY <1>3, <2>1, JobType
  <2>3. <<Job(Record(n), commit), Job(Current, commit)>> \in Seq(FileJob)
    BY <2>2
  <2>4. QED
    BY <1>1, <2>3 DEF Operation
<1>6. op'[p] = o => OperationOK(op[p])'
  BY <1>1, <1>2, <1>4, NilIsNoTable DEF Operation, OperationOK
<1>7. op' \in [Procs -> Operation] /\ OperationsOK'
  BY <1>4, <1>5, <1>6, OwnStep
<1>8. QED
  BY <1>7, QuietStep, OperationType DEF RecordCommit

LEMMA CompactType == ASSUME TypeInv, NEW p \in Procs, Compact(p) PROVE TypeInv'
<1> DEFINE o == [op[p] EXCEPT !.pc = "check", !.table = Compacted(@, op[p].id)]
<1>1. op[p].pc = "loaded" /\ op[p] \in Operation /\ op[p].id \in Attempts /\ OperationOK(op[p])
  BY OperationType DEF Compact, At
<1>2. op[p].batch = Nil /\ op[p].table \in Table
  BY <1>1 DEF OperationOK, Compact
<1>3. UNCHANGED <<catalog, rest, disk, tmp, ops, faults, acked, overlapped>>
  BY DEF Compact
<1>4. CASE op' = [op EXCEPT ![p] = Idle]
  BY <1>3, <1>4, IdleStep, QuietStep, OperationType
<1>5. CASE op' = [op EXCEPT ![p] = o]
  <2>1. o \in Operation
    BY <1>1, <1>2, CompactedType DEF Operation
  <2>2. op'[p] = o => OperationOK(op[p])'
    <3>1. o.table \in Table
      BY <1>1, <1>2, CompactedType DEF Operation
    <3>2. QED
      BY <1>1, <1>2, <1>3, <3>1 DEF Operation, OperationOK
  <2>3. op' \in [Procs -> Operation] /\ OperationsOK'
    BY <1>3, <1>5, <2>1, <2>2, OwnStep
  <2>4. QED
    BY <1>3, <2>3, QuietStep, OperationType
<1>6. QED
  BY <1>4, <1>5 DEF Compact

LEMMA CheckType ==
    ASSUME TypeInv, NEW p \in Procs, CheckBeforeMetadata(p) \/ CheckBeforePointer(p)
    PROVE  TypeInv'
<1>1. /\ op[p].pc \in {"check", "recheck"} /\ op[p] \in Operation /\ OperationOK(op[p])
      /\ op[p].batch = Nil /\ op[p].table \in Table
  BY OperationType DEF CheckBeforeMetadata, CheckBeforePointer, At, OperationOK
<1>2. UNCHANGED <<catalog, rest, disk, tmp, ops, faults, acked, overlapped>>
  BY DEF CheckBeforeMetadata, CheckBeforePointer
<1>3. CASE op' = [op EXCEPT ![p] = Idle]
  BY <1>2, <1>3, IdleStep, QuietStep, OperationType
<1> DEFINE o1 == [op[p] EXCEPT !.pc = "recheck"]
           o2 == [op[p] EXCEPT !.pc = "answer", !.jobs = <<Job(Pointer, op[p].table)>>]
<1>4. CASE op' = [op EXCEPT ![p] = o1]
  <2>1. o1 \in Operation /\ (op'[p] = o1 => OperationOK(op[p])')
    BY <1>1, <1>2 DEF Operation, OperationOK
  <2>2. op' \in [Procs -> Operation] /\ OperationsOK'
    BY <1>2, <1>4, <2>1, OwnStep
  <2>3. QED
    BY <1>2, <2>2, QuietStep, OperationType
<1>5. CASE op' = [op EXCEPT ![p] = o2]
  <2>1. <<Job(Pointer, op[p].table)>> \in Seq(FileJob)
    BY <1>1, JobType
  <2>2. o2 \in Operation /\ (op'[p] = o2 => OperationOK(op[p])')
    BY <1>1, <1>2, <2>1 DEF Operation, OperationOK
  <2>3. op' \in [Procs -> Operation] /\ OperationsOK'
    BY <1>2, <1>5, <2>2, OwnStep
  <2>4. QED
    BY <1>2, <2>3, QuietStep, OperationType
<1>6. QED
  BY <1>3, <1>4, <1>5 DEF CheckBeforeMetadata, CheckBeforePointer

\* The first file an operation has to write.
LEMMA FirstJob ==
    ASSUME TypeInv, NEW p \in Procs, op[p].jobs # <<>>
    PROVE  /\ op[p].jobs[1] \in FileJob /\ 1 \in DOMAIN op[p].jobs /\ op[p].pc # "idle"
           /\ Tail(op[p].jobs) \in Seq(FileJob)
           /\ op[p].jobs[1].content \in Contents(op[p].jobs[1].file)
<1>1. op[p].jobs \in Seq(FileJob) /\ OperationOK(op[p])
  BY OperationType
<1>2. op[p].jobs[1] \in FileJob /\ 1 \in DOMAIN op[p].jobs /\ Tail(op[p].jobs) \in Seq(FileJob)
  BY <1>1
<1>3. op[p].jobs[1].content \in Contents(op[p].jobs[1].file)
  BY <1>2 DEF FileJob, Contents, Pointer, Current
<1>4. QED
  BY <1>1, <1>2, <1>3 DEF OperationOK

LEMMA StageFileType == ASSUME TypeInv, NEW p \in Procs, StageFile(p) PROVE TypeInv'
<1> DEFINE j == op[p].jobs[1]
           js == [op[p].jobs EXCEPT ![1] = [j EXCEPT !.staged = TRUE]]
           o == [op[p] EXCEPT !.jobs = js]
<1>1. op[p] \in Operation /\ OperationOK(op[p]) /\ j \in FileJob /\ op[p].pc # "idle"
  BY OperationType, FirstJob DEF StageFile
<1>2. /\ op' = [op EXCEPT ![p] = o] /\ tmp' = [tmp EXCEPT ![j.file] = j.content]
      /\ UNCHANGED <<catalog, rest, disk, ops, faults, acked, overlapped>>
  BY DEF StageFile
<1>3. o \in Operation
  <2>1. [j EXCEPT !.staged = TRUE] \in FileJob
    BY <1>1 DEF FileJob
  <2>2. js \in Seq(FileJob)
    BY <1>1, <2>1, OperationType, FirstJob, ExceptSeq DEF StageFile
  <2>3. QED
    BY <1>1, <2>2 DEF Operation
<1>4. op'[p] = o => OperationOK(op[p])'
  BY <1>1, <1>2 DEF Operation, OperationOK
<1>5. op' \in [Procs -> Operation] /\ OperationsOK'
  BY <1>2, <1>3, <1>4, OwnStep
<1>6. FilesOK'
  <2>1. FilesOK /\ j.content \in Contents(j.file)
    BY FirstJob DEF StageFile, TypeInv, TypeOK, FilesOK
  <2>2. j.content \in Table \union Commit
    BY <2>1 DEF Contents
  <2>3. tmp' \in [Files -> Table \union Commit \union {Nil}]
    BY <1>2, <2>1, <2>2 DEF FilesOK
  <2>4. ASSUME NEW f \in Files PROVE tmp'[f] \in Contents(f) \union {Nil}
    BY <1>2, <2>1 DEF FilesOK
  <2>5. QED
    BY <1>2, <2>1, <2>3, <2>4 DEF FilesOK, Contents
<1>7. TypeOK'
  BY <1>2, <1>5, <1>6 DEF TypeInv, TypeOK, FilesOK
<1>8. QED
  BY <1>5, <1>7 DEF TypeInv

LEMMA PublishFileType == ASSUME TypeInv, NEW p \in Procs, PublishFile(p) PROVE TypeInv'
<1> DEFINE f == op[p].jobs[1].file
           o == [op[p] EXCEPT !.jobs = Tail(@)]
<1>1. /\ op[p] \in Operation /\ OperationOK(op[p]) /\ op[p].pc # "idle"
      /\ Tail(op[p].jobs) \in Seq(FileJob)
  BY OperationType, FirstJob DEF PublishFile
<1>2. UNCHANGED <<catalog, rest, ops, faults, acked, overlapped>>
  BY DEF PublishFile
<1>3. CASE tmp[f] = Nil
  <2>1. op' = [op EXCEPT ![p] = Idle] /\ UNCHANGED <<disk, tmp>>
    BY <1>3 DEF PublishFile
  <2>2. QED
    BY <1>2, <2>1, IdleStep, QuietStep, OperationType
<1>4. CASE tmp[f] # Nil
  <2>1. /\ op' = [op EXCEPT ![p] = o]
        /\ disk' = [disk EXCEPT ![f] = tmp[f]] /\ tmp' = [tmp EXCEPT ![f] = Nil]
    BY <1>4 DEF PublishFile
  <2>2. o \in Operation /\ (op'[p] = o => OperationOK(op[p])')
    BY <1>1, <1>2 DEF Operation, OperationOK
  <2>3. op' \in [Procs -> Operation] /\ OperationsOK'
    BY <1>2, <2>1, <2>2, OwnStep
  <2>4. FilesOK'
    <3>1. FilesOK
      BY DEF TypeInv, TypeOK, FilesOK
    <3>2. disk' \in [Files -> Table \union Commit \union {Nil}] /\ tmp' \in [Files -> Table \union Commit \union {Nil}]
      BY <2>1, <3>1 DEF FilesOK
    <3>3. ASSUME NEW g \in Files PROVE {disk'[g], tmp'[g]} \subseteq Contents(g) \union {Nil}
      BY <2>1, <3>1 DEF FilesOK
    <3>4. QED
      BY <3>2, <3>3 DEF FilesOK, Contents
  <2>5. TypeOK'
    BY <1>2, <2>3, <2>4 DEF TypeInv, TypeOK, FilesOK
  <2>6. QED
    BY <2>3, <2>5 DEF TypeInv
<1>5. QED
  BY <1>3, <1>4

LEMMA TypeStep == TypeInv /\ [Next]_vars => TypeInv'
<1> SUFFICES ASSUME TypeInv, [Next]_vars PROVE TypeInv'
  OBVIOUS
<1>1. CASE UNCHANGED vars
  <2>1. UNCHANGED <<catalog, rest, ops, op>> /\ UNCHANGED <<disk, tmp, faults, acked, overlapped>>
    BY <1>1 DEF vars
  <2>2. OperationsOK'
    BY <2>1 DEF TypeInv, OperationsOK, OperationOK
  <2>3. op' \in [Procs -> Operation] /\ ops' \in 0..MaxOps /\ rest' \in Table \union {Nil}
    BY <2>1 DEF TypeInv, TypeOK
  <2>4. QED
    BY <2>1, <2>2, <2>3, QuietStep
<1>2. ASSUME NEW p \in Procs, Step(p) PROVE TypeInv'
  <2>1. CASE \E b \in Batches : StartCommit(p, b)
    <3>1. PICK b \in Batches : Parses(b) /\ Start(p, b)
      BY <2>1 DEF StartCommit
    <3>2. b # Nil
      BY NilIsNoTable
    <3>3. QED
      BY <3>1, <3>2, StartType
  <2>2. CASE StartCompaction(p)
    <3>1. Start(p, Nil) /\ catalog = "local" /\ Nil \in Batches \union {Nil}
      BY <2>2 DEF StartCompaction
    <3>2. QED
      BY <3>1, StartType
  <2>3. QED
    BY <1>2, <2>1, <2>2, LoadLocalType, LoadRestType, CreateRestType, EndsType, AppendLocalType,
       AppendRestType, RecordCommitType, CompactType, CheckType, StageFileType, PublishFileType DEF Step
<1>3. QED
  BY <1>1, <1>2 DEF Next

LEMMA TypesHold == Spec => []TypeInv
BY InitType, TypeStep, PTL DEF Spec

\* Every file of the warehouse, every temporary and every operation holds
\* what its kind holds, whoever writes beside whom and whatever is interrupted.
THEOREM TypeCorrect == Spec => []TypeOK
BY TypesHold, PTL DEF TypeInv

-------------------------------------------------------------------------------
(* What the published table holds.                                         *)

Snaps(t) == IF t = Nil THEN <<>> ELSE t.snaps
Log == Snaps(Published)

\* The rows a scan of the last snapshot returns.
LastFiles(s) == IF s = <<>> THEN {} ELSE s[Len(s)].files
Rows(s) == UNION {f.rows : f \in LastFiles(s)}
Has(s, b) == \E n \in DOMAIN s : s[n].batch = b

\* A batch that ever was in a snapshot has all its rows in the last one.
Holds(s) == \A n \in DOMAIN s : s[n].batch # Nil => BatchRows(s[n].batch, s[n].id) \subseteq Rows(s)

\* No row is there without a snapshot of its batch, and no batch has two.
OnlyOnce(s) ==
    /\ \A r \in Rows(s) : \E n \in DOMAIN s : s[n].batch # Nil /\ r \in BatchRows(s[n].batch, s[n].id)
    /\ \A m, n \in DOMAIN s : s[m].batch = s[n].batch /\ s[m].batch # Nil => m = n

\* The snapshots an append and a compaction add.
AppendedSnap(s, id, b) == [id |-> id, batch |-> b, files |-> LastFiles(s) \union DataFiles(b, id)]
CompactedSnap(s, id) == [id |-> id, batch |-> Nil, files |-> {[rows |-> Rows(s), small |-> FALSE]}]

LEMMA TableLog ==
    ASSUME NEW t \in Table
    PROVE  /\ t.snaps \in Seq(Snapshot) /\ RowsOf(t) = Rows(t.snaps)
           /\ \A b : HasBatch(t, b) <=> Has(t.snaps, b)
           /\ \A id \in Attempts, b \in Batches :
                Appended(t, id, b).snaps = Append(t.snaps, AppendedSnap(t.snaps, id, b))
           /\ \A id \in Attempts : Compacted(t, id).snaps = Append(t.snaps, CompactedSnap(t.snaps, id))
<1>1. t.snaps \in Seq(Snapshot)
  BY DEF Table
<1>2. ActiveFiles(t) = LastFiles(t.snaps)
  BY DEF ActiveFiles, LastFiles
<1>3. RowsOf(t) = Rows(t.snaps)
  BY <1>2 DEF RowsOf, Rows
<1>4. QED
  BY <1>1, <1>2, <1>3, AppendedType, CompactedType DEF HasBatch, Has, AppendedSnap, CompactedSnap

LEMMA SnapTypes ==
    ASSUME NEW s \in Seq(Snapshot), NEW id \in Attempts
    PROVE  /\ LastFiles(s) \subseteq DataFile /\ Rows(s) \subseteq RowIds
           /\ \A b \in Batches : AppendedSnap(s, id, b) \in Snapshot
           /\ CompactedSnap(s, id) \in Snapshot
<1>1. LastFiles(s) \subseteq DataFile
  <2>1. CASE s # <<>>
    <3>1. s[Len(s)] \in Snapshot
      BY <2>1
    <3>2. QED
      BY <2>1, <3>1 DEF LastFiles, Snapshot
  <2>2. QED
    BY <2>1 DEF LastFiles
<1>2. Rows(s) \subseteq RowIds
  BY <1>1 DEF Rows, DataFile
<1>3. \A b \in Batches : AppendedSnap(s, id, b) \in Snapshot
  BY <1>1, DataFilesType DEF AppendedSnap, Snapshot
<1>4. CompactedSnap(s, id) \in Snapshot
  BY <1>2 DEF CompactedSnap, Snapshot, DataFile
<1>5. QED
  BY <1>1, <1>2, <1>3, <1>4

LEMMA LogAppend ==
    ASSUME NEW s \in Seq(Snapshot), NEW e \in Snapshot
    PROVE  /\ Append(s, e) \in Seq(Snapshot) /\ Append(s, e) # <<>>
           /\ Len(Append(s, e)) = Len(s) + 1 /\ Append(s, e)[Len(s) + 1] = e
           /\ DOMAIN Append(s, e) = DOMAIN s \union {Len(s) + 1} /\ Len(s) + 1 \notin DOMAIN s
           /\ \A n \in DOMAIN s : Append(s, e)[n] = s[n]
           /\ \A b : Has(Append(s, e), b) <=> Has(s, b) \/ e.batch = b
           /\ Rows(Append(s, e)) = UNION {f.rows : f \in e.files}
<1>1. /\ Append(s, e) \in Seq(Snapshot) /\ Append(s, e) # <<>>
      /\ Len(Append(s, e)) = Len(s) + 1 /\ Append(s, e)[Len(s) + 1] = e
      /\ \A n \in 1..Len(s) : Append(s, e)[n] = s[n]
  BY AppendProperties
<1>2. DOMAIN s = 1..Len(s) /\ DOMAIN Append(s, e) = 1..(Len(s) + 1) /\ Len(s) \in Nat
  BY <1>1
<1>3. DOMAIN Append(s, e) = DOMAIN s \union {Len(s) + 1} /\ Len(s) + 1 \notin DOMAIN s
  BY <1>2
<1>4. LastFiles(Append(s, e)) = e.files
  BY <1>1 DEF LastFiles
<1>5. \A b : Has(Append(s, e), b) <=> Has(s, b) \/ e.batch = b
  BY <1>1, <1>2, <1>3 DEF Has
<1>6. QED
  BY <1>1, <1>2, <1>3, <1>4, <1>5 DEF Rows

\* An append adds the rows of its batch and keeps all others, a compaction
\* rewrites the rows that are there.
LEMMA AppendedRows ==
    ASSUME NEW s \in Seq(Snapshot), NEW id \in Attempts, NEW b \in Batches
    PROVE  Rows(Append(s, AppendedSnap(s, id, b))) = Rows(s) \union BatchRows(b, id)
<1>1. AppendedSnap(s, id, b) \in Snapshot /\ AppendedSnap(s, id, b).files = LastFiles(s) \union DataFiles(b, id)
  BY SnapTypes DEF AppendedSnap
<1>2. Rows(Append(s, AppendedSnap(s, id, b))) = UNION {f.rows : f \in LastFiles(s) \union DataFiles(b, id)}
  BY <1>1, LogAppend
<1>3. UNION {f.rows : f \in LastFiles(s) \union DataFiles(b, id)}
        = (UNION {f.rows : f \in LastFiles(s)}) \union (UNION {f.rows : f \in DataFiles(b, id)})
  OBVIOUS
<1>4. QED
  BY <1>2, <1>3, DataFilesRows DEF Rows

LEMMA CompactedRows ==
    ASSUME NEW s \in Seq(Snapshot), NEW id \in Attempts
    PROVE  Rows(Append(s, CompactedSnap(s, id))) = Rows(s)
<1>1. CompactedSnap(s, id) \in Snapshot /\ CompactedSnap(s, id).files = {[rows |-> Rows(s), small |-> FALSE]}
  BY SnapTypes DEF CompactedSnap
<1>2. UNION {f.rows : f \in {[rows |-> Rows(s), small |-> FALSE]}} = Rows(s)
  OBVIOUS
<1>3. Rows(Append(s, CompactedSnap(s, id))) = UNION {f.rows : f \in CompactedSnap(s, id).files}
  BY <1>1, LogAppend
<1>4. QED
  BY <1>1, <1>2, <1>3

\* A snapshot that keeps the rows there are and adds those of its own batch
\* leaves every batch readable.
LEMMA HoldsAppend ==
    ASSUME NEW s \in Seq(Snapshot), NEW e \in Snapshot, Holds(s),
           Rows(s) \subseteq Rows(Append(s, e)),
           e.batch # Nil => BatchRows(e.batch, e.id) \subseteq Rows(Append(s, e))
    PROVE  Holds(Append(s, e))
<1> SUFFICES ASSUME NEW n \in DOMAIN Append(s, e), Append(s, e)[n].batch # Nil
             PROVE  BatchRows(Append(s, e)[n].batch, Append(s, e)[n].id) \subseteq Rows(Append(s, e))
  BY DEF Holds
<1>1. CASE n = Len(s) + 1
  BY <1>1, LogAppend
<1>2. CASE n \in DOMAIN s
  BY <1>2, LogAppend DEF Holds
<1>3. QED
  BY <1>1, <1>2, LogAppend

LEMMA OnceAppend ==
    ASSUME NEW s \in Seq(Snapshot), NEW e \in Snapshot, OnlyOnce(s),
           e.batch = Nil => Rows(Append(s, e)) \subseteq Rows(s),
           e.batch # Nil => ~Has(s, e.batch)
                            /\ Rows(Append(s, e)) \subseteq Rows(s) \union BatchRows(e.batch, e.id)
    PROVE  OnlyOnce(Append(s, e))
<1> DEFINE a == Append(s, e)
<1>1. /\ DOMAIN a = DOMAIN s \union {Len(s) + 1} /\ a[Len(s) + 1] = e
      /\ \A n \in DOMAIN s : a[n] = s[n]
  BY LogAppend
<1>2. ASSUME NEW r \in Rows(a)
      PROVE  \E n \in DOMAIN a : a[n].batch # Nil /\ r \in BatchRows(a[n].batch, a[n].id)
  <2>1. CASE r \in Rows(s)
    <3>1. PICK n \in DOMAIN s : s[n].batch # Nil /\ r \in BatchRows(s[n].batch, s[n].id)
      BY <2>1 DEF OnlyOnce
    <3>2. QED
      BY <1>1, <3>1
  <2>2. CASE e.batch # Nil /\ r \in BatchRows(e.batch, e.id)
    BY <1>1, <2>2
  <2>3. QED
    BY <1>2, <2>1, <2>2
<1>3. ASSUME NEW m \in DOMAIN a, NEW n \in DOMAIN a, a[m].batch = a[n].batch, a[m].batch # Nil
      PROVE  m = n
  <2>1. CASE m \in DOMAIN s /\ n \in DOMAIN s
    BY <1>1, <1>3, <2>1 DEF OnlyOnce
  <2>2. CASE m \in DOMAIN s /\ n = Len(s) + 1
    BY <1>1, <1>3, <2>2 DEF Has
  <2>3. CASE n \in DOMAIN s /\ m = Len(s) + 1
    BY <1>1, <1>3, <2>3 DEF Has
  <2>4. QED
    BY <1>1, <2>1, <2>2, <2>3
<1>4. QED
  BY <1>2, <1>3 DEF OnlyOnce

LEMMA LogType ==
    TypeInv => /\ Published \in Table \union {Nil} /\ Log \in Seq(Snapshot) /\ Len(Log) \in Nat
               /\ Published # Nil => Published \in Table /\ Log = Published.snaps
<1> SUFFICES ASSUME TypeInv PROVE /\ Published \in Table \union {Nil}
                                  /\ Log \in Seq(Snapshot) /\ Len(Log) \in Nat
                                  /\ Published # Nil => Published \in Table /\ Log = Published.snaps
  OBVIOUS
<1>1. Pointer \in Files
  BY DEF Files
<1>2. Published \in Table \union {Nil}
  BY <1>1 DEF TypeInv, TypeOK, Contents, Published
<1>3. CASE Published = Nil
  BY <1>2, <1>3 DEF Log, Snaps
<1>4. CASE Published # Nil
  <2>1. Published \in Table /\ Log = Published.snaps
    BY <1>2, <1>4 DEF Log, Snaps
  <2>2. QED
    BY <1>2, <2>1, TableLog
<1>5. QED
  BY <1>3, <1>4

\* No process touches what another one has in hand.
LEMMA OthersStay ==
    ASSUME TypeInv, NEW p \in Procs, Step(p)
    PROVE  \A q \in Procs : q # p => op'[q] = op[q]
<1>1. op \in [Procs -> Operation]
  BY DEF TypeInv, TypeOK
<1>2. CASE (\E b \in Batches : StartCommit(p, b)) \/ StartCompaction(p)
  BY <1>1, <1>2 DEF StartCommit, StartCompaction, Start
<1>3. CASE LoadLocal(p) \/ LoadRest(p) \/ CreateRest(p)
  BY <1>1, <1>3 DEF LoadLocal, LoadRest, CreateRest
<1>4. CASE Deduplicate(p) \/ AppendLocal(p) \/ AppendRest(p) \/ RecordCommit(p) \/ Answer(p)
  BY <1>1, <1>4 DEF Deduplicate, AppendLocal, AppendRest, RecordCommit, Answer
<1>5. CASE Compact(p) \/ CheckBeforeMetadata(p) \/ CheckBeforePointer(p)
  BY <1>1, <1>5 DEF Compact, CheckBeforeMetadata, CheckBeforePointer
<1>6. CASE StageFile(p) \/ PublishFile(p) \/ Interrupt(p)
  BY <1>1, <1>6 DEF StageFile, PublishFile, Interrupt
<1>7. QED
  BY <1>2, <1>3, <1>4, <1>5, <1>6 DEF Step

-------------------------------------------------------------------------------
(* With a REST catalog.                                                    *)

\* What an operation found in the table, or put there, is in it.
RestOperation(o) ==
    /\ o.pc = "loaded" => \A b \in Batches : Has(o.table.snaps, b) => Has(Log, b)
    /\ o.pc \in {"record", "answer"} => Has(Log, o.batch)

\* The service only ever appends to the version it holds.
RestInv ==
    catalog = "rest" =>
        /\ Holds(Log)
        /\ \A p \in Procs : RestOperation(op[p])
        /\ \A b \in acked : Has(Log, b)

LEMMA RestLog ==
    ASSUME TypeInv, catalog = "rest", NEW p \in Procs, Step(p)
    PROVE  /\ catalog' = "rest"
           /\ Log' = Log \/ AppendRest(p)
           /\ AppendRest(p) =>
                /\ op[p].batch \in Batches /\ op[p].id \in Attempts
                /\ Log' = Append(Log, AppendedSnap(Log, op[p].id, op[p].batch))
<1>1. op[p] \in Operation /\ OperationOK(op[p]) /\ (op[p].pc # "idle" => op[p].id \in Attempts)
  BY OperationType
<1>2. rest # Nil => rest \in Table /\ Log = rest.snaps
  BY LogType DEF Published
<1>3. ASSUME AppendRest(p)
      PROVE  /\ catalog' = "rest" /\ op[p].batch \in Batches /\ op[p].id \in Attempts
             /\ Log' = Append(Log, AppendedSnap(Log, op[p].id, op[p].batch))
  <2>1. op[p].pc = "loaded" /\ op[p].batch \in Batches /\ op[p].id \in Attempts /\ rest # Nil
    BY <1>1, <1>3, OperationType DEF AppendRest, At, OperationOK
  <2>2. rest' = Appended(rest, op[p].id, op[p].batch) /\ catalog' = "rest"
    BY <1>3 DEF AppendRest
  <2>3. rest' \in Table /\ rest' # Nil
    BY <1>2, <2>1, <2>2, AppendedType, NilIsNoTable
  <2>4. rest'.snaps = Append(rest.snaps, AppendedSnap(rest.snaps, op[p].id, op[p].batch))
    BY <1>2, <2>1, <2>2, TableLog
  <2>5. QED
    BY <1>2, <1>3, <2>1, <2>2, <2>3, <2>4 DEF Log, Snaps, Published
<1> SUFFICES ASSUME ~AppendRest(p) PROVE catalog' = "rest" /\ Log' = Log
  BY <1>3
<1>4. CASE LoadRest(p) /\ rest # Nil
  <2>1. rest' = WithProps(rest, p, op[p].id) /\ op[p].id \in Attempts /\ catalog' = "rest"
    BY <1>1, <1>4 DEF LoadRest, At
  <2>2. rest' \in Table /\ rest'.snaps = rest.snaps /\ rest' # Nil
    BY <1>2, <1>4, <2>1, WithPropsType, NilIsNoTable
  <2>3. QED
    BY <1>2, <1>4, <2>1, <2>2 DEF Log, Snaps, Published
<1>5. CASE CreateRest(p) /\ rest = Nil
  <2>1. rest' = NewTable(p, op[p].id) /\ op[p].id \in Attempts /\ catalog' = "rest"
    BY <1>1, <1>5 DEF CreateRest, At
  <2>2. rest'.snaps = <<>>
    BY <2>1, NewTableType
  <2>3. QED
    BY <1>5, <2>1, <2>2 DEF Log, Snaps, Published
<1>6. ASSUME UNCHANGED <<catalog, rest>> PROVE Log' = Log /\ catalog' = "rest"
  BY <1>6 DEF Log, Snaps, Published
<1>7. CASE (\E b \in Batches : StartCommit(p, b)) \/ StartCompaction(p)
  BY <1>6, <1>7 DEF StartCommit, StartCompaction, Start
<1>8. CASE LoadLocal(p) \/ (LoadRest(p) /\ rest = Nil) \/ (CreateRest(p) /\ rest # Nil)
  BY <1>6, <1>8 DEF LoadLocal, LoadRest, CreateRest
<1>9. CASE Deduplicate(p) \/ AppendLocal(p) \/ RecordCommit(p) \/ Answer(p)
  BY <1>6, <1>9 DEF Deduplicate, AppendLocal, RecordCommit, Answer
<1>10. CASE Compact(p) \/ CheckBeforeMetadata(p) \/ CheckBeforePointer(p)
  BY <1>6, <1>10 DEF Compact, CheckBeforeMetadata, CheckBeforePointer
<1>11. CASE StageFile(p) \/ PublishFile(p) \/ Interrupt(p)
  BY <1>6, <1>11 DEF StageFile, PublishFile, Interrupt
<1>12. QED
  BY <1>4, <1>5, <1>7, <1>8, <1>9, <1>10, <1>11 DEF Step

LEMMA RestStep == TypeInv /\ RestInv /\ [Next]_vars => RestInv'
<1> SUFFICES ASSUME TypeInv, RestInv, [Next]_vars, catalog' = "rest" PROVE RestInv'
  BY DEF RestInv
<1>1. CASE UNCHANGED vars
  BY <1>1 DEF vars, RestInv, RestOperation, Log, Snaps, Published
<1>2. ASSUME NEW p \in Procs, Step(p) PROVE RestInv'
  <2>1. catalog = "rest"
    BY <1>2 DEF Step, StartCommit, StartCompaction, Start, LoadLocal, LoadRest, CreateRest, Deduplicate,
      AppendLocal, AppendRest, RecordCommit, Answer, Compact, CheckBeforeMetadata, CheckBeforePointer,
      StageFile, PublishFile, Interrupt
  <2>2. /\ Log' = Log \/ AppendRest(p)
        /\ AppendRest(p) => /\ op[p].batch \in Batches /\ op[p].id \in Attempts
                            /\ Log' = Append(Log, AppendedSnap(Log, op[p].id, op[p].batch))
    BY <1>2, <2>1, RestLog
  <2>3. Log \in Seq(Snapshot) /\ op \in [Procs -> Operation] /\ op[p] \in Operation /\ OperationOK(op[p])
    BY LogType, OperationType DEF TypeInv, TypeOK
  <2> DEFINE e == AppendedSnap(Log, op[p].id, op[p].batch)
  <2>4. ASSUME AppendRest(p)
        PROVE  e \in Snapshot /\ e.batch = op[p].batch /\ e.id = op[p].id /\ Log' = Append(Log, e)
    BY <2>2, <2>3, <2>4, SnapTypes DEF AppendedSnap
  <2>5. /\ \A b : Has(Log, b) => Has(Log', b)
        /\ AppendRest(p) => Has(Log', op[p].batch)
    <3>1. CASE AppendRest(p)
      <4> HIDE DEF e
      <4>1. \A b : Has(Append(Log, e), b) <=> Has(Log, b) \/ e.batch = b
        BY <2>3, <2>4, <3>1, LogAppend
      <4>2. QED
        BY <2>4, <3>1, <4>1
    <3>2. QED
      BY <2>2, <3>1
  <2>6. Holds(Log')
    <3>1. CASE AppendRest(p)
      <4>1. Rows(Append(Log, e)) = Rows(Log) \union BatchRows(op[p].batch, op[p].id)
        BY <2>2, <2>3, <3>1, AppendedRows
      <4> HIDE DEF e
      <4>2. Holds(Append(Log, e))
        BY <2>1, <2>3, <2>4, <3>1, <4>1, HoldsAppend DEF RestInv
      <4>3. QED
        BY <2>4, <3>1, <4>2
    <3>2. QED
      BY <2>1, <2>2, <3>1 DEF RestInv
  <2>7. \A q \in Procs : RestOperation(op[q])
    BY <2>1 DEF RestInv
  <2>8. ASSUME NEW q \in Procs, q # p PROVE RestOperation(op[q])'
    BY <1>2, <2>5, <2>7, <2>8, OthersStay DEF RestOperation
  <2>9. RestOperation(op[p])'
    <3>1. CASE (\E b \in Batches : StartCommit(p, b)) \/ StartCompaction(p)
      <4>1. PICK b : Start(p, b)
        BY <3>1 DEF StartCommit, StartCompaction
      <4>2. op'[p].pc = "load"
        BY <2>3, <4>1 DEF Start, Idle
      <4>3. QED
        BY <4>2 DEF RestOperation
    <3>2. CASE LoadRest(p) \/ CreateRest(p)
      <4>1. \/ op'[p].pc = "create" \/ op'[p] = Idle
            \/ op'[p].pc = "loaded" /\ op'[p].table = rest' /\ rest' # Nil
        <5>1. CASE LoadRest(p)
          <6>1. CASE rest = Nil
            BY <2>3, <5>1, <6>1 DEF LoadRest, Operation
          <6>2. CASE rest # Nil
            <7>1. rest' = WithProps(rest, p, op[p].id) /\ op[p].id \in Attempts /\ rest \in Table
              BY <5>1, <6>2, OperationType DEF LoadRest, At
            <7>2. rest' # Nil
              BY <7>1, WithPropsType, NilIsNoTable
            <7>3. op'[p] = [op[p] EXCEPT !.pc = "loaded", !.table = rest', !.base = rest']
              BY <2>3, <5>1, <6>2 DEF LoadRest
            <7>4. QED
              BY <2>3, <7>2, <7>3 DEF Operation
          <6>3. QED
            BY <6>1, <6>2
        <5>2. CASE CreateRest(p)
          <6>1. CASE rest # Nil
            BY <2>3, <5>2, <6>1 DEF CreateRest
          <6>2. CASE rest = Nil
            <7>1. rest' = NewTable(p, op[p].id) /\ op[p].id \in Attempts
              BY <5>2, <6>2, OperationType DEF CreateRest, At
            <7>2. rest' # Nil
              BY <7>1, NewTableType, NilIsNoTable
            <7>3. op'[p] = [op[p] EXCEPT !.pc = "loaded", !.table = rest', !.base = rest']
              BY <2>3, <5>2, <6>2 DEF CreateRest
            <7>4. QED
              BY <2>3, <7>2, <7>3 DEF Operation
          <6>3. QED
            BY <6>1, <6>2
        <5>3. QED
          BY <3>2, <5>1, <5>2
      <4>2. QED
        BY <4>1 DEF RestOperation, Idle, Log, Snaps, Published
    <3>3. CASE AppendRest(p)
      <4>1. op'[p].pc = "record" /\ op'[p].batch = op[p].batch
        BY <2>3, <3>3 DEF AppendRest, Operation
      <4>2. QED
        BY <2>5, <3>3, <4>1 DEF RestOperation
    <3>4. CASE RecordCommit(p) \/ StageFile(p) \/ PublishFile(p)
      <4>1. \/ op'[p] = Idle
            \/ /\ op'[p].batch = op[p].batch /\ op'[p].table = op[p].table
               /\ \/ op'[p].pc = op[p].pc
                  \/ op[p].pc = "record" /\ op'[p].pc = "answer"
        <5>1. CASE RecordCommit(p)
          BY <2>3, <5>1 DEF RecordCommit, Operation, At
        <5>2. CASE StageFile(p)
          BY <2>3, <5>2 DEF StageFile, Operation
        <5>3. CASE PublishFile(p)
          BY <2>3, <5>3 DEF PublishFile, Operation
        <5>4. QED
          BY <3>4, <5>1, <5>2, <5>3
      <4>2. QED
        BY <2>5, <2>7, <4>1 DEF RestOperation, Idle
    <3>5. CASE Deduplicate(p) \/ Answer(p) \/ Interrupt(p)
      <4>1. op'[p] = Idle
        BY <2>3, <3>5 DEF Deduplicate, Answer, Interrupt
      <4>2. QED
        BY <4>1 DEF RestOperation, Idle
    <3>6. CASE LoadLocal(p) \/ AppendLocal(p)
      BY <2>1, <3>6 DEF LoadLocal, AppendLocal
    <3>7. CASE Compact(p) \/ CheckBeforeMetadata(p) \/ CheckBeforePointer(p)
      <4>1. op[p].batch = Nil /\ op[p].pc # "idle"
        BY <2>3, <3>7 DEF Compact, CheckBeforeMetadata, CheckBeforePointer, At, OperationOK
      <4>2. QED
        BY <2>1, <2>3, <4>1 DEF OperationOK
    <3>8. QED
      BY <1>2, <3>1, <3>2, <3>3, <3>4, <3>5, <3>6, <3>7 DEF Step
  <2>10. \A b \in acked' : Has(Log, b)
    <3>1. CASE acked' = acked
      BY <2>1, <3>1 DEF RestInv
    <3>2. CASE Deduplicate(p)
      <4>1. op[p].table \in Table /\ HasBatch(op[p].table, op[p].batch) /\ op[p].batch \in Batches
            /\ op[p].pc = "loaded" /\ acked' = acked \union {op[p].batch}
        BY <2>3, <3>2, OperationType DEF Deduplicate, At, OperationOK
      <4>2. Has(Log, op[p].batch)
        BY <2>7, <4>1, TableLog DEF RestOperation
      <4>3. QED
        BY <2>1, <4>1, <4>2 DEF RestInv
    <3>3. CASE Answer(p)
      <4>1. op[p].pc = "answer" /\ acked' \subseteq acked \union {op[p].batch}
        BY <3>3 DEF Answer, At
      <4>2. QED
        BY <2>1, <2>7, <4>1 DEF RestInv, RestOperation
    <3>4. acked' = acked \/ Deduplicate(p) \/ Answer(p)
      BY <1>2 DEF Step, StartCommit, StartCompaction, Start, LoadLocal, LoadRest, CreateRest,
        AppendLocal, AppendRest, RecordCommit, Compact, CheckBeforeMetadata, CheckBeforePointer,
        StageFile, PublishFile, Interrupt
    <3>5. QED
      BY <3>1, <3>2, <3>3, <3>4
  <2>11. QED
    BY <2>5, <2>6, <2>8, <2>9, <2>10 DEF RestInv
<1>3. QED
  BY <1>1, <1>2 DEF Next

\* What the one operation under way has in hand, when it loaded the table
\* with the snapshots s.
PointerJob(o) == /\ Len(o.jobs) = 1
                 /\ o.jobs[1].file = Pointer /\ o.jobs[1].content = o.table
                 /\ catalog = "local"

LastIs(s, o) == s # <<>> /\ s[Len(s)].batch = o.batch /\ s[Len(s)].id = o.id

Appending(s, o) == /\ PointerJob(o) /\ Len(s) < ops /\ ~Has(s, o.batch)
                   /\ o.table.snaps = Append(s, AppendedSnap(s, o.id, o.batch))

RecordJob(s, o) == /\ Len(o.jobs) = 2
                   /\ o.jobs[1].file = Record(Len(s))
                   /\ o.jobs[1].content.batch = o.batch /\ o.jobs[1].content.id = o.id
                   /\ o.jobs[2].file = Current /\ ~o.jobs[2].staged

CurrentJob(o) == Len(o.jobs) = 1 /\ o.jobs[1].file = Current

Shape(s, o) ==
    /\ o.pc \in {"load", "create"} => o.jobs = <<>> /\ Len(s) < ops
    /\ o.pc = "loaded" => /\ o.table.snaps = s /\ Len(s) < ops
                          /\ o.jobs = <<>> \/ PointerJob(o)
    /\ o.pc = "record" => Appending(s, o) \/ (o.jobs = <<>> /\ o.table.snaps = s /\ LastIs(s, o))
    /\ o.pc \in {"check", "recheck"} => /\ o.jobs = <<>> /\ catalog = "local" /\ Len(s) < ops
                                        /\ o.table.snaps = Append(s, CompactedSnap(s, o.id))
    /\ o.pc = "answer" /\ o.batch = Nil =>
        \/ o.jobs = <<>>
        \/ PointerJob(o) /\ Len(s) < ops /\ o.table.snaps = Append(s, CompactedSnap(s, o.id))
    /\ o.pc = "answer" /\ o.batch # Nil =>
        LastIs(s, o) /\ (o.jobs = <<>> \/ CurrentJob(o) \/ RecordJob(s, o))

\* The temporary of a file that was staged holds what will be published.
StagedOK(o) == o.jobs # <<>> /\ o.jobs[1].staged => tmp[o.jobs[1].file] = o.jobs[1].content

\* The record of the last snapshot is still to be written.
PendingRecord(o) == \/ o.pc = "record" /\ o.jobs = <<>>
                    \/ o.pc = "answer" /\ Len(o.jobs) = 2
Unrecorded == \E p \in Procs : PendingRecord(op[p])

Recorded(s, n) == /\ n \in DOMAIN s
                  /\ disk[Record(n)].batch = s[n].batch /\ disk[Record(n)].id = s[n].id

Alone == \A p, q \in Procs : op[p].pc # "idle" /\ op[q].pc # "idle" => p = q

Contained ==
    /\ Alone
    /\ Holds(Log) /\ OnlyOnce(Log) /\ Len(Log) <= ops
    /\ \A p \in Procs : Shape(Log, op[p]) /\ StagedOK(op[p])

Recording ==
    /\ \A n \in 1..MaxOps : disk[Record(n)] # Nil => Recorded(Log, n)
    /\ faults = 0 => \A n \in DOMAIN Log : Log[n].batch # Nil =>
            disk[Record(n)] # Nil \/ (n = Len(Log) /\ Unrecorded)
    /\ \A b \in acked : \E n \in DOMAIN Log : Log[n].batch = b /\ (faults = 0 => disk[Record(n)] # Nil)

SoloInv == ~overlapped => Contained /\ Recording

LEMMA InitSolo == Init => SoloInv
<1> SUFFICES ASSUME Init PROVE Contained /\ Recording
  BY DEF SoloInv
<1>1. Log = <<>> /\ DOMAIN Log = {}
  <2>1. Published = Nil
    BY DEF Init, Published, Files
  <2>2. QED
    BY <2>1 DEF Log, Snaps
<1>2. Holds(Log) /\ OnlyOnce(Log)
  BY <1>1 DEF Holds, OnlyOnce, Rows, LastFiles
<1>3. Len(Log) <= ops
  BY <1>1 DEF Init
<1>4. \A p \in Procs : op[p].pc = "idle" /\ op[p].jobs = <<>>
  BY DEF Init, Idle
<1>5. Alone /\ \A p \in Procs : Shape(Log, op[p]) /\ StagedOK(op[p])
  BY <1>4 DEF Alone, Shape, StagedOK
<1>6. \A n \in 1..MaxOps : disk[Record(n)] = Nil
  BY DEF Init, Files
<1>7. Recording
  BY <1>1, <1>6 DEF Recording, Init
<1>8. QED
  BY <1>2, <1>3, <1>5, <1>7 DEF Contained

\* While no two operations ran beside each other, all other processes are idle.
LEMMA OthersIdle ==
    ASSUME TypeInv, SoloInv, ~overlapped', NEW p \in Procs, Step(p)
    PROVE  /\ ~overlapped /\ Contained /\ Recording /\ Alone'
           /\ \A q \in Procs : q # p => op[q].pc = "idle" /\ op[q].jobs = <<>> /\ op'[q] = op[q]
<1>1. \A q \in Procs : q # p => op'[q] = op[q]
  BY OthersStay
<1>2. \A q \in Procs : op[q].pc = "idle" => op[q].jobs = <<>>
  BY DEF TypeInv, OperationsOK, OperationOK
<1>3. ~overlapped /\ (op[p].pc # "idle" \/ \A q \in Procs : op[q].pc = "idle")
  <2>1. CASE (\E b \in Batches : StartCommit(p, b)) \/ StartCompaction(p)
    BY <2>1 DEF StartCommit, StartCompaction, Start
  <2>2. CASE LoadLocal(p) \/ LoadRest(p) \/ CreateRest(p)
    BY <2>2 DEF LoadLocal, LoadRest, CreateRest, At
  <2>3. CASE Deduplicate(p) \/ AppendLocal(p) \/ AppendRest(p) \/ RecordCommit(p) \/ Answer(p)
    BY <2>3 DEF Deduplicate, AppendLocal, AppendRest, RecordCommit, Answer, At
  <2>4. CASE Compact(p) \/ CheckBeforeMetadata(p) \/ CheckBeforePointer(p)
    BY <2>4 DEF Compact, CheckBeforeMetadata, CheckBeforePointer, At
  <2>5. CASE StageFile(p) \/ PublishFile(p) \/ Interrupt(p)
    BY <1>2, <2>5 DEF StageFile, PublishFile, Interrupt
  <2>6. QED
    BY <2>1, <2>2, <2>3, <2>4, <2>5 DEF Step
<1>4. Contained /\ Recording
  BY <1>3 DEF SoloInv
<1>5. \A q \in Procs : q # p => op[q].pc = "idle"
  BY <1>3, <1>4 DEF Contained, Alone
<1>6. Alone'
  BY <1>1, <1>5 DEF Alone
<1>7. QED
  BY <1>1, <1>2, <1>3, <1>4, <1>5, <1>6

LEMMA ContainedStep ==
    ASSUME TypeInv, SoloInv, ~overlapped', NEW p \in Procs, Step(p),
           (Holds(Log) /\ OnlyOnce(Log) /\ Len(Log) <= ops)',
           (Shape(Log, op[p]) /\ StagedOK(op[p]))'
    PROVE  Contained'
<1>1. Alone' /\ \A q \in Procs : q # p => op'[q].pc = "idle" /\ op'[q].jobs = <<>>
  BY OthersIdle
<1>2. ASSUME NEW q \in Procs, q # p PROVE (Shape(Log, op[q]) /\ StagedOK(op[q]))'
  BY <1>1, <1>2 DEF Shape, StagedOK
<1>3. QED
  BY <1>1, <1>2 DEF Contained

\* A step that leaves the table, the records and the answers alone.
LEMMA RecordingStep ==
    ASSUME TypeInv, SoloInv, ~overlapped', NEW p \in Procs, Step(p), Log' = Log,
           \A n \in 1..MaxOps : disk'[Record(n)] = disk[Record(n)],
           acked' = acked, faults' = 0 => faults = 0,
           faults' = 0 /\ PendingRecord(op[p]) => PendingRecord(op[p])'
    PROVE  Recording'
<1>1. Recording /\ Contained /\ \A q \in Procs : q # p => ~PendingRecord(op[q])
  BY OthersIdle DEF PendingRecord
<1>2. faults' = 0 /\ Unrecorded => Unrecorded'
  BY <1>1 DEF Unrecorded
<1>3. DOMAIN Log \subseteq 1..MaxOps
  <2>1. ops \in 0..MaxOps /\ Len(Log) \in Nat /\ Log \in Seq(Snapshot) /\ Len(Log) <= ops
    BY <1>1, LogType DEF TypeInv, TypeOK, Contained
  <2>2. QED
    BY <2>1, BoundsAssumption
<1>4. (\A n \in 1..MaxOps : disk[Record(n)] # Nil => Recorded(Log, n))'
  BY <1>1 DEF Recording, Recorded
<1>5. (faults = 0 => \A n \in DOMAIN Log : Log[n].batch # Nil =>
            disk[Record(n)] # Nil \/ (n = Len(Log) /\ Unrecorded))'
  BY <1>1, <1>2, <1>3 DEF Recording
<1>6. (\A b \in acked : \E n \in DOMAIN Log : Log[n].batch = b /\ (faults = 0 => disk[Record(n)] # Nil))'
  BY <1>1, <1>3 DEF Recording
<1>7. QED
  BY <1>4, <1>5, <1>6 DEF Recording

LEMMA LogKept == UNCHANGED <<catalog, rest>> /\ disk'[Pointer] = disk[Pointer] => Log' = Log
BY DEF Log, Snaps, Published

\* A step that only moves its operation on.
LEMMA SoloQuiet ==
    ASSUME TypeInv, SoloInv, ~overlapped', NEW p \in Procs, Step(p), Log' = Log,
           \A n \in 1..MaxOps : disk'[Record(n)] = disk[Record(n)],
           acked' = acked, faults' = 0 => faults = 0, ops' = ops,
           faults' = 0 /\ PendingRecord(op[p]) => PendingRecord(op[p])',
           (Shape(Log, op[p]) /\ StagedOK(op[p]))'
    PROVE  Contained' /\ Recording'
<1>1. (Holds(Log) /\ OnlyOnce(Log) /\ Len(Log) <= ops)'
  BY OthersIdle DEF Contained
<1>2. QED
  BY <1>1, ContainedStep, RecordingStep

LEMMA SoloStart ==
    ASSUME TypeInv, SoloInv, ~overlapped', NEW p \in Procs, NEW b, Start(p, b), Step(p)
    PROVE  Contained' /\ Recording'
<1>1. Log' = Log
  BY LogKept DEF Start
<1>2. ops \in Nat /\ ops' = ops + 1 /\ Len(Log) \in Nat /\ op \in [Procs -> Operation]
  BY LogType, OperationType DEF Start, TypeInv, TypeOK
<1>3. Holds(Log) /\ OnlyOnce(Log) /\ Len(Log) <= ops
  BY OthersIdle DEF Contained
<1>4. op'[p].pc = "load" /\ op'[p].jobs = <<>> /\ op[p].pc = "idle"
  BY <1>2 DEF Start, Idle, At
<1>5. (Shape(Log, op[p]) /\ StagedOK(op[p]))'
  BY <1>1, <1>2, <1>3, <1>4 DEF Shape, StagedOK
<1>6. Contained'
  BY <1>1, <1>2, <1>3, <1>5, ContainedStep
<1>7. Recording'
  BY <1>1, <1>4, RecordingStep DEF Start, PendingRecord
<1>8. QED
  BY <1>6, <1>7

LEMMA SoloEnd ==
    ASSUME TypeInv, SoloInv, ~overlapped', NEW p \in Procs, Step(p), Log' = Log, op'[p] = Idle,
           UNCHANGED <<disk, ops, acked>>,
           faults' = 0 => faults = 0 /\ ~PendingRecord(op[p])
    PROVE  Contained' /\ Recording'
<1>1. (Shape(Log, op[p]) /\ StagedOK(op[p]))'
  BY DEF Shape, StagedOK, Idle
<1>2. QED
  BY <1>1, SoloQuiet

LEMMA SoloLoadLocal ==
    ASSUME TypeInv, SoloInv, ~overlapped', NEW p \in Procs, Step(p), LoadLocal(p)
    PROVE  Contained' /\ Recording'
<1> DEFINE t == IF disk[Pointer] = Nil THEN NewTable(p, op[p].id)
                ELSE WithProps(disk[Pointer], p, op[p].id)
           js == IF t = disk[Pointer] THEN <<>> ELSE <<Job(Pointer, t)>>
           o == [op[p] EXCEPT !.pc = "loaded", !.table = t, !.base = t, !.jobs = js]
<1>1. Log' = Log
  BY LogKept DEF LoadLocal
<1>2. op[p] \in Operation /\ op[p].id \in Attempts /\ op[p].pc = "load" /\ op \in [Procs -> Operation]
  BY OperationType DEF LoadLocal, At, TypeInv, TypeOK
<1>3. t.snaps = Log
  BY <1>2, OperationType, NewTableType, WithPropsType DEF LoadLocal, Log, Snaps, Published
<1>4. Len(Log) < ops
  BY <1>2, OthersIdle DEF Contained, Shape
<1>5. op'[p] = o
  BY <1>2 DEF LoadLocal
<1>6. o.pc = "loaded" /\ o.table = t /\ o.jobs = js
  BY <1>2 DEF Operation
<1>7. js = <<>> \/ (Len(js) = 1 /\ js[1].file = Pointer /\ js[1].content = t /\ ~js[1].staged)
  BY DEF Job
<1> HIDE DEF o, js, t
<1>8. (Shape(Log, op[p]) /\ StagedOK(op[p]))'
  BY <1>1, <1>3, <1>4, <1>5, <1>6, <1>7 DEF Shape, StagedOK, PointerJob, LoadLocal
<1>9. QED
  BY <1>1, <1>2, <1>8, SoloQuiet DEF LoadLocal, PendingRecord

LEMMA SoloLoadRest ==
    ASSUME TypeInv, SoloInv, ~overlapped', NEW p \in Procs, Step(p), LoadRest(p) \/ CreateRest(p)
    PROVE  Contained' /\ Recording'
<1>1. /\ op[p] \in Operation /\ op[p].id \in Attempts /\ op[p].pc \in {"load", "create"} /\ catalog = "rest"
      /\ op[p].jobs = <<>> /\ op \in [Procs -> Operation] /\ OperationOK(op[p])
      /\ UNCHANGED <<catalog, disk, tmp, ops, faults, acked, overlapped>>
  <2>1. CASE LoadRest(p)
    BY <2>1, OperationType DEF LoadRest, At, TypeInv, TypeOK
  <2>2. CASE CreateRest(p)
    <3>1. op[p].pc = "create" /\ op[p].jobs = <<>> /\ UNCHANGED <<catalog, disk, tmp, ops, faults, acked, overlapped>>
      BY <2>2 DEF CreateRest, At
    <3>2. catalog = "rest"
      BY <3>1, OperationType DEF OperationOK
    <3>3. QED
      BY <3>1, <3>2, OperationType DEF TypeInv, TypeOK
  <2>3. QED
    BY <2>1, <2>2
<1>2. Log' = Log
  BY <1>1, RestLog DEF AppendRest, At
<1>3. Len(Log) < ops
  BY <1>1, OthersIdle DEF Contained, Shape
<1>4. \/ op'[p] = Idle \/ op'[p] = [op[p] EXCEPT !.pc = "create"]
      \/ op'[p] = [op[p] EXCEPT !.pc = "loaded", !.table = rest', !.base = rest'] /\ rest' # Nil
  <2>1. CASE LoadRest(p)
    <3>1. rest # Nil => WithProps(rest, p, op[p].id) # Nil
      BY <1>1, OperationType, WithPropsType, NilIsNoTable
    <3>2. QED
      BY <1>1, <2>1, <3>1 DEF LoadRest
  <2>2. CASE CreateRest(p)
    <3>1. NewTable(p, op[p].id) # Nil
      BY <1>1, NewTableType, NilIsNoTable
    <3>2. QED
      BY <1>1, <2>2, <3>1 DEF CreateRest
  <2>3. QED
    BY <2>1, <2>2
<1>5. ~PendingRecord(op[p])
  BY <1>1 DEF PendingRecord
<1>6. CASE op'[p] = Idle
  BY <1>1, <1>2, <1>5, <1>6, SoloEnd
<1>7. CASE op'[p] = [op[p] EXCEPT !.pc = "create"]
  <2>1. op'[p].pc = "create" /\ op'[p].jobs = <<>>
    BY <1>1, <1>7 DEF Operation
  <2>2. (Shape(Log, op[p]) /\ StagedOK(op[p]))'
    BY <1>1, <1>2, <1>3, <2>1 DEF Shape, StagedOK
  <2>3. QED
    BY <1>1, <1>2, <1>5, <2>2, SoloQuiet
<1>8. CASE op'[p] = [op[p] EXCEPT !.pc = "loaded", !.table = rest', !.base = rest'] /\ rest' # Nil
  <2>1. op'[p].pc = "loaded" /\ op'[p].jobs = <<>> /\ op'[p].table = rest'
    BY <1>1, <1>8 DEF Operation
  <2>2. Log' = rest'.snaps
    BY <1>1, <1>8 DEF Log, Snaps, Published
  <2>3. (Shape(Log, op[p]) /\ StagedOK(op[p]))'
    BY <1>1, <1>2, <1>3, <2>1, <2>2 DEF Shape, StagedOK
  <2>4. QED
    BY <1>1, <1>2, <1>5, <2>3, SoloQuiet
<1>9. QED
  BY <1>4, <1>6, <1>7, <1>8

LEMMA SoloDeduplicate ==
    ASSUME TypeInv, SoloInv, ~overlapped', NEW p \in Procs, Step(p), Deduplicate(p)
    PROVE  Contained' /\ Recording'
<1>1. /\ op[p].pc = "loaded" /\ op[p].jobs = <<>> /\ op[p].batch # Nil /\ op[p].table \in Table
      /\ HasBatch(op[p].table, op[p].batch) /\ acked' = acked \union {op[p].batch}
      /\ UNCHANGED <<catalog, rest, disk, tmp, ops, faults>>
  BY OperationType DEF Deduplicate, At, OperationOK
<1>2. Log' = Log /\ op'[p] = Idle
  BY <1>1, LogKept DEF Deduplicate, TypeInv, TypeOK
<1>3. Contained /\ Recording
  BY OthersIdle
<1>4. op[p].table.snaps = Log
  BY <1>1, <1>3 DEF Contained, Shape
<1>5. PICK n \in DOMAIN Log : Log[n].batch = op[p].batch
  BY <1>1, <1>4 DEF HasBatch
<1>6. ~Unrecorded
  BY <1>1, OthersIdle DEF Unrecorded, PendingRecord
<1>7. faults = 0 => disk[Record(n)] # Nil
  BY <1>1, <1>3, <1>5, <1>6 DEF Recording
<1>8. Contained'
  <2>1. (Shape(Log, op[p]) /\ StagedOK(op[p]))'
    BY <1>2 DEF Shape, StagedOK, Idle
  <2>2. QED
    BY <1>1, <1>2, <1>3, <2>1, ContainedStep DEF Contained
<1>9. Recording'
  BY <1>1, <1>2, <1>3, <1>5, <1>6, <1>7 DEF Recording, Recorded
<1>10. QED
  BY <1>8, <1>9

LEMMA SoloAnswer ==
    ASSUME TypeInv, SoloInv, ~overlapped', NEW p \in Procs, Step(p), Answer(p)
    PROVE  Contained' /\ Recording'
<1>1. /\ op[p].pc = "answer" /\ op[p].jobs = <<>>
      /\ acked' = IF op[p].batch = Nil THEN acked ELSE acked \union {op[p].batch}
      /\ UNCHANGED <<catalog, rest, disk, tmp, ops, faults>>
  BY DEF Answer, At
<1>2. Log' = Log /\ op'[p] = Idle
  BY <1>1, LogKept DEF Answer, TypeInv, TypeOK
<1>3. Contained /\ Recording
  BY OthersIdle
<1>4. ~PendingRecord(op[p]) /\ ~Unrecorded
  BY <1>1, OthersIdle DEF Unrecorded, PendingRecord
<1>5. CASE op[p].batch = Nil
  BY <1>1, <1>2, <1>4, <1>5, SoloEnd
<1>6. CASE op[p].batch # Nil
  <2>1. Log # <<>> /\ Log[Len(Log)].batch = op[p].batch
    BY <1>1, <1>3, <1>6 DEF Contained, Shape, LastIs
  <2>2. Len(Log) \in DOMAIN Log
    BY <2>1, LogType
  <2>3. faults = 0 => disk[Record(Len(Log))] # Nil
    BY <1>3, <1>4, <1>6, <2>1, <2>2 DEF Recording
  <2>4. Contained'
    <3>1. (Shape(Log, op[p]) /\ StagedOK(op[p]))'
      BY <1>2 DEF Shape, StagedOK, Idle
    <3>2. QED
      BY <1>1, <1>2, <1>3, <3>1, ContainedStep DEF Contained
  <2>5. Recording'
    BY <1>1, <1>2, <1>3, <1>4, <1>6, <2>1, <2>2, <2>3 DEF Recording, Recorded
  <2>6. QED
    BY <2>4, <2>5
<1>7. QED
  BY <1>5, <1>6

LEMMA SoloAppendLocal ==
    ASSUME TypeInv, SoloInv, ~overlapped', NEW p \in Procs, Step(p), AppendLocal(p)
    PROVE  Contained' /\ Recording'
<1> DEFINE t == Appended(op[p].table, op[p].id, op[p].batch)
           js == <<Job(Pointer, t)>>
           o == [op[p] EXCEPT !.pc = "record", !.table = t, !.jobs = js]
<1>1. /\ op[p].pc = "loaded" /\ op[p].jobs = <<>> /\ op[p].batch \in Batches /\ op[p].table \in Table
      /\ ~HasBatch(op[p].table, op[p].batch) /\ op[p].id \in Attempts /\ op[p] \in Operation
      /\ catalog = "local" /\ UNCHANGED <<catalog, rest, disk, tmp, ops, faults, acked>>
      /\ op \in [Procs -> Operation]
  BY OperationType DEF AppendLocal, At, OperationOK, TypeInv, TypeOK
<1>2. Log' = Log /\ op'[p] = o
  BY <1>1, LogKept DEF AppendLocal
<1>3. Contained
  BY OthersIdle
<1>4. op[p].table.snaps = Log /\ Len(Log) < ops
  BY <1>1, <1>3 DEF Contained, Shape
<1>5. t.snaps = Append(Log, AppendedSnap(Log, op[p].id, op[p].batch)) /\ ~Has(Log, op[p].batch)
  BY <1>1, <1>4, TableLog
<1>6. o.pc = "record" /\ o.table = t /\ o.jobs = js /\ o.id = op[p].id /\ o.batch = op[p].batch
  BY <1>1 DEF Operation
<1>7. Len(js) = 1 /\ js[1].file = Pointer /\ js[1].content = t /\ ~js[1].staged
  BY DEF Job
<1>8. ~PendingRecord(op[p])
  BY <1>1 DEF PendingRecord
<1> HIDE DEF o, js, t
<1>9. (Shape(Log, op[p]) /\ StagedOK(op[p]))'
  BY <1>1, <1>2, <1>4, <1>5, <1>6, <1>7 DEF Shape, StagedOK, PointerJob, Appending
<1>10. QED
  BY <1>1, <1>2, <1>8, <1>9, SoloQuiet

LEMMA SoloRecordCommit ==
    ASSUME TypeInv, SoloInv, ~overlapped', NEW p \in Procs, Step(p), RecordCommit(p)
    PROVE  Contained' /\ Recording'
<1> DEFINE commit == [id |-> op[p].id, batch |-> op[p].batch, files |-> DataFiles(op[p].batch, op[p].id)]
           js == <<Job(Record(Len(op[p].table.snaps)), commit), Job(Current, commit)>>
           o == [op[p] EXCEPT !.pc = "answer", !.jobs = js]
<1>1. /\ op[p].pc = "record" /\ op[p].jobs = <<>> /\ op[p].batch # Nil /\ op[p] \in Operation
      /\ op \in [Procs -> Operation] /\ UNCHANGED <<catalog, rest, disk, tmp, ops, faults, acked>>
  BY OperationType DEF RecordCommit, At, OperationOK, TypeInv, TypeOK
<1>2. Log' = Log /\ op'[p] = o
  BY <1>1, LogKept DEF RecordCommit
<1>3. Contained
  BY OthersIdle
<1>4. op[p].table.snaps = Log /\ LastIs(Log, op[p])
  <2>1. ~PointerJob(op[p])
    BY <1>1 DEF PointerJob
  <2>2. QED
    BY <1>1, <1>3, <2>1 DEF Contained, Shape, Appending
<1>5. o.pc = "answer" /\ o.jobs = js /\ o.id = op[p].id /\ o.batch = op[p].batch
  BY <1>1 DEF Operation
<1>6. /\ Len(js) = 2 /\ js[1].file = Record(Len(Log)) /\ js[1].content.batch = op[p].batch
      /\ js[1].content.id = op[p].id /\ js[2].file = Current /\ ~js[1].staged /\ ~js[2].staged
  BY <1>4 DEF Job
<1> HIDE DEF o, js
<1>7. (Shape(Log, op[p]) /\ StagedOK(op[p]))'
  BY <1>1, <1>2, <1>4, <1>5, <1>6 DEF Shape, StagedOK, RecordJob, LastIs
<1>8. PendingRecord(op[p])'
  BY <1>2, <1>5, <1>6 DEF PendingRecord
<1>9. QED
  BY <1>1, <1>2, <1>7, <1>8, SoloQuiet

LEMMA SoloCompact ==
    ASSUME TypeInv, SoloInv, ~overlapped', NEW p \in Procs, Step(p), Compact(p)
    PROVE  Contained' /\ Recording'
<1> DEFINE t == Compacted(op[p].table, op[p].id)
           o == [op[p] EXCEPT !.pc = "check", !.table = t]
<1>1. /\ op[p].pc = "loaded" /\ op[p].jobs = <<>> /\ op[p].batch = Nil /\ op[p].table \in Table
      /\ op[p].id \in Attempts /\ op[p] \in Operation /\ op \in [Procs -> Operation]
      /\ UNCHANGED <<catalog, rest, disk, tmp, ops, faults, acked>> /\ catalog = "local"
  BY OperationType DEF Compact, At, OperationOK, TypeInv, TypeOK
<1>2. Log' = Log /\ ~PendingRecord(op[p])
  BY <1>1, LogKept DEF PendingRecord
<1>3. Contained
  BY OthersIdle
<1>4. op[p].table.snaps = Log /\ Len(Log) < ops
  BY <1>1, <1>3 DEF Contained, Shape
<1>5. t.snaps = Append(Log, CompactedSnap(Log, op[p].id))
  BY <1>1, <1>4, TableLog
<1>6. op'[p] = Idle \/ op'[p] = o
  BY <1>1 DEF Compact
<1>7. CASE op'[p] = Idle
  BY <1>1, <1>2, <1>7, SoloEnd
<1>8. CASE op'[p] = o
  <2>1. o.pc = "check" /\ o.table = t /\ o.jobs = <<>> /\ o.id = op[p].id
    BY <1>1 DEF Operation
  <2> HIDE DEF o, t
  <2>2. (Shape(Log, op[p]) /\ StagedOK(op[p]))'
    BY <1>1, <1>2, <1>4, <1>5, <1>8, <2>1 DEF Shape, StagedOK
  <2>3. QED
    BY <1>1, <1>2, <2>2, SoloQuiet
<1>9. QED
  BY <1>6, <1>7, <1>8

LEMMA SoloCheck ==
    ASSUME TypeInv, SoloInv, ~overlapped', NEW p \in Procs, Step(p),
           CheckBeforeMetadata(p) \/ CheckBeforePointer(p)
    PROVE  Contained' /\ Recording'
<1> DEFINE js == <<Job(Pointer, op[p].table)>>
           o1 == [op[p] EXCEPT !.pc = "recheck"]
           o2 == [op[p] EXCEPT !.pc = "answer", !.jobs = js]
<1>1. /\ op[p].pc \in {"check", "recheck"} /\ op[p].jobs = <<>> /\ op[p].batch = Nil
      /\ op[p] \in Operation /\ op \in [Procs -> Operation]
      /\ UNCHANGED <<catalog, rest, disk, tmp, ops, faults, acked>>
  BY OperationType DEF CheckBeforeMetadata, CheckBeforePointer, At, OperationOK, TypeInv, TypeOK
<1>2. Log' = Log /\ ~PendingRecord(op[p])
  BY <1>1, LogKept DEF PendingRecord
<1>3. Contained
  BY OthersIdle
<1>4. /\ catalog = "local" /\ Len(Log) < ops
      /\ op[p].table.snaps = Append(Log, CompactedSnap(Log, op[p].id))
  BY <1>1, <1>3 DEF Contained, Shape
<1>5. op'[p] = Idle \/ op'[p] = o1 \/ op'[p] = o2
  BY <1>1 DEF CheckBeforeMetadata, CheckBeforePointer
<1>6. CASE op'[p] = Idle
  BY <1>1, <1>2, <1>6, SoloEnd
<1>7. CASE op'[p] = o1
  <2>1. o1.pc = "recheck" /\ o1.table = op[p].table /\ o1.jobs = <<>> /\ o1.id = op[p].id
    BY <1>1 DEF Operation
  <2> HIDE DEF o1
  <2>2. (Shape(Log, op[p]) /\ StagedOK(op[p]))'
    BY <1>1, <1>2, <1>4, <1>7, <2>1 DEF Shape, StagedOK
  <2>3. QED
    BY <1>1, <1>2, <2>2, SoloQuiet
<1>8. CASE op'[p] = o2
  <2>1. o2.pc = "answer" /\ o2.table = op[p].table /\ o2.jobs = js /\ o2.id = op[p].id /\ o2.batch = Nil
    BY <1>1 DEF Operation
  <2>2. Len(js) = 1 /\ js[1].file = Pointer /\ js[1].content = op[p].table /\ ~js[1].staged
    BY DEF Job
  <2> HIDE DEF o2, js
  <2>3. (Shape(Log, op[p]) /\ StagedOK(op[p]))'
    BY <1>1, <1>2, <1>4, <1>8, <2>1, <2>2 DEF Shape, StagedOK, PointerJob
  <2>4. QED
    BY <1>1, <1>2, <2>3, SoloQuiet
<1>9. QED
  BY <1>5, <1>6, <1>7, <1>8

LEMMA SoloInterrupt ==
    ASSUME TypeInv, SoloInv, ~overlapped', NEW p \in Procs, Step(p), Interrupt(p)
    PROVE  Contained' /\ Recording'
<1>1. /\ op'[p] = Idle /\ UNCHANGED <<catalog, rest, disk, tmp, ops, acked>>
      /\ faults' = faults + 1 /\ faults \in 0..MaxFaults
  BY DEF Interrupt, TypeInv, TypeOK
<1>2. faults' # 0
  BY <1>1, BoundsAssumption
<1>3. Log' = Log
  BY <1>1, LogKept
<1>4. QED
  BY <1>1, <1>2, <1>3, SoloEnd

\* What the operation under way may still have to write.
LEMMA SoloJobs ==
    ASSUME TypeInv, Contained, NEW p \in Procs, op[p].jobs # <<>>
    PROVE  /\ op[p].jobs[1].file \in Files
           /\ Len(Log) \in Nat /\ Len(Log) <= MaxOps
           /\ \/ op[p].pc = "loaded" /\ PointerJob(op[p]) /\ op[p].table.snaps = Log
              \/ op[p].pc = "record" /\ Appending(Log, op[p])
              \/ /\ op[p].pc = "answer" /\ op[p].batch = Nil /\ PointerJob(op[p]) /\ Len(Log) < ops
                 /\ op[p].table.snaps = Append(Log, CompactedSnap(Log, op[p].id))
              \/ /\ op[p].pc = "answer" /\ op[p].batch # Nil /\ LastIs(Log, op[p])
                 /\ CurrentJob(op[p]) \/ RecordJob(Log, op[p])
<1>1. op[p] \in Operation /\ OperationOK(op[p]) /\ Len(Log) \in Nat /\ ops \in Nat /\ MaxOps \in Nat
      /\ ops \in 0..MaxOps /\ Log \in Seq(Snapshot)
  BY OperationType, LogType
<1>2. Shape(Log, op[p]) /\ Len(Log) <= ops
  BY DEF Contained
<1>3. Len(Log) <= MaxOps
  BY <1>1, <1>2
<1>4. \/ op[p].pc = "loaded" /\ PointerJob(op[p]) /\ op[p].table.snaps = Log
      \/ op[p].pc = "record" /\ Appending(Log, op[p])
      \/ /\ op[p].pc = "answer" /\ op[p].batch = Nil /\ PointerJob(op[p]) /\ Len(Log) < ops
         /\ op[p].table.snaps = Append(Log, CompactedSnap(Log, op[p].id))
      \/ /\ op[p].pc = "answer" /\ op[p].batch # Nil /\ LastIs(Log, op[p])
         /\ CurrentJob(op[p]) \/ RecordJob(Log, op[p])
  BY <1>1, <1>2 DEF Shape, Operation, OperationOK
<1>5. op[p].jobs[1].file \in Files
  <2>1. Pointer \in Files /\ Current \in Files /\ \A n \in 1..MaxOps : Record(n) \in Files
    BY DEF Files
  <2>2. LastIs(Log, op[p]) => Len(Log) \in 1..MaxOps
    BY <1>1, <1>3 DEF LastIs
  <2>3. QED
    BY <1>4, <2>1, <2>2 DEF PointerJob, Appending, CurrentJob, RecordJob
<1>6. QED
  BY <1>1, <1>3, <1>4, <1>5

LEMMA SoloStage ==
    ASSUME TypeInv, SoloInv, ~overlapped', NEW p \in Procs, Step(p), StageFile(p)
    PROVE  Contained' /\ Recording'
<1> DEFINE j == op[p].jobs[1]
           js == [op[p].jobs EXCEPT ![1] = [j EXCEPT !.staged = TRUE]]
           o == [op[p] EXCEPT !.jobs = js]
<1>1. /\ op[p] \in Operation /\ op[p].jobs # <<>> /\ op[p].jobs \in Seq(FileJob) /\ j \in FileJob
      /\ op \in [Procs -> Operation] /\ tmp' = [tmp EXCEPT ![j.file] = j.content]
      /\ UNCHANGED <<catalog, rest, disk, ops, faults, acked>> /\ 1 \in DOMAIN op[p].jobs
      /\ tmp \in [Files -> Table \union Commit \union {Nil}]
  BY OperationType, FirstJob DEF StageFile, TypeInv, TypeOK
<1>2. op'[p] = o
  BY <1>1 DEF StageFile
<1>3. Log' = Log
  BY <1>1, LogKept
<1>4. Contained
  BY OthersIdle
<1>5. /\ j.file \in Files
      /\ \/ op[p].pc = "loaded" /\ PointerJob(op[p]) /\ op[p].table.snaps = Log
         \/ op[p].pc = "record" /\ Appending(Log, op[p])
         \/ /\ op[p].pc = "answer" /\ op[p].batch = Nil /\ PointerJob(op[p]) /\ Len(Log) < ops
            /\ op[p].table.snaps = Append(Log, CompactedSnap(Log, op[p].id))
         \/ /\ op[p].pc = "answer" /\ op[p].batch # Nil /\ LastIs(Log, op[p])
            /\ CurrentJob(op[p]) \/ RecordJob(Log, op[p])
  BY <1>1, <1>4, SoloJobs
<1>6. [j EXCEPT !.staged = TRUE] \in FileJob
  BY <1>1 DEF FileJob
<1>7. /\ Len(js) = Len(op[p].jobs) /\ js # <<>> /\ js[1].file = j.file /\ js[1].content = j.content
      /\ \A i \in 2..Len(op[p].jobs) : js[i] = op[p].jobs[i]
  BY <1>1, <1>6, ExceptSeq DEF FileJob
<1>8. /\ o.pc = op[p].pc /\ o.table = op[p].table /\ o.jobs = js /\ o.id = op[p].id /\ o.batch = op[p].batch
  BY <1>1 DEF Operation
<1>9. tmp'[j.file] = j.content
  BY <1>1, <1>5
<1>10. op[p].pc = "loaded" => Len(Log) < ops
  BY <1>4 DEF Contained, Shape
<1> HIDE DEF o, js
<1>11. StagedOK(op[p])'
  BY <1>2, <1>7, <1>8, <1>9 DEF StagedOK
<1>12. Shape(Log, op[p])'
  <2>1. PointerJob(op[p]) => PointerJob(op[p])'
    BY <1>1, <1>2, <1>7, <1>8 DEF PointerJob
  <2>2. CurrentJob(op[p]) => CurrentJob(op[p])'
    BY <1>1, <1>2, <1>7, <1>8 DEF CurrentJob
  <2>3. RecordJob(Log, op[p]) => RecordJob(Log, op[p])'
    BY <1>1, <1>2, <1>3, <1>7, <1>8 DEF RecordJob
  <2>4. Appending(Log, op[p]) => Appending(Log, op[p])'
    BY <1>1, <1>2, <1>3, <1>7, <1>8, <2>1 DEF Appending
  <2>5. LastIs(Log, op[p]) => LastIs(Log, op[p])'
    BY <1>2, <1>3, <1>8 DEF LastIs
  <2>6. QED
    BY <1>1, <1>2, <1>3, <1>5, <1>8, <1>10, <2>1, <2>2, <2>3, <2>4, <2>5 DEF Shape
<1>13. PendingRecord(op[p]) => PendingRecord(op[p])'
  BY <1>1, <1>2, <1>7, <1>8 DEF PendingRecord
<1>14. QED
  BY <1>1, <1>3, <1>11, <1>12, <1>13, SoloQuiet

\* A step that publishes a snapshot of its own batch, or of a compaction.
LEMMA SoloPublished ==
    ASSUME TypeInv, SoloInv, ~overlapped', NEW p \in Procs, Step(p),
           NEW e \in Snapshot, Log' = Append(Log, e), Len(Log) < ops, ops' = ops,
           Holds(Log'), OnlyOnce(Log'), ~PendingRecord(op[p]),
           \A n \in 1..MaxOps : disk'[Record(n)] = disk[Record(n)],
           acked' = acked, faults' = faults,
           e.batch # Nil => PendingRecord(op[p])',
           (Shape(Log, op[p]) /\ StagedOK(op[p]))'
    PROVE  Contained' /\ Recording'
<1>1. /\ Log \in Seq(Snapshot) /\ Len(Log) \in Nat /\ ops \in 0..MaxOps /\ MaxOps \in Nat
      /\ Contained /\ Recording /\ \A q \in Procs : q # p => ~PendingRecord(op[q])
  BY LogType, OthersIdle, BoundsAssumption DEF TypeInv, TypeOK, PendingRecord
<1>2. /\ Len(Log') = Len(Log) + 1 /\ Log'[Len(Log) + 1] = e
      /\ DOMAIN Log' = DOMAIN Log \union {Len(Log) + 1}
      /\ \A n \in DOMAIN Log : Log'[n] = Log[n]
  BY <1>1, LogAppend
<1>3. Contained'
  <2>1. Len(Log') <= ops'
    BY <1>1, <1>2
  <2>2. (Holds(Log) /\ OnlyOnce(Log) /\ Len(Log) <= ops)'
    BY <2>1
  <2>3. QED
    BY <2>2, ContainedStep
<1>4. DOMAIN Log \subseteq 1..MaxOps /\ ~Unrecorded
  BY <1>1 DEF Unrecorded
<1>5. (\A n \in 1..MaxOps : disk[Record(n)] # Nil => Recorded(Log, n))'
  BY <1>1, <1>2 DEF Recording, Recorded
<1>6. (faults = 0 => \A n \in DOMAIN Log : Log[n].batch # Nil =>
            disk[Record(n)] # Nil \/ (n = Len(Log) /\ Unrecorded))'
  <2>1. e.batch # Nil => Unrecorded'
    BY DEF Unrecorded
  <2>2. QED
    BY <1>1, <1>2, <1>4, <2>1 DEF Recording
<1>7. (\A b \in acked : \E n \in DOMAIN Log : Log[n].batch = b /\ (faults = 0 => disk[Record(n)] # Nil))'
  BY <1>1, <1>2, <1>4 DEF Recording
<1>8. QED
  BY <1>3, <1>5, <1>6, <1>7 DEF Recording

\* The snapshot of a commit keeps the table whole and free of copies.
LEMMA GoodAppend ==
    ASSUME NEW s \in Seq(Snapshot), NEW id \in Attempts, NEW b \in Batches, Holds(s), OnlyOnce(s), ~Has(s, b)
    PROVE  /\ AppendedSnap(s, id, b) \in Snapshot
           /\ Holds(Append(s, AppendedSnap(s, id, b))) /\ OnlyOnce(Append(s, AppendedSnap(s, id, b)))
<1> DEFINE e == AppendedSnap(s, id, b)
<1>1. e \in Snapshot /\ e.batch = b /\ e.id = id /\ b # Nil
  BY SnapTypes, NilIsNoTable DEF AppendedSnap
<1>2. Rows(Append(s, e)) = Rows(s) \union BatchRows(b, id)
  BY AppendedRows
<1> HIDE DEF e
<1>3. Holds(Append(s, e)) /\ OnlyOnce(Append(s, e))
  BY <1>1, <1>2, HoldsAppend, OnceAppend
<1>4. QED
  BY <1>1, <1>3 DEF e

LEMMA GoodCompact ==
    ASSUME NEW s \in Seq(Snapshot), NEW id \in Attempts, Holds(s), OnlyOnce(s)
    PROVE  /\ CompactedSnap(s, id) \in Snapshot
           /\ Holds(Append(s, CompactedSnap(s, id))) /\ OnlyOnce(Append(s, CompactedSnap(s, id)))
<1> DEFINE e == CompactedSnap(s, id)
<1>1. e \in Snapshot /\ e.batch = Nil
  BY SnapTypes DEF CompactedSnap
<1>2. Rows(Append(s, e)) = Rows(s)
  BY CompactedRows
<1> HIDE DEF e
<1>3. Holds(Append(s, e)) /\ OnlyOnce(Append(s, e))
  BY <1>1, <1>2, HoldsAppend, OnceAppend
<1>4. QED
  BY <1>1, <1>3 DEF e

LEMMA SoloAppendRest ==
    ASSUME TypeInv, SoloInv, ~overlapped', NEW p \in Procs, Step(p), AppendRest(p)
    PROVE  Contained' /\ Recording'
<1> DEFINE e == AppendedSnap(Log, op[p].id, op[p].batch)
<1>1. /\ op[p].pc = "loaded" /\ op[p].jobs = <<>> /\ op[p].batch \in Batches /\ op[p].table \in Table
      /\ ~HasBatch(op[p].table, op[p].batch) /\ op[p].id \in Attempts /\ op[p] \in Operation
      /\ catalog = "rest" /\ UNCHANGED <<catalog, disk, tmp, ops, faults, acked>>
      /\ op \in [Procs -> Operation] /\ Log \in Seq(Snapshot) /\ rest \in Table
      /\ rest' = Appended(rest, op[p].id, op[p].batch)
  BY OperationType, LogType DEF AppendRest, At, OperationOK, TypeInv, TypeOK
<1>2. Log' = Append(Log, e)
  BY <1>1, RestLog
<1>3. Contained
  BY OthersIdle
<1>4. op[p].table.snaps = Log /\ Len(Log) < ops /\ ~Has(Log, op[p].batch)
  BY <1>1, <1>3, TableLog DEF Contained, Shape
<1>5. e \in Snapshot /\ Holds(Log') /\ OnlyOnce(Log')
  BY <1>1, <1>2, <1>3, <1>4, GoodAppend DEF Contained
<1>6. op'[p].pc = "record" /\ op'[p].jobs = <<>> /\ op'[p].table = rest' /\ op'[p].id = op[p].id
      /\ op'[p].batch = op[p].batch
  BY <1>1 DEF AppendRest, Operation
<1>7. rest'.snaps = Log'
  <2>1. rest' # Nil /\ catalog' = "rest"
    BY <1>1, AppendedType, NilIsNoTable
  <2>2. QED
    BY <2>1 DEF Log, Snaps, Published
<1>8. e.batch = op[p].batch /\ e.id = op[p].id
  BY DEF AppendedSnap
<1> HIDE DEF e
<1>9. Log'[Len(Log')] = e /\ Log' # <<>>
  BY <1>1, <1>2, <1>5, LogAppend
<1>10. (Shape(Log, op[p]) /\ StagedOK(op[p]))'
  BY <1>6, <1>7, <1>8, <1>9 DEF Shape, StagedOK, LastIs
<1>11. ~PendingRecord(op[p]) /\ PendingRecord(op[p])'
  BY <1>1, <1>6 DEF PendingRecord
<1>12. QED
  BY <1>1, <1>2, <1>4, <1>5, <1>10, <1>11, SoloPublished

LEMMA TailJobs ==
    ASSUME NEW js \in Seq(FileJob)
    PROVE  /\ Len(js) = 1 => Tail(js) = <<>>
           /\ Len(js) = 2 => Len(Tail(js)) = 1 /\ Tail(js)[1] = js[2]
<1>1. js # <<>> => /\ Tail(js) \in Seq(FileJob) /\ Len(Tail(js)) = Len(js) - 1
                   /\ \A i \in 1..Len(Tail(js)) : Tail(js)[i] = js[i + 1]
  BY HeadTailProperties
<1>2. \A s \in Seq(FileJob) : Len(s) = 0 => s = <<>>
  BY EmptySeq
<1>3. Len(js) \in {1, 2} => js # <<>>
  OBVIOUS
<1>4. ASSUME Len(js) = 1 PROVE Tail(js) = <<>>
  <2>1. js # <<>>
    BY <1>3, <1>4
  <2>2. Tail(js) \in Seq(FileJob) /\ Len(Tail(js)) = 0
    BY <1>1, <1>4, <2>1
  <2>3. QED
    BY <1>2, <2>2
<1>5. ASSUME Len(js) = 2 PROVE Len(Tail(js)) = 1 /\ Tail(js)[1] = js[2]
  <2>1. Len(Tail(js)) = 1 /\ 1 \in 1..Len(Tail(js))
    BY <1>1, <1>3, <1>5
  <2>2. Tail(js)[1] = js[1 + 1]
    BY <1>1, <1>3, <1>5, <2>1
  <2>3. QED
    BY <2>1, <2>2
<1>6. QED
  BY <1>4, <1>5

LEMMA FileNames ==
    /\ Pointer \in Files /\ Current \in Files /\ Pointer # Current
    /\ \A n \in 1..MaxOps : Record(n) \in Files
    /\ \A n : Record(n) # Pointer /\ Record(n) # Current
    /\ \A m, n : Record(m) = Record(n) => m = n
BY DEF Files, Pointer, Current, Record

\* What a rename does when the process wrote the temporary itself.
LEMMA SoloRename ==
    ASSUME TypeInv, SoloInv, ~overlapped', NEW p \in Procs, Step(p), PublishFile(p)
    PROVE  LET j == op[p].jobs[1]
           IN  /\ disk' = [disk EXCEPT ![j.file] = j.content] /\ j.file \in Files
               /\ op'[p].jobs = Tail(op[p].jobs)
               /\ op'[p].pc = op[p].pc /\ op'[p].batch = op[p].batch
               /\ op'[p].id = op[p].id /\ op'[p].table = op[p].table
               /\ UNCHANGED <<catalog, rest, ops, faults, acked, overlapped>>
               /\ op[p].jobs # <<>> /\ op[p].jobs \in Seq(FileJob) /\ j \in FileJob /\ j.content # Nil
               /\ disk \in [Files -> Table \union Commit \union {Nil}]
<1> DEFINE j == op[p].jobs[1]
<1>1. /\ op[p] \in Operation /\ op[p].jobs # <<>> /\ op[p].jobs \in Seq(FileJob) /\ j \in FileJob
      /\ j.content \in Contents(j.file) /\ j.staged /\ op \in [Procs -> Operation]
      /\ disk \in [Files -> Table \union Commit \union {Nil}]
  BY OperationType, FirstJob DEF PublishFile, TypeInv, TypeOK
<1>2. tmp[j.file] = j.content /\ Contained
  BY <1>1, OthersIdle DEF Contained, StagedOK
<1>3. j.content # Nil
  BY <1>1, NilIsNoTable DEF Contents
<1>4. op'[p] = [op[p] EXCEPT !.jobs = Tail(@)] /\ disk' = [disk EXCEPT ![j.file] = j.content]
  BY <1>1, <1>2, <1>3 DEF PublishFile
<1>5. j.file \in Files
  BY <1>1, <1>2, SoloJobs
<1>6. QED
  BY <1>1, <1>3, <1>4, <1>5 DEF Operation, PublishFile

LEMMA SoloPointer ==
    ASSUME TypeInv, SoloInv, ~overlapped', NEW p \in Procs, Step(p), PublishFile(p), PointerJob(op[p])
    PROVE  /\ Log' = op[p].table.snaps /\ op'[p].jobs = <<>>
           /\ \A n \in 1..MaxOps : disk'[Record(n)] = disk[Record(n)]
<1> DEFINE j == op[p].jobs[1]
<1>1. /\ disk' = [disk EXCEPT ![Pointer] = op[p].table] /\ op'[p].jobs = Tail(op[p].jobs)
      /\ op[p].jobs \in Seq(FileJob) /\ Len(op[p].jobs) = 1 /\ catalog' = "local"
      /\ op[p].table # Nil /\ disk \in [Files -> Table \union Commit \union {Nil}] /\ Pointer \in Files
  BY SoloRename DEF PointerJob
<1>2. disk'[Pointer] = op[p].table /\ \A n \in 1..MaxOps : disk'[Record(n)] = disk[Record(n)]
  BY <1>1, FileNames
<1>3. Tail(op[p].jobs) = <<>>
  BY <1>1, TailJobs
<1>4. QED
  BY <1>1, <1>2, <1>3 DEF Log, Snaps, Published

LEMMA SoloPublish ==
    ASSUME TypeInv, SoloInv, ~overlapped', NEW p \in Procs, Step(p), PublishFile(p)
    PROVE  Contained' /\ Recording'
<1> DEFINE j == op[p].jobs[1]
<1>1. /\ disk' = [disk EXCEPT ![j.file] = j.content] /\ j.file \in Files
      /\ op'[p].jobs = Tail(op[p].jobs)
      /\ op'[p].pc = op[p].pc /\ op'[p].batch = op[p].batch
      /\ op'[p].id = op[p].id /\ op'[p].table = op[p].table
      /\ UNCHANGED <<catalog, rest, ops, faults, acked, overlapped>>
      /\ op[p].jobs # <<>> /\ op[p].jobs \in Seq(FileJob) /\ j \in FileJob /\ j.content # Nil
      /\ disk \in [Files -> Table \union Commit \union {Nil}]
  BY SoloRename
<1>2. Contained /\ Recording /\ Holds(Log) /\ OnlyOnce(Log) /\ Len(Log) <= ops
  BY OthersIdle DEF Contained
<1>3. /\ Len(Log) \in Nat /\ Len(Log) <= MaxOps
      /\ \/ op[p].pc = "loaded" /\ PointerJob(op[p]) /\ op[p].table.snaps = Log
         \/ op[p].pc = "record" /\ Appending(Log, op[p])
         \/ /\ op[p].pc = "answer" /\ op[p].batch = Nil /\ PointerJob(op[p]) /\ Len(Log) < ops
            /\ op[p].table.snaps = Append(Log, CompactedSnap(Log, op[p].id))
         \/ /\ op[p].pc = "answer" /\ op[p].batch # Nil /\ LastIs(Log, op[p])
            /\ CurrentJob(op[p]) \/ RecordJob(Log, op[p])
  BY <1>1, <1>2, SoloJobs
<1>4. Log \in Seq(Snapshot) /\ op[p].id \in Attempts /\ OperationOK(op[p]) /\ op[p].batch \in Batches \union {Nil}
  BY <1>3, LogType, OperationType
<1>5. CASE op[p].pc = "loaded" /\ PointerJob(op[p]) /\ op[p].table.snaps = Log
  <2>1. Log' = Log /\ op'[p].jobs = <<>> /\ \A n \in 1..MaxOps : disk'[Record(n)] = disk[Record(n)]
    BY <1>5, SoloPointer
  <2>2. Len(Log) < ops
    BY <1>2, <1>5 DEF Contained, Shape
  <2>3. (Shape(Log, op[p]) /\ StagedOK(op[p]))'
    BY <1>1, <1>5, <2>1, <2>2 DEF Shape, StagedOK
  <2>4. ~PendingRecord(op[p])
    BY <1>5 DEF PendingRecord
  <2>5. QED
    BY <1>1, <2>1, <2>3, <2>4, SoloQuiet
<1>6. CASE op[p].pc = "record" /\ Appending(Log, op[p])
  <2> DEFINE e == AppendedSnap(Log, op[p].id, op[p].batch)
  <2>1. PointerJob(op[p]) /\ op[p].batch \in Batches /\ ~Has(Log, op[p].batch) /\ Len(Log) < ops
    BY <1>4, <1>6 DEF Appending, OperationOK
  <2>2. /\ Log' = Append(Log, e) /\ Log' = op[p].table.snaps
        /\ op'[p].jobs = <<>> /\ \A n \in 1..MaxOps : disk'[Record(n)] = disk[Record(n)]
    BY <1>6, <2>1, SoloPointer DEF Appending
  <2>3. e \in Snapshot /\ Holds(Log') /\ OnlyOnce(Log')
    BY <1>2, <1>4, <2>1, <2>2, GoodAppend
  <2>4. e.batch = op[p].batch /\ e.id = op[p].id
    BY DEF AppendedSnap
  <2> HIDE DEF e
  <2>5. Log'[Len(Log')] = e /\ Log' # <<>>
    <3>1. Append(Log, e)[Len(Append(Log, e))] = e /\ Append(Log, e) # <<>>
      BY <1>4, <2>3, LogAppend
    <3>2. QED
      BY <2>2, <3>1
  <2>6. (Shape(Log, op[p]) /\ StagedOK(op[p]))'
    BY <1>1, <1>6, <2>2, <2>4, <2>5 DEF Shape, StagedOK, LastIs
  <2>7. ~PendingRecord(op[p]) /\ PendingRecord(op[p])'
    BY <1>1, <1>6, <2>2 DEF PendingRecord
  <2>8. QED
    BY <1>1, <2>1, <2>2, <2>3, <2>6, <2>7, SoloPublished
<1>7. CASE /\ op[p].pc = "answer" /\ op[p].batch = Nil /\ PointerJob(op[p]) /\ Len(Log) < ops
           /\ op[p].table.snaps = Append(Log, CompactedSnap(Log, op[p].id))
  <2> DEFINE e == CompactedSnap(Log, op[p].id)
  <2>1. /\ Log' = Append(Log, e)
        /\ op'[p].jobs = <<>> /\ \A n \in 1..MaxOps : disk'[Record(n)] = disk[Record(n)]
    BY <1>7, SoloPointer
  <2>2. e \in Snapshot /\ Holds(Log') /\ OnlyOnce(Log') /\ e.batch = Nil
    BY <1>2, <1>4, <2>1, GoodCompact DEF CompactedSnap
  <2> HIDE DEF e
  <2>3. (Shape(Log, op[p]) /\ StagedOK(op[p]))'
    BY <1>1, <1>7, <2>1 DEF Shape, StagedOK
  <2>4. ~PendingRecord(op[p])
    BY <1>7 DEF PendingRecord, PointerJob
  <2>5. QED
    BY <1>1, <1>7, <2>1, <2>2, <2>3, <2>4, SoloPublished
<1>8. CASE op[p].pc = "answer" /\ op[p].batch # Nil /\ LastIs(Log, op[p]) /\ CurrentJob(op[p])
  <2>1. Len(op[p].jobs) = 1 /\ j.file = Current /\ op'[p].jobs = <<>>
    BY <1>1, <1>8, TailJobs DEF CurrentJob
  <2>2. disk'[Pointer] = disk[Pointer] /\ \A n \in 1..MaxOps : disk'[Record(n)] = disk[Record(n)]
    BY <1>1, <2>1, FileNames
  <2>3. Log' = Log
    BY <1>1, <2>2, LogKept
  <2>4. (Shape(Log, op[p]) /\ StagedOK(op[p]))'
    BY <1>1, <1>8, <2>1, <2>3 DEF Shape, StagedOK, LastIs
  <2>5. ~PendingRecord(op[p])
    BY <1>8, <2>1 DEF PendingRecord
  <2>6. QED
    BY <1>1, <2>2, <2>3, <2>4, <2>5, SoloQuiet
<1>9. CASE op[p].pc = "answer" /\ op[p].batch # Nil /\ LastIs(Log, op[p]) /\ RecordJob(Log, op[p])
  <2>0. PICK m \in Nat : m = Len(Log)
    BY <1>3
  <2>1. /\ j.file = Record(m) /\ j.content.batch = op[p].batch /\ j.content.id = op[p].id
        /\ Len(op'[p].jobs) = 1 /\ op'[p].jobs[1].file = Current /\ ~op'[p].jobs[1].staged
    BY <1>1, <1>9, <2>0, TailJobs DEF RecordJob
  <2>2. m \in DOMAIN Log /\ Log[m].batch = op[p].batch /\ Log[m].id = op[p].id
    BY <1>4, <1>9, <2>0 DEF LastIs
  <2>7. DOMAIN Log \subseteq 1..MaxOps /\ m \in 1..MaxOps
    BY <1>3, <1>4, <2>2, BoundsAssumption
  <2>3. disk'[Pointer] = disk[Pointer] /\ disk'[Record(m)] = j.content
        /\ \A n \in 1..MaxOps : n # m => disk'[Record(n)] = disk[Record(n)]
    BY <1>1, <2>1, <2>7, FileNames
  <2>4. Log' = Log
    BY <1>1, <2>3, LogKept
  <2>5. (Shape(Log, op[p]) /\ StagedOK(op[p]))'
    <3>1. LastIs(Log, op[p])' /\ CurrentJob(op[p])'
      BY <1>1, <1>9, <2>1, <2>4 DEF LastIs, CurrentJob
    <3>2. QED
      BY <1>1, <1>9, <2>1, <3>1 DEF Shape, StagedOK
  <2>6. Contained'
    <3>1. (Holds(Log) /\ OnlyOnce(Log) /\ Len(Log) <= ops)'
      BY <1>1, <1>2, <2>4
    <3>2. QED
      BY <2>5, <3>1, ContainedStep
  <2>8. (\A n \in 1..MaxOps : disk[Record(n)] # Nil => Recorded(Log, n))'
    <3>1. (Recorded(Log, m))'
      BY <2>1, <2>2, <2>3, <2>4 DEF Recorded
    <3>2. ASSUME NEW n \in 1..MaxOps, n # m, disk'[Record(n)] # Nil PROVE (Recorded(Log, n))'
      BY <1>2, <2>3, <2>4, <3>2 DEF Recording, Recorded
    <3>3. QED
      BY <3>1, <3>2
  <2>9. (faults = 0 => \A n \in DOMAIN Log : Log[n].batch # Nil =>
              disk[Record(n)] # Nil \/ (n = Len(Log) /\ Unrecorded))'
    BY <1>1, <1>2, <2>0, <2>3, <2>4, <2>7 DEF Recording
  <2>10. (\A b \in acked : \E n \in DOMAIN Log : Log[n].batch = b /\ (faults = 0 => disk[Record(n)] # Nil))'
    BY <1>1, <1>2, <2>3, <2>4, <2>7 DEF Recording
  <2>11. QED
    BY <2>6, <2>8, <2>9, <2>10 DEF Recording
<1>10. QED
  BY <1>3, <1>5, <1>6, <1>7, <1>8, <1>9

LEMMA SoloStep == TypeInv /\ SoloInv /\ [Next]_vars => SoloInv'
<1> SUFFICES ASSUME TypeInv, SoloInv, [Next]_vars, ~overlapped' PROVE Contained' /\ Recording'
  BY DEF SoloInv
<1>1. CASE UNCHANGED vars
  <2>1. UNCHANGED <<catalog, rest, disk, tmp, op, ops>> /\ UNCHANGED <<faults, acked, overlapped>>
    BY <1>1 DEF vars
  <2>2. Log' = Log /\ Contained /\ Recording
    BY <2>1, LogKept DEF SoloInv
  <2>3. Contained'
    BY <2>1, <2>2 DEF Contained, Alone, Shape, StagedOK, PointerJob, Appending, LastIs, RecordJob, CurrentJob
  <2>4. Recording'
    BY <2>1, <2>2 DEF Recording, Recorded, Unrecorded, PendingRecord
  <2>5. QED
    BY <2>3, <2>4
<1>2. ASSUME NEW p \in Procs, Step(p) PROVE Contained' /\ Recording'
  <2>1. CASE (\E b \in Batches : StartCommit(p, b)) \/ StartCompaction(p)
    <3>1. PICK b : Start(p, b)
      BY <2>1 DEF StartCommit, StartCompaction
    <3>2. QED
      BY <1>2, <3>1, SoloStart
  <2>2. QED
    BY <1>2, <2>1, SoloLoadLocal, SoloLoadRest, SoloDeduplicate, SoloAnswer, SoloAppendLocal, SoloAppendRest,
       SoloRecordCommit, SoloCompact, SoloCheck, SoloStage, SoloPublish, SoloInterrupt DEF Step
<1>3. QED
  BY <1>1, <1>2 DEF Next

LakehouseInv == TypeInv /\ RestInv /\ SoloInv

LEMMA LakehouseInvariant == Spec => []LakehouseInv
<1>1. Init => LakehouseInv
  <2>1. Init => RestInv
    <3> SUFFICES ASSUME Init PROVE RestInv
      OBVIOUS
    <3>1. Log = <<>> /\ \A p \in Procs : op[p].pc = "idle"
      BY DEF Init, Idle, Log, Snaps, Published, Files
    <3>2. Holds(Log) /\ \A p \in Procs : RestOperation(op[p])
      BY <3>1 DEF Holds, RestOperation
    <3>3. QED
      BY <3>2 DEF RestInv, Init
  <2>2. QED
    BY <2>1, InitType, InitSolo DEF LakehouseInv
<1>2. LakehouseInv /\ [Next]_vars => LakehouseInv'
  BY TypeStep, RestStep, SoloStep DEF LakehouseInv
<1>3. QED
  BY <1>1, <1>2, PTL DEF Spec

-------------------------------------------------------------------------------
(* What the invariants are for.                                            *)

LEMMA HasReadable ==
    ASSUME TypeInv, Holds(Log), NEW b \in Batches, Has(Log, b)
    PROVE  Readable(b)
<1>1. Log \in Seq(Snapshot) /\ b # Nil /\ (Published # Nil => Published \in Table /\ Log = Published.snaps)
  BY LogType, NilIsNoTable
<1>2. PICK n \in DOMAIN Log : Log[n].batch = b
  BY DEF Has
<1>3. Published # Nil
  BY <1>2 DEF Log, Snaps
<1>4. BatchRows(b, Log[n].id) \subseteq Rows(Log) /\ Log[n].id \in 1..MaxOps
  <2>1. Log[n] \in Snapshot
    BY <1>1, <1>2
  <2>2. Log[n].id \in 1..MaxOps
    BY <2>1 DEF Snapshot, Attempts
  <2>3. QED
    BY <1>1, <1>2, <2>2 DEF Holds
<1>5. RowsOf(Published) = Rows(Log)
  BY <1>1, <1>3, TableLog
<1>6. QED
  BY <1>3, <1>4, <1>5 DEF Readable, BatchRows

LEMMA ReadableHas ==
    ASSUME TypeInv, OnlyOnce(Log), NEW b \in Batches, Parses(b), Readable(b)
    PROVE  Has(Log, b)
<1>1. Published \in Table /\ Log = Published.snaps /\ RowsOf(Published) = Rows(Log)
  BY LogType, TableLog DEF Readable
<1>2. PICK i \in RowLines(b), id \in 1..MaxOps : <<b, id, i>> \in Rows(Log)
  <2>1. PICK i \in RowLines(b) : TRUE
    BY DEF Parses
  <2>2. PICK id \in 1..MaxOps : <<b, id, i>> \in RowsOf(Published)
    BY DEF Readable
  <2>3. QED
    BY <1>1, <2>2
<1>3. PICK n \in DOMAIN Log : <<b, id, i>> \in BatchRows(Log[n].batch, Log[n].id)
  BY <1>2 DEF OnlyOnce
<1>4. Log[n].batch = b
  BY <1>3 DEF BatchRows
<1>5. QED
  BY <1>4 DEF Has

LEMMA StaysFollows == LakehouseInv => AcceptedRowsStay
<1> SUFFICES ASSUME LakehouseInv, catalog = "rest" \/ ~overlapped, NEW b \in acked PROVE Readable(b)
  BY DEF AcceptedRowsStay
<1>1. TypeInv /\ b \in Batches /\ Holds(Log) /\ Has(Log, b)
  <2>1. CASE catalog = "rest"
    BY <2>1 DEF LakehouseInv, TypeInv, TypeOK, RestInv
  <2>2. CASE ~overlapped
    BY <2>2 DEF LakehouseInv, TypeInv, TypeOK, SoloInv, Contained, Recording, Has
  <2>3. QED
    BY <2>1, <2>2
<1>2. QED
  BY <1>1, HasReadable

LEMMA OnceFollows == LakehouseInv => RowsAppearOnce
<1> SUFFICES ASSUME LakehouseInv, ~overlapped, Published # Nil,
                    NEW r \in RowsOf(Published), NEW s \in RowsOf(Published), r[1] = s[1], r[3] = s[3]
             PROVE  r = s
  BY DEF RowsAppearOnce
<1>1. TypeInv /\ OnlyOnce(Log)
  BY DEF LakehouseInv, SoloInv, Contained
<1>2. RowsOf(Published) = Rows(Log)
  BY <1>1, LogType, TableLog
<1>3. PICK m \in DOMAIN Log : Log[m].batch # Nil /\ r \in BatchRows(Log[m].batch, Log[m].id)
  BY <1>1, <1>2 DEF OnlyOnce
<1>4. PICK n \in DOMAIN Log : Log[n].batch # Nil /\ s \in BatchRows(Log[n].batch, Log[n].id)
  BY <1>1, <1>2 DEF OnlyOnce
<1>5. PICK i : r = <<Log[m].batch, Log[m].id, i>>
  BY <1>3 DEF BatchRows
<1>6. PICK j : s = <<Log[n].batch, Log[n].id, j>>
  BY <1>4 DEF BatchRows
<1>7. m = n
  BY <1>1, <1>3, <1>5, <1>6 DEF OnlyOnce
<1>8. QED
  BY <1>5, <1>6, <1>7

LEMMA RecordsFollow == LakehouseInv => RecordsFollowTheTable
<1> SUFFICES ASSUME LakehouseInv, ~overlapped
    PROVE  /\ \A n \in 1..MaxOps : disk[Record(n)] # Nil =>
                /\ Published # Nil
                /\ n \in DOMAIN Published.snaps
                /\ disk[Record(n)].batch = Published.snaps[n].batch
                /\ disk[Record(n)].id = Published.snaps[n].id
           /\ faults = 0 => \A b \in acked : \E n \in 1..MaxOps :
                disk[Record(n)] # Nil /\ disk[Record(n)].batch = b
  BY DEF RecordsFollowTheTable
<1>1. TypeInv /\ Recording /\ Len(Log) <= ops
  BY DEF LakehouseInv, SoloInv, Contained
<1>2. Log \in Seq(Snapshot) /\ Len(Log) \in Nat /\ ops \in 0..MaxOps /\ MaxOps \in Nat
  BY <1>1, LogType, BoundsAssumption DEF TypeInv, TypeOK
<1>3. DOMAIN Log \subseteq 1..MaxOps
  BY <1>1, <1>2
<1>4. ASSUME NEW n \in 1..MaxOps, disk[Record(n)] # Nil
      PROVE  /\ Published # Nil
             /\ n \in DOMAIN Published.snaps
             /\ disk[Record(n)].batch = Published.snaps[n].batch
             /\ disk[Record(n)].id = Published.snaps[n].id
  <2>1. Recorded(Log, n)
    BY <1>1, <1>4 DEF Recording
  <2>2. Published # Nil
    BY <2>1 DEF Recorded, Log, Snaps
  <2>3. Log = Published.snaps
    BY <1>1, <2>2, LogType
  <2>4. QED
    BY <2>1, <2>2, <2>3 DEF Recorded
<1>5. ASSUME faults = 0, NEW b \in acked
      PROVE  \E n \in 1..MaxOps : disk[Record(n)] # Nil /\ disk[Record(n)].batch = b
  <2>1. PICK n \in DOMAIN Log : Log[n].batch = b /\ disk[Record(n)] # Nil
    BY <1>1, <1>5 DEF Recording
  <2>2. Recorded(Log, n)
    BY <1>1, <1>3, <2>1 DEF Recording
  <2>3. QED
    BY <1>3, <2>1, <2>2 DEF Recorded
<1>6. QED
  BY <1>4, <1>5

\* A batch whose commit was answered can be read, every row of it: always with
\* a REST catalog, and with the local one until two operations run beside each
\* other; interruptions and compactions in between do not matter.
THEOREM AcceptedStay == Spec => []AcceptedRowsStay
BY LakehouseInvariant, StaysFollows, PTL

\* Committing a batch again, after an interruption at any point, adds no second
\* copy of a row unless two operations ran beside each other.
THEOREM NoRowTwice == Spec => []RowsAppearOnce
BY LakehouseInvariant, OnceFollows, PTL

\* A commit record names the snapshot of the table with its number, and without
\* an interruption every answered commit has one.
THEOREM RecordsNameSnapshots == Spec => []RecordsFollowTheTable
BY LakehouseInvariant, RecordsFollow, PTL

-------------------------------------------------------------------------------
(* The abstract table.                                                     *)

AppendsBatch(e) == e.batch # Nil => e.batch \in Batches /\ Parses(e.batch) /\ ~Has(Log, e.batch)

\* What a step shows to readers while no two operations run beside each other.
LEMMA SoloEffects ==
    ASSUME TypeInv, SoloInv, ~overlapped', NEW p \in Procs, Step(p)
    PROVE  \/ /\ Log' = Log
              /\ \/ acked' = acked
                 \/ \E b \in Batches : Parses(b) /\ Has(Log, b) /\ acked' = acked \union {b}
           \/ /\ acked' = acked
              /\ \E e \in Snapshot : Log' = Append(Log, e) /\ AppendsBatch(e)
<1>1. /\ Contained /\ Log \in Seq(Snapshot) /\ OperationOK(op[p]) /\ op[p].batch \in Batches \union {Nil}
      /\ (op[p].pc # "idle" => op[p].id \in Attempts) /\ op[p] \in Operation
  BY OthersIdle, LogType, OperationType
<1>2. CASE (\E b \in Batches : StartCommit(p, b)) \/ StartCompaction(p)
  BY <1>2, LogKept DEF StartCommit, StartCompaction, Start
<1>3. CASE LoadLocal(p) \/ AppendLocal(p) \/ RecordCommit(p)
  BY <1>3, LogKept DEF LoadLocal, AppendLocal, RecordCommit
<1>4. CASE Compact(p) \/ CheckBeforeMetadata(p) \/ CheckBeforePointer(p)
  BY <1>4, LogKept DEF Compact, CheckBeforeMetadata, CheckBeforePointer
<1>5. CASE StageFile(p) \/ Interrupt(p)
  BY <1>5, LogKept DEF StageFile, Interrupt
<1>6. CASE LoadRest(p) \/ CreateRest(p)
  <2>1. catalog = "rest" /\ ~AppendRest(p) /\ acked' = acked
    BY <1>1, <1>6 DEF LoadRest, CreateRest, AppendRest, At, OperationOK
  <2>2. QED
    BY <2>1, RestLog
<1>7. CASE AppendRest(p)
  <2> DEFINE e == AppendedSnap(Log, op[p].id, op[p].batch)
  <2>1. /\ op[p].pc = "loaded" /\ op[p].batch \in Batches /\ op[p].id \in Attempts /\ Parses(op[p].batch)
        /\ ~HasBatch(op[p].table, op[p].batch) /\ op[p].table \in Table /\ acked' = acked
        /\ catalog = "rest"
    BY <1>1, <1>7, NilIsNoTable DEF AppendRest, At, OperationOK
  <2>2. op[p].table.snaps = Log
    BY <1>1, <2>1 DEF Contained, Shape
  <2>3. e \in Snapshot /\ AppendsBatch(e)
    <3>1. e.batch = op[p].batch /\ ~Has(Log, op[p].batch)
      BY <2>1, <2>2, TableLog DEF AppendedSnap
    <3>2. QED
      BY <1>1, <2>1, <3>1, SnapTypes DEF AppendsBatch
  <2>4. Log' = Append(Log, e)
    BY <1>7, <2>1, RestLog
  <2>5. QED
    BY <2>1, <2>3, <2>4
<1>8. CASE Deduplicate(p)
  <2>1. /\ op[p].pc = "loaded" /\ op[p].batch \in Batches /\ Parses(op[p].batch)
        /\ HasBatch(op[p].table, op[p].batch) /\ op[p].table \in Table
        /\ acked' = acked \union {op[p].batch}
    BY <1>1, <1>8 DEF Deduplicate, At, OperationOK
  <2>2. Has(Log, op[p].batch)
    BY <1>1, <2>1, TableLog DEF Contained, Shape
  <2>3. Log' = Log
    BY <1>8, LogKept DEF Deduplicate
  <2>4. QED
    BY <2>1, <2>2, <2>3
<1>9. CASE Answer(p)
  <2>1. Log' = Log /\ op[p].pc = "answer"
    BY <1>9, LogKept DEF Answer, At
  <2>2. CASE op[p].batch = Nil
    BY <1>9, <2>1, <2>2 DEF Answer
  <2>3. CASE op[p].batch # Nil
    <3>1. LastIs(Log, op[p]) /\ Parses(op[p].batch) /\ op[p].batch \in Batches
      BY <1>1, <2>1, <2>3 DEF Contained, Shape, OperationOK
    <3>2. Has(Log, op[p].batch)
      BY <1>1, <3>1 DEF LastIs, Has
    <3>3. QED
      BY <1>9, <2>1, <2>3, <3>1, <3>2 DEF Answer
  <2>4. QED
    BY <2>2, <2>3
<1>10. CASE PublishFile(p)
  <2>1. /\ disk' = [disk EXCEPT ![op[p].jobs[1].file] = op[p].jobs[1].content]
        /\ op[p].jobs # <<>> /\ acked' = acked /\ UNCHANGED <<catalog, rest>>
        /\ disk \in [Files -> Table \union Commit \union {Nil}]
    BY <1>10, SoloRename
  <2>2. \/ op[p].pc = "loaded" /\ PointerJob(op[p]) /\ op[p].table.snaps = Log
        \/ op[p].pc = "record" /\ Appending(Log, op[p])
        \/ /\ op[p].pc = "answer" /\ op[p].batch = Nil /\ PointerJob(op[p]) /\ Len(Log) < ops
           /\ op[p].table.snaps = Append(Log, CompactedSnap(Log, op[p].id))
        \/ /\ op[p].pc = "answer" /\ op[p].batch # Nil /\ LastIs(Log, op[p])
           /\ CurrentJob(op[p]) \/ RecordJob(Log, op[p])
    BY <1>1, <2>1, SoloJobs
  <2>3. CASE op[p].pc = "loaded" /\ PointerJob(op[p]) /\ op[p].table.snaps = Log
    BY <1>10, <2>1, <2>3, SoloPointer
  <2>4. CASE op[p].pc = "record" /\ Appending(Log, op[p])
    <3> DEFINE e == AppendedSnap(Log, op[p].id, op[p].batch)
    <3>1. op[p].batch \in Batches /\ Parses(op[p].batch) /\ op[p].id \in Attempts /\ ~Has(Log, op[p].batch)
      BY <1>1, <2>4 DEF OperationOK, Appending
    <3>2. Log' = Append(Log, e)
      BY <1>10, <2>4, SoloPointer DEF Appending
    <3>3. e \in Snapshot /\ AppendsBatch(e)
      <4>1. e.batch = op[p].batch
        BY DEF AppendedSnap
      <4>2. QED
        BY <1>1, <3>1, <4>1, SnapTypes DEF AppendsBatch
    <3>4. QED
      BY <2>1, <3>2, <3>3
  <2>5. CASE /\ op[p].pc = "answer" /\ op[p].batch = Nil /\ PointerJob(op[p])
             /\ op[p].table.snaps = Append(Log, CompactedSnap(Log, op[p].id))
    <3>1. CompactedSnap(Log, op[p].id) \in Snapshot /\ CompactedSnap(Log, op[p].id).batch = Nil
      BY <1>1, <2>5, SnapTypes DEF CompactedSnap
    <3>2. Log' = Append(Log, CompactedSnap(Log, op[p].id))
      BY <1>10, <2>5, SoloPointer
    <3>3. QED
      BY <2>1, <3>1, <3>2 DEF AppendsBatch
  <2>6. CASE CurrentJob(op[p]) \/ RecordJob(Log, op[p])
    <3>1. disk'[Pointer] = disk[Pointer]
      BY <2>1, <2>6, FileNames DEF CurrentJob, RecordJob
    <3>2. QED
      BY <2>1, <3>1, LogKept
  <2>7. QED
    BY <2>2, <2>3, <2>4, <2>5, <2>6
<1>11. QED
  BY <1>2, <1>3, <1>4, <1>5, <1>6, <1>7, <1>8, <1>9, <1>10 DEF Step

\* The batches a scan finds are those with a snapshot.
LEMMA ReadableBatches ==
    TypeInv /\ SoloInv /\ ~overlapped =>
        {b \in Batches : Parses(b) /\ Readable(b)} = {b \in Batches : Parses(b) /\ Has(Log, b)}
<1> SUFFICES ASSUME TypeInv, SoloInv, ~overlapped, NEW b \in Batches, Parses(b)
             PROVE  Readable(b) <=> Has(Log, b)
  OBVIOUS
<1>1. Holds(Log) /\ OnlyOnce(Log)
  BY DEF SoloInv, Contained
<1>2. QED
  BY <1>1, HasReadable, ReadableHas

LEMMA EventsStep ==
    LakehouseInv /\ LakehouseInv' /\ [Next]_vars => [overlapped' \/ Events!Next]_(Events!tableVars)
<1> DEFINE R == {b \in Batches : Parses(b) /\ Readable(b)}
<1> SUFFICES ASSUME LakehouseInv, LakehouseInv', [Next]_vars, ~overlapped'
             PROVE  Events!Next \/ UNCHANGED <<R, acked>>
  BY DEF Events!tableVars
<1>1. CASE UNCHANGED vars
  BY <1>1 DEF vars, Readable, Published
<1>2. ASSUME NEW p \in Procs, Step(p) PROVE Events!Next \/ UNCHANGED <<R, acked>>
  <2>1. TypeInv /\ SoloInv /\ ~overlapped /\ Log \in Seq(Snapshot)
    BY <1>2, OthersIdle, LogType DEF LakehouseInv
  <2>2. R = {b \in Batches : Parses(b) /\ Has(Log, b)}
    BY <2>1, ReadableBatches
  <2>3. R' = {b \in Batches : Parses(b) /\ Has(Log', b)}
    <3>1. (TypeInv /\ SoloInv /\ ~overlapped =>
            {b \in Batches : Parses(b) /\ Readable(b)} = {b \in Batches : Parses(b) /\ Has(Log, b)})'
      BY ReadableBatches, PTL
    <3>2. (TypeInv /\ SoloInv /\ ~overlapped)'
      BY DEF LakehouseInv
    <3>3. QED
      BY <3>1, <3>2 DEF Has
  <2>4. CASE Log' = Log /\ acked' = acked
    BY <2>2, <2>3, <2>4
  <2>5. ASSUME Log' = Log, NEW b \in Batches, Parses(b), Has(Log, b), acked' = acked \union {b}
        PROVE  Events!Next
    <3>1. b \in R /\ UNCHANGED R
      BY <2>2, <2>3, <2>5
    <3>2. QED
      BY <2>5, <3>1 DEF Events!Next, Events!Answer
  <2>6. ASSUME acked' = acked, NEW e \in Snapshot, Log' = Append(Log, e), AppendsBatch(e)
        PROVE  Events!Next \/ UNCHANGED <<R, acked>>
    <3>1. \A b : Has(Log', b) <=> Has(Log, b) \/ e.batch = b
      BY <2>1, <2>6, LogAppend
    <3>2. CASE e.batch = Nil
      <4>1. UNCHANGED R
        BY <2>2, <2>3, <3>1, <3>2, NilIsNoTable
      <4>2. QED
        BY <2>6, <4>1
    <3>3. CASE e.batch # Nil
      <4>1. e.batch \in Batches /\ e.batch \notin R /\ R' = R \union {e.batch}
        BY <2>2, <2>3, <2>6, <3>1, <3>3 DEF AppendsBatch
      <4>2. QED
        BY <2>6, <4>1 DEF Events!Next, Events!Append
    <3>4. QED
      BY <3>2, <3>3
  <2>7. QED
    BY <1>2, <2>1, <2>4, <2>5, <2>6, SoloEffects
<1>3. QED
  BY <1>1, <1>2 DEF Next

LEMMA EventsInit == Init => Events!Init
<1> SUFFICES ASSUME Init PROVE Events!Init
  OBVIOUS
<1>1. Published = Nil
  BY DEF Init, Published, Files
<1>2. {b \in Batches : Parses(b) /\ Readable(b)} = {}
  BY <1>1 DEF Readable
<1>3. QED
  BY <1>2 DEF Init, Events!Init

\* Until two operations run beside each other the files, the catalog and the
\* answers are the table of EventTable: a step appends one whole batch that was
\* not there, answers for one that is, or changes nothing a reader could see.
THEOREM LakehouseImplementsEventTable == Spec => ImplementsEventTable
<1>1. LakehouseInv /\ LakehouseInv' /\ [Next]_vars => [overlapped' \/ Events!Next]_(Events!tableVars)
  BY EventsStep
<1>2. QED
  BY <1>1, EventsInit, LakehouseInvariant, PTL DEF Spec, ImplementsEventTable

=============================================================================
