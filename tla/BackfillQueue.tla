--------------------------- MODULE BackfillQueue ---------------------------
(***************************************************************************)
(* Historical backfills: apps/server creates a job and its chunks, and the *)
(* queued executors of tools/lakehouse-rebuild list, claim and execute the *)
(* chunks, publish a version and a watermark for each, and refresh the     *)
(* progress of the job.                                                    *)
(*                                                                         *)
(* Every ClickHouse statement is a step.  ClickHouse is external: a        *)
(* statement that returns an error may have taken effect or not, and an    *)
(* ALTER TABLE UPDATE takes effect at once on the rows it selects, unless  *)
(* it sets a column of the table's sorting key or its version: then it is  *)
(* refused.  The executors set status and updated_at, which are such       *)
(* columns of the tables deploy/clickhouse/schema.sql creates, so with     *)
(* these no chunk is ever claimed.                                         *)
(***************************************************************************)
EXTENDS Naturals, FiniteSets

CONSTANTS
  Jobs,                  \* backfill jobs
  NumChunks,             \* chunks are numbered by source_start
  JobOf,                 \* JobOf[c]: the job chunk c belongs to
  Executors,             \* processes that run the queue loop
  Parts,                 \* lakehouse data files with rows in a chunk's window
  MaxAttempts,           \* max_attempts of the chunks
  ChunksPerPass,         \* NANOTRACE_MATERIALIZATION_QUEUE_MAX_CHUNKS
  MaxFaults              \* bound: failed statements and crashes

Chunks == 1 .. NumChunks

ASSUME SizesAssumption ==
  /\ NumChunks \in Nat /\ ChunksPerPass \in Nat /\ MaxFaults \in Nat
  /\ MaxAttempts \in Nat \ {0}
ASSUME JobOfAssumption == JobOf \in [Chunks -> Jobs]
ASSUME ExecutorsAssumption == IsFiniteSet(Executors)

VARIABLES
  job,                   \* job[j]: status of the job's row
  chunk,                 \* chunk[c]: the chunk's row
  output,                \* output[c]: the parts whose result rows are inserted
  published,             \* published[c]: what is published for the chunk
  pc,                    \* pc[e]: where executor e is in its loop
  listed,                \* listed[e]: the chunks e's pass has still to claim, as they were read
  cur,                   \* cur[e]: the chunk e is at
  written,               \* written[e]: parts executed for the current chunk
  report,                \* report[e]: the job status e computed
  updatable,             \* the tables are others than those of schema.sql, and accept the updates
  lost,                  \* history: the chunks a failed statement or a crash interrupted
  faults                 \* faults so far, at most MaxFaults

tables == <<job, chunk, output, published>>
executor == <<pc, listed, cur, written, report>>
rest == <<updatable, lost, faults>>
vars == <<job, chunk, output, published, pc, listed, cur, written, report,
          updatable, lost, faults>>

JobStatuses == {"none", "pending", "running", "completed", "failed"}
ChunkStatuses == {"none", "pending", "running", "retry", "completed", "failed"}
Leases == {"none", "live", "expired"}
Publications == {"version", "watermark"}
Steps == {"idle", "claim", "execute", "complete", "version", "watermark", "fail",
          "progress", "refresh"}

Row == [status : ChunkStatuses, attempt : Nat, lease : Leases]
Listing == [chunk : Chunks, attempt : Nat]
NoListing == [chunk |-> 0, attempt |-> 0]

ChunksOf(j) == {c \in Chunks : JobOf[c] = j}

Init ==
  /\ job = [j \in Jobs |-> "none"]
  /\ chunk = [c \in Chunks |-> [status |-> "none", attempt |-> 0, lease |-> "none"]]
  /\ output = [c \in Chunks |-> {}]
  /\ published = [c \in Chunks |-> {}]
  /\ pc = [e \in Executors |-> "idle"]
  /\ listed = [e \in Executors |-> {}]
  /\ cur = [e \in Executors |-> NoListing]
  /\ written = [e \in Executors |-> {}]
  /\ report = [e \in Executors |-> "running"]
  /\ updatable \in BOOLEAN
  /\ lost = {}
  /\ faults = 0

Fault == faults < MaxFaults /\ faults' = faults + 1

\* Nobody takes up chunk c where its executor was interrupted.
Lose(c) == lost' = lost \cup {c}

-----------------------------------------------------------------------------
(* apps/server: create_backfill inserts the job's row, then those of its chunks.  *)
(* If the second insert fails, the job keeps no chunks.                           *)

InsertJob(j) ==
  /\ job[j] = "none"
  /\ job' = [job EXCEPT ![j] = "pending"]
  /\ UNCHANGED <<chunk, output, published, executor, rest>>

InsertChunks(j) ==
  /\ job[j] = "pending"
  /\ \A c \in ChunksOf(j) : chunk[c].status = "none"
  /\ chunk' = [c \in Chunks |-> IF JobOf[c] = j THEN [chunk[c] EXCEPT !.status = "pending"]
                                ELSE chunk[c]]
  /\ UNCHANGED <<job, output, published, executor, rest>>

-----------------------------------------------------------------------------
(* tools/lakehouse-rebuild: the queued executor *)

\* Time passes: leased_until is in the past.
Expire(c) ==
  /\ chunk[c].lease = "live"
  /\ chunk' = [chunk EXCEPT ![c].lease = "expired"]
  /\ UNCHANGED <<job, output, published, executor, rest>>

\* Mutant of Pending: chunks are listed whatever their attempts.
PendingUnbounded ==
  {c \in Chunks : chunk[c].status \in {"pending", "retry"} /\ chunk[c].lease # "live"}

\* The WHERE clause of the pending query.
Pending ==
  {c \in Chunks : /\ chunk[c].status \in {"pending", "retry"}
                  /\ chunk[c].attempt < MaxAttempts
                  /\ chunk[c].lease # "live"}

\* Its ORDER BY and LIMIT.
FirstPending == {c \in Pending : Cardinality({d \in Pending : d < c}) < ChunksPerPass}

List(e) ==
  /\ pc[e] = "idle"
  /\ FirstPending # {}
  /\ listed' = [listed EXCEPT ![e] =
                  {[chunk |-> c, attempt |-> chunk[c].attempt] : c \in FirstPending}]
  /\ pc' = [pc EXCEPT ![e] = "claim"]
  /\ UNCHANGED <<tables, cur, written, report, rest>>

Goto(e, step) == pc' = [pc EXCEPT ![e] = step]

\* Mutant of Abandon: the next pass goes on with the chunks left of this one.
AbandonListed(e) == Goto(e, "idle") /\ UNCHANGED <<listed, cur>>

\* The pass returns an error, or the process ends and is started again: the
\* chunks left of the pass are forgotten.
Abandon(e) ==
  /\ Goto(e, "idle")
  /\ listed' = [listed EXCEPT ![e] = {}]
  /\ cur' = [cur EXCEPT ![e] = NoListing]

\* The row claim_materialization_chunk writes, whatever the row was.
Claimed(row) == [status |-> "running", attempt |-> row.attempt + 1, lease |-> "live"]

\* The row complete_materialization_chunk and fail_materialization_chunk write.
Released(row, status) == [row EXCEPT !.status = status, !.lease = "none"]

\* The ALTER TABLE UPDATE is refused for the columns it sets.
Refused(e) == ~ updatable /\ Abandon(e) /\ UNCHANGED <<chunk, lost, faults>>

Claim(e) ==
  \E l \in listed[e] :
    LET update == updatable /\ chunk' = [chunk EXCEPT ![l.chunk] = Claimed(@)] IN
    /\ pc[e] = "claim"
    /\ \A m \in listed[e] : l.chunk <= m.chunk
    /\ \/ /\ update
          /\ Goto(e, "execute")
          /\ listed' = [listed EXCEPT ![e] = @ \ {l}]
          /\ cur' = [cur EXCEPT ![e] = l]
          /\ UNCHANGED <<lost, faults>>
       \/ Fault /\ Abandon(e) /\ ((update /\ Lose(l.chunk)) \/ UNCHANGED <<chunk, lost>>)
       \/ Refused(e)
    /\ written' = [written EXCEPT ![e] = {}]
    /\ UNCHANGED <<job, output, published, report, updatable>>

\* materialize_rows on one data file.  The deduplication token names job, chunk and
\* file, so inserting a part again changes nothing.
InsertPart(e, part) ==
  LET insert == output' = [output EXCEPT ![cur[e].chunk] = @ \cup {part}] IN
  \/ /\ insert
     /\ written' = [written EXCEPT ![e] = @ \cup {part}]
     /\ UNCHANGED <<pc, faults>>
  \/ Fault /\ Goto(e, "fail") /\ (insert \/ UNCHANGED output) /\ UNCHANGED written

\* execute_materialization_chunk.
Execute(e) ==
  /\ pc[e] = "execute"
  /\ \/ \E part \in Parts \ written[e] : InsertPart(e, part)
     \/ /\ written[e] = Parts
        /\ Goto(e, "complete")
        /\ UNCHANGED <<output, written, faults>>
  /\ UNCHANGED <<job, chunk, published, listed, cur, report, updatable, lost>>

Complete(e) ==
  LET update == chunk' = [chunk EXCEPT ![cur[e].chunk] = Released(@, "completed")] IN
  /\ pc[e] = "complete"
  /\ \/ update /\ Goto(e, "version") /\ UNCHANGED <<listed, cur, lost, faults>>
     \/ Fault /\ Abandon(e) /\ Lose(cur[e].chunk) /\ (update \/ UNCHANGED chunk)
  /\ UNCHANGED <<job, output, published, written, report, updatable>>

\* publish_queued_materialization_version: the version's row, then the watermark's.
Publish(e, what, next) ==
  LET insert == published' = [published EXCEPT ![cur[e].chunk] = @ \cup {what}] IN
  /\ pc[e] = what
  /\ \/ insert /\ Goto(e, next) /\ UNCHANGED <<listed, cur, lost, faults>>
     \/ Fault /\ Abandon(e) /\ Lose(cur[e].chunk) /\ (insert \/ UNCHANGED published)
  /\ UNCHANGED <<job, chunk, output, written, report, updatable>>

\* The attempt is the one that was listed, before the claim.
FailedStatus(attempt) == IF attempt + 1 >= MaxAttempts THEN "failed" ELSE "retry"

\* The rest of the pass is given up once the progress is refreshed.
Fail(e) ==
  LET update == chunk' = [chunk EXCEPT ![cur[e].chunk] =
                             Released(@, FailedStatus(cur[e].attempt))] IN
  /\ pc[e] = "fail"
  /\ \/ /\ update
        /\ Goto(e, "progress")
        /\ listed' = [listed EXCEPT ![e] = {}]
        /\ UNCHANGED <<cur, lost, faults>>
     \/ /\ Fault /\ Abandon(e)
        /\ (update /\ UNCHANGED lost) \/ (UNCHANGED chunk /\ Lose(cur[e].chunk))
  /\ UNCHANGED <<job, output, published, written, report, updatable>>

\* Mutant of JobStatus: a chunk that is not waiting counts as completed.
JobStatusEager(j) ==
  IF \E c \in ChunksOf(j) : chunk[c].status = "failed" THEN "failed"
  ELSE IF \A c \in ChunksOf(j) : chunk[c].status \notin {"pending", "retry"} THEN "completed"
  ELSE "running"

\* The job status refresh_materialization_job_progress computes from the chunks.
JobStatus(j) ==
  IF \E c \in ChunksOf(j) : chunk[c].status = "failed" THEN "failed"
  ELSE IF ChunksOf(j) # {} /\ \A c \in ChunksOf(j) : chunk[c].status = "completed"
  THEN "completed"
  ELSE "running"

ReadProgress(e) ==
  /\ pc[e] = "progress"
  /\ \/ /\ Goto(e, "refresh")
        /\ report' = [report EXCEPT ![e] = JobStatus(JobOf[cur[e].chunk])]
        /\ UNCHANGED <<listed, cur, faults>>
     \/ Fault /\ Abandon(e) /\ UNCHANGED report
  /\ UNCHANGED <<tables, written, updatable, lost>>

\* The status computed from the counts read before; then the next chunk of the pass.
RefreshJob(e) ==
  LET update == job' = [job EXCEPT ![JobOf[cur[e].chunk]] = report[e]] IN
  /\ pc[e] = "refresh"
  /\ \/ /\ update
        /\ Goto(e, IF listed[e] = {} THEN "idle" ELSE "claim")
        /\ cur' = [cur EXCEPT ![e] = NoListing]
        /\ UNCHANGED <<listed, faults>>
     \/ Fault /\ Abandon(e) /\ (update \/ UNCHANGED job)
  /\ UNCHANGED <<chunk, output, published, written, report, updatable, lost>>

\* Between the claim of a chunk and its watermark.
AtWork == {"execute", "complete", "version", "watermark", "fail"}

Crash(e) ==
  /\ pc[e] # "idle"
  /\ Fault
  /\ Abandon(e)
  /\ lost' = lost \cup {c \in Chunks : c = cur[e].chunk /\ pc[e] \in AtWork}
  /\ UNCHANGED <<tables, written, report, updatable>>

\* Mutant of PublishVersion: the watermark is not published.
PublishVersionOnly(e) == Publish(e, "version", "progress")

PublishVersion(e) == Publish(e, "version", "watermark")

PublishWatermark(e) == Publish(e, "watermark", "progress")

Step(e) ==
  \/ List(e) \/ Claim(e) \/ Execute(e) \/ Complete(e)
  \/ PublishVersion(e) \/ PublishWatermark(e)
  \/ Fail(e) \/ ReadProgress(e) \/ RefreshJob(e)

Next ==
  \/ \E j \in Jobs : InsertJob(j) \/ InsertChunks(j)
  \/ \E c \in Chunks : Expire(c)
  \/ \E e \in Executors : Step(e) \/ Crash(e)

Spec == Init /\ [][Next]_vars

\* Each executor keeps polling and time passes.
Fairness == (\A e \in Executors : WF_vars(Step(e))) /\ \A c \in Chunks : WF_vars(Expire(c))

FairSpec == Spec /\ Fairness

-----------------------------------------------------------------------------
(* Properties *)

TypeOK ==
  /\ job \in [Jobs -> JobStatuses]
  /\ chunk \in [Chunks -> Row]
  /\ output \in [Chunks -> SUBSET Parts]
  /\ published \in [Chunks -> SUBSET Publications]
  /\ pc \in [Executors -> Steps]
  /\ listed \in [Executors -> SUBSET Listing]
  /\ cur \in [Executors -> Listing \cup {NoListing}]
  /\ \A e \in Executors : /\ pc[e] = "idle" => listed[e] = {}
                         /\ cur[e] = NoListing <=> pc[e] \in {"idle", "claim"}
  /\ written \in [Executors -> SUBSET Parts]
  /\ report \in [Executors -> JobStatuses]
  /\ updatable \in BOOLEAN /\ lost \subseteq Chunks /\ faults \in Nat

\* What is reported completed or published is in the result table, whichever executors
\* ran the chunk and however they were interrupted.
Written(c) == output[c] = Parts

CompletedIsWritten ==
  \A c \in Chunks : chunk[c].status = "completed" \/ published[c] # {} => Written(c)

CompletedJobIsWritten ==
  \A j \in Jobs : job[j] = "completed" => \A c \in ChunksOf(j) : Written(c)

FinishedIsWritten == CompletedIsWritten /\ CompletedJobIsWritten

\* A chunk is given up only when it was claimed max_attempts times, and a job is
\* failed only for such a chunk: a stale listing never gives up early.
Exhausted(c) == chunk[c].attempt >= MaxAttempts

FailedIsExhausted ==
  /\ \A c \in Chunks : chunk[c].status = "failed" => Exhausted(c)
  /\ \A j \in Jobs : job[j] = "failed" => \E c \in ChunksOf(j) : Exhausted(c)

\* Claims are blind updates, so executors with stale listings claim a chunk once
\* more, but only once each.
AttemptsAreBounded ==
  \A c \in Chunks : chunk[c].attempt <= MaxAttempts + Cardinality(Executors) - 1

\* Retries are neither given up early nor repeated beyond these claims.
RetriesEndInTime == FailedIsExhausted /\ AttemptsAreBounded

\* What becomes of a chunk in the end: it is completed and its version and watermark are
\* published, or it was claimed max_attempts times, or an executor was interrupted at it.
\* (The last attempt of a stale listing leaves "retry", which is never listed again.)
Settled(c) ==
  \/ chunk[c].status = "completed" /\ published[c] = Publications
  \/ chunk[c].status \in {"failed", "retry"} /\ Exhausted(c)
  \/ c \in lost

\* Where the tables accept the updates, every chunk that waits is settled.  A pass that
\* ends, by an error or with its process, costs the chunk it was at and no other chunk it
\* listed or claimed, and two executors at one chunk do not keep it from being published.
WaitingChunkIsSettled ==
  \A c \in Chunks : updatable /\ chunk[c].status \in {"pending", "retry"} ~> Settled(c)
=============================================================================
