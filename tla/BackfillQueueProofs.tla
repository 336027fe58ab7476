------------------------ MODULE BackfillQueueProofs ------------------------
(***************************************************************************)
(* Theorems about BackfillQueue, for any set of jobs, chunks, executors    *)
(* and parts and any number of faults.                                     *)
(***************************************************************************)
EXTENDS BackfillQueue, FiniteSetTheorems, TLAPS

-----------------------------------------------------------------------------
(* Type correctness. *)

LEMMA CurrentChunk ==
  ASSUME TypeOK, NEW e \in Executors, pc[e] \notin {"idle", "claim"}
  PROVE  /\ cur[e] \in Listing /\ cur[e] # NoListing
         /\ cur[e].chunk \in Chunks /\ cur[e].attempt \in Nat
         /\ JobOf[cur[e].chunk] \in Jobs
BY JobOfAssumption DEF TypeOK, Listing

LEMMA ListedChunk ==
  ASSUME TypeOK, NEW e \in Executors, NEW l \in listed[e]
  PROVE  /\ l \in Listing /\ l # NoListing
         /\ l.chunk \in Chunks /\ l.attempt \in Nat
BY DEF TypeOK, Listing, NoListing, Chunks

LEMMA NoListingIsNone == NoListing \notin Listing
BY DEF Listing, NoListing, Chunks

LEMMA InitType == Init => TypeOK
BY DEF Init, TypeOK, JobStatuses, ChunkStatuses, Leases, Row, Steps

LEMMA AbandonType ==
  ASSUME TypeOK, NEW e \in Executors, Abandon(e)
  PROVE  /\ pc' \in [Executors -> Steps]
         /\ listed' \in [Executors -> SUBSET Listing]
         /\ cur' \in [Executors -> Listing \cup {NoListing}]
         /\ \A f \in Executors : /\ pc'[f] = "idle" => listed'[f] = {}
                                 /\ cur'[f] = NoListing <=> pc'[f] \in {"idle", "claim"}
BY DEF TypeOK, Abandon, Goto, Steps

LEMMA ListType ==
  ASSUME TypeOK, NEW e \in Executors, List(e)
  PROVE  TypeOK'
<1>1. FirstPending \subseteq Chunks
  BY DEF FirstPending, Pending
<1>2. {[chunk |-> c, attempt |-> chunk[c].attempt] : c \in FirstPending} \subseteq Listing
  BY <1>1 DEF TypeOK, Listing, Row
<1>3. listed' \in [Executors -> SUBSET Listing]
  BY <1>2 DEF List, TypeOK
<1>4. QED
  BY <1>3 DEF List, TypeOK, Steps, tables, rest

LEMMA ClaimType ==
  ASSUME TypeOK, NEW e \in Executors, Claim(e)
  PROVE  TypeOK'
<1>1. PICK l \in listed[e] :
        LET update == updatable /\ chunk' = [chunk EXCEPT ![l.chunk] = Claimed(@)] IN
        \/ /\ update
           /\ Goto(e, "execute")
           /\ listed' = [listed EXCEPT ![e] = @ \ {l}]
           /\ cur' = [cur EXCEPT ![e] = l]
           /\ UNCHANGED <<lost, faults>>
        \/ Fault /\ Abandon(e) /\ ((update /\ Lose(l.chunk)) \/ UNCHANGED <<chunk, lost>>)
        \/ Refused(e)
  BY DEF Claim
<1>2. l \in Listing /\ l # NoListing /\ l.chunk \in Chunks
  BY ListedChunk
<1>3. [chunk EXCEPT ![l.chunk] = Claimed(@)] \in [Chunks -> Row]
  BY <1>2 DEF TypeOK, Row, Claimed, ChunkStatuses, Leases
<1>4. /\ written' \in [Executors -> SUBSET Parts]
      /\ UNCHANGED <<job, output, published, report, updatable>>
  BY DEF Claim, TypeOK
<1>5. CASE Abandon(e) /\ (Fault \/ Refused(e))
  <2>1. faults' \in Nat /\ lost' \subseteq Chunks /\ chunk' \in [Chunks -> Row]
    BY <1>1, <1>2, <1>3, <1>5 DEF TypeOK, Fault, Lose, Refused
  <2>2. QED
    BY <1>4, <1>5, <2>1, AbandonType DEF TypeOK
<1>6. CASE Goto(e, "execute") /\ listed' = [listed EXCEPT ![e] = @ \ {l}]
           /\ cur' = [cur EXCEPT ![e] = l] /\ UNCHANGED <<lost, faults>>
           /\ chunk' = [chunk EXCEPT ![l.chunk] = Claimed(@)]
  BY <1>2, <1>3, <1>4, <1>6 DEF TypeOK, Goto, Steps
<1>7. QED
  BY <1>1, <1>5, <1>6 DEF Refused

LEMMA ReleasedType ==
  ASSUME TypeOK, NEW c \in Chunks, NEW s \in ChunkStatuses
  PROVE  [chunk EXCEPT ![c] = Released(@, s)] \in [Chunks -> Row]
BY DEF TypeOK, Row, Released, ChunkStatuses, Leases

\* What the actions that go from one step to the next have in common.
LEMMA GotoType ==
  ASSUME TypeOK, NEW e \in Executors, pc[e] \notin {"idle", "claim"},
         NEW step \in Steps \ {"idle", "claim"}, Goto(e, step), UNCHANGED cur
  PROVE  /\ pc' \in [Executors -> Steps]
         /\ cur' \in [Executors -> Listing \cup {NoListing}]
         /\ \A f \in Executors : cur'[f] = NoListing <=> pc'[f] \in {"idle", "claim"}
         /\ \A f \in Executors : pc'[f] = "idle" => pc[f] = "idle"
BY DEF TypeOK, Goto

LEMMA ExecuteType ==
  ASSUME TypeOK, NEW e \in Executors, Execute(e)
  PROVE  TypeOK'
<1>1. cur[e].chunk \in Chunks /\ pc[e] \notin {"idle", "claim"}
  BY CurrentChunk DEF Execute
<1>2. ASSUME NEW part \in Parts \ written[e], InsertPart(e, part)
      PROVE  TypeOK'
  <2>1. output' \in [Chunks -> SUBSET Parts] /\ written' \in [Executors -> SUBSET Parts]
    BY <1>1, <1>2 DEF TypeOK, InsertPart
  <2>2. CASE UNCHANGED <<pc, faults>>
    BY <2>1, <2>2 DEF Execute, TypeOK
  <2>3. CASE Fault /\ Goto(e, "fail")
    BY <1>1, <2>1, <2>3, GotoType DEF Execute, TypeOK, Fault, Steps
  <2>4. QED
    BY <1>2, <2>2, <2>3 DEF InsertPart
<1>3. CASE Goto(e, "complete") /\ UNCHANGED <<output, written, faults>>
  BY <1>1, <1>3, GotoType DEF Execute, TypeOK, Steps
<1>4. QED
  BY <1>2, <1>3 DEF Execute

LEMMA CompleteType ==
  ASSUME TypeOK, NEW e \in Executors, Complete(e)
  PROVE  TypeOK'
<1>1. cur[e].chunk \in Chunks /\ pc[e] \notin {"idle", "claim"}
  BY CurrentChunk DEF Complete
<1>2. chunk' \in [Chunks -> Row]
  BY <1>1, ReleasedType DEF Complete, ChunkStatuses, TypeOK
<1>3. CASE Fault /\ Abandon(e)
  BY <1>1, <1>2, <1>3, AbandonType DEF Complete, TypeOK, Fault, Lose
<1>4. CASE Goto(e, "version") /\ UNCHANGED <<listed, cur, lost, faults>>
  BY <1>1, <1>2, <1>4, GotoType DEF Complete, TypeOK, Steps
<1>5. QED
  BY <1>3, <1>4 DEF Complete

LEMMA PublishType ==
  ASSUME TypeOK, NEW e \in Executors, NEW what \in Publications,
         NEW next \in {"watermark", "progress"}, Publish(e, what, next)
  PROVE  TypeOK'
<1>1. cur[e].chunk \in Chunks /\ pc[e] \notin {"idle", "claim"}
  BY CurrentChunk DEF Publish, Publications
<1>2. published' \in [Chunks -> SUBSET Publications]
  BY <1>1 DEF Publish, TypeOK
<1>3. CASE Fault /\ Abandon(e)
  BY <1>1, <1>2, <1>3, AbandonType DEF Publish, TypeOK, Fault, Lose
<1>4. CASE Goto(e, next) /\ UNCHANGED <<listed, cur, lost, faults>>
  BY <1>1, <1>2, <1>4, GotoType DEF Publish, TypeOK, Steps
<1>5. QED
  BY <1>3, <1>4 DEF Publish

LEMMA FailType ==
  ASSUME TypeOK, NEW e \in Executors, Fail(e)
  PROVE  TypeOK'
<1>1. cur[e].chunk \in Chunks /\ pc[e] \notin {"idle", "claim"}
  BY CurrentChunk DEF Fail
<1>2. chunk' \in [Chunks -> Row]
  BY <1>1, ReleasedType DEF Fail, FailedStatus, ChunkStatuses, TypeOK
<1>3. CASE Fault /\ Abandon(e)
  BY <1>1, <1>2, <1>3, AbandonType DEF Fail, TypeOK, Fault, Lose
<1>4. CASE Goto(e, "progress") /\ listed' = [listed EXCEPT ![e] = {}] /\ UNCHANGED <<cur, lost, faults>>
  BY <1>1, <1>2, <1>4, GotoType DEF Fail, TypeOK, Steps
<1>5. QED
  BY <1>3, <1>4 DEF Fail

LEMMA ReadProgressType ==
  ASSUME TypeOK, NEW e \in Executors, ReadProgress(e)
  PROVE  TypeOK'
<1>1. pc[e] \notin {"idle", "claim"}
  BY DEF ReadProgress
<1>2. CASE Fault /\ Abandon(e) /\ UNCHANGED report
  BY <1>2, AbandonType DEF ReadProgress, TypeOK, Fault, tables
<1>3. CASE Goto(e, "refresh") /\ UNCHANGED <<listed, cur, faults>>
           /\ report' = [report EXCEPT ![e] = JobStatus(JobOf[cur[e].chunk])]
  <2>1. JobStatus(JobOf[cur[e].chunk]) \in JobStatuses
    BY DEF JobStatus, JobStatuses
  <2>2. report' \in [Executors -> JobStatuses]
    BY <1>3, <2>1 DEF TypeOK
  <2>3. QED
    BY <1>1, <1>3, <2>2, GotoType DEF ReadProgress, TypeOK, Steps, tables
<1>4. QED
  BY <1>2, <1>3 DEF ReadProgress

LEMMA RefreshJobType ==
  ASSUME TypeOK, NEW e \in Executors, RefreshJob(e)
  PROVE  TypeOK'
<1>1. JobOf[cur[e].chunk] \in Jobs
  BY CurrentChunk DEF RefreshJob
<1>2. job' \in [Jobs -> JobStatuses]
  BY <1>1 DEF RefreshJob, TypeOK
<1>3. CASE Fault /\ Abandon(e)
  BY <1>2, <1>3, AbandonType DEF RefreshJob, TypeOK, Fault
<1>4. CASE Goto(e, IF listed[e] = {} THEN "idle" ELSE "claim") /\ UNCHANGED <<listed, faults>>
           /\ cur' = [cur EXCEPT ![e] = NoListing]
  BY <1>2, <1>4 DEF RefreshJob, TypeOK, Goto, Steps
<1>5. QED
  BY <1>3, <1>4 DEF RefreshJob

LEMMA NextType == TypeOK /\ [Next]_vars => TypeOK'
<1> SUFFICES ASSUME TypeOK, [Next]_vars PROVE TypeOK'
  OBVIOUS
<1>1. ASSUME NEW j \in Jobs, InsertJob(j) PROVE TypeOK'
  BY <1>1 DEF InsertJob, TypeOK, executor, rest, JobStatuses
<1>2. ASSUME NEW j \in Jobs, InsertChunks(j) PROVE TypeOK'
  <2>1. chunk' \in [Chunks -> Row]
    BY <1>2 DEF InsertChunks, TypeOK, Row, ChunkStatuses
  <2>2. QED
    BY <1>2, <2>1 DEF InsertChunks, TypeOK, executor, rest
<1>3. ASSUME NEW c \in Chunks, Expire(c) PROVE TypeOK'
  <2>1. chunk' \in [Chunks -> Row]
    BY <1>3 DEF Expire, TypeOK, Row, Leases
  <2>2. QED
    BY <1>3, <2>1 DEF Expire, TypeOK, executor, rest
<1>4. ASSUME NEW e \in Executors, Step(e) PROVE TypeOK'
  BY <1>4, ListType, ClaimType, ExecuteType, CompleteType, PublishType, FailType,
     ReadProgressType, RefreshJobType DEF Step, PublishVersion, PublishWatermark, Publications
<1>5. ASSUME NEW e \in Executors, Crash(e) PROVE TypeOK'
  BY <1>5, AbandonType DEF Crash, Fault, TypeOK, tables
<1>6. CASE UNCHANGED vars
  BY <1>6 DEF vars, TypeOK
<1>7. QED
  BY <1>1, <1>2, <1>3, <1>4, <1>5, <1>6 DEF Next

\* Every variable keeps its type, and an executor is at a chunk exactly while it is
\* between claiming it and refreshing its job.
THEOREM TypeCorrect == Spec => []TypeOK
BY InitType, NextType, PTL DEF Spec

-----------------------------------------------------------------------------
(* What no step takes back, and what an executor leaves to the others. *)

LEMMA RowFields ==
  ASSUME NEW row \in Row
  PROVE  /\ row.attempt \in Nat /\ row.status \in ChunkStatuses
         /\ Claimed(row).attempt = row.attempt + 1 /\ Claimed(row).status = "running"
         /\ \A s : Released(row, s).attempt = row.attempt /\ Released(row, s).status = s
BY DEF Row, Claimed, Released

LEMMA ChunkFields ==
  ASSUME TypeOK, NEW c \in Chunks
  PROVE  chunk[c] \in Row /\ chunk[c].attempt \in Nat
BY DEF TypeOK, Row

\* complete_materialization_chunk and fail_materialization_chunk.
LEMMA ReleaseChanges ==
  ASSUME TypeOK, NEW e \in Executors, Complete(e) \/ Fail(e), NEW c \in Chunks
  PROVE  \/ chunk'[c] = chunk[c]
         \/ /\ cur[e].chunk = c
            /\ \/ Complete(e) /\ chunk'[c] = Released(chunk[c], "completed")
               \/ Fail(e) /\ chunk'[c] = Released(chunk[c], FailedStatus(cur[e].attempt))
<1>1. CASE Complete(e)
  BY <1>1 DEF Complete, TypeOK
<1>2. CASE Fail(e)
  BY <1>2 DEF Fail, TypeOK
<1>3. QED
  BY <1>1, <1>2

LEMMA ClaimChanges ==
  ASSUME TypeOK, NEW e \in Executors, Claim(e), NEW c \in Chunks
  PROVE  \/ chunk'[c] = chunk[c]
         \/ /\ chunk'[c] = Claimed(chunk[c])
            /\ \E l \in listed[e] : l.chunk = c
<1>1. PICK l \in listed[e] : chunk' = [chunk EXCEPT ![l.chunk] = Claimed(@)] \/ UNCHANGED chunk
  BY DEF Claim, Refused
<1>2. QED
  BY <1>1 DEF TypeOK

LEMMA Grows ==
  ASSUME TypeOK, [Next]_vars
  PROVE  \A c \in Chunks : /\ output[c] \subseteq output'[c]
                           /\ chunk[c].attempt <= chunk'[c].attempt
<1>1. ASSUME NEW e \in Executors, Step(e)
      PROVE  \A c \in Chunks : output[c] \subseteq output'[c]
  BY <1>1 DEF TypeOK, Step, List, Claim, Execute, InsertPart, Complete, PublishVersion,
     PublishWatermark, Publish, Fail, ReadProgress, RefreshJob, tables
<1>2. ASSUME NEW e \in Executors, Claim(e)
      PROVE  \A c \in Chunks : chunk[c].attempt <= chunk'[c].attempt
  <2>1. ASSUME NEW c \in Chunks
        PROVE  chunk[c].attempt <= chunk'[c].attempt
    BY <1>2, ClaimChanges, ChunkFields, RowFields
  <2>2. QED
    BY <2>1
<1>3. ASSUME NEW e \in Executors, Complete(e) \/ Fail(e)
      PROVE  \A c \in Chunks : chunk[c].attempt <= chunk'[c].attempt
  <2>1. ASSUME NEW c \in Chunks
        PROVE  chunk[c].attempt <= chunk'[c].attempt
    BY <1>3, ReleaseChanges, ChunkFields, RowFields
  <2>2. QED
    BY <2>1
<1>4. ASSUME NEW e \in Executors, Step(e)
      PROVE  \A c \in Chunks : chunk[c].attempt <= chunk'[c].attempt
  <2>1. CASE UNCHANGED chunk
    BY <2>1 DEF TypeOK, Row
  <2>2. QED
    BY <1>2, <1>3, <1>4, <2>1 DEF Step, List, Execute, PublishVersion, PublishWatermark, Publish,
       ReadProgress, RefreshJob, tables
<1>5. ASSUME NEW j \in Jobs, InsertJob(j) \/ InsertChunks(j)
      PROVE  \A c \in Chunks : /\ output[c] \subseteq output'[c]
                               /\ chunk[c].attempt <= chunk'[c].attempt
  BY <1>5 DEF TypeOK, Row, InsertJob, InsertChunks
<1>6. ASSUME NEW d \in Chunks, Expire(d)
      PROVE  \A c \in Chunks : /\ output[c] \subseteq output'[c]
                               /\ chunk[c].attempt <= chunk'[c].attempt
  BY <1>6 DEF TypeOK, Row, Expire
<1>7. ASSUME UNCHANGED <<output, chunk>>
      PROVE  \A c \in Chunks : /\ output[c] \subseteq output'[c]
                               /\ chunk[c].attempt <= chunk'[c].attempt
  BY <1>7 DEF TypeOK, Row
<1>8. QED
  BY <1>1, <1>4, <1>5, <1>6, <1>7 DEF Next, vars, Crash, tables

LEMMA WrittenStays ==
  ASSUME TypeOK, TypeOK', [Next]_vars, NEW c \in Chunks
  PROVE  /\ Written(c) => Written(c)'
         /\ Exhausted(c) => Exhausted(c)'
<1>1. Written(c) => Written(c)'
  <2>1. output[c] \subseteq output'[c]
    BY Grows
  <2>2. output'[c] \subseteq Parts
    BY DEF TypeOK
  <2>3. QED
    BY <2>1, <2>2 DEF Written
<1>2. Exhausted(c) => Exhausted(c)'
  BY Grows, SizesAssumption DEF Exhausted, TypeOK, Row
<1>3. QED
  BY <1>1, <1>2

\* The state of executor f.
Local(f) == <<pc[f], listed[f], cur[f], written[f], report[f]>>

LEMMA OthersAreLeftAlone ==
  ASSUME TypeOK, NEW e \in Executors, Step(e) \/ Crash(e), NEW f \in Executors \ {e}
  PROVE  UNCHANGED Local(f)
BY DEF TypeOK, Local, Step, List, Claim, Refused, Execute, InsertPart, Complete, PublishVersion,
   PublishWatermark, Publish, Fail, ReadProgress, RefreshJob, Crash, Abandon, Goto, tables

\* Where executor f is after its own step.
LEMMA OwnStep ==
  ASSUME TypeOK, [Next]_vars, NEW f \in Executors
  PROVE  UNCHANGED Local(f) \/ Step(f) \/ Crash(f)
BY OthersAreLeftAlone DEF Next, vars, InsertJob, InsertChunks, Expire, Local, executor

-----------------------------------------------------------------------------
(* What is completed or published is written. *)

\* An executor has inserted what it counts as written, and all of its chunk once it
\* reports the chunk.
WorkIsDone ==
  \A e \in Executors :
    /\ pc[e] = "execute" => written[e] \subseteq output[cur[e].chunk]
    /\ pc[e] \in {"complete", "version", "watermark"} => Written(cur[e].chunk)

LEMMA WorkIsDoneStep ==
  ASSUME TypeOK, TypeOK', WorkIsDone, [Next]_vars
  PROVE  WorkIsDone'
<1> SUFFICES ASSUME NEW e \in Executors
             PROVE  /\ pc'[e] = "execute" => written'[e] \subseteq output'[cur'[e].chunk]
                    /\ pc'[e] \in {"complete", "version", "watermark"} => Written(cur[e].chunk)'
  BY DEF WorkIsDone
<1>1. CASE UNCHANGED Local(e)
  <2>1. CASE pc[e] \in {"execute", "complete", "version", "watermark"}
    <3>1. cur[e].chunk \in Chunks
      BY <2>1, CurrentChunk
    <3>2. QED
      BY <1>1, <3>1, Grows, WrittenStays DEF WorkIsDone, Local, Written
  <2>2. CASE pc[e] \notin {"execute", "complete", "version", "watermark"}
    BY <1>1, <2>2 DEF Local
  <2>3. QED
    BY <2>1, <2>2
<1>2. CASE Claim(e)
  <2>1. written'[e] = {} /\ pc'[e] \in {"idle", "execute"}
    BY <1>2 DEF Claim, Refused, Goto, Abandon, TypeOK
  <2>2. QED
    BY <2>1
<1>3. CASE Execute(e)
  <2>1. cur[e].chunk \in Chunks /\ UNCHANGED cur
    BY <1>3, CurrentChunk DEF Execute
  <2>2. ASSUME NEW part \in Parts \ written[e], InsertPart(e, part), pc'[e] = "execute"
        PROVE  written'[e] \subseteq output'[cur'[e].chunk]
    <3>1. CASE UNCHANGED pc
      BY <1>3, <2>1, <2>2, <3>1 DEF InsertPart, Goto, Execute, WorkIsDone, TypeOK
    <3>2. CASE Goto(e, "fail")
      BY <2>2, <3>2 DEF Goto, TypeOK
    <3>3. QED
      BY <2>2, <3>1, <3>2 DEF InsertPart
  <2>3. ASSUME NEW part \in Parts \ written[e], InsertPart(e, part)
        PROVE  pc'[e] \in {"execute", "fail"}
    BY <1>3, <2>3 DEF Execute, InsertPart, Goto, TypeOK
  <2>4. ASSUME written[e] = Parts, Goto(e, "complete"), UNCHANGED <<output, written, faults>>
        PROVE  pc'[e] = "complete" /\ Written(cur[e].chunk)'
    <3>1. output[cur[e].chunk] \subseteq Parts /\ Parts \subseteq output[cur[e].chunk]
      BY <1>3, <2>1, <2>4 DEF Execute, TypeOK, WorkIsDone
    <3>2. output'[cur'[e].chunk] = Parts
      BY <2>1, <2>4, <3>1
    <3>3. QED
      BY <2>4, <3>2 DEF Goto, TypeOK, Written
  <2>5. QED
    BY <1>3, <2>2, <2>3, <2>4 DEF Execute
<1>4. CASE Complete(e) \/ PublishVersion(e)
  <2>1. cur[e].chunk \in Chunks /\ Written(cur[e].chunk)
    BY <1>4, CurrentChunk DEF Complete, PublishVersion, Publish, WorkIsDone
  <2>2. pc'[e] # "idle" => UNCHANGED cur
    BY <1>4 DEF Complete, PublishVersion, Publish, Abandon, Goto, TypeOK
  <2>3. pc'[e] # "execute"
    BY <1>4 DEF Complete, PublishVersion, Publish, Abandon, Goto, TypeOK
  <2>4. QED
    BY <2>1, <2>2, <2>3, WrittenStays DEF Written
<1>5. CASE List(e) \/ PublishWatermark(e) \/ Fail(e) \/ ReadProgress(e) \/ RefreshJob(e) \/ Crash(e)
  <2>1. pc'[e] \in {"idle", "claim", "progress", "refresh"}
    BY <1>5 DEF List, PublishWatermark, Publish, Fail, ReadProgress, RefreshJob, Crash, Abandon,
       Goto, TypeOK
  <2>2. QED
    BY <2>1
<1>6. QED
  BY <1>1, <1>2, <1>3, <1>4, <1>5, OwnStep DEF Step

\* Which actions write a status or publish.
LEMMA CompletedStep ==
  ASSUME TypeOK, TypeOK', WorkIsDone, CompletedIsWritten, [Next]_vars
  PROVE  CompletedIsWritten'
<1> SUFFICES ASSUME NEW c \in Chunks, chunk'[c].status = "completed" \/ published'[c] # {}
             PROVE  Written(c)'
  BY DEF CompletedIsWritten
<1>1. CASE chunk[c].status = "completed" \/ published[c] # {}
  BY <1>1, WrittenStays DEF CompletedIsWritten
<1>2. ASSUME NEW e \in Executors, Complete(e) \/ PublishVersion(e) \/ PublishWatermark(e),
             cur[e].chunk = c
      PROVE  Written(c)'
  BY <1>2, WrittenStays DEF Complete, PublishVersion, PublishWatermark, Publish, WorkIsDone
<1>3. ASSUME NEW e \in Executors, Step(e), chunk'[c].status = "completed",
             chunk[c].status # "completed"
      PROVE  Complete(e) /\ cur[e].chunk = c
  <2>1. ~ Claim(e)
    BY <1>3, ClaimChanges, ChunkFields, RowFields
  <2>2. ~ Fail(e)
    <3>1. Fail(e) => ~ Complete(e)
      BY DEF Fail, Complete
    <3>2. QED
      BY <1>3, <3>1, ReleaseChanges, ChunkFields, RowFields DEF FailedStatus
  <2>3. Complete(e)
    BY <1>3, <2>1, <2>2 DEF Step, List, Execute, PublishVersion, PublishWatermark, Publish,
       ReadProgress, RefreshJob, tables
  <2>4. QED
    BY <1>3, <2>3 DEF Complete, TypeOK
<1>4. ASSUME NEW e \in Executors, Step(e), published'[c] # {}, published[c] = {}
      PROVE  (PublishVersion(e) \/ PublishWatermark(e)) /\ cur[e].chunk = c
  <2>1. PublishVersion(e) \/ PublishWatermark(e)
    BY <1>4 DEF Step, List, Claim, Execute, Complete, Fail, ReadProgress, RefreshJob, tables
  <2>2. QED
    BY <1>4, <2>1 DEF PublishVersion, PublishWatermark, Publish, TypeOK
<1>5. CASE ~ \E e \in Executors : Step(e)
  <2>1. UNCHANGED published
    BY <1>5 DEF Next, vars, InsertJob, InsertChunks, Expire, Crash, tables
  <2>2. chunk'[c].status = "completed" => chunk[c].status = "completed"
    <3>1. ASSUME NEW j \in Jobs, InsertChunks(j)
          PROVE  chunk'[c].status = "completed" => chunk[c].status = "completed"
      BY <3>1 DEF InsertChunks, TypeOK, Row
    <3>2. ASSUME NEW d \in Chunks, Expire(d)
          PROVE  chunk'[c].status = "completed" => chunk[c].status = "completed"
      BY <3>2 DEF Expire, TypeOK, Row
    <3>3. CASE UNCHANGED chunk
      BY <3>3
    <3>4. QED
      BY <1>5, <3>1, <3>2, <3>3 DEF Next, vars, InsertJob, Crash, tables
  <2>3. QED
    BY <1>1, <2>1, <2>2
<1>6. QED
  BY <1>1, <1>2, <1>3, <1>4, <1>5

-----------------------------------------------------------------------------
(* A job's status. *)

\* The status an executor is about to write was true of the chunks when it was
\* computed, and completion and exhaustion stay true.
ReportIsTrue ==
  \A e \in Executors : pc[e] = "refresh" =>
    /\ report[e] = "completed" => \A c \in ChunksOf(JobOf[cur[e].chunk]) : Written(c)
    /\ report[e] = "failed" => \E c \in ChunksOf(JobOf[cur[e].chunk]) : Exhausted(c)

\* A chunk was claimed after each of its listings that is worked on.
ClaimsAreCounted ==
  \A e \in Executors :
    /\ \A l \in listed[e] : l.attempt <= chunk[l.chunk].attempt
    /\ pc[e] \notin {"idle", "claim"} => cur[e].attempt < chunk[cur[e].chunk].attempt

LEMMA ClaimsAreCountedStep ==
  ASSUME TypeOK, TypeOK', ClaimsAreCounted, [Next]_vars
  PROVE  ClaimsAreCounted'
<1> SUFFICES ASSUME NEW e \in Executors
             PROVE  /\ \A l \in listed'[e] : l.attempt <= chunk'[l.chunk].attempt
                    /\ pc'[e] \notin {"idle", "claim"} =>
                         cur'[e].attempt < chunk'[cur'[e].chunk].attempt
  BY DEF ClaimsAreCounted
<1>1. ASSUME NEW l \in listed[e]
      PROVE  l.attempt <= chunk'[l.chunk].attempt
  <2>1. /\ l.chunk \in Chunks /\ l.attempt \in Nat /\ chunk[l.chunk].attempt \in Nat
        /\ chunk'[l.chunk].attempt \in Nat
    BY ListedChunk, ChunkFields DEF TypeOK, Row
  <2>2. l.attempt <= chunk[l.chunk].attempt /\ chunk[l.chunk].attempt <= chunk'[l.chunk].attempt
    BY <2>1, Grows DEF ClaimsAreCounted
  <2>3. QED
    BY <2>1, <2>2
<1>2. ASSUME pc[e] \notin {"idle", "claim"}
      PROVE  cur[e].attempt < chunk'[cur[e].chunk].attempt
  <2>1. /\ cur[e].chunk \in Chunks /\ cur[e].attempt \in Nat /\ chunk[cur[e].chunk].attempt \in Nat
        /\ chunk'[cur[e].chunk].attempt \in Nat
    BY <1>2, CurrentChunk, ChunkFields DEF TypeOK, Row
  <2>2. /\ cur[e].attempt < chunk[cur[e].chunk].attempt
        /\ chunk[cur[e].chunk].attempt <= chunk'[cur[e].chunk].attempt
    BY <1>2, <2>1, Grows DEF ClaimsAreCounted
  <2>3. QED
    BY <2>1, <2>2
<1>3. CASE List(e)
  <2>1. pc'[e] = "claim" /\ UNCHANGED chunk
    BY <1>3 DEF List, tables, TypeOK
  <2>2. \A c \in FirstPending : c \in Chunks
    BY DEF FirstPending, Pending
  <2>3. \A l \in listed'[e] : \E c \in FirstPending : l = [chunk |-> c, attempt |-> chunk[c].attempt]
    BY <1>3 DEF List, TypeOK
  <2>4. \A l \in listed'[e] : l.attempt <= chunk'[l.chunk].attempt
    BY <2>1, <2>2, <2>3, ChunkFields
  <2>5. QED
    BY <2>1, <2>4
<1>4. CASE Claim(e)
  <2>1. listed'[e] \subseteq listed[e]
    BY <1>4 DEF Claim, Refused, Abandon, TypeOK
  <2>2. ASSUME pc'[e] \notin {"idle", "claim"}
        PROVE  cur'[e].attempt < chunk'[cur'[e].chunk].attempt
    <3>1. PICK l \in listed[e] : cur'[e] = l /\ chunk' = [chunk EXCEPT ![l.chunk] = Claimed(@)]
      BY <1>4, <2>2 DEF Claim, Refused, Abandon, Goto, TypeOK
    <3>2. l.chunk \in Chunks /\ l.attempt \in Nat /\ l.attempt <= chunk[l.chunk].attempt
      BY ListedChunk DEF ClaimsAreCounted
    <3>3. chunk'[l.chunk] = Claimed(chunk[l.chunk])
      BY <3>1, <3>2 DEF TypeOK
    <3>4. QED
      BY <3>1, <3>2, <3>3, ChunkFields, RowFields
  <2>3. QED
    BY <1>1, <2>1, <2>2
<1>5. CASE UNCHANGED Local(e)
  BY <1>1, <1>2, <1>5 DEF Local
<1>6. CASE Crash(e) \/ Execute(e) \/ Complete(e) \/ PublishVersion(e) \/ PublishWatermark(e)
           \/ Fail(e) \/ ReadProgress(e) \/ RefreshJob(e)
  <2>1. listed'[e] \subseteq listed[e]
    BY <1>6 DEF Crash, Execute, Complete, PublishVersion, PublishWatermark, Publish, Fail,
       ReadProgress, RefreshJob, Abandon, TypeOK
  <2>2. pc'[e] \notin {"idle", "claim"} => pc[e] \notin {"idle", "claim"} /\ cur'[e] = cur[e]
    BY <1>6 DEF Crash, Execute, Complete, PublishVersion, PublishWatermark, Publish, Fail,
       ReadProgress, RefreshJob, Abandon, Goto, TypeOK
  <2>3. QED
    BY <1>1, <1>2, <2>1, <2>2
<1>7. QED
  BY <1>3, <1>4, <1>5, <1>6, OwnStep DEF Step

LEMMA ReportIsTrueStep ==
  ASSUME TypeOK, TypeOK', CompletedIsWritten, FailedIsExhausted, ReportIsTrue, [Next]_vars
  PROVE  ReportIsTrue'
<1> SUFFICES ASSUME NEW e \in Executors, pc'[e] = "refresh"
             PROVE  /\ report'[e] = "completed" =>
                         \A c \in ChunksOf(JobOf[cur'[e].chunk]) : Written(c)'
                    /\ report'[e] = "failed" =>
                         \E c \in ChunksOf(JobOf[cur'[e].chunk]) : Exhausted(c)'
  BY DEF ReportIsTrue, ChunksOf
<1>1. \A j : ChunksOf(j) \subseteq Chunks
  BY DEF ChunksOf
<1>2. CASE UNCHANGED Local(e)
  BY <1>1, <1>2, WrittenStays DEF Local, ReportIsTrue
<1>3. CASE ReadProgress(e)
  <2>1. /\ cur'[e] = cur[e] /\ report'[e] = JobStatus(JobOf[cur[e].chunk])
    BY <1>3 DEF ReadProgress, Abandon, Goto, TypeOK
  <2>2. report'[e] = "completed" =>
          \A c \in ChunksOf(JobOf[cur[e].chunk]) : chunk[c].status = "completed"
    BY <2>1 DEF JobStatus
  <2>3. report'[e] = "failed" =>
          \E c \in ChunksOf(JobOf[cur[e].chunk]) : chunk[c].status = "failed"
    BY <2>1 DEF JobStatus
  <2>4. QED
    BY <1>1, <2>1, <2>2, <2>3, WrittenStays DEF CompletedIsWritten, FailedIsExhausted
<1>4. CASE Crash(e) \/ (Step(e) /\ ~ ReadProgress(e))
  <2>1. pc'[e] # "refresh"
    BY <1>4 DEF Crash, Step, List, Claim, Refused, Execute, InsertPart, Complete, PublishVersion,
       PublishWatermark, Publish, Fail, RefreshJob, Abandon, Goto, TypeOK
  <2>2. QED
    BY <2>1
<1>5. QED
  BY <1>2, <1>3, <1>4, OwnStep

\* Only RefreshJob completes or fails a job.
LEMMA JobChanges ==
  ASSUME TypeOK, [Next]_vars, NEW j \in Jobs, job'[j] \in {"completed", "failed"}, job'[j] # job[j]
  PROVE  \E e \in Executors : /\ pc[e] = "refresh" /\ j = JobOf[cur[e].chunk]
                              /\ job'[j] = report[e]
<1>1. PICK e \in Executors : RefreshJob(e)
  BY DEF Next, vars, InsertJob, InsertChunks, Expire, Crash, Step, List, Claim, Execute, Complete,
     PublishVersion, PublishWatermark, Publish, Fail, ReadProgress, tables, TypeOK
<1>2. QED
  BY <1>1 DEF RefreshJob, TypeOK

LEMMA CompletedJobStep ==
  ASSUME TypeOK, TypeOK', ReportIsTrue, CompletedJobIsWritten, [Next]_vars
  PROVE  CompletedJobIsWritten'
<1> SUFFICES ASSUME NEW j \in Jobs, job'[j] = "completed", NEW c \in ChunksOf(j)
             PROVE  Written(c)'
  BY DEF CompletedJobIsWritten, ChunksOf
<1>1. c \in Chunks
  BY DEF ChunksOf
<1>2. Written(c)
  BY JobChanges DEF ReportIsTrue, CompletedJobIsWritten
<1>3. QED
  BY <1>1, <1>2, WrittenStays

LEMMA FailedStep ==
  ASSUME TypeOK, TypeOK', ClaimsAreCounted, ReportIsTrue, FailedIsExhausted, [Next]_vars
  PROVE  FailedIsExhausted'
<1>1. ASSUME NEW c \in Chunks, chunk'[c].status = "failed"
      PROVE  Exhausted(c)'
  <2>1. CASE chunk[c].status = "failed"
    BY <2>1, WrittenStays DEF FailedIsExhausted
  <2>2. ASSUME chunk[c].status # "failed", NEW e \in Executors, Step(e)
        PROVE  Exhausted(c)'
    <3>1. ~ Claim(e) /\ ~ Complete(e)
      <4>1. Complete(e) => ~ Fail(e)
        BY DEF Fail, Complete
      <4>2. QED
        BY <1>1, <2>2, <4>1, ClaimChanges, ReleaseChanges, ChunkFields, RowFields
    <3>2. Fail(e)
      BY <1>1, <2>2, <3>1 DEF Step, List, Execute, PublishVersion, PublishWatermark, Publish,
         ReadProgress, RefreshJob, tables
    <3>3. cur[e].chunk = c /\ FailedStatus(cur[e].attempt) = "failed"
      BY <1>1, <2>2, <3>1, <3>2, ReleaseChanges, ChunkFields, RowFields
    <3>4. cur[e].attempt + 1 >= MaxAttempts
      BY <3>3 DEF FailedStatus
    <3>5. cur[e].attempt \in Nat /\ cur[e].attempt < chunk[c].attempt
      BY <3>2, <3>3, CurrentChunk DEF Fail, ClaimsAreCounted
    <3>6. QED
      BY <3>4, <3>5, ChunkFields, SizesAssumption, WrittenStays DEF Exhausted
  <2>3. CASE ~ \E e \in Executors : Step(e)
    BY <1>1, <2>1, <2>3 DEF Next, vars, InsertJob, InsertChunks, Expire, Crash, tables, TypeOK, Row
  <2>4. QED
    BY <2>1, <2>2, <2>3
<1>2. ASSUME NEW j \in Jobs, job'[j] = "failed"
      PROVE  \E c \in ChunksOf(j) : Exhausted(c)'
  <2>1. \E c \in ChunksOf(j) : Exhausted(c)
    BY <1>2, JobChanges DEF ReportIsTrue, FailedIsExhausted
  <2>2. QED
    BY <2>1, WrittenStays DEF ChunksOf
<1>3. QED
  BY <1>1, <1>2 DEF FailedIsExhausted, ChunksOf

-----------------------------------------------------------------------------
(* The inductive invariant. *)

IInv ==
  /\ TypeOK /\ WorkIsDone /\ ClaimsAreCounted /\ ReportIsTrue
  /\ CompletedIsWritten /\ CompletedJobIsWritten /\ FailedIsExhausted

LEMMA InitInvariant == Init => IInv
<1> SUFFICES ASSUME Init PROVE IInv
  OBVIOUS
<1>1. TypeOK
  BY InitType
<1>2. WorkIsDone /\ ClaimsAreCounted /\ ReportIsTrue
  BY DEF Init, WorkIsDone, ClaimsAreCounted, ReportIsTrue
<1>3. CompletedIsWritten /\ CompletedJobIsWritten /\ FailedIsExhausted
  BY DEF Init, CompletedIsWritten, CompletedJobIsWritten, FailedIsExhausted
<1>4. QED
  BY <1>1, <1>2, <1>3 DEF IInv

LEMMA NextInvariant == IInv /\ [Next]_vars => IInv'
<1> SUFFICES ASSUME IInv, [Next]_vars PROVE IInv'
  OBVIOUS
<1>1. TypeOK /\ TypeOK'
  BY NextType DEF IInv
<1>2. WorkIsDone' /\ ClaimsAreCounted' /\ ReportIsTrue'
  BY <1>1, WorkIsDoneStep, ClaimsAreCountedStep, ReportIsTrueStep DEF IInv
<1>3. CompletedIsWritten' /\ CompletedJobIsWritten' /\ FailedIsExhausted'
  BY <1>1, CompletedStep, CompletedJobStep, FailedStep DEF IInv
<1>4. QED
  BY <1>1, <1>2, <1>3 DEF IInv

LEMMA InvariantAlways == Spec => []IInv
BY InitInvariant, NextInvariant, PTL DEF Spec

\* A chunk reported completed or published has all of its result rows.
THEOREM CompletedChunksAreWritten == Spec => []CompletedIsWritten
<1>1. IInv => CompletedIsWritten
  BY DEF IInv
<1>2. QED
  BY <1>1, InvariantAlways, PTL

\* So has every chunk of a job reported completed, by the stalest executor too.
THEOREM CompletedJobsAreWritten == Spec => []CompletedJobIsWritten
<1>1. IInv => CompletedJobIsWritten
  BY DEF IInv
<1>2. QED
  BY <1>1, InvariantAlways, PTL

\* No chunk is given up before its last attempt, and no job is failed without one.
THEOREM FailuresAreExhausted == Spec => []FailedIsExhausted
<1>1. IInv => FailedIsExhausted
  BY DEF IInv
<1>2. QED
  BY <1>1, InvariantAlways, PTL

-----------------------------------------------------------------------------
(* Attempts: each claim uses up a listing, and a chunk is listed with attempts left. *)

\* The executors that may still claim chunk c.
Holders(c) == {e \in Executors : \E l \in listed[e] : l.chunk = c}

ListedOnce == \A e \in Executors : \A l, m \in listed[e] : l.chunk = m.chunk => l = m

AttemptBudget ==
  \A c \in Chunks :
    chunk[c].attempt + Cardinality(Holders(c)) <= MaxAttempts + Cardinality(Executors) - 1

LEMMA HoldersAreFinite ==
  ASSUME NEW c
  PROVE  /\ IsFiniteSet(Holders(c)) /\ Cardinality(Holders(c)) \in Nat
         /\ IsFiniteSet(Holders(c)') /\ Cardinality(Holders(c)') \in Nat
         /\ Cardinality(Executors) \in Nat
         /\ Cardinality(Holders(c)') <= Cardinality(Executors)
<1>1. Holders(c) \in SUBSET Executors /\ Holders(c)' \in SUBSET Executors
  BY DEF Holders
<1>2. QED
  BY <1>1, ExecutorsAssumption, FS_Subset, FS_CardinalityType

\* Only List adds to what an executor has listed.
LEMMA ListedShrinks ==
  ASSUME TypeOK, [Next]_vars, NEW e \in Executors
  PROVE  List(e) \/ listed'[e] \subseteq listed[e]
<1>1. CASE UNCHANGED Local(e)
  BY <1>1 DEF Local
<1>2. CASE Step(e) \/ Crash(e)
  BY <1>2 DEF Step, Claim, Refused, Execute, Complete, PublishVersion, PublishWatermark, Publish, Fail,
     ReadProgress, RefreshJob, Crash, Abandon, TypeOK
<1>3. QED
  BY <1>1, <1>2, OwnStep

LEMMA ListedOnceStep ==
  ASSUME TypeOK, ListedOnce, [Next]_vars
  PROVE  ListedOnce'
<1> SUFFICES ASSUME NEW e \in Executors, NEW l \in listed'[e], NEW m \in listed'[e],
                    l.chunk = m.chunk
             PROVE  l = m
  BY DEF ListedOnce
<1>1. CASE List(e)
  <2>1. \A k \in listed'[e] : \E c \in FirstPending : k = [chunk |-> c, attempt |-> chunk[c].attempt]
    BY <1>1 DEF List, TypeOK
  <2>2. QED
    BY <2>1
<1>2. CASE listed'[e] \subseteq listed[e]
  BY <1>2 DEF ListedOnce
<1>3. QED
  BY <1>1, <1>2, ListedShrinks

\* A claim takes its listing away.
LEMMA ClaimKeepsBudget ==
  ASSUME TypeOK, TypeOK', ListedOnce, AttemptBudget, NEW e \in Executors, Claim(e), NEW c \in Chunks
  PROVE  chunk'[c].attempt + Cardinality(Holders(c)') <= MaxAttempts + Cardinality(Executors) - 1
<1>1. PICK l \in listed[e] :
        \/ chunk' = [chunk EXCEPT ![l.chunk] = Claimed(@)] /\ listed' = [listed EXCEPT ![e] = @ \ {l}]
        \/ chunk' = [chunk EXCEPT ![l.chunk] = Claimed(@)] /\ listed' = [listed EXCEPT ![e] = {}]
        \/ UNCHANGED chunk /\ listed' = [listed EXCEPT ![e] = {}]
  BY DEF Claim, Abandon, Refused
<1>2. Holders(c)' \subseteq Holders(c)
  BY <1>1 DEF Holders, TypeOK
<1>3. Cardinality(Holders(c)') <= Cardinality(Holders(c))
  BY <1>2, HoldersAreFinite, FS_Subset
<1>4. CASE chunk'[c] = chunk[c]
  BY <1>3, <1>4, HoldersAreFinite, ChunkFields, SizesAssumption DEF AttemptBudget
<1>5. CASE chunk'[c] # chunk[c]
  <2>1. c = l.chunk /\ chunk'[c] = Claimed(chunk[c])
    BY <1>1, <1>5 DEF TypeOK
  <2>2. e \in Holders(c) /\ e \notin Holders(c)'
    BY <1>1, <1>5, <2>1 DEF Holders, ListedOnce, TypeOK
  <2>3. Holders(c)' \in SUBSET (Holders(c) \ {e})
    BY <1>2, <2>2
  <2>4. /\ IsFiniteSet(Holders(c) \ {e})
        /\ Cardinality(Holders(c) \ {e}) = Cardinality(Holders(c)) - 1
    BY <2>2, HoldersAreFinite, FS_RemoveElement
  <2>5. Cardinality(Holders(c)') <= Cardinality(Holders(c)) - 1
    BY <2>3, <2>4, FS_Subset
  <2>6. chunk'[c].attempt = chunk[c].attempt + 1
    BY <2>1, ChunkFields, RowFields
  <2>7. QED
    BY <2>5, <2>6, HoldersAreFinite, ChunkFields, SizesAssumption DEF AttemptBudget
<1>6. QED
  BY <1>4, <1>5

\* A chunk is listed while it has attempts left, by no more executors than there are.
LEMMA ListKeepsBudget ==
  ASSUME TypeOK, AttemptBudget, NEW e \in Executors, List(e), NEW c \in Chunks
  PROVE  chunk'[c].attempt + Cardinality(Holders(c)') <= MaxAttempts + Cardinality(Executors) - 1
<1>1. UNCHANGED chunk
  BY DEF List, tables
<1>2. CASE c \in FirstPending
  <2>1. chunk[c].attempt < MaxAttempts
    BY <1>2 DEF FirstPending, Pending
  <2>2. QED
    BY <1>1, <2>1, HoldersAreFinite, ChunkFields, SizesAssumption
<1>3. CASE c \notin FirstPending
  <2>1. \A l \in listed'[e] : l.chunk \in FirstPending
    BY DEF List, TypeOK
  <2>2. Holders(c)' \subseteq Holders(c)
    BY <1>3, <2>1 DEF Holders, List, TypeOK
  <2>3. Cardinality(Holders(c)') <= Cardinality(Holders(c))
    BY <2>2, HoldersAreFinite, FS_Subset
  <2>4. QED
    BY <1>1, <2>3, HoldersAreFinite, ChunkFields, SizesAssumption DEF AttemptBudget
<1>4. QED
  BY <1>2, <1>3

LEMMA AttemptBudgetStep ==
  ASSUME TypeOK, TypeOK', ListedOnce, AttemptBudget, [Next]_vars
  PROVE  AttemptBudget'
<1> SUFFICES ASSUME NEW c \in Chunks
             PROVE  chunk'[c].attempt + Cardinality(Holders(c)')
                      <= MaxAttempts + Cardinality(Executors) - 1
  BY DEF AttemptBudget
<1>1. CASE \E e \in Executors : List(e) \/ Claim(e)
  BY <1>1, ListKeepsBudget, ClaimKeepsBudget
<1>2. CASE ~ \E e \in Executors : List(e) \/ Claim(e)
  <2>1. \A e \in Executors : listed'[e] \subseteq listed[e]
    BY <1>2, ListedShrinks
  <2>2. Holders(c)' \subseteq Holders(c)
    BY <2>1 DEF Holders
  <2>3. Cardinality(Holders(c)') <= Cardinality(Holders(c))
    BY <2>2, HoldersAreFinite, FS_Subset
  <2>4. chunk'[c].attempt = chunk[c].attempt
    <3>1. ASSUME NEW e \in Executors, Complete(e) \/ Fail(e)
          PROVE  chunk'[c].attempt = chunk[c].attempt
      BY <3>1, ReleaseChanges, ChunkFields, RowFields
    <3>2. ASSUME NEW j \in Jobs, InsertChunks(j)
          PROVE  chunk'[c].attempt = chunk[c].attempt
      BY <3>2 DEF InsertChunks, TypeOK, Row
    <3>3. ASSUME NEW d \in Chunks, Expire(d)
          PROVE  chunk'[c].attempt = chunk[c].attempt
      BY <3>3 DEF Expire, TypeOK, Row
    <3>4. CASE UNCHANGED chunk
      BY <3>4
    <3>5. QED
      BY <1>2, <3>1, <3>2, <3>3, <3>4 DEF Next, vars, InsertJob, Step, Execute, PublishVersion,
         PublishWatermark, Publish, ReadProgress, RefreshJob, Crash, tables
  <2>5. QED
    BY <2>3, <2>4, HoldersAreFinite, ChunkFields, SizesAssumption DEF AttemptBudget
<1>3. QED
  BY <1>1, <1>2

LEMMA InitBudget == Init => ListedOnce /\ AttemptBudget
<1> SUFFICES ASSUME Init PROVE ListedOnce /\ AttemptBudget
  OBVIOUS
<1>1. ListedOnce
  BY DEF Init, ListedOnce
<1>2. ASSUME NEW c \in Chunks
      PROVE  chunk[c].attempt + Cardinality(Holders(c)) <= MaxAttempts + Cardinality(Executors) - 1
  <2>1. Holders(c) = {} /\ chunk[c].attempt = 0
    BY <1>2 DEF Init, Holders
  <2>2. QED
    BY <2>1, HoldersAreFinite, FS_EmptySet, SizesAssumption
<1>3. QED
  BY <1>1, <1>2 DEF AttemptBudget

\* However stale the listings, a chunk is claimed at most max_attempts times and once
\* more by every other executor.
THEOREM AttemptsStayBounded == Spec => []AttemptsAreBounded
<1>1. TypeOK /\ TypeOK' /\ ListedOnce /\ AttemptBudget /\ [Next]_vars
        => ListedOnce' /\ AttemptBudget'
  BY ListedOnceStep, AttemptBudgetStep
<1>2. TypeOK /\ AttemptBudget => AttemptsAreBounded
  BY HoldersAreFinite, ChunkFields, SizesAssumption DEF AttemptBudget, AttemptsAreBounded
<1>3. QED
  BY <1>1, <1>2, TypeCorrect, InitBudget, PTL DEF Spec

\* What is reported finished is written, and retries end in time.
THEOREM FinishedStaysWritten == Spec => []FinishedIsWritten
<1>1. CompletedIsWritten /\ CompletedJobIsWritten => FinishedIsWritten
  BY DEF FinishedIsWritten
<1>2. QED
  BY <1>1, CompletedChunksAreWritten, CompletedJobsAreWritten, PTL

THEOREM RetriesEnd == Spec => []RetriesEndInTime
<1>1. FailedIsExhausted /\ AttemptsAreBounded => RetriesEndInTime
  BY DEF RetriesEndInTime
<1>2. QED
  BY <1>1, FailuresAreExhausted, AttemptsStayBounded, PTL
=============================================================================
