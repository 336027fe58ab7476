----------------------------- MODULE Normalizer -----------------------------
(***************************************************************************)
(* apps/normalizer: the workers of one Kafka consumer group that turn raw  *)
(* ingest messages into Tableflow batches, normalized and invalid topic    *)
(* records, invalid_events rows and managed definitions, and commit the    *)
(* raw offset afterwards.                                                  *)
(*                                                                         *)
(* Every await of process_message is a step of its own, so a crash or a    *)
(* rebalance can fall between any two of them.  The Kafka broker and       *)
(* ClickHouse are external: a call that returns an error may have taken    *)
(* effect or not.                                                          *)
(***************************************************************************)
EXTENDS Naturals, Sequences

CONSTANTS
  Partitions,            \* partitions of the raw ingest topic
  Workers,               \* normalizer processes, one consumer each
  Definitions,           \* managed definition keys (tenant, definition id)
  Messages,              \* raw messages the ingest API may publish
  MaxLog,                \* bound: messages published to one partition
  MaxFaults,             \* bound: failed calls, crashes and unforced rebalances
  NoMessage              \* a worker that is not processing a message

\* An event of a body, as normalize_event judges it.
Event == [valid : BOOLEAN, definitions : SUBSET Definitions]

ASSUME MessagesAssumption == Messages \subseteq [tenant : BOOLEAN, body : Seq(Event)]
ASSUME BoundsAssumption == MaxLog \in Nat /\ MaxFaults \in Nat

\* A message is identified by its source pointer kafka://topic/partition/offset.
Id == Partitions \X Nat

ASSUME NoMessageAssumption == NoMessage \notin Id

Sinks == {"tableflow", "invalid_rows", "normalized", "invalid_topic"}

VARIABLES
  log,                   \* log[p]: the raw topic
  committed,             \* committed[p]: the group's committed offset
  owner,                 \* owner[p]: the worker partition p is assigned to
  position,              \* position[p]: the offset its owner fetches next
  pc,                    \* pc[w]: where worker w is in its loop
  cur,                   \* cur[w]: the message worker w is processing
  cache,                 \* cache[w]: managed_definition_cache
  sink,                  \* sink[s]: messages whose batch is on topic or table s
  definitionRows,        \* definition keys with a row in ClickHouse
  skipped,               \* history: messages an attempt returned an error for
  faults                 \* faults so far, at most MaxFaults

kafka == <<log, committed, owner, position>>
worker == <<pc, cur, cache>>
vars == <<log, committed, owner, position, pc, cur, cache, sink, definitionRows, skipped, faults>>

Steps == {"recv", "tableflow", "invalid_rows", "normalized", "invalid_topic",
          "definitions", "commit", "down"}

-----------------------------------------------------------------------------
(* normalize_json_batch *)

\* An empty array or a body that is not JSON is one invalid row of its own.
Normalize(body) ==
  [valid       |-> \E i \in DOMAIN body : body[i].valid,
   invalid     |-> body = <<>> \/ \E i \in DOMAIN body : ~body[i].valid,
   definitions |-> UNION {body[i].definitions : i \in {j \in DOMAIN body : body[j].valid}}]

Message(m) == log[m[1]][m[2] + 1]

Batch(m) == Normalize(Message(m).body)

\* What the loop is there to get done for message m before its offset is committed.
Durable(m) ==
  /\ Message(m).tenant
  /\ Batch(m).valid => m \in sink["tableflow"] /\ m \in sink["normalized"]
  /\ Batch(m).invalid => m \in sink["invalid_rows"] /\ m \in sink["invalid_topic"]
  /\ Batch(m).definitions \subseteq definitionRows

Published == UNION {{<<p, o>> : o \in 0 .. Len(log[p]) - 1} : p \in Partitions}

-----------------------------------------------------------------------------

Init ==
  /\ log = [p \in Partitions |-> <<>>]
  /\ committed = [p \in Partitions |-> 0]
  /\ owner \in [Partitions -> Workers]
  /\ position = [p \in Partitions |-> 0]
  /\ pc = [w \in Workers |-> "recv"]
  /\ cur = [w \in Workers |-> NoMessage]
  /\ cache = [w \in Workers |-> {}]
  /\ sink = [s \in Sinks |-> {}]
  /\ definitionRows = {}
  /\ skipped = {}
  /\ faults = 0

Fault == faults < MaxFaults /\ faults' = faults + 1

\* produce_raw_batch: Kafka acknowledged one more raw body.
Publish(p) ==
  /\ Len(log[p]) < MaxLog
  /\ \E m \in Messages : log' = [log EXCEPT ![p] = Append(@, m)]
  /\ UNCHANGED <<committed, owner, position, worker, sink, definitionRows, skipped, faults>>

\* consumer.recv and the head of process_message: a message without a tenant
\* header is an error before anything is written.
Receive(w, p) ==
  LET m == <<p, position[p]>> IN
  /\ pc[w] = "recv"
  /\ owner[p] = w
  /\ position[p] < Len(log[p])
  /\ position' = [position EXCEPT ![p] = @ + 1]
  /\ \/ /\ Message(m).tenant
        /\ pc' = [pc EXCEPT ![w] = "tableflow"]
        /\ cur' = [cur EXCEPT ![w] = m]
        /\ UNCHANGED skipped
     \/ /\ ~Message(m).tenant
        /\ skipped' = skipped \cup {m}
        /\ UNCHANGED <<pc, cur>>
  /\ UNCHANGED <<log, committed, owner, cache, sink, definitionRows, faults>>

Goto(w, step) == pc' = [pc EXCEPT ![w] = step] /\ UNCHANGED <<cur, skipped>>

\* process_message returned an error: it is logged and the loop goes on.
Skip(w) ==
  /\ Fault
  /\ pc' = [pc EXCEPT ![w] = "recv"]
  /\ cur' = [cur EXCEPT ![w] = NoMessage]
  /\ skipped' = skipped \cup {cur[w]}

Deliver(w, s) == sink' = [sink EXCEPT ![s] = @ \cup {cur[w]}]

\* Mutant of Send: the call is not awaited, so its error is never seen.
SendUnawaited(w, s, batch, next) ==
  /\ pc[w] = s
  /\ Goto(w, next)
  /\ (batch /\ Deliver(w, s)) \/ UNCHANGED sink
  /\ UNCHANGED <<kafka, cache, definitionRows, faults>>

\* One call of process_message that sends the batch, if it has one, to sink s.
Send(w, s, batch, next) ==
  /\ pc[w] = s
  /\ \/ ~batch /\ Goto(w, next) /\ UNCHANGED <<sink, faults>>
     \/ batch /\ Goto(w, next) /\ Deliver(w, s) /\ UNCHANGED faults
     \/ batch /\ Skip(w) /\ (Deliver(w, s) \/ UNCHANGED sink)
  /\ UNCHANGED <<kafka, cache, definitionRows>>

ProduceTableflow(w) == Send(w, "tableflow", Batch(cur[w]).valid, "invalid_rows")

InsertInvalidRows(w) == Send(w, "invalid_rows", Batch(cur[w]).invalid, "normalized")

ProduceNormalized(w) == Send(w, "normalized", Batch(cur[w]).valid, "invalid_topic")

ProduceInvalid(w) == Send(w, "invalid_topic", Batch(cur[w]).invalid, "definitions")

\* The keys ensure_managed_definitions inserts: those the process did not insert yet.
Pending(w) == Batch(cur[w]).definitions \ cache[w]

\* Mutant of CacheOnError: the keys stay in the cache.
CacheOnErrorKept(w) == cache[w] \cup Pending(w)

\* The keys enter the cache before the insert and leave it again on an error.
CacheOnError(w) == (cache[w] \cup Pending(w)) \ Pending(w)

EnsureManagedDefinitions(w) ==
  /\ pc[w] = "definitions"
  /\ \/ /\ Goto(w, "commit")
        /\ definitionRows' = definitionRows \cup Pending(w)
        /\ cache' = [cache EXCEPT ![w] = @ \cup Pending(w)]
        /\ UNCHANGED faults
     \/ /\ Pending(w) # {}
        /\ Skip(w)
        /\ \E written \in {{}, Pending(w)} : definitionRows' = definitionRows \cup written
        /\ cache' = [cache EXCEPT ![w] = CacheOnError(w)]
  /\ UNCHANGED <<kafka, sink>>

\* Mutant of Acknowledge: the message after this one is acknowledged too.
AcknowledgeNext(w) == committed' = [committed EXCEPT ![cur[w][1]] = cur[w][2] + 2]

\* commit_message commits the offset after the message's.
Acknowledge(w) == committed' = [committed EXCEPT ![cur[w][1]] = cur[w][2] + 1]

CommitMessage(w) ==
  /\ pc[w] = "commit"
  /\ Acknowledge(w)
  /\ pc' = [pc EXCEPT ![w] = "recv"]
  /\ cur' = [cur EXCEPT ![w] = NoMessage]
  /\ UNCHANGED <<log, owner, position, cache, sink, definitionRows, skipped, faults>>

\* The process ends and loses its memory.
Stop(w) ==
  /\ Fault
  /\ pc' = [pc EXCEPT ![w] = "down"]
  /\ cur' = [cur EXCEPT ![w] = NoMessage]
  /\ cache' = [cache EXCEPT ![w] = {}]
  /\ UNCHANGED <<log, owner, position, sink, definitionRows, skipped>>

\* An error of the commit ends main.
CommitFails(w) ==
  /\ pc[w] = "commit"
  /\ Stop(w)
  /\ Acknowledge(w) \/ UNCHANGED committed

Crash(w) ==
  /\ pc[w] # "down"
  /\ Stop(w)
  /\ UNCHANGED committed

\* Mutant of Resume: fetching goes on where the former owner stopped.
ResumeInPlace(ps) == UNCHANGED position

\* Fetching resumes from the committed offset.
Resume(ps) == position' = [p \in Partitions |-> IF p \in ps THEN committed[p] ELSE position[p]]

\* The container is restarted and its consumer joins the group again.
Restart(w) ==
  /\ pc[w] = "down"
  /\ pc' = [pc EXCEPT ![w] = "recv"]
  /\ Resume({p \in Partitions : owner[p] = w})
  /\ UNCHANGED <<log, committed, owner, cur, cache, sink, definitionRows, skipped, faults>>

\* The group moves a partition; the former owner may be in the middle of one of its messages.
Rebalance(p, w) ==
  /\ owner[p] # w
  /\ pc[w] # "down"
  /\ IF pc[owner[p]] = "down" THEN UNCHANGED faults ELSE Fault
  /\ owner' = [owner EXCEPT ![p] = w]
  /\ Resume({p})
  /\ UNCHANGED <<log, committed, worker, sink, definitionRows, skipped>>

Step(w) ==
  \/ \E p \in Partitions : Receive(w, p)
  \/ ProduceTableflow(w)
  \/ InsertInvalidRows(w)
  \/ ProduceNormalized(w)
  \/ ProduceInvalid(w)
  \/ EnsureManagedDefinitions(w)
  \/ CommitMessage(w)
  \/ CommitFails(w)

Next ==
  \/ \E p \in Partitions : Publish(p)
  \/ \E w \in Workers : Step(w) \/ Crash(w) \/ Restart(w)
  \/ \E p \in Partitions, w \in Workers : Rebalance(p, w)

Spec == Init /\ [][Next]_vars

\* A live process keeps running its loop, and docker restarts one that ended.
Fairness == \A w \in Workers : WF_vars(Step(w)) /\ WF_vars(Restart(w))

FairSpec == Spec /\ Fairness

-----------------------------------------------------------------------------
(* Properties *)

TypeOK ==
  /\ log \in [Partitions -> Seq(Messages)]
  /\ committed \in [Partitions -> Nat]
  /\ owner \in [Partitions -> Workers]
  /\ position \in [Partitions -> Nat]
  /\ pc \in [Workers -> Steps]
  /\ cur \in [Workers -> Published \cup {NoMessage}]
  /\ \A w \in Workers : cur[w] = NoMessage <=> pc[w] \in {"recv", "down"}
  /\ cache \in [Workers -> SUBSET Definitions]
  /\ sink \in [Sinks -> SUBSET Published]
  /\ definitionRows \subseteq Definitions
  /\ skipped \subseteq Published
  /\ faults \in Nat

Behind(p, o) == {<<p, i>> : i \in 0 .. o - 1}

Settled == {m \in Published : Durable(m)}

\* The committed offset of a partition passes a message only when all its
\* durable work is done or when an attempt to process it returned an error:
\* nothing is lost to a crash, a rebalance or the definition cache
\* (main loop and process_message).
CommittedIsAccounted ==
  \A p \in Partitions : Behind(p, committed[p]) \subseteq Settled \cup skipped

\* A record the alert worker can see on the normalized topic is already in the
\* Tableflow topic, and a batch's invalid rows are stored before either of its
\* records is published (order of the calls in process_message).
TopicsFollowDurableRecords ==
  /\ sink["normalized"] \subseteq sink["tableflow"]
  /\ sink["invalid_topic"] \subseteq sink["invalid_rows"]
  /\ \A m \in sink["normalized"] : Batch(m).invalid => m \in sink["invalid_rows"]

\* A definition a live process will not insert again has its row: the cache
\* never remembers an insert that failed (ensure_managed_definitions).
CacheIsBacked == \A w \in Workers : cache[w] \subseteq definitionRows

\* The strengthening that makes CommittedIsAccounted inductive: what a worker has
\* done by each step of process_message, and the messages each fetch position
\* and each message in process leave behind.
DoneSoFar(w) ==
  LET m == cur[w] IN
  /\ Message(m).tenant
  /\ Batch(m).valid /\ pc[w] # "tableflow" => m \in sink["tableflow"]
  /\ Batch(m).invalid /\ pc[w] \notin {"tableflow", "invalid_rows"} => m \in sink["invalid_rows"]
  /\ Batch(m).valid /\ pc[w] \in {"invalid_topic", "definitions", "commit"} =>
       m \in sink["normalized"]
  /\ Batch(m).invalid /\ pc[w] \in {"definitions", "commit"} => m \in sink["invalid_topic"]
  /\ pc[w] = "commit" => Batch(m).definitions \subseteq definitionRows

WorkDone == \A w \in Workers : cur[w] # NoMessage => DoneSoFar(w)

FetchedIsAccounted ==
  /\ \A p \in Partitions : pc[owner[p]] # "down" =>
       Behind(p, position[p]) \subseteq Settled \cup skipped \cup {cur[owner[p]]}
  /\ \A w \in Workers : cur[w] # NoMessage =>
       Behind(cur[w][1], cur[w][2]) \subseteq Settled \cup skipped

\* Every published message is settled or reported as an error, in spite of
\* crashes, restarts and rebalances.
EveryMessageIsAnswered ==
  \A p \in Partitions, o \in 0 .. MaxLog - 1 :
    <<p, o>> \in Published ~> <<p, o>> \in Settled \cup skipped

Contract == INSTANCE OffsetContract WITH
  length <- [p \in Partitions |-> Len(log[p])],
  settled <- Settled,
  abandoned <- skipped

\* The worker group implements the consumer contract.
ImplementsContract == Contract!Spec
=============================================================================
