-------------------------- MODULE NormalizerProofs --------------------------
(***************************************************************************)
(* Theorems about Normalizer, for any set of partitions, workers and       *)
(* messages and any number of faults.                                      *)
(***************************************************************************)
EXTENDS Normalizer, TLAPS

-----------------------------------------------------------------------------
(* Message identities and the log. *)

LEMMA PublishedIds ==
  ASSUME log \in [Partitions -> Seq(Messages)]
  PROVE  /\ \A m : m \in Published <=> m \in Id /\ m[2] < Len(log[m[1]])
         /\ \A m \in Published : m[1] \in Partitions /\ m[2] \in Nat /\ m = <<m[1], m[2]>>
<1>1. \A p \in Partitions : Len(log[p]) \in Nat
  OBVIOUS
<1>2. ASSUME NEW m \in Published
      PROVE  m \in Id /\ m[2] < Len(log[m[1]]) /\ m = <<m[1], m[2]>>
  <2>1. PICK p \in Partitions : \E o \in 0 .. Len(log[p]) - 1 : m = <<p, o>>
    BY DEF Published
  <2>2. PICK o \in 0 .. Len(log[p]) - 1 : m = <<p, o>>
    BY <2>1
  <2>3. QED
    BY <1>1, <2>2 DEF Id
<1>3. ASSUME NEW m \in Id, m[2] < Len(log[m[1]])
      PROVE  m \in Published
  <2>1. PICK p \in Partitions, o \in Nat : m = <<p, o>>
    BY DEF Id
  <2>2. o \in 0 .. Len(log[p]) - 1
    BY <1>1, <1>3, <2>1
  <2>3. QED
    BY <2>1, <2>2 DEF Published
<1>4. QED
  BY <1>2, <1>3 DEF Id

\* Every action but Publish leaves the log alone, and Publish only extends it.
LEMMA LogGrows ==
  ASSUME TypeOK, [Next]_vars
  PROVE  /\ log' \in [Partitions -> Seq(Messages)]
         /\ Published \subseteq Published'
         /\ \A m \in Published : Message(m)' = Message(m)
<1>1. CASE UNCHANGED log
  BY <1>1 DEF TypeOK, Published, Message
<1>2. ASSUME NEW p \in Partitions, Publish(p)
      PROVE  /\ log' \in [Partitions -> Seq(Messages)]
             /\ Published \subseteq Published'
             /\ \A m \in Published : Message(m)' = Message(m)
  <2>1. PICK msg \in Messages : log' = [log EXCEPT ![p] = Append(@, msg)]
    BY <1>2 DEF Publish
  <2>2. log \in [Partitions -> Seq(Messages)] /\ log' \in [Partitions -> Seq(Messages)]
    BY <2>1 DEF TypeOK
  <2>3. \A q \in Partitions : /\ Len(log'[q]) >= Len(log[q])
                              /\ \A i \in 1 .. Len(log[q]) : log'[q][i] = log[q][i]
    BY <2>1, <2>2
  <2>4. ASSUME NEW m \in Published
        PROVE  m \in Published' /\ Message(m)' = Message(m)
    <3>1. m \in Id /\ m[1] \in Partitions /\ m[2] \in Nat /\ m[2] < Len(log[m[1]])
      BY <2>2, PublishedIds
    <3>2. m[2] < Len(log'[m[1]]) /\ m[2] + 1 \in 1 .. Len(log[m[1]])
      BY <2>2, <2>3, <3>1
    <3>3. m \in Published'
      <4>1. PICK q \in Partitions, o \in Nat : m = <<q, o>>
        BY <3>1 DEF Id
      <4>2. o \in 0 .. Len(log'[q]) - 1
        BY <2>2, <3>2, <4>1
      <4>3. QED
        BY <4>1, <4>2 DEF Published
    <3>4. QED
      BY <2>3, <3>1, <3>2, <3>3 DEF Message
  <2>5. QED
    BY <2>2, <2>4
<1>3. QED
  BY <1>1, <1>2 DEF Next, vars, Step, Receive, ProduceTableflow, InsertInvalidRows,
     ProduceNormalized, ProduceInvalid, Send, EnsureManagedDefinitions, CommitMessage,
     CommitFails, Stop, Crash, Restart, Rebalance, kafka

-----------------------------------------------------------------------------
(* Type correctness. *)

LEMMA InitType == Init => TypeOK
<1>1. ASSUME Init PROVE TypeOK
  <2>1. log \in [Partitions -> Seq(Messages)]
    BY <1>1 DEF Init
  <2>2. QED
    BY <1>1, <2>1 DEF Init, TypeOK, Steps
<1>2. QED
  BY <1>1

\* What is known of the message a worker is processing.
LEMMA Holding ==
  ASSUME TypeOK, NEW w \in Workers, pc[w] \notin {"recv", "down"}
  PROVE  /\ cur[w] \in Published
         /\ cur[w] # NoMessage
         /\ cur[w][1] \in Partitions
         /\ cur[w][2] \in Nat
<1>1. cur[w] \in Published /\ cur[w] # NoMessage
  BY DEF TypeOK
<1>2. log \in [Partitions -> Seq(Messages)]
  BY DEF TypeOK
<1>3. QED
  BY <1>1, <1>2, PublishedIds

\* Every body yields a valid or an invalid batch, and known definitions only.
LEMMA BatchType ==
  ASSUME TypeOK, NEW m \in Published
  PROVE  /\ Batch(m).definitions \subseteq Definitions
         /\ Batch(m).valid \/ Batch(m).invalid
<1>1. log \in [Partitions -> Seq(Messages)]
  BY DEF TypeOK
<1>2. m[1] \in Partitions /\ m[2] \in Nat /\ m[2] < Len(log[m[1]])
  BY <1>1, PublishedIds
<1>3. Message(m) \in Messages
  BY <1>1, <1>2 DEF Message
<1>4. PICK body \in Seq(Event) : Message(m).body = body
  BY <1>3, MessagesAssumption
<1>5. UNION {body[i].definitions : i \in {j \in DOMAIN body : body[j].valid}} \subseteq Definitions
  <2>1. \A i \in DOMAIN body : body[i] \in Event
    BY <1>4
  <2>2. \A i \in DOMAIN body : body[i].definitions \subseteq Definitions
    BY <2>1 DEF Event
  <2>3. QED
    BY <2>2
<1>6. (\E i \in DOMAIN body : body[i].valid) \/ body = <<>> \/ \E i \in DOMAIN body : ~body[i].valid
  BY <1>4
<1>7. QED
  BY <1>4, <1>5, <1>6 DEF Batch, Normalize

LEMMA SendType ==
  ASSUME TypeOK, NEW w \in Workers, NEW s \in Sinks, NEW batch,
         NEW next \in Steps \ {"recv", "down"}, Send(w, s, batch, next)
  PROVE  TypeOK'
<1>1. UNCHANGED <<log, committed, owner, position, cache, definitionRows>>
  BY DEF Send, kafka
<1>2. Published' = Published
  BY <1>1 DEF Published
<1>3. cur[w] \in Published /\ cur[w] # NoMessage
  BY Holding DEF Send, Sinks
<1>4. sink' \in [Sinks -> SUBSET Published]
  BY <1>3 DEF TypeOK, Send, Deliver, Sinks
<1>5. /\ pc' \in [Workers -> Steps]
      /\ cur' \in [Workers -> Published \cup {NoMessage}]
      /\ \A v \in Workers : cur'[v] = NoMessage <=> pc'[v] \in {"recv", "down"}
      /\ skipped' \subseteq Published
      /\ faults' \in Nat
  <2>1. CASE Goto(w, next) /\ UNCHANGED faults
    BY <1>3, <2>1 DEF TypeOK, Goto
  <2>2. CASE Skip(w)
    BY <1>3, <2>2 DEF TypeOK, Skip, Fault, Steps
  <2>3. QED
    BY <2>1, <2>2 DEF Send
<1>6. QED
  BY <1>1, <1>2, <1>4, <1>5 DEF TypeOK

LEMMA ReceiveType ==
  ASSUME TypeOK, NEW w \in Workers, NEW p \in Partitions, Receive(w, p)
  PROVE  /\ TypeOK'
         /\ <<p, position[p]>> \in Published
<1>1. log \in [Partitions -> Seq(Messages)] /\ position \in [Partitions -> Nat]
  BY DEF TypeOK
<1>2. <<p, position[p]>> \in Published /\ <<p, position[p]>> # NoMessage
  BY <1>1, PublishedIds, NoMessageAssumption DEF Receive, Id
<1>3. Published' = Published
  BY DEF Receive, Published
<1>4. position' \in [Partitions -> Nat]
  BY <1>1 DEF Receive
<1>5. /\ pc' \in [Workers -> Steps]
      /\ cur' \in [Workers -> Published \cup {NoMessage}]
      /\ \A v \in Workers : cur'[v] = NoMessage <=> pc'[v] \in {"recv", "down"}
      /\ skipped' \subseteq Published
  <2>1. CASE Message(<<p, position[p]>>).tenant
    <3>1. /\ pc' = [pc EXCEPT ![w] = "tableflow"]
          /\ cur' = [cur EXCEPT ![w] = <<p, position[p]>>]
          /\ skipped' = skipped
      BY <2>1 DEF Receive
    <3>2. QED
      BY <1>2, <3>1 DEF TypeOK, Steps
  <2>2. CASE ~Message(<<p, position[p]>>).tenant
    BY <1>2, <2>2 DEF TypeOK, Receive
  <2>3. QED
    BY <2>1, <2>2
<1>6. QED
  BY <1>2, <1>3, <1>4, <1>5 DEF TypeOK, Receive

LEMMA EnsureManagedDefinitionsType ==
  ASSUME TypeOK, NEW w \in Workers, EnsureManagedDefinitions(w)
  PROVE  TypeOK'
<1>1. cur[w] \in Published /\ cur[w] # NoMessage
  BY Holding DEF EnsureManagedDefinitions
<1>2. Published' = Published
  BY DEF EnsureManagedDefinitions, kafka, Published
<1>3. Pending(w) \subseteq Definitions
  BY <1>1, BatchType DEF Pending
<1>4. /\ definitionRows' \subseteq Definitions
      /\ cache' \in [Workers -> SUBSET Definitions]
  <2>1. definitionRows' = definitionRows \/ definitionRows' = definitionRows \cup Pending(w)
    BY DEF EnsureManagedDefinitions
  <2>2. PICK keys \in SUBSET Definitions : cache' = [cache EXCEPT ![w] = keys]
    BY <1>3 DEF TypeOK, EnsureManagedDefinitions, CacheOnError
  <2>3. QED
    BY <1>3, <2>1, <2>2 DEF TypeOK
<1>5. /\ pc' \in [Workers -> Steps]
      /\ cur' \in [Workers -> Published \cup {NoMessage}]
      /\ \A v \in Workers : cur'[v] = NoMessage <=> pc'[v] \in {"recv", "down"}
      /\ skipped' \subseteq Published
      /\ faults' \in Nat
  <2>1. CASE Goto(w, "commit") /\ UNCHANGED faults
    BY <1>1, <2>1 DEF TypeOK, Goto, Steps
  <2>2. CASE Skip(w)
    BY <1>1, <2>2 DEF TypeOK, Skip, Fault, Steps
  <2>3. QED
    BY <2>1, <2>2 DEF EnsureManagedDefinitions
<1>6. QED
  BY <1>2, <1>4, <1>5 DEF TypeOK, EnsureManagedDefinitions, kafka

LEMMA CommitType ==
  ASSUME TypeOK, NEW w \in Workers, CommitMessage(w) \/ CommitFails(w)
  PROVE  TypeOK'
<1>1. pc[w] = "commit" /\ (Acknowledge(w) \/ UNCHANGED committed)
  BY DEF CommitMessage, CommitFails
<1>2. cur[w][1] \in Partitions /\ cur[w][2] \in Nat
  BY <1>1, Holding
<1>3. committed' \in [Partitions -> Nat]
  <2>1. committed \in [Partitions -> Nat]
    BY DEF TypeOK
  <2>2. CASE Acknowledge(w)
    BY <1>2, <2>1, <2>2 DEF Acknowledge
  <2>3. QED
    BY <1>1, <2>1, <2>2
<1>4. Published' = Published
  BY DEF CommitMessage, CommitFails, Stop, Published
<1>5. CASE CommitMessage(w)
  BY <1>3, <1>4, <1>5 DEF CommitMessage, TypeOK, Steps
<1>6. CASE CommitFails(w)
  BY <1>3, <1>4, <1>6 DEF CommitFails, Stop, Fault, TypeOK, Steps
<1>7. QED
  BY <1>5, <1>6

LEMMA StepType ==
  ASSUME TypeOK, NEW w \in Workers, Step(w)
  PROVE  TypeOK'
<1>1. ASSUME NEW p \in Partitions, Receive(w, p) PROVE TypeOK'
  BY <1>1, ReceiveType
<1>2. CASE ProduceTableflow(w)
  BY <1>2, SendType DEF ProduceTableflow, Sinks, Steps
<1>3. CASE InsertInvalidRows(w)
  BY <1>3, SendType DEF InsertInvalidRows, Sinks, Steps
<1>4. CASE ProduceNormalized(w)
  BY <1>4, SendType DEF ProduceNormalized, Sinks, Steps
<1>5. CASE ProduceInvalid(w)
  BY <1>5, SendType DEF ProduceInvalid, Sinks, Steps
<1>6. QED
  BY <1>1, <1>2, <1>3, <1>4, <1>5, EnsureManagedDefinitionsType, CommitType DEF Step

LEMMA NextType == TypeOK /\ [Next]_vars => TypeOK'
<1> SUFFICES ASSUME TypeOK, [Next]_vars PROVE TypeOK'
  OBVIOUS
<1>1. ASSUME NEW p \in Partitions, Publish(p) PROVE TypeOK'
  <2>1. log' \in [Partitions -> Seq(Messages)] /\ Published \subseteq Published'
    BY LogGrows
  <2>2. QED
    BY <1>1, <2>1 DEF Publish, TypeOK, worker
<1>2. ASSUME NEW w \in Workers, Crash(w) \/ Restart(w) PROVE TypeOK'
  <2>1. Published' = Published
    BY <1>2 DEF Crash, Stop, Restart, Published
  <2>2. CASE Crash(w)
    BY <2>1, <2>2 DEF Crash, Stop, Fault, TypeOK, Steps
  <2>3. CASE Restart(w)
    BY <2>1, <2>3 DEF Restart, Resume, TypeOK, Steps
  <2>4. QED
    BY <1>2, <2>2, <2>3
<1>3. ASSUME NEW p \in Partitions, NEW w \in Workers, Rebalance(p, w) PROVE TypeOK'
  <2>1. Published' = Published
    BY <1>3 DEF Rebalance, Published
  <2>2. QED
    BY <1>3, <2>1 DEF Rebalance, Resume, Fault, TypeOK, worker
<1>4. CASE UNCHANGED vars
  BY <1>4 DEF vars, TypeOK, Published
<1>5. QED
  BY <1>1, <1>2, <1>3, <1>4, StepType DEF Next

\* Every variable keeps its type; a worker holds a message exactly while it is
\* between receiving and committing it.
THEOREM TypeCorrect == Spec => []TypeOK
BY InitType, NextType, PTL DEF Spec

-----------------------------------------------------------------------------
(* What no step takes back. *)

LEMMA EffectsGrow ==
  ASSUME TypeOK, [Next]_vars
  PROVE  /\ \A s \in Sinks : sink[s] \subseteq sink'[s]
         /\ definitionRows \subseteq definitionRows'
         /\ skipped \subseteq skipped'
<1>1. ASSUME NEW w \in Workers, NEW s \in Sinks, Deliver(w, s)
      PROVE  \A t \in Sinks : sink[t] \subseteq sink'[t]
  BY <1>1 DEF TypeOK, Deliver
<1>2. ASSUME NEW w \in Workers, NEW s \in Sinks, NEW batch, NEW next, Send(w, s, batch, next)
      PROVE  /\ \A t \in Sinks : sink[t] \subseteq sink'[t]
             /\ definitionRows \subseteq definitionRows'
             /\ skipped \subseteq skipped'
  BY <1>1, <1>2 DEF Send, Goto, Skip
<1>3. ASSUME NEW w \in Workers, Step(w)
      PROVE  /\ \A t \in Sinks : sink[t] \subseteq sink'[t]
             /\ definitionRows \subseteq definitionRows'
             /\ skipped \subseteq skipped'
  <2>1. CASE \E p \in Partitions : Receive(w, p)
    BY <2>1 DEF Receive
  <2>2. CASE ProduceTableflow(w) \/ InsertInvalidRows(w) \/ ProduceNormalized(w) \/ ProduceInvalid(w)
    BY <1>2, <2>2
    DEF ProduceTableflow, InsertInvalidRows, ProduceNormalized, ProduceInvalid, Sinks
  <2>3. CASE EnsureManagedDefinitions(w)
    BY <2>3 DEF EnsureManagedDefinitions, Goto, Skip
  <2>4. CASE CommitMessage(w) \/ CommitFails(w)
    BY <2>4 DEF CommitMessage, CommitFails, Stop
  <2>5. QED
    BY <1>3, <2>1, <2>2, <2>3, <2>4 DEF Step
<1>4. QED
  BY <1>3 DEF Next, vars, Publish, Crash, Stop, Restart, Rebalance

LEMMA SettledGrows ==
  ASSUME TypeOK, [Next]_vars
  PROVE  Settled \subseteq Settled'
<1>1. SUFFICES ASSUME NEW m \in Published, Durable(m)
               PROVE  m \in Published' /\ Durable(m)'
  BY DEF Settled
<1>2. m \in Published' /\ Message(m)' = Message(m)
  BY LogGrows
<1>3. Batch(m)' = Batch(m)
  BY <1>2 DEF Batch
<1>4. QED
  BY <1>1, <1>2, <1>3, EffectsGrow DEF Durable, Sinks

-----------------------------------------------------------------------------
(* The definition cache. *)

LEMMA CacheInit == Init => CacheIsBacked
BY DEF Init, CacheIsBacked

LEMMA CacheStep == TypeOK /\ CacheIsBacked /\ [Next]_vars => CacheIsBacked'
<1> SUFFICES ASSUME TypeOK, CacheIsBacked, [Next]_vars PROVE CacheIsBacked'
  OBVIOUS
<1>1. definitionRows \subseteq definitionRows'
  BY EffectsGrow
<1>2. CASE UNCHANGED cache
  BY <1>1, <1>2 DEF CacheIsBacked
<1>3. ASSUME NEW w \in Workers, EnsureManagedDefinitions(w) PROVE CacheIsBacked'
  <2>1. cache'[w] \subseteq cache[w] \cup (definitionRows' \cap Pending(w))
    BY <1>3 DEF TypeOK, EnsureManagedDefinitions, CacheOnError
  <2>2. \A v \in Workers \ {w} : cache'[v] = cache[v]
    BY <1>3 DEF TypeOK, EnsureManagedDefinitions
  <2>3. QED
    BY <1>1, <2>1, <2>2 DEF CacheIsBacked
<1>4. ASSUME NEW w \in Workers, Stop(w) PROVE CacheIsBacked'
  BY <1>1, <1>4 DEF TypeOK, Stop, CacheIsBacked
<1>5. QED
  BY <1>2, <1>3, <1>4 DEF Next, vars, Step, Receive, ProduceTableflow, InsertInvalidRows,
     ProduceNormalized, ProduceInvalid, Send, CommitMessage, CommitFails, Crash, Publish,
     Restart, Rebalance, worker

\* A definition key is in some process's cache only when its row is stored, so no
\* message is committed without its definitions because of the cache.
THEOREM CacheBacked == Spec => []CacheIsBacked
BY TypeCorrect, CacheInit, CacheStep, PTL DEF Spec

-----------------------------------------------------------------------------
(* What a worker has done by each step. *)

\* A worker that neither moves nor changes its message keeps what it has done.
LEMMA DoneStable ==
  ASSUME TypeOK, [Next]_vars, NEW w \in Workers, cur[w] # NoMessage, DoneSoFar(w),
         cur'[w] = cur[w], pc'[w] = pc[w]
  PROVE  DoneSoFar(w)'
<1>1. cur[w] \in Published
  BY DEF TypeOK
<1>2. Message(cur[w])' = Message(cur[w])
  BY <1>1, LogGrows DEF Message
<1>3. Batch(cur[w])' = Batch(cur[w])
  BY <1>2 DEF Batch
<1>4. QED
  BY <1>2, <1>3, EffectsGrow DEF DoneSoFar, Sinks

LEMMA DoneInit == Init => WorkDone
BY DEF Init, WorkDone

\* The effect of one call of process_message on what its worker has done.
LEMMA DoneSend ==
  ASSUME TypeOK, WorkDone, NEW w \in Workers,
         ProduceTableflow(w) \/ InsertInvalidRows(w) \/ ProduceNormalized(w) \/ ProduceInvalid(w),
         cur'[w] # NoMessage
  PROVE  DoneSoFar(w)'
<1>1. cur[w] \in Published /\ cur[w] # NoMessage /\ DoneSoFar(w)
  BY Holding DEF ProduceTableflow, InsertInvalidRows, ProduceNormalized, ProduceInvalid,
     Send, WorkDone
<1>2. UNCHANGED <<log, definitionRows>>
  BY DEF ProduceTableflow, InsertInvalidRows, ProduceNormalized, ProduceInvalid, Send, kafka
<1>3. ~Skip(w)
  BY DEF Skip, TypeOK
<1>4. cur'[w] = cur[w]
  BY <1>3 DEF ProduceTableflow, InsertInvalidRows, ProduceNormalized, ProduceInvalid, Send, Goto
<1>5. Message(cur[w])' = Message(cur[w]) /\ Batch(cur[w])' = Batch(cur[w])
  BY <1>2, <1>4 DEF Message, Batch
<1>6. \A s \in Sinks : sink[s] \subseteq sink'[s]
  BY DEF TypeOK, ProduceTableflow, InsertInvalidRows, ProduceNormalized, ProduceInvalid, Send,
     Deliver
<1>7. ASSUME NEW s \in Sinks, NEW batch, NEW next \in Steps, Send(w, s, batch, next)
      PROVE  /\ pc[w] = s
             /\ pc'[w] = next
             /\ batch => cur[w] \in sink'[s]
  BY <1>3, <1>7 DEF Send, Goto, Deliver, TypeOK
<1>8. CASE ProduceTableflow(w)
  BY <1>1, <1>4, <1>5, <1>6, <1>7, <1>8 DEF ProduceTableflow, DoneSoFar, Sinks, Steps
<1>9. CASE InsertInvalidRows(w)
  BY <1>1, <1>4, <1>5, <1>6, <1>7, <1>9 DEF InsertInvalidRows, DoneSoFar, Sinks, Steps
<1>10. CASE ProduceNormalized(w)
  BY <1>1, <1>4, <1>5, <1>6, <1>7, <1>10 DEF ProduceNormalized, DoneSoFar, Sinks, Steps
<1>11. CASE ProduceInvalid(w)
  BY <1>1, <1>4, <1>5, <1>6, <1>7, <1>11 DEF ProduceInvalid, DoneSoFar, Sinks, Steps
<1>12. QED
  BY <1>8, <1>9, <1>10, <1>11

LEMMA DoneEnsure ==
  ASSUME TypeOK, CacheIsBacked, WorkDone, NEW w \in Workers, EnsureManagedDefinitions(w),
         cur'[w] # NoMessage
  PROVE  DoneSoFar(w)'
<1>1. cur[w] # NoMessage /\ DoneSoFar(w) /\ pc[w] = "definitions"
  BY Holding DEF EnsureManagedDefinitions, WorkDone
<1>2. Goto(w, "commit") /\ definitionRows' = definitionRows \cup Pending(w)
  BY DEF EnsureManagedDefinitions, Skip, TypeOK
<1>3. cur'[w] = cur[w] /\ pc'[w] = "commit" /\ log' = log /\ sink' = sink
  BY <1>2 DEF EnsureManagedDefinitions, Goto, kafka, TypeOK
<1>4. Message(cur[w])' = Message(cur[w]) /\ Batch(cur[w])' = Batch(cur[w])
  BY <1>3 DEF Message, Batch
<1>5. Batch(cur[w]).definitions \subseteq definitionRows'
  BY <1>2 DEF Pending, CacheIsBacked
<1>6. QED
  BY <1>1, <1>3, <1>4, <1>5 DEF DoneSoFar

LEMMA DoneReceive ==
  ASSUME TypeOK, NEW w \in Workers, NEW p \in Partitions, Receive(w, p), cur'[w] # NoMessage
  PROVE  DoneSoFar(w)'
<1>1. cur[w] = NoMessage
  BY DEF TypeOK, Receive
<1>2. /\ Message(<<p, position[p]>>).tenant
      /\ pc' = [pc EXCEPT ![w] = "tableflow"]
      /\ cur' = [cur EXCEPT ![w] = <<p, position[p]>>]
      /\ log' = log
  BY <1>1 DEF Receive
<1>3. pc'[w] = "tableflow" /\ cur'[w] = <<p, position[p]>>
  BY <1>2 DEF TypeOK
<1>4. QED
  BY <1>2, <1>3 DEF DoneSoFar, Message

LEMMA DoneStep == TypeOK /\ CacheIsBacked /\ WorkDone /\ [Next]_vars => WorkDone'
<1> SUFFICES ASSUME TypeOK, CacheIsBacked, WorkDone, [Next]_vars,
                    NEW v \in Workers, cur'[v] # NoMessage
             PROVE  DoneSoFar(v)'
  BY DEF WorkDone
<1>1. CASE cur'[v] = cur[v] /\ pc'[v] = pc[v]
  BY <1>1, DoneStable DEF WorkDone
<1>2. CASE \E p \in Partitions : Receive(v, p)
  BY <1>2, DoneReceive
<1>3. CASE ProduceTableflow(v) \/ InsertInvalidRows(v) \/ ProduceNormalized(v) \/ ProduceInvalid(v)
  BY <1>3, DoneSend
<1>4. CASE EnsureManagedDefinitions(v)
  BY <1>4, DoneEnsure
<1>5. CASE CommitMessage(v) \/ CommitFails(v) \/ Crash(v) \/ Restart(v)
  <2>1. cur'[v] = NoMessage
    BY <1>5 DEF CommitMessage, CommitFails, Crash, Stop, Restart, TypeOK
  <2>2. QED
    BY <2>1
<1>6. ASSUME NEW w \in Workers \ {v}, Step(w) \/ Crash(w) \/ Restart(w)
      PROVE  cur'[v] = cur[v] /\ pc'[v] = pc[v]
  BY <1>6 DEF Step, Receive, ProduceTableflow, InsertInvalidRows, ProduceNormalized,
     ProduceInvalid, Send, Goto, Skip, EnsureManagedDefinitions, CommitMessage, CommitFails,
     Crash, Stop, Restart, TypeOK
<1>7. CASE UNCHANGED <<pc, cur>>
  BY <1>1, <1>7
<1>8. QED
  BY <1>1, <1>2, <1>3, <1>4, <1>5, <1>6, <1>7 DEF Next, vars, Step, Publish, Rebalance, worker

LEMMA WorkDoneAlways == Spec => [](TypeOK /\ CacheIsBacked /\ WorkDone)
BY TypeCorrect, CacheBacked, DoneInit, DoneStep, PTL DEF Spec

-----------------------------------------------------------------------------
(* The order of the records a message leaves. *)

LEMMA TopicsStep == TypeOK /\ WorkDone /\ TopicsFollowDurableRecords /\ [Next]_vars
                      => TopicsFollowDurableRecords'
<1> SUFFICES ASSUME TypeOK, WorkDone, TopicsFollowDurableRecords, [Next]_vars
             PROVE  TopicsFollowDurableRecords'
  OBVIOUS
<1>1. \A m \in Published : Batch(m)' = Batch(m)
  BY LogGrows DEF Batch
<1>2. \A s \in Sinks : sink[s] \subseteq Published /\ sink[s] \subseteq sink'[s]
  BY EffectsGrow DEF TypeOK
<1>3. ASSUME sink'["normalized"] = sink["normalized"],
             sink'["invalid_topic"] = sink["invalid_topic"]
      PROVE  TopicsFollowDurableRecords'
  BY <1>1, <1>2, <1>3 DEF TopicsFollowDurableRecords, Sinks
<1>4. ASSUME NEW w \in Workers, ProduceNormalized(w)
      PROVE  TopicsFollowDurableRecords'
  <2>1. /\ sink'["normalized"] \subseteq sink["normalized"]
             \cup (IF Batch(cur[w]).valid THEN {cur[w]} ELSE {})
        /\ sink'["invalid_topic"] = sink["invalid_topic"]
        /\ pc[w] = "normalized"
    BY <1>4 DEF ProduceNormalized, Send, Deliver, TypeOK, Sinks
  <2>2. cur[w] \in Published /\ DoneSoFar(w)
    BY <2>1, Holding DEF WorkDone
  <2>3. /\ Batch(cur[w]).valid => cur[w] \in sink["tableflow"]
        /\ Batch(cur[w]).invalid => cur[w] \in sink["invalid_rows"]
    BY <2>1, <2>2 DEF DoneSoFar
  <2>4. QED
    BY <1>1, <1>2, <2>1, <2>2, <2>3 DEF TopicsFollowDurableRecords, Sinks
<1>5. ASSUME NEW w \in Workers, ProduceInvalid(w)
      PROVE  TopicsFollowDurableRecords'
  <2>1. /\ sink'["invalid_topic"] \subseteq sink["invalid_topic"]
             \cup (IF Batch(cur[w]).invalid THEN {cur[w]} ELSE {})
        /\ sink'["normalized"] = sink["normalized"]
        /\ pc[w] = "invalid_topic"
    BY <1>5 DEF ProduceInvalid, Send, Deliver, TypeOK, Sinks
  <2>2. DoneSoFar(w)
    BY <2>1, Holding DEF WorkDone
  <2>3. Batch(cur[w]).invalid => cur[w] \in sink["invalid_rows"]
    BY <2>1, <2>2 DEF DoneSoFar
  <2>4. QED
    BY <1>1, <1>2, <2>1, <2>3 DEF TopicsFollowDurableRecords, Sinks
<1>6. ASSUME NEW w \in Workers, ProduceTableflow(w) \/ InsertInvalidRows(w)
      PROVE  TopicsFollowDurableRecords'
  BY <1>3, <1>6 DEF ProduceTableflow, InsertInvalidRows, Send, Deliver, TypeOK, Sinks
<1>7. CASE UNCHANGED sink
  BY <1>3, <1>7
<1>8. QED
  BY <1>4, <1>5, <1>6, <1>7 DEF Next, vars, Step, Receive, EnsureManagedDefinitions,
     CommitMessage, CommitFails, Crash, Stop, Publish, Restart, Rebalance

\* What the alert worker reads is already on its way to the serving tables.
THEOREM TopicsFollow == Spec => []TopicsFollowDurableRecords
<1>1. Init => TopicsFollowDurableRecords
  BY DEF Init, TopicsFollowDurableRecords, Sinks
<1>2. QED
  BY <1>1, WorkDoneAlways, TopicsStep, PTL DEF Spec

-----------------------------------------------------------------------------
(* Committed offsets. *)

LEMMA BehindZero == \A p : Behind(p, 0) = {}
BY DEF Behind

LEMMA BehindNext == \A p : \A o \in Nat : Behind(p, o + 1) = Behind(p, o) \cup {<<p, o>>}
<1> SUFFICES ASSUME NEW p, NEW o \in Nat
             PROVE  Behind(p, o + 1) = Behind(p, o) \cup {<<p, o>>}
  OBVIOUS
<1>1. 0 .. (o + 1) - 1 = (0 .. o - 1) \cup {o}
  OBVIOUS
<1>2. QED
  BY <1>1 DEF Behind

LEMMA BehindIds == \A p \in Partitions : \A o \in Nat : NoMessage \notin Behind(p, o)
BY NoMessageAssumption DEF Behind, Id

\* A worker about to commit has settled its message.
LEMMA ReadyIsSettled ==
  ASSUME TypeOK, WorkDone, NEW w \in Workers, pc[w] = "commit"
  PROVE  cur[w] \in Settled
<1>1. cur[w] \in Published /\ DoneSoFar(w)
  BY Holding DEF WorkDone
<1>2. QED
  BY <1>1 DEF DoneSoFar, Durable, Settled

Accounted == CommittedIsAccounted /\ FetchedIsAccounted

LEMMA AccountedInit == Init => Accounted
BY BehindZero DEF Init, Accounted, CommittedIsAccounted, FetchedIsAccounted

LEMMA CommittedStep ==
  TypeOK /\ WorkDone /\ Accounted /\ [Next]_vars => CommittedIsAccounted'
<1> SUFFICES ASSUME TypeOK, WorkDone, Accounted, [Next]_vars PROVE CommittedIsAccounted'
  OBVIOUS
<1>1. Settled \cup skipped \subseteq Settled' \cup skipped'
  BY EffectsGrow, SettledGrows
<1>2. CASE UNCHANGED committed
  BY <1>1, <1>2 DEF Accounted, CommittedIsAccounted, Behind
<1>3. ASSUME NEW w \in Workers, pc[w] = "commit", Acknowledge(w)
      PROVE  CommittedIsAccounted'
  <2>1. PICK p \in Partitions, o \in Nat : cur[w] = <<p, o>>
    BY <1>3, Holding DEF Published
  <2>2. cur[w] \in Settled /\ cur[w] # NoMessage
    BY <1>3, Holding, ReadyIsSettled
  <2>3. Behind(p, o + 1) \subseteq Settled \cup skipped
    BY <2>1, <2>2, BehindNext DEF Accounted, FetchedIsAccounted
  <2>4. \A q \in Partitions : committed'[q] = IF q = p THEN o + 1 ELSE committed[q]
    BY <1>3, <2>1 DEF Acknowledge, TypeOK
  <2>5. QED
    BY <1>1, <2>3, <2>4 DEF Accounted, CommittedIsAccounted, Behind
<1>4. QED
  BY <1>2, <1>3 DEF Next, vars, Step, Receive, ProduceTableflow, InsertInvalidRows,
     ProduceNormalized, ProduceInvalid, Send, EnsureManagedDefinitions, CommitMessage,
     CommitFails, Crash, Publish, Restart, Rebalance, kafka

LEMMA FetchedStep ==
  TypeOK /\ WorkDone /\ Accounted /\ [Next]_vars => FetchedIsAccounted'
<1> SUFFICES ASSUME TypeOK, WorkDone, Accounted, [Next]_vars PROVE FetchedIsAccounted'
  OBVIOUS
<1> DEFINE A == Settled \cup skipped
<1>1. A \subseteq A'
  BY EffectsGrow, SettledGrows
<1>2. \A p \in Partitions : /\ committed[p] \in Nat
                            /\ position[p] \in Nat
                            /\ owner[p] \in Workers
                            /\ Behind(p, committed[p]) \subseteq A
  BY DEF TypeOK, Accounted, CommittedIsAccounted
<1>3. \A w \in Workers : cur[w] # NoMessage => Behind(cur[w][1], cur[w][2]) \subseteq A
  BY DEF Accounted, FetchedIsAccounted
\* Messages in process: the only new one is the one just received.
<1>4. ASSUME NEW w \in Workers, cur'[w] = cur[w], cur'[w] # NoMessage
      PROVE  Behind(cur'[w][1], cur'[w][2]) \subseteq A'
  BY <1>1, <1>3, <1>4
\* A partition that is not received from, moved or restarted.
<1>5. ASSUME NEW p \in Partitions, position'[p] = position[p], owner'[p] = owner[p],
             pc[owner[p]] # "down",
             cur'[owner[p]] = cur[owner[p]] \/ cur[owner[p]] \in A'
      PROVE  Behind(p, position'[p]) \subseteq A' \cup {cur'[owner'[p]]}
  BY <1>1, <1>5 DEF Accounted, FetchedIsAccounted
<1>6. ASSUME NEW p \in Partitions, position'[p] = committed[p]
      PROVE  Behind(p, position'[p]) \subseteq A'
  BY <1>1, <1>2, <1>6
<1>7. ASSUME NEW w \in Workers, NEW q \in Partitions, Receive(w, q)
      PROVE  FetchedIsAccounted'
  <2>1. cur[w] = NoMessage /\ owner[q] = w /\ pc[w] # "down" /\ UNCHANGED owner
    BY <1>7 DEF Receive, TypeOK
  <2>2. \A p \in Partitions : owner[p] = w => Behind(p, position[p]) \subseteq A
    BY <1>2, <2>1, BehindIds DEF Accounted, FetchedIsAccounted
  <2>3. \A p \in Partitions : position'[p] = IF p = q THEN position[p] + 1 ELSE position[p]
    BY <1>7 DEF Receive, TypeOK
  <2>4. \/ /\ cur'[w] = <<q, position[q]>>
           /\ \A v \in Workers \ {w} : cur'[v] = cur[v] /\ pc'[v] = pc[v]
        \/ /\ <<q, position[q]>> \in A'
           /\ cur' = cur /\ pc' = pc
    BY <1>7 DEF Receive, TypeOK
  <2>5. Behind(q, position'[q]) \subseteq A' \cup {cur'[w]}
    BY <1>1, <1>2, <2>1, <2>2, <2>3, <2>4, BehindNext
  <2>6. ASSUME NEW p \in Partitions, p # q, pc'[owner[p]] # "down"
        PROVE  Behind(p, position'[p]) \subseteq A' \cup {cur'[owner[p]]}
    <3>1. CASE owner[p] = w
      BY <1>1, <2>2, <2>3, <2>6, <3>1
    <3>2. CASE owner[p] # w
      BY <1>2, <1>5, <2>1, <2>3, <2>4, <2>6, <3>2
    <3>3. QED
      BY <3>1, <3>2
  <2>7. ASSUME NEW v \in Workers, cur'[v] # NoMessage
        PROVE  Behind(cur'[v][1], cur'[v][2]) \subseteq A'
    BY <1>1, <1>4, <2>1, <2>2, <2>4, <2>7
  <2>8. QED
    BY <2>1, <2>5, <2>6, <2>7 DEF FetchedIsAccounted
\* A step of process_message or the commit: the message stays or is accounted for.
<1>8. ASSUME NEW w \in Workers, UNCHANGED <<position, owner>>, pc[w] # "down",
             cur'[w] = cur[w] \/ (cur'[w] = NoMessage /\ cur[w] \in A'),
             \A v \in Workers \ {w} : cur'[v] = cur[v] /\ pc'[v] = pc[v]
      PROVE  FetchedIsAccounted'
  <2>1. \A p \in Partitions : pc'[owner'[p]] # "down" =>
          Behind(p, position'[p]) \subseteq A' \cup {cur'[owner'[p]]}
    BY <1>2, <1>5, <1>8
  <2>2. \A v \in Workers : cur'[v] # NoMessage => Behind(cur'[v][1], cur'[v][2]) \subseteq A'
    BY <1>4, <1>8
  <2>3. QED
    BY <2>1, <2>2 DEF FetchedIsAccounted
<1>9. ASSUME NEW w \in Workers,
             \/ ProduceTableflow(w) \/ InsertInvalidRows(w) \/ ProduceNormalized(w)
             \/ ProduceInvalid(w) \/ EnsureManagedDefinitions(w)
      PROVE  FetchedIsAccounted'
  <2>1. /\ UNCHANGED <<position, owner>>
        /\ pc[w] # "down"
        /\ \A v \in Workers \ {w} : cur'[v] = cur[v] /\ pc'[v] = pc[v]
    BY <1>9 DEF ProduceTableflow, InsertInvalidRows, ProduceNormalized, ProduceInvalid, Send,
       EnsureManagedDefinitions, Goto, Skip, kafka, TypeOK
  <2>2. cur'[w] = cur[w] \/ (cur'[w] = NoMessage /\ cur[w] \in A')
    BY <1>9 DEF ProduceTableflow, InsertInvalidRows, ProduceNormalized, ProduceInvalid, Send,
       EnsureManagedDefinitions, Goto, Skip, TypeOK
  <2>3. QED
    BY <1>8, <2>1, <2>2
<1>10. ASSUME NEW w \in Workers, CommitMessage(w)
       PROVE  FetchedIsAccounted'
  <2>1. cur[w] \in A'
    BY <1>1, <1>10, ReadyIsSettled DEF CommitMessage
  <2>2. QED
    BY <1>8, <1>10, <2>1 DEF CommitMessage, TypeOK
<1>11. ASSUME NEW w \in Workers, Stop(w)
       PROVE  FetchedIsAccounted'
  <2>1. /\ UNCHANGED <<position, owner>>
        /\ pc'[w] = "down" /\ cur'[w] = NoMessage
        /\ \A v \in Workers \ {w} : cur'[v] = cur[v] /\ pc'[v] = pc[v]
    BY <1>11 DEF Stop, TypeOK
  <2>2. \A p \in Partitions : pc'[owner'[p]] # "down" =>
          Behind(p, position'[p]) \subseteq A' \cup {cur'[owner'[p]]}
    BY <1>2, <1>5, <2>1
  <2>3. \A v \in Workers : cur'[v] # NoMessage => Behind(cur'[v][1], cur'[v][2]) \subseteq A'
    BY <1>4, <2>1
  <2>4. QED
    BY <2>2, <2>3 DEF FetchedIsAccounted
<1>12. ASSUME NEW w \in Workers, Restart(w)
       PROVE  FetchedIsAccounted'
  <2>1. /\ UNCHANGED <<cur, owner>>
        /\ \A v \in Workers \ {w} : pc'[v] = pc[v]
        /\ \A p \in Partitions : position'[p] = IF owner[p] = w THEN committed[p] ELSE position[p]
    BY <1>12 DEF Restart, Resume, TypeOK
  <2>2. \A p \in Partitions : pc'[owner'[p]] # "down" =>
          Behind(p, position'[p]) \subseteq A' \cup {cur'[owner'[p]]}
    BY <1>2, <1>5, <1>6, <2>1
  <2>3. \A v \in Workers : cur'[v] # NoMessage => Behind(cur'[v][1], cur'[v][2]) \subseteq A'
    BY <1>4, <2>1
  <2>4. QED
    BY <2>2, <2>3 DEF FetchedIsAccounted
<1>13. ASSUME NEW w \in Workers, NEW q \in Partitions, Rebalance(q, w)
       PROVE  FetchedIsAccounted'
  <2>1. /\ UNCHANGED <<cur, pc>>
        /\ \A p \in Partitions : owner'[p] = IF p = q THEN w ELSE owner[p]
        /\ \A p \in Partitions : position'[p] = IF p = q THEN committed[p] ELSE position[p]
    BY <1>13 DEF Rebalance, Resume, worker, TypeOK
  <2>2. \A p \in Partitions : pc'[owner'[p]] # "down" =>
          Behind(p, position'[p]) \subseteq A' \cup {cur'[owner'[p]]}
    BY <1>2, <1>5, <1>6, <2>1
  <2>3. \A v \in Workers : cur'[v] # NoMessage => Behind(cur'[v][1], cur'[v][2]) \subseteq A'
    BY <1>4, <2>1
  <2>4. QED
    BY <2>2, <2>3 DEF FetchedIsAccounted
<1>14. CASE UNCHANGED <<pc, cur, owner, position>>
  <2>1. \A p \in Partitions : pc'[owner'[p]] # "down" =>
          Behind(p, position'[p]) \subseteq A' \cup {cur'[owner'[p]]}
    BY <1>2, <1>5, <1>14
  <2>2. \A v \in Workers : cur'[v] # NoMessage => Behind(cur'[v][1], cur'[v][2]) \subseteq A'
    BY <1>4, <1>14
  <2>3. QED
    BY <2>1, <2>2 DEF FetchedIsAccounted
<1>15. QED
  BY <1>7, <1>9, <1>10, <1>11, <1>12, <1>13, <1>14
  DEF Next, vars, Step, CommitFails, Crash, Publish, worker

LEMMA AccountedAlways == Spec => [](TypeOK /\ WorkDone /\ Accounted)
<1>1. TypeOK /\ WorkDone /\ Accounted /\ [Next]_vars => Accounted'
  BY CommittedStep, FetchedStep DEF Accounted
<1>2. QED
  BY <1>1, AccountedInit, WorkDoneAlways, PTL DEF Spec

\* No crash, restart, rebalance or failed call lets the committed offset pass a
\* message that was neither completed nor reported as an error.
THEOREM CommitsAreAccounted == Spec => []CommittedIsAccounted
<1>1. Accounted => CommittedIsAccounted
  BY DEF Accounted
<1>2. QED
  BY <1>1, AccountedAlways, PTL

-----------------------------------------------------------------------------
(* The worker group implements OffsetContract. *)

LEMMA ContractInit == Init => Contract!Init
<1> SUFFICES ASSUME Init PROVE Contract!Init
  OBVIOUS
<1>1. [p \in Partitions |-> Len(log[p])] = [p \in Partitions |-> 0]
  BY DEF Init
<1>2. Settled = {}
  BY DEF Init, Settled, Published
<1>3. QED
  BY <1>1, <1>2 DEF Init, Contract!Init

\* A newly published message has no durable effect yet.
LEMMA PublishSettles ==
  ASSUME TypeOK, TypeOK', [Next]_vars, NEW p \in Partitions, Publish(p)
  PROVE  Settled' = Settled
<1>1. UNCHANGED <<sink, definitionRows>>
  BY DEF Publish
<1>2. ASSUME NEW m \in Published', m \notin Published
      PROVE  ~Durable(m)'
  <2>1. Batch(m)'.valid \/ Batch(m)'.invalid
    <3>1. log' \in [Partitions -> Seq(Messages)]
      BY DEF TypeOK
    <3>2. m[1] \in Partitions /\ m[2] \in Nat /\ m[2] < Len(log'[m[1]])
      <4>1. PICK q \in Partitions : \E o \in 0 .. Len(log'[q]) - 1 : m = <<q, o>>
        BY <1>2 DEF Published
      <4>2. PICK o \in 0 .. Len(log'[q]) - 1 : m = <<q, o>>
        BY <4>1
      <4>3. QED
        BY <3>1, <4>2
    <3>3. Message(m)' \in Messages
      BY <3>1, <3>2 DEF Message
    <3>4. PICK body \in Seq(Event) : Message(m)'.body = body
      BY <3>3, MessagesAssumption
    <3>5. (\E i \in DOMAIN body : body[i].valid) \/ body = <<>> \/ \E i \in DOMAIN body : ~body[i].valid
      BY <3>4
    <3>6. QED
      BY <3>4, <3>5 DEF Batch, Normalize
  <2>2. \A s \in Sinks : m \notin sink'[s]
    BY <1>1, <1>2 DEF TypeOK
  <2>3. QED
    BY <2>1, <2>2 DEF Durable, Sinks
<1>3. Published \subseteq Published'
  BY LogGrows
<1>4. ASSUME NEW m \in Published
      PROVE  Durable(m)' <=> Durable(m)
  <2>1. Message(m)' = Message(m)
    BY LogGrows
  <2>2. Batch(m)' = Batch(m)
    BY <2>1 DEF Batch
  <2>3. QED
    BY <1>1, <2>1, <2>2 DEF Durable
<1>5. QED
  BY <1>2, <1>3, <1>4 DEF Settled

LEMMA ContractStep ==
  TypeOK /\ TypeOK' /\ WorkDone /\ Accounted /\ Accounted' /\ [Next]_vars
    => [Contract!Next]_Contract!vars
<1> SUFFICES ASSUME TypeOK, TypeOK', WorkDone, Accounted, Accounted', [Next]_vars
             PROVE  Contract!Next \/ UNCHANGED Contract!vars
  OBVIOUS
<1>1. Contract!Published = Published /\ Contract!Published' = Published'
  <2>1. \A p \in Partitions : [q \in Partitions |-> Len(log[q])][p] = Len(log[p])
    OBVIOUS
  <2>2. \A p \in Partitions : [q \in Partitions |-> Len(log'[q])][p] = Len(log'[p])
    OBVIOUS
  <2>3. QED
    BY <2>1, <2>2 DEF Contract!Published, Published
<1>2. ASSUME NEW p \in Partitions, Publish(p) PROVE Contract!Publish(p)
  <2>1. [q \in Partitions |-> Len(log'[q])]
          = [[q \in Partitions |-> Len(log[q])] EXCEPT ![p] = @ + 1]
    <3>1. \A q \in Partitions : Len(log'[q]) = IF q = p THEN Len(log[q]) + 1 ELSE Len(log[q])
      BY <1>2 DEF Publish, TypeOK
    <3>2. QED
      BY <3>1
  <2>2. QED
    BY <1>2, <2>1, PublishSettles DEF Publish, Contract!Publish
<1>3. CASE UNCHANGED <<log, committed>>
  <2>1. Settled \subseteq Settled' /\ Settled' \subseteq Published
    BY <1>3, SettledGrows DEF Settled, Published
  <2>2. skipped \subseteq skipped' /\ skipped' \subseteq Published
    BY <1>3, EffectsGrow DEF TypeOK, Published
  <2>3. Contract!Process
    BY <1>1, <1>3, <2>1, <2>2 DEF Contract!Process
  <2>4. QED
    BY <2>3 DEF Contract!Next
<1>4. ASSUME NEW w \in Workers, pc[w] = "commit", Acknowledge(w),
             UNCHANGED <<log, sink, definitionRows, skipped>>
      PROVE  Contract!Next
  <2>1. Settled' = Settled
    BY <1>4 DEF Settled, Durable, Published, Message, Batch
  <2>2. PICK p \in Partitions, o \in Nat : cur[w] = <<p, o>>
    BY <1>4, Holding DEF Published
  <2>3. o < Len(log[p]) /\ Len(log[p]) \in Nat
    <3>1. cur[w] \in Published /\ log \in [Partitions -> Seq(Messages)]
      BY <1>4, Holding DEF TypeOK
    <3>2. cur[w][2] < Len(log[cur[w][1]])
      BY <3>1, PublishedIds
    <3>3. QED
      BY <2>2, <3>1, <3>2
  <2>4. committed' = [committed EXCEPT ![p] = o + 1] /\ committed'[p] = o + 1
    BY <1>4, <2>2 DEF Acknowledge, TypeOK
  <2>5. Behind(p, o + 1) \subseteq Settled \cup skipped
    BY <1>4, <2>1, <2>4 DEF Accounted, CommittedIsAccounted
  <2>6. \A i \in 0 .. (o + 1) - 1 : <<p, i>> \in Settled \cup skipped
    BY <2>5 DEF Behind
  <2>7. Contract!Commit(p)
    <3>1. o + 1 \in 0 .. [q \in Partitions |-> Len(log[q])][p]
      BY <2>3
    <3>2. [q \in Partitions |-> Len(log[q])]' = [q \in Partitions |-> Len(log[q])]
      BY <1>4
    <3>3. QED
      BY <1>4, <2>1, <2>4, <2>6, <3>1, <3>2 DEF Contract!Commit
  <2>8. QED
    BY <2>7 DEF Contract!Next
<1>5. QED
  BY <1>2, <1>3, <1>4 DEF Next, vars, Step, Receive, ProduceTableflow, InsertInvalidRows,
     ProduceNormalized, ProduceInvalid, Send, EnsureManagedDefinitions, CommitMessage,
     CommitFails, Crash, Stop, Restart, Rebalance, kafka, Contract!Next

\* The normalizer keeps the consumer contract.
THEOREM NormalizerImplementsContract == Spec => ImplementsContract
<1>1. TypeOK /\ TypeOK' /\ WorkDone /\ Accounted /\ Accounted' /\ [Next]_vars
        => [Contract!Next]_Contract!vars
  BY ContractStep
<1>2. QED
  BY <1>1, ContractInit, AccountedAlways, PTL DEF Spec, ImplementsContract, Contract!Spec
=============================================================================
