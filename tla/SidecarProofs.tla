---------------------------- MODULE SidecarProofs ----------------------------
(***************************************************************************)
(* Theorems about Sidecar, for any number of events of any size, any       *)
(* limits of the queue, the batches and the retries, any number of faults. *)
(***************************************************************************)
EXTENDS Sidecar, TLAPS

-----------------------------------------------------------------------------
(* The events of a sequence. *)

LEMMA ToSetEmpty == ToSet(<<>>) = {}
BY DEF ToSet

LEMMA ToSetType ==
  ASSUME NEW S, NEW s \in Seq(S)
  PROVE  ToSet(s) \subseteq S
BY DEF ToSet

LEMMA ToSetAppend ==
  ASSUME NEW S, NEW s \in Seq(S), NEW e \in S
  PROVE  Append(s, e) \in Seq(S) /\ Append(s, e) # <<>> /\ ToSet(Append(s, e)) = ToSet(s) \cup {e}
<1>1. /\ Append(s, e) \in Seq(S) /\ Len(Append(s, e)) = Len(s) + 1 /\ Len(s) \in Nat
      /\ DOMAIN Append(s, e) = 1 .. Len(s) + 1 /\ DOMAIN s = 1 .. Len(s)
      /\ \A i \in 1 .. Len(s) : Append(s, e)[i] = s[i]
      /\ Append(s, e)[Len(s) + 1] = e
  OBVIOUS
<1>2. 1 .. Len(s) + 1 = (1 .. Len(s)) \cup {Len(s) + 1}
  BY <1>1
<1>3. QED
  BY <1>1, <1>2 DEF ToSet

LEMMA ToSetTail ==
  ASSUME NEW S, NEW s \in Seq(S), s # <<>>
  PROVE  /\ Head(s) \in S /\ Tail(s) \in Seq(S) /\ ToSet(s) = {Head(s)} \cup ToSet(Tail(s))
         /\ Len(Tail(s)) = Len(s) - 1 /\ (Len(s) = 1 <=> Tail(s) = <<>>)
<1>1. /\ Head(s) = s[1] /\ Len(s) \in Nat /\ Len(s) >= 1 /\ Tail(s) \in Seq(S)
      /\ Len(Tail(s)) = Len(s) - 1 /\ DOMAIN s = 1 .. Len(s) /\ DOMAIN Tail(s) = 1 .. Len(s) - 1
      /\ \A i \in 1 .. Len(s) - 1 : Tail(s)[i] = s[i + 1]
  OBVIOUS
<1>2. ASSUME NEW i \in 1 .. Len(s) PROVE s[i] = Head(s) \/ \E j \in DOMAIN Tail(s) : s[i] = Tail(s)[j]
  <2>1. CASE i = 1
    BY <1>1, <2>1
  <2>2. CASE i # 1
    <3>1. i - 1 \in DOMAIN Tail(s) /\ s[i] = Tail(s)[i - 1]
      BY <1>1, <2>2
    <3>2. QED
      BY <3>1
  <2>3. QED
    BY <2>1, <2>2
<1>3. ASSUME NEW j \in DOMAIN Tail(s) PROVE \E i \in DOMAIN s : s[i] = Tail(s)[j]
  <2>1. j + 1 \in DOMAIN s /\ s[j + 1] = Tail(s)[j]
    BY <1>1
  <2>2. QED
    BY <2>1
<1>4. 1 \in DOMAIN s /\ s[1] = Head(s)
  BY <1>1
<1>5. ToSet(s) = {Head(s)} \cup ToSet(Tail(s))
  <2>1. ToSet(s) \subseteq {Head(s)} \cup ToSet(Tail(s))
    BY <1>1, <1>2 DEF ToSet
  <2>2. ToSet(Tail(s)) \subseteq ToSet(s)
    BY <1>3 DEF ToSet
  <2>3. Head(s) \in ToSet(s)
    BY <1>4 DEF ToSet
  <2>4. QED
    BY <2>1, <2>2, <2>3
<1>6. Head(s) \in S /\ (Len(s) = 1 <=> Tail(s) = <<>>)
  <2>1. s[1] \in S
    BY <1>1
  <2>2. Len(s) = 1 <=> Len(Tail(s)) = 0
    BY <1>1
  <2>3. QED
    BY <1>1, <2>1, <2>2
<1>7. QED
  BY <1>1, <1>5, <1>6

LEMMA ToSetConcat ==
  ASSUME NEW S, NEW s \in Seq(S), NEW u \in Seq(S)
  PROVE  /\ s \o u \in Seq(S) /\ ToSet(s \o u) = ToSet(s) \cup ToSet(u)
         /\ Len(s \o u) = Len(s) + Len(u)
<1>1. /\ s \o u \in Seq(S) /\ Len(s \o u) = Len(s) + Len(u) /\ Len(s) \in Nat /\ Len(u) \in Nat
      /\ DOMAIN (s \o u) = 1 .. Len(s) + Len(u) /\ DOMAIN s = 1 .. Len(s) /\ DOMAIN u = 1 .. Len(u)
      /\ \A i \in 1 .. Len(s) : (s \o u)[i] = s[i]
      /\ \A i \in 1 .. Len(u) : (s \o u)[Len(s) + i] = u[i]
  OBVIOUS
<1>2. ASSUME NEW i \in 1 .. Len(s) + Len(u) PROVE (s \o u)[i] \in ToSet(s) \cup ToSet(u)
  <2>1. CASE i \in 1 .. Len(s)
    BY <1>1, <2>1 DEF ToSet
  <2>2. CASE i \notin 1 .. Len(s)
    <3>1. i - Len(s) \in 1 .. Len(u) /\ i = Len(s) + (i - Len(s))
      BY <1>1, <2>2
    <3>2. QED
      BY <1>1, <3>1 DEF ToSet
  <2>3. QED
    BY <2>1, <2>2
<1>3. ASSUME NEW i \in 1 .. Len(s) PROVE s[i] \in ToSet(s \o u)
  <2>1. i \in DOMAIN (s \o u)
    BY <1>1
  <2>2. QED
    BY <1>1, <2>1 DEF ToSet
<1>4. ASSUME NEW i \in 1 .. Len(u) PROVE u[i] \in ToSet(s \o u)
  <2>1. Len(s) + i \in DOMAIN (s \o u)
    BY <1>1
  <2>2. QED
    BY <1>1, <2>1 DEF ToSet
<1>5. ToSet(s \o u) \subseteq ToSet(s) \cup ToSet(u)
  BY <1>1, <1>2 DEF ToSet
<1>6. ToSet(s) \cup ToSet(u) \subseteq ToSet(s \o u)
  BY <1>1, <1>3, <1>4 DEF ToSet
<1>7. QED
  BY <1>1, <1>5, <1>6

-----------------------------------------------------------------------------
(* Type correctness. *)

\* The events of one body are new ones.
LEMMA ArrivingEvents ==
  ASSUME submitted \in 0 .. MaxEvents, NEW n \in 1 .. MaxRequest, submitted + n <= MaxEvents
  PROVE  /\ Arriving(n) \in Seq(Events) /\ Len(Arriving(n)) = n
         /\ ToSet(Arriving(n)) \subseteq Events
         /\ \A e \in ToSet(Arriving(n)) : e > submitted /\ e <= submitted + n
<1>1. submitted \in Nat /\ n \in Nat /\ MaxEvents \in Nat
  BY LimitsAssumption
<1>2. DOMAIN Arriving(n) = 1 .. n /\ \A i \in 1 .. n : Arriving(n)[i] = submitted + i
  BY DEF Arriving
<1>3. \A i \in 1 .. n : submitted + i \in Events /\ submitted + i > submitted /\ submitted + i <= submitted + n
  BY <1>1 DEF Events
<1>4. Arriving(n) \in [1 .. n -> Events]
  BY <1>2, <1>3 DEF Arriving
<1>5. Arriving(n) \in Seq(Events) /\ Len(Arriving(n)) = n
  BY <1>1, <1>4
<1>6. ASSUME NEW e \in ToSet(Arriving(n)) PROVE e \in Events /\ e > submitted /\ e <= submitted + n
  <2>1. PICK i \in 1 .. n : e = Arriving(n)[i]
    BY <1>2 DEF ToSet
  <2>2. QED
    BY <1>2, <1>3, <2>1
<1>7. QED
  BY <1>5, <1>6

LEMMA InitType == Init => TypeOK
BY LimitsAssumption DEF Init, TypeOK, NoRequest, NoEvent, Events, Transports

LEMMA SubmitType ==
  ASSUME TypeOK, NEW t \in Transports, NEW n \in 1 .. MaxRequest, Submit(t, n)
  PROVE  TypeOK'
<1>1. /\ submitted \in 0 .. MaxEvents /\ submitted + n <= MaxEvents /\ submitted' = submitted + n
      /\ UNCHANGED <<spool, up, listing, held, carry, batch, sending, phase, attempt, remote, dropped,
                     lost, failed, faults>>
  BY DEF Submit, TypeOK, replay, batcher
<1>2. submitted' \in 0 .. MaxEvents
  BY <1>1, LimitsAssumption
<1>3. Arriving(n) \in Seq(Events) /\ Len(Arriving(n)) = n /\ ToSet(Arriving(n)) \subseteq Events
  BY <1>1, ArrivingEvents
<1>4. CASE SubmitToQueue(n)
  <2>1. queue \in Seq(Events) /\ QueueCapacity \in Nat /\ Len(queue) <= QueueCapacity
    BY LimitsAssumption DEF TypeOK
  <2>2. UNCHANGED <<request, file>>
    BY <1>4 DEF SubmitToQueue
  <2>3. \/ queue' = queue \o Arriving(n) /\ accepted' = accepted \cup ToSet(Arriving(n)) /\ UNCHANGED rejected /\ Fits(n)
        \/ rejected' = rejected \cup ToSet(Arriving(n)) /\ UNCHANGED <<queue, accepted>>
    BY <1>4 DEF SubmitToQueue
  <2>4. CASE queue' = queue \o Arriving(n) /\ accepted' = accepted \cup ToSet(Arriving(n)) /\ UNCHANGED rejected /\ Fits(n)
    <3>1. queue' \in Seq(Events) /\ Len(queue') = Len(queue) + n
      BY <1>3, <2>1, <2>4, ToSetConcat
    <3>2. Len(queue') <= QueueCapacity
      BY <2>4, <3>1 DEF Fits
    <3>3. accepted' \cup rejected' \cup dropped' \cup lost' \cup failed' \subseteq Events
      BY <1>1, <1>3, <2>4 DEF TypeOK
    <3>4. {queue', batch', sending'} \subseteq Seq(Events) /\ (phase' = "idle" <=> sending' = <<>>)
      BY <1>1, <3>1 DEF TypeOK
    <3>5. QED
      BY <1>1, <1>2, <2>2, <3>2, <3>3, <3>4 DEF TypeOK
  <2>5. CASE rejected' = rejected \cup ToSet(Arriving(n)) /\ UNCHANGED <<queue, accepted>>
    BY <1>1, <1>2, <1>3, <2>2, <2>5 DEF TypeOK
  <2>6. QED
    BY <2>3, <2>4, <2>5
<1>5. CASE SubmitStepwise(t, n)
  <2>1. /\ request' = [request EXCEPT ![t] = [todo |-> Arriving(n), all |-> ToSet(Arriving(n))]]
        /\ UNCHANGED <<queue, accepted, rejected, file>>
    BY <1>5 DEF SubmitStepwise
  <2>2. request' \in [Transports -> [todo : Seq(Events), all : SUBSET Events]]
    BY <1>3, <2>1 DEF TypeOK
  <2>3. QED
    BY <1>1, <1>2, <2>1, <2>2 DEF TypeOK
<1>6. QED
  BY <1>4, <1>5 DEF Submit

LEMMA IntakeType ==
  ASSUME TypeOK, NEW t \in Transports, Intake(t)
  PROVE  TypeOK'
<1>1. request \in [Transports -> [todo : Seq(Events), all : SUBSET Events]]
  BY DEF TypeOK
<1>2. /\ [request EXCEPT ![t] = NoRequest] \in [Transports -> [todo : Seq(Events), all : SUBSET Events]]
      /\ [request EXCEPT !["udp"] = NoRequest] \in [Transports -> [todo : Seq(Events), all : SUBSET Events]]
  <2>1. NoRequest \in [todo : Seq(Events), all : SUBSET Events]
    BY DEF NoRequest
  <2>2. QED
    BY <1>1, <2>1
<1>3. ASSUME NEW v \in Transports, request[v].todo # <<>>
      PROVE  /\ Head(request[v].todo) \in Events
             /\ [request EXCEPT ![v].todo = Tail(@)] \in [Transports -> [todo : Seq(Events), all : SUBSET Events]]
  <2>1. request[v].todo \in Seq(Events)
    BY <1>1
  <2>2. Head(request[v].todo) \in Events /\ Tail(request[v].todo) \in Seq(Events)
    BY <1>3, <2>1, ToSetTail
  <2>3. QED
    BY <1>1, <2>2
<1>4. CASE QueueDatagramEvent
  <2>1. request["udp"].todo # <<>> /\ "udp" \in Transports
    BY <1>4 DEF QueueDatagramEvent, Transports
  <2>2. PICK e \in Events : e = Head(request["udp"].todo)
    BY <1>3, <2>1
  <2>3. /\ request' \in [Transports -> [todo : Seq(Events), all : SUBSET Events]]
        /\ UNCHANGED <<spool, up, submitted, rejected, file, listing, held, carry, batch, sending, phase,
                       attempt, remote, dropped, lost, failed, faults>>
    BY <1>2, <1>3, <1>4, <2>1 DEF QueueDatagramEvent, replay, batcher
  <2>4. \/ queue' = Append(queue, e) /\ accepted' = accepted \cup {e} /\ Fits(1)
        \/ UNCHANGED <<queue, accepted>>
    BY <1>4, <2>2 DEF QueueDatagramEvent
  <2>5. CASE queue' = Append(queue, e) /\ accepted' = accepted \cup {e} /\ Fits(1)
    <3>1. queue' \in Seq(Events) /\ Len(queue') <= QueueCapacity
      BY <2>5, LimitsAssumption DEF TypeOK, Fits
    <3>2. QED
      BY <2>3, <2>5, <3>1 DEF TypeOK
  <2>6. CASE UNCHANGED <<queue, accepted>>
    BY <2>3, <2>6 DEF TypeOK
  <2>7. QED
    BY <2>4, <2>5, <2>6
<1>5. CASE PersistEvent(t)
  <2>1. request[t].todo # <<>>
    BY <1>5 DEF PersistEvent
  <2>2. PICK e \in Events : e = Head(request[t].todo)
    BY <1>3, <2>1
  <2>3. UNCHANGED <<spool, up, submitted, accepted, queue, listing, held, carry, batch, sending, phase,
                    attempt, remote, dropped, lost, failed>>
    BY <1>5 DEF PersistEvent, replay, batcher
  <2>4. /\ request' \in [Transports -> [todo : Seq(Events), all : SUBSET Events]]
        /\ rejected' \subseteq Events
    <3>1. \/ UNCHANGED <<request, rejected>>
          \/ request' = [request EXCEPT ![t].todo = Tail(@)] /\ UNCHANGED rejected
          \/ /\ request' = [request EXCEPT ![t] = NoRequest]
             /\ rejected' = IF t = "http" THEN rejected \cup request[t].all ELSE rejected
      BY <1>5 DEF PersistEvent
    <3>2. rejected \subseteq Events /\ request[t].all \subseteq Events
      BY <1>1 DEF TypeOK
    <3>3. QED
      BY <1>1, <1>2, <1>3, <2>1, <3>1, <3>2
  <2>5. file' \in [Events -> {"none", "tmp", "json", "inflight", "bad"}]
    BY <1>5, <2>2 DEF PersistEvent, TypeOK
  <2>6. faults' \in Nat
    BY <1>5 DEF PersistEvent, Fault, TypeOK
  <2>7. QED
    BY <2>3, <2>4, <2>5, <2>6 DEF TypeOK
<1>6. CASE AnswerSpooled(t)
  <2>1. /\ accepted' = accepted \cup request[t].all /\ request' = [request EXCEPT ![t] = NoRequest]
        /\ UNCHANGED <<spool, up, submitted, rejected, file, queue, listing, held, carry, batch, sending,
                       phase, attempt, remote, dropped, lost, failed, faults>>
    BY <1>6 DEF AnswerSpooled, replay, batcher
  <2>2. accepted' \subseteq Events
    BY <1>1, <2>1 DEF TypeOK
  <2>3. QED
    BY <1>2, <2>1, <2>2 DEF TypeOK
<1>7. QED
  BY <1>4, <1>5, <1>6 DEF Intake

LEMMA ReplayerType ==
  ASSUME TypeOK, Replayer
  PROVE  TypeOK'
<1>1. CASE ListReady
  <2>1. listing' = Ready /\ Ready \subseteq Events
    BY <1>1 DEF ListReady, Ready
  <2>2. UNCHANGED <<spool, up, submitted, request, accepted, rejected, file, queue, held, carry, batch, sending,
                    phase, attempt, remote, dropped, lost, failed, faults>>
    BY <1>1 DEF ListReady, intake, batcher
  <2>3. QED
    BY <2>1, <2>2 DEF TypeOK
<1>2. CASE Take
  <2>1. listing \subseteq Events
    BY DEF TypeOK
  <2>2. PICK e \in listing : TakeFile(e)
    BY <1>2 DEF Take
  <2>3. /\ listing' = listing \ {e}
        /\ UNCHANGED <<spool, up, submitted, request, accepted, rejected, queue, carry, batch, sending, phase,
                       attempt, remote, dropped, lost>>
        /\ \/ file' = [file EXCEPT ![e] = "inflight"] /\ held' = e /\ UNCHANGED <<failed, faults>>
           \/ /\ faults' = faults + 1 /\ failed' = failed \cup {e} /\ held' = held
              /\ \E ext \in {"bad", "json", "inflight"} : file' = [file EXCEPT ![e] = ext]
    BY <1>2, <2>2 DEF Take, TakeFile, Fault, intake, batcher
  <2>4. file' \in [Events -> {"none", "tmp", "json", "inflight", "bad"}]
    BY <2>3 DEF TypeOK
  <2>5. /\ listing' \subseteq Events
        /\ held' \in Events \cup {NoEvent} /\ carry' \in Events \cup {NoEvent} /\ faults' \in Nat
        /\ accepted' \cup rejected' \cup dropped' \cup lost' \cup failed' \subseteq Events
    BY <2>1, <2>3 DEF TypeOK
  <2>6. QED
    BY <2>3, <2>4, <2>5 DEF TypeOK
<1>3. CASE Enqueue
  <2>1. /\ held # NoEvent /\ Fits(1) /\ queue' = Append(queue, held) /\ held' = NoEvent
        /\ UNCHANGED <<spool, up, submitted, request, accepted, rejected, file, listing, carry, batch, sending,
                       phase, attempt, remote, dropped, lost, failed, faults>>
    BY <1>3 DEF Enqueue, intake, batcher
  <2>2. held \in Events /\ queue \in Seq(Events)
    BY <2>1 DEF TypeOK
  <2>3. queue' \in Seq(Events) /\ Len(queue') = Len(queue) + 1
    BY <2>1, <2>2
  <2>4. Len(queue') <= QueueCapacity
    BY <2>1, <2>3 DEF Fits
  <2>5. QED
    BY <2>1, <2>3, <2>4 DEF TypeOK
<1>4. QED
  BY <1>1, <1>2, <1>3 DEF Replayer

\* A flush of a batch that is not empty.
LEMMA FlushType ==
  ASSUME NEW s \in Seq(Events), s # <<>>, Flush(s)
  PROVE  sending' \in Seq(Events) /\ sending' # <<>> /\ phase' = "post" /\ attempt' = 0 /\ batch' = <<>>
BY DEF Flush

LEMMA PushType ==
  ASSUME TypeOK, phase = "idle", NEW e \in Events, Push(e)
  PROVE  /\ {batch', sending'} \subseteq Seq(Events) /\ phase' \in {"idle", "post"}
         /\ (phase' = "idle" <=> sending' = <<>>) /\ attempt' \in 0 .. RetryAttempts
         /\ ToSet(batch') \cup ToSet(sending') = ToSet(batch) \cup {e}
<1> DEFINE filled == Append(batch, e)
<1>1. batch \in Seq(Events) /\ sending = <<>> /\ attempt \in 0 .. RetryAttempts /\ 0 \in 0 .. RetryAttempts
  BY LimitsAssumption DEF TypeOK
<1>2. filled \in Seq(Events) /\ filled # <<>> /\ ToSet(filled) = ToSet(batch) \cup {e}
  BY <1>1, ToSetAppend
<1>3. Flush(filled) \/ (batch' = filled /\ UNCHANGED <<sending, phase, attempt>>)
  BY DEF Push
<1>4. CASE Flush(filled)
  BY <1>1, <1>2, <1>4, ToSetEmpty DEF Flush
<1>5. CASE batch' = filled /\ UNCHANGED <<sending, phase, attempt>>
  BY <1>1, <1>2, <1>5, ToSetEmpty
<1>6. QED
  BY <1>3, <1>4, <1>5

LEMMA BatcherType ==
  ASSUME TypeOK, Batcher \/ Tick
  PROVE  TypeOK'
<1>1. /\ queue \in Seq(Events) /\ batch \in Seq(Events) /\ sending \in Seq(Events) /\ Len(queue) <= QueueCapacity
      /\ RetryAttempts \in Nat /\ QueueCapacity \in Nat /\ attempt \in 0 .. RetryAttempts
      /\ (phase = "idle" <=> sending = <<>>) /\ 0 \in 0 .. RetryAttempts
  BY LimitsAssumption DEF TypeOK
<1>2. CASE Receive
  <2>1. /\ phase = "idle" /\ carry = NoEvent /\ queue # <<>> /\ queue' = Tail(queue)
        /\ UNCHANGED <<spool, up, submitted, request, accepted, rejected, file, listing, held, remote, dropped,
                       lost, failed, faults>>
        /\ \/ Overflows(Head(queue)) /\ Flush(batch) /\ carry' = Head(queue)
           \/ ~Overflows(Head(queue)) /\ Push(Head(queue)) /\ UNCHANGED carry
    BY <1>2 DEF Receive, Carry, intake, replay
  <2>2. Head(queue) \in Events /\ Tail(queue) \in Seq(Events) /\ Len(Tail(queue)) = Len(queue) - 1
    BY <1>1, <2>1, ToSetTail
  <2>3. queue' \in Seq(Events) /\ Len(queue') <= QueueCapacity
    <3>1. Len(queue) \in Nat
      BY <1>1
    <3>2. QED
      BY <1>1, <2>1, <2>2, <3>1
  <2>4. CASE Overflows(Head(queue)) /\ Flush(batch) /\ carry' = Head(queue)
    <3>1. batch # <<>>
      BY <2>4 DEF Overflows
    <3>2. sending' = batch /\ phase' = "post" /\ attempt' = 0 /\ batch' = <<>> /\ batch' \in Seq(Events)
      BY <2>4 DEF Flush
    <3>3. QED
      BY <1>1, <2>1, <2>2, <2>3, <2>4, <3>1, <3>2 DEF TypeOK
  <2>5. CASE ~Overflows(Head(queue)) /\ Push(Head(queue)) /\ UNCHANGED carry
    <3>1. /\ {batch', sending'} \subseteq Seq(Events) /\ phase' \in {"idle", "post"}
          /\ (phase' = "idle" <=> sending' = <<>>) /\ attempt' \in 0 .. RetryAttempts
      BY <2>1, <2>2, <2>5, PushType
    <3>2. QED
      BY <2>1, <2>3, <2>5, <3>1 DEF TypeOK
  <2>6. QED
    BY <2>1, <2>4, <2>5
<1>3. CASE PushCarried
  <2>1. /\ phase = "idle" /\ carry # NoEvent /\ Push(carry) /\ carry' = NoEvent
        /\ UNCHANGED <<spool, up, submitted, request, accepted, rejected, file, queue, listing, held, remote,
                       dropped, lost, failed, faults>>
    BY <1>3 DEF PushCarried, intake, replay
  <2>2. carry \in Events
    BY <2>1 DEF TypeOK
  <2>3. /\ {batch', sending'} \subseteq Seq(Events) /\ phase' \in {"idle", "post"}
        /\ (phase' = "idle" <=> sending' = <<>>) /\ attempt' \in 0 .. RetryAttempts
    BY <2>1, <2>2, PushType
  <2>4. QED
    BY <2>1, <2>3 DEF TypeOK
<1>4. CASE Tick
  <2>1. /\ batch # <<>> /\ Flush(batch)
        /\ UNCHANGED <<spool, up, submitted, request, accepted, rejected, file, queue, listing, held, carry, remote,
                       dropped, lost, failed, faults>>
    BY <1>4 DEF Tick, intake, replay
  <2>2. sending' = batch /\ phase' = "post" /\ attempt' = 0 /\ batch' = <<>> /\ batch' \in Seq(Events)
    BY <2>1 DEF Flush
  <2>3. QED
    BY <1>1, <2>1, <2>2 DEF TypeOK
<1>5. CASE Post
  <2>1. /\ phase = "post" /\ attempt < RetryAttempts
        /\ UNCHANGED <<spool, up, submitted, request, accepted, rejected, file, queue, listing, held, carry, batch,
                       sending, dropped, lost, failed>>
        /\ \/ Received /\ phase' = "delete" /\ attempt' = 0 /\ UNCHANGED faults
           \/ Fault /\ (Received \/ UNCHANGED remote) /\ attempt' = attempt + 1 /\ UNCHANGED phase
    BY <1>5 DEF Post, intake, replay
  <2>2. remote' \in [Events -> Nat]
    <3>1. remote \in [Events -> Nat]
      BY DEF TypeOK
    <3>2. CASE Received
      <4>1. \A e \in Events : remote[e] + (IF e \in ToSet(sending) THEN 1 ELSE 0) \in Nat
        BY <3>1
      <4>2. QED
        BY <3>2, <4>1 DEF Received
    <3>3. QED
      BY <2>1, <3>1, <3>2
  <2>3. faults' \in Nat
    BY <2>1 DEF Fault, TypeOK
  <2>4. attempt' \in 0 .. RetryAttempts /\ phase' \in {"post", "delete"} /\ sending # <<>>
    BY <1>1, <2>1
  <2>5. QED
    BY <1>1, <2>1, <2>2, <2>3, <2>4 DEF TypeOK
<1>6. CASE GiveUp
  <2>1. /\ phase = "post" /\ phase' = "restore" /\ attempt' = 0
        /\ dropped' = (IF spool THEN dropped ELSE dropped \cup ToSet(sending))
        /\ UNCHANGED <<spool, up, submitted, request, accepted, rejected, file, queue, listing, held, carry, batch,
                       sending, remote, lost, failed, faults>>
    BY <1>6 DEF GiveUp, intake, replay
  <2>2. dropped' \subseteq Events
    BY <1>1, <2>1, ToSetType DEF TypeOK
  <2>3. QED
    BY <1>1, <2>1, <2>2 DEF TypeOK
<1>7. CASE SettleFile
  <2>1. /\ phase \in {"delete", "restore"} /\ sending' = Tail(sending)
        /\ phase' = (IF Len(sending) = 1 THEN "idle" ELSE phase)
        /\ UNCHANGED <<spool, up, submitted, request, accepted, rejected, queue, listing, held, carry, batch, attempt,
                       remote, dropped, lost>>
        /\ \/ UNCHANGED <<file, failed, faults>>
           \/ file' = [file EXCEPT ![Head(sending)] = Outcome] /\ UNCHANGED <<failed, faults>>
           \/ Fault /\ failed' = failed \cup {Head(sending)} /\ UNCHANGED file
    BY <1>7 DEF SettleFile, intake, replay
  <2>2. /\ Head(sending) \in Events /\ Tail(sending) \in Seq(Events)
        /\ (Len(sending) = 1 <=> Tail(sending) = <<>>)
    BY <1>1, <2>1, ToSetTail
  <2>3. file' \in [Events -> {"none", "tmp", "json", "inflight", "bad"}]
    BY <2>1, <2>2 DEF Outcome, TypeOK
  <2>4. faults' \in Nat /\ failed' \subseteq Events
    <3>1. faults \in Nat /\ failed \subseteq Events
      BY DEF TypeOK
    <3>2. QED
      BY <2>1, <2>2, <3>1 DEF Fault
  <2>5. phase' \in {"idle", "delete", "restore"} /\ (phase' = "idle" <=> sending' = <<>>)
    BY <2>1, <2>2
  <2>6. QED
    BY <1>1, <2>1, <2>2, <2>3, <2>4, <2>5 DEF TypeOK
<1>8. QED
  BY <1>2, <1>3, <1>4, <1>5, <1>6, <1>7 DEF Batcher

\* The events in memory are events.
LEMMA MemoryType == TypeOK => InMemory \subseteq Events
<1> SUFFICES ASSUME TypeOK PROVE InMemory \subseteq Events
  OBVIOUS
<1>1. queue \in Seq(Events) /\ batch \in Seq(Events) /\ sending \in Seq(Events)
  BY DEF TypeOK
<1>2. ToSet(queue) \subseteq Events /\ ToSet(batch) \subseteq Events /\ ToSet(sending) \subseteq Events
  BY <1>1, ToSetType
<1>3. {held, carry} \ {NoEvent} \subseteq Events
  BY DEF TypeOK
<1>4. QED
  BY <1>2, <1>3 DEF InMemory

LEMMA ExitType == TypeOK /\ Exit => TypeOK'
<1> SUFFICES ASSUME TypeOK, Exit PROVE TypeOK'
  OBVIOUS
<1>1. lost' \subseteq Events
  BY MemoryType DEF Exit, TypeOK
<1>2. /\ up' = FALSE /\ request' = [t \in Transports |-> NoRequest] /\ queue' = <<>> /\ listing' = {} /\ held' = NoEvent
      /\ carry' = NoEvent /\ batch' = <<>> /\ sending' = <<>> /\ phase' = "idle" /\ attempt' = 0 /\ faults' = faults + 1
      /\ UNCHANGED <<spool, submitted, file, remote, accepted, rejected, dropped, failed>>
  BY DEF Exit, Fault
<1>3. request' \in [Transports -> [todo : Seq(Events), all : SUBSET Events]]
  BY <1>2 DEF NoRequest
<1>4. <<>> \in Seq(Events) /\ Len(<<>>) = 0 /\ 0 <= QueueCapacity /\ 0 \in 0 .. RetryAttempts
  BY LimitsAssumption
<1>5. {queue', batch', sending'} \subseteq Seq(Events) /\ Len(queue') <= QueueCapacity /\ attempt' \in 0 .. RetryAttempts
  BY <1>2, <1>4
<1>6. /\ {held', carry'} \subseteq Events \cup {NoEvent} /\ listing' \subseteq Events /\ faults' \in Nat
      /\ accepted' \cup rejected' \cup dropped' \cup lost' \cup failed' \subseteq Events
  BY <1>1, <1>2 DEF TypeOK
<1>7. QED
  BY <1>2, <1>3, <1>5, <1>6 DEF TypeOK

LEMMA RestartType == TypeOK /\ Restart => TypeOK'
<1> SUFFICES ASSUME TypeOK, Restart PROVE TypeOK'
  OBVIOUS
<1>1. file' \in [Events -> {"none", "tmp", "json", "inflight", "bad"}]
  BY DEF Restart, Recovered, TypeOK
<1>2. /\ up' = TRUE
      /\ UNCHANGED <<spool, submitted, request, accepted, rejected, queue, listing, held, carry, batch, sending,
                     phase, attempt, remote, dropped, lost, failed, faults>>
  BY DEF Restart, intake, replay, batcher
<1>3. QED
  BY <1>1, <1>2 DEF TypeOK

LEMMA TypeStep == TypeOK /\ [Next]_vars => TypeOK'
<1> SUFFICES ASSUME TypeOK, [Next]_vars PROVE TypeOK'
  OBVIOUS
<1>1. CASE UNCHANGED vars
  BY <1>1 DEF vars, TypeOK
<1>2. ASSUME NEW t \in Transports, NEW n \in 1 .. MaxRequest, Submit(t, n) PROVE TypeOK'
  BY <1>2, SubmitType
<1>3. ASSUME NEW t \in Transports, Intake(t) PROVE TypeOK'
  BY <1>3, IntakeType
<1>4. QED
  BY <1>1, <1>2, <1>3, ReplayerType, BatcherType, ExitType, RestartType DEF Next

\* The sidecar's variables keep their types, for events of any number and size and any
\* limits (apps/sidecar/src/main.rs).
THEOREM TypeCorrect == Spec => []TypeOK
<1>1. QED
  BY InitType, TypeStep, PTL DEF Spec

-----------------------------------------------------------------------------
(* A batch whose files are settled was received, or was given up.          *)

SettledBatch ==
  /\ phase = "delete" => \A e \in ToSet(sending) : remote[e] > 0
  /\ phase = "restore" /\ ~spool => ToSet(sending) \subseteq dropped

\* The batcher and the sender alone touch the batch that is sent, but for an exit.
LEMMA BatchFrame ==
  ASSUME [Next]_vars
  PROVE  \/ Batcher \/ Tick \/ Exit
         \/ UNCHANGED <<spool, phase, sending, batch, carry, remote, dropped>>
<1>1. CASE UNCHANGED vars
  BY <1>1 DEF vars
<1>2. ASSUME NEW t \in Transports, NEW n \in 1 .. MaxRequest, Submit(t, n)
      PROVE  UNCHANGED <<spool, phase, sending, batch, carry, remote, dropped>>
  BY <1>2 DEF Submit, batcher
<1>3. ASSUME NEW t \in Transports, Intake(t)
      PROVE  UNCHANGED <<spool, phase, sending, batch, carry, remote, dropped>>
  BY <1>3 DEF Intake, QueueDatagramEvent, PersistEvent, AnswerSpooled, batcher
<1>4. CASE Replayer
  BY <1>4 DEF Replayer, ListReady, Take, TakeFile, Enqueue, batcher
<1>5. CASE Restart
  BY <1>5 DEF Restart, batcher
<1>6. QED
  BY <1>1, <1>2, <1>3, <1>4, <1>5 DEF Next

\* A flush starts with the phase "post".
LEMMA BatchFlushes ==
  ASSUME TypeOK, Receive \/ PushCarried \/ Tick
  PROVE  phase' \in {"idle", "post"} /\ UNCHANGED <<spool, remote, dropped, lost, accepted, rejected, submitted, request, held, file>>
<1>1. CASE Receive
  BY <1>1 DEF Receive, Flush, Push, intake, replay
<1>2. CASE PushCarried
  BY <1>2 DEF PushCarried, Flush, Push, intake, replay
<1>3. CASE Tick
  BY <1>3 DEF Tick, Flush, intake, replay
<1>4. QED
  BY <1>1, <1>2, <1>3

LEMMA SettledBatchStep == TypeOK /\ SettledBatch /\ [Next]_vars => SettledBatch'
<1> SUFFICES ASSUME TypeOK, SettledBatch, [Next]_vars PROVE SettledBatch'
  OBVIOUS
<1>1. CASE UNCHANGED <<spool, phase, sending, batch, carry, remote, dropped>>
  BY <1>1 DEF SettledBatch, ToSet
<1>2. CASE Receive \/ PushCarried \/ Tick
  BY <1>2, BatchFlushes DEF SettledBatch
<1>3. CASE Exit
  BY <1>3 DEF Exit, SettledBatch
<1>4. CASE Post
  <2>1. /\ UNCHANGED <<sending, dropped, spool>>
        /\ (Received /\ phase' = "delete") \/ phase' = "post"
    BY <1>4 DEF Post
  <2>2. CASE Received /\ phase' = "delete"
    <3>1. ASSUME NEW e \in ToSet(sending) PROVE remote'[e] > 0
      <4>1. e \in Events /\ remote[e] \in Nat
        BY ToSetType DEF TypeOK
      <4>2. remote'[e] = remote[e] + 1
        BY <2>2, <4>1, <3>1 DEF Received
      <4>3. QED
        BY <4>1, <4>2
    <3>2. ToSet(sending') = ToSet(sending)
      BY <2>1
    <3>3. QED
      BY <2>2, <3>1, <3>2 DEF SettledBatch
  <2>3. CASE phase' = "post"
    BY <2>3 DEF SettledBatch
  <2>4. QED
    BY <2>1, <2>2, <2>3
<1>5. CASE GiveUp
  <2>1. /\ phase' = "restore" /\ UNCHANGED <<sending, spool>>
        /\ dropped' = (IF spool THEN dropped ELSE dropped \cup ToSet(sending))
    BY <1>5 DEF GiveUp
  <2>2. ToSet(sending') = ToSet(sending)
    BY <2>1
  <2>3. QED
    BY <2>1, <2>2 DEF SettledBatch
<1>6. CASE SettleFile
  <2>1. /\ phase \in {"delete", "restore"} /\ sending' = Tail(sending) /\ phase' \in {"idle", phase}
        /\ UNCHANGED <<remote, dropped, spool>>
    BY <1>6 DEF SettleFile
  <2>2. ToSet(sending') \subseteq ToSet(sending)
    BY <2>1, ToSetTail DEF TypeOK
  <2>3. QED
    BY <2>1, <2>2 DEF SettledBatch
<1>7. QED
  BY <1>1, <1>2, <1>3, <1>4, <1>5, <1>6, BatchFrame DEF Batcher

-----------------------------------------------------------------------------
(* With a spool: an event is on disk until it was received.                *)

Kept(e) == remote[e] > 0 \/ file[e] \in {"json", "inflight", "bad"}

Spooled ==
  spool => /\ \A e \in accepted : Kept(e)
           /\ \A t \in Transports : \A e \in request[t].all : e \in ToSet(request[t].todo) \/ Kept(e)

\* An event's file is renamed where it is persisted, taken, settled or recovered, and nowhere else.
LEMMA FileChanges ==
  ASSUME [Next]_vars
  PROVE  UNCHANGED file \/ Take \/ SettleFile \/ Restart \/ \E t \in Transports : PersistEvent(t)
<1>intake. ASSUME NEW t \in Transports, Intake(t), ~PersistEvent(t) PROVE UNCHANGED file
  BY <1>intake DEF Intake, QueueDatagramEvent, AnswerSpooled
<1>submit. ASSUME NEW t \in Transports, NEW n \in 1 .. MaxRequest, Submit(t, n) PROVE UNCHANGED file
  BY <1>submit DEF Submit, SubmitToQueue, SubmitStepwise
<1>replay. Replayer => Take \/ UNCHANGED file
  BY DEF Replayer, ListReady, Enqueue
<1>send. Batcher => SettleFile \/ UNCHANGED file
  BY DEF Batcher, Receive, PushCarried, Post, GiveUp
<1>idle. Tick \/ Exit \/ UNCHANGED vars => UNCHANGED file
  BY DEF Tick, Exit, vars
<1> QED
  BY <1>intake, <1>submit, <1>replay, <1>send, <1>idle DEF Next

\* Nothing is deleted that was not received.
LEMMA KeptStays ==
  ASSUME TypeOK, SettledBatch, [Next]_vars, spool, NEW e \in Events, Kept(e)
  PROVE  Kept(e)'
<1>1. remote \in [Events -> Nat] /\ file \in [Events -> {"none", "tmp", "json", "inflight", "bad"}]
  BY DEF TypeOK
<1>2. remote'[e] >= remote[e]
  <2>1. CASE UNCHANGED remote
    BY <1>1, <2>1
  <2>2. CASE Received
    BY <1>1, <2>2 DEF Received
  <2>3. QED
    BY <2>1, <2>2, BatchFrame DEF Batcher, Receive, PushCarried, Tick, Exit, Post, GiveUp, SettleFile
<1>3. remote'[e] \in Nat /\ (remote[e] > 0 => Kept(e)')
  BY <1>1, <1>2, TypeStep DEF TypeOK, Kept
<1>4. SUFFICES ASSUME file[e] \in {"json", "inflight", "bad"} PROVE Kept(e)'
  BY <1>3 DEF Kept
<1>5. CASE UNCHANGED file
  BY <1>4, <1>5 DEF Kept
<1>6. ASSUME NEW t \in Transports, PersistEvent(t) PROVE Kept(e)'
  <2>1. PICK f : f = Head(request[t].todo)
    OBVIOUS
  <2>2. \/ file[f] = "none" /\ file' = [file EXCEPT ![f] = "tmp"]
        \/ file' = [file EXCEPT ![f] = "json"]
        \/ UNCHANGED file
    BY <1>6, <2>1 DEF PersistEvent
  <2>3. file'[e] \in {"json", "inflight", "bad"}
    BY <1>1, <1>4, <2>2
  <2>4. QED
    BY <2>3 DEF Kept
<1>7. CASE Take
  <2>1. PICK f \in listing : TakeFile(f)
    BY <1>7 DEF Take
  <2>2. \E ext \in {"bad", "json", "inflight"} : file' = [file EXCEPT ![f] = ext]
    BY <2>1 DEF TakeFile
  <2>3. file'[e] \in {"json", "inflight", "bad"}
    BY <1>1, <1>4, <2>2
  <2>4. QED
    BY <2>3 DEF Kept
<1>8. CASE SettleFile
  <2>1. /\ phase \in {"delete", "restore"} /\ UNCHANGED remote
        /\ UNCHANGED file \/ file' = [file EXCEPT ![Head(sending)] = Outcome]
    BY <1>8 DEF SettleFile
  <2>2. CASE e = Head(sending) /\ phase = "delete"
    <3>1. Head(sending) \in ToSet(sending)
      BY <2>1, ToSetTail DEF TypeOK
    <3>2. remote[e] > 0
      BY <2>2, <3>1 DEF SettledBatch
    <3>3. QED
      BY <1>3, <3>2
  <2>3. CASE ~(e = Head(sending) /\ phase = "delete")
    <3>1. file'[e] \in {"json", "inflight", "bad"}
      BY <1>1, <1>4, <2>1, <2>3 DEF Outcome
    <3>2. QED
      BY <3>1 DEF Kept
  <2>4. QED
    BY <2>2, <2>3
<1>9. CASE Restart
  <2>1. file'[e] \in {"json", "inflight", "bad"}
    BY <1>4, <1>9 DEF Restart, Recovered
  <2>2. QED
    BY <2>1 DEF Kept
<1>10. UNCHANGED file \/ Take \/ SettleFile \/ Restart \/ \E t \in Transports : PersistEvent(t)
  BY FileChanges
<1>11. QED
  BY <1>5, <1>6, <1>7, <1>8, <1>9, <1>10

\* The events of a body, and what became of them, when its handler takes a step.
LEMMA SpooledIntake ==
  ASSUME TypeOK, Spooled, spool, spool',
         \A e \in Events : Kept(e) => Kept(e)',
         NEW t \in Transports, NEW v \in Transports,
         PersistEvent(t), NEW e \in request'[v].all
  PROVE  e \in ToSet(request'[v].todo) \/ Kept(e)'
<1>1. request \in [Transports -> [todo : Seq(Events), all : SUBSET Events]]
  BY DEF TypeOK
<1>2. request[t].todo # <<>> /\ request[t].todo \in Seq(Events)
  BY <1>1 DEF PersistEvent
<1>3. PICK f \in Events : f = Head(request[t].todo)
  BY <1>2, ToSetTail
<1>4. \/ UNCHANGED request
      \/ file[f] = "tmp" /\ file' = [file EXCEPT ![f] = "json"] /\ request' = [request EXCEPT ![t].todo = Tail(@)]
      \/ request' = [request EXCEPT ![t] = NoRequest]
  BY <1>3 DEF PersistEvent
<1>5. CASE UNCHANGED request
  BY <1>1, <1>5 DEF Spooled
<1>6. CASE file[f] = "tmp" /\ file' = [file EXCEPT ![f] = "json"] /\ request' = [request EXCEPT ![t].todo = Tail(@)]
  <2>1. request'[v].all = request[v].all /\ e \in Events
    BY <1>1, <1>6
  <2>2. e \in ToSet(request[v].todo) \/ Kept(e)'
    BY <2>1 DEF Spooled
  <2>3. CASE v = t
    <3>1. request'[v].todo = Tail(request[t].todo)
      BY <1>1, <1>6, <2>3
    <3>2. ToSet(request[t].todo) = {f} \cup ToSet(Tail(request[t].todo))
      BY <1>2, <1>3, ToSetTail
    <3>3. file'[f] = "json"
      BY <1>6 DEF TypeOK
    <3>4. QED
      BY <2>2, <2>3, <3>1, <3>2, <3>3 DEF Kept
  <2>4. CASE v # t
    <3>1. request'[v] = request[v]
      BY <1>1, <1>6, <2>4
    <3>2. QED
      BY <2>2, <3>1
  <2>5. QED
    BY <2>3, <2>4
<1>7. CASE request' = [request EXCEPT ![t] = NoRequest]
  <2>1. CASE v = t
    BY <1>1, <1>7, <2>1 DEF NoRequest
  <2>2. CASE v # t
    <3>1. request'[v] = request[v] /\ e \in Events
      BY <1>1, <1>7, <2>2
    <3>2. QED
      BY <3>1 DEF Spooled
  <2>3. QED
    BY <2>1, <2>2
<1>8. QED
  BY <1>4, <1>5, <1>6, <1>7

LEMMA SpooledStep == TypeOK /\ SettledBatch /\ Spooled /\ [Next]_vars => Spooled'
<1> SUFFICES ASSUME TypeOK, SettledBatch, Spooled, [Next]_vars, spool' PROVE Spooled'
  BY DEF Spooled
<1>1. spool
  BY DEF Next, vars, Submit, Intake, QueueDatagramEvent, PersistEvent, AnswerSpooled, Replayer, ListReady, Take,
         TakeFile, Enqueue, Batcher, Receive, PushCarried, Tick, Post, GiveUp, SettleFile, Exit, Restart
<1>2. \A e \in Events : Kept(e) => Kept(e)'
  BY <1>1, KeptStays
<1>3. /\ accepted \subseteq Events /\ request \in [Transports -> [todo : Seq(Events), all : SUBSET Events]]
      /\ \A e \in accepted : Kept(e)
      /\ \A v \in Transports : \A e \in request[v].all : e \in ToSet(request[v].todo) \/ Kept(e)
  BY <1>1 DEF TypeOK, Spooled
<1>4. CASE UNCHANGED <<accepted, request>>
  <2>1. \A e \in accepted' : Kept(e)'
    BY <1>2, <1>3, <1>4
  <2>2. ASSUME NEW v \in Transports, NEW e \in request'[v].all PROVE e \in ToSet(request'[v].todo) \/ Kept(e)'
    BY <1>2, <1>3, <1>4, <2>2
  <2>3. QED
    BY <2>1, <2>2 DEF Spooled
<1>5. ASSUME NEW t \in Transports, NEW n \in 1 .. MaxRequest, Submit(t, n) PROVE Spooled'
  <2>1. /\ request' = [request EXCEPT ![t] = [todo |-> Arriving(n), all |-> ToSet(Arriving(n))]]
        /\ UNCHANGED accepted
    BY <1>1, <1>5 DEF Submit, SubmitToQueue, SubmitStepwise
  <2>2. \A e \in accepted' : Kept(e)'
    BY <1>2, <1>3, <2>1
  <2>3. ASSUME NEW v \in Transports, NEW e \in request'[v].all PROVE e \in ToSet(request'[v].todo) \/ Kept(e)'
    <3>1. CASE v = t
      BY <1>3, <2>1, <2>3, <3>1
    <3>2. CASE v # t
      <4>1. request'[v] = request[v] /\ e \in Events
        BY <1>3, <2>1, <2>3, <3>2
      <4>2. QED
        BY <1>2, <1>3, <2>3, <4>1
    <3>3. QED
      BY <3>1, <3>2
  <2>4. QED
    BY <2>2, <2>3 DEF Spooled
<1>6. ASSUME NEW t \in Transports, PersistEvent(t) PROVE Spooled'
  <2>1. \A e \in accepted' : Kept(e)'
    BY <1>2, <1>3, <1>6 DEF PersistEvent
  <2>2. QED
    BY <1>1, <1>2, <1>6, <2>1, SpooledIntake DEF Spooled
<1>7. ASSUME NEW t \in Transports, AnswerSpooled(t) PROVE Spooled'
  <2>1. /\ request[t].todo = <<>> /\ accepted' = accepted \cup request[t].all
        /\ request' = [request EXCEPT ![t] = NoRequest]
    BY <1>7 DEF AnswerSpooled
  <2>2. ASSUME NEW e \in request[t].all PROVE e \in Events /\ Kept(e)
    BY <1>3, <2>1, <2>2, ToSetEmpty
  <2>3. \A e \in accepted' : Kept(e)'
    BY <1>2, <1>3, <2>1, <2>2
  <2>4. ASSUME NEW v \in Transports, NEW e \in request'[v].all PROVE e \in ToSet(request'[v].todo) \/ Kept(e)'
    <3>1. CASE v = t
      BY <1>3, <2>1, <2>4, <3>1 DEF NoRequest
    <3>2. CASE v # t
      <4>1. request'[v] = request[v] /\ e \in Events
        BY <1>3, <2>1, <2>4, <3>2
      <4>2. QED
        BY <1>2, <1>3, <2>4, <4>1
    <3>3. QED
      BY <3>1, <3>2
  <2>5. QED
    BY <2>3, <2>4 DEF Spooled
<1>8. CASE Exit
  <2>1. UNCHANGED accepted /\ \A v \in Transports : request'[v].all = {}
    BY <1>8 DEF Exit, NoRequest
  <2>2. QED
    BY <1>2, <1>3, <2>1 DEF Spooled
<1>9. CASE Replayer \/ Batcher \/ Tick \/ Restart
  <2>1. UNCHANGED <<accepted, request>>
    BY <1>9 DEF Replayer, ListReady, Take, TakeFile, Enqueue, Batcher, Receive, PushCarried, Tick, Post, GiveUp,
                SettleFile, Restart, intake
  <2>2. QED
    BY <1>4, <2>1
<1>10. CASE UNCHANGED vars
  BY <1>4, <1>10 DEF vars
<1>11. ASSUME QueueDatagramEvent PROVE FALSE
  BY <1>1, <1>11 DEF QueueDatagramEvent
<1>12. QED
  BY <1>5, <1>6, <1>7, <1>8, <1>9, <1>10, <1>11 DEF Next, Intake

-----------------------------------------------------------------------------
(* Without a spool: what is in memory, what was refused, what was received. *)

Waiting == ToSet(request["udp"].todo)

Unspooled ==
  ~spool => /\ held = NoEvent /\ listing = {} /\ request["http"] = NoRequest
            /\ InMemory \cup rejected \cup Waiting \subseteq 1 .. submitted
            /\ \A e \in Events : remote[e] > 0 => e <= submitted
            /\ rejected \cap (InMemory \cup Waiting) = {}
            /\ \A e \in rejected : remote[e] = 0
            /\ \A e \in accepted : remote[e] > 0 \/ e \in InMemory \cup dropped \cup lost

\* Receiving, pushing and flushing lose nothing.
LEMMA MemoryFlushes ==
  ASSUME TypeOK, Receive \/ PushCarried \/ Tick
  PROVE  InMemory' = InMemory
<1>1. /\ queue \in Seq(Events) /\ batch \in Seq(Events) /\ NoEvent \notin Events
      /\ (phase = "idle" => ToSet(sending) = {}) /\ ToSet(<<>>) = {}
  BY ToSetEmpty DEF TypeOK, Events, NoEvent
<1>2. CASE Receive
  <2>1. /\ phase = "idle" /\ carry = NoEvent /\ queue # <<>> /\ queue' = Tail(queue) /\ held' = held
        /\ \/ Overflows(Head(queue)) /\ Flush(batch) /\ carry' = Head(queue)
           \/ ~Overflows(Head(queue)) /\ Push(Head(queue)) /\ UNCHANGED carry
    BY <1>2 DEF Receive, Carry, replay
  <2>2. Head(queue) \in Events /\ ToSet(queue) = {Head(queue)} \cup ToSet(queue')
    BY <1>1, <2>1, ToSetTail
  <2>3. CASE Overflows(Head(queue)) /\ Flush(batch) /\ carry' = Head(queue)
    <3>1. sending' = batch /\ batch' = <<>>
      BY <2>3 DEF Flush
    <3>2. ToSet(sending') = ToSet(batch) /\ ToSet(batch') = {}
      BY <1>1, <3>1
    <3>3. QED
      BY <1>1, <2>1, <2>2, <2>3, <3>2 DEF InMemory
  <2>4. CASE ~Overflows(Head(queue)) /\ Push(Head(queue)) /\ UNCHANGED carry
    <3>1. ToSet(batch') \cup ToSet(sending') = ToSet(batch) \cup {Head(queue)}
      BY <2>1, <2>2, <2>4, PushType
    <3>2. QED
      BY <1>1, <2>1, <2>2, <2>4, <3>1 DEF InMemory
  <2>5. QED
    BY <2>1, <2>3, <2>4
<1>3. CASE PushCarried
  <2>1. /\ phase = "idle" /\ carry # NoEvent /\ Push(carry) /\ carry' = NoEvent /\ queue' = queue /\ held' = held
    BY <1>3 DEF PushCarried, replay
  <2>2. carry \in Events
    BY <2>1 DEF TypeOK
  <2>3. ToSet(batch') \cup ToSet(sending') = ToSet(batch) \cup {carry}
    BY <2>1, <2>2, PushType
  <2>4. ToSet(queue') = ToSet(queue)
    BY <2>1
  <2>5. QED
    BY <1>1, <2>1, <2>2, <2>3, <2>4 DEF InMemory
<1>4. CASE Tick
  <2>1. phase = "idle" /\ sending' = batch /\ batch' = <<>> /\ queue' = queue /\ held' = held /\ carry' = carry
    BY <1>4 DEF Tick, Flush, replay
  <2>2. ToSet(sending') = ToSet(batch) /\ ToSet(batch') = {} /\ ToSet(queue') = ToSet(queue)
    BY <1>1, <2>1
  <2>3. QED
    BY <1>1, <2>1, <2>2 DEF InMemory
<1>5. QED
  BY <1>2, <1>3, <1>4

LEMMA UnspooledIntake ==
  ASSUME TypeOK, Unspooled, ~spool, QueueDatagramEvent
  PROVE  Unspooled'
<1>1. request \in [Transports -> [todo : Seq(Events), all : SUBSET Events]] /\ queue \in Seq(Events)
  BY DEF TypeOK
<1>2. "udp" \in Transports /\ "http" \in Transports
  BY DEF Transports
<1>3. request["udp"].todo # <<>> /\ request["udp"].todo \in Seq(Events)
  BY <1>1, <1>2 DEF QueueDatagramEvent
<1>4. PICK e \in Events : e = Head(request["udp"].todo)
  BY <1>3, ToSetTail
<1>5. /\ UNCHANGED <<spool, submitted, rejected, listing, held, carry, batch, sending, remote, dropped, lost>>
      /\ \/ queue' = Append(queue, e) /\ accepted' = accepted \cup {e}
         \/ UNCHANGED <<queue, accepted>>
      /\ request' = IF Len(request["udp"].todo) = 1 THEN [request EXCEPT !["udp"] = NoRequest]
                    ELSE [request EXCEPT !["udp"].todo = Tail(@)]
  BY <1>4 DEF QueueDatagramEvent, replay, batcher
<1>6. /\ Waiting = {e} \cup ToSet(Tail(request["udp"].todo))
      /\ (Len(request["udp"].todo) = 1 => Tail(request["udp"].todo) = <<>>)
  BY <1>3, <1>4, ToSetTail DEF Waiting
<1>7. request'["http"] = request["http"] /\ Waiting' \subseteq Waiting /\ e \in Waiting
  <2>1. CASE Len(request["udp"].todo) = 1
    <3>1. request'["udp"].todo = <<>> /\ request'["http"] = request["http"]
      BY <1>1, <1>2, <1>5, <2>1 DEF NoRequest
    <3>2. QED
      BY <1>6, <3>1, ToSetEmpty DEF Waiting
  <2>2. CASE Len(request["udp"].todo) # 1
    <3>1. request'["udp"].todo = Tail(request["udp"].todo) /\ request'["http"] = request["http"]
      BY <1>1, <1>2, <1>5, <2>2
    <3>2. QED
      BY <1>6, <3>1 DEF Waiting
  <2>3. QED
    BY <2>1, <2>2
<1>8. CASE queue' = Append(queue, e) /\ accepted' = accepted \cup {e}
  <2>1. ToSet(queue') = ToSet(queue) \cup {e}
    BY <1>1, <1>8, ToSetAppend
  <2>2. InMemory' = InMemory \cup {e}
    BY <1>5, <2>1 DEF InMemory, ToSet
  <2>3. QED
    BY <1>5, <1>7, <1>8, <2>2 DEF Unspooled
<1>9. CASE UNCHANGED <<queue, accepted>>
  <2>1. InMemory' = InMemory
    BY <1>5, <1>9 DEF InMemory, ToSet
  <2>2. QED
    BY <1>5, <1>7, <1>9, <2>1 DEF Unspooled
<1>10. QED
  BY <1>5, <1>8, <1>9

LEMMA UnspooledSubmit ==
  ASSUME TypeOK, Unspooled, ~spool, NEW t \in Transports, NEW n \in 1 .. MaxRequest, Submit(t, n)
  PROVE  Unspooled'
<1> DEFINE new == ToSet(Arriving(n))
<1>1. request \in [Transports -> [todo : Seq(Events), all : SUBSET Events]] /\ queue \in Seq(Events)
      /\ submitted \in 0 .. MaxEvents /\ MaxEvents \in Nat
  BY LimitsAssumption DEF TypeOK
<1>2. "udp" \in Transports /\ "http" \in Transports
  BY DEF Transports
<1>3. /\ submitted + n <= MaxEvents /\ submitted' = submitted + n
      /\ UNCHANGED <<spool, listing, held, carry, batch, sending, remote, dropped, lost>>
      /\ (t = "http" /\ SubmitToQueue(n)) \/ SubmitStepwise(t, n)
  BY DEF Submit, replay, batcher
<1>4. /\ Arriving(n) \in Seq(Events) /\ new \subseteq Events
      /\ \A e \in new : e > submitted /\ e <= submitted + n
  BY <1>1, <1>3, ArrivingEvents
<1> HIDE DEF new
<1>5. /\ new \subseteq 1 .. submitted' /\ 1 .. submitted \subseteq 1 .. submitted' /\ new \cap (1 .. submitted) = {}
      /\ \A e \in Events : e <= submitted => e <= submitted'
  BY <1>1, <1>3, <1>4 DEF Events
<1>6. \A e \in new : remote[e] = 0
  <2>1. SUFFICES ASSUME NEW e \in new PROVE remote[e] = 0
    OBVIOUS
  <2>2. e \in Events /\ ~(e <= submitted) /\ remote[e] \in Nat
    <3>1. e \in Events /\ e > submitted
      BY <1>4
    <3>2. e \in Nat /\ submitted \in Nat
      BY <1>1, <3>1 DEF Events
    <3>3. remote[e] \in Nat
      BY <3>1 DEF TypeOK
    <3>4. QED
      BY <3>1, <3>2, <3>3
  <2>3. ~(remote[e] > 0)
    BY <2>2 DEF Unspooled
  <2>4. QED
    BY <2>2, <2>3
<1>7. CASE t = "http" /\ SubmitToQueue(n)
  <2>1. request' = request /\ Waiting' = Waiting
    BY <1>7 DEF SubmitToQueue, Waiting
  <2>2. \/ queue' = queue \o Arriving(n) /\ accepted' = accepted \cup new /\ UNCHANGED rejected
        \/ rejected' = rejected \cup new /\ UNCHANGED <<queue, accepted>>
    BY <1>7 DEF SubmitToQueue, new
  <2>3. CASE queue' = queue \o Arriving(n) /\ accepted' = accepted \cup new /\ UNCHANGED rejected
    <3>1. ToSet(queue') = ToSet(queue) \cup new
      BY <1>1, <1>4, <2>3, ToSetConcat DEF new
    <3>2. InMemory' = InMemory \cup new
      BY <1>3, <3>1 DEF InMemory, ToSet
    <3>3. /\ InMemory' \cup rejected' \cup Waiting' \subseteq 1 .. submitted'
          /\ rejected' \cap (InMemory' \cup Waiting') = {}
      BY <1>5, <2>1, <2>3, <3>2 DEF Unspooled
    <3>4. \A e \in accepted' : remote'[e] > 0 \/ e \in InMemory' \cup dropped' \cup lost'
      BY <1>3, <2>3, <3>2 DEF Unspooled
    <3>5. QED
      BY <1>3, <1>5, <2>1, <2>3, <3>3, <3>4 DEF Unspooled
  <2>4. CASE rejected' = rejected \cup new /\ UNCHANGED <<queue, accepted>>
    <3>1. InMemory' = InMemory
      BY <1>3, <2>4 DEF InMemory, ToSet
    <3>2. /\ InMemory' \cup rejected' \cup Waiting' \subseteq 1 .. submitted'
          /\ rejected' \cap (InMemory' \cup Waiting') = {}
      BY <1>5, <2>1, <2>4, <3>1 DEF Unspooled
    <3>3. \A e \in rejected' : remote'[e] = 0
      BY <1>3, <1>6, <2>4 DEF Unspooled
    <3>4. QED
      BY <1>3, <1>5, <2>1, <2>4, <3>1, <3>2, <3>3 DEF Unspooled
  <2>5. QED
    BY <2>2, <2>3, <2>4
<1>8. CASE SubmitStepwise(t, n)
  <2>1. /\ t = "udp" /\ request' = [request EXCEPT ![t] = [todo |-> Arriving(n), all |-> new]]
        /\ UNCHANGED <<queue, accepted, rejected>>
    BY <1>8 DEF SubmitStepwise, new
  <2>2. request'["http"] = request["http"] /\ request'["udp"].todo = Arriving(n)
    BY <1>1, <1>2, <2>1
  <2>3. InMemory' = InMemory /\ Waiting' = new
    BY <1>3, <2>1, <2>2 DEF InMemory, ToSet, Waiting, new
  <2>4. /\ InMemory' \cup rejected' \cup Waiting' \subseteq 1 .. submitted'
        /\ rejected' \cap (InMemory' \cup Waiting') = {}
    BY <1>5, <2>1, <2>3 DEF Unspooled
  <2>5. QED
    BY <1>3, <1>5, <2>1, <2>2, <2>3, <2>4 DEF Unspooled
<1>9. QED
  BY <1>3, <1>7, <1>8

\* What is posted is in memory, and what is settled was received or given up.
LEMMA UnspooledBatch ==
  ASSUME TypeOK, SettledBatch, Unspooled, ~spool, Batcher \/ Tick
  PROVE  Unspooled'
<1>1. UNCHANGED <<spool, submitted, request, accepted, rejected, listing, held, lost>> /\ Waiting' = Waiting
  BY DEF Batcher, Receive, PushCarried, Tick, Post, GiveUp, SettleFile, intake, replay, Waiting
<1>2. /\ remote \in [Events -> Nat] /\ sending \in Seq(Events) /\ InMemory \subseteq Events
      /\ accepted \subseteq Events /\ rejected \subseteq Events /\ submitted \in Nat
  BY MemoryType DEF TypeOK
<1>3. CASE Receive \/ PushCarried \/ Tick
  <2>1. InMemory' = InMemory /\ UNCHANGED <<remote, dropped>>
    BY <1>3, MemoryFlushes, BatchFlushes
  <2>2. QED
    BY <1>1, <2>1 DEF Unspooled
<1>4. CASE Post
  <2>1. UNCHANGED <<queue, batch, sending, held, carry, dropped>> /\ (Received \/ UNCHANGED remote)
    BY <1>4 DEF Post, replay
  <2>2. InMemory' = InMemory
    BY <2>1 DEF InMemory, ToSet
  <2>3. ASSUME NEW e \in Events
        PROVE  /\ remote'[e] \in Nat /\ (remote[e] > 0 => remote'[e] > 0)
               /\ remote'[e] = remote[e] \/ e \in InMemory
    <3>1. CASE UNCHANGED remote
      BY <1>2, <3>1
    <3>2. CASE Received
      <4>1. remote'[e] = remote[e] + (IF e \in ToSet(sending) THEN 1 ELSE 0)
        BY <3>2 DEF Received
      <4>2. CASE e \in ToSet(sending)
        BY <1>2, <4>1, <4>2 DEF InMemory
      <4>3. CASE e \notin ToSet(sending)
        BY <1>2, <4>1, <4>3
      <4>4. QED
        BY <4>2, <4>3
    <3>3. QED
      BY <2>1, <3>1, <3>2
  <2>4. \A e \in Events : remote'[e] > 0 => e <= submitted'
    <3>1. SUFFICES ASSUME NEW e \in Events, remote'[e] > 0 PROVE e <= submitted
      BY <1>1
    <3>2. CASE e \in InMemory
      BY <1>2, <3>2 DEF Unspooled
    <3>3. CASE remote'[e] = remote[e]
      BY <3>1, <3>3 DEF Unspooled
    <3>4. QED
      BY <2>3, <3>2, <3>3
  <2>5. \A e \in rejected' : remote'[e] = 0
    <3>1. SUFFICES ASSUME NEW e \in rejected PROVE remote'[e] = 0
      BY <1>1
    <3>2. e \in Events /\ e \notin InMemory /\ remote[e] = 0
      BY <1>2 DEF Unspooled
    <3>3. QED
      BY <2>3, <3>2
  <2>6. \A e \in accepted' : remote'[e] > 0 \/ e \in InMemory' \cup dropped' \cup lost'
    BY <1>1, <1>2, <2>1, <2>2, <2>3 DEF Unspooled
  <2>7. QED
    BY <1>1, <2>2, <2>4, <2>5, <2>6 DEF Unspooled
<1>5. CASE GiveUp
  <2>1. UNCHANGED <<queue, batch, sending, held, carry, remote>> /\ dropped \subseteq dropped'
    BY <1>5 DEF GiveUp, replay
  <2>2. InMemory' = InMemory
    BY <2>1 DEF InMemory, ToSet
  <2>3. QED
    BY <1>1, <2>1, <2>2 DEF Unspooled
<1>6. CASE SettleFile
  <2>1. /\ phase \in {"delete", "restore"} /\ sending' = Tail(sending)
        /\ UNCHANGED <<queue, batch, held, carry, remote, dropped>>
    BY <1>6 DEF SettleFile, replay
  <2>2. ToSet(sending) = {Head(sending)} \cup ToSet(sending')
    BY <2>1, ToSetTail DEF TypeOK
  <2>3. ToSet(queue') = ToSet(queue) /\ ToSet(batch') = ToSet(batch)
    BY <2>1
  <2>4. InMemory' \subseteq InMemory /\ InMemory \subseteq InMemory' \cup {Head(sending)}
    BY <2>1, <2>2, <2>3 DEF InMemory
  <2>5. remote[Head(sending)] > 0 \/ Head(sending) \in dropped
    BY <2>1, <2>2 DEF SettledBatch
  <2>6. \A e \in accepted' : remote'[e] > 0 \/ e \in InMemory' \cup dropped' \cup lost'
    BY <1>1, <2>1, <2>4, <2>5 DEF Unspooled
  <2>7. QED
    BY <1>1, <2>1, <2>4, <2>6 DEF Unspooled
<1>7. QED
  BY <1>3, <1>4, <1>5, <1>6 DEF Batcher

LEMMA UnspooledStep == TypeOK /\ SettledBatch /\ Unspooled /\ [Next]_vars => Unspooled'
<1> SUFFICES ASSUME TypeOK, SettledBatch, Unspooled, [Next]_vars, ~spool' PROVE Unspooled'
  BY DEF Unspooled
<1>1. ~spool
  BY DEF Next, vars, Submit, Intake, QueueDatagramEvent, PersistEvent, AnswerSpooled, Replayer, ListReady, Take,
         TakeFile, Enqueue, Batcher, Receive, PushCarried, Tick, Post, GiveUp, SettleFile, Exit, Restart
<1>2. CASE UNCHANGED vars
  BY <1>2 DEF vars, Unspooled, InMemory, Waiting, ToSet
<1>3. CASE Restart
  BY <1>3 DEF Restart, intake, replay, batcher, Unspooled, InMemory, Waiting, ToSet
<1>4. CASE Exit
  <2>1. /\ request' = [t \in Transports |-> NoRequest] /\ queue' = <<>> /\ listing' = {} /\ held' = NoEvent
        /\ carry' = NoEvent /\ batch' = <<>> /\ sending' = <<>> /\ lost' = lost \cup InMemory
        /\ UNCHANGED <<spool, submitted, remote, accepted, rejected, dropped>>
    BY <1>1, <1>4 DEF Exit
  <2>2. InMemory' = {}
    BY <2>1, ToSetEmpty DEF InMemory
  <2>3. request'["http"] = NoRequest /\ Waiting' = {}
    BY <2>1, ToSetEmpty DEF Waiting, Transports, NoRequest
  <2>4. QED
    BY <1>1, <2>1, <2>2, <2>3 DEF Unspooled
<1>5. CASE Replayer
  BY <1>1, <1>5 DEF Replayer, ListReady, Take, Enqueue, Unspooled
<1>6. ASSUME NEW t \in Transports, Intake(t) PROVE Unspooled'
  BY <1>1, <1>6, UnspooledIntake DEF Intake, PersistEvent, AnswerSpooled
<1>7. QED
  BY <1>1, <1>2, <1>3, <1>4, <1>5, <1>6, UnspooledSubmit, UnspooledBatch DEF Next

-----------------------------------------------------------------------------
(* The answers of the sidecar. *)

IInv == TypeOK /\ SettledBatch /\ Spooled /\ Unspooled

LEMMA InitIInv == Init => IInv
<1> SUFFICES ASSUME Init PROVE IInv
  OBVIOUS
<1>1. TypeOK
  BY InitType
<1>2. SettledBatch
  BY DEF Init, SettledBatch
<1>3. Spooled
  BY DEF Init, Spooled, NoRequest
<1>4. InMemory = {} /\ Waiting = {} /\ request["http"] = NoRequest
  BY ToSetEmpty DEF Init, InMemory, Waiting, NoRequest, Transports
<1>5. Unspooled
  BY <1>4 DEF Init, Unspooled
<1>6. QED
  BY <1>1, <1>2, <1>3, <1>5 DEF IInv

LEMMA IInvStep == IInv /\ [Next]_vars => IInv'
BY TypeStep, SettledBatchStep, SpooledStep, UnspooledStep DEF IInv

LEMMA IInvAnswers == IInv => AnswersAreTrue
<1> SUFFICES ASSUME IInv PROVE AnswersAreTrue
  OBVIOUS
<1>1. CASE spool
  BY <1>1 DEF IInv, Spooled, Kept, AnswersAreTrue, NoAcceptedEventVanishes, RejectedIsNotForwarded
<1>2. CASE ~spool
  BY <1>2 DEF IInv, Unspooled, AnswersAreTrue, NoAcceptedEventVanishes, RejectedIsNotForwarded
<1>3. QED
  BY <1>1, <1>2 DEF IInv, TypeOK

\* An event the sidecar accepted was received, or is on disk, or in memory, or its loss
\* was counted or came with the exit; and no event of a body it refused was forwarded
\* (accept_events, take_spooled_event, flush_batch and recover_spool_dir).
THEOREM AnswersStayTrue == Spec => []AnswersAreTrue
<1>1. Spec => []IInv
  BY InitIInv, IInvStep, PTL DEF Spec
<1>2. QED
  BY <1>1, IInvAnswers, PTL

-----------------------------------------------------------------------------
(* No event twice in a sequence. *)

LEMMA InjectiveEmpty == IsInjective(<<>>)
BY DEF IsInjective

LEMMA InjectiveAppend ==
  ASSUME NEW S, NEW s \in Seq(S), NEW e \in S, IsInjective(s), e \notin ToSet(s)
  PROVE  IsInjective(Append(s, e))
<1>1. /\ Len(s) \in Nat /\ DOMAIN Append(s, e) = 1 .. Len(s) + 1 /\ DOMAIN s = 1 .. Len(s)
      /\ \A i \in 1 .. Len(s) : Append(s, e)[i] = s[i]
      /\ Append(s, e)[Len(s) + 1] = e
  OBVIOUS
<1>2. \A i \in 1 .. Len(s) : s[i] # e
  BY <1>1 DEF ToSet
<1>3. ASSUME NEW i \in 1 .. Len(s) + 1, NEW j \in 1 .. Len(s) + 1, Append(s, e)[i] = Append(s, e)[j] PROVE i = j
  <2>1. i \in 1 .. Len(s) \/ i = Len(s) + 1
    BY <1>1
  <2>2. j \in 1 .. Len(s) \/ j = Len(s) + 1
    BY <1>1
  <2>3. CASE i \in 1 .. Len(s) /\ j \in 1 .. Len(s)
    BY <1>1, <1>3, <2>3 DEF IsInjective
  <2>4. QED
    BY <1>1, <1>2, <1>3, <2>1, <2>2, <2>3
<1>4. QED
  BY <1>1, <1>3 DEF IsInjective

LEMMA InjectiveTail ==
  ASSUME NEW S, NEW s \in Seq(S), s # <<>>, IsInjective(s)
  PROVE  IsInjective(Tail(s)) /\ Head(s) \notin ToSet(Tail(s))
<1>1. /\ Head(s) = s[1] /\ Len(s) \in Nat /\ Len(s) >= 1
      /\ DOMAIN s = 1 .. Len(s) /\ DOMAIN Tail(s) = 1 .. Len(s) - 1
      /\ \A i \in 1 .. Len(s) - 1 : Tail(s)[i] = s[i + 1]
  OBVIOUS
<1>2. ASSUME NEW i \in 1 .. Len(s) - 1 PROVE i + 1 \in DOMAIN s /\ i + 1 # 1 /\ Tail(s)[i] = s[i + 1]
  BY <1>1
<1>3. ASSUME NEW i \in 1 .. Len(s) - 1, NEW j \in 1 .. Len(s) - 1, Tail(s)[i] = Tail(s)[j] PROVE i = j
  <2>1. i + 1 = j + 1
    BY <1>2, <1>3 DEF IsInjective
  <2>2. QED
    BY <2>1
<1>4. IsInjective(Tail(s))
  BY <1>1, <1>3 DEF IsInjective
<1>5. ASSUME NEW i \in 1 .. Len(s) - 1 PROVE Tail(s)[i] # Head(s)
  <2>1. 1 \in DOMAIN s
    BY <1>1
  <2>2. QED
    BY <1>1, <1>2, <2>1 DEF IsInjective
<1>6. QED
  BY <1>1, <1>4, <1>5 DEF ToSet

LEMMA InjectiveConcat ==
  ASSUME NEW S, NEW s \in Seq(S), NEW u \in Seq(S), IsInjective(s), IsInjective(u), ToSet(s) \cap ToSet(u) = {}
  PROVE  IsInjective(s \o u)
<1>1. /\ Len(s) \in Nat /\ Len(u) \in Nat /\ DOMAIN (s \o u) = 1 .. Len(s) + Len(u)
      /\ DOMAIN s = 1 .. Len(s) /\ DOMAIN u = 1 .. Len(u)
      /\ \A i \in 1 .. Len(s) : (s \o u)[i] = s[i]
      /\ \A i \in 1 .. Len(u) : (s \o u)[Len(s) + i] = u[i]
  OBVIOUS
<1>2. ASSUME NEW i \in 1 .. Len(s) + Len(u), i \notin 1 .. Len(s)
      PROVE  i - Len(s) \in 1 .. Len(u) /\ (s \o u)[i] = u[i - Len(s)]
  <2>1. i - Len(s) \in 1 .. Len(u) /\ i = Len(s) + (i - Len(s))
    BY <1>1, <1>2
  <2>2. QED
    BY <1>1, <2>1
<1>3. \A i \in 1 .. Len(s), j \in 1 .. Len(u) : s[i] # u[j]
  BY <1>1 DEF ToSet
<1>4. ASSUME NEW i \in 1 .. Len(s) + Len(u), NEW j \in 1 .. Len(s) + Len(u), (s \o u)[i] = (s \o u)[j] PROVE i = j
  <2>1. CASE i \in 1 .. Len(s) /\ j \in 1 .. Len(s)
    BY <1>1, <1>4, <2>1 DEF IsInjective
  <2>2. CASE i \notin 1 .. Len(s) /\ j \notin 1 .. Len(s)
    <3>1. /\ i - Len(s) \in DOMAIN u /\ (s \o u)[i] = u[i - Len(s)]
          /\ j - Len(s) \in DOMAIN u /\ (s \o u)[j] = u[j - Len(s)]
      BY <1>1, <1>2, <2>2
    <3>2. i - Len(s) = j - Len(s)
      BY <1>4, <3>1 DEF IsInjective
    <3>3. QED
      BY <1>1, <3>2
  <2>3. QED
    BY <1>1, <1>2, <1>3, <1>4, <2>1, <2>2
<1>5. QED
  BY <1>1, <1>4 DEF IsInjective

LEMMA ArrivingInjective ==
  ASSUME submitted \in Nat, NEW n \in Nat
  PROVE  IsInjective(Arriving(n))
<1>1. DOMAIN Arriving(n) = 1 .. n /\ \A i \in 1 .. n : Arriving(n)[i] = submitted + i
  BY DEF Arriving
<1>2. \A i, j \in 1 .. n : submitted + i = submitted + j => i = j
  OBVIOUS
<1>3. QED
  BY <1>1, <1>2 DEF IsInjective

-----------------------------------------------------------------------------
(* Who owns an event: the requests, the replayer, the channel, the batcher. *)

Coming == ToSet(request["http"].todo)

ReplayerHolds == {held} \ {NoEvent}
BatcherHolds == {carry} \ {NoEvent}

\* The places in memory have no event in common, and none holds an event twice.
Separate ==
  /\ IsInjective(queue) /\ IsInjective(batch) /\ IsInjective(sending)
  /\ ToSet(queue) \cap ToSet(batch) = {} /\ ToSet(queue) \cap ToSet(sending) = {}
  /\ ToSet(queue) \cap ReplayerHolds = {} /\ ToSet(queue) \cap BatcherHolds = {}
  /\ ToSet(batch) \cap ToSet(sending) = {} /\ ToSet(batch) \cap ReplayerHolds = {}
  /\ ToSet(batch) \cap BatcherHolds = {} /\ ToSet(sending) \cap ReplayerHolds = {}
  /\ ToSet(sending) \cap BatcherHolds = {} /\ ReplayerHolds \cap BatcherHolds = {}

Claims ==
  /\ spool => \A e \in InMemory : file[e] = "inflight"
  /\ \A e \in listing : file[e] = "json"

\* What a handler has still to accept is nowhere else.
Requests ==
  /\ IsInjective(request["http"].todo) /\ IsInjective(request["udp"].todo)
  /\ Coming \cap Waiting = {} /\ InMemory \cap (Coming \cup Waiting) = {}
  /\ spool => \A e \in Coming \cup Waiting : file[e] \in {"none", "tmp"}

\* Nothing of what was not submitted yet exists.
Numbered ==
  /\ \A e \in InMemory \cup Coming \cup Waiting : e <= submitted
  /\ \A e \in Events : e > submitted => file[e] = "none" /\ remote[e] = 0

Alone ==
  /\ ~spool => held = NoEvent /\ listing = {} /\ Coming = {}
  /\ ~up => InMemory = {} /\ listing = {} /\ Coming = {} /\ Waiting = {}

Ownership == Separate /\ Claims /\ Requests /\ Numbered /\ Alone

LEMMA SeparatePlaces == Separate /\ Claims => ClaimsAreExclusive
<1> SUFFICES ASSUME Separate, Claims PROVE ClaimsAreExclusive
  OBVIOUS
<1>1. SUFFICES ASSUME NEW p \in DOMAIN Places, NEW q \in DOMAIN Places, p # q PROVE Places[p] \cap Places[q] = {}
  BY DEF Separate, Claims, ClaimsAreExclusive
<1>2. /\ DOMAIN Places = {"queue", "batch", "sending", "replayer", "batcher"}
      /\ Places.queue = ToSet(queue) /\ Places.batch = ToSet(batch) /\ Places.sending = ToSet(sending)
      /\ Places.replayer = ReplayerHolds /\ Places.batcher = BatcherHolds
  BY DEF Places, ReplayerHolds, BatcherHolds
<1>3. QED
  BY <1>1, <1>2 DEF Separate

LEMMA InMemoryParts ==
  InMemory = ToSet(queue) \cup ToSet(batch) \cup ToSet(sending) \cup ReplayerHolds \cup BatcherHolds
BY DEF InMemory, ReplayerHolds, BatcherHolds

\* Receiving, pushing and flushing move events from one place to another.
LEMMA PushSeparate ==
  ASSUME TypeOK, Separate, phase = "idle", NEW e \in Events, Push(e), e \notin ToSet(batch)
  PROVE  /\ IsInjective(batch') /\ IsInjective(sending') /\ ToSet(batch') \cap ToSet(sending') = {}
         /\ ToSet(batch') \cup ToSet(sending') = ToSet(batch) \cup {e}
<1> DEFINE filled == Append(batch, e)
<1>1. batch \in Seq(Events) /\ sending = <<>> /\ ToSet(<<>>) = {}
  BY ToSetEmpty DEF TypeOK
<1>2. IsInjective(filled)
  BY <1>1, InjectiveAppend DEF Separate
<1>3. Flush(filled) \/ (batch' = filled /\ UNCHANGED <<sending, phase, attempt>>)
  BY DEF Push
<1>4. ToSet(batch') \cup ToSet(sending') = ToSet(batch) \cup {e}
  BY PushType
<1>5. (batch' = <<>> /\ sending' = filled) \/ (batch' = filled /\ sending' = <<>>)
  BY <1>1, <1>3 DEF Flush
<1>6. QED
  BY <1>1, <1>2, <1>4, <1>5, InjectiveEmpty

LEMMA FlushesSeparate ==
  ASSUME TypeOK, Separate, Receive \/ PushCarried \/ Tick
  PROVE  Separate'
<1>1. /\ queue \in Seq(Events) /\ batch \in Seq(Events) /\ NoEvent \notin Events
      /\ (phase = "idle" => sending = <<>>) /\ ToSet(<<>>) = {}
  BY ToSetEmpty DEF TypeOK, Events, NoEvent
<1>2. CASE Receive
  <2>1. /\ phase = "idle" /\ carry = NoEvent /\ queue # <<>> /\ queue' = Tail(queue) /\ held' = held
        /\ \/ Overflows(Head(queue)) /\ Flush(batch) /\ carry' = Head(queue)
           \/ ~Overflows(Head(queue)) /\ Push(Head(queue)) /\ UNCHANGED carry
    BY <1>2 DEF Receive, Carry, replay
  <2>2. /\ Head(queue) \in Events /\ ToSet(queue) = {Head(queue)} \cup ToSet(queue')
        /\ IsInjective(queue') /\ Head(queue) \notin ToSet(queue')
    BY <1>1, <2>1, ToSetTail, InjectiveTail DEF Separate
  <2>3. ReplayerHolds' = ReplayerHolds
    BY <2>1 DEF ReplayerHolds
  <2>4. CASE Overflows(Head(queue)) /\ Flush(batch) /\ carry' = Head(queue)
    <3>1. sending' = batch /\ batch' = <<>> /\ BatcherHolds' = {Head(queue)}
      BY <1>1, <2>2, <2>4 DEF Flush, BatcherHolds
    <3>2. ToSet(sending') = ToSet(batch) /\ ToSet(batch') = {} /\ IsInjective(batch') /\ IsInjective(sending')
      BY <1>1, <3>1, InjectiveEmpty DEF Separate
    <3>3. QED
      BY <2>2, <2>3, <3>1, <3>2 DEF Separate
  <2>5. CASE ~Overflows(Head(queue)) /\ Push(Head(queue)) /\ UNCHANGED carry
    <3>1. Head(queue) \notin ToSet(batch) /\ ToSet(sending) = {}
      BY <1>1, <2>1, <2>2 DEF Separate
    <3>2. /\ IsInjective(batch') /\ IsInjective(sending') /\ ToSet(batch') \cap ToSet(sending') = {}
          /\ ToSet(batch') \cup ToSet(sending') = ToSet(batch) \cup {Head(queue)}
      BY <2>1, <2>2, <2>5, <3>1, PushSeparate
    <3>3. BatcherHolds' = {}
      BY <2>1, <2>5 DEF BatcherHolds
    <3>4. QED
      BY <2>2, <2>3, <3>2, <3>3 DEF Separate
  <2>6. QED
    BY <2>1, <2>4, <2>5
<1>3. CASE PushCarried
  <2>1. /\ phase = "idle" /\ carry # NoEvent /\ Push(carry) /\ carry' = NoEvent /\ queue' = queue /\ held' = held
    BY <1>3 DEF PushCarried, replay
  <2>2. carry \in Events /\ BatcherHolds = {carry} /\ BatcherHolds' = {} /\ ReplayerHolds' = ReplayerHolds
    BY <2>1 DEF TypeOK, BatcherHolds, ReplayerHolds
  <2>3. carry \notin ToSet(batch)
    BY <2>2 DEF Separate
  <2>4. /\ IsInjective(batch') /\ IsInjective(sending') /\ ToSet(batch') \cap ToSet(sending') = {}
        /\ ToSet(batch') \cup ToSet(sending') = ToSet(batch) \cup {carry}
    BY <2>1, <2>2, <2>3, PushSeparate
  <2>5. ToSet(queue') = ToSet(queue) /\ IsInjective(queue')
    BY <2>1 DEF Separate
  <2>6. QED
    BY <2>2, <2>4, <2>5 DEF Separate
<1>4. CASE Tick
  <2>1. phase = "idle" /\ sending' = batch /\ batch' = <<>> /\ queue' = queue /\ held' = held /\ carry' = carry
    BY <1>4 DEF Tick, Flush, replay
  <2>2. /\ ToSet(sending') = ToSet(batch) /\ ToSet(batch') = {} /\ ToSet(queue') = ToSet(queue)
        /\ ReplayerHolds' = ReplayerHolds /\ BatcherHolds' = BatcherHolds
        /\ IsInjective(queue') /\ IsInjective(batch') /\ IsInjective(sending')
    BY <1>1, <2>1, InjectiveEmpty DEF ReplayerHolds, BatcherHolds, Separate
  <2>3. QED
    BY <2>2 DEF Separate
<1>5. QED
  BY <1>2, <1>3, <1>4

\* The steps that leave every place as it is.
LEMMA MemoryFrame ==
  ASSUME UNCHANGED <<queue, batch, sending, held, carry>>
  PROVE  InMemory' = InMemory /\ (Separate => Separate')
BY DEF InMemory, Separate, ReplayerHolds, BatcherHolds, ToSet, IsInjective

LEMMA FlushesOwnership ==
  ASSUME TypeOK, Ownership, Receive \/ PushCarried \/ Tick
  PROVE  Ownership'
<1>1. /\ InMemory' = InMemory /\ Separate'
      /\ UNCHANGED <<spool, remote, submitted, request, held, file>>
  BY MemoryFlushes, BatchFlushes, FlushesSeparate DEF Ownership
<1>2. UNCHANGED <<listing, up>>
  BY DEF Receive, PushCarried, Tick, replay
<1>3. Coming' = Coming /\ Waiting' = Waiting
  BY <1>1 DEF Coming, Waiting
<1>4. QED
  BY <1>1, <1>2, <1>3 DEF Ownership, Claims, Requests, Numbered, Alone

\* Posting and giving up leave the memory as it is.
LEMMA PostOwnership ==
  ASSUME TypeOK, Ownership, Post \/ GiveUp
  PROVE  Ownership'
<1>1. /\ UNCHANGED <<spool, up, submitted, request, file, queue, listing, held, carry, batch, sending>>
      /\ Received \/ UNCHANGED remote
  BY DEF Post, GiveUp, intake, replay
<1>2. InMemory' = InMemory /\ Separate' /\ Coming' = Coming /\ Waiting' = Waiting
  BY <1>1, MemoryFrame DEF Ownership, Coming, Waiting
<1>3. ASSUME NEW e \in Events, e > submitted PROVE remote'[e] = 0
  <2>1. remote[e] = 0 /\ e \notin InMemory
    <3>1. e \in Nat /\ submitted \in Nat
      BY LimitsAssumption DEF Events, TypeOK
    <3>2. QED
      BY <1>3, <3>1 DEF Ownership, Numbered
  <2>2. e \notin ToSet(sending)
    BY <2>1, InMemoryParts
  <2>3. CASE Received
    BY <2>1, <2>2, <2>3 DEF Received
  <2>4. QED
    BY <1>1, <2>1, <2>3
<1>4. Numbered'
  BY <1>1, <1>2, <1>3 DEF Ownership, Numbered
<1>5. QED
  BY <1>1, <1>2, <1>4 DEF Ownership, Claims, Requests, Alone

\* A file that is settled leaves the memory.
LEMMA SettleOwnership ==
  ASSUME TypeOK, Ownership, SettleFile
  PROVE  Ownership'
<1>1. /\ phase \in {"delete", "restore"} /\ sending' = Tail(sending)
      /\ UNCHANGED <<spool, up, submitted, request, queue, listing, held, carry, batch, remote>>
      /\ \/ UNCHANGED file
         \/ spool /\ file' = [file EXCEPT ![Head(sending)] = Outcome]
  BY DEF SettleFile, intake, replay
<1>2. sending # <<>> /\ sending \in Seq(Events) /\ file \in [Events -> {"none", "tmp", "json", "inflight", "bad"}]
  BY <1>1 DEF TypeOK
<1>3. PICK e \in Events : e = Head(sending)
  BY <1>2, ToSetTail
<1>4. /\ ToSet(sending) = {e} \cup ToSet(sending') /\ e \notin ToSet(sending') /\ IsInjective(sending')
  BY <1>1, <1>2, <1>3, ToSetTail, InjectiveTail DEF Ownership, Separate
<1>5. /\ ToSet(queue') = ToSet(queue) /\ ToSet(batch') = ToSet(batch) /\ ReplayerHolds' = ReplayerHolds
      /\ BatcherHolds' = BatcherHolds /\ Coming' = Coming /\ Waiting' = Waiting
      /\ IsInjective(queue') /\ IsInjective(batch')
  BY <1>1 DEF ReplayerHolds, BatcherHolds, Coming, Waiting, Ownership, Separate
<1>6. Separate'
  BY <1>4, <1>5 DEF Ownership, Separate
<1>7. InMemory' \subseteq InMemory /\ e \in InMemory /\ e \notin InMemory'
  <2>1. (InMemory = ToSet(queue) \cup ToSet(batch) \cup ToSet(sending) \cup ReplayerHolds \cup BatcherHolds)'
    BY InMemoryParts, PTL
  <2>2. QED
    BY <1>4, <1>5, <2>1, InMemoryParts DEF Ownership, Separate
<1>8. \A f \in Events : f # e => file'[f] = file[f]
  BY <1>1, <1>2, <1>3
<1>9. e <= submitted /\ e \notin Coming \cup Waiting /\ (spool => e \notin listing)
  BY <1>7 DEF Ownership, Numbered, Requests, Claims
<1>10. InMemory \subseteq Events /\ listing \subseteq Events /\ Coming \cup Waiting \subseteq Events
  BY MemoryType, ToSetType DEF TypeOK, Coming, Waiting, Transports
<1>11. Claims'
  <2>1. ASSUME spool PROVE \A f \in InMemory' : file'[f] = "inflight"
    BY <1>7, <1>8, <1>10, <2>1 DEF Ownership, Claims
  <2>2. ASSUME NEW f \in listing PROVE file'[f] = "json"
    <3>1. CASE spool
      BY <1>8, <1>9, <1>10, <3>1 DEF Ownership, Claims
    <3>2. CASE ~spool
      BY <1>1, <3>2 DEF Ownership, Claims
    <3>3. QED
      BY <3>1, <3>2
  <2>3. QED
    BY <1>1, <2>1, <2>2 DEF Claims
<1>12. Requests'
  <2>1. IsInjective(request'["http"].todo) /\ IsInjective(request'["udp"].todo)
    BY <1>1 DEF Ownership, Requests
  <2>2. ASSUME spool PROVE \A f \in Coming' \cup Waiting' : file'[f] \in {"none", "tmp"}
    BY <1>5, <1>8, <1>9, <1>10, <2>2 DEF Ownership, Requests
  <2>3. QED
    BY <1>1, <1>5, <1>7, <2>1, <2>2 DEF Ownership, Requests
<1>13. Numbered'
  <2>1. ASSUME NEW f \in Events, f > submitted PROVE file'[f] = "none" /\ remote'[f] = 0
    <3>1. f # e
      BY <1>9, <2>1, LimitsAssumption DEF Events, TypeOK
    <3>2. QED
      BY <1>1, <1>8, <2>1, <3>1 DEF Ownership, Numbered
  <2>2. QED
    BY <1>1, <1>5, <1>7, <2>1 DEF Ownership, Numbered
<1>14. Alone'
  BY <1>1, <1>5, <1>7 DEF Ownership, Alone
<1>15. QED
  BY <1>6, <1>11, <1>12, <1>13, <1>14 DEF Ownership

LEMMA ReplayerOwnership ==
  ASSUME TypeOK, Ownership, Replayer
  PROVE  Ownership'
<1>1. /\ UNCHANGED <<spool, up, submitted, request, carry, batch, sending, remote>>
      /\ Coming' = Coming /\ Waiting' = Waiting
  BY DEF Replayer, ListReady, Take, TakeFile, Enqueue, intake, batcher, Coming, Waiting
<1>2. /\ queue \in Seq(Events) /\ NoEvent \notin Events /\ listing \subseteq Events
      /\ file \in [Events -> {"none", "tmp", "json", "inflight", "bad"}] /\ InMemory \subseteq Events
      /\ Coming \cup Waiting \subseteq Events
  <2>1. request["http"].todo \in Seq(Events) /\ request["udp"].todo \in Seq(Events)
    BY DEF TypeOK, Transports
  <2>2. Coming \cup Waiting \subseteq Events
    BY <2>1, ToSetType DEF Coming, Waiting
  <2>3. NoEvent \notin Events
    BY DEF Events, NoEvent
  <2>4. QED
    BY <2>2, <2>3, MemoryType DEF TypeOK
<1>3. /\ ToSet(batch') = ToSet(batch) /\ ToSet(sending') = ToSet(sending) /\ BatcherHolds' = BatcherHolds
      /\ IsInjective(batch') /\ IsInjective(sending')
  BY <1>1 DEF BatcherHolds, Ownership, Separate
<1>4. (InMemory = ToSet(queue) \cup ToSet(batch) \cup ToSet(sending) \cup ReplayerHolds \cup BatcherHolds)'
  BY InMemoryParts, PTL
<1>5. CASE ListReady
  <2>1. up /\ spool /\ listing' = Ready /\ UNCHANGED <<file, queue, held>>
    BY <1>5 DEF ListReady
  <2>2. InMemory' = InMemory /\ Separate'
    BY <1>1, <2>1, MemoryFrame DEF Ownership
  <2>3. Claims'
    BY <1>1, <2>1, <2>2 DEF Ownership, Claims, Ready
  <2>4. QED
    BY <1>1, <2>1, <2>2, <2>3 DEF Ownership, Requests, Numbered, Alone
<1>6. CASE Take
  <2>1. up /\ held = NoEvent
    BY <1>6 DEF Take
  <2>2. PICK e \in listing : TakeFile(e)
    BY <1>6 DEF Take
  <2>3. /\ listing' = listing \ {e} /\ UNCHANGED queue
        /\ \/ file' = [file EXCEPT ![e] = "inflight"] /\ held' = e
           \/ held' = held /\ \E ext \in {"bad", "json", "inflight"} : file' = [file EXCEPT ![e] = ext]
    BY <2>2 DEF TakeFile
  <2>4. e \in Events /\ file[e] = "json" /\ spool
    BY <1>2, <2>2 DEF Ownership, Claims, Alone
  <2>5. e \notin InMemory /\ e \notin Coming \cup Waiting /\ e <= submitted
    <3>1. ~(e > submitted)
      BY <2>4 DEF Ownership, Numbered
    <3>2. e \in Nat /\ submitted \in Nat
      BY <2>4 DEF Events, TypeOK
    <3>3. QED
      BY <2>4, <3>1, <3>2 DEF Ownership, Claims, Requests
  <2>6. /\ ReplayerHolds = {} /\ ReplayerHolds' \subseteq {e} /\ ToSet(queue') = ToSet(queue) /\ IsInjective(queue')
        /\ (file'[e] = "inflight" \/ ReplayerHolds' = {})
    BY <1>2, <2>1, <2>3, <2>4 DEF ReplayerHolds, Ownership, Separate
  <2>7. InMemory' = InMemory \cup ReplayerHolds'
    BY <1>3, <1>4, <2>6, InMemoryParts
  <2>8. Separate'
    BY <1>3, <2>5, <2>6, InMemoryParts DEF Ownership, Separate
  <2>9. \A f \in Events : f # e => file'[f] = file[f]
    BY <1>2, <2>3
  <2>10. Claims'
    <3>1. ASSUME NEW f \in InMemory' PROVE file'[f] = "inflight"
      <4>1. CASE f = e
        BY <2>5, <2>6, <2>7, <3>1, <4>1
      <4>2. CASE f # e
        BY <1>2, <2>4, <2>6, <2>7, <2>9, <3>1, <4>2 DEF Ownership, Claims
      <4>3. QED
        BY <4>1, <4>2
    <3>2. ASSUME NEW f \in listing' PROVE file'[f] = "json"
      BY <1>2, <2>3, <2>9, <3>2 DEF Ownership, Claims
    <3>3. QED
      BY <3>1, <3>2 DEF Claims
  <2>11. Requests'
    <3>1. IsInjective(request'["http"].todo) /\ IsInjective(request'["udp"].todo)
      BY <1>1 DEF Ownership, Requests
    <3>2. \A f \in Coming' \cup Waiting' : file'[f] \in {"none", "tmp"}
      BY <1>1, <1>2, <2>4, <2>5, <2>9 DEF Ownership, Requests
    <3>3. QED
      BY <1>1, <2>5, <2>6, <2>7, <3>1, <3>2 DEF Ownership, Requests
  <2>12. Numbered'
    <3>1. ASSUME NEW f \in Events, f > submitted PROVE file'[f] = "none" /\ remote'[f] = 0
      <4>1. f # e
        BY <2>5, <3>1, LimitsAssumption DEF Events, TypeOK
      <4>2. QED
        BY <1>1, <2>9, <3>1, <4>1 DEF Ownership, Numbered
    <3>2. QED
      BY <1>1, <2>5, <2>6, <2>7, <3>1 DEF Ownership, Numbered
  <2>13. Alone'
    BY <1>1, <2>1, <2>4 DEF Alone
  <2>14. QED
    BY <2>8, <2>10, <2>11, <2>12, <2>13 DEF Ownership
<1>7. CASE Enqueue
  <2>1. up /\ held # NoEvent /\ queue' = Append(queue, held) /\ held' = NoEvent /\ UNCHANGED <<file, listing>>
    BY <1>7 DEF Enqueue
  <2>2. held \in Events /\ ReplayerHolds = {held} /\ ReplayerHolds' = {} /\ spool
    BY <2>1 DEF TypeOK, ReplayerHolds, Ownership, Alone
  <2>3. held \notin ToSet(queue)
    BY <2>2 DEF Ownership, Separate
  <2>4. ToSet(queue') = ToSet(queue) \cup {held} /\ IsInjective(queue')
    BY <1>2, <2>1, <2>2, <2>3, ToSetAppend, InjectiveAppend DEF Ownership, Separate
  <2>5. InMemory' = InMemory
    BY <1>3, <1>4, <2>2, <2>4, InMemoryParts
  <2>6. Separate'
    BY <1>3, <2>2, <2>4 DEF Ownership, Separate
  <2>7. QED
    BY <1>1, <2>1, <2>2, <2>5, <2>6 DEF Ownership, Claims, Requests, Numbered, Alone
<1>8. QED
  BY <1>5, <1>6, <1>7 DEF Replayer

LEMMA RestartOwnership ==
  ASSUME TypeOK, Ownership, Restart
  PROVE  Ownership'
<1>1. /\ ~up /\ file' = [e \in Events |-> Recovered(file[e])]
      /\ UNCHANGED <<spool, submitted, request, queue, listing, held, carry, batch, sending, remote>>
  BY DEF Restart, intake, replay, batcher
<1>2. InMemory' = InMemory /\ Separate' /\ Coming' = Coming /\ Waiting' = Waiting
  BY <1>1, MemoryFrame DEF Ownership, Coming, Waiting
<1>3. InMemory = {} /\ listing = {} /\ Coming = {} /\ Waiting = {}
  BY <1>1 DEF Ownership, Alone
<1>4. \A e \in Events : file[e] = "none" => file'[e] = "none"
  BY <1>1 DEF Recovered
<1>5. QED
  BY <1>1, <1>2, <1>3, <1>4 DEF Ownership, Claims, Requests, Numbered, Alone

LEMMA ExitOwnership ==
  ASSUME TypeOK, Ownership, Exit
  PROVE  Ownership'
<1>1. /\ request' = [t \in Transports |-> NoRequest] /\ queue' = <<>> /\ listing' = {} /\ held' = NoEvent
      /\ carry' = NoEvent /\ batch' = <<>> /\ sending' = <<>>
      /\ UNCHANGED <<spool, submitted, file, remote>>
  BY DEF Exit
<1>2. /\ ToSet(queue') = {} /\ ToSet(batch') = {} /\ ToSet(sending') = {} /\ ReplayerHolds' = {}
      /\ BatcherHolds' = {} /\ IsInjective(queue') /\ IsInjective(batch') /\ IsInjective(sending')
  BY <1>1, ToSetEmpty, InjectiveEmpty DEF ReplayerHolds, BatcherHolds
<1>3. (InMemory = ToSet(queue) \cup ToSet(batch) \cup ToSet(sending) \cup ReplayerHolds \cup BatcherHolds)'
  BY InMemoryParts, PTL
<1>4. InMemory' = {} /\ Separate'
  BY <1>2, <1>3 DEF Separate
<1>5. request'["http"].todo = <<>> /\ request'["udp"].todo = <<>>
  BY <1>1 DEF NoRequest, Transports
<1>6. Coming' = {} /\ Waiting' = {} /\ IsInjective(request'["http"].todo) /\ IsInjective(request'["udp"].todo)
  BY <1>5, ToSetEmpty, InjectiveEmpty DEF Coming, Waiting
<1>7. Claims' /\ Requests' /\ Alone'
  BY <1>1, <1>4, <1>6 DEF Claims, Requests, Alone
<1>8. Numbered'
  BY <1>1, <1>4, <1>6 DEF Ownership, Numbered
<1>9. QED
  BY <1>4, <1>7, <1>8 DEF Ownership

LEMMA SubmitOwnership ==
  ASSUME TypeOK, Ownership, NEW t \in Transports, NEW n \in 1 .. MaxRequest, Submit(t, n)
  PROVE  Ownership'
<1> DEFINE new == ToSet(Arriving(n))
<1>1. /\ request \in [Transports -> [todo : Seq(Events), all : SUBSET Events]] /\ queue \in Seq(Events)
      /\ submitted \in Nat /\ MaxEvents \in Nat /\ submitted \in 0 .. MaxEvents /\ n \in Nat
  BY LimitsAssumption DEF TypeOK
<1>2. "udp" \in Transports /\ "http" \in Transports /\ Transports = {"http", "udp"}
  BY DEF Transports
<1>3. /\ up /\ request[t] = NoRequest /\ submitted + n <= MaxEvents /\ submitted' = submitted + n
      /\ UNCHANGED <<spool, up, listing, held, carry, batch, sending, remote, file>>
      /\ (t = "http" /\ SubmitToQueue(n)) \/ SubmitStepwise(t, n)
  BY DEF Submit, replay, batcher, SubmitToQueue, SubmitStepwise
<1>4. /\ Arriving(n) \in Seq(Events) /\ new \subseteq Events /\ IsInjective(Arriving(n))
      /\ \A e \in new : e > submitted /\ e <= submitted + n
  BY <1>1, <1>3, ArrivingEvents, ArrivingInjective
<1> HIDE DEF new
<1>5. InMemory \subseteq Events /\ Coming \cup Waiting \subseteq Events
  BY <1>1, <1>2, MemoryType, ToSetType DEF Coming, Waiting
<1>6. \A e \in Events : e \in Nat
  BY DEF Events
<1>7. \A e \in InMemory \cup Coming \cup Waiting : e \notin new /\ e <= submitted'
  BY <1>1, <1>3, <1>4, <1>5, <1>6 DEF Ownership, Numbered
<1>8. \A e \in new : file[e] = "none" /\ e <= submitted'
  BY <1>3, <1>4 DEF Ownership, Numbered
<1>9. \A e \in Events : e > submitted' => file'[e] = "none" /\ remote'[e] = 0
  <2>1. \A e \in Events : e > submitted' => e > submitted
    BY <1>1, <1>3, <1>6
  <2>2. QED
    BY <1>3, <2>1 DEF Ownership, Numbered
<1>10. CASE t = "http" /\ SubmitToQueue(n)
  <2>1. ~spool /\ UNCHANGED request /\ (queue' = queue \o Arriving(n) \/ UNCHANGED queue)
    BY <1>10 DEF SubmitToQueue
  <2>2. /\ Coming' = Coming /\ Waiting' = Waiting
        /\ IsInjective(request'["http"].todo) /\ IsInjective(request'["udp"].todo)
    BY <2>1 DEF Coming, Waiting, Ownership, Requests
  <2>3. CASE UNCHANGED queue
    <3>1. InMemory' = InMemory /\ Separate'
      BY <1>3, <2>3, MemoryFrame DEF Ownership
    <3>2. Numbered'
      BY <1>7, <1>9, <2>2, <3>1 DEF Numbered
    <3>3. QED
      BY <1>3, <2>1, <2>2, <3>1, <3>2 DEF Ownership, Claims, Requests, Alone
  <2>4. CASE queue' = queue \o Arriving(n)
    <3>1. ToSet(queue) \cap new = {}
      BY <1>7, InMemoryParts
    <3>2. ToSet(queue') = ToSet(queue) \cup new /\ IsInjective(queue')
      BY <1>1, <1>4, <2>4, <3>1, ToSetConcat, InjectiveConcat DEF Ownership, Separate, new
    <3>3. /\ ToSet(batch') = ToSet(batch) /\ ToSet(sending') = ToSet(sending) /\ BatcherHolds' = BatcherHolds
          /\ ReplayerHolds' = ReplayerHolds /\ IsInjective(batch') /\ IsInjective(sending')
      BY <1>3 DEF ReplayerHolds, BatcherHolds, Ownership, Separate
    <3>4. (InMemory = ToSet(queue) \cup ToSet(batch) \cup ToSet(sending) \cup ReplayerHolds \cup BatcherHolds)'
      BY InMemoryParts, PTL
    <3>5. InMemory' = InMemory \cup new
      BY <3>2, <3>3, <3>4, InMemoryParts
    <3>6. ToSet(batch) \cap new = {} /\ ToSet(sending) \cap new = {} /\ ReplayerHolds \cap new = {}
          /\ BatcherHolds \cap new = {}
      BY <1>7, InMemoryParts
    <3>7. Separate'
      BY <3>2, <3>3, <3>6 DEF Ownership, Separate
    <3>8. Numbered'
      BY <1>7, <1>8, <1>9, <2>2, <3>5 DEF Numbered
    <3>9. Requests'
      BY <1>3, <1>7, <2>1, <2>2, <3>5 DEF Ownership, Requests
    <3>10. Claims' /\ Alone'
      BY <1>3, <2>1, <2>2 DEF Ownership, Claims, Alone
    <3>11. QED
      BY <3>7, <3>8, <3>9, <3>10 DEF Ownership
  <2>5. QED
    BY <2>1, <2>3, <2>4
<1>11. CASE SubmitStepwise(t, n)
  <2>1. /\ spool \/ t = "udp"
        /\ request' = [request EXCEPT ![t] = [todo |-> Arriving(n), all |-> new]]
        /\ UNCHANGED queue
    BY <1>11 DEF SubmitStepwise, new
  <2>2. InMemory' = InMemory /\ Separate'
    BY <1>3, <2>1, MemoryFrame DEF Ownership
  <2>3. \/ /\ t = "http" /\ request'["udp"] = request["udp"] /\ request'["http"].todo = Arriving(n)
        \/ /\ t = "udp" /\ request'["http"] = request["http"] /\ request'["udp"].todo = Arriving(n)
    BY <1>1, <1>2, <2>1
  <2>4. \/ spool /\ Coming' = new /\ Waiting' = Waiting
        \/ Coming' = Coming /\ Waiting' = new
    BY <2>1, <2>3 DEF Coming, Waiting, new
  <2>5. IsInjective(request'["http"].todo) /\ IsInjective(request'["udp"].todo)
    BY <1>4, <2>3 DEF Ownership, Requests
  <2>6. Requests'
    BY <1>3, <1>7, <1>8, <2>2, <2>4, <2>5 DEF Ownership, Requests
  <2>7. Numbered'
    BY <1>7, <1>8, <1>9, <2>2, <2>4 DEF Numbered
  <2>8. Claims' /\ Alone'
    BY <1>3, <2>2, <2>4 DEF Ownership, Claims, Alone
  <2>9. QED
    BY <2>2, <2>6, <2>7, <2>8 DEF Ownership
<1>12. QED
  BY <1>3, <1>10, <1>11

\* A handler takes the first of the events it has still to accept.
LEMMA TodoTail ==
  ASSUME TypeOK, Ownership, NEW t \in Transports, request[t].todo # <<>>,
         request' = [request EXCEPT ![t].todo = Tail(@)]
         \/ (request' = [request EXCEPT ![t] = NoRequest])
  PROVE  /\ Coming' \subseteq Coming /\ Waiting' \subseteq Waiting
         /\ IsInjective(request'["http"].todo) /\ IsInjective(request'["udp"].todo)
         /\ Head(request[t].todo) \in Events /\ Head(request[t].todo) \in Coming \cup Waiting
         /\ Head(request[t].todo) \notin Coming' \cup Waiting'
<1>1. /\ request \in [Transports -> [todo : Seq(Events), all : SUBSET Events]]
      /\ "udp" \in Transports /\ "http" \in Transports /\ Transports = {"http", "udp"}
  BY DEF TypeOK, Transports
<1>2. request[t].todo \in Seq(Events) /\ IsInjective(request[t].todo)
  BY <1>1 DEF Ownership, Requests
<1>3. PICK e \in Events : e = Head(request[t].todo)
  BY <1>2, ToSetTail
<1>4. /\ ToSet(request[t].todo) = {e} \cup ToSet(Tail(request[t].todo))
      /\ e \notin ToSet(Tail(request[t].todo)) /\ IsInjective(Tail(request[t].todo))
  BY <1>2, <1>3, ToSetTail, InjectiveTail
<1>5. request'[t].todo \in {Tail(request[t].todo), <<>>}
  BY <1>1 DEF NoRequest
<1>6. /\ ToSet(request'[t].todo) \subseteq ToSet(request[t].todo) /\ IsInjective(request'[t].todo)
      /\ e \notin ToSet(request'[t].todo)
  BY <1>4, <1>5, ToSetEmpty, InjectiveEmpty
<1>7. CASE t = "http"
  <2>1. request'["udp"] = request["udp"]
    BY <1>1, <1>7
  <2>2. e \in Coming /\ e \notin Waiting
    BY <1>4, <1>7 DEF Ownership, Requests, Coming
  <2>3. QED
    BY <1>3, <1>6, <1>7, <2>1, <2>2 DEF Coming, Waiting, Ownership, Requests
<1>8. CASE t = "udp"
  <2>1. request'["http"] = request["http"]
    BY <1>1, <1>8
  <2>2. e \in Waiting /\ e \notin Coming
    BY <1>4, <1>8 DEF Ownership, Requests, Waiting
  <2>3. QED
    BY <1>3, <1>6, <1>8, <2>1, <2>2 DEF Coming, Waiting, Ownership, Requests
<1>9. QED
  BY <1>1, <1>7, <1>8

LEMMA IntakeOwnership ==
  ASSUME TypeOK, Ownership, NEW t \in Transports, Intake(t)
  PROVE  Ownership'
<1>1. /\ UNCHANGED <<spool, up, submitted, listing, held, carry, batch, sending, remote>> /\ up
  BY DEF Intake, QueueDatagramEvent, PersistEvent, AnswerSpooled, replay, batcher
<1>2. /\ request \in [Transports -> [todo : Seq(Events), all : SUBSET Events]] /\ queue \in Seq(Events)
      /\ "udp" \in Transports /\ "http" \in Transports /\ Transports = {"http", "udp"}
      /\ file \in [Events -> {"none", "tmp", "json", "inflight", "bad"}]
  BY DEF TypeOK, Transports
<1>3. InMemory \subseteq Events /\ Coming \cup Waiting \subseteq Events /\ listing \subseteq Events
  BY <1>2, MemoryType, ToSetType DEF Coming, Waiting, TypeOK
<1>4. CASE QueueDatagramEvent
  <2>1. ~spool /\ request["udp"].todo # <<>> /\ UNCHANGED file
    BY <1>4 DEF QueueDatagramEvent
  <2>2. PICK e : e = Head(request["udp"].todo)
    OBVIOUS
  <2>3. /\ queue' = Append(queue, e) \/ UNCHANGED queue
        /\ request' = [request EXCEPT !["udp"].todo = Tail(@)]
           \/ (request' = [request EXCEPT !["udp"] = NoRequest])
    BY <1>4, <2>2 DEF QueueDatagramEvent
  <2>4. /\ Coming' \subseteq Coming /\ Waiting' \subseteq Waiting
        /\ IsInjective(request'["http"].todo) /\ IsInjective(request'["udp"].todo)
        /\ e \in Events /\ e \in Coming \cup Waiting /\ e \notin Coming' \cup Waiting'
    BY <1>2, <2>1, <2>2, <2>3, TodoTail
  <2>5. e \notin InMemory
    BY <2>4 DEF Ownership, Requests
  <2>6. Separate' /\ InMemory' \subseteq InMemory \cup {e}
    <3>1. CASE UNCHANGED queue
      BY <1>1, <3>1, MemoryFrame DEF Ownership
    <3>2. CASE queue' = Append(queue, e)
      <4>1. ToSet(queue') = ToSet(queue) \cup {e} /\ IsInjective(queue')
        BY <1>2, <2>4, <2>5, <3>2, ToSetAppend, InjectiveAppend, InMemoryParts DEF Ownership, Separate
      <4>2. /\ ToSet(batch') = ToSet(batch) /\ ToSet(sending') = ToSet(sending) /\ BatcherHolds' = BatcherHolds
            /\ ReplayerHolds' = ReplayerHolds /\ IsInjective(batch') /\ IsInjective(sending')
        BY <1>1 DEF ReplayerHolds, BatcherHolds, Ownership, Separate
      <4>3. (InMemory = ToSet(queue) \cup ToSet(batch) \cup ToSet(sending) \cup ReplayerHolds \cup BatcherHolds)'
        BY InMemoryParts, PTL
      <4>4. InMemory' = InMemory \cup {e}
        BY <4>1, <4>2, <4>3, InMemoryParts
      <4>5. Separate'
        BY <2>5, <4>1, <4>2, InMemoryParts DEF Ownership, Separate
      <4>6. QED
        BY <4>4, <4>5
    <3>3. QED
      BY <2>3, <3>1, <3>2
  <2>7. Requests'
    BY <1>1, <2>1, <2>4, <2>6 DEF Ownership, Requests
  <2>8. Numbered'
    BY <1>1, <2>1, <2>4, <2>6 DEF Ownership, Numbered
  <2>9. Claims' /\ Alone'
    BY <1>1, <2>1, <2>4 DEF Ownership, Claims, Alone
  <2>10. QED
    BY <2>6, <2>7, <2>8, <2>9 DEF Ownership
<1>5. CASE PersistEvent(t)
  <2>1. spool /\ request[t].todo # <<>> /\ UNCHANGED queue
    BY <1>5 DEF PersistEvent
  <2>2. PICK e : e = Head(request[t].todo)
    OBVIOUS
  <2>3. \/ /\ file[e] = "none" /\ file' = [file EXCEPT ![e] = "tmp"]
           /\ UNCHANGED request
        \/ /\ file' = [file EXCEPT ![e] = "json"]
           /\ request' = [request EXCEPT ![t].todo = Tail(@)]
        \/ /\ UNCHANGED file
           /\ request' = [request EXCEPT ![t] = NoRequest]
    BY <1>5, <2>2 DEF PersistEvent
  <2>4. InMemory' = InMemory /\ Separate'
    BY <1>1, <2>1, MemoryFrame DEF Ownership
  <2>5. e \in Events /\ e \in Coming \cup Waiting
    <3>1. request[t].todo \in Seq(Events)
      BY <1>2
    <3>2. e \in Events /\ e \in ToSet(request[t].todo)
      BY <2>1, <2>2, <3>1, ToSetTail
    <3>3. QED
      BY <1>2, <3>2 DEF Coming, Waiting
  <2>6. /\ Coming' \subseteq Coming /\ Waiting' \subseteq Waiting
        /\ IsInjective(request'["http"].todo) /\ IsInjective(request'["udp"].todo)
        /\ \/ file'[e] \in {"none", "tmp"}
           \/ e \notin Coming' \cup Waiting'
    <3>1. CASE UNCHANGED request /\ file' = [file EXCEPT ![e] = "tmp"]
      <4>1. Coming' = Coming /\ Waiting' = Waiting /\ file'[e] = "tmp"
        BY <1>2, <2>5, <3>1 DEF Coming, Waiting
      <4>2. QED
        BY <3>1, <4>1 DEF Ownership, Requests
    <3>2. CASE ~UNCHANGED request
      <4>1. \/ request' = [request EXCEPT ![t].todo = Tail(@)]
            \/ request' = [request EXCEPT ![t] = NoRequest]
        BY <2>3, <3>2
      <4>2. QED
        BY <2>1, <2>2, <4>1, TodoTail
    <3>3. CASE UNCHANGED request /\ request' = [request EXCEPT ![t].todo = Tail(@)]
      BY <2>1, <2>2, <3>3, TodoTail
    <3>4. CASE UNCHANGED request /\ request' = [request EXCEPT ![t] = NoRequest]
      BY <2>1, <2>2, <3>4, TodoTail
    <3>5. QED
      BY <2>3, <3>1, <3>2, <3>3, <3>4
  <2>7. \A f \in Events : f # e => file'[f] = file[f]
    BY <1>2, <2>3, <2>5
  <2>8. file[e] \in {"none", "tmp"} /\ e <= submitted /\ e \notin InMemory /\ e \notin listing
    BY <2>1, <2>5 DEF Ownership, Requests, Numbered, Claims
  <2>9. Claims'
    BY <1>1, <1>3, <2>1, <2>4, <2>7, <2>8 DEF Ownership, Claims
  <2>10. Requests'
    <3>1. \A f \in Coming' \cup Waiting' : file'[f] \in {"none", "tmp"}
      BY <1>3, <2>1, <2>6, <2>7 DEF Ownership, Requests
    <3>2. QED
      BY <2>4, <2>6, <3>1 DEF Ownership, Requests
  <2>11. Numbered'
    <3>1. ASSUME NEW f \in Events, f > submitted PROVE file'[f] = "none" /\ remote'[f] = 0
      <4>1. f # e
        BY <2>8, <3>1, LimitsAssumption DEF Events, TypeOK
      <4>2. QED
        BY <1>1, <2>7, <3>1, <4>1 DEF Ownership, Numbered
    <3>2. QED
      BY <1>1, <2>4, <2>6, <3>1 DEF Ownership, Numbered
  <2>12. Alone'
    BY <1>1, <2>1 DEF Alone
  <2>13. QED
    BY <2>4, <2>9, <2>10, <2>11, <2>12 DEF Ownership
<1>6. CASE AnswerSpooled(t)
  <2>1. /\ request[t].todo = <<>> /\ request' = [request EXCEPT ![t] = NoRequest] /\ UNCHANGED <<file, queue>>
    BY <1>6 DEF AnswerSpooled
  <2>2. request'["http"].todo = request["http"].todo /\ request'["udp"].todo = request["udp"].todo
    BY <1>2, <2>1 DEF NoRequest
  <2>3. InMemory' = InMemory /\ Separate' /\ Coming' = Coming /\ Waiting' = Waiting
    BY <1>1, <2>1, <2>2, MemoryFrame DEF Ownership, Coming, Waiting
  <2>4. QED
    BY <1>1, <2>1, <2>2, <2>3 DEF Ownership, Claims, Requests, Numbered, Alone
<1>7. QED
  BY <1>4, <1>5, <1>6 DEF Intake

LEMMA InitOwnership == Init => Ownership
<1> SUFFICES ASSUME Init PROVE Ownership
  OBVIOUS
<1>1. /\ queue = <<>> /\ batch = <<>> /\ sending = <<>> /\ ReplayerHolds = {} /\ BatcherHolds = {} /\ listing = {}
      /\ submitted = 0 /\ request["http"].todo = <<>> /\ request["udp"].todo = <<>> /\ held = NoEvent /\ up
      /\ \A e \in Events : file[e] = "none" /\ remote[e] = 0
  BY DEF Init, ReplayerHolds, BatcherHolds, NoRequest, Transports
<1>2. ToSet(<<>>) = {} /\ IsInjective(<<>>)
  BY ToSetEmpty, InjectiveEmpty
<1>3. Separate
  BY <1>1, <1>2 DEF Separate
<1>4. InMemory = {} /\ Coming = {} /\ Waiting = {}
  BY <1>1, <1>2, InMemoryParts DEF Coming, Waiting
<1>5. QED
  BY <1>1, <1>2, <1>3, <1>4 DEF Ownership, Claims, Requests, Numbered, Alone

LEMMA OwnershipStep == TypeOK /\ Ownership /\ [Next]_vars => Ownership'
<1> SUFFICES ASSUME TypeOK, Ownership, [Next]_vars PROVE Ownership'
  OBVIOUS
<1>1. CASE UNCHANGED vars
  <2>1. UNCHANGED <<spool, up, submitted, request, file, queue, listing, held, carry, batch, sending, remote>>
    BY <1>1 DEF vars
  <2>2. InMemory' = InMemory /\ Separate' /\ Coming' = Coming /\ Waiting' = Waiting
    BY <2>1, MemoryFrame DEF Ownership, Coming, Waiting
  <2>3. QED
    BY <2>1, <2>2 DEF Ownership, Claims, Requests, Numbered, Alone
<1>2. ASSUME NEW t \in Transports, NEW n \in 1 .. MaxRequest, Submit(t, n) PROVE Ownership'
  BY <1>2, SubmitOwnership
<1>3. ASSUME NEW t \in Transports, Intake(t) PROVE Ownership'
  BY <1>3, IntakeOwnership
<1>4. QED
  BY <1>1, <1>2, <1>3, ReplayerOwnership, FlushesOwnership, PostOwnership, SettleOwnership, ExitOwnership,
     RestartOwnership DEF Next, Batcher

-----------------------------------------------------------------------------
(* Every time an event is received again, something failed. *)

\* The event may still be posted: some part of the sidecar has it, and it was not just
\* delivered.
Live(e) ==
  /\ ~(phase = "delete" /\ e \in ToSet(sending))
  /\ e \in InMemory \cup Coming \cup Waiting \/ (spool /\ file[e] # "none")

\* An event that may be posted was received no more often than there were faults.
FaultsCounted ==
  \A e \in Events : remote[e] <= 1 + faults /\ (Live(e) => remote[e] <= faults)

\* With one more fault every event may be posted again.
LEMMA FaultCounts ==
  ASSUME TypeOK, FaultsCounted, faults' = faults + 1,
         \/ UNCHANGED remote
         \/ Received /\ phase = "post"
  PROVE  FaultsCounted'
<1>1. faults \in Nat /\ remote \in [Events -> Nat]
  BY DEF TypeOK
<1>2. ASSUME NEW e \in Events PROVE remote'[e] <= faults'
  <2>1. remote[e] <= 1 + faults /\ remote[e] \in Nat /\ (Live(e) => remote[e] <= faults)
    BY <1>1 DEF FaultsCounted
  <2>2. CASE UNCHANGED remote
    BY <1>1, <2>1, <2>2
  <2>3. CASE Received /\ phase = "post" /\ e \in ToSet(sending)
    <3>1. Live(e)
      BY <2>3, InMemoryParts DEF Live
    <3>2. remote'[e] = remote[e] + 1
      BY <2>3 DEF Received
    <3>3. QED
      BY <1>1, <2>1, <3>1, <3>2
  <2>4. CASE Received /\ e \notin ToSet(sending)
    <3>1. remote'[e] = remote[e]
      BY <1>1, <2>4 DEF Received
    <3>2. QED
      BY <1>1, <2>1, <3>1
  <2>5. QED
    BY <2>2, <2>3, <2>4
<1>3. \A e \in Events : remote'[e] \in Nat
  BY <1>1 DEF Received
<1>4. QED
  BY <1>1, <1>2, <1>3 DEF FaultsCounted

\* Without a fault it is enough that what may be posted then may be posted now, or was
\* never received.
LEMMA LiveCounts ==
  ASSUME TypeOK, FaultsCounted, UNCHANGED <<faults, remote>>,
         \A e \in Events : Live(e)' => Live(e) \/ remote[e] = 0
  PROVE  FaultsCounted'
<1>1. faults \in Nat /\ remote \in [Events -> Nat]
  BY DEF TypeOK
<1>2. QED
  BY <1>1 DEF FaultsCounted

LEMMA SubmitCounts ==
  ASSUME TypeOK, Ownership, FaultsCounted, NEW t \in Transports, NEW n \in 1 .. MaxRequest, Submit(t, n)
  PROVE  FaultsCounted'
<1>1. /\ request \in [Transports -> [todo : Seq(Events), all : SUBSET Events]] /\ queue \in Seq(Events)
      /\ submitted \in 0 .. MaxEvents /\ Transports = {"http", "udp"}
  BY DEF TypeOK, Transports
<1>2. /\ submitted + n <= MaxEvents
      /\ UNCHANGED <<spool, held, carry, batch, sending, remote, file, phase, faults>>
      /\ SubmitToQueue(n) \/ SubmitStepwise(t, n)
  BY DEF Submit, replay, batcher, SubmitToQueue, SubmitStepwise
<1>3. PICK new : new = ToSet(Arriving(n))
  OBVIOUS
<1>4. Arriving(n) \in Seq(Events) /\ \A e \in new : e \in Events /\ e > submitted
  BY <1>1, <1>2, <1>3, ArrivingEvents
<1>5. \A e \in new : remote[e] = 0
  BY <1>4 DEF Ownership, Numbered
<1>6. InMemory' \subseteq InMemory \cup new
  <2>1. ToSet(queue') \subseteq ToSet(queue) \cup new
    <3>1. queue' = queue \o Arriving(n) \/ queue' = queue
      BY <1>2 DEF SubmitToQueue, SubmitStepwise
    <3>2. QED
      BY <1>1, <1>3, <1>4, <3>1, ToSetConcat
  <2>2. /\ ToSet(batch') = ToSet(batch) /\ ToSet(sending') = ToSet(sending)
    BY <1>2
  <2>3. QED
    BY <1>2, <2>1, <2>2 DEF InMemory
<1>7. Coming' \cup Waiting' \subseteq Coming \cup Waiting \cup new
  <2>1. CASE request' = request
    BY <2>1 DEF Coming, Waiting
  <2>2. CASE request' = [request EXCEPT ![t] = [todo |-> Arriving(n), all |-> ToSet(Arriving(n))]]
    <3>1. /\ request'["http"].todo \in {request["http"].todo, Arriving(n)}
          /\ request'["udp"].todo \in {request["udp"].todo, Arriving(n)}
      BY <1>1, <2>2
    <3>2. QED
      BY <1>3, <3>1 DEF Coming, Waiting
  <2>3. QED
    BY <1>2, <2>1, <2>2 DEF SubmitToQueue, SubmitStepwise
<1>8. ASSUME NEW e \in Events, Live(e)' PROVE Live(e) \/ remote[e] = 0
  <2>1. /\ ~(phase = "delete" /\ e \in ToSet(sending))
        /\ e \in InMemory' \cup Coming' \cup Waiting' \/ (spool /\ file[e] # "none")
    BY <1>2, <1>8 DEF Live, ToSet
  <2>2. QED
    BY <1>5, <1>6, <1>7, <2>1 DEF Live
<1>9. QED
  BY <1>2, <1>8, LiveCounts

LEMMA IntakeCounts ==
  ASSUME TypeOK, Ownership, FaultsCounted, NEW t \in Transports, Intake(t)
  PROVE  FaultsCounted'
<1>1. UNCHANGED <<spool, held, carry, batch, sending, phase, remote>>
  BY DEF Intake, QueueDatagramEvent, PersistEvent, AnswerSpooled, replay, batcher
<1>2. /\ request \in [Transports -> [todo : Seq(Events), all : SUBSET Events]] /\ queue \in Seq(Events)
      /\ "udp" \in Transports /\ "http" \in Transports /\ Transports = {"http", "udp"}
      /\ file \in [Events -> {"none", "tmp", "json", "inflight", "bad"}]
  BY DEF TypeOK, Transports
<1>3. ToSet(batch') = ToSet(batch) /\ ToSet(sending') = ToSet(sending) /\ ToSet(sending) \subseteq InMemory
  BY <1>1, InMemoryParts
<1>4. ASSUME NEW e \in Coming \cup Waiting PROVE Live(e)
  <2>1. e \notin InMemory
    BY <1>4 DEF Ownership, Requests
  <2>2. QED
    BY <1>3, <2>1 DEF Live
<1>5. CASE QueueDatagramEvent
  <2>1. PICK e : e = Head(request["udp"].todo)
    OBVIOUS
  <2>2. /\ request["udp"].todo # <<>> /\ UNCHANGED <<file, faults>>
        /\ queue' = Append(queue, e) \/ UNCHANGED queue
        /\ request' = [request EXCEPT !["udp"].todo = Tail(@)]
           \/ (request' = [request EXCEPT !["udp"] = NoRequest])
    BY <1>5, <2>1 DEF QueueDatagramEvent
  <2>3. Coming' \subseteq Coming /\ Waiting' \subseteq Waiting /\ e \in Events /\ e \in Coming \cup Waiting
    BY <1>2, <2>1, <2>2, TodoTail
  <2>4. ToSet(queue') \subseteq ToSet(queue) \cup {e}
    <3>1. CASE queue' = queue
      BY <3>1
    <3>2. CASE queue' = Append(queue, e)
      BY <1>2, <2>3, <3>2, ToSetAppend
    <3>3. QED
      BY <2>2, <3>1, <3>2
  <2>5. InMemory' \subseteq InMemory \cup {e}
    BY <1>1, <1>3, <2>4 DEF InMemory
  <2>6. ASSUME NEW f \in Events, Live(f)' PROVE Live(f)
    BY <1>1, <1>3, <1>4, <2>2, <2>3, <2>5, <2>6 DEF Live
  <2>7. QED
    BY <1>1, <2>2, <2>6, LiveCounts
<1>6. CASE PersistEvent(t)
  <2>1. PICK e : e = Head(request[t].todo)
    OBVIOUS
  <2>2. /\ request[t].todo # <<>> /\ UNCHANGED queue
        /\ \/ file' = [file EXCEPT ![e] = "tmp"] /\ UNCHANGED <<request, faults>>
           \/ /\ file' = [file EXCEPT ![e] = "json"] /\ UNCHANGED faults
              /\ request' = [request EXCEPT ![t].todo = Tail(@)]
           \/ Fault
    BY <1>6, <2>1 DEF PersistEvent
  <2>3. CASE Fault
    BY <1>1, <2>3, FaultCounts DEF Fault
  <2>4. CASE ~Fault
    <3>1. UNCHANGED faults /\ \A f \in Events : f # e => file'[f] = file[f]
      BY <1>2, <2>2, <2>4
    <3>2. e \in Events /\ e \in Coming \cup Waiting
      <4>1. request[t].todo \in Seq(Events)
        BY <1>2
      <4>2. e \in Events /\ e \in ToSet(request[t].todo)
        BY <2>1, <2>2, <4>1, ToSetTail
      <4>3. QED
        BY <1>2, <4>2 DEF Coming, Waiting
    <3>3. Coming' \subseteq Coming /\ Waiting' \subseteq Waiting
      <4>1. CASE UNCHANGED request
        BY <4>1 DEF Coming, Waiting
      <4>2. CASE request' = [request EXCEPT ![t].todo = Tail(@)]
        BY <2>2, <4>2, TodoTail
      <4>3. QED
        BY <2>2, <2>4, <4>1, <4>2
    <3>4. InMemory' = InMemory
      BY <1>1, <2>2, MemoryFrame
    <3>5. ASSUME NEW f \in Events, Live(f)' PROVE Live(f)
      BY <1>1, <1>3, <1>4, <3>1, <3>2, <3>3, <3>4, <3>5 DEF Live
    <3>6. QED
      BY <1>1, <3>1, <3>5, LiveCounts
  <2>5. QED
    BY <2>3, <2>4
<1>7. CASE AnswerSpooled(t)
  <2>1. /\ request[t].todo = <<>> /\ request' = [request EXCEPT ![t] = NoRequest] /\ UNCHANGED <<file, queue, faults>>
    BY <1>7 DEF AnswerSpooled
  <2>2. request'["http"].todo = request["http"].todo /\ request'["udp"].todo = request["udp"].todo
    BY <1>2, <2>1 DEF NoRequest
  <2>3. InMemory' = InMemory /\ Coming' = Coming /\ Waiting' = Waiting
    BY <1>1, <2>1, <2>2, MemoryFrame DEF Coming, Waiting
  <2>4. ASSUME NEW f \in Events, Live(f)' PROVE Live(f)
    BY <1>1, <1>3, <2>1, <2>3, <2>4 DEF Live
  <2>5. QED
    BY <1>1, <2>1, <2>4, LiveCounts
<1>8. QED
  BY <1>5, <1>6, <1>7 DEF Intake

LEMMA ReplayerCounts ==
  ASSUME TypeOK, Ownership, FaultsCounted, Replayer
  PROVE  FaultsCounted'
<1>1. /\ UNCHANGED <<spool, request, carry, batch, sending, phase, remote>>
      /\ Coming' = Coming /\ Waiting' = Waiting
  BY DEF Replayer, ListReady, Take, TakeFile, Enqueue, intake, batcher, Coming, Waiting
<1>2. /\ queue \in Seq(Events) /\ listing \subseteq Events /\ NoEvent \notin Events
      /\ file \in [Events -> {"none", "tmp", "json", "inflight", "bad"}]
  BY DEF TypeOK, Events, NoEvent
<1>3. ToSet(batch') = ToSet(batch) /\ ToSet(sending') = ToSet(sending) /\ ToSet(sending) \subseteq InMemory
  BY <1>1, InMemoryParts
<1>4. CASE ListReady
  <2>1. UNCHANGED <<file, queue, held, faults>> /\ InMemory' = InMemory
    BY <1>1, <1>4, MemoryFrame DEF ListReady
  <2>2. ASSUME NEW f \in Events, Live(f)' PROVE Live(f)
    BY <1>1, <1>3, <2>1, <2>2 DEF Live
  <2>3. QED
    BY <1>1, <2>1, <2>2, LiveCounts
<1>5. CASE Take
  <2>1. PICK e \in listing : TakeFile(e)
    BY <1>5 DEF Take
  <2>2. /\ UNCHANGED queue /\ held = NoEvent
        /\ \/ file' = [file EXCEPT ![e] = "inflight"] /\ held' = e /\ UNCHANGED faults
           \/ Fault
    BY <1>5, <2>1 DEF Take, TakeFile
  <2>3. CASE Fault
    BY <1>1, <2>3, FaultCounts DEF Fault
  <2>4. CASE file' = [file EXCEPT ![e] = "inflight"] /\ held' = e /\ UNCHANGED faults
    <3>1. e \in Events /\ file[e] = "json" /\ spool
      BY <1>2, <2>1 DEF Ownership, Claims, Alone
    <3>2. e \notin InMemory
      BY <3>1 DEF Ownership, Claims
    <3>3. Live(e)
      BY <1>3, <3>1, <3>2 DEF Live
    <3>4. InMemory' \subseteq InMemory \cup {e}
      BY <1>1, <1>3, <2>2, <2>4 DEF InMemory, ToSet
    <3>5. \A f \in Events : f # e => file'[f] = file[f]
      BY <1>2, <2>4
    <3>6. ASSUME NEW f \in Events, Live(f)' PROVE Live(f)
      BY <1>1, <1>3, <3>3, <3>4, <3>5, <3>6 DEF Live
    <3>7. QED
      BY <1>1, <2>4, <3>6, LiveCounts
  <2>5. QED
    BY <2>2, <2>3, <2>4
<1>6. CASE Enqueue
  <2>1. held # NoEvent /\ queue' = Append(queue, held) /\ held' = NoEvent /\ UNCHANGED <<file, faults>>
    BY <1>6 DEF Enqueue
  <2>2. held \in Events
    BY <2>1 DEF TypeOK
  <2>3. ToSet(queue') = ToSet(queue) \cup {held}
    BY <1>2, <2>1, <2>2, ToSetAppend
  <2>4. InMemory' \subseteq InMemory
    BY <1>1, <1>3, <2>1, <2>3 DEF InMemory
  <2>5. ASSUME NEW f \in Events, Live(f)' PROVE Live(f)
    BY <1>1, <1>3, <2>1, <2>4, <2>5 DEF Live
  <2>6. QED
    BY <1>1, <2>1, <2>5, LiveCounts
<1>7. QED
  BY <1>4, <1>5, <1>6 DEF Replayer

LEMMA BatcherCounts ==
  ASSUME TypeOK, Ownership, FaultsCounted, Batcher \/ Tick
  PROVE  FaultsCounted'
<1>1. UNCHANGED <<spool, request>> /\ Coming' = Coming /\ Waiting' = Waiting
  BY DEF Batcher, Receive, PushCarried, Tick, Post, GiveUp, SettleFile, intake, Coming, Waiting
<1>2. /\ sending \in Seq(Events) /\ file \in [Events -> {"none", "tmp", "json", "inflight", "bad"}]
      /\ remote \in [Events -> Nat] /\ faults \in Nat /\ ToSet(sending) \subseteq InMemory
      /\ (phase = "idle" => sending = <<>>)
  BY InMemoryParts DEF TypeOK
<1>3. CASE Receive \/ PushCarried \/ Tick
  <2>1. InMemory' = InMemory /\ UNCHANGED <<remote, file>>
    BY <1>3, MemoryFlushes, BatchFlushes
  <2>2. phase = "idle" /\ UNCHANGED faults
    BY <1>3 DEF Receive, PushCarried, Tick
  <2>3. ASSUME NEW f \in Events, Live(f)' PROVE Live(f)
    BY <1>1, <2>1, <2>2, <2>3 DEF Live
  <2>4. QED
    BY <2>1, <2>2, <2>3, LiveCounts
<1>4. CASE Post
  <2>1. /\ phase = "post" /\ UNCHANGED <<file, queue, held, carry, batch, sending>>
        /\ \/ Received /\ phase' = "delete" /\ UNCHANGED faults
           \/ Fault /\ (Received \/ UNCHANGED remote)
    BY <1>4 DEF Post, replay
  <2>2. CASE Fault
    BY <2>1, <2>2, FaultCounts DEF Fault, Received
  <2>3. CASE Received /\ phase' = "delete" /\ UNCHANGED faults
    <3>1. InMemory' = InMemory /\ ToSet(sending') = ToSet(sending)
      BY <2>1, MemoryFrame
    <3>2. ASSUME NEW e \in Events PROVE remote'[e] <= 1 + faults' /\ (Live(e)' => remote'[e] <= faults')
      <4>1. remote[e] <= 1 + faults /\ (Live(e) => remote[e] <= faults) /\ remote[e] \in Nat
        BY <1>2 DEF FaultsCounted
      <4>2. CASE e \in ToSet(sending)
        <5>1. Live(e) /\ ~Live(e)'
          BY <1>2, <2>1, <2>3, <3>1, <4>2 DEF Live
        <5>2. remote'[e] = remote[e] + 1
          BY <2>3, <4>2 DEF Received
        <5>3. QED
          BY <1>2, <2>3, <4>1, <5>1, <5>2
      <4>3. CASE e \notin ToSet(sending)
        <5>1. Live(e)' => Live(e)
          BY <1>1, <2>1, <2>3, <3>1, <4>3 DEF Live
        <5>2. remote'[e] = remote[e]
          BY <1>2, <2>3, <4>3 DEF Received
        <5>3. QED
          BY <2>3, <4>1, <5>1, <5>2
      <4>4. QED
        BY <4>2, <4>3
    <3>3. QED
      BY <3>2 DEF FaultsCounted
  <2>4. QED
    BY <2>1, <2>2, <2>3
<1>5. CASE GiveUp
  <2>1. /\ phase = "post" /\ UNCHANGED <<file, queue, held, carry, batch, sending, remote, faults>>
    BY <1>5 DEF GiveUp, replay
  <2>2. InMemory' = InMemory
    BY <2>1, MemoryFrame
  <2>3. ASSUME NEW f \in Events, Live(f)' PROVE Live(f)
    BY <1>1, <2>1, <2>2, <2>3 DEF Live
  <2>4. QED
    BY <2>1, <2>3, LiveCounts
<1>6. CASE SettleFile
  <2>1. /\ phase \in {"delete", "restore"} /\ sending' = Tail(sending)
        /\ phase' = (IF Len(sending) = 1 THEN "idle" ELSE phase)
        /\ UNCHANGED <<queue, held, carry, batch, remote>>
        /\ \/ ~spool /\ UNCHANGED <<file, faults>>
           \/ spool /\ file' = [file EXCEPT ![Head(sending)] = Outcome] /\ UNCHANGED faults
           \/ Fault
    BY <1>6 DEF SettleFile, replay
  <2>2. CASE Fault
    BY <2>1, <2>2, FaultCounts DEF Fault
  <2>3. CASE ~Fault
    <3>1. PICK e : e = Head(sending)
      OBVIOUS
    <3>2. sending # <<>>
      BY <2>1 DEF TypeOK
    <3>3. /\ e \in Events /\ ToSet(sending) = {e} \cup ToSet(sending') /\ e \notin ToSet(sending')
          /\ (Len(sending) = 1 => sending' = <<>>)
      BY <1>2, <2>1, <3>1, <3>2, ToSetTail, InjectiveTail DEF Ownership, Separate
    <3>4. ToSet(queue') = ToSet(queue) /\ ToSet(batch') = ToSet(batch)
      BY <2>1
    <3>5. InMemory' \subseteq InMemory /\ e \notin InMemory'
      <4>1. (InMemory = ToSet(queue) \cup ToSet(batch) \cup ToSet(sending) \cup ReplayerHolds \cup BatcherHolds)'
        BY InMemoryParts, PTL
      <4>2. ReplayerHolds' = ReplayerHolds /\ BatcherHolds' = BatcherHolds
        BY <2>1 DEF ReplayerHolds, BatcherHolds
      <4>3. QED
        BY <3>3, <3>4, <4>1, <4>2, InMemoryParts DEF Ownership, Separate
    <3>6. e \notin Coming \cup Waiting
      BY <1>2, <3>3 DEF Ownership, Requests
    <3>7. \A f \in Events : f # e => file'[f] = file[f]
      BY <1>2, <2>1, <2>3, <3>1
    <3>8. phase = "delete" => ~Live(e)'
      <4>1. spool /\ phase = "delete" => file'[e] = "none"
        BY <1>2, <2>1, <2>3, <3>1, <3>3 DEF Outcome
      <4>2. QED
        BY <1>1, <3>5, <3>6, <4>1 DEF Live
    <3>9. phase = "restore" => Live(e)
      BY <1>2, <3>3 DEF Live
    <3>10. ASSUME NEW f \in Events, f # e, Live(f)' PROVE Live(f)
      <4>1. f \in InMemory \cup Coming \cup Waiting \/ (spool /\ file[f] # "none")
        BY <1>1, <3>5, <3>7, <3>10 DEF Live
      <4>2. CASE phase = "delete" /\ f \in ToSet(sending)
        <5>1. f \in ToSet(sending') /\ phase' = phase
          BY <2>1, <3>3, <3>10, <4>2, ToSetEmpty
        <5>2. QED
          BY <3>10, <4>2, <5>1 DEF Live
      <4>3. QED
        BY <4>1, <4>2 DEF Live
    <3>11. \A f \in Events : Live(f)' => Live(f)
      BY <2>1, <3>8, <3>9, <3>10
    <3>12. QED
      BY <2>1, <2>3, <3>11, LiveCounts
  <2>4. QED
    BY <2>2, <2>3
<1>7. QED
  BY <1>3, <1>4, <1>5, <1>6 DEF Batcher

LEMMA FaultsCountedStep == TypeOK /\ Ownership /\ FaultsCounted /\ [Next]_vars => FaultsCounted'
<1> SUFFICES ASSUME TypeOK, Ownership, FaultsCounted, [Next]_vars PROVE FaultsCounted'
  OBVIOUS
<1>1. CASE UNCHANGED vars
  BY <1>1 DEF vars, FaultsCounted, Live, InMemory, Coming, Waiting, ToSet
<1>2. CASE Exit
  BY <1>2, FaultCounts DEF Exit, Fault
<1>3. CASE Restart
  <2>1. /\ file' = [e \in Events |-> Recovered(file[e])]
        /\ UNCHANGED <<spool, request, queue, held, carry, batch, sending, phase, remote, faults>>
    BY <1>3 DEF Restart, intake, replay, batcher
  <2>2. InMemory' = InMemory /\ Coming' = Coming /\ Waiting' = Waiting /\ ToSet(sending') = ToSet(sending)
    BY <2>1, MemoryFrame DEF Coming, Waiting
  <2>3. ASSUME NEW f \in Events, Live(f)' PROVE Live(f)
    BY <2>1, <2>2, <2>3 DEF Live, Recovered
  <2>4. QED
    BY <2>1, <2>3, LiveCounts
<1>4. ASSUME NEW t \in Transports, NEW n \in 1 .. MaxRequest, Submit(t, n) PROVE FaultsCounted'
  BY <1>4, SubmitCounts
<1>5. ASSUME NEW t \in Transports, Intake(t) PROVE FaultsCounted'
  BY <1>5, IntakeCounts
<1>6. QED
  BY <1>1, <1>2, <1>3, <1>4, <1>5, ReplayerCounts, BatcherCounts DEF Next

\* An event the sidecar still has to post, and a file the replayer has still to claim, are
\* each in one place: no event is in two batches, and no file is claimed by two owners
\* (replay_spool_once, run_batcher, flush_batch and recover_spool_dir).
THEOREM OneOwner == Spec => []ClaimsAreExclusive
<1>1. Init => TypeOK /\ Ownership
  BY InitType, InitOwnership
<1>2. TypeOK /\ Ownership /\ [Next]_vars => (TypeOK /\ Ownership)'
  BY TypeStep, OwnershipStep
<1>3. TypeOK /\ Ownership => ClaimsAreExclusive
  BY SeparatePlaces DEF Ownership
<1>4. QED
  BY <1>1, <1>2, <1>3, PTL DEF Spec

\* The ingest API receives an event more than once only as often as a post, a file
\* operation or the process failed (send_with_retry and flush_batch).
THEOREM DuplicatesAreCounted == Spec => []DuplicatesHaveFaults
<1>1. Init => TypeOK /\ Ownership /\ FaultsCounted
  <2>1. ASSUME Init PROVE FaultsCounted
    BY <2>1 DEF Init, FaultsCounted
  <2>2. QED
    BY <2>1, InitType, InitOwnership
<1>2. TypeOK /\ Ownership /\ FaultsCounted /\ [Next]_vars => (TypeOK /\ Ownership /\ FaultsCounted)'
  BY TypeStep, OwnershipStep, FaultsCountedStep
<1>3. FaultsCounted => DuplicatesHaveFaults
  BY DEF FaultsCounted, DuplicatesHaveFaults
<1>4. QED
  BY <1>1, <1>2, <1>3, PTL DEF Spec
=============================================================================
