------------------------------ MODULE Sidecar ------------------------------
(***************************************************************************)
(* apps/sidecar: local HTTP and UDP intake, an optional disk spool with    *)
(* its replayer, the bounded queue, the batcher and the sender with        *)
(* retries.  The tasks run concurrently; each blocking file operation and  *)
(* each await is a step, and the process may end between any two of them,  *)
(* by a crash, by ctrl-c or because one of its tasks returned.             *)
(*                                                                         *)
(* The remote ingest API is external: a post that fails or times out may   *)
(* have been received.                                                     *)
(***************************************************************************)
EXTENDS Naturals, Sequences, FiniteSetsExt, SequencesExt

CONSTANTS
  MaxEvents,             \* bound: events the clients submit, numbered in order
  MaxRequest,            \* bound: events in one HTTP body or datagram
  Size,                  \* Size[e]: bytes of event e
  QueueCapacity,         \* NANOTRACE_CLIENT_QUEUE_CAPACITY
  BatchMaxEvents,        \* NANOTRACE_CLIENT_BATCH_MAX_EVENTS
  BatchMaxBytes,         \* NANOTRACE_CLIENT_BATCH_MAX_BYTES
  RetryAttempts,         \* NANOTRACE_CLIENT_RETRY_ATTEMPTS
  MaxFaults              \* bound: failed posts, failed file operations and exits

Events == 1 .. MaxEvents
NoEvent == 0

ASSUME LimitsAssumption ==
  /\ MaxEvents \in Nat /\ MaxRequest \in Nat /\ RetryAttempts \in Nat /\ MaxFaults \in Nat
  /\ QueueCapacity \in Nat \ {0}
  /\ BatchMaxEvents \in Nat /\ BatchMaxBytes \in Nat
ASSUME SizeAssumption == Size \in [Events -> Nat]

Transports == {"http", "udp"}

VARIABLES
  spool,                 \* TRUE iff a spool directory is configured
  up,                    \* the process is running
  submitted,             \* events 1 .. submitted were sent to the sidecar
  request,               \* request[t]: what the handler of transport t still has to accept
  file,                  \* file[e]: the extension of event e's spool file
  queue,                 \* the mpsc channel to the batcher
  listing,               \* the ready files the replayer's current pass has still to take
  held,                  \* the event the replayer claimed and is sending to the channel
  carry,                 \* the event the batcher received and pushes after a flush
  batch,                 \* the batch being filled
  sending,               \* the batch being flushed; shrinks while its files are settled
  phase,                 \* what flush_batch is doing
  attempt,               \* posts made for the batch being flushed
  remote,                \* remote[e]: times the ingest API received event e
  accepted,              \* history: events counted and answered as accepted
  rejected,              \* history: events of HTTP bodies answered 503
  dropped,               \* history: events without a file in a batch that was given up
  lost,                  \* history: events without a file in memory when the process ended
  failed,                \* history: events whose spool file an operation failed on
  faults                 \* faults so far, at most MaxFaults

intake == <<submitted, request, accepted, rejected>>
replay == <<listing, held>>
batcher == <<carry, batch, sending, phase, attempt, remote, dropped>>
vars == <<spool, up, submitted, request, file, queue, listing, held, carry, batch, sending,
          phase, attempt, remote, accepted, rejected, dropped, lost, failed, faults>>

NoRequest == [todo |-> <<>>, all |-> {}]

Init ==
  /\ spool \in BOOLEAN
  /\ up = TRUE
  /\ submitted = 0
  /\ request = [t \in Transports |-> NoRequest]
  /\ file = [e \in Events |-> "none"]
  /\ queue = <<>>
  /\ listing = {}
  /\ held = NoEvent
  /\ carry = NoEvent
  /\ batch = <<>>
  /\ sending = <<>>
  /\ phase = "idle"
  /\ attempt = 0
  /\ remote = [e \in Events |-> 0]
  /\ accepted = {}
  /\ rejected = {}
  /\ dropped = {}
  /\ lost = {}
  /\ failed = {}
  /\ faults = 0

Fault == faults < MaxFaults /\ faults' = faults + 1

-----------------------------------------------------------------------------
(* Intake: accept_events *)

\* The next n events arrive in one body.
Arriving(n) == [i \in 1 .. n |-> submitted + i]

\* try_reserve_many: permits for all the events of the body or for none.
Fits(n) == Len(queue) + n <= QueueCapacity

\* Without a spool an HTTP body is queued or refused as a whole.
SubmitToQueue(n) ==
  /\ ~spool
  /\ IF Fits(n)
     THEN /\ queue' = queue \o Arriving(n)
          /\ accepted' = accepted \cup ToSet(Arriving(n))
          /\ UNCHANGED rejected
     ELSE /\ rejected' = rejected \cup ToSet(Arriving(n))
          /\ UNCHANGED <<queue, accepted>>
  /\ UNCHANGED <<request, file>>

\* With a spool, and for a datagram, the events are taken one after the other.
SubmitStepwise(t, n) ==
  /\ spool \/ t = "udp"
  /\ request' = [request EXCEPT ![t] = [todo |-> Arriving(n), all |-> ToSet(Arriving(n))]]
  /\ UNCHANGED <<queue, accepted, rejected, file>>

Submit(t, n) ==
  /\ up
  /\ request[t] = NoRequest
  /\ n \in 1 .. MaxRequest
  /\ submitted + n <= MaxEvents
  /\ submitted' = submitted + n
  /\ (t = "http" /\ SubmitToQueue(n)) \/ SubmitStepwise(t, n)
  /\ UNCHANGED <<spool, up, replay, batcher, lost, failed, faults>>

\* A datagram without a spool: try_send, an event that does not fit is dropped and counted.
QueueDatagramEvent ==
  /\ up /\ ~spool
  /\ request["udp"].todo # <<>>
  /\ LET e == Head(request["udp"].todo) IN
       IF Fits(1)
       THEN queue' = Append(queue, e) /\ accepted' = accepted \cup {e}
       ELSE UNCHANGED <<queue, accepted>>
  /\ request' = IF Len(request["udp"].todo) = 1 THEN [request EXCEPT !["udp"] = NoRequest]
                ELSE [request EXCEPT !["udp"].todo = Tail(@)]
  /\ UNCHANGED <<spool, up, submitted, rejected, file, replay, batcher, lost, failed, faults>>

\* persist_spooled_event: write and sync the .tmp file, then rename it to .json.  On an
\* error the rest of the body is refused and the files written before stay.
PersistEvent(t) ==
  /\ up /\ spool
  /\ request[t].todo # <<>>
  /\ LET e == Head(request[t].todo) IN
     \/ /\ file[e] = "none"
        /\ file' = [file EXCEPT ![e] = "tmp"]
        /\ UNCHANGED <<request, rejected, faults>>
     \/ /\ file[e] = "tmp"
        /\ file' = [file EXCEPT ![e] = "json"]
        /\ request' = [request EXCEPT ![t].todo = Tail(@)]
        /\ UNCHANGED <<rejected, faults>>
     \/ /\ Fault
        /\ request' = [request EXCEPT ![t] = NoRequest]
        /\ rejected' = IF t = "http" THEN rejected \cup request[t].all ELSE rejected
        /\ UNCHANGED file
  /\ UNCHANGED <<spool, up, submitted, accepted, queue, replay, batcher, lost, failed>>

\* Every event of the body has its file: count it and answer.
AnswerSpooled(t) ==
  /\ up /\ spool
  /\ request[t].todo = <<>> /\ request[t].all # {}
  /\ accepted' = accepted \cup request[t].all
  /\ request' = [request EXCEPT ![t] = NoRequest]
  /\ UNCHANGED <<spool, up, submitted, rejected, file, queue, replay, batcher, lost, failed, faults>>

-----------------------------------------------------------------------------
(* Spool replayer: run_spool_replayer and replay_spool_once *)

\* Mutant of Ready: files that are claimed already are listed again.
ReadyOrInflight == {e \in Events : file[e] \in {"json", "inflight"}}

Ready == {e \in Events : file[e] = "json"}

ListReady ==
  /\ up /\ spool
  /\ listing = {} /\ held = NoEvent
  /\ Ready # {}
  /\ listing' = Ready
  /\ UNCHANGED <<spool, up, intake, file, queue, held, batcher, lost, failed, faults>>

\* take_spooled_event.  Whatever fails, the renaming, the reading or the parsing, the
\* file is quarantined, if that renaming works.
TakeFile(e) ==
  /\ listing' = listing \ {e}
  /\ \/ /\ file' = [file EXCEPT ![e] = "inflight"]
        /\ held' = e
        /\ UNCHANGED <<failed, faults>>
     \/ /\ Fault
        /\ \E ext \in {"bad", "json", "inflight"} : file' = [file EXCEPT ![e] = ext]
        /\ failed' = failed \cup {e}
        /\ UNCHANGED held
  /\ UNCHANGED <<spool, up, intake, queue, batcher, lost>>

\* The oldest of the listed files is taken first.
Take ==
  /\ up
  /\ held = NoEvent
  /\ \E e \in listing : (\A f \in listing : e <= f) /\ TakeFile(e)

\* tx.send waits for room in the channel.
Enqueue ==
  /\ up
  /\ held # NoEvent
  /\ Fits(1)
  /\ queue' = Append(queue, held)
  /\ held' = NoEvent
  /\ UNCHANGED <<spool, up, intake, file, listing, batcher, lost, failed, faults>>

-----------------------------------------------------------------------------
(* Batcher and sender: run_batcher, flush_batch, send_with_retry *)

Bytes(s) == FoldSeq(LAMBDA e, sum : Size[e] + sum, 0, s)

\* The batch is flushed before event e is pushed.
Overflows(e) ==
  /\ batch # <<>>
  /\ Len(batch) >= BatchMaxEvents \/ Bytes(batch) + Size[e] > BatchMaxBytes

IsFull(s) == Len(s) >= BatchMaxEvents \/ Bytes(s) >= BatchMaxBytes

\* A flush takes the whole batch.
Flush(s) ==
  /\ sending' = s
  /\ phase' = "post"
  /\ attempt' = 0
  /\ batch' = <<>>

\* Push an event, and flush a batch it fills.
Push(e) ==
  LET filled == Append(batch, e) IN
  \/ IsFull(filled) /\ Flush(filled)
  \/ ~IsFull(filled) /\ batch' = filled /\ UNCHANGED <<sending, phase, attempt>>

\* Mutant of Carry: the flush before the push forgets the event just received.
CarryForgotten(e) == UNCHANGED carry

\* The event received waits while the batch it does not fit in is flushed.
Carry(e) == carry' = e

Receive ==
  /\ up
  /\ phase = "idle" /\ carry = NoEvent
  /\ queue # <<>>
  /\ queue' = Tail(queue)
  /\ LET e == Head(queue) IN
     \/ Overflows(e) /\ Flush(batch) /\ Carry(e)
     \/ ~Overflows(e) /\ Push(e) /\ UNCHANGED carry
  /\ UNCHANGED <<spool, up, intake, file, replay, remote, dropped, lost, failed, faults>>

PushCarried ==
  /\ up
  /\ phase = "idle" /\ carry # NoEvent
  /\ Push(carry)
  /\ carry' = NoEvent
  /\ UNCHANGED <<spool, up, intake, file, queue, replay, remote, dropped, lost, failed, faults>>

\* The flush interval elapsed.
Tick ==
  /\ up
  /\ phase = "idle" /\ carry = NoEvent
  /\ batch # <<>>
  /\ Flush(batch)
  /\ UNCHANGED <<spool, up, intake, file, queue, replay, carry, remote, dropped, lost, failed,
                 faults>>

Received == remote' = [e \in Events |-> remote[e] + IF e \in ToSet(sending) THEN 1 ELSE 0]

\* One post of the batch; without a 2xx answer the ingest API may have received it or not.
Post ==
  /\ up
  /\ phase = "post" /\ attempt < RetryAttempts
  /\ \/ Received /\ phase' = "delete" /\ attempt' = 0 /\ UNCHANGED faults
     \/ Fault /\ (Received \/ UNCHANGED remote) /\ attempt' = attempt + 1 /\ UNCHANGED phase
  /\ UNCHANGED <<spool, up, intake, file, queue, replay, carry, batch, sending, dropped, lost,
                 failed>>

GiveUp ==
  /\ up
  /\ phase = "post" /\ attempt = RetryAttempts
  /\ phase' = "restore"
  /\ attempt' = 0
  /\ dropped' = IF spool THEN dropped ELSE dropped \cup ToSet(sending)
  /\ UNCHANGED <<spool, up, intake, file, queue, replay, carry, batch, sending, remote,
                 lost, failed, faults>>

\* Mutant of Outcome: the files of a batch that was given up are deleted too.
OutcomeDeleted == "none"

\* The files of a delivered batch are deleted, those of a batch given up become ready again.
Outcome == IF phase = "delete" THEN "none" ELSE "json"

\* delete_spooled_events and restore_spooled_events, one file after the other; an error is
\* logged and leaves the file as it is.
SettleFile ==
  /\ up
  /\ phase \in {"delete", "restore"}
  /\ LET e == Head(sending) IN
     \/ ~spool /\ UNCHANGED <<file, failed, faults>>
     \/ spool /\ file' = [file EXCEPT ![e] = Outcome] /\ UNCHANGED <<failed, faults>>
     \/ spool /\ Fault /\ failed' = failed \cup {e} /\ UNCHANGED file
  /\ sending' = Tail(sending)
  /\ phase' = IF Len(sending) = 1 THEN "idle" ELSE phase
  /\ UNCHANGED <<spool, up, intake, queue, replay, carry, batch, attempt, remote, dropped, lost>>

-----------------------------------------------------------------------------
(* Exit and restart *)

\* Events in memory.  While a batch is settled its remaining events still count.
InMemory == ToSet(queue) \cup ToSet(batch) \cup ToSet(sending) \cup ({held, carry} \ {NoEvent})

\* Nothing in memory is flushed, whatever ended the process.
Exit ==
  /\ up
  /\ Fault
  /\ up' = FALSE
  /\ request' = [t \in Transports |-> NoRequest]
  /\ queue' = <<>>
  /\ listing' = {}
  /\ held' = NoEvent
  /\ carry' = NoEvent
  /\ batch' = <<>>
  /\ sending' = <<>>
  /\ phase' = "idle"
  /\ attempt' = 0
  /\ lost' = IF spool THEN lost ELSE lost \cup InMemory
  /\ UNCHANGED <<spool, submitted, file, remote, accepted, rejected, dropped, failed>>

\* recover_spool_dir: claimed files are ready again; .tmp and .bad files stay.
Recovered(ext) == IF ext = "inflight" THEN "json" ELSE ext

Restart ==
  /\ ~up
  /\ up' = TRUE
  /\ file' = [e \in Events |-> Recovered(file[e])]
  /\ UNCHANGED <<spool, intake, queue, replay, batcher, lost, failed, faults>>

Intake(t) == QueueDatagramEvent \/ PersistEvent(t) \/ AnswerSpooled(t)
Replayer == ListReady \/ Take \/ Enqueue
Batcher == Receive \/ PushCarried \/ Post \/ GiveUp \/ SettleFile

Next ==
  \/ \E t \in Transports, n \in 1 .. MaxRequest : Submit(t, n)
  \/ \E t \in Transports : Intake(t)
  \/ Replayer
  \/ Batcher
  \/ Tick
  \/ Exit
  \/ Restart

Spec == Init /\ [][Next]_vars

\* Each task keeps running, the ticker ticks and the process is started again.
Fairness ==
  /\ \A t \in Transports : WF_vars(Intake(t))
  /\ WF_vars(Replayer) /\ WF_vars(Batcher) /\ WF_vars(Tick) /\ WF_vars(Restart)

FairSpec == Spec /\ Fairness

-----------------------------------------------------------------------------
(* Properties *)

TypeOK ==
  /\ spool \in BOOLEAN /\ up \in BOOLEAN
  /\ submitted \in 0 .. MaxEvents
  /\ request \in [Transports -> [todo : Seq(Events), all : SUBSET Events]]
  /\ file \in [Events -> {"none", "tmp", "json", "inflight", "bad"}]
  /\ {queue, batch, sending} \subseteq Seq(Events)
  /\ Len(queue) <= QueueCapacity
  /\ listing \subseteq Events
  /\ {held, carry} \subseteq Events \cup {NoEvent}
  /\ phase \in {"idle", "post", "delete", "restore"}
  /\ phase = "idle" <=> sending = <<>>
  /\ attempt \in 0 .. RetryAttempts
  /\ remote \in [Events -> Nat]
  /\ accepted \cup rejected \cup dropped \cup lost \cup failed \subseteq Events
  /\ faults \in Nat

\* Where an event is in memory.
Places == [queue |-> ToSet(queue), batch |-> ToSet(batch), sending |-> ToSet(sending),
           replayer |-> {held} \ {NoEvent}, batcher |-> {carry} \ {NoEvent}]

\* Each event is in one place in memory at most, and with a spool only while its
\* file is claimed: no two batches carry the same file, and the replayer lists
\* only files that nothing in memory owns.
ClaimsAreExclusive ==
  /\ IsInjective(queue) /\ IsInjective(batch) /\ IsInjective(sending)
  /\ \A p, q \in DOMAIN Places : p # q => Places[p] \cap Places[q] = {}
  /\ spool => \A e \in InMemory : file[e] = "inflight"
  /\ \A e \in listing : file[e] = "json"

\* An accepted event was received by the ingest API, or its file is still on disk,
\* or without a spool it is in memory or its loss was reported or came with the exit.
NoAcceptedEventVanishes ==
  \A e \in accepted :
    \/ remote[e] > 0
    \/ spool /\ file[e] \in {"json", "inflight", "bad"}
    \/ ~spool /\ e \in InMemory \cup dropped \cup lost

\* Without a spool a body answered 503 was not forwarded in part: the client may
\* send it again.
RejectedIsNotForwarded ==
  ~spool => \A e \in rejected : e \notin InMemory /\ remote[e] = 0

\* What a client was answered stays true.
AnswersAreTrue == NoAcceptedEventVanishes /\ RejectedIsNotForwarded

\* An event is received more than once only as often as something failed.
DuplicatesHaveFaults == \A e \in Events : remote[e] <= 1 + faults

\* An accepted spooled event is delivered, unless an operation on its file failed:
\* again and again the spool holds no other accepted event.
SpooledIsDelivered == spool ~> \A e \in accepted : remote[e] > 0 \/ e \in failed
=============================================================================
