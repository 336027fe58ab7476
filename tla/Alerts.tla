------------------------------- MODULE Alerts -------------------------------
(***************************************************************************)
(* apps/alerts: the alert worker matches the normalized topic against the  *)
(* alert rules, deduplicates in memory and records alerts and notification *)
(* rows in ClickHouse; the notifier, a process of its own, polls the rows  *)
(* that are due, posts the webhooks and inserts the outcomes.              *)
(*                                                                         *)
(* Kafka, ClickHouse and the webhooks are external.  A call that returns   *)
(* an error may have taken effect or not.  alert_notifications is read     *)
(* with FINAL: of the rows of one notification the newest updated_at       *)
(* counts, and of equally new ones the last inserted.                      *)
(***************************************************************************)
EXTENDS Naturals, Sequences, FiniteSetsExt, SequencesExt, BagsExt

CONSTANTS
  Rules,                 \* loaded alert rules, each with one webhook
  Keys,                  \* values of their dedupe keys
  Window,                \* Window[r]: dedupe_seconds, in ticks
  MinRetention,          \* the 60 seconds prune_dedupe keeps at least
  MaxDedupeKeys,         \* NANOTRACE_ALERTS_MAX_DEDUPE_KEYS
  MaxAttempts,           \* max_attempts of the webhooks
  NotifyBatch,           \* NANOTRACE_ALERTS_NOTIFY_BATCH_SIZE
  Messages,              \* the messages the normalizer may publish
  MaxLog,                \* bound: messages published
  MaxTime,               \* bound: ticks
  MaxFaults              \* bound: failed calls and crashes

ASSUME LimitsAssumption ==
  /\ Window \in [Rules -> Nat]
  /\ MinRetention \in Nat /\ MaxDedupeKeys \in Nat /\ MaxAttempts \in Nat \ {0}
  /\ NotifyBatch \in Nat \ {0} /\ MaxLog \in Nat /\ MaxTime \in Nat /\ MaxFaults \in Nat

\* What evaluating a message against the rules comes to, in order: a rule matches an
\* event with a dedupe key, or the evaluation fails.
Match == [rule : Rules, key : Keys]
Failure == [rule |-> "none", key |-> "none"]
ASSUME MessagesAssumption == Messages \subseteq Seq(Match \cup {Failure})

VARIABLES
  now,                   \* the clock of both processes
  log,                   \* the normalized topic, one partition
  committed,             \* the worker group's offset
  position,              \* the offset the worker fetches next
  pc,                    \* where the worker is
  dedupe,                \* its dedupe map: tokens and when they were inserted
  evaluated,             \* matches of the current message it has evaluated
  fired,                 \* what the current message is to insert
  alerts,                \* alert_events: alerts by match and token
  notes,                 \* alert_notifications by match and token
  npc,                   \* where the notifier is
  todo,                  \* rows of its batch it has still to post
  updates,               \* rows of its batch it has posted
  skipped,               \* history: messages an attempt returned an error for
  quiet,                 \* history: matches an attempt suppressed
  raised,                \* history, a bag: the tokens this process raised alerts for
  posts,                 \* history, a bag: the notifications posted
  received,              \* history, a bag: the notifications webhooks received
  faults                 \* faults so far, at most MaxFaults

queue == <<log, committed, position>>
matcher == <<queue, pc, evaluated, dedupe, fired, alerts, skipped, quiet, raised>>
notifier == <<npc, todo, updates, posts, received>>
vars == <<now, matcher, notes, notifier, faults>>

Offsets == 0 .. Len(log) - 1

\* The message the worker processes is the last it fetched.
cur == position - 1

\* dedupe_bucket and dedupe_token.
Bucket(r) == IF Window[r] = 0 THEN now ELSE now \div Window[r]
Token(x) == <<x.rule, x.key, Bucket(x.rule)>>

\* A row of alert_notifications; its id is that of the match and the token.
Row(id, status, attempt) ==
  [id |-> id, status |-> status, attempt |-> attempt, at |-> now]

\* Mutant of Supersedes: of equally new rows the first inserted counts.
SupersedesOlder(row, old) == row.at > old.at

\* FINAL: whether an inserted row counts and not one of the same notification before it.
Supersedes(row, old) == row.at >= old.at

\* INSERT of a row for each of several notifications.
Insert(rows, new) ==
  LET newest == {row \in new : \A old \in rows : old.id = row.id => Supersedes(row, old)} IN
  {old \in rows : \A row \in newest : row.id # old.id} \cup newest

Init ==
  /\ now = 0
  /\ log = <<>>
  /\ committed = 0
  /\ position = 0
  /\ pc = "recv"
  /\ evaluated = 0
  /\ dedupe = {}
  /\ fired = {}
  /\ alerts = {}
  /\ notes = {}
  /\ npc = "poll"
  /\ todo = {}
  /\ updates = {}
  /\ skipped = {}
  /\ quiet = {}
  /\ raised = EmptyBag
  /\ posts = EmptyBag
  /\ received = EmptyBag
  /\ faults = 0

Fault == faults < MaxFaults /\ faults' = faults + 1

Tick ==
  /\ now < MaxTime
  /\ now' = now + 1
  /\ UNCHANGED <<matcher, notes, notifier, faults>>

Publish ==
  /\ Len(log) < MaxLog
  /\ \E m \in Messages : log' = Append(log, m)
  /\ UNCHANGED <<now, committed, position, pc, evaluated, dedupe, fired, alerts, skipped, quiet,
                 raised, notes, notifier, faults>>

-----------------------------------------------------------------------------
(* The alert worker *)

\* Mutant of Pruned: entries are kept for the rule's own window only.
PrunedByWindow(entries, r) ==
  IF Cardinality(entries) <= MaxDedupeKeys THEN entries
  ELSE {d \in entries : now - d.at <= Window[r]}

\* prune_dedupe: beyond the limit, entries older than the window of the rule at hand
\* and MinRetention are forgotten, whichever rule they belong to.
Pruned(entries, r) ==
  IF Cardinality(entries) <= MaxDedupeKeys THEN entries
  ELSE {d \in entries : now - d.at <= Max({Window[r], MinRetention})}

Suppressed(entries, x) ==
  \E d \in entries : d.token = Token(x) /\ now - d.at < Window[x.rule]

\* consumer.recv.
Receive ==
  /\ pc = "recv"
  /\ position < Len(log)
  /\ position' = position + 1
  /\ pc' = "match"
  /\ UNCHANGED <<now, log, committed, evaluated, dedupe, fired, alerts, skipped, quiet, raised, notes,
                 notifier, faults>>

\* evaluate_alert on the next match of the message.  The clock is read for each, and
\* the dedupe map is changed at once.
Evaluate ==
  LET i == evaluated + 1
      x == log[cur + 1][i]
      kept == {d \in dedupe : d.token # Token(x)} IN
  /\ pc = "match"
  /\ i \in DOMAIN log[cur + 1]
  /\ x # Failure
  /\ evaluated' = i
  /\ IF Suppressed(dedupe, x)
     THEN /\ quiet' = quiet \cup {<<cur, i>>}
          /\ UNCHANGED <<dedupe, fired, raised>>
     ELSE /\ dedupe' = Pruned(kept \cup {[token |-> Token(x), at |-> now]}, x.rule)
          /\ fired' = fired \cup {Row(<<<<cur, i>>, Token(x)>>, "pending", 0)}
          /\ raised' = BagAdd(raised, Token(x))
          /\ UNCHANGED quiet
  /\ UNCHANGED <<now, queue, pc, alerts, skipped, notes, notifier, faults>>

\* The evaluation returns an error: what was entered in the dedupe map stays there.
EvaluationFails ==
  /\ pc = "match"
  /\ evaluated + 1 \in DOMAIN log[cur + 1]
  /\ log[cur + 1][evaluated + 1] = Failure
  /\ pc' = "recv"
  /\ evaluated' = 0
  /\ fired' = {}
  /\ skipped' = skipped \cup {cur}
  /\ UNCHANGED <<now, queue, dedupe, alerts, quiet, raised, notes, notifier, faults>>

\* The message is evaluated; without alerts nothing is inserted.
FinishMatching ==
  /\ pc = "match"
  /\ evaluated = Len(log[cur + 1])
  /\ pc' = IF fired = {} THEN "commit" ELSE "alerts"
  /\ evaluated' = 0
  /\ UNCHANGED <<now, queue, dedupe, fired, alerts, skipped, quiet, raised, notes, notifier,
                 faults>>

\* process_message returned an error: it is logged and the loop goes on.
Skip ==
  /\ Fault
  /\ pc' = "recv"
  /\ fired' = {}
  /\ skipped' = skipped \cup {cur}

\* Mutant of RecordAlerts: the error of the insert is not looked at.
RecordAlertsUnchecked ==
  /\ pc = "alerts"
  /\ pc' = "notifications"
  /\ alerts' \in {alerts, alerts \cup {row.id : row \in fired}}
  /\ UNCHANGED <<now, queue, evaluated, dedupe, fired, skipped, quiet, raised, notes, notifier, faults>>

\* The insert into alert_events.
RecordAlerts ==
  LET insert == alerts' = alerts \cup {row.id : row \in fired} IN
  /\ pc = "alerts"
  /\ \/ insert /\ pc' = "notifications" /\ UNCHANGED <<fired, skipped, faults>>
     \/ Skip /\ (insert \/ UNCHANGED alerts)
  /\ UNCHANGED <<now, queue, evaluated, dedupe, quiet, raised, notes, notifier>>

\* The insert of the pending rows into alert_notifications.
RecordNotifications ==
  LET insert == notes' = Insert(notes, fired) IN
  /\ pc = "notifications"
  /\ \/ insert /\ pc' = "commit" /\ fired' = {} /\ UNCHANGED <<skipped, faults>>
     \/ Skip /\ (insert \/ UNCHANGED notes)
  /\ UNCHANGED <<now, queue, evaluated, dedupe, alerts, quiet, raised, notifier>>

\* Mutant of Acknowledge: the message after this one is acknowledged too.
AcknowledgeNext == committed' = cur + 2

Acknowledge == committed' = cur + 1

CommitMessage ==
  /\ pc = "commit"
  /\ Acknowledge
  /\ pc' = "recv"
  /\ UNCHANGED <<now, log, position, evaluated, dedupe, fired, alerts, skipped, quiet, raised, notes,
                 notifier, faults>>

\* The consumer leaves the group and joins it again between two messages: it fetches
\* from the committed offset, and the process remembers its dedupe map.
Rejoin ==
  /\ pc = "recv"
  /\ Fault
  /\ position # committed
  /\ position' = committed
  /\ UNCHANGED <<now, log, committed, pc, evaluated, dedupe, fired, alerts, skipped, quiet, raised,
                 notes, notifier>>

\* The worker ends, also by a failing commit, and is started again.
CrashWorker ==
  /\ Fault
  /\ (pc = "commit" /\ Acknowledge) \/ UNCHANGED committed
  /\ pc' = "recv"
  /\ position' = committed'
  /\ dedupe' = {}
  /\ fired' = {}
  /\ raised' = EmptyBag
  /\ evaluated' = 0
  /\ UNCHANGED <<now, log, alerts, skipped, quiet, notes, notifier>>

-----------------------------------------------------------------------------
(* The notifier *)

\* Mutant of Due: rows to retry are not polled.
DueOnce == {row \in notes : row.status = "pending" /\ row.attempt < MaxAttempts}

\* The WHERE clause of the poll; the back-off of retry_at elapses at any time.
Due == {row \in notes : row.status \in {"pending", "retry"} /\ row.attempt < MaxAttempts}

Poll ==
  /\ npc = "poll"
  /\ \E rows \in SUBSET Due :
       /\ rows # {} /\ Cardinality(rows) <= NotifyBatch
       /\ todo' = rows
  /\ npc' = "post"
  /\ UNCHANGED <<now, matcher, notes, updates, posts, received, faults>>

Outcome(row, delivered) ==
  IF delivered THEN "delivered"
  ELSE IF row.attempt + 1 >= MaxAttempts THEN "failed" ELSE "retry"

\* deliver_notification: updated_at is taken before the post, which takes time.
Post ==
  /\ npc = "post"
  /\ \E row \in todo, delivered \in BOOLEAN :
       /\ todo' = todo \ {row}
       /\ updates' = updates \cup {Row(row.id, Outcome(row, delivered), row.attempt + 1)}
       /\ posts' = BagAdd(posts, row.id)
       /\ IF delivered THEN UNCHANGED faults ELSE Fault
       /\ \/ received' = BagAdd(received, row.id)
          \/ ~delivered /\ UNCHANGED received
       /\ npc' = IF todo = {row} THEN "update" ELSE "post"
  /\ UNCHANGED <<now, matcher, notes>>

\* The batch is over: its rows are inserted at once, or the error is logged.
InsertUpdates ==
  LET insert == notes' = Insert(notes, updates) IN
  /\ npc = "update"
  /\ \/ insert /\ UNCHANGED faults
     \/ Fault /\ (insert \/ UNCHANGED notes)
  /\ npc' = "poll"
  /\ updates' = {}
  /\ UNCHANGED <<now, matcher, todo, posts, received>>

CrashNotifier ==
  /\ npc # "poll"
  /\ Fault
  /\ npc' = "poll"
  /\ todo' = {}
  /\ updates' = {}
  /\ UNCHANGED <<now, matcher, notes, posts, received>>

Worker ==
  \/ Receive \/ Evaluate \/ EvaluationFails \/ FinishMatching
  \/ RecordAlerts \/ RecordNotifications \/ CommitMessage
Notifier == Poll \/ Post \/ InsertUpdates

Next ==
  \/ Tick \/ Publish
  \/ Worker \/ Rejoin \/ CrashWorker
  \/ Notifier \/ CrashNotifier

Spec == Init /\ [][Next]_vars

\* The notifier keeps running; nothing is assumed of the worker.
Fairness == WF_vars(Notifier)

FairSpec == Spec /\ Fairness

-----------------------------------------------------------------------------
(* Properties *)

\* How often a bag holds an element.
Copies(e, bag) == IF e \in DOMAIN bag THEN bag[e] ELSE 0

Matches(o) == {<<o, i>> : i \in 1 .. Len(log[o + 1])}

AllMatches == UNION {Matches(o) : o \in Offsets}

Ids == AllMatches \X (Rules \X Keys \X Nat)

TypeOK ==
  /\ now \in 0 .. MaxTime
  /\ log \in Seq(Messages)
  /\ committed \in 0 .. Len(log) /\ position \in 0 .. Len(log)
  /\ pc \in {"recv", "match", "alerts", "notifications", "commit"}
  /\ pc # "recv" => cur \in Offsets
  /\ evaluated \in Nat
  /\ IF pc = "match" THEN evaluated <= Len(log[cur + 1]) ELSE evaluated = 0
  /\ pc \in {"alerts", "notifications"} => fired # {}
  /\ pc \in {"recv", "commit"} => fired = {}
  /\ \A d \in dedupe : d.token \in Rules \X Keys \X Nat /\ d.at \in 0 .. now
  /\ alerts \subseteq Ids
  /\ \A row \in fired \cup notes \cup todo \cup updates :
       /\ row.id \in Ids
       /\ row.status \in {"pending", "retry", "delivered", "failed"}
       /\ row.attempt \in 0 .. MaxAttempts
       /\ row.at \in 0 .. now
  /\ \A row \in notes, other \in notes : row.id = other.id => row = other
  /\ npc \in {"poll", "post", "update"}
  /\ todo # {} <=> npc = "post"
  /\ skipped \subseteq Offsets /\ quiet \subseteq AllMatches
  /\ IsABag(raised) /\ BagToSet(raised) \subseteq Rules \X Keys \X Nat
  /\ IsABag(posts) /\ IsABag(received) /\ BagToSet(received) \subseteq BagToSet(posts)
  /\ faults \in Nat

\* Nobody is notified of an alert that is not in alert_events.
NotificationsFollowAlerts == \A row \in notes : row.id \in alerts

\* A notification is given up only after max_attempts posts, although its row is
\* written by two processes with timestamps of their own.
FailedIsExhausted ==
  \A row \in notes : row.status = "failed" => Copies(row.id, posts) >= MaxAttempts

\* A webhook receives a notification once, and once more for every fault.
DuplicatesHaveFaults ==
  \A row \in notes : Copies(row.id, received) <= 1 + faults

\* Retries of a webhook are neither given up early nor repeated without a fault.
PostsAreCounted == FailedIsExhausted /\ DuplicatesHaveFaults

\* A process raises one alert per dedupe key and bucket, the pruning of other rules
\* notwithstanding, as long as the window is not longer than what pruning always keeps.
ShortWindowsHold ==
  \A token \in BagToSet(raised) :
    Window[token[1]] \in 1 .. MinRetention => Copies(token, raised) = 1

\* A message is settled when each of its matches was suppressed or is recorded with
\* its notification.
Recorded(x) == \E row \in notes : row.id[1] = x /\ row.id \in alerts

Settled ==
  {o \in Offsets : /\ \A i \in DOMAIN log[o + 1] : log[o + 1][i] # Failure
                   /\ \A x \in Matches(o) : x \in quiet \/ Recorded(x)}

Contract == INSTANCE OffsetContract WITH
  Partitions <- {"normalized"},
  length <- [p \in {"normalized"} |-> Len(log)],
  settled <- {"normalized"} \X Settled,
  abandoned <- {"normalized"} \X skipped,
  committed <- [p \in {"normalized"} |-> committed]

\* The alert worker implements the consumer contract.
ImplementsContract == Contract!Spec

\* Every notification is delivered or given up: once the stream (bounded by MaxLog) and
\* the faults end, none stays open.
NotificationsAreAnswered ==
  []<>(\A row \in notes : row.status \in {"delivered", "failed"})
=============================================================================
