----------------------------- MODULE AlertsProofs -----------------------------
(***************************************************************************)
(* Theorems about Alerts, for any rules, windows, keys and messages, any   *)
(* limits of attempts and batches, any number of ticks and faults.         *)
(***************************************************************************)
EXTENDS Alerts, SequenceTheorems, TLAPS

-----------------------------------------------------------------------------
(* An insert only adds the rows it is given, and loses no notification. *)

LEMMA InsertAdds ==
  ASSUME NEW rows, NEW new, NEW row \in Insert(rows, new)
  PROVE  row \in rows \/ row \in new
BY DEF Insert

LEMMA InsertKeeps ==
  ASSUME NEW rows, NEW new
  PROVE  /\ \A row \in rows : \E kept \in Insert(rows, new) : kept.id = row.id
         /\ \A row \in new : \E kept \in Insert(rows, new) : kept.id = row.id
<1> DEFINE newest == {row \in new : \A old \in rows : old.id = row.id => Supersedes(row, old)}
<1>1. Insert(rows, new) = {old \in rows : \A row \in newest : row.id # old.id} \cup newest
  BY DEF Insert
<1>2. ASSUME NEW row \in rows PROVE \E kept \in Insert(rows, new) : kept.id = row.id
  BY <1>1
<1>3. ASSUME NEW row \in new PROVE \E kept \in Insert(rows, new) : kept.id = row.id
  <2>1. CASE row \in newest
    BY <1>1, <2>1
  <2>2. CASE row \notin newest
    <3>1. \E old \in rows : old.id = row.id
      BY <2>2
    <3>2. QED
      BY <1>2, <3>1
  <2>3. QED
    BY <2>1, <2>2
<1>4. QED
  BY <1>2, <1>3

\* No two rows are of one notification.
Unique(rows) == \A row \in rows, other \in rows : row.id = other.id => row = other

LEMMA InsertUnique ==
  ASSUME NEW rows, NEW new, Unique(rows), Unique(new)
  PROVE  Unique(Insert(rows, new))
BY DEF Insert, Unique

LEMMA NewRow ==
  ASSUME NEW id, NEW status, NEW attempt
  PROVE  LET row == Row(id, status, attempt)
         IN  row.id = id /\ row.status = status /\ row.attempt = attempt /\ row.at = now
BY DEF Row

-----------------------------------------------------------------------------
(* Bags. *)

LEMMA BagAddCopies ==
  ASSUME NEW bag, \A e \in DOMAIN bag : bag[e] \in Nat, NEW x
  PROVE  /\ \A e \in DOMAIN BagAdd(bag, x) : BagAdd(bag, x)[e] \in Nat
         /\ Copies(x, BagAdd(bag, x)) = Copies(x, bag) + 1
         /\ \A e : Copies(e, bag) \in Nat /\ Copies(e, bag) <= Copies(e, BagAdd(bag, x))
         /\ \A e : e # x => Copies(e, BagAdd(bag, x)) = Copies(e, bag)
         /\ DOMAIN BagAdd(bag, x) = DOMAIN bag \cup {x}
BY DEF BagAdd, Copies

LEMMA BagType ==
  ASSUME NEW bag, IsABag(bag)
  PROVE  /\ \A e \in DOMAIN bag : bag[e] \in Nat /\ bag[e] > 0
         /\ BagToSet(bag) = DOMAIN bag
BY DEF IsABag, BagToSet

LEMMA BagAddType ==
  ASSUME NEW bag, IsABag(bag), NEW x
  PROVE  IsABag(BagAdd(bag, x)) /\ BagToSet(BagAdd(bag, x)) = BagToSet(bag) \cup {x}
<1>1. \A e \in DOMAIN bag : bag[e] \in Nat /\ bag[e] > 0
  BY BagType
<1>2. CASE x \in DOMAIN bag
  BY <1>1, <1>2 DEF IsABag, BagToSet, BagAdd
<1>3. CASE x \notin DOMAIN bag
  BY <1>1, <1>3 DEF IsABag, BagToSet, BagAdd
<1>4. QED
  BY <1>2, <1>3

LEMMA EmptyBagType == IsABag(EmptyBag) /\ BagToSet(EmptyBag) = {} /\ DOMAIN EmptyBag = {}
BY DEF EmptyBag, SetToBag, IsABag, BagToSet

-----------------------------------------------------------------------------
(* Type correctness. *)

Fits(row) ==
  /\ row.id \in Ids
  /\ row.status \in {"pending", "retry", "delivered", "failed"}
  /\ row.attempt \in 0 .. MaxAttempts
  /\ row.at \in 0 .. now

\* The rows of a batch are of different notifications, and the pending rows of the
\* current message of different matches.
Apart ==
  /\ Unique(fired) /\ Unique(todo) /\ Unique(updates)
  /\ \A t \in todo, u \in updates : t.id # u.id
  /\ npc = "poll" => updates = {}
  /\ \A row \in todo : row.attempt < MaxAttempts
  /\ \A row \in fired : /\ row.id[1][1] = cur
                        /\ pc = "match" => row.id[1][2] <= evaluated

TypeInv == TypeOK /\ Apart

LEMMA LogGrows ==
  ASSUME log \in Seq(Messages), NEW m \in Messages, log' = Append(log, m)
  PROVE  /\ log' \in Seq(Messages) /\ Len(log') = Len(log) + 1 /\ Offsets \subseteq Offsets'
         /\ \A o \in Offsets : log'[o + 1] = log[o + 1]
         /\ AllMatches \subseteq AllMatches' /\ Ids \subseteq Ids'
<1>1. /\ log' \in Seq(Messages) /\ Len(log') = Len(log) + 1 /\ Len(log) \in Nat
      /\ \A i \in 1 .. Len(log) : log'[i] = log[i]
  OBVIOUS
<1>2. Offsets \subseteq Offsets'
  BY <1>1 DEF Offsets
<1>3. \A o \in Offsets : log'[o + 1] = log[o + 1]
  BY <1>1 DEF Offsets
<1>4. \A o \in Offsets : Matches(o)' = Matches(o)
  BY <1>3 DEF Matches
<1>5. AllMatches \subseteq AllMatches'
  BY <1>2, <1>4 DEF AllMatches
<1>6. QED
  BY <1>1, <1>2, <1>3, <1>5 DEF Ids

\* The message at hand.
LEMMA CurrentType ==
  ASSUME TypeOK, pc # "recv"
  PROVE  /\ cur \in Offsets /\ cur + 1 = position /\ position \in 1 .. Len(log)
         /\ log[cur + 1] \in Seq(Match \cup {Failure})
         /\ \A i \in DOMAIN log[cur + 1] : <<cur, i>> \in AllMatches /\ i \in Nat /\ i >= 1
<1>1. cur \in Offsets /\ position \in 0 .. Len(log) /\ log \in Seq(Messages) /\ Len(log) \in Nat
  BY DEF TypeOK
<1>2. cur + 1 = position /\ position \in 1 .. Len(log)
  BY <1>1 DEF cur, Offsets
<1>3. log[cur + 1] \in Seq(Match \cup {Failure})
  BY <1>1, <1>2, MessagesAssumption
<1>4. \A i \in DOMAIN log[cur + 1] : i \in 1 .. Len(log[cur + 1])
  BY <1>3
<1>5. QED
  BY <1>1, <1>2, <1>3, <1>4 DEF AllMatches, Matches

\* The token of a match.
LEMMA TokenType ==
  ASSUME now \in Nat, NEW x \in Match
  PROVE  /\ Token(x) \in Rules \X Keys \X Nat
         /\ Token(x)[1] = x.rule /\ Token(x)[3] = Bucket(x.rule)
         /\ Window[x.rule] \in Nat
<1>1. x.rule \in Rules /\ x.key \in Keys
  BY DEF Match
<1>2. Window[x.rule] \in Nat
  BY <1>1, LimitsAssumption
<1>3. Bucket(x.rule) \in Nat
  BY <1>2 DEF Bucket
<1>4. QED
  BY <1>1, <1>2, <1>3 DEF Token

\* Failure is none of the matches of any rules.
LEMMA MatchOf == ASSUME NEW x \in Match \cup {Failure}, x # Failure PROVE x \in Match
OBVIOUS

LEMMA InitType == Init => TypeInv
BY EmptyBagType, LimitsAssumption DEF Init, TypeInv, TypeOK, Apart, Unique, Offsets

\* The worker's steps.
LEMMA PublishType ==
  ASSUME TypeInv, Publish
  PROVE  TypeInv'
<1>1. PICK m \in Messages : log' = Append(log, m)
  BY DEF Publish
<1>2. /\ log' \in Seq(Messages) /\ Len(log') = Len(log) + 1 /\ Offsets \subseteq Offsets'
      /\ \A o \in Offsets : log'[o + 1] = log[o + 1]
      /\ AllMatches \subseteq AllMatches' /\ Ids \subseteq Ids'
  BY <1>1, LogGrows DEF TypeInv, TypeOK
<1>3. /\ UNCHANGED <<now, committed, position, pc, evaluated, dedupe, fired, alerts, skipped, quiet,
                     raised, notes, npc, todo, updates, posts, received, faults>>
  BY DEF Publish, notifier
<1>4. committed \in 0 .. Len(log') /\ position \in 0 .. Len(log')
  BY <1>2 DEF TypeInv, TypeOK
<1>5. pc' = "match" => evaluated' <= Len(log'[cur' + 1])
  BY <1>2, <1>3, CurrentType DEF TypeInv, TypeOK, cur
<1>6. pc' # "recv" => cur' \in Offsets'
  BY <1>2, <1>3 DEF TypeInv, TypeOK, cur
<1>7. TypeOK'
  BY <1>2, <1>3, <1>4, <1>5, <1>6 DEF TypeInv, TypeOK
<1>8. Apart'
  BY <1>3 DEF TypeInv, Apart, Unique, cur
<1>9. QED
  BY <1>7, <1>8 DEF TypeInv

LEMMA EvaluateType ==
  ASSUME TypeInv, Evaluate
  PROVE  TypeInv'
<1> DEFINE i == evaluated + 1
           x == log[cur + 1][i]
           id == <<<<cur, i>>, Token(x)>>
           row == Row(id, "pending", 0)
<1>1. /\ pc = "match" /\ i \in DOMAIN log[cur + 1] /\ x # Failure /\ evaluated' = i
      /\ UNCHANGED <<now, log, committed, position, pc, alerts, skipped, notes, npc, todo, updates, posts, received,
                     faults>>
  BY DEF Evaluate, queue, notifier
<1>2. \/ /\ quiet' = quiet \cup {<<cur, i>>} /\ UNCHANGED <<dedupe, fired, raised>>
      \/ /\ dedupe' = Pruned({d \in dedupe : d.token # Token(x)} \cup {[token |-> Token(x), at |-> now]}, x.rule)
         /\ fired' = fired \cup {row}
         /\ raised' = BagAdd(raised, Token(x))
         /\ UNCHANGED quiet
  BY DEF Evaluate
<1>3. /\ cur \in Offsets /\ log[cur + 1] \in Seq(Match \cup {Failure}) /\ <<cur, i>> \in AllMatches /\ i \in Nat
      /\ x \in Match \cup {Failure} /\ i <= Len(log[cur + 1])
  BY <1>1, CurrentType DEF TypeInv
<1>4. now \in Nat
  BY LimitsAssumption DEF TypeInv, TypeOK
<1>5. x \in Match
  BY <1>1, <1>3, MatchOf
<1>6. Token(x) \in Rules \X Keys \X Nat
  BY <1>4, <1>5, TokenType
<1>7. id \in Ids /\ row.id = id /\ row.status = "pending" /\ row.attempt = 0 /\ row.at = now /\ id[1] = <<cur, i>>
  BY <1>3, <1>6, NewRow DEF Ids
<1>8. cur' = cur /\ evaluated \in Nat /\ i = evaluated + 1 /\ Ids' = Ids /\ Offsets' = Offsets /\ AllMatches' = AllMatches
  BY <1>1 DEF TypeInv, TypeOK, cur, Ids, Offsets, AllMatches, Matches
<1> HIDE DEF i, id, row, x
<1>9. \A d \in dedupe' : d.token \in Rules \X Keys \X Nat /\ d.at \in 0 .. now
  <2>1. \A d \in dedupe : d.token \in Rules \X Keys \X Nat /\ d.at \in 0 .. now
    BY DEF TypeInv, TypeOK
  <2>2. [token |-> Token(x), at |-> now].token = Token(x) /\ [token |-> Token(x), at |-> now].at \in 0 .. now
    BY <1>4
  <2>3. QED
    BY <1>2, <1>6, <2>1, <2>2 DEF Pruned
<1>10. IsABag(raised') /\ BagToSet(raised') \subseteq Rules \X Keys \X Nat
  BY <1>2, <1>6, BagAddType DEF TypeInv, TypeOK
<1>11. fired' \subseteq fired \cup {row} /\ quiet' \subseteq quiet \cup {<<cur, i>>}
  BY <1>2
<1>12. \A r \in fired' : Fits(r)
  BY <1>4, <1>7, <1>11, LimitsAssumption DEF TypeInv, TypeOK, Fits
<1>13. TypeOK'
  BY <1>1, <1>3, <1>8, <1>9, <1>10, <1>11, <1>12 DEF TypeInv, TypeOK, Fits
<1>14. \A r \in fired' : r.id[1][1] = cur /\ r.id[1][2] <= i
  <2>1. \A r \in fired : r.id[1][1] = cur /\ r.id[1][2] <= evaluated /\ r.id[1][2] \in Nat
    <3>1. \A r \in fired : r.id[1] \in AllMatches
      BY DEF TypeInv, TypeOK, Ids
    <3>2. \A y \in AllMatches : y[2] \in Nat
      BY DEF AllMatches, Matches
    <3>3. QED
      BY <1>1, <3>1, <3>2 DEF TypeInv, Apart
  <2>2. QED
    BY <1>3, <1>7, <1>8, <1>11, <2>1
<1>15. Unique(fired')
  <2>1. \A r \in fired : r.id # row.id
    <3>1. \A r \in fired : r.id[1][2] <= evaluated
      BY <1>1 DEF TypeInv, Apart
    <3>2. row.id[1][2] = evaluated + 1
      BY <1>7, <1>8
    <3>3. QED
      BY <1>8, <3>1, <3>2
  <2>2. QED
    BY <1>11, <2>1 DEF TypeInv, Apart, Unique
<1>16. QED
  BY <1>1, <1>8, <1>13, <1>14, <1>15 DEF TypeInv, Apart, Unique

\* A step of the worker that leaves the message's evaluation behind.
LEMMA WorkerType ==
  ASSUME TypeInv,
         \/ Receive \/ EvaluationFails \/ FinishMatching \/ RecordAlerts \/ RecordNotifications \/ CommitMessage
         \/ Rejoin \/ CrashWorker
  PROVE  TypeInv'
<1>1. UNCHANGED <<now, log, npc, todo, updates, posts, received>>
  BY DEF Receive, EvaluationFails, FinishMatching, RecordAlerts, RecordNotifications, CommitMessage, Rejoin, CrashWorker,
         queue, notifier
<1>2. Ids' = Ids /\ Offsets' = Offsets /\ AllMatches' = AllMatches
  BY <1>1 DEF Ids, Offsets, AllMatches, Matches
<1>3. /\ committed \in 0 .. Len(log) /\ position \in 0 .. Len(log) /\ Len(log) \in Nat /\ log \in Seq(Messages)
      /\ now \in Nat /\ faults \in Nat
  BY LimitsAssumption DEF TypeInv, TypeOK
<1>4. faults' \in Nat
  BY <1>3 DEF Receive, EvaluationFails, FinishMatching, RecordAlerts, RecordNotifications, CommitMessage, Rejoin,
              CrashWorker, Skip, Fault
<1>5. (fired' = fired \/ fired' = {}) /\ quiet' = quiet
  BY DEF Receive, EvaluationFails, FinishMatching, RecordAlerts, RecordNotifications, CommitMessage, Rejoin, CrashWorker,
         Skip
<1>6. dedupe' \subseteq dedupe /\ raised' \in {raised, EmptyBag}
  BY DEF Receive, EvaluationFails, FinishMatching, RecordAlerts, RecordNotifications, CommitMessage, Rejoin, CrashWorker
<1>7. alerts' \subseteq alerts \cup {row.id : row \in fired}
  BY DEF Receive, EvaluationFails, FinishMatching, RecordAlerts, RecordNotifications, CommitMessage, Rejoin, CrashWorker
<1>8. notes' = notes \/ notes' = Insert(notes, fired)
  BY DEF Receive, EvaluationFails, FinishMatching, RecordAlerts, RecordNotifications, CommitMessage, Rejoin, CrashWorker
<1>9. skipped' \subseteq Offsets
  <2>1. skipped' = skipped \/ (pc # "recv" /\ skipped' = skipped \cup {cur})
    BY DEF Receive, EvaluationFails, FinishMatching, RecordAlerts, RecordNotifications, CommitMessage, Rejoin, CrashWorker,
           Skip
  <2>2. QED
    BY <2>1 DEF TypeInv, TypeOK
<1>10. /\ committed' \in 0 .. Len(log) /\ position' \in 0 .. Len(log)
  <2>1. committed' = committed \/ (pc # "recv" /\ committed' = cur + 1)
    BY DEF Receive, EvaluationFails, FinishMatching, RecordAlerts, RecordNotifications, CommitMessage, Rejoin, CrashWorker,
           Acknowledge, queue
  <2>2. committed' \in 0 .. Len(log)
    BY <1>3, <2>1, CurrentType DEF TypeInv
  <2>3. position' = position \/ position' = committed' \/ (position < Len(log) /\ position' = position + 1)
    BY DEF Receive, EvaluationFails, FinishMatching, RecordAlerts, RecordNotifications, CommitMessage, Rejoin, CrashWorker,
           queue
  <2>4. QED
    BY <1>3, <2>2, <2>3
<1>11. /\ pc' \in {"recv", "match", "alerts", "notifications", "commit"}
       /\ pc' # "recv" => cur' \in Offsets
       /\ evaluated' \in Nat
       /\ IF pc' = "match" THEN evaluated' <= Len(log[cur' + 1]) ELSE evaluated' = 0
       /\ pc' \in {"alerts", "notifications"} => fired' # {}
       /\ pc' \in {"recv", "commit"} => fired' = {}
       /\ \A row \in fired' : row.id[1][1] = cur' /\ (pc' = "match" => row.id[1][2] <= evaluated')
  <2>1. /\ evaluated \in Nat /\ (pc = "match" \/ evaluated = 0)
        /\ (pc \in {"alerts", "notifications"} => fired # {}) /\ (pc \in {"recv", "commit"} => fired = {})
        /\ \A row \in fired : row.id[1][1] = cur /\ (pc = "match" => row.id[1][2] <= evaluated)
        /\ (pc # "recv" => cur \in Offsets)
    BY DEF TypeInv, TypeOK, Apart
  <2>2. CASE Receive
    <3>1. pc' = "match" /\ evaluated' = 0 /\ fired' = {} /\ position' = position + 1 /\ position < Len(log)
      BY <2>1, <2>2 DEF Receive
    <3>2. cur' = position /\ cur' \in Offsets
      BY <1>3, <3>1 DEF cur, Offsets
    <3>3. log[cur' + 1] \in Seq(Match \cup {Failure})
      BY <1>3, <3>1, <3>2, MessagesAssumption
    <3>4. Len(log[cur' + 1]) \in Nat
      BY <3>3
    <3>5. QED
      BY <3>1, <3>2, <3>4
  <2>3. CASE EvaluationFails
    BY <2>3 DEF EvaluationFails
  <2>4. CASE FinishMatching
    BY <2>1, <2>4 DEF FinishMatching, queue, cur
  <2>5. CASE RecordAlerts
    BY <2>1, <2>5 DEF RecordAlerts, Skip, queue, cur
  <2>6. CASE RecordNotifications
    BY <2>1, <2>6 DEF RecordNotifications, Skip, queue, cur
  <2>7. CASE CommitMessage
    BY <2>1, <2>7 DEF CommitMessage
  <2>8. CASE Rejoin
    BY <2>1, <2>8 DEF Rejoin
  <2>9. CASE CrashWorker
    BY <2>9 DEF CrashWorker
  <2>10. QED
    BY <2>2, <2>3, <2>4, <2>5, <2>6, <2>7, <2>8, <2>9
<1>12. \A row \in notes' \cup fired' : Fits(row)
  <2>1. \A row \in notes \cup fired : Fits(row)
    BY DEF TypeInv, TypeOK, Fits
  <2>2. QED
    BY <1>5, <1>8, <2>1, InsertAdds
<1>13. Unique(notes') /\ Unique(fired')
  <2>1. Unique(notes) /\ Unique(fired) /\ Unique({})
    BY DEF TypeInv, TypeOK, Apart, Unique
  <2>2. QED
    BY <1>5, <1>8, <2>1, InsertUnique
<1>14. alerts' \subseteq Ids
  BY <1>7 DEF TypeInv, TypeOK
<1>15. IsABag(raised') /\ BagToSet(raised') \subseteq Rules \X Keys \X Nat
  BY <1>6, EmptyBagType DEF TypeInv, TypeOK
<1>16. TypeOK'
  BY <1>1, <1>2, <1>4, <1>5, <1>6, <1>9, <1>10, <1>11, <1>12, <1>13, <1>14, <1>15 DEF TypeInv, TypeOK, Fits, Unique
<1>17. Apart'
  BY <1>1, <1>11, <1>13 DEF TypeInv, Apart, Unique
<1>18. QED
  BY <1>16, <1>17 DEF TypeInv

LEMMA NotifierType ==
  ASSUME TypeInv, Poll \/ Post \/ InsertUpdates \/ CrashNotifier
  PROVE  TypeInv'
<1>1. UNCHANGED <<now, log, committed, position, pc, evaluated, dedupe, fired, alerts, skipped, quiet, raised>>
  BY DEF Poll, Post, InsertUpdates, CrashNotifier, matcher, queue
<1>2. Ids' = Ids /\ Offsets' = Offsets /\ AllMatches' = AllMatches /\ cur' = cur
  BY <1>1 DEF Ids, Offsets, AllMatches, Matches, cur
<1>3. faults \in Nat /\ faults' \in Nat /\ now \in Nat /\ MaxAttempts \in Nat
  BY LimitsAssumption DEF TypeInv, TypeOK, Poll, Post, InsertUpdates, CrashNotifier, Fault
<1>4. SUFFICES /\ \A row \in notes' \cup todo' \cup updates' : Fits(row)
               /\ Unique(notes') /\ Unique(todo') /\ Unique(updates')
               /\ npc' \in {"poll", "post", "update"}
               /\ todo' # {} <=> npc' = "post"
               /\ \A t \in todo', u \in updates' : t.id # u.id
               /\ npc' = "poll" => updates' = {}
               /\ \A row \in todo' : row.attempt < MaxAttempts
               /\ IsABag(posts') /\ IsABag(received') /\ BagToSet(received') \subseteq BagToSet(posts')
  <2>1. TypeOK'
    BY <1>1, <1>2, <1>3, <1>4 DEF TypeInv, TypeOK, Fits, Unique
  <2>2. Apart'
    BY <1>1, <1>2, <1>4 DEF TypeInv, Apart, Unique
  <2>3. QED
    BY <2>1, <2>2 DEF TypeInv
<1>5. /\ \A row \in notes \cup todo \cup updates : Fits(row)
      /\ Unique(notes) /\ Unique(todo) /\ Unique(updates)
      /\ todo # {} <=> npc = "post"
      /\ \A t \in todo, u \in updates : t.id # u.id
      /\ \A row \in todo : row.attempt < MaxAttempts
      /\ IsABag(posts) /\ IsABag(received) /\ BagToSet(received) \subseteq BagToSet(posts)
      /\ npc = "poll" => updates = {}
      /\ npc \in {"poll", "post", "update"}
  BY DEF TypeInv, TypeOK, Apart, Fits, Unique
<1>6. CASE Poll
  <2>1. /\ todo' \subseteq Due /\ todo' # {} /\ npc' = "post" /\ npc = "poll"
        /\ UNCHANGED <<notes, updates, posts, received>>
    BY <1>6 DEF Poll
  <2>2. QED
    BY <1>5, <2>1 DEF Due, Unique
<1>7. CASE Post
  <2>1. PICK row \in todo, delivered \in BOOLEAN :
          /\ todo' = todo \ {row}
          /\ updates' = updates \cup {Row(row.id, Outcome(row, delivered), row.attempt + 1)}
          /\ posts' = BagAdd(posts, row.id)
          /\ \/ received' = BagAdd(received, row.id)
             \/ UNCHANGED received
          /\ npc' = IF todo = {row} THEN "update" ELSE "post"
    BY <1>7 DEF Post
  <2>2. UNCHANGED notes
    BY <1>7 DEF Post
  <2> DEFINE new == Row(row.id, Outcome(row, delivered), row.attempt + 1)
  <2>3. new.id = row.id /\ new.status = Outcome(row, delivered) /\ new.attempt = row.attempt + 1 /\ new.at = now
    BY NewRow
  <2>4. Fits(new)
    <3>1. Fits(row) /\ row.attempt < MaxAttempts
      BY <1>5
    <3>2. Outcome(row, delivered) \in {"pending", "retry", "delivered", "failed"}
      BY DEF Outcome
    <3>3. QED
      BY <1>3, <2>3, <3>1, <3>2 DEF Fits
  <2> HIDE DEF new
  <2>5. Unique(updates') /\ \A t \in todo', u \in updates' : t.id # u.id
    BY <1>5, <2>1, <2>3 DEF Unique, new
  <2>6. IsABag(posts') /\ IsABag(received') /\ BagToSet(received') \subseteq BagToSet(posts')
    BY <1>5, <2>1, BagAddType
  <2>7. todo' # {} <=> npc' = "post"
    BY <2>1
  <2>8. \A r \in notes' \cup todo' \cup updates' : Fits(r)
    BY <1>5, <2>1, <2>2, <2>4 DEF new
  <2>9. QED
    BY <1>5, <2>1, <2>2, <2>5, <2>6, <2>7, <2>8 DEF Unique
<1>8. CASE InsertUpdates
  <2>1. /\ npc = "update" /\ npc' = "poll" /\ updates' = {} /\ UNCHANGED <<todo, posts, received>>
        /\ notes' = Insert(notes, updates) \/ notes' = notes
    BY <1>8 DEF InsertUpdates
  <2>2. Unique(notes') /\ Unique(updates')
    BY <1>5, <2>1, InsertUnique DEF Unique
  <2>3. \A row \in notes' : Fits(row)
    BY <1>5, <2>1, InsertAdds
  <2>4. QED
    BY <1>5, <2>1, <2>2, <2>3
<1>9. CASE CrashNotifier
  BY <1>5, <1>9 DEF CrashNotifier, Unique
<1>10. QED
  BY <1>6, <1>7, <1>8, <1>9

LEMMA TypeStep == TypeInv /\ [Next]_vars => TypeInv'
<1> SUFFICES ASSUME TypeInv, [Next]_vars PROVE TypeInv'
  OBVIOUS
<1>1. CASE UNCHANGED vars
  BY <1>1 DEF vars, matcher, queue, notifier, TypeInv, TypeOK, Apart, Unique, Ids, Offsets, AllMatches, Matches, cur
<1>2. CASE Tick
  <2>1. now' = now + 1 /\ UNCHANGED <<log, committed, position, pc, evaluated, dedupe, fired, alerts, skipped, quiet, raised,
                                       notes, npc, todo, updates, posts, received, faults>>
    BY <1>2 DEF Tick, matcher, queue, notifier
  <2>2. now \in Nat /\ now + 1 \in 0 .. MaxTime /\ \A i \in 0 .. now : i \in 0 .. now + 1
    BY <1>2, LimitsAssumption DEF TypeInv, TypeOK, Tick
  <2>3. Ids' = Ids /\ Offsets' = Offsets /\ AllMatches' = AllMatches /\ cur' = cur
    BY <2>1 DEF Ids, Offsets, AllMatches, Matches, cur
  <2>4. TypeOK'
    BY <2>1, <2>2, <2>3 DEF TypeInv, TypeOK
  <2>5. QED
    BY <2>1, <2>3, <2>4 DEF TypeInv, Apart, Unique
<1>3. QED
  BY <1>1, <1>2, PublishType, EvaluateType, WorkerType, NotifierType DEF Next, Worker, Notifier

\* The worker's and the notifier's state and tables keep their types (apps/alerts).
THEOREM TypeCorrect == Spec => []TypeOK
<1>1. TypeInv => TypeOK
  BY DEF TypeInv
<1>2. QED
  BY <1>1, InitType, TypeStep, PTL DEF Spec
-----------------------------------------------------------------------------
\* The rows that are in flight are those of the table, or of the batch before.
InFlight == notes \cup todo \cup updates

-----------------------------------------------------------------------------
(* Alerts before their notifications. *)

AlertsFirst ==
  /\ \A row \in InFlight : row.id \in alerts
  /\ pc = "notifications" => \A row \in fired : row.id \in alerts

LEMMA InitAlertsFirst == Init => AlertsFirst
BY DEF Init, AlertsFirst, InFlight

LEMMA AlertsFirstStep == AlertsFirst /\ [Next]_vars => AlertsFirst'
<1> SUFFICES ASSUME AlertsFirst, [Next]_vars PROVE AlertsFirst'
  OBVIOUS
<1>1. CASE UNCHANGED vars
  BY <1>1 DEF vars, matcher, notifier, AlertsFirst, InFlight
<1>2. CASE Tick \/ Publish
  BY <1>2 DEF Tick, Publish, matcher, notifier, AlertsFirst, InFlight
<1>3. CASE Receive \/ Evaluate \/ EvaluationFails \/ FinishMatching
  <2>1. UNCHANGED <<alerts, notes, todo, updates>> /\ pc' # "notifications"
    BY <1>3 DEF Receive, Evaluate, EvaluationFails, FinishMatching, notifier
  <2>2. QED
    BY <2>1 DEF AlertsFirst, InFlight
<1>4. CASE RecordAlerts
  <2>1. /\ UNCHANGED <<notes, todo, updates>> /\ alerts \subseteq alerts'
        /\ \/ pc' = "recv"
           \/ UNCHANGED fired /\ alerts' = alerts \cup {row.id : row \in fired}
    BY <1>4 DEF RecordAlerts, Skip, notifier
  <2>2. QED
    BY <2>1 DEF AlertsFirst, InFlight
<1>5. CASE RecordNotifications
  <2>1. /\ pc = "notifications" /\ pc' # "notifications" /\ UNCHANGED <<alerts, todo, updates>>
        /\ notes' = Insert(notes, fired) \/ UNCHANGED notes
    BY <1>5 DEF RecordNotifications, Skip, notifier
  <2>2. \A row \in notes' : row.id \in alerts
    BY <2>1, InsertAdds DEF AlertsFirst, InFlight
  <2>3. QED
    BY <2>1, <2>2 DEF AlertsFirst, InFlight
<1>6. CASE CommitMessage \/ Rejoin \/ CrashWorker
  BY <1>6 DEF CommitMessage, Rejoin, CrashWorker, notifier, AlertsFirst, InFlight
<1>7. CASE Poll
  <2>1. UNCHANGED <<alerts, notes, updates, pc, fired>> /\ todo' \subseteq notes
    BY <1>7 DEF Poll, Due, matcher
  <2>2. QED
    BY <2>1 DEF AlertsFirst, InFlight
<1>8. CASE Post
  <2>1. PICK row \in todo, delivered \in BOOLEAN :
          /\ todo' = todo \ {row}
          /\ updates' = updates \cup {Row(row.id, Outcome(row, delivered), row.attempt + 1)}
    BY <1>8 DEF Post
  <2>2. UNCHANGED <<alerts, notes, pc, fired>>
    BY <1>8 DEF Post, matcher
  <2>3. Row(row.id, Outcome(row, delivered), row.attempt + 1).id = row.id
    BY DEF Row
  <2>4. QED
    BY <2>1, <2>2, <2>3 DEF AlertsFirst, InFlight
<1>9. CASE InsertUpdates
  <2>1. /\ UNCHANGED <<alerts, pc, fired, todo>> /\ updates' = {}
        /\ notes' = Insert(notes, updates) \/ UNCHANGED notes
    BY <1>9 DEF InsertUpdates, matcher
  <2>2. \A row \in notes' : row.id \in alerts
    BY <2>1, InsertAdds DEF AlertsFirst, InFlight
  <2>3. QED
    BY <2>1, <2>2 DEF AlertsFirst, InFlight
<1>10. CASE CrashNotifier
  BY <1>10 DEF CrashNotifier, matcher, AlertsFirst, InFlight
<1>11. QED
  BY <1>1, <1>2, <1>3, <1>4, <1>5, <1>6, <1>7, <1>8, <1>9, <1>10 DEF Next, Worker, Notifier

\* Nobody is notified of an alert that alert_events does not have, whatever inserts
\* fail and whichever process ends (process_message, deliver_notifications).
THEOREM NotificationsFollow == Spec => []NotificationsFollowAlerts
<1>1. AlertsFirst => NotificationsFollowAlerts
  BY DEF AlertsFirst, InFlight, NotificationsFollowAlerts
<1>2. QED
  BY <1>1, InitAlertsFirst, AlertsFirstStep, PTL DEF Spec
-----------------------------------------------------------------------------
(* No notification is given up early: the attempts of a row were posts. *)

PostsCounted ==
  /\ \A id \in DOMAIN posts : posts[id] \in Nat
  /\ \A row \in InFlight \cup fired : row.attempt \in Nat /\ row.attempt <= Copies(row.id, posts)
  /\ \A row \in InFlight \cup fired : row.status = "failed" => row.attempt >= MaxAttempts

LEMMA InitPostsCounted == Init => PostsCounted
BY DEF Init, PostsCounted, InFlight, EmptyBag, SetToBag

LEMMA NewRowsCount ==
  ASSUME \A id \in DOMAIN posts : posts[id] \in Nat, NEW id
  PROVE  /\ Row(id, "pending", 0).attempt = 0
         /\ Row(id, "pending", 0).status = "pending"
         /\ 0 <= Copies(id, posts)
BY DEF Row, Copies

LEMMA PostsCountedStep == PostsCounted /\ [Next]_vars => PostsCounted'
<1> SUFFICES ASSUME PostsCounted, [Next]_vars PROVE PostsCounted'
  OBVIOUS
<1> USE DEF Copies
<1>1. CASE UNCHANGED vars
  BY <1>1 DEF vars, matcher, notifier, PostsCounted, InFlight
<1>2. CASE Tick \/ Publish
  BY <1>2 DEF Tick, Publish, matcher, notifier, PostsCounted, InFlight
<1>3. CASE Receive \/ Evaluate \/ EvaluationFails \/ FinishMatching
  <2>1. UNCHANGED <<notes, todo, updates, posts>>
    BY <1>3 DEF Receive, Evaluate, EvaluationFails, FinishMatching, notifier
  <2>2. \A row \in fired' : row \in fired \/ \E id : row = Row(id, "pending", 0)
    BY <1>3 DEF Receive, Evaluate, EvaluationFails, FinishMatching
  <2>3. QED
    BY <2>1, <2>2 DEF PostsCounted, InFlight, Row
<1>4. CASE RecordAlerts
  <2>1. UNCHANGED <<notes, todo, updates, posts>> /\ fired' \subseteq fired
    BY <1>4 DEF RecordAlerts, Skip, notifier
  <2>2. QED
    BY <2>1 DEF PostsCounted, InFlight
<1>5. CASE RecordNotifications
  <2>1. /\ UNCHANGED <<todo, updates, posts>> /\ fired' = {}
        /\ notes' = Insert(notes, fired) \/ UNCHANGED notes
    BY <1>5 DEF RecordNotifications, Skip, notifier
  <2>2. notes' \subseteq notes \cup fired
    BY <2>1, InsertAdds
  <2>3. QED
    BY <2>1, <2>2 DEF PostsCounted, InFlight
<1>6. CASE CommitMessage \/ Rejoin
  BY <1>6 DEF CommitMessage, Rejoin, notifier, PostsCounted, InFlight
<1>7. CASE CrashWorker
  BY <1>7 DEF CrashWorker, notifier, PostsCounted, InFlight
<1>8. CASE Poll
  <2>1. UNCHANGED <<fired, notes, updates, posts>> /\ todo' \subseteq notes
    BY <1>8 DEF Poll, Due, matcher
  <2>2. QED
    BY <2>1 DEF PostsCounted, InFlight
<1>9. CASE Post
  <2>1. PICK row \in todo, delivered \in BOOLEAN :
          /\ todo' = todo \ {row}
          /\ updates' = updates \cup {Row(row.id, Outcome(row, delivered), row.attempt + 1)}
          /\ posts' = BagAdd(posts, row.id)
    BY <1>9 DEF Post
  <2> DEFINE new == Row(row.id, Outcome(row, delivered), row.attempt + 1)
  <2>2. UNCHANGED <<notes, fired>>
    BY <1>9 DEF Post, matcher
  <2>3. row.attempt \in Nat /\ row.attempt <= Copies(row.id, posts)
    BY DEF PostsCounted, InFlight
  <2>4. /\ \A id \in DOMAIN posts' : posts'[id] \in Nat
        /\ Copies(row.id, posts') = Copies(row.id, posts) + 1
        /\ \A e : Copies(e, posts) \in Nat /\ Copies(e, posts) <= Copies(e, posts')
    <3>1. \A id \in DOMAIN posts : posts[id] \in Nat
      BY DEF PostsCounted
    <3> HIDE DEF Copies
    <3>2. QED
      BY <2>1, <3>1, BagAddCopies
  <2>5. new.id = row.id /\ new.attempt = row.attempt + 1 /\ new.status = Outcome(row, delivered)
    BY DEF Row
  <2>6. new.status = "failed" => new.attempt >= MaxAttempts
    BY <2>5 DEF Outcome
  <2>7. new.attempt \in Nat /\ new.attempt <= Copies(new.id, posts')
    BY <2>3, <2>4, <2>5, LimitsAssumption
  <2>8. \A r \in (InFlight \cup fired)' : r \in InFlight \cup fired \/ r = new
    BY <2>1, <2>2 DEF InFlight
  <2>9. \A r \in InFlight \cup fired : r.attempt \in Nat /\ r.attempt <= Copies(r.id, posts')
    BY <2>4 DEF PostsCounted
  <2>10. QED
    BY <2>4, <2>6, <2>7, <2>8, <2>9 DEF PostsCounted
<1>10. CASE InsertUpdates
  <2>1. /\ UNCHANGED <<fired, todo, posts>> /\ updates' = {}
        /\ notes' = Insert(notes, updates) \/ UNCHANGED notes
    BY <1>10 DEF InsertUpdates, matcher
  <2>2. notes' \subseteq notes \cup updates
    BY <2>1, InsertAdds
  <2>3. QED
    BY <2>1, <2>2 DEF PostsCounted, InFlight
<1>11. CASE CrashNotifier
  BY <1>11 DEF CrashNotifier, matcher, PostsCounted, InFlight
<1>12. QED
  BY <1>1, <1>2, <1>3, <1>4, <1>5, <1>6, <1>7, <1>8, <1>9, <1>10, <1>11 DEF Next, Worker, Notifier

\* A notification is given up only after max_attempts posts, although the worker may
\* insert its pending row over the notifier's (notification_rows, deliver_notification).
THEOREM GivenUpIsExhausted == Spec => []FailedIsExhausted
<1>1. PostsCounted => FailedIsExhausted
  <2> SUFFICES ASSUME PostsCounted, NEW row \in notes, row.status = "failed"
               PROVE  Copies(row.id, posts) >= MaxAttempts
    BY DEF FailedIsExhausted
  <2>1. row.attempt \in Nat /\ row.attempt <= Copies(row.id, posts) /\ row.attempt >= MaxAttempts
    BY DEF PostsCounted, InFlight
  <2>2. Copies(row.id, posts) \in Nat
    BY DEF PostsCounted, Copies
  <2>3. QED
    BY <2>1, <2>2, LimitsAssumption
<1>2. QED
  BY <1>1, InitPostsCounted, PostsCountedStep, PTL DEF Spec
-----------------------------------------------------------------------------
(* A webhook receives a notification once, and once more for every fault: what may *)
(* still post a notification without another fault is paid for.                    *)

Open(row) == row.status \in {"pending", "retry"}

\* The match of a notification is still to be evaluated.
Expected(id) ==
  id[1][1] >= position \/ (pc = "match" /\ id[1][1] = cur /\ id[1][2] > evaluated)

\* The current message raises it.
Raising(id) == \E row \in fired : row.id = id

\* It is to be posted, or its open row outlives the updates.
Posting(id) ==
  \/ \E row \in todo : row.id = id
  \/ \E row \in notes : row.id = id /\ Open(row) /\ \A u \in updates : u.id = id => ~(u.at >= row.at)

\* An update asks for it again.
Retrying(id) == \E u \in updates : u.id = id /\ Open(u)

One(b) == IF b THEN 1 ELSE 0

Due1(id) == One(Expected(id)) + One(Raising(id)) + One(Posting(id)) + One(Retrying(id))

AnyId == (Nat \X Nat) \X (Rules \X Keys \X Nat)

PaidFor == \A id \in AnyId : Copies(id, received) + Due1(id) <= 1 + faults

LEMMA IdsAreAny == TypeOK => Ids \subseteq AnyId
<1> SUFFICES ASSUME TypeOK PROVE Ids \subseteq AnyId
  OBVIOUS
<1>1. \A y \in AllMatches : y \in Nat \X Nat
  BY DEF TypeOK, AllMatches, Matches, Offsets
<1>2. QED
  BY <1>1 DEF Ids, AnyId

LEMMA Payments ==
  /\ \A b : One(b) \in {0, 1} /\ (b => One(b) = 1) /\ (~b => One(b) = 0)
  /\ \A id : Due1(id) \in Nat
BY DEF One, Due1

\* A step that neither posts nor fails.
LEMMA PaidByOthers ==
  ASSUME NEW id, UNCHANGED <<received, faults>>,
         Expected(id)' => Expected(id), Raising(id)' => Raising(id), Posting(id)' => Posting(id),
         Retrying(id)' => Retrying(id)
  PROVE  Due1(id)' <= Due1(id)
BY DEF Due1, One

\* The worker: a match that is evaluated raises its notification once, and a message
\* comes again only through a fault.
LEMMA PaidByWorker ==
  ASSUME TypeInv, NEW id \in AnyId,
         \/ Receive \/ EvaluationFails \/ FinishMatching \/ RecordAlerts \/ RecordNotifications \/ CommitMessage
  PROVE  UNCHANGED received /\ faults' >= faults /\ Due1(id)' <= Due1(id)
<1>1. /\ id[1][1] \in Nat /\ id[1][2] \in Nat /\ position \in Nat /\ evaluated \in Nat /\ cur = position - 1
      /\ faults \in Nat
  BY DEF AnyId, TypeInv, TypeOK, cur
<1>2. UNCHANGED <<received, todo, updates>> /\ faults' >= faults
  BY <1>1 DEF Receive, EvaluationFails, FinishMatching, RecordAlerts, RecordNotifications, CommitMessage, Skip, Fault,
              notifier
<1>3. Expected(id)' => Expected(id)
  <2>1. CASE Receive
    <3>1. position' = position + 1 /\ evaluated' = evaluated
      BY <2>1 DEF Receive
    <3>2. QED
      BY <1>1, <3>1 DEF Expected, cur
  <2>2. CASE ~Receive
    <3>1. position' = position /\ pc' # "match"
      BY <2>2 DEF EvaluationFails, FinishMatching, RecordAlerts, RecordNotifications, CommitMessage, Skip, queue
    <3>2. QED
      BY <3>1 DEF Expected
  <2>3. QED
    BY <2>1, <2>2
<1>4. CASE ~RecordNotifications
  <2>1. UNCHANGED notes /\ fired' \subseteq fired
    BY <1>4 DEF Receive, EvaluationFails, FinishMatching, RecordAlerts, CommitMessage, Skip
  <2>2. QED
    BY <1>2, <1>3, <2>1 DEF Due1, One, Raising, Posting, Retrying
<1>5. CASE RecordNotifications
  <2>1. fired' = {} /\ (notes' = Insert(notes, fired) \/ notes' = notes)
    BY <1>5 DEF RecordNotifications, Skip
  <2>2. \A row \in notes' : row \in notes \/ row \in fired
    BY <2>1, InsertAdds
  <2>3. Posting(id)' => Posting(id) \/ Raising(id)
    BY <1>2, <2>2 DEF Posting, Raising
  <2>4. ~Raising(id)' /\ (Retrying(id)' <=> Retrying(id))
    BY <1>2, <2>1 DEF Raising, Retrying
  <2>5. QED
    BY <1>2, <1>3, <2>3, <2>4 DEF Due1, One
<1>6. QED
  BY <1>2, <1>4, <1>5

LEMMA PaidByEvaluation ==
  ASSUME TypeInv, NEW id \in AnyId, Evaluate
  PROVE  UNCHANGED <<received, faults>> /\ Due1(id)' <= Due1(id)
<1>1. /\ id[1][1] \in Nat /\ id[1][2] \in Nat /\ position \in Nat /\ evaluated \in Nat /\ cur = position - 1
  BY DEF AnyId, TypeInv, TypeOK, cur
<1>2. UNCHANGED <<received, faults, todo, updates, notes, position, pc>> /\ pc = "match" /\ evaluated' = evaluated + 1
  BY DEF Evaluate, notifier, queue
<1>3. PICK new : fired' \subseteq fired \cup {new} /\ new.id[1] = <<cur, evaluated + 1>>
  <2> DEFINE x == log[cur + 1][evaluated + 1]
             new == Row(<<<<cur, evaluated + 1>>, Token(x)>>, "pending", 0)
  <2>1. fired' = fired \/ fired' = fired \cup {new}
    BY DEF Evaluate
  <2>2. new.id = <<<<cur, evaluated + 1>>, Token(x)>>
    BY NewRow
  <2> HIDE DEF new, x
  <2>3. new.id[1] = <<cur, evaluated + 1>>
    BY <2>2
  <2>4. QED
    BY <2>1, <2>3
<1>4. cur' = cur
  BY <1>2 DEF cur
<1>5. Expected(id)' => Expected(id)
  BY <1>1, <1>2, <1>4 DEF Expected
<1>6. (Posting(id)' <=> Posting(id)) /\ (Retrying(id)' <=> Retrying(id))
  BY <1>2 DEF Posting, Retrying
<1>7. CASE id = new.id
  <2>1. Expected(id) /\ ~Expected(id)'
    BY <1>1, <1>2, <1>3, <1>4, <1>7 DEF Expected
  <2>2. QED
    BY <1>2, <1>6, <2>1 DEF Due1, One
<1>8. CASE id # new.id
  <2>1. Raising(id)' => Raising(id)
    BY <1>3, <1>8 DEF Raising
  <2>2. QED
    BY <1>2, <1>5, <1>6, <2>1 DEF Due1, One
<1>9. QED
  BY <1>2, <1>7, <1>8

\* A fault: the message comes again, or what the updates would have settled is open.
LEMMA PaidByFaults ==
  ASSUME TypeInv, NEW id \in AnyId, Rejoin \/ CrashWorker \/ CrashNotifier
  PROVE  UNCHANGED received /\ faults' = faults + 1 /\ Due1(id)' <= Due1(id) + 1
<1>1. UNCHANGED received /\ faults' = faults + 1
  BY DEF Rejoin, CrashWorker, CrashNotifier, Fault, notifier
<1>2. CASE Rejoin \/ CrashWorker
  <2>1. UNCHANGED <<notes, todo, updates>> /\ fired' \subseteq fired
    BY <1>2 DEF Rejoin, CrashWorker, notifier
  <2>2. QED
    BY <1>1, <2>1 DEF Due1, One, Raising, Posting, Retrying
<1>3. CASE CrashNotifier
  <2>1. UNCHANGED <<fired, position, pc, evaluated>> /\ updates' = {}
    BY <1>3 DEF CrashNotifier, matcher, queue
  <2>2. (Expected(id)' <=> Expected(id)) /\ (Raising(id)' <=> Raising(id)) /\ ~Retrying(id)'
    BY <2>1 DEF Expected, Raising, Retrying, cur
  <2>3. QED
    BY <1>1, <2>2 DEF Due1, One
<1>4. QED
  BY <1>2, <1>3

LEMMA PaidByPoll ==
  ASSUME TypeInv, NEW id, Poll
  PROVE  UNCHANGED <<received, faults>> /\ Due1(id)' <= Due1(id)
<1>1. /\ UNCHANGED <<received, faults, notes, updates, fired, position, pc, evaluated>> /\ todo' \subseteq Due
      /\ npc = "poll"
  BY DEF Poll, matcher, queue
<1>2. updates = {}
  BY <1>1 DEF TypeInv, Apart
<1>3. Posting(id)' => Posting(id)
  BY <1>1, <1>2 DEF Posting, Due, Open
<1>4. /\ Expected(id)' <=> Expected(id)
      /\ Raising(id)' <=> Raising(id)
      /\ Retrying(id)' <=> Retrying(id)
  BY <1>1 DEF Expected, Raising, Retrying, cur
<1>5. QED
  BY <1>1, <1>3, <1>4 DEF Due1, One

\* A post is one less to come; without an answer it is one more, and a fault.
LEMMA PaidByPost ==
  ASSUME TypeInv, NEW id \in AnyId, Post
  PROVE  /\ faults' >= faults
         /\ Copies(id, received)' + Due1(id)' - faults' <= Copies(id, received) + Due1(id) - faults
<1>1. PICK row \in todo, delivered \in BOOLEAN :
        /\ todo' = todo \ {row}
        /\ updates' = updates \cup {Row(row.id, Outcome(row, delivered), row.attempt + 1)}
        /\ (IF delivered THEN UNCHANGED faults ELSE Fault)
        /\ \/ received' = BagAdd(received, row.id)
           \/ UNCHANGED received
  BY DEF Post
<1>2. UNCHANGED <<notes, fired, position, pc, evaluated>>
  BY DEF Post, matcher, queue
<1>3. /\ \A e \in DOMAIN received : received[e] \in Nat
      /\ faults \in Nat /\ now \in Nat
      /\ \A r \in notes : r.at \in Nat /\ r.at <= now
      /\ \A t \in todo : t.id = row.id => t = row
      /\ \A u \in updates : u.id # row.id
  BY BagType, LimitsAssumption DEF TypeInv, TypeOK, Apart, Unique
<1>4. PICK new : /\ new = Row(row.id, Outcome(row, delivered), row.attempt + 1)
                 /\ new.id = row.id /\ new.status = Outcome(row, delivered) /\ new.at = now
  BY NewRow
<1>5. /\ Expected(id)' <=> Expected(id)
      /\ Raising(id)' <=> Raising(id)
  BY <1>2 DEF Expected, Raising, cur
<1>6. /\ Copies(id, received) \in Nat /\ Copies(id, received') \in Nat
      /\ Copies(id, received') <= Copies(id, received) + 1
      /\ id # row.id => Copies(id, received') = Copies(id, received)
  <2>1. Copies(id, received) \in Nat
    BY <1>3 DEF Copies
  <2>2. CASE received' = BagAdd(received, row.id)
    <3>1. /\ Copies(row.id, received') = Copies(row.id, received) + 1
          /\ \A e : e # row.id => Copies(e, received') = Copies(e, received)
      BY <1>3, <2>2, BagAddCopies
    <3>2. CASE id = row.id
      BY <2>1, <3>1, <3>2
    <3>3. CASE id # row.id
      BY <2>1, <3>1, <3>3
    <3>4. QED
      BY <3>2, <3>3
  <2>3. CASE UNCHANGED received
    BY <2>1, <2>3
  <2>4. QED
    BY <1>1, <2>2, <2>3
<1>7. faults' \in Nat /\ faults' >= faults /\ (~delivered => faults' = faults + 1)
  BY <1>1, <1>3 DEF Fault
<1>8. CASE id # row.id
  <2>1. (Posting(id)' => Posting(id)) /\ (Retrying(id)' => Retrying(id))
    BY <1>1, <1>2, <1>4, <1>8 DEF Posting, Retrying
  <2>2. Due1(id)' <= Due1(id) /\ Due1(id)' \in Nat /\ Due1(id) \in Nat
    BY <1>5, <2>1 DEF Due1, One
  <2>3. Copies(id, received)' = Copies(id, received)
    BY <1>6, <1>8 DEF Copies
  <2>4. QED
    BY <1>3, <1>6, <1>7, <2>2, <2>3
<1>9. CASE id = row.id
  <2>1. Posting(id) /\ ~Retrying(id)
    BY <1>3, <1>9 DEF Posting, Retrying
  <2>2. ~Posting(id)'
    <3>1. new \in updates' /\ \A r \in notes' : new.at >= r.at
      BY <1>1, <1>2, <1>3, <1>4
    <3>2. \A t \in todo' : t.id # id
      BY <1>1, <1>3, <1>9
    <3>3. QED
      BY <1>4, <1>9, <3>1, <3>2 DEF Posting
  <2>3. delivered => ~Retrying(id)'
    <3>1. delivered => ~Open(new)
      BY <1>4 DEF Open, Outcome
    <3>2. QED
      BY <1>1, <1>3, <1>4, <1>9, <3>1 DEF Retrying
  <2>4. /\ Due1(id)' \in Nat /\ Due1(id) \in Nat
        /\ delivered => Due1(id)' + 1 <= Due1(id)
        /\ Due1(id)' <= Due1(id)
    BY <1>5, <2>1, <2>2, <2>3 DEF Due1, One
  <2>5. Copies(id, received)' = Copies(id, received')
    BY DEF Copies
  <2>6. QED
    BY <1>3, <1>6, <1>7, <2>4, <2>5
<1>10. QED
  BY <1>7, <1>8, <1>9

\* The updates settle their notifications, open them for a retry, or are lost in a fault.
LEMMA PaidByUpdates ==
  ASSUME TypeInv, NEW id, InsertUpdates
  PROVE  UNCHANGED received /\ faults' >= faults /\ Due1(id)' - faults' <= Due1(id) - faults
<1>1. /\ UNCHANGED <<received, todo, fired, position, pc, evaluated>> /\ updates' = {} /\ npc = "update"
      /\ \/ notes' = Insert(notes, updates) /\ (UNCHANGED faults \/ Fault)
         \/ notes' = notes /\ Fault
  BY DEF InsertUpdates, matcher, queue
<1>2. Unique(notes) /\ faults \in Nat /\ todo = {}
  BY <1>1 DEF TypeInv, TypeOK, Unique
<1>3. /\ Expected(id)' <=> Expected(id)
      /\ Raising(id)' <=> Raising(id)
      /\ ~Retrying(id)'
  BY <1>1 DEF Expected, Raising, Retrying, cur
<1>4. /\ Due1(id) \in Nat /\ Due1(id)' \in Nat /\ faults' \in Nat /\ faults' >= faults
  BY <1>1, <1>2 DEF Due1, One, Fault
<1>5. CASE notes' = Insert(notes, updates)
  <2>1. Posting(id)' => Posting(id) \/ Retrying(id)
    <3>1. SUFFICES ASSUME NEW row \in notes', row.id = id, Open(row) PROVE Posting(id) \/ Retrying(id)
      BY <1>1, <1>2 DEF Posting
    <3>2. CASE row \in updates
      BY <3>1, <3>2 DEF Retrying
    <3>3. CASE row \notin updates
      <4>1. row \in notes /\ \A u \in updates : (\A old \in notes : old.id = u.id => Supersedes(u, old)) => u.id # row.id
        BY <1>5, <3>1, <3>3 DEF Insert
      <4>2. \A u \in updates : u.id = id => ~(u.at >= row.at)
        BY <1>2, <3>1, <4>1 DEF Unique, Supersedes
      <4>3. QED
        BY <3>1, <4>1, <4>2 DEF Posting
    <3>4. QED
      BY <3>2, <3>3
  <2>2. Due1(id)' <= Due1(id)
    BY <1>3, <2>1 DEF Due1, One
  <2>3. QED
    BY <1>1, <1>2, <1>4, <2>2
<1>6. CASE notes' = notes /\ Fault
  <2>1. faults' = faults + 1
    BY <1>6 DEF Fault
  <2>2. Due1(id)' <= Due1(id) + 1
    BY <1>3 DEF Due1, One
  <2>3. QED
    BY <1>1, <1>2, <1>4, <2>1, <2>2
<1>7. QED
  BY <1>1, <1>5, <1>6

LEMMA InitPaid == Init => PaidFor
<1> SUFFICES ASSUME Init, NEW id \in AnyId PROVE Copies(id, received) + Due1(id) <= 1 + faults
  BY DEF PaidFor
<1>1. Copies(id, received) = 0
  BY EmptyBagType DEF Init, Copies
<1>2. ~Raising(id) /\ ~Posting(id) /\ ~Retrying(id)
  BY DEF Init, Raising, Posting, Retrying
<1>3. QED
  BY <1>1, <1>2 DEF Init, Due1, One

LEMMA PaidStep == TypeInv /\ PaidFor /\ [Next]_vars => PaidFor'
<1> SUFFICES ASSUME TypeInv, PaidFor, [Next]_vars, NEW id \in AnyId
             PROVE  Copies(id, received)' + Due1(id)' <= 1 + faults'
  BY DEF PaidFor
<1>1. /\ Copies(id, received) \in Nat /\ Due1(id) \in Nat /\ Due1(id)' \in Nat /\ faults \in Nat /\ faults' \in Nat
      /\ Copies(id, received)' \in Nat
  <2>1. \A e \in DOMAIN received : received[e] \in Nat
    BY BagType DEF TypeInv, TypeOK
  <2>2. \A e \in DOMAIN received' : received'[e] \in Nat
    <3>1. IsABag(received')
      BY TypeStep DEF TypeInv, TypeOK
    <3>2. QED
      BY <3>1, BagType
  <2>3. faults \in Nat /\ faults' \in Nat
    BY TypeStep DEF TypeInv, TypeOK
  <2>4. QED
    BY <2>1, <2>2, <2>3 DEF Copies, Due1, One
<1>2. SUFFICES /\ faults' >= faults
               /\ Copies(id, received)' + Due1(id)' - faults' <= Copies(id, received) + Due1(id) - faults
  BY <1>1 DEF PaidFor
<1>3. ASSUME UNCHANGED received, faults' >= faults, Due1(id)' - faults' <= Due1(id) - faults
      PROVE  /\ faults' >= faults
             /\ Copies(id, received)' + Due1(id)' - faults' <= Copies(id, received) + Due1(id) - faults
  <2>1. Copies(id, received)' = Copies(id, received)
    BY <1>3 DEF Copies
  <2>2. QED
    BY <1>1, <1>3, <2>1
<1>4. CASE UNCHANGED vars \/ Tick \/ Publish
  <2>1. UNCHANGED <<received, faults, fired, todo, notes, updates, position, pc, evaluated>>
    BY <1>4 DEF vars, Tick, Publish, matcher, queue, notifier
  <2>2. Due1(id)' = Due1(id)
    BY <2>1 DEF Due1, One, Expected, Raising, Posting, Retrying, cur
  <2>3. QED
    BY <1>1, <1>3, <2>1, <2>2
<1>5. CASE Receive \/ EvaluationFails \/ FinishMatching \/ RecordAlerts \/ RecordNotifications \/ CommitMessage
  BY <1>1, <1>3, <1>5, PaidByWorker
<1>6. CASE Evaluate
  BY <1>1, <1>3, <1>6, PaidByEvaluation
<1>7. CASE Rejoin \/ CrashWorker \/ CrashNotifier
  BY <1>1, <1>3, <1>7, PaidByFaults
<1>8. CASE Poll
  BY <1>1, <1>3, <1>8, PaidByPoll
<1>9. CASE Post
  BY <1>9, PaidByPost
<1>10. CASE InsertUpdates
  BY <1>3, <1>10, PaidByUpdates
<1>11. QED
  BY <1>4, <1>5, <1>6, <1>7, <1>8, <1>9, <1>10 DEF Next, Worker, Notifier

\* A webhook receives a notification once, and once more for every failed call, failed
\* post, rejoin and crash, of either process (deliver_notification, process_message); it
\* is given up only after max_attempts posts.
THEOREM PostsCount == Spec => []PostsAreCounted
<1>1. TypeInv /\ PaidFor => DuplicatesHaveFaults
  <2>1. SUFFICES ASSUME TypeInv, PaidFor, NEW row \in notes PROVE Copies(row.id, received) <= 1 + faults
    BY DEF DuplicatesHaveFaults
  <2>2. row.id \in AnyId /\ faults \in Nat
    BY <2>1, IdsAreAny DEF TypeInv, TypeOK
  <2>3. Copies(row.id, received) \in Nat /\ Due1(row.id) \in Nat
    <3>1. \A e \in DOMAIN received : received[e] \in Nat
      BY <2>1, BagType DEF TypeInv, TypeOK
    <3>2. QED
      BY <3>1 DEF Copies, Due1, One
  <2>4. QED
    BY <2>1, <2>2, <2>3 DEF PaidFor
<1>2. QED
  BY <1>1, InitType, TypeStep, InitPaid, PaidStep, GivenUpIsExhausted, PTL DEF Spec, PostsAreCounted

-----------------------------------------------------------------------------
(* One alert per dedupe key and bucket: the entry of an alert raised in the *)
(* current bucket is still in the dedupe map, whatever was pruned since.   *)

Short(rule) == Window[rule] \in 1 .. MinRetention

Holding(token) ==
  /\ Copies(token, raised) = 1
  /\ token[3] <= now \div Window[token[1]]
  /\ token[3] = now \div Window[token[1]] =>
       \E d \in dedupe : d.token = token /\ d.at \div Window[token[1]] = token[3]

RaisedAreHeld == \A token \in DOMAIN raised : Short(token[1]) => Holding(token)

LEMMA Buckets ==
  ASSUME NEW a \in Nat, NEW b \in Nat, NEW w \in Nat, w > 0
  PROVE  /\ a \div w \in Nat
         /\ a \div w <= (a + 1) \div w
         /\ a \div w = b \div w => a - b < w
OBVIOUS

LEMMA MaxOfTwo ==
  ASSUME NEW a \in Nat, NEW b \in Nat
  PROVE  Max({a, b}) \in Nat /\ Max({a, b}) >= a /\ Max({a, b}) >= b
<1>1. \E x \in {a, b} : \A y \in {a, b} : x >= y
  <2>1. CASE a >= b
    BY <2>1
  <2>2. CASE b >= a
    BY <2>2
  <2>3. QED
    BY <2>1, <2>2
<1>2. Max({a, b}) \in {a, b} /\ \A y \in {a, b} : Max({a, b}) >= y
  BY <1>1 DEF Max
<1>3. QED
  BY <1>2

\* Pruning keeps what is not older than MinRetention.
LEMMA PruningKeeps ==
  ASSUME NEW entries, NEW rule \in Rules, NEW d \in entries, now \in Nat, d.at \in Nat, now - d.at < MinRetention
  PROVE  d \in Pruned(entries, rule)
<1>1. Max({Window[rule], MinRetention}) \in Nat /\ Max({Window[rule], MinRetention}) >= MinRetention /\ MinRetention \in Nat
  BY MaxOfTwo, LimitsAssumption
<1>2. now - d.at <= Max({Window[rule], MinRetention})
  BY <1>1
<1>3. QED
  BY <1>2 DEF Pruned

LEMMA InitHeld == Init => RaisedAreHeld
BY EmptyBagType DEF Init, RaisedAreHeld

\* What is raised are tokens, and the entries are not from the future.
LEMMA RaisedType ==
  ASSUME TypeInv
  PROVE  /\ now \in Nat
         /\ \A token \in DOMAIN raised :
              /\ token[1] \in Rules /\ token[3] \in Nat
              /\ Short(token[1]) => Window[token[1]] \in Nat /\ Window[token[1]] > 0 /\ Window[token[1]] <= MinRetention
         /\ \A d \in dedupe : d.at \in Nat /\ d.at <= now
<1>1. BagToSet(raised) = DOMAIN raised /\ BagToSet(raised) \subseteq Rules \X Keys \X Nat
  BY BagType DEF TypeInv, TypeOK
<1>2. now \in Nat
  BY LimitsAssumption DEF TypeInv, TypeOK
<1>3. QED
  BY <1>1, <1>2, LimitsAssumption DEF TypeInv, TypeOK, Short

LEMMA HeldByTick ==
  ASSUME TypeInv, RaisedAreHeld, Tick
  PROVE  RaisedAreHeld'
<1>1. now' = now + 1 /\ dedupe' = dedupe /\ raised' = raised
  BY DEF Tick, matcher
<1>2. SUFFICES ASSUME NEW token \in DOMAIN raised, Short(token[1]) PROVE Holding(token)'
  BY <1>1 DEF RaisedAreHeld, Short
<1>3. Holding(token)
  BY <1>2 DEF RaisedAreHeld
<1> DEFINE w == Window[token[1]]
<1>4. now \in Nat /\ token[3] \in Nat /\ w \in Nat /\ w > 0
  BY <1>2, RaisedType
<1>5. now \div w \in Nat /\ (now + 1) \div w \in Nat /\ now \div w <= (now + 1) \div w
  BY <1>4, Buckets
<1>6. token[3] <= now \div w /\ (token[3] = now \div w => \E d \in dedupe : d.token = token /\ d.at \div w = token[3])
  BY <1>3 DEF Holding
<1>7. token[3] <= (now + 1) \div w /\ (token[3] = (now + 1) \div w => token[3] = now \div w)
  BY <1>4, <1>5, <1>6
<1>8. Copies(token, raised') = 1
  BY <1>1, <1>3 DEF Holding, Copies
<1>9. QED
  BY <1>1, <1>6, <1>7, <1>8 DEF Holding, Copies

LEMMA HeldByEvaluation ==
  ASSUME TypeInv, RaisedAreHeld, Evaluate
  PROVE  RaisedAreHeld'
<1>1. PICK x : x = log[cur + 1][evaluated + 1]
  OBVIOUS
<1>2. PICK entry : entry = [token |-> Token(x), at |-> now]
  OBVIOUS
<1>3. PICK entries : entries = {d \in dedupe : d.token # Token(x)} \cup {entry}
  OBVIOUS
<1>4. /\ pc = "match" /\ evaluated + 1 \in DOMAIN log[cur + 1] /\ x # Failure /\ now' = now
      /\ \/ UNCHANGED <<dedupe, raised>>
         \/ /\ ~Suppressed(dedupe, x)
            /\ dedupe' = Pruned(entries, x.rule)
            /\ raised' = BagAdd(raised, Token(x))
  BY <1>1, <1>2, <1>3 DEF Evaluate
<1>5. x \in Match
  BY <1>1, <1>4, CurrentType, MatchOf DEF TypeInv
<1>6. CASE UNCHANGED <<dedupe, raised>>
  BY <1>4, <1>6 DEF RaisedAreHeld, Holding, Copies
<1>7. CASE /\ ~Suppressed(dedupe, x)
           /\ dedupe' = Pruned(entries, x.rule)
           /\ raised' = BagAdd(raised, Token(x))
  <2>1. now \in Nat /\ x.rule \in Rules /\ MinRetention \in Nat
    BY <1>5, RaisedType, LimitsAssumption DEF Match
  <2>2. PICK t : t = Token(x)
    OBVIOUS
  <2>3. t[1] = x.rule /\ t[3] = Bucket(x.rule) /\ Window[x.rule] \in Nat
    BY <1>5, <2>1, <2>2, TokenType
  <2>4. /\ \A e \in DOMAIN raised : raised[e] \in Nat
    BY BagType DEF TypeInv, TypeOK
  <2>5. /\ Copies(t, raised') = Copies(t, raised) + 1
        /\ \A e : e # t => Copies(e, raised') = Copies(e, raised)
        /\ DOMAIN raised' = DOMAIN raised \cup {t}
    BY <1>7, <2>2, <2>4, BagAddCopies
  <2>6. ASSUME Short(t[1]) PROVE t \notin DOMAIN raised
    <3>1. SUFFICES ASSUME t \in DOMAIN raised PROVE FALSE
      OBVIOUS
    <3>2. PICK w : w = Window[t[1]]
      OBVIOUS
    <3>3. w \in Nat /\ w > 0
      BY <2>6, <3>1, <3>2, RaisedType
    <3>4. t[3] = now \div w
      BY <2>3, <3>2, <3>3 DEF Bucket
    <3>5. PICK d \in dedupe : d.token = t /\ d.at \div w = t[3]
      BY <2>6, <3>1, <3>2, <3>4 DEF RaisedAreHeld, Holding
    <3>6. d.at \in Nat
      BY RaisedType
    <3>7. now - d.at < w
      BY <2>1, <3>3, <3>4, <3>5, <3>6, Buckets
    <3>8. QED
      BY <1>7, <2>2, <2>3, <3>2, <3>5, <3>7 DEF Suppressed
  <2>7. ASSUME NEW token \in DOMAIN raised', Short(token[1]) PROVE Holding(token)'
    <3>1. CASE token = t
      <4>1. PICK w : w = Window[t[1]]
        OBVIOUS
      <4>2. w \in Nat /\ w > 0 /\ w <= MinRetention
        BY <2>1, <2>3, <2>7, <3>1, <4>1 DEF Short
      <4>3. t[3] = now \div w /\ now \div w \in Nat
        BY <2>1, <2>3, <4>1, <4>2, Buckets DEF Bucket
      <4>4. entry.token = t /\ entry.at = now /\ entry \in entries
        BY <1>2, <1>3, <2>2
      <4>5. entry \in dedupe'
        <5>1. entry.at \in Nat /\ now - entry.at < MinRetention
          BY <2>1, <4>2, <4>4
        <5>2. entry \in Pruned(entries, x.rule)
          BY <2>1, <4>4, <5>1, PruningKeeps
        <5>3. QED
          BY <1>7, <5>2
      <4>6. Copies(t, raised') = 1
        BY <2>5, <2>6, <2>7, <3>1 DEF Copies
      <4>7. QED
        BY <1>4, <3>1, <4>1, <4>3, <4>4, <4>5, <4>6 DEF Holding, Copies
    <3>2. CASE token # t
      <4>1. token \in DOMAIN raised /\ Copies(token, raised') = Copies(token, raised)
        BY <2>5, <2>7, <3>2
      <4>2. Holding(token)
        BY <2>7, <4>1 DEF RaisedAreHeld
      <4>3. PICK w : w = Window[token[1]]
        OBVIOUS
      <4>4. w \in Nat /\ w > 0 /\ w <= MinRetention
        BY <2>7, <4>1, <4>3, RaisedType
      <4>5. ASSUME token[3] = now \div w
            PROVE  \E d \in dedupe' : d.token = token /\ d.at \div w = token[3]
        <5>1. PICK d \in dedupe : d.token = token /\ d.at \div w = token[3]
          BY <4>2, <4>3, <4>5 DEF Holding
        <5>2. d.at \in Nat
          BY RaisedType
        <5>3. now - d.at < w
          BY <2>1, <4>4, <4>5, <5>1, <5>2, Buckets
        <5>4. now - d.at < MinRetention
          BY <2>1, <4>4, <5>2, <5>3
        <5>5. d \in entries
          BY <1>3, <2>2, <3>2, <5>1
        <5>6. d \in Pruned(entries, x.rule)
          BY <2>1, <5>2, <5>4, <5>5, PruningKeeps
        <5>7. QED
          BY <1>7, <5>1, <5>6
      <4>6. QED
        BY <1>4, <4>1, <4>2, <4>3, <4>5 DEF Holding, Copies
    <3>3. QED
      BY <3>1, <3>2
  <2>8. QED
    BY <2>7 DEF RaisedAreHeld, Short
<1>8. QED
  BY <1>4, <1>6, <1>7

LEMMA HeldStep == TypeInv /\ RaisedAreHeld /\ [Next]_vars => RaisedAreHeld'
<1> SUFFICES ASSUME TypeInv, RaisedAreHeld, [Next]_vars PROVE RaisedAreHeld'
  OBVIOUS
<1>1. CASE CrashWorker
  BY <1>1, EmptyBagType DEF CrashWorker, RaisedAreHeld
<1>2. CASE \/ Publish \/ Rejoin \/ Notifier \/ CrashNotifier \/ UNCHANGED vars
           \/ Receive \/ EvaluationFails \/ FinishMatching \/ RecordAlerts \/ RecordNotifications \/ CommitMessage
  <2>1. UNCHANGED <<now, dedupe, raised>>
    BY <1>2 DEF Publish, Rejoin, Notifier, Poll, Post, InsertUpdates, CrashNotifier, Receive, EvaluationFails,
         FinishMatching, RecordAlerts, RecordNotifications, CommitMessage, vars, matcher
  <2>2. QED
    BY <2>1 DEF RaisedAreHeld, Holding, Copies
<1>3. QED
  BY <1>1, <1>2, HeldByTick, HeldByEvaluation DEF Next, Worker

\* A process raises one alert per dedupe key and bucket of a window that pruning always
\* keeps, the pruning of other rules notwithstanding (evaluate_alert, prune_dedupe).
THEOREM OneAlertPerBucket == Spec => []ShortWindowsHold
<1>1. TypeInv /\ RaisedAreHeld => ShortWindowsHold
  BY BagType DEF TypeInv, TypeOK, RaisedAreHeld, Short, Holding, ShortWindowsHold
<1>2. QED
  BY <1>1, InitType, TypeStep, InitHeld, HeldStep, PTL DEF Spec

-----------------------------------------------------------------------------
(* The worker implements OffsetContract. *)

\* How far the process is through with the topic: up to the message at hand.
Through == IF pc = "recv" THEN position ELSE cur

Answered(i) ==
  /\ log[cur + 1][i] # Failure
  /\ <<cur, i>> \in quiet \/ \E row \in fired : row.id[1] = <<cur, i>>

\* What the worker leaves behind is settled or skipped; what it has evaluated of the
\* message at hand was suppressed or is what it is to insert.
WorkIsDone ==
  /\ committed <= Through
  /\ \A o \in Nat : o < Through => o \in Settled \cup skipped
  /\ pc = "match" => \A i \in 1 .. evaluated : Answered(i)
  /\ pc \in {"alerts", "notifications"} => \A i \in DOMAIN log[cur + 1] : Answered(i)
  /\ pc = "notifications" => \A row \in fired : row.id \in alerts
  /\ pc = "commit" => cur \in Settled

\* Nothing durable is taken back, and no history forgets.
EffectsStay ==
  /\ quiet \subseteq quiet' /\ alerts \subseteq alerts' /\ skipped \subseteq skipped'
  /\ \A row \in notes : \E kept \in notes' : kept.id = row.id

LEMMA StepKeepsEffects == [Next]_vars => EffectsStay
<1> SUFFICES ASSUME [Next]_vars PROVE EffectsStay
  OBVIOUS
<1>1. notes' = notes \/ notes' = Insert(notes, fired) \/ notes' = Insert(notes, updates)
  BY DEF Next, Tick, Publish, Worker, Receive, Evaluate, EvaluationFails, FinishMatching, RecordAlerts, RecordNotifications,
         CommitMessage, Rejoin, CrashWorker, Notifier, Poll, Post, InsertUpdates, CrashNotifier, vars
<1>2. quiet \subseteq quiet' /\ alerts \subseteq alerts' /\ skipped \subseteq skipped'
  BY DEF Next, Tick, Publish, Worker, Receive, Evaluate, EvaluationFails, FinishMatching, RecordAlerts, RecordNotifications,
         CommitMessage, Rejoin, CrashWorker, Notifier, Poll, Post, InsertUpdates, CrashNotifier, vars, matcher, Skip
<1>3. \A row \in notes : \E kept \in notes' : kept.id = row.id
  BY <1>1, InsertKeeps
<1>4. QED
  BY <1>2, <1>3 DEF EffectsStay

LEMMA SettledGrows ==
  ASSUME EffectsStay, Offsets \subseteq Offsets', \A o \in Offsets : log'[o + 1] = log[o + 1]
  PROVE  Settled \subseteq Settled'
<1>1. ASSUME NEW o \in Settled PROVE o \in Settled'
  <2>1. /\ o \in Offsets /\ o \in Offsets' /\ log'[o + 1] = log[o + 1]
        /\ \A i \in DOMAIN log[o + 1] : log[o + 1][i] # Failure
        /\ \A x \in Matches(o) : x \in quiet \/ Recorded(x)
    BY <1>1 DEF Settled
  <2>2. Matches(o)' = Matches(o)
    BY <2>1 DEF Matches
  <2>3. ASSUME NEW x, Recorded(x) PROVE Recorded(x)'
    BY <2>3 DEF EffectsStay, Recorded
  <2>4. \A x \in Matches(o) : x \in quiet' \/ Recorded(x)'
    BY <2>1, <2>3 DEF EffectsStay
  <2>5. QED
    BY <2>1, <2>2, <2>4 DEF Settled
<1>2. QED
  BY <1>1

\* A new message has no durable effect yet; it may ask for none.
LEMMA PublishSettles ==
  ASSUME TypeOK, Publish
  PROVE  Settled' \in {Settled, Settled \cup {Len(log)}}
<1>1. PICK m \in Messages : log' = Append(log, m)
  BY DEF Publish
<1>2. /\ Len(log') = Len(log) + 1 /\ Offsets \subseteq Offsets' /\ Len(log) \in Nat
      /\ \A o \in Offsets : log'[o + 1] = log[o + 1]
  <2>1. log \in Seq(Messages)
    BY DEF TypeOK
  <2>2. Len(log) \in Nat
    BY <2>1
  <2>3. QED
    BY <1>1, <2>1, <2>2, LogGrows
<1>3. UNCHANGED <<quiet, alerts, notes>>
  BY DEF Publish
<1>4. Offsets' = Offsets \cup {Len(log)}
  BY <1>2 DEF Offsets
<1>5. ASSUME NEW o \in Offsets PROVE o \in Settled' <=> o \in Settled
  <2>1. Matches(o)' = Matches(o)
    BY <1>2 DEF Matches
  <2>2. \A x : Recorded(x)' <=> Recorded(x)
    BY <1>3 DEF Recorded
  <2>3. QED
    BY <1>2, <1>3, <2>1, <2>2 DEF Settled
<1>6. Settled \subseteq Offsets /\ Settled' \subseteq Offsets'
  BY DEF Settled
<1>7. QED
  BY <1>4, <1>5, <1>6

\* A message is settled once all its matches were suppressed or recorded.
LEMMA AnsweredSettles ==
  ASSUME cur \in Offsets, log[cur + 1] \in Seq(Match \cup {Failure}),
         \A i \in DOMAIN log[cur + 1] : /\ log[cur + 1][i] # Failure
                                        /\ <<cur, i>> \in quiet \/ Recorded(<<cur, i>>)
  PROVE  cur \in Settled
<1>1. DOMAIN log[cur + 1] = 1 .. Len(log[cur + 1])
  OBVIOUS
<1>2. \A x \in Matches(cur) : x \in quiet \/ Recorded(x)
  BY <1>1 DEF Matches
<1>3. QED
  BY <1>2 DEF Settled

LEMMA InitDone == Init => WorkIsDone
BY DEF Init, WorkIsDone, Through

\* The steps that neither publish nor move the worker leave its work as it is.
LEMMA DoneByOthers ==
  ASSUME TypeInv, WorkIsDone, EffectsStay,
         UNCHANGED <<log, committed, position, pc, evaluated, fired, quiet, alerts>>
  PROVE  WorkIsDone'
<1>1. Offsets' = Offsets /\ cur' = cur /\ Through' = Through
  BY DEF Offsets, cur, Through
<1>2. Settled \subseteq Settled'
  BY <1>1, SettledGrows
<1>3. skipped \subseteq skipped'
  BY DEF EffectsStay
<1>4. \A i : Answered(i)' <=> Answered(i)
  BY <1>1 DEF Answered
<1>5. QED
  BY <1>1, <1>2, <1>3, <1>4 DEF WorkIsDone

LEMMA DoneByPublish ==
  ASSUME TypeInv, WorkIsDone, EffectsStay, Publish
  PROVE  WorkIsDone'
<1>1. PICK m \in Messages : log' = Append(log, m)
  BY DEF Publish
<1>2. Offsets \subseteq Offsets' /\ \A o \in Offsets : log'[o + 1] = log[o + 1]
  BY <1>1, LogGrows DEF TypeInv, TypeOK
<1>3. UNCHANGED <<committed, position, pc, evaluated, fired, quiet, alerts, skipped>>
  BY DEF Publish
<1>4. cur' = cur /\ Through' = Through
  BY <1>3 DEF cur, Through
<1>5. Settled \subseteq Settled'
  BY <1>2, SettledGrows
<1>6. pc # "recv" => log'[cur + 1] = log[cur + 1]
  BY <1>2, CurrentType DEF TypeInv
<1>7. pc # "recv" => \A i : Answered(i)' <=> Answered(i)
  BY <1>3, <1>4, <1>6 DEF Answered
<1>8. QED
  BY <1>3, <1>4, <1>5, <1>6, <1>7 DEF WorkIsDone

\* The worker lets go of the message at hand.
LEMMA DoneByLeaving ==
  ASSUME TypeInv, WorkIsDone, EffectsStay, log' = log, pc' = "recv",
         \/ committed' = committed /\ position' = position /\ pc # "recv" /\ cur \in Settled \cup skipped'
         \/ committed' = cur + 1 /\ pc = "commit" /\ position' = cur + 1
         \/ committed' = committed /\ position' = committed
  PROVE  WorkIsDone'
<1>1. Offsets' = Offsets
  BY DEF Offsets
<1>2. Settled \subseteq Settled' /\ skipped \subseteq skipped'
  BY <1>1, SettledGrows DEF EffectsStay
<1>3. /\ committed <= Through /\ \A o \in Nat : o < Through => o \in Settled \cup skipped
      /\ pc = "commit" => cur \in Settled
  BY DEF WorkIsDone
<1>4. committed \in Nat /\ position \in Nat /\ (pc # "recv" => cur \in Nat /\ cur + 1 = position)
  BY CurrentType DEF TypeInv, TypeOK, Offsets
<1>5. Through \in Nat /\ Through' = position' /\ (pc # "recv" => Through = cur)
  BY <1>4 DEF Through
<1>6. CASE committed' = committed /\ position' = committed
  <2>1. \A o \in Nat : o < committed => o \in Settled \cup skipped
    BY <1>3, <1>4, <1>5
  <2>2. committed' <= Through' /\ \A o \in Nat : o < Through' => o \in Settled' \cup skipped'
    BY <1>2, <1>4, <1>5, <1>6, <2>1
  <2>3. QED
    BY <2>2 DEF WorkIsDone
<1>7. CASE pc # "recv" /\ cur \in Settled \cup skipped' /\ position' = cur + 1 /\ committed' \in {committed, cur + 1}
  <2>1. \A o \in Nat : o < cur + 1 => o < Through \/ o = cur
    BY <1>4, <1>5, <1>7
  <2>2. committed' <= Through'
    BY <1>3, <1>4, <1>5, <1>7
  <2>3. \A o \in Nat : o < Through' => o \in Settled' \cup skipped'
    BY <1>2, <1>3, <1>5, <1>7, <2>1
  <2>4. QED
    BY <2>2, <2>3 DEF WorkIsDone
<1>8. QED
  BY <1>3, <1>4, <1>6, <1>7

\* The worker goes on with its message.
LEMMA DoneByWork ==
  ASSUME TypeInv, TypeInv', WorkIsDone, EffectsStay, log' = log, committed' = committed, skipped' = skipped,
         Through' = Through,
         Receive \/ Evaluate \/ FinishMatching \/ RecordAlerts \/ RecordNotifications, pc' # "recv"
  PROVE  WorkIsDone'
<1>1. Settled \subseteq Settled'
  BY SettledGrows DEF Offsets
<1>2. committed' <= Through' /\ \A o \in Nat : o < Through' => o \in Settled' \cup skipped'
  BY <1>1 DEF WorkIsDone
<1>3. CASE Receive
  <2>1. pc' = "match" /\ evaluated' = 0
    BY <1>3 DEF Receive, TypeInv, TypeOK
  <2>2. QED
    BY <1>2, <2>1 DEF WorkIsDone
<1>4. ASSUME pc # "recv" PROVE /\ cur \in Offsets /\ log[cur + 1] \in Seq(Match \cup {Failure})
                              /\ DOMAIN log[cur + 1] = 1 .. Len(log[cur + 1]) /\ evaluated \in Nat
  BY <1>4, CurrentType DEF TypeInv, TypeOK
<1>5. CASE Evaluate
  <2>0. PICK n : n = evaluated + 1
    OBVIOUS
  <2>1. /\ pc = "match" /\ pc' = "match" /\ log[cur + 1][n] # Failure /\ evaluated' = n
        /\ cur' = cur
        /\ fired \subseteq fired' /\ quiet \subseteq quiet'
        /\ \/ <<cur, n>> \in quiet'
           \/ Row(<<<<cur, n>>, Token(log[cur + 1][n])>>, "pending", 0) \in fired'
    BY <1>5, <2>0 DEF Evaluate, queue, cur
  <2>2. <<cur, n>> \in quiet' \/ \E row \in fired' : row.id[1] = <<cur, n>>
    BY <2>1, NewRow
  <2>3. Answered(n)'
    BY <2>1, <2>2 DEF Answered
  <2>4. \A i \in 1 .. evaluated : Answered(i)'
    BY <2>1 DEF WorkIsDone, Answered
  <2>5. \A i \in 1 .. n : i \in 1 .. evaluated \/ i = n
    BY <1>4, <2>0, <2>1
  <2>6. QED
    BY <1>2, <2>1, <2>3, <2>4, <2>5 DEF WorkIsDone
<1>6. CASE FinishMatching
  <2>1. /\ pc = "match" /\ evaluated = Len(log[cur + 1]) /\ pc' = IF fired = {} THEN "commit" ELSE "alerts"
        /\ cur' = cur /\ UNCHANGED <<fired, quiet>>
    BY <1>6 DEF FinishMatching, queue, cur
  <2>2. \A i \in DOMAIN log[cur + 1] : Answered(i)
    BY <1>4, <2>1 DEF WorkIsDone
  <2>3. fired = {} => cur \in Settled
    BY <1>4, <2>1, <2>2, AnsweredSettles DEF Answered
  <2>4. \A i \in DOMAIN log[cur + 1] : Answered(i)'
    BY <2>1, <2>2 DEF Answered
  <2>5. QED
    BY <1>1, <1>2, <2>1, <2>3, <2>4 DEF WorkIsDone
<1>7. CASE RecordAlerts
  <2>1. /\ pc = "alerts" /\ pc' = "notifications" /\ alerts' = alerts \cup {row.id : row \in fired}
        /\ cur' = cur /\ UNCHANGED <<fired, quiet>>
    BY <1>7 DEF RecordAlerts, Skip, queue, cur
  <2>2. \A i \in DOMAIN log[cur + 1] : Answered(i)'
    BY <2>1 DEF WorkIsDone, Answered
  <2>3. QED
    BY <1>2, <2>1, <2>2 DEF WorkIsDone
<1>8. CASE RecordNotifications
  <2>1. /\ pc = "notifications" /\ pc' = "commit" /\ notes' = Insert(notes, fired)
        /\ cur' = cur /\ UNCHANGED <<quiet, alerts>>
    BY <1>8 DEF RecordNotifications, Skip, queue, cur
  <2>2. \A row \in fired : Recorded(row.id[1])'
    <3>1. ASSUME NEW row \in fired PROVE Recorded(row.id[1])'
      <4>1. PICK kept \in notes' : kept.id = row.id
        BY <2>1, InsertKeeps
      <4>2. row.id \in alerts'
        BY <2>1 DEF WorkIsDone
      <4>3. QED
        BY <4>1, <4>2 DEF Recorded
    <3>2. QED
      BY <3>1
  <2>3. \A i \in DOMAIN log[cur + 1] : log[cur + 1][i] # Failure
    BY <2>1 DEF WorkIsDone, Answered
  <2>4. \A x \in Matches(cur) : x \in quiet \/ \E row \in fired : row.id[1] = x
    <3>1. \A i \in 1 .. Len(log[cur + 1]) : <<cur, i>> \in quiet \/ \E row \in fired : row.id[1] = <<cur, i>>
      BY <1>4, <2>1 DEF WorkIsDone, Answered
    <3>2. QED
      BY <3>1 DEF Matches
  <2>5. cur' \in Settled'
    <3>1. PICK o : o = cur
      OBVIOUS
    <3>2. Matches(o)' = Matches(o)
      BY DEF Matches
    <3>3. \A x \in Matches(o) : x \in quiet' \/ Recorded(x)'
      BY <2>1, <2>2, <2>4, <3>1 DEF Recorded
    <3>4. o \in Offsets' /\ \A i \in DOMAIN log'[o + 1] : log'[o + 1][i] # Failure
      BY <1>4, <2>1, <2>3, <3>1 DEF Offsets
    <3>5. o \in Settled'
      BY <3>2, <3>3, <3>4 DEF Settled
    <3>6. QED
      BY <2>1, <3>1, <3>5
  <2>6. QED
    BY <1>2, <2>1, <2>5 DEF WorkIsDone
<1>9. QED
  BY <1>3, <1>5, <1>6, <1>7, <1>8

LEMMA DoneStep == TypeInv /\ TypeInv' /\ WorkIsDone /\ [Next]_vars => WorkIsDone'
<1> SUFFICES ASSUME TypeInv, TypeInv', WorkIsDone, [Next]_vars PROVE WorkIsDone'
  OBVIOUS
<1>1. EffectsStay
  BY StepKeepsEffects
<1>2. CASE Tick \/ Notifier \/ CrashNotifier \/ UNCHANGED vars
  <2>1. UNCHANGED <<log, committed, position, pc, evaluated, fired, quiet, alerts>>
    BY <1>2 DEF Tick, Notifier, Poll, Post, InsertUpdates, CrashNotifier, vars, matcher, queue
  <2>2. QED
    BY <1>1, <2>1, DoneByOthers
<1>3. CASE Publish
  BY <1>1, <1>3, DoneByPublish
<1>4. CASE /\ Receive \/ Evaluate \/ FinishMatching \/ RecordAlerts \/ RecordNotifications
           /\ pc' # "recv"
  <2>1. log' = log /\ committed' = committed /\ skipped' = skipped
    BY <1>4 DEF Receive, Evaluate, FinishMatching, RecordAlerts, RecordNotifications, Skip, queue
  <2>2. Through' = Through
    <3>1. \/ pc = "recv" /\ position' = position + 1
          \/ pc # "recv" /\ position' = position
      BY <1>4 DEF Receive, Evaluate, FinishMatching, RecordAlerts, RecordNotifications, queue
    <3>2. position \in Nat
      BY DEF TypeInv, TypeOK
    <3>3. QED
      BY <1>4, <3>1, <3>2 DEF Through, cur
  <2>3. QED
    BY <1>1, <1>4, <2>1, <2>2, DoneByWork
<1>5. CASE EvaluationFails \/ ((RecordAlerts \/ RecordNotifications) /\ pc' = "recv")
  <2>1. /\ log' = log /\ committed' = committed /\ position' = position /\ pc' = "recv" /\ pc # "recv"
        /\ cur \in skipped'
    BY <1>5 DEF EvaluationFails, RecordAlerts, RecordNotifications, Skip, queue
  <2>2. QED
    BY <1>1, <2>1, DoneByLeaving
<1>6. CASE CommitMessage \/ Rejoin \/ CrashWorker
  <2>1. /\ log' = log /\ pc' = "recv"
        /\ \/ committed' = cur + 1 /\ pc = "commit" /\ position' \in {position, committed'}
           \/ committed' = committed /\ position' = committed
    BY <1>6 DEF CommitMessage, Acknowledge, Rejoin, CrashWorker
  <2>2. pc = "commit" => position = cur + 1
    BY CurrentType DEF TypeInv
  <2>3. QED
    BY <1>1, <2>1, <2>2, DoneByLeaving
<1>7. ASSUME Receive \/ Evaluate \/ FinishMatching PROVE pc' # "recv"
  BY <1>7 DEF Receive, Evaluate, FinishMatching
<1>8. QED
  BY <1>2, <1>3, <1>4, <1>5, <1>6, <1>7 DEF Next, Worker

LEMMA DoneAlways == Spec => [](TypeInv /\ WorkIsDone)
<1>1. TypeInv /\ WorkIsDone /\ [Next]_vars => (TypeInv /\ WorkIsDone)'
  BY TypeStep, DoneStep
<1>2. QED
  BY <1>1, InitType, InitDone, PTL DEF Spec

LEMMA ContractInit == Init => Contract!Init
<1> SUFFICES ASSUME Init PROVE Contract!Init
  OBVIOUS
<1>1. Len(log) = 0
  BY DEF Init
<1>2. Settled = {} /\ skipped = {} /\ committed = 0
  BY <1>1 DEF Init, Settled, Offsets
<1>3. QED
  BY <1>1, <1>2 DEF Contract!Init

LEMMA ContractStep ==
  TypeInv /\ TypeInv' /\ WorkIsDone /\ [Next]_vars => [Contract!Next]_Contract!vars
<1> SUFFICES ASSUME TypeInv, TypeInv', WorkIsDone, [Next]_vars PROVE Contract!Next \/ UNCHANGED Contract!vars
  OBVIOUS
<1>1. Contract!Published = {"normalized"} \X Offsets /\ Contract!Published' = {"normalized"} \X Offsets'
  BY DEF Contract!Published, Offsets
<1>2. EffectsStay
  BY StepKeepsEffects
<1>3. CASE Publish
  <2>1. PICK m \in Messages : log' = Append(log, m)
    BY <1>3 DEF Publish
  <2>2. Len(log') = Len(log) + 1
    BY <2>1 DEF TypeInv, TypeOK
  <2>3. [p \in {"normalized"} |-> Len(log')] = [[p \in {"normalized"} |-> Len(log)] EXCEPT !["normalized"] = @ + 1]
    BY <2>2
  <2>4. Settled' \in {Settled, Settled \cup {Len(log)}}
    BY <1>3, PublishSettles DEF TypeInv
  <2>5. {"normalized"} \X Settled' \in
          {{"normalized"} \X Settled, ({"normalized"} \X Settled) \cup {<<"normalized", Len(log)>>}}
    BY <2>4
  <2>6. UNCHANGED <<skipped, committed>>
    BY <1>3 DEF Publish
  <2>7. Contract!Publish("normalized")
    BY <2>3, <2>5, <2>6 DEF Contract!Publish
  <2>8. QED
    BY <2>7 DEF Contract!Next
<1>4. CASE UNCHANGED <<log, committed>>
  <2>1. Settled \subseteq Settled'
    BY <1>2, <1>4, SettledGrows DEF Offsets
  <2>2. Settled' \subseteq Offsets /\ skipped' \subseteq Offsets /\ skipped \subseteq skipped'
    <3>1. Offsets' = Offsets
      BY <1>4 DEF Offsets
    <3>2. QED
      BY <1>2, <3>1 DEF Settled, TypeInv, TypeOK, EffectsStay
  <2>3. Contract!Process
    <3>1. {"normalized"} \X Settled \subseteq {"normalized"} \X Settled' /\ {"normalized"} \X skipped \subseteq {"normalized"} \X skipped'
      BY <2>1, <2>2
    <3>2. {"normalized"} \X Settled' \subseteq {"normalized"} \X Offsets /\ {"normalized"} \X skipped' \subseteq {"normalized"} \X Offsets
      BY <2>2
    <3>3. [p \in {"normalized"} |-> Len(log')] = [p \in {"normalized"} |-> Len(log)]
      BY <1>4
    <3>4. [p \in {"normalized"} |-> committed'] = [p \in {"normalized"} |-> committed]
      BY <1>4
    <3>5. QED
      BY <1>1, <3>1, <3>2, <3>3, <3>4 DEF Contract!Process
  <2>4. QED
    BY <2>3 DEF Contract!Next
<1>5. CASE pc = "commit" /\ Acknowledge /\ UNCHANGED <<log, notes, alerts, quiet, skipped>>
  <2>1. Settled' = Settled
    BY <1>5 DEF Settled, Offsets, Matches, Recorded
  <2>2. cur \in Settled /\ \A o \in Nat : o < cur => o \in Settled \cup skipped
    BY <1>5 DEF WorkIsDone, Through
  <2>3. cur \in Nat /\ cur + 1 \in 0 .. Len(log)
    BY <1>5, CurrentType DEF TypeInv, Offsets
  <2>4. \A o \in 0 .. (cur + 1) - 1 : o \in Settled \cup skipped
    BY <2>2, <2>3
  <2>5. committed' = cur + 1
    BY <1>5 DEF Acknowledge
  <2>6. Contract!Commit("normalized")
    BY <1>5, <2>1, <2>3, <2>4, <2>5 DEF Contract!Commit
  <2>7. QED
    BY <2>6 DEF Contract!Next
<1>6. QED
  BY <1>3, <1>4, <1>5 DEF Next, vars, Tick, Worker, Receive, Evaluate, EvaluationFails, FinishMatching, RecordAlerts,
     RecordNotifications, CommitMessage, Rejoin, CrashWorker, Notifier, Poll, Post, InsertUpdates, CrashNotifier, matcher,
     queue

\* The alert worker keeps the consumer contract: its committed offset passes only messages
\* whose matches were all suppressed or recorded, or that an attempt returned an error for.
THEOREM AlertsImplementContract == Spec => ImplementsContract
<1>1. TypeInv /\ TypeInv' /\ WorkIsDone /\ [Next]_vars => [Contract!Next]_Contract!vars
  BY ContractStep
<1>2. QED
  BY <1>1, ContractInit, DoneAlways, PTL DEF Spec, ImplementsContract, Contract!Spec
=============================================================================
