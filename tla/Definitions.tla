----------------------------- MODULE Definitions -----------------------------
(***************************************************************************)
(* apps/server/src/definitions.rs, the rows of the definitions table, and  *)
(* what follows from them in the serving plane.                            *)
(*                                                                         *)
(* Every change of a definition is one more row; the table is a            *)
(* ReplacingMergeTree on updated_at, so that the row with the greatest     *)
(* time stands for the definition and of equal ones the last inserted.     *)
(* The API creates, deletes, seeds and backfills; the normalizer inserts   *)
(* managed definitions its process has not seen yet; the materializer      *)
(* loads the active ones at the start of a pass and indexes each commit    *)
(* with those; a query looks up which field paths an index is proven for.  *)
(*                                                                         *)
(* ClickHouse is external: its deduplication drops an insert whose token   *)
(* was used, whatever the rows are.                                        *)
(***************************************************************************)
EXTENDS Naturals, Sequences, SequencesExt, FiniteSets

CONSTANTS
    Slugs,        \* names users give definitions
    Outputs,      \* Outputs[n]: the field names a definition fills, or <<>> for a
                  \* kind without a synchronous backfill
    Requests,     \* processes of the API, one request each at a time
    Workers,      \* normalizer workers
    Times,        \* event times
    Windows,      \* Windows: pairs of times that requests and queries are for
    MaxClock,     \* bound: milliseconds
    MaxRows,      \* bound: rows inserted into definitions
    MaxCommits,   \* bound: lakehouse commits, of one event each
    MaxAsked,     \* bound: requests, queries and events that carry a definition
    MaxFaults     \* bound: failed statements, crashes and restarts

ASSUME BoundsAssumption ==
    /\ MaxClock \in Nat \ {0} /\ MaxRows \in Nat \ {0} /\ MaxCommits \in Nat
    /\ MaxAsked \in Nat /\ MaxFaults \in Nat
ASSUME TimesAssumption == Times \subseteq Nat /\ Windows \subseteq Times \X Times

OutputNames == UNION {Range(Outputs[n]) : n \in Slugs}

ASSUME OutputsAssumption == Outputs \in [Slugs -> Seq(OutputNames)]

VARIABLES
    clock,      \* wall clock in milliseconds
    rows,       \* physical rows of definitions, in the order of insertion
    inserted,   \* rows inserted so far
    asked,      \* requests and queries so far
    req,        \* req[r]: the request a process of the API serves
    cache,      \* cache[w]: managed definitions the worker has inserted
    lake,       \* lake[n]: time of the event of commit n, be it there now or later
    events,     \* commits in the events table
    index,      \* rows of definition-backed tables, by commit and output
    tokens,     \* commits whose derived rows are inserted
    recorded,   \* last commit in lakehouse_commits
    served,     \* last commit in serving_watermarks
    pass,       \* the materializer's pass
    marks,      \* rows of materialization_watermarks
    query,      \* a query on the path of a definition
    missed,     \* history: definitions a pass leaves out of a commit
    faults

table == <<rows, inserted>>
serving == <<events, index, tokens, recorded, served>>
vars == <<clock, table, asked, req, cache, lake, serving, pass, marks, query, missed, faults>>

-------------------------------------------------------------------------------
(* The definitions table.                                                  *)

\* def_<slug>_<milliseconds>, sdk_metric_default_v1, sdk_managed_...
UserId(n, ms) == <<"user", n, ms>>
Default == <<"default", 0, 0>>
Managed == <<"managed", 0, 0>>

IsUser(id) == id[1] = "user"

Row(id, deleted, at, ver) == [id |-> id, deleted |-> deleted, at |-> at, ver |-> ver]
NoRow == Row(Default, TRUE, 0, 0)

\* The default that an earlier release has left, with the configuration of that release;
\* what this one inserts is younger.
EarlierSeed == Row(Default, FALSE, 0, 1)

\* FINAL: the row that stands for id among the rows rs.
Stands(rs, i) ==
    \A j \in DOMAIN rs : rs[j].id = rs[i].id =>
        \/ rs[j].at < rs[i].at
        \/ rs[j].at = rs[i].at /\ j <= i
Final(rs) == {rs[i] : i \in {k \in DOMAIN rs : Stands(rs, k)}}

\* get_record and active_definitions: FINAL, enabled and not deleted.
Active(rs) == {d \in Final(rs) : ~d.deleted}
IsActive(rs, id) == \E d \in Active(rs) : d.id = id

Key(d) == <<d.id, d.ver>>

Insert(d) ==
    /\ inserted < MaxRows
    /\ inserted' = inserted + 1
    /\ rows' = Append(rows, d)

\* A background merge drops a row that another one replaces.
Merge(i) ==
    /\ ~Stands(rows, i)
    /\ rows' = RemoveAt(rows, i)
    /\ UNCHANGED <<clock, inserted, asked, req, cache, lake, serving, pass, marks, query,
                   missed, faults>>

\* A running pass does not hold a definition that comes up now, and no pass since
\* its deletion held one that a twin of the same identifier brings back.
Race(d) ==
    IF pass.pc \notin {"idle", "listed"} \/ \E i \in DOMAIN rows : rows[i].id = d.id
    THEN missed \union {Key(d)}
    ELSE missed

-------------------------------------------------------------------------------
(* The API.                                                                *)

Idle == [pc |-> "idle", row |-> NoRow, fill |-> FALSE, low |-> 0, high |-> 0, outputs |-> <<>>]

Goto(r, q) == req' = [req EXCEPT ![r] = q]
Done(r) == Goto(r, Idle)

Ask == asked < MaxAsked /\ asked' = asked + 1

NoServing == UNCHANGED <<cache, lake, serving, pass, query>>

\* create reads the clock twice: the row has the first time, the identifier and the
\* version are the second, at which the row is complete.
Create(r, n, fill, win) ==
    /\ req[r].pc = "idle"
    /\ Ask
    /\ \E now \in 1..clock :
        Goto(r, [pc |-> "create", row |-> Row(UserId(n, clock), FALSE, now, clock),
                 fill |-> fill, low |-> win[1], high |-> win[2], outputs |-> Outputs[n]])
    /\ UNCHANGED <<clock, table, marks, missed, faults>> /\ NoServing

\* The definition is inserted before its backfill is looked at: one whose kind
\* has no synchronous backfill is refused with the definition in place.
InsertCreated(r) ==
    LET q == req[r]
    IN  /\ q.pc = "create"
        /\ Insert(q.row)
        /\ missed' = Race(q.row)
        /\ Goto(r, IF q.fill /\ q.outputs # <<>> THEN [q EXCEPT !.pc = "fill"] ELSE Idle)
        /\ UNCHANGED <<clock, asked, marks, faults>> /\ NoServing

\* delete reads the definition, then the clock twice as create does, and inserts the
\* definition once more as deleted.
Delete(r, id) ==
    /\ req[r].pc = "idle"
    /\ Ask
    /\ \E d \in Active(rows) :
        /\ d.id = id
        /\ Goto(r, [Idle EXCEPT !.pc = "deleting", !.row = Row(id, TRUE, clock, clock)])
    /\ UNCHANGED <<clock, table, marks, missed, faults>> /\ NoServing

StampDeleted(r) ==
    LET q == req[r]
    IN  /\ q.pc = "deleting"
        /\ \E now \in q.row.at..clock :
            Goto(r, [q EXCEPT !.pc = "delete", !.row = Row(q.row.id, TRUE, now, clock)])
        /\ UNCHANGED <<clock, table, asked, marks, missed, faults>> /\ NoServing

InsertDeleted(r) ==
    /\ req[r].pc = "delete"
    /\ Insert(req[r].row)
    /\ Done(r)
    /\ UNCHANGED <<clock, asked, marks, missed, faults>> /\ NoServing

\* seed_sdk_defaults: the desired row is built first, with the time of that, and
\* inserted unless the read finds an active row with the same configuration: one this
\* release has inserted.
Seed(r) ==
    /\ req[r].pc = "idle"
    /\ Ask
    /\ Goto(r, [Idle EXCEPT !.pc = "seed", !.row = Row(Default, FALSE, clock, 1)])
    /\ UNCHANGED <<clock, table, marks, missed, faults>> /\ NoServing

ReadSeeded(r) ==
    /\ req[r].pc = "seed"
    /\ Goto(r, IF \E d \in Active(rows) : d.id = Default /\ d.at > EarlierSeed.at
               THEN Idle ELSE [req[r] EXCEPT !.pc = "seeding"])
    /\ UNCHANGED <<clock, table, asked, marks, missed, faults>> /\ NoServing

InsertSeeded(r) ==
    /\ req[r].pc = "seeding"
    /\ Insert(req[r].row)
    /\ Done(r)
    /\ UNCHANGED <<clock, asked, marks, missed, faults>> /\ NoServing

\* backfill of a definition that exists.
Backfill(r, win) ==
    /\ req[r].pc = "idle"
    /\ Ask
    /\ \E d \in Active(rows) :
        /\ IsUser(d.id) /\ Outputs[d.id[2]] # <<>>
        /\ Goto(r, [pc |-> "fill", row |-> d, fill |-> TRUE, low |-> win[1], high |-> win[2],
                    outputs |-> Outputs[d.id[2]]])
    /\ UNCHANGED <<clock, table, marks, missed, faults>> /\ NoServing

\* Per output one INSERT ... SELECT from the events table, for a window closed on both ends.
InWindow(n, low, high) == lake[n] >= low /\ lake[n] <= high

FillOutput(r) ==
    LET q == req[r]
    IN  /\ q.pc = "fill"
        /\ q.outputs # <<>>
        /\ index' = index \union {[commit |-> n, key |-> Key(q.row), output |-> Head(q.outputs)] :
                                    n \in {m \in events : InWindow(m, q.low, q.high)}}
        /\ Goto(r, [q EXCEPT !.outputs = Tail(@)])
        /\ UNCHANGED <<clock, table, asked, cache, lake, events, tokens, recorded, served, pass,
                       marks, query, missed, faults>>

\* Mutant: the watermark is written while outputs are still to fill.
MarkFilledEarly(r) ==
    LET q == req[r]
    IN  /\ q.pc = "fill"
        /\ marks' = marks \union {[key |-> Key(q.row), low |-> q.low, high |-> q.high]}
        /\ Done(r)
        /\ UNCHANGED <<clock, table, asked, missed, faults>> /\ NoServing

\* Mutant: the definition is inserted again, as backfilled now.
MarkFilledTouching(r) ==
    LET q == req[r]
    IN  /\ q.pc = "fill"
        /\ q.outputs = <<>>
        /\ Insert([q.row EXCEPT !.at = clock])
        /\ marks' = marks \union {[key |-> Key(q.row), low |-> q.low, high |-> q.high]}
        /\ Done(r)
        /\ UNCHANGED <<clock, asked, missed, faults>> /\ NoServing

\* insert_stats ends with the materialization watermark.
MarkFilled(r) ==
    LET q == req[r]
    IN  /\ q.pc = "fill"
        /\ q.outputs = <<>>
        /\ marks' = marks \union {[key |-> Key(q.row), low |-> q.low, high |-> q.high]}
        /\ Done(r)
        /\ UNCHANGED <<clock, table, asked, missed, faults>> /\ NoServing

Fault == faults < MaxFaults /\ faults' = faults + 1

\* A statement fails, or the process ends between two of them: the request is
\* answered with an error and leaves what it has done.
Fail(r) ==
    /\ req[r].pc # "idle"
    /\ Fault
    /\ Done(r)
    /\ UNCHANGED <<clock, table, asked, marks, missed>> /\ NoServing

-------------------------------------------------------------------------------
(* The normalizer's managed definitions.                                   *)

\* ensure_managed_definitions inserts what the process has not inserted, without
\* a look at the table; a failed insert leaves the cache as it was.
EnsureManaged(w) ==
    LET d == Row(Managed, FALSE, clock, clock)
    IN  /\ ~cache[w]
        /\ Ask
        /\ Insert(d)
        /\ cache' = [cache EXCEPT ![w] = TRUE]
        /\ missed' = Race(d)
        /\ UNCHANGED <<clock, req, lake, serving, pass, marks, query, faults>>

RestartWorker(w) ==
    /\ cache[w]
    /\ Fault
    /\ cache' = [cache EXCEPT ![w] = FALSE]
    /\ UNCHANGED <<clock, table, asked, req, lake, serving, pass, marks, query, missed>>

-------------------------------------------------------------------------------
(* The incremental materializer.                                           *)

NoPass == [pc |-> "idle", defs |-> {}, last |-> 0]

NoDefinitions == UNCHANGED <<clock, table, asked, req, cache, lake, marks, query>>

\* run_materializer_pass: the commits that are there are read before the
\* definitions.
ListCommits(last) ==
    /\ pass.pc = "idle"
    /\ served < last
    /\ pass' = [NoPass EXCEPT !.pc = "listed", !.last = last]
    /\ UNCHANGED <<serving, missed, faults>> /\ NoDefinitions

LoadDefinitions ==
    /\ pass.pc = "listed"
    /\ pass' = [pass EXCEPT !.pc = "events", !.defs = {Key(d) : d \in Active(rows)}]
    /\ UNCHANGED <<serving, missed, faults>> /\ NoDefinitions

\* materialize_rows of the next commit: the events first, then the derived rows.
InsertEvents ==
    /\ pass.pc = "events"
    /\ events' = events \union {served + 1}
    /\ pass' = [pass EXCEPT !.pc = "derived"]
    /\ UNCHANGED <<index, tokens, recorded, served, missed, faults>> /\ NoDefinitions

Derived(n, key) ==
    {[commit |-> n, key |-> key, output |-> o] : o \in Range(Outputs[key[1][2]])}

\* Of definitions with one name a field value of an event is indexed for one only:
\* the rows of an event are told apart by mode, field name, type and value
\* (push_field_index_row).  firsts are those the query of definitions gave first.
Named(defs, key) == {k \in defs : k[1][2] = key[1][2]}

InsertDerived ==
    LET n == served + 1
        users == {key \in pass.defs : IsUser(key[1])}
    IN  /\ pass.pc = "derived"
        /\ tokens' = tokens \union {n}
        /\ IF n \in tokens THEN UNCHANGED <<index, missed>>
           ELSE \E firsts \in SUBSET users :
                    /\ \A key \in users : Cardinality(Named(firsts, key)) = 1
                    /\ index' = index \union UNION {Derived(n, key) : key \in firsts}
                    /\ missed' = missed \union (users \ firsts)
        /\ pass' = [pass EXCEPT !.pc = "record"]
        /\ UNCHANGED <<events, recorded, served, faults>> /\ NoDefinitions

\* insert_commit_metadata, and then the watermarks.
RecordCommit ==
    /\ pass.pc = "record"
    /\ recorded' = IF recorded > served THEN recorded ELSE served + 1
    /\ pass' = [pass EXCEPT !.pc = "mark"]
    /\ UNCHANGED <<events, index, tokens, served, missed, faults>> /\ NoDefinitions

AdvanceWatermarks ==
    /\ pass.pc = "mark"
    /\ served' = served + 1
    /\ pass' = IF served' = pass.last THEN NoPass ELSE [pass EXCEPT !.pc = "events"]
    /\ UNCHANGED <<events, index, tokens, recorded, missed, faults>> /\ NoDefinitions

Crash ==
    /\ pass.pc # "idle"
    /\ Fault
    /\ pass' = NoPass
    /\ UNCHANGED <<serving, missed>> /\ NoDefinitions

-------------------------------------------------------------------------------
(* Queries: events_query with a filter on the path of a definition, which  *)
(* does not allow stale data.                                              *)

NoQuery == [pc |-> "idle", low |-> 0, high |-> 0, floor |-> 0, indexed |-> {},
            proven |-> {}, fresh |-> FALSE, by |-> "none", key |-> <<Default, 0>>,
            output |-> "none"]

NoWriter == UNCHANGED <<clock, table, req, cache, lake, serving, pass, marks, missed, faults>>

\* indexed_field_paths: definitions with rows in the index, of any window.  floor
\* is what the tables were caught up with when the query came in.
ReadPaths(win) ==
    /\ query.pc = "idle"
    /\ Ask
    /\ query' = [NoQuery EXCEPT !.pc = "proven", !.low = win[1], !.high = win[2], !.floor = served,
                                !.indexed = {<<x.key, x.output>> : x \in index}]
    /\ NoWriter

\* Mutant: a watermark over a part of the window is taken for a proof.
ReadProvenPart ==
    /\ query.pc = "proven"
    /\ query' = [query EXCEPT !.pc = "fresh",
            !.proven = {m.key : m \in {k \in marks : k.low <= query.high /\ k.high >= query.low}}]
    /\ NoWriter /\ UNCHANGED asked

\* fresh_materialized_definition_versions: watermarks over the whole window.
ReadProven ==
    /\ query.pc = "proven"
    /\ query' = [query EXCEPT !.pc = "fresh",
            !.proven = {m.key : m \in {k \in marks : k.low <= query.low /\ k.high >= query.high}}]
    /\ NoWriter /\ UNCHANGED asked

\* serving_table_fresh.
ReadFresh ==
    /\ query.pc = "fresh"
    /\ query' = [query EXCEPT !.pc = "catalog", !.fresh = recorded > 0 /\ served >= recorded]
    /\ NoWriter /\ UNCHANGED asked

\* event_field_catalog promotes the path of an output by either proof; without
\* one the filter falls back to the generic index, which is none of this module.
ReadCatalog(d, o) ==
    LET promoted(by) == [query EXCEPT !.pc = "run", !.by = by, !.key = Key(d), !.output = o]
    IN  /\ query.pc = "catalog"
        /\ query' = IF Key(d) \in query.proven THEN promoted("watermark")
                    ELSE IF query.fresh /\ <<Key(d), o>> \in query.indexed THEN promoted("serving")
                    ELSE NoQuery
        /\ NoWriter /\ UNCHANGED asked

\* The filter selects the events with an index row.
Found == {n \in events :
            /\ InWindow(n, query.low, query.high)
            /\ \E x \in index : x.commit = n /\ x.key = query.key /\ x.output = query.output}

\* ensure_serving_fresh looks at the events table, not at the index the catalog
\* has proven.
Answers == query.pc = "run" /\ served >= recorded

\* The query runs, or is refused where its tables are behind.
Run ==
    /\ query.pc = "run"
    /\ query' = NoQuery
    /\ NoWriter /\ UNCHANGED asked

-------------------------------------------------------------------------------
Tick ==
    /\ clock < MaxClock
    /\ clock' = clock + 1
    /\ UNCHANGED <<table, asked, req, cache, lake, serving, pass, marks, query, missed, faults>>

Ids == {rows[i].id : i \in DOMAIN rows}

Api(r) ==
    \/ \E n \in Slugs, fill \in BOOLEAN, win \in Windows : Create(r, n, fill, win)
    \/ InsertCreated(r)
    \/ \E id \in Ids : Delete(r, id)
    \/ StampDeleted(r) \/ InsertDeleted(r)
    \/ Seed(r) \/ ReadSeeded(r) \/ InsertSeeded(r)
    \/ \E win \in Windows : Backfill(r, win)
    \/ FillOutput(r) \/ MarkFilled(r)
    \/ Fail(r)

Materializer ==
    \/ \E last \in DOMAIN lake : ListCommits(last)
    \/ LoadDefinitions \/ InsertEvents \/ InsertDerived
    \/ RecordCommit \/ AdvanceWatermarks \/ Crash

Query ==
    \/ \E win \in Windows : ReadPaths(win)
    \/ ReadProven \/ ReadFresh
    \/ \E d \in Active(rows) :
        IsUser(d.id) /\ \E o \in Range(Outputs[d.id[2]]) : ReadCatalog(d, o)
    \/ Run

Next ==
    \/ Tick
    \/ \E i \in DOMAIN rows : Merge(i)
    \/ \E r \in Requests : Api(r)
    \/ \E w \in Workers : EnsureManaged(w) \/ RestartWorker(w)
    \/ Materializer
    \/ Query

Init ==
    /\ clock = 1
    /\ rows \in {<<>>, <<EarlierSeed>>}
    /\ inserted = Len(rows)
    /\ asked = 0
    /\ req = [r \in Requests |-> Idle]
    /\ cache = [w \in Workers |-> FALSE]
    /\ lake \in [1..MaxCommits -> Times]
    /\ events = {}
    /\ index = {}
    /\ tokens = {}
    /\ recorded = 0
    /\ served = 0
    /\ pass = NoPass
    /\ marks = {}
    /\ query = NoQuery
    /\ missed = {}
    /\ faults = 0

Spec == Init /\ [][Next]_vars

-------------------------------------------------------------------------------
(* Properties.                                                             *)

DefinitionIds == {Default, Managed} \union {UserId(n, ms) : n \in Slugs, ms \in 1..MaxClock}
Definition == [id : DefinitionIds, deleted : BOOLEAN, at : 0..MaxClock, ver : 0..MaxClock]
Keys == DefinitionIds \X (0..MaxClock)

Ends == Times \union {0}
Request == [pc : {"idle", "create", "deleting", "delete", "seed", "seeding", "fill"}, row : Definition,
            fill : BOOLEAN, low : Ends, high : Ends, outputs : Seq(OutputNames)]
Pass == [pc : {"idle", "listed", "events", "derived", "record", "mark"}, defs : SUBSET Keys,
         last : Nat]
PathQuery == [pc : {"idle", "proven", "fresh", "catalog", "run"}, low : Ends, high : Ends,
              floor : Nat, indexed : SUBSET (Keys \X OutputNames), proven : SUBSET Keys,
              fresh : BOOLEAN, by : {"none", "watermark", "serving"}, key : Keys,
              output : OutputNames \union {"none"}]

\* Every variable holds what its comment says; the rows of an index are of commits
\* that are in the lakehouse, and what is served was recorded before.
TypeOK ==
    /\ clock \in 1..MaxClock
    /\ inserted \in 0..MaxRows /\ asked \in 0..MaxAsked /\ faults \in 0..MaxFaults
    /\ rows \in Seq(Definition) /\ Len(rows) <= inserted
    /\ \A i \in DOMAIN rows : rows[i].at <= clock
    /\ req \in [Requests -> Request]
    /\ \A r \in Requests : req[r].row.at <= clock
    /\ cache \in [Workers -> BOOLEAN]
    /\ lake \in [1..MaxCommits -> Times]
    /\ tokens \subseteq events /\ events \subseteq 1..MaxCommits
    /\ index \subseteq [commit : events, key : Keys, output : OutputNames]
    /\ served \in Nat /\ recorded \in Nat /\ served <= recorded /\ recorded <= MaxCommits
    /\ pass \in Pass
    /\ pass.pc # "idle" => served < pass.last /\ pass.last <= MaxCommits
    /\ pass.pc = "derived" => served + 1 \in events
    /\ pass.pc = "mark" => served < recorded
    /\ marks \subseteq [key : Keys, low : Ends, high : Ends]
    /\ query \in PathQuery
    /\ missed \subseteq Keys

\* A definition that was deleted stays deleted: neither a merge nor another
\* request brings it back, except a create of the same slug whose identifier is of
\* the same millisecond.
DeletionIsFinal ==
    [][\A i \in DOMAIN rows :
        /\ IsUser(rows[i].id) /\ ~IsActive(rows, rows[i].id)
        /\ IsActive(rows', rows[i].id)
        => \E r \in Requests : req[r].pc = "create" /\ req[r].row.id = rows[i].id
                                /\ inserted' = inserted + 1]_vars

\* What a materialization watermark says holds from then on, whatever commits,
\* crashes and deduplicated inserts follow: every served commit of the window is
\* in each output of the definition.  It is only said of definitions that no
\* pass was running without when they were inserted, and that were not left out
\* for another one of the same name.
CoveredWindowIsIndexed ==
    \A m \in marks :
        m.key \notin missed /\ IsActive(rows, m.key[1]) =>
            \A n \in 1..served : InWindow(n, m.low, m.high) =>
                \A o \in Range(Outputs[m.key[1][2]]) :
                    [commit |-> n, key |-> m.key, output |-> o] \in index

Complete == \A n \in 1..query.floor : InWindow(n, query.low, query.high) => n \in Found

\* A query that filters through an index a watermark has proven finds every
\* event of its window the tables were caught up with when it came in.
PromotedReadsAreComplete ==
    Answers /\ query.by = "watermark" /\ query.key \notin missed /\ IsActive(rows, query.key[1])
        => Complete
===============================================================================
