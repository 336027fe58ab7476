------------------------------ MODULE ApiKeys ------------------------------
(***************************************************************************)
(* crates/auth: API keys in Postgres and the in-memory cache each server   *)
(* process answers requests from.  A mutation changes the rows and then    *)
(* replaces the cache of its own process; a refresher does so in every     *)
(* process at an interval.  A replacement is two steps, the query and the  *)
(* store, and replacements of one process may overlap.                     *)
(*                                                                         *)
(* Postgres is external: a statement reads what is committed when it       *)
(* starts, and the rows a transaction has written are locked until it      *)
(* ends.                                                                   *)
(***************************************************************************)
EXTENDS Naturals

CONSTANTS
  Servers,               \* server processes, each with a cache and a refresher
  Handlers,              \* concurrent requests that change keys
  Home,                  \* Home[h]: the server that handles h
  Orgs,                  \* organizations, not archived at first
  Keys,                  \* keys that may be created
  Owner,                 \* Owner[k]: the organization of k
  MaxFaults              \* bound: failed statements and crashes

ASSUME KeysAssumption ==
  /\ Servers \cap Handlers = {}
  /\ Home \in [Handlers -> Servers]
  /\ Owner \in [Keys -> Orgs]
  /\ MaxFaults \in Nat

VARIABLES
  issued,                \* rows of nanotrace_api_keys
  revoked,               \* rows with revoked_at
  expired,               \* rows whose expires_at has passed
  archived,              \* organizations with archived_at
  cache,                 \* cache[s]: the keys of api_key_cache
  pc,                    \* where each refresher and handler is
  arg,                   \* arg[h]: the key or organization h works on
  marked,                \* marked[h]: the rows an archiving transaction has revoked
  rows,                  \* rows[t]: what the query of a refresh returned
  faults                 \* faults so far, at most MaxFaults

table == <<issued, revoked, expired, archived>>
vars == <<table, cache, pc, arg, marked, rows, faults>>

Tasks == Servers \cup Handlers
HomeOf(t) == IF t \in Servers THEN t ELSE Home[t]

\* A server answers requests once its first refresh is stored.
Running(s) == pc[s] \notin {"connect", "load"}

\* Mutant of Active: the query does not look at the organization.
ActiveByRevocation == issued \ (revoked \cup expired)

\* The rows the query of a refresh returns.
Active == {k \in issued \ (revoked \cup expired) : Owner[k] \notin archived}

Init ==
  /\ issued = {}
  /\ revoked = {}
  /\ expired = {}
  /\ archived = {}
  /\ cache = [s \in Servers |-> {}]
  /\ pc = [t \in Tasks |-> IF t \in Servers THEN "connect" ELSE "idle"]
  /\ arg = [h \in Handlers |-> "none"]
  /\ marked = [h \in Handlers |-> {}]
  /\ rows = [t \in Tasks |-> {}]
  /\ faults = 0

Fault == faults < MaxFaults /\ faults' = faults + 1

Goto(t, step) == pc' = [pc EXCEPT ![t] = step]

\* A request arrives at the server of h and its first statement finds what it looks for.
Start(h, x, step) ==
  /\ pc[h] = "idle" /\ Running(Home[h])
  /\ arg' = [arg EXCEPT ![h] = x]
  /\ Goto(h, step)

----------------------------------------------------------------------------
(* Changes of the rows. *)

\* create_api_key, of a key nobody has: the organization is looked up in one statement...
CheckOrganization(h, k) ==
  /\ k \notin issued /\ \A g \in Handlers : arg[g] # k
  /\ Owner[k] \notin archived
  /\ Start(h, k, "insert")
  /\ UNCHANGED <<table, cache, marked, rows, faults>>

\* ...and the row inserted in another.
InsertKey(h) ==
  /\ pc[h] = "insert"
  /\ issued' = issued \cup {arg[h]}
  /\ Goto(h, "query")
  /\ UNCHANGED <<revoked, expired, archived, cache, arg, marked, rows, faults>>

\* revoke_api_key, which waits for a transaction that has written the row.
RevokeKey(h, k) ==
  /\ k \in issued /\ \A g \in Handlers : k \notin marked[g]
  /\ Start(h, k, "query")
  /\ revoked' = revoked \cup {k}
  /\ UNCHANGED <<issued, expired, archived, cache, marked, rows, faults>>

KeysOf(o) == {k \in issued : Owner[k] = o}

\* archive_organization: the transaction revokes the rows it finds...
MarkKeys(h, o) ==
  /\ o \notin archived
  /\ \A g \in Handlers : ~(pc[g] = "commit" /\ arg[g] = o)
  /\ Start(h, o, "commit")
  /\ marked' = [marked EXCEPT ![h] = KeysOf(o)]
  /\ UNCHANGED <<table, cache, rows, faults>>

\* ...and commits.
CommitArchive(h) ==
  /\ pc[h] = "commit"
  /\ archived' = archived \cup {arg[h]}
  /\ revoked' = revoked \cup marked[h]
  /\ marked' = [marked EXCEPT ![h] = {}]
  /\ Goto(h, "query")
  /\ UNCHANGED <<issued, expired, cache, arg, rows, faults>>

ExpireKey(k) ==
  /\ k \in issued \ expired
  /\ expired' = expired \cup {k}
  /\ UNCHANGED <<issued, revoked, archived, cache, pc, arg, marked, rows, faults>>

----------------------------------------------------------------------------
(* refresh_api_key_cache, called by connect, by every change and by the    *)
(* refresher of a process.                                                 *)

Wake(s) ==
  /\ pc[s] = "sleep"
  /\ Goto(s, "query")
  /\ UNCHANGED <<table, cache, arg, marked, rows, faults>>

QueryKeys(t) ==
  /\ \/ pc[t] = "connect" /\ Goto(t, "load")
     \/ pc[t] = "query" /\ Goto(t, "store")
  /\ rows' = [rows EXCEPT ![t] = Active]
  /\ UNCHANGED <<table, cache, arg, marked, faults>>

\* The map is replaced; a handler answers its request.
StoreKeys(t) ==
  /\ pc[t] \in {"load", "store"}
  /\ cache' = [cache EXCEPT ![HomeOf(t)] = rows[t]]
  /\ rows' = [rows EXCEPT ![t] = {}]
  /\ IF t \in Servers THEN Goto(t, "sleep") /\ UNCHANGED arg
     ELSE Goto(t, "idle") /\ arg' = [arg EXCEPT ![t] = "none"]
  /\ UNCHANGED <<table, marked, faults>>

----------------------------------------------------------------------------
(* Failures. *)

\* A statement fails: a request is answered with the error, what it has committed stays;
\* the refresher logs and sleeps; connect fails and the process is started again.
Fail(t) ==
  /\ Fault
  /\ \/ /\ t \in Handlers /\ pc[t] \in {"insert", "commit", "query"}
        /\ Goto(t, "idle")
        /\ arg' = [arg EXCEPT ![t] = "none"]
        /\ marked' = [marked EXCEPT ![t] = {}]
     \/ /\ t \in Servers /\ pc[t] = "query"
        /\ Goto(t, "sleep")
        /\ UNCHANGED <<arg, marked>>
  /\ UNCHANGED <<table, cache, rows>>

\* The process ends and is started again: transactions roll back, the cache is empty.
Crash(s) ==
  /\ Fault
  /\ LET here == {t \in Tasks : HomeOf(t) = s} IN
     /\ pc' = [t \in Tasks |-> IF t = s THEN "connect"
                               ELSE IF t \in here THEN "idle" ELSE pc[t]]
     /\ rows' = [t \in Tasks |-> IF t \in here THEN {} ELSE rows[t]]
     /\ arg' = [h \in Handlers |-> IF h \in here THEN "none" ELSE arg[h]]
     /\ marked' = [h \in Handlers |-> IF h \in here THEN {} ELSE marked[h]]
  /\ cache' = [cache EXCEPT ![s] = {}]
  /\ UNCHANGED table

----------------------------------------------------------------------------

\* What a started request or a refresher does next, and its interval.
Step(t) ==
  \/ t \in Handlers /\ (InsertKey(t) \/ CommitArchive(t))
  \/ t \in Servers /\ Wake(t)
  \/ QueryKeys(t)
  \/ StoreKeys(t)

Next ==
  \/ \E h \in Handlers, k \in Keys : CheckOrganization(h, k) \/ RevokeKey(h, k)
  \/ \E h \in Handlers, o \in Orgs : MarkKeys(h, o)
  \/ \E k \in Keys : ExpireKey(k)
  \/ \E t \in Tasks : Step(t) \/ Fail(t)
  \/ \E s \in Servers : Crash(s)

Spec == Init /\ [][Next]_vars

\* A handler and a refresher go on; nobody has to send requests.
FairSpec == Spec /\ \A t \in Tasks : WF_vars(Step(t))

----------------------------------------------------------------------------
(* Properties. *)

\* Types; and what the caches hold and refreshes carry are rows of the table.
TypeOK ==
  /\ issued \subseteq Keys /\ revoked \subseteq issued /\ expired \subseteq issued
  /\ archived \subseteq Orgs
  /\ cache \in [Servers -> SUBSET issued]
  /\ pc \in [Tasks -> {"connect", "load", "sleep", "idle", "insert", "commit", "query", "store"}]
  /\ arg \in [Handlers -> Keys \cup Orgs \cup {"none"}]
  /\ marked \in [Handlers -> SUBSET issued]
  /\ rows \in [Tasks -> SUBSET issued]
  /\ faults \in 0 .. MaxFaults

\* Every process comes to answer from exactly the active keys: however refreshes overlap
\* (spawn_api_key_cache_refresher, refresh_api_key_cache), a created key works and a
\* revoked or expired key, or one inserted while its organization was archived, stops
\* working, in the process that changed it and in every other.
CachesConverge ==
  <>[](\A s \in Servers : \A k \in Keys :
         k \in cache[s] <=> /\ k \in issued /\ k \notin revoked /\ k \notin expired
                           /\ Owner[k] \notin archived)
============================================================================
