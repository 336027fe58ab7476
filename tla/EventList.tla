------------------------------ MODULE EventList ------------------------------
(***************************************************************************)
(* Browsing events: how crates/read answers an events query with a page,   *)
(* and how the list of apps/ui loads page after page, and all its pages    *)
(* again, while files arrive and definitions are promoted.                 *)
(*                                                                         *)
(* Events are [id, at, data], their identifiers numbers.  Which of them a  *)
(* request selects, and which requests the planner refuses, are parameters *)
(* that EventQueries defines.  A file and its index rows arrive together:  *)
(* that the freshness check refuses the states between is in               *)
(* ServingMaterializer, and which definitions it lets a plan use in        *)
(* Definitions.                                                            *)
(***************************************************************************)
EXTENDS Integers, FiniteSets, SequencesExt

CONSTANTS Files, BatchOf,      \* files and the events of each
          FieldDefinitions,    \* definitions of kind field that may be promoted
          EventRequests,       \* [facets, text, group, value, range, direction, limit]
          Anchors,             \* [at, id] to open the list around; 0 is no identifier
          MaxPages,            \* bound on the pages loaded
          Selects(_, _, _),    \* whether a catalog and a request select an event
          Refused(_)           \* whether the planner refuses a request

EventsOf(f) == Range(BatchOf[f])
AllEvents == UNION {EventsOf(f) : f \in Files}

\* Of events with one time the identifiers differ, and none is empty.
ASSUME EventsAssumption ==
    /\ \A f \in Files : BatchOf[f] \in Seq(EventsOf(f))
    /\ \A e \in AllEvents : e.at \in Nat /\ e.id \in Nat \ {0}
    /\ \A d, e \in AllEvents : d.at = e.at /\ d.id = e.id => d = e

\* events_query clamps the limit.
ASSUME RequestsAssumption ==
    /\ \A q \in EventRequests : q.direction \in {"asc", "desc"} /\ q.limit \in Nat \ {0}
    /\ \A anchor \in Anchors : anchor.at \in Nat /\ anchor.id \in Nat

VARIABLES loaded,      \* files loaded
          promoted,    \* definitions the planner may use
          list,        \* the list of the user interface
          refetch      \* the pages that are to replace its own

listVars == <<loaded, promoted, list, refetch>>

NoRefetch == [pages |-> <<>>, known |-> {}]

Stored == UNION {EventsOf(f) : f \in loaded}

Selected(catalog, events, q) == {e \in events : Selects(catalog, q, e)}

-------------------------------------------------------------------------------
(* Pages: [side, at, id] is a cursor, [side |-> "none"] the first page.    *)

NoCursor == [side |-> "none", at |-> 0, id |-> 0]

Earlier(a, b) == a.at < b.at \/ (a.at = b.at /\ a.id < b.id)
Later(a, b) == Earlier(b, a)

\* event_page_filter: without an identifier only the times are compared.
PageFilter(q, cursor, e) ==
    LET before == IF cursor.id = 0 THEN e.at < cursor.at ELSE Earlier(e, cursor)
        after == IF cursor.id = 0 THEN e.at > cursor.at ELSE Later(e, cursor)
    IN  CASE cursor.side = "before" -> before
          [] cursor.side = "after"  -> after
          [] cursor.side = "around" -> IF q.direction = "asc" THEN ~before ELSE ~after
          [] OTHER -> TRUE

\* Mutant: the rows are limited in the order of the table.
TableOrder(q, cursor) == q.direction

\* event_query_order: away from the cursor.
QueryOrder(q, cursor) ==
    CASE q.direction = "desc" /\ cursor.side = "after" -> "asc"
      [] q.direction = "asc" /\ cursor.side = "before" -> "desc"
      [] OTHER -> q.direction

Precedes(direction, a, b) == IF direction = "asc" THEN Earlier(a, b) ELSE Later(a, b)

\* ORDER BY timestamp, event_id: an event's place is the number of those before it.
Place(events, direction, e) == 1 + Cardinality({d \in events : Precedes(direction, d, e)})
InOrder(events, direction) ==
    [i \in 1..Cardinality(events) |-> CHOOSE e \in events : Place(events, direction, e) = i]

\* The inner query limits the rows, the outer one sorts them for the table.
EventsPage(catalog, events, q, cursor) ==
    LET found == InOrder({e \in Selected(catalog, events, q) : PageFilter(q, cursor, e)}, QueryOrder(q, cursor))
    IN  InOrder({found[i] : i \in {j \in DOMAIN found : j <= q.limit}}, q.direction)

-------------------------------------------------------------------------------
(* The list of apps/ui, whose pages follow each other from top to bottom.  *)

Downward(q) == IF q.direction = "desc" THEN "before" ELSE "after"
Upward(q) == IF q.direction = "desc" THEN "after" ELSE "before"

Full(q, page) == Len(page.events) >= q.limit

\* A page that is not full is the last; a page above the first is known of
\* only when the list was opened around an event, or continues upward.
HasNext == list.pages # <<>> /\ Full(list.request, Last(list.pages))
HasPrevious ==
    /\ list.pages # <<>> /\ Head(list.pages).events # <<>>
    /\ \/ Head(list.pages).cursor.side = Upward(list.request) /\ Full(list.request, Head(list.pages))
       \/ Head(list.pages).cursor.side = "around"

CursorAt(side, e) == [side |-> side, at |-> e.at, id |-> e.id]

\* With a page the list remembers what it was asked with.
Fetched(q, cursor) == [events |-> EventsPage(promoted, Stored, q, cursor), cursor |-> cursor, catalog |-> promoted]

ListInit ==
    /\ loaded = {} /\ promoted = {}
    /\ list = [request |-> [limit |-> 0], pages |-> <<>>, known |-> {}]
    /\ refetch = NoRefetch

Load(f) ==
    /\ f \notin loaded
    /\ loaded' = loaded \union {f}
    /\ UNCHANGED <<promoted, list, refetch>>

\* A definition is found fresh, and from then on its index is used.
Promote(d) ==
    /\ d \notin promoted
    /\ promoted' = promoted \union {d}
    /\ UNCHANGED <<loaded, list, refetch>>

Open(q, cursor) ==
    /\ list.pages = <<>> /\ ~Refused(q)
    /\ list' = [request |-> q, pages |-> <<Fetched(q, cursor)>>, known |-> Stored]
    /\ UNCHANGED <<loaded, promoted, refetch>>

\* A further page is asked for; that cancels a refetch.
FetchNext ==
    /\ HasNext /\ Len(list.pages) < MaxPages
    /\ LET q == list.request
           cursor == CursorAt(Downward(q), Last(Last(list.pages).events))
       IN  list' = [list EXCEPT !.pages = Append(@, Fetched(q, cursor))]
    /\ refetch' = NoRefetch
    /\ UNCHANGED <<loaded, promoted>>

FetchPrevious ==
    /\ HasPrevious /\ Len(list.pages) < MaxPages
    /\ LET q == list.request
           cursor == CursorAt(Upward(q), Head(Head(list.pages).events))
       IN  list' = [list EXCEPT !.pages = <<Fetched(q, cursor)>> \o @]
    /\ refetch' = NoRefetch
    /\ UNCHANGED <<loaded, promoted>>

\* In live mode from time to time, and when a definition was created, all pages
\* are asked for again: the first one with its cursor, then each below the one
\* before, as many as there were, while they are full.
RefetchFirst ==
    /\ list.pages # <<>> /\ refetch = NoRefetch
    /\ refetch' = [pages |-> <<Fetched(list.request, Head(list.pages).cursor)>>, known |-> Stored]
    /\ UNCHANGED <<loaded, promoted, list>>

Continues ==
    /\ refetch.pages # <<>> /\ Full(list.request, Last(refetch.pages))
    /\ Len(refetch.pages) < Len(list.pages)

RefetchNext ==
    /\ Continues
    /\ LET q == list.request
           cursor == CursorAt(Downward(q), Last(Last(refetch.pages).events))
       IN  refetch' = [refetch EXCEPT !.pages = Append(@, Fetched(q, cursor))]
    /\ UNCHANGED <<loaded, promoted, list>>

\* The new pages replace the old ones.
RefetchEnd ==
    /\ refetch.pages # <<>> /\ ~Continues
    /\ list' = [list EXCEPT !.pages = refetch.pages, !.known = refetch.known]
    /\ refetch' = NoRefetch
    /\ UNCHANGED <<loaded, promoted>>

\* A page fails: the list keeps what it has.
RefetchFail ==
    /\ refetch # NoRefetch
    /\ refetch' = NoRefetch
    /\ UNCHANGED <<loaded, promoted, list>>

ListNext ==
    \/ \E f \in Files : Load(f)
    \/ \E d \in FieldDefinitions : Promote(d)
    \/ \E q \in EventRequests, anchor \in Anchors :
            Open(q, [side |-> "around", at |-> anchor.at, id |-> anchor.id])
    \/ \E q \in EventRequests : Open(q, NoCursor)
    \/ FetchNext
    \/ FetchPrevious
    \/ RefetchFirst
    \/ RefetchNext
    \/ RefetchEnd
    \/ RefetchFail

ListSpec == ListInit /\ [][ListNext]_listVars

-------------------------------------------------------------------------------
(* The pages.                                                              *)

Shown == UNION {Range(list.pages[i].events) : i \in DOMAIN list.pages}

\* An event is owed to the list when it was stored as the list was opened, or
\* last asked for again, and the plans of all its pages select it.
Owed == {e \in list.known : \A i \in DOMAIN list.pages : Selects(list.pages[i].catalog, list.request, e)}

\* A refetch ends at a page that is not full, also when that is the one on top
\* of pages that were loaded upward: those below it are gone.
CutOff ==
    /\ Len(list.pages) = 1
    /\ Head(list.pages).cursor.side = Upward(list.request) /\ ~Full(list.request, Head(list.pages))

\* The pages the list has loaded, one after the other, are the result of its
\* request: in order, so no event is shown twice, also when events share a
\* time and while others arrive or definitions are promoted; without a hole, so
\* every event that is owed to the list and lies between its ends is in it;
\* and where no further page is offered, up to the first or down to the last
\* one.  All this holds again when the pages are asked for anew.  (A list opened
\* around a point with nothing below it shows nothing, and offers nothing above;
\* and a refetch may cut the list off below its first page.)
PagesAreTheResult ==
    LET above(a, b) == Precedes(list.request.direction, a, b)
        On(i) == list.pages[i].events
    IN  /\ \A i \in DOMAIN list.pages : \A m, n \in DOMAIN On(i) : m < n => above(On(i)[m], On(i)[n])
        /\ \A i, j \in DOMAIN list.pages : i < j =>
                \A a \in Range(On(i)), b \in Range(On(j)) : above(a, b)
        /\ \A e \in Owed \ Shown :
                \/ HasPrevious /\ \A a \in Shown : above(e, a)
                \/ HasNext /\ \A a \in Shown : above(a, e)
                \/ Shown = {} /\ \E i \in DOMAIN list.pages : list.pages[i].cursor.side = "around"
                \/ CutOff /\ \A a \in Shown : above(a, e)
===============================================================================
