---------------------------- MODULE SearchBox ----------------------------
(***************************************************************************)
(* SearchModelImpl of app/search-model.svelte.ts: a query that is debounced, *)
(* aborts the search before it, and takes one answer, in whatever order the  *)
(* answers come.                                                             *)
(***************************************************************************)
EXTENDS Naturals, FiniteSets

CONSTANTS Queries,       \* what can be typed; filters are part of a query
          Empty,
          MaxSearches    \* bound on searches under way at once

VARIABLES query, searchState, response, debounce,
          searches       \* requests: [query, current]: current is requestRevision's guard

searchVars == <<query, searchState, response, debounce, searches>>

SearchInit ==
    /\ query = Empty /\ searchState = "idle" /\ response = Empty
    /\ debounce = FALSE /\ searches = {}

MutSuperseded == searches

\* requestRevision moves on, and the controller aborts what it can.
Superseded == {[s EXCEPT !.current = FALSE] : s \in searches}

ScheduleSearch(typed) ==
    /\ query' = typed
    /\ searches' = Superseded
    /\ IF typed = Empty
       THEN response' = Empty /\ searchState' = "idle" /\ debounce' = FALSE
       ELSE searchState' = "loading" /\ debounce' = TRUE /\ UNCHANGED response

Search ==
    /\ debounce /\ Cardinality(searches) < MaxSearches
    /\ debounce' = FALSE
    /\ searches' = searches \cup {[query |-> query, current |-> TRUE]}
    /\ UNCHANGED <<query, searchState, response>>

Answered(s) ==
    /\ searches' = searches \ {s}
    /\ IF s.current
       THEN \/ response' = s.query /\ searchState' = "ready"
            \/ searchState' = "error" /\ UNCHANGED response
       ELSE UNCHANGED <<response, searchState>>
    /\ UNCHANGED <<query, debounce>>

SearchNext ==
    \/ \E typed \in Queries \cup {Empty} : ScheduleSearch(typed)
    \/ Search
    \/ \E s \in searches : Answered(s)

SearchSpec == SearchInit /\ [][SearchNext]_searchVars

\* Whatever order the answers come in, results that are shown as ready are those of
\* the query in the box, and a search that is announced is really under way.
ResultsAreOfTheQuery ==
    /\ searchState = "ready" => response = query /\ query # Empty
    /\ searchState = "loading" => debounce \/ \E s \in searches : s.current /\ s.query = query
=============================================================================
