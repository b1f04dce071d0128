-------------------------- MODULE EliteQueryTable --------------------------
(***************************************************************************)
(* QueryTable.tsx of the EliteCore dashboard: a debounced search, a filter *)
(* on the decision, server-side pages, and requests, one per change of the *)
(* parameters and one every five seconds, that the effect which sent them  *)
(* disowns when the parameters change.                                     *)
(***************************************************************************)
EXTENDS Naturals, FiniteSets

CONSTANTS
    TableSearches,      \* the texts typed; NoSearchTyped is the empty one
    Decided,            \* the choices of the filter, "All decisions" included
    TableHits,          \* TableHits[search][decision]: how many rows match
    PAGE_SIZE,
    MaxLoads,           \* bound on requests in flight
    MaxFailed           \* bound on requests that fail

NoSearchTyped == ""
AllDecisions == "All decisions"

ASSUME EliteQueryTableAssumption ==
    /\ NoSearchTyped \in TableSearches /\ AllDecisions \in Decided
    /\ TableHits \in [TableSearches -> [Decided -> Nat]]
    /\ PAGE_SIZE \in Nat \ {0} /\ MaxLoads > 1

VARIABLES
    searchInput,    \* what is typed
    debouncing,     \* the 350 ms timer is running
    params,         \* search, decisionFilter and page
    loads,          \* requests: what they asked for, and whether the effect that
                    \* sent them has not been cleaned up (cancelled)
    items, total,   \* the rows held, by their offsets, with what was asked for
    tableLoading,
    ahead,          \* a page was chosen before the search's own total was known
    failed          \* requests that failed

queryTableVars == <<searchInput, debouncing, params, loads, items, total, tableLoading,
                    ahead, failed>>

Params == [search : TableSearches, decision : Decided, page : Nat \ {0}]
FirstParams == [search |-> NoSearchTyped, decision |-> AllDecisions, page |-> 1]
NoItems == [offsets |-> {}, of |-> {}]

HitsOf(p) == TableHits[p.search][p.decision]

\* list_queries, ordered by time, OFFSET (page - 1) * limit LIMIT limit
PageOf(p) ==
    [offsets |-> {i \in (p.page - 1) * PAGE_SIZE .. p.page * PAGE_SIZE - 1 : i < HitsOf(p)},
     of |-> {p}]

\* Math.max(1, Math.ceil(total / PAGE_SIZE))
PagesFor(count) == IF count = 0 THEN 1 ELSE (count + PAGE_SIZE - 1) \div PAGE_SIZE
TotalTablePages == PagesFor(total)

\* getPageList: the first page, the last, and two on each side of the current
PageList(page, last) ==
    {1, last} \cup {p \in 2 .. last - 1 : p + 2 >= page /\ p <= page + 2}

Cancelled == {[r EXCEPT !.current = FALSE] : r \in loads}
Load(p) == [asked |-> p, current |-> TRUE]

\* StrictMode's first request has been disowned.
QueryTableInit ==
    /\ searchInput = NoSearchTyped /\ debouncing = TRUE
    /\ params = FirstParams
    /\ loads = {Load(FirstParams), [Load(FirstParams) EXCEPT !.current = FALSE]}
    /\ items = NoItems /\ total = 0 /\ tableLoading = TRUE
    /\ ahead = FALSE /\ failed = 0

-----------------------------------------------------------------------------
MayLoad == Cardinality(loads) < MaxLoads

\* The parameters change in one render: the effect disowns what is under way
\* and asks anew.
Reloads(p) ==
    /\ params' = p
    /\ loads' = IF p = params THEN loads ELSE Cancelled \cup {Load(p)}
    /\ tableLoading' = (tableLoading \/ p # params)

\* Another search or decision is first asked for at the old page; then the page
\* effect has set it to 1 and it is asked for again.
ReloadsFromFirst(p) ==
    LET atOldPage == IF p.page = 1 THEN {} ELSE {[asked |-> p, current |-> FALSE]}
    IN  /\ params' = [p EXCEPT !.page = 1]
        /\ loads' = Cancelled \cup atOldPage \cup {Load([p EXCEPT !.page = 1])}
        /\ tableLoading' = TRUE

TypeSearch(text) ==
    /\ text # searchInput
    /\ searchInput' = text /\ debouncing' = TRUE
    /\ UNCHANGED <<params, loads, items, total, tableLoading, ahead, failed>>

SearchDue ==
    /\ debouncing /\ MayLoad
    /\ debouncing' = FALSE
    /\ IF searchInput = params.search
       THEN UNCHANGED <<params, loads, tableLoading, ahead>>
       ELSE ReloadsFromFirst([params EXCEPT !.search = searchInput]) /\ ahead' = FALSE
    /\ UNCHANGED <<searchInput, items, total, failed>>

FilterDecision(d) ==
    /\ d # params.decision /\ MayLoad
    /\ ReloadsFromFirst([params EXCEPT !.decision = d])
    /\ ahead' = FALSE
    /\ UNCHANGED <<searchInput, debouncing, items, total, failed>>

\* The arrows and the numbers count on the total that was last answered.
ChoosePage(n) ==
    /\ n # params.page /\ MayLoad
    /\ n \in PageList(params.page, TotalTablePages)
              \cup {m \in {params.page - 1} : m >= 1}
              \cup {m \in {params.page + 1} : m <= TotalTablePages}
    /\ Reloads([params EXCEPT !.page = n])
    /\ ahead' = (ahead \/ \A p \in items.of : p.search # params.search
                                            \/ p.decision # params.decision)
    /\ UNCHANGED <<searchInput, debouncing, items, total, failed>>

\* Clear sets input, search, filter and page together.
ClearTable ==
    /\ params.search # NoSearchTyped \/ params.decision # AllDecisions
    /\ MayLoad
    /\ searchInput' = NoSearchTyped
    /\ debouncing' = (debouncing \/ searchInput # NoSearchTyped)
    /\ Reloads(FirstParams)
    /\ ahead' = FALSE
    /\ UNCHANGED <<items, total, failed>>

\* The interval asks again without the spinner.
LoadAgain ==
    /\ MayLoad
    /\ loads' = loads \cup {Load(params)}
    /\ UNCHANGED <<searchInput, debouncing, params, items, total, tableLoading, ahead, failed>>

\* Mutant: `if (cancelled) return` is missing.
LoadAnsweredAnyway(r) ==
    /\ loads' = loads \ {r}
    /\ items' = PageOf(r.asked) /\ total' = HitsOf(r.asked) /\ tableLoading' = FALSE
    /\ UNCHANGED <<searchInput, debouncing, params, ahead, failed>>

\* `if (cancelled) return`
LoadAnswered(r) ==
    /\ loads' = loads \ {r}
    /\ IF r.current
       THEN items' = PageOf(r.asked) /\ total' = HitsOf(r.asked) /\ tableLoading' = FALSE
       ELSE UNCHANGED <<items, total, tableLoading>>
    /\ UNCHANGED <<searchInput, debouncing, params, ahead, failed>>

\* A rejected promise ends the loading; rows and total stay.
LoadFails(r) ==
    /\ failed < MaxFailed
    /\ loads' = loads \ {r}
    /\ tableLoading' = (tableLoading /\ ~r.current)
    /\ failed' = failed + 1
    /\ UNCHANGED <<searchInput, debouncing, params, items, total, ahead>>

QueryTableNext ==
    \/ \E text \in TableSearches : TypeSearch(text)
    \/ SearchDue \/ ClearTable \/ LoadAgain
    \/ \E d \in Decided : FilterDecision(d)
    \/ \E n \in 1 .. TotalTablePages + params.page : ChoosePage(n)
    \/ \E r \in loads : LoadAnswered(r) \/ LoadFails(r)

QueryTableSpec == QueryTableInit /\ [][QueryTableNext]_queryTableVars

-----------------------------------------------------------------------------
QueryTableTypeOK ==
    /\ searchInput \in TableSearches /\ debouncing \in BOOLEAN
    /\ params \in Params /\ total \in Nat /\ tableLoading \in BOOLEAN
    /\ \A r \in loads : r.asked \in Params

\* Once nothing of the parameters' own is under way and no request failed, the
\* rows are those of the page, search and decision shown, although requests of
\* other parameters may answer last; the page exists unless it was chosen by
\* another search's total; the spinner lasts as long as a request of its own.
EliteTableAgrees ==
    /\ tableLoading => \E r \in loads : r.current
    /\ failed = 0 /\ (\A r \in loads : ~r.current) =>
         /\ items = PageOf(params) /\ total = HitsOf(params)
         /\ ~ahead => params.page <= TotalTablePages
=============================================================================
