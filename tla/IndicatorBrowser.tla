-------------------------- MODULE IndicatorBrowser --------------------------
(***************************************************************************)
(* The STIX indicator browser of ThreatAnalytics.tsx: search, page and     *)
(* page size, a debounce timer that every change restarts, requests that   *)
(* nothing cancels, and the back end's get_indicators, which stops         *)
(* scanning Lookahead matches after the page, so that the number of pages  *)
(* is only a lower bound.                                                  *)
(***************************************************************************)
EXTENDS Naturals, FiniteSets, FiniteSetsExt

CONSTANTS
    Searches,       \* the texts typed, the empty one included
    Hits,           \* Hits[s]: how many indicators match s
    StoreSize,      \* total_iocs_loaded
    BrowserSizes,   \* the choices of "Rows per page"
    FirstSize,      \* the first choice, 10
    Lookahead,      \* 500 in get_indicators
    MaxFetches,     \* bound on requests in flight
    MaxLost         \* bound on requests that fail

NoSearch == CHOOSE s \in Searches : Hits[s] = StoreSize

ASSUME IndicatorBrowserAssumption ==
    /\ Hits \in [Searches -> Nat] /\ StoreSize \in Nat \ {0}
    /\ \A s \in Searches : Hits[s] <= StoreSize
    /\ \E s \in Searches : Hits[s] = StoreSize
    /\ BrowserSizes \subseteq Nat \ {0} /\ FirstSize \in BrowserSizes
    /\ Lookahead \in Nat

VARIABLES
    browserOpen,    \* showIndicatorModal
    controls,       \* indicatorSearch, currentPage and pageSize
    timerSet,       \* the 150 ms timer of the current controls is running
    fetches,        \* requests in flight: the controls asked for, and whether no
                    \* other was sent since
    indicators,     \* the rows held, by their offsets, and the controls asked for
    filteredCount,
    fetching,       \* indicatorLoading
    overtaken,      \* the last answer shown is not to the last request sent
    early,          \* a page was turned before the answer to the last change
    lost            \* requests that failed

browserVars == <<browserOpen, controls, timerSet, fetches, indicators, filteredCount,
                 fetching, overtaken, early, lost>>

Controls == [search : Searches, page : Nat \ {0}, size : BrowserSizes]
NoIndicators == [offsets |-> {}, of |-> {}]

Smallest(S) == CHOOSE n \in S : \A m \in S : n <= m

\* IOCStore.get_indicators
Scanned(c) == Smallest({Hits[c.search], c.page * c.size + Lookahead})
Answer(c) ==
    [offsets |-> {i \in (c.page - 1) * c.size .. c.page * c.size - 1 : i < Scanned(c)},
     of |-> {c}]

BrowserPages(size) ==
    IF filteredCount = 0 THEN 1 ELSE (filteredCount + size - 1) \div size

TotalPages == BrowserPages(controls.size)

\* Until the first answer the page counts on the store it was written with.
BrowserInit ==
    /\ browserOpen = FALSE
    /\ controls = [search |-> NoSearch, page |-> 1, size |-> FirstSize]
    /\ timerSet = FALSE /\ fetches = {}
    /\ indicators = NoIndicators /\ filteredCount = StoreSize /\ fetching = FALSE
    /\ overtaken = FALSE /\ early = FALSE /\ lost = 0

\* The effect restarts its timer on every change of the controls.
Becomes(c) ==
    /\ browserOpen
    /\ controls' = c
    /\ timerSet' = TRUE
    /\ UNCHANGED <<browserOpen, fetches, indicators, filteredCount, fetching,
                   overtaken, lost>>

OpenBrowser ==
    /\ ~browserOpen
    /\ browserOpen' = TRUE
    /\ timerSet' = TRUE
    /\ UNCHANGED <<controls, fetches, indicators, filteredCount, fetching, overtaken,
                   early, lost>>

\* Closing clears the timer; requests in flight still answer.
CloseBrowser ==
    /\ browserOpen
    /\ browserOpen' = FALSE
    /\ timerSet' = FALSE
    /\ UNCHANGED <<controls, fetches, indicators, filteredCount, fetching, overtaken,
                   early, lost>>

\* Mutant: another search leaves the page as it is.
SearchIndicatorsKeepPage(s) ==
    /\ s # controls.search
    /\ Becomes([controls EXCEPT !.search = s])
    /\ early' = FALSE

SearchIndicators(s) ==
    /\ s # controls.search
    /\ Becomes([controls EXCEPT !.search = s, !.page = 1])
    /\ early' = FALSE

ResizePages(n) ==
    /\ n # controls.size
    /\ Becomes([controls EXCEPT !.size = n, !.page = 1])
    /\ UNCHANGED early

PreviousIndicators ==
    /\ controls.page # 1 /\ ~fetching
    /\ Becomes([controls EXCEPT !.page = @ - 1])
    /\ UNCHANGED early

\* The button is disabled while a request loads, but not while the timer runs:
\* the pages it counts may still be those of the previous search.
NextIndicators ==
    /\ controls.page # TotalPages /\ ~fetching
    /\ Becomes([controls EXCEPT !.page = Smallest({TotalPages, @ + 1})])
    /\ early' = (early \/ timerSet \/ indicators.of # {controls})

\* The timer fires: fetchIndicators with the controls it closed over.
Fetch ==
    /\ timerSet /\ Cardinality(fetches) < MaxFetches
    /\ timerSet' = FALSE
    /\ fetching' = TRUE
    /\ fetches' = {[f EXCEPT !.latest = FALSE] : f \in fetches}
                     \cup {[asked |-> controls, latest |-> TRUE]}
    /\ UNCHANGED <<browserOpen, controls, indicators, filteredCount, overtaken, early, lost>>

\* An answer is shown and ends the loading, whether or not it is to the last
\* request.
IndicatorsAnswered(f) ==
    /\ fetches' = fetches \ {f}
    /\ indicators' = Answer(f.asked)
    /\ filteredCount' = Scanned(f.asked)
    /\ fetching' = FALSE
    /\ overtaken' = ~f.latest
    /\ UNCHANGED <<browserOpen, controls, timerSet, early, lost>>

\* Not ok, or the request throws: the rows stay, the loading ends.
IndicatorsFail(f) ==
    /\ lost < MaxLost
    /\ fetches' = fetches \ {f}
    /\ fetching' = FALSE
    /\ lost' = lost + 1
    /\ UNCHANGED <<browserOpen, controls, timerSet, indicators, filteredCount,
                   overtaken, early>>

\* Another tab and back: a new view; answers to the old one change nothing.
RemountBrowser ==
    /\ controls' = [search |-> NoSearch, page |-> 1, size |-> FirstSize]
    /\ browserOpen' = FALSE /\ timerSet' = FALSE /\ fetches' = {}
    /\ indicators' = NoIndicators /\ filteredCount' = StoreSize /\ fetching' = FALSE
    /\ overtaken' = FALSE /\ early' = FALSE
    /\ UNCHANGED lost

BrowserNext ==
    \/ OpenBrowser \/ CloseBrowser \/ PreviousIndicators \/ NextIndicators \/ Fetch
    \/ RemountBrowser
    \/ \E s \in Searches : SearchIndicators(s)
    \/ \E n \in BrowserSizes : ResizePages(n)
    \/ \E f \in fetches : IndicatorsAnswered(f) \/ IndicatorsFail(f)

BrowserSpec == BrowserInit /\ [][BrowserNext]_browserVars

-----------------------------------------------------------------------------
BrowserTypeOK ==
    /\ browserOpen \in BOOLEAN /\ timerSet \in BOOLEAN /\ fetching \in BOOLEAN
    /\ controls \in Controls
    /\ filteredCount \in 0 .. StoreSize
    /\ \A f \in fetches : f.asked \in Controls
    /\ timerSet => browserOpen

\* At rest (no timer, no request) the open browser shows the page that its own
\* controls name, unless an answer overtook a later request's or one failed; and
\* that page exists and is not empty when anything matches, unless it was turned
\* before the count it was turned by belonged to the search.
BrowserAgreesAtRest ==
    browserOpen /\ ~timerSet /\ fetches = {} =>
        /\ ~fetching
        /\ ~overtaken /\ lost = 0 =>
             /\ indicators = Answer(controls)
             /\ ~early => /\ controls.page <= TotalPages
                          /\ Hits[controls.search] > 0 => indicators.offsets # {}
=============================================================================
