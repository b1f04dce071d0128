---------------------------- MODULE StreamTable ----------------------------
(***************************************************************************)
(* QueryStreamTable.tsx: search, filter pills, sorting and pages over the  *)
(* list of recent queries, which App replaces, shortens and lengthens      *)
(* under the table at any time; so does the search box of the topbar.      *)
(*                                                                         *)
(* A search term is the set of rows it matches (the nine fields it is      *)
(* looked up in are data); NoTerm is the empty box.                        *)
(***************************************************************************)
EXTENDS Integers, Sequences, SequencesExt, FiniteSets, Subsequence

CONSTANTS
    Rows,           \* the decisions that may be listed
    Action,         \* Action[row]: ALLOW, SUSPICIOUS or BLOCK
    CacheHits,      \* the rows with cache_hit
    Key,            \* Key[field][row]: what a column sorts by, as a number
    Terms,          \* the search terms tried, sets of rows
    PageSizes       \* the choices of "Rows per page"

NoTerm == {"no term"}
Fields == DOMAIN Key
Pills == {"ALL", "BLOCK", "SUSPICIOUS", "ALLOW", "CACHE"}

ASSUME StreamTableAssumption ==
    /\ Terms \subseteq SUBSET Rows
    /\ "timestamp" \in Fields /\ \A field \in Fields : Key[field] \in [Rows -> Int]
    /\ PageSizes \subseteq Nat \ {0} /\ PageSizes # {}

VARIABLES
    tableQueries,     \* the list App passes in
    externalSearch,   \* the topbar's search, App's globalSearch
    searchTerm, filterAction, sortField, sortAsc, tablePage, tablePageSize,
    shrunk            \* the list or the topbar's search changed since the table's
                      \* own controls last set the page

tableVars == <<tableQueries, externalSearch, searchTerm, filterAction, sortField,
               sortAsc, tablePage, tablePageSize, shrunk>>

-----------------------------------------------------------------------------
\* searchTerm || externalSearch: the table's own term hides the topbar's.
Matches(row) ==
    LET active == IF searchTerm # NoTerm THEN searchTerm ELSE externalSearch
    IN  active = NoTerm \/ row \in active

Passes(row) ==
    CASE filterAction = "ALL"   -> TRUE
      [] filterAction = "CACHE" -> row \in CacheHits
      [] OTHER                  -> Action[row] = filterAction

Filtered ==
    KeptAt(tableQueries, {i \in DOMAIN tableQueries :
                            Matches(tableQueries[i]) /\ Passes(tableQueries[i])})

\* Array.prototype.sort is stable: equal rows keep their order.
Before(i, j) ==
    LET a == Key[sortField][Filtered[i]]
        b == Key[sortField][Filtered[j]]
    IN  \/ IF sortAsc THEN a < b ELSE a > b
        \/ a = b /\ i < j

Sorted ==
    LET place(i) == Cardinality({j \in DOMAIN Filtered : Before(j, i)}) + 1
    IN  [k \in DOMAIN Filtered |-> Filtered[CHOOSE i \in DOMAIN Filtered : place(i) = k]]

\* Math.max(1, Math.ceil(count / size))
Pages(count, size) ==
    IF count = 0 THEN 1 ELSE (count + size - 1) \div size

TablePages == Pages(Len(Sorted), tablePageSize)

\* sortedQueries.slice(start, start + pageSize)
PageRows(page) ==
    LET start == (page - 1) * tablePageSize
        end == start + tablePageSize
    IN  SubSeq(Sorted, start + 1, IF end < Len(Sorted) THEN end ELSE Len(Sorted))

\* A row of the page opens the evidence modal; an empty page says that nothing
\* matched the filter.
Inspectable == ToSet(PageRows(tablePage))

IsFiltered ==
    \/ searchTerm # NoTerm \/ filterAction # "ALL" \/ externalSearch # NoTerm
    \/ sortField # "timestamp" \/ sortAsc

-----------------------------------------------------------------------------
\* App's list has a decision twice when a refresh and the socket both brought it.
Lists == SeqOf(Rows, Cardinality(Rows))

TableInit ==
    /\ tableQueries \in Lists
    /\ externalSearch = NoTerm /\ searchTerm = NoTerm /\ filterAction = "ALL"
    /\ sortField = "timestamp" /\ sortAsc = FALSE
    /\ tablePage = 1
    /\ tablePageSize = CHOOSE n \in PageSizes : \A m \in PageSizes : n <= m
    /\ shrunk = FALSE

SetSearch(term) ==
    /\ searchTerm' = term /\ tablePage' = 1 /\ shrunk' = FALSE
    /\ UNCHANGED <<tableQueries, externalSearch, filterAction, sortField, sortAsc, tablePageSize>>

\* Mutant: a filter pill leaves the page as it is.
SetFilterKeepPage(pill) ==
    /\ filterAction' = pill
    /\ UNCHANGED <<tableQueries, externalSearch, searchTerm, sortField, sortAsc,
                   tablePage, tablePageSize, shrunk>>

SetFilter(pill) ==
    /\ filterAction' = pill /\ tablePage' = 1 /\ shrunk' = FALSE
    /\ UNCHANGED <<tableQueries, externalSearch, searchTerm, sortField, sortAsc, tablePageSize>>

\* handleSort: a second click on a column turns its order around.
Sort(field) ==
    /\ sortField' = field
    /\ sortAsc' = (field = sortField /\ ~sortAsc)
    /\ UNCHANGED <<tableQueries, externalSearch, searchTerm, filterAction, tablePage,
                   tablePageSize, shrunk>>

SetPageSize(size) ==
    /\ tablePageSize' = size /\ tablePage' = 1 /\ shrunk' = FALSE
    /\ UNCHANGED <<tableQueries, externalSearch, searchTerm, filterAction, sortField, sortAsc>>

\* handleClearFilters leaves the topbar's search and the page size alone.
ClearFilters ==
    /\ IsFiltered
    /\ searchTerm' = NoTerm /\ filterAction' = "ALL"
    /\ sortField' = "timestamp" /\ sortAsc' = FALSE
    /\ tablePage' = 1 /\ shrunk' = FALSE
    /\ UNCHANGED <<tableQueries, externalSearch, tablePageSize>>

\* Mutant: "Prev" is not disabled on the first page.
PreviousPageAlways ==
    /\ tablePage' = tablePage - 1
    /\ UNCHANGED <<tableQueries, externalSearch, searchTerm, filterAction, sortField, sortAsc,
                   tablePageSize, shrunk>>

PreviousPage ==
    /\ tablePage # 1
    /\ tablePage' = tablePage - 1
    /\ UNCHANGED <<tableQueries, externalSearch, searchTerm, filterAction, sortField, sortAsc,
                   tablePageSize, shrunk>>

\* Disabled on the last page only; past the end Next leads back to the end.
NextPage ==
    /\ tablePage # TablePages
    /\ tablePage' = IF tablePage < TablePages THEN tablePage + 1 ELSE TablePages
    /\ UNCHANGED <<tableQueries, externalSearch, searchTerm, filterAction, sortField, sortAsc,
                   tablePageSize, shrunk>>

\* App re-renders the table with another list: the page stays what it was.
QueriesChange(list) ==
    /\ tableQueries' = list /\ shrunk' = TRUE
    /\ UNCHANGED <<externalSearch, searchTerm, filterAction, sortField, sortAsc, tablePage,
                   tablePageSize>>

\* Typing in the topbar or the command palette, or the copilot's CLEAR action.
ExternalSearch(term) ==
    /\ externalSearch' = term /\ shrunk' = TRUE
    /\ UNCHANGED <<tableQueries, searchTerm, filterAction, sortField, sortAsc, tablePage,
                   tablePageSize>>

TableNext ==
    \/ \E term \in Terms \cup {NoTerm} : SetSearch(term) \/ ExternalSearch(term)
    \/ \E pill \in Pills : SetFilter(pill)
    \/ \E field \in Fields : Sort(field)
    \/ \E size \in PageSizes : SetPageSize(size)
    \/ ClearFilters \/ PreviousPage \/ NextPage
    \/ \E list \in Lists : QueriesChange(list)

TableSpec == TableInit /\ [][TableNext]_tableVars

-----------------------------------------------------------------------------
TableTypeOK ==
    /\ tableQueries \in Seq(Rows)
    /\ {searchTerm, externalSearch} \subseteq Terms \cup {NoTerm}
    /\ filterAction \in Pills /\ sortField \in Fields /\ sortAsc \in BOOLEAN
    /\ tablePage \in Nat \ {0} /\ tablePageSize \in PageSizes

\* The pages together are the sorted list, none of its rows left out or shown
\* again, which has every row that passes search and filter; and the page the
\* table is on is one of them unless rows went away under it: no sequence of the
\* table's own controls leads to a page that hides the rows it has.
PagesShowEverything ==
    /\ FlattenSeq([page \in 1 .. TablePages |-> PageRows(page)]) = Sorted
    /\ ToSet(Sorted) = {row \in ToSet(tableQueries) : Matches(row) /\ Passes(row)}
    /\ ~shrunk => tablePage <= TablePages
    /\ Filtered # <<>> /\ ~shrunk => Inspectable # {}
=============================================================================
