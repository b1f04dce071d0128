---------------------------- MODULE QueryGroups ----------------------------
(***************************************************************************)
(* How the console groups the list of queries: the last minute in twelve   *)
(* five-second buckets (ThreatCharts.tsx), and the summaries by client     *)
(* address (SourceIpAnalytics.tsx), which start from five made-up ones,    *)
(* with the search over them and the address whose queries are listed.     *)
(*                                                                         *)
(* Ages are in tenths of a second, when the groups were computed: both are *)
(* memoised and change with the list, not as time passes.                  *)
(***************************************************************************)
EXTENDS Integers, Sequences, SequencesExt, FiniteSets, FiniteSetsExt, Subsequence

CONSTANTS
    Ages,           \* the ages tried, beyond the minute and before now included
    Ips,            \* the client addresses
    SeedIps,        \* SeedIps[ip]: the made-up summary of ip, if it is one of the five
    SeedOrder,      \* those addresses, as the code lists them
    IpSearches,     \* the texts searched for: the addresses, the statuses and, by
                    \* their scores, the queries' domains that have the text
    Risks,          \* the composite risk scores tried
    MaxCharted      \* bound on the queries in the list

QueryKinds == {"ALLOW", "SUSPICIOUS", "BLOCK"}

NoIp == "no address"
IpSummary == [total : Nat, counts : [QueryKinds -> Nat], maxRisk : Nat,
              status : {"HIGH RISK", "SUSPICIOUS", "NORMAL"}]

ASSUME QueryGroupsAssumption ==
    /\ Ages \subseteq Int /\ Risks \subseteq 0 .. 100
    /\ NoIp \notin Ips /\ DOMAIN SeedIps \subseteq Ips /\ MaxCharted \in Nat
    /\ SeedIps \in [DOMAIN SeedIps -> IpSummary]
    /\ SeedOrder \in Seq(Ips) /\ ToSet(SeedOrder) = DOMAIN SeedIps

\* The empty box; a text that nothing has is another search.
NoIpSearch == [ips |-> {NoIp}, statuses |-> {}, scores |-> {}]

VARIABLES
    charted,        \* the list: [age, kind, ip, risk]
    ipSearch, topSearch,    \* the view's own search and the topbar's
    selectedIp      \* the card clicked

groupVars == <<charted, ipSearch, topSearch, selectedIp>>

-----------------------------------------------------------------------------
\* Bucket i, of 0 .. 11, is labelled T-(60 - 5i)s.
Least(m, n) == IF m < n THEN m ELSE n
Most(m, n) == IF m < n THEN n ELSE m

InWindow(q) == q.age >= 0 /\ q.age <= 600
BucketOf(q) == Least(11, Most(0, (600 - q.age) \div 50))

\* item.action compared with BLOCK and SUSPICIOUS, ALLOW being the rest
Tally(buckets, q) ==
    IF InWindow(q) THEN [buckets EXCEPT ![BucketOf(q)][q.kind] = @ + 1] ELSE buckets

\* With no query of the last minute the chart draws a wave made up from the
\* metrics instead.
DrawsWave == \A i \in DOMAIN charted : ~InWindow(charted[i])
TimeBuckets ==
    FoldLeft(Tally, [i \in 0 .. 11 |-> [kind \in QueryKinds |-> 0]], charted)

-----------------------------------------------------------------------------
\* The addresses
NewIp == [total |-> 0, counts |-> [kind \in QueryKinds |-> 0], maxRisk |-> 0, status |-> "NORMAL"]

StatusOf(counts, maxRisk) ==
    CASE counts["BLOCK"] > 0 \/ maxRisk >= 70 -> "HIGH RISK"
      [] ~(counts["BLOCK"] > 0 \/ maxRisk >= 70)
           /\ (counts["SUSPICIOUS"] > 0 \/ maxRisk >= 35) -> "SUSPICIOUS"
      [] OTHER -> "NORMAL"

\* Mutant: the status is judged by this query's score alone.
AggregateLatest(summaries, q) ==
    LET old == IF q.ip \in DOMAIN summaries THEN summaries[q.ip] ELSE NewIp
        counts == [old.counts EXCEPT ![q.kind] = @ + 1]
    IN  [ip \in DOMAIN summaries \cup {q.ip} |->
           IF ip = q.ip
           THEN [total |-> old.total + 1, counts |-> counts,
                 maxRisk |-> Most(old.maxRisk, q.risk), status |-> StatusOf(counts, q.risk)]
           ELSE summaries[ip]]

Aggregate(summaries, q) ==
    LET old == IF q.ip \in DOMAIN summaries THEN summaries[q.ip] ELSE NewIp
        counts == [old.counts EXCEPT ![q.kind] = @ + 1]
        maxRisk == Most(old.maxRisk, q.risk)
    IN  [ip \in DOMAIN summaries \cup {q.ip} |->
           IF ip = q.ip
           THEN [total |-> old.total + 1, counts |-> counts, maxRisk |-> maxRisk,
                 status |-> StatusOf(counts, maxRisk)]
           ELSE summaries[ip]]

IpSummaries == FoldLeft(Aggregate, SeedIps, charted)

\* searchTerm || externalSearch, looked up in the address, its status and the
\* domains of its queries
IpMatches(ip, status) ==
    LET active == IF ipSearch # NoIpSearch THEN ipSearch ELSE topSearch
    IN  \/ active = NoIpSearch \/ ip \in active.ips \/ status \in active.statuses
        \/ \E i \in DOMAIN charted : charted[i].ip = ip /\ charted[i].risk \in active.scores

\* The order in which the map got the addresses
FirstSeen(ip) ==
    LET seen == SeedOrder \o [i \in DOMAIN charted |-> charted[i].ip]
    IN  Min({i \in DOMAIN seen : seen[i] = ip})

\* The cards: the worst first, of equals the one the map got first.
CardBefore(summaries, a, b) ==
    \/ summaries[a].maxRisk > summaries[b].maxRisk
    \/ summaries[a].maxRisk = summaries[b].maxRisk /\ FirstSeen(a) < FirstSeen(b)

IpCards ==
    LET summaries == IpSummaries
        shown == {ip \in DOMAIN summaries : IpMatches(ip, summaries[ip].status)}
        place == [ip \in shown |->
                    Cardinality({other \in shown : CardBefore(summaries, other, ip)}) + 1]
    IN  [n \in 1 .. Cardinality(shown) |-> CHOOSE ip \in shown : place[ip] = n]

\* activeIpData: the card clicked if it is shown, else the first
Audited ==
    LET cards == IpCards
    IN  IF selectedIp \in ToSet(cards) THEN selectedIp
        ELSE IF cards # <<>> THEN Head(cards) ELSE NoIp

\* The table under the cards
Audit == LET ip == Audited IN KeptAt(charted, {i \in DOMAIN charted : charted[i].ip = ip})

-----------------------------------------------------------------------------
GroupsInit ==
    charted = <<>> /\ ipSearch = NoIpSearch /\ topSearch = NoIpSearch /\ selectedIp = NoIp

\* One more query; how App changes the list is in LiveFeed.
QueryListed(q) ==
    /\ Len(charted) < MaxCharted
    /\ charted' = <<q>> \o charted
    /\ UNCHANGED <<ipSearch, topSearch, selectedIp>>

SearchIps(text) ==
    /\ ipSearch' = text
    /\ UNCHANGED <<charted, topSearch, selectedIp>>

\* App's globalSearch
SearchFromTopbar(text) ==
    /\ topSearch' = text
    /\ UNCHANGED <<charted, ipSearch, selectedIp>>

\* A click on a card; nothing takes the selection back.
SelectIp(ip) ==
    /\ ip \in ToSet(IpCards)
    /\ selectedIp' = ip
    /\ UNCHANGED <<charted, ipSearch, topSearch>>

\* Another tab and back
RemountIps ==
    /\ ipSearch' = NoIpSearch /\ selectedIp' = NoIp
    /\ UNCHANGED <<charted, topSearch>>

GroupsNext ==
    \/ \E age \in Ages, kind \in QueryKinds, ip \in Ips, risk \in Risks :
         QueryListed([age |-> age, kind |-> kind, ip |-> ip, risk |-> risk])
    \/ \E text \in IpSearches \cup {NoIpSearch} : SearchIps(text) \/ SearchFromTopbar(text)
    \/ \E ip \in Ips : SelectIp(ip)
    \/ RemountIps

GroupsSpec == GroupsInit /\ [][GroupsNext]_groupVars

-----------------------------------------------------------------------------
Occurrences(P(_)) == Cardinality({i \in DOMAIN charted : P(charted[i])})

EachInItsBucket ==
    ~DrawsWave =>
      LET buckets == TimeBuckets
      IN  \A i \in 0 .. 11, kind \in QueryKinds :
            buckets[i][kind] =
              Occurrences(LAMBDA q : /\ q.kind = kind
                                     /\ q.age <= 600 - 50 * i /\ q.age >= 0
                                     /\ q.age > 550 - 50 * i \/ i = 11)

SummariesCount ==
    LET summaries == IpSummaries
    IN  \A ip \in DOMAIN summaries :
          LET own(q) == q.ip = ip
              seed == IF ip \in DOMAIN SeedIps THEN SeedIps[ip] ELSE NewIp
              s == summaries[ip]
          IN  /\ s.total = seed.total + Occurrences(own)
              /\ \A kind \in QueryKinds :
                   s.counts[kind] = seed.counts[kind]
                                      + Occurrences(LAMBDA q : own(q) /\ q.kind = kind)
              /\ Occurrences(own) > 0 =>
                   (s.status = "NORMAL" <=>
                      /\ s.counts["BLOCK"] = 0 /\ s.counts["SUSPICIOUS"] = 0
                      /\ seed.maxRisk < 35
                      /\ Occurrences(LAMBDA q : own(q) /\ q.risk >= 35) = 0)

AuditIsOfACard ==
    LET cards == ToSet(IpCards)
        summaries == IpSummaries
        audited == Audited
    IN  IF cards = {} THEN audited = NoIp /\ Audit = <<>>
        ELSE /\ audited \in cards
             /\ \/ audited = selectedIp
                \/ /\ selectedIp \notin cards
                   /\ \A ip \in cards : summaries[ip].maxRisk <= summaries[audited].maxRisk
             /\ Len(Audit) = summaries[audited].total
                              - IF audited \in DOMAIN SeedIps THEN SeedIps[audited].total ELSE 0

\* In whatever order the list has the queries: each query of the last minute is
\* in the one bucket whose label is the age it has or is just short of, and an
\* address's summary is its seed and all its queries, with the status that the
\* worst of them gives it.  Whatever was searched and clicked before, the table
\* is of a card shown, if any is: the one clicked last or else one that no card
\* shown exceeds, with exactly the queries that its summary counted.
GroupingsCount == EachInItsBucket /\ SummariesCount /\ AuditIsOfACard
=============================================================================
