----------------------------- MODULE FeedPolling -----------------------------
(***************************************************************************)
(* How the indicators of one synchronisation come about, which ThreatIntel *)
(* takes as given:                                                         *)
(*                                                                         *)
(*   - TAXIIClient.poll_and_parse_feed asks for page after page of a       *)
(*     collection until one is not full, while the server may publish and  *)
(*     withdraw objects between two requests;                              *)
(*   - STIXParser.parse_stix_json keeps the most confident indicator of    *)
(*     each domain, and nothing at all if the confidence of one of them    *)
(*     cannot be read; if its category cannot, it raises;                  *)
(*   - ThreatAggregator.aggregate_feeds merges what the feeds list.        *)
(*                                                                         *)
(* The server serves the range it is asked for.  An indicator names one    *)
(* domain, already normalised; one that names several is several objects.  *)
(***************************************************************************)
EXTENDS Integers, Sequences, SequencesExt, FiniteSetsExt, Subsequence

CONSTANTS
    FeedOrder,      \* the configured feeds, in the order of the dict
    Objects,        \* what servers may publish
    NoDomain,       \* the domain of an object that is no domain indicator
    Unreadable,     \* a confidence that float() does not take
    Limit,          \* objects per page
    MaxObjects      \* [Feeds -> Nat], bounds on the collections

ASSUME FeedsAssumption ==
    /\ FeedOrder \in Seq(ToSet(FeedOrder)) /\ FeedOrder # <<>>
    /\ Limit \in Nat \ {0}

\* The category of an object for which map_threat_category raises: its name is null.
Unmapped == 0

\* Other categories stand for their places in CATEGORY_PRIORITY, which has the six that
\* map_threat_category returns; a confidence that float() takes stands for a number.
ASSUME ObjectsAssumption ==
    \A o \in Objects : /\ o.category \in {Unmapped} \cup 1 .. 6
                       /\ o.confidence # Unreadable => o.confidence \in Int

VARIABLES
    collection,     \* what each feed's server holds
    stage, turn,       \* where sync_all_feeds stands, and with which feed
    start, objects, \* the locals of poll_and_parse_feed
    before,         \* how many objects were there when this poll began
    shifted,        \* whether the server has withdrawn an object since then
    status, found,  \* each feed's result
    merged          \* what aggregate_feeds returned

poll == <<stage, turn, start, objects>>
pollingVars == <<collection, poll, before, shifted, status, found, merged>>

-----------------------------------------------------------------------------
Feeds == {FeedOrder[i] : i \in DOMAIN FeedOrder}

Polled == FeedOrder[turn]

Nothing == [d \in {} |-> d]     \* an empty dict

PollingInit ==
    /\ collection = [f \in Feeds |-> <<>>]
    /\ stage = "idle" /\ turn = 1 /\ start = 0 /\ objects = <<>>
    /\ before = 0 /\ shifted = FALSE
    /\ status = [f \in Feeds |-> "none"]
    /\ found = [f \in Feeds |-> Nothing]
    /\ merged = Nothing

-----------------------------------------------------------------------------
(* parse_stix_json *)

Entered(seen, o) ==
    [d \in DOMAIN seen \cup {o.domain} |->
       IF d = o.domain THEN [category |-> o.category, confidence |-> o.confidence]
       ELSE seen[d]]

\* Mutant: a later indicator replaces an earlier one of its domain.
KeepLast(seen, o) == Entered(seen, o)

\* The indicator is kept unless one of its domain is at least as confident.
Keep(seen, o) ==
    IF o.domain \in DOMAIN seen /\ o.confidence <= seen[o.domain].confidence
    THEN seen
    ELSE Entered(seen, o)

Indicators(bundle) == KeptAt(bundle, {i \in DOMAIN bundle : bundle[i].domain # NoDomain})

Readable(bundle) == \A o \in ToSet(Indicators(bundle)) : o.confidence # Unreadable

\* An indicator's confidence is read before its category.  What float() raises
\* ends the parse within parse_stix_json, the AttributeError of a null name is
\* not among what that catches.
Escapes(bundle) ==
    LET listed == Indicators(bundle)
    IN  \E i \in DOMAIN listed : /\ listed[i].category = Unmapped
                                 /\ \A j \in 1 .. i : listed[j].confidence # Unreadable

\* The ValueError of one indicator leaves the list empty that is returned.
ParseStix(bundle) ==
    IF Readable(bundle) THEN FoldLeft(Keep, Nothing, Indicators(bundle)) ELSE Nothing

-----------------------------------------------------------------------------
(* aggregate_feeds.  Categories are their CATEGORY_PRIORITY. *)

\* Mutant: the category of the first feed stays.
ResolveFirst(cat1, cat2) == cat1

ResolveCategory(cat1, cat2) == IF cat1 >= cat2 THEN cat1 ELSE cat2

MergeEntry(entry, listed, f) ==
    [category   |-> ResolveCategory(entry.category, listed.category),
     confidence |-> Max({entry.confidence, listed.confidence}),
     sources    |-> entry.sources \cup {f}]

MergeFeed(aggregated, f) ==
    [d \in DOMAIN aggregated \cup DOMAIN found[f] |->
       IF d \notin DOMAIN found[f] THEN aggregated[d]
       ELSE IF d \in DOMAIN aggregated THEN MergeEntry(aggregated[d], found[f][d], f)
       ELSE [category |-> found[f][d].category, confidence |-> found[f][d].confidence,
             sources |-> {f}]]

-----------------------------------------------------------------------------
(* poll_and_parse_feed, for one feed after the other *)

BeginPoll(n) ==
    /\ stage' = "fetch" /\ turn' = n
    /\ start' = 0 /\ objects' = <<>>
    /\ before' = Len(collection[FeedOrder[n]]) /\ shifted' = FALSE

BeginSync ==
    /\ stage = "idle"
    /\ BeginPoll(1)
    /\ status' = [f \in Feeds |-> "none"]
    /\ found' = [f \in Feeds |-> Nothing]
    /\ merged' = Nothing
    /\ UNCHANGED collection

\* Mutant: end_index is start_index + limit.
PageOverlaps(from) ==
    SubSeq(collection[Polled], from + 1, Min({from + Limit + 1, Len(collection[Polled])}))

\* What the server answers to "Range: items from-(from + Limit - 1)"; past the
\* end it answers 416, which counts as an empty page.
Page(from) ==
    SubSeq(collection[Polled], from + 1, Min({from + Limit, Len(collection[Polled])}))

FetchPage ==
    /\ stage = "fetch"
    /\ objects' = objects \o Page(start)
    /\ IF Len(Page(start)) < Limit
       THEN stage' = "parse" /\ UNCHANGED start
       ELSE start' = start + Limit /\ UNCHANGED stage
    /\ UNCHANGED <<collection, turn, before, shifted, status, found, merged>>

\* On to the next feed, or to the aggregation.
Finish ==
    IF turn = Len(FeedOrder)
    THEN stage' = "aggregate" /\ UNCHANGED <<turn, start, objects, before, shifted>>
    ELSE BeginPoll(turn + 1)

\* A refused, failed or timed-out request ends this poll and no other.
FetchFails ==
    /\ stage = "fetch"
    /\ status' = [status EXCEPT ![Polled] = "FAILED"]
    /\ Finish
    /\ UNCHANGED <<collection, found, merged>>

\* An exception out of the parser ends this poll like one of its requests.
ParseFails ==
    /\ stage = "parse" /\ Escapes(objects)
    /\ status' = [status EXCEPT ![Polled] = "FAILED"]
    /\ Finish
    /\ UNCHANGED <<collection, found, merged>>

Parse ==
    /\ stage = "parse" /\ ~Escapes(objects)
    /\ status' = [status EXCEPT ![Polled] = "SUCCESS"]
    /\ found' = [found EXCEPT ![Polled] = ParseStix(objects)]
    /\ Finish
    /\ UNCHANGED <<collection, merged>>

Aggregate ==
    /\ stage = "aggregate"
    /\ merged' = FoldLeft(MergeFeed, Nothing, FeedOrder)
    /\ stage' = "idle" /\ turn' = 1 /\ start' = 0 /\ objects' = <<>>
    /\ before' = 0 /\ shifted' = FALSE
    /\ UNCHANGED <<collection, status, found>>

-----------------------------------------------------------------------------
(* The servers *)

Publish(f) ==
    /\ Len(collection[f]) < MaxObjects[f]
    /\ \E o \in Objects : collection' = [collection EXCEPT ![f] = Append(@, o)]
    /\ UNCHANGED <<poll, before, shifted, status, found, merged>>

Withdraw(f) ==
    /\ \E i \in DOMAIN collection[f] :
         collection' = [collection EXCEPT ![f] = RemoveAt(@, i)]
    /\ shifted' = (shifted \/ (stage \in {"fetch", "parse"} /\ f = Polled))
    /\ UNCHANGED <<poll, before, status, found, merged>>

PollingNext ==
    \/ BeginSync
    \/ FetchPage
    \/ FetchFails
    \/ ParseFails
    \/ Parse
    \/ Aggregate
    \/ \E f \in Feeds : Publish(f) \/ Withdraw(f)

PollingSpec == PollingInit /\ [][PollingNext]_pollingVars

-----------------------------------------------------------------------------
(* Correctness *)

Kept == [category : 1 .. 6, confidence : {o.confidence : o \in Objects} \ {Unreadable}]

FeedTypeOK ==
    /\ collection \in [Feeds -> Seq(Objects)]
    /\ stage \in {"idle", "fetch", "parse", "aggregate"}
    /\ turn \in DOMAIN FeedOrder
    /\ start % Limit = 0 /\ Len(objects) >= start
    /\ objects \in Seq(Objects)
    /\ status \in [Feeds -> {"none", "SUCCESS", "FAILED"}]
    /\ \A f \in Feeds : \A d \in DOMAIN found[f] : found[f][d] \in Kept

\* A poll that the server's withdrawals do not disturb gets every object that
\* was there when it began, once and in order, and none that is not there: also
\* when objects are published behind its back and when the last page is full
\* (taxii_client.py: "paginates through all available objects").
PollComplete ==
    stage = "parse" /\ ~shifted =>
        /\ Len(objects) >= before
        /\ IsPrefix(objects, collection[Polled])

\* A successful poll is worth all of its bundle or nothing.  All of it: every
\* domain, each with a confidence that no other of its indicators exceeds and
\* with the category that came with it.  Nothing: only with an unreadable
\* indicator in the bundle.
ParsedAllOrNothing ==
    [][status[Polled] = "none" /\ status'[Polled] = "SUCCESS" =>
         LET listed == ToSet(Indicators(objects))
             result == found'[Polled]
         IN  \/ /\ DOMAIN result = {o.domain : o \in listed}
                /\ \A o \in listed : o.confidence <= result[o.domain].confidence
                /\ \A d \in DOMAIN result : \E o \in listed :
                     /\ o.domain = d
                     /\ result[d] = [category |-> o.category, confidence |-> o.confidence]
             \/ result = Nothing /\ ~Readable(objects)]_pollingVars

\* What is merged of a domain does not depend on the order of the feeds: the
\* strongest confidence, the most severe category and all the feeds that list it;
\* the state is of its type.
MergeIsJoin ==
    LET Listing(d) == {f \in Feeds : d \in DOMAIN found[f]}
    IN  /\ FeedTypeOK
        /\ stage = "idle" =>
             merged = [d \in UNION {DOMAIN found[f] : f \in Feeds} |->
                         [category   |-> Max({found[f][d].category : f \in Listing(d)}),
                          confidence |-> Max({found[f][d].confidence : f \in Listing(d)}),
                          sources    |-> Listing(d)]]
=============================================================================
