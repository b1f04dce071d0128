----------------------------- MODULE MCConsoles -----------------------------
(***************************************************************************)
(* The two consoles on small sets of rows, captures, searches and requests. *)
(***************************************************************************)
EXTENDS Consoles, TLC

CONSTANTS r1, r2, r3, evil

\* StreamTable: keys with a tie, in the other order than the list's
MCAction == [row \in {r1, r2, r3} |-> IF row = r1 THEN "BLOCK" ELSE "ALLOW"]
MCKey == [field \in {"timestamp", "action"} |->
            IF field = "timestamp" THEN (r1 :> 1 @@ r2 :> 2 @@ r3 :> 3)
            ELSE (r1 :> 2 @@ r2 :> 1 @@ r3 :> 1)]
MCTerms == {{r1, r2}, {}}

\* IndicatorBrowser: a search that matches everything and one with one hit
MCHits == [s \in {"", "x"} |-> IF s = "" THEN 3 ELSE 1]

\* ForensicUpload: an empty capture, a log in capitals, dns.log.1, a file refused
Capture(name, inLower, named, kind, rows, refused) ==
    [ext |-> name, lower |-> inLower, dnsLog |-> named, format |-> kind, queries |-> rows,
     blocked |-> refused]
MCFiles == {Capture(".pcap", ".pcap", FALSE, "pcap", 0, 0),
            Capture(".LOG", ".log", FALSE, "zeek", 2, 1),
            Capture(".1", ".1", TRUE, "zeek", 3, 1), Capture(".exe", ".exe", FALSE, "pcap", 0, 0)}

\* CopilotChat: the back end has a model that the pickers do not offer
\* and answers with an evaluation of nothing and with an unknown action
MCAnswerable == {[type |-> "EVALUATE", target |-> TRUE], [type |-> "EVALUATE", target |-> FALSE],
                 [type |-> "NAVIGATE", target |-> TRUE], [type |-> "other", target |-> FALSE]}
MCModels == {"llama3:latest", "other"}

\* Overlays
MCListed == <<r1, r2, r3>>
MCDomainHits == evil :> {r1}
MCIpHits == evil :> {r2}
MCOtherHits == evil :> {r1, r3}
MCShortcutHits == evil :> {"LIVE_DNS"}

\* QueryGroups: ages at every edge of the minute and beyond
MCAges == {-1, 0, 550, 600, 601}
MCSeedIps == "seeded" :> [total |-> 3, counts |-> [kind \in QueryKinds |-> 1], maxRisk |-> 45,
                          status |-> "SUSPICIOUS"]
MCSeedOrder == <<"seeded">>
MCIpSearches == {[ips |-> {}, statuses |-> {"SUSPICIOUS"}, scores |-> {80}],
                 [ips |-> {}, statuses |-> {}, scores |-> {}]}

\* EliteQueryTable
MCTableHits == ("" :> ("All decisions" :> 2 @@ "BLOCK" :> 2))
                 @@ ("x" :> ("All decisions" :> 1 @@ "BLOCK" :> 0))
=============================================================================
