----------------------------- MODULE DonutChart -----------------------------
(***************************************************************************)
(* The donut of ThreatCharts.tsx: the percentages of allowed, suspicious   *)
(* and blocked queries, two of them rounded and the third what they leave. *)
(***************************************************************************)
EXTENDS Integers

CONSTANT Counts         \* the values a counter of the metrics may have

Kinds == {"ALLOW", "SUSPICIOUS", "BLOCK"}

ASSUME DonutChartAssumption == Counts \subseteq Nat

VARIABLES
    summary,        \* [kind]: the metrics' counter
    donut           \* [kind]: the percentages shown

donutVars == <<summary, donut>>

-----------------------------------------------------------------------------
\* Mutant: Math.ceil in the place of Math.round.
NextPercents(count, total) ==
    {p \in 0 .. 100 : /\ 100 * count <= total * p
                      /\ total * p < 100 * count + total}

\* Math.round takes the nearest integer; of two equally near ones
\* the floating-point quotient, just below or on the tie, decides.
NearestPercents(count, total) ==
    {p \in 0 .. 100 : /\ 200 * count <= 2 * total * p + total
                      /\ 2 * total * p - total <= 200 * count}

\* Math.max(1, ...)
TotalThreats(s) ==
    LET sum == s["BLOCK"] + s["SUSPICIOUS"] + s["ALLOW"]
    IN  IF sum = 0 THEN 1 ELSE sum

\* The share allowed is what the other two leave.
Donuts(s) ==
    {[BLOCK |-> b, SUSPICIOUS |-> a, ALLOW |-> 100 - b - a] :
        b \in NearestPercents(s["BLOCK"], TotalThreats(s)),
        a \in NearestPercents(s["SUSPICIOUS"], TotalThreats(s))}

-----------------------------------------------------------------------------
DonutInit ==
    /\ summary \in [Kinds -> Counts]
    /\ donut \in Donuts(summary)

\* App's setMetrics, after which the chart is computed again
MetricsArrive ==
    /\ summary' \in [Kinds -> Counts]
    /\ donut' \in Donuts(summary')

DonutNext == MetricsArrive

DonutSpec == DonutInit /\ [][DonutNext]_donutVars

-----------------------------------------------------------------------------
DonutTypeOK ==
    /\ summary \in [Kinds -> Counts] /\ donut \in [Kinds -> Int]

\* The three shares are one hundred, and each is within one percent of its true
\* value although the third is only what rounding the others leaves: at worst
\* -1, which the donut then draws as a negative arc.
DonutSharesAddUp ==
    LET total == summary["BLOCK"] + summary["SUSPICIOUS"] + summary["ALLOW"]
    IN  /\ donut["BLOCK"] + donut["SUSPICIOUS"] + donut["ALLOW"] = 100
        /\ donut["ALLOW"] >= -1
        /\ total > 0 =>
             \A kind \in Kinds : /\ total * donut[kind] - 100 * summary[kind] <= total
                                 /\ 100 * summary[kind] - total * donut[kind] <= total
=============================================================================
