-------------------------- MODULE DomainInspector --------------------------
(***************************************************************************)
(* DomainInspector.tsx with the App state it shares: the last domain and   *)
(* its result outlive the view, the copilot writes the domain alone, and   *)
(* evaluations answer in any order, also to a view that was left.          *)
(*                                                                         *)
(* A result is the domain it is about and its verdict; when the back end   *)
(* refuses or cannot be reached the view makes one up.                     *)
(***************************************************************************)
EXTENDS Naturals, Bags

CONSTANTS
    Domains,        \* the names typed or evaluated
    BackendVerdicts,    \* what the back end may decide
    BadNames,       \* domains with "bad" or "c2" in them
    LongNames,      \* domains of more than 20 characters
    EffectRuns,     \* how often React runs the effect of a mount
    MaxEvaluations  \* bound on evaluations in flight

NoDomain == "no domain"
NoResult == [domain |-> NoDomain, verdict |-> "none"]

Verdicts == {"ALLOW", "SUSPICIOUS", "BLOCK"}

ASSUME DomainInspectorAssumption ==
    /\ NoDomain \notin Domains /\ BackendVerdicts \subseteq Verdicts
    /\ EffectRuns \in 1 .. 2 /\ MaxEvaluations > EffectRuns

VARIABLES
    lastDomain, lastResult,     \* App: lastInspectedDomain, lastInspectedResult
    inspecting,                 \* the tab is DOMAIN_INSPECTOR
    inputDomain, analyzing, result,     \* the mounted view
    evaluations     \* bag of evaluations in flight; own: by the mounted view

inspectorVars == <<lastDomain, lastResult, inspecting, inputDomain, analyzing, result,
                   evaluations>>

Result == [domain : Domains, verdict : Verdicts] \cup {NoResult}

Evaluating(n, d) ==
    [e \in {[domain |-> d, own |-> TRUE]} |-> n]

InFlight == BagCardinality(evaluations)
Copies(e) == IF BagIn(e, evaluations) THEN evaluations[e] ELSE 0

InspectorInit ==
    /\ lastDomain = NoDomain /\ lastResult = NoResult
    /\ inspecting = FALSE
    /\ inputDomain = NoDomain /\ analyzing = FALSE /\ result = NoResult
    /\ evaluations = EmptyBag

\* Mutant: the effect does not compare the domains.
NeedsFirstResult(domain, res) == domain # NoDomain /\ res = NoResult

\* The effect evaluates unless the last result is the last domain's.
NeedsEvaluation(domain, res) ==
    domain # NoDomain /\ (res = NoResult \/ res.domain # domain)

\* useEffect on [lastDomain, lastResult], run n times after the domain became
\* d in a view that shows res.
Effect(n, d, res) ==
    IF NeedsEvaluation(d, lastResult)
    THEN /\ inputDomain' = d /\ result' = res
         /\ analyzing' = TRUE
         /\ evaluations' = evaluations (+) Evaluating(n, d)
    ELSE /\ inputDomain' = IF d = NoDomain THEN inputDomain ELSE d
         /\ result' = lastResult
         /\ UNCHANGED <<analyzing, evaluations>>

\* The tab is opened: useState takes the props, then the effect runs.
OpenInspector ==
    /\ ~inspecting /\ InFlight + EffectRuns <= MaxEvaluations
    /\ inspecting' = TRUE
    /\ Effect(EffectRuns, lastDomain, lastResult)
    /\ UNCHANGED <<lastDomain, lastResult>>

\* Another tab: the view and its state are gone, its evaluations are not.
LeaveInspector ==
    /\ inspecting
    /\ inspecting' = FALSE
    /\ inputDomain' = NoDomain /\ analyzing' = FALSE /\ result' = NoResult
    /\ evaluations' = [e \in {[x EXCEPT !.own = FALSE] : x \in BagToSet(evaluations)} |->
                         Copies(e) + Copies([e EXCEPT !.own = TRUE])]
    /\ UNCHANGED <<lastDomain, lastResult>>

TypeDomain(d) ==
    /\ inspecting /\ inputDomain # d
    /\ inputDomain' = d
    /\ UNCHANGED <<lastDomain, lastResult, inspecting, analyzing, result, evaluations>>

\* handleAnalyze: the button is disabled while the view is loading.
Analyze ==
    /\ inspecting /\ ~analyzing /\ inputDomain # NoDomain /\ InFlight < MaxEvaluations
    /\ analyzing' = TRUE
    /\ evaluations' = evaluations (+) Evaluating(1, inputDomain)
    /\ UNCHANGED <<lastDomain, lastResult, inspecting, inputDomain, result>>

\* The copilot's EVALUATE: App opens the tab and sets the domain alone.
CopilotEvaluates(d) ==
    /\ InFlight + EffectRuns <= MaxEvaluations
    /\ inspecting' = TRUE
    /\ lastDomain' = d
    /\ CASE ~inspecting                     -> Effect(EffectRuns, d, lastResult)
         [] inspecting /\ d # lastDomain    -> Effect(1, d, result)
         [] inspecting /\ d = lastDomain    ->
              UNCHANGED <<inputDomain, analyzing, result, evaluations>>
    /\ UNCHANGED lastResult

\* The fallback for an answer that is not ok judges the name by its letters.
GuessedVerdict(d) ==
    IF d \in BadNames THEN "BLOCK" ELSE IF d \in LongNames THEN "SUSPICIOUS" ELSE "ALLOW"

\* What an evaluation of d ends with: the back end's decision, the guess after
\* an answer that is not ok, or SUSPICIOUS when the request throws.
Outcomes(d) ==
    {[domain |-> d, verdict |-> v] : v \in BackendVerdicts \cup {GuessedVerdict(d), "SUSPICIOUS"}}

\* An answer sets the result of the view that asked, if that is still there,
\* and App's pair in any case; App's change runs the effect of the view that
\* is mounted now, and the view that asked stops loading.
Answered(e) ==
    \E res \in Outcomes(e.domain) :
        /\ lastDomain' = e.domain
        /\ lastResult' = res
        /\ evaluations' = evaluations (-) SetToBag({e})
        /\ analyzing' = (analyzing /\ ~e.own)
        /\ IF inspecting
           THEN inputDomain' = e.domain /\ result' = res
           ELSE UNCHANGED <<inputDomain, result>>
        /\ UNCHANGED inspecting

InspectorNext ==
    \/ OpenInspector \/ LeaveInspector \/ Analyze
    \/ \E d \in Domains : TypeDomain(d) \/ CopilotEvaluates(d)
    \/ \E e \in BagToSet(evaluations) : Answered(e)

InspectorSpec == InspectorInit /\ [][InspectorNext]_inspectorVars

-----------------------------------------------------------------------------
InspectorTypeOK ==
    /\ lastDomain \in Domains \cup {NoDomain} /\ lastResult \in Result
    /\ inspecting \in BOOLEAN /\ analyzing \in BOOLEAN
    /\ inputDomain \in Domains \cup {NoDomain} /\ result \in Result
    /\ BagToSet(evaluations) \subseteq [domain : Domains, own : BOOLEAN]

\* Whatever the order in which typed, copilot's and abandoned evaluations
\* answer: the button is disabled only while an evaluation of this view is under
\* way, and when none is, the view shows the result of the last domain and App
\* holds the same pair.
InspectorAgrees ==
    /\ analyzing => \E e \in BagToSet(evaluations) : e.own
    /\ inspecting /\ evaluations = EmptyBag =>
         result = lastResult /\ lastResult.domain = lastDomain
=============================================================================
