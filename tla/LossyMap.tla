------------------------------ MODULE LossyMap ------------------------------
(***************************************************************************)
(* What a cache of decisions promises the pipeline that relies on it: a    *)
(* map with lifetimes that may forget an entry at any moment but never     *)
(* answers with anything but the last decision written for the key asked   *)
(* for, and never once that decision's lifetime is over.                   *)
(***************************************************************************)
EXTENDS Integers, Functions

CONSTANTS
    Threads, Keys, Values,
    Lifetimes,      \* a set of natural numbers
    NoKey,          \* a question that no entry answers, not one of Keys
    Nothing         \* not one of Values

VARIABLES
    store,      \* a partial function from Keys to [decision, left], left > 0
    answer      \* what each thread asked last and was answered

vars == <<store, answer>>

Init ==
    /\ store = <<>>
    /\ answer = [t \in Threads |-> [key |-> NoKey, decision |-> Nothing]]

\* Any entry may be forgotten, so "nothing" is always an answer.
Lookup(t, k) ==
    /\ \E v \in {Nothing} \cup {store[j].decision : j \in DOMAIN store \cap {k}} :
         answer' = [answer EXCEPT ![t] = [key |-> k, decision |-> v]]
    /\ UNCHANGED store

\* The value written, with what is left of its lifetime: less than what was
\* asked for if the writer had to wait.  The write may push other keys out.
Write(k, v, left) ==
    \E kept \in SUBSET (DOMAIN store \ {k}) :
        /\ store' = [j \in kept \cup (IF left > 0 THEN {k} ELSE {}) |->
                        IF j = k THEN [decision |-> v, left |-> left] ELSE store[j]]
        /\ UNCHANGED answer

Forget ==
    \E kept \in SUBSET DOMAIN store :
        /\ store' = Restrict(store, kept)
        /\ UNCHANGED answer

Pass ==
    /\ store' = [k \in {j \in DOMAIN store : store[j].left > 1} |->
                    [store[k] EXCEPT !.left = @ - 1]]
    /\ UNCHANGED answer

Next ==
    \/ \E t \in Threads, k \in Keys \cup {NoKey} : Lookup(t, k)
    \/ \E k \in Keys, v \in Values, ttl \in Lifetimes : \E left \in 0 .. ttl : Write(k, v, left)
    \/ Forget
    \/ Pass

Spec == Init /\ [][Next]_vars
=============================================================================
