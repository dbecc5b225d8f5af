----------------------------- MODULE OneTimeCodes -----------------------------
(***************************************************************************)
(* What the one-time codes of an account promise, without deliveries,      *)
(* look-ups, comparisons and sessions: whoever resets the password has     *)
(* used an issued code for it, once, and each reset ends the tokens        *)
(* before it.  When callers take turns, a code is open until it is used    *)
(* or has been missed too often, and is neither used nor missed after.     *)
(***************************************************************************)
EXTENDS Naturals

CONSTANTS Codes, Callers, MaxMisses

VARIABLES
    issued,     \* the codes that may be typed in
    misses,     \* wrong guesses counted against each code
    uses,       \* the callers each code was accepted from
    redeemed,   \* those that have reset the password with it
    version,    \* of the tokens that are valid
    turns       \* whether callers take turns: chosen at the start

vars == <<issued, misses, uses, redeemed, version, turns>>

Init ==
    /\ issued = {}
    /\ misses = [k \in Codes |-> 0]
    /\ uses = [k \in Codes |-> {}]
    /\ redeemed = {}
    /\ version = 0
    /\ turns \in BOOLEAN

Open(k) == k \in issued /\ (turns => uses[k] = {} /\ misses[k] < MaxMisses)

Issue(k) ==
    /\ k \notin issued
    /\ issued' = issued \cup {k}
    /\ UNCHANGED <<misses, uses, redeemed, version, turns>>

Miss(k) ==
    /\ Open(k)
    /\ misses' = [misses EXCEPT ![k] = @ + 1]
    /\ UNCHANGED <<issued, uses, redeemed, version, turns>>

\* A caller uses one code at most
Use(k, c) ==
    /\ Open(k)
    /\ \A j \in Codes : c \notin uses[j]
    /\ uses' = [uses EXCEPT ![k] = @ \cup {c}]
    /\ UNCHANGED <<issued, misses, redeemed, version, turns>>

Redeem(k, c) ==
    /\ c \in uses[k] \ redeemed
    /\ redeemed' = redeemed \cup {c}
    /\ version' = version + 1
    /\ UNCHANGED <<issued, misses, uses, turns>>

Next ==
    \E k \in Codes :
        Issue(k) \/ Miss(k) \/ \E c \in Callers : Use(k, c) \/ Redeem(k, c)

Spec == Init /\ [][Next]_vars
================================================================================
