---------------------------- MODULE BudgetLedger ----------------------------
(***************************************************************************)
(* What the budget ledger promises to the readers of approved amounts.     *)
(* Every envelope has at most one approved version.  A version leaves that *)
(* place only because its successor takes it, a version that was retired   *)
(* never comes back, and while a closed period freezes an envelope its     *)
(* approved version stands still: a version that is approved all the same, *)
(* on evidence from outside, ends the freeze.                              *)
(***************************************************************************)
CONSTANTS Envelopes, Versions, None

VARIABLES
    approved,   \* approved[e]: the version whose amount counts, or None
    retired,    \* versions that can never count (again)
    frozen      \* envelopes under a closed period

vars == <<approved, retired, frozen>>

Init == /\ approved = [e \in Envelopes |-> None]
        /\ retired = {}
        /\ frozen = {}

\* v becomes e's approved version; others, e.g. the draft it replaces, may
\* be retired with the version it succeeds.
Succeed(e, v, others) ==
    /\ v \notin retired
    /\ \A x \in Envelopes : approved[x] \notin {v} \cup others
    /\ v \notin others
    /\ approved' = [approved EXCEPT ![e] = v]
    /\ retired' = retired \cup others \cup ({approved[e]} \ {None})

Approve(e, v, others) == e \notin frozen /\ Succeed(e, v, others) /\ UNCHANGED frozen

Overrule(e, v) == e \in frozen /\ Succeed(e, v, {}) /\ frozen' = frozen \ {e}

\* Versions that count nowhere are dropped: replaced drafts, rejections,
\* withdrawals.
Retire(S) ==
    /\ \A e \in Envelopes : approved[e] \notin S
    /\ retired' = retired \cup S
    /\ UNCHANGED <<approved, frozen>>

\* A period closes or is reopened.
Freeze(S) == frozen' = S /\ UNCHANGED <<approved, retired>>

Next == \/ \E e \in Envelopes, v \in Versions, others \in SUBSET Versions :
               Approve(e, v, others) \/ Overrule(e, v)
        \/ \E S \in SUBSET Versions : Retire(S)
        \/ \E S \in SUBSET Envelopes : Freeze(S)

Spec == Init /\ [][Next]_vars
=============================================================================
