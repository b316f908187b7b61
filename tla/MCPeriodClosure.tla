--------------------------- MODULE MCPeriodClosure ---------------------------
(***************************************************************************)
(* A month inside a quarter, each closed once.  e1 has dates in both, e2   *)
(* only in the rest of the quarter.                                        *)
(***************************************************************************)
EXTENDS PeriodClosure, TLC

CONSTANTS e1, e2, c1, c2, month, quarter

MCPeriodOf == c1 :> month @@ c2 :> quarter
OneOverlapping == month :> {e1} @@ quarter :> {e1}
TwoOverlapping == month :> {e1} @@ quarter :> {e1, e2}

\* Where both periods have the same envelopes, month and quarter are but names.
Swapped == {c1 :> a @@ c2 :> b @@ MCPeriodOf[c1] :> MCPeriodOf[a] @@ MCPeriodOf[c2] :> MCPeriodOf[b] :
               <<a, b>> \in {<<c1, c2>>, <<c2, c1>>}}
=============================================================================
