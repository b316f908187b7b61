------------------------- MODULE MCStructuralChange -------------------------
(***************************************************************************)
(* A parent with two children that use its whole amount, or one of which   *)
(* is a draft, and two budgets not created yet.                            *)
(***************************************************************************)
EXTENDS StructuralChange, TLC

CONSTANTS p, a, b, n1, n2, r1, r2

MCEnvelopes == {p, a, b, n1, n2}
MCRequests  == {r1, r2}
MCAmounts   == {1}
MCFewerOrMore == {0, 1}

Under(q) == [e \in MCEnvelopes |-> IF e \in {a, b} THEN q ELSE None]

\* Both children approved; and one of them a draft.
MCStarts ==
    {[parent |-> Under(p), draft |-> [e \in MCEnvelopes |-> None],
      amount |-> [e \in MCEnvelopes |-> CASE e = p -> 2 [] e \in {a, b} -> 1 [] OTHER -> None]],
     [parent |-> Under(p), draft |-> [e \in MCEnvelopes |-> IF e = b THEN 1 ELSE None],
      amount |-> [e \in MCEnvelopes |-> CASE e = p -> 2 [] e = a -> 1 [] OTHER -> None]]}

Sym == Permutations({n1, n2}) \cup Permutations(MCRequests)
=============================================================================
