---------------------------- MODULE MCTreeLocks -----------------------------
(***************************************************************************)
(* Four envelopes, with parents whose ids are below and above those of     *)
(* their children, and three transactions.                                 *)
(***************************************************************************)
EXTENDS TreeLocks, TLC

CONSTANTS t1, t2, t3

MCTx == {t1, t2, t3}
MCEnvelopes == 1..4
MCAmounts == {2}

Asked(n, bulk) == [n |-> n, bulk |-> bulk]
Nothing        == [e \in MCEnvelopes |-> None]

\* 1 has the child 3 and 4 the child 2, without requests and with one of each
\* kind; and a line of three, 4 over 1 over 3, of which only 4 is approved.
MCStarts ==
    {[parent |-> <<None, 4, 1, None>>, amount |-> <<2, 2, 2, 2>>, asked |-> Nothing],
     [parent |-> <<None, 4, 1, None>>, amount |-> <<2, 0, 1, 2>>,
      asked  |-> <<None, Asked(2, FALSE), Asked(2, TRUE), None>>],
     [parent |-> <<4, 4, 1, None>>, amount |-> <<0, 0, 0, 2>>,
      asked  |-> <<Asked(2, FALSE), None, None, None>>]}

Sym == Permutations(MCTx)
=============================================================================
