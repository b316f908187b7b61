----------------------------- MODULE SerialTree ------------------------------
(***************************************************************************)
(* The budget tree as its users may think of it: commands one at a time,   *)
(* each of which decides on the very tree that it changes.  No command     *)
(* puts a budget below itself, opens a second request, decides on one that *)
(* was resolved, or approves an amount that its family has no room for.    *)
(***************************************************************************)
EXTENDS Naturals, Functions

CONSTANTS Envelopes, Amounts, None

VARIABLES
    parent,     \* the tree
    amount,     \* the approved amounts, 0 without an approved version
    asked       \* the open requests: the amount they ask for, bulk or not

vars == <<parent, amount, asked>>

Requests == [n : Nat, bulk : BOOLEAN]

\* The sets that a walk up does not leave, and what is under e.
Closed   == {A \in SUBSET Envelopes : \A a \in A : parent[a] \in A \cup {None}}
Under(e) == {x \in Envelopes : \A A \in Closed : x \in A => e \in A}

\* The family of p has room for e with the amount n.
Room(p, e, n) ==
    p # None /\ amount[p] # 0 =>
       SumFunctionOnSet(amount, {c \in Envelopes \ {e} : parent[c] = p}) + n <= amount[p]

Init == /\ parent \in [Envelopes -> Envelopes \cup {None}]
        /\ \A S \in (SUBSET Envelopes) \ {{}} : \E x \in S : parent[x] \notin S
        /\ amount \in [Envelopes -> Nat]
        /\ asked \in [Envelopes -> Requests \cup {None}]

\* e goes under p; its own request, if there is one, may be returned.
Move(e, p) ==
    /\ p # parent[e] /\ parent' = [parent EXCEPT ![e] = p]
    /\ \/ asked' = asked
       \/ asked[e] # None /\ ~ asked[e].bulk /\ asked' = [asked EXCEPT ![e] = None]
    /\ UNCHANGED amount
    /\ p \notin Under(e) /\ Room(p, e, amount[e])

Ask(e, n) ==
    /\ asked[e] = None
    /\ asked' = [asked EXCEPT ![e] = [n |-> n, bulk |-> FALSE]]
    /\ UNCHANGED <<parent, amount>>

\* Approved as it is submitted.
ApplyAtOnce(e, n) ==
    /\ asked[e] = None
    /\ amount' = [amount EXCEPT ![e] = n]
    /\ UNCHANGED <<parent, asked>>
    /\ Room(parent[e], e, n)

\* The request of e is resolved: its amount is approved, or it is closed.
Resolve(e) ==
    /\ asked[e] # None /\ asked' = [asked EXCEPT ![e] = None]
    /\ \/ amount' = [amount EXCEPT ![e] = asked[e].n] /\ Room(parent[e], e, asked[e].n)
       \/ amount' = amount
    /\ UNCHANGED parent

Next ==
    \E e \in Envelopes :
       \/ \E p \in Envelopes \cup {None} : Move(e, p)
       \/ \E n \in Amounts : Ask(e, n) \/ ApplyAtOnce(e, n)
       \/ Resolve(e)

Spec == Init /\ [][Next]_vars
=============================================================================
