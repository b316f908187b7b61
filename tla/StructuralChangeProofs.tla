----------------------- MODULE StructuralChangeProofs ------------------------
(***************************************************************************)
(* Proofs about StructuralChange: the types, that a version waits in one   *)
(* open request, that a change keeps the totals and fits its caps in any   *)
(* order, and that what is held stays put, for any tree and any number of  *)
(* requests.                                                               *)
(***************************************************************************)
EXTENDS StructuralChange, FunctionSums

-----------------------------------------------------------------------------
(* The inductive invariant *)

Types ==
    /\ parent \in [Envelopes -> Envelopes \cup {None}]
    /\ status \in [Envelopes -> Statuses \cup {None}]
    /\ amount \in [Envelopes -> Nat \cup {None}]
    /\ draft \in [Envelopes -> Drafts \cup {None}]
    /\ ended \subseteq Envelopes
    /\ span \in [Envelopes -> Spans]
    /\ successor \in [Envelopes -> Envelopes \cup {None}]
    /\ request \in [Requests -> Changes \cup {None}]

\* The sets of a request: what it archives, creates and ends are versions of it, and
\* what its kind leaves out is empty.
Shape(q) ==
    /\ q.archive \subseteq q.versions /\ q.created \subseteq q.versions
    /\ Ending(q) \subseteq q.versions
    /\ q.kind \in {"single", "edit", "dates"} => q.archive = {} /\ q.created = {}
    /\ q.kind \in {"end", "reintroduce"} => q.archive = {}
    /\ q.kind # "end" => q.end = None
    /\ q.kind # "dates" => DOMAIN q.dates = {}
    /\ q.kind = "dates" => q.versions \subseteq DOMAIN q.dates
    /\ q.kind \in {"split", "merge"} =>
          q.versions = q.archive \cup q.created /\ q.archive \cap q.created = {}
    /\ q.kind = "end" =>
          q.end # None /\ q.versions = {q.end.e} \cup q.created /\ q.end.e \notin q.created
    /\ q.kind \in {"single", "reintroduce"} => \E x \in Envelopes : q.versions = {x}

\* The amounts n that a request asks for, where `now` are the approved ones: a split
\* or a merge shares out what its budgets have, new dates repeat the amounts.
Terms(q, n, up, now) ==
    /\ q.kind \in {"split", "merge", "end"} =>
          /\ \A x, y \in q.versions : up[x] = up[y]
          /\ \A x \in q.created : now[x] = None
    /\ q.kind \in {"split", "merge"} =>
          /\ \A x \in q.archive : n[x] = 0
          /\ SumFunctionOnSet(n, q.versions) = SumFunctionOnSet(Paid(now), q.versions)
    /\ q.kind = "dates" => \A x \in q.versions : n[x] = now[x]

Asked(q) == [x \in q.versions |-> draft[x].n]

\* The rows: a parent was created, and what was not created has nothing.
RowsInv ==
    /\ Acyclic(parent)
    /\ \A e \in Envelopes : parent[e] # None => status[parent[e]] # None
    /\ \A e \in Envelopes : status[e] = None => amount[e] = None /\ draft[e] = None /\ e \notin ended

\* An open request.
RequestInv(q) ==
    /\ Shape(q) /\ Terms(q, Asked(q), parent, amount)
    /\ \A e \in Touched(q) : status[e] # None
    /\ \A e \in q.versions : Pending(e) /\ status[e] = "PENDING"
    /\ Ending(q) \cap ended = {}

\* Who waits: a pending version in one open request, a PENDING budget in some.
WaitInv ==
    /\ \A r, o \in Requests : Open(r) /\ Open(o) /\ r # o =>
          request[r].versions \cap request[o].versions = {}
    /\ \A e \in Envelopes : Pending(e) => \E r \in Requests : Open(r) /\ e \in request[r].versions
    /\ \A e \in Envelopes : status[e] = "PENDING" =>
          \E r \in Requests : Open(r) /\ e \in Touched(request[r])

StructureInv ==
    /\ Types /\ RowsInv /\ WaitInv
    /\ \A r \in Requests : Open(r) => RequestInv(request[r])

\* None is nothing else: the cases that the proofs tell apart.
LEMMA NoneIsNothing ==
    /\ None \notin Envelopes /\ None \notin Nat /\ None \notin Spans /\ None \notin Statuses
    /\ None \notin Drafts /\ None \notin Ends /\ None \notin Changes
BY StructureAssumption

LEMMA TouchedEnvelopes ==
    ASSUME NEW q \in Changes
    PROVE  /\ Touched(q) \subseteq Envelopes /\ Ending(q) \subseteq Envelopes
           /\ q.versions \subseteq Envelopes /\ q.archive \subseteq Envelopes
           /\ q.created \subseteq Envelopes /\ DOMAIN q.dates \subseteq Envelopes
           /\ q.dates \in [DOMAIN q.dates -> Dates]
           /\ q.end \in Ends \cup {None} /\ q.kind \in Kinds
<1>1. /\ q.versions \subseteq Envelopes /\ q.archive \subseteq Envelopes
      /\ q.created \subseteq Envelopes /\ q.end \in Ends \cup {None} /\ q.kind \in Kinds
  BY DEF Changes
<1>2. PICK D \in SUBSET Envelopes : q.dates \in [D -> Dates]
  BY DEF Changes
<1>3. Ending(q) \subseteq Envelopes
  BY <1>1 DEF Ending, Ends
<1> QED BY <1>1, <1>2, <1>3 DEF Touched

LEMMA InitStructureInv == Init => StructureInv
<1> SUFFICES ASSUME Init PROVE StructureInv
  OBVIOUS
<1> USE NoneIsNothing
<1>1. PICK s \in Starts :
        /\ parent = s.parent /\ amount = s.amount
        /\ status = [e \in Envelopes |->
                       CASE s.amount[e] # None -> "APPROVED"
                         [] s.amount[e] = None /\ s.draft[e] # None -> "DRAFT"
                         [] OTHER -> None]
        /\ draft = [e \in Envelopes |->
                      IF s.draft[e] = None THEN None ELSE [n |-> s.draft[e], status |-> "DRAFT"]]
  BY DEF Init
<1>2. /\ s.parent \in [Envelopes -> Envelopes \cup {None}] /\ s.amount \in [Envelopes -> Nat \cup {None}]
      /\ s.draft \in [Envelopes -> Nat \cup {None}] /\ Acyclic(s.parent)
      /\ \A e \in Envelopes : s.parent[e] # None =>
            s.amount[s.parent[e]] # None \/ s.draft[s.parent[e]] # None
  BY StructureAssumption
<1>3. /\ ended = {} /\ request = [r \in Requests |-> None]
      /\ span = [e \in Envelopes |-> "long"] /\ successor = [e \in Envelopes |-> None]
  BY DEF Init
<1>4. /\ status \in [Envelopes -> Statuses \cup {None}]
      /\ \A e \in Envelopes : status[e] # "PENDING"
      /\ \A e \in Envelopes : status[e] = None <=> s.amount[e] = None /\ s.draft[e] = None
  BY <1>1, <1>2 DEF Statuses
<1>5. /\ draft \in [Envelopes -> Drafts \cup {None}] /\ \A e \in Envelopes : ~ Pending(e)
      /\ \A e \in Envelopes : s.draft[e] = None => draft[e] = None
  BY <1>1, <1>2 DEF Drafts, Pending
<1>6. Types
  BY <1>1, <1>2, <1>3, <1>4, <1>5 DEF Types, Spans
<1>7. RowsInv
  BY <1>1, <1>2, <1>3, <1>4, <1>5 DEF RowsInv
<1>8. \A r \in Requests : ~ Open(r)
  BY <1>3 DEF Open
<1> QED BY <1>4, <1>5, <1>6, <1>7, <1>8 DEF StructureInv, WaitInv

-----------------------------------------------------------------------------
(* The tree *)

\* A forest stays one when rows that were not created, and are nobody's parents, are
\* placed in it.
LEMMA GraftKeepsForest ==
    ASSUME Types, RowsInv, NEW N \in SUBSET Envelopes, \A x \in N : status[x] = None,
           NEW up \in [Envelopes -> Envelopes \cup {None}],
           \A x \in Envelopes \ N : up[x] = parent[x],
           \A x \in N : up[x] # None => status[up[x]] # None
    PROVE  Acyclic(up) /\ \A x \in Envelopes : up[x] # None => status[up[x]] # None
<1>1. \A x \in Envelopes : up[x] # None => up[x] \notin N
  BY DEF RowsInv
<1>2. Acyclic(up)
  <2> SUFFICES ASSUME NEW S \in (SUBSET Envelopes) \ {{}}, \A x \in S : up[x] \in S PROVE FALSE
    BY DEF Acyclic
  <2>1. \A x \in S : up[x] \in S \ N
    BY <1>1, NoneIsNothing
  <2>2. S \ N \in (SUBSET Envelopes) \ {{}}
    BY <2>1
  <2>3. \A x \in S \ N : parent[x] \in S \ N
    BY <2>1
  <2> QED BY <2>2, <2>3 DEF RowsInv, Acyclic
<1> QED BY <1>2 DEF RowsInv

\* The way up is well defined in a forest: it meets the envelope itself, and goes on
\* to the parent of what it meets.
LEMMA AboveIsClosed ==
    ASSUME Types, Acyclic(parent), NEW e \in Envelopes
    PROVE  e \in Above(e) /\ \A x \in Above(e) \cap Envelopes : parent[x] # None => parent[x] \in Above(e)
<1> DEFINE Way(A, g) ==
              g = [x \in A |-> {x} \cup IF parent[x] = None THEN {} ELSE g[parent[x]]]
           Left == {S \in SUBSET Envelopes :
                      /\ \A x \in Envelopes \ S : parent[x] # None => parent[x] \notin S
                      /\ \E g : Way(Envelopes \ S, g)}
<1>1. Envelopes \in Left
  <2>1. Way({}, [x \in {} |-> {}])
    OBVIOUS
  <2>2. Envelopes \ Envelopes = {}
    OBVIOUS
  <2> HIDE DEF Way
  <2> QED BY <2>1, <2>2
<1>2. PICK S \in Left : \A T \in Left : T \subseteq S => T = S
  <2>1. Left \in SUBSET (SUBSET Envelopes) /\ Left # {}
    BY <1>1
  <2> HIDE DEF Left
  <2> QED BY <2>1, SmallestSet, StructureAssumption
<1>3. S = {}
  <2> SUFFICES ASSUME S # {} PROVE FALSE
    OBVIOUS
  <2>1. PICK x \in S : parent[x] \notin S
    BY DEF Acyclic
  <2> DEFINE A == Envelopes \ S  T == S \ {x}
  <2>2. PICK g : Way(A, g)
    OBVIOUS
  <2> DEFINE way == {x} \cup IF parent[x] = None THEN {} ELSE g[parent[x]]
             h == [y \in A \cup {x} |-> IF y = x THEN way ELSE g[y]]
  <2>3. x \in Envelopes /\ x \notin A /\ (parent[x] # None => parent[x] \in A)
    BY <2>1 DEF Types
  <2>4. \A y \in A : parent[y] # None => parent[y] \in A
    BY DEF Types
  <2>5. \A y \in A : g[y] = {y} \cup IF parent[y] = None THEN {} ELSE g[parent[y]]
    BY <2>2
  <2>6. \A y \in A : h[y] = g[y]
    BY <2>3
  <2>7. h[x] = way
    OBVIOUS
  <2> HIDE DEF A
  <2>8. \A y \in A \cup {x} :
          (IF y = x THEN way ELSE g[y]) = ({y} \cup IF parent[y] = None THEN {} ELSE h[parent[y]])
    <3> TAKE y \in A \cup {x}
    <3> HIDE DEF h
    <3>1. CASE y = x
      BY <2>3, <2>6, <3>1
    <3>2. CASE y # x
      BY <2>4, <2>5, <2>6, <3>2
    <3> QED BY <3>1, <3>2
  <2>9. Way(A \cup {x}, h)
    BY <2>8
  <2>10. A \cup {x} = Envelopes \ T
    BY <2>3 DEF A
  <2>11. \A y \in Envelopes \ T : parent[y] # None => parent[y] \notin T
    BY <2>3, <2>4 DEF A
  <2>12. T \in Left
    <3> HIDE DEF Way, h, T
    <3>1. Way(Envelopes \ T, h)
      BY <2>9, <2>10
    <3>2. T \in SUBSET Envelopes
      BY DEF T
    <3> QED BY <2>11, <3>1, <3>2
  <2> QED BY <1>2, <2>3, <2>12
<1> DEFINE Ups == CHOOSE g : Way(Envelopes, g)
<1>4. Way(Envelopes, Ups)
  <2>1. \E g : Way(Envelopes, g)
    BY <1>2, <1>3
  <2> HIDE DEF Way
  <2> QED BY <2>1
<1>5. \A x \in Envelopes : Above(x) = Ups[x]
  BY DEF Above
<1>6. \A x \in Envelopes : Ups[x] = {x} \cup IF parent[x] = None THEN {} ELSE Ups[parent[x]]
  BY <1>4
<1> HIDE DEF Ups, Way
<1> DEFINE Bad == {x \in Envelopes :
                     \E y \in Ups[x] \cap Envelopes : parent[y] # None /\ parent[y] \notin Ups[x]}
<1>7. Bad = {}
  <2> SUFFICES ASSUME Bad # {} PROVE FALSE
    OBVIOUS
  <2>1. PICK x \in Bad : parent[x] \notin Bad
    BY DEF Acyclic
  <2>2. PICK y \in Ups[x] \cap Envelopes : parent[y] # None /\ parent[y] \notin Ups[x]
    OBVIOUS
  <2>3. CASE y = x
    BY <1>6, <2>2, <2>3 DEF Types
  <2>4. CASE y # x
    BY <1>6, <2>1, <2>2, <2>4 DEF Types
  <2> QED BY <2>3, <2>4
<1> QED BY <1>5, <1>6, <1>7

\* A forest stays one when e goes under an envelope that is not below it.
LEMMA MoveKeepsForest ==
    ASSUME Types, Acyclic(parent), NEW e \in Envelopes, NEW to \in Envelopes \cup {None},
           to # None => e \notin Above(to)
    PROVE  Acyclic([parent EXCEPT ![e] = to])
<1> DEFINE up == [parent EXCEPT ![e] = to]
<1> SUFFICES ASSUME NEW S \in (SUBSET Envelopes) \ {{}}, \A x \in S : up[x] \in S PROVE FALSE
  BY DEF Acyclic
<1>1. up[e] = to /\ \A x \in Envelopes \ {e} : up[x] = parent[x]
  BY DEF Types
<1>2. e \in S
  BY <1>1 DEF Acyclic
<1>3. to \in S /\ to \in Envelopes /\ to # None
  BY <1>1, <1>2, NoneIsNothing
<1> DEFINE A == Above(to) \cap S
<1>4. to \in A /\ e \notin A
  BY <1>3, AboveIsClosed
<1>5. \A x \in A : parent[x] \in A
  <2> TAKE x \in A
  <2>1. parent[x] \in S /\ parent[x] # None
    BY <1>1, <1>4, NoneIsNothing
  <2> QED BY <1>3, <2>1, AboveIsClosed
<1> QED BY <1>4, <1>5 DEF Acyclic

-----------------------------------------------------------------------------
(* Open requests *)

Family(q) == q.kind \in {"split", "merge", "end"}

\* What is not written about a request keeps its part of the invariant.
LEMMA RequestKept ==
    ASSUME Types, Types', NEW q \in Changes, RequestInv(q),
           \A x \in q.versions :
              draft'[x] = draft[x] /\ amount'[x] = amount[x] /\ status'[x] = status[x],
           Family(q) => \A x \in q.versions : parent'[x] = parent[x],
           \A x \in Envelopes : status[x] # None => status'[x] # None,
           \A x \in ended' \ ended : x \notin q.versions
    PROVE  RequestInv(q)'
<1> DEFINE V == q.versions
<1>1. V \subseteq Envelopes /\ IsFiniteSet(V) /\ Touched(q) \subseteq Envelopes
  BY TouchedEnvelopes, StructureAssumption, FS_Subset
<1>2. Asked(q)' = Asked(q)
  BY DEF Asked
<1>3. \A x \in V : Paid(amount')[x] = Paid(amount)[x]
  BY <1>1 DEF Paid
<1>4. SumFunctionOnSet(Paid(amount'), V) = SumFunctionOnSet(Paid(amount), V)
  <2> HIDE DEF V
  <2> QED BY <1>1, <1>3, SumSame
<1>5. Terms(q, Asked(q)', parent', amount')
  <2>1. Terms(q, Asked(q), parent, amount)
    BY DEF RequestInv
  <2>2. Shape(q)
    BY DEF RequestInv
  <2> QED BY <1>2, <1>4, <2>1, <2>2 DEF Terms, Family, Shape
<1>6. Shape(q)' /\ \A x \in V : Pending(x)' /\ status'[x] = "PENDING"
  BY DEF RequestInv, Shape, Pending, Ending
<1>7. \A x \in Touched(q) : status'[x] # None
  BY <1>1 DEF RequestInv
<1>8. Ending(q) \cap ended' = {}
  BY DEF RequestInv, Shape
<1> QED BY <1>5, <1>6, <1>7, <1>8 DEF RequestInv, Touched, Ending

\* The versions of an open request are pending; so a version that is not, or whose
\* row was not created, is in none.
LEMMA OpenRequest ==
    ASSUME StructureInv, NEW r \in Requests, Open(r)
    PROVE  /\ request[r] \in Changes /\ RequestInv(request[r]) /\ Shape(request[r])
           /\ \A x \in request[r].versions : Pending(x) /\ status[x] = "PENDING" /\ draft[x] \in Drafts
           /\ \A x \in Touched(request[r]) : status[x] # None
           /\ request[r].versions \subseteq Touched(request[r])
<1>1. request[r] \in Changes /\ RequestInv(request[r])
  BY DEF StructureInv, Types, Open
<1>2. \A x \in request[r].versions : draft[x] \in Drafts
  BY <1>1, TouchedEnvelopes DEF RequestInv, Pending, StructureInv, Types
<1> QED BY <1>1, <1>2 DEF RequestInv, Touched

-----------------------------------------------------------------------------
(* The steps: a request is opened, a change is applied, a request is closed *)

\* What the commands hand to Route.
Proposal(q, d, up, sp, held) ==
    /\ q \in Changes /\ Shape(q)
    /\ d \in [q.versions -> Nat] /\ Terms(q, d, up, amount)
    /\ up \in [Envelopes -> Envelopes \cup {None}] /\ sp \in [Envelopes -> Spans]
    /\ \A x \in Envelopes \ q.created : up[x] = parent[x] /\ sp[x] = span[x]
    /\ \A x \in q.created : status[x] = None /\ (up[x] # None => status[up[x]] # None)
    /\ \A x \in Touched(q) \ q.created : status[x] # None
    /\ \A x \in q.versions : ~ Pending(x)
    /\ q.versions \subseteq q.archive \cup q.created \cup held
    /\ held \subseteq Touched(q)
    /\ Ending(q) \cap ended = {}
    /\ NotHeld(Ending(q) \cup DOMAIN q.dates)
    /\ ~ Stale(q)

\* A proposal touches no version of an open request, and moves nothing that one touches.
LEMMA ProposalApart ==
    ASSUME StructureInv, NEW q, NEW d, NEW up, NEW sp, NEW held, Proposal(q, d, up, sp, held),
           NEW o \in Requests, Open(o)
    PROVE  /\ request[o].versions \cap q.versions = {}
           /\ Touched(request[o]) \cap q.created = {}
           /\ \A x \in Touched(request[o]) : up[x] = parent[x] /\ sp[x] = span[x]
<1>1. /\ \A x \in request[o].versions : Pending(x)
      /\ \A x \in Touched(request[o]) : status[x] # None
      /\ Touched(request[o]) \subseteq Envelopes
  BY OpenRequest, TouchedEnvelopes
<1> QED BY <1>1 DEF Proposal

\* The request waits, with its drafts and its budgets PENDING.
Opened(r, q, d, up, sp, held) ==
    /\ ~ Open(r)
    /\ request' = [request EXCEPT ![r] = q]
    /\ parent' = up /\ span' = sp
    /\ draft'  = [e \in Envelopes |->
                    IF e \in q.versions THEN [n |-> d[e], status |-> "PENDING"] ELSE draft[e]]
    /\ status' = [e \in Envelopes |->
                    IF e \in q.archive \cup q.created \cup held THEN "PENDING" ELSE status[e]]
    /\ UNCHANGED <<amount, ended>>

LEMMA OpenStep ==
    ASSUME StructureInv, NEW q, NEW d, NEW up, NEW sp, NEW held, Proposal(q, d, up, sp, held),
           NEW r \in Requests, Opened(r, q, d, up, sp, held),
           successor' \in [Envelopes -> Envelopes \cup {None}]
    PROVE  StructureInv'
<1> USE NoneIsNothing
<1> DEFINE V == q.versions  P == q.archive \cup q.created \cup held
<1>1. /\ q \in Changes /\ Shape(q) /\ d \in [V -> Nat] /\ V \subseteq P /\ P \subseteq Touched(q)
      /\ V \subseteq Touched(q)
  BY DEF Proposal, Touched, Shape
<1>2. Touched(q) \subseteq Envelopes /\ V \subseteq Envelopes /\ q.created \subseteq Envelopes
  BY <1>1, TouchedEnvelopes
<1>3. /\ request' = [request EXCEPT ![r] = q] /\ parent' = up /\ span' = sp
      /\ draft' = [e \in Envelopes |->
                     IF e \in V THEN [n |-> d[e], status |-> "PENDING"] ELSE draft[e]]
      /\ status' = [e \in Envelopes |-> IF e \in P THEN "PENDING" ELSE status[e]]
      /\ amount' = amount /\ ended' = ended /\ request[r] = None
  BY DEF Opened, Open
<1>4. Types
  BY DEF StructureInv
<1> HIDE DEF V, P
<1>5. Types'
  <2>1. draft' \in [Envelopes -> Drafts \cup {None}]
    BY <1>1, <1>3, <1>4 DEF Types, Drafts
  <2>2. status' \in [Envelopes -> Statuses \cup {None}]
    BY <1>3, <1>4 DEF Types, Statuses
  <2>3. request' \in [Requests -> Changes \cup {None}]
    BY <1>1, <1>3, <1>4 DEF Types
  <2>4. up \in [Envelopes -> Envelopes \cup {None}] /\ sp \in [Envelopes -> Spans]
    BY DEF Proposal
  <2> QED BY <1>3, <1>4, <2>1, <2>2, <2>3, <2>4 DEF Types
<1>6. \A x \in Envelopes : status[x] # None => status'[x] # None
  BY <1>3 DEF Statuses
<1>7. \A x \in Touched(q) : status'[x] # None
  <2> TAKE x \in Touched(q)
  <2>1. x \in P \/ status[x] # None
    BY DEF Proposal, P
  <2> QED BY <1>2, <1>3, <1>6, <2>1 DEF Statuses
<1>8. ASSUME NEW o \in Requests \ {r}, Open(o) PROVE RequestInv(request[o])'
  <2> DEFINE p == request[o]
  <2>1. p \in Changes /\ RequestInv(p) /\ p.versions \subseteq Envelopes
        /\ p.versions \subseteq Touched(p)
        /\ \A x \in p.versions : status[x] = "PENDING"
    BY <1>8, OpenRequest, TouchedEnvelopes
  <2>2. p.versions \cap V = {} /\ \A x \in Touched(p) : up[x] = parent[x]
    BY <1>8, ProposalApart DEF V
  <2>3. \A x \in p.versions : draft'[x] = draft[x] /\ amount'[x] = amount[x] /\ status'[x] = status[x]
    BY <1>3, <2>1, <2>2
  <2>4. \A x \in p.versions : parent'[x] = parent[x]
    BY <1>3, <2>1, <2>2
  <2>5. request'[o] = p
    BY <1>3, <1>8, <1>4 DEF Types
  <2>6. PICK c \in Changes : c = p
    BY <2>1
  <2>7. RequestInv(c)'
    BY <1>3, <1>4, <1>5, <1>6, <2>1, <2>3, <2>4, <2>6, RequestKept
  <2> QED BY <2>5, <2>6, <2>7
<1>9. RequestInv(q)'
  <2>1. Asked(q)' = d
    BY <1>1, <1>2, <1>3 DEF Asked, V
  <2>2. Terms(q, d, parent', amount')
    BY <1>3 DEF Proposal
  <2>3. \A x \in V : Pending(x)' /\ status'[x] = "PENDING"
    BY <1>1, <1>2, <1>3, <1>5 DEF Pending, Types, Drafts
  <2>4. Ending(q) \cap ended' = {}
    BY <1>3 DEF Proposal
  <2> QED BY <1>1, <1>7, <2>1, <2>2, <2>3, <2>4 DEF RequestInv, V, Shape, Touched, Ending
<1>10. \A o \in Requests : Open(o)' =>
         \/ o = r /\ request'[o] = q
         \/ o # r /\ Open(o) /\ request'[o] = request[o]
  <2>1. request'[r] = q /\ \A o \in Requests \ {r} : request'[o] = request[o]
    BY <1>3, <1>4 DEF Types
  <2> TAKE o \in Requests
  <2>2. CASE o = r
    BY <2>1, <2>2
  <2>3. CASE o # r
    BY <2>1, <2>3 DEF Open
  <2> QED BY <2>2, <2>3
<1>11. request'[r] = q /\ q # None
       /\ \A o \in Requests : Open(o) => o # r /\ request'[o] = request[o] /\ Open(o)'
  <2>1. request'[r] = q /\ \A o \in Requests \ {r} : request'[o] = request[o]
    BY <1>3, <1>4 DEF Types
  <2> QED BY <1>1, <1>3, <2>1 DEF Open
<1>12. WaitInv'
  <2>1. \A o, p \in Requests : Open(o)' /\ Open(p)' /\ o # p =>
           request'[o].versions \cap request'[p].versions = {}
    <3>1. \A o \in Requests : Open(o) => request[o].versions \cap q.versions = {}
      BY ProposalApart
    <3> QED BY <1>10, <3>1 DEF StructureInv, WaitInv
  <2>2. \A e \in Envelopes : Pending(e)' => \E o \in Requests : Open(o)' /\ e \in request'[o].versions
    <3> TAKE e \in Envelopes
    <3>1. CASE e \in V
      BY <1>1, <1>11, <3>1 DEF Open, V
    <3>2. CASE e \notin V
      <4>1. Pending(e)' => Pending(e)
        BY <1>3, <3>2 DEF Pending
      <4> QED BY <1>11, <4>1 DEF StructureInv, WaitInv
    <3> QED BY <3>1, <3>2
  <2>3. \A e \in Envelopes : status'[e] = "PENDING" =>
           \E o \in Requests : Open(o)' /\ e \in Touched(request'[o])
    <3> TAKE e \in Envelopes
    <3>1. CASE e \in P
      BY <1>1, <1>11, <3>1 DEF Open
    <3>2. CASE e \notin P
      <4>1. status'[e] = status[e]
        BY <1>3, <3>2
      <4> QED BY <1>11, <4>1 DEF StructureInv, WaitInv
    <3> QED BY <3>1, <3>2
  <2>4. \A o \in Requests : Touched(request[o])' = Touched(request'[o])
    BY DEF Touched, Ending
  <2> QED BY <2>1, <2>2, <2>3, <2>4 DEF WaitInv
<1>13. RowsInv'
  <2>1. Acyclic(up) /\ \A x \in Envelopes : up[x] # None => status[up[x]] # None
    <3>1. PICK N \in SUBSET Envelopes : N = q.created
      BY <1>2
    <3>2. /\ \A x \in N : status[x] = None /\ (up[x] # None => status[up[x]] # None)
          /\ \A x \in Envelopes \ N : up[x] = parent[x]
          /\ up \in [Envelopes -> Envelopes \cup {None}] /\ RowsInv
      BY <3>1 DEF Proposal, StructureInv
    <3> QED BY <1>4, <3>2, GraftKeepsForest
  <2>2. \A e \in Envelopes : parent'[e] # None => status'[parent'[e]] # None
    BY <1>3, <1>5, <1>6, <2>1 DEF Types
  <2>3. \A e \in Envelopes : status'[e] = None => e \notin V /\ status[e] = None
    <3>1. \A e \in P \cap Envelopes : status'[e] = "PENDING" /\ "PENDING" # None
      BY <1>3 DEF Statuses
    <3> QED BY <1>1, <1>6, <3>1
  <2>4. \A e \in Envelopes : status'[e] = None => amount'[e] = None /\ draft'[e] = None /\ e \notin ended'
    BY <1>3, <2>3 DEF StructureInv, RowsInv
  <2>5. Acyclic(parent')
    BY <1>3, <2>1
  <2> QED BY <2>2, <2>4, <2>5 DEF RowsInv, Acyclic
<1>14. \A o \in Requests : Open(o)' => RequestInv(request[o])'
  <2> TAKE o \in Requests
  <2>1. CASE o = r
    <3>1. PICK c \in Changes : c = q
      BY <1>1
    <3> QED BY <1>9, <1>11, <2>1
  <2>2. CASE o # r
    BY <1>8, <1>10, <2>2
  <2> QED BY <2>1, <2>2
<1> QED BY <1>5, <1>12, <1>13, <1>14 DEF StructureInv

\* A change is applied, and the requests of G, which carry it, go.
Applied(G, q, d, up, sp) ==
    /\ q \in Changes /\ Shape(q) /\ d \in [q.versions -> Nat]
    /\ up \in [Envelopes -> Envelopes \cup {None}] /\ sp \in [Envelopes -> Spans]
    /\ Apply(q, d, up, sp)
    /\ Acyclic(up) /\ \A x \in Envelopes : up[x] # None => status[up[x]] # None
    /\ G \subseteq Requests /\ \A o \in G : Open(o) /\ request[o] = q
    /\ request' = [o \in Requests |-> IF o \in G THEN None ELSE request[o]]
    /\ \A o \in Requests \ G : Open(o) =>
          /\ request[o].versions \cap q.versions = {}
          /\ Family(request[o]) => \A x \in request[o].versions : up[x] = parent[x]

LEMMA ApplyStep ==
    ASSUME StructureInv, NEW G, NEW q, NEW d, NEW up, NEW sp, Applied(G, q, d, up, sp),
           successor' \in [Envelopes -> Envelopes \cup {None}]
    PROVE  StructureInv'
<1> USE NoneIsNothing
<1>0. /\ q \in Changes /\ Shape(q) /\ d \in [q.versions -> Nat]
      /\ up \in [Envelopes -> Envelopes \cup {None}] /\ sp \in [Envelopes -> Spans]
      /\ Apply(q, d, up, sp)
      /\ Acyclic(up) /\ \A x \in Envelopes : up[x] # None => status[up[x]] # None
      /\ G \subseteq Requests /\ \A o \in G : Open(o) /\ request[o] = q
      /\ request' = [o \in Requests |-> IF o \in G THEN None ELSE request[o]]
      /\ \A o \in Requests \ G : Open(o) =>
            /\ request[o].versions \cap q.versions = {}
            /\ Family(request[o]) => \A x \in request[o].versions : up[x] = parent[x]
  BY DEF Applied
<1> USE <1>0
<1> DEFINE V == q.versions  D == DOMAIN q.dates
<1>1. /\ V \subseteq Envelopes /\ q.archive \subseteq V /\ q.created \subseteq V /\ Ending(q) \subseteq V
      /\ D \subseteq Envelopes /\ q.dates \in [D -> Dates] /\ q.end \in Ends \cup {None}
  BY TouchedEnvelopes DEF Shape
<1>2. Types
  BY DEF StructureInv
<1>3. /\ parent' = up /\ ended' = ended \cup Ending(q)
      /\ amount' = [e \in Envelopes |-> IF e \in V THEN d[e] ELSE amount[e]]
      /\ draft' = [e \in Envelopes |-> IF e \in V THEN None ELSE draft[e]]
  BY <1>1 DEF Apply
<1>4. status' = [e \in Envelopes |->
                    CASE e \in q.archive     -> "ARCHIVED"
                      [] e \in V \ q.archive -> "APPROVED"
                      [] e \in D \ V         -> Released(e)
                      [] OTHER               -> status[e]]
  BY DEF Apply
<1>5. span' = [e \in Envelopes |->
                  CASE e \in D         -> q.dates[e].to
                    [] e \in Ending(q) -> q.end.span
                    [] OTHER           -> sp[e]]
  BY DEF Apply
<1> HIDE DEF V, D
<1>6. \A e \in Envelopes :
        /\ e \in V => status'[e] \in {"ARCHIVED", "APPROVED"}
        /\ e \notin V =>
             \/ status'[e] = status[e]
             \/ /\ e \in D /\ status[e] = "PENDING" /\ ~ Pending(e)
                /\ status'[e] \in {"DRAFT", "APPROVED"}
        /\ e \notin V /\ e \in D => status'[e] = Released(e)
  <2> TAKE e \in Envelopes
  <2>1. CASE e \in V
    BY <1>1, <1>4, <2>1
  <2>2. CASE e \notin V /\ e \in D
    <3>1. status'[e] = Released(e)
      BY <1>1, <1>4, <2>2
    <3> QED BY <2>2, <3>1 DEF Released, Resting
  <2>3. CASE e \notin V /\ e \notin D
    BY <1>1, <1>4, <2>3
  <2> QED BY <2>1, <2>2, <2>3
<1>7. Types'
  <2>1. amount' \in [Envelopes -> Nat \cup {None}] /\ draft' \in [Envelopes -> Drafts \cup {None}]
    BY <1>2, <1>3 DEF Types, V
  <2>2. status' \in [Envelopes -> Statuses \cup {None}]
    <3>1. \A e \in Envelopes : status'[e] \in Statuses \cup {None}
      BY <1>2, <1>6 DEF Types, Statuses
    <3> QED BY <1>4, <3>1
  <2>3. span' \in [Envelopes -> Spans]
    <3>1. \A e \in D : q.dates[e].to \in Spans
      BY <1>1 DEF Dates
    <3>2. \A e \in Ending(q) : q.end.span \in Spans
      BY <1>1 DEF Ends, Ending
    <3> QED BY <1>5, <3>1, <3>2
  <2>4. request' \in [Requests -> Changes \cup {None}]
    BY <1>2 DEF Types
  <2>5. ended' \subseteq Envelopes
    BY <1>1, <1>2, <1>3 DEF Types
  <2> QED BY <1>3, <2>1, <2>2, <2>3, <2>4, <2>5 DEF Types
<1>8. \A e \in Envelopes : status[e] # None => status'[e] # None
  BY <1>6 DEF Statuses
<1>9. RowsInv'
  <2>1. Acyclic(parent')
    BY <1>3
  <2>2. \A e \in Envelopes : parent'[e] # None => status'[parent'[e]] # None
    BY <1>3, <1>7, <1>8 DEF Types
  <2>3. \A e \in Envelopes : status'[e] = None => e \notin V /\ status[e] = None
    BY <1>6, <1>8 DEF Statuses
  <2>4. \A e \in Envelopes : status'[e] = None => amount'[e] = None /\ draft'[e] = None /\ e \notin ended'
    BY <1>1, <1>3, <2>3 DEF StructureInv, RowsInv
  <2> QED BY <2>1, <2>2, <2>4 DEF RowsInv, Acyclic
<1>10. \A o \in Requests : Open(o)' <=> Open(o) /\ o \notin G
  BY DEF Open
<1>11. \A o \in Requests \ G : request'[o] = request[o]
  OBVIOUS
<1>12. ASSUME NEW o \in Requests \ G, Open(o) PROVE RequestInv(request[o])'
  <2>1. PICK c \in Changes : c = request[o]
    BY <1>12, OpenRequest
  <2>2. /\ RequestInv(c) /\ c.versions \subseteq Envelopes
        /\ \A x \in c.versions : Pending(x)
    BY <1>12, <2>1, OpenRequest, TouchedEnvelopes
  <2>3. c.versions \cap V = {} /\ (Family(c) => \A x \in c.versions : parent'[x] = parent[x])
    BY <1>3, <1>12, <2>1 DEF V
  <2>4. \A x \in c.versions : draft'[x] = draft[x] /\ amount'[x] = amount[x] /\ status'[x] = status[x]
    BY <1>3, <1>6, <2>2, <2>3
  <2>5. \A x \in ended' \ ended : x \notin c.versions
    BY <1>1, <1>3, <2>3
  <2>6. RequestInv(c)'
    BY <1>2, <1>7, <1>8, <2>2, <2>3, <2>4, <2>5, RequestKept
  <2> QED BY <1>11, <2>1, <2>6
<1>13. WaitInv'
  <2>1. \A o, p \in Requests : Open(o)' /\ Open(p)' /\ o # p =>
           request'[o].versions \cap request'[p].versions = {}
    BY <1>10, <1>11 DEF StructureInv, WaitInv
  <2>2. \A e \in Envelopes : Pending(e) /\ e \notin V =>
           \E o \in Requests \ G : Open(o) /\ e \in request[o].versions
    BY DEF StructureInv, WaitInv, V
  <2>3. \A e \in Envelopes : Pending(e)' => Pending(e) /\ e \notin V
    BY <1>3 DEF Pending
  <2>4. \A e \in Envelopes : Pending(e)' => \E o \in Requests : Open(o)' /\ e \in request'[o].versions
    BY <1>10, <1>11, <2>2, <2>3
  <2>5. \A e \in Envelopes : status'[e] = "PENDING" =>
           \E o \in Requests : Open(o)' /\ e \in Touched(request'[o])
    <3> TAKE e \in Envelopes
    <3> HAVE status'[e] = "PENDING"
    <3>1. e \notin V /\ status[e] = "PENDING"
      BY <1>6
    <3>2. CASE e \in D
      <4>1. Pending(e)
        BY <1>6, <3>1, <3>2 DEF Released, Resting
      <4> QED BY <1>10, <1>11, <2>2, <3>1, <4>1 DEF Touched
    <3>3. CASE e \notin D
      <4>1. e \notin Touched(q)
        BY <1>1, <3>1, <3>3 DEF Touched, V, D
      <4> QED BY <1>10, <1>11, <3>1, <4>1 DEF StructureInv, WaitInv
    <3> QED BY <3>2, <3>3
  <2>6. \A o \in Requests : Touched(request[o])' = Touched(request'[o])
    BY DEF Touched, Ending
  <2> QED BY <2>1, <2>4, <2>5, <2>6 DEF WaitInv
<1> QED BY <1>7, <1>9, <1>10, <1>12, <1>13 DEF StructureInv

\* A request is closed without being applied.
LEMMA CloseStep ==
    ASSUME StructureInv, NEW r \in Requests, Open(r), NEW returned \in BOOLEAN, Close(r, returned),
           parent' \in [Envelopes -> Envelopes \cup {None}], Acyclic(parent'),
           \A x \in Envelopes : parent'[x] # None => status[parent'[x]] # None,
           \A o \in Requests \ {r} : Open(o) /\ Family(request[o]) =>
              \A x \in request[o].versions : parent'[x] = parent[x]
    PROVE  StructureInv'
<1> USE NoneIsNothing
<1>1. PICK q \in Changes : q = request[r]
  BY OpenRequest
<1> DEFINE V == q.versions  D == DOMAIN q.dates
<1>2. /\ V \subseteq Envelopes /\ q.archive \subseteq V /\ q.created \subseteq V /\ Ending(q) \subseteq V
      /\ D \subseteq Envelopes /\ \A e \in V : draft[e] \in Drafts
  BY <1>1, OpenRequest, TouchedEnvelopes DEF Shape
<1>3. Types
  BY DEF StructureInv
<1>4. draft' = [e \in Envelopes |->
                  CASE e \in V -> IF returned THEN [n |-> draft[e].n, status |-> "DRAFT"] ELSE None
                    [] OTHER   -> draft[e]]
  BY <1>1 DEF Close
<1>5. status' = [e \in Envelopes |->
                   CASE e \in q.created /\ ~ returned -> "ARCHIVED"
                     [] e \in V /\ ~ (e \in q.created /\ ~ returned) -> Resting(amount[e])
                     [] e \in D \ V -> Released(e)
                     [] OTHER -> status[e]]
  BY <1>1 DEF Close
<1>6. /\ request' = [request EXCEPT ![r] = None]
      /\ amount' = amount /\ ended' = ended /\ span' = span /\ successor' = successor
  BY DEF Close
<1> HIDE DEF V, D
<1>7. \A e \in Envelopes :
        /\ e \in V => status'[e] \in {"ARCHIVED", "APPROVED", "DRAFT"}
        /\ e \notin V =>
             \/ status'[e] = status[e]
             \/ /\ e \in D /\ status[e] = "PENDING" /\ ~ Pending(e)
                /\ status'[e] \in {"DRAFT", "APPROVED"}
        /\ e \notin V /\ e \in D => status'[e] = Released(e)
  <2> TAKE e \in Envelopes
  <2>1. CASE e \in V
    BY <1>2, <1>5, <2>1 DEF Resting
  <2>2. CASE e \notin V /\ e \in D
    <3>1. status'[e] = Released(e)
      BY <1>2, <1>5, <2>2
    <3> QED BY <2>2, <3>1 DEF Released, Resting
  <2>3. CASE e \notin V /\ e \notin D
    BY <1>2, <1>5, <2>3
  <2> QED BY <2>1, <2>2, <2>3
<1>8. Types'
  <2>1. draft' \in [Envelopes -> Drafts \cup {None}]
    <3>1. \A e \in V : [n |-> draft[e].n, status |-> "DRAFT"] \in Drafts
      BY <1>2 DEF Drafts
    <3> QED BY <1>3, <1>4, <3>1 DEF Types
  <2>2. status' \in [Envelopes -> Statuses \cup {None}]
    <3>1. \A e \in Envelopes : status'[e] \in Statuses \cup {None}
      BY <1>3, <1>7 DEF Types, Statuses
    <3> QED BY <1>5, <3>1
  <2>3. request' \in [Requests -> Changes \cup {None}]
    BY <1>3, <1>6 DEF Types
  <2> QED BY <1>3, <1>6, <2>1, <2>2, <2>3 DEF Types
<1>9. \A e \in Envelopes : status[e] # None => status'[e] # None
  BY <1>7 DEF Statuses
<1>10. RowsInv'
  <2>1. \A e \in Envelopes : parent'[e] # None => status'[parent'[e]] # None
    BY <1>8, <1>9 DEF Types
  <2>2. \A e \in Envelopes : status'[e] = None => e \notin V /\ status[e] = None
    BY <1>7, <1>9 DEF Statuses
  <2>3. \A e \in Envelopes : status'[e] = None => amount'[e] = None /\ draft'[e] = None /\ e \notin ended'
    BY <1>4, <1>6, <2>2 DEF StructureInv, RowsInv
  <2> QED BY <2>1, <2>3 DEF RowsInv, Acyclic
<1>11. /\ \A o \in Requests : Open(o)' <=> Open(o) /\ o # r
       /\ \A o \in Requests \ {r} : request'[o] = request[o]
  <2>1. request'[r] = None /\ \A o \in Requests \ {r} : request'[o] = request[o]
    BY <1>3, <1>6 DEF Types
  <2> QED BY <2>1 DEF Open
<1>12. ASSUME NEW o \in Requests \ {r}, Open(o) PROVE RequestInv(request[o])'
  <2>1. PICK c \in Changes : c = request[o]
    BY <1>12, OpenRequest
  <2>2. /\ RequestInv(c) /\ c.versions \subseteq Envelopes
        /\ \A x \in c.versions : Pending(x)
    BY <1>12, <2>1, OpenRequest, TouchedEnvelopes
  <2>3. c.versions \cap V = {} /\ (Family(c) => \A x \in c.versions : parent'[x] = parent[x])
    BY <1>1, <1>12, <2>1 DEF V, StructureInv, WaitInv
  <2>4. \A x \in c.versions : draft'[x] = draft[x] /\ amount'[x] = amount[x] /\ status'[x] = status[x]
    BY <1>4, <1>6, <1>7, <2>2, <2>3
  <2>5. RequestInv(c)'
    BY <1>3, <1>6, <1>8, <1>9, <2>2, <2>3, <2>4, RequestKept
  <2> QED BY <1>11, <2>1, <2>5
<1>13. WaitInv'
  <2>1. \A o, p \in Requests : Open(o)' /\ Open(p)' /\ o # p =>
           request'[o].versions \cap request'[p].versions = {}
    BY <1>11 DEF StructureInv, WaitInv
  <2>2. \A e \in Envelopes : Pending(e) /\ e \notin V =>
           \E o \in Requests \ {r} : Open(o) /\ e \in request[o].versions
    BY <1>1 DEF StructureInv, WaitInv, V
  <2>3. \A e \in Envelopes : Pending(e)' => Pending(e) /\ e \notin V
    BY <1>4 DEF Pending
  <2>4. \A e \in Envelopes : Pending(e)' => \E o \in Requests : Open(o)' /\ e \in request'[o].versions
    BY <1>11, <2>2, <2>3
  <2>5. \A e \in Envelopes : status'[e] = "PENDING" =>
           \E o \in Requests : Open(o)' /\ e \in Touched(request'[o])
    <3> TAKE e \in Envelopes
    <3> HAVE status'[e] = "PENDING"
    <3>1. e \notin V /\ status[e] = "PENDING"
      BY <1>7
    <3>2. CASE e \in D
      <4>1. Pending(e)
        BY <1>7, <3>1, <3>2 DEF Released, Resting
      <4> QED BY <1>11, <2>2, <3>1, <4>1 DEF Touched
    <3>3. CASE e \notin D
      <4>1. e \notin Touched(q)
        BY <1>2, <3>1, <3>3 DEF Touched, V, D
      <4> QED BY <1>1, <1>11, <3>1, <4>1 DEF StructureInv, WaitInv
    <3> QED BY <3>2, <3>3
  <2>6. \A o \in Requests : Touched(request[o])' = Touched(request'[o])
    BY DEF Touched, Ending
  <2> QED BY <2>1, <2>4, <2>5, <2>6 DEF WaitInv
<1> QED BY <1>8, <1>10, <1>11, <1>12, <1>13 DEF StructureInv

\* A step that changes no request, and no budget or version that waits.
LEMMA QuietStep ==
    ASSUME StructureInv, Types', RowsInv', request' = request, amount' = amount, ended' = ended,
           \A x \in Envelopes : Pending(x) => draft'[x] = draft[x],
           \A x \in Envelopes : Pending(x)' => Pending(x),
           \A x \in Envelopes : status[x] # None => status'[x] = status[x],
           \A x \in Envelopes : status'[x] = "PENDING" => status[x] = "PENDING",
           \A o \in Requests : Open(o) /\ Family(request[o]) =>
              \A x \in request[o].versions : parent'[x] = parent[x]
    PROVE  StructureInv'
<1>1. ASSUME NEW o \in Requests, Open(o) PROVE RequestInv(request[o])'
  <2>1. PICK c \in Changes : c = request[o]
    BY <1>1, OpenRequest
  <2>2. /\ RequestInv(c) /\ c.versions \subseteq Envelopes
        /\ \A x \in c.versions : Pending(x) /\ status[x] = "PENDING"
    BY <1>1, <2>1, OpenRequest, TouchedEnvelopes
  <2>3. \A x \in c.versions : draft'[x] = draft[x] /\ amount'[x] = amount[x] /\ status'[x] = status[x]
    BY <2>2, NoneIsNothing DEF Statuses
  <2>4. Family(c) => \A x \in c.versions : parent'[x] = parent[x]
    BY <1>1, <2>1
  <2>5. RequestInv(c)'
    BY <2>2, <2>3, <2>4, RequestKept DEF StructureInv
  <2> QED BY <2>1, <2>5
<1>2. WaitInv'
  BY DEF StructureInv, WaitInv, Open, Touched, Ending
<1>3. \A o \in Requests : Open(o)' <=> Open(o)
  BY DEF Open
<1> QED BY <1>1, <1>2, <1>3 DEF StructureInv

\* A proposal that is routed keeps the invariant, applied at once or opened.
LEMMA RouteStep ==
    ASSUME StructureInv, NEW q, NEW d, NEW up, NEW sp, NEW held, Proposal(q, d, up, sp, held),
           Route(q, d, up, sp, held), successor' \in [Envelopes -> Envelopes \cup {None}]
    PROVE  StructureInv'
<1>1. CASE \E r \in Requests : Opened(r, q, d, up, sp, held)
  BY <1>1, OpenStep
<1>2. CASE Apply(q, d, up, sp) /\ UNCHANGED request
  <2>1. PICK c \in Changes : c = q
    BY DEF Proposal
  <2>2. /\ Shape(c) /\ d \in [c.versions -> Nat] /\ up \in [Envelopes -> Envelopes \cup {None}]
        /\ sp \in [Envelopes -> Spans]
    BY <2>1 DEF Proposal
  <2>3. Acyclic(up) /\ \A x \in Envelopes : up[x] # None => status[up[x]] # None
    <3>1. PICK N \in SUBSET Envelopes : N = c.created
      BY TouchedEnvelopes
    <3>2. /\ \A x \in N : status[x] = None /\ (up[x] # None => status[up[x]] # None)
          /\ \A x \in Envelopes \ N : up[x] = parent[x]
          /\ RowsInv /\ Types
      BY <2>1, <3>1 DEF Proposal, StructureInv
    <3> QED BY <2>2, <3>2, GraftKeepsForest
  <2>4. \A o \in Requests : Open(o) =>
          /\ request[o].versions \cap c.versions = {}
          /\ \A x \in request[o].versions : up[x] = parent[x]
    BY <2>1, ProposalApart, OpenRequest
  <2>5. request' = [o \in Requests |-> IF o \in {} THEN None ELSE request[o]]
    BY <1>2 DEF StructureInv, Types
  <2>6. Applied({}, q, d, up, sp)
    BY <1>2, <2>1, <2>2, <2>3, <2>4, <2>5 DEF Applied
  <2> QED BY <2>6, ApplyStep
<1> QED BY <1>1, <1>2 DEF Route, Opened

-----------------------------------------------------------------------------
(* The commands *)

\* Most commands make a proposal and route it.
Routed ==
    /\ successor' \in [Envelopes -> Envelopes \cup {None}]
    /\ \E q, d, up, sp, held : Proposal(q, d, up, sp, held) /\ Route(q, d, up, sp, held)

LEMMA NoDatesTyped == NoDates \in [{} -> Dates] /\ DOMAIN NoDates = {}
BY DEF NoDates

\* Nothing is held by the empty set.
LEMMA NotHeldNone == NotHeld({})
BY DEF NotHeld

LEMMA SubmitProposes ==
    ASSUME StructureInv, NEW e \in Envelopes, Submit(e)
    PROVE  Routed
<1> USE NoneIsNothing
<1> DEFINE q == Change("single", {e}, {}, {})  d == [x \in {e} |-> draft[e].n]
<1>1. /\ q \in Changes /\ q.kind = "single" /\ q.versions = {e} /\ q.archive = {} /\ q.created = {}
      /\ q.end = None /\ DOMAIN q.dates = {} /\ Ending(q) = {} /\ Touched(q) = {e}
  BY NoDatesTyped DEF Change, Changes, Kinds, Ending, Touched
<1>2. draft[e] # None /\ ~ Pending(e) /\ Route(q, d, parent, span, {e}) /\ UNCHANGED successor
  BY DEF Submit, Unsent
<1>3. Types /\ RowsInv
  BY DEF StructureInv
<1>4. d \in [{e} -> Nat]
  BY <1>2, <1>3 DEF Types, Drafts
<1> HIDE DEF q, d
<1>5. Shape(q)
  BY <1>1 DEF Shape
<1>6. Terms(q, d, parent, amount)
  BY <1>1 DEF Terms
<1>7. status[e] # None
  BY <1>2, <1>3 DEF RowsInv
<1>8. Proposal(q, d, parent, span, {e})
  BY <1>1, <1>2, <1>3, <1>4, <1>5, <1>6, <1>7, NotHeldNone DEF Proposal, Stale, Types
<1> QED BY <1>2, <1>3, <1>8 DEF Routed, Types

LEMMA BulkEditProposes ==
    ASSUME StructureInv, NEW S \in SUBSET Envelopes, BulkEdit(S)
    PROVE  Routed
<1> USE NoneIsNothing
<1> DEFINE q == Change("edit", S, {}, {})
<1>1. /\ q \in Changes /\ q.kind = "edit" /\ q.versions = S /\ q.archive = {} /\ q.created = {}
      /\ q.end = None /\ DOMAIN q.dates = {} /\ Ending(q) = {} /\ Touched(q) = S
  BY NoDatesTyped DEF Change, Changes, Kinds, Ending, Touched
<1>2. PICK d \in [S -> Amounts] : Route(q, d, parent, span, S)
  BY DEF BulkEdit
<1>3. \A e \in S : status[e] # None /\ ~ Pending(e)
  BY DEF BulkEdit, Live, Unsent
<1>4. Types /\ UNCHANGED successor
  BY DEF StructureInv, BulkEdit
<1>5. d \in [S -> Nat]
  BY StructureAssumption
<1> HIDE DEF q
<1>6. Shape(q) /\ Terms(q, d, parent, amount)
  BY <1>1 DEF Shape, Terms
<1>7. Proposal(q, d, parent, span, S)
  BY <1>1, <1>3, <1>4, <1>5, <1>6, NotHeldNone DEF Proposal, Stale, Types
<1> QED BY <1>2, <1>4, <1>7 DEF Routed, Types

LEMMA SplitProposes ==
    ASSUME StructureInv, NEW e \in Envelopes, Split(e)
    PROVE  Routed
<1> USE NoneIsNothing
<1>1. PICK f \in Parts(e) :
        LET new == DOMAIN f
        IN  Route(Change("split", new \cup {e}, {e}, new),
                  [x \in new \cup {e} |-> IF x = e THEN 0 ELSE f[x]],
                  Placed(new, parent[e]), Dated(new, span[e]), {})
  BY DEF Split
<1> DEFINE new == DOMAIN f  V == new \cup {e}
           q == Change("split", V, {e}, new)
           d == [x \in V |-> IF x = e THEN 0 ELSE f[x]]
           up == Placed(new, parent[e])  sp == Dated(new, span[e])
<1>2. Types /\ RowsInv /\ UNCHANGED successor
  BY DEF StructureInv, Split
<1>3. status[e] # None /\ e \notin ended /\ ~ Pending(e) /\ amount[e] \in Nat
  BY <1>2 DEF Split, Writable, Live, Unsent, Types
<1>4. /\ new \in SUBSET Envelopes /\ \A x \in new : status[x] = None
      /\ \A x \in new : f[x] \in Nat
      /\ SumFunctionOnSet(f, new) = amount[e]
  <2>1. PICK S \in kSubset(2, {x \in Envelopes : status[x] = None}) : f \in [S -> 0..amount[e]]
    BY DEF Parts
  <2>2. S \subseteq {x \in Envelopes : status[x] = None} /\ new = S
    BY <2>1 DEF kSubset
  <2>3. SumFunction(f) = amount[e]
    BY DEF Parts
  <2>4. \A x \in S : f[x] \in 0..amount[e]
    BY <2>1
  <2> QED BY <2>2, <2>3, <2>4 DEF SumFunction
<1>5. /\ q \in Changes /\ q.kind = "split" /\ q.versions = V /\ q.archive = {e} /\ q.created = new
      /\ q.end = None /\ DOMAIN q.dates = {} /\ Ending(q) = {} /\ Touched(q) = V
  BY <1>4, NoDatesTyped DEF Change, Changes, Kinds, Ending, Touched
<1>6. Route(q, d, up, sp, {})
  BY <1>1
<1>7. d \in [V -> Nat] /\ d[e] = 0 /\ e \notin new /\ \A x \in new : d[x] = f[x]
  BY <1>3, <1>4
<1>8. /\ up \in [Envelopes -> Envelopes \cup {None}] /\ sp \in [Envelopes -> Spans]
      /\ \A x \in V : up[x] = parent[e]
      /\ \A x \in Envelopes \ new : up[x] = parent[x] /\ sp[x] = span[x]
  <2>1. parent[e] \in Envelopes \cup {None} /\ span[e] \in Spans
    BY <1>2 DEF Types
  <2> HIDE DEF new
  <2>2. /\ up \in [Envelopes -> Envelopes \cup {None}] /\ sp \in [Envelopes -> Spans]
        /\ \A x \in new : up[x] = parent[e]
        /\ \A x \in Envelopes \ new : up[x] = parent[x] /\ sp[x] = span[x]
    BY <1>2, <1>4, <2>1 DEF Types, Placed, Dated
  <2> QED BY <1>7, <2>2
<1>9. \A x \in V : status[x] = None => amount[x] = None /\ ~ Pending(x)
  BY <1>2, <1>4 DEF RowsInv, Pending
<1>10. parent[e] # None => status[parent[e]] # None
  BY <1>2 DEF RowsInv
<1> HIDE DEF up, sp, q, d
<1>11. SumFunctionOnSet(d, V) = SumFunctionOnSet(Paid(amount), V)
  <2> DEFINE paid == Paid(amount)
  <2>1. paid[e] = amount[e] /\ \A x \in new : paid[x] = 0
    BY <1>3, <1>4, <1>9 DEF Paid, Money
  <2>2. IsFiniteSet(new)
    BY <1>4, StructureAssumption, FS_Subset
  <2> HIDE DEF paid, new
  <2>3. SumFunctionOnSet(d, new) = amount[e] /\ SumFunctionOnSet(paid, new) = 0
    BY <1>4, <1>7, <2>1, <2>2, SumSame, SumOfZeros
  <2>4. SumFunctionOnSet(d, new \cup {e}) = d[e] + SumFunctionOnSet(d, new)
    <3>1. \A x \in new \cup {e} : d[x] \in Nat
      BY <1>4, <1>7
    <3> QED BY <1>7, <2>2, <3>1, SumWith
  <2>5. SumFunctionOnSet(paid, new \cup {e}) = paid[e] + SumFunctionOnSet(paid, new)
    <3>1. \A x \in new \cup {e} : paid[x] \in Nat
      BY <1>3, <2>1
    <3> QED BY <1>7, <2>2, <3>1, SumWith
  <2>6. \A n \in Nat : n + 0 = n /\ 0 + n = n
    OBVIOUS
  <2> QED BY <1>3, <1>7, <2>1, <2>3, <2>4, <2>5, <2>6 DEF V, new, paid
<1> HIDE DEF V, new
<1>12. Shape(q)
  BY <1>5, <1>7 DEF Shape, V
<1>13. Terms(q, d, up, amount)
  BY <1>4, <1>5, <1>7, <1>8, <1>9, <1>11 DEF Terms, V
<1>14. Proposal(q, d, up, sp, {})
  BY <1>3, <1>4, <1>5, <1>7, <1>8, <1>9, <1>10, <1>12, <1>13, NotHeldNone DEF Proposal, Stale, V
<1> QED BY <1>2, <1>6, <1>14 DEF Routed, Types

LEMMA MergeProposes ==
    ASSUME StructureInv, NEW S \in SUBSET Envelopes, Merge(S)
    PROVE  Routed
<1> USE NoneIsNothing
<1>1. PICK p \in {parent[e] : e \in S}, x \in Envelopes :
         /\ \A e \in S : parent[e] = p
         /\ status[x] = None /\ CanHold(p)
         /\ Route(Change("merge", S \cup {x}, S, {x}),
                  [y \in S \cup {x} |-> IF y = x THEN SumFunctionOnSet(amount, S) ELSE 0],
                  Placed({x}, p),
                  Dated({x}, IF \E e \in S : span[e] = "long" THEN "long" ELSE "short"), {})
  BY DEF Merge
<1> DEFINE V == S \cup {x}
           q == Change("merge", V, S, {x})
           d == [y \in V |-> IF y = x THEN SumFunctionOnSet(amount, S) ELSE 0]
           s == IF \E e \in S : span[e] = "long" THEN "long" ELSE "short"
           up == Placed({x}, p)  sp == Dated({x}, s)
<1>2. Types /\ RowsInv /\ UNCHANGED successor
  BY DEF StructureInv, Merge
<1>3. \A e \in S : status[e] # None /\ ~ Pending(e) /\ amount[e] \in Nat
  BY <1>2 DEF Merge, Writable, Live, Unsent, Types
<1>4. x \notin S /\ amount[x] = None /\ ~ Pending(x) /\ IsFiniteSet(S)
  BY <1>1, <1>2, <1>3, StructureAssumption, FS_Subset DEF RowsInv, Pending
<1>5. /\ q \in Changes /\ q.kind = "merge" /\ q.versions = V /\ q.archive = S /\ q.created = {x}
      /\ q.end = None /\ DOMAIN q.dates = {} /\ Ending(q) = {} /\ Touched(q) = V
  BY NoDatesTyped DEF Change, Changes, Kinds, Ending, Touched
<1>6. Route(q, d, up, sp, {})
  BY <1>1
<1>7. SumFunctionOnSet(amount, S) \in Nat
  BY <1>3, <1>4, SumType
<1>8. d \in [V -> Nat] /\ d[x] = SumFunctionOnSet(amount, S) /\ \A y \in S : d[y] = 0
  BY <1>4, <1>7
<1>9. s \in Spans /\ p \in Envelopes \cup {None}
  BY <1>1, <1>2 DEF Spans, Types
<1> HIDE DEF s
<1>10. /\ up \in [Envelopes -> Envelopes \cup {None}] /\ sp \in [Envelopes -> Spans]
       /\ up[x] = p
       /\ \A y \in Envelopes \ {x} : up[y] = parent[y] /\ sp[y] = span[y]
  BY <1>2, <1>9 DEF Types, Placed, Dated
<1>11. \A y \in V : up[y] = p
  BY <1>1, <1>4, <1>10
<1>12. p # None => status[p] # None
  BY <1>1, <1>2 DEF RowsInv
<1> HIDE DEF up, sp, q, d
<1>13. SumFunctionOnSet(d, V) = SumFunctionOnSet(Paid(amount), V)
  <2> DEFINE paid == Paid(amount)
  <2>1. paid[x] = 0 /\ \A y \in S : paid[y] = amount[y]
    BY <1>3, <1>4 DEF Paid, Money
  <2> HIDE DEF paid
  <2>2. SumFunctionOnSet(d, S) = 0 /\ SumFunctionOnSet(paid, S) = SumFunctionOnSet(amount, S)
    BY <1>4, <1>8, <2>1, SumSame, SumOfZeros
  <2>3. SumFunctionOnSet(d, S \cup {x}) = d[x] + SumFunctionOnSet(d, S)
    <3>1. \A y \in S \cup {x} : d[y] \in Nat
      BY <1>7, <1>8
    <3> QED BY <1>4, <3>1, SumWith
  <2>4. SumFunctionOnSet(paid, S \cup {x}) = paid[x] + SumFunctionOnSet(paid, S)
    <3>1. \A y \in S \cup {x} : paid[y] \in Nat
      BY <1>3, <2>1
    <3> QED BY <1>4, <3>1, SumWith
  <2>5. \A n \in Nat : n + 0 = n /\ 0 + n = n
    OBVIOUS
  <2> QED BY <1>7, <1>8, <2>1, <2>2, <2>3, <2>4, <2>5 DEF V, paid
<1> HIDE DEF V
<1>14. Shape(q)
  BY <1>4, <1>5 DEF Shape, V
<1>15. Terms(q, d, up, amount)
  BY <1>4, <1>5, <1>8, <1>11, <1>13 DEF Terms, V
<1>16. Proposal(q, d, up, sp, {})
  BY <1>1, <1>3, <1>4, <1>5, <1>8, <1>10, <1>12, <1>14, <1>15, NotHeldNone DEF Proposal, Stale, V
<1> QED BY <1>2, <1>6, <1>16 DEF Routed, Types

LEMMA EndProposes ==
    ASSUME StructureInv, NEW e \in Envelopes, End(e)
    PROVE  Routed
<1> USE NoneIsNothing
<1>1. PICK n \in Amounts, s \in Spans :
         LET q == [Change("end", {e}, {}, {}) EXCEPT !.end = [e |-> e, span |-> s]]
         IN  \/ /\ Route(q, [y \in {e} |-> n], parent, span, {e})
                /\ UNCHANGED successor
             \/ \E x \in Envelopes, m \in Amounts :
                  /\ Continues(e, x)
                  /\ Route([q EXCEPT !.versions = {e, x}, !.created = {x}],
                           [y \in {e, x} |-> IF y = e THEN n ELSE m],
                           Placed({x}, parent[e]), Dated({x}, "long"), {e})
  BY DEF End
<1>2. Types /\ RowsInv
  BY DEF StructureInv
<1>3. status[e] # None /\ e \notin ended /\ ~ Pending(e) /\ NotHeld({e})
  BY DEF End, Writable, Live, Unsent
<1> DEFINE q == [Change("end", {e}, {}, {}) EXCEPT !.end = [e |-> e, span |-> s]]
<1>4. [e |-> e, span |-> s] \in Ends /\ n \in Nat /\ [e |-> e, span |-> s] # None
  BY StructureAssumption DEF Ends
<1>5. /\ q \in Changes /\ q.kind = "end" /\ q.versions = {e} /\ q.archive = {} /\ q.created = {}
      /\ q.end # None /\ q.end.e = e /\ DOMAIN q.dates = {} /\ Ending(q) = {e} /\ Touched(q) = {e}
  BY <1>4, NoDatesTyped DEF Change, Changes, Kinds, Ending, Touched
<1>6. CASE Route(q, [y \in {e} |-> n], parent, span, {e}) /\ UNCHANGED successor
  <2> DEFINE d == [y \in {e} |-> n]
  <2>1. d \in [{e} -> Nat]
    BY <1>4
  <2> HIDE DEF q, d
  <2>2. Shape(q) /\ Terms(q, d, parent, amount)
    BY <1>5 DEF Shape, Terms
  <2>3. Proposal(q, d, parent, span, {e})
    BY <1>2, <1>3, <1>5, <2>1, <2>2 DEF Proposal, Stale, Types
  <2> QED BY <1>2, <1>6, <2>3 DEF Routed, Types, d
<1>7. ASSUME NEW x \in Envelopes, NEW m \in Amounts, Continues(e, x),
             Route([q EXCEPT !.versions = {e, x}, !.created = {x}],
                   [y \in {e, x} |-> IF y = e THEN n ELSE m],
                   Placed({x}, parent[e]), Dated({x}, "long"), {e})
      PROVE  Routed
  <2> DEFINE p == [q EXCEPT !.versions = {e, x}, !.created = {x}]
             d == [y \in {e, x} |-> IF y = e THEN n ELSE m]
             up == Placed({x}, parent[e])  sp == Dated({x}, "long")
  <2>1. /\ p \in Changes /\ p.kind = "end" /\ p.versions = {e, x} /\ p.archive = {} /\ p.created = {x}
        /\ p.end # None /\ p.end.e = e /\ DOMAIN p.dates = {} /\ Ending(p) = {e} /\ Touched(p) = {e, x}
    BY <1>4, NoDatesTyped DEF Change, Changes, Kinds, Ending, Touched
  <2>2. d \in [{e, x} -> Nat]
    BY <1>4, StructureAssumption
  <2>3. /\ status[x] = None /\ ~ Pending(x) /\ amount[x] = None /\ x # e
        /\ (parent[e] # None => status[parent[e]] # None)
        /\ successor' \in [Envelopes -> Envelopes \cup {None}]
    BY <1>2, <1>3, <1>7 DEF Continues, RowsInv, Pending, Types
  <2>4. /\ up \in [Envelopes -> Envelopes \cup {None}] /\ sp \in [Envelopes -> Spans]
        /\ up[x] = parent[e] /\ \A y \in Envelopes \ {x} : up[y] = parent[y] /\ sp[y] = span[y]
    BY <1>2 DEF Types, Placed, Dated, Spans
  <2>5. Route(p, d, up, sp, {e})
    BY <1>7
  <2> HIDE DEF q, p, d, up, sp
  <2>6. Shape(p)
    BY <2>1, <2>3 DEF Shape
  <2>7. Terms(p, d, up, amount)
    BY <2>1, <2>3, <2>4 DEF Terms
  <2>8. Proposal(p, d, up, sp, {e})
    BY <1>3, <2>1, <2>2, <2>3, <2>4, <2>6, <2>7 DEF Proposal, Stale
  <2> QED BY <2>3, <2>5, <2>8 DEF Routed
<1> QED BY <1>1, <1>6, <1>7

LEMMA ReintroduceProposes ==
    ASSUME StructureInv, NEW e \in Envelopes, Reintroduce(e)
    PROVE  Routed
<1> USE NoneIsNothing
<1>1. PICK x \in Envelopes, m \in Amounts :
        /\ Continues(e, x)
        /\ Route(Change("reintroduce", {x}, {}, {x}), [y \in {x} |-> m],
                 Placed({x}, parent[e]), Dated({x}, "long"), {})
  BY DEF Reintroduce
<1> DEFINE q == Change("reintroduce", {x}, {}, {x})  d == [y \in {x} |-> m]
           up == Placed({x}, parent[e])  sp == Dated({x}, "long")
<1>2. Types /\ RowsInv
  BY DEF StructureInv
<1>3. /\ q \in Changes /\ q.kind = "reintroduce" /\ q.versions = {x} /\ q.archive = {} /\ q.created = {x}
      /\ q.end = None /\ DOMAIN q.dates = {} /\ Ending(q) = {} /\ Touched(q) = {x}
  BY NoDatesTyped DEF Change, Changes, Kinds, Ending, Touched
<1>4. d \in [{x} -> Nat]
  BY StructureAssumption
<1>5. /\ status[x] = None /\ ~ Pending(x)
      /\ (parent[e] # None => status[parent[e]] # None)
      /\ successor' \in [Envelopes -> Envelopes \cup {None}]
  BY <1>1, <1>2 DEF Continues, RowsInv, Pending, Types
<1>6. /\ up \in [Envelopes -> Envelopes \cup {None}] /\ sp \in [Envelopes -> Spans]
      /\ up[x] = parent[e] /\ \A y \in Envelopes \ {x} : up[y] = parent[y] /\ sp[y] = span[y]
  BY <1>2 DEF Types, Placed, Dated, Spans
<1>7. Route(q, d, up, sp, {})
  BY <1>1
<1> HIDE DEF q, d, up, sp
<1>8. Shape(q) /\ Terms(q, d, up, amount)
  BY <1>3 DEF Shape, Terms
<1>9. Proposal(q, d, up, sp, {})
  BY <1>3, <1>4, <1>5, <1>6, <1>8, NotHeldNone DEF Proposal, Stale
<1> QED BY <1>5, <1>7, <1>9 DEF Routed

\* What new dates touch is e and rows that were created.
LEMMA LinesAreLive ==
    ASSUME NEW e \in Envelopes, NEW to
    PROVE  /\ Lines(e, to) \subseteq Envelopes /\ e \in Lines(e, to)
           /\ \A x \in Lines(e, to) : x = e \/ Live(x)
<1> DEFINE A == {e} \cup {x \in Envelopes : Live(x)}
<1>1. A \in SUBSET Envelopes /\ e \in A
      /\ \A c \in Envelopes : Live(c) /\ parent[c] \in A /\ Outside(span[c], to) => c \in A
  OBVIOUS
<1>2. Lines(e, to) \subseteq A
  <2> HIDE DEF A
  <2> QED BY <1>1 DEF Lines
<1>3. e \in Lines(e, to)
  BY DEF Lines
<1> QED BY <1>2, <1>3

\* The lines D fit with what is around them when all get the dates `to`.
LinesFit(D, to) ==
    \A x \in D :
       /\ parent[x] # None /\ parent[x] \notin D /\ Live(parent[x]) => ~ Outside(to, span[parent[x]])
       /\ \A c \in Envelopes \ D : parent[c] = x /\ Live(c) => ~ Outside(span[c], to)

LEMMA PlannedLinesFit ==
    ASSUME NEW e \in Envelopes, NEW to,
           parent[e] # None /\ Live(parent[e]) => ~ Outside(to, span[parent[e]])
    PROVE  LinesFit(Lines(e, to), to)
<1> DEFINE D == Lines(e, to)  A == {e} \cup {x \in D : parent[x] \in D}
<1>1. \A c \in Envelopes : Live(c) /\ parent[c] \in D /\ Outside(span[c], to) => c \in D
  BY DEF Lines
<1>2. A \in SUBSET Envelopes /\ e \in A /\ A \subseteq D
  BY LinesAreLive
<1>3. \A c \in Envelopes : Live(c) /\ parent[c] \in A /\ Outside(span[c], to) => c \in A
  BY <1>1, <1>2
<1>4. D \subseteq A
  <2> HIDE DEF A
  <2> QED BY <1>2, <1>3 DEF Lines
<1>5. \A x \in D : x = e \/ parent[x] \in D
  BY <1>4
<1> HIDE DEF D
<1>6. LinesFit(D, to)
  BY <1>1, <1>5 DEF LinesFit
<1> QED BY <1>6 DEF D

\* The dates of budgets that were never approved change at once.
Redated(D, to) ==
    /\ D \subseteq Envelopes /\ to \in Spans
    /\ \A x \in D : status[x] # None
    /\ NotHeld(D) /\ D \cap ended = {} /\ LinesFit(D, to)
    /\ span' = Dated(D, to)
    /\ UNCHANGED <<parent, status, amount, draft, ended, request, successor>>

LEMMA ChangeDatesProposes ==
    ASSUME StructureInv, NEW e \in Envelopes, ChangeDates(e)
    PROVE  Routed \/ \E D, to : Redated(D, to)
<1> USE NoneIsNothing
<1>1. PICK to \in Spans \ {span[e]} :
       LET lines    == Lines(e, to)
           approved == {x \in lines : amount[x] # None}
           q == [Change("dates", approved, {}, {}) EXCEPT
                   !.dates = [x \in lines |-> [to |-> to, parent |-> parent[x], from |-> span[x]]]]
       IN  /\ Writable(e)
           /\ parent[e] # None /\ Live(parent[e]) => ~ Outside(to, span[parent[e]])
           /\ lines \cap ended = {} /\ NotHeld(lines)
           /\ \A x \in lines : Unsent(x)
           /\ \A x \in approved : draft[x] = None
           /\ IF approved = {}
              THEN /\ span' = Dated(lines, to)
                   /\ UNCHANGED <<parent, status, amount, draft, ended, request>>
              ELSE Route(q, [x \in approved |-> amount[x]], parent, span, lines)
           /\ UNCHANGED successor
  BY DEF ChangeDates
<1> DEFINE lines    == Lines(e, to)
           approved == {x \in lines : amount[x] # None}
           q == [Change("dates", approved, {}, {}) EXCEPT
                   !.dates = [x \in lines |-> [to |-> to, parent |-> parent[x], from |-> span[x]]]]
           d == [x \in approved |-> amount[x]]
<1>2. Types /\ RowsInv /\ UNCHANGED successor
  BY <1>1 DEF StructureInv
<1>3. lines \subseteq Envelopes /\ \A x \in lines : status[x] # None /\ ~ Pending(x)
  BY <1>1, LinesAreLive DEF Writable, Live, Unsent
<1>4. LinesFit(lines, to)
  BY <1>1, PlannedLinesFit
<1>5. CASE approved = {}
  <2>1. span' = Dated(lines, to) /\ UNCHANGED <<parent, status, amount, draft, ended, request, successor>>
    BY <1>1, <1>5
  <2>2. NotHeld(lines) /\ lines \cap ended = {} /\ to \in Spans
    BY <1>1
  <2> HIDE DEF lines
  <2> QED BY <1>3, <1>4, <2>1, <2>2 DEF Redated
<1>6. CASE approved # {}
  <2>1. /\ Route(q, d, parent, span, lines) /\ NotHeld(lines)
        /\ lines \cap ended = {} /\ \A x \in lines : x = e \/ Live(x)
    BY <1>1, <1>6, LinesAreLive
  <2>2. d \in [approved -> Nat] /\ \A x \in approved : d[x] = amount[x]
    BY <1>2, <1>3 DEF Types
  <2> DEFINE dates == [x \in lines |-> [to |-> to, parent |-> parent[x], from |-> span[x]]]
  <2>3. dates \in UNION {[D -> Dates] : D \in SUBSET Envelopes}
    <3>1. dates \in [lines -> Dates]
      BY <1>2, <1>3 DEF Dates, Types
    <3> HIDE DEF dates, lines
    <3> QED BY <1>3, <3>1
  <2>4. approved \subseteq lines /\ DOMAIN dates = lines
    OBVIOUS
  <2>5. q = [Change("dates", approved, {}, {}) EXCEPT !.dates = dates]
    OBVIOUS
  <2> HIDE DEF q, d, dates, approved, lines
  <2>6. /\ q \in Changes /\ q.kind = "dates" /\ q.versions = approved /\ q.archive = {} /\ q.created = {}
        /\ q.end = None /\ DOMAIN q.dates = lines /\ Ending(q) = {} /\ Touched(q) = lines
    BY <1>3, <2>3, <2>4, <2>5 DEF Change, Changes, Kinds, Ending, Touched
  <2>7. Shape(q) /\ Terms(q, d, parent, amount)
    BY <2>2, <2>4, <2>6 DEF Shape, Terms
  <2>8. ~ Stale(q)
    <3>1. q.dates = dates
      BY <2>5 DEF Change
    <3>2. \A x \in lines : dates[x].to = to /\ dates[x].parent = parent[x] /\ dates[x].from = span[x]
      BY DEF dates
    <3>3. \A x \in lines : Live(x) /\ x \notin ended
      BY <1>1, <2>1 DEF Writable
    <3> QED BY <1>4, <2>6, <3>1, <3>2, <3>3 DEF Stale, LinesFit, Outside
  <2>9. Proposal(q, d, parent, span, lines)
    BY <1>2, <1>3, <2>1, <2>2, <2>4, <2>6, <2>7, <2>8 DEF Proposal, Types
  <2> QED BY <1>2, <2>1, <2>9 DEF Routed, Types
<1> QED BY <1>5, <1>6

LEMMA RoutedKeeps == StructureInv /\ Routed => StructureInv'
BY RouteStep DEF Routed

LEMMA RedatedKeeps ==
    ASSUME StructureInv, NEW D, NEW to, Redated(D, to)
    PROVE  StructureInv'
<1>1. span' = Dated(D, to) /\ UNCHANGED <<parent, status, amount, draft, ended, request, successor>>
      /\ to \in Spans
  BY DEF Redated
<1>2. Types'
  BY <1>1 DEF StructureInv, Types, Dated
<1> QED BY <1>1, <1>2, QuietStep DEF StructureInv, RowsInv, Acyclic, Pending

LEMMA CreateKeeps ==
    ASSUME StructureInv, NEW e \in Envelopes, Create(e)
    PROVE  StructureInv'
<1> USE NoneIsNothing
<1>1. PICK p \in Envelopes \cup {None}, n \in Amounts \cup {None}, s \in Spans :
       /\ status[e] = None /\ CanHold(p)
       /\ parent' = [parent EXCEPT ![e] = p]
       /\ status' = [status EXCEPT ![e] = "DRAFT"]
       /\ span' = [span EXCEPT ![e] = s]
       /\ draft' = [draft EXCEPT ![e] = IF n = None THEN None ELSE [n |-> n, status |-> "DRAFT"]]
       /\ UNCHANGED <<amount, ended, successor, request>>
  BY DEF Create
<1>2. Types /\ RowsInv
  BY DEF StructureInv
<1>3. /\ draft'[e] = IF n = None THEN None ELSE [n |-> n, status |-> "DRAFT"]
      /\ parent'[e] = p /\ status'[e] = "DRAFT"
      /\ \A x \in Envelopes \ {e} :
            draft'[x] = draft[x] /\ parent'[x] = parent[x] /\ status'[x] = status[x]
  BY <1>1, <1>2 DEF Types
<1>4. Types'
  <2>1. parent' \in [Envelopes -> Envelopes \cup {None}] /\ span' \in [Envelopes -> Spans]
    BY <1>1, <1>2 DEF Types
  <2>2. status' \in [Envelopes -> Statuses \cup {None}]
    BY <1>1, <1>2 DEF Types, Statuses
  <2>3. draft' \in [Envelopes -> Drafts \cup {None}]
    <3>1. draft'[e] \in Drafts \cup {None}
      BY <1>3, StructureAssumption DEF Drafts
    <3> QED BY <1>1, <1>2, <1>3, <3>1 DEF Types
  <2> QED BY <1>1, <1>2, <2>1, <2>2, <2>3 DEF Types
<1>5. ~ Pending(e) /\ draft[e] = None /\ amount[e] = None /\ e \notin ended
  BY <1>1, <1>2 DEF RowsInv, Pending
<1>6. ~ Pending(e)' /\ \A x \in Envelopes \ {e} : Pending(x)' <=> Pending(x)
  BY <1>3 DEF Pending
<1>7. p # None => status[p] # None /\ p # e
  BY <1>1 DEF CanHold, Writable, Live
<1>8. Acyclic(parent')
  <2>1. PICK N \in SUBSET Envelopes : N = {e}
    OBVIOUS
  <2>2. /\ \A x \in N : status[x] = None /\ (parent'[x] # None => status[parent'[x]] # None)
        /\ \A x \in Envelopes \ N : parent'[x] = parent[x]
        /\ parent' \in [Envelopes -> Envelopes \cup {None}]
    BY <1>1, <1>3, <1>4, <1>7, <2>1 DEF Types
  <2>3. PICK up : up = parent'
    OBVIOUS
  <2> QED BY <1>2, <2>2, <2>3, GraftKeepsForest
<1>9. \A x \in Envelopes : status[x] # None => status'[x] = status[x]
  BY <1>1, <1>3
<1>10. RowsInv'
  <2>1. \A x \in Envelopes : parent'[x] # None => status'[parent'[x]] # None
    <3> TAKE x \in Envelopes
    <3>1. CASE x = e
      BY <1>1, <1>3, <1>7, <1>9, <3>1
    <3>2. CASE x # e
      BY <1>2, <1>3, <1>9, <3>2 DEF RowsInv, Types
    <3> QED BY <3>1, <3>2
  <2>2. \A x \in Envelopes : status'[x] = None => x # e
    BY <1>3 DEF Statuses
  <2>3. \A x \in Envelopes : status'[x] = None => amount'[x] = None /\ draft'[x] = None /\ x \notin ended'
    BY <1>1, <1>2, <1>3, <2>2 DEF RowsInv
  <2> QED BY <1>8, <2>1, <2>3 DEF RowsInv, Acyclic
<1>11. \A o \in Requests : Open(o) => \A x \in request[o].versions : parent'[x] = parent[x]
  <2>1. \A o \in Requests : Open(o) => e \notin request[o].versions /\ request[o].versions \subseteq Envelopes
    BY <1>5, OpenRequest, TouchedEnvelopes
  <2> QED BY <1>3, <2>1
<1>12. \A x \in Envelopes : status'[x] = "PENDING" => status[x] = "PENDING"
  BY <1>3
<1>13. request' = request /\ amount' = amount /\ ended' = ended
  BY <1>1
<1>14. \A x \in Envelopes : /\ Pending(x) => draft'[x] = draft[x]
                            /\ Pending(x)' => Pending(x)
  BY <1>3, <1>5, <1>6
<1> QED BY <1>4, <1>9, <1>10, <1>11, <1>12, <1>13, <1>14, QuietStep

LEMMA EditKeeps ==
    ASSUME StructureInv, NEW e \in Envelopes, Edit(e)
    PROVE  StructureInv'
<1> USE NoneIsNothing
<1>1. PICK n \in Amounts :
       /\ Writable(e) /\ Unsent(e)
       /\ draft' = [draft EXCEPT ![e] = [n |-> n, status |-> "DRAFT"]]
       /\ UNCHANGED <<parent, status, amount, ended, span, successor, request>>
  BY DEF Edit
<1>2. Types /\ RowsInv
  BY DEF StructureInv
<1>3. /\ draft'[e] = [n |-> n, status |-> "DRAFT"]
      /\ \A x \in Envelopes \ {e} : draft'[x] = draft[x]
  BY <1>1, <1>2 DEF Types
<1>4. Types'
  <2>1. [n |-> n, status |-> "DRAFT"] \in Drafts
    BY StructureAssumption DEF Drafts
  <2> QED BY <1>1, <1>2, <2>1 DEF Types
<1>5. ~ Pending(e) /\ ~ Pending(e)' /\ status[e] # None
  BY <1>1, <1>3 DEF Unsent, Pending, Writable, Live
<1>6. RowsInv'
  BY <1>1, <1>2, <1>3, <1>5 DEF RowsInv, Acyclic
<1>7. \A x \in Envelopes : /\ Pending(x) => draft'[x] = draft[x]
                           /\ Pending(x)' => Pending(x)
  BY <1>3, <1>5 DEF Pending
<1>8. /\ request' = request /\ amount' = amount /\ ended' = ended /\ status' = status /\ parent' = parent
  BY <1>1
<1> QED BY <1>4, <1>6, <1>7, <1>8, QuietStep

\* A budget that moves is in no open split, merge or end, so their places stay.
LEMMA MoveKeeps ==
    ASSUME StructureInv, NEW e \in Envelopes, Move(e)
    PROVE  StructureInv'
<1> USE NoneIsNothing
<1>1. PICK to \in Envelopes \cup {None} :
        /\ Writable(e) /\ MayMove(e)
        /\ to # parent[e] /\ CanHold(to)
        /\ to # None => e \notin Above(to)
        /\ parent' = [parent EXCEPT ![e] = to]
        /\ \/ UNCHANGED <<status, amount, draft, ended, span, successor, request>>
           \/ \E r \in Requests :
                Open(r) /\ request[r].kind = "single" /\ e \in request[r].versions /\ Close(r, TRUE)
  BY DEF Move
<1>2. Types /\ RowsInv
  BY DEF StructureInv
<1>3. parent'[e] = to /\ \A x \in Envelopes \ {e} : parent'[x] = parent[x]
  BY <1>1, <1>2 DEF Types
<1>4. parent' \in [Envelopes -> Envelopes \cup {None}]
  BY <1>1, <1>2 DEF Types
<1>5. Acyclic(parent')
  <2>1. Acyclic(parent)
    BY <1>2 DEF RowsInv
  <2>2. Acyclic([parent EXCEPT ![e] = to])
    BY <1>1, <1>2, <2>1, MoveKeepsForest
  <2> QED BY <1>1, <2>2
<1>6. \A x \in Envelopes : parent'[x] # None => status[parent'[x]] # None
  BY <1>1, <1>2, <1>3 DEF RowsInv, CanHold, Writable, Live
<1>7. \A o \in Requests : Open(o) /\ Family(request[o]) => \A x \in request[o].versions : parent'[x] = parent[x]
  <2> TAKE o \in Requests
  <2> HAVE Open(o) /\ Family(request[o])
  <2>1. e \notin request[o].versions
    BY <1>1 DEF MayMove, NotHeld, Family, Touched
  <2>2. request[o].versions \subseteq Envelopes
    BY OpenRequest, TouchedEnvelopes
  <2> QED BY <1>3, <2>1, <2>2
<1>8. CASE UNCHANGED <<status, amount, draft, ended, span, successor, request>>
  <2>1. Types'
    BY <1>2, <1>4, <1>8 DEF Types
  <2>2. RowsInv'
    BY <1>2, <1>5, <1>6, <1>8 DEF RowsInv, Acyclic
  <2>3. \A x \in Envelopes : /\ Pending(x) => draft'[x] = draft[x]
                             /\ Pending(x)' => Pending(x)
    BY <1>8 DEF Pending
  <2> QED BY <1>7, <1>8, <2>1, <2>2, <2>3, QuietStep
<1>9. ASSUME NEW r \in Requests, Open(r), Close(r, TRUE) PROVE StructureInv'
  BY <1>4, <1>5, <1>6, <1>7, <1>9, CloseStep
<1> QED BY <1>1, <1>8, <1>9

\* A decision closes the request or applies it on the tree as it is.
LEMMA DecideKeeps ==
    ASSUME StructureInv, NEW r \in Requests, Approve(r) \/ Refuse(r) \/ Return(r)
    PROVE  StructureInv'
<1> USE NoneIsNothing
<1>1. Types /\ RowsInv /\ Open(r)
  BY DEF StructureInv, Approve, Refuse, Return
<1>2. ASSUME NEW returned \in BOOLEAN, Close(r, returned), UNCHANGED parent PROVE StructureInv'
  <2>1. /\ parent' \in [Envelopes -> Envelopes \cup {None}]
        /\ \A x \in Envelopes : parent'[x] # None => status[parent'[x]] # None
        /\ \A o \in Requests : \A x \in request[o].versions : parent'[x] = parent[x]
    BY <1>1, <1>2 DEF Types, RowsInv
  <2>2. Acyclic(parent')
    BY <1>1, <1>2 DEF RowsInv
  <2> QED BY <1>1, <1>2, <2>1, <2>2, CloseStep
<1>3. CASE /\ Apply(request[r], [e \in request[r].versions |-> draft[e].n], parent, span)
           /\ request' = [request EXCEPT ![r] = None] /\ UNCHANGED successor
  <2>1. PICK q \in Changes : q = request[r]
    BY <1>1, OpenRequest
  <2>2. Shape(q) /\ \A x \in q.versions : draft[x] \in Drafts
    BY <1>1, <2>1, OpenRequest
  <2> DEFINE d == [e \in q.versions |-> draft[e].n]
  <2>3. d \in [q.versions -> Nat]
    BY <2>2 DEF Drafts
  <2>4. request' = [o \in Requests |-> IF o \in {r} THEN None ELSE request[o]]
    BY <1>1, <1>3 DEF Types
  <2>5. \A o \in Requests \ {r} : Open(o) => request[o].versions \cap q.versions = {}
    BY <1>1, <2>1 DEF StructureInv, WaitInv
  <2>6. Apply(q, d, parent, span)
    BY <1>3, <2>1
  <2> HIDE DEF d
  <2>7. Applied({r}, q, d, parent, span)
    BY <1>1, <2>1, <2>2, <2>3, <2>4, <2>5, <2>6 DEF Applied, Types, RowsInv
  <2> QED BY <1>1, <1>3, <2>7, ApplyStep DEF Types
<1> QED BY <1>2, <1>3 DEF Approve, Refuse, Return

LEMMA NextStructureInv == StructureInv /\ [Next]_vars => StructureInv'
<1> SUFFICES ASSUME StructureInv, [Next]_vars PROVE StructureInv'
  OBVIOUS
<1>1. ASSUME NEW e \in Envelopes,
             \/ Create(e) \/ Edit(e) \/ Submit(e) \/ Move(e)
             \/ Split(e) \/ End(e) \/ Reintroduce(e) \/ ChangeDates(e)
      PROVE  StructureInv'
  BY <1>1, CreateKeeps, EditKeeps, MoveKeeps, SubmitProposes, SplitProposes, EndProposes,
     ReintroduceProposes, ChangeDatesProposes, RoutedKeeps, RedatedKeeps
<1>2. ASSUME NEW S \in SUBSET Envelopes, Merge(S) \/ BulkEdit(S) PROVE StructureInv'
  BY <1>2, MergeProposes, BulkEditProposes, RoutedKeeps
<1>3. ASSUME NEW r \in Requests, Approve(r) \/ Refuse(r) \/ Return(r) PROVE StructureInv'
  BY <1>3, DecideKeeps
<1>4. CASE UNCHANGED vars
  <2>1. UNCHANGED <<parent, status, amount, draft, ended, span, successor, request>>
    BY <1>4 DEF vars
  <2>2. Types' /\ RowsInv' /\ \A x \in Envelopes : Pending(x)' <=> Pending(x)
    BY <2>1 DEF StructureInv, Types, RowsInv, Acyclic, Pending
  <2> QED BY <2>1, <2>2, QuietStep
<1> QED BY <1>1, <1>2, <1>3, <1>4 DEF Next, kSubset

LEMMA StructureInvHolds == Spec => []StructureInv
<1>1. StructureInv /\ [Next]_vars => StructureInv'
  BY NextStructureInv
<1> QED BY InitStructureInv, <1>1, PTL DEF Spec

-----------------------------------------------------------------------------
(* The theorems *)

\* Every variable keeps its type, and what an open request touches was created.
THEOREM Typed == Spec => []TypeOK
<1>1. StructureInv => TypeOK
  <2> SUFFICES ASSUME StructureInv PROVE TypeOK
    OBVIOUS
  <2>1. \A r \in Requests : Open(r) =>
          /\ request[r].kind \in Kinds
          /\ Touched(request[r]) \subseteq {e \in Envelopes : status[e] # None}
          /\ \A e \in request[r].versions : draft[e] # None
    BY OpenRequest, TouchedEnvelopes DEF Pending
  <2> QED BY <2>1 DEF TypeOK, StructureInv, Types
<1> QED BY StructureInvHolds, <1>1, PTL

\* A version waits in exactly one open request, and a budget shows PENDING only while
\* an open request concerns it (releaseHeld, closeBulkVersions, setDraftPointers).
THEOREM VersionWaitsForOne == Spec => []WaitsForOne
<1>1. StructureInv => WaitsForOne
  <2> SUFFICES ASSUME StructureInv, NEW e \in Envelopes
               PROVE  LET waiting == {r \in Requests : Open(r) /\ e \in request[r].versions}
                      IN  /\ Pending(e) => waiting # {} /\ status[e] = "PENDING"
                          /\ waiting # {} => Pending(e)
                          /\ \A r, o \in waiting : r = o
                          /\ status[e] = "PENDING" =>
                               \E r \in Requests : Open(r) /\ e \in Touched(request[r])
    BY DEF WaitsForOne
  <2> DEFINE waiting == {r \in Requests : Open(r) /\ e \in request[r].versions}
  <2>1. waiting # {} => Pending(e) /\ status[e] = "PENDING"
    BY OpenRequest
  <2>2. Pending(e) => waiting # {}
    BY DEF StructureInv, WaitInv
  <2>3. \A r, o \in waiting : r = o
    BY DEF StructureInv, WaitInv
  <2>4. status[e] = "PENDING" => \E r \in Requests : Open(r) /\ e \in Touched(request[r])
    BY DEF StructureInv, WaitInv
  <2> QED BY <2>1, <2>2, <2>3, <2>4
<1> QED BY StructureInvHolds, <1>1, PTL

\* The budgets stay a forest, whatever is moved and created while changes wait.
THEOREM TreeStaysAcyclic == Spec => []Acyclic(parent)
<1>1. StructureInv => Acyclic(parent)
  BY DEF StructureInv, RowsInv
<1> QED BY StructureInvHolds, <1>1, PTL

-----------------------------------------------------------------------------
(* The steps, by what they may change *)

\* Every step is one of these.
Applying ==
    \E G, q, d, up, sp :
       /\ q \in Changes /\ Shape(q) /\ ~ Stale(q) /\ Apply(q, d, up, sp)
       /\ G \subseteq Requests /\ \A o \in G : Open(o) /\ request[o] = q
       /\ request' = [o \in Requests |-> IF o \in G THEN None ELSE request[o]]
       /\ \/ G = {} /\ \E held : Proposal(q, d, up, sp, held)
          \/ \E r \in Requests : G = {r} /\ d = Asked(q) /\ up = parent /\ sp = span
Opening   == \E r \in Requests : \E q, d, up, sp, held :
                Proposal(q, d, up, sp, held) /\ Opened(r, q, d, up, sp, held)
Closing   == \E r \in Requests, returned \in BOOLEAN : Open(r) /\ Close(r, returned) /\ UNCHANGED parent
Moving    == \E e \in Envelopes : Move(e)
Redating  == \E D, to : Redated(D, to)
Drafting  == \E e \in Envelopes : Create(e) \/ Edit(e)

LEMMA StepsOfNext ==
    ASSUME StructureInv, [Next]_vars
    PROVE  \/ Applying \/ Opening \/ Closing \/ Moving \/ Redating \/ Drafting
           \/ UNCHANGED vars
<1>1. ASSUME Routed PROVE Applying \/ Opening
  <2>1. PICK q, d, up, sp, held : Proposal(q, d, up, sp, held) /\ Route(q, d, up, sp, held)
    BY <1>1 DEF Routed
  <2>2. CASE \E r \in Requests : Opened(r, q, d, up, sp, held)
    BY <2>1, <2>2 DEF Opening
  <2>3. CASE Apply(q, d, up, sp) /\ UNCHANGED request
    <3>1. request' = [o \in Requests |-> IF o \in {} THEN None ELSE request[o]]
      BY <2>3 DEF StructureInv, Types
    <3>2. q \in Changes /\ Shape(q) /\ ~ Stale(q)
      BY <2>1 DEF Proposal
    <3> QED BY <2>1, <2>3, <3>1, <3>2 DEF Applying
  <2> QED BY <2>1, <2>2, <2>3 DEF Route, Opened
<1>2. ASSUME NEW r \in Requests, Approve(r) \/ Refuse(r) \/ Return(r) PROVE Applying \/ Closing
  <2>1. Open(r)
    BY <1>2 DEF Approve, Refuse, Return
  <2>2. PICK q \in Changes : q = request[r]
    BY <2>1, OpenRequest
  <2>3. CASE /\ Apply(q, Asked(q), parent, span) /\ ~ Stale(q)
             /\ request' = [request EXCEPT ![r] = None]
    <3>1. request' = [o \in Requests |-> IF o \in {r} THEN None ELSE request[o]]
      BY <2>3 DEF StructureInv, Types
    <3>2. Shape(q)
      BY <2>1, <2>2, OpenRequest
    <3> QED BY <2>1, <2>2, <2>3, <3>1, <3>2 DEF Applying
  <2>4. CASE \E returned \in BOOLEAN : Close(r, returned) /\ UNCHANGED parent
    BY <2>1, <2>4 DEF Closing
  <2> QED BY <1>2, <2>2, <2>3, <2>4 DEF Approve, Refuse, Return, Asked
<1>3. ASSUME NEW e \in Envelopes,
             \/ Create(e) \/ Edit(e) \/ Submit(e) \/ Move(e)
             \/ Split(e) \/ End(e) \/ Reintroduce(e) \/ ChangeDates(e)
      PROVE  Applying \/ Opening \/ Moving \/ Redating \/ Drafting
  BY <1>1, <1>3, SubmitProposes, SplitProposes, EndProposes, ReintroduceProposes, ChangeDatesProposes
     DEF Moving, Redating, Drafting
<1>4. ASSUME NEW S \in SUBSET Envelopes, Merge(S) \/ BulkEdit(S) PROVE Applying \/ Opening
  BY <1>1, <1>4, MergeProposes, BulkEditProposes
<1> QED BY <1>2, <1>3, <1>4 DEF Next, kSubset

-----------------------------------------------------------------------------
(* What is held stays put *)

LEMMA HeldStep ==
    ASSUME StructureInv, [Next]_vars, NEW r \in Requests, NEW e \in Envelopes,
           Open(r), request[r].kind \notin {"single", "edit"},
           e \in Touched(request[r]), request'[r] = request[r],
           \A o \in Requests \ {r} :
              Open(o) /\ request[o].kind # "edit" => e \notin Touched(request[o])
    PROVE  parent'[e] = parent[e] /\ span'[e] = span[e] /\ (e \in ended') = (e \in ended)
<1> USE NoneIsNothing
<1>1. status[e] # None /\ Types
  BY OpenRequest DEF StructureInv
<1>2. CASE Applying
  <2>1. PICK G, q, d, up, sp :
          /\ q \in Changes /\ Shape(q) /\ ~ Stale(q) /\ Apply(q, d, up, sp)
          /\ G \subseteq Requests /\ \A o \in G : Open(o) /\ request[o] = q
          /\ request' = [o \in Requests |-> IF o \in G THEN None ELSE request[o]]
          /\ \/ G = {} /\ \E held : Proposal(q, d, up, sp, held)
             \/ \E o \in Requests : G = {o} /\ d = Asked(q) /\ up = parent /\ sp = span
    BY <1>2 DEF Applying
  <2>2. ASSUME e \notin Ending(q) \cup DOMAIN q.dates, up[e] = parent[e], sp[e] = span[e]
        PROVE  parent'[e] = parent[e] /\ span'[e] = span[e] /\ (e \in ended') = (e \in ended)
    BY <2>1, <2>2 DEF Apply
  <2>3. CASE \E held : Proposal(q, d, up, sp, held)
    <3>1. e \notin q.created /\ NotHeld(Ending(q) \cup DOMAIN q.dates) /\ up[e] = parent[e] /\ sp[e] = span[e]
      BY <1>1, <2>3 DEF Proposal
    <3>2. e \notin Ending(q) \cup DOMAIN q.dates
      BY <3>1 DEF NotHeld
    <3> QED BY <2>2, <3>1, <3>2
  <2>4. ASSUME NEW o \in Requests, G = {o}, up = parent, sp = span
        PROVE  parent'[e] = parent[e] /\ span'[e] = span[e] /\ (e \in ended') = (e \in ended)
    <3>1. o # r
      BY <2>1, <2>4 DEF Open
    <3>2. Open(o) /\ request[o] = q
      BY <2>1, <2>4
    <3>3. q.kind = "edit" => Ending(q) = {} /\ DOMAIN q.dates = {}
      BY <2>1 DEF Shape, Ending
    <3>4. e \notin Ending(q) \cup DOMAIN q.dates
      BY <3>1, <3>2, <3>3 DEF Touched
    <3> QED BY <2>2, <2>4, <3>4
  <2> QED BY <2>1, <2>3, <2>4
<1>3. CASE Opening
  <2>1. PICK o, q, d, up, sp, held :
          o \in Requests /\ Proposal(q, d, up, sp, held) /\ Opened(o, q, d, up, sp, held)
    BY <1>3 DEF Opening
  <2> QED BY <1>1, <2>1 DEF Proposal, Opened
<1>4. CASE Closing
  BY <1>4 DEF Closing, Close
<1>5. CASE Moving
  <2>1. PICK x \in Envelopes : Move(x)
    BY <1>5 DEF Moving
  <2>2. x # e
    BY <2>1 DEF Move, MayMove, NotHeld
  <2>3. UNCHANGED <<span, ended>> /\ \E to : parent' = [parent EXCEPT ![x] = to]
    BY <2>1 DEF Move, Close
  <2> QED BY <1>1, <2>2, <2>3 DEF Types
<1>6. CASE Redating
  <2>1. PICK D, to : Redated(D, to)
    BY <1>6 DEF Redating
  <2>2. e \notin D
    BY <2>1 DEF Redated, NotHeld
  <2> QED BY <1>1, <2>1, <2>2 DEF Redated, Dated
<1>7. CASE Drafting
  <2>1. PICK x \in Envelopes : Create(x) \/ Edit(x)
    BY <1>7 DEF Drafting
  <2>2. CASE Edit(x)
    BY <2>2 DEF Edit
  <2>3. CASE Create(x)
    <3>1. x # e /\ ended' = ended /\ \E p, s : parent' = [parent EXCEPT ![x] = p] /\ span' = [span EXCEPT ![x] = s]
      BY <1>1, <2>3 DEF Create
    <3> QED BY <1>1, <3>1 DEF Types
  <2> QED BY <2>1, <2>2, <2>3
<1>8. CASE UNCHANGED vars
  BY <1>8 DEF vars
<1> QED BY <1>2, <1>3, <1>4, <1>5, <1>6, <1>7, <1>8, StepsOfNext

\* While a structural change waits, the budgets it touches keep their place, their
\* dates and their end, except for an older change that touches them too
\* (assertNotHeld, in moveIn, endIn and changeDatesIn).
THEOREM HeldBudgetsStayPut == Spec => HeldStaysPut
<1>1. StructureInv /\ [Next]_vars =>
        \A r \in Requests, e \in Envelopes :
          /\ Open(r) /\ request[r].kind \notin {"single", "edit"}
          /\ e \in Touched(request[r]) /\ request'[r] = request[r]
          /\ \A o \in Requests \ {r} :
                Open(o) /\ request[o].kind # "edit" => e \notin Touched(request[o])
          => parent'[e] = parent[e] /\ span'[e] = span[e] /\ (e \in ended') = (e \in ended)
  BY HeldStep
<1> QED BY StructureInvHolds, <1>1, PTL DEF Spec, HeldStaysPut

-----------------------------------------------------------------------------
(* New dates fit *)

LEMMA DatesStep ==
    ASSUME StructureInv, [Next]_vars, NEW e \in Envelopes,
           status[e] # None, span'[e] # span[e], e \notin ended'
    PROVE  /\ \A p \in Envelopes :
                 parent'[e] = p /\ status'[p] # "ARCHIVED" => ~ Outside(span'[e], span'[p])
           /\ \A c \in Envelopes :
                 parent'[c] = e /\ status'[c] \notin {None, "ARCHIVED"} => ~ Outside(span'[c], span'[e])
<1> USE NoneIsNothing
<1>1. Types /\ RowsInv
  BY DEF StructureInv
<1>2. CASE Applying
  <2>1. PICK G, q, d, up, sp :
          /\ q \in Changes /\ Shape(q) /\ ~ Stale(q) /\ Apply(q, d, up, sp)
          /\ \/ G = {} /\ \E held : Proposal(q, d, up, sp, held)
             \/ \E o \in Requests : G = {o} /\ d = Asked(q) /\ up = parent /\ sp = span
    BY <1>2 DEF Applying
  <2> DEFINE D == DOMAIN q.dates
             new(x) == IF x \in D THEN q.dates[x].to ELSE span[x]
  <2>2. \A x \in Envelopes \ q.created : up[x] = parent[x] /\ sp[x] = span[x]
    BY <2>1 DEF Proposal
  <2>3. e \notin q.created
    <3>1. CASE \E held : Proposal(q, d, up, sp, held)
      BY <3>1 DEF Proposal
    <3>2. CASE sp = span
      <4>1. e \in D \/ e \in Ending(q)
        BY <2>1, <3>2 DEF Apply
      <4>2. e \notin Ending(q)
        BY <2>1 DEF Apply
      <4>3. q.kind = "dates"
        BY <2>1, <4>1, <4>2 DEF Shape
      <4> QED BY <2>1, <4>3 DEF Shape
    <3> QED BY <2>1, <3>1, <3>2
  <2>4. e \in D
    BY <2>1, <2>2, <2>3 DEF Apply
  <2>5. q.kind = "dates" /\ q.archive = {} /\ q.created = {} /\ Ending(q) = {} /\ q.versions \subseteq D
        /\ D \subseteq Envelopes
    BY <2>1, <2>4, TouchedEnvelopes DEF Shape, Ending
  <2>6. \A x \in Envelopes : span'[x] = new(x) /\ parent'[x] = parent[x]
                             /\ (x \notin D => status'[x] = status[x])
    BY <2>1, <2>2, <2>5 DEF Apply
  <2>7. /\ \A x \in D : Live(x)
        /\ parent[e] # None /\ (parent[e] \in D \/ Live(parent[e])) => ~ Outside(new(e), new(parent[e]))
        /\ \A c \in Envelopes : parent[c] = e /\ Live(c) => ~ Outside(new(c), new(e))
    BY <2>1, <2>4 DEF Stale
  <2> HIDE DEF D, new
  <2>8. \A p \in Envelopes : parent'[e] = p /\ status'[p] # "ARCHIVED" => ~ Outside(span'[e], span'[p])
    BY <1>1, <2>6, <2>7 DEF RowsInv, Live
  <2>9. \A c \in Envelopes :
          parent'[c] = e /\ status'[c] \notin {None, "ARCHIVED"} => ~ Outside(span'[c], span'[e])
    BY <2>6, <2>7 DEF Live
  <2> QED BY <2>8, <2>9
<1>3. CASE Redating
  <2>1. PICK D, to : Redated(D, to)
    BY <1>3 DEF Redating
  <2>2. /\ UNCHANGED <<parent, status>> /\ D \subseteq Envelopes /\ LinesFit(D, to)
        /\ \A x \in Envelopes : span'[x] = IF x \in D THEN to ELSE span[x]
    BY <2>1 DEF Redated, Dated
  <2>3. e \in D /\ span'[e] = to
    BY <2>2
  <2>4. ~ Outside(to, to)
    BY DEF Outside
  <2>5. \A p \in Envelopes : parent'[e] = p /\ status'[p] # "ARCHIVED" => ~ Outside(span'[e], span'[p])
    BY <1>1, <2>2, <2>3, <2>4 DEF RowsInv, LinesFit, Live
  <2>6. \A c \in Envelopes :
          parent'[c] = e /\ status'[c] \notin {None, "ARCHIVED"} => ~ Outside(span'[c], span'[e])
    BY <2>2, <2>3, <2>4 DEF LinesFit, Live
  <2> QED BY <2>5, <2>6
<1>4. CASE Opening
  <2>1. PICK o, q, d, up, sp, held :
          o \in Requests /\ Proposal(q, d, up, sp, held) /\ Opened(o, q, d, up, sp, held)
    BY <1>4 DEF Opening
  <2> QED BY <2>1 DEF Proposal, Opened
<1>5. CASE Closing \/ Moving \/ UNCHANGED vars
  BY <1>5 DEF Closing, Moving, Move, Close, vars
<1>6. CASE Drafting
  <2>1. PICK x \in Envelopes : Create(x) \/ Edit(x)
    BY <1>6 DEF Drafting
  <2>2. CASE Edit(x)
    BY <2>2 DEF Edit
  <2>3. CASE Create(x)
    <3>1. x # e /\ \E s : span' = [span EXCEPT ![x] = s]
      BY <2>3 DEF Create
    <3> QED BY <1>1, <3>1 DEF Types
  <2> QED BY <2>1, <2>2, <2>3
<1> QED BY <1>2, <1>3, <1>4, <1>5, <1>6, StepsOfNext

\* New dates that are applied, at once or after a wait, leave the budget inside its
\* parent and its children inside it (planDates, revalidateDates).
THEOREM NewDatesFit == Spec => DatesFit
<1>1. StructureInv /\ [Next]_vars =>
        \A e \in Envelopes :
          status[e] # None /\ span'[e] # span[e] /\ e \notin ended' =>
             /\ \A p \in Envelopes :
                   parent'[e] = p /\ status'[p] # "ARCHIVED" => ~ Outside(span'[e], span'[p])
             /\ \A c \in Envelopes :
                   parent'[c] = e /\ status'[c] \notin {None, "ARCHIVED"} =>
                      ~ Outside(span'[c], span'[e])
  BY DatesStep
<1> QED BY StructureInvHolds, <1>1, PTL DEF Spec, DatesFit

-----------------------------------------------------------------------------
(* Splits and merges keep the total *)

LEMMA TotalStep ==
    ASSUME StructureInv, [Next]_vars, NEW e \in Envelopes,
           status[e] # "ARCHIVED", status'[e] = "ARCHIVED"
    PROVE  TotalUnder(parent[e], parent', amount') = TotalUnder(parent[e], parent, amount)
<1> USE NoneIsNothing
<1>1. Types
  BY DEF StructureInv
<1>2. CASE Applying
  <2>1. PICK G, q, d, up, sp :
          /\ q \in Changes /\ Shape(q) /\ Apply(q, d, up, sp)
          /\ G \subseteq Requests /\ \A o \in G : Open(o) /\ request[o] = q
          /\ \/ G = {} /\ \E held : Proposal(q, d, up, sp, held)
             \/ \E o \in Requests : G = {o} /\ d = Asked(q) /\ up = parent /\ sp = span
    BY <1>2 DEF Applying
  <2>2. e \in q.archive
    BY <2>1 DEF Apply, Released, Resting
  <2>3. q.kind \in {"split", "merge"}
    BY <2>1, <2>2, TouchedEnvelopes DEF Shape, Kinds
  <2>4. /\ Terms(q, d, up, amount)
        /\ \A x \in Envelopes \ q.created : up[x] = parent[x]
        /\ up \in [Envelopes -> Envelopes \cup {None}] /\ d \in [q.versions -> Nat]
    <3>1. CASE \E held : Proposal(q, d, up, sp, held)
      BY <3>1 DEF Proposal
    <3>2. ASSUME NEW o \in Requests, G = {o}, d = Asked(q), up = parent
          PROVE  /\ Terms(q, d, up, amount)
                 /\ \A x \in Envelopes \ q.created : up[x] = parent[x]
                 /\ up \in [Envelopes -> Envelopes \cup {None}] /\ d \in [q.versions -> Nat]
      <4>1. Open(o) /\ request[o] = q
        BY <2>1, <3>2
      <4>2. RequestInv(q) /\ \A x \in q.versions : draft[x] \in Drafts
        BY <4>1, OpenRequest
      <4> QED BY <1>1, <3>2, <4>2 DEF RequestInv, Types, Asked, Drafts
    <3> QED BY <2>1, <3>1, <3>2
  <2> DEFINE V == q.versions  p == parent[e]
             F == {c \in Envelopes : parent[c] = p}  E == {c \in Envelopes : up[c] = p}
             old == Paid(amount)  now == Paid(amount')
  <2>5. /\ V \subseteq Envelopes /\ V = q.archive \cup q.created /\ q.archive \cap q.created = {} /\ e \in V
        /\ \A x \in V : up[x] = p
        /\ \A x \in q.created : amount[x] = None
    BY <2>1, <2>2, <2>3, <2>4, TouchedEnvelopes DEF Shape, Terms
  <2>6. V \subseteq E /\ F \ V = E \ V /\ V \ F \subseteq q.created
    BY <2>4, <2>5
  <2>7. parent' = up /\ amount' = [x \in Envelopes |-> IF x \in V THEN d[x] ELSE amount[x]]
    BY <2>1 DEF Apply
  <2>8. /\ old \in [Envelopes -> Nat] /\ now \in [Envelopes -> Nat]
        /\ \A x \in V : now[x] = d[x]
        /\ \A x \in Envelopes \ V : now[x] = old[x]
        /\ \A x \in q.created : old[x] = 0
    BY <1>1, <2>4, <2>5, <2>7 DEF Paid, Money, Types
  <2>9. SumFunctionOnSet(d, V) = SumFunctionOnSet(old, V)
    BY <2>3, <2>4 DEF Terms
  <2>10. TotalUnder(p, parent', amount') = SumFunctionOnSet(now, E)
         /\ TotalUnder(p, parent, amount) = SumFunctionOnSet(old, F)
    BY <2>7 DEF TotalUnder
  <2> DEFINE R == F \ V  C == F \cap V  N == V \ F
  <2>11. /\ E = R \cup V /\ R \cap V = {} /\ F = R \cup C /\ R \cap C = {}
         /\ V = C \cup N /\ C \cap N = {} /\ N \subseteq q.created
         /\ R \subseteq Envelopes \ V /\ C \subseteq Envelopes /\ N \subseteq Envelopes
    BY <2>5, <2>6
  <2>12. IsFiniteSet(R) /\ IsFiniteSet(V) /\ IsFiniteSet(C) /\ IsFiniteSet(N)
    BY <2>5, StructureAssumption, FS_Subset
  <2> HIDE DEF V, p, F, E, old, now, R, C, N
  <2>13. SumFunctionOnSet(now, R \cup V) = SumFunctionOnSet(now, R) + SumFunctionOnSet(now, V)
    <3>1. \A x \in R \cup V : now[x] \in Nat
      BY <2>5, <2>8, <2>11
    <3> QED BY <2>11, <2>12, <3>1, SumUnion
  <2>14. SumFunctionOnSet(old, R \cup C) = SumFunctionOnSet(old, R) + SumFunctionOnSet(old, C)
    <3>1. \A x \in R \cup C : old[x] \in Nat
      BY <2>8, <2>11
    <3> QED BY <2>11, <2>12, <3>1, SumUnion
  <2>15. SumFunctionOnSet(old, C \cup N) = SumFunctionOnSet(old, C) + SumFunctionOnSet(old, N)
    <3>1. \A x \in C \cup N : old[x] \in Nat
      BY <2>8, <2>11
    <3> QED BY <2>11, <2>12, <3>1, SumUnion
  <2>16. SumFunctionOnSet(now, R) = SumFunctionOnSet(old, R)
    <3>1. \A x \in R : now[x] = old[x]
      BY <2>8, <2>11
    <3> QED BY <2>12, <3>1, SumSame
  <2>17. SumFunctionOnSet(now, V) = SumFunctionOnSet(old, V)
    <3>1. SumFunctionOnSet(now, V) = SumFunctionOnSet(d, V)
      BY <2>8, <2>12, SumSame
    <3> QED BY <2>9, <3>1
  <2>18. SumFunctionOnSet(old, N) = 0
    <3>1. \A x \in N : old[x] = 0
      BY <2>8, <2>11
    <3> QED BY <2>12, <3>1, SumOfZeros
  <2>19. SumFunctionOnSet(old, C) \in Nat
    <3>1. \A x \in C : old[x] \in Nat
      BY <2>8, <2>11
    <3> QED BY <2>12, <3>1, SumType
  <2>20. SumFunctionOnSet(old, V) = SumFunctionOnSet(old, C)
    BY <2>11, <2>15, <2>18, <2>19, PartOfSum
  <2>21. SumFunctionOnSet(now, E) = SumFunctionOnSet(old, F)
    BY <2>11, <2>13, <2>14, <2>16, <2>17, <2>20
  <2> QED BY <2>10, <2>21 DEF p
<1>3. CASE Opening
  <2>1. PICK o, q, d, up, sp, held :
          o \in Requests /\ Opened(o, q, d, up, sp, held)
    BY <1>3 DEF Opening
  <2> QED BY <2>1 DEF Opened
<1>4. CASE Closing
  BY <1>4 DEF Closing, Close
<1>5. CASE Moving
  BY <1>5 DEF Moving, Move, Close, Released, Resting
<1>6. CASE Redating \/ UNCHANGED vars
  BY <1>6 DEF Redating, Redated, vars
<1>7. CASE Drafting
  <2>1. PICK x \in Envelopes : Create(x) \/ Edit(x)
    BY <1>7 DEF Drafting
  <2> QED BY <1>1, <2>1 DEF Create, Edit, Types
<1> QED BY <1>2, <1>3, <1>4, <1>5, <1>6, <1>7, StepsOfNext

\* A split or a merge changes no total of its parent, however long it waited and
\* whatever was moved or approved meanwhile (splitIn, mergeIn).
THEOREM SplitsKeepTotals == Spec => TotalKept
<1>1. StructureInv /\ [Next]_vars =>
        \A e \in Envelopes :
          status[e] # "ARCHIVED" /\ status'[e] = "ARCHIVED" =>
             TotalUnder(parent[e], parent', amount') = TotalUnder(parent[e], parent, amount)
  BY TotalStep
<1> QED BY StructureInvHolds, <1>1, PTL DEF Spec, TotalKept

-----------------------------------------------------------------------------
(* A change that fits as a whole fits in its turns *)

\* In a forest every envelope has a depth, from 1 at the roots.
LEMMA DepthsPositive ==
    ASSUME Types, Acyclic(parent)
    PROVE  \A x \in Envelopes : Depths(parent)[x] \in Nat /\ Depths(parent)[x] >= 1
<1> DEFINE Way(A, g) == g = [x \in A |-> IF parent[x] = None THEN 1 ELSE g[parent[x]] + 1]
           Left == {S \in SUBSET Envelopes :
                      /\ \A x \in Envelopes \ S : parent[x] # None => parent[x] \notin S
                      /\ \E g : Way(Envelopes \ S, g)}
<1>1. Envelopes \in Left
  <2>1. Way({}, [x \in {} |-> 1])
    OBVIOUS
  <2>2. Envelopes \ Envelopes = {}
    OBVIOUS
  <2> HIDE DEF Way
  <2> QED BY <2>1, <2>2
<1>2. PICK S \in Left : \A T \in Left : T \subseteq S => T = S
  <2>1. Left \in SUBSET (SUBSET Envelopes) /\ Left # {}
    BY <1>1
  <2> HIDE DEF Left
  <2> QED BY <2>1, SmallestSet, StructureAssumption
<1>3. S = {}
  <2> SUFFICES ASSUME S # {} PROVE FALSE
    OBVIOUS
  <2>1. PICK x \in S : parent[x] \notin S
    BY DEF Acyclic
  <2> DEFINE A == Envelopes \ S  T == S \ {x}
  <2>2. PICK g : Way(A, g)
    OBVIOUS
  <2> DEFINE way == IF parent[x] = None THEN 1 ELSE g[parent[x]] + 1
             h == [y \in A \cup {x} |-> IF y = x THEN way ELSE g[y]]
  <2>3. x \in Envelopes /\ x \notin A /\ (parent[x] # None => parent[x] \in A)
    BY <2>1 DEF Types
  <2>4. \A y \in A : parent[y] # None => parent[y] \in A
    BY DEF Types
  <2>5. \A y \in A : g[y] = IF parent[y] = None THEN 1 ELSE g[parent[y]] + 1
    BY <2>2
  <2>6. \A y \in A : h[y] = g[y]
    BY <2>3
  <2>7. h[x] = way
    OBVIOUS
  <2> HIDE DEF A
  <2>8. \A y \in A \cup {x} :
          (IF y = x THEN way ELSE g[y]) = (IF parent[y] = None THEN 1 ELSE h[parent[y]] + 1)
    <3> TAKE y \in A \cup {x}
    <3> HIDE DEF h
    <3>1. CASE y = x
      BY <2>3, <2>6, <3>1
    <3>2. CASE y # x
      BY <2>4, <2>5, <2>6, <3>2
    <3> QED BY <3>1, <3>2
  <2>9. Way(A \cup {x}, h)
    BY <2>8
  <2>10. A \cup {x} = Envelopes \ T
    BY <2>3 DEF A
  <2>11. \A y \in Envelopes \ T : parent[y] # None => parent[y] \notin T
    BY <2>3, <2>4 DEF A
  <2>12. T \in Left
    <3> HIDE DEF Way, h, T
    <3>1. Way(Envelopes \ T, h)
      BY <2>9, <2>10
    <3>2. T \in SUBSET Envelopes
      BY DEF T
    <3> QED BY <2>11, <3>1, <3>2
  <2> QED BY <1>2, <2>3, <2>12
<1> DEFINE D == CHOOSE g : Way(Envelopes, g)
<1>4. Way(Envelopes, D)
  <2>1. \E g : Way(Envelopes, g)
    BY <1>2, <1>3
  <2> HIDE DEF Way
  <2> QED BY <2>1
<1>5. Depths(parent) = D
  BY DEF Depths
<1>6. \A x \in Envelopes : D[x] = IF parent[x] = None THEN 1 ELSE D[parent[x]] + 1
  BY <1>4
<1> HIDE DEF D, Way
<1> DEFINE Bad == {x \in Envelopes : ~ (D[x] \in Nat /\ D[x] >= 1)}
<1>7. Bad = {}
  <2> SUFFICES ASSUME Bad # {} PROVE FALSE
    OBVIOUS
  <2>1. PICK x \in Bad : parent[x] \notin Bad
    BY DEF Acyclic
  <2>2. x \in Envelopes /\ ~ (D[x] \in Nat /\ D[x] >= 1)
    OBVIOUS
  <2>3. parent[x] # None => D[parent[x]] \in Nat /\ D[parent[x]] >= 1
    BY <2>1, <2>2 DEF Types
  <2> QED BY <1>6, <2>2, <2>3
<1> QED BY <1>5, <1>7

\* The amounts when the versions of `done` were approved as d.
Turn(d, done) == [e \in Envelopes |-> IF e \in done THEN d[e] ELSE amount[e]]

\* Siblings that have no more, under the same parent amount: the cap still allows.
LEMMA LessIsAllowed ==
    ASSUME Types, NEW e \in Envelopes, NEW n \in Nat,
           NEW now \in [Envelopes -> Nat \cup {None}], NEW last \in [Envelopes -> Nat \cup {None}],
           CapAllows(e, n, last, parent), now[parent[e]] = last[parent[e]],
           \A c \in Envelopes \ {e} : parent[c] = parent[e] => Money(now[c]) <= Money(last[c])
    PROVE  CapAllows(e, n, now, parent)
<1> USE NoneIsNothing
<1> DEFINE F == {c \in Envelopes \ {e} : parent[c] = parent[e]}  f == Paid(now)  g == Paid(last)
<1> SUFFICES ASSUME parent[e] # None, now[parent[e]] # None
             PROVE  SumFunctionOnSet(f, F) + n <= now[parent[e]]
  BY DEF CapAllows
<1>1. SumFunctionOnSet(g, F) + n <= last[parent[e]]
  BY DEF CapAllows
<1>2. \A c \in F : f[c] \in Nat /\ g[c] \in Nat /\ f[c] <= g[c]
  BY DEF Paid, Money
<1>3. IsFiniteSet(F)
  BY StructureAssumption, FS_Subset
<1>4. now[parent[e]] \in Nat /\ last[parent[e]] = now[parent[e]]
  BY DEF Types
<1> HIDE DEF F, f, g
<1>5. SumFunctionOnSet(f, F) <= SumFunctionOnSet(g, F)
  BY <1>2, <1>3, SumMonotone
<1>6. SumFunctionOnSet(f, F) \in Nat /\ SumFunctionOnSet(g, F) \in Nat
  BY <1>2, <1>3, SumType
<1>7. \A a, b, k, m \in Nat : a <= b /\ b + k <= m => a + k <= m
  OBVIOUS
<1> QED BY <1>1, <1>4, <1>5, <1>6, <1>7

Before(o, i) == {o[j] : j \in 1..(i - 1)}

\* Every version has its turn, and what gives its amount back comes first.
LEMMA OrderTurns ==
    ASSUME Types, Acyclic(parent), NEW q \in Changes, Shape(q), NEW o \in Orders(q, parent),
           NEW i \in DOMAIN o
    PROVE  /\ o[i] \in q.versions /\ Before(o, i) \subseteq q.versions \ {o[i]}
           /\ o[i] \in q.archive \cup Ending(q) => Before(o, i) \subseteq q.archive \cup Ending(q)
           /\ o[i] \notin q.archive \cup Ending(q) => q.archive \cup Ending(q) \subseteq Before(o, i)
<1> DEFINE done == {o[j] : j \in 1..(i - 1)}  V == q.versions  Z == q.archive \cup Ending(q)  rank == Rank(q, parent)  K == Cardinality(V)
<1>1. V \subseteq Envelopes /\ Z \subseteq V
  BY TouchedEnvelopes DEF Shape
<1>2. IsFiniteSet(V)
  BY <1>1, StructureAssumption, FS_Subset
<1>3. K \in Nat
  BY <1>2, FS_CardinalityType
<1>4. /\ \A x \in V : rank[x] \in Nat
      /\ \A x \in Z : rank[x] = 0
      /\ \A x \in V \ Z : rank[x] >= 1
  BY <1>1, DepthsPositive DEF Rank
<1>5. o \in [1..K -> V] /\ \A j, k \in 1..K : j < k => o[j] # o[k] /\ rank[o[j]] <= rank[o[k]]
  BY DEF Orders
<1> HIDE DEF rank, K, V, Z
<1>6. \A j, k \in 1..K : o[j] = o[k] => j = k
  <2> SUFFICES ASSUME NEW j \in 1..K, NEW k \in 1..K, j # k PROVE o[j] # o[k]
    OBVIOUS
  <2>1. j < k \/ k < j
    BY <1>3
  <2> QED BY <1>5, <2>1
<1>7. \A x \in V : \E j \in 1..K : o[j] = x
  <2>1. o \in Injection(1..K, V)
    BY <1>5, <1>6 DEF Injection, IsInjective
  <2>2. 1 \in Int /\ K \in Int
    BY <1>3
  <2>3. Cardinality(1..K) = K
    BY <1>3, <2>2, FS_Interval
  <2>4. o \in Surjection(1..K, V)
    BY <1>2, <2>1, <2>3, FS_Injection DEF K
  <2> QED BY <2>4 DEF Surjection
<1>8. i \in 1..K /\ o[i] \in V
  BY <1>5
<1>9. \A j \in 1..(i - 1) : j \in 1..K /\ j < i
  BY <1>3, <1>8
<1>10. \A x \in done : x \in V /\ x # o[i] /\ rank[x] <= rank[o[i]]
  BY <1>5, <1>8, <1>9
<1>11. o[i] \in Z => done \subseteq Z
  BY <1>4, <1>8, <1>10
<1>12. ASSUME o[i] \notin Z, NEW x \in Z PROVE x \in done
  <2>1. PICK j \in 1..K : o[j] = x
    BY <1>1, <1>7 DEF V, Z
  <2>2. ~ (i < j) /\ i # j
    BY <1>4, <1>5, <1>8, <1>12, <2>1
  <2>3. j \in 1..(i - 1)
    BY <1>3, <1>8, <2>2
  <2> QED BY <2>1, <2>3
<1>13. o[i] \notin Z => Z \subseteq done
  BY <1>12
<1> HIDE DEF done
<1>14. done \subseteq V \ {o[i]}
  BY <1>10
<1> QED BY <1>8, <1>11, <1>13, <1>14 DEF V, Z, done, Before

\* The turn of e, after those that have been done: its cap allows it.
LEMMA TurnPasses ==
    ASSUME StructureInv, NEW q \in Changes, RequestInv(q), q.kind # "edit", FinalFits(q),
           NEW e \in q.versions, NEW done \in SUBSET (q.versions \ {e}),
           e \in q.archive \cup Ending(q) => done \subseteq q.archive \cup Ending(q),
           e \notin q.archive \cup Ending(q) => q.archive \cup Ending(q) \subseteq done
    PROVE  CapAllows(e, Asked(q)[e], Turn(Asked(q), done), parent)
<1> USE NoneIsNothing
<1> DEFINE V == q.versions  d == Asked(q)  now == Turn(d, done)  last == Turn(d, V)
<1> SUFFICES CapAllows(e, d[e], now, parent)
  OBVIOUS
<1>1. Types /\ Acyclic(parent) /\ Shape(q) /\ Terms(q, d, parent, amount)
  BY DEF StructureInv, RowsInv, RequestInv
<1>2. V \subseteq Envelopes /\ e \in Envelopes /\ \A x \in V : draft[x] \in Drafts
  BY TouchedEnvelopes DEF RequestInv, Pending, StructureInv, Types
<1>3. d \in [V -> Nat]
  BY <1>2 DEF Asked, Drafts
<1>4. CapAllows(e, d[e], last, parent)
  BY DEF FinalFits, Asked, Turn
<1> HIDE DEF V, d
<1>5. /\ now \in [Envelopes -> Nat \cup {None}] /\ last \in [Envelopes -> Nat \cup {None}]
      /\ \A x \in Envelopes : now[x] = IF x \in done THEN d[x] ELSE amount[x]
      /\ \A x \in Envelopes : last[x] = IF x \in V THEN d[x] ELSE amount[x]
  BY <1>1, <1>2, <1>3 DEF Turn, Types, V
<1>6. e \in V /\ d[e] \in Nat /\ done \subseteq V \ {e}
  BY <1>3 DEF V
<1>7. parent[e] # e
  <2>1. {e} \in (SUBSET Envelopes) \ {{}}
    BY <1>2
  <2> QED BY <1>1, <2>1 DEF Acyclic
<1> HIDE DEF now, last
<1>8. ASSUME now[parent[e]] = last[parent[e]],
             \A c \in Envelopes \ {e} : parent[c] = parent[e] => Money(now[c]) <= Money(last[c])
      PROVE  CapAllows(e, d[e], now, parent)
  BY <1>1, <1>2, <1>4, <1>5, <1>6, <1>8, LessIsAllowed
<1>9. \A n \in Nat \cup {None} : Money(n) \in Nat /\ Money(n) <= Money(n) /\ 0 <= Money(n)
  BY DEF Money
<1>10. CASE parent[e] = None
  BY <1>10 DEF CapAllows
<1>11. CASE q.kind \in {"single", "reintroduce", "dates"} /\ parent[e] # None
  <2>1. \A x \in Envelopes \ {e} : now[x] = last[x]
    <3>1. CASE q.kind = "dates"
      BY <1>1, <1>5, <1>6, <3>1 DEF Terms, V
    <3>2. CASE q.kind \in {"single", "reintroduce"}
      BY <1>1, <1>5, <1>6, <3>2 DEF Shape, V
    <3> QED BY <1>11, <3>1, <3>2
  <2>2. parent[e] \in Envelopes \ {e}
    BY <1>1, <1>2, <1>7, <1>11 DEF Types
  <2>3. \A c \in Envelopes \ {e} : Money(now[c]) <= Money(last[c])
    <3> TAKE c \in Envelopes \ {e}
    <3>1. last[c] \in Nat \cup {None} /\ now[c] = last[c]
      BY <1>5, <2>1
    <3> QED BY <1>9, <3>1
  <2> QED BY <1>8, <2>1, <2>2, <2>3
<1>12. CASE q.kind \in {"split", "merge", "end"} /\ parent[e] # None
  <2>1. /\ \A x \in V : parent[x] = parent[e]
        /\ \A x \in q.created : amount[x] = None
        /\ q.archive \subseteq V /\ q.created \subseteq V /\ Ending(q) \subseteq V
    BY <1>1, <1>6, <1>12 DEF Terms, Shape, V
  <2>2. parent[e] \notin V
    <3>1. parent[e] \in V => parent[parent[e]] = parent[e] /\ parent[e] \in Envelopes
      BY <1>2, <2>1 DEF V
    <3>2. \A x \in Envelopes : parent[x] # x
      <4> TAKE x \in Envelopes
      <4>1. {x} \in (SUBSET Envelopes) \ {{}}
        OBVIOUS
      <4> QED BY <1>1, <4>1 DEF Acyclic
    <3> QED BY <3>1, <3>2
  <2>3. parent[e] \in Envelopes /\ now[parent[e]] = amount[parent[e]] /\ last[parent[e]] = amount[parent[e]]
    BY <1>1, <1>2, <1>5, <1>6, <1>12, <2>2 DEF Types
  <2>4. ASSUME \A x \in V \ done : x # e => x \in q.created PROVE CapAllows(e, d[e], now, parent)
    <3>1. \A c \in Envelopes \ {e} : Money(now[c]) <= Money(last[c])
      <4> TAKE c \in Envelopes \ {e}
      <4>1. CASE c \in done \/ c \notin V
        BY <1>5, <1>6, <1>9, <4>1
      <4>2. CASE c \in V \ done
        <5>1. now[c] = None
          BY <1>5, <2>1, <2>4, <4>2
        <5> QED BY <1>5, <1>9, <5>1 DEF Money
      <4> QED BY <4>1, <4>2
    <3> QED BY <1>8, <2>3, <3>1
  <2>5. CASE e \notin q.archive \cup Ending(q)
    <3>1. \A x \in V \ done : x \in q.created
      BY <1>1, <1>6, <1>12, <2>5 DEF Shape, Ending, V
    <3> QED BY <2>4, <3>1
  <2>6. CASE q.kind = "end" /\ e \in q.archive \cup Ending(q)
    <3>1. \A x \in V \ done : x # e => x \in q.created
      BY <1>1, <2>6 DEF Shape, Ending, V
    <3> QED BY <2>4, <3>1
  <2>7. CASE q.kind # "end" /\ e \in q.archive \cup Ending(q)
    <3>1. Ending(q) = {} /\ e \in q.archive /\ done \subseteq q.archive
      BY <1>1, <2>7 DEF Shape, Ending
    <3>2. (\A x \in q.archive : d[x] = 0) /\ SumFunctionOnSet(d, V) = SumFunctionOnSet(Paid(amount), V)
      BY <1>1, <1>12, <2>7 DEF Terms, V
    <3> DEFINE F == {c \in Envelopes : parent[c] = parent[e]}  S == F \ {e}  R == F \ V
               m == Paid(now)  l == Paid(last)  a == Paid(amount)  top == amount[parent[e]]
    <3>3. /\ V \subseteq F /\ F = R \cup V /\ R \cap V = {} /\ F = S \cup {e} /\ e \notin S
          /\ S \in SUBSET F /\ F \subseteq Envelopes /\ e \in F
      BY <1>2, <1>6, <2>1 DEF V
    <3>4. IsFiniteSet(F) /\ IsFiniteSet(R) /\ IsFiniteSet(V) /\ IsFiniteSet(S)
      BY <3>3, StructureAssumption, FS_Subset
    <3>5. /\ \A x \in Envelopes : m[x] \in Nat /\ l[x] \in Nat /\ a[x] \in Nat
          /\ \A x \in Envelopes \ V : l[x] = a[x]
          /\ \A x \in V : l[x] = d[x]
          /\ \A x \in Envelopes : m[x] <= a[x]
          /\ d[e] = 0
      <4>1. \A x \in Envelopes : m[x] \in Nat /\ l[x] \in Nat /\ a[x] \in Nat
        BY <1>1, <1>5 DEF Paid, Money, Types
      <4>2. /\ \A x \in Envelopes \ V : l[x] = a[x]
            /\ \A x \in V : l[x] = d[x]
        BY <1>2, <1>3, <1>5 DEF Paid, Money, V
      <4>3. \A x \in Envelopes : m[x] <= a[x]
        <5> TAKE x \in Envelopes
        <5>1. CASE x \in done
          <6>1. m[x] = 0
            BY <1>5, <3>1, <3>2, <5>1 DEF Paid, Money
          <6> QED BY <4>1, <6>1
        <5>2. CASE x \notin done
          <6>1. m[x] = a[x]
            BY <1>5, <5>2 DEF Paid
          <6> QED BY <4>1, <6>1
        <5> QED BY <5>1, <5>2
      <4> QED BY <3>1, <3>2, <4>1, <4>2, <4>3
    <3>6. CASE top = None
      BY <2>3, <3>6 DEF CapAllows
    <3>7. CASE top # None
      <4>1. SumFunctionOnSet(l, S) + d[e] <= top
        <5>1. S = {c \in Envelopes \ {e} : parent[c] = parent[e]}
          OBVIOUS
        <5> HIDE DEF S
        <5> QED BY <1>4, <1>12, <2>3, <3>7, <5>1 DEF CapAllows
      <4>2. top \in Nat
        BY <1>1, <2>3, <3>7 DEF Types
      <4>3. SumFunctionOnSet(m, S) + d[e] <= top => CapAllows(e, d[e], now, parent)
        <5>1. S = {c \in Envelopes \ {e} : parent[c] = parent[e]}
          OBVIOUS
        <5> HIDE DEF S
        <5> QED BY <2>3, <5>1 DEF CapAllows
      <4> HIDE DEF F, S, R, m, l, a, top
      <4>4. SumFunctionOnSet(l, F) = SumFunctionOnSet(l, S) + d[e]
        <5>1. \A x \in S \cup {e} : l[x] \in Nat
          BY <3>3, <3>5
        <5>2. SumFunctionOnSet(l, S \cup {e}) = l[e] + SumFunctionOnSet(l, S)
          BY <3>3, <3>4, <5>1, SumWith
        <5>3. l[e] = d[e] /\ d[e] = 0
          BY <1>6, <3>5
        <5>4. SumFunctionOnSet(l, S) \in Nat
          BY <3>4, <5>1, SumType
        <5>5. \A n \in Nat : n + 0 = n /\ 0 + n = n
          OBVIOUS
        <5> QED BY <3>3, <5>2, <5>3, <5>4, <5>5
      <4>5. SumFunctionOnSet(l, F) = SumFunctionOnSet(a, F)
        <5>1. SumFunctionOnSet(l, R \cup V) = SumFunctionOnSet(l, R) + SumFunctionOnSet(l, V)
          <6>1. \A x \in R \cup V : l[x] \in Nat
            BY <3>3, <3>5
          <6> QED BY <3>3, <3>4, <6>1, SumUnion
        <5>2. SumFunctionOnSet(a, R \cup V) = SumFunctionOnSet(a, R) + SumFunctionOnSet(a, V)
          <6>1. \A x \in R \cup V : a[x] \in Nat
            BY <3>3, <3>5
          <6> QED BY <3>3, <3>4, <6>1, SumUnion
        <5>3. SumFunctionOnSet(l, R) = SumFunctionOnSet(a, R)
          <6>1. \A x \in R : l[x] = a[x]
            BY <3>3, <3>5
          <6> QED BY <3>4, <6>1, SumSame
        <5>4. SumFunctionOnSet(l, V) = SumFunctionOnSet(d, V)
          BY <3>4, <3>5, SumSame
        <5>5. SumFunctionOnSet(d, V) = SumFunctionOnSet(a, V)
          BY <3>2 DEF a
        <5> QED BY <3>3, <5>1, <5>2, <5>3, <5>4, <5>5
      <4>6. SumFunctionOnSet(a, S) <= SumFunctionOnSet(a, F)
        <5>1. \A x \in F : a[x] \in Nat
          BY <3>3, <3>5
        <5> QED BY <3>3, <3>4, <5>1, SumOfPart
      <4>7. SumFunctionOnSet(m, S) <= SumFunctionOnSet(a, S)
        <5>1. \A x \in S : m[x] \in Nat /\ a[x] \in Nat /\ m[x] <= a[x]
          BY <3>3, <3>5
        <5> QED BY <3>4, <5>1, SumMonotone
      <4>8. /\ SumFunctionOnSet(m, S) \in Nat /\ SumFunctionOnSet(a, S) \in Nat
            /\ SumFunctionOnSet(a, F) \in Nat
        <5>1. \A x \in F : m[x] \in Nat /\ a[x] \in Nat
          BY <3>3, <3>5
        <5>2. \A x \in S : m[x] \in Nat /\ a[x] \in Nat
          BY <3>3, <3>5
        <5> QED BY <3>4, <5>1, <5>2, SumType
      <4>9. \A b, c, n, k \in Nat : b <= c /\ c <= n /\ n <= k => b + 0 <= k
        OBVIOUS
      <4>10. SumFunctionOnSet(a, F) <= top
        BY <4>1, <4>4, <4>5
      <4>11. SumFunctionOnSet(m, S) + 0 <= top
        BY <4>2, <4>6, <4>7, <4>8, <4>9, <4>10
      <4> QED BY <3>5, <4>3, <4>11
    <3> QED BY <3>6, <3>7
  <2> QED BY <2>5, <2>6, <2>7
<1>13. q.kind \in {"single", "reintroduce", "dates", "split", "merge", "end"}
  BY TouchedEnvelopes DEF Kinds
<1> QED BY <1>10, <1>11, <1>12, <1>13

\* A change that fits its parents' caps as a whole is not refused for a cap on the
\* way, in whatever order the sort leaves equals (finalizeBulk).
THEOREM FittingRequestsPass == Spec => []RequestFits
<1>1. StructureInv => RequestFits
  <2> SUFFICES ASSUME StructureInv, NEW r \in Requests, Open(r), request[r].kind # "edit",
                      FinalFits(request[r]), NEW o \in Orders(request[r], parent)
               PROVE  Passes(o, Asked(request[r]), parent)
    BY DEF RequestFits, Asked
  <2>1. PICK q \in Changes : q = request[r]
    BY OpenRequest
  <2>2. RequestInv(q) /\ Shape(q) /\ Types /\ Acyclic(parent) /\ FinalFits(q) /\ q.kind # "edit"
        /\ o \in Orders(q, parent)
    BY <2>1, OpenRequest DEF StructureInv, RowsInv
  <2>3. ASSUME NEW i \in DOMAIN o
        PROVE  CapAllows(o[i], Asked(q)[o[i]], Turn(Asked(q), {o[j] : j \in 1..(i - 1)}), parent)
    <3>1. PICK done : done = Before(o, i)
      OBVIOUS
    <3>2. PICK e : e = o[i]
      OBVIOUS
    <3>3. /\ e \in q.versions /\ done \in SUBSET (q.versions \ {e})
          /\ e \in q.archive \cup Ending(q) => done \subseteq q.archive \cup Ending(q)
          /\ e \notin q.archive \cup Ending(q) => q.archive \cup Ending(q) \subseteq done
      BY <2>2, <3>1, <3>2, OrderTurns
    <3>4. CapAllows(e, Asked(q)[e], Turn(Asked(q), done), parent)
      BY <2>2, <3>3, TurnPasses
    <3> QED BY <3>1, <3>2, <3>4 DEF Before
  <2> QED BY <2>1, <2>3 DEF Passes, Turn
<1> QED BY StructureInvHolds, <1>1, PTL

-----------------------------------------------------------------------------
(* What ended stays where it is *)

LEMMA EndedStep ==
    ASSUME StructureInv, [Next]_vars, NEW e \in ended
    PROVE  e \in ended' /\ parent'[e] = parent[e] /\ span'[e] = span[e]
<1> USE NoneIsNothing
<1>1. status[e] # None /\ Types /\ e \in Envelopes
  BY DEF StructureInv, RowsInv, Types
<1>2. CASE Applying
  <2>1. PICK G, q, d, up, sp :
          /\ q \in Changes /\ Shape(q) /\ ~ Stale(q) /\ Apply(q, d, up, sp)
          /\ G \subseteq Requests /\ \A o \in G : Open(o) /\ request[o] = q
          /\ \/ G = {} /\ \E held : Proposal(q, d, up, sp, held)
             \/ \E o \in Requests : G = {o} /\ d = Asked(q) /\ up = parent /\ sp = span
    BY <1>2 DEF Applying
  <2>2. e \notin DOMAIN q.dates
    BY <2>1 DEF Stale
  <2>3. up[e] = parent[e] /\ sp[e] = span[e] /\ e \notin Ending(q)
    <3>1. CASE \E held : Proposal(q, d, up, sp, held)
      BY <1>1, <3>1 DEF Proposal
    <3>2. ASSUME NEW o \in Requests, G = {o}, up = parent, sp = span PROVE Ending(q) \cap ended = {}
      BY <2>1, <3>2, OpenRequest DEF RequestInv
    <3> QED BY <2>1, <3>1, <3>2
  <2> QED BY <1>1, <2>1, <2>2, <2>3 DEF Apply
<1>3. CASE Opening
  <2>1. PICK o, q, d, up, sp, held :
          o \in Requests /\ Proposal(q, d, up, sp, held) /\ Opened(o, q, d, up, sp, held)
    BY <1>3 DEF Opening
  <2> QED BY <1>1, <2>1 DEF Proposal, Opened
<1>4. CASE Closing \/ UNCHANGED vars
  BY <1>4 DEF Closing, Close, vars
<1>5. CASE Moving
  <2>1. PICK x \in Envelopes : Move(x)
    BY <1>5 DEF Moving
  <2>2. x # e
    BY <2>1 DEF Move, Writable
  <2>3. UNCHANGED <<span, ended>> /\ \E to : parent' = [parent EXCEPT ![x] = to]
    BY <2>1 DEF Move, Close
  <2> QED BY <1>1, <2>2, <2>3 DEF Types
<1>6. CASE Redating
  <2>1. PICK D, to : Redated(D, to)
    BY <1>6 DEF Redating
  <2> QED BY <1>1, <2>1 DEF Redated, Dated
<1>7. CASE Drafting
  <2>1. PICK x \in Envelopes : Create(x) \/ Edit(x)
    BY <1>7 DEF Drafting
  <2>2. CASE Edit(x)
    BY <2>2 DEF Edit
  <2>3. CASE Create(x)
    <3>1. x # e /\ ended' = ended /\ \E p, s : parent' = [parent EXCEPT ![x] = p] /\ span' = [span EXCEPT ![x] = s]
      BY <1>1, <2>3 DEF Create
    <3> QED BY <1>1, <3>1 DEF Types
  <2> QED BY <2>1, <2>2, <2>3
<1> QED BY <1>2, <1>3, <1>4, <1>5, <1>6, <1>7, StepsOfNext

\* Of what EndedIsFinal asks, place and dates do hold, and the end is final: only the
\* amount of an ended budget may still change (endIn, moveIn, changeDatesIn).
THEOREM EndedStaysPut ==
    Spec => [][\A e \in ended : e \in ended' /\ parent'[e] = parent[e] /\ span'[e] = span[e]]_vars
<1>1. StructureInv /\ [Next]_vars =>
        \A e \in ended : e \in ended' /\ parent'[e] = parent[e] /\ span'[e] = span[e]
  BY EndedStep
<1> QED BY StructureInvHolds, <1>1, PTL DEF Spec
=============================================================================
