-------------------------- MODULE StructuralChange --------------------------
(***************************************************************************)
(* Changes to the shape of the budget tree, and the requests that carry    *)
(* them: split, merge, end, reintroduce, new dates and bulk edits are      *)
(* drafted at once and applied together when the request is approved, and  *)
(* meanwhile single versions are submitted, budgets moved and others       *)
(* created (structure.ts, end-reintroduce.ts, change-dates.ts, commit.ts,  *)
(* and the bulk side of the approval engine).                              *)
(*                                                                         *)
(* Each action is one command, a transaction under the locks of TreeLocks. *)
(* The steps and approvers of a request are EnvelopeApproval's: deciding   *)
(* is its last step here.  So are closures: no envelope is LOCKED.  Dates  *)
(* are one of two spans, of which the short one lies inside the long one.  *)
(* No parent allows over-allocation.                                       *)
(***************************************************************************)
EXTENDS Naturals, FiniteSetsExt

CONSTANTS
    Envelopes,    \* rows, those not yet created included
    Requests,     \* bound: requests open at a time
    Amounts,      \* bound: amounts that are drafted
    MaxCommands,  \* bound: commands that are run
    Starts,       \* trees to start from: parents, approved amounts and drafts
    None

Spans == {"short", "long"}
Outside(inner, outer) == inner = "long" /\ outer = "short"

VARIABLES
    parent,       \* envelope.parent_id
    status,       \* envelope.status, None before the row is created
    amount,       \* the approved amount, or None
    draft,        \* the draft version: its amount and status, or None
    ended,        \* ended_at is set
    span,         \* start_date and end_date
    successor,    \* lineage of kind `continues`
    request,      \* the open requests, with what they apply
    commands      \* commands that were run

vars == <<parent, status, amount, draft, ended, span, successor, request, commands>>

Statuses == {"DRAFT", "PENDING", "APPROVED", "ARCHIVED"}
Drafts   == [n : Nat, status : {"DRAFT", "PENDING"}]

\* What a request applies: versions, rows to archive and rows that it created, the
\* budget to end, and the dates to change, with the state that they were planned on.
Kinds   == {"single", "edit", "split", "merge", "end", "reintroduce", "dates"}
Ends    == [e : Envelopes, span : Spans]
Dates   == [to : Spans, parent : Envelopes \cup {None}, from : Spans]
Changes ==
    [kind : Kinds, versions : SUBSET Envelopes, archive : SUBSET Envelopes,
     created : SUBSET Envelopes, end : Ends \cup {None},
     dates : UNION {[D -> Dates] : D \in SUBSET Envelopes}]

\* No envelope is its own ancestor.
Acyclic(up) == \A S \in (SUBSET Envelopes) \ {{}} : \E x \in S : up[x] \notin S

ASSUME StructureAssumption ==
    /\ IsFiniteSet(Envelopes) /\ Amounts \subseteq Nat /\ MaxCommands \in Nat
    /\ None \notin Envelopes \cup Nat \cup Spans \cup Statuses
    /\ None \notin Drafts /\ None \notin Ends /\ None \notin Changes
    /\ Starts \subseteq [parent : [Envelopes -> Envelopes \cup {None}],
                         amount : [Envelopes -> Nat \cup {None}],
                         draft  : [Envelopes -> Nat \cup {None}]]
    \* Trees: a parent is an envelope that was created, and never a descendant.
    /\ \A s \in Starts :
         /\ Acyclic(s.parent)
         /\ \A e \in Envelopes : s.parent[e] # None =>
              s.amount[s.parent[e]] # None \/ s.draft[s.parent[e]] # None

Init ==
    \E s \in Starts :
       /\ parent = s.parent /\ amount = s.amount
       /\ status = [e \in Envelopes |->
                      CASE s.amount[e] # None -> "APPROVED"
                        [] s.amount[e] = None /\ s.draft[e] # None -> "DRAFT"
                        [] OTHER -> None]
       /\ draft = [e \in Envelopes |->
                     IF s.draft[e] = None THEN None ELSE [n |-> s.draft[e], status |-> "DRAFT"]]
       /\ ended = {}
       /\ span = [e \in Envelopes |-> "long"]
       /\ successor = [e \in Envelopes |-> None]
       /\ request = [r \in Requests |-> None]
       /\ commands = 0

Open(r)    == request[r] # None
Pending(e) == draft[e] # None /\ draft[e].status = "PENDING"
Live(e)    == status[e] \notin {None, "ARCHIVED"}
Resting(n) == IF n = None THEN "DRAFT" ELSE "APPROVED"
Money(n)   == IF n = None THEN 0 ELSE n
Paid(now)  == [e \in Envelopes |-> Money(now[e])]

-----------------------------------------------------------------------------
(* Guards that the commands share *)

\* lockForWrite
Writable(e) == Live(e) /\ e \notin ended

\* insertEnvelopeRow, and moveIn
CanHold(p) == p # None => Writable(p)

Ending(q)  == IF q.end = None THEN {} ELSE {q.end.e}
Touched(q) == q.versions \cup q.archive \cup q.created \cup Ending(q) \cup DOMAIN q.dates

\* assertNotHeld: bulk edits and single versions do not hold.
NotHeld(S) ==
    \A r \in Requests :
       Open(r) /\ request[r].kind \notin {"single", "edit"} => Touched(request[r]) \cap S = {}

MutUnsent(e) == TRUE                       \* assertDraftNotPending is forgotten

\* assertDraftNotPending
Unsent(e) == ~ Pending(e)

\* The way up from e, itself included.
Above(e) ==
    LET up[x \in Envelopes] == {x} \cup IF parent[x] = None THEN {} ELSE up[parent[x]]
    IN  up[e]

\* lockParentCap, where `now` are the approved amounts and `up` the parents.
CapAllows(e, n, now, up) ==
    LET siblings == {c \in Envelopes \ {e} : up[c] = up[e]}
    IN  up[e] # None /\ now[up[e]] # None =>
           SumFunctionOnSet(Paid(now), siblings) + n <= now[up[e]]

-----------------------------------------------------------------------------
(* What a request applies (finalizeBulk) *)

Depths(up) ==
    LET d[e \in Envelopes] == IF up[e] = None THEN 1 ELSE d[up[e]] + 1 IN d

MutRank(q, up) == Depths(up)               \* what is released is not approved first

\* What gives its amount back goes first, then parents before children.
Rank(q, up) ==
    [e \in Envelopes |-> IF e \in q.archive \cup Ending(q) THEN 0 ELSE Depths(up)[e]]

Orders(q, up) ==
    LET rank == Rank(q, up)
    IN  {o \in [1..Cardinality(q.versions) -> q.versions] :
           \A i, j \in DOMAIN o : i < j => o[i] # o[j] /\ rank[o[i]] <= rank[o[j]]}

\* Every version passes its parent's cap when its turn comes.
Passes(o, d, up) ==
    \A i \in DOMAIN o :
       LET done == {o[j] : j \in 1..(i - 1)}
           now  == [e \in Envelopes |-> IF e \in done THEN d[e] ELSE amount[e]]
       IN  CapAllows(o[i], d[o[i]], now, up)

MutReleased(e) == IF status[e] = "PENDING" THEN Resting(amount[e]) ELSE status[e]

\* releaseHeld
Released(e) == IF status[e] = "PENDING" /\ ~ Pending(e) THEN Resting(amount[e]) ELSE status[e]

\* The approved amounts d of q, on a tree of parents `up` and spans `sp`.
Apply(q, d, up, sp) ==
    /\ \E o \in Orders(q, up) : Passes(o, d, up)
    /\ parent' = up
    /\ amount' = [e \in Envelopes |-> IF e \in q.versions THEN d[e] ELSE amount[e]]
    /\ draft'  = [e \in Envelopes |-> IF e \in q.versions \cup q.archive THEN None ELSE draft[e]]
    /\ status' = [e \in Envelopes |->
                    CASE e \in q.archive                -> "ARCHIVED"
                      [] e \in q.versions \ q.archive   -> "APPROVED"
                      [] e \in DOMAIN q.dates \ q.versions -> Released(e)
                      [] OTHER                          -> status[e]]
    /\ ended'  = ended \cup Ending(q)
    /\ span'   = [e \in Envelopes |->
                    CASE e \in DOMAIN q.dates -> q.dates[e].to
                      [] e \in Ending(q)      -> q.end.span
                      [] OTHER                -> sp[e]]

\* routeStructural, and the end of commitBulk: the drafts d are approved at once,
\* or wait in a request while their budgets, and those held, are PENDING.
Route(q, d, up, sp, held) ==
    \/ Apply(q, d, up, sp) /\ UNCHANGED request
    \/ \E r \in Requests :
         /\ ~ Open(r)
         /\ request' = [request EXCEPT ![r] = q]
         /\ parent' = up /\ span' = sp
         /\ draft'  = [e \in Envelopes |->
                         IF e \in q.versions THEN [n |-> d[e], status |-> "PENDING"] ELSE draft[e]]
         /\ status' = [e \in Envelopes |->
                         IF e \in q.archive \cup q.created \cup held THEN "PENDING" ELSE status[e]]
         /\ UNCHANGED <<amount, ended>>

NoDates == [e \in {} |-> None]
Change(kind, versions, archive, created) ==
    [kind |-> kind, versions |-> versions, archive |-> archive, created |-> created,
     end |-> None, dates |-> NoDates]

-----------------------------------------------------------------------------
(* Commands on one envelope *)

\* createEnvelope; the draft is optional.
Create(e) ==
    \E p \in Envelopes \cup {None}, n \in Amounts \cup {None}, s \in Spans :
       /\ status[e] = None /\ CanHold(p)
       /\ parent' = [parent EXCEPT ![e] = p]
       /\ status' = [status EXCEPT ![e] = "DRAFT"]
       /\ span' = [span EXCEPT ![e] = s]
       /\ draft' = [draft EXCEPT ![e] = IF n = None THEN None ELSE [n |-> n, status |-> "DRAFT"]]
       /\ UNCHANGED <<amount, ended, successor, request>>

\* createDraftVersion
Edit(e) ==
    \E n \in Amounts :
       /\ Writable(e) /\ Unsent(e)
       /\ draft' = [draft EXCEPT ![e] = [n |-> n, status |-> "DRAFT"]]
       /\ UNCHANGED <<parent, status, amount, ended, span, successor, request>>

\* submitVersionIn
Submit(e) ==
    /\ draft[e] # None /\ Unsent(e)
    /\ Route(Change("single", {e}, {}, {}), [x \in {e} |-> draft[e].n], parent, span, {e})
    /\ UNCHANGED successor

\* closeRequest
Close(r, returned) ==
    LET q == request[r]
    IN  /\ draft' = [e \in Envelopes |->
                       CASE e \in q.versions -> IF returned THEN [n |-> draft[e].n, status |-> "DRAFT"]
                                                ELSE None
                         [] OTHER            -> draft[e]]
        /\ status' = [e \in Envelopes |->
                        CASE e \in q.created /\ ~ returned -> "ARCHIVED"
                          [] e \in q.versions /\ ~ (e \in q.created /\ ~ returned) -> Resting(amount[e])
                          [] e \in DOMAIN q.dates \ q.versions -> Released(e)
                          [] OTHER -> status[e]]
        /\ request' = [request EXCEPT ![r] = None]
        /\ UNCHANGED <<amount, ended, span, successor>>

MutMayMove(e) == TRUE                      \* assertNotHeld is forgotten

MayMove(e) == NotHeld({e})

\* moveIn; the open request of the envelope may match another policy, and is returned.
Move(e) ==
    \E to \in Envelopes \cup {None} :
       LET up == [parent EXCEPT ![e] = to]
       IN  /\ Writable(e) /\ MayMove(e)
           /\ to # parent[e] /\ CanHold(to)
           /\ to # None => e \notin Above(to)
           /\ CapAllows(e, Money(amount[e]), amount, up)
           /\ parent' = up
           /\ \/ UNCHANGED <<status, amount, draft, ended, span, successor, request>>
              \/ \E r \in Requests :
                   Open(r) /\ request[r].kind = "single" /\ e \in request[r].versions /\ Close(r, TRUE)

-----------------------------------------------------------------------------
(* Commands that change the shape *)

\* A row for each envelope of S, under p.
Placed(S, p) == [e \in Envelopes |-> IF e \in S THEN p ELSE parent[e]]
Dated(S, s)  == [e \in Envelopes |-> IF e \in S THEN s ELSE span[e]]

\* The ways to split e in two new budgets.
Parts(e) ==
    LET new == {x \in Envelopes : status[x] = None}
    IN  {f \in UNION {[S -> 0..amount[e]] : S \in kSubset(2, new)} :
           SumFunction(f) = amount[e]}

\* splitIn
Split(e) ==
    /\ Writable(e) /\ Unsent(e) /\ amount[e] # None /\ CanHold(parent[e])
    /\ \E f \in Parts(e) :
         LET new == DOMAIN f
         IN  Route(Change("split", new \cup {e}, {e}, new),
                   [x \in new \cup {e} |-> IF x = e THEN 0 ELSE f[x]],
                   Placed(new, parent[e]), Dated(new, span[e]), {})
    /\ UNCHANGED successor

\* mergeIn
Merge(S) ==
    /\ \A e \in S : Writable(e) /\ Unsent(e) /\ amount[e] # None
    /\ \E p \in {parent[e] : e \in S}, x \in Envelopes :
         /\ \A e \in S : parent[e] = p
         /\ status[x] = None /\ CanHold(p)
         /\ Route(Change("merge", S \cup {x}, S, {x}),
                  [y \in S \cup {x} |-> IF y = x THEN SumFunctionOnSet(amount, S) ELSE 0],
                  Placed({x}, p),
                  Dated({x}, IF \E e \in S : span[e] = "long" THEN "long" ELSE "short"), {})
    /\ UNCHANGED successor

\* createSuccessor: the budget that continues another starts after it, so not within
\* the short span.  The lineage is written with the request, and stays.
Continues(e, x) ==
    /\ status[x] = None /\ successor[e] = None /\ CanHold(parent[e])
    /\ successor' = [successor EXCEPT ![e] = x]

\* endIn
End(e) ==
    /\ Writable(e) /\ Unsent(e) /\ NotHeld({e}) /\ amount[e] # None
    /\ \A c \in Envelopes : parent[c] = e => ~ Live(c) \/ c \in ended
    /\ \E n \in Amounts, s \in Spans :
         /\ ~ Outside(s, span[e])
         /\ LET q == [Change("end", {e}, {}, {}) EXCEPT !.end = [e |-> e, span |-> s]]
            IN  \/ /\ Route(q, [y \in {e} |-> n], parent, span, {e})
                   /\ UNCHANGED successor
                \/ \E x \in Envelopes, m \in Amounts :
                     /\ Continues(e, x)
                     /\ Route([q EXCEPT !.versions = {e, x}, !.created = {x}],
                              [y \in {e, x} |-> IF y = e THEN n ELSE m],
                              Placed({x}, parent[e]), Dated({x}, "long"), {e})

\* reintroduceIn
Reintroduce(e) ==
    /\ e \in ended /\ NotHeld({e})
    /\ \E x \in Envelopes, m \in Amounts :
         /\ Continues(e, x)
         /\ Route(Change("reintroduce", {x}, {}, {x}), [y \in {x} |-> m],
                  Placed({x}, parent[e]), Dated({x}, "long"), {})

\* planDates: e and what its new dates trim.
Lines(e, to) ==
    {x \in Envelopes :
       \A A \in SUBSET Envelopes :
          (/\ e \in A
           /\ \A c \in Envelopes : Live(c) /\ parent[c] \in A /\ Outside(span[c], to) => c \in A)
          => x \in A}

\* changeDatesIn: at once for budgets that were never approved.
ChangeDates(e) ==
    \E to \in Spans \ {span[e]} :
       LET lines    == Lines(e, to)
           approved == {x \in lines : amount[x] # None}
           q == [Change("dates", approved, {}, {}) EXCEPT
                   !.dates = [x \in lines |-> [to |-> to, parent |-> parent[x], from |-> span[x]]]]
       IN  /\ Writable(e)
           /\ parent[e] # None /\ Live(parent[e]) => ~ Outside(to, span[parent[e]])
           /\ lines \cap ended = {} /\ NotHeld(lines)
           /\ \A x \in lines : Unsent(x)
           /\ \A x \in approved : draft[x] = None
           /\ IF approved = {}
              THEN /\ span' = Dated(lines, to)
                   /\ UNCHANGED <<parent, status, amount, draft, ended, request>>
              ELSE Route(q, [x \in approved |-> amount[x]], parent, span, lines)
           /\ UNCHANGED successor

\* commitBulk: the previewed heads are still the heads.  Nothing asks for ended_at.
BulkEdit(S) ==
    /\ \A e \in S : Live(e) /\ Unsent(e)
    /\ \E d \in [S -> Amounts] :
         /\ \A e \in S : d[e] # (IF draft[e] # None THEN draft[e].n ELSE amount[e])
         /\ Route(Change("edit", S, {}, {}), d, parent, span, S)
    /\ UNCHANGED successor

-----------------------------------------------------------------------------
(* Decisions *)

MutStale(q) ==                             \* children of a re-dated budget are not looked at
    \E e \in DOMAIN q.dates :
       \/ parent[e] # q.dates[e].parent \/ span[e] # q.dates[e].from
       \/ ~ Live(e) \/ e \in ended

\* revalidateDates: the tree is not any more the one that was planned on.
Stale(q) ==
    LET new(e) == IF e \in DOMAIN q.dates THEN q.dates[e].to ELSE span[e]
    IN  \E e \in DOMAIN q.dates :
          \/ parent[e] # q.dates[e].parent \/ span[e] # q.dates[e].from
          \/ ~ Live(e) \/ e \in ended
          \/ /\ parent[e] # None /\ (parent[e] \in DOMAIN q.dates \/ Live(parent[e]))
             /\ Outside(new(e), new(parent[e]))
          \/ \E c \in Envelopes : parent[c] = e /\ Live(c) /\ Outside(new(c), new(e))

\* The last approval of a request; dates that went stale are returned instead.
Approve(r) ==
    LET q == request[r]
    IN  /\ Open(r)
        /\ \/ /\ Stale(q) /\ Close(r, TRUE) /\ UNCHANGED parent
           \/ /\ ~ Stale(q)
              /\ Apply(q, [e \in q.versions |-> draft[e].n], parent, span)
              /\ request' = [request EXCEPT ![r] = None]
              /\ UNCHANGED successor

\* decide (reject), withdraw
Refuse(r) == Open(r) /\ Close(r, FALSE) /\ UNCHANGED parent

\* decide (request changes)
Return(r) == Open(r) /\ Close(r, TRUE) /\ UNCHANGED parent

Next ==
    /\ commands < MaxCommands /\ commands' = commands + 1
    /\ \/ \E e \in Envelopes :
            \/ Create(e) \/ Edit(e) \/ Submit(e) \/ Move(e)
            \/ Split(e) \/ End(e) \/ Reintroduce(e) \/ ChangeDates(e)
       \/ \E S \in kSubset(2, Envelopes) : Merge(S)
       \/ \E S \in kSubset(1, Envelopes) \cup kSubset(2, Envelopes) : BulkEdit(S)
       \/ \E r \in Requests : Approve(r) \/ Refuse(r) \/ Return(r)

Spec == Init /\ [][Next]_vars

-----------------------------------------------------------------------------
(* Properties *)

TypeOK ==
    /\ parent \in [Envelopes -> Envelopes \cup {None}]
    /\ \A e \in Envelopes :
         /\ status[e] \in Statuses \cup {None}
         /\ amount[e] \in Nat \cup {None}
         /\ draft[e] \in Drafts \cup {None}
    /\ ended \subseteq Envelopes
    /\ span \in [Envelopes -> Spans]
    /\ successor \in [Envelopes -> Envelopes \cup {None}]
    /\ \A r \in Requests : Open(r) =>
         /\ request[r].kind \in Kinds
         /\ Touched(request[r]) \subseteq {e \in Envelopes : status[e] # None}
         /\ \A e \in request[r].versions : draft[e] # None

\* A version waits in exactly one open request, its budget shows PENDING, and a
\* budget shows PENDING only while an open request concerns it: what one request
\* does to a budget it held never hides or forgets that another is waiting
\* (releaseHeld, closeBulkVersions, setDraftPointers).
WaitsForOne ==
    \A e \in Envelopes :
       LET waiting == {r \in Requests : Open(r) /\ e \in request[r].versions}
       IN  /\ Pending(e) => waiting # {} /\ status[e] = "PENDING"
           /\ waiting # {} => Pending(e)
           /\ \A r, o \in waiting : r = o
           /\ status[e] = "PENDING" =>
                \E r \in Requests : Open(r) /\ e \in Touched(request[r])

\* What a request would leave under the parent of each of its budgets.
FinalFits(q) ==
    LET d   == [e \in q.versions |-> draft[e].n]
        now == [e \in Envelopes |-> IF e \in q.versions THEN d[e] ELSE amount[e]]
    IN  \A e \in q.versions : CapAllows(e, d[e], now, parent)

\* A change that fits its parent's cap as a whole is not refused for a cap on the
\* way: whatever order the sort leaves to equals, each version fits when its turn
\* comes (finalizeBulk).  Bulk edits are excepted: their order is not that good.
RequestFits ==
    \A r \in Requests :
       LET q == request[r]
           d == [e \in q.versions |-> draft[e].n]
       IN  Open(r) /\ q.kind # "edit" /\ FinalFits(q) =>
              \A o \in Orders(q, parent) : Passes(o, d, parent)

TotalUnder(p, up, now) ==
    SumFunctionOnSet(Paid(now), {c \in Envelopes : up[c] = p})

\* A split or a merge moves money between siblings and changes no total, however
\* long it waited and whatever was moved or approved meanwhile (splitIn, mergeIn).
TotalKept ==
    [][\A e \in Envelopes :
          status[e] # "ARCHIVED" /\ status'[e] = "ARCHIVED" =>
             TotalUnder(parent[e], parent', amount') = TotalUnder(parent[e], parent, amount)]_vars

\* While a structural change waits, the budgets it touches stay where they are,
\* with their dates, and do not end: the approver decides on what was asked.
\* Except that an older open change that touches the same budget may be applied.
HeldStaysPut ==
    [][\A r \in Requests, e \in Envelopes :
          /\ Open(r) /\ request[r].kind \notin {"single", "edit"}
          /\ e \in Touched(request[r]) /\ request'[r] = request[r]
          /\ \A o \in Requests \ {r} :
                Open(o) /\ request[o].kind # "edit" => e \notin Touched(request[o])
          => parent'[e] = parent[e] /\ span'[e] = span[e] /\ (e \in ended') = (e \in ended)]_vars

\* New dates that are applied leave the budget inside its parent and its children
\* inside it, whatever was created, moved or re-dated around it meanwhile
\* (planDates, revalidateDates).
DatesFit ==
    [][\A e \in Envelopes :
          status[e] # None /\ span'[e] # span[e] /\ e \notin ended' =>
             /\ \A p \in Envelopes :
                   parent'[e] = p /\ status'[p] # "ARCHIVED" => ~ Outside(span'[e], span'[p])
             /\ \A c \in Envelopes :
                   parent'[c] = e /\ status'[c] \notin {None, "ARCHIVED"} =>
                      ~ Outside(span'[c], span'[e])]_vars

\* An ended budget is read-only: its place, dates and approved amount stay.
EndedIsFinal ==
    [][\A e \in ended :
          parent'[e] = parent[e] /\ span'[e] = span[e] /\ amount'[e] = amount[e]]_vars
=============================================================================
