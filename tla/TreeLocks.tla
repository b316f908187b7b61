----------------------------- MODULE TreeLocks ------------------------------
(***************************************************************************)
(* The locks under which the budget tree is changed (the order is stated   *)
(* at structure.ts:38): moves, decisions, submissions and date changes as  *)
(* transactions that take row locks one at a time, read, and commit.       *)
(*                                                                         *)
(* An id is a number, as rows are locked in the order of their ids.  What  *)
(* a transaction reads before it holds its locks may be old by then; what  *)
(* it checks (Check) and what it writes (Commit) are two steps, so only    *)
(* the locks keep a check true until the commit.  A transaction may end    *)
(* without effect at any step: refused, timed out, or picked by Postgres   *)
(* to break a deadlock.                                                    *)
(*                                                                         *)
(* Each transaction runs one command.  An amount of 0 is no approved       *)
(* version.  The dates, the drafts and the holds of structural requests    *)
(* are EnvelopeApproval's and StructuralChange's.                          *)
(***************************************************************************)
EXTENDS Naturals, FiniteSetsExt

CONSTANTS
    Envelopes,    \* ids
    LastId,       \* bound of the ids
    Tx,           \* transactions
    Amounts,      \* amounts that are submitted
    Starts,       \* bound: the trees with amounts and requests to start from
    None

VARIABLES
    parent,       \* envelope.parent_id
    amount,       \* the approved amount
    asked,        \* the open request of an envelope's version: its amount, bulk or not
    treeLock, reqLock, envLock,   \* who holds which lock
    pc, cmd,      \* a transaction: where it is, and its command with its plain reads
    todo,         \* ... the rows it still locks, by id
    late,         \* history: who had to lock a row outside of that set
    stale         \* the moves whose envelope was written since the client loaded it

dataVars == <<parent, amount, asked>>
lockVars == <<treeLock, reqLock, envLock>>
vars     == <<dataVars, lockVars, pc, cmd, todo, late, stale>>

\* A command, what it read before its locks included: the parent, the open request.
Moves ==
    [kind : {"move"}, e : Envelopes, to : Envelopes \cup {None},
     from : Envelopes \cup {None}, open : BOOLEAN]
Decisions   == [kind : {"decide"}, e : Envelopes, approves : BOOLEAN, bulk : BOOLEAN]
Submissions == [kind : {"submit"}, e : Envelopes, n : Amounts, auto : BOOLEAN]
DateChanges == [kind : {"dates"}, e : Envelopes]
Commands    == Moves \cup Decisions \cup Submissions \cup DateChanges

Requests == [n : Nat, bulk : BOOLEAN]

ASSUME TreeAssumption ==
    /\ LastId \in Nat /\ Envelopes \subseteq 0..LastId
    /\ Amounts \subseteq Nat \ {0}
    /\ None \notin Envelopes \cup Tx \cup Commands /\ None \notin Requests

\* The sets that a walk up does not leave.
Closed == {A \in SUBSET Envelopes : \A a \in A : parent[a] \in A \cup {None}}

MutUnder(e) == {x \in Envelopes : x = e \/ parent[x] = e}   \* the walk is one step long

\* The envelope and everything under it: the walk up from x meets e.
Under(e) ==
    LET closed == Closed
    IN  {x \in Envelopes : \A A \in closed : x \in A => e \in A}

\* No envelope is its own ancestor.
Acyclic(up) == \A S \in (SUBSET Envelopes) \ {{}} : \E x \in S : up[x] \notin S

ASSUME StartsAreForests ==
    \A s \in Starts :
       /\ s.parent \in [Envelopes -> Envelopes \cup {None}] /\ Acyclic(s.parent)
       /\ s.amount \in [Envelopes -> Nat]
       /\ s.asked \in [Envelopes -> Requests \cup {None}]

Init ==
    /\ \E s \in Starts : parent = s.parent /\ amount = s.amount /\ asked = s.asked
    /\ treeLock = None
    /\ reqLock = [e \in Envelopes |-> None] /\ envLock = [e \in Envelopes |-> None]
    /\ pc = [t \in Tx |-> "new"]
    /\ cmd = [t \in Tx |-> None]
    /\ todo = [t \in Tx |-> {}]
    /\ late = {} /\ stale = {}

Goto(t, place) == pc' = [pc EXCEPT ![t] = place]
Held(t)   == {e \in Envelopes : envLock[e] = t}
Parents(e) == {parent[e]} \ {None}
Single(e)  == asked[e] # None /\ ~ asked[e].bulk

-----------------------------------------------------------------------------
(* Commands *)

Starting(t, c, place, rows) ==
    /\ pc[t] = "new"
    /\ cmd' = [cmd EXCEPT ![t] = c]
    /\ todo' = [todo EXCEPT ![t] = rows]
    /\ Goto(t, place)
    /\ UNCHANGED <<dataVars, lockVars, late, stale>>

\* moveIn, with its first plain read; to may be None, and even e.
Move(t) ==
    \E e \in Envelopes, to \in Envelopes \cup {None} :
       Starting(t, [kind |-> "move", e |-> e, to |-> to, from |-> parent[e], open |-> FALSE],
                "tree", {})

\* decide, or withdraw, which only closes the request.
Decide(t) ==
    \E e \in Envelopes, approves \in BOOLEAN :
       /\ asked[e] # None
       /\ Starting(t, [kind |-> "decide", e |-> e, approves |-> approves, bulk |-> asked[e].bulk],
                   "request", {})

\* submitVersionIn, routed to a request or approved at once.
Submit(t) ==
    \E e \in Envelopes, n \in Amounts, auto \in BOOLEAN :
       Starting(t, [kind |-> "submit", e |-> e, n |-> n, auto |-> auto], "lock", {e})

\* lockFamily
ChangeDates(t) ==
    \E e \in Envelopes :
       Starting(t, [kind |-> "dates", e |-> e], "lock", Under(e) \cup Parents(e))

-----------------------------------------------------------------------------
(* Locks *)

\* lockTreeShape, then the open request is read.
TreeLock(t) ==
    /\ pc[t] = "tree" /\ treeLock = None
    /\ treeLock' = t
    /\ LET c == cmd[t]
       IN  /\ cmd' = [cmd EXCEPT ![t].open = Single(c.e)]
           /\ todo' = [todo EXCEPT ![t] = {c.e} \cup ({c.from, c.to} \ {None})]
           /\ Goto(t, IF Single(c.e) THEN "request" ELSE "lock")
    /\ UNCHANGED <<dataVars, reqLock, envLock, late, stale>>

\* lockApprovalRequest; a decision finds it open and reads which rows to lock.
RequestLock(t) ==
    /\ pc[t] = "request"
    /\ LET c == cmd[t]
       IN  /\ reqLock[c.e] = None
           /\ reqLock' = [reqLock EXCEPT ![c.e] = t]
           /\ c.kind = "decide" => asked[c.e] # None /\ asked[c.e].bulk = c.bulk
           /\ todo' = IF c.kind = "decide"
                      THEN [todo EXCEPT ![t] = {c.e} \cup Parents(c.e)] ELSE todo
    /\ Goto(t, "lock")
    /\ UNCHANGED <<dataVars, treeLock, envLock, cmd, late, stale>>

MutNextRow(t) ==                           \* a move locks the moved envelope first
    IF cmd[t].kind = "move" /\ cmd[t].e \in todo[t] THEN cmd[t].e ELSE Min(todo[t])

NextRow(t) == Min(todo[t])

\* lockEnvelopes
RowLock(t) ==
    /\ pc[t] = "lock"
    /\ LET x == NextRow(t)
       IN  /\ envLock[x] = None
           /\ envLock' = [envLock EXCEPT ![x] = t]
           /\ todo' = [todo EXCEPT ![t] = @ \ {x}]
           /\ Goto(t, IF todo[t] = {x} THEN "held" ELSE "lock")
    /\ UNCHANGED <<dataVars, treeLock, reqLock, cmd, late, stale>>

MutReached(t) ==                           \* a submission approves without lockParentCap
    LET c == cmd[t]
    IN  CASE c.kind = "decide" -> IF c.approves THEN Parents(c.e) ELSE {}
          [] c.kind = "dates"  -> Under(c.e)
          [] OTHER             -> {}

\* The rows that are locked where they are reached: the parent of an approved
\* version (lockParentCap), the lines under a re-dated one (lockNamed).
Reached(t) ==
    LET c == cmd[t]
    IN  CASE c.kind = "decide" -> IF c.approves THEN Parents(c.e) ELSE {}
          [] c.kind = "submit" -> IF c.auto THEN Parents(c.e) ELSE {}
          [] c.kind = "dates"  -> Under(c.e)
          [] c.kind = "move"   -> {}

Reach(t) ==
    /\ pc[t] = "held"
    /\ \E x \in Reached(t) \ Held(t) : todo' = [todo EXCEPT ![t] = {x}]
    /\ late' = late \cup {t}
    /\ Goto(t, "lock")
    /\ UNCHANGED <<dataVars, lockVars, cmd, stale>>

-----------------------------------------------------------------------------
(* Checks and writes *)

Total(p) == SumFunctionOnSet(amount, {c \in Envelopes : parent[c] = p})

\* lockParentCap: the approved children of p, with n for e, fit its approved amount.
CapAllows(p, e, n) ==
    LET siblings == {c \in Envelopes \ {e} : parent[c] = p}
    IN  p # None /\ amount[p] # 0 => SumFunctionOnSet(amount, siblings) + n <= amount[p]

MutUnchanged(t) == TRUE                    \* the plain reads are not checked again

\* The row version is the client's, and the open request the one that was read.
Unchanged(t) == t \notin stale /\ Single(cmd[t].e) = cmd[t].open

Valid(t) ==
    LET c == cmd[t]
    IN  CASE c.kind = "move" ->
               /\ Unchanged(t)
               /\ parent[c.e] # c.to
               /\ c.to # None => c.to \notin Under(c.e)
               /\ CapAllows(c.to, c.e, amount[c.e])
          [] c.kind = "decide" -> c.approves => CapAllows(parent[c.e], c.e, asked[c.e].n)
          [] c.kind = "submit" ->
               asked[c.e] = None /\ (c.auto => CapAllows(parent[c.e], c.e, c.n))
          [] c.kind = "dates" -> asked[c.e] = None

Check(t) ==
    /\ pc[t] = "held" /\ Reached(t) \subseteq Held(t)
    /\ Valid(t)
    /\ Goto(t, "checked")
    /\ UNCHANGED <<dataVars, lockVars, cmd, todo, late, stale>>

MutFreed(lock, t) == lock                  \* locks of the session

Freed(lock, t) == [e \in Envelopes |-> IF lock[e] = t THEN None ELSE lock[e]]

\* The transaction ends: its locks go, and the row versions of es have grown.
End(t, es) ==
    /\ Goto(t, "done")
    /\ treeLock' = IF treeLock = t THEN None ELSE treeLock
    /\ reqLock' = Freed(reqLock, t)
    /\ envLock' = Freed(envLock, t)
    /\ todo' = [todo EXCEPT ![t] = {}]
    /\ cmd' = [cmd EXCEPT ![t] = None]
    /\ late' = late \ {t}
    /\ stale' = (stale \ {t}) \cup
                {u \in Tx \ {t} : cmd[u] # None /\ cmd[u].kind = "move" /\ cmd[u].e \in es}

Committing(t, kind) == pc[t] = "checked" /\ cmd[t].kind = kind

\* The request of a moved envelope may match another policy, and is returned.
CommitMove(t) ==
    LET c == cmd[t]
    IN  /\ Committing(t, "move")
        /\ parent' = [parent EXCEPT ![c.e] = c.to]
        /\ \/ asked' = asked
           \/ c.open /\ asked' = [asked EXCEPT ![c.e] = None]
        /\ End(t, {c.e})
        /\ UNCHANGED amount

\* approveVersion, or closeRequest
CommitDecide(t) ==
    LET c == cmd[t]
    IN  /\ Committing(t, "decide")
        /\ amount' = IF c.approves THEN [amount EXCEPT ![c.e] = asked[c.e].n] ELSE amount
        /\ asked' = [asked EXCEPT ![c.e] = None]
        /\ End(t, IF c.approves THEN {c.e} ELSE {})
        /\ UNCHANGED parent

CommitSubmit(t) ==
    LET c == cmd[t]
    IN  /\ Committing(t, "submit")
        /\ amount' = IF c.auto THEN [amount EXCEPT ![c.e] = c.n] ELSE amount
        /\ asked' = IF c.auto THEN asked
                    ELSE [asked EXCEPT ![c.e] = [n |-> c.n, bulk |-> FALSE]]
        /\ End(t, {c.e})
        /\ UNCHANGED parent

CommitDates(t) ==
    /\ Committing(t, "dates")
    /\ End(t, Under(cmd[t].e))
    /\ UNCHANGED dataVars

Abort(t) ==
    /\ pc[t] \notin {"new", "done"}
    /\ End(t, {})
    /\ UNCHANGED dataVars

-----------------------------------------------------------------------------

Next ==
    \E t \in Tx :
       \/ Move(t) \/ Decide(t) \/ Submit(t) \/ ChangeDates(t)
       \/ TreeLock(t) \/ RequestLock(t) \/ RowLock(t) \/ Reach(t)
       \/ Check(t)
       \/ CommitMove(t) \/ CommitDecide(t) \/ CommitSubmit(t) \/ CommitDates(t)
       \/ Abort(t)

Spec == Init /\ [][Next]_vars

-----------------------------------------------------------------------------
(* Properties *)

\* Every variable has its type, and a transaction that ended holds no lock.
TypeOK ==
    /\ parent \in [Envelopes -> Envelopes \cup {None}]
    /\ amount \in [Envelopes -> Nat]
    /\ asked \in [Envelopes -> Requests \cup {None}]
    /\ treeLock \in Tx \cup {None}
    /\ reqLock \in [Envelopes -> Tx \cup {None}]
    /\ envLock \in [Envelopes -> Tx \cup {None}]
    /\ pc \in [Tx -> {"new", "tree", "request", "lock", "held", "checked", "done"}]
    /\ cmd \in [Tx -> Commands \cup {None}]
    /\ todo \in [Tx -> SUBSET Envelopes]
    /\ late \subseteq Tx /\ stale \subseteq Tx
    /\ \A t \in Tx :
          /\ pc[t] \in {"new", "done"} <=> cmd[t] = None
          /\ pc[t] = "done" =>
                treeLock # t /\ \A e \in Envelopes : reqLock[e] # t /\ envLock[e] # t

\* Whatever the interleaving, the commits are a serial run of the commands, each
\* on the tree that its predecessor left: what a transaction checked is still so
\* when it commits, because the rows it depends on are locked (structure.ts:38).
Serial == INSTANCE SerialTree

ImplementsSerial == Serial!Spec

\* Moves never close a cycle, however they interleave: each walks up from the new
\* parent while no other move can commit (structure.ts:42, 97).
NoCycle == Acyclic(parent)

\* A family outgrows its parent's approved amount only when that amount itself is
\* lowered: no interleaving of approvals and moves into it adds up to more, as
\* each checks the cap under the parent's lock (approve-version.ts:22, structure.ts:113).
CapKept ==
    [][\A p \in Envelopes :
          (amount'[p] # 0 /\ amount'[p] = amount[p] /\ Total(p)' > amount'[p]) =>
             Total(p)' <= Total(p)]_<<parent, amount>>

\* The rows a move, and a decision on one version, lock by id are all that they
\* ever lock (structure.ts:52), although both read the parents beforehand: the
\* request keeps the move of a waiting envelope out.
SetSuffices ==
    \A t \in late :
       \/ cmd[t].kind \in {"submit", "dates"}
       \/ cmd[t].kind = "decide" /\ cmd[t].bulk

\* The open request of a moved envelope is one that the move has locked, so that
\* it is matched to a policy again (structure.ts:89, 132).
MovedWithRequest ==
    [][\A e \in Envelopes :
          (parent'[e] # parent[e] /\ Single(e)) =>
             reqLock[e] # None /\ cmd[reqLock[e]].kind = "move"]_vars

\* The transaction that t waits for, if it waits.
Blocker(t) ==
    CASE pc[t] = "tree"    -> treeLock
      [] pc[t] = "request" -> reqLock[cmd[t].e]
      [] pc[t] = "lock"    -> envLock[NextRow(t)]
      [] OTHER             -> None

\* The transactions that keep to the order of structure.ts:38.  Submissions lock
\* the child before the parent, and a row reached late is out of order.
InOrder == {t \in Tx : cmd[t] # None /\ cmd[t].kind # "submit" /\ t \notin late}

\* Transactions in that order never wait for each other in a circle: a deadlock
\* takes a submission, or a row that was moved in after the rows to lock were read.
NoDeadlockInOrder ==
    \A S \in (SUBSET InOrder) \ {{}} : \E t \in S : Blocker(t) \notin S
=============================================================================
