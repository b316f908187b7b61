-------------------------- MODULE TreeLocksProofs ---------------------------
(***************************************************************************)
(* Proofs that the locks of TreeLocks keep the tree a forest, a move and a *)
(* decision on the moved envelope apart, transactions in order free of     *)
(* deadlock, and every family inside its parent's approved amount.         *)
(***************************************************************************)
EXTENDS TreeLocks, FunctionSums

-----------------------------------------------------------------------------
(* The tree *)

\* A forest stays one when e goes under an envelope that is not below it.
LEMMA MoveKeepsForest ==
    ASSUME parent \in [Envelopes -> Envelopes \cup {None}], None \notin Envelopes,
           Acyclic(parent), NEW e \in Envelopes, NEW to \in Envelopes \cup {None},
           to # None => to \notin Under(e)
    PROVE  Acyclic([parent EXCEPT ![e] = to])
<1> DEFINE up == [parent EXCEPT ![e] = to]
<1> SUFFICES ASSUME NEW S \in (SUBSET Envelopes) \ {{}}, \A x \in S : up[x] \in S PROVE FALSE
  BY DEF Acyclic
<1>1. \A x \in Envelopes \ {e} : up[x] = parent[x]
  OBVIOUS
<1>2. up[e] = to
  OBVIOUS
<1>3. e \in S
  BY <1>1 DEF Acyclic
<1>4. to \in S /\ to \in Envelopes /\ to # None
  BY <1>2, <1>3
<1>5. PICK A \in Closed : to \in A /\ e \notin A
  BY <1>4 DEF Under
<1>6. \A x \in S \cap A : parent[x] \in S \cap A
  <2> TAKE x \in S \cap A
  <2>1. parent[x] \in S
    BY <1>1, <1>5
  <2>2. parent[x] \in A \cup {None}
    BY <1>5 DEF Closed
  <2> QED BY <2>1, <2>2
<1>7. S \cap A \in (SUBSET Envelopes) \ {{}}
  BY <1>4, <1>5
<1> QED BY <1>6, <1>7 DEF Acyclic

-----------------------------------------------------------------------------
(* The inductive invariant *)

Locking == {"lock", "held", "checked"}

MoveInv(t) ==
    LET c == cmd[t]
    IN  /\ pc[t] # "tree" => treeLock = t
        /\ pc[t] = "request" => c.e \in todo[t]
        /\ (c.open /\ pc[t] \in Locking) => reqLock[c.e] = t
        /\ pc[t] = "checked" =>
             (Single(c.e) => c.open) /\ (c.to # None => c.to \notin Under(c.e))

DecideInv(t) ==
    LET c == cmd[t]
    IN  pc[t] \in Locking =>
          /\ reqLock[c.e] = t
          /\ asked[c.e] # None /\ asked[c.e].bulk = c.bulk
          /\ ~ c.bulk => Parents(c.e) \subseteq todo[t] \cup Held(t)

\* What a transaction in progress holds, by the kind of its command.
TxInv(t) ==
    cmd[t] # None =>
      /\ pc[t] \in Locking => cmd[t].e \in todo[t] \cup Held(t)
      /\ pc[t] \in {"held", "checked"} => todo[t] = {}
      /\ pc[t] = "tree" => cmd[t].kind = "move"
      /\ pc[t] = "request" => cmd[t].kind \in {"move", "decide"}
      /\ cmd[t].kind = "move" => MoveInv(t)
      /\ cmd[t].kind = "decide" => DecideInv(t)
      /\ (cmd[t].kind = "submit" /\ pc[t] = "checked") => asked[cmd[t].e] = None

LateInv == \A t \in late : cmd[t] # None

TreeInv ==
    /\ TypeOK /\ NoCycle /\ SetSuffices /\ LateInv
    /\ \A t \in Tx : TxInv(t)

LEMMA InitTreeInv == Init => TreeInv
BY TreeAssumption, StartsAreForests
DEF Init, TreeInv, TypeOK, NoCycle, SetSuffices, LateInv, TxInv

\* The kind of a command says which fields it has.
LEMMA CommandKinds ==
    ASSUME NEW c \in Commands
    PROVE  /\ c.kind \in {"move", "decide", "submit", "dates"} /\ c.e \in Envelopes
           /\ c.kind = "move" => c \in Moves
           /\ c.kind = "decide" => c \in Decisions
           /\ c.kind = "submit" => c \in Submissions
           /\ c.kind = "dates" => c \in DateChanges
BY DEF Commands, Moves, Decisions, Submissions, DateChanges

\* A transaction that does not move keeps its part, when no lock of its and none
\* of the data is taken away.
LEMMA OthersKeep ==
    ASSUME TypeOK, NEW u \in Tx, TxInv(u), UNCHANGED dataVars,
           pc'[u] = pc[u], cmd'[u] = cmd[u], todo'[u] = todo[u],
           treeLock = u => treeLock' = u,
           \A e \in Envelopes : reqLock[e] = u => reqLock'[e] = u,
           \A e \in Envelopes : envLock[e] = u => envLock'[e] = u
    PROVE  TxInv(u)'
<1>1. Held(u) \subseteq Held(u)'
  BY DEF Held
<1>2. \A e \in Envelopes : Under(e)' = Under(e) /\ Parents(e)' = Parents(e) /\ Single(e)' = Single(e)
  BY DEF dataVars, Under, Closed, Parents, Single
<1>3. cmd[u] # None => cmd[u] \in Commands
  BY DEF TypeOK
<1> QED BY <1>1, <1>2, <1>3, CommandKinds DEF TxInv, MoveInv, DecideInv, Locking, dataVars

\* A command begins.
LEMMA StartingStep ==
    ASSUME TreeInv, NEW t \in Tx, NEW c \in Commands, NEW place \in {"tree", "request", "lock"},
           NEW rows \in SUBSET Envelopes, Starting(t, c, place, rows),
           place = "tree" => c.kind = "move",
           place = "request" => c.kind = "decide",
           place = "lock" => c.kind \in {"submit", "dates"} /\ c.e \in rows
    PROVE  TreeInv'
<1> USE DEF Starting, Goto, lockVars, dataVars
<1>1. TypeOK'
  BY TreeAssumption DEF TreeInv, TypeOK
<1>2. ASSUME NEW u \in Tx \ {t} PROVE TxInv(u)'
  BY <1>2, OthersKeep DEF TreeInv, TypeOK
<1>3. TxInv(t)'
  BY CommandKinds DEF TxInv, MoveInv, DecideInv, Locking, TreeInv, TypeOK
<1>4. NoCycle'
  BY DEF TreeInv, NoCycle
<1>5. t \notin late
  BY DEF TreeInv, LateInv, TypeOK
<1>6. SetSuffices' /\ LateInv'
  BY <1>5 DEF TreeInv, SetSuffices, LateInv, TypeOK
<1> QED BY <1>1, <1>2, <1>3, <1>4, <1>6 DEF TreeInv

LEMMA UnderEnvelopes == ASSUME NEW e PROVE Under(e) \subseteq Envelopes
BY DEF Under

LEMMA SelfUnder == ASSUME NEW e \in Envelopes PROVE e \in Under(e)
BY DEF Under

LEMMA StartStep ==
    ASSUME TreeInv, NEW t \in Tx, Move(t) \/ Decide(t) \/ Submit(t) \/ ChangeDates(t)
    PROVE  TreeInv'
<1>1. CASE Move(t)
  <2>1. PICK e \in Envelopes, to \in Envelopes \cup {None} :
           Starting(t, [kind |-> "move", e |-> e, to |-> to, from |-> parent[e], open |-> FALSE],
                    "tree", {})
    BY <1>1 DEF Move
  <2>2. [kind |-> "move", e |-> e, to |-> to, from |-> parent[e], open |-> FALSE] \in Commands
    BY DEF Commands, Moves, TreeInv, TypeOK
  <2> QED BY <2>1, <2>2, StartingStep
<1>2. CASE Decide(t)
  <2>1. PICK e \in Envelopes, approves \in BOOLEAN :
           /\ asked[e] # None
           /\ Starting(t, [kind |-> "decide", e |-> e, approves |-> approves, bulk |-> asked[e].bulk],
                       "request", {})
    BY <1>2 DEF Decide
  <2>2. [kind |-> "decide", e |-> e, approves |-> approves, bulk |-> asked[e].bulk] \in Commands
    BY <2>1 DEF Commands, Decisions, Requests, TreeInv, TypeOK
  <2> QED BY <2>1, <2>2, StartingStep
<1>3. CASE Submit(t)
  <2>1. PICK e \in Envelopes, n \in Amounts, auto \in BOOLEAN :
           Starting(t, [kind |-> "submit", e |-> e, n |-> n, auto |-> auto], "lock", {e})
    BY <1>3 DEF Submit
  <2>2. [kind |-> "submit", e |-> e, n |-> n, auto |-> auto] \in Commands
    BY DEF Commands, Submissions
  <2> QED BY <2>1, <2>2, StartingStep
<1>4. CASE ChangeDates(t)
  <2>1. PICK e \in Envelopes :
           Starting(t, [kind |-> "dates", e |-> e], "lock", Under(e) \cup Parents(e))
    BY <1>4 DEF ChangeDates
  <2>2. [kind |-> "dates", e |-> e] \in Commands
    BY DEF Commands, DateChanges
  <2>3. Under(e) \cup Parents(e) \in SUBSET Envelopes /\ e \in Under(e)
    BY UnderEnvelopes, SelfUnder DEF Parents, TreeInv, TypeOK
  <2> QED BY <2>1, <2>2, <2>3, StartingStep
<1> QED BY <1>1, <1>2, <1>3, <1>4

LEMMA TreeLockStep ==
    ASSUME TreeInv, NEW t \in Tx, TreeLock(t)
    PROVE  TreeInv'
<1> DEFINE c == cmd[t]
           d == [c EXCEPT !.open = Single(c.e)]
           rows == {c.e} \cup ({c.from, c.to} \ {None})
<1>1. c \in Moves /\ cmd[t] # None
  BY CommandKinds DEF TreeLock, TreeInv, TypeOK, TxInv
<1>2. /\ d \in Moves /\ d.e = c.e /\ d.to = c.to /\ d.kind = "move" /\ d.open = Single(c.e)
      /\ d \in Commands /\ rows \in SUBSET Envelopes
  BY <1>1 DEF Moves, Single, Commands
<1>3. /\ cmd' = [cmd EXCEPT ![t] = d] /\ todo' = [todo EXCEPT ![t] = rows]
      /\ pc' = [pc EXCEPT ![t] = IF Single(c.e) THEN "request" ELSE "lock"]
      /\ treeLock = None /\ treeLock' = t
      /\ UNCHANGED <<dataVars, reqLock, envLock, late, stale>> /\ pc[t] = "tree"
  BY DEF TreeLock, Goto
<1> HIDE DEF c, d, rows
<1> USE DEF dataVars
<1>4. TypeOK'
  BY <1>1, <1>2, <1>3, TreeAssumption DEF TreeInv, TypeOK
<1>5. ASSUME NEW u \in Tx \ {t} PROVE TxInv(u)'
  BY <1>3, <1>5, TreeAssumption, OthersKeep DEF TreeInv, TypeOK
<1>6. TxInv(t)'
  <2>1. cmd'[t] = d /\ todo'[t] = rows /\ pc'[t] \in {"request", "lock"} /\ d # None
    BY <1>2, <1>3, TreeAssumption DEF TreeInv, TypeOK
  <2>2. d.open => pc'[t] = "request"
    BY <1>2, <1>3 DEF TreeInv, TypeOK
  <2>3. d.e \in rows
    BY <1>2 DEF rows
  <2> QED BY <1>2, <1>3, <2>1, <2>2, <2>3 DEF TxInv, MoveInv, DecideInv, Locking
<1>7. NoCycle' /\ LateInv'
  BY <1>2, <1>3, TreeAssumption DEF TreeInv, NoCycle, LateInv, TypeOK
<1>8. SetSuffices'
  <2>1. t \notin late
    BY <1>1 DEF c, TreeInv, SetSuffices, Moves
  <2> QED BY <1>3, <2>1 DEF TreeInv, SetSuffices, TypeOK
<1> QED BY <1>4, <1>5, <1>6, <1>7, <1>8 DEF TreeInv

LEMMA RequestLockStep ==
    ASSUME TreeInv, NEW t \in Tx, RequestLock(t)
    PROVE  TreeInv'
<1> DEFINE c == cmd[t]
<1> USE DEF dataVars
<1>1. /\ c # None /\ c \in Commands /\ c.kind \in {"move", "decide"} /\ c.e \in Envelopes
      /\ c.kind = "decide" => asked[c.e] # None /\ asked[c.e].bulk = c.bulk
  BY CommandKinds DEF RequestLock, TreeInv, TypeOK, TxInv
<1>2. /\ pc[t] = "request" /\ reqLock[c.e] = None /\ reqLock' = [reqLock EXCEPT ![c.e] = t]
      /\ todo' = IF c.kind = "decide"
                 THEN [todo EXCEPT ![t] = {c.e} \cup Parents(c.e)] ELSE todo
      /\ pc' = [pc EXCEPT ![t] = "lock"]
      /\ UNCHANGED <<dataVars, treeLock, envLock, cmd, late, stale>>
  BY DEF RequestLock, Goto
<1>3. TypeOK'
  <2>1. todo' \in [Tx -> SUBSET Envelopes]
    <3>1. Parents(c.e) \subseteq Envelopes
      BY <1>1 DEF Parents, TreeInv, TypeOK
    <3> QED BY <1>1, <1>2, <3>1 DEF TreeInv, TypeOK
  <2> HIDE DEF c
  <2>2. \A u \in Tx : pc'[u] = "done" <=> pc[u] = "done"
    BY <1>2 DEF TreeInv, TypeOK
  <2>3. \A u \in Tx \ {t}, e \in Envelopes : reqLock'[e] = u => reqLock[e] = u
    BY <1>1, <1>2 DEF TreeInv, TypeOK
  <2> QED BY <1>1, <1>2, <2>1, <2>2, <2>3 DEF TreeInv, TypeOK
<1>4. ASSUME NEW u \in Tx \ {t} PROVE TxInv(u)'
  BY <1>1, <1>2, <1>4, TreeAssumption, OthersKeep DEF TreeInv, TypeOK
<1>5. TxInv(t)'
  <2>1. CASE c.kind = "decide"
    BY <1>1, <1>2, <2>1 DEF TreeInv, TypeOK, TxInv, DecideInv, Locking, Parents
  <2>2. CASE c.kind = "move"
    BY <1>1, <1>2, <2>2 DEF TreeInv, TypeOK, TxInv, MoveInv, Locking
  <2> QED BY <1>1, <2>1, <2>2
<1>6. NoCycle' /\ LateInv' /\ SetSuffices'
  BY <1>2 DEF TreeInv, NoCycle, LateInv, SetSuffices
<1> QED BY <1>3, <1>4, <1>5, <1>6 DEF TreeInv

LEMMA RowLockStep ==
    ASSUME TreeInv, NEW t \in Tx, RowLock(t)
    PROVE  TreeInv'
<1> DEFINE x == NextRow(t)
<1> USE DEF dataVars
<1>1. /\ pc[t] = "lock" /\ envLock[x] = None /\ envLock' = [envLock EXCEPT ![x] = t]
      /\ todo' = [todo EXCEPT ![t] = @ \ {x}]
      /\ pc' = [pc EXCEPT ![t] = IF todo[t] = {x} THEN "held" ELSE "lock"]
      /\ UNCHANGED <<dataVars, treeLock, reqLock, cmd, late, stale>>
  BY DEF RowLock, Goto
<1> HIDE DEF x
<1>2. TypeOK'
  <2>1. pc' \in [Tx -> {"new", "tree", "request", "lock", "held", "checked", "done"}]
    BY <1>1 DEF TreeInv, TypeOK
  <2>2. /\ envLock' \in [Envelopes -> Tx \cup {None}]
        /\ todo' \in [Tx -> SUBSET Envelopes]
    BY <1>1 DEF TreeInv, TypeOK
  <2>3. \A u \in Tx : pc'[u] \in {"new", "done"} <=> cmd'[u] = None
    BY <1>1 DEF TreeInv, TypeOK
  <2>4. \A u \in Tx : pc'[u] = "done" => u # t /\ pc[u] = "done"
    BY <1>1 DEF TreeInv, TypeOK
  <2>5. \A u \in Tx \ {t}, e \in Envelopes : envLock'[e] = u => envLock[e] = u
    BY <1>1 DEF TreeInv, TypeOK
  <2> QED BY <1>1, <2>1, <2>2, <2>3, <2>4, <2>5 DEF TreeInv, TypeOK
<1>3. ASSUME NEW u \in Tx \ {t} PROVE TxInv(u)'
  BY <1>1, <1>3, TreeAssumption, OthersKeep DEF TreeInv, TypeOK
<1>4. todo[t] \cup Held(t) \subseteq (todo[t] \cup Held(t))'
  BY <1>1, TreeAssumption DEF Held, TreeInv, TypeOK
<1>5. TxInv(t)'
  <2>1. /\ pc'[t] \in {"held", "lock"} /\ (pc'[t] = "held" => todo'[t] = {})
        /\ cmd[t] # None => cmd[t] \in Commands
    BY <1>1 DEF TreeInv, TypeOK
  <2>2. Parents(cmd[t].e)' = Parents(cmd[t].e)
    BY <1>1 DEF Parents
  <2>3. TxInv(t)
    BY DEF TreeInv
  <2> QED BY <1>1, <1>4, <2>1, <2>2, <2>3, CommandKinds DEF TxInv, MoveInv, DecideInv, Locking
<1>6. NoCycle' /\ LateInv' /\ SetSuffices'
  BY <1>1 DEF TreeInv, NoCycle, LateInv, SetSuffices
<1> QED BY <1>2, <1>3, <1>5, <1>6 DEF TreeInv

\* A row is reached late by a submission, a date change or a bulk decision.
LEMMA ReachStep ==
    ASSUME TreeInv, NEW t \in Tx, Reach(t)
    PROVE  TreeInv'
<1> USE DEF dataVars, lockVars
<1>1. PICK x \in Reached(t) \ Held(t) :
        /\ todo' = [todo EXCEPT ![t] = {x}]
        /\ pc[t] = "held" /\ pc' = [pc EXCEPT ![t] = "lock"]
        /\ late' = late \cup {t}
        /\ UNCHANGED <<dataVars, lockVars, cmd, stale>>
  BY DEF Reach, Goto
<1>2. cmd[t] # None /\ cmd[t] \in Commands
  BY <1>1 DEF TreeInv, TypeOK
<1>3. /\ x \in Envelopes /\ cmd[t].kind \in {"decide", "submit", "dates"}
      /\ cmd[t].kind = "decide" => x \in Parents(cmd[t].e)
  <2>1. CASE cmd[t].kind = "decide"
    BY <1>1, <1>2, <2>1, CommandKinds DEF Reached, Parents, TreeInv, TypeOK
  <2>2. CASE cmd[t].kind = "submit"
    BY <1>1, <1>2, <2>2, CommandKinds DEF Reached, Parents, TreeInv, TypeOK
  <2>3. CASE cmd[t].kind = "dates"
    BY <1>1, <1>2, <2>3, UnderEnvelopes DEF Reached
  <2>4. CASE cmd[t].kind = "move"
    BY <1>1, <1>2, <2>4 DEF Reached
  <2> QED BY <1>2, <2>1, <2>2, <2>3, <2>4, CommandKinds
<1>4. cmd[t].kind = "decide" => cmd[t].bulk
  BY <1>1, <1>2, <1>3, CommandKinds DEF TreeInv, TxInv, DecideInv, Locking, Decisions
<1>5. TypeOK'
  BY <1>1, <1>3 DEF TreeInv, TypeOK
<1>6. ASSUME NEW u \in Tx \ {t} PROVE TxInv(u)'
  BY <1>1, <1>6, OthersKeep DEF TreeInv, TypeOK
<1>7. TxInv(t)'
  <2>1. TxInv(t) /\ pc'[t] = "lock" /\ todo[t] = {} /\ Held(t)' = Held(t)
    BY <1>1, <1>2 DEF TreeInv, TypeOK, TxInv, Held
  <2> QED BY <1>1, <1>2, <1>3, <1>4, <2>1, CommandKinds DEF TxInv, MoveInv, DecideInv, Locking
<1>8. NoCycle' /\ LateInv' /\ SetSuffices'
  BY <1>1, <1>2, <1>3, <1>4 DEF TreeInv, NoCycle, LateInv, SetSuffices
<1> QED BY <1>5, <1>6, <1>7, <1>8 DEF TreeInv

LEMMA CheckStep ==
    ASSUME TreeInv, NEW t \in Tx, Check(t)
    PROVE  TreeInv'
<1> USE DEF dataVars, lockVars
<1>1. /\ pc[t] = "held" /\ Valid(t) /\ pc' = [pc EXCEPT ![t] = "checked"]
      /\ UNCHANGED <<dataVars, lockVars, cmd, todo, late, stale>>
  BY DEF Check, Goto
<1>2. cmd[t] # None /\ cmd[t] \in Commands
  BY <1>1 DEF TreeInv, TypeOK
<1>3. /\ cmd[t].kind = "move" =>
            /\ Single(cmd[t].e) = cmd[t].open
            /\ cmd[t].to # None => cmd[t].to \notin Under(cmd[t].e)
      /\ cmd[t].kind = "submit" => asked[cmd[t].e] = None
  <2>1. CASE cmd[t].kind = "move"
    BY <1>1, <2>1 DEF Valid, Unchanged
  <2>2. CASE cmd[t].kind = "submit"
    BY <1>1, <2>2 DEF Valid
  <2> QED BY <2>1, <2>2
<1>4. TypeOK'
  BY <1>1 DEF TreeInv, TypeOK
<1>5. ASSUME NEW u \in Tx \ {t} PROVE TxInv(u)'
  BY <1>1, <1>5, OthersKeep DEF TreeInv, TypeOK
<1>6. TxInv(t)'
  <2>1. /\ TxInv(t) /\ pc'[t] = "checked" /\ Held(t)' = Held(t)
        /\ Under(cmd[t].e)' = Under(cmd[t].e) /\ Single(cmd[t].e)' = Single(cmd[t].e)
        /\ Parents(cmd[t].e)' = Parents(cmd[t].e)
    BY <1>1 DEF TreeInv, TypeOK, Held, Under, Closed, Single, Parents
  <2> QED BY <1>1, <1>2, <1>3, <2>1, CommandKinds DEF TxInv, MoveInv, DecideInv, Locking
<1>7. NoCycle' /\ LateInv' /\ SetSuffices'
  BY <1>1 DEF TreeInv, NoCycle, LateInv, SetSuffices
<1> QED BY <1>4, <1>5, <1>6, <1>7 DEF TreeInv

-----------------------------------------------------------------------------
(* Commits *)

\* A transaction ends: the types of its locks, of the commands and of the histories.
LEMMA EndTypes ==
    ASSUME TypeOK, NEW t \in Tx, NEW es, End(t, es),
           parent' \in [Envelopes -> Envelopes \cup {None}], amount' \in [Envelopes -> Nat],
           asked' \in [Envelopes -> Requests \cup {None}]
    PROVE  TypeOK'
<1>1. /\ treeLock' \in Tx \cup {None} /\ treeLock' # t
      /\ reqLock' \in [Envelopes -> Tx \cup {None}] /\ \A e \in Envelopes : reqLock'[e] # t
      /\ envLock' \in [Envelopes -> Tx \cup {None}] /\ \A e \in Envelopes : envLock'[e] # t
  BY TreeAssumption DEF End, Freed, TypeOK
<1>2. /\ \A u \in Tx : treeLock' = u => treeLock = u
      /\ \A u \in Tx, e \in Envelopes : reqLock'[e] = u => reqLock[e] = u
      /\ \A u \in Tx, e \in Envelopes : envLock'[e] = u => envLock[e] = u
  BY TreeAssumption DEF End, Freed, TypeOK
<1>3. /\ pc' = [pc EXCEPT ![t] = "done"] /\ cmd' = [cmd EXCEPT ![t] = None]
      /\ todo' = [todo EXCEPT ![t] = {}] /\ late' \subseteq Tx /\ stale' \subseteq Tx
  BY DEF End, Goto, TypeOK
<1> QED BY <1>1, <1>2, <1>3 DEF TypeOK

\* ... and what it leaves of another transaction.
LEMMA EndOthers ==
    ASSUME TypeOK, NEW t \in Tx, NEW es, End(t, es), NEW u \in Tx \ {t}
    PROVE  /\ pc'[u] = pc[u] /\ cmd'[u] = cmd[u] /\ todo'[u] = todo[u]
           /\ treeLock = u => treeLock' = u
           /\ \A e \in Envelopes : reqLock[e] = u => reqLock'[e] = u
           /\ \A e \in Envelopes : envLock[e] = u => envLock'[e] = u
           /\ Held(u) \subseteq Held(u)'
BY DEF End, Freed, Goto, TypeOK, Held

LEMMA EndHistories ==
    ASSUME TypeOK, NEW t \in Tx, NEW es, End(t, es), SetSuffices, LateInv
    PROVE  SetSuffices' /\ LateInv'
BY DEF End, Goto, TypeOK, SetSuffices, LateInv

LEMMA EndedTxInv ==
    ASSUME TypeOK, NEW t \in Tx, NEW es, End(t, es)
    PROVE  TxInv(t)'
BY DEF End, Goto, TypeOK, TxInv

\* What a transaction in its last step holds.
LEMMA Committed ==
    ASSUME TreeInv, NEW t \in Tx, pc[t] = "checked"
    PROVE  /\ cmd[t] # None /\ cmd[t] \in Commands /\ TxInv(t) /\ cmd[t].e \in Envelopes
           /\ envLock[cmd[t].e] = t
BY CommandKinds DEF TreeInv, TypeOK, TxInv, Locking, Held

LEMMA CommitMoveStep ==
    ASSUME TreeInv, NEW t \in Tx, CommitMove(t)
    PROVE  TreeInv'
<1> DEFINE c == cmd[t]
<1>1. /\ pc[t] = "checked" /\ c.kind = "move" /\ c \in Moves
      /\ parent' = [parent EXCEPT ![c.e] = c.to]
      /\ asked' = asked \/ (c.open /\ asked' = [asked EXCEPT ![c.e] = None])
      /\ End(t, {c.e}) /\ UNCHANGED amount
  BY Committed, CommandKinds DEF CommitMove, Committing
<1>2. /\ c.e \in Envelopes /\ c.to \in Envelopes \cup {None} /\ envLock[c.e] = t /\ treeLock = t
      /\ c.open => reqLock[c.e] = t
      /\ Single(c.e) => c.open
      /\ c.to # None => c.to \notin Under(c.e)
  BY <1>1, Committed DEF TxInv, MoveInv, Moves, Locking
<1> HIDE DEF c
<1>3. TypeOK'
  BY <1>1, <1>2, EndTypes DEF TreeInv, TypeOK
<1>4. NoCycle'
  BY <1>1, <1>2, MoveKeepsForest, TreeAssumption DEF TreeInv, TypeOK, NoCycle
<1>5. ASSUME NEW u \in Tx \ {t} PROVE TxInv(u)'
  <2> DEFINE d == cmd[u]
  <2> SUFFICES ASSUME d # None PROVE TxInv(u)'
    BY <1>1, <1>5, EndOthers DEF TreeInv, TxInv
  <2>1. d \in Commands /\ TxInv(u)
    BY <1>5 DEF TreeInv, TypeOK
  <2>2. /\ pc'[u] = pc[u] /\ cmd'[u] = d /\ todo'[u] = todo[u] /\ Held(u) \subseteq Held(u)'
        /\ \A e \in Envelopes : reqLock[e] = u => reqLock'[e] = u
    BY <1>1, <1>5, EndOthers DEF TreeInv
  <2>3. CASE d.kind = "move"
    <3>1. pc[u] = "tree"
      BY <1>2, <1>5, <2>1, <2>3 DEF TxInv, MoveInv
    <3> QED BY <2>2, <2>3, <3>1 DEF TxInv, MoveInv, Locking
  <2>4. CASE d.kind = "decide"
    <3>1. ASSUME pc[u] \in Locking PROVE DecideInv(u)'
      <4>1. /\ reqLock[d.e] = u /\ asked[d.e] # None /\ asked[d.e].bulk = d.bulk
            /\ ~ d.bulk => Parents(d.e) \subseteq todo[u] \cup Held(u)
            /\ d.e \in Envelopes
        BY <2>1, <2>4, <3>1, CommandKinds DEF TxInv, DecideInv
      <4>2. asked'[d.e] = asked[d.e]
        BY <1>1, <1>2, <1>5, <4>1 DEF TreeInv, TypeOK
      <4>3. ~ d.bulk => d.e # c.e
        BY <1>2, <1>5, <4>1 DEF Single
      <4>4. ~ d.bulk => Parents(d.e)' = Parents(d.e)
        BY <1>1, <2>2, <4>1, <4>3 DEF Parents, TreeInv, TypeOK
      <4> QED BY <2>2, <4>1, <4>2, <4>4 DEF DecideInv
    <3> QED BY <2>1, <2>2, <2>4, <3>1 DEF TxInv, DecideInv, Locking
  <2>5. CASE d.kind = "submit"
    <3>1. asked[d.e] = None => asked'[d.e] = None
      BY <1>1, <1>2, <2>1, CommandKinds DEF TreeInv, TypeOK
    <3> QED BY <2>1, <2>2, <2>5, <3>1 DEF TxInv, Locking
  <2>6. CASE d.kind = "dates"
    BY <2>1, <2>2, <2>6 DEF TxInv, Locking
  <2> QED BY <2>1, <2>3, <2>4, <2>5, <2>6, CommandKinds
<1>6. SetSuffices' /\ LateInv' /\ TxInv(t)'
  BY <1>1, EndHistories, EndedTxInv DEF TreeInv
<1> QED BY <1>3, <1>4, <1>5, <1>6 DEF TreeInv

\* A commit that moves nothing: it may take a request away that t has locked, or
\* open one where none was, under the lock of the envelope.
LEMMA OthersKeepAtCommit ==
    ASSUME TreeInv, NEW t \in Tx, NEW es, End(t, es), UNCHANGED parent, NEW e \in Envelopes,
           \A x \in Envelopes \ {e} : asked'[x] = asked[x],
           asked'[e] = asked[e] \/ (reqLock[e] = t /\ asked'[e] = None)
              \/ (envLock[e] = t /\ asked[e] = None),
           NEW u \in Tx \ {t}
    PROVE  TxInv(u)'
<1> DEFINE d == cmd[u]
<1> SUFFICES ASSUME d # None PROVE TxInv(u)'
  BY EndOthers DEF TreeInv, TxInv
<1>1. d \in Commands /\ TxInv(u) /\ d.e \in Envelopes
  BY CommandKinds DEF TreeInv, TypeOK
<1>2. /\ pc'[u] = pc[u] /\ cmd'[u] = d /\ todo'[u] = todo[u] /\ Held(u) \subseteq Held(u)'
      /\ treeLock = u => treeLock' = u
      /\ \A x \in Envelopes : reqLock[x] = u => reqLock'[x] = u
  BY EndOthers DEF TreeInv
<1>3. \A x \in Envelopes : Under(x)' = Under(x) /\ Parents(x)' = Parents(x)
  BY DEF Under, Closed, Parents
<1>4. pc[u] \in {"held", "checked"} => envLock[d.e] = u
  BY <1>1 DEF TxInv, Locking, Held
<1>5. CASE d.kind = "move"
  <2>1. pc[u] = "checked" => (Single(d.e)' => Single(d.e))
    BY <1>1, <1>2, <1>4 DEF Single
  <2> QED BY <1>1, <1>2, <1>3, <1>5, <2>1 DEF TxInv, MoveInv, Locking
<1>6. CASE d.kind = "decide"
  <2>1. pc[u] \in Locking => asked'[d.e] = asked[d.e]
    BY <1>1, <1>6 DEF TxInv, DecideInv
  <2> QED BY <1>1, <1>2, <1>3, <1>6, <2>1 DEF TxInv, DecideInv, Locking
<1>7. CASE d.kind = "submit"
  <2>1. (pc[u] = "checked" /\ asked[d.e] = None) => asked'[d.e] = None
    BY <1>1, <1>4
  <2> QED BY <1>1, <1>2, <1>7, <2>1 DEF TxInv, Locking
<1>8. CASE d.kind = "dates"
  BY <1>1, <1>2, <1>8 DEF TxInv, Locking
<1> QED BY <1>1, <1>5, <1>6, <1>7, <1>8, CommandKinds

LEMMA CommitDecideStep ==
    ASSUME TreeInv, NEW t \in Tx, CommitDecide(t)
    PROVE  TreeInv'
<1> DEFINE c == cmd[t]
<1>1. /\ pc[t] = "checked" /\ c.kind = "decide" /\ c \in Decisions /\ c.e \in Envelopes
      /\ amount' = IF c.approves THEN [amount EXCEPT ![c.e] = asked[c.e].n] ELSE amount
      /\ asked' = [asked EXCEPT ![c.e] = None] /\ UNCHANGED parent
  BY Committed, CommandKinds DEF CommitDecide, Committing
<1>2. PICK es : End(t, es)
  BY DEF CommitDecide
<1>3. reqLock[c.e] = t /\ asked[c.e] # None
  BY <1>1, Committed DEF TxInv, DecideInv, Locking
<1> HIDE DEF c
<1>4. TypeOK'
  <2>1. asked[c.e].n \in Nat
    BY <1>1, <1>3 DEF TreeInv, TypeOK, Requests
  <2>2. amount' \in [Envelopes -> Nat] /\ asked' \in [Envelopes -> Requests \cup {None}]
    BY <1>1, <2>1 DEF TreeInv, TypeOK
  <2> QED BY <1>1, <1>2, <2>2, EndTypes DEF TreeInv, TypeOK
<1>5. ASSUME NEW u \in Tx \ {t} PROVE TxInv(u)'
  <2>1. /\ \A x \in Envelopes \ {c.e} : asked'[x] = asked[x]
        /\ asked'[c.e] = None
    BY <1>1 DEF TreeInv, TypeOK
  <2> QED BY <1>1, <1>2, <1>3, <1>5, <2>1, OthersKeepAtCommit
<1>6. SetSuffices' /\ LateInv' /\ TxInv(t)'
  BY <1>2, EndHistories, EndedTxInv DEF TreeInv
<1>7. NoCycle'
  BY <1>1 DEF TreeInv, NoCycle
<1> QED BY <1>4, <1>5, <1>6, <1>7 DEF TreeInv

LEMMA CommitSubmitStep ==
    ASSUME TreeInv, NEW t \in Tx, CommitSubmit(t)
    PROVE  TreeInv'
<1> DEFINE c == cmd[t]
<1>1. /\ pc[t] = "checked" /\ c.kind = "submit" /\ c \in Submissions /\ c.e \in Envelopes
      /\ amount' = IF c.auto THEN [amount EXCEPT ![c.e] = c.n] ELSE amount
      /\ asked' = IF c.auto THEN asked
                  ELSE [asked EXCEPT ![c.e] = [n |-> c.n, bulk |-> FALSE]]
      /\ UNCHANGED parent
  BY Committed, CommandKinds DEF CommitSubmit, Committing
<1>2. PICK es : End(t, es)
  BY DEF CommitSubmit
<1>3. envLock[c.e] = t /\ asked[c.e] = None
  BY <1>1, Committed DEF TxInv
<1> HIDE DEF c
<1>4. TypeOK'
  <2>1. c.n \in Nat
    BY <1>1, TreeAssumption DEF Submissions
  <2>2. amount' \in [Envelopes -> Nat] /\ asked' \in [Envelopes -> Requests \cup {None}]
    BY <1>1, <2>1 DEF TreeInv, TypeOK, Requests
  <2> QED BY <1>1, <1>2, <2>2, EndTypes DEF TreeInv, TypeOK
<1>5. ASSUME NEW u \in Tx \ {t} PROVE TxInv(u)'
  <2>1. \A x \in Envelopes \ {c.e} : asked'[x] = asked[x]
    BY <1>1 DEF TreeInv, TypeOK
  <2> QED BY <1>1, <1>2, <1>3, <1>5, <2>1, OthersKeepAtCommit
<1>6. SetSuffices' /\ LateInv' /\ TxInv(t)'
  BY <1>2, EndHistories, EndedTxInv DEF TreeInv
<1>7. NoCycle'
  BY <1>1 DEF TreeInv, NoCycle
<1> QED BY <1>4, <1>5, <1>6, <1>7 DEF TreeInv

LEMMA EndOnlyStep ==
    ASSUME TreeInv, NEW t \in Tx, CommitDates(t) \/ Abort(t)
    PROVE  TreeInv'
<1>1. PICK es : End(t, es)
  BY DEF CommitDates, Abort
<1>2. UNCHANGED dataVars
  BY DEF CommitDates, Abort
<1>3. TypeOK' /\ NoCycle'
  BY <1>1, <1>2, EndTypes DEF TreeInv, TypeOK, NoCycle, dataVars
<1>4. ASSUME NEW u \in Tx \ {t} PROVE TxInv(u)'
  BY <1>1, <1>2, <1>4, EndOthers, OthersKeep DEF TreeInv
<1>5. SetSuffices' /\ LateInv' /\ TxInv(t)'
  BY <1>1, EndHistories, EndedTxInv DEF TreeInv
<1> QED BY <1>3, <1>4, <1>5 DEF TreeInv

LEMMA NextTreeInv == TreeInv /\ [Next]_vars => TreeInv'
<1> SUFFICES ASSUME TreeInv, [Next]_vars PROVE TreeInv'
  OBVIOUS
<1>1. CASE UNCHANGED vars
  <2>1. UNCHANGED <<dataVars, lockVars, pc, cmd, todo, late, stale>>
    BY <1>1 DEF vars
  <2>2. \A u \in Tx : TxInv(u)'
    BY <2>1, OthersKeep DEF TreeInv, lockVars
  <2> QED BY <2>1, <2>2 DEF TreeInv, TypeOK, NoCycle, SetSuffices, LateInv, dataVars, lockVars
<1>2. CASE Next
  BY <1>2, StartStep, TreeLockStep, RequestLockStep, RowLockStep, ReachStep, CheckStep,
     CommitMoveStep, CommitDecideStep, CommitSubmitStep, EndOnlyStep DEF Next
<1> QED BY <1>1, <1>2

LEMMA TreeInvHolds == Spec => []TreeInv
BY InitTreeInv, NextTreeInv, PTL DEF Spec

\* Whatever the tree, the transactions and their interleaving, rows, requests and
\* commands keep their types, and a transaction that ended holds no lock.
THEOREM TreeTypeCorrect == Spec => []TypeOK
<1>1. TreeInv => TypeOK
  BY DEF TreeInv
<1> QED BY <1>1, TreeInvHolds, PTL

\* Concurrent moves never make an envelope its own ancestor.
THEOREM TreeStaysForest == Spec => []NoCycle
<1>1. TreeInv => NoCycle
  BY DEF TreeInv
<1> QED BY <1>1, TreeInvHolds, PTL

\* Moves and decisions on one version lock no row outside the set they lock by id.
THEOREM SetsSuffice == Spec => []SetSuffices
<1>1. TreeInv => SetSuffices
  BY DEF TreeInv
<1> QED BY <1>1, TreeInvHolds, PTL

\* An envelope moves with its open request locked by the move.
THEOREM MovesHoldRequests == Spec => MovedWithRequest
<1>1. TreeInv /\ [Next]_vars =>
        [\A e \in Envelopes :
            (parent'[e] # parent[e] /\ Single(e)) =>
               reqLock[e] # None /\ cmd[reqLock[e]].kind = "move"]_vars
  <2> SUFFICES ASSUME TreeInv, Next, NEW e \in Envelopes, parent'[e] # parent[e], Single(e)
               PROVE  reqLock[e] # None /\ cmd[reqLock[e]].kind = "move"
    BY DEF vars
  <2>1. PICK t \in Tx : CommitMove(t)
    BY DEF Next, Move, Decide, Submit, ChangeDates, Starting, TreeLock, RequestLock, RowLock, Reach,
           Check, CommitDecide, CommitSubmit, CommitDates, Abort, dataVars
  <2>2. /\ pc[t] = "checked" /\ cmd[t].kind = "move" /\ cmd[t].e = e
    BY <2>1 DEF CommitMove, Committing, TreeInv, TypeOK
  <2>3. reqLock[e] = t
    BY <2>2, Committed DEF TxInv, MoveInv, Locking
  <2> QED BY <2>2, <2>3, TreeAssumption
<1> QED BY <1>1, TreeInvHolds, PTL DEF Spec, MovedWithRequest

-----------------------------------------------------------------------------
(* The order of the locks *)

\* A set of naturals has a least member, and one that is bounded a greatest.
LEMMA LeastNatural ==
    ASSUME NEW S \in SUBSET Nat, S # {}
    PROVE  \E x \in S : \A y \in S : x <= y
<1> DEFINE R == {r \in Nat \X Nat : r[1] < r[2]}
<1>1. IsWellFoundedOn(R, Nat)
  BY NatLessThanWellFounded DEF OpToRel
<1>2. PICK x \in S : \A y \in S : ~ (<<y, x>> \in R)
  BY <1>1, WFMin
<1>3. \A y \in S : x <= y
  <2> TAKE y \in S
  <2>1. x \in Nat /\ y \in Nat /\ <<y, x>> \in Nat \X Nat
    OBVIOUS
  <2>2. ~ (y < x)
    BY <1>2, <2>1
  <2> QED BY <2>1, <2>2
<1> QED BY <1>3

LEMMA GreatestNatural ==
    ASSUME NEW b \in Nat, NEW S \in SUBSET (0..b), S # {}
    PROVE  \E x \in S : \A y \in S : y <= x
<1> DEFINE D == {b - x : x \in S}
<1>1. D \in SUBSET Nat /\ D # {}
  <2>1. \A x \in S : b - x \in Nat
    OBVIOUS
  <2> QED BY <2>1
<1>2. PICK d \in D : \A y \in D : d <= y
  BY <1>1, LeastNatural
<1>3. PICK x \in S : d = b - x
  OBVIOUS
<1>4. \A y \in S : y <= x
  BY <1>2, <1>3
<1> QED BY <1>4

LEMMA NextRowLeast ==
    ASSUME TypeOK, NEW t \in Tx, todo[t] # {}
    PROVE  NextRow(t) \in todo[t] /\ \A y \in todo[t] : NextRow(t) <= y
<1>1. todo[t] \in SUBSET Nat
  <2>1. todo[t] \in SUBSET Envelopes
    BY DEF TypeOK
  <2>2. Envelopes \in SUBSET Nat
    BY TreeAssumption
  <2> QED BY <2>1, <2>2
<1> QED BY <1>1, LeastNatural DEF NextRow, Min

Ordered(t) == cmd[t] # None /\ cmd[t].kind # "submit" /\ t \notin late

\* Where a transaction is that holds a lock; and one in order locks upwards.
HoldInv(t) ==
    /\ treeLock = t => pc[t] \in Locking \cup {"request"}
    /\ \A e \in Envelopes : reqLock[e] = t => pc[t] \in Locking
    /\ \A e \in Envelopes : envLock[e] = t => pc[t] \in Locking
    /\ pc[t] = "lock" => todo[t] # {}
    /\ pc[t] = "lock" /\ Ordered(t) => \A h \in Held(t), y \in todo[t] : h < y

OrderInv == TreeInv /\ \A t \in Tx : HoldInv(t)

LEMMA OrderedNeverDeadlock ==
    ASSUME OrderInv
    PROVE  NoDeadlockInOrder
<1> USE TreeAssumption DEF OrderInv, TreeInv
<1> SUFFICES ASSUME NEW S \in SUBSET InOrder, S # {}, \A t \in S : Blocker(t) \in S PROVE FALSE
  BY DEF NoDeadlockInOrder
<1>1. \A t \in S : t \in Tx /\ t # None /\ Ordered(t) /\ HoldInv(t)
                 /\ cmd[t] \in Commands /\ cmd[t].e \in Envelopes
  BY CommandKinds DEF InOrder, Ordered, TypeOK
<1>2. \A t \in S : pc[t] \in {"tree", "request", "lock"}
  BY <1>1 DEF Blocker
<1> DEFINE T == {t \in S : pc[t] = "lock"}
<1>3. ASSUME NEW t \in S, pc[t] \in Locking PROVE t \in T
  BY <1>2, <1>3 DEF Locking
<1>4. ASSUME NEW t \in S, pc[t] = "request" PROVE T # {}
  <2>1. reqLock[cmd[t].e] \in S
    BY <1>4 DEF Blocker
  <2> QED BY <1>1, <1>3, <2>1 DEF HoldInv
<1>5. ASSUME NEW t \in S, pc[t] = "tree" PROVE T # {}
  <2>1. treeLock \in S
    BY <1>5 DEF Blocker
  <2>2. pc[treeLock] \in Locking \cup {"request"}
    BY <1>1, <2>1 DEF HoldInv
  <2> QED BY <1>3, <1>4, <2>1, <2>2
<1>6. T # {}
  BY <1>2, <1>4, <1>5
<1>7. \A t \in T : NextRow(t) \in todo[t] /\ NextRow(t) \in Envelopes
  BY <1>1, NextRowLeast DEF HoldInv, TypeOK
<1> DEFINE X == {NextRow(t) : t \in T}
<1>8. PICK m \in X : \A y \in X : y <= m
  <2>1. X \in SUBSET (0..LastId) /\ X # {}
    BY <1>6, <1>7
  <2> QED BY <2>1, GreatestNatural
<1>9. PICK t \in T : m = NextRow(t)
  OBVIOUS
<1>10. envLock[m] \in S /\ m \in Envelopes
  BY <1>7, <1>9 DEF Blocker
<1> DEFINE u == envLock[m]
<1>11. u \in T /\ m \in Held(u)
  BY <1>1, <1>3, <1>10 DEF HoldInv, Held
<1>12. m < NextRow(u)
  BY <1>1, <1>7, <1>11 DEF HoldInv
<1>13. NextRow(u) <= m /\ NextRow(u) \in Nat /\ m \in Nat
  BY <1>7, <1>8, <1>9, <1>11
<1> QED BY <1>12, <1>13

\* What a transaction does not take, it does not hold.
LEMMA HoldKeeps ==
    ASSUME NEW u \in Tx, HoldInv(u), pc'[u] = pc[u], cmd'[u] = cmd[u], todo'[u] = todo[u],
           u \in late' <=> u \in late,
           treeLock' = u => treeLock = u,
           \A e \in Envelopes : reqLock'[e] = u => reqLock[e] = u,
           \A e \in Envelopes : envLock'[e] = u => envLock[e] = u
    PROVE  HoldInv(u)'
<1>1. Held(u)' \subseteq Held(u)
  BY DEF Held
<1> QED BY <1>1 DEF HoldInv, Ordered, Locking

\* A transaction that ends, or begins, holds nothing.
LEMMA EndHolds ==
    ASSUME OrderInv, NEW t \in Tx, NEW es, End(t, es)
    PROVE  \A u \in Tx : HoldInv(u)'
<1>1. HoldInv(t)'
  BY TreeAssumption DEF End, Goto, Freed, HoldInv, OrderInv, TreeInv, TypeOK
<1>2. ASSUME NEW u \in Tx \ {t} PROVE HoldInv(u)'
  <2>1. /\ pc'[u] = pc[u] /\ cmd'[u] = cmd[u] /\ todo'[u] = todo[u] /\ (u \in late' <=> u \in late)
        /\ treeLock' = u => treeLock = u
        /\ \A e \in Envelopes : reqLock'[e] = u => reqLock[e] = u
        /\ \A e \in Envelopes : envLock'[e] = u => envLock[e] = u
    BY TreeAssumption DEF End, Goto, Freed, OrderInv, TreeInv, TypeOK
  <2> QED BY <1>2, <2>1, HoldKeeps DEF OrderInv
<1> QED BY <1>1, <1>2

LEMMA StartHolds ==
    ASSUME OrderInv, NEW t \in Tx, NEW c, NEW place \in {"tree", "request", "lock"}, NEW rows,
           Starting(t, c, place, rows), place = "lock" => rows # {}
    PROVE  \A u \in Tx : HoldInv(u)'
<1>1. HoldInv(t)'
  BY DEF Starting, Goto, lockVars, HoldInv, OrderInv, TreeInv, TypeOK, Locking, Held
<1>2. ASSUME NEW u \in Tx \ {t} PROVE HoldInv(u)'
  BY <1>2, HoldKeeps DEF Starting, Goto, lockVars, OrderInv, TreeInv, TypeOK
<1> QED BY <1>1, <1>2

LEMMA LockHolds ==
    ASSUME OrderInv, NEW t \in Tx, TreeLock(t) \/ RequestLock(t) \/ RowLock(t) \/ Reach(t) \/ Check(t)
    PROVE  \A u \in Tx : HoldInv(u)'
<1> USE DEF Goto, OrderInv, TreeInv, TypeOK, lockVars
<1>0. HoldInv(t) /\ (cmd[t] # None => cmd[t] \in Commands /\ cmd[t].e \in Envelopes)
  BY CommandKinds
<1>1. ASSUME NEW u \in Tx \ {t} PROVE HoldInv(u)'
  <2>1. u \in late' <=> u \in late
    BY <1>1 DEF TreeLock, RequestLock, RowLock, Reach, Check
  <2>2. /\ pc'[u] = pc[u] /\ cmd'[u] = cmd[u] /\ todo'[u] = todo[u]
        /\ treeLock' = u => treeLock = u
    BY <1>1, TreeAssumption DEF TreeLock, RequestLock, RowLock, Reach, Check
  <2>3. /\ \A e \in Envelopes : reqLock'[e] = u => reqLock[e] = u
        /\ \A e \in Envelopes : envLock'[e] = u => envLock[e] = u
    BY <1>1 DEF TreeLock, RequestLock, RowLock, Reach, Check
  <2> QED BY <1>1, <2>1, <2>2, <2>3, HoldKeeps
<1>2. CASE TreeLock(t)
  <2>1. /\ pc[t] = "tree" /\ pc'[t] \in {"request", "lock"} /\ todo'[t] # {} /\ treeLock' = t
        /\ UNCHANGED <<reqLock, envLock>>
    BY <1>2 DEF TreeLock
  <2>2. \A e \in Envelopes : envLock[e] # t /\ reqLock[e] # t
    BY <1>0, <2>1 DEF HoldInv, Locking
  <2>3. HoldInv(t)'
    BY <2>1, <2>2 DEF HoldInv, Locking, Held
  <2> QED BY <1>1, <2>3
<1>3. CASE RequestLock(t)
  <2>1. /\ pc[t] = "request" /\ pc'[t] = "lock" /\ UNCHANGED <<envLock, treeLock>>
        /\ cmd[t] # None
    BY <1>3 DEF RequestLock
  <2>2. todo'[t] # {}
    <3>1. CASE cmd[t].kind = "decide"
      BY <1>0, <1>3, <2>1, <3>1 DEF RequestLock
    <3>2. CASE cmd[t].kind = "move"
      BY <1>3, <2>1, <3>2 DEF RequestLock, TxInv, MoveInv
    <3> QED BY <2>1, <3>1, <3>2 DEF TxInv
  <2>3. \A e \in Envelopes : envLock[e] # t
    BY <1>0, <2>1 DEF HoldInv, Locking
  <2>4. HoldInv(t)'
    BY <2>1, <2>2, <2>3 DEF HoldInv, Locking, Held
  <2> QED BY <1>1, <2>4
<1>4. CASE RowLock(t)
  <2> DEFINE x == NextRow(t)
  <2>1. /\ pc[t] = "lock" /\ envLock' = [envLock EXCEPT ![x] = t]
        /\ todo' = [todo EXCEPT ![t] = @ \ {x}]
        /\ pc' = [pc EXCEPT ![t] = IF todo[t] = {x} THEN "held" ELSE "lock"]
        /\ UNCHANGED <<treeLock, reqLock, cmd, late>>
    BY <1>4 DEF RowLock
  <2>2. x \in todo[t] /\ x \in Envelopes /\ \A y \in todo[t] : x <= y
    BY <1>0, <2>1, NextRowLeast DEF HoldInv
  <2> HIDE DEF x
  <2>3. /\ todo'[t] = todo[t] \ {x} /\ pc'[t] \in {"held", "lock"}
        /\ pc'[t] = "lock" => todo'[t] # {}
        /\ Held(t)' = Held(t) \cup {x}
    BY <2>1, <2>2 DEF Held
  <2>4. Ordered(t)' => \A h \in Held(t)', y \in todo'[t] : h < y
    <3> SUFFICES ASSUME Ordered(t)', NEW h \in Held(t)', NEW y \in todo'[t] PROVE h < y
      OBVIOUS
    <3>0. todo[t] \subseteq Envelopes /\ \A e \in Envelopes : e \in Nat
      BY TreeAssumption DEF TreeInv, TypeOK
    <3>1. y \in todo[t] /\ x # y /\ x <= y /\ x \in Nat /\ y \in Nat
      BY <2>2, <2>3, <3>0
    <3>2. h = x \/ h \in Held(t)
      BY <2>3
    <3>3. h \in Held(t) => h < y
      BY <1>0, <2>1, <3>1 DEF HoldInv, Ordered
    <3> QED BY <3>1, <3>2, <3>3
  <2>5. HoldInv(t)'
    BY <1>0, <2>1, <2>3, <2>4 DEF HoldInv, Locking
  <2> QED BY <1>1, <2>5
<1>5. CASE Reach(t)
  <2>1. /\ pc[t] = "held" /\ pc'[t] = "lock" /\ todo'[t] # {} /\ t \in late'
        /\ UNCHANGED <<treeLock, reqLock, envLock>>
    BY <1>5 DEF Reach
  <2>2. HoldInv(t)'
    BY <1>0, <2>1 DEF HoldInv, Locking, Ordered
  <2> QED BY <1>1, <2>2
<1>6. CASE Check(t)
  <2>1. /\ pc[t] = "held" /\ pc'[t] = "checked" /\ UNCHANGED <<treeLock, reqLock, envLock>>
    BY <1>6 DEF Check
  <2>2. HoldInv(t)'
    BY <1>0, <2>1 DEF HoldInv, Locking
  <2> QED BY <1>1, <2>2
<1> QED BY <1>2, <1>3, <1>4, <1>5, <1>6

LEMMA InitOrderInv == Init => OrderInv
BY InitTreeInv, TreeAssumption DEF Init, OrderInv, HoldInv

LEMMA NextOrderInv == OrderInv /\ [Next]_vars => OrderInv'
<1> SUFFICES ASSUME OrderInv, [Next]_vars PROVE \A u \in Tx : HoldInv(u)'
  BY NextTreeInv DEF OrderInv
<1>1. CASE UNCHANGED vars
  BY <1>1, HoldKeeps DEF vars, lockVars, OrderInv
<1>2. ASSUME NEW t \in Tx, Move(t) \/ Decide(t) \/ Submit(t) \/ ChangeDates(t)
      PROVE  \A u \in Tx : HoldInv(u)'
  <2>1. ASSUME NEW e \in Envelopes PROVE Under(e) # {}
    BY <2>1, SelfUnder
  <2> QED BY <1>2, <2>1, StartHolds DEF Move, Decide, Submit, ChangeDates
<1>3. ASSUME NEW t \in Tx,
             CommitMove(t) \/ CommitDecide(t) \/ CommitSubmit(t) \/ CommitDates(t) \/ Abort(t)
      PROVE  \A u \in Tx : HoldInv(u)'
  BY <1>3, EndHolds DEF CommitMove, CommitDecide, CommitSubmit, CommitDates, Abort
<1> QED BY <1>1, <1>2, <1>3, LockHolds DEF Next

LEMMA OrderInvHolds == Spec => []OrderInv
BY InitOrderInv, NextOrderInv, PTL DEF Spec

\* Transactions that keep to the order never deadlock among themselves, for any
\* number of transactions and envelopes.
THEOREM NoOrderedDeadlock == Spec => []NoDeadlockInOrder
BY OrderedNeverDeadlock, OrderInvHolds, PTL
-----------------------------------------------------------------------------
(* The caps *)

\* A move locks the row it moves to, and what a transaction found under the locks
\* of the parent's row holds until it commits.
CapInv(t) ==
    LET c == cmd[t]
    IN  c # None =>
          /\ (c.kind = "move" /\ pc[t] \in Locking \cup {"request"}) =>
                (c.to # None => c.to \in todo[t] \cup Held(t))
          /\ (c.kind = "move" /\ pc[t] = "checked") => CapAllows(c.to, c.e, amount[c.e])
          /\ (c.kind = "decide" /\ c.approves /\ pc[t] = "checked") =>
                Parents(c.e) \subseteq Held(t) /\ CapAllows(parent[c.e], c.e, asked[c.e].n)
          /\ (c.kind = "submit" /\ c.auto /\ pc[t] = "checked") =>
                Parents(c.e) \subseteq Held(t) /\ CapAllows(parent[c.e], c.e, c.n)

TreeCapInv == TreeInv /\ \A t \in Tx : CapInv(t)

\* What t writes is under its locks: the row, and the parent of a row whose amount
\* is set, or where it is moved to.
WritesLocked(t) ==
    \A x \in Envelopes :
       /\ amount'[x] # amount[x] => envLock[x] = t /\ Parents(x) \subseteq Held(t)
       /\ parent'[x] # parent[x] =>
             envLock[x] = t /\ (parent'[x] # None => envLock[parent'[x]] = t)
       /\ asked'[x] # asked[x] => envLock[x] = t

LEMMA EnvelopesFinite == IsFiniteSet(Envelopes)
<1>1. 0 \in Int /\ LastId \in Int
  BY TreeAssumption
<1>2. IsFiniteSet(0..LastId)
  BY <1>1, FS_Interval
<1> QED BY <1>2, TreeAssumption, FS_Subset

\* Under the lock of the parent p, others leave the room under its cap.
LEMMA CapStays ==
    ASSUME TypeOK, TypeOK', NEW t \in Tx, NEW u \in Tx \ {t}, WritesLocked(t),
           NEW e \in Envelopes, NEW p \in Envelopes \cup {None}, NEW n \in Nat,
           p # None => envLock[p] = u,
           CapAllows(p, e, n)
    PROVE  CapAllows(p, e, n)'
<1> DEFINE S == {c \in Envelopes \ {e} : parent[c] = p}
           T == {c \in Envelopes \ {e} : parent'[c] = p}
<1> SUFFICES ASSUME p # None, amount'[p] # 0
             PROVE  SumFunctionOnSet(amount', T) + n <= amount'[p]
  BY DEF CapAllows
<1>1. p \in Envelopes /\ envLock[p] = u
  OBVIOUS
<1>2. amount'[p] = amount[p]
  BY <1>1 DEF WritesLocked
<1>3. T \subseteq S
  BY <1>1 DEF WritesLocked
<1>4. \A c \in T : amount'[c] = amount[c]
  <2> TAKE c \in T
  <2>1. parent[c] = p
    BY <1>3
  <2>2. p \in Parents(c) /\ p \notin Held(t)
    BY <1>1, <2>1 DEF Parents, Held
  <2> QED BY <2>2 DEF WritesLocked
<1>5. SumFunctionOnSet(amount, S) + n <= amount[p]
  BY <1>2 DEF CapAllows
<1>6. IsFiniteSet(S) /\ IsFiniteSet(T)
  BY EnvelopesFinite, FS_Subset
<1>7. \A c \in S : amount[c] \in Nat
  BY DEF TypeOK
<1>8. \A c \in T : amount[c] \in Nat
  BY DEF TypeOK
<1> HIDE DEF S, T
<1>9. SumFunctionOnSet(amount', T) = SumFunctionOnSet(amount, T)
  BY <1>4, <1>6, SumSame
<1>10. SumFunctionOnSet(amount, T) <= SumFunctionOnSet(amount, S)
  BY <1>3, <1>6, <1>7, SumOfPart
<1>11. SumFunctionOnSet(amount, S) \in Nat /\ SumFunctionOnSet(amount, T) \in Nat
  BY <1>6, <1>7, <1>8, SumType
<1>12. amount[p] \in Nat
  BY <1>1 DEF TypeOK
<1>13. \A a, b, m \in Nat : a <= b /\ b + n <= m => a + n <= m
  OBVIOUS
<1> QED BY <1>2, <1>5, <1>9, <1>10, <1>11, <1>12, <1>13

LEMMA CapOthers ==
    ASSUME TreeInv, TreeInv', NEW t \in Tx, NEW u \in Tx \ {t}, CapInv(u), WritesLocked(t),
           pc'[u] = pc[u], cmd'[u] = cmd[u], todo'[u] = todo[u], Held(u) \subseteq Held(u)'
    PROVE  CapInv(u)'
<1> DEFINE c == cmd[u]
<1> SUFFICES ASSUME c # None PROVE CapInv(u)'
  BY DEF CapInv
<1>1. c \in Commands /\ c.e \in Envelopes /\ TypeOK /\ TypeOK' /\ TxInv(u)
  BY CommandKinds DEF TreeInv, TypeOK
<1>2. ASSUME pc[u] = "checked"
      PROVE  /\ envLock[c.e] = u /\ parent'[c.e] = parent[c.e] /\ asked'[c.e] = asked[c.e]
             /\ amount'[c.e] = amount[c.e] /\ Parents(c.e)' = Parents(c.e)
  <2>1. envLock[c.e] = u
    BY <1>2, Committed
  <2> QED BY <1>1, <2>1 DEF WritesLocked, Parents
<1>3. \A p \in Envelopes \cup {None}, n \in Nat :
         (p # None => envLock[p] = u) /\ CapAllows(p, c.e, n) => CapAllows(p, c.e, n)'
  <2>1. PICK e \in Envelopes : e = c.e
    BY <1>1
  <2> TAKE p \in Envelopes \cup {None}, n \in Nat
  <2>2. (p # None => envLock[p] = u) /\ CapAllows(p, e, n) => CapAllows(p, e, n)'
    BY <1>1, CapStays
  <2>3. c' = c
    OBVIOUS
  <2> QED BY <2>1, <2>2, <2>3
<1>4. c' = c /\ pc'[u] = pc[u] /\ todo[u] \cup Held(u) \subseteq todo'[u] \cup Held(u)'
  OBVIOUS
<1>5. CASE c.kind = "move"
  <2>1. c.to \in Envelopes \cup {None} /\ amount[c.e] \in Nat
    BY <1>1, <1>5, CommandKinds DEF Moves, TypeOK
  <2>2. pc[u] = "checked" => (c.to # None => envLock[c.to] = u)
    BY <1>1, <1>5, <2>1 DEF CapInv, TxInv, Locking, Held
  <2>3. pc[u] = "checked" => CapAllows(c.to, c.e, amount[c.e])'
    BY <1>2, <1>3, <1>4, <1>5, <2>1, <2>2 DEF CapInv
  <2> QED BY <1>4, <1>5, <2>3 DEF CapInv
<1>6. CASE c.kind = "decide"
  <2>1. pc[u] = "checked" => parent[c.e] \in Envelopes \cup {None} /\ asked[c.e].n \in Nat
    BY <1>1, <1>6 DEF TxInv, DecideInv, Locking, TypeOK, Requests
  <2>2. c.approves /\ pc[u] = "checked" => (parent[c.e] # None => envLock[parent[c.e]] = u)
    BY <1>6 DEF CapInv, Held, Parents
  <2>3. c.approves /\ pc[u] = "checked" => CapAllows(parent[c.e], c.e, asked[c.e].n)'
    BY <1>2, <1>3, <1>4, <1>6, <2>1, <2>2 DEF CapInv
  <2>4. c.approves /\ pc[u] = "checked" => Parents(c.e)' \subseteq Held(u)'
    BY <1>2, <1>6 DEF CapInv
  <2> QED BY <1>4, <1>6, <2>3, <2>4 DEF CapInv
<1>7. CASE c.kind = "submit"
  <2>1. parent[c.e] \in Envelopes \cup {None} /\ c.n \in Nat
    BY <1>1, <1>7, CommandKinds, TreeAssumption DEF Submissions, TypeOK
  <2>2. c.auto /\ pc[u] = "checked" => (parent[c.e] # None => envLock[parent[c.e]] = u)
    BY <1>7 DEF CapInv, Held, Parents
  <2>3. c.auto /\ pc[u] = "checked" => CapAllows(parent[c.e], c.e, c.n)'
    BY <1>2, <1>3, <1>4, <1>7, <2>1, <2>2 DEF CapInv
  <2>4. c.auto /\ pc[u] = "checked" => Parents(c.e)' \subseteq Held(u)'
    BY <1>2, <1>7 DEF CapInv
  <2> QED BY <1>4, <1>7, <2>3, <2>4 DEF CapInv
<1>8. CASE c.kind = "dates"
  BY <1>4, <1>8 DEF CapInv
<1> QED BY <1>1, <1>5, <1>6, <1>7, <1>8, CommandKinds

\* Every write is under its locks.
LEMMA CommitsWriteLocked ==
    ASSUME TreeInv, NEW t \in Tx, CapInv(t),
           CommitMove(t) \/ CommitDecide(t) \/ CommitSubmit(t)
    PROVE  WritesLocked(t)
<1> DEFINE c == cmd[t]
<1>1. pc[t] = "checked"
  BY DEF CommitMove, CommitDecide, CommitSubmit, Committing
<1>2. c # None /\ c \in Commands /\ c.e \in Envelopes /\ envLock[c.e] = t /\ TxInv(t) /\ TypeOK
  BY <1>1, Committed DEF TreeInv
<1>3. CASE CommitMove(t)
  <2>1. /\ c.kind = "move" /\ parent' = [parent EXCEPT ![c.e] = c.to] /\ UNCHANGED amount
        /\ asked' = asked \/ asked' = [asked EXCEPT ![c.e] = None]
    BY <1>3 DEF CommitMove, Committing
  <2>2. c.to # None => envLock[c.to] = t
    BY <1>1, <1>2, <2>1 DEF CapInv, TxInv, Locking, Held
  <2> QED BY <1>2, <2>1, <2>2 DEF WritesLocked, TypeOK
<1>4. CASE CommitDecide(t)
  <2>1. /\ c.kind = "decide" /\ UNCHANGED parent /\ asked' = [asked EXCEPT ![c.e] = None]
        /\ amount' = IF c.approves THEN [amount EXCEPT ![c.e] = asked[c.e].n] ELSE amount
    BY <1>4 DEF CommitDecide, Committing
  <2>2. c.approves => Parents(c.e) \subseteq Held(t)
    BY <1>1, <1>2, <2>1 DEF CapInv
  <2> QED BY <1>2, <2>1, <2>2 DEF WritesLocked, TypeOK
<1>5. CASE CommitSubmit(t)
  <2>1. /\ c.kind = "submit" /\ UNCHANGED parent
        /\ amount' = IF c.auto THEN [amount EXCEPT ![c.e] = c.n] ELSE amount
        /\ asked' = IF c.auto THEN asked
                    ELSE [asked EXCEPT ![c.e] = [n |-> c.n, bulk |-> FALSE]]
    BY <1>5 DEF CommitSubmit, Committing
  <2>2. c.auto => Parents(c.e) \subseteq Held(t)
    BY <1>1, <1>2, <2>1 DEF CapInv
  <2> QED BY <1>2, <2>1, <2>2 DEF WritesLocked, TypeOK
<1> QED BY <1>3, <1>4, <1>5

LEMMA StillWritesLocked ==
    ASSUME UNCHANGED dataVars, NEW t \in Tx PROVE WritesLocked(t)
BY DEF dataVars, WritesLocked

\* A step of t leaves what the others found.
LEMMA CapOthersAtStep ==
    ASSUME TreeCapInv, TreeInv', NEW t \in Tx, NEW u \in Tx \ {t},
           \/ Move(t) \/ Decide(t) \/ Submit(t) \/ ChangeDates(t)
           \/ TreeLock(t) \/ RequestLock(t) \/ RowLock(t) \/ Reach(t) \/ Check(t)
           \/ CommitMove(t) \/ CommitDecide(t) \/ CommitSubmit(t) \/ CommitDates(t) \/ Abort(t)
    PROVE  CapInv(u)'
<1> USE DEF TreeCapInv
<1>1. CASE Move(t) \/ Decide(t) \/ Submit(t) \/ ChangeDates(t)
  <2>1. PICK c, place, rows : Starting(t, c, place, rows)
    BY <1>1 DEF Move, Decide, Submit, ChangeDates
  <2>2. /\ UNCHANGED dataVars /\ UNCHANGED envLock
        /\ pc'[u] = pc[u] /\ cmd'[u] = cmd[u] /\ todo'[u] = todo[u]
    BY <2>1 DEF Starting, Goto, lockVars, TreeInv, TypeOK
  <2>3. Held(u)' = Held(u)
    BY <2>2 DEF Held
  <2> QED BY <2>2, <2>3, StillWritesLocked, CapOthers
<1>2. CASE TreeLock(t) \/ RequestLock(t) \/ RowLock(t) \/ Reach(t) \/ Check(t)
  <2>1. UNCHANGED dataVars
    BY <1>2 DEF TreeLock, RequestLock, RowLock, Reach, Check
  <2>2. pc'[u] = pc[u] /\ cmd'[u] = cmd[u] /\ todo'[u] = todo[u]
    BY <1>2 DEF TreeLock, RequestLock, RowLock, Reach, Check, Goto, TreeInv, TypeOK
  <2>3. \A e \in Envelopes : envLock[e] = u => envLock'[e] = u
    BY <1>2, TreeAssumption
       DEF TreeLock, RequestLock, RowLock, Reach, Check, lockVars, TreeInv, TypeOK
  <2>4. Held(u) \subseteq Held(u)'
    BY <2>3 DEF Held
  <2> QED BY <2>1, <2>2, <2>4, StillWritesLocked, CapOthers
<1>3. CASE CommitMove(t) \/ CommitDecide(t) \/ CommitSubmit(t) \/ CommitDates(t) \/ Abort(t)
  <2>1. PICK es : End(t, es)
    BY <1>3 DEF CommitMove, CommitDecide, CommitSubmit, CommitDates, Abort
  <2>2. WritesLocked(t)
    BY <1>3, CommitsWriteLocked, StillWritesLocked DEF CommitDates, Abort
  <2> QED BY <2>1, <2>2, EndOthers, CapOthers DEF TreeInv
<1> QED BY <1>1, <1>2, <1>3

\* The transaction that steps: it locks the row it moves to, and checks the cap
\* under the lock of the parent.
LEMMA CapOwnStep ==
    ASSUME TreeCapInv, TreeInv', NEW t \in Tx,
           \/ Move(t) \/ Decide(t) \/ Submit(t) \/ ChangeDates(t)
           \/ TreeLock(t) \/ RequestLock(t) \/ RowLock(t) \/ Reach(t) \/ Check(t)
           \/ CommitMove(t) \/ CommitDecide(t) \/ CommitSubmit(t) \/ CommitDates(t) \/ Abort(t)
    PROVE  CapInv(t)'
<1> DEFINE c == cmd[t]
<1>0. /\ TypeOK /\ TypeOK' /\ TxInv(t) /\ CapInv(t)
      /\ c # None => c \in Commands /\ c.e \in Envelopes
  BY CommandKinds DEF TreeCapInv, TreeInv, TypeOK
<1>1. CASE Move(t) \/ Decide(t) \/ Submit(t) \/ ChangeDates(t)
  <2>1. pc'[t] = "tree" \/ cmd'[t].kind # "move"
    BY <1>0, <1>1 DEF Move, Decide, Submit, ChangeDates, Starting, Goto, TypeOK
  <2>2. pc'[t] \in {"tree", "request", "lock"}
    BY <1>0, <1>1 DEF Move, Decide, Submit, ChangeDates, Starting, Goto, TypeOK
  <2> QED BY <2>1, <2>2 DEF CapInv, Locking
<1>2. CASE TreeLock(t)
  <2>1. /\ todo'[t] = {c.e} \cup ({c.from, c.to} \ {None}) /\ cmd'[t].to = c.to
        /\ pc'[t] \in {"request", "lock"} /\ cmd'[t].kind = "move"
    <3>1. c # None /\ c.kind = "move" /\ c \in Moves
      BY <1>0, <1>2, CommandKinds DEF TreeLock, TxInv, TypeOK
    <3> QED BY <1>0, <1>2, <3>1 DEF TreeLock, Goto, TypeOK, Moves
  <2> QED BY <2>1 DEF CapInv
<1>3. CASE RequestLock(t)
  <2>1. /\ pc[t] = "request" /\ pc'[t] = "lock" /\ cmd'[t] = c /\ UNCHANGED envLock
        /\ c.kind = "move" => todo'[t] = todo[t]
    BY <1>0, <1>3 DEF RequestLock, Goto, TypeOK
  <2>2. Held(t)' = Held(t)
    BY <2>1 DEF Held
  <2> QED BY <1>0, <2>1, <2>2 DEF CapInv
<1>4. CASE RowLock(t)
  <2>1. /\ pc[t] = "lock" /\ pc'[t] \in {"lock", "held"} /\ cmd'[t] = c
        /\ todo'[t] = todo[t] \ {NextRow(t)} /\ envLock' = [envLock EXCEPT ![NextRow(t)] = t]
        /\ envLock[NextRow(t)] = None
    BY <1>0, <1>4 DEF RowLock, Goto, TypeOK
  <2>2. \A x \in Envelopes : x \in todo[t] \cup Held(t) => x \in todo'[t] \cup Held(t)'
    BY <1>0, <2>1, TreeAssumption DEF Held, TypeOK
  <2>3. todo[t] \cup Held(t) \subseteq Envelopes
    BY <1>0 DEF TypeOK, Held
  <2> QED BY <1>0, <2>1, <2>2, <2>3 DEF CapInv, Locking
<1>5. CASE Reach(t)
  <2>1. pc'[t] = "lock" /\ cmd'[t] = c /\ pc[t] = "held" /\ Reached(t) # {}
    BY <1>0, <1>5 DEF Reach, Goto, TypeOK
  <2>2. c.kind # "move"
    BY <2>1 DEF Reached
  <2> QED BY <2>1, <2>2 DEF CapInv
<1>6. CASE Check(t)
  <2>1. /\ pc[t] = "held" /\ pc'[t] = "checked" /\ cmd'[t] = c /\ UNCHANGED <<dataVars, envLock, todo>>
        /\ Reached(t) \subseteq Held(t) /\ Valid(t)
    BY <1>0, <1>6 DEF Check, Goto, TypeOK, lockVars
  <2>2. Held(t)' = Held(t) /\ UNCHANGED <<parent, amount, asked>>
    BY <2>1 DEF Held, dataVars
  <2>3. CASE c.kind = "move"
    <3>1. CapAllows(c.to, c.e, amount[c.e])
      BY <2>1, <2>3 DEF Valid
    <3> QED BY <1>0, <2>1, <2>2, <2>3, <3>1 DEF CapInv, Locking, CapAllows
  <2>4. CASE c.kind = "decide"
    <3>1. c.approves => CapAllows(parent[c.e], c.e, asked[c.e].n) /\ Parents(c.e) \subseteq Held(t)
      BY <2>1, <2>4 DEF Valid, Reached
    <3> QED BY <2>1, <2>2, <2>4, <3>1 DEF CapInv, CapAllows, Parents
  <2>5. CASE c.kind = "submit"
    <3>1. c.auto => CapAllows(parent[c.e], c.e, c.n) /\ Parents(c.e) \subseteq Held(t)
      BY <2>1, <2>5 DEF Valid, Reached
    <3> QED BY <2>1, <2>2, <2>5, <3>1 DEF CapInv, CapAllows, Parents
  <2>6. CASE c.kind = "dates"
    BY <2>1, <2>6 DEF CapInv
  <2>7. c # None
    BY <1>0, <2>1 DEF TypeOK
  <2> QED BY <1>0, <2>3, <2>4, <2>5, <2>6, <2>7, CommandKinds
<1>7. CASE CommitMove(t) \/ CommitDecide(t) \/ CommitSubmit(t) \/ CommitDates(t) \/ Abort(t)
  <2>1. cmd'[t] = None
    BY <1>0, <1>7 DEF CommitMove, CommitDecide, CommitSubmit, CommitDates, Abort, End, TypeOK
  <2> QED BY <2>1 DEF CapInv
<1> QED BY <1>1, <1>2, <1>3, <1>4, <1>5, <1>6, <1>7

LEMMA InitTreeCapInv == Init => TreeCapInv
BY InitTreeInv DEF Init, TreeCapInv, CapInv

LEMMA NextTreeCapInv == TreeCapInv /\ [Next]_vars => TreeCapInv'
<1> SUFFICES ASSUME TreeCapInv, [Next]_vars PROVE TreeCapInv'
  OBVIOUS
<1>1. TreeInv'
  BY NextTreeInv DEF TreeCapInv
<1>2. CASE UNCHANGED vars
  <2>1. \A u \in Tx : CapInv(u)'
    BY <1>2 DEF vars, dataVars, lockVars, TreeCapInv, CapInv, CapAllows, Parents, Held
  <2> QED BY <1>1, <2>1 DEF TreeCapInv
<1>3. CASE Next
  <2>1. PICK t \in Tx :
           \/ Move(t) \/ Decide(t) \/ Submit(t) \/ ChangeDates(t)
           \/ TreeLock(t) \/ RequestLock(t) \/ RowLock(t) \/ Reach(t) \/ Check(t)
           \/ CommitMove(t) \/ CommitDecide(t) \/ CommitSubmit(t) \/ CommitDates(t) \/ Abort(t)
    BY <1>3 DEF Next
  <2>2. CapInv(t)'
    BY <1>1, <2>1, CapOwnStep
  <2>3. \A u \in Tx \ {t} : CapInv(u)'
    BY <1>1, <2>1, CapOthersAtStep
  <2> QED BY <1>1, <2>2, <2>3 DEF TreeCapInv
<1> QED BY <1>2, <1>3

LEMMA TreeCapInvHolds == Spec => []TreeCapInv
BY InitTreeCapInv, NextTreeCapInv, PTL DEF Spec

\* A family with n for e is at most its parent's amount, or is what it was.
LEMMA TotalWith ==
    ASSUME NEW S, NEW now, IsFiniteSet(S), \A x \in S : now[x] \in Nat, NEW e \in S, NEW b \in Nat,
           SumFunctionOnSet(now, S \ {e}) + now[e] <= b
    PROVE  SumFunctionOnSet(now, S) <= b
<1>1. SumFunctionOnSet(now, S) = now[e] + SumFunctionOnSet(now, S \ {e})
  BY SumWithout
<1>2. now[e] \in Nat
  OBVIOUS
<1>3. SumFunctionOnSet(now, S \ {e}) \in Nat
  <2> DEFINE T == S \ {e}
  <2>1. IsFiniteSet(T) /\ \A x \in T : now[x] \in Nat
    BY FS_RemoveElement
  <2> HIDE DEF T
  <2>2. SumFunctionOnSet(now, T) \in Nat
    BY <2>1, SumType
  <2> QED BY <2>2 DEF T
<1>4. \A m, n \in Nat : n + m <= b => m + n <= b
  OBVIOUS
<1> QED BY <1>1, <1>2, <1>3, <1>4

\* A step that takes children away, and changes no amount of those that stay, adds
\* nothing to a family.
LEMMA FamilyShrinks ==
    ASSUME TypeOK, TypeOK', NEW p \in Envelopes,
           \A c \in Envelopes : parent'[c] = p => parent[c] = p /\ amount'[c] = amount[c]
    PROVE  Total(p)' <= Total(p)
<1> DEFINE S == {c \in Envelopes : parent[c] = p}
           T == {c \in Envelopes : parent'[c] = p}
<1>1. T \in SUBSET S /\ \A c \in T : amount'[c] = amount[c]
  OBVIOUS
<1>2. IsFiniteSet(S) /\ IsFiniteSet(T) /\ \A c \in S : amount[c] \in Nat
  BY EnvelopesFinite, FS_Subset DEF TypeOK
<1>3. Total(p) = SumFunctionOnSet(amount, S) /\ Total(p)' = SumFunctionOnSet(amount', T)
  BY DEF Total
<1> HIDE DEF S, T
<1>4. SumFunctionOnSet(amount', T) = SumFunctionOnSet(amount, T)
  BY <1>1, <1>2, SumSame
<1>5. SumFunctionOnSet(amount, T) <= SumFunctionOnSet(amount, S)
  BY <1>1, <1>2, SumOfPart
<1> QED BY <1>3, <1>4, <1>5

\* A step that adds, or re-approves, one child e for which the cap left room.
LEMMA FamilyFits ==
    ASSUME TypeOK, TypeOK', NEW p \in Envelopes, NEW e \in Envelopes,
           amount'[p] = amount[p], amount'[p] # 0, CapAllows(p, e, amount'[e]), parent'[e] = p,
           \A c \in Envelopes \ {e} : (parent'[c] = p <=> parent[c] = p) /\ amount'[c] = amount[c]
    PROVE  Total(p)' <= amount'[p]
<1> DEFINE S == {c \in Envelopes \ {e} : parent[c] = p}
           T == {c \in Envelopes : parent'[c] = p}
<1>1. e \in T /\ T \ {e} = S /\ \A c \in S : amount'[c] = amount[c]
  OBVIOUS
<1>2. IsFiniteSet(S) /\ IsFiniteSet(T) /\ \A c \in T : amount'[c] \in Nat
  BY EnvelopesFinite, FS_Subset DEF TypeOK
<1>3. p # None
  BY TreeAssumption
<1>4. SumFunctionOnSet(amount, S) + amount'[e] <= amount'[p]
  BY <1>3 DEF CapAllows
<1>5. Total(p)' = SumFunctionOnSet(amount', T) /\ amount'[p] \in Nat
  BY DEF Total, TypeOK
<1> HIDE DEF S, T
<1>6. SumFunctionOnSet(amount', S) = SumFunctionOnSet(amount, S)
  BY <1>1, <1>2, SumSame
<1>7. SumFunctionOnSet(amount', T \ {e}) + amount'[e] <= amount'[p]
  BY <1>1, <1>4, <1>6
<1>8. SumFunctionOnSet(amount', T) <= amount'[p]
  BY <1>1, <1>2, <1>5, <1>7, TotalWith
<1> QED BY <1>5, <1>8

\* The cap holds however approvals and moves into a family interleave: it outgrows
\* its parent's approved amount only when that amount is lowered itself.
THEOREM FamiliesStayInCap == Spec => CapKept
<1> DEFINE A(p) == (amount'[p] # 0 /\ amount'[p] = amount[p] /\ Total(p)' > amount'[p]) =>
                      Total(p)' <= Total(p)
<1>1. ASSUME TreeCapInv, TreeCapInv', [Next]_vars, NEW p \in Envelopes PROVE A(p)
  <2> SUFFICES ASSUME amount'[p] # 0, amount'[p] = amount[p], Total(p)' > amount'[p]
               PROVE  Total(p)' <= Total(p)
    OBVIOUS
  <2>0. TypeOK /\ TypeOK' /\ amount'[p] \in Nat
    BY <1>1 DEF TreeCapInv, TreeInv, TypeOK
  <2>1. Total(p)' \in Nat
    <3> DEFINE T == {c \in Envelopes : parent'[c] = p}
    <3>1. IsFiniteSet(T) /\ \A c \in T : amount'[c] \in Nat
      BY <2>0, EnvelopesFinite, FS_Subset DEF TypeOK
    <3> HIDE DEF T
    <3>2. SumFunctionOnSet(amount', T) \in Nat
      BY <3>1, SumType
    <3> QED BY <3>2 DEF Total, T
  <2>2. ~ (Total(p)' <= amount'[p])
    <3>1. \A m, n \in Nat : m > n => ~ (m <= n)
      OBVIOUS
    <3> QED BY <2>0, <2>1, <3>1
  <2>3. CASE UNCHANGED dataVars
    BY <2>0, <2>3, FamilyShrinks DEF dataVars
  <2>4. ASSUME NEW t \in Tx, CommitMove(t) PROVE Total(p)' <= Total(p)
    <3> DEFINE c == cmd[t]
    <3>1. /\ pc[t] = "checked" /\ c.kind = "move" /\ c \in Moves /\ CapInv(t) /\ c # None
          /\ parent' = [parent EXCEPT ![c.e] = c.to] /\ UNCHANGED amount
      BY <1>1, <2>4, Committed, CommandKinds DEF CommitMove, Committing, TreeCapInv
    <3>2. CapAllows(c.to, c.e, amount[c.e]) /\ c.e \in Envelopes
      BY <3>1 DEF CapInv, Moves
    <3>3. CASE c.to = p
      BY <2>0, <2>2, <3>1, <3>2, <3>3, FamilyFits DEF TypeOK
    <3>4. CASE c.to # p
      BY <2>0, <3>1, <3>2, <3>4, FamilyShrinks DEF TypeOK
    <3> QED BY <3>3, <3>4
  <2>5. ASSUME NEW e \in Envelopes, UNCHANGED parent,
               \A c \in Envelopes \ {e} : amount'[c] = amount[c],
               CapAllows(parent[e], e, amount'[e])
        PROVE  Total(p)' <= Total(p)
    <3>1. CASE parent[e] = p
      BY <2>0, <2>2, <2>5, <3>1, FamilyFits
    <3>2. CASE parent[e] # p
      BY <2>0, <2>5, <3>2, FamilyShrinks
    <3> QED BY <3>1, <3>2
  <2>6. ASSUME NEW t \in Tx, CommitDecide(t) PROVE Total(p)' <= Total(p)
    <3> DEFINE c == cmd[t]
    <3>1. /\ pc[t] = "checked" /\ c.kind = "decide" /\ c.e \in Envelopes /\ CapInv(t) /\ c # None
          /\ amount' = IF c.approves THEN [amount EXCEPT ![c.e] = asked[c.e].n] ELSE amount
          /\ UNCHANGED parent
      BY <1>1, <2>6, Committed DEF CommitDecide, Committing, TreeCapInv
    <3>2. CASE c.approves
      <4>1. CapAllows(parent[c.e], c.e, amount'[c.e])
        BY <2>0, <3>1, <3>2 DEF CapInv, TypeOK
      <4> QED BY <2>0, <2>5, <3>1, <3>2, <4>1 DEF TypeOK
    <3>3. CASE ~ c.approves
      BY <2>0, <3>1, <3>3, FamilyShrinks
    <3> QED BY <3>2, <3>3
  <2>7. ASSUME NEW t \in Tx, CommitSubmit(t) PROVE Total(p)' <= Total(p)
    <3> DEFINE c == cmd[t]
    <3>1. /\ pc[t] = "checked" /\ c.kind = "submit" /\ c.e \in Envelopes /\ CapInv(t) /\ c # None
          /\ amount' = IF c.auto THEN [amount EXCEPT ![c.e] = c.n] ELSE amount
          /\ UNCHANGED parent
      BY <1>1, <2>7, Committed DEF CommitSubmit, Committing, TreeCapInv
    <3>2. CASE c.auto
      <4>1. CapAllows(parent[c.e], c.e, amount'[c.e])
        BY <2>0, <3>1, <3>2 DEF CapInv, TypeOK
      <4> QED BY <2>0, <2>5, <3>1, <3>2, <4>1 DEF TypeOK
    <3>3. CASE ~ c.auto
      BY <2>0, <3>1, <3>3, FamilyShrinks
    <3> QED BY <3>2, <3>3
  <2>8. CASE Next
    <3>1. PICK t \in Tx :
             UNCHANGED dataVars \/ CommitMove(t) \/ CommitDecide(t) \/ CommitSubmit(t)
      BY <2>8 DEF Next, Move, Decide, Submit, ChangeDates, Starting, TreeLock, RequestLock, RowLock,
                  Reach, Check, CommitDates, Abort
    <3> QED BY <2>3, <2>4, <2>6, <2>7, <3>1
  <2>9. CASE UNCHANGED vars
    BY <2>3, <2>9 DEF vars
  <2> QED BY <1>1, <2>8, <2>9
<1>2. TreeCapInv /\ TreeCapInv' /\ [Next]_vars =>
        [\A p \in Envelopes :
            (amount'[p] # 0 /\ amount'[p] = amount[p] /\ Total(p)' > amount'[p]) =>
               Total(p)' <= Total(p)]_<<parent, amount>>
  BY <1>1
<1> QED BY <1>2, TreeCapInvHolds, PTL DEF Spec, CapKept

-----------------------------------------------------------------------------
(* The commits are a serial run *)

\* What a move has checked, besides the walk and the cap, still holds at its commit.
MoveStands(t) ==
    LET c == cmd[t]
    IN  c # None /\ pc[t] = "checked" /\ c.kind = "move" =>
           parent[c.e] # c.to /\ (c.open => Single(c.e))

SerialInv == TreeCapInv /\ \A t \in Tx : MoveStands(t)

LEMMA RoomIsCap ==
    ASSUME NEW p, NEW e, NEW n
    PROVE  Serial!Room(p, e, n) <=> CapAllows(p, e, n)
BY DEF Serial!Room, CapAllows,
       Serial!SumFunctionOnSet, Serial!FoldFunctionOnSet, Serial!MapThenFoldSet,
       SumFunctionOnSet, FoldFunctionOnSet, MapThenFoldSet

LEMMA UnderIsUnder == \A e : Serial!Under(e) = Under(e)
BY DEF Serial!Under, Under, Serial!Closed, Closed

\* No other transaction writes the parent or the request of a budget that is moved.
LEMMA MoveStandsOn ==
    ASSUME SerialInv, NEW t \in Tx, NEW u \in Tx \ {t}, MoveStands(u),
           pc'[u] = pc[u], cmd'[u] = cmd[u],
           UNCHANGED dataVars \/ CommitMove(t) \/ CommitDecide(t) \/ CommitSubmit(t)
    PROVE  MoveStands(u)'
<1> DEFINE d == cmd[u]
<1> SUFFICES ASSUME d # None, pc[u] = "checked", d.kind = "move"
             PROVE  parent'[d.e] # d.to /\ (d.open => Single(d.e)')
  BY DEF MoveStands
<1>1. /\ TreeInv /\ TypeOK /\ TxInv(u) /\ d.e \in Envelopes /\ envLock[d.e] = u
      /\ parent[d.e] # d.to /\ (d.open => Single(d.e))
  BY Committed DEF SerialInv, TreeCapInv, TreeInv, MoveStands
<1>2. treeLock = u
  BY <1>1 DEF TxInv, MoveInv
<1>3. CASE UNCHANGED dataVars
  BY <1>1, <1>3 DEF dataVars, Single
<1>4. CASE CommitMove(t) \/ CommitDecide(t) \/ CommitSubmit(t)
  <2> DEFINE c == cmd[t]
  <2>1. pc[t] = "checked" /\ c.kind \in {"move", "decide", "submit"}
    BY <1>4 DEF CommitMove, CommitDecide, CommitSubmit, Committing
  <2>2. c # None /\ TxInv(t) /\ c.e \in Envelopes /\ c.e # d.e
    BY <1>1, <2>1, Committed
  <2>3. ~ CommitMove(t)
    BY <1>2, <2>1, <2>2 DEF TxInv, MoveInv, CommitMove, Committing
  <2>4. UNCHANGED parent /\ asked'[d.e] = asked[d.e]
    BY <1>1, <1>4, <2>2, <2>3 DEF CommitDecide, CommitSubmit, TypeOK
  <2> QED BY <1>1, <2>4 DEF Single
<1> QED BY <1>3, <1>4

LEMMA NextSerialInv == SerialInv /\ [Next]_vars => SerialInv'
<1> SUFFICES ASSUME SerialInv, [Next]_vars PROVE SerialInv'
  OBVIOUS
<1>1. TreeCapInv' /\ TypeOK
  BY NextTreeCapInv DEF SerialInv, TreeCapInv, TreeInv
<1>2. ASSUME UNCHANGED vars, NEW u \in Tx PROVE MoveStands(u)'
  BY <1>2 DEF SerialInv, MoveStands, Single, vars, dataVars
<1>3. ASSUME NEW t \in Tx, NEW u \in Tx,
             \/ Move(t) \/ Decide(t) \/ Submit(t) \/ ChangeDates(t)
             \/ TreeLock(t) \/ RequestLock(t) \/ RowLock(t) \/ Reach(t) \/ Check(t)
             \/ CommitMove(t) \/ CommitDecide(t) \/ CommitSubmit(t) \/ CommitDates(t) \/ Abort(t)
      PROVE  MoveStands(u)'
  <2>1. CASE u # t
    <3>1. pc'[u] = pc[u] /\ cmd'[u] = cmd[u]
      BY <1>1, <1>3, <2>1
         DEF Move, Decide, Submit, ChangeDates, Starting, TreeLock, RequestLock, RowLock, Reach, Check,
             CommitMove, CommitDecide, CommitSubmit, CommitDates, Abort, End, Goto, TypeOK
    <3>2. UNCHANGED dataVars \/ CommitMove(t) \/ CommitDecide(t) \/ CommitSubmit(t)
      BY <1>3 DEF Move, Decide, Submit, ChangeDates, Starting, TreeLock, RequestLock, RowLock, Reach,
                  Check, CommitDates, Abort
    <3> QED BY <2>1, <3>1, <3>2, MoveStandsOn DEF SerialInv
  <2>2. CASE u = t /\ Check(t)
    <3>1. UNCHANGED <<dataVars, cmd>> /\ Valid(t)
      BY <2>2 DEF Check
    <3>2. cmd[t] # None /\ cmd[t].kind = "move" =>
             parent[cmd[t].e] # cmd[t].to /\ Single(cmd[t].e) = cmd[t].open
      BY <3>1 DEF Valid, Unchanged
    <3> QED BY <2>2, <3>1, <3>2 DEF MoveStands, Single, dataVars
  <2>3. CASE u = t /\ ~ Check(t)
    <3>1. pc'[t] # "checked"
      BY <1>1, <1>3, <2>3
         DEF Move, Decide, Submit, ChangeDates, Starting, TreeLock, RequestLock, RowLock, Reach,
             CommitMove, CommitDecide, CommitSubmit, CommitDates, Abort, End, Goto, TypeOK
    <3> QED BY <2>3, <3>1 DEF MoveStands
  <2> QED BY <2>1, <2>2, <2>3
<1> QED BY <1>1, <1>2, <1>3 DEF SerialInv, Next

LEMMA InitSerialInv == Init => SerialInv
BY InitTreeCapInv DEF Init, SerialInv, MoveStands

LEMMA InitSerial == Init => Serial!Init
BY StartsAreForests DEF Init, Serial!Init, Acyclic, Requests, Serial!Requests

\* Every commit is a command of the serial tree, and nothing else shows.
LEMMA SerialStep ==
    ASSUME SerialInv, [Next]_vars
    PROVE  [Serial!Next]_(Serial!vars)
<1>1. TypeOK /\ TreeInv
  BY DEF SerialInv, TreeCapInv, TreeInv
<1>2. ASSUME NEW t \in Tx, CommitMove(t) PROVE Serial!Next
  <2> DEFINE c == cmd[t]
  <2>1. /\ pc[t] = "checked" /\ c.kind = "move"
        /\ parent' = [parent EXCEPT ![c.e] = c.to] /\ UNCHANGED amount
        /\ asked' = asked \/ (c.open /\ asked' = [asked EXCEPT ![c.e] = None])
    BY <1>2 DEF CommitMove, Committing
  <2>2. c # None /\ c \in Moves /\ TxInv(t) /\ c.e \in Envelopes /\ c.to \in Envelopes \cup {None}
    BY <1>1, <2>1, Committed, CommandKinds DEF Moves
  <2>3. c.to \notin Under(c.e)
    BY <2>1, <2>2, UnderEnvelopes, TreeAssumption DEF TxInv, MoveInv
  <2>4. CapAllows(c.to, c.e, amount[c.e]) /\ parent[c.e] # c.to /\ (c.open => Single(c.e))
    BY <2>1, <2>2 DEF SerialInv, TreeCapInv, CapInv, MoveStands
  <2>5. Serial!Move(c.e, c.to)
    BY <2>1, <2>3, <2>4, RoomIsCap, UnderIsUnder DEF Serial!Move, Single
  <2> QED BY <2>2, <2>5 DEF Serial!Next
<1>3. ASSUME NEW t \in Tx, CommitDecide(t) PROVE Serial!Next
  <2> DEFINE c == cmd[t]
  <2>1. /\ pc[t] = "checked" /\ c.kind = "decide"
        /\ amount' = IF c.approves THEN [amount EXCEPT ![c.e] = asked[c.e].n] ELSE amount
        /\ asked' = [asked EXCEPT ![c.e] = None] /\ UNCHANGED parent
    BY <1>3 DEF CommitDecide, Committing
  <2>2. c # None /\ TxInv(t) /\ c.e \in Envelopes
    BY <1>1, <2>1, Committed
  <2>3. asked[c.e] # None /\ (c.approves => CapAllows(parent[c.e], c.e, asked[c.e].n))
    BY <2>1, <2>2 DEF SerialInv, TreeCapInv, CapInv, TxInv, DecideInv, Locking
  <2>4. Serial!Resolve(c.e)
    BY <2>1, <2>3, RoomIsCap DEF Serial!Resolve
  <2> QED BY <2>2, <2>4 DEF Serial!Next
<1>4. ASSUME NEW t \in Tx, CommitSubmit(t) PROVE Serial!Next
  <2> DEFINE c == cmd[t]
  <2>1. /\ pc[t] = "checked" /\ c.kind = "submit" /\ UNCHANGED parent
        /\ amount' = IF c.auto THEN [amount EXCEPT ![c.e] = c.n] ELSE amount
        /\ asked' = IF c.auto THEN asked
                    ELSE [asked EXCEPT ![c.e] = [n |-> c.n, bulk |-> FALSE]]
    BY <1>4 DEF CommitSubmit, Committing
  <2>2. c # None /\ c \in Submissions /\ TxInv(t) /\ c.e \in Envelopes /\ c.n \in Amounts
    BY <1>1, <2>1, Committed, CommandKinds DEF Submissions
  <2>3. asked[c.e] = None /\ (c.auto => CapAllows(parent[c.e], c.e, c.n))
    BY <2>1, <2>2 DEF SerialInv, TreeCapInv, CapInv, TxInv
  <2>4. Serial!Ask(c.e, c.n) \/ Serial!ApplyAtOnce(c.e, c.n)
    BY <2>1, <2>3, RoomIsCap DEF Serial!Ask, Serial!ApplyAtOnce
  <2> QED BY <2>2, <2>4 DEF Serial!Next
<1>5. CASE UNCHANGED vars
  BY <1>5 DEF vars, dataVars, Serial!vars
<1>6. CASE Next
  <2>1. PICK t \in Tx :
           UNCHANGED dataVars \/ CommitMove(t) \/ CommitDecide(t) \/ CommitSubmit(t)
    BY <1>6 DEF Next, Move, Decide, Submit, ChangeDates, Starting, TreeLock, RequestLock, RowLock,
                Reach, Check, CommitDates, Abort
  <2> QED BY <1>2, <1>3, <1>4, <2>1 DEF dataVars, Serial!vars
<1> QED BY <1>5, <1>6

\* TreeLocks implements SerialTree: for any number of transactions, what commits is
\* what a serial run of the same commands would do, so that the other modules may
\* take a command as one step.
THEOREM CommitsAreSerial == Spec => ImplementsSerial
<1>1. Init => SerialInv /\ Serial!Init
  BY InitSerialInv, InitSerial
<1>2. SerialInv /\ [Next]_vars => SerialInv' /\ [Serial!Next]_(Serial!vars)
  BY NextSerialInv, SerialStep
<1> QED BY <1>1, <1>2, PTL DEF Spec, ImplementsSerial, Serial!Spec
=============================================================================
