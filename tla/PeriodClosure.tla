---------------------------- MODULE PeriodClosure ----------------------------
(***************************************************************************)
(* Closing, restating, failing and abandoning fiscal periods, as the       *)
(* database runs them: two transactions with the closure sink between      *)
(* them, each READ COMMITTED.  A statement sees what was committed when it *)
(* began, then waits for the rows it writes and reads those rows anew; the *)
(* other tables it does not read again.  What a transaction wrote is seen  *)
(* by nobody until it commits.                                             *)
(*                                                                         *)
(* Fact loads are here too, because a closed period keeps them out: an     *)
(* ingest run reads which periods are closed in a transaction of its own   *)
(* and flushes later, a manual entry's approval does both in one.          *)
(*                                                                         *)
(* Amounts are left out: facts[p] counts the loads into p, report[c] is    *)
(* the count the closure froze.  A run flagged as a restatement is left    *)
(* out: it is meant to write into a closed period.                         *)
(***************************************************************************)
EXTENDS Naturals, FiniteSets

CONSTANTS
    Envelopes, Periods,
    Overlapping,        \* Overlapping[p]: the envelopes whose dates overlap p
    Closures, PeriodOf, \* attempts to close a period
    Runs, Entries,      \* ingest runs, manual entry batches
    MaxTx,              \* bound: transactions of closures and entries at a time
    None

ASSUME ConstantsAssumption ==
    /\ Overlapping \in [Periods -> SUBSET Envelopes]
    /\ PeriodOf \in [Closures -> Periods]
    /\ MaxTx \in Nat
    /\ Runs \cap Entries = {} /\ Closures \cap Entries = {}
    /\ IsFiniteSet(Closures) /\ IsFiniteSet(Entries) /\ IsFiniteSet(Runs)
    /\ None \notin {"DRAFT", "PENDING", "APPROVED"}

VARIABLES
    estatus,   \* envelope.status, committed
    cStatus,   \* period_closure.status, committed
    prior,     \* closure_envelope.prior_status, committed
    report,    \* what the closure froze
    txn,       \* txn[c]: the open transaction on closure c
    writer,    \* writer[c]: the request that runs closePeriod between its transactions
    facts,     \* loads into each period, committed
    load,      \* load[i]: what run or entry i has done
    before,    \* history: the status an envelope last had while not LOCKED
    raced,     \* history: envelopes on which transactions of two closures met
    early      \* history: early[c]: the loads that looked before c was committed
               \* and were still under way when c counted, or began since

history == <<before, raced, early>>
vars == <<estatus, cStatus, prior, report, txn, writer, facts, load, history>>

WorkStatus    == {"DRAFT", "PENDING", "APPROVED"}
ClosureStatus == {"none", "closing", "closed", "failed", "restated"}
Idle == [op |-> "idle", stage |-> "none", seen |-> {}, rows |-> {}, report |-> 0]
Waiting(op, seen) == [op |-> op, stage |-> "waiting", seen |-> seen, rows |-> {}, report |-> 0]
Written(op, rows, n) == [op |-> op, stage |-> "written", seen |-> {}, rows |-> rows, report |-> n]

\* A write waits for rows another open transaction wrote.
RowsOf(c) == {w[1] : w \in txn[c].rows}
Free(S) == \A c \in Closures : txn[c].stage = "written" => RowsOf(c) \cap S = {}

Holding(c) == cStatus[c] \in {"closing", "closed"}
Holders(e) == {c \in Closures : Holding(c) /\ prior[c][e] # None}
Closed(p) == \E c \in Closures : Holding(c) /\ PeriodOf[c] = p

\* The three races of READ COMMITTED on an envelope e, when c commits while the
\* transaction of x is open.  A start locks e under a start that waits with an
\* older snapshot, or under a release that waits to unlock it; of two releases
\* each leaves e to the other.
Race(c, x, e) ==
    \/ /\ txn[c].op = "start" /\ txn[x].op = "start" /\ txn[x].stage = "waiting"
       /\ estatus[e] # "LOCKED"
    \/ /\ txn[c].op = "start" /\ txn[x].stage = "waiting"
       /\ <<e, prior[x][e]>> \in txn[x].seen
    \/ /\ {txn[c].op, txn[x].op} \subseteq {"failed", "restated"}
       /\ Holders(e) = {c, x}

Met(c) ==
    {e \in Overlapping[PeriodOf[c]] :
        \E x \in Closures \ {c} : e \in Overlapping[PeriodOf[x]] /\ Race(c, x, e)}

InTx == {c \in Closures : txn[c] # Idle} \cup {i \in Entries : load[i].on}
MayBegin == Cardinality(InTx) < MaxTx

-----------------------------------------------------------------------------
(* closePeriod: startClose, the sink, the second transaction *)

\* startClose up to lockPeriodEnvelopes.  The unique index on the closing or
\* closed closure of a period makes a second one wait, then fail.
\* seen: for every envelope, the statuses other holding closures recorded, as
\* the statement began.
BeginStart(c) ==
    LET p == PeriodOf[c]
    IN  /\ MayBegin
        /\ cStatus[c] = "none" /\ txn[c] = Idle
        /\ ~ Closed(p)
        /\ \A x \in Closures : PeriodOf[x] = p => txn[x].op # "start"
        /\ txn' = [txn EXCEPT ![c] = Waiting("start",
              {<<e, prior[x][e]>> : e \in Overlapping[p], x \in {y \in Closures : Holding(y)}})]
        /\ UNCHANGED <<estatus, cStatus, prior, report, writer, facts, load, history>>

\* The status to give back: the envelope's own as it is now, and when it is
\* LOCKED by now one that a closure recorded.
MutRecordable(c, e) == {estatus[e]}

Recordable(c, e) ==
    LET recorded == {s \in WorkStatus : <<e, s>> \in txn[c].seen}
    IN  IF estatus[e] # "LOCKED" THEN {estatus[e]}
        ELSE IF recorded # {} THEN recorded ELSE {"APPROVED"}

LockEnvelopes(c) ==
    LET S == Overlapping[PeriodOf[c]]
    IN  /\ txn[c].op = "start" /\ txn[c].stage = "waiting"
        /\ Free(S)
        /\ \E f \in [S -> WorkStatus \cup {"LOCKED"}] :
              /\ \A e \in S : f[e] \in Recordable(c, e)
              /\ txn' = [txn EXCEPT ![c] =
                    Written("start", {<<e, f[e]>> : e \in S}, facts[PeriodOf[c]])]
        /\ early' = [early EXCEPT ![c] = {i \in Runs \cup Entries : load[i].on}]
        /\ UNCHANGED <<estatus, cStatus, prior, report, writer, facts, load, before, raced>>

CommitStart(c) ==
    /\ txn[c].op = "start" /\ txn[c].stage = "written"
    /\ cStatus' = [cStatus EXCEPT ![c] = "closing"]
    /\ prior' = [prior EXCEPT ![c] = [e \in Envelopes |->
                    IF e \in RowsOf(c) THEN CHOOSE s \in WorkStatus \cup {"LOCKED"} : <<e, s>> \in txn[c].rows ELSE None]]
    /\ estatus' = [e \in Envelopes |-> IF e \in RowsOf(c) THEN "LOCKED" ELSE estatus[e]]
    /\ report' = [report EXCEPT ![c] = txn[c].report]
    /\ writer' = [writer EXCEPT ![c] = "writing"]
    /\ txn' = [txn EXCEPT ![c] = Idle]
    /\ raced' = raced \cup Met(c)
    /\ UNCHANGED <<facts, load, before, early>>

\* The sink answers, refuses, or the process dies while it waits.
SinkAnswers(c, outcome) ==
    /\ writer[c] = "writing"
    /\ writer' = [writer EXCEPT ![c] = outcome]
    /\ UNCHANGED <<estatus, cStatus, prior, report, txn, facts, load, history>>

MutFinish(c) ==                                         \* the status is not read again
    /\ writer[c] = "written"
    /\ txn[c] = Idle
    /\ cStatus' = [cStatus EXCEPT ![c] = "closed"]
    /\ writer' = [writer EXCEPT ![c] = "ended"]
    /\ UNCHANGED <<estatus, prior, report, txn, facts, load, history>>

\* The second transaction writes the closure's row alone, so it is one step;
\* a closure abandoned in the meantime stays failed.
Finish(c) ==
    /\ writer[c] = "written"
    /\ txn[c] = Idle
    /\ cStatus' = [cStatus EXCEPT ![c] = IF @ = "closing" THEN "closed" ELSE @]
    /\ writer' = [writer EXCEPT ![c] = "ended"]
    /\ UNCHANGED <<estatus, prior, report, txn, facts, load, history>>

-----------------------------------------------------------------------------
(* failClosure, abandonClosure, restateClosure *)

MutUnlockable(c) == {e \in Envelopes : prior[c][e] # None /\ estatus[e] = "LOCKED"}  \* no NOT EXISTS

\* unlockClosureEnvelopes: LOCKED rows of c that no other holder covers.
Unlockable(c) ==
    {e \in Envelopes : prior[c][e] # None /\ estatus[e] = "LOCKED" /\ Holders(e) \subseteq {c}}

\* The closure's row is locked and its status checked, then the UPDATE begins.
BeginRelease(c, op, from) ==
    /\ MayBegin
    /\ cStatus[c] = from /\ txn[c] = Idle
    /\ txn' = [txn EXCEPT ![c] = Waiting(op, {<<e, prior[c][e]>> : e \in Unlockable(c)})]
    /\ UNCHANGED <<estatus, cStatus, prior, report, writer, facts, load, history>>

Fail(c)    == writer[c] = "refused" /\ BeginRelease(c, "failed", "closing")
Abandon(c) == BeginRelease(c, "failed", "closing")   \* when stale, the writer may still be at work
Restate(c) == BeginRelease(c, "restated", "closed")

\* The UPDATE has its rows: those that are still LOCKED get their status back.
Unlock(c) ==
    LET S == {w[1] : w \in txn[c].seen}
    IN  /\ txn[c].op \in {"failed", "restated"} /\ txn[c].stage = "waiting"
        /\ Free(S)
        /\ txn' = [txn EXCEPT ![c] =
              Written(txn[c].op, {w \in txn[c].seen : estatus[w[1]] = "LOCKED"}, 0)]
        /\ UNCHANGED <<estatus, cStatus, prior, report, writer, facts, load, history>>

CommitRelease(c) ==
    /\ txn[c].op \in {"failed", "restated"} /\ txn[c].stage = "written"
    /\ cStatus' = [cStatus EXCEPT ![c] = txn[c].op]
    /\ estatus' = [e \in Envelopes |-> IF e \in RowsOf(c) THEN prior[c][e] ELSE estatus[e]]
    /\ writer' = [writer EXCEPT ![c] = IF @ = "refused" THEN "ended" ELSE @]
    /\ txn' = [txn EXCEPT ![c] = Idle]
    /\ raced' = raced \cup Met(c)
    /\ UNCHANGED <<prior, report, facts, load, before, early>>

\* A crash, a timeout or a deadlock rolls the transaction back.
Rollback(c) ==
    /\ txn[c] # Idle
    /\ txn' = [txn EXCEPT ![c] = Idle]
    /\ writer' = [writer EXCEPT ![c] = IF @ = "refused" THEN "ended" ELSE @]
    /\ UNCHANGED <<estatus, cStatus, prior, report, facts, load, history>>

-----------------------------------------------------------------------------
(* Around the closures *)

\* An envelope command (EnvelopeApproval) on an envelope that is not LOCKED.
Work(e, s) ==
    /\ estatus[e] # "LOCKED" /\ estatus[e] # s
    /\ Free({e})
    /\ estatus' = [estatus EXCEPT ![e] = s]
    /\ before' = [before EXCEPT ![e] = s]
    /\ UNCHANGED <<cStatus, prior, report, txn, writer, facts, load, raced, early>>

\* runIngest's setup, approveManualEntry's validateBatch.
ReadClosed(i) ==
    /\ load[i] = [on |-> FALSE, done |-> FALSE, closed |-> {}]
    /\ i \in Entries => MayBegin
    /\ load' = [load EXCEPT ![i] = [on |-> TRUE, done |-> FALSE, closed |-> {p \in Periods : Closed(p)}]]
    /\ early' = [c \in Closures |->
                    IF txn[c].op = "start" /\ txn[c].stage = "written" THEN early[c] \cup {i} ELSE early[c]]
    /\ UNCHANGED <<estatus, cStatus, prior, report, txn, writer, facts, before, raced>>

Ended == [on |-> FALSE, done |-> TRUE, closed |-> {}]

MutWriteFacts(i, p) ==                                  \* rows of closed periods are not refused
    /\ load[i].on
    /\ facts' = [facts EXCEPT ![p] = @ + 1]
    /\ load' = [load EXCEPT ![i] = Ended]
    /\ UNCHANGED <<estatus, cStatus, prior, report, txn, writer, history>>

\* A flush commits, or an entry's approval: rows of periods that were closed
\* when i looked are refused.
WriteFacts(i, p) ==
    /\ load[i].on /\ p \notin load[i].closed
    /\ facts' = [facts EXCEPT ![p] = @ + 1]
    /\ load' = [load EXCEPT ![i] = Ended]
    /\ UNCHANGED <<estatus, cStatus, prior, report, txn, writer, history>>

\* Nothing to write, or a failure.
EndLoad(i) ==
    /\ load[i].on
    /\ load' = [load EXCEPT ![i] = Ended]
    /\ UNCHANGED <<estatus, cStatus, prior, report, txn, writer, facts, history>>

-----------------------------------------------------------------------------
Init ==
    /\ estatus \in [Envelopes -> WorkStatus]
    /\ before = estatus
    /\ raced = {}
    /\ early = [c \in Closures |-> {}]
    /\ cStatus = [c \in Closures |-> "none"]
    /\ prior = [c \in Closures |-> [e \in Envelopes |-> None]]
    /\ report = [c \in Closures |-> 0]
    /\ txn = [c \in Closures |-> Idle]
    /\ writer = [c \in Closures |-> "none"]
    /\ facts = [p \in Periods |-> 0]
    /\ load = [i \in Runs \cup Entries |-> [on |-> FALSE, done |-> FALSE, closed |-> {}]]

Next ==
    \/ \E c \in Closures :
          \/ BeginStart(c) \/ LockEnvelopes(c) \/ CommitStart(c)
          \/ \E outcome \in {"written", "refused", "ended"} : SinkAnswers(c, outcome)
          \/ Finish(c)
          \/ Fail(c) \/ Abandon(c) \/ Restate(c) \/ Unlock(c) \/ CommitRelease(c)
          \/ Rollback(c)
    \/ \E e \in Envelopes, s \in WorkStatus : Work(e, s)
    \/ \E i \in Runs \cup Entries :
          \/ ReadClosed(i) \/ EndLoad(i)
          \/ \E p \in Periods : WriteFacts(i, p)

Spec == Init /\ [][Next]_vars

-----------------------------------------------------------------------------
(* Properties *)

\* The tables and the processes hold values of their types.
TypeOK ==
    /\ estatus \in [Envelopes -> WorkStatus \cup {"LOCKED"}]
    /\ before \in [Envelopes -> WorkStatus]
    /\ cStatus \in [Closures -> ClosureStatus]
    /\ prior \in [Closures -> [Envelopes -> WorkStatus \cup {None}]]
    /\ \A c \in Closures : txn[c].op \in {"idle", "start", "failed", "restated"}
    /\ writer \in [Closures -> {"none", "writing", "written", "refused", "ended"}]
    /\ facts \in [Periods -> Nat] /\ report \in [Closures -> Nat]
    /\ raced \subseteq Envelopes /\ early \in [Closures -> SUBSET (Runs \cup Entries)]

\* closures.ts:4: an envelope is LOCKED while at least one closure that holds
\* covers it, and not longer.
LockedWhileHeld ==
    \A e \in Envelopes : estatus[e] = "LOCKED" <=> Holders(e) # {}

\* closures.ts:5, 21: what closures record and give back is the status the
\* envelope had before the first of them.
StatusRestored ==
    \A e \in Envelopes :
        /\ estatus[e] # "LOCKED" => estatus[e] = before[e]
        /\ \A c \in Holders(e) : prior[c][e] = before[e]

\* However the transactions of closures overlap, LockedWhileHeld fails on no
\* envelope but those that one of the three races (Race) went over.
LockedUnlessRaced ==
    \A e \in Envelopes \ raced : estatus[e] = "LOCKED" <=> Holders(e) # {}

\* Nor does StatusRestored, through any nesting of closes, failures, abandonments
\* and restatements.
RestoredUnlessRaced ==
    \A e \in Envelopes \ raced :
        /\ estatus[e] # "LOCKED" => estatus[e] = before[e]
        /\ \A c \in Holders(e) : prior[c][e] = before[e]

\* closures.ts:10: a closed period keeps facts out.  No load that looks after a close
\* was committed enters its period: the figures drift from the frozen ones by no
\* more than the loads that looked before and have ended since, runs and entries alike.
OnlyEarlyLoadsEnter ==
    \A c \in Closures :
        Holding(c) => /\ report[c] <= facts[PeriodOf[c]]
                      /\ facts[PeriodOf[c]] <= report[c] + Cardinality({i \in early[c] : load[i].done})

\* A close given up for failed never becomes a closed period afterwards, even
\* when its request was only slow; nor does a restated one.
GivenUpStays ==
    [][\A c \in Closures : cStatus[c] \in {"failed", "restated"} => cStatus'[c] = cStatus[c]]_vars
=============================================================================
