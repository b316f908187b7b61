------------------------- MODULE PeriodClosureProofs -------------------------
(***************************************************************************)
(* Theorems about PeriodClosure, for any envelopes, periods that overlap   *)
(* in any way, attempts to close them, ingest runs and manual entries, and *)
(* for transactions that overlap in time as they like: what is given up    *)
(* stays so, envelopes outside the three races are locked while they are   *)
(* covered and get back what they had, and only loads that looked before a *)
(* close was committed still enter its period.                             *)
(***************************************************************************)
EXTENDS PeriodClosure, FiniteSetTheorems, TLAPS

Marks == Envelopes \X (WorkStatus \cup {None})

Transaction == [op : {"idle", "start", "failed", "restated"}, stage : {"none", "waiting", "written"},
                seen : SUBSET Marks, rows : SUBSET Marks, report : Nat]

\* What an open transaction holds, and the status its closure has until it commits.
TxOK(c) ==
    /\ txn[c].op = "idle" => txn[c] = Idle
    /\ txn[c].op = "start" =>
          cStatus[c] = "none" /\ txn[c].rows \in SUBSET (Envelopes \X WorkStatus)
    /\ txn[c].op \in {"failed", "restated"} =>
          /\ Holding(c)
          /\ \A w \in txn[c].seen \cup txn[c].rows : w[2] = prior[c][w[1]] /\ w[2] # None

LoadOK ==
    load \in [Runs \cup Entries -> [on : BOOLEAN, done : BOOLEAN, closed : SUBSET Periods]]

\* The types, with what each open transaction holds.
TxInv ==
    /\ TypeOK /\ LoadOK
    /\ txn \in [Closures -> Transaction]
    /\ \A c \in Closures : TxOK(c)

LEMMA InitTxInv == Init => TxInv
BY ConstantsAssumption DEF Init, TxInv, TypeOK, LoadOK, TxOK, WorkStatus, ClosureStatus, Idle,
   Transaction

\* A step that touches one transaction and its closure leaves the others as they are.
LEMMA TxFrame ==
    ASSUME TxInv, NEW c \in Closures, NEW t \in Transaction,
           txn' = [txn EXCEPT ![c] = t], TypeOK', LoadOK', TxOK(c)',
           \A x \in Closures : x # c => prior'[x] = prior[x] /\ cStatus'[x] = cStatus[x]
    PROVE  TxInv'
<1>1. txn' \in [Closures -> Transaction]
  BY DEF TxInv
<1>2. \A x \in Closures : x # c => TxOK(x)'
  BY DEF TxInv, TxOK, Holding
<1> QED BY <1>1, <1>2 DEF TxInv

\* A step that opens and ends no transaction leaves them as they are.
LEMMA TxStays ==
    ASSUME TxInv, TypeOK', LoadOK', UNCHANGED <<txn, prior>>,
           \A x \in Closures : txn[x] = Idle \/ cStatus'[x] = cStatus[x]
    PROVE  TxInv'
<1>1. \A x \in Closures : TxOK(x)'
  <2> TAKE x \in Closures
  <2>1. CASE txn[x] = Idle
    BY <2>1 DEF TxOK, Idle
  <2>2. CASE cStatus'[x] = cStatus[x]
    BY <2>2 DEF TxInv, TxOK, Holding
  <2> QED BY <2>1, <2>2
<1> QED BY <1>1 DEF TxInv

\* What an UPDATE of unlockClosureEnvelopes is about.
LEMMA ReleaseMarks ==
    ASSUME TxInv, NEW c \in Closures
    PROVE  /\ {<<e, prior[c][e]>> : e \in Unlockable(c)} \in SUBSET Marks
           /\ \A w \in {<<e, prior[c][e]>> : e \in Unlockable(c)} : w[2] = prior[c][w[1]] /\ w[2] # None
BY DEF Marks, Unlockable, TxInv, TypeOK

LEMMA MetEnvelopes == ASSUME NEW c \in Closures PROVE Met(c) \subseteq Envelopes
BY ConstantsAssumption DEF Met

\* Every step keeps it.
LEMMA TxStep == TxInv /\ [Next]_vars => TxInv'
<1> SUFFICES ASSUME TxInv, [Next]_vars PROVE TxInv'
  OBVIOUS
<1> USE ConstantsAssumption DEF history
<1>0. TypeOK /\ LoadOK /\ txn \in [Closures -> Transaction]
  BY DEF TxInv
<1>1. ASSUME NEW c \in Closures, BeginStart(c) PROVE TxInv'
  <2> DEFINE S == {<<e, prior[x][e]>> : e \in Overlapping[PeriodOf[c]], x \in {y \in Closures : Holding(y)}}
  <2> DEFINE t == [op |-> "start", stage |-> "waiting", seen |-> S, rows |-> {}, report |-> 0]
  <2>1. S \in SUBSET Marks
    BY <1>0 DEF Marks, TypeOK
  <2>2. txn' = [txn EXCEPT ![c] = t]
    BY <1>1 DEF BeginStart, Waiting
  <2> HIDE DEF S
  <2>3. t \in Transaction
    BY <2>1 DEF Transaction
  <2>4. txn'[c] = t /\ cStatus'[c] = "none"
    BY <1>0, <1>1, <2>2 DEF BeginStart
  <2>5. TypeOK' /\ LoadOK'
    BY <1>0, <1>1, <2>2 DEF TypeOK, LoadOK, BeginStart
  <2>6. TxOK(c)'
    BY <2>4 DEF TxOK
  <2> QED BY <1>1, <2>2, <2>3, <2>5, <2>6, TxFrame DEF BeginStart
<1>2. ASSUME NEW c \in Closures, LockEnvelopes(c) PROVE TxInv'
  <2> DEFINE S == Overlapping[PeriodOf[c]]
  <2>1. PICK f \in [S -> WorkStatus \cup {"LOCKED"}] :
           /\ \A e \in S : f[e] \in Recordable(c, e)
           /\ txn' = [txn EXCEPT ![c] = Written("start", {<<e, f[e]>> : e \in S}, facts[PeriodOf[c]])]
    BY <1>2 DEF LockEnvelopes
  <2> DEFINE R == {<<e, f[e]>> : e \in S}
             t == [op |-> "start", stage |-> "written", seen |-> {}, rows |-> R, report |-> facts[PeriodOf[c]]]
  <2>2. R \in SUBSET (Envelopes \X WorkStatus)
    <3>1. \A e \in S : e \in Envelopes /\ f[e] \in WorkStatus
      BY <1>0, <2>1 DEF Recordable, WorkStatus, TypeOK
    <3> QED BY <3>1
  <2>3. cStatus[c] = "none"
    BY <1>2 DEF LockEnvelopes, TxInv, TxOK
  <2>4. txn' = [txn EXCEPT ![c] = t]
    BY <2>1 DEF Written
  <2> HIDE DEF R
  <2>5. t \in Transaction
    BY <1>0, <2>2 DEF Transaction, Marks, TypeOK
  <2>6. txn'[c] = t /\ cStatus'[c] = "none"
    BY <1>0, <1>2, <2>3, <2>4 DEF LockEnvelopes
  <2>7. TypeOK' /\ LoadOK'
    BY <1>0, <1>2, <2>4 DEF TypeOK, LoadOK, LockEnvelopes
  <2>8. TxOK(c)'
    BY <2>2, <2>6 DEF TxOK
  <2> QED BY <1>2, <2>4, <2>5, <2>7, <2>8, TxFrame DEF LockEnvelopes
<1>3. ASSUME NEW c \in Closures, CommitStart(c) PROVE TxInv'
  <2>1. txn[c].rows \in SUBSET (Envelopes \X WorkStatus)
    BY <1>3 DEF CommitStart, TxInv, TxOK
  <2>2. \A e \in RowsOf(c) : (CHOOSE s \in WorkStatus \cup {"LOCKED"} : <<e, s>> \in txn[c].rows) \in WorkStatus
    <3> TAKE e \in RowsOf(c)
    <3>1. PICK s \in WorkStatus : <<e, s>> \in txn[c].rows
      BY <2>1 DEF RowsOf
    <3>2. <<e, CHOOSE t \in WorkStatus \cup {"LOCKED"} : <<e, t>> \in txn[c].rows>> \in txn[c].rows
      BY <3>1
    <3> QED BY <2>1, <3>2
  <2> DEFINE P == [e \in Envelopes |-> IF e \in RowsOf(c)
                      THEN CHOOSE s \in WorkStatus \cup {"LOCKED"} : <<e, s>> \in txn[c].rows ELSE None]
  <2>3. P \in [Envelopes -> WorkStatus \cup {None}]
    BY <2>2
  <2>4. prior' = [prior EXCEPT ![c] = P]
    BY <1>3 DEF CommitStart
  <2> HIDE DEF P
  <2>5. txn[c].report \in Nat /\ Idle \in Transaction
    BY <1>0 DEF Transaction, Idle
  <2>6. TypeOK' /\ LoadOK'
    <3>1. /\ cStatus' \in [Closures -> ClosureStatus] /\ report' \in [Closures -> Nat]
          /\ prior' \in [Closures -> [Envelopes -> WorkStatus \cup {None}]]
      <4>1. cStatus' \in [Closures -> ClosureStatus]
        BY <1>0, <1>3 DEF TypeOK, CommitStart, ClosureStatus
      <4>2. report' \in [Closures -> Nat]
        BY <1>0, <1>3, <2>5 DEF TypeOK, CommitStart
      <4>3. prior' \in [Closures -> [Envelopes -> WorkStatus \cup {None}]]
        BY <1>0, <2>3, <2>4 DEF TypeOK
      <4> QED BY <4>1, <4>2, <4>3
    <3>2. \A x \in Closures : txn'[x].op \in {"idle", "start", "failed", "restated"}
      BY <1>0, <1>3 DEF TypeOK, CommitStart, Idle
    <3>3. /\ estatus' \in [Envelopes -> WorkStatus \cup {"LOCKED"}]
          /\ writer' \in [Closures -> {"none", "writing", "written", "refused", "ended"}]
          /\ raced' \subseteq Envelopes
      BY <1>0, <1>3, MetEnvelopes DEF TypeOK, CommitStart
    <3> QED BY <1>0, <1>3, <3>1, <3>2, <3>3 DEF TypeOK, LoadOK, CommitStart
  <2>7. txn' = [txn EXCEPT ![c] = Idle] /\ txn'[c] = Idle
    BY <1>0, <1>3 DEF CommitStart
  <2>8. TxOK(c)'
    BY <2>7 DEF TxOK, Idle
  <2> QED BY <1>0, <1>3, <2>4, <2>5, <2>6, <2>7, <2>8, TxFrame DEF CommitStart, TypeOK
<1>4. ASSUME NEW c \in Closures, NEW outcome \in {"written", "refused", "ended"}, SinkAnswers(c, outcome) PROVE TxInv'
  <2>1. TypeOK' /\ LoadOK'
    BY <1>0, <1>4 DEF SinkAnswers, TypeOK, LoadOK
  <2> QED BY <1>4, <2>1, TxStays DEF SinkAnswers
<1>5. ASSUME NEW c \in Closures, Finish(c) PROVE TxInv'
  <2>1. TypeOK' /\ LoadOK'
    BY <1>0, <1>5 DEF Finish, TypeOK, LoadOK, ClosureStatus
  <2>2. \A x \in Closures : txn[x] = Idle \/ cStatus'[x] = cStatus[x]
    BY <1>0, <1>5 DEF Finish, TypeOK
  <2> QED BY <1>5, <2>1, <2>2, TxStays DEF Finish
<1>6. ASSUME NEW c \in Closures, NEW op \in {"failed", "restated"}, NEW from \in {"closing", "closed"},
             BeginRelease(c, op, from) PROVE TxInv'
  <2> DEFINE S == {<<e, prior[c][e]>> : e \in Unlockable(c)}
             t == [op |-> op, stage |-> "waiting", seen |-> S, rows |-> {}, report |-> 0]
  <2>1. S \in SUBSET Marks /\ \A w \in S : w[2] = prior[c][w[1]] /\ w[2] # None
    BY ReleaseMarks
  <2>2. txn' = [txn EXCEPT ![c] = t]
    BY <1>6 DEF BeginRelease, Waiting
  <2> HIDE DEF S
  <2>3. t \in Transaction
    BY <2>1 DEF Transaction
  <2>4. txn'[c] = t /\ cStatus'[c] = from /\ prior' = prior
    BY <1>0, <1>6, <2>2 DEF BeginRelease
  <2>5. TypeOK' /\ LoadOK'
    <3>1. \A x \in Closures : txn'[x].op \in {"idle", "start", "failed", "restated"}
      BY <1>0, <2>2, <2>4 DEF TypeOK
    <3> QED BY <1>0, <1>6, <3>1 DEF TypeOK, LoadOK, BeginRelease
  <2>6. TxOK(c)'
    BY <2>1, <2>4 DEF TxOK, Holding
  <2> QED BY <1>6, <2>2, <2>3, <2>5, <2>6, TxFrame DEF BeginRelease
<1>7. ASSUME NEW c \in Closures, Unlock(c) PROVE TxInv'
  <2> DEFINE R == {w \in txn[c].seen : estatus[w[1]] = "LOCKED"}
             t == [op |-> txn[c].op, stage |-> "written", seen |-> {}, rows |-> R, report |-> 0]
  <2>1. txn[c] \in Transaction /\ R \subseteq txn[c].seen
    BY <1>0
  <2>2. txn' = [txn EXCEPT ![c] = t]
    BY <1>7 DEF Unlock, Written
  <2> HIDE DEF R
  <2>3. t \in Transaction
    BY <2>1 DEF Transaction
  <2>4. txn'[c] = t /\ cStatus' = cStatus /\ prior' = prior /\ TxOK(c) /\ txn[c].op \in {"failed", "restated"}
    BY <1>0, <1>7, <2>2 DEF Unlock, TxInv
  <2>5. TypeOK' /\ LoadOK'
    BY <1>0, <1>7, <2>2, <2>3 DEF TypeOK, LoadOK, Unlock, Transaction
  <2>6. TxOK(c)'
    BY <2>1, <2>4 DEF TxOK, Holding
  <2> QED BY <1>7, <2>2, <2>3, <2>5, <2>6, TxFrame DEF Unlock
<1>8. ASSUME NEW c \in Closures, CommitRelease(c) PROVE TxInv'
  <2>1. TxOK(c) /\ txn[c] \in Transaction /\ txn[c].op \in {"failed", "restated"}
    BY <1>0, <1>8 DEF CommitRelease, TxInv
  <2>2. \A e \in RowsOf(c) : prior[c][e] \in WorkStatus
    BY <2>1 DEF TxOK, RowsOf, Marks, Transaction
  <2>3. TypeOK' /\ LoadOK'
    BY <1>0, <1>8, <2>1, <2>2, MetEnvelopes DEF CommitRelease, TypeOK, LoadOK, ClosureStatus, Idle
  <2>4. txn' = [txn EXCEPT ![c] = Idle] /\ txn'[c] = Idle /\ Idle \in Transaction
    BY <1>0, <1>8 DEF CommitRelease, Transaction, Idle
  <2>5. TxOK(c)'
    BY <2>4 DEF TxOK, Idle
  <2> QED BY <1>0, <1>8, <2>3, <2>4, <2>5, TxFrame DEF CommitRelease, TypeOK
<1>9. ASSUME NEW c \in Closures, Rollback(c) PROVE TxInv'
  <2>1. TypeOK' /\ LoadOK'
    BY <1>0, <1>9 DEF Rollback, TypeOK, LoadOK, Idle
  <2>2. txn' = [txn EXCEPT ![c] = Idle] /\ txn'[c] = Idle /\ Idle \in Transaction
    BY <1>0, <1>9 DEF Rollback, Transaction, Idle
  <2>3. TxOK(c)'
    BY <2>2 DEF TxOK, Idle
  <2> QED BY <1>9, <2>1, <2>2, <2>3, TxFrame DEF Rollback
<1>10. ASSUME NEW e \in Envelopes, NEW s \in WorkStatus, Work(e, s) PROVE TxInv'
  <2>1. TypeOK' /\ LoadOK'
    BY <1>0, <1>10 DEF Work, TypeOK, LoadOK
  <2> QED BY <1>10, <2>1, TxStays DEF Work
<1>11. ASSUME NEW i \in Runs \cup Entries, ReadClosed(i) PROVE TxInv'
  <2>1. TypeOK' /\ LoadOK'
    BY <1>0, <1>11 DEF ReadClosed, TypeOK, LoadOK
  <2> QED BY <1>11, <2>1, TxStays DEF ReadClosed
<1>12. ASSUME NEW i \in Runs \cup Entries, EndLoad(i) PROVE TxInv'
  <2>1. TypeOK' /\ LoadOK'
    BY <1>0, <1>12 DEF EndLoad, Ended, TypeOK, LoadOK
  <2> QED BY <1>12, <2>1, TxStays DEF EndLoad
<1>13. ASSUME NEW i \in Runs \cup Entries, NEW p \in Periods, WriteFacts(i, p) PROVE TxInv'
  <2>1. TypeOK' /\ LoadOK'
    BY <1>0, <1>13 DEF WriteFacts, Ended, TypeOK, LoadOK
  <2> QED BY <1>13, <2>1, TxStays DEF WriteFacts
<1>14. CASE UNCHANGED vars
  <2>1. TypeOK' /\ LoadOK'
    BY <1>0, <1>14 DEF vars, TypeOK, LoadOK
  <2> QED BY <1>14, <2>1, TxStays DEF vars
<1> QED BY <1>1, <1>2, <1>3, <1>4, <1>5, <1>6, <1>7, <1>8, <1>9, <1>10, <1>11, <1>12, <1>13, <1>14
       DEF Next, Fail, Abandon, Restate

LEMMA TxInvHolds == Spec => []TxInv
BY InitTxInv, TxStep, PTL DEF Spec

\* Whatever overlaps with whatever, the tables and the processes hold values of
\* their types; no closure records or gives back LOCKED.
THEOREM ClosureTypeCorrect == Spec => []TypeOK
<1>1. TxInv => TypeOK
  BY DEF TxInv
<1> QED BY <1>1, TxInvHolds, PTL

\* A close that was given up or restated is never a closed period again, also when
\* transactions overlap and the request that ran it was only slow.
THEOREM GivenUpCorrect == Spec => GivenUpStays
<1>1. TxInv /\ [Next]_vars =>
        [\A c \in Closures : cStatus[c] \in {"failed", "restated"} => cStatus'[c] = cStatus[c]]_vars
  <2> SUFFICES ASSUME TxInv, Next, NEW c \in Closures, cStatus[c] \in {"failed", "restated"}
               PROVE  cStatus'[c] = cStatus[c]
    OBVIOUS
  <2>1. txn[c] = Idle /\ cStatus \in [Closures -> ClosureStatus]
    BY DEF TxInv, TypeOK, TxOK, Holding, Transaction
  <2>2. ASSUME NEW x \in Closures, CommitStart(x) \/ CommitRelease(x) PROVE cStatus'[c] = cStatus[c]
    <3>1. x # c
      BY <2>1, <2>2 DEF CommitStart, CommitRelease, Idle
    <3> QED BY <2>1, <2>2, <3>1 DEF CommitStart, CommitRelease
  <2>3. ASSUME NEW x \in Closures, Finish(x) PROVE cStatus'[c] = cStatus[c]
    BY <2>1, <2>3 DEF Finish
  <2>4. ASSUME NEW x \in Closures,
               \/ BeginStart(x) \/ LockEnvelopes(x) \/ Fail(x) \/ Abandon(x) \/ Restate(x)
               \/ Unlock(x) \/ Rollback(x) \/ \E outcome \in {"written", "refused", "ended"} : SinkAnswers(x, outcome)
        PROVE  cStatus'[c] = cStatus[c]
    BY <2>4 DEF BeginStart, LockEnvelopes, Fail, Abandon, Restate, BeginRelease, Unlock, Rollback, SinkAnswers
  <2>5. ASSUME NEW i \in Runs \cup Entries,
               ReadClosed(i) \/ EndLoad(i) \/ \E p \in Periods : WriteFacts(i, p)
        PROVE  cStatus'[c] = cStatus[c]
    BY <2>5 DEF ReadClosed, EndLoad, WriteFacts
  <2>6. ASSUME NEW e \in Envelopes, NEW s \in WorkStatus, Work(e, s)
        PROVE  cStatus'[c] = cStatus[c]
    BY <2>6 DEF Work
  <2> QED BY <2>2, <2>3, <2>4, <2>5, <2>6 DEF Next
<1> QED BY <1>1, TxInvHolds, PTL DEF Spec, GivenUpStays

-----------------------------------------------------------------------------
(* Envelopes outside the races *)

\* Open transactions wrote different rows, each those of its closure's period.
Apart ==
    \A x, y \in Closures :
       x # y /\ txn[x].stage = "written" /\ txn[y].stage = "written" => RowsOf(x) \cap RowsOf(y) = {}

Covers ==
    /\ \A c \in Closures, e \in Envelopes : prior[c][e] # None => e \in Overlapping[PeriodOf[c]]
    /\ \A c \in Closures :
          txn[c].op = "start" /\ txn[c].stage = "written" => RowsOf(c) = Overlapping[PeriodOf[c]]

\* What the transaction of c has read and written of e is still so.
Exact(c, e) ==
    /\ txn[c].op = "start" /\ txn[c].stage = "waiting" /\ e \in Overlapping[PeriodOf[c]] =>
          \A s \in WorkStatus : estatus[e] = "LOCKED" => (<<e, s>> \in txn[c].seen <=> s = before[e])
    /\ txn[c].op = "start" /\ txn[c].stage = "written" =>
          \A w \in txn[c].rows : w[1] = e => w[2] = before[e]
    /\ txn[c].op \in {"failed", "restated"} /\ txn[c].stage = "waiting" =>
          (<<e, prior[c][e]>> \in txn[c].seen <=> e \in Unlockable(c))
    /\ txn[c].op \in {"failed", "restated"} /\ txn[c].stage = "written" =>
          (e \in RowsOf(c) <=> e \in Unlockable(c))

Sound(e) ==
    /\ estatus[e] = "LOCKED" <=> Holders(e) # {}
    /\ estatus[e] # "LOCKED" => estatus[e] = before[e]
    /\ \A c \in Holders(e) : prior[c][e] = before[e]
    /\ \A c \in Closures : Exact(c, e)

RaceInv == TxInv /\ Apart /\ Covers /\ \A e \in Envelopes \ raced : Sound(e)

LEMMA InitRaceInv == Init => RaceInv
<1> SUFFICES ASSUME Init PROVE RaceInv
  OBVIOUS
<1>1. TxInv
  BY InitTxInv
<1>2. \A e \in Envelopes : Holders(e) = {}
  BY DEF Init, Holders, Holding
<1>3. \A e \in Envelopes : Sound(e)
  BY <1>2 DEF Init, Sound, Exact, Idle, WorkStatus
<1>4. Apart /\ Covers
  BY DEF Init, Apart, Covers, Idle
<1> QED BY <1>1, <1>3, <1>4 DEF RaceInv

\* The rows a transaction has written are those of its period.
LEMMA RowsCovered ==
    ASSUME TxInv, Covers, NEW c \in Closures, txn[c].stage = "written"
    PROVE  RowsOf(c) \subseteq Overlapping[PeriodOf[c]] /\ RowsOf(c) \subseteq Envelopes
<1>1. txn[c] \in Transaction /\ TxOK(c)
  BY DEF TxInv
<1>2. CASE txn[c].op = "start"
  BY <1>2, ConstantsAssumption DEF Covers
<1>3. CASE txn[c].op \in {"failed", "restated"}
  <2>1. \A w \in txn[c].rows : w[1] \in Envelopes /\ prior[c][w[1]] # None
    BY <1>1, <1>3 DEF TxOK, Transaction, Marks
  <2> QED BY <2>1 DEF Covers, RowsOf
<1>4. CASE txn[c].op = "idle"
  BY <1>1, <1>4 DEF TxOK, Idle
<1> QED BY <1>1, <1>2, <1>3, <1>4 DEF Transaction

\* Transactions that begin, end or wait disturb neither Apart nor Covers.
LEMMA RowsStay ==
    ASSUME Apart, Covers, UNCHANGED prior,
           \A x \in Closures : txn'[x] = txn[x] \/ txn'[x].stage # "written"
    PROVE  Apart' /\ Covers'
<1>1. Apart'
  BY DEF Apart, RowsOf
<1>2. Covers'
  BY DEF Covers, RowsOf
<1> QED BY <1>1, <1>2

\* Nor does a transaction that writes rows nobody else has written.
LEMMA RowsWritten ==
    ASSUME Apart, Covers, UNCHANGED prior, NEW c \in Closures, NEW S, Free(S),
           RowsOf(c)' \subseteq S,
           txn'[c].op = "start" => RowsOf(c)' = Overlapping[PeriodOf[c]],
           \A x \in Closures : x # c => txn'[x] = txn[x]
    PROVE  Apart' /\ Covers'
<1>1. \A x \in Closures : x # c => RowsOf(x)' = RowsOf(x)
  BY DEF RowsOf
<1>2. \A x \in Closures : x # c /\ txn'[x].stage = "written" => RowsOf(x)' \cap RowsOf(c)' = {}
  BY <1>1 DEF Free
<1>3. Apart'
  BY <1>1, <1>2 DEF Apart
<1>4. Covers'
  BY <1>1 DEF Covers
<1> QED BY <1>3, <1>4

\* A step that leaves e and its closures alone, but for transactions that are exact.
LEMMA SoundStays ==
    ASSUME NEW e \in Envelopes, Sound(e),
           estatus'[e] = estatus[e], before'[e] = before[e], UNCHANGED prior,
           \A x \in Closures : Holding(x)' = Holding(x),
           \A x \in Closures : txn'[x] = txn[x] \/ Exact(x, e)'
    PROVE  Sound(e)'
<1>1. Holders(e)' = Holders(e)
  BY DEF Holders
<1>2. \A x \in Closures : e \in Unlockable(x)' <=> e \in Unlockable(x)
  BY <1>1 DEF Unlockable
<1>3. ASSUME NEW x \in Closures, txn'[x] = txn[x] PROVE Exact(x, e)'
  BY <1>2, <1>3 DEF Sound, Exact, RowsOf
<1> QED BY <1>1, <1>3 DEF Sound

LEMMA StartBegins ==
    ASSUME RaceInv, TxInv', NEW c \in Closures, BeginStart(c)
    PROVE  RaceInv'
<1> DEFINE S == {<<e, prior[x][e]>> : e \in Overlapping[PeriodOf[c]], x \in {y \in Closures : Holding(y)}}
<1>1. /\ txn' = [txn EXCEPT ![c] = Waiting("start", S)]
      /\ UNCHANGED <<estatus, cStatus, prior, history>>
  BY DEF BeginStart
<1>2. txn \in [Closures -> Transaction]
  BY DEF RaceInv, TxInv
<1>3. Apart' /\ Covers'
  <2>1. \A x \in Closures : txn'[x] = txn[x] \/ txn'[x].stage # "written"
    BY <1>1, <1>2 DEF Waiting
  <2> QED BY <1>1, <2>1, RowsStay DEF RaceInv
<1>4. ASSUME NEW e \in Envelopes \ raced' PROVE Sound(e)'
  <2>1. Sound(e)
    BY <1>1 DEF history, RaceInv
  <2>2. ASSUME e \in Overlapping[PeriodOf[c]], NEW s \in WorkStatus, estatus[e] = "LOCKED"
        PROVE  <<e, s>> \in S <=> s = before[e]
    <3>1. Holders(e) # {} /\ \A x \in Holders(e) : prior[x][e] = before[e]
      BY <2>1, <2>2 DEF Sound
    <3>2. <<e, s>> \in S <=> \E x \in Closures : Holding(x) /\ prior[x][e] = s
      BY <2>2
    <3>3. s # None
      BY ConstantsAssumption DEF WorkStatus
    <3> QED BY <3>1, <3>2, <3>3 DEF Holders
  <2>3. txn'[c] = Waiting("start", S)
    BY <1>1, <1>2
  <2> HIDE DEF S
  <2>4. Exact(c, e)'
    BY <1>1, <2>2, <2>3 DEF Exact, Waiting, history
  <2>5. \A x \in Closures : txn'[x] = txn[x] \/ Exact(x, e)'
    BY <1>1, <1>2, <2>4
  <2> QED BY <1>1, <2>1, <2>5, SoundStays DEF history, Holding
<1> QED BY <1>3, <1>4 DEF RaceInv

LEMMA StartLocks ==
    ASSUME RaceInv, TxInv', NEW c \in Closures, LockEnvelopes(c)
    PROVE  RaceInv'
<1> DEFINE S == Overlapping[PeriodOf[c]]
<1>1. PICK f \in [S -> WorkStatus \cup {"LOCKED"}] :
         /\ \A e \in S : f[e] \in Recordable(c, e)
         /\ txn' = [txn EXCEPT ![c] = Written("start", {<<e, f[e]>> : e \in S}, facts[PeriodOf[c]])]
  BY DEF LockEnvelopes
<1> DEFINE R == {<<e, f[e]>> : e \in S}
<1>2. txn \in [Closures -> Transaction] /\ UNCHANGED <<estatus, cStatus, prior, before, raced>>
  BY DEF RaceInv, TxInv, LockEnvelopes
<1>3. txn'[c] = Written("start", R, facts[PeriodOf[c]]) /\ \A x \in Closures : x # c => txn'[x] = txn[x]
  BY <1>1, <1>2
<1>4. Apart' /\ Covers'
  <2>1. {w[1] : w \in R} = S
    <3>1. \A w \in R : w[1] \in S
      OBVIOUS
    <3>2. ASSUME NEW e \in S PROVE \E w \in R : w[1] = e
      <4>1. <<e, f[e]>> \in R
        OBVIOUS
      <4> QED BY <4>1
    <3> HIDE DEF R
    <3> QED BY <3>1, <3>2
  <2>2. RowsOf(c)' = S
    BY <1>3, <2>1 DEF RowsOf, Written
  <2>3. Free(S)
    BY DEF LockEnvelopes
  <2> QED BY <1>2, <1>3, <2>2, <2>3, RowsWritten DEF RaceInv
<1>5. ASSUME NEW e \in Envelopes \ raced' PROVE Sound(e)'
  <2>1. Sound(e)
    BY <1>2, <1>5 DEF RaceInv
  <2>2. ASSUME e \in S PROVE f[e] = before[e]
    <3>1. before[e] \in WorkStatus
      BY DEF RaceInv, TxInv, TypeOK
    <3>2. estatus[e] # "LOCKED" => estatus[e] = before[e]
      BY <2>1 DEF Sound
    <3>3. estatus[e] = "LOCKED" => {s \in WorkStatus : <<e, s>> \in txn[c].seen} = {before[e]}
      BY <2>1, <2>2, <3>1 DEF Sound, Exact, LockEnvelopes
    <3> QED BY <1>1, <2>2, <3>2, <3>3 DEF Recordable
  <2>3. \A w \in R : w[1] = e => w[2] = before[e]
    BY <2>2
  <2> HIDE DEF R
  <2>4. Exact(c, e)'
    BY <1>2, <1>3, <2>3 DEF Exact, Written
  <2> QED BY <1>2, <1>3, <2>1, <2>4, SoundStays DEF Holding
<1> QED BY <1>4, <1>5 DEF RaceInv

LEMMA ReleaseBegins ==
    ASSUME RaceInv, TxInv', NEW c \in Closures, NEW op \in {"failed", "restated"},
           NEW from \in {"closing", "closed"}, BeginRelease(c, op, from)
    PROVE  RaceInv'
<1> DEFINE S == {<<e, prior[c][e]>> : e \in Unlockable(c)}
<1>1. txn \in [Closures -> Transaction] /\ UNCHANGED <<estatus, cStatus, prior, before, raced>>
  BY DEF RaceInv, TxInv, BeginRelease, history
<1>2. txn'[c] = Waiting(op, S) /\ \A x \in Closures : x # c => txn'[x] = txn[x]
  BY <1>1 DEF BeginRelease
<1>3. Apart' /\ Covers'
  <2>1. \A x \in Closures : txn'[x] = txn[x] \/ txn'[x].stage # "written"
    BY <1>2 DEF Waiting
  <2> QED BY <1>1, <2>1, RowsStay DEF RaceInv
<1>4. ASSUME NEW e \in Envelopes \ raced' PROVE Sound(e)'
  <2>1. Sound(e)
    BY <1>1, <1>4 DEF RaceInv
  <2>2. <<e, prior[c][e]>> \in S <=> e \in Unlockable(c)
    OBVIOUS
  <2>3. e \in Unlockable(c)' <=> e \in Unlockable(c)
    BY <1>1 DEF Unlockable, Holders, Holding
  <2> HIDE DEF S
  <2>4. Exact(c, e)'
    BY <1>1, <1>2, <2>2, <2>3 DEF Exact, Waiting
  <2> QED BY <1>1, <1>2, <2>1, <2>4, SoundStays DEF Holding
<1> QED BY <1>3, <1>4 DEF RaceInv

LEMMA ReleaseUnlocks ==
    ASSUME RaceInv, TxInv', NEW c \in Closures, Unlock(c)
    PROVE  RaceInv'
<1> DEFINE R == {w \in txn[c].seen : estatus[w[1]] = "LOCKED"}
<1>1. txn \in [Closures -> Transaction] /\ TxOK(c) /\ UNCHANGED <<estatus, cStatus, prior, before, raced>>
  BY DEF RaceInv, TxInv, Unlock, history
<1>2. txn'[c] = Written(txn[c].op, R, 0) /\ \A x \in Closures : x # c => txn'[x] = txn[x]
  BY <1>1 DEF Unlock
<1>3. RowsOf(c)' = {w[1] : w \in R}
  BY <1>2 DEF RowsOf, Written
<1>4. Apart' /\ Covers'
  <2>1. Free({w[1] : w \in txn[c].seen}) /\ txn[c].op # "start"
    BY DEF Unlock
  <2>2. RowsOf(c)' \subseteq {w[1] : w \in txn[c].seen}
    BY <1>3
  <2>3. txn'[c].op # "start"
    BY <1>2, <2>1 DEF Written
  <2> QED BY <1>1, <1>2, <2>1, <2>2, <2>3, RowsWritten DEF RaceInv
<1>5. ASSUME NEW e \in Envelopes \ raced' PROVE Sound(e)'
  <2>1. Sound(e)
    BY <1>1, <1>5 DEF RaceInv
  <2>2. e \in RowsOf(c)' <=> <<e, prior[c][e]>> \in R
    <3>1. \A w \in txn[c].seen : w = <<w[1], w[2]>> /\ w[2] = prior[c][w[1]]
      BY <1>1 DEF TxOK, Transaction, Marks, Unlock
    <3> QED BY <1>3, <3>1
  <2>3. <<e, prior[c][e]>> \in R <=> e \in Unlockable(c)
    <3>1. <<e, prior[c][e]>> \in txn[c].seen <=> e \in Unlockable(c)
      BY <2>1 DEF Sound, Exact, Unlock
    <3> QED BY <3>1 DEF Unlockable
  <2>4. e \in Unlockable(c)' <=> e \in Unlockable(c)
    BY <1>1 DEF Unlockable, Holders, Holding
  <2>5. txn'[c].stage = "written" /\ txn'[c].op # "start"
    BY <1>2 DEF Written, Unlock
  <2>6. Exact(c, e)'
    BY <2>2, <2>3, <2>4, <2>5 DEF Exact
  <2> QED BY <1>1, <1>2, <2>1, <2>6, SoundStays DEF Holding
<1> QED BY <1>4, <1>5 DEF RaceInv

\* A start that commits goes over whoever waits for its envelopes and would miss it.
LEMMA StartCommits ==
    ASSUME RaceInv, TxInv', NEW c \in Closures, CommitStart(c)
    PROVE  RaceInv'
<1> USE ConstantsAssumption
<1>1. /\ txn \in [Closures -> Transaction] /\ TypeOK /\ TxOK(c)
      /\ txn'[c] = Idle /\ \A x \in Closures : x # c => txn'[x] = txn[x]
      /\ before' = before /\ raced' = raced \cup Met(c)
  BY DEF RaceInv, TxInv, CommitStart
<1>2. /\ ~ Holding(c) /\ Holding(c)'
      /\ \A x \in Closures : x # c => Holding(x)' = Holding(x) /\ prior'[x] = prior[x]
  BY <1>1 DEF CommitStart, Holding, TxOK, TypeOK
<1>3. RowsOf(c) = Overlapping[PeriodOf[c]] /\ RowsOf(c) \subseteq Envelopes
  BY RowsCovered DEF RaceInv, Covers, CommitStart
<1>4. \A e \in Envelopes : prior'[c][e] = IF e \in RowsOf(c)
         THEN CHOOSE s \in WorkStatus \cup {"LOCKED"} : <<e, s>> \in txn[c].rows ELSE None
  BY <1>1 DEF CommitStart, TypeOK
<1>5. \A e \in Envelopes : estatus'[e] = IF e \in RowsOf(c) THEN "LOCKED" ELSE estatus[e]
  BY DEF CommitStart
<1>6. \A e \in RowsOf(c) :
         /\ <<e, prior'[c][e]>> \in txn[c].rows /\ prior'[c][e] # None
         /\ prior'[c][e] \in WorkStatus
  <2> TAKE e \in RowsOf(c)
  <2>1. PICK s \in WorkStatus : <<e, s>> \in txn[c].rows
    BY <1>1 DEF RowsOf, TxOK, CommitStart
  <2>2. <<e, prior'[c][e]>> \in txn[c].rows
    BY <1>3, <1>4, <2>1
  <2>3. prior'[c][e] \in WorkStatus
    BY <1>1, <2>2 DEF TxOK, CommitStart
  <2> QED BY <2>2, <2>3 DEF WorkStatus
<1>7. \A e \in Envelopes : Holders(e)' = IF e \in RowsOf(c) THEN Holders(e) \cup {c} ELSE Holders(e)
  BY <1>2, <1>4, <1>6 DEF Holders
<1>8. \A e \in Envelopes \ RowsOf(c), x \in Closures : x # c => prior'[x] = prior[x]
  BY <1>2
<1>9. Apart' /\ Covers'
  <2>1. \A x \in Closures : txn'[x].stage = "written" => x # c /\ txn[x].stage = "written"
    BY <1>1 DEF Idle
  <2>2. \A x \in Closures : x # c => RowsOf(x)' = RowsOf(x)
    BY <1>1 DEF RowsOf
  <2>3. Apart'
    BY <2>1, <2>2 DEF RaceInv, Apart
  <2>4. \A x \in Closures, e \in Envelopes : prior'[x][e] # None => e \in Overlapping[PeriodOf[x]]
    <3> TAKE x \in Closures, e \in Envelopes
    <3>1. x = c /\ prior'[x][e] # None => e \in RowsOf(c)
      BY <1>4
    <3>2. x # c => prior'[x] = prior[x]
      BY <1>2
    <3> QED BY <1>3, <3>1, <3>2 DEF RaceInv, Covers
  <2>5. \A x \in Closures :
           txn'[x].op = "start" /\ txn'[x].stage = "written" => RowsOf(x)' = Overlapping[PeriodOf[x]]
    BY <1>1, <2>1, <2>2 DEF RaceInv, Covers
  <2>6. Covers'
    BY <2>4, <2>5 DEF Covers
  <2> QED BY <2>3, <2>6
<1>10. ASSUME NEW e \in Envelopes \ raced' PROVE Sound(e)'
  <2>1. Sound(e) /\ e \notin Met(c)
    BY <1>1, <1>10 DEF RaceInv
  <2>2. /\ estatus'[e] = "LOCKED" <=> Holders(e)' # {}
        /\ estatus'[e] # "LOCKED" => estatus'[e] = before'[e]
    BY <1>1, <1>5, <1>7, <2>1 DEF Sound
  <2>3. \A x \in Holders(e)' : prior'[x][e] = before'[e]
    <3>1. e \in RowsOf(c) => prior'[c][e] = before[e]
      BY <1>6, <2>1 DEF Sound, Exact, CommitStart
    <3>2. c \notin Holders(e)
      BY <1>2 DEF Holders
    <3> QED BY <1>1, <1>2, <1>7, <2>1, <3>1, <3>2 DEF Sound, Holders
  <2>4. ASSUME NEW x \in Closures PROVE Exact(x, e)'
    <3>1. CASE x = c
      BY <1>1, <3>1 DEF Exact, Idle
    <3>2. CASE x # c
      <4>1. txn'[x] = txn[x] /\ prior'[x] = prior[x] /\ RowsOf(x)' = RowsOf(x) /\ Exact(x, e) /\ TxOK(x)
        BY <1>1, <1>2, <2>1, <3>2 DEF RowsOf, Sound, RaceInv, TxInv
      <4>2. ASSUME txn[x].op = "start", txn[x].stage = "waiting", e \in Overlapping[PeriodOf[x]]
            PROVE  estatus'[e] = "LOCKED" => estatus[e] = "LOCKED"
        <5>1. e \in RowsOf(c) => ~ Race(c, x, e)
          BY <1>3, <2>1, <3>2, <4>2 DEF Met
        <5> QED BY <1>5, <4>2, <5>1 DEF Race, CommitStart
      <4>3. ASSUME txn[x].op \in {"failed", "restated"}, txn[x].stage \in {"waiting", "written"},
                   e \in RowsOf(c), e \in Unlockable(x)
            PROVE  FALSE
        <5>1. prior[x][e] # None /\ e \in Overlapping[PeriodOf[x]] /\ e \in Overlapping[PeriodOf[c]]
          BY <1>3, <4>3 DEF Unlockable, RaceInv, Covers
        <5>2. ~ Race(c, x, e)
          BY <2>1, <3>2, <5>1 DEF Met
        <5>3. txn[x].stage # "waiting"
          BY <4>1, <4>3, <5>2 DEF Race, Exact, CommitStart
        <5>4. txn[x].stage # "written"
          BY <3>2, <4>1, <4>3 DEF Exact, RaceInv, Apart, CommitStart
        <5> QED BY <4>3, <5>3, <5>4
      <4>4. ASSUME txn[x].op \in {"failed", "restated"}, txn[x].stage \in {"waiting", "written"}
            PROVE  e \in Unlockable(x)' <=> e \in Unlockable(x)
        <5>1. Holding(x) /\ Holding(x)'
          BY <1>2, <3>2, <4>1, <4>4 DEF TxOK
        <5>2. CASE e \in RowsOf(c)
          <6>1. e \notin Unlockable(x)'
            BY <1>7, <3>2, <5>2 DEF Unlockable
          <6> QED BY <4>3, <4>4, <5>2, <6>1
        <5>3. CASE e \notin RowsOf(c)
          BY <1>5, <1>7, <4>1, <5>3 DEF Unlockable
        <5> QED BY <5>2, <5>3
      <4> QED BY <1>1, <4>1, <4>2, <4>4 DEF Exact
    <3> QED BY <3>1, <3>2
  <2> QED BY <2>2, <2>3, <2>4 DEF Sound
<1> QED BY <1>9, <1>10 DEF RaceInv

\* What a release gives back is what the envelopes had, and what others cover
\* stays locked.
LEMMA ReleaseCommits ==
    ASSUME RaceInv, TxInv', NEW c \in Closures, CommitRelease(c)
    PROVE  RaceInv'
<1> USE ConstantsAssumption
<1>1. /\ txn \in [Closures -> Transaction] /\ TypeOK /\ TxOK(c)
      /\ txn'[c] = Idle /\ \A x \in Closures : x # c => txn'[x] = txn[x]
      /\ before' = before /\ prior' = prior /\ raced' = raced \cup Met(c)
  BY DEF RaceInv, TxInv, CommitRelease
<1>2. /\ Holding(c) /\ ~ Holding(c)'
      /\ \A x \in Closures : x # c => Holding(x)' = Holding(x)
  BY <1>1 DEF CommitRelease, Holding, TxOK, TypeOK
<1>3. \A e \in Envelopes : Holders(e)' = Holders(e) \ {c}
  BY <1>1, <1>2 DEF Holders
<1>4. \A e \in Envelopes : estatus'[e] = IF e \in RowsOf(c) THEN prior[c][e] ELSE estatus[e]
  BY DEF CommitRelease
<1>5. Apart' /\ Covers'
  <2>1. \A x \in Closures : txn'[x] = txn[x] \/ txn'[x].stage # "written"
    BY <1>1 DEF Idle
  <2> QED BY <1>1, <2>1, RowsStay DEF RaceInv
<1>6. ASSUME NEW e \in Envelopes \ raced' PROVE Sound(e)'
  <2>1. Sound(e) /\ e \notin Met(c) /\ before[e] \in WorkStatus
    BY <1>1, <1>6 DEF RaceInv, TypeOK
  <2>2. e \in RowsOf(c) <=> e \in Unlockable(c)
    BY <2>1 DEF Sound, Exact, CommitRelease
  <2>3. e \in Unlockable(c) => Holders(e) = {c} /\ prior[c][e] = before[e]
    BY <1>2, <2>1 DEF Unlockable, Holders, Sound
  <2>4. e \notin Unlockable(c) /\ c \in Holders(e) => Holders(e) \ {c} # {}
    BY <2>1 DEF Unlockable, Holders, Sound
  <2>5. /\ estatus'[e] = "LOCKED" <=> Holders(e)' # {}
        /\ estatus'[e] # "LOCKED" => estatus'[e] = before'[e]
    <3>1. CASE e \in Unlockable(c)
      BY <1>1, <1>3, <1>4, <2>1, <2>2, <2>3, <3>1 DEF WorkStatus
    <3>2. CASE e \notin Unlockable(c)
      BY <1>1, <1>3, <1>4, <2>1, <2>2, <2>4, <3>2 DEF Sound
    <3> QED BY <3>1, <3>2
  <2>6. \A x \in Holders(e)' : prior'[x][e] = before'[e]
    BY <1>1, <1>3, <2>1 DEF Sound
  <2>7. ASSUME NEW x \in Closures PROVE Exact(x, e)'
    <3>1. CASE x = c
      BY <1>1, <3>1 DEF Exact, Idle
    <3>2. CASE x # c
      <4>1. txn'[x] = txn[x] /\ RowsOf(x)' = RowsOf(x) /\ Exact(x, e) /\ TxOK(x)
        BY <1>1, <2>1, <3>2 DEF RowsOf, Sound, RaceInv, TxInv
      <4>2. estatus'[e] = "LOCKED" => estatus[e] = "LOCKED"
        BY <1>1, <1>3, <2>1, <2>5 DEF Sound
      <4>3. ASSUME txn[x].op \in {"failed", "restated"}
            PROVE  e \in Unlockable(x)' <=> e \in Unlockable(x)
        <5>1. Holding(x) /\ Holding(x)'
          BY <1>2, <3>2, <4>1, <4>3 DEF TxOK
        <5>2. CASE e \in Unlockable(x)
          <6>1. c \notin Holders(e) /\ e \notin RowsOf(c)
            BY <1>2, <2>2, <2>3, <3>2, <5>2 DEF Unlockable
          <6> QED BY <1>1, <1>3, <1>4, <5>2, <6>1 DEF Unlockable
        <5>3. CASE e \notin Unlockable(x) /\ prior[x][e] # None
          <6>1. x \in Holders(e) /\ estatus[e] = "LOCKED"
            BY <2>1, <5>1, <5>3 DEF Holders, Sound
          <6>2. Holders(e) # {c, x}
            <7>1. c \in Holders(e) => e \in Overlapping[PeriodOf[c]] /\ e \in Overlapping[PeriodOf[x]]
              BY <5>3 DEF Holders, RaceInv, Covers
            <7>2. c \in Holders(e) => ~ Race(c, x, e)
              BY <2>1, <3>2, <7>1 DEF Met
            <7> QED BY <4>3, <7>2 DEF Race, CommitRelease
          <6>3. \E y \in Closures : y \in Holders(e) /\ y # c /\ y # x
            BY <5>3, <6>1, <6>2 DEF Unlockable, Holders
          <6> QED BY <1>3, <5>3, <6>3 DEF Unlockable
        <5>4. CASE prior[x][e] = None
          BY <1>1, <5>4 DEF Unlockable
        <5> QED BY <5>2, <5>3, <5>4
      <4> QED BY <1>1, <4>1, <4>2, <4>3 DEF Exact
    <3> QED BY <3>1, <3>2
  <2> QED BY <2>5, <2>6, <2>7 DEF Sound
<1> QED BY <1>5, <1>6 DEF RaceInv

\* Work goes on where nothing is locked, and waits for whoever is about to lock.
LEMMA WorkGoesOn ==
    ASSUME RaceInv, TxInv', NEW d \in Envelopes, NEW s \in WorkStatus, Work(d, s)
    PROVE  RaceInv'
<1>1. /\ TypeOK /\ UNCHANGED <<cStatus, prior, txn, raced>>
      /\ estatus[d] # "LOCKED" /\ estatus'[d] = s /\ before'[d] = s
      /\ \A e \in Envelopes : e # d => estatus'[e] = estatus[e] /\ before'[e] = before[e]
  BY DEF RaceInv, TxInv, TypeOK, Work
<1>2. Apart' /\ Covers'
  BY <1>1, RowsStay DEF RaceInv
<1>3. ASSUME NEW e \in Envelopes \ raced' PROVE Sound(e)'
  <2>1. Sound(e)
    BY <1>1, <1>3 DEF RaceInv
  <2>2. CASE e # d
    BY <1>1, <2>1, <2>2, SoundStays DEF Holding
  <2>3. CASE e = d
    <3>1. Holders(e) = {} /\ Holders(e)' = {} /\ estatus'[e] # "LOCKED"
      BY <1>1, <2>1, <2>3 DEF Sound, Holders, Holding, WorkStatus
    <3>2. ASSUME NEW x \in Closures PROVE Exact(x, e)'
      <4>1. txn'[x] = txn[x] /\ RowsOf(x)' = RowsOf(x) /\ Exact(x, e) /\ TxOK(x)
        BY <1>1, <2>1 DEF RowsOf, Sound, RaceInv, TxInv
      <4>2. txn[x].stage = "written" => \A w \in txn[x].rows : w[1] # e
        BY <2>3 DEF Work, Free, RowsOf
      <4>3. e \in Unlockable(x)' <=> e \in Unlockable(x)
        BY <1>1, <2>3, <3>1 DEF Unlockable
      <4> QED BY <1>1, <3>1, <4>1, <4>2, <4>3 DEF Exact
    <3> QED BY <1>1, <2>3, <3>1, <3>2 DEF Sound
  <2> QED BY <2>2, <2>3
<1> QED BY <1>2, <1>3 DEF RaceInv

\* Steps that touch no envelope and no transaction, but for one that is rolled back.
LEMMA QuietStep ==
    ASSUME RaceInv, TxInv', UNCHANGED <<estatus, prior, before, raced>>,
           \A x \in Closures : Holding(x)' = Holding(x),
           \A x \in Closures : txn'[x] = txn[x] \/ txn'[x] = Idle
    PROVE  RaceInv'
<1>1. Apart' /\ Covers'
  BY RowsStay DEF RaceInv, Idle
<1>2. ASSUME NEW e \in Envelopes \ raced' PROVE Sound(e)'
  <2>1. \A x \in Closures : txn'[x] = txn[x] \/ Exact(x, e)'
    BY DEF Exact, Idle
  <2> QED BY <1>2, <2>1, SoundStays DEF RaceInv
<1> QED BY <1>1, <1>2 DEF RaceInv

\* Every step keeps it.
LEMMA RaceStep == RaceInv /\ [Next]_vars => RaceInv'
<1> SUFFICES ASSUME RaceInv, [Next]_vars PROVE RaceInv'
  OBVIOUS
<1> USE DEF history
<1>1. TxInv /\ TxInv'
  BY TxStep DEF RaceInv
<1>2. ASSUME NEW c \in Closures, BeginStart(c) \/ LockEnvelopes(c) \/ CommitStart(c) PROVE RaceInv'
  BY <1>1, <1>2, StartBegins, StartLocks, StartCommits
<1>3. ASSUME NEW c \in Closures, Fail(c) \/ Abandon(c) \/ Restate(c) PROVE RaceInv'
  BY <1>1, <1>3, ReleaseBegins DEF Fail, Abandon, Restate
<1>4. ASSUME NEW c \in Closures, Unlock(c) \/ CommitRelease(c) PROVE RaceInv'
  BY <1>1, <1>4, ReleaseUnlocks, ReleaseCommits
<1>5. ASSUME NEW c \in Closures, NEW outcome, SinkAnswers(c, outcome) PROVE RaceInv'
  BY <1>1, <1>5, QuietStep DEF SinkAnswers, Holding
<1>6. ASSUME NEW c \in Closures, Finish(c) PROVE RaceInv'
  <2>1. \A x \in Closures : Holding(x)' = Holding(x)
    BY <1>1, <1>6 DEF Finish, Holding, TxInv, TypeOK
  <2> QED BY <1>1, <1>6, <2>1, QuietStep DEF Finish
<1>7. ASSUME NEW c \in Closures, Rollback(c) PROVE RaceInv'
  <2>1. \A x \in Closures : txn'[x] = txn[x] \/ txn'[x] = Idle
    BY <1>1, <1>7 DEF Rollback, TxInv
  <2> QED BY <1>1, <1>7, <2>1, QuietStep DEF Rollback, Holding
<1>8. ASSUME NEW e \in Envelopes, NEW s \in WorkStatus, Work(e, s) PROVE RaceInv'
  BY <1>1, <1>8, WorkGoesOn
<1>9. ASSUME NEW i \in Runs \cup Entries, ReadClosed(i) \/ EndLoad(i) \/ \E p \in Periods : WriteFacts(i, p)
      PROVE  RaceInv'
  BY <1>1, <1>9, QuietStep DEF ReadClosed, EndLoad, WriteFacts, Holding
<1>10. CASE UNCHANGED vars
  BY <1>1, <1>10, QuietStep DEF vars, Holding
<1> QED BY <1>2, <1>3, <1>4, <1>5, <1>6, <1>7, <1>8, <1>9, <1>10 DEF Next

LEMMA RaceInvHolds == Spec => []RaceInv
BY InitRaceInv, RaceStep, PTL DEF Spec

\* However closes, failures, abandonments and restatements overlap in time, an
\* envelope that none of the three races went over is LOCKED exactly while a closure
\* that holds covers it (closures.ts:4).
THEOREM LockedCorrect == Spec => []LockedUnlessRaced
<1>1. RaceInv => LockedUnlessRaced
  BY DEF RaceInv, Sound, LockedUnlessRaced
<1> QED BY <1>1, RaceInvHolds, PTL

\* What is recorded for such an envelope and given back to it is what it had before
\* the first of them (lockPeriodEnvelopes, unlockClosureEnvelopes).
THEOREM RestoredCorrect == Spec => []RestoredUnlessRaced
<1>1. RaceInv => RestoredUnlessRaced
  BY DEF RaceInv, Sound, RestoredUnlessRaced
<1> QED BY <1>1, RaceInvHolds, PTL

-----------------------------------------------------------------------------
(* The figures of closed periods *)

Loads == Runs \cup Entries

\* The loads of early[c] that have ended, and the room they leave above n.
Past(c) == {i \in early[c] : load[i].done}
Within(c, n) == n <= facts[PeriodOf[c]] /\ facts[PeriodOf[c]] <= n + Cardinality(Past(c))

\* A load under way looked before c was committed, or found its period closed.
FiguresInv ==
    /\ TxInv
    /\ \A i \in Loads : load[i].on => ~ load[i].done
    /\ \A c \in Closures :
          txn[c].op = "start" /\ txn[c].stage = "written" =>
             Within(c, txn[c].report) /\ \A i \in Loads : load[i].on => i \in early[c]
    /\ \A c \in Closures :
          Holding(c) =>
             Within(c, report[c]) /\ \A i \in Loads :
                load[i].on => i \in early[c] \/ PeriodOf[c] \in load[i].closed

LEMMA InitFiguresInv == Init => FiguresInv
<1> SUFFICES ASSUME Init PROVE FiguresInv
  OBVIOUS
<1>1. TxInv
  BY InitTxInv
<1> QED BY <1>1 DEF Init, FiguresInv, Loads, Holding, Idle

LEMMA PastFinite == ASSUME TypeOK, NEW c \in Closures PROVE IsFiniteSet(Past(c))
<1>1. IsFiniteSet(Runs \cup Entries)
  BY FS_Union, ConstantsAssumption
<1>2. Past(c) \subseteq Runs \cup Entries
  BY DEF Past, TypeOK
<1> QED BY <1>1, <1>2, FS_Subset

\* Steps that load nothing: what was committed or written stays, and a transaction
\* that freezes figures now freezes what there is.
LEMMA FiguresStay ==
    ASSUME FiguresInv, TxInv', UNCHANGED <<facts, report, load>>,
           \A x \in Closures : Holding(x)' => Holding(x),
           \A x \in Closures :
              \/ early'[x] = early[x] /\ (txn'[x] = txn[x] \/ txn'[x].op # "start" \/ txn'[x].stage # "written")
              \/ /\ ~ Holding(x)' /\ txn'[x].report = facts[PeriodOf[x]]
                 /\ early'[x] = {i \in Loads : load[i].on}
    PROVE  FiguresInv'
<1>1. TypeOK /\ facts \in [Periods -> Nat] /\ \A x \in Closures : PeriodOf[x] \in Periods
  BY ConstantsAssumption DEF FiguresInv, TxInv, TypeOK
<1>2. \A i \in Loads : load'[i].on => ~ load'[i].done
  BY DEF FiguresInv
<1>3. ASSUME NEW c \in Closures, early'[c] = early[c] PROVE \A n : Within(c, n)' <=> Within(c, n)
  BY <1>3 DEF Within, Past
<1>4. ASSUME NEW c \in Closures, txn'[c].op = "start", txn'[c].stage = "written"
      PROVE  Within(c, txn[c].report)' /\ \A i \in Loads : load'[i].on => i \in early'[c]
  <2>1. CASE early'[c] = early[c] /\ txn'[c] = txn[c]
    BY <1>3, <1>4, <2>1 DEF FiguresInv
  <2>2. CASE txn'[c].report = facts[PeriodOf[c]] /\ early'[c] = {i \in Loads : load[i].on}
    <3>1. Past(c)' = {}
      BY <2>2 DEF Past, FiguresInv
    <3>2. Cardinality(Past(c)') = 0
      BY <3>1, FS_EmptySet
    <3> QED BY <1>1, <2>2, <3>2 DEF Within
  <2> QED BY <1>4, <2>1, <2>2
<1>5. ASSUME NEW c \in Closures, Holding(c)'
      PROVE  Within(c, report[c])' /\ \A i \in Loads :
                load'[i].on => i \in early'[c] \/ PeriodOf[c] \in load'[i].closed
  <2>1. early'[c] = early[c] /\ Holding(c)
    BY <1>5
  <2> QED BY <1>3, <2>1 DEF FiguresInv
<1> QED BY <1>2, <1>4, <1>5 DEF FiguresInv

\* What a start has written becomes the closure's report.
LEMMA FiguresCommit ==
    ASSUME FiguresInv, TxInv', NEW c \in Closures, CommitStart(c)
    PROVE  FiguresInv'
<1>1. /\ TypeOK /\ txn \in [Closures -> Transaction] /\ UNCHANGED <<facts, load, early>>
      /\ txn'[c] = Idle /\ report'[c] = txn[c].report
      /\ \A x \in Closures : x # c => txn'[x] = txn[x] /\ report'[x] = report[x] /\ cStatus'[x] = cStatus[x]
  BY DEF FiguresInv, TxInv, CommitStart, TypeOK
<1>2. \A x \in Closures : txn'[x].op = "start" => x # c
  BY <1>1 DEF Idle
<1>3. ASSUME NEW x \in Closures, Holding(x)'
      PROVE  Within(x, report'[x]) /\ \A i \in Loads :
                load[i].on => i \in early[x] \/ PeriodOf[x] \in load[i].closed
  <2>1. CASE x = c
    BY <1>1, <2>1 DEF FiguresInv, CommitStart
  <2>2. CASE x # c
    BY <1>1, <1>3, <2>2 DEF FiguresInv, Holding
  <2> QED BY <2>1, <2>2
<1>4. \A x \in Closures : Within(x, report[x])' <=> Within(x, report'[x])
  BY <1>1 DEF Within, Past
<1>5. \A x \in Closures : Within(x, txn[x].report)' <=> Within(x, txn'[x].report)
  BY <1>1 DEF Within, Past
<1> QED BY <1>1, <1>2, <1>3, <1>4, <1>5 DEF FiguresInv

\* A load that looks now finds the closed periods, and the starts under way know it.
LEMMA FiguresLook ==
    ASSUME FiguresInv, TxInv', NEW i \in Loads, ReadClosed(i)
    PROVE  FiguresInv'
<1>1. /\ TypeOK /\ LoadOK /\ UNCHANGED <<facts, report, txn, cStatus>>
      /\ load'[i] = [on |-> TRUE, done |-> FALSE, closed |-> {p \in Periods : Closed(p)}]
      /\ ~ load[i].done /\ \A j \in Loads : j # i => load'[j] = load[j]
  BY DEF FiguresInv, TxInv, ReadClosed, LoadOK, Loads
<1>2. \A c \in Closures :
         /\ early[c] \subseteq early'[c] /\ early'[c] \subseteq early[c] \cup {i}
         /\ txn[c].op = "start" /\ txn[c].stage = "written" => i \in early'[c]
  BY DEF ReadClosed
<1>3. ASSUME NEW c \in Closures PROVE Past(c)' = Past(c)
  <2>1. early[c] \subseteq Loads
    BY <1>1 DEF TypeOK, Loads
  <2> QED BY <1>1, <1>2, <2>1 DEF Past
<1>4. \A j \in Loads : load'[j].on => ~ load'[j].done
  BY <1>1 DEF FiguresInv
<1>5. ASSUME NEW c \in Closures, txn[c].op = "start", txn[c].stage = "written"
      PROVE  Within(c, txn[c].report)' /\ \A j \in Loads : load'[j].on => j \in early'[c]
  <2>1. Within(c, txn[c].report)'
    BY <1>1, <1>3, <1>5 DEF FiguresInv, Within
  <2> QED BY <1>1, <1>2, <1>5, <2>1 DEF FiguresInv
<1>6. ASSUME NEW c \in Closures, Holding(c)
      PROVE  Within(c, report[c])' /\ \A j \in Loads :
                load'[j].on => j \in early'[c] \/ PeriodOf[c] \in load'[j].closed
  <2>1. Within(c, report[c])'
    BY <1>1, <1>3, <1>6 DEF FiguresInv, Within
  <2>2. PeriodOf[c] \in load'[i].closed
    BY <1>1, <1>6, ConstantsAssumption DEF Closed
  <2> QED BY <1>1, <1>2, <1>6, <2>1, <2>2 DEF FiguresInv
<1> QED BY <1>1, <1>4, <1>5, <1>6 DEF FiguresInv, Holding

\* A load that ends adds at most one to a period, and counts where it looked early.
LEMMA FiguresEnd ==
    ASSUME FiguresInv, TxInv', NEW i \in Loads, load[i].on, load' = [load EXCEPT ![i] = Ended],
           UNCHANGED <<report, txn, cStatus, early>>,
           \/ facts' = facts
           \/ \E p \in Periods : p \notin load[i].closed /\ facts' = [facts EXCEPT ![p] = @ + 1]
    PROVE  FiguresInv'
<1>1. /\ TypeOK /\ LoadOK /\ ~ load[i].done
      /\ load'[i] = [on |-> FALSE, done |-> TRUE, closed |-> {}]
      /\ \A j \in Loads : j # i => load'[j] = load[j]
  BY DEF FiguresInv, TxInv, LoadOK, Loads, Ended
<1>2. ASSUME NEW c \in Closures, NEW n \in Nat, Within(c, n),
             i \in early[c] \/ PeriodOf[c] \in load[i].closed
      PROVE  Within(c, n)'
  <2>1. /\ facts[PeriodOf[c]] \in Nat /\ facts'[PeriodOf[c]] \in {facts[PeriodOf[c]], facts[PeriodOf[c]] + 1}
        /\ facts'[PeriodOf[c]] # facts[PeriodOf[c]] => PeriodOf[c] \notin load[i].closed
    BY <1>1, ConstantsAssumption DEF TypeOK
  <2>2. IsFiniteSet(Past(c)) /\ Cardinality(Past(c)) \in Nat /\ i \notin Past(c)
    BY <1>1, PastFinite, FS_CardinalityType DEF Past
  <2>3. early[c] \subseteq Loads
    BY <1>1 DEF TypeOK, Loads
  <2>4. CASE i \in early[c]
    <3>1. Past(c)' = Past(c) \cup {i}
      BY <1>1, <2>3, <2>4 DEF Past
    <3>2. Cardinality(Past(c)') = Cardinality(Past(c)) + 1
      BY <2>2, <3>1, FS_AddElement
    <3> QED BY <1>2, <2>1, <2>2, <3>2 DEF Within
  <2>5. CASE i \notin early[c]
    <3>1. Past(c)' = Past(c)
      BY <1>1, <2>3, <2>5 DEF Past
    <3>2. facts'[PeriodOf[c]] = facts[PeriodOf[c]]
      BY <1>2, <2>1, <2>5
    <3> QED BY <1>2, <3>1, <3>2 DEF Within
  <2> QED BY <2>4, <2>5
<1>3. \A j \in Loads : load'[j].on => ~ load'[j].done
  BY <1>1 DEF FiguresInv
<1>4. ASSUME NEW c \in Closures, txn[c].op = "start", txn[c].stage = "written"
      PROVE  Within(c, txn[c].report)' /\ \A j \in Loads : load'[j].on => j \in early'[c]
  <2>1. txn[c].report \in Nat
    BY DEF FiguresInv, TxInv, Transaction
  <2>2. \A n \in Nat : Within(c, n) => Within(c, n)'
    BY <1>2, <1>4 DEF FiguresInv
  <2>3. Within(c, txn[c].report)'
    BY <1>4, <2>1, <2>2 DEF FiguresInv, Within
  <2> QED BY <1>1, <1>4, <2>3 DEF FiguresInv
<1>5. ASSUME NEW c \in Closures, Holding(c)
      PROVE  Within(c, report[c])' /\ \A j \in Loads :
                load'[j].on => j \in early'[c] \/ PeriodOf[c] \in load'[j].closed
  <2>1. report[c] \in Nat
    BY <1>1 DEF TypeOK
  <2>2. \A n \in Nat : Within(c, n) => Within(c, n)'
    BY <1>2, <1>5 DEF FiguresInv
  <2>3. Within(c, report[c])'
    BY <1>5, <2>1, <2>2 DEF FiguresInv, Within
  <2> QED BY <1>1, <1>5, <2>3 DEF FiguresInv
<1> QED BY <1>3, <1>4, <1>5 DEF FiguresInv, Holding

\* Every step keeps it.
LEMMA FiguresStep == FiguresInv /\ [Next]_vars => FiguresInv'
<1> SUFFICES ASSUME FiguresInv, [Next]_vars PROVE FiguresInv'
  OBVIOUS
<1> USE DEF history
<1>1. TxInv /\ TxInv' /\ TypeOK /\ txn \in [Closures -> Transaction]
  BY TxStep DEF FiguresInv, TxInv
<1>2. ASSUME NEW c \in Closures, BeginStart(c) PROVE FiguresInv'
  <2>1. \A x \in Closures : txn'[x] = txn[x] \/ txn'[x].stage # "written"
    BY <1>1, <1>2 DEF BeginStart, Waiting
  <2> QED BY <1>1, <1>2, <2>1, FiguresStay DEF BeginStart, Holding
<1>3. ASSUME NEW c \in Closures, LockEnvelopes(c) PROVE FiguresInv'
  <2>1. /\ txn'[c].report = facts[PeriodOf[c]] /\ early'[c] = {i \in Loads : load[i].on}
        /\ ~ Holding(c)'
    BY <1>1, <1>3 DEF LockEnvelopes, Written, Loads, TypeOK, TxInv, TxOK, Holding
  <2>2. \A x \in Closures : x # c => txn'[x] = txn[x] /\ early'[x] = early[x]
    BY <1>1, <1>3 DEF LockEnvelopes, TypeOK
  <2> QED BY <1>1, <1>3, <2>1, <2>2, FiguresStay DEF LockEnvelopes, Holding
<1>4. ASSUME NEW c \in Closures, CommitStart(c) PROVE FiguresInv'
  BY <1>1, <1>4, FiguresCommit
<1>5. ASSUME NEW c \in Closures, CommitRelease(c) PROVE FiguresInv'
  <2>1. \A x \in Closures : txn'[x] = txn[x] \/ txn'[x].op # "start"
    BY <1>1, <1>5 DEF CommitRelease, Idle
  <2>2. \A x \in Closures : Holding(x)' => Holding(x)
    BY <1>1, <1>5 DEF CommitRelease, Holding, TypeOK
  <2> QED BY <1>1, <1>5, <2>1, <2>2, FiguresStay DEF CommitRelease
<1>6. ASSUME NEW c \in Closures, Fail(c) \/ Abandon(c) \/ Restate(c) PROVE FiguresInv'
  <2>1. \A x \in Closures : txn'[x] = txn[x] \/ txn'[x].stage # "written"
    BY <1>1, <1>6 DEF Fail, Abandon, Restate, BeginRelease, Waiting
  <2> QED BY <1>1, <1>6, <2>1, FiguresStay DEF Fail, Abandon, Restate, BeginRelease, Holding
<1>7. ASSUME NEW c \in Closures, Unlock(c) PROVE FiguresInv'
  <2>1. \A x \in Closures : txn'[x] = txn[x] \/ txn'[x].op # "start"
    BY <1>1, <1>7 DEF Unlock, Written
  <2> QED BY <1>1, <1>7, <2>1, FiguresStay DEF Unlock, Holding
<1>8. ASSUME NEW c \in Closures, NEW outcome, SinkAnswers(c, outcome) PROVE FiguresInv'
  BY <1>1, <1>8, FiguresStay DEF SinkAnswers, Holding
<1>9. ASSUME NEW c \in Closures, Finish(c) PROVE FiguresInv'
  <2>1. \A x \in Closures : Holding(x)' = Holding(x)
    BY <1>1, <1>9 DEF Finish, Holding, TypeOK
  <2> QED BY <1>1, <1>9, <2>1, FiguresStay DEF Finish
<1>10. ASSUME NEW c \in Closures, Rollback(c) PROVE FiguresInv'
  <2>1. \A x \in Closures : txn'[x] = txn[x] \/ txn'[x].op # "start"
    BY <1>1, <1>10 DEF Rollback, Idle
  <2> QED BY <1>1, <1>10, <2>1, FiguresStay DEF Rollback, Holding
<1>11. ASSUME NEW e \in Envelopes, NEW s \in WorkStatus, Work(e, s) PROVE FiguresInv'
  BY <1>1, <1>11, FiguresStay DEF Work, Holding
<1>12. ASSUME NEW i \in Loads, ReadClosed(i) PROVE FiguresInv'
  BY <1>1, <1>12, FiguresLook
<1>13. ASSUME NEW i \in Loads, EndLoad(i) \/ \E p \in Periods : WriteFacts(i, p) PROVE FiguresInv'
  BY <1>1, <1>13, FiguresEnd DEF EndLoad, WriteFacts
<1>14. CASE UNCHANGED vars
  BY <1>1, <1>14, FiguresStay DEF vars, Holding
<1> QED BY <1>2, <1>3, <1>4, <1>5, <1>6, <1>7, <1>8, <1>9, <1>10, <1>11, <1>12, <1>13, <1>14
       DEF Next, Loads

\* The figures of a period drift from those its closure froze by no more than the
\* loads that looked before the close was committed, ingest runs included: whoever
\* looks later is kept out (pipeline.ts:161, closures.ts:10).
THEOREM ReportCorrect == Spec => []OnlyEarlyLoadsEnter
<1>1. FiguresInv => OnlyEarlyLoadsEnter
  BY DEF FiguresInv, Within, Past, OnlyEarlyLoadsEnter
<1> QED BY <1>1, InitFiguresInv, FiguresStep, PTL DEF Spec
=============================================================================
