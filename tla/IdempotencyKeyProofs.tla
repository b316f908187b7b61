------------------------ MODULE IdempotencyKeyProofs ------------------------
(***************************************************************************)
(* Proofs that a key lets one handler commit, and of what its replays say. *)
(***************************************************************************)
EXTENDS IdempotencyKey, TLAPS

\* Who holds the key and what it remembers, as long as no lease ran out under a
\* handler: whoever is past the claim holds the row, in flight and fresh; the
\* handlers that committed are the holder; a completed row holds its answer.
Holding ==
    /\ \A q \in Requests : pc[q] \in Live =>
          row # None /\ row.by = q /\ row.state = "in_flight" /\ row.age = "fresh"
    /\ \A q \in Requests : pc[q] \in Bodies => q \in runs
    /\ \A q \in runs : row # None /\ row.by = q
    /\ (row # None /\ row.state # "in_flight") => row.by \in runs /\ row.answer = row.by

PrintOfHolder == row # None => row.print = PrintOf[row.by]

KeyInv == TypeOK /\ PrintOfHolder /\ (overrun = {} => Holding)

LEMMA InitKeyInv == Init => KeyInv
BY KeyAssumption DEF Init, KeyInv, TypeOK, PrintOfHolder, Holding, Live, Bodies

LEMMA TypeStep == TypeOK /\ PrintOfHolder /\ [Next]_vars => TypeOK' /\ PrintOfHolder'
<1> SUFFICES ASSUME TypeOK, PrintOfHolder, [Next]_vars PROVE TypeOK' /\ PrintOfHolder'
  OBVIOUS
<1> USE KeyAssumption DEF TypeOK, PrintOfHolder, Rows, Live, Bodies, Answer, Goto
<1>1. ASSUME NEW q \in Requests, Claim(q) PROVE TypeOK' /\ PrintOfHolder'
  BY <1>1 DEF Claim
<1>2. ASSUME NEW q \in Requests, Conflict(q) \/ Read(q) \/ GiveUp(q) PROVE TypeOK' /\ PrintOfHolder'
  BY <1>2 DEF Conflict, Read, GiveUp, Ours
<1>3. ASSUME NEW q \in Requests, Commit(q) \/ Throw(q) \/ Crash(q) \/ StoreFails(q)
      PROVE TypeOK' /\ PrintOfHolder'
  BY <1>3 DEF Commit, Throw, Crash, StoreFails
<1>4. ASSUME NEW q \in Requests, Complete(q) PROVE TypeOK' /\ PrintOfHolder'
  BY <1>4 DEF Complete, Stored, InFlight
<1>5. ASSUME NEW q \in Requests, Release(q) PROVE TypeOK' /\ PrintOfHolder'
  BY <1>5 DEF Release, InFlight
<1>6. CASE LeaseLapses
  BY <1>6 DEF LeaseLapses, InFlight
<1>7. CASE KeyExpires \/ Sweep
  BY <1>7 DEF KeyExpires, Sweep, InFlight
<1>8. CASE UNCHANGED vars
  BY <1>8 DEF vars
<1> QED BY <1>1, <1>2, <1>3, <1>4, <1>5, <1>6, <1>7, <1>8 DEF Next

\* The row with another age keeps the rest.
LEMMA AgedRow ==
    ASSUME TypeOK, row # None, NEW a \in {"fresh", "lapsed", "old"}, row' = [row EXCEPT !.age = a]
    PROVE  /\ row' # None /\ row'.age = a
           /\ row'.by = row.by /\ row'.state = row.state /\ row'.answer = row.answer
<1>1. row \in Rows
  BY DEF TypeOK
<1>2. row' \in Rows
  BY <1>1 DEF Rows
<1> QED BY <1>1, <1>2, KeyAssumption DEF Rows

LEMMA HoldingStep ==
    ASSUME KeyInv, [Next]_vars, overrun' = {}
    PROVE  Holding'
<1> USE KeyAssumption DEF TypeOK, Rows, Live, Bodies, Answer, Goto
<1>0. overrun = {} /\ Holding /\ TypeOK
  <2>1. overrun \subseteq overrun'
    BY DEF Next, vars, Claim, Conflict, Read, GiveUp, Commit, Throw, Complete, Release,
           StoreFails, Crash, LeaseLapses, KeyExpires, Sweep
  <2> QED BY <2>1 DEF KeyInv
<1> USE <1>0
<1>1. ASSUME NEW q \in Requests, Claim(q) PROVE Holding'
  <2>1. row' \in Rows /\ row' # None /\ row'.by = q /\ row'.state = "in_flight" /\ row'.age = "fresh"
    BY <1>1 DEF Claim
  <2>2. runs' = {}
    BY <1>1 DEF Claim, Holding
  <2>3. \A r \in Requests : pc[r] \notin Live
    BY <1>1 DEF Claim, Expired, Holding
  <2> QED BY <1>1, <2>1, <2>2, <2>3 DEF Claim, Holding
<1>2. ASSUME NEW q \in Requests, Conflict(q) \/ Read(q) \/ GiveUp(q) \/ StoreFails(q) \/ Crash(q)
      PROVE Holding'
  BY <1>2 DEF Conflict, Read, GiveUp, StoreFails, Crash, Holding
<1>3. ASSUME NEW q \in Requests, Commit(q) \/ Throw(q) PROVE Holding'
  BY <1>3 DEF Commit, Throw, Holding
<1>4. ASSUME NEW q \in Requests, Complete(q) PROVE Holding'
  <2>1. pc[q] \in Live /\ q \in runs /\ row # None /\ row.by = q /\ InFlight
    BY <1>4 DEF Complete, Holding, InFlight
  <2>2. row \in Rows
    BY <2>1
  <2>3. row' \in Rows /\ row'.by = q /\ row'.answer = q
    BY <1>4, <2>1, <2>2 DEF Complete, Stored
  <2>4. \A r \in Requests : pc'[r] \in Live => pc[r] \in Live /\ r # q
    BY <1>4 DEF Complete
  <2> QED BY <1>4, <2>1, <2>3, <2>4 DEF Complete, Holding
<1>5. ASSUME NEW q \in Requests, Release(q) PROVE Holding'
  BY <1>5 DEF Release, InFlight, Holding
<1>6. CASE LeaseLapses
  <2>1. pc[row.by] \notin Live
    BY <1>6, KeyAssumption DEF LeaseLapses
  <2> QED BY <1>6, <2>1, AgedRow DEF LeaseLapses, InFlight, Holding
<1>7. CASE KeyExpires
  BY <1>7, AgedRow DEF KeyExpires, InFlight, Holding
<1>8. CASE Sweep
  BY <1>8 DEF Sweep, Holding
<1>9. CASE UNCHANGED vars
  BY <1>9 DEF vars, Holding
<1> QED BY <1>1, <1>2, <1>3, <1>4, <1>5, <1>6, <1>7, <1>8, <1>9 DEF Next

LEMMA NextKeyInv == KeyInv /\ [Next]_vars => KeyInv'
BY TypeStep, HoldingStep DEF KeyInv

LEMMA KeyInvHolds == Spec => []KeyInv
BY InitKeyInv, NextKeyInv, PTL DEF Spec

\* The rows and the requests keep their types.
THEOREM KeyTypeCorrect == Spec => []TypeOK
<1>1. KeyInv => TypeOK
  BY DEF KeyInv
<1> QED BY <1>1, KeyInvHolds, PTL

\* Whatever the number of requests, fingerprints and slow handlers, a key lets one
\* handler commit until it is forgotten, if no handler outlives the lease.
THEOREM OneEffect == Spec => []EffectOnce
<1>1. KeyInv => EffectOnce
  BY DEF KeyInv, Holding, EffectOnce
<1> QED BY <1>1, KeyInvHolds, PTL

\* A stored answer stands, whichever handlers outlive their lease.
THEOREM StoredAnswersStand == Spec => StoredStands
<1>1. TypeOK /\ [Next]_vars =>
        [(row # None /\ ~ InFlight /\ row.age # "old") =>
            /\ row' # None
            /\ row'.state = row.state /\ row'.answer = row.answer /\ row'.by = row.by]_vars
  <2> SUFFICES ASSUME TypeOK, Next, row # None, ~ InFlight, row.age # "old"
               PROVE  /\ row' # None
                      /\ row'.state = row.state /\ row'.answer = row.answer /\ row'.by = row.by
    BY DEF vars
  <2>1. ASSUME NEW q \in Requests PROVE ~ Claim(q)
    BY DEF Claim, Expired, InFlight
  <2>2. ASSUME NEW q \in Requests, Complete(q) \/ Release(q) PROVE row' = row
    BY <2>2 DEF Complete, Release, Stored
  <2>3. ASSUME NEW q \in Requests,
               Conflict(q) \/ Read(q) \/ GiveUp(q) \/ Commit(q) \/ Throw(q) \/ StoreFails(q) \/ Crash(q)
        PROVE row' = row
    BY <2>3 DEF Conflict, Read, GiveUp, Commit, Throw, StoreFails, Crash
  <2>4. ~ LeaseLapses /\ ~ Sweep
    BY DEF LeaseLapses, Sweep
  <2>5. CASE KeyExpires
    BY <2>5, AgedRow DEF KeyExpires
  <2> QED BY <2>1, <2>2, <2>3, <2>4, <2>5 DEF Next
<1> QED BY <1>1, KeyTypeCorrect, PTL DEF Spec, StoredStands

\* A retry is answered for a request with its fingerprint whose effect stands.
THEOREM ReplaysTellEffects == Spec => ReplayOfAnEffect
<1>1. KeyInv /\ [Next]_vars =>
        [overrun = {} =>
           \A q \in Requests :
              (heard'[q] # heard[q] /\ heard'[q] # q /\ heard'[q] \in Requests \cup {"too_large"}) =>
                 \E r \in runs : PrintOf[r] = PrintOf[q] /\ heard'[q] \in {r, "too_large"}]_vars
  <2> SUFFICES ASSUME KeyInv, Next, overrun = {}, NEW q \in Requests, heard'[q] # heard[q],
                      heard'[q] # q, heard'[q] \in Requests \cup {"too_large"}
               PROVE  \E r \in runs : PrintOf[r] = PrintOf[q] /\ heard'[q] \in {r, "too_large"}
    BY DEF vars
  <2> USE KeyAssumption DEF KeyInv, TypeOK, Rows, Answer, Goto
  <2>1. ~ UNCHANGED heard
    OBVIOUS
  <2>2. Read(q)
    <3>1. ASSUME NEW p \in Requests, GiveUp(p) \/ Complete(p) \/ Release(p) \/ StoreFails(p)
          PROVE  FALSE
      BY <3>1 DEF GiveUp, Complete, Release, StoreFails
    <3>2. ASSUME NEW p \in Requests, Read(p) PROVE p = q
      BY <3>2 DEF Read
    <3> QED BY <2>1, <3>1, <3>2 DEF Next, Claim, Conflict, Commit, Throw, Crash,
                                    LeaseLapses, KeyExpires, Sweep
  <2>3. /\ Ours(q) /\ row.state # "in_flight"
        /\ heard'[q] \in {row.answer, "too_large"}
    BY <2>2 DEF Read
  <2>4. row.by \in runs /\ row.answer = row.by /\ PrintOf[row.by] = PrintOf[q]
    BY <2>3 DEF Holding, PrintOfHolder, Ours
  <2> QED BY <2>3, <2>4
<1> QED BY <1>1, KeyInvHolds, PTL DEF Spec, ReplayOfAnEffect
=============================================================================
