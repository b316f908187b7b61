----------------------- MODULE EnvelopeApprovalProofs -----------------------
(***************************************************************************)
(* Machine-checked theorems about the tables of EnvelopeApproval and about *)
(* its approval chains, for every choice of envelopes, versions, requests, *)
(* closures, users, roles and policies.                                    *)
(***************************************************************************)
EXTENDS EnvelopeApproval, FiniteSetTheorems, TLAPS

\* Rows refer to rows that exist, and a request stands on a step of its chain.
RowsOK ==
    /\ \A v \in Versions : vStatus[v] # None <=> vEnv[v] # None
    /\ \A v \in Versions : vStatus[v] # None => vAuthor[v] \in Users
    /\ \A r \in Requests :
          rStatus[r] # None =>
              /\ rVersion[r] \in Versions /\ vStatus[rVersion[r]] # None
              /\ rBy[r] \in Users /\ rPolicy[r] \in Policies
              /\ rStep[r] \in 1..Len(rChain[r])

\* The inductive invariant of the tables alone: whatever the policies and
\* closures are, versions, pointers and open requests agree.
TablesInv == TypeOK /\ RowsOK /\ PointersAgree /\ OneOpenRequest /\ DraftsAreFresh

-----------------------------------------------------------------------------
(* The writes a step can make *)

\* u submits e's draft v (S is empty), or writes v and submits it (S holds
\* the draft it replaces).
Submitting(u, e, v, S) ==
    /\ MaySubmit(u, e)
    /\ \/ /\ v = draft[e] /\ S = {} /\ vStatus[v] = "DRAFT"
          /\ UNCHANGED <<vEnv, vAuthor, vBase>>
       \/ /\ MayEdit(u, e) /\ S = {draft[e]}
          /\ InsertVersion(u, e, v)

DraftStep  == \E u \in Users, e \in Envelopes, v \in Versions : EditDraft(u, e, v)
ApplyStep  == \E u \in Users, e \in Envelopes, v \in Versions, S \in SUBSET (Versions \cup {None}) :
                 Submitting(u, e, v, S) /\ ApplyAtOnce(u, e, v, S)
OpenStep   == \E u \in Users, e \in Envelopes, v \in Versions, S \in SUBSET (Versions \cup {None}),
                 p \in Policies, r \in Requests :
                 Submitting(u, e, v, S) /\ OpenRequest(u, e, v, S, p, r)
CloseStep  == \E r \in Requests, outcome \in {"REJECTED", "CHANGES_REQUESTED", "WITHDRAWN"} :
                 Open(r) /\ estatus[EnvOf(r)] # "LOCKED" /\ CloseRequest(r, outcome)
Overruling(r) ==
    /\ rPolicy[r].allowExternalEvidence
    /\ \E d \in decisions' \ decisions : d.request = r /\ d.kind = "external_evidence"
    /\ overruled' = overruled \cup (Covering(EnvOf(r)) \X {EnvOf(r)})
    /\ UNCHANGED <<cStatus, prior>>
FinishStep == \E r \in Requests :
                 /\ Open(r) /\ ApproveRequest(r)
                 /\ Overruling(r) \/ (estatus[EnvOf(r)] # "LOCKED" /\ UNCHANGED closureVars)
NextStepStep == \E r \in Requests : Open(r) /\ rStep[r] < Len(rChain[r]) /\ NextStep(r)
EscalateStep == \E r \in Requests : Escalate(r)
TablesUnchanged == UNCHANGED <<current, draft, versionVars, rStatus, rVersion, rBy, rPolicy, rChain, rStep>>

\* Every step is one of seven writes to the tables, a closure's write to the
\* envelopes' statuses, or leaves all that alone.
StepShape ==
    \/ UNCHANGED closureVars /\ (\/ DraftStep \/ ApplyStep \/ OpenStep \/ CloseStep
                                 \/ NextStepStep \/ EscalateStep
                                 \/ TablesUnchanged /\ UNCHANGED estatus)
    \/ FinishStep
    \/ TablesUnchanged /\ \E c \in Closures : ReleaseClosure(c)
    \/ TablesUnchanged /\ \E c \in Closures, S \in SUBSET Envelopes : StartClose(c, S)

\* Every step of the specification is of one of the shapes above.
LEMMA Shapes == ASSUME TypeOK, [Next]_vars PROVE StepShape
<1>1. CASE UNCHANGED vars
    BY <1>1 DEF vars, StepShape, TablesUnchanged, closureVars, envelopeVars, versionVars, requestVars
<1>2. CASE EnvelopeCommand
  <2>1. ASSUME NEW u \in Users, NEW e \in Envelopes, SubmitVersion(u, e)
        PROVE  StepShape
    <3>1. draft[e] \in Versions
        BY <2>1 DEF SubmitVersion, TypeOK
    <3>2. Submitting(u, e, draft[e], {}) /\ UNCHANGED closureVars
        BY <2>1 DEF SubmitVersion, Submitting, closureVars
    <3> QED
        BY <2>1, <3>1, <3>2 DEF SubmitVersion, Route, StepShape, ApplyStep, OpenStep
  <2>2. ASSUME NEW u \in Users, NEW e \in Envelopes, NEW v \in Versions, EditDraft(u, e, v)
        PROVE  StepShape
    BY <2>2 DEF EditDraft, closureVars, StepShape, DraftStep
  <2>3. ASSUME NEW u \in Users, NEW e \in Envelopes, NEW v \in Versions, SubmitDraft(u, e, v)
        PROVE  StepShape
    <3>1. {draft[e]} \in SUBSET (Versions \cup {None})
        BY DEF TypeOK
    <3>2. Submitting(u, e, v, {draft[e]}) /\ UNCHANGED closureVars
        BY <2>3 DEF SubmitDraft, Submitting, closureVars
    <3> QED
        BY <2>3, <3>1, <3>2 DEF SubmitDraft, Route, StepShape, ApplyStep, OpenStep
  <2> QED
    BY <1>2, <2>1, <2>2, <2>3 DEF EnvelopeCommand, CreateDraftVersion, UpdatePhasing, RestoreVersion
<1>3. CASE RequestCommand
  <2>1. ASSUME NEW r \in Requests, Open(r), NEW final \in BOOLEAN, AdvanceIfComplete(r, final), UNCHANGED closureVars,
               estatus[EnvOf(r)] # "LOCKED"
        PROVE  StepShape
    BY <2>1 DEF AdvanceIfComplete, StepShape, FinishStep, NextStepStep, TablesUnchanged, envelopeVars, versionVars, requestVars
  <2>2. ASSUME NEW r \in Requests, Open(r), estatus[EnvOf(r)] # "LOCKED", UNCHANGED closureVars,
               NEW outcome \in {"REJECTED", "CHANGES_REQUESTED", "WITHDRAWN"}, CloseRequest(r, outcome)
        PROVE  StepShape
    BY <2>2 DEF StepShape, CloseStep
  <2>3. ASSUME NEW r \in Requests, NEW u \in Users, Approve(u, r)
        PROVE  StepShape
    <3>1. (u \in Admins) \in BOOLEAN
        OBVIOUS
    <3> QED
        BY <2>1, <2>3, <3>1 DEF Approve, MayDecide
  <2>4. ASSUME NEW r \in Requests, NEW u \in Users, RecordExternalEvidence(u, r)
        PROVE  StepShape
    <3>1. CASE rPolicy[r].allowExternalEvidence
      <4>1. \E d \in decisions' \ decisions : d.request = r /\ d.kind = "external_evidence"
        <5> DEFINE d == [request |-> r, step |-> rStep[r], user |-> u, kind |-> "external_evidence"]
        <5>1. d \notin decisions /\ decisions' = decisions \cup {d}
            BY <2>4 DEF RecordExternalEvidence, RecordDecision
        <5>2. d \in decisions' \ decisions /\ d.request = r /\ d.kind = "external_evidence"
            BY <5>1
        <5> QED
            BY <5>2
      <4>2. Open(r) /\ AdvanceIfComplete(r, FALSE) /\ UNCHANGED <<cStatus, prior>>
          BY <2>4, <3>1 DEF RecordExternalEvidence
      <4>3. CASE ApproveRequest(r)
        <5>1. rStatus'[r] = "APPROVED"
            BY <4>3 DEF ApproveRequest, TypeOK
        <5>2. Overruling(r)
            BY <2>4, <3>1, <4>1, <5>1 DEF RecordExternalEvidence, Overruling
        <5> QED
            BY <4>2, <4>3, <5>2 DEF StepShape, FinishStep
      <4>4. CASE UNCHANGED <<envelopeVars, versionVars, requestVars>> \/ (rStep[r] < Len(rChain[r]) /\ NextStep(r))
        <5>1. rStatus'[r] # "APPROVED"
            BY <4>2, <4>4 DEF NextStep, requestVars, Open, OpenStatuses, TypeOK
        <5>2. UNCHANGED closureVars
            BY <2>4, <5>1 DEF RecordExternalEvidence, closureVars
        <5> QED
            BY <4>2, <4>4, <5>2 DEF StepShape, NextStepStep, TablesUnchanged, envelopeVars, versionVars, requestVars
      <4> QED
          BY <4>2, <4>3, <4>4 DEF AdvanceIfComplete
    <3>2. CASE ~ rPolicy[r].allowExternalEvidence
      <4>1. rStatus'[r] # "APPROVED"
          BY <2>4, <3>2 DEF RecordExternalEvidence, requestVars, Open, OpenStatuses
      <4>2. UNCHANGED closureVars
          BY <2>4, <4>1 DEF RecordExternalEvidence, closureVars
      <4> QED
          BY <2>4, <3>2, <4>2 DEF RecordExternalEvidence, StepShape, TablesUnchanged, envelopeVars, versionVars, requestVars
    <3> QED
        BY <3>1, <3>2
  <2>5. ASSUME NEW r \in Requests, NEW u \in Users,
               Reject(u, r) \/ RequestChanges(u, r) \/ Withdraw(u, r) \/ MoveReroutes(r)
        PROVE  StepShape
    BY <2>2, <2>5 DEF Reject, RequestChanges, Withdraw, MoveReroutes, MayDecide
  <2>6. ASSUME NEW r \in Requests, DueDatePasses(r)
        PROVE  StepShape
    BY <2>6 DEF DueDatePasses, StepShape, TablesUnchanged, envelopeVars, versionVars
  <2>7. ASSUME NEW r \in Requests, Escalate(r)
        PROVE  StepShape
    BY <2>7 DEF Escalate, StepShape, EscalateStep, closureVars
  <2>8. ASSUME NEW r \in Requests, MoveReroutes(r)
        PROVE  StepShape
    BY <2>2, <2>8 DEF MoveReroutes
  <2> QED
    BY <1>3, <2>3, <2>4, <2>5, <2>6, <2>7, <2>8 DEF RequestCommand
<1>4. CASE Housekeeping
  <2>1. ASSUME NEW e \in Envelopes, BlockingThreadOpens(e) \/ BlockingThreadsResolved(e)
        PROVE  StepShape
    BY <2>1 DEF BlockingThreadOpens, BlockingThreadsResolved, StepShape, TablesUnchanged, envelopeVars, versionVars, requestVars
  <2>2. ASSUME NEW c \in Closures, ReleaseClosure(c)
        PROVE  StepShape
    BY <2>2 DEF ReleaseClosure, StepShape, TablesUnchanged, versionVars, requestVars
  <2>3. ASSUME NEW c \in Closures, NEW S \in SUBSET Envelopes, StartClose(c, S)
        PROVE  StepShape
    BY <2>3 DEF StartClose, StepShape, TablesUnchanged, versionVars, requestVars
  <2> QED
    BY <1>4, <2>1, <2>2, <2>3 DEF Housekeeping
<1> QED
    BY <1>1, <1>2, <1>3, <1>4 DEF Next

-----------------------------------------------------------------------------
(* The escalated chain *)

\* Inserting a step after the k-th keeps the steps before and shifts the rest.
LEMMA InsertAfterIsChain ==
    ASSUME NEW chain \in Seq(Step), NEW k \in 1..Len(chain), NEW s \in Step
    PROVE  /\ InsertAfter(chain, k, s) \in Seq(Step)
           /\ Len(InsertAfter(chain, k, s)) = Len(chain) + 1
           /\ \A i \in 1..k : InsertAfter(chain, k, s)[i] = chain[i]
           /\ InsertAfter(chain, k, s)[k + 1] = s
<1> DEFINE n == Len(chain)
           g == InsertAfter(chain, k, s)
<1>1. n \in Nat /\ \A i \in 1..n : chain[i] \in Step
    OBVIOUS
<1>2. \A i \in 1..(n + 1) : (IF i <= k THEN chain[i] ELSE IF i = k + 1 THEN s ELSE chain[i - 1]) \in Step
    <2> TAKE i \in 1..(n + 1)
    <2>1. CASE i <= k
        BY <1>1, <2>1
    <2>2. CASE i = k + 1
        BY <1>1, <2>2
    <2>3. CASE i > k + 1
        <3>1. i - 1 \in 1..n
            BY <1>1, <2>3
        <3> QED
            BY <1>1, <2>3, <3>1
    <2> QED
        BY <1>1, <2>1, <2>2, <2>3
<1>3. g \in [1..(n + 1) -> Step]
    BY <1>1, <1>2 DEF InsertAfter
<1>4. g \in Seq(Step) /\ Len(g) = n + 1
    BY <1>1, <1>3
<1>5. \A i \in 1..k : g[i] = chain[i]
    BY <1>1 DEF InsertAfter
<1>6. g[k + 1] = s
    BY <1>1 DEF InsertAfter
<1> QED
    BY <1>4, <1>5, <1>6

\* The step escalation adds is a step.
LEMMA EscalationStepIsStep ==
    ASSUME TypeOK, RowsOK, NEW r \in Requests, Escalate(r)
    PROVE  /\ rStep[r] \in 1..Len(rChain[r])
           /\ rChain[r] \in Seq(Step)
           /\ EscalationStep(r) \in Step
           /\ EscalationStep(r).escalatedFrom = rStep[r]
<1>1. rStep[r] \in 1..Len(rChain[r]) /\ rChain[r] \in Seq(Step)
    BY ConstantsAssumption DEF TypeOK, RowsOK, Escalate, RequestStatus
<1>2. StepOf(r) \in Step
    BY <1>1 DEF StepOf
<1>3. StepOf(r).escalateTo \in Roles
    BY <1>2 DEF Escalate, Step
<1> QED
    BY <1>1, <1>3 DEF EscalationStep, Step

-----------------------------------------------------------------------------
(* Type correctness *)

\* The part of TypeOK about the tables the shapes write.
TablesTypeOK ==
    /\ estatus \in [Envelopes -> EnvelopeStatus]
    /\ current \in [Envelopes -> Versions \cup {None}]
    /\ draft \in [Envelopes -> Versions \cup {None}]
    /\ vStatus \in [Versions -> VersionStatus \cup {None}]
    /\ vEnv \in [Versions -> Envelopes \cup {None}]
    /\ vAuthor \in [Versions -> Users \cup {None}]
    /\ vBase \in [Versions -> Versions \cup {None}]
    /\ rStatus \in [Requests -> RequestStatus \cup {None}]
    /\ rVersion \in [Requests -> Versions \cup {None}]
    /\ rBy \in [Requests -> Users \cup {None}]
    /\ rPolicy \in [Requests -> Policies \cup {None}]
    /\ rChain \in [Requests -> Seq(Step)]
    /\ rStep \in [Requests -> Nat]
    /\ cStatus \in [Closures -> {"none", "holding", "released"}]
    /\ prior \in [Closures -> [Envelopes -> EnvelopeStatus \cup {None}]]
    /\ overruled \subseteq Closures \X Envelopes

\* Initially the columns have their types.
LEMMA Init1 == Init => TypeOK
    BY DEF Init, TypeOK, EnvelopeStatus

\* Initially no row is there, so every row is complete.
LEMMA Init2 == Init => RowsOK
    BY DEF Init, RowsOK

\* An open request has a version, an envelope, a policy and a step.
LEMMA OpenRow ==
    ASSUME TypeOK, RowsOK, NEW r \in Requests, Open(r)
    PROVE  /\ rVersion[r] \in Versions /\ EnvOf(r) \in Envelopes
           /\ rBy[r] \in Users /\ rPolicy[r] \in Policies
           /\ rStep[r] \in 1..Len(rChain[r]) /\ rChain[r] \in Seq(Step)
<1>1. rStatus[r] # None
    BY ConstantsAssumption DEF Open, OpenStatuses, RequestStatus
<1> QED
    BY <1>1 DEF RowsOK, TypeOK, EnvOf

\* Withdrawing the returned requests keeps the status column's type.
LEMMA ReturnedWithdrawnType ==
    ASSUME TypeOK, NEW e
    PROVE  ReturnedWithdrawn(e) \in [Requests -> RequestStatus \cup {None}]
    BY DEF TypeOK, ReturnedWithdrawn, RequestStatus

\* Approving a version of Versions keeps the types of what it writes.
LEMMA ApproveVersionType ==
    ASSUME TypeOK, NEW e \in Envelopes, NEW v \in Versions, NEW S, ApproveVersion(e, v, S)
    PROVE  /\ vStatus' \in [Versions -> VersionStatus \cup {None}]
           /\ current' \in [Envelopes -> Versions \cup {None}]
           /\ draft' \in [Envelopes -> Versions \cup {None}]
           /\ estatus' \in [Envelopes -> EnvelopeStatus]
    BY DEF TypeOK, ApproveVersion, Superseding, VersionStatus, EnvelopeStatus

\* A step keeps the types of the envelope, version and request columns.
LEMMA TablesTypeStep ==
    ASSUME TypeOK, RowsOK, StepShape
    PROVE  TablesTypeOK'
<1> USE DEF TablesTypeOK
<1>1. CASE UNCHANGED closureVars /\ DraftStep
  <2> PICK u \in Users, e \in Envelopes, v \in Versions : EditDraft(u, e, v)
    BY <1>1 DEF DraftStep
  <2> USE DEF EditDraft, WriteDraftVersion, InsertVersion
  <2>1. vStatus' \in [Versions -> VersionStatus \cup {None}]
    BY DEF TypeOK, Superseding, VersionStatus
  <2>2. estatus' \in [Envelopes -> EnvelopeStatus]
    BY DEF TypeOK, EnvelopeStatus
  <2>3. /\ vBase' \in [Versions -> Versions \cup {None}]
        /\ vAuthor' \in [Versions -> Users \cup {None}]
        /\ vEnv' \in [Versions -> Envelopes \cup {None}]
        /\ draft' \in [Envelopes -> Versions \cup {None}]
    BY DEF TypeOK
  <2> QED
    BY <2>1, <2>2, <2>3 DEF TypeOK, requestVars, closureVars
<1>2. ASSUME NEW u \in Users, NEW e \in Envelopes, NEW v \in Versions, NEW S, Submitting(u, e, v, S)
      PROVE  /\ vBase' \in [Versions -> Versions \cup {None}]
             /\ vAuthor' \in [Versions -> Users \cup {None}]
             /\ vEnv' \in [Versions -> Envelopes \cup {None}]
  <2>1. CASE UNCHANGED <<vEnv, vAuthor, vBase>>
    BY <2>1 DEF TypeOK
  <2>2. CASE InsertVersion(u, e, v)
    BY <2>2 DEF InsertVersion, TypeOK
  <2> QED
    BY <1>2, <2>1, <2>2 DEF Submitting
<1>3. CASE UNCHANGED closureVars /\ ApplyStep
  <2> PICK u \in Users, e \in Envelopes, v \in Versions, S \in SUBSET (Versions \cup {None}) :
             Submitting(u, e, v, S) /\ ApplyAtOnce(u, e, v, S)
    BY <1>3 DEF ApplyStep
  <2> QED
    BY <1>2, <1>3, ApproveVersionType, ReturnedWithdrawnType DEF ApplyAtOnce, TypeOK, closureVars
<1>4. CASE UNCHANGED closureVars /\ OpenStep
  <2> PICK u \in Users, e \in Envelopes, v \in Versions, S \in SUBSET (Versions \cup {None}),
           p \in Policies, r \in Requests :
             Submitting(u, e, v, S) /\ OpenRequest(u, e, v, S, p, r)
    BY <1>4 DEF OpenStep
  <2>1. vStatus' \in [Versions -> VersionStatus \cup {None}]
    BY DEF OpenRequest, TypeOK, Superseding, VersionStatus
  <2>2. estatus' \in [Envelopes -> EnvelopeStatus] /\ draft' \in [Envelopes -> Versions \cup {None}]
    BY DEF OpenRequest, TypeOK, EnvelopeStatus
  <2>3. rStatus' \in [Requests -> RequestStatus \cup {None}]
    BY ReturnedWithdrawnType DEF OpenRequest, RequestStatus
  <2>4. p.chain \in Seq(Step)
    BY PoliciesAssumption
  <2>5. /\ rVersion' \in [Requests -> Versions \cup {None}]
        /\ rBy' \in [Requests -> Users \cup {None}]
        /\ rPolicy' \in [Requests -> Policies \cup {None}]
        /\ rChain' \in [Requests -> Seq(Step)]
        /\ rStep' \in [Requests -> Nat]
    BY <2>4 DEF OpenRequest, TypeOK
  <2> QED
    BY <1>2, <1>4, <2>1, <2>2, <2>3, <2>5 DEF OpenRequest, TypeOK, closureVars
<1>5. CASE UNCHANGED closureVars /\ CloseStep
  <2> PICK r \in Requests, outcome \in {"REJECTED", "CHANGES_REQUESTED", "WITHDRAWN"} :
             Open(r) /\ CloseRequest(r, outcome)
    BY <1>5 DEF CloseStep
  <2>1. vStatus' \in [Versions -> VersionStatus \cup {None}]
    BY DEF CloseRequest, TypeOK, VersionStatus
  <2>2. rStatus' \in [Requests -> RequestStatus \cup {None}]
    BY DEF CloseRequest, TypeOK, RequestStatus
  <2>3. estatus' \in [Envelopes -> EnvelopeStatus] /\ draft' \in [Envelopes -> Versions \cup {None}]
    BY DEF CloseRequest, TypeOK, EnvelopeStatus, RestingStatus
  <2> QED
    BY <1>5, <2>1, <2>2, <2>3 DEF CloseRequest, TypeOK, closureVars
<1>6. CASE FinishStep
  <2> PICK r \in Requests : Open(r) /\ ApproveRequest(r)
                            /\ (Overruling(r) \/ (estatus[EnvOf(r)] # "LOCKED" /\ UNCHANGED closureVars))
    BY <1>6 DEF FinishStep
  <2>1. EnvOf(r) \in Envelopes /\ rVersion[r] \in Versions /\ ApproveVersion(EnvOf(r), rVersion[r], {})
    BY OpenRow DEF ApproveRequest
  <2>2. rStatus' \in [Requests -> RequestStatus \cup {None}]
    BY DEF ApproveRequest, TypeOK, RequestStatus
  <2>3. cStatus' = cStatus /\ prior' = prior /\ overruled' \subseteq Closures \X Envelopes
    BY <2>1 DEF Overruling, Covering, closureVars, TypeOK
  <2> QED
    BY <2>1, <2>2, <2>3, ApproveVersionType DEF ApproveRequest, TypeOK
<1>7. CASE UNCHANGED closureVars /\ NextStepStep
    BY <1>7 DEF NextStepStep, NextStep, TypeOK, RequestStatus, closureVars, envelopeVars, versionVars
<1>8. CASE UNCHANGED closureVars /\ EscalateStep
  <2> PICK r \in Requests : Escalate(r)
    BY <1>8 DEF EscalateStep
  <2>1. InsertAfter(rChain[r], rStep[r], EscalationStep(r)) \in Seq(Step)
    BY EscalationStepIsStep, InsertAfterIsChain
  <2>2. rChain' \in [Requests -> Seq(Step)]
    BY <2>1 DEF Escalate, TypeOK
  <2>3. rStatus' \in [Requests -> RequestStatus \cup {None}] /\ rStep' \in [Requests -> Nat]
    BY DEF Escalate, TypeOK, RequestStatus
  <2> QED
    BY <1>8, <2>2, <2>3 DEF Escalate, TypeOK, closureVars, envelopeVars, versionVars
<1>9. CASE UNCHANGED closureVars /\ TablesUnchanged /\ UNCHANGED estatus
    BY <1>9 DEF TablesUnchanged, TypeOK, closureVars, versionVars
<1>10. CASE TablesUnchanged /\ \E c \in Closures : ReleaseClosure(c)
  <2> PICK c \in Closures : ReleaseClosure(c)
    BY <1>10
  <2>1. estatus' \in [Envelopes -> EnvelopeStatus]
    BY DEF ReleaseClosure, TypeOK
  <2> QED
    BY <1>10, <2>1 DEF ReleaseClosure, TablesUnchanged, TypeOK, versionVars
<1>11. CASE TablesUnchanged /\ \E c \in Closures, S \in SUBSET Envelopes : StartClose(c, S)
  <2> PICK c \in Closures, S \in SUBSET Envelopes : StartClose(c, S)
    BY <1>11
  <2>1. estatus' \in [Envelopes -> EnvelopeStatus]
    BY DEF StartClose, TypeOK, EnvelopeStatus
  <2>2. PICK f \in [S -> EnvelopeStatus] :
            prior' = [prior EXCEPT ![c] = [e \in Envelopes |-> IF e \in S THEN f[e] ELSE None]]
    BY DEF StartClose
  <2>3. prior' \in [Closures -> [Envelopes -> EnvelopeStatus \cup {None}]]
    BY <2>2 DEF TypeOK
  <2> QED
    BY <1>11, <2>1, <2>3 DEF StartClose, TablesUnchanged, TypeOK, versionVars
<1> QED
    BY <1>1, <1>3, <1>4, <1>5, <1>6, <1>7, <1>8, <1>9, <1>10, <1>11 DEF StepShape

\* Who is due no later stays a set of requests when one is decided.
LEMMA NoLongerDueIsDue ==
    ASSUME TypeOK, NEW r \in Requests
    PROVE  NoLongerDue(r) \in [Requests -> SUBSET Requests]
    BY DEF NoLongerDue, TypeOK

\* A step keeps the types of threads, decisions and closures.
LEMMA RestTypeStep ==
    ASSUME TypeOK, RowsOK, [Next]_vars
    PROVE  /\ blocked' \subseteq Envelopes
           /\ overdue' \in [Requests -> SUBSET Requests]
           /\ decisions' \subseteq [request : Requests, step : Nat, user : Users, kind : DecisionKind]
<1> DEFINE Goal == /\ blocked' \subseteq Envelopes
                   /\ overdue' \in [Requests -> SUBSET Requests]
                   /\ decisions' \subseteq [request : Requests, step : Nat, user : Users, kind : DecisionKind]
<1>1. CASE UNCHANGED vars
    BY <1>1 DEF vars, requestVars, TypeOK
<1>2. CASE EnvelopeCommand
    BY <1>2 DEF EnvelopeCommand, CreateDraftVersion, UpdatePhasing, RestoreVersion, EditDraft, SubmitVersion,
                SubmitDraft, Route, ApplyAtOnce, OpenRequest, requestVars, TypeOK
<1>3. CASE RequestCommand
  <2>1. ASSUME NEW u \in Users, NEW r \in Requests, NEW kind \in DecisionKind, RecordDecision(u, r, kind)
        PROVE  decisions' \subseteq [request : Requests, step : Nat, user : Users, kind : DecisionKind]
    BY <2>1 DEF RecordDecision, TypeOK
  <2>2. ASSUME NEW r \in Requests, NEW final, AdvanceIfComplete(r, final)
        PROVE  overdue' \in [Requests -> SUBSET Requests]
    BY <2>2, NoLongerDueIsDue DEF AdvanceIfComplete, ApproveRequest, NextStep, requestVars, TypeOK
  <2>3. ASSUME NEW u \in Users, NEW r \in Requests, Approve(u, r) \/ RecordExternalEvidence(u, r)
        PROVE  Goal
    <3>1. overdue' \in [Requests -> SUBSET Requests]
        BY <2>2, <2>3 DEF Approve, RecordExternalEvidence, requestVars, TypeOK
    <3>2. blocked' \subseteq Envelopes
        BY <2>3 DEF Approve, RecordExternalEvidence, TypeOK
    <3>3. RecordDecision(u, r, "approve") \/ RecordDecision(u, r, "external_evidence")
        BY <2>3 DEF Approve, RecordExternalEvidence
    <3> QED
        BY <2>1, <3>1, <3>2, <3>3 DEF DecisionKind
  <2>4. ASSUME NEW u \in Users, NEW r \in Requests, Reject(u, r) \/ RequestChanges(u, r)
        PROVE  Goal
    <3>1. overdue' \in [Requests -> SUBSET Requests]
        BY <2>4, NoLongerDueIsDue DEF Reject, RequestChanges, CloseRequest
    <3>2. RecordDecision(u, r, "reject") \/ RecordDecision(u, r, "request_changes")
        BY <2>4 DEF Reject, RequestChanges
    <3>3. blocked' \subseteq Envelopes
        BY <2>4, OpenRow DEF Reject, RequestChanges, MayDecide, TypeOK
    <3> QED
        BY <2>1, <3>1, <3>2, <3>3 DEF DecisionKind
  <2>5. ASSUME NEW r \in Requests, MoveReroutes(r)
        PROVE  Goal
    BY <2>5, OpenRow, NoLongerDueIsDue DEF MoveReroutes, CloseRequest, TypeOK
  <2>6. ASSUME NEW r \in Requests, DueDatePasses(r)
        PROVE  Goal
    BY <2>6 DEF DueDatePasses, TypeOK
  <2>7. ASSUME NEW r \in Requests, NEW u \in Users, Withdraw(u, r) \/ Escalate(r)
        PROVE  Goal
    BY <2>7, NoLongerDueIsDue DEF Withdraw, CloseRequest, Escalate, TypeOK
  <2>8. ASSUME NEW r \in Requests, Escalate(r)
        PROVE  Goal
    BY <2>8, NoLongerDueIsDue DEF Escalate, TypeOK
  <2> QED
    BY <1>3, <2>3, <2>4, <2>5, <2>6, <2>7, <2>8 DEF RequestCommand
<1>4. CASE Housekeeping
    BY <1>4 DEF Housekeeping, BlockingThreadOpens, BlockingThreadsResolved, ReleaseClosure, StartClose, requestVars, TypeOK
<1> QED
    BY <1>1, <1>2, <1>3, <1>4 DEF Next

\* A step keeps all types, given that the rows it reads are complete.
LEMMA TypeStep == TypeOK /\ RowsOK /\ [Next]_vars => TypeOK'
    BY Shapes, TablesTypeStep, RestTypeStep DEF TablesTypeOK, TypeOK

-----------------------------------------------------------------------------
(* Rows *)

\* The literals of the statuses are not None, and rows that are there are
\* not None either.
LEMMA NoneIsNone ==
    /\ None \notin {"DRAFT", "PENDING", "APPROVED", "SUPERSEDED", "REJECTED", "WITHDRAWN", "ESCALATED", "CHANGES_REQUESTED", "LOCKED"}
    /\ None \notin Envelopes /\ None \notin Versions /\ None \notin Requests /\ None \notin Users
    /\ None \notin Nat /\ None \notin Policies
    BY ConstantsAssumption DEF VersionStatus, RequestStatus, EnvelopeStatus

\* The pointers of an envelope point at its own rows, of the right status.
LEMMA PointerRows ==
    ASSUME TypeOK, RowsOK, PointersAgree, NEW e \in Envelopes
    PROVE  /\ current[e] \in Versions \cup {None} /\ draft[e] \in Versions \cup {None}
           /\ current[e] # None => vEnv[current[e]] = e /\ vStatus[current[e]] = "APPROVED"
           /\ draft[e] # None => vEnv[draft[e]] = e /\ vStatus[draft[e]] \in {"DRAFT", "PENDING"}
    BY DEF TypeOK, PointersAgree

\* An open request is about the pending draft of its envelope.
LEMMA OpenDraft ==
    ASSUME TablesInv, NEW r \in Requests, Open(r)
    PROVE  /\ rVersion[r] \in Versions /\ EnvOf(r) \in Envelopes
           /\ vEnv[rVersion[r]] = EnvOf(r)
           /\ vStatus[rVersion[r]] = "PENDING"
           /\ draft[EnvOf(r)] = rVersion[r]
           /\ current[EnvOf(r)] # rVersion[r]
<1>1. rVersion[r] \in Versions /\ EnvOf(r) \in Envelopes /\ vEnv[rVersion[r]] = EnvOf(r)
    BY OpenRow DEF TablesInv, EnvOf
<1>2. vStatus[rVersion[r]] = "PENDING"
    BY DEF TablesInv, OneOpenRequest
<1> QED
    BY <1>1, <1>2 DEF TablesInv, PointersAgree

\* What a submission starts from, whether the draft is an old or a new one.
LEMMA SubmittingFacts ==
    ASSUME TablesInv, NEW u \in Users, NEW e \in Envelopes, NEW v \in Versions, NEW S, Submitting(u, e, v, S)
    PROVE  /\ \A x \in Versions : vEnv'[x] = IF x = v THEN e ELSE vEnv[x]
           /\ \A x \in Versions : x # v => vBase'[x] = vBase[x] /\ vAuthor'[x] = vAuthor[x]
           /\ vBase'[v] = current[e] /\ vAuthor'[v] \in Users
           /\ vStatus[v] \in {None, "DRAFT"} /\ (vStatus[v] = "DRAFT" => draft[e] = v)
           /\ S \subseteq {draft[e]} /\ v \notin S /\ (draft[e] # None => draft[e] \in S \cup {v})
           /\ draft[e] # None => vStatus[draft[e]] = "DRAFT"
           /\ \A r \in Requests : Open(r) => EnvOf(r) # e
           /\ estatus[e] # "LOCKED"
<1> USE DEF TablesInv
<1>1. \A r \in Requests : Open(r) => EnvOf(r) # e
    BY NoneIsNone DEF Submitting, MaySubmit, RequestsOn, Open, OpenStatuses
<1>2. CASE v = draft[e] /\ S = {} /\ vStatus[v] = "DRAFT" /\ UNCHANGED <<vEnv, vAuthor, vBase>>
  <2>1. vEnv[v] = e /\ vBase[v] = current[e] /\ vAuthor[v] \in Users
    BY <1>2, NoneIsNone DEF PointersAgree, DraftsAreFresh, RowsOK
  <2> QED
    BY <1>1, <1>2, <2>1 DEF Submitting, MaySubmit
<1>3. CASE MayEdit(u, e) /\ S = {draft[e]} /\ InsertVersion(u, e, v)
  <2>1. /\ \A x \in Versions : vEnv'[x] = IF x = v THEN e ELSE vEnv[x]
        /\ \A x \in Versions : x # v => vBase'[x] = vBase[x] /\ vAuthor'[x] = vAuthor[x]
        /\ vBase'[v] = current[e] /\ vAuthor'[v] = u
        /\ vStatus[v] = None
    BY <1>3 DEF InsertVersion, TypeOK
  <2>2. draft[e] # None => vStatus[draft[e]] = "DRAFT"
    BY <1>3, PointerRows DEF MayEdit
  <2>3. v # draft[e]
    BY <2>1, <2>2, NoneIsNone
  <2> QED
    BY <1>1, <1>3, <2>1, <2>2, <2>3, NoneIsNone DEF Submitting, MaySubmit
<1> QED
    BY <1>2, <1>3 DEF Submitting

-----------------------------------------------------------------------------
(* Every write keeps the tables in agreement *)

Agreement == RowsOK /\ PointersAgree /\ OneOpenRequest /\ DraftsAreFresh

\* A new draft (PATCH draft, phasing, restore) keeps the tables in agreement.
LEMMA DraftStepAgrees ==
    ASSUME TablesInv, DraftStep
    PROVE  Agreement'
<1> PICK u \in Users, e \in Envelopes, v \in Versions : EditDraft(u, e, v)
    BY DEF DraftStep
<1> USE NoneIsNone
<1>1. /\ \A x \in Versions : vEnv'[x] = IF x = v THEN e ELSE vEnv[x]
      /\ \A x \in Versions : vBase'[x] = IF x = v THEN current[e] ELSE vBase[x]
      /\ \A x \in Versions : vAuthor'[x] = IF x = v THEN u ELSE vAuthor[x]
      /\ \A x \in Versions : vStatus'[x] = IF x = v THEN "DRAFT" ELSE IF x = draft[e] THEN "SUPERSEDED" ELSE vStatus[x]
      /\ \A x \in Envelopes : draft'[x] = IF x = e THEN v ELSE draft[x]
      /\ current' = current
      /\ vStatus[v] = None
    BY DEF EditDraft, WriteDraftVersion, InsertVersion, Superseding, TablesInv, TypeOK
<1>2. rStatus' = rStatus /\ rVersion' = rVersion /\ rBy' = rBy /\ rPolicy' = rPolicy /\ rStep' = rStep /\ rChain' = rChain
    BY DEF EditDraft, requestVars
<1>3. draft[e] # None => draft[e] # v /\ vStatus[draft[e]] = "DRAFT" /\ vEnv[draft[e]] = e
    BY <1>1, PointerRows DEF TablesInv, EditDraft, MayEdit
<1>4. \A x \in Envelopes : current[x] # v /\ draft[x] # v
    BY <1>1, PointerRows DEF TablesInv
<1>5. \A r \in Requests : Open(r) => rVersion[r] # v /\ rVersion[r] # draft[e] /\ rVersion[r] \in Versions
    BY <1>1, <1>3, OpenDraft
<1>6. RowsOK'
    BY <1>1, <1>2, <1>3 DEF TablesInv, RowsOK
<1>7. PointersAgree'
    BY <1>1, <1>3, <1>4, PointerRows DEF TablesInv, PointersAgree, RowsOK
<1>8. OneOpenRequest'
    BY <1>1, <1>2, <1>5 DEF TablesInv, OneOpenRequest, Open, EnvOf
<1>9. DraftsAreFresh'
    BY <1>1, <1>4, PointerRows DEF TablesInv, DraftsAreFresh
<1> QED
    BY <1>6, <1>7, <1>8, <1>9 DEF Agreement

\* A submission that applies at once keeps the tables in agreement.
LEMMA ApplyStepAgrees ==
    ASSUME TablesInv, ApplyStep
    PROVE  Agreement'
<1> PICK u \in Users, e \in Envelopes, v \in Versions, S \in SUBSET (Versions \cup {None}) :
            Submitting(u, e, v, S) /\ ApplyAtOnce(u, e, v, S)
    BY DEF ApplyStep
<1> USE NoneIsNone
<1>1. /\ \A x \in Versions : vStatus'[x] = IF x = v THEN "APPROVED" ELSE IF x \in S \cup {current[e]} THEN "SUPERSEDED" ELSE vStatus[x]
      /\ \A x \in Envelopes : draft'[x] = IF x = e THEN None ELSE draft[x]
      /\ \A x \in Envelopes : current'[x] = IF x = e THEN v ELSE current[x]
    BY DEF ApplyAtOnce, ApproveVersion, Superseding, TablesInv, TypeOK
<1>2. /\ \A r \in Requests : rStatus'[r] = rStatus[r] \/ (rStatus[r] = "CHANGES_REQUESTED" /\ rStatus'[r] = "WITHDRAWN")
      /\ rVersion' = rVersion /\ rBy' = rBy /\ rPolicy' = rPolicy /\ rStep' = rStep /\ rChain' = rChain
    BY DEF ApplyAtOnce, ReturnedWithdrawn
<1>3. /\ \A x \in Versions : vEnv'[x] = IF x = v THEN e ELSE vEnv[x]
      /\ \A x \in Versions : x # v => vBase'[x] = vBase[x] /\ vAuthor'[x] = vAuthor[x]
      /\ vBase'[v] = current[e] /\ vAuthor'[v] \in Users
      /\ vStatus[v] \in {None, "DRAFT"} /\ (vStatus[v] = "DRAFT" => draft[e] = v)
      /\ S \subseteq {draft[e]} /\ v \notin S /\ (draft[e] # None => draft[e] \in S \cup {v})
      /\ draft[e] # None => vStatus[draft[e]] = "DRAFT"
      /\ \A r \in Requests : Open(r) => EnvOf(r) # e
    BY SubmittingFacts
<1>4. /\ current[e] # v
      /\ \A x \in Envelopes : x # e => current[x] # v /\ draft[x] # v
    BY <1>3, PointerRows DEF TablesInv
<1>5. \A r \in Requests : Open(r) => /\ rVersion[r] \in Versions /\ rVersion[r] # v
                                     /\ rVersion[r] # draft[e] /\ rVersion[r] # current[e]
    BY <1>3, OpenDraft, PointerRows DEF TablesInv
<1>6. RowsOK'
    BY <1>1, <1>2, <1>3, PointerRows DEF TablesInv, RowsOK
<1>7. PointersAgree'
    BY <1>1, <1>3, <1>4, PointerRows DEF TablesInv, PointersAgree, RowsOK
<1>8. OneOpenRequest'
  <2>1. \A r \in Requests : rStatus'[r] \in OpenStatuses <=> Open(r)
    BY <1>2 DEF Open, OpenStatuses
  <2>2. \A x \in Versions : vStatus'[x] = "PENDING" <=> vStatus[x] = "PENDING"
    BY <1>1, <1>3, PointerRows DEF TablesInv
  <2> QED
    BY <1>1, <1>2, <1>3, <1>5, <2>1, <2>2 DEF TablesInv, OneOpenRequest, Open, EnvOf
<1>9. DraftsAreFresh'
    BY <1>1, <1>3, <1>4, PointerRows DEF TablesInv, DraftsAreFresh
<1> QED
    BY <1>6, <1>7, <1>8, <1>9 DEF Agreement

\* A submission that opens a request keeps the tables in agreement.
LEMMA OpenStepAgrees ==
    ASSUME TablesInv, OpenStep
    PROVE  Agreement'
<1> PICK u \in Users, e \in Envelopes, v \in Versions, S \in SUBSET (Versions \cup {None}),
         p \in Policies, r \in Requests :
            Submitting(u, e, v, S) /\ OpenRequest(u, e, v, S, p, r)
    BY DEF OpenStep
<1> USE NoneIsNone
<1>1. /\ \A x \in Versions : vStatus'[x] = IF x = v THEN "PENDING" ELSE IF x \in S THEN "SUPERSEDED" ELSE vStatus[x]
      /\ \A x \in Envelopes : draft'[x] = IF x = e THEN v ELSE draft[x]
      /\ current' = current
    BY DEF OpenRequest, Superseding, TablesInv, TypeOK
<1>2. /\ \A x \in Requests : x # r => \/ rStatus'[x] = rStatus[x]
                                      \/ rStatus[x] = "CHANGES_REQUESTED" /\ rStatus'[x] = "WITHDRAWN"
      /\ rStatus[r] = None /\ rStatus'[r] = "PENDING"
    BY DEF OpenRequest, ReturnedWithdrawn, TablesInv, TypeOK
<1>3. /\ \A x \in Requests : x # r => /\ rVersion'[x] = rVersion[x] /\ rBy'[x] = rBy[x] /\ rPolicy'[x] = rPolicy[x]
                                      /\ rStep'[x] = rStep[x] /\ rChain'[x] = rChain[x]
      /\ rVersion'[r] = v /\ rBy'[r] = u /\ rPolicy'[r] = p /\ rStep'[r] = 1 /\ rChain'[r] = p.chain
    BY DEF OpenRequest, TablesInv, TypeOK
<1>4. /\ \A x \in Versions : vEnv'[x] = IF x = v THEN e ELSE vEnv[x]
      /\ \A x \in Versions : x # v => vBase'[x] = vBase[x] /\ vAuthor'[x] = vAuthor[x]
      /\ vBase'[v] = current[e] /\ vAuthor'[v] \in Users
      /\ vStatus[v] \in {None, "DRAFT"} /\ (vStatus[v] = "DRAFT" => draft[e] = v)
      /\ S \subseteq {draft[e]} /\ v \notin S /\ (draft[e] # None => draft[e] \in S \cup {v})
      /\ draft[e] # None => vStatus[draft[e]] = "DRAFT"
      /\ \A x \in Requests : Open(x) => EnvOf(x) # e
    BY SubmittingFacts
<1>5. /\ current[e] # v
      /\ \A x \in Envelopes : x # e => current[x] # v /\ draft[x] # v
    BY <1>4, PointerRows DEF TablesInv
<1>6. \A x \in Requests : Open(x) => /\ rVersion[x] \in Versions /\ rVersion[x] # v /\ rVersion[x] # draft[e]
    BY <1>4, OpenDraft, PointerRows DEF TablesInv
<1>7. 1 \in 1..Len(p.chain)
  <2>1. p.chain \in Seq(Step) /\ p.chain # << >>
    BY PoliciesAssumption DEF OpenRequest, Routes
  <2> QED
    BY <2>1
<1>8. RowsOK'
  <2>1. \A x \in Versions : vStatus'[x] # None <=> (x = v \/ vStatus[x] # None)
    BY <1>1, <1>4, PointerRows DEF TablesInv
  <2>2. \A x \in Versions : /\ vStatus'[x] # None <=> vEnv'[x] # None
                            /\ vStatus'[x] # None => vAuthor'[x] \in Users
    BY <1>4, <2>1 DEF TablesInv, RowsOK
  <2>3. ASSUME NEW x \in Requests, rStatus'[x] # None
        PROVE  /\ rVersion'[x] \in Versions /\ vStatus'[rVersion'[x]] # None
               /\ rBy'[x] \in Users /\ rPolicy'[x] \in Policies
               /\ rStep'[x] \in 1..Len(rChain'[x])
    <3>1. CASE x = r
        BY <1>1, <1>3, <1>7, <3>1
    <3>2. CASE x # r
        BY <1>2, <1>3, <2>1, <2>3, <3>2 DEF TablesInv, RowsOK
    <3> QED
        BY <3>1, <3>2
  <2> QED
    BY <2>2, <2>3 DEF RowsOK
<1>9. PointersAgree'
    BY <1>1, <1>4, <1>5, PointerRows DEF TablesInv, PointersAgree, RowsOK
<1>10. OneOpenRequest'
  <2>1. \A x \in Requests : rStatus'[x] \in OpenStatuses <=> (x = r \/ Open(x))
    BY <1>2 DEF Open, OpenStatuses
  <2>2. \A x \in Versions : vStatus'[x] = "PENDING" <=> (x = v \/ vStatus[x] = "PENDING")
    BY <1>1, <1>4, PointerRows DEF TablesInv
  <2>3. ~ Open(r)
    BY <1>2 DEF Open, OpenStatuses
  <2>4. \A x \in Requests : Open(x) => rVersion'[x] = rVersion[x] /\ vEnv'[rVersion'[x]] = EnvOf(x)
    BY <1>3, <1>4, <1>6, <2>3 DEF EnvOf
  <2>5. vEnv'[rVersion'[r]] = e
    BY <1>3, <1>4
  <2>6. \A x \in Requests : rStatus'[x] \in OpenStatuses => vStatus'[rVersion'[x]] = "PENDING"
    BY <1>3, <1>6, <2>1, <2>2, <2>4 DEF TablesInv, OneOpenRequest
  <2>7. \A x \in Versions : vStatus'[x] = "PENDING" => \E y \in Requests : rStatus'[y] \in OpenStatuses /\ rVersion'[y] = x
    BY <1>3, <2>1, <2>2, <2>4 DEF TablesInv, OneOpenRequest
  <2>8. \A x, y \in Requests : rStatus'[x] \in OpenStatuses /\ rStatus'[y] \in OpenStatuses
                                 /\ vEnv'[rVersion'[x]] = vEnv'[rVersion'[y]] => x = y
    BY <1>4, <2>1, <2>4, <2>5 DEF TablesInv, OneOpenRequest
  <2> QED
    BY <2>6, <2>7, <2>8 DEF OneOpenRequest, Open, EnvOf
<1>11. DraftsAreFresh'
    BY <1>1, <1>4, <1>5, PointerRows DEF TablesInv, DraftsAreFresh
<1> QED
    BY <1>8, <1>9, <1>10, <1>11 DEF Agreement

\* Rejecting, returning or withdrawing a request keeps the tables in
\* agreement.
LEMMA CloseStepAgrees ==
    ASSUME TablesInv, CloseStep
    PROVE  Agreement'
<1> PICK r \in Requests, outcome \in {"REJECTED", "CHANGES_REQUESTED", "WITHDRAWN"} :
            Open(r) /\ CloseRequest(r, outcome)
    BY DEF CloseStep
<1> USE NoneIsNone
<1> DEFINE v == rVersion[r]
           e == EnvOf(r)
<1>1. /\ v \in Versions /\ e \in Envelopes /\ vEnv[v] = e /\ vStatus[v] = "PENDING"
      /\ draft[e] = v /\ current[e] # v
    BY OpenDraft
<1>2. /\ \A x \in Versions : vStatus'[x] = IF x = v THEN (IF outcome = "CHANGES_REQUESTED" THEN "DRAFT" ELSE outcome) ELSE vStatus[x]
      /\ \A x \in Envelopes : draft'[x] = IF x = e /\ outcome # "CHANGES_REQUESTED" THEN None ELSE draft[x]
      /\ \A x \in Requests : rStatus'[x] = IF x = r THEN outcome ELSE rStatus[x]
    BY <1>1 DEF CloseRequest, TablesInv, TypeOK
<1>3. /\ current' = current /\ vEnv' = vEnv /\ vAuthor' = vAuthor /\ vBase' = vBase
      /\ rVersion' = rVersion /\ rBy' = rBy /\ rPolicy' = rPolicy /\ rStep' = rStep /\ rChain' = rChain
    BY DEF CloseRequest
<1>4. \A x \in Envelopes : x # e => draft[x] # v /\ current[x] # v
    BY <1>1, PointerRows DEF TablesInv
<1>5. RowsOK'
    BY <1>1, <1>2, <1>3 DEF TablesInv, RowsOK, Open, OpenStatuses
<1>6. PointersAgree'
    BY <1>1, <1>2, <1>3, <1>4, PointerRows DEF TablesInv, PointersAgree
<1>7. OneOpenRequest'
  <2>1. \A x \in Requests : rStatus'[x] \in OpenStatuses <=> (x # r /\ Open(x))
    BY <1>2 DEF Open, OpenStatuses
  <2>2. \A x \in Requests : Open(x) /\ x # r => rVersion[x] # v
    BY OpenDraft DEF TablesInv, OneOpenRequest
  <2>3. \A x \in Versions : vStatus'[x] = "PENDING" <=> (x # v /\ vStatus[x] = "PENDING")
    BY <1>1, <1>2
  <2> QED
    BY <1>2, <1>3, <2>1, <2>2, <2>3, OpenDraft DEF TablesInv, OneOpenRequest, Open, EnvOf
<1>8. DraftsAreFresh'
    BY <1>2, <1>3 DEF TablesInv, DraftsAreFresh
<1> QED
    BY <1>5, <1>6, <1>7, <1>8 DEF Agreement

\* Approving the version of a request keeps the tables in agreement.
LEMMA FinishStepAgrees ==
    ASSUME TablesInv, FinishStep
    PROVE  Agreement'
<1> PICK r \in Requests : Open(r) /\ ApproveRequest(r)
    BY DEF FinishStep
<1> USE NoneIsNone
<1> DEFINE v == rVersion[r]
           e == EnvOf(r)
<1>1. /\ v \in Versions /\ e \in Envelopes /\ vEnv[v] = e /\ vStatus[v] = "PENDING"
      /\ draft[e] = v /\ current[e] # v
    BY OpenDraft
<1>2. /\ \A x \in Versions : vStatus'[x] = IF x = v THEN "APPROVED" ELSE IF x = current[e] THEN "SUPERSEDED" ELSE vStatus[x]
      /\ \A x \in Envelopes : draft'[x] = IF x = e THEN None ELSE draft[x]
      /\ \A x \in Envelopes : current'[x] = IF x = e THEN v ELSE current[x]
      /\ \A x \in Requests : rStatus'[x] = IF x = r THEN "APPROVED" ELSE rStatus[x]
    BY <1>1 DEF ApproveRequest, ApproveVersion, Superseding, TablesInv, TypeOK
<1>3. /\ vEnv' = vEnv /\ vAuthor' = vAuthor /\ vBase' = vBase
      /\ rVersion' = rVersion /\ rBy' = rBy /\ rPolicy' = rPolicy /\ rStep' = rStep /\ rChain' = rChain
    BY DEF ApproveRequest
<1>4. \A x \in Envelopes : x # e => draft[x] # v /\ current[x] # v
    BY <1>1, PointerRows DEF TablesInv
<1>5. RowsOK'
    BY <1>1, <1>2, <1>3, PointerRows DEF TablesInv, RowsOK, Open, OpenStatuses
<1>6. PointersAgree'
    BY <1>1, <1>2, <1>3, <1>4, PointerRows DEF TablesInv, PointersAgree
<1>7. OneOpenRequest'
  <2>1. \A x \in Requests : rStatus'[x] \in OpenStatuses <=> (x # r /\ Open(x))
    BY <1>2 DEF Open, OpenStatuses
  <2>2. \A x \in Requests : Open(x) /\ x # r => rVersion[x] # v
    BY OpenDraft DEF TablesInv, OneOpenRequest
  <2>3. \A x \in Versions : vStatus'[x] = "PENDING" <=> (x # v /\ vStatus[x] = "PENDING")
    BY <1>1, <1>2, PointerRows DEF TablesInv
  <2> QED
    BY <1>2, <1>3, <2>1, <2>2, <2>3, OpenDraft DEF TablesInv, OneOpenRequest, Open, EnvOf
<1>8. DraftsAreFresh'
    BY <1>2, <1>3 DEF TablesInv, DraftsAreFresh
<1> QED
    BY <1>5, <1>6, <1>7, <1>8 DEF Agreement

\* Moving a request to its next step keeps the tables in agreement.
LEMMA NextStepAgrees ==
    ASSUME TablesInv, NextStepStep
    PROVE  Agreement'
<1> PICK r \in Requests : Open(r) /\ rStep[r] < Len(rChain[r]) /\ NextStep(r)
    BY DEF NextStepStep
<1>1. UNCHANGED <<current, draft, vStatus, vEnv, vAuthor, vBase, rVersion, rBy, rPolicy, rChain>>
    BY DEF NextStep, envelopeVars, versionVars
<1>2. /\ \A x \in Requests : rStatus'[x] = IF x = r THEN "PENDING" ELSE rStatus[x]
      /\ \A x \in Requests : rStep'[x] = IF x = r THEN rStep[x] + 1 ELSE rStep[x]
    BY DEF NextStep, TablesInv, TypeOK
<1>3. rStep[r] \in 1..Len(rChain[r]) /\ rChain[r] \in Seq(Step) /\ rStatus[r] # None
    BY OpenRow, NoneIsNone DEF TablesInv, Open, OpenStatuses
<1>4. rStep[r] + 1 \in 1..Len(rChain[r])
    BY <1>3
<1>5. RowsOK'
    BY <1>1, <1>2, <1>3, <1>4 DEF TablesInv, RowsOK
<1>6. OneOpenRequest'
    BY <1>1, <1>2 DEF TablesInv, OneOpenRequest, Open, OpenStatuses, EnvOf
<1>7. PointersAgree' /\ DraftsAreFresh'
    BY <1>1 DEF TablesInv, PointersAgree, DraftsAreFresh
<1> QED
    BY <1>5, <1>6, <1>7 DEF Agreement

\* Escalating a request keeps the tables in agreement.
LEMMA EscalateStepAgrees ==
    ASSUME TablesInv, EscalateStep
    PROVE  Agreement'
<1> PICK r \in Requests : Escalate(r)
    BY DEF EscalateStep
<1>1. UNCHANGED <<current, draft, vStatus, vEnv, vAuthor, vBase, rVersion, rBy, rPolicy>>
    BY DEF Escalate, envelopeVars, versionVars
<1>2. /\ \A x \in Requests : rStatus'[x] = IF x = r THEN "ESCALATED" ELSE rStatus[x]
      /\ \A x \in Requests : rStep'[x] = IF x = r THEN rStep[x] + 1 ELSE rStep[x]
      /\ \A x \in Requests : x # r => rChain'[x] = rChain[x]
      /\ rChain'[r] = InsertAfter(rChain[r], rStep[r], EscalationStep(r))
    BY DEF Escalate, TablesInv, TypeOK
<1>3. rStep[r] \in 1..Len(rChain[r]) /\ rChain[r] \in Seq(Step) /\ EscalationStep(r) \in Step
    BY EscalationStepIsStep DEF TablesInv
<1>4. Len(rChain'[r]) = Len(rChain[r]) + 1
    BY <1>2, <1>3, InsertAfterIsChain
<1>5. rStep'[r] \in 1..Len(rChain'[r])
    BY <1>2, <1>3, <1>4
<1>6. Open(r) /\ rStatus[r] # None
    BY NoneIsNone DEF Escalate, Open, OpenStatuses
<1>7. RowsOK'
    BY <1>1, <1>2, <1>5, <1>6 DEF TablesInv, RowsOK
<1>8. OneOpenRequest'
    BY <1>1, <1>2, <1>6 DEF TablesInv, OneOpenRequest, Open, OpenStatuses, EnvOf
<1>9. PointersAgree' /\ DraftsAreFresh'
    BY <1>1 DEF TablesInv, PointersAgree, DraftsAreFresh
<1> QED
    BY <1>7, <1>8, <1>9 DEF Agreement

\* Decisions that only wait, threads and closures keep the tables in
\* agreement.
LEMMA TablesUnchangedAgrees ==
    ASSUME TablesInv, TablesUnchanged
    PROVE  Agreement'
    BY DEF TablesInv, TablesUnchanged, Agreement, RowsOK, PointersAgree, OneOpenRequest, DraftsAreFresh, Open, EnvOf, versionVars

\* The inductive invariant is kept by every step.
LEMMA TablesInvStep == TablesInv /\ [Next]_vars => TablesInv'
<1> SUFFICES ASSUME TablesInv, [Next]_vars PROVE TablesInv'
    OBVIOUS
<1>1. TypeOK'
    BY TypeStep DEF TablesInv
<1>2. StepShape
    BY Shapes DEF TablesInv
<1>3. Agreement'
    BY <1>2, DraftStepAgrees, ApplyStepAgrees, OpenStepAgrees, CloseStepAgrees, FinishStepAgrees,
       NextStepAgrees, EscalateStepAgrees, TablesUnchangedAgrees DEF StepShape
<1> QED
    BY <1>1, <1>3 DEF TablesInv, Agreement

\* The inductive invariant holds initially.
LEMMA TablesInvInit == Init => TablesInv
<1> SUFFICES ASSUME Init PROVE TablesInv
    OBVIOUS
<1>1. PointersAgree /\ DraftsAreFresh
    BY NoneIsNone DEF Init, PointersAgree, DraftsAreFresh
<1>2. OneOpenRequest
    BY NoneIsNone DEF Init, OneOpenRequest, Open, OpenStatuses
<1> QED
    BY <1>1, <1>2, Init1, Init2 DEF TablesInv

\* In every reachable state, for every choice of the constants: the tables are
\* well typed, pointers and statuses agree, a version is under approval exactly
\* while one open request asks for it, and drafts are based on what is approved.
THEOREM TablesCorrect == Spec => []TablesInv
    BY TablesInvInit, TablesInvStep, PTL DEF Spec

\* In every behaviour, for every instance, the columns keep their types.
THEOREM TypeCorrect == Spec => []TypeOK
    BY TablesCorrect, PTL DEF TablesInv

\* Whatever commands run, exactly the current version of an envelope is APPROVED
\* and exactly its draft is DRAFT or PENDING.
THEOREM PointersCorrect == Spec => []PointersAgree
    BY TablesCorrect, PTL DEF TablesInv

\* Whatever commands run, a version is under approval exactly while one open
\* request asks for it, and no envelope has two (submit, decide, withdraw, move).
THEOREM OpenRequestsCorrect == Spec => []OneOpenRequest
    BY TablesCorrect, PTL DEF TablesInv

\* No approval overwrites an approved version its author had not seen: drafts are
\* always based on the version approved now.
THEOREM DraftsCorrect == Spec => []DraftsAreFresh
    BY TablesCorrect, PTL DEF TablesInv
-----------------------------------------------------------------------------
(* The approval chain, for every chain, policy and set of users: nobody decides     *)
(* who may not, and no step is skipped, also when escalation rewrites the chain     *)
(* under decisions that are filed by step number.                                   *)

\* A decision is filed under a step that its request has reached.
DecisionsReached ==
    \A d \in decisions : rStatus[d.request] # None /\ d.step \in 1..rStep[d.request]

\* A request that was not opened stands on no step.
UnopenedRows == \A r \in Requests : rStatus[r] = None => rStep[r] = 0

\* The inductive invariant of the chains.
ChainInv == TablesInv /\ UnopenedRows /\ DecisionsReached /\ ApproversEligible /\ ApprovalsEarned

-----------------------------------------------------------------------------
(* What a step does to requests and decisions *)

Decides(u, r, kind) ==
    Open(r) /\ RecordDecision(u, r, kind) /\ (kind = "approve" => Eligible(u, r))

ChainShape ==
    \/ /\ UNCHANGED decisions
       /\ \/ DraftStep \/ ApplyStep \/ OpenStep \/ CloseStep \/ EscalateStep \/ TablesUnchanged
    \/ \E u \in Users, r \in Requests, kind \in DecisionKind :
          /\ Decides(u, r, kind)
          /\ \/ \E outcome \in {"REJECTED", "CHANGES_REQUESTED"} : CloseRequest(r, outcome)
             \/ AdvanceIfComplete(r, kind = "approve" /\ u \in Admins)
             \/ TablesUnchanged

\* Every step records at most one decision, on an open request, and does to
\* the requests what ChainShape says.
LEMMA ChainShapes == ASSUME TypeOK, [Next]_vars PROVE ChainShape
<1>1. CASE UNCHANGED vars
    BY <1>1 DEF vars, ChainShape, TablesUnchanged, envelopeVars, requestVars
<1>2. CASE EnvelopeCommand
  <2>1. ASSUME NEW u \in Users, NEW e \in Envelopes, SubmitVersion(u, e)
        PROVE  ChainShape
    <3>1. draft[e] \in Versions
        BY <2>1 DEF SubmitVersion, TypeOK
    <3>2. Submitting(u, e, draft[e], {}) /\ UNCHANGED decisions
        BY <2>1 DEF SubmitVersion, Submitting
    <3> QED
        BY <2>1, <3>1, <3>2 DEF SubmitVersion, Route, ChainShape, ApplyStep, OpenStep
  <2>2. ASSUME NEW u \in Users, NEW e \in Envelopes, NEW v \in Versions, EditDraft(u, e, v)
        PROVE  ChainShape
    BY <2>2 DEF EditDraft, ChainShape, DraftStep
  <2>3. ASSUME NEW u \in Users, NEW e \in Envelopes, NEW v \in Versions, SubmitDraft(u, e, v)
        PROVE  ChainShape
    <3>1. {draft[e]} \in SUBSET (Versions \cup {None})
        BY DEF TypeOK
    <3>2. Submitting(u, e, v, {draft[e]}) /\ UNCHANGED decisions
        BY <2>3 DEF SubmitDraft, Submitting
    <3> QED
        BY <2>3, <3>1, <3>2 DEF SubmitDraft, Route, ChainShape, ApplyStep, OpenStep
  <2> QED
    BY <1>2, <2>1, <2>2, <2>3 DEF EnvelopeCommand, CreateDraftVersion, UpdatePhasing, RestoreVersion
<1>3. CASE RequestCommand
  <2>1. ASSUME NEW r \in Requests, NEW u \in Users, Approve(u, r)
        PROVE  ChainShape
    <3>1. Decides(u, r, "approve") /\ "approve" \in DecisionKind
        BY <2>1 DEF Approve, MayDecide, Decides, DecisionKind
    <3>2. AdvanceIfComplete(r, "approve" = "approve" /\ u \in Admins)
        BY <2>1 DEF Approve, AdvanceIfComplete
    <3> QED
        BY <3>1, <3>2 DEF ChainShape
  <2>2. ASSUME NEW r \in Requests, NEW u \in Users, RecordExternalEvidence(u, r)
        PROVE  ChainShape
    <3>1. Decides(u, r, "external_evidence") /\ "external_evidence" \in DecisionKind
        BY <2>2 DEF RecordExternalEvidence, Decides, DecisionKind
    <3>2. CASE rPolicy[r].allowExternalEvidence
      <4>1. AdvanceIfComplete(r, "external_evidence" = "approve" /\ u \in Admins)
          BY <2>2, <3>2 DEF RecordExternalEvidence, AdvanceIfComplete
      <4> QED
          BY <3>1, <4>1 DEF ChainShape
    <3>3. CASE ~ rPolicy[r].allowExternalEvidence
      <4>1. TablesUnchanged
          BY <2>2, <3>3 DEF RecordExternalEvidence, TablesUnchanged, envelopeVars, requestVars
      <4> QED
          BY <3>1, <4>1 DEF ChainShape
    <3> QED
        BY <3>2, <3>3
  <2>3. ASSUME NEW r \in Requests, NEW u \in Users, Reject(u, r)
        PROVE  ChainShape
    <3>1. Decides(u, r, "reject") /\ "reject" \in DecisionKind
        BY <2>3 DEF Reject, MayDecide, Decides, DecisionKind
    <3> QED
        BY <2>3, <3>1 DEF ChainShape, Reject
  <2>4. ASSUME NEW r \in Requests, NEW u \in Users, RequestChanges(u, r)
        PROVE  ChainShape
    <3>1. Decides(u, r, "request_changes") /\ "request_changes" \in DecisionKind
        BY <2>4 DEF RequestChanges, MayDecide, Decides, DecisionKind
    <3> QED
        BY <2>4, <3>1 DEF ChainShape, RequestChanges
  <2>5. ASSUME NEW r \in Requests, NEW u \in Users, Withdraw(u, r)
        PROVE  ChainShape
    BY <2>5 DEF Withdraw, ChainShape, CloseStep
  <2>6. ASSUME NEW r \in Requests, MoveReroutes(r) \/ DueDatePasses(r) \/ Escalate(r)
        PROVE  ChainShape
    BY <2>6 DEF MoveReroutes, DueDatePasses, Escalate, ChainShape, CloseStep, EscalateStep, TablesUnchanged, envelopeVars
  <2> QED
    BY <1>3, <2>1, <2>2, <2>3, <2>4, <2>5, <2>6 DEF RequestCommand
<1>4. CASE Housekeeping
    BY <1>4 DEF Housekeeping, BlockingThreadOpens, BlockingThreadsResolved, ReleaseClosure, StartClose,
                ChainShape, TablesUnchanged, envelopeVars, requestVars
<1> QED
    BY <1>1, <1>2, <1>3, <1>4 DEF Next

-----------------------------------------------------------------------------
(* What a step does to one request *)

SameRow(r) ==
    /\ rVersion'[r] = rVersion[r] /\ rBy'[r] = rBy[r] /\ rPolicy'[r] = rPolicy[r]

\* What approves a request: an admin, or the decision that completes its
\* last step.
Finished(r) ==
    \/ \E d \in decisions' : d.request = r /\ d.kind = "approve" /\ d.user \in Admins
    \/ StepComplete(r) /\ rStep[r] = Len(rChain[r])

Started(r) == rStatus[r] = None /\ rStatus'[r] = "PENDING" /\ rStep'[r] = 1

Resting(r) ==
    /\ SameRow(r) /\ rChain'[r] = rChain[r] /\ rStep'[r] = rStep[r]
    /\ rStatus'[r] = None <=> rStatus[r] = None
    /\ rStatus'[r] = "APPROVED" => rStatus[r] = "APPROVED" \/ Finished(r)
    /\ rStatus'[r] \in OpenStatuses => rStatus'[r] = rStatus[r]

Advanced(r) ==
    /\ SameRow(r) /\ rChain'[r] = rChain[r] /\ rStep'[r] = rStep[r] + 1
    /\ StepComplete(r) /\ rStatus[r] # None /\ rStatus'[r] = "PENDING"

Escalated(r) ==
    /\ SameRow(r) /\ rStatus[r] # None /\ rStatus'[r] = "ESCALATED"
    /\ rStep'[r] = rStep[r] + 1 /\ Len(rChain'[r]) = Len(rChain[r]) + 1
    /\ \A i \in 1..rStep[r] : rChain'[r][i] = rChain[r][i]
    /\ rChain'[r][rStep[r] + 1].escalatedFrom = rStep[r]
    /\ rChain'[r][rStep[r] + 1].escalateTo = None

Fate(r) == Started(r) \/ Resting(r) \/ Advanced(r) \/ Escalated(r)

\* Opening a request starts it and withdraws at most returned ones.
LEMMA OpenFate == ASSUME TablesInv, OpenStep, NEW r \in Requests PROVE Fate(r)
<1> PICK u \in Users, e \in Envelopes, v \in Versions, S \in SUBSET (Versions \cup {None}),
         p \in Policies, q \in Requests : OpenRequest(u, e, v, S, p, q)
    BY DEF OpenStep
<1>1. /\ rStatus' = [ReturnedWithdrawn(e) EXCEPT ![q] = "PENDING"]
      /\ rStep' = [rStep EXCEPT ![q] = 1]
      /\ rStatus[q] = None
    BY DEF OpenRequest
<1>2. CASE r = q
    BY <1>1, <1>2, ReturnedWithdrawnType DEF Fate, Started, TablesInv, TypeOK
<1>3. CASE r # q
  <2>1. SameRow(r) /\ rChain'[r] = rChain[r] /\ rStep'[r] = rStep[r]
    BY <1>3 DEF OpenRequest, SameRow, TablesInv, TypeOK
  <2>2. rStatus'[r] = IF r \in RequestsOn(e) /\ rStatus[r] = "CHANGES_REQUESTED" THEN "WITHDRAWN" ELSE rStatus[r]
    BY <1>1, <1>3 DEF ReturnedWithdrawn
  <2> QED
    BY <2>1, <2>2, NoneIsNone DEF Fate, Resting, OpenStatuses
<1> QED
    BY <1>2, <1>3

\* Closing a request leaves its row and does not approve it.
LEMMA CloseFate ==
    ASSUME TablesInv, NEW q \in Requests, Open(q),
           NEW outcome \in {"REJECTED", "CHANGES_REQUESTED", "WITHDRAWN"}, CloseRequest(q, outcome),
           NEW r \in Requests
    PROVE  Fate(r)
<1>1. /\ rStatus'[r] = IF r = q THEN outcome ELSE rStatus[r]
      /\ UNCHANGED <<rVersion, rBy, rPolicy, rChain, rStep>>
    BY DEF CloseRequest, TablesInv, TypeOK
<1>2. r = q => rStatus[r] # None
    BY NoneIsNone DEF Open, OpenStatuses
<1> QED
    BY <1>1, <1>2, NoneIsNone DEF Fate, Resting, OpenStatuses, SameRow

\* A decision that counts leaves its request where it is, takes it one step
\* further, or finishes it.
LEMMA AdvanceFate ==
    ASSUME TablesInv, NEW u \in Users, NEW q \in Requests, NEW kind \in DecisionKind,
           Decides(u, q, kind), AdvanceIfComplete(q, kind = "approve" /\ u \in Admins),
           NEW r \in Requests
    PROVE  Fate(r)
<1>1. rStatus[q] # None /\ rStep[q] \in 1..Len(rChain[q]) /\ rChain[q] \in Seq(Step)
    BY OpenRow, NoneIsNone DEF Decides, Open, OpenStatuses, TablesInv
<1>2. CASE UNCHANGED <<envelopeVars, versionVars, requestVars>>
    BY <1>2 DEF Fate, Resting, SameRow, requestVars
<1>3. CASE /\ (kind = "approve" /\ u \in Admins) \/ (StepComplete(q) /\ rStep[q] >= Len(rChain[q]))
           /\ ApproveRequest(q)
  <2>1. /\ rStatus'[r] = IF r = q THEN "APPROVED" ELSE rStatus[r]
        /\ UNCHANGED <<rVersion, rBy, rPolicy, rChain, rStep>>
    BY <1>3 DEF ApproveRequest, TablesInv, TypeOK
  <2>2. Finished(q)
    <3>1. CASE kind = "approve" /\ u \in Admins
      <4> DEFINE d == [request |-> q, step |-> rStep[q], user |-> u, kind |-> kind]
      <4>1. d \in decisions'
        BY DEF Decides, RecordDecision
      <4>2. d.request = q /\ d.kind = "approve" /\ d.user \in Admins
        BY <3>1
      <4> QED
        BY <4>1, <4>2 DEF Finished
    <3>2. CASE StepComplete(q) /\ rStep[q] >= Len(rChain[q])
      <4>1. rStep[q] = Len(rChain[q])
        BY <1>1, <3>2
      <4> QED
        BY <3>2, <4>1 DEF Finished
    <3> QED
        BY <1>3, <3>1, <3>2
  <2> QED
    BY <1>1, <2>1, <2>2, NoneIsNone DEF Fate, Resting, OpenStatuses, SameRow
<1>4. CASE StepComplete(q) /\ NextStep(q)
  <2>1. /\ rStatus'[r] = IF r = q THEN "PENDING" ELSE rStatus[r]
        /\ rStep'[r] = IF r = q THEN rStep[r] + 1 ELSE rStep[r]
        /\ UNCHANGED <<rVersion, rBy, rPolicy, rChain>>
    BY <1>4 DEF NextStep, TablesInv, TypeOK
  <2>2. CASE r = q
    BY <1>1, <1>4, <2>1, <2>2 DEF Fate, Advanced, SameRow
  <2>3. CASE r # q
    BY <2>1, <2>3 DEF Fate, Resting, SameRow
  <2> QED
    BY <2>2, <2>3
<1> QED
    BY <1>2, <1>3, <1>4 DEF AdvanceIfComplete

\* Escalating a request inserts the step it then stands on.
LEMMA EscalateFate == ASSUME TablesInv, EscalateStep, NEW r \in Requests PROVE Fate(r)
<1> PICK q \in Requests : Escalate(q)
    BY DEF EscalateStep
<1>1. /\ UNCHANGED <<rVersion, rBy, rPolicy>>
      /\ rStatus'[r] = IF r = q THEN "ESCALATED" ELSE rStatus[r]
      /\ rStep'[r] = IF r = q THEN rStep[r] + 1 ELSE rStep[r]
      /\ rChain'[r] = IF r = q THEN InsertAfter(rChain[r], rStep[r], EscalationStep(r)) ELSE rChain[r]
    BY DEF Escalate, TablesInv, TypeOK
<1>2. CASE r # q
    BY <1>1, <1>2 DEF Fate, Resting, SameRow
<1>3. CASE r = q
  <2>1. /\ rStep[r] \in 1..Len(rChain[r]) /\ rChain[r] \in Seq(Step)
        /\ EscalationStep(r) \in Step /\ EscalationStep(r).escalatedFrom = rStep[r]
        /\ EscalationStep(r).escalateTo = None
    BY <1>3, EscalationStepIsStep DEF TablesInv, EscalationStep
  <2>2. rStatus[r] # None
    BY <1>3, NoneIsNone DEF Escalate
  <2> DEFINE after == InsertAfter(rChain[r], rStep[r], EscalationStep(r))
  <2>3. /\ Len(after) = Len(rChain[r]) + 1
        /\ \A i \in 1..rStep[r] : after[i] = rChain[r][i]
        /\ after[rStep[r] + 1] = EscalationStep(r)
    BY <2>1, InsertAfterIsChain
  <2> QED
    BY <1>1, <1>3, <2>1, <2>2, <2>3 DEF Fate, Escalated, SameRow
<1> QED
    BY <1>2, <1>3

\* Every step starts a request, leaves it where it is, takes it one completed
\* step further, or escalates it.
LEMMA Fates == ASSUME TablesInv, ChainShape, NEW r \in Requests PROVE Fate(r)
<1>1. CASE DraftStep \/ TablesUnchanged
    BY <1>1 DEF DraftStep, EditDraft, TablesUnchanged, Fate, Resting, SameRow, requestVars
<1>2. CASE ApplyStep
  <2>1. PICK e \in Envelopes : /\ rStatus' = ReturnedWithdrawn(e)
                               /\ UNCHANGED <<rVersion, rBy, rPolicy, rChain, rStep>>
    BY <1>2 DEF ApplyStep, ApplyAtOnce
  <2>2. rStatus'[r] = IF r \in RequestsOn(e) /\ rStatus[r] = "CHANGES_REQUESTED" THEN "WITHDRAWN" ELSE rStatus[r]
    BY <2>1 DEF ReturnedWithdrawn
  <2> QED
    BY <2>1, <2>2, NoneIsNone DEF Fate, Resting, OpenStatuses, SameRow
<1>3. CASE CloseStep
    BY <1>3, CloseFate DEF CloseStep
<1>4. ASSUME NEW u \in Users, NEW q \in Requests, NEW kind \in DecisionKind, Decides(u, q, kind),
             NEW outcome \in {"REJECTED", "CHANGES_REQUESTED"}, CloseRequest(q, outcome)
      PROVE  Fate(r)
  <2>1. Open(q)
    BY <1>4 DEF Decides
  <2> QED
    BY <1>4, <2>1, CloseFate
<1> QED
    BY <1>1, <1>2, <1>3, <1>4, OpenFate, EscalateFate, AdvanceFate DEF ChainShape

\* Nobody rewrites who wrote the version a request is about.
LEMMA AuthorStays ==
    ASSUME TablesInv, [Next]_vars, NEW r \in Requests, rStatus[r] # None
    PROVE  vAuthor'[rVersion[r]] = vAuthor[rVersion[r]]
<1>1. rVersion[r] \in Versions /\ vStatus[rVersion[r]] # None
    BY DEF TablesInv, RowsOK
<1>2. \/ UNCHANGED vAuthor
      \/ \E u \in Users, e \in Envelopes, v \in Versions : InsertVersion(u, e, v)
  <2>1. StepShape
    BY Shapes DEF TablesInv
  <2> QED
    BY <2>1 DEF StepShape, DraftStep, EditDraft, WriteDraftVersion, ApplyStep, OpenStep, Submitting,
                CloseStep, CloseRequest, FinishStep, ApproveRequest, NextStepStep, NextStep,
                EscalateStep, Escalate, TablesUnchanged, versionVars
<1> QED
    BY <1>1, <1>2 DEF InsertVersion, TablesInv, TypeOK

-----------------------------------------------------------------------------
(* What happened stays where it was filed *)

\* Decisions are never lost, and a new one is filed by who decides.
LEMMA DecisionsGrow ==
    ASSUME ChainShape
    PROVE  /\ decisions \subseteq decisions'
           /\ \A d \in decisions' \ decisions :
                 \E u \in Users, r \in Requests, kind \in DecisionKind :
                    /\ Decides(u, r, kind)
                    /\ d = [request |-> r, step |-> rStep[r], user |-> u, kind |-> kind]
    BY DEF ChainShape, Decides, RecordDecision

\* The steps a request has reached keep their numbers and contents.
LEMMA ReachedStays ==
    ASSUME TablesInv, ChainShape, NEW r \in Requests, rStatus[r] # None
    PROVE  /\ SameRow(r) /\ rStatus'[r] # None
           /\ rStep'[r] \in {rStep[r], rStep[r] + 1}
           /\ \A k \in 1..rStep[r] : rChain'[r][k] = rChain[r][k]
    BY Fates, NoneIsNone DEF Fate, Started, Resting, Advanced, Escalated

\* A step that is earned stays earned while the chain up to the step after it
\* stays.
LEMMA EarnedStays ==
    ASSUME TypeOK, NEW r \in Requests, NEW k \in 1..Len(rChain[r]), StepEarned(r, k),
           decisions \subseteq decisions', SameRow(r),
           Len(rChain'[r]) \in Nat, Len(rChain'[r]) >= Len(rChain[r]),
           rChain'[r][k] = rChain[r][k],
           k < Len(rChain[r]) => rChain'[r][k + 1] = rChain[r][k + 1]
    PROVE  StepEarned(r, k)'
<1> DEFINE A == CountedDeciders(decisions, r, k)
           B == CountedDeciders(decisions, r, k)'
<1>1. rChain[r] \in Seq(Step) /\ Len(rChain[r]) \in Nat
    BY DEF TypeOK
<1>2. rChain[r][k].minApprovals \in Nat
  <2>1. rChain[r][k] \in Step
    BY <1>1
  <2> QED
    BY <2>1 DEF Step
<1>3. A \subseteq B /\ B \subseteq Users
    BY DEF CountedDeciders, CountingKinds, SameRow
<1>4. Cardinality(A) \in Nat /\ Cardinality(B) \in Nat /\ Cardinality(A) <= Cardinality(B)
  <2>1. IsFiniteSet(B)
    BY <1>3, UsersAssumption, FS_Subset
  <2>2. IsFiniteSet(A) /\ Cardinality(A) <= Cardinality(B)
    BY <1>3, <2>1, FS_Subset
  <2> QED
    BY <2>1, <2>2, FS_CardinalityType
<1>5. CASE Cardinality(A) >= rChain[r][k].minApprovals
  <2>1. Cardinality(B) >= rChain'[r][k].minApprovals
    <3> HIDE DEF A, B
    <3> QED
      BY <1>2, <1>4, <1>5
  <2> QED
    BY <2>1 DEF StepEarned
<1>6. CASE k < Len(rChain[r]) /\ rChain[r][k + 1].escalatedFrom = k
  <2>1. k < Len(rChain'[r])
    BY <1>1, <1>6
  <2> QED
    BY <1>6, <2>1 DEF StepEarned
<1> QED
    BY <1>5, <1>6 DEF StepEarned

\* The decision that completes a step earns it.
LEMMA CompleteEarns ==
    ASSUME NEW r \in Requests, NEW k, k = rStep[r], StepComplete(r), SameRow(r),
           rChain'[r][k] = rChain[r][k]
    PROVE  StepEarned(r, k)'
    BY DEF StepComplete, StepOf, StepEarned, CountedDeciders, CountingKinds, SameRow

-----------------------------------------------------------------------------
(* Every step keeps the invariant *)

\* Decisions stay filed under steps that were reached.
LEMMA ReachedStep == ASSUME ChainInv, ChainShape PROVE DecisionsReached'
<1> SUFFICES ASSUME NEW d \in decisions'
             PROVE  rStatus'[d.request] # None /\ d.step \in 1..rStep'[d.request]
    BY DEF DecisionsReached
<1> PICK r \in Requests : d.request = r /\ rStatus[r] # None /\ d.step \in 1..rStep[r]
  <2>1. CASE d \in decisions
    BY <2>1 DEF ChainInv, TablesInv, TypeOK, DecisionsReached
  <2>2. CASE d \notin decisions
    <3>1. PICK u \in Users, r \in Requests, kind \in DecisionKind :
             /\ Decides(u, r, kind)
             /\ d = [request |-> r, step |-> rStep[r], user |-> u, kind |-> kind]
        BY <2>2, DecisionsGrow
    <3>2. rStatus[r] # None
        BY <3>1, NoneIsNone DEF Decides, Open, OpenStatuses
    <3>3. rStep[r] \in 1..rStep[r]
        BY <3>2 DEF ChainInv, TablesInv, TypeOK, RowsOK
    <3> QED
        BY <3>1, <3>2, <3>3
  <2> QED
    BY <2>1, <2>2
<1>1. rStatus'[r] # None /\ rStep'[r] \in {rStep[r], rStep[r] + 1} /\ rStep[r] \in Nat
    BY ReachedStays DEF ChainInv, TablesInv, TypeOK
<1> QED
    BY <1>1

\* Approvals stay, and new ones are, by who was eligible for their step.
LEMMA EligibleStep == ASSUME ChainInv, ChainShape, [Next]_vars PROVE ApproversEligible'
<1> SUFFICES ASSUME NEW d \in decisions', d.kind = "approve", d.user \notin Admins
             PROVE  /\ rChain'[d.request][d.step].role \in RolesOf[d.user]
                    /\ rPolicy'[d.request].blockSelfApproval =>
                          d.user \notin {rBy'[d.request], vAuthor'[rVersion'[d.request]]}
    BY DEF ApproversEligible
<1> PICK r \in Requests :
        /\ d.request = r /\ rStatus[r] # None /\ d.step \in 1..rStep[r]
        /\ rChain[r][d.step].role \in RolesOf[d.user]
        /\ rPolicy[r].blockSelfApproval => d.user \notin {rBy[r], vAuthor[rVersion[r]]}
  <2>1. CASE d \in decisions
    BY <2>1 DEF ChainInv, TablesInv, TypeOK, DecisionsReached, ApproversEligible
  <2>2. CASE d \notin decisions
    <3>1. PICK u \in Users, r \in Requests, kind \in DecisionKind :
             /\ Decides(u, r, kind)
             /\ d = [request |-> r, step |-> rStep[r], user |-> u, kind |-> kind]
        BY <2>2, DecisionsGrow
    <3>2. rStatus[r] # None
        BY <3>1, NoneIsNone DEF Decides, Open, OpenStatuses
    <3>3. rStep[r] \in 1..rStep[r]
        BY <3>2 DEF ChainInv, TablesInv, TypeOK, RowsOK
    <3>4. Eligible(u, r)
        BY <3>1 DEF Decides
    <3> QED
        BY <3>1, <3>2, <3>3, <3>4 DEF Eligible, StepOf
  <2> QED
    BY <2>1, <2>2
<1>1. SameRow(r) /\ rChain'[r][d.step] = rChain[r][d.step]
    BY ReachedStays DEF ChainInv
<1>2. vAuthor'[rVersion[r]] = vAuthor[rVersion[r]]
    BY AuthorStays DEF ChainInv
<1> QED
    BY <1>1, <1>2 DEF SameRow

\* A request still moves past earned steps only, and is approved on earned
\* steps or by an admin only.
LEMMA EarnedStep == ASSUME ChainInv, ChainShape PROVE ApprovalsEarned'
<1> SUFFICES ASSUME NEW r \in Requests
             PROVE  /\ \A k \in 1..(rStep'[r] - 1) : StepEarned(r, k)'
                    /\ rStatus'[r] = "APPROVED" =>
                          \/ \E d \in decisions' : d.request = r /\ d.kind = "approve" /\ d.user \in Admins
                          \/ rStep'[r] = Len(rChain'[r]) /\ StepEarned(r, rStep[r])'
    BY DEF ApprovalsEarned
<1> USE DEF ChainInv
<1>1. /\ TypeOK /\ decisions \subseteq decisions'
      /\ rStep[r] \in Nat /\ rChain[r] \in Seq(Step) /\ Len(rChain[r]) \in Nat
      /\ rStatus[r] = None => rStep[r] = 0
      /\ rStatus[r] # None => rStep[r] \in 1..Len(rChain[r])
    BY DecisionsGrow DEF TablesInv, TypeOK, RowsOK, UnopenedRows
<1>2. \A k \in 1..(rStep[r] - 1) : StepEarned(r, k)
    BY DEF ApprovalsEarned
<1>3. CASE Started(r)
    BY <1>3 DEF Started
<1>4. CASE Resting(r)
  <2>1. SameRow(r) /\ rChain'[r] = rChain[r] /\ rStep'[r] = rStep[r]
    BY <1>4 DEF Resting
  <2>2. ASSUME NEW k \in 1..rStep[r], StepEarned(r, k)
        PROVE  StepEarned(r, k)'
    <3>1. k \in 1..Len(rChain[r])
        BY <1>1, <2>2
    <3> QED
        BY <1>1, <2>1, <2>2, <3>1, EarnedStays
  <2>3. \A k \in 1..(rStep'[r] - 1) : StepEarned(r, k)'
    <3> TAKE k \in 1..(rStep'[r] - 1)
    <3>1. k \in 1..rStep[r] /\ StepEarned(r, k)
        BY <1>1, <1>2, <2>1
    <3> QED
        BY <2>2, <3>1
  <2>4. ASSUME rStatus'[r] = "APPROVED"
        PROVE  \/ \E d \in decisions' : d.request = r /\ d.kind = "approve" /\ d.user \in Admins
               \/ rStep'[r] = Len(rChain'[r]) /\ StepEarned(r, rStep[r])'
    <3> PICK n \in 1..rStep[r] : n = rStep[r] /\ n = rStep'[r]
        BY <1>1, <1>4, <2>1, <2>4, NoneIsNone DEF Resting
    <3>1. CASE Finished(r)
      <4>1. CASE StepComplete(r) /\ rStep[r] = Len(rChain[r])
        <5>1. StepEarned(r, n)'
            BY <2>1, <4>1, CompleteEarns
        <5> QED
            BY <2>1, <4>1, <5>1
      <4> QED
        BY <3>1, <4>1 DEF Finished
    <3>2. CASE rStatus[r] = "APPROVED"
      <4>1. CASE rStep[r] = Len(rChain[r]) /\ StepEarned(r, n)
        <5>1. StepEarned(r, n)'
            BY <2>2, <4>1
        <5> QED
            BY <2>1, <4>1, <5>1
      <4> QED
        BY <1>1, <3>2, <4>1 DEF ApprovalsEarned
    <3> QED
        BY <1>4, <2>4, <3>1, <3>2 DEF Resting
  <2> QED
    BY <2>3, <2>4
<1>5. CASE Advanced(r)
  <2>1. SameRow(r) /\ rChain'[r] = rChain[r] /\ rStep'[r] = rStep[r] + 1 /\ rStatus'[r] # "APPROVED" /\ StepComplete(r)
    BY <1>5 DEF Advanced
  <2>2. \A k \in 1..(rStep'[r] - 1) : StepEarned(r, k)'
    <3> TAKE k \in 1..(rStep'[r] - 1)
    <3>1. CASE k = rStep[r]
        BY <2>1, <3>1, CompleteEarns
    <3>2. CASE k # rStep[r]
      <4>1. k \in 1..(rStep[r] - 1) /\ k \in 1..Len(rChain[r])
        BY <1>1, <1>5, <2>1, <3>2 DEF Advanced
      <4>2. StepEarned(r, k)
        BY <1>2, <4>1
      <4>3. Len(rChain'[r]) \in Nat /\ Len(rChain'[r]) >= Len(rChain[r])
        BY <1>1, <2>1
      <4> QED
        BY <1>1, <2>1, <4>1, <4>2, <4>3, EarnedStays
    <3> QED
        BY <3>1, <3>2
  <2> QED
    BY <2>1, <2>2
<1>6. CASE Escalated(r)
  <2>1. /\ SameRow(r) /\ rStep'[r] = rStep[r] + 1 /\ rStatus'[r] # "APPROVED"
        /\ Len(rChain'[r]) = Len(rChain[r]) + 1
        /\ \A i \in 1..rStep[r] : rChain'[r][i] = rChain[r][i]
        /\ rStep[r] \in 1..Len(rChain[r])
    BY <1>1, <1>6 DEF Escalated
  <2>2. \A k \in 1..(rStep'[r] - 1) : StepEarned(r, k)'
    <3> TAKE k \in 1..(rStep'[r] - 1)
    <3>1. CASE k = rStep[r]
      <4>1. k < Len(rChain'[r]) /\ rChain'[r][k + 1].escalatedFrom = k
        BY <1>1, <1>6, <2>1, <3>1 DEF Escalated
      <4> QED
        BY <4>1 DEF StepEarned
    <3>2. CASE k # rStep[r]
      <4>1. k \in 1..(rStep[r] - 1) /\ k \in 1..Len(rChain[r]) /\ k + 1 \in 1..rStep[r]
        BY <1>1, <2>1, <3>2
      <4>2. rChain'[r][k] = rChain[r][k] /\ rChain'[r][k + 1] = rChain[r][k + 1]
        BY <1>1, <2>1, <4>1
      <4>3. Len(rChain'[r]) \in Nat /\ Len(rChain'[r]) >= Len(rChain[r])
        BY <1>1, <2>1
      <4> QED
        BY <1>1, <1>2, <2>1, <4>1, <4>2, <4>3, EarnedStays
    <3> QED
        BY <3>1, <3>2
  <2> QED
    BY <2>1, <2>2
<1> QED
    BY <1>3, <1>4, <1>5, <1>6, Fates DEF Fate

\* A request whose step names an escalation role still waits as PENDING: it was
\* opened or taken to the step as PENDING, or it stands where it stood.
LEMMA EscalatesAgainStep == ASSUME ChainInv, EscalatesAgain, ChainShape PROVE EscalatesAgain'
<1> SUFFICES ASSUME NEW r \in Requests, rStatus'[r] \in OpenStatuses,
                    rChain'[r][rStep'[r]].escalateTo # None
             PROVE  rStatus'[r] = "PENDING"
    BY DEF EscalatesAgain, Open, StepOf
<1>1. CASE Resting(r)
    BY <1>1 DEF Resting, EscalatesAgain, Open, StepOf
<1>2. ~ Escalated(r)
    BY DEF Escalated
<1> QED
    BY <1>1, <1>2, Fates DEF ChainInv, Fate, Started, Advanced

\* Rows that were not opened still stand on no step.
LEMMA UnopenedStep == ASSUME ChainInv, ChainShape PROVE UnopenedRows'
    BY Fates, NoneIsNone DEF ChainInv, UnopenedRows, Fate, Started, Resting, Advanced, Escalated

\* The invariant of the chains is kept by every step.
LEMMA ChainInvStep == ChainInv /\ [Next]_vars => ChainInv'
<1> SUFFICES ASSUME ChainInv, [Next]_vars PROVE ChainInv'
    OBVIOUS
<1>1. TablesInv' /\ ChainShape
    BY TablesInvStep, ChainShapes DEF ChainInv, TablesInv
<1> QED
    BY <1>1, ReachedStep, EligibleStep, EarnedStep, UnopenedStep DEF ChainInv

\* The invariant of the chains holds initially.
LEMMA ChainInvInit == Init => ChainInv
<1> SUFFICES ASSUME Init PROVE ChainInv
    OBVIOUS
<1>1. UnopenedRows /\ DecisionsReached /\ ApproversEligible
    BY DEF Init, UnopenedRows, DecisionsReached, ApproversEligible
<1>2. ApprovalsEarned
    BY NoneIsNone DEF Init, ApprovalsEarned
<1> QED
    BY <1>1, <1>2, TablesInvInit DEF ChainInv

\* In every reachable state, for every chain, policy and set of users, the
\* requests' steps, decisions and chains agree.
THEOREM ChainsCorrect == Spec => []ChainInv
    BY ChainInvInit, ChainInvStep, PTL DEF Spec

\* No request is hidden from the escalation job while its step names an
\* escalation role, however often its chain was rewritten (advanceIfComplete sets
\* PENDING back, and the step that escalateOverdue adds never escalates).
THEOREM EscalatesAgainCorrect == Spec => []EscalatesAgain
<1>1. Init => ChainInv /\ EscalatesAgain
    BY ChainInvInit, NoneIsNone DEF Init, EscalatesAgain, Open, OpenStatuses
<1>2. ChainInv /\ EscalatesAgain /\ [Next]_vars => (ChainInv /\ EscalatesAgain)'
    BY ChainInvStep, EscalatesAgainStep, ChainShapes DEF ChainInv, TablesInv
<1> QED
    BY <1>1, <1>2, PTL DEF Spec

\* Separation of duties: no approve is ever on record from a user who is neither
\* an admin nor a holder of the role of the step it is filed under, or from the
\* requester or author where that is barred, however escalation rewrote the chain.
THEOREM EligibleCorrect == Spec => []ApproversEligible
    BY ChainsCorrect, PTL DEF ChainInv

\* No request moves past a step that distinct deciders did not complete, unless
\* it was escalated past, and none is approved short of its whole chain unless an
\* admin approved it (advanceIfComplete, escalateOverdue).
THEOREM EarnedCorrect == Spec => []ApprovalsEarned
    BY ChainsCorrect, PTL DEF ChainInv
=============================================================================
