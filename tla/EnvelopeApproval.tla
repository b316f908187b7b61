-------------------------- MODULE EnvelopeApproval --------------------------
(***************************************************************************)
(* Budget envelopes, their versions, the approval requests that turn a     *)
(* draft into the approved amount, and the period closures that freeze     *)
(* envelopes: the commands of apps/api that write them.                    *)
(*                                                                         *)
(* Every command runs in one database transaction that locks the rows it   *)
(* decides on before it reads them (the request, then its envelopes; the   *)
(* envelope; the closure), so a command is one action.  A command that     *)
(* throws rolls back and is no step.  The columns of a table are functions *)
(* of the row's id; a row that was never inserted has the status None.     *)
(* Amounts, dates and dimension scopes are left out: an approval that the  *)
(* parent cap refuses, for one, rolls back.                                *)
(*                                                                         *)
(* An operator Mut... is a definition as a plausible bug would have it; no *)
(* action uses one, they show that the properties can fail.                *)
(***************************************************************************)
EXTENDS Naturals, Sequences, FiniteSets

CONSTANTS
    Envelopes, Versions, Requests, Closures, Users,
    Editors,      \* users whose role grants edit_draft and submit in scope
    Admins,       \* users with a role of DIRECT_ROLES
    Roles, RolesOf,
    Policies,     \* the workspace's active policies
    ScanLimit,    \* overdue requests that the escalation job reads at a time
    None

VARIABLES
    estatus, current, draft,              \* envelope
    blocked,                              \* envelopes with an open blocking thread
    vStatus, vEnv, vAuthor, vBase,        \* envelope_version
    rStatus, rVersion, rBy, rPolicy,      \* approval_request
    rChain, rStep,                        \* ... its frozen chain
    overdue,                              \* ... the PENDING ones due no later, once it is
    decisions,                            \* approval_decision
    cStatus, prior,                       \* period_closure, closure_envelope
    overruled                             \* history: <<c, e>> when evidence approved a
                                          \* version of e while c covered e

envelopeVars == <<estatus, current, draft>>
versionVars  == <<vStatus, vEnv, vAuthor, vBase>>
requestVars  == <<rStatus, rVersion, rBy, rPolicy, rChain, rStep, overdue>>
closureVars  == <<cStatus, prior, overruled>>
vars == <<envelopeVars, blocked, versionVars, requestVars, decisions, closureVars>>

EnvelopeStatus == {"DRAFT", "PENDING", "APPROVED", "LOCKED"}
VersionStatus  == {"DRAFT", "PENDING", "APPROVED", "REJECTED", "SUPERSEDED", "WITHDRAWN"}
RequestStatus  == {"PENDING", "ESCALATED", "APPROVED", "REJECTED", "CHANGES_REQUESTED", "WITHDRAWN"}
DecisionKind   == {"approve", "reject", "request_changes", "external_evidence"}
RetiredStatus  == {"SUPERSEDED", "REJECTED", "WITHDRAWN"}

\* A step of a chain; escalatedFrom is set on the steps escalation adds.
Step == [role : Roles, minApprovals : Nat \ {0},
         escalateTo : Roles \cup {None}, escalatedFrom : Nat \cup {None}]

ASSUME ConstantsAssumption ==
    /\ Editors \subseteq Users /\ Admins \subseteq Users
    /\ RolesOf \in [Users -> SUBSET Roles]
    /\ None \notin Envelopes \cup Versions \cup Requests \cup Users \cup Roles
    /\ None \notin EnvelopeStatus \cup VersionStatus \cup RequestStatus \cup Nat
    /\ None \notin Policies

ASSUME UsersAssumption == IsFiniteSet(Users) /\ ScanLimit \in Nat

ASSUME PoliciesAssumption ==
    \A p \in Policies :
        /\ p.chain \in Seq(Step)
        /\ \A i \in 1..Len(p.chain) : p.chain[i].escalatedFrom = None
        /\ p.blockSelfApproval \in BOOLEAN
        /\ p.allowExternalEvidence \in BOOLEAN

-----------------------------------------------------------------------------
(* Reading the tables *)

OpenStatuses  == {"PENDING", "ESCALATED"}
Open(r)       == rStatus[r] \in OpenStatuses
EnvOf(r)      == vEnv[rVersion[r]]
RequestsOn(e) == {r \in Requests : rStatus[r] # None /\ EnvOf(r) = e}
StepOf(r)     == rChain[r][rStep[r]]
HeadVersion(e) == IF draft[e] # None THEN draft[e] ELSE current[e]

\* lockForWrite, assertBasedOnHead and assertDraftNotPending: u edits the
\* head they loaded, and a draft under approval is frozen.
MayEdit(u, e) ==
    /\ u \in Editors
    /\ estatus[e] # "LOCKED"
    /\ draft[e] # None => vStatus[draft[e]] # "PENDING"

\* submitVersionIn: no open request and no open blocking thread.
MaySubmit(u, e) ==
    /\ u \in Editors
    /\ estatus[e] # "LOCKED"
    /\ \A r \in RequestsOn(e) : ~ Open(r)
    /\ e \notin blocked

\* matchPolicy: an admin's own change matches the built-in direct policy,
\* whose chain is empty.  Which of the policies matches anyone else depends
\* on the amounts.
AppliesDirectly(u) == u \in Admins \/ \E p \in Policies : p.chain = <<>>
Routes(u) == IF u \in Admins THEN {} ELSE {p \in Policies : p.chain # <<>>}

\* The holding (closing or closed) closures that cover e.
Covering(e) == {c \in Closures : cStatus[c] = "holding" /\ prior[c][e] # None}

\* Those of them that evidence has not overruled.
Freezing(e) == {c \in Covering(e) : <<c, e>> \notin overruled}

-----------------------------------------------------------------------------
(* Shared writes *)

\* v gets status s and the versions of S are superseded.
Superseding(S, v, s) ==
    [x \in Versions |-> IF x = v THEN s ELSE IF x \in S THEN "SUPERSEDED" ELSE vStatus[x]]

MutInsertVersion(u, e, v) ==
    /\ vStatus[v] = None
    /\ vEnv' = [vEnv EXCEPT ![v] = e]
    /\ vAuthor' = [vAuthor EXCEPT ![v] = u]
    /\ vBase' = [vBase EXCEPT ![v] = HeadVersion(e)]   \* the draft, not the approved one

InsertVersion(u, e, v) ==
    /\ vStatus[v] = None
    /\ vEnv' = [vEnv EXCEPT ![v] = e]
    /\ vAuthor' = [vAuthor EXCEPT ![v] = u]
    /\ vBase' = [vBase EXCEPT ![v] = current[e]]

\* writeDraftVersion
WriteDraftVersion(u, e, v) ==
    /\ InsertVersion(u, e, v)
    /\ vStatus' = Superseding({draft[e]}, v, "DRAFT")
    /\ draft' = [draft EXCEPT ![e] = v]
    /\ estatus' = [estatus EXCEPT ![e] = IF @ \in {"APPROVED", "PENDING"} THEN @ ELSE "DRAFT"]
    /\ UNCHANGED current

MutApproveVersion(e, v, S) ==
    /\ vStatus' = Superseding(S, v, "APPROVED")         \* the old version stays APPROVED
    /\ current' = [current EXCEPT ![e] = v]
    /\ draft' = [draft EXCEPT ![e] = None]
    /\ estatus' = [estatus EXCEPT ![e] = "APPROVED"]

\* approveVersion, when the versions of S are superseded in the same
\* transaction.
ApproveVersion(e, v, S) ==
    /\ vStatus' = Superseding(S \cup {current[e]}, v, "APPROVED")
    /\ current' = [current EXCEPT ![e] = v]
    /\ draft' = [draft EXCEPT ![e] = None]
    /\ estatus' = [estatus EXCEPT ![e] = "APPROVED"]

MutReturnedWithdrawn(e) ==                              \* whatever their status
    [x \in Requests |-> IF x \in RequestsOn(e) THEN "WITHDRAWN" ELSE rStatus[x]]

\* Resubmitting closes the requests of e that were returned for changes.
ReturnedWithdrawn(e) ==
    [x \in Requests |-> IF x \in RequestsOn(e) /\ rStatus[x] = "CHANGES_REQUESTED"
                        THEN "WITHDRAWN" ELSE rStatus[x]]

\* submitVersionIn once v is e's draft, as u; S as above.
ApplyAtOnce(u, e, v, S) ==
    /\ AppliesDirectly(u)
    /\ ApproveVersion(e, v, S)
    /\ rStatus' = ReturnedWithdrawn(e)
    /\ UNCHANGED <<rVersion, rBy, rPolicy, rChain, rStep, overdue>>

OpenRequest(u, e, v, S, p, r) ==
    /\ p \in Routes(u)
    /\ rStatus[r] = None
    /\ vStatus' = Superseding(S, v, "PENDING")
    /\ draft' = [draft EXCEPT ![e] = v]
    /\ estatus' = [estatus EXCEPT ![e] = "PENDING"]
    /\ UNCHANGED current
    /\ rStatus' = [ReturnedWithdrawn(e) EXCEPT ![r] = "PENDING"]
    /\ rVersion' = [rVersion EXCEPT ![r] = v]
    /\ rBy' = [rBy EXCEPT ![r] = u]
    /\ rPolicy' = [rPolicy EXCEPT ![r] = p]
    /\ rChain' = [rChain EXCEPT ![r] = p.chain]
    /\ rStep' = [rStep EXCEPT ![r] = 1]
    /\ UNCHANGED overdue

Route(u, e, v, S) ==
    \/ ApplyAtOnce(u, e, v, S)
    \/ \E p \in Policies, r \in Requests : OpenRequest(u, e, v, S, p, r)

-----------------------------------------------------------------------------
(* Envelope commands *)

EditDraft(u, e, v) ==
    /\ MayEdit(u, e)
    /\ WriteDraftVersion(u, e, v)
    /\ UNCHANGED <<blocked, requestVars, decisions, closureVars>>

\* PATCH draft, PATCH phasing (the head version is phased anew) and restore
\* (a past version of the same envelope is copied).
CreateDraftVersion(u, e, v) == EditDraft(u, e, v)
UpdatePhasing(u, e, v) == HeadVersion(e) # None /\ EditDraft(u, e, v)
RestoreVersion(u, e, v) == (\E x \in Versions : vEnv[x] = e) /\ EditDraft(u, e, v)

SubmitVersion(u, e) ==
    /\ MaySubmit(u, e)
    /\ draft[e] # None
    /\ vStatus[draft[e]] = "DRAFT"
    /\ Route(u, e, draft[e], {})
    /\ UNCHANGED <<vEnv, vAuthor, vBase, blocked, decisions, closureVars>>

\* A new draft and its submission in one transaction.
SubmitDraft(u, e, v) ==
    /\ MayEdit(u, e)
    /\ MaySubmit(u, e)
    /\ InsertVersion(u, e, v)
    /\ Route(u, e, v, {draft[e]})
    /\ UNCHANGED <<blocked, decisions, closureVars>>

-----------------------------------------------------------------------------
(* Requests *)

\* closeRequest, for a request on one version.
RestingStatus(e) == IF current[e] # None THEN "APPROVED" ELSE "DRAFT"

\* overdue, once r is decided or has a later due_at.
NoLongerDue(r) == [o \in Requests |-> IF o = r THEN {} ELSE overdue[o] \ {r}]

MutCloseRequestKeepsDraft(r, outcome) ==                \* the draft pointer is not cleared
    LET v == rVersion[r]
        e == EnvOf(r)
    IN  /\ vStatus' = [vStatus EXCEPT ![v] = IF outcome = "CHANGES_REQUESTED" THEN "DRAFT" ELSE outcome]
        /\ estatus' = [estatus EXCEPT ![e] = RestingStatus(e)]
        /\ rStatus' = [rStatus EXCEPT ![r] = outcome]
        /\ overdue' = NoLongerDue(r)
        /\ UNCHANGED <<draft, current, vEnv, vAuthor, vBase, rVersion, rBy, rPolicy, rChain, rStep>>

MutCloseRequestStatus(r, outcome) ==                    \* the version takes the request's status
    LET v == rVersion[r]
        e == EnvOf(r)
    IN  /\ vStatus' = [vStatus EXCEPT ![v] = outcome]
        /\ estatus' = [estatus EXCEPT ![e] = RestingStatus(e)]
        /\ draft' = [draft EXCEPT ![e] = IF outcome = "CHANGES_REQUESTED" THEN @ ELSE None]
        /\ rStatus' = [rStatus EXCEPT ![r] = outcome]
        /\ overdue' = NoLongerDue(r)
        /\ UNCHANGED <<current, vEnv, vAuthor, vBase, rVersion, rBy, rPolicy, rChain, rStep>>

CloseRequest(r, outcome) ==
    LET v == rVersion[r]
        e == EnvOf(r)
        returned == outcome = "CHANGES_REQUESTED"
    IN  /\ vStatus' = [vStatus EXCEPT ![v] = IF returned THEN "DRAFT" ELSE outcome]
        /\ estatus' = [estatus EXCEPT ![e] = RestingStatus(e)]
        /\ draft' = [draft EXCEPT ![e] = IF returned THEN @ ELSE None]
        /\ rStatus' = [rStatus EXCEPT ![r] = outcome]
        /\ overdue' = NoLongerDue(r)
        /\ UNCHANGED <<current, vEnv, vAuthor, vBase, rVersion, rBy, rPolicy, rChain, rStep>>

MutEligible(u, r) ==                                    \* the requester, not the author
    \/ u \in Admins
    \/ /\ StepOf(r).role \in RolesOf[u]
       /\ rPolicy[r].blockSelfApproval => u # rBy[r]

Eligible(u, r) ==
    \/ u \in Admins
    \/ /\ StepOf(r).role \in RolesOf[u]
       /\ rPolicy[r].blockSelfApproval => u \notin {rBy[r], vAuthor[rVersion[r]]}

\* approval_decision has one row per request, step and decider.
RecordDecision(u, r, kind) ==
    /\ \A d \in decisions : ~ (d.request = r /\ d.step = rStep[r] /\ d.user = u)
    /\ decisions' = decisions \cup {[request |-> r, step |-> rStep[r], user |-> u, kind |-> kind]}

MayDecide(u, r) ==
    /\ Open(r)
    /\ estatus[EnvOf(r)] # "LOCKED"
    /\ rStep[r] <= Len(rChain[r])
    /\ Eligible(u, r)

CountingKinds(r) ==
    IF rPolicy[r].allowExternalEvidence THEN {"approve", "external_evidence"} ELSE {"approve"}

\* The distinct deciders whose approvals count at step k of r.
CountedDeciders(D, r, k) ==
    {u \in Users : \E d \in D : d.request = r /\ d.step = k /\ d.user = u /\ d.kind \in CountingKinds(r)}

\* advanceIfComplete, after the decision was recorded.
StepComplete(r) ==
    Cardinality(CountedDeciders(decisions', r, rStep[r])) >= StepOf(r).minApprovals

ApproveRequest(r) ==
    /\ ApproveVersion(EnvOf(r), rVersion[r], {})
    /\ rStatus' = [rStatus EXCEPT ![r] = "APPROVED"]
    /\ overdue' = NoLongerDue(r)
    /\ UNCHANGED <<vEnv, vAuthor, vBase, rVersion, rBy, rPolicy, rChain, rStep>>

MutNextStep(r) ==                                       \* stays ESCALATED
    /\ rStep' = [rStep EXCEPT ![r] = @ + 1]
    /\ overdue' = NoLongerDue(r)
    /\ UNCHANGED <<envelopeVars, versionVars, rStatus, rVersion, rBy, rPolicy, rChain>>

NextStep(r) ==
    /\ rStep' = [rStep EXCEPT ![r] = @ + 1]
    /\ rStatus' = [rStatus EXCEPT ![r] = "PENDING"]
    /\ overdue' = NoLongerDue(r)
    /\ UNCHANGED <<envelopeVars, versionVars, rVersion, rBy, rPolicy, rChain>>

AdvanceIfComplete(r, final) ==
    \/ /\ ~ final /\ ~ StepComplete(r)
       /\ UNCHANGED <<envelopeVars, versionVars, requestVars>>
    \/ /\ final \/ (StepComplete(r) /\ rStep[r] >= Len(rChain[r]))
       /\ ApproveRequest(r)
    \/ /\ ~ final /\ StepComplete(r) /\ rStep[r] < Len(rChain[r])
       /\ NextStep(r)

\* decide: an admin's approval is final, whatever steps remain.
Approve(u, r) ==
    /\ MayDecide(u, r)
    /\ RecordDecision(u, r, "approve")
    /\ AdvanceIfComplete(r, u \in Admins)
    /\ UNCHANGED <<blocked, closureVars>>

Reject(u, r) ==
    /\ MayDecide(u, r)
    /\ RecordDecision(u, r, "reject")
    /\ CloseRequest(r, "REJECTED")
    /\ UNCHANGED <<blocked, closureVars>>

\* The blocking thread keeps the envelope from being resubmitted.
RequestChanges(u, r) ==
    /\ MayDecide(u, r)
    /\ RecordDecision(u, r, "request_changes")
    /\ CloseRequest(r, "CHANGES_REQUESTED")
    /\ blocked' = blocked \cup {EnvOf(r)}
    /\ UNCHANGED closureVars

\* Neither eligibility nor the envelope's lock is asked.
RecordExternalEvidence(u, r) ==
    /\ u \in Editors
    /\ Open(r)
    /\ RecordDecision(u, r, "external_evidence")
    /\ IF rPolicy[r].allowExternalEvidence
       THEN rStep[r] <= Len(rChain[r]) /\ AdvanceIfComplete(r, FALSE)
       ELSE UNCHANGED <<envelopeVars, versionVars, requestVars>>
    /\ overruled' = IF rStatus'[r] = "APPROVED" THEN overruled \cup (Covering(EnvOf(r)) \X {EnvOf(r)})
                    ELSE overruled
    /\ UNCHANGED <<blocked, cStatus, prior>>

MutWithdrawLocked(u, r) ==                              \* no assertNotLocked
    /\ Open(r)
    /\ u = rBy[r] \/ u \in Admins
    /\ CloseRequest(r, "WITHDRAWN")
    /\ UNCHANGED <<blocked, decisions, closureVars>>

MutWithdrawResolved(u, r) ==                            \* no assertOpen
    /\ rStatus[r] # None
    /\ u = rBy[r] \/ u \in Admins
    /\ estatus[EnvOf(r)] # "LOCKED"
    /\ CloseRequest(r, "WITHDRAWN")
    /\ UNCHANGED <<blocked, decisions, closureVars>>

Withdraw(u, r) ==
    /\ Open(r)
    /\ u = rBy[r] \/ u \in Admins
    /\ estatus[EnvOf(r)] # "LOCKED"
    /\ CloseRequest(r, "WITHDRAWN")
    /\ UNCHANGED <<blocked, decisions, closureVars>>

\* moveIn: the envelope moves to where another policy, or none, matches its
\* open request (a move that matches the same one writes nothing here).
MoveReroutes(r) ==
    /\ Open(r)
    /\ estatus[EnvOf(r)] # "LOCKED"
    /\ CloseRequest(r, "CHANGES_REQUESTED")
    /\ blocked' = blocked \cup {EnvOf(r)}
    /\ UNCHANGED <<decisions, closureVars>>

\* Time; the due date of an escalated request is not looked at.
DueDatePasses(r) ==
    /\ rStatus[r] = "PENDING"
    /\ overdue[r] = {}
    /\ overdue' = [overdue EXCEPT ![r] = {r} \cup {o \in Requests : overdue[o] # {}}]
    /\ UNCHANGED <<envelopeVars, blocked, versionVars, rStatus, rVersion, rBy, rPolicy, rChain, rStep, decisions, closureVars>>

MutInsertAfter(chain, k, s) ==                          \* right before it
    [i \in 1..Len(chain) + 1 |-> IF i < k THEN chain[i] ELSE IF i = k THEN s ELSE chain[i - 1]]

\* The chain with a step s inserted right after its k-th.
InsertAfter(chain, k, s) ==
    [i \in 1..Len(chain) + 1 |-> IF i <= k THEN chain[i] ELSE IF i = k + 1 THEN s ELSE chain[i - 1]]

EscalationStep(r) ==
    [role |-> StepOf(r).escalateTo, minApprovals |-> 1, escalateTo |-> None, escalatedFrom |-> rStep[r]]

\* The oldest that are due and PENDING, whether or not their step escalates.
Scanned(r) ==
    overdue[r] # {} /\ Cardinality(overdue[r]) <= ScanLimit

\* escalateOverdue, for one request of its scan, read again under its lock.
Escalate(r) ==
    /\ rStatus[r] = "PENDING"
    /\ Scanned(r)
    /\ rStep[r] <= Len(rChain[r])
    /\ StepOf(r).escalateTo # None
    /\ rChain' = [rChain EXCEPT ![r] = InsertAfter(@, rStep[r], EscalationStep(r))]
    /\ rStep' = [rStep EXCEPT ![r] = @ + 1]
    /\ rStatus' = [rStatus EXCEPT ![r] = "ESCALATED"]
    /\ overdue' = NoLongerDue(r)
    /\ UNCHANGED <<envelopeVars, blocked, versionVars, rVersion, rBy, rPolicy, decisions, closureVars>>

-----------------------------------------------------------------------------
(* Blocking threads and period closures *)

\* createThread with isBlocking, or reopenThread.
BlockingThreadOpens(e) ==
    /\ e \notin blocked
    /\ blocked' = blocked \cup {e}
    /\ UNCHANGED <<envelopeVars, versionVars, requestVars, decisions, closureVars>>

\* resolveThread of the last blocking thread that was open.
BlockingThreadsResolved(e) ==
    /\ e \in blocked
    /\ blocked' = blocked \ {e}
    /\ UNCHANGED <<envelopeVars, versionVars, requestVars, decisions, closureVars>>

MutPriorStatuses(e) == {estatus[e]}                        \* whatever it is now

\* lockPeriodEnvelopes: the status to give back later.  The code takes the
\* one recorded by the covering closure with the earliest closed_at.
PriorStatuses(e) ==
    IF estatus[e] # "LOCKED" THEN {estatus[e]}
    ELSE IF Covering(e) = {} THEN {"APPROVED"} ELSE {prior[c][e] : c \in Covering(e)}

\* A closure starts over the envelopes S of its period; `closing` and
\* `closed` hold them alike (PeriodClosure tells the two apart).
StartClose(c, S) ==
    /\ cStatus[c] = "none"
    /\ cStatus' = [cStatus EXCEPT ![c] = "holding"]
    /\ \E f \in [S -> EnvelopeStatus] :
          /\ \A e \in S : f[e] \in PriorStatuses(e)
          /\ prior' = [prior EXCEPT ![c] = [e \in Envelopes |-> IF e \in S THEN f[e] ELSE None]]
    /\ estatus' = [e \in Envelopes |-> IF e \in S THEN "LOCKED" ELSE estatus[e]]
    /\ UNCHANGED <<current, draft, blocked, versionVars, requestVars, decisions, overruled>>

MutReleaseClosure(c) ==                                 \* other closures are not asked
    /\ cStatus[c] = "holding"
    /\ cStatus' = [cStatus EXCEPT ![c] = "released"]
    /\ estatus' = [e \in Envelopes |->
                     IF prior[c][e] # None /\ estatus[e] = "LOCKED" THEN prior[c][e] ELSE estatus[e]]
    /\ UNCHANGED <<current, draft, blocked, versionVars, requestVars, decisions, prior, overruled>>

\* Restated, failed or abandoned: unlockClosureEnvelopes.
ReleaseClosure(c) ==
    /\ cStatus[c] = "holding"
    /\ cStatus' = [cStatus EXCEPT ![c] = "released"]
    /\ estatus' = [e \in Envelopes |->
                     IF prior[c][e] # None /\ estatus[e] = "LOCKED" /\ Covering(e) \subseteq {c}
                     THEN prior[c][e] ELSE estatus[e]]
    /\ UNCHANGED <<current, draft, blocked, versionVars, requestVars, decisions, prior, overruled>>

-----------------------------------------------------------------------------
Init ==
    /\ estatus = [e \in Envelopes |-> "DRAFT"]
    /\ current = [e \in Envelopes |-> None]
    /\ draft = [e \in Envelopes |-> None]
    /\ blocked = {}
    /\ vStatus = [v \in Versions |-> None]
    /\ vEnv = [v \in Versions |-> None]
    /\ vAuthor = [v \in Versions |-> None]
    /\ vBase = [v \in Versions |-> None]
    /\ rStatus = [r \in Requests |-> None]
    /\ rVersion = [r \in Requests |-> None]
    /\ rBy = [r \in Requests |-> None]
    /\ rPolicy = [r \in Requests |-> None]
    /\ rChain = [r \in Requests |-> <<>>]
    /\ rStep = [r \in Requests |-> 0]
    /\ overdue = [r \in Requests |-> {}]
    /\ decisions = {}
    /\ cStatus = [c \in Closures |-> "none"]
    /\ prior = [c \in Closures |-> [e \in Envelopes |-> None]]
    /\ overruled = {}

EnvelopeCommand ==
    \E u \in Users, e \in Envelopes :
        \/ SubmitVersion(u, e)
        \/ \E v \in Versions : \/ CreateDraftVersion(u, e, v)
                               \/ UpdatePhasing(u, e, v)
                               \/ RestoreVersion(u, e, v)
                               \/ SubmitDraft(u, e, v)

RequestCommand ==
    \E r \in Requests :
        \/ \E u \in Users : \/ Approve(u, r)
                            \/ Reject(u, r)
                            \/ RequestChanges(u, r)
                            \/ RecordExternalEvidence(u, r)
                            \/ Withdraw(u, r)
        \/ MoveReroutes(r)
        \/ DueDatePasses(r)
        \/ Escalate(r)

Housekeeping ==
    \/ \E e \in Envelopes : BlockingThreadOpens(e) \/ BlockingThreadsResolved(e)
    \/ \E c \in Closures : ReleaseClosure(c) \/ \E S \in SUBSET Envelopes \ {{}} : StartClose(c, S)

Next == EnvelopeCommand \/ RequestCommand \/ Housekeeping

Spec == Init /\ [][Next]_vars

\* Due dates pass, and a job runs escalateOverdue again and again, as its comment
\* says (escalate-overdue.ts:9).
Fairness == \A r \in Requests : WF_vars(DueDatePasses(r)) /\ WF_vars(Escalate(r))
FairSpec == Spec /\ Fairness

-----------------------------------------------------------------------------
(* Properties *)

\* The columns hold values of their types.
TypeOK ==
    /\ estatus \in [Envelopes -> EnvelopeStatus]
    /\ current \in [Envelopes -> Versions \cup {None}]
    /\ draft \in [Envelopes -> Versions \cup {None}]
    /\ blocked \subseteq Envelopes
    /\ vStatus \in [Versions -> VersionStatus \cup {None}]
    /\ vEnv \in [Versions -> Envelopes \cup {None}]
    /\ vAuthor \in [Versions -> Users \cup {None}]
    /\ vBase \in [Versions -> Versions \cup {None}]
    /\ rStatus \in [Requests -> RequestStatus \cup {None}]
    /\ rVersion \in [Requests -> Versions \cup {None}]
    /\ rBy \in [Requests -> Users \cup {None}]
    /\ rPolicy \in [Requests -> Policies \cup {None}]
    /\ rChain \in [Requests -> Seq(Step)]
    /\ rStep \in [Requests -> Nat]
    /\ overdue \in [Requests -> SUBSET Requests]
    /\ decisions \subseteq [request : Requests, step : Nat, user : Users, kind : DecisionKind]
    /\ cStatus \in [Closures -> {"none", "holding", "released"}]
    /\ prior \in [Closures -> [Envelopes -> EnvelopeStatus \cup {None}]]
    /\ overruled \subseteq Closures \X Envelopes

\* The envelope's two pointers and its versions' statuses never disagree:
\* exactly the current version is APPROVED and exactly the draft is DRAFT or
\* PENDING, whatever commands wrote the two tables.
PointersAgree ==
    /\ \A e \in Envelopes : \A v \in {current[e], draft[e]} \ {None} : vEnv[v] = e
    /\ \A e \in Envelopes, v \in Versions :
          vEnv[v] = e => /\ vStatus[v] = "APPROVED" <=> current[e] = v
                         /\ vStatus[v] \in {"DRAFT", "PENDING"} <=> draft[e] = v

\* A version is under approval exactly while one open request asks for it,
\* and an envelope never has two: no command decides or submits around the
\* other (the row locks of decide, withdraw, submit and move).
OneOpenRequest ==
    /\ \A r \in Requests : Open(r) => vStatus[rVersion[r]] = "PENDING"
    /\ \A v \in Versions : vStatus[v] = "PENDING" => \E r \in Requests : Open(r) /\ rVersion[r] = v
    /\ \A r1, r2 \in Requests : Open(r1) /\ Open(r2) /\ EnvOf(r1) = EnvOf(r2) => r1 = r2

\* A draft was always started from the version that is approved now, so an
\* approval never overwrites an approved version its author had not seen.
DraftsAreFresh ==
    \A e \in Envelopes : draft[e] # None => vBase[draft[e]] = current[e]

\* A draft version sets the status back, a decision clears it, a closure
\* saves it and gives it back: an envelope's status says what is under way
\* on it, and so does what each closure will restore, unless evidence approved
\* a version of it while it was covered.
WorkStatus(e) ==
    IF draft[e] # None /\ vStatus[draft[e]] = "PENDING" THEN "PENDING" ELSE RestingStatus(e)

StatusTellsWork ==
    \A e \in Envelopes :
        \/ \E c \in Closures : <<c, e>> \in overruled
        \/ /\ estatus[e] # "LOCKED" => estatus[e] = WorkStatus(e)
           /\ \A c \in Covering(e) : prior[c][e] = WorkStatus(e)

\* closures.ts:4: an envelope is LOCKED only while a closure that holds covers
\* it, and as long as one does that evidence has not overruled.
LockedWhileCovered ==
    \A e \in Envelopes :
        /\ estatus[e] = "LOCKED" => Covering(e) # {}
        /\ Freezing(e) # {} => estatus[e] = "LOCKED"

\* Step k of r has the approvals it asks for, or was escalated past.
StepEarned(r, k) ==
    \/ Cardinality(CountedDeciders(decisions, r, k)) >= rChain[r][k].minApprovals
    \/ k < Len(rChain[r]) /\ rChain[r][k + 1].escalatedFrom = k

\* No request moves past a step that distinct deciders did not complete, and
\* none is approved unless its whole chain was completed or an admin said so:
\* escalation, reminders and late decisions never skip or shift a step.
ApprovalsEarned ==
    \A r \in Requests :
        /\ \A k \in 1..(rStep[r] - 1) : StepEarned(r, k)
        /\ rStatus[r] = "APPROVED" =>
              \/ \E d \in decisions : d.request = r /\ d.kind = "approve" /\ d.user \in Admins
              \/ rStep[r] = Len(rChain[r]) /\ StepEarned(r, rStep[r])

\* Separation of duties, also after the chain was rewritten by escalation:
\* every approve is by an admin or by a holder of the role of the very step it
\* is recorded on, who neither asked nor wrote the draft when that is barred.
ApproversEligible ==
    \A d \in decisions :
        d.kind = "approve" =>
            \/ d.user \in Admins
            \/ /\ rChain[d.request][d.step].role \in RolesOf[d.user]
               /\ rPolicy[d.request].blockSelfApproval =>
                     d.user \notin {rBy[d.request], vAuthor[rVersion[d.request]]}

\* Where a step names an escalation role, its request has the status that the job
\* looks for: none that was escalated before is hidden from it later in its chain
\* (advanceIfComplete sets PENDING back, and an added step never escalates).
EscalatesAgain ==
    \A r \in Requests : Open(r) /\ StepOf(r).escalateTo # None => rStatus[r] = "PENDING"

\* A resolved request stays as it was resolved: resubmitting, moving, closing
\* and reopening a period leave history alone.
ResolvedStays ==
    [][\A r \in Requests :
          rStatus[r] \in {"APPROVED", "REJECTED", "WITHDRAWN"} => rStatus'[r] = rStatus[r]]_vars

\* engine.ts:32: a closed period freezes its envelopes' requests too, no
\* decision or withdrawal until it is restated.
FrozenWhileClosed ==
    [][\A r \in Requests :
          Open(r) /\ Covering(EnvOf(r)) # {} => rStatus'[r] \in OpenStatuses]_vars

\* What the code keeps of that: evidence recorded in the very step may approve such
\* a request, and overrules the closures; nothing else resolves one, by whatever path.
FrozenUnlessEvidence ==
    [][\A r \in Requests :
          Open(r) /\ Freezing(EnvOf(r)) # {} =>
              \/ rStatus'[r] \in OpenStatuses
              \/ /\ rStatus'[r] = "APPROVED" /\ rPolicy[r].allowExternalEvidence
                 /\ \E d \in decisions' \ decisions : d.request = r /\ d.kind = "external_evidence"]_vars

\* The approval workflow implements the ledger its readers rely on.
Ledger == INSTANCE BudgetLedger WITH
    approved <- current,
    retired <- {v \in Versions : vStatus[v] \in RetiredStatus},
    frozen <- {e \in Envelopes : Freezing(e) # {}}

ImplementsLedger == Ledger!Spec

\* escalate-overdue.ts:9: a request whose due date passed and whose step names an
\* escalation role gets a step for that role, if nobody decides before.
EscalationHappens ==
    \A r \in Requests :
        \A k \in 1..3 :
            (Open(r) /\ rStep[r] = k /\ StepOf(r).escalateTo # None)
                ~> (rStep[r] # k \/ ~ Open(r))
=============================================================================
