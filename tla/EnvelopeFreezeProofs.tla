------------------------ MODULE EnvelopeFreezeProofs ------------------------
(***************************************************************************)
(* Theorems about what closures and resolutions freeze in EnvelopeApproval *)
(* and about the ledger it implements, for every set of policies.          *)
(* Recording evidence does not ask whether the period is closed, so they   *)
(* say what it may break and that nothing else does.                       *)
(***************************************************************************)
EXTENDS EnvelopeApprovalProofs

\* No closure gives LOCKED back.
NoneSavedLocked == \A c \in Closures, e \in Envelopes : prior[c][e] # "LOCKED"

\* The inductive invariant with closures: an envelope is LOCKED while a closure
\* freezes it, and its status, or the one each closure saved, says what is under
\* way on it unless evidence overruled a closure over it.
FreezeInv == TablesInv /\ StatusTellsWork /\ LockedWhileCovered /\ NoneSavedLocked

Spotless(e) == \A c \in Closures : <<c, e>> \notin overruled

\* What a command may do to the closures over an envelope whose status it writes:
\* nothing, if it is not LOCKED, or overrule them.
MayWrite(e) ==
    /\ UNCHANGED <<cStatus, prior>>
    /\ \/ estatus[e] # "LOCKED" /\ overruled' = overruled
       \/ overruled' = overruled \cup (Covering(e) \X {e})

-----------------------------------------------------------------------------
(* Closures and statuses *)

\* Closures that no step writes cover and freeze what they did.
LEMMA CoveringStays ==
    ASSUME UNCHANGED closureVars, NEW e \in Envelopes
    PROVE  Covering(e)' = Covering(e) /\ Freezing(e)' = Freezing(e)
    BY DEF Covering, Freezing, closureVars

\* What FreezeInv says of an envelope that no evidence touched.
LEMMA SpotlessFacts ==
    ASSUME FreezeInv, NEW e \in Envelopes, Spotless(e)
    PROVE  /\ estatus[e] = "LOCKED" <=> Covering(e) # {}
           /\ estatus[e] # "LOCKED" => estatus[e] = WorkStatus(e)
           /\ \A c \in Covering(e) : prior[c][e] = WorkStatus(e)
<1>1. Freezing(e) = Covering(e)
    BY DEF Freezing, Covering, Spotless
<1> QED
    BY <1>1 DEF FreezeInv, StatusTellsWork, LockedWhileCovered, Spotless

\* A command that writes one envelope, leaves it not LOCKED and with the status
\* its pointers call for, keeps FreezeInv.
LEMMA OneEnvelopeWritten ==
    ASSUME FreezeInv, NEW e \in Envelopes, MayWrite(e),
           estatus'[e] # "LOCKED", Spotless(e)' => estatus'[e] = WorkStatus(e)',
           \A x \in Envelopes \ {e} :
              /\ estatus'[x] = estatus[x] /\ draft'[x] = draft[x] /\ current'[x] = current[x]
              /\ draft[x] # None => vStatus'[draft[x]] = vStatus[draft[x]]
    PROVE  StatusTellsWork' /\ LockedWhileCovered' /\ NoneSavedLocked'
<1>1. prior' = prior /\ \A x \in Envelopes : Covering(x)' = Covering(x)
    BY DEF Covering, MayWrite
<1>2. \A x \in Envelopes \ {e} :
         Freezing(x)' = Freezing(x) /\ (Spotless(x)' <=> Spotless(x)) /\ WorkStatus(x)' = WorkStatus(x)
    BY <1>1 DEF MayWrite, Freezing, Spotless, WorkStatus, RestingStatus
<1>3. Freezing(e)' = {}
    BY <1>1 DEF MayWrite, Freezing, FreezeInv, LockedWhileCovered
<1>4. Spotless(e)' => Covering(e)' = {}
    BY <1>1, <1>3 DEF Freezing, Spotless, Covering
<1>5. StatusTellsWork'
  <2> SUFFICES ASSUME NEW x \in Envelopes, Spotless(x)'
               PROVE  /\ estatus'[x] # "LOCKED" => estatus'[x] = WorkStatus(x)'
                      /\ \A c \in Covering(x)' : prior'[c][x] = WorkStatus(x)'
      BY DEF StatusTellsWork, Spotless
  <2> QED
      BY <1>1, <1>2, <1>4, SpotlessFacts
<1>6. LockedWhileCovered'
    BY <1>1, <1>2, <1>3 DEF FreezeInv, LockedWhileCovered
<1> QED
    BY <1>1, <1>5, <1>6 DEF FreezeInv, NoneSavedLocked

\* A step that writes no envelope and no version keeps FreezeInv.
LEMMA NoEnvelopeWritten ==
    ASSUME FreezeInv, UNCHANGED <<closureVars, estatus, current, draft, vStatus>>
    PROVE  StatusTellsWork' /\ LockedWhileCovered' /\ NoneSavedLocked'
<1>1. /\ prior' = prior /\ overruled' = overruled
      /\ \A x \in Envelopes :
            Covering(x)' = Covering(x) /\ Freezing(x)' = Freezing(x) /\ WorkStatus(x)' = WorkStatus(x)
    BY CoveringStays DEF closureVars, WorkStatus, RestingStatus
<1> QED
    BY <1>1 DEF FreezeInv, StatusTellsWork, LockedWhileCovered, NoneSavedLocked

\* Versions of other envelopes keep their status when only e's versions are
\* written.
LEMMA OtherDrafts ==
    ASSUME FreezeInv, NEW e \in Envelopes, NEW x \in Envelopes \ {e}, draft[x] # None
    PROVE  draft[x] \in Versions /\ vEnv[draft[x]] = x /\ draft[x] # draft[e] /\ draft[x] # current[e]
    BY PointerRows, NoneIsNone DEF FreezeInv, TablesInv

-----------------------------------------------------------------------------
(* Every write keeps FreezeInv *)

\* A new draft leaves the envelope resting: nothing was under approval.
LEMMA DraftStepFreezes ==
    ASSUME FreezeInv, UNCHANGED closureVars, DraftStep
    PROVE  StatusTellsWork' /\ LockedWhileCovered' /\ NoneSavedLocked'
<1> PICK u \in Users, e \in Envelopes, v \in Versions : EditDraft(u, e, v)
    BY DEF DraftStep
<1> USE NoneIsNone
<1>1. /\ \A x \in Versions : vStatus'[x] = IF x = v THEN "DRAFT" ELSE IF x = draft[e] THEN "SUPERSEDED" ELSE vStatus[x]
      /\ \A x \in Envelopes : draft'[x] = IF x = e THEN v ELSE draft[x]
      /\ \A x \in Envelopes : estatus'[x] = IF x # e \/ estatus[e] \in {"APPROVED", "PENDING"} THEN estatus[x] ELSE "DRAFT"
      /\ current' = current
      /\ vStatus[v] = None
    BY DEF EditDraft, WriteDraftVersion, InsertVersion, Superseding, FreezeInv, TablesInv, TypeOK
<1>2. estatus[e] # "LOCKED" /\ (draft[e] # None => vStatus[draft[e]] # "PENDING")
    BY DEF EditDraft, MayEdit
<1>3. Spotless(e)' => estatus[e] = RestingStatus(e)
    BY <1>2, SpotlessFacts DEF Spotless, closureVars, WorkStatus
<1>4. estatus'[e] # "LOCKED" /\ (Spotless(e)' => estatus'[e] = WorkStatus(e)')
    BY <1>1, <1>2, <1>3 DEF WorkStatus, RestingStatus
<1>5. \A x \in Envelopes \ {e} : draft[x] # None => draft[x] # v /\ vStatus'[draft[x]] = vStatus[draft[x]]
    BY <1>1, OtherDrafts, PointerRows DEF FreezeInv, TablesInv
<1> QED
    BY <1>1, <1>2, <1>4, <1>5, OneEnvelopeWritten DEF MayWrite, closureVars

\* An approval, at once or by a request's last step, leaves the envelope
\* APPROVED with no draft.
LEMMA ApprovalFreezes ==
    ASSUME FreezeInv, NEW e \in Envelopes, MayWrite(e), NEW v \in Versions, NEW S,
           S \subseteq {draft[e]}, vStatus[v] = None \/ draft[e] = v, ApproveVersion(e, v, S)
    PROVE  StatusTellsWork' /\ LockedWhileCovered' /\ NoneSavedLocked'
<1> USE NoneIsNone
<1>1. /\ \A x \in Versions : vStatus'[x] = IF x = v THEN "APPROVED" ELSE IF x \in S \cup {current[e]} THEN "SUPERSEDED" ELSE vStatus[x]
      /\ \A x \in Envelopes : draft'[x] = IF x = e THEN None ELSE draft[x]
      /\ \A x \in Envelopes : current'[x] = IF x = e THEN v ELSE current[x]
      /\ \A x \in Envelopes : estatus'[x] = IF x = e THEN "APPROVED" ELSE estatus[x]
    BY DEF ApproveVersion, Superseding, FreezeInv, TablesInv, TypeOK
<1>2. estatus'[e] # "LOCKED" /\ estatus'[e] = WorkStatus(e)'
    BY <1>1 DEF WorkStatus, RestingStatus
<1>3. \A x \in Envelopes \ {e} : draft[x] # None => vStatus'[draft[x]] = vStatus[draft[x]]
  <2> TAKE x \in Envelopes \ {e}
  <2> HAVE draft[x] # None
  <2>1. draft[x] # v
      BY OtherDrafts, PointerRows DEF FreezeInv, TablesInv
  <2> QED
      BY <1>1, <2>1, OtherDrafts
<1> QED
    BY <1>1, <1>2, <1>3, OneEnvelopeWritten

\* A submission that applies at once.
LEMMA ApplyStepFreezes ==
    ASSUME FreezeInv, UNCHANGED closureVars, ApplyStep
    PROVE  StatusTellsWork' /\ LockedWhileCovered' /\ NoneSavedLocked'
<1> PICK u \in Users, e \in Envelopes, v \in Versions, S \in SUBSET (Versions \cup {None}) :
         Submitting(u, e, v, S) /\ ApplyAtOnce(u, e, v, S)
    BY DEF ApplyStep
<1>1. TablesInv
    BY DEF FreezeInv
<1>2. S \subseteq {draft[e]} /\ (vStatus[v] = None \/ draft[e] = v) /\ estatus[e] # "LOCKED"
    BY <1>1, SubmittingFacts
<1> QED
    BY <1>2, ApprovalFreezes DEF ApplyAtOnce, MayWrite, closureVars

\* A submission that opens a request leaves the envelope PENDING on its draft.
LEMMA OpenStepFreezes ==
    ASSUME FreezeInv, UNCHANGED closureVars, OpenStep
    PROVE  StatusTellsWork' /\ LockedWhileCovered' /\ NoneSavedLocked'
<1> PICK u \in Users, e \in Envelopes, v \in Versions, S \in SUBSET (Versions \cup {None}), p \in Policies, r \in Requests :
         Submitting(u, e, v, S) /\ OpenRequest(u, e, v, S, p, r)
    BY DEF OpenStep
<1> USE NoneIsNone
<1>1. TablesInv
    BY DEF FreezeInv
<1>2. S \subseteq {draft[e]} /\ (vStatus[v] = None \/ draft[e] = v) /\ estatus[e] # "LOCKED"
    BY <1>1, SubmittingFacts
<1>3. /\ \A x \in Versions : vStatus'[x] = IF x = v THEN "PENDING" ELSE IF x \in S THEN "SUPERSEDED" ELSE vStatus[x]
      /\ \A x \in Envelopes : draft'[x] = IF x = e THEN v ELSE draft[x]
      /\ \A x \in Envelopes : estatus'[x] = IF x = e THEN "PENDING" ELSE estatus[x]
      /\ current' = current
    BY DEF OpenRequest, Superseding, FreezeInv, TablesInv, TypeOK
<1>4. estatus'[e] # "LOCKED" /\ estatus'[e] = WorkStatus(e)'
    BY <1>3 DEF WorkStatus
<1>5. \A x \in Envelopes \ {e} : draft[x] # None => vStatus'[draft[x]] = vStatus[draft[x]]
  <2> TAKE x \in Envelopes \ {e}
  <2> HAVE draft[x] # None
  <2>1. draft[x] # v
      BY <1>2, OtherDrafts, PointerRows DEF FreezeInv, TablesInv
  <2> QED
      BY <1>2, <1>3, <2>1, OtherDrafts
<1> QED
    BY <1>2, <1>3, <1>4, <1>5, OneEnvelopeWritten DEF MayWrite, closureVars

\* Rejecting, returning or withdrawing a request leaves the envelope resting.
LEMMA CloseStepFreezes ==
    ASSUME FreezeInv, UNCHANGED closureVars, CloseStep
    PROVE  StatusTellsWork' /\ LockedWhileCovered' /\ NoneSavedLocked'
<1> PICK r \in Requests, outcome \in {"REJECTED", "CHANGES_REQUESTED", "WITHDRAWN"} :
         Open(r) /\ estatus[EnvOf(r)] # "LOCKED" /\ CloseRequest(r, outcome)
    BY DEF CloseStep
<1> USE NoneIsNone
<1>1. PICK e \in Envelopes, v \in Versions : e = EnvOf(r) /\ v = rVersion[r] /\ draft[e] = v
    BY OpenDraft DEF FreezeInv
<1>2. /\ \A x \in Versions : vStatus'[x] = IF x # v THEN vStatus[x] ELSE IF outcome = "CHANGES_REQUESTED" THEN "DRAFT" ELSE outcome
      /\ \A x \in Envelopes : draft'[x] = IF x = e /\ outcome # "CHANGES_REQUESTED" THEN None ELSE draft[x]
      /\ \A x \in Envelopes : estatus'[x] = IF x = e THEN RestingStatus(e) ELSE estatus[x]
      /\ current' = current
      /\ estatus[e] # "LOCKED"
    BY <1>1 DEF CloseRequest, FreezeInv, TablesInv, TypeOK
<1>3. estatus'[e] # "LOCKED" /\ estatus'[e] = WorkStatus(e)'
    BY <1>1, <1>2 DEF WorkStatus, RestingStatus
<1>4. \A x \in Envelopes \ {e} : draft[x] # None => vStatus'[draft[x]] = vStatus[draft[x]]
    BY <1>1, <1>2, OtherDrafts
<1> QED
    BY <1>1, <1>2, <1>3, <1>4, OneEnvelopeWritten DEF MayWrite, closureVars

\* The last step of a request approves its version, outside closed periods or
\* overruling them.
LEMMA FinishStepFreezes ==
    ASSUME FreezeInv, FinishStep
    PROVE  StatusTellsWork' /\ LockedWhileCovered' /\ NoneSavedLocked'
<1> PICK r \in Requests : /\ Open(r) /\ ApproveRequest(r)
                          /\ Overruling(r) \/ (estatus[EnvOf(r)] # "LOCKED" /\ UNCHANGED closureVars)
    BY DEF FinishStep
<1>1. rVersion[r] \in Versions /\ EnvOf(r) \in Envelopes /\ draft[EnvOf(r)] = rVersion[r]
    BY OpenDraft DEF FreezeInv
<1>2. MayWrite(EnvOf(r))
    BY DEF MayWrite, Overruling, closureVars
<1> QED
    BY <1>1, <1>2, ApprovalFreezes DEF ApproveRequest

\* A closure that starts saves the work status and locks; PriorStatuses takes
\* the envelope's own status or one that another closure saved.
LEMMA StartCloseFreezes ==
    ASSUME FreezeInv, TablesUnchanged, NEW c \in Closures, NEW S \in SUBSET Envelopes, StartClose(c, S)
    PROVE  StatusTellsWork' /\ LockedWhileCovered' /\ NoneSavedLocked'
<1>1. PICK f \in [S -> EnvelopeStatus] :
         /\ \A e \in S : f[e] \in PriorStatuses(e)
         /\ prior' = [prior EXCEPT ![c] = [e \in Envelopes |-> IF e \in S THEN f[e] ELSE None]]
    BY DEF StartClose
<1>2. /\ TypeOK /\ overruled' = overruled
      /\ \A e \in Envelopes : WorkStatus(e)' = WorkStatus(e) /\ (Spotless(e)' <=> Spotless(e))
      /\ \A e \in Envelopes : estatus'[e] = IF e \in S THEN "LOCKED" ELSE estatus[e]
    BY DEF TablesUnchanged, WorkStatus, RestingStatus, versionVars, StartClose, Spotless, FreezeInv, TablesInv
<1>3. \A e \in S : f[e] # None /\ f[e] # "LOCKED" /\ (Spotless(e) => f[e] = WorkStatus(e))
  <2> TAKE e \in S
  <2>1. f[e] # None
      BY <1>1, ConstantsAssumption DEF EnvelopeStatus
  <2>2. f[e] # "LOCKED"
      BY <1>1 DEF PriorStatuses, FreezeInv, NoneSavedLocked, Covering
  <2>3. Spotless(e) => f[e] = WorkStatus(e)
      BY <1>1, SpotlessFacts DEF PriorStatuses
  <2> QED
      BY <2>1, <2>2, <2>3
<1>4. /\ \A x \in Closures : cStatus'[x] = IF x = c THEN "holding" ELSE cStatus[x]
      /\ \A x \in Closures, e \in Envelopes :
            prior'[x][e] = IF x # c THEN prior[x][e] ELSE IF e \in S THEN f[e] ELSE None
      /\ \A e \in Envelopes : c \notin Covering(e)
    BY <1>1, <1>2 DEF StartClose, TypeOK, Covering
<1>5. \A e \in Envelopes : Covering(e)' = IF e \in S THEN Covering(e) \cup {c} ELSE Covering(e)
    BY <1>3, <1>4 DEF Covering
<1>6. \A e \in Envelopes \ S : Freezing(e)' = Freezing(e)
    BY <1>2, <1>5 DEF Freezing
<1>7. StatusTellsWork'
  <2> SUFFICES ASSUME NEW e \in Envelopes, Spotless(e)
               PROVE  /\ estatus'[e] # "LOCKED" => estatus'[e] = WorkStatus(e)
                      /\ \A x \in Covering(e)' : prior'[x][e] = WorkStatus(e)
      BY <1>2 DEF StatusTellsWork, Spotless
  <2>1. \A x \in Covering(e)' : x # c => x \in Covering(e) /\ prior'[x][e] = prior[x][e]
    <3> TAKE x \in Covering(e)'
    <3>1. x \in Closures
        BY DEF Covering
    <3> QED
        BY <1>4, <1>5, <3>1
  <2>2. c \in Covering(e)' => prior'[c][e] = WorkStatus(e)
      BY <1>3, <1>4, <1>5
  <2> QED
      BY <1>2, <2>1, <2>2, SpotlessFacts
<1>8. LockedWhileCovered'
    BY <1>2, <1>5, <1>6 DEF FreezeInv, LockedWhileCovered
<1>9. NoneSavedLocked'
    BY <1>3, <1>4, NoneIsNone, ConstantsAssumption DEF FreezeInv, NoneSavedLocked, EnvelopeStatus
<1> QED
    BY <1>7, <1>8, <1>9

\* The release of the last closure over an envelope gives back the status it
\* saved, which is still what is under way.
LEMMA ReleaseFreezes ==
    ASSUME FreezeInv, TablesUnchanged, NEW c \in Closures, ReleaseClosure(c)
    PROVE  StatusTellsWork' /\ LockedWhileCovered' /\ NoneSavedLocked'
<1>1. /\ prior' = prior /\ overruled' = overruled
      /\ \A e \in Envelopes : WorkStatus(e)' = WorkStatus(e) /\ (Spotless(e)' <=> Spotless(e))
    BY DEF TablesUnchanged, WorkStatus, RestingStatus, versionVars, ReleaseClosure, Spotless
<1>2. \A e \in Envelopes : Covering(e)' = Covering(e) \ {c} /\ Freezing(e)' = Freezing(e) \ {c}
    BY <1>1 DEF ReleaseClosure, Covering, Freezing, FreezeInv, TablesInv, TypeOK
<1>3. \A e \in Envelopes : c \in Covering(e) <=> prior[c][e] # None
    BY DEF ReleaseClosure, Covering
<1>4. \A e \in Envelopes :
         estatus'[e] = IF estatus[e] = "LOCKED" /\ Covering(e) = {c} THEN prior[c][e] ELSE estatus[e]
    BY <1>3 DEF ReleaseClosure, FreezeInv, LockedWhileCovered
<1>5. StatusTellsWork'
  <2> SUFFICES ASSUME NEW e \in Envelopes, Spotless(e)
               PROVE  /\ estatus'[e] # "LOCKED" => estatus'[e] = WorkStatus(e)
                      /\ \A x \in Covering(e)' : prior[x][e] = WorkStatus(e)
      BY <1>1 DEF StatusTellsWork, Spotless
  <2> QED
      BY <1>2, <1>4, SpotlessFacts
<1>6. LockedWhileCovered'
  <2> SUFFICES ASSUME NEW e \in Envelopes
               PROVE  /\ estatus'[e] = "LOCKED" => Covering(e)' # {}
                      /\ Freezing(e)' # {} => estatus'[e] = "LOCKED"
      BY DEF LockedWhileCovered
  <2>1. prior[c][e] # "LOCKED"
      BY DEF FreezeInv, NoneSavedLocked
  <2>2. Freezing(e)' # {} => Covering(e) # {c}
      BY <1>2 DEF Freezing
  <2> QED
      BY <1>2, <1>4, <2>1, <2>2 DEF FreezeInv, LockedWhileCovered
<1> QED
    BY <1>1, <1>5, <1>6 DEF FreezeInv, NoneSavedLocked

\* FreezeInv is inductive.
LEMMA FreezeInvStep ==
    ASSUME FreezeInv, [Next]_vars
    PROVE  FreezeInv'
<1>1. TablesInv'
    BY TablesInvStep DEF FreezeInv
<1>2. StepShape
    BY Shapes DEF FreezeInv, TablesInv
<1>3. StatusTellsWork' /\ LockedWhileCovered' /\ NoneSavedLocked'
  <2>1. CASE FinishStep \/ (UNCHANGED closureVars /\ (DraftStep \/ ApplyStep \/ OpenStep \/ CloseStep))
      BY <2>1, DraftStepFreezes, ApplyStepFreezes, OpenStepFreezes, CloseStepFreezes, FinishStepFreezes
  <2>2. CASE UNCHANGED closureVars /\ (NextStepStep \/ EscalateStep \/ (TablesUnchanged /\ UNCHANGED estatus))
    <3>1. UNCHANGED <<estatus, current, draft, vStatus>>
        BY <2>2 DEF NextStepStep, NextStep, EscalateStep, Escalate, TablesUnchanged, envelopeVars, versionVars
    <3> QED
        BY <2>2, <3>1, NoEnvelopeWritten
  <2>3. CASE TablesUnchanged /\ \E c \in Closures : ReleaseClosure(c)
      BY <2>3, ReleaseFreezes
  <2>4. CASE TablesUnchanged /\ \E c \in Closures, S \in SUBSET Envelopes : StartClose(c, S)
      BY <2>4, StartCloseFreezes
  <2> QED
      BY <1>2, <2>1, <2>2, <2>3, <2>4 DEF StepShape
<1> QED
    BY <1>1, <1>3 DEF FreezeInv

\* FreezeInv holds initially.
LEMMA FreezeInvInit == Init => FreezeInv
<1> SUFFICES ASSUME Init PROVE FreezeInv
    OBVIOUS
<1>1. \A e \in Envelopes :
         Covering(e) = {} /\ Freezing(e) = {} /\ estatus[e] = "DRAFT" /\ WorkStatus(e) = "DRAFT"
    BY DEF Init, Covering, Freezing, WorkStatus, RestingStatus
<1>2. NoneSavedLocked
    BY ConstantsAssumption DEF Init, NoneSavedLocked, EnvelopeStatus
<1> QED
    BY <1>1, <1>2, TablesInvInit DEF FreezeInv, StatusTellsWork, LockedWhileCovered

\* Whatever the policies and whatever is closed and reopened in which order, an
\* envelope is LOCKED only while a holding closure covers it, and always while one
\* does that recorded evidence has not overruled (closures.ts:4).
THEOREM ClosuresCorrect == Spec => []LockedWhileCovered
<1>1. FreezeInv /\ [Next]_vars => FreezeInv'
    BY FreezeInvStep
<1>2. FreezeInv => LockedWhileCovered
    BY DEF FreezeInv
<1> QED
    BY <1>1, <1>2, FreezeInvInit, PTL DEF Spec

\* No command leaves an envelope with the status of work that is over, or without
\* the one of work that began, whatever was closed and reopened over it; only
\* evidence that approves a version inside a closed period may, whose closure saved
\* an older status (closeRequest, approveVersion, unlockClosureEnvelopes).
THEOREM StatusCorrect == Spec => []StatusTellsWork
<1>1. FreezeInv /\ [Next]_vars => FreezeInv'
    BY FreezeInvStep
<1>2. FreezeInv => StatusTellsWork
    BY DEF FreezeInv
<1> QED
    BY <1>1, <1>2, FreezeInvInit, PTL DEF Spec

-----------------------------------------------------------------------------
(* What stands still *)

\* The request's next status, or the evidence that overruled its closures.
Kept(r) ==
    \/ rStatus'[r] \in OpenStatuses
    \/ /\ rStatus'[r] = "APPROVED" /\ rPolicy[r].allowExternalEvidence
       /\ \E d \in decisions' \ decisions : d.request = r /\ d.kind = "external_evidence"

\* No other step takes an open request of a frozen envelope out of the open
\* statuses.
LEMMA FrozenStep ==
    ASSUME FreezeInv, [Next]_vars, NEW r \in Requests, Open(r), Freezing(EnvOf(r)) # {}
    PROVE  Kept(r)
<1> USE NoneIsNone DEF Kept
<1>1. /\ EnvOf(r) \in Envelopes /\ rVersion[r] \in Versions /\ rPolicy[r] \in Policies
      /\ draft[EnvOf(r)] = rVersion[r] /\ estatus[EnvOf(r)] = "LOCKED"
    BY OpenRow, OpenDraft DEF FreezeInv, TablesInv, LockedWhileCovered
<1>2. TypeOK /\ TablesInv /\ StepShape
    BY Shapes DEF FreezeInv, TablesInv
<1>3. CASE DraftStep \/ TablesUnchanged
    BY <1>3 DEF DraftStep, EditDraft, TablesUnchanged, requestVars, Open
<1>4. CASE ApplyStep
    BY <1>4 DEF ApplyStep, ApplyAtOnce, ReturnedWithdrawn, Open, OpenStatuses
<1>5. CASE OpenStep
    BY <1>2, <1>5 DEF OpenStep, OpenRequest, ReturnedWithdrawn, Open, OpenStatuses, TypeOK
<1>6. CASE CloseStep
  <2> PICK q \in Requests, outcome \in {"REJECTED", "CHANGES_REQUESTED", "WITHDRAWN"} :
           Open(q) /\ estatus[EnvOf(q)] # "LOCKED" /\ CloseRequest(q, outcome)
      BY <1>6 DEF CloseStep
  <2>1. q # r
      BY <1>1
  <2> QED
      BY <1>2, <2>1 DEF CloseRequest, Open, TypeOK
<1>7. CASE FinishStep
  <2> PICK q \in Requests : /\ Open(q) /\ ApproveRequest(q)
                            /\ Overruling(q) \/ (estatus[EnvOf(q)] # "LOCKED" /\ UNCHANGED closureVars)
      BY <1>7 DEF FinishStep
  <2>1. CASE q = r
      BY <1>1, <1>2, <2>1 DEF ApproveRequest, Overruling, TypeOK
  <2>2. CASE q # r
      BY <1>2, <2>2 DEF ApproveRequest, Open, TypeOK
  <2> QED
      BY <2>1, <2>2
<1>8. CASE NextStepStep \/ EscalateStep
    BY <1>2, <1>8 DEF NextStepStep, NextStep, EscalateStep, Escalate, Open, OpenStatuses, TypeOK
<1> QED
    BY <1>2, <1>3, <1>4, <1>5, <1>6, <1>7, <1>8 DEF StepShape

\* engine.ts:32, as far as the code keeps it, for every set of policies: while a
\* closed period freezes an envelope, no decision, withdrawal, move or escalation
\* resolves its requests; what does is evidence recorded in that very step, under a
\* policy that counts it (external-evidence.ts:20 does not ask for the lock).
THEOREM FreezeCorrect == Spec => FrozenUnlessEvidence
<1>1. FreezeInv /\ [Next]_vars => FreezeInv'
    BY FreezeInvStep
<1>2. FreezeInv /\ [Next]_vars => [\A r \in Requests : Open(r) /\ Freezing(EnvOf(r)) # {} => Kept(r)]_vars
    BY FrozenStep
<1> QED
    BY <1>1, <1>2, FreezeInvInit, PTL DEF Spec, FrozenUnlessEvidence, Kept

\* No step changes the status of a resolved request.
LEMMA ResolvedStep ==
    ASSUME TablesInv, [Next]_vars, NEW r \in Requests, rStatus[r] \in {"APPROVED", "REJECTED", "WITHDRAWN"}
    PROVE  rStatus'[r] = rStatus[r]
<1> USE NoneIsNone
<1>1. TypeOK /\ StepShape /\ ~ Open(r)
    BY Shapes DEF TablesInv, Open, OpenStatuses
<1>2. CASE DraftStep \/ TablesUnchanged
    BY <1>2 DEF DraftStep, EditDraft, TablesUnchanged, requestVars
<1>3. CASE ApplyStep
    BY <1>3 DEF ApplyStep, ApplyAtOnce, ReturnedWithdrawn
<1>4. CASE OpenStep
    BY <1>1, <1>4 DEF OpenStep, OpenRequest, ReturnedWithdrawn, TypeOK
<1>5. CASE CloseStep \/ FinishStep \/ NextStepStep
    BY <1>1, <1>5 DEF CloseStep, FinishStep, NextStepStep, CloseRequest, ApproveRequest, NextStep, TypeOK
<1>6. CASE EscalateStep
    BY <1>1, <1>6 DEF EscalateStep, Escalate, TypeOK, Open, OpenStatuses
<1> QED
    BY <1>1, <1>2, <1>3, <1>4, <1>5, <1>6 DEF StepShape

\* A resolved request stays as it was resolved, whatever is submitted, moved,
\* closed or reopened later (submit-version.ts:46 withdraws only returned ones).
THEOREM ResolvedCorrect == Spec => ResolvedStays
<1>1. TablesInv /\ [Next]_vars =>
        [\A r \in Requests : rStatus[r] \in {"APPROVED", "REJECTED", "WITHDRAWN"} => rStatus'[r] = rStatus[r]]_vars
    BY ResolvedStep
<1> QED
    BY <1>1, TablesInvInit, TablesInvStep, PTL DEF Spec, ResolvedStays
-----------------------------------------------------------------------------
(* EnvelopeApproval implements BudgetLedger *)

\* The ledger's variables in terms of the tables.
Retired == {v \in Versions : vStatus[v] \in RetiredStatus}
Frozen  == {e \in Envelopes : Freezing(e) # {}}

\* Version v is e's and not approved anywhere, so e's draft is no envelope's
\* approved version.
LEMMA DraftNotApproved ==
    ASSUME TablesInv, NEW e \in Envelopes, NEW x \in Envelopes, draft[e] # None
    PROVE  current[x] # draft[e]
    BY PointerRows, NoneIsNone DEF TablesInv

\* Tables that are not written and closures that are not written leave the
\* ledger as it was.
LEMMA FrozenStays ==
    ASSUME UNCHANGED closureVars
    PROVE  Frozen' = Frozen
    BY CoveringStays DEF Frozen

\* Versions of S retire and nothing else changes: a Retire step.
LEMMA RetireStep ==
    ASSUME UNCHANGED <<closureVars, current>>, NEW S \in SUBSET Versions,
           \A e \in Envelopes : current[e] \notin S, Retired' = Retired \cup S
    PROVE  Ledger!Next
<1>1. Frozen' = Frozen
    BY FrozenStays
<1>2. Ledger!Retire(S)
    BY <1>1 DEF Ledger!Retire, Retired, Frozen
<1> QED
    BY <1>2 DEF Ledger!Next

\* An approval of a draft is an Approve step outside closed periods, or an Overrule
\* step.
LEMMA ApproveStep ==
    ASSUME FreezeInv, NEW e \in Envelopes, MayWrite(e), NEW v \in Versions, NEW S,
           S \subseteq {draft[e]}, v \notin S, vStatus[v] \in {None, "DRAFT", "PENDING"},
           estatus[e] # "LOCKED" \/ S = {}, ApproveVersion(e, v, S)
    PROVE  Ledger!Next
<1> USE NoneIsNone
<1> DEFINE others == S \ {None}
<1>1. TablesInv /\ TypeOK
    BY DEF FreezeInv, TablesInv
<1>2. others \in SUBSET Versions /\ v \notin others
    BY <1>1 DEF TypeOK
<1>3. v \notin Retired
    BY DEF Retired, RetiredStatus
<1>4. \A x \in Envelopes : current[x] \notin {v} \cup others
    BY <1>1, DraftNotApproved, PointerRows DEF TablesInv
<1>5. current' = [current EXCEPT ![e] = v]
    BY DEF ApproveVersion
<1>6. Retired' = Retired \cup others \cup ({current[e]} \ {None})
    BY <1>1, <1>2, <1>3, <1>4 DEF ApproveVersion, Superseding, Retired, RetiredStatus, TypeOK
<1>7. Ledger!Succeed(e, v, others)
    BY <1>3, <1>4, <1>2, <1>5, <1>6 DEF Ledger!Succeed, Retired
<1>8. Frozen' = Frozen \ {e}
  <2>1. \A x \in Envelopes : Covering(x)' = Covering(x)
      BY DEF Covering, MayWrite
  <2>2. \A x \in Envelopes \ {e} : Freezing(x)' = Freezing(x)
      BY <2>1 DEF Freezing, MayWrite
  <2>3. Freezing(e)' = {}
      BY <2>1 DEF Freezing, MayWrite, FreezeInv, LockedWhileCovered
  <2> QED
      BY <2>2, <2>3 DEF Frozen
<1>9. CASE e \notin Frozen
  <2>1. Frozen' = Frozen
      BY <1>8, <1>9
  <2>2. Ledger!Approve(e, v, others)
      BY <1>7, <1>9, <2>1 DEF Ledger!Approve, Frozen
  <2> QED
      BY <1>2, <2>2 DEF Ledger!Next
<1>10. CASE e \in Frozen
  <2>1. estatus[e] = "LOCKED"
      BY <1>10 DEF Frozen, FreezeInv, LockedWhileCovered
  <2>2. Ledger!Succeed(e, v, {})
      BY <1>7, <2>1
  <2>3. Ledger!Overrule(e, v)
      BY <1>8, <1>10, <2>2 DEF Ledger!Overrule, Frozen
  <2> QED
      BY <2>3 DEF Ledger!Next
<1> QED
    BY <1>9, <1>10

\* Every step of the workflow is a step of the ledger or leaves it alone.
LEMMA LedgerStep ==
    ASSUME FreezeInv, [Next]_vars
    PROVE  [Ledger!Next]_(Ledger!vars)
<1> USE NoneIsNone
<1>1. TablesInv /\ TypeOK /\ StepShape
    BY Shapes DEF FreezeInv, TablesInv
<1>2. ASSUME UNCHANGED closureVars, DraftStep PROVE Ledger!Next
  <2> PICK u \in Users, e \in Envelopes, v \in Versions : EditDraft(u, e, v)
      BY <1>2 DEF DraftStep
  <2> DEFINE S == {draft[e]} \ {None}
  <2>1. S \in SUBSET Versions /\ \A x \in Envelopes : current[x] \notin S
      BY <1>1, DraftNotApproved DEF TypeOK
  <2>2. vStatus[v] = None /\ draft[e] # v
      BY <1>1, PointerRows DEF EditDraft, WriteDraftVersion, InsertVersion, TablesInv
  <2>3. Retired' = Retired \cup S
      BY <1>1, <2>1, <2>2 DEF EditDraft, WriteDraftVersion, Superseding, Retired, RetiredStatus, TypeOK
  <2>4. UNCHANGED <<closureVars, current>>
      BY <1>2 DEF EditDraft, WriteDraftVersion
  <2> QED
      BY <2>1, <2>3, <2>4, RetireStep
<1>3. ASSUME UNCHANGED closureVars, ApplyStep PROVE Ledger!Next
  <2> PICK u \in Users, e \in Envelopes, v \in Versions, S \in SUBSET (Versions \cup {None}) :
           Submitting(u, e, v, S) /\ ApplyAtOnce(u, e, v, S)
      BY <1>3 DEF ApplyStep
  <2>1. S \subseteq {draft[e]} /\ v \notin S /\ vStatus[v] \in {None, "DRAFT"} /\ estatus[e] # "LOCKED"
      BY <1>1, SubmittingFacts
  <2> QED
      BY <1>3, <2>1, ApproveStep DEF ApplyAtOnce, MayWrite, closureVars
<1>4. ASSUME UNCHANGED closureVars, OpenStep PROVE Ledger!Next
  <2> PICK u \in Users, e \in Envelopes, v \in Versions, S \in SUBSET (Versions \cup {None}), p \in Policies, r \in Requests :
           Submitting(u, e, v, S) /\ OpenRequest(u, e, v, S, p, r)
      BY <1>4 DEF OpenStep
  <2>1. S \subseteq {draft[e]} /\ v \notin S /\ vStatus[v] \in {None, "DRAFT"}
      BY <1>1, SubmittingFacts
  <2>2. S \ {None} \in SUBSET Versions /\ \A x \in Envelopes : current[x] \notin S \ {None}
      BY <1>1, <2>1, DraftNotApproved
  <2>3. Retired' = Retired \cup (S \ {None})
      BY <1>1, <2>1, <2>2 DEF OpenRequest, Superseding, Retired, RetiredStatus, TypeOK
  <2>4. UNCHANGED <<closureVars, current>>
      BY <1>4 DEF OpenRequest
  <2> QED
      BY <2>2, <2>3, <2>4, RetireStep
<1>5. ASSUME UNCHANGED closureVars, CloseStep PROVE Ledger!Next
  <2> PICK r \in Requests, outcome \in {"REJECTED", "CHANGES_REQUESTED", "WITHDRAWN"} :
           Open(r) /\ estatus[EnvOf(r)] # "LOCKED" /\ CloseRequest(r, outcome)
      BY <1>5 DEF CloseStep
  <2> DEFINE S == IF outcome = "CHANGES_REQUESTED" THEN {} ELSE {rVersion[r]}
  <2>1. /\ rVersion[r] \in Versions /\ EnvOf(r) \in Envelopes
        /\ draft[EnvOf(r)] = rVersion[r] /\ vStatus[rVersion[r]] = "PENDING"
      BY <1>1, OpenDraft
  <2>2. S \in SUBSET Versions /\ \A x \in Envelopes : current[x] \notin S
      BY <1>1, <2>1, DraftNotApproved
  <2>3. Retired' = Retired \cup S
      BY <1>1, <2>1 DEF CloseRequest, Retired, RetiredStatus, TypeOK
  <2>4. UNCHANGED <<closureVars, current>>
      BY <1>5 DEF CloseRequest
  <2> QED
      BY <2>2, <2>3, <2>4, RetireStep
<1>6. ASSUME FinishStep PROVE Ledger!Next
  <2> PICK r \in Requests : /\ Open(r) /\ ApproveRequest(r)
                            /\ Overruling(r) \/ (estatus[EnvOf(r)] # "LOCKED" /\ UNCHANGED closureVars)
      BY <1>6 DEF FinishStep
  <2>1. rVersion[r] \in Versions /\ EnvOf(r) \in Envelopes /\ vStatus[rVersion[r]] = "PENDING"
      BY <1>1, OpenDraft
  <2>2. MayWrite(EnvOf(r))
      BY DEF MayWrite, Overruling, closureVars
  <2> QED
      BY <2>1, <2>2, ApproveStep DEF ApproveRequest
<1>7. ASSUME TablesUnchanged \/ (UNCHANGED closureVars /\ (NextStepStep \/ EscalateStep))
      PROVE  [Ledger!Next]_(Ledger!vars)
  <2>1. current' = current /\ Retired' = Retired
      BY <1>7 DEF TablesUnchanged, NextStepStep, NextStep, EscalateStep, Escalate, envelopeVars, versionVars, Retired
  <2>2. Ledger!Freeze(Frozen')
      BY <2>1 DEF Ledger!Freeze, Frozen, Retired
  <2> QED
      BY <2>2 DEF Ledger!Next, Frozen
<1> QED
    BY <1>1, <1>2, <1>3, <1>4, <1>5, <1>6, <1>7 DEF StepShape

\* Initially nothing is approved, retired or frozen.
LEMMA LedgerInit == Init => Ledger!Init
    BY NoneIsNone DEF Init, Ledger!Init, RetiredStatus, Covering, Freezing

\* The workflow keeps the ledger's promise to the readers of approved amounts:
\* every approved version gives way only to its successor, retired versions never
\* come back, and what changes under a closed period ends its freeze (recorded
\* evidence, the one way there is).
THEOREM LedgerCorrect == Spec => ImplementsLedger
<1>1. FreezeInv /\ [Next]_vars => FreezeInv'
    BY FreezeInvStep
<1>2. FreezeInv /\ [Next]_vars => [Ledger!Next]_(Ledger!vars)
    BY LedgerStep
<1> QED
    BY <1>1, <1>2, FreezeInvInit, LedgerInit, PTL DEF Spec, ImplementsLedger, Ledger!Spec
=============================================================================
