------------------------- MODULE MCEnvelopeApproval -------------------------
(***************************************************************************)
(* Small instances of EnvelopeApproval.  ann plans, bob and cat approve,  *)
(* cat also in finance, and zoe is the workspace admin.                    *)
(***************************************************************************)
EXTENDS EnvelopeApproval, TLC

CONSTANTS ann, bob, cat, zoe

MCUsers   == {ann, bob, cat, zoe}
MCEditors == {ann, bob}
FewEditors == {ann, zoe}
MCAdmins  == {zoe}
FewUsers  == {ann, bob, zoe}
EscUsers  == {ann, cat, zoe}
EscEditors == {ann}
MCRoles   == {"PLANNER", "APPROVER", "FINANCE", "WORKSPACE_ADMIN"}
MCRolesOf == ann :> {"PLANNER", "APPROVER"} @@ bob :> {"APPROVER"}
             @@ cat :> {"APPROVER", "FINANCE"} @@ zoe :> {"WORKSPACE_ADMIN"}
EscRolesOf == [u \in EscUsers |-> MCRolesOf[u]]
FewRolesOf == [u \in FewUsers |-> MCRolesOf[u]]

ChainStep(role, min, escalateTo) ==
    [role |-> role, minApprovals |-> min, escalateTo |-> escalateTo, escalatedFrom |-> None]

\* Two approvers, then finance when they are late or for good.
TwoSteps == <<ChainStep("APPROVER", 2, "FINANCE"), ChainStep("FINANCE", 1, "WORKSPACE_ADMIN")>>
Escalating == <<ChainStep("APPROVER", 1, "FINANCE"), ChainStep("FINANCE", 1, "WORKSPACE_ADMIN")>>
OneStep  == <<ChainStep("APPROVER", 1, None)>>

MCPolicy(chain, block, evidence) ==
    [chain |-> chain, blockSelfApproval |-> block, allowExternalEvidence |-> evidence]

\* Escalating, or not.
EscalatingPolicies == {MCPolicy(Escalating, TRUE, FALSE), MCPolicy(OneStep, TRUE, FALSE)}
EvidencePolicies == {MCPolicy(OneStep, TRUE, TRUE)}
MixedPolicies    == {MCPolicy(TwoSteps, TRUE, TRUE), MCPolicy(OneStep, FALSE, FALSE)}

Symmetric == Permutations(Envelopes) \cup Permutations(Versions)
             \cup Permutations(Requests) \cup Permutations(Closures)
=============================================================================
