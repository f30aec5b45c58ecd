------------------------------ MODULE RunStages ------------------------------
(***************************************************************************)
(* The stages of a run, the legal edges between them and the outcomes a    *)
(* run can end with (src/internal/engine/transitions.go and the            *)
(* vocabulary of src/internal/model/validate.go).                          *)
(***************************************************************************)
EXTENDS Naturals

Stages ==
    {"GROUNDING", "ACCEPTANCE_CRITERIA", "PLANNING", "ROUTE_SELECTION",
     "IMPLEMENTATION_AUTHORIZATION", "IMPLEMENTATION_REVIEW", "VERIFICATION",
     "INDEPENDENT_VALIDATION", "RELEASE_AND_CLOSURE"}

\* Each stage's ordinary targets; the universal row is in IsLegalEdge.
ordinaryEdges ==
    [GROUNDING                    |-> {"ACCEPTANCE_CRITERIA"},
     ACCEPTANCE_CRITERIA          |-> {"PLANNING"},
     PLANNING                     |-> {"ROUTE_SELECTION"},
     ROUTE_SELECTION              |-> {"IMPLEMENTATION_AUTHORIZATION"},
     IMPLEMENTATION_AUTHORIZATION |-> {"IMPLEMENTATION_REVIEW", "ROUTE_SELECTION"},
     IMPLEMENTATION_REVIEW        |-> {"VERIFICATION", "ROUTE_SELECTION"},
     VERIFICATION                 |-> {"INDEPENDENT_VALIDATION", "ROUTE_SELECTION"},
     INDEPENDENT_VALIDATION       |-> {"IMPLEMENTATION_AUTHORIZATION", "PLANNING",
                                       "RELEASE_AND_CLOSURE", "ROUTE_SELECTION"},
     RELEASE_AND_CLOSURE          |-> {"ROUTE_SELECTION", "ACCEPTANCE_CRITERIA",
                                       "PLANNING"}]

IsLegalEdge(from, to) ==
    /\ from # to
    /\ \/ to \in {"GROUNDING", "PLANNING"}
       \/ to \in ordinaryEdges[from]

\* The failure outcomes, the one that takes precedence first.
FailurePrecedence == <<"BLOCKED", "UNKNOWN", "FAILED">>
FailureOutcomes == {FailurePrecedence[i] : i \in DOMAIN FailurePrecedence}

stoppingOutcomes == FailureOutcomes \cup {"ABORTED", "PARTIAL"}
closureOutcomes == {"VERIFIED_SUCCESS", "VERIFIED_WITH_WAIVERS"}
Outcomes == stoppingOutcomes \cup closureOutcomes

\* The stages whose approvals bind a produced head and diff.
ApprovalBindsHeadDiff(s) ==
    s \in {"IMPLEMENTATION_REVIEW", "VERIFICATION", "INDEPENDENT_VALIDATION",
           "RELEASE_AND_CLOSURE"}
==============================================================================
