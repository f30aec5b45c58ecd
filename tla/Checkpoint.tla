------------------------------ MODULE Checkpoint ------------------------------
(***************************************************************************)
(* The checkpoint classifier (src/internal/engine/checkpoint.go): which    *)
(* triggers a change to a unit fires, and the review level, risk and       *)
(* reviewer separation they call for.                                      *)
(*                                                                         *)
(* A changed path is its sequence of segments, a checkpoint policy a set   *)
(* of rules [glob, classes]; no policy is the empty one.  The classifier's  *)
(* input names the bound contract's risk, the baseline and the current     *)
(* [contract, perms], the manifest as the set of class sets of the changed *)
(* paths, and the unit's stage, milestone flag and review request.  Risks  *)
(* are their ranks: 1 low, 2 medium, 3 high, 4 critical, 0 none.           *)
(***************************************************************************)
EXTENDS RunStages, Sequences, FiniteSetsExt

High == 3

InterfaceClasses == {"public_interface", "persisted_schema", "protocol"}
EffectClasses    == {"external_effect", "irreversible"}
ControlClasses   == {"security", "approval", "routing", "evidence", "closure"}
PolicyClasses    == InterfaceClasses \cup EffectClasses \cup ControlClasses \cup {"ordinary"}

-----------------------------------------------------------------------------
(* Policies and paths.                                                     *)

\* "*" stands for one segment, "**" for any number; m[i, j]: the glob from i
\* on matches the path from j on.
matchCheckpointGlob(glob, path) ==
    LET m[i \in 1..(Len(glob) + 1), j \in 1..(Len(path) + 1)] ==
            IF i > Len(glob) THEN j > Len(path)
            ELSE IF glob[i] = "**"
            THEN m[i + 1, j] \/ (j <= Len(path) /\ m[i, j + 1])
            ELSE j <= Len(path) /\ glob[i] \in {"*", path[j]} /\ m[i + 1, j + 1]
    IN  m[1, 1]

\* A rule that makes every path ordinary is refused.
ValidateCheckpointPolicy(policy) ==
    /\ policy # {}
    /\ \A r \in policy : r.classes # {} /\ r.classes \subseteq PolicyClasses
    /\ \A r \in policy : ~(r.glob = <<"**">> /\ r.classes = {"ordinary"})

\* The classes of a changed path: those of every rule that matches it.
PathClasses(policy, path) ==
    UNION {r.classes : r \in {q \in policy : matchCheckpointGlob(q.glob, path)}}

classifyChangedPaths(policy, paths) == {PathClasses(policy, p) : p \in paths}

-----------------------------------------------------------------------------
(* ClassifyCheckpoint.                                                     *)

maxRouteRisk(risks) == Max(risks)

Touches(in, classes) == \E p \in in.manifest : p \cap classes # {}

FinalClosure(in) ==
    in.outcome \in closureOutcomes \cup {"PARTIAL"} \/ in.stage = "RELEASE_AND_CLOSURE"

RiskFloor(in) ==
    IF Touches(in, InterfaceClasses \cup EffectClasses \cup ControlClasses) THEN High ELSE 1

CombinedRisk(in) == maxRouteRisk({in.risk, in.hostRisk, RiskFloor(in)})

Triggers(in) ==
    {t \in {"CONTRACT_OR_PERMISSION", "INTERFACE", "EXTERNAL_EFFECT", "CONTROL_LOGIC",
            "MILESTONE", "FINAL_CLOSURE", "UNCLASSIFIED", "HIGH_RISK"} :
        CASE t = "CONTRACT_OR_PERMISSION" -> in.current # in.baseline
          [] t = "INTERFACE" -> Touches(in, InterfaceClasses)
          [] t = "EXTERNAL_EFFECT" ->
                Touches(in, EffectClasses) \/ "no_external_effect" \notin in.current.perms
          [] t = "CONTROL_LOGIC" -> Touches(in, ControlClasses)
          [] t = "MILESTONE" -> in.milestone /\ in.stage = "INDEPENDENT_VALIDATION"
          [] t = "FINAL_CLOSURE" -> FinalClosure(in)
          [] t = "UNCLASSIFIED" -> {} \in in.manifest
          [] t = "HIGH_RISK" -> CombinedRisk(in) >= High}

\* The review levels by rank: 1 per_change, 2 checkpoint, 3 final.
IssuingLevel(in) ==
    IF FinalClosure(in) THEN 3
    ELSE IF in.stage = "INDEPENDENT_VALIDATION" /\ Triggers(in) # {} THEN 2 ELSE 1

ClassifyCheckpoint(in) ==
    [level        |-> IssuingLevel(in),
     triggers     |-> Triggers(in),
     unclassified |-> {} \in in.manifest,
     family       |-> CombinedRisk(in) >= High \/ in.disputed \/ FinalClosure(in),
     floor        |-> RiskFloor(in),
     required     |-> maxRouteRisk({in.risk, RiskFloor(in)})]
===============================================================================
