------------------------------- MODULE MCDriver -------------------------------
(***************************************************************************)
(* Small instances of Driver: one unit that advances one of the contract's *)
(* two criteria, and two seats with nothing in common.                     *)
(***************************************************************************)
EXTENDS Driver

CONSTANTS u1, c1, x, y

MCCriteriaOf == [k \in {c1} |-> {x, y}]
MCRiskOf == [k \in {c1} |-> 1]
MCPlanUnit ==
    [k \in {c1} |->
        [perms |-> {"bounded_write", "no_external_effect"}, milestone |-> FALSE,
         criteria |-> {x}, wall |-> 2]]
MCClassesAt == NoMap

Seat(w, writes) ==
    [worker |-> w, model |-> w, provider |-> w, family |-> w, context |-> w, writes |-> writes]
ming == Seat("ming", TRUE)
phil == Seat("phil", FALSE)
===============================================================================
