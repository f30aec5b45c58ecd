------------------------------ MODULE PlanRules ------------------------------
(***************************************************************************)
(* The plans HMA accepts, and how a plan fits the contract it binds        *)
(* (src/internal/model/contract.go).                                       *)
(*                                                                         *)
(* A plan is [contract, policy, units], its units a function from ids to   *)
(* [deps, advances, routes, perms, wall, attempts, cost].  A contract is   *)
(* [id, criteria, policy, routes, envelope, wall, attempts, cost].  Texts, *)
(* lists of files and actions and the encoding of documents are left out.  *)
(***************************************************************************)
EXTENDS Naturals

MaxWallMinutesLimit == 525600

validateUnit(u) ==
    /\ u.advances # {} /\ u.perms # {} /\ u.routes # {}
    /\ u.attempts > 0 /\ u.cost > 0
    /\ u.wall \in 1..MaxWallMinutesLimit

-----------------------------------------------------------------------------
(* The depth-first search for a cycle: units that are open are on the path *)
(* the search is on, those that are done lead to no cycle.                 *)

RECURSIVE visit(_, _, _), visitAll(_, _, _)

visit(deps, u, s) ==
    IF u \in s.open THEN [s EXCEPT !.cycle = TRUE]
    ELSE IF u \in s.done THEN s
    ELSE LET t == visitAll(deps, deps[u], [s EXCEPT !.open = @ \cup {u}])
         IN  IF t.cycle THEN t
             ELSE [t EXCEPT !.open = @ \ {u}, !.done = @ \cup {u}]

\* One after the other, until a cycle is found.
visitAll(deps, us, s) ==
    IF us = {} \/ s.cycle THEN s
    ELSE LET u == CHOOSE v \in us : TRUE
         IN  visitAll(deps, us \ {u}, visit(deps, u, s))

FindsCycle(deps) ==
    visitAll(deps, DOMAIN deps, [open |-> {}, done |-> {}, cycle |-> FALSE]).cycle

-----------------------------------------------------------------------------
ValidatePlan(p) ==
    LET ids == DOMAIN p.units IN
    /\ ids # {}
    /\ \A u \in ids : validateUnit(p.units[u]) /\ p.units[u].deps \subseteq ids \ {u}
    /\ ~FindsCycle([u \in ids |-> p.units[u].deps])

\* A conflict with the contract's routes, permissions, criteria or ceilings
\* fails; so does a criterion no unit advances.
ValidatePlanAgainstContract(p, k) ==
    /\ p.contract = k.id /\ p.policy = k.policy
    /\ \A u \in DOMAIN p.units :
          LET v == p.units[u] IN
          /\ v.routes \subseteq k.routes /\ v.perms \subseteq k.envelope
          /\ v.advances \subseteq k.criteria
          /\ v.attempts <= k.attempts /\ v.wall <= k.wall /\ v.cost <= k.cost
    /\ k.criteria \subseteq UNION {p.units[u].advances : u \in DOMAIN p.units}
===============================================================================
