------------------------------ MODULE RunControl ------------------------------
(***************************************************************************)
(* What a run's chain promises about control, with no records, commands or *)
(* repository in sight: a run is in one stage, moves only along legal      *)
(* edges, never moves or ends again once it ended, and every human         *)
(* decision spends a challenge that was never spent before.  The run may   *)
(* be picked up at any stage, with any challenges already spent.           *)
(*                                                                         *)
(* Source: the package comment of src/internal/engine/transitions.go and   *)
(* the contract of StageState in src/internal/engine/stage_state.go.       *)
(***************************************************************************)
EXTENDS RunStages

CONSTANTS Nonces,  \* challenges a human decision can answer
          None     \* no outcome yet

VARIABLES stage,   \* the stage the run is in
          outcome, \* how the run ended, None while it is open
          spent    \* the challenges already answered

controlVars == <<stage, outcome, spent>>

ControlInit ==
    /\ stage \in Stages
    /\ outcome = None
    /\ spent \in SUBSET Nonces

\* A human decision answers a fresh challenge.
Spend ==
    \E n \in Nonces \ spent : spent' = spent \cup {n}

\* A decision that leaves the run where it is: a classification, an approval
\* recorded with evidence, a waiver, a finding disposition.
Decide == Spend /\ UNCHANGED <<stage, outcome>>

Move ==
    /\ outcome = None
    /\ Spend
    /\ IsLegalEdge(stage, stage')
    /\ stage' \in Stages
    /\ UNCHANGED outcome

Stop ==
    /\ outcome = None
    /\ Spend
    /\ outcome' \in stoppingOutcomes
    /\ UNCHANGED stage

ControlNext == Decide \/ Move \/ Stop

ControlSpec == ControlInit /\ [][ControlNext]_controlVars
===============================================================================
