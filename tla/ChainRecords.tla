---------------------------- MODULE ChainRecords ----------------------------
(***************************************************************************)
(* The records of a run's core chain, and what replaying a chain says:     *)
(* ProjectStageState, ProjectResolutionState and the contract projections  *)
(* of src/internal/engine.  Everything here is a function of a chain; the  *)
(* code's forward replay ("the latest such record wins") is written as     *)
(* "the last record such that".                                            *)
(*                                                                         *)
(* A record has one field per optional part, None (or the empty map) where *)
(* the part is absent.  sealed holds the findings the record's head anchor *)
(* was computed over: a chain whose findings differ from it fails digest   *)
(* verification when it is next read.                                      *)
(***************************************************************************)
EXTENDS RunStages, Sequences, SequencesExt

CONSTANT None      \* an absent part

NoMap == <<>>

Blank ==
    [kind |-> "finding", control |-> None, stage |-> None, unit |-> None,
     outcome |-> None, approval |-> None, evidence |-> None,
     resolution |-> None, criteria |-> NoMap, findings |-> NoMap,
     snapshot |-> FALSE, sealed |-> NoMap]

Before(c, i) == SubSeq(c, 1, i - 1)

-----------------------------------------------------------------------------
(* ProjectStageState.                                                      *)

\* Only an APPROVED stage_transition moves the run.
ApprovedMove(r) ==
    /\ r.kind = "stage_transition"
    /\ r.control = "APPROVED"
    /\ r.approval # None
    /\ r.approval.to # None

CurrentStage(c) ==
    LET i == SelectLastInSeq(c, ApprovedMove)
    IN  IF i = 0 THEN "GROUNDING" ELSE c[i].approval.to

\* Mutant: a run stopped without a failure goes on.
TerminalOnFailure(c) == \E i \in DOMAIN c : c[i].outcome \in FailureOutcomes

Terminal(c) == \E i \in DOMAIN c : c[i].kind = "outcome"

\* The challenge nonce a record spends, of whichever record family it is.
Nonce(r) ==
    IF r.approval # None THEN r.approval.nonce
    ELSE IF r.resolution # None THEN r.resolution.nonce
    ELSE None

\* Mutant: a challenge answered with a resolution counts as unspent.
ApprovalNonces(c) ==
    {c[i].approval.nonce : i \in {j \in DOMAIN c : c[j].approval # None}}

UsedNonces(c) == {Nonce(c[i]) : i \in DOMAIN c} \ {None}

\* Mutant: human resolutions leave the classification live.
Reclassifies(r, unit) == r.unit = unit /\ r.kind = "classification"

\* A classification is live until its unit is classified again, or a human
\* waiver operation or finding override names the unit.
Supersedes(r, unit) ==
    /\ r.unit = unit
    /\ r.kind = "classification" \/ r.resolution # None

LiveFailures(c) ==
    {c[i].approval.outcome : i \in
        {j \in DOMAIN c :
            /\ c[j].kind = "classification"
            /\ \A k \in (j + 1)..Len(c) : ~Supersedes(c[k], c[j].unit)}}

FailureOutcome(c) ==
    LET live == LiveFailures(c)
        i == SelectInSeq(FailurePrecedence, LAMBDA o : o \in live)
    IN  IF i = 0 THEN None ELSE FailurePrecedence[i]

Evidence(c) == {c[i].evidence : i \in DOMAIN c} \ {None}

\* The latest criterion snapshot, a map from criterion ids to dispositions.
Criteria(c) ==
    LET i == SelectLastInSeq(c, LAMBDA r : r.criteria # NoMap)
    IN  IF i = 0 THEN NoMap ELSE c[i].criteria

-----------------------------------------------------------------------------
(* ProjectResolutionState.                                                 *)

SetsFindings(r) == r.snapshot \/ r.findings # NoMap

Overrides(r, id) ==
    /\ r.resolution # None
    /\ r.resolution.op = "OVERRIDE"
    /\ r.resolution.scope.target = id

\* The findings record k of c set, as the overrides after it left them.
FindingsSince(c, k) ==
    [id \in DOMAIN c[k].findings |->
        LET j == SelectLastInSeq(c, LAMBDA r : Overrides(r, id))
        IN  IF j > k
            THEN [c[k].findings[id] EXCEPT !.disp = c[j].resolution.disp]
            ELSE c[k].findings[id]]

Findings(c) ==
    LET k == SelectLastInSeq(c, SetsFindings)
    IN  IF k = 0 THEN NoMap ELSE FindingsSince(c, k)

ActiveWaivers(c) ==
    LET Operates(r, s) ==
            /\ r.resolution # None
            /\ r.resolution.op # "OVERRIDE"
            /\ r.resolution.scope = s
        scopes == {c[i].resolution.scope :
                     i \in {j \in DOMAIN c : c[j].resolution # None}}
        last(s) == SelectLastInSeq(c, LAMBDA r : Operates(r, s))
    IN  {s \in scopes : last(s) # 0 /\ c[last(s)].resolution.op = "GRANT"}

\* Replaying a chain applies an override to the findings of the record that
\* set them: a findings list that is not a snapshot is taken by reference, so
\* the replayed records themselves carry the overridden dispositions.
Replayed(c) ==
    [i \in DOMAIN c |->
        IF c[i].findings = NoMap \/ c[i].snapshot THEN c[i]
        ELSE LET later == {j \in (i + 1)..Len(c) : SetsFindings(c[j])}
                 upTo == IF later = {} THEN c
                         ELSE Before(c, CHOOSE j \in later : \A k \in later : j <= k)
             IN  [c[i] EXCEPT !.findings = FindingsSince(upTo, i)]]

\* Every record's digest is its head anchor: the chain can be read.
Verifies(c) == \A i \in DOMAIN c : c[i].findings = c[i].sealed

-----------------------------------------------------------------------------
(* Contract projections.                                                   *)

AcceptsContract(r) ==
    /\ ApprovedMove(r)
    /\ r.approval.from = "ACCEPTANCE_CRITERIA"
    /\ r.approval.to = "PLANNING"

BoundContractDigest(c) ==
    LET i == SelectLastInSeq(c, AcceptsContract)
    IN  IF i = 0 THEN None ELSE c[i].approval.contract

\* The criteria the chain carried when the bound contract was accepted.
AcceptedCriteria(c) ==
    LET i == SelectLastInSeq(c, AcceptsContract)
    IN  IF i = 0 THEN NoMap ELSE Criteria(SubSeq(c, 1, i))

usedContract(c) ==
    \E i \in DOMAIN c : c[i].approval # None /\ c[i].approval.contract # None
=============================================================================
